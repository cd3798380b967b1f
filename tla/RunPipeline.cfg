SPECIFICATION Spec
CONSTANTS
  Files <- MCFiles
  Fresh <- MCFresh
  MaxMoves = 2
  Profiles <- MCProfiles
  Links <- MCLinks
  Directories <- MCDirectories
  GitLinks <- MCGitLinks
INVARIANTS
  DiffIsTheAgentsWork
  TreesAreDeclared
  PassMeansReviewed
  SecretsStayHome
  RedactionIsDisclosed
  AnswerIsWhole
  WordsAreClean
  RunIsAsAdvertised
  AdviceIsSound
