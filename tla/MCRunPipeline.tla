--------------------------- MODULE MCRunPipeline ---------------------------
(* RunPipeline on the profiles of several questions: where a run starts,   *)
(* diffs with secrets in them, a review of the working tree while it       *)
(* changes, one that is cut, redacted or focused, reviews of a branch, a   *)
(* delegate whose caller goes on working, one whose git commands fail, and *)
(* every output of every backend.                                          *)
EXTENDS RunPipeline, TLC

MCFiles == {"old", "new"}
MCFresh == {"new"}

MCClean == [f \in MCFiles |-> IF f = "old" THEN Committed ELSE Absent]
MCChanged == [MCClean EXCEPT !["old"] = Edited]
MCAdded == [MCClean EXCEPT !["new"] = Edited]

MCShell ==
  [entries |-> <<>>, settings |-> {}, isolation |-> "inherit", mode |-> "inherit",
   askedMode |-> "none", access |-> "none", model |-> FALSE, effort |-> "none", turn |-> FALSE,
   home |-> "unset", catalog |-> "silent", probed |-> FALSE, lists |-> {}, gone |-> {},
   vars |-> {}, fate |-> "other", wrong |-> {}, keyed |-> FALSE]

(* The directories of a client: its roots "r" and "q", links out of and    *)
(* into "r", and a worktree of it.                                         *)
MCDirectories == {<<"r">>, <<"r", "in">>, <<"q">>, <<"o">>, <<"o", "wt">>}
MCLinks == <<"r", "link">> :> <<"o">> @@ <<"o", "link">> :> <<"r", "in">>
MCGitLinks ==
  <<"r">> :> [checkout |-> <<"r">>, mutual |-> FALSE] @@
  <<"o">> :> [checkout |-> <<"q">>, mutual |-> FALSE] @@
  <<"o", "wt">> :> [checkout |-> <<"r">>, mutual |-> TRUE]

MCRoot(path) == [file |-> TRUE, path |-> path]
MCPlace ==
  [asked |-> NoPath, client |-> "answers", roots |-> <<MCRoot(<<"r">>)>>, cwd |-> <<"r">>,
   allowed |-> FALSE]

MCSpec(verb, backend, scope, events, answers) ==
  [verb |-> verb, backend |-> backend, scope |-> scope, paths |-> {}, untracked |-> "include",
   focused |-> FALSE, cap |-> 4, secret |-> {}, source |-> {},
   text |-> [f \in MCFiles |-> <<LineOf("body", <<"space">>)>>],
   events |-> events, answers |-> answers, shell |-> MCShell, place |-> MCPlace,
   words |-> <<>>]

MCProfile(request, kinds, trees) ==
  [spec |-> request, kinds |-> kinds, heads |-> {MCClean}, indexes |-> {MCClean},
   trees |-> trees]

MCTrees == {MCClean, MCChanged, MCAdded}

MCWhileItChanges ==
  {[MCProfile(MCSpec("review_changes", "codex", "working_tree",
                     {"edit", "stage", "commit", "reset"}, "parsed"), {"repo"}, MCTrees)
      EXCEPT !.indexes = {MCClean, MCChanged}]}

MCInPart ==
  {MCProfile([MCSpec("review_changes", "codex", part[1], trouble[1], "parsed")
                EXCEPT !.paths = paths, !.untracked = part[2], !.cap = limit[1],
                       !.secret = limit[2], !.focused = limit[3]],
             trouble[2], {[f \in MCFiles |-> Edited]}) :
     trouble \in {<<{"edit"}, {"repo"}>>, <<{"git", "vanish"}, Kinds>>},
     part \in {<<"working_tree", "explicit_only">>, <<"working_tree", "exclude">>,
               <<"branch", "include">>},
     paths \in {{}, {"new"}},
     limit \in {<<1, {}, FALSE>>, <<4, {"old"}, FALSE>>, <<4, {}, TRUE>>}}

MCDelegates ==
  {MCProfile(MCSpec("delegate", "codex", "none", events, "final"), kinds,
             {MCClean, [f \in MCFiles |-> Edited]}) :
     <<events, kinds>> \in {<<{"edit", "stage", "commit", "writes", "commits"}, {"repo"}>>,
       <<{"git", "hang", "hook", "reject", "dirty", "stuck", "writes", "cancel", "kill", "vanish"}, Kinds>>}}

MCAnswers ==
  {MCProfile(MCSpec(call[1], call[2], "none", {"vanish", "git", "hang", "writes", "cancel"}, "all"),
             {"repo", "plain"}, {MCClean}) :
     call \in {<<"consult", "codex">>, <<"consult", "claude">>, <<"consult", "kimi">>,
               <<"adversarial_review", "claude">>, <<"delegate", "codex">>,
               <<"delegate", "kimi">>}}

MCContents ==
  {<<"space">>, <<"value">>, <<"label", "value">>, <<"label", "vendor", "value">>,
   <<"value", "vendor">>, <<"vendor", "at">>, <<"label", "value", "at">>,
   <<"label", "value", "call">>, <<"quoted", "value", "call">>, <<"label", "value", "vendor">>}
MCKeys ==
  {<<"begin">>, <<"begin", "value">>, <<"value", "end">>, <<"end", "label", "value">>,
   <<"value", "begin", "value", "end", "vendor">>}
MCOdd ==
  {LineOf("meta", <<"space">>), LineOf("auth", <<"label", "value", "call">>),
   LineOf("secret", <<>>)}
MCBodies(contents) == {LineOf("body", c) : c \in contents}

MCTexts ==
  [1..2 -> MCBodies(MCContents \cup MCKeys) \cup MCOdd] \cup
  [1..3 -> MCBodies({<<"value">>, <<"label", "value">>} \cup MCKeys) \cup MCOdd]

MCSecrets ==
  {[MCProfile([MCSpec("review_changes", "codex", "working_tree", {}, "final")
                EXCEPT !.cap = cap, !.source = source, !.text["old"] = text,
                       !.secret = {"new"}], {"repo"}, {[f \in MCFiles |-> Edited]})
      EXCEPT !.indexes = {index}] :
     cap \in {3, 8}, source \in {{}, {"old"}}, text \in MCTexts,
     index \in {MCClean, [f \in MCFiles |-> Absent]}}

(* Where a run may start: the operator's arguments and the files with what *)
(* this codex refuses in them; the modes of claude; kimi's catalog; a CLI  *)
(* that no longer knows a word, or whose --help lists none; how a run that *)
(* started fails.                                                          *)
MCEntry(flag, name, plain) == [flag |-> flag, name |-> name, plain |-> plain]
MCSetting(key, wrong, where) == [key |-> key, wrong |-> wrong, where |-> where]

MCEntries ==
  {<<>>, <<MCEntry("-p", "work", TRUE)>>, <<MCEntry("-c", "tools", TRUE)>>,
   <<MCEntry("--disable", "shell_tool", TRUE)>>,
   <<MCEntry("-p", "work", TRUE), MCEntry("-c", "tools.web_search", FALSE)>>} \cup
  {<<MCEntry("-c", key, plain)>> :
     key \in {NetworkKey, "sandbox_mode", "features", "features.goals", TurnKey},
     plain \in BOOLEAN} \cup
  {<<MCEntry("--enable", f, plain)>> : f \in {"goals", "web"}, plain \in BOOLEAN}

MCSettings ==
  {{}} \cup
  {{MCSetting(key, wrong, where)} :
     key \in {EffortKey, "tools.web_search", "typo"}, wrong \in {"unknown", "value", "retired"},
     where \in {"profile", "config"}} \cup
  {{MCSetting("tools", wrong, "argv")} : wrong \in {"unknown", "value", "retired"}}

MCGone ==
  {{}, {"-c"}, {"--disable"}, {"--sandbox"}, {"goals"}, {"shell_tool"}, {NetworkKey}, {EffortKey},
   {"--model"}, {"--effort"}, {"--agent-file"}}

MCRuns(verbs, backend, scope, shells) ==
  {MCProfile([MCSpec(verb, backend, scope, {}, "fails") EXCEPT !.shell = shell],
             {"repo"}, {MCChanged}) : verb \in verbs, shell \in shells}

MCCodexShells ==
  {[MCShell EXCEPT !.entries = entries, !.settings = settings, !.effort = effort,
                   !.isolation = isolation] :
     entries \in MCEntries, settings \in MCSettings, effort \in {"none", "known"},
     isolation \in {"inherit", "ignore-config"}}

MCFailingShells ==
  {[MCShell EXCEPT !.entries = entries, !.gone = gone, !.effort = effort, !.turn = effort = "odd"] :
     entries \in MCEntries, gone \in MCGone, effort \in {"none", "odd"}} \cup
  {[MCShell EXCEPT !.fate = fate, !.effort = effort, !.keyed = keyed, !.home = home] :
     fate \in {"other", "auth", "rate", "effort"}, effort \in {"none", "odd"}, keyed \in BOOLEAN,
     home \in {"absolute", "relative"}}

MCClaudeShells ==
  {[MCShell EXCEPT !.mode = mode, !.askedMode = asked, !.access = access, !.vars = vars_] :
     mode \in {"inherit", "scoped", "safe", "bare"},
     asked \in {"none", "inherit", "scoped", "safe", "bare"},
     access \in {"none", "toolless", "readonly"}, vars_ \in {{}, {"ANTHROPIC_API_KEY"}}} \cup
  {[MCShell EXCEPT !.effort = effort, !.model = TRUE, !.probed = probed, !.lists = lists,
                   !.gone = gone] :
     effort \in {"none", "known", "odd"}, probed \in BOOLEAN,
     lists \in {{}, {"--model", "--effort"}}, gone \in MCGone} \cup
  {[MCShell EXCEPT !.fate = fate, !.keyed = keyed] :
     fate \in {"other", "auth", "rate", "key", "budget"}, keyed \in BOOLEAN}

MCKimiShells ==
  {[MCShell EXCEPT !.isolation = isolation, !.model = model, !.effort = effort,
                   !.catalog = catalog, !.probed = probed, !.gone = gone,
                   !.vars = {"KIMI_CODE_TRUST_WORKSPACE"}] :
     isolation \in {"inherit", "ignore-skills"}, model \in BOOLEAN,
     effort \in {"none", "known", "odd"}, catalog \in {"lists", "silent", "unlisted"},
     probed \in BOOLEAN, gone \in {{}, {"--model"}, {"--agent-file"}, {"--prompt"}}} \cup
  {[MCShell EXCEPT !.fate = fate, !.keyed = keyed] :
     fate \in {"other", "auth", "rate", "default_model"}, keyed \in BOOLEAN}

MCShells ==
  {MCRuns({"consult", "delegate"}, "codex", "none", MCCodexShells),
   MCRuns({"consult", "delegate"}, "codex", "none", MCFailingShells),
   MCRuns({"consult", "adversarial_review"}, "claude", "none", MCClaudeShells),
   MCRuns({"consult", "delegate"}, "kimi", "none", MCKimiShells),
   MCRuns({"review_changes"}, "codex", "working_tree",
          {[MCShell EXCEPT !.wrong = wrong, !.turn = TRUE] :
             wrong \in SUBSET {"backend", "placeholder", "size"}})}

(* What a backend writes: fragments of secrets, keys, paths and artifacts, *)
(* with ends of lines and control characters between them and in them.     *)
MCGlue(a, b) == Front(a) \o <<Last(a) \o b[1]>> \o Tail(b)
MCBreak == << <<>>, <<>> >>
MCPhrases(phrases) == {MCBreak, << <<>> >>} \cup {<<p>> : p \in phrases}

MCSpeech(phrases, n) == {FoldLeft(MCGlue, << <<>> >>, s) : s \in [1..n -> MCPhrases(phrases)]}

MCWords(length) ==
  MCSpeech({<<"label", "value">>, <<"label", "bit", "esc", "bit">>, <<"word">>, <<"esc">>}, length) \cup
  MCSpeech({<<"begin", "value">>, <<"end-", "esc", "-end">>, <<"end">>, <<"word">>}, length) \cup
  MCSpeech({<<"root", "slash", "word">>, <<"file", "scheme", "root">>, <<"root-", "esc", "-root">>,
            <<"label", "root", "slash", "bit">>, <<"dot">>, <<"esc">>, <<"word">>,
            <<"label", "value", "eq", "file", "scheme", "root">>}, 3) \cup
  MCSpeech({<<"artifact">>, <<"artifact", "dot">>, <<"artifact-", "esc", "-artifact">>,
            <<"word">>, <<"esc">>, <<"label">>}, 3)

MCSays ==
  {MCProfile([MCSpec(call[1], call[2], "none", {}, "either") EXCEPT !.words = words],
             {"repo"}, {MCClean}) :
     <<call, words>> \in ({<<"consult", "codex">>} \X MCWords(4)) \cup
                         ({<<"delegate", "kimi">>} \X MCWords(3))}

(* Where a call may name its workspace, and what its client answers.       *)
MCPlaces ==
  {MCProfile([MCSpec(verb, "codex", "none", {}, "final") EXCEPT
                !.place = [MCPlace EXCEPT !.asked = asked, !.client = client, !.roots = roots,
                             !.cwd = cwd, !.allowed = allowed]], {"repo"}, {MCClean}) :
     verb \in {"consult", "delegate"},
     asked \in {NoPath, <<"r">>, <<"r", "in">>, <<"r", "link">>, <<"o">>, <<"o", "link">>,
               <<"o", "wt">>, <<"gone">>, <<".">>},
     client \in {"silent", "fails", "answers"},
     roots \in {<<>>, <<MCRoot(<<"r">>)>>, <<MCRoot(<<"r", "link">>)>>, <<MCRoot(<<>>), MCRoot(<<"q">>)>>,
               <<MCRoot(<<"gone">>), MCRoot(<<"r">>)>>, <<[file |-> FALSE, path |-> <<"o">>]>>},
     cwd \in {<<"r">>, <<"gone">>}, allowed \in BOOLEAN}

(* A dry run before the call, and the caller working on.                   *)
MCPreviews ==
  {MCProfile([MCSpec(call[1], "codex", call[2], {"preview", "edit"} \cup faults, "final")
                EXCEPT !.shell.wrong = wrong, !.untracked = policy], Kinds,
             {MCClean, [f \in MCFiles |-> Edited]}) :
     call \in {<<"review_changes", "working_tree">>, <<"delegate", "none">>},
     faults \in {{}, {"git"}, {"hang", "vanish"}}, wrong \in {{}, {"size"}},
     policy \in {"include", "exclude"}}

MCProfiles == MCShells \cup {MCPlaces, MCPreviews, MCSays, MCSecrets, MCWhileItChanges,
                          MCInPart, MCDelegates, MCAnswers}
=============================================================================
