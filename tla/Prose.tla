------------------------------- MODULE Prose -------------------------------
(***************************************************************************)
(* What amicus does to a text of a backend's before a caller reads it:     *)
(* src/src/amicus/sdk/core/pathalias.py, the text half of redaction.py,    *)
(* and the routes through orchestration/finalize.py and jobs/delivery.py.  *)
(*                                                                         *)
(* A text is a sequence of lines of tokens; a line feed is between two of  *)
(* them, "esc" is any other control character and no delimiter, and "x-"   *)
(* and "-x" are the two parts of an x.  A label and its value are on one   *)
(* line.                                                                   *)
(***************************************************************************)
EXTENDS Redaction

Texts == Seq(Seq(Tokens))
OneLine(text) == <<FlattenSeq(text)>>
TokensIn(text) == UNION {ToSet(text[n]) : n \in DOMAIN text}
EachLine(Op(_), text) == [n \in DOMAIN text |-> Op(text[n])]

(* redact_text: the key blocks line by line, then the values of the rest.  *)
Joins(done, r) == [out |-> Append(done.out, r.line), open |-> r.open]

KeyPass(text) ==
  FoldLeft(LAMBDA done, line : Joins(done, RedactKeys(line, done.open)),
           [out |-> <<>>, open |-> FALSE], text)

RedactText(text) == EachLine(LAMBDA line : RedactValues(line, FALSE).line, KeyPass(text).out)

-----------------------------------------------------------------------------
(* Deleting control characters joins what they were wedged into.           *)
HalvesOf ==
  [begin |-> <<"begin-", "-begin">>, end |-> <<"end-", "-end">>, root |-> <<"root-", "-root">>,
   artifact |-> <<"artifact-", "-artifact">>]

Meet(line, k) ==
  {x \in DOMAIN HalvesOf : 0 < k /\ k < Len(line) /\ <<line[k], line[k + 1]>> = HalvesOf[x]}

Joined(line) ==
  FlattenSeq([k \in DOMAIN line |-> IF Meet(line, k - 1) # {} THEN <<>>
                                    ELSE IF Meet(line, k) # {} THEN SetToSeq(Meet(line, k))
                                    ELSE <<line[k]>>])

Deleted(line) == Joined(SelectSeq(line, LAMBDA token : token # "esc"))
KeepingLines(text) == EachLine(Deleted, text)
Collapsing(text) == EachLine(Deleted, OneLine(text))

(* _preserving_key_block_failure: a block that ran to the end of the text  *)
(* still does, from the last BEGIN on.                                     *)
EndsInside(text) == KeyPass(text).open

LastBegin(text) == Max({n \in DOMAIN text : "begin" \in ToSet(text[n])})

CutAtLastBegin(text) ==
  LET n == LastBegin(text)
      k == Max({i \in DOMAIN text[n] : text[n][i] = "begin"})
  IN  Append(SubSeq(text, 1, n - 1), Append(SubSeq(text[n], 1, k), "masked"))

(* Mutant: what the stripped text says of its blocks is what counts.       *)
PreservingNothing(stripped, original) == stripped

Preserving(stripped, original) ==
  IF EndsInside(original) /\ ~EndsInside(stripped) THEN CutAtLastBegin(stripped) ELSE stripped

(* The lines are kept if the text with and without them says the same.     *)
Agreeing(keeping, collapsed) == IF OneLine(keeping) = collapsed THEN keeping ELSE collapsed

SanitizeEchoProse(text) ==
  Agreeing(RedactText(Preserving(KeepingLines(text), text)),
           RedactText(Preserving(Collapsing(text), text)))

-----------------------------------------------------------------------------
(* A path of the worktree, alone or as a URI, where it is the whole        *)
(* leading part of a path; before a dot that ends a sentence it is odd.    *)
LeftDelims == {"space", "eq", "label", "quoted", "call"}
RightDelims == {"slash", "space", "quoted", "scheme", "root", "root-", "artifact", "artifact-"}

Spelling(line, i) ==
  IF line[i] = "root" THEN 1
  ELSE IF i + 2 <= Len(line) /\ SubSeq(line, i, i + 2) = <<"file", "scheme", "root">> THEN 3
  ELSE 0

EndsAt(line, j) == j > Len(line) \/ line[j] \in RightDelims
IsOdd(line, i) ==
  LET j == i + Spelling(line, i) IN j <= Len(line) /\ line[j] = "dot" /\ EndsAt(line, j + 1)

IsPath(line, i) ==
  /\ Spelling(line, i) > 0
  /\ i = 1 \/ line[i - 1] \in LeftDelims
  /\ EndsAt(line, i + Spelling(line, i)) \/ IsOdd(line, i)

ReplaceAliases(line, plain, odd) ==
  LET paths == {i \in DOMAIN line : IsPath(line, i)}
  IN  FlattenSeq([k \in DOMAIN line |->
        IF k \in paths THEN <<IF IsOdd(line, k) THEN odd ELSE plain>>
        ELSE IF \E i \in paths : i < k /\ k < i + Spelling(line, i) THEN <<>>
        ELSE <<line[k]>>])

(* relativize is this with what a path becomes; the stand-ins are in no    *)
(* text and a labelled value swallows one whole.                           *)
Relativize(text) == EachLine(LAMBDA line : ReplaceAliases(line, "dot", "tree"), text)
StageAliases(text) == EachLine(LAMBDA line : ReplaceAliases(line, "staged", "stagedEnd"), text)

Unstage(text) ==
  EachLine(LAMBDA line : [k \in DOMAIN line |-> CASE line[k] = "staged" -> "dot"
                                                  [] line[k] = "stagedEnd" -> "tree"
                                                  [] OTHER -> line[k]], text)

(* Mutant: the two passes one after the other.                             *)
RedactThenRelativize(text) == Relativize(RedactText(text))

SanitizeProse(text) == Unstage(RedactText(StageAliases(text)))

(* The control characters go once the paths are behind their stand-ins,    *)
(* and those that this repaired follow.                                    *)
StagedView(stripped, staged) == Unstage(RedactText(StageAliases(Preserving(stripped, staged))))

SanitizePathsAndEcho(text) ==
  LET staged == StageAliases(text)
  IN  Agreeing(StagedView(KeepingLines(staged), staged), StagedView(Collapsing(staged), staged))

-----------------------------------------------------------------------------
(* ArtifactRefs.scrub: the path of a file the run was given, unless more   *)
(* of a name follows.                                                      *)
Names == {"word", "value", "vendor", "bit", "label", "file"}

IsArtifact(line, i) ==
  /\ line[i] = "artifact"
  /\ i < Len(line) =>
       /\ line[i + 1] \notin Names
       /\ line[i + 1] = "dot" /\ i + 1 < Len(line) => line[i + 2] \notin Names

ScrubLine(line) == [k \in DOMAIN line |-> IF IsArtifact(line, k) THEN "scrubbed" ELSE line[k]]
Scrub(text) == EachLine(ScrubLine, text)

(* A stored answer with a control character in it, a line feed too, is     *)
(* sanitized again when it is read.                                        *)
HasControl(text) == Len(text) > 1 \/ "esc" \in TokensIn(text)
Presented(text) == IF HasControl(text) THEN SanitizeEchoProse(text) ELSE text

(* The routes: [what a caller reads first, what "full" shows beside it].   *)
Said(first, beside) == [first |-> first, beside |-> beside]
Stored(said) == [said EXCEPT !.first = Presented(@)]
Unsaid == [first |-> <<>>, beside |-> <<>>]

AnswerSaid(text) == Said(SanitizeEchoProse(Scrub(text)), RedactText(Scrub(text)))
RawSaid(text) == Said(<<>>, RedactText(Scrub(text)))
PatchSaid(text) == Said(SanitizePathsAndEcho(Scrub(text)), SanitizeProse(Scrub(text)))
FailureSaid(text, hasTree) ==
  Said(Scrub(IF hasTree THEN SanitizePathsAndEcho(text) ELSE SanitizeEchoProse(text)), <<>>)

-----------------------------------------------------------------------------
(* The same said of a text before and after.  Every path in it stands as   *)
(* one, where it is written or with the control characters deleted.        *)
AllPaths(text) ==
  \A n \in DOMAIN text : \A k \in DOMAIN text[n] :
    /\ text[n][k] \notin Halves \ {"bit"}
    /\ text[n][k] = "root" => \E i \in 1..k : IsPath(text[n], i) /\ k < i + Spelling(text[n], i)

AllArtifacts(text) ==
  \A n \in DOMAIN text : \A k \in DOMAIN text[n] :
    text[n][k] = "artifact" => IsArtifact(text[n], k)

(* Once it is one line, its paths staged or not, a labelled value runs     *)
(* into the next label, or the line has two keys: only the second value    *)
(* and the first key are masked.                                           *)
RunsTogether(text) ==
  \E line \in {Collapsing(text)[1], StageAliases(Collapsing(StageAliases(text)))[1]} :
    \/ \E i \in DOMAIN line :
         line[i] \in {"label", "quoted"} /\ Swallows(line, i + 1, RunFrom(line, i + 1))
    \/ \E i, j \in DOMAIN line : i < j /\ line[i] = "end" /\ line[j] = "begin"

(* What a text must not hold: the parts of a secret.                       *)
Secrets == {"value", "vendor", "bit"}
Hides(text, tokens) == TokensIn(text) \cap tokens = {}
=============================================================================
