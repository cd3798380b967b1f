----------------------------- MODULE Redaction -----------------------------
(***************************************************************************)
(* src/src/amicus/sdk/core/redaction.py: DiffRedactor, fed the lines of a  *)
(* patch one at a time, and what it says it did.  A line is a sequence of  *)
(* tokens: the runs of characters that its patterns tell apart.            *)
(***************************************************************************)
EXTENDS Naturals, SequencesExt

(* "value": characters a labelled value may be made of, as many as it must *)
(* have; "bit": half of them; "word", "dot", "slash", "eq", "file": a few; *)
(* "vendor": a whole token of a vendor's form; "label": a label and its    *)
(* separator; "quoted": one that is quoted or names a password; "call": an *)
(* opening bracket; "at": what closes a vendor's token but no labelled     *)
(* value; "begin" and "end": the markers of a private key; "root" and      *)
(* "artifact": the paths of a run's worktree and of a file it was given;   *)
(* "staged", "stagedEnd": what stands in for the first.                    *)
Long == {"value", "vendor", "root", "artifact", "staged", "stagedEnd"}
Short == {"word", "dot", "slash", "eq", "file", "label"}
Halves == {"bit", "root-", "-root", "artifact-", "-artifact"}
Tokens == Long \cup Short \cup Halves \cup
          {"space", "quoted", "call", "at", "begin", "end", "begin-", "-begin", "end-", "-end",
           "esc", "scheme"}

(* The header of a file, of a source file, of one that looks secret; a     *)
(* line of a hunk; an Authorization line outside of any; all others.       *)
Headers == {"header", "source", "secret"}
Shapes == Headers \cup {"body", "auth", "meta"}
LineOf(shape, content) == [shape |-> shape, content |-> content]
Lines == [shape : Shapes, content : Seq(Tokens)]

-----------------------------------------------------------------------------
(* The inline patterns.                                                    *)
InRun(token) == token \in Long \cup Short \cup Halves
RunFrom(content, i) ==
  LET stops == {j \in i..Len(content) : ~InRun(content[j])}
  IN  IF stops = {} THEN Len(content) ELSE Min(stops) - 1

(* A value is long enough; a label in it that has one takes its place.     *)
IsValue(content, i, last) ==
  \/ \E k \in i..last : content[k] \in Long
  \/ \E k, l \in i..last : k < l /\ {content[k], content[l]} \subseteq Halves

Swallows(content, i, last) ==
  \E k \in i..last : content[k] = "label" /\ IsValue(content, k + 1, last)

(* A labelled name that is called is code; only a source file has any.     *)
IsCodeReference(content, i, last) ==
  /\ content[i] = "label"
  /\ last < Len(content) /\ content[last + 1] = "call"

(* The spans that would be replaced; "whole": nothing of the match was     *)
(* kept in front of it; "narrow": the pattern's characters are no grammar. *)
Labelled(content, code) ==
  {[from |-> i + 1, to |-> RunFrom(content, i + 1), whole |-> FALSE, narrow |-> TRUE] :
     i \in {k \in DOMAIN content :
              /\ content[k] \in {"label", "quoted"}
              /\ IsValue(content, k + 1, RunFrom(content, k + 1))
              /\ ~Swallows(content, k + 1, RunFrom(content, k + 1))
              /\ ~(code /\ IsCodeReference(content, k, RunFrom(content, k + 1)))}}

Vendors(content) ==
  {[from |-> i, to |-> i, whole |-> TRUE, narrow |-> FALSE] :
     i \in {k \in DOMAIN content : content[k] = "vendor"}}

(* Spans that overlap become one; each edge keeps the flag of whoever      *)
(* reaches it, and of any of them in a tie.                                *)
Merge(merged, c) ==
  IF merged = <<>> \/ c.from > Last(merged).to THEN Append(merged, c)
  ELSE LET m == Last(merged)
       IN  Append(Front(merged),
             [from |-> m.from, to |-> Max({m.to, c.to}),
              whole |-> m.whole \/ (c.from = m.from /\ c.whole),
              narrow |-> IF c.to > m.to THEN c.narrow
                         ELSE m.narrow \/ (c.to = m.to /\ c.narrow)])

(* From left to right, and the shorter of two that begin together first;   *)
(* no two of a kind do.                                                    *)
MergeAny(merged, spans) == IF spans = {} THEN merged ELSE Merge(merged, CHOOSE c \in spans : TRUE)

Merged(content, code) ==
  LET starting(spans, k) == {c \in spans : c.from = k}
      upto[k \in 0..Len(content)] ==
        IF k = 0 THEN <<>>
        ELSE MergeAny(MergeAny(upto[k - 1], starting(Vendors(content), k)),
                      starting(Labelled(content, code), k))
  IN  upto[Len(content)]

(* A span that may have started or stopped short is said to be partial.    *)
Safe(m) == {"space"} \cup (IF m.narrow THEN {} ELSE {"at"})

IsPartial(content, m) ==
  \/ m.to < Len(content) /\ content[m.to + 1] \notin Safe(m)
  \/ m.whole /\ m.from > 1 /\ InRun(content[m.from - 1]) /\ content[m.from - 1] \notin {"label", "eq"}

Markers == {"masked", "partly"}

Emitted(content, k, covering) ==
  IF covering = {} THEN <<content[k]>>
  ELSE LET m == CHOOSE span \in covering : TRUE
       IN  IF k > m.from THEN <<>>
           ELSE <<IF IsPartial(content, m) THEN "partly" ELSE "masked">>

Replaced(content, spans) ==
  [line |-> FlattenSeq([k \in DOMAIN content |->
              Emitted(content, k, {m \in ToSet(spans) : m.from <= k /\ k <= m.to})]),
   count |-> Len(spans)]

RedactValues(content, code) == Replaced(content, Merged(content, code))

-----------------------------------------------------------------------------
(* The key blocks: [what is left of the line, markers put in, still open]. *)
FirstOf(token, content, from) ==
  LET at == {k \in from..Len(content) : content[k] = token}
  IN  IF at = {} THEN 0 ELSE Min(at)

Blank(content) == \A k \in DOMAIN content : content[k] = "space"
From(content, i) == SubSeq(content, i, Len(content))

Within(content) ==
  LET end == FirstOf("end", content, 1)
  IN  IF end = 0 THEN [line |-> <<"masked">>, count |-> 1, open |-> TRUE]
      ELSE IF Blank(SubSeq(content, 1, end - 1))
      THEN [line |-> content, count |-> 0, open |-> FALSE]
      ELSE [line |-> <<"masked">> \o From(content, end), count |-> 1, open |-> FALSE]

Without(content) ==
  LET begin == FirstOf("begin", content, 1)
      end == FirstOf("end", content, begin + 1)
      head == SubSeq(content, 1, begin)
  IN  IF begin = 0 THEN [line |-> content, count |-> 0, open |-> FALSE]
      ELSE IF end # 0
      THEN [line |-> head \o <<"masked">> \o From(content, end), count |-> 1, open |-> FALSE]
      ELSE IF Blank(From(content, begin + 1)) THEN [line |-> content, count |-> 0, open |-> TRUE]
      ELSE [line |-> Append(head, "masked"), count |-> 1, open |-> TRUE]

(* Mutant: a body on the line of its BEGIN marker is all of it.            *)
RedactKeysByLine(content, open) ==
  LET r == IF open THEN Within(content) ELSE Without(content)
  IN  IF r.count > 0 /\ ~open THEN [r EXCEPT !.open = FALSE] ELSE r

RedactKeys(content, open) == IF open THEN Within(content) ELSE Without(content)

-----------------------------------------------------------------------------
(* DiffRedactor: the union of all it touched, the files it withheld, in    *)
(* order, the markers it put in each of the others, and all of those.      *)
NoFile == "none"
NotPending == [kind |-> "none", count |-> 0]

NewRedactor ==
  [path |-> NoFile, code |-> FALSE, skipping |-> FALSE, open |-> FALSE, touched |-> {}, withheld |-> <<>>,
   marks |-> [f \in {} |-> 0], inline |-> 0, pending |-> NotPending]

MaskedPaths(r) == DOMAIN r.marks
WithheldPaths(r) == ToSet(r.withheld)

(* Each returns the redactor and the lines that go out.                    *)
FeedHeader(r, path, line) ==
  LET skips == line.shape = "secret"
  IN  [red |-> [r EXCEPT !.path = path, !.code = line.shape = "source", !.open = FALSE,
                         !.skipping = skips,
                         !.touched = IF skips THEN @ \cup {path} ELSE @,
                         !.pending = IF skips THEN [kind |-> "withhold", count |-> 0]
                                     ELSE NotPending],
       out |-> IF skips THEN <<line.content, <<"withheld">> >> ELSE <<line.content>>]

Counts(r, keys, values) ==
  LET count == keys.count + values.count
      counts == count > 0 /\ r.path # NoFile /\ r.path \notin WithheldPaths(r)
  IN  [red |-> [r EXCEPT !.open = keys.open,
                         !.touched = IF counts THEN @ \cup {r.path} ELSE @,
                         !.pending = IF counts THEN [kind |-> "mask", count |-> count]
                                     ELSE NotPending],
       out |-> <<values.line>>]

FeedScanned(r, line) ==
  LET keys == RedactKeys(line.content, r.open)
  IN  Counts(r, keys, RedactValues(keys.line, line.shape = "body" /\ r.code))

FeedMeta(r, line) ==
  [red |-> [r EXCEPT !.open = FALSE, !.pending = NotPending], out |-> <<line.content>>]

Feed(r, path, line) ==
  IF line.shape \in Headers THEN FeedHeader(r, path, line)
  ELSE IF r.skipping THEN [red |-> [r EXCEPT !.pending = NotPending], out |-> <<>>]
  ELSE IF line.shape = "meta" THEN FeedMeta(r, line)
  ELSE FeedScanned(r, line)

(* commit_pending: a file that is withheld is no longer one that was       *)
(* masked.                                                                 *)
MarksOf(r, path) == IF path \in MaskedPaths(r) THEN r.marks[path] ELSE 0

CommitPending(r) ==
  LET done == [r EXCEPT !.pending = NotPending]
  IN  CASE r.pending.kind = "none" -> done
        [] r.pending.kind = "withhold" ->
             [done EXCEPT !.withheld = Append(@, r.path), !.inline = @ - MarksOf(r, r.path),
                !.marks = [f \in MaskedPaths(r) \ {r.path} |-> r.marks[f]]]
        [] r.pending.kind = "mask" ->
             [done EXCEPT !.inline = @ + r.pending.count,
                !.marks = [f \in MaskedPaths(r) \cup {r.path} |->
                             MarksOf(r, f) + IF f = r.path THEN r.pending.count ELSE 0]]
-----------------------------------------------------------------------------
(* The same said of a whole text: a token after a BEGIN with no END in     *)
(* between, on lines that follow each other in one hunk, is of a key.      *)
Scanned(line) == line.shape \in {"body", "auth"}

OfKey(text, n, k) ==
  \E m \in 1..n :
    /\ \A l \in m..n : Scanned(text[l])
    /\ \E j \in DOMAIN text[m].content :
         /\ text[m].content[j] = "begin" /\ (m < n \/ j < k)
         /\ \A l \in m..n : \A i \in DOMAIN text[l].content :
              (l > m \/ i > j) /\ (l < n \/ i <= k) => text[l].content[i] # "end"

OfValue(content, k, code) ==
  \E c \in Labelled(content, code) \cup Vendors(content) : c.from <= k /\ k <= c.to

(* What a reader is owed of a line: all that is of neither; blanks aside.  *)
InPlain(text, n, code) ==
  LET content == text[n].content
  IN  FlattenSeq([k \in DOMAIN content |->
        IF \/ content[k] = "space" \/ OfKey(text, n, k)
           \/ OfValue(content, k, code /\ text[n].shape = "body")
        THEN <<>> ELSE <<content[k]>>])

Unmarked(line) == SelectSeq(line, LAMBDA t : t \notin Markers \cup {"space"})
MarkersIn(line) == {k \in DOMAIN line : line[k] \in Markers}
=============================================================================
