--------------------------- MODULE UpstreamWatch ---------------------------
(***************************************************************************)
(* scripts/check_backend_compat.py watch --file-issues: a new upstream     *)
(* release becomes one GitHub issue.  kimi is compared with the shipped    *)
(* set, claude with the newest committed help capture, mcp (and fastmcp    *)
(* like it) with the cap in pyproject.toml.  Runs never overlap (the       *)
(* workflow's concurrency group), but a run is killed anywhere, any gh     *)
(* call may be lost before or after its effect, the title search lags what *)
(* it indexes, and people close issues and file their own while a run is   *)
(* under way.  Two versions make a minor: 1 and 2, 3 and 4.                *)
(***************************************************************************)
EXTENDS Integers, Sequences, FiniteSets

CONSTANTS
  Watches,      \* the streams there are, and how much trouble there was before
  Releases,     \* the versions upstream may name
  MaxOthers,    \* bound on the issues other people file
  MaxClosed,    \* bound on the issues of one stream that people close
  RecentIssues, \* how many of the newest issues one listing reads
  MaxTrouble    \* bound on lost calls, failed lookups, kills and withdrawals

ASSUME WatchBounds ==
  /\ \A w \in Watches : w.streams \subseteq {"kimi", "claude", "mcp"} /\ w.spent \in 0 .. MaxTrouble
  /\ Releases \subseteq Nat \ {0} /\ Releases # {}
  /\ MaxOthers \in Nat /\ MaxClosed \in Nat /\ RecentIssues \in Nat \ {0} /\ MaxTrouble \in Nat

VARIABLES
  upstream,     \* the latest release of each stream
  withdrawn,    \* the streams whose latest release once went back, a history
  baseline,     \* what this checkout supports of it
  issues,       \* the repository's issues, oldest first
  index,        \* the issues the title search knows, as it knows them
  watch,        \* the run under way, or the last one
  trouble       \* the faults so far
watchVars == <<upstream, withdrawn, baseline, issues, index, watch, trouble>>

Streams == DOMAIN upstream
Min(v)  == (v + 1) \div 2

\* The version a title names: claude's whole release, a minor otherwise.
Key(s, v) == IF s = "claude" THEN v ELSE Min(v)

\* builtin_supported, newest_capture, pyproject_cap: what each is held to.
InShippedSet(v) == Min(v) \in baseline["kimi"]
IsCaptured(v)   == \E c \in baseline["claude"] : v <= c
BelowCap(v)     == \A cap \in baseline["mcp"] : Min(v) < cap

Supports(s, v) ==
  CASE s = "kimi"   -> InShippedSet(v)
    [] s = "claude" -> IsCaptured(v)
    [] s = "mcp"    -> BelowCap(v)

Unknown == 0
NoWatch == [at |-> "idle", read |-> <<>>, todo |-> {}, asks |-> FALSE,
            found |-> <<>>, issue |-> 0, from |-> 0, failed |-> FALSE]

WatchInit ==
  /\ \E w \in Watches :
       /\ upstream = [s \in w.streams |-> 1]
       /\ baseline = [s \in w.streams |-> IF s = "mcp" THEN {2} ELSE {1}]
       /\ trouble = w.spent
  /\ withdrawn = {}
  /\ issues = <<>> /\ index = <<>>
  /\ watch = NoWatch

(***************************************************************************)
(* Everybody else.                                                         *)
(***************************************************************************)
\* A release; one that goes back withdraws what `latest` named.
UpstreamMoves(s, v) ==
  /\ v # upstream[s]
  /\ v < upstream[s] => trouble < MaxTrouble
  /\ upstream' = [upstream EXCEPT ![s] = v]
  /\ trouble' = IF v < upstream[s] THEN trouble + 1 ELSE trouble
  /\ withdrawn' = IF v < upstream[s] THEN withdrawn \cup {s} ELSE withdrawn
  /\ UNCHANGED <<baseline, issues, index, watch>>

\* A support PR merges: the minor joins the set, a capture of the installed
\* claude is written, the cap is widened.
Supported(s) ==
  /\ watch.at \in {"idle", "done"}
  /\ ~Supports(s, upstream[s])
  /\ baseline' = [baseline EXCEPT ![s] =
                    IF s = "mcp" THEN {Min(upstream[s]) + 1} ELSE @ \cup {Key(s, upstream[s])}]
  /\ UNCHANGED <<upstream, withdrawn, issues, index, watch, trouble>>

Of(s) == {i \in DOMAIN issues : issues[i].stream = s}

Closed(i) ==
  /\ issues[i].open
  /\ Cardinality({j \in Of(issues[i].stream) : ~issues[j].open}) < MaxClosed
  /\ issues' = [issues EXCEPT ![i].open = FALSE]
  /\ UNCHANGED <<upstream, withdrawn, baseline, index, watch, trouble>>

\* What an index holds of an issue, and the newest that it may not hold yet.
Row(i)    == [stream |-> issues[i].stream, key |-> issues[i].key, open |-> issues[i].open]
Recent(i) == i > Len(issues) - RecentIssues

\* The index is never RecentIssues behind: what the next issue pushes out of
\* the newest is in it.
IndexKeepsUp ==
  \A i \in DOMAIN issues \ (DOMAIN index \cup Of("other")) : i > Len(issues) + 1 - RecentIssues

\* Somebody files an issue of their own.  RECENT_ISSUES is 100: that so many
\* come between the two reads of one lookup is out of the model.
OtherIssue ==
  /\ watch.at # "list"
  /\ IndexKeepsUp /\ Cardinality(Of("other")) < MaxOthers
  /\ issues' = Append(issues, [stream |-> "other", key |-> 0, open |-> FALSE, born |-> 0, notes |-> <<>>])
  /\ UNCHANGED <<upstream, withdrawn, baseline, index, watch, trouble>>

\* The search index catches up with one issue.
Indexed(i) ==
  /\ issues[i].stream # "other"
  /\ i \in DOMAIN index => index[i] # Row(i)
  /\ index' = [j \in DOMAIN index \cup {i} |-> IF j = i THEN Row(i) ELSE index[j]]
  /\ UNCHANGED <<upstream, withdrawn, baseline, issues, watch, trouble>>

(***************************************************************************)
(* A run.  watch_all: an unread stream is "unknown", never "current".      *)
(***************************************************************************)
Reads(unread) == [s \in Streams |-> IF s \in unread THEN Unknown ELSE upstream[s]]

StartWatch(unread) ==
  /\ watch.at \in {"idle", "done"}
  /\ trouble + Cardinality(unread) <= MaxTrouble
  /\ trouble' = trouble + Cardinality(unread)
  /\ LET read == Reads(unread)
         due  == {s \in Streams \ unread : ~Supports(s, read[s])}
     IN  watch' = [NoWatch EXCEPT !.at = "next", !.read = read, !.todo = due, !.failed = unread # {}]
  /\ UNCHANGED <<upstream, withdrawn, baseline, issues, index>>

\* WATCH_STREAMS is an order; no stream sees another's, so any will do.
Stream == CHOOSE s \in watch.todo : TRUE
Target == Key(Stream, watch.read[Stream])

\* file_issues: the rolling stream first looks for its one open issue.
NextStream ==
  /\ watch.at = "next"
  /\ watch' = IF watch.todo = {} THEN [watch EXCEPT !.at = "done"]
              ELSE [watch EXCEPT !.at = "search", !.asks = Stream # "claude"]
  /\ UNCHANGED <<upstream, withdrawn, baseline, issues, index, trouble>>

\* Mutant: the last stream decides the exit status.
LastDecides(w) == [w EXCEPT !.at = "next", !.todo = @ \ {Stream}, !.found = <<>>, !.issue = 0, !.from = 0,
                            !.failed = FALSE]

Filed(w) == [w EXCEPT !.at = "next", !.todo = @ \ {Stream}, !.found = <<>>, !.issue = 0, !.from = 0]

FailedFiling(w) == [Filed(w) EXCEPT !.failed = TRUE]

\* gh issue list --search: rolling asks for the open ones.
SearchTitles ==
  /\ watch.at = "search"
  /\ LET seen == {i \in DOMAIN index : index[i].stream = Stream /\ (watch.asks \/ index[i].open)}
     IN  watch' = [watch EXCEPT !.at = "list", !.found = [i \in seen |-> index[i]]]
  /\ UNCHANGED <<upstream, withdrawn, baseline, issues, index, trouble>>

\* Mutant: the search alone.
SearchedOnly == watch.found

\* _title_candidates: one row per issue, the direct listing's first.
Candidates ==
  [i \in DOMAIN watch.found \cup {j \in DOMAIN issues : Recent(j) /\ issues[j].stream = Stream} |->
     IF Recent(i) THEN Row(i) ELSE watch.found[i]]

\* existing_issue
TitleTaken(rows) == \E i \in DOMAIN rows : rows[i].key = Target

\* roll_issue, up to its first write.
Rolled(rows) ==
  LET open == {i \in DOMAIN rows : rows[i].open}
      one  == CHOOSE i \in open : TRUE
  IN  IF open = {} THEN [watch EXCEPT !.at = "search", !.asks = TRUE, !.found = <<>>]
      ELSE IF Cardinality(open) > 1 THEN FailedFiling(watch)
      ELSE IF rows[one].key >= Target THEN Filed(watch)
      ELSE [watch EXCEPT !.at = "view", !.found = <<>>, !.issue = one, !.from = rows[one].key]

ListRecent ==
  /\ watch.at = "list"
  /\ LET rows == Candidates
     IN  watch' = IF ~watch.asks THEN Rolled(rows)
                  ELSE IF TitleTaken(rows) THEN Filed(watch)
                  ELSE [watch EXCEPT !.at = "create", !.found = <<>>]
  /\ UNCHANGED <<upstream, withdrawn, baseline, issues, index, trouble>>

Note == [from |-> watch.from, to |-> Target]

\* The notice goes first, unless this exact text is there already.
NoteGiven == \E n \in DOMAIN issues[watch.issue].notes : issues[watch.issue].notes[n] = Note

ViewComments ==
  /\ watch.at = "view"
  /\ watch' = [watch EXCEPT !.at = IF NoteGiven THEN "edit" ELSE "comment"]
  /\ UNCHANGED <<upstream, withdrawn, baseline, issues, index, trouble>>

\* A call's effect; what the run makes of its answer is below.
Create  == IndexKeepsUp /\ issues' = Append(issues, [stream |-> Stream, key |-> Target, open |-> TRUE,
                                              born |-> Target, notes |-> <<>>])
Comment == issues' = [issues EXCEPT ![watch.issue].notes = Append(@, Note)]
Retitle == issues' = [issues EXCEPT ![watch.issue].key = Target]

Writes(answered) ==
  /\ \/ watch.at = "create" /\ Create
     \/ watch.at = "comment" /\ Comment
     \/ watch.at = "edit" /\ Retitle
  /\ ~answered => trouble < MaxTrouble
  /\ trouble' = IF answered THEN trouble ELSE trouble + 1
  /\ watch' = IF ~answered THEN FailedFiling(watch)
              ELSE IF watch.at = "comment" THEN [watch EXCEPT !.at = "edit"]
              ELSE Filed(watch)
  /\ UNCHANGED <<upstream, withdrawn, baseline, index>>

\* run_gh: a call that fails, or times out, without an effect.
CallFails ==
  /\ watch.at \in {"search", "list", "view", "create", "comment", "edit"} /\ trouble < MaxTrouble
  /\ watch' = FailedFiling(watch)
  /\ trouble' = trouble + 1
  /\ UNCHANGED <<upstream, withdrawn, baseline, issues, index>>

\* The job times out or its runner goes.
Killed ==
  /\ watch.at \notin {"idle", "done"} /\ trouble < MaxTrouble
  /\ watch' = NoWatch
  /\ trouble' = trouble + 1
  /\ UNCHANGED <<upstream, withdrawn, baseline, issues, index>>

\* watch_main's exit status.
ExitsZero == watch.at = "done" /\ ~watch.failed

WatchNext ==
  \/ \E s \in Streams, v \in Releases : UpstreamMoves(s, v)
  \/ \E s \in Streams : Supported(s)
  \/ \E i \in DOMAIN issues : Closed(i) \/ Indexed(i)
  \/ OtherIssue
  \/ \E unread \in SUBSET Streams : StartWatch(unread)
  \/ NextStream \/ SearchTitles \/ ListRecent \/ ViewComments
  \/ \E answered \in BOOLEAN : Writes(answered)
  \/ CallFails \/ Killed

WatchSpec == WatchInit /\ [][WatchNext]_watchVars

(***************************************************************************)
(* Properties.                                                             *)
(***************************************************************************)
(* A release is filed once (docs/WATCHING.md, "The issue contract"),       *)
(* whatever was lost, killed, closed or not indexed yet on the way: a      *)
(* minor has one issue for good, claude has one open issue, and the title  *)
(* that issue moved to is told on it, once.                                *)
IssuesAreFiledOnce ==
  /\ \A s \in Streams \ {"claude"} : \A i, j \in Of(s) : issues[i].key = issues[j].key => i = j
  /\ \A i, j \in Of("claude") : issues[i].open /\ issues[j].open => i = j
  /\ \A i \in Of("claude") :
       LET notes == issues[i].notes
       IN  /\ \A a, b \in DOMAIN notes : notes[a] = notes[b] => a = b
           /\ issues[i].key \in {issues[i].born} \cup {notes[n].to : n \in DOMAIN notes}

\* An issue was filed for that release or a newer one, or a notice on it says
\* that it moves there, whatever its title is now.
Tells(i, v) ==
  issues[i].born >= v \/ \E n \in DOMAIN issues[i].notes : issues[i].notes[n].to >= v

(* Exit status 0 is never an unread stream and never a release nobody was  *)
(* told of (docs/WATCHING.md, "The command"): each stream was read, and    *)
(* what was read is supported or has its issue, which for claude names     *)
(* that release or a newer one.  The exception: once a release of claude   *)
(* was withdrawn the document's "found, filed or moved forward" is not     *)
(* kept, since roll_issue takes a late title from the search.  The issue   *)
(* may name an older release again; that it was told of this one, or of a  *)
(* newer one, is then all that is left.                                    *)
SuccessMeansTracked ==
  ExitsZero =>
    \A s \in Streams :
      LET v == watch.read[s]
      IN  /\ v # Unknown
          /\ \/ Supports(s, v)
             \/ \E i \in Of(s) : IF s = "claude" THEN issues[i].key >= v
                                 ELSE issues[i].key = Key(s, v)
             \/ /\ s = "claude" /\ "claude" \in withdrawn
                /\ \E i \in Of(s) : Tells(i, v)
=============================================================================
