--------------------------- MODULE MCMaintenance ---------------------------
(* Repositories for TLC: one with work to release, one with two finished   *)
(* releases whose pointer pull requests are still to be made.  And what to *)
(* watch: the stream that rolls, with all the trouble; two that do not,    *)
(* with less.                                                              *)
EXTENDS Maintenance

MCVersions == 1 .. 3

Tree1 == [version |-> 1, stale |-> {}, until |-> 3, work |-> {1}, dated |-> {1}, pointer |-> [ref |-> 1, sha |-> 1]]
Root(content) == [parents |-> <<>>, past |-> {1}, tree |-> content]
OnTop(c, content) == [parents |-> <<c - 1>>, past |-> 1 .. c, tree |-> content]
Released(c, r) == [annotated |-> TRUE, commit |-> c, record |-> r]
Covers(c) == [commit |-> c, passed |-> TRUE]

\* Release 1 is out and pointed at, and main has gained work since.
Unreleased ==
  [commits |-> <<Root(Tree1), OnTop(2, [Tree1 EXCEPT !.work = {1, 2}]),
                 OnTop(3, [Tree1 EXCEPT !.work = {1, 2, 3}])>>,
   records |-> <<Covers(1)>>, left |-> 1,
   tags |-> [v \in Versions |-> IF v = 1 THEN Released(1, 1) ELSE NoTag],
   published |-> {1}]

\* Releases 2 and 3 followed, fast-forwarded, and their pointers never moved.
Unpointed ==
  [commits |-> <<Root([Tree1 EXCEPT !.work = {1, 2}]),
                 OnTop(2, [Tree1 EXCEPT !.version = 2, !.work = {1, 2}, !.dated = {1, 2}]),
                 OnTop(3, [Tree1 EXCEPT !.version = 2, !.until = Forever, !.work = {1, 2, 3}, !.dated = {1, 2}]),
                 OnTop(4, [Tree1 EXCEPT !.version = 3, !.until = Forever, !.work = {1, 2, 3}, !.dated = {1, 2, 3}])>>,
   records |-> <<Covers(1), Covers(2), Covers(4)>>, left |-> 3,
   tags |-> <<Released(1, 1), Released(2, 2), Released(4, 3)>>,
   published |-> 1 .. 3]

MCWatches == {[streams |-> {"claude"}, spent |-> 0], [streams |-> {"kimi", "mcp"}, spent |-> 1]}

MCBeginnings == {Unreleased, Unpointed}
=============================================================================
