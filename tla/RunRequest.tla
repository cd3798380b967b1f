----------------------------- MODULE RunRequest -----------------------------
(***************************************************************************)
(* What one run is asked to do (src/src/amicus/request.py) and what may    *)
(* happen to it.  A profile fixes the request; TLC starts from every one.  *)
(***************************************************************************)
EXTENDS Repository, Prose, Workspace

CONSTANTS
  Fresh,       \* the files the first commit does not hold
  Profiles     \* sets of requests, with the states a repository may be in

VARIABLE spec

Verbs == {"consult", "review_changes", "adversarial_review", "delegate"}
Backends == {"codex", "claude", "kimi"}
Scopes == {"none", "working_tree", "branch", "commit"}
Policies == {"explicit_only", "include", "exclude"}

(* "git": a git command fails; "hang": one that the code bounds with a     *)
(* timeout of its own runs into it; "hook": the manifest cannot be         *)
(* written; "reject": the caller's changes do not apply; "dirty": the      *)
(* baseline commit does not hold all of them; "stuck": a directory cannot  *)
(* be removed; "writes" and "commits": what the agent does; "vanish": the  *)
(* workspace is deleted; "cancel" and "kill": SIGTERM and SIGKILL;         *)
(* "preview": the caller asks for a dry run first.                         *)
EventKinds == {"git", "hang", "hook", "reject", "dirty", "stuck", "writes", "commits",
               "vanish", "cancel", "kill", "preview"}
UserMoves == {"edit", "stage", "commit", "reset"}

(* The operator's extra arguments: a flag of three kinds and a value,      *)
(* which may not look like a flag.                                         *)
ExtraFlags == {"-c", "--config", "--enable", "--disable", "-p", "--profile"}

(* What a started run of each CLI may say it failed of.                    *)
FatesOf ==
  [codex |-> {"other", "auth", "rate", "effort"},
   claude |-> {"other", "auth", "rate", "key", "budget"},
   kimi |-> {"other", "auth", "rate", "default_model"}]

(* Where a run starts: the operator's extra arguments, the settings of     *)
(* theirs and of the user's that this codex refuses, what the call and the *)
(* configuration ask of the run, the installed CLI and what amicus last    *)
(* read of its --help, what prepare_run finds wrong with the call, and how *)
(* the run fails if it does.                                               *)
Shells ==
  [entries : Seq([flag : ExtraFlags, name : STRING \ ExtraFlags, plain : BOOLEAN]),
   settings : SUBSET [key : STRING, wrong : {"unknown", "value", "retired"},
                      where : {"argv", "profile", "config"}],
   isolation : {"inherit", "ignore-config", "ignore-rules", "ignore-skills"},
   mode : {"inherit", "scoped", "safe", "bare"},
   askedMode : {"none", "inherit", "scoped", "safe", "bare"},
   access : {"none", "toolless", "readonly"},
   model : BOOLEAN, effort : {"none", "known", "odd"}, turn : BOOLEAN,
   home : {"unset", "absolute", "relative"}, catalog : {"lists", "silent", "unlisted"},
   probed : BOOLEAN, lists : SUBSET STRING, gone : SUBSET STRING, vars : SUBSET STRING,
   fate : {"other", "auth", "rate", "effort", "key", "budget", "default_model"},
   wrong : SUBSET {"options", "backend", "placeholder", "effort_shape", "turn_text", "scope",
                   "size"},
   keyed : BOOLEAN]

RunSpec ==
  [verb : Verbs, backend : Backends, scope : Scopes, paths : SUBSET Files,
   untracked : Policies, focused : BOOLEAN, cap : Nat, secret : SUBSET Files,
   source : SUBSET Files, text : [Files -> Seq(Lines)],
   events : SUBSET (EventKinds \cup UserMoves), answers : {"all", "final", "parsed", "fails", "either"},
   shell : Shells, place : Places, words : Texts]

ASSUME RequestAssumption ==
  /\ Fresh \subseteq Files /\ IsFiniteSet(Files) /\ NoFile \notin Files /\ MaxMoves \in Nat
  /\ \A family \in Profiles : \A p \in family :
       /\ p.spec \in RunSpec /\ p.spec.shell.fate \in FatesOf[p.spec.backend] /\ p.kinds \subseteq Kinds
       /\ p.heads \subseteq Snapshot /\ p.indexes \subseteq Snapshot /\ p.trees \subseteq Snapshot

May(event) == event \in spec.events

(* The base of a branch, and where a reset goes back to.                   *)
Root == [f \in Files |-> IF f \in Fresh THEN Absent ELSE Committed]
=============================================================================
