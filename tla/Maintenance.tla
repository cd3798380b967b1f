---------------------------- MODULE Maintenance ----------------------------
(***************************************************************************)
(* The maintainers' tools that change what others see: the release and the *)
(* upstream watch.  They share no state, so a behaviour is of one of them  *)
(* and the other stays where it began.                                     *)
(***************************************************************************)
EXTENDS Release, UpstreamWatch

VARIABLE task   \* the tool this behaviour is of
allVars == <<vars, watchVars, task>>

NoRelease == Begins(CHOOSE b \in Beginnings : TRUE)

NoUpstream ==
  /\ upstream = <<>> /\ withdrawn = {} /\ baseline = <<>> /\ issues = <<>> /\ index = <<>>
  /\ watch = NoWatch /\ trouble = 0

MaintenanceInit ==
  \/ task = "release" /\ Init /\ NoUpstream
  \/ task = "watch" /\ WatchInit /\ NoRelease

MaintenanceNext ==
  \/ task = "release" /\ Next /\ UNCHANGED <<watchVars, task>>
  \/ task = "watch" /\ WatchNext /\ UNCHANGED <<vars, task>>

Maintained == MaintenanceInit /\ [][MaintenanceNext]_allVars
=============================================================================
