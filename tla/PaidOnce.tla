------------------------------- MODULE PaidOnce -------------------------------
(***************************************************************************)
(* What start_idempotent promises the clients of one tool, whatever the    *)
(* index, its locks and its files do: a key is paid for at most once in    *)
(* the horizon, the call that paid is answered with the run it paid for,   *)
(* a replay names a run that is kept under the caller's own key and        *)
(* arguments, and a call that is refused has paid for nothing.             *)
(* IdempotencyIndex implements it.                                         *)
(***************************************************************************)
EXTENDS Naturals

CONSTANTS
  Callers,      \* calls in flight at a time
  Keys, Args,   \* what they name
  Runs, NoRun,  \* what they may pay for
  Horizon,      \* how long a key stands for its run
  MaxAge        \* an age past the horizon

VARIABLES
  request,      \* what each caller asks, and the run it has paid for
  record,       \* the runs that are kept
  age,          \* time since each key's last paid run was reserved
  reply         \* the answer the last step gave, if it gave one

vars == <<request, record, age, reply>>

NoRequest == [key |-> "none", args |-> "none", paid |-> NoRun]
Nothing == [key |-> "none", args |-> "none"]

Asking(c) == request[c].key \in Keys
Ordered(c) == [key |-> request[c].key, args |-> request[c].args]
Silent == reply'.kind = "none"
Idle(c) == request' = [request EXCEPT ![c] = NoRequest]

(* a record may be reaped, evicted or consumed at any time *)
MayForget == \A r \in Runs : record'[r] \in {record[r], Nothing}
Payable(k) == age[k] > Horizon
Dated(k) == /\ age'[k] \in 0..MaxAge
            /\ age' = [age EXCEPT ![k] = age'[k]]

Init ==
  /\ request = [c \in Callers |-> NoRequest]
  /\ record = [r \in Runs |-> Nothing]
  /\ age = [k \in Keys |-> MaxAge]
  /\ reply.kind = "none"

Ask(c) ==
  /\ Silent
  /\ request[c] = NoRequest
  /\ \E k \in Keys, a \in Args :
       request' = [request EXCEPT ![c] = [key |-> k, args |-> a, paid |-> NoRun]]
  /\ UNCHANGED <<record, age>>

Pay(c) ==
  /\ Silent
  /\ Asking(c)
  /\ request[c].paid = NoRun
  /\ Payable(request[c].key)
  /\ Dated(request[c].key)
  /\ \E r \in Runs :
       /\ record[r] = Nothing
       /\ record' = [record EXCEPT ![r] = Ordered(c)]
       /\ request' = [request EXCEPT ![c].paid = r]

Created(c) ==
  /\ reply'.kind = "created"
  /\ request[c].paid # NoRun
  /\ reply' = [by |-> c, kind |-> "created", run |-> request[c].paid]
  /\ record[request[c].paid] = Ordered(c)
  /\ Idle(c)
  /\ UNCHANGED <<record, age>>

Replayed(c) ==
  /\ reply'.kind = "replay"
  /\ Asking(c)
  /\ request[c].paid = NoRun
  /\ \E r \in Runs : /\ record'[r] = Ordered(c)
                     /\ reply' = [by |-> c, kind |-> "replay", run |-> r]
  /\ Idle(c)
  /\ MayForget
  /\ UNCHANGED age

Refused(c) ==
  /\ reply'.by = c
  /\ reply'.kind \notin {"created", "replay", "none"}
  /\ Asking(c)
  /\ request[c].paid = NoRun
  /\ Idle(c)
  /\ MayForget
  /\ UNCHANGED age

Forget ==
  /\ Silent
  /\ MayForget
  /\ UNCHANGED <<request, age>>

Tick ==
  /\ Silent
  /\ age' = [k \in Keys |-> IF age[k] < MaxAge THEN age[k] + 1 ELSE MaxAge]
  /\ UNCHANGED <<request, record>>

(* a server dies with its calls; one of them may have paid without a trace *)
Die(dead) ==
  /\ Silent
  /\ request' = [c \in Callers |-> IF c \in dead THEN NoRequest ELSE request[c]]
  /\ \/ UNCHANGED age
     \/ \E c \in dead : /\ Asking(c)
                        /\ request[c].paid = NoRun
                        /\ Payable(request[c].key)
                        /\ Dated(request[c].key)
  /\ UNCHANGED record

Next ==
  \/ Forget
  \/ Tick
  \/ \E c \in Callers : Ask(c) \/ Pay(c) \/ Created(c) \/ Replayed(c) \/ Refused(c)
  \/ \E dead \in SUBSET Callers : Die(dead)

Spec == Init /\ [][Next]_vars

=============================================================================
