----------------------------- MODULE AtomicInode -----------------------------
(***************************************************************************)
(* What klock promises the inode operations (spec section 1: "best-effort *)
(* point updates of metadata under a distributed advisory lock"): each    *)
(* call takes effect at most once, in one atomic step, on the record as it *)
(* is at that step.  A call may also end without effect (a lock it did not *)
(* get, an extend already satisfied, a failed write).                      *)
(*                                                                         *)
(* Once the record is gone, nothing is promised about what a late call    *)
(* writes: the call may re-create it with any contents.                    *)
(***************************************************************************)
EXTENDS InodeMd

CONSTANTS Clients, Ops

VARIABLES
  md,        \* the stored record
  present,   \* the record exists
  pending,   \* each client's call in progress, or NoOp
  done       \* that call has taken effect

avars == <<md, present, pending, done>>

Init ==
  /\ md = InitMd
  /\ present = TRUE
  /\ pending = [c \in Clients |-> NoOp]
  /\ done = [c \in Clients |-> FALSE]

\* a call starts, when the client has none or its last one took effect
Invoke(c) ==
  /\ pending[c] = NoOp \/ done[c]
  /\ \E op \in Ops \cup {RemoveOp} : pending' = [pending EXCEPT ![c] = op]
  /\ done' = [done EXCEPT ![c] = FALSE]
  /\ UNCHANGED <<md, present>>

\* the call's one atomic effect on the current record
Apply(c) ==
  /\ pending[c] \notin {NoOp, RemoveOp} /\ ~done[c]
  /\ IF present THEN md' = Modify(pending[c], md)
                ELSE \E m \in Records : md' = Modify(pending[c], m)
  /\ present' = TRUE
  /\ done' = [done EXCEPT ![c] = TRUE]
  /\ UNCHANGED pending

Delete(c) ==
  /\ pending[c] = RemoveOp /\ ~done[c]
  /\ present' = FALSE
  /\ done' = [done EXCEPT ![c] = TRUE]
  /\ UNCHANGED <<md, pending>>

Return(c) ==
  /\ pending[c] # NoOp
  /\ pending' = [pending EXCEPT ![c] = NoOp]
  /\ done' = [done EXCEPT ![c] = FALSE]
  /\ UNCHANGED <<md, present>>

Next == \E c \in Clients : Invoke(c) \/ Apply(c) \/ Delete(c) \/ Return(c)

Spec == Init /\ [][Next]_avars
=============================================================================
