----------------------------- MODULE WorkerSlot -----------------------------
(***************************************************************************)
(* What a Docker host promises to whoever allocates workers on it: one     *)
(* slot, taken by at most one allocation at a time; an allocation that     *)
(* left the slot never comes back, a job is never given a second           *)
(* allocation, and a taken slot is always given back.                      *)
(*                                                                         *)
(* The life of an allocation:                                              *)
(*    "new"       the host has never heard of it                           *)
(*    "reserved"  accepted, no worker yet                                  *)
(*    "working"   its worker exists (running or not)                       *)
(*    "draining"  its worker was removed, its workspace may remain         *)
(*    "gone"      nothing of it is left                                    *)
(***************************************************************************)
CONSTANTS Alloc,   \* allocation names; each is used for one order
          Job,     \* job identifiers
          JobOf    \* the job an allocation was made for

VARIABLE slot

Taken == {"reserved", "working", "draining"}

Init == slot = [a \in Alloc |-> "new"]

(* Accept an order: the slot is free and the job never had an allocation.  *)
Reserve(a) ==
  /\ slot[a] = "new"
  /\ \A b \in Alloc : slot[b] \notin Taken
  /\ \A b \in Alloc : JobOf[b] = JobOf[a] => slot[b] = "new"
  /\ slot' = [slot EXCEPT ![a] = "reserved"]

Work(a) ==
  /\ slot[a] = "reserved"
  /\ slot' = [slot EXCEPT ![a] = "working"]

Drain(a) ==
  /\ slot[a] = "working"
  /\ slot' = [slot EXCEPT ![a] = "draining"]

(* A reservation whose worker never appeared is freed directly.            *)
Free(a) ==
  /\ slot[a] \in {"reserved", "draining"}
  /\ slot' = [slot EXCEPT ![a] = "gone"]

Retire(a) == Drain(a) \/ Free(a)

Next == \E a \in Alloc : Reserve(a) \/ Work(a) \/ Retire(a)

(* The safety half of the promise, and the whole of it: a taken slot is    *)
(* eventually given back.                                                  *)
Safety == Init /\ [][Next]_slot
Spec   == Safety /\ \A a \in Alloc : WF_slot(Retire(a))
=============================================================================
