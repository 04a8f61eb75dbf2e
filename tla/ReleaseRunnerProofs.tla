------------------------ MODULE ReleaseRunnerProofs -------------------------
(***************************************************************************)
(* Proofs about ReleaseRunner, for every set of jobs, every limit and      *)
(* every number of faults, with and without the Gateway's broker.          *)
(***************************************************************************)
EXTENDS ReleaseRunner, FiniteSetTheorems, TLAPS

USE BoundAssumption, FlagAssumption

LEMMA JobOfAlloc == \A a \in Alloc : JobOf(a) \in Job /\ a # NoAlloc
  BY DEF Alloc, JobOf, NoAlloc

LEMMA InitIInv == Init => IInv
<1> SUFFICES ASSUME Init PROVE IInv
  OBVIOUS
<1>1. Journaled = {}
  BY DEF Init, Journaled
<1>2. IsFiniteSet(Journaled) /\ Cardinality(Journaled) = 0
  BY <1>1, FS_EmptySet
<1>3. TypeOK
  BY DEF Init, TypeOK
<1> QED
  BY <1>1, <1>2, <1>3
  DEF Init, IInv, CleanInv, LaunchInv, ReceiptInv, SlotLimit, NothingForgotten,
      OneAllocationPerJob, AttemptsBounded

LEMMA TypeStep == IInv /\ [Next]_vars => TypeOK'
<1> SUFFICES ASSUME IInv, [Next]_vars PROVE TypeOK'
  OBVIOUS
<1>0. Alloc' = Alloc /\ Journaled \subseteq Alloc /\ \A a \in Alloc : JobOf(a) \in Job
  BY JobOfAlloc DEF Alloc, Journaled
<1>a. TypeOK /\ CleanInv /\ LaunchInv
  BY DEF IInv
<1> USE <1>0, <1>a DEF TypeOK, journal, host, github, delayed, pass, memory
<1>1. ASSUME NEW m \in {"full", "offline"}, Begin(m) PROVE TypeOK'
  BY <1>1 DEF Begin, Discovered
<1>2. ASSUME NEW a \in Alloc, Leave(a) PROVE TypeOK'
  BY <1>2 DEF Leave, Fault
<1>3. ASSUME NEW a \in Alloc, Finish(a) PROVE TypeOK'
  BY <1>3 DEF Finish
<1>4. CASE Kill \/ Remove \/ RemoveStore
  BY <1>4 DEF Kill, Remove, RemoveStore, CleanInv
<1>5. CASE KeepLease
  BY <1>5 DEF KeepLease, Kept, NextAllocation
<1>6. CASE Deregister
  BY <1>6 DEF Deregister, CleanInv
<1>7. CASE Drop
  BY <1>7 DEF Drop, NextAllocation, CleanInv
<1>8. CASE CleanupFails
  BY <1>8 DEF CleanupFails, NextAllocation, Fault
<1>9. CASE Drained \/ Blocked \/ EndPass \/ Crash
  BY <1>9 DEF Drained, Blocked, EndPass, Crash, End, Fault
<1>10. ASSUME NEW old \in SUBSET Job, Verify(old) PROVE TypeOK'
  BY <1>10 DEF Verify, Unserved
<1>11. ASSUME NEW j \in Job, Skip(j) PROVE TypeOK'
  BY <1>11 DEF Skip
<1>12. ASSUME NEW j \in Job, Attempt(j) PROVE TypeOK'
  BY <1>12 DEF Attempt, Budget, Counted
<1>13. CASE Recheck
  BY <1>13 DEF Recheck, LaunchInv
<1>14. CASE Refuse \/ PostRefused \/ SourceRefused
  BY <1>14 DEF Refuse, PostRefused, SourceRefused, NextJob
<1>15. CASE CreateVolumes
  BY <1>15 DEF CreateVolumes, LaunchInv
<1>16. CASE Post
  BY <1>16 DEF Post, Receipt, LaunchInv
<1>17. CASE PostFails
  BY <1>17 DEF PostFails, Receipt, NextJob, Fault, LaunchInv
<1>18. CASE Run
  BY <1>18 DEF Run, LaunchInv
<1>19. CASE Confirm
  BY <1>19 DEF Confirm, NextJob, LaunchInv
<1>20. CASE LaunchFails
  BY <1>20 DEF LaunchFails, NextJob, Fault, LaunchInv
<1>21. ASSUME NEW a \in Alloc, PostLands(a) PROVE TypeOK'
  BY <1>21 DEF PostLands
<1>22. ASSUME NEW a \in Alloc, JobAssigned(a) \/ JobFinishes(a) \/ JobLost(a) PROVE TypeOK'
  BY <1>22 DEF JobAssigned, JobFinishes, JobLost
<1>23. ASSUME NEW a \in Alloc, WorkerExits(a) \/ WorkerAges(a) PROVE TypeOK'
  BY <1>23 DEF WorkerExits, WorkerAges
<1>24. ASSUME NEW j \in Job, JobCancelled(j) \/ BackoffEnds(j) PROVE TypeOK'
  BY <1>24 DEF JobCancelled, BackoffEnds
<1>25. CASE UNCHANGED vars
  BY <1>25 DEF vars
<1> QED
  BY <1>1, <1>2, <1>3, <1>4, <1>5, <1>6, <1>7, <1>8, <1>9, <1>10, <1>11, <1>12, <1>13, <1>14,
     <1>15, <1>16, <1>17, <1>18, <1>19, <1>20, <1>21, <1>22, <1>23, <1>24, <1>25
  DEF Next, Cleanup, Admission, Failure, Environment

(* Only Recheck journals an allocation, and only where there is room.      *)
LEMMA SlotStep == IInv /\ [Next]_vars => IsFiniteSet(Journaled)' /\ SlotLimit'
<1> SUFFICES ASSUME IInv, [Next]_vars PROVE IsFiniteSet(Journaled') /\ Cardinality(Journaled') <= MaxRunners
  BY DEF SlotLimit
<1>0. TypeOK /\ IsFiniteSet(Journaled) /\ Cardinality(Journaled) \in Nat /\ Cardinality(Journaled) <= MaxRunners
  BY FS_CardinalityType DEF IInv, SlotLimit
<1>1. CASE Recheck
  <2>1. cur \in Alloc /\ Cardinality(Journaled) < MaxRunners
    BY <1>1 DEF IInv, LaunchInv, Recheck, Room
  <2>2. Journaled' = Journaled \cup {cur}
    BY <1>0, <1>1, <2>1 DEF Recheck, Journaled, TypeOK
  <2> QED
    BY <1>0, <2>1, <2>2, FS_AddElement
<1>2. CASE Journaled' \subseteq Journaled
  BY <1>0, <1>2, FS_Subset, FS_CardinalityType
<1>3. CASE Confirm
  <2>1. Journaled' = Journaled
    BY <1>0, <1>3 DEF IInv, LaunchInv, Confirm, Journaled, TypeOK
  <2> QED
    BY <1>0, <2>1
<1>4. CASE Drop
  BY <1>0, <1>2, <1>4 DEF Drop, Journaled, TypeOK
<1>5. alloc' = alloc => Journaled' = Journaled
  BY DEF Journaled
<1> QED
  BY <1>1, <1>2, <1>3, <1>4, <1>5
  DEF Next, Cleanup, Admission, Failure, Environment, vars, journal, Begin, Leave, Finish, Kill,
      Remove, RemoveStore, KeepLease, Kept, Deregister, CleanupFails, Drained, Blocked, EndPass,
      Verify, Skip, Attempt, Refuse, CreateVolumes, Post, PostRefused, SourceRefused, Run,
      PostFails, LaunchFails, Crash, PostLands, JobAssigned, JobFinishes, JobLost, JobCancelled,
      WorkerExits, WorkerAges, BackoffEnds

LEMMA SafetyStep == IInv /\ [Next]_vars =>
  /\ CleanInv' /\ LaunchInv' /\ ReceiptInv'
  /\ NothingForgotten' /\ OneAllocationPerJob' /\ AttemptsBounded'
<1> DEFINE Goal == /\ CleanInv /\ LaunchInv /\ ReceiptInv
                   /\ NothingForgotten /\ OneAllocationPerJob /\ AttemptsBounded
<1> SUFFICES ASSUME IInv, [Next]_vars PROVE Goal'
  OBVIOUS
<1>0. /\ Alloc' = Alloc /\ Journaled \subseteq Alloc
      /\ \A a \in Alloc : JobOf(a) \in Job /\ a # NoAlloc
  BY JobOfAlloc DEF Alloc, Journaled
<1>a. /\ TypeOK /\ CleanInv /\ LaunchInv /\ ReceiptInv
      /\ NothingForgotten /\ OneAllocationPerJob /\ AttemptsBounded
  BY DEF IInv
<1>j. UNCHANGED alloc => Journaled' = Journaled /\ Unserved' = Unserved /\ (Room' <=> Room)
  BY DEF Journaled, Unserved, Room
<1> USE <1>0, <1>a, <1>j DEF journal, host, github, delayed, pass, memory, JobOf,
        CleanInv, LaunchInv, ReceiptInv, NothingForgotten, OneAllocationPerJob, AttemptsBounded
<1>1. ASSUME NEW m \in {"full", "offline"}, Begin(m) PROVE Goal'
  BY <1>1 DEF Begin
<1>2. ASSUME NEW a \in Alloc, Leave(a) PROVE Goal'
  BY <1>2 DEF Leave
<1>3. ASSUME NEW a \in Alloc, Finish(a) PROVE Goal'
  BY <1>3 DEF Finish, Aged, Completed
<1>4. CASE Kill \/ Remove \/ RemoveStore
  BY <1>4 DEF Kill, Remove, RemoveStore, TypeOK
<1>5. CASE KeepLease
  BY <1>5 DEF KeepLease, Kept, NextAllocation
<1>6. CASE Deregister
  BY <1>6 DEF Deregister, TypeOK
<1>7. CASE Drop
  BY <1>7 DEF Drop, NextAllocation, TypeOK, Journaled
<1>8. CASE CleanupFails
  BY <1>8 DEF CleanupFails, NextAllocation
<1>9. CASE Drained \/ Blocked \/ EndPass \/ Crash
  BY <1>9 DEF Drained, Blocked, EndPass, Crash, End
<1>10. ASSUME NEW old \in SUBSET Job, Verify(old) PROVE Goal'
  BY <1>10 DEF Verify, Unserved, TypeOK
<1>11. ASSUME NEW j \in Job, Skip(j) PROVE Goal'
  BY <1>11 DEF Skip
<1>12. ASSUME NEW j \in Job, Attempt(j) PROVE Goal'
  BY <1>12 DEF Attempt, Budget, Counted, TypeOK, Room, Unserved, NextName
<1>13. CASE Recheck
  BY <1>13 DEF Recheck, TypeOK, Journaled, Unserved
<1>14. CASE Refuse \/ PostRefused \/ SourceRefused
  BY <1>14 DEF Refuse, PostRefused, SourceRefused, NextJob
<1>15. CASE CreateVolumes
  BY <1>15 DEF CreateVolumes
<1>16. CASE Post
  BY <1>16 DEF Post, Receipt, Served, TypeOK
<1>17. CASE PostFails
  BY <1>17 DEF PostFails, Receipt, NextJob, Served, TypeOK
<1>18. CASE Run
  BY <1>18 DEF Run, TypeOK
<1>19. CASE Confirm
  BY <1>19 DEF Confirm, NextJob, TypeOK, Journaled
<1>20. CASE LaunchFails
  BY <1>20 DEF LaunchFails, NextJob, TypeOK
<1>21. ASSUME NEW a \in Alloc, PostLands(a) PROVE Goal'
  BY <1>21 DEF PostLands, TypeOK
<1>22. ASSUME NEW a \in Alloc, JobAssigned(a) \/ JobFinishes(a) \/ JobLost(a) PROVE Goal'
  BY <1>22 DEF JobAssigned, JobFinishes, JobLost, TypeOK
<1>23. ASSUME NEW a \in Alloc, WorkerExits(a) \/ WorkerAges(a) PROVE Goal'
  BY <1>23 DEF WorkerExits, WorkerAges, TypeOK
<1>24. ASSUME NEW j \in Job, JobCancelled(j) \/ BackoffEnds(j) PROVE Goal'
  BY <1>24 DEF JobCancelled, BackoffEnds, TypeOK
<1>25. CASE UNCHANGED vars
  BY <1>25 DEF vars
<1> QED
  BY <1>1, <1>2, <1>3, <1>4, <1>5, <1>6, <1>7, <1>8, <1>9, <1>10, <1>11, <1>12, <1>13, <1>14,
     <1>15, <1>16, <1>17, <1>18, <1>19, <1>20, <1>21, <1>22, <1>23, <1>24, <1>25
  DEF Next, Cleanup, Admission, Failure, Environment

LEMMA Invariance == Spec => []IInv
<1>1. IInv /\ [Next]_vars => IInv'
  BY TypeStep, SlotStep, SafetyStep DEF IInv
<1> QED
  BY InitIInv, <1>1, PTL DEF Spec

(* Every state of a pass is well typed: scripts/release_runner.py never    *)
(* meets a phase, a counter or a name its journal was not made for.        *)
THEOREM TypeCorrect == Spec => []TypeOK
  BY Invariance, PTL DEF IInv

(* allocate never journals more than max_runners allocations, whatever     *)
(* fails and wherever a pass dies, leases that stay busy included.         *)
THEOREM SlotsAreLimited == Spec => []SlotLimit
  BY Invariance, PTL DEF IInv

(* Wherever a launch or a cleanup is cut short, what it leaves behind      *)
(* belongs to a journaled allocation, except for a registration that       *)
(* appears after deregister looked for it.                                 *)
THEOREM CleanupCompleteness == Spec => []NothingForgotten
  BY Invariance, PTL DEF IInv

(* The recheck and the journal keep two passes from serving one job twice. *)
THEOREM JobsServedOnce == Spec => []OneAllocationPerJob
  BY Invariance, PTL DEF IInv

(* allocate saves an attempt before it makes it: no crash, failure or      *)
(* expiry of old attempts buys a job a launch more than were counted.      *)
THEOREM AttemptsAreCounted == Spec => []AttemptsBounded
  BY Invariance, PTL DEF IInv

(* clean_allocation stops a running worker only when it is over age or its *)
(* job is completed, although both were asked before the kill.             *)
THEOREM LiveWorkersSpared == Spec => NoLiveKill
<1>1. IInv => (Kill => \/ container[cur] # "running" \/ cur \in expired
                      \/ status[JobOf(cur)] = "completed")
  BY DEF IInv, CleanInv, Kill
<1> QED
  BY <1>1, Invariance, PTL DEF Spec, NoLiveKill

(* Behind Broker.serve a job is registered under the name of its receipt   *)
(* only, at whatever time a POST that was given up takes effect, and no    *)
(* step replaces a receipt.                                                *)
THEOREM RegisteredUnderReceipt == Spec => BrokeredOnce
<1> DEFINE Step ==
      Brokered =>
        /\ \A a \in Alloc : reg[a] = "none" /\ reg'[a] # "none" => receipts'[JobOf(a)] = a
        /\ \A j \in Job : receipts[j] # NoAlloc => receipts'[j] = receipts[j]
<1>1. IInv /\ [Next]_vars => [Step]_vars
  <2> SUFFICES ASSUME IInv, Next, Brokered PROVE Step
    BY DEF vars
  <2>0. /\ TypeOK /\ ReceiptInv /\ Journaled \subseteq Alloc
        /\ \A a \in Alloc : JobOf(a) \in Job /\ a # NoAlloc
    BY JobOfAlloc DEF IInv, Journaled
  <2>1. ASSUME UNCHANGED <<reg, receipts>> PROVE Step
    BY <2>1
  <2>2. CASE Deregister
    BY <2>0, <2>2 DEF Deregister, TypeOK
  <2>3. CASE Post
    BY <2>0, <2>3 DEF IInv, LaunchInv, Post, Receipt, Served, TypeOK
  <2>4. CASE PostFails
    BY <2>0, <2>4 DEF IInv, LaunchInv, PostFails, Receipt, Served, TypeOK
  <2>5. ASSUME NEW a \in Alloc, PostLands(a) PROVE Step
    BY <2>0, <2>5 DEF PostLands, ReceiptInv, TypeOK
  <2>6. ASSUME NEW a \in Alloc, JobAssigned(a) \/ JobFinishes(a) \/ JobLost(a) PROVE Step
    BY <2>0, <2>6 DEF JobAssigned, JobFinishes, JobLost, TypeOK
  <2> QED
    BY <2>1, <2>2, <2>3, <2>4, <2>5, <2>6
    DEF Next, Cleanup, Admission, Failure, Environment, host, github, delayed, journal, Begin,
        Leave, Finish, Kill, Remove, RemoveStore, KeepLease, Drop, CleanupFails, Drained,
        Blocked, EndPass, Verify, Skip, Attempt, Recheck, Refuse, CreateVolumes, PostRefused,
        SourceRefused, Run, Confirm, LaunchFails, Crash, WorkerExits, WorkerAges, JobCancelled,
        BackoffEnds
<1> QED
  BY <1>1, Invariance, PTL DEF Spec, BrokeredOnce
=============================================================================
