------------------------ MODULE CandidateHostProofs -------------------------
(***************************************************************************)
(* Proofs about CandidateHost, for every set of orders and jobs and every  *)
(* number of crashes: the inductive invariant IInv, the safety properties  *)
(* it implies, and that every step of the helper is a step of WorkerSlot.  *)
(***************************************************************************)
EXTENDS CandidateHost, TLAPS

USE JobOfAssumption, NoAllocAssumption, MaxAbortsAssumption

LEMMA NextSuffixType == left # {} /\ left \subseteq Suffix => NextSuffix \in left
  BY DEF NextSuffix, Suffix

LEMMA InitIInv == Init => IInv
  BY DEF Init, IInv, TypeOK, LoopInv, CurInv, CleanInv, LaunchInv, NothingForgotten,
     SingleWorker, OneAllocationPerJob, WorkspaceOutlivesWorker, HasResource, Journaled,
     Held, Phase, Suffix, Cleaning, Launching, Request, Nothing

LEMMA TypeStep == TypeOK /\ CurInv /\ [Next]_vars => TypeOK'
<1> SUFFICES ASSUME TypeOK, CurInv, [Next]_vars PROVE TypeOK'
  OBVIOUS
<1> USE DEF TypeOK, Phase, world, process, resources, Exit, Nothing, Request, Cleaning, Launching, Held
<1>1. ASSUME NEW r \in Request, Begin(r) PROVE TypeOK'
  BY <1>1 DEF Begin, Journaled
<1>2. ASSUME NEW a \in Alloc, Spare(a) PROVE TypeOK'
  BY <1>2 DEF Spare
<1>3. ASSUME NEW a \in Alloc, Collect(a) PROVE TypeOK'
  BY <1>3 DEF Collect
<1>4. CASE RemoveContainer
  BY <1>4 DEF RemoveContainer
<1>5. CASE RemoveVolume
  BY <1>5 DEF RemoveVolume
<1>6. CASE UnlinkJit
  BY <1>6 DEF UnlinkJit
<1>7. CASE MarkCleaned
  BY <1>7 DEF MarkCleaned, Tombstone
<1>8. CASE Proceed \/ Report \/ Refuse
  BY <1>8 DEF Proceed, Report, Refuse
<1>9. CASE Admit
  BY <1>9 DEF Admit, CurInv
<1>10. CASE CreateVolume
  BY <1>10, NextSuffixType DEF CreateVolume
<1>11. CASE WriteJit
  BY <1>11 DEF WriteJit, CurInv
<1>12. CASE DockerRun \/ DockerRunFails
  BY <1>12 DEF DockerRun, DockerRunFails
<1>13. CASE Confirm
  BY <1>13 DEF Confirm
<1>14. CASE Abort \/ Reboot
  BY <1>14 DEF Abort, Reboot
<1>15. CASE Environment
  BY <1>15 DEF Environment, WorkerExits, WorkerAges, JobEnds
<1>16. CASE UNCHANGED vars
  BY <1>16 DEF vars
<1> QED
  BY <1>1, <1>2, <1>3, <1>4, <1>5, <1>6, <1>7, <1>8, <1>9, <1>10, <1>11, <1>12,
     <1>13, <1>14, <1>15, <1>16 DEF Next, Work

LEMMA SafetyStep == IInv /\ [Next]_vars =>
  /\ LoopInv' /\ CurInv' /\ CleanInv' /\ LaunchInv'
  /\ NothingForgotten' /\ SingleWorker' /\ OneAllocationPerJob' /\ WorkspaceOutlivesWorker'
<1> DEFINE Goal == /\ LoopInv /\ CurInv /\ CleanInv /\ LaunchInv
                   /\ NothingForgotten /\ SingleWorker
                   /\ OneAllocationPerJob /\ WorkspaceOutlivesWorker
<1> SUFFICES ASSUME IInv, [Next]_vars PROVE Goal'
  OBVIOUS
<1> USE DEF IInv, TypeOK, LoopInv, CurInv, CleanInv, LaunchInv, NothingForgotten, SingleWorker,
        OneAllocationPerJob, WorkspaceOutlivesWorker, HasResource, Journaled,
        Held, Phase, Cleaning, Launching, Exit, Nothing, world, resources, process, Request
<1>1. ASSUME NEW r \in Request, Begin(r) PROVE Goal'
  BY <1>1 DEF Begin
<1>2. ASSUME NEW a \in Alloc, Spare(a) PROVE Goal'
  BY <1>2 DEF Spare, Spared
<1>3. ASSUME NEW a \in Alloc, Collect(a) PROVE Goal'
  <2> USE <1>3 DEF Collect
  <2>1. /\ a \in Alloc /\ journal[a] \in Held /\ a \notin todo'
        /\ pc = "cleanup" /\ cur = NoAlloc /\ cur' = a
    BY DEF Spared
  <2>2. CASE container[a] # "none"
    <3>1. pc' = "remove" /\ journal' = [journal EXCEPT ![a] = "removing"]
      BY <2>2
    <3>2. container[a] = "running" => a \in expired \/ JobOf[a] \in over
      BY <2>2 DEF Spared
    <3>3. \A b \in Alloc : journal'[b] \in Held <=> journal[b] \in Held
      BY <2>1, <3>1
    <3>4. LoopInv' /\ CurInv'
      BY <2>1, <2>2, <3>1, <3>3
    <3>5. CleanInv' /\ LaunchInv'
      BY <2>1, <2>2, <3>1, <3>2
    <3>6. NothingForgotten' /\ SingleWorker' /\ WorkspaceOutlivesWorker'
      BY <2>1, <3>1, <3>3
    <3>7. OneAllocationPerJob'
      BY <2>1, <3>1
    <3> QED
      BY <3>4, <3>5, <3>6, <3>7
  <2>3. CASE container[a] = "none"
    <3>1. pc' = "volumes" /\ UNCHANGED journal /\ volumes'[a] \subseteq left'
      BY <2>3
    <3>2. LoopInv' /\ CurInv'
      BY <2>1, <3>1
    <3>3. CleanInv' /\ LaunchInv'
      BY <2>1, <2>3, <3>1
    <3>4. NothingForgotten' /\ SingleWorker' /\ WorkspaceOutlivesWorker' /\ OneAllocationPerJob'
      BY <3>1
    <3> QED
      BY <3>2, <3>3, <3>4
  <2> QED
    BY <2>2, <2>3
<1>4. CASE RemoveContainer
  BY <1>4 DEF RemoveContainer
<1>5. CASE RemoveVolume
  BY <1>5, NextSuffixType DEF RemoveVolume
<1>6. CASE UnlinkJit
  BY <1>6 DEF UnlinkJit
<1>7. CASE MarkCleaned
  BY <1>7 DEF MarkCleaned, Tombstone
<1>8. CASE Proceed \/ Report \/ Refuse
  BY <1>8 DEF Proceed, Report, Refuse
<1>9. CASE Admit
  BY <1>9 DEF Admit, Admissible, Vacant
<1>10. CASE CreateVolume
  BY <1>10, NextSuffixType DEF CreateVolume
<1>11. CASE WriteJit
  BY <1>11 DEF WriteJit
<1>12. CASE DockerRun \/ DockerRunFails
  BY <1>12 DEF DockerRun, DockerRunFails
<1>13. CASE Confirm
  BY <1>13 DEF Confirm
<1>14. CASE Abort \/ Reboot
  BY <1>14 DEF Abort, Reboot
<1>15. CASE Environment
  BY <1>15 DEF Environment, WorkerExits, WorkerAges, JobEnds
<1>16. CASE UNCHANGED vars
  BY <1>16 DEF vars
<1> QED
  BY <1>1, <1>2, <1>3, <1>4, <1>5, <1>6, <1>7, <1>8, <1>9, <1>10, <1>11, <1>12,
     <1>13, <1>14, <1>15, <1>16 DEF Next, Work

LEMMA Invariance == Spec => []IInv
<1>1. IInv /\ [Next]_vars => IInv'
  BY TypeStep, SafetyStep DEF IInv
<1> QED
  BY InitIInv, <1>1, PTL DEF Spec

(* Every state of the helper is well typed: scripts/candidate_pool_host.py *)
(* never records a phase or meets a resource the design does not name.     *)
THEOREM TypeCorrect == Spec => []TypeOK
  BY Invariance, PTL DEF IInv

(* Whatever step an invocation dies at, a container, volume or JIT file    *)
(* that exists belongs to a record the next cleanup visits.                *)
THEOREM Recoverable == Spec => []NothingForgotten
  BY Invariance, PTL DEF IInv

(* launch admits only when cleanup has ended every other record: a host    *)
(* never holds two allocations.                                            *)
THEOREM OneWorker == Spec => []SingleWorker
  BY Invariance, PTL DEF IInv

(* No two records of the journal are for the same job.                     *)
THEOREM OneAdmissionPerJob == Spec => []OneAllocationPerJob
  BY Invariance, PTL DEF IInv

(* A container never outlives its volumes or its JIT file.                 *)
THEOREM WorkspaceLast == Spec => []WorkspaceOutlivesWorker
  BY Invariance, PTL DEF IInv

(* A worker within its lifetime, whose job is not over, is never killed.   *)
THEOREM LiveWorkerSafe == Spec => NoLiveKill
<1> DEFINE Step == \A a \in Alloc :
       container[a] = "running" /\ container'[a] = "none"
         => a \in expired \/ JobOf[a] \in over
<1>1. IInv /\ [Next]_vars => Step
  <2> SUFFICES ASSUME IInv, [Next]_vars,
                      NEW a \in Alloc, container[a] = "running", container'[a] = "none"
               PROVE a \in expired \/ JobOf[a] \in over
    OBVIOUS
  <2> USE DEF IInv, TypeOK, resources, world, process
  <2>1. RemoveContainer
    BY DEF Next, Work, Begin, Spare, Collect, RemoveVolume, UnlinkJit, MarkCleaned, Proceed,
       Report, Admit, Refuse, CreateVolume, WriteJit, DockerRun, DockerRunFails, Confirm,
       Abort, Reboot, Environment, WorkerExits, WorkerAges, JobEnds, vars
  <2> QED
    BY <2>1 DEF RemoveContainer, CleanInv
<1> QED
  BY Invariance, <1>1, PTL DEF Spec, NoLiveKill

-----------------------------------------------------------------------------
(* The refinement.                                                         *)

LEMMA SlotInit == Init => Slot!Init
  BY DEF Init, Slot!Init, slot, SlotOf

(* A step that leaves every record and every container's existence alone   *)
(* leaves the slot alone.                                                  *)
LEMMA SlotStutter ==
  ASSUME TypeOK, TypeOK',
         \A a \in Alloc : /\ journal'[a] = journal[a]
                          /\ container'[a] = "none" <=> container[a] = "none"
  PROVE  slot' = slot
<1>1. ASSUME NEW a \in Alloc PROVE SlotOf(a)' = SlotOf(a)
  BY DEF SlotOf, Held, Phase, TypeOK
<1> QED
  BY <1>1 DEF slot, SlotOf

(* One allocation moves from one life stage to the next, the others stay.  *)
LEMMA SlotMove ==
  ASSUME TypeOK, TypeOK', NEW a \in Alloc,
         \A b \in Alloc \ {a} : journal'[b] = journal[b] /\ container'[b] = container[b]
  PROVE  slot' = [slot EXCEPT ![a] = SlotOf(a)']
<1>1. ASSUME NEW b \in Alloc \ {a} PROVE SlotOf(b)' = SlotOf(b)
  BY <1>1 DEF SlotOf
<1>2. \A b \in Alloc : slot'[b] = SlotOf(b)' /\ slot[b] = SlotOf(b)
  BY DEF slot
<1>3. slot' = [b \in Alloc |-> slot'[b]] /\ slot = [b \in Alloc |-> slot[b]]
  BY Zenon DEF slot
<1> QED
  BY <1>1, <1>2, <1>3

LEMMA SlotStep == IInv /\ IInv' /\ [Next]_vars => [Slot!Next]_slot
<1> SUFFICES ASSUME IInv, IInv', [Next]_vars PROVE [Slot!Next]_slot
  OBVIOUS
<1> USE DEF IInv, resources, world, process, Phase, Held
<1>1. CASE \/ \E r \in Request : Begin(r)
           \/ \E a \in Alloc : Spare(a)
           \/ RemoveVolume \/ UnlinkJit \/ Proceed \/ Report \/ Refuse
           \/ CreateVolume \/ WriteJit \/ Abort \/ Environment \/ Reboot \/ UNCHANGED vars
  <2>1. \A a \in Alloc : /\ journal'[a] = journal[a]
                         /\ container'[a] = "none" <=> container[a] = "none"
    BY <1>1 DEF Begin, Spare, RemoveVolume, UnlinkJit, Proceed, Report, Refuse, CreateVolume,
       WriteJit, Abort, Reboot, Environment, WorkerExits, WorkerAges, JobEnds, vars, TypeOK
  <2> QED
    BY <2>1, SlotStutter
<1>2. ASSUME NEW a \in Alloc, Collect(a) PROVE [Slot!Next]_slot
  <2>1. \A b \in Alloc \ {a} : journal'[b] = journal[b] /\ container'[b] = container[b]
    BY <1>2 DEF Collect, TypeOK
  <2>2. SlotOf(a)' = SlotOf(a)
    BY <1>2 DEF Collect, SlotOf, Spared, CurInv, Journaled, TypeOK
  <2>3. slot' = slot
    BY <2>1, <2>2 DEF slot, SlotOf
  <2> QED
    BY <2>3
<1>3. CASE RemoveContainer
  <2>1. PICK a \in Alloc : a = cur
    BY <1>3 DEF RemoveContainer, CurInv, Cleaning
  <2>2. SlotOf(a) = "working" /\ SlotOf(a)' = "draining"
    BY <1>3, <2>1 DEF RemoveContainer, SlotOf, CleanInv, TypeOK
  <2>3. slot' = [slot EXCEPT ![a] = "draining"]
    BY <1>3, <2>1, <2>2, SlotMove DEF RemoveContainer, TypeOK
  <2>4. Slot!Drain(a)
    BY <2>2, <2>3 DEF Slot!Drain, slot
  <2> QED
    BY <2>4 DEF Slot!Next, Slot!Retire
<1>4. CASE MarkCleaned
  <2>1. PICK a \in Alloc : a = cur
    BY <1>4 DEF MarkCleaned, Tombstone, CurInv, Cleaning
  <2>2. SlotOf(a) \in {"reserved", "draining"} /\ SlotOf(a)' = "gone"
    BY <1>4, <2>1 DEF MarkCleaned, Tombstone, SlotOf, CleanInv, CurInv, TypeOK
  <2>3. slot' = [slot EXCEPT ![a] = "gone"]
    BY <1>4, <2>1, <2>2, SlotMove DEF MarkCleaned, Tombstone, TypeOK
  <2>4. Slot!Free(a)
    BY <2>2, <2>3 DEF Slot!Free, slot
  <2> QED
    BY <2>4 DEF Slot!Next, Slot!Retire
<1>5. CASE Admit
  <2>0. PICK a \in Alloc : a = request.launch
    BY <1>5 DEF Admit, CurInv
  <2>1. SlotOf(a) = "new" /\ SlotOf(a)' = "reserved"
    BY <1>5, <2>0 DEF Admit, Admissible, Vacant, Journaled, SlotOf, TypeOK
  <2>2. \A b \in Alloc : SlotOf(b) \notin {"reserved", "working", "draining"}
    BY <1>5 DEF Admit, Admissible, Vacant, SlotOf, LoopInv, CurInv, TypeOK, Cleaning, Launching
  <2>3. \A b \in Alloc : JobOf[b] = JobOf[a] => SlotOf(b) = "new"
    BY <1>5, <2>0 DEF Admit, Admissible, Journaled, SlotOf
  <2>4. slot' = [slot EXCEPT ![a] = "reserved"]
    BY <1>5, <2>0, <2>1, SlotMove DEF Admit, TypeOK
  <2>5. Slot!Reserve(a)
    BY <2>1, <2>2, <2>3, <2>4 DEF Slot!Reserve, Slot!Taken, slot
  <2> QED
    BY <2>1, <2>5 DEF Slot!Next
<1>6. CASE DockerRun \/ DockerRunFails
  <2>1. PICK a \in Alloc : a = cur
    BY <1>6 DEF DockerRun, DockerRunFails, CurInv, Launching
  <2>2. SlotOf(a) = "reserved" /\ SlotOf(a)' = "working"
    BY <1>6, <2>1 DEF DockerRun, DockerRunFails, SlotOf, LaunchInv, Launching, TypeOK
  <2>3. slot' = [slot EXCEPT ![a] = "working"]
    BY <1>6, <2>1, <2>2, SlotMove DEF DockerRun, DockerRunFails, TypeOK
  <2>4. Slot!Work(a)
    BY <2>2, <2>3 DEF Slot!Work, slot
  <2> QED
    BY <2>4 DEF Slot!Next
<1>7. CASE Confirm
  <2>1. PICK a \in Alloc : a = cur
    BY <1>7 DEF Confirm, CurInv, Launching
  <2>2. SlotOf(a)' = SlotOf(a)
    BY <1>7, <2>1 DEF Confirm, SlotOf, LaunchInv, Launching, TypeOK
  <2>3. \A b \in Alloc \ {a} : journal'[b] = journal[b] /\ container'[b] = container[b]
    BY <1>7, <2>1 DEF Confirm, TypeOK
  <2>4. slot' = slot
    BY <2>2, <2>3 DEF slot, SlotOf
  <2> QED
    BY <2>4
<1> QED
  BY <1>1, <1>2, <1>3, <1>4, <1>5, <1>6, <1>7 DEF Next, Work

(* Every behaviour of the helper, crashes and reboots included, is one of  *)
(* the slot it promises.                                                   *)
THEOREM ImplementsSlot == Spec => SlotSafety
<1>1. IInv /\ IInv' /\ [Next]_vars => [Slot!Next]_slot
  BY SlotStep
<1> QED
  BY SlotInit, <1>1, Invariance, PTL DEF Spec, SlotSafety, Slot!Safety
=============================================================================
