------------------------- MODULE LegacyRunnerProofs -------------------------
(***************************************************************************)
(* Proofs about LegacyRunner, for every set of jobs, every limit and every *)
(* number of faults and launches.                                          *)
(***************************************************************************)
EXTENDS LegacyRunner, FiniteSetTheorems, TLAPS

USE BoundAssumption

LEMMA JobOfWorker == \A w \in Worker : JobOf(w) \in Job /\ w[2] \in 1 .. MaxLaunches
  BY DEF Worker, JobOf

(* As long as names are unique, fewer active jobs than the limit means     *)
(* fewer workers, but for those gone astray.                               *)
LEMMA RoomForOne ==
  ASSUME NamesUnique, Running \ astray \subseteq active,
         IsFiniteSet(Running), IsFiniteSet(active), Room
  PROVE  Cardinality(Running \ astray) < MaxRunners
<1> DEFINE Counted == Running \ astray
           ActiveJobs == {JobOf(w) : w \in active}
           name == [w \in active |-> JobOf(w)]
           runs == [w \in Counted |-> JobOf(w)]
<1>1. name \in Surjection(active, ActiveJobs)
  BY DEF Surjection
<1>2. IsFiniteSet(ActiveJobs)
  BY <1>1, FS_Surjection
<1>3. runs \in Injection(Counted, ActiveJobs)
  BY DEF Injection, IsInjective, NamesUnique, Running, Exists
<1>4. IsFiniteSet(Counted) /\ Cardinality(Counted) <= Cardinality(ActiveJobs)
  BY <1>2, <1>3, FS_Injection, FS_Subset
<1>5. Cardinality(ActiveJobs) < MaxRunners
  BY DEF Room
<1> QED
  BY <1>2, <1>4, <1>5, FS_CardinalityType

LEMMA InitIInv == Init => IInv
<1> SUFFICES ASSUME Init PROVE IInv
  OBVIOUS
<1>1. Running = {} /\ Exists = {}
  BY DEF Init, Running, Exists
<1>2. IsFiniteSet(Running) /\ IsFiniteSet(active)
  BY <1>1, FS_EmptySet DEF Init
<1>3. TypeOK
  BY <1>1 DEF Init, TypeOK
<1> QED
  BY <1>1, <1>2, <1>3 DEF Init, IInv, CleanInv, LaunchInv, Launching, NamesUnique, Tracked

LEMMA TypeStep == IInv /\ [Next]_vars => TypeOK'
<1> SUFFICES ASSUME IInv, [Next]_vars PROVE TypeOK'
  OBVIOUS
<1>0. /\ Worker' = Worker /\ Exists \subseteq Worker
      /\ \A w \in Worker : JobOf(w) \in Job /\ w[2] \in 1 .. MaxLaunches
  BY JobOfWorker DEF Worker, Exists
<1>a. TypeOK /\ CleanInv /\ LaunchInv
  BY DEF IInv
<1>b. UNCHANGED container => Running' = Running
  BY DEF Running
<1> USE <1>0, <1>a, <1>b DEF TypeOK, files, docker, github, memory, seen
<1>1. CASE Begin
  BY <1>1 DEF Begin, Dead
<1>2. ASSUME NEW w \in Worker, Bury(w) PROVE TypeOK'
  BY <1>2 DEF Bury
<1>3. CASE RemoveContainer
  BY <1>3 DEF RemoveContainer, CleanInv, Running
<1>4. CASE BeginTombstones
  BY <1>4 DEF BeginTombstones, Visited
<1>5. ASSUME NEW w \in Worker, Bygone(w) \/ KeepBusy(w) \/ FindIdle(w) PROVE TypeOK'
  BY <1>5 DEF Bygone, KeepBusy, FindIdle
<1>6. CASE Delete
  BY <1>6 DEF Delete, CleanInv
<1>7. CASE DeleteRefused \/ EndPass
  BY <1>7 DEF DeleteRefused, EndPass, End
<1>8. CASE SaveTombstones
  BY <1>8 DEF SaveTombstones
<1>9. ASSUME NEW j \in Job, Skip(j) \/ Try(j) PROVE TypeOK'
  BY <1>9 DEF Skip, Try, Eligible
<1>10. CASE Post \/ PostAnswerLost
  <2>1. cur \in Worker /\ cur[2] = made + 1 /\ pc = "post"
    BY <1>10 DEF Post, PostAnswerLost, LaunchInv, Launching
  <2>2. made + 1 \in 0 .. MaxLaunches
    BY <2>1
  <2>3. CASE Post
    BY <2>1, <2>2, <2>3 DEF Post, Made
  <2>4. CASE PostAnswerLost
    BY <2>1, <2>2, <2>4 DEF PostAnswerLost, Made, Fault
  <2> QED
    BY <1>10, <2>3, <2>4
<1>c. Writing \subseteq {"registrations", "retries"}
  BY DEF Writing
<1>11. CASE Record \/ RecordFails
  <2>1. cur \in Worker /\ JobOf(cur) \in Job
    BY <1>11 DEF Record, RecordFails, LaunchInv, Launching
  <2>2. CASE Record
    BY <2>1, <2>2 DEF Record, Recorded
  <2>3. ASSUME Interrupted PROVE saved' \subseteq Worker /\ torn' \subseteq {"registrations", "retries"}
                                /\ attempts' \in [Job -> 0 .. MaxAttempts] /\ waiting' \subseteq Job
    BY <1>c, <2>3 DEF Interrupted
  <2>4. CASE RecordFails
    <3>1. CASE "registrations" \in torn
      BY <2>1, <2>4, <3>1 DEF RecordFails
    <3>2. CASE "registrations" \notin torn
      BY <2>1, <2>3, <2>4, <3>2 DEF RecordFails, Fault
    <3> QED
      BY <3>1, <3>2
  <2> QED
    BY <1>11, <2>2, <2>4
<1>12. CASE Run \/ LaunchFails
  <2>1. cur \in Worker
    BY <1>12 DEF Run, LaunchFails, LaunchInv, Launching
  <2>2. pc = "run" => container[cur] = "none"
    BY <2>1 DEF LaunchInv, Launching, Busy, Exists
  <2>3. Running \subseteq Running'
    BY <1>12, <2>1, <2>2 DEF Run, LaunchFails, Running
  <2> QED
    BY <1>12, <2>1, <2>3 DEF Run, LaunchFails
<1>13. CASE SaveSuccess \/ SaveFailure
  <2>1. cur \in Worker /\ JobOf(cur) \in Job /\ attempts[JobOf(cur)] + 1 \in 0 .. MaxAttempts
    BY <1>13 DEF SaveSuccess, SaveFailure, LaunchInv, Budget
  <2>2. CASE SaveSuccess
    BY <2>1, <2>2 DEF SaveSuccess, Joined
  <2>3. CASE SaveFailure
    BY <2>1, <2>3 DEF SaveFailure
  <2> QED
    BY <1>13, <2>2, <2>3
<1>14. CASE Crash
  <2>1. pc = "record" => cur \in Worker
    BY DEF LaunchInv, Launching
  <2> QED
    BY <1>14, <1>c, <2>1 DEF Crash, Interrupted, End, Fault
<1>15. ASSUME NEW w \in Worker, NEW j \in Job, JobAssigned(w, j) PROVE TypeOK'
  BY <1>15 DEF JobAssigned
<1>16. ASSUME NEW w \in Worker, JobFinishes(w) \/ JobLost(w) \/ Removed(w) PROVE TypeOK'
  BY <1>16 DEF JobFinishes, JobLost, Removed, Running
<1>17. ASSUME NEW w \in Worker, WorkerExits(w) \/ WorkerAges(w) PROVE TypeOK'
  BY <1>17 DEF WorkerExits, WorkerAges, Running
<1>18. ASSUME NEW j \in Job, JobCancelled(j) \/ BackoffEnds(j) PROVE TypeOK'
  BY <1>18 DEF JobCancelled, BackoffEnds
<1>19. CASE UNCHANGED vars
  BY <1>19 DEF vars
<1> QED
  BY <1>1, <1>2, <1>3, <1>4, <1>5, <1>6, <1>7, <1>8, <1>9, <1>10, <1>11, <1>12, <1>13, <1>14,
     <1>15, <1>16, <1>17, <1>18, <1>19 DEF Next, Reconcile, Failure, Environment

LEMMA FiniteStep == IInv /\ [Next]_vars => IsFiniteSet(Running)' /\ IsFiniteSet(active)'
<1> SUFFICES ASSUME IInv, [Next]_vars PROVE IsFiniteSet(Running') /\ IsFiniteSet(active')
  OBVIOUS
<1>0. TypeOK /\ IsFiniteSet(Running) /\ IsFiniteSet(active)
  BY DEF IInv
<1>1. IsFiniteSet(Running \cup {cur}) /\ IsFiniteSet(active \cup {cur})
  BY <1>0, FS_AddElement
<1>2. CASE Begin
  <2>1. active' \subseteq Running /\ Running' = Running
    BY <1>2 DEF Begin, docker, Dead, Exists, Running
  <2> QED
    BY <1>0, <2>1, FS_Subset
<1>3. CASE SaveSuccess
  <2>1. active' = active \cup {cur} /\ Running' = Running
    BY <1>3 DEF SaveSuccess, Joined, docker, Running
  <2> QED
    BY <1>0, <1>1, <2>1
<1>4. ASSUME active' = active \/ active' = {}, Running' \subseteq Running \cup {cur}
      PROVE  IsFiniteSet(Running') /\ IsFiniteSet(active')
  BY <1>0, <1>1, <1>4, FS_Subset, FS_EmptySet
<1>5. UNCHANGED container => Running' = Running
  BY DEF Running
<1>6. CASE RemoveContainer \/ Run \/ LaunchFails
  BY <1>0, <1>4, <1>6 DEF RemoveContainer, Run, LaunchFails, Running, TypeOK, memory
<1>7. ASSUME NEW w \in Worker, JobFinishes(w) \/ WorkerExits(w)
      PROVE  IsFiniteSet(Running') /\ IsFiniteSet(active')
  BY <1>0, <1>4, <1>7 DEF JobFinishes, WorkerExits, Running, TypeOK, memory
<1>8. CASE DeleteRefused \/ EndPass \/ Crash
  BY <1>4, <1>5, <1>8 DEF DeleteRefused, EndPass, Crash, End, docker
<1> QED
  BY <1>2, <1>3, <1>4, <1>5, <1>6, <1>7, <1>8
  DEF Next, Reconcile, Failure, Environment, vars, docker, memory, Bury, BeginTombstones, Bygone,
      KeepBusy, FindIdle, Delete, SaveTombstones, Skip, Try, Post, PostAnswerLost, Record,
      RecordFails, SaveFailure, JobAssigned, JobLost, Removed, JobCancelled, WorkerAges, BackoffEnds

LEMMA SafetyStep == IInv /\ [Next]_vars => CleanInv' /\ LaunchInv' /\ NamesUnique' /\ Tracked'
<1> DEFINE Goal == CleanInv /\ LaunchInv /\ NamesUnique /\ Tracked
<1> SUFFICES ASSUME IInv, [Next]_vars PROVE Goal'
  OBVIOUS
<1>0. /\ Worker' = Worker /\ Exists \subseteq Worker /\ Running \subseteq Exists
      /\ \A w \in Worker : JobOf(w) \in Job
  BY JobOfWorker DEF Worker, Exists, Running
<1>a. TypeOK /\ CleanInv /\ LaunchInv /\ NamesUnique /\ Tracked
  BY DEF IInv
<1>b. UNCHANGED container => Exists' = Exists /\ Running' = Running
  BY DEF Exists, Running
<1>c. UNCHANGED active => (Room' <=> Room)
  BY DEF Room
<1> USE <1>0, <1>a, <1>b, <1>c DEF files, docker, github, memory, seen, JobOf, Launching, Busy, Budget,
        CleanInv, LaunchInv, NamesUnique, Tracked
<1>1. CASE Begin
  BY <1>1 DEF Begin, Dead
<1>2. ASSUME NEW w \in Worker, Bury(w) PROVE Goal'
  BY <1>2 DEF Bury
<1>3. CASE RemoveContainer
  BY <1>3 DEF RemoveContainer, TypeOK, Exists
<1>4. CASE BeginTombstones
  BY <1>4 DEF BeginTombstones, Visited
<1>5. ASSUME NEW w \in Worker, Bygone(w) \/ KeepBusy(w) \/ FindIdle(w) PROVE Goal'
  BY <1>5 DEF Bygone, KeepBusy, FindIdle
<1>6. CASE Delete
  BY <1>6 DEF Delete
<1>7. CASE DeleteRefused \/ EndPass
  BY <1>7 DEF DeleteRefused, EndPass, End
<1>8. CASE SaveTombstones
  BY <1>8 DEF SaveTombstones
<1>9. ASSUME NEW j \in Job, Skip(j) PROVE Goal'
  BY <1>9 DEF Skip
<1>10. ASSUME NEW j \in Job, Try(j) PROVE Goal'
  BY <1>10 DEF Try, Eligible, NextWorker
<1>11. CASE Post \/ PostAnswerLost
  BY <1>11 DEF Post, PostAnswerLost, Made
<1>12. CASE Record \/ RecordFails
  BY <1>12 DEF Record, Recorded, RecordFails, Interrupted, Writing, TypeOK
<1>13. CASE Run
  BY <1>13 DEF Run, TypeOK, Exists, Running
<1>14. CASE LaunchFails
  BY <1>14 DEF LaunchFails, TypeOK, Exists, Running
<1>15. CASE SaveSuccess
  BY <1>15 DEF SaveSuccess, Joined
<1>16. CASE SaveFailure
  BY <1>16 DEF SaveFailure
<1>17. CASE Crash
  BY <1>17 DEF Crash, Interrupted, End
<1>18. ASSUME NEW w \in Worker, NEW j \in Job, JobAssigned(w, j) PROVE Goal'
  BY <1>18 DEF JobAssigned, Exists
<1>19. ASSUME NEW w \in Worker, JobFinishes(w) PROVE Goal'
  BY <1>19 DEF JobFinishes, TypeOK, Exists, Running
<1>20. ASSUME NEW w \in Worker, JobLost(w) \/ Removed(w) PROVE Goal'
  BY <1>20 DEF JobLost, Removed
<1>21. ASSUME NEW w \in Worker, WorkerExits(w) PROVE Goal'
  BY <1>21 DEF WorkerExits, TypeOK, Exists, Running
<1>22. ASSUME NEW w \in Worker, WorkerAges(w) PROVE Goal'
  BY <1>22 DEF WorkerAges
<1>23. ASSUME NEW j \in Job, JobCancelled(j) \/ BackoffEnds(j) PROVE Goal'
  BY <1>23 DEF JobCancelled, BackoffEnds
<1>24. CASE UNCHANGED vars
  BY <1>24 DEF vars
<1> QED
  BY <1>1, <1>2, <1>3, <1>4, <1>5, <1>6, <1>7, <1>8, <1>9, <1>10, <1>11, <1>12, <1>13, <1>14,
     <1>15, <1>16, <1>17, <1>18, <1>19, <1>20, <1>21, <1>22, <1>23, <1>24
  DEF Next, Reconcile, Failure, Environment

LEMMA Invariance == Spec => []IInv
<1>1. IInv /\ [Next]_vars => IInv'
  BY TypeStep, FiniteStep, SafetyStep DEF IInv
<1> QED
  BY InitIInv, <1>1, PTL DEF Spec

(* Every state of the launcher is well typed; above all, only what GitHub  *)
(* has registered is ever busy, the deletions of reconcile included.       *)
THEOREM TypeCorrect == Spec => []TypeOK
  BY Invariance, PTL DEF IInv

(* registrations-to-clean.json, rewritten as a whole from memory, misses   *)
(* no registration that exists as long as it can be read: only a death, a  *)
(* lost answer or a failed save after the POST leaves one out.             *)
THEOREM RegistrationsAreTracked == Spec => []Tracked
  BY Invariance, PTL DEF IInv

(* reconcile never starts a worker over max_runners, although it counts    *)
(* them once, by job, at the start of a pass; it only misses those it has  *)
(* started in this pass in launches that failed afterwards.                *)
THEOREM WorkersAreLimited == Spec => WorkerLimit
<1> DEFINE Starts == \E w \in Worker : container[w] # "running" /\ container'[w] = "running"
           Step == Starts => Cardinality(Running \ astray) < MaxRunners
<1>1. IInv /\ [Next]_vars => [Step]_vars
  <2> SUFFICES ASSUME IInv, Next PROVE Step
    BY DEF vars
  <2>0. TypeOK
    BY DEF IInv
  <2>1. CASE Run
    <3>1. /\ Running \ astray \subseteq active /\ NamesUnique /\ Room
          /\ IsFiniteSet(Running) /\ IsFiniteSet(active)
      BY <2>1 DEF IInv, LaunchInv, Launching, Run
    <3> QED
      BY <3>1, RoomForOne
  <2>2. CASE UNCHANGED container
    BY <2>2
  <2>3. CASE RemoveContainer \/ LaunchFails
    BY <2>0, <2>3 DEF RemoveContainer, LaunchFails, TypeOK
  <2>4. ASSUME NEW w \in Worker, JobFinishes(w) \/ WorkerExits(w) PROVE Step
    BY <2>0, <2>4 DEF JobFinishes, WorkerExits, TypeOK
  <2> QED
    BY <2>1, <2>2, <2>3, <2>4
    DEF Next, Reconcile, Failure, Environment, docker, Begin, Bury, BeginTombstones, Bygone,
        KeepBusy, FindIdle, Delete, DeleteRefused, SaveTombstones, Skip, Try, Post,
        PostAnswerLost, Record, RecordFails, SaveSuccess, SaveFailure, EndPass, Crash,
        JobAssigned, JobLost, Removed, JobCancelled, WorkerAges, BackoffEnds
<1> QED
  BY <1>1, Invariance, PTL DEF Spec, WorkerLimit

(* No step of reconcile removes the registration of a worker that runs and *)
(* waits for its job: the containers were listed before the tombstones.    *)
THEOREM IdleWorkersSpared == Spec => IdleKeepsRegistration
<1> DEFINE Step == \A w \in registered \ busy : container[w] = "running" => w \in registered'
<1>1. IInv /\ [Next]_vars => [Step]_vars
  <2> SUFFICES ASSUME IInv, Next PROVE Step
    BY DEF vars
  <2>0. TypeOK /\ CleanInv
    BY DEF IInv
  <2>1. CASE UNCHANGED registered
    BY <2>1
  <2>2. CASE Post \/ PostAnswerLost
    BY <2>2 DEF Post, PostAnswerLost, Made
  <2>3. CASE Delete
    <3>1. container[cur] = "none"
      BY <2>0, <2>3 DEF Delete, CleanInv, Exists, TypeOK
    <3> QED
      BY <2>3, <3>1 DEF Delete
  <2>4. ASSUME NEW w \in Worker, JobFinishes(w) \/ Removed(w) PROVE Step
    BY <2>4 DEF JobFinishes, Removed
  <2> QED
    BY <2>1, <2>2, <2>3, <2>4
    DEF Next, Reconcile, Failure, Environment, github, Begin, Bury, RemoveContainer,
        BeginTombstones, Bygone, KeepBusy, FindIdle, DeleteRefused, SaveTombstones, Skip, Try,
        Record, RecordFails, Run, LaunchFails, SaveSuccess, SaveFailure, EndPass, Crash, JobAssigned,
        JobLost, JobCancelled, WorkerExits, WorkerAges, BackoffEnds
<1> QED
  BY <1>1, Invariance, PTL DEF Spec, IdleKeepsRegistration
=============================================================================
