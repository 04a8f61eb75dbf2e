--------------------------- MODULE ReleaseRunner ----------------------------
(***************************************************************************)
(* scripts/release_runner.py: the allocator of release workers on its      *)
(* host, alone under controller.lock, run either as the host's own service *)
(* or, under release_gateway_host.py, with every GitHub call brokered by   *)
(* release_gateway.py over the SSH connection (Brokered).                  *)
(*                                                                         *)
(* A pass cleans the journaled allocations that ended, one after the       *)
(* other, each to the point where its registration is gone; it then admits *)
(* queued jobs while fewer than max_runners allocations are journaled.  A  *)
(* failed launch is retried under a new name, at most MaxAttempts times.   *)
(* The pass may die between any two steps; an exception while an           *)
(* allocation is cleaned or launched only ends that allocation's turn.     *)
(***************************************************************************)
EXTENDS Naturals, FiniteSets

CONSTANTS Job,          \* release jobs; each has a label of its own
          MaxRunners,   \* config["max_runners"]
          MaxAttempts,  \* launches of one job (3 in the code)
          Brokered,     \* are GitHub calls made by the Gateway's Broker?
          MaxNames,     \* bound on the allocations of one job
          MaxFaults     \* bound on failed calls and crashes

ASSUME BoundAssumption ==
  /\ MaxRunners \in Nat /\ MaxAttempts \in Nat /\ MaxNames \in Nat /\ MaxFaults \in Nat
ASSUME FlagAssumption == Brokered \in BOOLEAN

(* platform-release-<job>-<random>: a launch never reuses a name.          *)
Alloc == Job \X (1 .. MaxNames)
JobOf(a) == a[1]
NoAlloc == <<>>

VARIABLES
  \* journal.json
  alloc,      \* "new", "starting", "running"; "gone" once deleted
  attempts,   \* launches of a job that were begun
  waiting,    \* is the job's 300 s back-off still running?
  \* Docker and the state directory
  container, store,
  \* GitHub
  status, reg,
  pending,    \* allocations whose POST was given up and may still take effect
  late,       \* observer: those whose POST did so after their cleanup
  expired,    \* journaled allocations older than max_age_seconds
  receipts,   \* registrations.json of the Gateway: the name POSTed for a job
  \* the pass
  pc, mode, todo, queue, cur,
  work,       \* the jobs the Gateway sent it for
  \* observers and bounds
  made,       \* allocations journaled for a job since its attempts were reset
  faults

journal == <<alloc, attempts, waiting>>
host    == <<container, store>>
delayed    == <<pending, late>>
github  == <<status, reg, delayed, expired, receipts>>
pass    == <<pc, mode, todo, queue, cur, work>>
memory  == <<mode, work>>
vars    == <<journal, host, github, pass, made, faults>>

Journaled == {a \in Alloc : alloc[a] \in {"starting", "running"}}

Init ==
  /\ alloc = [a \in Alloc |-> "new"]
  /\ attempts = [j \in Job |-> 0] /\ waiting = [j \in Job |-> FALSE]
  /\ container = [a \in Alloc |-> "none"] /\ store = {}
  /\ status = [j \in Job |-> "queued"] /\ reg = [a \in Alloc |-> "none"]
  /\ pending = {} /\ late = {}
  /\ expired = {} /\ receipts = [j \in Job |-> NoAlloc]
  /\ pc = "idle" /\ mode = "full" /\ todo = {} /\ queue = {} /\ cur = NoAlloc /\ work = {}
  /\ made = [j \in Job |-> 0] /\ faults = 0

-----------------------------------------------------------------------------
(* Cleanup of the journal.                                                 *)

Fault == faults < MaxFaults /\ faults' = faults + 1

End == /\ pc' = "idle" /\ mode' = "full" /\ work' = {}
       /\ todo' = {} /\ queue' = {} /\ cur' = NoAlloc

(* discover: the release jobs queued on verified sources.                  *)
Discovered == {j \in Job : status[j] = "queued"}

(* "offline" is the cleanup guard that runs without the Gateway, and a     *)
(* pass that cannot reach GitHub.  A pass asked only to drain does what a  *)
(* full pass does whose admission ends at once.                            *)
Begin(m) ==
  /\ pc = "idle" /\ pc' = "sweep"
  /\ mode' = m /\ todo' = Journaled
  /\ work' = IF Brokered /\ m = "full" THEN Discovered ELSE {}
  /\ UNCHANGED <<journal, host, github, queue, cur, made, faults>>

(* Mutant: the lifetime limit is forgotten.                                *)
Aged_Never(a) == FALSE

Aged(a) == a \in expired

(* Mutant: an unreadable job counts as completed.                          *)
Completed_Unknown(a) == status[JobOf(a)] = "completed" \/ mode = "offline"

(* Can GitHub say that the job is completed?                               *)
Completed(a) == status[JobOf(a)] = "completed" /\ mode # "offline"

(* A worker that runs, in its lifetime, is left alone unless its job is    *)
(* completed, or the question fails.                                       *)
Leave(a) ==
  /\ pc = "sweep" /\ a \in todo
  /\ container[a] = "running" /\ ~Aged(a)
  /\ IF Completed(a) THEN Fault ELSE UNCHANGED faults
  /\ todo' = todo \ {a}
  /\ UNCHANGED <<journal, host, github, pc, memory, queue, cur, made>>

Finish(a) ==
  /\ pc = "sweep" /\ a \in todo
  /\ container[a] # "running" \/ Aged(a) \/ Completed(a)
  /\ cur' = a /\ todo' = todo \ {a}
  /\ pc' = IF container[a] = "none" THEN "volumes" ELSE "kill"
  /\ UNCHANGED <<journal, host, github, memory, queue, made, faults>>

(* The whole container is stopped before its log is kept.                  *)
Kill ==
  /\ pc = "kill" /\ pc' = "remove"
  /\ container' = [container EXCEPT ![cur] = "dead"]
  /\ UNCHANGED <<journal, store, github, memory, todo, queue, cur, made, faults>>

Remove ==
  /\ pc = "remove" /\ pc' = "volumes"
  /\ container' = [container EXCEPT ![cur] = "none"]
  /\ UNCHANGED <<journal, store, github, memory, todo, queue, cur, made, faults>>

(* Both volumes and the JIT file.                                          *)
RemoveStore ==
  /\ pc = "volumes" /\ pc' = "deregister"
  /\ store' = store \ {cur}
  /\ UNCHANGED <<journal, container, github, memory, todo, queue, cur, made, faults>>

NextAllocation == pc' = "sweep" /\ cur' = NoAlloc

(* Mutant: an allocation with a busy lease is dropped.                     *)
Kept_Dropped == alloc' = [alloc EXCEPT ![cur] = "gone"]

Kept == UNCHANGED alloc

(* The registrations of the group are searched for the exact name.  A busy *)
(* lease keeps the allocation, and its slot, until a later pass.           *)
KeepLease ==
  /\ pc = "deregister" /\ mode # "offline" /\ reg[cur] = "busy"
  /\ Kept /\ NextAllocation
  /\ UNCHANGED <<attempts, waiting, host, github, memory, todo, queue, made, faults>>

Deregister ==
  /\ pc = "deregister" /\ mode # "offline" /\ reg[cur] # "busy"
  /\ (Brokered /\ reg[cur] = "idle") => receipts[JobOf(cur)] = cur
  /\ reg' = [reg EXCEPT ![cur] = "none"]
  /\ pc' = "drop"
  /\ UNCHANGED <<journal, host, status, delayed, expired, receipts, memory, todo, queue, cur, made, faults>>

Drop ==
  /\ pc = "drop"
  /\ alloc' = [alloc EXCEPT ![cur] = "gone"] /\ expired' = expired \ {cur}
  /\ NextAllocation
  /\ UNCHANGED <<attempts, waiting, host, status, reg, delayed, receipts, memory, todo, queue, made, faults>>

(* Docker or the API fails: the allocation stays for a later pass.         *)
CleanupFails ==
  /\ \/ pc \in {"kill", "remove", "volumes", "deregister"} /\ Fault
     \/ pc = "deregister" /\ mode = "offline" /\ UNCHANGED faults
  /\ NextAllocation
  /\ UNCHANGED <<journal, host, github, memory, todo, queue, made>>

-----------------------------------------------------------------------------
(* Admission.                                                              *)

Drained ==
  /\ pc = "sweep" /\ todo = {} /\ mode # "full"
  /\ End
  /\ UNCHANGED <<journal, host, github, made, faults>>

(* No container and no registration of the group is unknown to the         *)
(* journal; otherwise the pass ends here.                                  *)
Managed == \A a \in Alloc : container[a] # "none" \/ reg[a] # "none" => a \in Journaled

(* Mutant: only running workers occupy their job.                          *)
Unserved_Dead == {j \in Job : \A a \in Journaled : JobOf(a) # j \/ container[a] # "running"}

Unserved == {j \in Job : \A a \in Journaled : JobOf(a) # j}

(* parse_job: what can change of a job after its release was checked.      *)
Queued(j) == status[j] = "queued"

(* queued_jobs: the service lists them itself.                             *)
Listed == IF Brokered THEN work ELSE {j \in Job : Queued(j)}

(* The attempts of jobs without an allocation are forgotten after 7 days.  *)
Verify(old) ==
  /\ pc = "sweep" /\ todo = {} /\ mode = "full" /\ Managed
  /\ \A j \in old : ~waiting[j] /\ \A a \in Journaled : JobOf(a) # j
  /\ attempts' = [j \in Job |-> IF j \in old THEN 0 ELSE attempts[j]]
  /\ made' = [j \in Job |-> IF j \in old THEN 0 ELSE made[j]]
  /\ pc' = "admit" /\ queue' = Listed \cap Unserved
  /\ UNCHANGED <<alloc, waiting, host, github, memory, todo, cur, faults>>

(* Docker or GitHub cannot be asked, the policy of the group is not the    *)
(* required one, or something unmanaged is found: nothing is admitted.     *)
Blocked ==
  /\ pc = "sweep" /\ todo = {} /\ mode = "full"
  /\ IF Managed THEN Fault ELSE UNCHANGED faults
  /\ End
  /\ UNCHANGED <<journal, host, github, made>>

NextName(j) == <<j, 1 + Cardinality({a \in Alloc : JobOf(a) = j /\ alloc[a] # "new"})>>

(* Mutant: tombstones do not count for the limit.                          *)
Room_Running == Cardinality({a \in Alloc : container[a] = "running"}) < MaxRunners

Room == Cardinality(Journaled) < MaxRunners

(* Mutant: off by one in the budget.                                       *)
Budget_OneMore(j) == attempts[j] <= MaxAttempts /\ ~waiting[j]

Budget(j) == attempts[j] < MaxAttempts /\ ~waiting[j]

(* Mutant: the attempt is not saved before it is made.                     *)
Counted_Not(j) == UNCHANGED attempts /\ waiting' = [waiting EXCEPT ![j] = TRUE]

Counted(j) ==
  /\ attempts' = [attempts EXCEPT ![j] = @ + 1]
  /\ waiting' = [waiting EXCEPT ![j] = TRUE]

(* A job's attempts are used up or it backs off; behind the Gateway, the   *)
(* pinned image does not satisfy the job's manifest, or candidates run.    *)
Skip(j) ==
  /\ pc = "admit" /\ j \in queue
  /\ Brokered \/ ~Budget(j)
  /\ queue' = queue \ {j}
  /\ UNCHANGED <<journal, host, github, pc, memory, todo, cur, made, faults>>

(* The attempt is counted, durably, before it is made.                     *)
Attempt(j) ==
  /\ pc = "admit" /\ j \in queue
  /\ Room /\ Budget(j) /\ Counted(j)
  /\ NextName(j) \in Alloc
  /\ queue' = queue \ {j} /\ cur' = NextName(j)
  /\ pc' = "recheck"
  /\ UNCHANGED <<alloc, host, github, memory, todo, made, faults>>

NextJob == pc' = "admit" /\ cur' = NoAlloc

(* The job is still queued: journal the allocation before any effect.      *)
Recheck ==
  /\ pc = "recheck" /\ Queued(JobOf(cur))
  /\ alloc' = [alloc EXCEPT ![cur] = "starting"]
  /\ made' = [made EXCEPT ![JobOf(cur)] = @ + 1]
  /\ pc' = "create"
  /\ UNCHANGED <<attempts, waiting, host, github, memory, todo, queue, cur, faults>>

(* It is not, or image, disk or memory do not suffice.                     *)
Refuse ==
  /\ pc = "recheck"
  /\ NextJob
  /\ UNCHANGED <<journal, host, github, memory, todo, queue, made, faults>>

CreateVolumes ==
  /\ pc = "create" /\ cur \notin store
  /\ store' = store \cup {cur}
  /\ pc' = "post"
  /\ UNCHANGED <<journal, container, github, memory, todo, queue, cur, made, faults>>

(* Mutant: the broker only asks whether the job is queued.                 *)
Served_Queued(j) == Brokered => Queued(j)

(* Broker.serve rechecks the job, and never POSTs again for a job with a   *)
(* receipt.                                                                *)
Served(j) == Brokered => receipts[j] = NoAlloc /\ Queued(j)

Receipt == receipts' = IF Brokered THEN [receipts EXCEPT ![JobOf(cur)] = cur] ELSE receipts

Post ==
  /\ pc = "post" /\ Served(JobOf(cur))
  /\ Receipt
  /\ reg' = [reg EXCEPT ![cur] = "idle"]
  /\ pc' = "run"
  /\ UNCHANGED <<journal, host, status, delayed, expired, memory, todo, queue, cur, made, faults>>

(* The receipt is saved and then the POST fails, or only its answer is     *)
(* lost: it never takes effect, or it does at once or at any later time.   *)
PostFails ==
  /\ pc = "post" /\ Served(JobOf(cur))
  /\ Fault
  /\ Receipt
  /\ pending' = pending \cup {cur}
  /\ NextJob
  /\ UNCHANGED <<journal, host, status, reg, late, expired, memory, todo, queue, made>>

PostRefused ==
  /\ pc = "post" /\ ~Served(JobOf(cur))
  /\ NextJob
  /\ UNCHANGED <<journal, host, github, memory, todo, queue, made, faults>>

(* verify_run: the tag moved, or the branch lost its protection.           *)
SourceRefused ==
  /\ pc = "post" /\ Brokered
  /\ NextJob
  /\ UNCHANGED <<journal, host, github, memory, todo, queue, made, faults>>

(* The JIT file is written and the worker started.                         *)
Run ==
  /\ pc = "run" /\ pc' = "confirm"
  /\ container' = [container EXCEPT ![cur] = "running"]
  /\ UNCHANGED <<journal, store, github, memory, todo, queue, cur, made, faults>>

Confirm ==
  /\ pc = "confirm"
  /\ alloc' = [alloc EXCEPT ![cur] = "running"]
  /\ NextJob
  /\ UNCHANGED <<attempts, waiting, host, github, memory, todo, queue, made, faults>>

LaunchFails ==
  /\ pc \in {"create", "run", "confirm"} /\ Fault
  /\ container' \in {container} \cup
       IF pc = "run" THEN {[container EXCEPT ![cur] = "dead"]} ELSE {}
  /\ NextJob
  /\ UNCHANGED <<journal, store, github, memory, todo, queue, made>>

(* The listing ends or fails, or the limit is reached.                     *)
EndPass ==
  /\ pc = "admit"
  /\ End
  /\ UNCHANGED <<journal, host, github, made, faults>>

(* The pass is killed, or raises outside one allocation's turn.            *)
Crash ==
  /\ pc # "idle" /\ Fault
  /\ End
  /\ UNCHANGED <<journal, host, github, made>>

-----------------------------------------------------------------------------
(* GitHub, Docker and the clock.                                           *)

PostLands(a) ==
  /\ a \in pending /\ pending' = pending \ {a}
  /\ reg' = [reg EXCEPT ![a] = "idle"]
  /\ late' = IF a \in Journaled /\ ~(pc = "drop" /\ cur = a) THEN late ELSE late \cup {a}
  /\ UNCHANGED <<journal, host, status, expired, receipts, pass, made, faults>>

JobAssigned(a) ==
  /\ reg[a] = "idle" /\ container[a] = "running" /\ status[JobOf(a)] = "queued"
  /\ status' = [status EXCEPT ![JobOf(a)] = "in_progress"]
  /\ reg' = [reg EXCEPT ![a] = "busy"]
  /\ UNCHANGED <<journal, host, delayed, expired, receipts, pass, made, faults>>

JobFinishes(a) ==
  /\ reg[a] = "busy" /\ container[a] = "running"
  /\ status' = [status EXCEPT ![JobOf(a)] = "completed"]
  /\ reg' = [reg EXCEPT ![a] = "none"]
  /\ container' = [container EXCEPT ![a] = "dead"]
  /\ UNCHANGED <<journal, store, delayed, expired, receipts, pass, made, faults>>

(* GitHub fails a job whose worker is gone and frees its lease.            *)
JobLost(a) ==
  /\ reg[a] = "busy" /\ container[a] # "running"
  /\ status' = [status EXCEPT ![JobOf(a)] = "completed"]
  /\ reg' = [reg EXCEPT ![a] = "idle"]
  /\ UNCHANGED <<journal, host, delayed, expired, receipts, pass, made, faults>>

(* A queued job is cancelled.                                              *)
JobCancelled(j) ==
  /\ status[j] = "queued"
  /\ status' = [status EXCEPT ![j] = "completed"]
  /\ UNCHANGED <<journal, host, reg, delayed, expired, receipts, pass, made, faults>>

WorkerExits(a) ==
  /\ container[a] = "running"
  /\ container' = [container EXCEPT ![a] = "dead"]
  /\ UNCHANGED <<journal, store, github, pass, made, faults>>

WorkerAges(a) ==
  /\ a \in Journaled \ expired
  /\ expired' = expired \cup {a}
  /\ UNCHANGED <<journal, host, status, reg, delayed, receipts, pass, made, faults>>

BackoffEnds(j) ==
  /\ waiting[j]
  /\ waiting' = [waiting EXCEPT ![j] = FALSE]
  /\ UNCHANGED <<alloc, attempts, host, github, pass, made, faults>>

Cleanup ==
  \/ \E a \in Alloc : Leave(a) \/ Finish(a)
  \/ Kill \/ Remove \/ RemoveStore \/ KeepLease \/ Deregister \/ Drop \/ CleanupFails

Admission ==
  \/ Drained \/ Blocked \/ EndPass
  \/ \E old \in SUBSET Job : Verify(old)
  \/ \E j \in Job : Skip(j) \/ Attempt(j)
  \/ Recheck \/ Refuse \/ CreateVolumes \/ Post \/ PostRefused \/ SourceRefused \/ Run \/ Confirm

Failure == PostFails \/ LaunchFails \/ Crash

Environment ==
  \/ \E a \in Alloc : \/ PostLands(a)
                      \/ JobAssigned(a) \/ JobFinishes(a) \/ JobLost(a)
                      \/ WorkerExits(a) \/ WorkerAges(a)
  \/ \E j \in Job : JobCancelled(j) \/ BackoffEnds(j)

Next ==
  \/ \E m \in {"full", "offline"} : Begin(m)
  \/ Cleanup \/ Admission \/ Failure \/ Environment

(* A started pass goes on; workers have a maximal age and GitHub frees the *)
(* leases of lost ones.  Nothing says that a pass ever starts: the Gateway *)
(* ends without one whenever it waits for the candidate lock in vain.      *)
Fairness ==
  /\ WF_vars(Cleanup \/ Admission)
  /\ \A a \in Alloc : WF_vars(WorkerAges(a)) /\ WF_vars(JobLost(a))

Spec == Init /\ [][Next]_vars /\ Fairness
-----------------------------------------------------------------------------
TypeOK ==
  /\ alloc \in [Alloc -> {"new", "starting", "running", "gone"}]
  /\ attempts \in [Job -> 0 .. MaxAttempts] /\ waiting \in [Job -> BOOLEAN]
  /\ container \in [Alloc -> {"none", "running", "dead"}] /\ store \subseteq Alloc
  /\ status \in [Job -> {"queued", "in_progress", "completed"}]
  /\ reg \in [Alloc -> {"none", "idle", "busy"}]
  /\ pending \subseteq Alloc /\ late \subseteq Alloc
  /\ expired \subseteq Alloc /\ receipts \in [Job -> Alloc \cup {NoAlloc}]
  /\ pc \in {"idle", "sweep", "kill", "remove", "volumes", "deregister", "drop", "admit",
             "recheck", "create", "post", "run", "confirm"}
  /\ mode \in {"full", "offline"}
  /\ work \subseteq Job /\ todo \subseteq Alloc /\ queue \subseteq Job /\ cur \in Alloc \cup {NoAlloc}
  /\ made \in [Job -> Nat] /\ faults \in 0 .. MaxFaults

(* Never more release allocations, hence workers, than max_runners, the    *)
(* tombstones of dead workers with a busy lease included.                  *)
SlotLimit == Cardinality(Journaled) <= MaxRunners

(* A container, a volume, a JIT file or a registration that exists belongs *)
(* to a journaled allocation, wherever a pass was cut short: it is found   *)
(* again, and the pool is never blocked by leftovers of its own, except by *)
(* a registration whose POST took effect after the cleanup looked for it.  *)
NothingForgotten ==
  \A a \in Alloc \ Journaled :
    container[a] = "none" /\ a \notin store /\ (reg[a] = "none" \/ a \in late)

(* A job never has two allocations at a time.  (Registrations are another  *)
(* matter: one whose POST landed late may outlive its allocation.  Behind  *)
(* the broker it is then the job's only one, by BrokeredOnce.)             *)
OneAllocationPerJob == \A a, b \in Journaled : JobOf(a) = JobOf(b) => a = b

(* A crash or a lost answer never buys a job one launch more.              *)
AttemptsBounded == \A j \in Job : made[j] <= attempts[j]

(* Behind the broker a job is registered under one name only, whatever the *)
(* host retries and whichever side dies: a registration only appears with  *)
(* the name in the job's receipt, which nothing replaces.                  *)
BrokeredOnce ==
  [][Brokered =>
       /\ \A a \in Alloc : reg[a] = "none" /\ reg'[a] # "none" => receipts'[JobOf(a)] = a
       /\ \A j \in Job : receipts[j] # NoAlloc => receipts'[j] = receipts[j]]_vars

(* A worker in its lifetime is not killed before its job is completed.     *)
NoLiveKill ==
  [][Kill => \/ container[cur] # "running" \/ cur \in expired
             \/ status[JobOf(cur)] = "completed"]_vars

(* If full passes start again and again, every allocation is cleaned and   *)
(* its slot freed, once failures stop, whatever offline guards come        *)
(* between.  Whether they start is the Gateway's part, which cannot        *)
(* promise it: admission_lock gives up after 40 s, each time if need be.   *)
EveryAllocationEnds ==
  []<><<Begin("full")>>_vars => \A a \in Alloc : a \in Journaled ~> alloc[a] = "gone"

-----------------------------------------------------------------------------
(* What the proofs in ReleaseRunnerProofs need besides.                    *)

(* What a pass still has to look at is journaled, and so is the allocation *)
(* it cleans, whose remains are gone as far as the pass got.               *)
CleanInv ==
  /\ todo \subseteq Journaled
  /\ pc \in {"kill", "remove", "volumes", "deregister", "drop"} => cur \in Journaled \ todo
  /\ pc = "kill" => \/ container[cur] # "running" \/ cur \in expired
                    \/ status[JobOf(cur)] = "completed"
  /\ pc \in {"volumes", "deregister", "drop"} => container[cur] = "none"
  /\ pc \in {"deregister", "drop"} => cur \notin store
  /\ pc = "drop" => reg[cur] = "none" \/ cur \in late

(* A job that waits for admission has no allocation; the one that has just *)
(* been admitted has room and one attempt more than allocations.           *)
LaunchInv ==
  /\ pc \in {"admit", "recheck", "create", "post", "run", "confirm"} =>
       \A a \in Journaled : JobOf(a) \notin queue
  /\ pc = "recheck" =>
       /\ cur \in Alloc /\ JobOf(cur) \in Unserved \ queue
       /\ Room /\ made[JobOf(cur)] < attempts[JobOf(cur)]
  /\ pc \in {"create", "post", "run", "confirm"} => cur \in Journaled

(* A POST the broker gave up on still has its receipt.                     *)
ReceiptInv == Brokered => \A a \in pending : receipts[JobOf(a)] = a

IInv ==
  /\ TypeOK /\ IsFiniteSet(Journaled)
  /\ CleanInv /\ LaunchInv /\ ReceiptInv
  /\ SlotLimit /\ NothingForgotten /\ OneAllocationPerJob /\ AttemptsBounded
=============================================================================
