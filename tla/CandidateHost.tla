--------------------------- MODULE CandidateHost ----------------------------
(***************************************************************************)
(* scripts/candidate_pool_host.py: the root-owned helper that owns the     *)
(* candidate workers of one Docker host.                                   *)
(*                                                                         *)
(* Every invocation (the 30 s timer, or one request of the Gateway over    *)
(* SSH) takes a blocking lock, loads the journal, runs cleanup over every  *)
(* record and only then serves its request.  An invocation may die or      *)
(* raise between any two of its steps: what it leaves behind is found by   *)
(* the next one.  The lock makes invocations sequential, so one program    *)
(* counter stands for all of them; what runs beside it is the Docker       *)
(* daemon (workers exit), the clock and the jobs on GitHub.                *)
(*                                                                         *)
(* A record in memory is changed only to be saved at once, by an atomic    *)
(* rename, so the journal on disk is the only journal of the model.        *)
(***************************************************************************)
EXTENDS Naturals, FiniteSets

CONSTANTS Alloc,      \* allocation names (spec["name"]), unique by construction
          Job,        \* GitHub job identifiers
          JobOf,      \* spec["job_id"] of an allocation
          NoAlloc,    \* stands for "no allocation"
          MaxAborts   \* bound on invocations that die, and on reboots

ASSUME JobOfAssumption  == JobOf \in [Alloc -> Job]
ASSUME NoAllocAssumption == NoAlloc \notin Alloc
ASSUME MaxAbortsAssumption == MaxAborts \in Nat

VARIABLES
  journal,    \* journal.json: the phase of every allocation
  container,  \* Docker's view of the container named after it
  volumes,    \* its named volumes that exist
  jit,        \* allocations whose single-use JIT file exists
  over,       \* jobs that are completed, deleted or taken by another runner
  expired,    \* allocations older than max_age_seconds
  pc,         \* where the invocation that holds the lock stands
  request,    \* what it was asked for
  todo,       \* journal entries its cleanup loop has still to visit
  cur,        \* the allocation it is working on
  left,       \* volume suffixes the current loop has still to visit
  aborts      \* invocations that died so far

resources == <<container, volumes, jit>>
world     == <<over, expired>>
process   == <<pc, request, todo, cur, left>>
vars      == <<journal, resources, world, process, aborts>>

Phase  == {"absent", "starting", "running", "removing", "cleaned"}
Held   == {"starting", "running", "removing"}
Suffix == {"registration", "work"}

(* "launch" names the allocation to start.  "status", "prepare" and         *)
(* "cleanup" differ from it and from each other only in what they read and *)
(* report once the cleanup is done (prepare also pulls an image).          *)
Request == [launch : Alloc \cup {NoAlloc}, terminal : SUBSET Job]
Nothing == [launch |-> NoAlloc, terminal |-> {}]

Cleaning  == {"remove", "volumes", "unlink", "finish"}
Launching == {"create", "jit", "run", "confirm"}

Init ==
  /\ journal   = [a \in Alloc |-> "absent"]
  /\ container = [a \in Alloc |-> "none"]
  /\ volumes   = [a \in Alloc |-> {}]
  /\ jit = {} /\ over = {} /\ expired = {}
  /\ pc = "idle" /\ request = Nothing
  /\ todo = {} /\ cur = NoAlloc /\ left = {}
  /\ aborts = 0

-----------------------------------------------------------------------------
(* One invocation: lock, journal, request.                                 *)

Journaled == {a \in Alloc : journal[a] # "absent"}

(* The invocation ends, in whatever way: its memory is gone.               *)
Exit == /\ pc' = "idle" /\ request' = Nothing
        /\ todo' = {} /\ cur' = NoAlloc /\ left' = {}

(* main: flock, read the journal and the request; the cleanup loop starts  *)
(* over all records.  The lists of terminal jobs come from GitHub.         *)
Begin(r) ==
  /\ pc = "idle"
  /\ r.terminal \subseteq over
  /\ pc' = "cleanup" /\ request' = r /\ todo' = Journaled
  /\ UNCHANGED <<journal, resources, world, cur, left, aborts>>

(* The timer's request: "--cleanup" asks for the status, with no terminal  *)
(* jobs, whether or not the Gateway can be reached.                        *)
Timer == Begin(Nothing)

(* Mutant: a worker whose launch was not confirmed counts as failed.       *)
Spared_Confirmed(a) ==
  \/ journal[a] = "cleaned"
  \/ /\ container[a] = "running" /\ journal[a] = "running"
     /\ JobOf[a] \notin request.terminal
     /\ a \notin expired

(* Mutant: the lifetime limit is forgotten.                                *)
Spared_Ageless(a) ==
  \/ journal[a] = "cleaned"
  \/ container[a] = "running" /\ JobOf[a] \notin request.terminal

(* Whether cleanup leaves a record alone, from the state Docker reports.   *)
Spared(a) ==
  \/ journal[a] = "cleaned"
  \/ /\ container[a] = "running"
     /\ JobOf[a] \notin request.terminal
     /\ a \notin expired

Spare(a) ==
  /\ pc = "cleanup" /\ a \in todo /\ Spared(a)
  /\ todo' = todo \ {a}
  /\ UNCHANGED <<journal, resources, world, pc, request, cur, left, aborts>>

(* The record is journaled "removing" before its container is removed; one *)
(* without a container goes straight to its volumes.                       *)
Collect(a) ==
  /\ pc = "cleanup" /\ a \in todo /\ ~Spared(a)
  /\ todo' = todo \ {a} /\ cur' = a
  /\ IF container[a] # "none"
       THEN pc' = "remove" /\ journal' = [journal EXCEPT ![a] = "removing"]
       ELSE pc' = "volumes" /\ UNCHANGED journal
  /\ left' = Suffix
  /\ UNCHANGED <<resources, world, request, aborts>>

(* docker rm --force *)
RemoveContainer ==
  /\ pc = "remove" /\ pc' = "volumes"
  /\ container' = [container EXCEPT ![cur] = "none"]
  /\ UNCHANGED <<journal, volumes, jit, world, request, todo, cur, left, aborts>>

(* The loops over ("registration", "work") take them in that order.        *)
NextSuffix == IF "registration" \in left THEN "registration" ELSE "work"

(* Remove the volume if it exists.  Docker refuses while a container uses  *)
(* it, which raises: see Abort.                                            *)
RemoveVolume ==
  /\ pc = "volumes" /\ left # {}
  /\ container[cur] = "none"
  /\ volumes' = [volumes EXCEPT ![cur] = @ \ {NextSuffix}]
  /\ left' = left \ {NextSuffix}
  /\ pc' = IF left' = {} THEN "unlink" ELSE "volumes"
  /\ UNCHANGED <<journal, container, jit, world, request, todo, cur, aborts>>

UnlinkJit ==
  /\ pc = "unlink" /\ pc' = "finish"
  /\ jit' = jit \ {cur}
  /\ UNCHANGED <<journal, container, volumes, world, request, todo, cur, left, aborts>>

(* Mutant: the Gateway's word for an ended admission.                      *)
Tombstone_Done == "done"

(* Mutant: the record is deleted, so the order can be replayed.            *)
Tombstone_Forgotten == "absent"

(* What stays of a record, so that its order is never taken again.         *)
Tombstone == "cleaned"

MarkCleaned ==
  /\ pc = "finish" /\ pc' = "cleanup"
  /\ journal' = [journal EXCEPT ![cur] = Tombstone]
  /\ cur' = NoAlloc
  /\ UNCHANGED <<resources, world, request, todo, left, aborts>>

(* After the loop: a launch goes on, every other request only reports.     *)
Proceed ==
  /\ pc = "cleanup" /\ todo = {} /\ request.launch # NoAlloc
  /\ pc' = "admit"
  /\ UNCHANGED <<journal, resources, world, request, todo, cur, left, aborts>>

Report ==
  /\ pc = "cleanup" /\ todo = {} /\ request.launch = NoAlloc
  /\ Exit
  /\ UNCHANGED <<journal, resources, world, aborts>>

-----------------------------------------------------------------------------
(* launch *)

(* Mutant: "docker ps" without "-a".                                       *)
Vacant_RunningOnly == \A a \in Alloc : container[a] # "running"

(* capacity()["available"], as far as pool workers decide it: docker ps -a *)
(* shows none, whatever their state.  Disk and memory floors, legacy and   *)
(* release workers make a host unavailable too: see Refuse.                *)
Vacant == \A a \in Alloc : container[a] = "none"

(* Mutant: only the allocation's own name is looked up.                    *)
Admissible_ByName(a) ==
  /\ Vacant
  /\ a \notin Journaled

Admissible(a) ==
  /\ Vacant
  /\ \A b \in Journaled : b # a /\ JobOf[b] # JobOf[a]

(* Mutant: the order is only journaled once its worker runs.               *)
Admit_Unjournaled ==
  /\ pc = "admit" /\ Admissible(request.launch)
  /\ cur' = request.launch
  /\ left' = Suffix
  /\ pc' = "create"
  /\ UNCHANGED <<journal, resources, world, request, todo, aborts>>

(* All checks passed: the order is journaled before any side effect.       *)
Admit ==
  /\ pc = "admit" /\ Admissible(request.launch)
  /\ cur' = request.launch
  /\ journal' = [journal EXCEPT ![request.launch] = "starting"]
  /\ left' = Suffix
  /\ pc' = "create"
  /\ UNCHANGED <<resources, world, request, todo, aborts>>

(* A check failed: those above, or the resource floors, the image, the KVM *)
(* device, an order older than 900 s.                                      *)
Refuse ==
  /\ pc = "admit" /\ Exit
  /\ UNCHANGED <<journal, resources, world, aborts>>

(* docker volume create, after checking that no such volume exists: a      *)
(* volume that does is never reused, which raises.                         *)
CreateVolume ==
  /\ pc = "create" /\ left # {}
  /\ NextSuffix \notin volumes[cur]
  /\ volumes' = [volumes EXCEPT ![cur] = @ \cup {NextSuffix}]
  /\ left' = left \ {NextSuffix}
  /\ pc' = IF left' = {} THEN "jit" ELSE "create"
  /\ UNCHANGED <<journal, container, jit, world, request, todo, cur, aborts>>

WriteJit ==
  /\ pc = "jit" /\ cur \notin jit
  /\ pc' = "run"
  /\ jit' = jit \cup {cur}
  /\ UNCHANGED <<journal, container, volumes, world, request, todo, cur, left, aborts>>

(* Mutant: the worker is started before its JIT file is written.           *)
DockerRun_Early ==
  /\ pc \in {"jit", "run"} /\ pc' = "confirm"
  /\ container' = [container EXCEPT ![cur] = "running"]
  /\ UNCHANGED <<journal, volumes, jit, world, request, todo, cur, left, aborts>>

(* docker run --detach: the container is created, then started.            *)
DockerRun ==
  /\ pc = "run" /\ pc' = "confirm"
  /\ container' = [container EXCEPT ![cur] = "running"]
  /\ UNCHANGED <<journal, volumes, jit, world, request, todo, cur, left, aborts>>

(* It was created and could not be started, and docker run reports so.     *)
DockerRunFails ==
  /\ pc = "run" /\ Exit
  /\ container' = [container EXCEPT ![cur] = "created"]
  /\ UNCHANGED <<journal, volumes, jit, world, aborts>>

Confirm ==
  /\ pc = "confirm" /\ Exit
  /\ journal' = [journal EXCEPT ![cur] = "running"]
  /\ UNCHANGED <<resources, world, aborts>>

-----------------------------------------------------------------------------
(* What runs beside the helper.                                            *)

(* The invocation dies, times out or raises before its next step: Docker   *)
(* or the disk fails, a resource has the wrong owner, "timeout 420" ends   *)
(* it.  Bounded by MaxAborts.                                              *)
Abort ==
  /\ pc # "idle" /\ aborts < MaxAborts
  /\ Exit /\ aborts' = aborts + 1
  /\ UNCHANGED <<journal, resources, world>>

(* The host restarts: workers are run with --restart no.                   *)
Reboot ==
  /\ aborts < MaxAborts
  /\ Exit /\ aborts' = aborts + 1
  /\ container' = [a \in Alloc |->
       IF container[a] = "running" THEN "exited" ELSE container[a]]
  /\ UNCHANGED <<journal, volumes, jit, world>>

WorkerExits(a) ==
  /\ container[a] = "running"
  /\ container' = [container EXCEPT ![a] = "exited"]
  /\ UNCHANGED <<journal, volumes, jit, world, process, aborts>>

JobEnds(j) ==
  /\ j \notin over
  /\ over' = over \cup {j}
  /\ UNCHANGED <<journal, resources, expired, process, aborts>>

(* max_age_seconds pass since the order was made.                          *)
WorkerAges(a) ==
  /\ a \notin expired
  /\ expired' = expired \cup {a}
  /\ UNCHANGED <<journal, resources, over, process, aborts>>

Work ==
  \/ \E a \in Alloc : Spare(a) \/ Collect(a)
  \/ RemoveContainer \/ RemoveVolume \/ UnlinkJit \/ MarkCleaned
  \/ Proceed \/ Report
  \/ Admit \/ Refuse \/ CreateVolume \/ WriteJit \/ DockerRun \/ DockerRunFails
  \/ Confirm

Environment ==
  \/ \E a \in Alloc : WorkerExits(a) \/ WorkerAges(a)
  \/ \E j \in Job : JobEnds(j)

Next ==
  \/ \E r \in Request : Begin(r)
  \/ Work
  \/ Abort \/ Reboot
  \/ Environment

(* The timer fires every 30 s, a started invocation goes on, time passes.  *)
Fairness ==
  /\ WF_vars(Timer)
  /\ WF_vars(Work)
  /\ \A a \in Alloc : WF_vars(WorkerAges(a))

Spec == Init /\ [][Next]_vars /\ Fairness
-----------------------------------------------------------------------------
TypeOK ==
  /\ journal \in [Alloc -> Phase]
  /\ container \in [Alloc -> {"none", "created", "running", "exited"}]
  /\ volumes \in [Alloc -> SUBSET Suffix]
  /\ jit \subseteq Alloc /\ over \subseteq Job
  /\ expired \subseteq Alloc
  /\ pc \in {"idle", "cleanup", "admit"} \cup Cleaning \cup Launching
  /\ request \in Request
  /\ todo \subseteq Alloc /\ cur \in Alloc \cup {NoAlloc} /\ left \subseteq Suffix
  /\ aborts \in 0 .. MaxAborts

HasResource(a) == container[a] # "none" \/ volumes[a] # {} \/ a \in jit

(* Wherever an invocation dies, whatever exists on the host belongs to a   *)
(* record that the next cleanup still visits: nothing exists before it is  *)
(* journaled, and a record is "cleaned" only when nothing is left.         *)
NothingForgotten ==
  \A a \in Alloc : HasResource(a) => journal[a] \in Held

(* One worker per host: at most one record is neither new nor cleaned,     *)
(* although launch looks at containers only, never at the other records.   *)
SingleWorker ==
  \A a, b \in Alloc : journal[a] \in Held /\ journal[b] \in Held => a = b

(* A repeated or reordered launch request never gives a job two workers.   *)
OneAllocationPerJob ==
  \A a, b \in Journaled : JobOf[a] = JobOf[b] => a = b

(* While a container exists its workspace and its registration do.         *)
WorkspaceOutlivesWorker ==
  \A a \in Alloc : container[a] # "none" => volumes[a] = Suffix /\ a \in jit

(* A worker that runs a job that is not over, within its lifetime, is      *)
(* never killed, however old the invocation's view of it is.  Its job is   *)
(* its record's: a worker that took another job of its label is one of a   *)
(* foreign assignment, and is cleaned up when its record's job is over.    *)
NoLiveKill ==
  [][\A a \in Alloc :
       container[a] = "running" /\ container'[a] = "none"
         => a \in expired \/ JobOf[a] \in over]_vars

(* The slot the host promises: see WorkerSlot.                             *)
SlotOf(a) ==
  CASE journal[a] = "absent"  -> "new"
    [] journal[a] = "cleaned" -> "gone"
    [] journal[a] \in Held /\ container[a] # "none" -> "working"
    [] journal[a] = "removing" /\ container[a] = "none" -> "draining"
    [] OTHER -> "reserved"

slot == [a \in Alloc |-> SlotOf(a)]

Slot == INSTANCE WorkerSlot WITH slot <- slot, Alloc <- Alloc, Job <- Job, JobOf <- JobOf

(* The helper implements the slot: every step is a step of it, and a taken *)
(* slot is given back whatever happens to the Gateway and to GitHub.       *)
SlotSafety == Slot!Safety
SlotSpec   == Slot!Spec

-----------------------------------------------------------------------------
(* Why the above holds: what an invocation knows at each of its steps.     *)

(* A record without a container is one the running cleanup still visits,   *)
(* or the one it works on: past the loop, an empty "docker ps -a" means    *)
(* that no record is held.                                                 *)
LoopInv ==
  pc # "idle" =>
    \A a \in Alloc : journal[a] \in Held /\ container[a] = "none"
                      => a \in todo \cup {cur}

CurInv ==
  /\ cur \in Alloc <=> pc \in Cleaning \cup Launching
  /\ cur \in Alloc => journal[cur] \in Held /\ cur \notin todo
  /\ todo \subseteq Journaled
  /\ pc \in Launching \cup {"admit", "idle"} => todo = {}
  /\ pc = "admit" => request.launch \in Alloc
  /\ request.terminal \subseteq over

CleanInv ==
  /\ pc = "remove" =>
       /\ journal[cur] = "removing" /\ container[cur] # "none"
       /\ container[cur] = "running" => cur \in expired \/ JobOf[cur] \in over
  /\ pc \in {"volumes", "unlink", "finish"} => container[cur] = "none"
  /\ pc \in {"remove", "volumes"} => volumes[cur] \subseteq left
  /\ pc \in {"unlink", "finish"} => volumes[cur] = {}
  /\ pc = "finish" => cur \notin jit

LaunchInv ==
  /\ pc \in Launching => journal[cur] = "starting"
  /\ pc \in {"create", "jit", "run"} => container[cur] = "none"
  /\ pc = "create" => volumes[cur] = Suffix \ left
  /\ pc \in {"jit", "run", "confirm"} => volumes[cur] = Suffix
  /\ pc \in {"create", "jit"} => cur \notin jit
  /\ pc \in {"run", "confirm"} => cur \in jit
  /\ pc = "confirm" => container[cur] # "none"

IInv ==
  /\ TypeOK /\ LoopInv /\ CurInv /\ CleanInv /\ LaunchInv
  /\ NothingForgotten /\ SingleWorker
  /\ OneAllocationPerJob /\ WorkspaceOutlivesWorker
=============================================================================
