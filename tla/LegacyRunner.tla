---------------------------- MODULE LegacyRunner ----------------------------
(***************************************************************************)
(* scripts/candidate_runner.py --apply: the single-host launcher of        *)
(* candidate workers, one process that loops over reconcile and is         *)
(* restarted when it dies.                                                 *)
(*                                                                         *)
(* It keeps two files and no lock: the registrations to clean, read at the *)
(* start of a pass and rewritten as a whole after every change, and the    *)
(* retries.  Both are written in place: a write_text that dies or fails    *)
(* loses what the file held and leaves one that no later pass can read.  A *)
(* registration is recorded only after GitHub has made it; GitHub refuses  *)
(* a second one of the same name, which is the job's.                      *)
(***************************************************************************)
EXTENDS Naturals, FiniteSets

CONSTANTS Job,          \* jobs with a candidate label, the same for all
          MaxRunners,   \* config["max_runners"]
          MaxAttempts,  \* failed launches of one job (3 in the code)
          MaxLaunches,  \* bound on the registrations ever made
          MaxFaults     \* bound on crashes and failed calls

ASSUME BoundAssumption ==
  /\ MaxRunners \in Nat \ {0} /\ MaxAttempts \in Nat
  /\ MaxLaunches \in Nat /\ MaxFaults \in Nat

(* A registration, identified by its number, with the container made for   *)
(* it; the name of both is the job's.                                      *)
Worker == Job \X (1 .. MaxLaunches)
JobOf(w) == w[1]
NoWorker == <<>>

VARIABLES
  \* state_dir
  saved,      \* registrations-to-clean.json
  attempts,   \* launch-retries.json: failed launches of a job ...
  waiting,    \* ... and whether its 300 s back-off still runs
  torn,       \* files that cannot be read any more
  \* Docker and GitHub
  container, registered, busy, queued,
  made,       \* registrations GitHub ever made: it numbers them
  expired,    \* running workers older than max_age_seconds
  \* reconcile
  pc, tombstones, todo, cur,
  active,     \* workers found running, and those launched since
  jobs,       \* queued jobs it has still to look at
  \* observers and bounds
  orphaned,   \* registrations whose making the process never recorded
  astray,     \* workers this pass has started, in launches that then failed
  faults

files    == <<saved, attempts, waiting, torn>>
docker   == <<container>>
github   == <<registered, busy, queued, made>>
memory   == <<tombstones, todo, cur, active, jobs>>
seen     == <<orphaned, astray>>
vars     == <<files, docker, github, expired, pc, memory, seen, faults>>

Init ==
  /\ saved = {} /\ torn = {}
  /\ attempts = [j \in Job |-> 0] /\ waiting = {}
  /\ container = [w \in Worker |-> "none"]
  /\ registered = {} /\ busy = {} /\ queued = Job
  /\ made = 0 /\ expired = {}
  /\ pc = "idle" /\ tombstones = {} /\ todo = {} /\ cur = NoWorker
  /\ active = {} /\ jobs = {}
  /\ orphaned = {} /\ astray = {} /\ faults = 0

Fault == faults < MaxFaults /\ faults' = faults + 1

-----------------------------------------------------------------------------
(* Dead containers.                                                        *)

Exists  == {w \in Worker : container[w] # "none"}
Running == {w \in Worker : container[w] = "running"}

(* Mutant: the lifetime limit is forgotten.                                *)
Dead_Ageless == {w \in Exists : container[w] # "running"}

Dead == {w \in Exists : container[w] # "running" \/ w \in expired}

(* The containers are listed, the tombstones read.                         *)
Begin ==
  /\ pc = "idle" /\ "registrations" \notin torn
  /\ pc' = "containers"
  /\ tombstones' = saved /\ todo' = Dead /\ active' = Exists \ Dead
  /\ UNCHANGED <<files, docker, github, expired, cur, jobs, seen, faults>>

(* The registration of a dead worker is a tombstone, on disk, before the   *)
(* container that names it is removed.                                     *)
Bury(w) ==
  /\ pc = "containers" /\ w \in todo
  /\ tombstones' = tombstones \cup {w} /\ saved' = tombstones'
  /\ pc' = "remove" /\ cur' = w /\ todo' = todo \ {w}
  /\ UNCHANGED <<attempts, waiting, torn, docker, github, expired, active, jobs, seen, faults>>

(* docker rm -f -v                                                         *)
RemoveContainer ==
  /\ pc = "remove" /\ pc' = "containers"
  /\ container' = [container EXCEPT ![cur] = "none"]
  /\ cur' = NoWorker /\ expired' = expired \ {cur}
  /\ UNCHANGED <<files, github, tombstones, todo, active, jobs, seen, faults>>

-----------------------------------------------------------------------------
(* Registrations.                                                          *)

(* Mutant: the containers just listed are not consulted.                   *)
Visited_All == tombstones

Visited == tombstones \ active

BeginTombstones ==
  /\ pc = "containers" /\ todo = {}
  /\ pc' = "tombstones" /\ todo' = Visited
  /\ UNCHANGED <<files, docker, github, expired, tombstones, cur, active, jobs, seen, faults>>

(* Its registration is gone (404).                                         *)
Bygone(w) ==
  /\ pc = "tombstones" /\ w \in todo \ registered
  /\ tombstones' = tombstones \ {w} /\ todo' = todo \ {w}
  /\ UNCHANGED <<files, docker, github, expired, pc, cur, active, jobs, seen, faults>>

KeepBusy(w) ==
  /\ pc = "tombstones" /\ w \in todo \cap busy
  /\ todo' = todo \ {w}
  /\ UNCHANGED <<files, docker, github, expired, pc, tombstones, cur, active, jobs, seen, faults>>

FindIdle(w) ==
  /\ pc = "tombstones" /\ w \in (todo \cap registered) \ busy
  /\ pc' = "delete" /\ cur' = w /\ todo' = todo \ {w}
  /\ UNCHANGED <<files, docker, github, expired, tombstones, active, jobs, seen, faults>>

(* GitHub deletes it.                                                      *)
Delete ==
  /\ pc = "delete" /\ cur \in registered
  /\ pc' = "tombstones"
  /\ registered' = registered \ {cur}
  /\ tombstones' = tombstones \ {cur} /\ cur' = NoWorker
  /\ UNCHANGED <<files, docker, busy, queued, made, expired, todo, active, jobs, seen, faults>>

End == /\ pc' = "idle" /\ tombstones' = {} /\ todo' = {} /\ cur' = NoWorker
       /\ active' = {} /\ jobs' = {} /\ astray' = {}

(* It is gone by now: the 404 of a DELETE ends the pass, and what the pass *)
(* dropped from its tombstones is still in the file.                       *)
DeleteRefused ==
  /\ pc = "delete" /\ cur \notin registered
  /\ End
  /\ UNCHANGED <<files, docker, github, expired, orphaned, faults>>

(* The file is rewritten; then the retries are read and the queued jobs    *)
(* listed.                                                                 *)
SaveTombstones ==
  /\ pc = "tombstones" /\ todo = {}
  /\ saved' = tombstones
  /\ pc' = "jobs" /\ jobs' = queued
  /\ UNCHANGED <<attempts, waiting, torn, docker, github, expired, tombstones, todo, cur,
                 active, seen, faults>>

-----------------------------------------------------------------------------
(* Jobs.                                                                   *)

(* Mutant: off by one in the budget.                                       *)
Budget_OneMore(j) == attempts[j] <= MaxAttempts

Budget(j) == attempts[j] < MaxAttempts

Busy(j) == \E w \in active : JobOf(w) = j

Room == Cardinality({JobOf(w) : w \in active}) < MaxRunners

NextWorker(j) == <<j, made + 1>>

(* The bound on launches aside, what the retries say.                      *)
Eligible(j) == Budget(j) /\ j \notin waiting /\ NextWorker(j) \in Worker

Skip(j) ==
  /\ pc = "jobs" /\ j \in jobs
  /\ Busy(j) \/ (Room /\ ~Eligible(j))
  /\ jobs' = jobs \ {j}
  /\ UNCHANGED <<files, docker, github, expired, pc, tombstones, todo, cur, active, seen, faults>>

(* A job is tried; the PR, the image and the host are checked first, the   *)
(* job's own status is not.                                                *)
Try(j) ==
  /\ pc = "jobs" /\ j \in jobs /\ "retries" \notin torn
  /\ ~Busy(j) /\ Room /\ Eligible(j)
  /\ pc' = "post" /\ cur' = NextWorker(j) /\ jobs' = jobs \ {j}
  /\ UNCHANGED <<files, docker, github, expired, tombstones, todo, active, seen, faults>>

NameFree(w) == \A v \in registered : JobOf(v) # JobOf(w)

(* generate-jitconfig                                                      *)
Made == /\ NameFree(cur)
        /\ registered' = registered \cup {cur}
        /\ made' = made + 1

Post ==
  /\ pc = "post" /\ pc' = "record"
  /\ Made
  /\ UNCHANGED <<files, docker, busy, queued, expired, memory, seen, faults>>

(* It was made and the answer is lost: for the launcher a failed launch.   *)
PostAnswerLost ==
  /\ pc = "post" /\ pc' = "failed"
  /\ Fault /\ Made
  /\ orphaned' = orphaned \cup {cur}
  /\ UNCHANGED <<files, docker, busy, queued, expired, memory, astray>>

(* What the process is writing in its next step.                           *)
Writing ==
  CASE pc = "record" \/ (pc = "containers" /\ todo # {}) \/ (pc = "tombstones" /\ todo = {})
         -> {"registrations"}
    [] pc \in {"launched", "failed"} -> {"retries"}
    [] OTHER -> {}

(* That write, if it was begun, has truncated the file and goes no further. *)
Interrupted ==
  /\ torn' \in {torn, torn \cup Writing}
  /\ saved' = IF "registrations" \in torn' THEN {} ELSE saved
  /\ attempts' = IF "retries" \in torn' THEN [j \in Job |-> 0] ELSE attempts
  /\ waiting' = IF "retries" \in torn' THEN {} ELSE waiting

(* Mutant: the file is not read again before it is rewritten.              *)
Recorded_Alone == {cur}

Recorded == saved \cup {cur}

Record ==
  /\ pc = "record" /\ "registrations" \notin torn /\ pc' = "run"
  /\ saved' = Recorded
  /\ UNCHANGED <<attempts, waiting, torn, docker, github, expired, memory, seen, faults>>

(* The file cannot be read or written: for the launcher a failed launch,   *)
(* after which the pass goes on.                                           *)
RecordFails ==
  /\ pc = "record" /\ pc' = "failed"
  /\ IF "registrations" \in torn THEN UNCHANGED <<files, faults>> ELSE Fault /\ Interrupted
  /\ orphaned' = orphaned \cup {cur}
  /\ UNCHANGED <<docker, github, expired, memory, astray>>

(* docker run, with a name no other container may have.                    *)
Run ==
  /\ pc = "run" /\ pc' = "launched"
  /\ \A w \in Exists : JobOf(w) # JobOf(cur)
  /\ container' = [container EXCEPT ![cur] = "running"]
  /\ UNCHANGED <<files, github, expired, memory, seen, faults>>

(* A check fails, the POST fails or the name is taken; docker run fails    *)
(* with or without leaving a container.  Or its worker runs already when   *)
(* docker run reports an error, the directory of the JIT file cannot be    *)
(* removed or the log line not printed: the job does not join the active.  *)
LaunchFails ==
  /\ pc \in {"post", "run", "launched"} /\ pc' = "failed"
  /\ container' \in {container} \cup
       IF pc = "run" THEN {[container EXCEPT ![cur] = "created"]} ELSE {}
  /\ astray' = IF pc = "launched" THEN astray \cup {cur} ELSE astray
  /\ UNCHANGED <<files, github, expired, memory, orphaned, faults>>

(* Mutant: jobs launched in this pass do not count for the limit.          *)
Joined_Not == active

Joined == active \cup {cur}

(* The retries are rewritten after each job.                               *)
SaveSuccess ==
  /\ pc = "launched" /\ pc' = "jobs"
  /\ active' = Joined /\ cur' = NoWorker
  /\ attempts' = [attempts EXCEPT ![JobOf(cur)] = 0]
  /\ waiting' = waiting \ {JobOf(cur)}
  /\ UNCHANGED <<saved, torn, docker, github, expired, tombstones, todo, jobs, seen, faults>>

SaveFailure ==
  /\ pc = "failed" /\ pc' = "jobs"
  /\ attempts' = [attempts EXCEPT ![JobOf(cur)] = @ + 1]
  /\ waiting' = waiting \cup {JobOf(cur)}
  /\ cur' = NoWorker
  /\ UNCHANGED <<saved, torn, docker, github, expired, tombstones, todo, active, jobs, seen, faults>>

(* No job is left, the limit is reached, or the retries cannot be read.    *)
EndPass ==
  /\ pc = "jobs" /\ (jobs = {} \/ ~Room \/ "retries" \in torn)
  /\ End
  /\ UNCHANGED <<files, docker, github, expired, orphaned, faults>>

-----------------------------------------------------------------------------
(* Faults, GitHub, Docker and the clock.                                   *)

(* The process dies, or a call fails outside a launch: the next pass       *)
(* starts from the files.                                                  *)
Crash ==
  /\ pc # "idle" /\ Fault
  /\ Interrupted
  /\ orphaned' = IF pc = "record" THEN orphaned \cup {cur} ELSE orphaned
  /\ End
  /\ UNCHANGED <<docker, github, expired>>

(* Any queued job with the worker's label.                                 *)
JobAssigned(w, j) ==
  /\ w \in registered \ busy /\ container[w] = "running" /\ j \in queued
  /\ busy' = busy \cup {w} /\ queued' = queued \ {j}
  /\ UNCHANGED <<files, docker, registered, made, expired, pc, memory, seen, faults>>

(* A single-use runner unregisters and exits.                              *)
JobFinishes(w) ==
  /\ w \in busy /\ container[w] = "running"
  /\ busy' = busy \ {w} /\ registered' = registered \ {w}
  /\ container' = [container EXCEPT ![w] = "exited"] /\ expired' = expired \ {w}
  /\ UNCHANGED <<files, queued, made, pc, memory, seen, faults>>

(* GitHub fails the job of a lost worker.                                  *)
JobLost(w) ==
  /\ w \in busy /\ container[w] # "running"
  /\ busy' = busy \ {w}
  /\ UNCHANGED <<files, docker, registered, queued, made, expired, pc, memory, seen, faults>>

(* GitHub may remove a registration that is offline.                       *)
Removed(w) ==
  /\ w \in registered \ busy /\ container[w] # "running"
  /\ registered' = registered \ {w}
  /\ UNCHANGED <<files, docker, busy, queued, made, expired, pc, memory, seen, faults>>

JobCancelled(j) ==
  /\ j \in queued /\ queued' = queued \ {j}
  /\ UNCHANGED <<files, docker, registered, busy, made, expired, pc, memory, seen, faults>>

WorkerExits(w) ==
  /\ container[w] = "running"
  /\ container' = [container EXCEPT ![w] = "exited"] /\ expired' = expired \ {w}
  /\ UNCHANGED <<files, github, pc, memory, seen, faults>>

WorkerAges(w) ==
  /\ w \in Running \ expired
  /\ expired' = expired \cup {w}
  /\ UNCHANGED <<files, docker, github, pc, memory, seen, faults>>

BackoffEnds(j) ==
  /\ j \in waiting /\ waiting' = waiting \ {j}
  /\ UNCHANGED <<saved, attempts, torn, docker, github, expired, pc, memory, seen, faults>>

Reconcile ==
  \/ Begin \/ RemoveContainer \/ BeginTombstones \/ Delete \/ DeleteRefused \/ SaveTombstones
  \/ \E w \in Worker : Bury(w) \/ Bygone(w) \/ KeepBusy(w) \/ FindIdle(w)
  \/ \E j \in Job : Skip(j) \/ Try(j)
  \/ Post \/ Record \/ RecordFails \/ Run \/ LaunchFails \/ SaveSuccess \/ SaveFailure \/ EndPass

Failure == PostAnswerLost \/ Crash

Environment ==
  \/ \E w \in Worker, j \in Job : JobAssigned(w, j)
  \/ \E w \in Worker : JobFinishes(w) \/ JobLost(w) \/ Removed(w)
                        \/ WorkerExits(w) \/ WorkerAges(w)
  \/ \E j \in Job : JobCancelled(j) \/ BackoffEnds(j)

Next == Reconcile \/ Failure \/ Environment

(* main loops for ever and systemd restarts it; workers have a maximal age *)
(* and GitHub frees the leases of lost ones.                               *)
Fairness ==
  /\ WF_vars(Reconcile)
  /\ WF_vars(\E w \in Worker : WorkerAges(w)) /\ WF_vars(\E w \in Worker : JobLost(w))

Spec == Init /\ [][Next]_vars /\ Fairness
-----------------------------------------------------------------------------
TypeOK ==
  /\ saved \subseteq Worker /\ torn \subseteq {"registrations", "retries"}
  /\ attempts \in [Job -> 0 .. MaxAttempts] /\ waiting \subseteq Job
  /\ container \in [Worker -> {"none", "created", "running", "exited"}]
  /\ registered \subseteq Worker /\ busy \subseteq registered /\ queued \subseteq Job
  /\ made \in 0 .. MaxLaunches /\ expired \subseteq Running
  /\ pc \in {"idle", "containers", "remove", "tombstones", "delete", "jobs", "post", "record",
             "run", "launched", "failed"}
  /\ tombstones \subseteq Worker /\ todo \subseteq Worker /\ cur \in Worker \cup {NoWorker}
  /\ active \subseteq Worker /\ jobs \subseteq Job
  /\ orphaned \subseteq Worker /\ astray \subseteq Worker /\ faults \in 0 .. MaxFaults

(* Whatever fails and wherever the process dies, a registration is in the  *)
(* file as long as that can be read, unless its making was never recorded: *)
(* the process died, or the answer or the save failed, between the two.    *)
Tracked ==
  \A w \in registered :
    w \in saved \cup orphaned \/ (pc = "record" /\ cur = w) \/ "registrations" \in torn

(* A worker is only started while fewer than max_runners run, those aside  *)
(* that this very pass has started in launches that failed afterwards: the *)
(* jobs counted when the pass began, and those it adds, miss no other one, *)
(* what earlier passes and their failed launches have left included.       *)
WorkerLimit ==
  [][(\E w \in Worker : container[w] # "running" /\ container'[w] = "running")
       => Cardinality(Running \ astray) < MaxRunners]_vars

(* A worker that waits for its job never loses its registration, although  *)
(* that is a tombstone from the moment it is made.                         *)
IdleKeepsRegistration ==
  [][\A w \in registered \ busy : container[w] = "running" => w \in registered']_vars

(* Every recorded registration is removed in the end, as long as the file  *)
(* can be read: a write cut short stops the launcher for good.             *)
RegistrationsEnd ==
  \A n \in 1 .. MaxLaunches :
    LET numbered == {w \in registered : w[2] = n} IN
    numbered # {} ~> numbered \subseteq orphaned \/ "registrations" \in torn

-----------------------------------------------------------------------------
(* What the proofs in LegacyRunnerProofs need besides.                     *)

(* The tombstones in memory miss nothing that is registered and in the     *)
(* file; the containers still to be removed are the only ones not found    *)
(* running, and what is deleted has none.                                  *)
CleanInv ==
  /\ pc \in {"containers", "remove"} => tombstones = saved
  /\ pc = "containers" => Exists \subseteq active \cup todo
  /\ pc = "remove" => cur \in Worker /\ Exists \subseteq active \cup todo \cup {cur}
  /\ pc \in {"tombstones", "delete"} =>
       saved \cap registered \subseteq tombstones /\ Exists \subseteq active /\ todo \cap active = {}
  /\ pc = "delete" => cur \in Worker \ (active \cup busy)

Launching == {"post", "record", "run"}

(* The workers that run are those counted as active, and those gone        *)
(* astray; a container besides is what a failed launch of this pass has    *)
(* left, of a job it has done with.  The job being launched has room, and  *)
(* no container.                                                           *)
LaunchInv ==
  /\ pc \in Launching \cup {"jobs", "failed", "launched"} =>
       \A w \in Exists \ active : JobOf(w) \notin jobs
  /\ pc \in Launching \cup {"jobs", "failed"} => Running \subseteq active \cup astray
  /\ pc \in Launching \cup {"failed", "launched"} =>
       cur \in Worker /\ JobOf(cur) \notin jobs /\ Budget(JobOf(cur))
  /\ pc \in Launching =>
       /\ Room /\ ~Busy(JobOf(cur))
       /\ \A w \in Exists \ active : JobOf(w) # JobOf(cur)
  /\ pc = "post" => cur[2] = made + 1
  /\ pc = "launched" => Running \subseteq active \cup astray \cup {cur}

NamesUnique == \A v, w \in Exists : JobOf(v) = JobOf(w) => v = w

IInv ==
  /\ TypeOK /\ IsFiniteSet(Running) /\ IsFiniteSet(active)
  /\ CleanInv /\ LaunchInv /\ NamesUnique
  /\ Tracked
=============================================================================
