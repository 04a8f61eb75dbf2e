--------------------------- MODULE CandidatePool ----------------------------
(***************************************************************************)
(* scripts/candidate_pool.py: the Gateway allocator of candidate workers.  *)
(*                                                                         *)
(* Once a minute a pass, alone under controller.lock, reads the hosts,     *)
(* lists the registrations of the runner group, settles the records of its *)
(* ledger and then admits queued jobs: journal, POST a single-use          *)
(* registration, launch a worker over SSH.  It may die between any two     *)
(* steps, a call may fail, lose its answer, or take effect after its       *)
(* caller gave up.  Beside it, GitHub queues and assigns jobs and the      *)
(* hosts end and clean workers by themselves.                              *)
(*                                                                         *)
(* A host is seen through what CandidateHost is proved to promise, its     *)
(* WorkerSlot: one operation of a host is one step here.  A job is         *)
(* admitted once, so the job stands for its allocation, its registration   *)
(* and its worker.                                                         *)
(***************************************************************************)
EXTENDS Naturals, FiniteSets

CONSTANTS Job,        \* job identifiers: discover sorts by them
          Host,       \* hosts, numbered in the order of the configuration
          Labelings,  \* ways the jobs may request candidate labels
          MaxFaults   \* bound on failures the pass itself did not cause

ASSUME JobAssumption    == Job \subseteq Nat \ {0}
ASSUME HostAssumption   == Host \subseteq Nat \ {0} /\ IsFiniteSet(Host)
ASSUME FaultsAssumption == MaxFaults \in Nat

NoHost == 0
NoRunner == 0

VARIABLES
  \* GitHub
  status,    \* of every job; a deleted job is "completed"
  label,     \* the candidate label it requests
  runner,    \* whose runner executes or executed a job (runner_name)
  reg,       \* the registration made for a job
  posts,     \* how many registrations were requested for it
  posting,   \* registrations requested, given up, and still under way
  late,      \* those that were made after all
  \* the hosts
  local,     \* what each host holds of each job's allocation
  launching, \* launches given up by the Gateway while under way
  \* the ledger of the Gateway, journal.json
  phase, home,
  \* the pass that holds the lock
  gpc, live, seen, runners, todo, over, active,
  faults

github  == <<status, label, runner, reg, posts, posting, late>>
hosts   == <<local, launching>>
ledger  == <<phase, home>>
memory  == <<live, seen, runners, todo, over, active>>
vars    == <<github, hosts, ledger, gpc, memory, faults>>

Open == {"registering", "registered", "running"}

(* A host's view of an allocation: "dead" is journaled with a worker that  *)
(* does not run (yet, or any more) and is not yet cleaned.                 *)
LocalPhase == {"absent", "running", "dead", "cleaned"}

First(S) == CHOOSE x \in S : \A y \in S : x <= y

NoView  == [h \in Host |-> "down"]
NoPhase == [h \in Host |-> [j \in Job |-> "absent"]]
NoReg   == [j \in Job |-> "none"]

Init ==
  /\ status = [j \in Job |-> "none"] /\ runner = [j \in Job |-> NoRunner]
  /\ label \in Labelings
  /\ reg = NoReg /\ posts = [j \in Job |-> 0] /\ posting = {} /\ late = {}
  /\ local = NoPhase /\ launching = {}
  /\ phase = [j \in Job |-> "none"] /\ home = [j \in Job |-> NoHost]
  /\ gpc = "idle"
  /\ live = NoView /\ seen = NoPhase /\ runners = NoReg
  /\ todo = {} /\ over = FALSE /\ active = {}
  /\ faults = 0

-----------------------------------------------------------------------------
(* What a host does in one operation: see CandidateHost.                   *)

(* cleanup: all that does not run, and what runs for a terminal job.       *)
Swept(h, terminal) ==
  [j \in Job |-> IF \/ local[h][j] = "dead"
                    \/ local[h][j] = "running" /\ j \in terminal
                 THEN "cleaned" ELSE local[h][j]]

Vacant(view) == \A j \in Job : view[j] \in {"absent", "cleaned"}

(* launch is refused if the slot or the allocation has been used.          *)
Launchable(h, j) == Vacant(Swept(h, {})) /\ local[h][j] = "absent"

Launched(h, j, result) ==
  [local EXCEPT ![h] = [Swept(h, {}) EXCEPT ![j] = result]]

-----------------------------------------------------------------------------
(* The pass.                                                               *)

Fault == faults < MaxFaults /\ faults' = faults + 1

Forget == /\ gpc' = "idle"
          /\ live' = NoView /\ seen' = NoPhase /\ runners' = NoReg
          /\ todo' = {} /\ over' = FALSE /\ active' = {}

(* It is killed, loses the API, or raises outside the admission of a job.  *)
Abort ==
  /\ gpc # "idle" /\ Fault
  /\ Forget
  /\ UNCHANGED <<github, hosts, ledger>>

(* The status of every host; of an unreachable one the pass knows nothing. *)
ReadHosts ==
  /\ gpc = "idle" /\ gpc' = "list"
  /\ \E up \in SUBSET Host :
       /\ faults + Cardinality(Host \ up) <= MaxFaults
       /\ faults' = faults + Cardinality(Host \ up)
       /\ local' = [h \in Host |-> IF h \in up THEN Swept(h, {}) ELSE local[h]]
       /\ seen' = [h \in Host |-> IF h \in up THEN local'[h] ELSE NoPhase[h]]
       /\ live' = [h \in Host |-> IF h \notin up THEN "down"
                                  ELSE IF Vacant(local'[h]) THEN "free" ELSE "full"]
  /\ UNCHANGED <<github, launching, ledger, runners, todo, over, active>>

(* Mutant: a record whose registration was not answered is not visited.    *)
Visited_Registered == {j \in Job : phase[j] \in Open \ {"registering"}}

Visited == {j \in Job : phase[j] \in Open}

(* Mutant: an allocation its host does not name has ended, also on a host  *)
(* that was not reached.                                                   *)
Reached_All(j) == TRUE

Reached(j) == live[home[j]] # "down"

(* The registrations of the group, if it still serves Platform alone.      *)
group_runners == reg

ListRunners ==
  /\ gpc = "list" /\ gpc' = "record"
  /\ runners' = group_runners
  /\ todo' = {j \in Visited : Reached(j)}
  /\ UNCHANGED <<github, hosts, ledger, live, seen, over, active, faults>>

(* Is the job over, or executed by a runner registered for another one?    *)
ReadJob ==
  /\ gpc = "record" /\ todo # {}
  /\ LET j == First(todo) IN
       /\ over' = (status[j] = "completed" \/ runner[j] \notin {NoRunner, j})
       /\ gpc' = IF over' /\ seen[home[j]][j] = "running" THEN "sweep" ELSE "settle"
  /\ UNCHANGED <<github, hosts, ledger, live, seen, runners, todo, active, faults>>

(* The host ends the worker of a terminal job.                             *)
SweepHost ==
  /\ gpc = "sweep" /\ gpc' = "settle"
  /\ LET j == First(todo)  h == home[j] IN
       /\ local' = [local EXCEPT ![h] = Swept(h, {j})]
       /\ seen'  = [seen EXCEPT ![h] = local'[h]]
       /\ live'  = [live EXCEPT ![h] = IF Vacant(local'[h]) THEN "free" ELSE "full"]
  /\ UNCHANGED <<github, launching, ledger, runners, todo, over, active, faults>>

NextRecord == gpc' = "record" /\ todo' = todo \ {First(todo)} /\ over' = FALSE

(* A worker that runs confirms the record, if its host has journaled it as *)
(* running; a launch cut off just before that leaves the record as it is.  *)
KeepRecord ==
  /\ gpc = "settle"
  /\ LET j == First(todo) IN
       /\ seen[home[j]][j] = "running"
       /\ phase' \in {phase, [phase EXCEPT ![j] = "running"]}
  /\ NextRecord
  /\ UNCHANGED <<github, hosts, home, live, seen, runners, active, faults>>

Ended(j) == seen[home[j]][j] \in {"absent", "cleaned"}

(* The worker is gone and its registration is busy: keep the tombstone.    *)
KeepTombstone ==
  /\ gpc = "settle" /\ Ended(First(todo)) /\ runners[First(todo)] = "busy"
  /\ NextRecord
  /\ UNCHANGED <<github, hosts, ledger, live, seen, runners, active, faults>>

(* Its registration is idle: remove reads it once more.  A registration    *)
(* that is busy or gone by then ends the pass.                             *)
RecheckRunner ==
  /\ gpc = "settle" /\ Ended(First(todo)) /\ runners[First(todo)] = "idle"
  /\ IF reg[First(todo)] = "idle"
       THEN gpc' = "delete" /\ UNCHANGED memory
       ELSE Forget
  /\ UNCHANGED <<github, hosts, ledger, faults>>

(* DELETE: GitHub refuses it for a busy runner, which ends the pass.       *)
DeleteRunner ==
  /\ gpc = "delete"
  /\ LET j == First(todo) IN
       IF reg[j] = "idle"
         THEN /\ reg' = [reg EXCEPT ![j] = "none"]
              /\ runners' = [runners EXCEPT ![j] = "none"]
              /\ gpc' = "close"
              /\ UNCHANGED <<live, seen, todo, over, active>>
         ELSE Forget /\ UNCHANGED reg
  /\ UNCHANGED <<status, label, runner, posts, posting, late, hosts, ledger, faults>>

(* The answer to the DELETE is lost, and with it the pass.                 *)
DeleteAnswerLost ==
  /\ gpc = "delete" /\ reg[First(todo)] = "idle" /\ Fault
  /\ reg' = [reg EXCEPT ![First(todo)] = "none"]
  /\ Forget
  /\ UNCHANGED <<status, label, runner, posts, posting, late, hosts, ledger>>

CloseRecord ==
  /\ \/ gpc = "close"
     \/ gpc = "settle" /\ Ended(First(todo)) /\ runners[First(todo)] = "none"
  /\ phase' = [phase EXCEPT ![First(todo)] = "done"]
  /\ NextRecord
  /\ UNCHANGED <<github, hosts, home, live, seen, runners, active, faults>>

-----------------------------------------------------------------------------
(* Admission.                                                              *)

Discover ==
  /\ gpc = "record" /\ todo = {} /\ gpc' = "admit"
  /\ active' = {j \in Job : status[j] \in {"queued", "in_progress"}}
  /\ seen' = NoPhase   \* not read any more in this pass
  /\ todo' = {j \in Job : status[j] = "queued"}
  /\ UNCHANGED <<github, hosts, ledger, live, runners, over, faults>>

Sharing(j, jobs) == {k \in jobs : label[k] = label[j]}

(* Mutant: registrations left by cancelled jobs are not looked at.         *)
LabelFree_ByJobs(j, jobs, regs) == Sharing(j, jobs) = {j}

(* No other active job requests the label and no registration carries it.  *)
LabelFree(j, jobs, regs) ==
  /\ Sharing(j, jobs) = {j}
  /\ \A k \in Job : label[k] = label[j] => regs[k] = "none"

FreeHosts == {h \in Host : live[h] = "free"}

NextJob == gpc' = "admit" /\ todo' = todo \ {First(todo)}

(* Mutant: a job whose admission was closed is admitted again.             *)
Unadmitted_Closed(j) == phase[j] \in {"none", "done"}

Unadmitted(j) == phase[j] = "none"

(* Already in the ledger, or no host has room.                             *)
SkipJob ==
  /\ gpc = "admit" /\ todo # {}
  /\ ~Unadmitted(First(todo)) \/ FreeHosts = {}
  /\ NextJob
  /\ UNCHANGED <<github, hosts, ledger, live, seen, runners, over, active, faults>>

(* Its PR, requirements or digest do not prove it, or cannot be read; or   *)
(* its label is not free.                                                  *)
Unproven ==
  /\ gpc = "admit" /\ todo # {}
  /\ Unadmitted(First(todo)) /\ FreeHosts # {}
  /\ NextJob
  /\ UNCHANGED <<github, hosts, ledger, live, seen, runners, over, active, faults>>

ChooseHost ==
  /\ gpc = "admit" /\ todo # {}
  /\ LET j == First(todo) IN
       /\ Unadmitted(j) /\ FreeHosts # {}
       /\ LabelFree(j, active, runners)
  /\ gpc' = "prepare"
  /\ UNCHANGED <<github, hosts, ledger, memory, faults>>

Target == First(FreeHosts)

(* An exception while a host is chosen: do not use that host again in this *)
(* pass, go on with the next job.                                          *)
GiveUp == live' = [live EXCEPT ![Target] = "full"] /\ NextJob

(* The host cleans up and, if its slot is free, pulls the image.           *)
Prepare ==
  /\ gpc = "prepare"
  /\ local' = [local EXCEPT ![Target] = Swept(Target, {})]
  /\ IF Vacant(local'[Target])
       THEN gpc' = "recheck" /\ UNCHANGED <<live, todo>>
       ELSE GiveUp
  /\ UNCHANGED <<github, launching, ledger, seen, runners, over, active, faults>>

PrepareFails ==
  /\ gpc = "prepare" /\ Fault
  /\ GiveUp
  /\ UNCHANGED <<github, hosts, ledger, seen, runners, over, active>>

(* Everything is read again after the long pull: the job, the other active *)
(* ones and, if it is still queued and alone, the registrations.           *)
Recheck ==
  /\ gpc = "recheck"
  /\ LET j == First(todo)
         now == {k \in Job : status[k] \in {"queued", "in_progress"}} IN
       /\ runners' \in IF status[j] = "queued" /\ Sharing(j, now) = {j}
                         THEN {group_runners} ELSE {runners}
       /\ IF status[j] = "queued" /\ LabelFree(j, now, runners')
            THEN gpc' = "journal" /\ UNCHANGED <<live, todo>>
            ELSE GiveUp
  /\ UNCHANGED <<github, hosts, ledger, seen, over, active, faults>>

(* Its PR has changed or was closed meanwhile, or does not prove it any    *)
(* more.  The first makes it Ineligible, for which the host is not blamed. *)
Disproven ==
  /\ gpc = "recheck"
  /\ GiveUp \/ (NextJob /\ UNCHANGED live)
  /\ UNCHANGED <<github, hosts, ledger, seen, runners, over, active, faults>>

(* Mutant: the phase of the host's journal.                                *)
Entry_Starting == "starting"

(* Mutant: the record is only written after the POST.                      *)
Entry_Late == "none"

Entry == "registering"

(* Durable before the POST.                                                *)
JournalJob ==
  /\ gpc = "journal" /\ gpc' = "post"
  /\ phase' = [phase EXCEPT ![First(todo)] = Entry]
  /\ home'  = [home EXCEPT ![First(todo)] = Target]
  /\ UNCHANGED <<github, hosts, memory, faults>>

Registered(j) ==
  /\ reg' = [reg EXCEPT ![j] = "idle"]
  /\ posts' = [posts EXCEPT ![j] = @ + 1]

Post ==
  /\ gpc = "post" /\ gpc' = "registered"
  /\ Registered(First(todo))
  /\ UNCHANGED <<status, label, runner, posting, late, hosts, ledger, memory, faults>>

(* Refused, answered but the answer is lost, or given up while under way.  *)
PostFails ==
  /\ gpc = "post" /\ Fault
  /\ \/ UNCHANGED <<reg, posts, posting>>
     \/ Registered(First(todo)) /\ UNCHANGED posting
     \/ posting' = posting \cup {First(todo)} /\ UNCHANGED <<reg, posts>>
  /\ GiveUp
  /\ UNCHANGED <<status, label, runner, late, hosts, ledger, seen, runners, over, active>>

SaveRegistered ==
  /\ gpc = "registered" /\ gpc' = "launch"
  /\ phase' = [phase EXCEPT ![First(todo)] = "registered"]
  /\ UNCHANGED <<github, hosts, home, memory, faults>>

Launch ==
  /\ gpc = "launch"
  /\ LET j == First(todo) IN
       IF Launchable(Target, j)
         THEN /\ local' = Launched(Target, j, "running")
              /\ gpc' = "confirm" /\ UNCHANGED <<live, todo>>
         ELSE /\ local' = [local EXCEPT ![Target] = Swept(Target, {})]
              /\ GiveUp
  /\ UNCHANGED <<github, launching, ledger, seen, runners, over, active, faults>>

(* It fails before or after the host journaled it, its answer is lost, or  *)
(* SSH is lost while the host goes on by itself.                           *)
LaunchFails ==
  /\ gpc = "launch" /\ Fault
  /\ LET j == First(todo) IN
       \/ UNCHANGED hosts
       \/ /\ Launchable(Target, j)
          /\ \E r \in {"running", "dead"} : local' = Launched(Target, j, r)
          /\ UNCHANGED launching
       \/ launching' = launching \cup {<<Target, j>>} /\ UNCHANGED local
  /\ GiveUp
  /\ UNCHANGED <<github, ledger, seen, runners, over, active>>

ConfirmLaunch ==
  /\ gpc = "confirm"
  /\ phase' = [phase EXCEPT ![First(todo)] = "running"]
  /\ GiveUp
  /\ UNCHANGED <<github, hosts, home, seen, runners, over, active, faults>>

EndPass ==
  /\ gpc = "admit" /\ todo = {}
  /\ Forget
  /\ UNCHANGED <<github, hosts, ledger, faults>>

-----------------------------------------------------------------------------
(* GitHub and the hosts by themselves.                                     *)

pass == <<ledger, gpc, memory, faults>>

JobQueued(j) ==
  /\ status[j] = "none"
  /\ status' = [status EXCEPT ![j] = "queued"]
  /\ UNCHANGED <<label, runner, reg, posts, posting, late, hosts, pass>>

Alive(j) == \E h \in Host : local[h][j] = "running"

(* A runner that is online takes any queued job of its label.              *)
JobAssigned(k, j) ==
  /\ reg[k] = "idle" /\ Alive(k)
  /\ status[j] = "queued" /\ label[j] = label[k]
  /\ status' = [status EXCEPT ![j] = "in_progress"]
  /\ runner' = [runner EXCEPT ![j] = k]
  /\ reg'    = [reg EXCEPT ![k] = "busy"]
  /\ UNCHANGED <<label, posts, posting, late, hosts, pass>>

(* A single-use runner ends with its job, and so does its registration.    *)
JobFinishes(k, j) ==
  /\ status[j] = "in_progress" /\ runner[j] = k /\ Alive(k)
  /\ status' = [status EXCEPT ![j] = "completed"]
  /\ reg'    = [reg EXCEPT ![k] = "none"]
  /\ local'  = [h \in Host |-> [local[h] EXCEPT ![k] = IF @ = "running" THEN "dead" ELSE @]]
  /\ UNCHANGED <<label, runner, posts, posting, late, launching, pass>>

(* The worker is gone: in time GitHub fails the job and frees the lease.   *)
JobLost(k, j) ==
  /\ status[j] = "in_progress" /\ runner[j] = k /\ ~Alive(k)
  /\ status' = [status EXCEPT ![j] = "completed"]
  /\ reg'    = [reg EXCEPT ![k] = "idle"]
  /\ UNCHANGED <<label, runner, posts, posting, late, hosts, pass>>

JobCancelled(j) ==
  /\ status[j] = "queued"
  /\ status' = [status EXCEPT ![j] = "completed"]
  /\ UNCHANGED <<label, runner, reg, posts, posting, late, hosts, pass>>

PostLands(j) ==
  /\ j \in posting
  /\ posting' = posting \ {j} /\ late' = late \cup {j}
  /\ Registered(j)
  /\ UNCHANGED <<status, label, runner, hosts, pass>>

(* A worker fails, is killed with its host, or reaches its maximal age.    *)
WorkerEnds(h, j) ==
  /\ local[h][j] = "running"
  /\ local' = [local EXCEPT ![h][j] = "dead"]
  /\ UNCHANGED <<github, launching, pass>>

(* The cleanup timer of the host.                                          *)
HostTimer(h) ==
  /\ local[h] # Swept(h, {})
  /\ local' = [local EXCEPT ![h] = Swept(h, {})]
  /\ UNCHANGED <<github, launching, pass>>

(* A launch that outlived its SSH connection, at any time after the order  *)
(* was given up; one that is refused, or dies with its host, changes       *)
(* nothing that the timer of the host does not.                            *)
LateLaunch(h, j) ==
  /\ <<h, j>> \in launching /\ Launchable(h, j)
  /\ local' = Launched(h, j, "running")
  /\ UNCHANGED <<github, launching, pass>>

Settle ==
  \/ ListRunners \/ ReadJob \/ SweepHost \/ KeepRecord \/ KeepTombstone
  \/ RecheckRunner \/ DeleteRunner \/ CloseRecord

Admission ==
  \/ Discover \/ SkipJob \/ Unproven \/ ChooseHost \/ Prepare \/ Recheck \/ Disproven \/ JournalJob
  \/ Post \/ SaveRegistered \/ Launch \/ ConfirmLaunch \/ EndPass

Failure == Abort \/ DeleteAnswerLost \/ PrepareFails \/ PostFails \/ LaunchFails

Environment ==
  \/ \E j \in Job : JobQueued(j) \/ JobCancelled(j) \/ PostLands(j)
  \/ \E j, k \in Job : JobAssigned(k, j) \/ JobFinishes(k, j) \/ JobLost(k, j)
  \/ \E h \in Host, j \in Job : WorkerEnds(h, j) \/ LateLaunch(h, j)
  \/ \E h \in Host : HostTimer(h)

Next == ReadHosts \/ Settle \/ Admission \/ Failure \/ Environment

(* A started pass goes on; workers have a maximal age, hosts a timer, and  *)
(* GitHub fails lost jobs.  A pass that finds the lock taken, by another   *)
(* one or by the release allocator, ends before it reads the hosts:        *)
(* nothing says that a later one finds it free.                            *)
Fairness ==
  /\ WF_vars(Settle \/ Admission)
  /\ \A h \in Host : WF_vars(HostTimer(h))
  /\ \A h \in Host, j \in Job : WF_vars(WorkerEnds(h, j))
  /\ \A j, k \in Job : WF_vars(JobLost(k, j))

Spec == Init /\ [][Next]_vars /\ Fairness
-----------------------------------------------------------------------------
GithubOK ==
  /\ status \in [Job -> {"none", "queued", "in_progress", "completed"}]
  /\ runner \in [Job -> Job \cup {NoRunner}]
  /\ label \in Labelings
  /\ reg \in [Job -> {"none", "idle", "busy"}]
  /\ posts \in [Job -> Nat]
  /\ posting \subseteq Job /\ late \subseteq Job

HostsOK ==
  /\ local \in [Host -> [Job -> LocalPhase]]
  /\ launching \subseteq Host \X Job

LedgerOK ==
  /\ phase \in [Job -> {"none", "done"} \cup Open]
  /\ home \in [Job -> Host \cup {NoHost}]

PassOK ==
  /\ gpc \in {"idle", "list", "record", "sweep", "settle", "delete", "close", "admit",
              "prepare", "recheck", "journal", "post", "registered", "launch", "confirm"}
  /\ live \in [Host -> {"down", "full", "free"}]
  /\ seen \in [Host -> [Job -> LocalPhase]]
  /\ runners \in [Job -> {"none", "idle", "busy"}]
  /\ todo \subseteq Job /\ over \in BOOLEAN /\ active \subseteq Job

TypeOK == GithubOK /\ HostsOK /\ LedgerOK /\ PassOK /\ faults \in 0 .. MaxFaults

(* Whatever is lost and wherever the Gateway dies, no job is given a       *)
(* second single-use registration: an ambiguous POST is never replayed.    *)
OneRegistrationPerJob == \A j \in Job : posts[j] <= 1

(* Every registration in the group belongs to an open record, which a      *)
(* later pass still visits: a lost POST is found again, a record is closed *)
(* only when its registration is gone, a busy lease keeps its tombstone.   *)
(* The exception is a POST that takes effect after a pass found no         *)
(* registration and closed the record.                                     *)
OnlyLatePostsLeak ==
  \A j \in Job : reg[j] # "none" /\ phase[j] \notin Open => j \in late

(* GitHub binds jobs to runners by label only: two registrations never     *)
(* carry the same one, so a job is only taken by the worker made for it or *)
(* by one whose own job is gone; here too, but for a POST that lands late. *)
OneRunnerPerLabel ==
  \A j, k \in Job \ late :
    reg[j] # "none" /\ reg[k] # "none" /\ label[j] = label[k] => j = k

(* A host only ever holds what the ledger placed on it, registered first;  *)
(* also when a launch outlives the pass that sent it.  As long as a worker *)
(* runs, its record is open: what a host was not asked about is not over.  *)
(* The exception is a launch whose answer the pass that closed the record  *)
(* could not have.                                                         *)
WorkerAccounted ==
  \A h \in Host, j \in Job :
    /\ local[h][j] # "absent" => home[j] = h /\ posts[j] = 1 /\ phase[j] \notin {"none", "registering"}
    /\ local[h][j] = "running" => phase[j] \in Open \/ <<h, j>> \in launching

(* If passes get the lock again and again, and failures stop, every record *)
(* is closed; OnlyLatePostsLeak and WorkerAccounted say what that means    *)
(* for its registration and its worker.                                    *)
Settles == []<><<ReadHosts>>_vars => \A j \in Job : phase[j] \in Open ~> phase[j] = "done"

-----------------------------------------------------------------------------
(* What the proofs in CandidatePoolProofs need besides.                    *)

Settling  == {"record", "sweep", "settle", "delete", "close"}
Admitting == {"prepare", "recheck", "journal", "post", "registered", "launch", "confirm"}

(* A job without a record was never posted, one whose POST is under way    *)
(* has not been registered, and a record has a host.                       *)
PostsInv == \A j \in Job :
  /\ posts[j] \in {0, 1}
  /\ posts[j] = 0 => reg[j] = "none"
  /\ j \in posting => posts[j] = 0
  /\ phase[j] = "none" => posts[j] = 0 /\ j \notin posting
  /\ phase[j] # "none" => home[j] \in Host

(* A job runs on a lease of its own.                                       *)
LeaseInv == \A j \in Job : status[j] = "in_progress" =>
  /\ runner[j] \in Job /\ reg[runner[j]] = "busy"
  /\ \A i \in Job : status[i] = "in_progress" /\ runner[i] = runner[j] => i = j

(* What a pass settles is open; a registration it did not list, or has     *)
(* deleted, is not there, or came late.                                    *)
SettleInv ==
  /\ gpc \in Settling => todo \subseteq Visited
  /\ gpc \in Settling \ {"record"} => todo # {}
  /\ gpc \in Settling => \A j \in todo : runners[j] = "none" => reg[j] = "none" \/ j \in late
  /\ gpc = "close" => runners[First(todo)] = "none"

(* What a pass has seen of the hosts it reached: a worker it did not see   *)
(* is one of a launch that was given up.  It looks at records there only.  *)
SightInv ==
  /\ gpc \in Settling \cup {"list"} => \A h \in Host, j \in Job :
       live[h] # "down" /\ local[h][j] = "running" =>
         seen[h][j] = "running" \/ <<h, j>> \in launching
  /\ gpc \in Settling => \A j \in todo : live[home[j]] # "down"
  /\ gpc \in {"delete", "close"} => Ended(First(todo))

(* The job being admitted, as far as it got.                               *)
AdmitInv == gpc \in Admitting =>
  LET j == First(todo) IN
    /\ todo # {} /\ FreeHosts # {}
    /\ gpc \in {"prepare", "recheck", "journal"} => Unadmitted(j)
    /\ gpc \in {"journal", "post"} =>
         \A k \in Job \ late : label[k] = label[j] => reg[k] = "none"
    /\ gpc \in {"post", "registered", "launch", "confirm"} => home[j] = Target
    /\ gpc = "post" => phase[j] = "registering" /\ posts[j] = 0 /\ j \notin posting
    /\ gpc = "registered" => phase[j] = "registering" /\ posts[j] = 1
    /\ gpc \in {"launch", "confirm"} => phase[j] = "registered" /\ posts[j] = 1

(* A launch that was given up belongs to a record like a worker does.      *)
LaunchInv == \A h \in Host, j \in Job :
  <<h, j>> \in launching => home[j] = h /\ posts[j] = 1 /\ phase[j] \notin {"none", "registering"}

IInv ==
  /\ TypeOK /\ PostsInv /\ LeaseInv /\ SettleInv /\ SightInv /\ AdmitInv /\ LaunchInv
  /\ OneRegistrationPerJob /\ OnlyLatePostsLeak /\ OneRunnerPerLabel /\ WorkerAccounted
=============================================================================
