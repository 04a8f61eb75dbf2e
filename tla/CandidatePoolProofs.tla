------------------------ MODULE CandidatePoolProofs -------------------------
(***************************************************************************)
(* Proofs about CandidatePool, for every set of jobs, hosts and labels and *)
(* every number of faults.                                                 *)
(***************************************************************************)
EXTENDS CandidatePool, FiniteSetTheorems, WellFoundedInduction, TLAPS

USE JobAssumption, HostAssumption, FaultsAssumption

-----------------------------------------------------------------------------
(* The first of some jobs or hosts is one of them.                         *)

Less == {ss \in Nat \X Nat : ss[1] < ss[2]}

LEMMA NatWellFounded == IsWellFoundedOn(Less, Nat)
  BY ONLY NatLessThanWellFounded DEF OpToRel, Less

LEMMA FirstIn ==
  ASSUME NEW S, S \subseteq Nat, S # {}
  PROVE  First(S) \in S
<1>1. PICK x \in S : \A y \in S : ~ (<<y, x>> \in Less)
  BY NatWellFounded, WFMin
<1>2. \A y \in S : x <= y
  <2> SUFFICES ASSUME NEW y \in S PROVE x <= y
    OBVIOUS
  <2>1. x \in Nat /\ y \in Nat /\ <<y, x>> \in Nat \X Nat
    OBVIOUS
  <2>2. ~ (y < x)
    BY <1>1, <2>1 DEF Less
  <2> QED
    BY <2>1, <2>2
<1> QED
  BY <1>2 DEF First

LEMMA FirstJob == ASSUME NEW S, S \subseteq Job, S # {} PROVE First(S) \in S /\ First(S) \in Job
  BY FirstIn

LEMMA TargetIn == FreeHosts # {} => Target \in FreeHosts /\ Target \in Host /\ live[Target] = "free"
<1>1. FreeHosts \subseteq Host
  BY DEF FreeHosts
<1> QED
  BY <1>1, FirstIn DEF Target, FreeHosts

(* A cleanup forgets and invents nothing.                                  *)
LEMMA SweptPhases ==
  ASSUME NEW h, NEW t, local[h] \in [Job -> LocalPhase]
  PROVE  /\ Swept(h, t) \in [Job -> LocalPhase]
         /\ \A j \in Job : Swept(h, t)[j] = "absent" <=> local[h][j] = "absent"
         /\ \A j \in Job : Swept(h, t)[j] = "running" => local[h][j] = "running"
  BY DEF Swept, LocalPhase

(* What a pass is at work on.                                              *)
LEMMA Nothing ==
  /\ NoView \in [Host -> {"down", "full", "free"}]
  /\ NoPhase \in [Host -> [Job -> LocalPhase]]
  /\ NoReg \in [Job -> {"none", "idle", "busy"}]
<1>1. [j \in Job |-> "absent"] \in [Job -> LocalPhase]
  BY DEF LocalPhase
<1>2. NoPhase \in [Host -> [Job -> LocalPhase]]
  BY <1>1 DEF NoPhase
<1> QED
  BY <1>2 DEF NoView, NoReg

(* What a pass is at work on.                                              *)
LEMMA SettledJob ==
  ASSUME TypeOK, PostsInv, SettleInv, gpc \in Settling, todo # {}
  PROVE  First(todo) \in todo /\ First(todo) \in Job /\ home[First(todo)] \in Host
         /\ phase[First(todo)] \in Open
<1>1. First(todo) \in todo /\ First(todo) \in Job
  BY FirstJob DEF TypeOK, PassOK
<1> QED
  BY <1>1 DEF PostsInv, SettleInv, Visited, Open

LEMMA AdmittedJob ==
  ASSUME TypeOK, AdmitInv, gpc \in Admitting
  PROVE  First(todo) \in todo /\ First(todo) \in Job /\ Target \in Host
  BY FirstJob, TargetIn DEF TypeOK, PassOK, AdmitInv

-----------------------------------------------------------------------------
LEMMA InitIInv == Init => IInv
<1> SUFFICES ASSUME Init PROVE IInv
  OBVIOUS
<1>1. TypeOK
  <2>1. GithubOK
    BY Nothing DEF Init, GithubOK
  <2>2. HostsOK /\ LedgerOK
    BY Nothing DEF Init, HostsOK, LedgerOK
  <2>3. PassOK
    BY Nothing DEF Init, PassOK
  <2> QED
    BY <2>1, <2>2, <2>3 DEF Init, TypeOK
<1> QED
  BY <1>1
  DEF Init, IInv, PostsInv, LeaseInv, SettleInv, SightInv, AdmitInv, LaunchInv,
      OneRegistrationPerJob, OnlyLatePostsLeak, OneRunnerPerLabel, WorkerAccounted, NoReg, NoPhase, Settling, Admitting

(* What a step leaves alone stays well typed.                              *)
LEMMA FrameType == TypeOK => /\ UNCHANGED github => GithubOK'
                             /\ UNCHANGED hosts => HostsOK'
                             /\ UNCHANGED ledger => LedgerOK'
                             /\ UNCHANGED <<gpc, memory>> => PassOK'
                             /\ UNCHANGED faults \/ Fault => faults' \in 0 .. MaxFaults
<1> SUFFICES ASSUME TypeOK
    PROVE  /\ UNCHANGED github => GithubOK'
           /\ UNCHANGED hosts => HostsOK'
           /\ UNCHANGED ledger => LedgerOK'
           /\ UNCHANGED <<gpc, memory>> => PassOK'
           /\ UNCHANGED faults \/ Fault => faults' \in 0 .. MaxFaults
  OBVIOUS
<1> USE DEF TypeOK
<1>1. UNCHANGED github => GithubOK'
  BY DEF GithubOK, github
<1>2. UNCHANGED hosts => HostsOK'
  BY DEF HostsOK, hosts, LocalPhase
<1>3. UNCHANGED ledger => LedgerOK'
  BY DEF LedgerOK, ledger, Open
<1>4. UNCHANGED <<gpc, memory>> => PassOK'
  BY DEF PassOK, memory, LocalPhase
<1>5. UNCHANGED faults \/ Fault => faults' \in 0 .. MaxFaults
  BY DEF Fault
<1> QED
  BY <1>1, <1>2, <1>3, <1>4, <1>5

LEMMA ForgetType == Forget => PassOK'
  BY Nothing DEF Forget, PassOK, LocalPhase

LEMMA GiveUpType ==
  TypeOK /\ GiveUp /\ UNCHANGED <<seen, over, active>>
         /\ runners' \in [Job -> {"none", "idle", "busy"}] => PassOK'
  BY DEF TypeOK, PassOK, GiveUp, NextJob, LocalPhase

LEMMA SettleType == IInv /\ (ReadHosts \/ Settle) => TypeOK'
<1> SUFFICES ASSUME IInv, ReadHosts \/ Settle PROVE TypeOK'
  OBVIOUS
<1>0. /\ TypeOK /\ PostsInv /\ SettleInv /\ LocalPhase' = LocalPhase /\ Open' = Open
  BY DEF IInv, LocalPhase, Open
<1> USE <1>0, FrameType DEF TypeOK
<1>1. CASE ReadHosts
  <2>1. local' \in [Host -> [Job -> LocalPhase]]
    BY <1>1, SweptPhases DEF ReadHosts, HostsOK
  <2>a. seen' \in [Host -> [Job -> LocalPhase]]
    <3>1. \A h \in Host : NoPhase[h] \in [Job -> LocalPhase]
      BY Nothing
    <3>2. PICK up \in SUBSET Host :
            seen' = [h \in Host |-> IF h \in up THEN local'[h] ELSE NoPhase[h]]
      BY <1>1 DEF ReadHosts
    <3> QED
      BY <2>1, <3>1, <3>2
  <2>2. HostsOK' /\ PassOK'
    BY <1>1, <2>1, <2>a DEF ReadHosts, HostsOK, PassOK
  <2>3. faults' \in 0 .. MaxFaults
    <3>1. PICK up \in SUBSET Host : /\ faults + Cardinality(Host \ up) <= MaxFaults
                                   /\ faults' = faults + Cardinality(Host \ up)
      BY <1>1 DEF ReadHosts
    <3>2. Cardinality(Host \ up) \in Nat
      BY FS_Subset, FS_CardinalityType
    <3> QED
      BY <3>1, <3>2
  <2> QED
    BY <1>1, <2>2, <2>3 DEF ReadHosts
<1>2. CASE ListRunners
  <2>1. PassOK'
    BY <1>2 DEF ListRunners, group_runners, Visited, GithubOK, PassOK
  <2> QED
    BY <1>2, <2>1 DEF ListRunners
<1>3. CASE ReadJob
  <2>1. PassOK'
    BY <1>3 DEF ReadJob, PassOK
  <2> QED
    BY <1>3, <2>1 DEF ReadJob
<1>4. CASE SweepHost
  <2>1. Swept(home[First(todo)], {First(todo)}) \in [Job -> LocalPhase]
    BY <1>4, SettledJob, SweptPhases DEF SweepHost, SettleInv, Settling, HostsOK
  <2>2. HostsOK' /\ local'[home[First(todo)]] \in [Job -> LocalPhase]
    BY <1>4, <2>1, SettledJob DEF SweepHost, SettleInv, Settling, HostsOK
  <2>3. PassOK'
    BY <1>4, <2>2 DEF SweepHost, PassOK
  <2> QED
    BY <1>4, <2>2, <2>3 DEF SweepHost
<1>5. CASE KeepRecord
  <2>1. LedgerOK' /\ PassOK'
    BY <1>5 DEF KeepRecord, NextRecord, Open, LedgerOK, PassOK
  <2> QED
    BY <1>5, <2>1 DEF KeepRecord
<1>6. CASE KeepTombstone
  <2>1. PassOK'
    BY <1>6 DEF KeepTombstone, NextRecord, PassOK
  <2> QED
    BY <1>6, <2>1 DEF KeepTombstone
<1>7. CASE RecheckRunner
  <2>1. PassOK'
    BY <1>7, ForgetType DEF RecheckRunner, PassOK, memory
  <2> QED
    BY <1>7, <2>1 DEF RecheckRunner
<1>8. CASE DeleteRunner
  <2>1. PassOK'
    BY <1>8, ForgetType DEF DeleteRunner, PassOK
  <2>2. GithubOK'
    BY <1>8 DEF DeleteRunner, GithubOK
  <2> QED
    BY <1>8, <2>1, <2>2 DEF DeleteRunner
<1>9. CASE CloseRecord
  <2>1. LedgerOK' /\ PassOK'
    BY <1>9 DEF CloseRecord, NextRecord, Open, LedgerOK, PassOK
  <2> QED
    BY <1>9, <2>1 DEF CloseRecord
<1> QED
  BY <1>1, <1>2, <1>3, <1>4, <1>5, <1>6, <1>7, <1>8, <1>9 DEF Settle

LEMMA AdmissionType == IInv /\ Admission => TypeOK'
<1> SUFFICES ASSUME IInv, Admission PROVE TypeOK'
  OBVIOUS
<1>0. TypeOK /\ AdmitInv /\ LocalPhase' = LocalPhase /\ Open' = Open
  BY DEF IInv, LocalPhase, Open
<1>a. gpc \in Admitting => First(todo) \in Job /\ Target \in Host
  BY <1>0, AdmittedJob
<1>b. \A h \in Host : Swept(h, {}) \in [Job -> LocalPhase]
  BY <1>0, SweptPhases DEF TypeOK, HostsOK
<1>c. UNCHANGED runners /\ GithubOK => runners' \in [Job -> {"none", "idle", "busy"}]
  BY <1>0 DEF TypeOK, PassOK
<1> USE <1>0, <1>a, <1>b, <1>c, FrameType DEF TypeOK, Admitting
<1>1. CASE Discover
  <2>1. PassOK'
    BY <1>1, Nothing DEF Discover, PassOK
  <2> QED
    BY <1>1, <2>1 DEF Discover
<1>2. CASE SkipJob \/ Unproven \/ Disproven
  <2>1. PassOK'
    BY <1>2, GiveUpType DEF SkipJob, Unproven, Disproven, NextJob, PassOK
  <2> QED
    BY <1>2, <2>1 DEF SkipJob, Unproven, Disproven
<1>3. CASE ChooseHost
  <2>1. PassOK'
    BY <1>3 DEF ChooseHost, memory, PassOK
  <2> QED
    BY <1>3, <2>1 DEF ChooseHost
<1>4. CASE Prepare
  <2>1. PassOK'
    BY <1>4, GiveUpType DEF Prepare, PassOK
  <2>2. HostsOK'
    BY <1>4 DEF Prepare, HostsOK
  <2> QED
    BY <1>4, <2>1, <2>2 DEF Prepare
<1>5. CASE Recheck
  <2>1. PassOK'
    BY <1>5, GiveUpType DEF Recheck, group_runners, GithubOK, PassOK
  <2> QED
    BY <1>5, <2>1 DEF Recheck
<1>6. CASE JournalJob
  <2>1. PassOK' /\ LedgerOK'
    BY <1>6 DEF JournalJob, Entry, Open, PassOK, LedgerOK, memory
  <2> QED
    BY <1>6, <2>1 DEF JournalJob
<1>7. CASE Post
  <2>1. PassOK'
    BY <1>7 DEF Post, PassOK, memory
  <2>2. GithubOK'
    <3>1. First(todo) \in Job /\ posts[First(todo)] + 1 \in Nat
      <4>1. First(todo) \in Job
        BY <1>7 DEF Post
      <4>2. posts[First(todo)] \in Nat
        BY <4>1 DEF GithubOK
      <4> QED
        BY <4>1, <4>2
    <3> QED
      BY <1>7, <3>1 DEF Post, Registered, GithubOK
  <2> QED
    BY <1>7, <2>1, <2>2 DEF Post
<1>8. CASE SaveRegistered
  <2>1. PassOK' /\ LedgerOK'
    BY <1>8 DEF SaveRegistered, Open, PassOK, LedgerOK, memory
  <2> QED
    BY <1>8, <2>1 DEF SaveRegistered
<1>9. CASE Launch
  <2>1. PassOK'
    BY <1>9, GiveUpType DEF Launch, PassOK
  <2>2. HostsOK'
    BY <1>9 DEF Launch, Launched, LocalPhase, HostsOK
  <2> QED
    BY <1>9, <2>1, <2>2 DEF Launch
<1>10. CASE ConfirmLaunch
  <2>1. PassOK' /\ LedgerOK'
    BY <1>10, GiveUpType DEF ConfirmLaunch, Open, LedgerOK
  <2> QED
    BY <1>10, <2>1 DEF ConfirmLaunch
<1>11. CASE EndPass
  BY <1>11, ForgetType DEF EndPass
<1> QED
  BY <1>1, <1>2, <1>3, <1>4, <1>5, <1>6, <1>7, <1>8, <1>9, <1>10, <1>11 DEF Admission

LEMMA FailureType == IInv /\ Failure => TypeOK'
<1> SUFFICES ASSUME IInv, Failure PROVE TypeOK'
  OBVIOUS
<1>0. TypeOK /\ AdmitInv /\ LocalPhase' = LocalPhase
  BY DEF IInv, LocalPhase
<1>a. gpc \in Admitting => First(todo) \in Job /\ Target \in Host
  BY <1>0, AdmittedJob
<1>b. \A h \in Host : Swept(h, {}) \in [Job -> LocalPhase]
  BY <1>0, SweptPhases DEF TypeOK, HostsOK
<1>c. UNCHANGED runners => runners' \in [Job -> {"none", "idle", "busy"}]
  BY <1>0 DEF TypeOK, PassOK
<1> USE <1>0, <1>a, <1>b, <1>c, FrameType DEF TypeOK, Admitting
<1>1. CASE Abort
  BY <1>1, ForgetType DEF Abort
<1>2. CASE DeleteAnswerLost
  <2>1. GithubOK'
    BY <1>2 DEF DeleteAnswerLost, GithubOK
  <2> QED
    BY <1>2, <2>1, ForgetType DEF DeleteAnswerLost
<1>3. CASE PrepareFails
  BY <1>3, GiveUpType DEF PrepareFails
<1>4. CASE PostFails
  <2>1. GithubOK'
    <3>1. First(todo) \in Job /\ posts[First(todo)] + 1 \in Nat
      <4>1. First(todo) \in Job
        BY <1>4 DEF PostFails
      <4>2. posts[First(todo)] \in Nat
        BY <4>1 DEF GithubOK
      <4> QED
        BY <4>1, <4>2
    <3>2. /\ reg' \in {reg, [reg EXCEPT ![First(todo)] = "idle"]}
          /\ posts' \in {posts, [posts EXCEPT ![First(todo)] = @ + 1]}
          /\ posting' \in {posting, posting \cup {First(todo)}}
          /\ UNCHANGED <<status, label, runner, late>>
      BY <1>4 DEF PostFails, Registered
    <3>3. reg' \in [Job -> {"none", "idle", "busy"}] /\ posts' \in [Job -> Nat]
      BY <3>1, <3>2 DEF GithubOK
    <3> QED
      BY <3>1, <3>2, <3>3 DEF GithubOK
  <2> QED
    BY <1>4, <2>1, GiveUpType DEF PostFails
<1>5. CASE LaunchFails
  <2>1. HostsOK'
    BY <1>5 DEF LaunchFails, Launched, LocalPhase, HostsOK, hosts
  <2> QED
    BY <1>5, <2>1, GiveUpType DEF LaunchFails
<1> QED
  BY <1>1, <1>2, <1>3, <1>4, <1>5 DEF Failure

LEMMA EnvironmentType == IInv /\ Environment => TypeOK'
<1> SUFFICES ASSUME IInv, Environment PROVE TypeOK'
  OBVIOUS
<1>0. TypeOK /\ LocalPhase' = LocalPhase
  BY DEF IInv, LocalPhase
<1>a. \A h \in Host : Swept(h, {}) \in [Job -> LocalPhase]
  BY <1>0, SweptPhases DEF TypeOK, HostsOK
<1>b. ASSUME UNCHANGED pass, GithubOK', HostsOK' PROVE TypeOK'
  BY <1>0, <1>b, FrameType DEF TypeOK, pass
<1>1. ASSUME NEW j \in Job, JobQueued(j) \/ JobCancelled(j) PROVE TypeOK'
  BY <1>0, <1>b, <1>1, FrameType DEF JobQueued, JobCancelled, TypeOK, GithubOK
<1>2. ASSUME NEW j \in Job, PostLands(j) PROVE TypeOK'
  BY <1>0, <1>b, <1>2, FrameType DEF PostLands, Registered, TypeOK, GithubOK
<1>3. ASSUME NEW j \in Job, NEW k \in Job, JobAssigned(k, j) \/ JobLost(k, j) PROVE TypeOK'
  <2>1. GithubOK'
    BY <1>0, <1>3 DEF JobAssigned, JobLost, TypeOK, GithubOK
  <2>2. HostsOK'
    BY <1>0, <1>3, FrameType DEF JobAssigned, JobLost
  <2> QED
    BY <1>b, <1>3, <2>1, <2>2 DEF JobAssigned, JobLost
<1>4. ASSUME NEW j \in Job, NEW k \in Job, JobFinishes(k, j) PROVE TypeOK'
  <2>1. GithubOK'
    BY <1>0, <1>4 DEF JobFinishes, TypeOK, GithubOK
  <2>2. HostsOK'
    BY <1>0, <1>4 DEF JobFinishes, TypeOK, HostsOK, LocalPhase
  <2> QED
    BY <1>b, <1>4, <2>1, <2>2 DEF JobFinishes
<1>5. ASSUME NEW h \in Host, NEW j \in Job, WorkerEnds(h, j) PROVE TypeOK'
  BY <1>0, <1>b, <1>5, FrameType DEF WorkerEnds, LocalPhase, TypeOK, HostsOK
<1>6. ASSUME NEW h \in Host, NEW j \in Job, LateLaunch(h, j) PROVE TypeOK'
  BY <1>0, <1>a, <1>b, <1>6, FrameType DEF LateLaunch, Launched, LocalPhase, TypeOK, HostsOK
<1>7. ASSUME NEW h \in Host, HostTimer(h) PROVE TypeOK'
  BY <1>0, <1>a, <1>b, <1>7, FrameType DEF HostTimer, TypeOK, HostsOK
<1> QED
  BY <1>1, <1>2, <1>3, <1>4, <1>5, <1>6, <1>7 DEF Environment

-----------------------------------------------------------------------------
(* What the invariants say of GitHub, the hosts and the ledger.            *)
WorldInv == /\ PostsInv /\ LeaseInv /\ LaunchInv
            /\ OnlyLatePostsLeak /\ OneRunnerPerLabel /\ WorkerAccounted

(* What they say of the pass, but for its sight of the hosts.              *)
PassInv == SettleInv /\ AdmitInv

LEMMA FrameWorld == WorldInv /\ UNCHANGED <<github, hosts, ledger>> => WorldInv'
  BY DEF WorldInv, PostsInv, LeaseInv, LaunchInv, OnlyLatePostsLeak, OneRunnerPerLabel,
         WorkerAccounted, github, hosts, ledger, Open

(* A step of the hosts that gives no allocation a worker it had not.       *)
LEMMA FrameHosts ==
  ASSUME WorldInv, UNCHANGED <<github, launching, ledger>>,
         \A h \in Host, j \in Job :
               /\ local'[h][j] # "absent" => local[h][j] # "absent"
               /\ local'[h][j] = "running" => local[h][j] = "running"
  PROVE  WorldInv'
  BY DEF WorldInv, PostsInv, LeaseInv, LaunchInv, OnlyLatePostsLeak, OneRunnerPerLabel,
         WorkerAccounted, github, ledger, Open

LEMMA Outside == gpc' \in {"idle", "list", "admit"} => PassInv'
  BY DEF PassInv, SettleInv, AdmitInv, Settling, Admitting

LEMMA LeavesPass == Forget \/ GiveUp \/ NextJob => PassInv'
  BY Outside DEF Forget, GiveUp, NextJob

LEMMA SettleStep == IInv /\ (ReadHosts \/ Settle) => WorldInv' /\ PassInv'
<1> SUFFICES ASSUME IInv, ReadHosts \/ Settle PROVE WorldInv' /\ PassInv'
  OBVIOUS
<1>0. TypeOK /\ SettleInv /\ AdmitInv /\ WorldInv /\ PostsInv
  BY DEF IInv, WorldInv
<1>a. gpc \in Settling /\ todo # {} =>
        /\ First(todo) \in todo /\ First(todo) \in Job
        /\ home[First(todo)] \in Host /\ phase[First(todo)] \in Open
  BY <1>0, SettledJob
<1>b. \A h \in Host : local[h] \in [Job -> LocalPhase]
  BY <1>0 DEF TypeOK, HostsOK
<1> USE <1>0
<1>1. CASE ReadHosts
  <2>1. \A h \in Host, j \in Job :
        /\ local'[h][j] # "absent" => local[h][j] # "absent"
        /\ local'[h][j] = "running" => local[h][j] = "running"
    BY <1>b, <1>1, SweptPhases DEF ReadHosts
  <2> QED
    BY <1>1, <2>1, FrameHosts, Outside DEF ReadHosts
<1>2. CASE ListRunners
  <2>1. todo' \subseteq Visited /\ Visited' = Visited /\ gpc' = "record" /\ runners' = reg /\ reg' = reg
    BY <1>2 DEF ListRunners, Visited, Open, group_runners, github, ledger
  <2>2. SettleInv' /\ AdmitInv'
    BY <2>1 DEF SettleInv, AdmitInv, Settling, Admitting
  <2> QED
    BY <1>2, <2>2, FrameWorld DEF ListRunners, PassInv
<1>3. CASE ReadJob
  <2>1. /\ UNCHANGED <<todo, runners, reg, late, phase>> /\ Visited' = Visited
        /\ gpc' \in {"sweep", "settle"} /\ todo # {} /\ gpc = "record"
    BY <1>3 DEF ReadJob, Visited, Open, github, ledger
  <2>2. SettleInv' /\ AdmitInv'
    BY <2>1 DEF SettleInv, AdmitInv, Settling, Admitting
  <2> QED
    BY <1>3, <2>2, FrameWorld DEF ReadJob, PassInv
<1>4. CASE SweepHost
  <2>1. /\ UNCHANGED <<todo, runners, reg, late, phase>> /\ Visited' = Visited
        /\ gpc' = "settle" /\ gpc = "sweep"
    BY <1>4 DEF SweepHost, Visited, Open, github, ledger
  <2>2. SettleInv' /\ AdmitInv'
    BY <2>1 DEF SettleInv, AdmitInv, Settling, Admitting
  <2>3. home[First(todo)] \in Host
    BY <1>a, <2>1 DEF SettleInv, Settling
  <2>4. local' = [local EXCEPT ![home[First(todo)]] = Swept(home[First(todo)], {First(todo)})]
    BY <1>4 DEF SweepHost
  <2>5. \A h \in Host, j \in Job :
        /\ local'[h][j] # "absent" => local[h][j] # "absent"
        /\ local'[h][j] = "running" => local[h][j] = "running"
    BY <1>b, <2>3, <2>4, SweptPhases DEF TypeOK, HostsOK
  <2> QED
    BY <1>4, <2>2, <2>5, FrameHosts DEF SweepHost, PassInv
<1>5. CASE KeepRecord
  <2> DEFINE j == First(todo)
  <2>1. /\ UNCHANGED <<github, hosts, home, runners>> /\ gpc' = "record" /\ todo' = todo \ {j}
        /\ j \in Job /\ phase[j] \in Open /\ gpc = "settle"
    BY <1>a, <1>5 DEF KeepRecord, NextRecord, SettleInv, Settling
  <2>2. \A k \in Job : phase'[k] = phase[k] \/ (k = j /\ phase'[k] = "running")
    <3>1. phase' = phase \/ phase' = [phase EXCEPT ![j] = "running"]
      BY <1>5 DEF KeepRecord
    <3> QED
      BY <2>1, <3>1 DEF TypeOK, LedgerOK
  <2>3. SettleInv' /\ AdmitInv'
    BY <2>1, <2>2 DEF SettleInv, AdmitInv, Settling, Admitting, Visited, github, TypeOK, PassOK
  <2>4. WorldInv'
    <3>1. PostsInv'
      BY <2>1, <2>2 DEF WorldInv, PostsInv, github, Open
    <3>2. LeaseInv' /\ OneRunnerPerLabel'
      BY <2>1 DEF WorldInv, LeaseInv, OneRunnerPerLabel, github
    <3>3. OnlyLatePostsLeak'
      BY <2>1, <2>2 DEF WorldInv, OnlyLatePostsLeak, github, Open
    <3>4. LaunchInv'
      BY <2>1, <2>2 DEF WorldInv, LaunchInv, github, hosts
    <3>5. WorkerAccounted'
      BY <2>1, <2>2 DEF WorldInv, WorkerAccounted, github, hosts, Open
    <3> QED
      BY <3>1, <3>2, <3>3, <3>4, <3>5 DEF WorldInv
  <2> QED
    BY <2>3, <2>4 DEF PassInv
<1>6. CASE KeepTombstone
  <2>1. /\ UNCHANGED <<runners, reg, late, phase>> /\ Visited' = Visited
        /\ gpc' = "record" /\ gpc = "settle" /\ todo' \subseteq todo
    BY <1>6 DEF KeepTombstone, NextRecord, Visited, Open, github, ledger
  <2>2. SettleInv' /\ AdmitInv'
    BY <2>1 DEF SettleInv, AdmitInv, Settling, Admitting
  <2> QED
    BY <1>6, <2>2, FrameWorld DEF KeepTombstone, PassInv
<1>7. CASE RecheckRunner
  <2>1. CASE Forget
    BY <1>7, <2>1, FrameWorld, LeavesPass DEF RecheckRunner
  <2>2. CASE ~Forget
    <3>1. /\ UNCHANGED <<todo, runners, reg, late, phase>> /\ Visited' = Visited
          /\ gpc' = "delete" /\ gpc = "settle"
      BY <1>7, <2>2 DEF RecheckRunner, Visited, Open, github, ledger, memory
    <3>2. SettleInv' /\ AdmitInv'
      BY <3>1 DEF SettleInv, AdmitInv, Settling, Admitting
    <3> QED
      BY <1>7, <3>2, FrameWorld DEF RecheckRunner, PassInv
  <2> QED
    BY <2>1, <2>2
<1>8. CASE DeleteRunner
  <2> DEFINE j == First(todo)
  <2>1. CASE reg[j] # "idle"
    BY <1>8, <2>1, FrameWorld, LeavesPass DEF DeleteRunner, github
  <2>2. CASE reg[j] = "idle"
    <3>1. /\ UNCHANGED <<status, label, runner, posts, posting, late, hosts, ledger, todo>>
          /\ gpc = "delete" /\ gpc' = "close" /\ todo # {} /\ j \in Job /\ j \in todo
      BY <1>8, <1>a, <2>2 DEF DeleteRunner, SettleInv, Settling
    <3>2. /\ reg'[j] = "none" /\ \A k \in Job \ {j} : reg'[k] = reg[k]
          /\ runners'[j] = "none" /\ \A k \in Job \ {j} : runners'[k] = runners[k]
      BY <1>8, <2>2, <3>1 DEF DeleteRunner, TypeOK, GithubOK, PassOK
    <3>3. SettleInv' /\ AdmitInv'
      BY <3>1, <3>2 DEF SettleInv, AdmitInv, Settling, Admitting, Visited, ledger, Open, TypeOK, PassOK
    <3>4. WorldInv'
      <4>1. PostsInv'
        BY <3>1, <3>2 DEF WorldInv, PostsInv, ledger
      <4>2. LeaseInv'
        BY <2>2, <3>1, <3>2 DEF WorldInv, LeaseInv
      <4>3. OneRunnerPerLabel' /\ OnlyLatePostsLeak'
        BY <3>1, <3>2 DEF WorldInv, OneRunnerPerLabel, OnlyLatePostsLeak, ledger, Open
      <4>4. LaunchInv' /\ WorkerAccounted'
        BY <3>1 DEF WorldInv, LaunchInv, WorkerAccounted, hosts, ledger
      <4> QED
        BY <4>1, <4>2, <4>3, <4>4 DEF WorldInv
    <3> QED
      BY <3>3, <3>4 DEF PassInv
  <2> QED
    BY <2>1, <2>2
<1>9. CASE CloseRecord
  <2> DEFINE j == First(todo)
  <2>1. /\ UNCHANGED <<github, hosts, home, runners>> /\ gpc' = "record" /\ todo' = todo \ {j}
        /\ j \in Job /\ j \in todo /\ phase[j] \in Open /\ gpc \in Settling /\ runners[j] = "none"
    BY <1>a, <1>9 DEF CloseRecord, NextRecord, SettleInv, Settling
  <2>2. phase'[j] = "done" /\ \A k \in Job \ {j} : phase'[k] = phase[k]
    BY <1>9, <2>1 DEF CloseRecord, TypeOK, LedgerOK
  <2>3. reg[j] = "none" \/ j \in late
    BY <2>1 DEF SettleInv
  <2>4. SettleInv' /\ AdmitInv'
    BY <2>1, <2>2 DEF SettleInv, AdmitInv, Settling, Admitting, Visited, github, TypeOK, PassOK
  <2>5. \A h \in Host : local[h][j] = "running" => <<h, j>> \in launching
    <3>1. Ended(j) /\ live[home[j]] # "down" /\ home[j] \in Host
      BY <1>9, <1>a, <2>1 DEF CloseRecord, IInv, SightInv, SettleInv, Settling
    <3>2. \A h \in Host : local[h][j] = "running" => h = home[j]
      BY <2>1 DEF WorldInv, WorkerAccounted
    <3> QED
      BY <2>1, <3>1, <3>2 DEF IInv, SightInv, Ended
  <2>6. PostsInv' /\ LeaseInv' /\ LaunchInv' /\ OnlyLatePostsLeak' /\ OneRunnerPerLabel'
    BY <2>1, <2>2, <2>3 DEF WorldInv, PostsInv, LeaseInv, LaunchInv, OnlyLatePostsLeak,
          OneRunnerPerLabel, github, hosts, Open
  <2>7. WorkerAccounted'
    BY <2>1, <2>2, <2>5 DEF WorldInv, WorkerAccounted, github, hosts
  <2> QED
    BY <2>4, <2>6, <2>7 DEF WorldInv, PassInv
<1> QED
  BY <1>1, <1>2, <1>3, <1>4, <1>5, <1>6, <1>7, <1>8, <1>9 DEF Settle

LEMMA AdmissionStep == IInv /\ Admission => WorldInv' /\ PassInv'
<1> DEFINE j == First(todo)
<1> SUFFICES ASSUME IInv, Admission PROVE WorldInv' /\ PassInv'
  OBVIOUS
<1>0. TypeOK /\ SettleInv /\ AdmitInv /\ WorldInv /\ PostsInv
  BY DEF IInv, WorldInv
<1>a. gpc \in Admitting => j \in todo /\ j \in Job /\ Target \in Host
  BY <1>0, AdmittedJob
<1>b. \A h \in Host : local[h] \in [Job -> LocalPhase]
  BY <1>0 DEF TypeOK, HostsOK
<1>c. gpc' \in Admitting => SettleInv'
  BY DEF SettleInv, Settling, Admitting
<1>d. UNCHANGED live => FreeHosts' = FreeHosts /\ Target' = Target
  BY DEF FreeHosts, Target, First
<1>e. UNCHANGED todo => j' = j
  BY DEF First
<1> HIDE DEF j
<1>A. AdmitInv => (gpc \in Admitting =>
    /\ todo # {} /\ FreeHosts # {}
    /\ gpc \in {"prepare", "recheck", "journal"} => Unadmitted(j)
    /\ gpc \in {"journal", "post"} =>
         \A k \in Job \ late : label[k] = label[j] => reg[k] = "none"
    /\ gpc \in {"post", "registered", "launch", "confirm"} => home[j] = Target
    /\ gpc = "post" => phase[j] = "registering" /\ posts[j] = 0 /\ j \notin posting
    /\ gpc = "registered" => phase[j] = "registering" /\ posts[j] = 1
    /\ gpc \in {"launch", "confirm"} => phase[j] = "registered" /\ posts[j] = 1)
  BY DEF AdmitInv, j
<1> USE <1>0
<1>1. CASE Discover \/ SkipJob \/ Unproven \/ Disproven \/ EndPass
  BY <1>1, FrameWorld, Outside, LeavesPass DEF Discover, SkipJob, Unproven, Disproven, EndPass
<1>3. CASE ChooseHost
  <2>1. /\ todo # {} /\ FreeHosts # {} /\ Unadmitted(j) /\ gpc' = "prepare"
        /\ UNCHANGED <<todo, live, phase>> /\ Unadmitted(j)' = Unadmitted(j)
    BY <1>3, <1>e DEF ChooseHost, memory, ledger, Unadmitted, j
  <2>2. AdmitInv'
    BY <1>d, <1>e, <2>1 DEF AdmitInv, Admitting, j
  <2> QED
    BY <1>3, <1>c, <2>1, <2>2, FrameWorld DEF ChooseHost, PassInv, Admitting
<1>4. CASE Prepare
  <2>1. WorldInv'
    <3>1. \A h \in Host, k \in Job :
          /\ local'[h][k] # "absent" => local[h][k] # "absent"
          /\ local'[h][k] = "running" => local[h][k] = "running"
      BY <1>a, <1>b, <1>4, SweptPhases DEF Prepare, Admitting, TypeOK, HostsOK
    <3> QED
      BY <1>4, <3>1, FrameHosts DEF Prepare
  <2>2. CASE GiveUp
    BY <2>1, <2>2, LeavesPass
  <2>3. CASE ~GiveUp
    <3>1. gpc = "prepare" /\ gpc' = "recheck" /\ UNCHANGED <<live, todo, phase>>
      BY <1>4, <2>3 DEF Prepare, ledger
    <3>2. AdmitInv'
      BY <1>d, <3>1 DEF AdmitInv, Admitting, Unadmitted
    <3> QED
      BY <1>c, <2>1, <3>1, <3>2 DEF PassInv, Admitting
  <2> QED
    BY <2>2, <2>3
<1>5. CASE Recheck
  <2>1. WorldInv'
    BY <1>5, FrameWorld DEF Recheck
  <2>2. CASE GiveUp
    BY <2>1, <2>2, LeavesPass
  <2>3. CASE ~GiveUp
    <3>1. /\ gpc = "recheck" /\ gpc' = "journal" /\ UNCHANGED <<live, todo, phase, github>>
          /\ \A k \in Job : label[k] = label[j] => reg[k] = "none"
      BY <1>5, <2>3 DEF Recheck, ledger, LabelFree, group_runners, j
    <3>2. AdmitInv'
      BY <1>A, <1>d, <1>e, <3>1 DEF AdmitInv, Admitting, Unadmitted, github, j
    <3> QED
      BY <1>c, <2>1, <3>1, <3>2 DEF PassInv, Admitting
  <2> QED
    BY <2>2, <2>3
<1>6. CASE JournalJob
  <2>1. /\ gpc = "journal" /\ gpc' = "post" /\ UNCHANGED <<live, todo, github, hosts>>
        /\ phase' = [phase EXCEPT ![j] = "registering"] /\ home' = [home EXCEPT ![j] = Target]
        /\ j \in Job /\ Target \in Host /\ phase[j] = "none" /\ posts[j] = 0 /\ j \notin posting
        /\ \A k \in Job \ late : label[k] = label[j] => reg[k] = "none"
    <3>1. Unadmitted(j) /\ gpc = "journal"
      BY <1>A, <1>6 DEF JournalJob, Admitting
    <3>2. j \in Job /\ Target \in Host
      BY <1>a, <3>1 DEF Admitting
    <3> QED
      BY <1>A, <1>6, <3>1, <3>2 DEF JournalJob, Entry, memory, Unadmitted, PostsInv, Admitting, j
  <2>2. /\ phase'[j] = "registering" /\ \A k \in Job \ {j} : phase'[k] = phase[k]
        /\ home'[j] = Target /\ \A k \in Job \ {j} : home'[k] = home[k]
    BY <2>1 DEF TypeOK, LedgerOK
  <2>3. AdmitInv'
    BY <1>A, <1>d, <1>e, <2>1, <2>2 DEF AdmitInv, Admitting, github, j
  <2>4. PostsInv'
    BY <2>1, <2>2 DEF PostsInv, github
  <2>5. LeaseInv' /\ OneRunnerPerLabel'
    BY <2>1 DEF WorldInv, LeaseInv, OneRunnerPerLabel, github
  <2>6. OnlyLatePostsLeak'
    BY <2>1, <2>2 DEF WorldInv, OnlyLatePostsLeak, github, Open
  <2>7. LaunchInv' /\ WorkerAccounted'
    BY <2>1, <2>2 DEF WorldInv, LaunchInv, WorkerAccounted, github, hosts
  <2> QED
    BY <1>c, <2>1, <2>3, <2>4, <2>5, <2>6, <2>7 DEF WorldInv, PassInv, Admitting
<1>7. CASE Post
  <2>1. /\ gpc = "post" /\ gpc' = "registered" /\ UNCHANGED <<live, todo, hosts, ledger>>
        /\ UNCHANGED <<status, label, runner, posting, late>>
        /\ reg' = [reg EXCEPT ![j] = "idle"] /\ posts' = [posts EXCEPT ![j] = @ + 1]
    BY <1>7 DEF Post, Registered, memory, j
  <2>2. /\ j \in Job /\ phase[j] = "registering" /\ posts[j] = 0 /\ reg[j] = "none" /\ j \notin posting
        /\ home[j] = Target /\ FreeHosts # {} /\ todo # {}
        /\ \A k \in Job \ late : label[k] = label[j] => reg[k] = "none"
    BY <1>A, <1>a, <2>1 DEF Admitting, PostsInv
  <2>3. /\ reg'[j] = "idle" /\ \A k \in Job \ {j} : reg'[k] = reg[k]
        /\ posts'[j] = 1 /\ \A k \in Job \ {j} : posts'[k] = posts[k]
    BY <2>1, <2>2 DEF TypeOK, GithubOK
  <2>4. AdmitInv'
    BY <1>d, <1>e, <2>1, <2>2, <2>3 DEF AdmitInv, Admitting, ledger, j
  <2>5. PostsInv'
    BY <2>1, <2>2, <2>3 DEF PostsInv, ledger
  <2>6. LeaseInv'
    BY <2>1, <2>2, <2>3 DEF WorldInv, LeaseInv
  <2>7. OneRunnerPerLabel'
    BY <2>1, <2>2, <2>3 DEF WorldInv, OneRunnerPerLabel
  <2>8. OnlyLatePostsLeak'
    BY <2>1, <2>2, <2>3 DEF WorldInv, OnlyLatePostsLeak, ledger, Open
  <2>9. LaunchInv' /\ WorkerAccounted'
    BY <2>1, <2>2, <2>3 DEF WorldInv, LaunchInv, WorkerAccounted, hosts, ledger
  <2> QED
    BY <1>c, <2>1, <2>4, <2>5, <2>6, <2>7, <2>8, <2>9 DEF WorldInv, PassInv, Admitting
<1>8. CASE SaveRegistered
  <2>1. /\ gpc = "registered" /\ gpc' = "launch" /\ UNCHANGED <<live, todo, github, hosts, home>>
        /\ phase' = [phase EXCEPT ![j] = "registered"]
    BY <1>8 DEF SaveRegistered, memory, j
  <2>2. /\ j \in Job /\ phase[j] = "registering" /\ posts[j] = 1
        /\ home[j] = Target /\ FreeHosts # {} /\ todo # {}
    BY <1>A, <1>a, <2>1 DEF Admitting
  <2>3. phase'[j] = "registered" /\ \A k \in Job \ {j} : phase'[k] = phase[k]
    BY <2>1, <2>2 DEF TypeOK, LedgerOK
  <2>4. AdmitInv'
    BY <1>d, <1>e, <2>1, <2>2, <2>3 DEF AdmitInv, Admitting, github, j
  <2>5. PostsInv'
    BY <2>1, <2>2, <2>3 DEF PostsInv, github
  <2>6. LeaseInv' /\ OneRunnerPerLabel'
    BY <2>1 DEF WorldInv, LeaseInv, OneRunnerPerLabel, github
  <2>7. OnlyLatePostsLeak'
    BY <2>1, <2>2, <2>3 DEF WorldInv, OnlyLatePostsLeak, github, Open
  <2>8. LaunchInv' /\ WorkerAccounted'
    <3>1. \A k \in Job : /\ phase[k] \notin {"none", "registering"} => phase'[k] = phase[k]
                         /\ phase[k] \in Open => phase'[k] \in Open
      BY <2>2, <2>3 DEF Open
    <3>2. LaunchInv'
      BY <2>1, <3>1 DEF WorldInv, LaunchInv, github, hosts
    <3>3. WorkerAccounted'
      BY <2>1, <3>1 DEF WorldInv, WorkerAccounted, github, hosts
    <3> QED
      BY <3>2, <3>3
  <2> QED
    BY <1>c, <2>1, <2>4, <2>5, <2>6, <2>7, <2>8 DEF WorldInv, PassInv, Admitting
<1>9. CASE Launch
  <2>1. /\ gpc = "launch" /\ UNCHANGED <<github, launching, ledger>>
        /\ \/ local' = Launched(Target, j, "running")
           \/ local' = [local EXCEPT ![Target] = Swept(Target, {})]
    BY <1>9 DEF Launch, j
  <2>2. /\ j \in Job /\ Target \in Host /\ phase[j] = "registered" /\ posts[j] = 1 /\ home[j] = Target
    BY <1>A, <1>a, <2>1 DEF Admitting
  <2>3. \A h \in Host, k \in Job :
          /\ local'[h][k] # "absent" => local[h][k] # "absent" \/ (h = Target /\ k = j)
          /\ local'[h][k] = "running" => local[h][k] = "running" \/ (h = Target /\ k = j)
    BY <1>b, <2>1, <2>2, SweptPhases DEF Launched, TypeOK, HostsOK
  <2>4. WorkerAccounted'
    <3>a. ASSUME NEW g \in Host, NEW k \in Job, local'[g][k] # "absent"
          PROVE  home[k] = g /\ posts[k] = 1 /\ phase[k] \notin {"none", "registering"}
      <4>1. CASE local[g][k] # "absent"
        BY <4>1 DEF WorldInv, WorkerAccounted
      <4>2. CASE local[g][k] = "absent"
        BY <2>1, <2>2, <2>3, <3>a, <4>2
      <4> QED
        BY <4>1, <4>2
    <3>b. ASSUME NEW g \in Host, NEW k \in Job, local'[g][k] = "running"
          PROVE  phase[k] \in Open \/ <<g, k>> \in launching
      BY <2>1, <2>2, <2>3, <3>b DEF WorldInv, WorkerAccounted, Open
    <3> QED
      BY <2>1, <3>a, <3>b DEF WorkerAccounted, github, ledger
  <2>5. WorldInv'
    BY <2>1, <2>4 DEF WorldInv, PostsInv, LeaseInv, LaunchInv, OnlyLatePostsLeak,
          OneRunnerPerLabel, github, ledger, Open
  <2>6. CASE GiveUp
    BY <2>5, <2>6, LeavesPass
  <2>7. CASE ~GiveUp
    <3>1. gpc' = "confirm" /\ UNCHANGED <<live, todo>>
      BY <1>9, <2>7 DEF Launch
    <3>2. AdmitInv'
      BY <1>A, <1>d, <1>e, <2>1, <2>2, <3>1 DEF AdmitInv, Admitting, ledger, github, j
    <3> QED
      BY <1>c, <2>5, <3>1, <3>2 DEF PassInv, Admitting
  <2> QED
    BY <2>6, <2>7
<1>10. CASE ConfirmLaunch
  <2>1. /\ gpc = "confirm" /\ UNCHANGED <<github, hosts, home>> /\ phase' = [phase EXCEPT ![j] = "running"]
        /\ GiveUp
    BY <1>10 DEF ConfirmLaunch, j
  <2>2. j \in Job /\ phase[j] = "registered"
    BY <1>A, <1>a, <2>1 DEF Admitting
  <2>3. phase'[j] = "running" /\ \A k \in Job \ {j} : phase'[k] = phase[k]
    BY <2>1, <2>2 DEF TypeOK, LedgerOK
  <2>4. PostsInv'
    BY <2>1, <2>2, <2>3 DEF PostsInv, github
  <2>5. LeaseInv' /\ OneRunnerPerLabel'
    BY <2>1 DEF WorldInv, LeaseInv, OneRunnerPerLabel, github
  <2>6. OnlyLatePostsLeak'
    BY <2>1, <2>2, <2>3 DEF WorldInv, OnlyLatePostsLeak, github, Open
  <2>7. LaunchInv' /\ WorkerAccounted'
    <3>1. LaunchInv'
      BY <2>1, <2>2, <2>3 DEF WorldInv, LaunchInv, github, hosts
    <3>2. \A k \in Job : phase[k] \in Open => phase'[k] \in Open
      BY <2>3 DEF Open
    <3>3. WorkerAccounted'
      BY <2>1, <2>2, <2>3, <3>2 DEF WorldInv, WorkerAccounted, github, hosts
    <3> QED
      BY <3>1, <3>3
  <2> QED
    BY <2>1, <2>4, <2>5, <2>6, <2>7, LeavesPass DEF WorldInv
<1> QED
  BY <1>1, <1>3, <1>4, <1>5, <1>6, <1>7, <1>8, <1>9, <1>10 DEF Admission

LEMMA FailureStep == IInv /\ Failure => WorldInv' /\ PassInv'
<1> DEFINE j == First(todo)
<1> SUFFICES ASSUME IInv, Failure PROVE WorldInv' /\ PassInv'
  OBVIOUS
<1>0. TypeOK /\ SettleInv /\ AdmitInv /\ WorldInv /\ PostsInv
  BY DEF IInv, WorldInv
<1>a. gpc \in Admitting => j \in todo /\ j \in Job /\ Target \in Host
  BY <1>0, AdmittedJob
<1>b. \A h \in Host : local[h] \in [Job -> LocalPhase]
  BY <1>0 DEF TypeOK, HostsOK
<1> USE <1>0
<1>1. CASE Abort \/ PrepareFails
  BY <1>1, FrameWorld, LeavesPass DEF Abort, PrepareFails
<1>2. CASE DeleteAnswerLost
  <2>1. /\ UNCHANGED <<status, label, runner, posts, posting, late, hosts, ledger>>
        /\ reg[j] = "idle" /\ reg' = [reg EXCEPT ![j] = "none"] /\ Forget
    BY <1>2 DEF DeleteAnswerLost
  <2>2. \A k \in Job : (reg'[k] = reg[k] /\ k # j) \/ (reg'[k] = "none" /\ k = j)
    BY <2>1 DEF TypeOK, GithubOK
  <2>3. PostsInv'
    BY <2>1, <2>2 DEF PostsInv, ledger
  <2>4. LeaseInv'
    BY <2>1, <2>2 DEF WorldInv, LeaseInv
  <2>5. OneRunnerPerLabel' /\ OnlyLatePostsLeak'
    BY <2>1, <2>2 DEF WorldInv, OneRunnerPerLabel, OnlyLatePostsLeak, ledger, Open
  <2>6. LaunchInv' /\ WorkerAccounted'
    BY <2>1 DEF WorldInv, LaunchInv, WorkerAccounted, hosts, ledger
  <2> QED
    BY <2>1, <2>3, <2>4, <2>5, <2>6, LeavesPass DEF WorldInv
<1>3. CASE PostFails
  <2>1. /\ gpc = "post" /\ GiveUp /\ UNCHANGED <<status, label, runner, late, hosts, ledger>>
        /\ \/ UNCHANGED <<reg, posts, posting>>
           \/ Registered(j) /\ UNCHANGED posting
           \/ posting' = posting \cup {j} /\ UNCHANGED <<reg, posts>>
    BY <1>3 DEF PostFails
  <2>2. /\ j \in Job /\ phase[j] = "registering" /\ posts[j] = 0 /\ reg[j] = "none" /\ j \notin posting
        /\ \A k \in Job \ late : label[k] = label[j] => reg[k] = "none"
    BY <1>a, <2>1 DEF AdmitInv, Admitting, PostsInv
  <2>3. CASE UNCHANGED <<reg, posts, posting>>
    BY <2>1, <2>3, FrameWorld, LeavesPass DEF github
  <2>4. CASE Registered(j) /\ UNCHANGED posting
    <3>1. /\ reg'[j] = "idle" /\ \A k \in Job \ {j} : reg'[k] = reg[k]
          /\ posts'[j] = 1 /\ \A k \in Job \ {j} : posts'[k] = posts[k]
      BY <2>2, <2>4 DEF Registered, TypeOK, GithubOK
    <3>2. PostsInv'
      BY <2>1, <2>2, <2>4, <3>1 DEF PostsInv, ledger
    <3>3. LeaseInv'
      BY <2>1, <2>2, <3>1 DEF WorldInv, LeaseInv
    <3>4. OneRunnerPerLabel'
      BY <2>1, <2>2, <3>1 DEF WorldInv, OneRunnerPerLabel
    <3>5. OnlyLatePostsLeak'
      BY <2>1, <2>2, <3>1 DEF WorldInv, OnlyLatePostsLeak, ledger, Open
    <3>6. LaunchInv' /\ WorkerAccounted'
      BY <2>1, <2>2, <3>1 DEF WorldInv, LaunchInv, WorkerAccounted, hosts, ledger
    <3> QED
      BY <2>1, <3>2, <3>3, <3>4, <3>5, <3>6, LeavesPass DEF WorldInv
  <2>5. CASE posting' = posting \cup {j} /\ UNCHANGED <<reg, posts>>
    <3>1. PostsInv'
      BY <2>1, <2>2, <2>5 DEF PostsInv, ledger
    <3>2. LeaseInv' /\ OneRunnerPerLabel'
      BY <2>1, <2>5 DEF WorldInv, LeaseInv, OneRunnerPerLabel
    <3>3. OnlyLatePostsLeak' /\ LaunchInv' /\ WorkerAccounted'
      BY <2>1, <2>5 DEF WorldInv, OnlyLatePostsLeak, LaunchInv, WorkerAccounted, hosts, ledger, Open
    <3> QED
      BY <2>1, <3>1, <3>2, <3>3, LeavesPass DEF WorldInv
  <2> QED
    BY <2>1, <2>3, <2>4, <2>5
<1>4. CASE LaunchFails
  <2>1. /\ gpc = "launch" /\ GiveUp /\ UNCHANGED <<github, ledger>>
        /\ \/ UNCHANGED hosts
           \/ /\ \E r \in {"running", "dead"} : local' = Launched(Target, j, r)
              /\ UNCHANGED launching
           \/ launching' = launching \cup {<<Target, j>>} /\ UNCHANGED local
    BY <1>4 DEF LaunchFails
  <2>2. /\ j \in Job /\ Target \in Host /\ phase[j] = "registered" /\ posts[j] = 1 /\ home[j] = Target
    BY <1>a, <2>1 DEF AdmitInv, Admitting
  <2>3. CASE UNCHANGED hosts
    BY <2>1, <2>3, FrameWorld, LeavesPass
  <2>4. PostsInv' /\ LeaseInv' /\ OneRunnerPerLabel' /\ OnlyLatePostsLeak'
    BY <2>1 DEF WorldInv, PostsInv, LeaseInv, OneRunnerPerLabel, OnlyLatePostsLeak, github, ledger, Open
  <2>5. CASE (\E r \in {"running", "dead"} : local' = Launched(Target, j, r)) /\ UNCHANGED launching
    <3>1. \A h \in Host, k \in Job :
            /\ local'[h][k] # "absent" => local[h][k] # "absent" \/ (h = Target /\ k = j)
            /\ local'[h][k] = "running" => local[h][k] = "running" \/ (h = Target /\ k = j)
      BY <1>b, <2>2, <2>5, SweptPhases DEF Launched, TypeOK, HostsOK
    <3>2. WorkerAccounted'
      <4>a. ASSUME NEW h \in Host, NEW k \in Job, local'[h][k] # "absent"
            PROVE  home[k] = h /\ posts[k] = 1 /\ phase[k] \notin {"none", "registering"}
        <5>1. CASE local[h][k] # "absent"
          BY <5>1 DEF WorldInv, WorkerAccounted
        <5>2. CASE local[h][k] = "absent"
          BY <2>1, <2>2, <3>1, <4>a, <5>2
        <5> QED
          BY <5>1, <5>2
      <4>b. ASSUME NEW h \in Host, NEW k \in Job, local'[h][k] = "running"
            PROVE  phase[k] \in Open \/ <<h, k>> \in launching
        BY <2>1, <2>2, <3>1, <4>b DEF WorldInv, WorkerAccounted, Open
      <4> QED
        BY <2>1, <2>5, <4>a, <4>b DEF WorkerAccounted, github, ledger
    <3>3. LaunchInv'
      BY <2>1, <2>5 DEF WorldInv, LaunchInv, github, ledger
    <3> QED
      BY <2>1, <2>4, <3>2, <3>3, LeavesPass DEF WorldInv
  <2>6. CASE launching' = launching \cup {<<Target, j>>} /\ UNCHANGED local
    <3>1. WorkerAccounted'
      BY <2>1, <2>6 DEF WorldInv, WorkerAccounted, github, ledger
    <3>2. LaunchInv'
      BY <2>1, <2>2, <2>6 DEF WorldInv, LaunchInv, github, ledger
    <3> QED
      BY <2>1, <2>4, <3>1, <3>2, LeavesPass DEF WorldInv
  <2> QED
    BY <2>1, <2>3, <2>5, <2>6
<1> QED
  BY <1>1, <1>2, <1>3, <1>4 DEF Failure

(* What GitHub does to a registration behind the pass's back: nothing that *)
(* makes one appear, unless it is late.                                    *)
LEMMA FramePass ==
  ASSUME IInv, UNCHANGED <<posts, posting, label, late, pass>>,
         \A k \in Job \ late : reg[k] = "none" => reg'[k] = "none"
  PROVE  PassInv'
<1>1. /\ UNCHANGED <<phase, home, gpc, live, runners, todo>> /\ Visited' = Visited
      /\ FreeHosts' = FreeHosts /\ Target' = Target /\ First(todo)' = First(todo)
  BY DEF pass, ledger, memory, Visited, Open, FreeHosts, Target, First
<1>2. SettleInv'
  <2>1. todo \subseteq Job
    BY DEF IInv, TypeOK, PassOK
  <2> QED
    BY <1>1, <2>1 DEF IInv, SettleInv, Settling
<1>3. AdmitInv'
  BY <1>1 DEF IInv, AdmitInv, Admitting, Unadmitted
<1> QED
  BY <1>2, <1>3 DEF PassInv

LEMMA EnvironmentStep == IInv /\ Environment => WorldInv' /\ PassInv'
<1> SUFFICES ASSUME IInv, Environment PROVE WorldInv' /\ PassInv'
  OBVIOUS
<1>0. TypeOK /\ SettleInv /\ AdmitInv /\ WorldInv /\ PostsInv /\ LeaseInv
  BY DEF IInv, WorldInv
<1>b. \A h \in Host : local[h] \in [Job -> LocalPhase]
  BY <1>0 DEF TypeOK, HostsOK
<1>c. UNCHANGED <<posts, posting, label, reg, late, pass>> => PassInv'
  BY FramePass
<1>d. UNCHANGED pass => UNCHANGED ledger
  BY DEF pass
<1> USE <1>0, <1>d
<1>1. ASSUME NEW j \in Job, JobQueued(j) \/ JobCancelled(j) PROVE WorldInv' /\ PassInv'
  <2>1. /\ UNCHANGED <<label, runner, reg, posts, posting, late, hosts, pass>>
        /\ \A k \in Job : status'[k] = "in_progress" => status[k] = "in_progress"
    BY <1>1 DEF JobQueued, JobCancelled, TypeOK, GithubOK
  <2>2. LeaseInv'
    BY <2>1 DEF LeaseInv
  <2>3. PostsInv' /\ OneRunnerPerLabel' /\ OnlyLatePostsLeak' /\ LaunchInv' /\ WorkerAccounted'
    BY <2>1 DEF WorldInv, PostsInv, OneRunnerPerLabel, OnlyLatePostsLeak, LaunchInv,
                WorkerAccounted, hosts, ledger, Open
  <2> QED
    BY <1>c, <2>1, <2>2, <2>3 DEF WorldInv
<1>2. ASSUME NEW j \in Job, PostLands(j) PROVE WorldInv' /\ PassInv'
  <2>1. /\ UNCHANGED <<status, label, runner, hosts, pass>>
        /\ posting' = posting \ {j} /\ late' = late \cup {j} /\ j \in posting
        /\ posts[j] = 0 /\ reg[j] = "none" /\ phase[j] # "none"
    BY <1>2 DEF PostLands, PostsInv
  <2>2. /\ reg'[j] = "idle" /\ \A k \in Job \ {j} : reg'[k] = reg[k]
        /\ posts'[j] = 1 /\ \A k \in Job \ {j} : posts'[k] = posts[k]
    BY <1>2, <2>1 DEF PostLands, Registered, TypeOK, GithubOK
  <2>3. PostsInv'
    BY <2>1, <2>2 DEF PostsInv, ledger
  <2>4. LeaseInv'
    BY <2>1, <2>2 DEF LeaseInv
  <2>5. OneRunnerPerLabel' /\ OnlyLatePostsLeak'
    BY <2>1, <2>2 DEF WorldInv, OneRunnerPerLabel, OnlyLatePostsLeak, ledger, Open
  <2>6. LaunchInv' /\ WorkerAccounted'
    BY <2>1, <2>2 DEF WorldInv, LaunchInv, WorkerAccounted, hosts, ledger
  <2>7. /\ UNCHANGED <<phase, home, gpc, live, runners, todo>> /\ Visited' = Visited
        /\ FreeHosts' = FreeHosts /\ Target' = Target /\ First(todo)' = First(todo)
    BY <2>1 DEF pass, ledger, memory, Visited, Open, FreeHosts, Target, First
  <2>8. SettleInv'
    <3>1. todo \subseteq Job
      BY DEF TypeOK, PassOK
    <3> QED
      BY <2>1, <2>2, <2>7, <3>1 DEF SettleInv, Settling
  <2>9. AdmitInv'
    <3>1. gpc \in Admitting => First(todo) \in Job
      BY AdmittedJob
    <3> QED
      BY <2>1, <2>2, <2>7, <3>1 DEF AdmitInv, Admitting, Unadmitted
  <2> QED
    BY <2>3, <2>4, <2>5, <2>6, <2>8, <2>9 DEF WorldInv, PassInv
<1>3. ASSUME NEW j \in Job, NEW k \in Job, JobAssigned(k, j) PROVE WorldInv' /\ PassInv'
  <2>1. /\ UNCHANGED <<label, posts, posting, late, hosts, pass>> /\ reg[k] = "idle"
        /\ status[j] = "queued" /\ status'[j] = "in_progress" /\ runner'[j] = k /\ reg'[k] = "busy"
        /\ \A i \in Job \ {j} : status'[i] = status[i] /\ runner'[i] = runner[i]
        /\ \A i \in Job \ {k} : reg'[i] = reg[i]
    BY <1>3 DEF JobAssigned, TypeOK, GithubOK
  <2>2. LeaseInv'
    <3>1. \A i \in Job \ {j} : status[i] = "in_progress" => runner[i] \in Job \ {k} /\ reg[runner[i]] = "busy"
      BY <2>1 DEF LeaseInv
    <3>2. ASSUME NEW i \in Job, status'[i] = "in_progress", i # j
          PROVE  /\ runner'[i] \in Job \ {k} /\ reg'[runner'[i]] = "busy"
                 /\ \A m \in Job : status'[m] = "in_progress" /\ runner'[m] = runner'[i] => m = i
      <4>1. status[i] = "in_progress" /\ runner'[i] = runner[i]
        BY <2>1, <3>2
      <4>2. runner[i] \in Job \ {k} /\ reg'[runner[i]] = "busy"
        BY <2>1, <3>1, <3>2, <4>1
      <4>3. ASSUME NEW m \in Job, status'[m] = "in_progress", runner'[m] = runner'[i] PROVE m = i
        <5>1. m # j
          BY <2>1, <4>1, <4>2, <4>3
        <5>2. status[m] = "in_progress" /\ runner[m] = runner[i]
          BY <2>1, <4>1, <4>3, <5>1
        <5> QED
          BY <4>1, <5>2 DEF LeaseInv
      <4> QED
        BY <4>1, <4>2, <4>3
    <3>3. \A m \in Job : status'[m] = "in_progress" /\ runner'[m] = k => m = j
      BY <3>2
    <3> QED
      BY <2>1, <3>2, <3>3 DEF LeaseInv
  <2>3. PostsInv'
    BY <2>1 DEF PostsInv, ledger
  <2>4. OneRunnerPerLabel' /\ OnlyLatePostsLeak'
    BY <2>1 DEF WorldInv, OneRunnerPerLabel, OnlyLatePostsLeak, ledger, Open
  <2>5. LaunchInv' /\ WorkerAccounted'
    BY <2>1 DEF WorldInv, LaunchInv, WorkerAccounted, hosts, ledger
  <2>6. PassInv'
    BY <2>1, FramePass
  <2> QED
    BY <2>2, <2>3, <2>4, <2>5, <2>6 DEF WorldInv
<1>4. ASSUME NEW j \in Job, NEW k \in Job, JobFinishes(k, j) \/ JobLost(k, j) PROVE WorldInv' /\ PassInv'
  <2>1. /\ UNCHANGED <<label, runner, posts, posting, late, launching, pass>>
        /\ status[j] = "in_progress" /\ runner[j] = k /\ status'[j] = "completed" /\ reg'[k] \in {"none", "idle"}
        /\ \A i \in Job \ {j} : status'[i] = status[i]
        /\ \A i \in Job \ {k} : reg'[i] = reg[i]
    BY <1>4 DEF JobFinishes, JobLost, hosts, TypeOK, GithubOK
  <2>2. reg[k] = "busy" /\ \A i \in Job : status[i] = "in_progress" /\ runner[i] = k => i = j
    BY <2>1 DEF LeaseInv
  <2>3. LeaseInv'
    <3>1. \A i \in Job : status'[i] = "in_progress" =>
            i # j /\ status[i] = "in_progress" /\ runner'[i] = runner[i]
      BY <2>1
    <3>2. \A i \in Job : status'[i] = "in_progress" => runner[i] \in Job \ {k}
      BY <2>2, <3>1 DEF LeaseInv
    <3>3. \A i \in Job : status'[i] = "in_progress" => reg'[runner[i]] = "busy"
      BY <2>1, <3>1, <3>2 DEF LeaseInv
    <3> QED
      BY <3>1, <3>2, <3>3 DEF LeaseInv
  <2>4. PostsInv'
    BY <2>1, <2>2 DEF PostsInv, ledger
  <2>5. OneRunnerPerLabel' /\ OnlyLatePostsLeak'
    BY <2>1, <2>2 DEF WorldInv, OneRunnerPerLabel, OnlyLatePostsLeak, ledger, Open
  <2>6. \A h \in Host, i \in Job :
        /\ local'[h][i] # "absent" => local[h][i] # "absent"
        /\ local'[h][i] = "running" => local[h][i] = "running"
    BY <1>4, <1>b DEF JobFinishes, JobLost, hosts
  <2>7. LaunchInv' /\ WorkerAccounted'
    BY <2>1, <2>6 DEF WorldInv, LaunchInv, WorkerAccounted, ledger
  <2>8. PassInv'
    BY <2>1, <2>2, FramePass
  <2> QED
    BY <2>3, <2>4, <2>5, <2>7, <2>8 DEF WorldInv
<1>5. ASSUME NEW h \in Host, NEW j \in Job, WorkerEnds(h, j) PROVE WorldInv' /\ PassInv'
  <2>1. \A g \in Host, i \in Job :
        /\ local'[g][i] # "absent" => local[g][i] # "absent"
        /\ local'[g][i] = "running" => local[g][i] = "running"
    BY <1>5 DEF WorkerEnds, TypeOK, HostsOK
  <2> QED
    BY <1>5, <1>c, <2>1, FrameHosts DEF WorkerEnds, github
<1>6. ASSUME NEW h \in Host, NEW j \in Job, LateLaunch(h, j) PROVE WorldInv' /\ PassInv'
  <2>1. /\ UNCHANGED <<github, pass>> /\ launching' = launching /\ <<h, j>> \in launching
        /\ home[j] = h /\ posts[j] = 1 /\ phase[j] \notin {"none", "registering"}
    BY <1>6 DEF LateLaunch, WorldInv, LaunchInv
  <2>2. \A g \in Host, i \in Job :
          /\ local'[g][i] # "absent" => local[g][i] # "absent" \/ (g = h /\ i = j)
          /\ local'[g][i] = "running" => local[g][i] = "running" \/ (g = h /\ i = j)
    BY <1>6, <1>b, SweptPhases DEF LateLaunch, Launched, TypeOK, HostsOK
  <2>3. LaunchInv'
    BY <2>1 DEF WorldInv, LaunchInv, github, ledger
  <2>4. WorkerAccounted'
    <3>a. ASSUME NEW g \in Host, NEW k \in Job, local'[g][k] # "absent"
          PROVE  home[k] = g /\ posts[k] = 1 /\ phase[k] \notin {"none", "registering"}
      <4>1. CASE local[g][k] # "absent"
        BY <4>1 DEF WorldInv, WorkerAccounted
      <4>2. CASE local[g][k] = "absent"
        BY <2>1, <2>2, <3>a, <4>2
      <4> QED
        BY <4>1, <4>2
    <3>b. ASSUME NEW g \in Host, NEW k \in Job, local'[g][k] = "running"
          PROVE  phase[k] \in Open \/ <<g, k>> \in launching
      BY <2>1, <2>2, <3>b DEF WorldInv, WorkerAccounted, Open
    <3> QED
      BY <2>1, <3>a, <3>b DEF WorkerAccounted, github, ledger
  <2>5. PostsInv' /\ LeaseInv' /\ OneRunnerPerLabel' /\ OnlyLatePostsLeak'
    BY <2>1 DEF WorldInv, PostsInv, LeaseInv, OneRunnerPerLabel, OnlyLatePostsLeak, github, ledger, Open
  <2> QED
    BY <1>c, <2>1, <2>3, <2>4, <2>5 DEF WorldInv, github
<1>7. ASSUME NEW h \in Host, HostTimer(h) PROVE WorldInv' /\ PassInv'
  <2>1. \A g \in Host, i \in Job :
        /\ local'[g][i] # "absent" => local[g][i] # "absent"
        /\ local'[g][i] = "running" => local[g][i] = "running"
    BY <1>7, <1>b, SweptPhases DEF HostTimer, TypeOK, HostsOK
  <2> QED
    BY <1>7, <1>c, <2>1, FrameHosts DEF HostTimer, github
<1> QED
  BY <1>1, <1>2, <1>3, <1>4, <1>5, <1>6, <1>7 DEF Environment

(* What a pass has seen of the hosts it reached stays true of the workers  *)
(* it saw none of, whatever becomes of the others.                         *)
LEMMA FrameSight ==
  ASSUME SightInv, UNCHANGED <<gpc, live, seen, home, todo>>,
         \A h \in Host, j \in Job : local'[h][j] = "running" =>
           local[h][j] = "running" \/ <<h, j>> \in launching',
         launching \subseteq launching'
  PROVE  SightInv'
<1>1. First(todo)' = First(todo)
  BY DEF First
<1>2. Ended(First(todo))' = Ended(First(todo))
  BY <1>1 DEF Ended
<1> QED
  BY <1>2 DEF SightInv, Settling

LEMMA SettleSight == IInv /\ Settle => SightInv'
<1> SUFFICES ASSUME IInv, Settle PROVE SightInv'
  OBVIOUS
<1>0. TypeOK /\ SettleInv /\ SightInv
  BY DEF IInv
<1> USE <1>0 DEF Settling
<1>1. ASSUME gpc \in Settling, UNCHANGED <<live, seen, home, local, launching>>, todo' \subseteq todo,
             gpc' \in {"record", "sweep", "settle"}
      PROVE  SightInv'
  BY <1>1 DEF SightInv
<1>2. ASSUME gpc \in Settling, UNCHANGED <<live, seen, home, local, launching, todo>>,
             Ended(First(todo))
      PROVE  SightInv'
  <2>1. Ended(First(todo))'
    BY <1>2 DEF Ended, First
  <2> QED
    BY <1>2, <2>1 DEF SightInv
<1>3. CASE gpc' = "idle"
  BY <1>3 DEF SightInv
<1>4. CASE ListRunners
  <2>1. /\ UNCHANGED <<live, seen, home, local, launching>> /\ gpc = "list" /\ gpc' = "record"
        /\ \A j \in todo' : live[home[j]] # "down"
    BY <1>4 DEF ListRunners, Reached, hosts, ledger
  <2> QED
    BY <2>1 DEF SightInv
<1>5. CASE ReadJob \/ KeepRecord \/ KeepTombstone \/ CloseRecord
  BY <1>1, <1>5 DEF ReadJob, KeepRecord, KeepTombstone, CloseRecord, NextRecord, hosts, ledger
<1>6. CASE SweepHost
  <2> DEFINE g == home[First(todo)]
  <2>1. /\ g \in Host /\ gpc = "sweep" /\ gpc' = "settle" /\ UNCHANGED <<launching, home, todo>>
        /\ seen' = [seen EXCEPT ![g] = local'[g]]
        /\ local' = [local EXCEPT ![g] = Swept(g, {First(todo)})]
        /\ \E v \in {"free", "full"} : live' = [live EXCEPT ![g] = v]
    <3>1. gpc = "sweep" /\ PostsInv
      BY <1>6 DEF SweepHost, IInv
    <3>2. g \in Host
      BY <3>1, SettledJob DEF SettleInv
    <3> QED
      BY <1>6, <3>1, <3>2 DEF SweepHost, ledger
  <2> HIDE DEF g
  <2>2. \A h \in Host \ {g} : local'[h] = local[h] /\ seen'[h] = seen[h] /\ live'[h] = live[h]
    BY <2>1 DEF TypeOK, HostsOK, PassOK
  <2>3. seen'[g] = local'[g] /\ live'[g] # "down"
    BY <2>1 DEF TypeOK, HostsOK, PassOK
  <2>4. \A j \in todo : live[home[j]] # "down" /\ home[j] \in Host
    BY <2>1 DEF IInv, SightInv, SettleInv, PostsInv, Visited, Open, TypeOK, PassOK
  <2> QED
    BY <2>1, <2>2, <2>3, <2>4 DEF SightInv
<1>7. CASE RecheckRunner
  BY <1>2, <1>3, <1>7 DEF RecheckRunner, Forget, hosts, ledger, memory
<1>8. CASE DeleteRunner
  BY <1>2, <1>3, <1>8 DEF DeleteRunner, Forget, hosts, ledger, SightInv
<1> QED
  BY <1>4, <1>5, <1>6, <1>7, <1>8 DEF Settle

LEMMA SightStep == IInv /\ Next => SightInv'
<1> SUFFICES ASSUME IInv, Next PROVE SightInv'
  OBVIOUS
<1>0. TypeOK /\ SightInv
  BY DEF IInv
<1>b. \A h \in Host : local[h] \in [Job -> LocalPhase]
  BY <1>0 DEF TypeOK, HostsOK
<1>1. CASE ReadHosts
  <2>1. gpc' = "list" /\ \A h \in Host : live'[h] # "down" => seen'[h] = local'[h]
    BY <1>1 DEF ReadHosts
  <2> QED
    BY <2>1 DEF SightInv, Settling
<1>2. CASE Settle
  BY <1>2, SettleSight
<1>3. CASE Admission \/ Failure
  <2>1. gpc' \notin Settling \cup {"list"}
    BY <1>3 DEF Admission, Failure, Discover, SkipJob, Unproven, ChooseHost, Prepare, Recheck, Disproven,
                JournalJob, Post, SaveRegistered, Launch, ConfirmLaunch, EndPass, Abort, DeleteAnswerLost,
                PrepareFails, PostFails, LaunchFails, GiveUp, NextJob, Forget, Settling
  <2> QED
    BY <2>1 DEF SightInv, Settling
<1>4. CASE Environment
  <2>1. UNCHANGED <<pass, launching>>
    BY <1>4 DEF Environment, JobQueued, JobCancelled, PostLands, JobAssigned, JobFinishes, JobLost,
                WorkerEnds, LateLaunch, HostTimer, hosts
  <2>2. ASSUME NEW h \in Host, NEW j \in Job, local'[h][j] = "running"
        PROVE  local[h][j] = "running" \/ <<h, j>> \in launching
    <3>1. CASE UNCHANGED local
      BY <2>2, <3>1
    <3>2. CASE \E i, k \in Job : JobFinishes(k, i)
      BY <1>b, <2>2, <3>2 DEF JobFinishes
    <3>3. CASE \E g \in Host, i \in Job : WorkerEnds(g, i)
      BY <1>0, <1>b, <2>2, <3>3 DEF WorkerEnds, TypeOK, HostsOK
    <3>4. CASE \E g \in Host, i \in Job : LateLaunch(g, i)
      BY <1>0, <1>b, <2>2, <3>4, SweptPhases DEF LateLaunch, Launched, TypeOK, HostsOK
    <3>5. CASE \E g \in Host : HostTimer(g)
      BY <1>0, <1>b, <2>2, <3>5, SweptPhases DEF HostTimer, TypeOK, HostsOK
    <3>6. CASE \E i, k \in Job : JobQueued(i) \/ JobCancelled(i) \/ PostLands(i)
                               \/ JobAssigned(k, i) \/ JobLost(k, i)
      BY <3>1, <3>6 DEF JobQueued, JobCancelled, PostLands, JobAssigned, JobLost, hosts
    <3> QED
      BY <1>4, <3>2, <3>3, <3>4, <3>5, <3>6 DEF Environment
  <2> QED
    BY <1>0, <2>1, <2>2, FrameSight DEF pass, ledger, memory
<1> QED
  BY <1>1, <1>2, <1>3, <1>4 DEF Next

LEMMA Invariance == Spec => []IInv
<1>1. IInv /\ [Next]_vars => IInv'
  <2> SUFFICES ASSUME IInv, [Next]_vars PROVE IInv'
    OBVIOUS
  <2>1. TypeOK /\ WorldInv /\ PassInv /\ SightInv
    BY DEF IInv, WorldInv, PassInv
  <2>2. CASE UNCHANGED vars
    <3>1. TypeOK'
      BY <2>1, <2>2, FrameType DEF vars, TypeOK
    <3>2. PassInv'
      BY <2>2, FramePass DEF vars, github, pass
    <3>3. SightInv'
      BY <2>1, <2>2, FrameSight DEF vars, hosts, ledger, memory
    <3> QED
      BY <2>1, <2>2, <3>1, <3>2, <3>3, FrameWorld DEF vars, IInv, WorldInv, PassInv, PostsInv, OneRegistrationPerJob
  <2>3. CASE Next
    BY <2>3, SettleType, AdmissionType, FailureType, EnvironmentType,
       SettleStep, AdmissionStep, FailureStep, EnvironmentStep, SightStep
    DEF Next, IInv, WorldInv, PassInv, PostsInv, OneRegistrationPerJob
  <2> QED
    BY <2>2, <2>3
<1> QED
  BY InitIInv, <1>1, PTL DEF Spec
-----------------------------------------------------------------------------
(* The theorems.                                                           *)

(* Type correctness: the Gateway's ledger, the memory of its pass and what *)
(* it sees of hosts and registrations keep their domains through aborted   *)
(* passes and late effects.                                                *)
THEOREM TypeCorrect == Spec => []TypeOK
  BY Invariance, PTL DEF IInv

(* allocate journals a job before it POSTs and never admits one that is in *)
(* the ledger, so no job gets a second single-use registration, however    *)
(* many passes die around the POST.                                        *)
THEOREM JobsRegisteredOnce == Spec => []OneRegistrationPerJob
  BY Invariance, PTL DEF IInv

(* reconcile closes a record only when its registration is gone: whatever  *)
(* is in the group is visited by a later pass, but for POSTs that took     *)
(* effect after a pass had found nothing.                                  *)
THEOREM RegistrationsAreVisited == Spec => []OnlyLatePostsLeak
  BY Invariance, PTL DEF IInv

(* allocate POSTs a label only if the registrations it read after the pull *)
(* carry none of it: two registrations never share one, with the same      *)
(* exception.                                                              *)
THEOREM LabelsAreExclusive == Spec => []OneRunnerPerLabel
  BY Invariance, PTL DEF IInv

(* A host holds an allocation only if the ledger placed it there and had   *)
(* its registration, also when the launch outlived the pass that sent it;  *)
(* reconcile closes no record while its worker runs, on a host it did not  *)
(* reach or on another one, but for a launch it had already given up.      *)
THEOREM WorkersArePlaced == Spec => []WorkerAccounted
  BY Invariance, PTL DEF IInv
=============================================================================
