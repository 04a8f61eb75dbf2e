----------------------------- MODULE SharedSlot -----------------------------
(***************************************************************************)
(* The host that runs candidate workers and release workers, each kind     *)
(* admitted by a program of its own: scripts/candidate_pool_host.py and    *)
(* scripts/release_gateway_host.py have a lock, a journal and containers   *)
(* apart, and look at each other's containers only before they admit.      *)
(*                                                                         *)
(* What keeps the two admissions apart in time is not on the host.  It is  *)
(* the candidate controller.lock on the Gateway, which a pass of either    *)
(* allocator holds while it waits for its host over SSH.  SSH may be lost; *)
(* the process on the host then goes on by itself.                         *)
(*                                                                         *)
(* CandidateHost and ReleaseRunner have the inside of the two admissions;  *)
(* here each is its check, its start of a worker and its end.              *)
(***************************************************************************)
EXTENDS Naturals, FiniteSets

CONSTANTS Order,      \* launches ordered, of both kinds; each is tried once
          KindOf,     \* "candidate" or "release"
          NoOrder

Kind == {"candidate", "release"}

ASSUME OrderAssumption == KindOf \in [Order -> Kind] /\ NoOrder \notin Order

VARIABLES
  gate,     \* who holds the candidate controller.lock on the Gateway
  pass,     \* a pass of each allocator: "idle", "waiting", "holding", "ordered"
  order,    \* the launch it waits for
  sent,     \* orders sent and not yet read by their host process
  server,   \* the host process that holds the kind's host lock
  step,     \* how far it is: "read", "free" (the host was), "ready"
  lost,     \* has a pass ever ended before its host process?
  fate      \* of each order: "new", "sent", "worker", "over"

gateway == <<gate, pass, order>>
host    == <<sent, server, step>>
vars    == <<gateway, host, lost, fate>>

Workers(k) == {o \in Order : KindOf[o] = k /\ fate[o] = "worker"}

Init ==
  /\ gate = "none" /\ pass = [k \in Kind |-> "idle"]
  /\ order = [k \in Kind |-> NoOrder]
  /\ sent = {} /\ server = [k \in Kind |-> NoOrder]
  /\ step = [k \in Kind |-> "read"] /\ lost = FALSE
  /\ fate = [o \in Order |-> "new"]

-----------------------------------------------------------------------------
(* The passes on the Gateway.                                              *)

(* Only one pass of an allocator at a time.  The candidate pass ends at    *)
(* once if the lock is taken; the release pass waits for it.               *)
Start(k) ==
  /\ pass[k] = "idle"
  /\ IF gate = "none"
       THEN gate' = k /\ pass' = [pass EXCEPT ![k] = "holding"]
       ELSE /\ k = "release"
            /\ pass' = [pass EXCEPT ![k] = "waiting"] /\ UNCHANGED gate
  /\ UNCHANGED <<order, host, fate, lost>>

(* admission_lock: the lock is free at one of its tries,                   *)
Acquire ==
  /\ pass["release"] = "waiting" /\ gate = "none"
  /\ gate' = "release" /\ pass' = [pass EXCEPT !["release"] = "holding"]
  /\ UNCHANGED <<order, host, fate, lost>>

(* Mutant: the pass that gave up is not over.                              *)
Ended_Locked == "locked"

Ended == "idle"

(* or at none of them for 40 s.                                            *)
WaitExpires ==
  /\ pass["release"] = "waiting" /\ gate # "none"
  /\ pass' = [pass EXCEPT !["release"] = Ended]
  /\ UNCHANGED <<gate, order, host, fate, lost>>

(* The order goes to the host; the pass waits for the answer.              *)
Send(o) ==
  LET k == KindOf[o] IN
  /\ pass[k] = "holding" /\ fate[o] = "new"
  /\ pass' = [pass EXCEPT ![k] = "ordered"] /\ order' = [order EXCEPT ![k] = o]
  /\ sent' = sent \cup {o} /\ fate' = [fate EXCEPT ![o] = "sent"]
  /\ UNCHANGED <<gate, server, step, lost>>

Return(k) ==
  /\ gate' = "none" /\ pass' = [pass EXCEPT ![k] = "idle"]
  /\ order' = [order EXCEPT ![k] = NoOrder]

(* The host has answered: its process has ended.                           *)
Answered(k) ==
  /\ pass[k] = "ordered" /\ order[k] \notin sent \cup {server[k]}
  /\ Return(k)
  /\ UNCHANGED <<host, fate, lost>>

(* Nothing to order.                                                       *)
Finish(k) ==
  /\ pass[k] = "holding"
  /\ Return(k)
  /\ UNCHANGED <<host, fate, lost>>

(* SSH is lost or times out, or the pass dies: its lock is released.       *)
Lose(k) ==
  /\ pass[k] = "ordered"
  /\ Return(k) /\ lost' = TRUE
  /\ UNCHANGED <<host, fate>>

-----------------------------------------------------------------------------
(* The processes on the host.                                              *)

(* The kind's host lock is free: the process has read its order.           *)
Serve(o) ==
  LET k == KindOf[o] IN
  /\ o \in sent /\ server[k] = NoOrder
  /\ sent' = sent \ {o} /\ server' = [server EXCEPT ![k] = o]
  /\ UNCHANGED <<gateway, step, fate, lost>>

(* The release host does not wait for its lock, which its cleanup timer    *)
(* may hold; and an order may be cut off with the connection.              *)
Drop(o) ==
  /\ o \in sent
  /\ lost \/ KindOf[o] = "release"
  /\ sent' = sent \ {o} /\ fate' = [fate EXCEPT ![o] = "over"]
  /\ UNCHANGED <<gateway, server, step, lost>>

(* Mutant: the release host does not look for candidates.                  *)
Free_OneSided == Workers("release") = {}

(* Mutant: off by one in the limit.                                        *)
Free_Two == \A k \in Kind : Cardinality(Workers(k)) <= 1

(* capacity and candidate_active: no container of the other kind exists;   *)
(* the limit of one worker of its own kind is checked with it.             *)
Free == \A k \in Kind : Workers(k) = {}

Check(k) ==
  /\ server[k] # NoOrder /\ step[k] = "read" /\ Free
  /\ step' = [step EXCEPT ![k] = "free"]
  /\ UNCHANGED <<gateway, sent, server, fate, lost>>

(* A candidate order carries its JIT configuration; a release host asks    *)
(* the Gateway for it, through the connection of the pass.                 *)
Prepare(k) ==
  /\ server[k] # NoOrder /\ step[k] = "free"
  /\ k = "release" => pass[k] = "ordered" /\ order[k] = server[k]
  /\ step' = [step EXCEPT ![k] = "ready"]
  /\ UNCHANGED <<gateway, sent, server, fate, lost>>

Exit(k) ==
  /\ server' = [server EXCEPT ![k] = NoOrder]
  /\ step' = [step EXCEPT ![k] = "read"]

(* docker run *)
Launch(k) ==
  /\ server[k] # NoOrder /\ step[k] = "ready"
  /\ fate' = [fate EXCEPT ![server[k]] = "worker"]
  /\ Exit(k)
  /\ UNCHANGED <<gateway, sent, lost>>

(* The host is not free, or anything else fails.                           *)
Refuse(k) ==
  /\ server[k] # NoOrder
  /\ fate' = [fate EXCEPT ![server[k]] = "over"]
  /\ Exit(k)
  /\ UNCHANGED <<gateway, sent, lost>>

(* A worker ends and is cleaned up under the host lock of its kind.        *)
Clean(o) ==
  /\ fate[o] = "worker" /\ server[KindOf[o]] = NoOrder
  /\ fate' = [fate EXCEPT ![o] = "over"]
  /\ UNCHANGED <<gateway, host, lost>>

Next ==
  \/ \E k \in Kind : Start(k) \/ Answered(k) \/ Finish(k) \/ Lose(k)
                     \/ Check(k) \/ Prepare(k) \/ Launch(k) \/ Refuse(k)
  \/ \E o \in Order : Send(o) \/ Serve(o) \/ Drop(o) \/ Clean(o)
  \/ Acquire \/ WaitExpires

Spec == Init /\ [][Next]_vars
-----------------------------------------------------------------------------
TypeOK ==
  /\ gate \in Kind \cup {"none"}
  /\ pass \in [Kind -> {"idle", "waiting", "holding", "ordered"}]
  /\ order \in [Kind -> Order \cup {NoOrder}]
  /\ sent \subseteq Order /\ server \in [Kind -> Order \cup {NoOrder}]
  /\ step \in [Kind -> {"read", "free", "ready"}] /\ lost \in BOOLEAN
  /\ fate \in [Order -> {"new", "sent", "worker", "over"}]

(* However SSH fails, the host locks leave at most one worker of a kind.   *)
OneWorkerPerKind == \A k \in Kind : Cardinality(Workers(k)) <= 1

(* The shared slot: the host never runs a candidate worker beside a        *)
(* release worker.                                                         *)
OneKindAtATime == Workers("candidate") = {} \/ Workers("release") = {}

(* As long as every pass outlives its host process, the Gateway's lock and *)
(* the two checks keep it so.                                              *)
OverlapOnlyAfterLoss == lost \/ OneKindAtATime
=============================================================================
