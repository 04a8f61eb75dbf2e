--------------------------- MODULE SharedSlotProofs --------------------------
(***************************************************************************)
(* Proofs for SharedSlot, for every set of orders.  What one kind promises *)
(* rests on its host lock alone (HostInv).  What keeps the kinds apart is  *)
(* a chain: a host process that has looked is still waited for, so its     *)
(* pass holds the Gateway's lock, so the other kind has no pass, hence no  *)
(* host process that could start a worker (GateInv).                       *)
(***************************************************************************)
EXTENDS SharedSlot, FiniteSetTheorems, TLAPS

Rival(k) == IF k = "release" THEN "candidate" ELSE "release"

(* Orders on their way, and the process of each kind that has looked.      *)
HostInv ==
  /\ \A o \in sent : fate[o] = "sent"
  /\ \A k \in Kind : server[k] # NoOrder =>
       KindOf[server[k]] = k /\ fate[server[k]] = "sent" /\ server[k] \notin sent
  /\ \A k \in Kind : step[k] # "read" => server[k] # NoOrder /\ Workers(k) = {}

AtMostOne == \A k \in Kind : \A a, b \in Workers(k) : a = b

(* What the Gateway's lock means, and what it guards while nothing is lost. *)
GateInv ==
  /\ \A k \in Kind : pass[k] \in {"holding", "ordered"} => gate = k
  /\ \A k \in Kind : ~lost /\ server[k] # NoOrder =>
       pass[k] = "ordered" /\ order[k] = server[k]
  /\ \A o \in sent : ~lost => pass[KindOf[o]] = "ordered" /\ order[KindOf[o]] = o
  /\ \A k \in Kind : ~lost /\ step[k] # "read" => Workers(Rival(k)) = {}
  /\ OverlapOnlyAfterLoss

IInv == TypeOK /\ HostInv /\ AtMostOne /\ GateInv

USE OrderAssumption

-----------------------------------------------------------------------------
LEMMA InitIInv == Init => IInv
<1> SUFFICES ASSUME Init PROVE IInv
  OBVIOUS
<1>1. TypeOK
  BY DEF Init, TypeOK, Kind
<1>2. \A k \in Kind : Workers(k) = {} /\ server[k] = NoOrder /\ step[k] = "read"
  BY DEF Init, Workers
<1>3. HostInv /\ AtMostOne
  BY <1>2 DEF Init, HostInv, AtMostOne
<1>4. GateInv
  BY <1>2 DEF Init, GateInv, OverlapOnlyAfterLoss, OneKindAtATime, Kind
<1> QED
  BY <1>1, <1>3, <1>4 DEF IInv

LEMMA TypeStep == TypeOK /\ [Next]_vars => TypeOK'
<1> SUFFICES ASSUME TypeOK, [Next]_vars PROVE TypeOK'
  OBVIOUS
<1> USE DEF TypeOK, Kind, gateway, host, Return, Exit
<1>1. ASSUME NEW k \in Kind, Start(k) PROVE TypeOK'
  <2>1. gate' \in Kind \cup {"none"} /\ pass' \in [Kind -> {"idle", "waiting", "holding", "ordered"}]
    BY <1>1 DEF Start
  <2> QED
    BY <1>1, <2>1 DEF Start
<1>2. ASSUME NEW k \in Kind, Check(k) \/ Prepare(k) PROVE TypeOK'
  BY <1>2 DEF Check, Prepare
<1>3. ASSUME NEW k \in Kind, Answered(k) \/ Finish(k) \/ Lose(k) PROVE TypeOK'
  <2>1. gate' = "none" /\ pass' \in [Kind -> {"idle", "waiting", "holding", "ordered"}]
    BY <1>3 DEF Answered, Finish, Lose
  <2>2. order' \in [Kind -> Order \cup {NoOrder}]
    BY <1>3 DEF Answered, Finish, Lose
  <2> QED
    BY <1>3, <2>1, <2>2 DEF Answered, Finish, Lose
<1>4. ASSUME NEW k \in Kind, Launch(k) \/ Refuse(k) PROVE TypeOK'
  BY <1>4 DEF Launch, Refuse
<1>5. ASSUME NEW o \in Order, Send(o) PROVE TypeOK'
  BY <1>5 DEF Send
<1>6. ASSUME NEW o \in Order, Serve(o) \/ Drop(o) \/ Clean(o) PROVE TypeOK'
  BY <1>6 DEF Serve, Drop, Clean
<1>7. CASE Acquire \/ WaitExpires
  BY <1>7 DEF Acquire, WaitExpires, Ended
<1>8. CASE UNCHANGED vars
  BY <1>8 DEF vars
<1> QED
  BY <1>1, <1>2, <1>3, <1>4, <1>5, <1>6, <1>7, <1>8 DEF Next

(* The host's own part does not depend on the Gateway.                     *)
LEMMA HostStep ==
  TypeOK /\ HostInv /\ AtMostOne /\ [Next]_vars => HostInv' /\ AtMostOne'
<1> SUFFICES ASSUME TypeOK, HostInv, AtMostOne, [Next]_vars PROVE HostInv' /\ AtMostOne'
  OBVIOUS
<1> USE DEF TypeOK, HostInv, AtMostOne, Workers, Kind, gateway, host, Return, Exit
<1>1. ASSUME NEW k \in Kind, Start(k) \/ Answered(k) \/ Finish(k) \/ Lose(k)
      PROVE HostInv' /\ AtMostOne'
  BY <1>1 DEF Start, Answered, Finish, Lose
<1>2. ASSUME NEW k \in Kind, Check(k) \/ Prepare(k) PROVE HostInv' /\ AtMostOne'
  BY <1>2 DEF Check, Free, Prepare
<1>3. ASSUME NEW k \in Kind, Launch(k) PROVE HostInv' /\ AtMostOne'
  BY <1>3 DEF Launch
<1>4. ASSUME NEW k \in Kind, Refuse(k) PROVE HostInv' /\ AtMostOne'
  BY <1>4 DEF Refuse
<1>5. ASSUME NEW o \in Order, Send(o) PROVE HostInv' /\ AtMostOne'
  BY <1>5 DEF Send
<1>6. ASSUME NEW o \in Order, Serve(o) PROVE HostInv' /\ AtMostOne'
  BY <1>6 DEF Serve
<1>7. ASSUME NEW o \in Order, Drop(o) PROVE HostInv' /\ AtMostOne'
  BY <1>7 DEF Drop
<1>8. ASSUME NEW o \in Order, Clean(o) PROVE HostInv' /\ AtMostOne'
  BY <1>8 DEF Clean
<1>9. CASE Acquire \/ WaitExpires
  BY <1>9 DEF Acquire, WaitExpires, Ended
<1>10. CASE UNCHANGED vars
  BY <1>10 DEF vars
<1> QED
  BY <1>1, <1>2, <1>3, <1>4, <1>5, <1>6, <1>7, <1>8, <1>9, <1>10 DEF Next

LEMMA GateStep == IInv /\ [Next]_vars => GateInv'
<1> SUFFICES ASSUME IInv, [Next]_vars PROVE GateInv'
  OBVIOUS
<1> USE DEF IInv, TypeOK, HostInv, GateInv, OverlapOnlyAfterLoss, OneKindAtATime, Rival,
        Workers, Kind, gateway, host, Return, Exit
<1>1. ASSUME NEW k \in Kind, Start(k) PROVE GateInv'
  BY <1>1 DEF Start
<1>2. ASSUME NEW k \in Kind, Answered(k) PROVE GateInv'
  BY <1>2 DEF Answered
<1>3. ASSUME NEW k \in Kind, Finish(k) \/ Lose(k) PROVE GateInv'
  BY <1>3 DEF Finish, Lose
<1>4. ASSUME NEW k \in Kind, Check(k) \/ Prepare(k) PROVE GateInv'
  BY <1>4 DEF Check, Free, Prepare
<1>5. ASSUME NEW k \in Kind, Launch(k) PROVE GateInv'
  BY <1>5 DEF Launch
<1>6. ASSUME NEW k \in Kind, Refuse(k) PROVE GateInv'
  BY <1>6 DEF Refuse
<1>7. ASSUME NEW o \in Order, Send(o) PROVE GateInv'
  BY <1>7 DEF Send
<1>8. ASSUME NEW o \in Order, Serve(o) PROVE GateInv'
  BY <1>8 DEF Serve
<1>9. ASSUME NEW o \in Order, Drop(o) \/ Clean(o) PROVE GateInv'
  BY <1>9 DEF Drop, Clean
<1>10. CASE Acquire \/ WaitExpires
  BY <1>10 DEF Acquire, WaitExpires, Ended
<1>11. CASE UNCHANGED vars
  BY <1>11 DEF vars
<1> QED
  BY <1>1, <1>2, <1>3, <1>4, <1>5, <1>6, <1>7, <1>8, <1>9, <1>10, <1>11 DEF Next

LEMMA Invariance == Spec => []IInv
  BY InitIInv, TypeStep, HostStep, GateStep, PTL DEF Spec, IInv

LEMMA FewWorkers == ASSUME NEW S, \A a, b \in S : a = b PROVE Cardinality(S) <= 1
<1>1. CASE S = {}
  BY <1>1, FS_EmptySet
<1>2. CASE S # {}
  <2>1. PICK x \in S : S = {x}
    BY <1>2
  <2> QED
    BY <2>1, FS_Singleton
<1> QED
  BY <1>1, <1>2

-----------------------------------------------------------------------------
(* The variables of the shared host keep their types.                      *)
THEOREM TypeCorrect == Spec => []TypeOK
  BY Invariance, PTL DEF IInv

(* Whatever the connections and the passes do, the lock of each host       *)
(* program leaves at most one worker of its kind.                          *)
THEOREM OneWorkerEach == Spec => []OneWorkerPerKind
<1>1. IInv => OneWorkerPerKind
  BY FewWorkers DEF IInv, AtMostOne, OneWorkerPerKind
<1> QED
  BY <1>1, Invariance, PTL

(* A candidate worker and a release worker only ever meet on the host      *)
(* after a pass has ended before the host process it had started.          *)
THEOREM KindsExclusive == Spec => []OverlapOnlyAfterLoss
  BY Invariance, PTL DEF IInv, GateInv
=============================================================================
