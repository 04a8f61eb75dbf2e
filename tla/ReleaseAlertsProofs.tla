------------------------ MODULE ReleaseAlertsProofs -------------------------
(***************************************************************************)
(* Proofs about ReleaseAlerts, for every set of reasons, any number of     *)
(* passes that may overlap, and every number of faults.                    *)
(***************************************************************************)
EXTENDS ReleaseAlerts, TLAPS

USE ProcessAssumption, ReasonAssumption, BoundAssumption

LEMMA Programs ==
  \A p \in Process : /\ Of(p) \in Program
                     /\ Of(p) = "watchdog" <=> p = Watchdog
                     /\ Undisturbed(p) <=> Trusted(Of(p))
  BY DEF Of, Program, Process, Undisturbed, Trusted

LEMMA Watching == Watchdog \in Process /\ Of(Watchdog) = "watchdog"
  BY DEF Process, Of

LEMMA Found ==
  ASSUME TypeOK
  PROVE  Issues \subseteq Alert /\ problems \subseteq Alert /\ \A p \in Process : alerts[p] \subseteq Alert
  BY DEF TypeOK, Issues, Alert

LEMMA InitIInv == Init => IInv
<1> SUFFICES ASSUME Init PROVE IInv
  OBVIOUS
<1>1. TypeOK
  <2>1. NoReceipt \in [key : SUBSET Alert, active : BOOLEAN]
    BY DEF NoReceipt
  <2>2. receipt \in [Program -> [key : SUBSET Alert, active : BOOLEAN]] /\ cooled \in [Program -> BOOLEAN]
    BY <2>1 DEF Init
  <2>3. alerts \in [Process -> SUBSET Alert] /\ told \in [Program -> SUBSET Alert]
    BY DEF Init
  <2>4. pc \in [Process -> {"idle", "read", "notify", "save"}] /\ time \in [Process -> {"now", "cooled", "recent"}]
    BY DEF Init
  <2>5. starved \in BOOLEAN /\ live \in BOOLEAN /\ overlapped \in BOOLEAN
    BY DEF Init
  <2>6. faults \in 0 .. MaxFaults
    BY DEF Init
  <2>7. problems \subseteq Reason /\ status \subseteq Reason /\ lost \subseteq Program
    BY DEF Init
  <2> QED
    BY <2>2, <2>3, <2>4, <2>5, <2>6, <2>7 DEF TypeOK
<1>2. AloneInv /\ DecisionInv
  BY DEF Init, AloneInv, DecisionInv
<1>3. ReceiptInv /\ ToldInv
  BY DEF Init, ReceiptInv, ToldInv, NoReceipt
<1> QED
  BY <1>1, <1>2, <1>3 DEF IInv

-----------------------------------------------------------------------------
(* What a process p does to its own program counter, and to nobody else's. *)
Moves(p, to) == /\ pc'[p] = to
                /\ \A q \in Process \ {p} : pc'[q] = pc[q] /\ alerts'[q] = alerts[q] /\ time'[q] = time[q]

(* A comparison that leaves the receipts alone.                            *)
LEMMA CompareStep ==
  ASSUME IInv, NEW p \in Process, NEW A, A \subseteq Alert, pc[p] \in {"idle", "read"}, Compare(p, A),
         AloneInv', UNCHANGED <<problems, starved, status, live, receipt, cooled, observe, faults>>
  PROVE  IInv'
<1>1. /\ TypeOK /\ AloneInv /\ ReceiptInv /\ DecisionInv /\ ToldInv /\ Of(p) \in Program
  BY Programs DEF IInv
<1>2. /\ pc' \in [Process -> {"idle", "read", "notify", "save"}] /\ alerts' \in [Process -> SUBSET Alert]
      /\ time' \in [Process -> {"now", "cooled", "recent"}] /\ alerts'[p] = A
      /\ pc'[p] \in {"notify", "save"} /\ Moves(p, pc'[p])
      /\ pc'[p] = "notify" => time'[p] = "now" /\ Message(A, receipt[Of(p)], cooled[Of(p)])
      /\ pc'[p] = "save" => time'[p] # "now" /\ ~Message(A, receipt[Of(p)], cooled[Of(p)])
  BY <1>1 DEF Compare, TypeOK, Moves
<1>3. TypeOK'
  BY <1>1, <1>2 DEF TypeOK, observe
<1>4. ReceiptInv'
  BY <1>1 DEF ReceiptInv
<1>5. DecisionInv'
  <2> SUFFICES ASSUME NEW q \in Process, Undisturbed(q)
               PROVE  /\ pc'[q] = "save" => alerts'[q] = IF time'[q] = "now" THEN told[Of(q)]
                                                         ELSE receipt[Of(q)].key
                      /\ pc'[q] = "notify" =>
                           /\ time'[q] = "now"
                           /\ alerts'[q] = {} \/ alerts'[q] # receipt[Of(q)].key \/ cooled[Of(q)]
    BY DEF DecisionInv, Undisturbed, observe
  <2>1. CASE q # p
    BY <1>1, <1>2, <2>1 DEF DecisionInv, Moves
  <2>2. CASE q = p
    BY <1>1, <1>2, <2>2 DEF Message, ReceiptInv
  <2> QED
    BY <2>1, <2>2
<1>6. ToldInv'
  <2>1. \A g \in Program, q \in Process : Of(q) = g /\ pc[q] = "save" /\ time[q] = "now" =>
          Of(q) = g /\ pc'[q] = "save" /\ time'[q] = "now"
    BY <1>2 DEF Moves
  <2> QED
    BY <1>1, <2>1 DEF ToldInv, Trusted, observe
<1> QED
  BY <1>3, <1>4, <1>5, <1>6 DEF IInv

(* A process that goes on is the one of its program that did.              *)
LEMMA StaysAlone ==
  ASSUME AloneInv, NEW p \in Process, pc[p] # "idle", overlapped' = overlapped,
         \A q \in Process \ {p} : pc'[q] = pc[q]
  PROVE  AloneInv'
  BY DEF AloneInv

LEMMA Mates ==
  ASSUME AloneInv, NEW p \in Process, pc[p] # "idle", Undisturbed(p),
         NEW q \in Process, Of(q) = Of(p), pc[q] # "idle"
  PROVE  q = p
  BY Programs DEF AloneInv, Undisturbed

(* A process that ends early leaves everything as it was, except that a    *)
(* message of its program may be lost.                                     *)
LEMMA EndStep ==
  ASSUME IInv, NEW p \in Process, pc[p] # "idle", End(p), faults' \in 0 .. MaxFaults,
         UNCHANGED <<problems, starved, status, live, receipt, cooled, overlapped>>,
         told' \in [Program -> SUBSET Alert],
         \A g \in Program \ {Of(p)} : told'[g] = told[g],
         \/ lost' = lost \cup {Of(p)}
         \/ /\ lost' = lost /\ told' = told
            /\ ~(pc[p] = "save" /\ time[p] = "now")
  PROVE  IInv'
<1>1. /\ TypeOK /\ AloneInv /\ ReceiptInv /\ DecisionInv /\ ToldInv /\ Of(p) \in Program
  BY Programs DEF IInv
<1>2. /\ pc' \in [Process -> {"idle", "read", "notify", "save"}] /\ alerts' \in [Process -> SUBSET Alert]
      /\ time' \in [Process -> {"now", "cooled", "recent"}] /\ Moves(p, "idle")
  BY <1>1 DEF End, TypeOK, Moves
<1>3. TypeOK'
  BY <1>1, <1>2 DEF TypeOK
<1>4. AloneInv'
  BY <1>1, <1>2, StaysAlone DEF Moves
<1>5. ReceiptInv'
  BY <1>1 DEF ReceiptInv
<1>6. \A q \in Process : Undisturbed(q)' => Undisturbed(q) /\ told'[Of(q)] = told[Of(q)]
  BY Programs DEF Undisturbed
<1>7. DecisionInv'
  BY <1>1, <1>2, <1>6 DEF DecisionInv, Moves
<1>8. ToldInv'
  <2> SUFFICES ASSUME NEW g \in Program, Trusted(g)'
               PROVE  \/ told'[g] = receipt[g].key
                      \/ \E q \in Process : Of(q) = g /\ pc'[q] = "save" /\ time'[q] = "now"
    BY DEF ToldInv
  <2>1. Trusted(g) /\ told'[g] = told[g]
    BY DEF Trusted
  <2>2. ASSUME NEW q \in Process, Of(q) = g, pc[q] = "save", time[q] = "now"
        PROVE  pc'[q] = "save" /\ time'[q] = "now"
    BY <1>2, <2>2 DEF Moves, Trusted
  <2> QED
    BY <1>1, <2>1, <2>2 DEF ToldInv
<1> QED
  BY <1>3, <1>4, <1>5, <1>7, <1>8 DEF IInv

(* What happens around the programs.                                       *)
LEMMA WorldStep ==
  ASSUME IInv, UNCHANGED <<receipt, process, observe, faults>>,
         problems' \subseteq Reason, starved' \in BOOLEAN, UNCHANGED status, live' \in BOOLEAN,
         cooled' \in [Program -> BOOLEAN], \A g \in Program : cooled[g] => cooled'[g]
  PROVE  IInv'
<1> USE DEF IInv, process, observe
<1>1. TypeOK'
  BY DEF TypeOK
<1>2. AloneInv' /\ ReceiptInv'
  BY DEF AloneInv, ReceiptInv
<1>3. DecisionInv'
  BY Programs DEF DecisionInv, Undisturbed
<1>4. ToldInv'
  BY DEF ToldInv, Trusted
<1> QED
  BY <1>1, <1>2, <1>3, <1>4

LEMMA Invariance == Spec => []IInv
<1>1. IInv /\ [Next]_vars => IInv'
  <2> SUFFICES ASSUME IInv, [Next]_vars PROVE IInv'
    OBVIOUS
  <2>0. /\ TypeOK /\ AloneInv /\ ReceiptInv /\ DecisionInv /\ ToldInv
        /\ problems \subseteq Reason /\ starved \in BOOLEAN /\ live \in BOOLEAN
        /\ cooled \in [Program -> BOOLEAN] /\ faults \in 0 .. MaxFaults
    BY DEF IInv, TypeOK
  <2>1. CASE UNCHANGED vars \/ Change \/ Starve \/ StatusAges
    BY <2>0, <2>1, WorldStep DEF vars, Change, Starve, StatusAges
  <2>2. ASSUME NEW g \in Program, CoolDown(g) PROVE IInv'
    BY <2>0, <2>2, WorldStep DEF CoolDown
  <2>3. CASE Watch
    <3>1. AloneInv'
      BY <2>0, <2>3, Programs, Watching DEF AloneInv, Watch, Compare, TypeOK, observe
    <3> QED
      BY <2>0, <2>3, <3>1, Watching, Found, CompareStep DEF Watch
  <2>4. ASSUME NEW p \in Process, Diagnose(p) PROVE IInv'
    <3>1. /\ pc[p] = "idle" /\ pc'[p] = "read" /\ Moves(p, "read") /\ p \in Pass
          /\ pc' \in [Process -> {"idle", "read", "notify", "save"}] /\ alerts' \in [Process -> SUBSET Alert]
      BY <2>0, <2>4, Found DEF Diagnose, TypeOK, Moves
    <3>2. faults' \in 0 .. MaxFaults /\ (overlapped => overlapped')
      BY <2>0, <2>4 DEF Diagnose, Fault
    <3>3. TypeOK'
      BY <2>0, <2>4, <3>1, <3>2 DEF Diagnose, TypeOK
    <3>4. AloneInv'
      <4>1. CASE \E q \in Pass : pc[q] # "idle"
        BY <2>0, <2>4, <3>1, <4>1, Programs, Watching DEF Diagnose, AloneInv, Moves
      <4>2. CASE \A q \in Pass : pc[q] = "idle"
        BY <2>0, <2>4, <3>1, <4>2, Programs, Watching DEF Diagnose, AloneInv, Moves, Process
      <4> QED
        BY <4>1, <4>2
    <3>5. ReceiptInv'
      BY <2>0, <2>4 DEF Diagnose, ReceiptInv
    <3>6. DecisionInv'
      BY <2>0, <2>4, <3>1, <3>2 DEF Diagnose, DecisionInv, Undisturbed, Moves
    <3>7. ToldInv'
      BY <2>0, <2>4, <3>1, <3>2 DEF Diagnose, ToldInv, Trusted, Moves
    <3> QED
      BY <3>3, <3>4, <3>5, <3>6, <3>7 DEF IInv
  <2>5. ASSUME NEW p \in Process, Decide(p) PROVE IInv'
    <3>1. AloneInv'
      BY <2>0, <2>5, StaysAlone DEF Decide, Compare, TypeOK, observe
    <3> QED
      BY <2>0, <2>5, <3>1, Found, CompareStep DEF Decide
  <2>6. ASSUME NEW p \in Process, Notify(p) PROVE IInv'
    <3>1. /\ pc[p] = "notify" /\ Moves(p, "save") /\ alerts'[p] = alerts[p] /\ time'[p] = time[p]
          /\ pc' \in [Process -> {"idle", "read", "notify", "save"}]
          /\ Of(p) \in Program /\ told'[Of(p)] = alerts[p] /\ told' \in [Program -> SUBSET Alert]
          /\ \A g \in Program \ {Of(p)} : told'[g] = told[g]
      BY <2>0, <2>6, Programs DEF Notify, TypeOK, Moves
    <3>2. TypeOK'
      BY <2>0, <2>6, <3>1 DEF Notify, TypeOK
    <3>3. AloneInv'
      BY <2>0, <2>6, <3>1, StaysAlone DEF Notify, Moves
    <3>4. ReceiptInv'
      BY <2>0, <2>6 DEF Notify, ReceiptInv
    <3>5. \A q \in Process : Undisturbed(q)' => Undisturbed(q)
      BY <2>6 DEF Notify, Undisturbed
    <3>6. \A q \in Process \ {p} : Undisturbed(q) /\ pc[q] # "idle" => Of(q) # Of(p)
      BY <2>0, <3>1, Mates
    <3>7. \A q \in Process \ {p} : Undisturbed(q) /\ pc[q] # "idle" => told'[Of(q)] = told[Of(q)]
      BY <3>1, <3>6, Programs
    <3>8. DecisionInv'
      BY <2>0, <2>6, <3>1, <3>5, <3>7 DEF Notify, DecisionInv, Moves
    <3>9. ToldInv'
      <4> SUFFICES ASSUME NEW g \in Program, Trusted(g)'
                   PROVE  \/ told'[g] = receipt[g].key
                          \/ \E q \in Process : Of(q) = g /\ pc'[q] = "save" /\ time'[q] = "now"
        BY <2>6 DEF ToldInv, Notify
      <4>0. Trusted(g)
        BY <2>6 DEF Trusted, Notify
      <4>1. CASE g = Of(p)
        <5>1. time'[p] = "now" /\ pc'[p] = "save"
          BY <2>0, <3>1, <4>0, <4>1, Programs DEF DecisionInv, Moves
        <5> QED
          BY <4>1, <5>1
      <4>2. CASE g # Of(p)
        BY <2>0, <3>1, <4>0, <4>2 DEF ToldInv, Moves
      <4> QED
        BY <4>1, <4>2
    <3> QED
      BY <3>2, <3>3, <3>4, <3>8, <3>9 DEF IInv
  <2>7. ASSUME NEW p \in Process, Save(p) PROVE IInv'
    <3>1. /\ pc[p] = "save" /\ Moves(p, "idle") /\ UNCHANGED observe /\ Of(p) \in Program
          /\ pc' \in [Process -> {"idle", "read", "notify", "save"}] /\ alerts' \in [Process -> SUBSET Alert]
          /\ time' \in [Process -> {"now", "cooled", "recent"}]
      BY <2>0, <2>7, Programs DEF Save, End, TypeOK, Moves
    <3>2. /\ receipt'[Of(p)] = Receipt(p) /\ \A g \in Program \ {Of(p)} : receipt'[g] = receipt[g]
          /\ receipt' \in [Program -> [key : SUBSET Alert, active : BOOLEAN]]
      BY <2>0, <2>7, <3>1 DEF Save, TypeOK, Receipt
    <3>3. /\ cooled' \in [Program -> BOOLEAN] /\ \A g \in Program \ {Of(p)} : cooled'[g] = cooled[g]
      BY <2>0, <2>7, <3>1 DEF Save, TypeOK
    <3>4. TypeOK'
      BY <2>0, <2>7, <3>1, <3>2, <3>3 DEF Save, TypeOK, observe
    <3>5. AloneInv'
      BY <2>0, <2>7, <3>1, StaysAlone DEF Moves, observe
    <3>6. ReceiptInv'
      BY <2>0, <3>2 DEF ReceiptInv, Receipt
    <3>7. \A q \in Process \ {p} : Undisturbed(q) /\ pc[q] # "idle" => Of(q) # Of(p)
      BY <2>0, <3>1, Mates
    <3>8. DecisionInv'
      <4> SUFFICES ASSUME NEW q \in Process, Undisturbed(q), pc'[q] # "idle"
                   PROVE  /\ pc'[q] = "save" => alerts'[q] = IF time'[q] = "now" THEN told[Of(q)]
                                                             ELSE receipt'[Of(q)].key
                          /\ pc'[q] = "notify" =>
                               /\ time'[q] = "now"
                               /\ alerts'[q] = {} \/ alerts'[q] # receipt'[Of(q)].key \/ cooled'[Of(q)]
        BY <3>1 DEF DecisionInv, Undisturbed, observe
      <4>1. q # p /\ pc[q] # "idle"
        BY <3>1 DEF Moves
      <4>2. Of(q) \in Program \ {Of(p)}
        BY <3>7, <4>1, Programs
      <4> QED
        BY <2>0, <3>1, <3>2, <3>3, <4>1, <4>2 DEF DecisionInv, Moves
    <3>9. ToldInv'
      <4> SUFFICES ASSUME NEW g \in Program, Trusted(g)
                   PROVE  \/ told[g] = receipt'[g].key
                          \/ \E q \in Process : Of(q) = g /\ pc'[q] = "save" /\ time'[q] = "now"
        BY <3>1 DEF ToldInv, Trusted, observe
      <4>1. CASE g = Of(p)
        <5>1. Undisturbed(p)
          BY <4>1, Programs
        <5>2. alerts[p] = told[g]
          <6>1. CASE time[p] = "now"
            BY <2>0, <3>1, <4>1, <5>1, <6>1 DEF DecisionInv
          <6>2. CASE time[p] # "now"
            <7>1. alerts[p] = receipt[g].key
              BY <2>0, <3>1, <4>1, <5>1, <6>2 DEF DecisionInv
            <7>2. \A q \in Process : Of(q) = g /\ pc[q] = "save" => q = p
              BY <2>0, <3>1, <4>1, <5>1, Mates
            <7> QED
              BY <2>0, <6>2, <7>1, <7>2 DEF ToldInv
          <6> QED
            BY <6>1, <6>2
        <5> QED
          BY <3>2, <4>1, <5>2 DEF Receipt
      <4>2. CASE g # Of(p)
        BY <2>0, <3>1, <3>2, <4>2 DEF ToldInv, Moves
      <4> QED
        BY <4>1, <4>2
    <3> QED
      BY <3>4, <3>5, <3>6, <3>8, <3>9 DEF IInv
  <2>8. ASSUME NEW p \in Process, NotifyFails(p) PROVE IInv'
    <3>1. faults' \in 0 .. MaxFaults /\ told' \in [Program -> SUBSET Alert]
      BY <2>0, <2>8, Programs DEF NotifyFails, Fault, TypeOK
    <3>2. /\ \A g \in Program \ {Of(p)} : told'[g] = told[g]
          /\ \/ UNCHANGED <<told, lost>>
             \/ lost' = lost \cup {Of(p)}
      BY <2>0, <2>8 DEF NotifyFails, TypeOK
    <3> QED
      BY <2>8, <3>1, <3>2, EndStep DEF NotifyFails
  <2>9. ASSUME NEW p \in Process, Crash(p) PROVE IInv'
    <3>1. /\ faults' \in 0 .. MaxFaults /\ told' \in [Program -> SUBSET Alert]
          /\ told' = told /\ pc[p] # "idle" /\ End(p)
          /\ UNCHANGED <<problems, starved, status, live, receipt, cooled, overlapped>>
      BY <2>0, <2>9 DEF Crash, Fault, TypeOK
    <3>2. IF pc[p] = "save" /\ time[p] = "now" THEN lost' = lost \cup {Of(p)} ELSE lost' = lost
      BY <2>9 DEF Crash
    <3> QED
      BY <3>1, <3>2, EndStep
  <2> QED
    BY <2>1, <2>2, <2>3, <2>4, <2>5, <2>6, <2>7, <2>8, <2>9 DEF Next, Finish
<1> QED
  BY InitIInv, <1>1, PTL DEF Spec

-----------------------------------------------------------------------------
(* What the receipt and the messages tell in these steps.                  *)

LEMMA SavesWhatWasTold ==
  ASSUME IInv, NEW p \in Process, Save(p), Undisturbed(p)
  PROVE  told[Of(p)] = alerts[p]
<1>1. AloneInv /\ DecisionInv /\ ToldInv /\ pc[p] = "save"
  BY DEF IInv, Save
<1>2. CASE time[p] = "now"
  BY <1>1, <1>2 DEF DecisionInv
<1>3. CASE time[p] # "now"
  <2>1. \A q \in Process : Of(q) = Of(p) /\ pc[q] = "save" => q = p
    BY <1>1, Mates
  <2> QED
    BY <1>1, <1>3, <2>1, Programs DEF DecisionInv, ToldInv
<1> QED
  BY <1>2, <1>3

LEMMA RepeatsWhenCool ==
  ASSUME IInv, NEW p \in Process, Notify(p), Undisturbed(p), alerts[p] # {}, told[Of(p)] = alerts[p]
  PROVE  cooled[Of(p)]
<1>1. AloneInv /\ DecisionInv /\ ToldInv /\ pc[p] = "notify"
  BY DEF IInv, Notify
<1>2. \A q \in Process : Of(q) = Of(p) /\ pc[q] = "save" => q = p
  BY <1>1, Mates
<1> QED
  BY <1>1, <1>2, Programs DEF DecisionInv, ToldInv

-----------------------------------------------------------------------------
(* Type correctness: status, receipts and what a process holds of them     *)
(* keep their domains through failed hand-offs, crashes and overlaps.      *)
THEOREM TypeCorrect == Spec => []TypeOK
  BY Invariance, PTL DEF IInv

(* notifications and notify of release_gateway.py: a program that replaces *)
(* its receipt has told the owner what it found, recovery included, for    *)
(* any number of reasons, of passes and of failed hand-offs that did not   *)
(* deliver.                                                                *)
THEOREM ReceiptsAreTold == Spec => OwnerUpToDate
<1>1. IInv => (\A p \in Process : Save(p) /\ Undisturbed(p) => told[Of(p)] = alerts[p])
  BY SavesWhatWasTold
<1> QED
  BY Invariance, <1>1, PTL DEF OwnerUpToDate

(* An alert the owner already has is handed over again only when 1800 s    *)
(* have passed since the receipt: a pass that finds nothing new keeps the  *)
(* receipt's time.                                                         *)
THEOREM AlertsAreNotRepeated == Spec => NoRepeat
<1>1. IInv => (\A p \in Process :
       Notify(p) /\ Undisturbed(p) /\ alerts[p] # {} /\ told[Of(p)] = alerts[p] => cooled[Of(p)])
  BY RepeatsWhenCool
<1> QED
  BY Invariance, <1>1, PTL DEF NoRepeat
=============================================================================
