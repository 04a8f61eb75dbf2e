---------------------------- MODULE ReleaseAlerts ---------------------------
(***************************************************************************)
(* The owner's alerts.  A pass of scripts/release_gateway.py ends, after   *)
(* its locks are released, by comparing what is wrong with the receipt of  *)
(* the last message: a message is handed to the owner's conversation when  *)
(* it is new, repeated after the cooldown, or a recovery, and only then is *)
(* the receipt replaced.  A pass that does not get the locks tells nobody. *)
(* scripts/release_watchdog.py runs the same code, with a receipt of its   *)
(* own, over the status the last pass saved and that status's age.         *)
(*                                                                         *)
(* A program may die between any two steps, and a hand-off may fail or     *)
(* time out with or without delivery.  As the locks are free by then, the  *)
(* notifying ends of two passes can interleave.                            *)
(***************************************************************************)
EXTENDS Naturals, FiniteSets

CONSTANTS Reason,     \* what a pass can find wrong: blocked hosts, overdue jobs
          Stale,      \* what the watchdog finds wrong without a live receipt
          Blocking,   \* of these, what the status lists as blocked
          Pass,       \* passes whose ends may overlap
          Watchdog,
          MaxFaults   \* bound on failed hand-offs, crashes and overlaps

ASSUME ProcessAssumption == Watchdog \notin Pass
ASSUME ReasonAssumption  == Blocking \subseteq Reason /\ Stale \notin Reason
ASSUME BoundAssumption   == MaxFaults \in Nat

(* A message names the first eight alerts; the receipt stands for all.     *)
(* More are not found at a time: the others would count as told.           *)
MaxListed == 8

Process == Pass \cup {Watchdog}
Program == {"allocator", "watchdog"}
Of(p)   == IF p = Watchdog THEN "watchdog" ELSE "allocator"
Alert   == Reason \cup {Stale}

VARIABLES
  problems,   \* what is wrong now
  starved,    \* do passes fail to get the locks, or is their schedule off?
  status,     \* status.json: what the last pass found
  live,       \* is it younger than 600 s?
  receipt,    \* of each program: the alerts it stands for, and "active"
  cooled,     \* have 1800 s passed since the time in the receipt?
  pc,         \* of each process: "idle", "read", "notify", "save"
  alerts,     \* what it found
  time,       \* of its receipt: "now", or that of the receipt it read, which
              \* had "cooled" down or was "recent"
  told,       \* alerts of each program's last message that was delivered
  lost,       \* programs of which a message arrived that no receipt records
  overlapped, \* have two passes ever notified at a time?
  faults

process == <<pc, alerts, time>>
observe == <<told, lost, overlapped>>
vars == <<problems, starved, status, live, receipt, cooled, process, observe, faults>>

NoReceipt == [key |-> {}, active |-> FALSE]

Init ==
  /\ problems = {} /\ starved = FALSE /\ status = {} /\ live = TRUE
  /\ receipt = [g \in Program |-> NoReceipt] /\ cooled = [g \in Program |-> TRUE]
  /\ pc = [p \in Process |-> "idle"] /\ alerts = [p \in Process |-> {}]
  /\ time = [p \in Process |-> "recent"]
  /\ told = [g \in Program |-> {}] /\ lost = {} /\ overlapped = FALSE /\ faults = 0

Fault == faults < MaxFaults /\ faults' = faults + 1

(* Mutant: a recovery is no message.                                       *)
Message_NoRecovery(new, old, cool) == new # {} /\ (new # old.key \/ cool)

(* Mutant: the cooldown is ignored.                                        *)
Message_Always(new, old, cool) == new # {} \/ old.active

(* notifications: an alert that differs from the receipt's or has cooled   *)
(* down, or the recovery from an alert that the receipt has.               *)
Message(new, old, cool) == IF new # {} THEN new # old.key \/ cool ELSE old.active

(* A process p that found A compares it with its program's receipt.        *)
Compare(p, A) ==
  LET g == Of(p)
  IN  /\ alerts' = [alerts EXCEPT ![p] = A]
      /\ IF Message(A, receipt[g], cooled[g])
         THEN pc' = [pc EXCEPT ![p] = "notify"] /\ time' = [time EXCEPT ![p] = "now"]
         ELSE /\ pc' = [pc EXCEPT ![p] = "save"]
              /\ time' = [time EXCEPT ![p] = IF cooled[g] THEN "cooled" ELSE "recent"]

(* The allocation pass ends, its status is saved and its locks released.   *)
(* That another pass still notifies counts as a fault.                     *)
Diagnose(p) ==
  /\ p \in Pass /\ pc[p] = "idle" /\ ~starved
  /\ IF \E q \in Pass : pc[q] # "idle" THEN Fault /\ overlapped' = TRUE
                                       ELSE UNCHANGED <<faults, overlapped>>
  /\ status' = problems /\ live' = TRUE
  /\ alerts' = [alerts EXCEPT ![p] = problems]
  /\ pc' = [pc EXCEPT ![p] = "read"]
  /\ UNCHANGED <<problems, starved, receipt, cooled, time, told, lost>>

Decide(p) ==
  /\ pc[p] = "read" /\ Compare(p, alerts[p])
  /\ UNCHANGED <<problems, starved, status, live, receipt, cooled, observe, faults>>

(* Mutant: the age of the status does not matter.                          *)
Issues_Ageless == status \cap Blocking

(* What the watchdog finds wrong.                                          *)
Issues == (status \cap Blocking) \cup IF live THEN {} ELSE {Stale}

(* Nobody else writes the watchdog's receipt.                              *)
Watch ==
  /\ pc[Watchdog] = "idle" /\ Compare(Watchdog, Issues)
  /\ UNCHANGED <<problems, starved, status, live, receipt, cooled, observe, faults>>

Notify(p) ==
  /\ pc[p] = "notify"
  /\ pc' = [pc EXCEPT ![p] = "save"]
  /\ told' = [told EXCEPT ![Of(p)] = alerts[p]]
  /\ UNCHANGED <<problems, starved, status, live, receipt, cooled, alerts, time, lost,
                 overlapped, faults>>

End(p) == /\ pc' = [pc EXCEPT ![p] = "idle"] /\ alerts' = [alerts EXCEPT ![p] = {}]
          /\ time' = [time EXCEPT ![p] = "recent"]

(* Mutant: the receipt does not say whether there were alerts.             *)
Receipt_KeyOnly(p) == [key |-> alerts[p]]

(* The receipt a process leaves.                                           *)
Receipt(p) == [key |-> alerts[p], active |-> alerts[p] # {}]

Save(p) ==
  /\ pc[p] = "save"
  /\ receipt' = [receipt EXCEPT ![Of(p)] = Receipt(p)]
  /\ cooled' = [cooled EXCEPT ![Of(p)] = time[p] # "now" /\ (@ \/ time[p] = "cooled")]
  /\ End(p)
  /\ UNCHANGED <<problems, starved, status, live, observe, faults>>

(* The hand-off fails, which ends the program with an error; the message   *)
(* may have arrived.                                                       *)
NotifyFails(p) ==
  /\ pc[p] = "notify" /\ Fault
  /\ \/ UNCHANGED <<told, lost>>
     \/ /\ told' = [told EXCEPT ![Of(p)] = alerts[p]]
        /\ lost' = lost \cup {Of(p)}
  /\ End(p)
  /\ UNCHANGED <<problems, starved, status, live, receipt, cooled, overlapped>>

(* The program dies.                                                       *)
Crash(p) ==
  /\ pc[p] # "idle" /\ Fault
  /\ lost' = IF pc[p] = "save" /\ time[p] = "now" THEN lost \cup {Of(p)} ELSE lost
  /\ End(p)
  /\ UNCHANGED <<problems, starved, status, live, receipt, cooled, told, overlapped>>

Change ==
  /\ problems' \in {S \in SUBSET Reason : Cardinality(S) <= MaxListed} \ {problems}
  /\ UNCHANGED <<starved, status, live, receipt, cooled, process, observe, faults>>

(* The candidate passes hold their lock at every try of 40 s, or the       *)
(* scheduler does not run the allocator; or that is over.                  *)
Starve ==
  /\ starved' = ~starved
  /\ UNCHANGED <<problems, status, live, receipt, cooled, process, observe, faults>>

StatusAges ==
  /\ starved /\ live /\ live' = FALSE
  /\ UNCHANGED <<problems, starved, status, receipt, cooled, process, observe, faults>>

CoolDown(g) ==
  /\ ~cooled[g] /\ cooled' = [cooled EXCEPT ![g] = TRUE]
  /\ UNCHANGED <<problems, starved, status, live, receipt, process, observe, faults>>

Finish(p) == Decide(p) \/ Notify(p) \/ Save(p)
Allocate  == \E p \in Pass : Diagnose(p)

Next ==
  \/ Watch
  \/ \E p \in Process : Diagnose(p) \/ Finish(p) \/ NotifyFails(p) \/ Crash(p)
  \/ \E g \in Program : CoolDown(g)
  \/ Change \/ Starve \/ StatusAges

(* The schedules start the programs again and again, and time passes.      *)
Spec == /\ Init /\ [][Next]_vars
        /\ WF_vars(Allocate) /\ WF_vars(Watch) /\ WF_vars(StatusAges)
        /\ \A p \in Process : WF_vars(Finish(p))
        /\ \A g \in Program : WF_vars(CoolDown(g))
-----------------------------------------------------------------------------
TypeOK ==
  /\ problems \subseteq Reason /\ status \subseteq Reason
  /\ starved \in BOOLEAN /\ live \in BOOLEAN /\ overlapped \in BOOLEAN
  /\ receipt \in [Program -> [key : SUBSET Alert, active : BOOLEAN]]
  /\ cooled \in [Program -> BOOLEAN]
  /\ pc \in [Process -> {"idle", "read", "notify", "save"}]
  /\ alerts \in [Process -> SUBSET Alert]
  /\ time \in [Process -> {"now", "cooled", "recent"}]
  /\ told \in [Program -> SUBSET Alert] /\ lost \subseteq Program /\ faults \in 0 .. MaxFaults

Undisturbed(p) == Of(p) \notin lost /\ (p = Watchdog \/ ~overlapped)

(* A program that completes leaves the owner with a last message that says *)
(* what it found, recovery included, unless a message of it was ever lost  *)
(* or two passes overlapped.                                               *)
OwnerUpToDate ==
  [][\A p \in Process : Save(p) /\ Undisturbed(p) => told[Of(p)] = alerts[p]]_vars

(* An unchanged alert is not repeated before the cooldown, likewise.       *)
NoRepeat ==
  [][\A p \in Process :
       Notify(p) /\ Undisturbed(p) /\ alerts[p] # {} /\ told[Of(p)] = alerts[p]
         => cooled[Of(p)]]_vars

(* What stays wrong is told in the end, whatever hand-offs failed and      *)
(* however passes overlap: by the passes if they get through, and that     *)
(* they do not by the watchdog.                                            *)
Told(S) == <>[](problems = S /\ ~starved) => <>[](told["allocator"] = S)
AlertsArrive ==
  /\ \A S \in SUBSET Reason \ {{}} : Told(S)
  /\ <>[]starved => <>[](Stale \in told["watchdog"])

(* And so is, on clearance, the recovery.                                  *)
RecoveryArrives == Told({})
-----------------------------------------------------------------------------
(* What the proofs in ReleaseAlertsProofs need besides.                    *)

Trusted(g) == g \notin lost /\ (g = "watchdog" \/ ~overlapped)

(* Processes of a program end one at a time, unless passes overlapped.     *)
AloneInv == \A p, q \in Process :
  Of(p) = Of(q) /\ (p = Watchdog \/ ~overlapped) /\ pc[p] # "idle" /\ pc[q] # "idle" => p = q

ReceiptInv == \A g \in Program : receipt[g].active = (receipt[g].key # {})

(* A message that is to be saved was delivered and is what was found; what *)
(* needs no message is what the receipt says; a message is due.            *)
DecisionInv == \A p \in Process : Undisturbed(p) =>
  /\ pc[p] = "save" => alerts[p] = IF time[p] = "now" THEN told[Of(p)] ELSE receipt[Of(p)].key
  /\ pc[p] = "notify" =>
       /\ time[p] = "now"
       /\ alerts[p] = {} \/ alerts[p] # receipt[Of(p)].key \/ cooled[Of(p)]

(* The receipt says what was told, until a message delivered is saved.     *)
ToldInv == \A g \in Program : Trusted(g) =>
  \/ told[g] = receipt[g].key
  \/ \E p \in Process : Of(p) = g /\ pc[p] = "save" /\ time[p] = "now"

IInv == TypeOK /\ AloneInv /\ ReceiptInv /\ DecisionInv /\ ToldInv
=============================================================================
