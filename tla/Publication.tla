---------------------------- MODULE Publication -----------------------------
(***************************************************************************)
(* How candidate images are built and announced: the workflow runs of      *)
(* .github/workflows/platform-candidate.yml in "candidate" mode, with      *)
(* scripts/candidate_reuse.py, which may build a PR head's image on one    *)
(* that an earlier run announced for another head, and the "published"     *)
(* command of scripts/platform_request.py.                                 *)
(*                                                                         *)
(* A run works with the controller revision its caller pinned when it was  *)
(* made.  An image is only reused if the run that announced it worked with *)
(* the same revision or with the reviewed first one.  Nothing in this      *)
(* repository keeps two runs for one head apart, and both push their image *)
(* to the head's candidate tag.                                            *)
(***************************************************************************)
EXTENDS Naturals, Sequences, FiniteSetsExt

CONSTANTS Commit,       \* heads of Platform PRs
          ContractOf,   \* fingerprint of a head's requirements
          Fork,         \* heads from other repositories
          Revision,     \* of the controller, the first one among them
          LEGACY_CONTROLLER,  \* that does not reuse images
          MaxRuns,      \* bound on workflow runs
          MaxImages,    \* bound on images built
          MaxFaults     \* bound on failures, statuses of others and repeated successes

ASSUME HeadAssumption  == Fork \subseteq Commit /\ DOMAIN ContractOf = Commit
ASSUME BoundAssumption == MaxRuns \in Nat /\ MaxImages \in Nat /\ MaxFaults \in Nat

Run == 1 .. MaxRuns      \* GitHub numbers its runs
None == 0                \* no image, no run

VARIABLES
  run,      \* the workflow runs
  image,    \* the images built, an image is its number
  tag,      \* the image under a head's candidate tag
  newest,   \* the head's newest status in the candidate context
  crossed,  \* images announced by a run that did not build them
  faults

vars == <<run, image, tag, newest, crossed, faults>>

NoStatus == [run |-> None, digest |-> None]

Init ==
  /\ run = <<>> /\ image = <<>>
  /\ tag = [h \in Commit |-> None] /\ newest = [h \in Commit |-> NoStatus]
  /\ crossed = {} /\ faults = 0

Fault == faults < MaxFaults /\ faults' = faults + 1

At(r, step) == r \in DOMAIN run /\ run[r].step = step

HeadOf(r) == run[r].head

-----------------------------------------------------------------------------
(* The build: it may start from the image of another head.                 *)

(* The request of a run: the head and its requirements, and the controller *)
(* revision pinned by its caller, which every base branch chooses.         *)
Plan(h, v) ==
  /\ Len(run) < MaxRuns
  /\ run' = Append(run, [step |-> "planned", head |-> h, revision |-> v, listed |-> {},
                         base |-> None, image |-> None, digest |-> None])
  /\ UNCHANGED <<image, tag, newest, crossed, faults>>

(* The successful runs are listed; heads of forks, and the first           *)
(* controller, go without.                                                 *)
Discover(r) ==
  /\ At(r, "planned")
  /\ run' = IF HeadOf(r) \in Fork \/ run[r].revision = LEGACY_CONTROLLER
              THEN [run EXCEPT ![r].step = "building"]
              ELSE [run EXCEPT ![r].step = "searching",
                               ![r].listed = {q \in DOMAIN run : run[q].step = "success"}]
  /\ UNCHANGED <<image, tag, newest, crossed, faults>>

Approved(r, q) == run[q].revision \in {LEGACY_CONTROLLER, run[r].revision}

(* Mutant: the status may name any run that succeeded.                     *)
Names_Any(q) == LET s == newest[HeadOf(q)].run IN s # None /\ run[s].step = "success"

(* The head's newest status, whoever posted it and whatever its case, must *)
(* be the success of this very run: it shadows what is older.              *)
Names(q) == newest[HeadOf(q)].run = q

(* What find_source asks of a listed run, read again: that it is over and  *)
(* was successful, its controller, the repositories, the requirements, the *)
(* status.                                                                 *)
Eligible(r, q) ==
  /\ run[q].step = "success" /\ Approved(r, q)
  /\ HeadOf(q) # HeadOf(r) /\ HeadOf(q) \notin Fork
  /\ ContractOf[HeadOf(q)] = ContractOf[HeadOf(r)]
  /\ Names(q)

(* The runs are examined, newest first, until one is eligible: the image   *)
(* its status names is the base.                                           *)
Examine(r) ==
  /\ At(r, "searching") /\ run[r].listed # {}
  /\ LET q == Max(run[r].listed) IN
       run' = IF Eligible(r, q)
                THEN [run EXCEPT ![r].step = "building", ![r].listed = {},
                                 ![r].base = newest[HeadOf(q)].digest]
                ELSE [run EXCEPT ![r].listed = @ \ {q}]
  /\ UNCHANGED <<image, tag, newest, crossed, faults>>

(* None is: a cold build.                                                  *)
BuildCold(r) ==
  /\ At(r, "searching") /\ run[r].listed = {}
  /\ run' = [run EXCEPT ![r].step = "building"]
  /\ UNCHANGED <<image, tag, newest, crossed, faults>>

(* The image is built and passes the smoke, contract and KVM tests; its    *)
(* archive becomes an artifact of the run.                                 *)
Build(r) ==
  /\ At(r, "building") /\ Len(image) < MaxImages
  /\ image' = Append(image, [head |-> HeadOf(r), revision |-> run[r].revision,
                             base |-> run[r].base])
  /\ run' = [run EXCEPT ![r].step = "tested", ![r].image = Len(image) + 1]
  /\ UNCHANGED <<tag, newest, crossed, faults>>

-----------------------------------------------------------------------------
(* The publication, on another machine.                                    *)

Push(r) ==
  /\ At(r, "tested")
  /\ tag' = [tag EXCEPT ![HeadOf(r)] = run[r].image]
  /\ run' = [run EXCEPT ![r].step = "pushed"]
  /\ UNCHANGED <<image, newest, crossed, faults>>

(* The digest to announce is read back from the tag.                       *)
ReadDigest(r) ==
  /\ At(r, "pushed")
  /\ LET d == tag[HeadOf(r)] IN
       /\ run' = [run EXCEPT ![r].step = "read", ![r].digest = d]
       /\ crossed' = IF d = run[r].image THEN crossed ELSE crossed \cup {d}
  /\ UNCHANGED <<image, tag, newest, faults>>

(* Mutant: the status does not wait for the digest.                        *)
PostStatus_Early(r) ==
  /\ At(r, "read") \/ At(r, "pushed")
  /\ newest' = [newest EXCEPT ![HeadOf(r)] = [run |-> r, digest |-> run[r].digest]]
  /\ run' = [run EXCEPT ![r].step = "posted"]
  /\ UNCHANGED <<image, tag, crossed, faults>>

(* "published": the image has the head's labels, and the digest is posted. *)
PostStatus(r) ==
  /\ At(r, "read") /\ image[run[r].digest].head = HeadOf(r)
  /\ newest' = [newest EXCEPT ![HeadOf(r)] = [run |-> r, digest |-> run[r].digest]]
  /\ run' = [run EXCEPT ![r].step = "posted"]
  /\ UNCHANGED <<image, tag, crossed, faults>>

Conclude(r) ==
  /\ At(r, "posted")
  /\ run' = [run EXCEPT ![r].step = "success"]
  /\ UNCHANGED <<image, tag, newest, crossed, faults>>

(* A job fails: the PR is closed or has a new head, a test or an API call  *)
(* fails, the time is up.                                                  *)
Fail(r) ==
  /\ r \in DOMAIN run /\ run[r].step \notin {"success", "failed"} /\ Fault
  /\ run' = [run EXCEPT ![r].step = "failed", ![r].listed = {}]
  /\ UNCHANGED <<image, tag, newest, crossed>>

(* A run that is over, also successfully, is repeated: as a whole, or its  *)
(* publication alone.  It is the same run, with the same revision.         *)
Rerun(r) ==
  /\ IF At(r, "failed") THEN UNCHANGED faults ELSE At(r, "success") /\ Fault
  /\ \/ run' = [run EXCEPT ![r].step = "planned", ![r].base = None,
                           ![r].image = None, ![r].digest = None]
     \/ /\ run[r].image # None
        /\ run' = [run EXCEPT ![r].step = "tested", ![r].digest = None]
  /\ UNCHANGED <<image, tag, newest, crossed>>

(* Anyone else's status in the context: a failure, another creator.        *)
OtherStatus(h) ==
  /\ newest[h] # NoStatus /\ Fault
  /\ newest' = [newest EXCEPT ![h] = NoStatus]
  /\ UNCHANGED <<run, image, tag, crossed>>

Next ==
  \/ \E h \in Commit, v \in Revision : Plan(h, v)
  \/ \E h \in Commit : OtherStatus(h)
  \/ \E r \in DOMAIN run :
       \/ Discover(r) \/ Examine(r) \/ BuildCold(r) \/ Build(r)
       \/ Push(r) \/ ReadDigest(r) \/ PostStatus(r) \/ Conclude(r)
       \/ Fail(r) \/ Rerun(r)

Spec == Init /\ [][Next]_vars
-----------------------------------------------------------------------------
Image == 1 .. Len(image)

RunsOK ==
  /\ run \in Seq([step : {"planned", "searching", "building", "tested", "pushed", "read",
                          "posted", "success", "failed"},
                  head : Commit, revision : Revision, listed : SUBSET Run,
                  base : 0 .. MaxImages, image : 0 .. MaxImages, digest : 0 .. MaxImages])
  /\ Len(run) <= MaxRuns

ImagesOK ==
  /\ image \in Seq([head : Commit, revision : Revision, base : 0 .. MaxImages])
  /\ Len(image) <= MaxImages

AnnouncedOK ==
  /\ tag \in [Commit -> Image \cup {None}]
  /\ newest \in [Commit -> {NoStatus} \cup [run : DOMAIN run, digest : Image]]
  /\ crossed \subseteq Image

TypeOK == RunsOK /\ ImagesOK /\ AnnouncedOK /\ faults \in 0 .. MaxFaults

(* The images that an image was built on, one upon the other.              *)
Bases[d \in Image] ==
  IF image[d].base = None THEN {} ELSE {image[d].base} \cup Bases[image[d].base]

(* However often an image was reused, all that it was built on, down to    *)
(* the root filesystem, was built under the same requirements, by the      *)
(* controller revision of the run that now announces it or by the reviewed *)
(* first one, and never for a fork: approvals of single steps add up, and  *)
(* revoking a revision revokes whatever it built.  The one way around is   *)
(* an image announced by a run that did not build it.                      *)
ApprovedBases ==
  \A d \in Image : Bases[d] \cap crossed = {} =>
    \A b \in Bases[d] :
      /\ image[b].revision \in {LEGACY_CONTROLLER, image[d].revision}
      /\ ContractOf[image[b].head] = ContractOf[image[d].head]
      /\ image[b].head \notin Fork /\ image[d].head \notin Fork

-----------------------------------------------------------------------------
(* What the proofs in PublicationProofs need besides.                      *)

(* Image b may be the base of an image for head h by revision v, unless it *)
(* was announced by a run that did not build it.                           *)
Fit(b, v, h) == b \notin crossed =>
  /\ image[b].revision \in {LEGACY_CONTROLLER, v}
  /\ ContractOf[image[b].head] = ContractOf[h]
  /\ image[b].head \notin Fork /\ h \notin Fork

(* Every single reuse was approved, of an image that was there before.     *)
LinkInv == \A d \in Image :
  image[d].base # None => image[d].base < d /\ Fit(image[d].base, image[d].revision, image[d].head)

(* A run has built its image as it says, on a base that it may use, and    *)
(* announces it or one that is crossed.                                    *)
RunInv == \A r \in DOMAIN run : LET R == run[r] IN
  /\ R.listed \subseteq DOMAIN run
  /\ R.step = "searching" => R.head \notin Fork
  /\ R.base # None => R.base \in Image /\ Fit(R.base, R.revision, R.head)
  /\ R.image # None =>
       R.image \in Image /\ image[R.image].head = R.head /\ image[R.image].revision = R.revision
  /\ R.step \in {"tested", "pushed", "read"} => R.image # None
  /\ R.step = "pushed" => tag[R.head] # None
  /\ R.step = "read" => R.digest \in Image /\ (R.digest \in crossed \/ R.digest = R.image)

(* So does the status in which a head's newest image is announced.         *)
StatusInv == \A h \in Commit : LET s == newest[h] IN s.run # None =>
  /\ run[s.run].head = h /\ image[s.digest].head = h
  /\ s.digest \in crossed \/ image[s.digest].revision = run[s.run].revision

IInv == TypeOK /\ LinkInv /\ RunInv /\ StatusInv
=============================================================================
