----------------------------- MODULE Promotion ------------------------------
(***************************************************************************)
(* scripts/platform_request.py, "published" and "promote": a candidate     *)
(* image is built and tested for the head of a Platform PR; after the      *)
(* merge, a workflow run verifies it and copies its digest to the channel  *)
(* tag of the PR's base branch and, for the default branch, to "main".     *)
(*                                                                         *)
(* Verification and the copies are separate calls, to GitHub and to the    *)
(* registry.  Runs for different PRs are different workflow runs, which    *)
(* nothing in this repository keeps apart.                                 *)
(***************************************************************************)
EXTENDS Naturals, Sequences

CONSTANTS PR, Branch, Default,
          Manifest,    \* contents of the requirements file
          BaseOf,      \* the branch a PR targets
          ChannelOf,   \* a branch's channel; two branches may share one
          MaxBuilds,   \* bound on candidate images over all PRs
          MaxChanges   \* bound on changes of a branch's requirements

ASSUME BranchAssumption == Default \in Branch /\ BaseOf \in [PR -> Branch]
ASSUME ChannelAssumption == DOMAIN ChannelOf = Branch /\ \A b \in Branch : ChannelOf[b] # "main"
ASSUME BoundAssumption  == MaxBuilds \in Nat /\ MaxChanges \in Nat

None == 0   \* no image

VARIABLES
  wanted,     \* requirements at the head of a PR
  state,      \* "open" or "merged"
  merged,     \* requirements in its merge commit
  tip,        \* the requirements each branch had, oldest first
  builds,     \* candidate images built so far; an image is its number
  image,      \* what each image was built from
  checked,    \* image of a PR's head that is pushed and not yet announced
  published,  \* image in the newest candidate status of the head
  announced,  \* images in any candidate status of the head
  proven,     \* image on which the newest runs of all its jobs succeeded
  passed,     \* images on which all jobs ever succeeded
  run,        \* the promotion of a PR: its step and what it holds
  overlapped, \* have two promotions ever run at a time?
  tag         \* the registry's tags

prs      == <<wanted, state, merged, tip>>
images   == <<builds, image, checked, published, announced, proven, passed>>
vars     == <<prs, images, run, overlapped, tag>>

(* "platform-" and the branch name, its special characters replaced by     *)
(* hyphens, and "main".                                                    *)
Main   == "main"
Tags   == {ChannelOf[b] : b \in Branch} \cup {Main}
NoRun  == [step |-> "idle", digest |-> None, todo |-> {}, version |-> 0]
NoTag  == [digest |-> None, version |-> 0]

Init ==
  /\ wanted \in [PR -> Manifest]
  /\ state = [p \in PR |-> "open"]
  /\ \E m \in Manifest :
       /\ merged = [p \in PR |-> m]
       /\ tip = [b \in Branch |-> <<m>>]
  /\ builds = 0 /\ image = <<>>
  /\ checked = [p \in PR |-> None] /\ published = [p \in PR |-> None]
  /\ announced = [p \in PR |-> {}]
  /\ proven = [p \in PR |-> None] /\ passed = {}
  /\ run = [p \in PR |-> NoRun] /\ overlapped = FALSE
  /\ tag = [t \in Tags |-> NoTag]

-----------------------------------------------------------------------------
(* The life of a PR.                                                       *)

(* A push: no image is published for the new head, no job ran on it, and a *)
(* status still under way lands on the old one.                            *)
Push(p, m) ==
  /\ state[p] = "open" /\ m # wanted[p]
  /\ wanted' = [wanted EXCEPT ![p] = m]
  /\ checked' = [checked EXCEPT ![p] = None]
  /\ published' = [published EXCEPT ![p] = None]
  /\ announced' = [announced EXCEPT ![p] = {}]
  /\ proven' = [proven EXCEPT ![p] = None]
  /\ UNCHANGED <<state, merged, tip, builds, image, passed, run, overlapped, tag>>

(* "published": the pushed image is inspected and the PR checked to be     *)
(* open with the head and the requirements the image was built for.        *)
CheckCurrent(p) ==
  /\ state[p] = "open" /\ builds < MaxBuilds
  /\ builds' = builds + 1
  /\ image' = Append(image, [pr |-> p, manifest |-> wanted[p]])
  /\ checked' = [checked EXCEPT ![p] = builds + 1]
  /\ UNCHANGED <<prs, published, announced, proven, passed, run, overlapped, tag>>

(* Then its digest is posted as the head's newest status.                  *)
PostStatus(p) ==
  /\ checked[p] # None
  /\ published' = [published EXCEPT ![p] = checked[p]]
  /\ announced' = [announced EXCEPT ![p] = @ \cup {checked[p]}]
  /\ checked' = [checked EXCEPT ![p] = None]
  /\ UNCHANGED <<prs, builds, image, proven, passed, run, overlapped, tag>>

(* The newest run of every required job succeeds on one image, which jobs  *)
(* chose when they were queued; or a newer run fails or runs on another    *)
(* image: an older success does not count.                                 *)
JobsSucceed(p, d) ==
  /\ d \in announced[p] \ {proven[p]}
  /\ proven' = [proven EXCEPT ![p] = d]
  /\ passed' = passed \cup {d}
  /\ UNCHANGED <<prs, builds, image, checked, published, announced, run, overlapped, tag>>

JobsFail(p) ==
  /\ proven[p] # None
  /\ proven' = [proven EXCEPT ![p] = None]
  /\ UNCHANGED <<prs, builds, image, checked, published, announced, passed, run, overlapped, tag>>

Wants(b) == tip[b][Len(tip[b])]

Changed(b, m) == tip' = IF m = Wants(b) THEN tip ELSE [tip EXCEPT ![b] = Append(@, m)]

(* The merge commit has the PR's requirements, or those another change of  *)
(* the same file makes of them.                                            *)
Merge(p, m) ==
  /\ state[p] = "open" /\ Len(tip[BaseOf[p]]) <= MaxChanges
  /\ state' = [state EXCEPT ![p] = "merged"]
  /\ merged' = [merged EXCEPT ![p] = m]
  /\ Changed(BaseOf[p], m)
  /\ UNCHANGED <<wanted, images, run, overlapped, tag>>

(* The branch's requirements change without one of these PRs.              *)
BranchMoves(b, m) ==
  /\ Wants(b) # m /\ Len(tip[b]) <= MaxChanges
  /\ Changed(b, m)
  /\ UNCHANGED <<wanted, state, merged, images, run, overlapped, tag>>

-----------------------------------------------------------------------------
(* A promotion run.                                                        *)

Resting(p) == run[p].step = "idle"

(* resolve-candidate: the digest in the newest status of the head.         *)
Resolve(p) ==
  /\ Resting(p) /\ published[p] # None
  /\ run' = [run EXCEPT ![p] = [NoRun EXCEPT !.step = "resolved", !.digest = published[p]]]
  /\ overlapped' = (overlapped \/ \E q \in PR : ~Resting(q))
  /\ UNCHANGED <<prs, images, tag>>

(* Mutant: only the merge commit's requirements are compared.              *)
Current_Merged(p, d) ==
  /\ state[p] = "merged"
  /\ image[d].pr = p /\ image[d].manifest = wanted[p]
  /\ merged[p] = wanted[p]

(* inspect_published, check_current and the requirements checked by        *)
(* verify_promotion: the merge commit's and then the branch's.             *)
Current(p, d) ==
  /\ state[p] = "merged"
  /\ image[d].pr = p /\ image[d].manifest = wanted[p]
  /\ merged[p] = wanted[p]
  /\ Wants(BaseOf[p]) = wanted[p]

(* When the branch last had these requirements.                            *)
Version(b, m) ==
  LET had == {i \in DOMAIN tip[b] : tip[b][i] = m} IN
  CHOOSE i \in had : \A k \in had : k <= i

(* Mutant: another name for the default branch's tag.                      *)
Targets_Master(b) == {ChannelOf[b]} \cup IF b = Default THEN {"master"} ELSE {}

Targets(b) == {ChannelOf[b]} \cup IF b = Default THEN {Main} ELSE {}

Verify(p) ==
  /\ run[p].step = "resolved" /\ Current(p, run[p].digest)
  /\ run' = [run EXCEPT ![p].step = "verified", ![p].version = Version(BaseOf[p], wanted[p])]
  /\ UNCHANGED <<prs, images, overlapped, tag>>

(* Mutant: jobs that passed on another image of the head count.            *)
Tested_SameHead(p) == proven[p] # None

Tested(p) == proven[p] = run[p].digest

(* tested_candidate_jobs: the newest runs, on this very digest.            *)
CheckJobs(p) ==
  /\ run[p].step = "verified" /\ Tested(p)
  /\ run' = [run EXCEPT ![p].step = "copying", ![p].todo = Targets(BaseOf[p])]
  /\ UNCHANGED <<prs, images, overlapped, tag>>

(* Mutant: the tags in the other order.                                    *)
NextTag_MainFirst(p) == IF Main \in run[p].todo THEN Main ELSE ChannelOf[BaseOf[p]]

(* The channel is copied first, "main" after it.                           *)
NextTag(p) ==
  LET channel == ChannelOf[BaseOf[p]] IN IF channel \in run[p].todo THEN channel ELSE Main

Copy(p) ==
  /\ run[p].step = "copying"
  /\ LET t == NextTag(p)
         left == run[p].todo \ {t} IN
       /\ tag' = [tag EXCEPT ![t] = [digest |-> run[p].digest, version |-> run[p].version]]
       /\ run' = [run EXCEPT ![p] = IF left = {} THEN NoRun ELSE [@ EXCEPT !.todo = left]]
  /\ UNCHANGED <<prs, images, overlapped>>

(* A check fails, a call fails, the run is cancelled; it can be rerun.     *)
Fail(p) ==
  /\ ~Resting(p)
  /\ run' = [run EXCEPT ![p] = NoRun]
  /\ UNCHANGED <<prs, images, overlapped, tag>>

Next ==
  \/ \E p \in PR : \E d \in announced[p] : JobsSucceed(p, d)
  \/ \E p \in PR, m \in Manifest : Push(p, m) \/ Merge(p, m)
  \/ \E b \in Branch, m \in Manifest : BranchMoves(b, m)
  \/ \E p \in PR : CheckCurrent(p) \/ PostStatus(p) \/ JobsFail(p)
                     \/ Resolve(p) \/ Verify(p) \/ CheckJobs(p) \/ Copy(p) \/ Fail(p)

Spec == Init /\ [][Next]_vars
-----------------------------------------------------------------------------
PRsOK ==
  /\ wanted \in [PR -> Manifest] /\ merged \in [PR -> Manifest]
  /\ state \in [PR -> {"open", "merged"}]
  /\ tip \in [Branch -> Seq(Manifest)]
  /\ \A b \in Branch : Len(tip[b]) \in 1 .. MaxChanges + 1

ImagesOK ==
  /\ builds \in 0 .. MaxBuilds
  /\ image \in Seq([pr : PR, manifest : Manifest]) /\ Len(image) = builds
  /\ checked \in [PR -> 0 .. builds] /\ published \in [PR -> 0 .. builds]
  /\ announced \in [PR -> SUBSET (1 .. builds)]
  /\ proven \in [PR -> 0 .. builds] /\ passed \subseteq 1 .. builds

RunsOK ==
  /\ run \in [PR -> [step : {"idle", "resolved", "verified", "copying"}, digest : 0 .. builds,
                     todo : SUBSET Tags, version : 0 .. MaxChanges + 1]]
  /\ overlapped \in BOOLEAN
  /\ tag \in [Tags -> [digest : 0 .. builds, version : 0 .. MaxChanges + 1]]

TypeOK == PRsOK /\ ImagesOK /\ RunsOK

(* A tag only ever names an image that passed all jobs itself, of a merged *)
(* PR, built from the very requirements that were merged: a rebuild cannot *)
(* borrow the tests of another digest, and "main" serves the default       *)
(* branch alone.                                                           *)
OnlyTestedImages ==
  \A t \in Tags : tag[t].digest # None =>
    LET d == tag[t].digest
        p == image[d].pr IN
      /\ d \in passed
      /\ state[p] = "merged" /\ image[d].manifest = merged[p]
      /\ t \in Targets(BaseOf[p])

(* Branches with different names may share a channel.                      *)
Sole(t) == \A a, b \in Branch : t \in Targets(a) /\ t \in Targets(b) => a = b

(* A superseding requirements change prevents rollback: the tag of one     *)
(* branch never goes back to an image for requirements that branch had     *)
(* before, as far as it had changed when the image was verified.           *)
Advances == \A t \in Tags : Sole(t) => tag'[t].version >= tag[t].version
NoRollback == [][Advances]_vars

(* Promotions that run one at a time keep that promise.                    *)
RollbackOnlyByOverlap == [][overlapped \/ Advances]_vars

(* Then "main" never runs ahead of the default branch's channel, if no     *)
(* other branch shares that.                                               *)
MainFollowsChannel ==
  overlapped \/ ~Sole(ChannelOf[Default]) \/ tag[Main].version <= tag[ChannelOf[Default]].version

-----------------------------------------------------------------------------
(* What the proofs in PromotionProofs need besides.                        *)

ProvenInv == \A p \in PR : proven[p] # None => proven[p] \in passed

(* What a run has checked stays true until it ends: a merged PR's head and *)
(* merge commit no longer change, an image never does.                     *)
RunInv == \A p \in PR :
  LET d == run[p].digest IN
    /\ ~Resting(p) => d # None
    /\ run[p].step \in {"verified", "copying"} =>
         /\ state[p] = "merged"
         /\ image[d].pr = p /\ image[d].manifest = merged[p]
         /\ run[p].version \in 1 .. Len(tip[BaseOf[p]])
    /\ run[p].step = "copying" =>
         /\ d \in passed
         /\ run[p].todo \subseteq Targets(BaseOf[p]) /\ run[p].todo # {}

TestedInv == TypeOK /\ ProvenInv /\ RunInv /\ OnlyTestedImages

(* No tag is ahead of its branch.                                          *)
TagInv == \A b \in Branch : \A t \in Targets(b) : Sole(t) => tag[t].version <= Len(tip[b])

(* A run that never had company is the only one; no tag of its branch is   *)
(* ahead of it, and a channel it has copied has its version.               *)
AloneInv == ~overlapped => \A p \in PR :
  /\ \A q \in PR : ~Resting(p) /\ ~Resting(q) => p = q
  /\ run[p].step \in {"verified", "copying"} =>
       \A t \in Targets(BaseOf[p]) : Sole(t) => tag[t].version <= run[p].version
  /\ run[p].step = "copying" /\ ChannelOf[BaseOf[p]] \notin run[p].todo =>
       tag[ChannelOf[BaseOf[p]]].version = run[p].version

VersionInv == TestedInv /\ TagInv /\ AloneInv /\ MainFollowsChannel
=============================================================================
