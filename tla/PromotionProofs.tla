-------------------------- MODULE PromotionProofs ---------------------------
(***************************************************************************)
(* Proofs about Promotion, for every set of PRs and branches, any number   *)
(* of images and changes, and any number of promotions at a time.          *)
(***************************************************************************)
EXTENDS Promotion, SequenceTheorems, TLAPS

USE BranchAssumption, ChannelAssumption, BoundAssumption

(* What a branch wants now it has had since its last change.               *)
LEMMA VersionOfHead ==
  ASSUME NEW b, tip[b] \in Seq(Manifest), Len(tip[b]) > 0
  PROVE  Version(b, Wants(b)) = Len(tip[b])
<1> DEFINE had == {i \in DOMAIN tip[b] : tip[b][i] = Wants(b)}
<1>1. DOMAIN tip[b] = 1 .. Len(tip[b]) /\ Len(tip[b]) \in Nat
  OBVIOUS
<1>2. Len(tip[b]) \in had /\ \A k \in had : k <= Len(tip[b])
  BY <1>1 DEF Wants
<1>3. \A i \in had : (\A k \in had : k <= i) => i = Len(tip[b])
  BY <1>1, <1>2
<1> QED
  BY <1>2, <1>3 DEF Version

LEMMA TagsOfTargets == \A b \in Branch : Targets(b) \subseteq Tags
  BY DEF Targets, Tags

LEMMA MainIsSole == Sole(Main)
  BY DEF Sole, Targets, Main

LEMMA NextTagIsDue ==
  ASSUME NEW p \in PR, run[p].todo \subseteq Targets(BaseOf[p]), run[p].todo # {}
  PROVE  NextTag(p) \in run[p].todo
  BY DEF NextTag, Targets

(* The requirements of a branch only ever get longer, by one at a time.    *)
LEMMA ChangedGrows ==
  ASSUME NEW b \in Branch, NEW m \in Manifest, TypeOK, Changed(b, m), Len(tip[b]) <= MaxChanges
  PROVE  /\ tip' \in [Branch -> Seq(Manifest)]
         /\ \A c \in Branch : Len(tip'[c]) \in 1 .. MaxChanges + 1
         /\ \A c \in Branch : Len(tip[c]) \in Nat /\ Len(tip'[c]) \in Nat /\ Len(tip[c]) <= Len(tip'[c])
  BY DEF TypeOK, PRsOK, Changed

-----------------------------------------------------------------------------
LEMMA InitTested == Init => TestedInv
<1> SUFFICES ASSUME Init PROVE TestedInv
  OBVIOUS
<1>1. PRsOK
  <2>1. PICK m \in Manifest : tip = [b \in Branch |-> <<m>>] /\ merged = [p \in PR |-> m]
    BY DEF Init
  <2> QED
    BY <2>1 DEF Init, PRsOK
<1>2. ImagesOK
  BY DEF Init, ImagesOK, None
<1>3. RunsOK
  <2>1. run \in [PR -> [step : {"idle", "resolved", "verified", "copying"}, digest : 0 .. builds,
                        todo : SUBSET Tags, version : 0 .. MaxChanges + 1]]
    BY DEF Init, NoRun, None
  <2>2. tag \in [Tags -> [digest : 0 .. builds, version : 0 .. MaxChanges + 1]]
    BY DEF Init, NoTag, None
  <2> QED
    BY <2>1, <2>2 DEF Init, RunsOK
<1> QED
  BY <1>1, <1>2, <1>3
  DEF Init, TestedInv, TypeOK, ProvenInv, RunInv, OnlyTestedImages, Resting, NoRun, NoTag, None

LEMMA TypeStep == TestedInv /\ [Next]_vars => TypeOK'
<1> SUFFICES ASSUME TestedInv, [Next]_vars PROVE TypeOK'
  OBVIOUS
<1> USE DEF TestedInv, TypeOK, prs, images, None, NoRun
<1>0. Tags' = Tags
  BY DEF Tags
<1>a. UNCHANGED prs => PRsOK'
  BY DEF PRsOK
<1>b. UNCHANGED images => ImagesOK'
  BY DEF ImagesOK
<1>c. UNCHANGED <<run, overlapped, tag, builds>> => RunsOK'
  BY <1>0 DEF RunsOK
<1>1. ASSUME NEW p \in PR, NEW d \in announced[p], JobsSucceed(p, d) PROVE TypeOK'
  BY <1>1, <1>a, <1>c DEF JobsSucceed, ImagesOK
<1>2. ASSUME NEW p \in PR, NEW m \in Manifest, Push(p, m) PROVE TypeOK'
  <2>1. PRsOK'
    BY <1>2 DEF Push, PRsOK
  <2>2. ImagesOK'
    BY <1>2 DEF Push, ImagesOK
  <2> QED
    BY <1>2, <1>c, <2>1, <2>2 DEF Push
<1>3. ASSUME NEW p \in PR, NEW m \in Manifest, Merge(p, m) PROVE TypeOK'
  BY <1>3, <1>b, <1>c, ChangedGrows DEF Merge, PRsOK
<1>4. ASSUME NEW b \in Branch, NEW m \in Manifest, BranchMoves(b, m) PROVE TypeOK'
  BY <1>4, <1>b, <1>c, ChangedGrows DEF BranchMoves, PRsOK
<1>5. ASSUME NEW p \in PR, CheckCurrent(p) PROVE TypeOK'
  <2>1. ImagesOK'
    BY <1>5 DEF CheckCurrent, ImagesOK, PRsOK
  <2>2. RunsOK'
    BY <1>0, <1>5 DEF CheckCurrent, ImagesOK, RunsOK
  <2> QED
    BY <1>5, <1>a, <2>1, <2>2 DEF CheckCurrent
<1>6. ASSUME NEW p \in PR, PostStatus(p) PROVE TypeOK'
  BY <1>6, <1>a, <1>c DEF PostStatus, ImagesOK
<1>7. ASSUME NEW p \in PR, JobsFail(p) PROVE TypeOK'
  BY <1>7, <1>a, <1>c DEF JobsFail, ImagesOK
<1>8. ASSUME NEW p \in PR, Resolve(p) PROVE TypeOK'
  <2>1. published[p] \in 0 .. builds /\ 0 \in 0 .. builds /\ 0 \in 0 .. MaxChanges + 1
    BY DEF ImagesOK
  <2>2. RunsOK'
    BY <1>0, <1>8, <2>1 DEF Resolve, RunsOK
  <2> QED
    BY <1>8, <1>a, <1>b, <2>2 DEF Resolve
<1>9. ASSUME NEW p \in PR, Verify(p) PROVE TypeOK'
  <2>1. Version(BaseOf[p], wanted[p]) \in 0 .. MaxChanges + 1
    BY <1>9, VersionOfHead DEF Verify, Current, PRsOK
  <2> QED
    BY <1>0, <1>9, <1>a, <1>b, <2>1 DEF Verify, RunsOK
<1>10. ASSUME NEW p \in PR, CheckJobs(p) PROVE TypeOK'
  BY <1>0, <1>10, <1>a, <1>b, TagsOfTargets DEF CheckJobs, RunsOK
<1>11. ASSUME NEW p \in PR, Copy(p) PROVE TypeOK'
  <2>1. NextTag(p) \in Tags
    BY <1>11, NextTagIsDue, TagsOfTargets DEF Copy, RunInv, RunsOK
  <2>2. 0 \in 0 .. builds /\ 0 \in 0 .. MaxChanges + 1
    BY DEF ImagesOK
  <2>3. RunsOK'
    BY <1>0, <1>11, <2>1, <2>2 DEF Copy, RunsOK
  <2> QED
    BY <1>11, <1>a, <1>b, <2>3 DEF Copy
<1>12. ASSUME NEW p \in PR, Fail(p) PROVE TypeOK'
  <2>1. 0 \in 0 .. builds /\ 0 \in 0 .. MaxChanges + 1
    BY DEF ImagesOK
  <2>2. RunsOK'
    BY <1>0, <1>12, <2>1 DEF Fail, RunsOK
  <2> QED
    BY <1>12, <1>a, <1>b, <2>2 DEF Fail
<1>13. CASE UNCHANGED vars
  BY <1>13, <1>a, <1>b, <1>c DEF vars
<1> QED
  BY <1>1, <1>2, <1>3, <1>4, <1>5, <1>6, <1>7, <1>8, <1>9, <1>10, <1>11, <1>12, <1>13 DEF Next

(* What the tags and the runs say of an image stays true of it.            *)
LEMMA TestedStep == TestedInv /\ [Next]_vars => ProvenInv' /\ RunInv' /\ OnlyTestedImages'
<1> DEFINE Goal == ProvenInv /\ RunInv /\ OnlyTestedImages
<1> SUFFICES ASSUME TestedInv, [Next]_vars PROVE Goal'
  OBVIOUS
<1> USE DEF TestedInv, prs, images, Resting, None
<1>0. TypeOK /\ Tags' = Tags /\ \A b \in Branch : Targets(b)' = Targets(b)
  BY DEF Tags, Targets
<1>a. UNCHANGED <<proven, passed>> => ProvenInv'
  BY DEF ProvenInv
<1>b. UNCHANGED <<run, prs, image>> /\ passed \subseteq passed' => RunInv'
  BY <1>0 DEF RunInv
<1>c. UNCHANGED <<tag, prs, image>> /\ passed \subseteq passed' => OnlyTestedImages'
  BY <1>0 DEF OnlyTestedImages
<1>1. ASSUME NEW p \in PR, NEW d \in announced[p], JobsSucceed(p, d) PROVE Goal'
  BY <1>0, <1>1, <1>b, <1>c DEF JobsSucceed, ProvenInv, TypeOK, ImagesOK
<1>2. ASSUME NEW p \in PR, NEW m \in Manifest, Push(p, m) PROVE Goal'
  <2>1. UNCHANGED <<run, state, merged, tip, tag, image, passed>>
    BY <1>2 DEF Push
  <2>2. ProvenInv'
    BY <1>2 DEF Push, ProvenInv
  <2>3. RunInv'
    BY <2>1, <1>0 DEF RunInv
  <2>4. OnlyTestedImages'
    BY <2>1, <1>0 DEF OnlyTestedImages
  <2> QED
    BY <2>2, <2>3, <2>4
<1>3. ASSUME NEW p \in PR, NEW m \in Manifest, Merge(p, m) PROVE Goal'
  <2>1. UNCHANGED <<run, tag, image, passed>>
    BY <1>3 DEF Merge
  <2>2. \A q \in PR : state[q] = "merged" => state'[q] = "merged" /\ merged'[q] = merged[q]
    BY <1>0, <1>3 DEF Merge, TypeOK, PRsOK
  <2>3. \A b \in Branch : Len(tip[b]) \in Nat /\ Len(tip'[b]) \in Nat /\ Len(tip[b]) <= Len(tip'[b])
    <3>1. BaseOf[p] \in Branch /\ Changed(BaseOf[p], m) /\ Len(tip[BaseOf[p]]) <= MaxChanges
      BY <1>3 DEF Merge
    <3> QED
      BY <1>0, <3>1, ChangedGrows
  <2>4. RunInv'
    BY <2>1, <2>2, <2>3, <1>0 DEF RunInv
  <2>5. OnlyTestedImages'
    <3>1. \A d \in 1 .. builds : image[d] \in [pr : PR, manifest : Manifest]
      <4>1. image \in Seq([pr : PR, manifest : Manifest]) /\ Len(image) = builds
        BY <1>0 DEF TypeOK, ImagesOK
      <4> QED
        BY <4>1, ElementOfSeq
    <3>2. \A t \in Tags : tag[t].digest # None => tag[t].digest \in 1 .. builds
      BY <1>0 DEF TypeOK, ImagesOK, RunsOK
    <3>3. \A t \in Tags : tag[t].digest # None => image[tag[t].digest].pr \in PR
      BY <3>1, <3>2
    <3> QED
      BY <2>1, <2>2, <3>3, <1>0 DEF OnlyTestedImages
  <2> QED
    BY <1>3, <1>a, <2>4, <2>5 DEF Merge
<1>4. ASSUME NEW b \in Branch, NEW m \in Manifest, BranchMoves(b, m) PROVE Goal'
  <2>1. UNCHANGED <<run, state, merged, tag, image, proven, passed>>
    BY <1>4 DEF BranchMoves
  <2>2. \A c \in Branch : Len(tip[c]) \in Nat /\ Len(tip'[c]) \in Nat /\ Len(tip[c]) <= Len(tip'[c])
    <3>1. Changed(b, m) /\ Len(tip[b]) <= MaxChanges
      BY <1>4 DEF BranchMoves
    <3> QED
      BY <1>0, <3>1, ChangedGrows
  <2>3. RunInv'
    BY <2>1, <2>2, <1>0 DEF RunInv
  <2>4. OnlyTestedImages'
    BY <2>1, <1>0 DEF OnlyTestedImages
  <2> QED
    BY <2>1, <1>a, <2>3, <2>4
<1>5. ASSUME NEW p \in PR, CheckCurrent(p) PROVE Goal'
  <2>1. UNCHANGED <<run, prs, tag, proven, passed>>
    BY <1>5 DEF CheckCurrent
  <2>2. \A d \in 1 .. builds : image'[d] = image[d]
    BY <1>0, <1>5 DEF CheckCurrent, TypeOK, ImagesOK
  <2>3. RunInv'
    <3>1. \A q \in PR : ~Resting(q) => run[q].digest \in 1 .. builds
      BY <1>0 DEF RunInv, TypeOK, RunsOK, ImagesOK
    <3> QED
      BY <2>1, <2>2, <3>1, <1>0 DEF RunInv
  <2>4. OnlyTestedImages'
    <3>1. \A t \in Tags : tag[t].digest # None => tag[t].digest \in 1 .. builds
      BY <1>0 DEF TypeOK, RunsOK, ImagesOK
    <3> QED
      BY <2>1, <2>2, <3>1, <1>0 DEF OnlyTestedImages
  <2> QED
    BY <2>1, <1>a, <2>3, <2>4
<1>6. ASSUME NEW p \in PR, PostStatus(p) PROVE Goal'
  BY <1>6, <1>a, <1>b, <1>c DEF PostStatus
<1>7. ASSUME NEW p \in PR, JobsFail(p) PROVE Goal'
  BY <1>0, <1>7, <1>b, <1>c DEF JobsFail, ProvenInv, TypeOK, ImagesOK
<1>8. ASSUME NEW p \in PR, Resolve(p) PROVE Goal'
  BY <1>0, <1>8, <1>a, <1>c DEF Resolve, RunInv, NoRun, TypeOK, RunsOK
<1>9. ASSUME NEW p \in PR, Verify(p) PROVE Goal'
  <2>1. Version(BaseOf[p], wanted[p]) \in 1 .. Len(tip[BaseOf[p]])
    BY <1>0, <1>9, VersionOfHead DEF Verify, Current, TypeOK, PRsOK
  <2>2. RunInv'
    BY <1>0, <1>9, <2>1 DEF Verify, Current, RunInv, TypeOK, RunsOK
  <2> QED
    BY <1>9, <1>a, <1>c, <2>2 DEF Verify
<1>10. ASSUME NEW p \in PR, CheckJobs(p) PROVE Goal'
  <2>1. Targets(BaseOf[p]) # {}
    BY DEF Targets
  <2>2. run[p].digest \in passed
    BY <1>10 DEF CheckJobs, Tested, RunInv, ProvenInv
  <2>3. RunInv'
    BY <1>0, <1>10, <2>1, <2>2 DEF CheckJobs, RunInv, TypeOK, RunsOK
  <2> QED
    BY <1>10, <1>a, <1>c, <2>3 DEF CheckJobs
<1>11. ASSUME NEW p \in PR, Copy(p) PROVE Goal'
  <2>1. /\ NextTag(p) \in Targets(BaseOf[p]) /\ run[p].digest \in passed
        /\ state[p] = "merged" /\ image[run[p].digest].pr = p
        /\ image[run[p].digest].manifest = merged[p]
    BY <1>11, NextTagIsDue DEF Copy, RunInv
  <2>2. RunInv'
    <3>1. UNCHANGED <<state, merged, image, tip, passed>>
      BY <1>11 DEF Copy
    <3>2. \A q \in PR \ {p} : run'[q] = run[q]
      BY <1>0, <1>11 DEF Copy, TypeOK, RunsOK
    <3>3. run[p] \in [step : {"idle", "resolved", "verified", "copying"}, digest : 0 .. builds,
                      todo : SUBSET Tags, version : 0 .. MaxChanges + 1]
      BY <1>0 DEF TypeOK, RunsOK
    <3>4. \/ run'[p] = NoRun
          \/ /\ run'[p].digest = run[p].digest /\ run'[p].version = run[p].version
             /\ run'[p].step = "copying"
             /\ run'[p].todo \subseteq run[p].todo /\ run'[p].todo # {}
      <4> DEFINE rest == run[p].todo \ {NextTag(p)}
      <4>1. run'[p] = IF rest = {} THEN NoRun ELSE [run[p] EXCEPT !.todo = rest]
        BY <1>0, <1>11 DEF Copy, TypeOK, RunsOK
      <4> QED
        BY <1>11, <3>3, <4>1 DEF Copy
    <3> QED
      BY <1>0, <1>11, <3>1, <3>2, <3>4 DEF Copy, RunInv, NoRun
  <2>3. OnlyTestedImages'
    BY <1>0, <1>11, <2>1, TagsOfTargets DEF Copy, OnlyTestedImages, TypeOK, RunsOK
  <2> QED
    BY <1>11, <1>a, <2>2, <2>3 DEF Copy
<1>12. ASSUME NEW p \in PR, Fail(p) PROVE Goal'
  BY <1>0, <1>12, <1>a, <1>c DEF Fail, RunInv, NoRun, TypeOK, RunsOK
<1>13. CASE UNCHANGED vars
  BY <1>13, <1>a, <1>b, <1>c DEF vars
<1> QED
  BY <1>1, <1>2, <1>3, <1>4, <1>5, <1>6, <1>7, <1>8, <1>9, <1>10, <1>11, <1>12, <1>13 DEF Next

(* What holds of a promotion that runs alone, a tag that serves one branch *)
(* only, and a branch that changes meanwhile.                              *)
LEMMA VersionStep ==
  VersionInv /\ [Next]_vars => TagInv' /\ AloneInv' /\ MainFollowsChannel'
<1> DEFINE Goal == TagInv /\ AloneInv /\ MainFollowsChannel
<1> SUFFICES ASSUME VersionInv, [Next]_vars PROVE Goal'
  OBVIOUS
<1> USE DEF VersionInv, TestedInv, prs, images, Resting
<1>0. /\ TypeOK /\ Tags' = Tags /\ \A b \in Branch : Targets(b)' = Targets(b)
      /\ \A b \in Branch, t \in Tags : Len(tip[b]) \in Nat /\ tag[t].version \in Nat
      /\ \A q \in PR : BaseOf[q] \in Branch /\ run[q].version \in Nat
      /\ \A b \in Branch : ChannelOf[b] \in Targets(b) /\ ChannelOf[b] \in Tags
      /\ Main \in Targets(Default) /\ Main \in Tags
  BY DEF Tags, Targets, TypeOK, PRsOK, RunsOK
<1>a. ASSUME UNCHANGED tag,
             \A b \in Branch : Len(tip'[b]) \in Nat /\ Len(tip[b]) <= Len(tip'[b])
      PROVE  TagInv'
  BY <1>0, <1>a, TagsOfTargets DEF TagInv
<1>b. UNCHANGED <<run, tag, overlapped>> => AloneInv' /\ MainFollowsChannel'
  BY <1>0 DEF AloneInv, MainFollowsChannel
<1>c. UNCHANGED <<tag, tip>> => TagInv'
  BY <1>0 DEF TagInv
<1>d. UNCHANGED <<tag, overlapped>> => MainFollowsChannel'
  BY <1>0 DEF MainFollowsChannel
<1>1. ASSUME NEW p \in PR, NEW d \in announced[p], JobsSucceed(p, d) PROVE Goal'
  BY <1>1, <1>b, <1>c DEF JobsSucceed
<1>2. ASSUME NEW p \in PR, NEW m \in Manifest, Push(p, m) PROVE Goal'
  BY <1>2, <1>b, <1>c DEF Push
<1>3. ASSUME NEW p \in PR, NEW m \in Manifest, Merge(p, m) PROVE Goal'
  <2>1. BaseOf[p] \in Branch /\ Changed(BaseOf[p], m) /\ Len(tip[BaseOf[p]]) <= MaxChanges
    BY <1>3 DEF Merge
  <2>2. TagInv'
    BY <1>0, <1>3, <1>a, <2>1, ChangedGrows DEF Merge
  <2> QED
    BY <1>3, <1>b, <2>2 DEF Merge
<1>4. ASSUME NEW b \in Branch, NEW m \in Manifest, BranchMoves(b, m) PROVE Goal'
  <2>1. Changed(b, m) /\ Len(tip[b]) <= MaxChanges
    BY <1>4 DEF BranchMoves
  <2>2. TagInv'
    BY <1>0, <1>4, <1>a, <2>1, ChangedGrows DEF BranchMoves
  <2> QED
    BY <1>4, <1>b, <2>2 DEF BranchMoves
<1>5. ASSUME NEW p \in PR, CheckCurrent(p) PROVE Goal'
  BY <1>5, <1>b, <1>c DEF CheckCurrent
<1>6. ASSUME NEW p \in PR, PostStatus(p) PROVE Goal'
  BY <1>6, <1>b, <1>c DEF PostStatus
<1>7. ASSUME NEW p \in PR, JobsFail(p) PROVE Goal'
  BY <1>7, <1>b, <1>c DEF JobsFail
<1>8. ASSUME NEW p \in PR, Resolve(p) PROVE Goal'
  <2>1. UNCHANGED <<prs, tag>> /\ run'[p].step = "resolved" /\ \A q \in PR \ {p} : run'[q] = run[q]
    BY <1>0, <1>8 DEF Resolve, NoRun, TypeOK, RunsOK
  <2>2. ~overlapped' => ~overlapped /\ \A q \in PR : run[q].step = "idle"
    BY <1>8 DEF Resolve
  <2>3. AloneInv'
    BY <1>0, <2>1, <2>2 DEF AloneInv
  <2>4. MainFollowsChannel'
    BY <1>0, <2>1, <2>2 DEF MainFollowsChannel
  <2> QED
    BY <1>c, <2>1, <2>3, <2>4
<1>9. ASSUME NEW p \in PR, Verify(p) PROVE Goal'
  <2>1. Version(BaseOf[p], wanted[p]) = Len(tip[BaseOf[p]])
    BY <1>0, <1>9, VersionOfHead DEF Verify, Current, TypeOK, PRsOK
  <2>2. /\ UNCHANGED <<tip, tag, overlapped>> /\ run[p].step = "resolved"
        /\ run'[p].step = "verified" /\ run'[p].version = Len(tip[BaseOf[p]])
        /\ \A q \in PR \ {p} : run'[q] = run[q]
    BY <1>0, <1>9, <2>1 DEF Verify, TypeOK, RunsOK
  <2>3. \A t \in Targets(BaseOf[p]) : Sole(t) => tag[t].version <= Len(tip[BaseOf[p]])
    BY <1>0 DEF TagInv
  <2>4. AloneInv'
    BY <1>0, <2>2, <2>3 DEF AloneInv
  <2> QED
    BY <1>c, <1>d, <2>2, <2>4
<1>10. ASSUME NEW p \in PR, CheckJobs(p) PROVE Goal'
  <2>1. /\ UNCHANGED <<tip, tag, overlapped>> /\ run[p].step = "verified"
        /\ run'[p].step = "copying" /\ run'[p].version = run[p].version
        /\ run'[p].todo = Targets(BaseOf[p])
        /\ \A q \in PR \ {p} : run'[q] = run[q]
    BY <1>0, <1>10 DEF CheckJobs, TypeOK, RunsOK
  <2>2. AloneInv'
    BY <1>0, <2>1 DEF AloneInv
  <2> QED
    BY <1>c, <1>d, <2>1, <2>2
<1>11. ASSUME NEW p \in PR, Copy(p) PROVE Goal'
  <2> DEFINE b == BaseOf[p]
             t == NextTag(p)
  <2>1. /\ b \in Branch /\ run[p].step = "copying" /\ UNCHANGED <<tip, overlapped>>
        /\ t \in run[p].todo /\ t \in Targets(b) /\ t \in Tags
        /\ run[p].version <= Len(tip[b])
    BY <1>0, <1>11, NextTagIsDue, TagsOfTargets DEF Copy, RunInv
  <2>2. /\ tag'[t].version = run[p].version
        /\ \A u \in Tags \ {t} : tag'[u] = tag[u]
        /\ \A u \in Tags : tag'[u].version \in Nat
    BY <1>0, <1>11, <2>1 DEF Copy, TypeOK, RunsOK
  <2>3. Sole(t) => \A c \in Branch : t \in Targets(c) => c = b
    BY <2>1 DEF Sole
  <2>4. TagInv'
    BY <1>0, <2>1, <2>2, <2>3, TagsOfTargets DEF TagInv
  <2>5. /\ \A q \in PR \ {p} : run'[q] = run[q]
        /\ run'[p].step \in {"idle", "copying"}
        /\ run'[p].step = "copying" =>
             run'[p].version = run[p].version /\ run'[p].todo = run[p].todo \ {t}
    BY <1>0, <1>11 DEF Copy, NoRun, TypeOK, RunsOK
  <2>6. ~overlapped => \A u \in Targets(b) : Sole(u) => tag'[u].version <= run[p].version
    BY <1>0, <2>1, <2>2, TagsOfTargets DEF AloneInv
  <2>7. ~overlapped /\ ChannelOf[b] \notin run[p].todo \ {t} =>
          tag'[ChannelOf[b]].version = run[p].version
    BY <1>0, <2>1, <2>2 DEF AloneInv
  <2>8. ~overlapped => \A q \in PR \ {p} : run[q].step = "idle"
    BY <2>1 DEF AloneInv
  <2>9. AloneInv'
    BY <1>0, <2>1, <2>5, <2>6, <2>7, <2>8 DEF AloneInv
  <2>10. MainFollowsChannel'
    <3>1. CASE t = Main
      <4>1. ChannelOf[b] \notin run[p].todo /\ b = Default /\ ChannelOf[Default] # Main
        BY <1>0, <2>1, <3>1 DEF NextTag, Targets, Main
      <4> QED
        BY <1>0, <2>1, <2>2, <2>7, <3>1, <4>1 DEF MainFollowsChannel
    <3>2. CASE t # Main
      <4>1. tag'[Main] = tag[Main]
        BY <1>0, <2>2, <3>2
      <4>2. CASE t = ChannelOf[Default] /\ Sole(t)
        <5>1. b = Default
          BY <2>3, <4>2, BranchAssumption DEF Targets
        <5>2. Main \in Targets(b)
          BY <5>1 DEF Targets
        <5> QED
          BY <1>0, <2>1, <2>2, <2>6, <4>1, <4>2, <5>1, <5>2, MainIsSole DEF MainFollowsChannel
      <4>3. CASE t # ChannelOf[Default]
        BY <1>0, <2>1, <2>2, <4>1, <4>3 DEF MainFollowsChannel
      <4>4. CASE t = ChannelOf[Default] /\ ~Sole(t)
        BY <4>4 DEF MainFollowsChannel, Sole, Targets
      <4> QED
        BY <4>2, <4>3, <4>4
    <3> QED
      BY <3>1, <3>2
  <2> QED
    BY <2>4, <2>9, <2>10
<1>12. ASSUME NEW p \in PR, Fail(p) PROVE Goal'
  <2>1. /\ UNCHANGED <<tip, tag, overlapped>> /\ run'[p].step = "idle"
        /\ \A q \in PR \ {p} : run'[q] = run[q]
    BY <1>0, <1>12 DEF Fail, NoRun, TypeOK, RunsOK
  <2>2. AloneInv'
    BY <1>0, <2>1 DEF AloneInv
  <2> QED
    BY <1>c, <1>d, <2>1, <2>2
<1>13. CASE UNCHANGED vars
  BY <1>13, <1>b, <1>c DEF vars
<1> QED
  BY <1>1, <1>2, <1>3, <1>4, <1>5, <1>6, <1>7, <1>8, <1>9, <1>10, <1>11, <1>12, <1>13 DEF Next

-----------------------------------------------------------------------------
LEMMA TestedInvariance == Spec => []TestedInv
<1>1. TestedInv /\ [Next]_vars => TestedInv'
  BY TypeStep, TestedStep DEF TestedInv
<1> QED
  BY InitTested, <1>1, PTL DEF Spec

LEMMA VersionInvariance == Spec => []VersionInv
<1>1. Init => VersionInv
  <2> SUFFICES ASSUME Init PROVE VersionInv
    OBVIOUS
  <2>1. \A t \in Tags : tag[t].version = 0
    BY DEF Init, NoTag
  <2>2. \A b \in Branch : Len(tip[b]) = 1 /\ ChannelOf[b] \in Tags /\ Main \in Tags
    BY DEF Init, Tags
  <2>3. TagInv
    BY <2>1, <2>2, TagsOfTargets DEF TagInv
  <2> QED
    BY <2>1, <2>2, <2>3, InitTested
    DEF Init, VersionInv, AloneInv, MainFollowsChannel, Resting, NoRun
<1>2. VersionInv /\ [Next]_vars => VersionInv'
  BY TypeStep, TestedStep, VersionStep DEF VersionInv, TestedInv
<1> QED
  BY <1>1, <1>2, PTL DEF Spec

(* Every state of the release of images is well typed: the registry, the   *)
(* statuses and the runs of scripts/platform_request.py only ever name     *)
(* images that were built.                                                 *)
THEOREM TypeCorrect == Spec => []TypeOK
  BY TestedInvariance, PTL DEF TestedInv

(* However pushes, builds, jobs, merges and promotions interleave, and     *)
(* whether or not branches share a channel, promote only ever tags an      *)
(* image that passed all jobs itself, for a merged PR, with the            *)
(* requirements that were merged, and for that PR's branch.                *)
THEOREM TagsAreTested == Spec => []OnlyTestedImages
  BY TestedInvariance, PTL DEF TestedInv

(* While no two promotions overlap, promote never copies an older image    *)
(* over a newer one, on any tag that has one branch.                       *)
THEOREM NoRollbackAlone == Spec => RollbackOnlyByOverlap
<1>1. VersionInv /\ [Next]_vars => [overlapped \/ Advances]_vars
  <2> SUFFICES ASSUME VersionInv, Next, ~overlapped PROVE Advances
    BY DEF vars
  <2>1. \A t \in Tags : tag[t].version \in Nat
    BY DEF VersionInv, TestedInv, TypeOK, RunsOK
  <2>2. ASSUME UNCHANGED tag PROVE Advances
    BY <2>1, <2>2 DEF Advances
  <2>3. ASSUME NEW p \in PR, Copy(p) PROVE Advances
    <3>1. NextTag(p) \in Targets(BaseOf[p]) /\ run[p].step = "copying"
      BY <2>3, NextTagIsDue DEF Copy, VersionInv, TestedInv, RunInv
    <3>2. Sole(NextTag(p)) => tag[NextTag(p)].version <= run[p].version
      BY <3>1 DEF VersionInv, AloneInv
    <3> QED
      BY <2>1, <2>3, <3>2
      DEF Copy, Advances, VersionInv, TestedInv, TypeOK, RunsOK
  <2> QED
    BY <2>2, <2>3
    DEF Next, JobsSucceed, Push, Merge, BranchMoves, CheckCurrent, PostStatus, JobsFail,
        Resolve, Verify, CheckJobs, Fail
<1> QED
  BY <1>1, VersionInvariance, PTL DEF Spec, RollbackOnlyByOverlap

(* Then "main" never serves requirements the default branch's own channel  *)
(* has not got, if it has one of its own: promote copies it first.         *)
THEOREM MainNeverAhead == Spec => []MainFollowsChannel
  BY VersionInvariance, PTL DEF VersionInv
=============================================================================
