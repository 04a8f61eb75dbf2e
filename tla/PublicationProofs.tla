------------------------- MODULE PublicationProofs --------------------------
(***************************************************************************)
(* Proofs about Publication, for every set of heads and forks and any      *)
(* number of runs, controller revisions, images and failures.              *)
(***************************************************************************)
EXTENDS Publication, SequenceTheorems, WellFoundedInduction, TLAPS

USE HeadAssumption, BoundAssumption

-----------------------------------------------------------------------------
(* Least and greatest elements.                                            *)

Less == {ss \in Nat \X Nat : ss[1] < ss[2]}

LEMMA NatWellFounded == IsWellFoundedOn(Less, Nat)
  BY ONLY NatLessThanWellFounded DEF OpToRel, Less

LEMMA Least ==
  ASSUME NEW S, S \subseteq Nat, S # {}
  PROVE  \E x \in S : \A y \in S : x <= y
<1>1. PICK x \in S : \A y \in S : ~ (<<y, x>> \in Less)
  BY NatWellFounded, WFMin
<1>2. \A y \in S : x <= y
  <2> SUFFICES ASSUME NEW y \in S PROVE x <= y
    OBVIOUS
  <2>1. x \in Nat /\ y \in Nat /\ <<y, x>> \in Nat \X Nat
    OBVIOUS
  <2>2. ~ (y < x)
    BY <1>1, <2>1 DEF Less
  <2> QED
    BY <2>1, <2>2
<1> QED
  BY <1>2

(* The newest of some runs is one of them.                                 *)
LEMMA NewestIn ==
  ASSUME NEW S, S \subseteq Run, S # {}
  PROVE  Max(S) \in S
<1> DEFINE older == {MaxRuns - x : x \in S}
<1>1. older \subseteq Nat /\ older # {}
  BY DEF Run
<1>2. PICK m \in older : \A o \in older : m <= o
  BY <1>1, Least
<1>3. PICK x \in S : m = MaxRuns - x
  BY <1>2
<1>4. \A y \in S : x >= y
  <2> SUFFICES ASSUME NEW y \in S PROVE x >= y
    OBVIOUS
  <2>1. MaxRuns - x <= MaxRuns - y
    BY <1>2, <1>3
  <2>2. x \in Int /\ y \in Int /\ MaxRuns \in Int
    BY DEF Run
  <2> QED
    BY <2>1, <2>2
<1> QED
  BY <1>4 DEF Max

ImageRecord == [head : Commit, revision : Revision, base : 0 .. MaxImages]

RunRecord ==
  [step : {"planned", "searching", "building", "tested", "pushed", "read", "posted",
           "success", "failed"},
   head : Commit, revision : Revision, listed : SUBSET Run,
   base : 0 .. MaxImages, image : 0 .. MaxImages, digest : 0 .. MaxImages]

-----------------------------------------------------------------------------
(* What an image was built on, by its recursive definition: such a         *)
(* function exists, since a base is always older than what is built on it. *)

Ordered ==
  /\ Len(image) \in Nat
  /\ \A d \in Image : image[d].base # None => image[d].base \in Image /\ image[d].base < d

OfFirst(n, f) ==
  f = [d \in 1 .. n |-> IF image[d].base = None THEN {} ELSE {image[d].base} \cup f[image[d].base]]

LEMMA BasesOfFirst ==
  ASSUME Ordered
  PROVE  \A n \in 0 .. Len(image) : \E f : OfFirst(n, f)
<1> DEFINE without == {n \in 0 .. Len(image) : ~ \E f : OfFirst(n, f)}
<1> SUFFICES ASSUME without # {} PROVE FALSE
  OBVIOUS
<1>1. without \subseteq Nat
  BY DEF Ordered
<1>2. PICK n \in without : \A m \in without : n <= m
  BY <1>1, Least
<1>3. n \in 0 .. Len(image) /\ n \in Nat /\ Len(image) \in Nat /\ ~ \E f : OfFirst(n, f)
  BY <1>2 DEF Ordered
<1>4. n # 0
  <2>1. ASSUME n = 0 PROVE OfFirst(n, <<>>)
    BY <2>1 DEF OfFirst
  <2> QED
    BY <1>3, <2>1
<1>5. PICK f : OfFirst(n - 1, f)
  <2>1. n - 1 \in 0 .. Len(image) /\ ~ (n <= n - 1)
    BY <1>3, <1>4
  <2>2. n - 1 \notin without
    BY <1>2, <2>1
  <2> QED
    BY <2>1, <2>2
<1> DEFINE last == IF image[n].base = None THEN {} ELSE {image[n].base} \cup f[image[n].base]
           g == [d \in 1 .. n |-> IF d = n THEN last ELSE f[d]]
<1>6. ASSUME NEW d \in 1 .. n
      PROVE  g[d] = IF image[d].base = None THEN {} ELSE {image[d].base} \cup g[image[d].base]
  <2>1. d \in Image /\ d \in Nat /\ (image[d].base # None => image[d].base \in 1 .. n - 1)
    BY <1>3 DEF Ordered, Image
  <2>2. \A c \in 1 .. n - 1 : g[c] = f[c]
    BY <1>3
  <2>3. CASE d = n
    BY <1>3, <2>1, <2>2, <2>3
  <2>4. CASE d # n
    <3>1. d \in 1 .. n - 1
      BY <1>3, <2>4
    <3>2. f[d] = IF image[d].base = None THEN {} ELSE {image[d].base} \cup f[image[d].base]
      BY <1>5, <3>1 DEF OfFirst
    <3> QED
      BY <2>1, <2>2, <3>1, <3>2
  <2> QED
    BY <2>3, <2>4
<1>7. OfFirst(n, g)
  BY <1>6 DEF OfFirst
<1> QED
  BY <1>3, <1>7

LEMMA BasesEquation ==
  ASSUME Ordered, NEW d \in Image
  PROVE  Bases[d] = IF image[d].base = None THEN {} ELSE {image[d].base} \cup Bases[image[d].base]
<1>1. \E f : f = [e \in Image |-> IF image[e].base = None THEN {} ELSE {image[e].base} \cup f[image[e].base]]
  <2>1. Len(image) \in 0 .. Len(image) /\ Image = 1 .. Len(image)
    BY DEF Ordered, Image
  <2>2. PICK f : OfFirst(Len(image), f)
    BY <2>1, BasesOfFirst
  <2> QED
    BY <2>1, <2>2 DEF OfFirst
<1>2. Bases = [e \in Image |-> IF image[e].base = None THEN {} ELSE {image[e].base} \cup Bases[image[e].base]]
  BY <1>1 DEF Bases
<1> QED
  BY <1>2

(* Approvals of single steps add up, by induction over the images.         *)
LEMMA ApprovalsAddUp == TypeOK /\ LinkInv => ApprovedBases
<1> SUFFICES ASSUME TypeOK, LinkInv PROVE ApprovedBases
  OBVIOUS
<1> DEFINE approved(d) == Bases[d] \cap crossed = {} =>
             \A b \in Bases[d] :
               /\ image[b].revision \in {LEGACY_CONTROLLER, image[d].revision}
               /\ ContractOf[image[b].head] = ContractOf[image[d].head]
               /\ image[b].head \notin Fork /\ image[d].head \notin Fork
           others == {d \in Image : ~ approved(d)}
<1>1. Ordered
  <2>1. Len(image) \in Nat /\ \A d \in Image : image[d].base \in Nat
    <3>1. \A d \in Image : image[d] \in ImageRecord
      BY ElementOfSeq DEF TypeOK, ImagesOK, Image, ImageRecord
    <3> QED
      BY <3>1 DEF TypeOK, ImagesOK, ImageRecord
  <2>2. \A d \in Image : image[d].base # None => image[d].base < d /\ d <= Len(image)
    BY <2>1 DEF LinkInv, Image
  <2> QED
    BY <2>1, <2>2 DEF Ordered, Image, None
<1>2. ASSUME others # {} PROVE FALSE
  <2>1. others \subseteq Nat
    BY DEF Image
  <2>2. PICK d \in others : \A c \in others : d <= c
    BY <1>2, <2>1, Least
  <2>3. d \in Image /\ d \in Nat
    BY <2>2 DEF Image
  <2> DEFINE b == image[d].base
  <2>4. b # None
    BY <1>1, <2>2, <2>3, BasesEquation
  <2>5. b \in Image /\ b < d /\ Bases[d] = {b} \cup Bases[b]
    BY <1>1, <2>3, <2>4, BasesEquation DEF Ordered
  <2>6. b \in Nat /\ ~ (d <= b)
    BY <2>3, <2>5 DEF Image
  <2>7. approved(b)
    BY <2>2, <2>5, <2>6
  <2>8. Bases[d] \cap crossed = {} => Fit(b, image[d].revision, image[d].head)
    BY <2>3, <2>4 DEF LinkInv
  <2>9. approved(d)
    BY <2>5, <2>7, <2>8 DEF Fit
  <2> QED
    BY <2>2, <2>9
<1> QED
  BY <1>2 DEF ApprovedBases
-----------------------------------------------------------------------------
(* How the invariant is kept.                                              *)

LEMMA Elements ==
  ASSUME TypeOK
  PROVE  /\ run \in Seq(RunRecord) /\ Len(run) \in Nat /\ DOMAIN run = 1 .. Len(run) /\ DOMAIN run \subseteq Run
         /\ \A r \in DOMAIN run : run[r] \in RunRecord
         /\ image \in Seq(ImageRecord) /\ Len(image) \in Nat /\ Image = 1 .. Len(image) /\ Image \subseteq 1 .. MaxImages
         /\ \A d \in Image : image[d] \in ImageRecord
<1>1. run \in Seq(RunRecord) /\ image \in Seq(ImageRecord)
  BY DEF TypeOK, RunsOK, ImagesOK, RunRecord, ImageRecord
<1>2. /\ Len(run) \in Nat /\ DOMAIN run = 1 .. Len(run) /\ Len(image) \in Nat
      /\ \A r \in 1 .. Len(run) : run[r] \in RunRecord
      /\ \A d \in 1 .. Len(image) : image[d] \in ImageRecord
  BY <1>1, LenProperties, ElementOfSeq
<1> QED
  BY <1>1, <1>2 DEF TypeOK, RunsOK, ImagesOK, Image, Run

LEMMA InitIInv == Init => IInv
<1> SUFFICES ASSUME Init PROVE IInv
  OBVIOUS
<1>1. /\ run = <<>> /\ image = <<>> /\ DOMAIN run = {} /\ Image = {}
      /\ newest = [h \in Commit |-> NoStatus] /\ tag = [h \in Commit |-> None]
  BY DEF Init, Image
<1>2. TypeOK
  <2>1. RunsOK /\ ImagesOK
    BY <1>1, EmptySeq DEF RunsOK, ImagesOK
  <2>2. AnnouncedOK
    BY <1>1 DEF Init, AnnouncedOK
  <2>3. faults \in 0 .. MaxFaults
    BY DEF Init
  <2> QED
    BY <2>1, <2>2, <2>3 DEF TypeOK
<1>3. LinkInv /\ RunInv
  BY <1>1 DEF LinkInv, RunInv
<1>4. StatusInv
  BY <1>1 DEF StatusInv, NoStatus
<1> QED
  BY <1>2, <1>3, <1>4 DEF IInv

(* What the invariant says of one run and of one status.                   *)
RunFits(r) == LET R == run[r] IN
  /\ R.listed \subseteq DOMAIN run
  /\ R.step = "searching" => R.head \notin Fork
  /\ R.base # None => R.base \in Image /\ Fit(R.base, R.revision, R.head)
  /\ R.image # None =>
       R.image \in Image /\ image[R.image].head = R.head /\ image[R.image].revision = R.revision
  /\ R.step \in {"tested", "pushed", "read"} => R.image # None
  /\ R.step = "pushed" => tag[R.head] # None
  /\ R.step = "read" => R.digest \in Image /\ (R.digest \in crossed \/ R.digest = R.image)

(* A run r goes on, and may move a tag, announce an image and be crossed   *)
(* by one: the other runs stay as they are, and what was announced holds.  *)
LEMMA RunStep ==
  ASSUME IInv, NEW r \in DOMAIN run, NEW e \in RunRecord, run' = [run EXCEPT ![r] = e],
         e.head = run[r].head, e.revision = run[r].revision,
         UNCHANGED <<image>>, faults' \in 0 .. MaxFaults,
         tag' \in [Commit -> Image \cup {None}], \A h \in Commit : tag[h] # None => tag'[h] # None,
         crossed \subseteq crossed', crossed' \subseteq Image,
         newest' \in [Commit -> {NoStatus} \cup [run : DOMAIN run, digest : Image]],
         \A h \in Commit : \/ newest'[h] = newest[h]
                           \/ /\ newest'[h].run = r /\ e.head = h /\ image[newest'[h].digest].head = h
                              /\ \/ newest'[h].digest \in crossed'
                                 \/ image[newest'[h].digest].revision = e.revision,
         RunFits(r)'
  PROVE  IInv'
<1>0. TypeOK /\ LinkInv /\ RunInv /\ StatusInv
  BY DEF IInv
<1>1. /\ run' \in Seq(RunRecord) /\ Len(run') = Len(run) /\ DOMAIN run' = DOMAIN run
      /\ run'[r] = e /\ \A q \in DOMAIN run \ {r} : run'[q] = run[q]
      /\ \A q \in DOMAIN run : run'[q].head = run[q].head /\ run'[q].revision = run[q].revision
  BY <1>0, Elements, ExceptSeq
<1>h. \A q \in DOMAIN run : run[q].head \in Commit
  BY <1>0, Elements DEF RunRecord
<1>2. Image' = Image /\ \A b, v, h : Fit(b, v, h) => Fit(b, v, h)'
  BY DEF Image, Fit
<1>3. TypeOK'
  BY <1>0, <1>1, <1>2 DEF TypeOK, RunsOK, ImagesOK, AnnouncedOK, RunRecord
<1>4. LinkInv'
  BY <1>0, <1>2 DEF LinkInv
<1>5. RunInv'
  <2>1. \A q \in DOMAIN run \ {r} : RunFits(q)'
    BY <1>0, <1>1, <1>h, <1>2 DEF RunInv, RunFits
  <2> QED
    BY <1>1, <2>1 DEF RunInv, RunFits
<1>6. StatusInv'
  <2> SUFFICES ASSUME NEW h \in Commit, newest'[h].run # None
               PROVE  /\ run'[newest'[h].run].head = h /\ image[newest'[h].digest].head = h
                      /\ \/ newest'[h].digest \in crossed'
                         \/ image[newest'[h].digest].revision = run'[newest'[h].run].revision
    BY DEF StatusInv
  <2>1. CASE newest'[h] = newest[h]
    <3>1. newest[h].run \in DOMAIN run
      BY <1>0, <2>1 DEF TypeOK, AnnouncedOK, NoStatus
    <3> QED
      BY <1>0, <1>1, <2>1, <3>1 DEF StatusInv
  <2>2. CASE newest'[h] # newest[h]
    BY <1>1, <2>2
  <2> QED
    BY <2>1, <2>2
<1> QED
  BY <1>3, <1>4, <1>5, <1>6 DEF IInv

(* Such a step that only concerns the run.                                 *)
LEMMA QuietStep ==
  ASSUME IInv, NEW r \in DOMAIN run, NEW e \in RunRecord, run' = [run EXCEPT ![r] = e],
         e.head = run[r].head, e.revision = run[r].revision,
         UNCHANGED <<image, tag, newest, crossed>>, faults' \in 0 .. MaxFaults, RunFits(r)'
  PROVE  IInv'
<1>1. TypeOK /\ AnnouncedOK
  BY DEF IInv, TypeOK
<1> QED
  BY <1>1, RunStep DEF AnnouncedOK

(* A run keeps its base and its image when it goes on to a step that asks  *)
(* for nothing else.                                                       *)
LEMMA StillFits ==
  ASSUME IInv, NEW r \in DOMAIN run, NEW e \in RunRecord, run' = [run EXCEPT ![r] = e],
         UNCHANGED <<image, crossed>>, e.head = run[r].head, e.revision = run[r].revision,
         e.listed \subseteq run[r].listed, e.base \in {None, run[r].base}, e.image \in {None, run[r].image},
         e.step = "searching" => run[r].step = "searching",
         e.step = "tested" => e.image # None, e.step \notin {"pushed", "read"}
  PROVE  RunFits(r)'
<1>1. RunFits(r) /\ run \in Seq(RunRecord) /\ DOMAIN run = 1 .. Len(run)
  BY Elements DEF IInv, RunInv, RunFits
<1>2. run'[r] = e /\ DOMAIN run' = DOMAIN run
  BY <1>1
<1>3. Image' = Image /\ \A b, v, h : Fit(b, v, h)' <=> Fit(b, v, h)
  BY DEF Image, Fit
<1> QED
  BY <1>1, <1>2, <1>3 DEF RunFits
-----------------------------------------------------------------------------
(* The actions.                                                            *)

LEMMA OtherStatusStep == ASSUME IInv, NEW h \in Commit, OtherStatus(h) PROVE IInv'
<1>1. Image' = Image /\ \A b, v, k : Fit(b, v, k)' <=> Fit(b, v, k)
  BY DEF OtherStatus, Image, Fit
<1>2. TypeOK'
  BY <1>1 DEF IInv, OtherStatus, Fault, TypeOK, RunsOK, ImagesOK, AnnouncedOK
<1>3. \A k \in Commit : newest'[k] = newest[k] \/ newest'[k] = NoStatus
  BY DEF OtherStatus, IInv, TypeOK, AnnouncedOK
<1>4. StatusInv'
  BY <1>3 DEF IInv, OtherStatus, StatusInv, NoStatus
<1> QED
  BY <1>1, <1>2, <1>4 DEF IInv, OtherStatus, LinkInv, RunInv

LEMMA PlanStep == ASSUME IInv, NEW h \in Commit, NEW v \in Revision, Plan(h, v) PROVE IInv'
<1> DEFINE e == [step |-> "planned", head |-> h, revision |-> v, listed |-> {},
                 base |-> None, image |-> None, digest |-> None]
<1>0. TypeOK /\ LinkInv /\ RunInv /\ StatusInv
  BY DEF IInv
<1>1. e \in RunRecord
  BY <1>0 DEF RunRecord, TypeOK, None
<1>n. PICK n \in Nat : n = Len(run) + 1
  BY <1>0, Elements
<1>2. /\ run' = Append(run, e) /\ run' \in Seq(RunRecord) /\ Len(run') = n
      /\ DOMAIN run' = DOMAIN run \cup {n}
      /\ run'[n] = e /\ \A q \in DOMAIN run : run'[q] = run[q]
  BY <1>0, <1>1, <1>n, Elements, AppendProperties, LenProperties DEF Plan
<1>3. Image' = Image /\ \A b, w, k : Fit(b, w, k)' <=> Fit(b, w, k)
  BY DEF Plan, Image, Fit
<1>4. TypeOK'
  <2>1. RunsOK'
    BY <1>0, <1>n, <1>2, Elements DEF Plan, RunsOK, RunRecord
  <2> QED
    BY <1>0, <1>2, <1>3, <2>1 DEF Plan, TypeOK, ImagesOK, AnnouncedOK
<1>5. LinkInv'
  BY <1>0, <1>3 DEF Plan, LinkInv
<1>6. RunInv'
  <2>1. \A q \in DOMAIN run : RunFits(q)'
    BY <1>0, <1>2, <1>3 DEF Plan, RunInv, RunFits
  <2>2. RunFits(n)'
    BY <1>2 DEF RunFits
  <2> QED
    BY <1>2, <2>1, <2>2 DEF RunInv, RunFits
<1>7. StatusInv'
  BY <1>0, <1>2 DEF Plan, StatusInv, TypeOK, AnnouncedOK, NoStatus
<1> QED
  BY <1>4, <1>5, <1>6, <1>7 DEF IInv

LEMMA DiscoverStep == ASSUME IInv, NEW r \in DOMAIN run, Discover(r) PROVE IInv'
<1>1. /\ TypeOK /\ RunFits(r) /\ run[r] \in RunRecord /\ DOMAIN run \subseteq Run /\ faults \in 0 .. MaxFaults
      /\ run \in Seq(RunRecord) /\ DOMAIN run = 1 .. Len(run)
  BY Elements DEF IInv, RunInv, RunFits, TypeOK
<1>2. UNCHANGED <<image, tag, newest, crossed, faults>> /\ run[r].step = "planned"
  BY DEF Discover, At
<1>3. CASE HeadOf(r) \in Fork \/ run[r].revision = LEGACY_CONTROLLER
  <2> DEFINE e == [run[r] EXCEPT !.step = "building"]
  <2>1. e \in RunRecord /\ run' = [run EXCEPT ![r] = e]
    BY <1>1, <1>3 DEF Discover, RunRecord
  <2>2. /\ e.head = run[r].head /\ e.revision = run[r].revision /\ e.listed = run[r].listed
        /\ e.base = run[r].base /\ e.image = run[r].image /\ e.step = "building"
    BY <1>1 DEF RunRecord
  <2>3. RunFits(r)'
    BY <1>2, <2>1, <2>2, StillFits
  <2> QED
    BY <1>1, <1>2, <2>1, <2>2, <2>3, QuietStep
<1>4. CASE ~ (HeadOf(r) \in Fork \/ run[r].revision = LEGACY_CONTROLLER)
  <2> DEFINE found == {q \in DOMAIN run : run[q].step = "success"}
             e == [run[r] EXCEPT !.step = "searching", !.listed = found]
  <2>1. e \in RunRecord /\ run' = [run EXCEPT ![r] = e]
    BY <1>1, <1>4 DEF Discover, RunRecord
  <2>2. /\ e.head = run[r].head /\ e.revision = run[r].revision /\ e.listed = found
        /\ e.base = run[r].base /\ e.image = run[r].image /\ e.step = "searching" /\ e.head \notin Fork
    BY <1>1, <1>4 DEF RunRecord, HeadOf
  <2>3. RunFits(r)'
    <3>1. run'[r] = e /\ DOMAIN run' = DOMAIN run
      BY <1>1, <2>1
    <3>2. Image' = Image /\ \A b, v, h : Fit(b, v, h)' <=> Fit(b, v, h)
      BY <1>2 DEF Image, Fit
    <3> HIDE DEF e
    <3> QED
      BY <1>1, <1>2, <2>2, <3>1, <3>2 DEF RunFits
  <2> QED
    BY <1>1, <1>2, <2>1, <2>2, <2>3, QuietStep
<1> QED
  BY <1>3, <1>4
LEMMA ExamineStep == ASSUME IInv, NEW r \in DOMAIN run, Examine(r) PROVE IInv'
<1>1. /\ TypeOK /\ RunFits(r) /\ StatusInv /\ run[r] \in RunRecord /\ DOMAIN run \subseteq Run
      /\ faults \in 0 .. MaxFaults /\ run \in Seq(RunRecord) /\ DOMAIN run = 1 .. Len(run)
  BY Elements DEF IInv, RunInv, RunFits, TypeOK
<1>2. /\ UNCHANGED <<image, tag, newest, crossed, faults>>
      /\ run[r].step = "searching" /\ run[r].head \notin Fork /\ run[r].listed # {}
  BY <1>1 DEF Examine, At, RunFits
<1> DEFINE q == Max(run[r].listed)
<1>3. q \in DOMAIN run
  BY <1>1, <1>2, NewestIn DEF RunFits
<1> HIDE DEF q
<1>4. CASE Eligible(r, q)
  <2> DEFINE s == newest[run[q].head]
             e == [run[r] EXCEPT !.step = "building", !.listed = {}, !.base = s.digest]
  <2>1. run[q].head \in Commit /\ s.run = q /\ s.digest \in Image /\ Image \subseteq 1 .. MaxImages
    <3>1. run[q].head \in Commit /\ s.run = q /\ q # None
      BY <1>1, <1>3, <1>4, Elements DEF Eligible, Names, HeadOf, RunRecord, None, Run
    <3>2. s \in {NoStatus} \cup [run : DOMAIN run, digest : Image]
      BY <1>1, <3>1 DEF TypeOK, AnnouncedOK
    <3> QED
      BY <1>1, <3>1, <3>2, Elements DEF NoStatus
  <2>2. /\ image[s.digest].head = run[q].head
        /\ s.digest \in crossed \/ image[s.digest].revision = run[q].revision
    BY <1>1, <1>3, <2>1 DEF StatusInv, None, Run
  <2>3. Fit(s.digest, run[r].revision, run[r].head)
    BY <1>2, <1>4, <2>2 DEF Fit, Eligible, Approved, HeadOf
  <2>4. e \in RunRecord /\ run' = [run EXCEPT ![r] = e]
    <3>. 1 .. MaxImages \subseteq 0 .. MaxImages
      OBVIOUS
    <3>0. s.digest \in 0 .. MaxImages
      BY <2>1
    <3>1. e \in RunRecord
      BY <1>1, <3>0 DEF RunRecord
    <3>2. run' = [run EXCEPT ![r].step = "building", ![r].listed = {}, ![r].base = s.digest]
      BY <1>4 DEF Examine, HeadOf, q
    <3> QED
      BY <1>1, <3>1, <3>2
  <2>5. /\ e.head = run[r].head /\ e.revision = run[r].revision /\ e.listed = {}
        /\ e.base = s.digest /\ e.image = run[r].image /\ e.step = "building"
    BY <1>1 DEF RunRecord
  <2>6. RunFits(r)'
    <3>1. run'[r] = e
      BY <1>1, <2>4
    <3>2. Image' = Image /\ \A b, v, h : Fit(b, v, h)' <=> Fit(b, v, h)
      BY <1>2 DEF Image, Fit
    <3> HIDE DEF e
    <3> QED
      BY <1>1, <1>2, <2>1, <2>3, <2>5, <3>1, <3>2 DEF RunFits
  <2> QED
    BY <1>1, <1>2, <2>4, <2>5, <2>6, QuietStep
<1>5. CASE ~ Eligible(r, q)
  <2> DEFINE e == [run[r] EXCEPT !.listed = @ \ {q}]
  <2>1. e \in RunRecord /\ run' = [run EXCEPT ![r] = e]
    BY <1>1, <1>5 DEF Examine, RunRecord, q
  <2>2. /\ e.head = run[r].head /\ e.revision = run[r].revision /\ e.listed \subseteq run[r].listed
        /\ e.base = run[r].base /\ e.image = run[r].image /\ e.step = "searching"
    BY <1>1, <1>2 DEF RunRecord
  <2>3. RunFits(r)'
    BY <1>2, <2>1, <2>2, StillFits
  <2> QED
    BY <1>1, <1>2, <2>1, <2>2, <2>3, QuietStep
<1> QED
  BY <1>4, <1>5

(* A step after which the run asks for no more than before.                *)
LEMMA PlainStep ==
  ASSUME IInv, NEW r \in DOMAIN run, BuildCold(r) \/ Conclude(r) \/ Fail(r) \/ Rerun(r)
  PROVE  IInv'
<1>1. /\ TypeOK /\ run[r] \in RunRecord /\ RunFits(r)
      /\ faults \in 0 .. MaxFaults /\ run \in Seq(RunRecord) /\ DOMAIN run = 1 .. Len(run)
  BY Elements DEF IInv, TypeOK, RunInv, RunFits
<1>2. UNCHANGED <<image, tag, newest, crossed>> /\ faults' \in 0 .. MaxFaults
  BY <1>1 DEF BuildCold, Conclude, Fail, Rerun, Fault
<1>3. ASSUME NEW e \in RunRecord, run' = [run EXCEPT ![r] = e],
             e.head = run[r].head, e.revision = run[r].revision, e.listed \subseteq run[r].listed,
             e.base \in {None, run[r].base}, e.image \in {None, run[r].image}, e.step # "searching",
             e.step = "tested" => e.image # None, e.step \notin {"pushed", "read"}
      PROVE  IInv'
  <2>1. RunFits(r)'
    BY <1>2, <1>3, StillFits
  <2> QED
    BY <1>2, <1>3, <2>1, QuietStep
<1>4. CASE BuildCold(r)
  <2> DEFINE e == [run[r] EXCEPT !.step = "building"]
  <2>1. e \in RunRecord /\ run' = [run EXCEPT ![r] = e]
    BY <1>1, <1>4 DEF BuildCold, RunRecord
  <2> QED
    BY <1>1, <1>3, <2>1 DEF RunRecord
<1>5. CASE Conclude(r)
  <2> DEFINE e == [run[r] EXCEPT !.step = "success"]
  <2>1. e \in RunRecord /\ run' = [run EXCEPT ![r] = e]
    BY <1>1, <1>5 DEF Conclude, RunRecord
  <2> QED
    BY <1>1, <1>3, <2>1 DEF RunRecord
<1>6. CASE Fail(r)
  <2> DEFINE e == [run[r] EXCEPT !.step = "failed", !.listed = {}]
  <2>1. e \in RunRecord /\ run' = [run EXCEPT ![r] = e]
    BY <1>1, <1>6 DEF Fail, RunRecord
  <2> QED
    BY <1>1, <1>3, <2>1 DEF RunRecord
<1>7. CASE run' = [run EXCEPT ![r].step = "planned", ![r].base = None,
                              ![r].image = None, ![r].digest = None]
  <2> DEFINE e == [run[r] EXCEPT !.step = "planned", !.base = None, !.image = None, !.digest = None]
  <2>1. e \in RunRecord /\ run' = [run EXCEPT ![r] = e]
    <3>0. None \in 0 .. MaxImages
      BY DEF None
    <3>1. e \in RunRecord
      BY <1>1, <3>0 DEF RunRecord
    <3> QED
      BY <1>1, <1>7, <3>1
  <2> QED
    BY <1>1, <1>3, <2>1 DEF RunRecord
<1>8. CASE run[r].image # None /\ run' = [run EXCEPT ![r].step = "tested", ![r].digest = None]
  <2> DEFINE e == [run[r] EXCEPT !.step = "tested", !.digest = None]
  <2>1. e \in RunRecord /\ run' = [run EXCEPT ![r] = e]
    <3>0. None \in 0 .. MaxImages
      BY DEF None
    <3>1. e \in RunRecord
      BY <1>1, <3>0 DEF RunRecord
    <3> QED
      BY <1>1, <1>8, <3>1
  <2> QED
    BY <1>1, <1>3, <1>8, <2>1 DEF RunRecord
<1> QED
  BY <1>4, <1>5, <1>6, <1>7, <1>8 DEF Rerun
LEMMA PushStep == ASSUME IInv, NEW r \in DOMAIN run, Push(r) PROVE IInv'
<1> DEFINE e == [run[r] EXCEPT !.step = "pushed"]
<1>1. /\ TypeOK /\ AnnouncedOK /\ RunFits(r) /\ run[r] \in RunRecord /\ faults \in 0 .. MaxFaults
      /\ run \in Seq(RunRecord) /\ DOMAIN run = 1 .. Len(run) /\ Image \subseteq 1 .. MaxImages
  BY Elements DEF IInv, RunInv, RunFits, TypeOK
<1>2. /\ UNCHANGED <<image, newest, crossed, faults>> /\ run[r].step = "tested"
      /\ tag' = [tag EXCEPT ![run[r].head] = run[r].image] /\ run' = [run EXCEPT ![r] = e]
  BY <1>1 DEF Push, At, HeadOf
<1>3. /\ e \in RunRecord /\ e.head = run[r].head /\ e.revision = run[r].revision /\ e.listed = run[r].listed
      /\ e.base = run[r].base /\ e.image = run[r].image /\ e.step = "pushed"
  BY <1>1 DEF RunRecord
<1>4. run[r].image # None /\ run[r].image \in Image /\ run[r].head \in Commit
  BY <1>1, <1>2 DEF RunFits, RunRecord
<1>5. /\ tag' \in [Commit -> Image \cup {None}] /\ \A h \in Commit : tag[h] # None => tag'[h] # None
      /\ tag'[run[r].head] # None
  BY <1>1, <1>2, <1>4 DEF AnnouncedOK
<1> HIDE DEF e
<1>6. RunFits(r)'
  <2>1. run'[r] = e /\ DOMAIN run' = DOMAIN run
    BY <1>1, <1>2
  <2>2. Image' = Image /\ \A b, v, h : Fit(b, v, h)' <=> Fit(b, v, h)
    BY <1>2 DEF Image, Fit
  <2> QED
    BY <1>1, <1>2, <1>3, <1>4, <1>5, <2>1, <2>2 DEF RunFits
<1> QED
  BY <1>1, <1>2, <1>3, <1>5, <1>6, RunStep DEF AnnouncedOK

LEMMA ReadDigestStep == ASSUME IInv, NEW r \in DOMAIN run, ReadDigest(r) PROVE IInv'
<1> DEFINE d == tag[run[r].head]
           e == [run[r] EXCEPT !.step = "read", !.digest = d]
<1>1. /\ TypeOK /\ AnnouncedOK /\ RunFits(r) /\ run[r] \in RunRecord /\ faults \in 0 .. MaxFaults
      /\ run \in Seq(RunRecord) /\ DOMAIN run = 1 .. Len(run) /\ Image \subseteq 1 .. MaxImages
  BY Elements DEF IInv, RunInv, RunFits, TypeOK
<1>2. /\ UNCHANGED <<image, tag, newest, faults>> /\ run[r].step = "pushed"
      /\ run' = [run EXCEPT ![r] = e]
      /\ crossed' = IF d = run[r].image THEN crossed ELSE crossed \cup {d}
  BY <1>1 DEF ReadDigest, At, HeadOf
<1>3. run[r].head \in Commit /\ d \in Image
  BY <1>1, <1>2 DEF RunFits, RunRecord, AnnouncedOK
<1>4. d \in 0 .. MaxImages
  <2>1. 1 .. MaxImages \subseteq 0 .. MaxImages
    OBVIOUS
  <2> QED
    BY <1>1, <1>3, <2>1
<1>5. /\ e \in RunRecord /\ e.head = run[r].head /\ e.revision = run[r].revision /\ e.listed = run[r].listed
      /\ e.base = run[r].base /\ e.image = run[r].image /\ e.step = "read" /\ e.digest = d
  BY <1>1, <1>4 DEF RunRecord
<1>6. crossed \subseteq crossed' /\ crossed' \subseteq Image
  BY <1>1, <1>2, <1>3 DEF AnnouncedOK
<1> HIDE DEF e
<1>7. RunFits(r)'
  <2>1. run'[r] = e /\ DOMAIN run' = DOMAIN run
    BY <1>1, <1>2
  <2>2. Image' = Image /\ \A b, v, h : Fit(b, v, h) => Fit(b, v, h)'
    BY <1>2, <1>6 DEF Image, Fit
  <2> QED
    BY <1>1, <1>2, <1>3, <1>5, <2>1, <2>2 DEF RunFits
<1> QED
  BY <1>1, <1>2, <1>5, <1>6, <1>7, RunStep DEF AnnouncedOK

LEMMA PostStatusStep == ASSUME IInv, NEW r \in DOMAIN run, PostStatus(r) PROVE IInv'
<1> DEFINE e == [run[r] EXCEPT !.step = "posted"]
           s == [run |-> r, digest |-> run[r].digest]
<1>1. /\ TypeOK /\ AnnouncedOK /\ RunFits(r) /\ run[r] \in RunRecord /\ faults \in 0 .. MaxFaults
      /\ run \in Seq(RunRecord) /\ DOMAIN run = 1 .. Len(run) /\ Image \subseteq 1 .. MaxImages
  BY Elements DEF IInv, RunInv, RunFits, TypeOK
<1>2. /\ UNCHANGED <<image, tag, crossed, faults>> /\ run[r].step = "read"
      /\ run' = [run EXCEPT ![r] = e] /\ newest' = [newest EXCEPT ![run[r].head] = s]
      /\ image[run[r].digest].head = run[r].head
  BY <1>1 DEF PostStatus, At, HeadOf
<1>3. /\ e \in RunRecord /\ e.head = run[r].head /\ e.revision = run[r].revision /\ e.listed = run[r].listed
      /\ e.base = run[r].base /\ e.image = run[r].image /\ e.step = "posted"
  BY <1>1 DEF RunRecord
<1>4. /\ run[r].head \in Commit /\ run[r].digest \in Image
      /\ run[r].digest \in crossed \/ image[run[r].digest].revision = run[r].revision
  BY <1>1, <1>2 DEF RunFits, RunRecord
<1>5. newest' \in [Commit -> {NoStatus} \cup [run : DOMAIN run, digest : Image]]
  BY <1>1, <1>2, <1>4 DEF AnnouncedOK
<1>6. \A h \in Commit : newest'[h] = IF h = run[r].head THEN s ELSE newest[h]
  BY <1>1, <1>2 DEF AnnouncedOK
<1>7. RunFits(r)'
  BY <1>2, <1>3, StillFits
<1> HIDE DEF e
<1>8. \A h \in Commit : \/ newest'[h] = newest[h]
                        \/ /\ newest'[h].run = r /\ e.head = h /\ image[newest'[h].digest].head = h
                           /\ \/ newest'[h].digest \in crossed'
                              \/ image[newest'[h].digest].revision = e.revision
  BY <1>2, <1>3, <1>4, <1>6
<1> QED
  BY <1>1, <1>2, <1>3, <1>5, <1>7, <1>8, RunStep DEF AnnouncedOK
LEMMA BuildStep == ASSUME IInv, NEW r \in DOMAIN run, Build(r) PROVE IInv'
<1> DEFINE i == [head |-> run[r].head, revision |-> run[r].revision, base |-> run[r].base]
<1>0. TypeOK /\ LinkInv /\ RunInv /\ StatusInv /\ AnnouncedOK
  BY DEF IInv, TypeOK
<1>1. /\ run[r] \in RunRecord /\ RunFits(r) /\ faults \in 0 .. MaxFaults /\ run \in Seq(RunRecord)
      /\ DOMAIN run = 1 .. Len(run) /\ image \in Seq(ImageRecord) /\ Len(image) \in Nat
      /\ Image = 1 .. Len(image) /\ Len(run) <= MaxRuns
  BY <1>0, Elements DEF RunInv, RunFits, TypeOK, RunsOK
<1>2. PICK n \in Nat : n = Len(image) + 1
  BY <1>1
<1> DEFINE e == [run[r] EXCEPT !.step = "tested", !.image = n]
<1>3. /\ UNCHANGED <<tag, newest, crossed, faults>> /\ run[r].step = "building"
      /\ image' = Append(image, i) /\ n <= MaxImages
  BY <1>1, <1>2 DEF Build, At, HeadOf
<1>4. i \in ImageRecord
  BY <1>1 DEF RunRecord, ImageRecord
<1>5. /\ image' \in Seq(ImageRecord) /\ Len(image') = n /\ image'[n] = i /\ Image' = Image \cup {n}
      /\ \A d \in Image : image'[d] = image[d]
  BY <1>1, <1>2, <1>3, <1>4, AppendProperties DEF Image
<1>6. n # None /\ n \in 0 .. MaxImages /\ n \in Image' /\ n \notin Image /\ \A d \in Image : d < n
  BY <1>1, <1>2, <1>3, <1>5 DEF None
<1>7. /\ e \in RunRecord /\ e.head = run[r].head /\ e.revision = run[r].revision /\ e.listed = run[r].listed
      /\ e.base = run[r].base /\ e.image = n /\ e.step = "tested"
  BY <1>1, <1>6 DEF RunRecord
<1>8. run' = [run EXCEPT ![r] = e]
  <2>1. run' = [run EXCEPT ![r].step = "tested", ![r].image = n]
    BY <1>2 DEF Build
  <2> QED
    BY <1>1, <2>1
<1> HIDE DEF e
<1>9. /\ run' \in Seq(RunRecord) /\ Len(run') = Len(run) /\ DOMAIN run' = DOMAIN run
      /\ run'[r] = e /\ \A q \in DOMAIN run \ {r} : run'[q] = run[q]
      /\ \A q \in DOMAIN run : run'[q].head = run[q].head /\ run'[q].revision = run[q].revision
  BY <1>1, <1>7, <1>8, ExceptSeq
<1>10. \A b \in Image : \A v, h : Fit(b, v, h) => Fit(b, v, h)'
  BY <1>3, <1>5 DEF Fit
<1>11. TypeOK'
  <2>1. RunsOK'
    BY <1>1, <1>9 DEF RunsOK, RunRecord
  <2>2. ImagesOK'
    BY <1>3, <1>5 DEF ImagesOK, ImageRecord
  <2>3. AnnouncedOK'
    <3>1. Image \subseteq Image' /\ tag' = tag /\ newest' = newest /\ crossed' = crossed
      BY <1>3, <1>5
    <3>2. tag \in [Commit -> Image' \cup {None}] /\ crossed \subseteq Image'
      BY <1>0, <3>1 DEF AnnouncedOK
    <3>3. newest \in [Commit -> {NoStatus} \cup [run : DOMAIN run', digest : Image']]
      <4>1. [run : DOMAIN run, digest : Image] \subseteq [run : DOMAIN run', digest : Image']
        BY <1>9, <3>1
      <4> QED
        BY <1>0, <4>1 DEF AnnouncedOK
    <3> QED
      BY <3>1, <3>2, <3>3 DEF AnnouncedOK
  <2> QED
    BY <1>0, <1>3, <2>1, <2>2, <2>3 DEF TypeOK
<1>12. LinkInv'
  <2>1. ASSUME NEW d \in Image
        PROVE  (image[d].base # None =>
          image[d].base < d /\ Fit(image[d].base, image[d].revision, image[d].head))'
    <3>1. image[d].base # None => image[d].base \in Image
      <4>1. image[d] \in ImageRecord /\ d \in 1 .. Len(image)
        BY <1>0, <1>1, Elements
      <4> QED
        BY <1>0, <1>1, <4>1 DEF LinkInv, ImageRecord, None
    <3> QED
      BY <1>0, <1>5, <1>10, <3>1 DEF LinkInv
  <2>2. (image[n].base # None =>
          image[n].base < n /\ Fit(image[n].base, image[n].revision, image[n].head))'
    BY <1>1, <1>5, <1>6, <1>10 DEF RunFits
  <2> QED
    BY <1>5, <2>1, <2>2 DEF LinkInv
<1>13. RunInv'
  <2>1. RunFits(r)'
    BY <1>1, <1>3, <1>5, <1>6, <1>7, <1>9, <1>10 DEF RunFits
  <2>2. ASSUME NEW q \in DOMAIN run \ {r} PROVE RunFits(q)'
    <3>1. RunFits(q)
      BY <1>0 DEF RunInv, RunFits
    <3> QED
      BY <1>3, <1>5, <1>9, <1>10, <3>1 DEF RunFits
  <2> QED
    BY <1>9, <2>1, <2>2 DEF RunInv, RunFits
<1>14. StatusInv'
  <2> SUFFICES ASSUME NEW h \in Commit, newest[h].run # None
               PROVE  /\ run'[newest[h].run].head = h /\ image'[newest[h].digest].head = h
                      /\ \/ newest[h].digest \in crossed
                         \/ image'[newest[h].digest].revision = run'[newest[h].run].revision
    BY <1>3 DEF StatusInv
  <2>1. newest[h].run \in DOMAIN run /\ newest[h].digest \in Image
    BY <1>0 DEF AnnouncedOK, NoStatus
  <2> QED
    BY <1>0, <1>5, <1>9, <2>1 DEF StatusInv
<1> QED
  BY <1>11, <1>12, <1>13, <1>14 DEF IInv

LEMMA Invariance == Spec => []IInv
<1>1. IInv /\ [Next]_vars => IInv'
  <2> SUFFICES ASSUME IInv, [Next]_vars PROVE IInv'
    OBVIOUS
  <2>1. CASE UNCHANGED vars
    <3>1. Image' = Image /\ \A b, v, h : Fit(b, v, h)' <=> Fit(b, v, h)
      BY <2>1 DEF vars, Image, Fit
    <3>2. TypeOK'
      BY <2>1, <3>1 DEF IInv, vars, TypeOK, RunsOK, ImagesOK, AnnouncedOK
    <3> QED
      BY <2>1, <3>1, <3>2 DEF vars, IInv, LinkInv, RunInv, StatusInv
  <2>2. CASE Next
    BY <2>2, PlanStep, OtherStatusStep, DiscoverStep, ExamineStep, PlainStep, BuildStep,
       PushStep, ReadDigestStep, PostStatusStep
    DEF Next
  <2> QED
    BY <2>1, <2>2
<1> QED
  BY InitIInv, <1>1, PTL DEF Spec

-----------------------------------------------------------------------------
(* The theorems.                                                           *)

(* Type correctness: runs, images, tags and statuses keep their domains;   *)
(* what is tagged or announced has been built.                             *)
THEOREM TypeCorrect == Spec => []TypeOK
  BY Invariance, PTL DEF IInv

(* find_source of candidate_reuse.py looks at one run and one status, and  *)
(* yet vouches for the whole chain of images below: for chains of any      *)
(* length, each was built under the same requirements, by the announcing   *)
(* revision or the reviewed first one, and never for a fork, unless one of *)
(* them was announced by a run that did not build it.                      *)
THEOREM BasesAreApproved == Spec => []ApprovedBases
<1>1. IInv => ApprovedBases
  BY ApprovalsAddUp DEF IInv
<1> QED
  BY Invariance, <1>1, PTL
=============================================================================
