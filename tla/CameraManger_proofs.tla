------------------------ MODULE CameraManger_proofs ------------------------
(***************************************************************************)
(* Proofs about the registry, for any names and any number of sets: that   *)
(* the camera of index i stays at position i, and that a group of images   *)
(* built from the registry is complete.                                    *)
(*                                                                         *)
(* AddCamera either fails audibly or appends the camera at the next place  *)
(* (AddCameraLemma), so AddCameras either fails or appends all cameras of  *)
(* a set (AddCamerasLemma), and every action is the adds of one set or     *)
(* clear().  What a group has after the image of each camera (StereoAfter) *)
(* follows by induction on the number of images, from the order in which   *)
(* InStereoOrder keeps the cameras: no image makes the group smaller than  *)
(* an earlier one needs it.                                                *)
(***************************************************************************)
EXTENDS CameraManger, FiniteSetTheorems, SequenceTheorems, WellFoundedInduction, TLAPS

-----------------------------------------------------------------------------
(* Sequences.                                                              *)

\* What is in a sequence after an append.
LEMMA RangeAppend ==
  ASSUME NEW S, NEW s \in Seq(S), NEW e
  PROVE  Range(Append(s, e)) = Range(s) \cup {e}
<1>1. DOMAIN Append(s, e) = 1..Len(s) + 1 /\ DOMAIN s = 1..Len(s) /\ Len(s) \in Nat
  OBVIOUS
<1>2. Append(s, e)[Len(s) + 1] = e /\ \A i \in 1..Len(s) : Append(s, e)[i] = s[i]
  BY <1>1
<1>3. \A x : x \in Range(Append(s, e)) <=> \E i \in 1..Len(s) + 1 : Append(s, e)[i] = x
  BY <1>1 DEF Range
<1>4. \A x : x \in Range(s) <=> \E i \in 1..Len(s) : s[i] = x
  BY <1>1 DEF Range
<1>5. \A i : i \in 1..Len(s) + 1 <=> i \in 1..Len(s) \/ i = Len(s) + 1
  BY <1>1
<1>6. QED
  BY <1>2, <1>3, <1>4, <1>5

\* An append keeps the type.
LEMMA AppendType ==
  ASSUME NEW S, NEW s \in Seq(S), NEW e \in S
  PROVE  Append(s, e) \in Seq(S)
OBVIOUS

\* A function on 1..n is a sequence of length n.
LEMMA FunctionIsSeq ==
  ASSUME NEW S, NEW n \in Nat, NEW f \in [1..n -> S]
  PROVE  f \in Seq(S) /\ Len(f) = n
OBVIOUS

\* The cameras of a set, in a sequence of sets of cameras in C.
LEMMA SetType ==
  ASSUME NEW C, NEW s \in Seq([name : Name, cams : Seq(C), stereo : BOOLEAN]),
         NEW k \in DOMAIN s
  PROVE  /\ s[k].stereo \in BOOLEAN
         /\ s[k].cams \in Seq(C) /\ DOMAIN s[k].cams = 1..Len(s[k].cams)
         /\ \A i \in 1..Len(s[k].cams) : s[k].cams[i] \in C
<1>1. PICK t \in [name : Name, cams : Seq(C), stereo : BOOLEAN] : t = s[k]
  <2>1. k \in 1..Len(s)
    OBVIOUS
  <2>2. QED
    BY <2>1, ElementOfSeq
<1>2. t.stereo \in BOOLEAN /\ t.cams \in Seq(C)
  OBVIOUS
<1>3. QED
  BY <1>1, <1>2

-----------------------------------------------------------------------------
(* The adds of cameras.                                                    *)

\* A registry of n cameras while it is being added to.
Registry(r, n) ==
  /\ r = [index |-> r.index, map |-> r.map, seq |-> r.seq,
          threw |-> r.threw, refused |-> r.refused]
  /\ r.index \in Seq(Int) /\ Len(r.index) = n
  /\ IsFiniteSet(DOMAIN r.map) /\ DOMAIN r.map \subseteq Nat
  /\ \A i \in DOMAIN r.map : r.map[i] \in 1..n
  /\ r.seq \in Seq(1..n)
  /\ r.threw \in BOOLEAN /\ r.refused \in BOOLEAN

\* No add of a camera has failed audibly.
Silent(r) == ~r.threw /\ ~r.refused

\* IndexIsPosition, for such a registry.
Placed(r) ==
  /\ DOMAIN r.map = 0..Len(r.seq) - 1
  /\ \A i \in 1..Len(r.seq) : r.index[r.seq[i]] = i - 1 /\ r.map[i - 1] = r.seq[i]

\* An add of a camera fails audibly or appends the camera at the next place,
\* whatever index the camera holds from an earlier life.
LEMMA AddCameraLemma ==
  ASSUME NEW n \in Nat, NEW r, NEW c \in 1..n, Registry(r, n)
  PROVE  /\ Registry(AddCamera(r, c), n)
         /\ Silent(AddCamera(r, c)) =>
              /\ Silent(r)
              /\ AddCamera(r, c).seq = Append(r.seq, c)
              /\ \A d \in 1..n \ {c} : AddCamera(r, c).index[d] = r.index[d]
              /\ Placed(r) => Placed(AddCamera(r, c))
<1> DEFINE k == IF r.index[c] < 0 THEN Cardinality(DOMAIN r.map) ELSE r.index[c]
           index == [r.index EXCEPT ![c] = k]
           map == [i \in DOMAIN r.map \cup {k} |-> IF i = k THEN c ELSE r.map[i]]
           seq == Append(r.seq, c)
           threw == \E i \in 1..Len(seq) : index[seq[i]] # i - 1
           q == [index |-> index, map |-> map, seq |-> seq, threw |-> threw,
                 refused |-> r.refused]
<1>1. Added(r, c) = q
  BY DEF Added
<1>2. k \in Nat
  BY FS_CardinalityType DEF Registry
<1>3. Registry(q, n)
  <2>1. index \in Seq(Int) /\ Len(index) = n
    BY <1>2, ExceptSeq DEF Registry
  <2>2. IsFiniteSet(DOMAIN map)
    BY FS_AddElement DEF Registry
  <2>3. DOMAIN map \subseteq Nat /\ \A i \in DOMAIN map : map[i] \in 1..n
    BY <1>2 DEF Registry
  <2>4. seq \in Seq(1..n)
    BY DEF Registry
  <2> HIDE DEF index, map, seq, threw
  <2>5. threw \in BOOLEAN
    BY DEF threw
  <2>6. QED
    BY <2>1, <2>2, <2>3, <2>4, <2>5 DEF Registry
<1>4. CASE r.threw
  BY <1>4 DEF AddCamera, Silent
<1>5. CASE ~r.threw /\ r.index[c] \in DOMAIN r.map
  <2>1. AddCamera(r, c) = [r EXCEPT !.refused = TRUE]
    BY <1>5 DEF AddCamera
  <2>2. QED
    BY <2>1 DEF Registry, Silent
<1>6. CASE ~r.threw /\ r.index[c] \notin DOMAIN r.map
  <2>1. AddCamera(r, c) = q
    BY <1>1, <1>6 DEF AddCamera
  <2>2. ASSUME Silent(q)
        PROVE  /\ Silent(r)
               /\ q.seq = Append(r.seq, c)
               /\ \A d \in 1..n \ {c} : q.index[d] = r.index[d]
    BY <1>6, <2>2 DEF Silent, Registry
  <2>3. ASSUME Silent(q), Placed(r)
        PROVE  Placed(q)
    <3>0. Len(r.seq) \in Nat /\ DOMAIN r.map = 0..Len(r.seq) - 1
      BY <2>3 DEF Placed, Registry
    <3>1. PICK l \in Nat : l = Len(r.seq) /\ DOMAIN r.map = 0..l - 1
      BY <3>0
    <3>2. /\ Len(seq) = l + 1 /\ seq[l + 1] = c
          /\ \A i \in 1..l : seq[i] = r.seq[i] /\ r.seq[i] \in 1..n
      BY <3>1 DEF Registry
    <3>3. \A i \in 1..l + 1 : index[seq[i]] = i - 1
      BY <2>3, <3>2 DEF Silent
    <3>4. index[c] = k
      BY DEF Registry
    <3>5. k = l
      <4> HIDE DEF index, seq
      <4>1. l + 1 \in 1..l + 1 /\ l + 1 - 1 = l
        OBVIOUS
      <4>2. index[seq[l + 1]] = l
        BY <3>3, <4>1
      <4>3. QED
        BY <3>2, <3>4, <4>2
    <3>6. DOMAIN map = 0..l /\ map[l] = c /\ \A i \in 1..l : map[i - 1] = r.map[i - 1]
      BY <3>1, <3>5
    <3>7. \A i \in 1..l : r.map[i - 1] = r.seq[i]
      BY <2>3, <3>1 DEF Placed
    <3>8. \A i \in 1..l + 1 : map[i - 1] = seq[i]
      <4> HIDE DEF map, seq
      <4>1. \A i \in 1..l + 1 : i \in 1..l \/ (i = l + 1 /\ i - 1 = l)
        OBVIOUS
      <4>2. QED
        BY <3>2, <3>6, <3>7, <4>1
    <3> HIDE DEF index, map, seq, threw
    <3>9. QED
      BY <3>1, <3>2, <3>3, <3>6, <3>8 DEF Placed
  <2>4. QED
    BY <1>3, <2>1, <2>2, <2>3
<1>7. QED
  BY <1>4, <1>5, <1>6

\* The registry of n cameras that the adds of set k start from.
Before(k, index, n) ==
  /\ n \in Nat /\ Len(camIndex) <= n
  /\ index \in Seq(Int) /\ Len(index) = n
  /\ \A c \in 1..Len(camIndex) : index[c] = camIndex[c]
  /\ sets'[k].stereo \in BOOLEAN /\ sets'[k].cams \in Seq(1..n)
  /\ Len(sets'[k].cams) = IF sets'[k].stereo THEN 2 ELSE 1

\* The registry r after them: the cameras of set k follow the ones before.
After(k, index, n, r) ==
  /\ Len(r.seq) = Len(vCamera) + Len(sets'[k].cams)
  /\ \A i \in 1..Len(vCamera) : r.seq[i] = vCamera[i]
  /\ \A i \in 1..Len(sets'[k].cams) : r.seq[Len(vCamera) + i] = sets'[k].cams[i]
  /\ \A c \in 1..n : c \notin Range(sets'[k].cams) => r.index[c] = index[c]

\* The adds of a set's cameras fail audibly or append all of them.
LEMMA AddCamerasLemma ==
  ASSUME TypeOK, NEW k, NEW index, NEW n, Before(k, index, n)
  PROVE  /\ Registry(AddCameras(k, index), n)
         /\ Silent(AddCameras(k, index)) =>
              /\ After(k, index, n, AddCameras(k, index))
              /\ IndexIsPosition /\ ~reported => Placed(AddCameras(k, index))
<1> DEFINE r0 == [index |-> index, map |-> mCamera, seq |-> vCamera,
                  threw |-> FALSE, refused |-> FALSE]
           cams == sets'[k].cams
           r1 == AddCamera(r0, cams[1])
           r2 == AddCamera(r1, cams[2])
<1>1. n \in Nat /\ cams \in Seq(1..n) /\ cams[1] \in 1..n /\ DOMAIN cams = 1..Len(cams)
  BY DEF Before
<1>2. Registry(r0, n)
  <2>1. vCamera \in Seq(1..n) /\ \A i \in DOMAIN mCamera : mCamera[i] \in 1..n
    <3>1. Camera \subseteq 1..n
      BY DEF TypeOK, Camera, Before
    <3>2. QED
      BY <3>1, SeqMonotonic DEF TypeOK
  <2>2. QED
    BY <2>1 DEF Registry, Before, TypeOK
<1>3. IndexIsPosition /\ ~reported => Placed(r0)
  <2>1. vCamera \in Seq(1..Len(camIndex)) /\ DOMAIN vCamera = 1..Len(vCamera)
    BY DEF TypeOK, Camera
  <2>2. \A i \in DOMAIN vCamera : index[vCamera[i]] = camIndex[vCamera[i]]
    <3>1. \A i \in DOMAIN vCamera : vCamera[i] \in 1..Len(camIndex)
      BY <2>1
    <3>2. QED
      BY <3>1 DEF Before
  <2>3. QED
    BY <2>1, <2>2 DEF IndexIsPosition, Placed
<1>4. /\ Registry(r1, n)
      /\ Silent(r1) =>
           /\ r1.seq = Append(vCamera, cams[1])
           /\ \A d \in 1..n \ {cams[1]} : r1.index[d] = index[d]
           /\ Placed(r0) => Placed(r1)
  <2>1. r0.seq = vCamera /\ r0.index = index
    OBVIOUS
  <2> HIDE DEF r0, r1, cams
  <2>2. r1 = AddCamera(r0, cams[1])
    BY DEF r1, cams
  <2>3. PICK c \in 1..n : c = cams[1]
    BY <1>1
  <2>4. /\ Registry(AddCamera(r0, c), n)
        /\ Silent(AddCamera(r0, c)) =>
             /\ AddCamera(r0, c).seq = Append(r0.seq, c)
             /\ \A d \in 1..n \ {c} : AddCamera(r0, c).index[d] = r0.index[d]
             /\ Placed(r0) => Placed(AddCamera(r0, c))
    BY <1>1, <1>2, AddCameraLemma
  <2>5. QED
    BY <2>1, <2>2, <2>3, <2>4
<1> HIDE DEF r0, r1
<1>5. vCamera \in Seq(Camera) /\ Len(vCamera) \in Nat
  BY DEF TypeOK
<1>6. CASE ~sets'[k].stereo
  <2>1. AddCameras(k, index) = r1 /\ Len(cams) = 1
    BY <1>6 DEF AddCameras, Before, r0, r1
  <2>2. Range(cams) = {cams[1]}
    BY <1>1, <2>1 DEF Range
  <2>3. ASSUME Silent(r1)
        PROVE  After(k, index, n, r1)
    BY <1>4, <1>5, <2>1, <2>2, <2>3 DEF After
  <2>4. QED
    BY <1>3, <1>4, <2>1, <2>3
<1>7. CASE sets'[k].stereo
  <2>1. AddCameras(k, index) = r2 /\ Len(cams) = 2
    BY <1>7 DEF AddCameras, Before, r0, r1
  <2>2. cams[2] \in 1..n /\ Range(cams) = {cams[1], cams[2]}
    BY <1>1, <2>1 DEF Range
  <2>3. /\ Registry(r2, n)
        /\ Silent(r2) =>
             /\ Silent(r1)
             /\ r2.seq = Append(r1.seq, cams[2])
             /\ \A d \in 1..n \ {cams[2]} : r2.index[d] = r1.index[d]
             /\ Placed(r1) => Placed(r2)
    BY <1>1, <1>4, <2>2, AddCameraLemma
  <2> HIDE DEF r2
  <2>4. ASSUME Silent(r2)
        PROVE  After(k, index, n, r2)
    <3>1. r2.seq = Append(Append(vCamera, cams[1]), cams[2])
      BY <1>4, <2>3, <2>4
    <3>2. /\ Len(r2.seq) = Len(vCamera) + 2
          /\ \A i \in 1..Len(vCamera) : r2.seq[i] = vCamera[i]
          /\ r2.seq[Len(vCamera) + 1] = cams[1] /\ r2.seq[Len(vCamera) + 2] = cams[2]
      BY <1>5, <3>1
    <3>3. \A c \in 1..n : c \notin Range(cams) => r2.index[c] = index[c]
      BY <1>4, <2>2, <2>3, <2>4
    <3>4. \A i \in 1..2 : i = 1 \/ i = 2
      OBVIOUS
    <3>5. QED
      BY <2>1, <3>2, <3>3, <3>4 DEF After
  <2>5. QED
    BY <1>3, <1>4, <2>1, <2>3, <2>4
<1>8. QED
  BY <1>6, <1>7 DEF Before

-----------------------------------------------------------------------------
(* The adds of a set.                                                      *)

\* The adds of set k, new or from before a clear(), when there are n cameras:
\* their indices and scIDs, those of the stereo cameras, and the registry r
\* after the adds of the cameras.
Adding(k, index, n, sc, stereo, r) ==
  /\ Before(k, index, n)
  /\ sc \in Seq(Int) /\ Len(sc) = n
  /\ \A c \in 1..Len(camIndex) : sc[c] = scID[c]
  /\ stereo \in Seq(Int) /\ Len(stereo) = Len(sets')
  /\ \A l \in DOMAIN sets : stereo[l] = stereoID[l]
  /\ sets' \in Seq([name : Name, cams : Seq(1..n), stereo : BOOLEAN])
  /\ \A l \in DOMAIN sets' : Len(sets'[l].cams) = IF sets'[l].stereo THEN 2 ELSE 1
  /\ DOMAIN sets \subseteq DOMAIN sets' /\ \A l \in DOMAIN sets : sets'[l] = sets[l]
  /\ k \in DOMAIN sets' /\ k \notin Range(vCameraImageFactory)
  /\ k \in made \/ (k \notin DOMAIN sets /\ stereo[k] = -1)
  /\ OneSet'
  /\ Registry(r, n)
  /\ Silent(r) => After(k, index, n, r) /\ (IndexIsPosition /\ ~reported => Placed(r))
  /\ AddSet(k, r, sc, stereo)

\* They keep the types ...
LEMMA AddingType ==
  ASSUME TypeOK, NEW k, NEW index, NEW n, NEW sc, NEW stereo, NEW r,
         Adding(k, index, n, sc, stereo, r)
  PROVE  TypeOK' /\ Camera' = 1..n
<1>1. n \in Nat /\ camIndex' \in Seq(Int) /\ Len(camIndex') = n /\ Camera' = 1..n
  BY DEF Adding, Before, AddSet, Registry, Camera
<1>2. scID' \in Seq(Int) /\ Len(scID') = n
  <2>1. CASE scID' = sc
    BY <2>1 DEF Adding
  <2>2. CASE scID' # sc
    <3>1. /\ scID' = [c \in DOMAIN sc |->
                        IF c \in Range(sets'[k].cams) THEN Len(vStereo) ELSE sc[c]]
          /\ DOMAIN sc = 1..n
      BY <2>2 DEF Adding, AddSet
    <3>a. Len(vStereo) \in Nat
      BY DEF TypeOK
    <3>b. \A c \in 1..n : sc[c] \in Int
      BY ElementOfSeq DEF Adding
    <3>2. Len(vStereo) \in Nat /\ \A c \in 1..n : sc[c] \in Int
      BY <3>a, <3>b
    <3>3. scID' \in [1..n -> Int]
      BY <3>1, <3>2
    <3>4. QED
      BY <1>1, <3>3
  <2>3. QED
    BY <2>1, <2>2
<1>3. /\ sets' \in Seq([name : Name, cams : Seq(Camera'), stereo : BOOLEAN])
      /\ \A l \in DOMAIN sets' : Len(sets'[l].cams) = IF sets'[l].stereo THEN 2 ELSE 1
  BY <1>1 DEF Adding
<1>4. stereoID' \in Seq(Int) /\ Len(stereoID') = Len(sets')
  <2>1. k \in 1..Len(stereo) /\ Len(vStereo) \in Int
    BY DEF Adding, TypeOK
  <2>2. /\ [stereo EXCEPT ![k] = Len(vStereo)] \in Seq(Int)
        /\ Len([stereo EXCEPT ![k] = Len(vStereo)]) = Len(stereo)
    BY <2>1, ExceptSeq DEF Adding
  <2>3. QED
    BY <2>2 DEF Adding, AddSet
<1>5. /\ vDevice \in Seq(DOMAIN sets') /\ vCameraImageFactory \in Seq(DOMAIN sets')
      /\ vStereo \in Seq(DOMAIN sets') /\ k \in DOMAIN sets'
  BY SeqMonotonic DEF TypeOK, Adding
<1>6. /\ vDevice' \in Seq(DOMAIN sets') /\ vCameraImageFactory' \in Seq(DOMAIN sets')
      /\ vStereo' \in Seq(DOMAIN sets')
  <2>1. /\ vDevice' = vDevice \/ vDevice' = Append(vDevice, k)
        /\ \/ vCameraImageFactory' = vCameraImageFactory
           \/ vCameraImageFactory' = Append(vCameraImageFactory, k)
        /\ vStereo' = vStereo \/ vStereo' = Append(vStereo, k)
    BY DEF Adding, AddSet, AddDevice
  <2>2. \A s \in Seq(DOMAIN sets') : Append(s, k) \in Seq(DOMAIN sets')
    BY <1>5, AppendType
  <2>3. QED
    BY <1>5, <2>1, <2>2
<1>7. /\ vCamera' \in Seq(1..n)
      /\ IsFiniteSet(DOMAIN mCamera') /\ DOMAIN mCamera' \subseteq Nat
      /\ \A i \in DOMAIN mCamera' : mCamera'[i] \in 1..n
  BY DEF Adding, AddSet, Registry
<1>8. made' \subseteq DOMAIN sets' /\ renumbered' \subseteq DOMAIN sets'
  BY <1>5 DEF TypeOK, Adding, AddSet
<1>9. reported' \in BOOLEAN
  BY DEF TypeOK, Adding, AddSet, Registry
<1>10. QED
  BY <1>1, <1>2, <1>3, <1>4, <1>6, <1>7, <1>8, <1>9 DEF TypeOK

\* ... the places of the cameras ...
LEMMA AddingPlaced ==
  ASSUME TypeOK, IndexIsPosition, NEW k, NEW index, NEW n, NEW sc, NEW stereo, NEW r,
         Adding(k, index, n, sc, stereo, r)
  PROVE  IndexIsPosition'
<1> SUFFICES ASSUME ~reported'
             PROVE  /\ DOMAIN mCamera' = 0..Len(vCamera') - 1
                    /\ \A i \in DOMAIN vCamera' :
                         camIndex'[vCamera'[i]] = i - 1 /\ mCamera'[i - 1] = vCamera'[i]
  BY DEF IndexIsPosition
<1>1. ~reported /\ Silent(r)
  BY DEF Adding, AddSet, Silent
<1>2. Placed(r)
  BY <1>1 DEF Adding
<1>3. camIndex' = r.index /\ mCamera' = r.map /\ vCamera' = r.seq /\ DOMAIN r.seq = 1..Len(r.seq)
  BY DEF Adding, AddSet, Registry
<1>4. QED
  BY <1>2, <1>3 DEF Placed

\* ... the scIDs ...
LEMMA AddingNumbered ==
  ASSUME TypeOK, Numbered, NEW k, NEW index, NEW n, NEW sc, NEW stereo, NEW r,
         Adding(k, index, n, sc, stereo, r)
  PROVE  Numbered'
<1>1. /\ k \in DOMAIN sets' /\ made \subseteq DOMAIN sets
      /\ \A l \in DOMAIN sets : sets'[l] = sets[l] /\ stereo[l] = stereoID[l]
      /\ Len(vStereo) \in Nat /\ vStereo \in Seq(DOMAIN sets)
      /\ DOMAIN stereo = 1..Len(stereo) /\ k \in DOMAIN stereo /\ DOMAIN sc = 1..n
      /\ DOMAIN sets \subseteq DOMAIN sets'
  <2>1. /\ k \in DOMAIN sets' /\ DOMAIN sets \subseteq DOMAIN sets'
        /\ \A l \in DOMAIN sets : sets'[l] = sets[l] /\ stereo[l] = stereoID[l]
    BY DEF Adding
  <2>2. made \subseteq DOMAIN sets /\ vStereo \in Seq(DOMAIN sets) /\ Len(vStereo) \in Nat
    BY DEF TypeOK
  <2>3. /\ DOMAIN stereo = 1..Len(stereo) /\ DOMAIN sets' = 1..Len(sets')
        /\ Len(stereo) = Len(sets')
    BY DEF Adding
  <2>4. DOMAIN sc = 1..n
    BY DEF Adding
  <2>5. QED
    BY <2>1, <2>2, <2>3, <2>4
<1>2. \A l \in DOMAIN sets : sets[l].stereo =>
        \A i \in 1..2 : sets[l].cams[i] \in 1..n /\ sc[sets[l].cams[i]] = scID[sets[l].cams[i]]
  <2>1. ASSUME NEW l \in DOMAIN sets, sets[l].stereo, NEW i \in 1..2
        PROVE  sets[l].cams[i] \in Camera
    <3>1. sets[l].cams \in Seq(Camera) /\ \A x \in 1..Len(sets[l].cams) : sets[l].cams[x] \in Camera
      BY SetType DEF TypeOK
    <3>2. Len(sets[l].cams) = 2
      BY <2>1 DEF TypeOK
    <3>3. QED
      BY <3>1, <3>2
  <2>2. Camera = 1..Len(camIndex) /\ Camera \subseteq 1..n
    BY DEF TypeOK, Camera, Adding, Before
  <2>3. QED
    BY <2>1, <2>2 DEF Adding
<1>3. \A l \in DOMAIN sets' : sets'[l].stereo =>
        \A i \in 1..2 : sets'[l].cams[i] \in 1..n /\ i \in DOMAIN sets'[l].cams
  <2>1. ASSUME NEW l \in DOMAIN sets', sets'[l].stereo, NEW i \in 1..2
        PROVE  sets'[l].cams[i] \in 1..n /\ i \in DOMAIN sets'[l].cams
    <3>1. /\ DOMAIN sets'[l].cams = 1..Len(sets'[l].cams)
          /\ \A x \in 1..Len(sets'[l].cams) : sets'[l].cams[x] \in 1..n
      BY SetType DEF Adding
    <3>2. Len(sets'[l].cams) = 2
      BY <2>1 DEF Adding
    <3>3. QED
      BY <3>1, <3>2
  <2>2. QED
    BY <2>1
<1>4. CASE r.threw \/ ~sets'[k].stereo
  <2>1. /\ stereoID' = stereo /\ scID' = sc /\ vStereo' = vStereo
        /\ renumbered' = renumbered
        /\ made' = IF r.threw THEN made ELSE made \cup {k}
    BY <1>4 DEF Adding, AddSet
  <2>2. ASSUME NEW l \in made', sets'[l].stereo
        PROVE  l \in made
    BY <1>4, <2>1, <2>2
  <2>3. ASSUME NEW l \in made, sets'[l].stereo
        PROVE  /\ stereoID'[l] >= 0
               /\ l \notin renumbered' =>
                    \A i \in 1..2 : scID'[sets'[l].cams[i]] = stereoID'[l]
    BY <1>1, <1>2, <2>1, <2>3 DEF Numbered
  <2>4. QED
    BY <2>1, <2>2, <2>3 DEF Numbered
<1>5. CASE ~r.threw /\ sets'[k].stereo
  <2> DEFINE id == Len(vStereo)
  <2>1. /\ stereoID' = [stereo EXCEPT ![k] = id]
        /\ vStereo' = Append(vStereo, k)
        /\ made' = made \cup {k}
        /\ k \notin DOMAIN sets => scID' = [c \in DOMAIN sc |->
                                     IF c \in Range(sets'[k].cams) THEN id ELSE sc[c]]
        /\ k \in DOMAIN sets => scID' = sc
        /\ renumbered' = IF vStereo' # vStereo /\ stereo[k] \notin {-1, id}
                         THEN renumbered \cup {k} ELSE renumbered
    BY <1>5 DEF Adding, AddSet
  <2>2. vStereo' # vStereo
    BY <1>1, <2>1
  <2>3. Range(vStereo') \subseteq made'
    BY <1>1, <2>1, RangeAppend DEF Numbered
  <2>4. /\ stereoID'[k] = id
        /\ k \notin renumbered' => \A i \in 1..2 : scID'[sets'[k].cams[i]] = id
    <3>1. CASE k \notin DOMAIN sets
      <4>1. \A i \in 1..2 : sets'[k].cams[i] \in Range(sets'[k].cams)
        BY <1>1, <1>3, <1>5 DEF Range
      <4>2. QED
        BY <1>1, <1>3, <1>5, <2>1, <3>1, <4>1
    <3>2. CASE k \in DOMAIN sets
      <4>1. k \in made /\ stereo[k] = stereoID[k] /\ sets'[k] = sets[k]
        BY <1>1, <3>2 DEF Adding
      <4>2. stereoID[k] >= 0 /\ stereoID[k] \in Int
        BY <1>5, <4>1, <3>2 DEF Numbered, TypeOK
      <4>3. k \notin renumbered' => stereoID[k] = id /\ k \notin renumbered
        BY <2>1, <2>2, <4>1, <4>2
      <4>4. QED
        BY <1>1, <1>2, <1>5, <2>1, <3>2, <4>1, <4>3 DEF Numbered
    <3>3. QED
      BY <3>1, <3>2
  <2>5. ASSUME NEW l \in made, l # k, sets'[l].stereo
        PROVE  /\ stereoID'[l] >= 0
               /\ l \notin renumbered' =>
                    \A i \in 1..2 : scID'[sets'[l].cams[i]] = stereoID'[l]
    <3>1. /\ l \in DOMAIN sets /\ sets'[l] = sets[l] /\ stereo[l] = stereoID[l]
          /\ l \in DOMAIN stereo
      BY <1>1, <2>5 DEF Adding, TypeOK
    <3>2. stereoID'[l] = stereoID[l] /\ (l \notin renumbered' => l \notin renumbered)
      BY <2>1, <2>5, <3>1
    <3>3. ASSUME NEW i \in 1..2
          PROVE  scID'[sets'[l].cams[i]] = scID[sets[l].cams[i]]
      <4>1. sets'[l].cams[i] \notin Range(sets'[k].cams)
        BY <1>1, <1>3, <2>5, <3>1 DEF Adding, OneSet, Range
      <4>2. PICK c \in 1..n : c = sets'[l].cams[i] /\ sc[c] = scID[sets[l].cams[i]]
        BY <1>2, <2>5, <3>1
      <4>3. scID'[c] = sc[c]
        BY <1>1, <2>1, <4>1, <4>2
      <4>4. QED
        BY <4>2, <4>3
    <3>4. QED
      BY <2>5, <3>1, <3>2, <3>3 DEF Numbered
  <2>6. QED
    BY <1>1, <2>1, <2>3, <2>4, <2>5 DEF Numbered
<1>6. QED
  BY <1>4, <1>5

\* ... the parts of the sets in the registry ...
LEMMA AddingWhole ==
  ASSUME TypeOK, Whole, NEW k, NEW index, NEW n, NEW sc, NEW stereo, NEW r,
         Adding(k, index, n, sc, stereo, r)
  PROVE  Whole'
<1> SUFFICES ASSUME ~reported'
             PROVE  /\ Range(vStereo') = {l \in Range(vCameraImageFactory') : sets'[l].stereo}
                    /\ \A l \in Range(vCameraImageFactory') :
                         Range(sets'[l].cams) \subseteq Range(vCamera')
  BY DEF Whole
<1>1. ~reported /\ Silent(r) /\ ~r.threw
  BY DEF Adding, AddSet, Silent
<1>2. /\ Range(vStereo) = {l \in Range(vCameraImageFactory) : sets[l].stereo}
      /\ \A l \in Range(vCameraImageFactory) : Range(sets[l].cams) \subseteq Range(vCamera)
  BY <1>1 DEF Whole
<1>3. vCameraImageFactory \in Seq(DOMAIN sets) /\ vStereo \in Seq(DOMAIN sets)
  BY DEF TypeOK
<1>4. Range(vCameraImageFactory) \subseteq DOMAIN sets
  BY <1>3 DEF Range
<1>5. \A l \in DOMAIN sets : sets'[l] = sets[l]
  BY DEF Adding
<1>6. Range(vCameraImageFactory') = Range(vCameraImageFactory) \cup {k}
  BY <1>1, <1>3, RangeAppend DEF Adding, AddSet
<1>7. Range(vStereo') = IF sets'[k].stereo THEN Range(vStereo) \cup {k} ELSE Range(vStereo)
  <2>1. vStereo' = IF sets'[k].stereo THEN Append(vStereo, k) ELSE vStereo
    BY <1>1 DEF Adding, AddSet
  <2>2. Range(Append(vStereo, k)) = Range(vStereo) \cup {k}
    BY <1>3, RangeAppend
  <2>3. QED
    BY <2>1, <2>2
<1>8. Range(vStereo') = {l \in Range(vCameraImageFactory') : sets'[l].stereo}
  BY <1>2, <1>4, <1>5, <1>6, <1>7
<1>9. Range(vCamera) \cup Range(sets'[k].cams) \subseteq Range(vCamera')
  <2>1. vCamera' = r.seq /\ After(k, index, n, r) /\ DOMAIN r.seq = 1..Len(r.seq)
    BY <1>1 DEF Adding, AddSet, Registry
  <2>2. DOMAIN vCamera = 1..Len(vCamera) /\ Len(vCamera) \in Nat
    BY DEF TypeOK
  <2>3. DOMAIN sets'[k].cams = 1..Len(sets'[k].cams) /\ Len(sets'[k].cams) \in Nat
    BY DEF Adding, Before
  <2>4. \A i \in 1..Len(vCamera) : i \in DOMAIN vCamera' /\ vCamera'[i] = vCamera[i]
    BY <2>1, <2>2, <2>3 DEF After
  <2>5. \A i \in 1..Len(sets'[k].cams) :
          /\ Len(vCamera) + i \in DOMAIN vCamera'
          /\ vCamera'[Len(vCamera) + i] = sets'[k].cams[i]
    BY <2>1, <2>2, <2>3 DEF After
  <2>6. QED
    BY <2>2, <2>3, <2>4, <2>5 DEF Range
<1>10. QED
  BY <1>2, <1>4, <1>5, <1>6, <1>8, <1>9

\* ... and the order of the stereo cameras: the new set comes last.
LEMMA AddingOrder ==
  ASSUME TypeOK, IndexIsPosition, Whole, InStereoOrder,
         NEW k, NEW index, NEW n, NEW sc, NEW stereo, NEW r,
         Adding(k, index, n, sc, stereo, r)
  PROVE  InStereoOrder'
<1> SUFFICES ASSUME ~reported'
             PROVE  /\ \A i \in DOMAIN vStereo' : stereoID'[vStereo'[i]] = i - 1
                    /\ \A i, j \in DOMAIN vStereo', x, y \in 1..2 : i < j =>
                         camIndex'[sets'[vStereo'[i]].cams[x]] < camIndex'[sets'[vStereo'[j]].cams[y]]
  BY DEF InStereoOrder
<1> DEFINE len == Len(vCamera)
           id == Len(vStereo)
<1>1. ~reported /\ Silent(r) /\ ~r.threw
  BY DEF Adding, AddSet, Silent
<1>2. Placed(r) /\ After(k, index, n, r) /\ camIndex' = r.index
  BY <1>1 DEF Adding, AddSet
<1>3. /\ len \in Nat /\ id \in Nat /\ DOMAIN vStereo = 1..id /\ DOMAIN vCamera = 1..len
      /\ \A i \in 1..id : vStereo[i] \in Range(vStereo) /\ vStereo[i] \in DOMAIN sets
  <2>1. vStereo \in Seq(DOMAIN sets) /\ vCamera \in Seq(Camera)
    BY DEF TypeOK
  <2>2. QED
    BY <2>1, ElementOfSeq DEF Range
<1>4. \A l \in Range(vStereo) : l # k /\ sets[l].stereo /\ l \in Range(vCameraImageFactory)
  BY <1>1 DEF Whole, Adding
<1>5. \A l \in DOMAIN sets : sets'[l] = sets[l] /\ stereo[l] = stereoID[l] /\ l \in DOMAIN sets'
  BY DEF Adding
<1>6. ASSUME NEW l \in Range(vStereo), NEW x \in 1..2
      PROVE  /\ camIndex'[sets'[l].cams[x]] = camIndex[sets[l].cams[x]]
             /\ camIndex[sets[l].cams[x]] \in 0..len - 1
  <2>1. l \in DOMAIN sets /\ sets'[l] = sets[l] /\ l # k /\ sets[l].stereo
    BY <1>3, <1>4, <1>5 DEF Range
  <2>2. /\ DOMAIN sets[l].cams = 1..2 /\ sets[l].cams[x] \in 1..Len(camIndex)
        /\ Len(camIndex) <= n /\ n \in Nat /\ Len(camIndex) \in Nat
    <3>1. Len(sets[l].cams) = 2
      BY <2>1 DEF TypeOK
    <3>2. /\ DOMAIN sets[l].cams = 1..Len(sets[l].cams)
          /\ \A i \in 1..Len(sets[l].cams) : sets[l].cams[i] \in Camera
      BY <2>1, SetType DEF TypeOK
    <3>3. Camera = 1..Len(camIndex) /\ Len(camIndex) \in Nat
      BY DEF Camera, TypeOK
    <3>4. Len(camIndex) <= n /\ n \in Nat
      BY DEF Adding, Before
    <3>5. QED
      BY <3>1, <3>2, <3>3, <3>4
  <2>3. sets'[l].cams[x] \notin Range(sets'[k].cams)
    <3>1. SUFFICES ASSUME NEW j \in DOMAIN sets'[k].cams, sets'[l].cams[x] = sets'[k].cams[j]
                   PROVE  FALSE
      BY DEF Range
    <3>2. l \in DOMAIN sets' /\ k \in DOMAIN sets' /\ x \in DOMAIN sets'[l].cams /\ OneSet'
      BY <1>5, <2>1, <2>2 DEF Adding
    <3>3. QED
      BY <2>1, <3>1, <3>2 DEF OneSet
  <2>4. camIndex'[sets'[l].cams[x]] = camIndex[sets[l].cams[x]]
    <3>1. PICK c \in 1..Len(camIndex) : c = sets[l].cams[x]
      BY <2>2
    <3>2. c \in 1..n /\ c \notin Range(sets'[k].cams)
      BY <2>1, <2>2, <2>3, <3>1
    <3>3. r.index[c] = index[c]
      BY <1>2, <3>2 DEF After
    <3>4. index[c] = camIndex[c]
      BY DEF Adding, Before
    <3>5. QED
      BY <1>2, <2>1, <3>1, <3>3, <3>4
  <2>5. sets[l].cams[x] \in Range(vCamera)
    <3>1. sets[l].cams[x] \in Range(sets[l].cams)
      BY <2>2 DEF Range
    <3>2. QED
      BY <1>1, <1>4, <3>1 DEF Whole
  <2>6. PICK p \in 1..len : vCamera[p] = sets[l].cams[x]
    BY <1>3, <2>5 DEF Range
  <2>7. camIndex[sets[l].cams[x]] = p - 1
    BY <1>1, <1>3, <2>6 DEF IndexIsPosition
  <2>8. QED
    BY <1>3, <2>4, <2>7
<1>7. CASE ~sets'[k].stereo
  <2>1. vStereo' = vStereo /\ stereoID' = stereo
    BY <1>7 DEF Adding, AddSet
  <2>2. \A i \in DOMAIN vStereo : stereoID'[vStereo[i]] = i - 1
    BY <1>1, <1>3, <1>5, <2>1 DEF InStereoOrder
  <2>3. QED
    BY <1>1, <1>3, <1>6, <2>1, <2>2 DEF InStereoOrder
<1>8. CASE sets'[k].stereo
  <2>1. vStereo' = Append(vStereo, k) /\ stereoID' = [stereo EXCEPT ![k] = id]
    BY <1>1, <1>8 DEF Adding, AddSet
  <2>2. /\ DOMAIN vStereo' = 1..id + 1 /\ vStereo'[id + 1] = k
        /\ \A i \in 1..id : vStereo'[i] = vStereo[i]
    BY <1>3, <2>1 DEF TypeOK
  <2>3. \A i \in 1..id + 1 : i \in 1..id \/ i = id + 1
    BY <1>3
  <2>4. stereoID'[k] = id /\ \A l \in DOMAIN sets : l # k => stereoID'[l] = stereoID[l]
    <3>1. DOMAIN stereo = DOMAIN sets'
      BY DEF Adding
    <3>2. k \in DOMAIN sets'
      BY DEF Adding
    <3>3. QED
      BY <1>5, <2>1, <3>1, <3>2
  <2>5. \A i \in 1..id : stereoID'[vStereo'[i]] = i - 1
    BY <1>1, <1>3, <1>4, <2>2, <2>4 DEF InStereoOrder
  <2>6. stereoID'[vStereo'[id + 1]] = id + 1 - 1
    BY <1>3, <2>2, <2>4
  <2>7. ASSUME NEW y \in 1..2
        PROVE  camIndex'[sets'[k].cams[y]] = len + y - 1
    <3>1. Len(sets'[k].cams) = 2
      BY <1>8 DEF Adding
    <3>2. r.seq[len + y] = sets'[k].cams[y] /\ Len(r.seq) = len + 2
      BY <1>2, <3>1 DEF After
    <3>3. len + y \in 1..len + 2
      BY <1>3
    <3>4. QED
      BY <1>2, <3>2, <3>3 DEF Placed
  <2>8. ASSUME NEW i \in 1..id, NEW x \in 1..2, NEW y \in 1..2
        PROVE  camIndex'[sets'[vStereo'[i]].cams[x]] < camIndex'[sets'[k].cams[y]]
    <3>1. vStereo'[i] \in Range(vStereo)
      BY <1>3, <2>2
    <3>2. camIndex'[sets'[vStereo'[i]].cams[x]] \in 0..len - 1
      BY <1>6, <3>1
    <3>3. QED
      BY <1>3, <2>7, <3>2
  <2>9. ASSUME NEW i \in 1..id, NEW j \in 1..id, NEW x \in 1..2, NEW y \in 1..2, i < j
        PROVE  camIndex'[sets'[vStereo'[i]].cams[x]] < camIndex'[sets'[vStereo'[j]].cams[y]]
    <3>1. vStereo'[i] = vStereo[i] /\ vStereo'[j] = vStereo[j]
      BY <2>2
    <3>2. camIndex[sets[vStereo[i]].cams[x]] < camIndex[sets[vStereo[j]].cams[y]]
      BY <1>1, <1>3, <2>9 DEF InStereoOrder
    <3>3. QED
      BY <1>3, <1>6, <3>1, <3>2
  <2>10. ASSUME NEW i \in DOMAIN vStereo', NEW j \in DOMAIN vStereo',
                NEW x \in 1..2, NEW y \in 1..2, i < j
         PROVE  camIndex'[sets'[vStereo'[i]].cams[x]] < camIndex'[sets'[vStereo'[j]].cams[y]]
    <3>1. i \in 1..id
      BY <1>3, <2>2, <2>10
    <3>2. CASE j \in 1..id
      BY <2>9, <2>10, <3>1, <3>2
    <3>3. CASE j = id + 1
      BY <2>2, <2>8, <3>1, <3>3
    <3>4. QED
      BY <2>2, <2>3, <3>2, <3>3
  <2>11. QED
    BY <2>2, <2>3, <2>5, <2>6, <2>10
<1>9. QED
  BY <1>7, <1>8

-----------------------------------------------------------------------------
(* The actions.                                                            *)

\* Some set is added, be it new or an old one.
SetAdded == \E k, index, n, sc, stereo, r : Adding(k, index, n, sc, stereo, r)

\* A set being created has cameras of its own, which hold no index yet.
LEMMA CreateAdding ==
  ASSUME TypeOK, OneSet, NEW name \in Name, NEW m \in 1..2, Create(name, m)
  PROVE  SetAdded
<1> DEFINE k == Len(sets) + 1
           base == Len(camIndex)
           n == base + m
           none == [i \in 1..m |-> -1]
           index == camIndex \o none
           sc == scID \o none
           stereo == Append(stereoID, -1)
           cams == [i \in 1..m |-> base + i]
           set == [name |-> name, cams |-> cams, stereo |-> m = 2]
           r == AddCameras(k, index)
<1>1. sets' = Append(sets, set) /\ AddSet(k, r, sc, stereo)
  BY DEF Create
<1>2. /\ base \in Nat /\ m \in Nat /\ n \in Nat /\ base <= n /\ Camera = 1..base
      /\ Len(scID) = base /\ Len(sets) \in Nat /\ DOMAIN sets = 1..Len(sets)
      /\ Len(stereoID) = Len(sets)
  BY DEF TypeOK, Camera
<1>3. none \in Seq(Int) /\ Len(none) = m
  <2>1. none \in [1..m -> Int]
    OBVIOUS
  <2>2. QED
    BY <1>2, <2>1
<1>4. /\ index \in Seq(Int) /\ Len(index) = n
      /\ \A c \in 1..base : index[c] = camIndex[c]
  BY <1>2, <1>3, ConcatProperties DEF TypeOK
<1>5. /\ sc \in Seq(Int) /\ Len(sc) = n
      /\ \A c \in 1..base : sc[c] = scID[c]
  BY <1>2, <1>3, ConcatProperties DEF TypeOK
<1>6. cams \in Seq(1..n) /\ Len(cams) = m /\ DOMAIN cams = 1..m
  <2>1. cams \in [1..m -> 1..n]
    BY <1>2
  <2>2. QED
    BY <1>2, <2>1
<1>7. /\ stereo \in Seq(Int) /\ Len(stereo) = Len(sets) + 1 /\ stereo[k] = -1
      /\ \A l \in DOMAIN sets : stereo[l] = stereoID[l]
  BY <1>2 DEF TypeOK
<1>8. sets' \in Seq([name : Name, cams : Seq(1..n), stereo : BOOLEAN])
  <2>1. Seq(Camera) \subseteq Seq(1..n)
    BY <1>2, SeqMonotonic
  <2>2. [name : Name, cams : Seq(Camera), stereo : BOOLEAN]
          \subseteq [name : Name, cams : Seq(1..n), stereo : BOOLEAN]
    BY <2>1
  <2>3. sets \in Seq([name : Name, cams : Seq(1..n), stereo : BOOLEAN])
    BY <2>2, SeqMonotonic DEF TypeOK
  <2> HIDE DEF cams
  <2>4. set \in [name : Name, cams : Seq(1..n), stereo : BOOLEAN]
    BY <1>6
  <2> HIDE DEF set
  <2>5. QED
    BY <1>1, <2>3, <2>4, AppendType
<1>9. /\ DOMAIN sets' = 1..Len(sets) + 1 /\ Len(sets') = Len(sets) + 1 /\ sets'[k] = set
      /\ \A l \in DOMAIN sets : sets'[l] = sets[l]
  <2> HIDE DEF set
  <2>1. QED
    BY <1>1, <1>2 DEF TypeOK
<1>10. /\ sets'[k].cams = cams /\ sets'[k].stereo \in BOOLEAN
       /\ m = IF sets'[k].stereo THEN 2 ELSE 1
  <2>1. set.cams = cams /\ set.stereo = (m = 2)
    OBVIOUS
  <2> HIDE DEF set
  <2>2. sets'[k].cams = cams /\ sets'[k].stereo = (m = 2)
    BY <1>9, <2>1
  <2>3. sets'[k].stereo \in BOOLEAN /\ (sets'[k].stereo <=> m = 2)
    BY <2>2, Zenon
  <2>4. m = 1 \/ m = 2
    OBVIOUS
  <2>5. QED
    BY <2>2, <2>3, <2>4
<1> HIDE DEF index, sc, stereo, cams, set, none
<1>11. Before(k, index, n)
  BY <1>2, <1>4, <1>6, <1>10 DEF Before
<1>12. \A l \in DOMAIN sets' : Len(sets'[l].cams) = IF sets'[l].stereo THEN 2 ELSE 1
  <2>1. \A l \in DOMAIN sets : Len(sets'[l].cams) = IF sets'[l].stereo THEN 2 ELSE 1
    BY <1>9 DEF TypeOK
  <2>2. Len(sets'[k].cams) = IF sets'[k].stereo THEN 2 ELSE 1
    BY <1>6, <1>10
  <2>3. QED
    BY <1>2, <1>9, <2>1, <2>2
<1>13. /\ DOMAIN sets \subseteq DOMAIN sets' /\ k \in DOMAIN sets' /\ k \notin DOMAIN sets
       /\ \A l \in DOMAIN sets' : l \in DOMAIN sets \/ l = k
  BY <1>2, <1>9
<1>14. k \notin Range(vCameraImageFactory)
  BY <1>13 DEF TypeOK, Range
<1>15. OneSet'
  <2>1. \A i \in DOMAIN cams : cams[i] = base + i /\ i \in 1..m
    BY DEF cams
  <2>2. ASSUME NEW l \in DOMAIN sets, NEW i \in DOMAIN sets[l].cams
        PROVE  sets[l].cams[i] \in 1..base
    BY <1>2, SetType DEF TypeOK
  <2>3. ASSUME NEW l \in DOMAIN sets, NEW i \in DOMAIN sets[l].cams, NEW j \in DOMAIN cams
        PROVE  sets[l].cams[i] # cams[j]
    <3>1. PICK c \in 1..base : c = sets[l].cams[i]
      BY <2>2
    <3>2. PICK d \in 1..m : d = j /\ cams[j] = base + d
      BY <2>1
    <3>3. QED
      BY <1>2, <3>1, <3>2
  <2>4. \A i, j \in DOMAIN cams : cams[i] = cams[j] => i = j
    BY <1>2, <2>1
  <2>5. SUFFICES ASSUME NEW l1 \in DOMAIN sets', NEW l2 \in DOMAIN sets',
                        NEW i \in DOMAIN sets'[l1].cams, NEW j \in DOMAIN sets'[l2].cams,
                        sets'[l1].cams[i] = sets'[l2].cams[j]
                 PROVE  l1 = l2 /\ i = j
    BY DEF OneSet
  <2>6. CASE l1 \in DOMAIN sets /\ l2 \in DOMAIN sets
    BY <1>9, <2>5, <2>6 DEF OneSet
  <2>7. CASE l1 \in DOMAIN sets /\ l2 = k
    BY <1>9, <1>10, <2>3, <2>5, <2>7
  <2>8. CASE l1 = k /\ l2 \in DOMAIN sets
    BY <1>9, <1>10, <2>3, <2>5, <2>8
  <2>9. CASE l1 = k /\ l2 = k
    BY <1>10, <2>4, <2>5, <2>9
  <2>10. QED
    BY <1>13, <2>6, <2>7, <2>8, <2>9
<1>16. /\ Registry(r, n)
       /\ Silent(r) => After(k, index, n, r) /\ (IndexIsPosition /\ ~reported => Placed(r))
  BY <1>11, AddCamerasLemma
<1> HIDE DEF k, n, r, base
<1>17. Adding(k, index, n, sc, stereo, r)
  BY <1>1, <1>4, <1>5, <1>7, <1>8, <1>9, <1>11, <1>12, <1>13, <1>14, <1>15, <1>16
     DEF Adding, base
<1>18. QED
  BY <1>17 DEF SetAdded

\* A set from before a clear() brings its cameras and what they hold.
LEMMA AgainAdding ==
  ASSUME TypeOK, OneSet, NEW k \in DOMAIN sets, AddAgain(k)
  PROVE  SetAdded
<1> DEFINE n == Len(camIndex)
           r == AddCameras(k, camIndex)
<1>1. /\ sets' = sets /\ AddSet(k, r, scID, stereoID)
      /\ k \in made /\ k \notin Range(vCameraImageFactory)
  BY DEF AddAgain
<1>2. n \in Nat /\ Camera = 1..n
  BY DEF TypeOK, Camera
<1>3. /\ sets[k].stereo \in BOOLEAN /\ sets[k].cams \in Seq(1..n)
      /\ Len(sets[k].cams) = IF sets[k].stereo THEN 2 ELSE 1
  BY <1>2, SetType DEF TypeOK
<1>4. Before(k, camIndex, n)
  BY <1>1, <1>2, <1>3 DEF Before, TypeOK
<1>5. OneSet'
  BY <1>1 DEF OneSet
<1>6. /\ Registry(r, n)
      /\ Silent(r) => After(k, camIndex, n, r) /\ (IndexIsPosition /\ ~reported => Placed(r))
  BY <1>4, AddCamerasLemma
<1> HIDE DEF r
<1>7. sets' \in Seq([name : Name, cams : Seq(1..n), stereo : BOOLEAN])
  BY <1>1, <1>2 DEF TypeOK
<1>8. /\ scID \in Seq(Int) /\ Len(scID) = n /\ stereoID \in Seq(Int) /\ Len(stereoID) = Len(sets')
      /\ \A l \in DOMAIN sets' : Len(sets'[l].cams) = IF sets'[l].stereo THEN 2 ELSE 1
  BY <1>1 DEF TypeOK
<1>9. Adding(k, camIndex, n, scID, stereoID, r)
  BY <1>1, <1>4, <1>5, <1>6, <1>7, <1>8 DEF Adding
<1>10. QED
  BY <1>9 DEF SetAdded

\* At the start the registry is empty.
LEMMA IInvInit == Init => IInv
<1> SUFFICES ASSUME Init
             PROVE  IInv
  OBVIOUS
<1>1. /\ camIndex = <<>> /\ scID = <<>> /\ sets = <<>> /\ stereoID = <<>> /\ vDevice = <<>>
      /\ vCameraImageFactory = <<>> /\ vStereo = <<>> /\ vCamera = <<>> /\ mCamera = <<>>
      /\ made = {} /\ renumbered = {} /\ reported = FALSE
  BY DEF Init
<1>2. DOMAIN sets = {} /\ DOMAIN mCamera = {} /\ DOMAIN vStereo = {} /\ DOMAIN vCamera = {}
      /\ DOMAIN vCameraImageFactory = {} /\ Len(vCamera) = 0
  BY <1>1
<1>3. TypeOK
  <2>1. IsFiniteSet(DOMAIN mCamera)
    BY <1>2, FS_EmptySet
  <2>2. \A S : <<>> \in Seq(S)
    OBVIOUS
  <2>3. Len(scID) = Len(camIndex) /\ Len(stereoID) = Len(sets)
    BY <1>1
  <2>4. QED
    BY <1>1, <1>2, <2>1, <2>2, <2>3 DEF TypeOK
<1>4. IndexIsPosition
  BY <1>2 DEF IndexIsPosition
<1>5. OneSet
  BY <1>2 DEF OneSet
<1>6. Range(vStereo) = {} /\ Range(vCameraImageFactory) = {}
  BY <1>2 DEF Range
<1>7. Numbered /\ Whole /\ InStereoOrder
  BY <1>1, <1>2, <1>6 DEF Numbered, Whole, InStereoOrder
<1>8. QED
  BY <1>3, <1>4, <1>5, <1>7 DEF IInv

\* Each action is the adds of a set or clear().
LEMMA IInvNext == IInv /\ [Next]_vars => IInv'
<1> SUFFICES ASSUME IInv, [Next]_vars
             PROVE  IInv'
  OBVIOUS
<1> USE DEF IInv
<1>1. CASE SetAdded
  <2>1. PICK k, index, n, sc, stereo, r : Adding(k, index, n, sc, stereo, r)
    BY <1>1 DEF SetAdded
  <2>2. TypeOK'
    BY <2>1, AddingType
  <2>3. IndexIsPosition'
    BY <2>1, AddingPlaced
  <2>4. OneSet'
    BY <2>1 DEF Adding
  <2>5. Numbered'
    BY <2>1, AddingNumbered
  <2>6. Whole'
    BY <2>1, AddingWhole
  <2>7. InStereoOrder'
    BY <2>1, AddingOrder
  <2>8. QED
    BY <2>2, <2>3, <2>4, <2>5, <2>6, <2>7
<1>2. CASE Clear
  <2>1. /\ vDevice' = <<>> /\ vCameraImageFactory' = <<>> /\ vStereo' = <<>> /\ vCamera' = <<>>
        /\ mCamera' = <<>> /\ reported' = FALSE
        /\ sets' = sets /\ made' = made /\ camIndex' = camIndex /\ scID' = scID
        /\ stereoID' = stereoID /\ renumbered' = renumbered
    BY <1>2 DEF Clear, objects
  <2>2. DOMAIN mCamera' = {} /\ DOMAIN vStereo' = {} /\ DOMAIN vCamera' = {}
        /\ DOMAIN vCameraImageFactory' = {} /\ Len(vCamera') = 0
    BY <2>1
  <2>3. TypeOK'
    <3>1. IsFiniteSet(DOMAIN mCamera')
      BY <2>2, FS_EmptySet
    <3>2. \A S : <<>> \in Seq(S)
      OBVIOUS
    <3>3. Camera' = Camera
      BY <2>1 DEF Camera
    <3>4. QED
      BY <2>1, <2>2, <3>1, <3>2, <3>3 DEF TypeOK
  <2>4. IndexIsPosition'
    BY <2>2 DEF IndexIsPosition
  <2>5. OneSet'
    BY <2>1 DEF OneSet
  <2>6. Range(vStereo') = {} /\ Range(vCameraImageFactory') = {}
    BY <2>2 DEF Range
  <2>7. Numbered'
    BY <2>1, <2>6 DEF Numbered
  <2>8. Whole' /\ InStereoOrder'
    BY <2>2, <2>6 DEF Whole, InStereoOrder
  <2>9. QED
    BY <2>3, <2>4, <2>5, <2>7, <2>8
<1>3. CASE UNCHANGED vars
  BY <1>3 DEF vars, objects, TypeOK, Camera, IndexIsPosition, OneSet, Numbered, Whole, InStereoOrder
<1>4. QED
  <2>1. ASSUME NEW name \in Name, CreateCamera(name) \/ CreateStereoCamera(name)
        PROVE  SetAdded
    BY <2>1, CreateAdding DEF CreateCamera, CreateStereoCamera
  <2>2. ASSUME NEW k \in DOMAIN sets, AddAgain(k)
        PROVE  SetAdded
    BY <2>2, AgainAdding
  <2>3. QED
    BY <1>1, <1>2, <1>3, <2>1, <2>2 DEF Next

-----------------------------------------------------------------------------
(* The images of a group.                                                  *)

\* Induction, for sets of numbers.
LEMMA SetInduction ==
  ASSUME NEW T \in SUBSET Nat, 0 \in T, \A n \in T : n + 1 \in T
  PROVE  T = Nat
<1> DEFINE rest == Nat \ T
<1>1. SUFFICES ASSUME rest # {}
               PROVE  FALSE
  OBVIOUS
<1>2. PICK m \in rest : \A y \in rest : ~(<<y, m>> \in OpToRel(<, Nat))
  <2>1. rest \subseteq Nat
    OBVIOUS
  <2> HIDE DEF rest
  <2>2. QED
    BY <1>1, <2>1, NatLessThanWellFounded, WFMin
<1>3. m \in Nat \ {0} /\ m - 1 \in Nat /\ m - 1 < m
  OBVIOUS
<1>4. m - 1 \in T
  <2>1. <<m - 1, m>> \in OpToRel(<, Nat)
    BY <1>3, Zenon DEF OpToRel
  <2>2. QED
    BY <1>2, <1>3, <2>1
<1>5. QED
  BY <1>3, <1>4

\* StereoAfter is what its definition says: there is such a function.
LEMMA StereoAfterDef ==
  ASSUME TypeOK
  PROVE  /\ StereoAfter[0] = <<>>
         /\ \A n \in 1..Len(vCamera) :
              StereoAfter[n] = AddCameraImage(StereoAfter[n - 1], vCamera[n])
<1> DEFINE Term(g, n) == IF n = 0 THEN <<>> ELSE AddCameraImage(g[n - 1], vCamera[n])
           Solves(g, m) == g = [n \in 0..m |-> Term(g, n)]
           T == {m \in Nat : \E g : Solves(g, m)}
<1>1. 0 \in T
  <2> DEFINE g == [n \in 0..0 |-> <<>>]
  <2>1. \A n \in 0..0 : Term(g, n) = <<>>
    OBVIOUS
  <2>2. Solves(g, 0)
    BY <2>1
  <2>3. QED
    BY <2>2
<1>2. ASSUME NEW m \in T
      PROVE  m + 1 \in T
  <2>1. PICK g : Solves(g, m)
    OBVIOUS
  <2> DEFINE h == [n \in 0..m + 1 |-> IF n = m + 1 THEN Term(g, n) ELSE g[n]]
  <2>2. \A n \in 0..m + 1 : h[n] = Term(h, n)
    <3>1. ASSUME NEW n \in 0..m + 1
          PROVE  Term(h, n) = Term(g, n)
      <4>1. n # 0 => h[n - 1] = g[n - 1]
        OBVIOUS
      <4>2. QED
        BY <4>1
    <3>2. ASSUME NEW n \in 0..m
          PROVE  h[n] = Term(g, n)
      BY <2>1
    <3>3. h[m + 1] = Term(g, m + 1)
      OBVIOUS
    <3> HIDE DEF h, Term
    <3>4. ASSUME NEW n \in 0..m + 1
          PROVE  h[n] = Term(g, n)
      <4>1. n = m + 1 \/ n \in 0..m
        OBVIOUS
      <4>2. QED
        BY <3>2, <3>3, <4>1
    <3>5. QED
      BY <3>1, <3>4
  <2>3. Solves(h, m + 1)
    BY <2>2
  <2> HIDE DEF h, Solves
  <2>4. QED
    BY <2>3
<1>3. T = Nat
  <2> HIDE DEF T
  <2>1. T \subseteq Nat
    BY DEF T
  <2>2. QED
    BY <1>1, <1>2, <2>1, SetInduction
<1>4. Len(vCamera) \in Nat
  BY DEF TypeOK
<1>5. \E g : Solves(g, Len(vCamera))
  BY <1>3, <1>4
<1>6. StereoAfter = CHOOSE g : Solves(g, Len(vCamera))
  BY DEF StereoAfter
<1>7. Solves(StereoAfter, Len(vCamera))
  <2> HIDE DEF Solves
  <2>1. QED
    BY <1>5, <1>6
<1>8. QED
  BY <1>4, <1>7

\* The left (1) or right (2) camera of the stereo camera at place i.
Cam(i, x) == sets[vStereo[i]].cams[x]

\* The side that its images are on.
Side(x) == IF x = 1 THEN "L" ELSE "R"

\* What a group is built from: the cameras of the stereo cameras are in vCamera
\* in that order, and their images go to the stereo image of their scID.
Ordered ==
  /\ \A i \in DOMAIN vStereo, x \in 1..2 :
       /\ Cam(i, x) \in Camera
       /\ camIndex[Cam(i, x)] \in 0..Len(vCamera) - 1
       /\ vCamera[camIndex[Cam(i, x)] + 1] = Cam(i, x)
       /\ scID[Cam(i, x)] = i - 1
       /\ ImageType(Cam(i, x)) = Side(x)
  /\ \A c : ImageType(c) # "none" => \E i \in DOMAIN vStereo, x \in 1..2 : c = Cam(i, x)
  /\ \A i, j \in DOMAIN vStereo, x, y \in 1..2 :
       /\ Cam(i, x) = Cam(j, y) => i = j /\ x = y
       /\ i < j => camIndex[Cam(i, x)] < camIndex[Cam(j, y)]
  /\ \A n \in 1..Len(vCamera) : camIndex[vCamera[n]] = n - 1

\* It holds unless something was reported or renumbered.
LEMMA OrderedLemma ==
  ASSUME IInv, ~reported, renumbered \cap Range(vStereo) = {}
  PROVE  Ordered
<1>1. /\ vStereo \in Seq(DOMAIN sets) /\ Len(vCamera) \in Nat /\ DOMAIN vCamera = 1..Len(vCamera)
      /\ vCameraImageFactory \in Seq(DOMAIN sets)
  BY DEF IInv, TypeOK
<1>2. /\ \A i \in DOMAIN vStereo : vStereo[i] \in Range(vStereo) /\ vStereo[i] \in DOMAIN sets
      /\ Range(vCameraImageFactory) \subseteq DOMAIN sets
  BY <1>1, ElementOfSeq DEF Range
<1>3. /\ Range(vStereo) = {k \in Range(vCameraImageFactory) : sets[k].stereo}
      /\ \A k \in Range(vStereo) : Range(sets[k].cams) \subseteq Range(vCamera)
  BY DEF IInv, Whole
<1>4. \A n \in 1..Len(vCamera) : camIndex[vCamera[n]] = n - 1
  BY <1>1 DEF IInv, IndexIsPosition
<1>5. ASSUME NEW k \in DOMAIN sets, sets[k].stereo
      PROVE  DOMAIN sets[k].cams = 1..2 /\ \A x \in 1..2 : sets[k].cams[x] \in Camera
  <2>1. /\ Len(sets[k].cams) = 2
        /\ sets \in Seq([name : Name, cams : Seq(Camera), stereo : BOOLEAN])
    BY <1>5 DEF IInv, TypeOK
  <2>2. /\ DOMAIN sets[k].cams = 1..Len(sets[k].cams)
        /\ \A x \in 1..Len(sets[k].cams) : sets[k].cams[x] \in Camera
    <3> DEFINE C == Camera
    <3> HIDE DEF C
    <3>1. sets \in Seq([name : Name, cams : Seq(C), stereo : BOOLEAN])
      BY <2>1 DEF C
    <3>2. /\ DOMAIN sets[k].cams = 1..Len(sets[k].cams)
          /\ \A x \in 1..Len(sets[k].cams) : sets[k].cams[x] \in C
      BY <3>1, SetType
    <3>3. QED
      BY <3>2 DEF C
  <2>3. QED
    BY <2>1, <2>2
<1>6. \A i \in DOMAIN vStereo : stereoID[vStereo[i]] = i - 1
  BY DEF IInv, InStereoOrder
<1>7. ASSUME NEW i \in DOMAIN vStereo, NEW j \in DOMAIN vStereo, NEW x \in 1..2, NEW y \in 1..2,
             Cam(i, x) = Cam(j, y)
      PROVE  i = j /\ x = y
  <2>1. vStereo[i] = vStereo[j] /\ x = y
    BY <1>2, <1>3, <1>5, <1>7 DEF IInv, OneSet, Cam
  <2>2. i - 1 = j - 1 /\ i \in Nat /\ j \in Nat
    BY <1>1, <1>6, <2>1
  <2>3. QED
    BY <2>1, <2>2
<1>8. ASSUME NEW i \in DOMAIN vStereo, NEW x \in 1..2
      PROVE  /\ Cam(i, x) \in Camera
             /\ camIndex[Cam(i, x)] \in 0..Len(vCamera) - 1
             /\ vCamera[camIndex[Cam(i, x)] + 1] = Cam(i, x)
             /\ scID[Cam(i, x)] = i - 1
             /\ ImageType(Cam(i, x)) = Side(x)
  <2> DEFINE k == vStereo[i]
  <2>1. k \in Range(vStereo) /\ k \in DOMAIN sets /\ sets[k].stereo
        /\ k \in Range(vCameraImageFactory)
    BY <1>2, <1>3
  <2>2. DOMAIN sets[k].cams = 1..2 /\ Cam(i, x) \in Camera /\ Cam(i, x) = sets[k].cams[x]
    BY <1>5, <2>1 DEF Cam
  <2>3. Cam(i, x) \in Range(sets[k].cams)
    BY <2>2 DEF Range
  <2>4. Cam(i, x) \in Range(vCamera)
    BY <1>3, <2>1, <2>3
  <2>5. PICK p \in 1..Len(vCamera) : vCamera[p] = Cam(i, x)
    BY <1>1, <2>4 DEF Range
  <2>6. camIndex[Cam(i, x)] = p - 1
    BY <1>4, <2>5
  <2>7. scID[Cam(i, x)] = i - 1
    <3>1. k \in made /\ k \notin renumbered
      BY <2>1 DEF IInv, Numbered
    <3>2. scID[sets[k].cams[x]] = stereoID[k]
      BY <2>1, <3>1 DEF IInv, Numbered
    <3>3. QED
      BY <1>6, <2>2, <3>2
  <2>8. \A l \in Range(vCameraImageFactory) : \A y \in 1..2 :
          sets[l].stereo /\ sets[l].cams[y] = Cam(i, x) => y = x
    BY <1>2, <1>5, <2>1, <2>2 DEF IInv, OneSet
  <2>9. CASE x = 1
    <3>1. sets[k].stereo /\ sets[k].cams[1] = Cam(i, x)
      BY <2>1, <2>2, <2>9
    <3>2. ImageType(Cam(i, x)) = "L"
      BY <2>1, <3>1 DEF ImageType
    <3>3. QED
      BY <1>1, <2>2, <2>5, <2>6, <2>7, <2>9, <3>2 DEF Side
  <2>10. CASE x = 2
    <3>1. sets[k].stereo /\ sets[k].cams[2] = Cam(i, x)
      BY <2>1, <2>2, <2>10
    <3>2. ~\E l \in Range(vCameraImageFactory) : sets[l].stereo /\ sets[l].cams[1] = Cam(i, x)
      BY <2>8, <2>10
    <3>3. ImageType(Cam(i, x)) = "R"
      BY <2>1, <3>1, <3>2 DEF ImageType
    <3>4. QED
      BY <1>1, <2>2, <2>5, <2>6, <2>7, <2>10, <3>3 DEF Side
  <2>11. QED
    BY <2>9, <2>10
<1>9. ASSUME NEW c, ImageType(c) # "none"
      PROVE  \E i \in DOMAIN vStereo, x \in 1..2 : c = Cam(i, x)
  <2>1. PICK k \in Range(vCameraImageFactory), x \in 1..2 : sets[k].stereo /\ sets[k].cams[x] = c
    BY <1>9 DEF ImageType
  <2>2. k \in Range(vStereo)
    BY <1>3, <2>1
  <2>3. PICK i \in DOMAIN vStereo : vStereo[i] = k
    BY <2>2 DEF Range
  <2>4. QED
    BY <2>1, <2>3 DEF Cam
<1>10. \A i, j \in DOMAIN vStereo, x, y \in 1..2 :
         i < j => camIndex[Cam(i, x)] < camIndex[Cam(j, y)]
  BY DEF IInv, InStereoOrder, Cam
<1>11. QED
  BY <1>4, <1>7, <1>8, <1>9, <1>10 DEF Ordered

\* Stereo images: pairs of what is on the left and on the right.
Pairs == Seq([L : Nat, R : Nat])

\* After the image of camera c, which has this scID, the images that fit are
\* still there, and so is that image if it is one of a pair.
LEMMA AddCameraImageLemma ==
  ASSUME NEW F \in Pairs, NEW c \in Nat, NEW id \in Int, scID[c] = id,
         ImageType(c) = "none" \/ id >= 0, NEW G, G = AddCameraImage(F, c)
  PROVE  /\ G \in Pairs
         /\ ImageType(c) = "none" => G = F
         /\ ImageType(c) # "none" =>
              /\ Len(G) = id + 1
              /\ \A i \in 1..Len(F) : i <= id => G[i] = F[i]
              /\ ImageType(c) = "L" =>
                   G[id + 1].L = c /\ (id + 1 <= Len(F) => G[id + 1].R = F[id + 1].R)
              /\ ImageType(c) = "R" =>
                   G[id + 1].R = c /\ (id + 1 <= Len(F) => G[id + 1].L = F[id + 1].L)
<1>1. ImageType(c) \in {"L", "R", "none"}
  BY DEF ImageType
<1>2. F \in Seq([L : Nat, R : Nat]) /\ Len(F) \in Nat
  BY DEF Pairs
<1>3. CASE ImageType(c) = "none"
  BY <1>3 DEF AddCameraImage
<1>4. CASE ImageType(c) # "none"
  <2> DEFINE size == id + 1
             resized == [i \in 1..size |-> IF i <= Len(F) THEN F[i] ELSE [L |-> 0, R |-> 0]]
  <2>1. G = [resized EXCEPT ![size] = [@ EXCEPT ![ImageType(c)] = c]]
    BY <1>4 DEF AddCameraImage
  <2>2. size \in Nat /\ size \in 1..size
    BY <1>4
  <2>3. \A i \in 1..size : resized[i] \in [L : Nat, R : Nat]
    <3>1. \A i \in 1..Len(F) : F[i] \in [L : Nat, R : Nat]
      BY <1>2, ElementOfSeq
    <3>2. [L |-> 0, R |-> 0] \in [L : Nat, R : Nat]
      OBVIOUS
    <3>3. PICK none \in [L : Nat, R : Nat] : none = [L |-> 0, R |-> 0]
      BY <3>2
    <3>4. \A i \in 1..size : resized[i] = IF i <= Len(F) THEN F[i] ELSE none
      BY <3>3
    <3> HIDE DEF resized
    <3>5. \A i \in 1..size : i <= Len(F) => i \in 1..Len(F)
      BY <1>2, <2>2
    <3>6. QED
      BY <3>1, <3>4, <3>5
  <2>4. PICK old \in [L : Nat, R : Nat] : old = resized[size]
    BY <2>2, <2>3
  <2>5. size <= Len(F) => old = F[size]
    BY <2>2, <2>4
  <2>6. \A i \in 1..Len(F) : i <= id => i \in 1..size /\ i # size /\ resized[i] = F[i]
    BY <1>2, <2>2
  <2>7. resized = [i \in 1..size |-> resized[i]]
    OBVIOUS
  <2> HIDE DEF resized
  <2>8. CASE ImageType(c) = "L"
    <3>1. G = [resized EXCEPT ![size] = [old EXCEPT !.L = c]]
      BY <2>1, <2>4, <2>8
    <3>2. [old EXCEPT !.L = c] \in [L : Nat, R : Nat] /\ [old EXCEPT !.L = c].L = c
          /\ [old EXCEPT !.L = c].R = old.R
      OBVIOUS
    <3>3. PICK new \in [L : Nat, R : Nat] : new = [old EXCEPT !.L = c]
      BY <3>2
    <3>4. G \in [1..size -> [L : Nat, R : Nat]]
      BY <2>3, <2>7, <3>1, <3>3
    <3>5. G \in Pairs /\ Len(G) = size
      BY <2>2, <3>4, FunctionIsSeq DEF Pairs
    <3>6. G[size] = new /\ \A i \in 1..size : i # size => G[i] = resized[i]
      BY <2>2, <2>7, <3>1, <3>3
    <3>7. QED
      BY <1>4, <2>5, <2>6, <2>8, <3>2, <3>3, <3>5, <3>6
  <2>9. CASE ImageType(c) = "R"
    <3>1. G = [resized EXCEPT ![size] = [old EXCEPT !.R = c]]
      BY <2>1, <2>4, <2>9
    <3>2. [old EXCEPT !.R = c] \in [L : Nat, R : Nat] /\ [old EXCEPT !.R = c].R = c
          /\ [old EXCEPT !.R = c].L = old.L
      OBVIOUS
    <3>3. PICK new \in [L : Nat, R : Nat] : new = [old EXCEPT !.R = c]
      BY <3>2
    <3>4. G \in [1..size -> [L : Nat, R : Nat]]
      BY <2>3, <2>7, <3>1, <3>3
    <3>5. G \in Pairs /\ Len(G) = size
      BY <2>2, <3>4, FunctionIsSeq DEF Pairs
    <3>6. G[size] = new /\ \A i \in 1..size : i # size => G[i] = resized[i]
      BY <2>2, <2>7, <3>1, <3>3
    <3>7. QED
      BY <1>4, <2>5, <2>6, <2>9, <3>2, <3>3, <3>5, <3>6
  <2>10. QED
    BY <1>1, <1>4, <2>8, <2>9
<1>5. QED
  BY <1>3, <1>4

\* The images of the stereo cameras among the first n are where they belong.
Filled(n) ==
  /\ StereoAfter[n] \in Pairs
  /\ \A i \in DOMAIN vStereo :
       /\ camIndex[Cam(i, 1)] < n => i <= Len(StereoAfter[n]) /\ StereoAfter[n][i].L = Cam(i, 1)
       /\ camIndex[Cam(i, 2)] < n => i <= Len(StereoAfter[n]) /\ StereoAfter[n][i].R = Cam(i, 2)

\* The next image makes no stereo image vanish that was there, and adds its own.
LEMMA FilledStep ==
  ASSUME TypeOK, Ordered, NEW n \in Nat, n + 1 <= Len(vCamera), Filled(n)
  PROVE  Filled(n + 1)
<1> DEFINE c == vCamera[n + 1]
           F == StereoAfter[n]
           G == StereoAfter[n + 1]
<1>1. Len(vCamera) \in Nat /\ n + 1 \in 1..Len(vCamera) /\ n + 1 - 1 = n
  BY DEF TypeOK
<1>2. G = AddCameraImage(F, c)
  BY <1>1, StereoAfterDef
<1>3. c \in Camera /\ Camera = 1..Len(camIndex) /\ Len(camIndex) \in Nat /\ scID[c] \in Int
  <2>1. c \in Camera
    BY <1>1, ElementOfSeq DEF TypeOK
  <2>2. Camera = 1..Len(camIndex) /\ Len(camIndex) \in Nat
    BY DEF TypeOK, Camera
  <2>3. c \in 1..Len(scID)
    BY <2>1, <2>2 DEF TypeOK
  <2>4. scID[c] \in Int
    BY <2>3, ElementOfSeq DEF TypeOK
  <2>5. QED
    BY <2>1, <2>2, <2>4
<1>4. camIndex[c] = n
  BY <1>1 DEF Ordered
<1>5. DOMAIN vStereo = 1..Len(vStereo) /\ Len(vStereo) \in Nat
  BY DEF TypeOK
<1>6. F \in Pairs /\ Len(F) \in Nat
  BY DEF Filled, Pairs
<1>7. \A i \in DOMAIN vStereo, x \in 1..2 :
        /\ camIndex[Cam(i, x)] \in Nat
        /\ camIndex[Cam(i, x)] = n => Cam(i, x) = c
        /\ camIndex[Cam(i, x)] < n + 1 => camIndex[Cam(i, x)] < n \/ camIndex[Cam(i, x)] = n
  BY <1>1 DEF Ordered
<1>8. CASE ImageType(c) = "none"
  <2>1. G = F
    BY <1>2, <1>3, <1>6, <1>8, AddCameraImageLemma
  <2>2. \A i \in DOMAIN vStereo, x \in 1..2 : Cam(i, x) # c
    BY <1>8 DEF Ordered, Side
  <2> HIDE DEF c
  <2>3. QED
    BY <1>7, <2>1, <2>2 DEF Filled
<1>9. CASE ImageType(c) # "none"
  <2>1. PICK i0 \in DOMAIN vStereo, x0 \in 1..2 : c = Cam(i0, x0)
    BY <1>9 DEF Ordered
  <2>2. scID[c] = i0 - 1 /\ ImageType(c) = Side(x0) /\ camIndex[Cam(i0, x0)] = n
    BY <1>4, <2>1 DEF Ordered
  <2>3. i0 \in Nat /\ i0 >= 1 /\ i0 - 1 \in Int /\ i0 - 1 >= 0 /\ i0 - 1 + 1 = i0
    BY <1>5
  <2>4. /\ G \in Pairs /\ Len(G) = i0
        /\ \A i \in 1..Len(F) : i <= i0 - 1 => G[i] = F[i]
        /\ x0 = 1 => G[i0].L = c /\ (i0 <= Len(F) => G[i0].R = F[i0].R)
        /\ x0 = 2 => G[i0].R = c /\ (i0 <= Len(F) => G[i0].L = F[i0].L)
    <3>1. PICK id \in Int : id = i0 - 1
      BY <2>3
    <3> HIDE DEF c, F, G
    <3>2. c \in Nat
      BY <1>3
    <3>3. /\ G \in Pairs /\ Len(G) = id + 1
          /\ \A i \in 1..Len(F) : i <= id => G[i] = F[i]
          /\ ImageType(c) = "L" =>
               G[id + 1].L = c /\ (id + 1 <= Len(F) => G[id + 1].R = F[id + 1].R)
          /\ ImageType(c) = "R" =>
               G[id + 1].R = c /\ (id + 1 <= Len(F) => G[id + 1].L = F[id + 1].L)
      BY <1>2, <1>6, <1>9, <2>2, <2>3, <3>1, <3>2, AddCameraImageLemma
    <3>4. id + 1 = i0
      BY <2>3, <3>1
    <3>5. (x0 = 1 => ImageType(c) = "L") /\ (x0 = 2 => ImageType(c) = "R")
      BY <2>2 DEF Side
    <3>6. QED
      BY <3>1, <3>3, <3>4, <3>5
  <2>5. ASSUME NEW i \in DOMAIN vStereo, NEW x \in 1..2, camIndex[Cam(i, x)] < n + 1
        PROVE  /\ i \in Nat /\ i >= 1 /\ i <= i0
               /\ i # i0 \/ x # x0 => camIndex[Cam(i, x)] < n
    <3>1. i0 < i => camIndex[Cam(i0, x0)] < camIndex[Cam(i, x)]
      BY DEF Ordered
    <3>2. camIndex[Cam(i, x)] = n => i = i0 /\ x = x0
      BY <1>7, <2>1 DEF Ordered
    <3>3. i \in Nat /\ i >= 1 /\ camIndex[Cam(i, x)] \in Nat
      BY <1>5, <1>7
    <3>4. camIndex[Cam(i, x)] < n \/ camIndex[Cam(i, x)] = n
      BY <1>7, <2>5
    <3>5. QED
      BY <2>2, <2>3, <3>1, <3>2, <3>3, <3>4
  <2> HIDE DEF c, F, G
  <2>6. ASSUME NEW i \in DOMAIN vStereo, camIndex[Cam(i, 1)] < n + 1
        PROVE  i <= Len(G) /\ G[i].L = Cam(i, 1)
    <3>1. CASE i = i0 /\ x0 = 1
      BY <2>1, <2>3, <2>4, <3>1
    <3>2. CASE i # i0 \/ x0 # 1
      <4>1. camIndex[Cam(i, 1)] < n /\ i \in Nat /\ i >= 1 /\ i <= i0
        BY <2>5, <2>6, <3>2
      <4>2. i <= Len(F) /\ F[i].L = Cam(i, 1)
        BY <4>1 DEF Filled, F
      <4>3. CASE i = i0
        BY <2>3, <2>4, <3>2, <4>2, <4>3
      <4>4. CASE i # i0
        <5>1. i \in 1..Len(F) /\ i <= i0 - 1
          BY <1>6, <2>3, <4>1, <4>2, <4>4
        <5>2. QED
          BY <2>3, <2>4, <4>1, <4>2, <5>1
      <4>5. QED
        BY <4>3, <4>4
    <3>3. QED
      BY <3>1, <3>2
  <2>7. ASSUME NEW i \in DOMAIN vStereo, camIndex[Cam(i, 2)] < n + 1
        PROVE  i <= Len(G) /\ G[i].R = Cam(i, 2)
    <3>1. CASE i = i0 /\ x0 = 2
      BY <2>1, <2>3, <2>4, <3>1
    <3>2. CASE i # i0 \/ x0 # 2
      <4>1. camIndex[Cam(i, 2)] < n /\ i \in Nat /\ i >= 1 /\ i <= i0
        BY <2>5, <2>7, <3>2
      <4>2. i <= Len(F) /\ F[i].R = Cam(i, 2)
        BY <4>1 DEF Filled, F
      <4>3. CASE i = i0
        BY <2>3, <2>4, <3>2, <4>2, <4>3
      <4>4. CASE i # i0
        <5>1. i \in 1..Len(F) /\ i <= i0 - 1
          BY <1>6, <2>3, <4>1, <4>2, <4>4
        <5>2. QED
          BY <2>3, <2>4, <4>1, <4>2, <5>1
      <4>5. QED
        BY <4>3, <4>4
    <3>3. QED
      BY <3>1, <3>2
  <2>8. QED
    BY <2>4, <2>6, <2>7 DEF Filled, G
<1>10. QED
  BY <1>8, <1>9

\* So after the images of all cameras every stereo image is there.
LEMMA FilledAll ==
  ASSUME TypeOK, Ordered
  PROVE  Filled(Len(vCamera))
<1> DEFINE T == {n \in Nat : n <= Len(vCamera) => Filled(n)}
<1>1. Len(vCamera) \in Nat
  BY DEF TypeOK
<1>2. 0 \in T
  <2>1. StereoAfter[0] = <<>> /\ <<>> \in Pairs
    BY StereoAfterDef DEF Pairs
  <2>2. \A i \in DOMAIN vStereo, x \in 1..2 : ~(camIndex[Cam(i, x)] < 0)
    BY <1>1 DEF Ordered
  <2>3. Filled(0)
    BY <2>1, <2>2 DEF Filled
  <2>4. QED
    BY <2>3
<1>3. ASSUME NEW n \in T
      PROVE  n + 1 \in T
  <2>1. n + 1 <= Len(vCamera) => n <= Len(vCamera)
    BY <1>1
  <2>2. n + 1 <= Len(vCamera) => Filled(n + 1)
    BY <2>1, FilledStep
  <2>3. QED
    BY <2>2
<1>4. T = Nat
  <2>1. T \subseteq Nat
    OBVIOUS
  <2> HIDE DEF T
  <2>2. QED
    BY <1>2, <1>3, <2>1, SetInduction
<1>5. QED
  BY <1>1, <1>4

\* A group of images is complete where the registry is in order.
LEMMA GroupLemma == IInv => GroupComplete
<1> SUFFICES ASSUME IInv, ~reported, renumbered \cap Range(vStereo) = {}
             PROVE  /\ \A k \in Range(vCameraImageFactory) : \A c \in Range(sets[k].cams) :
                         QueueOf(c) = camIndex[c] /\ ImageAt(camIndex[c])
                    /\ \A i \in DOMAIN vStereo :
                         /\ stereoID[vStereo[i]] = i - 1
                         /\ i \in DOMAIN StereoImages
                         /\ StereoImages[i] = [L |-> sets[vStereo[i]].cams[1],
                                               R |-> sets[vStereo[i]].cams[2]]
  BY DEF GroupComplete
<1>1. Ordered
  BY OrderedLemma
<1>2. Len(vCamera) \in Nat /\ DOMAIN vCamera = 1..Len(vCamera) /\ TypeOK
  BY DEF IInv, TypeOK
<1>3. ASSUME NEW k \in Range(vCameraImageFactory), NEW c \in Range(sets[k].cams)
      PROVE  QueueOf(c) = camIndex[c] /\ ImageAt(camIndex[c])
  <2>1. c \in Range(vCamera)
    BY DEF IInv, Whole
  <2>2. PICK p \in 1..Len(vCamera) : vCamera[p] = c
    BY <1>2, <2>1 DEF Range
  <2>3. camIndex[c] = p - 1
    BY <1>1, <2>2 DEF Ordered
  <2>4. \A i \in 1..Len(vCamera) : vCamera[i] = c => i = p
    BY <1>1, <2>2, <2>3 DEF Ordered
  <2>5. {i \in DOMAIN vCamera : vCamera[i] = c} = {p}
    BY <1>2, <2>2, <2>4
  <2>6. QueueOf(c) = p - 1
    <3>1. (CHOOSE i \in {p} : \A j \in {p} : i <= j) = p
      OBVIOUS
    <3>2. {p} # {}
      OBVIOUS
    <3>3. QED
      BY <2>5, <3>1, <3>2 DEF QueueOf
  <2>7. ImageAt(p - 1)
    BY <1>2, <2>2, <2>3 DEF ImageAt
  <2>8. QED
    BY <2>3, <2>6, <2>7
<1>4. ASSUME NEW i \in DOMAIN vStereo
      PROVE  /\ stereoID[vStereo[i]] = i - 1
             /\ i \in DOMAIN StereoImages
             /\ StereoImages[i] = [L |-> sets[vStereo[i]].cams[1],
                                   R |-> sets[vStereo[i]].cams[2]]
  <2>1. stereoID[vStereo[i]] = i - 1
    BY DEF IInv, InStereoOrder
  <2>2. Filled(Len(vCamera))
    BY <1>1, <1>2, FilledAll
  <2>3. \A x \in 1..2 : camIndex[Cam(i, x)] < Len(vCamera)
    BY <1>1, <1>2 DEF Ordered
  <2>4. /\ StereoImages \in Pairs /\ i <= Len(StereoImages)
        /\ StereoImages[i].L = Cam(i, 1) /\ StereoImages[i].R = Cam(i, 2)
    BY <2>2, <2>3 DEF Filled, StereoImages
  <2>5. i \in 1..Len(StereoImages)
    <3>1. vStereo \in Seq(DOMAIN sets)
      BY <1>2 DEF TypeOK
    <3>2. i \in Nat /\ i >= 1
      BY <3>1
    <3>3. Len(StereoImages) \in Nat
      BY <2>4 DEF Pairs
    <3>4. QED
      BY <2>4, <3>2, <3>3
  <2>6. PICK pair \in [L : Nat, R : Nat] : pair = StereoImages[i]
    BY <2>4, <2>5, ElementOfSeq DEF Pairs
  <2>7. pair = [L |-> Cam(i, 1), R |-> Cam(i, 2)]
    BY <2>4, <2>6
  <2>8. DOMAIN StereoImages = 1..Len(StereoImages)
    BY <2>4 DEF Pairs
  <2>9. QED
    BY <2>1, <2>5, <2>6, <2>7, <2>8 DEF Cam
<1>5. QED
  BY <1>3, <1>4

-----------------------------------------------------------------------------
(* The theorems.                                                           *)

\* The inductive invariant of the registry.
THEOREM Invariance == Spec => []IInv
BY IInvInit, IInvNext, PTL DEF Spec

\* The variables of the registry keep their types: in particular every number
\* in it is that of a set or camera that was created.
THEOREM TypeCorrect == Spec => []TypeOK
<1>1. IInv => TypeOK
  BY DEF IInv
<1>2. QED
  BY <1>1, Invariance, PTL

\* The camera of index i is at position i, for any number of sets and any
\* sequence of creating, clearing and adding again.
THEOREM IndicesArePositions == Spec => []IndexIsPosition
<1>1. IInv => IndexIsPosition
  BY DEF IInv
<1>2. QED
  BY <1>1, Invariance, PTL

\* A group of images has every image at its index and both images of every
\* stereo camera at its scID, unless an add failed audibly or a stereo camera
\* was renumbered.
THEOREM GroupsComplete == Spec => []GroupComplete
BY GroupLemma, Invariance, PTL
=============================================================================
