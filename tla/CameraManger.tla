---------------------------- MODULE CameraManger ----------------------------
(***************************************************************************)
(* The registry of cameras (System/CameraManger.cpp) and what the rest of  *)
(* the system builds on its indices: the queue an image is pushed to       *)
(* (CameraImageQueue::PushImage) and the places of the images in a group   *)
(* (Model/CameraImageGroup.cpp).                                           *)
(*                                                                         *)
(* An application creates sets of a device, its one or two cameras, their  *)
(* factory and, of two cameras, their stereo camera.  It keeps what it     *)
(* created, so that after clear() it can add an old set again: the objects *)
(* then still hold the indices of their earlier life.                      *)
(***************************************************************************)
EXTENDS Integers, Sequences, FiniteSets, Functions

CONSTANTS
  Name,     \* the names of devices
  MaxSets   \* bound: sets ever created

ASSUME BoundAssumption == MaxSets \in Nat

VARIABLES
  sets,      \* the sets created: device, factory and stereo camera bear its number
  made,      \* the sets whose creation came to its end, which have a factory
  camIndex,  \* per camera object
  scID,      \* per camera object
  stereoID,  \* per set, StereoCamera::scID
  vDevice, vCameraImageFactory, vStereo,  \* sequences of set numbers
  vCamera,   \* a sequence of camera objects
  mCamera,   \* the map from camIndex to camera
  reported,  \* history: since clear(), an add of a camera threw or was refused
  renumbered \* history: the sets whose stereo camera was given another scID

objects == <<sets, made, camIndex, scID, stereoID, renumbered>>
vars    == <<objects, vDevice, vCameraImageFactory, vStereo, vCamera, mCamera, reported>>

Camera == DOMAIN camIndex

Init ==
  /\ sets = <<>> /\ made = {} /\ renumbered = {}
  /\ camIndex = <<>> /\ scID = <<>> /\ stereoID = <<>>
  /\ vDevice = <<>> /\ vCameraImageFactory = <<>> /\ vStereo = <<>>
  /\ vCamera = <<>>
  /\ mCamera = <<>>
  /\ reported = FALSE

-----------------------------------------------------------------------------
(* The registry while it is being added to: a record of what add(camera)   *)
(* reads and writes.                                                       *)

\* Mutant: the assertion on vCamera is left out.
MutAdded(r, c) ==
  LET k == IF r.index[c] < 0 THEN Cardinality(DOMAIN r.map) ELSE r.index[c]
  IN  [r EXCEPT !.index = [@ EXCEPT ![c] = k],
                !.map = [i \in DOMAIN @ \cup {k} |-> IF i = k THEN c ELSE @[i]],
                !.seq = Append(@, c)]

\* Mutant: the next index is one too low.
MutAddedLow(r, c) ==
  LET k == IF r.index[c] < 0 THEN Cardinality(DOMAIN r.map) - 1 ELSE r.index[c]
  IN  [r EXCEPT !.index = [@ EXCEPT ![c] = k],
                !.map = [i \in DOMAIN @ \cup {k} |-> IF i = k THEN c ELSE @[i]],
                !.seq = Append(@, c)]

\* A new camera gets the next index; CV_Assert looks at all of vCamera when
\* the camera is in it already.
Added(r, c) ==
  LET k     == IF r.index[c] < 0 THEN Cardinality(DOMAIN r.map) ELSE r.index[c]
      index == [r.index EXCEPT ![c] = k]
      seq   == Append(r.seq, c)
  IN  [index |-> index,
       map   |-> [i \in DOMAIN r.map \cup {k} |-> IF i = k THEN c ELSE r.map[i]],
       seq   |-> seq,
       threw |-> \E i \in 1..Len(seq) : index[seq[i]] # i - 1,
       refused |-> r.refused]

\* add(camera), after which an exception skips the adds that follow.
AddCamera(r, c) ==
  IF r.threw THEN r
  ELSE IF r.index[c] \in DOMAIN r.map THEN [r EXCEPT !.refused = TRUE]
  ELSE Added(r, c)

\* A device of the same name is refused, which its caller is not told.
AddDevice(devices, k) ==
  IF \E i \in DOMAIN vDevice : sets[vDevice[i]].name = sets'[k].name
    THEN devices ELSE Append(devices, k)

\* add(camera) of each camera of set k, where the cameras hold these indices.
AddCameras(k, index) ==
  LET r0 == [index |-> index, map |-> mCamera, seq |-> vCamera,
             threw |-> FALSE, refused |-> FALSE]
      r1 == AddCamera(r0, sets'[k].cams[1])
  IN  IF sets'[k].stereo THEN AddCamera(r1, sets'[k].cams[2]) ELSE r1

\* add(device), add(camera) of each camera, after which the registry is r,
\* add(stereo), and add(factory) of set k.  add(stereo) takes the next scID
\* and says so if the object had another; only for new cameras is setCamera
\* called with it.
AddSet(k, r, sc, stereo) ==
  LET new == k \notin DOMAIN sets
      id  == Len(vStereo)
  IN  /\ vDevice' = AddDevice(vDevice, k)
      /\ camIndex' = r.index
      /\ mCamera' = r.map
      /\ vCamera' = r.seq
      /\ IF r.threw \/ ~sets'[k].stereo
           THEN stereoID' = stereo /\ scID' = sc /\ UNCHANGED vStereo
           ELSE /\ stereoID' = [stereo EXCEPT ![k] = id]
                /\ vStereo' = Append(vStereo, k)
                /\ scID' = IF new THEN [c \in DOMAIN sc |->
                                          IF c \in Range(sets'[k].cams) THEN id ELSE sc[c]]
                                  ELSE sc
      /\ vCameraImageFactory' = IF r.threw THEN vCameraImageFactory
                                ELSE Append(vCameraImageFactory, k)
      /\ made' = IF r.threw THEN made ELSE made \cup {k}
      /\ reported' = (reported \/ r.threw \/ r.refused)
      /\ renumbered' = IF vStereo' # vStereo /\ stereo[k] \notin {-1, id}
                         THEN renumbered \cup {k} ELSE renumbered

\* CreateCamera and CreateStereoCamera.
Create(name, n) ==
  LET k    == Len(sets) + 1
      base == Len(camIndex)
      none == [i \in 1..n |-> -1]
  IN  /\ Len(sets) < MaxSets
      /\ sets' = Append(sets, [name |-> name, cams |-> [i \in 1..n |-> base + i],
                               stereo |-> n = 2])
      /\ AddSet(k, AddCameras(k, camIndex \o none), scID \o none, Append(stereoID, -1))

CreateCamera(name) == Create(name, 1)

CreateStereoCamera(name) == Create(name, 2)

\* The adds of test_package/MultiCameraTest.cpp:72 to 75, with a set the
\* application has from before a clear().
AddAgain(k) ==
  /\ k \in made \ Range(vCameraImageFactory)
  /\ UNCHANGED sets
  /\ AddSet(k, AddCameras(k, camIndex), scID, stereoID)

\* Mutant: vStereo is kept.
MutClear ==
  /\ vDevice' = <<>> /\ vCameraImageFactory' = <<>>
  /\ vCamera' = <<>>
  /\ mCamera' = <<>>
  /\ reported' = FALSE
  /\ UNCHANGED <<objects, vStereo>>

Clear ==
  /\ vDevice' = <<>> /\ vCameraImageFactory' = <<>> /\ vStereo' = <<>>
  /\ vCamera' = <<>>
  /\ mCamera' = <<>>
  /\ reported' = FALSE
  /\ UNCHANGED objects

Next ==
  \/ \E name \in Name : CreateCamera(name) \/ CreateStereoCamera(name)
  \/ \E k \in DOMAIN sets : AddAgain(k)
  \/ Clear

Spec == Init /\ [][Next]_vars

-----------------------------------------------------------------------------
(* What a session makes of the registry.                                   *)

\* The queue that PushImage puts an image of camera c into, counted from 0:
\* that of its position in vCamera, or the first one.
QueueOf(c) ==
  LET at == {i \in DOMAIN vCamera : vCamera[i] = c}
  IN  IF at = {} THEN 0 ELSE (CHOOSE i \in at : \A j \in at : i <= j) - 1

\* The type that the factories give to the images of camera c.
ImageType(c) ==
  IF \E k \in Range(vCameraImageFactory) : sets[k].stereo /\ sets[k].cams[1] = c THEN "L"
  ELSE IF \E k \in Range(vCameraImageFactory) : sets[k].stereo /\ sets[k].cams[2] = c THEN "R"
  ELSE "none"

\* addCameraImage on vStereoImage: it gets the size that this image needs,
\* be that less than before.
AddCameraImage(stereoImage, c) ==
  LET size    == scID[c] + 1
      resized == [i \in 1..size |-> IF i <= Len(stereoImage) THEN stereoImage[i]
                                    ELSE [L |-> 0, R |-> 0]]
      type    == ImageType(c)
  IN  IF size = 0 \/ type = "none" THEN stereoImage
      ELSE [resized EXCEPT ![size] = [@ EXCEPT ![type] = c]]

\* The stereo images of a group that has an image of each of the first n cameras.
StereoAfter[n \in 0..Len(vCamera)] ==
  IF n = 0 THEN <<>> ELSE AddCameraImage(StereoAfter[n - 1], vCamera[n])

\* The stereo images of a group, which has an image of each camera in turn.
StereoImages == StereoAfter[Len(vCamera)]

\* getImage(i): where it finds the image of camera index i directly.
ImageAt(i) == i < Len(vCamera) /\ camIndex[vCamera[i + 1]] = i

-----------------------------------------------------------------------------
(* Properties.                                                             *)

\* Type invariant.
TypeOK ==
  /\ camIndex \in Seq(Int)
  /\ scID \in Seq(Int) /\ Len(scID) = Len(camIndex)
  /\ sets \in Seq([name : Name, cams : Seq(Camera), stereo : BOOLEAN])
  /\ \A k \in DOMAIN sets : Len(sets[k].cams) = IF sets[k].stereo THEN 2 ELSE 1
  /\ stereoID \in Seq(Int) /\ Len(stereoID) = Len(sets)
  /\ vDevice \in Seq(DOMAIN sets)
  /\ vCameraImageFactory \in Seq(DOMAIN sets)
  /\ vStereo \in Seq(DOMAIN sets)
  /\ vCamera \in Seq(Camera)
  /\ IsFiniteSet(DOMAIN mCamera) /\ DOMAIN mCamera \subseteq Nat
  /\ \A i \in DOMAIN mCamera : mCamera[i] \in Camera
  /\ made \subseteq DOMAIN sets /\ renumbered \subseteq DOMAIN sets
  /\ reported \in BOOLEAN

\* As long as no add has failed audibly, by an exception or a null result, the
\* camera of index i is at position i of vCamera and in the map, which is "in
\* fact equivalent to vCamera" (CameraManger.h:36), through any sequence of
\* creating, clearing and adding what an earlier life left.
IndexIsPosition ==
  ~reported =>
    /\ DOMAIN mCamera = 0..Len(vCamera) - 1
    /\ \A i \in DOMAIN vCamera : camIndex[vCamera[i]] = i - 1 /\ mCamera[i - 1] = vCamera[i]

\* As long as no add has failed audibly and no stereo camera in the registry
\* was ever renumbered, a group of images is what CameraImageGroup.h:21 says,
\* "the index is the camIndex": each factory's images go to the queue of their
\* own camera, getImage finds them at their index, and each stereo camera has
\* both its images at its scID, although the group grows and shrinks with every
\* image and the cameras keep a copy of the scID.
GroupComplete ==
  ~reported /\ renumbered \cap Range(vStereo) = {} =>
    /\ \A k \in Range(vCameraImageFactory) : \A c \in Range(sets[k].cams) :
         QueueOf(c) = camIndex[c] /\ ImageAt(camIndex[c])
    /\ \A i \in DOMAIN vStereo :
         /\ stereoID[vStereo[i]] = i - 1
         /\ i \in DOMAIN StereoImages
         /\ StereoImages[i] = [L |-> sets[vStereo[i]].cams[1],
                               R |-> sets[vStereo[i]].cams[2]]

-----------------------------------------------------------------------------
(* The inductive invariant behind them.                                    *)

\* A camera belongs to one set, and to one place of it.
OneSet ==
  \A k, l \in DOMAIN sets : \A i \in DOMAIN sets[k].cams, j \in DOMAIN sets[l].cams :
    sets[k].cams[i] = sets[l].cams[j] => k = l /\ i = j

\* A set whose creation came to its end has the scID its stereo camera was
\* last given, and so have its cameras, unless it was renumbered.
Numbered ==
  /\ Range(vStereo) \subseteq made
  /\ \A k \in made : sets[k].stereo =>
       /\ stereoID[k] >= 0
       /\ k \notin renumbered =>
            \A i \in 1..2 : scID[sets[k].cams[i]] = stereoID[k]

\* Since the last clear(), without an add that failed audibly: the sets in the
\* registry have all their parts in it.
Whole ==
  ~reported =>
    /\ Range(vStereo) = {k \in Range(vCameraImageFactory) : sets[k].stereo}
    /\ \A k \in Range(vCameraImageFactory) : Range(sets[k].cams) \subseteq Range(vCamera)

\* ... and their cameras are in the order of their stereo cameras.
InStereoOrder ==
  ~reported =>
    /\ \A i \in DOMAIN vStereo : stereoID[vStereo[i]] = i - 1
    /\ \A i, j \in DOMAIN vStereo, x, y \in 1..2 :
         i < j => camIndex[sets[vStereo[i]].cams[x]] < camIndex[sets[vStereo[j]].cams[y]]

\* Together they are preserved by every action and imply GroupComplete.
IInv ==
  /\ TypeOK
  /\ IndexIsPosition
  /\ OneSet
  /\ Numbered
  /\ Whole
  /\ InStereoOrder
=============================================================================
