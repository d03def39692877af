-------------------------- MODULE CameraImageQueue --------------------------
(***************************************************************************)
(* The image queues between the capture threads and frame processing       *)
(* (Model/CameraImageQueue.cpp) and the grab loops that use them           *)
(* (System/TaskGrabOneCamera.hpp, System/TaskGrabManyCamera.hpp).          *)
(*                                                                         *)
(* Every task captures with its factories, pushes the images of a capture  *)
(* into the queues of their cameras (PushImage: drop the oldest while the  *)
(* queue is full, then enqueue) and then, if nobody else holds             *)
(* lockGetImage, calls GetImage: count the non-empty queues and, if none   *)
(* is empty, take one image of each.                                       *)
(*                                                                         *)
(* Producers do not take the lock, and a size_approx() is one step and the *)
(* try_dequeue() it decides on another, so pushes and takes interleave as  *)
(* they do on the lock-free queues of the code.                            *)
(*                                                                         *)
(* An image is the number of its factory's capture.  One task with         *)
(* all the factories, and so no competitor for the lock, is start()'s      *)
(* TaskGrabManyCamera, where the lock calls are commented out; one task    *)
(* per factory is startMT()'s TaskGrabOneCamera.                           *)
(***************************************************************************)
EXTENDS Integers, Sequences

CONSTANTS
  Task,          \* the capture threads
  Factory,       \* the ICameraImageFactory objects, one device each
  NumCamera,     \* vGrabCamera.size(); a camera is its index, from 1
  FactoriesOf,   \* per task, its factories in the order it captures with them
  CamerasOf,     \* per factory, the cameras of its images in the order pushed
  MaxQueueLen,   \* CameraImageQueue::maxQueueLen
  KeepLen,       \* the length GetImage trims a queue to before it takes one
  MaxShot        \* bound: captures of one factory

Camera == 1..NumCamera

\* Camera c is written by task t: PushImage(c) is called by t alone.
Owns(t, c) ==
  \E i \in 1..Len(FactoriesOf[t]) :
    \E j \in 1..Len(CamerasOf[FactoriesOf[t][i]]) :
      CamerasOf[FactoriesOf[t][i]][j] = c

ASSUME CameraAssumption == NumCamera \in Nat \ {0}
ASSUME WiringAssumption ==
  /\ FactoriesOf \in [Task -> Seq(Factory)]
  /\ CamerasOf \in [Factory -> Seq(Camera)]
  /\ \A t \in Task : FactoriesOf[t] # <<>>
  /\ \A f \in Factory : CamerasOf[f] # <<>>
ASSUME OwnerAssumption ==
  \A t, u \in Task, c \in Camera : Owns(t, c) /\ Owns(u, c) => t = u
\* A camera has one place in one factory: CreateCamera and CreateStereoCamera
\* make the cameras of a factory with it.
ASSUME WiredOnceAssumption ==
  \A f, g \in Factory :
    \A i \in 1..Len(CamerasOf[f]), j \in 1..Len(CamerasOf[g]) :
      CamerasOf[f][i] = CamerasOf[g][j] => f = g /\ i = j
ASSUME LengthAssumption ==
  /\ KeepLen \in Nat \ {0}
  /\ MaxQueueLen \in Nat
  /\ KeepLen < MaxQueueLen
  /\ MaxShot \in Nat

Free == "free"   \* lockGetImage is not held
ASSUME FreeAssumption == Free \notin Task

VARIABLES
  queue,       \* vTempImageQueue: the images waiting, oldest first
  frameCount,  \* groups GetImage has returned
  lock,        \* the task that holds lockGetImage, or Free
  shot,        \* per factory, its captures so far
  isError,     \* per factory, its device's _isError
  pc,          \* per task, where it is in run()
  factoryIndex, imageIndex,  \* per task, its loop counters while capturing
  idx, doneCount, group,     \* per task, GetImage's locals
  second,      \* per task, this is doOnceProc's second call
  last         \* history: the group GetImage returned last, 0 before any

queueVars == <<queue, frameCount, lock, last>>
grabVars  == <<shot, isError, factoryIndex, imageIndex>>
getVars   == <<idx, doneCount, group, second>>
vars      == <<queueVars, grabVars, getVars, pc>>

NoGroup == [c \in Camera |-> 0]

Init ==
  /\ queue = [c \in Camera |-> <<>>]
  /\ frameCount = 0
  /\ lock = Free
  /\ last = NoGroup
  /\ shot = [f \in Factory |-> 0]
  /\ isError = [f \in Factory |-> FALSE]
  /\ factoryIndex = [t \in Task |-> 1]
  /\ imageIndex = [t \in Task |-> 1]
  /\ idx = [t \in Task |-> 1]
  /\ doneCount = [t \in Task |-> 0]
  /\ group = [t \in Task |-> NoGroup]
  /\ second = [t \in Task |-> FALSE]
  /\ pc = [t \in Task |-> "grab"]

Goto(t, label) == pc' = [pc EXCEPT ![t] = label]

-----------------------------------------------------------------------------
(* Capture and PushImage.                                                  *)

CurFactory(t) == FactoriesOf[t][factoryIndex[t]]
CurCamera(t)  == CamerasOf[CurFactory(t)][imageIndex[t]]

\* Mutant: the factory loop runs one turn too many.
MutNextFactory(t) ==
  /\ imageIndex' = [imageIndex EXCEPT ![t] = 1]
  /\ factoryIndex' = [factoryIndex EXCEPT ![t] = @ + 1]
  /\ Goto(t, IF factoryIndex[t] <= Len(FactoriesOf[t]) THEN "grab" ELSE "try")

\* The factory is done: go on with the next one, or, after the last, to the
\* processing half of the loop.
NextFactory(t) ==
  /\ imageIndex' = [imageIndex EXCEPT ![t] = 1]
  /\ IF factoryIndex[t] < Len(FactoriesOf[t])
     THEN /\ factoryIndex' = [factoryIndex EXCEPT ![t] = @ + 1]
          /\ Goto(t, "grab")
     ELSE /\ factoryIndex' = [factoryIndex EXCEPT ![t] = 1]
          /\ Goto(t, "try")

\* Create() succeeds: its images are to be pushed.
Grab(t) ==
  /\ pc[t] = "grab"
  /\ ~isError[CurFactory(t)]
  /\ shot[CurFactory(t)] < MaxShot
  /\ shot' = [shot EXCEPT ![CurFactory(t)] = @ + 1]
  /\ Goto(t, "push")
  /\ UNCHANGED <<queueVars, getVars, isError, factoryIndex, imageIndex>>

\* Create() fails: isSuccess is false on every image and none is pushed.  A
\* read that fails marks the device, and no later read of it succeeds.
GrabFail(t) ==
  /\ pc[t] = "grab"
  /\ isError' = [isError EXCEPT ![CurFactory(t)] = TRUE]
  /\ NextFactory(t)
  /\ UNCHANGED <<queueVars, getVars, shot>>

\* Create() or applyCapProp() throws: the device is not marked, and the task
\* goes to the processing half of the loop past the factories that are left.
GrabThrow(t) ==
  /\ pc[t] = "grab"
  /\ ~isError[CurFactory(t)]
  /\ imageIndex' = [imageIndex EXCEPT ![t] = 1]
  /\ factoryIndex' = [factoryIndex EXCEPT ![t] = 1]
  /\ Goto(t, "try")
  /\ UNCHANGED <<queueVars, getVars, shot, isError>>

\* Mutant: > for >=.
MutPushCheck(t) ==
  /\ pc[t] = "push"
  /\ Goto(t, IF Len(queue[CurCamera(t)]) > MaxQueueLen THEN "drop" ELSE "enqueue")
  /\ UNCHANGED <<queueVars, grabVars, getVars>>

\* while (size_approx() >= maxQueueLen)
PushCheck(t) ==
  /\ pc[t] = "push"
  /\ Goto(t, IF Len(queue[CurCamera(t)]) >= MaxQueueLen THEN "drop" ELSE "enqueue")
  /\ UNCHANGED <<queueVars, grabVars, getVars>>

\* Mutant: the newest image is removed.
MutDequeue(c) ==
  queue' = [queue EXCEPT ![c] = IF @ = <<>> THEN @ ELSE SubSeq(@, 1, Len(@) - 1)]

\* try_dequeue: remove the oldest image of camera c, if there is one.
Dequeue(c) ==
  queue' = [queue EXCEPT ![c] = IF @ = <<>> THEN @ ELSE Tail(@)]

\* Mutant: a full queue costs the new images as well as the oldest one.
MutPushDrop(t) ==
  /\ pc[t] = "drop"
  /\ Dequeue(CurCamera(t))
  /\ NextFactory(t)
  /\ UNCHANGED <<frameCount, lock, last, shot, isError, getVars>>

PushDrop(t) ==
  /\ pc[t] = "drop"
  /\ Dequeue(CurCamera(t))
  /\ Goto(t, "push")
  /\ UNCHANGED <<frameCount, lock, last, grabVars, getVars>>

PushEnqueue(t) ==
  /\ pc[t] = "enqueue"
  /\ queue' = [queue EXCEPT ![CurCamera(t)] = Append(@, shot[CurFactory(t)])]
  /\ IF imageIndex[t] < Len(CamerasOf[CurFactory(t)])
     THEN /\ imageIndex' = [imageIndex EXCEPT ![t] = @ + 1]
          /\ Goto(t, "push")
          /\ UNCHANGED factoryIndex
     ELSE NextFactory(t)
  /\ UNCHANGED <<frameCount, lock, last, shot, isError, getVars>>

-----------------------------------------------------------------------------
(* lockGetImage and GetImage.                                              *)

StartGetImage(t) ==
  /\ idx' = [idx EXCEPT ![t] = 1]
  /\ doneCount' = [doneCount EXCEPT ![t] = 0]
  /\ group' = [group EXCEPT ![t] = NoGroup]

\* Mutant: try_lock's answer is not looked at.
MutTryLock(t) ==
  /\ pc[t] = "try"
  /\ lock' = t
  /\ second' = [second EXCEPT ![t] = FALSE]
  /\ StartGetImage(t)
  /\ Goto(t, "count")
  /\ UNCHANGED <<queue, frameCount, last, grabVars>>

\* lockGetImage.try_lock() succeeds: the first doOnceProc().
TryLock(t) ==
  /\ pc[t] = "try"
  /\ lock = Free
  /\ lock' = t
  /\ second' = [second EXCEPT ![t] = FALSE]
  /\ StartGetImage(t)
  /\ Goto(t, "count")
  /\ UNCHANGED <<queue, frameCount, last, grabVars>>

\* try_lock() fails: straight to the next capture.
TryLockFail(t) ==
  /\ pc[t] = "try"
  /\ lock # Free
  /\ Goto(t, "grab")
  /\ UNCHANGED <<queueVars, grabVars, getVars>>

\* Count the non-empty queues, one by one; if not all are, return nullptr.
Count(t) ==
  LET done == doneCount[t] + (IF Len(queue[idx[t]]) > 0 THEN 1 ELSE 0) IN
  /\ pc[t] = "count"
  /\ doneCount' = [doneCount EXCEPT ![t] = done]
  /\ IF idx[t] < NumCamera
     THEN /\ idx' = [idx EXCEPT ![t] = @ + 1]
          /\ UNCHANGED pc
     ELSE /\ idx' = [idx EXCEPT ![t] = 1]
          /\ Goto(t, IF done = NumCamera THEN "trim" ELSE "unlock")
  /\ UNCHANGED <<queueVars, grabVars, group, second>>

\* while (size_approx() > 2)
TrimCheck(t) ==
  /\ pc[t] = "trim"
  /\ Goto(t, IF Len(queue[idx[t]]) > KeepLen THEN "trimDrop" ELSE "take")
  /\ UNCHANGED <<queueVars, grabVars, getVars>>

TrimDrop(t) ==
  /\ pc[t] = "trimDrop"
  /\ Dequeue(idx[t])
  /\ Goto(t, "trim")
  /\ UNCHANGED <<frameCount, lock, last, grabVars, getVars>>

\* while (!try_dequeue(img)): spins, which here is waiting, until the queue
\* has an image; addCameraImage.
Taken(t) == [group[t] EXCEPT ![idx[t]] = Head(queue[idx[t]])]

\* Mutant: the loop over the cameras does not end with the last one.
MutTake(t) ==
  /\ pc[t] = "take"
  /\ queue[idx[t]] # <<>>
  /\ Dequeue(idx[t])
  /\ group' = [group EXCEPT ![t] = Taken(t)]
  /\ idx' = [idx EXCEPT ![t] = @ + 1]
  /\ Goto(t, "trim")
  /\ UNCHANGED <<frameCount, lock, last, grabVars, doneCount, second>>

Take(t) ==
  /\ pc[t] = "take"
  /\ queue[idx[t]] # <<>>
  /\ idx[t] < NumCamera
  /\ Dequeue(idx[t])
  /\ group' = [group EXCEPT ![t] = Taken(t)]
  /\ idx' = [idx EXCEPT ![t] = @ + 1]
  /\ Goto(t, "trim")
  /\ UNCHANGED <<frameCount, lock, last, grabVars, doneCount, second>>

\* The image of the last camera: GetImage returns the group, which is
\* processed; after the first group doOnceProc is called once more.
TakeLast(t) ==
  /\ pc[t] = "take"
  /\ queue[idx[t]] # <<>>
  /\ idx[t] = NumCamera
  /\ Dequeue(idx[t])
  /\ last' = Taken(t)
  /\ frameCount' = frameCount + 1
  /\ second' = [second EXCEPT ![t] = TRUE]
  /\ StartGetImage(t)
  /\ Goto(t, IF second[t] THEN "unlock" ELSE "count")
  /\ UNCHANGED <<lock, grabVars>>

\* Mutant: a path out of the locked section without unlock().
MutUnlock(t) ==
  /\ pc[t] = "unlock"
  /\ Goto(t, "grab")
  /\ UNCHANGED <<queueVars, grabVars, getVars>>

Unlock(t) ==
  /\ pc[t] = "unlock"
  /\ lock' = Free
  /\ Goto(t, "grab")
  /\ UNCHANGED <<queue, frameCount, last, grabVars, getVars>>

-----------------------------------------------------------------------------
Step(t) ==
  \/ Grab(t) \/ GrabFail(t) \/ GrabThrow(t)
  \/ PushCheck(t) \/ PushDrop(t) \/ PushEnqueue(t)
  \/ TryLock(t) \/ TryLockFail(t)
  \/ Count(t) \/ TrimCheck(t) \/ TrimDrop(t) \/ Take(t) \/ TakeLast(t)
  \/ Unlock(t)

Next == \E t \in Task : Step(t)

Spec == Init /\ [][Next]_vars

\* Every capture thread keeps running.
FairSpec == Spec /\ \A t \in Task : WF_vars(Step(t))

-----------------------------------------------------------------------------
(* Properties.                                                             *)

Labels == {"grab", "push", "drop", "enqueue", "try", "count", "trim",
           "trimDrop", "take", "unlock"}

\* Type invariant: the loop counters stay inside the vectors they index, and
\* images are capture numbers.
TypeOK ==
  /\ queue \in [Camera -> Seq(Nat)]
  /\ frameCount \in Nat
  /\ lock \in Task \cup {Free}
  /\ last \in [Camera -> Nat]
  /\ shot \in [Factory -> Nat]
  /\ isError \in [Factory -> BOOLEAN]
  /\ factoryIndex \in [Task -> Nat]
  /\ \A t \in Task : factoryIndex[t] \in 1..Len(FactoriesOf[t])
  /\ imageIndex \in [Task -> Nat]
  /\ \A t \in Task : imageIndex[t] \in 1..Len(CamerasOf[CurFactory(t)])
  /\ idx \in [Task -> Camera]
  /\ doneCount \in [Task -> Nat]
  /\ group \in [Task -> [Camera -> Nat]]
  /\ second \in [Task -> BOOLEAN]
  /\ pc \in [Task -> Labels]

\* The memory bound of PushImage: although a queue's length is read before the
\* dequeues and the enqueue it decides on, no queue is ever longer than
\* maxQueueLen (CameraImageQueue.h:51, "prevent excessive memory use").
QueueBounded == \A c \in Camera : Len(queue[c]) <= MaxQueueLen

\* A thread is inside PushImage for camera c, past its last drop: what it
\* does next to the queue of c, unless it is full, is enqueue.
Pushing(c) ==
  \E t \in Task : pc[t] \in {"push", "enqueue"} /\ CurCamera(t) = c

\* GetImage, having counted every queue as non-empty, dequeues with
\* "while (!try_dequeue(img)) {}" while holding lockGetImage.  PushImage may
\* drop the very image it counted; if so, a thread is about to enqueue a newer
\* one, so the spin waits for a push under way and never for the next capture.
SpinSafe ==
  \A t \in Task :
    pc[t] = "take" /\ queue[idx[t]] = <<>> => Pushing(idx[t])

\* Frames of a camera wait, are assembled and are returned in capture order,
\* none twice: across PushImage's drops, GetImage's drops and its takes, what
\* waits is newer than what the lock holder has taken, which is newer than
\* what was returned.
InOrder ==
  \A c \in Camera :
    /\ \A i, j \in 1..Len(queue[c]) : i < j => queue[c][i] < queue[c][j]
    /\ \A i \in 1..Len(queue[c]), t \in Task :
         /\ last[c] < queue[c][i]
         /\ group[t][c] < queue[c][i]
    /\ \A t \in Task : group[t][c] # 0 => last[c] < group[t][c]

\* The images of one factory in a returned group are of one capture: the left
\* and right halves of a stereo frame are never of different moments
\* (CameraImageGroup.h:10, "the result of one capture by several cameras").
StereoPaired ==
  \A f \in Factory : \A i, j \in 1..Len(CamerasOf[f]) :
    last[CamerasOf[f][i]] = last[CamerasOf[f][j]]

\* The spin on try_dequeue always ends: no thread keeps lockGetImage, and with
\* it all processing, for ever.
SpinEnds == \A t \in Task : pc[t] = "take" ~> pc[t] # "take"

\* No complete group is stranded: once every queue holds an image, GetImage
\* returns another group, though each thread gives up when try_lock fails and
\* nobody is notified of a push.
NoStrandedGroup ==
  \A n \in 0..MaxShot :
    (frameCount = n /\ \A c \in Camera : queue[c] # <<>>) ~> frameCount > n

-----------------------------------------------------------------------------
(* Why SpinSafe and QueueBounded hold: the inductive invariant.            *)

Holding == {"count", "trim", "trimDrop", "take", "unlock"}

\* Only the task inside the locked section holds the lock.
LockInv == \A t \in Task : pc[t] \in Holding <=> lock = t

\* Between PushImage's check and its enqueue nobody else makes the queue longer.
RoomInv == \A t \in Task : pc[t] = "enqueue" => Len(queue[CurCamera(t)]) < MaxQueueLen

\* Camera c has an image, or is about to get one from a push under way.
Guarded(c) == queue[c] # <<>> \/ Pushing(c)

\* As long as every queue counted was non-empty, they are all guarded.
CountInv ==
  \A t \in Task : pc[t] = "count" =>
    /\ doneCount[t] < idx[t]
    /\ doneCount[t] = idx[t] - 1 => \A c \in 1..(idx[t] - 1) : Guarded(c)

\* So are those still to be taken from, up to the take.
TakeInv ==
  \A t \in Task : pc[t] \in {"trim", "trimDrop", "take"} =>
    \A c \in idx[t]..NumCamera : Guarded(c)

\* PushImage can drop one image more between GetImage's size check and the
\* drop it decides on, but then it is about to enqueue.
TrimInv ==
  \A t \in Task : pc[t] = "trimDrop" =>
    \/ Len(queue[idx[t]]) > KeepLen
    \/ Len(queue[idx[t]]) = KeepLen /\ Pushing(idx[t])

\* The inductive invariant: together these are preserved by every step of
\* PushImage and GetImage.
IInv ==
  /\ TypeOK
  /\ LockInv
  /\ QueueBounded
  /\ RoomInv
  /\ CountInv
  /\ TakeInv
  /\ TrimInv

-----------------------------------------------------------------------------
(* Why InOrder and the refinement hold: where the images are.              *)

\* The images of camera c that wait, that the lock holder has taken, or that
\* were returned last.
Images(c) ==
  {queue[c][i] : i \in 1..Len(queue[c])} \cup {group[t][c] : t \in Task} \cup {last[c]}

\* Factory f has images for camera c.
Feeds(f, c) == \E k \in 1..Len(CamerasOf[f]) : CamerasOf[f][k] = c

\* Task t has captured an image for camera c that it has not pushed yet.
ToPush(t, c) ==
  /\ pc[t] \in {"push", "drop", "enqueue"}
  /\ \E k \in imageIndex[t]..Len(CamerasOf[CurFactory(t)]) : CamerasOf[CurFactory(t)][k] = c

\* Every image was captured by the factory of its camera.
CaptureInv ==
  \A c \in Camera : \A n \in Images(c) :
    n # 0 => \E f \in Factory : Feeds(f, c) /\ n <= shot[f]

\* An image about to be pushed is newer than all there are of its camera.
FreshInv ==
  \A t \in Task, c \in Camera : ToPush(t, c) =>
    /\ shot[CurFactory(t)] > 0
    /\ \A n \in Images(c) : n < shot[CurFactory(t)]

\* The lock holder has an image of each camera before the one it is at, and
\* nobody has any other.
GroupInv ==
  \A t \in Task, c \in Camera :
    group[t][c] # 0 <=> pc[t] \in {"trim", "trimDrop", "take"} /\ c < idx[t]

\* The inductive invariant about the order of images, relative to TypeOK and
\* LockInv.
OrderInv == CaptureInv /\ FreshInv /\ GroupInv /\ InOrder

-----------------------------------------------------------------------------
(* Why StereoPaired holds with one task: what will have become of a camera *)
(* when the push or the GetImage under way ends does not depend on how far *)
(* it has come.                                                            *)

\* PushImage of image n into queue q.
Pushed(q, n) == Append(IF Len(q) >= MaxQueueLen THEN Tail(q) ELSE q, n)

\* GetImage's while loop on queue q.
Trimmed(q) == IF Len(q) > KeepLen THEN SubSeq(q, Len(q) - KeepLen + 1, Len(q)) ELSE q

\* The queue of camera c and its image in the group, at the end of what t does.
Fate(t, c) ==
  IF ToPush(t, c) THEN <<Pushed(queue[c], shot[CurFactory(t)]), 0>>
  ELSE IF pc[t] \notin {"trim", "trimDrop", "take"} THEN <<queue[c], 0>>
  ELSE IF c < idx[t] THEN <<queue[c], group[t][c]>>
  ELSE <<Tail(Trimmed(queue[c])), Head(Trimmed(queue[c]))>>

\* The cameras of one factory share a fate.
FateShared ==
  \A t \in Task, f \in Factory : \A i, j \in 1..Len(CamerasOf[f]) :
    Fate(t, CamerasOf[f][i]) = Fate(t, CamerasOf[f][j])

\* What a check found still holds at the step it decides on.
CheckHolds ==
  \A t \in Task :
    /\ pc[t] = "drop" => Len(queue[CurCamera(t)]) >= MaxQueueLen
    /\ pc[t] = "enqueue" => Len(queue[CurCamera(t)]) < MaxQueueLen
    /\ pc[t] = "trimDrop" => Len(queue[idx[t]]) > KeepLen
    /\ pc[t] = "take" => Len(queue[idx[t]]) <= KeepLen

\* PushImage begins with the first image of a capture.
FirstImage ==
  \A t \in Task : pc[t] \notin {"push", "drop", "enqueue"} => imageIndex[t] = 1

\* The inductive invariant about the pairing of images, with one task and
\* relative to TypeOK.
PairInv == StereoPaired /\ FateShared /\ CheckHolds /\ FirstImage

-----------------------------------------------------------------------------
(* The abstract specification this one implements.                         *)

FactoryOf ==
  [c \in Camera |->
     CHOOSE f \in Factory : \E i \in 1..Len(CamerasOf[f]) : CamerasOf[f][i] = c]

Delivery == INSTANCE FrameDelivery
              WITH captured <- shot, delivered <- last, groups <- frameCount

\* PushImage and GetImage, with all their interleavings, implement delivery of
\* complete groups, in order and without duplicates, of images that were
\* captured by the camera they are filed under.
DeliversGroups == Delivery!Spec
=============================================================================
