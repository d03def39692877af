--------------------- MODULE CameraImageQueueOrder_proofs ---------------------
(***************************************************************************)
(* Proofs about the order of images: that the images of a camera wait, are *)
(* taken and are returned in the order of their capture, and that the      *)
(* queues implement FrameDelivery, for any tasks, factories and cameras.   *)
(***************************************************************************)
EXTENDS CameraImageQueue_proofs

-----------------------------------------------------------------------------
(* The images of a queue.                                                  *)

\* The images of a queue are numbers.
LEMMA QueueElements ==
  ASSUME NEW s \in Seq(Nat)
  PROVE  Len(s) \in Nat /\ \A i \in 1..Len(s) : s[i] \in Nat
BY LenProperties, ElementOfSeq

\* A dequeue removes the first image and moves the others up by one.
LEMMA TailElements ==
  ASSUME NEW s \in Seq(Nat), s # <<>>
  PROVE  /\ Len(s) \in Nat /\ 1 \in 1..Len(s) /\ Head(s) = s[1]
         /\ Tail(s) \in Seq(Nat)
         /\ Len(Tail(s)) = Len(s) - 1
         /\ \A i \in 1..Len(Tail(s)) : i + 1 \in 1..Len(s) /\ Tail(s)[i] = s[i + 1]
<1>1. Len(s) \in Nat \ {0}
  BY EmptySeq
<1>2. /\ Tail(s) \in Seq(Nat) /\ Len(Tail(s)) = Len(s) - 1
      /\ \A i \in 1..Len(Tail(s)) : Tail(s)[i] = s[i + 1]
  BY HeadTailProperties
<1>3. Head(s) = s[1]
  OBVIOUS
<1> QED
  BY <1>1, <1>2, <1>3

\* The queue of camera c after a step that does not enqueue into it: every
\* image was in it, and the order is the same.
Shortened(c) ==
  \E k \in {0, 1} : \A i \in 1..Len(queue'[c]) :
    i + k \in 1..Len(queue[c]) /\ queue'[c][i] = queue[c][i + k]

\* A dequeue of one camera shortens all queues in this sense.
LEMMA DequeueShortens ==
  ASSUME TypeOK, NEW c \in Camera, Dequeue(c), NEW d \in Camera
  PROVE  Shortened(d)
<1>1. queue[d] \in Seq(Nat) /\ Len(queue[d]) \in Nat
  BY LenProperties DEF TypeOK
<1>2. CASE queue'[d] = queue[d]
  <2>1. \A i \in 1..Len(queue'[d]) : i + 0 \in 1..Len(queue[d]) /\ queue'[d][i] = queue[d][i + 0]
    BY <1>1, <1>2
  <2> QED
    BY <2>1 DEF Shortened
<1>3. CASE queue[d] # <<>> /\ queue'[d] = Tail(queue[d])
  BY <1>1, <1>3, TailElements DEF Shortened
<1> QED
  BY <1>2, <1>3 DEF Dequeue, TypeOK

\* A step that leaves the queues alone does too.
LEMMA SameShortens ==
  ASSUME TypeOK, UNCHANGED queue, NEW d \in Camera
  PROVE  Shortened(d)
<1>1. queue[d] \in Seq(Nat) /\ Len(queue[d]) \in Nat
  BY LenProperties DEF TypeOK
<1>2. \A i \in 1..Len(queue'[d]) : i + 0 \in 1..Len(queue[d]) /\ queue'[d][i] = queue[d][i + 0]
  BY <1>1
<1> QED
  BY <1>2 DEF Shortened

\* Where the images of camera c are found.
LEMMA ImagesLemma ==
  ASSUME TypeOK, NEW c \in Camera
  PROVE  /\ Images(c) \subseteq Nat
         /\ \A i \in 1..Len(queue[c]) : queue[c][i] \in Images(c)
         /\ \A t \in Task : group[t][c] \in Images(c)
         /\ last[c] \in Images(c)
<1>1. \A i \in 1..Len(queue[c]) : queue[c][i] \in Nat
  BY QueueElements DEF TypeOK
<1>2. (\A t \in Task : group[t][c] \in Nat) /\ last[c] \in Nat
  BY DEF TypeOK
<1> QED
  BY <1>1, <1>2 DEF Images

-----------------------------------------------------------------------------
(* The wiring.                                                             *)

\* A task owns the cameras of the images it has to push.
LEMMA ToPushOwned ==
  ASSUME TypeOK, NEW t \in Task, NEW c \in Camera, ToPush(t, c)
  PROVE  /\ Owns(t, c)
         /\ CurFactory(t) \in Factory
         /\ Feeds(CurFactory(t), c)
         /\ \A u \in Task : ToPush(u, c) \/ CurCamera(u) = c => u = t
<1>1. PICK k \in imageIndex[t]..Len(CamerasOf[CurFactory(t)]) : CamerasOf[CurFactory(t)][k] = c
  BY DEF ToPush
<1>2. /\ factoryIndex[t] \in 1..Len(FactoriesOf[t])
      /\ imageIndex[t] \in 1..Len(CamerasOf[CurFactory(t)])
  BY DEF TypeOK
<1>3. CurFactory(t) \in Factory
  BY CurLemma
<1>4. k \in 1..Len(CamerasOf[CurFactory(t)])
  BY <1>1, <1>2, <1>3, WiringAssumption, LenProperties
<1>5. Owns(t, c) /\ Feeds(CurFactory(t), c)
  BY <1>1, <1>2, <1>4 DEF Owns, CurFactory, Feeds
<1>6. ASSUME NEW u \in Task, ToPush(u, c)
      PROVE  Owns(u, c)
  <2>1. PICK m \in imageIndex[u]..Len(CamerasOf[CurFactory(u)]) : CamerasOf[CurFactory(u)][m] = c
    BY <1>6 DEF ToPush
  <2>2. /\ factoryIndex[u] \in 1..Len(FactoriesOf[u])
        /\ imageIndex[u] \in 1..Len(CamerasOf[CurFactory(u)])
        /\ CurFactory(u) \in Factory
    BY CurLemma DEF TypeOK
  <2>3. m \in 1..Len(CamerasOf[CurFactory(u)])
    BY <2>1, <2>2, WiringAssumption, LenProperties
  <2> QED
    BY <2>1, <2>2, <2>3 DEF Owns, CurFactory
<1> QED
  BY <1>3, <1>5, <1>6, CurLemma, OwnerAssumption

\* A camera has one factory.
LEMMA OneFactory ==
  ASSUME NEW f \in Factory, NEW g \in Factory, NEW c \in Camera, Feeds(f, c), Feeds(g, c)
  PROVE  f = g
BY WiredOnceAssumption DEF Feeds

\* The image at the head of a push is to be pushed.
LEMMA CurToPush ==
  ASSUME TypeOK, NEW t \in Task, pc[t] \in {"push", "drop", "enqueue"}
  PROVE  ToPush(t, CurCamera(t)) /\ CurCamera(t) \in Camera
<1>1. /\ imageIndex[t] \in 1..Len(CamerasOf[CurFactory(t)])
      /\ CurFactory(t) \in Factory
      /\ CurCamera(t) \in Camera
  BY CurLemma DEF TypeOK
<1>2. Len(CamerasOf[CurFactory(t)]) \in Nat
  BY <1>1, WiringAssumption, LenProperties
<1>3. imageIndex[t] \in imageIndex[t]..Len(CamerasOf[CurFactory(t)])
  BY <1>1, <1>2
<1> QED
  BY <1>1, <1>3 DEF ToPush, CurCamera

-----------------------------------------------------------------------------
(* What a step does to the images.                                         *)

\* A step of one task leaves the captures of the others alone.
LEMMA CaptureFrame ==
  ASSUME TypeOK, NEW t \in Task, Step(t), NEW u \in Task, u # t
  PROVE  /\ pc'[u] = pc[u]
         /\ imageIndex'[u] = imageIndex[u]
         /\ CurFactory(u)' = CurFactory(u)
<1> USE DEF TypeOK, Goto, CurFactory
<1>1. CASE Grab(t) \/ PushCheck(t) \/ PushDrop(t)
  BY <1>1 DEF Grab, PushCheck, PushDrop, grabVars
<1>2. CASE GrabFail(t)
  BY <1>2 DEF GrabFail, NextFactory
<1>3. CASE GrabThrow(t)
  BY <1>3 DEF GrabThrow
<1>4. CASE PushEnqueue(t)
  BY <1>4 DEF PushEnqueue, NextFactory
<1>5. CASE TryLock(t) \/ TryLockFail(t) \/ Count(t) \/ TrimCheck(t)
  BY <1>5 DEF TryLock, TryLockFail, Count, TrimCheck, grabVars
<1>6. CASE TrimDrop(t) \/ Take(t) \/ TakeLast(t) \/ Unlock(t)
  BY <1>6 DEF TrimDrop, Take, TakeLast, Unlock, grabVars
<1> QED
  BY <1>1, <1>2, <1>3, <1>4, <1>5, <1>6 DEF Step

\* The number of captures only ever grows, and only by a capture.
LEMMA ShotStep ==
  ASSUME TypeOK, NEW t \in Task, Step(t)
  PROVE  /\ ~Grab(t) => shot' = shot
         /\ \A f \in Factory : shot[f] \in Nat /\ shot'[f] \in Nat /\ shot[f] <= shot'[f]
         /\ Grab(t) => shot'[CurFactory(t)] = shot[CurFactory(t)] + 1
<1>0. shot \in [Factory -> Nat] /\ CurFactory(t) \in Factory
  BY CurLemma DEF TypeOK
<1>1. CASE Grab(t)
  BY <1>0, <1>1 DEF Grab
<1>2. CASE ~Grab(t)
  <2>1. shot' = shot
    BY <1>2 DEF Step, GrabFail, GrabThrow, PushCheck, PushDrop, PushEnqueue, TryLock,
                TryLockFail, Count, TrimCheck, TrimDrop, Take, TakeLast, Unlock, grabVars
  <2> QED
    BY <1>0, <1>2, <2>1
<1> QED
  BY <1>1, <1>2

\* What is to be pushed after a step was so before it, or has just been
\* captured; and it is not what the step pushed.
LEMMA ToPushStep ==
  ASSUME TypeOK, NEW t \in Task, Step(t), NEW u \in Task, NEW c \in Camera, ToPush(u, c)'
  PROVE  /\ CurFactory(u)' = CurFactory(u)
         /\ \/ ToPush(u, c) /\ ~(PushEnqueue(t) /\ c = CurCamera(t))
            \/ Grab(t) /\ u = t /\ Feeds(CurFactory(t), c)
<1> USE DEF Goto
<1>0. pc \in [Task -> Labels] /\ imageIndex \in [Task -> Nat] /\ factoryIndex \in [Task -> Nat]
  BY DEF TypeOK
<1>1. CASE u # t
  <2>1. CurFactory(u)' = CurFactory(u) /\ ToPush(u, c)
    BY <1>1, CaptureFrame DEF ToPush
  <2>2. c # CurCamera(t)
    BY <1>1, <2>1, ToPushOwned
  <2> QED
    BY <2>1, <2>2
<1>2. CASE u = t
  <2>0. pc'[t] \in {"push", "drop", "enqueue"}
    BY <1>2 DEF ToPush
  <2>1. CASE Grab(t)
    <3>1. UNCHANGED <<factoryIndex, imageIndex>>
      BY <2>1 DEF Grab
    <3>2. imageIndex[t] \in 1..Len(CamerasOf[CurFactory(t)])
      BY DEF TypeOK
    <3>3. CurFactory(t) \in Factory /\ Len(CamerasOf[CurFactory(t)]) \in Nat
      BY CurLemma, WiringAssumption, LenProperties
    <3>4. PICK k \in imageIndex[t]..Len(CamerasOf[CurFactory(t)]) : CamerasOf[CurFactory(t)][k] = c
      BY <1>2, <3>1 DEF ToPush, CurFactory
    <3>5. k \in 1..Len(CamerasOf[CurFactory(t)])
      BY <3>2, <3>3, <3>4
    <3> QED
      BY <1>2, <2>1, <3>1, <3>4, <3>5 DEF Feeds, CurFactory
  <2>2. CASE PushCheck(t) \/ PushDrop(t)
    <3>1. /\ UNCHANGED <<factoryIndex, imageIndex>>
          /\ pc[t] \in {"push", "drop"}
          /\ ~PushEnqueue(t)
      BY <2>2 DEF PushCheck, PushDrop, PushEnqueue, grabVars
    <3> QED
      BY <1>2, <3>1 DEF ToPush, CurFactory
  <2>3. CASE PushEnqueue(t) /\ imageIndex[t] < Len(CamerasOf[CurFactory(t)])
    <3>1. factoryIndex' = factoryIndex /\ imageIndex'[t] = imageIndex[t] + 1 /\ pc[t] = "enqueue"
      BY <1>0, <2>3 DEF PushEnqueue
    <3>2. CurFactory(t)' = CurFactory(t)
      BY <3>1 DEF CurFactory
    <3>3. PICK k \in imageIndex'[t]..Len(CamerasOf[CurFactory(t)]) : CamerasOf[CurFactory(t)][k] = c
      BY <1>2, <3>2 DEF ToPush
    <3>4. /\ imageIndex[t] \in 1..Len(CamerasOf[CurFactory(t)])
          /\ CurFactory(t) \in Factory
          /\ Len(CamerasOf[CurFactory(t)]) \in Nat
      BY CurLemma, WiringAssumption, LenProperties DEF TypeOK
    <3>5. /\ k \in imageIndex[t]..Len(CamerasOf[CurFactory(t)])
          /\ k \in 1..Len(CamerasOf[CurFactory(t)])
          /\ k # imageIndex[t]
      BY <3>1, <3>3, <3>4
    <3>6. c # CurCamera(t)
      BY <3>3, <3>4, <3>5, WiredOnceAssumption DEF CurCamera
    <3>7. ToPush(t, c)
      BY <3>1, <3>3, <3>5 DEF ToPush
    <3> QED
      BY <1>2, <3>2, <3>6, <3>7
  <2>4. CASE GrabFail(t) \/ (PushEnqueue(t) /\ ~(imageIndex[t] < Len(CamerasOf[CurFactory(t)])))
    <3>1. NextFactory(t)
      BY <2>4 DEF GrabFail, PushEnqueue
    <3> QED
      BY <2>0, <3>1, NextFactoryLemma
  <2>5. CASE GrabThrow(t) \/ TryLock(t) \/ TryLockFail(t) \/ Count(t) \/ TrimCheck(t)
    BY <1>0, <2>0, <2>5 DEF GrabThrow, TryLock, TryLockFail, Count, TrimCheck
  <2>6. CASE TrimDrop(t) \/ Take(t) \/ TakeLast(t) \/ Unlock(t)
    BY <1>0, <2>0, <2>6 DEF TrimDrop, Take, TakeLast, Unlock
  <2> QED
    BY <2>1, <2>2, <2>3, <2>4, <2>5, <2>6 DEF Step
<1> QED
  BY <1>1, <1>2

\* The steps that neither add an image nor move one into a group.
Still(t) ==
  \/ Grab(t) \/ GrabFail(t) \/ GrabThrow(t) \/ PushCheck(t) \/ PushDrop(t)
  \/ TryLock(t) \/ TryLockFail(t) \/ Count(t) \/ TrimCheck(t) \/ TrimDrop(t)
  \/ Unlock(t)

\* They at most remove images.
LEMMA StillStep ==
  ASSUME TypeOK, GroupInv, NEW t \in Task, Still(t)
  PROVE  /\ UNCHANGED <<group, last>>
         /\ \A d \in Camera : Shortened(d)
<1>1. CASE Grab(t) \/ GrabFail(t) \/ GrabThrow(t) \/ PushCheck(t)
  <2>1. UNCHANGED <<queue, group, last>>
    BY <1>1 DEF Grab, GrabFail, GrabThrow, PushCheck, queueVars, getVars
  <2> QED
    BY <2>1, SameShortens
<1>2. CASE PushDrop(t)
  <2>1. UNCHANGED <<group, last>> /\ Dequeue(CurCamera(t)) /\ CurCamera(t) \in Camera
    BY <1>2, CurLemma DEF PushDrop, getVars
  <2> QED
    BY <2>1, DequeueShortens
<1>3. CASE TryLock(t)
  <2>1. UNCHANGED <<queue, last>> /\ group' = [group EXCEPT ![t] = NoGroup] /\ pc[t] = "try"
    BY <1>3 DEF TryLock, StartGetImage
  <2>2. group \in [Task -> [Camera -> Nat]]
    BY DEF TypeOK
  <2>3. \A c \in Camera : group[t][c] = 0
    BY <2>1 DEF GroupInv
  <2>4. group[t] = NoGroup
    BY <2>2, <2>3 DEF NoGroup
  <2>5. group' = group
    BY <2>1, <2>2, <2>4
  <2> QED
    BY <2>1, <2>5, SameShortens
<1>4. CASE TryLockFail(t) \/ Count(t) \/ TrimCheck(t) \/ Unlock(t)
  <2>1. UNCHANGED <<queue, group, last>>
    BY <1>4 DEF TryLockFail, Count, TrimCheck, Unlock, queueVars, getVars
  <2> QED
    BY <2>1, SameShortens
<1>5. CASE TrimDrop(t)
  <2>1. UNCHANGED <<group, last>> /\ Dequeue(idx[t]) /\ idx[t] \in Camera
    BY <1>5 DEF TrimDrop, getVars, TypeOK
  <2> QED
    BY <2>1, DequeueShortens
<1> QED
  BY <1>1, <1>2, <1>3, <1>4, <1>5 DEF Still

-----------------------------------------------------------------------------
(* The groups under way.                                                   *)

\* GetImage fills its group camera by camera and nobody else has one.
LEMMA GroupStep ==
  ASSUME TypeOK, LockInv, GroupInv, InOrder, NEW t \in Task, Step(t)
  PROVE  GroupInv'
<1> USE CameraAssumption DEF Goto
<1> DEFINE Taking == {"trim", "trimDrop", "take"}
<1> SUFFICES ASSUME NEW u \in Task, NEW c \in Camera
             PROVE  group'[u][c] # 0 <=> pc'[u] \in Taking /\ c < idx'[u]
  BY DEF GroupInv
<1>0. /\ pc \in [Task -> Labels] /\ idx \in [Task -> Camera]
      /\ group \in [Task -> [Camera -> Nat]]
  BY DEF TypeOK
<1>a. c \in Nat \ {0} /\ idx[t] \in Nat
  BY <1>0 DEF Camera
<1>1. group[u][c] # 0 <=> pc[u] \in Taking /\ c < idx[u]
  BY DEF GroupInv
<1>2. CASE u # t
  <2>1. pc'[u] = pc[u] /\ idx'[u] = idx[u]
    BY <1>2, StepFrame
  <2>2. group'[u] = group[u]
    <3>1. CASE Still(t)
      BY <3>1, StillStep
    <3>2. CASE PushEnqueue(t)
      BY <3>2 DEF PushEnqueue, getVars
    <3>3. CASE Take(t) \/ TakeLast(t)
      BY <1>0, <1>2, <3>3 DEF Take, TakeLast, StartGetImage
    <3> QED
      BY <3>1, <3>2, <3>3 DEF Step, Still
  <2> QED
    BY <1>1, <2>1, <2>2
<1>3. CASE u = t /\ (Grab(t) \/ GrabFail(t) \/ GrabThrow(t) \/ PushCheck(t) \/ PushDrop(t) \/ PushEnqueue(t))
  <2>1. pc[t] \notin Holding /\ pc'[t] \notin Holding
    BY <1>3, PushPc
  <2>2. group' = group
    BY <1>3 DEF Grab, GrabFail, GrabThrow, PushCheck, PushDrop, PushEnqueue, getVars
  <2> QED
    BY <1>1, <1>3, <2>1, <2>2 DEF Holding
<1>4. CASE u = t /\ (TryLock(t) \/ TryLockFail(t) \/ Unlock(t) \/ Count(t))
  <2>1. group' = group
    BY <1>4, StillStep DEF Still
  <2>2. pc[t] \in {"try", "unlock", "count"}
    BY <1>4 DEF TryLock, TryLockFail, Unlock, Count
  <2>3. pc'[t] \in Taking => idx'[t] = 1
    BY <1>0, <1>4 DEF TryLock, TryLockFail, Unlock, Count
  <2> QED
    BY <1>0, <1>a, <1>1, <1>4, <2>1, <2>2, <2>3
<1>5. CASE u = t /\ (TrimCheck(t) \/ TrimDrop(t))
  <2>1. group' = group /\ idx' = idx
    BY <1>5 DEF TrimCheck, TrimDrop, getVars
  <2>2. pc[t] \in Taking /\ pc'[t] \in Taking
    BY <1>0, <1>5 DEF TrimCheck, TrimDrop
  <2> QED
    BY <1>1, <1>5, <2>1, <2>2
<1>6. CASE u = t /\ Take(t)
  <2>1. /\ pc[t] = "take" /\ pc'[t] = "trim" /\ idx'[t] = idx[t] + 1
        /\ group'[t] = Taken(t) /\ queue[idx[t]] # <<>>
    BY <1>0, <1>6 DEF Take
  <2>2. queue[idx[t]] \in Seq(Nat) /\ last[idx[t]] \in Nat /\ idx[t] \in Camera /\ idx[t] \in Nat
    BY <1>0 DEF TypeOK, Camera
  <2>3. last[idx[t]] < Head(queue[idx[t]]) /\ Head(queue[idx[t]]) \in Nat
    BY <2>1, <2>2, TailElements, DequeueLemma DEF InOrder
  <2>4. CASE c = idx[t]
    <3>1. group'[t][c] = Head(queue[idx[t]])
      BY <1>0, <2>1, <2>4 DEF Taken
    <3> QED
      BY <1>6, <2>1, <2>2, <2>3, <2>4, <3>1
  <2>5. CASE c # idx[t]
    <3>1. group'[t][c] = group[t][c]
      BY <1>0, <2>1, <2>5 DEF Taken
    <3>2. c < idx[t] <=> c < idx'[t]
      BY <1>0, <1>a, <2>1, <2>2, <2>5
    <3> QED
      BY <1>1, <1>6, <2>1, <3>1, <3>2
  <2> QED
    BY <2>4, <2>5
<1>7. CASE u = t /\ TakeLast(t)
  <2>1. group'[t] = NoGroup /\ pc'[t] \in {"unlock", "count"}
    BY <1>0, <1>7 DEF TakeLast, StartGetImage
  <2> QED
    BY <1>7, <2>1 DEF NoGroup
<1> QED
  BY <1>2, <1>3, <1>4, <1>5, <1>6, <1>7 DEF Step

-----------------------------------------------------------------------------
(* The images after a step.                                                *)

\* Every image there is after a step was there before, or is no image, or has
\* just been pushed.
LEMMA ImagesStep ==
  ASSUME TypeOK, GroupInv, NEW t \in Task, Step(t), NEW c \in Camera,
         NEW n \in Images(c)'
  PROVE  \/ n \in Images(c)
         \/ n = 0
         \/ PushEnqueue(t) /\ c = CurCamera(t) /\ n = shot[CurFactory(t)]
<1>0. /\ queue[c] \in Seq(Nat) /\ group \in [Task -> [Camera -> Nat]]
      /\ last \in [Camera -> Nat]
  BY DEF TypeOK
<1>1. \/ \E i \in 1..Len(queue'[c]) : n = queue'[c][i]
      \/ \E u \in Task : n = group'[u][c]
      \/ n = last'[c]
  BY DEF Images
<1>2. CASE Still(t)
  <2>1. UNCHANGED <<group, last>> /\ Shortened(c)
    BY <1>2, StillStep
  <2>2. ASSUME NEW i \in 1..Len(queue'[c]) PROVE queue'[c][i] \in Images(c)
    BY <2>1, ImagesLemma DEF Shortened
  <2> QED
    BY <1>1, <2>1, <2>2, ImagesLemma
<1>3. CASE PushEnqueue(t)
  <2>1. UNCHANGED <<group, last>>
    BY <1>3 DEF PushEnqueue, getVars
  <2>2. CASE c # CurCamera(t)
    <3>1. queue'[c] = queue[c]
      BY <1>3, <2>2 DEF PushEnqueue, TypeOK
    <3> QED
      BY <1>1, <2>1, <3>1, ImagesLemma
  <2>3. CASE c = CurCamera(t)
    <3>1. queue'[c] = Append(queue[c], shot[CurFactory(t)]) /\ shot[CurFactory(t)] \in Nat
      BY <1>3, <2>3, CurLemma DEF PushEnqueue, TypeOK
    <3>2. ASSUME NEW i \in 1..Len(queue'[c])
          PROVE  queue'[c][i] \in Images(c) \/ queue'[c][i] = shot[CurFactory(t)]
      <4>1. Len(queue[c]) \in Nat /\ (i \in 1..Len(queue[c]) \/ i = Len(queue[c]) + 1)
        BY <1>0, <3>1, AppendProperties, LenProperties
      <4> QED
        BY <1>0, <3>1, <4>1, AppendProperties, ImagesLemma
    <3> QED
      BY <1>1, <1>3, <2>1, <2>3, <3>2, ImagesLemma
  <2> QED
    BY <2>2, <2>3
<1>4. CASE Take(t) \/ TakeLast(t)
  <2>1. Dequeue(idx[t]) /\ queue[idx[t]] # <<>> /\ idx[t] \in Camera /\ queue[idx[t]] \in Seq(Nat)
    BY <1>4 DEF Take, TakeLast, TypeOK
  <2>2. Shortened(c)
    BY <2>1, DequeueShortens
  <2>3. ASSUME NEW i \in 1..Len(queue'[c]) PROVE queue'[c][i] \in Images(c)
    BY <2>2, ImagesLemma DEF Shortened
  <2>4. Head(queue[idx[t]]) \in Images(idx[t])
    BY <2>1, TailElements, ImagesLemma
  <2>5. Taken(t)[c] \in Images(c)
    <3>1. Taken(t)[c] = IF c = idx[t] THEN Head(queue[idx[t]]) ELSE group[t][c]
      BY <1>0, <2>1 DEF Taken
    <3> QED
      BY <2>4, <3>1, ImagesLemma
  <2>6. last'[c] \in {last[c], Taken(t)[c]}
    BY <1>4 DEF Take, TakeLast
  <2>7. ASSUME NEW u \in Task PROVE group'[u][c] \in {group[u][c], Taken(t)[c], 0}
    <3>1. NoGroup[c] = 0
      BY DEF NoGroup
    <3>2. group' = [group EXCEPT ![t] = Taken(t)] \/ group' = [group EXCEPT ![t] = NoGroup]
      BY <1>4 DEF Take, TakeLast, StartGetImage
    <3> QED
      BY <1>0, <3>1, <3>2
  <2> QED
    BY <1>1, <2>3, <2>5, <2>6, <2>7, ImagesLemma
<1> QED
  BY <1>2, <1>3, <1>4 DEF Step, Still

\* Images keep having been captured.
LEMMA CaptureStep ==
  ASSUME TypeOK, GroupInv, CaptureInv, NEW t \in Task, Step(t)
  PROVE  CaptureInv'
<1> SUFFICES ASSUME NEW c \in Camera, NEW n \in Images(c)', n # 0
             PROVE  \E f \in Factory : Feeds(f, c) /\ n <= shot'[f]
  BY DEF CaptureInv, Feeds
<1>1. CASE n \in Images(c)
  <2>1. PICK f \in Factory : Feeds(f, c) /\ n <= shot[f]
    BY <1>1 DEF CaptureInv
  <2>2. n \in Nat /\ shot[f] \in Nat /\ shot'[f] \in Nat /\ shot[f] <= shot'[f]
    BY <1>1, ImagesLemma, ShotStep
  <2> QED
    BY <2>1, <2>2
<1>2. CASE PushEnqueue(t) /\ c = CurCamera(t) /\ n = shot[CurFactory(t)]
  <2>1. ToPush(t, c)
    BY <1>2, CurToPush DEF PushEnqueue
  <2>2. CurFactory(t) \in Factory /\ Feeds(CurFactory(t), c)
    BY <2>1, ToPushOwned
  <2>3. shot[CurFactory(t)] \in Nat /\ shot'[CurFactory(t)] \in Nat /\ n <= shot'[CurFactory(t)]
    BY <1>2, <2>2, ShotStep
  <2> QED
    BY <2>2, <2>3
<1> QED
  BY <1>1, <1>2, ImagesStep

\* What is to be pushed stays newer than what there is.
LEMMA FreshStep ==
  ASSUME TypeOK, GroupInv, CaptureInv, FreshInv, NEW t \in Task, Step(t)
  PROVE  FreshInv'
<1> SUFFICES ASSUME NEW u \in Task, NEW c \in Camera, ToPush(u, c)'
             PROVE  /\ shot'[CurFactory(u)'] > 0
                    /\ \A n \in Images(c)' : n < shot'[CurFactory(u)']
  BY DEF FreshInv
<1>0. CurFactory(u) \in Factory /\ CurFactory(u)' = CurFactory(u)
  BY CurLemma, ToPushStep
<1> DEFINE s == shot[CurFactory(u)]
           z == shot'[CurFactory(u)]
<1>1. s \in Nat /\ z \in Nat /\ s <= z
  BY <1>0, ShotStep
<1>2. CASE ToPush(u, c) /\ ~(PushEnqueue(t) /\ c = CurCamera(t))
  <2>1. s > 0 /\ \A n \in Images(c) : n < s
    BY <1>2 DEF FreshInv
  <2>2. ASSUME NEW n \in Images(c)' PROVE n < z
    <3>1. n \in Images(c) \/ n = 0
      BY <1>2, ImagesStep
    <3>2. n \in Nat /\ n < s
      BY <1>1, <2>1, <3>1, ImagesLemma
    <3> QED
      BY <1>1, <3>2
  <2> QED
    BY <1>0, <1>1, <2>1, <2>2
<1>3. CASE Grab(t) /\ u = t /\ Feeds(CurFactory(t), c)
  <2>1. z = s + 1
    BY <1>3, ShotStep
  <2>2. ASSUME NEW n \in Images(c)' PROVE n < z
    <3>1. CASE n = 0
      BY <1>1, <2>1, <3>1
    <3>2. CASE n \in Images(c) /\ n # 0
      <4>1. PICK f \in Factory : Feeds(f, c) /\ n <= shot[f]
        BY <3>2 DEF CaptureInv
      <4>2. f = CurFactory(u) /\ n \in Nat
        BY <1>0, <1>3, <3>2, <4>1, OneFactory, ImagesLemma
      <4> QED
        BY <1>1, <2>1, <4>1, <4>2
    <3>3. ~PushEnqueue(t)
      BY <1>3 DEF Grab, PushEnqueue
    <3> QED
      BY <3>1, <3>2, <3>3, ImagesStep
  <2> QED
    BY <1>0, <1>1, <2>1, <2>2
<1> QED
  BY <1>2, <1>3, ToPushStep

-----------------------------------------------------------------------------
(* The order.                                                              *)

\* The images of camera c are in order.
InOrderAt(c) ==
  /\ \A i, j \in 1..Len(queue[c]) : i < j => queue[c][i] < queue[c][j]
  /\ \A i \in 1..Len(queue[c]), t \in Task : last[c] < queue[c][i] /\ group[t][c] < queue[c][i]
  /\ \A t \in Task : group[t][c] # 0 => last[c] < group[t][c]

\* Removing images keeps the order.
LEMMA ShortenedInOrder ==
  ASSUME TypeOK, NEW c \in Camera, InOrderAt(c), Shortened(c), Len(queue'[c]) \in Nat,
         UNCHANGED <<group, last>>
  PROVE  InOrderAt(c)'
<1>1. Len(queue[c]) \in Nat
  BY LenProperties DEF TypeOK
<1>2. PICK k \in {0, 1} : \A i \in 1..Len(queue'[c]) :
        i + k \in 1..Len(queue[c]) /\ queue'[c][i] = queue[c][i + k]
  BY DEF Shortened
<1>3. ASSUME NEW i \in 1..Len(queue'[c]), NEW j \in 1..Len(queue'[c]), i < j
      PROVE  queue'[c][i] < queue'[c][j]
  <2>1. i + k < j + k
    BY <1>3
  <2> QED
    BY <1>2, <2>1 DEF InOrderAt
<1> QED
  BY <1>2, <1>3 DEF InOrderAt

\* A push puts the newest image last.
LEMMA PushedInOrder ==
  ASSUME TypeOK, FreshInv, InOrder, NEW t \in Task, PushEnqueue(t)
  PROVE  \A c \in Camera : InOrderAt(c)'
<1> SUFFICES ASSUME NEW c \in Camera
             PROVE  InOrderAt(c)'
  OBVIOUS
<1>1. UNCHANGED <<group, last>> /\ InOrderAt(c)
  BY DEF PushEnqueue, getVars, InOrder, InOrderAt
<1>2. CASE c # CurCamera(t)
  <2>1. queue'[c] = queue[c]
    BY <1>2 DEF PushEnqueue, TypeOK
  <2> QED
    BY <1>1, <2>1 DEF InOrderAt
<1>3. CASE c = CurCamera(t)
  <2> DEFINE n == shot[CurFactory(t)]
             s == queue[c]
  <2>1. ToPush(t, c)
    BY <1>3, CurToPush DEF PushEnqueue
  <2>2. \A m \in Images(c) : m < n
    BY <2>1 DEF FreshInv
  <2>3. n \in Nat /\ s \in Seq(Nat) /\ Len(s) \in Nat
    BY CurLemma, LenProperties DEF TypeOK
  <2>4. queue'[c] = Append(s, n)
    BY <1>3 DEF PushEnqueue, TypeOK
  <2>5. \A i \in 1..Len(s) : s[i] < n
    BY <2>2, ImagesLemma
  <2>6. last[c] < n /\ \A u \in Task : group[u][c] < n
    BY <2>2, ImagesLemma
  <2>7. /\ Len(queue'[c]) = Len(s) + 1
        /\ \A i \in 1..Len(s) : queue'[c][i] = s[i]
        /\ queue'[c][Len(s) + 1] = n
    BY <2>3, <2>4, AppendProperties
  <2> HIDE DEF n, s
  <2>8. ASSUME NEW i \in 1..Len(queue'[c]), NEW j \in 1..Len(queue'[c]), i < j
        PROVE  queue'[c][i] < queue'[c][j]
    <3>1. i \in 1..Len(s) /\ (j \in 1..Len(s) \/ j = Len(s) + 1)
      BY <2>3, <2>7, <2>8
    <3>2. i \in 1..Len(s) /\ j \in 1..Len(s) => s[i] < s[j]
      BY <1>1, <2>8 DEF InOrderAt, s
    <3> QED
      BY <2>5, <2>7, <3>1, <3>2
  <2>9. ASSUME NEW i \in 1..Len(queue'[c]), NEW u \in Task
        PROVE  last[c] < queue'[c][i] /\ group[u][c] < queue'[c][i]
    <3>1. i \in 1..Len(s) \/ i = Len(s) + 1
      BY <2>3, <2>7
    <3>2. i \in 1..Len(s) => last[c] < s[i] /\ group[u][c] < s[i]
      BY <1>1 DEF InOrderAt, s
    <3> QED
      BY <2>6, <2>7, <3>1, <3>2
  <2> QED
    BY <1>1, <2>8, <2>9 DEF InOrderAt
<1> QED
  BY <1>2, <1>3

\* A take moves the oldest image into the group, and the last take the group
\* into last.
LEMMA TakenInOrder ==
  ASSUME TypeOK, TypeOK', LockInv, GroupInv, InOrder, NEW t \in Task, Take(t) \/ TakeLast(t)
  PROVE  \A c \in Camera : InOrderAt(c)'
<1> SUFFICES ASSUME NEW c \in Camera
             PROVE  InOrderAt(c)'
  OBVIOUS
<1>0. /\ queue \in [Camera -> Seq(Nat)] /\ group \in [Task -> [Camera -> Nat]]
      /\ last \in [Camera -> Nat] /\ idx[t] \in Camera
  BY DEF TypeOK
<1>1. InOrderAt(c)
  BY DEF InOrder, InOrderAt
<1>2. pc[t] = "take" /\ queue[idx[t]] # <<>> /\ Dequeue(idx[t])
  BY DEF Take, TakeLast
<1>3. Taken(t)[c] = IF c = idx[t] THEN Head(queue[c]) ELSE group[t][c]
  BY <1>0 DEF Taken
<1>4. Shortened(c) /\ Len(queue'[c]) \in Nat
  BY <1>0, <1>2, DequeueShortens, LenProperties DEF TypeOK
<1>5. \A u \in Task \ {t} : group[u][c] = 0
  <2>1. pc[t] \in Holding
    BY <1>2 DEF Holding
  <2> QED
    BY <2>1, OneHolder DEF GroupInv, Holding
\* What t has taken of camera c comes before what waits of it.
<1>6. \A i \in 1..Len(queue'[c]) : Taken(t)[c] < queue'[c][i]
  <2>1. CASE c = idx[t]
    <3>1. queue[c] \in Seq(Nat) /\ queue[c] # <<>> /\ queue'[c] = Tail(queue[c])
      BY <1>0, <1>2, <2>1 DEF Dequeue
    <3>2. ASSUME NEW i \in 1..Len(queue'[c]) PROVE queue[c][1] < queue'[c][i]
      <4>1. 1 \in 1..Len(queue[c]) /\ i + 1 \in 1..Len(queue[c]) /\ queue'[c][i] = queue[c][i + 1]
        BY <3>1, TailElements
      <4>2. 1 < i + 1
        BY <1>4
      <4> QED
        BY <1>1, <4>1, <4>2 DEF InOrderAt
    <3> QED
      BY <1>3, <2>1, <3>1, <3>2, TailElements
  <2>2. CASE c # idx[t]
    <3>1. queue'[c] = queue[c]
      BY <1>0, <1>2, <2>2 DEF Dequeue
    <3> QED
      BY <1>1, <1>3, <2>2, <3>1 DEF InOrderAt
  <2> QED
    BY <2>1, <2>2
<1>7. \A i, j \in 1..Len(queue'[c]) : i < j => queue'[c][i] < queue'[c][j]
  <2>1. PICK k \in {0, 1} : \A i \in 1..Len(queue'[c]) :
          i + k \in 1..Len(queue[c]) /\ queue'[c][i] = queue[c][i + k]
    BY <1>4 DEF Shortened
  <2>2. ASSUME NEW i \in 1..Len(queue'[c]), NEW j \in 1..Len(queue'[c]), i < j
        PROVE  queue'[c][i] < queue'[c][j]
    <3>1. i + k < j + k
      BY <1>4, <2>2
    <3> QED
      BY <1>1, <2>1, <3>1 DEF InOrderAt
  <2> QED
    BY <2>2
<1>8. \A i \in 1..Len(queue'[c]) : last[c] < queue'[c][i]
  BY <1>1, <1>4 DEF Shortened, InOrderAt
<1>9. Taken(t)[c] # 0 => last[c] < Taken(t)[c]
  <2>1. CASE c = idx[t]
    <3>1. queue[c] \in Seq(Nat) /\ queue[c] # <<>>
      BY <1>0, <1>2, <2>1
    <3>2. 1 \in 1..Len(queue[c]) /\ Head(queue[c]) = queue[c][1]
      BY <3>1, TailElements
    <3> QED
      BY <1>1, <1>3, <2>1, <3>2 DEF InOrderAt
  <2>2. CASE c # idx[t]
    BY <1>1, <1>3, <2>2 DEF InOrderAt
  <2> QED
    BY <2>1, <2>2
<1>10. \A i \in 1..Len(queue'[c]) : queue'[c][i] \in Nat /\ 0 < queue'[c][i]
  <2>1. queue'[c] \in Seq(Nat)
    BY DEF TypeOK
  <2>2. \A i \in 1..Len(queue'[c]) : queue'[c][i] \in Nat
    BY <2>1, QueueElements
  <2>3. last[c] \in Nat
    BY <1>0
  <2> QED
    BY <1>8, <2>2, <2>3
<1>11. CASE Take(t)
  <2>1. last' = last /\ group'[t] = Taken(t) /\ \A u \in Task \ {t} : group'[u] = group[u]
    BY <1>0, <1>11 DEF Take
  <2> QED
    BY <1>5, <1>6, <1>7, <1>8, <1>9, <1>10, <2>1 DEF InOrderAt
<1>12. CASE TakeLast(t)
  <2>1. last' = Taken(t) /\ group'[t] = NoGroup /\ \A u \in Task \ {t} : group'[u] = group[u]
    BY <1>0, <1>12 DEF TakeLast, StartGetImage
  <2>2. \A u \in Task : group'[u][c] = 0
    BY <1>5, <2>1 DEF NoGroup
  <2> QED
    BY <1>6, <1>7, <1>10, <2>1, <2>2 DEF InOrderAt
<1> QED
  BY <1>11, <1>12

\* The order survives every step.
LEMMA InOrderStep ==
  ASSUME TypeOK, TypeOK', LockInv, OrderInv, NEW t \in Task, Step(t)
  PROVE  InOrder'
<1>1. \A c \in Camera : InOrderAt(c)'
  <2>1. CASE Still(t)
    <3>1. ASSUME NEW c \in Camera PROVE InOrderAt(c)'
      <4>1. InOrderAt(c) /\ Len(queue'[c]) \in Nat
        BY LenProperties DEF OrderInv, InOrder, InOrderAt, TypeOK
      <4> QED
        BY <2>1, <4>1, StillStep, ShortenedInOrder DEF OrderInv
    <3> QED
      BY <3>1
  <2>2. CASE PushEnqueue(t)
    BY <2>2, PushedInOrder DEF OrderInv
  <2>3. CASE Take(t) \/ TakeLast(t)
    BY <2>3, TakenInOrder DEF OrderInv
  <2> QED
    BY <2>1, <2>2, <2>3 DEF Step, Still
<1> QED
  BY <1>1 DEF InOrder, InOrderAt

-----------------------------------------------------------------------------
(* The theorems.                                                           *)

\* At the start there are no images.
LEMMA InitOrder == Init => OrderInv
<1> SUFFICES ASSUME Init PROVE OrderInv
  OBVIOUS
<1>1. \A c \in Camera : queue[c] = <<>> /\ last[c] = 0 /\ \A t \in Task : group[t][c] = 0
  BY DEF Init, NoGroup
<1>2. \A c \in Camera : Len(queue[c]) = 0
  BY <1>1, EmptySeq
<1>3. CaptureInv
  BY <1>1, <1>2 DEF CaptureInv, Images
<1>4. FreshInv /\ GroupInv
  BY <1>1 DEF Init, FreshInv, ToPush, GroupInv
<1>5. InOrder
  BY <1>1, <1>2 DEF InOrder
<1> QED
  BY <1>3, <1>4, <1>5 DEF OrderInv

\* Every step preserves where the images are, relative to the invariant of
\* the lock.
LEMMA StepOrder == IInv /\ IInv' /\ OrderInv /\ [Next]_vars => OrderInv'
<1> SUFFICES ASSUME IInv, IInv', OrderInv, [Next]_vars PROVE OrderInv'
  OBVIOUS
<1>1. CASE Next
  <2> PICK t \in Task : Step(t)
    BY <1>1 DEF Next
  <2> QED
    BY GroupStep, CaptureStep, FreshStep, InOrderStep DEF IInv, OrderInv
<1>2. CASE UNCHANGED vars
  <2>1. UNCHANGED <<queue, group, last, shot, pc, idx, imageIndex, factoryIndex>>
    BY <1>2 DEF vars, queueVars, grabVars, getVars
  <2> QED
    BY <2>1 DEF OrderInv, CaptureInv, FreshInv, GroupInv, InOrder, Images, ToPush, CurFactory
<1> QED
  BY <1>1, <1>2

\* Images keep their order of capture from push to return.
THEOREM OrderInvariance == Spec => []OrderInv
BY InitOrder, StepOrder, Invariance, PTL DEF Spec

\* Frames of a camera wait, are assembled and are returned in the order of
\* capture, and none twice.
THEOREM ImagesInOrder == Spec => []InOrder
<1>1. OrderInv => InOrder
  BY DEF OrderInv
<1> QED
  BY <1>1, OrderInvariance, PTL

-----------------------------------------------------------------------------
(* The refinement of FrameDelivery.                                        *)

\* The factory that FactoryOf chooses is the one that feeds the camera.
LEMMA FactoryOfLemma ==
  ASSUME NEW c \in Camera, NEW f \in Factory, Feeds(f, c)
  PROVE  FactoryOf[c] = f
<1> DEFINE g == CHOOSE g \in Factory : Feeds(g, c)
<1>1. g \in Factory /\ Feeds(g, c)
  OBVIOUS
<1>2. FactoryOf[c] = g
  BY DEF FactoryOf, Feeds
<1> QED
  BY <1>1, <1>2, OneFactory

\* The initial states are initial states of FrameDelivery.
LEMMA DeliveryInit == Init => Delivery!Init
BY DEF Init, NoGroup, Delivery!Init

\* A capture is a capture.
LEMMA DeliveryCapture ==
  ASSUME TypeOK, NEW t \in Task, Grab(t)
  PROVE  Delivery!Capture(CurFactory(t)) /\ CurFactory(t) \in Factory
BY CurLemma DEF Grab, queueVars, Delivery!Capture

\* The last take of GetImage delivers a group: an image of every camera, newer
\* than the one delivered before and captured by the camera's factory.
LEMMA DeliveryDeliver ==
  ASSUME TypeOK, OrderInv, NEW t \in Task, TakeLast(t)
  PROVE  Delivery!Deliver
<1>0. /\ queue \in [Camera -> Seq(Nat)] /\ group \in [Task -> [Camera -> Nat]]
      /\ last \in [Camera -> Nat] /\ idx[t] \in Camera
  BY DEF TypeOK
<1>1. /\ frameCount' = frameCount + 1 /\ last' = Taken(t) /\ UNCHANGED shot
      /\ pc[t] = "take" /\ idx[t] = NumCamera /\ queue[idx[t]] # <<>>
  BY DEF TakeLast, grabVars
<1>2. DOMAIN last' = Camera
  BY <1>0, <1>1 DEF Taken
<1>3. ASSUME NEW c \in Camera
      PROVE  last[c] < last'[c] /\ last'[c] <= shot[FactoryOf[c]]
  <2>1. last'[c] = IF c = idx[t] THEN Head(queue[c]) ELSE group[t][c]
    BY <1>0, <1>1 DEF Taken
  <2>2. last'[c] \in Images(c) /\ last[c] < last'[c]
    <3>1. CASE c = idx[t]
      <4>1. 1 \in 1..Len(queue[c]) /\ Head(queue[c]) = queue[c][1]
        BY <1>0, <1>1, <3>1, TailElements
      <4> QED
        BY <2>1, <3>1, <4>1, ImagesLemma DEF OrderInv, InOrder
    <3>2. CASE c # idx[t]
      <4>1. c < idx[t]
        BY <1>1, <3>2, CameraAssumption DEF Camera
      <4>2. group[t][c] # 0
        BY <1>1, <4>1 DEF OrderInv, GroupInv
      <4> QED
        BY <2>1, <3>2, <4>2, ImagesLemma DEF OrderInv, InOrder
    <3> QED
      BY <3>1, <3>2
  <2>3. last'[c] # 0
    BY <1>0, <2>2, ImagesLemma
  <2>4. PICK f \in Factory : Feeds(f, c) /\ last'[c] <= shot[f]
    BY <2>2, <2>3 DEF OrderInv, CaptureInv
  <2> QED
    BY <2>2, <2>4, FactoryOfLemma
<1> QED
  BY <1>1, <1>2, <1>3 DEF Delivery!Deliver

\* Every other step changes nothing that FrameDelivery speaks of.
LEMMA DeliveryStutter ==
  ASSUME TypeOK, NEW t \in Task, Step(t), ~Grab(t), ~TakeLast(t)
  PROVE  UNCHANGED <<shot, last, frameCount>>
<1>1. UNCHANGED shot
  BY ShotStep
<1>2. UNCHANGED <<last, frameCount>>
  BY DEF Step, GrabFail, GrabThrow, PushCheck, PushDrop, PushEnqueue, TryLock, TryLockFail,
         Count, TrimCheck, TrimDrop, Take, Unlock, queueVars
<1> QED
  BY <1>1, <1>2

\* PushImage and GetImage, whatever the interleaving of the tasks, implement
\* the delivery of complete groups, in order and without duplicates, of images
\* captured by the camera they are filed under.
THEOREM ImplementsDelivery == Spec => DeliversGroups
<1>1. TypeOK /\ OrderInv /\ [Next]_vars => [Delivery!Next]_(Delivery!absVars)
  <2> SUFFICES ASSUME TypeOK, OrderInv, [Next]_vars
               PROVE  Delivery!Next \/ UNCHANGED <<shot, last, frameCount>>
    BY DEF Delivery!absVars
  <2>1. CASE UNCHANGED vars
    BY <2>1 DEF vars, queueVars, grabVars
  <2>2. CASE Next
    <3> PICK t \in Task : Step(t)
      BY <2>2 DEF Next
    <3>1. CASE Grab(t)
      BY <3>1, DeliveryCapture DEF Delivery!Next
    <3>2. CASE TakeLast(t)
      BY <3>2, DeliveryDeliver DEF Delivery!Next
    <3>3. CASE ~Grab(t) /\ ~TakeLast(t)
      BY <3>3, DeliveryStutter
    <3> QED
      BY <3>1, <3>2, <3>3
  <2> QED
    BY <2>1, <2>2
<1> QED
  BY <1>1, DeliveryInit, TypeCorrect, OrderInvariance, PTL DEF Spec, DeliversGroups, Delivery!Spec
=============================================================================
