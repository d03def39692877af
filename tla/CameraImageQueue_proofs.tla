----------------------- MODULE CameraImageQueue_proofs -----------------------
(***************************************************************************)
(* Proofs about the image queues, for any tasks, factories, cameras and    *)
(* queue lengths: the type invariant, the memory bound of PushImage and    *)
(* that GetImage's spin only ever waits for a push under way.              *)
(***************************************************************************)
EXTENDS CameraImageQueue, SequenceTheorems, TLAPS

-----------------------------------------------------------------------------
(* The queues.                                                             *)

\* What an enqueue makes of a queue.
LEMMA EnqueueLemma ==
  ASSUME NEW s \in Seq(Nat), NEW n \in Nat
  PROVE  /\ Append(s, n) \in Seq(Nat)
         /\ Len(Append(s, n)) = Len(s) + 1
         /\ Append(s, n) # <<>>
<1>1. Append(s, n) \in Seq(Nat) /\ Len(Append(s, n)) = Len(s) + 1
  BY AppendProperties
<1>2. Len(s) \in Nat
  BY LenProperties
<1>3. Len(<<>>) = 0
  BY EmptySeq
<1> QED
  BY <1>1, <1>2, <1>3

\* What a dequeue makes of a queue that is not empty.
LEMMA DequeueLemma ==
  ASSUME NEW s \in Seq(Nat), s # <<>>
  PROVE  /\ Tail(s) \in Seq(Nat)
         /\ Len(Tail(s)) = Len(s) - 1
         /\ Head(s) \in Nat
BY HeadTailProperties

\* A queue has a length, which is 0 for the empty one only.
LEMMA LengthLemma ==
  ASSUME NEW s \in Seq(Nat)
  PROVE  Len(s) \in Nat /\ (Len(s) = 0 <=> s = <<>>)
BY EmptySeq, LenProperties

\* What Dequeue(c) makes of the queues.
LEMMA DequeueStep ==
  ASSUME TypeOK, NEW c \in Camera, Dequeue(c)
  PROVE  /\ queue' \in [Camera -> Seq(Nat)]
         /\ \A d \in Camera : d # c => queue'[d] = queue[d]
         /\ queue[c] = <<>> => queue'[c] = <<>>
         /\ queue[c] # <<>> => Len(queue'[c]) = Len(queue[c]) - 1
         /\ Len(queue'[c]) <= Len(queue[c])
<1> queue \in [Camera -> Seq(Nat)] /\ queue[c] \in Seq(Nat)
  BY DEF TypeOK
<1> DEFINE q == IF queue[c] = <<>> THEN queue[c] ELSE Tail(queue[c])
<1>1. queue' = [queue EXCEPT ![c] = q]
  BY DEF Dequeue
<1>2. Len(queue[c]) \in Nat
  BY LengthLemma
<1>3. q \in Seq(Nat)
  BY DequeueLemma
<1>4. queue[c] # <<>> => Len(q) = Len(queue[c]) - 1
  BY DequeueLemma
<1>5. queue[c] = <<>> => q = <<>> /\ Len(q) = Len(queue[c])
  OBVIOUS
<1> QED
  BY <1>1, <1>2, <1>3, <1>4, <1>5

-----------------------------------------------------------------------------
(* The wiring of tasks, factories and cameras.                             *)

\* The camera whose image a task pushes is one of its own.
LEMMA CurLemma ==
  ASSUME TypeOK, NEW t \in Task
  PROVE  /\ CurFactory(t) \in Factory
         /\ CurCamera(t) \in Camera
         /\ Owns(t, CurCamera(t))
<1>1. FactoriesOf[t] \in Seq(Factory) /\ factoryIndex[t] \in 1..Len(FactoriesOf[t])
  BY WiringAssumption DEF TypeOK
<1>2. CurFactory(t) \in Factory
  BY <1>1, ElementOfSeq DEF CurFactory
<1>3. CamerasOf[CurFactory(t)] \in Seq(Camera) /\ imageIndex[t] \in 1..Len(CamerasOf[CurFactory(t)])
  BY <1>2, WiringAssumption DEF TypeOK
<1>4. CurCamera(t) \in Camera
  BY <1>3, ElementOfSeq DEF CurCamera
<1>5. Owns(t, CurCamera(t))
  BY <1>1, <1>3 DEF Owns, CurCamera, CurFactory
<1> QED
  BY <1>2, <1>4, <1>5

\* Two tasks never push images of one camera.
LEMMA PushLemma ==
  ASSUME TypeOK, NEW t \in Task, NEW u \in Task, CurCamera(t) = CurCamera(u)
  PROVE  t = u
BY CurLemma, OwnerAssumption

\* NextFactory moves to a factory of the task and an image of that factory.
LEMMA NextFactoryLemma ==
  ASSUME TypeOK, NEW t \in Task, NextFactory(t)
  PROVE  /\ factoryIndex' \in [Task -> Nat]
         /\ imageIndex' \in [Task -> Nat]
         /\ \A u \in Task : factoryIndex'[u] \in 1..Len(FactoriesOf[u])
         /\ \A u \in Task : imageIndex'[u] \in 1..Len(CamerasOf[CurFactory(u)'])
         /\ pc' \in [Task -> Labels]
         /\ pc'[t] \in {"grab", "try"}
         /\ \A u \in Task \ {t} : /\ pc'[u] = pc[u]
                                  /\ CurCamera(u)' = CurCamera(u)
<1> USE WiringAssumption
<1>1. FactoriesOf[t] \in Seq(Factory) /\ FactoriesOf[t] # <<>>
  OBVIOUS
<1>2. Len(FactoriesOf[t]) \in Nat \ {0}
  BY <1>1, EmptySeq
<1>0. factoryIndex \in [Task -> Nat] /\ factoryIndex[t] \in 1..Len(FactoriesOf[t])
  BY DEF TypeOK
<1>3. factoryIndex'[t] \in 1..Len(FactoriesOf[t]) /\ factoryIndex' \in [Task -> Nat]
  <2>1. CASE factoryIndex[t] < Len(FactoriesOf[t])
    <3>1. factoryIndex' = [factoryIndex EXCEPT ![t] = factoryIndex[t] + 1]
      BY <2>1 DEF NextFactory
    <3> QED
      BY <1>2, <1>0, <2>1, <3>1
  <2>2. CASE ~(factoryIndex[t] < Len(FactoriesOf[t]))
    <3>1. factoryIndex' = [factoryIndex EXCEPT ![t] = 1]
      BY <2>2 DEF NextFactory
    <3> QED
      BY <1>2, <1>0, <2>2, <3>1
  <2> QED
    BY <2>1, <2>2
<1>4. \A u \in Task \ {t} : /\ factoryIndex'[u] = factoryIndex[u]
                            /\ imageIndex'[u] = imageIndex[u]
                            /\ pc'[u] = pc[u]
  BY DEF TypeOK, NextFactory, Goto
<1>5. CurFactory(t)' \in Factory
  BY <1>1, <1>3, ElementOfSeq DEF CurFactory
<1>6. Len(CamerasOf[CurFactory(t)']) \in Nat \ {0}
  BY <1>5, EmptySeq
<1>9. imageIndex' = [imageIndex EXCEPT ![t] = 1] /\ imageIndex \in [Task -> Nat]
  BY DEF TypeOK, NextFactory
<1>7. imageIndex'[t] \in 1..Len(CamerasOf[CurFactory(t)']) /\ imageIndex' \in [Task -> Nat]
  BY <1>6, <1>9
<1>8. pc' \in [Task -> Labels] /\ pc'[t] \in {"grab", "try"}
  BY DEF TypeOK, NextFactory, Goto, Labels
<1> QED
  BY <1>3, <1>4, <1>7, <1>8 DEF TypeOK, CurFactory, CurCamera

\* After an exception the task is at its first factory and image again.
LEMMA ThrowLemma ==
  ASSUME TypeOK, NEW t \in Task, GrabThrow(t)
  PROVE  /\ factoryIndex' \in [Task -> Nat]
         /\ imageIndex' \in [Task -> Nat]
         /\ \A u \in Task : factoryIndex'[u] \in 1..Len(FactoriesOf[u])
         /\ \A u \in Task : imageIndex'[u] \in 1..Len(CamerasOf[CurFactory(u)'])
         /\ pc' \in [Task -> Labels]
         /\ \A u \in Task \ {t} : /\ pc'[u] = pc[u]
                                  /\ CurCamera(u)' = CurCamera(u)
<1> USE WiringAssumption
<1>1. FactoriesOf[t] \in Seq(Factory) /\ Len(FactoriesOf[t]) \in Nat \ {0}
  BY EmptySeq
<1>2. /\ factoryIndex' = [factoryIndex EXCEPT ![t] = 1]
      /\ imageIndex' = [imageIndex EXCEPT ![t] = 1]
      /\ factoryIndex \in [Task -> Nat] /\ imageIndex \in [Task -> Nat]
  BY DEF TypeOK, GrabThrow
<1>3. factoryIndex'[t] \in 1..Len(FactoriesOf[t])
  BY <1>1, <1>2
<1>4. CurFactory(t)' \in Factory
  BY <1>1, <1>3, ElementOfSeq DEF CurFactory
<1>5. Len(CamerasOf[CurFactory(t)']) \in Nat \ {0}
  BY <1>4, EmptySeq
<1>6. imageIndex'[t] \in 1..Len(CamerasOf[CurFactory(t)'])
  BY <1>2, <1>5
<1>7. \A u \in Task \ {t} : /\ factoryIndex'[u] = factoryIndex[u]
                            /\ imageIndex'[u] = imageIndex[u]
                            /\ pc'[u] = pc[u]
  BY <1>2 DEF TypeOK, GrabThrow, Goto
<1>8. pc' \in [Task -> Labels]
  BY DEF TypeOK, GrabThrow, Goto, Labels
<1> QED
  BY <1>2, <1>3, <1>6, <1>7, <1>8 DEF TypeOK, CurFactory, CurCamera

-----------------------------------------------------------------------------
(* The type invariant.                                                     *)

\* A step that captures nothing and leaves the loop counters alone leaves
\* every task where it was in its captures.
LEMMA CurUnchanged ==
  ASSUME UNCHANGED <<factoryIndex, imageIndex>>, NEW t \in Task
  PROVE  CurFactory(t)' = CurFactory(t) /\ CurCamera(t)' = CurCamera(t)
BY DEF CurFactory, CurCamera

\* Capturing keeps the types.
LEMMA GrabType ==
  ASSUME TypeOK, NEW t \in Task, Grab(t) \/ GrabFail(t) \/ GrabThrow(t)
  PROVE  TypeOK'
<1>1. CurFactory(t) \in Factory
  BY CurLemma
<1>2. CASE Grab(t)
  <2>1. shot' \in [Factory -> Nat] /\ pc' \in [Task -> Labels]
    BY <1>1, <1>2 DEF TypeOK, Grab, Goto, Labels
  <2> QED
    BY <1>2, <2>1, CurUnchanged DEF TypeOK, Grab, queueVars, getVars
<1>3. CASE GrabFail(t)
  <2>1. isError' \in [Factory -> BOOLEAN]
    BY <1>1, <1>3 DEF TypeOK, GrabFail
  <2> QED
    BY <1>3, <2>1, NextFactoryLemma DEF TypeOK, GrabFail, queueVars, getVars
<1>4. CASE GrabThrow(t)
  BY <1>4, ThrowLemma DEF TypeOK, GrabThrow, queueVars, getVars
<1> QED
  BY <1>2, <1>3, <1>4

\* PushImage keeps the types.
LEMMA PushType ==
  ASSUME TypeOK, NEW t \in Task, PushCheck(t) \/ PushDrop(t) \/ PushEnqueue(t)
  PROVE  TypeOK'
<1>1. CurCamera(t) \in Camera /\ CurFactory(t) \in Factory
  BY CurLemma
<1>2. CASE PushCheck(t)
  <2>1. pc' \in [Task -> Labels]
    BY <1>2 DEF TypeOK, PushCheck, Goto, Labels
  <2> QED
    BY <1>2, <2>1, CurUnchanged DEF TypeOK, PushCheck, queueVars, grabVars, getVars
<1>3. CASE PushDrop(t)
  <2>1. pc' \in [Task -> Labels] /\ Dequeue(CurCamera(t))
    BY <1>3 DEF TypeOK, PushDrop, Goto, Labels
  <2>2. queue' \in [Camera -> Seq(Nat)]
    BY <1>1, <2>1, DequeueStep
  <2> QED
    BY <1>3, <2>1, <2>2, CurUnchanged DEF TypeOK, PushDrop, grabVars, getVars
<1>4. CASE PushEnqueue(t)
  <2>1. queue[CurCamera(t)] \in Seq(Nat) /\ shot[CurFactory(t)] \in Nat
    BY <1>1 DEF TypeOK
  <2>2. queue' \in [Camera -> Seq(Nat)]
    BY <1>1, <1>4, <2>1, EnqueueLemma DEF TypeOK, PushEnqueue
  <2>3. CASE imageIndex[t] < Len(CamerasOf[CurFactory(t)])
    <3>1. /\ imageIndex' = [imageIndex EXCEPT ![t] = imageIndex[t] + 1]
          /\ pc' = [pc EXCEPT ![t] = "push"]
          /\ factoryIndex' = factoryIndex
      BY <1>4, <2>3 DEF PushEnqueue, Goto
    <3>2. Len(CamerasOf[CurFactory(t)]) \in Nat
      BY <1>1, WiringAssumption, LenProperties
    <3>3. \A u \in Task : CurFactory(u)' = CurFactory(u)
      BY <3>1 DEF CurFactory
    <3>4. imageIndex \in [Task -> Nat] /\ imageIndex[t] \in 1..Len(CamerasOf[CurFactory(t)])
      BY DEF TypeOK
    <3>5. imageIndex' \in [Task -> Nat] /\ imageIndex'[t] \in 1..Len(CamerasOf[CurFactory(t)])
      BY <2>3, <3>1, <3>2, <3>4
    <3>6. \A u \in Task : imageIndex'[u] \in 1..Len(CamerasOf[CurFactory(u)'])
      BY <3>1, <3>3, <3>5 DEF TypeOK
    <3>7. pc' \in [Task -> Labels]
      BY <3>1 DEF TypeOK, Labels
    <3> QED
      BY <1>4, <2>2, <3>1, <3>5, <3>6, <3>7 DEF TypeOK, PushEnqueue, getVars
  <2>4. CASE ~(imageIndex[t] < Len(CamerasOf[CurFactory(t)]))
    <3>1. NextFactory(t)
      BY <1>4, <2>4 DEF PushEnqueue
    <3> QED
      BY <1>4, <2>2, <3>1, NextFactoryLemma DEF TypeOK, PushEnqueue, getVars
  <2> QED
    BY <2>3, <2>4
<1> QED
  BY <1>2, <1>3, <1>4

\* GetImage's locals start with the right types.
LEMMA StartType ==
  ASSUME TypeOK, NEW t \in Task, StartGetImage(t)
  PROVE  /\ idx' \in [Task -> Camera]
         /\ doneCount' \in [Task -> Nat]
         /\ group' \in [Task -> [Camera -> Nat]]
<1>1. 1 \in Camera
  BY CameraAssumption DEF Camera
<1>2. NoGroup \in [Camera -> Nat]
  BY DEF NoGroup
<1>3. idx \in [Task -> Camera] /\ idx' = [idx EXCEPT ![t] = 1]
  BY DEF TypeOK, StartGetImage
<1>4. doneCount \in [Task -> Nat] /\ doneCount' = [doneCount EXCEPT ![t] = 0]
  BY DEF TypeOK, StartGetImage
<1>5. group \in [Task -> [Camera -> Nat]] /\ group' = [group EXCEPT ![t] = NoGroup]
  BY DEF TypeOK, StartGetImage
<1>6. idx' \in [Task -> Camera]
  BY <1>1, <1>3
<1>7. doneCount' \in [Task -> Nat]
  BY <1>4
<1>8. group' \in [Task -> [Camera -> Nat]]
  BY <1>2, <1>5
<1> QED
  BY <1>6, <1>7, <1>8

\* lockGetImage and GetImage keep the types.
LEMMA GetType ==
  ASSUME TypeOK, NEW t \in Task,
         \/ TryLock(t) \/ TryLockFail(t) \/ Count(t) \/ TrimCheck(t)
         \/ TrimDrop(t) \/ Take(t) \/ TakeLast(t) \/ Unlock(t)
  PROVE  TypeOK'
<1> USE CameraAssumption DEF grabVars
<1>1. idx[t] \in Camera /\ idx \in [Task -> Camera] /\ queue[idx[t]] \in Seq(Nat)
  BY DEF TypeOK
<1>2. CASE TryLock(t)
  <2>1. StartGetImage(t)
    BY <1>2 DEF TryLock
  <2>2. second' \in [Task -> BOOLEAN] /\ pc' \in [Task -> Labels]
    BY <1>2 DEF TypeOK, TryLock, Goto, Labels
  <2> QED
    BY <1>2, <2>1, <2>2, StartType, CurUnchanged DEF TypeOK, TryLock
<1>3. CASE TryLockFail(t)
  <2>1. pc' \in [Task -> Labels]
    BY <1>3 DEF TypeOK, TryLockFail, Goto, Labels
  <2> QED
    BY <1>3, <2>1, CurUnchanged DEF TypeOK, TryLockFail, queueVars, getVars
<1>4. CASE Count(t)
  <2> DEFINE done == doneCount[t] + (IF Len(queue[idx[t]]) > 0 THEN 1 ELSE 0)
  <2>a. (IF Len(queue[idx[t]]) > 0 THEN 1 ELSE 0) \in Nat
    OBVIOUS
  <2>b. doneCount \in [Task -> Nat] /\ doneCount[t] \in Nat
    BY DEF TypeOK
  <2>0. doneCount \in [Task -> Nat] /\ done \in Nat
    BY ONLY <2>a, <2>b
  <2>1. doneCount' \in [Task -> Nat]
    <3>1. doneCount' = [doneCount EXCEPT ![t] = done]
      BY <1>4 DEF Count
    <3> HIDE DEF done
    <3> QED
      BY <2>0, <3>1
  <2>2. idx' \in [Task -> Camera]
    BY <1>1, <1>4 DEF Count, Camera
  <2>3. pc' \in [Task -> Labels]
    BY <1>4 DEF TypeOK, Count, Goto, Labels
  <2> QED
    BY <1>4, <2>1, <2>2, <2>3, CurUnchanged DEF TypeOK, Count, queueVars
<1>5. CASE TrimCheck(t)
  <2>1. pc' \in [Task -> Labels]
    BY <1>5 DEF TypeOK, TrimCheck, Goto, Labels
  <2> QED
    BY <1>5, <2>1, CurUnchanged DEF TypeOK, TrimCheck, queueVars, getVars
<1>6. CASE TrimDrop(t)
  <2>1. pc' \in [Task -> Labels] /\ Dequeue(idx[t])
    BY <1>6 DEF TypeOK, TrimDrop, Goto, Labels
  <2>2. queue' \in [Camera -> Seq(Nat)]
    BY <1>1, <2>1, DequeueStep
  <2> QED
    BY <1>6, <2>1, <2>2, CurUnchanged DEF TypeOK, TrimDrop, getVars
<1>7. CASE Take(t) \/ TakeLast(t)
  <2>1. Dequeue(idx[t]) /\ queue[idx[t]] # <<>>
    BY <1>7 DEF Take, TakeLast
  <2>2. queue' \in [Camera -> Seq(Nat)]
    BY <1>1, <2>1, DequeueStep
  <2>3. Taken(t) \in [Camera -> Nat]
    BY <1>1, <2>1, DequeueLemma DEF Taken, TypeOK
  <2>4. pc' \in [Task -> Labels]
    BY <1>7 DEF TypeOK, Take, TakeLast, Goto, Labels
  <2>5. CASE Take(t)
    <3>1. group' \in [Task -> [Camera -> Nat]]
      BY <2>3, <2>5 DEF TypeOK, Take
    <3>2. idx' \in [Task -> Camera]
      BY <1>1, <2>5 DEF Take, Camera
    <3> QED
      BY <2>2, <2>4, <2>5, <3>1, <3>2, CurUnchanged DEF TypeOK, Take
  <2>6. CASE TakeLast(t)
    <3>1. second' \in [Task -> BOOLEAN] /\ frameCount' \in Nat
      BY <2>6 DEF TypeOK, TakeLast
    <3>2. last' \in [Camera -> Nat]
      BY <2>3, <2>6 DEF TakeLast
    <3>3. StartGetImage(t)
      BY <2>6 DEF TakeLast
    <3> QED
      BY <2>2, <2>4, <2>6, <3>1, <3>2, <3>3, StartType, CurUnchanged DEF TypeOK, TakeLast
  <2> QED
    BY <1>7, <2>5, <2>6
<1>8. CASE Unlock(t)
  <2>1. pc' \in [Task -> Labels]
    BY <1>8 DEF TypeOK, Unlock, Goto, Labels
  <2> QED
    BY <1>8, <2>1, CurUnchanged DEF TypeOK, Unlock, getVars
<1> QED
  BY <1>2, <1>3, <1>4, <1>5, <1>6, <1>7, <1>8

\* The initial state has the types.
LEMMA InitType == Init => TypeOK
<1> SUFFICES ASSUME Init PROVE TypeOK
  OBVIOUS
<1>1. ASSUME NEW t \in Task PROVE 1 \in 1..Len(FactoriesOf[t])
  <2>1. FactoriesOf[t] \in Seq(Factory) /\ FactoriesOf[t] # <<>>
    BY WiringAssumption
  <2> QED
    BY <2>1, EmptySeq
<1>2. ASSUME NEW f \in Factory PROVE 1 \in 1..Len(CamerasOf[f])
  <2>1. CamerasOf[f] \in Seq(Camera) /\ CamerasOf[f] # <<>>
    BY WiringAssumption
  <2> QED
    BY <2>1, EmptySeq
<1>3. \A t \in Task : CurFactory(t) \in Factory
  BY <1>1, WiringAssumption, ElementOfSeq DEF Init, CurFactory
<1>4. queue \in [Camera -> Seq(Nat)]
  BY EmptySeq DEF Init
<1>5. group \in [Task -> [Camera -> Nat]] /\ last \in [Camera -> Nat]
  BY DEF Init, NoGroup
<1>6. idx \in [Task -> Camera] /\ pc \in [Task -> Labels]
  BY CameraAssumption DEF Init, Camera, Labels
<1> QED
  BY <1>1, <1>2, <1>3, <1>4, <1>5, <1>6 DEF Init, TypeOK

\* Every step keeps the types.
LEMMA TypeStep == TypeOK /\ [Next]_vars => TypeOK'
<1> SUFFICES ASSUME TypeOK, [Next]_vars PROVE TypeOK'
  OBVIOUS
<1>1. CASE UNCHANGED vars
  BY <1>1, CurUnchanged DEF TypeOK, vars, queueVars, grabVars, getVars
<1>2. CASE Next
  <2> PICK t \in Task : Step(t)
    BY <1>2 DEF Next
  <2> QED
    BY GrabType, PushType, GetType DEF Step
<1> QED
  BY <1>1, <1>2

\* The loop counters of run(), PushImage and GetImage stay inside the vectors
\* they index, whatever the wiring and the interleaving.
THEOREM TypeCorrect == Spec => []TypeOK
BY InitType, TypeStep, PTL DEF Spec

-----------------------------------------------------------------------------
(* The lock.                                                               *)

\* A step of one task leaves the others where they are.
LEMMA StepFrame ==
  ASSUME TypeOK, NEW t \in Task, Step(t), NEW u \in Task, u # t
  PROVE  /\ pc'[u] = pc[u]
         /\ idx'[u] = idx[u]
         /\ doneCount'[u] = doneCount[u]
         /\ CurCamera(u)' = CurCamera(u)
<1> USE DEF TypeOK, Goto
<1>1. CASE Grab(t)
  BY <1>1, CurUnchanged DEF Grab, getVars
<1>2. CASE GrabFail(t) \/ GrabThrow(t)
  BY <1>2, NextFactoryLemma, ThrowLemma DEF GrabFail, GrabThrow, getVars
<1>3. CASE PushCheck(t) \/ PushDrop(t)
  BY <1>3, CurUnchanged DEF PushCheck, PushDrop, getVars, grabVars
<1>4. CASE PushEnqueue(t)
  <2>1. CASE imageIndex[t] < Len(CamerasOf[CurFactory(t)])
    BY <1>4, <2>1 DEF PushEnqueue, getVars, CurCamera, CurFactory
  <2>2. CASE NextFactory(t)
    BY <1>4, <2>2, NextFactoryLemma DEF PushEnqueue, getVars
  <2> QED
    BY <1>4, <2>1, <2>2 DEF PushEnqueue
<1>5. CASE TryLock(t) \/ TakeLast(t)
  BY <1>5, CurUnchanged DEF TryLock, TakeLast, StartGetImage, grabVars
<1>6. CASE TryLockFail(t) \/ TrimCheck(t) \/ TrimDrop(t) \/ Unlock(t)
  BY <1>6, CurUnchanged DEF TryLockFail, TrimCheck, TrimDrop, Unlock, getVars, grabVars
<1>7. CASE Count(t)
  BY <1>7, CurUnchanged DEF Count, grabVars
<1>8. CASE Take(t)
  BY <1>8, CurUnchanged DEF Take, grabVars
<1> QED
  BY <1>1, <1>2, <1>3, <1>4, <1>5, <1>6, <1>7, <1>8 DEF Step

\* Capturing and PushImage happen outside the locked section.
LEMMA PushPc ==
  ASSUME TypeOK, NEW t \in Task,
         Grab(t) \/ GrabFail(t) \/ GrabThrow(t) \/ PushCheck(t) \/ PushDrop(t) \/ PushEnqueue(t)
  PROVE  /\ pc[t] \notin Holding
         /\ pc'[t] \notin Holding
         /\ lock' = lock
<1> USE DEF TypeOK, Goto, Holding
<1>1. CASE Grab(t)
  BY <1>1 DEF Grab, queueVars
<1>2. CASE GrabFail(t) \/ GrabThrow(t)
  BY <1>2, NextFactoryLemma DEF GrabFail, GrabThrow, queueVars
<1>3. CASE PushCheck(t) \/ PushDrop(t)
  BY <1>3 DEF PushCheck, PushDrop, queueVars
<1>4. CASE PushEnqueue(t)
  BY <1>4, NextFactoryLemma DEF PushEnqueue
<1> QED
  BY <1>1, <1>2, <1>3, <1>4

\* try_lock, GetImage and unlock keep the lock and the locked section together.
LEMMA LockStep ==
  ASSUME TypeOK, LockInv, NEW t \in Task, Step(t)
  PROVE  LockInv'
<1> SUFFICES ASSUME NEW u \in Task
             PROVE  pc'[u] \in Holding <=> lock' = u
  BY DEF LockInv
<1>0. pc \in [Task -> Labels]
  BY DEF TypeOK
<1>1. CASE Grab(t) \/ GrabFail(t) \/ GrabThrow(t) \/ PushCheck(t) \/ PushDrop(t) \/ PushEnqueue(t)
  BY <1>1, PushPc, StepFrame DEF LockInv
<1>2. CASE TryLock(t)
  <2>1. lock = Free /\ lock' = t /\ pc' = [pc EXCEPT ![t] = "count"]
    BY <1>2 DEF TryLock, Goto
  <2> QED
    BY <1>0, <2>1, FreeAssumption DEF LockInv, Holding
<1>3. CASE TryLockFail(t)
  <2>1. lock' = lock /\ pc[t] = "try" /\ pc' = [pc EXCEPT ![t] = "grab"]
    BY <1>3 DEF TryLockFail, Goto, queueVars
  <2> QED
    BY <1>0, <2>1 DEF LockInv, Holding
<1>4. CASE Unlock(t)
  <2>1. lock' = Free /\ pc[t] = "unlock" /\ pc' = [pc EXCEPT ![t] = "grab"]
    BY <1>4 DEF Unlock, Goto
  <2> QED
    BY <1>0, <2>1, FreeAssumption DEF LockInv, Holding
<1>5. CASE Count(t) \/ TrimCheck(t) \/ TrimDrop(t) \/ Take(t) \/ TakeLast(t)
  <2>1. lock' = lock /\ pc[t] \in Holding /\ pc'[t] \in Holding
    BY <1>0, <1>5
       DEF Count, TrimCheck, TrimDrop, Take, TakeLast, Goto, queueVars, Holding
  <2> QED
    BY <2>1, StepFrame DEF LockInv
<1> QED
  BY <1>1, <1>2, <1>3, <1>4, <1>5 DEF Step

-----------------------------------------------------------------------------
(* The memory bound.                                                       *)

\* What a step of task t does to the queues: nothing, a dequeue, or an enqueue
\* into the queue of its current camera.
LEMMA QueueStep ==
  ASSUME TypeOK, NEW t \in Task, Step(t)
  PROVE  \/ /\ queue' = queue
            /\ pc'[t] = "enqueue" => PushCheck(t)
         \/ /\ PushDrop(t)
            /\ Dequeue(CurCamera(t))
            /\ pc[t] = "drop" /\ pc'[t] = "push"
            /\ CurCamera(t)' = CurCamera(t)
         \/ /\ TrimDrop(t) \/ Take(t) \/ TakeLast(t)
            /\ Dequeue(idx[t])
            /\ pc[t] \in {"trimDrop", "take"} /\ pc'[t] # "enqueue"
         \/ /\ PushEnqueue(t)
            /\ pc[t] = "enqueue" /\ pc'[t] # "enqueue"
            /\ queue' = [queue EXCEPT ![CurCamera(t)] = Append(@, shot[CurFactory(t)])]
<1> USE DEF TypeOK, Goto
<1>1. CASE Grab(t)
  BY <1>1 DEF Grab, queueVars
<1>2. CASE GrabFail(t) \/ GrabThrow(t)
  BY <1>2, NextFactoryLemma DEF GrabFail, GrabThrow, queueVars
<1>3. CASE PushCheck(t)
  BY <1>3 DEF PushCheck, queueVars
<1>4. CASE PushDrop(t)
  BY <1>4, CurUnchanged DEF PushDrop, grabVars
<1>5. CASE PushEnqueue(t)
  BY <1>5, NextFactoryLemma DEF PushEnqueue
<1>6. CASE TryLock(t) \/ TryLockFail(t) \/ Count(t) \/ TrimCheck(t) \/ Unlock(t)
  BY <1>6 DEF TryLock, TryLockFail, Count, TrimCheck, Unlock, queueVars
<1>7. CASE TrimDrop(t) \/ Take(t) \/ TakeLast(t)
  BY <1>7 DEF TrimDrop, Take, TakeLast
<1> QED
  BY <1>1, <1>2, <1>3, <1>4, <1>5, <1>6, <1>7 DEF Step

\* An enqueue finds the room that the check before it found, for only the
\* camera's own task enqueues.
LEMMA BoundStep ==
  ASSUME TypeOK, QueueBounded, RoomInv, NEW t \in Task, Step(t)
  PROVE  QueueBounded' /\ RoomInv'
<1> USE LengthAssumption
<1>0. \A u \in Task : CurCamera(u) \in Camera
  BY CurLemma
<1>1. \A u \in Task \ {t} : pc'[u] = pc[u] /\ CurCamera(u)' = CurCamera(u)
  BY StepFrame
<1>2. \A c \in Camera : queue[c] \in Seq(Nat) /\ Len(queue[c]) \in Nat
  BY LengthLemma DEF TypeOK
<1>3. CASE queue' = queue /\ (pc'[t] = "enqueue" => PushCheck(t))
  <2>1. QueueBounded'
    BY <1>3 DEF QueueBounded
  <2>2. pc'[t] = "enqueue" => Len(queue[CurCamera(t)]) < MaxQueueLen /\ CurCamera(t)' = CurCamera(t)
    BY <1>0, <1>2, <1>3, CurUnchanged DEF PushCheck, Goto, TypeOK, grabVars
  <2> QED
    BY <1>1, <1>3, <2>1, <2>2 DEF RoomInv
<1>4. ASSUME NEW c \in Camera, Dequeue(c), pc'[t] # "enqueue"
      PROVE  QueueBounded' /\ RoomInv'
  <2>1. \A d \in Camera : Len(queue'[d]) \in Nat /\ Len(queue'[d]) <= Len(queue[d])
    <3> SUFFICES ASSUME NEW d \in Camera
                 PROVE  Len(queue'[d]) \in Nat /\ Len(queue'[d]) <= Len(queue[d])
      OBVIOUS
    <3>1. queue'[d] \in Seq(Nat)
      BY <1>4, DequeueStep
    <3>2. Len(queue'[d]) \in Nat
      BY <3>1, LengthLemma
    <3>3. d # c => queue'[d] = queue[d]
      BY <1>4, DequeueStep
    <3>4. Len(queue'[c]) <= Len(queue[c])
      BY <1>4, DequeueStep
    <3> QED
      BY <1>2, <3>2, <3>3, <3>4
  <2>2. QueueBounded'
    BY <1>2, <2>1 DEF QueueBounded
  <2>3. ASSUME NEW u \in Task, pc'[u] = "enqueue"
        PROVE  Len(queue'[CurCamera(u)']) < MaxQueueLen
    <3>1. u # t /\ pc[u] = "enqueue" /\ CurCamera(u)' = CurCamera(u)
      BY <1>1, <1>4, <2>3
    <3>2. Len(queue[CurCamera(u)]) < MaxQueueLen
      BY <3>1 DEF RoomInv
    <3> QED
      BY <1>0, <1>2, <2>1, <3>1, <3>2
  <2> QED
    BY <2>2, <2>3 DEF RoomInv
<1>5. CASE /\ pc[t] = "enqueue" /\ pc'[t] # "enqueue"
           /\ queue' = [queue EXCEPT ![CurCamera(t)] = Append(@, shot[CurFactory(t)])]
  <2>1. shot[CurFactory(t)] \in Nat
    BY CurLemma DEF TypeOK
  <2>2. Len(queue'[CurCamera(t)]) = Len(queue[CurCamera(t)]) + 1
    BY <1>0, <1>2, <1>5, <2>1, EnqueueLemma DEF TypeOK
  <2>3. Len(queue[CurCamera(t)]) < MaxQueueLen
    BY <1>5 DEF RoomInv
  <2>4. \A d \in Camera : d # CurCamera(t) => queue'[d] = queue[d]
    BY <1>5 DEF TypeOK
  <2>5. QueueBounded'
    BY <1>0, <1>2, <2>2, <2>3, <2>4 DEF QueueBounded
  <2>6. ASSUME NEW u \in Task, pc'[u] = "enqueue"
        PROVE  Len(queue'[CurCamera(u)']) < MaxQueueLen
    <3>1. u # t /\ pc[u] = "enqueue" /\ CurCamera(u)' = CurCamera(u)
      BY <1>1, <1>5, <2>6
    <3>2. CurCamera(u) # CurCamera(t)
      BY <3>1, PushLemma
    <3>3. queue'[CurCamera(u)'] = queue[CurCamera(u)]
      BY <1>0, <2>4, <3>1, <3>2
    <3> QED
      BY <3>1, <3>3 DEF RoomInv
  <2> QED
    BY <2>5, <2>6 DEF RoomInv
<1> QED
  <2>1. CurCamera(t) \in Camera /\ idx[t] \in Camera
    BY <1>0 DEF TypeOK
  <2> QED
    BY <1>3, <1>4, <1>5, <2>1, QueueStep

-----------------------------------------------------------------------------
(* The spin.                                                               *)

\* A camera that is guarded stays so, but for what GetImage itself takes.
LEMMA GuardKept ==
  ASSUME TypeOK, NEW t \in Task, Step(t), NEW c \in Camera, Guarded(c),
         pc[t] \in {"trimDrop", "take"} => c # idx[t]
  PROVE  Guarded(c)'
<1> USE LengthAssumption
<1>0. queue[c] \in Seq(Nat) /\ Len(queue[c]) \in Nat
  BY LengthLemma DEF TypeOK
<1>1. CurCamera(t) \in Camera /\ idx[t] \in Camera /\ shot[CurFactory(t)] \in Nat
  BY CurLemma DEF TypeOK
<1>2. ASSUME NEW u \in Task, u # t, pc[u] \in {"push", "enqueue"}, CurCamera(u) = c
      PROVE  Guarded(c)'
  BY <1>2, StepFrame DEF Guarded, Pushing
<1>3. CASE pc[t] = "push" /\ CurCamera(t) = c
  <2>1. PushCheck(t)
    BY <1>3 DEF Step, Grab, GrabFail, GrabThrow, PushCheck, PushDrop, PushEnqueue, TryLock,
                TryLockFail, Count, TrimCheck, TrimDrop, Take, TakeLast, Unlock
  <2>2. queue' = queue /\ CurCamera(t)' = c
    BY <1>3, <2>1, CurUnchanged DEF PushCheck, queueVars, grabVars
  <2>3. CASE Len(queue[c]) >= MaxQueueLen
    BY <1>0, <2>2, <2>3, LengthLemma DEF Guarded
  <2>4. CASE ~(Len(queue[c]) >= MaxQueueLen)
    <3>1. pc'[t] = "enqueue"
      BY <1>3, <2>1, <2>4 DEF PushCheck, Goto, TypeOK
    <3> QED
      BY <2>2, <3>1 DEF Guarded, Pushing
  <2> QED
    BY <2>3, <2>4
<1>4. CASE pc[t] = "enqueue" /\ CurCamera(t) = c
  <2>1. queue' = [queue EXCEPT ![c] = Append(@, shot[CurFactory(t)])]
    BY <1>4 DEF Step, Grab, GrabFail, GrabThrow, PushCheck, PushDrop, PushEnqueue, TryLock,
                TryLockFail, Count, TrimCheck, TrimDrop, Take, TakeLast, Unlock
  <2>2. queue'[c] = Append(queue[c], shot[CurFactory(t)])
    BY <2>1 DEF TypeOK
  <2> QED
    BY <1>0, <1>1, <2>2, EnqueueLemma DEF Guarded
<1>5. CASE queue[c] # <<>>
  <2>1. CASE queue' = queue
    BY <1>5, <2>1 DEF Guarded
  <2>2. CASE /\ Dequeue(CurCamera(t)) /\ pc'[t] = "push"
             /\ CurCamera(t)' = CurCamera(t)
    <3>1. CASE c = CurCamera(t)
      BY <2>2, <3>1 DEF Guarded, Pushing
    <3>2. CASE c # CurCamera(t)
      <4>1. queue'[c] = queue[c]
        BY <1>1, <2>2, <3>2, DequeueStep
      <4> QED
        BY <1>5, <4>1 DEF Guarded
    <3> QED
      BY <3>1, <3>2
  <2>3. CASE Dequeue(idx[t]) /\ pc[t] \in {"trimDrop", "take"}
    <3>1. queue'[c] = queue[c]
      BY <1>1, <2>3, DequeueStep
    <3> QED
      BY <1>5, <3>1 DEF Guarded
  <2>4. CASE queue' = [queue EXCEPT ![CurCamera(t)] = Append(@, shot[CurFactory(t)])]
    <3>1. queue'[c] = queue[c] \/ queue'[c] = Append(queue[c], shot[CurFactory(t)])
      BY <2>4 DEF TypeOK
    <3> QED
      BY <1>0, <1>1, <1>5, <3>1, EnqueueLemma DEF Guarded
  <2> QED
    BY <2>1, <2>2, <2>3, <2>4, QueueStep
<1> QED
  BY <1>2, <1>3, <1>4, <1>5 DEF Guarded, Pushing

\* The lock keeps two tasks from being in GetImage at once.
LEMMA OneHolder ==
  ASSUME LockInv, NEW t \in Task, NEW u \in Task, pc[t] \in Holding, pc[u] \in Holding
  PROVE  t = u
BY DEF LockInv

\* What was counted stays guarded while the rest is counted.
LEMMA CountStep ==
  ASSUME TypeOK, LockInv, CountInv, NEW t \in Task, Step(t)
  PROVE  CountInv'
<1> USE CameraAssumption DEF Goto
<1> DEFINE Counted(u) == /\ doneCount[u] < idx[u]
                         /\ doneCount[u] = idx[u] - 1 =>
                              \A c \in 1..(idx[u] - 1) : Guarded(c)
<1> SUFFICES ASSUME NEW u \in Task, pc'[u] = "count" PROVE Counted(u)'
  BY DEF CountInv
<1>0. /\ pc \in [Task -> Labels] /\ idx \in [Task -> Camera]
      /\ doneCount \in [Task -> Nat]
  BY DEF TypeOK
<1>1. CASE u # t
  <2>1. pc[u] = "count" /\ idx'[u] = idx[u] /\ doneCount'[u] = doneCount[u]
    BY <1>1, StepFrame
  <2>2. Counted(u) /\ pc[t] \notin Holding
    BY <1>1, <2>1, OneHolder DEF CountInv, Holding
  <2>3. \A c \in 1..(idx[u] - 1) : c \in Camera
    BY <1>0 DEF Camera
  <2>4. \A c \in 1..(idx[u] - 1) : Guarded(c) => Guarded(c)'
    BY <2>2, <2>3, GuardKept DEF Holding
  <2> QED
    BY <2>1, <2>2, <2>4
<1>2. CASE u = t /\ (TryLock(t) \/ TakeLast(t))
  <2>1. idx'[t] = 1 /\ doneCount'[t] = 0
    BY <1>0, <1>2 DEF TryLock, TakeLast, StartGetImage
  <2> QED
    BY <1>2, <2>1
<1>3. CASE u = t /\ Count(t)
  <2>1. pc[t] = "count" /\ idx[t] < NumCamera
    BY <1>0, <1>3 DEF Count
  <2>2. idx'[t] = idx[t] + 1 /\ idx[t] \in Nat /\ doneCount[t] \in Nat /\ queue' = queue
    BY <1>0, <1>3, <2>1 DEF Count, Camera, queueVars
  <2>3. Counted(t)
    BY <2>1 DEF CountInv
  <2>4. queue[idx[t]] \in Seq(Nat) /\ Len(queue[idx[t]]) \in Nat
    BY <1>0, LengthLemma DEF TypeOK
  <2>5. \A c \in 1..(idx[t] - 1) : Guarded(c) => Guarded(c)'
    <3>1. \A c \in 1..(idx[t] - 1) : c \in Camera
      BY <1>0 DEF Camera
    <3> QED
      BY <2>1, <3>1, GuardKept
  <2>6. CASE Len(queue[idx[t]]) > 0
    <3>1. doneCount'[t] = doneCount[t] + 1
      BY <1>0, <1>3, <2>6 DEF Count
    <3>2. ASSUME NEW c, c = idx[t] PROVE Guarded(c)'
      <4>1. queue'[c] # <<>>
        BY <2>2, <2>4, <2>6, <3>2, LengthLemma
      <4> QED
        BY <4>1 DEF Guarded
    <3>3. ASSUME doneCount'[t] = idx'[t] - 1, NEW c \in 1..(idx'[t] - 1)
          PROVE  Guarded(c)'
      <4>1. CASE c = idx[t]
        BY <3>2, <4>1
      <4>2. CASE c # idx[t]
        <5>1. c \in 1..(idx[t] - 1) /\ doneCount[t] = idx[t] - 1
          BY <2>2, <3>1, <3>3, <4>2
        <5> QED
          BY <2>3, <2>5, <5>1
      <4> QED
        BY <4>1, <4>2
    <3> QED
      BY <1>3, <2>2, <2>3, <3>1, <3>3
  <2>7. CASE ~(Len(queue[idx[t]]) > 0)
    <3>1. doneCount'[t] = doneCount[t] + 0
      BY <1>0, <1>3, <2>7 DEF Count
    <3> QED
      BY <1>3, <2>2, <2>3, <3>1
  <2> QED
    BY <2>6, <2>7
<1>4. CASE u = t /\ (Grab(t) \/ GrabFail(t) \/ GrabThrow(t) \/ PushCheck(t) \/ PushDrop(t) \/ PushEnqueue(t))
  BY <1>4, PushPc DEF Holding
<1>5. CASE u = t /\ (TryLockFail(t) \/ TrimCheck(t) \/ TrimDrop(t) \/ Take(t) \/ Unlock(t))
  BY <1>0, <1>5 DEF TryLockFail, TrimCheck, TrimDrop, Take, Unlock
<1> QED
  BY <1>1, <1>2, <1>3, <1>4, <1>5 DEF Step

\* GetImage's size check is stale by one image at most when it drops.
LEMMA TrimStep ==
  ASSUME TypeOK, LockInv, TrimInv, NEW t \in Task, Step(t)
  PROVE  TrimInv'
<1> USE LengthAssumption DEF Goto
<1> DEFINE Room(c) == \/ Len(queue[c]) > KeepLen
                      \/ Len(queue[c]) = KeepLen /\ Pushing(c)
<1> SUFFICES ASSUME NEW u \in Task, pc'[u] = "trimDrop",
                    NEW c \in Camera, c = idx'[u]
             PROVE  Room(c)'
  <2>1. \A u \in Task : idx'[u] \in Camera
    BY TypeStep DEF TypeOK, Next
  <2> QED
    BY <2>1 DEF TrimInv
<1>0. /\ pc \in [Task -> Labels] /\ idx \in [Task -> Camera]
      /\ queue[c] \in Seq(Nat) /\ Len(queue[c]) \in Nat
  BY LengthLemma DEF TypeOK
<1>1. CASE u = t
  <2>1. pc'[t] \notin {"grab", "try"} /\ pc'[t] \notin {"push", "drop", "enqueue"}
    BY <1>1
  <2>2. TrimCheck(t)
    BY <1>0, <1>1, <2>1, NextFactoryLemma
       DEF Step, Grab, GrabFail, GrabThrow, PushCheck, PushDrop, PushEnqueue, TryLock,
           TryLockFail, Count, TrimCheck, TrimDrop, Take, TakeLast, Unlock
  <2>3. queue' = queue /\ idx' = idx /\ Len(queue[idx[t]]) > KeepLen
    BY <1>0, <1>1, <2>2 DEF TrimCheck, queueVars, getVars
  <2> QED
    BY <1>1, <2>3
<1>2. CASE u # t
  <2>1. pc[u] = "trimDrop" /\ c = idx[u]
    BY <1>2, StepFrame
  <2>2. Room(c) /\ pc[t] \notin Holding
    BY <1>2, <2>1, OneHolder DEF TrimInv, Holding
  <2>3. ASSUME NEW v \in Task, v # t, pc[v] \in {"push", "enqueue"}, CurCamera(v) = c
        PROVE  Pushing(c)'
    BY <2>3, StepFrame DEF Pushing
  <2>4. CASE queue' = queue /\ ~(pc[t] = "push" /\ CurCamera(t) = c)
             /\ pc[t] # "enqueue"
    BY <2>2, <2>3, <2>4 DEF Pushing
  <2>5. CASE pc[t] = "push" /\ CurCamera(t) = c
    <3>1. PushCheck(t)
      BY <2>5 DEF Step, Grab, GrabFail, GrabThrow, PushCheck, PushDrop, PushEnqueue, TryLock,
                  TryLockFail, Count, TrimCheck, TrimDrop, Take, TakeLast, Unlock
    <3>2. queue' = queue /\ CurCamera(t)' = c
      BY <2>5, <3>1, CurUnchanged DEF PushCheck, queueVars, grabVars
    <3>3. CASE Len(queue[c]) > KeepLen
      BY <3>2, <3>3
    <3>4. CASE Len(queue[c]) = KeepLen
      <4>1. pc'[t] = "enqueue"
        BY <1>0, <2>5, <3>1, <3>4 DEF PushCheck
      <4>2. Pushing(c)'
        BY <3>2, <4>1 DEF Pushing
      <4> QED
        BY <3>2, <3>4, <4>2
    <3> QED
      BY <2>2, <3>3, <3>4
  <2>6. CASE /\ Dequeue(CurCamera(t)) /\ pc[t] = "drop" /\ pc'[t] = "push"
             /\ CurCamera(t)' = CurCamera(t)
    <3>0. CurCamera(t) \in Camera
      BY CurLemma
    <3>1. CASE c = CurCamera(t)
      <4>1. ~Pushing(c)
        BY <2>6, <3>1, PushLemma DEF Pushing
      <4>2. Len(queue[c]) > KeepLen
        BY <2>2, <4>1
      <4>3. Len(queue'[c]) = Len(queue[c]) - 1
        <5>1. queue[c] # <<>>
          BY <1>0, <4>2, LengthLemma
        <5> QED
          BY <2>6, <3>1, <5>1, DequeueStep
      <4>4. Pushing(c)'
        BY <2>6, <3>1 DEF Pushing
      <4> QED
        BY <1>0, <4>2, <4>3, <4>4
    <3>2. CASE c # CurCamera(t)
      <4>1. queue'[c] = queue[c]
        BY <2>6, <3>0, <3>2, DequeueStep
      <4> QED
        BY <2>2, <2>3, <2>6, <4>1 DEF Pushing
    <3> QED
      BY <3>1, <3>2
  <2>7. CASE /\ pc[t] = "enqueue"
             /\ queue' = [queue EXCEPT ![CurCamera(t)] = Append(@, shot[CurFactory(t)])]
    <3>1. CASE c = CurCamera(t)
      <4>1. queue'[c] = Append(queue[c], shot[CurFactory(t)])
        BY <2>7, <3>1 DEF TypeOK
      <4>2. Len(queue'[c]) = Len(queue[c]) + 1
        BY <1>0, <4>1, CurLemma, EnqueueLemma DEF TypeOK
      <4> QED
        BY <1>0, <2>2, <4>2
    <3>2. CASE c # CurCamera(t)
      <4>1. queue'[c] = queue[c]
        BY <2>7, <3>2 DEF TypeOK
      <4> QED
        BY <2>2, <2>3, <3>2, <4>1 DEF Pushing
    <3> QED
      BY <3>1, <3>2
  <2> QED
    <3>1. pc[t] \notin {"trimDrop", "take"}
      BY <2>2 DEF Holding
    <3>2. pc[t] = "enqueue" => PushEnqueue(t)
      BY DEF Step, Grab, GrabFail, GrabThrow, PushCheck, PushDrop, PushEnqueue, TryLock,
             TryLockFail, Count, TrimCheck, TrimDrop, Take, TakeLast, Unlock
    <3>3. PushEnqueue(t) =>
            queue' = [queue EXCEPT ![CurCamera(t)] = Append(@, shot[CurFactory(t)])]
      BY DEF PushEnqueue
    <3> QED
      BY <2>4, <2>5, <2>6, <2>7, <3>1, <3>2, <3>3, QueueStep
<1> QED
  BY <1>1, <1>2

\* From the count to the last take, what is still to be taken stays guarded.
LEMMA TakeStep ==
  ASSUME TypeOK, LockInv, CountInv, TakeInv, TrimInv, NEW t \in Task, Step(t)
  PROVE  TakeInv'
<1> USE CameraAssumption, LengthAssumption DEF Goto
<1> SUFFICES ASSUME NEW u \in Task, pc'[u] \in {"trim", "trimDrop", "take"},
                    NEW c \in idx'[u]..NumCamera
             PROVE  Guarded(c)'
  BY DEF TakeInv
<1>0. /\ pc \in [Task -> Labels] /\ idx \in [Task -> Camera]
      /\ doneCount \in [Task -> Nat]
  BY DEF TypeOK
<1>1. c \in Camera
  <2>1. idx'[u] \in Camera
    BY TypeStep DEF TypeOK, Next
  <2> QED
    BY <2>1 DEF Camera
<1>2. CASE u # t
  <2>1. pc[u] = pc'[u] /\ idx'[u] = idx[u]
    BY <1>2, StepFrame
  <2>2. Guarded(c)
    BY <2>1 DEF TakeInv
  <2>3. pc[t] \notin Holding
    BY <1>2, <2>1, OneHolder DEF Holding
  <2> QED
    BY <1>1, <2>2, <2>3, GuardKept DEF Holding
<1>3. CASE u = t /\ (Grab(t) \/ GrabFail(t) \/ GrabThrow(t) \/ PushCheck(t) \/ PushDrop(t) \/ PushEnqueue(t))
  BY <1>3, PushPc DEF Holding
<1>4. CASE u = t /\ (TryLock(t) \/ TryLockFail(t) \/ TakeLast(t) \/ Unlock(t))
  BY <1>0, <1>4 DEF TryLock, TryLockFail, TakeLast, Unlock
<1>5. CASE u = t /\ Count(t)
  <2> DEFINE one == IF Len(queue[idx[t]]) > 0 THEN 1 ELSE 0
  <2>1. pc[t] = "count" /\ idx[t] = NumCamera /\ doneCount[t] + one = NumCamera
    BY <1>0, <1>5 DEF Count, Camera
  <2>2. doneCount[t] < idx[t] /\ doneCount[t] \in Nat
    BY <1>0, <2>1 DEF CountInv
  <2>3. Len(queue[idx[t]]) > 0 /\ doneCount[t] = idx[t] - 1
    BY <2>1, <2>2
  <2>4. queue[idx[t]] # <<>>
    BY <1>0, <2>3, LengthLemma DEF TypeOK
  <2>5. Guarded(c)
    <3>1. CASE c = idx[t]
      BY <2>4, <3>1 DEF Guarded
    <3>2. CASE c # idx[t]
      <4>1. c \in 1..(idx[t] - 1)
        BY <1>1, <2>1, <3>2 DEF Camera
      <4> QED
        BY <2>1, <2>3, <4>1 DEF CountInv
    <3> QED
      BY <3>1, <3>2
  <2> QED
    BY <1>1, <2>1, <2>5, GuardKept
<1>6. CASE u = t /\ TrimCheck(t)
  <2>1. pc[t] = "trim" /\ idx'[t] = idx[t]
    BY <1>6 DEF TrimCheck, getVars
  <2>2. Guarded(c)
    BY <1>6, <2>1 DEF TakeInv
  <2> QED
    BY <1>1, <2>1, <2>2, GuardKept
<1>7. CASE u = t /\ TrimDrop(t)
  <2>1. pc[t] = "trimDrop" /\ idx' = idx /\ Dequeue(idx[t])
    BY <1>7 DEF TrimDrop, getVars
  <2>2. Guarded(c)
    BY <1>7, <2>1 DEF TakeInv
  <2>3. CASE c # idx[t]
    BY <1>1, <2>2, <2>3, GuardKept
  <2>4. CASE c = idx[t]
    <3>1. queue[c] \in Seq(Nat) /\ Len(queue[c]) \in Nat
      BY <1>1, LengthLemma DEF TypeOK
    <3>2. CASE Len(queue[c]) > KeepLen
      <4>1. queue[c] # <<>>
        BY <3>1, <3>2, LengthLemma
      <4>2. Len(queue'[c]) > 0
        BY <1>1, <2>1, <2>4, <3>1, <3>2, <4>1, DequeueStep
      <4>3. queue'[c] # <<>>
        BY <4>2, EmptySeq
      <4> QED
        BY <4>3 DEF Guarded
    <3>3. CASE Pushing(c)
      BY <2>1, <3>3, StepFrame DEF Pushing, Guarded
    <3> QED
      BY <2>1, <2>4, <3>2, <3>3 DEF TrimInv
  <2> QED
    BY <2>3, <2>4
<1>8. CASE u = t /\ Take(t)
  <2>1. pc[t] = "take" /\ idx'[t] = idx[t] + 1
    BY <1>0, <1>8 DEF Take
  <2>2. c \in idx[t]..NumCamera /\ c # idx[t]
    BY <1>0, <1>8, <2>1 DEF Camera
  <2>3. Guarded(c)
    BY <2>1, <2>2 DEF TakeInv
  <2> QED
    BY <1>1, <2>2, <2>3, GuardKept
<1> QED
  BY <1>2, <1>3, <1>4, <1>5, <1>6, <1>7, <1>8 DEF Step

-----------------------------------------------------------------------------
(* The theorems.                                                           *)

\* The inductive invariant holds at the start.
LEMMA InitIInv == Init => IInv
<1> SUFFICES ASSUME Init PROVE IInv
  OBVIOUS
<1>1. TypeOK
  BY InitType
<1>2. QueueBounded
  BY EmptySeq, LengthAssumption DEF Init, QueueBounded
<1>3. LockInv
  BY FreeAssumption DEF Init, LockInv, Holding
<1> QED
  BY <1>1, <1>2, <1>3 DEF Init, IInv, RoomInv, CountInv, TakeInv, TrimInv

\* Every step preserves it.
LEMMA StepIInv == IInv /\ [Next]_vars => IInv'
<1> SUFFICES ASSUME IInv, [Next]_vars PROVE IInv'
  OBVIOUS
<1>1. TypeOK'
  BY TypeStep DEF IInv
<1>2. CASE Next
  <2> PICK t \in Task : Step(t)
    BY <1>2 DEF Next
  <2> QED
    BY <1>1, LockStep, BoundStep, CountStep, TakeStep, TrimStep DEF IInv
<1>3. CASE UNCHANGED vars
  <2>1. \A t \in Task : CurCamera(t)' = CurCamera(t)
    BY <1>3, CurUnchanged DEF vars, grabVars
  <2>2. UNCHANGED <<queue, lock, pc, idx, doneCount>>
    BY <1>3 DEF vars, queueVars, getVars
  <2>3. \A c : Pushing(c)' <=> Pushing(c)
    BY <2>1, <2>2 DEF Pushing
  <2> QED
    BY <1>1, <2>1, <2>2, <2>3
       DEF IInv, LockInv, QueueBounded, RoomInv, CountInv, TakeInv, TrimInv, Guarded
<1> QED
  BY <1>2, <1>3

\* The inductive invariant holds throughout.
THEOREM Invariance == Spec => []IInv
BY InitIInv, StepIInv, PTL DEF Spec

\* PushImage's memory bound: no queue is ever longer than maxQueueLen.
THEOREM MemoryBound == Spec => []QueueBounded
<1>1. IInv => QueueBounded
  BY DEF IInv
<1> QED
  BY <1>1, Invariance, PTL

\* GetImage, inside the lock, waits on an empty queue only while the camera's
\* own task is in PushImage with the image that ends the wait.
THEOREM SpinWaitsForPush == Spec => []SpinSafe
<1>1. IInv => SpinSafe
  <2> SUFFICES ASSUME IInv, NEW t \in Task, pc[t] = "take", queue[idx[t]] = <<>>
               PROVE  Pushing(idx[t])
    BY DEF SpinSafe
  <2>1. idx[t] \in idx[t]..NumCamera
    BY CameraAssumption DEF IInv, TypeOK, Camera
  <2> QED
    BY <2>1 DEF IInv, TakeInv, Guarded
<1> QED
  BY <1>1, Invariance, PTL
=============================================================================
