--------------------- MODULE CameraImageQueuePair_proofs ---------------------
(***************************************************************************)
(* A proof that under start(), with one task for all the factories, the    *)
(* images of one factory in a group are of one capture, for any number of  *)
(* factories and cameras and any queue lengths.  The run queue_mt_stereo   *)
(* shows that this is not so under startMT().                              *)
(*                                                                         *)
(* The argument: the queues of a factory's cameras differ only while a     *)
(* push or a GetImage is under way, and then in how far it has come.  What *)
(* will have become of a camera at its end, its Fate, is the same for all. *)
(***************************************************************************)
EXTENDS CameraImageQueueOrder_proofs

\* There is one task: the session was begun by start().
OneTask == \A t, u \in Task : t = u

-----------------------------------------------------------------------------
(* PushImage and GetImage on one queue.                                    *)

\* PushImage's drop makes room for the push that follows it, no more.
LEMMA PushedAfterDrop ==
  ASSUME NEW s \in Seq(Nat), Len(s) = MaxQueueLen, NEW n
  PROVE  s # <<>> /\ Pushed(Tail(s), n) = Pushed(s, n)
<1>1. MaxQueueLen \in Nat /\ MaxQueueLen > 0
  BY LengthAssumption
<1>2. s # <<>>
  BY <1>1, EmptySeq
<1>3. Len(Tail(s)) = Len(s) - 1
  BY <1>2, HeadTailProperties
<1>4. ~(Len(Tail(s)) >= MaxQueueLen) /\ Len(s) >= MaxQueueLen
  BY <1>1, <1>3
<1> QED
  BY <1>2, <1>4 DEF Pushed

\* Trimming a queue leaves its newest images.
LEMMA TrimmedElements ==
  ASSUME NEW s \in Seq(Nat), Len(s) > KeepLen
  PROVE  /\ Trimmed(s) \in Seq(Nat)
         /\ Len(Trimmed(s)) = KeepLen
         /\ \A i \in 1..KeepLen : Trimmed(s)[i] = s[Len(s) - KeepLen + i]
<1>1. KeepLen \in Nat /\ KeepLen > 0 /\ Len(s) \in Nat
  BY LengthAssumption, LenProperties
<1>2. PICK n \in Nat : n = Len(s)
  BY <1>1
<1>3. PICK m \in Int : m = n - KeepLen + 1
  <2>1. n - KeepLen + 1 \in Int
    BY <1>1
  <2> QED
    BY <2>1, Zenon
<1>4. Trimmed(s) = SubSeq(s, m, n)
  BY <1>2, <1>3 DEF Trimmed
<1>5. m \in Int /\ n \in Int /\ m <= n /\ n - m + 1 = KeepLen
  BY <1>1, <1>3, <1>2
<1>6. \A i \in m..n : s[i] \in Nat
  BY <1>1, <1>2, <1>3, ElementOfSeq
<1>7. /\ SubSeq(s, m, n) \in Seq(Nat)
      /\ Len(SubSeq(s, m, n)) = IF m <= n THEN n - m + 1 ELSE 0
      /\ \A i \in 1..(n - m + 1) : SubSeq(s, m, n)[i] = s[m + i - 1]
  BY <1>5, <1>6, SubSeqProperties
<1>8. \A i \in 1..KeepLen : m + i - 1 = Len(s) - KeepLen + i
  BY <1>1, <1>2, <1>3
<1> QED
  BY <1>4, <1>5, <1>7, <1>8

\* Trimming goes on where it was interrupted.
LEMMA TrimmedTail ==
  ASSUME NEW s \in Seq(Nat), Len(s) > KeepLen
  PROVE  s # <<>> /\ Trimmed(Tail(s)) = Trimmed(s)
<1>1. KeepLen \in Nat /\ KeepLen > 0 /\ Len(s) \in Nat
  BY LengthAssumption, LenProperties
<1>2. s # <<>>
  BY <1>1, EmptySeq
<1>3. PICK r : r = Tail(s)
  OBVIOUS
<1>4. /\ r \in Seq(Nat) /\ Len(r) = Len(s) - 1
      /\ \A i \in 1..(Len(s) - 1) : r[i] = s[i + 1]
  BY <1>2, <1>3, HeadTailProperties
<1>5. /\ Trimmed(r) \in Seq(Nat)
      /\ Len(Trimmed(r)) = KeepLen
      /\ \A i \in 1..KeepLen : Trimmed(r)[i] = r[Len(r) - KeepLen + i]
  <2>1. CASE Len(r) > KeepLen
    BY <1>4, <2>1, TrimmedElements
  <2>2. CASE Len(r) = KeepLen
    BY <1>1, <1>4, <2>2 DEF Trimmed
  <2> QED
    BY <1>1, <1>4, <2>1, <2>2
<1>6. ASSUME NEW i \in 1..KeepLen PROVE Trimmed(r)[i] = Trimmed(s)[i]
  <2>1. PICK j : j = Len(r) - KeepLen + i
    OBVIOUS
  <2>2. j \in 1..(Len(s) - 1) /\ j + 1 = Len(s) - KeepLen + i
    <3>1. i \in Nat /\ 1 <= i /\ i <= KeepLen
      BY <1>1
    <3>2. j = Len(s) - 1 - KeepLen + i
      BY <1>4, <2>1
    <3> QED
      BY <1>1, <3>1, <3>2
  <2>3. Trimmed(r)[i] = s[j + 1]
    BY <1>4, <1>5, <2>1, <2>2
  <2> QED
    BY <2>2, <2>3, TrimmedElements
<1> QED
  BY <1>2, <1>3, <1>5, <1>6, TrimmedElements, SeqEqual

-----------------------------------------------------------------------------
(* What a step pushes.                                                     *)

\* Nothing is to be pushed where nothing was captured.
LEMMA NothingToPush ==
  ASSUME NEW t \in Task, NEW c \in Camera, pc[t] \notin {"push", "drop", "enqueue"}
  PROVE  ~ToPush(t, c)
BY DEF ToPush

\* A step other than a capture and a push leaves to be pushed what was.
LEMMA ToPushKept ==
  ASSUME TypeOK, NEW t \in Task, PushCheck(t) \/ PushDrop(t), NEW c \in Camera
  PROVE  ToPush(t, c)' <=> ToPush(t, c)
<1>1. /\ UNCHANGED <<factoryIndex, imageIndex>>
      /\ pc[t] \in {"push", "drop"}
      /\ pc'[t] \in {"push", "drop", "enqueue"}
  BY DEF PushCheck, PushDrop, Goto, grabVars, TypeOK
<1> QED
  BY <1>1 DEF ToPush, CurFactory

\* A push leaves the others to be pushed.
LEMMA ToPushOthers ==
  ASSUME TypeOK, NEW t \in Task, PushEnqueue(t), NEW c \in Camera
  PROVE  ToPush(t, c)' <=> ToPush(t, c) /\ c # CurCamera(t)
<1>1. ToPush(t, c)' => ToPush(t, c) /\ c # CurCamera(t)
  <2>1. ~Grab(t)
    BY DEF Grab, PushEnqueue
  <2> QED
    BY <2>1, ToPushStep DEF Step
<1>2. ASSUME ToPush(t, c), c # CurCamera(t) PROVE ToPush(t, c)'
  <2>1. PICK k \in imageIndex[t]..Len(CamerasOf[CurFactory(t)]) : CamerasOf[CurFactory(t)][k] = c
    BY <1>2 DEF ToPush
  <2>2. k # imageIndex[t]
    BY <1>2, <2>1 DEF CurCamera
  <2>3. imageIndex[t] \in Nat /\ Len(CamerasOf[CurFactory(t)]) \in Nat
    BY CurLemma, WiringAssumption, LenProperties DEF TypeOK
  <2>4. imageIndex[t] < Len(CamerasOf[CurFactory(t)]) /\ k \in (imageIndex[t] + 1)..Len(CamerasOf[CurFactory(t)])
    BY <2>1, <2>2, <2>3
  <2>5. imageIndex'[t] = imageIndex[t] + 1 /\ factoryIndex' = factoryIndex /\ pc'[t] = "push"
    BY <2>4 DEF PushEnqueue, Goto, TypeOK
  <2> QED
    BY <2>1, <2>4, <2>5 DEF ToPush, CurFactory
<1> QED
  BY <1>1, <1>2

\* After a capture its images are to be pushed, and nothing was before.
LEMMA ToPushGrabbed ==
  ASSUME TypeOK, FirstImage, NEW t \in Task, Grab(t), NEW c \in Camera
  PROVE  /\ ~ToPush(t, c)
         /\ ToPush(t, c)' <=> Feeds(CurFactory(t), c)
         /\ CurFactory(t)' = CurFactory(t)
<1>1. /\ pc[t] = "grab" /\ pc'[t] = "push" /\ UNCHANGED <<factoryIndex, imageIndex>>
      /\ imageIndex[t] = 1
  BY DEF Grab, Goto, TypeOK, FirstImage
<1> QED
  BY <1>1 DEF ToPush, Feeds, CurFactory

-----------------------------------------------------------------------------
(* The fate of a camera in each step.                                      *)

\* The steps that touch no queue and begin neither a push nor a take.
Quiet(t) ==
  /\ UNCHANGED <<queue, last>>
  /\ pc[t] \notin {"push", "drop", "enqueue", "trim", "trimDrop", "take"}
  /\ pc'[t] \notin {"push", "drop", "enqueue", "trim", "trimDrop", "take"}

\* Those steps change nobody's fate.
LEMMA QuietFate ==
  ASSUME NEW t \in Task, Quiet(t), NEW c \in Camera
  PROVE  Fate(t, c)' = Fate(t, c)
<1>1. ~ToPush(t, c) /\ ~ToPush(t, c)'
  BY DEF Quiet, ToPush
<1> QED
  BY <1>1 DEF Quiet, Fate

\* Neither does the first part of PushImage.
LEMMA PushFate ==
  ASSUME TypeOK, QueueBounded, CheckHolds, NEW t \in Task, PushCheck(t) \/ PushDrop(t),
         NEW c \in Camera
  PROVE  Fate(t, c)' = Fate(t, c)
<1>1. /\ UNCHANGED <<shot, factoryIndex, imageIndex, group, idx>>
      /\ pc[t] \in {"push", "drop"} /\ pc'[t] \in {"push", "drop", "enqueue"}
  BY DEF PushCheck, PushDrop, Goto, grabVars, getVars, TypeOK
<1>2. CurFactory(t)' = CurFactory(t)
  BY <1>1 DEF CurFactory
<1>3. ToPush(t, c)' <=> ToPush(t, c)
  BY ToPushKept
<1>4. CASE queue'[c] = queue[c]
  BY <1>1, <1>2, <1>3, <1>4 DEF Fate
<1>5. CASE queue'[c] # queue[c]
  <2>1. PushDrop(t)
    BY <1>5 DEF PushCheck, queueVars
  <2>2. pc[t] = "drop" /\ Dequeue(CurCamera(t))
    BY <2>1 DEF PushDrop
  <2>3. c = CurCamera(t) /\ queue[c] # <<>> /\ queue'[c] = Tail(queue[c])
    BY <1>5, <2>2, CurLemma DEF Dequeue, TypeOK
  <2>4. ToPush(t, c)
    BY <2>2, <2>3, CurToPush
  <2>5. queue[c] \in Seq(Nat) /\ Len(queue[c]) \in Nat
    BY LenProperties DEF TypeOK
  <2>6. Len(queue[c]) = MaxQueueLen
    BY <2>2, <2>3, <2>5, LengthAssumption DEF CheckHolds, QueueBounded
  <2>7. Pushed(queue'[c], shot[CurFactory(t)]) = Pushed(queue[c], shot[CurFactory(t)])
    BY <2>3, <2>5, <2>6, PushedAfterDrop
  <2> QED
    BY <1>1, <1>2, <1>3, <2>4, <2>7 DEF Fate
<1> QED
  BY <1>4, <1>5

\* Nor the second.
LEMMA EnqueueFate ==
  ASSUME TypeOK, CheckHolds, NEW t \in Task, PushEnqueue(t), NEW c \in Camera
  PROVE  Fate(t, c)' = Fate(t, c)
<1>1. /\ pc[t] = "enqueue" /\ UNCHANGED <<shot, group, idx>>
      /\ pc'[t] \in {"push", "grab", "try"}
      /\ queue' = [queue EXCEPT ![CurCamera(t)] = Append(@, shot[CurFactory(t)])]
  BY DEF PushEnqueue, NextFactory, Goto, getVars, TypeOK
<1>2. ToPush(t, c)' <=> ToPush(t, c) /\ c # CurCamera(t)
  BY ToPushOthers
<1>3. ToPush(t, c)' => CurFactory(t)' = CurFactory(t)
  <2>1. ToPush(t, c)' => pc'[t] = "push"
    BY <1>1 DEF ToPush
  <2>2. pc'[t] = "push" => UNCHANGED factoryIndex
    BY DEF PushEnqueue, NextFactory, Goto, TypeOK
  <2> QED
    BY <2>1, <2>2 DEF CurFactory
<1>4. CASE c # CurCamera(t)
  <2>1. queue'[c] = queue[c]
    BY <1>1, <1>4 DEF TypeOK
  <2> QED
    BY <1>1, <1>2, <1>3, <1>4, <2>1 DEF Fate
<1>5. CASE c = CurCamera(t)
  <2>1. ToPush(t, c) /\ ~ToPush(t, c)'
    BY <1>1, <1>2, <1>5, CurToPush
  <2>2. Len(queue[c]) \in Nat /\ Len(queue[c]) < MaxQueueLen /\ MaxQueueLen \in Nat
    BY <1>1, <1>5, LenProperties, LengthAssumption DEF CheckHolds, TypeOK
  <2>3. ~(Len(queue[c]) >= MaxQueueLen)
    BY <2>2
  <2>4. Pushed(queue[c], shot[CurFactory(t)]) = Append(queue[c], shot[CurFactory(t)])
    BY <2>3 DEF Pushed
  <2>5. queue'[c] = Append(queue[c], shot[CurFactory(t)])
    BY <1>1, <1>5 DEF TypeOK
  <2> QED
    BY <1>1, <2>1, <2>4, <2>5 DEF Fate
<1> QED
  BY <1>4, <1>5

\* GetImage's trimming leads where it was to lead.
LEMMA TrimFate ==
  ASSUME TypeOK, CheckHolds, NEW t \in Task, TrimCheck(t) \/ TrimDrop(t), NEW c \in Camera
  PROVE  Fate(t, c)' = Fate(t, c)
<1>1. /\ UNCHANGED <<group, idx>>
      /\ pc[t] \in {"trim", "trimDrop"} /\ pc'[t] \in {"trim", "trimDrop", "take"}
  BY DEF TrimCheck, TrimDrop, Goto, getVars, TypeOK
<1>2. ~ToPush(t, c) /\ ~ToPush(t, c)'
  BY <1>1 DEF ToPush
<1>3. CASE queue'[c] = queue[c]
  BY <1>1, <1>2, <1>3 DEF Fate
<1>4. CASE queue'[c] # queue[c]
  <2>1. TrimDrop(t)
    BY <1>4 DEF TrimCheck, queueVars
  <2>2. pc[t] = "trimDrop" /\ Dequeue(idx[t])
    BY <2>1 DEF TrimDrop
  <2>3. idx[t] \in Camera
    BY DEF TypeOK
  <2>4. c = idx[t] /\ queue'[c] = Tail(queue[c])
    BY <1>4, <2>2, <2>3 DEF Dequeue, TypeOK
  <2>5. Trimmed(queue'[c]) = Trimmed(queue[c])
    BY <2>2, <2>4, TrimmedTail DEF CheckHolds, TypeOK
  <2>6. ~(c < idx[t])
    BY <2>3, <2>4 DEF Camera
  <2> QED
    BY <1>1, <1>2, <2>5, <2>6 DEF Fate
<1> QED
  BY <1>3, <1>4

\* What a take gets is what was to be got.
LEMMA TakenFate ==
  ASSUME TypeOK, CheckHolds, NEW t \in Task, Take(t) \/ TakeLast(t), NEW c \in Camera
  PROVE  /\ c <= idx[t] => Fate(t, c) = <<queue'[c], Taken(t)[c]>>
         /\ c > idx[t] => /\ queue'[c] = queue[c]
                          /\ Fate(t, c) = <<Tail(Trimmed(queue[c])), Head(Trimmed(queue[c]))>>
<1>1. /\ pc[t] = "take" /\ Dequeue(idx[t]) /\ idx[t] \in Camera /\ queue[idx[t]] # <<>>
  BY DEF Take, TakeLast, TypeOK
<1>2. ~ToPush(t, c)
  BY <1>1 DEF ToPush
<1>3. c \in Nat /\ idx[t] \in Nat
  BY <1>1, CameraAssumption DEF Camera
<1>4. CASE c < idx[t]
  <2>1. /\ idx[t] # c
        /\ c \in DOMAIN queue
        /\ c \in DOMAIN group[t]
    BY <1>3, <1>4 DEF TypeOK
  <2>2. queue'[c] = queue[c]
    BY <1>1, <2>1 DEF Dequeue
  <2>3. Taken(t)[c] = group[t][c]
    BY <2>1 DEF Taken
  <2> QED
    BY <1>1, <1>2, <1>3, <1>4, <2>2, <2>3 DEF Fate
<1>5. CASE c = idx[t]
  <2>1. queue'[c] = Tail(queue[c]) /\ Taken(t)[c] = Head(queue[c])
    BY <1>1, <1>5 DEF Dequeue, Taken, TypeOK
  <2>2. Len(queue[c]) \in Nat /\ Len(queue[c]) <= KeepLen /\ KeepLen \in Nat
    BY <1>1, <1>5, LenProperties, LengthAssumption DEF CheckHolds, TypeOK
  <2>3. Trimmed(queue[c]) = queue[c]
    <3>1. ~(Len(queue[c]) > KeepLen)
      BY <2>2
    <3> QED
      BY <3>1 DEF Trimmed
  <2>4. ~(c < idx[t]) /\ c <= idx[t] /\ ~(c > idx[t])
    BY <1>3, <1>5
  <2> QED
    BY <1>1, <1>2, <2>1, <2>3, <2>4 DEF Fate
<1>6. CASE c > idx[t]
  <2>1. queue'[c] = queue[c]
    BY <1>1, <1>3, <1>6 DEF Dequeue, TypeOK
  <2>2. ~(c < idx[t]) /\ ~(c <= idx[t])
    BY <1>3, <1>6
  <2> QED
    BY <1>1, <1>2, <1>6, <2>1, <2>2 DEF Fate
<1> QED
  BY <1>3, <1>4, <1>5, <1>6

\* A take that is not the last changes nobody's fate.
LEMMA TakeFate ==
  ASSUME TypeOK, CheckHolds, NEW t \in Task, Take(t), NEW c \in Camera
  PROVE  Fate(t, c)' = Fate(t, c)
<1>1. /\ idx[t] \in Camera /\ idx'[t] = idx[t] + 1 /\ group'[t] = Taken(t)
      /\ pc'[t] = "trim"
  BY DEF Take, Goto, TypeOK
<1>2. ~ToPush(t, c)'
  BY <1>1 DEF ToPush
<1>3. (c < idx'[t] <=> c <= idx[t]) /\ (c <= idx[t] \/ c > idx[t])
  BY <1>1 DEF Camera
<1>4. Fate(t, c)' = IF c <= idx[t] THEN <<queue'[c], Taken(t)[c]>>
                    ELSE <<Tail(Trimmed(queue'[c])), Head(Trimmed(queue'[c]))>>
  BY <1>1, <1>2, <1>3 DEF Fate, Trimmed
<1> QED
  BY <1>3, <1>4, TakenFate

\* The last take turns the fates into the group that is returned.
LEMMA TakeLastFate ==
  ASSUME TypeOK, CheckHolds, NEW t \in Task, TakeLast(t), NEW c \in Camera
  PROVE  Fate(t, c) = <<queue'[c], last'[c]>> /\ Fate(t, c)' = <<queue'[c], 0>>
<1>1. /\ idx[t] = NumCamera /\ last' = Taken(t)
      /\ pc'[t] \in {"unlock", "count"}
  BY DEF TakeLast, Goto, TypeOK
<1>2. c <= idx[t]
  BY <1>1, CameraAssumption DEF Camera
<1>3. ~ToPush(t, c)'
  BY <1>1 DEF ToPush
<1>4. Fate(t, c)' = <<queue'[c], 0>>
  BY <1>1, <1>3 DEF Fate
<1>5. Fate(t, c) = <<queue'[c], Taken(t)[c]>>
  BY <1>2, TakenFate
<1> QED
  BY <1>1, <1>4, <1>5

\* When every queue was counted as non-empty, a camera's fate depends on its
\* queue alone.
LEMMA CountedFate ==
  ASSUME TypeOK, NEW t \in Task, Count(t), pc'[t] = "trim", NEW c \in Camera
  PROVE  /\ Fate(t, c) = <<queue[c], 0>>
         /\ Fate(t, c)' = <<Tail(Trimmed(queue[c])), Head(Trimmed(queue[c]))>>
<1>1. /\ pc[t] = "count" /\ queue' = queue /\ idx'[t] = 1
  BY DEF Count, Goto, TypeOK, queueVars
<1>2. ~ToPush(t, c) /\ ~ToPush(t, c)'
  BY <1>1 DEF ToPush
<1>3. ~(c < idx'[t])
  BY <1>1 DEF Camera
<1>4. Fate(t, c) = <<queue[c], 0>>
  BY <1>1, <1>2 DEF Fate
<1> QED
  BY <1>1, <1>2, <1>3, <1>4 DEF Fate, Trimmed

\* A capture decides the fate of the cameras of its factory.
LEMMA GrabbedFate ==
  ASSUME TypeOK, FirstImage, NEW t \in Task, Grab(t), NEW c \in Camera
  PROVE  /\ Fate(t, c) = <<queue[c], 0>>
         /\ Fate(t, c)' = IF Feeds(CurFactory(t), c)
                          THEN <<Pushed(queue[c], shot[CurFactory(t)] + 1), 0>>
                          ELSE <<queue[c], 0>>
<1>1. /\ pc[t] = "grab" /\ pc'[t] = "push" /\ queue' = queue
      /\ shot'[CurFactory(t)] = shot[CurFactory(t)] + 1
  BY CurLemma DEF Grab, Goto, TypeOK, queueVars
<1>2. Fate(t, c) = <<queue[c], 0>>
  BY <1>1, ToPushGrabbed DEF Fate
<1>3. Pushed(queue[c], shot[CurFactory(t)])' = Pushed(queue[c], shot[CurFactory(t)] + 1)
  BY <1>1, ToPushGrabbed DEF Pushed
<1>4. Fate(t, c)' = IF ToPush(t, c)' THEN <<Pushed(queue[c], shot[CurFactory(t)])', 0>>
                    ELSE <<queue'[c], 0>>
  BY <1>1 DEF Fate
<1> QED
  BY <1>1, <1>2, <1>3, <1>4, ToPushGrabbed

-----------------------------------------------------------------------------
(* The inductive invariant.                                                *)

\* Every step keeps a fate, or maps equal fates to equal ones.
LEMMA FateStep ==
  ASSUME TypeOK, QueueBounded, CheckHolds, FirstImage, NEW t \in Task, Step(t),
         NEW f \in Factory, NEW c \in Camera, NEW d \in Camera, Feeds(f, c), Feeds(f, d),
         Fate(t, c) = Fate(t, d)
  PROVE  Fate(t, c)' = Fate(t, d)'
<1>1. CASE Grab(t)
  <2>1. Feeds(CurFactory(t), c) <=> Feeds(CurFactory(t), d)
    BY CurLemma, OneFactory
  <2> QED
    BY <1>1, <2>1, GrabbedFate
<1>2. CASE GrabFail(t) \/ GrabThrow(t) \/ TryLock(t) \/ TryLockFail(t) \/ Unlock(t)
  <2>1. Quiet(t)
    BY <1>2 DEF Quiet, GrabFail, GrabThrow, TryLock, TryLockFail, Unlock, NextFactory, Goto,
                queueVars, TypeOK
  <2> QED
    BY <2>1, QuietFate
<1>3. CASE PushCheck(t) \/ PushDrop(t)
  BY <1>3, PushFate
<1>4. CASE PushEnqueue(t)
  BY <1>4, EnqueueFate
<1>5. CASE Count(t)
  <2>1. CASE pc'[t] = "trim"
    <3>1. <<queue[c], 0>> = <<queue[d], 0>>
      BY <1>5, <2>1, CountedFate
    <3>2. queue[c] = queue[d]
      BY <3>1
    <3> QED
      BY <1>5, <2>1, <3>2, CountedFate
  <2>2. CASE pc'[t] # "trim"
    <3>1. Quiet(t)
      BY <1>5, <2>2 DEF Quiet, Count, Goto, queueVars, TypeOK
    <3> QED
      BY <3>1, QuietFate
  <2> QED
    BY <2>1, <2>2
<1>6. CASE TrimCheck(t) \/ TrimDrop(t)
  BY <1>6, TrimFate
<1>7. CASE Take(t)
  BY <1>7, TakeFate
<1>8. CASE TakeLast(t)
  BY <1>8, TakeLastFate
<1> QED
  BY <1>1, <1>2, <1>3, <1>4, <1>5, <1>6, <1>7, <1>8 DEF Step

\* A group is returned with the images of a factory of one capture.
LEMMA PairedStep ==
  ASSUME TypeOK, CheckHolds, FateShared, StereoPaired, NEW t \in Task, Step(t)
  PROVE  StereoPaired'
<1> SUFFICES ASSUME NEW f \in Factory, NEW i \in 1..Len(CamerasOf[f]), NEW j \in 1..Len(CamerasOf[f])
             PROVE  last'[CamerasOf[f][i]] = last'[CamerasOf[f][j]]
  BY DEF StereoPaired
<1>1. CamerasOf[f][i] \in Camera /\ CamerasOf[f][j] \in Camera
  BY WiringAssumption, ElementOfSeq
<1>2. CASE TakeLast(t)
  <2>1. Fate(t, CamerasOf[f][i]) = Fate(t, CamerasOf[f][j])
    BY DEF FateShared
  <2> QED
    BY <1>1, <1>2, <2>1, TakeLastFate
<1>3. CASE ~TakeLast(t)
  <2>1. last' = last
    BY <1>3 DEF Step, Grab, GrabFail, GrabThrow, PushCheck, PushDrop, PushEnqueue, TryLock,
                TryLockFail, Count, TrimCheck, TrimDrop, Take, Unlock, queueVars
  <2> QED
    BY <2>1 DEF StereoPaired
<1> QED
  BY <1>2, <1>3

\* Nobody else touches the queues between a check and what it decides on.
LEMMA CheckStep ==
  ASSUME OneTask, TypeOK, CheckHolds, NEW t \in Task, Step(t)
  PROVE  CheckHolds'
<1> SUFFICES /\ pc'[t] = "drop" => Len(queue'[CurCamera(t)']) >= MaxQueueLen
             /\ pc'[t] = "enqueue" => Len(queue'[CurCamera(t)']) < MaxQueueLen
             /\ pc'[t] = "trimDrop" => Len(queue'[idx'[t]]) > KeepLen
             /\ pc'[t] = "take" => Len(queue'[idx'[t]]) <= KeepLen
  BY DEF OneTask, CheckHolds
<1>1. CASE PushCheck(t)
  <2>1. queue' = queue /\ CurCamera(t)' = CurCamera(t)
    BY <1>1, CurUnchanged DEF PushCheck, queueVars, grabVars
  <2>2. Len(queue[CurCamera(t)]) \in Nat /\ MaxQueueLen \in Nat
    BY CurLemma, LenProperties, LengthAssumption DEF TypeOK
  <2>3. pc'[t] = IF Len(queue[CurCamera(t)]) >= MaxQueueLen THEN "drop" ELSE "enqueue"
    BY <1>1 DEF PushCheck, Goto, TypeOK
  <2> QED
    BY <2>1, <2>2, <2>3
<1>2. CASE TrimCheck(t)
  <2>1. queue' = queue /\ idx' = idx
    BY <1>2 DEF TrimCheck, queueVars, getVars
  <2>2. Len(queue[idx[t]]) \in Nat /\ KeepLen \in Nat
    BY LenProperties, LengthAssumption DEF TypeOK
  <2>3. pc'[t] = IF Len(queue[idx[t]]) > KeepLen THEN "trimDrop" ELSE "take"
    BY <1>2 DEF TrimCheck, Goto, TypeOK
  <2> QED
    BY <2>1, <2>2, <2>3
<1>3. CASE ~PushCheck(t) /\ ~TrimCheck(t)
  <2>1. pc'[t] \notin {"drop", "enqueue", "trimDrop", "take"}
    BY <1>3 DEF Step, Grab, GrabFail, GrabThrow, PushDrop, PushEnqueue, TryLock, TryLockFail,
                Count, TrimDrop, Take, TakeLast, Unlock, NextFactory, Goto, TypeOK
  <2> QED
    BY <2>1
<1> QED
  BY <1>1, <1>2, <1>3

\* A push that ends, or is given up, leaves the image loop at its start.
LEMMA FirstImageStep ==
  ASSUME OneTask, TypeOK, FirstImage, NEW t \in Task, Step(t)
  PROVE  FirstImage'
<1> SUFFICES ASSUME pc'[t] \notin {"push", "drop", "enqueue"} PROVE imageIndex'[t] = 1
  BY DEF OneTask, FirstImage
<1>1. CASE GrabFail(t) \/ GrabThrow(t) \/ PushEnqueue(t)
  BY <1>1 DEF GrabFail, GrabThrow, PushEnqueue, NextFactory, Goto, TypeOK
<1>2. CASE Grab(t) \/ PushCheck(t) \/ PushDrop(t)
  BY <1>2 DEF Grab, PushCheck, PushDrop, Goto, TypeOK
<1>3. CASE \/ TryLock(t) \/ TryLockFail(t) \/ Count(t) \/ TrimCheck(t)
           \/ TrimDrop(t) \/ Take(t) \/ TakeLast(t) \/ Unlock(t)
  <2>1. imageIndex' = imageIndex /\ pc[t] \notin {"push", "drop", "enqueue"}
    BY <1>3 DEF TryLock, TryLockFail, Count, TrimCheck, TrimDrop, Take, TakeLast, Unlock, grabVars
  <2> QED
    BY <2>1 DEF FirstImage
<1> QED
  BY <1>1, <1>2, <1>3 DEF Step

\* The four together are inductive.
LEMMA PairInvStep ==
  ASSUME OneTask, TypeOK, QueueBounded, PairInv, [Next]_vars
  PROVE  PairInv'
<1>1. CASE UNCHANGED vars
  <2>1. /\ UNCHANGED <<queue, last, shot, pc, factoryIndex, imageIndex, idx, group>>
        /\ \A t \in Task : CurFactory(t)' = CurFactory(t) /\ CurCamera(t)' = CurCamera(t)
    BY <1>1 DEF vars, queueVars, grabVars, getVars, CurFactory, CurCamera
  <2>2. StereoPaired' /\ CheckHolds' /\ FirstImage'
    BY <2>1 DEF PairInv, StereoPaired, CheckHolds, FirstImage
  <2>3. \A t \in Task, c \in Camera : ToPush(t, c)' <=> ToPush(t, c)
    BY <2>1 DEF ToPush
  <2>4. ASSUME NEW t \in Task, NEW c \in Camera PROVE Fate(t, c)' = Fate(t, c)
    BY <2>1, <2>3 DEF Fate
  <2>5. \A f \in Factory : \A i \in 1..Len(CamerasOf[f]) : CamerasOf[f][i] \in Camera
    BY WiringAssumption, ElementOfSeq
  <2>6. FateShared'
    BY <2>4, <2>5 DEF PairInv, FateShared
  <2> QED
    BY <2>2, <2>6 DEF PairInv
<1>2. ASSUME NEW t \in Task, Step(t) PROVE PairInv'
  <2>1. StereoPaired' /\ CheckHolds' /\ FirstImage'
    BY <1>2, PairedStep, CheckStep, FirstImageStep DEF PairInv
  <2>2. ASSUME NEW f \in Factory, NEW i \in 1..Len(CamerasOf[f]), NEW j \in 1..Len(CamerasOf[f])
        PROVE  Fate(t, CamerasOf[f][i])' = Fate(t, CamerasOf[f][j])'
    <3>1. PICK c \in Camera, d \in Camera : c = CamerasOf[f][i] /\ d = CamerasOf[f][j]
      BY WiringAssumption, ElementOfSeq
    <3>2. Feeds(f, c) /\ Feeds(f, d)
      BY <3>1 DEF Feeds
    <3>3. Fate(t, c) = Fate(t, d)
      BY <3>1 DEF PairInv, FateShared
    <3>4. Fate(t, c)' = Fate(t, d)'
      BY <1>2, <3>2, <3>3, FateStep DEF PairInv
    <3> QED
      BY <3>1, <3>4
  <2>3. FateShared'
    BY <2>2 DEF FateShared, OneTask
  <2> QED
    BY <2>1, <2>3 DEF PairInv
<1> QED
  BY <1>1, <1>2 DEF Next

\* Nothing has been captured or returned at the start.
LEMMA PairInvInit == Init => PairInv
<1> SUFFICES ASSUME Init PROVE PairInv
  OBVIOUS
<1>1. \A f \in Factory : \A i \in 1..Len(CamerasOf[f]) : CamerasOf[f][i] \in Camera
  BY WiringAssumption, ElementOfSeq
<1>2. \A c \in Camera : last[c] = 0 /\ queue[c] = <<>>
  BY DEF Init, NoGroup
<1>3. \A t \in Task : pc[t] = "grab" /\ imageIndex[t] = 1
  BY DEF Init
<1>4. \A t \in Task, c \in Camera : Fate(t, c) = <<<<>>, 0>>
  BY <1>2, <1>3 DEF Fate, ToPush
<1> QED
  BY <1>1, <1>2, <1>3, <1>4 DEF PairInv, StereoPaired, FateShared, CheckHolds, FirstImage

\* Under start(), with one task for all the factories, the cameras of a factory
\* share their fate through every push and every GetImage.
THEOREM PairInvariance ==
  ASSUME OneTask
  PROVE  Spec => []PairInv
<1>1. IInv => TypeOK /\ QueueBounded
  BY DEF IInv
<1>2. TypeOK /\ QueueBounded /\ PairInv /\ [Next]_vars => PairInv'
  BY PairInvStep
<1> QED
  BY Invariance, <1>1, <1>2, PairInvInit, PTL DEF Spec

\* Under start() the images of one factory in a returned group are of one
\* capture.
THEOREM PairsOfOneCapture ==
  ASSUME OneTask
  PROVE  Spec => []StereoPaired
<1>1. PairInv => StereoPaired
  BY DEF PairInv
<1> QED
  BY PairInvariance, <1>1, PTL
=============================================================================
