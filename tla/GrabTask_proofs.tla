--------------------------- MODULE GrabTask_proofs ---------------------------
(***************************************************************************)
(* Proofs about the loop of the grab tasks, for any number of tasks and    *)
(* procs and whatever is called.                                           *)
(*                                                                         *)
(* The argument for any callers: with several tasks the one that holds     *)
(* lockGetImage is the one inside the locked part of run(); with one task  *)
(* the others are done (LockHeld).  The main task alone makes the onEnable *)
(* and onDisable calls, and where it is in run() determines what is        *)
(* enabled (EnabledHere).  Only the main task empties _nextProc, so what   *)
(* it has seen there is still there when it switches (SwitchInv).  The     *)
(* lists of flags and counts differ in length by the counts that are on    *)
(* their way and the flag about to be erased (ListsPaired), so run()       *)
(* erases only what is there.                                              *)
(*                                                                         *)
(* When only tasks call, from inside process(), the caller is in the       *)
(* locked part, so the main task is not counting down, marking or erasing  *)
(* at the same time: the counter of groups to drop is what is owed         *)
(* (DiscardInv), what a flag has marked and has still to mark add up to    *)
(* what it was set for (FlagInv), and no switch is lost (ActiveInv).       *)
(***************************************************************************)
EXTENDS GrabTask, FiniteSetTheorems, SequenceTheorems, TLAPS

\* The types that the control of run() depends on.
ControlTypes ==
  /\ mode \in {"start", "startMT"}
  /\ pc \in [Task -> Labels]
  /\ switching \in [Task -> BOOLEAN]
  /\ proc = [t \in Task |-> proc[t]]

\* The part of the invariant about the lock and the callbacks.
LockInv == ControlTypes /\ LockHeld /\ MainOnly /\ EnabledHere

\* The steps that are not those of run().
Api == (\E c \in Caller : Request(c) \/ Finish(c)) \/ Stop \/ Join

\* The actions of Api, to be opened together.
ApiAction(c) ==
  \/ \E p \in Proc : SetActiveProc(c, p)
  \/ \E b \in BOOLEAN : SetIsGrab(c, b)
  \/ \E n \in 0..MaxCount : DiscardFrame(c, n)
  \/ \E n \in 0..MaxCount : SetFrameFlag(c, n)
  \/ Visit(c) \/ SetFrameFlagCount(c)
  \/ c = App /\ Stop
  \/ c = App /\ Join

\* Whatever happens outside of run() is the action of a caller.
LEMMA ApiCases == Api => \E c \in Caller : ApiAction(c)
<1>1. App \in Caller
  BY DEF Caller
<1> QED
  BY <1>1 DEF Api, Request, Finish, ApiAction

\* There is a main task: the first on the list (IGrabTask::isMainTask).
LEMMA MainIsTask == Main \in Task
BY TaskAssumption DEF Main, Task

\* The tasks are callers too, and the application is none of them.
LEMMA TasksAreCallers == Task \subseteq Caller /\ App \in Caller /\ App \notin Task
BY CallerAssumption DEF Caller

\* The invariant holds before any task has run.
LEMMA InitLock == Init => LockInv
<1> SUFFICES ASSUME Init
             PROVE  LockInv
  OBVIOUS
<1>1. activeProc \in Proc
  BY ProcAssumption DEF Init
<1>2. ControlTypes
  BY <1>1, ModeAssumption DEF Init, ControlTypes, Labels
<1>3. LockHeld
  BY ProcAssumption DEF Init, LockHeld, Locked
<1>4. MainOnly
  BY DEF Init, MainOnly
<1>5. EnabledHere
  BY MainIsTask DEF Init, EnabledHere, WhileEnabled, Locked
<1>6. QED
  BY <1>2, <1>3, <1>4, <1>5 DEF LockInv

\* What calls leave alone: everything about the lock and the callbacks.
LEMMA ApiFrame ==
  ASSUME NEW c \in Caller, ApiAction(c)
  PROVE  /\ UNCHANGED <<mode, flowVars, proc, counted, at, seen, marked, enabled>>
         /\ UNCHANGED vGrabTasks
BY DEF ApiAction, SetActiveProc, SetIsGrab, DiscardFrame, SetFrameFlag, SetFrameFlagCount,
   Stop, Visit, Join, fieldVars, countVars, flagVars, listVars, vGrabTasks

\* No call disturbs the lock or the callbacks.
LEMMA ApiLock == LockInv /\ Api => LockInv'
<1> SUFFICES ASSUME LockInv, Api
             PROVE  LockInv'
  OBVIOUS
<1>1. UNCHANGED <<mode, flowVars, proc, enabled>>
  BY ApiCases, ApiFrame
<1>2. QED
  BY <1>1 DEF flowVars, LockInv, ControlTypes, LockHeld, MainOnly, EnabledHere

\* The steps of the main task through the frame flags.
FlagStep(t) ==
  \/ FlagRead(t) \/ FlagMark(t) \/ FlagEnd(t)
  \/ EraseCount(t) \/ EraseFlag(t) \/ EraseEnd(t)

\* A step that takes and releases nothing: what is to check is that it goes
\* from one place outside of the locked part to another, or from one inside.
LEMMA TaskLock ==
  ASSUME LockInv, NEW t \in Task, Step(t)
  PROVE  LockInv'
<1> USE MainIsTask
<1>0. /\ mode \in {"start", "startMT"} /\ mode' = mode
      /\ pc \in [Task -> Labels] /\ switching \in [Task -> BOOLEAN]
      /\ proc = [u \in Task |-> proc[u]]
  BY DEF LockInv, ControlTypes, Step, OpenOk, OpenFail, SkipCallback, EnableBegin, EnableEnd,
     DisableBegin, DisableEnd, Loop, Assign, Clear, GrabAndLock, GrabAndFail, NoGroup,
     DiscardRead, DiscardReread, Discard, ProcessBegin, FlagRead, FlagMark, FlagEnd, EraseCount,
     EraseFlag, EraseEnd, Process, Unlock
<1> USE DEF LockInv, ControlTypes, LockHeld, MainOnly, EnabledHere, Locked, WhileEnabled,
            Labels, Goto, fieldVars, flowVars
<1>1. CASE OpenOk(t)
  BY <1>0, <1>1 DEF OpenOk
<1>2. CASE OpenFail(t)
  BY <1>0, <1>2 DEF OpenFail
<1>3. CASE SkipCallback(t)
  BY <1>0, <1>3 DEF SkipCallback
<1>4. CASE EnableBegin(t)
  <2>1. CASE mode = "startMT"
    BY <1>0, <1>4, <2>1, ProcAssumption DEF EnableBegin, Acquire
  <2>2. CASE mode = "start"
    BY <1>0, <1>4, <2>2 DEF EnableBegin, Acquire
  <2>3. QED
    BY <1>0, <2>1, <2>2
<1>5. CASE EnableEnd(t)
  BY <1>0, <1>5, ProcAssumption DEF EnableEnd, Release
<1>6. CASE DisableBegin(t)
  <2>1. CASE mode = "startMT"
    BY <1>0, <1>6, <2>1, ProcAssumption DEF DisableBegin, Acquire
  <2>2. CASE mode = "start"
    BY <1>0, <1>6, <2>2 DEF DisableBegin, Acquire
  <2>3. QED
    BY <1>0, <2>1, <2>2
<1>7. CASE DisableEnd(t)
  BY <1>0, <1>7, ProcAssumption DEF DisableEnd, Release
<1>8. CASE Loop(t)
  BY <1>0, <1>8 DEF Loop
<1>9. CASE Assign(t)
  BY <1>0, <1>9 DEF Assign
<1>10. CASE Clear(t)
  BY <1>0, <1>10 DEF Clear
<1>11. CASE GrabAndLock(t)
  <2>1. CASE mode = "startMT"
    BY <1>0, <1>11, <2>1, ProcAssumption DEF GrabAndLock, Acquire
  <2>2. CASE mode = "start"
    BY <1>0, <1>11, <2>2 DEF GrabAndLock, Acquire
  <2>3. QED
    BY <1>0, <2>1, <2>2
<1>12. CASE GrabAndFail(t)
  BY <1>0, <1>12 DEF GrabAndFail
<1>13. CASE NoGroup(t)
  BY <1>0, <1>13 DEF NoGroup
<1>14. CASE DiscardRead(t) \/ DiscardReread(t)
  BY <1>0, <1>14 DEF DiscardRead, DiscardReread
<1>15. CASE Discard(t)
  BY <1>0, <1>15 DEF Discard, AfterGroup
<1>16. CASE ProcessBegin(t)
  BY <1>0, <1>16 DEF ProcessBegin
<1>17. CASE Process(t)
  BY <1>0, <1>17 DEF Process, AfterGroup
<1>18. CASE Unlock(t)
  BY <1>0, <1>18, ProcAssumption DEF Unlock, Release
<1>19. CASE FlagStep(t)
  <2>1. /\ t = Main /\ pc[t] \in {"flag", "flagMark", "erase", "eraseFlag"}
        /\ pc' = [pc EXCEPT ![t] = pc'[t]]
        /\ pc'[t] \in {"flag", "flagMark", "erase", "eraseFlag", "process"}
        /\ UNCHANGED <<lock, switching, proc, enabled>>
    BY <1>0, <1>19 DEF FlagStep, FlagRead, FlagMark, FlagEnd, EraseCount, EraseFlag, EraseEnd
  <2> QED
    BY <1>0, <2>1
<1> QED
  BY <1>1, <1>2, <1>3, <1>4, <1>5, <1>6, <1>7, <1>8, <1>9, <1>10, <1>11, <1>12,
     <1>13, <1>14, <1>15, <1>16, <1>17, <1>18, <1>19 DEF Step, FlagStep

-----------------------------------------------------------------------------
(* Lists and calls.                                                        *)

\* Erasing at a position moves what is behind it up by one.
LEMMA RemoveLemma ==
  ASSUME NEW S, NEW s \in Seq(S), NEW i \in 1..Len(s)
  PROVE  /\ RemoveAt(s, i) \in Seq(S)
         /\ Len(RemoveAt(s, i)) = Len(s) - 1
         /\ \A j \in 1..(Len(s) - 1) :
              RemoveAt(s, i)[j] = IF j < i THEN s[j] ELSE s[j + 1]
<1>1. Len(s) \in Nat /\ \A j \in 1..Len(s) : s[j] \in S
  BY LenProperties, ElementOfSeq
<1>2. PICK a : a = SubSeq(s, 1, i - 1)
  OBVIOUS
<1>3. PICK b : b = SubSeq(s, i + 1, Len(s))
  OBVIOUS
<1>4. a \in Seq(S) /\ Len(a) = i - 1 /\ \A j \in 1..(i - 1) : a[j] = s[j]
  <2>1. \A j \in 1..(i - 1) : s[j] \in S
    BY <1>1
  <2>2. 1 \in Int /\ i - 1 \in Int
    BY <1>1
  <2> QED
    BY <1>1, <1>2, <2>1, <2>2, SubSeqProperties
<1>5. b \in Seq(S) /\ Len(b) = Len(s) - i /\ \A j \in 1..(Len(s) - i) : b[j] = s[i + j]
  <2>1. \A j \in (i + 1)..Len(s) : s[j] \in S
    BY <1>1
  <2>2. i + 1 \in Int /\ Len(s) \in Int
    BY <1>1
  <2>3. /\ b \in Seq(S)
        /\ Len(b) = IF i + 1 <= Len(s) THEN Len(s) - (i + 1) + 1 ELSE 0
        /\ \A j \in 1..(Len(s) - (i + 1) + 1) : b[j] = s[(i + 1) + j - 1]
    BY <1>3, <2>1, <2>2, SubSeqProperties
  <2>4. Len(s) - (i + 1) + 1 = Len(s) - i /\ (~ i + 1 <= Len(s) => Len(s) - i = 0)
    BY <1>1
  <2>5. Len(b) = Len(s) - i
    BY <2>3, <2>4
  <2>6. ASSUME NEW j \in 1..(Len(s) - i)
        PROVE  b[j] = s[i + j]
    <3>1. (i + 1) + j - 1 = i + j
      BY <1>1
    <3>2. b[j] = s[(i + 1) + j - 1]
      BY <2>3, <2>4
    <3> QED
      BY <3>1, <3>2
  <2> QED
    BY <2>3, <2>5, <2>6
<1>6. RemoveAt(s, i) = a \o b
  BY <1>2, <1>3 DEF RemoveAt
<1>7. /\ a \o b \in Seq(S) /\ Len(a \o b) = Len(a) + Len(b)
      /\ \A j \in 1..(Len(a) + Len(b)) :
           (a \o b)[j] = IF j <= Len(a) THEN a[j] ELSE b[j - Len(a)]
  BY <1>4, <1>5, ConcatProperties
<1>8. Len(a) + Len(b) = Len(s) - 1
  BY <1>1, <1>4, <1>5
<1>9. ASSUME NEW j \in 1..(Len(s) - 1)
      PROVE  (a \o b)[j] = IF j < i THEN s[j] ELSE s[j + 1]
  <2>1. (a \o b)[j] = IF j <= i - 1 THEN a[j] ELSE b[j - (i - 1)]
    BY <1>4, <1>7, <1>8
  <2>2. CASE j < i
    BY <1>1, <1>4, <2>1, <2>2
  <2>3. CASE ~(j < i)
    <3>1. j - (i - 1) \in 1..(Len(s) - i) /\ i + (j - (i - 1)) = j + 1
      BY <1>1, <2>3
    <3> QED
      BY <1>1, <1>5, <2>1, <2>3, <3>1
  <2> QED
    BY <2>2, <2>3
<1> QED
  BY <1>6, <1>7, <1>8, <1>9

\* The lists have lengths, and the counts on their way can be counted.
LEMMA Lengths ==
  ASSUME TypeOK
  PROVE  /\ Len(frameFlag) \in Nat /\ Len(frameFlagCount) \in Nat
         /\ IsFiniteSet(Pushing) /\ Cardinality(Pushing) \in Nat
<1>1. Len(frameFlag) \in Nat /\ Len(frameFlagCount) \in Nat
  BY LenProperties DEF TypeOK
<1>2. IsFiniteSet(Task)
  <2>1. Len(Tasks) \in Nat /\ Tasks \in [1..Len(Tasks) -> Task]
    BY TaskAssumption, LenProperties
  <2>2. Tasks \in Surjection(1..Len(Tasks), Task)
    BY <2>1 DEF Surjection, Task
  <2>3. IsFiniteSet(1..Len(Tasks))
    BY <2>1, FS_Interval
  <2> QED
    BY <2>2, <2>3, FS_Surjection
<1>3. IsFiniteSet(Task \cup {App})
  BY <1>2, FS_AddElement
<1>4. Pushing \in SUBSET (Task \cup {App})
  BY DEF Pushing, Caller
<1>5. IsFiniteSet(Pushing)
  BY <1>3, <1>4, FS_Subset
<1> QED
  BY <1>1, <1>5, FS_CardinalityType

\* What a step of one task leaves alone.
LEMMA TaskFrame ==
  ASSUME TypeOK, NEW t \in Task, Step(t)
  PROVE  /\ UNCHANGED <<mode, api, calls, activeProc, asked, isGrab, vGrabTasks>>
         /\ \A u \in Task \ {t} : /\ pc'[u] = pc[u] /\ switching'[u] = switching[u]
                                  /\ proc'[u] = proc[u]
                                  /\ nextProc'[u] = nextProc[u] /\ counted'[u] = counted[u]
                                  /\ discardFrameCount'[u] = discardFrameCount[u]
         /\ pc[t] # "done"
         /\ ~FlagStep(t) => UNCHANGED flagVars
<1> USE DEF TypeOK, Goto, vGrabTasks, fieldVars, countVars, apiVars, flagVars, listVars, flowVars,
            AfterGroup
<1>1. CASE OpenOk(t) \/ OpenFail(t) \/ SkipCallback(t)
  BY <1>1 DEF OpenOk, OpenFail, SkipCallback
<1>2. CASE EnableBegin(t) \/ EnableEnd(t) \/ DisableBegin(t) \/ DisableEnd(t)
  BY <1>2 DEF EnableBegin, EnableEnd, DisableBegin, DisableEnd
<1>3. CASE Loop(t) \/ Assign(t) \/ Clear(t)
  BY <1>3 DEF Loop, Assign, Clear
<1>4. CASE GrabAndLock(t) \/ GrabAndFail(t) \/ NoGroup(t)
  BY <1>4 DEF GrabAndLock, GrabAndFail, NoGroup
<1>5. CASE DiscardRead(t) \/ DiscardReread(t) \/ Discard(t)
  BY <1>5 DEF DiscardRead, DiscardReread, Discard
<1>6. CASE ProcessBegin(t) \/ Process(t) \/ Unlock(t)
  BY <1>6 DEF ProcessBegin, Process, Unlock
<1>7. CASE FlagStep(t)
  BY <1>7 DEF FlagStep, FlagRead, FlagMark, FlagEnd, EraseCount, EraseFlag, EraseEnd
<1> QED
  BY <1>1, <1>2, <1>3, <1>4, <1>5, <1>6, <1>7 DEF Step, FlagStep

\* Where the main task is with the flags, and what each step there does.
LEMMA FlagSteps ==
  ASSUME ControlInv, NEW t \in Task, FlagStep(t)
  PROVE  /\ t = Main
         /\ UNCHANGED <<mode, lock, switching, second, fieldVars, countVars, asked, apiVars,
                        enabled>>
         /\ \/ FlagRead(t) /\ pc[Main] = "flag" /\ pc'[Main] \in {"flag", "flagMark"}
            \/ FlagMark(t) /\ pc[Main] = "flagMark" /\ pc'[Main] = "flag"
            \/ FlagEnd(t) /\ pc[Main] = "flag" /\ pc'[Main] = "erase"
            \/ /\ EraseCount(t) /\ pc[Main] = "erase"
               /\ at \in 1..Len(frameFlagCount) /\ at \in 1..Len(frameFlag)
               /\ pc'[Main] \in {"erase", "eraseFlag"}
            \/ /\ EraseFlag(t) /\ pc[Main] = "eraseFlag" /\ pc'[Main] = "erase"
               /\ at \in 1..Len(frameFlag)
            \/ EraseEnd(t) /\ pc[Main] = "erase" /\ pc'[Main] = "process"
<1>1. TypeOK /\ MainOnly /\ ListsPaired
  BY DEF ControlInv
<1>2. t = Main
  BY <1>1 DEF FlagStep, FlagRead, FlagMark, FlagEnd, EraseCount, EraseFlag, EraseEnd, MainOnly
<1>3. /\ Len(frameFlag) \in Nat /\ Len(frameFlagCount) \in Nat /\ at \in Nat \ {0}
      /\ Len(frameFlagCount) <= Len(frameFlag)
  <2>1. at \in Nat \ {0}
    BY <1>1 DEF TypeOK
  <2>2. Len(frameFlag) \in Nat /\ Len(frameFlagCount) \in Nat /\ Cardinality(Pushing) \in Nat
    BY <1>1, Lengths
  <2> QED
    BY <1>1, <2>1, <2>2 DEF ListsPaired
<1> USE <1>2, <1>3, MainIsTask DEF Goto, fieldVars, countVars, apiVars
<1>4. CASE FlagRead(t) \/ FlagMark(t)
  BY <1>1, <1>4 DEF FlagRead, FlagMark, TypeOK
<1>5. CASE FlagEnd(t) \/ EraseEnd(t)
  BY <1>1, <1>5 DEF FlagEnd, EraseEnd, TypeOK
<1>6. CASE EraseCount(t)
  <2>1. pc \in [Task -> Labels] /\ pc[Main] = "erase" /\ at <= Len(frameFlagCount)
    BY <1>1, <1>6 DEF EraseCount, TypeOK
  <2>2. pc'[Main] \in {"erase", "eraseFlag"}
    BY <1>6, <2>1 DEF EraseCount
  <2>3. at \in 1..Len(frameFlagCount) /\ at \in 1..Len(frameFlag)
    BY <2>1
  <2> QED
    BY <1>6, <2>1, <2>2, <2>3 DEF EraseCount
<1>7. CASE EraseFlag(t)
  <2>1. at <= Len(frameFlag)
    BY <1>1, <1>7 DEF EraseFlag, TypeOK
  <2> QED
    BY <1>1, <1>7, <2>1 DEF EraseFlag, TypeOK
<1> QED
  BY <1>4, <1>5, <1>6, <1>7 DEF FlagStep

-----------------------------------------------------------------------------
(* The invariant for any callers: the steps of the tasks.                  *)

\* A step that leaves the calls alone leaves them well-formed.
LEMMA SameCalls == CallsOK /\ UNCHANGED <<mode, api>> => CallsOK'
BY DEF CallsOK, InCall, vGrabTasks

\* The steps outside of the flags keep the types.
LEMMA TaskType ==
  ASSUME ControlInv, NEW t \in Task, Step(t), ~FlagStep(t)
  PROVE  TypeOK'
<1>1. TypeOK /\ MainOnly /\ SwitchInv
  BY DEF ControlInv
<1>2. /\ CallsOK' /\ calls' \in Nat /\ activeProc' \in Proc
      /\ frameFlag' \in Seq(Flag) /\ frameFlagCount' \in Seq(Int)
      /\ at' \in Nat \ {0} /\ seen' \in Int
      /\ asked' \in [Flag -> Nat] /\ marked' \in [Flag -> Nat]
      /\ UNCHANGED flagVars
  BY <1>1, TaskFrame, SameCalls DEF TypeOK, flagVars, listVars
<1>3. pc'[Main] \notin {"flagMark", "eraseFlag"} \/ pc'[Main] = pc[Main]
  <2> USE MainIsTask
  <2>1. CASE t # Main
    BY <1>1, <2>1, TaskFrame
  <2>2. CASE t = Main
    BY <1>1, <2>2 DEF TypeOK, Step, FlagStep, OpenOk, OpenFail, SkipCallback, EnableBegin, EnableEnd,
       DisableBegin, DisableEnd, Loop, Assign, Clear, GrabAndLock, GrabAndFail, NoGroup, DiscardRead,
       DiscardReread, Discard, ProcessBegin, Process, Unlock, Goto, AfterGroup, flowVars
  <2> QED
    BY <2>1, <2>2
<1>4. pc'[Main] \in {"flagMark", "eraseFlag"} => at' <= Len(frameFlag')
  BY <1>1, <1>2, <1>3 DEF TypeOK, flagVars, listVars
<1> DEFINE Rest == /\ mode' \in {"start", "startMT"} /\ lock' \in Task \cup {Null}
                   /\ pc' \in [Task -> Labels] /\ switching' \in [Task -> BOOLEAN]
                   /\ second' \in [Task -> BOOLEAN] /\ isRun' \in [Task -> BOOLEAN]
                   /\ isGrab' \in [Task -> BOOLEAN] /\ proc' \in [Task -> Proc]
                   /\ nextProc' \in [Task -> Proc \cup {Null}]
                   /\ discardFrameCount' \in [Task -> Int] /\ counted' \in [Task -> Int]
                   /\ enabled' \subseteq Proc /\ owed' \in Nat
<1>5. SUFFICES Rest
  BY <1>2, <1>4 DEF TypeOK
<1> USE <1>1 DEF TypeOK, Labels, Goto, fieldVars, countVars, flowVars, AfterGroup
<1>6. CASE OpenOk(t) \/ OpenFail(t) \/ SkipCallback(t)
  BY <1>6 DEF OpenOk, OpenFail, SkipCallback
<1>7. CASE EnableBegin(t) \/ DisableBegin(t)
  BY <1>7 DEF EnableBegin, DisableBegin, Acquire
<1>8. CASE EnableEnd(t)
  BY <1>8 DEF EnableEnd, Release
<1>9. CASE DisableEnd(t)
  BY <1>9 DEF DisableEnd, Release
<1>10. CASE Loop(t)
  BY <1>10 DEF Loop
<1>11. CASE Assign(t)
  <2>1. nextProc[t] \in Proc
    BY <1>11 DEF Assign, MainOnly, SwitchInv
  <2> QED
    BY <1>11, <2>1 DEF Assign
<1>12. CASE Clear(t)
  BY <1>12 DEF Clear
<1>13. CASE GrabAndLock(t)
  BY <1>13 DEF GrabAndLock, Acquire
<1>14. CASE GrabAndFail(t) \/ NoGroup(t)
  BY <1>14 DEF GrabAndFail, NoGroup
<1>15. CASE DiscardRead(t) \/ DiscardReread(t)
  <2>1. counted' = [counted EXCEPT ![t] = discardFrameCount[t]]
    BY <1>15 DEF DiscardRead, DiscardReread
  <2>2. counted' \in [Task -> Int]
    BY <2>1
  <2>3. CASE DiscardRead(t)
    BY <2>2, <2>3 DEF DiscardRead
  <2>4. CASE DiscardReread(t)
    BY <2>2, <2>4 DEF DiscardReread
  <2> QED
    BY <1>15, <2>3, <2>4
<1>16. CASE Discard(t)
  BY <1>16 DEF Discard
<1>17. CASE ProcessBegin(t)
  BY <1>17 DEF ProcessBegin
<1>18. CASE Process(t)
  BY <1>18 DEF Process
<1>19. CASE Unlock(t)
  BY <1>19 DEF Unlock, Release
<1> QED
  BY <1>6, <1>7, <1>8, <1>9, <1>10, <1>11, <1>12, <1>13, <1>14, <1>15, <1>16, <1>17, <1>18,
     <1>19 DEF Step, FlagStep

\* So do those through the flags, which moreover keep the lengths of the lists.
LEMMA FlagType ==
  ASSUME ControlInv, NEW t \in Task, FlagStep(t)
  PROVE  TypeOK' /\ ListsPaired'
<1>1. TypeOK /\ ListsPaired
  BY DEF ControlInv
<1>2. t = Main /\ UNCHANGED <<mode, lock, switching, second, fieldVars, countVars, asked, apiVars,
                              enabled>>
  BY FlagSteps
<1>3. /\ Len(frameFlag) \in Nat /\ Len(frameFlagCount) \in Nat /\ Cardinality(Pushing) \in Nat
      /\ frameFlag \in Seq(Flag) /\ frameFlagCount \in Seq(Int) /\ at \in Nat \ {0}
      /\ seen \in Int /\ asked \in [Flag -> Nat] /\ marked \in [Flag -> Nat]
      /\ pc \in [Task -> Labels]
  BY <1>1, Lengths DEF TypeOK
<1>4. Pushing' = Pushing /\ CallsOK'
  BY <1>1, <1>2, SameCalls DEF Pushing, apiVars, TypeOK
<1>5. SUFFICES /\ pc' \in [Task -> Labels]
               /\ frameFlag' \in Seq(Flag) /\ frameFlagCount' \in Seq(Int)
               /\ at' \in Nat \ {0} /\ seen' \in Int /\ marked' \in [Flag -> Nat]
               /\ pc'[Main] \in {"flagMark", "eraseFlag"} => at' <= Len(frameFlag')
               /\ Len(frameFlag') = Len(frameFlagCount') + Cardinality(Pushing)
                                      + (IF pc'[Main] = "eraseFlag" THEN 1 ELSE 0)
  BY <1>1, <1>2, <1>4 DEF TypeOK, ListsPaired, fieldVars, countVars, apiVars
<1>6. Len(frameFlag) = Len(frameFlagCount) + Cardinality(Pushing)
                         + (IF pc[Main] = "eraseFlag" THEN 1 ELSE 0)
  BY <1>1 DEF ListsPaired
<1> USE <1>2, <1>3, <1>6, MainIsTask DEF Goto, Labels
<1>7. CASE FlagRead(t)
  <2>1. PICK n \in IF at <= Len(frameFlagCount) THEN {frameFlagCount[at]} ELSE 0..MaxCount :
             /\ seen' = n /\ at' = IF n > 0 THEN at ELSE at + 1
             /\ pc' = [pc EXCEPT ![t] = IF n > 0 THEN "flagMark" ELSE "flag"]
    BY <1>7 DEF FlagRead
  <2>2. n \in Int
    <3>1. CASE at <= Len(frameFlagCount)
      BY <2>1, <3>1, ElementOfSeq
    <3>2. CASE ~(at <= Len(frameFlagCount))
      BY <2>1, <3>2, BoundAssumption
    <3> QED
      BY <3>1, <3>2
  <2>3. UNCHANGED <<frameFlag, frameFlagCount, marked>> /\ pc[Main] = "flag" /\ at <= Len(frameFlag)
    BY <1>7 DEF FlagRead
  <2>4. at' \in Nat \ {0} /\ seen' \in Int /\ pc' \in [Task -> Labels]
    BY <2>1, <2>2
  <2>5. /\ pc'[Main] \in {"flag", "flagMark"}
        /\ pc'[Main] = "flagMark" => at' = at
    BY <2>1
  <2> QED
    BY <2>3, <2>4, <2>5
<1>8. CASE FlagMark(t)
  <2>1. frameFlagCount' \in Seq(Int) /\ Len(frameFlagCount') = Len(frameFlagCount)
    <3>1. CASE at <= Len(frameFlagCount)
      <4>1. PICK n \in {seen, frameFlagCount[at]} :
                 frameFlagCount' = [frameFlagCount EXCEPT ![at] = n - 1]
        BY <1>8, <3>1 DEF FlagMark
      <4>2. at \in 1..Len(frameFlagCount) /\ n - 1 \in Int
        BY <3>1, <4>1, ElementOfSeq
      <4> QED
        BY <4>1, <4>2, ExceptSeq
    <3>2. CASE ~(at <= Len(frameFlagCount))
      BY <1>8, <3>2 DEF FlagMark
    <3> QED
      BY <3>1, <3>2
  <2>2. marked' \in [Flag -> Nat]
    <3>1. PICK f : f = frameFlag[at]
      OBVIOUS
    <3>2. at \in 1..Len(frameFlag)
      BY <1>1, <1>8 DEF FlagMark, TypeOK
    <3>3. f \in Flag
      BY <3>1, <3>2, ElementOfSeq
    <3>4. marked' = [marked EXCEPT ![f] = IF @ > asked[f] THEN @ ELSE @ + 1]
      BY <1>8, <3>1 DEF FlagMark
    <3> QED
      BY <3>3, <3>4
  <2> QED
    BY <1>8, <2>1, <2>2 DEF FlagMark
<1>9. CASE FlagEnd(t) \/ EraseEnd(t)
  <2>1. /\ at' = 1 /\ UNCHANGED <<frameFlag, frameFlagCount, seen, marked>>
        /\ pc' = [pc EXCEPT ![t] = IF FlagEnd(t) THEN "erase" ELSE "process"]
        /\ pc[Main] # "eraseFlag"
    <3>1. CASE FlagEnd(t)
      BY <3>1 DEF FlagEnd
    <3>2. CASE ~FlagEnd(t)
      BY <1>9, <3>2 DEF EraseEnd
    <3> QED
      BY <3>1, <3>2
  <2> QED
    BY <2>1
<1>10. CASE EraseCount(t)
  <2>1. at \in 1..Len(frameFlagCount) /\ at \in 1..Len(frameFlag) /\ pc[Main] = "erase"
    BY <1>10, FlagSteps DEF FlagRead, FlagMark, FlagEnd, EraseCount, EraseFlag, EraseEnd
  <2>2. CASE UsedUp(frameFlagCount[at])
    <3>1. /\ frameFlagCount' \in Seq(Int) /\ Len(frameFlagCount') = Len(frameFlagCount) - 1
          /\ pc' = [pc EXCEPT ![t] = "eraseFlag"]
          /\ UNCHANGED <<at, seen, marked, frameFlag>>
      <4>1. /\ RemoveAt(frameFlagCount, at) \in Seq(Int)
            /\ Len(RemoveAt(frameFlagCount, at)) = Len(frameFlagCount) - 1
        BY <2>1, RemoveLemma
      <4>2. /\ frameFlagCount' = RemoveAt(frameFlagCount, at)
            /\ pc' = [pc EXCEPT ![t] = "eraseFlag"]
            /\ UNCHANGED <<at, seen, marked, frameFlag>>
        BY <1>10, <2>2 DEF EraseCount
      <4> QED
        BY <4>1, <4>2
    <3>2. at' <= Len(frameFlag')
      BY <2>1, <3>1
    <3>3. pc' \in [Task -> Labels] /\ pc'[Main] = "eraseFlag"
      BY <3>1
    <3>4. Len(frameFlag') = Len(frameFlagCount') + Cardinality(Pushing) + 1
      <4>1. Len(frameFlag) = Len(frameFlagCount) + Cardinality(Pushing)
        BY <2>1
      <4>2. frameFlag' = frameFlag /\ Len(frameFlagCount') = Len(frameFlagCount) - 1
        BY <3>1
      <4>3. /\ Len(frameFlag) \in Nat /\ Len(frameFlagCount) \in Nat
            /\ Cardinality(Pushing) \in Nat
        OBVIOUS
      <4> HIDE <1>2, <1>3, <1>6
      <4> QED
        BY <4>1, <4>2, <4>3
    <3> QED
      BY <3>1, <3>2, <3>3, <3>4
  <2>3. CASE ~UsedUp(frameFlagCount[at])
    <3>1. at' = at + 1 /\ UNCHANGED <<pc, frameFlag, frameFlagCount, seen, marked>>
      BY <1>10, <2>1, <2>3 DEF EraseCount
    <3>2. at' \in Nat \ {0}
      BY <3>1
    <3> QED
      BY <2>1, <3>1, <3>2
  <2> QED
    BY <2>2, <2>3
<1>11. CASE EraseFlag(t)
  <2>1. at \in 1..Len(frameFlag) /\ pc[Main] = "eraseFlag"
    BY <1>11, FlagSteps DEF FlagRead, FlagMark, FlagEnd, EraseCount, EraseFlag, EraseEnd
  <2>2. frameFlag' \in Seq(Flag) /\ Len(frameFlag') = Len(frameFlag) - 1
    BY <1>11, <2>1, RemoveLemma DEF EraseFlag
  <2> QED
    BY <1>11, <2>1, <2>2 DEF EraseFlag
<1> QED
  BY <1>7, <1>8, <1>9, <1>10, <1>11 DEF FlagStep

\* A step outside of the flags leaves the lengths of the lists.
LEMMA TaskPaired ==
  ASSUME ControlInv, NEW t \in Task, Step(t), ~FlagStep(t)
  PROVE  ListsPaired'
<1>1. TypeOK /\ MainOnly /\ ListsPaired
  BY DEF ControlInv
<1>2. UNCHANGED <<frameFlag, frameFlagCount, api>>
  BY <1>1, TaskFrame DEF flagVars, listVars
<1>3. pc'[Main] = "eraseFlag" <=> pc[Main] = "eraseFlag"
  <2> USE MainIsTask
  <2>1. CASE t # Main
    BY <1>1, <2>1, TaskFrame
  <2>2. CASE t = Main
    BY <1>1, <2>2 DEF TypeOK, Step, FlagStep, OpenOk, OpenFail, SkipCallback, EnableBegin, EnableEnd,
       DisableBegin, DisableEnd, Loop, Assign, Clear, GrabAndLock, GrabAndFail, NoGroup, DiscardRead,
       DiscardReread, Discard, ProcessBegin, Process, Unlock, Goto, AfterGroup, flowVars
  <2> QED
    BY <2>1, <2>2
<1> QED
  BY <1>1, <1>2, <1>3 DEF ListsPaired, Pushing

\* A switch is under way only while there is a proc to switch to.
LEMMA TaskSwitch ==
  ASSUME ControlInv, NEW t \in Task, Step(t)
  PROVE  SwitchInv'
<1>1. TypeOK /\ SwitchInv
  BY DEF ControlInv
<1> USE MainIsTask
<1>2. CASE t # Main
  BY <1>1, <1>2, TaskFrame DEF SwitchInv
<1>3. CASE t = Main
  <2> USE <1>1, <1>3 DEF TypeOK, SwitchInv, Goto, fieldVars, AfterGroup
  <2>1. CASE Loop(t)
    BY <2>1 DEF Loop
  <2>2. CASE DisableBegin(t) \/ DisableEnd(t)
    BY <2>2 DEF DisableBegin, DisableEnd
  <2>3. CASE ~(Loop(t) \/ DisableBegin(t) \/ DisableEnd(t)) /\ ~FlagStep(t)
    <3>1. pc'[t] \notin {"assign", "disable", "disabling"}
      BY <2>3 DEF Step, FlagStep, OpenOk, OpenFail, SkipCallback, EnableBegin, EnableEnd, Assign,
                  Clear, GrabAndLock, GrabAndFail, NoGroup, DiscardRead, DiscardReread, Discard,
                  ProcessBegin, Process, Unlock, flowVars
    <3> QED
      BY <3>1
  <2>4. CASE FlagStep(t)
    <3>1. pc'[Main] \in {"flag", "flagMark", "erase", "eraseFlag", "process"}
      BY <2>4, FlagSteps
    <3> QED
      BY <3>1
  <2> QED
    BY <2>1, <2>2, <2>3, <2>4
<1> QED
  BY <1>2, <1>3

\* A task stays in process() while a call of its own is in progress.
LEMMA TaskCalling ==
  ASSUME ControlInv, NEW t \in Task, Step(t)
  PROVE  Calling'
<1>1. TypeOK /\ Calling
  BY DEF ControlInv
<1>2. api' = api /\ \A u \in Task \ {t} : pc'[u] = pc[u]
  BY <1>1, TaskFrame
<1>3. ~(pc[t] = "process" /\ api[t] # Idle)
  BY DEF Step, OpenOk, OpenFail, SkipCallback, EnableBegin, EnableEnd, DisableBegin, DisableEnd,
     Loop, Assign, Clear, GrabAndLock, GrabAndFail, NoGroup, DiscardRead, DiscardReread, Discard,
     ProcessBegin, FlagRead, FlagMark, FlagEnd, EraseCount, EraseFlag, EraseEnd, Process, Unlock
<1> QED
  BY <1>1, <1>2, <1>3, TasksAreCallers DEF Calling

-----------------------------------------------------------------------------
(* The invariant for any callers: the calls.                               *)

\* The tasks a call visits are tasks.
LEMMA VisitsTask ==
  ASSUME NEW i \in 1..Len(vGrabTasks)
  PROVE  vGrabTasks[i] \in Task /\ Len(vGrabTasks) \in Nat \ {0}
<1>1. Len(Tasks) \in Nat /\ Len(Tasks) > 0
  BY TaskAssumption, LenProperties
<1>2. CASE mode = "startMT"
  BY <1>1, <1>2 DEF vGrabTasks, Task
<1>3. CASE mode # "startMT"
  <2>1. vGrabTasks = <<Main>>
    BY <1>3 DEF vGrabTasks
  <2>2. Len(<<Main>>) = 1 /\ <<Main>>[1] = Main
    OBVIOUS
  <2> QED
    BY <2>1, <2>2, MainIsTask
<1> QED
  BY <1>2, <1>3

\* There is a list of tasks to visit.
LEMMA SomeTask == Len(vGrabTasks) \in Nat /\ Len(vGrabTasks) >= 1
<1>1. Len(Tasks) \in Nat /\ Len(Tasks) > 0
  BY TaskAssumption, LenProperties
<1> QED
  BY <1>1 DEF vGrabTasks

\* c's call becomes r, which has one of the forms of InCall and is of a kind that
\* c can make.
CallTo(c, r) ==
  /\ api' = [api EXCEPT ![c] = r]
  /\ r = [op |-> r.op, next |-> r.next, arg |-> r.arg]
  /\ r \in InCall(r.op)
  /\ \/ r.op \in {"idle", "activate", "isGrab", "flag"}
     \/ c = App /\ r.op \in {"stop", "join", "stopped"}
  /\ c \in Task => pc[c] = "process" \/ r = Idle
  /\ r.op \in {"activate", "isGrab", "flag"} => c \in Callers

\* Such a change keeps the calls well-formed, and the others' as they are.
LEMMA CallChange ==
  ASSUME CallsOK, Calling, UNCHANGED <<mode, pc>>, NEW c \in Caller, NEW r, CallTo(c, r)
  PROVE  CallsOK' /\ Calling' /\ api'[c] = r /\ \A d \in Caller \ {c} : api'[d] = api[d]
<1>1. api'[c] = r /\ (\A d \in Caller \ {c} : api'[d] = api[d]) /\ api' = [d \in Caller |-> api'[d]]
  BY DEF CallsOK, CallTo
<1> USE DEF CallTo
<1>2. vGrabTasks' = vGrabTasks
  BY DEF vGrabTasks
<1>3. ASSUME NEW d \in Caller
      PROVE  (api[d] \in InCall(api[d].op))'
  <2>1. api'[d] \in InCall(api'[d].op)
    BY <1>1 DEF CallsOK
  <2> QED
    BY <1>2, <2>1 DEF InCall
<1>4. CallsOK'
  <2>1. ASSUME NEW d \in Task PROVE api'[d].op \in {"idle", "activate", "isGrab", "flag"}
    BY <1>1, TasksAreCallers DEF CallsOK
  <2>2. api'[App].op \in {"idle", "activate", "isGrab", "flag", "stop", "join", "stopped"}
    BY <1>1, TasksAreCallers DEF CallsOK
  <2> QED
    BY <1>1, <1>3, <2>1, <2>2 DEF CallsOK
<1>5. Calling'
  BY <1>1 DEF Calling
<1> QED
  BY <1>1, <1>4, <1>5

\* The calls in progress stay well-formed, and each belongs to a thread that may
\* call.  The counts on their way change with the lists.
LEMMA ApiCalls ==
  ASSUME ControlInv, NEW c \in Caller, ApiAction(c)
  PROVE  /\ CallsOK' /\ Calling'
         /\ \/ Pushing' = Pushing /\ UNCHANGED <<frameFlag, frameFlagCount>>
            \/ /\ \E n \in 0..MaxCount : SetFrameFlag(c, n)
               /\ c \notin Pushing /\ Pushing' = Pushing \cup {c}
            \/ /\ SetFrameFlagCount(c)
               /\ c \in Pushing /\ Pushing' = Pushing \ {c}
<1>1. CallsOK /\ Calling /\ calls \in Nat
  BY DEF ControlInv, TypeOK
<1>2. UNCHANGED <<mode, pc>> /\ UNCHANGED vGrabTasks
  BY ApiFrame DEF flowVars
<1>3. 1 \in 1..Len(vGrabTasks) /\ Len(vGrabTasks) \in Nat
  BY SomeTask
<1>4. /\ api[c] \in InCall(api[c].op)
      /\ c \in Task => api[c].op \in {"idle", "activate", "isGrab", "flag"}
      /\ api[c].op \in {"idle", "activate", "isGrab", "flag", "stop", "join", "stopped"}
  BY <1>1 DEF CallsOK, Caller
<1>5. Idle \in InCall("idle")
  BY DEF Idle, InCall
<1>6. CASE (\E p \in Proc : SetActiveProc(c, p)) \/ (\E b \in BOOLEAN : SetIsGrab(c, b))
  <2>1. PICK op \in {"activate", "isGrab"}, a \in Proc \cup BOOLEAN :
             /\ op = "activate" => a \in Proc
             /\ op = "isGrab" => a \in BOOLEAN
             /\ Begin(c, op, a) /\ UNCHANGED <<frameFlag, frameFlagCount>>
    <3>1. CASE \E p \in Proc : SetActiveProc(c, p)
      BY <3>1 DEF SetActiveProc, flagVars, listVars
    <3>2. CASE \E b \in BOOLEAN : SetIsGrab(c, b)
      BY <3>2 DEF SetIsGrab, flagVars, listVars
    <3> QED
      BY <1>6, <3>1, <3>2
  <2>r. PICK r : r = [op |-> op, next |-> 1, arg |-> a]
    OBVIOUS
  <2>2. /\ api' = [api EXCEPT ![c] = r] /\ api[c] = Idle /\ c \in Callers
        /\ c \in Task => pc[c] = "process"
    BY <2>1, <2>r DEF Begin, MayCall
  <2>3. r.op = op /\ r = [op |-> r.op, next |-> r.next, arg |-> r.arg]
    BY <2>r
  <2>4. r \in InCall(r.op)
    BY <1>3, <2>1, <2>r, <2>3 DEF InCall
  <2>5. r.op \in {"activate", "isGrab"}
    BY <2>1, <2>3
  <2>a. /\ \/ r.op \in {"idle", "activate", "isGrab", "flag"}
           \/ c = App /\ r.op \in {"stop", "join", "stopped"}
        /\ c \in Task => pc[c] = "process" \/ r = Idle
        /\ r.op \in {"activate", "isGrab", "flag"} => c \in Callers
    BY <2>2, <2>5
  <2>t. CallTo(c, r)
    BY <2>2, <2>3, <2>4, <2>a DEF CallTo
  <2>6. CallsOK' /\ Calling' /\ api'[c] = r /\ \A d \in Caller \ {c} : api'[d] = api[d]
    BY <1>1, <1>2, <2>t, CallChange
  <2> QED
    BY <2>1, <2>2, <2>5, <2>6 DEF Pushing, Idle
<1>7. CASE Visit(c)
  <2>1. /\ api[c].op \in {"activate", "isGrab", "stop"} /\ Onward(c)
        /\ UNCHANGED <<frameFlag, frameFlagCount>>
    BY <1>7 DEF Visit, flagVars, listVars
  <2>2. api[c] = [op |-> api[c].op, next |-> api[c].next, arg |-> api[c].arg]
    BY <1>4 DEF InCall
  <2>3. api[c].next \in 1..Len(vGrabTasks) /\ api[c] # Idle
    BY <1>4, <2>1 DEF InCall, Idle
  <2>4. c \in Task => pc[c] = "process"
    BY <1>1, <2>3 DEF Calling
  <2>5. api[c].op = "stop" => c = App
    BY <1>4 DEF Caller
  <2>r. PICK r : r = IF api[c].next < Len(vGrabTasks)
                     THEN [op |-> api[c].op, next |-> api[c].next + 1, arg |-> api[c].arg]
                     ELSE [op |-> IF api[c].op = "stop" THEN "join" ELSE "idle",
                           next |-> 0, arg |-> Null]
    OBVIOUS
  <2>6. api' = [api EXCEPT ![c] = r]
    <3>1. [api[c] EXCEPT !.next = api[c].next + 1]
            = [op |-> api[c].op, next |-> api[c].next + 1, arg |-> api[c].arg]
      BY <2>2
    <3>2. [Idle EXCEPT !.op = "join"] = [op |-> "join", next |-> 0, arg |-> Null]
      BY DEF Idle
    <3>3. r = IF api[c].next < Len(vGrabTasks) THEN [api[c] EXCEPT !.next = api[c].next + 1]
              ELSE IF api[c].op = "stop" THEN [Idle EXCEPT !.op = "join"] ELSE Idle
      BY <2>r, <3>1, <3>2 DEF Idle
    <3>4. api' = [api EXCEPT ![c] = IF api[c].next < Len(vGrabTasks)
                                    THEN [api[c] EXCEPT !.next = api[c].next + 1]
                                    ELSE IF api[c].op = "stop" THEN [Idle EXCEPT !.op = "join"]
                                    ELSE Idle]
      BY <2>1 DEF Onward
    <3> QED
      BY <3>3, <3>4, Zenon
  <2>b. /\ r = [op |-> r.op, next |-> r.next, arg |-> r.arg] /\ r.op # "flag"
        /\ \/ r.op \in {"idle", "activate", "isGrab", "flag"}
           \/ c = App /\ r.op \in {"stop", "join", "stopped"}
        /\ r.op \in {"activate", "isGrab", "flag"} => r.op = api[c].op
    BY <2>1, <2>5, <2>r
  <2>c. r \in InCall(r.op)
    <3>1. CASE api[c].next < Len(vGrabTasks)
      BY <1>3, <1>4, <2>1, <2>3, <2>r, <3>1 DEF InCall
    <3>2. CASE ~(api[c].next < Len(vGrabTasks))
      BY <2>r, <3>2 DEF InCall
    <3> QED
      BY <3>1, <3>2
  <2>7. r.op \in {"activate", "isGrab", "flag"} => c \in Callers
    BY <1>1, <2>1, <2>b DEF Calling
  <2>t. CallTo(c, r)
    BY <2>4, <2>6, <2>7, <2>b, <2>c DEF CallTo
  <2>8. CallsOK' /\ Calling' /\ api'[c] = r /\ \A d \in Caller \ {c} : api'[d] = api[d]
    BY <1>1, <1>2, <2>t, CallChange
  <2> QED
    BY <2>1, <2>b, <2>8 DEF Pushing
<1>8. CASE \E n \in 0..MaxCount : DiscardFrame(c, n)
  <2>1. UNCHANGED <<api, frameFlag, frameFlagCount>>
    BY <1>8 DEF DiscardFrame, flagVars, listVars
  <2>2. CallsOK'
    BY <1>1, <1>2, <2>1, SameCalls
  <2>3. Calling' /\ Pushing' = Pushing
    BY <1>1, <1>2, <2>1 DEF Calling, Pushing
  <2> QED
    BY <2>1, <2>2, <2>3
<1>9. CASE \E n \in 0..MaxCount : SetFrameFlag(c, n)
  <2>1. PICK n \in 0..MaxCount : SetFrameFlag(c, n)
    BY <1>9
  <2>r. PICK r : r = [op |-> "flag", next |-> calls', arg |-> n]
    OBVIOUS
  <2>2. /\ api' = [api EXCEPT ![c] = r] /\ api[c] = Idle /\ c \in Callers
        /\ c \in Task => pc[c] = "process"
        /\ calls' = calls + 1 /\ calls < MaxCalls
    BY <2>1, <2>r DEF SetFrameFlag, MayCall
  <2>3. /\ r.op = "flag" /\ r = [op |-> r.op, next |-> r.next, arg |-> r.arg]
        /\ \/ r.op \in {"idle", "activate", "isGrab", "flag"}
           \/ c = App /\ r.op \in {"stop", "join", "stopped"}
        /\ c \in Task => pc[c] = "process" \/ r = Idle
        /\ r.op \in {"activate", "isGrab", "flag"} => c \in Callers
    BY <2>2, <2>r
  <2>4. r \in InCall(r.op)
    <3>1. calls' \in Flag /\ n \in Nat
      BY <1>1, <2>2, BoundAssumption DEF Flag
    <3> QED
      BY <2>r, <2>3, <3>1 DEF InCall
  <2>t. CallTo(c, r)
    BY <2>2, <2>3, <2>4 DEF CallTo
  <2>5. CallsOK' /\ Calling' /\ api'[c] = r /\ \A d \in Caller \ {c} : api'[d] = api[d]
    BY <1>1, <1>2, <2>t, CallChange
  <2>6. c \notin Pushing /\ Pushing' = Pushing \cup {c}
    BY <2>2, <2>3, <2>5 DEF Pushing, Idle
  <2> QED
    BY <1>9, <2>5, <2>6
<1>10. CASE SetFrameFlagCount(c)
  <2>r. PICK r : r = Idle
    OBVIOUS
  <2>1. api' = [api EXCEPT ![c] = r] /\ api[c].op = "flag"
    BY <1>10, <2>r DEF SetFrameFlagCount
  <2>2. r.op = "idle" /\ r = [op |-> r.op, next |-> r.next, arg |-> r.arg]
    BY <2>r DEF Idle
  <2>a. /\ r \in InCall(r.op)
        /\ \/ r.op \in {"idle", "activate", "isGrab", "flag"}
           \/ c = App /\ r.op \in {"stop", "join", "stopped"}
        /\ c \in Task => pc[c] = "process" \/ r = Idle
        /\ r.op \in {"activate", "isGrab", "flag"} => c \in Callers
    BY <1>5, <2>r, <2>2
  <2>t. CallTo(c, r)
    BY <2>1, <2>2, <2>a DEF CallTo
  <2>3. CallsOK' /\ Calling' /\ api'[c] = r /\ \A d \in Caller \ {c} : api'[d] = api[d]
    BY <1>1, <1>2, <2>t, CallChange
  <2>4. c \in Pushing /\ Pushing' = Pushing \ {c}
    BY <2>1, <2>2, <2>3 DEF Pushing
  <2> QED
    BY <1>10, <2>3, <2>4
<1>11. CASE c = App /\ (Stop \/ Join)
  <2>1. PICK op \in {"stop", "stopped"} :
             /\ api' = [api EXCEPT ![c] = [op |-> op, next |-> IF op = "stop" THEN 1 ELSE 0,
                                           arg |-> Null]]
             /\ api[c].op # "flag" /\ UNCHANGED <<frameFlag, frameFlagCount>>
    BY <1>11 DEF Stop, Join, Idle, flagVars, listVars
  <2> DEFINE r == [op |-> op, next |-> IF op = "stop" THEN 1 ELSE 0, arg |-> Null]
  <2>2. r.op = op /\ r = [op |-> r.op, next |-> r.next, arg |-> r.arg]
    OBVIOUS
  <2>3. r \in InCall(r.op)
    BY <1>3, <2>2 DEF InCall
  <2>4. api' = [api EXCEPT ![c] = r] /\ c \notin Task /\ r.op \in {"stop", "stopped"}
    BY <1>11, <2>1, <2>2, TasksAreCallers
  <2> HIDE DEF r
  <2>t. CallTo(c, r)
    BY <1>11, <2>2, <2>3, <2>4 DEF CallTo
  <2>5. CallsOK' /\ Calling' /\ api'[c] = r /\ \A d \in Caller \ {c} : api'[d] = api[d]
    BY <1>1, <1>2, <2>t, CallChange
  <2> QED
    BY <2>1, <2>4, <2>5 DEF Pushing
<1> QED
  BY <1>6, <1>7, <1>8, <1>9, <1>10, <1>11 DEF ApiAction

\* A call keeps the types and the pairing of the lists, and never empties a
\* _nextProc.
LEMMA ApiControl ==
  ASSUME ControlInv, NEW c \in Caller, ApiAction(c)
  PROVE  TypeOK' /\ SwitchInv' /\ Calling' /\ ListsPaired'
<1>1. TypeOK /\ SwitchInv /\ ListsPaired
  BY DEF ControlInv
<1>2. /\ UNCHANGED <<mode, lock, pc, switching, second, proc, counted, at, seen, marked, enabled>>
      /\ UNCHANGED vGrabTasks
  BY ApiFrame DEF flowVars
<1>3. CallsOK' /\ Calling'
  BY ApiCalls
<1>4. /\ isRun' \in [Task -> BOOLEAN] /\ isGrab' \in [Task -> BOOLEAN]
      /\ nextProc' \in [Task -> Proc \cup {Null}]
      /\ nextProc[Main] # Null => nextProc'[Main] # Null
  <2>1. CASE Visit(c)
    <3>1. api[c] \in InCall(api[c].op) /\ api[c].op \in {"activate", "isGrab", "stop"}
      BY <1>1, <2>1 DEF TypeOK, CallsOK, Visit
    <3>2. /\ api[c].next \in 1..Len(vGrabTasks)
          /\ api[c].op = "activate" => api[c].arg \in Proc
          /\ api[c].op = "isGrab" => api[c].arg \in BOOLEAN
      BY <3>1 DEF InCall
    <3>3. PICK t \in Task : t = vGrabTasks[api[c].next]
      BY <3>2, VisitsTask
    <3>4. /\ nextProc' = IF api[c].op = "activate" THEN [nextProc EXCEPT ![t] = api[c].arg] ELSE nextProc
          /\ isGrab' = IF api[c].op = "isGrab" THEN [isGrab EXCEPT ![t] = api[c].arg] ELSE isGrab
          /\ isRun' = IF api[c].op = "stop" THEN [isRun EXCEPT ![t] = FALSE] ELSE isRun
      BY <2>1, <3>3 DEF Visit
    <3>5. nextProc[Main] # Null => nextProc'[Main] # Null
      BY <1>1, <3>2, <3>4, MainIsTask, ProcAssumption DEF TypeOK
    <3>6. isGrab' \in [Task -> BOOLEAN]
      BY <1>1, <3>2, <3>4 DEF TypeOK
    <3>7. isRun' \in [Task -> BOOLEAN] /\ nextProc' \in [Task -> Proc \cup {Null}]
      BY <1>1, <3>2, <3>4 DEF TypeOK
    <3> QED
      BY <3>5, <3>6, <3>7
  <2>2. CASE ~Visit(c)
    <3>1. UNCHANGED <<isRun, isGrab, nextProc>>
      BY <2>2 DEF ApiAction, SetActiveProc, SetIsGrab, DiscardFrame, SetFrameFlag,
         SetFrameFlagCount, Stop, Join, fieldVars
    <3> QED
      BY <1>1, <3>1 DEF TypeOK
  <2> QED
    BY <2>1, <2>2
<1>5. SwitchInv'
  BY <1>1, <1>2, <1>4 DEF SwitchInv
<1>6. activeProc' \in Proc
  BY <1>1 DEF ApiAction, SetActiveProc, SetIsGrab, DiscardFrame, SetFrameFlag, SetFrameFlagCount,
     Stop, Join, Visit, TypeOK
<1>7. calls' \in Nat
  BY <1>1 DEF ApiAction, SetActiveProc, SetIsGrab, DiscardFrame, SetFrameFlag, SetFrameFlagCount,
     Stop, Join, Visit, Begin, MayCall, TypeOK
<1>8. discardFrameCount' \in [Task -> Int] /\ owed' \in Nat
  <2>1. CASE \E n \in 0..MaxCount : DiscardFrame(c, n)
    <3>1. PICK n \in 0..MaxCount : DiscardFrame(c, n)
      BY <2>1
    <3>2. n \in Nat /\ owed' = n /\ discardFrameCount' = [discardFrameCount EXCEPT ![Main] = n]
      BY <3>1, BoundAssumption DEF DiscardFrame
    <3>3. discardFrameCount \in [Task -> Int]
      BY <1>1 DEF TypeOK
    <3>4. n \in Int /\ owed' \in Nat
      BY <3>2
    <3>5. discardFrameCount' \in [Task -> Int]
      BY <3>2, <3>3, <3>4, MainIsTask
    <3> QED
      BY <3>4, <3>5
  <2>2. CASE ~ \E n \in 0..MaxCount : DiscardFrame(c, n)
    <3>1. UNCHANGED <<discardFrameCount, owed>>
      BY <2>2 DEF ApiAction, SetActiveProc, SetIsGrab, SetFrameFlag, SetFrameFlagCount, Stop, Join,
         Visit, countVars
    <3> QED
      BY <1>1, <3>1 DEF TypeOK
  <2> QED
    BY <2>1, <2>2
<1>9. /\ frameFlag' \in Seq(Flag) /\ frameFlagCount' \in Seq(Int) /\ asked' \in [Flag -> Nat]
      /\ Len(frameFlag') >= Len(frameFlag) /\ ListsPaired'
  <2>1. /\ Len(frameFlag) \in Nat /\ Len(frameFlagCount) \in Nat
        /\ IsFiniteSet(Pushing) /\ Cardinality(Pushing) \in Nat
        /\ frameFlag \in Seq(Flag) /\ frameFlagCount \in Seq(Int) /\ asked \in [Flag -> Nat]
    BY <1>1, Lengths DEF TypeOK
  <2>2. CASE \E n \in 0..MaxCount : SetFrameFlag(c, n)
    <3>1. PICK n \in 0..MaxCount : SetFrameFlag(c, n)
      BY <2>2
    <3>2. /\ frameFlag' = Append(frameFlag, calls') /\ frameFlagCount' = frameFlagCount
          /\ asked' = [asked EXCEPT ![calls'] = n] /\ calls' = calls + 1 /\ calls < MaxCalls
          /\ api[c] = Idle /\ api'[c].op = "flag"
      BY <1>1, <3>1 DEF SetFrameFlag, MayCall, TypeOK, CallsOK
    <3>3. calls' \in Flag /\ n \in Nat
      BY <1>1, <3>2, BoundAssumption DEF Flag, TypeOK
    <3>4. frameFlag' \in Seq(Flag) /\ Len(frameFlag') = Len(frameFlag) + 1
      BY <2>1, <3>2, <3>3, AppendProperties
    <3>5. asked' \in [Flag -> Nat]
      BY <2>1, <3>2, <3>3
    <3>6. c \notin Pushing /\ c \in Pushing'
      BY <3>2 DEF Pushing, Idle
    <3>7. Pushing' = Pushing \cup {c}
      BY <3>6, ApiCalls
    <3>8. Cardinality(Pushing') = Cardinality(Pushing) + 1
      BY <2>1, <3>6, <3>7, FS_AddElement
    <3>9. ListsPaired'
      BY <1>1, <1>2, <2>1, <3>2, <3>4, <3>8 DEF ListsPaired
    <3> QED
      BY <2>1, <3>2, <3>4, <3>5, <3>9
  <2>3. CASE SetFrameFlagCount(c)
    <3>1. /\ frameFlagCount' = Append(frameFlagCount, api[c].arg) /\ frameFlag' = frameFlag
          /\ asked' = asked /\ api[c].op = "flag" /\ api' = [api EXCEPT ![c] = Idle]
      BY <2>3 DEF SetFrameFlagCount
    <3>2. api[c].arg \in Int
      BY <1>1, <3>1 DEF TypeOK, CallsOK, InCall
    <3>3. frameFlagCount' \in Seq(Int) /\ Len(frameFlagCount') = Len(frameFlagCount) + 1
      BY <2>1, <3>1, <3>2, AppendProperties
    <3>4. c \in Pushing /\ c \notin Pushing'
      BY <1>1, <3>1 DEF Pushing, TypeOK, CallsOK, Idle
    <3>5. Pushing' = Pushing \ {c}
      BY <3>4, ApiCalls
    <3>6. Cardinality(Pushing') = Cardinality(Pushing) - 1
      BY <2>1, <3>4, <3>5, FS_RemoveElement
    <3>7. ListsPaired'
      BY <1>1, <1>2, <2>1, <3>1, <3>3, <3>6 DEF ListsPaired
    <3> QED
      BY <2>1, <3>1, <3>3, <3>7
  <2>4. CASE ~(\E n \in 0..MaxCount : SetFrameFlag(c, n)) /\ ~SetFrameFlagCount(c)
    <3>1. UNCHANGED <<frameFlag, frameFlagCount>> /\ asked' = asked
      BY <2>4 DEF ApiAction, SetActiveProc, SetIsGrab, DiscardFrame, Stop, Join, Visit, flagVars,
         listVars
    <3>2. Pushing' = Pushing
      BY <2>4, ApiCalls
    <3> QED
      BY <1>1, <1>2, <2>1, <3>1, <3>2 DEF ListsPaired
  <2> QED
    BY <2>2, <2>3, <2>4
<1>10. pc'[Main] \in {"flagMark", "eraseFlag"} => at' <= Len(frameFlag')
  <2>1. at \in Nat /\ Len(frameFlag) \in Nat /\ Len(frameFlag') \in Nat
    BY <1>1, <1>9, LenProperties DEF TypeOK
  <2> QED
    BY <1>1, <1>2, <1>9, <2>1 DEF TypeOK
<1> QED
  BY <1>1, <1>2, <1>3, <1>4, <1>5, <1>6, <1>7, <1>8, <1>9, <1>10 DEF TypeOK

-----------------------------------------------------------------------------
(* The theorems for any callers.                                           *)

\* The invariant holds at the start.
LEMMA InitControl == Init => ControlInv
<1> SUFFICES ASSUME Init
             PROVE  ControlInv
  OBVIOUS
<1>1. activeProc \in Proc
  BY ProcAssumption DEF Init
<1>2. <<>> \in Seq(Flag) /\ <<>> \in Seq(Int) /\ Len(<<>>) = 0
  OBVIOUS
<1>3. CallsOK /\ Calling
  BY CallerAssumption DEF Init, CallsOK, Calling, InCall, Idle, Caller
<1>4. TypeOK
  BY <1>1, <1>2, <1>3, ModeAssumption, MainIsTask DEF Init, TypeOK, Labels
<1>5. LockHeld /\ MainOnly /\ EnabledHere
  BY InitLock DEF LockInv
<1>6. SwitchInv
  BY MainIsTask DEF Init, SwitchInv
<1>7. ListsPaired
  <2>1. Pushing = {}
    BY DEF Init, Pushing, Idle
  <2>2. pc[Main] # "eraseFlag"
    BY MainIsTask DEF Init
  <2>3. Cardinality(Pushing) = 0
    BY <2>1, FS_EmptySet
  <2> QED
    BY <1>2, <2>2, <2>3 DEF Init, ListsPaired
<1> QED
  BY <1>3, <1>4, <1>5, <1>6, <1>7 DEF ControlInv

\* Every step keeps it.
LEMMA StepControl == ControlInv /\ [Next]_vars => ControlInv'
<1>1. ASSUME ControlInv, UNCHANGED vars
      PROVE  ControlInv'
  <2> USE DEF vars, flowVars, fieldVars, countVars, flagVars, listVars, apiVars
  <2>1. TypeOK'
    <3>1. CallsOK'
      BY <1>1, SameCalls DEF ControlInv, TypeOK
    <3> QED
      BY <1>1, <3>1 DEF ControlInv, TypeOK
  <2>2. LockHeld' /\ MainOnly' /\ EnabledHere' /\ SwitchInv' /\ Calling'
    BY <1>1 DEF ControlInv, LockHeld, MainOnly, EnabledHere, SwitchInv, Calling
  <2>3. Pushing' = Pushing
    BY <1>1 DEF Pushing
  <2>4. ListsPaired'
    BY <1>1, <2>3 DEF ControlInv, ListsPaired
  <2> QED
    BY <2>1, <2>2, <2>4 DEF ControlInv
<1>2. ASSUME ControlInv
      PROVE  LockInv
  BY <1>2 DEF ControlInv, TypeOK, LockInv, ControlTypes
<1>3. ASSUME ControlInv, NEW t \in Task, Step(t)
      PROVE  ControlInv'
  <2>1. LockInv'
    BY <1>2, <1>3, TaskLock
  <2>2. TypeOK' /\ ListsPaired'
    BY <1>3, TaskType, FlagType, TaskPaired
  <2>3. SwitchInv' /\ Calling'
    BY <1>3, TaskSwitch, TaskCalling
  <2> QED
    BY <2>1, <2>2, <2>3 DEF ControlInv, LockInv
<1>4. ASSUME ControlInv, Api
      PROVE  ControlInv'
  <2>1. LockInv'
    BY <1>2, <1>4, ApiLock
  <2>2. PICK c \in Caller : ApiAction(c)
    BY <1>4, ApiCases
  <2>3. TypeOK' /\ SwitchInv' /\ Calling' /\ ListsPaired'
    BY <1>4, <2>2, ApiControl
  <2> QED
    BY <2>1, <2>3 DEF ControlInv, LockInv
<1> QED
  BY <1>1, <1>3, <1>4 DEF Next, Api

\* The inductive invariant for any number of tasks, procs and calls, whoever
\* calls.
THEOREM Invariance == Spec => []ControlInv
BY InitControl, StepControl, PTL DEF Spec

\* Type correctness: the loops over the flags stay on what they use, also beside
\* a setFrameFlag of another thread.
THEOREM TypeCorrect == Spec => []TypeOK
<1>1. ControlInv => TypeOK
  BY DEF ControlInv
<1> QED
  BY <1>1, Invariance, PTL

\* lockGetImage keeps the callbacks of a FrameProc apart, for any number of
\* tasks.
THEOREM CallbacksStayApart == Spec => []CallbacksApart
<1>1. ControlInv => CallbacksApart
  <2>1. ASSUME ControlInv, NEW t \in Task, NEW u \in Task,
               pc[t] \in {"enabling", "disabling", "process", "sleep"},
               pc[u] \in {"enabling", "disabling", "process", "sleep"}
        PROVE  t = u
    <3>1. CASE mode = "startMT"
      BY <2>1, <3>1 DEF ControlInv, LockHeld, Locked
    <3>2. CASE mode = "start"
      BY <2>1, <3>2 DEF ControlInv, LockHeld
    <3>3. QED
      BY <2>1, <3>1, <3>2 DEF ControlInv, TypeOK
  <2>2. QED
    BY <2>1 DEF CallbacksApart
<1>2. QED
  BY <1>1, Invariance, PTL

\* The main task gives frames only to a proc that is enabled.
THEOREM MainProcessesEnabled == Spec => []MainOnlyEnabledProcess
<1>1. ControlInv => MainOnlyEnabledProcess
  BY DEF ControlInv, EnabledHere, WhileEnabled, Locked, MainOnlyEnabledProcess
<1>2. QED
  BY <1>1, Invariance, PTL

\* At most one proc is enabled, and none when the main task has returned.
THEOREM Balance == Spec => []EnableBalanced
<1>1. ControlInv => EnableBalanced
  <2>1. ASSUME ControlInv
        PROVE  Cardinality(enabled) <= 1
    <3>1. CASE enabled = {}
      BY <3>1, FS_EmptySet
    <3>2. CASE enabled = {proc[Main]}
      <4>1. Cardinality({proc[Main]}) = 1
        BY FS_Singleton, Zenon
      <4>2. QED
        BY <3>2, <4>1
    <3>3. QED
      BY <2>1, <3>1, <3>2 DEF ControlInv, EnabledHere
  <2>2. QED
    BY <2>1 DEF ControlInv, EnabledHere, WhileEnabled, Locked, EnableBalanced
<1>2. QED
  BY <1>1, Invariance, PTL

-----------------------------------------------------------------------------
(* Calls from inside process() only: the counter and the switch.           *)

\* A thread that calls, or is in a call other than stop(), is a task in
\* process(): no other task is in the locked part, so no other makes a call; and
\* in a session of one task it is the main one.
LEMMA InProcess ==
  ASSUME ControlInv, Callers \subseteq Task, NEW c \in Caller,
         MayCall(c) \/ api[c].op \in {"activate", "isGrab", "flag"}
  PROVE  /\ c \in Task /\ pc[c] = "process"
         /\ mode = "start" => c = Main
         /\ pc[Main] \in Locked => c = Main
         /\ \A d \in Caller : api[d].op \in {"activate", "isGrab", "flag"} => d = c
<1>1. LockHeld /\ Calling /\ mode \in {"start", "startMT"} /\ Main \in Task
  BY MainIsTask DEF ControlInv, TypeOK
<1>2. ASSUME NEW d \in Caller, api[d].op \in {"activate", "isGrab", "flag"}
      PROVE  d \in Task /\ pc[d] = "process"
  BY <1>1, <1>2 DEF Calling, Idle
<1>3. c \in Task /\ pc[c] = "process"
  BY <1>2 DEF MayCall
<1>4. ASSUME NEW t \in Task, pc[t] \in Locked
      PROVE  t = c
  BY <1>1, <1>3, <1>4 DEF LockHeld, Locked
<1>5. "process" \in Locked
  BY DEF Locked
<1>6. mode = "start" => c = Main
  BY <1>1, <1>3 DEF LockHeld
<1> QED
  BY <1>1, <1>2, <1>3, <1>4, <1>5, <1>6

\* A step of the one task keeps the counter at what is owed.
LEMMA TaskDiscard ==
  ASSUME ControlInv, DiscardInv, NEW t \in Task, Step(t)
  PROVE  DiscardInv'
<1> USE MainIsTask
<1>1. TypeOK /\ LockHeld
  BY DEF ControlInv
<1>2. SUFFICES ASSUME mode = "start"
               PROVE  DiscardInv'
  BY <1>1, TaskFrame DEF DiscardInv
<1>3. t = Main /\ mode' = mode
  BY <1>1, <1>2, TaskFrame DEF LockHeld
<1>4. /\ pc \in [Task -> Labels] /\ discardFrameCount \in [Task -> Int] /\ counted \in [Task -> Int]
      /\ owed \in Nat
      /\ pc[Main] = "discard" => counted[Main] = discardFrameCount[Main] /\ counted[Main] > 0
      /\ owed = discardFrameCount[Main] - (IF pc[Main] = "discard" THEN 1 ELSE 0)
  BY <1>1, <1>2 DEF TypeOK, DiscardInv
<1>5. CASE DiscardRead(t)
  <2>1. /\ pc[Main] = "getImage" /\ pc'[Main] = "discard" /\ discardFrameCount[Main] > 0
        /\ counted'[Main] = discardFrameCount[Main] /\ discardFrameCount' = discardFrameCount
        /\ owed' = (IF owed > 0 THEN owed - 1 ELSE 0)
    BY <1>3, <1>4, <1>5 DEF DiscardRead, Goto
  <2> QED
    BY <1>2, <1>3, <1>4, <2>1 DEF DiscardInv
<1>6. CASE DiscardReread(t)
  <2>1. /\ pc[Main] = "discard" /\ pc' = pc /\ discardFrameCount' = discardFrameCount
        /\ counted'[Main] = discardFrameCount[Main] /\ owed' = owed
    BY <1>3, <1>4, <1>6 DEF DiscardReread, flowVars
  <2> QED
    BY <1>2, <1>3, <1>4, <2>1 DEF DiscardInv
<1>7. CASE Discard(t)
  <2>1. /\ pc[Main] = "discard" /\ pc'[Main] # "discard" /\ owed' = owed
        /\ discardFrameCount'[Main] = counted[Main] - 1
    BY <1>3, <1>4, <1>7 DEF Discard, AfterGroup, Goto
  <2> QED
    BY <1>2, <1>3, <1>4, <2>1 DEF DiscardInv
<1>8. CASE ProcessBegin(t)
  <2>1. /\ pc[Main] = "getImage" /\ pc'[Main] = "flag" /\ discardFrameCount[Main] <= 0
        /\ discardFrameCount' = discardFrameCount
        /\ owed' = (IF owed > 0 THEN owed - 1 ELSE 0)
    BY <1>3, <1>4, <1>8 DEF ProcessBegin, Goto
  <2> QED
    BY <1>2, <1>3, <1>4, <2>1 DEF DiscardInv
<1>9. CASE ~(DiscardRead(t) \/ DiscardReread(t) \/ Discard(t) \/ ProcessBegin(t))
  <2>1. /\ pc[Main] # "discard" /\ pc'[Main] # "discard"
        /\ UNCHANGED <<discardFrameCount, owed>>
    <3>1. CASE FlagStep(t)
      BY <3>1, <1>3, FlagSteps DEF countVars
    <3>2. CASE ~FlagStep(t)
      BY <1>3, <1>4, <1>9, <3>2 DEF FlagStep, Step, OpenOk, OpenFail, SkipCallback, EnableBegin,
         EnableEnd, DisableBegin, DisableEnd, Loop, Assign, Clear, GrabAndLock, GrabAndFail, NoGroup,
         Process, Unlock, countVars, Goto, AfterGroup
    <3> QED
      BY <3>1, <3>2
  <2> QED
    BY <1>2, <1>3, <1>4, <2>1 DEF DiscardInv
<1> QED
  BY <1>5, <1>6, <1>7, <1>8, <1>9

\* A step of the one task runs what setActiveProc chose, or has it still to run.
LEMMA TaskActive ==
  ASSUME ControlInv, ActiveInv, NEW t \in Task, Step(t)
  PROVE  ActiveInv'
<1> USE MainIsTask
<1>1. TypeOK /\ LockHeld /\ SwitchInv /\ Calling
  BY DEF ControlInv
<1>2. SUFFICES ASSUME mode = "start"
               PROVE  ActiveInv'
  BY <1>1, TaskFrame DEF ActiveInv
<1>3. t = Main /\ UNCHANGED <<mode, api, activeProc>>
  BY <1>1, <1>2, TaskFrame DEF LockHeld
<1>4. pc[Main] # "process" => api[Main].op # "activate"
  BY <1>1, TasksAreCallers DEF Calling, Idle
<1>5. CASE Assign(t)
  <2>1. /\ pc[Main] = "assign" /\ proc'[Main] = nextProc[Main] /\ nextProc' = nextProc
        /\ nextProc[Main] # Null
    BY <1>1, <1>3, <1>5 DEF Assign, TypeOK, SwitchInv
  <2> QED
    BY <1>2, <1>3, <1>4, <2>1 DEF ActiveInv
<1>6. CASE Clear(t)
  <2>1. pc[Main] = "clear" /\ pc'[Main] = "enable" /\ proc' = proc /\ nextProc'[Main] = Null
    BY <1>1, <1>3, <1>6 DEF Clear, Goto, TypeOK
  <2> QED
    BY <1>2, <1>3, <1>4, <2>1 DEF ActiveInv
<1>7. CASE ~(Assign(t) \/ Clear(t))
  <2>1. pc'[Main] # "clear" /\ UNCHANGED <<proc, nextProc>>
    <3>1. CASE FlagStep(t)
      BY <3>1, <1>3, FlagSteps DEF fieldVars
    <3>2. CASE ~FlagStep(t)
      BY <1>1, <1>3, <1>7, <3>2 DEF FlagStep, Step, OpenOk, OpenFail, SkipCallback, EnableBegin,
         EnableEnd, DisableBegin, DisableEnd, Loop, GrabAndLock, GrabAndFail, NoGroup, DiscardRead,
         DiscardReread, Discard, ProcessBegin, Process, Unlock, fieldVars, Goto, AfterGroup, TypeOK,
         flowVars
    <3> QED
      BY <3>1, <3>2
  <2> QED
    BY <1>2, <1>3, <2>1 DEF ActiveInv
<1> QED
  BY <1>5, <1>6, <1>7

\* So do the calls: the one task that makes them is in process().
LEMMA ApiCount ==
  ASSUME ControlInv, DiscardInv, ActiveInv, Callers \subseteq Task, NEW c \in Caller, ApiAction(c)
  PROVE  DiscardInv' /\ ActiveInv'
<1> USE MainIsTask
<1>1. TypeOK /\ LockHeld
  BY DEF ControlInv
<1>2. UNCHANGED <<mode, pc, proc, counted>> /\ Main \in Caller
  BY ApiFrame, TasksAreCallers DEF flowVars
<1>3. SUFFICES ASSUME mode = "start"
               PROVE  DiscardInv' /\ ActiveInv'
  BY <1>2 DEF DiscardInv, ActiveInv
<1>4. DiscardInv'
  <2>1. CASE \E n \in 0..MaxCount : DiscardFrame(c, n)
    <3>1. PICK n \in 0..MaxCount : DiscardFrame(c, n)
      BY <2>1
    <3>2. pc[Main] = "process"
      BY <1>3, <3>1, InProcess DEF DiscardFrame
    <3>3. discardFrameCount'[Main] = n /\ owed' = n
      BY <1>1, <3>1 DEF DiscardFrame, TypeOK
    <3> QED
      BY <1>2, <3>2, <3>3, BoundAssumption DEF DiscardInv
  <2>2. CASE ~ \E n \in 0..MaxCount : DiscardFrame(c, n)
    <3>1. UNCHANGED <<discardFrameCount, owed>>
      BY <2>2 DEF ApiAction, SetActiveProc, SetIsGrab, SetFrameFlag, SetFrameFlagCount, Stop, Join,
         Visit, countVars
    <3> QED
      BY <1>2, <3>1 DEF DiscardInv
  <2> QED
    BY <2>1, <2>2
<1>5. ActiveInv'
  <2>1. CASE \E p \in Proc : SetActiveProc(c, p)
    <3>1. PICK p \in Proc : SetActiveProc(c, p)
      BY <2>1
    <3>2. c = Main /\ pc[Main] = "process"
      BY <1>3, <3>1, InProcess DEF SetActiveProc, Begin
    <3>3. api'[Main].op = "activate" /\ api'[Main].arg = p /\ activeProc' = p
      BY <1>1, <1>2, <3>1, <3>2 DEF SetActiveProc, Begin, TypeOK, CallsOK
    <3> QED
      BY <1>2, <3>2, <3>3 DEF ActiveInv
  <2>2. CASE Visit(c) /\ api[c].op = "activate"
    <3>1. c = Main /\ pc[Main] = "process"
      BY <1>3, <2>2, InProcess
    <3>2. vGrabTasks = <<Main>> /\ Len(vGrabTasks) = 1 /\ vGrabTasks[1] = Main
      BY <1>3 DEF vGrabTasks
    <3>3. api[Main] \in InCall("activate")
      BY <1>1, <1>2, <2>2, <3>1 DEF TypeOK, CallsOK
    <3>4. api[Main].next = 1 /\ api[Main].arg \in Proc
      BY <3>2, <3>3 DEF InCall
    <3>5. nextProc'[Main] = api[Main].arg /\ activeProc' = activeProc
      BY <1>1, <2>2, <3>1, <3>2, <3>4 DEF Visit, TypeOK
    <3>6. api' = [api EXCEPT ![Main] = Idle]
      BY <2>2, <3>1, <3>2, <3>4 DEF Visit, Onward
    <3>7. api'[Main].op = "idle"
      BY <1>1, <1>2, <3>6 DEF Idle, TypeOK, CallsOK
    <3> QED
      BY <1>2, <1>3, <2>2, <3>1, <3>4, <3>5, <3>7, ProcAssumption DEF ActiveInv
  <2>3. CASE /\ ~ \E p \in Proc : SetActiveProc(c, p)
             /\ ~ (Visit(c) /\ api[c].op = "activate")
    <3>1. UNCHANGED <<activeProc, nextProc>>
      BY <2>3 DEF ApiAction, SetActiveProc, SetIsGrab, SetFrameFlag, SetFrameFlagCount, Stop, Join,
         DiscardFrame, Visit, fieldVars
    <3>2. (api[c].op # "activate" /\ api'[c].op # "activate") \/ api' = api
      <4> USE <1>1 DEF TypeOK, CallsOK, Idle
      <4>1. CASE Visit(c)
        <5>1. api[c].op \in {"isGrab", "stop"} /\ api[c] \in InCall(api[c].op) /\ Onward(c)
          BY <2>3, <4>1 DEF Visit
        <5>2. PICK r : r = IF api[c].next < Len(vGrabTasks)
                           THEN [api[c] EXCEPT !.next = api[c].next + 1]
                           ELSE IF api[c].op = "stop" THEN [Idle EXCEPT !.op = "join"] ELSE Idle
          OBVIOUS
        <5>3. api' = [api EXCEPT ![c] = r]
          BY <5>1, <5>2 DEF Onward
        <5>4. r.op # "activate"
          BY <5>1, <5>2 DEF InCall
        <5> QED
          BY <5>1, <5>3, <5>4
      <4>2. CASE c = App /\ (Stop \/ Join)
        BY <2>3, <4>2 DEF Stop, Join
      <4>3. CASE ~Visit(c) /\ ~(c = App /\ (Stop \/ Join))
        BY <2>3, <4>3 DEF ApiAction, SetActiveProc, SetIsGrab, SetFrameFlag, SetFrameFlagCount,
           DiscardFrame, Begin, MayCall
      <4> QED
        BY <4>1, <4>2, <4>3
    <3>3. CASE c = Main
      BY <1>2, <3>1, <3>2, <3>3 DEF ActiveInv
    <3>4. CASE c # Main
      <4>1. api'[Main] = api[Main]
        BY <1>1, <1>2, <3>4 DEF ApiAction, SetActiveProc, SetIsGrab, SetFrameFlag,
           SetFrameFlagCount, Stop, Join, DiscardFrame, Begin, Visit, Onward, TypeOK, CallsOK
      <4> QED
        BY <1>2, <3>1, <4>1 DEF ActiveInv
    <3> QED
      BY <3>3, <3>4
  <2> QED
    BY <2>1, <2>2, <2>3
<1> QED
  BY <1>4, <1>5

-----------------------------------------------------------------------------
(* Calls from inside process() only: the flags.                            *)

\* While the main task is in the locked part outside process(), nobody sets a
\* flag, and the two lists are paired.
LEMMA NobodyPushes ==
  ASSUME ControlInv, Callers \subseteq Task, pc[Main] \in Locked, pc[Main] # "process"
  PROVE  /\ Pushing = {}
         /\ pc[Main] # "eraseFlag" => Len(frameFlag) = Len(frameFlagCount)
         /\ pc[Main] = "eraseFlag" => Len(frameFlag) = Len(frameFlagCount) + 1
<1>1. ASSUME NEW c \in Pushing
      PROVE  FALSE
  BY <1>1, InProcess DEF Pushing
<1>2. Pushing = {}
  BY <1>1
<1>3. Cardinality(Pushing) = 0
  BY <1>2, FS_EmptySet
<1>4. Len(frameFlag) \in Nat /\ Len(frameFlagCount) \in Nat
  BY Lengths DEF ControlInv
<1> QED
  BY <1>2, <1>3, <1>4 DEF ControlInv, ListsPaired

\* A step outside of the flags keeps what they have marked.
LEMMA TaskFlag ==
  ASSUME ControlInv, FlagInv, NEW t \in Task, Step(t), ~FlagStep(t)
  PROVE  FlagInv'
<1>1. TypeOK
  BY DEF ControlInv
<1>2. UNCHANGED <<frameFlag, frameFlagCount, at, seen, asked, marked, api, calls>>
  BY <1>1, TaskFrame DEF flagVars, listVars
<1>3. /\ pc'[Main] = "eraseFlag" <=> pc[Main] = "eraseFlag"
      /\ pc'[Main] = "flagMark" <=> pc[Main] = "flagMark"
  <2> USE MainIsTask
  <2>1. CASE t # Main
    BY <1>1, <2>1, TaskFrame
  <2>2. CASE t = Main
    BY <1>1, <2>2 DEF TypeOK, Step, FlagStep, OpenOk, OpenFail, SkipCallback, EnableBegin, EnableEnd,
       DisableBegin, DisableEnd, Loop, Assign, Clear, GrabAndLock, GrabAndFail, NoGroup, DiscardRead,
       DiscardReread, Discard, ProcessBegin, Process, Unlock, Goto, AfterGroup, flowVars
  <2> QED
    BY <2>1, <2>2
<1>4. Listed' = Listed /\ Pushing' = Pushing
  BY <1>2, <1>3 DEF Listed, Pushing
<1> QED
  BY <1>2, <1>3, <1>4 DEF FlagInv

\* A step through the flags: what a flag has marked and has still to mark stay
\* together what it was set for.
LEMMA FlagsStep ==
  ASSUME ControlInv, FlagInv, Callers \subseteq Task, NEW t \in Task, FlagStep(t)
  PROVE  FlagInv'
<1>1. /\ t = Main /\ TypeOK
      /\ pc[Main] \in {"flag", "flagMark", "erase", "eraseFlag"}
      /\ UNCHANGED <<asked, api, calls>>
  BY FlagSteps DEF ControlInv, apiVars
<1>2. /\ Pushing = {} /\ Pushing' = {}
      /\ pc[Main] # "eraseFlag" => Len(frameFlag) = Len(frameFlagCount)
      /\ pc[Main] = "eraseFlag" => Len(frameFlag) = Len(frameFlagCount) + 1
  BY <1>1, NobodyPushes DEF Locked, Pushing
<1>3. /\ Len(frameFlag) \in Nat /\ Len(frameFlagCount) \in Nat
      /\ frameFlag \in Seq(Flag) /\ frameFlagCount \in Seq(Int) /\ at \in Nat \ {0}
      /\ seen \in Int /\ asked \in [Flag -> Nat] /\ marked \in [Flag -> Nat]
      /\ pc \in [Task -> Labels] /\ calls \in Nat
  BY <1>1, Lengths DEF TypeOK
<1>4. \A i \in 1..Len(frameFlag) : frameFlag[i] \in Flag
  BY <1>3, ElementOfSeq
<1>5. \A i \in 1..Len(frameFlagCount) : frameFlagCount[i] \in Int
  BY <1>3, ElementOfSeq
<1>6. \A f \in Flag : f > calls => asked'[f] = 0
  BY <1>1 DEF FlagInv
<1>7. pc[Main] # "eraseFlag" => Listed = frameFlag
  BY DEF Listed
<1> USE MainIsTask
<1>8. CASE FlagRead(t)
  <2>1. pc[Main] = "flag" /\ at \in 1..Len(frameFlagCount)
    BY <1>1, <1>2, <1>3, <1>8 DEF FlagRead
  <2>2. /\ seen' = frameFlagCount[at] /\ at' = IF seen' > 0 THEN at ELSE at + 1
        /\ pc'[Main] = IF seen' > 0 THEN "flagMark" ELSE "flag"
        /\ UNCHANGED <<frameFlag, frameFlagCount, marked>>
    BY <1>1, <1>3, <1>8, <2>1 DEF FlagRead, Goto
  <2>3. Listed' = Listed
    BY <1>7, <2>1, <2>2 DEF Listed
  <2>4. pc'[Main] = "flagMark" =>
          at' <= Len(frameFlagCount') /\ seen' = frameFlagCount'[at'] /\ seen' > 0
    BY <2>1, <2>2
  <2> QED
    BY <1>1, <1>2, <2>2, <2>3, <2>4 DEF FlagInv
<1>9. CASE FlagMark(t)
  <2>1. /\ pc[Main] = "flagMark" /\ at \in 1..Len(frameFlagCount) /\ at \in 1..Len(frameFlag)
        /\ seen = frameFlagCount[at] /\ seen > 0 /\ Listed = frameFlag
    BY <1>1, <1>2, <1>3, <1>7, <1>9 DEF FlagMark, FlagInv
  <2>2. /\ frameFlagCount' = [frameFlagCount EXCEPT ![at] = seen - 1]
        /\ pc'[Main] = "flag" /\ frameFlag' = frameFlag
        /\ marked' = [marked EXCEPT ![frameFlag[at]] =
                        IF @ > asked[frameFlag[at]] THEN @ ELSE @ + 1]
    <3>1. /\ pc' = [pc EXCEPT ![t] = "flag"] /\ frameFlag' = frameFlag
          /\ marked' = [marked EXCEPT ![frameFlag[at]] =
                          IF @ > asked[frameFlag[at]] THEN @ ELSE @ + 1]
      BY <1>9 DEF FlagMark, Goto
    <3>2. \E n \in {seen, frameFlagCount[at]} :
            frameFlagCount' = [frameFlagCount EXCEPT ![at] = n - 1]
      <4>1. at <= Len(frameFlagCount)
        BY <1>3, <2>1
      <4> QED
        BY <1>9, <4>1 DEF FlagMark
    <3>3. frameFlagCount' = [frameFlagCount EXCEPT ![at] = seen - 1]
      BY <2>1, <3>2
    <3>4. pc'[Main] = "flag"
      BY <1>1, <1>3, <3>1
    <3> QED
      BY <3>1, <3>3, <3>4
  <2>3. PICK f \in Flag : f = frameFlag[at]
    BY <1>4, <2>1
  <2>4. marked[f] + seen = asked[f] /\ marked[f] \in Nat /\ asked[f] \in Nat
    BY <1>3, <2>1, <2>3 DEF FlagInv
  <2>5. marked'[f] = marked[f] + 1 /\ \A g \in Flag \ {f} : marked'[g] = marked[g]
    <3>1. ~(marked[f] > asked[f])
      <4>1. seen \in Int /\ seen > 0
        BY <1>3, <2>1
      <4> HIDE MainIsTask
      <4> QED
        BY <2>4, <4>1
    <3>2. marked' = [marked EXCEPT ![f] = IF marked[f] > asked[f] THEN marked[f] ELSE marked[f] + 1]
      BY <2>2, <2>3
    <3> QED
      BY <1>3, <3>1, <3>2
  <2>6. Listed' = frameFlag
    BY <2>2 DEF Listed
  <2>7. /\ Len(frameFlagCount') = Len(frameFlagCount) /\ frameFlagCount'[at] = seen - 1
        /\ \A i \in 1..Len(frameFlagCount) \ {at} : frameFlagCount'[i] = frameFlagCount[i]
    <3>1. seen - 1 \in Int
      BY <1>3
    <3> QED
      BY <1>3, <2>1, <2>2, <3>1, ExceptSeq
  <2>8. ASSUME NEW i \in 1..Len(frameFlagCount)
        PROVE  /\ frameFlagCount'[i] >= 0
               /\ marked'[frameFlag[i]] + frameFlagCount'[i] = asked[frameFlag[i]]
    <3>1. i \in 1..Len(frameFlag) /\ frameFlag[i] \in Flag
      BY <1>2, <1>4, <2>1
    <3>2. CASE i = at
      <4>1. frameFlagCount'[i] = seen - 1 /\ marked'[frameFlag[i]] = marked[f] + 1 /\ frameFlag[i] = f
        BY <2>3, <2>5, <2>7, <3>2
      <4>2. seen \in Int /\ seen > 0 /\ marked[f] + seen = asked[f] /\ marked[f] \in Nat
        BY <1>3, <2>1, <2>4
      <4>3. seen - 1 >= 0 /\ (marked[f] + 1) + (seen - 1) = asked[f]
        BY <4>2
      <4> QED
        BY <4>1, <4>3
    <3>3. CASE i # at
      <4>1. frameFlag[i] # f
        BY <2>1, <2>3, <3>1, <3>3 DEF FlagInv
      <4>2. frameFlagCount[i] >= 0 /\ marked[frameFlag[i]] + frameFlagCount[i] = asked[frameFlag[i]]
        BY <2>1 DEF FlagInv
      <4> QED
        BY <2>5, <2>7, <3>1, <3>3, <4>1, <4>2
    <3> QED
      BY <3>2, <3>3
  <2>9. ASSUME NEW g \in Flag, \A i \in 1..Len(frameFlag) : frameFlag[i] # g
        PROVE  marked'[g] = asked[g]
    <3>1. g # f
      BY <2>1, <2>3, <2>9
    <3> QED
      BY <2>1, <2>5, <2>9, <3>1 DEF FlagInv
  <2>10. /\ \A i, j \in 1..Len(frameFlag) : frameFlag[i] = frameFlag[j] => i = j
         /\ \A i \in 1..Len(frameFlag) : frameFlag[i] <= calls
    BY <2>1 DEF FlagInv
  <2>11. pc'[Main] # "flagMark"
    BY <2>2
  <2> QED
    BY <1>1, <1>2, <1>6, <2>6, <2>7, <2>8, <2>9, <2>10, <2>11 DEF FlagInv
<1>10. CASE FlagEnd(t) \/ EraseEnd(t)
  <2>1. /\ pc[Main] # "eraseFlag" /\ pc'[Main] \notin {"flagMark", "eraseFlag"}
        /\ UNCHANGED <<frameFlag, frameFlagCount, marked>>
    BY <1>1, <1>3, <1>10 DEF FlagEnd, EraseEnd, Goto
  <2>2. Listed' = Listed
    BY <1>7, <2>1 DEF Listed
  <2> QED
    BY <1>1, <1>2, <2>1, <2>2 DEF FlagInv
<1>11. CASE EraseCount(t)
  <2>1. /\ pc[Main] = "erase" /\ at \in 1..Len(frameFlagCount) /\ at \in 1..Len(frameFlag)
        /\ Listed = frameFlag
    BY <1>7, <1>11, FlagSteps DEF FlagRead, FlagMark, FlagEnd, EraseCount, EraseFlag, EraseEnd
  <2>2. frameFlag' = frameFlag /\ marked' = marked
    BY <1>11 DEF EraseCount
  <2>3. CASE UsedUp(frameFlagCount[at])
    <3>1. frameFlagCount' = RemoveAt(frameFlagCount, at) /\ pc'[Main] = "eraseFlag" /\ at' = at
      BY <1>1, <1>3, <1>11, <2>3 DEF EraseCount, Goto
    <3>2. PICK left : left = RemoveAt(frameFlag, at)
      OBVIOUS
    <3>3. Listed' = left
      BY <2>2, <3>1, <3>2 DEF Listed
    <3> DEFINE From(i) == IF i < at THEN i ELSE i + 1
    <3>4. PICK n \in Nat : n = Len(frameFlag) /\ n = Len(frameFlagCount) /\ at \in 1..n
      BY <1>2, <1>3, <2>1
    <3>5. /\ Len(left) = n - 1 /\ Len(frameFlagCount') = n - 1
          /\ \A i \in 1..(n - 1) : left[i] = frameFlag[From(i)]
          /\ \A i \in 1..(n - 1) : frameFlagCount'[i] = frameFlagCount[From(i)]
      <4>1. /\ Len(left) = n - 1
            /\ \A i \in 1..(n - 1) : left[i] = IF i < at THEN frameFlag[i] ELSE frameFlag[i + 1]
        <5>1. frameFlag \in Seq(Flag) /\ at \in 1..Len(frameFlag)
          BY <1>3, <3>4
        <5>2. /\ Len(RemoveAt(frameFlag, at)) = Len(frameFlag) - 1
              /\ \A j \in 1..(Len(frameFlag) - 1) :
                   RemoveAt(frameFlag, at)[j] = IF j < at THEN frameFlag[j] ELSE frameFlag[j + 1]
          BY <5>1, RemoveLemma
        <5> QED
          BY <3>2, <3>4, <5>2
      <4>2. /\ Len(frameFlagCount') = n - 1
            /\ \A i \in 1..(n - 1) :
                 frameFlagCount'[i] = IF i < at THEN frameFlagCount[i] ELSE frameFlagCount[i + 1]
        <5>1. frameFlagCount \in Seq(Int) /\ at \in 1..Len(frameFlagCount)
          BY <1>3, <3>4
        <5>2. /\ Len(RemoveAt(frameFlagCount, at)) = Len(frameFlagCount) - 1
              /\ \A j \in 1..(Len(frameFlagCount) - 1) :
                   RemoveAt(frameFlagCount, at)[j]
                     = IF j < at THEN frameFlagCount[j] ELSE frameFlagCount[j + 1]
          BY <5>1, RemoveLemma
        <5> QED
          BY <3>1, <3>4, <5>2
      <4> QED
        BY <4>1, <4>2
    <3>f. \A i \in 1..(n - 1) : From(i) \in 1..n
      BY <3>4
    <3>g. \A i, j \in 1..(n - 1) : From(i) = From(j) => i = j
      BY <3>4
    <3>h. \A a \in 1..n : a # at => \E i \in 1..(n - 1) : a = From(i)
      <4> SUFFICES ASSUME NEW a \in 1..n, a # at
                   PROVE  \E i \in 1..(n - 1) : a = From(i)
        OBVIOUS
      <4>1. CASE a < at
        <5>1. a \in 1..(n - 1) /\ a = From(a)
          BY <3>4, <4>1
        <5> QED
          BY <5>1
      <4>2. CASE a > at
        <5>1. a - 1 \in 1..(n - 1) /\ a = From(a - 1)
          BY <3>4, <4>2
        <5> QED
          BY <5>1
      <4> QED
        BY <3>4, <4>1, <4>2
    <3> HIDE DEF From
    <3>6. marked[frameFlag[at]] = asked[frameFlag[at]]
      <4>1. /\ frameFlagCount[at] >= 0 /\ frameFlagCount[at] <= 0 /\ frameFlagCount[at] \in Int
            /\ marked[frameFlag[at]] + frameFlagCount[at] = asked[frameFlag[at]]
            /\ marked[frameFlag[at]] \in Nat
        BY <1>3, <1>4, <1>5, <2>1, <2>3 DEF FlagInv, UsedUp
      <4> QED
        BY <4>1
    <3>7. ASSUME NEW i \in 1..(n - 1), NEW j \in 1..(n - 1), left[i] = left[j]
          PROVE  i = j
      <4>1. frameFlag[From(i)] = frameFlag[From(j)] /\ From(i) \in 1..n /\ From(j) \in 1..n
        BY <3>5, <3>7, <3>f
      <4>2. From(i) = From(j)
        BY <2>1, <3>4, <4>1 DEF FlagInv
      <4> QED
        BY <3>g, <4>2
    <3>8. ASSUME NEW i \in 1..(n - 1)
          PROVE  left[i] <= calls
      <4>1. left[i] = frameFlag[From(i)] /\ From(i) \in 1..n
        BY <3>5, <3>f
      <4>2. \A j \in 1..n : frameFlag[j] <= calls
        BY <2>1, <3>4 DEF FlagInv
      <4> QED
        BY <4>1, <4>2
    <3>9. ASSUME NEW i \in 1..(n - 1)
          PROVE  /\ frameFlagCount'[i] >= 0
                 /\ marked[left[i]] + frameFlagCount'[i] = asked[left[i]]
      <4>1. /\ left[i] = frameFlag[From(i)] /\ frameFlagCount'[i] = frameFlagCount[From(i)]
            /\ From(i) \in 1..Len(frameFlagCount)
        BY <3>4, <3>5, <3>f
      <4> QED
        BY <2>1, <4>1 DEF FlagInv
    <3>10. ASSUME NEW g \in Flag, \A i \in 1..(n - 1) : left[i] # g
           PROVE  marked[g] = asked[g]
      <4>1. CASE g = frameFlag[at]
        BY <3>6, <4>1
      <4>2. CASE g # frameFlag[at]
        <5>1. ASSUME NEW a \in 1..n, frameFlag[a] = g
              PROVE  FALSE
          <6>1. PICK i \in 1..(n - 1) : a = From(i)
            BY <3>h, <4>2, <5>1
          <6> QED
            BY <3>5, <3>10, <5>1, <6>1
        <5> QED
          BY <2>1, <3>4, <5>1 DEF FlagInv
      <4> QED
        BY <4>1, <4>2
    <3>11. pc'[Main] # "flagMark"
      BY <3>1
    <3> QED
      BY <1>1, <1>2, <1>6, <2>2, <3>3, <3>5, <3>7, <3>8, <3>9, <3>10, <3>11 DEF FlagInv
  <2>4. CASE ~UsedUp(frameFlagCount[at])
    <3>1. UNCHANGED <<pc, frameFlagCount>>
      BY <1>11, <2>4 DEF EraseCount
    <3>2. Listed' = Listed
      BY <2>1, <2>2, <3>1 DEF Listed
    <3> QED
      BY <1>1, <1>2, <2>1, <2>2, <3>1, <3>2 DEF FlagInv
  <2> QED
    BY <2>3, <2>4
<1>12. CASE EraseFlag(t)
  <2>1. /\ pc[Main] = "eraseFlag" /\ pc'[Main] = "erase" /\ frameFlag' = RemoveAt(frameFlag, at)
        /\ UNCHANGED <<frameFlagCount, marked>>
    BY <1>1, <1>3, <1>12 DEF EraseFlag, Goto
  <2>2. Listed' = Listed
    BY <2>1 DEF Listed
  <2> QED
    BY <1>1, <1>2, <2>1, <2>2 DEF FlagInv
<1> QED
  BY <1>8, <1>9, <1>10, <1>11, <1>12 DEF FlagStep

\* What is listed is a list of flags, longer than the counts by those on their way.
LEMMA ListedLength ==
  ASSUME ControlInv
  PROVE  Listed \in Seq(Flag) /\ Len(Listed) = Len(frameFlagCount) + Cardinality(Pushing)
<1>1. TypeOK /\ ListsPaired
  BY DEF ControlInv
<1>2. /\ Len(frameFlag) \in Nat /\ Len(frameFlagCount) \in Nat /\ Cardinality(Pushing) \in Nat
      /\ frameFlag \in Seq(Flag)
  BY <1>1, Lengths DEF TypeOK
<1>3. CASE pc[Main] = "eraseFlag"
  <2>1. at \in 1..Len(frameFlag)
    BY <1>1, <1>2, <1>3 DEF TypeOK
  <2>2. RemoveAt(frameFlag, at) \in Seq(Flag) /\ Len(RemoveAt(frameFlag, at)) = Len(frameFlag) - 1
    BY <1>2, <2>1, RemoveLemma
  <2> QED
    BY <1>1, <1>2, <1>3, <2>2 DEF Listed, ListsPaired
<1>4. CASE pc[Main] # "eraseFlag"
  BY <1>1, <1>2, <1>4 DEF Listed, ListsPaired
<1> QED
  BY <1>3, <1>4

\* setFrameFlag puts a new flag on the list, and then its count; the other calls
\* leave the flags alone.
LEMMA ApiFlag ==
  ASSUME ControlInv, FlagInv, Callers \subseteq Task, NEW c \in Caller, ApiAction(c)
  PROVE  FlagInv'
<1>1. TypeOK /\ ListsPaired
  BY DEF ControlInv
<1>2. UNCHANGED <<pc, at, seen, marked>>
  BY ApiFrame DEF flowVars
<1>3. /\ Len(frameFlag) \in Nat /\ Len(frameFlagCount) \in Nat
      /\ frameFlag \in Seq(Flag) /\ frameFlagCount \in Seq(Int)
      /\ asked \in [Flag -> Nat] /\ marked \in [Flag -> Nat]
      /\ calls \in Nat /\ api = [d \in Caller |-> api[d]]
  BY <1>1, Lengths DEF TypeOK, CallsOK
<1>4. CASE \E n \in 0..MaxCount : SetFrameFlag(c, n)
  <2>1. PICK n \in 0..MaxCount : SetFrameFlag(c, n)
    BY <1>4
  <2>2. MayCall(c)
    BY <2>1 DEF SetFrameFlag
  <2>3. PICK f : f = calls + 1
    OBVIOUS
  <2>4. /\ frameFlag' = Append(frameFlag, f) /\ frameFlagCount' = frameFlagCount
        /\ asked' = [asked EXCEPT ![f] = n] /\ calls' = f /\ calls < MaxCalls
        /\ api[c] = Idle /\ api' = [api EXCEPT ![c] = [op |-> "flag", next |-> f, arg |-> n]]
    BY <2>1, <2>3 DEF SetFrameFlag, MayCall
  <2>5. f \in Flag /\ n \in Nat /\ f > calls
    BY <1>3, <2>3, <2>4, BoundAssumption DEF Flag
  <2>6. /\ pc[c] = "process" /\ c \in Task
        /\ \A d \in Caller : api[d].op \in {"activate", "isGrab", "flag"} => d = c
        /\ pc[Main] \notin {"flagMark", "eraseFlag"}
    BY <2>2, InProcess DEF Locked
  <2>7. Pushing = {} /\ Pushing' = {c}
    BY <1>3, <2>4, <2>6 DEF Pushing, Idle
  <2>8. Len(frameFlag) = Len(frameFlagCount)
    <3>1. Cardinality(Pushing) = 0
      BY <2>7, FS_EmptySet
    <3> QED
      BY <1>1, <1>3, <2>6, <3>1 DEF ListsPaired
  <2>9. Listed = frameFlag /\ Listed' = frameFlag'
    BY <1>2, <2>6 DEF Listed
  <2>10. /\ Len(frameFlag') = Len(frameFlag) + 1 /\ frameFlag'[Len(frameFlag) + 1] = f
         /\ \A i \in 1..Len(frameFlag) : frameFlag'[i] = frameFlag[i]
    BY <1>3, <2>4, <2>5, AppendProperties
  <2>11. \A i \in 1..Len(frameFlag) : frameFlag[i] \in Flag /\ frameFlag[i] <= calls
    BY <1>3, <2>9, ElementOfSeq DEF FlagInv
  <2>12. \A i \in 1..Len(frameFlag) : frameFlag[i] # f
    BY <1>3, <2>3, <2>11
  <2>13. asked[f] = 0 /\ marked[f] = 0
    BY <2>5, <2>9, <2>12 DEF FlagInv
  <2>14. asked'[f] = n /\ \A g \in Flag \ {f} : asked'[g] = asked[g]
    BY <1>3, <2>4, <2>5
  <2>15. ASSUME NEW i \in 1..Len(frameFlag'), NEW j \in 1..Len(frameFlag'),
                frameFlag'[i] = frameFlag'[j]
         PROVE  i = j
    <3>1. CASE i = Len(frameFlag) + 1 \/ j = Len(frameFlag) + 1
      <4>1. Len(frameFlag') = Len(frameFlag) + 1 /\ Len(frameFlag) \in Nat
        BY <1>3, <2>10
      <4>2. \A a \in 1..Len(frameFlag') : a # Len(frameFlag) + 1 => frameFlag'[a] # f
        <5> SUFFICES ASSUME NEW a \in 1..Len(frameFlag'), a # Len(frameFlag) + 1
                     PROVE  frameFlag'[a] # f
          OBVIOUS
        <5>1. a \in 1..Len(frameFlag)
          BY <4>1
        <5> QED
          BY <2>10, <2>12, <5>1
      <4> QED
        BY <2>10, <2>15, <3>1, <4>2
    <3>2. CASE i # Len(frameFlag) + 1 /\ j # Len(frameFlag) + 1
      <4>1. i \in 1..Len(frameFlag) /\ j \in 1..Len(frameFlag)
        BY <1>3, <2>10, <3>2
      <4> QED
        BY <2>9, <2>10, <2>15, <4>1 DEF FlagInv
    <3> QED
      BY <3>1, <3>2
  <2>16. ASSUME NEW i \in 1..Len(frameFlag')
         PROVE  frameFlag'[i] <= calls'
    <3>1. CASE i = Len(frameFlag) + 1
      BY <1>3, <2>3, <2>4, <2>10, <3>1
    <3>2. CASE i # Len(frameFlag) + 1
      <4>1. i \in 1..Len(frameFlag)
        BY <1>3, <2>10, <3>2
      <4>2. frameFlag[i] \in Int
        BY <2>11, <4>1 DEF Flag
      <4>3. frameFlag'[i] = frameFlag[i] /\ frameFlag[i] <= calls
        BY <2>10, <2>11, <4>1
      <4>4. calls \in Nat /\ calls' = calls + 1
        BY <1>3, <2>3, <2>4
      <4> QED
        BY <4>2, <4>3, <4>4
    <3> QED
      BY <3>1, <3>2
  <2>17. ASSUME NEW i \in 1..Len(frameFlagCount)
         PROVE  /\ frameFlagCount[i] >= 0
                /\ marked[frameFlag'[i]] + frameFlagCount[i] = asked'[frameFlag'[i]]
    <3>1. i \in 1..Len(frameFlag)
      BY <2>8
    <3>2. frameFlag'[i] = frameFlag[i] /\ asked'[frameFlag[i]] = asked[frameFlag[i]]
      BY <2>10, <2>11, <2>12, <2>14, <3>1
    <3> QED
      BY <2>9, <3>2 DEF FlagInv
  <2>18. api'[c].next = f /\ api'[c].arg = n
    BY <1>3, <2>4
  <2>19. ASSUME NEW g \in Flag, \A i \in 1..Len(frameFlag') : frameFlag'[i] # g
         PROVE  marked[g] = asked'[g]
    <3>1. \A i \in 1..Len(frameFlag) : i \in 1..Len(frameFlag') /\ frameFlag[i] # g
      BY <1>3, <2>10, <2>19
    <3>2. g # f
      BY <1>3, <2>10, <2>19
    <3> QED
      BY <2>9, <2>14, <3>1, <3>2 DEF FlagInv
  <2>20. ASSUME NEW g \in Flag, g > calls'
         PROVE  asked'[g] = 0
    <3>1. g # f /\ g > calls
      BY <1>3, <2>3, <2>4, <2>20 DEF Flag
    <3> QED
      BY <2>14, <3>1 DEF FlagInv
  <2>21. pc'[Main] # "flagMark"
    BY <1>2, <2>6
  <2>22. \A d \in Pushing' : /\ frameFlag'[Len(frameFlag')] = api'[d].next
                             /\ api'[d].arg = asked'[api'[d].next] /\ marked[api'[d].next] = 0
    BY <2>7, <2>10, <2>13, <2>14, <2>18
  <2> QED
    <3>1. \A i, j \in 1..Len(Listed') : Listed'[i] = Listed'[j] => i = j
      BY <2>9, <2>15
    <3>2. \A i \in 1..Len(Listed') : Listed'[i] <= calls'
      BY <2>9, <2>16
    <3>3. \A i \in 1..Len(frameFlagCount') :
            /\ frameFlagCount'[i] >= 0
            /\ marked'[Listed'[i]] + frameFlagCount'[i] = asked'[Listed'[i]]
      BY <1>2, <2>4, <2>9, <2>17
    <3>4. \A d \in Pushing' :
            /\ Listed'[Len(Listed')] = api'[d].next
            /\ api'[d].arg = asked'[api'[d].next] /\ marked'[api'[d].next] = 0
      BY <1>2, <2>9, <2>22
    <3>5. \A g \in Flag : (\A i \in 1..Len(Listed') : Listed'[i] # g) => marked'[g] = asked'[g]
      BY <1>2, <2>9, <2>19
    <3> QED
      BY <2>20, <2>21, <3>1, <3>2, <3>3, <3>4, <3>5 DEF FlagInv
<1>5. CASE SetFrameFlagCount(c)
  <2>1. /\ api[c].op = "flag" /\ api' = [api EXCEPT ![c] = Idle]
        /\ frameFlagCount' = Append(frameFlagCount, api[c].arg)
        /\ UNCHANGED <<frameFlag, asked, calls>>
    BY <1>5 DEF SetFrameFlagCount
  <2>2. /\ \A d \in Caller : api[d].op \in {"activate", "isGrab", "flag"} => d = c
        /\ pc[Main] \notin {"flagMark", "eraseFlag"}
    BY <2>1, InProcess DEF Locked
  <2>3. Pushing = {c} /\ Pushing' = {}
    BY <1>3, <2>1, <2>2 DEF Pushing, Idle
  <2>4. Len(frameFlag) = Len(frameFlagCount) + 1
    <3>1. Cardinality(Pushing) = 1
      BY <2>3, FS_Singleton, Zenon
    <3> QED
      BY <1>1, <1>3, <2>2, <3>1 DEF ListsPaired
  <2>5. Listed = frameFlag /\ Listed' = frameFlag
    BY <1>2, <2>1, <2>2 DEF Listed
  <2>6. /\ frameFlag[Len(frameFlag)] = api[c].next /\ api[c].arg = asked[api[c].next]
        /\ marked[api[c].next] = 0
    BY <2>3, <2>5 DEF FlagInv
  <2>7. api[c].next \in Flag /\ api[c].arg \in Nat
    BY <1>1, <2>1 DEF TypeOK, CallsOK, InCall
  <2>8. api[c].arg \in Int
    BY <2>7
  <2>9. /\ Len(frameFlagCount') = Len(frameFlagCount) + 1
        /\ frameFlagCount'[Len(frameFlagCount) + 1] = api[c].arg
        /\ \A i \in 1..Len(frameFlagCount) : frameFlagCount'[i] = frameFlagCount[i]
    BY <1>3, <2>1, <2>8, AppendProperties
  <2>10. ASSUME NEW i \in 1..Len(frameFlagCount')
         PROVE  /\ frameFlagCount'[i] >= 0
                /\ marked[frameFlag[i]] + frameFlagCount'[i] = asked[frameFlag[i]]
    <3>1. CASE i = Len(frameFlagCount) + 1
      <4>1. frameFlagCount'[i] = api[c].arg /\ frameFlag[i] = api[c].next
        BY <2>4, <2>6, <2>9, <3>1
      <4> QED
        BY <2>6, <2>7, <4>1
    <3>2. CASE i # Len(frameFlagCount) + 1
      <4>1. i \in 1..Len(frameFlagCount)
        <5>1. Len(frameFlagCount') = Len(frameFlagCount) + 1 /\ Len(frameFlagCount) \in Nat
          BY <1>3, <2>9
        <5> QED
          BY <3>2, <5>1
      <4> QED
        BY <2>5, <2>9, <4>1 DEF FlagInv
    <3> QED
      BY <3>1, <3>2
  <2> QED
    BY <1>2, <2>1, <2>2, <2>3, <2>5, <2>10 DEF FlagInv
<1>6. CASE ~(\E n \in 0..MaxCount : SetFrameFlag(c, n)) /\ ~SetFrameFlagCount(c)
  <2>1. /\ UNCHANGED <<frameFlag, frameFlagCount, asked>> /\ calls' \in {calls, calls + 1}
        /\ api[c].op # "flag" \/ api' = api
    BY <1>6 DEF ApiAction, SetActiveProc, SetIsGrab, DiscardFrame, Stop, Join, Visit, Begin, MayCall,
       Idle, flagVars, listVars
  <2>2. Pushing' = Pushing
    BY <1>6, ApiCalls
  <2>3. Listed' = Listed
    BY <1>2, <2>1 DEF Listed
  <2>4. ASSUME NEW d \in Pushing
        PROVE  api'[d] = api[d]
    <3>1. CASE d = c
      BY <2>1, <2>4, <3>1 DEF Pushing
    <3>2. CASE d # c
      <4>1. d \in Caller
        BY <2>4 DEF Pushing
      <4> QED
        BY <1>3, <1>6, <3>2, <4>1 DEF ApiAction, SetActiveProc, SetIsGrab, DiscardFrame, Stop, Join,
           Visit, Begin, Onward
    <3> QED
      BY <3>1, <3>2
  <2>5. ASSUME NEW i \in 1..Len(Listed)
        PROVE  Listed[i] <= calls'
    <3>1. Listed \in Seq(Flag)
      BY ListedLength
    <3>2. Listed[i] \in Int
      <4>1. Listed[i] \in Flag
        BY <3>1, ElementOfSeq
      <4> QED
        BY <4>1 DEF Flag
    <3>3. Listed[i] <= calls
      BY DEF FlagInv
    <3> QED
      BY <1>3, <2>1, <3>2, <3>3
  <2>6. ASSUME NEW g \in Flag, g > calls'
        PROVE  asked'[g] = 0
    <3>1. g > calls
      BY <1>3, <2>1, <2>6 DEF Flag
    <3> QED
      BY <2>1, <3>1 DEF FlagInv
  <2> QED
    BY <1>2, <2>1, <2>2, <2>3, <2>4, <2>5, <2>6 DEF FlagInv
<1> QED
  BY <1>4, <1>5, <1>6

-----------------------------------------------------------------------------
(* The theorems for calls from inside process() only.                      *)

\* What is counted holds at the start.
LEMMA InitCount == Init => CountInv
<1> SUFFICES ASSUME Init
             PROVE  CountInv
  OBVIOUS
<1>1. DiscardInv /\ ActiveInv
  BY MainIsTask, TasksAreCallers DEF Init, DiscardInv, ActiveInv, Idle
<1>2. Listed = <<>> /\ Len(<<>>) = 0 /\ Pushing = {} /\ pc[Main] # "flagMark"
  BY MainIsTask DEF Init, Listed, Pushing, Idle
<1>3. FlagInv
  BY <1>2 DEF Init, FlagInv
<1> QED
  BY <1>1, <1>3 DEF CountInv

\* Every step keeps it.
LEMMA StepCount ==
  ASSUME Callers \subseteq Task
  PROVE  ControlInv /\ CountInv /\ [Next]_vars => CountInv'
<1>1. ASSUME CountInv, UNCHANGED vars
      PROVE  CountInv'
  <2> USE DEF vars, flowVars, fieldVars, countVars, flagVars, listVars, apiVars
  <2>1. Listed' = Listed /\ Pushing' = Pushing
    BY <1>1 DEF Listed, Pushing
  <2> QED
    BY <1>1, <2>1 DEF CountInv, DiscardInv, FlagInv, ActiveInv
<1>2. ASSUME ControlInv, CountInv, NEW t \in Task, Step(t)
      PROVE  CountInv'
  BY <1>2, TaskDiscard, TaskActive, TaskFlag, FlagsStep DEF CountInv
<1>3. ASSUME ControlInv, CountInv, Api
      PROVE  CountInv'
  <2>1. PICK c \in Caller : ApiAction(c)
    BY <1>3, ApiCases
  <2> QED
    BY <1>3, <2>1, ApiCount, ApiFlag DEF CountInv
<1> QED
  BY <1>1, <1>2, <1>3 DEF Next, Api

\* The rest of the inductive invariant, when only tasks call: counters, flags and
\* switches, for any number of tasks, procs, flags and calls.
THEOREM CountInvariance ==
  ASSUME Callers \subseteq Task
  PROVE  Spec => []CountInv
BY InitCount, StepCount, Invariance, PTL DEF Spec

\* A flag set from process() marks exactly the groups it was set for.
THEOREM FlagsExact ==
  ASSUME Callers \subseteq Task
  PROVE  Spec => []FlagExact
<1>1. ASSUME ControlInv, FlagInv
      PROVE  FlagExact
  <2> SUFFICES ASSUME NEW f \in Flag
               PROVE  marked[f] + Due(f) = asked[f]
    BY DEF FlagExact
  <2>1. TypeOK /\ ListsPaired
    BY <1>1 DEF ControlInv
  <2>2. /\ Len(frameFlag) \in Nat /\ Len(frameFlagCount) \in Nat
        /\ marked[f] \in Nat /\ asked[f] \in Nat
    BY <2>1, Lengths DEF TypeOK
  <2> DEFINE here == {i \in 1..Len(frameFlagCount) : Listed[i] = f}
  <2>4. CASE \E c \in Pushing : api[c].next = f
    <3>1. marked[f] = 0
      BY <1>1, <2>4 DEF FlagInv
    <3>2. Due(f) = asked[f]
      BY <2>4 DEF Due
    <3> QED
      BY <2>2, <3>1, <3>2
  <2>5. CASE ~(\E c \in Pushing : api[c].next = f) /\ here # {}
    <3>1. PICK i : i = CHOOSE x \in here : TRUE
      OBVIOUS
    <3>2. i \in 1..Len(frameFlagCount) /\ Listed[i] = f
      BY <2>5, <3>1
    <3>3. marked[f] + frameFlagCount[i] = asked[f]
      BY <1>1, <3>2 DEF FlagInv
    <3>4. Due(f) = frameFlagCount[i]
      BY <2>5, <3>1, <3>2 DEF Due
    <3> QED
      BY <3>3, <3>4
  <2>6. CASE ~(\E c \in Pushing : api[c].next = f) /\ here = {}
    <3>1. ASSUME NEW i \in 1..Len(Listed), Listed[i] = f
          PROVE  FALSE
      <4>1. Len(Listed) \in Nat /\ i \notin 1..Len(frameFlagCount)
        BY <1>1, <2>6, <3>1, ListedLength, LenProperties
      <4>2. PICK c : c \in Pushing
        <5>1. Pushing # {}
          <6>1. SUFFICES ASSUME Pushing = {}
                         PROVE  FALSE
            OBVIOUS
          <6>2. Cardinality(Pushing) = 0
            BY <6>1, FS_EmptySet
          <6> QED
            BY <1>1, <2>2, <4>1, <6>2, ListedLength
        <5> QED
          BY <5>1
      <4>3. Pushing = {c}
        BY <1>1, <4>2, InProcess DEF Pushing
      <4>4. Cardinality(Pushing) = 1
        BY <4>3, FS_Singleton, Zenon
      <4>5. i = Len(Listed)
        BY <1>1, <2>2, <4>1, <4>4, ListedLength
      <4> QED
        BY <1>1, <2>6, <3>1, <4>2, <4>5 DEF FlagInv
    <3>2. marked[f] = asked[f] /\ Due(f) = 0
      BY <1>1, <2>6, <3>1 DEF FlagInv, Due
    <3> QED
      BY <2>2, <3>2
  <2> QED
    BY <2>4, <2>5, <2>6
<1>2. ControlInv /\ CountInv => FlagExact
  BY <1>1 DEF CountInv
<1> QED
  BY <1>2, Invariance, CountInvariance, PTL

\* With one task, discardFrame(n) called from process() has the next n groups
\* dropped, and no more.
THEOREM DiscardsExact ==
  ASSUME Callers \subseteq Task
  PROVE  Spec => DiscardExact
<1>1. ASSUME ControlInv, CountInv, [Next]_vars, NEW t \in Task,
             mode = "start", pc[t] = "getImage", pc'[t] \in {"discard", "flag"}
      PROVE  pc'[t] = "discard" <=> owed > 0
  <2>1. TypeOK /\ LockHeld /\ DiscardInv
    BY <1>1 DEF ControlInv, CountInv
  <2>2. t = Main
    BY <1>1, <2>1 DEF LockHeld
  <2>3. owed = discardFrameCount[t] /\ discardFrameCount[t] \in Int
    BY <1>1, <2>1, <2>2 DEF DiscardInv, TypeOK
  <2>4. pc' # pc
    BY <1>1
  <2>5. ~Api
    BY <2>4, ApiCases, ApiFrame DEF flowVars
  <2>6. PICK u \in Task : Step(u)
    BY <1>1, <2>4, <2>5 DEF Next, Api, vars, flowVars
  <2>7. u = t
    BY <1>1, <2>1, <2>6, TaskFrame
  <2>8. ~FlagStep(t)
    BY <1>1, <2>2, FlagSteps
  <2>9. DiscardRead(t) \/ ProcessBegin(t)
    BY <1>1, <2>1, <2>6, <2>7, <2>8 DEF Step, FlagStep, OpenOk, OpenFail, SkipCallback, EnableBegin,
       EnableEnd, DisableBegin, DisableEnd, Loop, Assign, Clear, GrabAndLock, GrabAndFail, NoGroup,
       DiscardReread, Discard, Process, Unlock, Goto, flowVars, TypeOK
  <2>10. CASE DiscardRead(t)
    BY <2>1, <2>3, <2>10 DEF DiscardRead, Goto, TypeOK
  <2>11. CASE ProcessBegin(t)
    BY <2>1, <2>2, <2>3, <2>11 DEF ProcessBegin, Goto, TypeOK
  <2> QED
    BY <2>9, <2>10, <2>11
<1>2. ControlInv /\ CountInv /\ [Next]_vars =>
        [\A t \in Task :
           mode = "start" /\ pc[t] = "getImage" /\ pc'[t] \in {"discard", "flag"} =>
             (pc'[t] = "discard" <=> owed > 0)]_vars
  BY <1>1
<1> QED
  BY <1>2, Invariance, CountInvariance, PTL DEF Spec, DiscardExact

\* With one task, a switch requested from process() is not lost: what runs, once
\* there is nothing left to switch to, is what activeProc() reports.
THEOREM SwitchesKept ==
  ASSUME Callers \subseteq Task
  PROVE  Spec => []ActiveProcRuns
<1>1. ASSUME ControlInv, CountInv
      PROVE  ActiveProcRuns
  BY <1>1, MainIsTask, TasksAreCallers DEF CountInv, ActiveInv, ActiveProcRuns
<1>2. ControlInv /\ CountInv => ActiveProcRuns
  BY <1>1
<1> QED
  BY <1>2, Invariance, CountInvariance, PTL
=============================================================================
