------------------------------ MODULE GrabTask ------------------------------
(***************************************************************************)
(* The run() loop of the grab tasks (System/TaskGrabOneCamera.hpp,         *)
(* System/TaskGrabManyCamera.hpp, fields in System/IGrabTask.h) as frame   *)
(* processing sees it: which FrameProc is called by which thread, when it  *)
(* is enabled and disabled, how it is switched while frames flow, how      *)
(* frames are discarded and flagged, and how the loop ends.                *)
(*                                                                         *)
(* setActiveProc, setIsGrab, discardFrame and setFrameFlag of              *)
(* MultiCamera.cpp write the fields of the tasks one after the other,      *)
(* without a lock.  They are called by the application thread, which also  *)
(* calls stop, or by a task inside process(), where a FrameProc may use    *)
(* the singleton; Callers says which.                                      *)
(*                                                                         *)
(* One operation of a std::vector is one step; what a reallocation does to *)
(* a concurrent reader of the old storage is left out.                     *)
(*                                                                         *)
(* Capture and the image queues are CameraImageQueue's: here a GetImage    *)
(* call returns a group or none.                                           *)
(***************************************************************************)
EXTENDS Integers, SequencesExt, FiniteSets

CONSTANTS
  Tasks,      \* the tasks of startMT(), one per factory; the first is the main one
  Modes,      \* the calls that begin the session: "start", "startMT"
  Proc,       \* the FrameProc objects, vProc
  Null,       \* nullptr
  App,        \* the application thread
  Callers,    \* the threads that call what writes into the tasks
  MaxCount,   \* bound: the largest argument of discardFrame and setFrameFlag
  MaxCalls    \* bound: calls of all callers together, stop aside

Task == {Tasks[i] : i \in 1..Len(Tasks)}
Main == Tasks[1]
Caller == {App} \cup Task
Flag == 1..MaxCalls  \* the flags of setFrameFlag, named by the call

ASSUME TaskAssumption ==
  /\ Tasks \in Seq(Task) /\ Len(Tasks) > 0
  /\ \A i, j \in 1..Len(Tasks) : Tasks[i] = Tasks[j] => i = j
ASSUME ModeAssumption == Modes \subseteq {"start", "startMT"}
ASSUME ProcAssumption == Proc # {} /\ Null \notin Proc /\ Null \notin Task
ASSUME CallerAssumption == App \notin Task /\ Callers \subseteq Caller
ASSUME BoundAssumption == MaxCount \in Nat /\ MaxCalls \in Nat

VARIABLES
  mode,          \* the call that began the session
  lock,          \* the task that holds lockGetImage, or Null
  pc,            \* per task, where it is in run()
  switching,     \* per task, its onDisable/onEnable calls are those of a switch
  second,        \* per task, this is doOnceProc's second call
  isRun, isGrab, \* per task, IGrabTask's atomic flags
  proc,          \* per task, the FrameProc it calls
  nextProc,      \* per task, _nextProc
  discardFrameCount,  \* per task
  counted,       \* per task, the count that "discardFrameCount--" is at
  frameFlag, frameFlagCount,  \* the main task's two lists of flags
  at,            \* the main task's loop counter over them, 1 between the loops
  seen,          \* frameFlagCount[at] as the main task read it, 0 when written back
  activeProc,    \* vProc[_activeProcIndex]
  api,           \* per caller, the call it is in and what is left of it
  calls,         \* calls made
  enabled,       \* history: procs after onEnable and before onDisable
  owed,          \* history: groups still to be discarded for the last discardFrame
  asked, marked  \* history: groups that setFrameFlag was to flag, and those it did

flowVars  == <<lock, pc, switching, second>>
fieldVars == <<isRun, isGrab, proc, nextProc>>
countVars == <<discardFrameCount, counted, owed>>
listVars  == <<frameFlag, frameFlagCount, at, seen>>
flagVars  == <<listVars, asked, marked>>
apiVars   == <<activeProc, api, calls>>
vars      == <<mode, flowVars, fieldVars, countVars, flagVars, apiVars, enabled>>

\* start() makes one task for all factories, which takes no lock.
vGrabTasks == IF mode = "startMT" THEN Tasks ELSE <<Main>>

Idle == [op |-> "idle", next |-> 0, arg |-> Null]

Init ==
  /\ mode \in Modes
  /\ activeProc = CHOOSE p \in Proc : TRUE  \* they are alike
  /\ lock = Null
  /\ pc = [t \in Task |-> IF t = Main \/ mode = "startMT" THEN "open" ELSE "done"]
  /\ switching = [t \in Task |-> FALSE]
  /\ second = [t \in Task |-> FALSE]
  /\ isRun = [t \in Task |-> TRUE]
  /\ isGrab = [t \in Task |-> TRUE]
  /\ proc = [t \in Task |-> activeProc]
  /\ nextProc = [t \in Task |-> Null]
  /\ discardFrameCount = [t \in Task |-> 0]
  /\ counted = [t \in Task |-> 0]
  /\ frameFlag = <<>> /\ frameFlagCount = <<>>
  /\ at = 1 /\ seen = 0
  /\ api = [c \in Caller |-> Idle]
  /\ calls = 0
  /\ enabled = {}
  /\ owed = 0
  /\ asked = [f \in Flag |-> 0] /\ marked = [f \in Flag |-> 0]

Goto(t, label) == pc' = [pc EXCEPT ![t] = label]
\* Mutant: no lock.
MutAcquire(t) == UNCHANGED lock
Acquire(t) == IF mode = "startMT" THEN lock = Null /\ lock' = t ELSE UNCHANGED lock
Release    == lock' = IF mode = "startMT" THEN Null ELSE lock

-----------------------------------------------------------------------------
(* run(): opening the device, onEnable and onDisable, the switch.          *)

OpenOk(t) ==
  /\ pc[t] = "open"
  /\ Goto(t, "enable")
  /\ UNCHANGED <<mode, lock, switching, second, fieldVars, countVars, flagVars,
                 apiVars, enabled>>

\* The device does not open, and run() returns; or open() throws, which ends
\* the task too, with isRun as it was.  The proc is told nothing.
OpenFail(t) ==
  /\ pc[t] = "open"
  /\ isGrab[t]
  /\ \E threw \in BOOLEAN : isRun' = [isRun EXCEPT ![t] = @ /\ threw]
  /\ Goto(t, "done")
  /\ UNCHANGED <<mode, lock, switching, second, isGrab, proc, nextProc,
                 countVars, flagVars, apiVars, enabled>>

\* tryOnEnable and tryOnDisable do nothing but in the main task.
SkipCallback(t) ==
  /\ t # Main
  /\ pc[t] \in {"enable", "disable"}
  /\ Goto(t, IF pc[t] = "enable" THEN "loop" ELSE "done")
  /\ UNCHANGED <<mode, lock, switching, second, fieldVars, countVars, flagVars,
                 apiVars, enabled>>

EnableBegin(t) ==
  /\ t = Main
  /\ pc[t] = "enable"
  /\ Acquire(t)
  /\ Goto(t, "enabling")
  /\ UNCHANGED <<mode, switching, second, fieldVars, countVars, flagVars,
                 apiVars, enabled>>

EnableEnd(t) ==
  /\ pc[t] = "enabling"
  /\ Release
  /\ enabled' = enabled \cup {proc[t]}
  /\ switching' = [switching EXCEPT ![t] = FALSE]
  /\ Goto(t, IF switching[t] THEN "grab" ELSE "loop")
  /\ UNCHANGED <<mode, second, fieldVars, countVars, flagVars, apiVars>>

DisableBegin(t) ==
  /\ t = Main
  /\ pc[t] = "disable"
  /\ Acquire(t)
  /\ enabled' = enabled \ {proc[t]}
  /\ Goto(t, "disabling")
  /\ UNCHANGED <<mode, switching, second, fieldVars, countVars, flagVars,
                 apiVars>>

DisableEnd(t) ==
  /\ pc[t] = "disabling"
  /\ Release
  /\ Goto(t, IF switching[t] THEN "assign" ELSE "done")
  /\ UNCHANGED <<mode, switching, second, fieldVars, countVars, flagVars,
                 apiVars, enabled>>

\* Mutant: the loop is left without tryOnDisable.
MutLoop(t) ==
  LET switch == isRun[t] /\ t = Main /\ nextProc[t] # Null IN
  /\ pc[t] = "loop"
  /\ switching' = [switching EXCEPT ![t] = switch]
  /\ Goto(t, IF ~isRun[t] THEN "done" ELSE IF switch THEN "disable" ELSE "grab")
  /\ UNCHANGED <<mode, lock, second, fieldVars, countVars, flagVars, apiVars,
                 enabled>>

\* while (isRun): the loop ends, the proc is switched, or neither.
Loop(t) ==
  LET switch == isRun[t] /\ t = Main /\ nextProc[t] # Null IN
  /\ pc[t] = "loop"
  /\ switching' = [switching EXCEPT ![t] = switch]
  /\ Goto(t, IF ~isRun[t] \/ switch THEN "disable" ELSE "grab")
  /\ UNCHANGED <<mode, lock, second, fieldVars, countVars, flagVars, apiVars,
                 enabled>>

\* Mutant: the loop calls onDisable and onEnable but keeps its proc.
MutAssign(t) ==
  /\ pc[t] = "assign"
  /\ Goto(t, "clear")
  /\ UNCHANGED <<mode, lock, switching, second, fieldVars, countVars, flagVars,
                 apiVars, enabled>>

\* proc = _nextProc;
Assign(t) ==
  /\ pc[t] = "assign"
  /\ proc' = [proc EXCEPT ![t] = nextProc[t]]
  /\ Goto(t, "clear")
  /\ UNCHANGED <<mode, lock, switching, second, isRun, isGrab, nextProc,
                 countVars, flagVars, apiVars, enabled>>

\* Mutant: the switch ends without tryOnEnable.
MutClear(t) ==
  /\ pc[t] = "clear"
  /\ nextProc' = [nextProc EXCEPT ![t] = Null]
  /\ Goto(t, "grab")
  /\ UNCHANGED <<mode, lock, switching, second, isRun, isGrab, proc, countVars,
                 flagVars, apiVars, enabled>>

\* _nextProc = nullptr;
Clear(t) ==
  /\ pc[t] = "clear"
  /\ nextProc' = [nextProc EXCEPT ![t] = Null]
  /\ Goto(t, "enable")
  /\ UNCHANGED <<mode, lock, switching, second, isRun, isGrab, proc, countVars,
                 flagVars, apiVars, enabled>>

-----------------------------------------------------------------------------
(* run(): capture, then frame processing under try_lock.                   *)

\* Capture (or not), then try_lock.
GrabAndLock(t) ==
  /\ pc[t] = "grab"
  /\ Acquire(t)
  /\ second' = [second EXCEPT ![t] = FALSE]
  /\ Goto(t, IF isGrab[t] THEN "getImage" ELSE "sleep")
  /\ UNCHANGED <<mode, switching, fieldVars, countVars, flagVars, apiVars,
                 enabled>>

GrabAndFail(t) ==
  /\ pc[t] = "grab"
  /\ mode = "startMT" /\ lock # Null
  /\ Goto(t, "loop")
  /\ UNCHANGED <<mode, lock, switching, second, fieldVars, countVars, flagVars,
                 apiVars, enabled>>

\* onLightSleep, or GetImage without a complete group: nothing to process.
NoGroup(t) ==
  /\ pc[t] \in {"sleep", "getImage"}
  /\ Goto(t, "unlock")
  /\ UNCHANGED <<mode, lock, switching, second, fieldVars, countVars, flagVars,
                 apiVars, enabled>>

\* The group is processed or discarded: doOnceProc returned true.
AfterGroup(t) ==
  /\ second' = [second EXCEPT ![t] = TRUE]
  /\ Goto(t, IF second[t] THEN "unlock" ELSE "getImage")

\* discardFrameCount is read ...
DiscardRead(t) ==
  /\ pc[t] = "getImage"
  /\ discardFrameCount[t] > 0
  /\ counted' = [counted EXCEPT ![t] = discardFrameCount[t]]
  /\ owed' = IF owed > 0 THEN owed - 1 ELSE 0
  /\ Goto(t, "discard")
  /\ UNCHANGED <<mode, lock, switching, second, fieldVars, discardFrameCount,
                 flagVars, apiVars, enabled>>

\* ... perhaps once more for the decrement ...
DiscardReread(t) ==
  /\ pc[t] = "discard"
  /\ counted' = [counted EXCEPT ![t] = discardFrameCount[t]]
  /\ UNCHANGED <<mode, flowVars, fieldVars, discardFrameCount, owed, flagVars,
                 apiVars, enabled>>

\* ... and written back less one.
Discard(t) ==
  /\ pc[t] = "discard"
  /\ discardFrameCount' = [discardFrameCount EXCEPT ![t] = counted[t] - 1]
  /\ counted' = [counted EXCEPT ![t] = 0]
  /\ AfterGroup(t)
  /\ UNCHANGED <<mode, lock, switching, fieldVars, owed, flagVars, apiVars,
                 enabled>>

\* Mutant: > 1 for > 0.
MutProcessBegin(t) ==
  /\ pc[t] = "getImage"
  /\ discardFrameCount[t] <= 1
  /\ owed' = IF owed > 0 THEN owed - 1 ELSE 0
  /\ Goto(t, IF t = Main THEN "flag" ELSE "process")
  /\ UNCHANGED <<mode, lock, switching, second, fieldVars, discardFrameCount,
                 counted, flagVars, apiVars, enabled>>

\* A group that is not discarded; only the main task ever has flags.
ProcessBegin(t) ==
  /\ pc[t] = "getImage"
  /\ discardFrameCount[t] <= 0
  /\ owed' = IF owed > 0 THEN owed - 1 ELSE 0
  /\ Goto(t, IF t = Main THEN "flag" ELSE "process")
  /\ UNCHANGED <<mode, lock, switching, second, fieldVars, discardFrameCount,
                 counted, flagVars, apiVars, enabled>>

\* The loop over frameFlag reads frameFlagCount[at]: beyond the end of that
\* list, while a setFrameFlag is between its two push_backs, any value.
FlagRead(t) ==
  /\ t = Main
  /\ pc[t] = "flag"
  /\ at <= Len(frameFlag)
  /\ \E n \in IF at <= Len(frameFlagCount) THEN {frameFlagCount[at]} ELSE 0..MaxCount :
       /\ seen' = n
       /\ at' = IF n > 0 THEN at ELSE at + 1
       /\ Goto(t, IF n > 0 THEN "flagMark" ELSE "flag")
  /\ UNCHANGED <<mode, lock, switching, second, fieldVars, countVars, frameFlag,
                 frameFlagCount, asked, marked, apiVars, enabled>>

\* frameFlagCount[at]-- on what was read or is read again, beyond the end a
\* write to no element, and the group gets the flag.  A setFrameFlag that stays
\* between its push_backs can have its flag noted for ever; marked stops counting
\* at one more than was asked.
FlagMark(t) ==
  /\ pc[t] = "flagMark"
  /\ IF at <= Len(frameFlagCount)
     THEN \E n \in {seen, frameFlagCount[at]} :
            frameFlagCount' = [frameFlagCount EXCEPT ![at] = n - 1]
     ELSE UNCHANGED frameFlagCount
  /\ marked' = [marked EXCEPT ![frameFlag[at]] = IF @ > asked[frameFlag[at]] THEN @ ELSE @ + 1]
  /\ at' = at + 1
  /\ seen' = 0
  /\ Goto(t, "flag")
  /\ UNCHANGED <<mode, lock, switching, second, fieldVars, countVars, frameFlag,
                 asked, apiVars, enabled>>

\* All flags are noted: clearFrameFlag() begins.
FlagEnd(t) ==
  /\ t = Main
  /\ pc[t] = "flag"
  /\ at > Len(frameFlag)
  /\ at' = 1
  /\ Goto(t, "erase")
  /\ UNCHANGED <<mode, lock, switching, second, fieldVars, countVars, frameFlag,
                 frameFlagCount, seen, asked, marked, apiVars, enabled>>

\* Mutant: flags that have one group left are erased.
MutUsedUp(n) == n <= 1

\* frameFlagCount[i] <= 0 in clearFrameFlag.
UsedUp(n) == n <= 0

\* The loop over frameFlagCount: the count of a used up flag is erased first.
EraseCount(t) ==
  /\ t = Main
  /\ pc[t] = "erase"
  /\ at <= Len(frameFlagCount)
  /\ IF UsedUp(frameFlagCount[at])
     THEN /\ frameFlagCount' = RemoveAt(frameFlagCount, at)
          /\ Goto(t, "eraseFlag")
          /\ UNCHANGED at
     ELSE at' = at + 1 /\ UNCHANGED <<pc, frameFlagCount>>
  /\ UNCHANGED <<mode, lock, switching, second, fieldVars, countVars, frameFlag,
                 seen, asked, marked, apiVars, enabled>>

\* Then the flag itself; i-- and i++ leave the position.
EraseFlag(t) ==
  /\ pc[t] = "eraseFlag"
  /\ frameFlag' = RemoveAt(frameFlag, at)
  /\ Goto(t, "erase")
  /\ UNCHANGED <<mode, lock, switching, second, fieldVars, countVars,
                 frameFlagCount, at, seen, asked, marked, apiVars, enabled>>

EraseEnd(t) ==
  /\ t = Main
  /\ pc[t] = "erase"
  /\ at > Len(frameFlagCount)
  /\ at' = 1
  /\ Goto(t, "process")
  /\ UNCHANGED <<mode, lock, switching, second, fieldVars, countVars, frameFlag,
                 frameFlagCount, seen, asked, marked, apiVars, enabled>>

\* proc->process(cimg, ckey) returns, with no call of its own still in progress.
Process(t) ==
  /\ pc[t] = "process"
  /\ api[t] = Idle
  /\ AfterGroup(t)
  /\ UNCHANGED <<mode, lock, switching, fieldVars, countVars, flagVars,
                 apiVars, enabled>>

\* Mutant: a path out of the locked section without unlock().
MutUnlock(t) ==
  /\ pc[t] = "unlock"
  /\ Goto(t, "loop")
  /\ UNCHANGED <<mode, lock, switching, second, fieldVars, countVars, flagVars,
                 apiVars, enabled>>

Unlock(t) ==
  /\ pc[t] = "unlock"
  /\ Release
  /\ Goto(t, "loop")
  /\ UNCHANGED <<mode, switching, second, fieldVars, countVars, flagVars,
                 apiVars, enabled>>

-----------------------------------------------------------------------------
(* The calls that write into the tasks.                                    *)

\* A thread may call: the application between two calls, a task in process().
MayCall(c) ==
  /\ c \in Callers
  /\ api[c] = Idle
  /\ c \in Task => pc[c] = "process"
  /\ calls < MaxCalls
  /\ calls' = calls + 1

\* A call that visits vGrabTasks begins; task 1 is next.
Begin(c, op, arg) ==
  /\ MayCall(c)
  /\ api' = [api EXCEPT ![c] = [op |-> op, next |-> 1, arg |-> arg]]

SetActiveProc(c, p) ==
  /\ Begin(c, "activate", p)
  /\ activeProc' = p
  /\ UNCHANGED <<mode, flowVars, fieldVars, countVars, flagVars, enabled>>

SetIsGrab(c, b) ==
  /\ Begin(c, "isGrab", b)
  /\ UNCHANGED <<mode, flowVars, fieldVars, countVars, flagVars, activeProc,
                 enabled>>

Stop ==
  /\ api[App] = Idle
  /\ api' = [api EXCEPT ![App] = [op |-> "stop", next |-> 1, arg |-> Null]]
  /\ UNCHANGED <<mode, flowVars, fieldVars, countVars, flagVars, activeProc,
                 calls, enabled>>

\* The call has more tasks to visit, is over, or goes on to joinAll().
Onward(c) ==
  LET call == api[c] IN
  api' = [api EXCEPT ![c] =
            IF call.next < Len(vGrabTasks) THEN [call EXCEPT !.next = call.next + 1]
            ELSE IF call.op = "stop" THEN [Idle EXCEPT !.op = "join"]
            ELSE Idle]

\* Mutant: <= for < in the loop over vGrabTasks.
MutVisit(c) ==
  LET t == vGrabTasks[api[c].next] IN
  /\ api[c].op \in {"activate", "isGrab", "stop"}
  /\ nextProc' = IF api[c].op = "activate" THEN [nextProc EXCEPT ![t] = api[c].arg] ELSE nextProc
  /\ isGrab' = IF api[c].op = "isGrab" THEN [isGrab EXCEPT ![t] = api[c].arg] ELSE isGrab
  /\ isRun' = IF api[c].op = "stop" THEN [isRun EXCEPT ![t] = FALSE] ELSE isRun
  /\ api' = [api EXCEPT ![c].next = @ + 1]
  /\ UNCHANGED <<mode, flowVars, proc, countVars, flagVars, activeProc, calls,
                 enabled>>

\* One turn of the loop over vGrabTasks of the call in progress.
Visit(c) ==
  LET t == vGrabTasks[api[c].next] IN
  /\ api[c].op \in {"activate", "isGrab", "stop"}
  /\ nextProc' = IF api[c].op = "activate" THEN [nextProc EXCEPT ![t] = api[c].arg] ELSE nextProc
  /\ isGrab' = IF api[c].op = "isGrab" THEN [isGrab EXCEPT ![t] = api[c].arg] ELSE isGrab
  /\ isRun' = IF api[c].op = "stop" THEN [isRun EXCEPT ![t] = FALSE] ELSE isRun
  /\ Onward(c)
  /\ UNCHANGED <<mode, flowVars, proc, countVars, flagVars, activeProc, calls,
                 enabled>>

\* threadPool.joinAll() returns.
Join ==
  /\ api[App].op = "join"
  /\ \A t \in Task : pc[t] = "done"
  /\ api' = [api EXCEPT ![App] = [Idle EXCEPT !.op = "stopped"]]
  /\ UNCHANGED <<mode, flowVars, fieldVars, countVars, flagVars, activeProc,
                 calls, enabled>>

\* discardFrame(n) on the main task.
DiscardFrame(c, n) ==
  /\ MayCall(c)
  /\ discardFrameCount' = [discardFrameCount EXCEPT ![Main] = n]
  /\ owed' = n
  /\ UNCHANGED <<mode, flowVars, fieldVars, counted, flagVars, activeProc, api,
                 enabled>>

\* setFrameFlag(flag, n) on the main task: the push_back of the flag ...
SetFrameFlag(c, n) ==
  /\ MayCall(c)
  /\ api' = [api EXCEPT ![c] = [op |-> "flag", next |-> calls', arg |-> n]]
  /\ frameFlag' = Append(frameFlag, calls')
  /\ asked' = [asked EXCEPT ![calls'] = n]
  /\ UNCHANGED <<mode, flowVars, fieldVars, countVars, frameFlagCount, at, seen,
                 marked, activeProc, enabled>>

\* ... and that of its count.
SetFrameFlagCount(c) ==
  /\ api[c].op = "flag"
  /\ frameFlagCount' = Append(frameFlagCount, api[c].arg)
  /\ api' = [api EXCEPT ![c] = Idle]
  /\ UNCHANGED <<mode, flowVars, fieldVars, countVars, frameFlag, at, seen, asked,
                 marked, activeProc, calls, enabled>>

-----------------------------------------------------------------------------
Step(t) ==
  \/ OpenOk(t) \/ OpenFail(t) \/ SkipCallback(t)
  \/ EnableBegin(t) \/ EnableEnd(t) \/ DisableBegin(t) \/ DisableEnd(t)
  \/ Loop(t) \/ Assign(t) \/ Clear(t)
  \/ GrabAndLock(t) \/ GrabAndFail(t) \/ NoGroup(t)
  \/ DiscardRead(t) \/ DiscardReread(t) \/ Discard(t)
  \/ ProcessBegin(t) \/ FlagRead(t) \/ FlagMark(t) \/ FlagEnd(t)
  \/ EraseCount(t) \/ EraseFlag(t) \/ EraseEnd(t)
  \/ Process(t) \/ Unlock(t)

\* A call that has begun goes on.
Finish(c) == Visit(c) \/ SetFrameFlagCount(c)

Request(c) ==
  \/ \E p \in Proc : SetActiveProc(c, p)
  \/ \E b \in BOOLEAN : SetIsGrab(c, b)
  \/ \E n \in 0..MaxCount : DiscardFrame(c, n) \/ SetFrameFlag(c, n)

Next ==
  \/ \E t \in Task : Step(t)
  \/ \E c \in Caller : Request(c) \/ Finish(c)
  \/ Stop \/ Join

Spec == Init /\ [][Next]_vars

\* Threads are scheduled, and opening a device, the callbacks and the sleep
\* return; nothing obliges anyone to call anything, but a call is carried out.
FairSpec ==
  /\ Spec
  /\ \A t \in Task : WF_vars(Step(t) \/ Finish(t))
  /\ WF_vars(Finish(App)) /\ WF_vars(Join)

-----------------------------------------------------------------------------
(* Properties.                                                             *)

Labels == {"open", "enable", "enabling", "loop", "disable", "disabling",
           "assign", "clear", "grab", "sleep", "getImage", "discard", "flag",
           "flagMark", "erase", "eraseFlag", "process", "unlock", "done"}

\* The calls that can be in progress, by their names.
InCall(op) ==
  [op   : {op},
   next : CASE op = "flag" -> Flag
            [] op \in {"activate", "isGrab", "stop"} -> 1..Len(vGrabTasks)
            [] OTHER -> {0},
   arg  : CASE op = "activate" -> Proc
            [] op = "isGrab" -> BOOLEAN
            [] op = "flag" -> Nat
            [] OTHER -> {Null}]

\* What can be in progress; only the application stops the system.
CallsOK ==
  /\ api = [c \in Caller |-> api[c]]
  /\ \A c \in Task : api[c].op \in {"idle", "activate", "isGrab", "flag"}
  /\ api[App].op \in {"idle", "activate", "isGrab", "flag", "stop", "join", "stopped"}
  /\ \A c \in Caller : api[c] \in InCall(api[c].op)

\* Type invariant; the loops over the two lists stay on a position of the list
\* they use, or just beyond its end.
TypeOK ==
  /\ mode \in {"start", "startMT"}
  /\ lock \in Task \cup {Null}
  /\ pc \in [Task -> Labels]
  /\ switching \in [Task -> BOOLEAN]
  /\ second \in [Task -> BOOLEAN]
  /\ isRun \in [Task -> BOOLEAN]
  /\ isGrab \in [Task -> BOOLEAN]
  /\ proc \in [Task -> Proc]
  /\ nextProc \in [Task -> Proc \cup {Null}]
  /\ discardFrameCount \in [Task -> Int]
  /\ counted \in [Task -> Int]
  /\ activeProc \in Proc
  /\ frameFlag \in Seq(Flag)
  /\ frameFlagCount \in Seq(Int)
  /\ at \in Nat \ {0} /\ seen \in Int
  /\ pc[Main] \in {"flagMark", "eraseFlag"} => at <= Len(frameFlag)
  /\ CallsOK
  /\ calls \in Nat
  /\ enabled \subseteq Proc
  /\ owed \in Nat
  /\ asked \in [Flag -> Nat] /\ marked \in [Flag -> Nat]

\* lockGetImage keeps the callbacks of a FrameProc apart: no two threads are
\* inside onEnable, onDisable, process or onLightSleep (CameraImageQueue.h:45,
\* "this is the lock that protects the frame processing of the proc").
CallbacksApart ==
  \A t, u \in Task :
    /\ pc[t] \in {"enabling", "disabling", "process", "sleep"}
    /\ pc[u] \in {"enabling", "disabling", "process", "sleep"}
    => t = u

\* The main task calls a proc with frames only between its onEnable and its
\* onDisable (FrameProc.h:39 and 47), through switches, failures and stop.  The
\* other tasks do not keep to that: they process from the start with the proc
\* they were given, whatever the main one has enabled.
MainOnlyEnabledProcess ==
  pc[Main] \in {"process", "sleep"} => proc[Main] \in enabled

\* Across switches, failed opens and stops, whatever onEnable was called on is
\* disabled again before another proc is enabled and before run() returns
\* (MultiCamera.cpp:42, "only one proc is enabled at a time").
EnableBalanced ==
  /\ Cardinality(enabled) <= 1
  /\ pc[Main] = "done" => enabled = {}

\* With one task, after discardFrame(n) the next n groups are dropped and no
\* more (MultiCamera.h:232, "from the next frame on, drop these frames"), also
\* when it is called again before they are gone.  It holds when it is called
\* from process(); a call of another thread can be lost in the countdown.
DiscardExact ==
  [][\A t \in Task :
       mode = "start" /\ pc[t] = "getImage" /\ pc'[t] \in {"discard", "flag"} =>
         (pc'[t] = "discard" <=> owed > 0)]_vars

\* The flags whose count is on its way.
Pushing == {c \in Caller : api[c].op = "flag"}

\* The flags on the list, less the one whose count is erased already.
Listed == IF pc[Main] = "eraseFlag" THEN RemoveAt(frameFlag, at) ELSE frameFlag

\* The groups that flag f has still to mark.
Due(f) ==
  LET here == {i \in 1..Len(frameFlagCount) : Listed[i] = f} IN
  IF \E c \in Pushing : api[c].next = f THEN asked[f]
  ELSE IF here # {} THEN frameFlagCount[CHOOSE i \in here : TRUE]
  ELSE 0

\* A flag marks exactly as many processed groups as it was set for
\* (MultiCamera.h:248, "the number of frames it lasts"): the two lists stay
\* paired while they are walked, counted down and erased, and discarded groups
\* use up no mark.  It holds when setFrameFlag is called from process(); beside
\* a call of another thread the walk meets a flag that has no count yet.
FlagExact == \A f \in Flag : marked[f] + Due(f) = asked[f]

\* With one task, once no setActiveProc is in progress and there is nothing left
\* to switch to, the proc that runs is the one activeProc() reports
\* (MultiCamera.h:136, "the currently active proc").  It holds when the switch
\* is requested from process().
ActiveProcRuns ==
  /\ mode = "start" /\ (\A c \in Caller : api[c].op # "activate")
  /\ pc[Main] = "loop" /\ nextProc[Main] = Null
  => proc[Main] = activeProc

\* With one task, the proc that setActiveProc chose comes to run, unless another
\* is chosen or the loop ends; for requests from process().  With several tasks
\* the main one may wait for lockGetImage for ever, as the others take it in
\* turn.
SwitchHappens ==
  \A p \in Proc :
    mode = "start" /\ activeProc = p
      ~> proc[Main] = p \/ activeProc # p \/ pc[Main] = "done"

\* stop() returns: every task leaves its loop and its callbacks, though the
\* main task must wait for lockGetImage once more to call onDisable.
StopReturns == api[App].op = "join" ~> api[App].op = "stopped"

-----------------------------------------------------------------------------
(* Why the safety properties hold.                                         *)

\* Where lockGetImage is held, if the session has the lock.
Locked == {"enabling", "disabling", "sleep", "getImage", "discard", "flag",
           "flagMark", "erase", "eraseFlag", "process", "unlock"}

\* Where the main task's proc is enabled.
WhileEnabled == (Locked \ {"enabling", "disabling"}) \cup {"loop", "disable", "grab"}

\* With several tasks, the one that holds the lock is inside the locked part;
\* with one, there is no other.
LockHeld ==
  /\ mode = "startMT" => \A t \in Task : pc[t] \in Locked <=> lock = t
  /\ mode = "start" => \A t \in Task \ {Main} : pc[t] = "done"

\* Only the main task switches procs and has flags.
MainOnly ==
  \A t \in Task \ {Main} :
    pc[t] \notin {"enabling", "disabling", "assign", "clear", "flag", "flagMark",
                  "erase", "eraseFlag"}

\* Where the main task is says what is enabled.
EnabledHere ==
  enabled = IF pc[Main] \in WhileEnabled THEN {proc[Main]} ELSE {}

\* From the test of _nextProc to the assignment nobody sets it to null.
SwitchInv ==
  \/ pc[Main] = "assign"
  \/ switching[Main] /\ pc[Main] \in {"disable", "disabling"}
  => nextProc[Main] # Null

\* Who is in a call: a task only inside process().
Calling ==
  \A c \in Caller :
    /\ c \in Task /\ api[c] # Idle => pc[c] = "process"
    /\ api[c].op \in {"activate", "isGrab", "flag"} => c \in Callers

\* The lists of flags and counts differ by the counts on their way and by the
\* flag about to be erased, whoever calls.
ListsPaired ==
  Len(frameFlag) = Len(frameFlagCount) + Cardinality(Pushing)
                     + (IF pc[Main] = "eraseFlag" THEN 1 ELSE 0)

\* The inductive invariant for any callers: the lock and the callbacks of the
\* main task, its switches, the calls in progress, and the lengths of the lists.
ControlInv ==
  /\ TypeOK
  /\ LockHeld
  /\ MainOnly
  /\ EnabledHere
  /\ SwitchInv
  /\ Calling
  /\ ListsPaired

\* With one task and calls from process() only, the counter is what is owed.
DiscardInv ==
  mode = "start" =>
    /\ pc[Main] = "discard" => counted[Main] = discardFrameCount[Main] /\ counted[Main] > 0
    /\ owed = discardFrameCount[Main] - (IF pc[Main] = "discard" THEN 1 ELSE 0)

\* With calls from process() only: a flag on the list has its count to go, the
\* last one may still be without, and one that is not listed has none.
FlagInv ==
  /\ \A i, j \in 1..Len(Listed) : Listed[i] = Listed[j] => i = j
  /\ \A i \in 1..Len(Listed) : Listed[i] <= calls
  /\ \A i \in 1..Len(frameFlagCount) :
       /\ frameFlagCount[i] >= 0
       /\ marked[Listed[i]] + frameFlagCount[i] = asked[Listed[i]]
  /\ \A c \in Pushing :
       /\ Listed[Len(Listed)] = api[c].next
       /\ api[c].arg = asked[api[c].next] /\ marked[api[c].next] = 0
  /\ \A f \in Flag : (\A i \in 1..Len(Listed) : Listed[i] # f) => marked[f] = asked[f]
  /\ \A f \in Flag : f > calls => asked[f] = 0
  /\ pc[Main] = "flagMark" =>
       at <= Len(frameFlagCount) /\ seen = frameFlagCount[at] /\ seen > 0

\* With one task and calls from process() only, what activeProc() reports is
\* what a call in progress is to set, what _nextProc holds, or what runs.
ActiveInv ==
  mode = "start" =>
    /\ api[Main].op = "activate" => api[Main].arg = activeProc
    /\ api[Main].op # "activate" =>
         activeProc = IF nextProc[Main] = Null THEN proc[Main] ELSE nextProc[Main]
    /\ pc[Main] = "clear" => proc[Main] = activeProc

\* What else is invariant when only tasks call, from inside process().
CountInv ==
  /\ DiscardInv
  /\ FlagInv
  /\ ActiveInv
=============================================================================
