----------------------------- MODULE MultiCamera -----------------------------
(***************************************************************************)
(* The life cycle of the capture system (System/MultiCamera.cpp): opening  *)
(* and closing the devices, starting and stopping the grab tasks, and the  *)
(* asynchronous shutdown (System/TaskCloseSystem.hpp).                     *)
(*                                                                         *)
(* Three kinds of threads meet here: the application's own, which call the *)
(* singleton; the command pool's, which run TaskCloseSystem; and the       *)
(* worker pool's, which run the grab tasks.  No lock protects the          *)
(* singleton: every read of a flag or list that decides a branch is a step *)
(* and every write after it another.                                       *)
(*                                                                         *)
(* What a grab task does while it runs is GrabTask's and                   *)
(* CameraImageQueue's; here it opens its devices, runs until isRun is      *)
(* cleared, and may ask for the shutdown from inside process().  Of the    *)
(* procs only their number and the active index are kept: what matters is  *)
(* that a start takes one that is there.                                   *)
(***************************************************************************)
EXTENDS Integers, Sequences, FiniteSets

CONSTANTS
  App,         \* the application's threads
  Cmd,         \* the threads of threadPoolCMD
  Device,      \* the devices that CameraManger can be told of, one per factory
  DevName,     \* their names, which two of them may share
  Registered,  \* those it knows from the start
  MaxThreads,  \* the capacity of threadPool
  ClearModes,  \* the arguments isClearProc of invokeStopAndClose
  MaxTask,     \* bound: tasks ever created
  MaxProc      \* bound: procs at one time

ASSUME ThreadAssumption == App \cap Cmd = {}
ASSUME DeviceAssumption ==
  /\ IsFiniteSet(Device) /\ Registered \subseteq Device
  /\ \A d, e \in Registered : DevName[d] = DevName[e] => d = e
ASSUME ClearAssumption == ClearModes \subseteq BOOLEAN
ASSUME BoundAssumption == MaxThreads \in Nat \ {0} /\ MaxTask \in Nat /\ MaxProc \in Nat

Thread == App \cup Cmd
TaskId == 1..MaxTask
None   == 0   \* no task

VARIABLES
  registered,   \* CameraManger's devices
  factories,    \* the devices of CameraManger's factories
  vDevices, vCameraImageFactory,  \* MultiCamera's copies of both
  opened,       \* devices whose capture is open
  isOpened, isOpening, isCloseing,  \* the atomic flags
  nProc,        \* vProc.size()
  procIndex,    \* _activeProcIndex
  vGrabTasks,   \* the task list
  mainGrabTask,
  state,        \* per task: where it is in its life
  isRun,        \* per task: its flag
  devs,         \* per task: the devices of its factories
  pc,           \* per thread: where it is in the call it makes
  todo,         \* per thread: the calls it makes next without a choice
  left,         \* per thread: the factories that startMT has still to serve
  session       \* per application thread: what it believes of the system

flags    == <<isOpened, isOpening, isCloseing>>
registry == <<registered, factories, vDevices, vCameraImageFactory>>
procs    == <<nProc, procIndex>>
tasks    == <<vGrabTasks, mainGrabTask, state, isRun, devs>>
control  == <<pc, todo, left, session>>
vars     == <<registry, opened, flags, procs, tasks, control>>

Init ==
  /\ registered = Registered /\ factories = Registered
  /\ vDevices = {} /\ vCameraImageFactory = {}
  /\ opened = {}
  /\ isOpened = FALSE /\ isOpening = FALSE /\ isCloseing = FALSE
  /\ nProc = 0 /\ procIndex = 0
  /\ vGrabTasks = {}
  /\ mainGrabTask = None
  /\ state = [i \in TaskId |-> "unused"]
  /\ isRun = [i \in TaskId |-> FALSE]
  /\ devs = [i \in TaskId |-> {}]
  /\ pc = [th \in Thread |-> "idle"]
  /\ todo = [th \in Thread |-> <<>>]
  /\ left = [th \in Thread |-> {}]
  /\ session = [th \in App |-> "closed"]

isRunning == vGrabTasks # {}

Unused    == {i \in TaskId : state[i] = "unused"}
NextId    == CHOOSE i \in Unused : TRUE
TasksMade == TaskId \ Unused
\* The tasks that threadPool runs.
Busy      == {i \in TaskId : state[i] \in {"started", "running"}}

-----------------------------------------------------------------------------
(* Control: a thread enters a call, goes on in it, returns from it.        *)

Goto(th, label) == pc' = [pc EXCEPT ![th] = label] /\ UNCHANGED <<todo, left>>

\* Return, into the next call of TaskCloseSystem::run if there is one.
Return(th) ==
  /\ pc' = [pc EXCEPT ![th] = IF todo[th] = <<>> THEN "idle" ELSE Head(todo[th])]
  /\ todo' = [todo EXCEPT ![th] = IF @ = <<>> THEN @ ELSE Tail(@)]
  /\ UNCHANGED left

\* An application thread that believes `from` makes a call, after which it
\* believes `to`: open, start, then stop and close, or a request to shut down
\* and waiting for it, as test_package/MultiCameraTest.cpp does.
Call(th, from, to, entry) ==
  /\ pc[th] = "idle"
  /\ session[th] = from
  /\ session' = [session EXCEPT ![th] = to]
  /\ Goto(th, entry)

CallOpen(th)  == Call(th, "closed", "opened", "open")
CallStart(th) == /\ Cardinality(TasksMade) + Cardinality(Device) <= MaxTask
                 /\ \E entry \in {"start", "startMT"} : Call(th, "opened", "started", entry)
CallStop(th)  == Call(th, "started", "stopped", "stop")
\* Also before stop(), which closeCamera refuses.
CallClose(th) == \/ Call(th, "opened", "closed", "close")
                 \/ Call(th, "stopped", "closed", "close")
                 \/ Call(th, "started", "started", "close")

AppCall(th) ==
  /\ CallOpen(th) \/ CallStart(th) \/ CallStop(th) \/ CallClose(th)
  /\ UNCHANGED <<registry, opened, flags, procs, tasks>>

\* The thread leaves the shutdown to another one, and waits for it; it knows
\* whether the procs are to be cleared.  It has seen that the tasks run, which
\* the test asserts after start().
Waiting(isClearProc) == IF isClearProc THEN "clearing" ELSE "waiting"

Delegate(th, isClearProc) ==
  /\ isRunning
  /\ Call(th, "started", Waiting(isClearProc), "idle")
  /\ UNCHANGED <<registry, opened, flags, procs, tasks>>

\* It sees that the cameras are closed, and the procs cleared if they are to
\* be, and calls stop and closeCamera still.
SeeClosed(th, isClearProc) ==
  /\ ~isOpened
  /\ isClearProc => nProc = 0
  /\ Call(th, Waiting(isClearProc), "stopped", "stop")
  /\ UNCHANGED <<registry, opened, flags, procs, tasks>>

\* addProc, setActiveProc and clearProc, by a thread that waits for nothing.
\* What setActiveProc tells running tasks is GrabTask's.
Free(th) == pc[th] = "idle" /\ session[th] \in {"closed", "opened", "started"}

AddProc(th) ==
  /\ Free(th)
  /\ nProc < MaxProc
  /\ nProc' = nProc + 1
  /\ UNCHANGED <<registry, opened, flags, procIndex, tasks, control>>

SetActiveProc(th, i) ==
  /\ Free(th)
  /\ i < nProc
  /\ procIndex' = i
  /\ UNCHANGED <<registry, opened, flags, nProc, tasks, control>>

CallClear(th) ==
  /\ Free(th)
  /\ Goto(th, "clear")
  /\ UNCHANGED <<registry, opened, flags, procs, tasks, session>>

\* Mutant: a null pointer is registered.
MutRegister(d) ==
  /\ d \notin factories
  /\ factories' = factories \cup {d}
  /\ registered' = registered \cup {None}
  /\ UNCHANGED <<vDevices, vCameraImageFactory, opened, flags, procs, tasks, control>>

\* CameraManger::CreateCamera: add(device) refuses a device of a known name,
\* but its factory is added all the same.
Register(d) ==
  /\ d \notin factories
  /\ factories' = factories \cup {d}
  /\ registered' = registered \cup {e \in {d} : \A r \in registered : DevName[r] # DevName[e]}
  /\ UNCHANGED <<vDevices, vCameraImageFactory, opened, flags, procs, tasks, control>>

-----------------------------------------------------------------------------
(* openCamera.                                                             *)

\* openCamera has come to an end without opening: the application sees it by
\* isCameraOpened(), which the tests assert before they start.
OpenRefused(th) ==
  /\ Return(th)
  /\ session' = [session EXCEPT ![th] = IF isOpened THEN "opened" ELSE "closed"]

OpenCheck(th) ==
  /\ pc[th] = "open"
  /\ IF isOpened \/ isOpening THEN OpenRefused(th)
     ELSE Goto(th, "openMark") /\ UNCHANGED session
  /\ UNCHANGED <<registry, opened, flags, procs, tasks>>

OpenMark(th) ==
  /\ pc[th] = "openMark"
  /\ isOpening' = TRUE
  /\ Goto(th, "openCopy")
  /\ UNCHANGED <<registry, opened, isOpened, isCloseing, procs, tasks, session>>

\* The copy of CameraManger's lists, and the return if it has no device.
OpenCopy(th) ==
  /\ pc[th] = "openCopy"
  /\ vDevices' = registered
  /\ vCameraImageFactory' = factories
  /\ IF registered = {} THEN OpenRefused(th)
     ELSE Goto(th, "openDevices") /\ UNCHANGED session
  /\ UNCHANGED <<registered, factories, opened, flags, procs, tasks>>

\* Each device opens or not; one that does not is only reported.
OpenDevices(th) ==
  /\ pc[th] = "openDevices"
  /\ \E ok \in SUBSET vDevices : opened' = (opened \ vDevices) \cup ok
  /\ Goto(th, "opened")
  /\ UNCHANGED <<registry, flags, procs, tasks, session>>

\* An exception of open(), or of the first read, leaves openCamera, at the last
\* of the devices it has come to; that one may be open or not.
OpenThrow(th) ==
  /\ pc[th] = "openDevices"
  /\ \E tried \in SUBSET vDevices \ {{}} : \E ok \in SUBSET tried :
       opened' = (opened \ tried) \cup ok
  /\ OpenRefused(th)
  /\ UNCHANGED <<registry, flags, procs, tasks>>

OpenMarkOpened(th) ==
  /\ pc[th] = "opened"
  /\ isOpened' = TRUE
  /\ Goto(th, "openDone")
  /\ UNCHANGED <<registry, opened, isOpening, isCloseing, procs, tasks, session>>

OpenDone(th) ==
  /\ pc[th] = "openDone"
  /\ isOpening' = FALSE
  /\ Return(th)
  /\ UNCHANGED <<registry, opened, isOpened, isCloseing, procs, tasks, session>>

-----------------------------------------------------------------------------
(* closeCamera.                                                            *)

\* Mutant: no check whether tasks run.
MutCloseCheckRunning(th) ==
  /\ pc[th] = "close"
  /\ Goto(th, "closeCheck")
  /\ UNCHANGED <<registry, opened, flags, procs, tasks, session>>

CloseCheckRunning(th) ==
  /\ pc[th] = "close"
  /\ IF isRunning THEN Return(th) ELSE Goto(th, "closeCheck")
  /\ UNCHANGED <<registry, opened, flags, procs, tasks, session>>

CloseCheck(th) ==
  /\ pc[th] = "closeCheck"
  /\ IF ~isOpened \/ isCloseing THEN Return(th) ELSE Goto(th, "closeMark")
  /\ UNCHANGED <<registry, opened, flags, procs, tasks, session>>

CloseMark(th) ==
  /\ pc[th] = "closeMark"
  /\ isCloseing' = TRUE
  /\ Goto(th, "release")
  /\ UNCHANGED <<registry, opened, isOpened, isOpening, procs, tasks, session>>

\* Mutant: the loop over the devices misses one.
MutRelease(th) ==
  /\ pc[th] = "release"
  /\ \E d \in vDevices : opened' = opened \ (vDevices \ {d})
  /\ Goto(th, "closed")
  /\ UNCHANGED <<registry, flags, procs, tasks, session>>

Release(th) ==
  /\ pc[th] = "release"
  /\ opened' = opened \ vDevices
  /\ Goto(th, "closed")
  /\ UNCHANGED <<registry, flags, procs, tasks, session>>

CloseMarkClosed(th) ==
  /\ pc[th] = "closed"
  /\ isOpened' = FALSE
  /\ Goto(th, "closeDone")
  /\ UNCHANGED <<registry, opened, isOpening, isCloseing, procs, tasks, session>>

CloseDone(th) ==
  /\ pc[th] = "closeDone"
  /\ isCloseing' = FALSE
  /\ Return(th)
  /\ UNCHANGED <<registry, opened, isOpened, isOpening, procs, tasks, session>>

-----------------------------------------------------------------------------
(* clearProc.                                                              *)

ClearCheck(th) ==
  /\ pc[th] = "clear"
  /\ IF isRunning THEN Return(th) ELSE Goto(th, "clearProcs")
  /\ UNCHANGED <<registry, opened, flags, procs, tasks, session>>

ClearProcs(th) ==
  /\ pc[th] = "clearProcs"
  /\ nProc' = 0
  /\ Goto(th, "clearIndex")
  /\ UNCHANGED <<registry, opened, flags, procIndex, tasks, session>>

\* Mutant: the index is kept.
MutClearIndex(th) ==
  /\ pc[th] = "clearIndex"
  /\ Return(th)
  /\ UNCHANGED <<registry, opened, flags, procs, tasks, session>>

ClearIndex(th) ==
  /\ pc[th] = "clearIndex"
  /\ procIndex' = 0
  /\ Return(th)
  /\ UNCHANGED <<registry, opened, flags, nProc, tasks, session>>

-----------------------------------------------------------------------------
(* start and startMT.                                                      *)

\* The index is taken if there is such a proc; one too large is refused, but
\* start() lets vProc.size() pass and keeps the index it has.
StartIndex(th, i) ==
  LET tooLarge == IF pc[th] = "start" THEN i > nProc ELSE i >= nProc IN
  /\ pc[th] \in {"start", "startMT"}
  /\ procIndex' = IF i \in 0..nProc - 1 THEN i ELSE procIndex
  /\ IF tooLarge \/ nProc = 0 THEN Return(th)
     ELSE Goto(th, IF pc[th] = "start" THEN "startClear" ELSE "startMTClear")
  /\ UNCHANGED <<registry, opened, flags, nProc, tasks, session>>

\* vGrabTasks.clear(): tasks that are still running are only warned about.
StartClear(th) ==
  /\ pc[th] \in {"startClear", "startMTClear"}
  /\ vGrabTasks' = {}
  /\ pc' = [pc EXCEPT ![th] = IF @ = "startClear" THEN "startTask" ELSE "startMTTask"]
  /\ left' = [left EXCEPT ![th] = vCameraImageFactory]
  /\ UNCHANGED <<registry, opened, flags, procs, mainGrabTask, state, isRun,
                 devs, todo, session>>

\* Mutant: only the main task is put on the list.
MutNewTask(ds, main) ==
  /\ Unused # {}
  /\ vGrabTasks' = IF main THEN vGrabTasks \cup {NextId} ELSE vGrabTasks
  /\ mainGrabTask' = IF main THEN NextId ELSE mainGrabTask
  /\ isRun' = [isRun EXCEPT ![NextId] = TRUE]
  /\ devs' = [devs EXCEPT ![NextId] = ds]
  /\ state' = [state EXCEPT ![NextId] =
                 IF Cardinality(Busy) < MaxThreads THEN "started" ELSE "rejected"]

\* A new task for `ds` is put on the list and given to threadPool, which
\* throws, and leaves it there, if all its threads are busy.
NewTask(ds, main) ==
  /\ Unused # {}
  /\ vGrabTasks' = vGrabTasks \cup {NextId}
  /\ mainGrabTask' = IF main THEN NextId ELSE mainGrabTask
  /\ isRun' = [isRun EXCEPT ![NextId] = TRUE]
  /\ devs' = [devs EXCEPT ![NextId] = ds]
  /\ state' = [state EXCEPT ![NextId] =
                 IF Cardinality(Busy) < MaxThreads THEN "started" ELSE "rejected"]

\* start: one task for all the factories.
StartOne(th) ==
  /\ pc[th] = "startTask"
  /\ NewTask(vCameraImageFactory, TRUE)
  /\ pc' = [pc EXCEPT ![th] = "idle"]
  /\ left' = [left EXCEPT ![th] = {}]
  /\ UNCHANGED <<registry, opened, flags, procs, todo, session>>

\* startMT: a task per factory, the first the main one.
StartMTNext(th) ==
  /\ pc[th] = "startMTTask"
  /\ \E d \in left[th] :
       /\ NewTask({d}, left[th] = vCameraImageFactory)
       /\ left' = [left EXCEPT ![th] = @ \ {d}]
  /\ UNCHANGED <<registry, opened, flags, procs, pc, todo, session>>

StartMTDone(th) ==
  /\ pc[th] = "startMTTask"
  /\ left[th] = {}
  /\ Return(th)
  /\ UNCHANGED <<registry, opened, flags, procs, tasks, session>>

-----------------------------------------------------------------------------
(* stop and invokeStopAndClose.                                            *)

\* Mutant: only the main task is told to end.
MutStopFlag(th) ==
  /\ pc[th] = "stop"
  /\ isRun' = [i \in TaskId |-> isRun[i] /\ i # mainGrabTask]
  /\ Goto(th, "join")
  /\ UNCHANGED <<registry, opened, flags, procs, vGrabTasks, mainGrabTask, state,
                 devs, session>>

StopFlag(th) ==
  /\ pc[th] = "stop"
  /\ isRun' = [i \in TaskId |-> isRun[i] /\ i \notin vGrabTasks]
  /\ Goto(th, "join")
  /\ UNCHANGED <<registry, opened, flags, procs, vGrabTasks, mainGrabTask, state,
                 devs, session>>

\* Mutant: no joinAll().
MutStopJoin(th) ==
  /\ pc[th] = "join"
  /\ Goto(th, "delete")
  /\ UNCHANGED <<registry, opened, flags, procs, tasks, session>>

\* threadPool.joinAll(): every thread of the pool, whatever task it runs.
StopJoin(th) ==
  /\ pc[th] = "join"
  /\ Busy = {}
  /\ Goto(th, "delete")
  /\ UNCHANGED <<registry, opened, flags, procs, tasks, session>>

StopDelete(th) ==
  /\ pc[th] = "delete"
  /\ state' = [i \in TaskId |-> IF i \in vGrabTasks THEN "deleted" ELSE state[i]]
  /\ Goto(th, "forget")
  /\ UNCHANGED <<registry, opened, flags, procs, vGrabTasks, mainGrabTask, isRun,
                 devs, session>>


StopForget(th) ==
  /\ pc[th] = "forget"
  /\ vGrabTasks' = {}
  /\ Goto(th, "forgetMain")
  /\ UNCHANGED <<registry, opened, flags, procs, mainGrabTask, state, isRun, devs, session>>

StopForgetMain(th) ==
  /\ pc[th] = "forgetMain"
  /\ mainGrabTask' = None
  /\ Return(th)
  /\ UNCHANGED <<registry, opened, flags, procs, vGrabTasks, state, isRun, devs, session>>

\* A free thread of threadPoolCMD runs TaskCloseSystem: stop, closeCamera and,
\* if it is asked to, clearProc.  With no free thread the pool throws, and
\* nothing is shut down.
Invoke(cmd, isClearProc) ==
  /\ pc[cmd] = "idle"
  /\ pc' = [pc EXCEPT ![cmd] = "stop"]
  /\ todo' = [todo EXCEPT ![cmd] =
                IF isClearProc THEN <<"close", "clear">> ELSE <<"close">>]
  /\ UNCHANGED left

\* An application thread that has seen the tasks run calls invokeStopAndClose
\* and waits.
AppInvoke(th, isClearProc) ==
  /\ isRunning
  /\ pc[th] = "idle"
  /\ session[th] = "started"
  /\ session' = [session EXCEPT ![th] = Waiting(isClearProc)]
  /\ \E cmd \in Cmd : Invoke(cmd, isClearProc)
  /\ UNCHANGED <<registry, opened, flags, procs, tasks>>

\* A FrameProc calls it from process(), once, while the application waits.
WorkerInvoke(i) ==
  /\ state[i] = "running"
  /\ \A th \in Cmd : pc[th] = "idle"
  /\ \E th \in App, cmd \in Cmd, isClearProc \in ClearModes :
       /\ session[th] = Waiting(isClearProc)
       /\ Invoke(cmd, isClearProc)
  /\ UNCHANGED <<registry, opened, flags, procs, tasks, session>>

-----------------------------------------------------------------------------
(* The grab tasks.                                                         *)

\* run() opens what is not open yet.
WorkerOpen(i) ==
  /\ state[i] = "started"
  /\ devs[i] # {}
  /\ opened' = opened \cup devs[i]
  /\ state' = [state EXCEPT ![i] = "running"]
  /\ UNCHANGED <<registry, flags, procs, vGrabTasks, mainGrabTask, isRun, devs, control>>

\* A device does not open, which ends run(), or throws, which ends the task with
\* isRun as it was; those before it stay open.
WorkerOpenFail(i) ==
  /\ state[i] = "started"
  /\ \E d \in devs[i] \ opened, ok \in SUBSET devs[i], threw \in BOOLEAN :
       /\ d \in ok => threw
       /\ opened' = opened \cup ok
       /\ isRun' = [isRun EXCEPT ![i] = @ /\ threw]
  /\ state' = [state EXCEPT ![i] = "exited"]
  /\ UNCHANGED <<registry, flags, procs, vGrabTasks, mainGrabTask, devs, control>>

\* run() returns: when it sees isRun cleared or, without a factory, at once.
WorkerExit(i) ==
  /\ IF devs[i] = {} THEN state[i] = "started" ELSE state[i] = "running" /\ ~isRun[i]
  /\ state' = [state EXCEPT ![i] = "exited"]
  /\ UNCHANGED <<registry, opened, flags, procs, vGrabTasks, mainGrabTask, isRun, devs,
                 control>>

-----------------------------------------------------------------------------
\* A thread goes on with the call it is in.
Proceed(th) ==
  \/ OpenCheck(th) \/ OpenMark(th) \/ OpenCopy(th) \/ OpenDevices(th) \/ OpenThrow(th)
  \/ OpenMarkOpened(th) \/ OpenDone(th)
  \/ CloseCheckRunning(th) \/ CloseCheck(th) \/ CloseMark(th) \/ Release(th)
  \/ CloseMarkClosed(th) \/ CloseDone(th)
  \/ ClearCheck(th) \/ ClearProcs(th) \/ ClearIndex(th)
  \/ \E i \in -1..MaxProc : StartIndex(th, i)
  \/ StartClear(th) \/ StartOne(th) \/ StartMTNext(th) \/ StartMTDone(th)
  \/ StopFlag(th) \/ StopJoin(th) \/ StopDelete(th)
  \/ StopForget(th) \/ StopForgetMain(th)

Work(i) == WorkerOpen(i) \/ WorkerOpenFail(i) \/ WorkerExit(i)

Next ==
  \/ \E th \in App :
       \/ AppCall(th)
       \/ \E clear \in ClearModes :
            AppInvoke(th, clear) \/ Delegate(th, clear) \/ SeeClosed(th, clear)
       \/ AddProc(th) \/ CallClear(th)
       \/ \E i \in 0..MaxProc - 1 : SetActiveProc(th, i)
  \/ \E th \in Thread : Proceed(th)
  \/ \E i \in TaskId : Work(i) \/ WorkerInvoke(i)
  \/ \E d \in Device : Register(d)

Spec == Init /\ [][Next]_vars

\* Threads are scheduled.  The application need not call anything.
FairSpec ==
  /\ Spec
  /\ \A th \in Thread : WF_vars(Proceed(th))
  /\ \A i \in TaskId : WF_vars(Work(i))

-----------------------------------------------------------------------------
(* Properties.                                                             *)

Labels == {"idle", "open", "openMark", "openCopy", "openDevices", "opened", "openDone",
           "close", "closeCheck", "closeMark", "release", "closed",
           "closeDone", "clear", "clearProcs", "clearIndex", "start", "startMT",
           "startClear", "startMTClear", "startTask", "startMTTask", "stop",
           "join", "delete", "forget", "forgetMain"}

\* Type invariant.
TypeOK ==
  /\ registered \subseteq Device /\ factories \subseteq Device
  /\ vDevices \subseteq Device /\ vCameraImageFactory \subseteq Device
  /\ opened \subseteq Device
  /\ isOpened \in BOOLEAN /\ isOpening \in BOOLEAN /\ isCloseing \in BOOLEAN
  /\ nProc \in Nat /\ procIndex \in Nat
  /\ vGrabTasks \subseteq TaskId
  /\ mainGrabTask \in TaskId \cup {None}
  /\ state \in [TaskId -> {"unused", "started", "running", "exited",
                           "rejected", "deleted"}]
  /\ isRun \in [TaskId -> BOOLEAN]
  /\ devs \in [TaskId -> SUBSET Device]
  /\ pc \in [Thread -> Labels]
  /\ todo \in [Thread -> Seq(Labels)]
  /\ left \in [Thread -> SUBSET Device]
  /\ session \in [App -> {"closed", "opened", "started", "waiting", "clearing", "stopped"}]

\* No task is deleted while the pool runs it, nor touched after it was
\* deleted, whoever calls stop(): the main task that frameCount(), fps() and
\* discardFrame() go through is alive or null, except inside stop().
StopSafe ==
  /\ \A th \in Thread :
       pc[th] \in {"stop", "join", "delete"} =>
         \A i \in vGrabTasks : state[i] # "deleted"
  /\ \A th \in Thread : pc[th] = "delete" => vGrabTasks \cap Busy = {}
  /\ (\A th \in Thread : pc[th] \notin {"forget", "forgetMain"}) /\ mainGrabTask # None =>
       state[mainGrabTask] # "deleted"

\* Every task the pool runs is one that stop() can reach, and one that stop()
\* has not told to end yet is on the list: the warning of start(), "the
\* computation thread is running, this may leak" (MultiCamera.cpp:357), never
\* comes true for an application that opens, starts and shuts down in turn.
NoOrphan == Busy \subseteq vGrabTasks

\* Whenever start() or startMT() gives vProc[_activeProcIndex] to a task, there
\* is such a proc: through adding, activating and clearing procs, an index
\* that start() lets pass though it is too large (MultiCamera.cpp:347), and
\* the clearing by the asynchronous shutdown, which is to come "after closing"
\* (MultiCamera.h:79).
ProcIndexValid ==
  \A th \in Thread :
    (pc[th] = "startTask" \/ (pc[th] = "startMTTask" /\ left[th] # {})) => procIndex < nProc

\* closeCamera releases the devices under no task's feet, also when it is
\* called too early (MultiCamera.cpp:264).
NoReleaseInUse == \A th \in Thread : pc[th] = "release" => Busy = {}

\* While the system is neither open nor opening, no device that it knows is open:
\* whichever devices opened, were added later or were reopened by a task.  It
\* says nothing of a device that CameraManger refused, nor of a system that an
\* exception or the lack of devices has left "opening".
ClosedReleases == ~isOpened /\ ~isOpening => opened \cap vDevices = {}

\* closeCamera "closes all cameras" (MultiCamera.h:38), so between calls a system
\* that says it is closed has none open.  The code breaks it: an exception out of
\* openCamera leaves devices open with _isOpened FALSE, and closeCamera refuses.
\* So does a device that CameraManger refused because of its name: the grab tasks
\* open it, and closeCamera does not know it.
ClosedMeansReleased ==
  (\A th \in Thread : pc[th] = "idle") /\ ~isOpened => opened = {}

\* stop() returns: joinAll() waits for every thread of the pool, and each of
\* them was told to end.
StopReturns == \A th \in Thread : pc[th] = "join" ~> pc[th] # "join"

=============================================================================
