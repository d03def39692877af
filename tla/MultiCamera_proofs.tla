-------------------------- MODULE MultiCamera_proofs --------------------------
(***************************************************************************)
(* Proofs about the life cycle for one application thread and any number   *)
(* of command threads, worker threads, devices and tasks.                  *)
(*                                                                         *)
(* The argument: a command thread is inside a shutdown, up to the step     *)
(* that clears _isOpened, only while the application waits (Shutting), so  *)
(* at any time one thread at most is in stop(); tasks are on the list only *)
(* between a start and the stop of the session, and while the system is    *)
(* open (Listed).  All the rest follows from where that thread is.         *)
(***************************************************************************)
EXTENDS MultiCamera, TLAPS

StopLabels  == {"stop", "join", "delete", "forget", "forgetMain"}
CloseLabels == {"close", "closeCheck", "closeMark", "release", "closed"}
ClearLabels == {"clear", "clearProcs", "clearIndex"}
StartLabels == {"start", "startMT", "startClear", "startMTClear", "startTask", "startMTTask"}
OpenLabels  == {"open", "openMark", "openCopy", "openDevices", "opened", "openDone"}

\* The application is the one thread that the code's tests have.
SingleSession == \E a : App = {a}

\* What the application does, by what it believes.
SessionInv ==
  \A a \in App :
    /\ todo[a] = <<>>
    /\ pc[a] \in OpenLabels => session[a] = "opened"
    /\ pc[a] \in StartLabels => session[a] = "started"
    /\ pc[a] \in StopLabels => session[a] = "stopped"
    /\ pc[a] \in CloseLabels \cup {"closeDone"} => session[a] \in {"closed", "started"}
    /\ pc[a] \in ClearLabels => session[a] \in {"closed", "opened", "started"}

\* What TaskCloseSystem has still to do, by what it does.
TodoInv ==
  \A c \in Cmd :
    /\ pc[c] \in {"idle", "closeDone"} \cup StopLabels \cup CloseLabels \cup ClearLabels
    /\ pc[c] \in StopLabels => todo[c] \in {<<"close">>, <<"close", "clear">>}
    /\ pc[c] \in CloseLabels \cup {"closeDone"} => todo[c] \in {<<>>, <<"clear">>}
    /\ pc[c] \in ClearLabels \cup {"idle"} => todo[c] = <<>>

\* A shutdown under way is the only one, and the application waits for it.
Shutting ==
  \A c \in Cmd :
    pc[c] \in StopLabels \cup CloseLabels =>
      /\ isOpened
      /\ \A a \in App : pc[a] = "idle" /\ session[a] \in {"waiting", "clearing"}
      /\ \A c2 \in Cmd : pc[c2] \in StopLabels \cup CloseLabels => c2 = c

\* Where the system is open.  An opening that ends without success stays marked
\* as under way.
OpenInv ==
  \A a \in App :
    /\ pc[a] \in {"openCopy", "openDevices", "opened", "openDone"} => isOpening
    /\ session[a] = "opened" /\ pc[a] \notin OpenLabels \ {"openDone"} => isOpened
    /\ pc[a] \in StartLabels => isOpened

\* Where tasks can be on the list.
Listed ==
  /\ vGrabTasks # {} =>
       /\ isOpened
       /\ \A a \in App :
            /\ session[a] \in {"started", "waiting", "clearing", "stopped"}
            /\ session[a] = "stopped" => pc[a] \in StopLabels
            /\ pc[a] \notin {"start", "startMT", "startClear", "startMTClear", "startTask"}
  /\ \A th \in Thread :
       pc[th] \in {"forgetMain", "closeCheck", "closeMark", "release", "closed"} =>
         vGrabTasks = {}
  /\ mainGrabTask \in vGrabTasks \cup {None} \/ \E th \in Thread : pc[th] = "forgetMain"

\* Where tasks run, and where they are gone.
Running ==
  /\ Busy \subseteq vGrabTasks
  /\ \A th \in Thread : pc[th] \in {"delete", "forget", "forgetMain"} => Busy = {}
  /\ \A i \in vGrabTasks : state[i] = "deleted" => \E th \in Thread : pc[th] = "forget"

\* What is open, of the devices that the system knows.
Opened ==
  /\ \A th \in Thread : pc[th] = "closed" => opened \cap vDevices = {}
  /\ ClosedReleases

\* The inductive invariant.
IInv == TypeOK /\ SessionInv /\ TodoInv /\ Shutting /\ OpenInv /\ Listed /\ Running /\ Opened

-----------------------------------------------------------------------------
\* What a thread does that returns from a call.
Returned(th) ==
  /\ pc' \in [Thread -> Labels] /\ todo' \in [Thread -> Seq(Labels)] /\ left' = left
  /\ \/ /\ todo[th] = <<>>
        /\ pc' = [pc EXCEPT ![th] = "idle"] /\ todo' = todo
     \/ /\ todo[th] = <<"clear">>
        /\ pc' = [pc EXCEPT ![th] = "clear"] /\ todo' = [todo EXCEPT ![th] = <<>>]
     \/ /\ todo[th] = <<"close">>
        /\ pc' = [pc EXCEPT ![th] = "close"] /\ todo' = [todo EXCEPT ![th] = <<>>]
     \/ /\ todo[th] = <<"close", "clear">>
        /\ pc' = [pc EXCEPT ![th] = "close"] /\ todo' = [todo EXCEPT ![th] = <<"clear">>]

\* Where a return leads: the caller, or the next call of TaskCloseSystem::run.
LEMMA ReturnGoes ==
  ASSUME TypeOK, SessionInv, TodoInv, NEW th \in Thread, Return(th)
  PROVE  Returned(th)
<1>1. todo[th] \in {<<>>, <<"clear">>, <<"close">>, <<"close", "clear">>}
  BY DEF SessionInv, TodoInv, Thread, StopLabels, CloseLabels, ClearLabels
<1>2. CASE todo[th] = <<>>
  BY <1>2 DEF Return, Returned, TypeOK, Labels
<1>3. CASE todo[th] = <<"clear">>
  <2>1. Head(todo[th]) = "clear" /\ Tail(todo[th]) = <<>> /\ todo[th] # <<>>
    BY <1>3
  <2> QED
    BY <1>3, <2>1 DEF Return, Returned, TypeOK, Labels
<1>4. CASE todo[th] = <<"close">>
  <2>1. Head(todo[th]) = "close" /\ Tail(todo[th]) = <<>> /\ todo[th] # <<>>
    BY <1>4
  <2> QED
    BY <1>4, <2>1 DEF Return, Returned, TypeOK, Labels
<1>5. CASE todo[th] = <<"close", "clear">>
  <2>1. Head(todo[th]) = "close" /\ Tail(todo[th]) = <<"clear">> /\ todo[th] # <<>>
    BY <1>5
  <2>2. <<"clear">> \in Seq(Labels)
    BY DEF Labels
  <2> QED
    BY <1>5, <2>1, <2>2 DEF Return, Returned, TypeOK, Labels
<1> QED
  BY <1>1, <1>2, <1>3, <1>4, <1>5

\* A command thread that begins a shutdown.
LEMMA InvokeGoes ==
  ASSUME TypeOK, NEW cmd \in Cmd, NEW isClearProc \in BOOLEAN, Invoke(cmd, isClearProc)
  PROVE  /\ pc' \in [Thread -> Labels] /\ todo' \in [Thread -> Seq(Labels)] /\ left' = left
         /\ ~isClearProc => todo' = [todo EXCEPT ![cmd] = <<"close">>]
<1>1. <<"close">> \in Seq(Labels) /\ <<"close", "clear">> \in Seq(Labels)
  BY DEF Labels
<1>2. pc' \in [Thread -> Labels] /\ left' = left
  BY DEF Invoke, TypeOK, Labels
<1>3. todo \in [Thread -> Seq(Labels)]
  BY DEF TypeOK
<1> DEFINE Calls == Seq(Labels)
           one   == <<"close">>
           two   == <<"close", "clear">>
<1>4. todo' = [todo EXCEPT ![cmd] = IF isClearProc THEN two ELSE one]
  BY Zenon DEF Invoke
<1> HIDE DEF Calls, one, two
<1>5. one \in Calls /\ two \in Calls /\ todo \in [Thread -> Calls]
  BY <1>1, <1>3 DEF Calls, one, two
<1>6. todo' \in [Thread -> Calls] /\ (~isClearProc => todo' = [todo EXCEPT ![cmd] = one])
  BY <1>4, <1>5
<1> QED
  BY <1>2, <1>6, Zenon DEF Calls, one

\* What a start does to the tasks: one more, on the list and running or not.
LEMMA NewTaskIs ==
  ASSUME TypeOK, NEW ds \in SUBSET Device, NEW main \in BOOLEAN, NewTask(ds, main)
  PROVE  \E n \in TaskId :
           /\ state[n] = "unused"
           /\ vGrabTasks' = vGrabTasks \cup {n}
           /\ mainGrabTask' \in {mainGrabTask, n}
           /\ isRun' = [isRun EXCEPT ![n] = TRUE]
           /\ devs' = [devs EXCEPT ![n] = ds]
           /\ state' \in [TaskId -> {"unused", "started", "running", "exited",
                                     "rejected", "deleted"}]
           /\ state'[n] \in {"started", "rejected"}
           /\ \A i \in TaskId \ {n} : state'[i] = state[i]
<1>1. NextId \in Unused
  BY DEF NewTask, NextId
<1>2. NextId \in TaskId /\ state[NextId] = "unused"
  BY <1>1 DEF Unused
<1> USE <1>2
<1> WITNESS NextId \in TaskId
<1> QED
  BY <1>2 DEF NewTask, TypeOK

\* Opening.
LEMMA OpenStep ==
  ASSUME NEW a, App = {a}, IInv, NEW th \in Thread,
         \/ OpenCheck(th) \/ OpenMark(th) \/ OpenCopy(th) \/ OpenDevices(th)
         \/ OpenThrow(th) \/ OpenMarkOpened(th) \/ OpenDone(th)
  PROVE  IInv'
<1> USE DEF IInv, TypeOK, SessionInv, TodoInv, Shutting, OpenInv, Listed, Running, Opened,
            ClosedReleases, Labels, StopLabels, CloseLabels, ClearLabels, StartLabels,
            OpenLabels, Thread, Busy, isRunning, Goto, flags, registry, procs, tasks, control
<1>0. App \cap Cmd = {}
  BY ThreadAssumption
<1>1. CASE OpenCheck(th)
  <2>0. OpenRefused(th) => Returned(th)
    BY ReturnGoes DEF OpenRefused
  <2>1. TypeOK'
    BY <1>1, <2>0 DEF OpenCheck, OpenRefused, Returned
  <2>2. SessionInv'
    BY <1>0, <1>1 DEF Return, OpenRefused, OpenCheck
  <2>3. TodoInv'
    BY <1>0, <1>1 DEF Return, OpenRefused, OpenCheck
  <2>4. Shutting'
    BY <1>0, <1>1 DEF Return, OpenRefused, OpenCheck
  <2>5. OpenInv'
    BY <1>0, <1>1 DEF Return, OpenRefused, OpenCheck
  <2>6. Listed'
    BY <1>0, <1>1 DEF Return, OpenRefused, OpenCheck
  <2>7. Running'
    BY <1>0, <1>1 DEF Return, OpenRefused, OpenCheck
  <2>8. Opened'
    BY <1>0, <1>1 DEF Return, OpenRefused, OpenCheck
  <2> QED
    BY <2>1, <2>2, <2>3, <2>4, <2>5, <2>6, <2>7, <2>8
<1>2. CASE OpenMark(th)
  BY <1>0, <1>2, SMTT(20) DEF OpenMark
<1>3. CASE OpenCopy(th)
  <2>0. OpenRefused(th) => Returned(th)
    BY ReturnGoes DEF OpenRefused
  <2>1. TypeOK'
    BY <1>3, <2>0 DEF OpenCopy, OpenRefused, Returned
  <2>2. SessionInv'
    BY <1>0, <1>3 DEF Return, OpenRefused, OpenCopy
  <2>3. TodoInv'
    BY <1>0, <1>3 DEF Return, OpenRefused, OpenCopy
  <2>4. Shutting'
    BY <1>0, <1>3 DEF Return, OpenRefused, OpenCopy
  <2>5. OpenInv'
    BY <1>0, <1>3 DEF Return, OpenRefused, OpenCopy
  <2>6. Listed'
    BY <1>0, <1>3 DEF Return, OpenRefused, OpenCopy
  <2>7. Running'
    BY <1>0, <1>3 DEF Return, OpenRefused, OpenCopy
  <2>8. Opened'
    BY <1>0, <1>3 DEF Return, OpenRefused, OpenCopy
  <2> QED
    BY <2>1, <2>2, <2>3, <2>4, <2>5, <2>6, <2>7, <2>8
<1>4. CASE OpenDevices(th)
  BY <1>0, <1>4, SMTT(20) DEF OpenDevices
<1>5. CASE OpenThrow(th)
  <2>0. OpenRefused(th) => Returned(th)
    BY ReturnGoes DEF OpenRefused
  <2>1. TypeOK'
    BY <1>5, <2>0 DEF OpenThrow, OpenRefused, Returned
  <2>2. SessionInv'
    BY <1>0, <1>5 DEF Return, OpenRefused, OpenThrow
  <2>3. TodoInv'
    BY <1>0, <1>5 DEF Return, OpenRefused, OpenThrow
  <2>4. Shutting'
    BY <1>0, <1>5 DEF Return, OpenRefused, OpenThrow
  <2>5. OpenInv'
    BY <1>0, <1>5 DEF Return, OpenRefused, OpenThrow
  <2>6. Listed'
    BY <1>0, <1>5 DEF Return, OpenRefused, OpenThrow
  <2>7. Running'
    BY <1>0, <1>5 DEF Return, OpenRefused, OpenThrow
  <2>8. Opened'
    BY <1>0, <1>5 DEF Return, OpenRefused, OpenThrow
  <2> QED
    BY <2>1, <2>2, <2>3, <2>4, <2>5, <2>6, <2>7, <2>8
<1>6. CASE OpenMarkOpened(th)
  BY <1>0, <1>6, SMTT(20) DEF OpenMarkOpened
<1>7. CASE OpenDone(th)
  <2>0. Returned(th)
    BY <1>7, ReturnGoes DEF OpenDone
  <2>1. TypeOK'
    BY <1>7, <2>0 DEF OpenDone, Returned
  <2>2. SessionInv'
    BY <1>0, <1>7 DEF Return, OpenDone
  <2>3. TodoInv'
    BY <1>0, <1>7 DEF Return, OpenDone
  <2>4. Shutting'
    BY <1>0, <1>7 DEF Return, OpenDone
  <2>5. OpenInv'
    BY <1>0, <1>7 DEF Return, OpenDone
  <2>6. Listed'
    BY <1>0, <1>7 DEF Return, OpenDone
  <2>7. Running'
    BY <1>0, <1>7 DEF Return, OpenDone
  <2>8. Opened'
    BY <1>0, <1>7 DEF Return, OpenDone
  <2> QED
    BY <2>1, <2>2, <2>3, <2>4, <2>5, <2>6, <2>7, <2>8
<1> QED
  BY <1>1, <1>2, <1>3, <1>4, <1>5, <1>6, <1>7

\* Closing: what is released was let go by the tasks.
LEMMA CloseStep ==
  ASSUME NEW a, App = {a}, IInv, NEW th \in Thread,
         CloseCheckRunning(th) \/ CloseCheck(th) \/ CloseMark(th)
           \/ Release(th) \/ CloseMarkClosed(th) \/ CloseDone(th)
  PROVE  IInv'
<1> USE DEF IInv, TypeOK, SessionInv, TodoInv, Shutting, OpenInv, Listed, Running, Opened,
            ClosedReleases, Labels, StopLabels, CloseLabels, ClearLabels, StartLabels,
            OpenLabels, Thread, Busy, isRunning, Goto, flags, registry, procs, tasks, control
<1>0. App \cap Cmd = {}
  BY ThreadAssumption
<1>1. CASE CloseCheckRunning(th)
  <2>1. CASE isRunning
    <3>0. Returned(th)
      BY <1>1, <2>1, ReturnGoes DEF CloseCheckRunning
    <3>1. TypeOK'
      BY <1>1, <2>1, <3>0 DEF CloseCheckRunning, Returned
    <3>2. TodoInv'
      <4> HIDE DEF SessionInv, Shutting, OpenInv, Listed, Opened, isRunning
      <4> QED
        BY <1>0, <1>1, <3>0 DEF CloseCheckRunning, Returned
    <3>3. Running'
      <4> HIDE DEF SessionInv, Shutting, OpenInv, Listed, Opened, isRunning
      <4> QED
        BY <1>0, <1>1, <3>0 DEF CloseCheckRunning, Returned
    <3>4. SessionInv'
      BY <1>0, <1>1, <2>1 DEF Return, CloseCheckRunning
    <3>5. Shutting'
      BY <1>0, <1>1, <2>1 DEF Return, CloseCheckRunning
    <3>6. OpenInv'
      BY <1>0, <1>1, <2>1 DEF Return, CloseCheckRunning
    <3>7. Listed'
      BY <1>0, <1>1, <2>1 DEF Return, CloseCheckRunning
    <3>8. Opened'
      BY <1>0, <1>1, <2>1 DEF Return, CloseCheckRunning
    <3> QED
      BY <3>1, <3>2, <3>3, <3>4, <3>5, <3>6, <3>7, <3>8
  <2>2. CASE ~isRunning
    <3>1. TypeOK'
      BY <1>0, <1>1, <2>2 DEF CloseCheckRunning
    <3>2. SessionInv'
      BY <1>0, <1>1, <2>2 DEF CloseCheckRunning
    <3>3. TodoInv'
      BY <1>0, <1>1, <2>2 DEF CloseCheckRunning
    <3>4. Shutting'
      BY <1>0, <1>1, <2>2 DEF CloseCheckRunning
    <3>5. OpenInv'
      BY <1>0, <1>1, <2>2 DEF CloseCheckRunning
    <3>6. Listed'
      BY <1>0, <1>1, <2>2 DEF CloseCheckRunning
    <3>7. Running'
      BY <1>0, <1>1, <2>2 DEF CloseCheckRunning
    <3>8. Opened'
      BY <1>0, <1>1, <2>2 DEF CloseCheckRunning
    <3> QED
      BY <3>1, <3>2, <3>3, <3>4, <3>5, <3>6, <3>7, <3>8
  <2> QED
    BY <2>1, <2>2
<1>2. CASE CloseCheck(th)
  <2>1. CASE ~isOpened \/ isCloseing
    <3>0. Returned(th)
      BY <1>2, <2>1, ReturnGoes DEF CloseCheck
    <3>1. TypeOK'
      <4> HIDE DEF SessionInv, TodoInv, Shutting, OpenInv, Listed, Running, Opened, isRunning,
                   ClosedReleases
      <4> QED
        BY <1>2, <3>0, SMTT(30) DEF CloseCheck, Returned
    <3>2. TodoInv'
      <4>1. pc \in [Thread -> Labels] /\ todo \in [Thread -> Seq(Labels)] /\ pc[th] = "closeCheck"
        BY <1>2 DEF CloseCheck
      <4>2. th \in Cmd => todo[th] \in {<<>>, <<"clear">>}
        BY <1>0, <4>1
      <4>3. th \in Cmd =>
              \/ pc' = [pc EXCEPT ![th] = "idle"] /\ todo' = todo /\ todo[th] = <<>>
              \/ pc' = [pc EXCEPT ![th] = "clear"] /\ todo' = [todo EXCEPT ![th] = <<>>]
        <5>1. /\ <<"close">> \notin {<<>>, <<"clear">>}
              /\ <<"close", "clear">> \notin {<<>>, <<"clear">>}
          OBVIOUS
        <5> HIDE DEF IInv, TypeOK, SessionInv, TodoInv, Shutting, OpenInv, Listed, Running,
                     Opened, isRunning, ClosedReleases, Labels
        <5> QED
          BY <3>0, <4>2, <5>1 DEF Returned
      <4>4. th \notin Cmd => \A c \in Cmd : pc'[c] = pc[c] /\ todo'[c] = todo[c]
        BY <3>0, <4>1 DEF Returned
      <4> HIDE DEF TypeOK, SessionInv, Shutting, OpenInv, Listed, Running, Opened, isRunning,
                   ClosedReleases, Labels
      <4> QED
        BY <4>1, <4>3, <4>4
    <3>3. SessionInv'
      BY <1>0, <1>2, <2>1 DEF Return, CloseCheck
    <3>4. Shutting'
      BY <1>0, <1>2, <2>1 DEF Return, CloseCheck
    <3>5. OpenInv'
      BY <1>0, <1>2, <2>1 DEF Return, CloseCheck
    <3>6. Listed'
      BY <1>0, <1>2, <2>1 DEF Return, CloseCheck
    <3>7. Running'
      BY <1>0, <1>2, <2>1 DEF Return, CloseCheck
    <3>8. Opened'
      BY <1>0, <1>2, <2>1 DEF Return, CloseCheck
    <3> QED
      BY <3>1, <3>2, <3>3, <3>4, <3>5, <3>6, <3>7, <3>8
  <2>2. CASE ~(~isOpened \/ isCloseing)
    <3>1. TypeOK'
      <4> HIDE DEF SessionInv, TodoInv, Shutting, OpenInv, Listed, Running, Opened, isRunning,
                   ClosedReleases
      <4> QED
        BY <1>2, <2>2 DEF CloseCheck
    <3>2. SessionInv'
      BY <1>0, <1>2, <2>2 DEF CloseCheck
    <3>3. TodoInv'
      BY <1>0, <1>2, <2>2 DEF CloseCheck
    <3>4. Shutting'
      BY <1>0, <1>2, <2>2 DEF CloseCheck
    <3>5. OpenInv'
      BY <1>0, <1>2, <2>2 DEF CloseCheck
    <3>6. Listed'
      BY <1>0, <1>2, <2>2 DEF CloseCheck
    <3>7. Running'
      BY <1>0, <1>2, <2>2 DEF CloseCheck
    <3>8. Opened'
      BY <1>0, <1>2, <2>2 DEF CloseCheck
    <3> QED
      BY <3>1, <3>2, <3>3, <3>4, <3>5, <3>6, <3>7, <3>8
  <2> QED
    BY <2>1, <2>2
<1>3. CASE CloseMark(th)
  BY <1>0, <1>3 DEF CloseMark
<1>4. CASE Release(th)
  BY <1>0, <1>4 DEF Release
<1>5. CASE CloseMarkClosed(th)
  <2>1. TypeOK'
    BY <1>0, <1>5 DEF CloseMarkClosed
  <2>2. SessionInv'
    BY <1>0, <1>5 DEF CloseMarkClosed
  <2>3. TodoInv'
    BY <1>0, <1>5 DEF CloseMarkClosed
  <2>4. Shutting'
    BY <1>0, <1>5 DEF CloseMarkClosed
  <2>5. OpenInv'
    BY <1>0, <1>5 DEF CloseMarkClosed
  <2>6. Listed'
    BY <1>0, <1>5 DEF CloseMarkClosed
  <2>7. Running'
    BY <1>0, <1>5 DEF CloseMarkClosed
  <2>8. Opened'
    BY <1>0, <1>5 DEF CloseMarkClosed
  <2> QED
    BY <2>1, <2>2, <2>3, <2>4, <2>5, <2>6, <2>7, <2>8
<1>6. CASE CloseDone(th)
  <2>0. Returned(th)
    BY <1>6, ReturnGoes DEF CloseDone
  <2>1. TypeOK'
    BY <1>6, <2>0 DEF CloseDone, Returned
  <2>2. SessionInv'
    BY <1>0, <1>6 DEF Return, CloseDone
  <2>3. TodoInv'
    BY <1>0, <1>6 DEF Return, CloseDone
  <2>4. Shutting'
    BY <1>0, <1>6 DEF Return, CloseDone
  <2>5. OpenInv'
    BY <1>0, <1>6 DEF Return, CloseDone
  <2>6. Listed'
    BY <1>0, <1>6 DEF Return, CloseDone
  <2>7. Running'
    BY <1>0, <1>6 DEF Return, CloseDone
  <2>8. Opened'
    BY <1>0, <1>6 DEF Return, CloseDone
  <2> QED
    BY <2>1, <2>2, <2>3, <2>4, <2>5, <2>6, <2>7, <2>8
<1> QED
  BY <1>1, <1>2, <1>3, <1>4, <1>5, <1>6

\* Clearing the procs.
LEMMA ClearStep ==
  ASSUME NEW a, App = {a}, IInv, NEW th \in Thread,
         ClearCheck(th) \/ ClearProcs(th) \/ ClearIndex(th)
  PROVE  IInv'
<1> USE DEF IInv, TypeOK, SessionInv, TodoInv, Shutting, OpenInv, Listed, Running, Opened,
            ClosedReleases, Labels, StopLabels, CloseLabels, ClearLabels, StartLabels,
            OpenLabels, Thread, Busy, isRunning, Goto, flags, registry, procs, tasks, control
<1>0. App \cap Cmd = {}
  BY ThreadAssumption
<1>1. CASE ClearCheck(th)
  <2>1. TypeOK'
    <3>1. CASE isRunning
      BY <1>1, <3>1, ReturnGoes DEF ClearCheck, Returned
    <3>2. CASE ~isRunning
      BY <1>1, <3>2 DEF ClearCheck
    <3> QED
      BY <3>1, <3>2
  <2>2. SessionInv'
    BY <1>0, <1>1 DEF Return, ClearCheck
  <2>3. TodoInv'
    BY <1>0, <1>1 DEF Return, ClearCheck
  <2>4. Shutting'
    BY <1>0, <1>1 DEF Return, ClearCheck
  <2>5. OpenInv'
    BY <1>0, <1>1 DEF Return, ClearCheck
  <2>6. Listed'
    BY <1>0, <1>1 DEF Return, ClearCheck
  <2>7. Running'
    BY <1>0, <1>1 DEF Return, ClearCheck
  <2>8. Opened'
    BY <1>0, <1>1 DEF Return, ClearCheck
  <2> QED
    BY <2>1, <2>2, <2>3, <2>4, <2>5, <2>6, <2>7, <2>8
<1>2. CASE ClearProcs(th)
  BY <1>0, <1>2 DEF ClearProcs
<1>3. CASE ClearIndex(th)
  BY <1>0, <1>3, SMTT(20) DEF Return, ClearIndex
<1> QED
  BY <1>1, <1>2, <1>3

\* Starting: the only thread that makes tasks, with none on the list before.
LEMMA StartStep ==
  ASSUME NEW a, App = {a}, IInv, NEW th \in Thread,
         StartClear(th) \/ StartOne(th) \/ StartMTNext(th) \/ StartMTDone(th)
  PROVE  IInv'
<1> USE DEF IInv, TypeOK, SessionInv, TodoInv, Shutting, OpenInv, Listed, Running, Opened,
            ClosedReleases, Labels, StopLabels, CloseLabels, ClearLabels, StartLabels,
            OpenLabels, Thread, Busy, isRunning, Goto, flags, registry, procs, tasks, control
<1>0. App \cap Cmd = {}
  BY ThreadAssumption
<1>1. CASE StartClear(th)
  <2>1. TypeOK'
    BY <1>0, <1>1 DEF StartClear
  <2>2. SessionInv'
    BY <1>0, <1>1 DEF StartClear
  <2>3. TodoInv'
    BY <1>0, <1>1 DEF StartClear
  <2>4. Shutting'
    BY <1>0, <1>1 DEF StartClear
  <2>5. OpenInv'
    BY <1>0, <1>1 DEF StartClear
  <2>6. Listed'
    BY <1>0, <1>1 DEF StartClear
  <2>7. Running'
    <3>1. vGrabTasks = {} /\ Busy = {}
      BY <1>0, <1>1 DEF StartClear
    <3>2. state' = state /\ vGrabTasks' = {}
      BY <1>1 DEF StartClear
    <3> HIDE DEF TypeOK, SessionInv, TodoInv, Shutting, OpenInv, Listed, Opened, ClosedReleases
    <3> QED
      BY <3>1, <3>2
  <2>8. Opened'
    BY <1>0, <1>1 DEF StartClear
  <2> QED
    BY <2>1, <2>2, <2>3, <2>4, <2>5, <2>6, <2>7, <2>8
<1>2. CASE StartOne(th)
  <2>1. vCameraImageFactory \in SUBSET Device /\ NewTask(vCameraImageFactory, TRUE)
    BY <1>2 DEF StartOne
  <2>2. PICK n \in TaskId :
            /\ state[n] = "unused"
            /\ vGrabTasks' = vGrabTasks \cup {n}
            /\ mainGrabTask' \in {mainGrabTask, n}
            /\ isRun' = [isRun EXCEPT ![n] = TRUE]
            /\ devs' = [devs EXCEPT ![n] = vCameraImageFactory]
            /\ state' \in [TaskId -> {"unused", "started", "running", "exited",
                                      "rejected", "deleted"}]
            /\ state'[n] \in {"started", "rejected"}
            /\ \A j \in TaskId \ {n} : state'[j] = state[j]
    <3> HIDE DEF IInv, TypeOK, SessionInv, TodoInv, Shutting, OpenInv, Listed, Running, Opened
    <3> QED
      BY <2>1, NewTaskIs, Zenon DEF IInv
  <2>3. TypeOK'
    BY <1>0, <1>2, <2>2 DEF StartOne
  <2>4. SessionInv'
    BY <1>0, <1>2, <2>2 DEF StartOne
  <2>5. TodoInv'
    BY <1>0, <1>2, <2>2 DEF StartOne
  <2>6. Shutting'
    BY <1>0, <1>2, <2>2 DEF StartOne
  <2>7. OpenInv'
    BY <1>0, <1>2, <2>2 DEF StartOne
  <2>8. Listed'
    BY <1>0, <1>2, <2>2 DEF StartOne
  <2>9. Running'
    BY <1>0, <1>2, <2>2 DEF StartOne
  <2>10. Opened'
    BY <1>0, <1>2, <2>2 DEF StartOne
  <2> QED
    BY <2>3, <2>4, <2>5, <2>6, <2>7, <2>8, <2>9, <2>10
<1>3. CASE StartMTNext(th)
  <2>0. PICK d \in left[th] :
            /\ NewTask({d}, left[th] = vCameraImageFactory)
            /\ left' = [left EXCEPT ![th] = @ \ {d}]
    BY <1>3 DEF StartMTNext
  <2>1. {d} \in SUBSET Device /\ (left[th] = vCameraImageFactory) \in BOOLEAN
    BY <2>0
  <2>2. PICK n \in TaskId :
            /\ state[n] = "unused"
            /\ vGrabTasks' = vGrabTasks \cup {n}
            /\ mainGrabTask' \in {mainGrabTask, n}
            /\ isRun' = [isRun EXCEPT ![n] = TRUE]
            /\ devs' = [devs EXCEPT ![n] = {d}]
            /\ state' \in [TaskId -> {"unused", "started", "running", "exited",
                                      "rejected", "deleted"}]
            /\ state'[n] \in {"started", "rejected"}
            /\ \A j \in TaskId \ {n} : state'[j] = state[j]
    <3> HIDE DEF IInv, TypeOK, SessionInv, TodoInv, Shutting, OpenInv, Listed, Running, Opened
    <3> QED
      BY <2>0, <2>1, NewTaskIs, Zenon DEF IInv
  <2>3. TypeOK'
    BY <1>0, <1>3, <2>0, <2>2 DEF StartMTNext
  <2>4. SessionInv'
    BY <1>0, <1>3, <2>0, <2>2 DEF StartMTNext
  <2>5. TodoInv'
    BY <1>0, <1>3, <2>0, <2>2 DEF StartMTNext
  <2>6. Shutting'
    BY <1>0, <1>3, <2>0, <2>2 DEF StartMTNext
  <2>7. OpenInv'
    BY <1>0, <1>3, <2>0, <2>2 DEF StartMTNext
  <2>8. Listed'
    BY <1>0, <1>3, <2>0, <2>2 DEF StartMTNext
  <2>9. Running'
    BY <1>0, <1>3, <2>0, <2>2 DEF StartMTNext
  <2>10. Opened'
    BY <1>0, <1>3, <2>0, <2>2 DEF StartMTNext
  <2> QED
    BY <2>3, <2>4, <2>5, <2>6, <2>7, <2>8, <2>9, <2>10
<1>4. CASE StartMTDone(th)
  BY <1>0, <1>4, SMTT(20) DEF Return, StartMTDone
<1> QED
  BY <1>1, <1>2, <1>3, <1>4

\* Stopping: the list is forgotten when nothing runs any more.
LEMMA StopStep ==
  ASSUME NEW a, App = {a}, IInv, NEW th \in Thread,
         \/ StopFlag(th) \/ StopJoin(th) \/ StopDelete(th)
         \/ StopForget(th) \/ StopForgetMain(th)
  PROVE  IInv'
<1> USE DEF IInv, TypeOK, SessionInv, TodoInv, Shutting, OpenInv, Listed, Running, Opened,
            ClosedReleases, Labels, StopLabels, CloseLabels, ClearLabels, StartLabels,
            OpenLabels, Thread, Busy, isRunning, Goto, flags, registry, procs, tasks, control
<1>0. App \cap Cmd = {}
  BY ThreadAssumption
<1>1. CASE StopFlag(th)
  BY <1>0, <1>1 DEF StopFlag
<1>2. CASE StopJoin(th)
  BY <1>0, <1>2 DEF StopJoin
<1>3. CASE StopDelete(th)
  BY <1>0, <1>3 DEF StopDelete
<1>4. CASE StopForget(th)
  BY <1>0, <1>4, SMTT(20) DEF StopForget
<1>5. CASE StopForgetMain(th)
  <2>0. Returned(th)
    BY <1>5, ReturnGoes DEF StopForgetMain
  <2>1. TypeOK'
    BY <1>5, <2>0 DEF StopForgetMain, Returned
  <2>2. TodoInv'
    BY <1>0, <1>5, <2>0 DEF StopForgetMain, Returned
  <2>3. SessionInv'
    BY <1>0, <1>5 DEF Return, StopForgetMain
  <2>4. Shutting'
    BY <1>0, <1>5 DEF Return, StopForgetMain
  <2>5. OpenInv'
    BY <1>0, <1>5 DEF Return, StopForgetMain
  <2>6. Listed'
    BY <1>0, <1>5 DEF Return, StopForgetMain
  <2>7. Running'
    BY <1>0, <1>5 DEF Return, StopForgetMain
  <2>8. Opened'
    BY <1>0, <1>5 DEF Return, StopForgetMain
  <2> QED
    BY <2>1, <2>2, <2>3, <2>4, <2>5, <2>6, <2>7, <2>8
<1> QED
  BY <1>1, <1>2, <1>3, <1>4, <1>5

\* The application begins a call.
LEMMA CallStep ==
  ASSUME NEW a, App = {a}, IInv, NEW th \in App,
         AppCall(th) \/ AddProc(th) \/ CallClear(th)
           \/ \E i \in 0..MaxProc - 1 : SetActiveProc(th, i)
  PROVE  IInv'
<1> USE DEF IInv, TypeOK, SessionInv, TodoInv, Shutting, OpenInv, Listed, Running, Opened,
            ClosedReleases, Labels, StopLabels, CloseLabels, ClearLabels, StartLabels,
            OpenLabels, Thread, Busy, isRunning, Goto, flags, registry, procs, tasks, control
<1>0. App \cap Cmd = {}
  BY ThreadAssumption
<1>1. CASE AppCall(th) /\ CallOpen(th)
  BY <1>0, <1>1, SMTT(20) DEF AppCall, CallOpen, Call
<1>2. CASE AppCall(th) /\ CallStart(th)
  BY <1>0, <1>2, SMTT(20) DEF AppCall, CallStart, Call
<1>3. CASE AppCall(th) /\ CallStop(th)
  BY <1>0, <1>3, SMTT(20) DEF AppCall, CallStop, Call
<1>4. CASE AppCall(th) /\ CallClose(th)
  BY <1>0, <1>4, SMTT(20) DEF AppCall, CallClose, Call
<1>5. CASE AddProc(th)
  BY <1>0, <1>5, SMTT(20) DEF AddProc
<1>6. CASE CallClear(th)
  BY <1>0, <1>6, SMTT(20) DEF CallClear, Free
<1>7. CASE \E i \in 0..MaxProc - 1 : SetActiveProc(th, i)
  BY <1>0, <1>7, SMTT(20) DEF SetActiveProc
<1> QED
  BY <1>1, <1>2, <1>3, <1>4, <1>5, <1>6, <1>7 DEF AppCall

\* The application asks for the shutdown and waits.
LEMMA WaitStep ==
  ASSUME NEW a, App = {a}, IInv, NEW th \in App, NEW clear \in BOOLEAN,
         AppInvoke(th, clear) \/ Delegate(th, clear) \/ SeeClosed(th, clear)
  PROVE  IInv'
<1> USE DEF IInv, TypeOK, SessionInv, TodoInv, Shutting, OpenInv, Listed, Running, Opened,
            ClosedReleases, Labels, StopLabels, CloseLabels, ClearLabels, StartLabels,
            OpenLabels, Thread, Busy, isRunning, Goto, flags, registry, procs, tasks, control
<1>0. App \cap Cmd = {}
  BY ThreadAssumption
<1>1. CASE AppInvoke(th, clear)
  <2>1. pc' \in [Thread -> Labels] /\ todo' \in [Thread -> Seq(Labels)] /\ left' = left
    BY <1>1, InvokeGoes, ClearAssumption DEF AppInvoke
  <2>2. TypeOK'
    BY <1>1, <2>1 DEF AppInvoke, Waiting
  <2>3. SessionInv'
    BY <1>0, <1>1 DEF AppInvoke, Invoke, Waiting
  <2>4. TodoInv'
    BY <1>0, <1>1 DEF AppInvoke, Invoke, Waiting
  <2>5. Shutting'
    BY <1>0, <1>1 DEF AppInvoke, Invoke, Waiting
  <2>6. OpenInv'
    BY <1>0, <1>1 DEF AppInvoke, Invoke, Waiting
  <2>7. Listed'
    BY <1>0, <1>1 DEF AppInvoke, Invoke, Waiting
  <2>8. Running'
    BY <1>0, <1>1 DEF AppInvoke, Invoke, Waiting
  <2>9. Opened'
    BY <1>0, <1>1 DEF AppInvoke, Invoke, Waiting
  <2> QED
    BY <2>2, <2>3, <2>4, <2>5, <2>6, <2>7, <2>8, <2>9
<1>2. CASE Delegate(th, clear)
  BY <1>0, <1>2, SMTT(20) DEF Delegate, Call, Waiting
<1>3. CASE SeeClosed(th, clear)
  BY <1>0, <1>3, SMTT(20) DEF SeeClosed, Call, Waiting
<1> QED
  BY <1>1, <1>2, <1>3

\* A grab task.
LEMMA TaskStep ==
  ASSUME NEW a, App = {a}, IInv, NEW i \in TaskId,
         Work(i) \/ WorkerInvoke(i)
  PROVE  IInv'
<1> USE DEF IInv, TypeOK, SessionInv, TodoInv, Shutting, OpenInv, Listed, Running, Opened,
            ClosedReleases, Labels, StopLabels, CloseLabels, ClearLabels, StartLabels,
            OpenLabels, Thread, Busy, isRunning, Goto, flags, registry, procs, tasks, control
<1>0. App \cap Cmd = {}
  BY ThreadAssumption
<1>1. CASE WorkerOpen(i)
  BY <1>0, <1>1, SMTT(20) DEF WorkerOpen
<1>2. CASE WorkerOpenFail(i)
  BY <1>0, <1>2, SMTT(20) DEF WorkerOpenFail
<1>3. CASE WorkerExit(i)
  BY <1>0, <1>3, SMTT(20) DEF WorkerExit
<1>4. CASE WorkerInvoke(i)
  <2>1. pc' \in [Thread -> Labels] /\ todo' \in [Thread -> Seq(Labels)] /\ left' = left
    BY <1>4, InvokeGoes, ClearAssumption DEF WorkerInvoke
  <2>2. TypeOK'
    BY <1>4, <2>1 DEF WorkerInvoke, Waiting
  <2>3. SessionInv'
    BY <1>0, <1>4 DEF WorkerInvoke, Invoke, Waiting
  <2>4. TodoInv'
    BY <1>0, <1>4 DEF WorkerInvoke, Invoke, Waiting
  <2>5. Shutting'
    BY <1>0, <1>4 DEF WorkerInvoke, Invoke, Waiting
  <2>6. OpenInv'
    BY <1>0, <1>4 DEF WorkerInvoke, Invoke, Waiting
  <2>7. Listed'
    BY <1>0, <1>4 DEF WorkerInvoke, Invoke, Waiting
  <2>8. Running'
    BY <1>0, <1>4 DEF WorkerInvoke, Invoke, Waiting
  <2>9. Opened'
    BY <1>0, <1>4 DEF WorkerInvoke, Invoke, Waiting
  <2> QED
    BY <2>2, <2>3, <2>4, <2>5, <2>6, <2>7, <2>8, <2>9
<1> QED
  BY <1>1, <1>2, <1>3, <1>4 DEF Work

\* start and startMT take the index or refuse it.
LEMMA IndexTaken ==
  ASSUME NEW a, App = {a}, IInv, NEW th \in Thread, NEW i \in -1..MaxProc,
         StartIndex(th, i)
  PROVE  IInv'
<1> USE DEF IInv, TypeOK, SessionInv, TodoInv, Shutting, OpenInv, Listed, Running, Opened,
            ClosedReleases, Labels, StopLabels, CloseLabels, ClearLabels, StartLabels,
            OpenLabels, Thread, Busy, isRunning, Goto, flags, registry, procs, tasks, control
<1>0. App \cap Cmd = {}
  BY ThreadAssumption
<1>1. CASE Return(th)
  BY <1>0, <1>1, SMTT(20) DEF StartIndex, Return
<1>2. CASE ~Return(th)
  BY <1>0, <1>2, SMTT(20) DEF StartIndex
<1> QED
  BY <1>1, <1>2 DEF StartIndex

-----------------------------------------------------------------------------
\* The invariant holds before any call.
LEMMA InitIInv ==
  ASSUME Init
  PROVE  IInv
<1>1. TypeOK
  <2>1. <<>> \in Seq(Labels)
    OBVIOUS
  <2>2. todo \in [Thread -> Seq(Labels)]
    BY <2>1 DEF Init
  <2> QED
    BY <2>2, DeviceAssumption DEF Init, TypeOK, Labels
<1> QED
  BY <1>1, ThreadAssumption DEF Init, IInv, SessionInv, TodoInv, Shutting, OpenInv,
     Listed, Running, Opened, ClosedReleases, Thread, Busy, StopLabels, CloseLabels,
     ClearLabels, StartLabels, OpenLabels

\* Every step keeps the invariant.
LEMMA NextIInv ==
  ASSUME SingleSession, IInv, [Next]_vars
  PROVE  IInv'
<1> USE DEF SingleSession
<1>1. PICK a : App = {a}
  OBVIOUS
<1>2. CASE UNCHANGED vars
  <2> USE <1>2 DEF vars, registry, flags, procs, tasks, control, IInv
  <2>1. TypeOK'
    BY DEF TypeOK
  <2>2. SessionInv'
    BY DEF SessionInv
  <2>3. TodoInv'
    BY DEF TodoInv
  <2>4. Shutting'
    BY DEF Shutting
  <2>5. OpenInv'
    BY DEF OpenInv
  <2>6. Listed'
    BY DEF Listed
  <2>7. Running'
    BY DEF Running, Busy
  <2>8. Opened'
    BY DEF Opened, ClosedReleases
  <2> QED
    BY <2>1, <2>2, <2>3, <2>4, <2>5, <2>6, <2>7, <2>8
<1>3. ASSUME NEW th \in App, AppCall(th) \/ AddProc(th) \/ CallClear(th)
                              \/ \E i \in 0..MaxProc - 1 : SetActiveProc(th, i)
      PROVE  IInv'
  BY <1>1, <1>3, CallStep
<1>4. ASSUME NEW th \in App, NEW clear \in ClearModes,
             AppInvoke(th, clear) \/ Delegate(th, clear) \/ SeeClosed(th, clear)
      PROVE  IInv'
  BY <1>1, <1>4, WaitStep, ClearAssumption
<1>5. ASSUME NEW th \in Thread, Proceed(th)
      PROVE  IInv'
  <2>1. CASE \/ OpenCheck(th) \/ OpenMark(th) \/ OpenCopy(th) \/ OpenDevices(th)
             \/ OpenThrow(th) \/ OpenMarkOpened(th) \/ OpenDone(th)
    BY <1>1, <2>1, OpenStep
  <2>2. CASE \/ CloseCheckRunning(th) \/ CloseCheck(th) \/ CloseMark(th)
             \/ Release(th) \/ CloseMarkClosed(th) \/ CloseDone(th)
    BY <1>1, <2>2, CloseStep
  <2>3. CASE ClearCheck(th) \/ ClearProcs(th) \/ ClearIndex(th)
    BY <1>1, <2>3, ClearStep
  <2>4. CASE StartClear(th) \/ StartOne(th) \/ StartMTNext(th) \/ StartMTDone(th)
    BY <1>1, <2>4, StartStep
  <2>6. ASSUME NEW i \in -1..MaxProc, StartIndex(th, i)
        PROVE  IInv'
    BY <1>1, <2>6, IndexTaken
  <2>5. CASE \/ StopFlag(th) \/ StopJoin(th) \/ StopDelete(th)
             \/ StopForget(th) \/ StopForgetMain(th)
    BY <1>1, <2>5, StopStep
  <2> QED
    BY <1>5, <2>1, <2>2, <2>3, <2>4, <2>5, <2>6 DEF Proceed
<1>6. ASSUME NEW i \in TaskId, Work(i) \/ WorkerInvoke(i)
      PROVE  IInv'
  BY <1>1, <1>6, TaskStep
<1>7. ASSUME NEW d \in Device, Register(d)
      PROVE  IInv'
  <2> USE <1>7 DEF Register, flags, procs, tasks, control, IInv
  <2>1. TypeOK'
    BY DEF TypeOK
  <2>2. SessionInv'
    BY DEF SessionInv
  <2>3. TodoInv'
    BY DEF TodoInv
  <2>4. Shutting'
    BY DEF Shutting
  <2>5. OpenInv'
    BY DEF OpenInv
  <2>6. Listed'
    BY DEF Listed
  <2>7. Running'
    BY DEF Running, Busy
  <2>8. Opened'
    BY DEF Opened, ClosedReleases
  <2> QED
    BY <2>1, <2>2, <2>3, <2>4, <2>5, <2>6, <2>7, <2>8
<1> QED
  BY <1>2, <1>3, <1>4, <1>5, <1>6, <1>7 DEF Next

\* The inductive invariant holds, for one application thread and any number of
\* command threads, worker threads, devices, procs and tasks
\* (MultiCamera.cpp:203-421).
THEOREM Invariance ==
  ASSUME SingleSession
  PROVE  Spec => []IInv
<1>1. Init => IInv
  BY InitIInv
<1>2. IInv /\ [Next]_vars => IInv'
  BY NextIInv
<1> QED
  BY <1>1, <1>2, PTL DEF Spec

\* Type correctness.
THEOREM TypeCorrect ==
  ASSUME SingleSession
  PROVE  Spec => []TypeOK
<1>1. IInv => TypeOK
  BY DEF IInv
<1> QED
  BY <1>1, Invariance, PTL

\* stop(), whoever calls it, deletes no task that runs and touches none that is
\* deleted (MultiCamera.cpp:383-397).
THEOREM StopIsSafe ==
  ASSUME SingleSession
  PROVE  Spec => []StopSafe
<1>1. SingleSession /\ IInv => StopSafe
  <2> SUFFICES ASSUME NEW a, App = {a}, IInv
               PROVE  StopSafe
    BY DEF SingleSession
  <2>2. ASSUME NEW th \in Thread, pc[th] \in {"stop", "join", "delete"}, NEW i \in vGrabTasks
        PROVE  state[i] # "deleted"
    <3>1. \A other \in Thread : pc[other] \notin {"forget", "forgetMain"}
      BY <2>2, ThreadAssumption DEF IInv, Shutting, Thread, StopLabels, CloseLabels,
         ClearLabels, StartLabels, OpenLabels
    <3> QED
      BY <3>1 DEF IInv, Running
  <2>3. ASSUME NEW th \in Thread, pc[th] = "delete"
        PROVE  vGrabTasks \cap Busy = {}
    BY <2>3 DEF IInv, Running
  <2>4. ASSUME \A th \in Thread : pc[th] \notin {"forget", "forgetMain"}, mainGrabTask # None
        PROVE  state[mainGrabTask] # "deleted"
    BY <2>4 DEF IInv, Listed, Running
  <2> QED
    BY <2>2, <2>3, <2>4 DEF StopSafe
<1> QED
  BY <1>1, Invariance, PTL

\* Every task that a worker runs is one that stop() can reach
\* (MultiCamera.cpp:310-336).
THEOREM NothingOrphaned ==
  ASSUME SingleSession
  PROVE  Spec => []NoOrphan
<1>1. IInv => NoOrphan
  BY DEF IInv, Running, NoOrphan
<1> QED
  BY <1>1, Invariance, PTL

\* closeCamera releases no device that a task uses (MultiCamera.cpp:262-282).
THEOREM NothingReleasedInUse ==
  ASSUME SingleSession
  PROVE  Spec => []NoReleaseInUse
<1>1. IInv => NoReleaseInUse
  BY DEF IInv, Listed, Running, NoReleaseInUse
<1> QED
  BY <1>1, Invariance, PTL

\* A system that is neither open nor opening has released every device that it
\* knows (MultiCamera.cpp:230-284).
THEOREM ClosedIsReleased ==
  ASSUME SingleSession
  PROVE  Spec => []ClosedReleases
<1>1. IInv => ClosedReleases
  BY DEF IInv, Opened
<1> QED
  BY <1>1, Invariance, PTL

-----------------------------------------------------------------------------
\* Where the active index can be: only a clearing that runs beside the
\* application, which isClearProc asks for, can break it.
IndexInv ==
  /\ procIndex < nProc \/ procIndex = 0 \/ \E a \in App : pc[a] = "clearIndex" /\ nProc = 0
  /\ \A a \in App :
       pc[a] \in {"startClear", "startMTClear", "startTask", "startMTTask"} => nProc > 0
  /\ \A c \in Cmd : pc[c] \notin ClearLabels /\ todo[c] \in {<<>>, <<"close">>}

\* The application's own clearProc resets the index before its next call, and
\* start() takes no index beyond the procs.
LEMMA IndexStep ==
  ASSUME NEW a, App = {a}, ClearModes \subseteq {FALSE},
         IInv, IndexInv, Next
  PROVE  IndexInv'
<1> USE DEF IInv, IndexInv, Thread, Goto, flags, registry, procs, tasks, control
<1>0. App \cap Cmd = {}
  BY ThreadAssumption
<1>1. ASSUME NEW th \in Thread, Proceed(th)
      PROVE  IndexInv'
  <2>1. CASE OpenCheck(th)
    BY <1>0, <2>1 DEF OpenCheck, OpenRefused, Return, TypeOK, SessionInv, TodoInv, StopLabels,
       CloseLabels, ClearLabels, StartLabels, OpenLabels
  <2>2. CASE OpenMark(th)
    BY <1>0, <2>2 DEF OpenMark, TypeOK, SessionInv, TodoInv, StopLabels,
       CloseLabels, ClearLabels, StartLabels, OpenLabels
  <2>24. CASE OpenCopy(th)
    BY <1>0, <2>24 DEF OpenCopy, OpenRefused, Return, TypeOK, SessionInv, TodoInv, StopLabels,
       CloseLabels, ClearLabels, StartLabels, OpenLabels
  <2>25. CASE OpenThrow(th)
    BY <1>0, <2>25 DEF OpenThrow, OpenRefused, Return, TypeOK, SessionInv, TodoInv, StopLabels,
       CloseLabels, ClearLabels, StartLabels, OpenLabels
  <2>3. CASE OpenDevices(th)
    BY <1>0, <2>3 DEF OpenDevices, TypeOK, SessionInv, TodoInv, StopLabels, CloseLabels,
       ClearLabels, StartLabels, OpenLabels
  <2>4. CASE OpenMarkOpened(th)
    BY <1>0, <2>4 DEF OpenMarkOpened, TypeOK, SessionInv, TodoInv, StopLabels,
       CloseLabels, ClearLabels, StartLabels, OpenLabels
  <2>5. CASE OpenDone(th)
    BY <1>0, <2>5 DEF OpenDone, Return, TypeOK, SessionInv, TodoInv, StopLabels,
       CloseLabels, ClearLabels, StartLabels, OpenLabels
  <2>6. CASE CloseCheckRunning(th)
    BY <1>0, <2>6 DEF CloseCheckRunning, Return, TypeOK, SessionInv, TodoInv,
       StopLabels, CloseLabels, ClearLabels, StartLabels, OpenLabels
  <2>7. CASE CloseCheck(th)
    BY <1>0, <2>7 DEF CloseCheck, Return, TypeOK, SessionInv, TodoInv, StopLabels,
       CloseLabels, ClearLabels, StartLabels, OpenLabels
  <2>8. CASE CloseMark(th)
    BY <1>0, <2>8 DEF CloseMark, TypeOK, SessionInv, TodoInv, StopLabels, CloseLabels,
       ClearLabels, StartLabels, OpenLabels
  <2>9. CASE Release(th)
    BY <1>0, <2>9 DEF Release, TypeOK, SessionInv, TodoInv, StopLabels, CloseLabels,
       ClearLabels, StartLabels, OpenLabels
  <2>10. CASE CloseMarkClosed(th)
    BY <1>0, <2>10 DEF CloseMarkClosed, TypeOK, SessionInv, TodoInv, StopLabels,
       CloseLabels, ClearLabels, StartLabels, OpenLabels
  <2>11. CASE CloseDone(th)
    BY <1>0, <2>11 DEF CloseDone, Return, TypeOK, SessionInv, TodoInv, StopLabels,
       CloseLabels, ClearLabels, StartLabels, OpenLabels
  <2>12. CASE ClearCheck(th)
    BY <1>0, <2>12 DEF ClearCheck, Return, TypeOK, SessionInv, TodoInv, StopLabels,
       CloseLabels, ClearLabels, StartLabels, OpenLabels
  <2>13. CASE ClearProcs(th)
    BY <1>0, <2>13 DEF ClearProcs, TypeOK, SessionInv, TodoInv, StopLabels, CloseLabels,
       ClearLabels, StartLabels, OpenLabels
  <2>14. CASE ClearIndex(th)
    BY <1>0, <2>14 DEF ClearIndex, Return, TypeOK, SessionInv, TodoInv, StopLabels,
       CloseLabels, ClearLabels, StartLabels, OpenLabels
  <2>15. ASSUME NEW i \in -1..MaxProc, StartIndex(th, i)
         PROVE  IndexInv'
    <3>1. th = a /\ todo[a] = <<>>
      BY <1>0, <2>15 DEF StartIndex, SessionInv, TodoInv, StopLabels, CloseLabels, ClearLabels
    <3>2. nProc \in Nat /\ procIndex \in Nat /\ pc \in [Thread -> Labels]
      BY DEF TypeOK
    <3>3. todo' = todo /\ nProc' = nProc
      BY <2>15, <3>1 DEF StartIndex, Return, TypeOK
    <3>4. procIndex' = IF i \in 0..nProc - 1 THEN i ELSE procIndex
      BY <2>15 DEF StartIndex
    <3>5. \/ pc' = [pc EXCEPT ![a] = "idle"]
          \/ nProc > 0 /\ \E label \in {"startClear", "startMTClear"} :
                             pc' = [pc EXCEPT ![a] = label]
      BY <2>15, <3>1, <3>2 DEF StartIndex, Return
    <3>6. pc[a] # "clearIndex"
      BY <2>15, <3>1 DEF StartIndex
    <3>7. procIndex' < nProc' \/ procIndex' = 0
      BY <3>2, <3>3, <3>4, <3>6
    <3> HIDE DEF IInv
    <3>8. \A c \in Cmd : pc'[c] = pc[c]
      BY <1>0, <3>2, <3>5
    <3>9. pc'[a] \in {"startClear", "startMTClear", "startTask", "startMTTask"} => nProc > 0
      BY <3>2, <3>5
    <3> QED
      BY <3>3, <3>7, <3>8, <3>9
  <2>16. CASE StartClear(th)
    BY <1>0, <2>16 DEF StartClear, TypeOK, SessionInv, TodoInv, StopLabels, CloseLabels,
       ClearLabels, StartLabels, OpenLabels
  <2>17. CASE StartOne(th)
    BY <1>0, <2>17 DEF StartOne, TypeOK, SessionInv, TodoInv, StopLabels, CloseLabels,
       ClearLabels, StartLabels, OpenLabels
  <2>18. CASE StartMTNext(th)
    BY <1>0, <2>18 DEF StartMTNext, TypeOK, SessionInv, TodoInv, StopLabels,
       CloseLabels, ClearLabels, StartLabels, OpenLabels
  <2>19. CASE StartMTDone(th)
    BY <1>0, <2>19 DEF StartMTDone, Return, TypeOK, SessionInv, TodoInv, StopLabels,
       CloseLabels, ClearLabels, StartLabels, OpenLabels
  <2>20. CASE StopFlag(th)
    BY <1>0, <2>20 DEF StopFlag, TypeOK, SessionInv, TodoInv, StopLabels, CloseLabels,
       ClearLabels, StartLabels, OpenLabels
  <2>21. CASE StopJoin(th)
    BY <1>0, <2>21 DEF StopJoin, TypeOK, SessionInv, TodoInv, StopLabels, CloseLabels,
       ClearLabels, StartLabels, OpenLabels
  <2>22. CASE StopDelete(th)
    BY <1>0, <2>22 DEF StopDelete, TypeOK, SessionInv, TodoInv, StopLabels, CloseLabels,
       ClearLabels, StartLabels, OpenLabels
  <2>23. CASE StopForget(th)
    BY <1>0, <2>23 DEF StopForget, TypeOK, SessionInv, TodoInv, StopLabels,
       CloseLabels, ClearLabels, StartLabels, OpenLabels
  <2>26. CASE StopForgetMain(th)
    BY <1>0, <2>26 DEF StopForgetMain, Return, TypeOK, SessionInv, TodoInv, StopLabels,
       CloseLabels, ClearLabels, StartLabels, OpenLabels
  <2> QED
    BY <1>1, <2>1, <2>2, <2>3, <2>4, <2>5, <2>6, <2>7, <2>8, <2>9, <2>10, <2>11, <2>12,
       <2>13, <2>14, <2>15, <2>16, <2>17, <2>18, <2>19, <2>20, <2>21, <2>22, <2>23, <2>24,
       <2>25, <2>26 DEF Proceed, Work
<1>2. ASSUME NEW th \in App, AppCall(th) \/ AddProc(th) \/ CallClear(th)
                              \/ \E i \in 0..MaxProc - 1 : SetActiveProc(th, i)
      PROVE  IndexInv'
  <2>1. CASE AppCall(th)
    BY <1>0, <2>1 DEF AppCall, CallOpen, CallStart, CallStop, CallClose, Call, TypeOK,
       SessionInv, TodoInv, StopLabels, CloseLabels, ClearLabels, StartLabels,
       OpenLabels
  <2>2. CASE AddProc(th)
    BY <1>0, <2>2 DEF AddProc, Free, TypeOK, SessionInv, TodoInv, StopLabels,
       CloseLabels, ClearLabels, StartLabels, OpenLabels
  <2>3. CASE CallClear(th)
    BY <1>0, <2>3 DEF CallClear, Free, TypeOK, SessionInv, TodoInv, StopLabels,
       CloseLabels, ClearLabels, StartLabels, OpenLabels
  <2>4. CASE \E i \in 0..MaxProc - 1 : SetActiveProc(th, i)
    BY <1>0, <2>4 DEF SetActiveProc, Free, TypeOK, SessionInv, TodoInv, StopLabels,
       CloseLabels, ClearLabels, StartLabels, OpenLabels
  <2> QED
    BY <1>2, <2>1, <2>2, <2>3, <2>4 DEF Proceed, Work
<1>3. ASSUME NEW th \in App, NEW clear \in ClearModes,
             AppInvoke(th, clear) \/ Delegate(th, clear) \/ SeeClosed(th, clear)
      PROVE  IndexInv'
  <2>1. CASE AppInvoke(th, clear)
    <3>1. PICK cmd \in Cmd : Invoke(cmd, FALSE)
      BY <2>1 DEF AppInvoke
    <3>2. todo' = [todo EXCEPT ![cmd] = <<"close">>] /\ pc' = [pc EXCEPT ![cmd] = "stop"]
      BY <3>1, InvokeGoes DEF Invoke
    <3> QED
      BY <1>0, <2>1, <3>2 DEF AppInvoke, TypeOK, SessionInv, TodoInv, StopLabels,
         CloseLabels, ClearLabels, StartLabels, OpenLabels
  <2>2. CASE Delegate(th, clear)
    BY <1>0, <2>2 DEF Delegate, Call, TypeOK, SessionInv, TodoInv, StopLabels,
       CloseLabels, ClearLabels, StartLabels, OpenLabels
  <2>3. CASE SeeClosed(th, clear)
    BY <1>0, <2>3 DEF SeeClosed, Call, TypeOK, SessionInv, TodoInv, StopLabels,
       CloseLabels, ClearLabels, StartLabels, OpenLabels
  <2> QED
    BY <1>3, <2>1, <2>2, <2>3 DEF Proceed, Work
<1>4. ASSUME NEW i \in TaskId, Work(i) \/ WorkerInvoke(i)
      PROVE  IndexInv'
  <2>1. CASE WorkerOpen(i)
    BY <1>0, <2>1 DEF WorkerOpen, TypeOK, SessionInv, TodoInv, StopLabels, CloseLabels,
       ClearLabels, StartLabels, OpenLabels
  <2>2. CASE WorkerOpenFail(i)
    BY <1>0, <2>2 DEF WorkerOpenFail, TypeOK, SessionInv, TodoInv, StopLabels,
       CloseLabels, ClearLabels, StartLabels, OpenLabels
  <2>3. CASE WorkerExit(i)
    BY <1>0, <2>3 DEF WorkerExit, TypeOK, SessionInv, TodoInv, StopLabels, CloseLabels,
       ClearLabels, StartLabels, OpenLabels
  <2>4. CASE WorkerInvoke(i)
    <3>1. PICK cmd \in Cmd : Invoke(cmd, FALSE)
      BY <2>4 DEF WorkerInvoke
    <3>2. todo' = [todo EXCEPT ![cmd] = <<"close">>] /\ pc' = [pc EXCEPT ![cmd] = "stop"]
      BY <3>1, InvokeGoes DEF Invoke
    <3> QED
      BY <1>0, <2>4, <3>2 DEF WorkerInvoke, TypeOK, SessionInv, TodoInv, StopLabels,
         CloseLabels, ClearLabels, StartLabels, OpenLabels
  <2> QED
    BY <1>4, <2>1, <2>2, <2>3, <2>4 DEF Proceed, Work
<1>5. ASSUME NEW d \in Device, Register(d)
      PROVE  IndexInv'
  <2>1. CASE Register(d)
    BY <1>0, <2>1 DEF Register, TypeOK, SessionInv, TodoInv, StopLabels, CloseLabels,
       ClearLabels, StartLabels, OpenLabels
  <2> QED
    BY <1>5, <2>1 DEF Proceed, Work
<1> QED
  BY <1>1, <1>2, <1>3, <1>4, <1>5 DEF Next

\* A task is never started with a proc that is not there, as long as no
\* shutdown is asked to clear the procs (MultiCamera.cpp:289-377).
THEOREM StartFindsProc ==
  ASSUME SingleSession, ClearModes \subseteq {FALSE}
  PROVE  Spec => []ProcIndexValid
<1> USE DEF SingleSession
<1>1. PICK a : App = {a}
  OBVIOUS
<1>2. Init => IndexInv
  BY ThreadAssumption DEF Init, IndexInv, Thread, ClearLabels
<1>3. IInv /\ IndexInv /\ [Next]_vars => IndexInv'
  <2>1. CASE UNCHANGED vars
    BY <2>1 DEF vars, procs, control, IndexInv
  <2> QED
    BY <1>1, <2>1, IndexStep
<1>4. IInv /\ IndexInv => ProcIndexValid
  BY DEF IInv, TypeOK, TodoInv, IndexInv, ProcIndexValid, Thread, StopLabels, CloseLabels,
     ClearLabels
<1> QED
  BY <1>2, <1>3, <1>4, Invariance, PTL DEF Spec
===============================================================================
