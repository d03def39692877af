----------------------------- MODULE MCGrabTask -----------------------------
(***************************************************************************)
(* One task without the lock, as start() makes it, and several tasks with  *)
(* the lock, as startMT() makes them; called by the application, by the    *)
(* tasks from process(), or by both.                                       *)
(***************************************************************************)
EXTENDS GrabTask

CONSTANTS t1, t2, p1, p2

TwoTasks == <<t1, t2>>
AppCaller == {App}
TaskCallers == {t1, t2}
AllCallers == {App, t1, t2}
=============================================================================
