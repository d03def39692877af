--------------------------- MODULE FrameDelivery ---------------------------
(***************************************************************************)
(* What the image queues promise frame processing, without the queues.     *)
(*                                                                         *)
(* Every factory captures; now and then a group is delivered, with one     *)
(* image of every camera, each newer than the one delivered before and     *)
(* captured already.  Any number of images may be skipped.  Whether the    *)
(* images of one factory in a group are of one capture is not promised.    *)
(***************************************************************************)
EXTENDS Naturals

CONSTANTS Camera, Factory,
          FactoryOf   \* per camera, the factory that captures its images

VARIABLES
  captured,   \* per factory, its captures so far
  delivered,  \* per camera, the capture its image was delivered from last
  groups      \* the number of groups delivered

absVars == <<captured, delivered, groups>>

Init ==
  /\ captured = [f \in Factory |-> 0]
  /\ delivered = [c \in Camera |-> 0]
  /\ groups = 0

Capture(f) ==
  /\ captured' = [captured EXCEPT ![f] = @ + 1]
  /\ UNCHANGED <<delivered, groups>>

Deliver ==
  /\ groups' = groups + 1
  /\ DOMAIN delivered' = Camera
  /\ \A c \in Camera : /\ delivered[c] < delivered'[c]
                       /\ delivered'[c] <= captured[FactoryOf[c]]
  /\ UNCHANGED captured

Next == Deliver \/ \E f \in Factory : Capture(f)

Spec == Init /\ [][Next]_absVars
=============================================================================
