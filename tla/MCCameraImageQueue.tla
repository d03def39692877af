------------------------ MODULE MCCameraImageQueue ------------------------
(***************************************************************************)
(* Small systems for TLC: startMT() with one task per factory, and start() *)
(* with one task for all of them.                                          *)
(***************************************************************************)
EXTENDS CameraImageQueue, TLC

CONSTANTS stereo, mono, mono2, t1, t2

\* A stereo factory (cameras 1 and 2) and a mono one (camera 3).
StereoAndMono == (stereo :> <<1, 2>>) @@ (mono :> <<3>>)
\* Two mono factories.
TwoMonos == (mono :> <<1>>) @@ (mono2 :> <<2>>)

\* startMT(): TaskGrabOneCamera per factory.
PerFactory == (t1 :> <<stereo>>) @@ (t2 :> <<mono>>)
PerMono    == (t1 :> <<mono>>) @@ (t2 :> <<mono2>>)
\* start(): one TaskGrabManyCamera.
AllInOne == (t1 :> <<stereo, mono>>)
============================================================================
