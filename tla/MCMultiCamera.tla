--------------------------- MODULE MCMultiCamera ---------------------------
(***************************************************************************)
(* The life cycle with one application thread and one command thread, for  *)
(* TLC.                                                                    *)
(***************************************************************************)
EXTENDS MultiCamera

CONSTANTS app, c1, d1, d2, d3, n1, n2

\* The third device has the name of the first.
Names == [d \in Device |-> IF d = d2 THEN n2 ELSE n1]
=============================================================================
