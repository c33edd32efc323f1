----------------------- MODULE MCNullMessageSimulator -----------------------
(***************************************************************************)
(* Instances of NullMessageSimulator for TLC.                              *)
(***************************************************************************)
EXTENDS NullMessageSimulator

\* For Ends and Latency: two ranks with one or two channels between them.
OneLink    == <<{0, 1}>>
TwoLinks   == <<{0, 1}, {0, 1}>>
Three      == <<3>>
ThreeThree == <<3, 3>>
=============================================================================
