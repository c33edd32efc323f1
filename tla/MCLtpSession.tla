---------------------------- MODULE MCLtpSession ----------------------------
(***************************************************************************)
(* Instances of LtpSession for TLC.  All of them use segments of three     *)
(* bytes and a red part that ends with a segment of two: with one of one   *)
(* byte the receiver can end the process, with a full one the red part has *)
(* no checkpoint.                                                          *)
(***************************************************************************)
EXTENDS LtpSession

\* For Lossy: nothing, the data segments, everything.
LossNone       == {}
LossData       == DataTypes
LossEverything == DataTypes \union {"RS", "RAS"}
=============================================================================
