---------------------------- MODULE LtpDelivery ----------------------------
(***************************************************************************)
(* What an LTP session promises for the red part of a block, without       *)
(* segments, reports, timers and queues: units of it arrive at the         *)
(* receiver; when all are there it may be given to the client, once; the   *)
(* sender may take it as acknowledged only when all are there.             *)
(***************************************************************************)
CONSTANT Red          \* the units of the red part

VARIABLES
    held,      \* units the receiver holds or has given away
    given,     \* the client was given the red part
    acked      \* the sender takes it as acknowledged

vars == <<held, given, acked>>

Init == held = {} /\ given = FALSE /\ acked = FALSE

Arrive == /\ ~given
          /\ held' \in {S \in SUBSET Red : held \subseteq S}
          /\ UNCHANGED <<given, acked>>

Give == /\ ~given
        /\ held = Red
        /\ given' = TRUE
        /\ UNCHANGED <<held, acked>>

Acknowledge == /\ held = Red
               /\ acked' = TRUE
               /\ UNCHANGED <<held, given>>

Next == Arrive \/ Give \/ Acknowledge

Spec == Init /\ [][Next]_vars
=============================================================================
