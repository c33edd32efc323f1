----------------------- MODULE MCDistributedSimulator -----------------------
(***************************************************************************)
(* Instances of DistributedSimulator for TLC.                              *)
(***************************************************************************)
EXTENDS DistributedSimulator

\* The delay of the channel depends on its direction: one up, two down.
UpDown == [i \in Ranks |-> [j \in Ranks |-> IF i < j THEN 1 ELSE 2]]

Least(i) == Min({Delay[j][i] : j \in Ranks \ {i}} \union {MaxTime})

\* The files say the least delay that leads to the rank, or any time up to
\* it, another one at each update.
Exact   == [i \in Ranks |-> {Least(i)}]
Varying == [i \in Ranks |-> 0 .. Least(i)]
=============================================================================
