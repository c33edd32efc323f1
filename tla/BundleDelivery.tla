---------------------------- MODULE BundleDelivery ----------------------------
(***************************************************************************)
(* What the bundle protocol promises between endpoints, without byte       *)
(* streams, buffers and connections: the bundles of a source form a queue, *)
(* some may be dropped from it, and those that leave it at the front are   *)
(* stored at most once, in their order, for their destination.             *)
(***************************************************************************)
EXTENDS Integers, Sequences, SequencesExt

CONSTANTS
    Sources, Dests,
    MaxFragments      \* the most bundles that one packet is cut into

VARIABLES
    sent,      \* sent[s]: number of bundles that s has made
    pipe,      \* pipe[s]: its bundles on their way
    inbox      \* inbox[d]: the bundles stored for d

vars == <<sent, pipe, inbox>>

Init == /\ sent = [s \in Sources |-> 0]
        /\ pipe = [s \in Sources |-> <<>>]
        /\ inbox = [d \in Dests |-> <<>>]

\* Some of the bundles of s may be dropped, the others keep their order.
Keep(s, queue) ==
    pipe' = [pipe EXCEPT ![s] = SelectSeq(queue, LAMBDA b : b \in ToSet(pipe'[s]))]

\* New bundles queue up behind the older ones.
Send(s) ==
    /\ UNCHANGED inbox
    /\ \E n \in 1 .. MaxFragments :
          /\ sent' = [sent EXCEPT ![s] = @ + n]
          /\ \E d \in Dests :
                Keep(s, pipe[s] \o [k \in 1 .. n |->
                                      [src |-> s, dst |-> d, seq |-> sent[s] + k - 1]])

Drop(s) == UNCHANGED <<sent, inbox>> /\ Keep(s, pipe[s])

\* The oldest bundle arrives: it is stored, or dropped.
Deliver(s) ==
    /\ pipe[s] # <<>>
    /\ LET b == Head(pipe[s])
       IN inbox' \in {inbox, [inbox EXCEPT ![b.dst] = Append(@, b)]}
    /\ pipe' = [pipe EXCEPT ![s] = Tail(@)]
    /\ UNCHANGED sent

\* The application takes the bundle that was stored first.
Receive(d) ==
    /\ inbox[d] # <<>>
    /\ inbox' = [inbox EXCEPT ![d] = Tail(@)]
    /\ UNCHANGED <<sent, pipe>>

Next == \/ \E s \in Sources : Send(s) \/ Drop(s) \/ Deliver(s)
        \/ \E d \in Dests : Receive(d)

Spec == Init /\ [][Next]_vars
=============================================================================
