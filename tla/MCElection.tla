----------------------------- MODULE MCElection ------------------------------
(***************************************************************************)
(* The networks looked at: three nodes of distinct claims, one of them the *)
(* owner, that take the role back, with a fault and packets that arrive at  *)
(* once, and without faults and packets that are late; an owner and one    *)
(* other on a network that loses a packet; two nodes of equal claims, told *)
(* apart by their address, that do not take the role back, on a network    *)
(* that loses two.                                                         *)
(***************************************************************************)
EXTENDS Election, TLC

Ranked ==
    [nodes |-> {1, 2, 3}, configured |-> 1 :> 4 @@ 2 :> 3 @@ 3 :> 2,
     preempt |-> [n \in {1, 2, 3} |-> TRUE], delay |-> 0, losses |-> 0, faults |-> 1]
Late == [Ranked EXCEPT !.delay = 1, !.faults = 0]
Pair ==
    [nodes |-> {1, 2}, configured |-> 1 :> 4 @@ 2 :> 3,
     preempt |-> [n \in {1, 2} |-> TRUE], delay |-> 1, losses |-> 1, faults |-> 2]
Lossy ==
    [nodes |-> {1, 2}, configured |-> 1 :> 2 @@ 2 :> 2,
     preempt |-> [n \in {1, 2} |-> FALSE], delay |-> 1, losses |-> 2, faults |-> 1]

Networks == {Ranked, Late, Pair, Lossy}
==============================================================================
