--------------------------- MODULE MCClusterState ----------------------------
(***************************************************************************)
(* The clusters looked at: one leader that meets joins, removals and       *)
(* documents, and one that meets documents and orders; two servers with a  *)
(* change of leader among joins of two nodes and orders, and among         *)
(* removals and documents; for the disagreement, two servers and filed     *)
(* orders.                                                                 *)
(***************************************************************************)
EXTENDS ClusterState, TLC

CONSTANTS s1, s2, n1, n2, t1, o1, c1, c2

OneToken == {t1}
OneOrder == {o1}
OneCaller == {c1}
TwoCallers == {c1, c2}

Joining ==
    [servers |-> {s1}, names |-> {n1}, minted |-> {}, entries |-> 3, elections |-> 0,
     ops |-> {"mint", "admit", "remove", "apply"}]
Ordering == [Joining EXCEPT !.ops = {"apply", "file", "close"}]
Contended ==
    [servers |-> {s1, s2}, names |-> {n1, n2}, minted |-> {t1}, entries |-> 2,
     elections |-> 1, ops |-> {"admit", "file"}]
Removing == [Contended EXCEPT !.names = {n1}, !.ops = {"remove", "apply"}]
Filing ==
    [servers |-> {s1, s2}, names |-> {n1}, minted |-> {}, entries |-> 3, elections |-> 1,
     ops |-> {"apply", "file"}]

Clusters == {Joining, Ordering, Contended, Removing}
OnlyFiling == {Filing}

\* Callers, servers and names are told apart by nothing.
Anybody == Permutations({c1, c2}) \cup Permutations({s1, s2}) \cup Permutations({n1, n2})
==============================================================================
