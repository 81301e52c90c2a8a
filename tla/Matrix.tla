--------------------------------- MODULE Matrix ---------------------------------
(***************************************************************************)
(* The virtual routers every node works out from the document on its own   *)
(* (ek-ek-config/src/matrix.rs): a number for each address and the order in *)
(* which the nodes claim it.                                               *)
(*                                                                         *)
(* What the digests come to is a record h: first, the number each identity *)
(* points at; weight, how strongly a node is drawn to an address; place,   *)
(* where an identity sorts.  A property holds whatever they are.           *)
(***************************************************************************)
EXTENDS Document, SequencesExt

Carriers(c) == {c.nodes[i].id : i \in {j \in DOMAIN c.nodes : c.nodes[j].control}}

\* Mutant: the lowest free number, wherever the identity points.
FreeFromTheFirst(wanted, taken) ==
    LET free == (1 .. VRIDS) \ taken
    IN  IF free = {} THEN None ELSE CHOOSE n \in free : \A m \in free : n <= m

\* The first free number at or after the one wanted, wrapping once.
FreeFrom(wanted, taken) ==
    LET at(step) == ((wanted - 1 + step) % VRIDS) + 1
        free == {step \in 0 .. (VRIDS - 1) : at(step) \notin taken}
    IN  IF free = {} THEN None ELSE at(CHOOSE s \in free : \A t \in free : s <= t)

\* Heaviest first, the identity settles a tie, the preferred node goes in front.
Ranking(c, vip, h) ==
    LET heavier(m, n) == \/ h.weight[vip.id, m] > h.weight[vip.id, n]
                         \/ h.weight[vip.id, m] = h.weight[vip.id, n] /\ h.place[m] < h.place[n]
        order == SetToSortSeq(Carriers(c), heavier)
    IN  IF vip.preferred \in Carriers(c)
        THEN <<vip.preferred>> \o SelectSeq(order, LAMBDA n : n # vip.preferred)
        ELSE order

\* Addresses in the order their identities sort, each with the number it gets.
Numbers(c, h) ==
    LET number(given, vip) ==
            LET n == FreeFrom(h.first[vip], {given[v] : v \in DOMAIN given})
            IN  IF n = None THEN given
                ELSE [v \in DOMAIN given \cup {vip} |-> IF v = vip THEN n ELSE given[v]]
        ordered == SetToSortSeq(Ids(c.vips), LAMBDA v, w : h.place[v] < h.place[w])
    IN  FoldLeft(number, [v \in {} |-> 0], ordered)

Routers(c, h) ==
    LET numbers == Numbers(c, h)
    IN  [v \in DOMAIN numbers |->
            [vrid |-> numbers[v], firstChoice |-> numbers[v] = h.first[v],
             ranking |-> Ranking(c, Find(c.vips, v), h)]]
=============================================================================
