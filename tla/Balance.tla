------------------------------- MODULE Balance -------------------------------
(***************************************************************************)
(* Choosing the member of a pool that takes a request, a connection or a   *)
(* datagram (balance.rs, hashring.rs), from the live configuration         *)
(* (live.rs) and the verdicts of health checking.  One pool is modelled.   *)
(* Requests and UdpSessions share these definitions.                       *)
(*                                                                         *)
(* A member's identity is its number, so identities are ordered.  Hashing  *)
(* is a constant: Points[m] are the positions of m's replicas on the ring, *)
(* and a key is a position.                                                *)
(***************************************************************************)
EXTENDS Naturals, Sequences, FiniteSets, FiniteSetsExt, Functions

CONSTANTS Members,        \* identities of members
          Points,         \* the ring positions of each member
          Configs,        \* the configurations that pass validation
          First,          \* those among them the process may start with
          None,           \* the absence of a value
          MaxDeliveries,  \* bound: generations delivered after the first
          MaxVerdicts,    \* bound: changes of a health verdict
          Wrap            \* bound: where the round robin cursor wraps

ASSUME BalanceAssumption ==
    /\ Members \subseteq Nat
    /\ IsFiniteSet(Members)
    /\ \A m \in Members : Points[m] # {} /\ Points[m] \subseteq Nat
    /\ First \subseteq Configs
    /\ \A c \in Configs : Range(c.members) \subseteq Members
    /\ None \notin Members
    /\ MaxDeliveries \in Nat /\ MaxVerdicts \in Nat /\ Wrap \in Nat \ {0}

VARIABLES live,      \* LiveConfig: the delivery being served
          down,      \* the members health checking has taken out
          verdicts   \* how many verdicts have changed

balanceVars == <<live, down, verdicts>>

BalanceTypeOK ==
    /\ live \in [generation : 0 .. MaxDeliveries, config : Configs]
    /\ down \subseteq Members
    /\ verdicts \in 0 .. MaxVerdicts

BalanceInit ==
    /\ live \in [generation : {0}, config : First]
    /\ down = {}
    /\ verdicts = 0

(***************************************************************************)
(* The lists of members.                                                   *)
(***************************************************************************)

\* The members an operator has left in service, in configuration order.
enabled(c) == SelectSeq(c.members, LAMBDA m : m \notin c.disabled)

\* Of those, the ones health checking has not taken out.
eligible(c) == SelectSeq(enabled(c), LAMBDA m : m \notin down)

\* A heavier member appears more often; no weight is below one.
by_weight(c, list) ==
    LET share(m) == [i \in 1 .. (IF c.weight[m] = 0 THEN 1 ELSE c.weight[m]) |-> m]
        upTo[i \in 0 .. Len(list)] ==
            IF i = 0 THEN <<>> ELSE upTo[i - 1] \o share(list[i])
    IN  upTo[Len(list)]

(***************************************************************************)
(* The ring.  It maps a position to an index into the list of enabled      *)
(* members; a later member that hashes to the same position replaces an    *)
(* earlier one.                                                            *)
(***************************************************************************)
ring_for(c) ==
    LET list == enabled(c)
    IN  [p \in UNION {Points[list[i]] : i \in 1 .. Len(list)} |->
            CHOOSE i \in 1 .. Len(list) :
                /\ p \in Points[list[i]]
                /\ \A j \in i + 1 .. Len(list) : p \notin Points[list[j]]]

\* The first acceptable index from the key on, wrapping once; None if there
\* is none.
pick_where(ring, key, acceptable) ==
    LET good  == {p \in DOMAIN ring : ring[p] \in acceptable}
        ahead == {p \in good : p >= key}
    IN  IF good = {} THEN None
        ELSE ring[Min(IF ahead = {} THEN good ELSE ahead)]

\* Mutant: the key is reduced modulo the number of members in rotation.
PickByModulo(c, key) == eligible(c)[(key % Len(eligible(c))) + 1]

\* The ring's member for a key, among the ones in rotation.
pick_member(c, key) ==
    LET list == enabled(c)
        up   == {i \in DOMAIN list : list[i] \notin down}
        at   == pick_where(ring_for(c), key, up)
    IN  IF at = None THEN None ELSE list[at]

(***************************************************************************)
(* Balancer::choose_by: the member for a key, given the connections each   *)
(* member carries and the cursor; None when nobody can take it.            *)
(***************************************************************************)
choose_by(c, key, carried, cursor) ==
    LET list   == eligible(c)
        spread == by_weight(c, list)
    IN  IF list = <<>> THEN None
        ELSE CASE c.algorithm = "round_robin" ->
                      spread[(cursor % Len(spread)) + 1]
               [] c.algorithm = "least_connections" ->
                      CHOOSE m \in Range(list) : \A n \in Range(list) :
                          \/ carried[m] < carried[n]
                          \/ carried[m] = carried[n] /\ m <= n
               [] c.algorithm = "source_hash" ->
                      spread[(key % Len(spread)) + 1]
               [] c.algorithm = "consistent_hash" ->
                      pick_member(c, key)

\* The cursor moves only where round robin reads it.
after_choice(c, cursor) ==
    IF c.algorithm = "round_robin" /\ eligible(c) # <<>>
    THEN (cursor + 1) % Wrap ELSE cursor

(***************************************************************************)
(* What changes underneath the traffic.                                    *)
(***************************************************************************)

\* LiveConfig::apply of a delivery that validates.  One that does not
\* validate changes nothing.
apply ==
    /\ live.generation < MaxDeliveries
    /\ \E c \in Configs :
          /\ c # live.config
          /\ live' = [generation |-> live.generation + 1, config |-> c]
    /\ UNCHANGED <<down, verdicts>>

\* A probe or a rescan of the checker changes whether a member is in
\* rotation.  Which verdicts come when is left open.
Verdict ==
    /\ verdicts < MaxVerdicts
    /\ verdicts' = verdicts + 1
    /\ \E m \in Members :
          down' = IF m \in down THEN down \ {m} ELSE down \cup {m}
    /\ UNCHANGED live
==============================================================================
