----------------------------- MODULE MCRequests ------------------------------
EXTENDS Requests

Weights == [m \in Members |-> IF m = 1 THEN 2 ELSE 0]

\* One slot, hashing of the source; two slots, least connections and
\* a cookie; no limit and consistent hashing, one member disabled.
Pools ==
    {[members |-> <<1, 2>>, disabled |-> {}, weight |-> Weights,
      algorithm |-> "source_hash", size |-> 1, sticky |-> FALSE],
     [members |-> <<1, 2>>, disabled |-> {}, weight |-> Weights,
      algorithm |-> "least_connections", size |-> 2, sticky |-> TRUE],
     [members |-> <<2, 1>>, disabled |-> {1}, weight |-> Weights,
      algorithm |-> "consistent_hash", size |-> 0, sticky |-> FALSE]}

Started == {c \in Pools : c.size = 2}

RingPoints == [m \in Members |-> {m, m + 3}]
Keys == [k \in Callers |-> 2]
==============================================================================
