--------------------------- MODULE MCUdpSessions -----------------------------
EXTENDS UdpSessions

Even == [m \in Members |-> 1]

\* Two sessions over three members; one session, a shorter timeout, a longer
\* drain and one member disabled; round robin over two of them.
Frontends ==
    {[members |-> <<1, 2, 3>>, disabled |-> {}, weight |-> Even,
      algorithm |-> "consistent_hash", limit |-> 2, idle |-> 2, drain |-> 1],
     [members |-> <<3, 2, 1>>, disabled |-> {2}, weight |-> Even,
      algorithm |-> "consistent_hash", limit |-> 1, idle |-> 0, drain |-> 2],
     [members |-> <<1, 2>>, disabled |-> {}, weight |-> Even,
      algorithm |-> "round_robin", limit |-> 0, idle |-> 2, drain |-> 0]}

Started == {c \in Frontends : c.limit = 2}

\* Each member twice, interleaved.
RingPoints == [m \in Members |-> {m, 7 - m}]
Keys == [k \in Clients |-> IF k = "k1" THEN 0 ELSE 4]
==============================================================================
