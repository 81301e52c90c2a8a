----------------------------- MODULE MCNodeStore -----------------------------
EXTENDS NodeStore, TLC

CONSTANTS c1, c2

TwoClients == {c1, c2}

\* A record that changes the state before and after one that does not, each of
\* the others first or last, and versions past the limit.
ThreeRecords == {<<"normal", "membership", "normal">>,
                 <<"blank", "normal", "membership">>,
                 <<"normal", "normal", "normal">>}

\* Clients are told apart by nothing.
AnyClient == Permutations(TwoClients)
==============================================================================
