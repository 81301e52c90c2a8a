------------------------------ MODULE MCRouter -------------------------------
EXTENDS Router

\* A peer with the higher address: its farewell, a weak and a strong claim.
OnePeer == [from : {2}, priority : {0, 1, 3}]
==============================================================================
