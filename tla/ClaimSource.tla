----------------------------- MODULE ClaimSource -----------------------------
(***************************************************************************)
(* What the supervision of data-plane promises the virtual router.         *)
(*                                                                         *)
(* The two run on separate threads (ek-ek-agent/src/run.rs) and share one  *)
(* channel of claims.  The promise is that the channel carries the changes *)
(* of one Boolean: a Down each time the claim is lowered, an Up each time  *)
(* it is put back, in order, never two of a kind in a row, and no change   *)
(* without its message.  The router may therefore obey each message as it  *)
(* comes and ends on the decision the supervision made last.               *)
(***************************************************************************)
EXTENDS Sequences

VARIABLES
    lowered,    \* whether the supervision holds the claim down
    claims      \* the channel, oldest claim first

sourceVars == <<lowered, claims>>

SourceInit == lowered = FALSE /\ claims = << >>

Lower == /\ ~lowered
         /\ lowered' = TRUE
         /\ claims' = Append(claims, "Down")

Raise == /\ lowered
         /\ lowered' = FALSE
         /\ claims' = Append(claims, "Up")

\* The router takes the oldest claim; the decision itself does not move.
Take == /\ claims # << >>
        /\ claims' = Tail(claims)
        /\ UNCHANGED lowered

SourceNext == Lower \/ Raise \/ Take

SourceSpec == SourceInit /\ [][SourceNext]_sourceVars
==============================================================================
