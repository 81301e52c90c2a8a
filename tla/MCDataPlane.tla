----------------------------- MODULE MCDataPlane -----------------------------
(***************************************************************************)
(* Two machines that share nothing but the moment a configuration changes, *)
(* in one state graph: a process that starts, binds and reports (no member *)
(* is checked), or the health checks of one that runs (`process` is idle). *)
(* A member's state is its own, so one member, which may be any of two     *)
(* targets, shows what any of them can meet.                               *)
(***************************************************************************)
EXTENDS HealthChecks, TLC

CONSTANTS m1, here, there, http, tls, dns

Probes == here :> "tcp_connect" @@ there :> "http"
Falls == here :> 2 @@ there :> 1
Rises == here :> 0 @@ there :> 2

vars == <<planeVars, healthVars>>

NoHealth ==
    /\ members = [m \in Members |-> None]
    /\ swaps = MaxSwaps
    /\ health = [m \in Members |-> None]
    /\ task = [m \in Members |-> None]
    /\ aborted = {}
    /\ scanned = None
    /\ condition = [t \in Targets |-> "serves"]
    /\ answers = [m \in Members |-> <<>>]

NoPlane ==
    /\ process = "idle"
    /\ live = None
    /\ listener = [f \in Frontends |-> "binding"]
    /\ left = TcpFrontends
    /\ state = "starting"
    /\ open = FALSE
    /\ said = None
    /\ heard = None
    /\ deliveries = 0
    /\ mishaps = MaxMishaps

Init == \/ PlaneInit /\ NoHealth
        \/ HealthInit /\ NoPlane

Next == \/ process # "idle" /\ PlaneNext /\ UNCHANGED healthVars
        \/ process = "idle" /\ HealthNext /\ UNCHANGED planeVars

Spec == /\ Init /\ [][Next]_vars
        /\ process # "idle" => PlaneFairness
        /\ process = "idle" => HealthFairness
==============================================================================
