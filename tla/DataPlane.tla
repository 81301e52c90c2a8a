------------------------------ MODULE DataPlane ------------------------------
(***************************************************************************)
(* The life of one data-plane process beside its traffic: the link to the  *)
(* agent (link.rs), the configuration it serves (live.rs), its listeners   *)
(* and the look at them that makes it say it is serving (server.rs).       *)
(*                                                                         *)
(* Threads: the link, the listening check, one listener per frontend.      *)
(* They share the live configuration, of which the generation is kept      *)
(* here (HealthChecks follows what it says), and the status.  The agent is *)
(* modelled by the messages link.rs reads and the ones it is sent; its     *)
(* liveness questions and their answers are part of Supervision.           *)
(***************************************************************************)
EXTENDS Integers

CONSTANTS None,
          TcpFrontends,     \* the frontends with a listener of pingora's
          UdpFrontends,
          MaxDeliveries,    \* bound: deliveries after which none follows on a link
          MaxMishaps        \* bound: links lost, binds refused, ends

ASSUME DataPlaneAssumption ==
    /\ MaxDeliveries \in Nat
    /\ MaxMishaps \in Nat

Frontends == TcpFrontends \cup UdpFrontends

VARIABLES process,    \* "ended", "starting" or "running"
          live,       \* LiveConfig: the generation that is served
          listener,   \* "binding", "up" or "failed", by frontend
          left,       \* ListeningCheck: the addresses not seen listening yet
          state,      \* Status: "starting" or "serving"
          open,       \* whether the link is connected
          said,       \* the state the link has reported on this connection
          heard,      \* the last report the agent has from this process
          deliveries,
          mishaps

linkVars == <<open, said, heard>>
listenVars == <<listener, left, state>>
bounds == <<deliveries, mishaps>>
planeVars == <<process, live, linkVars, listenVars, bounds>>

Running == process = "running"

\* Status::report, without its counters.
Report == [state |-> state, generation |-> live]

Mishap == mishaps < MaxMishaps /\ mishaps' = mishaps + 1

(***************************************************************************)
(* Starting and ending the process.                                        *)
(***************************************************************************)

PlaneInit ==
    /\ process = "starting"
    /\ live = None
    /\ listener = [f \in Frontends |-> "binding"]
    /\ left = TcpFrontends
    /\ state = "starting"
    /\ open = FALSE
    /\ said = None
    /\ heard = None
    /\ deliveries = 0
    /\ mishaps = 0

\* AgentLink::establish: the first delivery is collected and checked, and the
\* server is built on it.  The state is Starting.
Establish ==
    /\ process = "starting"
    /\ live' = deliveries + 1
    /\ deliveries' = deliveries + 1
    /\ process' = "running"
    /\ UNCHANGED <<linkVars, listenVars, mishaps>>

\* Everything a process holds is gone with it.
End ==
    /\ process' = "ended"
    /\ live' = None
    /\ listener' = [f \in Frontends |-> "binding"]
    /\ left' = TcpFrontends
    /\ state' = "starting"
    /\ open' = FALSE
    /\ said' = None
    /\ heard' = None
    /\ UNCHANGED deliveries

\* An agent that does not answer, or whose first delivery is not valid, ends
\* the start; so does a shutdown or a panic end a process that runs.
Fail == process # "ended" /\ Mishap /\ End

\* The agent starts another one.
StartAgain ==
    /\ process = "ended"
    /\ process' = "starting"
    /\ UNCHANGED <<live, linkVars, listenVars, bounds>>

(***************************************************************************)
(* The listeners, and the look that turns built into up.                   *)
(***************************************************************************)

Bind(f) ==
    /\ Running
    /\ listener[f] = "binding"
    /\ listener' = [listener EXCEPT ![f] = "up"]
    /\ UNCHANGED <<process, live, linkVars, left, state, bounds>>

\* end_on_a_panic: a listener that cannot bind ends the process.
BindPanics(f) ==
    /\ Running
    /\ f \in TcpFrontends
    /\ listener[f] = "binding"
    /\ Mishap
    /\ End

\* UdpService: a UDP frontend that cannot bind is logged.
UdpBindFails(f) ==
    /\ Running
    /\ f \in UdpFrontends
    /\ listener[f] = "binding"
    /\ Mishap
    /\ listener' = [listener EXCEPT ![f] = "failed"]
    /\ UNCHANGED <<process, live, linkVars, left, state, deliveries>>

\* Mutant: the process is serving once one of its listeners is up.
LookForOne ==
    LET more == {f \in left : listener[f] # "up"}
    IN  /\ Running
        /\ state = "starting"
        /\ left' = more
        /\ state' = IF more # left THEN "serving" ELSE "starting"
        /\ UNCHANGED <<process, live, linkVars, listener, bounds>>

\* ListeningCheck: one look, which drops what the kernel holds a listening
\* socket for.  With nothing to look for the process serves at once.
Look ==
    LET more == {f \in left : listener[f] # "up"}
    IN  /\ Running
        /\ state = "starting"
        /\ left' = more
        /\ state' = IF more = {} THEN "serving" ELSE "starting"
        /\ UNCHANGED <<process, live, linkVars, listener, bounds>>

(***************************************************************************)
(* The link.                                                               *)
(***************************************************************************)

\* AgentLink::run: connect and greet with the generation held; serve starts
\* from the state of this moment as the one said.
Connect ==
    /\ Running
    /\ ~open
    /\ open' = TRUE
    /\ said' = state
    /\ UNCHANGED <<process, live, heard, listenVars, bounds>>

Tell ==
    /\ said' = state
    /\ heard' = Report
    /\ UNCHANGED <<process, live, open, listenVars, bounds>>

\* The look every STATE_POLL: a change is reported.
Watching == open /\ said # state /\ Tell

\* Mutant: the reports go out on a change of state alone.
TickOnChange == open /\ IF said # state THEN Tell ELSE UNCHANGED planeVars

\* The report of every STATUS_INTERVAL, the first one as the link opens.
Tick == open /\ Tell

\* A write or a read that fails, or an agent that went away.
LinkBreaks ==
    /\ open
    /\ Mishap
    /\ open' = FALSE
    /\ said' = None
    /\ UNCHANGED <<process, live, heard, listenVars, deliveries>>

\* AgentLink::handle and LiveConfig::apply: a delivery that validates is
\* swapped in, whatever its generation.
Apply ==
    /\ open
    /\ deliveries < MaxDeliveries
    /\ deliveries' = deliveries + 1
    /\ live' = deliveries + 1
    /\ UNCHANGED <<process, linkVars, listenVars, mishaps>>

\* One that does not is refused, and what is live stays.
RefuseConfig ==
    /\ open
    /\ deliveries < MaxDeliveries
    /\ deliveries' = deliveries + 1
    /\ UNCHANGED <<process, live, linkVars, listenVars, mishaps>>

(***************************************************************************)
(* The specification.                                                      *)
(***************************************************************************)

PlaneNext ==
    \/ Establish \/ Fail \/ StartAgain
    \/ \E f \in Frontends : Bind(f) \/ BindPanics(f) \/ UdpBindFails(f)
    \/ Look \/ Connect \/ Watching \/ Tick \/ LinkBreaks \/ Apply \/ RefuseConfig

\* Every thread of the process goes on, and the agent of this machine is
\* there again after a lost link.
PlaneFairness ==
    /\ WF_planeVars(Establish \/ StartAgain)
    /\ \A f \in Frontends : WF_planeVars(Bind(f))
    /\ WF_planeVars(Look)
    /\ WF_planeVars(Connect \/ Tick)

PlaneSpec == PlaneInit /\ [][PlaneNext]_planeVars /\ PlaneFairness

(***************************************************************************)
(* Properties.                                                             *)
(***************************************************************************)

\* The agent restores this node's claim on a report that says serving, so it
\* has such a report only of a process whose TCP listeners are all up
\* (server.rs:275, "a process that said so before they were up would tell
\* the agent this node can carry traffic while nothing answers on its port").
ServingIsListening ==
    heard # None /\ heard.state = "serving" =>
        \A f \in TcpFrontends : listener[f] = "up"

\* The same of every frontend, UDP ones included (server.rs:479, "A UDP
\* frontend that cannot bind is a frontend that serves nothing.  Saying so
\* beats a process that looks healthy and silently drops a service").
ServingIsServed ==
    heard # None /\ heard.state = "serving" =>
        \A f \in Frontends : listener[f] # "failed"

\* What the agent knows catches up: a process that stays gets to tell its
\* agent the state and the generation it has, on whichever connection, also
\* when the state changed before the link was up (link.rs, serve).
StandingIsTold == <>[]Running => <>[](heard = Report)
==============================================================================
