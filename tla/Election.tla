------------------------------ MODULE Election -------------------------------
(***************************************************************************)
(* The virtual routers of a cluster on one network.                        *)
(*                                                                         *)
(* Every node runs the machine of VrrpMachine (state.rs) behind the router *)
(* loop of router.rs, and sends its advertisements to every peer by        *)
(* unicast.  The network delays a packet by at most MaxDelay ticks,        *)
(* reorders freely, and loses at most MaxLosses packets.  Nodes start,     *)
(* stop on purpose, crash, and have their claim lowered and put back.      *)
(*                                                                         *)
(* Time moves in ticks.  A tick waits for every timer that is due and for  *)
(* every packet whose delay is used up, which is the router loop running   *)
(* every ten milliseconds against an interval of a second (run.rs:195).    *)
(***************************************************************************)
EXTENDS VrrpMachine, FiniteSets, SequencesExt

CONSTANTS
    Setups,         \* the networks looked at, each a record of the fields below
    Demoted         \* Plan.demoted_priority

VARIABLES
    setup,          \* the network of this behaviour, chosen once
    mach,           \* the machine of each node
    net,            \* packets on their way
    losses, faults, \* how much of the bounds is used up
    dark,           \* ticks a node has been waiting with no master anywhere
    reign,          \* ticks each master has held the role at its present claim
    calm            \* ticks since a farewell was last on its way

Nodes == setup.nodes            \* addresses, so numbers: the higher wins a tie
Configured == setup.configured  \* the priority each node is set up with
Preempt == setup.preempt        \* whether each node takes the role back
MaxLosses == setup.losses       \* bound: packets lost
MaxDelay == setup.delay         \* bound: ticks a packet travels
MaxFaults == setup.faults       \* bound: stops, crashes and changes of claim

ASSUME ElectionAssumption ==
    /\ \A s \in Setups :
           /\ s.nodes \subseteq Nat
           /\ s.configured \in [s.nodes -> Priority \ {GivingUp}]
           /\ s.preempt \in [s.nodes -> BOOLEAN]
           /\ s.delay \in Nat /\ s.losses \in Nat /\ s.faults \in Nat
    /\ Demoted \in Priority \ {GivingUp}

vars == <<setup, mach, net, losses, faults, dark, reign, calm>>

Running(n) == mach[n].state # "Initialize"
Masters == {n \in Nodes : mach[n].state = "Master"}

Fresh(n) == NewMachine(Configured[n], n, Preempt[n])

Packet == [from : Nodes, to : Nodes, priority : Priority, left : 0..MaxDelay]

\* Advertisements are encoded and sent once per peer.
Sent(n, todo) ==
    {[from |-> n, to |-> peer, priority |-> a.priority, left |-> MaxDelay] :
        peer \in Nodes \ {n}, a \in {b \in ToSet(todo) : b.do = "advertise"}}

\* What an observer measures, over a step that takes this many ticks.
LongEnough == (1 + MaxLosses) * Interval + MaxDelay + 1
UpTo(ticks) == IF ticks > LongEnough THEN LongEnough ELSE ticks
Observe(ticks) ==
    /\ dark' = IF Masters' # {} \/ \A n \in Nodes : ~Running(n)' THEN 0
               ELSE IF \E n \in Nodes : Running(n) /\ ~Running(n)' THEN 0
               ELSE dark + ticks
    /\ reign' = [n \in Nodes |->
                   IF n \notin Masters' \/ mach'[n].priority # mach[n].priority
                   THEN 0 ELSE UpTo(reign[n] + ticks)]
    /\ calm' = IF \E p \in net' : p.priority = GivingUp THEN 0
               ELSE UpTo(calm + ticks)

\* Node n does what its machine answered; `rest` is what was on the wire.
Carry(n, done, rest) ==
    /\ mach' = [mach EXCEPT ![n] = done.machine]
    /\ UNCHANGED setup
    /\ net' = rest \cup Sent(n, done.actions)
    /\ Observe(0)

Start(n) == /\ ~Running(n)
            /\ Carry(n, StartMachine(Fresh(n)), net)
            /\ UNCHANGED <<losses, faults>>

Timers(n) == {mach[n].advertiseIn, mach[n].claimIn} \ {Never}

OnTimer(n) == /\ \E timer \in Timers(n) : Due(timer)
              /\ Carry(n, TickMachine(mach[n]), net)
              /\ UNCHANGED <<losses, faults>>

Receive(p) == /\ Carry(p.to, ReceiveMachine(mach[p.to], p.from, p.priority),
                       net \ {p})
              /\ UNCHANGED <<losses, faults>>

Lose(p) == /\ losses < MaxLosses
           /\ losses' = losses + 1
           /\ net' = net \ {p}
           /\ UNCHANGED <<setup, mach, faults, dark, reign, calm>>

Fault == faults < MaxFaults /\ faults' = faults + 1 /\ UNCHANGED losses

Stop(n) == /\ Running(n) /\ Fault
           /\ Carry(n, StopMachine(mach[n]), net)

Crash(n) == /\ Running(n) /\ Fault
            /\ Carry(n, Nothing(Fresh(n)), net)

Lower(n) == /\ Running(n) /\ mach[n].priority # Demoted /\ Fault
            /\ Carry(n, Demote(mach[n], Demoted), net)

Raise(n) == /\ Running(n) /\ mach[n].priority # Configured[n] /\ Fault
            /\ Carry(n, Restore(mach[n]), net)

Tick == /\ \A n \in Nodes : \A timer \in Timers(n) : timer > 0
        /\ \A p \in net : p.left > 0
        /\ \E n \in Nodes : Running(n)
        /\ mach' = [n \in Nodes |-> Elapse(mach[n])]
        /\ net' = {[p EXCEPT !.left = @ - 1] : p \in net}
        /\ UNCHANGED <<setup, losses, faults>>
        /\ Observe(1)

Init == /\ setup \in Setups
        /\ mach = [n \in Nodes |-> Fresh(n)]
        /\ net = {} /\ losses = 0 /\ faults = 0
        /\ dark = 0
        /\ reign = [n \in Nodes |-> 0] /\ calm = LongEnough

Next == \/ \E n \in Nodes : \/ Start(n) \/ OnTimer(n) \/ Stop(n) \/ Crash(n)
                            \/ Lower(n) \/ Raise(n)
        \/ \E p \in net : Receive(p) \/ Lose(p)
        \/ Tick

Spec == Init /\ [][Next]_vars

Anywhere == UNION {s.nodes : s \in Setups}

\* Clocks move, timers fire, and a packet that is not lost arrives.
Fairness == /\ WF_vars(Tick)
            /\ \A n \in Anywhere : WF_vars(n \in Nodes /\ OnTimer(n))
            /\ WF_vars(\E p \in net : Receive(p))

FairSpec == Spec /\ Fairness

\* Properties --------------------------------------------------------------

\* Machines, packets and measures stay in their types.
TypeOK == /\ mach \in [Nodes -> Machine]
          /\ net \subseteq Packet
          /\ dark \in Nat
          /\ reign \in [Nodes -> 0..LongEnough] /\ calm \in 0..LongEnough

\* Two masters, at unchanging claims, last no longer than it takes the stronger
\* one to be heard: one interval and one delay when nothing is lost, and one
\* more interval for every packet that is (state.rs:279-283, "a short double
\* master is possible and closes on the first advertisement").
DoubleMasterIsShort ==
    \A n, m \in Masters : reign[n] = LongEnough /\ reign[m] = LongEnough => n = m

\* While some node runs, the role is empty no longer than the weakest node
\* waits, plus the last advertisement still on its way.
WeakestWait == MasterDownInterval(Demoted)
RoleIsNotLeftEmpty == dark <= WeakestWait + MaxDelay

\* n takes the role while m has held it, at its present claim, long enough to
\* be heard by everybody.  A farewell is left out: it tells every backup to wait
\* its skew only, also when the node that leaves was one of two masters.
TakesFrom(n, m) == /\ n \notin Masters /\ n \in Masters'
                   /\ m \in Masters \ {n} /\ reign[m] = LongEnough
                   /\ calm = LongEnough

\* A settled master loses the role to nobody but a stronger node that is set to
\* take the role back, or an owner that starts.  Said of a node at its
\* configured claim.
TakenOnlyByStronger ==
    [][\A n, m \in Nodes :
         TakesFrom(n, m) /\ mach'[n].priority = Configured[n]
         => /\ Outranks(mach'[n], m, mach[m].priority)
            /\ Preempt[n] \/ ~Running(n)]_vars

\* "The lowered claim is what keeps the node from taking the role straight
\* back: it now waits the longest of anybody, and any peer that answers
\* outranks it" (state.rs:434-436).  This fails: a backup that is counting down
\* to take the role keeps the deadline of its old claim.
DemotedTakesFromNobody ==
    [][\A n, m \in Nodes :
         TakesFrom(n, m) /\ mach'[n].priority # Configured[n]
         => Outranks(mach'[n], m, mach[m].priority)]_vars

Strongest(n) == \A m \in Nodes \ {n} : Running(m) =>
                   Outranks(mach[n], m, mach[m].priority)

\* Once the faults are over, one running node keeps the role for good.
Settles == <>[](\/ \A n \in Nodes : ~Running(n)
                \/ \E n \in Nodes : Masters = {n})

\* With every node set to take the role back it is the strongest of them.
StrongestSettles ==
    (\A n \in Nodes : Preempt[n])
        => <>[](\A n \in Nodes : Running(n) => (n \in Masters <=> Strongest(n)))

\* The role is held by one node, but for moments: never by two for longer than
\* the stronger takes to be heard, never by none for longer than the weakest
\* waits (state.rs:279-283, master_down_interval).
RoleIsHeld == /\ TypeOK
              /\ DoubleMasterIsShort /\ RoleIsNotLeftEmpty

\* An election ends: one node keeps the role for good, and the strongest of
\* them where all are set to take it back (vrrp/state.rs).
Ends == Settles /\ StrongestSettles
==============================================================================
