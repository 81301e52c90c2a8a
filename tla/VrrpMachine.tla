----------------------------- MODULE VrrpMachine -----------------------------
(***************************************************************************)
(* The VRRPv3 state machine of one node, as operators.                     *)
(*                                                                         *)
(* Source: ek-ek-vrrp/src/state.rs.  The machine there reads no clock and  *)
(* sends nothing: it is told what happened and answers with what to do.    *)
(* Each operator below is one of its methods, from a machine to            *)
(*     [machine |-> the machine afterwards, actions |-> what to do].       *)
(* Router and Election carry the actions out.                              *)
(*                                                                         *)
(* A deadline is kept as the ticks left to it.  Levels stands for the 256  *)
(* steps of a priority, so that the skew keeps its formula on a scale TLC  *)
(* can enumerate: Levels - 1 is the owner, 0 is a master standing down.    *)
(***************************************************************************)
EXTENDS Integers, Sequences

CONSTANTS
    Levels,         \* 256 in the code
    Interval,       \* Settings.interval, in ticks
    Never           \* a timer that is not running

ASSUME MachineAssumption ==
    /\ Levels \in Nat /\ Levels > 1
    /\ Interval \in Nat \ {0}
    /\ Never \notin Int

Priority == 0..(Levels - 1)
Owner == Levels - 1
GivingUp == 0

\* No wait is longer than the weakest node's four intervals.
Timer == 0..(4 * Interval) \cup {Never}

\* A machine with the settings it was given: what the configuration asked for,
\* the address that settles a tie, and whether it takes the role back.
Machine == [configured : Priority, address : Nat, preempt : BOOLEAN,
            priority : Priority, state : {"Initialize", "Backup", "Master"},
            advertiseIn : Timer, claimIn : Timer]

TakeAddresses == [do |-> "take", priority |-> GivingUp]
DropAddresses == [do |-> "drop", priority |-> GivingUp]
Advertise(p) == [do |-> "advertise", priority |-> p]

Does(m, todo) == [machine |-> m, actions |-> todo]
Nothing(m) == Does(m, << >>)

\* How long a node waits beyond three intervals: a weaker one waits longer.
SkewTime(p) == ((Levels - p) * Interval) \div Levels

MasterDownInterval(p) == 3 * Interval + SkewTime(p)

Due(timer) == timer # Never /\ timer <= 0

NewMachine(configured, address, preempt) ==
    [configured |-> configured, address |-> address, preempt |-> preempt,
     priority |-> configured, state |-> "Initialize",
     advertiseIn |-> Never, claimIn |-> Never]

\* Mutant: the role is announced before the addresses are there.
BecomeMasterAdvertisesFirst(m) ==
    Does([m EXCEPT !.state = "Master", !.claimIn = Never,
                   !.advertiseIn = Interval],
         <<Advertise(m.priority), TakeAddresses>>)

\* Takes the role: the addresses first, then the claim.
BecomeMaster(m) ==
    Does([m EXCEPT !.state = "Master", !.claimIn = Never,
                   !.advertiseIn = Interval],
         <<TakeAddresses, Advertise(m.priority)>>)

\* Mutant: the role is given up and no claim is waited for.
BecomeBackupNoClaim(m) ==
    Does([m EXCEPT !.state = "Backup", !.advertiseIn = Never,
                   !.claimIn = Never], <<DropAddresses>>)

\* Gives the role up.  Nothing is sent: a peer waits out its own interval.
BecomeBackup(m) ==
    Does([m EXCEPT !.state = "Backup", !.advertiseIn = Never,
                   !.claimIn = MasterDownInterval(m.priority)],
         <<DropAddresses>>)

\* Whatever an earlier process left on the interface goes first.
StartMachine(m) ==
    IF m.priority = Owner
    THEN LET owned == BecomeMaster(m)
         IN  Does(owned.machine, <<DropAddresses>> \o owned.actions)
    ELSE Does([m EXCEPT !.state = "Backup", !.advertiseIn = Never,
                        !.claimIn = MasterDownInterval(m.priority)],
              <<DropAddresses>>)

TickMachine(m) ==
    CASE m.state = "Master" /\ Due(m.advertiseIn) ->
           Does([m EXCEPT !.advertiseIn = Interval], <<Advertise(m.priority)>>)
      [] m.state = "Backup" /\ Due(m.claimIn) -> BecomeMaster(m)
      [] OTHER -> Nothing(m)

\* Mutant: equal claims are not settled by the address.
OutrankedByPriorityOnly(m, from, p) == p > m.priority

OutrankedBy(m, from, p) ==
    p > m.priority \/ (p = m.priority /\ from > m.address)

Outranks(m, from, p) ==
    m.priority > p \/ (m.priority = p /\ m.address > from)

\* A master hears a peer: it answers one that stands down at once, and gives
\* way to one that outranks it.
MasterHeard(m, from, p) ==
    CASE p = GivingUp ->
           Does([m EXCEPT !.advertiseIn = Interval], <<Advertise(m.priority)>>)
      [] p # GivingUp /\ OutrankedBy(m, from, p) -> BecomeBackup(m)
      [] OTHER -> Nothing(m)

\* Mutant: a node set to take the role back does not look at who is stronger.
BackupHeardAlwaysPreempts(m, from, p) ==
    CASE p = GivingUp -> Nothing([m EXCEPT !.claimIn = SkewTime(m.priority)])
      [] p # GivingUp /\ ~m.preempt ->
           Nothing([m EXCEPT !.claimIn = MasterDownInterval(m.priority)])
      [] OTHER -> Nothing(m)

\* A backup hears a peer: the skew only when it stands down, the whole interval
\* again when it is a master worth waiting for.
BackupHeard(m, from, p) ==
    CASE p = GivingUp -> Nothing([m EXCEPT !.claimIn = SkewTime(m.priority)])
      [] p # GivingUp /\ (~m.preempt \/ ~Outranks(m, from, p)) ->
           Nothing([m EXCEPT !.claimIn = MasterDownInterval(m.priority)])
      [] OTHER -> Nothing(m)

\* An advertisement that passed the peer list, the checksum and the router
\* number; one that did not changes nothing but a counter.
ReceiveMachine(m, from, p) ==
    CASE m.state = "Master" -> MasterHeard(m, from, p)
      [] m.state = "Backup" -> BackupHeard(m, from, p)
      [] OTHER -> Nothing(m)

StopMachine(m) ==
    Does([m EXCEPT !.state = "Initialize", !.advertiseIn = Never,
                   !.claimIn = Never],
         IF m.state = "Master" THEN <<Advertise(GivingUp), DropAddresses>>
                               ELSE <<DropAddresses>>)

\* The addresses could not be taken.
Renounce(m) == IF m.state = "Master" THEN BecomeBackup(m) ELSE Nothing(m)

\* Lowers the claim, and stands a master down at once.
Demote(m, to) ==
    CASE m.priority = to -> Nothing(m)
      [] m.priority # to /\ m.state = "Master" ->
           BecomeBackup([m EXCEPT !.priority = to])
      [] OTHER -> Nothing([m EXCEPT !.priority = to])

Restore(m) == Nothing([m EXCEPT !.priority = m.configured])

\* One tick of time off every timer that runs.
Elapse(m) ==
    [m EXCEPT !.advertiseIn = IF @ = Never THEN @ ELSE @ - 1,
              !.claimIn = IF @ = Never THEN @ ELSE @ - 1]
==============================================================================
