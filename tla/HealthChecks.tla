----------------------------- MODULE HealthChecks ----------------------------
(***************************************************************************)
(* Health checking: the states of the members (health.rs), the probe tasks *)
(* that feed them, and the service that keeps one task per checked member  *)
(* while the live configuration changes under it (server.rs).              *)
(*                                                                         *)
(* Threads: the service and one task per member.  A task that is aborted   *)
(* while it holds an outcome still records it: an abort takes effect at    *)
(* the next await, and there is none between the probe and the record.     *)
(*                                                                         *)
(* The configuration says what each member of a pool is: absent (or in a   *)
(* pool without a check), disabled, or checked as a target, which stands   *)
(* for the address, the port and the check.  All of this lives in the      *)
(* process of DataPlane and is gone with it.                               *)
(***************************************************************************)
EXTENDS DataPlane, Sequences, FiniteSets

CONSTANTS Members,          \* keys (pool, member)
          Targets,          \* what a member can be checked as
          Probe,            \* the kind of probe of each target
          Fall, Rise,       \* unhealthy_threshold and healthy_threshold
          Conditions,       \* how what stands at a target's address may be
          MaxSwaps          \* bound: configurations swapped in

ASSUME HealthAssumption ==
    /\ Fall \in [Targets -> Nat]
    /\ Rise \in [Targets -> Nat]
    /\ MaxSwaps \in Nat

Placed == {"absent", "disabled"} \cup Targets

VARIABLES members,    \* LiveConfig: what each member is
          swaps,      \* how many configurations have been swapped in
          health,     \* Health: what is known of a member, None when nothing
          task,       \* HealthService: the probe task of a member
          aborted,    \* tasks stopped with an outcome still to record
          scanned,    \* the configuration of a scan that has yet to retain
          condition,  \* how what stands at each target's address is
          answers     \* history: the outcomes recorded since it was forgotten

liveVars == <<members, swaps, condition>>
healthVars == <<liveVars, health, task, aborted, scanned, answers>>

HealthInit ==
    /\ members \in [Members -> Placed]
    /\ swaps = 0
    /\ health = [m \in Members |-> None]
    /\ task = [m \in Members |-> None]
    /\ aborted = {}
    /\ scanned = None
    /\ condition \in [Targets -> Conditions]
    /\ answers = [m \in Members |-> <<>>]

(***************************************************************************)
(* What is known of a member.                                              *)
(***************************************************************************)

Unknown == [healthy |-> TRUE, failures |-> 0, successes |-> 0]
Known(m) == IF health[m] = None THEN Unknown ELSE health[m]

AtLeastOne(n) == IF n = 0 THEN 1 ELSE n

\* A run beyond the larger threshold says no more than one of its length.
Longest(t) == AtLeastOne(IF Fall[t] < Rise[t] THEN Rise[t] ELSE Fall[t])
MostAnswers == CHOOSE n \in {Longest(t) : t \in Targets} :
                   \A t \in Targets : Longest(t) <= n
ASSUME LongestAssumption ==
    \E t \in Targets : \A s \in Targets : Longest(s) <= Longest(t)

Counted(n) == IF n < MostAnswers THEN n + 1 ELSE n

\* Mutant: a good answer leaves the run of failures as it is.
AfterGoodKeeping(was, t) ==
    LET run == Counted(was.successes)
    IN  [healthy |-> was.healthy \/ run >= AtLeastOne(Rise[t]),
         failures |-> was.failures, successes |-> run]

AfterGood(was, t) ==
    LET run == Counted(was.successes)
    IN  [healthy |-> was.healthy \/ run >= AtLeastOne(Rise[t]),
         failures |-> 0, successes |-> run]

AfterBad(was, t) ==
    LET run == Counted(was.failures)
    IN  [healthy |-> was.healthy /\ run < AtLeastOne(Fall[t]),
         failures |-> run, successes |-> 0]

\* Health::record
Recorded(m, t, good) ==
    /\ health' = [health EXCEPT
           ![m] = IF good THEN AfterGood(Known(m), t) ELSE AfterBad(Known(m), t)]
    /\ answers' = [answers EXCEPT
           ![m] = LET all == Append(@, good)
                  IN  SubSeq(all, IF Len(all) > MostAnswers THEN 2 ELSE 1,
                             Len(all))]

\* Health::is_healthy: a member nothing is known of takes traffic.
IsHealthy(m) == Known(m).healthy

\* probe::run: a connection that opens satisfies a tcp probe, every other
\* one wants the answer it expects, within the timeout.
IsGood(t) ==
    condition[t] \in IF Probe[t] = "tcp_connect"
                     THEN {"serves", "accepts"} ELSE {"serves"}

\* checked: what a configuration says to probe.
Checked(placed) == {m \in Members : placed[m] \in Targets}

\* watch: the probe comes to an end.
Probed(m) ==
    /\ task[m] # None
    /\ task[m].outcome = None
    /\ task' = [task EXCEPT ![m].outcome = IsGood(task[m].target)]
    /\ UNCHANGED <<liveVars, health, aborted, scanned, answers>>

\* watch: its outcome is recorded, and after the interval it probes again.
Record(m) ==
    /\ task[m] # None
    /\ task[m].outcome # None
    /\ Recorded(m, task[m].target, task[m].outcome)
    /\ task' = [task EXCEPT ![m].outcome = None]
    /\ UNCHANGED <<liveVars, aborted, scanned>>

\* The same step of a task that was aborted in the middle of it.
RecordLate(late) ==
    /\ late \in aborted
    /\ Recorded(late.member, late.target, late.outcome)
    /\ aborted' = aborted \ {late}
    /\ UNCHANGED <<liveVars, task, scanned>>

\* Mutant: a member that is still checked keeps the task it has.
ScanByName ==
    LET placed == members
        stopped == {m \in Members : task[m] # None /\ placed[m] \notin Targets}
    IN  /\ scanned = None
        /\ scanned' = placed
        /\ aborted' = aborted \cup
               {[member |-> m, target |-> task[m].target,
                 outcome |-> task[m].outcome] :
                    m \in {n \in stopped : task[n].outcome # None}}
        /\ task' = [m \in Members |->
               CASE m \notin Checked(placed) -> None
                 [] task[m] # None -> task[m]
                 [] OTHER -> [target |-> placed[m], outcome |-> None]]
        /\ UNCHANGED <<liveVars, health, answers>>

\* HealthService, every RESCAN: load the configuration, stop the tasks whose
\* target is gone or has changed, start the ones that are missing.
Scan ==
    LET placed == members
        stopped == {m \in Members : task[m] # None /\ task[m].target # placed[m]}
    IN  /\ scanned = None
        /\ scanned' = placed
        /\ aborted' = aborted \cup
               {[member |-> m, target |-> task[m].target,
                 outcome |-> task[m].outcome] :
                    m \in {n \in stopped : task[n].outcome # None}}
        /\ task' = [m \in Members |->
               CASE m \notin Checked(placed) -> None
                 [] task[m] # None /\ m \notin stopped -> task[m]
                 [] OTHER -> [target |-> placed[m], outcome |-> None]]
        /\ UNCHANGED <<liveVars, health, answers>>

\* Health::retain, with the configuration of the scan.
Retain ==
    /\ scanned # None
    /\ scanned' = None
    /\ LET gone == {m \in Members : scanned[m] = "absent"}
       IN  /\ health' = [m \in Members |-> IF m \in gone THEN None ELSE health[m]]
           /\ answers' = [m \in Members |-> IF m \in gone THEN <<>> ELSE answers[m]]
    /\ UNCHANGED <<liveVars, task, aborted>>

\* LiveConfig::apply swaps another configuration in.
Swap ==
    /\ swaps < MaxSwaps
    /\ swaps' = swaps + 1
    /\ members' \in [Members -> Placed]
    /\ UNCHANGED <<health, task, aborted, scanned, condition, answers>>

\* A service behind a target comes or goes.
Turn(t) ==
    /\ \E c \in Conditions \ {condition[t]} :
           condition' = [condition EXCEPT ![t] = c]
    /\ UNCHANGED <<members, swaps, health, task, aborted, scanned, answers>>

(***************************************************************************)
(* The specification.                                                      *)
(***************************************************************************)

HealthNext ==
    \/ \E m \in Members : Probed(m) \/ Record(m)
    \/ \E late \in aborted : RecordLate(late)
    \/ Scan \/ Retain \/ Swap
    \/ \E t \in Targets : Turn(t)

HealthSpec == HealthInit /\ [][HealthNext]_healthVars

\* Every thread goes on, and a probe has a timeout.
HealthFairness ==
    /\ \A m \in Members : WF_healthVars(Probed(m) \/ Record(m))
    /\ WF_healthVars(\E late \in aborted : RecordLate(late))
    /\ WF_healthVars(Scan \/ Retain)

(***************************************************************************)
(* Properties.                                                             *)
(***************************************************************************)

\* The last n probes of m came out so, this step's included.
LastAnswers(m, good, n) ==
    LET all == answers'[m]
    IN  /\ Len(all) >= n
        /\ \A i \in Len(all) - n + 1 .. Len(all) : all[i] = good

\* Where m changes sides, some check that was running saw the last of enough
\* answers.
TurnsOnARun(m) ==
    health'[m] # None /\ health'[m].healthy # Known(m).healthy =>
    LET good == health'[m].healthy
        seen == {task[k].target : k \in {n \in {m} : task[n] # None}}
                  \cup {late.target : late \in aborted}
    IN  \E t \in seen :
           LastAnswers(m, good, AtLeastOne(IF good THEN Rise[t] ELSE Fall[t]))

\* A member changes sides only on a run of answers as long as the threshold
\* of the check that saw the last of them, whatever tasks were replaced or
\* aborted on the way (health.rs: "A member goes unhealthy after
\* unhealthy_threshold failures in a row and comes back after
\* healthy_threshold successes in a row").
SidesChangeOnARun == [][\A m \in Members : TurnsOnARun(m)]_healthVars

\* A member that leaves the configuration and stays away is forgotten, also
\* when a probe that was running records its outcome after it was dropped
\* (health.rs, retain; server.rs, "A member that has left the configuration
\* keeps no state").
Forgotten ==
    \A m \in Members :
        <>[](members[m] = "absent") => <>[](health[m] = None)

\* Health follows what stands behind the member as it is configured now: one
\* that goes on answering comes to take traffic and one that goes on failing
\* comes to take none, after any history of edits (server.rs, HealthService).
HealthFollows ==
    \A m \in Members, t \in Targets :
        /\ <>[](members[m] = t /\ IsGood(t)) => <>[]IsHealthy(m)
        /\ <>[](members[m] = t /\ ~IsGood(t)) =>
               <>[](~IsHealthy(m))

\* Health is about the member as it is configured now: it follows what stands
\* there, and what has left is forgotten (health.rs, HealthService).
HealthIsCurrent == HealthFollows /\ Forgotten
==============================================================================
