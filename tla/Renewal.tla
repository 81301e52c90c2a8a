-------------------------------- MODULE Renewal --------------------------------
(***************************************************************************)
(* When a certificate is ordered again and how the waits after a failed    *)
(* order grow (ek-ek-tls/src/renewal.rs, the loop of ek-ek/src/renew.rs).  *)
(* The unit of time is an hour.  Sweeps run far more often than that, so   *)
(* an order is made in the hour it becomes due.  Orders fail for as long   *)
(* as the outage lasts, and work after it.                                 *)
(***************************************************************************)
EXTENDS Naturals, Integers

CONSTANTS
    Lifetimes,      \* how long what the authority issues is valid
    Outages,        \* <<from, to>>: when orders fail
    LastHour        \* bound: the clock stops

RENEW_AT == 3
ALARM_AFTER == 3
FIRST_BACKOFF == 1
LONGEST_BACKOFF == 24
GROWING_WAITS == 4

ASSUME RenewalAssumption ==
    /\ Lifetimes \subseteq {hours \in Nat : hours >= RENEW_AT}
    /\ Outages \subseteq Nat \X Nat
    /\ LastHour \in Nat

VARIABLES
    now,
    lifetime,
    outage,         \* orders fail from one hour on until another
    until,          \* not_after of what is served
    attempts        \* renewal-state.json: failures, first, next

renewalVars == <<now, lifetime, outage, until, attempts>>

NoAttempts == [failures |-> 0, first |-> 0, next |-> 0]

\* Running out: a third of the lifetime or less is left.
Why == until - now <= lifetime \div RENEW_AT

\* Mutant: every wait doubles the one before.
BackoffGrowing(failures) == IF failures = 0 THEN 0 ELSE FIRST_BACKOFF * 2 ^ (failures - 1)

Backoff(failures) ==
    CASE failures = 0             -> 0
      [] failures > GROWING_WAITS -> LONGEST_BACKOFF
      [] OTHER                    -> FIRST_BACKOFF * 2 ^ (failures - 1)

Failed(a) ==
    [failures |-> a.failures + 1,
     first |-> IF a.failures = 0 THEN now ELSE a.first,
     next |-> now + Backoff(a.failures + 1)]

Alarming == attempts.failures >= ALARM_AFTER

Ready == now >= attempts.next

Failing == outage[1] <= now /\ now < outage[2]

\* What is left alone: not running out, or its wait is not over.
Wait == /\ ~(Why /\ Ready)
        /\ UNCHANGED attempts /\ UNCHANGED until

OrderFails == /\ Why /\ Ready /\ Failing
              /\ attempts' = Failed(attempts)
              /\ UNCHANGED until

\* The record of failures goes as a whole.
Renewed == /\ Why /\ Ready /\ ~Failing
           /\ attempts' = NoAttempts
           /\ until' = now + lifetime

RenewalInit ==
    /\ now = 0 /\ lifetime \in Lifetimes /\ until = lifetime
    /\ outage \in Outages
    /\ attempts = NoAttempts

\* One sweep of one hour.
RenewalNext ==
    /\ now < LastHour /\ now' = now + 1
    /\ Wait \/ OrderFails \/ Renewed
    /\ UNCHANGED <<lifetime, outage>>

RenewalSpec == RenewalInit /\ [][RenewalNext]_renewalVars

\* Properties -------------------------------------------------------------------

\* A certificate runs out only under an outage that reaches into its last day:
\* however the waits had grown, an authority that is back more than a wait before
\* the end is asked again in time (backoff is bounded, renewal starts early).
RenewedInTime == now >= until => Failing \/ outage[2] > until - LONGEST_BACKOFF

\* The alarm is raised by a fault that lasts: the third failure comes hours
\* after the first (ALARM_AFTER, backoff).
AlarmTakesSevenHours == Alarming => now - attempts.first >= 7
=============================================================================
