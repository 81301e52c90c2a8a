---------------------------- MODULE TrafficProofs ----------------------------
(***************************************************************************)
(* Proofs about what keeps a node's traffic served: Renewal, for every set *)
(* of lifetimes and outages; DataPlane, for every set of frontends and     *)
(* every bound; HealthChecks, for every set of members, targets and        *)
(* thresholds; and Router, for every priority, interval, threshold, number *)
(* of addresses, set of peers and sequence of refusals by the kernel.  The *)
(* four share no state, and each is proved of its own specification.       *)
(***************************************************************************)
EXTENDS Renewal, HealthChecks, Router, TLAPS

(***************************************************************************)
(* Renewal.                                                                *)
(***************************************************************************)

\* Where the clock, the certificate and the outage are.
Clocks == /\ now \in Nat /\ until \in Nat
          /\ lifetime \in Nat /\ lifetime >= RENEW_AT
          /\ outage \in Nat \X Nat
          /\ attempts.failures \in Nat /\ attempts.next \in Nat

\* No wait that is still running was begun after the outage, and none is longer
\* than the longest.
WaitsEnd == attempts.next < outage[2] + LONGEST_BACKOFF

RenewalIInv == Clocks /\ WaitsEnd /\ RenewedInTime

\* No wait is longer than the longest, however many orders have failed.
LEMMA BackoffBound ==
  ASSUME NEW f \in Nat
  PROVE  Backoff(f) \in 0..LONGEST_BACKOFF
  <1>1. CASE f = 0
    <2>1. ~(f > GROWING_WAITS)
      BY <1>1 DEF GROWING_WAITS
    <2>2. Backoff(f) = 0
      BY Zenon, <1>1, <2>1 DEF Backoff
    <2> QED
      BY <2>2 DEF LONGEST_BACKOFF
  <1>2. CASE f > GROWING_WAITS
    <2>1. f # 0
      BY <1>2 DEF GROWING_WAITS
    <2>2. Backoff(f) = LONGEST_BACKOFF
      BY Zenon, <1>2, <2>1 DEF Backoff
    <2> QED
      BY <2>2 DEF LONGEST_BACKOFF
  <1>3. CASE f \in 1..GROWING_WAITS
    <2>1. f - 1 \in {0, 1, 2, 3}
      BY <1>3 DEF GROWING_WAITS
    <2>2. 2 ^ 0 = 1 /\ 2 ^ 1 = 2 /\ 2 ^ 2 = 4 /\ 2 ^ 3 = 8
      OBVIOUS
    <2>3. 2 ^ (f - 1) \in {1, 2, 4, 8}
      BY Zenon, <2>1, <2>2
    <2>4. Backoff(f) = FIRST_BACKOFF * 2 ^ (f - 1)
      BY <1>3 DEF Backoff, GROWING_WAITS
    <2> QED
      BY <2>3, <2>4 DEF FIRST_BACKOFF, LONGEST_BACKOFF
  <1> QED
    BY <1>1, <1>2, <1>3 DEF GROWING_WAITS

\* One hour: a certificate that could be renewed is, in the last hour at the
\* latest.
LEMMA HourKeeps == RenewalIInv /\ [RenewalNext]_renewalVars => RenewalIInv'
  <1> SUFFICES ASSUME RenewalIInv, [RenewalNext]_renewalVars
               PROVE  RenewalIInv'
    OBVIOUS
  <1>0. Clocks /\ outage[1] \in Nat /\ outage[2] \in Nat
    BY DEF RenewalIInv, Clocks
  <1>1. CASE UNCHANGED renewalVars
    BY <1>1 DEF renewalVars, RenewalIInv, Clocks, WaitsEnd, RenewedInTime, Failing
  <1>2. CASE RenewalNext
    <2>1. now' = now + 1 /\ UNCHANGED <<lifetime, outage>>
      BY <1>2 DEF RenewalNext
    <2>2. CASE Wait
      <3>1. UNCHANGED <<attempts, until>> /\ ~(Why /\ Ready)
        BY <2>2 DEF Wait
      <3>2. Clocks' /\ WaitsEnd'
        BY <1>0, <2>1, <3>1 DEF RenewalIInv, Clocks, WaitsEnd
      <3>3. ASSUME now + 1 >= until, outage[2] <= until - LONGEST_BACKOFF
            PROVE  FALSE
        <4>1. now < until
          BY <1>0, <3>3 DEF RenewalIInv, RenewedInTime, Failing, Clocks, LONGEST_BACKOFF
        <4>2. Why
          BY <1>0, <3>3, <4>1 DEF Why, Clocks, RENEW_AT
        <4>3. Ready
          BY <1>0, <3>3, <4>1 DEF Ready, Clocks, RenewalIInv, WaitsEnd, LONGEST_BACKOFF
        <4> QED
          BY <3>1, <4>2, <4>3
      <3>4. RenewedInTime'
        BY <1>0, <2>1, <3>1, <3>3 DEF RenewedInTime, Clocks, LONGEST_BACKOFF
      <3> QED
        BY <3>2, <3>4 DEF RenewalIInv
    <2>3. CASE OrderFails
      <3>1. until' = until /\ now < outage[2] /\ attempts' = Failed(attempts)
        BY <2>3 DEF OrderFails, Failing
      <3>2. Backoff(attempts.failures + 1) \in 0..LONGEST_BACKOFF
        BY <1>0, BackoffBound DEF Clocks
      <3>3. /\ attempts'.failures = attempts.failures + 1
            /\ attempts'.next = now + Backoff(attempts.failures + 1)
        BY <3>1 DEF Failed
      <3>4. Clocks' /\ WaitsEnd'
        BY <1>0, <2>1, <3>1, <3>2, <3>3 DEF Clocks, WaitsEnd, LONGEST_BACKOFF
      <3>5. RenewedInTime'
        BY <1>0, <2>1, <3>1 DEF RenewedInTime, Clocks, LONGEST_BACKOFF
      <3> QED
        BY <3>4, <3>5 DEF RenewalIInv
    <2>4. CASE Renewed
      <3>1. until' = now + lifetime /\ attempts' = NoAttempts
        BY <2>4 DEF Renewed
      <3>2. attempts'.failures = 0 /\ attempts'.next = 0
        BY <3>1 DEF NoAttempts
      <3>3. Clocks' /\ WaitsEnd'
        BY <1>0, <2>1, <3>1, <3>2 DEF Clocks, WaitsEnd, LONGEST_BACKOFF
      <3>4. RenewedInTime'
        BY <1>0, <2>1, <3>1 DEF RenewedInTime, Clocks, RENEW_AT
      <3> QED
        BY <3>3, <3>4 DEF RenewalIInv
    <2> QED
      BY <1>2, <2>2, <2>3, <2>4 DEF RenewalNext
  <1> QED
    BY <1>1, <1>2

\* Whatever its lifetime, from three hours up, and whenever and for however long
\* orders fail, a certificate runs out only under an outage that reaches into
\* its last day (backoff, why and renew_due).
THEOREM RunsOutUnderAnOutageOnly == RenewalSpec => []RenewedInTime
  <1>1. RenewalInit => RenewalIInv
    BY RenewalAssumption
       DEF RenewalInit, RenewalIInv, Clocks, WaitsEnd, RenewedInTime, NoAttempts,
           LONGEST_BACKOFF, RENEW_AT
  <1>2. RenewalIInv => RenewedInTime
    BY DEF RenewalIInv
  <1> QED
    BY <1>1, <1>2, HourKeeps, PTL DEF RenewalSpec

(***************************************************************************)
(* The listeners and what the agent hears of them.                         *)
(***************************************************************************)

PlaneTypeOK ==
    /\ listener \in [Frontends -> {"binding", "up", "failed"}]
    /\ left \subseteq TcpFrontends
    /\ state \in {"starting", "serving"}

\* The check forgets an address only once it has seen it, it says serving only
\* when it has forgotten all of them, and the agent hears nothing the process
\* has not said.  A listener that is up stays up until the process ends.
PlaneIInv ==
    /\ PlaneTypeOK
    /\ \A f \in TcpFrontends \ left : listener[f] = "up"
    /\ state = "serving" => left = {}
    /\ heard # None /\ heard.state = "serving" => state = "serving"

\* A process that has just started has said nothing.
LEMMA NothingSaid ==
  ASSUME listener = [f \in Frontends |-> "binding"], left = TcpFrontends,
         state = "starting", heard = None
  PROVE  PlaneIInv
  BY DEF PlaneIInv, PlaneTypeOK

\* The end of the process leaves nothing said.
LEMMA NothingSaidNext ==
  ASSUME End
  PROVE  PlaneIInv'
  BY DEF End, PlaneIInv, PlaneTypeOK

\* Every step keeps the invariant.
LEMMA PlaneStep == PlaneIInv /\ [PlaneNext]_planeVars => PlaneIInv'
  <1> SUFFICES ASSUME PlaneIInv, [PlaneNext]_planeVars
               PROVE  PlaneIInv'
    OBVIOUS
  <1>1. CASE Establish
    BY <1>1 DEF Establish, linkVars, listenVars, PlaneIInv, PlaneTypeOK
  <1>2. CASE Fail
    BY <1>2, NothingSaidNext DEF Fail
  <1>3. CASE StartAgain
    BY <1>3 DEF StartAgain, linkVars, listenVars, PlaneIInv, PlaneTypeOK
  <1>4. ASSUME NEW f \in Frontends, Bind(f)
        PROVE  PlaneIInv'
    <2>1. listener' \in [Frontends -> {"binding", "up", "failed"}]
      BY <1>4 DEF Bind, PlaneIInv, PlaneTypeOK
    <2>2. \A g \in TcpFrontends \ left : listener'[g] = "up"
      BY <1>4 DEF Bind, PlaneIInv, PlaneTypeOK, Frontends
    <2> QED
      BY <1>4, <2>1, <2>2 DEF Bind, linkVars, PlaneIInv, PlaneTypeOK
  <1>5. ASSUME NEW f \in Frontends, BindPanics(f)
        PROVE  PlaneIInv'
    BY <1>5, NothingSaidNext DEF BindPanics
  <1>6. ASSUME NEW f \in Frontends, UdpBindFails(f)
        PROVE  PlaneIInv'
    <2>1. listener' \in [Frontends -> {"binding", "up", "failed"}]
      BY <1>6 DEF UdpBindFails, PlaneIInv, PlaneTypeOK
    <2>2. listener[f] # "up"
      BY <1>6 DEF UdpBindFails
    <2>3. \A g \in TcpFrontends \ left : listener'[g] = "up"
      BY <1>6, <2>2 DEF UdpBindFails, PlaneIInv, PlaneTypeOK, Frontends
    <2> QED
      BY <1>6, <2>1, <2>3 DEF UdpBindFails, linkVars, PlaneIInv, PlaneTypeOK
  <1>7. CASE Look
    BY <1>7 DEF Look, linkVars, PlaneIInv, PlaneTypeOK, Frontends
  <1>8. CASE Connect
    BY <1>8 DEF Connect, listenVars, PlaneIInv, PlaneTypeOK
  <1>9. CASE Watching \/ Tick
    BY <1>9 DEF Watching, Tick, Tell, Report, listenVars, PlaneIInv, PlaneTypeOK
  <1>10. CASE LinkBreaks
    BY <1>10 DEF LinkBreaks, listenVars, PlaneIInv, PlaneTypeOK
  <1>11. CASE Apply \/ RefuseConfig
    BY <1>11 DEF Apply, RefuseConfig, linkVars, listenVars, PlaneIInv, PlaneTypeOK
  <1>12. CASE UNCHANGED planeVars
    BY <1>12 DEF planeVars, linkVars, listenVars, PlaneIInv, PlaneTypeOK
  <1> QED
    BY <1>1, <1>2, <1>3, <1>4, <1>5, <1>6, <1>7, <1>8, <1>9, <1>10, <1>11, <1>12
       DEF PlaneNext

\* Whatever the frontends, and however often the process ends and the link is
\* lost, the agent never holds a report of serving from a process one of whose
\* TCP listeners is not up (ListeningCheck of server.rs, Status of link.rs).
THEOREM ServingMeansListening == PlaneSpec => []ServingIsListening
  <1>1. PlaneInit => PlaneIInv
    BY NothingSaid DEF PlaneInit
  <1>2. PlaneIInv => ServingIsListening
    BY DEF PlaneIInv, ServingIsListening
  <1> QED
    BY <1>1, <1>2, PlaneStep, PTL DEF PlaneSpec

(***************************************************************************)
(* The health of the members.                                              *)
(***************************************************************************)

\* The last n of a sequence of answers are v.
EndsWith(s, v, n) == n <= Len(s) /\ \A i \in Len(s) - n + 1 .. Len(s) : s[i] = v

\* What is counted of a member are the answers it gave last.
Tally(h, s) == /\ h.healthy \in BOOLEAN /\ h.failures \in Nat /\ h.successes \in Nat
               /\ EndsWith(s, FALSE, h.failures) /\ EndsWith(s, TRUE, h.successes)

TaskOK(t) == t \in {None} \cup [target : Targets, outcome : BOOLEAN \cup {None}]

\* What is known of the members, and what is remembered of their answers.
Books ==
    /\ health = [m \in Members |-> health[m]]
    /\ answers \in [Members -> Seq(BOOLEAN)]
    /\ \A m \in Members : /\ Len(answers[m]) <= MostAnswers
                          /\ Tally(Known(m), answers[m])

\* The tasks, and what aborted ones have still to record.
Tasks ==
    /\ task = [m \in Members |-> task[m]]
    /\ \A m \in Members : TaskOK(task[m])
    /\ aborted \subseteq [member : Members, target : Targets, outcome : BOOLEAN]

\* The number of answers remembered is a number.
LEMMA MostIsNat == MostAnswers \in Nat
  <1>1. \A t \in Targets : Longest(t) \in Nat
    BY HealthAssumption DEF Longest, AtLeastOne
  <1>2. MostAnswers \in {Longest(t) : t \in Targets}
    BY LongestAssumption, <1>1 DEF MostAnswers
  <1> QED
    BY <1>1, <1>2

\* An answer goes to the end, and the first of too many is forgotten.
Remembered(s, v) ==
    LET all == Append(s, v)
    IN  SubSeq(all, IF Len(all) > MostAnswers THEN 2 ELSE 1, Len(all))

LEMMA RememberedIs ==
  ASSUME NEW S, NEW s \in Seq(S), NEW v \in S, Len(s) <= MostAnswers
  PROVE  /\ Remembered(s, v) \in Seq(S)
         /\ Len(Remembered(s, v)) = IF Len(s) < MostAnswers THEN Len(s) + 1 ELSE Len(s)
         /\ \A i \in 1 .. Len(Remembered(s, v)) :
               Remembered(s, v)[i] = IF Len(s) < MostAnswers THEN Append(s, v)[i]
                                     ELSE Append(s, v)[i + 1]
  <1> DEFINE all == Append(s, v)
  <1>1. all \in Seq(S) /\ Len(all) = Len(s) + 1
    OBVIOUS
  <1>2. MostAnswers \in Nat
    BY MostIsNat
  <1> HIDE DEF all
  <1>3. CASE Len(s) < MostAnswers
    <2>1. Remembered(s, v) = SubSeq(all, 1, Len(all))
      BY <1>1, <1>2, <1>3 DEF Remembered, all
    <2> QED
      BY <1>1, <1>3, <2>1 DEF all
  <1>4. CASE Len(s) = MostAnswers
    <2>1. Remembered(s, v) = SubSeq(all, 2, Len(all))
      BY <1>1, <1>2, <1>4 DEF Remembered, all
    <2> QED
      BY <1>1, <1>4, <2>1 DEF all
  <1> QED
    BY <1>2, <1>3, <1>4

\* It makes the run of its kind one longer, as far as that is counted.
LEMMA RunGrows ==
  ASSUME NEW S, NEW s \in Seq(S), NEW v \in S, Len(s) <= MostAnswers,
         NEW n \in Nat, EndsWith(s, v, n)
  PROVE  EndsWith(Remembered(s, v), v, Counted(n)) /\ Counted(n) \in Nat
  <1> DEFINE r == Remembered(s, v)
  <1>1. MostAnswers \in Nat /\ n <= Len(s)
    BY MostIsNat DEF EndsWith
  <1>2. /\ r \in Seq(S)
        /\ Len(r) = IF Len(s) < MostAnswers THEN Len(s) + 1 ELSE Len(s)
        /\ \A i \in 1 .. Len(r) : r[i] = IF Len(s) < MostAnswers THEN Append(s, v)[i]
                                         ELSE Append(s, v)[i + 1]
    BY Zenon, RememberedIs
  <1>3. Counted(n) = IF n < MostAnswers THEN n + 1 ELSE n
    BY DEF Counted
  <1> HIDE DEF r
  <1>4. Counted(n) \in Nat /\ Counted(n) <= Len(r)
    BY <1>1, <1>2, <1>3
  <1>5. ASSUME NEW i \in Len(r) - Counted(n) + 1 .. Len(r) PROVE r[i] = v
    <2>1. i \in 1 .. Len(r)
      BY <1>2, <1>4
    <2>2. CASE Len(s) < MostAnswers
      <3>1. r[i] = Append(s, v)[i] /\ i \in 1 .. Len(s) + 1
        BY <1>2, <2>1, <2>2
      <3>2. i = Len(s) + 1 \/ i \in Len(s) - n + 1 .. Len(s)
        BY <1>1, <1>2, <1>3, <1>4, <1>5, <2>2
      <3> QED
        BY <1>1, <3>1, <3>2 DEF EndsWith
    <2>3. CASE Len(s) = MostAnswers
      <3>1. r[i] = Append(s, v)[i + 1] /\ i \in 1 .. Len(s)
        BY <1>2, <2>1, <2>3
      <3>2. i = Len(s) \/ i + 1 \in Len(s) - n + 1 .. Len(s)
        BY <1>1, <1>2, <1>3, <1>4, <1>5, <2>3
      <3> QED
        BY <1>1, <3>1, <3>2 DEF EndsWith
    <2> QED
      BY <1>1, <2>2, <2>3
  <1> QED
    BY <1>4, <1>5 DEF EndsWith, r

\* A run of no answers ends every sequence.
LEMMA NoRun ==
  ASSUME NEW s \in Seq(BOOLEAN), NEW v
  PROVE  EndsWith(s, v, 0)
  BY DEF EndsWith

\* A member nothing is known of has no run.
LEMMA UnknownTally ==
  ASSUME NEW s \in Seq(BOOLEAN)
  PROVE  Tally(Unknown, s)
  <1>1. Unknown.healthy = TRUE /\ Unknown.failures = 0 /\ Unknown.successes = 0
    BY DEF Unknown
  <1>2. TRUE \in BOOLEAN /\ 0 \in Nat
    OBVIOUS
  <1> QED
    BY Zenon, <1>1, <1>2, NoRun DEF Tally

\* One answer counts the run of its kind up and ends the other, and turns the
\* member's side only where the run has come to its threshold.
LEMMA AnswerTally ==
  ASSUME NEW h, NEW s \in Seq(BOOLEAN), Tally(h, s), Len(s) <= MostAnswers,
         NEW t \in Targets, NEW good \in BOOLEAN
  PROVE  LET next == IF good THEN AfterGood(h, t) ELSE AfterBad(h, t)
             all == Remembered(s, good)
         IN  /\ Tally(next, all)
             /\ next.healthy # h.healthy =>
                   /\ next.healthy = good
                   /\ EndsWith(all, good, AtLeastOne(IF good THEN Rise[t] ELSE Fall[t]))
  <1>0. /\ Rise[t] \in Nat /\ Fall[t] \in Nat
        /\ AtLeastOne(Rise[t]) \in Nat /\ AtLeastOne(Fall[t]) \in Nat
    BY HealthAssumption DEF AtLeastOne
  <1>1. Remembered(s, good) \in Seq(BOOLEAN)
    BY RememberedIs
  <1>2. ASSUME NEW r \in Seq(BOOLEAN), NEW v, NEW n \in Nat, NEW k \in Nat, EndsWith(r, v, n), n >= k
        PROVE  EndsWith(r, v, k)
    BY <1>2 DEF EndsWith
  <1>3. 0 \in Nat
    OBVIOUS
  <1>4. CASE good = TRUE
    <2> DEFINE run == Counted(h.successes)
               next == AfterGood(h, t)
               all == Remembered(s, TRUE)
    <2>1. EndsWith(all, TRUE, run) /\ run \in Nat
      BY Zenon, RunGrows DEF Tally
    <2>2. /\ next.healthy = (h.healthy \/ run >= AtLeastOne(Rise[t]))
          /\ next.failures = 0 /\ next.successes = run
      BY Zenon DEF AfterGood
    <2>3. all \in Seq(BOOLEAN)
      BY Zenon, <1>1, <1>4
    <2> HIDE DEF run, next, all
    <2>4. next.healthy \in BOOLEAN
      BY Zenon, <2>2
    <2>5. Tally(next, all)
      BY Zenon, <1>3, <2>1, <2>2, <2>3, <2>4, NoRun DEF Tally
    <2>6. next.healthy # h.healthy => next.healthy = TRUE /\ run >= AtLeastOne(Rise[t])
      BY Zenon, <2>2 DEF Tally
    <2>7. run >= AtLeastOne(Rise[t]) => EndsWith(all, TRUE, AtLeastOne(Rise[t]))
      BY Zenon, <1>0, <1>2, <2>1, <2>3
    <2> QED
      BY Zenon, <1>4, <2>5, <2>6, <2>7 DEF next, all
  <1>5. CASE good = FALSE
    <2> DEFINE run == Counted(h.failures)
               next == AfterBad(h, t)
               all == Remembered(s, FALSE)
    <2>1. EndsWith(all, FALSE, run) /\ run \in Nat
      BY Zenon, RunGrows DEF Tally
    <2>2. /\ next.healthy = (h.healthy /\ run < AtLeastOne(Fall[t]))
          /\ next.failures = run /\ next.successes = 0
      BY Zenon DEF AfterBad
    <2>3. all \in Seq(BOOLEAN)
      BY Zenon, <1>1, <1>5
    <2> HIDE DEF run, next, all
    <2>4. next.healthy \in BOOLEAN
      BY Zenon, <2>2
    <2>5. Tally(next, all)
      BY Zenon, <1>3, <2>1, <2>2, <2>3, <2>4, NoRun DEF Tally
    <2>6. next.healthy # h.healthy => next.healthy = FALSE /\ ~(run < AtLeastOne(Fall[t]))
      BY Zenon, <2>2 DEF Tally
    <2>7. ~(run < AtLeastOne(Fall[t])) => EndsWith(all, FALSE, AtLeastOne(Fall[t]))
      <3>1. ~(run < AtLeastOne(Fall[t])) => run >= AtLeastOne(Fall[t])
        BY <1>0, <2>1
      <3> QED
        BY Zenon, <1>0, <1>2, <2>1, <2>3, <3>1
    <2> QED
      BY Zenon, <1>5, <2>5, <2>6, <2>7 DEF next, all
  <1> QED
    BY Zenon, <1>4, <1>5

\* An outcome is recorded: the books stay right, and only its member can turn.
LEMMA RecordedRun ==
  ASSUME Books, NEW m \in Members, NEW t \in Targets, NEW good \in BOOLEAN,
         Recorded(m, t, good)
  PROVE  /\ Books'
         /\ \A k \in Members :
               health'[k] # None /\ health'[k].healthy # Known(k).healthy =>
                  /\ k = m /\ health'[k].healthy = good
                  /\ EndsWith(answers'[k], good, AtLeastOne(IF good THEN Rise[t] ELSE Fall[t]))
  <1> DEFINE h == Known(m)
             s == answers[m]
             next == IF good THEN AfterGood(h, t) ELSE AfterBad(h, t)
             all == Remembered(s, good)
  <1>1. s \in Seq(BOOLEAN) /\ Len(s) <= MostAnswers /\ Tally(h, s)
    BY DEF Books
  <1>2. /\ health' = [health EXCEPT ![m] = next]
        /\ answers' = [answers EXCEPT ![m] = all]
    BY Zenon DEF Recorded, Remembered
  <1>3. /\ Tally(next, all)
        /\ next.healthy # h.healthy =>
              /\ next.healthy = good
              /\ EndsWith(all, good, AtLeastOne(IF good THEN Rise[t] ELSE Fall[t]))
    <2> HIDE DEF h, s
    <2> QED
      BY <1>1, AnswerTally
  <1>4. all \in Seq(BOOLEAN) /\ Len(all) <= MostAnswers
    <2> HIDE DEF s
    <2>1. /\ all \in Seq(BOOLEAN)
          /\ Len(all) = IF Len(s) < MostAnswers THEN Len(s) + 1 ELSE Len(s)
      BY <1>1, RememberedIs
    <2> QED
      BY SMTT(30), <1>1, <2>1, MostIsNat
  <1> HIDE DEF next, all
  <1>5. /\ health' = [k \in Members |-> health'[k]]
        /\ health'[m] = next /\ answers'[m] = all
        /\ \A k \in Members \ {m} : health'[k] = health[k] /\ answers'[k] = answers[k]
        /\ answers' \in [Members -> Seq(BOOLEAN)]
    BY Zenon, <1>2, <1>4 DEF Books
  <1>6. Tally(Known(m)', all)
    BY Zenon, <1>3, <1>4, <1>5, UnknownTally DEF Known
  <1>7. \A k \in Members \ {m} : Known(k)' = Known(k)
    BY Zenon, <1>5 DEF Known
  <1>8. \A k \in Members : Tally(Known(k)', answers'[k]) /\ Len(answers'[k]) <= MostAnswers
    <2> TAKE k \in Members
    <2>1. CASE k = m
      BY Zenon, <1>4, <1>5, <1>6, <2>1
    <2>2. CASE k # m
      <3>1. k \in Members \ {m}
        BY <2>2
      <3> QED
        BY Zenon, <1>5, <1>7, <3>1 DEF Books
    <2> QED
      BY <2>1, <2>2
  <1>9. Books'
    BY Zenon, <1>5, <1>8 DEF Books
  <1>10. ASSUME NEW k \in Members \ {m}, health'[k] # None
         PROVE  health'[k].healthy = Known(k).healthy
    BY Zenon, <1>5, <1>10 DEF Known
  <1> QED
    BY Zenon, <1>3, <1>5, <1>9, <1>10 DEF h

\* Nobody turns while nothing is recorded.
LEMMA NobodyTurns ==
  ASSUME Books, \A m \in Members : health'[m] \in {None, health[m]}
  PROVE  \A m \in Members : TurnsOnARun(m)
  BY Zenon DEF TurnsOnARun, Known

\* The answers a turn needs, as the property counts them.
LEMMA TurnIsSeen ==
  ASSUME Books', NEW m \in Members, NEW t, NEW good \in BOOLEAN,
         \/ task[m] # None /\ t = task[m].target
         \/ \E late \in aborted : t = late.target,
         \A k \in Members :
            health'[k] # None /\ health'[k].healthy # Known(k).healthy =>
               /\ k = m /\ health'[k].healthy = good
               /\ EndsWith(answers'[k], good, AtLeastOne(IF good THEN Rise[t] ELSE Fall[t]))
  PROVE  \A k \in Members : TurnsOnARun(k)
  <1> SUFFICES ASSUME NEW k \in Members, health'[k] # None,
                      health'[k].healthy # Known(k).healthy
               PROVE  \E u \in {task[i].target : i \in {j \in {k} : task[j] # None}}
                                 \cup {late.target : late \in aborted} :
                         LastAnswers(k, health'[k].healthy,
                                     AtLeastOne(IF health'[k].healthy THEN Rise[u] ELSE Fall[u]))
    BY Zenon DEF TurnsOnARun
  <1>1. /\ k = m /\ health'[k].healthy = good
        /\ EndsWith(answers'[k], good, AtLeastOne(IF good THEN Rise[t] ELSE Fall[t]))
    BY Zenon
  <1>2. t \in {task[i].target : i \in {j \in {k} : task[j] # None}}
                 \cup {late.target : late \in aborted}
    BY Zenon, <1>1
  <1> DEFINE n == AtLeastOne(IF good THEN Rise[t] ELSE Fall[t])
  <1>3. ASSUME NEW x, EndsWith(answers'[k], good, x) PROVE LastAnswers(k, good, x)
    <2>1. answers'[k] \in Seq(BOOLEAN)
      BY DEF Books
    <2>2. x <= Len(answers'[k]) <=> Len(answers'[k]) >= x
      BY <1>3, <2>1
    <2> QED
      BY Zenon, <1>3, <2>2 DEF EndsWith, LastAnswers
  <1>4. LastAnswers(k, good, n)
    BY Zenon, <1>1, <1>3
  <1> QED
    BY Zenon, <1>1, <1>2, <1>4

\* Nothing is recorded and at most something is forgotten.
LEMMA NothingRecorded ==
  ASSUME Books,
         health' = [m \in Members |-> health'[m]], answers' = [m \in Members |-> answers'[m]],
         \A m \in Members : \/ health'[m] = health[m] /\ answers'[m] = answers[m]
                            \/ health'[m] = None /\ answers'[m] = <<>>
  PROVE  Books' /\ \A m \in Members : TurnsOnARun(m)
  <1>1. \A m \in Members : health'[m] \in {None, health[m]}
    BY Zenon
  <1>2. \A m \in Members : answers[m] \in Seq(BOOLEAN) /\ Len(answers[m]) <= MostAnswers
    BY DEF Books
  <1>3. <<>> \in Seq(BOOLEAN) /\ Len(<<>>) <= MostAnswers
    BY MostIsNat
  <1>4. \A m \in Members : answers'[m] \in Seq(BOOLEAN) /\ Len(answers'[m]) <= MostAnswers
    BY Zenon, <1>2, <1>3
  <1>5. answers' \in [Members -> Seq(BOOLEAN)]
    BY <1>4
  <1>6. \A m \in Members : Tally(Known(m)', answers'[m])
    <2> TAKE m \in Members
    <2>1. CASE health'[m] = None
      BY Zenon, <1>4, <2>1, UnknownTally DEF Known
    <2>2. CASE health'[m] # None
      BY Zenon, <2>2 DEF Known, Books
    <2> QED
      BY <2>1, <2>2
  <1>7. Books'
    BY Zenon, <1>4, <1>5, <1>6 DEF Books
  <1> QED
    BY Zenon, <1>1, <1>7, NobodyTurns

\* Every step keeps the books and the tasks, and turns a member on a run only.
LEMMA HealthStep ==
  ASSUME Books, Tasks, HealthNext
  PROVE  Books' /\ Tasks' /\ \A m \in Members : TurnsOnARun(m)
  <1>0. /\ health = [m \in Members |-> health[m]] /\ answers = [m \in Members |-> answers[m]]
        /\ task = [m \in Members |-> task[m]]
        /\ \A m \in Members : TaskOK(task[m])
    BY DEF Books, Tasks
  <1>same. ASSUME UNCHANGED <<health, answers>> PROVE Books' /\ \A m \in Members : TurnsOnARun(m)
    BY Zenon, <1>0, <1>same, NothingRecorded
  <1>1. ASSUME NEW m \in Members, Probed(m) PROVE Books' /\ Tasks' /\ \A k \in Members : TurnsOnARun(k)
    <2>1. task[m].outcome = None /\ task[m] # None /\ IsGood(task[m].target) \in BOOLEAN
      BY <1>1 DEF Probed, IsGood
    <2>2. TaskOK(task[m])
      BY Zenon, <1>0
    <2>3. /\ task' = [task EXCEPT ![m] = [task[m] EXCEPT !.outcome = IsGood(task[m].target)]]
          /\ UNCHANGED <<health, aborted, answers>>
      BY Zenon, <1>1 DEF Probed
    <2>4. Tasks'
      BY <1>0, <2>1, <2>2, <2>3 DEF Tasks, TaskOK
    <2> QED
      BY Zenon, <1>same, <2>3, <2>4
  <1>2. ASSUME NEW m \in Members, Record(m) PROVE Books' /\ Tasks' /\ \A k \in Members : TurnsOnARun(k)
    <2>1. /\ task[m] # None /\ task[m].outcome # None
          /\ Recorded(m, task[m].target, task[m].outcome)
          /\ task' = [task EXCEPT ![m] = [task[m] EXCEPT !.outcome = None]]
          /\ UNCHANGED aborted
      BY Zenon, <1>2 DEF Record
    <2>2. TaskOK(task[m])
      BY Zenon, <1>0
    <2>3. task[m].target \in Targets /\ task[m].outcome \in BOOLEAN
      BY <2>1, <2>2 DEF TaskOK
    <2>4. Tasks'
      BY <1>0, <2>1, <2>2 DEF Tasks, TaskOK
    <2>5. PICK t \in Targets, good \in BOOLEAN : t = task[m].target /\ good = task[m].outcome
      BY Zenon, <2>3
    <2>6. /\ Books'
          /\ \A k \in Members :
                health'[k] # None /\ health'[k].healthy # Known(k).healthy =>
                   /\ k = m /\ health'[k].healthy = good
                   /\ EndsWith(answers'[k], good, AtLeastOne(IF good THEN Rise[t] ELSE Fall[t]))
      <3>1. Recorded(m, t, good)
        BY Zenon, <2>1, <2>5
      <3> QED
        BY Zenon, <3>1, RecordedRun
    <2>7. \A k \in Members : TurnsOnARun(k)
      <3>1. \/ task[m] # None /\ t = task[m].target
            \/ \E late \in aborted : t = late.target
        BY Zenon, <2>1, <2>5
      <3> QED
        BY <2>6, <3>1, TurnIsSeen
    <2> QED
      BY Zenon, <2>4, <2>6, <2>7
  <1>3. ASSUME NEW late \in aborted, RecordLate(late)
        PROVE  Books' /\ Tasks' /\ \A k \in Members : TurnsOnARun(k)
    <2>1. /\ late.member \in Members /\ late.target \in Targets /\ late.outcome \in BOOLEAN
          /\ Recorded(late.member, late.target, late.outcome)
      BY <1>3 DEF RecordLate, Tasks
    <2>2. Tasks'
      BY <1>3 DEF RecordLate, Tasks
    <2>3. PICK m \in Members, t \in Targets, good \in BOOLEAN :
             m = late.member /\ t = late.target /\ good = late.outcome
      BY Zenon, <2>1
    <2>4. Recorded(m, t, good)
      BY Zenon, <2>1, <2>3
    <2>5. /\ Books'
          /\ \A k \in Members :
                health'[k] # None /\ health'[k].healthy # Known(k).healthy =>
                   /\ k = m /\ health'[k].healthy = good
                   /\ EndsWith(answers'[k], good, AtLeastOne(IF good THEN Rise[t] ELSE Fall[t]))
      BY Zenon, <2>4, RecordedRun
    <2>6. \A k \in Members : TurnsOnARun(k)
      <3>1. \/ task[m] # None /\ t = task[m].target
            \/ \E l \in aborted : t = l.target
        BY Zenon, <2>3
      <3> QED
        BY <2>5, <3>1, TurnIsSeen
    <2> QED
      BY Zenon, <2>2, <2>5, <2>6
  <1>4. CASE Scan
    <2>1. UNCHANGED <<health, answers>>
      BY Zenon, <1>4 DEF Scan
    <2>2. \A m \in Members : TaskOK(task'[m])
      <3> TAKE m \in Members
      <3>1. /\ m \notin Checked(members) => task'[m] = None
            /\ m \in Checked(members) =>
                  task'[m] \in {task[m], [target |-> members[m], outcome |-> None]}
        <4> DEFINE keeps == task[m] # None
                              /\ m \notin {k \in Members : task[k] # None /\ task[k].target # members[k]}
        <4>1. task'[m] = CASE m \notin Checked(members) -> None
                           [] keeps -> task[m]
                           [] OTHER -> [target |-> members[m], outcome |-> None]
          BY Zenon, <1>4 DEF Scan
        <4>2. keeps => m \in Checked(members)
          BY <1>0 DEF TaskOK, Checked
        <4> HIDE DEF keeps
        <4> QED
          BY <4>1, <4>2
      <3>2. m \in Checked(members) => members[m] \in Targets
        BY DEF Checked
      <3> QED
        BY <1>0, <3>1, <3>2 DEF TaskOK
    <2>3. task' = [m \in Members |-> task'[m]]
      BY <1>4 DEF Scan
    <2>4. aborted' \subseteq [member : Members, target : Targets, outcome : BOOLEAN]
      <3>1. ASSUME NEW m \in Members, task[m] # None, task[m].outcome # None
            PROVE  [member |-> m, target |-> task[m].target, outcome |-> task[m].outcome]
                      \in [member : Members, target : Targets, outcome : BOOLEAN]
        <4>1. task[m].target \in Targets /\ task[m].outcome \in BOOLEAN
          BY <1>0, <3>1 DEF TaskOK
        <4> QED
          BY <4>1
      <3> QED
        BY Zenon, <1>4, <3>1 DEF Scan, Tasks
    <2> QED
      BY Zenon, <1>same, <2>1, <2>2, <2>3, <2>4 DEF Tasks
  <1>5. CASE Retain
    <2>1. /\ health' = [m \in Members |-> health'[m]] /\ answers' = [m \in Members |-> answers'[m]]
          /\ \A m \in Members : \/ health'[m] = health[m] /\ answers'[m] = answers[m]
                                \/ health'[m] = None /\ answers'[m] = <<>>
      BY <1>5 DEF Retain
    <2>2. Tasks'
      BY <1>5 DEF Retain, Tasks, TaskOK
    <2> QED
      BY Zenon, <2>1, <2>2, NothingRecorded
  <1>6. CASE Swap
    BY <1>6, <1>same DEF Swap, Tasks, TaskOK
  <1>7. ASSUME NEW t \in Targets, Turn(t) PROVE Books' /\ Tasks' /\ \A k \in Members : TurnsOnARun(k)
    BY <1>7, <1>same DEF Turn, Tasks, TaskOK
  <1> QED
    BY Zenon, <1>1, <1>2, <1>3, <1>4, <1>5, <1>6, <1>7 DEF HealthNext

\* Whatever the members, their targets and thresholds, however the configuration
\* is swapped and the tasks replaced or aborted, a member changes sides only on
\* a run of answers as long as the threshold (Health::record, HealthService).
THEOREM TurnsTakeARun == HealthSpec => SidesChangeOnARun
  <1>1. HealthInit => Books /\ Tasks
    <2> SUFFICES ASSUME HealthInit PROVE Books /\ Tasks
      OBVIOUS
    <2>1. \A m \in Members : health[m] = None /\ answers[m] = <<>> /\ task[m] = None
      BY DEF HealthInit
    <2>2. <<>> \in Seq(BOOLEAN) /\ Len(<<>>) <= MostAnswers
      BY MostIsNat
    <2>3. \A m \in Members : Len(answers[m]) <= MostAnswers /\ Tally(Known(m), answers[m])
      BY Zenon, <2>1, <2>2, UnknownTally DEF Known
    <2>4. answers \in [Members -> Seq(BOOLEAN)] /\ health = [m \in Members |-> health[m]]
      BY <2>2 DEF HealthInit
    <2>5. Tasks
      BY DEF HealthInit, Tasks, TaskOK
    <2> QED
      BY Zenon, <2>3, <2>4, <2>5 DEF Books
  <1>2. Books /\ Tasks /\ [HealthNext]_healthVars
           => Books' /\ Tasks' /\ [\A m \in Members : TurnsOnARun(m)]_healthVars
    <2>1. CASE HealthNext
      BY <2>1, HealthStep
    <2>2. CASE UNCHANGED healthVars
      <3> SUFFICES ASSUME Books, Tasks PROVE Books' /\ Tasks'
        BY <2>2
      <3>1. health' = health /\ answers' = answers /\ task' = task /\ aborted' = aborted
        BY <2>2 DEF healthVars
      <3>2. \A m \in Members : Known(m)' = Known(m)
        BY Zenon, <3>1 DEF Known
      <3> QED
        BY Zenon, <3>1, <3>2 DEF Books, Tasks
    <2> QED
      BY <2>1, <2>2
  <1> QED
    BY <1>1, <1>2, PTL DEF HealthSpec, SidesChangeOnARun

(***************************************************************************)
(* The router: shapes.                                                     *)
(***************************************************************************)

\* The machine of this node: its settings stay, and it claims one of two
\* priorities.
MachineOK(m) ==
    m \in [configured : {Configured}, address : {Address}, preempt : {Preempt},
           priority : {Configured, Demoted}, state : {"Initialize", "Backup", "Master"},
           advertiseIn : Int \cup {Never}, claimIn : Int \cup {Never}]

WatchOK(w) == w \in [answered : BOOLEAN, missing : 0..Threshold, lowered : BOOLEAN,
                     dueIn : 0..CheckEvery]

DueOK(d) == d \in [left : Nat, in : Nat]

(***************************************************************************)
(* What carry_out has before it is one of six lists, each with the role it *)
(* leads to.                                                               *)
(***************************************************************************)
Through == queue = << >>
Dropping == queue = <<DropAddresses>>
Taking == \E p \in Priority : queue = <<TakeAddresses, Advertise(p)>>
Telling == \E p \in Priority : queue = <<Advertise(p)>>
Starting == \E p \in Priority : queue = <<DropAddresses, TakeAddresses, Advertise(p)>>
Leaving == \E p \in Priority : queue = <<Advertise(p), DropAddresses>>

Agenda ==
    \/ /\ Through
       /\ IF mach.state = "Master" THEN held = All ELSE stuck \/ held = {}
       /\ due.left > 0 => mach.state = "Master"
    \/ Dropping /\ mach.state # "Master"
    \/ Taking /\ mach.state = "Master" /\ due.left = 0
    \/ Telling /\ mach.state = "Master" /\ held = All
    \/ Starting /\ mach.state = "Master"
    \/ Leaving /\ mach.state # "Master"

RoleInv == /\ MachineOK(mach) /\ DueOK(due) /\ stuck \in BOOLEAN
           /\ stage = "start" => mach.state = "Initialize" /\ queue = << >>
           /\ Agenda

(***************************************************************************)
(* The router: the machine.                                                *)
(***************************************************************************)

\* What the machine answers with is a machine, and a list of one of the shapes.
LEMMA DoesIs == \A m, todo : Does(m, todo).machine = m /\ Does(m, todo).actions = todo
  BY DEF Does

\* The priorities this node claims are priorities.
LEMMA ClaimsArePriorities ==
  ASSUME NEW m, MachineOK(m)
  PROVE  m.priority \in Priority /\ m.configured = Configured
  BY RouterAssumption DEF MachineOK

\* A wait is a number of ticks, whatever the priority.
LEMMA WaitsAreInts ==
  ASSUME NEW p \in Priority
  PROVE  SkewTime(p) \in Int /\ MasterDownInterval(p) \in Int /\ Interval \in Int
  <1>1. Levels \in Int /\ Levels > 0 /\ Interval \in Int /\ p \in Int
    BY MachineAssumption DEF Priority
  <1>2. (Levels - p) * Interval \in Int
    BY <1>1
  <1>3. SkewTime(p) \in Int
    BY <1>1, <1>2 DEF SkewTime
  <1> QED
    BY <1>1, <1>3 DEF MasterDownInterval

\* Taking the role.
LEMMA MasterIs ==
  ASSUME NEW m, MachineOK(m)
  PROVE  LET r == BecomeMaster(m)
         IN  /\ MachineOK(r.machine) /\ r.machine.state = "Master"
             /\ r.machine.priority = m.priority
             /\ r.actions = <<TakeAddresses, Advertise(m.priority)>>
  <1> DEFINE e == [m EXCEPT !.state = "Master", !.claimIn = Never, !.advertiseIn = Interval]
  <1>1. Interval \in Int
    BY MachineAssumption
  <1>2. MachineOK(e) /\ e.state = "Master" /\ e.priority = m.priority
    BY Zenon, <1>1 DEF MachineOK
  <1> HIDE DEF e
  <1>3. BecomeMaster(m) = Does(e, <<TakeAddresses, Advertise(m.priority)>>)
    BY DEF BecomeMaster, e
  <1> QED
    BY <1>2, <1>3, DoesIs

\* Giving it up.
LEMMA BackupIs ==
  ASSUME NEW m, MachineOK(m)
  PROVE  LET r == BecomeBackup(m)
         IN  /\ MachineOK(r.machine) /\ r.machine.state = "Backup"
             /\ r.machine.priority = m.priority
             /\ r.actions = <<DropAddresses>>
  <1> DEFINE w == MasterDownInterval(m.priority)
             e == [m EXCEPT !.state = "Backup", !.advertiseIn = Never, !.claimIn = w]
  <1>1. w \in Int
    BY ClaimsArePriorities, WaitsAreInts
  <1>2. BecomeBackup(m) = Does(e, <<DropAddresses>>)
    BY DEF BecomeBackup
  <1> HIDE DEF w
  <1>3. MachineOK(e) /\ e.state = "Backup" /\ e.priority = m.priority
    BY ZenonT(40), <1>1 DEF MachineOK
  <1> HIDE DEF e
  <1> QED
    BY <1>2, <1>3, DoesIs

\* An answer that leaves the role alone: nothing to do, or one more
\* advertisement from a master.
Keeps(m, r) == /\ MachineOK(r.machine) /\ r.machine.state = m.state
               /\ \/ r.actions = << >>
                  \/ r.actions = <<Advertise(m.priority)>> /\ m.state = "Master"

\* An answer that takes the role, or gives it up.
Takes(m, r) == /\ MachineOK(r.machine) /\ r.machine.state = "Master" /\ m.state # "Master"
               /\ r.actions = <<TakeAddresses, Advertise(m.priority)>>

GivesUp(m, r) == /\ MachineOK(r.machine) /\ r.machine.state # "Master"
                 /\ \/ r.actions = <<DropAddresses>>
                    \/ r.actions = <<Advertise(GivingUp), DropAddresses>>

\* An advertisement of a peer (state.rs receive).
LEMMA ReceiveIs ==
  ASSUME NEW m, MachineOK(m), NEW from, NEW p
  PROVE  LET r == ReceiveMachine(m, from, p)
         IN  (Keeps(m, r) \/ GivesUp(m, r)) /\ r.machine.priority = m.priority
  <1> DEFINE w == MasterDownInterval(m.priority)
             s == SkewTime(m.priority)
             a == [m EXCEPT !.advertiseIn = Interval]
             b == [m EXCEPT !.claimIn = w]
             c == [m EXCEPT !.claimIn = s]
  <1>1. w \in Int \cup {Never} /\ s \in Int \cup {Never} /\ Interval \in Int \cup {Never}
    BY ClaimsArePriorities, WaitsAreInts
  <1>2. \/ ReceiveMachine(m, from, p) = Nothing(m)
        \/ ReceiveMachine(m, from, p) = Nothing(b)
        \/ ReceiveMachine(m, from, p) = Nothing(c)
        \/ ReceiveMachine(m, from, p) = Does(a, <<Advertise(m.priority)>>) /\ m.state = "Master"
        \/ ReceiveMachine(m, from, p) = BecomeBackup(m)
    BY DEF ReceiveMachine, MasterHeard, BackupHeard
  <1> HIDE DEF w, s
  <1>3. /\ MachineOK(a) /\ a.state = m.state /\ a.priority = m.priority
        /\ MachineOK(b) /\ b.state = m.state /\ b.priority = m.priority
        /\ MachineOK(c) /\ c.state = m.state /\ c.priority = m.priority
    BY <1>1 DEF MachineOK
  <1> HIDE DEF a, b, c
  <1> QED
    BY <1>2, <1>3, DoesIs, BackupIs DEF Nothing, Keeps, GivesUp

\* The timers (state.rs tick).
LEMMA TickIs ==
  ASSUME NEW m, MachineOK(m)
  PROVE  LET r == TickMachine(m)
         IN  (Keeps(m, r) \/ Takes(m, r)) /\ r.machine.priority = m.priority
  <1> DEFINE a == [m EXCEPT !.advertiseIn = Interval]
  <1>1. MachineOK(a) /\ a.state = m.state /\ a.priority = m.priority
    BY MachineAssumption DEF MachineOK
  <1>2. \/ TickMachine(m) = Nothing(m)
        \/ TickMachine(m) = Does(a, <<Advertise(m.priority)>>) /\ m.state = "Master"
        \/ TickMachine(m) = BecomeMaster(m) /\ m.state # "Master"
    BY SMTT(30) DEF TickMachine
  <1> HIDE DEF a
  <1> QED
    BY <1>1, <1>2, DoesIs, MasterIs DEF Nothing, Keeps, Takes

\* A lowered claim (state.rs demote).
LEMMA DemoteIs ==
  ASSUME NEW m, MachineOK(m)
  PROVE  LET r == Demote(m, Demoted)
         IN  /\ r.machine.priority = Demoted
             /\ Keeps(m, r) \/ GivesUp(m, r)
  <1> DEFINE a == [m EXCEPT !.priority = Demoted]
  <1>1. MachineOK(a) /\ a.state = m.state /\ a.priority = Demoted
    BY DEF MachineOK
  <1>2. \/ Demote(m, Demoted) = Nothing(m) /\ m.priority = Demoted
        \/ Demote(m, Demoted) = BecomeBackup(a)
        \/ Demote(m, Demoted) = Nothing(a)
    BY DEF Demote
  <1> HIDE DEF a
  <1> QED
    BY <1>1, <1>2, DoesIs, BackupIs DEF Nothing, Keeps, GivesUp

\* A claim put back (state.rs restore).
LEMMA RestoreIs ==
  ASSUME NEW m, MachineOK(m)
  PROVE  LET r == Restore(m)
         IN  /\ r.machine.priority = Configured
             /\ Keeps(m, r) /\ r.actions = << >>
  <1> DEFINE a == [m EXCEPT !.priority = m.configured]
  <1>1. MachineOK(a) /\ a.state = m.state /\ a.priority = Configured
    BY DEF MachineOK
  <1>2. Restore(m) = Nothing(a)
    BY DEF Restore
  <1> HIDE DEF a
  <1> QED
    BY <1>1, <1>2, DoesIs DEF Nothing, Keeps

\* What a claim is obeyed with (router.rs demote, restore).
LEMMA ObeyIs ==
  ASSUME MachineOK(mach), NEW claim
  PROVE  LET r == Obey(claim)
         IN  /\ r.machine.priority = IF claim = "Down" THEN Demoted ELSE Configured
             /\ Keeps(mach, r) \/ GivesUp(mach, r)
  <1>1. \/ Obey(claim) = Nothing(mach)
           /\ mach.priority = IF claim = "Down" THEN Demoted ELSE Configured
        \/ Obey(claim) = Demote(mach, Demoted) /\ claim = "Down"
        \/ Obey(claim) = Restore(mach) /\ claim # "Down"
    BY DEF Obey
  <1>2. Keeps(mach, Nothing(mach)) /\ Nothing(mach).machine = mach
    BY DoesIs DEF Nothing, Keeps
  <1> QED
    BY <1>1, <1>2, DemoteIs, RestoreIs

\* A stop gives the role up and says so (state.rs stop).
LEMMA StopIs ==
  ASSUME NEW m, MachineOK(m)
  PROVE  LET r == StopMachine(m)
         IN  GivesUp(m, r) /\ r.machine.priority = m.priority
  <1> DEFINE a == [m EXCEPT !.state = "Initialize", !.advertiseIn = Never, !.claimIn = Never]
  <1>1. MachineOK(a) /\ a.state = "Initialize" /\ a.priority = m.priority
    BY Zenon DEF MachineOK
  <1>2. \/ StopMachine(m) = Does(a, <<Advertise(GivingUp), DropAddresses>>)
        \/ StopMachine(m) = Does(a, <<DropAddresses>>)
    BY DEF StopMachine
  <1> HIDE DEF a
  <1> QED
    BY <1>1, <1>2, DoesIs DEF GivesUp

\* Time passes for the machine.
LEMMA ElapseIs ==
  ASSUME NEW m, MachineOK(m)
  PROVE  MachineOK(Elapse(m)) /\ Elapse(m).state = m.state /\ Elapse(m).priority = m.priority
  <1> DEFINE x == IF m.advertiseIn = Never THEN m.advertiseIn ELSE m.advertiseIn - 1
             y == IF m.claimIn = Never THEN m.claimIn ELSE m.claimIn - 1
             e == [m EXCEPT !.advertiseIn = x, !.claimIn = y]
  <1>1. x \in Int \cup {Never} /\ y \in Int \cup {Never}
    BY DEF MachineOK
  <1>2. Elapse(m) = e
    BY DEF Elapse, MachineOK
  <1> HIDE DEF x, y
  <1>3. MachineOK(e) /\ e.state = m.state /\ e.priority = m.priority
    BY Zenon, <1>1 DEF MachineOK
  <1> QED
    BY <1>2, <1>3

\* Two lists, one behind the other.
LEMMA Joined ==
  ASSUME NEW x, NEW y, NEW z
  PROVE  <<x>> \o <<y>> = <<x, y>> /\ <<x>> \o <<y, z>> = <<x, y, z>>
  <1> DEFINE S == {x, y, z}
  <1>1. <<x>> \in Seq(S) /\ <<y>> \in Seq(S) /\ <<y, z>> \in Seq(S)
    OBVIOUS
  <1>2. /\ Len(<<x>>) = 1 /\ Len(<<y>>) = 1 /\ Len(<<y, z>>) = 2
        /\ Len(<<x>> \o <<y>>) = 2 /\ Len(<<x>> \o <<y, z>>) = 3
    BY <1>1
  <1>3. <<x>> \o <<y>> \in Seq(S) /\ <<x>> \o <<y, z>> \in Seq(S)
    BY <1>1
  <1>4. /\ (<<x>> \o <<y>>)[1] = x /\ (<<x>> \o <<y>>)[2] = y
        /\ (<<x>> \o <<y, z>>)[1] = x /\ (<<x>> \o <<y, z>>)[2] = y
        /\ (<<x>> \o <<y, z>>)[3] = z
    BY <1>1, <1>2
  <1>5. \A a \in Seq(S) : Len(a) = 2 => a = <<a[1], a[2]>>
    OBVIOUS
  <1>6. \A a \in Seq(S) : Len(a) = 3 => a = <<a[1], a[2], a[3]>>
    OBVIOUS
  <1>7. <<x>> \o <<y>> = <<x, y>>
    BY Zenon, <1>2, <1>3, <1>4, <1>5
  <1>8. <<x>> \o <<y, z>> = <<x, y, z>>
    BY ZenonT(40), <1>2, <1>3, <1>4, <1>6
  <1> QED
    BY <1>7, <1>8

\* A start clears the interface first, also where the node owns the addresses.
LEMMA StartIs ==
  ASSUME NEW m, MachineOK(m)
  PROVE  LET r == StartMachine(m)
         IN  /\ MachineOK(r.machine) /\ r.machine.priority = m.priority
             /\ \/ /\ r.machine.state = "Master"
                   /\ r.actions = <<DropAddresses, TakeAddresses, Advertise(m.priority)>>
                \/ r.machine.state = "Backup" /\ r.actions = <<DropAddresses>>
  <1> DEFINE w == MasterDownInterval(m.priority)
             a == [m EXCEPT !.state = "Backup", !.advertiseIn = Never, !.claimIn = w]
             b == BecomeMaster(m)
  <1>1. w \in Int
    BY ClaimsArePriorities, WaitsAreInts
  <1>2. \/ StartMachine(m) = Does(b.machine, <<DropAddresses>> \o b.actions)
        \/ StartMachine(m) = Does(a, <<DropAddresses>>)
    BY DEF StartMachine
  <1> HIDE DEF w
  <1>3. MachineOK(a) /\ a.state = "Backup" /\ a.priority = m.priority
    BY Zenon, <1>1 DEF MachineOK
  <1>4. <<DropAddresses>> \o <<TakeAddresses, Advertise(m.priority)>>
           = <<DropAddresses, TakeAddresses, Advertise(m.priority)>>
    BY Zenon, Joined
  <1>5. /\ MachineOK(b.machine) /\ b.machine.state = "Master"
        /\ b.machine.priority = m.priority
        /\ <<DropAddresses>> \o b.actions
              = <<DropAddresses, TakeAddresses, Advertise(m.priority)>>
    BY Zenon, <1>4, MasterIs
  <1> DEFINE todo == <<DropAddresses>> \o b.actions
  <1>6. \/ StartMachine(m) = Does(b.machine, todo)
        \/ StartMachine(m) = Does(a, <<DropAddresses>>)
    BY <1>2
  <1> HIDE DEF a, b, todo
  <1> QED
    <2>1. CASE StartMachine(m) = Does(b.machine, todo)
      <3>1. StartMachine(m).machine = b.machine /\ StartMachine(m).actions = todo
        BY Zenon, <2>1, DoesIs
      <3>2. todo = <<DropAddresses, TakeAddresses, Advertise(m.priority)>>
        BY Zenon, <1>5 DEF todo
      <3> HIDE DEF todo
      <3> QED
        BY Zenon, <1>5, <3>1, <3>2
    <2>2. CASE StartMachine(m) = Does(a, <<DropAddresses>>)
      BY <1>3, <2>2, DoesIs
    <2> QED
      BY <1>6, <2>1, <2>2

(***************************************************************************)
(* The router: roles and addresses.                                        *)
(***************************************************************************)

\* The first thing of each list, and what is behind it.
LEMMA Heads ==
  ASSUME NEW x, NEW y, NEW z
  PROVE  /\ Head(<<x>>) = x /\ Tail(<<x>>) = << >> /\ <<x>> # << >>
         /\ Head(<<x, y>>) = x /\ Tail(<<x, y>>) = <<y>> /\ <<x, y>> # << >>
         /\ Head(<<x, y, z>>) = x /\ Tail(<<x, y, z>>) = <<y, z>> /\ <<x, y, z>> # << >>
  OBVIOUS

\* The three things there are to do.
LEMMA Kinds ==
  ASSUME NEW p
  PROVE  /\ DropAddresses.do = "drop" /\ TakeAddresses.do = "take"
         /\ Advertise(p).do = "advertise" /\ Advertise(p).priority = p
  BY DEF DropAddresses, TakeAddresses, Advertise

\* An answer of the machine to a round that has nothing else to do leaves a list
\* that fits the role.
LEMMA AnswerKeepsRole ==
  ASSUME RoleInv, queue = << >>, NEW r, NEW next, next # "start",
         Keeps(mach, r) \/ Takes(mach, r) \/ GivesUp(mach, r), Answer(r, next)
  PROVE  RoleInv'
  <1>1. /\ IF mach.state = "Master" THEN held = All ELSE stuck \/ held = {}
        /\ due.left > 0 => mach.state = "Master"
        /\ MachineOK(mach) /\ DueOK(due) /\ stuck \in BOOLEAN
    BY DEF RoleInv, Agenda, Through, Dropping, Taking, Telling, Starting, Leaving
  <1>2. /\ mach' = r.machine /\ queue' = r.actions /\ stage' = next
        /\ held' = held /\ due' = due /\ stuck' = stuck
    BY DEF Answer
  <1>3. mach.priority \in Priority /\ GivingUp \in Priority /\ due.left \in Nat
    BY <1>1, ClaimsArePriorities, MachineAssumption DEF Priority, GivingUp, DueOK
  <1>4. MachineOK(mach')
    BY <1>2 DEF Keeps, Takes, GivesUp
  <1>5. Agenda'
    <2>1. CASE Keeps(mach, r)
      BY SMTT(30), <1>1, <1>2, <1>3, <2>1 DEF Keeps, Agenda, Through, Telling, All
    <2>2. CASE Takes(mach, r)
      BY SMTT(30), <1>1, <1>2, <1>3, <2>2 DEF Takes, Agenda, Taking
    <2>3. CASE GivesUp(mach, r)
      BY <1>1, <1>2, <1>3, <2>3 DEF GivesUp, Agenda, Dropping, Leaving
    <2> QED
      BY SMTT(30), <2>1, <2>2, <2>3
  <1> QED
    BY <1>1, <1>2, <1>4, <1>5 DEF RoleInv

\* What is behind the first thing on the list.
LEMMA AtWork ==
  ASSUME RoleInv
  PROVE  /\ Do("advertise") =>
              \/ Tail(queue) = << >> /\ mach.state = "Master" /\ held = All
              \/ Tail(queue) = <<DropAddresses>> /\ mach.state # "Master"
         /\ Do("take") =>
              /\ mach.state = "Master" /\ due.left = 0
              /\ \E p \in Priority : Tail(queue) = <<Advertise(p)>>
         /\ Do("drop") =>
              \/ Tail(queue) = << >> /\ mach.state # "Master"
              \/ /\ mach.state = "Master"
                 /\ \E p \in Priority : Tail(queue) = <<TakeAddresses, Advertise(p)>>
         /\ \A kind : Do(kind) => stage # "start"
  <1>1. Agenda /\ (stage = "start" => queue = << >>)
    BY DEF RoleInv
  <1>2. CASE Through
    BY <1>2 DEF Through, Do
  <1>3. CASE Dropping /\ mach.state # "Master"
    BY <1>1, <1>3, Heads, Kinds DEF Dropping, Do
  <1>4. CASE Taking /\ mach.state = "Master" /\ due.left = 0
    BY <1>1, <1>4, Heads, Kinds DEF Taking, Do
  <1>5. CASE Telling /\ mach.state = "Master" /\ held = All
    BY <1>1, <1>5, Heads, Kinds DEF Telling, Do
  <1>6. CASE Starting /\ mach.state = "Master"
    BY <1>1, <1>6, Heads, Kinds DEF Starting, Do
  <1>7. CASE Leaving /\ mach.state # "Master"
    BY <1>1, <1>7, Heads, Kinds DEF Leaving, Do
  <1> QED
    BY Zenon, <1>1, <1>2, <1>3, <1>4, <1>5, <1>6, <1>7 DEF Agenda

\* Each step of carry_out leaves a list that fits the role.
LEMMA CarryOutKeepsRole ==
  ASSUME RoleInv, CarryOut
  PROVE  RoleInv'
  <1>1. MachineOK(mach) /\ DueOK(due) /\ stuck \in BOOLEAN /\ stage' = stage
    BY DEF RoleInv, CarryOut
  <1>2. Announcements - 1 \in Nat /\ Gap \in Nat
    BY RouterAssumption
  <1>3. due.left \in Nat
    BY <1>1 DEF DueOK
  <1>4. CASE SendAdvertisement
    <2>1. Do("advertise") /\ queue' = Tail(queue) /\ UNCHANGED <<mach, held, due, stuck>>
      BY <1>4 DEF SendAdvertisement
    <2>2. stage # "start"
      BY Zenon, <2>1, AtWork
    <2>3. \/ Tail(queue) = << >> /\ mach.state = "Master" /\ held = All
          \/ Tail(queue) = <<DropAddresses>> /\ mach.state # "Master"
      BY Zenon, <2>1, AtWork
    <2> QED
      BY <1>1, <2>1, <2>2, <2>3 DEF RoleInv, Agenda, Through, Dropping, All
  <1>5. CASE TakeAll
    <2>1. /\ Do("take") /\ queue' = Tail(queue) /\ mach' = mach /\ held' = All
          /\ stuck' = FALSE /\ due' = [left |-> Announcements - 1, in |-> Gap]
      BY <1>5 DEF TakeAll
    <2>2. stage # "start" /\ mach.state = "Master"
      BY Zenon, <2>1, AtWork
    <2>3. PICK p \in Priority : Tail(queue) = <<Advertise(p)>>
      BY Zenon, <2>1, AtWork
    <2>4. DueOK(due')
      BY <1>2, <2>1 DEF DueOK
    <2> QED
      BY Zenon, <1>1, <2>1, <2>2, <2>3, <2>4 DEF RoleInv, Agenda, Telling, All
  <1>6. CASE TakeRefused
    <2>1. /\ Do("take") /\ mach' = Renounce(mach).machine
          /\ queue' = Tail(queue) \o Renounce(mach).actions /\ UNCHANGED <<due, stuck>>
      BY <1>6 DEF TakeRefused
    <2>2. stage # "start" /\ mach.state = "Master"
      BY Zenon, <2>1, AtWork
    <2>3. PICK p \in Priority : Tail(queue) = <<Advertise(p)>>
      BY Zenon, <2>1, AtWork
    <2>4. /\ MachineOK(mach') /\ mach'.state # "Master"
          /\ Renounce(mach).actions = <<DropAddresses>>
      BY <1>1, <2>1, <2>2, BackupIs DEF Renounce
    <2>5. queue' = <<Advertise(p), DropAddresses>>
      BY Zenon, <2>1, <2>3, <2>4, Joined
    <2> QED
      BY Zenon, <1>1, <2>1, <2>2, <2>4, <2>5 DEF RoleInv, Agenda, Leaving
  <1>7. CASE DropAll \/ DropRefused
    <2>1. /\ Do("drop") /\ queue' = Tail(queue) /\ mach' = mach
          /\ due' = [left |-> 0, in |-> 0]
          /\ \/ held' = {} /\ stuck' = FALSE
             \/ stuck' = TRUE
      BY <1>7 DEF DropAll, DropRefused
    <2>2. stage # "start"
      BY Zenon, <2>1, AtWork
    <2>3. \/ Tail(queue) = << >> /\ mach.state # "Master"
          \/ /\ mach.state = "Master"
             /\ \E p \in Priority : Tail(queue) = <<TakeAddresses, Advertise(p)>>
      BY Zenon, <2>1, AtWork
    <2>4. DueOK(due') /\ due'.left = 0
      BY <2>1 DEF DueOK
    <2>5. ~(due'.left > 0)
      BY <2>4
    <2>6. CASE Tail(queue) = << >> /\ mach.state # "Master"
      <3>1. Agenda'
        BY Zenon, <2>1, <2>5, <2>6 DEF Agenda, Through
      <3> QED
        BY Zenon, <1>1, <2>1, <2>2, <2>4, <3>1 DEF RoleInv
    <2>7. CASE /\ mach.state = "Master"
               /\ \E p \in Priority : Tail(queue) = <<TakeAddresses, Advertise(p)>>
      <3>1. Agenda'
        BY Zenon, <2>1, <2>4, <2>7 DEF Agenda, Taking
      <3> QED
        BY Zenon, <1>1, <2>1, <2>2, <2>4, <3>1 DEF RoleInv
    <2> QED
      BY Zenon, <2>3, <2>6, <2>7
  <1> QED
    BY <1>4, <1>5, <1>6, <1>7 DEF CarryOut

\* Every step of the thread and of its surroundings does.
LEMMA RoleStep ==
  ASSUME RoleInv, [Next]_vars
  PROVE  RoleInv'
  <1>0. MachineOK(mach) /\ DueOK(due) /\ stuck \in BOOLEAN
    BY DEF RoleInv
  <1>1. CASE CarryOut
    BY <1>1, CarryOutKeepsRole
  <1>2. CASE Start
    <2>1. /\ queue = << >> /\ mach' = StartMachine(mach).machine
          /\ queue' = StartMachine(mach).actions
          /\ stage' = "top" /\ UNCHANGED <<held, due, stuck>>
      BY <1>2 DEF Start, At, Answer
    <2>2. mach.priority \in Priority
      BY SMTT(30), <1>0, ClaimsArePriorities
    <2>3. /\ MachineOK(mach')
          /\ \/ /\ mach'.state = "Master"
                /\ queue' = <<DropAddresses, TakeAddresses, Advertise(mach.priority)>>
             \/ mach'.state # "Master" /\ queue' = <<DropAddresses>>
      BY <1>0, <2>1, StartIs
    <2>4. Agenda'
      <3>1. CASE mach'.state = "Master"
        BY Zenon, <2>2, <2>3, <3>1 DEF Agenda, Starting
      <3>2. CASE mach'.state # "Master"
        BY Zenon, <2>3, <3>2 DEF Agenda, Dropping
      <3> QED
        BY <3>1, <3>2
    <2> QED
      BY <1>0, <2>1, <2>3, <2>4 DEF RoleInv
  <1>3. CASE Stop
    <2>1. queue = << >> /\ Answer(StopMachine(mach), "stopped")
      BY <1>3 DEF Stop, At
    <2>2. GivesUp(mach, StopMachine(mach))
      BY <1>0, StopIs
    <2> QED
      BY <2>1, <2>2, AnswerKeepsRole
  <1>4. CASE ObeyClaim
    <2>1. queue = << >> /\ Answer(Obey(Head(claims)), "claims")
      BY <1>4 DEF ObeyClaim, At
    <2>2. Keeps(mach, Obey(Head(claims))) \/ GivesUp(mach, Obey(Head(claims)))
      BY <1>0, ObeyIs
    <2> QED
      BY <2>1, <2>2, AnswerKeepsRole
  <1>5. ASSUME NEW p \in Adverts, Receive(p)
        PROVE  RoleInv'
    <2>1. queue = << >> /\ Answer(ReceiveMachine(mach, p.from, p.priority), "receive")
      BY SMTT(30), <1>5 DEF Receive, At
    <2>2. \/ Keeps(mach, ReceiveMachine(mach, p.from, p.priority))
          \/ GivesUp(mach, ReceiveMachine(mach, p.from, p.priority))
      BY <1>0, ReceiveIs
    <2> QED
      BY <2>1, <2>2, AnswerKeepsRole
  <1>6. CASE RunTimer
    <2>1. queue = << >> /\ Answer(TickMachine(mach), "collect")
      BY <1>6 DEF RunTimer, At
    <2>2. Keeps(mach, TickMachine(mach)) \/ Takes(mach, TickMachine(mach))
      BY SMTT(30), <1>0, TickIs
    <2> QED
      BY <2>1, <2>2, AnswerKeepsRole
  <1>7. CASE CollectAnswer
    <2>1. /\ stage # "start" /\ UNCHANGED <<queue, held, due, stuck, stage>>
          /\ mach' = mach \/ mach' = Restore(mach).machine
      BY SMTT(30), <1>7 DEF CollectAnswer, At
    <2>2. MachineOK(mach') /\ mach'.state = mach.state
      BY <1>0, <2>1, RestoreIs DEF Keeps
    <2> QED
      BY <1>0, <2>1, <2>2 DEF RoleInv, Agenda, Through, Dropping, Taking, Telling, Starting,
                              Leaving, All
  <1>8. CASE Ask \/ AskRefused
    <2>1. PICK w : queue = << >> /\ Count(w)
      BY <1>8 DEF Ask, AskRefused, At
    <2>2. \/ Answer(Demote(mach, Demoted), "announce")
          \/ Answer(Nothing(mach), "announce")
      BY <2>1 DEF Count
    <2>3. Keeps(mach, Demote(mach, Demoted)) \/ GivesUp(mach, Demote(mach, Demoted))
      BY <1>0, DemoteIs
    <2>4. Keeps(mach, Nothing(mach))
      BY <1>0, DoesIs DEF Nothing, Keeps
    <2> QED
      BY <2>1, <2>2, <2>3, <2>4, AnswerKeepsRole
  <1>9. CASE Announce \/ AnnounceRefused
    <2>1. /\ queue = << >> /\ stage' = "top" /\ UNCHANGED <<queue, held, stuck>>
          /\ mach' = Elapse(mach)
      BY <1>9 DEF Announce, AnnounceRefused, At, Sleep
    <2>2. DueOK(due') /\ (due'.left > 0 => due.left > 0)
      BY <1>0, <1>9, RouterAssumption DEF Announce, AnnounceRefused, Announcing, Sleep, DueOK
    <2>3. MachineOK(mach') /\ mach'.state = mach.state
      BY <1>0, <2>1, ElapseIs
    <2>4. /\ IF mach.state = "Master" THEN held = All ELSE stuck \/ held = {}
          /\ due.left > 0 => mach.state = "Master"
      BY <2>1 DEF RoleInv, Agenda, Through, Dropping, Taking, Telling, Starting, Leaving
    <2> QED
      BY <1>0, <2>1, <2>2, <2>3, <2>4 DEF RoleInv, Agenda, Through, All
  <1>10. CASE UNCHANGED node /\ (stage' # "start" \/ stage' = stage)
    <2>1. UNCHANGED <<mach, queue, held, due, stuck>>
      BY <1>10 DEF node
    <2> QED
      BY <1>10, <2>1 DEF RoleInv, Agenda, Through, Dropping, Taking, Telling, Starting,
                         Leaving, All
  <1>11. CASE Begin \/ ClaimsDone \/ ReceivedAll \/ CollectLate \/ CollectOther \/ Collected
              \/ NotDue \/ Decide \/ Arrive \/ Finished \/ UNCHANGED vars
    <2>1. UNCHANGED node /\ (stage' # "start" \/ stage' = stage)
      BY <1>11 DEF Begin, ClaimsDone, ReceivedAll, CollectLate, CollectOther, Collected, NotDue,
                   Decide, Arrive, Finished, vars
    <2> QED
      BY SMTT(30), <1>10, <2>1
  <1> QED
    BY <1>1, <1>2, <1>3, <1>4, <1>5, <1>6, <1>7, <1>8, <1>9, <1>11 DEF Next, Round

\* What the code starts with.
LEMMA RoleStart == Init => RoleInv
  <1> SUFFICES ASSUME Init
               PROVE  RoleInv
    BY SMTT(30)
  <1>1. MachineOK(mach) /\ mach.state = "Initialize"
    BY DEF Init, NewMachine, MachineOK
  <1>2. DueOK(due) /\ due.left = 0
    BY DEF Init, DueOK
  <1>3. ~(due.left > 0)
    BY <1>2
  <1>4. queue = << >> /\ stage = "start" /\ stuck \in BOOLEAN /\ (stuck \/ held = {})
    BY Zenon DEF Init
  <1> QED
    BY Zenon, <1>1, <1>2, <1>3, <1>4 DEF RoleInv, Agenda, Through

\* Whatever the kernel refuses, whatever the peers, the supervision and the
\* gateway say and however the router is stopped: once carry_out is through a
\* master has every address and any other node none that the kernel did not
\* keep, and announcements are pending for addresses the node holds (router.rs
\* carry_out, carrier.rs).
THEOREM AddressesFollowTheRole == Spec => []HoldsItsRole
  <1>1. RoleInv => HoldsItsRole
    <2> SUFFICES ASSUME RoleInv
                 PROVE  HoldsItsRole
      OBVIOUS
    <2>1. Agenda /\ due.left \in Nat
      BY DEF RoleInv, DueOK
    <2>2. AddressesFollowRole
      BY <2>1, Heads DEF AddressesFollowRole, Standing, Agenda, Through, Dropping, Taking,
                         Telling, Starting, Leaving
    <2>3. Dropping \/ Starting \/ Leaving => GivingUpAddresses
      <3>1. Dropping => queue[1].do = "drop" /\ 1 \in DOMAIN queue
        BY Kinds DEF Dropping
      <3>2. Starting => queue[1].do = "drop" /\ 1 \in DOMAIN queue
        BY Kinds DEF Starting
      <3>3. Leaving => queue[2].do = "drop" /\ 2 \in DOMAIN queue
        BY Kinds DEF Leaving
      <3> QED
        BY Zenon, <3>1, <3>2, <3>3 DEF GivingUpAddresses
    <2>4. AnnouncesWhatItHolds
      BY <2>1, <2>3 DEF AnnouncesWhatItHolds, Agenda
    <2> QED
      BY <2>2, <2>4 DEF HoldsItsRole
  <1>2. RoleInv /\ [Next]_vars => RoleInv'
    BY RoleStep
  <1> QED
    BY <1>1, <1>2, RoleStart, PTL DEF Spec

\* An advertisement that claims the role leaves from a node that has every
\* address, or that is already standing down because it could not take them
\* (router.rs carry_out, state.rs become_master).
THEOREM NoClaimWithoutAddresses == Spec => ClaimsWithAddresses
  <1> DEFINE Claims == Do("advertise") /\ queue' = Tail(queue)
                          /\ Head(queue).priority # GivingUp
                       => held = All \/ GivingUpAddresses
  <1>1. RoleInv => Claims
    <2> SUFFICES ASSUME RoleInv, Do("advertise")
                 PROVE  held = All \/ GivingUpAddresses
      OBVIOUS
    <2>1. CASE Tail(queue) = <<DropAddresses>>
      <3>1. Telling => Tail(queue) = << >>
        BY Heads DEF Telling
      <3>2. Leaving
        BY <2>1, <3>1, Heads, Kinds DEF RoleInv, Agenda, Do, Through, Dropping, Taking,
                                        Starting
      <3>3. queue[2].do = "drop" /\ 2 \in DOMAIN queue
        BY <3>2, Kinds DEF Leaving
      <3> QED
        BY Zenon, <3>3 DEF GivingUpAddresses
    <2> QED
      BY Zenon, <2>1, AtWork
  <1>2. RoleInv /\ [Next]_vars => RoleInv' /\ [Claims]_vars
    BY <1>1, RoleStep
  <1> QED
    BY <1>2, RoleStart, PTL DEF Spec, ClaimsWithAddresses

(***************************************************************************)
(* The router: the claim and the gateway.                                  *)
(*                                                                         *)
(* That a lost gateway takes silence needs a count of the questions since  *)
(* the last answer: each is an interval after the one before, so that many *)
(* intervals have passed, up to the time to the next.                      *)
(***************************************************************************)
Asked == watch.missing + (IF waiting THEN 1 ELSE 0)

SilentSince == watch.answered => \/ silence = QuietEnough
                                 \/ silence >= Asked * CheckEvery - watch.dueIn

ClaimInv == /\ MachineOK(mach) /\ WatchOK(watch) /\ waiting \in BOOLEAN
            /\ silence \in Nat /\ silence <= QuietEnough
            /\ LoweredForAReason /\ LostTakesSilence /\ SilentSince

\* A number of intervals is a number of ticks, and more of them are longer.
LEMMA Intervals ==
  ASSUME NEW a \in Nat, NEW b \in Nat, a <= b
  PROVE  /\ a * CheckEvery \in Nat /\ a * CheckEvery <= b * CheckEvery
         /\ (a + 1) * CheckEvery = a * CheckEvery + CheckEvery
  BY RouterAssumption

\* The silence that lowers the claim.
LEMMA QuietIsNat == /\ QuietEnough \in Nat /\ Threshold \in Nat /\ Threshold > 0
                    /\ CheckEvery \in Nat /\ CheckEvery > 0
                    /\ QuietEnough = (Threshold - 1) * CheckEvery
  <1>1. Threshold - 1 \in Nat
    BY RouterAssumption
  <1>2. (Threshold - 1) * CheckEvery \in Nat
    BY SMTT(30), <1>1, Intervals
  <1> QED
    BY <1>2, RouterAssumption DEF QuietEnough

\* A question without an answer is counted once, after a first answer (gateway.rs
\* missed).
LEMMA MissedIs ==
  ASSUME NEW w, WatchOK(w)
  PROVE  LET m == Missed(w)
         IN  /\ WatchOK(m) /\ m.answered = w.answered /\ m.dueIn = w.dueIn
             /\ m.missing <= w.missing + 1
             /\ w.lowered => m.lowered
             /\ m.lowered => w.lowered \/ (w.answered /\ m.missing = Threshold)
  <1>1. CASE ~w.answered
    BY <1>1 DEF Missed, WatchOK
  <1>2. CASE w.answered
    <2> DEFINE n == IF w.missing < Threshold THEN w.missing + 1 ELSE w.missing
               l == w.lowered \/ n >= Threshold
               e == [w EXCEPT !.missing = n, !.lowered = l]
    <2>1. n \in 0..Threshold /\ n <= w.missing + 1
      BY RouterAssumption DEF WatchOK
    <2>2. l \in BOOLEAN
      OBVIOUS
    <2>3. Missed(w) = e
      BY <1>2 DEF Missed
    <2>4. l <=> (w.lowered \/ n = Threshold)
      BY <2>1, QuietIsNat
    <2> HIDE DEF n, l
    <2>5. /\ WatchOK(e) /\ e.answered = w.answered /\ e.dueIn = w.dueIn /\ e.missing = n
          /\ e.lowered = l
      BY Zenon, <2>1, <2>2 DEF WatchOK
    <2> QED
      BY Zenon, <1>2, <2>1, <2>3, <2>4, <2>5
  <1> QED
    BY <1>1, <1>2

\* An answer starts the count again (gateway.rs answered).
LEMMA AnsweredIs ==
  ASSUME NEW w, WatchOK(w)
  PROVE  LET e == Answered(w)
         IN  WatchOK(e) /\ e.missing = 0 /\ e.lowered = FALSE /\ e.dueIn \in Nat
  <1>1. 0 \in 0..Threshold
    BY QuietIsNat
  <1>2. w.dueIn \in 0..CheckEvery
    BY DEF WatchOK
  <1>3. /\ WatchOK(Answered(w)) /\ Answered(w).missing = 0 /\ Answered(w).lowered = FALSE
        /\ Answered(w).dueIn = w.dueIn
    BY Zenon, <1>1 DEF WatchOK, Answered
  <1> QED
    BY <1>2, <1>3

\* The next date is set alone.
LEMMA DateIs ==
  ASSUME NEW w, WatchOK(w), NEW t \in 0..CheckEvery
  PROVE  LET e == [w EXCEPT !.dueIn = t]
         IN  /\ WatchOK(e) /\ e.answered = w.answered /\ e.missing = w.missing
             /\ e.lowered = w.lowered /\ e.dueIn = t
  BY DEF WatchOK

\* What is counted when a question is due.
LEMMA OverdueIs ==
  ASSUME WatchOK(watch), waiting \in BOOLEAN
  PROVE  /\ WatchOK(Overdue) /\ Overdue.answered = watch.answered
         /\ Overdue.dueIn = CheckEvery
         /\ Overdue.missing <= Asked
         /\ watch.lowered => Overdue.lowered
         /\ Overdue.lowered => watch.lowered \/ (watch.answered /\ Overdue.missing = Threshold)
  <1> DEFINE w == IF waiting THEN Missed(watch) ELSE watch
  <1>1. CheckEvery \in 0..CheckEvery
    BY QuietIsNat
  <1>2. Overdue = [w EXCEPT !.dueIn = CheckEvery]
    BY SMTT(30) DEF Overdue
  <1>3. /\ WatchOK(w) /\ w.answered = watch.answered /\ w.missing <= Asked
        /\ watch.lowered => w.lowered
        /\ w.lowered => watch.lowered \/ (watch.answered /\ w.missing = Threshold)
    <2>1. CASE waiting
      BY <2>1, MissedIs DEF Asked
    <2>2. CASE ~waiting
      BY <2>2 DEF Asked, WatchOK
    <2> QED
      BY <2>1, <2>2
  <1> HIDE DEF w
  <1> QED
    BY <1>1, <1>2, <1>3, DateIs

\* The count that is kept when a question is due, sent or not: w is the watch
\* afterwards, which counts one question more at most.
LEMMA CountKeepsClaim ==
  ASSUME ClaimInv, watch.dueIn = 0, NEW w, WatchOK(w), w.answered = watch.answered,
         w.dueIn = CheckEvery, Count(w), UNCHANGED <<silence, told>>, waiting' \in BOOLEAN,
         w.missing <= Asked + 1, waiting' => w.missing <= Asked,
         watch.lowered => w.lowered,
         w.lowered => watch.lowered \/ (watch.answered /\ w.missing = Threshold)
  PROVE  ClaimInv'
  <1>0. /\ MachineOK(mach) /\ WatchOK(watch) /\ waiting \in BOOLEAN /\ silence \in Nat
        /\ silence <= QuietEnough /\ LoweredForAReason /\ LostTakesSilence /\ SilentSince
    BY SMTT(30) DEF ClaimInv
  <1>1. watch' = w
    BY DEF Count
  <1>2. Asked \in Nat /\ w.missing \in Nat
    BY SMTT(30), <1>0 DEF Asked, WatchOK
  <1>3. /\ MachineOK(mach')
        /\ \/ mach' = mach /\ ~(w.lowered /\ ~watch.lowered)
           \/ mach'.priority = Demoted /\ w.lowered
    <2>1. CASE w.lowered /\ ~watch.lowered
      <3>1. mach' = Demote(mach, Demoted).machine
        BY Zenon, <2>1 DEF Count, Answer
      <3> QED
        BY Zenon, <1>0, <2>1, <3>1, DemoteIs DEF Keeps, GivesUp
    <2>2. CASE ~(w.lowered /\ ~watch.lowered)
      <3>1. mach' = mach
        BY <2>2, DoesIs DEF Count, Answer, Nothing
      <3> QED
        BY SMTT(30), <1>0, <2>2, <3>1
    <2> QED
      BY <2>1, <2>2
  <1>4. LoweredForAReason'
    BY <1>0, <1>1, <1>3 DEF LoweredForAReason
  <1>5. watch.answered => silence = QuietEnough \/ silence >= Asked * CheckEvery
    <2>1. Asked * CheckEvery \in Nat
      BY <1>2, Intervals
    <2> QED
      BY SMTT(30), <1>0, <2>1 DEF SilentSince
  <1>6. watch.answered /\ w.missing = Threshold => silence = QuietEnough
    <2> SUFFICES ASSUME watch.answered, w.missing = Threshold
                 PROVE  silence = QuietEnough
      BY SMTT(30)
    <2>1. Threshold - 1 \in Nat /\ Threshold - 1 <= Asked
      BY SMTT(30), <1>2, QuietIsNat
    <2>2. (Threshold - 1) * CheckEvery <= Asked * CheckEvery
      BY SMTT(30), <1>2, <2>1, Intervals
    <2>3. Asked * CheckEvery \in Nat
      BY <1>2, Intervals
    <2> QED
      BY SMTT(30), <1>0, <1>5, <2>2, <2>3, QuietIsNat
  <1>7. LostTakesSilence'
    <2>1. QuietEnough' = QuietEnough
      BY SMTT(30) DEF QuietEnough
    <2> QED
      BY SMTT(30), <1>0, <1>1, <1>6, <2>1 DEF LostTakesSilence
  <1>8. SilentSince'
    <2>1. Asked' \in Nat /\ Asked' <= Asked + 1
      BY SMTT(30), <1>1, <1>2 DEF Asked
    <2>2. /\ Asked' * CheckEvery <= (Asked + 1) * CheckEvery
          /\ Asked' * CheckEvery \in Nat
      BY SMTT(30), <1>2, <2>1, Intervals
    <2>3. (Asked + 1) * CheckEvery = Asked * CheckEvery + CheckEvery /\ Asked * CheckEvery \in Nat
      BY SMTT(30), <1>2, Intervals
    <2>4. watch.answered => \/ silence = QuietEnough
                            \/ silence >= Asked' * CheckEvery - CheckEvery
      BY <1>0, <1>5, <2>2, <2>3, QuietIsNat
    <2> QED
      BY SMTT(30), <1>1, <2>4 DEF SilentSince, QuietEnough
  <1>9. silence' \in Nat /\ silence' <= QuietEnough'
    BY SMTT(30), <1>0 DEF QuietEnough
  <1> QED
    BY <1>1, <1>3, <1>4, <1>7, <1>8, <1>9 DEF ClaimInv

\* A step that leaves the watch alone and the claim as it was.
LEMMA ClaimLeftAlone ==
  ASSUME ClaimInv, UNCHANGED <<watch, waiting, silence, told>>,
         MachineOK(mach'), mach'.priority = mach.priority
  PROVE  ClaimInv'
  BY DEF ClaimInv, LoweredForAReason, LostTakesSilence, SilentSince, Asked, QuietEnough

\* Every step keeps the claim and the count in step with their reasons.
LEMMA ClaimStep ==
  ASSUME ClaimInv, [Next]_vars
  PROVE  ClaimInv'
  <1>0. /\ MachineOK(mach) /\ WatchOK(watch) /\ waiting \in BOOLEAN /\ silence \in Nat
        /\ silence <= QuietEnough /\ LoweredForAReason /\ LostTakesSilence /\ SilentSince
    BY DEF ClaimInv
  <1>1. CASE CarryOut
    <2>1. UNCHANGED <<watch, waiting, silence, told>>
      BY <1>1 DEF CarryOut, uplink
    <2>2. mach' = mach \/ mach' = Renounce(mach).machine
      BY Zenon, <1>1 DEF CarryOut, SendAdvertisement, TakeAll, TakeRefused, DropAll, DropRefused
    <2>3. MachineOK(mach') /\ mach'.priority = mach.priority
      BY SMTT(30), <1>0, <2>2, BackupIs, DoesIs DEF Renounce, Nothing
    <2> QED
      BY Zenon, <2>1, <2>3, ClaimLeftAlone
  <1>2. CASE Start \/ Stop \/ RunTimer \/ (\E p \in Adverts : Receive(p))
    <2>1. UNCHANGED <<watch, waiting, silence, told>>
      BY <1>2 DEF Start, Stop, RunTimer, Receive, uplink
    <2>2. \/ mach' = StartMachine(mach).machine
          \/ mach' = StopMachine(mach).machine
          \/ mach' = TickMachine(mach).machine
          \/ \E p \in Adverts : mach' = ReceiveMachine(mach, p.from, p.priority).machine
      BY Zenon, <1>2 DEF Start, Stop, RunTimer, Receive, Answer
    <2>3. MachineOK(mach') /\ mach'.priority = mach.priority
      <3>1. CASE mach' = StartMachine(mach).machine
        BY Zenon, <1>0, <3>1, StartIs
      <3>2. CASE mach' = StopMachine(mach).machine
        BY Zenon, <1>0, <3>2, StopIs DEF GivesUp
      <3>3. CASE mach' = TickMachine(mach).machine
        BY Zenon, <1>0, <3>3, TickIs DEF Keeps, Takes
      <3>4. ASSUME NEW p \in Adverts,
                   mach' = ReceiveMachine(mach, p.from, p.priority).machine
            PROVE  MachineOK(mach') /\ mach'.priority = mach.priority
        <4> DEFINE r == ReceiveMachine(mach, p.from, p.priority)
        <4>1. (Keeps(mach, r) \/ GivesUp(mach, r)) /\ r.machine.priority = mach.priority
          BY Zenon, <1>0, ReceiveIs
        <4> QED
          BY Zenon, <3>4, <4>1 DEF Keeps, GivesUp
      <3> QED
        BY Zenon, <2>2, <3>1, <3>2, <3>3, <3>4
    <2> QED
      BY Zenon, <2>1, <2>3, ClaimLeftAlone
  <1>3. CASE ObeyClaim
    <2>1. /\ UNCHANGED <<watch, waiting, silence>> /\ told' = Head(claims)
          /\ mach' = Obey(Head(claims)).machine
      BY <1>3 DEF ObeyClaim, Answer, uplink
    <2>2. /\ MachineOK(mach')
          /\ mach'.priority = IF told' = "Down" THEN Demoted ELSE Configured
      BY Zenon, <1>0, <2>1, ObeyIs DEF Keeps, GivesUp
    <2>3. LoweredForAReason'
      BY <2>2 DEF LoweredForAReason
    <2> QED
      BY <1>0, <2>1, <2>2, <2>3 DEF ClaimInv, LostTakesSilence, SilentSince, Asked, QuietEnough
  <1>4. CASE CollectAnswer
    <2>1. /\ watch' = Answered(watch) /\ waiting' = FALSE /\ silence' = 0 /\ told' = told
          /\ mach' = IF watch.lowered THEN Restore(mach).machine ELSE mach
      BY <1>4 DEF CollectAnswer
    <2>2. /\ WatchOK(watch') /\ watch'.missing = 0 /\ watch'.lowered = FALSE
          /\ watch'.dueIn \in Nat
      BY ZenonT(40), <1>0, <2>1, AnsweredIs
    <2>3. /\ MachineOK(mach')
          /\ watch.lowered => mach'.priority = Configured
          /\ ~watch.lowered => mach' = mach
      BY <1>0, <2>1, RestoreIs DEF Keeps
    <2>4. LoweredForAReason'
      BY Zenon, <1>0, <2>1, <2>3 DEF LoweredForAReason
    <2>5. SilentSince'
      <3>1. Asked' = 0
        BY <2>1, <2>2 DEF Asked
      <3>2. 0 * CheckEvery = 0
        BY QuietIsNat
      <3>3. silence' >= Asked' * CheckEvery - watch'.dueIn
        BY <2>1, <2>2, <3>1, <3>2
      <3> QED
        BY <3>3 DEF SilentSince
    <2>6. silence' \in Nat /\ silence' <= QuietEnough'
      BY SMTT(30), <2>1, QuietIsNat DEF QuietEnough
    <2> QED
      BY Zenon, <2>1, <2>2, <2>3, <2>4, <2>5, <2>6 DEF ClaimInv, LostTakesSilence
  <1>5. CASE Ask
    <2>1. watch.dueIn = 0 /\ Count(Overdue) /\ waiting' = TRUE /\ UNCHANGED <<silence, told>>
      BY <1>5 DEF Ask
    <2>2. Asked \in Nat /\ Overdue.missing \in Nat
      BY <1>0, OverdueIs DEF Asked, WatchOK
    <2> QED
      BY <1>0, <2>1, <2>2, OverdueIs, CountKeepsClaim
  <1>6. CASE AskRefused
    <2> DEFINE w == Missed(Overdue)
    <2>1. watch.dueIn = 0 /\ Count(w) /\ waiting' = FALSE /\ UNCHANGED <<silence, told>>
      BY SMTT(30), <1>6 DEF AskRefused
    <2>2. /\ WatchOK(w) /\ w.answered = watch.answered /\ w.dueIn = CheckEvery
          /\ w.missing <= Overdue.missing + 1
          /\ watch.lowered => w.lowered
          /\ w.lowered => Overdue.lowered \/ (watch.answered /\ w.missing = Threshold)
      BY SMTT(30), <1>0, OverdueIs, MissedIs
    <2>3. w.missing <= Asked + 1
      BY <1>0, <2>2, OverdueIs DEF Asked, WatchOK
    <2>4. Overdue.lowered => watch.lowered \/ (watch.answered /\ w.missing = Threshold)
      BY <1>0, OverdueIs, QuietIsNat DEF Missed, WatchOK
    <2> HIDE DEF w
    <2> QED
      BY Zenon, <1>0, <2>1, <2>2, <2>3, <2>4, CountKeepsClaim
  <1>7. CASE Announce \/ AnnounceRefused
    <2> DEFINE t == IF watch.dueIn > 0 THEN watch.dueIn - 1 ELSE 0
    <2>1. /\ mach' = Elapse(mach) /\ watch' = [watch EXCEPT !.dueIn = t]
          /\ silence' = IF silence < QuietEnough THEN silence + 1 ELSE silence
          /\ UNCHANGED <<waiting, told>>
      BY <1>7 DEF Announce, AnnounceRefused, Sleep
    <2>2. t \in 0..CheckEvery /\ watch.dueIn \in Nat /\ watch.dueIn <= t + 1
      BY <1>0, QuietIsNat DEF WatchOK
    <2> HIDE DEF t
    <2>3. /\ WatchOK(watch') /\ watch'.answered = watch.answered
          /\ watch'.missing = watch.missing /\ watch'.lowered = watch.lowered
          /\ watch'.dueIn = t
      BY <1>0, <2>1, <2>2, DateIs
    <2>4. MachineOK(mach') /\ mach'.priority = mach.priority
      BY <1>0, <2>1, ElapseIs
    <2>5. silence' \in Nat /\ silence' <= QuietEnough
      BY SMTT(30), <1>0, <2>1, QuietIsNat
    <2>6. SilentSince'
      <3>1. Asked' = Asked /\ Asked \in Nat
        BY <1>0, <2>1, <2>3 DEF Asked, WatchOK
      <3>2. Asked * CheckEvery \in Nat
        BY <3>1, Intervals
      <3>3. watch.answered => \/ silence' = QuietEnough
                              \/ silence' >= Asked * CheckEvery - t
        BY <1>0, <2>1, <2>2, <3>2, QuietIsNat DEF SilentSince
      <3> QED
        BY <2>3, <3>1, <3>3 DEF SilentSince, QuietEnough
    <2>7. LoweredForAReason' /\ LostTakesSilence'
      BY <1>0, <2>1, <2>3, <2>4, QuietIsNat DEF LoweredForAReason, LostTakesSilence, QuietEnough
    <2> QED
      BY <1>0, <2>1, <2>3, <2>4, <2>5, <2>6, <2>7 DEF ClaimInv, QuietEnough
  <1>8. CASE Begin \/ ClaimsDone \/ ReceivedAll \/ CollectLate \/ CollectOther \/ Collected
              \/ NotDue \/ Decide \/ Arrive \/ Finished \/ UNCHANGED vars
    <2>1. UNCHANGED <<watch, waiting, silence, told, mach>>
      BY Zenon, <1>8 DEF Begin, ClaimsDone, ReceivedAll, CollectLate, CollectOther, Collected, NotDue,
                  Decide, Arrive, Finished, vars, node, uplink
    <2> QED
      BY <1>0, <2>1, ClaimLeftAlone
  <1> QED
    BY <1>1, <1>2, <1>3, <1>4, <1>5, <1>6, <1>7, <1>8 DEF Next, Round

\* Whatever order claims, answers, late answers and refusals come in: the claim
\* is the configured one unless the supervision's last word or the gateway check
\* holds it down, and the check does so only after a gateway that did answer was
\* silent for all but one of the intervals it counts, also where a question
\* could not be sent (router.rs demote, restore, gateway.rs missed).
THEOREM ClaimLoweredRightly == Spec => []LoweredRightly
  <1>1. Init => ClaimInv
    <2> SUFFICES ASSUME Init
                 PROVE  ClaimInv
      OBVIOUS
    <2>1. MachineOK(mach) /\ mach.priority = Configured
      BY SMTT(30) DEF Init, NewMachine, MachineOK
    <2>2. WatchOK(watch) /\ ~watch.answered /\ ~watch.lowered
      BY QuietIsNat DEF Init, NewWatch, WatchOK
    <2>3. waiting = FALSE /\ silence = 0 /\ silence <= QuietEnough
      BY QuietIsNat DEF Init
    <2> QED
      BY ZenonT(40), <2>1, <2>2, <2>3 DEF ClaimInv, LoweredForAReason, LostTakesSilence, SilentSince
  <1>2. ClaimInv => LoweredRightly
    BY DEF ClaimInv, LoweredRightly
  <1>3. ClaimInv /\ [Next]_vars => ClaimInv'
    BY ClaimStep
  <1> QED
    BY <1>1, <1>2, <1>3, PTL DEF Spec
==============================================================================
