--------------------------- MODULE AcmeOrderProofs ---------------------------
(***************************************************************************)
(* The answers to challenges and the waits of orders that failed, and the  *)
(* theorems about them and about the record, for any number of nodes,      *)
(* certificates, orders, attempts and mishaps.                             *)
(***************************************************************************)
EXTENDS AcmeOrderSteps

(***************************************************************************)
(* What a drive has up, and what a node owes.                              *)
(***************************************************************************)

\* The challenge that is handed over next is among the answers.
FlowSays(f) == f.stage = "accept" => f.challenge \in f.published

\* What the drive says is up is what its flow wants up, whether that is being
\* recorded, published or asked about, and it is published before it is asked.
Says(d) == /\ FlowSays(d.flow)
           /\ d.pc \in {"ask", "file", "publish"} => d.live.up = d.flow.published
           /\ d.pc = "ask" => d.live.up \subseteq d.up

\* The record holds it once it was written, unless another node has written
\* there since.
Holds(d, a) == kind = "http-01" /\ ~d.stale /\ d.pc \in {"ask", "publish"}
                  => d.live.up \subseteq a.orders[d.cert].answers

\* What a step may make of a drive that is on an order: it goes on with it, or
\* leaves it and counts it failed or not.
Keeps(d, e) == /\ e.ready = d.ready
               /\ \/ /\ e.pc \notin {"idle", "next"}
                     /\ e.cert = d.cert /\ e.failed = d.failed
                  \/ /\ e.pc = "next" /\ e.attempt = 0
                     /\ \/ e.failed = d.failed \cup {d.cert}
                        \/ e.failed = d.failed \ {d.cert}

\* The end of an attempt takes everything down.
Ends(d, e) == /\ Keeps(d, e) /\ Says(e)
              /\ e.pc \in {"ask", "publish"} => e.live.up = {}

\* What waits of the orders that failed on a node, written or still in the sweep.
Owes(n) == /\ owed[n] \subseteq waits[n] \cup drive[n].failed
           /\ drive[n].ready \cap waits[n] = {}
           /\ drive[n].pc \in {"idle", "next"} => drive[n].attempt = 0
           /\ drive[n].pc = "idle" => drive[n].failed = {}
           /\ drive[n].pc \notin {"idle", "next"} => /\ drive[n].cert \in drive[n].ready
                                                     /\ drive[n].cert \notin drive[n].failed

AnswerInv == \A n \in Nodes : Says(drive[n]) /\ Holds(drive[n], agreed)
OweInv == /\ owed = [n \in Nodes |-> owed[n]] /\ waits = [n \in Nodes |-> waits[n]]
          /\ \A n \in Nodes : n \notin stopped => Owes(n)

(***************************************************************************)
(* The flow.                                                               *)
(***************************************************************************)

\* A flow that begins, resumes or is given up hands nothing over.
LEMMA QuietFlows ==
  /\ FlowSays(Fresh)
  /\ \A u : FlowSays(Resumed(u))
  /\ \A f : FlowOK(f) => FlowSays(Abandoned(f)) /\ Abandoned(f).published = {}
  <1>1. FlowSays(Fresh)
    BY DEF FlowSays, Fresh
  <1>2. ASSUME NEW u PROVE FlowSays(Resumed(u))
    <2>1. Resumed(u).stage = "account"
      BY Zenon DEF Resumed, Fresh
    <2> QED
      BY <2>1 DEF FlowSays
  <1>3. ASSUME NEW f, FlowOK(f)
        PROVE  FlowSays(Abandoned(f)) /\ Abandoned(f).published = {}
    <2>1. Abandoned(f).stage = "done" /\ Abandoned(f).published = {}
      BY Zenon, <1>3 DEF Abandoned, FlowOK, FlowFields
    <2> QED
      BY <2>1 DEF FlowSays
  <1> QED
    BY <1>1, <1>2, <1>3

\* So does one that goes on to an authorization or to the order.
LEMMA OnwardSays ==
  ASSUME NEW f, FlowOK(f)
  PROVE  FlowSays(Onward(f))
  <1>1. Onward(f).stage \in {"poll", "authorization"}
    BY DEF Onward, FlowOK, FlowFields
  <1> QED
    BY <1>1 DEF FlowSays

\* A stage that is not the challenge's hands nothing over.
LEMMA StageSays ==
  ASSUME NEW f, FlowOK(f), NEW v, v # "accept"
  PROVE  FlowSays([f EXCEPT !.stage = v])
  BY DEF FlowSays, FlowOK, FlowFields

\* Reading how the order is getting on hands nothing over.
LEMMA ProgressSays ==
  ASSUME NEW f, Named(f), NEW a, f.stage # "accept"
  PROVE  FlowSays(ReadProgress(f, a).flow)
  <1> DEFINE more == f.polls + 1
             p == [f EXCEPT !.polls = more]
             q == [f EXCEPT !.polls = more, !.stage = "poll"]
             r == [f EXCEPT !.stage = "download"]
             t == [f EXCEPT !.stage = "finalize"]
  <1>1. \/ ReadProgress(f, a) = Moved(r)
        \/ ReadProgress(f, a) = Moved(t)
        \/ ReadProgress(f, a) = Ended(f, "challenge")
        \/ ReadProgress(f, a) = Ended(p, "network")
        \/ ReadProgress(f, a) = Moved(q)
    BY DEF ReadProgress
  <1>2. p.stage = f.stage /\ q.stage = "poll" /\ r.stage = "download" /\ t.stage = "finalize"
    <2> HIDE DEF more
    <2> QED
      BY Zenon DEF Named, FlowOK, FlowFields
  <1> HIDE DEF p, q, r, t
  <1> QED
    BY <1>1, <1>2, Outcomes DEF FlowSays

\* Neither does reading an order that is taken over.
LEMMA ResumedSays ==
  ASSUME NEW f, Named(f), NEW a, f.stage # "accept"
  PROVE  FlowSays(ReadResumed(f, a).flow)
  <1> DEFINE w == a.waiting
             g == [f EXCEPT !.waiting = w]
             h == [g EXCEPT !.stage = "download"]
             t == [g EXCEPT !.stage = "finalize"]
             p == [g EXCEPT !.stage = "poll"]
             o == Onward(g)
  <1>1. \/ ReadResumed(f, a) = Moved(h)
        \/ ReadResumed(f, a) = Moved(t)
        \/ ReadResumed(f, a) = Moved(o)
        \/ ReadResumed(f, a) = Moved(p)
        \/ ReadResumed(f, a) = Ended(g, "challenge")
    BY DEF ReadResumed
  <1>2. FlowOK(g)
    BY NamedWaiting DEF Named
  <1>3. g.stage = f.stage
    BY DEF Named, FlowOK, FlowFields
  <1> HIDE DEF g
  <1>4. FlowSays(h) /\ FlowSays(t) /\ FlowSays(p) /\ FlowSays(o) /\ FlowSays(g)
    BY <1>2, <1>3, StageSays, OnwardSays DEF FlowSays
  <1> HIDE DEF h, t, p, o
  <1> QED
    BY <1>1, <1>4, Outcomes

\* An authorization that wants an answer publishes it and hands it over.
LEMMA AuthorizationSays ==
  ASSUME NEW f, Named(f), NEW a
  PROVE  FlowSays(ReadAuthorization(f, a).flow)
  <1> DEFINE w == Tail(f.waiting)
             g == [f EXCEPT !.waiting = w]
             token == <<f.order, Head(f.waiting)>>
             u == g.published \cup {token}
             h == [g EXCEPT !.stage = "accept", !.challenge = token, !.published = u]
             o == Onward(g)
  <1>1. \/ ReadAuthorization(f, a) = Moved(o)
        \/ ReadAuthorization(f, a) = Moved(h)
    BY DEF ReadAuthorization
  <1>2. FlowOK(g)
    BY Zenon, NamedWaiting DEF Named
  <1>3. token \in u
    OBVIOUS
  <1> HIDE DEF g, token, u
  <1>4. h.challenge = token /\ h.published = u
    BY Zenon, <1>2 DEF FlowOK, FlowFields
  <1>5. FlowSays(h) /\ FlowSays(o)
    BY <1>2, <1>3, <1>4, OnwardSays DEF FlowSays
  <1> HIDE DEF h, o
  <1> QED
    BY <1>1, <1>5, Outcomes

\* An answer leaves a flow that hands over what it has published.
LEMMA AcceptSays ==
  ASSUME NEW f, FlowOK(f), FlowSays(f), NEW a, f.stage = "order" => a.order \in Nat
  PROVE  FlowSays(Accept(f, a).flow)
  <1>1. CASE f.stage = "account"
    <2> DEFINE v == IF f.resuming THEN "resume" ELSE "order"
               g == [f EXCEPT !.stage = v]
    <2>1. Accept(f, a) = Moved(g) /\ v # "accept"
      BY <1>1 DEF Accept, ReadAccount
    <2> HIDE DEF v
    <2>2. FlowSays(g)
      BY <2>1, StageSays
    <2> HIDE DEF g
    <2> QED
      BY <2>1, <2>2, Outcomes
  <1>2. CASE f.stage = "order"
    <2> DEFINE g == [f EXCEPT !.order = a.order, !.waiting = a.waiting]
               o == Onward(g)
    <2>1. FlowOK(g)
      BY Zenon, <1>2, AcmeOrderAssumption DEF FlowOK, FlowFields, Url
    <2>2. Accept(f, a) = Moved(o)
      BY <1>2 DEF Accept, ReadOrder
    <2> HIDE DEF g
    <2>3. FlowSays(o)
      BY <2>1, OnwardSays
    <2> HIDE DEF o
    <2> QED
      BY <2>2, <2>3, Outcomes
  <1>3. CASE f.stage \notin {"account", "order", "done"}
    <2>1. Named(f)
      BY <1>3 DEF Named, FlowOK
    <2> DEFINE g == [f EXCEPT !.challenge = None]
               h == [f EXCEPT !.polls = 0]
               o == Onward(g)
    <2>2. CASE f.stage = "resume"
      BY <2>1, <2>2, ResumedSays DEF Accept
    <2>3. CASE f.stage = "authorization"
      BY <2>1, <2>3, AuthorizationSays DEF Accept
    <2>4. CASE f.stage = "accept"
      <3>1. Accept(f, a) = Moved(o)
        BY <2>4 DEF Accept
      <3>2. FlowOK(g)
        BY <2>1, NamedChallenge DEF Named
      <3> HIDE DEF g
      <3>3. FlowSays(o)
        BY <3>2, OnwardSays
      <3> HIDE DEF o
      <3> QED
        BY <3>1, <3>3, Outcomes
    <2>5. CASE f.stage = "poll"
      BY <2>1, <2>5, ProgressSays DEF Accept
    <2>6. CASE f.stage = "finalize"
      <3>1. Accept(f, a) = ReadProgress(h, a)
        BY <2>6 DEF Accept
      <3>2. Named(h) /\ h.stage = f.stage
        BY <2>1, NamedPolls DEF Named, FlowOK, FlowFields
      <3> HIDE DEF h
      <3> QED
        BY <2>6, <3>1, <3>2, ProgressSays
    <2>7. CASE f.stage \notin {"resume", "authorization", "accept", "poll", "finalize"}
      <3> DEFINE c == a.chain
                 e == [f EXCEPT !.chain = c, !.published = {}, !.stage = "done"]
      <3>1. Accept(f, a) = Moved(e)
        BY Zenon, <1>3, <2>7 DEF Accept
      <3>2. e.stage = "done"
        BY Zenon DEF FlowOK, FlowFields
      <3> HIDE DEF e
      <3> QED
        BY <3>1, <3>2, Outcomes DEF FlowSays
    <2> QED
      BY <2>2, <2>3, <2>4, <2>5, <2>6, <2>7
  <1>4. CASE f.stage = "done"
    <2> DEFINE c == a.chain
               e == [f EXCEPT !.chain = c, !.published = {}, !.stage = "done"]
    <2>1. Accept(f, a) = Moved(e)
      BY <1>4 DEF Accept
    <2>2. e.stage = "done"
      BY Zenon DEF FlowOK, FlowFields
    <2> HIDE DEF e
    <2> QED
      BY <2>1, <2>2, Outcomes DEF FlowSays
  <1> QED
    BY <1>1, <1>2, <1>3, <1>4


(***************************************************************************)
(* The drive.                                                              *)
(***************************************************************************)

\* What a step goes on with is what it began with, or nothing is up any more.
Carries(d, e) == /\ Keeps(d, e) /\ Says(e)
                 /\ e.live.up = d.live.up /\ e.stale = d.stale /\ e.cert = d.cert

\* Only the certificate and the lists of the sweep matter.
LEMMA EndsSame ==
  ASSUME NEW d, NEW g, NEW e, Ends(g, e),
         g.ready = d.ready, g.failed = d.failed, g.cert = d.cert
  PROVE  Ends(d, e)
  BY Zenon DEF Ends, Keeps

\* A failure and a success leave the order.
LEMMA LeftEnds ==
  ASSUME NEW d
  PROVE  Ends(d, Fails(d)) /\ Ends(d, Succeeds(d))
  <1> DEFINE e == Fails(d)
             f == d.failed \cup {d.cert}
             h == d.failed \ {d.cert}
             g == Succeeds(d)
             Blank(b) == /\ b = [x \in DriveFields |-> b[x]] /\ b.pc = "next" /\ b.attempt = 0
                         /\ b.flow = Fresh /\ b.ready = d.ready
  <1>1. Blank(e) /\ e.failed = f
    BY ZenonT(60) DEF Fails, Idle, DriveFields
  <1>2. g = [e EXCEPT !.failed = h]
    BY DEF Succeeds
  <1> HIDE DEF e, f, h
  <1>3. Blank(g) /\ g.failed = h
    BY <1>1, <1>2 DEF DriveFields
  <1> HIDE DEF g
  <1>4. Ends(d, e) /\ Ends(d, g)
    BY Zenon, <1>1, <1>3, QuietFlows DEF Ends, Keeps, Says, f, h
  <1> QED
    BY <1>4 DEF e, g

\* A drive that goes on to a place where nothing is up.
LEMMA PlaceEnds ==
  ASSUME NEW d, DriveOK(d), FlowSays(d.flow), NEW p,
         p \notin {"idle", "next", "ask", "file", "publish"}
  PROVE  Ends(d, [d EXCEPT !.pc = p])
  <1> DEFINE e == [d EXCEPT !.pc = p]
  <1>1. /\ e.pc = p /\ e.ready = d.ready /\ e.failed = d.failed /\ e.cert = d.cert
        /\ e.flow = d.flow
    BY DEF DriveOK, DriveFields
  <1> HIDE DEF e
  <1>2. Ends(d, e)
    BY <1>1 DEF Ends, Keeps, Says
  <1> QED
    BY <1>2 DEF e

\* An attempt begins with nothing up.
LEMMA AttemptEnds ==
  ASSUME NEW d, DriveOK(d), NEW number
  PROVE  Ends(d, Attempt(d, number))
  <1> DEFINE f == IF number = 1 /\ d.url # None THEN Resumed(d.url) ELSE Fresh
             l == Reached(f)
             e == Attempt(d, number)
  <1>1. f.published = {} /\ FlowSays(f)
    BY FreshOK, ResumedOK, QuietFlows DEF DriveOK, Url
  <1>2. e = [d EXCEPT !.pc = "ask", !.attempt = number, !.flow = f,
                      !.live = l, !.rejected = 0, !.closing = None]
    BY DEF Attempt
  <1> HIDE DEF f, e
  <1>3. l.up = {}
    BY <1>1 DEF Reached
  <1> HIDE DEF l
  <1>4. /\ e.pc = "ask" /\ e.flow = f /\ e.live = l /\ e.cert = d.cert
        /\ e.ready = d.ready /\ e.failed = d.failed
    BY Zenon, <1>2 DEF DriveOK, DriveFields
  <1>5. Ends(d, e)
    BY <1>1, <1>3, <1>4 DEF Ends, Keeps, Says
  <1> QED
    BY <1>5 DEF e

\* Whatever follows an attempt (acme.rs obtain_planned_over).
LEMMA AttemptOverEnds ==
  ASSUME NEW d, DriveOK(d), FlowSays(d.flow), NEW outcome
  PROVE  Ends(d, AttemptOver(d, outcome))
  <1> DEFINE n == d.attempt + 1
  <1>1. \/ AttemptOver(d, outcome) = [d EXCEPT !.pc = "store"]
        \/ AttemptOver(d, outcome) = Fails(d)
        \/ AttemptOver(d, outcome) = Attempt(d, n)
        \/ AttemptOver(d, outcome) = [d EXCEPT !.pc = "close"]
    BY DEF AttemptOver, Inspect
  <1> HIDE DEF n
  <1> QED
    BY <1>1, LeftEnds, AttemptEnds, PlaceEnds

\* Whatever follows a drive, its answers taken down first (acme.rs run).
LEMMA DriveOverEnds ==
  ASSUME NEW d, DriveOK(d), NEW outcome
  PROVE  Ends(d, DriveOver(d, outcome))
  <1> DEFINE f == Abandoned(d.flow)
             done == [d EXCEPT !.flow = f]
             g == [done EXCEPT !.pc = "file", !.live.up = {}, !.closing = outcome]
  <1>1. FlowOK(f) /\ f.order = d.flow.order
    BY AbandonedOK DEF DriveOK
  <1>2. FlowSays(f) /\ f.published = {}
    BY QuietFlows DEF DriveOK
  <1>3. DriveOver(d, outcome) = IF d.live.up = {} THEN AttemptOver(done, outcome) ELSE g
    BY DEF DriveOver
  <1> HIDE DEF f
  <1>4. /\ DriveOK(done) /\ done.cert = d.cert /\ done.ready = d.ready
        /\ done.failed = d.failed /\ done.flow = f
    BY <1>1 DEF DriveOK, DriveFields
  <1> HIDE DEF done
  <1>5. /\ g.pc = "file" /\ g.flow = f /\ g.live.up = {} /\ g.cert = d.cert
        /\ g.ready = d.ready /\ g.failed = d.failed
    BY Zenon, <1>4 DEF DriveOK, DriveFields
  <1> HIDE DEF g
  <1>6. Ends(d, g)
    BY <1>2, <1>5 DEF Ends, Keeps, Says
  <1>7. Ends(done, AttemptOver(done, outcome))
    BY <1>2, <1>4, AttemptOverEnds
  <1>8. Ends(d, AttemptOver(done, outcome))
    BY <1>4, <1>7, EndsSame
  <1> QED
    BY <1>3, <1>6, <1>8

\* Whatever follows a record that could not be written.
LEMMA RecordFailedEnds ==
  ASSUME NEW d, DriveOK(d), FlowSays(d.flow), NEW why
  PROVE  Ends(d, RecordFailed(d, why))
  BY AttemptOverEnds, DriveOverEnds DEF RecordFailed

\* What was recorded is up when the next question is asked.
LEMMA RecordDoneCarries ==
  ASSUME NEW d, DriveOK(d), Says(d), d.pc \in {"file", "publish"}, d.live.up \subseteq d.up
  PROVE  Ends(d, RecordDone(d)) \/ Carries(d, RecordDone(d))
  <1> DEFINE e == [d EXCEPT !.pc = "ask"]
  <1>1. RecordDone(d) = e \/ RecordDone(d) = AttemptOver(d, d.closing)
    BY DEF RecordDone
  <1>2. /\ e.pc = "ask" /\ e.ready = d.ready /\ e.failed = d.failed /\ e.cert = d.cert
        /\ e.flow = d.flow /\ e.live = d.live /\ e.up = d.up /\ e.stale = d.stale
    BY DEF DriveOK, DriveFields
  <1> HIDE DEF e
  <1>3. Carries(d, e)
    BY <1>2 DEF Carries, Keeps, Says
  <1>4. FlowSays(d.flow)
    BY DEF Says
  <1> QED
    BY <1>1, <1>3, <1>4, AttemptOverEnds

\* What was recorded is published, unless there is nothing to publish.
LEMMA PublishCarries ==
  ASSUME NEW d, DriveOK(d), Says(d), d.pc = "file"
  PROVE  Ends(d, Publish(d)) \/ Carries(d, Publish(d))
  <1> DEFINE e == [d EXCEPT !.pc = "publish"]
  <1>1. CASE d.live.up = {} /\ d.up = {}
    BY <1>1, RecordDoneCarries DEF Publish
  <1>2. CASE ~(d.live.up = {} /\ d.up = {})
    <2>1. Publish(d) = e
      BY <1>2 DEF Publish
    <2>2. /\ e.pc = "publish" /\ e.ready = d.ready /\ e.failed = d.failed /\ e.cert = d.cert
          /\ e.flow = d.flow /\ e.live = d.live /\ e.stale = d.stale
      BY DEF DriveOK, DriveFields
    <2> HIDE DEF e
    <2> QED
      BY <2>1, <2>2 DEF Carries, Keeps, Says
  <1> QED
    BY <1>1, <1>2

\* What is new is recorded before the next question, what is not has been.
LEMMA ReadCarries ==
  ASSUME NEW d, DriveOK(d), Says(d), d.pc = "ask", NEW r, FlowOK(r.flow), FlowSays(r.flow),
         d.flow.order # None => r.flow.order # None
  PROVE  Ends(d, Read(d, r)) \/ Carries(d, Read(d, r))
  <1> DEFINE f == r.flow
             e == [d EXCEPT !.flow = f, !.rejected = 0]
             l == Reached(f)
             b == [e EXCEPT !.pc = "file", !.live = l]
             g == [e EXCEPT !.pc = "ask"]
  <1>1. Read(d, r) \in {DriveOver(e, r.failed), DriveOver(e, "chain"), BeforeAsk(e)}
    BY DEF Read
  <1>2. FlowOK(f) /\ FlowSays(f) /\ (d.flow.order # None => f.order # None)
    OBVIOUS
  <1>3. l.up = f.published
    BY DEF Reached
  <1> HIDE DEF f
  <1>4. /\ DriveOK(e) /\ e.cert = d.cert /\ e.ready = d.ready /\ e.failed = d.failed
        /\ e.flow = f /\ e.live = d.live /\ e.up = d.up /\ e.stale = d.stale
    BY Zenon, <1>2 DEF DriveOK, DriveFields
  <1>5. BeforeAsk(e) = IF l # d.live THEN b ELSE g
    BY <1>4 DEF BeforeAsk
  <1> HIDE DEF e, l
  <1>6. /\ b.pc = "file" /\ b.flow = f /\ b.live = l /\ b.cert = d.cert
        /\ b.ready = d.ready /\ b.failed = d.failed
    BY Zenon, <1>4 DEF DriveOK, DriveFields
  <1>7. /\ g.pc = "ask" /\ g.flow = f /\ g.live = d.live /\ g.cert = d.cert /\ g.up = d.up
        /\ g.stale = d.stale /\ g.ready = d.ready /\ g.failed = d.failed
    BY Zenon, <1>4 DEF DriveOK, DriveFields
  <1> HIDE DEF b, g
  <1>8. Ends(d, b)
    BY <1>2, <1>3, <1>6 DEF Ends, Keeps, Says
  <1>9. l = d.live => Carries(d, g)
    BY <1>2, <1>3, <1>7 DEF Carries, Keeps, Says
  <1>10. \A o : Ends(d, DriveOver(e, o))
    BY <1>4, DriveOverEnds, EndsSame
  <1> QED
    BY <1>1, <1>5, <1>8, <1>9, <1>10

(***************************************************************************)
(* The steps.                                                              *)
(***************************************************************************)

Kept == AnswerInv /\ OweInv

\* What a node owes once its drive has gone on.
LEMMA OwesOn ==
  ASSUME OweInv, NEW n \in Nodes, NEW e, Keeps(drive[n], e), Owe(n, e), e = drive'[n],
         drive[n].pc \notin {"idle", "next"}, waits' = waits, n \notin stopped
  PROVE  Owes(n)'
  <1> DEFINE d == drive[n]
             F == [owed EXCEPT ![n] = @ \cup {d.cert}]
  <1>1. Owes(n) /\ owed = [m \in Nodes |-> owed[m]]
    BY DEF OweInv
  <1>2. F[n] = owed[n] \cup {d.cert}
    BY <1>1
  <1>3. owed' = IF e.pc = "next" /\ d.cert \in e.failed THEN F ELSE owed
    BY DEF Owe
  <1> HIDE DEF F
  <1>4. owed'[n] \subseteq waits[n] \cup e.failed
    BY <1>1, <1>2, <1>3 DEF Owes, Keeps
  <1>5. e.ready \cap waits[n] = {}
    BY <1>1 DEF Owes, Keeps
  <1>6. /\ e.pc \in {"idle", "next"} => e.attempt = 0
        /\ e.pc # "idle"
        /\ e.pc \notin {"idle", "next"} => e.cert \in e.ready /\ e.cert \notin e.failed
    BY <1>1 DEF Owes, Keeps
  <1> QED
    BY <1>4, <1>5, <1>6 DEF Owes

\* The other nodes owe what they owed.
LEMMA OthersOwe ==
  ASSUME OweInv, NEW n \in Nodes, NEW e, Owe(n, e), waits' = waits,
         NEW m \in Nodes \ {n}, m \notin stopped,
         \A x \in DriveFields \ {"stale"} : drive'[m][x] = drive[m][x]
  PROVE  Owes(m)'
  <1> DEFINE F == [owed EXCEPT ![n] = @ \cup {drive[n].cert}]
  <1>1. Owes(m) /\ owed = [k \in Nodes |-> owed[k]]
    BY DEF OweInv
  <1>2. F[m] = owed[m]
    BY <1>1
  <1>3. owed' = F \/ owed' = owed
    BY DEF Owe
  <1>4. owed'[m] = owed[m]
    BY Zenon, <1>2, <1>3
  <1>5. /\ drive'[m].failed = drive[m].failed /\ drive'[m].ready = drive[m].ready
        /\ drive'[m].pc = drive[m].pc /\ drive'[m].attempt = drive[m].attempt
        /\ drive'[m].cert = drive[m].cert
    BY DEF DriveFields
  <1> QED
    BY <1>1, <1>4, <1>5 DEF Owes

\* What is owed is a table of the nodes.
LEMMA OwedIs ==
  ASSUME OweInv, NEW n, NEW e, Owe(n, e)
  PROVE  owed' = [m \in Nodes |-> owed'[m]]
  BY Zenon DEF OweInv, Owe

\* A drive that goes on and writes nothing.
LEMMA TurnHere ==
  ASSUME LifeInv, Kept, NEW n \in Nodes, drive[n].pc \notin {"idle", "next"},
         NEW e, Keeps(drive[n], e), Says(e), Holds(e, agreed), Proceeds(n, e),
         UNCHANGED <<agreed, kind, waits, stopped>>
  PROVE  Kept'
  <1>1. drive'[n] = e /\ \A m \in Nodes \ {n} : drive'[m] = drive[m]
    BY DEF LifeInv, Proceeds, Becomes
  <1>2. ASSUME NEW m \in Nodes
        PROVE  Says(drive'[m]) /\ Holds(drive'[m], agreed)
    BY <1>1 DEF Kept, AnswerInv
  <1>3. AnswerInv'
    BY <1>2 DEF AnswerInv, Holds
  <1>4. ASSUME NEW m \in Nodes, m \notin stopped
        PROVE  Owes(m)'
    <2>1. CASE m = n
      BY Zenon, <1>1, <1>4, <2>1, OwesOn DEF Kept, Proceeds
    <2>2. CASE m # n
      BY Zenon, <1>1, <1>4, <2>2, OthersOwe DEF Kept, Proceeds
    <2> QED
      BY <2>1, <2>2
  <1>5. owed' = [m \in Nodes |-> owed'[m]]
    BY OwedIs DEF Kept, Proceeds
  <1>6. OweInv'
    BY <1>4, <1>5 DEF OweInv, Kept
  <1> QED
    BY <1>3, <1>6 DEF Kept

\* A drive whose write lands: the others have not seen it.
LEMMA TurnLands ==
  ASSUME LifeInv, Kept, NEW n \in Nodes, drive[n].pc \notin {"idle", "next"},
         NEW next, Others(drive[n].cert, agreed, next),
         NEW e, Keeps(drive[n], e), Says(e), Holds(e, next), Owe(n, e),
         agreed' = next, drive' = Seen(n, e), UNCHANGED <<kind, waits, stopped>>
  PROVE  Kept'
  <1> DEFINE c == drive[n].cert
  <1>1. drive'[n] = e
    BY DEF Seen
  <1>2. ASSUME NEW m \in Nodes \ {n}
        PROVE  /\ \A x \in DriveFields \ {"stale"} : drive'[m][x] = drive[m][x]
               /\ Says(drive'[m]) /\ Holds(drive'[m], next)
    <2> DEFINE d == drive[m]
               late == d.stale \/ d.cert = c
               g == [d EXCEPT !.stale = late]
    <2>1. drive'[m] = g /\ DriveOK(d)
      BY DEF Seen, LifeInv
    <2>2. Says(d) /\ Holds(d, agreed) /\ Others(c, agreed, next)
      BY DEF Kept, AnswerInv
    <2> HIDE DEF c, d, late
    <2>3. g.stale = late /\ \A x \in DriveFields \ {"stale"} : g[x] = d[x]
      BY Zenon, <2>1 DEF DriveOK, DriveFields
    <2> HIDE DEF g
    <2>4. /\ g.pc = d.pc /\ g.flow = d.flow /\ g.live = d.live /\ g.up = d.up
          /\ g.cert = d.cert
      BY <2>3 DEF DriveFields
    <2>5. Says(g)
      BY <2>2, <2>4 DEF Says
    <2>6. d.pc \notin {"idle", "next"} => d.cert \in Certs
      BY <2>1 DEF DriveOK
    <2>7. Holds(g, next)
      BY ZenonT(40), <2>2, <2>3, <2>4, <2>6 DEF Holds, Others, late
    <2> QED
      BY <2>1, <2>3, <2>5, <2>7 DEF d
  <1>3. ASSUME NEW m \in Nodes
        PROVE  Says(drive'[m]) /\ Holds(drive'[m], next)
    BY <1>1, <1>2
  <1>4. AnswerInv'
    BY <1>3 DEF AnswerInv, Holds
  <1>5. ASSUME NEW m \in Nodes, m \notin stopped
        PROVE  Owes(m)'
    <2>1. CASE m = n
      BY Zenon, <1>1, <1>5, <2>1, OwesOn DEF Kept
    <2>2. CASE m # n
      BY Zenon, <1>2, <1>5, <2>2, OthersOwe DEF Kept
    <2> QED
      BY <2>1, <2>2
  <1>6. owed' = [m \in Nodes |-> owed'[m]]
    BY OwedIs DEF Kept
  <1>7. OweInv'
    BY <1>5, <1>6 DEF OweInv, Kept
  <1> QED
    BY <1>4, <1>7 DEF Kept

\* Nothing is up where an order ends.
LEMMA EndsHolds ==
  ASSUME NEW d, NEW e, Ends(d, e), NEW a
  PROVE  Keeps(d, e) /\ Says(e) /\ Holds(e, a)
  BY DEF Ends, Holds

\* What is carried on is held where it was.
LEMMA CarriesHolds ==
  ASSUME NEW d, NEW e, Carries(d, e), NEW a,
         kind = "http-01" /\ ~d.stale => d.live.up \subseteq a.orders[d.cert].answers
  PROVE  Keeps(d, e) /\ Says(e) /\ Holds(e, a)
  BY Zenon DEF Carries, Holds

\* An update, whether it lands, is refused, or lands and is reported refused.
LEMMA UpdateTurns ==
  ASSUME LifeInv, Kept, NEW n \in Nodes, drive[n].pc \notin {"idle", "next"},
         NEW next, Others(drive[n].cert, agreed, next),
         NEW ok, Keeps(drive[n], ok), Says(ok), Holds(ok, next),
         NEW no, Ends(drive[n], no),
         Update(n, next, ok, no), UNCHANGED <<kind, waits, stopped>>
  PROVE  Kept'
  <1>1. \/ agreed' = next /\ drive' = Seen(n, ok) /\ Owe(n, ok)
        \/ agreed' = next /\ drive' = Seen(n, no) /\ Owe(n, no)
        \/ Proceeds(n, no) /\ agreed' = agreed
    BY Zenon DEF Update, Land
  <1>2. Keeps(drive[n], no) /\ Says(no) /\ Holds(no, next) /\ Holds(no, agreed)
    BY EndsHolds
  <1>3. CASE agreed' = next /\ drive' = Seen(n, ok) /\ Owe(n, ok)
    BY <1>3, TurnLands
  <1>4. CASE agreed' = next /\ drive' = Seen(n, no) /\ Owe(n, no)
    BY SMTT(30), <1>2, <1>4, TurnLands
  <1>5. CASE Proceeds(n, no) /\ agreed' = agreed
    BY <1>2, <1>5, TurnHere
  <1> QED
    BY <1>1, <1>3, <1>4, <1>5

\* A drive that is on an order.
LEMMA OnAnOrder ==
  ASSUME LifeInv, Kept, NEW n \in Nodes
  PROVE  /\ DriveOK(drive[n]) /\ Says(drive[n]) /\ Holds(drive[n], agreed)
         /\ FlowSays(drive[n].flow)
         /\ drive[n].pc \notin {"idle", "next"} => drive[n].cert \in Certs
         /\ StateOK(agreed)
  BY Zenon, DriveIs DEF Kept, AnswerInv, Says, LifeInv

\* Up to the first question nothing is up.
LEMMA OpeningKept ==
  ASSUME LifeInv, Kept, NEW n \in Nodes,
         MakeAccountKey(n) \/ FindOrder(n) \/ TakeOver(n) \/ OpenOrder(n)
  PROVE  Kept'
  <1> DEFINE d == drive[n]
             c == d.cert
  <1>0. DriveOK(d) /\ FlowSays(d.flow) /\ StateOK(agreed)
    BY Zenon, OnAnOrder
  <1>1. d.pc \notin {"idle", "next"} /\ UNCHANGED <<kind, waits, stopped>>
    BY Zenon DEF MakeAccountKey, FindOrder, TakeOver, OpenOrder, At, outside
  <1>2. c \in Certs
    BY Zenon, <1>1, OnAnOrder
  <1>3. Ends(d, Fails(d))
    BY Zenon, LeftEnds
  <1>4. CASE MakeAccountKey(n)
    <2> DEFINE next == [agreed EXCEPT !.account = n, !.config = d.config]
               e == [d EXCEPT !.pc = "open", !.account = n]
    <2>1. Update(n, next, e, Fails(d))
      BY <1>4 DEF MakeAccountKey
    <2>2. Same(agreed, next)
      <3>1. d.config \in SUBSET Certs
        BY Zenon, <1>0 DEF DriveOK
      <3> HIDE DEF d
      <3> QED
        BY Zenon, <1>0, <3>1, ConfigOK
    <2> HIDE DEF next
    <2>3. Others(c, agreed, next)
      BY Zenon, <2>2 DEF Same, Others
    <2>4. Ends(d, e)
      <3> HIDE DEF d
      <3>1. /\ e.pc = "open" /\ e.ready = d.ready /\ e.failed = d.failed /\ e.cert = d.cert
            /\ e.flow = d.flow
        BY Zenon, <1>0 DEF DriveOK, DriveFields
      <3> HIDE DEF e
      <3> QED
        BY <1>0, <3>1 DEF Ends, Keeps, Says
    <2> HIDE DEF e
    <2>5. Keeps(d, e) /\ Says(e) /\ Holds(e, next)
      BY Zenon, <2>4, EndsHolds
    <2> QED
      BY Zenon, <1>1, <1>3, <2>1, <2>3, <2>5, UpdateTurns
  <1>5. CASE FindOrder(n)
    <2> DEFINE u == agreed.orders[c].url
               e == [d EXCEPT !.pc = "open_new"]
               g == [d EXCEPT !.pc = "take_over", !.url = u]
    <2>1. Becomes(n, e) \/ Becomes(n, g)
      BY <1>5 DEF FindOrder
    <2>2. UNCHANGED <<agreed, owed>>
      BY <1>5 DEF FindOrder
    <2>3. Ends(d, e)
      <3> HIDE DEF d
      <3> QED
        BY <1>0, PlaceEnds
    <2>4. e.pc = "open_new" /\ g.pc = "take_over" /\ Ends(d, g)
      <3> HIDE DEF d, u
      <3>1. e.pc = "open_new"
        BY <1>0 DEF DriveOK, DriveFields
      <3>2. /\ g.pc = "take_over" /\ g.ready = d.ready /\ g.failed = d.failed /\ g.cert = d.cert
            /\ g.flow = d.flow
        BY Zenon, <1>0 DEF DriveOK, DriveFields
      <3> HIDE DEF g, e
      <3> QED
        BY <1>0, <3>1, <3>2 DEF Ends, Keeps, Says
    <2> HIDE DEF e, g
    <2>5. Proceeds(n, e) \/ Proceeds(n, g)
      BY <2>1, <2>2, <2>4 DEF Proceeds, Owe
    <2>6. Keeps(d, e) /\ Says(e) /\ Holds(e, agreed) /\ Keeps(d, g) /\ Says(g) /\ Holds(g, agreed)
      BY Zenon, <2>3, <2>4, EndsHolds
    <2> QED
      BY Zenon, <1>1, <2>2, <2>5, <2>6, TurnHere
  <1>6. CASE TakeOver(n)
    <2> DEFINE k == agreed.keys[c]
               g == [d EXCEPT !.key = k]
    <2>1. Proceeds(n, Fails(d)) \/ Proceeds(n, Attempt(g, 1))
      BY <1>6 DEF TakeOver
    <2>2. agreed' = agreed
      BY <1>6 DEF TakeOver
    <2>3. DriveOK(g) /\ g.ready = d.ready /\ g.failed = d.failed /\ g.cert = d.cert
      <3> HIDE DEF d, k
      <3> QED
        BY <1>0, KeyOK DEF DriveOK, DriveFields
    <2> HIDE DEF g
    <2>4. Ends(d, Attempt(g, 1))
      <3> HIDE DEF d
      <3> QED
        BY <2>3, AttemptEnds, EndsSame
    <2> DEFINE e == Attempt(g, 1)
    <2> HIDE DEF e
    <2>5. Keeps(d, e) /\ Says(e) /\ Holds(e, agreed)
      BY Zenon, <2>4, EndsHolds DEF e
    <2>6. Keeps(d, Fails(d)) /\ Says(Fails(d)) /\ Holds(Fails(d), agreed)
      BY Zenon, <1>3, EndsHolds
    <2> QED
      BY Zenon, <1>1, <2>1, <2>2, <2>5, <2>6, TurnHere DEF e
  <1>7. CASE OpenOrder(n)
    <2> DEFINE k == NewKey
               g == [d EXCEPT !.key = k]
               next == Rewritten(agreed, c, k)
               e == Attempt(g, 1)
    <2>1. Update(n, next, e, Fails(d))
      BY <1>7 DEF OpenOrder, Rewritten
    <2>2. k \in Url
      BY <1>7, KeyIsDrawn DEF Url
    <2> HIDE DEF k
    <2>3. DriveOK(g) /\ g.ready = d.ready /\ g.failed = d.failed /\ g.cert = d.cert
      <3> HIDE DEF d
      <3> QED
        BY <1>0, KeyOK DEF DriveOK, DriveFields
    <2> HIDE DEF g
    <2>4. Ends(d, e)
      <3> HIDE DEF d
      <3> QED
        BY <2>3, AttemptEnds, EndsSame
    <2> HIDE DEF e
    <2>5. Others(c, agreed, next)
      <3> HIDE DEF c
      <3> QED
        BY <1>0, <1>2, <2>2, RewrittenOK
    <2> HIDE DEF next
    <2>6. Keeps(d, e) /\ Says(e) /\ Holds(e, next)
      BY Zenon, <2>4, EndsHolds
    <2> QED
      BY Zenon, <1>1, <1>3, <2>1, <2>5, <2>6, UpdateTurns
  <1> QED
    BY <1>4, <1>5, <1>6, <1>7

\* The record has what is up before it is published.
LEMMA RecordingKept ==
  ASSUME LifeInv, Kept, NEW n \in Nodes,
         \/ FileReached(n) \/ RecordWentAway(n) \/ Reachable(n) \/ NotReachable(n)
         \/ WriteRecords(n) \/ RecordsNotSeen(n) \/ ProviderFails(n)
  PROVE  Kept'
  <1> DEFINE d == drive[n]
             c == d.cert
             v == d.live.up
             e == [d EXCEPT !.up = v]
  <1>0. DriveOK(d) /\ Says(d) /\ Holds(d, agreed) /\ FlowSays(d.flow) /\ StateOK(agreed)
    BY Zenon, OnAnOrder
  <1>1. d.pc \in {"file", "publish"} /\ UNCHANGED <<kind, waits, stopped>>
    BY Zenon DEF FileReached, RecordWentAway, Reachable, NotReachable, WriteRecords,
                 RecordsNotSeen, ProviderFails, At, outside
  <1>2. d.pc \notin {"idle", "next"}
    BY <1>1
  <1>3. c \in Certs
    BY Zenon, <1>2, OnAnOrder
  <1>4. CASE FileReached(n)
    <2> DEFINE u == d.live.url
               w == IF kind = "http-01" THEN d.live.up ELSE {}
               next == Filed(agreed, c, u, w)
               no == RecordFailed(d, "no_quorum")
               ok == Publish(d)
    <2>1. Update(n, next, ok, no)
      BY <1>4 DEF FileReached, Filed
    <2>2. d.pc = "file" /\ agreed.keys[c] # None
      BY <1>4 DEF FileReached, At
    <2>3. u \in Nat
      BY Zenon, <1>0, <2>2 DEF DriveOK, Url
    <2>4. kind = "http-01" => w = d.live.up
      OBVIOUS
    <2>5. /\ Ends(d, no)
          /\ Ends(d, ok) \/ Carries(d, ok)
      <3> HIDE DEF d
      <3> QED
        BY <1>0, <2>2, PublishCarries, RecordFailedEnds
    <2> HIDE DEF u, w, ok, no
    <2>6. Others(c, agreed, next) /\ next.orders[c].answers = w
      <3> HIDE DEF c, d, next
      <3>1. StateOK(agreed) /\ agreed.keys[c] # None
        BY Zenon, <1>0, <2>2
      <3>2. Others(c, agreed, Filed(agreed, c, u, w)) /\ Filed(agreed, c, u, w).orders[c].answers = w
        BY <1>3, <2>3, <3>1, FiledOK
      <3> QED
        BY Zenon, <3>2 DEF next
    <2> HIDE DEF next
    <2>7. Keeps(d, ok) /\ Says(ok) /\ Holds(ok, next)
      <3>1. kind = "http-01" => d.live.up \subseteq next.orders[d.cert].answers
        BY <2>4, <2>6
      <3> HIDE DEF d
      <3> QED
        BY Zenon, <2>5, <3>1, EndsHolds, CarriesHolds
    <2> QED
      BY Zenon, <1>1, <1>2, <2>1, <2>5, <2>6, <2>7, UpdateTurns
  <1>5. CASE RecordWentAway(n)
    <2> DEFINE no == RecordFailed(d, "configuration")
    <2>1. Proceeds(n, no) /\ agreed' = agreed
      BY Zenon, <1>5 DEF RecordWentAway
    <2>2. Ends(d, no)
      <3> HIDE DEF d
      <3> QED
        BY <1>0, RecordFailedEnds
    <2> HIDE DEF no
    <2>3. Keeps(d, no) /\ Says(no) /\ Holds(no, agreed)
      BY Zenon, <2>2, EndsHolds
    <2> QED
      BY Zenon, <1>1, <1>2, <2>1, <2>3, TurnHere
  <1>6. CASE \/ Reachable(n) \/ NotReachable(n) \/ WriteRecords(n) \/ RecordsNotSeen(n)
             \/ ProviderFails(n)
    <2>1. PICK g : /\ Proceeds(n, g)
                   /\ \/ g = RecordDone(e)
                      \/ \E why : g = RecordFailed(e, why)
      BY Zenon, <1>6 DEF Reachable, NotReachable, WriteRecords, RecordsNotSeen, ProviderFails
    <2>2. d.pc = "publish" /\ agreed' = agreed
      BY Zenon, <1>6 DEF Reachable, NotReachable, WriteRecords, RecordsNotSeen, ProviderFails, At
    <2> HIDE DEF v
    <2>3. /\ DriveOK(e) /\ e.ready = d.ready /\ e.failed = d.failed /\ e.cert = d.cert
          /\ e.pc = d.pc /\ e.flow = d.flow /\ e.live = d.live /\ e.up = v /\ e.stale = d.stale
      <3> HIDE DEF d
      <3> QED
        BY <1>0, UpOK DEF DriveOK, DriveFields
    <2> HIDE DEF e
    <2>4. Says(e) /\ FlowSays(e.flow) /\ e.live.up \subseteq e.up
      BY SMTT(30), <1>0, <2>2, <2>3 DEF Says, v
    <2>5. Ends(e, g) \/ Carries(e, g)
      BY SMTT(30), <2>1, <2>2, <2>3, <2>4, RecordDoneCarries, RecordFailedEnds
    <2>6. kind = "http-01" /\ ~e.stale => e.live.up \subseteq agreed.orders[e.cert].answers
      BY <1>0, <2>2, <2>3 DEF Holds
    <2>7. Keeps(e, g) /\ Says(g) /\ Holds(g, agreed)
      BY Zenon, <2>5, <2>6, EndsHolds, CarriesHolds
    <2>8. Keeps(d, g)
      BY Zenon, <2>3, <2>7 DEF Keeps
    <2> QED
      BY Zenon, <1>1, <1>2, <2>1, <2>2, <2>7, <2>8, TurnHere
  <1> QED
    BY <1>4, <1>5, <1>6

\* Nothing is up once the order has come to something.
LEMMA EndingKept ==
  ASSUME LifeInv, Kept, NEW n \in Nodes,
         StoreCertificate(n) \/ CloseOrder(n) \/ NothingToClose(n)
  PROVE  Kept'
  <1> DEFINE d == drive[n]
             c == d.cert
             b == Rewritten(agreed, c, None)
             ok == Succeeds(d)
             no == Fails(d)
  <1>0. d.pc \notin {"idle", "next"} /\ UNCHANGED <<kind, waits, stopped>>
    BY Zenon DEF StoreCertificate, CloseOrder, NothingToClose, At, outside
  <1>1. c \in Certs /\ StateOK(agreed)
    BY Zenon, <1>0, OnAnOrder
  <1>2. Ends(d, ok) /\ Ends(d, no)
    BY Zenon, LeftEnds
  <1>3. StateOK(b) /\ Others(c, agreed, b)
    <2>1. None \in Url
      BY DEF Url
    <2> HIDE DEF c
    <2> QED
      BY <1>1, <2>1, RewrittenOK
  <1>4. CASE StoreCertificate(n)
    <2> DEFINE next == Stored(b, c, d.key)
    <2>1. Update(n, next, ok, no)
      BY <1>4 DEF StoreCertificate, Stored, Rewritten, Without
    <2>2. next.keys = b.keys /\ next.orders = b.orders
      <3> HIDE DEF b, c
      <3> QED
        BY Zenon, <1>1, <1>3, StoredOK
    <2> HIDE DEF next, b, ok, no
    <2>3. Others(c, agreed, next)
      <3> HIDE DEF c, d
      <3> QED
        BY Zenon, <1>3, <2>2 DEF Others
    <2>4. Keeps(d, ok) /\ Says(ok) /\ Holds(ok, next)
      BY Zenon, <1>2, EndsHolds
    <2> QED
      BY Zenon, <1>0, <1>2, <2>1, <2>3, <2>4, UpdateTurns
  <1>5. CASE CloseOrder(n)
    <2>1. Update(n, b, no, no)
      BY <1>5 DEF CloseOrder, Rewritten, Without
    <2> HIDE DEF b, ok, no
    <2>2. Keeps(d, no) /\ Says(no) /\ Holds(no, b)
      BY Zenon, <1>2, EndsHolds
    <2> QED
      BY Zenon, <1>0, <1>2, <1>3, <2>1, <2>2, UpdateTurns
  <1>6. CASE NothingToClose(n)
    <2>1. Proceeds(n, no) /\ agreed' = agreed
      BY Zenon, <1>6 DEF NothingToClose
    <2> HIDE DEF no
    <2>2. Keeps(d, no) /\ Says(no) /\ Holds(no, agreed)
      BY Zenon, <1>2, EndsHolds
    <2> QED
      BY Zenon, <1>0, <2>1, <2>2, TurnHere
  <1> QED
    BY <1>4, <1>5, <1>6

\* A question is asked again only about what is up.
LEMMA AskingKept ==
  ASSUME LifeInv, Kept, NEW n \in Nodes, Ask(n) \/ AskRefused(n) \/ AskLost(n) \/ NonceRefused(n)
  PROVE  Kept'
  <1> DEFINE d == drive[n]
  <1>0. d.pc = "ask" /\ UNCHANGED <<agreed, kind, waits, stopped>>
    BY Zenon DEF Ask, AskRefused, AskLost, NonceRefused, At, outside
  <1>1. DriveOK(d) /\ Says(d) /\ Holds(d, agreed) /\ FlowOK(d.flow) /\ FlowSays(d.flow) /\ IsSeq(ca)
    BY Zenon, OnAnOrder DEF LifeInv, DriveOK
  <1>2. ASSUME NEW e, Ends(d, e) \/ Carries(d, e), Proceeds(n, e)
        PROVE  Kept'
    <2>1. kind = "http-01" /\ ~d.stale => d.live.up \subseteq agreed.orders[d.cert].answers
      BY <1>0, <1>1 DEF Holds
    <2>2. Keeps(d, e) /\ Says(e) /\ Holds(e, agreed)
      <3> HIDE DEF d
      <3> QED
        BY Zenon, <1>2, <2>1, EndsHolds, CarriesHolds
    <2>3. d.pc \notin {"idle", "next"}
      BY <1>0
    <2> QED
      BY Zenon, <1>0, <1>2, <2>2, <2>3, TurnHere
  <1>3. CASE Ask(n)
    <2>1. PICK reuse \in BOOLEAN :
             Proceeds(n, Read(d, Accept(d.flow, Document(n, AuthorityAfter(n, reuse)))))
      BY Zenon, <1>3 DEF Ask
    <2> DEFINE after == AuthorityAfter(n, reuse)
               a == Document(n, after)
               r == Accept(d.flow, a)
               e == Read(d, r)
    <2>2. d.flow.stage = "order" => Len(after) \in Nat
      BY Zenon, <1>1, AuthorityOK
    <2> HIDE DEF after
    <2>3. d.flow.stage = "order" => a.order \in Nat
      BY Zenon, <2>2 DEF Document
    <2>4. Proceeds(n, e)
      BY <2>1 DEF after
    <2> HIDE DEF a, d
    <2>5. FlowOK(r.flow) /\ FlowSays(r.flow) /\ (d.flow.order # None => r.flow.order # None)
      BY Zenon, <1>1, <2>3, AcceptOK, AcceptSays
    <2> HIDE DEF r
    <2>6. Ends(d, e) \/ Carries(d, e)
      BY Zenon, <1>0, <1>1, <2>5, ReadCarries
    <2> HIDE DEF e
    <2> QED
      BY <1>2, <2>4, <2>6
  <1>4. CASE AskRefused(n) \/ AskLost(n)
    <2>1. PICK o : Proceeds(n, DriveOver(d, o))
      BY Zenon, <1>4 DEF AskRefused, AskLost
    <2>2. Ends(d, DriveOver(d, o))
      <3> HIDE DEF d
      <3> QED
        BY <1>1, DriveOverEnds
    <2> QED
      BY <1>2, <2>1, <2>2
  <1>5. CASE NonceRefused(n)
    <2> DEFINE v == d.rejected + 1
               e == DriveOver(d, "server")
               g == [d EXCEPT !.rejected = v]
    <2>1. Proceeds(n, e) \/ Proceeds(n, g)
      BY <1>5 DEF NonceRefused
    <2> HIDE DEF v
    <2>2. Ends(d, e)
      <3> HIDE DEF d
      <3> QED
        BY <1>1, DriveOverEnds
    <2>3. Carries(d, g)
      <3> HIDE DEF d
      <3>1. /\ g.pc = "ask" /\ g.flow = d.flow /\ g.live = d.live /\ g.cert = d.cert /\ g.up = d.up
            /\ g.stale = d.stale /\ g.ready = d.ready /\ g.failed = d.failed
        BY <1>0, <1>1 DEF DriveOK, DriveFields
      <3> HIDE DEF g
      <3> QED
        BY <1>0, <1>1, <3>1 DEF Carries, Keeps, Says
    <2> HIDE DEF e, g, d
    <2> QED
      BY <1>2, <2>1, <2>2, <2>3
  <1> QED
    BY <1>3, <1>4, <1>5

\* A drive between two orders, while nothing of the records changes: what it
\* owes has to be looked at.
LEMMA SweepTurns ==
  ASSUME LifeInv, Kept, NEW n \in Nodes, NEW e, Says(e), e.pc \notin {"ask", "publish"},
         Becomes(n, e), UNCHANGED <<agreed, kind>>,
         owed' = [m \in Nodes |-> owed'[m]], waits' = [m \in Nodes |-> waits'[m]],
         \A m \in Nodes \ {n} : /\ owed'[m] = owed[m] /\ waits'[m] = waits[m]
                                /\ m \notin stopped' => m \notin stopped,
         n \notin stopped' => Owes(n)'
  PROVE  Kept'
  <1>1. drive'[n] = e /\ \A m \in Nodes \ {n} : drive'[m] = drive[m]
    BY DEF LifeInv, Becomes
  <1>2. Holds(e, agreed)
    BY DEF Holds
  <1>3. ASSUME NEW m \in Nodes
        PROVE  Says(drive'[m]) /\ Holds(drive'[m], agreed)
    BY <1>1, <1>2 DEF Kept, AnswerInv
  <1>4. AnswerInv'
    BY <1>3 DEF AnswerInv, Holds
  <1>5. ASSUME NEW m \in Nodes, m \notin stopped'
        PROVE  Owes(m)'
    <2>1. CASE m # n
      BY <1>1, <1>5, <2>1 DEF Kept, OweInv, Owes
    <2> QED
      BY <1>5, <2>1
  <1>6. OweInv'
    BY Zenon, <1>5 DEF OweInv
  <1> QED
    BY <1>4, <1>6 DEF Kept

\* A node that drives nothing says nothing.
LEMMA IdleSays ==
  /\ Says(Idle) /\ Idle.pc = "idle" /\ Idle.failed = {} /\ Idle.ready = {} /\ Idle.attempt = 0
  <1>1. /\ Idle.pc = "idle" /\ Idle.failed = {} /\ Idle.ready = {} /\ Idle.attempt = 0
        /\ Idle.flow = Fresh
    BY Zenon DEF Idle
  <1> HIDE DEF Idle
  <1> QED
    BY <1>1, QuietFlows DEF Says

\* The sweep takes up what does not wait and writes down what failed.
LEMMA SweepingKept ==
  ASSUME LifeInv, Kept, NEW n \in Nodes, Sweeping(n)
  PROVE  Kept'
  <1> DEFINE d == drive[n]
             w == Tail(d.wanted)
             c == Head(d.wanted)
  <1>0. /\ DriveOK(d) /\ Says(d) /\ FlowSays(d.flow)
        /\ owed = [m \in Nodes |-> owed[m]] /\ waits = [m \in Nodes |-> waits[m]]
    BY Zenon, OnAnOrder DEF Kept, OweInv
  <1>1. UNCHANGED <<agreed, kind, stopped>>
    BY Zenon DEF Sweeping, StartSweep, SkipOrder, UnknownCertificate, BeginOrder, EndSweep, outside
  <1>2. n \notin stopped' => Owes(n)
    BY Zenon, <1>1 DEF Kept, OweInv
  <1>3. ASSUME NEW e, Becomes(n, e) PROVE drive'[n] = e
    BY <1>3 DEF LifeInv, Becomes
  <1>4. CASE StartSweep(n)
    <2> DEFINE v == Wanted
               r == Certs \ waits[n]
               e == [Idle EXCEPT !.pc = "next", !.wanted = v, !.config = agreed.config, !.ready = r]
    <2>1. Becomes(n, e) /\ UNCHANGED <<waits, owed>> /\ d.pc = "idle"
      BY <1>4 DEF StartSweep, At
    <2> HIDE DEF v, r
    <2>2. e.pc = "next" /\ e.failed = {} /\ e.ready = r /\ e.attempt = 0 /\ e.flow = Fresh
      BY ZenonT(60) DEF Idle
    <2> HIDE DEF e
    <2>3. Says(e)
      BY <2>2, QuietFlows DEF Says
    <2>4. drive'[n] = e
      BY SMTT(30), <1>3, <2>1
    <2>5. n \notin stopped' => Owes(n)'
      BY <1>2, <2>1, <2>2, <2>4 DEF Owes, r
    <2>6. /\ e.pc \notin {"ask", "publish"}
          /\ owed' = [m \in Nodes |-> owed'[m]] /\ waits' = [m \in Nodes |-> waits'[m]]
          /\ \A m \in Nodes \ {n} : /\ owed'[m] = owed[m] /\ waits'[m] = waits[m]
                                    /\ m \notin stopped' => m \notin stopped
      BY <1>0, <1>1, <2>1, <2>2
    <2> QED
      BY <1>1, <2>1, <2>3, <2>5, <2>6, SweepTurns
  <1>5. CASE SkipOrder(n)
    <2> DEFINE e == [d EXCEPT !.wanted = w]
    <2>1. Becomes(n, e) /\ UNCHANGED <<waits, owed>> /\ d.pc = "next"
      BY <1>5 DEF SkipOrder, At
    <2>2. /\ e.pc = d.pc /\ e.failed = d.failed /\ e.ready = d.ready /\ e.attempt = d.attempt
          /\ e.flow = d.flow
      <3> HIDE DEF d, w
      <3> QED
        BY <1>0 DEF DriveOK, DriveFields
    <2>3. drive'[n] = e
      BY <1>3, <2>1
    <2> HIDE DEF e
    <2>4. Says(e)
      BY SMTT(30), <1>0, <2>1, <2>2 DEF Says
    <2>5. n \notin stopped' => Owes(n)'
      BY <1>2, <2>1, <2>2, <2>3 DEF Owes
    <2>6. /\ e.pc \notin {"ask", "publish"}
          /\ owed' = [m \in Nodes |-> owed'[m]] /\ waits' = [m \in Nodes |-> waits'[m]]
          /\ \A m \in Nodes \ {n} : /\ owed'[m] = owed[m] /\ waits'[m] = waits[m]
                                    /\ m \notin stopped' => m \notin stopped
      BY SMTT(30), <1>0, <1>1, <2>1, <2>2
    <2> QED
      BY <1>1, <2>1, <2>4, <2>5, <2>6, SweepTurns
  <1>6. CASE UnknownCertificate(n)
    <2> DEFINE f == d.failed \cup {c}
               e == [d EXCEPT !.wanted = w, !.failed = f]
    <2>1. /\ Becomes(n, e) /\ owed' = [owed EXCEPT ![n] = @ \cup {c}] /\ d.pc = "next"
          /\ waits' = waits
      BY <1>6 DEF UnknownCertificate, At
    <2> HIDE DEF f
    <2>2. /\ e.pc = d.pc /\ e.failed = f /\ e.ready = d.ready /\ e.attempt = d.attempt
          /\ e.flow = d.flow
      <3> HIDE DEF d, w
      <3> QED
        BY Zenon, <1>0 DEF DriveOK, DriveFields
    <2>3. drive'[n] = e
      BY <1>3, <2>1
    <2> HIDE DEF e
    <2>4. Says(e)
      BY <1>0, <2>1, <2>2 DEF Says
    <2>5. owed'[n] = owed[n] \cup {c}
      BY SMTT(30), <1>0, <2>1
    <2>6. n \notin stopped' => Owes(n)'
      BY SMTT(30), <1>2, <2>1, <2>2, <2>3, <2>5 DEF Owes, f
    <2>7. /\ e.pc \notin {"ask", "publish"}
          /\ owed' = [m \in Nodes |-> owed'[m]] /\ waits' = [m \in Nodes |-> waits'[m]]
          /\ \A m \in Nodes \ {n} : /\ owed'[m] = owed[m] /\ waits'[m] = waits[m]
                                    /\ m \notin stopped' => m \notin stopped
      BY SMTT(30), <1>0, <1>1, <2>1, <2>2
    <2> QED
      BY Zenon, <1>1, <2>1, <2>4, <2>6, <2>7, SweepTurns
  <1>7. CASE BeginOrder(n)
    <2> DEFINE g == [d EXCEPT !.wanted = w, !.cert = c]
               a == [g EXCEPT !.pc = "make_account"]
               b == [g EXCEPT !.pc = "open", !.account = agreed.account]
    <2>1. PICK e \in {a, b} : Becomes(n, e)
      BY Zenon, <1>7 DEF BeginOrder
    <2>2. UNCHANGED <<waits, owed>>
      BY <1>7 DEF BeginOrder
    <2>3. g.cert \in d.ready /\ g.cert \notin d.failed
      BY <1>7 DEF BeginOrder, Ready
    <2>4. /\ g = [x \in DriveFields |-> g[x]]
          /\ g.failed = d.failed /\ g.ready = d.ready /\ g.flow = d.flow
      <3> HIDE DEF d, w, c
      <3> QED
        BY Zenon, <1>0 DEF DriveOK, DriveFields
    <2>5. drive'[n] = e
      BY <1>3, <2>1
    <2> HIDE DEF g
    <2>6. /\ e.pc \in {"open", "make_account"} /\ e.failed = d.failed /\ e.ready = d.ready
          /\ e.flow = d.flow /\ e.cert = g.cert
      <3> HIDE DEF d
      <3>1. /\ a.pc = "make_account" /\ a.failed = g.failed /\ a.ready = g.ready
            /\ a.flow = g.flow /\ a.cert = g.cert
        BY <2>4 DEF DriveFields
      <3>2. /\ b.pc = "open" /\ b.failed = g.failed /\ b.ready = g.ready
            /\ b.flow = g.flow /\ b.cert = g.cert
        BY Zenon, <2>4 DEF DriveFields
      <3> HIDE DEF a, b
      <3> QED
        BY <2>1, <2>4, <3>1, <3>2
    <2> HIDE DEF a, b
    <2>7. Says(e)
      BY <1>0, <2>6 DEF Says
    <2>8. n \notin stopped' => Owes(n)'
      BY SMTT(30), <1>2, <2>2, <2>3, <2>5, <2>6 DEF Owes
    <2>9. /\ e.pc \notin {"ask", "publish"}
          /\ owed' = [m \in Nodes |-> owed'[m]] /\ waits' = [m \in Nodes |-> waits'[m]]
          /\ \A m \in Nodes \ {n} : /\ owed'[m] = owed[m] /\ waits'[m] = waits[m]
                                    /\ m \notin stopped' => m \notin stopped
      BY SMTT(30), <1>0, <1>1, <2>2, <2>6
    <2> QED
      BY <1>1, <2>1, <2>7, <2>8, <2>9, SweepTurns
  <1>8. CASE EndSweep(n)
    <2>1. /\ Becomes(n, Idle) /\ owed' = owed /\ d.pc = "next"
          /\ waits' = [waits EXCEPT ![n] = @ \cup d.failed]
      BY <1>8 DEF EndSweep, At
    <2>2. drive'[n] = Idle
      BY <1>3, <2>1
    <2>3. waits'[n] = waits[n] \cup d.failed
      BY <1>0, <2>1
    <2>4. n \notin stopped' => Owes(n)'
      BY <1>2, <2>1, <2>2, <2>3, IdleSays DEF Owes
    <2>5. /\ owed' = [m \in Nodes |-> owed'[m]] /\ waits' = [m \in Nodes |-> waits'[m]]
          /\ \A m \in Nodes \ {n} : /\ owed'[m] = owed[m] /\ waits'[m] = waits[m]
                                    /\ m \notin stopped' => m \notin stopped
      BY <1>0, <1>1, <2>1
    <2> QED
      BY Zenon, <1>1, <2>1, <2>4, <2>5, IdleSays, SweepTurns
  <1> QED
    BY <1>4, <1>5, <1>6, <1>7, <1>8 DEF Sweeping

\* The node processes, the operator, the authority, time.
LEMMA OutsideKept ==
  ASSUME LifeInv, Kept,
         \/ \E n \in Nodes : PublishAnswers(n) \/ Stop(n) \/ Elect(n) \/ WaitOver(n)
         \/ Deciding
         \/ \E S \in SUBSET Certs : Apply(S)
         \/ UNCHANGED vars
  PROVE  Kept'
  <1>0. owed = [m \in Nodes |-> owed[m]] /\ waits = [m \in Nodes |-> waits[m]]
    BY Zenon DEF Kept, OweInv
  <1>1. ASSUME NEW n \in Nodes, Stop(n)
        PROVE  Kept'
    <2>1. /\ Becomes(n, Idle) /\ UNCHANGED <<agreed, kind, owed, waits>>
          /\ stopped' = stopped \cup {n}
      BY <1>1 DEF Stop
    <2>2. /\ n \in stopped' /\ Idle.pc \notin {"ask", "publish"}
          /\ owed' = [m \in Nodes |-> owed'[m]] /\ waits' = [m \in Nodes |-> waits'[m]]
          /\ \A m \in Nodes \ {n} : /\ owed'[m] = owed[m] /\ waits'[m] = waits[m]
                                    /\ m \notin stopped' => m \notin stopped
      BY SMTT(30), <1>0, <2>1, IdleSays
    <2> QED
      BY SMTT(30), <2>1, <2>2, IdleSays, SweepTurns
  <1>2. CASE UNCHANGED <<agreed, kind, drive, waits, owed, stopped>>
    BY <1>2 DEF Kept, AnswerInv, OweInv, Holds, Owes
  <1>3. CASE \/ \E n \in Nodes : PublishAnswers(n) \/ Elect(n)
             \/ Deciding
             \/ UNCHANGED vars
    BY Zenon, <1>2, <1>3 DEF PublishAnswers, Elect, Deciding, Check, Issue, vars, outside
  <1>4. ASSUME NEW n \in Nodes, WaitOver(n)
        PROVE  Kept'
    <2>1. /\ waits' = [waits EXCEPT ![n] = {}] /\ owed' = [owed EXCEPT ![n] = {}]
          /\ UNCHANGED <<agreed, kind, drive, stopped>>
      BY SMTT(30), <1>4 DEF WaitOver, outside
    <2>2. AnswerInv'
      BY <2>1 DEF Kept, AnswerInv, Holds
    <2>3. /\ waits'[n] = {} /\ owed'[n] = {}
          /\ \A m \in Nodes \ {n} : waits'[m] = waits[m] /\ owed'[m] = owed[m]
          /\ owed' = [m \in Nodes |-> owed'[m]] /\ waits' = [m \in Nodes |-> waits'[m]]
      BY Zenon, <1>0, <2>1
    <2>4. ASSUME NEW m \in Nodes, m \notin stopped PROVE Owes(m)'
      BY <2>1, <2>3, <2>4 DEF Kept, OweInv, Owes
    <2> QED
      BY SMTT(30), <2>1, <2>2, <2>3, <2>4 DEF Kept, OweInv
  <1>5. ASSUME NEW S \in SUBSET Certs, Apply(S)
        PROVE  Kept'
    <2>1. /\ agreed' = [agreed EXCEPT !.config = S]
          /\ UNCHANGED <<kind, drive, waits, owed, stopped>>
      BY <1>5 DEF Apply
    <2>2. agreed'.orders = agreed.orders
      BY <2>1 DEF LifeInv, StateOK, StateFields
    <2> QED
      BY <2>1, <2>2 DEF Kept, AnswerInv, OweInv, Holds, Owes
  <1> QED
    BY <1>1, <1>3, <1>4, <1>5

\* Every step of the cluster keeps both.
LEMMA NextKept ==
  ASSUME LifeInv, Kept, [Next]_vars
  PROVE  Kept'
  <1>1. ASSUME NEW n \in Nodes, Ordering(n) PROVE Kept'
    BY Zenon, <1>1, OpeningKept, RecordingKept, AskingKept, EndingKept DEF Ordering
  <1> QED
    BY Zenon, <1>1, SweepingKept, OutsideKept DEF Next

\* Nothing is owed and nothing is up at first.
LEMMA InitKept ==
  ASSUME Init
  PROVE  Kept
  <1>1. drive = [n \in Nodes |-> Idle] /\ waits = [n \in Nodes |-> {}] /\ owed = [n \in Nodes |-> {}]
    BY Zenon DEF Init
  <1>2. \A n \in Nodes : drive[n] = Idle
    BY <1>1
  <1>3. AnswerInv
    BY SMTT(30), <1>2, IdleSays DEF AnswerInv, Holds
  <1>4. OweInv
    BY SMTT(30), <1>1, <1>2, IdleSays DEF OweInv, Owes
  <1> QED
    BY <1>3, <1>4 DEF Kept

\* What both say of the questions that are asked and the orders that are tried.
LEMMA KeptMeans ==
  ASSUME LifeInv, Kept
  PROVE  AnsweredBeforeAsked /\ WaitsAreKept
  <1>1. ASSUME NEW n \in Nodes, At(n, "ask"), drive[n].flow.stage = "accept", ~drive[n].stale
        PROVE  IF kind = "http-01" THEN drive[n].flow.challenge \in AnswersHeld
                                   ELSE drive[n].flow.challenge \in drive[n].up
    <2> DEFINE d == drive[n]
    <2>1. /\ Says(d) /\ Holds(d, agreed) /\ d.pc = "ask"
          /\ d.pc \notin {"idle", "next"} => d.cert \in Certs
      BY SMTT(30), <1>1, OnAnOrder DEF At
    <2>2. d.flow.challenge \in d.live.up /\ d.live.up \subseteq d.up
      BY SMTT(30), <1>1, <2>1 DEF Says, FlowSays
    <2>3. kind = "http-01" => d.live.up \subseteq agreed.orders[d.cert].answers
      BY <1>1, <2>1 DEF Holds
    <2>4. d.cert \in Certs
      BY <2>1
    <2>5. kind = "http-01" => d.flow.challenge \in AnswersHeld
      BY <2>2, <2>3, <2>4 DEF AnswersHeld
    <2> QED
      BY <2>2, <2>5
  <1>2. ASSUME NEW n \in Nodes, drive[n].attempt > 0, n \notin stopped
        PROVE  drive[n].cert \notin owed[n]
    <2>1. Owes(n)
      BY <1>2 DEF Kept, OweInv
    <2>2. drive[n].attempt # 0
      BY <1>2
    <2> QED
      BY <2>1, <2>2 DEF Owes
  <1> QED
    BY SMTT(30), <1>1, <1>2 DEF AnsweredBeforeAsked, WaitsAreKept

(***************************************************************************)
(* The theorems.                                                           *)
(***************************************************************************)

\* Whoever takes an order over finds what its first driver promised the
\* certificate authority (open_order, file_reached, close_order,
\* store_certificate): as long as no two nodes have written about it in turns, a
\* record is opened with its key before anything is named, keeps the key, never
\* forgets an order and goes whole, however many nodes drive it, however often
\* they fall, lose the lead or have a write refused.
THEOREM RecordLives == Spec => ImplementsLife
  <1>1. Init => LifeInv /\ Record!LifeInit
    BY InitLives
  <1>2. LifeInv /\ [Next]_vars => LifeInv' /\ Lives
    BY NextLives
  <1> QED
    BY <1>1, <1>2, PTL DEF Spec, ImplementsLife, Record!Life, Lives

\* The invariants of the shapes, of the answers and of the waits hold together.
LEMMA AnswersKept == Spec => [](LifeInv /\ Kept)
  <1>1. Init => LifeInv /\ Kept
    BY InitLives, InitKept
  <1>2. (LifeInv /\ Kept) /\ [Next]_vars => (LifeInv /\ Kept)'
    BY NextLives, NextKept
  <1> QED
    BY <1>1, <1>2, PTL DEF Spec

\* The authority is never asked to look at a challenge whose answer cannot be
\* found (drive of ek-ek-tls acme.rs records and publishes before it asks): it
\* is in the record every node serves from, or at the name server, unless
\* another node has written about the same order meanwhile.
THEOREM AnswersComeFirst == Spec => []AnsweredBeforeAsked
  <1>1. LifeInv /\ Kept => AnsweredBeforeAsked
    BY KeptMeans
  <1> QED
    BY <1>1, AnswersKept, PTL

\* A node that has failed an order does not try it again before its wait is
\* over (sweep_once, apply_once): the failures of a sweep are counted in it
\* before they are written, whatever becomes of the leader.
THEOREM NoOrderBeforeItsWait == Spec => []WaitsAreKept
  <1>1. LifeInv /\ Kept => WaitsAreKept
    BY KeptMeans
  <1> QED
    BY <1>1, AnswersKept, PTL
==============================================================================
