--------------------------- MODULE AcmeOrderSteps ---------------------------
(***************************************************************************)
(* The steps of an order, for any number of nodes, certificates, orders,   *)
(* attempts and mishaps: each keeps the shapes of what a node drives and   *)
(* of what is recorded, and is a step of OrderLife.  AcmeOrderProofs and   *)
(* AcmeKeyProofs go on from here.                                          *)
(***************************************************************************)
EXTENDS AcmeOrder, TLAPS

(***************************************************************************)
(* Shapes.                                                                 *)
(***************************************************************************)

FlowFields == {"stage", "order", "resuming", "waiting", "challenge", "published",
               "chain", "polls"}
DriveFields == {"pc", "wanted", "config", "ready", "failed", "cert", "account", "key",
                "url", "attempt", "flow", "live", "up", "rejected", "closing", "stale"}
StateFields == {"account", "config", "keys", "orders", "served"}

Url == Nat \cup {None}

\* Before the authority has named an order nothing of it is published, and the
\* flow is at one of its first stages or over.
FlowOK(f) == /\ f = [x \in FlowFields |-> f[x]]
             /\ f.order \in Url
             /\ f.order = None => /\ f.stage \in {"account", "order", "done"}
                                  /\ f.resuming = FALSE /\ f.published = {}

\* What a drive has recorded: never anything while no order is named, and what
\* is written to the record names one.  The certificate it is about is one there
\* is.
DriveOK(d) == /\ d = [x \in DriveFields |-> d[x]]
              /\ FlowOK(d.flow)
              /\ d.url \in Url
              /\ d.live = [url |-> d.live.url, up |-> d.live.up]
              /\ d.live.url \in Url
              /\ d.flow.order = None => d.live = Nothing
              /\ d.live.url = None => d.live.up = {}
              /\ d.pc = "file" => d.live.url # None
              /\ d.config \subseteq Certs
              /\ d.pc \notin {"idle", "next"} => d.cert \in Certs

\* A drive that goes on, other than to the place before a new record.
Goes(d) == DriveOK(d) /\ d.pc # "open_new"

(***************************************************************************)
(* The flow.                                                               *)
(***************************************************************************)

\* A flow that has just begun.
LEMMA FreshOK == FlowOK(Fresh) /\ Fresh.order = None /\ Fresh.published = {}
  BY Zenon DEF FlowOK, Fresh, FlowFields, Url

\* A flow that takes an order over.
LEMMA ResumedOK ==
  ASSUME NEW u \in Nat
  PROVE  FlowOK(Resumed(u)) /\ Resumed(u).order = u /\ Resumed(u).published = {}
  BY Zenon, AcmeOrderAssumption DEF FlowOK, Resumed, Fresh, FlowFields, Url

\* A flow that is given up names what it named.
LEMMA AbandonedOK ==
  ASSUME NEW f, FlowOK(f)
  PROVE  FlowOK(Abandoned(f)) /\ Abandoned(f).order = f.order
  BY Zenon DEF FlowOK, Abandoned, FlowFields, Url

\* A flow with an order may go anywhere.
Named(f) == FlowOK(f) /\ f.order # None

\* Each part of such a flow may be set: the stage,
LEMMA NamedStage ==
  ASSUME NEW f, Named(f), NEW v
  PROVE  Named([f EXCEPT !.stage = v])
  BY DEF Named, FlowOK, FlowFields

\* what waits,
LEMMA NamedWaiting ==
  ASSUME NEW f, Named(f), NEW v
  PROVE  Named([f EXCEPT !.waiting = v])
  BY DEF Named, FlowOK, FlowFields

\* the challenge,
LEMMA NamedChallenge ==
  ASSUME NEW f, Named(f), NEW v
  PROVE  Named([f EXCEPT !.challenge = v])
  BY DEF Named, FlowOK, FlowFields

\* the questions counted,
LEMMA NamedPolls ==
  ASSUME NEW f, Named(f), NEW v
  PROVE  Named([f EXCEPT !.polls = v])
  BY DEF Named, FlowOK, FlowFields

\* the count and the stage,
LEMMA NamedPollsStage ==
  ASSUME NEW f, Named(f), NEW v, NEW w
  PROVE  Named([f EXCEPT !.polls = v, !.stage = w])
  BY Zenon DEF Named, FlowOK, FlowFields

\* an answer published,
LEMMA NamedPublished ==
  ASSUME NEW f, Named(f), NEW v, NEW w, NEW u
  PROVE  Named([f EXCEPT !.stage = v, !.challenge = w, !.published = u])
  BY Zenon DEF Named, FlowOK, FlowFields

\* and the chain it ends with.
LEMMA NamedOver ==
  ASSUME NEW f, Named(f), NEW v, NEW w, NEW u
  PROVE  Named([f EXCEPT !.chain = v, !.published = w, !.stage = u])
  BY Zenon DEF Named, FlowOK, FlowFields

\* The next authorization, or the finalization, keeps the order.
LEMMA NamedOnward ==
  ASSUME NEW f, Named(f)
  PROVE  Named(Onward(f))
  BY Zenon, NamedStage DEF Onward

\* What comes back for an answer is the flow, and perhaps a reason.
LEMMA Outcomes == \A f, why : Moved(f).flow = f /\ Ended(f, why).flow = f
  BY DEF Moved, Ended

\* So does reading how the order is getting on (order.rs read_progress),
LEMMA NamedProgress ==
  ASSUME NEW f, Named(f), NEW a
  PROVE  Named(ReadProgress(f, a).flow)
  <1> DEFINE more == f.polls + 1
             p == [f EXCEPT !.polls = more]
             q == [f EXCEPT !.polls = more, !.stage = "poll"]
             r == [f EXCEPT !.stage = "download"]
             t == [f EXCEPT !.stage = "finalize"]
  <1>1. Named(p) /\ Named(q) /\ Named(r) /\ Named(t)
    BY Zenon, NamedPolls, NamedPollsStage, NamedStage
  <1>2. \/ ReadProgress(f, a) = Moved(r)
        \/ ReadProgress(f, a) = Moved(t)
        \/ ReadProgress(f, a) = Ended(f, "challenge")
        \/ ReadProgress(f, a) = Ended(p, "network")
        \/ ReadProgress(f, a) = Moved(q)
    BY DEF ReadProgress
  <1> HIDE DEF p, q, r, t
  <1> QED
    BY <1>1, <1>2, Outcomes

\* reading an order that is taken over (order.rs read_resumed),
LEMMA NamedResumed ==
  ASSUME NEW f, Named(f), NEW a
  PROVE  Named(ReadResumed(f, a).flow)
  <1> DEFINE g == [f EXCEPT !.waiting = a.waiting]
             p == [g EXCEPT !.stage = "download"]
             q == [g EXCEPT !.stage = "finalize"]
             r == [g EXCEPT !.stage = "poll"]
             o == Onward(g)
  <1>1. Named(g)
    BY NamedWaiting
  <1>2. \/ ReadResumed(f, a) = Moved(p)
        \/ ReadResumed(f, a) = Moved(q)
        \/ ReadResumed(f, a) = Moved(r)
        \/ ReadResumed(f, a) = Moved(o)
        \/ ReadResumed(f, a) = Ended(g, "challenge")
    BY DEF ReadResumed
  <1> HIDE DEF g
  <1>3. Named(p) /\ Named(q) /\ Named(r) /\ Named(o)
    BY <1>1, NamedStage, NamedOnward
  <1> HIDE DEF p, q, r, o
  <1> QED
    BY <1>1, <1>2, <1>3, Outcomes

\* and reading an authorization (order.rs read_authorization).
LEMMA NamedAuthorization ==
  ASSUME NEW f, Named(f), NEW a
  PROVE  Named(ReadAuthorization(f, a).flow)
  <1> DEFINE g == [f EXCEPT !.waiting = Tail(f.waiting)]
             token == <<f.order, Head(f.waiting)>>
             up == g.published \cup {token}
             h == [g EXCEPT !.stage = "accept", !.challenge = token, !.published = up]
             o == Onward(g)
  <1>1. Named(g)
    BY Zenon, NamedWaiting
  <1>2. ReadAuthorization(f, a) = Moved(o) \/ ReadAuthorization(f, a) = Moved(h)
    BY DEF ReadAuthorization
  <1> HIDE DEF g, up, token
  <1>3. Named(h) /\ Named(o)
    BY Zenon, <1>1, NamedPublished, NamedOnward
  <1> HIDE DEF h, o
  <1> QED
    BY <1>2, <1>3, Outcomes

\* What an answer makes of a flow: an order is named once, and stays.
LEMMA AcceptOK ==
  ASSUME NEW f, FlowOK(f), NEW a, f.stage = "order" => a.order \in Nat
  PROVE  /\ FlowOK(Accept(f, a).flow)
         /\ f.order # None => Accept(f, a).flow.order # None
  <1>1. CASE f.stage = "account"
    <2> DEFINE g == [f EXCEPT !.stage = IF f.resuming THEN "resume" ELSE "order"]
    <2>1. FlowOK(g) /\ g.order = f.order
      BY <1>1 DEF FlowOK, FlowFields
    <2>2. Accept(f, a) = Moved(g)
      BY <1>1 DEF Accept, ReadAccount
    <2> HIDE DEF g
    <2> QED
      BY <2>1, <2>2, Outcomes
  <1>2. CASE f.stage = "order"
    <2> DEFINE g == [f EXCEPT !.order = a.order, !.waiting = a.waiting]
               o == Onward(g)
    <2>1. Named(g)
      BY Zenon, <1>2, AcmeOrderAssumption DEF Named, FlowOK, FlowFields, Url
    <2>2. Accept(f, a) = Moved(o)
      BY <1>2 DEF Accept, ReadOrder
    <2> HIDE DEF g
    <2>3. Named(o)
      BY <2>1, NamedOnward
    <2> HIDE DEF o
    <2> QED
      BY <2>2, <2>3, Outcomes DEF Named
  <1>3. CASE f.stage \notin {"account", "order", "done"}
    <2>1. Named(f)
      BY <1>3 DEF Named, FlowOK
    <2> DEFINE g == [f EXCEPT !.challenge = None]
               h == [f EXCEPT !.polls = 0]
               e == [f EXCEPT !.chain = a.chain, !.published = {}, !.stage = "done"]
               o == Onward(g)
    <2>2. Named(g) /\ Named(h) /\ Named(e)
      BY Zenon, <2>1, NamedChallenge, NamedPolls, NamedOver
    <2>3. \/ Accept(f, a) = ReadResumed(f, a)
          \/ Accept(f, a) = ReadAuthorization(f, a)
          \/ Accept(f, a) = Moved(o)
          \/ Accept(f, a) = ReadProgress(f, a)
          \/ Accept(f, a) = ReadProgress(h, a)
          \/ Accept(f, a) = Moved(e)
      BY <1>3 DEF Accept
    <2> HIDE DEF g, h, e
    <2>4. Named(o)
      BY <2>2, NamedOnward
    <2> HIDE DEF o
    <2>5. Named(Accept(f, a).flow)
      BY <2>1, <2>2, <2>3, <2>4, Outcomes, NamedResumed, NamedAuthorization, NamedProgress
    <2> QED
      BY <2>5 DEF Named
  <1>4. CASE f.stage = "done"
    <2> DEFINE e == [f EXCEPT !.chain = a.chain, !.published = {}, !.stage = "done"]
    <2>1. FlowOK(e) /\ e.order = f.order
      BY Zenon DEF FlowOK, FlowFields
    <2>2. Accept(f, a) = Moved(e)
      BY <1>4 DEF Accept
    <2> HIDE DEF e
    <2> QED
      BY <2>1, <2>2, Outcomes
  <1> QED
    BY <1>1, <1>2, <1>3, <1>4

(***************************************************************************)
(* The drive.                                                              *)
(***************************************************************************)

\* A node that drives nothing.
LEMMA IdleOK == Goes(Idle)
  BY ZenonT(60), FreshOK DEF Goes, DriveOK, DriveFields, Idle, Nothing, Url

\* What a failure and a success leave of a drive.
LEMMA LeftOK ==
  ASSUME NEW d, DriveOK(d)
  PROVE  Goes(Fails(d)) /\ Goes(Succeeds(d))
  <1> DEFINE e == Fails(d)
             g == Succeeds(d)
             Blank(b) == /\ b = [x \in DriveFields |-> b[x]] /\ b.pc = "next" /\ b.url = None
                         /\ b.flow = Fresh /\ b.live = Nothing /\ b.config = d.config
  <1>0. d.config \subseteq Certs
    BY DEF DriveOK
  <1>1. Blank(e)
    BY ZenonT(60) DEF Fails, Idle, DriveFields
  <1>2. g = [e EXCEPT !.failed = d.failed \ {d.cert}]
    BY DEF Succeeds
  <1> HIDE DEF e
  <1>3. Blank(g)
    BY <1>1, <1>2 DEF DriveFields
  <1> HIDE DEF g
  <1>4. ASSUME NEW b, Blank(b) PROVE Goes(b)
    BY <1>4, <1>0, FreshOK DEF Goes, DriveOK, Nothing, Url
  <1>5. Goes(e) /\ Goes(g)
    BY <1>1, <1>3, <1>4
  <1> QED
    BY <1>5 DEF e, g

\* Fields nothing is said of may change, and so may the place.
LEMMA PlaceOK ==
  ASSUME NEW d, DriveOK(d), d.cert \in Certs, NEW p, p \notin {"file", "open_new"}
  PROVE  Goes([d EXCEPT !.pc = p])
  BY DEF Goes, DriveOK, DriveFields

\* The place together with the account,
LEMMA PlaceAccountOK ==
  ASSUME NEW d, DriveOK(d), d.cert \in Certs, NEW p, p \notin {"file", "open_new"},
         NEW v
  PROVE  Goes([d EXCEPT !.pc = p, !.account = v])
  BY Zenon DEF Goes, DriveOK, DriveFields

\* and with the order found in the record.
LEMMA PlaceUrlOK ==
  ASSUME NEW d, DriveOK(d), d.cert \in Certs, NEW p, p \notin {"file", "open_new"},
         NEW v \in Url
  PROVE  Goes([d EXCEPT !.pc = p, !.url = v])
  BY Zenon DEF Goes, DriveOK, DriveFields

\* What is still wanted may change in place,
LEMMA WantedOK ==
  ASSUME NEW d, DriveOK(d), NEW v
  PROVE  /\ DriveOK([d EXCEPT !.wanted = v])
         /\ [d EXCEPT !.wanted = v].pc = d.pc /\ [d EXCEPT !.wanted = v].cert = d.cert
  BY DEF DriveOK, DriveFields

\* so may whether the record has gone since,
LEMMA StaleOK ==
  ASSUME NEW d, DriveOK(d), NEW v
  PROVE  /\ DriveOK([d EXCEPT !.stale = v])
         /\ [d EXCEPT !.stale = v].pc = d.pc /\ [d EXCEPT !.stale = v].cert = d.cert
  BY DEF DriveOK, DriveFields

\* the key the drive signs with,
LEMMA KeyOK ==
  ASSUME NEW d, DriveOK(d), NEW v
  PROVE  /\ DriveOK([d EXCEPT !.key = v])
         /\ [d EXCEPT !.key = v].pc = d.pc /\ [d EXCEPT !.key = v].cert = d.cert
  BY DEF DriveOK, DriveFields

\* the answers this node serves,
LEMMA UpOK ==
  ASSUME NEW d, DriveOK(d), NEW v
  PROVE  /\ DriveOK([d EXCEPT !.up = v])
         /\ [d EXCEPT !.up = v].pc = d.pc /\ [d EXCEPT !.up = v].cert = d.cert
  BY DEF DriveOK, DriveFields

\* the refusals counted,
LEMMA RejectedOK ==
  ASSUME NEW d, DriveOK(d), NEW v
  PROVE  /\ DriveOK([d EXCEPT !.rejected = v])
         /\ [d EXCEPT !.rejected = v].pc = d.pc /\ [d EXCEPT !.rejected = v].cert = d.cert
  BY DEF DriveOK, DriveFields

\* and what is wanted with what failed.
LEMMA UnknownOK ==
  ASSUME NEW d, DriveOK(d), NEW v, NEW w
  PROVE  DriveOK([d EXCEPT !.wanted = v, !.failed = w]) /\ [d EXCEPT !.wanted = v, !.failed = w].pc = d.pc
  BY Zenon DEF DriveOK, DriveFields

\* An attempt starts with the order of the record, or with none (acme.rs obtain_planned_over).
LEMMA AttemptOK ==
  ASSUME NEW d, DriveOK(d), d.cert \in Certs, NEW number
  PROVE  Goes(Attempt(d, number))
  <1> DEFINE f == IF number = 1 /\ d.url # None THEN Resumed(d.url) ELSE Fresh
  <1>1. /\ FlowOK(f) /\ f.published = {}
    BY FreshOK, ResumedOK DEF DriveOK, Url
  <1>2. Attempt(d, number) =
          [d EXCEPT !.pc = "ask", !.attempt = number, !.flow = f,
                    !.live = Reached(f), !.rejected = 0, !.closing = None]
    BY DEF Attempt
  <1> HIDE DEF f
  <1>3. f.order \in Url
    BY <1>1 DEF FlowOK
  <1> DEFINE l == Reached(f)
             g == Attempt(d, number)
  <1>4. l = [url |-> l.url, up |-> l.up] /\ l.url = f.order /\ l.up = {}
        /\ (f.order = None => l = Nothing)
    BY <1>1 DEF Reached, Nothing
  <1> HIDE DEF l
  <1>5. /\ g = [x \in DriveFields |-> g[x]] /\ g.pc = "ask" /\ g.flow = f /\ g.live = l
        /\ g.url = d.url /\ g.config = d.config /\ g.cert = d.cert
    BY ZenonT(40), <1>2 DEF DriveOK, DriveFields, l
  <1>6. d.url \in Url /\ d.config \subseteq Certs
    BY DEF DriveOK
  <1> HIDE DEF g
  <1>7. Goes(g)
    BY <1>1, <1>3, <1>4, <1>5, <1>6 DEF Goes, DriveOK
  <1> QED
    BY <1>7 DEF g

\* What follows an attempt (acme.rs obtain_planned_over).
LEMMA AttemptOverOK ==
  ASSUME NEW d, DriveOK(d), d.cert \in Certs, NEW outcome
  PROVE  Goes(AttemptOver(d, outcome))
  <1> DEFINE n == d.attempt + 1
  <1>1. \/ AttemptOver(d, outcome) = [d EXCEPT !.pc = "store"]
        \/ AttemptOver(d, outcome) = Fails(d)
        \/ AttemptOver(d, outcome) = Attempt(d, n)
        \/ AttemptOver(d, outcome) = [d EXCEPT !.pc = "close"]
    BY DEF AttemptOver, Inspect
  <1> HIDE DEF n
  <1> QED
    BY <1>1, LeftOK, AttemptOK, PlaceOK

\* A drive that ends takes its answers down first (acme.rs run).
LEMMA DriveOverOK ==
  ASSUME NEW d, DriveOK(d), d.cert \in Certs, NEW outcome
  PROVE  Goes(DriveOver(d, outcome))
  <1> DEFINE f == Abandoned(d.flow)
             done == [d EXCEPT !.flow = f]
  <1>1. FlowOK(f) /\ f.order = d.flow.order
    BY AbandonedOK DEF DriveOK
  <1>2. DriveOver(d, outcome) = IF d.live.up = {} THEN AttemptOver(done, outcome)
             ELSE [done EXCEPT !.pc = "file", !.live.up = {}, !.closing = outcome]
    BY DEF DriveOver
  <1> HIDE DEF f
  <1>3. DriveOK(done) /\ done.cert = d.cert
    BY <1>1 DEF DriveOK, DriveFields
  <1>4. CASE d.live.up = {}
    <2> HIDE DEF done
    <2> QED
      BY <1>2, <1>3, <1>4, AttemptOverOK
  <1>5. CASE d.live.up # {}
    <2> DEFINE g == [done EXCEPT !.pc = "file", !.live.up = {}, !.closing = outcome]
               l == [d.live EXCEPT !.up = {}]
    <2>1. d.live.url # None /\ done.live = d.live /\ d.flow.order # None
      BY <1>5 DEF DriveOK, DriveFields, Nothing
    <2>2. l = [url |-> l.url, up |-> l.up] /\ l.url = d.live.url /\ l.up = {} /\ l.url \in Url
      BY DEF DriveOK
    <2>3. /\ done.url \in Url /\ done.flow = f /\ done = [x \in DriveFields |-> done[x]]
          /\ done.config \subseteq Certs
      BY <1>3 DEF DriveOK, DriveFields
    <2> HIDE DEF done
    <2>4. /\ g = [x \in DriveFields |-> g[x]] /\ g.pc = "file" /\ g.flow = f /\ g.live = l
          /\ g.url = done.url /\ g.config = done.config /\ g.cert = done.cert
      BY Zenon, <2>1, <2>3 DEF DriveFields
    <2> HIDE DEF g, l
    <2>5. Goes(g)
      BY Zenon, <1>1, <1>3, <2>1, <2>2, <2>3, <2>4 DEF Goes, DriveOK
    <2> QED
      BY <1>2, <1>5, <2>5 DEF g
  <1> QED
    BY <1>4, <1>5

\* A record that could not be written ends the drive,
LEMMA RecordFailedOK ==
  ASSUME NEW d, DriveOK(d), d.cert \in Certs, NEW why
  PROVE  Goes(RecordFailed(d, why))
  BY AttemptOverOK, DriveOverOK DEF RecordFailed

\* and one that was is followed by what it was written for.
LEMMA RecordDoneOK ==
  ASSUME NEW d, DriveOK(d), d.cert \in Certs
  PROVE  Goes(RecordDone(d))
  BY AttemptOverOK, PlaceOK DEF RecordDone

\* Answers are published on this node (acme.rs Answering::apply).
LEMMA PublishOK ==
  ASSUME NEW d, DriveOK(d), d.cert \in Certs
  PROVE  Goes(Publish(d))
  BY RecordDoneOK, PlaceOK DEF Publish

\* Before a question is asked, what was reached is recorded (acme.rs drive).
LEMMA BeforeAskOK ==
  ASSUME NEW d, DriveOK(d), d.cert \in Certs
  PROVE  Goes(BeforeAsk(d))
  <1>1. CASE Reached(d.flow) = d.live
    BY <1>1, PlaceOK DEF BeforeAsk
  <1>2. CASE Reached(d.flow) # d.live
    <2> DEFINE l == Reached(d.flow)
    <2>1. l = [url |-> l.url, up |-> l.up] /\ l.url = d.flow.order /\ l.up = d.flow.published
      BY DEF Reached
    <2>2. d.flow.order \in Url /\ (d.flow.order = None => d.flow.published = {})
      BY DEF DriveOK, FlowOK
    <2>3. d.flow.order = None => l = Nothing
      BY <2>1, <2>2 DEF Nothing, Reached
    <2>4. d.flow.order # None
      BY <1>2, <2>3 DEF DriveOK
    <2>5. BeforeAsk(d) = [d EXCEPT !.pc = "file", !.live = l]
      BY <1>2 DEF BeforeAsk
    <2> HIDE DEF l
    <2> QED
      BY Zenon, <2>1, <2>2, <2>4, <2>5 DEF Goes, DriveOK, DriveFields
  <1> QED
    BY <1>1, <1>2

\* The loop of drive reads an answer that keeps what the flow has named.
LEMMA ReadOK ==
  ASSUME NEW d, DriveOK(d), d.pc = "ask", NEW r, FlowOK(r.flow),
         d.flow.order # None => r.flow.order # None
  PROVE  Goes(Read(d, r))
  <1> DEFINE g == r.flow
             e == [d EXCEPT !.flow = g, !.rejected = 0]
  <1>1. Read(d, r) \in {DriveOver(e, r.failed), DriveOver(e, "chain"), BeforeAsk(e)}
    BY DEF Read
  <1>2. FlowOK(g) /\ (d.flow.order # None => g.order # None)
    OBVIOUS
  <1> HIDE DEF g
  <1>3. DriveOK(e) /\ e.cert \in Certs
    BY Zenon, <1>2 DEF DriveOK, DriveFields
  <1> HIDE DEF e
  <1> QED
    BY <1>1, <1>3, DriveOverOK, BeforeAskOK

(***************************************************************************)
(* The invariant.                                                          *)
(***************************************************************************)

\* A record that is not there names nothing.
StateOK(a) == /\ a = [x \in StateFields |-> a[x]]
              /\ a.config \subseteq Certs
              /\ a.keys \in [Certs -> Url]
              /\ a.orders = [c \in Certs |-> a.orders[c]]
              /\ \A c \in Certs : /\ a.orders[c].url \in Url
                                  /\ a.keys[c] = None => a.orders[c].url = None

\* What a node found when it looked for a record still holds when it opens one,
\* or another node has written about it since.
FoundNone(d, a) == d.pc = "open_new" /\ ~d.stale /\ d.cert \in Certs => a.keys[d.cert] = None

IsSeq(s) == s \in Seq({s[i] : i \in DOMAIN s})

LifeInv == /\ StateOK(agreed)
           /\ IsSeq(ca)
           /\ drive = [n \in Nodes |-> drive[n]]
           /\ \A n \in Nodes : DriveOK(drive[n]) /\ FoundNone(drive[n], agreed)

(***************************************************************************)
(* One write to one record.                                                *)
(***************************************************************************)

\* What a write of a drive may do to the record of its certificate: nothing,
\* open it, name an order in it, take it away; anything at all when another
\* node has written about it since the drive began.
Writes(c, a, b, stale) ==
    \/ c \in Certs /\ stale
    \/ c \in Certs /\ b.keys[c] = None /\ b.orders[c].url = None
    \/ c \in Certs /\ a.keys[c] = None /\ b.keys[c] \in Nat /\ b.orders[c].url = None
    \/ c \in Certs /\ a.keys[c] # None /\ b.keys[c] = a.keys[c] /\ b.orders[c].url \in Nat
    \/ c \in Certs => b.keys[c] = a.keys[c] /\ b.orders[c].url = a.orders[c].url

Others(c, a, b) == \A o \in Certs \ {c} : /\ b.keys[o] = a.keys[o]
                                          /\ b.orders[o] = a.orders[o]

\* A step of the life of the records, or none.
Lives == [Record!LifeNext]_(Record!lifeVars)

\* Such a write is a step of the record's life, or none.
LEMMA WriteLives ==
  ASSUME StateOK(agreed), StateOK(agreed'), NEW c, NEW stale,
         Writes(c, agreed, agreed', stale), Others(c, agreed, agreed'),
         overlapped' = IF stale THEN overlapped \cup {c} ELSE overlapped
  PROVE  Lives
  <1> DEFINE K == [o \in Certs |-> IF Promised(o) THEN agreed.keys[o] ELSE None]
             U == [o \in Certs |-> IF Promised(o) THEN agreed.orders[o].url ELSE None]
             L == [o \in Certs |-> IF o \in overlapped' THEN None ELSE agreed'.keys[o]]
             V == [o \in Certs |-> IF o \in overlapped' THEN None ELSE agreed'.orders[o].url]
  <1>1. K' = L /\ U' = V
    BY DEF Promised
  <1>2. \A o \in Certs : K[o] = None => U[o] = None
    BY Zenon DEF StateOK
  <1>3. \A o \in Certs \ {c} : L[o] = K[o] /\ V[o] = U[o]
    BY DEF Others, Promised
  <1>4. \/ c \in Certs /\ L[c] = None /\ V[c] = None
        \/ c \in Certs /\ K[c] = None /\ L[c] \in Nat /\ V[c] = None
        \/ c \in Certs /\ K[c] # None /\ L[c] = K[c] /\ V[c] \in Nat
        \/ c \in Certs => L[c] = K[c] /\ V[c] = U[c]
    BY Zenon DEF Writes, Promised
  <1>5. /\ K = [o \in Certs |-> K[o]] /\ U = [o \in Certs |-> U[o]]
        /\ L = [o \in Certs |-> L[o]] /\ V = [o \in Certs |-> V[o]]
    OBVIOUS
  <1>6. c \in Certs => L = [K EXCEPT ![c] = L[c]] /\ V = [U EXCEPT ![c] = V[c]]
    <2> HIDE DEF K, U, L, V
    <2> QED
      BY Zenon, <1>3, <1>5
  <1>7. None \notin Nat
    BY AcmeOrderAssumption
  <1>8. \/ L = K /\ V = U
        \/ /\ c \in Certs
           /\ \/ K[c] = None /\ L = [K EXCEPT ![c] = L[c]] /\ L[c] \in Nat /\ U[c] = None /\ V = U
              \/ K[c] # None /\ L = K /\ V = [U EXCEPT ![c] = V[c]] /\ V[c] \in Nat
              \/ /\ K[c] # None /\ L = [K EXCEPT ![c] = L[c]] /\ L[c] = None
                 /\ V = [U EXCEPT ![c] = V[c]] /\ V[c] = None
    <2> HIDE DEF K, U, L, V
    <2>1. CASE c \in Certs /\ L[c] = None /\ V[c] = None
      <3>1. CASE K[c] = None
        <4>1. \A o \in Certs : L[o] = K[o] /\ V[o] = U[o]
          BY <2>1, <3>1, <1>2, <1>3
        <4> QED
          BY <4>1, <1>5
      <3> QED
        BY <2>1, <3>1, <1>6
    <2>2. CASE c \in Certs /\ K[c] = None /\ L[c] \in Nat /\ V[c] = None
      <3>1. \A o \in Certs : V[o] = U[o]
        BY <2>2, <1>2, <1>3
      <3>2. V = U
        BY <3>1, <1>5
      <3> QED
        BY <2>2, <3>2, <1>2, <1>6
    <2>3. CASE c \in Certs /\ K[c] # None /\ L[c] = K[c] /\ V[c] \in Nat
      <3>1. \A o \in Certs : L[o] = K[o]
        BY <2>3, <1>3
      <3>2. L = K
        BY <3>1, <1>5
      <3> QED
        BY <2>3, <3>2, <1>6
    <2>4. CASE c \in Certs => L[c] = K[c] /\ V[c] = U[c]
      <3>1. \A o \in Certs : L[o] = K[o] /\ V[o] = U[o]
        BY <2>4, <1>3
      <3> QED
        BY <3>1, <1>5
    <2> QED
      BY Zenon, <1>4, <2>1, <2>2, <2>3, <2>4
  <1>9. Record!lifeVars = <<K, U>> /\ (Record!lifeVars)' = <<L, V>>
    BY <1>1 DEF Record!lifeVars
  <1> QED
    BY ZenonT(40), <1>1, <1>8, <1>9 DEF Lives, Record!LifeNext, Record!Open, Record!Name, Record!Close,
                          Record!OnlyOf, Record!lifeVars

\* A drive that goes on, and the record that stays as it is.
LEMMA GoesOn ==
  ASSUME LifeInv, NEW n \in Nodes, NEW e, DriveOK(e), FoundNone(e, agreed), Becomes(n, e),
         UNCHANGED <<agreed, overlapped>>, IsSeq(ca')
  PROVE  LifeInv' /\ Lives
  <1>1. drive' = [m \in Nodes |-> drive'[m]] /\ \A m \in Nodes : drive'[m] = IF m = n THEN e ELSE drive[m]
    BY DEF LifeInv, Becomes
  <1>2. \A m \in Nodes : DriveOK(drive'[m]) /\ FoundNone(drive'[m], agreed')
    BY <1>1 DEF LifeInv
  <1>3. LifeInv'
    BY <1>1, <1>2 DEF LifeInv
  <1>4. UNCHANGED Record!lifeVars
    BY DEF Record!lifeVars, Promised
  <1> QED
    BY <1>3, <1>4 DEF Lives

\* Nothing of the record and the drives.
LEMMA StaysOn ==
  ASSUME LifeInv, UNCHANGED <<agreed, overlapped, drive>>, IsSeq(ca')
  PROVE  LifeInv' /\ Lives
  <1>1. LifeInv'
    BY DEF LifeInv
  <1>2. UNCHANGED Record!lifeVars
    BY DEF Record!lifeVars, Promised
  <1> QED
    BY <1>1, <1>2 DEF Lives

\* A write that lands.
LEMMA LandsOn ==
  ASSUME LifeInv, NEW n \in Nodes, NEW next, StateOK(next), NEW e, Goes(e),
         Others(drive[n].cert, agreed, next),
         Writes(drive[n].cert, agreed, next, drive[n].stale),
         Land(n, next), drive' = Seen(n, e), ca' = ca
  PROVE  LifeInv' /\ Lives
  <1> DEFINE c == drive[n].cert
  <1>1. drive' = [m \in Nodes |-> drive'[m]]
    BY DEF Seen
  <1>2. ASSUME NEW m \in Nodes
        PROVE  DriveOK(drive'[m]) /\ FoundNone(drive'[m], agreed')
    <2>1. CASE m = n
      BY <2>1 DEF Seen, Goes, FoundNone
    <2>2. CASE m # n
      <3> DEFINE d == drive[m]
                 late == d.stale \/ d.cert = c
                 g == [d EXCEPT !.stale = late]
      <3>1. drive'[m] = g /\ DriveOK(d) /\ FoundNone(d, agreed)
        BY <2>2 DEF Seen, LifeInv
      <3>2. DriveOK(g) /\ g.pc = d.pc
        BY <3>1, StaleOK
      <3>3. g.cert = d.cert /\ (~g.stale => ~d.stale /\ d.cert # c)
        BY Zenon, <3>1 DEF DriveOK, DriveFields
      <3>4. FoundNone(g, next)
        <4> HIDE DEF d, g, late, c
        <4>1. Others(c, agreed, next)
          BY DEF c
        <4> QED
          BY <3>1, <3>2, <3>3, <4>1 DEF FoundNone, Others
      <3>5. agreed' = next
        BY DEF Land
      <3> QED
        BY <3>1, <3>2, <3>4, <3>5
    <2> QED
      BY <2>1, <2>2
  <1>3. agreed' = next /\ StateOK(agreed')
    BY DEF Land
  <1>4. LifeInv'
    BY <1>1, <1>2, <1>3 DEF LifeInv
  <1>5. Lives
    BY <1>3, WriteLives DEF LifeInv, Land
  <1> QED
    BY <1>4, <1>5

\* An update, whether it lands, is refused, or lands and is reported refused.
LEMMA UpdateOK ==
  ASSUME LifeInv, NEW n \in Nodes, NEW next, StateOK(next), NEW ok, NEW no, Goes(ok), Goes(no),
         Others(drive[n].cert, agreed, next),
         Writes(drive[n].cert, agreed, next, drive[n].stale),
         Update(n, next, ok, no), ca' = ca
  PROVE  LifeInv' /\ Lives
  <1>1. IsSeq(ca') /\ DriveOK(no) /\ FoundNone(no, agreed)
    BY DEF LifeInv, Goes, FoundNone
  <1>2. \/ Land(n, next) /\ drive' = Seen(n, ok)
        \/ Land(n, next) /\ drive' = Seen(n, no)
        \/ Becomes(n, no) /\ UNCHANGED <<agreed, overlapped>>
    BY DEF Update, Proceeds
  <1> QED
    BY <1>1, <1>2, LandsOn, GoesOn

(***************************************************************************)
(* The orders of the authority and the keys that are drawn.                *)
(***************************************************************************)

\* A sequence of anything.
LEMMA SeqIs ==
  ASSUME NEW T, NEW q \in Seq(T)
  PROVE  IsSeq(q) /\ Len(q) \in Nat /\ DOMAIN q = 1..Len(q)
  <1>1. /\ Len(q) \in Nat /\ DOMAIN q = 1..Len(q)
        /\ q \in [1..Len(q) -> {q[i] : i \in DOMAIN q}]
    OBVIOUS
  <1> QED
    BY <1>1 DEF IsSeq

\* A sequence with a place set is one,
LEMMA SeqExceptIs ==
  ASSUME NEW s, IsSeq(s), NEW u, NEW v
  PROVE  IsSeq([s EXCEPT ![u] = v])
  <1> DEFINE T == {s[i] : i \in DOMAIN s} \cup {v}
  <1>1. s \in Seq(T) /\ v \in T
    <2>1. s \in Seq({s[i] : i \in DOMAIN s})
      BY DEF IsSeq
    <2> QED
      BY <2>1
  <1> HIDE DEF T
  <1>2. CASE u \in 1..Len(s)
    <2>1. s \in [1..Len(s) -> T] /\ Len(s) \in Nat
      BY <1>1
    <2>2. [s EXCEPT ![u] = v] \in [1..Len(s) -> T]
      BY <1>1, <1>2, <2>1
    <2>3. [s EXCEPT ![u] = v] \in Seq(T)
      BY <2>1, <2>2
    <2> QED
      BY <2>3, SeqIs, Zenon
  <1>3. CASE u \notin 1..Len(s)
    <2>1. [s EXCEPT ![u] = v] = s
      BY <1>1, <1>3
    <2> QED
      BY <2>1
  <1> QED
    BY <1>2, <1>3

\* and so is one with an element more.
LEMMA SeqAppendIs ==
  ASSUME NEW s, IsSeq(s), NEW v
  PROVE  IsSeq(Append(s, v)) /\ Len(Append(s, v)) \in Nat
  <1> DEFINE T == {s[i] : i \in DOMAIN s} \cup {v}
  <1>1. s \in Seq(T) /\ v \in T
    <2>1. s \in Seq({s[i] : i \in DOMAIN s})
      BY DEF IsSeq
    <2> QED
      BY <2>1
  <1> HIDE DEF T
  <1>2. Append(s, v) \in Seq(T)
    BY <1>1
  <1> QED
    BY Zenon, <1>2, SeqIs

(***************************************************************************)
(* The writes.                                                             *)
(***************************************************************************)

\* A write says nothing of the record of a certificate, or of any.
Same(a, b) == \A o \in Certs : b.keys[o] = a.keys[o] /\ b.orders[o] = a.orders[o]

\* A document takes the place of the one that is there.
LEMMA ConfigOK ==
  ASSUME NEW a, StateOK(a), NEW v, NEW S \in SUBSET Certs
  PROVE  /\ StateOK([a EXCEPT !.config = S]) /\ Same(a, [a EXCEPT !.config = S])
         /\ StateOK([a EXCEPT !.account = v, !.config = S])
         /\ Same(a, [a EXCEPT !.account = v, !.config = S])
  <1> DEFINE b == [a EXCEPT !.config = S]
             e == [a EXCEPT !.account = v, !.config = S]
  <1>1. /\ b = [x \in StateFields |-> b[x]] /\ b.config = S /\ b.keys = a.keys
        /\ b.orders = a.orders
    BY DEF StateOK, StateFields
  <1>2. /\ e = [x \in StateFields |-> e[x]] /\ e.config = S /\ e.keys = a.keys
        /\ e.orders = a.orders
    BY Zenon DEF StateOK, StateFields
  <1> HIDE DEF b, e
  <1>3. StateOK(b) /\ Same(a, b) /\ StateOK(e) /\ Same(a, e)
    BY Zenon, <1>1, <1>2 DEF StateOK, Same
  <1> QED
    BY <1>3 DEF b, e

\* What the writes of a drive make of the state: a record that begins or ends,
\* one that names an order, a certificate beside the record it came of.
Rewritten(a, c, k) == [a EXCEPT !.keys[c] = k, !.orders[c] = NoRecord]
Filed(a, c, u, w) == [a EXCEPT !.orders[c] = [url |-> u, answers |-> w]]
Stored(a, c, v) == [a EXCEPT !.served[c] = v, !.config = @ \cup {c}]

\* A key and a record of one certificate change together.
LEMMA RewrittenOK ==
  ASSUME NEW a, StateOK(a), NEW c \in Certs, NEW k \in Url
  PROVE  /\ StateOK(Rewritten(a, c, k)) /\ Others(c, a, Rewritten(a, c, k))
         /\ Rewritten(a, c, k).keys[c] = k /\ Rewritten(a, c, k).orders[c].url = None
  <1> DEFINE b == Rewritten(a, c, k)
             K == [a.keys EXCEPT ![c] = k]
             O == [a.orders EXCEPT ![c] = NoRecord]
  <1>1. /\ b = [x \in StateFields |-> b[x]] /\ b.config = a.config /\ b.keys = K
        /\ b.orders = O
    BY Zenon DEF StateOK, StateFields, Rewritten
  <1>2. /\ K \in [Certs -> Url] /\ K[c] = k /\ \A o \in Certs \ {c} : K[o] = a.keys[o]
        /\ O = [o \in Certs |-> O[o]] /\ O[c].url = None
        /\ \A o \in Certs \ {c} : O[o] = a.orders[o]
    BY Zenon DEF StateOK, NoRecord
  <1>3. None \in Url
    BY DEF Url
  <1> HIDE DEF b, K, O
  <1>4. StateOK(b) /\ Others(c, a, b) /\ b.keys[c] = k /\ b.orders[c].url = None
    BY ZenonT(60), <1>1, <1>2, <1>3 DEF StateOK, Others
  <1> QED
    BY <1>4 DEF b

\* An order is named in a record that is there.
LEMMA FiledOK ==
  ASSUME NEW a, StateOK(a), NEW c \in Certs, a.keys[c] # None, NEW u \in Nat, NEW w
  PROVE  /\ StateOK(Filed(a, c, u, w)) /\ Others(c, a, Filed(a, c, u, w))
         /\ Filed(a, c, u, w).keys[c] = a.keys[c] /\ Filed(a, c, u, w).orders[c].url = u
         /\ Filed(a, c, u, w).orders[c].answers = w
  <1> DEFINE b == Filed(a, c, u, w)
             O == [a.orders EXCEPT ![c] = [url |-> u, answers |-> w]]
  <1>1. /\ b = [x \in StateFields |-> b[x]] /\ b.config = a.config /\ b.keys = a.keys
        /\ b.orders = O
    BY DEF StateOK, StateFields, Filed
  <1>2. /\ O = [o \in Certs |-> O[o]] /\ O[c].url = u /\ O[c].answers = w
        /\ \A o \in Certs \ {c} : O[o] = a.orders[o]
    BY Zenon DEF StateOK
  <1>3. u \in Url
    BY DEF Url
  <1> HIDE DEF b, O
  <1>4. /\ StateOK(b) /\ Others(c, a, b) /\ b.keys[c] = a.keys[c] /\ b.orders[c].url = u
        /\ b.orders[c].answers = w
    BY Zenon, <1>1, <1>2, <1>3 DEF StateOK, Others
  <1> QED
    BY <1>4 DEF b

\* The certificate that came of an order is stored beside its record.
LEMMA StoredOK ==
  ASSUME NEW a, StateOK(a), NEW c \in Certs, NEW v
  PROVE  /\ StateOK(Stored(a, c, v)) /\ Stored(a, c, v).keys = a.keys
         /\ Stored(a, c, v).orders = a.orders
  <1> DEFINE b == Stored(a, c, v)
             S == a.config \cup {c}
  <1>1. /\ b = [x \in StateFields |-> b[x]] /\ b.config = S /\ b.keys = a.keys
        /\ b.orders = a.orders
    BY Zenon DEF StateOK, StateFields, Stored
  <1>2. S \subseteq Certs
    BY DEF StateOK
  <1> HIDE DEF b, S
  <1>3. StateOK(b)
    BY Zenon, <1>1, <1>2 DEF StateOK
  <1> QED
    BY <1>1, <1>3 DEF b

(***************************************************************************)
(* The steps.                                                              *)
(***************************************************************************)

\* A drive that goes on while nothing else does.
LEMMA GoesHere ==
  ASSUME LifeInv, NEW n \in Nodes, NEW e, Goes(e), Becomes(n, e),
         UNCHANGED <<agreed, overlapped, ca>>
  PROVE  LifeInv' /\ Lives
  <1>1. IsSeq(ca') /\ DriveOK(e) /\ FoundNone(e, agreed)
    BY DEF LifeInv, Goes, FoundNone
  <1> QED
    BY <1>1, GoesOn

\* The drive of a node, and the certificate it is about.
LEMMA DriveIs ==
  ASSUME LifeInv, NEW n \in Nodes
  PROVE  /\ DriveOK(drive[n]) /\ FoundNone(drive[n], agreed)
         /\ drive[n].pc \notin {"idle", "next"} => drive[n].cert \in Certs
  BY DEF LifeInv, DriveOK

\* A sweep that starts, with the document that is there.
LEMMA StartedOK ==
  ASSUME NEW S \in SUBSET Certs, NEW v, NEW w
  PROVE  Goes([Idle EXCEPT !.pc = "next", !.wanted = v, !.config = S, !.ready = w])
  BY ZenonT(60), FreshOK DEF Goes, DriveOK, DriveFields, Idle, Nothing, Url

\* What the renewal pass does before and after an order writes no record.
LEMMA SweepingLives ==
  ASSUME LifeInv, NEW n \in Nodes, Sweeping(n)
  PROVE  LifeInv' /\ Lives
  <1> DEFINE d == drive[n]
             w == Tail(d.wanted)
             c == Head(d.wanted)
  <1>0. DriveOK(d) /\ d.config \subseteq Certs
    BY Zenon, DriveIs DEF DriveOK
  <1>1. CASE StartSweep(n)
    <2> DEFINE v == Wanted
               r == Certs \ waits[n]
               e == [Idle EXCEPT !.pc = "next", !.wanted = v, !.config = agreed.config, !.ready = r]
    <2>1. Becomes(n, e) /\ UNCHANGED <<agreed, overlapped, ca>>
      BY <1>1 DEF StartSweep, outside
    <2> HIDE DEF v, r
    <2>2. Goes(e)
      BY Zenon, StartedOK DEF LifeInv, StateOK
    <2> QED
      BY <2>1, <2>2, GoesHere
  <1>2. CASE SkipOrder(n)
    <2> DEFINE e == [d EXCEPT !.wanted = w]
    <2>1. Becomes(n, e) /\ UNCHANGED <<agreed, overlapped, ca>> /\ d.pc = "next"
      BY <1>2 DEF SkipOrder, outside, At
    <2> HIDE DEF d, w
    <2>2. Goes(e)
      BY <1>0, <2>1, WantedOK DEF Goes
    <2> QED
      BY <2>1, <2>2, GoesHere
  <1>3. CASE UnknownCertificate(n)
    <2> DEFINE f == d.failed \cup {c}
               e == [d EXCEPT !.wanted = w, !.failed = f]
    <2>1. Becomes(n, e) /\ UNCHANGED <<agreed, overlapped, ca>> /\ d.pc = "next"
      BY <1>3 DEF UnknownCertificate, outside, At
    <2> HIDE DEF d, w, f
    <2>2. Goes(e)
      BY Zenon, <1>0, <2>1, UnknownOK DEF Goes
    <2> QED
      BY <2>1, <2>2, GoesHere
  <1>4. CASE BeginOrder(n)
    <2> DEFINE g == [d EXCEPT !.wanted = w, !.cert = c]
               a == [g EXCEPT !.pc = "make_account"]
               b == [g EXCEPT !.pc = "open", !.account = agreed.account]
    <2>1. /\ Becomes(n, a) \/ Becomes(n, b)
          /\ UNCHANGED <<agreed, overlapped, ca>>
      BY <1>4 DEF BeginOrder, outside
    <2>2. d.pc = "next" /\ g.cert \in g.config
      BY <1>4 DEF BeginOrder, At
    <2> HIDE DEF d, w, c
    <2>3. DriveOK(g) /\ g.config = d.config
      BY Zenon, <1>0, <2>2 DEF DriveOK, DriveFields
    <2> HIDE DEF g
    <2>4. g.cert \in Certs
      BY <1>0, <2>2, <2>3
    <2>5. Goes(a) /\ Goes(b)
      BY Zenon, <2>3, <2>4, PlaceOK, PlaceAccountOK
    <2> QED
      BY <2>1, <2>5, GoesHere
  <1>5. CASE EndSweep(n)
    <2>1. Becomes(n, Idle) /\ UNCHANGED <<agreed, overlapped, ca>>
      BY <1>5 DEF EndSweep, outside
    <2> QED
      BY <2>1, IdleOK, GoesHere
  <1> QED
    BY <1>1, <1>2, <1>3, <1>4, <1>5 DEF Sweeping

\* There is a key to draw wherever a record is opened with one.
LEMMA KeyIsDrawn ==
  ASSUME NEW n, OpenOrder(n)
  PROVE  NewKey \in Nat
  BY AcmeOrderAssumption DEF OpenOrder, NewKey

\* Up to the first question: the record is opened with a key, or taken over.
LEMMA OpeningLives ==
  ASSUME LifeInv, NEW n \in Nodes,
         MakeAccountKey(n) \/ FindOrder(n) \/ TakeOver(n) \/ OpenOrder(n)
  PROVE  LifeInv' /\ Lives
  <1> DEFINE d == drive[n]
             c == d.cert
  <1>0. DriveOK(d) /\ (d.pc \notin {"idle", "next"} => c \in Certs) /\ StateOK(agreed)
    BY DriveIs DEF LifeInv
  <1>1. CASE MakeAccountKey(n)
    <2> DEFINE next == [agreed EXCEPT !.account = n, !.config = d.config]
               e == [d EXCEPT !.pc = "open", !.account = n]
    <2>1. Update(n, next, e, Fails(d)) /\ ca' = ca
      BY <1>1 DEF MakeAccountKey, outside
    <2>2. d.pc = "make_account"
      BY <1>1 DEF MakeAccountKey, At
    <2>3. d.config \in SUBSET Certs
      BY Zenon, <1>0 DEF DriveOK
    <2>4. Goes(e) /\ Goes(Fails(d))
      <3> HIDE DEF d
      <3> QED
        BY Zenon, <1>0, <2>2, PlaceAccountOK, LeftOK DEF c
    <2>5. StateOK(next) /\ Same(agreed, next)
      <3> HIDE DEF d
      <3> QED
        BY Zenon, <1>0, <2>3, ConfigOK
    <2> HIDE DEF next, e
    <2>6. Others(c, agreed, next) /\ Writes(c, agreed, next, d.stale)
      BY Zenon, <2>5 DEF Same, Others, Writes
    <2> QED
      BY <2>1, <2>4, <2>5, <2>6, UpdateOK
  <1>2. CASE FindOrder(n)
    <2> DEFINE u == agreed.orders[c].url
               e == [d EXCEPT !.pc = "open_new"]
               g == [d EXCEPT !.pc = "take_over", !.url = u]
    <2>1. /\ Becomes(n, IF agreed.keys[c] = None THEN e ELSE g)
          /\ UNCHANGED <<agreed, overlapped, ca>>
      BY <1>2 DEF FindOrder, outside
    <2>2. d.pc = "open" /\ c \in Certs /\ u \in Url
      BY Zenon, <1>0, <1>2 DEF FindOrder, At, StateOK
    <2>3. Goes(g)
      <3> HIDE DEF u, d
      <3> QED
        BY Zenon, <1>0, <2>2, PlaceUrlOK DEF c
    <2>4. DriveOK(e) /\ e.cert = c
      <3> HIDE DEF d
      <3> QED
        BY <1>0, <2>2 DEF DriveOK, DriveFields, c
    <2> HIDE DEF e, g, u
    <2>5. CASE agreed.keys[c] = None
      <3>1. FoundNone(e, agreed) /\ IsSeq(ca') /\ Becomes(n, e)
        BY <2>1, <2>4, <2>5 DEF FoundNone, LifeInv
      <3> QED
        BY Zenon, <2>1, <2>4, <3>1, GoesOn
    <2>6. CASE agreed.keys[c] # None
      BY Zenon, <2>1, <2>3, <2>6, GoesHere
    <2> QED
      BY <2>5, <2>6
  <1>3. CASE TakeOver(n)
    <2> DEFINE k == agreed.keys[c]
               g == [d EXCEPT !.key = k]
    <2>1. /\ Becomes(n, Fails(d)) \/ Becomes(n, Attempt(g, 1))
          /\ UNCHANGED <<agreed, overlapped, ca>>
      BY <1>3 DEF TakeOver, Proceeds, outside
    <2>2. c \in Certs
      BY <1>0, <1>3 DEF TakeOver, At
    <2>3. DriveOK(g) /\ g.cert \in Certs
      <3> HIDE DEF d, k
      <3> QED
        BY <1>0, <2>2, KeyOK DEF c
    <2> HIDE DEF g
    <2>4. Goes(Fails(d)) /\ Goes(Attempt(g, 1))
      <3> HIDE DEF d
      <3> QED
        BY <1>0, <2>3, LeftOK, AttemptOK
    <2> QED
      BY <2>1, <2>4, GoesHere
  <1>4. CASE OpenOrder(n)
    <2> DEFINE k == NewKey
               g == [d EXCEPT !.key = k]
               next == Rewritten(agreed, c, k)
    <2>1. Update(n, next, Attempt(g, 1), Fails(d)) /\ ca' = ca
      BY <1>4 DEF OpenOrder, outside, Rewritten
    <2>2. d.pc = "open_new" /\ c \in Certs
      BY <1>0, <1>4 DEF OpenOrder, At
    <2>3. k \in Nat
      BY <1>4, KeyIsDrawn
    <2> HIDE DEF k
    <2>4. DriveOK(g) /\ g.cert \in Certs
      <3> HIDE DEF d
      <3> QED
        BY <1>0, <2>2, KeyOK DEF c
    <2> HIDE DEF g
    <2>5. Goes(Attempt(g, 1)) /\ Goes(Fails(d))
      <3> HIDE DEF d
      <3> QED
        BY <1>0, <2>4, LeftOK, AttemptOK
    <2>6. StateOK(next) /\ Others(c, agreed, next) /\ next.keys[c] = k /\ next.orders[c].url = None
      <3>1. k \in Url
        BY <2>3 DEF Url
      <3> HIDE DEF c
      <3> QED
        BY <1>0, <2>2, <3>1, RewrittenOK
    <2> HIDE DEF next
    <2>7. d.stale \/ agreed.keys[c] = None
      BY Zenon, <2>2, DriveIs DEF FoundNone
    <2>8. Writes(c, agreed, next, d.stale)
      <3> HIDE DEF d, c
      <3> QED
        BY Zenon, <2>2, <2>3, <2>6, <2>7 DEF Writes
    <2> QED
      BY Zenon, <2>1, <2>5, <2>6, <2>8, UpdateOK
  <1> QED
    BY <1>1, <1>2, <1>3, <1>4

\* What is reached is recorded and published.
LEMMA RecordingLives ==
  ASSUME LifeInv, NEW n \in Nodes,
         \/ FileReached(n) \/ RecordWentAway(n) \/ Reachable(n) \/ NotReachable(n)
         \/ WriteRecords(n) \/ RecordsNotSeen(n) \/ ProviderFails(n)
  PROVE  LifeInv' /\ Lives
  <1> DEFINE d == drive[n]
             c == d.cert
             v == d.live.up
             e == [d EXCEPT !.up = v]
  <1>0. DriveOK(d) /\ (d.pc \notin {"idle", "next"} => c \in Certs) /\ StateOK(agreed)
    BY DriveIs DEF LifeInv
  <1>1. CASE FileReached(n)
    <2> DEFINE u == d.live.url
               w == IF kind = "http-01" THEN d.live.up ELSE {}
               next == Filed(agreed, c, u, w)
               no == RecordFailed(d, "no_quorum")
    <2>1. Update(n, next, Publish(d), no) /\ ca' = ca
      BY <1>1 DEF FileReached, outside, Filed
    <2>2. d.pc = "file" /\ agreed.keys[c] # None
      BY <1>1 DEF FileReached, At
    <2>3. c \in Certs /\ u \in Nat
      BY Zenon, <1>0, <2>2 DEF DriveOK, Url
    <2>4. Goes(Publish(d)) /\ Goes(no)
      <3> HIDE DEF d
      <3> QED
        BY <1>0, <2>3, PublishOK, RecordFailedOK DEF c
    <2> HIDE DEF u, w
    <2>5. /\ StateOK(next) /\ Others(c, agreed, next) /\ next.keys[c] = agreed.keys[c]
          /\ next.orders[c].url = u
      <3> HIDE DEF c
      <3> QED
        BY <1>0, <2>2, <2>3, FiledOK
    <2> HIDE DEF next, no
    <2>6. Writes(c, agreed, next, d.stale)
      <3> HIDE DEF d, c
      <3> QED
        BY Zenon, <2>2, <2>3, <2>5 DEF Writes
    <2> QED
      BY Zenon, <2>1, <2>4, <2>5, <2>6, UpdateOK
  <1>2. CASE RecordWentAway(n)
    <2> DEFINE no == RecordFailed(d, "configuration")
    <2>1. Becomes(n, no) /\ UNCHANGED <<agreed, overlapped, ca>>
      BY Zenon, <1>2 DEF RecordWentAway, Proceeds, outside
    <2>2. c \in Certs
      BY Zenon, <1>0, <1>2 DEF RecordWentAway, At
    <2>3. Goes(no)
      <3> HIDE DEF d
      <3> QED
        BY <1>0, <2>2, RecordFailedOK DEF c
    <2> HIDE DEF no
    <2> QED
      BY <2>1, <2>3, GoesHere
  <1>3. CASE \/ Reachable(n) \/ NotReachable(n) \/ WriteRecords(n) \/ RecordsNotSeen(n)
             \/ ProviderFails(n)
    <2> DEFINE a == RecordFailed(e, "configuration")
               b == RecordFailed(e, "challenge")
               g == RecordFailed(e, "network")
    <2>1. /\ Becomes(n, RecordDone(e)) \/ Becomes(n, a) \/ Becomes(n, b) \/ Becomes(n, g)
          /\ UNCHANGED <<agreed, overlapped, ca>>
      BY Zenon, <1>3 DEF Reachable, NotReachable, WriteRecords, RecordsNotSeen, ProviderFails,
                            Proceeds, outside
    <2>2. d.pc = "publish"
      BY Zenon, <1>3 DEF Reachable, NotReachable, WriteRecords, RecordsNotSeen, ProviderFails, At
    <2>3. DriveOK(e) /\ e.cert \in Certs
      <3> HIDE DEF d, v
      <3> QED
        BY <1>0, <2>2, UpOK DEF c
    <2> HIDE DEF e
    <2>4. Goes(RecordDone(e)) /\ Goes(a) /\ Goes(b) /\ Goes(g)
      BY <2>3, RecordDoneOK, RecordFailedOK
    <2> HIDE DEF a, b, g
    <2> QED
      BY <2>1, <2>4, GoesHere
  <1> QED
    BY <1>1, <1>2, <1>3

\* What the order came to.
LEMMA EndingLives ==
  ASSUME LifeInv, NEW n \in Nodes,
         StoreCertificate(n) \/ CloseOrder(n) \/ NothingToClose(n)
  PROVE  LifeInv' /\ Lives
  <1> DEFINE d == drive[n]
             c == d.cert
             b == Rewritten(agreed, c, None)
  <1>0. DriveOK(d) /\ StateOK(agreed)
    BY DriveIs DEF LifeInv
  <1>1. c \in Certs
    BY DriveIs DEF StoreCertificate, CloseOrder, NothingToClose, At
  <1>2. Goes(Fails(d)) /\ Goes(Succeeds(d))
    <2> HIDE DEF d
    <2> QED
      BY <1>0, LeftOK
  <1>3. StateOK(b) /\ Others(c, agreed, b) /\ b.keys[c] = None /\ b.orders[c].url = None
    <2>1. None \in Url
      BY DEF Url
    <2> HIDE DEF c
    <2> QED
      BY <1>0, <1>1, <2>1, RewrittenOK
  <1>4. CASE StoreCertificate(n)
    <2> DEFINE next == Stored(b, c, d.key)
    <2>1. Update(n, next, Succeeds(d), Fails(d)) /\ ca' = ca
      BY <1>4 DEF StoreCertificate, outside, Stored, Rewritten, Without
    <2>2. StateOK(next) /\ next.keys = b.keys /\ next.orders = b.orders
      <3> HIDE DEF b, c
      <3> QED
        BY Zenon, <1>1, <1>3, StoredOK
    <2> HIDE DEF next, b
    <2>3. Others(c, agreed, next) /\ Writes(c, agreed, next, d.stale)
      <3> HIDE DEF c, d
      <3> QED
        BY Zenon, <1>1, <1>3, <2>2 DEF Others, Writes
    <2> QED
      BY Zenon, <1>2, <2>1, <2>2, <2>3, UpdateOK
  <1>5. CASE CloseOrder(n)
    <2>1. Update(n, b, Fails(d), Fails(d)) /\ ca' = ca
      BY <1>5 DEF CloseOrder, outside, Rewritten, Without
    <2> HIDE DEF b
    <2>2. Writes(c, agreed, b, d.stale)
      <3> HIDE DEF c, d
      <3> QED
        BY Zenon, <1>1, <1>3 DEF Writes
    <2> QED
      BY Zenon, <1>2, <1>3, <2>1, <2>2, UpdateOK
  <1>6. CASE NothingToClose(n)
    <2>1. Becomes(n, Fails(d)) /\ UNCHANGED <<agreed, overlapped, ca>>
      BY Zenon, <1>6 DEF NothingToClose, Proceeds, outside
    <2> QED
      BY <1>2, <2>1, GoesHere
  <1> QED
    BY <1>4, <1>5, <1>6

\* An ask leaves the authority with a sequence of orders.
LEMMA AuthorityOK ==
  ASSUME IsSeq(ca), NEW n, NEW reuse
  PROVE  /\ IsSeq(AuthorityAfter(n, reuse))
         /\ drive[n].flow.stage = "order" => Len(AuthorityAfter(n, reuse)) \in Nat
  <1> DEFINE d == drive[n]
             u == d.flow.order
             x == d.flow.challenge[2]
             o == Placed(d, reuse)
             v == [ca[u] EXCEPT !.authz[x] = IF @ = "pending" THEN "told" ELSE @]
             b == [ca EXCEPT ![u].status = "processing"]
             r == [ca[u] EXCEPT !.status = "processing"]
             k == d.key
             s == [b[u] EXCEPT !.key = k]
  <1>1. CASE d.flow.stage = "order"
    <2>1. AuthorityAfter(n, reuse) = Append(ca, o)
      BY <1>1 DEF AuthorityAfter
    <2> HIDE DEF o
    <2> QED
      BY <2>1, SeqAppendIs
  <1>2. CASE d.flow.stage = "accept"
    <2>1. AuthorityAfter(n, reuse) = [ca EXCEPT ![u] = v]
      BY <1>2 DEF AuthorityAfter
    <2>2. d.flow.stage # "order"
      BY <1>2
    <2> HIDE DEF v, d, u
    <2>3. IsSeq([ca EXCEPT ![u] = v])
      BY SeqExceptIs, Zenon
    <2> QED
      BY <2>1, <2>2, <2>3 DEF d
  <1>3. CASE d.flow.stage = "finalize"
    <2>1. AuthorityAfter(n, reuse) = [b EXCEPT ![u] = s]
      BY <1>3 DEF AuthorityAfter
    <2>2. b = [ca EXCEPT ![u] = r]
      OBVIOUS
    <2>3. d.flow.stage # "order"
      BY <1>3
    <2> HIDE DEF b, s, r, d, u
    <2>4. IsSeq(b)
      BY <2>2, SeqExceptIs, Zenon
    <2>5. IsSeq([b EXCEPT ![u] = s])
      BY <2>4, SeqExceptIs, Zenon
    <2> QED
      BY <2>1, <2>3, <2>5 DEF d
  <1>4. CASE d.flow.stage \notin {"order", "accept", "finalize"}
    BY Zenon, <1>4 DEF AuthorityAfter
  <1> QED
    BY Zenon, <1>1, <1>2, <1>3, <1>4

\* A drive that goes on after an ask.
LEMMA AskingLives ==
  ASSUME LifeInv, NEW n \in Nodes, Ask(n) \/ AskRefused(n) \/ AskLost(n) \/ NonceRefused(n)
  PROVE  LifeInv' /\ Lives
  <1> DEFINE d == drive[n]
  <1>0. d.pc = "ask"
    BY Zenon DEF Ask, AskRefused, AskLost, NonceRefused, At
  <1>1. DriveOK(d) /\ d.cert \in Certs /\ FlowOK(d.flow) /\ IsSeq(ca)
    BY Zenon, <1>0, DriveIs DEF LifeInv, DriveOK
  <1>2. UNCHANGED <<agreed, overlapped>>
    BY Zenon DEF Ask, AskRefused, AskLost, NonceRefused, outside
  <1>3. ASSUME NEW e, Goes(e), Becomes(n, e), IsSeq(ca')
        PROVE  LifeInv' /\ Lives
    <2>1. DriveOK(e) /\ FoundNone(e, agreed)
      BY Zenon, <1>3 DEF Goes, FoundNone
    <2> QED
      BY <1>2, <1>3, <2>1, GoesOn
  <1>4. CASE Ask(n)
    <2>1. PICK reuse \in BOOLEAN :
             LET after == AuthorityAfter(n, reuse)
             IN  ca' = after /\ Becomes(n, Read(d, Accept(d.flow, Document(n, after))))
      BY Zenon, <1>4 DEF Ask, Proceeds
    <2> DEFINE after == AuthorityAfter(n, reuse)
               a == Document(n, after)
               r == Accept(d.flow, a)
               e == Read(d, r)
    <2>2. IsSeq(after) /\ (d.flow.stage = "order" => Len(after) \in Nat)
      BY Zenon, <1>1, AuthorityOK
    <2>3. ca' = after /\ Becomes(n, e)
      BY <2>1
    <2> HIDE DEF after
    <2>4. d.flow.stage = "order" => a.order \in Nat
      BY Zenon, <2>2 DEF Document
    <2> HIDE DEF a, d
    <2>5. FlowOK(r.flow) /\ (d.flow.order # None => r.flow.order # None)
      BY Zenon, <1>1, <2>4, AcceptOK
    <2> HIDE DEF r
    <2>6. Goes(e)
      BY Zenon, <1>0, <1>1, <2>5, ReadOK
    <2> HIDE DEF e
    <2> QED
      BY <1>3, <2>2, <2>3, <2>6
  <1>5. CASE AskRefused(n) \/ AskLost(n)
    <2> DEFINE e == DriveOver(d, "server")
               g == DriveOver(d, "network")
               after == AuthorityAfter(n, FALSE)
    <2>1. (Becomes(n, e) \/ Becomes(n, g)) /\ (ca' = ca \/ ca' = after)
      BY Zenon, <1>5 DEF AskRefused, AskLost, Proceeds, outside
    <2>2. IsSeq(after)
      BY Zenon, <1>1, AuthorityOK
    <2>3. Goes(e) /\ Goes(g)
      <3> HIDE DEF d
      <3> QED
        BY <1>1, DriveOverOK
    <2> HIDE DEF e, g, after, d
    <2> QED
      BY <1>1, <1>3, <2>1, <2>2, <2>3
  <1>6. CASE NonceRefused(n)
    <2> DEFINE v == d.rejected + 1
               e == DriveOver(d, "server")
               g == [d EXCEPT !.rejected = v]
    <2>1. (Becomes(n, e) \/ Becomes(n, g)) /\ ca' = ca
      BY <1>6 DEF NonceRefused, Proceeds, outside
    <2> HIDE DEF v
    <2>2. Goes(e) /\ Goes(g)
      <3> HIDE DEF d
      <3> QED
        BY <1>0, <1>1, DriveOverOK, RejectedOK DEF Goes
    <2> HIDE DEF e, g, d
    <2> QED
      BY <1>1, <1>3, <2>1, <2>2
  <1> QED
    BY <1>4, <1>5, <1>6

\* The node processes, the operator, the authority, time.
LEMMA OutsideLives ==
  ASSUME LifeInv,
         \/ \E n \in Nodes : PublishAnswers(n) \/ Stop(n) \/ Elect(n) \/ WaitOver(n)
         \/ Deciding
         \/ \E S \in SUBSET Certs : Apply(S)
         \/ UNCHANGED vars
  PROVE  LifeInv' /\ Lives
  <1>0. IsSeq(ca) /\ StateOK(agreed)
    BY DEF LifeInv
  <1>1. ASSUME NEW n \in Nodes, Stop(n)
        PROVE  LifeInv' /\ Lives
    <2>1. Becomes(n, Idle) /\ UNCHANGED <<agreed, overlapped, ca>>
      BY <1>1 DEF Stop
    <2> QED
      BY <2>1, IdleOK, GoesHere
  <1>2. CASE \/ \E n \in Nodes : PublishAnswers(n) \/ Elect(n) \/ WaitOver(n)
             \/ UNCHANGED vars
    <2>1. UNCHANGED <<agreed, overlapped, drive, ca>>
      BY Zenon, <1>2 DEF PublishAnswers, Elect, WaitOver, vars, outside
    <2> QED
      BY <1>0, <2>1, StaysOn
  <1>3. ASSUME NEW u \in DOMAIN ca, NEW x, NEW n \in Nodes, Check(u, x, n)
        PROVE  LifeInv' /\ Lives
    <2>1. PICK v : ca' = [ca EXCEPT ![u] = v]
      BY Zenon, <1>3 DEF Check
    <2>2. UNCHANGED <<agreed, overlapped, drive>>
      BY <1>3 DEF Check
    <2>3. IsSeq(ca')
      BY Zenon, <1>0, <2>1, SeqExceptIs
    <2> QED
      BY <2>2, <2>3, StaysOn
  <1>4. ASSUME NEW u \in DOMAIN ca, Issue(u)
        PROVE  LifeInv' /\ Lives
    <2>1. PICK fine \in Issues : ca' = [ca EXCEPT ![u].status = "valid", ![u].usable = fine]
      BY Zenon, <1>4 DEF Issue
    <2> DEFINE r == [ca[u] EXCEPT !.status = "valid"]
               b == [ca EXCEPT ![u] = r]
               s == [b[u] EXCEPT !.usable = fine]
    <2>2. ca' = [b EXCEPT ![u] = s]
      BY <2>1
    <2>3. UNCHANGED <<agreed, overlapped, drive>>
      BY <1>4 DEF Issue
    <2> HIDE DEF r, s
    <2>4. IsSeq(b)
      BY <1>0, SeqExceptIs
    <2> HIDE DEF b
    <2>5. IsSeq(ca')
      BY Zenon, <2>2, <2>4, SeqExceptIs
    <2> QED
      BY <2>3, <2>5, StaysOn
  <1>5. ASSUME NEW S \in SUBSET Certs, Apply(S)
        PROVE  LifeInv' /\ Lives
    <2>1. agreed' = [agreed EXCEPT !.config = S] /\ UNCHANGED <<overlapped, drive, ca>>
      BY <1>5 DEF Apply
    <2>2. StateOK(agreed') /\ Same(agreed, agreed')
      BY Zenon, <1>0, <2>1, ConfigOK
    <2>3. LifeInv'
      BY <2>1, <2>2 DEF LifeInv, Same, FoundNone
    <2>4. UNCHANGED Record!lifeVars
      BY <2>1, <2>2 DEF Record!lifeVars, Promised, Same
    <2> QED
      BY <2>3, <2>4 DEF Lives
  <1> QED
    BY <1>1, <1>2, <1>3, <1>4, <1>5 DEF Deciding

\* Every step of the cluster keeps the invariant and is a step of the life of
\* the records, or none.
LEMMA NextLives ==
  ASSUME LifeInv, [Next]_vars
  PROVE  LifeInv' /\ Lives
  <1>1. ASSUME NEW n \in Nodes, Sweeping(n) \/ Ordering(n)
        PROVE  LifeInv' /\ Lives
    <2>1. CASE Sweeping(n)
      BY <2>1, SweepingLives
    <2>2. CASE Ordering(n)
      BY Zenon, <2>2, OpeningLives, RecordingLives, AskingLives, EndingLives DEF Ordering
    <2> QED
      BY <1>1, <2>1, <2>2
  <1>2. CASE \/ \E n \in Nodes : PublishAnswers(n) \/ Stop(n) \/ Elect(n) \/ WaitOver(n)
             \/ Deciding
             \/ \E S \in SUBSET Certs : Apply(S)
             \/ UNCHANGED vars
    BY <1>2, OutsideLives
  <1> QED
    BY <1>1, <1>2 DEF Next

\* Nothing is open and nothing is driven at first.
LEMMA InitLives ==
  ASSUME Init
  PROVE  LifeInv /\ Record!LifeInit
  <1>1. /\ agreed.config = Certs /\ agreed.keys = [c \in Certs |-> None]
        /\ agreed.orders = [c \in Certs |-> NoRecord]
        /\ agreed = [x \in StateFields |-> agreed[x]]
    BY Zenon DEF Init, StateFields
  <1>2. StateOK(agreed)
    BY <1>1 DEF StateOK, NoRecord, Url
  <1>3. IsSeq(ca)
    <2>1. ca = << >>
      BY Zenon DEF Init
    <2>2. << >> \in Seq({})
      OBVIOUS
    <2> QED
      BY Zenon, <2>1, <2>2, SeqIs
  <1>4. drive = [n \in Nodes |-> drive[n]] /\ \A n \in Nodes : drive[n] = Idle
    BY Zenon DEF Init
  <1>5. \A n \in Nodes : DriveOK(drive[n]) /\ FoundNone(drive[n], agreed)
    BY <1>4, IdleOK DEF Goes, FoundNone
  <1>6. LifeInv
    BY <1>2, <1>3, <1>4, <1>5 DEF LifeInv
  <1>7. \A c \in Certs : agreed.keys[c] = None /\ agreed.orders[c].url = None
    BY <1>1 DEF NoRecord
  <1> QED
    BY <1>6, <1>7 DEF Record!LifeInit

(***************************************************************************)
(* A drive that has its key.                                               *)
(***************************************************************************)

Stages == {"account", "order", "resume", "authorization", "accept", "poll", "finalize",
           "download", "done"}

\* A drive that has its key, and the orders it may ask about or record.
Begun(d) == d.pc \in {"ask", "file", "publish", "store", "close"}
Held(d) == {d.flow.order, d.live.url} \ {None}
Keyed(d) == Begun(d) /\ d.key \in Nat /\ d.attempt \in Nat \ {0} /\ d.flow.stage \in Stages

\* A drive has nothing of an order before its first attempt and after its last,
\* and none asks with a flow that is over.
Shape(d) ==
    /\ ~Begun(d) => d.flow = Fresh /\ d.live = Nothing
    /\ ~Begun(d) /\ d.pc # "take_over" => d.url = None
    /\ Begun(d) => Keyed(d)
    /\ d.pc = "ask" \/ (d.pc \in {"file", "publish"} /\ d.closing = None)
          => d.flow.stage # "done"

\* What becomes of a drive that has its key: it goes on, or leaves the order.
Stays(d, e) == /\ Begun(e) /\ e.cert = d.cert /\ e.key = d.key /\ e.stale = d.stale
               /\ e.url = d.url /\ Held(e) \subseteq Held(d)
Onwards(d, e) == /\ Shape(e)
                 /\ \/ Stays(d, e) /\ e.flow.chain \in {None, d.flow.chain}
                    \/ e.pc = "next"

(***************************************************************************)
(* What an answer makes of its flow, and a step of the drive.              *)
(***************************************************************************)

\* What can be read from a flow: where it stands, its order and its chain.
Reads(f, s, o, c) == f.stage \in s /\ f.order = o /\ f.chain = c

\* Going on to the next authorization or to the order changes the stage.
LEMMA OnwardReads ==
  ASSUME NEW f, FlowOK(f)
  PROVE  Reads(Onward(f), Stages, f.order, f.chain)
  <1>1. /\ Onward(f).stage \in {"poll", "authorization"}
        /\ Onward(f).order = f.order /\ Onward(f).chain = f.chain
    BY DEF Onward, FlowOK, FlowFields
  <1> QED
    BY <1>1 DEF Reads, Stages

\* So does any stage.
LEMMA StageReads ==
  ASSUME NEW f, FlowOK(f), NEW v \in Stages
  PROVE  Reads([f EXCEPT !.stage = v], Stages, f.order, f.chain)
  BY DEF Reads, FlowOK, FlowFields

\* Reading how the order is getting on keeps the order and the chain,
LEMMA ProgressReads ==
  ASSUME NEW f, Named(f), NEW a, f.stage \in Stages
  PROVE  Reads(ReadProgress(f, a).flow, Stages, f.order, f.chain)
  <1> DEFINE more == f.polls + 1
             p == [f EXCEPT !.polls = more]
             q == [f EXCEPT !.polls = more, !.stage = "poll"]
             r == [f EXCEPT !.stage = "download"]
             t == [f EXCEPT !.stage = "finalize"]
  <1>1. \/ ReadProgress(f, a) = Moved(r)
        \/ ReadProgress(f, a) = Moved(t)
        \/ ReadProgress(f, a) = Ended(f, "challenge")
        \/ ReadProgress(f, a) = Ended(p, "network")
        \/ ReadProgress(f, a) = Moved(q)
    BY DEF ReadProgress
  <1> HIDE DEF more
  <1>2. p.stage = f.stage /\ p.order = f.order /\ p.chain = f.chain
    BY DEF Named, FlowOK, FlowFields
  <1>3. q.stage = "poll" /\ q.order = f.order /\ q.chain = f.chain
    BY Zenon DEF Named, FlowOK, FlowFields
  <1>4. Reads(r, Stages, f.order, f.chain) /\ Reads(t, Stages, f.order, f.chain)
    BY Zenon, StageReads DEF Named, Stages
  <1> HIDE DEF p, q, r, t
  <1>5. /\ Reads(p, Stages, f.order, f.chain) /\ Reads(q, Stages, f.order, f.chain)
        /\ Reads(f, Stages, f.order, f.chain)
    BY <1>2, <1>3 DEF Reads, Stages
  <1> QED
    BY <1>1, <1>4, <1>5, Outcomes

\* so does reading one that is taken over,
LEMMA ResumedReads ==
  ASSUME NEW f, Named(f), NEW a, f.stage \in Stages
  PROVE  Reads(ReadResumed(f, a).flow, Stages, f.order, f.chain)
  <1> DEFINE w == a.waiting
             g == [f EXCEPT !.waiting = w]
             h == [g EXCEPT !.stage = "download"]
             t == [g EXCEPT !.stage = "finalize"]
             p == [g EXCEPT !.stage = "poll"]
             o == Onward(g)
  <1>1. \/ ReadResumed(f, a) = Moved(h)
        \/ ReadResumed(f, a) = Moved(t)
        \/ ReadResumed(f, a) = Moved(o)
        \/ ReadResumed(f, a) = Moved(p)
        \/ ReadResumed(f, a) = Ended(g, "challenge")
    BY DEF ReadResumed
  <1>2. FlowOK(g)
    BY NamedWaiting DEF Named
  <1>3. g.stage = f.stage /\ g.order = f.order /\ g.chain = f.chain
    BY DEF Named, FlowOK, FlowFields
  <1> HIDE DEF g
  <1>4. /\ Reads(h, Stages, f.order, f.chain) /\ Reads(t, Stages, f.order, f.chain)
        /\ Reads(p, Stages, f.order, f.chain)
    BY Zenon, <1>2, <1>3, StageReads DEF Stages
  <1>5. Reads(o, Stages, f.order, f.chain) /\ Reads(g, Stages, f.order, f.chain)
    BY <1>2, <1>3, OnwardReads DEF Reads
  <1> HIDE DEF h, t, p, o
  <1> QED
    BY <1>1, <1>4, <1>5, Outcomes

\* and an authorization.
LEMMA AuthorizationReads ==
  ASSUME NEW f, Named(f), NEW a
  PROVE  Reads(ReadAuthorization(f, a).flow, Stages, f.order, f.chain)
  <1> DEFINE w == Tail(f.waiting)
             g == [f EXCEPT !.waiting = w]
             token == <<f.order, Head(f.waiting)>>
             u == g.published \cup {token}
             h == [g EXCEPT !.stage = "accept", !.challenge = token, !.published = u]
             o == Onward(g)
  <1>1. \/ ReadAuthorization(f, a) = Moved(o)
        \/ ReadAuthorization(f, a) = Moved(h)
    BY DEF ReadAuthorization
  <1>2. FlowOK(g)
    BY Zenon, NamedWaiting DEF Named
  <1>3. g.order = f.order /\ g.chain = f.chain
    BY DEF Named, FlowOK, FlowFields
  <1> HIDE DEF g, token, u
  <1>4. h.stage = "accept" /\ h.order = g.order /\ h.chain = g.chain
    BY Zenon, <1>2 DEF FlowOK, FlowFields
  <1>5. Reads(o, Stages, f.order, f.chain)
    BY <1>2, <1>3, OnwardReads
  <1> HIDE DEF h, o
  <1>6. Reads(h, Stages, f.order, f.chain)
    BY <1>3, <1>4 DEF Reads, Stages
  <1> QED
    BY <1>1, <1>5, <1>6, Outcomes

\* An order is named when it is placed, and a chain comes with the download.
LEMMA AcceptReads ==
  ASSUME NEW f, FlowOK(f), f.stage \in Stages, f.stage # "done", NEW a,
         f.stage = "order" => a.order \in Nat
  PROVE  Reads(Accept(f, a).flow, Stages, IF f.stage = "order" THEN a.order ELSE f.order,
                                          IF f.stage = "download" THEN a.chain ELSE f.chain)
  <1>1. CASE f.stage = "account"
    <2> DEFINE v == IF f.resuming THEN "resume" ELSE "order"
               g == [f EXCEPT !.stage = v]
    <2>1. Accept(f, a) = Moved(g)
      BY <1>1 DEF Accept, ReadAccount
    <2>2. v \in Stages
      BY DEF Stages
    <2> HIDE DEF v
    <2>3. Reads(g, Stages, f.order, f.chain)
      BY <2>2, StageReads
    <2> HIDE DEF g
    <2> QED
      BY <1>1, <2>1, <2>3, Outcomes
  <1>2. CASE f.stage = "order"
    <2> DEFINE g == [f EXCEPT !.order = a.order, !.waiting = a.waiting]
               o == Onward(g)
    <2>1. FlowOK(g) /\ g.order = a.order /\ g.chain = f.chain
      BY Zenon, <1>2, AcmeOrderAssumption DEF FlowOK, FlowFields, Url
    <2>2. Accept(f, a) = Moved(o)
      BY <1>2 DEF Accept, ReadOrder
    <2> HIDE DEF g
    <2>3. Reads(o, Stages, a.order, f.chain)
      BY <2>1, OnwardReads
    <2> HIDE DEF o
    <2> QED
      BY <1>2, <2>2, <2>3, Outcomes
  <1>3. CASE f.stage \notin {"account", "order", "download"}
    <2>1. Named(f)
      BY <1>3 DEF Named, FlowOK
    <2> DEFINE g == [f EXCEPT !.challenge = None]
               h == [f EXCEPT !.polls = 0]
               o == Onward(g)
    <2>2. \/ Accept(f, a) = ReadResumed(f, a)
          \/ Accept(f, a) = ReadAuthorization(f, a)
          \/ Accept(f, a) = Moved(o)
          \/ Accept(f, a) = ReadProgress(f, a)
          \/ Accept(f, a) = ReadProgress(h, a)
      BY <1>3 DEF Accept, Stages
    <2>3. /\ FlowOK(g) /\ g.order = f.order /\ g.chain = f.chain
          /\ Named(h) /\ h.stage = f.stage /\ h.order = f.order /\ h.chain = f.chain
      BY <2>1, NamedChallenge, NamedPolls DEF Named, FlowOK, FlowFields
    <2> HIDE DEF g, h
    <2>4. Reads(o, Stages, f.order, f.chain)
      BY <2>3, OnwardReads
    <2> HIDE DEF o
    <2>5. Reads(Accept(f, a).flow, Stages, f.order, f.chain)
      BY SMTT(30), <2>1, <2>2, <2>3, <2>4, Outcomes, ResumedReads, AuthorizationReads, ProgressReads
    <2> QED
      BY <1>3, <2>5
  <1>4. CASE f.stage = "download"
    <2> DEFINE c == a.chain
               e == [f EXCEPT !.chain = c, !.published = {}, !.stage = "done"]
    <2>1. Accept(f, a) = Moved(e)
      BY <1>4 DEF Accept
    <2> HIDE DEF c
    <2>2. e.stage = "done" /\ e.order = f.order /\ e.chain = c
      BY Zenon DEF FlowOK, FlowFields
    <2> HIDE DEF e
    <2> QED
      BY <1>4, <2>1, <2>2, Outcomes DEF Reads, Stages, c
  <1> QED
    BY <1>1, <1>2, <1>3, <1>4

(***************************************************************************)
(* The drive.                                                              *)
(***************************************************************************)

\* A failure and a success leave nothing of the order.
LEMMA LeftOnwards ==
  ASSUME NEW d
  PROVE  Onwards(d, Fails(d)) /\ Onwards(d, Succeeds(d))
  <1> DEFINE e == Fails(d)
             h == d.failed \ {d.cert}
             g == Succeeds(d)
             Blank(b) == /\ b = [x \in DriveFields |-> b[x]] /\ b.pc = "next" /\ b.url = None
                         /\ b.flow = Fresh /\ b.live = Nothing
  <1>1. Blank(e)
    BY ZenonT(60) DEF Fails, Idle, DriveFields
  <1>2. g = [e EXCEPT !.failed = h]
    BY DEF Succeeds
  <1> HIDE DEF e, h
  <1>3. Blank(g)
    BY <1>1, <1>2 DEF DriveFields
  <1> HIDE DEF g
  <1>4. ASSUME NEW b, Blank(b) PROVE Onwards(d, b)
    BY <1>4 DEF Onwards, Shape, Begun
  <1> QED
    BY <1>1, <1>3, <1>4 DEF e, g

\* A drive that has come to something.
LEMMA PlaceOnwards ==
  ASSUME NEW d, DriveOK(d), Keyed(d), NEW p \in {"store", "close"}
  PROVE  Onwards(d, [d EXCEPT !.pc = p])
  <1> DEFINE e == [d EXCEPT !.pc = p]
  <1>1. /\ e.pc = p /\ e.cert = d.cert /\ e.key = d.key /\ e.stale = d.stale /\ e.url = d.url
        /\ e.flow = d.flow /\ e.live = d.live /\ e.attempt = d.attempt
    BY DEF DriveOK, DriveFields
  <1> HIDE DEF e
  <1>2. Onwards(d, e)
    BY <1>1 DEF Onwards, Shape, Stays, Begun, Keyed, Held
  <1> QED
    BY <1>2 DEF e

\* Another attempt places a new order.
LEMMA RetryOnwards ==
  ASSUME NEW d, DriveOK(d), Keyed(d)
  PROVE  Onwards(d, Attempt(d, d.attempt + 1))
  <1> DEFINE k == d.attempt + 1
             l == Reached(Fresh)
             e == Attempt(d, k)
  <1>1. k # 1 /\ k \in Nat \ {0}
    BY DEF Keyed
  <1> HIDE DEF k
  <1>2. e = [d EXCEPT !.pc = "ask", !.attempt = k, !.flow = Fresh,
                      !.live = l, !.rejected = 0, !.closing = None]
    BY <1>1 DEF Attempt
  <1>3. l.url = None
    BY FreshOK DEF Reached
  <1> HIDE DEF e, l
  <1>4. /\ e.pc = "ask" /\ e.cert = d.cert /\ e.key = d.key /\ e.stale = d.stale
        /\ e.url = d.url /\ e.flow = Fresh /\ e.live = l /\ e.attempt = k
    BY Zenon, <1>2 DEF DriveOK, DriveFields
  <1>5. Fresh.order = None /\ Fresh.chain = None /\ Fresh.stage = "account"
    BY DEF Fresh
  <1>6. Onwards(d, e)
    BY <1>1, <1>3, <1>4, <1>5 DEF Onwards, Shape, Stays, Begun, Keyed, Held, Stages
  <1> QED
    BY <1>6 DEF e, k

\* Whatever follows an attempt (acme.rs obtain_planned_over).
LEMMA AttemptOverOnwards ==
  ASSUME NEW d, DriveOK(d), Keyed(d), NEW outcome
  PROVE  Onwards(d, AttemptOver(d, outcome))
  <1>1. \/ AttemptOver(d, outcome) = [d EXCEPT !.pc = "store"]
        \/ AttemptOver(d, outcome) = Fails(d)
        \/ AttemptOver(d, outcome) = Attempt(d, d.attempt + 1)
        \/ AttemptOver(d, outcome) = [d EXCEPT !.pc = "close"]
    BY DEF AttemptOver, Inspect
  <1> QED
    BY Zenon, <1>1, LeftOnwards, RetryOnwards, PlaceOnwards

\* Where a drive goes does not depend on more than this of it.
LEMMA OnwardsSame ==
  ASSUME NEW d, NEW g, NEW e, Onwards(g, e),
         g.cert = d.cert, g.key = d.key, g.stale = d.stale, g.url = d.url,
         g.flow.order = d.flow.order, g.flow.chain = d.flow.chain, g.live = d.live
  PROVE  Onwards(d, e)
  <1>1. Held(g) = Held(d)
    BY DEF Held
  <1> QED
    BY Zenon, <1>1 DEF Onwards, Stays

\* Whatever follows a drive (acme.rs run).
LEMMA DriveOverOnwards ==
  ASSUME NEW d, DriveOK(d), Keyed(d), NEW outcome, outcome # None
  PROVE  Onwards(d, DriveOver(d, outcome))
  <1> DEFINE f == Abandoned(d.flow)
             done == [d EXCEPT !.flow = f]
             g == [done EXCEPT !.pc = "file", !.live.up = {}, !.closing = outcome]
  <1>1. FlowOK(f) /\ f.order = d.flow.order
    BY AbandonedOK DEF DriveOK
  <1>2. f.stage = "done" /\ f.chain = d.flow.chain
    BY Zenon DEF DriveOK, FlowOK, FlowFields, Abandoned
  <1>3. DriveOver(d, outcome) = IF d.live.up = {} THEN AttemptOver(done, outcome) ELSE g
    BY DEF DriveOver
  <1> HIDE DEF f
  <1>4. /\ DriveOK(done) /\ done.cert = d.cert /\ done.key = d.key /\ done.stale = d.stale
        /\ done.url = d.url /\ done.flow = f /\ done.live = d.live /\ done.pc = d.pc
        /\ done.attempt = d.attempt
    BY <1>1 DEF DriveOK, DriveFields
  <1> HIDE DEF done
  <1>5. d.live = [url |-> d.live.url, up |-> d.live.up]
    BY DEF DriveOK
  <1>6. /\ g.pc = "file" /\ g.flow = f /\ g.cert = d.cert /\ g.key = d.key
        /\ g.stale = d.stale /\ g.url = d.url /\ g.attempt = d.attempt /\ g.closing = outcome
        /\ g.live = [d.live EXCEPT !.up = {}]
    BY Zenon, <1>4 DEF DriveOK, DriveFields
  <1>7. g.live.url = d.live.url
    BY <1>5, <1>6
  <1> HIDE DEF g
  <1>8. Onwards(d, g)
    BY <1>1, <1>2, <1>6, <1>7 DEF Onwards, Shape, Stays, Begun, Keyed, Held, Stages
  <1>9. Keyed(done)
    BY <1>2, <1>4 DEF Keyed, Begun, Stages
  <1>10. Onwards(done, AttemptOver(done, outcome))
    BY <1>4, <1>9, AttemptOverOnwards
  <1>11. Onwards(d, AttemptOver(done, outcome))
    BY Zenon, <1>1, <1>2, <1>4, <1>10, OnwardsSame
  <1> QED
    BY <1>3, <1>8, <1>11

\* Whatever follows a record that could not be written,
LEMMA RecordFailedOnwards ==
  ASSUME NEW d, DriveOK(d), Keyed(d), NEW why, why # None
  PROVE  Onwards(d, RecordFailed(d, why))
  BY AttemptOverOnwards, DriveOverOnwards DEF RecordFailed

\* and one that was.
LEMMA RecordDoneOnwards ==
  ASSUME NEW d, DriveOK(d), Shape(d), d.pc \in {"file", "publish"}
  PROVE  Onwards(d, RecordDone(d))
  <1> DEFINE e == [d EXCEPT !.pc = "ask"]
  <1>1. Keyed(d)
    BY DEF Shape, Begun
  <1>2. CASE d.closing = None
    <2>1. RecordDone(d) = e
      BY <1>2 DEF RecordDone
    <2>2. /\ e.pc = "ask" /\ e.cert = d.cert /\ e.key = d.key /\ e.stale = d.stale
          /\ e.url = d.url /\ e.flow = d.flow /\ e.live = d.live /\ e.attempt = d.attempt
      BY DEF DriveOK, DriveFields
    <2> HIDE DEF e
    <2> QED
      BY <1>1, <1>2, <2>1, <2>2 DEF Onwards, Shape, Stays, Begun, Keyed, Held
  <1>3. CASE d.closing # None
    BY <1>1, <1>3, AttemptOverOnwards DEF RecordDone
  <1> QED
    BY <1>2, <1>3

\* Answers are published on this node (acme.rs Answering::apply).
LEMMA PublishOnwards ==
  ASSUME NEW d, DriveOK(d), Shape(d), d.pc = "file"
  PROVE  Onwards(d, Publish(d))
  <1> DEFINE e == [d EXCEPT !.pc = "publish"]
  <1>1. /\ e.pc = "publish" /\ e.cert = d.cert /\ e.key = d.key /\ e.stale = d.stale
        /\ e.url = d.url /\ e.flow = d.flow /\ e.live = d.live /\ e.attempt = d.attempt
        /\ e.closing = d.closing
    BY DEF DriveOK, DriveFields
  <1>2. Publish(d) = RecordDone(d) \/ Publish(d) = e
    BY DEF Publish
  <1> HIDE DEF e
  <1>3. Onwards(d, e)
    BY SMTT(30), <1>1 DEF Onwards, Shape, Stays, Begun, Keyed, Held
  <1> QED
    BY <1>2, <1>3, RecordDoneOnwards

\* The loop of drive reads an answer: what is new are the order and the chain.
LEMMA ReadOnwards ==
  ASSUME NEW d, DriveOK(d), Keyed(d), d.pc = "ask", NEW r, FlowOK(r.flow),
         r.flow.stage \in Stages, d.flow.order # None => r.flow.order # None
  PROVE  /\ Shape(Read(d, r))
         /\ \/ Read(d, r).pc = "next"
            \/ /\ Begun(Read(d, r)) /\ Read(d, r).cert = d.cert /\ Read(d, r).key = d.key
               /\ Read(d, r).stale = d.stale /\ Read(d, r).url = d.url
               /\ Held(Read(d, r)) \subseteq Held(d) \cup ({r.flow.order} \ {None})
               /\ Read(d, r).flow.chain \in {None, r.flow.chain}
  <1> DEFINE f == r.flow
             e == [d EXCEPT !.flow = f, !.rejected = 0]
             l == Reached(f)
             b == [e EXCEPT !.pc = "file", !.live = l]
             g == [e EXCEPT !.pc = "ask"]
             x == Read(d, r)
  <1>1. \/ r.failed # None /\ x = DriveOver(e, r.failed)
        \/ x = DriveOver(e, "chain")
        \/ f.stage # "done" /\ x = BeforeAsk(e)
    BY DEF Read
  <1>2. FlowOK(f) /\ f.stage \in Stages /\ (d.flow.order # None => f.order # None)
    OBVIOUS
  <1>3. l.url = f.order
    BY DEF Reached
  <1> HIDE DEF x, f
  <1>4. /\ DriveOK(e) /\ e.cert = d.cert /\ e.key = d.key /\ e.stale = d.stale
        /\ e.url = d.url /\ e.flow = f /\ e.live = d.live /\ e.pc = "ask"
        /\ e.attempt = d.attempt
    BY Zenon, <1>2 DEF DriveOK, DriveFields
  <1>5. BeforeAsk(e) = b \/ BeforeAsk(e) = g
    BY <1>4 DEF BeforeAsk
  <1> HIDE DEF e, l
  <1>6. Keyed(e)
    BY <1>2, <1>4 DEF Keyed, Begun
  <1>7. Held(e) \subseteq Held(d) \cup ({f.order} \ {None})
    BY <1>4 DEF Held
  <1>8. /\ b.pc = "file" /\ b.flow = f /\ b.live = l /\ b.cert = d.cert /\ b.key = d.key
        /\ b.stale = d.stale /\ b.url = d.url /\ b.attempt = d.attempt
    BY Zenon, <1>4 DEF DriveOK, DriveFields
  <1>9. /\ g.pc = "ask" /\ g.flow = f /\ g.live = e.live /\ g.cert = d.cert /\ g.key = d.key
        /\ g.stale = d.stale /\ g.url = d.url /\ g.attempt = d.attempt
    BY Zenon, <1>4 DEF DriveOK, DriveFields
  <1> HIDE DEF b, g
  <1>10. f.stage # "done" => Onwards(e, b) /\ Onwards(e, g)
    BY <1>2, <1>3, <1>4, <1>6, <1>8, <1>9 DEF Onwards, Shape, Stays, Begun, Keyed, Held
  <1>11. "chain" # None
    BY AcmeOrderAssumption
  <1>12. Onwards(e, x)
    BY Zenon, <1>1, <1>4, <1>5, <1>6, <1>10, <1>11, DriveOverOnwards
  <1>13. /\ Shape(x)
         /\ \/ x.pc = "next"
            \/ /\ Begun(x) /\ x.cert = d.cert /\ x.key = d.key /\ x.stale = d.stale
               /\ x.url = d.url /\ Held(x) \subseteq Held(d) \cup ({f.order} \ {None})
               /\ x.flow.chain \in {None, f.chain}
    BY <1>4, <1>7, <1>12 DEF Onwards, Stays
  <1> QED
    BY <1>13 DEF x, f
==============================================================================
