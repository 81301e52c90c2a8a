------------------------------ MODULE AcmeOrder ------------------------------
(***************************************************************************)
(* Certificate orders in a cluster: the sweep a leader starts, the order it  *)
(* drives against a certificate authority, the record another node takes it  *)
(* over from, and the challenge answers every node serves meanwhile.         *)
(*                                                                         *)
(* Sources: ek-ek/src/cluster.rs (watch, publish_answers, start_sweep,       *)
(* sweep_once, apply_once), ek-ek/src/acme.rs (obtain_order and what it      *)
(* calls), ek-ek-tls/src/acme.rs (obtain_planned_over, run, drive),          *)
(* ek-ek-tls/src/dns/mod.rs.  The flow itself is AcmeFlow.                   *)
(*                                                                         *)
(* The replicated state is one register: an update reads and writes it       *)
(* whole in one step, on the leader only (ClusterState is about why and      *)
(* when that holds).  An update may be refused, and one that was refused     *)
(* may have landed.  A drive keeps running on a node that no longer leads.   *)
(* The certificate authority is external: it decides in its own time, reads  *)
(* the answers from whichever node holds the address, names at most          *)
(* MaxOrders orders and then says the allowance is spent.                      *)
(***************************************************************************)
EXTENDS AcmeFlow, FiniteSets

CONSTANTS
    Nodes,
    Certs,              \* certificates obtained from the authority
    Names,              \* the names of one, in their order
    Kinds,              \* challenges: {"http-01", "dns-01"} or a part of it
    Issues,             \* whether what is issued can be served: {TRUE} or BOOLEAN
    MostNonceRetries,   \* MOST_NONCE_RETRIES
    Keys,               \* bound: the keys that can be drawn
    MaxOrders,          \* bound: orders the authority names, for each kind
    MaxEdits,           \* bound: documents an operator applies, for each kind
    MaxMishaps          \* bound: nodes that fall, changes of leader, updates and
                        \* asks that go wrong

ASSUME AcmeOrderAssumption ==
    /\ None \notin Nat \cup Nodes \cup Certs
    /\ None \notin WorthRetrying \cup {"chain", "challenge", "configuration"}
    /\ IsFiniteSet(Nodes) /\ IsFiniteSet(Certs)
    /\ Keys \subseteq Nat
    /\ Kinds \subseteq {"http-01", "dns-01"} /\ Issues \subseteq BOOLEAN
    /\ MostPolls \in Nat /\ MostNonceRetries \in Nat /\ Attempts \in Nat \ {0}

VARIABLES
    kind,       \* the challenge the certificates are configured with
    agreed,     \* the replicated state
    leader,
    drive,      \* the sweep and the order each node's blocking thread is in
    waits,      \* renewal-state.json of each node: what has to wait
    file,       \* the challenge answers each node serves
    zone,       \* the challenge records at the name server
    ca,         \* the orders of the certificate authority, in order
    owed,       \* failed on this node, and its wait is not over
    stopped,    \* nodes that have stopped and started again
    edits,      \* how many documents the operator has applied
    mishaps,    \* how many there have been
    excused,    \* a node stopped, a write was refused, a certificate was taken out
    overlapped  \* orders a drive wrote about after another node had

outside == <<kind, edits, file, zone, ca, stopped>>
vars == <<kind, edits, agreed, leader, drive, waits, file, zone, ca, owed, stopped,
          mishaps, excused, overlapped>>

NoRecord == [url |-> None, answers |-> {}]
Nothing == [url |-> None, up |-> {}]

Idle == [pc |-> "idle", wanted |-> << >>, config |-> {}, ready |-> {},
         failed |-> {}, cert |-> None, account |-> None, key |-> None,
         url |-> None, attempt |-> 0, flow |-> Fresh, live |-> Nothing,
         up |-> {}, rejected |-> 0, closing |-> None, stale |-> FALSE]

At(n, pc) == drive[n].pc = pc
Becomes(n, d) == drive' = [drive EXCEPT ![n] = d]

\* Keys are drawn at random: one that nothing holds yet.
KeysHeld == {agreed.keys[c] : c \in Certs} \cup {agreed.served[c] : c \in Certs}
            \cup {drive[n].key : n \in Nodes} \cup {ca[u].key : u \in DOMAIN ca}
NewKey == CHOOSE k \in Keys : k \notin KeysHeld

\* The answers of the orders that are running, as publish_answers reads them.
AnswersHeld == UNION {agreed.orders[c].answers : c \in Certs}

\* The sweep ------------------------------------------------------------------

\* What a failure leaves of the drive: the sweep goes on to the next one.
Fails(d) == [Idle EXCEPT !.pc = "next", !.wanted = d.wanted, !.config = d.config,
                         !.ready = d.ready, !.failed = d.failed \cup {d.cert}]

Succeeds(d) == [Fails(d) EXCEPT !.failed = d.failed \ {d.cert}]

\* A node that failed an order owes the certificate a wait.
Owe(n, d) == owed' = IF d.pc = "next" /\ drive[n].cert \in d.failed
                     THEN [owed EXCEPT ![n] = @ \cup {drive[n].cert}] ELSE owed

Proceeds(n, d) == Becomes(n, d) /\ Owe(n, d)

\* Orders somebody left behind first, then what is due: here, never obtained.
Wanted == LET left == {c \in Certs : agreed.keys[c] # None}
              more == {c \in agreed.config : agreed.served[c] = None /\ c \notin left}
              Listed(S) == CHOOSE s \in [1..Cardinality(S) -> S] :
                               \A i, j \in DOMAIN s : i # j => s[i] # s[j]
          IN  Listed(left) \o Listed(more)

\* The leader, asked and found to lead, starts one when none is running.
StartSweep(n) ==
    /\ At(n, "idle") /\ leader = n /\ Wanted # << >>
    /\ Becomes(n, [Idle EXCEPT !.pc = "next", !.wanted = Wanted,
                               !.config = agreed.config,
                               !.ready = Certs \ waits[n]])
    /\ UNCHANGED <<outside, agreed, leader, waits, owed, mishaps, excused,
                   overlapped>>

Ready(d, c) == c \in d.ready /\ c \notin d.failed

SkipOrder(n) ==
    LET d == drive[n]
    IN  /\ At(n, "next") /\ d.wanted # << >> /\ ~Ready(d, Head(d.wanted))
        /\ Becomes(n, [d EXCEPT !.wanted = Tail(@)])
        /\ UNCHANGED <<outside, agreed, leader, waits, owed, mishaps, excused, overlapped>>

\* obtain_order before it has opened anything: the certificate is not in the
\* configuration.  The record, if there is one, stays.
UnknownCertificate(n) ==
    LET d == drive[n]
    IN  /\ At(n, "next") /\ d.wanted # << >> /\ Ready(d, Head(d.wanted))
        /\ Head(d.wanted) \notin d.config
        /\ Becomes(n, [d EXCEPT !.wanted = Tail(@), !.failed = @ \cup {Head(d.wanted)}])
        /\ owed' = [owed EXCEPT ![n] = @ \cup {Head(d.wanted)}]
        /\ excused' = TRUE
        /\ UNCHANGED <<outside, agreed, leader, waits, mishaps, overlapped>>

\* The order begins: the key of the account, when the state already holds one.
BeginOrder(n) ==
    LET d == [drive[n] EXCEPT !.wanted = Tail(@), !.cert = Head(drive[n].wanted)]
    IN  /\ At(n, "next") /\ drive[n].wanted # << >> /\ Ready(drive[n], d.cert)
        /\ d.cert \in d.config
        /\ Becomes(n, IF agreed.account = None
                      THEN [d EXCEPT !.pc = "make_account"]
                      ELSE [d EXCEPT !.pc = "open", !.account = agreed.account])
        /\ UNCHANGED <<outside, agreed, leader, waits, owed, mishaps, excused, overlapped>>

\* Mutant: the file is not written when the sweep is over.
EndSweepForgetting(n) ==
    /\ At(n, "next") /\ drive[n].wanted = << >>
    /\ Becomes(n, Idle)
    /\ UNCHANGED <<outside, agreed, leader, waits, owed, mishaps, excused,
                   overlapped>>

\* The attempts of the whole sweep are written when it is over.
EndSweep(n) ==
    LET d == drive[n]
    IN  /\ At(n, "next") /\ d.wanted = << >>
        /\ waits' = [waits EXCEPT ![n] = @ \cup d.failed]
        /\ Becomes(n, Idle)
        /\ UNCHANGED <<outside, agreed, leader, owed, mishaps, excused,
                       overlapped>>

\* Updates of the replicated state ----------------------------------------------

\* An update that lands.  Every other drive of the same order has not seen it.
Land(n, next) ==
    /\ agreed' = next
    /\ overlapped' = IF drive[n].stale THEN overlapped \cup {drive[n].cert} ELSE overlapped

Seen(n, d) == [m \in Nodes |->
                 IF m = n THEN d
                 ELSE [drive[m] EXCEPT !.stale = @ \/ drive[m].cert = drive[n].cert]]

\* Replicated::update: the drive goes on as `ok`, or as `no` when it was refused.
Update(n, next, ok, no) ==
    \/ /\ leader = n /\ Land(n, next)
       /\ drive' = Seen(n, ok) /\ Owe(n, ok)
       /\ UNCHANGED <<mishaps, excused>>
    \/ /\ leader # n
       /\ Proceeds(n, no) /\ excused' = TRUE
       /\ UNCHANGED <<agreed, overlapped, mishaps>>
    \/ /\ leader = n /\ mishaps < MaxMishaps
       /\ mishaps' = mishaps + 1
       /\ Proceeds(n, no) /\ excused' = TRUE
       /\ UNCHANGED <<agreed, overlapped>>
    \/ /\ leader = n /\ mishaps < MaxMishaps
       /\ mishaps' = mishaps + 1
       /\ Land(n, next)
       /\ drive' = Seen(n, no) /\ Owe(n, no) /\ excused' = TRUE

\* The account and the record --------------------------------------------------

\* One is made.  The document of the sweep goes in with it.
MakeAccountKey(n) ==
    LET d == drive[n]
    IN  /\ At(n, "make_account")
        /\ Update(n, [agreed EXCEPT !.account = n, !.config = d.config],
                  [d EXCEPT !.pc = "open", !.account = n], Fails(d))
        /\ UNCHANGED <<outside, leader, waits>>

\* Where the loop of drive stands once the flow has moved: what has changed is
\* recorded before the next ask goes out.
Reached(f) == [url |-> f.order, up |-> f.published]

\* Mutant: the next ask goes out first.
AskFirst(d) ==
    CASE d.flow.stage = "accept" -> [d EXCEPT !.pc = "ask"]
      [] Reached(d.flow) # d.live -> [d EXCEPT !.pc = "file", !.live = Reached(d.flow)]
      [] OTHER -> [d EXCEPT !.pc = "ask"]

BeforeAsk(d) ==
    IF Reached(d.flow) # d.live
    THEN [d EXCEPT !.pc = "file", !.live = Reached(d.flow)]
    ELSE [d EXCEPT !.pc = "ask"]

\* One attempt: the first takes the order over when there is one to take.
Attempt(d, number) ==
    LET f == IF number = 1 /\ d.url # None THEN Resumed(d.url) ELSE Fresh
    IN  [d EXCEPT !.pc = "ask", !.attempt = number, !.flow = f,
                  !.live = Reached(f), !.rejected = 0, !.closing = None]

\* open_order reads the record, and then the key it names.
FindOrder(n) ==
    LET d == drive[n]
    IN  /\ At(n, "open")
        /\ Becomes(n, IF agreed.keys[d.cert] = None
                      THEN [d EXCEPT !.pc = "open_new"]
                      ELSE [d EXCEPT !.pc = "take_over",
                                     !.url = agreed.orders[d.cert].url])
        /\ UNCHANGED <<outside, agreed, leader, waits, owed, mishaps, excused, overlapped>>

\* Mutant: a node that takes an order over signs with a key of its own.
TakeOverWithOwnKey(n) ==
    LET d == drive[n]
    IN  /\ At(n, "take_over")
        /\ Becomes(n, Attempt([d EXCEPT !.key = NewKey], 1))
        /\ UNCHANGED <<outside, agreed, leader, waits, owed, mishaps, excused, overlapped>>

TakeOver(n) ==
    LET d == drive[n]
        k == agreed.keys[d.cert]
        next == IF k = None THEN Fails(d) ELSE Attempt([d EXCEPT !.key = k], 1)
    IN  /\ At(n, "take_over")
        /\ Proceeds(n, next)
        /\ UNCHANGED <<outside, agreed, leader, waits, mishaps, excused,
                       overlapped>>

\* The record and its key go in before anything is asked.
OpenOrder(n) ==
    LET d == drive[n]
        k == NewKey
    IN  /\ At(n, "open_new") /\ Keys \ KeysHeld # {}
        /\ Update(n, [agreed EXCEPT !.keys[d.cert] = k, !.orders[d.cert] = NoRecord],
                  Attempt([d EXCEPT !.key = k], 1), Fails(d))
        /\ UNCHANGED <<outside, leader, waits>>

\* One attempt ------------------------------------------------------------------

\* The certificate has to belong to the key and be one that can be served.  One
\* that does not is a failure like any other, but the record stays.
Inspect(d) == IF d.flow.chain = [key |-> d.key, usable |-> TRUE]
              THEN [d EXCEPT !.pc = "store"] ELSE Fails(d)

\* Mutant: an order that failed for good keeps its record.
AttemptOverLeaving(d, outcome) ==
    CASE outcome = "chain" -> Inspect(d)
      [] outcome \in WorthRetrying /\ d.attempt < Attempts -> Attempt(d, d.attempt + 1)
      [] OTHER -> Fails(d)

\* obtain_planned_over: another attempt, or what the order came to.
AttemptOver(d, outcome) ==
    CASE outcome = "chain" -> Inspect(d)
      [] outcome \in WorthRetrying /\ d.attempt < Attempts -> Attempt(d, d.attempt + 1)
      [] OTHER -> [d EXCEPT !.pc = "close"]

\* run, once drive is through: whatever happened, the path closes.
DriveOver(d, outcome) ==
    LET done == [d EXCEPT !.flow = Abandoned(@)]
    IN  IF d.live.up = {} THEN AttemptOver(done, outcome)
        ELSE [done EXCEPT !.pc = "file", !.live.up = {}, !.closing = outcome]

\* A record call that failed, inside the loop or while closing.
RecordFailed(d, why) ==
    CASE d.closing = None    -> DriveOver(d, why)
      [] d.closing = "chain" -> AttemptOver(d, why)
      [] OTHER               -> AttemptOver(d, d.closing)

RecordDone(d) == IF d.closing = None THEN [d EXCEPT !.pc = "ask"]
                                     ELSE AttemptOver(d, d.closing)

\* Answering::apply follows, unless nothing is up and nothing came down.
Publish(d) == IF d.live.up = {} /\ d.up = {} THEN RecordDone(d)
                                             ELSE [d EXCEPT !.pc = "publish"]

\* Mutant: the record is written with the key of whoever drives.
FileReachedWithKey(n) ==
    LET d == drive[n]
    IN  /\ At(n, "file") /\ agreed.keys[d.cert] # None
        /\ Update(n, [agreed EXCEPT
                        !.keys[d.cert] = NewKey,
                        !.orders[d.cert] = [url |-> d.live.url, answers |-> d.live.up]],
                  Publish(d), RecordFailed(d, "no_quorum"))
        /\ UNCHANGED <<outside, leader, waits>>

\* file_reached: the address and the answers go into the record, which has to
\* be there.  A DNS answer is not among them.
FileReached(n) ==
    LET d == drive[n]
    IN  /\ At(n, "file") /\ agreed.keys[d.cert] # None
        /\ Update(n, [agreed EXCEPT !.orders[d.cert] =
                        [url |-> d.live.url,
                         answers |-> IF kind = "http-01" THEN d.live.up ELSE {}]],
                  Publish(d), RecordFailed(d, "no_quorum"))
        /\ UNCHANGED <<outside, leader, waits>>

RecordWentAway(n) ==
    LET d == drive[n]
    IN  /\ At(n, "file") /\ agreed.keys[d.cert] = None
        /\ Proceeds(n, RecordFailed(d, "configuration"))
        /\ UNCHANGED <<outside, agreed, leader, waits, mishaps, excused, overlapped>>

\* reachable: the node that holds the address serves what is up, and no longer
\* what came down.
Settled(d, answers) == /\ d.live.up \subseteq answers
                       /\ (d.up \ d.live.up) \cap answers = {}

Reachable(n) ==
    /\ At(n, "publish") /\ kind = "http-01"
    /\ \E m \in Nodes : Settled(drive[n], file[m])
    /\ Proceeds(n, RecordDone([drive[n] EXCEPT !.up = drive[n].live.up]))
    /\ UNCHANGED <<outside, agreed, leader, waits, mishaps, excused,
                   overlapped>>

\* Ten seconds went by without that: a mishap, unless the state says otherwise.
NotReachable(n) ==
    LET late == Settled(drive[n], AnswersHeld)
    IN  /\ At(n, "publish") /\ kind = "http-01"
        /\ \E m \in Nodes : ~Settled(drive[n], file[m])
        /\ late => mishaps < MaxMishaps
        /\ mishaps' = IF late THEN mishaps + 1 ELSE mishaps
        /\ Proceeds(n, RecordFailed([drive[n] EXCEPT !.up = drive[n].live.up],
                                    "configuration"))
        /\ UNCHANGED <<outside, agreed, leader, waits, excused,
                       overlapped>>

\* dns::publish replaces what is at the names that go up and waits until it can
\* be looked up; dns::withdraw takes the names that came down.
Labels(tokens) == {t[2] : t \in tokens}
ZoneWith(up) == {t \in zone : t[2] \notin Labels(up)} \cup up
Withdrawn(z, labels) == {t \in z : t[2] \notin labels}

WriteRecords(n) ==
    LET d == drive[n]
    IN  /\ At(n, "publish") /\ kind = "dns-01"
        /\ zone' = Withdrawn(ZoneWith(d.live.up), Labels(d.up) \ Labels(d.live.up))
        /\ Proceeds(n, RecordDone([d EXCEPT !.up = d.live.up]))
        /\ UNCHANGED <<kind, edits, agreed, leader, waits, file, ca, stopped,
                       mishaps, excused, overlapped>>

\* Written, and still not visible when the provider's time is up.
RecordsNotSeen(n) ==
    LET d == drive[n]
    IN  /\ At(n, "publish") /\ kind = "dns-01"
        /\ d.live.up # {} /\ mishaps < MaxMishaps
        /\ mishaps' = mishaps + 1
        /\ zone' = ZoneWith(d.live.up)
        /\ Proceeds(n, RecordFailed([d EXCEPT !.up = d.live.up], "challenge"))
        /\ UNCHANGED <<kind, edits, agreed, leader, waits, file, ca, stopped,
                       excused, overlapped>>

\* The provider did not take the change.
ProviderFails(n) ==
    LET d == drive[n]
    IN  /\ At(n, "publish") /\ kind = "dns-01" /\ mishaps < MaxMishaps
        /\ mishaps' = mishaps + 1
        /\ Proceeds(n, RecordFailed([d EXCEPT !.up = d.live.up], "network"))
        /\ UNCHANGED <<outside, agreed, leader, waits, excused,
                       overlapped>>

\* Asking -----------------------------------------------------------------------

Own(n) == ca[drive[n].flow.order]

\* What the authority will not answer: a spent allowance, somebody else's order,
\* an order that is not where the ask needs it.
Served(n) ==
    LET d == drive[n]
    IN  CASE d.flow.stage = "account" -> TRUE
          [] d.flow.stage = "order" -> Len(ca) < MaxOrders[kind]
          [] OTHER -> /\ Own(n).account = d.account
                      /\ d.flow.stage = "finalize" => Own(n).status = "ready"
                      /\ d.flow.stage = "download" => Own(n).status = "valid"

\* Names the account has proven before need no new proof, if it still counts.
Proven(a) == \E u \in DOMAIN ca :
                 ca[u].account = a /\ \A x \in DOMAIN ca[u].authz : ca[u].authz[x] = "valid"

Placed(d, reuse) ==
    [status |-> IF reuse THEN "ready" ELSE "pending",
     authz |-> [x \in {Names[i] : i \in DOMAIN Names} |->
                    IF reuse THEN "valid" ELSE "pending"],
     key |-> None, account |-> d.account, usable |-> TRUE]

\* What an ask does at the authority.
AuthorityAfter(n, reuse) ==
    LET d == drive[n]
        u == d.flow.order
    IN  CASE d.flow.stage = "order" -> Append(ca, Placed(d, reuse))
          [] d.flow.stage = "accept" ->
                [ca EXCEPT ![u].authz[d.flow.challenge[2]] =
                               IF @ = "pending" THEN "told" ELSE @]
          [] d.flow.stage = "finalize" ->
                [ca EXCEPT ![u].status = "processing", ![u].key = d.key]
          [] OTHER -> ca

\* The document it answers with.
Document(n, after) ==
    LET f == drive[n].flow
        u == IF f.stage = "order" THEN Len(after) ELSE f.order
    IN  IF f.stage = "account" THEN [order |-> None]
        ELSE [order |-> u, waiting |-> Names,
              chain |-> [key |-> after[u].key, usable |-> after[u].usable],
              status |-> IF f.stage = "authorization" THEN after[u].authz[Head(f.waiting)]
                                                      ELSE after[u].status]

\* The loop of drive reads one answer.
Read(d, result) ==
    LET e == [d EXCEPT !.flow = result.flow, !.rejected = 0]
    IN  CASE result.failed # None        -> DriveOver(e, result.failed)
          [] result.flow.stage = "done"  -> DriveOver(e, "chain")
          [] OTHER                       -> BeforeAsk(e)

Ask(n) ==
    /\ At(n, "ask") /\ Served(n)
    /\ \E reuse \in BOOLEAN :
        /\ reuse => drive[n].flow.stage = "order" /\ Proven(drive[n].account)
        /\ ca' = AuthorityAfter(n, reuse)
        /\ Proceeds(n, Read(drive[n], Accept(drive[n].flow,
                                             Document(n, AuthorityAfter(n, reuse)))))
    /\ UNCHANGED <<kind, edits, agreed, leader, waits, file, zone, stopped,
                   mishaps, excused, overlapped>>

AskRefused(n) ==
    /\ At(n, "ask") /\ ~Served(n)
    /\ Proceeds(n, DriveOver(drive[n], "server"))
    /\ UNCHANGED <<outside, agreed, leader, waits, mishaps, excused,
                   overlapped>>

\* No answer: the request never arrived, or the answer to it was lost.
AskLost(n) ==
    /\ At(n, "ask") /\ mishaps < MaxMishaps
    /\ mishaps' = mishaps + 1
    /\ \/ ca' = ca
       \/ Served(n) /\ ca' = AuthorityAfter(n, FALSE)
    /\ Proceeds(n, DriveOver(drive[n], "network"))
    /\ UNCHANGED <<kind, edits, agreed, leader, waits, file, zone, stopped,
                   excused, overlapped>>

\* A nonce the server will not take is answered with the one that came with the
\* refusal, a limited number of times.
NonceRefused(n) ==
    LET d == drive[n]
    IN  /\ At(n, "ask")
        /\ mishaps < MaxMishaps
        /\ mishaps' = mishaps + 1
        /\ Proceeds(n, IF d.rejected + 1 > MostNonceRetries THEN DriveOver(d, "server")
                       ELSE [d EXCEPT !.rejected = @ + 1])
        /\ UNCHANGED <<outside, agreed, leader, waits, excused,
                       overlapped>>

\* What the order came to ---------------------------------------------------------

Without(c) == [agreed EXCEPT !.keys[c] = None, !.orders[c] = NoRecord]

\* The certificate and the end of the order in one write.  A certificate that is
\* not in the configuration is put there.
StoreCertificate(n) ==
    LET d == drive[n]
    IN  /\ At(n, "store")
        /\ Update(n, [Without(d.cert) EXCEPT !.served[d.cert] = d.key,
                                             !.config = @ \cup {d.cert}],
                  Succeeds(d), Fails(d))
        /\ UNCHANGED <<outside, leader, waits>>

\* close_order, on the way out of an order that failed.
CloseOrder(n) ==
    LET d == drive[n]
    IN  /\ At(n, "close") /\ agreed.keys[d.cert] # None
        /\ Update(n, Without(d.cert), Fails(d), Fails(d))
        /\ UNCHANGED <<outside, leader, waits>>

NothingToClose(n) ==
    LET d == drive[n]
    IN  /\ At(n, "close") /\ agreed.keys[d.cert] = None
        /\ Proceeds(n, Fails(d))
        /\ UNCHANGED <<outside, agreed, leader, waits, mishaps, excused,
                       overlapped>>

\* The node processes, the operator, the authority, time ---------------------------

\* Mutant: the file is only ever added to.
PublishAnswersMore(n) ==
    /\ ~(AnswersHeld \subseteq file[n])
    /\ file' = [file EXCEPT ![n] = @ \cup AnswersHeld]
    /\ UNCHANGED <<kind, edits, agreed, leader, drive, waits, zone, ca, owed, stopped,
                   mishaps, excused, overlapped>>

\* publish_answers: every node writes what its state holds, whole, when it has
\* changed; the traffic path of the node serves it.
PublishAnswers(n) ==
    /\ file[n] # AnswersHeld
    /\ file' = [file EXCEPT ![n] = AnswersHeld]
    /\ UNCHANGED <<kind, edits, agreed, leader, drive, waits, zone, ca, owed, stopped,
                   mishaps, excused, overlapped>>

\* apply_once: the operator's document replaces the configuration, what orders
\* produced is carried over, everything else stays.
Apply(config) ==
    /\ leader # None /\ edits < MaxEdits[kind] /\ config # agreed.config
    /\ edits' = edits + 1
    /\ agreed' = [agreed EXCEPT !.config = config]
    /\ UNCHANGED <<kind, leader, drive, waits, file, zone, ca, owed, stopped,
                   mishaps, excused, overlapped>>

\* A node falls and comes back.  What it was driving is gone.
Stop(n) ==
    /\ n \notin stopped /\ mishaps < MaxMishaps
    /\ mishaps' = mishaps + 1
    /\ stopped' = stopped \cup {n}
    /\ Becomes(n, Idle)
    /\ leader' = IF leader = n THEN None ELSE leader
    /\ excused' = TRUE
    /\ UNCHANGED <<kind, edits, agreed, waits, file, zone, ca, owed, overlapped>>

\* Another node leads: because nobody does, or because of a partition.
Elect(n) ==
    /\ leader # n
    /\ \/ leader = None /\ mishaps' = mishaps
       \/ /\ leader # None /\ mishaps < MaxMishaps
          /\ mishaps' = mishaps + 1
    /\ leader' = n
    /\ UNCHANGED <<outside, agreed, drive, waits, owed, excused,
                   overlapped>>

\* An order that no record and no drive names is nobody's business any more.
Known(u) == \/ \E c \in Certs : agreed.orders[c].url = u
            \/ \E n \in Nodes : u \in {drive[n].flow.order, drive[n].url}

\* The authority looks for an answer it was told about, at the name server or on
\* whichever node holds the address.
Check(u, x, n) ==
    /\ ca[u].authz[x] = "told" /\ ca[u].status = "pending" /\ Known(u)
    /\ LET found == <<u, x>> \in (IF kind = "http-01" THEN file[n] ELSE zone)
           proven == [ca[u].authz EXCEPT ![x] = "valid"]
       IN  ca' = [ca EXCEPT ![u] =
                    IF ~found THEN [@ EXCEPT !.status = "invalid"]
                    ELSE [@ EXCEPT !.authz = proven,
                                   !.status = IF \A y \in DOMAIN proven : proven[y] = "valid"
                                              THEN "ready" ELSE "pending"]]
    /\ UNCHANGED <<kind, edits, agreed, leader, drive, waits, file, zone, owed,
                   stopped, mishaps, excused, overlapped>>

Issue(u) ==
    /\ ca[u].status = "processing" /\ Known(u)
    /\ \E fine \in Issues :
           ca' = [ca EXCEPT ![u].status = "valid", ![u].usable = fine]
    /\ UNCHANGED <<kind, edits, agreed, leader, drive, waits, file, zone, owed,
                   stopped, mishaps, excused, overlapped>>

\* The wait after a failed order is over.  It is an hour at least, and a drive
\* comes to its end, and a file catches up, long before that.
WaitOver(n) ==
    /\ waits[n] # {} \/ owed[n] # {}
    /\ \A m \in Nodes : At(m, "idle") /\ file[m] = AnswersHeld
    /\ waits' = [waits EXCEPT ![n] = {}]
    /\ owed' = [owed EXCEPT ![n] = {}]
    /\ UNCHANGED <<outside, agreed, leader, drive, mishaps, excused,
                   overlapped>>

Init ==
    /\ kind \in Kinds
    /\ agreed = [account |-> None, config |-> Certs, keys |-> [c \in Certs |-> None],
                 orders |-> [c \in Certs |-> NoRecord],
                 served |-> [c \in Certs |-> None]]
    /\ leader = CHOOSE n \in Nodes : TRUE      \* the nodes are alike
    /\ drive = [n \in Nodes |-> Idle]
    /\ waits = [n \in Nodes |-> {}] /\ owed = [n \in Nodes |-> {}]
    /\ file = [n \in Nodes |-> {}] /\ zone = {}
    /\ ca = << >> /\ stopped = {}
    /\ mishaps = 0 /\ edits = 0
    /\ excused = FALSE /\ overlapped = {}

Sweeping(n) == \/ StartSweep(n) \/ SkipOrder(n) \/ UnknownCertificate(n)
               \/ BeginOrder(n) \/ EndSweep(n)

Ordering(n) == \/ MakeAccountKey(n) \/ FindOrder(n) \/ TakeOver(n)
               \/ OpenOrder(n) \/ FileReached(n) \/ RecordWentAway(n)
               \/ Reachable(n) \/ NotReachable(n) \/ WriteRecords(n)
               \/ RecordsNotSeen(n) \/ ProviderFails(n)
               \/ Ask(n) \/ AskRefused(n) \/ AskLost(n) \/ NonceRefused(n)
               \/ StoreCertificate(n) \/ CloseOrder(n)
               \/ NothingToClose(n)

Deciding == \E u \in DOMAIN ca : \/ \E x \in DOMAIN ca[u].authz, n \in Nodes : Check(u, x, n)
                                 \/ Issue(u)

Next == \/ \E n \in Nodes : \/ Sweeping(n) \/ Ordering(n) \/ PublishAnswers(n)
                            \/ Stop(n) \/ Elect(n) \/ WaitOver(n)
        \/ Deciding
        \/ \E S \in SUBSET Certs : Apply(S)

\* The sweeping thread and the loop of a node run on; nodes left to themselves
\* elect a leader; waits end; the authority gets to what it was asked.
Fairness ==
    /\ \A n \in Nodes : /\ WF_vars(Sweeping(n) \/ Ordering(n))
                        /\ WF_vars(PublishAnswers(n)) /\ SF_vars(WaitOver(n))
    /\ WF_vars(\E n \in Nodes : leader = None /\ Elect(n))
    /\ WF_vars(Deciding)

Spec == Init /\ [][Next]_vars /\ Fairness

\* Properties -------------------------------------------------------------------

Present(c) == agreed.keys[c] # None
Driven(c) == \E n \in Nodes : drive[n].cert = c /\ drive[n].attempt > 0

\* Whoever takes an order over finds what its first driver promised the
\* authority: a record is opened with its signing key before anything has been
\* named, keeps the key for as long as it lives whoever writes to it, and goes
\* whole (OrderLife).  Once two nodes have written about one order in turns,
\* nothing more is promised.
Promised(c) == c \notin overlapped
Record == INSTANCE OrderLife WITH
              Keys <- Nat, Urls <- Nat,
              key <- [c \in Certs |-> IF Promised(c) THEN agreed.keys[c] ELSE None],
              url <- [c \in Certs |-> IF Promised(c) THEN agreed.orders[c].url ELSE None]
ImplementsLife == Record!Life

\* The certificate that is downloaded was issued for the key in hand, whichever
\* node opened the order and however often it changed hands (open_order returns
\* the key of the record, acme.rs:503): unless another node has written about
\* the order since, inspect finds a chain that fits.
TakenOverFits ==
    \A n \in Nodes : LET d == drive[n]
                     IN  d.flow.chain # None /\ ~d.stale /\ Promised(d.cert)
                            => d.flow.chain.key = d.key

\* The authority is told to look only once the answer is in the state every node
\* serves from (drive records before it asks, tls/acme.rs:371), unless another
\* node has written about the order since.  The records at a name server are
\* shared without that: a driver that no longer leads withdraws them too.
AnsweredBeforeAsked ==
    \A n \in Nodes : LET d == drive[n]
                     IN  At(n, "ask") /\ d.flow.stage = "accept" /\ ~d.stale =>
                            IF kind = "http-01" THEN d.flow.challenge \in AnswersHeld
                                                ELSE d.flow.challenge \in d.up

\* A record is left behind by nobody driving it only after a node stopped, a
\* write was refused or the certificate left the configuration (close_order goes
\* on every other way out of obtain_order).
LeftOnlyByStopping == \A c \in Certs : Present(c) => Driven(c) \/ excused \/ ~Promised(c)

\* A certificate that failed is not tried again by the same node before its
\* wait is over, unless the node stopped and lost what it had not written yet
\* (Attempts::ready, and the file the sweep writes).
WaitsAreKept ==
    \A n \in Nodes : drive[n].attempt > 0 /\ n \notin stopped => drive[n].cert \notin owed[n]

\* Whatever happens to the nodes that drive it, an order does not stay open: as
\* long as the certificate stays in the configuration, some node finishes it or
\* gives it up.
NoRecordForEver == \A c \in Certs : []<>(c \in agreed.config => ~Present(c))

\* The answers go when the orders do: once there is no record any more, every
\* node stops serving what was published for it (publish_answers).
PathCloses == []<>(AnswersHeld # {} \/ \A n \in Nodes : file[n] = {})

\* Nothing of an order stays behind for good, neither its record nor the
\* answers that were served for it (obtain_order, publish_answers).
NothingStays == NoRecordForEver /\ PathCloses
==============================================================================
