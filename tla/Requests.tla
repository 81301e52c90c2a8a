------------------------------- MODULE Requests ------------------------------
(***************************************************************************)
(* Requests and connections of the TCP listeners: proxy.rs, pool.rs and    *)
(* stream.rs, on top of the choice of a member in Balance.                 *)
(*                                                                         *)
(* Every client sends one request after the other.  A request of an HTTP   *)
(* client loads the live configuration, asks the gate of the pool for a    *)
(* slot, waits for it, is given a member, is forwarded, is logged and      *)
(* drops its context; a connection of a stream client loads the            *)
(* configuration, may wait for a ClientHello, is routed, connects, is      *)
(* coupled and closes.  Configurations and health verdicts change at any   *)
(* of these points.                                                        *)
(*                                                                         *)
(* Both kinds share one Balancer, whose count of open connections is       *)
(* `open`; only requests pass the gate.  A gate is an Arc<Semaphore>: its  *)
(* identity is a number that is free once nobody refers to it.             *)
(***************************************************************************)
EXTENDS Balance

CONSTANTS Clients,       \* clients of an HTTP frontend
          Streams,       \* clients of a stream frontend
          Key            \* where the address of each client hashes to

ASSUME RequestsAssumption ==
    /\ IsFiniteSet(Clients) /\ IsFiniteSet(Streams) /\ Clients \cap Streams = {}
    /\ \A c \in Configs : c.size \in Nat
    /\ None \notin Nat /\ None \notin [generation : Nat, config : Configs]

Gates == 1 .. Cardinality(Clients) + 1
Callers == Clients \cup Streams
HttpSteps == {"idle", "loaded", "waiting", "chosen", "sent", "logged"}
StreamSteps == {"idle", "loaded", "chosen", "sent"}

VARIABLES pc,        \* where the request of a caller is
          seen,      \* the delivery its request was loaded from
          slot,      \* the gate it waits at, or whose slot it holds
          member,    \* the member it was given
          cookie,    \* the member a client's cookie names
          gates,     \* Gates: the size and the identity of the pool's gate
          free,      \* free permits of each gate
          line,      \* the requests waiting, longest first
          open,      \* Balancer: connections per kind of frontend and member
          cursor     \* Balancer: the round robin cursor

requestVars == <<pc, seen, slot, member, cookie>>
vars == <<balanceVars, requestVars, gates, free, line, open, cursor>>

Total == [m \in Members |-> open["http"][m] + open["stream"][m]]

\* The semaphores somebody refers to, besides the map of the gates.
InUse == {slot[k] : k \in Callers} \ {None}

Waiting(k) == pc[k] = "waiting"
Holds(k) == slot[k] # None /\ pc[k] \in {"chosen", "sent", "logged"}

(***************************************************************************)
(* Initial state.                                                          *)
(***************************************************************************)
Init ==
    /\ BalanceInit
    /\ pc = [k \in Callers |-> "idle"]
    /\ seen = [k \in Callers |-> None]
    /\ slot = [k \in Callers |-> None]
    /\ member = [k \in Callers |-> None]
    /\ cookie = [k \in Clients |-> None]
    /\ gates = None
    /\ free = [g \in Gates |-> 0]
    /\ line = <<>>
    /\ open = [kind \in {"http", "stream"} |-> [m \in Members |-> 0]]
    /\ cursor = 0

(***************************************************************************)
(* Helpers.                                                                *)
(***************************************************************************)

opened(kind, m) == [open EXCEPT ![kind][m] = @ + 1]

\* Counts saturate at zero.
closed(kind, m) == [open EXCEPT ![kind][m] = IF @ = 0 THEN 0 ELSE @ - 1]

\* Gates::gate: None for an unlimited pool, the gate that exists when it was
\* built for this size, and otherwise a new one, which replaces it.
Replaces(size) == size # 0 /\ (gates = None \/ gates.size # size)

\* Mutant: the gate that exists is filled up to the new size.
SameGate == IF gates = None THEN 1 ELSE gates.gate

NewGate == CHOOSE g \in Gates : g \notin InUse /\ (gates # None => g # gates.gate)

gate(size) ==
    IF size = 0 THEN None
    ELSE IF Replaces(size) THEN NewGate ELSE gates.gate

\* The request of k is over: its context is dropped.
Forget(k) ==
    /\ pc' = [pc EXCEPT ![k] = "idle"]
    /\ seen' = [seen EXCEPT ![k] = None]
    /\ slot' = [slot EXCEPT ![k] = None]
    /\ member' = [member EXCEPT ![k] = None]

\* logging takes the choice out of the context of k.
Logged(k) ==
    /\ pc' = [pc EXCEPT ![k] = "logged"]
    /\ member' = [member EXCEPT ![k] = None]

(***************************************************************************)
(* Steps of a request, in order.                                           *)
(***************************************************************************)

\* request_filter and process_new begin by loading the live configuration.
load(k) ==
    /\ pc[k] = "idle"
    /\ pc' = [pc EXCEPT ![k] = "loaded"]
    /\ seen' = [seen EXCEPT ![k] = live]
    /\ UNCHANGED <<balanceVars, slot, member, cookie, gates, free, line,
                   open, cursor>>

\* A challenge path, a redirect, no rule that matches and no default, a
\* frontend that is gone or not HTTP any more, a pool that does not exist:
\* the request is answered here.  Logging finds nothing to count down.
AnswerHere(k) ==
    /\ pc[k] = "loaded" /\ k \in Clients
    /\ pc' = [pc EXCEPT ![k] = "logged"]
    /\ UNCHANGED <<balanceVars, seen, slot, member, cookie, gates, free,
                   line, open, cursor>>

\* Otherwise it asks for the gate of its pool, by the size its own snapshot
\* names, and queues there.
AskForSlot(k) ==
    LET size == seen[k].config.size
    IN  /\ pc[k] = "loaded" /\ k \in Clients
        /\ pc' = [pc EXCEPT ![k] = "waiting"]
        /\ slot' = [slot EXCEPT ![k] = gate(size)]
        /\ gates' = IF Replaces(size) THEN [size |-> size, gate |-> NewGate]
                    ELSE gates
        /\ free' = IF Replaces(size)
                   THEN [g \in Gates |-> IF g = NewGate THEN size
                                         ELSE IF g \in InUse THEN free[g] ELSE 0]
                   ELSE free
        /\ line' = IF size = 0 THEN line ELSE Append(line, k)
        /\ UNCHANGED <<balanceVars, seen, member, cookie, open, cursor>>

\* A semaphore serves its queue in order.
MayEnter(k) ==
    slot[k] # None =>
        /\ free[slot[k]] > 0
        /\ \A i \in 1 .. Len(line) :
              slot[line[i]] = slot[k] => \E j \in 1 .. i : line[j] = k

\* Mutant: a cookie is honoured for every member of the pool.
PinnedAnyway(k) ==
    IF seen[k].config.sticky /\ cookie[k] \in Range(seen[k].config.members)
    THEN cookie[k] ELSE None

\* The member the client's cookie names, if it can take traffic.
pinned(k) ==
    IF seen[k].config.sticky /\ cookie[k] \in Range(eligible(seen[k].config))
    THEN cookie[k] ELSE None

\* The slot is there.  The rest of request_filter runs without a wait: the
\* member, the count, and the cookie the answer will carry.  With nobody to
\* take it, the request is answered and keeps its slot until it is dropped.
enter(k) ==
    LET c     == seen[k].config
        pick  == choose_by(c, Key[k], Total, cursor)
        taken == IF pinned(k) # None THEN pinned(k) ELSE pick
    IN  /\ Waiting(k) /\ MayEnter(k)
        /\ free' = IF slot[k] = None THEN free ELSE [free EXCEPT ![slot[k]] = @ - 1]
        /\ line' = SelectSeq(line, LAMBDA other : other # k)
        /\ cursor' = IF pinned(k) # None THEN cursor ELSE after_choice(c, cursor)
        /\ member' = [member EXCEPT ![k] = taken]
        /\ pc' = [pc EXCEPT ![k] = IF taken = None THEN "logged" ELSE "chosen"]
        /\ open' = IF taken = None THEN open ELSE opened("http", taken)
        /\ UNCHANGED <<balanceVars, seen, slot, cookie, gates>>

\* The backend is connected, and upstream_request_filter has written the
\* headers.
forward(k) ==
    /\ pc[k] = "chosen" /\ k \in Clients
    /\ pc' = [pc EXCEPT ![k] = "sent"]
    /\ UNCHANGED <<balanceVars, seen, slot, member, cookie, gates, free, line,
                   open, cursor>>

\* response_filter: the answer comes back and carries the cookie, when one
\* was made; then the request is logged.
respond(k) ==
    /\ pc[k] = "sent" /\ k \in Clients
    /\ cookie' = IF seen[k].config.sticky
                 THEN [cookie EXCEPT ![k] = member[k]] ELSE cookie
    /\ open' = closed("http", member[k])
    /\ Logged(k)
    /\ UNCHANGED <<balanceVars, seen, slot, gates, free, line, cursor>>

\* The backend could not be reached or broke off: logging runs all the same,
\* and brings the count down.
logging(k) ==
    /\ pc[k] \in {"chosen", "sent"} /\ k \in Clients
    /\ open' = closed("http", member[k])
    /\ Logged(k)
    /\ UNCHANGED <<balanceVars, seen, slot, cookie, gates, free, line, cursor>>

\* Mutant: the context goes and its slot is not given back.
DropKeepingSlot(k) ==
    /\ pc[k] = "logged"
    /\ Forget(k)
    /\ UNCHANGED <<balanceVars, cookie, gates, free, line, open, cursor>>

\* The context goes, and the slot with it.
drop(k) ==
    /\ pc[k] = "logged"
    /\ free' = IF slot[k] = None THEN free ELSE [free EXCEPT ![slot[k]] = @ + 1]
    /\ Forget(k)
    /\ UNCHANGED <<balanceVars, cookie, gates, line, open, cursor>>

(***************************************************************************)
(* Steps of a stream connection, after load.                               *)
(***************************************************************************)

\* The ClientHello never came or was none, or there is nowhere to send it:
\* the connection is closed.
refuse(s) ==
    /\ pc[s] = "loaded" /\ s \in Streams
    /\ Forget(s)
    /\ UNCHANGED <<balanceVars, cookie, gates, free, line, open, cursor>>

\* StreamProxy::route.  Nothing reads the snapshot after this.
route(s) ==
    LET c    == seen[s].config
        pick == choose_by(c, Key[s], Total, cursor)
    IN  /\ pc[s] = "loaded" /\ s \in Streams
        /\ pick # None
        /\ pc' = [pc EXCEPT ![s] = "chosen"]
        /\ member' = [member EXCEPT ![s] = pick]
        /\ seen' = [seen EXCEPT ![s] = None]
        /\ cursor' = after_choice(c, cursor)
        /\ UNCHANGED <<balanceVars, slot, cookie, gates, free, line, open>>

\* The member did not accept in time, or went away before the header or the
\* ClientHello was written.  Nothing was counted yet.
unreachable(s) ==
    /\ pc[s] = "chosen" /\ s \in Streams
    /\ Forget(s)
    /\ UNCHANGED <<balanceVars, cookie, gates, free, line, open, cursor>>

\* Counted::open, and the copying begins.
couple(s) ==
    /\ pc[s] = "chosen" /\ s \in Streams
    /\ pc' = [pc EXCEPT ![s] = "sent"]
    /\ open' = opened("stream", member[s])
    /\ UNCHANGED <<balanceVars, seen, slot, member, cookie, gates, free,
                   line, cursor>>

\* Either side went away or the connection was idle too long.
hangUp(s) ==
    /\ pc[s] = "sent" /\ s \in Streams
    /\ open' = closed("stream", member[s])
    /\ Forget(s)
    /\ UNCHANGED <<balanceVars, cookie, gates, free, line, cursor>>

(***************************************************************************)
(* The specification.                                                      *)
(***************************************************************************)
Surroundings ==
    /\ apply \/ Verdict
    /\ UNCHANGED <<requestVars, gates, free, line, open, cursor>>

Request(k) ==
    \/ load(k) \/ AnswerHere(k) \/ AskForSlot(k) \/ enter(k)
    \/ forward(k) \/ respond(k) \/ logging(k) \/ drop(k)

Connection(s) ==
    \/ load(s) \/ refuse(s) \/ route(s) \/ unreachable(s) \/ couple(s) \/ hangUp(s)

Next ==
    \/ Surroundings
    \/ \E k \in Clients : Request(k)
    \/ \E s \in Streams : Connection(s)

Spec == Init /\ [][Next]_vars

\* The runtime goes on with whatever can go on, and every request ends:
\* timeouts see to that where the backend does not.  New requests are not
\* assumed.
Fairness ==
    \A k \in Clients :
        WF_vars(AnswerHere(k) \/ AskForSlot(k) \/ enter(k) \/ logging(k) \/ drop(k))

FairSpec == Spec /\ Fairness

(***************************************************************************)
(* Properties.                                                             *)
(***************************************************************************)
TypeOK ==
    /\ BalanceTypeOK
    /\ pc \in [Callers -> HttpSteps]
    /\ \A s \in Streams : pc[s] \in StreamSteps
    /\ seen \in [Callers -> {None} \cup [generation : 0 .. MaxDeliveries, config : Configs]]
    /\ slot \in [Callers -> Gates \cup {None}]
    /\ gates \in {None} \cup [size : Nat \ {0}, gate : Gates]
    /\ free \in [Gates -> Nat]
    /\ open \in [{"http", "stream"} -> [Members -> Nat]]
    /\ cursor \in 0 .. Wrap - 1

\* The count of open connections the balancer keeps for a member is the
\* number of requests that were given it and are not logged, and of
\* connections coupled to it: closed undoes opened exactly once, whichever
\* way a request ends and whatever was delivered in between.
CountsMatch ==
    \A m \in Members :
        /\ open["http"][m] =
              Cardinality({k \in Clients : member[k] = m /\ pc[k] \in {"chosen", "sent"}})
        /\ open["stream"][m] =
              Cardinality({s \in Streams : member[s] = m /\ pc[s] = "sent"})

\* A gate never loses a slot and never makes one up: its free permits and the
\* requests that hold one of its slots add up to the limit of the snapshot of
\* everybody who waits at it or holds a slot of it, also after the map has
\* moved on to another gate.
SlotsMatch ==
    \A k \in Clients :
        slot[k] # None =>
            free[slot[k]] + Cardinality({other \in Clients : Holds(other) /\ slot[other] = slot[k]})
                = seen[k].config.size

\* A request is given only a member that its own snapshot has in service and
\* that health checking has not taken out at that moment, by cookie or not.
NeverToTheDown ==
    [][\A k \in Callers :
           member[k] = None /\ member'[k] # None =>
               /\ member'[k] \in Range(enabled(seen[k].config))
               /\ member'[k] \notin down]_vars

\* A request that waits for a slot gets one, or is answered, however often
\* the gate is replaced meanwhile.
WaitEnds == \A k \in Clients : []<>~Waiting(k)

\* What the balancer and the gates count is what there is, whichever way a
\* request ends and whatever is delivered in between (balance.rs closed,
\* pool.rs Gates).
Accounted == TypeOK /\ CountsMatch /\ SlotsMatch
==============================================================================
