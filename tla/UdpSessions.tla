----------------------------- MODULE UdpSessions -----------------------------
(***************************************************************************)
(* One UDP frontend: its session table (udp.rs), the loop that forwards    *)
(* datagrams (udpproxy.rs), and how the process leaves once it is told to  *)
(* stop (UdpService, DrainCount and shutdown_conf of server.rs).           *)
(*                                                                         *)
(* The table is the set of clients that have a session and `order`, the    *)
(* clients by use, longest ago first: the rank of the code only orders     *)
(* them.  Time is in ticks of which an idle or a drain timeout has a few;  *)
(* the sweep runs at least once a tick.  Opening the socket of a new       *)
(* session is a wait of its own, during which the loop does nothing else   *)
(* but the configuration and the verdicts may change; binding a UDP socket *)
(* asks nobody, so no tick passes.                                         *)
(*                                                                         *)
(* The process has one more UDP frontend, `other`, of which only the       *)
(* progress is modelled.                                                   *)
(***************************************************************************)
EXTENDS Balance, SequencesExt

CONSTANTS Clients,    \* addresses that send datagrams
          Key,        \* where an address and port hash to
          DefaultLimit, DefaultIdle,  \* what a setting of zero stands for
          Watched,    \* those whose answers and choices are followed
          Alone       \* whether the process has no TCP listener

VARIABLES order,      \* the clients with a session, by use
          pinned,     \* the member each of them is pinned to
          idle,       \* ticks since its client last sent a datagram
          quiet,      \* ticks since it carried one in either direction
          table,      \* the limit and the idle timeout the table runs with
          pending,    \* the datagram whose socket is being opened
          draining,   \* ticks since the stop signal, None before it
          returned,   \* whether the loop has ended
          other,      \* the other UDP frontend of the process
          left,       \* DrainCount: frontends still to drain
          process,    \* "up", or how it went: "left" early or at its "grace"
          grace,      \* the grace period, from the first configuration
          swept,      \* whether the table was swept in this tick
          cursor,     \* Balancer: the round robin cursor
          last        \* the last choice made for each client

tableVars == <<order, pinned, idle, quiet, table>>
processVars == <<draining, returned, other, left, process, grace>>
vars == <<balanceVars, tableVars, pending, processVars, swept, cursor, last>>

\* Sessions::settings: zero means the default.
settings(c) == [limit |-> IF c.limit = 0 THEN DefaultLimit ELSE c.limit,
                idle |-> IF c.idle = 0 THEN DefaultIdle ELSE c.idle]

\* Ages are counted up to the longest timeout, drains up to the longest drain.
Oldest == Max({settings(c).idle : c \in Configs})
LongestDrain == Max({c.drain : c \in Configs} \cup {1})

\* shutdown_conf: the drain asked for, and never less than LEAST_GRACE.
shutdown_conf(c) == Max({c.drain, 1})

Up == process = "up"
Running == Up /\ ~returned
Sessions == Range(order)

(***************************************************************************)
(* The table.  Each operator is from the order of use to the order of use  *)
(* afterwards.                                                             *)
(***************************************************************************)
Without(clients) == SelectSeq(order, LAMBDA k : k \notin clients)
Newest(n, list) == SubSeq(list, Len(list) - n + 1, Len(list))

\* refresh: the client moves to the end.
refresh(k) == Append(Without({k}), k)

\* Mutant: room is made only once the table is past its limit.
InsertLate(k) ==
    Append(IF Len(order) > table.limit THEN Tail(order) ELSE order, k)

\* Mutant: the session that makes room is the one used last.
InsertForNewest(k) ==
    Append(IF Len(order) >= table.limit THEN Front(order) ELSE order, k)

\* insert of a client that has none: the one used longest ago makes room.
insert(k) ==
    Append(IF Len(order) >= table.limit THEN Tail(order) ELSE order, k)

\* retune: a lowered limit is met at once.
retune(limit) == IF Len(order) > limit THEN Newest(limit, order) ELSE order

\* retain_members keeps a session whose member can take traffic.
missing(k) == pinned[k] \notin Range(eligible(live.config))

(***************************************************************************)
(* Initial state.                                                          *)
(***************************************************************************)
Init ==
    /\ BalanceInit
    /\ order = <<>>
    /\ pinned = [k \in Clients |-> None]
    /\ idle = [k \in Clients |-> 0]
    /\ quiet = [k \in Clients |-> 0]
    /\ table = settings(live.config)
    /\ pending = None
    /\ draining = None
    /\ returned = FALSE
    /\ other \in {"serving", "failed"}
    /\ left = 2
    /\ process = "up"
    /\ grace = shutdown_conf(live.config)
    /\ swept = FALSE
    /\ cursor = 0
    /\ last = [k \in Clients |-> None]

(***************************************************************************)
(* Datagrams.                                                              *)
(***************************************************************************)

\* forward, for a client that has a session.
forwardKnown(k) ==
    /\ Running /\ pending = None /\ k \in Sessions
    /\ order' = refresh(k)
    /\ idle' = [idle EXCEPT ![k] = 0]
    /\ quiet' = [quiet EXCEPT ![k] = 0]
    /\ UNCHANGED <<balanceVars, pinned, table, pending, processVars, swept, cursor,
                   last>>

\* forward, for one that has none: a member is chosen and its socket opened.
\* With nobody to take it the datagram is dropped.
forwardNew(k) ==
    LET m == choose_by(live.config, Key[k], [n \in Members |-> 0], cursor)
    IN  /\ Running /\ pending = None /\ k \notin Sessions
        /\ m # None
        /\ pending' = [client |-> k, member |-> m]
        /\ cursor' = after_choice(live.config, cursor)
        /\ last' = [last EXCEPT ![k] =
                        IF k \in Watched /\ live.config.algorithm = "consistent_hash"
                        THEN [member |-> m, among |-> Range(eligible(live.config))]
                        ELSE None]
        /\ UNCHANGED <<balanceVars, tableVars, processVars, swept>>

\* The socket cannot be opened.
openFails ==
    /\ Running /\ pending # None
    /\ pending' = None
    /\ UNCHANGED <<balanceVars, tableVars, processVars, swept, cursor, last>>

\* The socket is open.  A frontend that drains lets it pass; one that does
\* not puts it in the table.
opened ==
    /\ Running /\ pending # None
    /\ pending' = None
    /\ order' = IF draining # None THEN order ELSE insert(pending.client)
    /\ pinned' = [k \in Clients |->
                     IF k \notin Range(order') THEN None
                     ELSE IF k = pending.client THEN pending.member ELSE pinned[k]]
    /\ idle' = [k \in Clients |-> IF k \in Range(order') THEN idle[k] ELSE 0]
    /\ quiet' = [k \in Clients |-> IF k \in Range(order') THEN quiet[k] ELSE 0]
    /\ UNCHANGED <<balanceVars, table, processVars, swept, cursor, last>>

\* The reader of a session sends an answer back to the client.  It does not
\* touch the table.
answer(k) ==
    /\ Running /\ k \in Sessions \cap Watched /\ quiet[k] # 0
    /\ quiet' = [quiet EXCEPT ![k] = 0]
    /\ UNCHANGED <<balanceVars, order, pinned, idle, table, pending, processVars,
                   swept, cursor, last>>

(***************************************************************************)
(* Sweeping and leaving.                                                   *)
(***************************************************************************)

\* DrainCount::finished: the last frontend, and nothing else to wait for.
finished == Alone /\ left <= 1

\* run has returned after the signal: the frontend is counted as drained, and
\* the process leaves if it was the last.
Return ==
    /\ returned' = TRUE
    /\ left' = left - 1
    /\ process' = IF finished THEN "left" ELSE process

\* One turn of the sweep: the settings, what is idle, what lost its member,
\* and, when draining, the two ways out.
sweep ==
    LET now  == settings(live.config)
        kept == SelectSeq(retune(now.limit), LAMBDA k : idle[k] < now.idle /\ ~missing(k))
        over == draining # None /\ (kept = <<>> \/ draining >= live.config.drain)
    IN  /\ Running /\ pending = None
        /\ table' = now
        /\ order' = IF over THEN <<>> ELSE kept
        /\ pinned' = [k \in Clients |-> IF k \in Range(order') THEN pinned[k] ELSE None]
        /\ idle' = [k \in Clients |-> IF k \in Range(order') THEN idle[k] ELSE 0]
        /\ quiet' = [k \in Clients |-> IF k \in Range(order') THEN quiet[k] ELSE 0]
        /\ swept' = TRUE
        /\ IF over THEN Return ELSE UNCHANGED <<returned, left, process>>
        /\ UNCHANGED <<balanceVars, pending, draining, other, grace,
                       cursor, last>>

\* The signal.  An empty table is drained at once.
stop ==
    /\ Running /\ pending = None /\ draining = None
    /\ draining' = 0
    /\ IF order = <<>> THEN Return ELSE UNCHANGED <<returned, left, process>>
    /\ UNCHANGED <<balanceVars, tableVars, pending, other, grace, swept, cursor, last>>

\* The other frontend has drained.  One that could not bind has returned
\* before the signal and is never counted.
otherDrained ==
    /\ Up /\ draining # None /\ other = "serving"
    /\ other' = "drained"
    /\ left' = left - 1
    /\ process' = IF finished THEN "left" ELSE process
    /\ UNCHANGED <<balanceVars, tableVars, pending, draining, returned, grace, swept,
                   cursor, last>>

\* Mutant: only the count of drained frontends ends the process.
GraceForTheDrained ==
    /\ Up /\ draining # None /\ draining >= grace /\ returned /\ other = "drained"
    /\ process' = "grace"
    /\ UNCHANGED <<balanceVars, tableVars, pending, draining, returned, other, left,
                   grace, swept, cursor, last>>

\* pingora sleeps out the grace period and ends the process.
graceOver ==
    /\ Up /\ draining # None /\ draining >= grace
    /\ process' = "grace"
    /\ UNCHANGED <<balanceVars, tableVars, pending, draining, returned, other, left,
                   grace, swept, cursor, last>>

Older(ages) == [k \in Clients |-> IF k \in Sessions THEN Min({ages[k] + 1, Oldest})
                                 ELSE 0]

\* A tick passes once the table has been swept, and none passes the grace
\* period.
Tick ==
    /\ Up /\ pending = None /\ (swept \/ returned)
    /\ draining # None => draining < grace
    /\ swept' = FALSE
    /\ idle' = Older(idle)
    /\ quiet' = Older(quiet)
    /\ draining' = IF draining = None THEN None ELSE Min({draining + 1, LongestDrain})
    /\ UNCHANGED <<balanceVars, order, pinned, table, pending, returned, other, left,
                   process, grace, cursor, last>>

(***************************************************************************)
(* The specification.                                                      *)
(***************************************************************************)
Surroundings ==
    /\ Up
    /\ apply \/ Verdict
    /\ UNCHANGED <<tableVars, pending, processVars, swept, cursor, last>>

Next ==
    \/ Surroundings
    \/ \E k \in Clients : forwardKnown(k) \/ forwardNew(k) \/ answer(k)
    \/ openFails \/ opened
    \/ sweep \/ stop \/ otherDrained \/ graceOver \/ Tick

Spec == Init /\ [][Next]_vars

\* Time passes, a socket opens or fails, and pingora ends the process after
\* the grace period.  select! takes a ready branch at random, so datagrams
\* that never stop coming do not keep the sweep from its turn, and no number
\* of them stops the clock: both are fair although a datagram interrupts
\* them.  Nothing is assumed of the clients, the signal or the other frontend.
Fairness ==
    /\ SF_vars(Tick)
    /\ SF_vars(sweep)
    /\ WF_vars(openFails \/ opened)
    /\ WF_vars(graceOver)

FairSpec == Spec /\ Fairness

(***************************************************************************)
(* Properties.                                                             *)
(***************************************************************************)
\* The table never holds more sessions than the limit it runs with, "even for
\* an instant": not while a socket was being opened, and not when a delivery
\* has lowered the limit.  The order of use and the pinned members agree on
\* who has a session, each client having one.
Bounded ==
    /\ Len(order) <= table.limit
    /\ Cardinality(Sessions) = Len(order)
    /\ \A k \in Clients : k \in Sessions <=> pinned[k] \in Members

\* A session is evicted to make room only when no other has been idle for
\* longer, and the one that is coming in is never the one that goes.
EvictsLeastUsed ==
    [][opened => /\ \A k \in Sessions \ Range(order') :
                        \A other_k \in Sessions : idle[other_k] <= idle[k]
                 /\ draining = None => pending.client \in Range(order')]_vars

\* Once the stop signal has been seen the set of sessions only shrinks: a new
\* client's datagrams still pass, but leave no session behind.
DrainOnlyShrinks ==
    [][draining # None => Range(order') \subseteq Sessions]_vars

\* The process leaves before its grace period only when every one of its UDP
\* frontends has drained, so nobody's sessions are cut by another's end, and
\* then it does not wait for the grace period.
LeavesWhenDrained == (process = "left") <=> (Alone /\ returned /\ other = "drained")

\* A client whose session is gone is sent back to the member it had, as long
\* as that one can take traffic and nobody has come back or been added:
\* losing the entry is safe, and another member's failure moves nobody.
LandsOnTheSame ==
    [][\A k \in Clients :
           (/\ last[k] # None /\ pending = None /\ pending' # None
            /\ pending'.client = k
            /\ live.config.algorithm = "consistent_hash"
            /\ last[k].member \in Range(eligible(live.config))
            /\ Range(eligible(live.config)) \subseteq last[k].among)
               => pending'.member = last[k].member]_vars

\* A session is dropped as idle only when it has carried no datagram for the
\* idle timeout, in either direction, as the comment on Session.used says.
QuietBeforeExpiry ==
    [][sweep => \A k \in Sessions \ Range(order') :
                   \/ quiet[k] >= table'.idle
                   \/ missing(k)
                   \/ Len(order) > table'.limit
                   \/ returned']_vars

\* When a member stays out of rotation, no session stays pinned to it.
NoneLeftBehind ==
    \A m \in Members :
        <>[](m \in down) => <>[](Running => \A k \in Clients : pinned[k] # m)

\* A process that was told to stop is gone in the end, whatever its clients
\* go on sending and however the drain timeout is changed meanwhile.
StopEnds == draining # None ~> ~Up

\* A session is nowhere but where it should be: a client that comes back lands
\* on the member it had, and nobody stays on a member that is out (udpproxy.rs
\* session_for, missing).
PinnedRightly == LandsOnTheSame /\ NoneLeftBehind

\* A stop drains: no session comes to be any more, the process is gone in the
\* end, and leaves early exactly when every frontend has drained (udpproxy.rs
\* finished, server.rs graceful stop).
Drains == DrainOnlyShrinks /\ StopEnds /\ []LeavesWhenDrained
==============================================================================
