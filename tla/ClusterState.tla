---------------------------- MODULE ClusterState -----------------------------
(***************************************************************************)
(* Everybody who writes the replicated state of a cluster.                 *)
(*                                                                         *)
(* Sources: ek-ek-raft/src/join.rs (mint, admit, remove), cluster.rs       *)
(* (add_voter, remove_voter, write_audited) and ek-ek/src/cluster.rs       *)
(* (one_at_a_time, apply_once and the filing of an order).                 *)
(*                                                                         *)
(* The state is read whole from the node's own store, edited, and written  *)
(* back whole through the log.  A caller is one request in flight; it is   *)
(* suspended at every await, where other callers run and where it may be   *)
(* given up (a timeout, a connection that went away, a process that fell). *)
(* A write given up stays in the log and may still be agreed.              *)
(*                                                                         *)
(* Consensus itself is a library: here it is one log, a committed prefix,  *)
(* what each node has applied of it, and elections that keep at least the  *)
(* prefix.                                                                 *)
(***************************************************************************)
EXTENDS Naturals, Sequences, FiniteSets

CONSTANTS
    Setups,         \* the clusters looked at, each a record of the fields below
    Founder,        \* a voter that is never a caller's subject
    Tokens,         \* join tokens
    Orders,         \* certificate orders
    Callers,        \* requests that may be in flight at once
    None            \* nobody

VARIABLES
    setup,      \* the cluster of this behaviour, chosen once
    log,        \* entries: the whole state, and the request that proposed it
    committed,  \* length of the agreed prefix
    applied,    \* what each server's store holds of it
    leader,
    elections,  \* how many there have been
    voters,     \* the membership consensus holds
    expired,    \* tokens whose hour is over
    lock,       \* the Writer of each server's process
    call,       \* the request each caller is in
    told        \* entries whose caller was answered with success

Servers == setup.servers            \* run consensus and take requests
Names == setup.names                \* join and are removed
Minted == setup.minted              \* tokens handed out before it begins
Ops == setup.ops                    \* what callers ask for
MaxLog == setup.entries             \* bound: entries in the log
MaxElections == setup.elections     \* bound: changes of leader

ASSUME ClusterAssumption ==
    \A s \in Setups :
        /\ Founder \notin s.names /\ None \notin s.names \cup Callers
        /\ s.minted \subseteq Tokens
        /\ s.ops \subseteq {"mint", "admit", "remove", "apply", "file", "close"}
        /\ s.entries \in Nat /\ s.elections \in Nat

consensus == <<setup, log, committed, applied, leader, elections>>
vars == <<consensus, voters, expired, lock, call, told>>

\* The part of the snapshot the writers touch.  joins maps a minted token to
\* the node that used it, None before.
Founding == [nodes |-> {}, joins |-> [t \in Minted |-> None], removed |-> {},
             orders |-> {}]

StateAt(i) == IF i = 0 THEN Founding ELSE log[i].state
Agreed == StateAt(committed)

\* A request at server h about a token, a name or an order.  It has read what
\* `base` entries made and will write `next` over it.
Request(pc, op, h, token, name, order, next, base) ==
    [pc |-> pc, op |-> op, token |-> token, name |-> name, order |-> order,
     home |-> h, members |-> {}, next |-> next, base |-> base, at |-> 0]

Idle == Request("idle", None, None, None, None, None, Founding, 0)

In(c, pc) == call[c].pc = pc

\* A local read, which needs no quorum.
Read(h) == StateAt(applied[h])

Suspend(c, request) == call' = [call EXCEPT ![c] = request]

\* A request that ends lets go of the writer it holds.
Release(c) == lock' = [h \in Servers |-> IF lock[h] = c THEN None ELSE lock[h]]

\* Requests ------------------------------------------------------------------

\* Identifier and secret are drawn at random, so no token is minted twice.
Mint(c, h, t) ==
    /\ "mint" \in Ops /\ In(c, "idle")
    /\ t \notin Minted
    /\ \A i \in DOMAIN log : t \notin DOMAIN log[i].state.joins
    /\ \A d \in Callers : call[d].token # t
    /\ Suspend(c, Request("propose", "mint", h, t, None, None,
                    [Read(h) EXCEPT !.joins =
                        [u \in DOMAIN @ \cup {t} |-> IF u = t THEN None ELSE @[u]]],
                    applied[h]))
    /\ UNCHANGED <<consensus, voters, expired, lock, told>>

\* Mutant: the refusal list is not written.
Forgotten(s, n) == [s EXCEPT !.nodes = @ \ {n}]

\* What a removal makes of the state: the row goes and the name is refused.
Without(s, n) == [s EXCEPT !.nodes = @ \ {n}, !.removed = @ \cup {n}]

\* The checks of admit that every call makes, in its order.
Admitted(s, t, n) == /\ n \notin s.removed
                     /\ t \in DOMAIN s.joins
                     /\ s.joins[t] \in {None, n}

\* Mutant: a node votes on a token nobody has used.
FinishingEarly(s, t, n) == t \in DOMAIN s.joins /\ s.joins[t] \in {None, n}

Finishing(s, t, n) == t \in DOMAIN s.joins /\ s.joins[t] = n

\* The first call of a join: the config row and the mark on the token.
Admit(c, h, t, n) ==
    /\ "admit" \in Ops /\ In(c, "idle")
    /\ Admitted(Read(h), t, n) /\ ~Finishing(Read(h), t, n) /\ t \notin expired
    /\ Suspend(c, Request("propose", "admit", h, t, n, None,
                    [Read(h) EXCEPT !.nodes = @ \cup {n}, !.joins[t] = n], applied[h]))
    /\ UNCHANGED <<consensus, voters, expired, lock, told>>

\* The second call, which writes nothing and makes the node a voter.
Enlist(c, h, t, n) ==
    /\ "admit" \in Ops /\ In(c, "idle")
    /\ Admitted(Read(h), t, n) /\ Finishing(Read(h), t, n)
    /\ n \notin voters
    /\ Suspend(c, Request("addVoter", "enlist", h, t, n, None, Founding, 0))
    /\ UNCHANGED <<consensus, voters, expired, lock, told>>

\* Once the node has caught up, the voters it is to join are read.
AddVoter(c) ==
    /\ In(c, "addVoter") /\ leader = call[c].home
    /\ Suspend(c, [call[c] EXCEPT !.pc = "changeVoters",
                                  !.members = voters \cup {call[c].name}])
    /\ UNCHANGED <<consensus, voters, expired, lock, told>>

\* The state that will be written is the one read here, before the vote goes.
Remove(c, h, n) ==
    /\ "remove" \in Ops /\ In(c, "idle")
    /\ n \in Read(h).nodes
    /\ Suspend(c, Request("removeVoter", "remove", h, None, n, None,
                    Without(Read(h), n), applied[h]))
    /\ UNCHANGED <<consensus, voters, expired, lock, told>>

\* Refused for a node that does not vote, and for the only one that does.
RemoveVoter(c) ==
    /\ In(c, "removeVoter")
    /\ call[c].name \in voters /\ voters # {call[c].name}
    /\ Suspend(c, [call[c] EXCEPT !.pc = "changeVoters",
                                  !.members = voters \ {call[c].name}])
    /\ UNCHANGED <<consensus, voters, expired, lock, told>>

\* The set that was read, edited, becomes the membership.  One change is agreed
\* at a time; a caller that comes while one is open is refused (GiveUp).
ChangeVoters(c) ==
    /\ In(c, "changeVoters") /\ leader = call[c].home
    /\ voters' = call[c].members
    /\ Suspend(c, IF call[c].op = "remove" THEN [call[c] EXCEPT !.pc = "propose"]
                                           ELSE Idle)
    /\ UNCHANGED <<consensus, expired, lock, told>>

\* The writers of the node process queue for its lock, then read.
Write(c, h, op, order, next) ==
    /\ op \in Ops /\ In(c, "idle") /\ lock[h] = None
    /\ lock' = [lock EXCEPT ![h] = c]
    /\ Suspend(c, Request("propose", op, h, None, None, order, next, applied[h]))
    /\ UNCHANGED <<consensus, voters, expired, told>>

\* apply_once: the document replaces the configuration, node rows included.
ApplyOnce(c, h) ==
    \E rows \in SUBSET Names :
        Write(c, h, "apply", None, [Read(h) EXCEPT !.nodes = rows])

\* The record of an order, written before the certificate authority is asked.
OpenOrder(c, h, o) ==
    /\ o \notin Read(h).orders
    /\ Write(c, h, "file", o, [Read(h) EXCEPT !.orders = @ \cup {o}])

\* What the order has reached goes into its record, which has to be there.
FileReached(c, h, o) ==
    /\ o \in Read(h).orders
    /\ Write(c, h, "file", o, Read(h))

CloseOrder(c, h, o) ==
    /\ o \in Read(h).orders
    /\ Write(c, h, "close", o, [Read(h) EXCEPT !.orders = @ \ {o}])

Locked == {"apply", "file", "close"}

Entry(c) == [state |-> call[c].next, by |-> c, op |-> call[c].op,
             token |-> call[c].token, name |-> call[c].name,
             order |-> call[c].order, base |-> call[c].base]

\* Mutant: the writer is let go before the state is written.
ProposeUnlocked(c) ==
    /\ In(c, "propose") /\ leader = call[c].home /\ Len(log) < MaxLog
    /\ log' = Append(log, Entry(c))
    /\ Suspend(c, [call[c] EXCEPT !.pc = "wait", !.at = Len(log) + 1])
    /\ Release(c)
    /\ UNCHANGED <<setup, committed, applied, leader, elections, voters, expired, told>>

\* write_audited: leadership is confirmed, then the entry is proposed.
Propose(c) ==
    /\ In(c, "propose") /\ leader = call[c].home /\ Len(log) < MaxLog
    /\ log' = Append(log, Entry(c))
    /\ Suspend(c, [call[c] EXCEPT !.pc = "wait", !.at = Len(log) + 1])
    /\ UNCHANGED <<setup, committed, applied, leader, elections, voters, expired, lock,
                   told>>

\* The entry was agreed and applied where it was proposed: success.
Answered(c) ==
    /\ In(c, "wait") /\ applied[call[c].home] >= call[c].at
    /\ log[call[c].at].by = c
    /\ told' = told \cup {call[c].at}
    /\ Suspend(c, Idle) /\ Release(c)
    /\ UNCHANGED <<consensus, voters, expired>>

\* A refusal, a timeout, a dropped connection: the caller is told of failure or
\* of nothing.  What it proposed stays proposed.
GiveUp(c) == /\ ~In(c, "idle")
             /\ Suspend(c, Idle) /\ Release(c)
             /\ UNCHANGED <<consensus, voters, expired, told>>

\* Consensus and time --------------------------------------------------------

Commit == /\ committed < Len(log)
          /\ committed' = committed + 1
          /\ UNCHANGED <<setup, log, applied, leader, elections, voters, expired, lock,
                         call, told>>

Apply(h) == /\ applied[h] < committed
            /\ applied' = [applied EXCEPT ![h] = @ + 1]
            /\ UNCHANGED <<setup, log, committed, leader, elections, voters, expired,
                           lock, call, told>>

\* Another server leads.  It holds what was agreed, perhaps more, and its store
\* may lag behind both.
Elect(h) == /\ elections < MaxElections /\ h # leader
            /\ elections' = elections + 1
            /\ leader' = h
            /\ \E kept \in committed..Len(log) : log' = SubSeq(log, 1, kept)
            /\ UNCHANGED <<setup, committed, applied, voters, expired, lock, call, told>>

Expire(t) == /\ t \notin expired
             /\ expired' = expired \cup {t}
             /\ UNCHANGED <<consensus, voters, lock, call, told>>

Init == /\ setup \in Setups
        /\ log = << >> /\ committed = 0 /\ applied = [h \in Servers |-> 0]
        /\ leader \in Servers /\ elections = 0
        /\ voters = {Founder} /\ expired = {}
        /\ lock = [h \in Servers |-> None] /\ call = [c \in Callers |-> Idle]
        /\ told = {}

Asks(c, h) == \/ \E t \in Tokens : Mint(c, h, t)
              \/ \E t \in Tokens, n \in Names : Admit(c, h, t, n) \/ Enlist(c, h, t, n)
              \/ \E n \in Names : Remove(c, h, n)
              \/ ApplyOnce(c, h)
              \/ \E o \in Orders : \/ OpenOrder(c, h, o) \/ FileReached(c, h, o)
                                   \/ CloseOrder(c, h, o)

Next == \/ \E c \in Callers : \/ \E h \in Servers : Asks(c, h)
                              \/ AddVoter(c) \/ RemoveVoter(c) \/ ChangeVoters(c)
                              \/ Propose(c) \/ Answered(c) \/ GiveUp(c)
        \/ Commit
        \/ \E h \in Servers : Apply(h) \/ Elect(h)
        \/ \E t \in Tokens : Expire(t)

Spec == Init /\ [][Next]_vars

\* Properties ----------------------------------------------------------------

\* A node votes only after the first call of its join was agreed, whatever
\* overlaps, is given up or fails over (join.rs:190-205).
VoterWasAdmitted ==
    \A n \in voters \ {Founder} : \E i \in 1..committed, t \in Tokens :
        t \in DOMAIN log[i].state.joins /\ log[i].state.joins[t] = n

\* An entry whose writer had not read what entry i wrote.
Overwritten(i) == \E j \in DOMAIN log : i < j /\ log[j].base < i

\* The entries of one kind whose caller knows of them.
Told(op) == {i \in told : log[i].op = op}

\* A join token admits one node: a second node that presents it is refused
\* (join.rs:256-258, "which is what single use means").
SingleUse == \A i, j \in Told("admit") :
                 log[i].token = log[j].token => log[i].name = log[j].name

\* A removal that was answered stays on the refusal list (join.rs:239-241, "A
\* node this cluster removed does not come back under the same name").
RemovedStaysRefused == \A i \in Told("remove") : log[i].name \in Agreed.removed

\* What an order filed is there until the order is closed: no other writer takes
\* a challenge answer with it (ek-ek/src/cluster.rs:808-812).
FiledIsKept ==
    \A i \in Told("file") :
        \/ log[i].order \in Agreed.orders
        \/ \E j \in i..committed : log[j].op = "close" /\ log[j].order = log[i].order

\* Whatever callers were promised holds, unless a request that read an older
\* state wrote it back over theirs: giving up, writes that land late, expired
\* tokens and changes of leader break nothing by themselves.
PromisesKept == (\A i \in told : ~Overwritten(i))
                  => SingleUse /\ RemovedStaysRefused /\ FiledIsKept

\* Under one leader the lock of the node process keeps its writers apart: none
\* of them writes over what another of them was told is agreed
\* (ek-ek/src/cluster.rs:860, "with no other writer in between").
LockKeepsOut ==
    elections = 0 =>
        \A i \in told, j \in DOMAIN log :
            i < j /\ log[j].base < i
            => ~(log[i].op \in Locked /\ log[j].op \in Locked)
==============================================================================
