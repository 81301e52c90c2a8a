------------------------- MODULE ClusterStateProofs --------------------------
(***************************************************************************)
(* Proofs about ClusterState, for every set of clusters, callers, tokens   *)
(* and orders and every bound on the log and the elections.                *)
(***************************************************************************)
EXTENDS ClusterState, Integers, TLAPS

IsSeq(s) == \E S : s \in Seq(S)

\* A request is a record of these fields, whatever state it carries.
IsCall(r) ==
    /\ r = [pc |-> r.pc, op |-> r.op, token |-> r.token, name |-> r.name,
            order |-> r.order, home |-> r.home, members |-> r.members,
            next |-> r.next, base |-> r.base, at |-> r.at]
    /\ r.base \in Nat /\ r.at \in Nat

LogOK == /\ setup \in Setups
         /\ IsSeq(log)
         /\ committed \in 0..Len(log)
         /\ applied \in [Servers -> Nat]
         /\ \A h \in Servers : applied[h] <= committed
         /\ elections \in Nat
         /\ leader \in Servers

CallsOK == /\ lock \in [Servers -> Callers \cup {None}]
           /\ call = [c \in Callers |-> call[c]]
           /\ \A c \in Callers : IsCall(call[c])
           /\ told \subseteq Nat

(***************************************************************************)
(* Sequences.                                                              *)
(***************************************************************************)

\* The length of a sequence, and what it is defined on.
LEMMA SeqLength ==
  ASSUME NEW s, IsSeq(s)
  PROVE  Len(s) \in Nat /\ DOMAIN s = 1..Len(s)
  BY DEF IsSeq

\* Appending to a log keeps what it holds.
LEMMA Appended ==
  ASSUME NEW s, IsSeq(s), NEW e
  PROVE  /\ IsSeq(Append(s, e))
         /\ Len(Append(s, e)) = Len(s) + 1
         /\ \A i \in 1..Len(s) : Append(s, e)[i] = s[i]
         /\ Append(s, e)[Len(s) + 1] = e
  <1>1. PICK S : s \in Seq(S)
    BY DEF IsSeq
  <1>2. s \in Seq(S \cup {e})
    BY <1>1
  <1> QED
    BY <1>2 DEF IsSeq

\* A log that is cut back keeps what it is cut back to.
LEMMA CutBack ==
  ASSUME NEW s, IsSeq(s), NEW n \in 0..Len(s)
  PROVE  /\ IsSeq(SubSeq(s, 1, n))
         /\ Len(SubSeq(s, 1, n)) = n
         /\ \A i \in 1..n : SubSeq(s, 1, n)[i] = s[i]
  <1>1. PICK S : s \in Seq(S)
    BY DEF IsSeq
  <1>2. Len(s) \in Nat /\ n \in Int /\ \A i \in 1..n : s[i] \in S
    BY <1>1
  <1>3. /\ SubSeq(s, 1, n) \in Seq(S)
        /\ Len(SubSeq(s, 1, n)) = IF 1 <= n THEN n - 1 + 1 ELSE 0
        /\ \A i \in 1 .. n - 1 + 1 : SubSeq(s, 1, n)[i] = s[1 + i - 1]
    BY <1>2
  <1> QED
    BY <1>2, <1>3 DEF IsSeq

(***************************************************************************)
(* The log.                                                                *)
(***************************************************************************)

\* What is agreed stays what it is, whoever leads.
Grows == /\ committed <= committed'
         /\ \A i \in 1..committed : log'[i] = log[i]

\* A step of a caller that proposes nothing leaves the log alone.
LEMMA Untouched == LogOK /\ UNCHANGED consensus => LogOK' /\ Grows
  <1> SUFFICES ASSUME LogOK, UNCHANGED consensus
               PROVE  LogOK' /\ Grows
    OBVIOUS
  <1>1. committed \in Int
    BY SeqLength DEF LogOK
  <1> QED
    BY <1>1 DEF LogOK, consensus, Grows, Servers

\* Asking for something writes nothing yet.
LEMMA AsksLeavesLog ==
  ASSUME NEW c \in Callers, NEW h \in Servers, Asks(c, h)
  PROVE  UNCHANGED consensus
  BY Zenon DEF Asks, Mint, Admit, Enlist, Remove, ApplyOnce, OpenOrder, FileReached, CloseOrder,
         Write

\* Every step keeps the log in shape and what is agreed of it as it was.
LEMMA LogStep == LogOK /\ [Next]_vars => LogOK' /\ Grows
  <1> SUFFICES ASSUME LogOK, [Next]_vars
               PROVE  LogOK' /\ Grows
    OBVIOUS
  <1>0. Len(log) \in Nat /\ DOMAIN log = 1..Len(log) /\ committed \in Nat
    BY SeqLength DEF LogOK
  <1>1. ASSUME NEW c \in Callers, NEW h \in Servers, Asks(c, h)
        PROVE  UNCHANGED consensus
    BY <1>1, AsksLeavesLog
  <1>2. ASSUME NEW c \in Callers,
               AddVoter(c) \/ RemoveVoter(c) \/ ChangeVoters(c) \/ Answered(c) \/ GiveUp(c)
        PROVE  UNCHANGED consensus
    BY <1>2 DEF AddVoter, RemoveVoter, ChangeVoters, Answered, GiveUp
  <1>3. ASSUME NEW c \in Callers, Propose(c)
        PROVE  LogOK' /\ Grows
    <2>1. /\ IsSeq(log') /\ Len(log') = Len(log) + 1
          /\ \A i \in 1..Len(log) : log'[i] = log[i]
      BY <1>3, Appended DEF Propose, LogOK
    <2> QED
      BY <1>0, <1>3, <2>1 DEF Propose, LogOK, Grows, Servers
  <1>4. CASE Commit
    BY <1>0, <1>4 DEF Commit, LogOK, Grows, Servers
  <1>5. ASSUME NEW h \in Servers, Apply(h)
        PROVE  LogOK' /\ Grows
    <2>1. applied' \in [Servers -> Nat]
      BY <1>5 DEF Apply, LogOK
    <2>2. \A g \in Servers : applied'[g] <= committed
      BY <1>0, <1>5 DEF Apply, LogOK
    <2> QED
      BY <1>0, <1>5, <2>1, <2>2 DEF Apply, LogOK, Grows, Servers
  <1>6. ASSUME NEW h \in Servers, Elect(h)
        PROVE  LogOK' /\ Grows
    <2>1. PICK kept \in committed..Len(log) : log' = SubSeq(log, 1, kept)
      BY <1>6 DEF Elect
    <2>2. /\ IsSeq(log') /\ Len(log') = kept
          /\ \A i \in 1..kept : log'[i] = log[i]
      BY <1>0, <2>1, CutBack DEF LogOK
    <2> QED
      BY <1>0, <1>6, <2>1, <2>2 DEF Elect, LogOK, Grows, Servers
  <1>7. ASSUME NEW t \in Tokens, Expire(t)
        PROVE  UNCHANGED consensus
    BY <1>7 DEF Expire
  <1>8. CASE UNCHANGED vars
    BY <1>8, Untouched DEF vars
  <1> QED
    BY <1>1, <1>2, <1>3, <1>4, <1>5, <1>6, <1>7, <1>8, Untouched DEF Next

(***************************************************************************)
(* The requests.                                                           *)
(***************************************************************************)

\* A request somebody makes is one, as is nobody's.
LEMMA RequestIsCall ==
  ASSUME NEW pc, NEW op, NEW h, NEW token, NEW name, NEW order, NEW next, NEW base \in Nat
  PROVE  /\ IsCall(Request(pc, op, h, token, name, order, next, base))
         /\ Request(pc, op, h, token, name, order, next, base).pc = pc
         /\ Request(pc, op, h, token, name, order, next, base).op = op
         /\ Request(pc, op, h, token, name, order, next, base).home = h
         /\ Request(pc, op, h, token, name, order, next, base).name = name
         /\ Request(pc, op, h, token, name, order, next, base).base = base
         /\ Request(pc, op, h, token, name, order, next, base).token = token
         /\ Request(pc, op, h, token, name, order, next, base).order = order
         /\ Request(pc, op, h, token, name, order, next, base).next = next
  BY DEF IsCall, Request

\* A caller at rest holds a whole request.
LEMMA IdleIsCall == IsCall(Idle) /\ Idle.pc = "idle"
  BY DEF IsCall, Idle, Request

\* Two requests that write the same.
SameWrite(q, r) == /\ q.op = r.op /\ q.token = r.token /\ q.name = r.name
                   /\ q.order = r.order /\ q.next = r.next /\ q.base = r.base

\* Going on to the next await changes the place.
LEMMA NextPlace ==
  ASSUME NEW r, IsCall(r), NEW p
  PROVE  /\ IsCall([r EXCEPT !.pc = p])
         /\ [r EXCEPT !.pc = p].pc = p
         /\ SameWrite([r EXCEPT !.pc = p], r)
         /\ [r EXCEPT !.pc = p].op = r.op
         /\ [r EXCEPT !.pc = p].home = r.home
         /\ [r EXCEPT !.pc = p].name = r.name
         /\ [r EXCEPT !.pc = p].base = r.base
         /\ [r EXCEPT !.pc = p].at = r.at
         /\ [r EXCEPT !.pc = p].members = r.members
  BY DEF IsCall, SameWrite

\* Noting the voters that were read changes nothing else.
LEMMA NextMembers ==
  ASSUME NEW r, IsCall(r), NEW ms
  PROVE  /\ IsCall([r EXCEPT !.members = ms])
         /\ [r EXCEPT !.members = ms].pc = r.pc
         /\ SameWrite([r EXCEPT !.members = ms], r)
         /\ [r EXCEPT !.members = ms].op = r.op
         /\ [r EXCEPT !.members = ms].members = ms
  BY DEF IsCall, SameWrite

\* Noting the position of the proposed entry changes nothing else.
LEMMA NextAt ==
  ASSUME NEW r, IsCall(r), NEW i \in Nat
  PROVE  /\ IsCall([r EXCEPT !.at = i])
         /\ [r EXCEPT !.at = i].pc = r.pc
         /\ [r EXCEPT !.at = i].op = r.op
         /\ [r EXCEPT !.at = i].home = r.home
         /\ [r EXCEPT !.at = i].base = r.base
         /\ [r EXCEPT !.at = i].at = i
  BY DEF IsCall

\* A caller goes on with request r and everybody else is where they were.
Becomes(c, r) == /\ IsCall(r)
                 /\ call' = [call EXCEPT ![c] = r]

\* The requests that are proposed right away.
LEMMA Proposing ==
  ASSUME LogOK, NEW c \in Callers, NEW h \in Servers,
         \/ \E t \in Tokens : Mint(c, h, t)
         \/ \E t \in Tokens, n \in Names : Admit(c, h, t, n)
  PROVE  /\ \E r : Becomes(c, r) /\ r.pc = "propose" /\ r.op \in {"mint", "admit"}
         /\ UNCHANGED <<consensus, voters, expired, lock, told>>
  <1>1. applied[h] \in Nat
    BY DEF LogOK
  <1>2. ASSUME NEW t \in Tokens, Mint(c, h, t)
        PROVE  \E r : Becomes(c, r) /\ r.pc = "propose" /\ r.op = "mint"
    <2> DEFINE next == [Read(h) EXCEPT !.joins =
                           [u \in DOMAIN @ \cup {t} |-> IF u = t THEN None ELSE @[u]]]
               r == Request("propose", "mint", h, t, None, None, next, applied[h])
    <2>1. call' = [call EXCEPT ![c] = r]
      BY <1>2 DEF Mint, Suspend
    <2> HIDE DEF next
    <2>2. IsCall(r) /\ r.pc = "propose" /\ r.op = "mint"
      BY <1>1, RequestIsCall
    <2> QED
      BY Zenon, <2>1, <2>2 DEF Becomes
  <1>3. ASSUME NEW t \in Tokens, NEW n \in Names, Admit(c, h, t, n)
        PROVE  \E r : Becomes(c, r) /\ r.pc = "propose" /\ r.op = "admit"
    <2> DEFINE next == [Read(h) EXCEPT !.nodes = @ \cup {n}, !.joins[t] = n]
               r == Request("propose", "admit", h, t, n, None, next, applied[h])
    <2>1. call' = [call EXCEPT ![c] = r]
      BY Zenon, <1>3 DEF Admit, Suspend
    <2> HIDE DEF next
    <2>2. IsCall(r) /\ r.pc = "propose" /\ r.op = "admit"
      BY <1>1, RequestIsCall
    <2> QED
      BY Zenon, <2>1, <2>2 DEF Becomes
  <1>4. UNCHANGED <<consensus, voters, expired, lock, told>>
    BY Zenon DEF Mint, Admit
  <1> QED
    BY <1>2, <1>3, <1>4

\* The writers of the node process, which take its lock as they read.
LEMMA Writing ==
  ASSUME LogOK, NEW c \in Callers, NEW h \in Servers,
         ApplyOnce(c, h) \/ \E o \in Orders : \/ OpenOrder(c, h, o) \/ FileReached(c, h, o)
                                              \/ CloseOrder(c, h, o)
  PROVE  /\ \E r : /\ Becomes(c, r) /\ r.pc = "propose" /\ r.op \in Locked
                   /\ r.home = h /\ r.base = applied[h]
         /\ lock[h] = None /\ lock' = [lock EXCEPT ![h] = c]
         /\ UNCHANGED <<consensus, voters, expired, told>>
  <1>1. applied[h] \in Nat
    BY DEF LogOK
  <1>2. PICK op \in Locked : \E o, next : Write(c, h, op, o, next)
    BY Zenon DEF ApplyOnce, OpenOrder, FileReached, CloseOrder, Locked
  <1>3. PICK o, next : Write(c, h, op, o, next)
    BY <1>2
  <1> DEFINE r == Request("propose", op, h, None, None, o, next, applied[h])
  <1>4. call' = [call EXCEPT ![c] = r]
    BY <1>3 DEF Write, Suspend
  <1>5. /\ IsCall(r) /\ r.pc = "propose" /\ r.op \in Locked
        /\ r.home = h /\ r.base = applied[h]
    BY <1>1, RequestIsCall
  <1> QED
    BY Zenon, <1>3, <1>4, <1>5 DEF Becomes, Write

\* The first step of a removal.
LEMMA Removing ==
  ASSUME LogOK, NEW c \in Callers, NEW h \in Servers, NEW n \in Names, Remove(c, h, n)
  PROVE  /\ \E r : Becomes(c, r) /\ r.pc = "removeVoter"
         /\ UNCHANGED <<consensus, voters, expired, lock, told>>
  <1>1. applied[h] \in Nat
    BY DEF LogOK
  <1> DEFINE next == Without(Read(h), n)
             r == Request("removeVoter", "remove", h, None, n, None, next, applied[h])
  <1>2. call' = [call EXCEPT ![c] = r]
    BY DEF Remove, Suspend
  <1> HIDE DEF next
  <1>3. IsCall(r) /\ r.pc = "removeVoter"
    BY <1>1, RequestIsCall
  <1> QED
    BY Zenon, <1>2, <1>3 DEF Becomes, Remove

\* The second call of a join.
LEMMA Enlisting ==
  ASSUME LogOK, NEW c \in Callers, NEW h \in Servers, NEW t \in Tokens, NEW n \in Names,
         Enlist(c, h, t, n)
  PROVE  /\ \E r : Becomes(c, r) /\ r.pc = "addVoter" /\ r.name = n
         /\ Finishing(Read(h), t, n)
         /\ UNCHANGED <<consensus, voters, expired, lock, told>>
  <1> DEFINE r == Request("addVoter", "enlist", h, t, n, None, Founding, 0)
  <1>1. call' = [call EXCEPT ![c] = r]
    BY DEF Enlist, Suspend
  <1>2. IsCall(r) /\ r.pc = "addVoter" /\ r.name = n
    BY RequestIsCall
  <1> QED
    BY Zenon, <1>1, <1>2 DEF Becomes, Enlist

\* Reading the voters before a change of them.
LEMMA ReadingVoters ==
  ASSUME CallsOK, NEW c \in Callers, AddVoter(c) \/ RemoveVoter(c)
  PROVE  /\ \E r : /\ Becomes(c, r) /\ r.pc = "changeVoters" /\ SameWrite(r, call[c])
                   /\ r.members \subseteq voters \cup {call[c].name}
                   /\ call[c].pc = "removeVoter" => r.members \subseteq voters
         /\ call[c].pc \in {"addVoter", "removeVoter"}
         /\ UNCHANGED <<consensus, voters, expired, lock, told>>
  <1> DEFINE q == [call[c] EXCEPT !.pc = "changeVoters"]
  <1>1. IsCall(q) /\ q.pc = "changeVoters" /\ SameWrite(q, call[c])
    BY NextPlace DEF CallsOK
  <1>2. CASE AddVoter(c)
    <2> DEFINE r == [q EXCEPT !.members = voters \cup {call[c].name}]
    <2>1. call' = [call EXCEPT ![c] = r]
      BY <1>2 DEF AddVoter, Suspend
    <2>2. IsCall(r) /\ r.pc = q.pc /\ r.members = voters \cup {call[c].name} /\ SameWrite(r, q)
      <3> HIDE DEF q
      <3> QED BY <1>1, NextMembers
    <2>3. call[c].pc = "addVoter" /\ UNCHANGED <<consensus, voters, expired, lock, told>>
      BY <1>2 DEF AddVoter, In
    <2> HIDE DEF q, r
    <2>4. SameWrite(r, call[c])
      BY Zenon, <1>1, <2>2 DEF SameWrite
    <2> QED
      BY Zenon, <1>1, <2>1, <2>2, <2>3, <2>4 DEF Becomes
  <1>3. CASE RemoveVoter(c)
    <2> DEFINE r == [q EXCEPT !.members = voters \ {call[c].name}]
    <2>1. call' = [call EXCEPT ![c] = r]
      BY <1>3 DEF RemoveVoter, Suspend
    <2>2. IsCall(r) /\ r.pc = q.pc /\ r.members = voters \ {call[c].name} /\ SameWrite(r, q)
      <3> HIDE DEF q
      <3> QED BY <1>1, NextMembers
    <2>3. call[c].pc = "removeVoter" /\ UNCHANGED <<consensus, voters, expired, lock, told>>
      BY <1>3 DEF RemoveVoter, In
    <2> HIDE DEF q, r
    <2>4. SameWrite(r, call[c])
      BY Zenon, <1>1, <2>2 DEF SameWrite
    <2> QED
      BY Zenon, <1>1, <2>1, <2>2, <2>3, <2>4 DEF Becomes
  <1> QED
    BY <1>2, <1>3

\* The change itself: a removal goes on to its write, a join is over.
LEMMA ChangingVoters ==
  ASSUME CallsOK, NEW c \in Callers, ChangeVoters(c)
  PROVE  /\ \E r : /\ Becomes(c, r)
                   /\ r.pc = "idle" \/ (/\ r.pc = "propose" /\ r.op = "remove"
                                       /\ SameWrite(r, call[c]))
         /\ call[c].pc = "changeVoters"
         /\ voters' = call[c].members
         /\ UNCHANGED <<consensus, expired, lock, told>>
  <1> DEFINE q == [call[c] EXCEPT !.pc = "propose"]
             r == IF call[c].op = "remove" THEN q ELSE Idle
  <1>1. IsCall(q) /\ q.pc = "propose" /\ q.op = call[c].op /\ SameWrite(q, call[c])
    BY NextPlace DEF CallsOK
  <1>2. call' = [call EXCEPT ![c] = r]
    BY DEF ChangeVoters, Suspend
  <1> HIDE DEF q
  <1>3. /\ call[c].op = "remove" => r = q
        /\ call[c].op # "remove" => r = Idle
    OBVIOUS
  <1> HIDE DEF r
  <1>4. /\ IsCall(r)
        /\ r.pc = "idle" \/ (r.pc = "propose" /\ r.op = "remove" /\ SameWrite(r, call[c]))
    <2>1. CASE call[c].op = "remove"
      BY <1>1, <1>3, <2>1
    <2>2. CASE call[c].op # "remove"
      BY <1>3, <2>2, IdleIsCall
    <2> QED
      BY <2>1, <2>2
  <1> QED
    BY Zenon, <1>2, <1>4 DEF Becomes, ChangeVoters, In

\* A proposal: the entry is at the end of the log and its caller waits for it.
LEMMA Proposed ==
  ASSUME LogOK, CallsOK, NEW c \in Callers, Propose(c)
  PROVE  /\ \E r : /\ Becomes(c, r) /\ r.pc = "wait" /\ r.at = Len(log) + 1
                   /\ r.op = call[c].op /\ r.home = call[c].home
                   /\ r.base = call[c].base
         /\ call[c].pc = "propose" /\ leader = call[c].home
         /\ Len(log') = Len(log) + 1
         /\ \A i \in 1..Len(log) : log'[i] = log[i]
         /\ log'[Len(log) + 1].op = call[c].op
         /\ log'[Len(log) + 1].base = call[c].base
         /\ UNCHANGED <<setup, committed, applied, leader, elections, voters, lock, told>>
  <1> DEFINE q == [call[c] EXCEPT !.pc = "wait"]
             r == [q EXCEPT !.at = Len(log) + 1]
  <1>1. Len(log) + 1 \in Nat
    BY SeqLength DEF LogOK
  <1>2. /\ IsCall(q) /\ q.pc = "wait" /\ q.op = call[c].op /\ q.home = call[c].home
        /\ q.base = call[c].base
    BY NextPlace DEF CallsOK
  <1>3. call' = [call EXCEPT ![c] = r]
    BY DEF Propose, Suspend
  <1> HIDE DEF q
  <1>4. /\ IsCall(r) /\ r.pc = q.pc /\ r.op = q.op /\ r.home = q.home
        /\ r.base = q.base /\ r.at = Len(log) + 1
    BY Zenon, <1>1, <1>2, NextAt
  <1>5. /\ Len(log') = Len(log) + 1
        /\ \A i \in 1..Len(log) : log'[i] = log[i]
        /\ log'[Len(log) + 1] = Entry(c)
    BY Appended DEF Propose, LogOK
  <1>6. Entry(c).op = call[c].op /\ Entry(c).base = call[c].base
    BY DEF Entry
  <1>7. /\ call[c].pc = "propose" /\ leader = call[c].home
        /\ UNCHANGED <<setup, committed, applied, leader, elections, voters, lock, told>>
    BY DEF Propose, In
  <1> HIDE DEF r
  <1> QED
    BY Zenon, <1>2, <1>3, <1>4, <1>5, <1>6, <1>7 DEF Becomes

(***************************************************************************)
(* Every step keeps the shape of the requests.                             *)
(***************************************************************************)

\* One caller going on with a whole request leaves all of them whole.
LEMMA CallsKept ==
  ASSUME LogOK, CallsOK, NEW c \in Callers, NEW r, Becomes(c, r), setup' = setup,
         lock' \in [Servers -> Callers \cup {None}], told' \subseteq Nat
  PROVE  CallsOK'
  BY DEF CallsOK, Becomes, Servers

\* Every step keeps the requests whole.
LEMMA CallsStep == LogOK /\ CallsOK /\ [Next]_vars => CallsOK'
  <1> SUFFICES ASSUME LogOK, CallsOK, [Next]_vars
               PROVE  CallsOK'
    OBVIOUS
  <1>0. lock \in [Servers -> Callers \cup {None}] /\ told \subseteq Nat
    BY DEF CallsOK
  <1>1. ASSUME NEW c \in Callers, NEW h \in Servers, Asks(c, h)
        PROVE  CallsOK'
    <2>1. CASE \/ \E t \in Tokens : Mint(c, h, t)
               \/ \E t \in Tokens, n \in Names : Admit(c, h, t, n)
      BY Zenon, <1>0, <2>1, Proposing, CallsKept DEF consensus
    <2>2. ASSUME NEW t \in Tokens, NEW n \in Names, Enlist(c, h, t, n)
          PROVE  CallsOK'
      BY Zenon, <1>0, <2>2, Enlisting, CallsKept DEF consensus
    <2>3. ASSUME NEW n \in Names, Remove(c, h, n)
          PROVE  CallsOK'
      BY Zenon, <1>0, <2>3, Removing, CallsKept DEF consensus
    <2>4. CASE ApplyOnce(c, h) \/ \E o \in Orders : \/ OpenOrder(c, h, o)
                                                    \/ FileReached(c, h, o)
                                                    \/ CloseOrder(c, h, o)
      <3>1. /\ \E r : Becomes(c, r)
            /\ lock' = [lock EXCEPT ![h] = c] /\ setup' = setup /\ told' = told
        BY <2>4, Writing DEF consensus
      <3>2. lock' \in [Servers -> Callers \cup {None}]
        BY <1>0, <3>1
      <3> QED
        BY <1>0, <3>1, <3>2, CallsKept
    <2> QED
      BY <1>1, <2>1, <2>2, <2>3, <2>4 DEF Asks
  <1>2. ASSUME NEW c \in Callers, AddVoter(c) \/ RemoveVoter(c)
        PROVE  CallsOK'
    BY Zenon, <1>0, <1>2, ReadingVoters, CallsKept DEF consensus
  <1>3. ASSUME NEW c \in Callers, ChangeVoters(c)
        PROVE  CallsOK'
    BY Zenon, <1>0, <1>3, ChangingVoters, CallsKept DEF consensus
  <1>4. ASSUME NEW c \in Callers, Propose(c)
        PROVE  CallsOK'
    BY Zenon, <1>0, <1>4, Proposed, CallsKept
  <1>5. ASSUME NEW c \in Callers, Answered(c) \/ GiveUp(c)
        PROVE  CallsOK'
    <2>1. lock' \in [Servers -> Callers \cup {None}]
      BY <1>0, <1>5 DEF Answered, GiveUp, Release
    <2>0. call[c].at \in Nat
      BY DEF CallsOK, IsCall
    <2>2. told' \subseteq Nat
      BY Zenon, <1>0, <1>5, <2>0 DEF Answered, GiveUp
    <2>3. Becomes(c, Idle) /\ setup' = setup
      BY <1>5, IdleIsCall DEF Answered, GiveUp, Suspend, Becomes, consensus
    <2> QED
      BY <2>1, <2>2, <2>3, CallsKept
  <1>6. CASE \/ Commit
             \/ \E h \in Servers : Apply(h) \/ Elect(h)
             \/ \E t \in Tokens : Expire(t)
             \/ UNCHANGED vars
    BY <1>6 DEF Commit, Apply, Elect, Expire, vars, consensus, CallsOK, Servers
  <1> QED
    BY <1>1, <1>2, <1>3, <1>4, <1>5, <1>6 DEF Next

(***************************************************************************)
(* Nobody votes unadmitted.                                                *)
(***************************************************************************)

AdmittedBefore(n) ==
    \E i \in 1..committed, t \in Tokens :
        t \in DOMAIN log[i].state.joins /\ log[i].state.joins[t] = n

\* Those who vote, those about to be added, and the set a change was read as.
VotersInv ==
    /\ \A n \in voters \ {Founder} : AdmittedBefore(n)
    /\ \A c \in Callers : call[c].pc = "addVoter" => AdmittedBefore(call[c].name)
    /\ \A c \in Callers : call[c].pc = "changeVoters" =>
          \A n \in call[c].members \ {Founder} : AdmittedBefore(n)

\* An admission that is agreed stays agreed.
LEMMA StaysAdmitted ==
  ASSUME LogOK, LogOK', Grows, NEW n, AdmittedBefore(n)
  PROVE  AdmittedBefore(n)'
  <1>1. committed \in Nat /\ committed' \in Nat
    BY SeqLength DEF LogOK
  <1>2. PICK i \in 1..committed, t \in Tokens :
            t \in DOMAIN log[i].state.joins /\ log[i].state.joins[t] = n
    BY DEF AdmittedBefore
  <1>3. log'[i] = log[i] /\ i \in 1..committed'
    BY <1>1, <1>2 DEF Grows
  <1> QED
    BY <1>2, <1>3 DEF AdmittedBefore

\* A node that finds its token used by itself was admitted: the founding state
\* holds no used token, and a store holds nothing that is not agreed.
LEMMA FinishingIsAdmitted ==
  ASSUME LogOK, NEW h \in Servers, NEW t \in Tokens, NEW n \in Names,
         Finishing(Read(h), t, n)
  PROVE  AdmittedBefore(n)
  <1>1. n # None
    BY ClusterAssumption DEF LogOK, Names
  <1>2. applied[h] \in 0..committed
    BY SeqLength DEF LogOK
  <1>3. CASE applied[h] = 0
    <2>1. Read(h) = Founding
      BY <1>3 DEF Read, StateAt
    <2>2. t \in Minted => Founding.joins[t] = None
      BY DEF Founding
    <2>3. DOMAIN Founding.joins = Minted
      BY DEF Founding
    <2> QED
      BY <1>1, <2>1, <2>2, <2>3 DEF Finishing
  <1>4. CASE applied[h] # 0
    <2>1. Read(h) = log[applied[h]].state /\ applied[h] \in 1..committed
      BY <1>2, <1>4 DEF Read, StateAt
    <2> QED
      BY <2>1 DEF Finishing, AdmittedBefore
  <1> QED
    BY <1>3, <1>4

\* A step that leaves the voters alone, with one caller in a new request.
LEMMA VotersKept ==
  ASSUME LogOK, LogOK', Grows, CallsOK, VotersInv, NEW c \in Callers, NEW r,
         Becomes(c, r), \A n \in voters' \ {Founder} : AdmittedBefore(n),
         r.pc = "addVoter" => AdmittedBefore(r.name),
         r.pc = "changeVoters" => \A n \in r.members \ {Founder} : AdmittedBefore(n)
  PROVE  VotersInv'
  <1>1. \A d \in Callers : call'[d] = IF d = c THEN r ELSE call[d]
    BY DEF CallsOK, Becomes
  <1>2. \A d \in Callers :
           /\ call'[d].pc = "addVoter" => AdmittedBefore(call'[d].name)
           /\ call'[d].pc = "changeVoters" =>
                  \A n \in call'[d].members \ {Founder} : AdmittedBefore(n)
    BY <1>1 DEF VotersInv
  <1>3. \A n : AdmittedBefore(n) => AdmittedBefore(n)'
    BY StaysAdmitted
  <1> QED
    BY <1>2, <1>3 DEF VotersInv

\* Every step keeps voters, and those about to vote, to names that were admitted.
LEMMA VotersStep ==
  LogOK /\ CallsOK /\ VotersInv /\ [Next]_vars => VotersInv'
  <1> SUFFICES ASSUME LogOK, CallsOK, VotersInv, [Next]_vars
               PROVE  VotersInv'
    OBVIOUS
  <1>0. LogOK' /\ Grows
    BY LogStep
  <1>00. \A n \in voters \ {Founder} : AdmittedBefore(n)
    BY DEF VotersInv
  <1>1. ASSUME NEW c \in Callers, NEW h \in Servers, Asks(c, h)
        PROVE  VotersInv'
    <2>1. CASE \/ \E t \in Tokens : Mint(c, h, t)
               \/ \E t \in Tokens, n \in Names : Admit(c, h, t, n)
      BY <1>0, <1>00, <2>1, Proposing, VotersKept
    <2>2. ASSUME NEW t \in Tokens, NEW n \in Names, Enlist(c, h, t, n)
          PROVE  VotersInv'
      BY <1>0, <1>00, <2>2, Enlisting, FinishingIsAdmitted, VotersKept
    <2>3. ASSUME NEW n \in Names, Remove(c, h, n)
          PROVE  VotersInv'
      BY <1>0, <1>00, <2>3, Removing, VotersKept
    <2>4. CASE ApplyOnce(c, h) \/ \E o \in Orders : \/ OpenOrder(c, h, o)
                                                    \/ FileReached(c, h, o)
                                                    \/ CloseOrder(c, h, o)
      BY <1>0, <1>00, <2>4, Writing, VotersKept
    <2> QED
      BY <1>1, <2>1, <2>2, <2>3, <2>4 DEF Asks
  <1>2. ASSUME NEW c \in Callers, AddVoter(c) \/ RemoveVoter(c)
        PROVE  VotersInv'
    <2>1. PICK r : /\ Becomes(c, r) /\ r.pc = "changeVoters"
                   /\ r.members \subseteq voters \cup {call[c].name}
                   /\ call[c].pc = "removeVoter" => r.members \subseteq voters
      BY <1>2, ReadingVoters
    <2>2. call[c].pc \in {"addVoter", "removeVoter"} /\ voters' = voters
      BY <1>2, ReadingVoters
    <2>3. \A n \in r.members \ {Founder} : AdmittedBefore(n)
      BY <2>1, <2>2 DEF VotersInv
    <2> QED
      BY <1>0, <1>00, <2>1, <2>2, <2>3, VotersKept
  <1>3. ASSUME NEW c \in Callers, ChangeVoters(c)
        PROVE  VotersInv'
    <2>1. PICK r : /\ Becomes(c, r)
                   /\ r.pc = "idle" \/ (r.pc = "propose" /\ r.op = "remove")
      BY <1>3, ChangingVoters
    <2>2. \A n \in voters' \ {Founder} : AdmittedBefore(n)
      BY <1>3, ChangingVoters DEF VotersInv
    <2> QED
      BY <1>0, <2>1, <2>2, VotersKept
  <1>4. ASSUME NEW c \in Callers, Propose(c)
        PROVE  VotersInv'
    BY <1>0, <1>00, <1>4, Proposed, VotersKept
  <1>5. ASSUME NEW c \in Callers, Answered(c) \/ GiveUp(c)
        PROVE  VotersInv'
    <2>1. Becomes(c, Idle) /\ voters' = voters
      BY <1>5, IdleIsCall DEF Answered, GiveUp, Suspend, Becomes
    <2> QED
      BY <1>0, <1>00, <2>1, IdleIsCall, VotersKept
  <1>6. CASE \/ Commit
             \/ \E h \in Servers : Apply(h) \/ Elect(h)
             \/ \E t \in Tokens : Expire(t)
             \/ UNCHANGED vars
    <2>1. UNCHANGED <<voters, call>>
      BY <1>6 DEF Commit, Apply, Elect, Expire, vars
    <2>2. \A n : AdmittedBefore(n) => AdmittedBefore(n)'
      BY <1>0, StaysAdmitted
    <2> QED
      BY <2>1, <2>2 DEF VotersInv
  <1> QED
    BY <1>1, <1>2, <1>3, <1>4, <1>5, <1>6 DEF Next

(***************************************************************************)
(* Behind the lock, under one leader.                                      *)
(***************************************************************************)

InFlight(c) == call[c].pc \in {"propose", "wait"} /\ call[c].op \in Locked

\* A writer in flight holds the lock of its server.
HoldsLock == \A c \in Callers : InFlight(c) => /\ call[c].home \in Servers
                                              /\ lock[call[c].home] = c

\* A request that waits was proposed here, at its place in the log.
WaitsHere == \A c \in Callers : call[c].pc = "wait" =>
                 /\ call[c].home = leader
                 /\ call[c].at \in 1..Len(log)
                 /\ log[call[c].at].op = call[c].op

\* Nobody was told of what the leader has not applied.
ToldIsApplied == told \subseteq 1..applied[leader]

\* A writer of the leader has read whatever another one was told of.
HasRead == \A c \in Callers : InFlight(c) /\ call[c].home = leader =>
               \A i \in told : log[i].op \in Locked => i <= call[c].base

\* No other writer has proposed anything since.
IsLast == \A c \in Callers : call[c].pc = "wait" /\ call[c].op \in Locked =>
              \A j \in 1..Len(log) : log[j].op \in Locked => j <= call[c].at

KeptOut == \A i \in told, j \in 1..Len(log) :
               i < j /\ log[i].op \in Locked /\ log[j].op \in Locked => log[j].base >= i

LockInv == elections = 0 => HoldsLock /\ WaitsHere /\ ToldIsApplied /\ HasRead /\ IsLast /\ KeptOut

\* The bases in the log are numbers.
BasesOK == \A j \in 1..Len(log) : log[j].base \in Nat

\* Every step leaves each entry with the position its writer had read.
LEMMA BasesStep == LogOK /\ CallsOK /\ BasesOK /\ [Next]_vars => BasesOK'
  <1> SUFFICES ASSUME LogOK, CallsOK, BasesOK, [Next]_vars
               PROVE  BasesOK'
    OBVIOUS
  <1>0. Len(log) \in Nat /\ committed \in 0..Len(log)
    BY SeqLength DEF LogOK
  <1>1. ASSUME NEW c \in Callers, Propose(c)
        PROVE  BasesOK'
    <2>1. call[c].base \in Nat
      BY DEF CallsOK, IsCall
    <2> QED
      BY <1>0, <1>1, <2>1, Proposed DEF BasesOK
  <1>2. ASSUME NEW h \in Servers, Elect(h)
        PROVE  BasesOK'
    <2>1. PICK kept \in committed..Len(log) : log' = SubSeq(log, 1, kept)
      BY <1>2 DEF Elect
    <2>2. Len(log') = kept /\ \A i \in 1..kept : log'[i] = log[i]
      BY <1>0, <2>1, CutBack DEF LogOK
    <2> QED
      BY <1>0, <2>1, <2>2 DEF BasesOK
  <1>3. CASE log' = log
    BY <1>3 DEF BasesOK
  <1>4. [Next]_vars => \/ \E c \in Callers : Propose(c)
                       \/ \E h \in Servers : Elect(h)
                       \/ log' = log
    <2>1. (\E c \in Callers, h \in Servers : Asks(c, h)) => log' = log
      BY AsksLeavesLog DEF consensus
    <2>2. \A c \in Callers : AddVoter(c) \/ RemoveVoter(c) \/ ChangeVoters(c) \/ Answered(c)
                               \/ GiveUp(c) => log' = log
      BY DEF AddVoter, RemoveVoter, ChangeVoters, Answered, GiveUp, consensus
    <2>3. \/ Commit \/ \E h \in Servers : Apply(h)
          \/ \E t \in Tokens : Expire(t)
          \/ UNCHANGED vars
          => log' = log
      BY DEF Commit, Apply, Expire, vars, consensus
    <2> QED
      BY <2>1, <2>2, <2>3 DEF Next
  <1> QED
    BY <1>1, <1>2, <1>3, <1>4

\* A step of a caller that is not a writer of the node process, and of one that
\* gives up: nothing is proposed, nobody is told, no lock is taken.
LEMMA LockKept ==
  ASSUME LogOK, CallsOK, LockInv, NEW c \in Callers, NEW r, Becomes(c, r),
         r.pc # "wait", r.pc = "propose" => r.op \notin Locked,
         \A h \in Servers : lock[h] # c => lock'[h] = lock[h],
         UNCHANGED <<consensus, told>>
  PROVE  LockInv'
  <1> SUFFICES ASSUME elections = 0, HoldsLock, WaitsHere, ToldIsApplied, HasRead, IsLast,
                      KeptOut
               PROVE  LockInv'
    BY DEF LockInv, consensus
  <1>1. call'[c] = r /\ \A d \in Callers \ {c} : call'[d] = call[d]
    BY DEF CallsOK, Becomes
  <1>2. \A d \in Callers : (call'[d].pc = "wait" \/ InFlight(d)') => d # c /\ call'[d] = call[d]
    BY <1>1 DEF InFlight
  <1>3. \A d \in Callers : InFlight(d)' => InFlight(d)
    BY <1>2 DEF InFlight
  <1>4. UNCHANGED <<setup, log, applied, leader, elections, told>>
    BY DEF consensus
  <1>5. HoldsLock'
    <2> SUFFICES ASSUME NEW d \in Callers, InFlight(d)'
                 PROVE  call'[d].home \in Servers /\ lock'[call'[d].home] = d
      BY <1>4 DEF HoldsLock, Servers
    <2>1. d # c /\ call'[d] = call[d] /\ InFlight(d)
      BY <1>2, <1>3
    <2>2. call[d].home \in Servers /\ lock[call[d].home] = d
      BY <2>1 DEF HoldsLock
    <2> QED
      BY <2>1, <2>2
  <1>6. WaitsHere'
    BY <1>2, <1>4 DEF WaitsHere
  <1>7. HasRead'
    BY <1>2, <1>3, <1>4 DEF HasRead
  <1>8. IsLast'
    BY <1>2, <1>4 DEF IsLast
  <1>9. ToldIsApplied' /\ KeptOut'
    BY <1>4 DEF ToldIsApplied, KeptOut
  <1> QED
    BY <1>5, <1>6, <1>7, <1>8, <1>9 DEF LockInv

\* A writer takes the lock and reads.
LEMMA LockTaken ==
  ASSUME LogOK, CallsOK, LockInv, NEW c \in Callers, NEW h \in Servers, NEW r, Becomes(c, r),
         r.pc = "propose", r.home = h, r.base = applied[h],
         lock[h] = None, lock' = [lock EXCEPT ![h] = c],
         UNCHANGED <<consensus, told>>
  PROVE  LockInv'
  <1> SUFFICES ASSUME elections = 0, HoldsLock, WaitsHere, ToldIsApplied, HasRead, IsLast,
                      KeptOut
               PROVE  LockInv'
    BY DEF LockInv, consensus
  <1>0. None \notin Callers /\ applied[h] \in Nat
    BY ClusterAssumption DEF LogOK
  <1>1. call'[c] = r /\ \A d \in Callers \ {c} : call'[d] = call[d]
    BY DEF CallsOK, Becomes
  <1>2. lock'[h] = c /\ \A g \in Servers \ {h} : lock'[g] = lock[g]
    BY DEF CallsOK
  <1>3. UNCHANGED <<setup, log, applied, leader, elections, told>>
    BY DEF consensus
  <1>4. HoldsLock'
    BY <1>0, <1>1, <1>2, <1>3 DEF HoldsLock, InFlight, Servers
  <1>5. WaitsHere' /\ IsLast'
    BY <1>1, <1>3 DEF WaitsHere, IsLast
  <1>6. HasRead'
    <2>1. h = leader => \A i \in told : i <= applied[h]
      BY <1>0 DEF ToldIsApplied
    <2> QED
      BY <1>1, <1>3, <2>1 DEF HasRead, InFlight
  <1>7. ToldIsApplied' /\ KeptOut'
    BY <1>3 DEF ToldIsApplied, KeptOut
  <1> QED
    BY <1>4, <1>5, <1>6, <1>7 DEF LockInv

\* A proposal, by a writer behind the lock or by another.
LEMMA LockProposed ==
  ASSUME LogOK, CallsOK, LockInv, NEW c \in Callers, Propose(c)
  PROVE  LockInv'
  <1>1. PICK r : /\ Becomes(c, r) /\ r.pc = "wait" /\ r.at = Len(log) + 1
                 /\ r.op = call[c].op /\ r.home = call[c].home /\ r.base = call[c].base
    BY Proposed
  <1>2. /\ call[c].pc = "propose" /\ leader = call[c].home
        /\ Len(log') = Len(log) + 1
        /\ \A i \in 1..Len(log) : log'[i] = log[i]
        /\ log'[Len(log) + 1].op = call[c].op
        /\ log'[Len(log) + 1].base = call[c].base
        /\ UNCHANGED <<setup, applied, leader, elections, lock, told>>
    BY Proposed
  <1> SUFFICES ASSUME elections = 0, HoldsLock, WaitsHere, ToldIsApplied, HasRead, IsLast,
                      KeptOut
               PROVE  LockInv'
    BY <1>2 DEF LockInv
  <1>3. call'[c] = r /\ \A d \in Callers \ {c} : call'[d] = call[d]
    BY <1>1 DEF CallsOK, Becomes
  <1>4. Len(log) \in Nat /\ applied[leader] \in 0..Len(log)
    BY SeqLength DEF LogOK
  <1>5. \A d \in Callers : InFlight(d)' <=> InFlight(d)
    BY <1>1, <1>2, <1>3 DEF InFlight
  <1>6. \A i \in told : i \in 1..Len(log) /\ log'[i] = log[i]
    BY SMTT(30), <1>2, <1>4 DEF ToldIsApplied
  <1>7. HoldsLock'
    BY <1>1, <1>2, <1>3, <1>5 DEF HoldsLock, Servers
  <1>8. WaitsHere'
    BY <1>1, <1>2, <1>3, <1>4 DEF WaitsHere
  <1>9. ToldIsApplied'
    BY <1>2 DEF ToldIsApplied
  <1>10. HasRead'
    <2> SUFFICES ASSUME NEW d \in Callers, InFlight(d)', call'[d].home = leader,
                        NEW i \in told, log'[i].op \in Locked
                 PROVE  i <= call'[d].base
      BY <1>2 DEF HasRead
    <2>1. call'[d].base = call[d].base /\ call'[d].home = call[d].home
      BY <1>1, <1>3
    <2>2. InFlight(d) /\ log[i].op \in Locked
      BY <1>5, <1>6
    <2> QED
      BY <2>1, <2>2 DEF HasRead
  <1>11. IsLast'
    <2> SUFFICES ASSUME NEW d \in Callers, call'[d].pc = "wait", call'[d].op \in Locked,
                        NEW j \in 1..Len(log) + 1, log'[j].op \in Locked
                 PROVE  j <= call'[d].at
      BY <1>2 DEF IsLast
    <2>1. CASE d = c
      BY <1>1, <1>3, <1>4, <2>1
    <2>2. CASE d # c
      <3>1. call'[d] = call[d] /\ InFlight(d) /\ call[d].home = leader
        BY <1>3, <2>2 DEF InFlight, WaitsHere
      <3>2. lock[leader] = d
        BY <3>1 DEF HoldsLock
      <3>3. call[c].op \notin Locked
        BY <1>2, <2>2, <3>2 DEF HoldsLock, InFlight
      <3>4. j \in 1..Len(log) /\ log[j].op \in Locked
        BY <1>2, <1>4, <3>3
      <3> QED
        BY <3>1, <3>4 DEF IsLast
    <2> QED
      BY <2>1, <2>2
  <1>12. KeptOut'
    <2> SUFFICES ASSUME NEW i \in told, NEW j \in 1..Len(log) + 1, i < j,
                        log'[i].op \in Locked, log'[j].op \in Locked
                 PROVE  log'[j].base >= i
      BY <1>2 DEF KeptOut
    <2>1. i \in 1..Len(log) /\ log[i].op \in Locked
      BY <1>6
    <2>2. CASE j = Len(log) + 1
      <3>1. InFlight(c)
        BY <1>2, <2>2 DEF InFlight
      <3>2. i <= call[c].base /\ call[c].base \in Nat
        BY <1>2, <2>1, <3>1 DEF HasRead, CallsOK, IsCall
      <3> QED
        BY <1>2, <2>1, <2>2, <3>2
    <2>3. CASE j # Len(log) + 1
      <3>1. j \in 1..Len(log) /\ log'[j] = log[j]
        BY <1>2, <1>4, <2>3
      <3> QED
        BY <2>1, <3>1 DEF KeptOut
    <2> QED
      BY <2>2, <2>3
  <1> QED
    BY <1>7, <1>8, <1>9, <1>10, <1>11, <1>12 DEF LockInv

\* An answer: what its caller is told of was the last word behind the lock.
LEMMA LockAnswered ==
  ASSUME LogOK, CallsOK, LockInv, NEW c \in Callers, Answered(c)
  PROVE  LockInv'
  <1>0. UNCHANGED <<setup, log, applied, leader, elections>>
    BY DEF Answered, consensus
  <1> SUFFICES ASSUME elections = 0, HoldsLock, WaitsHere, ToldIsApplied, HasRead, IsLast,
                      KeptOut
               PROVE  LockInv'
    BY <1>0 DEF LockInv
  <1> DEFINE at == call[c].at
  <1>1. /\ call[c].pc = "wait" /\ applied[call[c].home] >= at
        /\ told' = told \cup {at}
    BY DEF Answered, In
  <1>2. call[c].home = leader /\ at \in 1..Len(log) /\ log[at].op = call[c].op
    BY <1>1 DEF WaitsHere
  <1>3. call'[c] = Idle /\ \A d \in Callers \ {c} : call'[d] = call[d]
    BY DEF CallsOK, Answered, Suspend
  <1>4. \A d \in Callers : (call'[d].pc = "wait" \/ InFlight(d)') => d # c /\ call'[d] = call[d]
    BY <1>3, IdleIsCall DEF InFlight
  <1>5. \A d \in Callers : InFlight(d)' => InFlight(d)
    BY <1>4 DEF InFlight
  <1>6. HoldsLock'
    <2> SUFFICES ASSUME NEW d \in Callers, InFlight(d)'
                 PROVE  call'[d].home \in Servers /\ lock'[call'[d].home] = d
      BY <1>0 DEF HoldsLock, Servers
    <2>1. d # c /\ call'[d] = call[d] /\ InFlight(d)
      BY <1>4, <1>5
    <2>2. call[d].home \in Servers /\ lock[call[d].home] = d
      BY <2>1 DEF HoldsLock
    <2> QED
      BY <2>1, <2>2 DEF Answered, Release
  <1>7. WaitsHere' /\ IsLast'
    BY <1>0, <1>4 DEF WaitsHere, IsLast
  <1>8. ToldIsApplied'
    <2>1. applied[leader] \in Nat /\ Len(log) \in Nat
      BY SeqLength DEF LogOK
    <2>2. at \in Nat
      BY <1>2, <2>1
    <2>3. at \in 1..applied[leader]
      BY <1>1, <1>2, <2>1, <2>2
    <2> QED
      BY Zenon, <1>0, <1>1, <2>3 DEF ToldIsApplied
  <1>9. HasRead'
    <2> SUFFICES ASSUME NEW d \in Callers, InFlight(d)', call'[d].home = leader,
                        NEW i \in told', log[i].op \in Locked
                 PROVE  i <= call'[d].base
      BY <1>0 DEF HasRead
    <2>1. d # c /\ call'[d] = call[d] /\ InFlight(d)
      BY <1>4, <1>5
    <2>2. lock[leader] = d
      BY <2>1 DEF HoldsLock
    <2>3. call[c].op \notin Locked
      BY <1>1, <1>2, <2>1, <2>2 DEF HoldsLock, InFlight
    <2>4. i \in told
      BY <1>1, <1>2, <2>3
    <2> QED
      BY <2>1, <2>4 DEF HasRead
  <1>10. KeptOut'
    <2> SUFFICES ASSUME NEW i \in told', NEW j \in 1..Len(log), i < j,
                        log[i].op \in Locked, log[j].op \in Locked
                 PROVE  log[j].base >= i
      BY <1>0 DEF KeptOut
    <2>1. CASE i \in told
      BY <2>1 DEF KeptOut
    <2>2. CASE i = at
      <3>1. j <= at
        BY <1>1, <1>2, <2>2 DEF IsLast
      <3> QED
        BY <1>2, <2>2, <3>1, SeqLength DEF LogOK
    <2> QED
      BY <1>1, <2>1, <2>2
  <1> QED
    BY <1>6, <1>7, <1>8, <1>9, <1>10 DEF LockInv

\* A fresh server may lag, so nothing is claimed after an election; a commit and
\* an application only move the leader's store on.
LEMMA LockStep == LogOK /\ CallsOK /\ LockInv /\ [Next]_vars => LockInv'
  <1> SUFFICES ASSUME LogOK, CallsOK, LockInv, [Next]_vars
               PROVE  LockInv'
    OBVIOUS
  <1>1. ASSUME NEW c \in Callers, NEW h \in Servers, Asks(c, h)
        PROVE  LockInv'
    <2>1. CASE \/ \E t \in Tokens : Mint(c, h, t)
               \/ \E t \in Tokens, n \in Names : Admit(c, h, t, n)
      BY <2>1, Proposing, LockKept DEF Locked
    <2>2. ASSUME NEW t \in Tokens, NEW n \in Names, Enlist(c, h, t, n)
          PROVE  LockInv'
      BY <2>2, Enlisting, LockKept
    <2>3. ASSUME NEW n \in Names, Remove(c, h, n)
          PROVE  LockInv'
      BY <2>3, Removing, LockKept
    <2>4. CASE ApplyOnce(c, h) \/ \E o \in Orders : \/ OpenOrder(c, h, o)
                                                    \/ FileReached(c, h, o)
                                                    \/ CloseOrder(c, h, o)
      BY SMTT(30), <2>4, Writing, LockTaken
    <2> QED
      BY <1>1, <2>1, <2>2, <2>3, <2>4 DEF Asks
  <1>2. ASSUME NEW c \in Callers, AddVoter(c) \/ RemoveVoter(c)
        PROVE  LockInv'
    BY <1>2, ReadingVoters, LockKept
  <1>3. ASSUME NEW c \in Callers, ChangeVoters(c)
        PROVE  LockInv'
    BY <1>3, ChangingVoters, LockKept, Zenon DEF Locked
  <1>4. ASSUME NEW c \in Callers, Propose(c)
        PROVE  LockInv'
    BY <1>4, LockProposed
  <1>5. ASSUME NEW c \in Callers, Answered(c)
        PROVE  LockInv'
    BY <1>5, LockAnswered
  <1>6. ASSUME NEW c \in Callers, GiveUp(c)
        PROVE  LockInv'
    <2>1. Becomes(c, Idle) /\ UNCHANGED <<consensus, told>>
      BY <1>6, IdleIsCall DEF GiveUp, Suspend, Becomes
    <2>2. \A h \in Servers : lock[h] # c => lock'[h] = lock[h]
      BY <1>6 DEF GiveUp, Release
    <2> QED
      BY <2>1, <2>2, IdleIsCall, LockKept
  <1>7. ASSUME NEW h \in Servers, Elect(h)
        PROVE  LockInv'
    BY SMTT(30), <1>7 DEF Elect, LockInv, LogOK
  <1>8. ASSUME NEW h \in Servers, Apply(h)
        PROVE  LockInv'
    <2>1. /\ applied'[leader] \in Nat /\ applied[leader] \in Nat
          /\ applied'[leader] >= applied[leader]
          /\ UNCHANGED <<setup, log, leader, elections, lock, call, told>>
      BY <1>8 DEF Apply, LogOK
    <2>2. ToldIsApplied => ToldIsApplied'
      BY SMTT(30), <2>1 DEF ToldIsApplied
    <2> QED
      BY <2>1, <2>2 DEF LockInv, HoldsLock, WaitsHere, HasRead, IsLast, KeptOut, InFlight,
                        Servers
  <1>9. CASE Commit \/ (\E t \in Tokens : Expire(t)) \/ UNCHANGED vars
    <2>1. UNCHANGED <<setup, log, applied, leader, elections, lock, call, told>>
      BY <1>9 DEF Commit, Expire, vars, consensus
    <2> QED
      BY <2>1 DEF LockInv, HoldsLock, WaitsHere, ToldIsApplied, HasRead, IsLast, KeptOut,
                  InFlight, Servers
  <1> QED
    BY <1>1, <1>2, <1>3, <1>4, <1>5, <1>6, <1>7, <1>8, <1>9 DEF Next

(***************************************************************************)
(* What callers were promised.                                             *)
(*                                                                         *)
(* An entry holds the whole state, so what one of them wrote is in a later *)
(* one only through the state that one's writer had read.  The invariant   *)
(* says it of every two positions of the log, agreed or not: that is what  *)
(* is left of it when a new leader cuts the log back.                      *)
(***************************************************************************)
IsSnapshot(s) ==
    /\ s = [nodes |-> s.nodes, joins |-> s.joins, removed |-> s.removed, orders |-> s.orders]
    /\ s.joins = [t \in DOMAIN s.joins |-> s.joins[t]]

\* What request r, and later its entry, makes of the state s its writer read:
\* next keeps refusals, used tokens and, unless it closes them, orders.
Follows(s, r, next) ==
    /\ IsSnapshot(next)
    /\ s.removed \subseteq next.removed
    /\ r.op = "remove" => r.name \in next.removed
    /\ \A o \in s.orders : o \in next.orders \/ (r.op = "close" /\ r.order = o)
    /\ r.op = "file" => r.order \in next.orders
    /\ \A t \in DOMAIN s.joins : /\ t \in DOMAIN next.joins
                                 /\ s.joins[t] # None => next.joins[t] = s.joins[t]
    /\ r.op = "admit" => /\ s.joins[r.token] = None /\ r.token \in DOMAIN s.joins
                         /\ r.token \in DOMAIN next.joins /\ next.joins[r.token] = r.name
                         /\ r.name # None

\* The state an entry holds, and the one its writer had read.
EntryFollows(j) == /\ log[j].base \in 0..(j - 1)
                   /\ Follows(StateAt(log[j].base), log[j], log[j].state)

EntriesFollow == \A j \in 1..Len(log) : EntryFollows(j)

\* A request with a write ahead of it.
WillWrite(r) == r.pc \in {"propose", "removeVoter"} \/ (r.pc = "changeVoters" /\ r.op = "remove")

CallFollows(r) == /\ WillWrite(r) => /\ r.base \in 0..committed
                                     /\ Follows(StateAt(r.base), r, r.next)
                  /\ r.pc = "addVoter" => r.op = "enlist"
                  /\ r.pc = "wait" => r.home \in Servers /\ r.at # 0

CallsFollow == \A c \in Callers : CallFollows(call[c])

\* Entry i is still in the state of entry k when every writer in between had
\* read it.
Survives(i, k) ==
    (\A j \in (i + 1)..k : log[j].base >= i) =>
        /\ log[i].op = "remove" => log[i].name \in log[k].state.removed
        /\ log[i].op = "admit" => /\ log[i].token \in DOMAIN log[k].state.joins
                                  /\ log[k].state.joins[log[i].token] = log[i].name
        /\ log[i].op = "file" =>
              \/ log[i].order \in log[k].state.orders
              \/ \E j \in i..k : log[j].op = "close" /\ log[j].order = log[i].order

AllSurvive == \A i, k \in 1..Len(log) : i <= k => Survives(i, k)

PromiseInv == /\ EntriesFollow /\ CallsFollow /\ AllSurvive
              /\ told \subseteq 1..committed

\* The state of every position is whole, the founding one included.
LEMMA StatesWhole ==
  ASSUME LogOK, EntriesFollow, NEW i \in 0..Len(log)
  PROVE  IsSnapshot(StateAt(i))
  <1>1. IsSnapshot(Founding)
    BY Zenon DEF IsSnapshot, Founding
  <1>2. Len(log) \in Nat
    BY SeqLength DEF LogOK
  <1>3. i = 0 \/ (i # 0 /\ i \in 1..Len(log))
    BY <1>2
  <1>4. \A j \in 1..Len(log) : IsSnapshot(log[j].state)
    BY Zenon DEF EntriesFollow, EntryFollows, Follows
  <1> QED
    BY Zenon, <1>1, <1>3, <1>4 DEF StateAt

(***************************************************************************)
(* What each request makes of the state it read.                           *)
(***************************************************************************)

\* A state put together from its parts.
Snapshot(n, j, x, o) == [nodes |-> n, joins |-> j, removed |-> x, orders |-> o]

\* A state is its parts.
LEMMA Parts ==
  ASSUME NEW n, NEW j, NEW x, NEW o
  PROVE  LET e == Snapshot(n, j, x, o)
         IN  /\ e.nodes = n /\ e.joins = j /\ e.removed = x /\ e.orders = o
             /\ j = [t \in DOMAIN j |-> j[t]] => IsSnapshot(e)
  BY DEF IsSnapshot, Snapshot

\* The parts of the state each of them sets.
LEMMA SetsParts ==
  ASSUME NEW s, IsSnapshot(s), NEW v, NEW w
  PROVE  /\ s.joins = [t \in DOMAIN s.joins |-> s.joins[t]]
         /\ [s EXCEPT !.nodes = v] = Snapshot(v, s.joins, s.removed, s.orders)
         /\ [s EXCEPT !.orders = v] = Snapshot(s.nodes, s.joins, s.removed, v)
         /\ [s EXCEPT !.joins = v] = Snapshot(s.nodes, v, s.removed, s.orders)
         /\ [s EXCEPT !.nodes = v, !.removed = w] = Snapshot(v, s.joins, w, s.orders)
         /\ [s EXCEPT !.nodes = v, !.joins = w] = Snapshot(v, w, s.removed, s.orders)
  <1> DEFINE a == s.nodes
             b == s.joins
             c == s.removed
             d == s.orders
  <1>1. b = [t \in DOMAIN b |-> b[t]]
    BY DEF IsSnapshot
  <1>2. s = [nodes |-> a, joins |-> b, removed |-> c, orders |-> d]
    BY DEF IsSnapshot
  <1> HIDE DEF a, b, c, d
  <1>3. [s EXCEPT !.nodes = v] = Snapshot(v, b, c, d)
    BY <1>2 DEF Snapshot
  <1>4. [s EXCEPT !.orders = v] = Snapshot(a, b, c, v)
    BY <1>2 DEF Snapshot
  <1>5. [s EXCEPT !.joins = v] = Snapshot(a, v, c, d)
    BY <1>2 DEF Snapshot
  <1> DEFINE e == [s EXCEPT !.nodes = v]
  <1>8. e = Snapshot(v, b, c, d)
    BY <1>3
  <1>6. [e EXCEPT !.removed = w] = Snapshot(v, b, w, d)
    <2> HIDE DEF e
    <2> QED BY <1>8 DEF Snapshot
  <1>7. [e EXCEPT !.joins = w] = Snapshot(v, w, c, d)
    <2> HIDE DEF e
    <2> QED BY <1>8 DEF Snapshot
  <1> QED
    BY <1>1, <1>3, <1>4, <1>5, <1>6, <1>7 DEF a, b, c, d

\* A token that was not there is minted.
LEMMA MintFollows ==
  ASSUME NEW s, IsSnapshot(s), NEW t, t \notin DOMAIN s.joins, NEW r, r.op = "mint"
  PROVE  Follows(s, r, [s EXCEPT !.joins =
                          [u \in DOMAIN @ \cup {t} |-> IF u = t THEN None ELSE @[u]]])
  <1> DEFINE j == [u \in DOMAIN s.joins \cup {t} |-> IF u = t THEN None ELSE s.joins[u]]
             e == [s EXCEPT !.joins = j]
  <1>1. /\ j = [u \in DOMAIN j |-> j[u]]
        /\ \A u \in DOMAIN s.joins : u \in DOMAIN j /\ j[u] = s.joins[u]
    OBVIOUS
  <1>2. e = [s EXCEPT !.joins = [u \in DOMAIN @ \cup {t} |-> IF u = t THEN None ELSE @[u]]]
    OBVIOUS
  <1> HIDE DEF j
  <1>5. e = Snapshot(s.nodes, j, s.removed, s.orders)
    BY Zenon, SetsParts
  <1> HIDE DEF e
  <1>3. IsSnapshot(e) /\ e.joins = j /\ e.removed = s.removed /\ e.orders = s.orders
    BY <1>1, <1>5, Parts
  <1>4. Follows(s, r, e)
    BY <1>1, <1>3 DEF Follows
  <1> QED
    BY <1>2, <1>4

\* A token nobody has used admits a node.
LEMMA AdmitFollows ==
  ASSUME NEW s, IsSnapshot(s), NEW t \in DOMAIN s.joins, s.joins[t] = None, NEW n, n # None,
         NEW r, r.op = "admit", r.token = t, r.name = n
  PROVE  Follows(s, r, [s EXCEPT !.nodes = @ \cup {n}, !.joins[t] = n])
  <1> DEFINE j == [s.joins EXCEPT ![t] = n]
             v == s.nodes \cup {n}
             e == [s EXCEPT !.nodes = v, !.joins = j]
  <1>1. /\ j = [u \in DOMAIN j |-> j[u]] /\ DOMAIN j = DOMAIN s.joins /\ j[t] = n
        /\ \A u \in DOMAIN s.joins : u # t => j[u] = s.joins[u]
    BY DEF IsSnapshot
  <1>2. e = [s EXCEPT !.nodes = @ \cup {n}, !.joins[t] = n]
    BY DEF IsSnapshot
  <1> HIDE DEF j, v
  <1>5. e = Snapshot(v, j, s.removed, s.orders)
    BY Zenon, SetsParts
  <1> HIDE DEF e
  <1>3. IsSnapshot(e) /\ e.joins = j /\ e.removed = s.removed /\ e.orders = s.orders
    BY <1>1, <1>5, Parts
  <1>4. Follows(s, r, e)
    BY <1>1, <1>3 DEF Follows
  <1> QED
    BY <1>2, <1>4

\* A removal, a document, and the three writes of an order.
LEMMA OthersFollow ==
  ASSUME NEW s, IsSnapshot(s), NEW r
  PROVE  /\ \A n : r.op = "remove" /\ r.name = n => Follows(s, r, Without(s, n))
         /\ \A rows : r.op = "apply" => Follows(s, r, [s EXCEPT !.nodes = rows])
         /\ \A o : r.op = "file" /\ r.order = o =>
                      Follows(s, r, [s EXCEPT !.orders = @ \cup {o}])
         /\ r.op = "file" /\ r.order \in s.orders => Follows(s, r, s)
         /\ \A o : r.op = "close" /\ r.order = o =>
                      Follows(s, r, [s EXCEPT !.orders = @ \ {o}])
  <1>0. s.joins = [t \in DOMAIN s.joins |-> s.joins[t]]
    BY DEF IsSnapshot
  <1>1. ASSUME NEW n, r.op = "remove", r.name = n
        PROVE  Follows(s, r, Without(s, n))
    <2> DEFINE e == Without(s, n)
    <2>0. e = Snapshot(s.nodes \ {n}, s.joins, s.removed \cup {n}, s.orders)
      BY ZenonT(40), SetsParts DEF Without
    <2> HIDE DEF e
    <2>1. /\ IsSnapshot(e) /\ e.joins = s.joins /\ e.removed = s.removed \cup {n}
          /\ e.orders = s.orders
      BY <1>0, <2>0, Parts
    <2>2. Follows(s, r, e)
      BY <1>1, <2>1 DEF Follows
    <2> QED
      BY <2>2 DEF e
  <1>2. ASSUME NEW rows, r.op = "apply"
        PROVE  Follows(s, r, [s EXCEPT !.nodes = rows])
    <2> DEFINE e == [s EXCEPT !.nodes = rows]
    <2>0. e = Snapshot(rows, s.joins, s.removed, s.orders)
      BY Zenon, SetsParts
    <2> HIDE DEF e
    <2>1. IsSnapshot(e) /\ e.joins = s.joins /\ e.removed = s.removed /\ e.orders = s.orders
      BY <1>0, <2>0, Parts
    <2>2. Follows(s, r, e)
      BY <1>2, <2>1 DEF Follows
    <2> QED
      BY <2>2 DEF e
  <1>3. ASSUME NEW v, r.op \in {"file", "close"},
               r.op = "file" => r.order \in v,
               \A o \in s.orders : o \in v \/ (r.op = "close" /\ r.order = o)
        PROVE  Follows(s, r, [s EXCEPT !.orders = v])
    <2> DEFINE e == [s EXCEPT !.orders = v]
    <2>0. e = Snapshot(s.nodes, s.joins, s.removed, v)
      BY Zenon, SetsParts
    <2> HIDE DEF e
    <2>1. IsSnapshot(e) /\ e.joins = s.joins /\ e.removed = s.removed /\ e.orders = v
      BY <1>0, <2>0, Parts
    <2>2. Follows(s, r, e)
      BY <1>3, <2>1 DEF Follows
    <2> QED
      BY <2>2 DEF e
  <1>4. ASSUME NEW o, r.op = "file", r.order = o
        PROVE  Follows(s, r, [s EXCEPT !.orders = @ \cup {o}])
    <2> DEFINE v == s.orders \cup {o}
    <2>1. r.order \in v /\ \A p \in s.orders : p \in v
      BY <1>4
    <2> HIDE DEF v
    <2>2. Follows(s, r, [s EXCEPT !.orders = v])
      BY <1>3, <1>4, <2>1
    <2> QED
      BY <2>2 DEF v
  <1>5. ASSUME NEW o, r.op = "close", r.order = o
        PROVE  Follows(s, r, [s EXCEPT !.orders = @ \ {o}])
    <2>1. Follows(s, r, [s EXCEPT !.orders = s.orders \ {o}])
      BY <1>3, <1>5
    <2> QED
      BY <2>1
  <1>6. r.op = "file" /\ r.order \in s.orders => Follows(s, r, s)
    BY DEF Follows
  <1> QED
    BY <1>1, <1>2, <1>4, <1>5, <1>6

\* A request that is made reads a state that is agreed, and what it will write
\* follows it.
LEMMA AsksFollow ==
  ASSUME LogOK, EntriesFollow, NEW c \in Callers, NEW h \in Servers, Asks(c, h)
  PROVE  \E r : Becomes(c, r) /\ CallFollows(r)
  <1> DEFINE s == Read(h)
             b == applied[h]
  <1>1. b \in Nat /\ b \in 0..committed /\ b \in 0..Len(log)
    BY SeqLength DEF LogOK
  <1>2. IsSnapshot(s) /\ s = StateAt(b)
    BY <1>1, StatesWhole DEF Read
  <1> HIDE DEF s, b
  <1>3. ASSUME NEW pc \in {"propose", "removeVoter"}, NEW op, NEW token, NEW name, NEW order,
               NEW next, Suspend(c, Request(pc, op, h, token, name, order, next, b)),
               \A q : q.op = op /\ q.token = token /\ q.name = name /\ q.order = order
                        => Follows(s, q, next)
        PROVE  \E r : Becomes(c, r) /\ CallFollows(r)
    <2> DEFINE r == Request(pc, op, h, token, name, order, next, b)
    <2>1. /\ IsCall(r) /\ r.pc = pc /\ r.op = op /\ r.token = token /\ r.name = name
          /\ r.order = order /\ r.next = next /\ r.base = b
      BY <1>1, RequestIsCall
    <2>2. Becomes(c, r)
      BY Zenon, <1>3, <2>1 DEF Becomes, Suspend
    <2> HIDE DEF r
    <2>3. Follows(s, r, next)
      BY Zenon, <1>3, <2>1
    <2>4. CallFollows(r)
      BY <1>1, <1>2, <2>1, <2>3 DEF CallFollows
    <2> QED
      BY <2>2, <2>4
  <1>4. ASSUME NEW t \in Tokens, Mint(c, h, t)
        PROVE  \E r : Becomes(c, r) /\ CallFollows(r)
    <2> DEFINE next == [s EXCEPT !.joins =
                           [u \in DOMAIN @ \cup {t} |-> IF u = t THEN None ELSE @[u]]]
    <2>1. Suspend(c, Request("propose", "mint", h, t, None, None, next, b))
      BY <1>4 DEF Mint, s, b
    <2>2. t \notin DOMAIN s.joins
      <3>1. t \notin DOMAIN Founding.joins
        BY <1>4 DEF Mint, Founding
      <3>2. b # 0 => b \in DOMAIN log /\ s = log[b].state
        BY <1>1, <1>2, SeqLength DEF StateAt, LogOK
      <3>3. b = 0 => s = Founding
        BY <1>2 DEF StateAt
      <3> QED
        BY <1>4, <3>1, <3>2, <3>3 DEF Mint
    <2>3. \A q : q.op = "mint" => Follows(s, q, next)
      BY Zenon, <1>2, <2>2, MintFollows
    <2> HIDE DEF next
    <2> QED
      BY Zenon, <1>3, <2>1, <2>3
  <1>5. ASSUME NEW t \in Tokens, NEW n \in Names, Admit(c, h, t, n)
        PROVE  \E r : Becomes(c, r) /\ CallFollows(r)
    <2> DEFINE next == [s EXCEPT !.nodes = @ \cup {n}, !.joins[t] = n]
    <2>1. Suspend(c, Request("propose", "admit", h, t, n, None, next, b))
      BY Zenon, <1>5 DEF Admit, s, b
    <2>2. n # None
      BY ClusterAssumption DEF LogOK, Names
    <2>3. t \in DOMAIN s.joins /\ s.joins[t] = None
      BY Zenon, <1>5 DEF Admit, Admitted, Finishing, s
    <2>4. \A q : q.op = "admit" /\ q.token = t /\ q.name = n => Follows(s, q, next)
      BY Zenon, <1>2, <2>2, <2>3, AdmitFollows
    <2> HIDE DEF next
    <2> QED
      BY <1>3, <2>1, <2>4
  <1>6. ASSUME NEW t \in Tokens, NEW n \in Names, Enlist(c, h, t, n)
        PROVE  \E r : Becomes(c, r) /\ CallFollows(r)
    <2> DEFINE r == Request("addVoter", "enlist", h, t, n, None, Founding, 0)
    <2>1. call' = [call EXCEPT ![c] = r]
      BY <1>6 DEF Enlist, Suspend
    <2>2. IsCall(r) /\ r.pc = "addVoter" /\ r.op = "enlist"
      BY RequestIsCall
    <2> HIDE DEF r
    <2>3. Becomes(c, r) /\ CallFollows(r)
      BY <2>1, <2>2 DEF Becomes, CallFollows, WillWrite
    <2> QED
      BY <2>3
  <1>7. ASSUME NEW n \in Names, Remove(c, h, n)
        PROVE  \E r : Becomes(c, r) /\ CallFollows(r)
    <2> DEFINE next == Without(s, n)
    <2>1. Suspend(c, Request("removeVoter", "remove", h, None, n, None, next, b))
      BY Zenon, <1>7 DEF Remove, s, b
    <2>2. \A q : q.op = "remove" /\ q.name = n => Follows(s, q, next)
      BY <1>2, OthersFollow
    <2> HIDE DEF next
    <2> QED
      BY Zenon, <1>3, <2>1, <2>2
  <1>8. ASSUME NEW op, NEW o, NEW next, Write(c, h, op, o, next),
               \A q : q.op = op /\ q.order = o => Follows(s, q, next)
        PROVE  \E r : Becomes(c, r) /\ CallFollows(r)
    <2>1. Suspend(c, Request("propose", op, h, None, None, o, next, b))
      BY <1>8 DEF Write, b
    <2> QED
      BY Zenon, <1>3, <1>8, <2>1
  <1>9. CASE ApplyOnce(c, h)
    <2>1. PICK rows \in SUBSET Names : Write(c, h, "apply", None, [s EXCEPT !.nodes = rows])
      BY <1>9 DEF ApplyOnce, s
    <2> DEFINE next == [s EXCEPT !.nodes = rows]
    <2>2. \A q : q.op = "apply" => Follows(s, q, next)
      BY <1>2, OthersFollow
    <2>3. Write(c, h, "apply", None, next)
      BY <2>1
    <2> HIDE DEF next
    <2> QED
      BY <1>8, <2>2, <2>3
  <1>10. ASSUME NEW o \in Orders, OpenOrder(c, h, o)
         PROVE  \E r : Becomes(c, r) /\ CallFollows(r)
    <2> DEFINE next == [s EXCEPT !.orders = @ \cup {o}]
    <2>1. Write(c, h, "file", o, next)
      BY <1>10 DEF OpenOrder, s
    <2>2. \A q : q.op = "file" /\ q.order = o => Follows(s, q, next)
      BY <1>2, OthersFollow
    <2> HIDE DEF next
    <2> QED
      BY <1>8, <2>1, <2>2
  <1>11. ASSUME NEW o \in Orders, FileReached(c, h, o)
         PROVE  \E r : Becomes(c, r) /\ CallFollows(r)
    <2>1. Write(c, h, "file", o, s) /\ o \in s.orders
      BY <1>11 DEF FileReached, s
    <2>2. \A q : q.op = "file" /\ q.order = o => Follows(s, q, s)
      BY <1>2, <2>1, OthersFollow
    <2> QED
      BY <1>8, <2>1, <2>2
  <1>12. ASSUME NEW o \in Orders, CloseOrder(c, h, o)
         PROVE  \E r : Becomes(c, r) /\ CallFollows(r)
    <2> DEFINE next == [s EXCEPT !.orders = @ \ {o}]
    <2>1. Write(c, h, "close", o, next)
      BY <1>12 DEF CloseOrder, s
    <2>2. \A q : q.op = "close" /\ q.order = o => Follows(s, q, next)
      BY <1>2, OthersFollow
    <2> HIDE DEF next
    <2> QED
      BY <1>8, <2>1, <2>2
  <1> QED
    BY Zenon, <1>4, <1>5, <1>6, <1>7, <1>9, <1>10, <1>11, <1>12 DEF Asks

\* Whoever writes the same follows the same state.
LEMMA SameFollows ==
  ASSUME NEW q, NEW r, SameWrite(q, r), q.pc \in {"propose", "changeVoters"},
         q.pc = "changeVoters" => r.pc = "addVoter" \/ r.pc = "removeVoter",
         q.pc = "propose" => WillWrite(r), CallFollows(r)
  PROVE  CallFollows(q)
  BY Zenon DEF CallFollows, SameWrite, WillWrite, Follows

(***************************************************************************)
(* Every step keeps it.                                                    *)
(***************************************************************************)

\* States that are not written over stay what they are.
LEMMA StatesStay ==
  ASSUME setup' = setup, NEW m \in Nat, \A i \in 1..m : log'[i] = log[i]
  PROVE  \A b \in 0..m : StateAt(b)' = StateAt(b)
  BY DEF StateAt, Founding, Minted

\* The cluster of a behaviour is chosen once.
LEMMA SetupStays == [Next]_vars => setup' = setup
  <1>1. \A c \in Callers, h \in Servers : Asks(c, h) => setup' = setup
    BY AsksLeavesLog DEF consensus
  <1> QED
    BY Zenon, <1>1 DEF Next, AddVoter, RemoveVoter, ChangeVoters, Propose, Answered, GiveUp,
                       Commit, Apply, Elect, Expire, consensus, vars

\* What a request read is agreed, so it stays.
LEMMA RequestsStay ==
  ASSUME LogOK, LogOK', Grows, setup' = setup
  PROVE  \A r : CallFollows(r) => CallFollows(r)'
  <1>1. committed \in Nat /\ committed' \in Nat /\ committed <= committed'
    BY SeqLength DEF LogOK, Grows
  <1>2. \A b \in 0..committed : StateAt(b)' = StateAt(b)
    BY <1>1, StatesStay DEF Grows
  <1> SUFFICES ASSUME NEW r, CallFollows(r)
               PROVE  CallFollows(r)'
    OBVIOUS
  <1>3. WillWrite(r) => r.base \in 0..committed' /\ Follows(StateAt(r.base)', r, r.next)
    <2>1. WillWrite(r) => r.base \in 0..committed /\ Follows(StateAt(r.base), r, r.next)
      BY DEF CallFollows
    <2>2. 0..committed \subseteq 0..committed'
      BY <1>1
    <2> QED
      BY Zenon, <1>2, <2>1, <2>2
  <1>4. Servers' = Servers
    BY DEF Servers
  <1> QED
    BY Zenon, <1>3, <1>4 DEF CallFollows

\* One caller goes on with a request that follows what it read.
LEMMA CallsFollowKept ==
  ASSUME LogOK, LogOK', Grows, setup' = setup, CallsOK, CallsFollow, NEW c \in Callers, NEW r,
         Becomes(c, r), CallFollows(r)'
  PROVE  CallsFollow'
  <1>1. \A d \in Callers : call'[d] = IF d = c THEN r ELSE call[d]
    BY DEF CallsOK, Becomes
  <1>2. \A q : CallFollows(q) => CallFollows(q)'
    BY RequestsStay
  <1>3. \A d \in Callers \ {c} : CallFollows(call'[d])
    BY <1>1 DEF CallsFollow
  <1> QED
    BY <1>1, <1>2, <1>3 DEF CallsFollow

\* Every request goes on following the state it read.
LEMMA CallsFollowStep ==
  LogOK /\ CallsOK /\ EntriesFollow /\ CallsFollow /\ [Next]_vars => CallsFollow'
  <1> SUFFICES ASSUME LogOK, CallsOK, EntriesFollow, CallsFollow, [Next]_vars
               PROVE  CallsFollow'
    OBVIOUS
  <1>0. LogOK' /\ Grows /\ setup' = setup
    BY LogStep, SetupStays
  <1>1. \A r : CallFollows(r) => CallFollows(r)'
    BY <1>0, RequestsStay
  <1>2. ASSUME NEW c \in Callers, \E r : Becomes(c, r) /\ CallFollows(r)
        PROVE  CallsFollow'
    BY <1>0, <1>1, <1>2, CallsFollowKept
  <1>3. \A c \in Callers : CallFollows(call[c])
    BY DEF CallsFollow
  <1>4. CallFollows(Idle)
    BY IdleIsCall DEF CallFollows, WillWrite
  <1>5. ASSUME NEW c \in Callers, NEW h \in Servers, Asks(c, h)
        PROVE  CallsFollow'
    BY <1>2, <1>5, AsksFollow
  <1>6. ASSUME NEW c \in Callers, AddVoter(c) \/ RemoveVoter(c)
        PROVE  CallsFollow'
    <2>1. PICK r : Becomes(c, r) /\ r.pc = "changeVoters" /\ SameWrite(r, call[c])
      BY Zenon, <1>6, ReadingVoters
    <2>2. call[c].pc \in {"addVoter", "removeVoter"}
      BY Zenon, <1>6, ReadingVoters
    <2>3. CallFollows(r)
      BY <1>3, <2>1, <2>2, SameFollows
    <2> QED
      BY <1>2, <2>1, <2>3
  <1>7. ASSUME NEW c \in Callers, ChangeVoters(c)
        PROVE  CallsFollow'
    <2>1. PICK r : /\ Becomes(c, r)
                   /\ r.pc = "idle" \/ (/\ r.pc = "propose" /\ r.op = "remove"
                                        /\ SameWrite(r, call[c]))
      BY <1>7, ChangingVoters
    <2>2. call[c].pc = "changeVoters"
      BY <1>7, ChangingVoters
    <2>3. CASE r.pc = "idle"
      <3>1. CallFollows(r)
        BY <2>3 DEF CallFollows, WillWrite
      <3> QED
        BY <1>2, <2>1, <3>1
    <2>4. CASE r.pc = "propose" /\ r.op = "remove" /\ SameWrite(r, call[c])
      <3>1. WillWrite(call[c])
        BY <2>2, <2>4 DEF WillWrite, SameWrite
      <3>2. CallFollows(r)
        BY <1>3, <2>4, <3>1, SameFollows
      <3> QED
        BY <1>2, <2>1, <3>2
    <2> QED
      BY SMTT(30), <2>1, <2>3, <2>4
  <1>8. ASSUME NEW c \in Callers, Propose(c)
        PROVE  CallsFollow'
    <2>1. PICK r : /\ Becomes(c, r) /\ r.pc = "wait" /\ r.at = Len(log) + 1
                   /\ r.home = call[c].home
      BY <1>8, Proposed
    <2>2. leader = call[c].home /\ leader \in Servers
      BY <1>8, Proposed DEF LogOK
    <2>3. r.at # 0
      BY <2>1, SeqLength DEF LogOK
    <2>4. CallFollows(r)
      BY <2>1, <2>2, <2>3 DEF CallFollows, WillWrite
    <2> QED
      BY <1>2, <2>1, <2>4
  <1>9. ASSUME NEW c \in Callers, Answered(c) \/ GiveUp(c)
        PROVE  CallsFollow'
    <2>1. Becomes(c, Idle)
      BY <1>9, IdleIsCall DEF Answered, GiveUp, Suspend, Becomes
    <2> QED
      BY <1>2, <1>4, <2>1
  <1>10. CASE \/ Commit
              \/ \E h \in Servers : Apply(h) \/ Elect(h)
              \/ \E t \in Tokens : Expire(t)
              \/ UNCHANGED vars
    <2>1. call' = call
      BY <1>10 DEF Commit, Apply, Elect, Expire, vars
    <2> QED
      BY <1>1, <2>1 DEF CallsFollow
  <1> QED
    BY <1>5, <1>6, <1>7, <1>8, <1>9, <1>10 DEF Next

\* A step proposes an entry, cuts the log back, or leaves it.
LEMMA LogMoves ==
  ASSUME LogOK, CallsOK, CallsFollow, [Next]_vars
  PROVE  \/ /\ Len(log') = Len(log) + 1
            /\ \A i \in 1..Len(log) : log'[i] = log[i]
            /\ \E r : /\ r.base \in 0..committed
                      /\ Follows(StateAt(r.base), r, r.next)
                      /\ log'[Len(log) + 1].state = r.next
                      /\ log'[Len(log) + 1].base = r.base
                      /\ log'[Len(log) + 1].op = r.op
                      /\ log'[Len(log) + 1].token = r.token
                      /\ log'[Len(log) + 1].name = r.name
                      /\ log'[Len(log) + 1].order = r.order
         \/ /\ Len(log') \in committed..Len(log)
            /\ \A i \in 1..Len(log') : log'[i] = log[i]
  <1>0. Len(log) \in Nat /\ committed \in 0..Len(log)
    BY SeqLength DEF LogOK
  <1>1. ASSUME NEW c \in Callers, Propose(c)
        PROVE  /\ Len(log') = Len(log) + 1
               /\ \A i \in 1..Len(log) : log'[i] = log[i]
               /\ \E r : /\ r.base \in 0..committed
                         /\ Follows(StateAt(r.base), r, r.next)
                         /\ log'[Len(log) + 1].state = r.next
                         /\ log'[Len(log) + 1].base = r.base
                         /\ log'[Len(log) + 1].op = r.op
                         /\ log'[Len(log) + 1].token = r.token
                         /\ log'[Len(log) + 1].name = r.name
                         /\ log'[Len(log) + 1].order = r.order
    <2>1. /\ Len(log') = Len(log) + 1
          /\ \A i \in 1..Len(log) : log'[i] = log[i]
          /\ log'[Len(log) + 1] = Entry(c)
      BY <1>1, Appended DEF Propose, LogOK
    <2> DEFINE r == call[c]
    <2>2. /\ Entry(c).state = r.next /\ Entry(c).base = r.base /\ Entry(c).op = r.op
          /\ Entry(c).token = r.token /\ Entry(c).name = r.name /\ Entry(c).order = r.order
      BY DEF Entry
    <2>3. CallFollows(r) /\ r.pc = "propose"
      BY <1>1 DEF CallsFollow, Propose, In
    <2> HIDE DEF r
    <2>4. r.base \in 0..committed /\ Follows(StateAt(r.base), r, r.next)
      BY <2>3 DEF CallFollows, WillWrite
    <2> QED
      BY Zenon, <2>1, <2>2, <2>4
  <1>2. ASSUME NEW h \in Servers, Elect(h)
        PROVE  /\ Len(log') \in committed..Len(log)
               /\ \A i \in 1..Len(log') : log'[i] = log[i]
    <2>1. PICK kept \in committed..Len(log) : log' = SubSeq(log, 1, kept)
      BY <1>2 DEF Elect
    <2>2. Len(log') = kept /\ \A i \in 1..kept : log'[i] = log[i]
      BY <1>0, <2>1, CutBack DEF LogOK
    <2> QED
      BY <2>1, <2>2
  <1>3. (\E c \in Callers, h \in Servers : Asks(c, h)) => log' = log
    BY AsksLeavesLog DEF consensus
  <1>4. \A c \in Callers : AddVoter(c) \/ RemoveVoter(c) \/ ChangeVoters(c) \/ Answered(c)
                             \/ GiveUp(c) => log' = log
    BY DEF AddVoter, RemoveVoter, ChangeVoters, Answered, GiveUp, consensus
  <1>5. \/ Commit \/ \E h \in Servers : Apply(h)
        \/ \E t \in Tokens : Expire(t)
        \/ UNCHANGED vars
        => log' = log
    BY DEF Commit, Apply, Expire, vars, consensus
  <1>6. log' = log => /\ Len(log') \in committed..Len(log)
                      /\ \A i \in 1..Len(log') : log'[i] = log[i]
    BY <1>0
  <1>7. \/ \E c \in Callers : Propose(c)
        \/ \E h \in Servers : Elect(h)
        \/ log' = log
    BY Zenon, <1>3, <1>4, <1>5 DEF Next
  <1> QED
    BY Zenon, <1>1, <1>2, <1>6, <1>7

\* Every entry goes on following the state its writer had read.
LEMMA EntriesFollowStep ==
  LogOK /\ CallsOK /\ EntriesFollow /\ CallsFollow /\ [Next]_vars => EntriesFollow'
  <1> SUFFICES ASSUME LogOK, CallsOK, EntriesFollow, CallsFollow, [Next]_vars
               PROVE  EntriesFollow'
    OBVIOUS
  <1>0. Len(log) \in Nat /\ committed \in 0..Len(log) /\ setup' = setup
    BY SeqLength, SetupStays DEF LogOK
  <1>1. ASSUME NEW m \in 0..Len(log), \A i \in 1..m : log'[i] = log[i]
        PROVE  \A j \in 1..m : EntryFollows(j)'
    <2>1. \A b \in 0..m : StateAt(b)' = StateAt(b)
      BY <1>0, <1>1, StatesStay
    <2> SUFFICES ASSUME NEW j \in 1..m
                 PROVE  EntryFollows(j)'
      OBVIOUS
    <2>2. j \in 1..Len(log) /\ log'[j] = log[j]
      BY <1>0, <1>1
    <2>3. log[j].base \in 0..(j - 1) /\ Follows(StateAt(log[j].base), log[j], log[j].state)
      BY <2>2 DEF EntriesFollow, EntryFollows
    <2>4. StateAt(log[j].base)' = StateAt(log[j].base)
      <3>1. log[j].base \in 0..m
        BY <1>0, <2>3
      <3> QED
        BY <2>1, <2>2, <3>1 DEF StateAt
    <2> QED
      BY <2>2, <2>3, <2>4 DEF EntryFollows
  <1>2. CASE /\ Len(log') \in committed..Len(log)
             /\ \A i \in 1..Len(log') : log'[i] = log[i]
    <2>1. Len(log') \in 0..Len(log)
      BY <1>0, <1>2
    <2> QED
      BY Zenon, <1>1, <1>2, <2>1 DEF EntriesFollow
  <1>3. CASE /\ Len(log') = Len(log) + 1
             /\ \A i \in 1..Len(log) : log'[i] = log[i]
             /\ \E r : /\ r.base \in 0..committed
                       /\ Follows(StateAt(r.base), r, r.next)
                       /\ log'[Len(log) + 1].state = r.next
                       /\ log'[Len(log) + 1].base = r.base
                       /\ log'[Len(log) + 1].op = r.op
                       /\ log'[Len(log) + 1].token = r.token
                       /\ log'[Len(log) + 1].name = r.name
                       /\ log'[Len(log) + 1].order = r.order
    <2>0. PICK k \in Nat : k = Len(log) + 1
      BY <1>0
    <2> DEFINE e == log'[k]
    <2>1. \A j \in 1..Len(log) : EntryFollows(j)'
      BY <1>0, <1>1, <1>3
    <2>2. PICK r : /\ r.base \in 0..committed
                   /\ Follows(StateAt(r.base), r, r.next)
                   /\ e.state = r.next /\ e.base = r.base /\ e.op = r.op
                   /\ e.token = r.token /\ e.name = r.name /\ e.order = r.order
      BY Zenon, <1>3, <2>0
    <2> HIDE DEF e
    <2>3. StateAt(r.base)' = StateAt(r.base)
      <3>1. \A b \in 0..Len(log) : StateAt(b)' = StateAt(b)
        BY <1>0, <1>3, StatesStay
      <3> QED
        BY <1>0, <2>2, <3>1
    <2>4. Follows(StateAt(r.base)', e, e.state)
      BY Zenon, <2>2, <2>3 DEF Follows
    <2>5. e.base \in 0..(k - 1)
      BY SMTT(30), <1>0, <2>0, <2>2
    <2>6. EntryFollows(k)'
      BY <2>2, <2>4, <2>5 DEF EntryFollows, StateAt, e
    <2>7. \A j \in 1..k : j \in 1..Len(log) \/ j = k
      BY <1>0, <2>0
    <2>8. \A j \in 1..k : EntryFollows(j)'
      BY <2>1, <2>6, <2>7
    <2> QED
      BY Zenon, <1>3, <2>0, <2>8 DEF EntriesFollow
  <1> QED
    BY Zenon, <1>2, <1>3, LogMoves

\* What survives up to every earlier position survives in the next entry: its
\* writer had read a state in between, where it was.
SurvivesNext ==
    LogOK /\ EntriesFollow =>
        \A k \in 1..Len(log) :
            (\A i, m \in 1..(k - 1) : i <= m => Survives(i, m))
                => \A i \in 1..k : Survives(i, k)

\* An entry carries on what the state its writer read had kept.
LEMMA CarriedOn == SurvivesNext
  <1> SUFFICES ASSUME LogOK, EntriesFollow, NEW k \in 1..Len(log),
                      \A i, m \in 1..(k - 1) : i <= m => Survives(i, m),
                      NEW i \in 1..k, \A j \in (i + 1)..k : log[j].base >= i
               PROVE  /\ log[i].op = "remove" => log[i].name \in log[k].state.removed
                      /\ log[i].op = "admit" =>
                            /\ log[i].token \in DOMAIN log[k].state.joins
                            /\ log[k].state.joins[log[i].token] = log[i].name
                      /\ log[i].op = "file" =>
                            \/ log[i].order \in log[k].state.orders
                            \/ \E j \in i..k : /\ log[j].op = "close"
                                               /\ log[j].order = log[i].order
    BY Zenon DEF SurvivesNext, Survives
  <1>0. Len(log) \in Nat
    BY SeqLength DEF LogOK
  <1>1. /\ Follows(StateAt(log[k].base), log[k], log[k].state)
        /\ Follows(StateAt(log[i].base), log[i], log[i].state)
        /\ log[k].base \in 0..(k - 1)
    BY <1>0 DEF EntriesFollow, EntryFollows
  <1>2. CASE i = k
    <2>1. k \in i..k
      BY SMTT(30), <1>2
    <2> QED
      BY Zenon, <1>1, <1>2 DEF Follows
  <1>3. CASE i # k
    <2>0. PICK b : b = log[k].base
      BY SMTT(30)
    <2>1. /\ b \in i..(k - 1) /\ b # 0 /\ b \in 1..(k - 1) /\ i \in 1..(k - 1) /\ i <= b
          /\ k \in i..k
          /\ \A j \in (i + 1)..b : j \in (i + 1)..k
          /\ \A j \in i..b : j \in i..k
      BY <1>0, <1>1, <1>3, <2>0
    <2>2. StateAt(b) = log[b].state
      BY <2>1 DEF StateAt
    <2>3. Survives(i, b)
      BY <2>1
    <2>4. /\ log[i].op = "remove" => log[i].name \in log[b].state.removed
          /\ log[i].op = "admit" => /\ log[i].token \in DOMAIN log[b].state.joins
                                    /\ log[b].state.joins[log[i].token] = log[i].name
          /\ log[i].op = "file" =>
                \/ log[i].order \in log[b].state.orders
                \/ \E j \in i..b : log[j].op = "close" /\ log[j].order = log[i].order
      BY Zenon, <2>1, <2>3 DEF Survives
    <2>5. Follows(log[b].state, log[k], log[k].state)
      BY <1>1, <2>0, <2>2
    <2>6. log[i].op = "admit" => log[i].name # None
      BY Zenon, <1>1 DEF Follows
    <2>7. log[i].op = "remove" => log[i].name \in log[k].state.removed
      BY Zenon, <2>4, <2>5 DEF Follows
    <2>8. log[i].op = "admit" => /\ log[i].token \in DOMAIN log[k].state.joins
                                 /\ log[k].state.joins[log[i].token] = log[i].name
      BY Zenon, <2>4, <2>5, <2>6 DEF Follows
    <2>9. log[i].op = "file" =>
              \/ log[i].order \in log[k].state.orders
              \/ \E j \in i..k : log[j].op = "close" /\ log[j].order = log[i].order
      BY Zenon, <2>1, <2>4, <2>5 DEF Follows
    <2> QED
      BY <2>7, <2>8, <2>9
  <1> QED
    BY Zenon, <1>2, <1>3

\* What survives between two positions does so while both stay.
LEMMA SurvivesStay ==
  ASSUME NEW m \in Nat, \A i \in 1..m : log'[i] = log[i],
         NEW i \in 1..m, NEW k \in 1..m, Survives(i, k)
  PROVE  Survives(i, k)'
  <1>1. \A j \in i..k : log'[j] = log[j]
    OBVIOUS
  <1>2. \A j \in (i + 1)..k : log'[j] = log[j]
    OBVIOUS
  <1>3. log'[i] = log[i] /\ log'[k] = log[k]
    OBVIOUS
  <1> QED
    BY Zenon, <1>1, <1>2, <1>3 DEF Survives

\* Every step keeps between any two positions what survives.
LEMMA AllSurviveStep ==
  LogOK /\ CallsOK /\ EntriesFollow /\ CallsFollow /\ AllSurvive /\ [Next]_vars => AllSurvive'
  <1> SUFFICES ASSUME LogOK, CallsOK, EntriesFollow, CallsFollow, AllSurvive, [Next]_vars
               PROVE  AllSurvive'
    OBVIOUS
  <1>0. Len(log) \in Nat /\ committed \in 0..Len(log)
    BY SeqLength DEF LogOK
  <1>1. LogOK' /\ EntriesFollow'
    BY LogStep, EntriesFollowStep
  <1>2. SurvivesNext'
    BY CarriedOn, PTL
  <1>3. ASSUME NEW m \in 0..Len(log), \A i \in 1..m : log'[i] = log[i]
        PROVE  \A i, k \in 1..m : i <= k => Survives(i, k)'
    <2> SUFFICES ASSUME NEW i \in 1..m, NEW k \in 1..m, i <= k
                 PROVE  Survives(i, k)'
      OBVIOUS
    <2>1. m \in Nat /\ i \in 1..Len(log) /\ k \in 1..Len(log)
      BY <1>0
    <2>2. Survives(i, k)
      BY <2>1 DEF AllSurvive
    <2> QED
      BY <1>3, <2>1, <2>2, SurvivesStay
  <1>4. CASE Len(log') \in committed..Len(log) /\ \A i \in 1..Len(log') : log'[i] = log[i]
    <2>1. PICK m \in 0..Len(log) : m = Len(log')
      BY <1>0, <1>4
    <2>2. \A i, k \in 1..m : i <= k => Survives(i, k)'
      BY Zenon, <1>3, <1>4, <2>1
    <2> QED
      BY Zenon, <2>1, <2>2 DEF AllSurvive
  <1>5. CASE Len(log') = Len(log) + 1 /\ \A i \in 1..Len(log) : log'[i] = log[i]
    <2>1. PICK m \in 0..Len(log) : m = Len(log)
      BY <1>0
    <2>2. PICK n \in Nat : n = m + 1 /\ n = Len(log') /\ n \in 1..Len(log') /\ n - 1 = m
      BY <1>0, <1>5, <2>1
    <2>3. \A i, k \in 1..m : i <= k => Survives(i, k)'
      BY Zenon, <1>3, <1>5, <2>1
    <2>4. \A i \in 1..n : Survives(i, n)'
      <3>1. \A k \in 1..Len(log') :
               (\A i, j \in 1..(k - 1) : i <= j => Survives(i, j)')
                   => \A i \in 1..k : Survives(i, k)'
        BY Zenon, <1>1, <1>2 DEF SurvivesNext
      <3> QED
        BY Zenon, <2>2, <2>3, <3>1
    <2>5. \A i, k \in 1..n : i <= k => (i \in 1..m /\ k \in 1..m) \/ k = n
      BY <2>2
    <2>6. \A i, k \in 1..n : i <= k => Survives(i, k)'
      BY Zenon, <2>3, <2>4, <2>5
    <2> QED
      BY Zenon, <2>2, <2>6 DEF AllSurvive
  <1> QED
    BY Zenon, <1>4, <1>5, LogMoves

\* Nobody is told of an entry before it is agreed.
LEMMA ToldStep ==
  LogOK /\ CallsOK /\ CallsFollow /\ told \subseteq 1..committed /\ [Next]_vars
    => told' \subseteq 1..committed'
  <1> SUFFICES ASSUME LogOK, CallsOK, CallsFollow, told \subseteq 1..committed, [Next]_vars
               PROVE  told' \subseteq 1..committed'
    OBVIOUS
  <1>0. committed \in Nat /\ committed' \in Nat /\ committed <= committed'
    <2>1. LogOK' /\ Grows
      BY LogStep
    <2> QED
      BY <2>1, SeqLength DEF LogOK, Grows
  <1>1. 1..committed \subseteq 1..committed'
    BY <1>0
  <1>2. ASSUME NEW c \in Callers, Answered(c)
        PROVE  told' \subseteq 1..committed'
    <2> DEFINE at == call[c].at
    <2>1. call[c].pc = "wait" /\ applied[call[c].home] >= at /\ told' = told \cup {at}
      BY <1>2 DEF Answered, In
    <2>2. call[c].home \in Servers /\ at # 0
      BY <2>1 DEF CallsFollow, CallFollows
    <2>3. applied[call[c].home] \in Nat /\ applied[call[c].home] <= committed
      BY <2>2 DEF LogOK
    <2>4. at \in Nat
      BY DEF CallsOK, IsCall
    <2> HIDE DEF at
    <2>5. at \in 1..committed
      BY <1>0, <2>1, <2>2, <2>3, <2>4
    <2> QED
      BY Zenon, <1>1, <2>1, <2>5
  <1>3. \/ \E c \in Callers : Answered(c)
        \/ told' = told
    <2>1. ASSUME NEW c \in Callers, NEW h \in Servers, Asks(c, h)
          PROVE  told' = told
      BY Zenon, <2>1 DEF Asks, Mint, Admit, Enlist, Remove, ApplyOnce, OpenOrder, FileReached,
                         CloseOrder, Write
    <2> QED
      BY Zenon, <2>1 DEF Next, AddVoter, RemoveVoter, ChangeVoters, Propose, GiveUp, Commit,
                         Apply, Elect, Expire, vars
  <1> QED
    BY Zenon, <1>1, <1>2, <1>3

\* When no entry after it missed what callers were told, all of that is agreed.
LEMMA PromisesFollow == LogOK /\ PromiseInv => PromisesKept
  <1> SUFFICES ASSUME LogOK, PromiseInv, \A i \in told : ~Overwritten(i)
               PROVE  SingleUse /\ RemovedStaysRefused /\ FiledIsKept
    BY DEF PromisesKept
  <1>0. /\ Len(log) \in Nat /\ DOMAIN log = 1..Len(log) /\ committed \in 0..Len(log)
        /\ told \subseteq 1..committed
    BY SeqLength DEF LogOK, PromiseInv
  <1>1. \A i \in told, j \in 1..Len(log) : i < j => log[j].base >= i
    <2> SUFFICES ASSUME NEW i \in told, NEW j \in 1..Len(log), i < j
                 PROVE  log[j].base >= i
      OBVIOUS
    <2>1. ~(log[j].base < i)
      BY <1>0 DEF Overwritten
    <2>2. log[j].base \in 0..(j - 1)
      BY DEF PromiseInv, EntriesFollow, EntryFollows
    <2> QED
      BY <1>0, <2>1, <2>2
  <1>2. ASSUME NEW i \in told, NEW k \in 1..Len(log), i <= k
        PROVE  /\ log[i].op = "remove" => log[i].name \in log[k].state.removed
               /\ log[i].op = "admit" => /\ log[i].token \in DOMAIN log[k].state.joins
                                         /\ log[k].state.joins[log[i].token] = log[i].name
               /\ log[i].op = "file" =>
                     \/ log[i].order \in log[k].state.orders
                     \/ \E j \in i..k : log[j].op = "close" /\ log[j].order = log[i].order
    <2>1. i \in 1..Len(log) /\ \A j \in (i + 1)..k : j \in 1..Len(log) /\ i < j
      BY <1>0
    <2>2. Survives(i, k)
      BY <1>2, <2>1 DEF PromiseInv, AllSurvive
    <2> QED
      BY Zenon, <1>1, <2>1, <2>2 DEF Survives
  <1>3. \A i \in told : /\ i <= committed /\ committed \in 1..Len(log)
                        /\ Agreed = log[committed].state
    BY <1>0 DEF Agreed, StateAt
  <1>4. RemovedStaysRefused
    BY Zenon, <1>2, <1>3 DEF RemovedStaysRefused, Told
  <1>5. FiledIsKept
    BY Zenon, <1>2, <1>3 DEF FiledIsKept, Told
  <1>6. ASSUME NEW i \in told, NEW j \in told, log[i].op = "admit", log[j].op = "admit",
               log[i].token = log[j].token, i < j
        PROVE  FALSE
    <2>0. PICK b : b = log[j].base
      OBVIOUS
    <2>1. j \in 1..Len(log) /\ i \in 1..Len(log)
      BY <1>0
    <2>2. /\ b \in 0..(j - 1) /\ Follows(StateAt(b), log[j], log[j].state)
          /\ Follows(StateAt(log[i].base), log[i], log[i].state)
      BY <2>0, <2>1 DEF PromiseInv, EntriesFollow, EntryFollows
    <2>3. b \in 1..Len(log) /\ i <= b /\ b # 0
      BY <1>0, <1>1, <1>6, <2>0, <2>1, <2>2
    <2>4. StateAt(b) = log[b].state
      BY <2>3 DEF StateAt
    <2>5. log[b].state.joins[log[i].token] = log[i].name
      BY <1>2, <1>6, <2>3
    <2>6. log[i].name # None
      BY Zenon, <1>6, <2>2 DEF Follows
    <2>7. log[b].state.joins[log[j].token] = None
      BY Zenon, <1>6, <2>2, <2>4 DEF Follows
    <2> QED
      BY <1>6, <2>5, <2>6, <2>7
  <1>7. SingleUse
    <2> SUFFICES ASSUME NEW i \in told, NEW j \in told, log[i].op = "admit",
                        log[j].op = "admit", log[i].token = log[j].token
                 PROVE  log[i].name = log[j].name
      BY Zenon DEF SingleUse, Told
    <2>1. i < j \/ j < i \/ i = j
      BY <1>0
    <2> QED
      BY <1>6, <2>1
  <1> QED
    BY <1>4, <1>5, <1>7

(***************************************************************************)
(* The theorems.                                                           *)
(***************************************************************************)

ClusterIInv == LogOK /\ CallsOK /\ BasesOK /\ VotersInv /\ LockInv

\* A cluster that has just been founded.
LEMMA ClusterInit == Init => ClusterIInv
  <1> SUFFICES ASSUME Init
               PROVE  ClusterIInv
    OBVIOUS
  <1>1. IsSeq(log) /\ Len(log) = 0
    <2>1. << >> \in Seq({}) /\ Len(<< >>) = 0
      OBVIOUS
    <2> QED
      BY <2>1 DEF Init, IsSeq
  <1>2. \A c \in Callers : call[c] = Idle
    BY DEF Init
  <1>3. LogOK
    BY <1>1 DEF Init, LogOK
  <1>4. CallsOK
    BY <1>2, IdleIsCall DEF Init, CallsOK
  <1>5. BasesOK
    BY <1>1 DEF BasesOK
  <1>6. VotersInv
    BY <1>2, IdleIsCall DEF Init, VotersInv
  <1>7. LockInv
    BY <1>1, <1>2, IdleIsCall DEF Init, LockInv, HoldsLock, WaitsHere, ToldIsApplied, HasRead,
                                  IsLast, KeptOut, InFlight
  <1> QED
    BY <1>3, <1>4, <1>5, <1>6, <1>7 DEF ClusterIInv

\* The invariant of the replicated state holds in every behaviour.
THEOREM ClusterInvariant == Spec => []ClusterIInv
  <1>1. ClusterIInv /\ [Next]_vars => ClusterIInv'
    BY LogStep, CallsStep, BasesStep, VotersStep, LockStep DEF ClusterIInv
  <1> QED
    BY <1>1, ClusterInit, PTL DEF Spec

\* In no cluster, however many requests overlap, are given up or fail over,
\* does a node vote before the first call of its join was agreed (join.rs
\* admit and enlist, cluster.rs add_voter and remove_voter).
THEOREM OnlyTheAdmittedVote == Spec => []VoterWasAdmitted
  <1>1. ClusterIInv => VoterWasAdmitted
    BY Zenon DEF ClusterIInv, VotersInv, AdmittedBefore, VoterWasAdmitted
  <1> QED
    BY <1>1, ClusterInvariant, PTL

\* Until the first change of leader no writer of the node process writes over
\* what another of them was told is agreed (ek-ek/src/cluster.rs one_at_a_time).
THEOREM TheLockKeepsOut == Spec => []LockKeepsOut
  <1>1. ClusterIInv => LockKeepsOut
    <2> SUFFICES ASSUME ClusterIInv, elections = 0, NEW i \in told, NEW j \in DOMAIN log,
                        i < j, log[j].base < i, log[i].op \in Locked, log[j].op \in Locked
                 PROVE  FALSE
      BY DEF LockKeepsOut
    <2>1. j \in 1..Len(log) /\ i \in Nat
      BY SeqLength DEF ClusterIInv, LogOK, CallsOK
    <2>2. log[j].base \in Nat /\ log[j].base >= i
      BY <2>1 DEF ClusterIInv, BasesOK, LockInv, KeptOut
    <2>3. \A a, b \in Nat : ~(a >= b /\ a < b)
      OBVIOUS
    <2> QED
      BY Zenon, <2>1, <2>2, <2>3
  <1> QED
    BY <1>1, ClusterInvariant, PTL

\* Whatever callers were promised holds in every cluster, however many requests
\* overlap, are given up or fail over, unless a request that had read an older
\* state wrote it back (join.rs mint, admit and remove, ek-ek/src/cluster.rs
\* apply_once and the filing of an order, all through write_audited).
THEOREM WhatWasPromisedHolds == Spec => []PromisesKept
  <1> DEFINE Inv == LogOK /\ CallsOK /\ PromiseInv
  <1>1. Init => Inv
    <2> SUFFICES ASSUME Init
                 PROVE  Inv
      OBVIOUS
    <2>1. LogOK /\ CallsOK
      BY ClusterInit DEF ClusterIInv
    <2>2. Len(log) = 0 /\ committed = 0 /\ told = {}
      <3>1. Len(<< >>) = 0
        OBVIOUS
      <3> QED
        BY <3>1 DEF Init
    <2>3. CallsFollow
      BY IdleIsCall DEF Init, CallsFollow, CallFollows, WillWrite
    <2>4. EntriesFollow /\ AllSurvive
      BY <2>2 DEF EntriesFollow, AllSurvive
    <2> QED
      BY <2>1, <2>2, <2>3, <2>4 DEF PromiseInv
  <1>2. Inv /\ [Next]_vars => Inv'
    BY LogStep, CallsStep, EntriesFollowStep, CallsFollowStep, AllSurviveStep, ToldStep
       DEF PromiseInv
  <1>3. Inv => PromisesKept
    BY PromisesFollow
  <1> QED
    BY <1>1, <1>2, <1>3, PTL DEF Spec
==============================================================================
