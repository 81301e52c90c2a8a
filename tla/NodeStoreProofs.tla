--------------------------- MODULE NodeStoreProofs ---------------------------
(***************************************************************************)
(* Proofs about NodeStore, for every number of clients, writes, falls and  *)
(* every retention limit.                                                  *)
(***************************************************************************)
EXTENDS NodeStore, SequenceTheorems, TLAPS

(***************************************************************************)
(* The key and the database.                                               *)
(***************************************************************************)

\* A process past its key has read or made a whole one.
KeyInv == /\ KeyBeforeDatabase
          /\ pc \in {"keyed", "opened", "backed", "up"} => key = "whole"

\* What consensus and commands do needs the store open and touches no file.
LEMMA FilesLeftAlone == Consensus \/ Commands => UNCHANGED <<key, database, pc>>
  <1>1. Consensus => UNCHANGED process
    BY Zenon DEF Consensus, Agree, AppendLog, Truncate, SaveCommitted, PurgeMarker, PurgeRecords,
           ApplyBlank, ApplyMembership, MarkMembership, ApplyNormal, InstallSnapshot,
           KeepInstalled, ExportState, ExportHistory, ReadApplied, BuildSnapshot
  <1>2. Commands => UNCHANGED <<key, database, pc>>
    BY DEF Commands, ReadState, WriteState, RollBackFrom, RollBack, RollBackTo, process
  <1> QED
    BY <1>1, <1>2 DEF process

\* Wherever a first start stops, there is no database without the key that
\* opens it (master_key.rs create, sqlite.rs open).
THEOREM DatabaseHasItsKey == Spec => []KeyBeforeDatabase
  <1>1. Init => KeyInv
    BY DEF Init, KeyInv, KeyBeforeDatabase
  <1>2. KeyInv /\ [Next]_vars => KeyInv'
    <2> SUFFICES ASSUME KeyInv, [Next]_vars
                 PROVE  KeyInv'
      OBVIOUS
    <2>1. CASE Consensus \/ Commands
      BY <2>1, FilesLeftAlone DEF KeyInv, KeyBeforeDatabase
    <2>2. CASE CreateKey \/ FillKey \/ ReadKey \/ OpenDatabase
      BY <2>2 DEF CreateKey, FillKey, ReadKey, OpenDatabase, Goes, KeyInv, KeyBeforeDatabase
    <2>3. CASE Current \/ BackUp \/ BringForward \/ Upgrade \/ Crash
      BY <2>3 DEF Current, BackUp, BringForward, Upgrade, Crash, Goes, KeyInv,
                  KeyBeforeDatabase
    <2>4. CASE UNCHANGED vars
      BY <2>4 DEF vars, process, KeyInv, KeyBeforeDatabase
    <2> QED
      BY <2>1, <2>2, <2>3, <2>4 DEF Next, Process
  <1> QED
    BY <1>1, <1>2, PTL DEF Spec, KeyInv

(***************************************************************************)
(* Shapes.                                                                 *)
(***************************************************************************)

\* A database, a state of it and a command are records of these fields.
IsDb(d) == /\ d = [state |-> d.state, schema |-> d.schema, versions |-> d.versions,
                   seq |-> d.seq, pruned |-> d.pruned]
           /\ d.seq \in Nat

IsState(s) == s = [cfg |-> s.cfg, certs |-> s.certs, beside |-> s.beside]

StateOrNone(s) == s = None \/ IsState(s)

IsCommand(r) == /\ r = [pc |-> r.pc, op |-> r.op, id |-> r.id, doc |-> r.doc,
                        held |-> r.held, seen |-> r.seen]
                /\ r.seen \in Nat

\* The columns of d but for one are those of e.
SameBut(d, e, column) == /\ column = "state" \/ e.state = d.state
                         /\ column = "schema" \/ e.schema = d.schema
                         /\ column = "versions" \/ e.versions = d.versions
                         /\ column = "seq" \/ e.seq = d.seq
                         /\ column = "pruned" \/ e.pruned = d.pruned

\* The counter of a database is set alone.
LEMMA SetCounter ==
  ASSUME NEW d, IsDb(d), NEW v \in Nat
  PROVE  LET e == [d EXCEPT !.seq = v] IN IsDb(e) /\ e.seq = v /\ SameBut(d, e, "seq")
  BY DEF IsDb, SameBut

\* A column of a database other than its counter is set alone.
LEMMA SetColumn ==
  ASSUME NEW d, IsDb(d), NEW v
  PROVE  /\ LET e == [d EXCEPT !.state = v]
            IN  IsDb(e) /\ e.state = v /\ SameBut(d, e, "state")
         /\ LET e == [d EXCEPT !.schema = v]
            IN  IsDb(e) /\ e.schema = v /\ SameBut(d, e, "schema")
         /\ LET e == [d EXCEPT !.versions = v]
            IN  IsDb(e) /\ e.versions = v /\ SameBut(d, e, "versions")
         /\ LET e == [d EXCEPT !.pruned = v]
            IN  IsDb(e) /\ e.pruned = v /\ SameBut(d, e, "pruned")
  BY DEF IsDb, SameBut

\* How many versions are past the limit, and the ones that are not.
Excess(rows) == IF Len(rows) > MaxVersions THEN Len(rows) - MaxVersions ELSE 0
Newest(rows) == SubSeq(rows, Excess(rows) + 1, Len(rows))
Dropped(rows) == {rows[i].id : i \in 1 .. Excess(rows)}

\* The version log with one more row.
OneMore(d, s, schema, from) ==
    Append(d.versions, [id |-> d.seq + 1, doc |-> Document(s), schema |-> schema,
                        from |-> from])

\* A write leaves the state that was given, is numbered after the last one, and
\* keeps the newest rows of the version log and a note of the others.
Wrote(e, d, s, schema, all) ==
    /\ IsDb(e) /\ e.state = s /\ e.schema = schema /\ e.seq = d.seq + 1
    /\ e.versions = Newest(all)
    /\ e.pruned = d.pruned \cup Dropped(all)

LEMMA WriteIsNext ==
  ASSUME NEW d, IsDb(d), NEW s, NEW schema, NEW from
  PROVE  Wrote(WriteVersion(d, s, schema, from), d, s, schema, OneMore(d, s, schema, from))
  <1> DEFINE a == [d EXCEPT !.state = s]
             b == [a EXCEPT !.schema = schema]
             row == [id |-> b.seq + 1, doc |-> Document(s), schema |-> schema, from |-> from]
             all == Append(b.versions, row)
             f == [b EXCEPT !.versions = all]
             g == [f EXCEPT !.seq = b.seq + 1]
             h == [g EXCEPT !.versions = Newest(g.versions)]
             k == [h EXCEPT !.pruned = g.pruned \cup Dropped(g.versions)]
  <1>1. IsDb(a) /\ a.state = s /\ SameBut(d, a, "state")
    BY ZenonT(40), SetColumn
  <1> HIDE DEF a
  <1>2. IsDb(b) /\ b.schema = schema /\ SameBut(a, b, "schema")
    BY ZenonT(40), <1>1, SetColumn
  <1> HIDE DEF b
  <1>3. IsDb(f) /\ f.versions = all /\ SameBut(b, f, "versions")
    BY ZenonT(40), <1>2, SetColumn
  <1>4. b.seq + 1 \in Nat
    BY <1>2 DEF IsDb
  <1>5. IsDb(g) /\ g.seq = b.seq + 1 /\ SameBut(f, g, "seq")
    <2> DEFINE m == b.seq + 1
    <2> HIDE DEF m, f
    <2>1. m \in Nat
      BY <1>4 DEF m
    <2>2. LET e == [f EXCEPT !.seq = m] IN IsDb(e) /\ e.seq = m /\ SameBut(f, e, "seq")
      BY <1>3, <2>1, SetCounter
    <2> QED
      BY <2>2 DEF m
  <1>9. g = AppendVersion(b, s, schema, from)
    BY DEF f, g, AppendVersion
  <1> HIDE DEF f, g
  <1>6. IsDb(h) /\ h.versions = Newest(g.versions) /\ SameBut(g, h, "versions")
    BY Zenon, <1>5, SetColumn
  <1>10. k = Prune(g)
    BY Zenon DEF h, Prune, Newest, Dropped, Excess
  <1> HIDE DEF h
  <1>7. /\ IsDb(k) /\ SameBut(h, k, "pruned")
        /\ k.pruned = g.pruned \cup Dropped(g.versions)
    BY Zenon, <1>6, SetColumn
  <1>8. b = [d EXCEPT !.state = s, !.schema = schema]
    BY DEF a, b
  <1>11. k = WriteVersion(d, s, schema, from)
    BY Zenon, <1>8, <1>9, <1>10 DEF WriteVersion
  <1> HIDE DEF k
  <1>12. b.seq = d.seq /\ b.versions = d.versions /\ b.pruned = d.pruned /\ b.state = s
    BY <1>1, <1>2 DEF SameBut
  <1>13. /\ g.versions = all /\ g.pruned = d.pruned /\ g.state = s /\ g.schema = schema
    BY <1>2, <1>3, <1>5, <1>12 DEF SameBut
  <1>14. /\ k.versions = Newest(g.versions) /\ k.state = s /\ k.schema = schema
         /\ k.seq = b.seq + 1
    BY <1>5, <1>6, <1>7, <1>13 DEF SameBut
  <1>15. all = OneMore(d, s, schema, from)
    BY Zenon, <1>12 DEF OneMore
  <1> HIDE DEF all
  <1>16. /\ k.seq = d.seq + 1 /\ k.versions = Newest(all)
         /\ k.pruned = d.pruned \cup Dropped(all)
    BY Zenon, <1>7, <1>12, <1>13, <1>14
  <1> QED
    BY Zenon, <1>7, <1>11, <1>14, <1>15, <1>16 DEF Wrote

\* A write takes the next number.
LEMMA WriteCounts ==
  ASSUME NEW d, IsDb(d), NEW s, NEW schema, NEW from
  PROVE  LET e == WriteVersion(d, s, schema, from)
         IN  IsDb(e) /\ e.state = s /\ e.seq = d.seq + 1
  <1>1. Wrote(WriteVersion(d, s, schema, from), d, s, schema, OneMore(d, s, schema, from))
    BY WriteIsNext
  <1> QED
    BY <1>1 DEF Wrote

\* A migration moves no state and takes no number, and steps every row.
LEMMA MigrationWritesNothing ==
  ASSUME NEW d, IsDb(d), NEW to
  PROVE  LET e == Migrated(d, to)
         IN  /\ IsDb(e) /\ e.state = d.state /\ e.seq = d.seq /\ e.pruned = d.pruned
             /\ e.schema = to
             /\ e.versions = [i \in DOMAIN d.versions |-> [d.versions[i] EXCEPT !.schema = to]]
  <1> DEFINE a == [d EXCEPT !.schema = to]
             rows == [i \in DOMAIN a.versions |-> [a.versions[i] EXCEPT !.schema = to]]
             b == [a EXCEPT !.versions = rows]
  <1>1. IsDb(a) /\ a.schema = to /\ SameBut(d, a, "schema")
    BY ZenonT(40), SetColumn
  <1>2. a.versions = d.versions
    BY <1>1 DEF SameBut
  <1> HIDE DEF a
  <1>3. IsDb(b) /\ b.versions = rows /\ SameBut(a, b, "versions")
    <2>1. \A v : LET e == [a EXCEPT !.versions = v]
                 IN  IsDb(e) /\ e.versions = v /\ SameBut(a, e, "versions")
      BY ZenonT(40), <1>1, SetColumn
    <2> HIDE DEF rows
    <2> QED
      BY <1>1, <2>1
  <1>4. b = Migrated(d, to)
    BY <1>2 DEF a, Migrated
  <1> HIDE DEF b
  <1>5. b.state = d.state /\ b.seq = d.seq /\ b.pruned = d.pruned /\ b.schema = to
    BY <1>1, <1>3 DEF SameBut
  <1> QED
    BY Zenon, <1>2, <1>3, <1>4, <1>5

\* What a rollback writes, part by part.
LEMMA RestoredParts ==
  ASSUME NEW doc, NEW s, IsState(s)
  PROVE  LET t == Restored(doc, s)
         IN  IsState(t) /\ t.cfg = doc.cfg /\ t.certs = s.certs /\ t.beside = s.beside
  BY DEF IsState, Restored

(***************************************************************************)
(* The commands of a node alone.                                           *)
(***************************************************************************)

\* What command r holds, seen from database d.
Holds(r, d) ==
    /\ IsCommand(r) /\ r.seen <= d.seq
    /\ r.pc = "edited" => StateOrNone(r.held)
    /\ r.pc = "edited" /\ r.op = "rollback" =>
          /\ IsState(r.held)
          /\ r.seen = d.seq => /\ r.held.cfg = r.doc.cfg
                               /\ r.held.certs = d.state.certs
                               /\ r.held.beside = d.state.beside

\* What a rollback holds is what it should write, for as long as nobody else has
\* written since it read.
RollInv ==
    mode = "alone" => /\ IsDb(db)
                      /\ StateOrNone(db.state)
                      /\ client = [c \in Clients |-> client[c]]
                      /\ \A c \in Clients : Holds(client[c], db)

\* A command is whole and holds what it was given.
LEMMA CommandShape ==
  ASSUME NEW at, NEW op, NEW id, NEW doc, NEW held, NEW seen \in Nat
  PROVE  LET r == Command(at, op, id, doc, held, seen)
         IN  /\ IsCommand(r) /\ r.pc = at /\ r.op = op /\ r.doc = doc
             /\ r.held = held /\ r.seen = seen
  BY DEF IsCommand, Command

\* A command at rest holds nothing.
LEMMA QuietHolds ==
  ASSUME NEW d, IsDb(d)
  PROVE  Holds(Quiet, d)
  BY DEF Quiet, Command, Holds, IsCommand, IsDb

\* A write by anybody makes every state that was read an old one.
LEMMA OthersGrowOld ==
  ASSUME NEW d, NEW e, IsDb(d), IsDb(e), e.seq = d.seq + 1, NEW r, Holds(r, d)
  PROVE  Holds(r, e)
  BY DEF IsDb, Holds, IsCommand

\* A command that writes and comes to rest keeps what the others hold.
LEMMA AfterAWrite ==
  ASSUME RollInv, mode = "alone", NEW c \in Clients, NEW s, IsState(s), NEW from,
         db' = WriteVersion(db, s, target, from), Tells(c, Quiet), mode' = mode
  PROVE  RollInv'
  <1>1. IsDb(db) /\ client = [d \in Clients |-> client[d]] /\ \A d \in Clients : Holds(client[d], db)
    BY DEF RollInv
  <1>2. IsDb(db') /\ db'.state = s /\ db'.seq = db.seq + 1
    BY <1>1, WriteCounts
  <1>3. \A d \in Clients : client'[d] = IF d = c THEN Quiet ELSE client[d]
    BY <1>1 DEF Tells
  <1>4. \A d \in Clients : Holds(client[d], db')
    BY <1>1, <1>2, OthersGrowOld
  <1>5. \A d \in Clients : Holds(client'[d], db')
    BY <1>2, <1>3, <1>4, QuietHolds
  <1>6. client' = [d \in Clients |-> client'[d]]
    BY <1>1 DEF Tells
  <1> QED
    BY <1>2, <1>5, <1>6 DEF RollInv, StateOrNone

\* A step of one command that writes nothing.
LEMMA AfterARead ==
  ASSUME RollInv, mode = "alone", NEW c \in Clients, NEW r, Holds(r, db), Tells(c, r),
         UNCHANGED <<mode, db>>
  PROVE  RollInv'
  <1>1. client = [d \in Clients |-> client[d]] /\ \A d \in Clients : Holds(client[d], db)
    BY DEF RollInv
  <1>2. \A d \in Clients : client'[d] = IF d = c THEN r ELSE client[d]
    BY <1>1 DEF Tells
  <1>3. \A d \in Clients : Holds(client'[d], db)
    BY <1>1, <1>2
  <1>4. client' = [d \in Clients |-> client'[d]]
    BY <1>1 DEF Tells
  <1> QED
    BY <1>3, <1>4 DEF RollInv

\* Every step keeps what a rollback holds right.
LEMMA RollStep == RollInv /\ [Next]_vars => RollInv'
  <1> SUFFICES ASSUME RollInv, [Next]_vars
               PROVE  RollInv'
    OBVIOUS
  <1>0. mode' = mode
    BY Zenon DEF Next, vars, process, Consensus, Commands, Process, Agree, AppendLog, Truncate,
           SaveCommitted, PurgeMarker, PurgeRecords, ApplyBlank, ApplyMembership,
           MarkMembership, ApplyNormal, InstallSnapshot, KeepInstalled, ExportState,
           ExportHistory, ReadApplied, BuildSnapshot, ReadState, WriteState, RollBackFrom,
           RollBack, RollBackTo, CreateKey, FillKey, ReadKey, OpenDatabase, Current, BackUp,
           BringForward, Upgrade, Crash
  <1> SUFFICES ASSUME mode = "alone"
               PROVE  RollInv'
    BY <1>0 DEF RollInv
  <1>00. /\ IsDb(db) /\ StateOrNone(db.state) /\ db.seq \in Nat
         /\ \A c \in Clients : Holds(client[c], db)
    BY DEF RollInv, IsDb
  <1>1. ~Consensus
    BY DEF Consensus, Agree, Member, AppendLog, Truncate, SaveCommitted, PurgeMarker, PurgeRecords,
           ApplyBlank, ApplyMembership, MarkMembership, ApplyNormal, Applying,
           InstallSnapshot, KeepInstalled, ExportState, ExportHistory, ReadApplied,
           BuildSnapshot
  <1>2. ASSUME NEW c \in Clients, ReadState(c)
        PROVE  RollInv'
    <2> DEFINE r == Command("edited", "write", 0, None, db.state, db.seq)
    <2>1. Holds(r, db)
      BY <1>00, CommandShape DEF Holds
    <2> HIDE DEF r
    <2>2. Tells(c, r) /\ UNCHANGED <<mode, db>>
      BY <1>2 DEF ReadState, process, r
    <2> QED
      BY <2>1, <2>2, AfterARead
  <1>3. ASSUME NEW c \in Clients, WriteState(c)
        PROVE  RollInv'
    <2>1. StateOrNone(client[c].held)
      BY <1>00, <1>3 DEF WriteState, Holds
    <2>2. IsState(Stamped(writes + 1))
      BY DEF IsState, Stamped
    <2>3. client[c].held # None => IsState([client[c].held EXCEPT !.cfg = writes + 1])
      BY <2>1 DEF StateOrNone, IsState
    <2>4. client[c].held # None =>
              IsState([client[c].held EXCEPT !.certs = writes + 1,
                                             !.beside = [t \in Beside |-> writes + 1]])
      <3> SUFFICES ASSUME client[c].held # None
                   PROVE  IsState([client[c].held EXCEPT !.certs = writes + 1,
                                             !.beside = [t \in Beside |-> writes + 1]])
        OBVIOUS
      <3> DEFINE a == [client[c].held EXCEPT !.certs = writes + 1]
                 rows == [t \in Beside |-> writes + 1]
      <3>1. IsState(a)
        BY <2>1 DEF StateOrNone, IsState
      <3> HIDE DEF a
      <3>2. IsState([a EXCEPT !.beside = rows])
        <4> HIDE DEF rows
        <4> QED BY <3>1 DEF IsState
      <3> QED
        BY <3>2 DEF a
    <2>5. PICK next : IsState(next) /\ db' = WriteVersion(db, next, target, 0)
      <3>1. PICK next \in {Stamped(writes + 1)} \cup
                   (IF client[c].held = None THEN {}
                    ELSE {[client[c].held EXCEPT !.cfg = writes + 1],
                          [client[c].held EXCEPT !.certs = writes + 1,
                               !.beside = [t \in Beside |-> writes + 1]]}) :
                 db' = WriteVersion(db, next, target, 0)
        BY <1>3 DEF WriteState
      <3>2. IsState(next)
        <4>1. CASE client[c].held = None
          BY <2>2, <3>1, <4>1
        <4>2. CASE client[c].held # None
          BY <2>2, <2>3, <2>4, <3>1, <4>2
        <4> QED
          BY <4>1, <4>2
      <3> QED
        BY <3>1, <3>2
    <2>6. Tells(c, Quiet)
      BY <1>3 DEF WriteState
    <2> QED
      BY <1>0, <2>5, <2>6, AfterAWrite
  <1>4. ASSUME NEW c \in Clients, NEW id, RollBackTo(c, id)
        PROVE  RollInv'
    <2>1. PICK v : Tells(c, Command("version", "rollback", id, v.doc, None, 0))
      BY <1>4 DEF RollBackTo
    <2> DEFINE r == Command("version", "rollback", id, v.doc, None, 0)
    <2>2. Holds(r, db)
      BY <1>00, CommandShape DEF Holds
    <2> HIDE DEF r
    <2>3. Tells(c, r) /\ UNCHANGED <<mode, db>>
      BY <1>4, <2>1 DEF RollBackTo, process, r
    <2> QED
      BY <2>2, <2>3, AfterARead
  <1>5. ASSUME NEW c \in Clients, RollBackFrom(c)
        PROVE  RollInv'
    <2> DEFINE t == Restored(client[c].doc, db.state)
               r == Command("edited", "rollback", client[c].id, client[c].doc, t, db.seq)
    <2>1. IsState(db.state)
      BY <1>00, <1>5 DEF RollBackFrom, StateOrNone
    <2>2. IsState(t) /\ t.cfg = client[c].doc.cfg /\ t.certs = db.state.certs /\ t.beside = db.state.beside
      BY <2>1, RestoredParts
    <2> HIDE DEF t
    <2>3. /\ IsCommand(r) /\ r.pc = "edited" /\ r.op = "rollback" /\ r.doc = client[c].doc
          /\ r.held = t /\ r.seen = db.seq
      BY <1>00, CommandShape
    <2> HIDE DEF r
    <2>4. Holds(r, db)
      BY <1>00, <2>2, <2>3 DEF Holds, StateOrNone
    <2>5. Tells(c, r) /\ UNCHANGED <<mode, db>>
      BY <1>5 DEF RollBackFrom, process, r, t
    <2> QED
      BY <2>4, <2>5, AfterARead
  <1>6. ASSUME NEW c \in Clients, RollBack(c)
        PROVE  RollInv'
    <2>1. IsState(client[c].held)
      BY <1>00, <1>6 DEF RollBack, Holds
    <2>2. db' = WriteVersion(db, client[c].held, target, client[c].id) /\ Tells(c, Quiet)
      BY <1>6 DEF RollBack
    <2> QED
      BY <1>0, <2>1, <2>2, AfterAWrite
  <1>7. CASE BringForward
    <2>1. UNCHANGED <<mode, client>>
      BY <1>7 DEF BringForward
    <2>2. CASE db' = Migrated(db, target)
      <3>1. IsDb(db') /\ db'.state = db.state /\ db'.seq = db.seq
        BY ZenonT(40), <1>00, <2>2, MigrationWritesNothing
      <3>2. \A c \in Clients : Holds(client[c], db')
        BY <1>00, <3>1 DEF Holds
      <3> QED
        BY <2>1, <3>1, <3>2 DEF RollInv
    <2>3. CASE UNCHANGED db
      BY <2>1, <2>3 DEF RollInv
    <2> QED
      BY <1>7, <2>2, <2>3 DEF BringForward
  <1>8. CASE Crash
    <2>1. UNCHANGED <<mode, db>> /\ client' = [c \in Clients |-> Quiet]
      BY <1>8 DEF Crash
    <2>2. \A c \in Clients : Holds(client'[c], db')
      BY <1>00, <2>1, QuietHolds
    <2> QED
      BY <1>00, <2>1, <2>2 DEF RollInv
  <1>9. CASE CreateKey \/ FillKey \/ ReadKey \/ OpenDatabase \/ Current \/ BackUp \/ Upgrade
    <2>1. UNCHANGED <<mode, db, client>>
      BY <1>9 DEF CreateKey, FillKey, ReadKey, OpenDatabase, Current, BackUp, Upgrade
    <2> QED
      BY <2>1 DEF RollInv
  <1>10. CASE UNCHANGED vars
    BY <1>10 DEF vars, process, RollInv
  <1> QED
    BY <1>1, <1>2, <1>3, <1>4, <1>5, <1>6, <1>7, <1>8, <1>9, <1>10 DEF Next, Commands, Process

\* Whoever else writes, migrates or falls meanwhile: a rollback that no write
\* has overtaken leaves certificates, keys, tokens, refusals and orders as they
\* are and brings the configuration of its version back (sqlite.rs roll_back_to).
THEOREM RollbackIsExact == Spec => RollbackKeepsTheRest
  <1>1. Init => RollInv
    <2> SUFFICES ASSUME Init, mode = "alone"
                 PROVE  RollInv
      BY DEF RollInv
    <2>1. db = Empty /\ client = [c \in Clients |-> Quiet]
      BY DEF Init
    <2>2. IsDb(Empty) /\ Empty.state = None
      BY DEF Empty, IsDb
    <2>3. \A c \in Clients : Holds(client[c], db)
      BY <2>1, <2>2, QuietHolds
    <2> QED
      BY <2>1, <2>2, <2>3 DEF RollInv, StateOrNone
  <1> DEFINE Exact == \A c \in Clients :
                 RollBack(c) /\ client[c].seen = db.seq =>
                     /\ db'.state.certs = db.state.certs
                     /\ db'.state.beside = db.state.beside
                     /\ db'.state.cfg = client[c].doc.cfg
  <1>2. RollInv => Exact
    <2> SUFFICES ASSUME RollInv, NEW c \in Clients, RollBack(c), client[c].seen = db.seq
                 PROVE  /\ db'.state.certs = db.state.certs
                        /\ db'.state.beside = db.state.beside
                        /\ db'.state.cfg = client[c].doc.cfg
      OBVIOUS
    <2>1. mode = "alone" /\ client[c].pc = "edited" /\ client[c].op = "rollback"
      BY DEF RollBack, Alone
    <2>2. IsDb(db) /\ Holds(client[c], db)
      BY <2>1 DEF RollInv
    <2>3. db'.state = client[c].held
      BY <2>2, WriteCounts DEF RollBack
    <2> QED
      BY <2>1, <2>2, <2>3 DEF Holds
  <1>3. RollInv /\ [Next]_vars => [Exact]_vars
    BY <1>2
  <1> QED
    BY <1>1, <1>3, RollStep, PTL DEF Spec, RollbackKeepsTheRest

(***************************************************************************)
(* What the database of a node holds.                                      *)
(***************************************************************************)

Docs == [cfg : Nat, certs : Nat]
Rows == [id : Nat, doc : Docs, schema : Nat, from : Nat]
Databases == [state : States \cup {None}, schema : Nat, versions : Seq(Rows), seq : Nat,
              pruned : SUBSET Nat]

\* A database whose rows are all of the schema of its state.
Sound(d) == /\ d \in Databases
            /\ d.state = None => d.versions = << >>
            /\ \A i \in DOMAIN d.versions : d.versions[i].schema = d.schema

\* What is kept of a log is its end.
EndOf(kept, rows, x) == /\ x \in 0 .. Len(rows) /\ Len(kept) = Len(rows) - x
                        /\ \A i \in 1 .. Len(rows) - x : kept[i] = rows[i + x]

LEMMA NewestIsTheEnd ==
  ASSUME NEW S, NEW rows \in Seq(S)
  PROVE  Newest(rows) \in Seq(S) /\ EndOf(Newest(rows), rows, Excess(rows))
  <1>1. MaxVersions \in Nat /\ Len(rows) \in Nat
    BY StoreAssumption
  <1>2. Excess(rows) \in 0 .. Len(rows)
    BY <1>1 DEF Excess
  <1> DEFINE x == Excess(rows)
  <1> HIDE DEF x
  <1>3. x \in 0 .. Len(rows) /\ Newest(rows) = SubSeq(rows, x + 1, Len(rows))
    BY Zenon, <1>2 DEF Newest, x
  <1>4. SubSeq(rows, x + 1, Len(rows)) \in Seq(S)
    BY <1>1, <1>3
  <1>5. Len(SubSeq(rows, x + 1, Len(rows))) = Len(rows) - x
    BY <1>1, <1>3
  <1>6. ASSUME NEW i \in 1 .. Len(rows) - x
        PROVE  SubSeq(rows, x + 1, Len(rows))[i] = rows[i + x]
    BY <1>1, <1>3
  <1> QED
    BY SMTT(30), <1>3, <1>4, <1>5, <1>6 DEF x, EndOf

\* A sound database is a database.
LEMMA SoundParts ==
  ASSUME NEW d, Sound(d)
  PROVE  /\ IsDb(d) /\ d.state \in States \cup {None} /\ d.schema \in Nat
         /\ d.versions \in Seq(Rows) /\ d.seq \in Nat /\ d.pruned \subseteq Nat
  BY DEF Sound, Databases, IsDb

\* The row a write adds.
Longer(all, rows, s, schema) ==
    /\ Len(all) = Len(rows) + 1 /\ Len(rows) \in Nat
    /\ all[Len(all)].doc = Document(s) /\ all[Len(all)].schema = schema
    /\ \A i \in 1 .. Len(rows) : all[i] = rows[i]

LEMMA OneMoreRow ==
  ASSUME NEW d, Sound(d), NEW s \in States, NEW schema \in Nat, NEW from \in Nat
  PROVE  /\ OneMore(d, s, schema, from) \in Seq(Rows)
         /\ Longer(OneMore(d, s, schema, from), d.versions, s, schema)
  <1> DEFINE row == [id |-> d.seq + 1, doc |-> Document(s), schema |-> schema, from |-> from]
  <1>1. d.versions \in Seq(Rows) /\ d.seq \in Nat
    BY SoundParts
  <1>2. Document(s) \in Docs
    BY DEF Document, Docs, States
  <1>3. row \in Rows /\ row.doc = Document(s) /\ row.schema = schema
    BY <1>1, <1>2 DEF Rows
  <1>4. OneMore(d, s, schema, from) = Append(d.versions, row)
    BY DEF OneMore
  <1> HIDE DEF row
  <1> QED
    BY <1>1, <1>3, <1>4 DEF Longer

\* A write over a sound database of its own schema leaves a sound one.
LEMMA WriteSound ==
  ASSUME NEW d, Sound(d), NEW s \in States, NEW schema \in Nat, NEW from \in Nat,
         d.state # None => d.schema = schema
  PROVE  LET e == WriteVersion(d, s, schema, from)
         IN  Sound(e) /\ e.state = s /\ e.schema = schema
  <1> DEFINE e == WriteVersion(d, s, schema, from)
             all == OneMore(d, s, schema, from)
             n == Len(d.versions)
  <1>1. /\ IsDb(d) /\ d.seq \in Nat /\ d.pruned \subseteq Nat
    BY SoundParts
  <1>2. /\ IsDb(e) /\ e.state = s /\ e.schema = schema /\ e.seq = d.seq + 1
        /\ e.versions = Newest(all) /\ e.pruned = d.pruned \cup Dropped(all)
    <2>1. Wrote(e, d, s, schema, all)
      BY <1>1, WriteIsNext
    <2> QED
      BY Zenon, <2>1 DEF Wrote
  <1>3. /\ all \in Seq(Rows) /\ Len(all) = n + 1 /\ n \in Nat
        /\ all[Len(all)].schema = schema /\ \A i \in 1 .. n : all[i] = d.versions[i]
    <2>1. all \in Seq(Rows) /\ Longer(all, d.versions, s, schema)
      BY OneMoreRow
    <2> QED
      BY Zenon, <2>1 DEF Longer
  <1> HIDE DEF e, all
  <1>4. \A i \in 1 .. n : d.versions[i].schema = schema
    <2>1. CASE d.state = None
      BY <2>1 DEF Sound
    <2>2. CASE d.state # None
      <3>1. d.versions \in Seq(Rows)
        BY SoundParts
      <3> QED
        BY <2>2, <3>1 DEF Sound
    <2> QED
      BY <2>1, <2>2
  <1> HIDE DEF n
  <1>5. \A i \in 1 .. Len(all) : all[i].schema = schema
    BY <1>3, <1>4
  <1>6. /\ Excess(all) \in 0 .. Len(all) /\ Newest(all) \in Seq(Rows)
        /\ Len(Newest(all)) = Len(all) - Excess(all)
        /\ \A i \in 1 .. Len(all) - Excess(all) : Newest(all)[i] = all[i + Excess(all)]
    BY Zenon, <1>3, NewestIsTheEnd DEF EndOf
  <1>7. \A i \in DOMAIN e.versions : e.versions[i].schema = schema
    <2> TAKE i \in DOMAIN e.versions
    <2>1. i \in 1 .. Len(all) - Excess(all)
      BY <1>2, <1>6
    <2>2. i + Excess(all) \in 1 .. Len(all)
      BY <1>3, <1>6, <2>1
    <2> QED
      BY Zenon, <1>2, <1>5, <1>6, <2>1, <2>2
  <1>8. Dropped(all) \subseteq Nat
    <2>1. \A i \in 1 .. Excess(all) : all[i] \in Rows
      BY <1>3, <1>6
    <2> QED
      BY <2>1 DEF Dropped, Rows
  <1>9. e \in Databases
    <2>1. /\ e = [state |-> e.state, schema |-> e.schema, versions |-> e.versions,
                  seq |-> e.seq, pruned |-> e.pruned]
      BY <1>2 DEF IsDb
    <2>2. e.seq \in Nat /\ e.pruned \subseteq Nat
      BY <1>1, <1>2, <1>8
    <2> QED
      BY <1>2, <1>6, <2>1, <2>2 DEF Databases
  <1>10. e.state # None
    BY <1>2, NoState
  <1> QED
    BY Zenon, <1>2, <1>7, <1>9, <1>10 DEF Sound, e

\* The same write over the same documents leaves the same documents.
LEMMA WriteDocuments ==
  ASSUME NEW d, Sound(d), NEW e, Sound(e), NEW s \in States, NEW schema \in Nat,
         NEW from \in Nat, DocumentsOf(d.versions) = DocumentsOf(e.versions)
  PROVE  DocumentsOf(WriteVersion(d, s, schema, from).versions)
            = DocumentsOf(WriteVersion(e, s, schema, from).versions)
  <1> DEFINE a == OneMore(d, s, schema, from)
             b == OneMore(e, s, schema, from)
  <1>1. d.versions \in Seq(Rows) /\ e.versions \in Seq(Rows) /\ IsDb(d) /\ IsDb(e)
    BY SoundParts
  <1>2. /\ a \in Seq(Rows) /\ Len(a) = Len(d.versions) + 1
        /\ a[Len(a)].doc = Document(s)
        /\ \A i \in 1 .. Len(d.versions) : a[i] = d.versions[i]
    <2>1. a \in Seq(Rows) /\ Longer(a, d.versions, s, schema)
      BY OneMoreRow
    <2> QED
      BY Zenon, <2>1 DEF Longer
  <1>3. /\ b \in Seq(Rows) /\ Len(b) = Len(e.versions) + 1
        /\ b[Len(b)].doc = Document(s)
        /\ \A i \in 1 .. Len(e.versions) : b[i] = e.versions[i]
    <2>1. b \in Seq(Rows) /\ Longer(b, e.versions, s, schema)
      BY OneMoreRow
    <2> QED
      BY Zenon, <2>1 DEF Longer
  <1>4. /\ WriteVersion(d, s, schema, from).versions = Newest(a)
        /\ WriteVersion(e, s, schema, from).versions = Newest(b)
    <2>1. /\ Wrote(WriteVersion(d, s, schema, from), d, s, schema, a)
          /\ Wrote(WriteVersion(e, s, schema, from), e, s, schema, b)
      BY <1>1, WriteIsNext
    <2> QED
      BY Zenon, <2>1 DEF Wrote
  <1> HIDE DEF a, b
  <1>5. Len(d.versions) = Len(e.versions)
    <2>1. DOMAIN d.versions = DOMAIN e.versions
      BY Zenon DEF DocumentsOf
    <2> QED
      BY <1>1, <2>1
  <1>6. \A i \in 1 .. Len(d.versions) : d.versions[i].doc = e.versions[i].doc
    <2> TAKE i \in 1 .. Len(d.versions)
    <2>1. i \in DOMAIN d.versions /\ i \in DOMAIN e.versions
      BY <1>1, <1>5
    <2>2. DocumentsOf(d.versions)[i] = d.versions[i].doc /\ DocumentsOf(e.versions)[i] = e.versions[i].doc
      BY Zenon, <2>1 DEF DocumentsOf
    <2> QED
      BY Zenon, <2>2
  <1>7. Len(a) = Len(b) /\ \A i \in 1 .. Len(a) : a[i].doc = b[i].doc
    <2>1. Len(a) = Len(b) /\ Len(d.versions) \in Nat
      BY <1>1, <1>2, <1>3, <1>5
    <2>2. ASSUME NEW i \in 1 .. Len(a) PROVE i \in 1 .. Len(d.versions) \/ i = Len(a)
      BY <1>2, <2>1
    <2>3. ASSUME NEW i \in 1 .. Len(d.versions) PROVE a[i].doc = b[i].doc
      BY Zenon, <1>2, <1>3, <1>5, <1>6
    <2> QED
      BY Zenon, <1>2, <1>3, <2>1, <2>2, <2>3
  <1>8. /\ Newest(a) \in Seq(Rows) /\ Newest(b) \in Seq(Rows)
        /\ Len(Newest(a)) = Len(Newest(b))
        /\ \A i \in 1 .. Len(Newest(a)) : Newest(a)[i].doc = Newest(b)[i].doc
    <2>1. Excess(a) = Excess(b)
      BY <1>7 DEF Excess
    <2>2. /\ Excess(a) \in 0 .. Len(a) /\ Newest(a) \in Seq(Rows)
          /\ Len(Newest(a)) = Len(a) - Excess(a)
          /\ \A i \in 1 .. Len(a) - Excess(a) : Newest(a)[i] = a[i + Excess(a)]
      BY Zenon, <1>2, NewestIsTheEnd DEF EndOf
    <2>3. /\ Excess(b) \in 0 .. Len(b) /\ Newest(b) \in Seq(Rows)
          /\ Len(Newest(b)) = Len(b) - Excess(b)
          /\ \A i \in 1 .. Len(b) - Excess(b) : Newest(b)[i] = b[i + Excess(b)]
      BY Zenon, <1>3, NewestIsTheEnd DEF EndOf
    <2>4. \A i \in 1 .. Len(Newest(a)) : i + Excess(a) \in 1 .. Len(a)
      BY SMTT(30), <1>2, <2>2
    <2> QED
      BY <1>7, <2>1, <2>2, <2>3, <2>4
  <1>9. DocumentsOf(Newest(a)) = DocumentsOf(Newest(b))
    BY <1>8 DEF DocumentsOf
  <1> QED
    BY Zenon, <1>4, <1>9

\* No row goes without a word.
LEMMA WriteKeepsOrNotes ==
  ASSUME NEW d, Sound(d), NEW s \in States, NEW schema \in Nat, NEW from \in Nat,
         NEW i \in DOMAIN d.versions
  PROVE  LET e == WriteVersion(d, s, schema, from)
         IN  \/ \E j \in DOMAIN e.versions : e.versions[j].id = d.versions[i].id
             \/ d.versions[i].id \in e.pruned
  <1> DEFINE e == WriteVersion(d, s, schema, from)
             all == OneMore(d, s, schema, from)
  <1>1. IsDb(d) /\ d.versions \in Seq(Rows)
    BY SoundParts
  <1>2. e.versions = Newest(all) /\ e.pruned = d.pruned \cup Dropped(all)
    <2>1. Wrote(e, d, s, schema, all)
      BY <1>1, WriteIsNext
    <2> QED
      BY Zenon, <2>1 DEF Wrote
  <1>3. /\ all \in Seq(Rows) /\ Len(all) = Len(d.versions) + 1
        /\ all[i] = d.versions[i] /\ i \in 1 .. Len(d.versions)
    <2>1. i \in 1 .. Len(d.versions)
      BY <1>1
    <2>2. all \in Seq(Rows) /\ Longer(all, d.versions, s, schema)
      BY OneMoreRow
    <2> QED
      BY Zenon, <2>1, <2>2 DEF Longer
  <1> HIDE DEF e, all
  <1>4. /\ Excess(all) \in 0 .. Len(all) /\ Newest(all) \in Seq(Rows)
        /\ Len(Newest(all)) = Len(all) - Excess(all)
        /\ \A j \in 1 .. Len(all) - Excess(all) : Newest(all)[j] = all[j + Excess(all)]
    BY Zenon, <1>3, NewestIsTheEnd DEF EndOf
  <1>5. CASE i <= Excess(all)
    <2>1. d.versions[i].id \in Dropped(all)
      BY <1>3, <1>4, <1>5 DEF Dropped
    <2> QED
      BY Zenon, <1>2, <2>1 DEF e
  <1>6. CASE i > Excess(all)
    <2> DEFINE j == i - Excess(all)
    <2>1. j \in 1 .. Len(all) - Excess(all) /\ j + Excess(all) = i
      BY SMTT(30), <1>1, <1>3, <1>4, <1>6
    <2>2. j \in DOMAIN Newest(all)
      BY <1>4, <2>1
    <2>3. Newest(all)[j] = d.versions[i]
      BY Zenon, <1>3, <1>4, <2>1
    <2> HIDE DEF j
    <2> QED
      BY Zenon, <1>2, <2>2, <2>3 DEF e
  <1> QED
    BY <1>1, <1>3, <1>4, <1>5, <1>6

(***************************************************************************)
(* What the steps leave of a node, of its peers and of its commands.       *)
(***************************************************************************)

\* What a command holds is what a command can hold.
CommandOK(r) ==
    /\ r.id \in Nat /\ r.held \in States \cup {None}
    /\ r.pc = "version" => r.doc \in Docs
    /\ r.pc = "edited" /\ r.op = "rollback" => r.held \in States

\* The database is sound, and of this build's schema once the store is open.
NodeInv ==
    /\ target \in Nat /\ writes \in Nat
    /\ mode = "member" => target = 1
    /\ Sound(db)
    /\ pc = "up" /\ db.state # None => db.schema = target
    /\ client = [c \in Clients |-> client[c]]
    /\ \A c \in Clients : CommandOK(client[c])

\* What the peers held, one record after the other.
PeerOK(d) == Sound(d) /\ (d.state # None => d.schema = 1)

PeersInv ==
    /\ agreed \in Seq({"blank", "membership", "normal"})
    /\ peers = [founder \in BOOLEAN |-> peers[founder]]
    /\ \A founder \in BOOLEAN :
          /\ peers[founder] \in Seq(Databases) /\ Len(peers[founder]) = Len(agreed) + 1
          /\ \A k \in 1 .. Len(agreed) + 1 : PeerOK(peers[founder][k])
          /\ \A k \in 1 .. Len(agreed) :
                peers[founder][k + 1] = IF agreed[k] = "normal"
                                        THEN WriteVersion(peers[founder][k], Stamped(k), 1, 0)
                                        ELSE peers[founder][k]

\* What a writer stamps is a state, and what travels arrives as it was.
LEMMA StampedIsAState ==
  ASSUME NEW w \in Nat
  PROVE  Stamped(w) \in States /\ FromWire(WireSnapshot(Stamped(w))) = Stamped(w)
  <1>1. Stamped(w) \in States
    BY DEF Stamped, States
  <1>2. ASSUME NEW t \in Beside PROVE WireSnapshot(Stamped(w))[t] = w
    BY DEF Beside, WireSnapshot, Stamped
  <1>3. WireSnapshot(Stamped(w)).config = [cfg |-> w, certs |-> w]
    BY DEF WireSnapshot, Document, Stamped
  <1> QED
    BY <1>1, <1>2, <1>3 DEF FromWire, Stamped

\* A database with nothing in it.
LEMMA EmptyIsSound == Sound(Empty) /\ Empty.state = None
  BY DEF Empty, Sound, Databases

\* The founder's first version.
LEMMA FounderIsSound ==
  LET d == WriteVersion(Empty, Stamped(0), 1, 0) IN Sound(d) /\ d.state # None /\ d.schema = 1
  <1>1. Stamped(0) \in States /\ 0 \in Nat /\ 1 \in Nat
    BY StampedIsAState
  <1>2. LET d == WriteVersion(Empty, Stamped(0), 1, 0)
        IN  Sound(d) /\ d.state = Stamped(0) /\ d.schema = 1
    BY <1>1, EmptyIsSound, WriteSound
  <1> QED
    BY <1>1, <1>2, NoState

\* One more record leaves the peers right.
LEMMA AgreeKeeps ==
  ASSUME PeersInv, NodeInv, NEW kind \in {"blank", "membership", "normal"}, Agree(kind)
  PROVE  PeersInv'
  <1> DEFINE n == Len(agreed)
             i == n + 1
             Next1(f) == IF kind = "normal" THEN WriteVersion(peers[f][i], Stamped(i), 1, 0)
                                            ELSE peers[f][i]
  <1>1. /\ agreed' = Append(agreed, kind) /\ target = 1
        /\ agreed \in Seq({"blank", "membership", "normal"}) /\ n \in Nat
    BY DEF Agree, NodeInv, PeersInv
  <1>2. peers' = [f \in BOOLEAN |-> Append(peers[f], Next1(f))]
    BY <1>1 DEF Agree, MaxIndex
  <1>3. /\ agreed' \in Seq({"blank", "membership", "normal"}) /\ Len(agreed') = n + 1
        /\ agreed'[n + 1] = kind /\ \A k \in 1 .. n : agreed'[k] = agreed[k]
    BY <1>1
  <1> SUFFICES ASSUME NEW f \in BOOLEAN
               PROVE  /\ peers'[f] \in Seq(Databases) /\ Len(peers'[f]) = n + 2
                      /\ \A k \in 1 .. n + 2 : PeerOK(peers'[f][k])
                      /\ \A k \in 1 .. n + 1 :
                            peers'[f][k + 1] = IF agreed'[k] = "normal"
                                               THEN WriteVersion(peers'[f][k], Stamped(k), 1, 0)
                                               ELSE peers'[f][k]
    <2>1. n + 1 + 1 = n + 2
      BY <1>1
    <2> HIDE DEF n, Next1
    <2> QED
      BY ZenonT(40), <1>2, <1>3, <2>1 DEF PeersInv
  <1> DEFINE old == peers[f]
             row == Next1(f)
  <1>4. /\ old \in Seq(Databases) /\ Len(old) = n + 1
        /\ \A k \in 1 .. n + 1 : PeerOK(old[k])
        /\ \A k \in 1 .. n : old[k + 1] = IF agreed[k] = "normal"
                                          THEN WriteVersion(old[k], Stamped(k), 1, 0)
                                          ELSE old[k]
    BY Zenon DEF PeersInv
  <1>5. PeerOK(row)
    <2>1. PeerOK(old[i]) /\ i \in Nat /\ 0 \in Nat /\ 1 \in Nat
      BY <1>1, <1>4
    <2>2. Stamped(i) \in States
      BY <2>1, StampedIsAState
    <2> DEFINE d == old[i]
               s == Stamped(i)
    <2> HIDE DEF d, s, i
    <2>3. Sound(d) /\ (d.state # None => d.schema = 1) /\ s \in States
      BY Zenon, <2>1, <2>2 DEF d, s, PeerOK
    <2>4. LET e == WriteVersion(d, s, 1, 0) IN Sound(e) /\ e.schema = 1
      BY <2>1, <2>3, WriteSound
    <2> QED
      BY Zenon, <2>1, <2>4 DEF PeerOK, d, s
  <1>6. peers'[f] = Append(old, row)
    BY <1>2
  <1> HIDE DEF Next1, n
  <1>7. row = IF kind = "normal" THEN WriteVersion(old[n + 1], Stamped(n + 1), 1, 0)
                                 ELSE old[n + 1]
    BY Zenon DEF Next1
  <1> HIDE DEF old, row
  <1>8. row \in Databases
    BY Zenon, <1>5 DEF PeerOK, Sound
  <1>9. /\ peers'[f] \in Seq(Databases) /\ Len(peers'[f]) = n + 2
        /\ peers'[f][n + 2] = row /\ \A k \in 1 .. n + 1 : peers'[f][k] = old[k]
    BY <1>1, <1>4, <1>6, <1>8
  <1>10. \A k \in 1 .. n + 2 : k \in 1 .. n + 1 \/ k = n + 2
    BY <1>1
  <1>11. ASSUME NEW k \in 1 .. n + 1
         PROVE  peers'[f][k + 1] = IF agreed'[k] = "normal"
                                   THEN WriteVersion(peers'[f][k], Stamped(k), 1, 0)
                                   ELSE peers'[f][k]
    <2>1. CASE k \in 1 .. n
      <3>1. k + 1 \in 1 .. n + 1
        BY <1>1, <2>1
      <3> QED
        BY Zenon, <1>3, <1>4, <1>9, <2>1, <3>1
    <2>2. CASE k = n + 1
      <3>1. k + 1 = n + 2
        BY <1>1, <2>2
      <3> QED
        BY Zenon, <1>3, <1>7, <1>9, <2>2, <3>1
    <2>3. k \in 1 .. n \/ k = n + 1
      BY <1>1
    <2> QED
      BY Zenon, <2>1, <2>2, <2>3
  <1> QED
    BY Zenon, <1>4, <1>5, <1>9, <1>10, <1>11

\* The steps that touch neither the database, the commands nor the schema.
Plain == \/ \E kind \in {"blank", "membership", "normal"} : Agree(kind)
         \/ \E origin \in {"agreed", "stray"} : AppendLog(origin)
         \/ \E i \in 1..MaxIndex : Truncate(i) \/ SaveCommitted(i) \/ PurgeMarker(i)
         \/ PurgeRecords \/ ApplyBlank \/ ApplyMembership \/ MarkMembership
         \/ KeepInstalled \/ ExportState \/ ExportHistory \/ ReadApplied \/ BuildSnapshot

LEMMA PlainChangesNothing ==
  ASSUME Plain
  PROVE  UNCHANGED <<mode, target, writes, db, pc, client>>
  BY Zenon DEF Plain, Agree, AppendLog, Truncate, SaveCommitted, PurgeMarker, PurgeRecords,
     ApplyBlank, ApplyMembership, MarkMembership, KeepInstalled, ExportState,
     ExportHistory, ReadApplied, BuildSnapshot, process

\* A peer's store takes the place of this node's.
LEMMA ImportSound ==
  ASSUME NEW d, Sound(d), NEW held, Sound(held)
  PROVE  LET e == Import(d, held.state, held.schema, History(held))
         IN  /\ Sound(e) /\ e.state = held.state /\ e.schema = held.schema
             /\ e.versions = held.versions
  <1> DEFINE e == Import(d, held.state, held.schema, History(held))
             h == History(held)
             new == IF LastId(h.versions) > d.seq THEN LastId(h.versions) ELSE d.seq
  <1>1. /\ d.seq \in Nat /\ held.state \in States \cup {None} /\ held.schema \in Nat
        /\ held.versions \in Seq(Rows) /\ held.pruned \subseteq Nat
    BY SoundParts
  <1>2. h.versions = held.versions /\ h.pruned = held.pruned
    BY DEF History
  <1>3. LastId(held.versions) \in Nat
    <2>1. CASE held.versions = << >>
      BY <2>1 DEF LastId
    <2>2. CASE held.versions # << >>
      <3>1. held.versions[Len(held.versions)] \in Rows
        BY <1>1, <2>2
      <3> QED
        BY <2>2, <3>1 DEF LastId, Rows
    <2> QED
      BY <2>1, <2>2
  <1>4. new \in Nat
    BY <1>1, <1>2, <1>3
  <1> HIDE DEF h
  <1>5. e = [state |-> held.state, schema |-> held.schema, versions |-> held.versions,
             pruned |-> held.pruned, seq |-> new]
    BY Zenon, <1>2 DEF Import, h
  <1> HIDE DEF e, new
  <1>6. /\ e \in Databases /\ e.state = held.state /\ e.schema = held.schema
        /\ e.versions = held.versions
    BY <1>1, <1>4, <1>5 DEF Databases
  <1> QED
    BY Zenon, <1>6 DEF Sound, e

\* A migration leaves a sound database of the schema it goes to.
LEMMA MigrateSound ==
  ASSUME NEW d, Sound(d), NEW to \in Nat
  PROVE  LET e == Migrated(d, to)
         IN  /\ Sound(e) /\ e.schema = to /\ DOMAIN e.versions = DOMAIN d.versions
             /\ \A i \in DOMAIN d.versions : e.versions[i].id = d.versions[i].id
  <1> DEFINE e == Migrated(d, to)
             v == d.versions
             rows == [i \in DOMAIN v |-> [v[i] EXCEPT !.schema = to]]
  <1>1. /\ IsDb(d) /\ d.state \in States \cup {None}
        /\ v \in Seq(Rows) /\ d.seq \in Nat /\ d.pruned \subseteq Nat
    BY SoundParts
  <1>2. /\ IsDb(e) /\ e.state = d.state /\ e.seq = d.seq /\ e.pruned = d.pruned
        /\ e.schema = to /\ e.versions = rows
    BY <1>1, MigrationWritesNothing
  <1> HIDE DEF e
  <1>3. \A i \in DOMAIN v : /\ [v[i] EXCEPT !.schema = to] \in Rows
                            /\ [v[i] EXCEPT !.schema = to].schema = to
                            /\ [v[i] EXCEPT !.schema = to].id = v[i].id
    <2>1. \A i \in DOMAIN v : v[i] \in Rows
      BY <1>1
    <2> QED
      BY <2>1 DEF Rows
  <1>4. /\ DOMAIN rows = DOMAIN v
        /\ \A i \in DOMAIN v : rows[i] \in Rows /\ rows[i].schema = to /\ rows[i].id = v[i].id
    BY Zenon, <1>3
  <1> HIDE DEF rows
  <1>5. rows \in Seq(Rows)
    <2>1. DOMAIN v = 1 .. Len(v) /\ Len(v) \in Nat
      BY <1>1
    <2>2. rows \in [1 .. Len(v) -> Rows]
      BY Zenon, <1>4, <2>1 DEF rows
    <2> QED
      BY <2>1, <2>2, SeqDef
  <1>6. e \in Databases
    BY <1>1, <1>2, <1>5 DEF IsDb, Databases
  <1>7. e.state = None => e.versions = << >>
    <2> SUFFICES ASSUME e.state = None PROVE rows = << >>
      BY <1>2
    <2>1. v = << >>
      BY <1>2 DEF Sound
    <2> QED
      BY <1>4, <1>5, <2>1
  <1> QED
    BY Zenon, <1>2, <1>4, <1>6, <1>7 DEF Sound, e

\* A command comes to hold something else.
LEMMA TellsKeeps ==
  ASSUME NodeInv, NEW c \in Clients, NEW r, CommandOK(r), Tells(c, r)
  PROVE  /\ client' = [k \in Clients |-> client'[k]]
         /\ \A k \in Clients : CommandOK(client'[k])
  <1>1. client = [k \in Clients |-> client[k]] /\ \A k \in Clients : CommandOK(client[k])
    BY DEF NodeInv
  <1>2. \A k \in Clients : client'[k] = IF k = c THEN r ELSE client[k]
    BY <1>1 DEF Tells
  <1>3. client' = [k \in Clients |-> client'[k]]
    BY <1>1 DEF Tells
  <1> QED
    BY Zenon, <1>1, <1>2, <1>3

\* A command holds what it was made of.
LEMMA CommandMade ==
  ASSUME NEW at, NEW op, NEW id \in Nat, NEW doc, NEW held \in States \cup {None}, NEW seen,
         at = "version" => doc \in Docs,
         at = "edited" /\ op = "rollback" => held \in States
  PROVE  CommandOK(Command(at, op, id, doc, held, seen))
  <1> DEFINE r == Command(at, op, id, doc, held, seen)
  <1>1. r.pc = at /\ r.op = op /\ r.id = id /\ r.doc = doc /\ r.held = held
    BY DEF Command
  <1> HIDE DEF r
  <1> QED
    BY Zenon, <1>1 DEF CommandOK, r

LEMMA QuietIsOK == CommandOK(Quiet)
  BY CommandMade DEF Quiet

\* A command writes a state over the store, which is open.
LEMMA CommandWrites ==
  ASSUME NodeInv, pc = "up", NEW c \in Clients, NEW s \in States, NEW from \in Nat,
         db' = WriteVersion(db, s, target, from), Tells(c, Quiet),
         UNCHANGED <<mode, target, pc>>, writes' = writes + 1
  PROVE  NodeInv'
  <1>1. /\ Sound(db) /\ target \in Nat /\ writes \in Nat /\ (db.state # None => db.schema = target)
        /\ (mode = "member" => target = 1)
    BY Zenon DEF NodeInv
  <1>2. Sound(db') /\ db'.schema = target
    BY <1>1, WriteSound
  <1>3. /\ client' = [k \in Clients |-> client'[k]]
        /\ \A k \in Clients : CommandOK(client'[k])
    BY Zenon, QuietIsOK, TellsKeeps
  <1>4. writes' \in Nat
    BY <1>1
  <1> QED
    BY Zenon, <1>1, <1>2, <1>3, <1>4 DEF NodeInv

\* What a command writes is a state, from its own reading or a rollback's.
LEMMA CommandsWriteAState ==
  ASSUME NodeInv, NEW c \in Clients, WriteState(c) \/ RollBack(c)
  PROVE  \E s \in States, from \in Nat : db' = WriteVersion(db, s, target, from)
  <1>0. writes \in Nat /\ CommandOK(client[c])
    BY Zenon DEF NodeInv
  <1>1. CASE WriteState(c)
    <2> DEFINE h == client[c].held
    <2>2. h \in States \cup {None} /\ writes + 1 \in Nat /\ 0 \in Nat
      BY <1>0 DEF CommandOK
    <2>3. \E next \in {Stamped(writes + 1)} \cup
                   (IF h = None THEN {}
                    ELSE {[h EXCEPT !.cfg = writes + 1],
                          [h EXCEPT !.certs = writes + 1,
                               !.beside = [t \in Beside |-> writes + 1]]}) :
                 db' = WriteVersion(db, next, target, 0)
      BY Zenon, <1>1 DEF WriteState
    <2> HIDE DEF h
    <2>4. h # None => /\ [h EXCEPT !.cfg = writes + 1] \in States
                      /\ [h EXCEPT !.certs = writes + 1,
                               !.beside = [t \in Beside |-> writes + 1]] \in States
      BY Zenon, <2>2 DEF States
    <2>5. Stamped(writes + 1) \in States
      BY Zenon, <2>2, StampedIsAState
    <2>6. CASE h = None
      BY Zenon, <2>2, <2>3, <2>5, <2>6
    <2>7. CASE h # None
      BY Zenon, <2>2, <2>3, <2>4, <2>5, <2>7
    <2> QED
      BY Zenon, <2>6, <2>7
  <1>2. CASE RollBack(c)
    <2>1. /\ db' = WriteVersion(db, client[c].held, target, client[c].id)
          /\ client[c].pc = "edited" /\ client[c].op = "rollback"
      BY Zenon, <1>2 DEF RollBack
    <2>2. client[c].held \in States /\ client[c].id \in Nat
      BY Zenon, <1>0, <2>1 DEF CommandOK
    <2> QED
      BY Zenon, <2>1, <2>2
  <1> QED
    BY Zenon, <1>1, <1>2

\* Every step keeps the database sound.
LEMMA NodeStep ==
  ASSUME NodeInv, PeersInv, marks.applied \in Nat, [Next]_vars
  PROVE  NodeInv'
  <1>0. /\ Sound(db) /\ target \in Nat /\ writes \in Nat
        /\ (mode = "member" => target = 1)
        /\ (pc = "up" /\ db.state # None => db.schema = target)
        /\ client = [c \in Clients |-> client[c]] /\ \A c \in Clients : CommandOK(client[c])
    BY Zenon DEF NodeInv
  <1>00. db.state \in States \cup {None} /\ db.versions \in Seq(Rows)
    BY <1>0, SoundParts
  <1>1. CASE Plain
    <2>1. UNCHANGED <<mode, target, writes, db, pc, client>>
      BY <1>1, PlainChangesNothing
    <2> QED
      BY Zenon, <1>0, <2>1 DEF NodeInv
  <1>2. CASE ApplyNormal
    <2> DEFINE i == marks.applied + 1
               s == FromWire(WireSnapshot(Stamped(i)))
    <2>1. /\ db' = WriteVersion(db, s, target, 0) /\ pc = "up"
          /\ UNCHANGED <<mode, target, writes, pc, client>>
      BY <1>2 DEF ApplyNormal, Applying, Member, process
    <2>2. s \in States
      <3>1. i \in Nat
        OBVIOUS
      <3> HIDE DEF i
      <3>2. Stamped(i) \in States /\ s = Stamped(i)
        BY <3>1, StampedIsAState
      <3> QED
        BY Zenon, <3>2
    <2> HIDE DEF s
    <2>3. Sound(db') /\ db'.schema = target
      BY <1>0, <2>1, <2>2, WriteSound
    <2> QED
      BY Zenon, <1>0, <2>1, <2>3 DEF NodeInv
  <1>3. ASSUME NEW k \in 1 .. MaxIndex, NEW founder \in BOOLEAN, InstallSnapshot(k, founder)
        PROVE  NodeInv'
    <2> DEFINE held == peers[founder][k + 1]
    <2>1. /\ db' = Import(db, held.state, held.schema, History(held))
          /\ mode = "member" /\ UNCHANGED <<mode, target, writes, pc, client>>
      BY Zenon, <1>3 DEF InstallSnapshot, Peer, Member, process
    <2>2. PeerOK(held)
      <3>1. k + 1 \in 1 .. Len(agreed) + 1
        BY DEF MaxIndex, PeersInv
      <3> QED
        BY Zenon, <3>1 DEF PeersInv
    <2>3. Sound(held) /\ (held.state # None => held.schema = 1)
      BY Zenon, <2>2 DEF PeerOK
    <2> HIDE DEF held
    <2>4. Sound(db') /\ db'.state = held.state /\ db'.schema = held.schema
      BY Zenon, <1>0, <2>1, <2>3, ImportSound
    <2> QED
      BY Zenon, <1>0, <2>1, <2>3, <2>4 DEF NodeInv
  <1>4. ASSUME NEW c \in Clients, ReadState(c) PROVE NodeInv'
    <2> DEFINE r == Command("edited", "write", 0, None, db.state, db.seq)
    <2>1. Tells(c, r) /\ UNCHANGED <<mode, target, writes, db, pc>>
      BY Zenon, <1>4 DEF ReadState, process
    <2>2. CommandOK(r)
      BY <1>00, CommandMade
    <2> HIDE DEF r
    <2> QED
      BY Zenon, <1>0, <2>1, <2>2, TellsKeeps DEF NodeInv
  <1>5. ASSUME NEW c \in Clients, WriteState(c) \/ RollBack(c) PROVE NodeInv'
    <2>1. /\ pc = "up" /\ Tells(c, Quiet) /\ UNCHANGED <<mode, target, pc>> /\ writes' = writes + 1
      BY Zenon, <1>5 DEF WriteState, RollBack, Alone
    <2>2. PICK s \in States, from \in Nat : db' = WriteVersion(db, s, target, from)
      BY Zenon, <1>5, CommandsWriteAState
    <2> QED
      BY <2>1, <2>2, CommandWrites
  <1>6. ASSUME NEW c \in Clients, NEW id \in 1 .. MaxWrites, RollBackTo(c, id) PROVE NodeInv'
    <2>1. PICK v \in Find(db, id) : Tells(c, Command("version", "rollback", id, v.doc, None, 0))
      BY Zenon, <1>6 DEF RollBackTo
    <2>2. UNCHANGED <<mode, target, writes, db, pc>>
      BY Zenon, <1>6 DEF RollBackTo, process
    <2> DEFINE r == Command("version", "rollback", id, v.doc, None, 0)
    <2>3. v.doc \in Docs
      <3>1. PICK j \in DOMAIN db.versions : v = db.versions[j]
        BY Zenon, <2>1 DEF Find
      <3>2. v \in Rows
        BY <1>00, <3>1
      <3> QED
        BY <3>2 DEF Rows
    <2>4. CommandOK(r)
      <3>1. id \in Nat /\ None \in States \cup {None}
        OBVIOUS
      <3>2. "version" # "edited"
        OBVIOUS
      <3> QED
        BY Zenon, <2>3, <3>1, <3>2, CommandMade
    <2> HIDE DEF r
    <2>5. Tells(c, r)
      BY <2>1 DEF r
    <2> QED
      BY Zenon, <1>0, <2>2, <2>4, <2>5, TellsKeeps DEF NodeInv
  <1>7. ASSUME NEW c \in Clients, RollBackFrom(c) PROVE NodeInv'
    <2> DEFINE t == Restored(client[c].doc, db.state)
               r == Command("edited", "rollback", client[c].id, client[c].doc, t, db.seq)
    <2>1. /\ Tells(c, r) /\ UNCHANGED <<mode, target, writes, db, pc>>
          /\ client[c].pc = "version" /\ db.state # None
      BY Zenon, <1>7 DEF RollBackFrom, process
    <2>2. client[c].doc \in Docs /\ client[c].id \in Nat
      BY Zenon, <1>0, <2>1 DEF CommandOK
    <2>3. t \in States
      BY <1>00, <2>1, <2>2 DEF Restored, States, Docs
    <2> HIDE DEF t
    <2>4. CommandOK(r)
      BY <2>2, <2>3, CommandMade
    <2> HIDE DEF r
    <2> QED
      BY Zenon, <1>0, <2>1, <2>4, TellsKeeps DEF NodeInv
  <1>8. CASE CreateKey \/ FillKey \/ ReadKey \/ OpenDatabase \/ BackUp
    <2>1. UNCHANGED <<mode, target, writes, db, client>> /\ pc' # "up"
      BY <1>8 DEF CreateKey, FillKey, ReadKey, OpenDatabase, BackUp, Goes
    <2> QED
      BY Zenon, <1>0, <2>1 DEF NodeInv
  <1>9. CASE Current
    <2>1. UNCHANGED <<mode, target, writes, db, client>> /\ (db.state = None \/ db.schema = target)
      BY Zenon, <1>9 DEF Current
    <2> QED
      BY Zenon, <1>0, <2>1 DEF NodeInv
  <1>10. CASE BringForward
    <2>1. UNCHANGED <<mode, target, writes, client>>
      BY Zenon, <1>10 DEF BringForward
    <2>2. CASE db' = Migrated(db, target)
      <3>1. Sound(db') /\ db'.schema = target
        BY SMTT(30), <1>0, <2>2, MigrateSound
      <3> QED
        BY Zenon, <1>0, <2>1, <3>1 DEF NodeInv
    <2>3. CASE pc' = "down" /\ UNCHANGED db
      <3>1. pc' # "up"
        BY <2>3
      <3> QED
        BY Zenon, <1>0, <2>1, <2>3, <3>1 DEF NodeInv
    <2> QED
      BY Zenon, <1>10, <2>2, <2>3 DEF BringForward, Goes
  <1>11. CASE Upgrade
    <2>1. UNCHANGED <<mode, pc, writes, db, client>> /\ target' = 2 /\ pc = "down" /\ mode = "alone"
      BY Zenon, <1>11 DEF Upgrade
    <2>2. pc' # "up" /\ mode' # "member" /\ target' \in Nat
      BY <2>1
    <2> QED
      BY Zenon, <1>0, <2>1, <2>2 DEF NodeInv
  <1>12. CASE Crash
    <2>1. /\ UNCHANGED <<mode, target, writes, db>> /\ pc' = "down"
          /\ client' = [c \in Clients |-> Quiet]
      BY Zenon, <1>12 DEF Crash, Goes
    <2>2. /\ pc' # "up" /\ client' = [c \in Clients |-> client'[c]]
          /\ \A c \in Clients : client'[c] = Quiet
      BY <2>1
    <2> QED
      BY Zenon, <1>0, <2>1, <2>2, QuietIsOK DEF NodeInv
  <1>13. CASE UNCHANGED vars
    <2>1. UNCHANGED <<mode, target, writes, db, pc, client>>
      BY Zenon, <1>13 DEF vars, process
    <2> QED
      BY Zenon, <1>0, <2>1 DEF NodeInv
  <1> QED
    BY Zenon, <1>1, <1>2, <1>3, <1>4, <1>5, <1>6, <1>7, <1>8, <1>9, <1>10, <1>11, <1>12, <1>13
       DEF Next, Consensus, Commands, Process, Plain

(***************************************************************************)
(* The log.                                                                *)
(***************************************************************************)

\* It holds the positions after lo up to hi.  One that reaches the applied
\* position has all that was not purged: after an installation it may end
\* before, and then nothing is appended until it is purged.
Runs(lo, hi) == /\ hi <= Len(agreed) /\ DOMAIN rlog = lo + 1 .. hi
                /\ lo < hi /\ hi >= marks.applied => lo <= marks.purged

LogInv ==
    /\ marks = [applied |-> marks.applied, membership |-> marks.membership,
                purged |-> marks.purged, committed |-> marks.committed]
    /\ marks.applied \in Nat /\ marks.purged \in Nat /\ marks.committed \in Nat
    /\ marks.applied <= Len(agreed) /\ marks.purged <= marks.applied
    /\ purging \in Nat /\ purging <= marks.purged
    /\ \E lo \in Nat, hi \in Nat : Runs(lo, hi)
    /\ \A i, j \in DOMAIN rlog : i <= j /\ rlog[i] # "agreed" => rlog[j] # "agreed"
    /\ \A i \in marks.applied + 1 .. marks.committed : i \in DOMAIN rlog /\ rlog[i] = "agreed"

\* The last position of a run is its end, or the last one purged.
LEMMA LastOfARun ==
  ASSUME LogInv, NEW lo \in Nat, NEW hi \in Nat, Runs(lo, hi)
  PROVE  /\ lo < hi => LastIndex = hi
         /\ hi <= lo => LastIndex = marks.purged
  <1>1. DOMAIN rlog = lo + 1 .. hi
    BY Zenon DEF Runs
  <1>2. CASE lo < hi
    <2>1. hi \in DOMAIN rlog /\ \A j \in DOMAIN rlog : j \in Nat /\ hi >= j
      BY <1>1, <1>2
    <2>2. Max(DOMAIN rlog) = hi
      BY <2>1 DEF Max
    <2>3. ~(hi <= lo) /\ DOMAIN rlog # {}
      BY <1>2, <2>1
    <2> QED
      BY Zenon, <2>2, <2>3 DEF LastIndex
  <1>3. CASE hi <= lo
    <2>1. DOMAIN rlog = {} /\ ~(lo < hi)
      BY <1>1, <1>3
    <2> QED
      BY Zenon, <2>1 DEF LastIndex
  <1> QED
    BY <1>2, <1>3

\* Steps that leave the log, the markers and the purge alone.
LEMMA LogLeftAlone ==
  ASSUME LogInv, UNCHANGED <<agreed, rlog, marks, purging>>
  PROVE  LogInv'
  BY Zenon DEF LogInv, Runs

\* One more record at the end.
LEMMA AppendKeeps ==
  ASSUME LogInv, Len(agreed) \in Nat, NEW origin, AppendLog(origin)
  PROVE  LogInv'
  <1>0. /\ marks.applied \in Nat /\ marks.purged \in Nat /\ marks.committed \in Nat
        /\ marks.purged <= marks.applied
        /\ \A i, j \in DOMAIN rlog : i <= j /\ rlog[i] # "agreed" => rlog[j] # "agreed"
        /\ \A i \in marks.applied + 1 .. marks.committed : i \in DOMAIN rlog /\ rlog[i] = "agreed"
    BY Zenon DEF LogInv
  <1>1. PICK lo \in Nat, hi \in Nat : Runs(lo, hi)
    BY Zenon DEF LogInv
  <1>2. (lo < hi => LastIndex = hi) /\ (hi <= lo => LastIndex = marks.purged)
    BY <1>1, LastOfARun
  <1>4. DOMAIN rlog = lo + 1 .. hi /\ hi <= Len(agreed) /\ (lo < hi /\ hi >= marks.applied => lo <= marks.purged)
    BY Zenon, <1>1 DEF Runs
  <1>5. LastIndex \in Nat /\ \A j \in DOMAIN rlog : j \in Nat /\ j < LastIndex + 1
    BY <1>0, <1>2, <1>4
  <1>6. PICK i \in Nat : i = LastIndex + 1
    BY <1>5
  <1>3. /\ i <= Len(agreed) /\ LastIndex >= marks.applied
        /\ origin = "agreed" => \A j \in DOMAIN rlog : rlog[j] = "agreed"
        /\ rlog' = [j \in DOMAIN rlog \cup {i} |-> IF j = i THEN origin ELSE rlog[j]]
        /\ UNCHANGED <<agreed, marks, purging>>
    BY Zenon, <1>6 DEF AppendLog, MaxIndex
  <1>7. /\ DOMAIN rlog' = DOMAIN rlog \cup {i} /\ rlog'[i] = origin
        /\ \A j \in DOMAIN rlog : rlog'[j] = rlog[j]
    BY <1>3, <1>5, <1>6
  <1>8. \E l \in Nat, h \in Nat : Runs(l, h)'
    <2>1. CASE lo < hi
      <3>1. DOMAIN rlog' = lo + 1 .. i /\ i = hi + 1
        BY <1>2, <1>4, <1>6, <1>7, <2>1
      <3>2. lo <= marks.purged
        BY <1>2, <1>3, <1>4, <2>1
      <3>3. Runs(lo, i)'
        BY <1>3, <3>1, <3>2 DEF Runs
      <3> QED
        BY Zenon, <3>3
    <2>2. CASE hi <= lo
      <3>1. PICK l \in Nat : l = marks.purged
        BY Zenon, <1>0
      <3>2. DOMAIN rlog' = l + 1 .. i /\ i = l + 1
        BY SMTT(30), <1>0, <1>2, <1>4, <1>6, <1>7, <2>2, <3>1
      <3>3. Runs(l, i)'
        BY <1>0, <1>3, <3>1, <3>2 DEF Runs
      <3> QED
        BY Zenon, <3>3
    <2> QED
      BY <1>1, <2>1, <2>2
  <1>9. \A k, j \in DOMAIN rlog' : k <= j /\ rlog'[k] # "agreed" => rlog'[j] # "agreed"
    <2> SUFFICES ASSUME NEW k \in DOMAIN rlog', NEW j \in DOMAIN rlog', k <= j, rlog'[k] # "agreed"
                 PROVE  rlog'[j] # "agreed"
      BY Zenon
    <2>1. CASE j = i
      <3>1. CASE k = i
        BY Zenon, <2>1, <3>1
      <3>2. CASE k \in DOMAIN rlog
        BY Zenon, <1>3, <1>7, <2>1, <3>2
      <3> QED
        BY Zenon, <1>7, <3>1, <3>2
    <2>2. CASE j \in DOMAIN rlog
      <3>1. k # i
        BY <1>5, <1>6, <2>2
      <3>2. k \in DOMAIN rlog
        BY Zenon, <1>7, <3>1
      <3> QED
        BY Zenon, <1>0, <1>7, <2>2, <3>2
    <2> QED
      BY Zenon, <1>7, <2>1, <2>2
  <1>10. \A j \in marks.applied + 1 .. marks.committed : j \in DOMAIN rlog' /\ rlog'[j] = "agreed"
    BY Zenon, <1>0, <1>7
  <1> QED
    BY Zenon, <1>3, <1>8, <1>9, <1>10 DEF LogInv

\* The four markers.
IsMarks(m) == m = [applied |-> m.applied, membership |-> m.membership, purged |-> m.purged,
                   committed |-> m.committed]

\* What the other lemmas need of the log.
LEMMA LogParts ==
  ASSUME LogInv, Len(agreed) \in Nat
  PROVE  /\ IsMarks(marks)
         /\ marks.applied \in Nat /\ marks.purged \in Nat /\ marks.committed \in Nat
         /\ marks.applied <= Len(agreed) /\ marks.purged <= marks.applied
         /\ purging \in Nat /\ purging <= marks.purged
         /\ \A i, j \in DOMAIN rlog : i <= j /\ rlog[i] # "agreed" => rlog[j] # "agreed"
         /\ \A i \in marks.applied + 1 .. marks.committed : i \in DOMAIN rlog /\ rlog[i] = "agreed"
         /\ \E lo \in Nat, hi \in Nat :
               /\ hi <= Len(agreed) /\ DOMAIN rlog = lo + 1 .. hi
               /\ lo < hi /\ hi >= marks.applied => lo <= marks.purged
               /\ lo < hi => LastIndex = hi
               /\ hi <= lo => LastIndex = marks.purged
  <1>1. PICK lo \in Nat, hi \in Nat : Runs(lo, hi)
    BY Zenon DEF LogInv
  <1>2. (lo < hi => LastIndex = hi) /\ (hi <= lo => LastIndex = marks.purged)
    BY <1>1, LastOfARun
  <1>3. /\ hi <= Len(agreed) /\ DOMAIN rlog = lo + 1 .. hi
        /\ lo < hi /\ hi >= marks.applied => lo <= marks.purged
    BY Zenon, <1>1 DEF Runs
  <1> QED
    BY Zenon, <1>2, <1>3 DEF LogInv, IsMarks

\* The tail from a stray record on goes; nothing committed is in it.
LEMMA TruncateKeeps ==
  ASSUME LogInv, Len(agreed) \in Nat, NEW i \in Nat, Truncate(i)
  PROVE  LogInv'
  <1>1. /\ marks.applied \in Nat /\ marks.purged \in Nat /\ marks.committed \in Nat
        /\ \A k, j \in DOMAIN rlog : k <= j /\ rlog[k] # "agreed" => rlog[j] # "agreed"
        /\ \A j \in marks.applied + 1 .. marks.committed : j \in DOMAIN rlog /\ rlog[j] = "agreed"
    BY LogParts
  <1>2. PICK lo \in Nat, hi \in Nat :
               /\ hi <= Len(agreed) /\ DOMAIN rlog = lo + 1 .. hi
               /\ lo < hi /\ hi >= marks.applied => lo <= marks.purged
    BY Zenon, LogParts
  <1>3. /\ i \in DOMAIN rlog /\ rlog[i] # "agreed" /\ UNCHANGED <<agreed, marks, purging>>
        /\ rlog' = [j \in {k \in DOMAIN rlog : k < i} |-> rlog[j]]
    BY DEF Truncate
  <1>4. /\ DOMAIN rlog' = lo + 1 .. i - 1 /\ \A j \in DOMAIN rlog' : j \in DOMAIN rlog /\ rlog'[j] = rlog[j]
        /\ \A j \in DOMAIN rlog : j < i => j \in DOMAIN rlog'
    BY <1>2, <1>3
  <1>5. /\ i - 1 \in Nat /\ i - 1 <= Len(agreed)
        /\ lo < i - 1 /\ i - 1 >= marks.applied => lo <= marks.purged
    BY <1>1, <1>2, <1>3
  <1>9. Runs(lo, i - 1)'
    BY <1>3, <1>4, <1>5 DEF Runs
  <1>6. \A k, j \in DOMAIN rlog' : k <= j /\ rlog'[k] # "agreed" => rlog'[j] # "agreed"
    BY Zenon, <1>1, <1>4
  <1>7. \A j \in marks.applied + 1 .. marks.committed : j < i
    BY <1>1, <1>3
  <1>8. \A j \in marks.applied + 1 .. marks.committed : j \in DOMAIN rlog' /\ rlog'[j] = "agreed"
    BY Zenon, <1>1, <1>4, <1>7
  <1> QED
    BY Zenon, <1>3, <1>5, <1>6, <1>8, <1>9 DEF LogInv

\* Markers that only move on leave the log whole, when what is committed and not
\* applied is there.
LEMMA MarksMove ==
  ASSUME LogInv, Len(agreed) \in Nat, UNCHANGED <<agreed, rlog>>, IsMarks(marks'),
         marks'.applied \in Nat, marks'.purged \in Nat, marks'.committed \in Nat,
         marks'.applied <= Len(agreed), marks'.purged <= marks'.applied,
         marks.applied <= marks'.applied, marks.purged <= marks'.purged,
         purging' \in Nat, purging' <= marks'.purged,
         \A i \in marks'.applied + 1 .. marks'.committed : i \in DOMAIN rlog /\ rlog[i] = "agreed"
  PROVE  LogInv'
  <1>1. /\ marks.applied \in Nat /\ marks.purged \in Nat
        /\ \A i, j \in DOMAIN rlog : i <= j /\ rlog[i] # "agreed" => rlog[j] # "agreed"
    BY Zenon, LogParts
  <1>2. PICK lo \in Nat, hi \in Nat :
               /\ hi <= Len(agreed) /\ DOMAIN rlog = lo + 1 .. hi
               /\ lo < hi /\ hi >= marks.applied => lo <= marks.purged
    BY Zenon, LogParts
  <1>3. lo < hi /\ hi >= marks'.applied => lo <= marks'.purged
    BY <1>1, <1>2
  <1>4. Runs(lo, hi)'
    BY <1>2, <1>3 DEF Runs
  <1> QED
    BY SMTT(30), <1>1, <1>4 DEF LogInv, IsMarks

\* What is committed is there, as it was agreed.
LEMMA CommittedKeeps ==
  ASSUME LogInv, Len(agreed) \in Nat, NEW c \in Nat, SaveCommitted(c)
  PROVE  LogInv'
  <1>1. /\ marks.applied \in Nat /\ marks.purged \in Nat /\ marks.purged <= marks.applied
        /\ marks.applied <= Len(agreed) /\ purging \in Nat /\ purging <= marks.purged
        /\ IsMarks(marks)
    BY Zenon, LogParts
  <1>2. PICK lo \in Nat, hi \in Nat :
               /\ DOMAIN rlog = lo + 1 .. hi
               /\ lo < hi /\ hi >= marks.applied => lo <= marks.purged
               /\ lo < hi => LastIndex = hi
               /\ hi <= lo => LastIndex = marks.purged
    BY Zenon, LogParts
  <1>3. /\ c <= LastIndex /\ \A i \in DOMAIN rlog : i <= c => rlog[i] = "agreed"
        /\ marks' = [marks EXCEPT !.committed = c] /\ UNCHANGED <<agreed, rlog, purging>>
    BY Zenon DEF SaveCommitted
  <1>4. /\ IsMarks(marks') /\ marks'.applied = marks.applied
        /\ marks'.purged = marks.purged /\ marks'.committed = c
    BY <1>1, <1>3 DEF IsMarks
  <1>5. \A i \in marks.applied + 1 .. c : i \in DOMAIN rlog /\ rlog[i] = "agreed"
    BY SMTT(30), <1>1, <1>2, <1>3
  <1> QED
    BY <1>1, <1>3, <1>4, <1>5, MarksMove

\* The marker of a purge is written before anything goes.
LEMMA PurgeMarkerKeeps ==
  ASSUME LogInv, Len(agreed) \in Nat, NEW k \in Nat, PurgeMarker(k)
  PROVE  LogInv'
  <1>1. /\ marks.applied \in Nat /\ marks.purged \in Nat /\ marks.committed \in Nat
        /\ marks.applied <= Len(agreed) /\ IsMarks(marks)
        /\ \A i \in marks.applied + 1 .. marks.committed : i \in DOMAIN rlog /\ rlog[i] = "agreed"
    BY Zenon, LogParts
  <1>2. /\ k > marks.purged /\ k <= marks.applied /\ purging' = k
        /\ marks' = [marks EXCEPT !.purged = k] /\ UNCHANGED <<agreed, rlog>>
    BY Zenon DEF PurgeMarker, Purgeable
  <1>3. /\ IsMarks(marks') /\ marks'.applied = marks.applied
        /\ marks'.purged = k /\ marks'.committed = marks.committed
    BY <1>1, <1>2 DEF IsMarks
  <1> QED
    BY <1>1, <1>2, <1>3, MarksMove

\* The records up to the marker go.
LEMMA PurgeRecordsKeeps ==
  ASSUME LogInv, Len(agreed) \in Nat, PurgeRecords
  PROVE  LogInv'
  <1>1. /\ marks.applied \in Nat /\ marks.purged \in Nat /\ marks.committed \in Nat
        /\ marks.purged <= marks.applied /\ purging \in Nat /\ purging <= marks.purged
        /\ \A k, j \in DOMAIN rlog : k <= j /\ rlog[k] # "agreed" => rlog[j] # "agreed"
        /\ \A j \in marks.applied + 1 .. marks.committed : j \in DOMAIN rlog /\ rlog[j] = "agreed"
    BY Zenon, LogParts
  <1>2. PICK lo \in Nat, hi \in Nat :
               /\ hi <= Len(agreed) /\ DOMAIN rlog = lo + 1 .. hi
               /\ lo < hi /\ hi >= marks.applied => lo <= marks.purged
    BY Zenon, LogParts
  <1>3. /\ rlog' = [j \in {i \in DOMAIN rlog : i > purging} |-> rlog[j]]
        /\ purging' = 0 /\ UNCHANGED <<agreed, marks>>
    BY Zenon DEF PurgeRecords
  <1>4. PICK l \in Nat : l = IF lo > purging THEN lo ELSE purging
    BY <1>1
  <1>5. /\ DOMAIN rlog' = l + 1 .. hi
        /\ \A j \in DOMAIN rlog' : j \in DOMAIN rlog /\ rlog'[j] = rlog[j]
        /\ \A j \in DOMAIN rlog : j > purging => j \in DOMAIN rlog'
    BY <1>1, <1>2, <1>3, <1>4
  <1>6. l < hi /\ hi >= marks.applied => l <= marks.purged
    BY <1>1, <1>2, <1>4
  <1>7. Runs(l, hi)'
    BY <1>2, <1>3, <1>5, <1>6 DEF Runs
  <1>8. \A k, j \in DOMAIN rlog' : k <= j /\ rlog'[k] # "agreed" => rlog'[j] # "agreed"
    BY Zenon, <1>1, <1>5
  <1>9. \A j \in marks.applied + 1 .. marks.committed : j > purging
    BY <1>1
  <1>10. \A j \in marks.applied + 1 .. marks.committed : j \in DOMAIN rlog' /\ rlog'[j] = "agreed"
    BY Zenon, <1>1, <1>5, <1>9
  <1>11. 0 \in Nat /\ 0 <= marks.purged
    BY <1>1
  <1> QED
    BY Zenon, <1>3, <1>7, <1>8, <1>10, <1>11 DEF LogInv

\* One more record is applied, which the log holds.
LEMMA OneApplied ==
  ASSUME LogInv, Len(agreed) \in Nat, marks.applied < marks.committed,
         marks' = [marks EXCEPT !.applied = @ + 1], UNCHANGED <<agreed, rlog, purging>>
  PROVE  LogInv'
  <1>1. /\ marks.applied \in Nat /\ marks.purged \in Nat /\ marks.committed \in Nat
        /\ marks.purged <= marks.applied /\ purging \in Nat /\ purging <= marks.purged
        /\ IsMarks(marks)
        /\ \A i \in marks.applied + 1 .. marks.committed : i \in DOMAIN rlog /\ rlog[i] = "agreed"
    BY Zenon, LogParts
  <1>2. PICK lo \in Nat, hi \in Nat :
               /\ hi <= Len(agreed) /\ DOMAIN rlog = lo + 1 .. hi
               /\ lo < hi /\ hi >= marks.applied => lo <= marks.purged
    BY Zenon, LogParts
  <1>3. marks.applied + 1 \in DOMAIN rlog /\ marks.applied + 1 <= Len(agreed)
    BY SMTT(30), <1>1, <1>2
  <1>4. /\ IsMarks(marks') /\ marks'.applied = marks.applied + 1
        /\ marks'.purged = marks.purged /\ marks'.committed = marks.committed
    BY <1>1 DEF IsMarks
  <1>5. \A i \in marks'.applied + 1 .. marks'.committed : i \in marks.applied + 1 .. marks.committed
    BY <1>1, <1>4
  <1> QED
    BY <1>1, <1>3, <1>4, <1>5, MarksMove

\* The markers go to a snapshot that is ahead of what is committed.
LEMMA InstallKeepsLog ==
  ASSUME LogInv, Len(agreed) \in Nat, NEW k \in 1 .. MaxIndex, NEW founder,
         InstallSnapshot(k, founder)
  PROVE  LogInv'
  <1>1. /\ marks.applied \in Nat /\ marks.purged \in Nat /\ marks.committed \in Nat
        /\ marks.purged <= marks.applied /\ purging \in Nat /\ purging <= marks.purged
        /\ IsMarks(marks)
    BY Zenon, LogParts
  <1>2. /\ k > marks.committed /\ k > marks.applied
        /\ marks' = [marks EXCEPT !.applied = k, !.membership = Members(k)]
        /\ UNCHANGED <<agreed, rlog, purging>>
    BY Zenon DEF InstallSnapshot
  <1>3. /\ IsMarks(marks') /\ marks'.applied = k
        /\ marks'.purged = marks.purged /\ marks'.committed = marks.committed
    BY Zenon, <1>1, <1>2 DEF IsMarks
  <1>4. k \in Nat /\ k <= Len(agreed)
    BY DEF MaxIndex
  <1> QED
    BY <1>1, <1>2, <1>3, <1>4, MarksMove

\* The membership marker is no part of what keeps the log whole.
LEMMA MembershipKeepsLog ==
  ASSUME LogInv, Len(agreed) \in Nat, MarkMembership
  PROVE  LogInv'
  <1>1. /\ marks.applied \in Nat /\ marks.purged \in Nat /\ marks.committed \in Nat
        /\ marks.applied <= Len(agreed) /\ marks.purged <= marks.applied
        /\ purging \in Nat /\ purging <= marks.purged /\ IsMarks(marks)
        /\ \A i \in marks.applied + 1 .. marks.committed : i \in DOMAIN rlog /\ rlog[i] = "agreed"
    BY Zenon, LogParts
  <1>2. /\ marks' = [marks EXCEPT !.membership = sm.at] /\ UNCHANGED <<agreed, rlog, purging>>
    BY Zenon DEF MarkMembership
  <1>3. /\ IsMarks(marks') /\ marks'.applied = marks.applied
        /\ marks'.purged = marks.purged /\ marks'.committed = marks.committed
    BY <1>1, <1>2 DEF IsMarks
  <1> QED
    BY <1>1, <1>2, <1>3, MarksMove

\* A process that falls forgets the purge it was in.
LEMMA CrashKeepsLog ==
  ASSUME LogInv, Len(agreed) \in Nat, Crash
  PROVE  LogInv'
  <1>1. /\ marks.applied \in Nat /\ marks.purged \in Nat /\ marks.committed \in Nat
        /\ marks.applied <= Len(agreed) /\ marks.purged <= marks.applied /\ IsMarks(marks)
        /\ \A i \in marks.applied + 1 .. marks.committed : i \in DOMAIN rlog /\ rlog[i] = "agreed"
    BY Zenon, LogParts
  <1>2. purging' = 0 /\ UNCHANGED <<agreed, rlog, marks>>
    BY Zenon DEF Crash
  <1> QED
    BY <1>1, <1>2, MarksMove

\* The cluster goes on, and what this node holds of its log stays.
LEMMA AgreeKeepsLog ==
  ASSUME LogInv, PeersInv, NEW kind \in {"blank", "membership", "normal"}, Agree(kind)
  PROVE  LogInv'
  <1>1. /\ agreed' = Append(agreed, kind) /\ UNCHANGED <<rlog, marks, purging>>
        /\ agreed \in Seq({"blank", "membership", "normal"})
    BY Zenon DEF Agree, PeersInv
  <1>2. Len(agreed) \in Nat /\ Len(agreed') = Len(agreed) + 1
    BY <1>1
  <1>3. PICK lo \in Nat, hi \in Nat :
               /\ hi <= Len(agreed) /\ DOMAIN rlog = lo + 1 .. hi
               /\ lo < hi /\ hi >= marks.applied => lo <= marks.purged
    BY Zenon, <1>2, LogParts
  <1>4. hi <= Len(agreed') /\ marks.applied <= Len(agreed')
    BY <1>2, <1>3 DEF LogInv
  <1>5. Runs(lo, hi)'
    BY Zenon, <1>1, <1>3, <1>4 DEF Runs
  <1> QED
    BY Zenon, <1>1, <1>4, <1>5 DEF LogInv

\* Every step keeps the log whole.
LEMMA LogStep ==
  ASSUME LogInv, PeersInv, [Next]_vars
  PROVE  LogInv'
  <1>0. Len(agreed) \in Nat
    BY DEF PeersInv
  <1>1. ASSUME NEW kind \in {"blank", "membership", "normal"}, Agree(kind) PROVE LogInv'
    BY Zenon, <1>1, AgreeKeepsLog
  <1>2. ASSUME NEW origin, AppendLog(origin) PROVE LogInv'
    BY Zenon, <1>0, <1>2, AppendKeeps
  <1>3. ASSUME NEW i \in 1 .. MaxIndex, Truncate(i) \/ SaveCommitted(i) \/ PurgeMarker(i)
        PROVE  LogInv'
    <2>1. i \in Nat
      BY <1>0 DEF MaxIndex
    <2> QED
      BY Zenon, <1>0, <1>3, <2>1, TruncateKeeps, CommittedKeeps, PurgeMarkerKeeps
  <1>4. CASE ApplyBlank \/ ApplyMembership \/ ApplyNormal
    <2>1. /\ marks.applied < marks.committed /\ marks' = [marks EXCEPT !.applied = @ + 1]
          /\ UNCHANGED <<agreed, rlog, purging>>
      BY Zenon, <1>4 DEF ApplyBlank, ApplyMembership, ApplyNormal, Applying
    <2> QED
      BY Zenon, <1>0, <2>1, OneApplied
  <1>5. ASSUME NEW k \in 1 .. MaxIndex, NEW founder \in BOOLEAN, InstallSnapshot(k, founder)
        PROVE  LogInv'
    BY Zenon, <1>0, <1>5, InstallKeepsLog
  <1>6. CASE KeepInstalled \/ ExportState \/ ExportHistory \/ ReadApplied \/ BuildSnapshot
    <2>1. UNCHANGED <<agreed, rlog, marks, purging>>
      BY Zenon, <1>6 DEF KeepInstalled, ExportState, ExportHistory, ReadApplied, BuildSnapshot
    <2> QED
      BY Zenon, <2>1, LogLeftAlone
  <1>7. CASE Commands
    <2>1. UNCHANGED consensus
      BY Zenon, <1>7 DEF Commands, ReadState, WriteState, RollBackFrom, RollBack, RollBackTo
    <2> QED
      BY Zenon, <2>1, LogLeftAlone DEF consensus
  <1>8. CASE CreateKey \/ FillKey \/ ReadKey \/ OpenDatabase \/ Current \/ BackUp
             \/ BringForward \/ Upgrade \/ UNCHANGED vars
    <2>1. UNCHANGED consensus
      BY Zenon, <1>8 DEF CreateKey, FillKey, ReadKey, OpenDatabase, Current, BackUp,
                         BringForward, Upgrade, vars
    <2> QED
      BY Zenon, <2>1, LogLeftAlone DEF consensus
  <1> QED
    BY ZenonT(40), <1>0, <1>1, <1>2, <1>3, <1>4, <1>5, <1>6, <1>7, <1>8, PurgeRecordsKeeps,
       MembershipKeepsLog, CrashKeepsLog DEF Next, Consensus, Process

(***************************************************************************)
(* What is applied.                                                        *)
(***************************************************************************)

\* The peers only grow, and only while the cluster agrees on more.
LEMMA PeersStep ==
  ASSUME PeersInv, NodeInv, [Next]_vars
  PROVE  PeersInv'
  <1>1. ASSUME NEW kind \in {"blank", "membership", "normal"}, Agree(kind) PROVE PeersInv'
    BY Zenon, <1>1, AgreeKeeps
  <1>2. CASE UNCHANGED <<agreed, peers>>
    BY Zenon, <1>2 DEF PeersInv
  <1>3. ASSUME ~ \E kind \in {"blank", "membership", "normal"} : Agree(kind)
        PROVE  UNCHANGED <<agreed, peers>>
    <2>1. Consensus => UNCHANGED <<agreed, peers>>
      BY Zenon, <1>3 DEF Consensus, AppendLog, Truncate, SaveCommitted, PurgeMarker,
         PurgeRecords, ApplyBlank, ApplyMembership, MarkMembership, ApplyNormal,
         InstallSnapshot, KeepInstalled, ExportState, ExportHistory, ReadApplied, BuildSnapshot
    <2>2. Commands => UNCHANGED consensus
      BY Zenon DEF Commands, ReadState, WriteState, RollBackFrom, RollBack, RollBackTo
    <2>3. Process => UNCHANGED <<agreed, peers>>
      BY Zenon DEF Process, CreateKey, FillKey, ReadKey, OpenDatabase, Current, BackUp,
                   BringForward, Upgrade, Crash, consensus
    <2> QED
      BY Zenon, <2>1, <2>2, <2>3 DEF Next, vars, consensus
  <1> QED
    BY Zenon, <1>1, <1>2, <1>3

\* The store is that of a peer, in every part.
Matches(founder) ==
    /\ db.state = Peer(marks.applied, founder).state
    /\ DocumentsOf(db.versions) = DocumentsOf(Peer(marks.applied, founder).versions)

\* A migration changes no document.
LEMMA MigrateDocuments ==
  ASSUME NEW d, Sound(d), NEW to
  PROVE  /\ Migrated(d, to).state = d.state
         /\ DocumentsOf(Migrated(d, to).versions) = DocumentsOf(d.versions)
  <1> DEFINE e == Migrated(d, to)
             v == d.versions
  <1>1. IsDb(d) /\ v \in Seq(Rows)
    BY SoundParts
  <1>2. e.state = d.state /\ e.versions = [i \in DOMAIN v |-> [v[i] EXCEPT !.schema = to]]
    BY <1>1, MigrationWritesNothing
  <1> HIDE DEF e
  <1>3. \A i \in DOMAIN v : [v[i] EXCEPT !.schema = to].doc = v[i].doc
    BY <1>1 DEF Rows
  <1>4. DocumentsOf(e.versions) = DocumentsOf(v)
    BY <1>2, <1>3 DEF DocumentsOf
  <1> QED
    BY Zenon, <1>2, <1>4 DEF e

\* A step that leaves the store, the position and what the peers held up to it
\* leaves the match.
LEMMA MatchLeftAlone ==
  ASSUME AppliedMatches, UNCHANGED <<mode, marks, db, peers>>
  PROVE  AppliedMatches'
  BY Zenon DEF AppliedMatches, Peer

\* A record that writes nothing.
LEMMA MatchApplyPlain ==
  ASSUME AppliedMatches, PeersInv, LogInv, ApplyBlank \/ ApplyMembership
  PROVE  AppliedMatches'
  <1>1. /\ marks.applied \in Nat /\ marks.applied + 1 \in 1 .. Len(agreed) /\ IsMarks(marks)
    <2>0. Len(agreed) \in Nat
      BY DEF PeersInv
    <2>1. PICK lo \in Nat, hi \in Nat : hi <= Len(agreed) /\ DOMAIN rlog = lo + 1 .. hi
      BY Zenon, <2>0, LogParts
    <2>2. marks.applied + 1 \in DOMAIN rlog
      BY Zenon DEF ApplyBlank, ApplyMembership, Applying
    <2>3. marks.applied \in Nat /\ IsMarks(marks)
      BY Zenon, <2>0, LogParts
    <2> QED
      BY <2>0, <2>1, <2>2, <2>3
  <1>2. /\ marks' = [marks EXCEPT !.applied = @ + 1] /\ UNCHANGED <<mode, db, peers>>
        /\ agreed[marks.applied + 1] # "normal" /\ mode = "member"
    BY DEF ApplyBlank, ApplyMembership, Applying, Member, process
  <1>3. marks'.applied = marks.applied + 1
    BY <1>1, <1>2 DEF IsMarks
  <1>4. PICK f \in BOOLEAN : Matches(f)
    BY Zenon, <1>2 DEF AppliedMatches, Matches
  <1>5. peers[f][marks.applied + 1 + 1] = peers[f][marks.applied + 1]
    BY Zenon, <1>1, <1>2 DEF PeersInv
  <1> QED
    BY Zenon, <1>2, <1>3, <1>4, <1>5 DEF AppliedMatches, Matches, Peer

\* A record that writes a version.
LEMMA MatchApplyNormal ==
  ASSUME AppliedMatches, PeersInv, LogInv, NodeInv, ApplyNormal
  PROVE  AppliedMatches'
  <1>1. /\ marks.applied \in Nat /\ marks.applied + 1 \in 1 .. Len(agreed) /\ IsMarks(marks)
        /\ Len(agreed) \in Nat
    <2>0. Len(agreed) \in Nat
      BY DEF PeersInv
    <2>1. PICK lo \in Nat, hi \in Nat : hi <= Len(agreed) /\ DOMAIN rlog = lo + 1 .. hi
      BY Zenon, <2>0, LogParts
    <2>2. marks.applied + 1 \in DOMAIN rlog
      BY Zenon DEF ApplyNormal, Applying
    <2>3. marks.applied \in Nat /\ IsMarks(marks)
      BY Zenon, <2>0, LogParts
    <2> QED
      BY <2>0, <2>1, <2>2, <2>3
  <1>2. /\ marks' = [marks EXCEPT !.applied = @ + 1] /\ UNCHANGED <<mode, peers>>
        /\ agreed[marks.applied + 1] = "normal" /\ mode = "member" /\ pc = "up"
        /\ db' = WriteVersion(db, FromWire(WireSnapshot(Stamped(marks.applied + 1))), target, 0)
    BY Zenon DEF ApplyNormal, Applying, Member, process
  <1>3. marks'.applied = marks.applied + 1
    BY <1>1, <1>2 DEF IsMarks
  <1>4. PICK f \in BOOLEAN : Matches(f)
    BY Zenon, <1>2 DEF AppliedMatches, Matches
  <1>5. PICK i \in Nat : i = marks.applied + 1
    BY <1>1
  <1>6. PICK held : held = peers[f][i]
    OBVIOUS
  <1>7. PICK s \in States : s = Stamped(i) /\ FromWire(WireSnapshot(Stamped(i))) = s
    BY Zenon, StampedIsAState
  <1>8. peers[f][i + 1] = WriteVersion(held, s, 1, 0)
    BY Zenon, <1>1, <1>2, <1>5, <1>6, <1>7 DEF PeersInv
  <1>9. db' = WriteVersion(db, s, 1, 0) /\ Sound(db) /\ (db.state # None => db.schema = 1)
    BY Zenon, <1>2, <1>5, <1>7 DEF NodeInv
  <1>10. Sound(held) /\ (held.state # None => held.schema = 1)
    <2>1. i \in 1 .. Len(agreed) + 1
      BY <1>1, <1>5
    <2> QED
      BY Zenon, <1>6, <2>1 DEF PeersInv, PeerOK
  <1>11. DocumentsOf(db.versions) = DocumentsOf(held.versions)
    BY Zenon, <1>4, <1>5, <1>6 DEF Matches, Peer
  <1>12. 1 \in Nat /\ 0 \in Nat
    OBVIOUS
  <1>13. WriteVersion(db, s, 1, 0).state = s /\ WriteVersion(held, s, 1, 0).state = s
    BY <1>9, <1>10, <1>12, WriteSound
  <1>14. DocumentsOf(WriteVersion(db, s, 1, 0).versions)
            = DocumentsOf(WriteVersion(held, s, 1, 0).versions)
    BY <1>9, <1>10, <1>11, <1>12, WriteDocuments
  <1> QED
    BY Zenon, <1>2, <1>3, <1>5, <1>8, <1>9, <1>13, <1>14 DEF AppliedMatches, Peer

\* A snapshot is what a peer held at the position it names.
LEMMA MatchInstall ==
  ASSUME PeersInv, LogInv, NodeInv, NEW k \in 1 .. MaxIndex, NEW f \in BOOLEAN,
         InstallSnapshot(k, f)
  PROVE  AppliedMatches'
  <1>1. PICK held : held = peers[f][k + 1]
    OBVIOUS
  <1>2. /\ db' = Import(db, held.state, held.schema, History(held)) /\ UNCHANGED peers
        /\ marks' = [marks EXCEPT !.applied = k, !.membership = Members(k)]
    BY Zenon, <1>1 DEF InstallSnapshot, Peer
  <1>3. IsMarks(marks) /\ Sound(db) /\ Len(agreed) \in Nat
    BY DEF LogInv, NodeInv, IsMarks, PeersInv
  <1>4. marks'.applied = k
    BY <1>2, <1>3 DEF IsMarks
  <1>5. Sound(held)
    <2>1. k + 1 \in 1 .. Len(agreed) + 1
      BY <1>3 DEF MaxIndex
    <2> QED
      BY Zenon, <1>1, <2>1 DEF PeersInv, PeerOK
  <1>6. db'.state = held.state /\ db'.versions = held.versions
    BY Zenon, <1>2, <1>3, <1>5, ImportSound
  <1> QED
    BY Zenon, <1>1, <1>2, <1>4, <1>6 DEF AppliedMatches, Peer

\* The peers as they were are still there when the cluster has gone on.
LEMMA MatchAgree ==
  ASSUME AppliedMatches, PeersInv, LogInv, NEW kind \in {"blank", "membership", "normal"},
         Agree(kind)
  PROVE  AppliedMatches'
  <1>1. /\ UNCHANGED <<mode, marks, db>> /\ mode = "member"
        /\ \E next : peers' = [f \in BOOLEAN |-> Append(peers[f], next[f])]
    <2> DEFINE i == MaxIndex + 1
               next == [f \in BOOLEAN |-> IF kind = "normal"
                                          THEN WriteVersion(peers[f][i], Stamped(i), target, 0)
                                          ELSE peers[f][i]]
    <2>1. /\ UNCHANGED <<mode, marks, db>> /\ mode = "member"
          /\ peers' = [f \in BOOLEAN |-> Append(peers[f], IF kind = "normal"
                                          THEN WriteVersion(peers[f][i], Stamped(i), target, 0)
                                          ELSE peers[f][i])]
      BY Zenon DEF Agree, process
    <2>2. peers' = [f \in BOOLEAN |-> Append(peers[f], next[f])]
      BY <2>1
    <2> QED
      BY Zenon, <2>1, <2>2
  <1>2. PICK next : peers' = [f \in BOOLEAN |-> Append(peers[f], next[f])]
    BY Zenon, <1>1
  <1>3. PICK f \in BOOLEAN : Matches(f)
    BY Zenon, <1>1 DEF AppliedMatches, Matches
  <1>4. peers[f] \in Seq(Databases) /\ Len(peers[f]) = Len(agreed) + 1 /\ Len(agreed) \in Nat
    BY DEF PeersInv
  <1>5. marks.applied \in Nat /\ marks.applied <= Len(agreed)
    BY Zenon, <1>4, LogParts
  <1>6. peers'[f] = Append(peers[f], next[f]) /\ marks.applied + 1 \in 1 .. Len(peers[f])
    BY <1>2, <1>4, <1>5
  <1>7. Append(peers[f], next[f])[marks.applied + 1] = peers[f][marks.applied + 1]
    BY <1>4, <1>6
  <1> QED
    BY ZenonT(40), <1>1, <1>3, <1>6, <1>7 DEF AppliedMatches, Matches, Peer

\* Every step of a member leaves its store what the records make it.
LEMMA MatchStep ==
  ASSUME AppliedMatches, PeersInv, LogInv, NodeInv, [Next]_vars
  PROVE  AppliedMatches'
  <1>1. ASSUME NEW kind \in {"blank", "membership", "normal"}, Agree(kind) PROVE AppliedMatches'
    BY Zenon, <1>1, MatchAgree
  <1>2. ASSUME NEW origin, AppendLog(origin) PROVE AppliedMatches'
    BY Zenon, <1>2, MatchLeftAlone DEF AppendLog, process
  <1>3. CASE PurgeRecords \/ MarkMembership \/ KeepInstalled \/ ExportState \/ ExportHistory
             \/ ReadApplied \/ BuildSnapshot \/ \E i \in 1 .. MaxIndex :
                                     Truncate(i) \/ SaveCommitted(i) \/ PurgeMarker(i)
    <2>1. IsMarks(marks)
      BY Zenon DEF LogInv, IsMarks
    <2>2. UNCHANGED <<mode, db, peers>>
      BY Zenon, <1>3 DEF PurgeRecords, MarkMembership, KeepInstalled, ExportState,
         ExportHistory, ReadApplied, BuildSnapshot, Truncate, SaveCommitted, PurgeMarker, process
    <2>3. marks'.applied = marks.applied
      BY Zenon, <1>3, <2>1 DEF PurgeRecords, MarkMembership, KeepInstalled, ExportState,
         ExportHistory, ReadApplied, BuildSnapshot, Truncate, SaveCommitted, PurgeMarker, IsMarks
    <2> QED
      BY Zenon, <2>2, <2>3 DEF AppliedMatches, Peer
  <1>4. ASSUME NEW k \in 1 .. MaxIndex, NEW founder \in BOOLEAN, InstallSnapshot(k, founder)
        PROVE  AppliedMatches'
    BY Zenon, <1>4, MatchInstall
  <1>5. CASE Commands
    <2>1. mode = "alone" /\ UNCHANGED mode
      BY Zenon, <1>5 DEF Commands, ReadState, WriteState, RollBackFrom, RollBack, RollBackTo,
         Alone, process
    <2>2. mode' # "member"
      BY <2>1
    <2> QED
      BY Zenon, <2>2 DEF AppliedMatches
  <1>6. CASE CreateKey \/ FillKey \/ ReadKey \/ OpenDatabase \/ Current \/ BackUp
             \/ Upgrade \/ Crash \/ UNCHANGED vars
    <2>1. UNCHANGED <<mode, marks, db, peers>>
      BY Zenon, <1>6 DEF CreateKey, FillKey, ReadKey, OpenDatabase, Current, BackUp,
                         Upgrade, Crash, vars, consensus, process
    <2> QED
      BY Zenon, <2>1, MatchLeftAlone
  <1>7. CASE BringForward
    <2>1. UNCHANGED <<mode, marks, peers>> /\ (db' = Migrated(db, target) \/ UNCHANGED db)
      BY Zenon, <1>7 DEF BringForward, consensus
    <2>2. db'.state = db.state /\ DocumentsOf(db'.versions) = DocumentsOf(db.versions)
      BY Zenon, <2>1, MigrateDocuments DEF NodeInv
    <2> QED
      BY Zenon, <2>1, <2>2 DEF AppliedMatches, Peer
  <1> QED
    BY Zenon, <1>1, <1>2, <1>3, <1>4, <1>5, <1>6, <1>7, MatchApplyPlain, MatchApplyNormal
       DEF Next, Consensus, Process

(***************************************************************************)
(* The theorems.                                                           *)
(***************************************************************************)

StoreInv == NodeInv /\ PeersInv /\ LogInv /\ AppliedMatches

LEMMA StoreInit == Init => StoreInv
  <1> SUFFICES ASSUME Init PROVE StoreInv
    OBVIOUS
  <1> DEFINE first == WriteVersion(Empty, Stamped(0), 1, 0)
  <1>1. Sound(first) /\ first.state # None /\ first.schema = 1 /\ Sound(Empty) /\ Empty.state = None
    BY FounderIsSound, EmptyIsSound
  <1> HIDE DEF first
  <1>2. /\ agreed = << >> /\ peers = [f \in BOOLEAN |-> <<IF f THEN first ELSE Empty>>]
        /\ target = 1 /\ writes = 0 /\ pc = "down" /\ purging = 0 /\ rlog = << >>
        /\ marks = [applied |-> 0, membership |-> 0, purged |-> 0, committed |-> 0]
        /\ client = [c \in Clients |-> Quiet]
        /\ db = first \/ db = Empty
    BY Zenon DEF Init, first
  <1>3. NodeInv
    <2>1. target \in Nat /\ writes \in Nat /\ pc # "up" /\ client = [c \in Clients |-> client[c]]
          /\ \A c \in Clients : client[c] = Quiet
      BY <1>2
    <2> QED
      BY Zenon, <1>1, <1>2, <2>1, QuietIsOK DEF NodeInv
  <1>4. ASSUME NEW f \in BOOLEAN
        PROVE  \E d \in Databases : peers[f] = <<d>> /\ PeerOK(d) /\ d = IF f THEN first ELSE Empty
    <2>1. peers[f] = <<IF f THEN first ELSE Empty>>
      BY <1>2
    <2>2. PeerOK(first) /\ PeerOK(Empty) /\ first \in Databases /\ Empty \in Databases
      BY Zenon, <1>1 DEF PeerOK, Sound
    <2> QED
      BY Zenon, <2>1, <2>2
  <1>5. PeersInv
    <2>1. agreed \in Seq({"blank", "membership", "normal"}) /\ Len(agreed) = 0
      BY <1>2
    <2>2. peers = [f \in BOOLEAN |-> peers[f]]
      BY <1>2
    <2>3. ASSUME NEW f \in BOOLEAN
          PROVE  /\ peers[f] \in Seq(Databases) /\ Len(peers[f]) = 1
                 /\ \A k \in 1 .. 1 : PeerOK(peers[f][k])
      <3>1. PICK d \in Databases : peers[f] = <<d>> /\ PeerOK(d)
        BY Zenon, <1>4
      <3>2. <<d>> \in Seq(Databases) /\ Len(<<d>>) = 1 /\ \A k \in 1 .. 1 : <<d>>[k] = d
        OBVIOUS
      <3> QED
        BY Zenon, <3>1, <3>2
    <2>4. 0 + 1 = 1 /\ 1 .. 0 = {}
      OBVIOUS
    <2> QED
      BY SMTT(30), <2>1, <2>2, <2>3, <2>4 DEF PeersInv
  <1>6. LogInv
    <2>1. /\ marks.applied = 0 /\ marks.purged = 0 /\ marks.committed = 0 /\ IsMarks(marks)
          /\ DOMAIN rlog = {} /\ Len(agreed) = 0
      BY <1>2 DEF IsMarks
    <2>2. Runs(0, 0)
      BY <2>1 DEF Runs
    <2> QED
      BY <1>2, <2>1, <2>2 DEF LogInv, IsMarks
  <1>7. AppliedMatches
    <2>1. PICK f \in BOOLEAN : db = IF f THEN first ELSE Empty
      BY Zenon, <1>2
    <2>2. Peer(marks.applied, f) = db
      BY <1>2, <2>1 DEF Peer
    <2> QED
      BY Zenon, <2>2 DEF AppliedMatches
  <1> QED
    BY Zenon, <1>3, <1>5, <1>6, <1>7 DEF StoreInv

LEMMA StoreKept == Spec => []StoreInv
  <1>1. StoreInv /\ [Next]_vars => StoreInv'
    <2> SUFFICES ASSUME StoreInv, [Next]_vars PROVE StoreInv'
      OBVIOUS
    <2>1. NodeInv /\ PeersInv /\ LogInv /\ AppliedMatches /\ marks.applied \in Nat
      BY Zenon DEF StoreInv, LogInv
    <2> QED
      BY Zenon, <2>1, NodeStep, PeersStep, LogStep, MatchStep DEF StoreInv
  <1> QED
    BY <1>1, StoreInit, PTL DEF Spec

\* The store of a member is exactly what the records up to its applied position
\* make it, however often the process fell (machine.rs apply, install_snapshot).
THEOREM StoreIsItsRecords == Spec => []AppliedMatches
  <1>1. StoreInv => AppliedMatches
    BY DEF StoreInv
  <1> QED
    BY <1>1, StoreKept, PTL

\* A log that was appended to, cut, purged and left behind by a snapshot has no
\* hole (log.rs get_log_state).
LEMMA WholeLog == StoreInv => LogIsWhole
  <1> SUFFICES ASSUME StoreInv PROVE LogIsWhole
    OBVIOUS
  <1>0. LogInv /\ Len(agreed) \in Nat
    BY DEF StoreInv, PeersInv
  <1>1. /\ marks.applied \in Nat /\ marks.purged \in Nat
        /\ \A i \in marks.applied + 1 .. marks.committed : i \in DOMAIN rlog /\ rlog[i] = "agreed"
    BY Zenon, <1>0, LogParts
  <1>2. PICK lo \in Nat, hi \in Nat :
               /\ DOMAIN rlog = lo + 1 .. hi
               /\ lo < hi /\ hi >= marks.applied => lo <= marks.purged
               /\ lo < hi => LastIndex = hi
               /\ hi <= lo => LastIndex = marks.purged
    BY Zenon, <1>0, LogParts
  <1>3. LastIndex >= marks.applied => \A i \in marks.purged + 1 .. LastIndex : i \in DOMAIN rlog
    BY <1>1, <1>2
  <1> QED
    BY Zenon, <1>1, <1>3 DEF LogIsWhole

\* What is on disk can be opened and read wherever the process fell: no hole in
\* the log, no database without its key, one schema (log.rs, sqlite.rs).
THEOREM ReadableAfterAFall == Spec => []SurvivesAFall
  <1>1. StoreInv => OneSchema
    BY Zenon DEF StoreInv, NodeInv, Sound, OneSchema
  <1>2. StoreInv /\ KeyBeforeDatabase => SurvivesAFall
    BY Zenon, <1>1, WholeLog DEF SurvivesAFall
  <1> QED
    BY <1>2, StoreKept, DatabaseHasItsKey, PTL

\* Every step keeps each version, or notes that it went, or is a snapshot that
\* replaces the log (sqlite.rs prune_versions).
LEMMA VersionsNoted ==
  ASSUME NodeInv, LogInv, [Next]_vars, mode' = "alone" \/ sm'.pc # "keep",
         NEW i \in DOMAIN db.versions
  PROVE  \/ \E j \in DOMAIN db'.versions : db'.versions[j].id = db.versions[i].id
         \/ db.versions[i].id \in db'.pruned
  <1>0. Sound(db) /\ target \in Nat /\ marks.applied \in Nat
    BY Zenon DEF NodeInv, LogInv
  <1>1. CASE UNCHANGED db
    BY Zenon, <1>1
  <1>2. ASSUME NEW s \in States, NEW from \in Nat, db' = WriteVersion(db, s, target, from)
        PROVE  \/ \E j \in DOMAIN db'.versions : db'.versions[j].id = db.versions[i].id
               \/ db.versions[i].id \in db'.pruned
    BY <1>0, <1>2, WriteKeepsOrNotes
  <1>3. CASE db' = Migrated(db, target)
    <2>1. /\ DOMAIN db'.versions = DOMAIN db.versions
          /\ \A k \in DOMAIN db.versions : db'.versions[k].id = db.versions[k].id
      BY <1>0, <1>3, MigrateSound
    <2> QED
      BY Zenon, <2>1
  <1>4. CASE ApplyNormal
    <2>1. PICK k \in Nat : k = marks.applied + 1
      BY <1>0
    <2>2. db' = WriteVersion(db, Stamped(k), target, 0) /\ Stamped(k) \in States /\ 0 \in Nat
      BY Zenon, <1>4, <2>1, StampedIsAState DEF ApplyNormal
    <2> QED
      BY Zenon, <1>2, <2>2
  <1>5. ASSUME NEW k \in 1 .. MaxIndex, NEW founder \in BOOLEAN, InstallSnapshot(k, founder)
        PROVE  FALSE
    <2>1. mode' = "member" /\ sm'.pc = "keep"
      BY <1>5 DEF InstallSnapshot, Member, process
    <2> QED
      BY <2>1
  <1>6. CASE Commands
    BY Zenon, <1>1, <1>2, <1>6, CommandsWriteAState
       DEF Commands, ReadState, RollBackFrom, RollBackTo
  <1>7. CASE Process
    BY Zenon, <1>1, <1>3, <1>7 DEF Process, CreateKey, FillKey, ReadKey, OpenDatabase,
       Current, BackUp, BringForward, Upgrade, Crash
  <1>8. CASE Plain
    BY Zenon, <1>1, <1>8, PlainChangesNothing
  <1> QED
    BY Zenon, <1>1, <1>4, <1>5, <1>6, <1>7, <1>8 DEF Next, Consensus, Plain, vars

\* A version leaves the log only with a row that says so, or with the log itself
\* when a snapshot replaces it (sqlite.rs write_version, prune_versions).
THEOREM RemovalIsNoted == Spec => NoSilentRemoval
  <1> DEFINE Noted == mode' = "alone" \/ sm'.pc # "keep" =>
                        \A i \in DOMAIN db.versions :
                            \/ \E j \in DOMAIN db'.versions : db'.versions[j].id = db.versions[i].id
                            \/ db.versions[i].id \in db'.pruned
  <1>1. StoreInv /\ [Next]_vars => Noted
    <2> SUFFICES ASSUME StoreInv, [Next]_vars PROVE Noted
      OBVIOUS
    <2>1. NodeInv /\ LogInv
      BY DEF StoreInv
    <2> QED
      BY Zenon, <2>1, VersionsNoted
  <1>2. Noted => [Noted]_vars
    OBVIOUS
  <1> HIDE DEF Noted
  <1>3. [][Noted]_vars => NoSilentRemoval
    BY DEF Noted, NoSilentRemoval
  <1> QED
    BY <1>1, <1>3, StoreKept, PTL DEF Spec
============================================================================
