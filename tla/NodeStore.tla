------------------------------ MODULE NodeStore ------------------------------
(***************************************************************************)
(* The disk of one node, and everything that stops half way over it.       *)
(*                                                                         *)
(* Sources: ek-ek-raft/src/log.rs and machine.rs (the storage consensus    *)
(* runs on), ek-ek-store/src/sqlite.rs (opening, migrating, rolling back)  *)
(* and master_key.rs.                                                      *)
(*                                                                         *)
(* A node is a member of a cluster, whose log `agreed` it follows, or it   *)
(* is alone and its commands write the store themselves.  Every action is  *)
(* one transaction or one read under the connection's lock.  A process may *)
(* fall between any two of them; what it was doing is lost and the disk is *)
(* what it was.                                                            *)
(*                                                                         *)
(* Consensus is a library.  It is taken to apply committed records in      *)
(* order and one at a time, never to truncate what is committed, to purge  *)
(* only what is applied, to build a snapshot in a task of its own, and to  *)
(* purge a log that ends before the applied position (after a snapshot was *)
(* installed) before it appends to it again.                               *)
(***************************************************************************)
EXTENDS Store, FiniteSetsExt

CONSTANTS
    Clients,        \* commands that write the store of a node alone
    Scripts,        \* bound: the kinds of the records the cluster agrees on
    MaxWrites,      \* bound: writes of a node alone
    MaxCrashes      \* bound: times the process falls

ASSUME NodeStoreAssumption ==
    \A script \in Scripts : \A i \in DOMAIN script :
        script[i] \in {"blank", "membership", "normal"}

VARIABLES
    mode,       \* "member" or "alone"
    agreed,     \* the kind of each record the cluster agrees on
    peers,      \* what other members held after each number of those records
    key, database,  \* the two files: a key is absent, empty or whole
    db,         \* what the database holds beside the log
    rlog,       \* raft_log: which positions hold an agreed or a stray record
    marks,      \* raft_marker
    snap,       \* raft_snapshot: position, membership and the data itself
    backups,    \* copies taken before a migration
    target,     \* the schema this build reaches
    pc,         \* where the process is: down, keying, keyed, opened, backed, up
    sm,         \* the state machine task: idle, or half way through an entry
    builder,    \* the snapshot task
    purging,    \* a purge whose marker is written and whose records are there
    client,     \* the command each client is in
    writes, crashes

consensus == <<agreed, peers, rlog, marks, snap, sm, builder, purging>>
process == <<mode, key, database, backups, target, pc, writes, crashes>>
vars == <<consensus, process, db, client>>

MaxIndex == Len(agreed)
Idle == [pc |-> "idle"]

\* A command at its place: what it is, the version it is about, the document of
\* that, the state it holds, and how many writes it has seen.
Command(at, op, id, doc, held, seen) ==
    [pc |-> at, op |-> op, id |-> id, doc |-> doc, held |-> held, seen |-> seen]

Quiet == Command("idle", None, 0, None, None, 0)

\* The cluster agrees on a record and its members apply it.  A record agreed on
\* later is one that this node has yet to hear of, so all of it comes first.
Agree(kind) ==
    LET i == MaxIndex + 1 IN
    /\ mode = "member" /\ pc = "down" /\ crashes = 0
    /\ \E script \in Scripts : i <= Len(script) /\ Append(agreed, kind) = SubSeq(script, 1, i)
    /\ agreed' = Append(agreed, kind)
    /\ peers' = [founder \in BOOLEAN |->
           LET held == peers[founder][i]
           IN  Append(peers[founder], IF kind = "normal"
                                      THEN WriteVersion(held, Stamped(i), target, 0)
                                      ELSE held)]
    /\ UNCHANGED <<rlog, marks, snap, sm, builder, purging, process, db, client>>

\* What consensus asks the log -----------------------------------------------

\* get_log_state: the last record held, or the last one purged.
LastIndex == IF DOMAIN rlog = {} THEN marks.purged ELSE Max(DOMAIN rlog)

Member == mode = "member" /\ pc = "up"

\* keep: records follow what is there.  Those of a leader that fell may be
\* stray, and everything after a stray record is.
AppendLog(origin) ==
    LET i == LastIndex + 1 IN
    /\ Member /\ i <= MaxIndex /\ purging = 0
    /\ LastIndex >= marks.applied /\ sm.pc = "idle"
    /\ origin = "agreed" => \A j \in DOMAIN rlog : rlog[j] = "agreed"
    /\ rlog' = [j \in DOMAIN rlog \cup {i} |-> IF j = i THEN origin ELSE rlog[j]]
    /\ UNCHANGED <<agreed, peers, marks, snap, sm, builder, purging, process, db, client>>

\* truncate: one statement removes the tail that disagrees.
Truncate(i) ==
    /\ Member /\ i \in DOMAIN rlog /\ rlog[i] = "stray"
    /\ rlog' = [j \in {k \in DOMAIN rlog : k < i} |-> rlog[j]]
    /\ UNCHANGED <<agreed, peers, marks, snap, sm, builder, purging, process, db, client>>

\* save_committed, for records this node holds as they were agreed.
SaveCommitted(c) ==
    /\ Member /\ c > marks.committed /\ c <= LastIndex
    /\ \A i \in DOMAIN rlog : i <= c => rlog[i] = "agreed"
    /\ marks' = [marks EXCEPT !.committed = c]
    /\ UNCHANGED <<agreed, peers, rlog, snap, sm, builder, purging, process, db, client>>

Purgeable(k) == /\ k > marks.purged /\ k <= marks.applied
                /\ \/ snap # None /\ k <= snap.last
                   \/ LastIndex < marks.applied /\ k = marks.applied

\* Mutant: the records go before the marker says so.
PurgeRecordsFirst(k) ==
    /\ Member /\ purging = 0 /\ Purgeable(k) /\ sm.pc = "idle"
    /\ rlog' = [j \in {i \in DOMAIN rlog : i > k} |-> rlog[j]]
    /\ purging' = k
    /\ UNCHANGED <<agreed, peers, marks, snap, sm, builder, process, db, client>>

\* purge: the marker is written, then the records go.
PurgeMarker(k) ==
    /\ Member /\ purging = 0 /\ Purgeable(k) /\ sm.pc = "idle"
    /\ marks' = [marks EXCEPT !.purged = k]
    /\ purging' = k
    /\ UNCHANGED <<agreed, peers, rlog, snap, sm, builder, process, db, client>>

PurgeRecords ==
    /\ Member /\ purging # 0
    /\ rlog' = [j \in {i \in DOMAIN rlog : i > purging} |-> rlog[j]]
    /\ purging' = 0
    /\ UNCHANGED <<agreed, peers, marks, snap, sm, builder, process, db, client>>

\* The state machine ----------------------------------------------------------

\* The record to apply, which the log has to hold.
Applying(kind) ==
    /\ Member /\ sm.pc = "idle" /\ marks.applied < marks.committed
    /\ marks.applied + 1 \in DOMAIN rlog /\ agreed[marks.applied + 1] = kind

ApplyBlank ==
    /\ Applying("blank")
    /\ marks' = [marks EXCEPT !.applied = @ + 1]
    /\ UNCHANGED <<agreed, peers, rlog, snap, sm, builder, purging, process, db, client>>

\* A membership record: the position in one write, the members in another.
ApplyMembership ==
    /\ Applying("membership")
    /\ marks' = [marks EXCEPT !.applied = @ + 1]
    /\ sm' = [pc |-> "members", at |-> marks.applied + 1]
    /\ UNCHANGED <<agreed, peers, rlog, snap, builder, purging, process, db, client>>

MarkMembership ==
    /\ Member /\ sm.pc = "members"
    /\ marks' = [marks EXCEPT !.membership = sm.at]
    /\ sm' = Idle
    /\ UNCHANGED <<agreed, peers, rlog, snap, builder, purging, process, db, client>>

\* Mutant: the position is left to a later write, which a crash can lose.
ApplyNormalUnmarked ==
    /\ Applying("normal")
    /\ db' = WriteVersion(db, FromWire(WireSnapshot(Stamped(marks.applied + 1))),
                          target, 0)
    /\ sm' = [pc |-> "position", at |-> marks.applied + 1]
    /\ UNCHANGED <<agreed, peers, rlog, marks, snap, builder, purging, process, client>>

\* A configuration write: state, version, audit rows and position together.
ApplyNormal ==
    /\ Applying("normal")
    /\ db' = WriteVersion(db, FromWire(WireSnapshot(Stamped(marks.applied + 1))),
                          target, 0)
    /\ marks' = [marks EXCEPT !.applied = @ + 1]
    /\ UNCHANGED <<agreed, peers, rlog, snap, sm, builder, purging, process, client>>

Writes(k) == {i \in 1..k : agreed[i] = "normal"}

\* The last membership record up to k.
Members(k) == Max({i \in 1..k : agreed[i] = "membership"} \cup {0})

\* What a peer that applied k records holds; it may be the founder, whose first
\* version was written before there was a log.
Peer(k, founder) == peers[founder][k + 1]

\* install_snapshot, first write: everything is replaced in one transaction.
InstallSnapshot(k, founder) ==
    /\ Member /\ sm.pc = "idle" /\ purging = 0
    /\ k > marks.committed /\ k > marks.applied
    /\ \A i \in DOMAIN rlog : i >= k => rlog[i] = "agreed"
    /\ LET held == Peer(k, founder) IN
       /\ db' = Import(db, held.state, held.schema, History(held))
       /\ sm' = [pc |-> "keep", at |-> k, data |-> [state |-> held.state,
                                                    history |-> History(held)]]
    /\ marks' = [marks EXCEPT !.applied = k, !.membership = Members(k)]
    /\ UNCHANGED <<agreed, peers, rlog, snap, builder, purging, process, client>>

\* The second write: the snapshot itself is kept, to be handed on.
KeepInstalled ==
    /\ Member /\ sm.pc = "keep"
    /\ snap' = [last |-> sm.at, members |-> Members(sm.at), data |-> sm.data]
    /\ sm' = Idle
    /\ UNCHANGED <<agreed, peers, rlog, marks, builder, purging, process, db, client>>

\* build_snapshot reads four times, each under a lock of its own, then writes.
ExportState ==
    /\ Member /\ builder.pc = "idle"
    /\ builder' = [pc |-> "state", state |-> db.state]
    /\ UNCHANGED <<agreed, peers, rlog, marks, snap, sm, purging, process, db, client>>

ExportHistory ==
    /\ Member /\ builder.pc = "state"
    /\ builder' = [pc |-> "history", data |-> [state |-> builder.state,
                                               history |-> History(db)]]
    /\ UNCHANGED <<agreed, peers, rlog, marks, snap, sm, purging, process, db, client>>

ReadApplied ==
    /\ Member /\ builder.pc = "history"
    /\ builder' = [pc |-> "applied", data |-> builder.data, last |-> marks.applied]
    /\ UNCHANGED <<agreed, peers, rlog, marks, snap, sm, purging, process, db, client>>

BuildSnapshot ==
    /\ Member /\ builder.pc = "applied"
    /\ snap' = [last |-> builder.last, members |-> marks.membership,
                data |-> builder.data]
    /\ builder' = Idle
    /\ UNCHANGED <<agreed, peers, rlog, marks, sm, purging, process, db, client>>

\* A node alone ----------------------------------------------------------------

Alone == mode = "alone" /\ pc = "up"

Tells(c, request) == client' = [client EXCEPT ![c] = request]

\* A command reads the state it will edit and write back.
ReadState(c) ==
    /\ Alone /\ client[c].pc = "idle" /\ writes < MaxWrites
    /\ Tells(c, Command("edited", "write", 0, None, db.state, db.seq))
    /\ UNCHANGED <<consensus, process, db>>

\* It changes the configuration, or a certificate and the tables beside it.
WriteState(c) ==
    /\ Alone /\ client[c].pc = "edited" /\ client[c].op = "write"
    /\ writes' = writes + 1
    /\ \E next \in {Stamped(writes + 1)} \cup
                   (IF client[c].held = None THEN {}
                    ELSE {[client[c].held EXCEPT !.cfg = writes + 1],
                          [client[c].held EXCEPT !.certs = writes + 1,
                               !.beside = [t \in Beside |-> writes + 1]]}) :
           db' = WriteVersion(db, next, target, 0)
    /\ Tells(c, Quiet)
    /\ UNCHANGED <<consensus, mode, key, database, backups, target, pc, crashes>>

\* roll_back_to: the version, its schema checked; then the current state; then
\* the write.  A version that is not there, or of another schema, is refused.
RollBackTo(c, id) ==
    /\ Alone /\ client[c].pc = "idle" /\ writes < MaxWrites
    /\ \E v \in Find(db, id) :
        /\ v.schema = target
        /\ Tells(c, Command("version", "rollback", id, v.doc, None, 0))
    /\ UNCHANGED <<consensus, process, db>>

RollBackFrom(c) ==
    /\ Alone /\ client[c].pc = "version" /\ db.state # None
    /\ Tells(c, Command("edited", "rollback", client[c].id, client[c].doc,
                        Restored(client[c].doc, db.state), db.seq))
    /\ UNCHANGED <<consensus, process, db>>

RollBack(c) ==
    /\ Alone /\ client[c].pc = "edited" /\ client[c].op = "rollback"
    /\ writes' = writes + 1
    /\ db' = WriteVersion(db, client[c].held, target, client[c].id)
    /\ Tells(c, Quiet)
    /\ UNCHANGED <<consensus, mode, key, database, backups, target, pc, crashes>>

\* Opening, upgrading, falling -------------------------------------------------

Goes(to) == pc' = to

\* A key is made only where there is no database: the file, then its bytes.
CreateKey ==
    /\ pc = "down" /\ key = "absent" /\ ~database
    /\ key' = "empty"
    /\ Goes("keying")
    /\ UNCHANGED <<consensus, mode, database, backups, target, writes, crashes, db, client>>

FillKey ==
    /\ pc = "keying"
    /\ key' = "whole"
    /\ Goes("keyed")
    /\ UNCHANGED <<consensus, mode, database, backups, target, writes, crashes, db, client>>

\* A key of another length is refused.
ReadKey ==
    /\ pc = "down" /\ key = "whole"
    /\ Goes("keyed")
    /\ UNCHANGED <<consensus, mode, key, database, backups, target, writes, crashes, db, client>>

OpenDatabase ==
    /\ pc = "keyed"
    /\ database' = TRUE
    /\ Goes("opened")
    /\ UNCHANGED <<consensus, mode, key, backups, target, writes, crashes, db, client>>

\* bring_forward: nothing stored, or nothing to do.
Current ==
    /\ pc = "opened" /\ (db.state = None \/ db.schema = target)
    /\ Goes("up")
    /\ UNCHANGED <<consensus, mode, key, database, backups, target, writes, crashes, db, client>>

BackUp ==
    /\ pc = "opened" /\ db.state # None /\ db.schema < target
    /\ backups' = backups \cup {db}
    /\ Goes("backed")
    /\ UNCHANGED <<consensus, mode, key, database, target, writes, crashes, db, client>>

\* The steps succeed over every document, or nothing is written and the store
\* does not open.
BringForward ==
    /\ pc = "backed"
    /\ \/ db' = Migrated(db, target) /\ Goes("up")
       \/ Goes("down") /\ UNCHANGED db
    /\ UNCHANGED <<consensus, mode, key, database, backups, target, writes, crashes, client>>

\* Another build is installed.  One that reaches less than what is stored does
\* not open it.
Upgrade ==
    /\ pc = "down" /\ mode = "alone" /\ target = 1
    /\ target' = 2
    /\ UNCHANGED <<consensus, mode, key, database, backups, pc, writes, crashes, db, client>>

Crash ==
    /\ pc # "down" /\ crashes < MaxCrashes
    /\ crashes' = crashes + 1
    /\ Goes("down")
    /\ sm' = Idle /\ builder' = Idle /\ purging' = 0
    /\ client' = [c \in Clients |-> Quiet]
    /\ UNCHANGED <<agreed, peers, rlog, marks, snap, mode, key, database, backups, target,
                   writes, db>>

\* The founder of a cluster wrote its authority into the store before there was
\* a log; a node that joins, and one alone, start with nothing.
Init ==
    /\ mode \in {"member", "alone"}
    /\ agreed = << >>
    /\ peers = [founder \in BOOLEAN |->
           <<IF founder THEN WriteVersion(Empty, Stamped(0), 1, 0) ELSE Empty>>]
    /\ target = 1
    /\ \/ /\ mode = "member" /\ key = "whole" /\ database = TRUE
          /\ db = WriteVersion(Empty, Stamped(0), 1, 0)
       \/ key = "absent" /\ database = FALSE /\ db = Empty
    /\ rlog = << >> /\ snap = None /\ backups = {}
    /\ marks = [applied |-> 0, membership |-> 0, purged |-> 0, committed |-> 0]
    /\ pc = "down" /\ sm = Idle /\ builder = Idle /\ purging = 0
    /\ client = [c \in Clients |-> Quiet]
    /\ writes = 0 /\ crashes = 0

Consensus ==
    \/ \E kind \in {"blank", "membership", "normal"} : Agree(kind)
    \/ \E origin \in {"agreed", "stray"} : AppendLog(origin)
    \/ \E i \in 1..MaxIndex : Truncate(i) \/ SaveCommitted(i) \/ PurgeMarker(i)
    \/ PurgeRecords
    \/ ApplyBlank \/ ApplyMembership \/ MarkMembership \/ ApplyNormal
    \/ \E k \in 1..MaxIndex, founder \in BOOLEAN : InstallSnapshot(k, founder)
    \/ KeepInstalled
    \/ ExportState \/ ExportHistory \/ ReadApplied \/ BuildSnapshot

Commands ==
    \E c \in Clients :
        \/ ReadState(c) \/ WriteState(c) \/ RollBackFrom(c) \/ RollBack(c)
        \/ \E id \in 1..MaxWrites : RollBackTo(c, id)

Process == \/ CreateKey \/ FillKey \/ ReadKey \/ OpenDatabase \/ Current
           \/ BackUp \/ BringForward \/ Upgrade \/ Crash

Next == Consensus \/ Commands \/ Process

Spec == Init /\ [][Next]_vars

\* Properties ------------------------------------------------------------------

DocumentsOf(versions) == [i \in DOMAIN versions |-> versions[i].doc]

\* The store of a member is exactly what the records up to its applied position
\* make it, in every part, however often the process fell: no record is applied
\* twice and none is passed over (machine.rs:6-11).
AppliedMatches ==
    mode = "member" =>
        \E founder \in BOOLEAN :
            LET held == Peer(marks.applied, founder) IN
            /\ db.state = held.state
            /\ DocumentsOf(db.versions) = DocumentsOf(held.versions)

\* The log holds every position it says it holds, and every record that was
\* committed and not applied can still be read as it was agreed: a purge or an
\* installation that stops half way opens no hole (log.rs:133-166).
LogIsWhole ==
    mode = "member" /\ purging = 0 /\ sm.pc = "idle" =>
        /\ LastIndex >= marks.applied =>
              \A i \in (marks.purged + 1)..LastIndex : i \in DOMAIN rlog
        /\ \A i \in (marks.applied + 1)..marks.committed :
              i \in DOMAIN rlog /\ rlog[i] = "agreed"

\* No database is ever without the key that opens it, wherever the first start
\* stops (sqlite.rs:114-127).
KeyBeforeDatabase == database => key = "whole"

\* The state and every version kept are of one schema whenever the store is
\* open, so a version can be rolled back to across an upgrade, and the copy
\* taken first is what the migration found (sqlite.rs:199-203).
OneSchema ==
    pc = "up" /\ db.state # None =>
        /\ \A i \in DOMAIN db.versions : db.versions[i].schema = db.schema
        /\ db.schema = target

\* A version leaves the log only with a row that says so, or with the log
\* itself when a snapshot replaces it (sqlite.rs:767-770).
NoSilentRemoval ==
    [][mode' = "alone" \/ sm'.pc # "keep" =>
        \A i \in DOMAIN db.versions :
            \/ \E j \in DOMAIN db'.versions : db'.versions[j].id = db.versions[i].id
            \/ db.versions[i].id \in db'.pruned]_vars

\* A rollback with no write since it read the state leaves certificates, keys,
\* tokens, refusals and orders as they are, and brings the configuration of the
\* version back (sqlite.rs:644-663).
RollbackKeepsTheRest ==
    [][\A c \in Clients :
        RollBack(c) /\ client[c].seen = db.seq =>
            /\ db'.state.certs = db.state.certs
            /\ db'.state.beside = db.state.beside
            /\ db'.state.cfg = client[c].doc.cfg]_vars

\* A stored snapshot is the state at the position it names: "everything a node
\* must hold to be identical to its peers" (machine.rs:13-19, 127-129).
SnapshotIsTheState ==
    snap # None =>
        \E founder \in BOOLEAN :
            LET held == Peer(snap.last, founder) IN
            /\ snap.data.state = held.state
            /\ DocumentsOf(snap.data.history.versions) = DocumentsOf(held.versions)

\* The members on disk are those of the applied position: "the two travel
\* together because openraft reads them together" (machine.rs:37-40).
MembersOfApplied ==
    mode = "member" /\ sm.pc = "idle" => marks.membership = Members(marks.applied)

\* An applied write has the number every node gives it (journal.rs:50-54, "the
\* same version numbers as its peers and not with numbers of its own").
SameNumbers ==
    mode = "member" =>
        \A i \in DOMAIN db.versions : db.versions[i].doc.cfg # 0 =>
            db.versions[i].id = Cardinality(Writes(db.versions[i].doc.cfg))

\* What is on disk can be opened and read wherever the process fell: the log
\* has no hole, the database has its key, and everything in it is of one schema
\* (log.rs get_log_state, sqlite.rs open_with_migrations).
SurvivesAFall == LogIsWhole /\ KeyBeforeDatabase /\ OneSchema
==============================================================================
