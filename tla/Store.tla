-------------------------------- MODULE Store --------------------------------
(***************************************************************************)
(* What one call of the node's store does to the database.                 *)
(*                                                                         *)
(* Sources: ek-ek-store/src/sqlite.rs, migration.rs and the conversions of *)
(* ek-ek-raft/src/types.rs.  Every operator here is one transaction, or    *)
(* one read under the lock of the connection; what happens between two of  *)
(* them is NodeStore's.                                                    *)
(*                                                                         *)
(* A state (Snapshot) is whole: the configuration, with the certificates   *)
(* apart because a rollback treats them apart, and five tables beside it.  *)
(* Sealing is left out: it never changes what is read back under one key.  *)
(***************************************************************************)
EXTENDS Naturals, Sequences, FiniteSets

CONSTANTS
    None,           \* nothing is stored
    MaxVersions     \* MAX_VERSIONS, the retention limit of the version log

ASSUME StoreAssumption == MaxVersions \in Nat \ {0}

\* The tables a state fills beside the configuration document.
Beside == {"secrets", "cluster", "joins", "removed", "orders"}

\* What the store can hold: nothing stored is no state.
States == [cfg : Nat, certs : Nat, beside : [Beside -> Nat]]
ASSUME NoState == None \notin States

\* The state one writer wrote, whole: w marks every part of it.
Stamped(w) == [cfg |-> w, certs |-> w, beside |-> [t \in Beside |-> w]]

\* A database as `prepare` leaves it: tables and no rows.
Empty == [state |-> None, schema |-> 0, versions |-> << >>, seq |-> 0,
          pruned |-> {}]

Document(s) == [cfg |-> s.cfg, certs |-> s.certs]

\* Conversions: a record that travels carries what the store holds ------------

WireSnapshot(s) == [config |-> Document(s), secrets |-> s.beside["secrets"],
                    cluster |-> s.beside["cluster"], joins |-> s.beside["joins"],
                    removed |-> s.beside["removed"], orders |-> s.beside["orders"]]

FromWire(w) == [cfg |-> w.config.cfg, certs |-> w.config.certs,
                beside |-> [t \in Beside |-> w[t]]]

\* Writes ---------------------------------------------------------------------

AppendVersion(db, s, schema, from) ==
    [db EXCEPT !.versions = Append(@, [id |-> db.seq + 1, doc |-> Document(s),
                                       schema |-> schema, from |-> from]),
               !.seq = @ + 1]

\* Mutant: old versions go without a row in the audit log.
PruneInSilence(db) ==
    [db EXCEPT !.versions = IF Len(@) > MaxVersions THEN Tail(@) ELSE @]

\* The versions past the limit go, and each removal leaves a row.
Prune(db) ==
    LET gone == IF Len(db.versions) > MaxVersions THEN Len(db.versions) - MaxVersions
                                                  ELSE 0
    IN  [db EXCEPT !.versions = SubSeq(@, gone + 1, Len(@)),
                   !.pruned = @ \cup {db.versions[i].id : i \in 1..gone}]

\* write_version: every table is replaced whole, the version log grows.
WriteVersion(db, s, schema, from) ==
    Prune(AppendVersion([db EXCEPT !.state = s, !.schema = schema], s, schema, from))

\* Everything a peer needs.  export reads the state, then the two logs.
History(db) == [versions |-> db.versions, pruned |-> db.pruned]

LastId(versions) == IF versions = << >> THEN 0 ELSE versions[Len(versions)].id

\* import: the rows are replaced with the numbers they were written under.  The
\* counter that numbers versions is SQLite's and only ever grows.
Import(db, state, schema, history) ==
    [state |-> state, schema |-> schema, versions |-> history.versions,
     pruned |-> history.pruned,
     seq |-> IF LastId(history.versions) > db.seq THEN LastId(history.versions)
                                                  ELSE db.seq]

\* Rollback and migration ------------------------------------------------------

Find(db, id) == {db.versions[i] : i \in {j \in DOMAIN db.versions :
                                            db.versions[j].id = id}}

\* Mutant: the certificates of the restored version come back with it.
RestoredWithCertificates(doc, current) == [current EXCEPT !.cfg = doc.cfg,
                                                          !.certs = doc.certs]

\* What a rollback writes: the configuration of the version, and the current
\* certificates, key material, authority, tokens, refusals and orders.
Restored(doc, current) == [current EXCEPT !.cfg = doc.cfg]

\* The state and every version step to the target in one transaction.
Migrated(db, target) ==
    [db EXCEPT !.schema = target,
               !.versions = [i \in DOMAIN @ |-> [@[i] EXCEPT !.schema = target]]]
==============================================================================
