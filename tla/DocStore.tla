------------------------------ MODULE DocStore ------------------------------
(***************************************************************************)
(* crawler_v2/store.rs, table `documents`, and Store::upsert_document as   *)
(* the workers of one daemon (and the `crawl poll` CLI) run it: every      *)
(* worker has its own SQLite connection, the journal is WAL and            *)
(* `conn.transaction()` is a DEFERRED transaction, so an upsert is         *)
(*                                                                         *)
(*   1. a SELECT, which fixes the snapshot the transaction reads from, and *)
(*   2. its first write, which needs the write lock.  If any connection    *)
(*      committed anything since the snapshot, SQLite refuses the upgrade  *)
(*      (SQLITE_BUSY_SNAPSHOT) and the `?` rolls the transaction back.     *)
(*      Otherwise the lock is held to COMMIT, so writes and commit are one *)
(*      step here.                                                         *)
(*                                                                         *)
(* A row's primary key is compute_doc_id(source, url, content_hash), a     *)
(* truncated SHA-256 taken as injective: DocIds are the pairs              *)
(* <<url, hash>>.  `removed_at` is written nowhere in the crawler, so a    *)
(* row is live when superseded_by is NULL.                                 *)
(***************************************************************************)
EXTENDS Integers

CONSTANTS Workers,  \* the open connections that upsert documents
          Urls,     \* (source_id, url) pairs
          Hashes,   \* contents
          Times,    \* cycle start times, stamped into fetched_at
          NoDoc,    \* SQL NULL in superseded_by
          NoHash    \* no live content (of the abstract VersionHistory)

DocIds == Urls \X Hashes

ASSUME NoDocAssumption  == NoDoc \notin DocIds
ASSUME NoHashAssumption == NoHash \notin Hashes
ASSUME TimesAssumption  == Times \subseteq Nat

VARIABLES
  rowid,          \* rowid[d]: SQLite rowid of the row with key d, 0 = no row
  lastRowid,      \* the largest rowid handed out
  superseded_by,  \* superseded_by[d]: the successor's key, or NoDoc
  fetched_at,     \* fetched_at[d]: the stamp of the last fetch of that row
  txn             \* txn[w]: the open transaction of connection w, if any

table == <<rowid, lastRowid, superseded_by, fetched_at>>
vars  == <<rowid, lastRowid, superseded_by, fetched_at, txn>>

NoTxn == [open |-> FALSE, doc |-> NoDoc, now |-> 0, prev |-> NoDoc, stale |-> FALSE]

Txns == [open : BOOLEAN, doc : DocIds \cup {NoDoc}, now : Times \cup {0},
         prev : DocIds \cup {NoDoc},   \* the live row the SELECT returned
         stale : BOOLEAN]              \* somebody committed since the SELECT

Present(d)  == rowid[d] # 0
Live(d)     == Present(d) /\ superseded_by[d] = NoDoc
LiveRows(u) == {d \in DocIds : d[1] = u /\ Live(d)}
-----------------------------------------------------------------------------
Init ==
  /\ rowid = [d \in DocIds |-> 0]
  /\ lastRowid = 0
  /\ superseded_by = [d \in DocIds |-> NoDoc]
  /\ fetched_at = [d \in DocIds |-> 0]
  /\ txn = [w \in Workers |-> NoTxn]

\* BEGIN DEFERRED; SELECT the live row of (source_id, url).
BeginUpsert(w, d, t) ==
  /\ ~txn[w].open
  /\ \E p \in IF LiveRows(d[1]) = {} THEN {NoDoc} ELSE LiveRows(d[1]) :
       txn' = [txn EXCEPT ![w] = [open |-> TRUE, doc |-> d, now |-> t,
                                  prev |-> p, stale |-> FALSE]]
  /\ UNCHANGED table

\* The upgrade to a write transaction succeeds: the snapshot is current.
MayWrite(w) == txn[w].open /\ ~txn[w].stale

\* Mutant: INSERT OR REPLACE, so an existing key is no obstacle.
InsertOkReplace(d, prev) == LiveRows(d[1]) \subseteq {prev}

\* insert_document passes the PRIMARY KEY and, the previous row being
\* flipped first, the partial UNIQUE index on the live rows of the url.
InsertOk(d, prev) == ~Present(d) /\ LiveRows(d[1]) \subseteq {prev}

\* insert_document: the new row, with superseded_by NULL.
InsertRow(d, t) ==
  /\ rowid' = [rowid EXCEPT ![d] = lastRowid + 1]
  /\ lastRowid' = lastRowid + 1
  /\ fetched_at' = [fetched_at EXCEPT ![d] = t]

\* Mutant: the SELECT runs outside the transaction, so nothing goes stale.
AfterCommitNoSnapshot(w) == [txn EXCEPT ![w] = NoTxn]

\* A commit by w invalidates the snapshot of every other open transaction.
AfterCommit(w) ==
  [v \in Workers |->
     IF v = w \/ ~txn[v].open THEN NoTxn ELSE [txn[v] EXCEPT !.stale = TRUE]]

Rollback(w) == /\ txn' = [txn EXCEPT ![w] = NoTxn]
               /\ UNCHANGED table

\* Same hash as the live row: touch fetched_at.
CommitUnchanged(w) ==
  /\ MayWrite(w)
  /\ txn[w].prev = txn[w].doc
  /\ fetched_at' = [fetched_at EXCEPT ![txn[w].prev] = txn[w].now]
  /\ UNCHANGED <<rowid, lastRowid, superseded_by>>
  /\ txn' = AfterCommit(w)

\* Mutant: INSERT OR IGNORE, so a key that exists keeps its old row.
CommitSupersededOrIgnore(w) ==
  /\ MayWrite(w)
  /\ txn[w].prev \notin {NoDoc, txn[w].doc}
  /\ superseded_by' = [superseded_by EXCEPT ![txn[w].prev] = txn[w].doc]
  /\ IF Present(txn[w].doc) THEN UNCHANGED <<rowid, lastRowid, fetched_at>>
                             ELSE InsertRow(txn[w].doc, txn[w].now)
  /\ txn' = AfterCommit(w)

\* Different hash: the old row points at the new key, then the INSERT.
CommitSuperseded(w) ==
  /\ MayWrite(w)
  /\ txn[w].prev \notin {NoDoc, txn[w].doc}
  /\ InsertOk(txn[w].doc, txn[w].prev)
  /\ superseded_by' = [superseded_by EXCEPT ![txn[w].prev] = txn[w].doc]
  /\ InsertRow(txn[w].doc, txn[w].now)
  /\ txn' = AfterCommit(w)

\* No live row for the url: straight INSERT.
CommitInserted(w) ==
  /\ MayWrite(w)
  /\ txn[w].prev = NoDoc
  /\ InsertOk(txn[w].doc, NoDoc)
  /\ InsertRow(txn[w].doc, txn[w].now)
  /\ UNCHANGED superseded_by
  /\ txn' = AfterCommit(w)

\* The INSERT breaks a constraint; the flip of the old row is undone too.
ConstraintError(w) ==
  /\ MayWrite(w)
  /\ txn[w].prev # txn[w].doc
  /\ ~InsertOk(txn[w].doc, txn[w].prev)
  /\ Rollback(w)

\* SQLITE_BUSY (stale snapshot, or the lock not granted in time), an I/O
\* error, or the process dying before COMMIT.
AbortUpsert(w) == txn[w].open /\ Rollback(w)

\* Any other statement of the daemon or a CLI that commits: fetch_events,
\* sources, poll_cycles, chunks, repair_queue.
OtherCommit ==
  /\ \E w \in Workers : MayWrite(w)
  /\ txn' = [w \in Workers |-> IF txn[w].open
                              THEN [txn[w] EXCEPT !.stale = TRUE] ELSE txn[w]]
  /\ UNCHANGED table

Next ==
  \/ \E w \in Workers, d \in DocIds, t \in Times : BeginUpsert(w, d, t)
  \/ \E w \in Workers : \/ CommitUnchanged(w)
                        \/ CommitSuperseded(w)
                        \/ CommitInserted(w)
                        \/ ConstraintError(w)
                        \/ AbortUpsert(w)
  \/ OtherCommit

Spec == Init /\ [][Next]_vars
-----------------------------------------------------------------------------
(* Type invariant of the table and of the connections that write to it.    *)
TypeOK ==
  /\ rowid \in [DocIds -> Nat]
  /\ lastRowid \in Nat
  /\ superseded_by \in [DocIds -> DocIds \cup {NoDoc}]
  /\ fetched_at \in [DocIds -> Nat]
  /\ txn \in [Workers -> Txns]
  /\ \A w \in Workers : txn[w].open => txn[w].doc \in DocIds

(* store.rs invariant 3, and its missing half: a url never has two live    *)
(* rows, and once it has a row it never loses its live one, whatever the   *)
(* interleaving of upserts, constraint errors and aborted transactions.    *)
OneLiveVersion ==
  /\ \A c, d \in DocIds : Live(c) /\ Live(d) /\ c[1] = d[1] => c = d
  /\ \A d \in DocIds : Present(d) => \E c \in DocIds : c[1] = d[1] /\ Live(c)

(* store.rs invariant 5: superseded_by leads to a later row of the same    *)
(* url (so following it ends: no cycles), and two rows never share a       *)
(* successor (no merges).                                                  *)
SupersedeDag ==
  /\ \A d \in DocIds : superseded_by[d] # NoDoc =>
        /\ Present(d) /\ Present(superseded_by[d])
        /\ superseded_by[d][1] = d[1]
        /\ rowid[d] < rowid[superseded_by[d]]
  /\ \A c, d \in DocIds :
        superseded_by[c] # NoDoc /\ superseded_by[c] = superseded_by[d] => c = d

(* The write decision of upsert_document is made on what the SELECT saw:   *)
(* while a transaction may still write, the row it read is still the live  *)
(* row of its url (so no upsert acts on a version another worker already   *)
(* replaced).                                                              *)
DecisionIsCurrent ==
  \A w \in Workers : MayWrite(w) =>
     LiveRows(txn[w].doc[1]) = {txn[w].prev} \ {NoDoc}

(* Revision history is an audit trail: no step deletes or renumbers a row, *)
(* or redirects a successor that is already set.                           *)
HistoryImmutable ==
  [][\A d \in DocIds :
       /\ Present(d) => rowid'[d] = rowid[d]
       /\ superseded_by[d] # NoDoc => superseded_by'[d] = superseded_by[d]]_vars

(* The table implements the version history its readers rely on.           *)
VH == INSTANCE VersionHistory WITH
        history <- [u \in Urls |-> {h \in Hashes : Present(<<u, h>>)}],
        current <- [u \in Urls |->
                      IF \E h \in Hashes : Live(<<u, h>>)
                      THEN CHOOSE h \in Hashes : Live(<<u, h>>)
                      ELSE NoHash]
ImplementsVersionHistory == VH!Spec

(* store.rs:501 says of an upsert: "same url + different hash -> new row,  *)
(* old gets superseded".  So a write that is let through (its snapshot is  *)
(* current) with a hash other than the live one finds its INSERT legal.    *)
DifferentHashSupersedes ==
  \A w \in Workers :
    MayWrite(w) /\ txn[w].prev \notin {NoDoc, txn[w].doc}
      => InsertOk(txn[w].doc, txn[w].prev)
=============================================================================
