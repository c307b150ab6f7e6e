--------------------------- MODULE DocStoreProofs ---------------------------
(***************************************************************************)
(* What DocStore.cfg checks on two connections, proved for any set of      *)
(* connections, urls and contents.  The inductive invariant joins the      *)
(* three safety invariants with a bound on the rowids handed out: without  *)
(* DecisionIsCurrent a commit could flip a row that is no longer live, and *)
(* without RowidBound a new row need not be later than the one it          *)
(* replaces, so none of them is inductive alone.                           *)
(***************************************************************************)
EXTENDS DocStore, TLAPS

RowidBound == \A d \in DocIds : rowid[d] <= lastRowid

IInv == TypeOK /\ OneLiveVersion /\ SupersedeDag /\ DecisionIsCurrent /\ RowidBound

(* What an open transaction holds.                                         *)
LEMMA TxnFields ==
  ASSUME TypeOK, NEW w \in Workers, txn[w].open
  PROVE  /\ txn[w].doc \in DocIds
         /\ txn[w].now \in Nat
         /\ txn[w].prev \in DocIds \cup {NoDoc}
<1>1. txn[w] \in Txns /\ txn[w].doc \in DocIds
  BY DEF TypeOK
<1>2. txn[w].now \in Times \cup {0}
  BY <1>1 DEF Txns
<1>3. txn[w].prev \in DocIds \cup {NoDoc}
  BY <1>1 DEF Txns
<1>4. Times \cup {0} \subseteq Nat
  BY TimesAssumption
<1> QED
  BY <1>1, <1>2, <1>3, <1>4

(* After any commit every transaction that is still open is stale.         *)
LEMMA CommitStales ==
  ASSUME TypeOK, NEW w \in Workers, txn' = AfterCommit(w)
  PROVE  /\ txn' \in [Workers -> Txns]
         /\ \A v \in Workers : txn'[v].open => txn'[v].doc \in DocIds
         /\ \A v \in Workers : ~(txn'[v].open /\ ~txn'[v].stale)
<1>1. ASSUME NEW v \in Workers
      PROVE  /\ txn'[v] \in Txns
             /\ txn'[v].open => txn'[v].doc \in DocIds
             /\ ~(txn'[v].open /\ ~txn'[v].stale)
  <2>1. CASE v = w \/ ~txn[v].open
    BY <2>1 DEF AfterCommit, NoTxn, Txns
  <2>2. CASE ~(v = w \/ ~txn[v].open)
    <3>1. txn'[v] = [txn[v] EXCEPT !.stale = TRUE]
      BY <2>2 DEF AfterCommit
    <3> QED
      BY <3>1, <2>2, ZenonT(60) DEF TypeOK, Txns
  <2> QED
    BY <2>1, <2>2
<1> QED
  BY <1>1 DEF AfterCommit

(* Type correctness of the documents table and its transactions, for every *)
(* number of connections, urls and contents.                               *)
THEOREM TypeCorrect == Spec => []TypeOK
<1>1. Init => TypeOK
  BY DEF Init, TypeOK, NoTxn, Txns
<1>2. TypeOK /\ [Next]_vars => TypeOK'
  <2> SUFFICES ASSUME TypeOK, [Next]_vars PROVE TypeOK'
    OBVIOUS
  <2>1. ASSUME NEW w \in Workers, NEW d \in DocIds, NEW t \in Times,
               BeginUpsert(w, d, t)
        PROVE  TypeOK'
    BY <2>1 DEF BeginUpsert, TypeOK, table, Txns, LiveRows
  <2>2. ASSUME NEW w \in Workers, CommitUnchanged(w)
        PROVE  TypeOK'
    <3>1. /\ txn' \in [Workers -> Txns]
          /\ \A v \in Workers : txn'[v].open => txn'[v].doc \in DocIds
      BY <2>2, CommitStales DEF CommitUnchanged
    <3>2. txn[w].doc \in DocIds /\ txn[w].now \in Nat
      BY <2>2, TxnFields DEF CommitUnchanged, MayWrite
    <3> QED
      BY <2>2, <3>1, <3>2 DEF CommitUnchanged, TypeOK
  <2>3. ASSUME NEW w \in Workers, CommitSuperseded(w)
        PROVE  TypeOK'
    <3>1. /\ txn' \in [Workers -> Txns]
          /\ \A v \in Workers : txn'[v].open => txn'[v].doc \in DocIds
      BY <2>3, CommitStales DEF CommitSuperseded
    <3>2. txn[w].doc \in DocIds /\ txn[w].now \in Nat
      BY <2>3, TxnFields DEF CommitSuperseded, MayWrite
    <3> QED
      <4>1. superseded_by' \in [DocIds -> DocIds \cup {NoDoc}]
        BY <2>3, <3>2 DEF CommitSuperseded, TypeOK
      <4> QED
        BY <2>3, <3>1, <3>2, <4>1 DEF CommitSuperseded, InsertRow, TypeOK
  <2>4. ASSUME NEW w \in Workers, CommitInserted(w)
        PROVE  TypeOK'
    <3>1. /\ txn' \in [Workers -> Txns]
          /\ \A v \in Workers : txn'[v].open => txn'[v].doc \in DocIds
      BY <2>4, CommitStales DEF CommitInserted
    <3>2. txn[w].doc \in DocIds /\ txn[w].now \in Nat
      BY <2>4, TxnFields DEF CommitInserted, MayWrite
    <3> QED
      BY <2>4, <3>1, <3>2 DEF CommitInserted, InsertRow, TypeOK
  <2>5. ASSUME NEW w \in Workers, Rollback(w)
        PROVE  TypeOK'
    BY <2>5 DEF Rollback, TypeOK, table, Txns, NoTxn
  <2>6. ASSUME OtherCommit
        PROVE  TypeOK'
    BY <2>6, ZenonT(60) DEF OtherCommit, TypeOK, Txns, table
  <2>7. CASE UNCHANGED vars
    BY <2>7 DEF vars, TypeOK
  <2> QED
    BY <2>1, <2>2, <2>3, <2>4, <2>5, <2>6, <2>7
       DEF Next, ConstraintError, AbortUpsert
<1> QED
  BY <1>1, <1>2, PTL DEF Spec

-----------------------------------------------------------------------------
(* The commits that leave the set of rows and their successors alone keep  *)
(* every part of the invariant that speaks of the table.                   *)
LEMMA TableUnchanged ==
  ASSUME IInv, TypeOK', UNCHANGED <<rowid, lastRowid, superseded_by>>
  PROVE  /\ OneLiveVersion' /\ SupersedeDag' /\ RowidBound'
         /\ \A u : LiveRows(u)' = LiveRows(u)
BY DEF IInv, OneLiveVersion, SupersedeDag, RowidBound, LiveRows, Live, Present

(* A row that may be inserted is on no successor chain yet.                *)
LEMMA FreshRow ==
  ASSUME IInv, NEW d \in DocIds, ~Present(d)
  PROVE  /\ superseded_by[d] = NoDoc
         /\ \A c \in DocIds : superseded_by[c] # d
BY NoDocAssumption DEF IInv, SupersedeDag, TypeOK

LEMMA SupersedeStep ==
  ASSUME IInv, TypeOK', NEW w \in Workers, CommitSuperseded(w)
  PROVE  OneLiveVersion' /\ SupersedeDag' /\ RowidBound'
<1>1. PICK d \in DocIds, p \in DocIds :
        /\ d = txn[w].doc /\ p = txn[w].prev /\ p # d
        /\ ~Present(d) /\ superseded_by[d] = NoDoc
        /\ \A c \in DocIds : superseded_by[c] # d
  BY TxnFields, FreshRow DEF IInv, CommitSuperseded, MayWrite, InsertOk
<1>2. LiveRows(d[1]) = {p}
  BY <1>1, NoDocAssumption DEF IInv, DecisionIsCurrent, CommitSuperseded
<1>3. Live(p) /\ p[1] = d[1] /\ \A c \in DocIds : c[1] = d[1] /\ Live(c) => c = p
  BY <1>2 DEF LiveRows
<1>4. /\ rowid' = [rowid EXCEPT ![d] = lastRowid + 1]
      /\ lastRowid' = lastRowid + 1
      /\ superseded_by' = [superseded_by EXCEPT ![p] = d]
  BY <1>1 DEF CommitSuperseded, InsertRow
<1>5. /\ rowid \in [DocIds -> Nat] /\ lastRowid \in Nat
      /\ superseded_by \in [DocIds -> DocIds \cup {NoDoc}]
  BY DEF IInv, TypeOK
<1>6. /\ Live(d)' /\ ~Live(p)'
      /\ \A c \in DocIds : c \notin {d, p} => (Live(c)' <=> Live(c))
      /\ \A c \in DocIds : Present(c)' <=> Present(c) \/ c = d
  <2>1. /\ rowid'[d] = lastRowid + 1 /\ superseded_by'[d] = NoDoc
        /\ superseded_by'[p] = d /\ d # NoDoc
    BY <1>1, <1>4, <1>5, NoDocAssumption
  <2>2. \A c \in DocIds : c # d => rowid'[c] = rowid[c]
    BY <1>4, <1>5
  <2>3. \A c \in DocIds : c # p => superseded_by'[c] = superseded_by[c]
    BY <1>4, <1>5
  <2> QED
    BY <2>1, <2>2, <2>3, <1>1, <1>5 DEF Live, Present
<1>7. OneLiveVersion'
  <2>1. \A c \in DocIds : Live(c)' /\ c[1] = d[1] => c = d
    BY <1>1, <1>3, <1>6
  <2>2. \A c, e \in DocIds : Live(c)' /\ Live(e)' /\ c[1] = e[1] => c = e
    <3> SUFFICES ASSUME NEW c \in DocIds, NEW e \in DocIds,
                        Live(c)', Live(e)', c[1] = e[1]
                 PROVE  c = e
      OBVIOUS
    <3>1. CASE c[1] = d[1]
      BY <3>1, <2>1
    <3>2. CASE c[1] # d[1]
      BY <3>2, <1>3, <1>6 DEF IInv, OneLiveVersion
    <3> QED
      BY <3>1, <3>2
  <2>3. \A e \in DocIds : Present(e)' => \E c \in DocIds : c[1] = e[1] /\ Live(c)'
    <3> SUFFICES ASSUME NEW e \in DocIds, Present(e)'
                 PROVE  \E c \in DocIds : c[1] = e[1] /\ Live(c)'
      OBVIOUS
    <3>1. CASE e[1] = d[1]
      BY <3>1, <1>1, <1>6
    <3>2. CASE e[1] # d[1]
      <4>1. PICK c \in DocIds : c[1] = e[1] /\ Live(c)
        BY <3>2, <1>6 DEF IInv, OneLiveVersion
      <4> QED
        BY <4>1, <3>2, <1>3, <1>6
    <3> QED
      BY <3>1, <3>2
  <2> QED
    BY <2>2, <2>3 DEF OneLiveVersion
<1>8. SupersedeDag'
  <2>1. ASSUME NEW c \in DocIds, superseded_by'[c] # NoDoc
        PROVE  /\ Present(c)' /\ Present(superseded_by[c])'
               /\ superseded_by'[c][1] = c[1]
               /\ rowid'[c] < rowid'[superseded_by'[c]]
    <3>1. CASE c = p
      BY <3>1, <1>1, <1>3, <1>4, <1>5, <1>6 DEF IInv, RowidBound, Live, Present
    <3>2. CASE c # p
      BY <3>2, <2>1, <1>1, <1>4, <1>5, <1>6 DEF IInv, SupersedeDag, Present
    <3> QED
      BY <3>1, <3>2
  <2>2. ASSUME NEW c \in DocIds, NEW e \in DocIds,
               superseded_by'[c] # NoDoc, superseded_by'[c] = superseded_by'[e]
        PROVE  c = e
    BY <2>2, <1>1, <1>4, <1>5 DEF IInv, SupersedeDag
  <2> QED
    BY <2>1, <2>2 DEF SupersedeDag
<1>9. RowidBound'
  BY <1>1, <1>4, <1>5 DEF IInv, RowidBound
<1> QED
  BY <1>7, <1>8, <1>9

LEMMA InsertStep ==
  ASSUME IInv, TypeOK', NEW w \in Workers, CommitInserted(w)
  PROVE  OneLiveVersion' /\ SupersedeDag' /\ RowidBound'
<1>1. PICK d \in DocIds :
        /\ d = txn[w].doc /\ txn[w].prev = NoDoc
        /\ ~Present(d) /\ superseded_by[d] = NoDoc
        /\ \A c \in DocIds : superseded_by[c] # d
  BY TxnFields, FreshRow DEF IInv, CommitInserted, MayWrite, InsertOk
<1>2. \A c \in DocIds : c[1] = d[1] => ~Present(c)
  <2>1. LiveRows(d[1]) = {}
    BY <1>1 DEF IInv, DecisionIsCurrent, CommitInserted
  <2> QED
    BY <2>1 DEF LiveRows, IInv, OneLiveVersion
<1>3. /\ rowid' = [rowid EXCEPT ![d] = lastRowid + 1]
      /\ lastRowid' = lastRowid + 1
      /\ superseded_by' = superseded_by
  BY <1>1 DEF CommitInserted, InsertRow
<1>4. /\ rowid \in [DocIds -> Nat] /\ lastRowid \in Nat
      /\ superseded_by \in [DocIds -> DocIds \cup {NoDoc}]
  BY DEF IInv, TypeOK
<1>5. /\ Live(d)' /\ Present(d)'
      /\ \A c \in DocIds : c # d => (Live(c)' <=> Live(c)) /\ (Present(c)' <=> Present(c))
  BY <1>1, <1>3, <1>4 DEF Live, Present
<1>6. OneLiveVersion'
  <2>1. \A c, e \in DocIds : Live(c)' /\ Live(e)' /\ c[1] = e[1] => c = e
    <3>1. \A c \in DocIds : Live(c)' /\ c[1] = d[1] => c = d
      BY <1>2, <1>5 DEF Live
    <3>2. \A c, e \in DocIds :
             c # d /\ e # d /\ Live(c)' /\ Live(e)' /\ c[1] = e[1] => c = e
      BY <1>5 DEF IInv, OneLiveVersion
    <3> QED
      BY <3>1, <3>2
  <2>2. \A e \in DocIds : Present(e)' => \E c \in DocIds : c[1] = e[1] /\ Live(c)'
    <3> SUFFICES ASSUME NEW e \in DocIds, Present(e)', e # d
                 PROVE  \E c \in DocIds : c[1] = e[1] /\ Live(c)'
      BY <1>5
    <3>1. PICK c \in DocIds : c[1] = e[1] /\ Live(c)
      BY <1>5 DEF IInv, OneLiveVersion
    <3> QED
      BY <3>1, <1>1, <1>5 DEF Live
  <2> QED
    BY <2>1, <2>2 DEF OneLiveVersion
<1>7. SupersedeDag'
  <2>1. ASSUME NEW c \in DocIds, superseded_by'[c] # NoDoc
        PROVE  /\ Present(c)' /\ Present(superseded_by[c])'
               /\ superseded_by'[c][1] = c[1]
               /\ rowid'[c] < rowid'[superseded_by'[c]]
    BY <2>1, <1>1, <1>3, <1>4 DEF IInv, SupersedeDag, Present
  <2>2. \A c, e \in DocIds :
           superseded_by'[c] # NoDoc /\ superseded_by'[c] = superseded_by'[e] => c = e
    BY <1>3 DEF IInv, SupersedeDag
  <2> QED
    BY <2>1, <2>2 DEF SupersedeDag
<1>8. RowidBound'
  BY <1>1, <1>3, <1>4 DEF IInv, RowidBound
<1> QED
  BY <1>6, <1>7, <1>8

(* A step that only opens, closes or stales transactions keeps             *)
(* DecisionIsCurrent when every transaction that may still write could     *)
(* before.                                                                 *)
LEMMA FewerWriters ==
  ASSUME IInv, UNCHANGED table,
         \A v \in Workers : MayWrite(v)' =>
            MayWrite(v) /\ txn'[v].doc = txn[v].doc /\ txn'[v].prev = txn[v].prev
  PROVE  DecisionIsCurrent'
BY DEF IInv, DecisionIsCurrent, LiveRows, Live, Present, table

LEMMA Inductive == IInv /\ [Next]_vars /\ TypeOK' => IInv'
<1> SUFFICES ASSUME IInv, [Next]_vars, TypeOK' PROVE IInv'
  OBVIOUS
<1>1. ASSUME NEW w \in Workers, NEW d \in DocIds, NEW t \in Times, BeginUpsert(w, d, t)
      PROVE  IInv'
  <2>1. UNCHANGED table /\ txn \in [Workers -> Txns]
    BY <1>1 DEF BeginUpsert, IInv, TypeOK
  <2>2. PICK p \in IF LiveRows(d[1]) = {} THEN {NoDoc} ELSE LiveRows(d[1]) :
          txn' = [txn EXCEPT ![w] = [open |-> TRUE, doc |-> d, now |-> t,
                                     prev |-> p, stale |-> FALSE]]
    BY <1>1 DEF BeginUpsert
  <2>3. LiveRows(d[1]) = {p} \ {NoDoc}
    <3>1. CASE LiveRows(d[1]) = {}
      BY <2>2, <3>1
    <3>2. CASE LiveRows(d[1]) # {}
      BY <2>2, <3>2, NoDocAssumption DEF LiveRows, IInv, OneLiveVersion
    <3> QED
      BY <3>1, <3>2
  <2>5. DecisionIsCurrent'
    <3> SUFFICES ASSUME NEW v \in Workers, MayWrite(v)'
                 PROVE  (LiveRows(txn[v].doc[1]) = {txn[v].prev} \ {NoDoc})'
      BY DEF DecisionIsCurrent
    <3>1. CASE v = w
      <4>1. txn'[v].doc = d /\ txn'[v].prev = p
        BY <3>1, <2>1, <2>2
      <4> QED
        BY <4>1, <2>1, <2>3 DEF LiveRows, Live, Present, table
    <3>2. CASE v # w
      <4>1. txn'[v] = txn[v] /\ MayWrite(v)
        BY <3>2, <2>1, <2>2 DEF MayWrite
      <4>2. LiveRows(txn[v].doc[1]) = {txn[v].prev} \ {NoDoc}
        BY <4>1 DEF IInv, DecisionIsCurrent
      <4> QED
        BY <4>1, <4>2, <2>1 DEF LiveRows, Live, Present, table
    <3> QED
      BY <3>1, <3>2
  <2> QED
    BY <2>1, <2>5, TableUnchanged DEF IInv, table
<1>2. ASSUME NEW w \in Workers, CommitUnchanged(w)
      PROVE  IInv'
  BY <1>2, TableUnchanged, CommitStales
     DEF CommitUnchanged, IInv, DecisionIsCurrent, MayWrite
<1>3. ASSUME NEW w \in Workers, CommitSuperseded(w)
      PROVE  IInv'
  BY <1>3, SupersedeStep, CommitStales
     DEF CommitSuperseded, IInv, DecisionIsCurrent, MayWrite
<1>4. ASSUME NEW w \in Workers, CommitInserted(w)
      PROVE  IInv'
  BY <1>4, InsertStep, CommitStales
     DEF CommitInserted, IInv, DecisionIsCurrent, MayWrite
<1>5. ASSUME NEW w \in Workers, Rollback(w)
      PROVE  IInv'
  <2>1. \A v \in Workers : MayWrite(v)' => v # w /\ txn'[v] = txn[v]
    BY <1>5 DEF Rollback, MayWrite, NoTxn, IInv, TypeOK
  <2> QED
    BY <1>5, <2>1, FewerWriters, TableUnchanged DEF Rollback, IInv, MayWrite, table
<1>6. ASSUME OtherCommit
      PROVE  IInv'
  <2>1. \A v \in Workers : ~MayWrite(v)'
    BY <1>6 DEF OtherCommit, MayWrite, IInv, TypeOK, Txns
  <2> QED
    BY <1>6, <2>1, TableUnchanged DEF OtherCommit, IInv, DecisionIsCurrent, table
<1>7. CASE UNCHANGED vars
  <2>1. UNCHANGED table /\ txn' = txn
    BY <1>7 DEF vars, table
  <2> QED
    BY <2>1, FewerWriters, TableUnchanged DEF IInv, MayWrite, table
<1> QED
  BY <1>1, <1>2, <1>3, <1>4, <1>5, <1>6, <1>7
     DEF Next, ConstraintError, AbortUpsert

LEMMA InvariantHolds == Spec => []IInv
<1>1. Init => IInv
  BY DEF Init, IInv, TypeOK, OneLiveVersion, SupersedeDag, DecisionIsCurrent,
         RowidBound, Live, Present, MayWrite, NoTxn, Txns
<1> QED
  BY <1>1, Inductive, TypeCorrect, PTL DEF Spec

(* At most one live row per url and never none once the url has a row:     *)
(* the ux_documents_source_url_live contract, for any number of workers    *)
(* upserting at once.                                                      *)
THEOREM OneLive == Spec => []OneLiveVersion
BY InvariantHolds, PTL DEF IInv

(* superseded_by is a forest of chains: every successor is a later row of  *)
(* the same url, no cycles and no merges.                                  *)
THEOREM SupersedeChains == Spec => []SupersedeDag
BY InvariantHolds, PTL DEF IInv

(* The row an upsert read is still the live one when it may write.         *)
THEOREM DecisionsCurrent == Spec => []DecisionIsCurrent
BY InvariantHolds, PTL DEF IInv

LEMMA ImmutableStep ==
  ASSUME IInv, [Next]_vars, NEW d \in DocIds
  PROVE  /\ Present(d) => rowid'[d] = rowid[d]
         /\ superseded_by[d] # NoDoc => superseded_by'[d] = superseded_by[d]
<1> USE DEF IInv, TypeOK
<1>1. ASSUME NEW w \in Workers, CommitSuperseded(w)
      PROVE  /\ Present(d) => rowid'[d] = rowid[d]
             /\ superseded_by[d] # NoDoc => superseded_by'[d] = superseded_by[d]
  <2>1. txn[w].prev \in LiveRows(txn[w].doc[1])
    BY <1>1, NoDocAssumption DEF CommitSuperseded, DecisionIsCurrent
  <2>2. superseded_by[txn[w].prev] = NoDoc
    BY <2>1 DEF LiveRows, Live
  <2> QED
    BY <1>1, <2>2 DEF CommitSuperseded, InsertOk, InsertRow, Present
<1>2. ASSUME NEW w \in Workers, CommitInserted(w)
      PROVE  /\ Present(d) => rowid'[d] = rowid[d]
             /\ superseded_by'[d] = superseded_by[d]
  BY <1>2 DEF CommitInserted, InsertOk, InsertRow, Present
<1>3. CASE UNCHANGED <<rowid, superseded_by>>
  BY <1>3
<1> QED
  BY <1>1, <1>2, <1>3
     DEF Next, BeginUpsert, CommitUnchanged, ConstraintError, AbortUpsert,
         Rollback, OtherCommit, table, vars

(* The revision history is append-only: no upsert, error or abort deletes  *)
(* or renumbers a row or redirects a successor.                            *)
THEOREM HistoryIsImmutable == Spec => HistoryImmutable
<1>1. IInv /\ [Next]_vars =>
        [\A d \in DocIds :
           /\ Present(d) => rowid'[d] = rowid[d]
           /\ superseded_by[d] # NoDoc => superseded_by'[d] = superseded_by[d]]_vars
  BY ImmutableStep
<1> QED
  BY <1>1, InvariantHolds, PTL DEF Spec, HistoryImmutable

-----------------------------------------------------------------------------
(* The step part of the refinement: how each action moves the history and  *)
(* the current version that VH reads off the table.                        *)
HistoryOf == [u \in Urls |-> {h \in Hashes : Present(<<u, h>>)}]
CurrentOf == [u \in Urls |-> IF \E h \in Hashes : Live(<<u, h>>)
                             THEN CHOOSE h \in Hashes : Live(<<u, h>>)
                             ELSE NoHash]

LEMMA TableStutters ==
  ASSUME UNCHANGED <<rowid, superseded_by>>
  PROVE  UNCHANGED <<HistoryOf, CurrentOf>>
BY DEF HistoryOf, CurrentOf, Present, Live

(* A commit after which d is the only live row of its url, and the only    *)
(* new one, publishes its hash.                                            *)
LEMMA RowPublishes ==
  ASSUME NEW u \in Urls, NEW h \in Hashes, ~Present(<<u, h>>),
         \A c \in DocIds : Present(c)' <=> Present(c) \/ c = <<u, h>>,
         \A k \in Hashes : Live(<<u, k>>)' <=> k = h,
         \A c \in DocIds : c[1] # u => (Live(c)' <=> Live(c))
  PROVE  /\ h \notin HistoryOf[u]
         /\ HistoryOf' = [HistoryOf EXCEPT ![u] = @ \cup {h}]
         /\ CurrentOf' = [CurrentOf EXCEPT ![u] = h]
<1> DEFINE LiveHash(v, k) == Live(<<v, k>>)
<1>1. \A v \in Urls, k \in Hashes : <<v, k>> \in DocIds /\ <<v, k>>[1] = v
  BY DEF DocIds
<1>2. \A v \in Urls : {k \in Hashes : Present(<<v, k>>)'} =
         IF v = u THEN {k \in Hashes : Present(<<v, k>>)} \cup {h}
                  ELSE {k \in Hashes : Present(<<v, k>>)}
  BY <1>1
<1>3. HistoryOf' = [HistoryOf EXCEPT ![u] = @ \cup {h}]
  BY <1>2 DEF HistoryOf
<1>4. CurrentOf'[u] = h
  <2>1. (CHOOSE k \in Hashes : Live(<<u, k>>)') = h
    OBVIOUS
  <2> QED
    BY <2>1 DEF CurrentOf
<1>5. ASSUME NEW v \in Urls, v # u
      PROVE  CurrentOf'[v] = CurrentOf[v]
  <2>1. \A k \in Hashes : Live(<<v, k>>)' <=> Live(<<v, k>>)
    BY <1>1, <1>5
  <2>2. (CHOOSE k \in Hashes : Live(<<v, k>>)') = (CHOOSE k \in Hashes : Live(<<v, k>>))
    BY <2>1
  <2> QED
    BY <2>1, <2>2 DEF CurrentOf
<1> QED
  BY <1>3, <1>4, <1>5 DEF CurrentOf, HistoryOf

(* The documents table implements VersionHistory: every commit publishes   *)
(* one new content of one url or changes nothing a reader can see.         *)
THEOREM Refinement == Spec => ImplementsVersionHistory
<1>1. Init => VH!Init
  BY ZenonT(60) DEF Init, VH!Init, Present, Live, DocIds
<1>2. IInv /\ IInv' /\ [Next]_vars => [VH!Next]_(VH!vhVars)
  <2> SUFFICES ASSUME IInv, IInv', [Next]_vars
               PROVE  \/ VH!Next
                      \/ UNCHANGED <<HistoryOf, CurrentOf>>
    BY DEF VH!vhVars, HistoryOf, CurrentOf
  <2>1. ASSUME NEW w \in Workers, CommitSuperseded(w) \/ CommitInserted(w)
        PROVE  VH!Next
    <3>1. PICK u \in Urls, h \in Hashes : txn[w].doc = <<u, h>>
      BY <2>1, TxnFields DEF CommitSuperseded, CommitInserted, MayWrite, IInv, DocIds
    <3>2. /\ ~Present(<<u, h>>)
          /\ rowid' = [rowid EXCEPT ![<<u, h>>] = lastRowid + 1]
          /\ <<u, h>> \in DocIds
      BY <2>1, <3>1 DEF CommitSuperseded, CommitInserted, InsertOk, InsertRow, DocIds
    <3>3. \A c \in DocIds : Present(c)' <=> Present(c) \/ c = <<u, h>>
      BY <3>2 DEF Present, IInv, TypeOK
    <3>4. \A c \in DocIds : c # <<u, h>> /\ c # txn[w].prev => superseded_by'[c] = superseded_by[c]
      BY <2>1 DEF CommitSuperseded, CommitInserted, IInv, TypeOK
    <3>5. superseded_by'[<<u, h>>] = NoDoc
      BY <2>1, <3>1, <3>2, FreshRow DEF CommitSuperseded, CommitInserted, IInv, TypeOK
    <3>6. Live(<<u, h>>)'
      BY <3>2, <3>3, <3>5 DEF Live
    <3>7. \A k \in Hashes : Live(<<u, k>>)' <=> k = h
      BY <3>2, <3>6 DEF IInv, OneLiveVersion, DocIds
    <3>8. \A c \in DocIds : c[1] # u => (Live(c)' <=> Live(c))
      <4>1. txn[w].prev \in DocIds => txn[w].prev[1] = u
        BY <2>1, <3>1, NoDocAssumption DEF CommitSuperseded, CommitInserted, IInv,
              DecisionIsCurrent, LiveRows
      <4>2. \A c \in DocIds : c[1] # u => c # <<u, h>> /\ c # txn[w].prev
        BY <4>1
      <4> QED
        BY <3>3, <3>4, <4>2 DEF Live
    <3>9. /\ h \notin HistoryOf[u]
          /\ HistoryOf' = [HistoryOf EXCEPT ![u] = @ \cup {h}]
          /\ CurrentOf' = [CurrentOf EXCEPT ![u] = h]
      BY <3>2, <3>3, <3>7, <3>8, RowPublishes
    <3> QED
      BY <3>9 DEF VH!Next, VH!Publish, HistoryOf, CurrentOf
  <2>2. CASE UNCHANGED <<rowid, superseded_by>>
    BY <2>2, TableStutters
  <2> QED
    BY <2>1, <2>2
       DEF Next, BeginUpsert, CommitUnchanged, ConstraintError, AbortUpsert,
           Rollback, OtherCommit, table, vars
<1> QED
  BY <1>1, <1>2, InvariantHolds, PTL DEF Spec, ImplementsVersionHistory, VH!Spec
=============================================================================
