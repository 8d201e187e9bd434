------------------------- MODULE CaseLineageProofs --------------------------
(***************************************************************************)
(* Proofs about CaseLineage, for every number of sessions and versions and *)
(* every choice of the services and generators in use.                     *)
(*                                                                         *)
(* All writes have one shape: the rows that were there keep what a session *)
(* may remember of them, at most one row is added, and every lineage stays *)
(* held.  Fits names that shape; a write that fits keeps the invariant.    *)
(***************************************************************************)
EXTENDS CaseLineage, SequenceTheorems, TLAPS

\* R may replace rows in a commit.
Fits(R) ==
  /\ R \in Seq(Row)
  /\ Len(rows) <= Len(R) /\ Len(R) <= MaxRows
  /\ \A i \in 1 .. Len(rows) : /\ R[i].lineage = rows[i].lineage
                               /\ R[i].human = rows[i].human
                               /\ R[i].version = rows[i].version
  /\ \A i \in 1 .. Len(R) :
       R[i].parent < i /\ R[i].lineage <= i /\ R[i].version <= i
  /\ Held(R)

\* NoRow and Idle are what their sets say.
LEMMA IdleType == NoRow \in Row /\ Idle \in Txn
  BY MaxRowsAssumption DEF NoRow, Row, Idle, Txn

\* A commit whose rows fit keeps the invariant, whether or not the index accepts it.
LEMMA CommitKeeps ==
  ASSUME IInv, NEW s \in Sessions, NEW R, Fits(R), Commit(s, R)
  PROVE  IInv'
<1> rows \in Seq(Row) /\ Len(rows) \in Nat
  BY LenProperties DEF IInv, TypeOK
<1> R \in Seq(Row) /\ Len(R) \in Nat /\ DOMAIN R = 1 .. Len(R)
  BY LenProperties DEF Fits
<1>1. CASE ~OneCurrent(R)
  <2>1. rows' = rows /\ page' = page /\ txn' = [txn EXCEPT ![s] = Idle]
    BY <1>1 DEF Commit
  <2>2. TypeOK'
    BY <2>1, IdleType DEF IInv, TypeOK
  <2>3. \A u \in Sessions : Remembers(txn[u])'
    <3> SUFFICES ASSUME NEW u \in Sessions PROVE Remembers(txn[u])'
      OBVIOUS
    <3>1. CASE u = s
      <4>1. txn'[u] = Idle
        BY <2>1, <3>1 DEF IInv, TypeOK
      <4> QED
        BY <2>1, <4>1 DEF Remembers, Idle
    <3>2. CASE u # s
      <4>1. txn'[u] = txn[u]
        BY <2>1, <3>2 DEF IInv, TypeOK
      <4> QED
        BY <2>1, <4>1 DEF Remembers, IInv
    <3> QED
      BY <3>1, <3>2
  <2> QED
    BY <2>1, <2>2, <2>3 DEF IInv, OneCurrent, Held
<1>2. CASE OneCurrent(R)
  <2>1. rows' = R /\ page' = page /\ txn' = [txn EXCEPT ![s] = Idle]
    BY <1>2 DEF Commit
  <2>2. TypeOK'
    BY <2>1, IdleType DEF IInv, TypeOK, Fits
  <2>3. OneCurrent(rows)' /\ Held(rows)'
    BY <1>2, <2>1 DEF OneCurrent, Held, Fits
  <2>4. \A u \in Sessions : Remembers(txn[u])'
    <3> SUFFICES ASSUME NEW u \in Sessions PROVE Remembers(txn[u])'
      OBVIOUS
    <3>1. CASE u = s
      <4>1. txn'[u] = Idle
        BY <2>1, <3>1 DEF IInv, TypeOK
      <4> QED
        BY <2>1, <4>1 DEF Remembers, Idle
    <3>2. CASE u # s
      <4>1. txn'[u] = txn[u]
        BY <2>1, <3>2 DEF IInv, TypeOK
      <4> DEFINE t == txn[u]
      <4>2. Remembers(t)
        BY DEF IInv
      <4>3. t.row \in 0 .. Len(R) /\ t.base \in 0 .. Len(R)
        BY <4>2 DEF Remembers, Fits
      <4>4. t.row # 0 => /\ t.seen.human = R[t.row].human
                         /\ t.seen.lineage = R[t.row].lineage
                         /\ t.seen.version = R[t.row].version
        BY <4>2 DEF Remembers, Fits
      <4>5. t.base # 0 => R[t.base].lineage = t.seen.lineage
        BY <4>2 DEF Remembers, Fits
      <4> QED
        BY <2>1, <4>1, <4>2, <4>3, <4>4, <4>5 DEF Remembers
    <3> QED
      BY <3>1, <3>2
  <2> QED
    BY <2>2, <2>3, <2>4 DEF IInv
<1> QED
  BY <1>1, <1>2

\* A session that loads a row of the table keeps the invariant.
LEMMA BeginKeeps ==
  ASSUME IInv, NEW s \in Sessions, NEW op, NEW source, NEW i, NEW base,
         op \in {"merge", "reuse", "edit", "resolve", "review"},
         source \in {"none"} \cup Sources,
         i \in 0 .. Len(rows), base \in 0 .. Len(rows),
         op # "merge" => i # 0,
         base # 0 => i # 0 /\ rows[base].lineage = rows[i].lineage,
         Begin(s, Load(op, source, i, base))
  PROVE  IInv'
<1> DEFINE t == Load(op, source, i, base)
<1>1. rows' = rows /\ page' = page /\ txn' = [txn EXCEPT ![s] = t]
  BY DEF Begin
<1>2. rows \in [1 .. Len(rows) -> Row] /\ Len(rows) \in Nat /\ Len(rows) <= MaxRows
  BY LenProperties DEF IInv, TypeOK
<1>3. t \in Txn
  BY <1>2, IdleType, MaxRowsAssumption DEF Load, Txn
<1>4. Remembers(t)
  BY <1>2 DEF Remembers, Load
<1>5. TypeOK'
  BY <1>1, <1>3 DEF IInv, TypeOK
<1>6. \A u \in Sessions : Remembers(txn[u])'
  <2> SUFFICES ASSUME NEW u \in Sessions PROVE Remembers(txn[u])'
    OBVIOUS
  <2>1. txn'[u] = IF u = s THEN t ELSE txn[u]
    BY <1>1 DEF IInv, TypeOK
  <2> QED
    BY <1>1, <1>4, <2>1 DEF Remembers, IInv
<1> QED
  BY <1>1, <1>5, <1>6 DEF IInv, OneCurrent, Held

----------------------------------------------------------------------------
(* The writes *)

\* The fields of the version a session forks from the row it loaded.
LEMMA ForkFields ==
  ASSUME IInv, NEW s \in Sessions, txn[s].row # 0, Len(rows) < MaxRows,
         NEW current \in BOOLEAN, NEW human \in BOOLEAN, NEW proposed \in BOOLEAN
  PROVE  LET t == txn[s]
             r == Fork(t.row, t.seen, current, human, proposed) IN
         /\ r \in Row
         /\ r.lineage = rows[t.row].lineage
         /\ r.current = current /\ r.human = human
         /\ r.parent <= Len(rows) /\ r.lineage <= Len(rows)
         /\ r.version <= Len(rows) + 1
<1> DEFINE t == txn[s]
<1>1. /\ rows \in [1 .. Len(rows) -> Row] /\ Len(rows) \in Nat /\ DOMAIN rows = 1 .. Len(rows)
      /\ t \in Txn /\ t.seen \in Row
  BY LenProperties DEF IInv, TypeOK, Txn
<1>2. /\ t.row \in 1 .. Len(rows)
      /\ t.seen.lineage = rows[t.row].lineage /\ t.seen.version = rows[t.row].version
  BY <1>1 DEF IInv, Remembers
<1>3. rows[t.row].lineage <= t.row /\ rows[t.row].version <= t.row
  BY <1>1, <1>2 DEF IInv, TypeOK
<1>4. t.seen.version \in 1 .. Len(rows) /\ t.seen.lineage \in 1 .. Len(rows)
  BY <1>1, <1>2, <1>3, MaxRowsAssumption DEF Row
<1> DEFINE r == Fork(t.row, t.seen, current, human, proposed)
<1>5. /\ r = [t.seen EXCEPT !.parent = t.row, !.version = @ + 1, !.current = current,
                            !.human = human, !.proposed = proposed]
      /\ t.row \in 0 .. MaxRows /\ t.seen.version + 1 \in 1 .. MaxRows
  BY <1>1, <1>2, <1>4, MaxRowsAssumption DEF Fork
<1>6. r \in Row
  BY <1>1, <1>5 DEF Row
<1>7. /\ r.lineage = t.seen.lineage /\ r.version = t.seen.version + 1
      /\ r.parent = t.row /\ r.current = current /\ r.human = human
  BY <1>1, <1>5 DEF Row
<1> QED
  BY <1>1, <1>2, <1>4, <1>6, <1>7

\* Retiring a row changes its current flag and nothing else.
LEMMA RetireRows ==
  ASSUME IInv, NEW i \in 1 .. Len(rows)
  PROVE  /\ Retire(i) \in Seq(Row)
         /\ Len(Retire(i)) = Len(rows)
         /\ \A j \in 1 .. Len(rows) :
              Retire(i)[j] = IF j = i THEN [rows[i] EXCEPT !.current = FALSE] ELSE rows[j]
<1>1. rows \in Seq(Row) /\ rows[i] \in Row
  BY LenProperties DEF IInv, TypeOK
<1>2. [rows[i] EXCEPT !.current = FALSE] \in Row
  BY <1>1 DEF Row
<1>3. Retire(i) = [rows EXCEPT ![i] = [rows[i] EXCEPT !.current = FALSE]]
  BY <1>1 DEF Retire
<1> QED
  BY <1>1, <1>2, <1>3, ExceptSeq

\* Adding a row fits when it roots a lineage or extends one that stays held.
LEMMA AppendFits ==
  ASSUME IInv, Len(rows) < MaxRows, NEW r \in Row,
         r.parent <= Len(rows), r.lineage <= Len(rows) + 1, r.version <= Len(rows) + 1,
         r.current \/ \E i \in 1 .. Len(rows) : r.lineage = rows[i].lineage
  PROVE  Fits(Append(rows, r))
<1> DEFINE R == Append(rows, r)
<1>1. rows \in Seq(Row) /\ Len(rows) \in Nat /\ DOMAIN rows = 1 .. Len(rows)
  BY LenProperties DEF IInv, TypeOK
<1>2. /\ R \in Seq(Row) /\ Len(R) = Len(rows) + 1
      /\ \A i \in 1 .. Len(rows) : R[i] = rows[i]
      /\ R[Len(rows) + 1] = r
  BY <1>1, AppendProperties
<1> HIDE DEF R
<1>3. DOMAIN R = 1 .. Len(R)
  BY <1>2, LenProperties
<1>4. Held(R)
  <2> SUFFICES ASSUME NEW i \in 1 .. Len(R)
               PROVE  \E j \in 1 .. Len(R) : R[j].lineage = R[i].lineage
                                             /\ (R[j].current \/ Reviewed(R[j]))
    BY <1>3 DEF Held
  <2>1. \A k \in 1 .. Len(rows) : \E j \in 1 .. Len(rows) :
          rows[j].lineage = rows[k].lineage /\ (rows[j].current \/ Reviewed(rows[j]))
    BY <1>1 DEF IInv, Held
  <2>2. CASE i \in 1 .. Len(rows)
    <3>1. PICK j \in 1 .. Len(rows) : /\ rows[j].lineage = rows[i].lineage
                                      /\ rows[j].current \/ Reviewed(rows[j])
      BY <2>1, <2>2
    <3>2. j \in 1 .. Len(R) /\ R[j] = rows[j] /\ R[i] = rows[i]
      BY <1>1, <1>2, <2>2
    <3> QED
      BY <3>1, <3>2
  <2>3. CASE i = Len(rows) + 1
    <3>1. R[i] = r
      BY <1>2, <2>3
    <3>2. CASE r.current
      BY <3>1, <3>2
    <3>3. CASE \E k \in 1 .. Len(rows) : r.lineage = rows[k].lineage
      <4>1. PICK k \in 1 .. Len(rows) : r.lineage = rows[k].lineage
        BY <3>3
      <4>2. PICK j \in 1 .. Len(rows) : /\ rows[j].lineage = rows[k].lineage
                                        /\ rows[j].current \/ Reviewed(rows[j])
        BY <2>1
      <4> QED
        BY <1>1, <1>2, <3>1, <4>1, <4>2
    <3> QED
      BY <3>2, <3>3
  <2> QED
    BY <1>1, <1>2, <2>2, <2>3
<1>5. \A i \in 1 .. Len(R) : R[i].parent < i /\ R[i].lineage <= i /\ R[i].version <= i
  <2> SUFFICES ASSUME NEW i \in 1 .. Len(R)
               PROVE  R[i].parent < i /\ R[i].lineage <= i /\ R[i].version <= i
    OBVIOUS
  <2>1. CASE i \in 1 .. Len(rows)
    BY <1>1, <1>2, <2>1 DEF IInv, TypeOK
  <2>2. CASE i = Len(rows) + 1
    <3>1. R[i] = r /\ r.parent \in Nat /\ r.lineage \in Nat /\ r.version \in Nat
      BY <1>2, <2>2, MaxRowsAssumption DEF Row
    <3> QED
      BY <1>1, <2>2, <3>1
  <2> QED
    BY <1>1, <1>2, <2>1, <2>2
<1> QED
  BY <1>1, <1>2, <1>4, <1>5, MaxRowsAssumption DEF Fits, R

\* Replacing the current version of a lineage fits: the new one holds it.
LEMMA ReplaceFits ==
  ASSUME IInv, Len(rows) < MaxRows, NEW i \in 1 .. Len(rows), NEW r \in Row,
         r.parent <= Len(rows), r.version <= Len(rows) + 1,
         r.lineage = rows[i].lineage, r.current
  PROVE  /\ Fits(Append(Retire(i), r))
         /\ \A j \in 1 .. Len(rows) :
              j # i => Append(Retire(i), r)[j] = rows[j]
<1> DEFINE R == Append(Retire(i), r)
<1>1. /\ rows \in [1 .. Len(rows) -> Row] /\ Len(rows) \in Nat /\ DOMAIN rows = 1 .. Len(rows)
  BY LenProperties DEF IInv, TypeOK
<1>2. /\ R \in Seq(Row) /\ Len(R) = Len(rows) + 1
      /\ \A j \in 1 .. Len(rows) :
           R[j] = IF j = i THEN [rows[i] EXCEPT !.current = FALSE] ELSE rows[j]
      /\ R[Len(rows) + 1] = r
  BY <1>1, RetireRows, AppendProperties
<1> HIDE DEF R
<1>3. DOMAIN R = 1 .. Len(R)
  BY <1>2, LenProperties
<1>4. \A j \in 1 .. Len(rows) : /\ R[j].lineage = rows[j].lineage
                                /\ R[j].human = rows[j].human
                                /\ R[j].version = rows[j].version
                                /\ R[j].parent = rows[j].parent
                                /\ R[j].status = rows[j].status
  <2> SUFFICES ASSUME NEW j \in 1 .. Len(rows)
               PROVE  /\ R[j].lineage = rows[j].lineage
                      /\ R[j].human = rows[j].human
                      /\ R[j].version = rows[j].version
                      /\ R[j].parent = rows[j].parent
                      /\ R[j].status = rows[j].status
    OBVIOUS
  <2>1. rows[j] \in Row
    BY <1>1
  <2>2. R[j] \in {rows[j], [rows[j] EXCEPT !.current = FALSE]}
    BY <1>2
  <2> QED
    BY <2>1, <2>2 DEF Row
<1>5. Held(R)
  <2> SUFFICES ASSUME NEW k \in 1 .. Len(R)
               PROVE  \E j \in 1 .. Len(R) : R[j].lineage = R[k].lineage
                                             /\ (R[j].current \/ Reviewed(R[j]))
    BY <1>3 DEF Held
  <2>1. CASE R[k].lineage = r.lineage
    BY <1>1, <1>2, <2>1
  <2>2. CASE R[k].lineage # r.lineage
    <3>1. k \in 1 .. Len(rows)
      BY <1>1, <1>2, <2>2
    <3>2. PICK j \in 1 .. Len(rows) : /\ rows[j].lineage = rows[k].lineage
                                      /\ rows[j].current \/ Reviewed(rows[j])
      BY <1>1, <3>1 DEF IInv, Held
    <3>3. j # i
      BY <1>4, <2>2, <3>1, <3>2
    <3>4. R[j] = rows[j]
      BY <1>2, <3>3
    <3> QED
      BY <1>1, <1>2, <1>4, <3>1, <3>2, <3>4
  <2> QED
    BY <2>1, <2>2
<1>6. \A j \in 1 .. Len(R) : R[j].parent < j /\ R[j].lineage <= j /\ R[j].version <= j
  <2> SUFFICES ASSUME NEW j \in 1 .. Len(R)
               PROVE  R[j].parent < j /\ R[j].lineage <= j /\ R[j].version <= j
    OBVIOUS
  <2>1. \A k \in 1 .. Len(rows) :
          rows[k].parent < k /\ rows[k].lineage <= k /\ rows[k].version <= k
    BY <1>1 DEF IInv, TypeOK
  <2>2. CASE j \in 1 .. Len(rows)
    BY <1>4, <2>1, <2>2
  <2>3. CASE j = Len(rows) + 1
    <3>1. r.parent \in Nat /\ r.lineage \in Nat /\ r.version \in Nat
      BY MaxRowsAssumption DEF Row
    <3>2. R[j] = r /\ rows[i].lineage <= i
      BY <1>2, <2>1, <2>3
    <3> QED
      BY <1>1, <2>3, <3>1, <3>2
  <2> QED
    BY <1>1, <1>2, <2>2, <2>3
<1> QED
  BY <1>1, <1>2, <1>4, <1>5, <1>6, MaxRowsAssumption DEF Fits, R

\* Resolving a row fits, whatever current flags of its own lineage change with it.
LEMMA ReviewFits ==
  ASSUME IInv, NEW i \in 1 .. Len(rows), NEW R \in Seq(Row), Len(R) = Len(rows),
         Reviewed(R[i]),
         \A j \in 1 .. Len(rows) :
           /\ R[j].lineage = rows[j].lineage /\ R[j].human = rows[j].human
           /\ R[j].version = rows[j].version /\ R[j].parent = rows[j].parent
           /\ rows[j].lineage = rows[i].lineage \/ R[j] = rows[j]
  PROVE  Fits(R)
<1>1. /\ rows \in [1 .. Len(rows) -> Row] /\ Len(rows) \in Nat /\ DOMAIN rows = 1 .. Len(rows)
      /\ DOMAIN R = 1 .. Len(rows)
  BY LenProperties DEF IInv, TypeOK
<1>2. Held(R)
  <2> SUFFICES ASSUME NEW k \in 1 .. Len(rows)
               PROVE  \E j \in 1 .. Len(rows) : R[j].lineage = R[k].lineage
                                                /\ (R[j].current \/ Reviewed(R[j]))
    BY <1>1 DEF Held
  <2>1. CASE rows[k].lineage = rows[i].lineage
    BY <2>1
  <2>2. CASE rows[k].lineage # rows[i].lineage
    <3>1. PICK j \in 1 .. Len(rows) : /\ rows[j].lineage = rows[k].lineage
                                      /\ rows[j].current \/ Reviewed(rows[j])
      BY <1>1 DEF IInv, Held
    <3>2. R[j] = rows[j]
      BY <2>2, <3>1
    <3> QED
      BY <3>1, <3>2
  <2> QED
    BY <2>1, <2>2
<1> QED
  BY <1>1, <1>2 DEF Fits, IInv, TypeOK

\* What a step that ends a session does to the table: R fits, and a current version
\* is retired only if it is one the session loaded, and a human-edited one only on a
\* human's behalf.
Writes(s, R) ==
  /\ Commit(s, R)
  /\ Fits(R)
  /\ \A i \in 1 .. Len(rows) :
       rows[i].current /\ ~R[i].current =>
         /\ txn[s] # Idle
         /\ i \in {txn[s].row, txn[s].base}
         /\ rows[i].human => txn[s].op \in {"edit", "resolve", "review"}

\* Re-tagging leaves everything but the proposal marks alone.
LEMMA RetagFields ==
  ASSUME NEW row \in Row, NEW source
  PROVE  LET r == Retag(source, row) IN
         /\ r \in Row /\ r.parent = row.parent /\ r.version = row.version
         /\ r.lineage = row.lineage /\ r.current = row.current
<1>1. Retag(source, row) \in {row, [row EXCEPT !.proposed = TRUE, !.status = "pending"],
                              [row EXCEPT !.proposed = FALSE]}
  BY DEF Retag
<1> QED
  BY <1>1 DEF Row

\* A generated version that roots its lineage is a row.
LEMMA RootFits ==
  ASSUME IInv, Len(rows) < MaxRows, NEW human \in BOOLEAN, NEW source
  PROVE  LET r == Retag(source, Root(human)) IN
         /\ r \in Row /\ r.parent = 0 /\ r.version = 1 /\ r.current
         /\ r.lineage = Len(rows) + 1
<1>1. Len(rows) \in Nat /\ Len(rows) + 1 \in 1 .. MaxRows /\ 1 \in 1 .. MaxRows
  BY LenProperties, MaxRowsAssumption DEF IInv, TypeOK
<1>2. /\ Root(human) \in Row
      /\ Root(human).parent = 0 /\ Root(human).version = 1 /\ Root(human).current
      /\ Root(human).lineage = Len(rows) + 1
  BY <1>1, MaxRowsAssumption DEF Root, Row
<1> QED
  BY <1>2, RetagFields

\* A row that is added leaves the others as they are.
LEMMA AppendKeepsRows ==
  ASSUME IInv, NEW r \in Row, NEW i \in 1 .. Len(rows)
  PROVE  Append(rows, r)[i] = rows[i]
  BY AppendProperties DEF IInv, TypeOK

\* The generators' write.
LEMMA MergeWriteShape ==
  ASSUME IInv, NEW s \in Sessions, MergeWrite(s)
  PROVE  \E R : Writes(s, R)
<1> DEFINE t == txn[s]
<1>1. /\ t.op = "merge" /\ Len(rows) < MaxRows
      /\ rows \in [1 .. Len(rows) -> Row] /\ Len(rows) \in Nat
      /\ t \in Txn /\ t # Idle /\ Remembers(t)
  BY LenProperties DEF MergeWrite, IInv, TypeOK, Idle
<1>2. CASE t.row = 0
  <2> DEFINE r == Retag(t.source, Root(FALSE))
  <2>1. /\ r \in Row /\ r.parent = 0 /\ r.version = 1 /\ r.current
        /\ r.lineage = Len(rows) + 1
    BY <1>1, RootFits
  <2>2. Commit(s, Append(rows, r))
    BY <1>2 DEF MergeWrite, CreateFresh
  <2> HIDE DEF r
  <2>3. Fits(Append(rows, r))
    BY <1>1, <2>1, AppendFits
  <2> QED
    BY <2>1, <2>2, <2>3, AppendKeepsRows DEF Writes
<1>3. CASE t.row # 0 /\ ~t.seen.human
  <2> DEFINE f == Fork(t.row, t.seen, TRUE, FALSE, FALSE)
             g == [f EXCEPT !.status = "none"]
             r == Retag(t.source, g)
             R == Append(Retire(t.row), r)
  <2>1. /\ f \in Row /\ f.lineage = rows[t.row].lineage /\ f.current
        /\ f.parent <= Len(rows) /\ f.version <= Len(rows) + 1
    BY <1>1, <1>3, ForkFields
  <2> HIDE DEF f
  <2>2. /\ g \in Row /\ g.lineage = f.lineage /\ g.current
        /\ g.parent = f.parent /\ g.version = f.version
    BY <2>1 DEF Row
  <2> HIDE DEF g
  <2>3. /\ r \in Row /\ r.lineage = rows[t.row].lineage /\ r.current
        /\ r.parent <= Len(rows) /\ r.version <= Len(rows) + 1
    BY <2>1, <2>2, RetagFields
  <2>4. Commit(s, R)
    BY <1>3 DEF MergeWrite, AppendGenerated, f, g
  <2> HIDE DEF r
  <2>5. t.row \in 1 .. Len(rows) /\ ~rows[t.row].human
    BY <1>1, <1>3 DEF Remembers
  <2>6. Fits(R) /\ \A j \in 1 .. Len(rows) : j # t.row => R[j] = rows[j]
    BY <1>1, <2>3, <2>5, ReplaceFits
  <2> QED
    BY <1>1, <2>4, <2>5, <2>6 DEF Writes
<1>4. CASE t.row # 0 /\ t.seen.human
  <2> DEFINE f == Fork(t.row, t.seen, FALSE, FALSE, TRUE)
             g == [f EXCEPT !.status = "pending"]
             r == IF t.source = "csv" THEN Retag("csv", g) ELSE g
  <2>1. /\ f \in Row /\ f.lineage = rows[t.row].lineage
        /\ f.parent <= Len(rows) /\ f.lineage <= Len(rows) /\ f.version <= Len(rows) + 1
    BY <1>1, <1>4, ForkFields
  <2> HIDE DEF f
  <2>2. /\ g \in Row /\ g.lineage = f.lineage
        /\ g.parent = f.parent /\ g.version = f.version
    BY <2>1 DEF Row
  <2> HIDE DEF g
  <2>3. /\ r \in Row /\ r.lineage = rows[t.row].lineage
        /\ r.parent <= Len(rows) /\ r.lineage <= Len(rows) /\ r.version <= Len(rows) + 1
    BY <2>1, <2>2, RetagFields
  <2>4. Commit(s, Append(rows, r))
    BY <1>4 DEF MergeWrite, Propose, f, g
  <2> HIDE DEF r
  <2>5. t.row \in 1 .. Len(rows)
    BY <1>1, <1>4 DEF Remembers
  <2>6. r.lineage <= Len(rows) + 1
    BY <1>1, <2>3, MaxRowsAssumption DEF Row
  <2>7. Fits(Append(rows, r))
    BY <1>1, <2>3, <2>5, <2>6, AppendFits
  <2> QED
    BY <2>3, <2>4, <2>7, AppendKeepsRows DEF Writes
<1> QED
  BY <1>2, <1>3, <1>4

\* A human's edit.
LEMMA EditWriteShape ==
  ASSUME IInv, NEW s \in Sessions, EditWrite(s)
  PROVE  \E R : Writes(s, R)
<1> DEFINE t == txn[s]
           r == Fork(t.row, t.seen, TRUE, TRUE, FALSE)
           R == Append(Retire(t.row), r)
<1>1. t.op = "edit" /\ Len(rows) < MaxRows /\ Commit(s, R)
  BY DEF EditWrite
<1>2. t # Idle
  BY <1>1 DEF Idle
<1>3. t.row \in 1 .. Len(rows) /\ t.row # 0
  BY <1>1, LenProperties DEF IInv, TypeOK, Remembers
<1>4. /\ r \in Row /\ r.lineage = rows[t.row].lineage /\ r.current
      /\ r.parent <= Len(rows) /\ r.version <= Len(rows) + 1
  BY <1>1, <1>3, ForkFields
<1> HIDE DEF r
<1>5. Fits(R) /\ \A j \in 1 .. Len(rows) : j # t.row => R[j] = rows[j]
  BY <1>1, <1>3, <1>4, ReplaceFits
<1> QED
  BY <1>1, <1>2, <1>5 DEF Writes

\* A session that works on a row was given one of the table's.
LEMMA LoadedRow ==
  ASSUME IInv, NEW s \in Sessions, txn[s].op \in {"edit", "resolve", "review"}
  PROVE  /\ txn[s] # Idle
         /\ txn[s].row \in 1 .. Len(rows)
         /\ txn[s].base \in 0 .. Len(rows)
         /\ txn[s].base # 0 => rows[txn[s].base].lineage = rows[txn[s].row].lineage
<1>1. txn[s] # Idle
  BY DEF Idle
<1>2. Len(rows) \in Nat /\ Remembers(txn[s])
  BY LenProperties DEF IInv, TypeOK
<1> QED
  BY <1>1, <1>2 DEF Remembers

\* Table T is the current one, save for versions of i's lineage that it retires.
Demotes(T, i) ==
  /\ T \in Seq(Row) /\ Len(T) = Len(rows)
  /\ \A j \in 1 .. Len(rows) :
       \/ T[j] = rows[j]
       \/ /\ T[j] = [rows[j] EXCEPT !.current = FALSE]
          /\ rows[j].lineage = rows[i].lineage

\* A verdict on row i of such a table fits.
LEMMA VerdictFits ==
  ASSUME IInv, NEW i \in 1 .. Len(rows), NEW T, Demotes(T, i),
         NEW row \in Row, Reviewed(row),
         row.lineage = T[i].lineage, row.human = T[i].human,
         row.version = T[i].version, row.parent = T[i].parent
  PROVE  /\ Fits([T EXCEPT ![i] = row])
         /\ \A j \in 1 .. Len(rows) :
              [T EXCEPT ![i] = row][j] = IF j = i THEN row ELSE T[j]
<1> DEFINE R == [T EXCEPT ![i] = row]
<1>1. /\ rows \in [1 .. Len(rows) -> Row] /\ Len(rows) \in Nat
      /\ T \in [1 .. Len(rows) -> Row]
  BY LenProperties DEF IInv, TypeOK, Demotes
<1>3. /\ R \in Seq(Row) /\ Len(R) = Len(rows)
      /\ \A j \in 1 .. Len(rows) : R[j] = IF j = i THEN row ELSE T[j]
  BY ExceptSeq DEF Demotes
<1>4. \A j \in 1 .. Len(rows) :
        /\ R[j].lineage = rows[j].lineage /\ R[j].human = rows[j].human
        /\ R[j].version = rows[j].version /\ R[j].parent = rows[j].parent
        /\ rows[j].lineage = rows[i].lineage \/ R[j] = rows[j]
  <2> SUFFICES ASSUME NEW j \in 1 .. Len(rows)
               PROVE  /\ R[j].lineage = rows[j].lineage /\ R[j].human = rows[j].human
                      /\ R[j].version = rows[j].version /\ R[j].parent = rows[j].parent
                      /\ rows[j].lineage = rows[i].lineage \/ R[j] = rows[j]
    OBVIOUS
  <2>1. rows[j] \in Row /\ T[j] \in Row
    BY <1>1
  <2>2. /\ T[j].lineage = rows[j].lineage /\ T[j].human = rows[j].human
        /\ T[j].version = rows[j].version /\ T[j].parent = rows[j].parent
    BY <2>1 DEF Row, Demotes
  <2>3. CASE j = i
    <3>1. R[j] = row
      BY <1>3, <2>3
    <3> QED
      BY <2>1, <2>2, <2>3, <3>1 DEF Row
  <2>4. CASE j # i
    <3>1. R[j] = T[j]
      BY <1>3, <2>4
    <3> QED
      BY <2>2, <3>1 DEF Demotes
  <2> QED
    BY <2>3, <2>4
<1> HIDE DEF R
<1>5. Fits(R)
  BY <1>3, <1>4, ReviewFits
<1> QED
  BY <1>3, <1>5 DEF R

\* ResolveAccept: demote the current version, promote the proposal.
LEMMA ResolveAcceptShape ==
  ASSUME IInv, NEW s \in Sessions, ResolveAccept(s)
  PROVE  \E R : Writes(s, R)
<1> DEFINE t == txn[s]
           T == IF t.base \in {0, t.row} THEN rows ELSE Retire(t.base)
           current == T[t.row].current \/ ~t.seen.current
           row == [T[t.row] EXCEPT !.current = current, !.status = "accepted"]
           R == [T EXCEPT ![t.row] = row]
<1>1. t.op = "resolve" /\ t \in Txn
  BY DEF ResolveAccept, IInv, TypeOK
<1>2. /\ t # Idle /\ t.row \in 1 .. Len(rows) /\ t.base \in 0 .. Len(rows)
      /\ t.base # 0 => rows[t.base].lineage = rows[t.row].lineage
  BY <1>1, LoadedRow
<1>3. /\ rows \in Seq(Row) /\ rows \in [1 .. Len(rows) -> Row] /\ Len(rows) \in Nat
  BY LenProperties DEF IInv, TypeOK
<1>4. /\ T \in Seq(Row) /\ Len(T) = Len(rows)
      /\ \A j \in 1 .. Len(rows) :
           \/ T[j] = rows[j]
           \/ /\ T[j] = [rows[j] EXCEPT !.current = FALSE]
              /\ j = t.base /\ t.base # t.row
              /\ rows[j].lineage = rows[t.row].lineage
  <2>1. CASE t.base \in {0, t.row}
    BY <1>3, <2>1
  <2>2. CASE t.base \notin {0, t.row}
    <3>1. t.base \in 1 .. Len(rows) /\ T = Retire(t.base)
      BY <1>2, <1>3, <2>2
    <3> QED
      BY <1>2, <2>2, <3>1, RetireRows
  <2> QED
    BY <2>1, <2>2
<1>5. T[t.row] = rows[t.row]
  BY <1>2, <1>4
<1>6. current \in BOOLEAN
  BY <1>1, <1>2, <1>3, <1>5 DEF Txn, Row
<1>7. Commit(s, R)
  <2>1. [T EXCEPT ![t.row].current = @ \/ ~t.seen.current, ![t.row].status = "accepted"] = R
    BY <1>2, <1>3, <1>4, LenProperties DEF Row
  <2> QED
    BY <2>1 DEF ResolveAccept
<1> HIDE DEF T, current
<1>8. /\ row \in Row /\ Reviewed(row)
      /\ row.lineage = T[t.row].lineage /\ row.human = T[t.row].human
      /\ row.version = T[t.row].version /\ row.parent = T[t.row].parent
  <2>1. T[t.row] \in Row
    BY <1>2, <1>3, <1>5
  <2>2. row \in Row
    BY <1>6, <2>1 DEF Row
  <2> QED
    BY <2>1, <2>2 DEF Row, Reviewed
<1>9. T[t.row].current => row.current
  BY <1>2, <1>3, <1>5, <1>6, Zenon DEF Row, current
<1> HIDE DEF row
<1>10. /\ Fits(R)
       /\ \A j \in 1 .. Len(rows) : R[j] = IF j = t.row THEN row ELSE T[j]
  <2>1. Demotes(T, t.row)
    BY <1>4 DEF Demotes
  <2> QED
    BY <1>2, <1>8, <2>1, VerdictFits
<1>11. \A j \in 1 .. Len(rows) :
         rows[j].current /\ ~R[j].current => j \in {t.row, t.base}
  BY <1>4, <1>10
<1> QED
  BY <1>1, <1>2, <1>7, <1>10, <1>11 DEF Writes

\* The proposal is marked rejected.
LEMMA ResolveRejectShape ==
  ASSUME IInv, NEW s \in Sessions, ResolveReject(s)
  PROVE  \E R : Writes(s, R)
<1> DEFINE t == txn[s]
           row == [rows[t.row] EXCEPT !.status = "rejected"]
           R == [rows EXCEPT ![t.row] = row]
<1>1. t.op = "resolve"
  BY DEF ResolveReject
<1>2. t # Idle /\ t.row \in 1 .. Len(rows)
  BY <1>1, LoadedRow
<1>3. rows \in Seq(Row) /\ rows \in [1 .. Len(rows) -> Row] /\ rows[t.row] \in Row
  BY <1>2, LenProperties DEF IInv, TypeOK
<1>4. Commit(s, R)
  BY <1>2, <1>3 DEF ResolveReject
<1>5. /\ row \in Row /\ Reviewed(row)
      /\ row.lineage = rows[t.row].lineage /\ row.human = rows[t.row].human
      /\ row.version = rows[t.row].version /\ row.parent = rows[t.row].parent
  BY <1>3 DEF Row, Reviewed
<1> HIDE DEF row
<1>6. /\ Fits(R)
      /\ \A j \in 1 .. Len(rows) : R[j] = IF j = t.row THEN row ELSE rows[j]
  <2>1. Demotes(rows, t.row)
    BY <1>3 DEF Demotes
  <2> QED
    BY <1>2, <1>5, <2>1, VerdictFits
<1> QED
  BY <1>1, <1>2, <1>4, <1>6 DEF Writes

\* A reviewer confirms the version.
LEMMA ReviewAcceptShape ==
  ASSUME IInv, NEW s \in Sessions, ReviewAccept(s)
  PROVE  \E R : Writes(s, R)
<1> DEFINE t == txn[s]
           row == [rows[t.row] EXCEPT !.status = "accepted"]
           R == [rows EXCEPT ![t.row] = row]
<1>1. t.op = "review"
  BY DEF ReviewAccept
<1>2. t # Idle /\ t.row \in 1 .. Len(rows)
  BY <1>1, LoadedRow
<1>3. rows \in Seq(Row) /\ rows \in [1 .. Len(rows) -> Row] /\ rows[t.row] \in Row
  BY <1>2, LenProperties DEF IInv, TypeOK
<1>4. Commit(s, R)
  BY <1>2, <1>3 DEF ReviewAccept
<1>5. /\ row \in Row /\ Reviewed(row)
      /\ row.lineage = rows[t.row].lineage /\ row.human = rows[t.row].human
      /\ row.version = rows[t.row].version /\ row.parent = rows[t.row].parent
  BY <1>3 DEF Row, Reviewed
<1> HIDE DEF row
<1>6. /\ Fits(R)
      /\ \A j \in 1 .. Len(rows) : R[j] = IF j = t.row THEN row ELSE rows[j]
  <2>1. Demotes(rows, t.row)
    BY <1>3 DEF Demotes
  <2> QED
    BY <1>2, <1>5, <2>1, VerdictFits
<1> QED
  BY <1>1, <1>2, <1>4, <1>6 DEF Writes

\* A reviewer discards the version.
LEMMA DiscardShape ==
  ASSUME IInv, NEW s \in Sessions, Discard(s)
  PROVE  \E R : Writes(s, R)
<1> DEFINE t == txn[s]
           row == [rows[t.row] EXCEPT !.status = "rejected", !.current = FALSE]
           R == [rows EXCEPT ![t.row] = row]
<1>1. t.op = "review"
  BY DEF Discard
<1>2. t # Idle /\ t.row \in 1 .. Len(rows)
  BY <1>1, LoadedRow
<1>3. rows \in Seq(Row) /\ rows \in [1 .. Len(rows) -> Row] /\ rows[t.row] \in Row
  BY <1>2, LenProperties DEF IInv, TypeOK
<1>4. Commit(s, R)
  BY <1>2, <1>3 DEF Discard
<1>5. /\ row \in Row /\ Reviewed(row)
      /\ row.lineage = rows[t.row].lineage /\ row.human = rows[t.row].human
      /\ row.version = rows[t.row].version /\ row.parent = rows[t.row].parent
  BY <1>3 DEF Row, Reviewed
<1> HIDE DEF row
<1>6. /\ Fits(R)
      /\ \A j \in 1 .. Len(rows) : R[j] = IF j = t.row THEN row ELSE rows[j]
  <2>1. Demotes(rows, t.row)
    BY <1>3 DEF Demotes
  <2> QED
    BY <1>2, <1>5, <2>1, VerdictFits
<1> QED
  BY <1>1, <1>2, <1>4, <1>6 DEF Writes

\* A human authors a case: a new lineage.
LEMMA AuthorShape ==
  ASSUME IInv, NEW s \in Sessions, Author(s)
  PROVE  \E R : Writes(s, R)
<1> DEFINE r == Root(TRUE)
<1>1. Len(rows) < MaxRows /\ Commit(s, Append(rows, r))
  BY DEF Author
<1>2. Retag("none", r) = r
  BY DEF Retag
<1>3. /\ r \in Row /\ r.parent = 0 /\ r.version = 1 /\ r.current
      /\ r.lineage = Len(rows) + 1
  BY <1>1, <1>2, RootFits
<1> HIDE DEF r
<1>4. Fits(Append(rows, r))
  <2>1. Len(rows) \in Nat
    BY LenProperties DEF IInv, TypeOK
  <2> QED
    BY <1>1, <1>3, <2>1, AppendFits
<1> QED
  BY <1>1, <1>3, <1>4, AppendKeepsRows DEF Writes

\* Running the scripts of a case writes no version.
LEMMA RunScriptsShape ==
  ASSUME IInv, NEW s \in Sessions, RunScripts(s)
  PROVE  \E R : Writes(s, R)
<1>1. Commit(s, rows)
  BY DEF RunScripts
<1>2. Fits(rows)
  BY LenProperties DEF Fits, IInv, TypeOK
<1> QED
  BY <1>1, <1>2 DEF Writes

----------------------------------------------------------------------------
(* The reads *)

\* Every read keeps the invariant: it loads rows of the table, and as the row to
\* demote one of the same lineage.
LEMMA ReadsKeep ==
  ASSUME IInv, NEW s \in Sessions,
         \/ \E source \in Sources : MergeRead(s, source)
         \/ \E i \in DOMAIN rows :
              EditRead(s, i) \/ ResolveRead(s, i) \/ ReviewRead(s, i) \/ ReuseScripts(s, i)
  PROVE  IInv'
<1>1. DOMAIN rows = 1 .. Len(rows) /\ Len(rows) \in Nat
  BY LenProperties DEF IInv, TypeOK
<1>2. ASSUME NEW source \in Sources, MergeRead(s, source)
      PROVE  IInv'
  <2> DEFINE existing == IF Currents = {} THEN 0 ELSE CHOOSE i \in Currents : TRUE
  <2>1. existing \in 0 .. Len(rows)
    BY <1>1 DEF Currents
  <2>2. Begin(s, Load("merge", source, existing, 0))
    BY <1>2 DEF MergeRead
  <2> HIDE DEF existing
  <2> QED
    BY <1>1, <2>1, <2>2, BeginKeeps
<1>3. ASSUME NEW i \in DOMAIN rows, EditRead(s, i)
      PROVE  IInv'
  <2>1. Begin(s, Load("edit", "none", i, 0))
    BY <1>3 DEF EditRead
  <2> QED
    BY <1>1, <2>1, BeginKeeps
<1>4. ASSUME NEW i \in DOMAIN rows, ResolveRead(s, i)
      PROVE  IInv'
  <2> DEFINE cur == CurrentOf(rows[i].lineage)
             base == IF cur = {} THEN 0 ELSE CHOOSE c \in cur : TRUE
  <2>1. base # 0 => base \in cur
    OBVIOUS
  <2>2. base \in 0 .. Len(rows) /\ (base # 0 => rows[base].lineage = rows[i].lineage)
    BY <1>1, <2>1 DEF CurrentOf, Currents
  <2>3. Begin(s, Load("resolve", "none", i, base))
    BY <1>4 DEF ResolveRead
  <2> HIDE DEF base
  <2>4. i \in 0 .. Len(rows) /\ i # 0
    BY <1>1
  <2> QED
    BY <2>2, <2>3, <2>4, BeginKeeps
<1>5. ASSUME NEW i \in DOMAIN rows, ReviewRead(s, i)
      PROVE  IInv'
  <2>1. Begin(s, Load("review", "none", i, 0))
    BY <1>5 DEF ReviewRead
  <2> QED
    BY <1>1, <2>1, BeginKeeps
<1>6. ASSUME NEW i \in DOMAIN rows, ReuseScripts(s, i)
      PROVE  IInv'
  <2>1. Begin(s, Load("reuse", "modeB", i, 0)) /\ "modeB" \in Sources
    BY <1>6 DEF ReuseScripts
  <2> QED
    BY <1>1, <2>1, BeginKeeps
<1> QED
  BY <1>2, <1>3, <1>4, <1>5, <1>6

\* A step loads rows or commits a write of the shape above.
LEMMA NextShape ==
  ASSUME IInv, Next
  PROVE  \/ IInv' /\ rows' = rows
         \/ \E s \in Sessions : \E R : Writes(s, R)
<1>1. PICK s \in Sessions :
        \/ \E source \in Sources : MergeRead(s, source)
        \/ MergeWrite(s)
        \/ Author(s)
        \/ HumanWrites(s)
        \/ \E i \in DOMAIN rows : EditRead(s, i) \/ ResolveRead(s, i) \/ ReviewRead(s, i)
        \/ \E i \in DOMAIN rows : ReuseScripts(s, i)
        \/ RunScripts(s)
  BY DEF Next
<1>2. CASE \/ \E source \in Sources : MergeRead(s, source)
           \/ \E i \in DOMAIN rows :
                EditRead(s, i) \/ ResolveRead(s, i) \/ ReviewRead(s, i) \/ ReuseScripts(s, i)
  <2>1. IInv'
    BY <1>2, ReadsKeep
  <2>2. rows' = rows
    BY <1>2 DEF MergeRead, EditRead, ResolveRead, ReviewRead, ReuseScripts, Begin
  <2> QED
    BY <2>1, <2>2
<1>3. CASE MergeWrite(s)
  BY <1>3, MergeWriteShape
<1>4. CASE Author(s)
  BY <1>4, AuthorShape
<1>5. CASE HumanWrites(s)
  BY <1>5, EditWriteShape, ResolveAcceptShape, ResolveRejectShape, ReviewAcceptShape,
     DiscardShape DEF HumanWrites, Resolves, Reviews
<1>6. CASE RunScripts(s)
  BY <1>6, RunScriptsShape
<1> QED
  BY <1>1, <1>2, <1>3, <1>4, <1>5, <1>6

----------------------------------------------------------------------------
(* Theorems *)

\* The empty table satisfies the invariant, and every step keeps it.
LEMMA Inductive ==
  /\ Init => IInv
  /\ IInv /\ [Next]_vars => IInv'
<1>1. ASSUME Init PROVE IInv
  <2>1. rows = << >> /\ rows \in Seq(Row) /\ Len(rows) = 0 /\ DOMAIN rows = {}
    BY <1>1, EmptySeq DEF Init
  <2>2. \A s \in Sessions : txn[s] = Idle
    BY <1>1 DEF Init
  <2>3. TypeOK
    <3>1. txn \in [Sessions -> Txn]
      BY <1>1, IdleType DEF Init
    <3> QED
      BY <1>1, <2>1, <3>1, MaxRowsAssumption DEF Init, TypeOK
  <2>4. \A s \in Sessions : Remembers(txn[s])
    BY <2>1, <2>2 DEF Remembers, Idle
  <2> QED
    BY <2>1, <2>3, <2>4 DEF IInv, OneCurrent, Held
<1>2. ASSUME IInv, [Next]_vars PROVE IInv'
  <2>1. CASE Next
    <3>1. CASE IInv' /\ rows' = rows
      BY <3>1
    <3>2. ASSUME NEW s \in Sessions, NEW R, Writes(s, R) PROVE IInv'
      BY <1>2, <3>2, CommitKeeps DEF Writes
    <3> QED
      BY <1>2, <2>1, <3>1, <3>2, NextShape
  <2>2. CASE UNCHANGED vars
    BY <1>2, <2>2 DEF vars, IInv, TypeOK, OneCurrent, Held, Remembers
  <2> QED
    BY <1>2, <2>1, <2>2 DEF vars
<1> QED
  BY <1>1, <1>2

\* The invariant holds in every reachable state: one current version a lineage, each
\* lineage current or reviewed, and what a session remembers of its rows still true.
THEOREM InvariantHolds == Spec => []IInv
  BY Inductive, PTL DEF Spec

\* Type correctness, with every version behind its parent and its lineage's root.
THEOREM TypeCorrect == Spec => []TypeOK
<1>1. IInv => TypeOK
  BY DEF IInv
<1> QED
  BY <1>1, InvariantHolds, PTL

\* A lineage has exactly one current version unless a review ended it, however the
\* requests and jobs on it interleave.
THEOREM CurrentUnlessReviewedHolds == Spec => []CurrentUnlessReviewed
<1>1. IInv => CurrentUnlessReviewed
  <2> SUFFICES ASSUME IInv, NEW k \in DOMAIN rows
               PROVE  LET l == rows[k].lineage IN
                      \/ \E i \in DOMAIN rows : CurrentOf(l) = {i}
                      \/ /\ CurrentOf(l) = {}
                         /\ \E i \in DOMAIN rows :
                              rows[i].lineage = l /\ rows[i].status \in {"accepted", "rejected"}
    BY DEF CurrentUnlessReviewed
  <2> DEFINE l == rows[k].lineage
  <2>1. CASE CurrentOf(l) = {}
    <3>1. PICK j \in DOMAIN rows : /\ rows[j].lineage = l
                                   /\ rows[j].current \/ Reviewed(rows[j])
      BY DEF IInv, Held
    <3>2. ~rows[j].current
      BY <2>1, <3>1 DEF CurrentOf, Currents
    <3> QED
      BY <2>1, <3>1, <3>2 DEF Reviewed
  <2>2. CASE CurrentOf(l) # {}
    <3>1. PICK i \in CurrentOf(l) : TRUE
      BY <2>2
    <3>2. i \in DOMAIN rows /\ CurrentOf(l) = {i}
      BY <3>1 DEF CurrentOf, Currents, IInv, OneCurrent
    <3> QED
      BY <3>2
  <2> QED
    BY <2>1, <2>2
<1> QED
  BY <1>1, InvariantHolds, PTL

\* Re-generation never ends the reign of a human's version, even when it read the
\* lineage before the human wrote it.
THEOREM NeverClobberHolds == Spec => NeverClobber
<1> DEFINE A == \A i \in DOMAIN rows :
                  rows[i].current /\ rows[i].human /\ ~rows'[i].current =>
                    \E s \in Sessions :
                      txn[s].op \in {"edit", "resolve", "review"} /\ txn'[s] = Idle
<1>1. IInv /\ [Next]_vars => [A]_vars
  <2> SUFFICES ASSUME IInv, Next, NEW i \in DOMAIN rows,
                      rows[i].current, rows[i].human, ~rows'[i].current
               PROVE  \E s \in Sessions :
                        txn[s].op \in {"edit", "resolve", "review"} /\ txn'[s] = Idle
    OBVIOUS
  <2>1. DOMAIN rows = 1 .. Len(rows)
    BY LenProperties DEF IInv, TypeOK
  <2>2. PICK s \in Sessions : \E R : Writes(s, R)
    BY NextShape
  <2>3. PICK R : Writes(s, R)
    BY <2>2
  <2>4. rows' = R /\ txn'[s] = Idle
    BY <2>3 DEF Writes, Commit, IInv, TypeOK
  <2> QED
    BY <2>1, <2>3, <2>4 DEF Writes
<1> QED
  BY <1>1, InvariantHolds, PTL DEF Spec, NeverClobber

\* A version is replaced as current only by a session that had loaded it.
THEOREM NoBlindReplaceHolds == Spec => NoBlindReplace
<1> DEFINE A == \A i \in Currents :
                  ~rows'[i].current /\ (\E j \in DOMAIN rows' :
                                          rows'[j].lineage = rows[i].lineage
                                          /\ rows'[j].current) =>
                    \E s \in Sessions :
                      txn'[s] # txn[s] /\ i \in {txn[s].row, txn[s].base}
<1>1. IInv /\ [Next]_vars => [A]_vars
  <2> SUFFICES ASSUME IInv, Next, NEW i \in Currents, ~rows'[i].current
               PROVE  \E s \in Sessions :
                        txn'[s] # txn[s] /\ i \in {txn[s].row, txn[s].base}
    OBVIOUS
  <2>1. i \in 1 .. Len(rows) /\ rows[i].current
    BY LenProperties DEF Currents, IInv, TypeOK
  <2>2. PICK s \in Sessions : \E R : Writes(s, R)
    BY <2>1, NextShape
  <2>3. PICK R : Writes(s, R)
    BY <2>2
  <2>4. rows' = R /\ txn'[s] = Idle
    BY <2>1, <2>3 DEF Writes, Commit, IInv, TypeOK
  <2> QED
    BY <2>1, <2>3, <2>4 DEF Writes
<1> QED
  BY <1>1, InvariantHolds, PTL DEF Spec, NoBlindReplace
=============================================================================
