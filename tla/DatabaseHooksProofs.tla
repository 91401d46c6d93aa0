------------------------- MODULE DatabaseHooksProofs -------------------------
(***************************************************************************)
(* Proofs about DatabaseHooks, for any number of calls, rows, writes and   *)
(* hooks, with transactions and without: hooks after writes follow the     *)
(* commits.                                                                *)
(***************************************************************************)
EXTENDS DatabaseHooks, SequenceTheorems, TLAPS

-----------------------------------------------------------------------------
(* The inductive invariant.                                                *)

\* The order of hooks: that of their writes, and then of their configuration.
Earlier(g, h) == g[1] < h[1] \/ (g[1] = h[1] /\ g[2] < h[2])

Places(p) == 1 .. Len(pending[p])

\* The state of the writes whose hooks wait in a queue.
WaitingState(p) == IF InTransaction(p) THEN "open" ELSE "committed"

Numbered ==
  /\ \A w \in writes : w.id <= serial
  /\ \A v, w \in writes : v.id = w.id => v = w

OpenInside == \A w \in writes : w.state = "open" => InTransaction(w.by)

Labelled ==
  \A p \in Procs :
    /\ pc[p] \in {"run", "drain", "failed"} => depth[p] = 0
    /\ pc[p] \in {"body", "write"} /\ depth[p] = 0 => pending[p] = <<>>
    /\ pc[p] = "failed" => pending[p] = <<>>

AttemptedCommitted == \A h \in attempted : \E w \in writes : w.id = h[1] /\ w.state = "committed"

Waits ==
  \A p \in Procs : \A i \in Places(p) :
    /\ pending[p][i] \notin attempted
    /\ \E w \in writes : w.id = pending[p][i][1] /\ w.by = p /\ w.state = WaitingState(p)

Sorted ==
  \A p \in Procs : \A i, j \in Places(p) : i < j => Earlier(pending[p][i], pending[p][j])

\* What waits comes after what was run.
AfterAttempted ==
  \A p \in Procs : \A i \in Places(p), w \in writes, e \in 1 .. Entries :
    w.by = p /\ Ran(w, e) => Earlier(<<w.id, e>>, pending[p][i])

\* The hooks before one that waits, of the same write, were run or wait in front of it.
Whole ==
  \A p \in Procs : \A i \in Places(p) : \A d \in 1 .. pending[p][i][2] - 1 :
    \/ <<pending[p][i][1], d>> \in attempted
    \/ \E j \in 1 .. i - 1 : pending[p][j] = <<pending[p][i][1], d>>

NoneLost ==
  Transactions =>
    \A w \in writes, e \in 1 .. Entries :
      w.state # "void" /\ pc[w.by] # "failed" =>
        Ran(w, e) \/ \E i \in Places(w.by) : pending[w.by][i] = <<w.id, e>>

Prefixes == \A w \in writes, e \in 1 .. Entries : Ran(w, e) => \A d \in 1 .. e - 1 : Ran(w, d)

InOrder ==
  Transactions =>
    \A v, w \in writes, e \in 1 .. Entries :
      v.by = w.by /\ v.id < w.id /\ v.state = "committed" /\ Ran(w, e) => Ran(v, Entries)

QueueInv ==
  /\ Numbered /\ OpenInside /\ Labelled /\ AttemptedCommitted /\ Waits /\ Sorted
  /\ AfterAttempted /\ Whole /\ NoneLost /\ Prefixes /\ InOrder

\* Rows that were consumed are not there, unless the transaction fails.
RowInv ==
  /\ \A r \in table : r < nextRow
  /\ \A p \in Procs : /\ \A r \in gone[p] : r < nextRow
                      /\ ~InTransaction(p) => gone[p] = {}
  /\ \A w \in writes : w.op = "consume" /\ w.state # "void" =>
       /\ w.row < nextRow /\ w.row \notin table
       /\ \A q \in Procs : w.row \in gone[q] => q = w.by /\ w.state = "open"
  /\ \A v, w \in writes :
       v.op = "consume" /\ w.op = "consume" /\ v.row = w.row
         /\ v.state # "void" /\ w.state # "void" => v = w

IInv == TypeOK /\ QueueInv /\ RowInv

-----------------------------------------------------------------------------
(* Types.                                                                  *)

LEMMA HooksOfType ==
  ASSUME HooksAssumption, NEW i \in 1 .. MaxWrites
  PROVE  /\ HooksOf(i) \in Seq(Hook) /\ Len(HooksOf(i)) = Entries
         /\ \A e \in 1 .. Entries : HooksOf(i)[e] = <<i, e>>
<1>1. \A e \in 1 .. Entries : <<i, e>> \in Hook
  BY DEF Hook
<1>2. Entries \in Nat
  BY DEF HooksAssumption
<1>3. HooksOf(i) \in [1 .. Entries -> Hook]
  BY <1>1 DEF HooksOf
<1>4. HooksOf(i) \in Seq(Hook)
  BY <1>2, <1>3
<1>5. DOMAIN HooksOf(i) = 1 .. Entries /\ DOMAIN HooksOf(i) = 1 .. Len(HooksOf(i))
  BY <1>3, <1>4, LenProperties
<1>6. Len(HooksOf(i)) = Entries
  BY <1>2, <1>4, <1>5, LenProperties
<1> QED
  BY <1>4, <1>6 DEF HooksOf

\* The state that a transaction which ends leaves its writes in.
LEMMA EndType ==
  ASSUME TypeOK, NEW p \in Procs, NEW state \in {"committed", "void"}, EndTransaction(p, state)
  PROVE  writes' \subseteq Write
<1> SUFFICES ASSUME NEW w \in writes
             PROVE  (IF w.by = p /\ w.state = "open" THEN [w EXCEPT !.state = state] ELSE w)
                      \in Write
  BY DEF EndTransaction
<1>1. w \in Write
  BY DEF TypeOK
<1> QED
  BY <1>1 DEF Write

LEMMA BackType ==
  ASSUME HooksAssumption, TypeOK, NEW p \in Procs, Back(p)
  PROVE  /\ pc' \in [Procs -> Labels] /\ pc' = [pc EXCEPT ![p] = "body"]
         /\ op' \in [Procs -> OpNames \cup {"none"}] /\ row' \in [Procs -> 0 .. MaxRows]
<1>1. 0 \in 0 .. MaxRows
  BY DEF HooksAssumption
<1>2. op' \in [Procs -> OpNames \cup {"none"}]
  BY DEF Back, TypeOK
<1>3. row' \in [Procs -> 0 .. MaxRows]
  BY <1>1 DEF Back, TypeOK
<1> QED
  BY <1>2, <1>3 DEF Back, Goto, Labels, TypeOK

LEMMA WrittenType ==
  ASSUME HooksAssumption, TypeOK, NEW p \in Procs, NEW r \in 0 .. MaxRows, Written(p, r),
         op[p] \in OpNames
  PROVE  /\ serial' \in 1 .. MaxWrites /\ writes' \subseteq Write
         /\ pending' \in [Procs -> Seq(Hook)] /\ pc' \in [Procs -> Labels]
         /\ depth' = depth /\ attempted' = attempted
         /\ op' \in [Procs -> OpNames \cup {"none"}] /\ row' \in [Procs -> 0 .. MaxRows]
<1> USE DEF TypeOK
<1>1. serial' \in 1 .. MaxWrites
  BY DEF Written, HooksAssumption
<1>2. writes' \subseteq Write
  <2> DEFINE s == IF InTransaction(p) THEN "open" ELSE "committed"
             new == [id |-> serial', op |-> op[p], row |-> r, by |-> p, state |-> s]
  <2>1. new \in Write
    BY <1>1 DEF Write
  <2>2. writes' = writes \cup {new}
    BY DEF Written
  <2> QED
    BY <2>1, <2>2
<1>3. pending' \in [Procs -> Seq(Hook)]
  <2>1. pending[p] \o HooksOf(serial') \in Seq(Hook)
    BY <1>1, HooksOfType, ConcatProperties
  <2> QED
    BY <2>1 DEF Written
<1>4. pc' \in [Procs -> Labels]
  BY BackType DEF Written, Goto, Labels
<1>5. op' \in [Procs -> OpNames \cup {"none"}] /\ row' \in [Procs -> 0 .. MaxRows]
  BY BackType DEF Written
<1> QED
  BY <1>1, <1>2, <1>3, <1>4, <1>5 DEF Written

LEMMA DeleteType ==
  ASSUME TypeOK, NEW p \in Procs, NEW r \in 0 .. MaxRows, Delete(p, r)
  PROVE  /\ table' \subseteq 1 .. MaxRows /\ nextRow' = nextRow
         /\ fresh' \in [Procs -> SUBSET (1 .. MaxRows)]
         /\ gone' \in [Procs -> SUBSET (1 .. MaxRows)]
<1>1. table \subseteq 1 .. MaxRows /\ fresh \in [Procs -> SUBSET (1 .. MaxRows)]
      /\ gone \in [Procs -> SUBSET (1 .. MaxRows)]
  BY DEF TypeOK
<1>2. InTransaction(p) /\ r \in table \ fresh[p] => gone[p] \cup {r} \in SUBSET (1 .. MaxRows)
  BY <1>1
<1>3. gone' \in [Procs -> SUBSET (1 .. MaxRows)]
  BY <1>1, <1>2 DEF Delete
<1> QED
  BY <1>1, <1>3 DEF Delete

LEMMA TypeStep ==
  ASSUME HooksAssumption, TypeOK, [Next]_vars
  PROVE  TypeOK'
<1> USE DEF TypeOK
<1>1. CASE UNCHANGED vars
  BY <1>1 DEF vars, Hook, Write, Labels
<1>2. ASSUME NEW p \in Procs, Step(p)
      PROVE  TypeOK'
  <2> USE <1>2
  <2>1. CASE Begin(p)
    <3>1. depth[p] \in 0 .. MaxDepth /\ MaxDepth \in Nat
      BY DEF HooksAssumption
    <3>2. depth[p] + 1 \in 0 .. MaxDepth
      BY <2>1, <3>1 DEF Begin
    <3>3. depth' \in [Procs -> 0 .. MaxDepth]
      BY <2>1, <3>2 DEF Begin
    <3> QED
      BY <2>1, <3>3 DEF Begin, data
  <2>2. CASE Leave(p)
    <3>1. depth[p] \in 0 .. MaxDepth /\ MaxDepth \in Nat
      BY DEF HooksAssumption
    <3>2. depth[p] - 1 \in 0 .. MaxDepth
      BY <2>2, <3>1 DEF Leave
    <3>3. depth' \in [Procs -> 0 .. MaxDepth]
      BY <2>2, <3>2 DEF Leave
    <3> QED
      BY <2>2, <3>3 DEF Leave, data
  <2>3. CASE Commit(p)
    <3>1. writes' \subseteq Write
      BY <2>3, EndType DEF Commit
    <3> QED
      BY <2>3, <3>1 DEF Commit, EndTransaction, Goto, Labels, HooksAssumption
  <2>4. CASE Rollback(p)
    <3>1. writes' \subseteq Write
      BY <2>4, EndType DEF Rollback, Undo
    <3>2. pending' \in [Procs -> Seq(Hook)]
      BY <2>4, EmptySeq DEF Rollback, QueueAfterFailure
    <3>3. table' \subseteq 1 .. MaxRows
      BY <2>4 DEF Rollback, Undo
    <3> QED
      BY <2>4, <3>1, <3>2, <3>3 DEF Rollback, Undo, EndTransaction, Goto, Labels, HooksAssumption
  <2>5. CASE Crash(p)
    <3>1. writes' \subseteq Write
      BY <2>5, EndType DEF Crash, Undo
    <3>2. pending' \in [Procs -> Seq(Hook)]
      BY <2>5, EmptySeq DEF Crash
    <3>3. table' \subseteq 1 .. MaxRows
      BY <2>5 DEF Crash, Undo
    <3> QED
      BY <2>5, <3>1, <3>2, <3>3 DEF Crash, Undo, EndTransaction, Labels, HooksAssumption
  <2>6. CASE Before(p)
    BY <2>6 DEF Before, Goto, data, Labels, HooksAssumption
  <2>7. CASE Vetoed(p)
    BY <2>7, BackType DEF Vetoed, data
  <2>8. CASE CreateRow(p)
    <3>1. nextRow \in 0 .. MaxRows /\ op[p] \in OpNames /\ Written(p, nextRow)
      BY <2>8 DEF CreateRow, OpNames, HooksAssumption
    <3>2. fresh' \in [Procs -> SUBSET (1 .. MaxRows)]
      <4>1. nextRow \in 1 .. MaxRows
        BY <2>8 DEF CreateRow, HooksAssumption
      <4> QED
        BY <2>8, <4>1 DEF CreateRow
    <3>3. table' \subseteq 1 .. MaxRows /\ nextRow' \in 1 .. MaxRows + 1 /\ gone' = gone
      BY <2>8 DEF CreateRow, HooksAssumption
    <3>4. serial' \in 1 .. MaxWrites
      BY <3>1, WrittenType
    <3>5. serial' \in 0 .. MaxWrites
      BY <3>4
    <3> QED
      BY <3>1, <3>2, <3>3, <3>5, WrittenType
  <2>9. CASE UpdateRow(p)
    <3>1. row[p] \in 0 .. MaxRows /\ op[p] \in OpNames /\ Written(p, row[p])
      BY <2>9 DEF UpdateRow, OpNames
    <3>2. serial' \in 1 .. MaxWrites
      BY <3>1, WrittenType
    <3>3. serial' \in 0 .. MaxWrites
      BY <3>2
    <3> QED
      BY <2>9, <3>1, <3>3, WrittenType DEF UpdateRow
  <2>10. CASE DeleteRow(p)
    <3>1. row[p] \in 0 .. MaxRows /\ op[p] \in OpNames /\ Written(p, row[p]) /\ Delete(p, row[p])
      BY <2>10 DEF DeleteRow, OpNames
    <3>2. serial' \in 1 .. MaxWrites
      BY <3>1, WrittenType
    <3>3. serial' \in 0 .. MaxWrites
      BY <3>2
    <3> QED
      BY <3>1, <3>3, WrittenType, DeleteType
  <2>11. CASE ConsumeRow(p)
    <3>1. CASE Consumed(p)
      <4>1. /\ row[p] \in 0 .. MaxRows /\ op[p] \in OpNames /\ Written(p, row[p])
            /\ Delete(p, row[p])
        BY <2>11, <3>1 DEF ConsumeRow, OpNames
      <4>2. serial' \in 1 .. MaxWrites
        BY <4>1, WrittenType
      <4>3. serial' \in 0 .. MaxWrites
        BY <4>2
      <4> QED
        BY <4>1, <4>3, WrittenType, DeleteType
    <3>2. CASE ~Consumed(p)
      BY <2>11, <3>2, BackType DEF ConsumeRow, data
    <3> QED
      BY <3>1, <3>2
  <2>12. CASE HookRuns(p)
    <3>1. Head(pending[p]) \in Hook /\ Tail(pending[p]) \in Seq(Hook)
      BY <2>12, HeadTailProperties DEF HookRuns
    <3> QED
      BY <2>12, <3>1 DEF HookRuns, data
  <2>13. CASE HookThrows(p)
    <3>1. Head(pending[p]) \in Hook /\ Tail(pending[p]) \in Seq(Hook) /\ <<>> \in Seq(Hook)
      BY <2>13, HeadTailProperties, EmptySeq DEF HookThrows
    <3>2. pending' \in [Procs -> Seq(Hook)]
      BY <2>13, <3>1 DEF HookThrows
    <3>3. pc' \in [Procs -> Labels]
      BY <2>13 DEF HookThrows, Goto, Labels
    <3>4. attempted' \subseteq Hook
      BY <2>13, <3>1 DEF HookThrows
    <3> QED
      BY <2>13, <3>2, <3>3, <3>4 DEF HookThrows, data
  <2>14. CASE HooksEnd(p)
    BY <2>14, BackType DEF HooksEnd, data
  <2> QED
    BY <2>1, <2>2, <2>3, <2>4, <2>5, <2>6, <2>7, <2>8, <2>9, <2>10, <2>11, <2>12, <2>13, <2>14
    DEF Step
<1> QED
  BY <1>1, <1>2 DEF Next

LEMMA TypeInit == HooksAssumption /\ Init => TypeOK
  BY EmptySeq DEF HooksAssumption, Init, TypeOK, Labels

\* Every variable has its type: calls, rows and hooks are of the given sets.
THEOREM TypeCorrect == ASSUME HooksAssumption PROVE Spec => []TypeOK
<1>1. Init => TypeOK
  BY TypeInit
<1>2. TypeOK /\ [Next]_vars => TypeOK'
  BY TypeStep
<1> QED
  BY <1>1, <1>2, PTL DEF Spec

-----------------------------------------------------------------------------
(* Queues.                                                                 *)

\* Steps that change neither writes nor queues.
LEMMA QuietQueue ==
  ASSUME TypeOK, QueueInv,
         writes' = writes, attempted' = attempted, serial' = serial, pending' = pending,
         Labelled', OpenInside',
         \A q \in Procs : pending[q] = <<>> \/ (InTransaction(q)' <=> InTransaction(q)),
         \A q \in Procs : pc'[q] # "failed" => pc[q] # "failed"
  PROVE  QueueInv'
<1> USE DEF QueueInv
<1>1. Numbered' /\ AttemptedCommitted' /\ Prefixes' /\ InOrder'
  BY DEF Numbered, AttemptedCommitted, Prefixes, InOrder, Ran
<1>2. Sorted' /\ AfterAttempted' /\ Whole'
  <2>1. Sorted'
    BY DEF Sorted, Places
  <2>2. AfterAttempted'
    BY DEF AfterAttempted, Places, Ran
  <2>3. Whole'
    <3> SUFFICES ASSUME NEW q \in Procs, NEW i \in Places(q)',
                        NEW d \in 1 .. pending'[q][i][2] - 1
                 PROVE  \/ <<pending'[q][i][1], d>> \in attempted'
                        \/ \E j \in 1 .. i - 1 : pending'[q][j] = <<pending'[q][i][1], d>>
      BY DEF Whole
    <3>1. i \in Places(q) /\ d \in 1 .. pending[q][i][2] - 1
      BY DEF Places
    <3>2. \/ <<pending[q][i][1], d>> \in attempted
          \/ \E j \in 1 .. i - 1 : pending[q][j] = <<pending[q][i][1], d>>
      BY <3>1 DEF Whole
    <3> QED
      BY <3>2
  <2> QED
    BY <2>1, <2>2, <2>3
<1>3. Waits'
  <2> SUFFICES ASSUME NEW q \in Procs, NEW i \in Places(q)
               PROVE  /\ pending[q][i] \notin attempted
                      /\ \E w \in writes : w.id = pending[q][i][1] /\ w.by = q
                                           /\ w.state = WaitingState(q)'
    BY DEF Waits, Places
  <2>1. pending[q] # <<>>
    BY EmptySeq DEF Places
  <2>2. WaitingState(q)' = WaitingState(q)
    BY <2>1 DEF WaitingState
  <2> QED
    BY <2>2 DEF Waits
<1>4. NoneLost'
  <2> SUFFICES ASSUME Transactions, NEW w \in writes, NEW e \in 1 .. Entries,
                      w.state # "void", pc'[w.by] # "failed"
               PROVE  Ran(w, e) \/ \E i \in Places(w.by) : pending[w.by][i] = <<w.id, e>>
    BY DEF NoneLost, Places, Ran
  <2>1. w.by \in Procs
    BY DEF TypeOK, Write
  <2> QED
    BY <2>1 DEF NoneLost
<1> QED
  BY <1>1, <1>2, <1>3, <1>4

\* A transaction ends: its writes become committed, or void and their hooks dropped.
LEMMA EndWrites ==
  ASSUME TypeOK, NEW p \in Procs, NEW state \in {"committed", "void"}, EndTransaction(p, state)
  PROVE  /\ \A x \in writes' : \E w \in writes :
              /\ x.id = w.id /\ x.op = w.op /\ x.row = w.row /\ x.by = w.by
              /\ x.state = IF w.by = p /\ w.state = "open" THEN state ELSE w.state
         /\ \A w \in writes : \E x \in writes' :
              /\ x.id = w.id /\ x.op = w.op /\ x.row = w.row /\ x.by = w.by
              /\ x.state = IF w.by = p /\ w.state = "open" THEN state ELSE w.state
<1> DEFINE end(w) == IF w.by = p /\ w.state = "open" THEN [w EXCEPT !.state = state] ELSE w
<1>1. writes' = {end(w) : w \in writes}
  BY DEF EndTransaction
<1>2. ASSUME NEW w \in writes
      PROVE  LET x == end(w)
             IN  /\ x.id = w.id /\ x.op = w.op /\ x.row = w.row /\ x.by = w.by
                 /\ x.state = IF w.by = p /\ w.state = "open" THEN state ELSE w.state
  <2>1. w \in Write
    BY DEF TypeOK
  <2> QED
    BY <2>1 DEF Write
<1> HIDE DEF end
<1> QED
  BY <1>1, <1>2

LEMMA EndQueue ==
  ASSUME TypeOK, TypeOK', QueueInv, NEW p \in Procs, NEW state \in {"committed", "void"},
         EndTransaction(p, state), serial' = serial, attempted' = attempted,
         \/ /\ state = "committed" /\ depth[p] > 0 /\ pc[p] \in {"body", "write"}
            /\ pending' = pending /\ pc' = [pc EXCEPT ![p] = "drain"]
         \/ /\ state = "void" /\ pending' = [pending EXCEPT ![p] = <<>>]
            /\ \/ depth[p] > 0 /\ pc' = [pc EXCEPT ![p] = "drain"]
               \/ pc' = [pc EXCEPT ![p] = "failed"]
  PROVE  QueueInv'
<1> USE DEF QueueInv
<1> DEFINE Now(w, x) == /\ x.id = w.id /\ x.by = w.by
                        /\ x.state = IF w.by = p /\ w.state = "open" THEN state ELSE w.state
<1>1. /\ \A x \in writes' : \E w \in writes : Now(w, x)
      /\ \A w \in writes : \E x \in writes' : Now(w, x)
  BY EndWrites
<1>2. \A w \in writes : w.by \in Procs /\ w.id \in Nat /\ w.state \in {"open", "committed", "void"}
  BY DEF TypeOK, Write
<1>3. depth' = [depth EXCEPT ![p] = 0] /\ depth \in [Procs -> Nat] /\ pc \in [Procs -> Labels]
      /\ pending \in [Procs -> Seq(Hook)]
  BY DEF EndTransaction, TypeOK
<1>4. \A q \in Procs \ {p} : /\ pending'[q] = pending[q] /\ pc'[q] = pc[q]
                             /\ InTransaction(q)' = InTransaction(q)
  BY <1>3 DEF InTransaction, Active
<1>5. ~InTransaction(p)'
  BY <1>3 DEF InTransaction, Active
<1>6. \A q \in Procs : \A i \in Places(q)' : i \in Places(q) /\ pending'[q][i] = pending[q][i]
  <2> SUFFICES ASSUME NEW q \in Procs
               PROVE  \A i \in Places(q)' : i \in Places(q) /\ pending'[q][i] = pending[q][i]
    OBVIOUS
  <2>1. CASE pending'[q] = pending[q]
    BY <2>1 DEF Places
  <2>2. CASE pending'[q] = <<>>
    BY <2>2 DEF Places
  <2>3. pending'[p] = pending[p] \/ pending'[p] = <<>>
    BY <1>3
  <2> QED
    BY <1>4, <2>1, <2>2, <2>3
<1>7. Numbered'
  <2>1. \A x \in writes' : x.id <= serial'
    BY <1>1 DEF Numbered
  <2>2. ASSUME NEW x \in writes', NEW y \in writes', x.id = y.id
        PROVE  x = y
    <3>1. PICK v \in writes : Now(v, x) /\ x.op = v.op /\ x.row = v.row
      BY EndWrites
    <3>2. PICK w \in writes : Now(w, y) /\ y.op = w.op /\ y.row = w.row
      BY EndWrites
    <3>3. v = w
      <4>1. v.id = w.id
        BY <2>2, <3>1, <3>2
      <4> QED
        BY <4>1 DEF Numbered
    <3>4. x \in Write /\ y \in Write
      BY DEF TypeOK
    <3> QED
      BY <3>1, <3>2, <3>3, <3>4 DEF Write
  <2> QED
    BY <2>1, <2>2 DEF Numbered
<1>8. OpenInside'
  BY <1>1, <1>2, <1>4, <1>5 DEF OpenInside
<1>9. Labelled'
  BY <1>3, <1>4, EmptySeq DEF Labelled, Labels
<1>10. AttemptedCommitted'
  BY <1>1, <1>2 DEF AttemptedCommitted
<1>11. Waits'
  <2> SUFFICES ASSUME NEW q \in Procs, NEW i \in Places(q)'
               PROVE  /\ pending'[q][i] \notin attempted'
                      /\ \E x \in writes' : x.id = pending'[q][i][1] /\ x.by = q
                                            /\ x.state = WaitingState(q)'
    BY DEF Waits
  <2>1. PICK w \in writes : w.id = pending[q][i][1] /\ w.by = q /\ w.state = WaitingState(q)
    BY <1>6 DEF Waits
  <2>2. PICK x \in writes' : Now(w, x)
    BY <1>1
  <2>3. x.state = WaitingState(q)'
    <3>1. CASE q = p
      <4>1. pending' = pending /\ state = "committed"
        BY <3>1, <1>3, EmptySeq DEF Places
      <4> QED
        BY <3>1, <4>1, <2>1, <2>2, <1>5 DEF WaitingState
    <3>2. CASE q # p
      BY <3>2, <2>1, <2>2, <1>4 DEF WaitingState
    <3> QED
      BY <3>1, <3>2
  <2> QED
    BY <1>6, <2>1, <2>2, <2>3 DEF Waits
<1>12. Sorted'
  BY <1>6 DEF Sorted
<1>13. AfterAttempted'
  BY <1>1, <1>6 DEF AfterAttempted, Ran
<1>14. Whole'
  <2> SUFFICES ASSUME NEW q \in Procs, NEW i \in Places(q)', NEW d \in 1 .. pending'[q][i][2] - 1
               PROVE  \/ <<pending'[q][i][1], d>> \in attempted'
                      \/ \E j \in 1 .. i - 1 : pending'[q][j] = <<pending'[q][i][1], d>>
    BY DEF Whole
  <2>1. Len(pending'[q]) \in Nat
    BY LenProperties DEF TypeOK
  <2>2. \A j \in 1 .. i - 1 : pending'[q][j] = pending[q][j]
    BY <1>6, <2>1 DEF Places
  <2>3. d \in 1 .. pending[q][i][2] - 1 /\ i \in Places(q)
    BY <1>6
  <2>4. \/ <<pending[q][i][1], d>> \in attempted
        \/ \E j \in 1 .. i - 1 : pending[q][j] = <<pending[q][i][1], d>>
    BY <2>3 DEF Whole
  <2> QED
    BY <1>6, <2>2, <2>4
<1>15. NoneLost'
  <2> SUFFICES ASSUME Transactions, NEW x \in writes', NEW e \in 1 .. Entries,
                      x.state # "void", pc'[x.by] # "failed"
               PROVE  Ran(x, e)' \/ \E i \in Places(x.by)' : pending'[x.by][i] = <<x.id, e>>
    BY DEF NoneLost
  <2>1. PICK w \in writes : Now(w, x)
    BY <1>1
  <2>2. w.state # "void" /\ pc[w.by] # "failed"
    <3>1. depth[p] > 0 => pc[p] # "failed"
      BY <1>3 DEF Labelled
    <3> QED
      BY <1>2, <1>3, <1>4, <2>1, <3>1
  <2>3. Ran(w, e) \/ \E i \in Places(w.by) : pending[w.by][i] = <<w.id, e>>
    BY <2>2 DEF NoneLost
  <2>4. CASE Ran(w, e)
    BY <2>1, <2>4 DEF Ran
  <2>5. ASSUME NEW i \in Places(w.by), pending[w.by][i] = <<w.id, e>>
        PROVE  i \in Places(w.by)' /\ pending'[w.by][i] = <<w.id, e>>
    <3>1. CASE pending'[w.by] = pending[w.by]
      BY <2>5, <3>1 DEF Places
    <3>2. CASE w.by = p /\ state = "void"
      <4>1. InTransaction(p)
        BY <3>2, <2>1, <1>2, <1>3, <2>2 DEF InTransaction, Active
      <4>2. w.state = "open"
        BY <4>1, <3>2, <2>5 DEF Waits, WaitingState, Numbered
      <4> QED
        BY <4>2, <3>2, <2>1
    <3> QED
      BY <3>1, <3>2, <1>2, <1>3
  <2> QED
    BY <2>1, <2>3, <2>4, <2>5
<1>16. Prefixes'
  BY <1>1 DEF Prefixes, Ran
<1>17. InOrder'
  <2> SUFFICES ASSUME Transactions, NEW x \in writes', NEW y \in writes', NEW e \in 1 .. Entries,
                      x.by = y.by, x.id < y.id, x.state = "committed", Ran(y, e)
               PROVE  Ran(x, Entries)
    BY DEF InOrder, Ran
  <2>1. PICK v \in writes : Now(v, x)
    BY <1>1
  <2>2. PICK w \in writes : Now(w, y)
    BY <1>1
  <2>3. CASE v.state = "committed"
    BY <2>1, <2>2, <2>3 DEF InOrder, Ran
  <2>4. CASE v.state = "open" /\ v.by = p /\ state = "committed"
    <3>1. pc[p] # "failed" /\ e \in Nat
      BY <2>4, <1>3
    <3>3. ~Ran(v, e)
      BY <2>4 DEF Ran, AttemptedCommitted, Numbered
    <3>4. PICK i \in Places(p) : pending[p][i] = <<v.id, e>>
      BY <2>4, <3>1, <3>3 DEF NoneLost
    <3>5. Earlier(<<w.id, e>>, pending[p][i])
      BY <2>1, <2>2, <2>4 DEF AfterAttempted, Ran
    <3> QED
      BY <1>2, <2>1, <2>2, <3>1, <3>4, <3>5 DEF Earlier
  <2> QED
    BY <2>1, <2>3, <2>4
<1> QED
  BY <1>7, <1>8, <1>9, <1>10, <1>11, <1>12, <1>13, <1>14, <1>15, <1>16, <1>17

\* A write is made: its hooks wait behind all others.
LEMMA WrittenQueue ==
  ASSUME HooksAssumption, TypeOK, TypeOK', QueueInv, NEW p \in Procs, NEW r \in 0 .. MaxRows,
         Written(p, r), op[p] \in OpNames, pc[p] = "write"
  PROVE  QueueInv'
<1> USE DEF QueueInv
<1>0. PICK n, id, new : /\ n = Len(pending[p]) /\ id = serial + 1
                       /\ new = [id |-> id, op |-> op[p], row |-> r, by |-> p,
                                 state |-> WaitingState(p)]
  OBVIOUS
<1>1. id = serial' /\ id = serial + 1 /\ serial \in Nat /\ id \in 1 .. MaxWrites /\ Entries \in Nat
  BY <1>0 DEF Written, TypeOK, HooksAssumption
<1>2. writes' = writes \cup {new} /\ attempted' = attempted /\ depth' = depth
  BY <1>0, <1>1 DEF Written, WaitingState
<1>3. /\ new.id = id /\ new.by = p /\ new.state = WaitingState(p)
      /\ \A q \in Procs : InTransaction(q)' = InTransaction(q) /\ WaitingState(q)' = WaitingState(q)
  BY <1>0, <1>2 DEF WaitingState, InTransaction, Active
<1>4. /\ n \in Nat /\ n = Len(pending[p]) /\ Len(pending'[p]) = n + Entries
      /\ \A i \in 1 .. n : pending'[p][i] = pending[p][i]
      /\ \A i \in n + 1 .. n + Entries : pending'[p][i] = <<id, i - n>>
  <2>1. pending[p] \in Seq(Hook) /\ pending'[p] = pending[p] \o HooksOf(id)
    BY <1>1 DEF Written, TypeOK
  <2>2. /\ HooksOf(id) \in Seq(Hook) /\ Len(HooksOf(id)) = Entries
        /\ \A e \in 1 .. Entries : HooksOf(id)[e] = <<id, e>>
    BY <1>1, HooksOfType
  <2>3. n \in Nat
    BY <2>1, <1>0, LenProperties
  <2>4. /\ Len(pending'[p]) = n + Entries
        /\ \A i \in 1 .. n + Entries :
             pending'[p][i] = IF i <= n THEN pending[p][i] ELSE HooksOf(id)[i - n]
    <3>1. ASSUME NEW s \in Seq(Hook), NEW t \in Seq(Hook)
          PROVE  /\ Len(s \o t) = Len(s) + Len(t)
                 /\ \A i \in 1 .. Len(s) + Len(t) :
                      (s \o t)[i] = IF i <= Len(s) THEN s[i] ELSE t[i - Len(s)]
      BY ConcatProperties
    <3>2. PICK s, t, u : s = pending[p] /\ t = HooksOf(id) /\ u = pending'[p]
      OBVIOUS
    <3>3. s \in Seq(Hook) /\ t \in Seq(Hook) /\ u = s \o t /\ Len(s) = n /\ Len(t) = Entries
      BY <2>1, <2>2, <3>2, <1>0
    <3>4. /\ Len(u) = n + Entries
          /\ \A i \in 1 .. n + Entries : u[i] = IF i <= n THEN s[i] ELSE t[i - n]
      BY <3>1, <3>3
    <3> QED
      BY <3>2, <3>4
  <2>5. ASSUME NEW i \in n + 1 .. n + Entries
        PROVE  pending'[p][i] = <<id, i - n>>
    <3>1. i - n \in 1 .. Entries /\ i \in 1 .. n + Entries /\ ~(i <= n)
      BY <1>1, <2>3
    <3> QED
      BY <3>1, <2>2, <2>4
  <2>6. ASSUME NEW i \in 1 .. n
        PROVE  pending'[p][i] = pending[p][i]
    <3>1. i \in 1 .. n + Entries /\ i <= n
      BY <1>1, <2>3
    <3> QED
      BY <3>1, <2>4
  <2> QED
    BY <1>0, <2>3, <2>4, <2>5, <2>6
<1>5. \A q \in Procs \ {p} : pending'[q] = pending[q] /\ pc'[q] = pc[q]
  BY DEF Written, Back, Goto, TypeOK
<1>6. \A q \in Procs : \A i \in Places(q) : pending[q][i][1] \in Nat /\ pending[q][i][1] <= serial
  <2> SUFFICES ASSUME NEW q \in Procs, NEW i \in Places(q)
               PROVE  pending[q][i][1] \in Nat /\ pending[q][i][1] <= serial
    OBVIOUS
  <2>1. PICK w \in writes : w.id = pending[q][i][1]
    BY DEF Waits
  <2>2. w \in Write /\ w.id <= serial
    BY DEF Numbered, TypeOK
  <2> QED
    BY <2>1, <2>2 DEF Write
<1>7. \A h \in attempted : h[1] \in Nat /\ h[1] <= serial
  <2> SUFFICES ASSUME NEW h \in attempted
               PROVE  h[1] \in Nat /\ h[1] <= serial
    OBVIOUS
  <2>1. PICK w \in writes : w.id = h[1]
    BY DEF AttemptedCommitted
  <2>2. w \in Write /\ w.id <= serial
    BY DEF Numbered, TypeOK
  <2> QED
    BY <2>1, <2>2 DEF Write
<1>8. \A w \in writes : w.id \in Nat /\ w.id <= serial /\ w.by \in Procs
  <2> SUFFICES ASSUME NEW w \in writes
               PROVE  w.id \in Nat /\ w.id <= serial /\ w.by \in Procs
    OBVIOUS
  <2>1. w \in Write /\ w.id <= serial
    BY DEF Numbered, TypeOK
  <2> QED
    BY <2>1 DEF Write
<1>9. \A e : ~Ran(new, e)
  BY <1>1, <1>3, <1>7 DEF Ran
<1>10. pending'[p] \in Seq(Hook) /\ \A q \in Procs : Len(pending'[q]) \in Nat /\ Len(pending[q]) \in Nat
  BY LenProperties DEF TypeOK
<1>11. Numbered'
  BY <1>1, <1>2, <1>3, <1>8 DEF Numbered
<1>12. OpenInside'
  BY <1>2, <1>3, <1>8 DEF OpenInside, WaitingState
<1>13. Labelled'
  <2>1. pc'[p] = IF depth[p] > 0 THEN "body" ELSE "run"
    BY DEF Written, Back, Goto, Active, TypeOK
  <2>2. depth[p] \in Nat
    BY DEF TypeOK
  <2> QED
    BY <1>2, <1>5, <2>1, <2>2 DEF Labelled
<1>14. AttemptedCommitted'
  BY <1>2 DEF AttemptedCommitted
<1>15. Waits'
  <2> SUFFICES ASSUME NEW q \in Procs, NEW i \in Places(q)'
               PROVE  /\ pending'[q][i] \notin attempted
                      /\ \E w \in writes' : w.id = pending'[q][i][1] /\ w.by = q
                                            /\ w.state = WaitingState(q)
    BY <1>2, <1>3 DEF Waits
  <2>1. CASE i \in Places(q) /\ pending'[q][i] = pending[q][i]
    BY <2>1, <1>2 DEF Waits
  <2>2. CASE q = p /\ i \in n + 1 .. n + Entries
    <3>1. pending'[q][i][1] = id
      BY <2>2, <1>1, <1>4
    <3>2. id > serial /\ id \in Nat
      BY <1>1
    <3> QED
      BY <2>2, <3>1, <3>2, <1>1, <1>2, <1>3, <1>7
  <2>3. CASE q # p
    BY <2>1, <2>3, <1>5 DEF Places
  <2>4. CASE q = p
    <3>1. i \in 1 .. n \/ i \in n + 1 .. n + Entries
      BY <2>4, <1>1, <1>4, <1>10 DEF Places
    <3>2. CASE i \in 1 .. n
      BY <2>1, <2>4, <3>2, <1>1, <1>4 DEF Places
    <3> QED
      BY <2>2, <2>4, <3>1, <3>2
  <2> QED
    BY <2>3, <2>4
<1>16. Sorted'
  <2> SUFFICES ASSUME NEW q \in Procs, NEW i \in Places(q)', NEW j \in Places(q)', i < j
               PROVE  Earlier(pending'[q][i], pending'[q][j])
    BY DEF Sorted
  <2>1. CASE q # p
    BY <2>1, <1>5 DEF Sorted, Places
  <2>2. CASE q = p /\ j <= n
    BY <2>2, <1>4, <1>10 DEF Sorted, Places
  <2>3. CASE q = p /\ i <= n /\ j > n
    <3>1. i \in 1 .. n /\ j \in n + 1 .. n + Entries
      BY <2>3, <1>1, <1>4, <1>10 DEF Places
    <3>2. i \in Places(p) /\ pending'[p][i] = pending[p][i] /\ pending'[p][j] = <<id, j - n>>
      BY <3>1, <1>1, <1>4 DEF Places
    <3>3. pending[p][i][1] \in Nat /\ pending[p][i][1] <= serial
      BY <3>2, <1>6
    <3>4. pending[p][i][1] < id /\ pending'[p][j][1] = id
      BY <3>2, <3>3, <1>1
    <3> QED
      BY <2>3, <3>2, <3>4 DEF Earlier
  <2>4. CASE q = p /\ i > n
    <3>0. i \in n + 1 .. n + Entries /\ j \in n + 1 .. n + Entries
      BY <2>4, <1>1, <1>4, <1>10 DEF Places
    <3>1. pending'[p][i] = <<id, i - n>> /\ pending'[p][j] = <<id, j - n>>
      BY <3>0, <1>4
    <3> QED
      BY <2>4, <3>1, <1>4 DEF Earlier, Places
  <2> QED
    BY <2>1, <2>2, <2>3, <2>4, <1>4, <1>10 DEF Places
<1>17. AfterAttempted'
  <2> SUFFICES ASSUME NEW q \in Procs, NEW i \in Places(q)', NEW w \in writes',
                      NEW e \in 1 .. Entries, w.by = q, Ran(w, e)
               PROVE  Earlier(<<w.id, e>>, pending'[q][i])
    BY <1>2 DEF AfterAttempted, Ran
  <2>1. w \in writes
    BY <1>2, <1>9
  <2>2. CASE i \in Places(q) /\ pending'[q][i] = pending[q][i]
    BY <2>1, <2>2 DEF AfterAttempted
  <2>3. CASE q = p /\ i \in n + 1 .. n + Entries
    <3>1. pending'[q][i] = <<id, i - n>>
      BY <2>3, <1>1, <1>4
    <3>2. w.id \in Nat /\ w.id < id
      BY <2>1, <1>1, <1>8
    <3> QED
      BY <3>1, <3>2 DEF Earlier
  <2>4. CASE q # p
    BY <2>2, <2>4, <1>5 DEF Places
  <2>5. CASE q = p
    <3>1. i \in 1 .. n \/ i \in n + 1 .. n + Entries
      BY <2>5, <1>1, <1>4, <1>10 DEF Places
    <3>2. CASE i \in 1 .. n
      BY <2>2, <2>5, <3>2, <1>1, <1>4 DEF Places
    <3> QED
      BY <2>3, <2>5, <3>1, <3>2
  <2> QED
    BY <2>4, <2>5
<1>18. Whole'
  <2> SUFFICES ASSUME NEW q \in Procs, NEW i \in Places(q)', NEW d \in 1 .. pending'[q][i][2] - 1
               PROVE  \/ <<pending'[q][i][1], d>> \in attempted
                      \/ \E j \in 1 .. i - 1 : pending'[q][j] = <<pending'[q][i][1], d>>
    BY <1>2 DEF Whole
  <2>1. CASE q # p \/ i <= n
    <3>1. i \in Places(q) /\ \A j \in 1 .. i : pending'[q][j] = pending[q][j]
      BY <2>1, <1>4, <1>5, <1>10 DEF Places
    <3>2. pending'[q][i] = pending[q][i] /\ \A j \in 1 .. i - 1 : pending'[q][j] = pending[q][j]
      BY <3>1, <1>10 DEF Places
    <3>3. \/ <<pending[q][i][1], d>> \in attempted
          \/ \E j \in 1 .. i - 1 : pending[q][j] = <<pending[q][i][1], d>>
      BY <3>1, <3>2 DEF Whole
    <3> QED
      BY <3>2, <3>3
  <2>2. CASE q = p /\ i > n
    <3>1. i \in n + 1 .. n + Entries
      BY <2>2, <1>1, <1>4, <1>10 DEF Places
    <3>2. pending'[p][i] = <<id, i - n>>
      BY <3>1, <1>4
    <3>3. d \in 1 .. i - n - 1
      BY <2>2, <3>2
    <3>4. n + d \in n + 1 .. n + Entries /\ n + d \in 1 .. i - 1 /\ (n + d) - n = d
      BY <3>1, <3>3, <1>1, <1>4
    <3>5. pending'[p][n + d] = <<id, d>>
      BY <3>4, <1>4
    <3> QED
      BY <2>2, <3>2, <3>4, <3>5
  <2>3. i \in Int
    BY DEF Places
  <2> QED
    BY <2>1, <2>2, <2>3, <1>4
<1>19. NoneLost'
  <2> SUFFICES ASSUME Transactions, NEW w \in writes', NEW e \in 1 .. Entries,
                      w.state # "void", pc'[w.by] # "failed"
               PROVE  Ran(w, e) \/ \E i \in Places(w.by)' : pending'[w.by][i] = <<w.id, e>>
    BY <1>2 DEF NoneLost, Ran
  <2>1. CASE w \in writes
    <3>1. pc[w.by] # "failed"
      BY <2>1, <1>5, <1>8
    <3>2. Ran(w, e) \/ \E i \in Places(w.by) : pending[w.by][i] = <<w.id, e>>
      BY <2>1, <3>1 DEF NoneLost
    <3>3. \A i \in Places(w.by) : i \in Places(w.by)' /\ pending'[w.by][i] = pending[w.by][i]
      <4>1. CASE w.by = p
        BY <4>1, <1>1, <1>4 DEF Places
      <4>2. CASE w.by # p
        BY <4>2, <2>1, <1>5, <1>8 DEF Places
      <4> QED
        BY <4>1, <4>2
    <3> QED
      BY <3>2, <3>3
  <2>2. CASE w = new
    <3>1. n + e \in n + 1 .. n + Entries /\ n + e \in Places(p)' /\ (n + e) - n = e
      BY <1>1, <1>4 DEF Places
    <3>2. pending'[p][n + e] = <<id, e>>
      BY <3>1, <1>4
    <3> QED
      BY <2>2, <3>1, <3>2, <1>3
  <2> QED
    BY <2>1, <2>2, <1>2
<1>20. Prefixes'
  BY <1>2, <1>9 DEF Prefixes, Ran
<1>21. InOrder'
  <2> SUFFICES ASSUME Transactions, NEW v \in writes', NEW w \in writes', NEW e \in 1 .. Entries,
                      v.by = w.by, v.id < w.id, v.state = "committed", Ran(w, e)
               PROVE  Ran(v, Entries)
    BY <1>2 DEF InOrder, Ran
  <2>1. w \in writes
    BY <1>2, <1>9
  <2>2. v \in writes
    BY <2>1, <1>1, <1>2, <1>3, <1>8
  <2> QED
    BY <2>1, <2>2 DEF InOrder
<1> QED
  BY <1>11, <1>12, <1>13, <1>14, <1>15, <1>16, <1>17, <1>18, <1>19, <1>20, <1>21

\* The first hook that waits is run; then the others wait on, or are dropped with the
\* call.
LEMMA RunQueue ==
  ASSUME HooksAssumption, TypeOK, TypeOK', QueueInv, NEW p \in Procs, pc[p] \in {"run", "drain"},
         pending[p] # <<>>, attempted' = attempted \cup {Head(pending[p])},
         writes' = writes, serial' = serial, depth' = depth,
         \/ pending' = [pending EXCEPT ![p] = Tail(@)] /\ pc' = pc
         \/ pending' = [pending EXCEPT ![p] = <<>>] /\ pc' = [pc EXCEPT ![p] = "failed"]
  PROVE  QueueInv'
<1> USE DEF QueueInv
<1> DEFINE n == Len(pending[p])
           h == pending[p][1]
<1>1. /\ pending[p] \in Seq(Hook) /\ n \in Nat \ {0} /\ Head(pending[p]) = h /\ h \in Hook
      /\ Tail(pending[p]) \in Seq(Hook) /\ Len(Tail(pending[p])) = n - 1
      /\ \A i \in 1 .. n - 1 : Tail(pending[p])[i] = pending[p][i + 1]
  BY EmptySeq, HeadTailProperties DEF TypeOK
<1>2. 1 \in Places(p)
  BY <1>1 DEF Places
<1>3. depth[p] = 0 /\ ~InTransaction(p) /\ WaitingState(p) = "committed"
  BY DEF Labelled, InTransaction, Active, WaitingState
<1>4. PICK z \in writes : z.id = h[1] /\ z.by = p /\ z.state = "committed"
  BY <1>2, <1>3 DEF Waits
<1>5. h \notin attempted /\ attempted' = attempted \cup {h}
  BY <1>1, <1>2 DEF Waits
<1>6. h = <<z.id, h[2]>> /\ h[2] \in 1 .. Entries /\ z.id \in Nat
  <2>1. h = <<h[1], h[2]>> /\ h[2] \in 1 .. Entries /\ h[1] \in 1 .. MaxWrites
    BY <1>1 DEF Hook
  <2> HIDE DEF h
  <2> QED
    BY <2>1, <1>4
<1>7. \A q \in Procs : InTransaction(q)' = InTransaction(q) /\ WaitingState(q)' = WaitingState(q)
  BY DEF WaitingState, InTransaction, Active
<1>8. \A q \in Procs \ {p} : pending'[q] = pending[q] /\ pc'[q] = pc[q]
  BY DEF TypeOK
<1>9. \A i \in Places(p)' : i + 1 \in Places(p) /\ i + 1 > 1 /\ i + 1 # 1 /\ pending'[p][i] = pending[p][i + 1]
  <2>1. CASE pending' = [pending EXCEPT ![p] = Tail(@)]
    <3>1. pending'[p] = Tail(pending[p])
      BY <2>1 DEF TypeOK
    <3> QED
      BY <3>1, <1>1 DEF Places
  <2>2. CASE pending' = [pending EXCEPT ![p] = <<>>]
    <3>1. Len(pending'[p]) = 0
      BY <2>2, EmptySeq DEF TypeOK
    <3> QED
      BY <3>1 DEF Places
  <2> QED
    BY <2>1, <2>2
<1>10. \A w \in writes : w.id \in Nat /\ w.by \in Procs
  <2>1. \A w \in writes : w \in Write
    BY DEF TypeOK
  <2> QED
    BY <2>1 DEF Write
<1>11. \A w \in writes : w.id = h[1] => w = z
  BY <1>4 DEF Numbered
<1>12. \A i \in Places(p) : i # 1 => Earlier(h, pending[p][i]) /\ pending[p][i] # h
  <2> SUFFICES ASSUME NEW i \in Places(p), i # 1
               PROVE  Earlier(h, pending[p][i]) /\ pending[p][i] # h
    OBVIOUS
  <2>1. Earlier(h, pending[p][i])
    BY <1>1, <1>2 DEF Sorted, Places
  <2> QED
    BY <2>1, <1>6 DEF Earlier
\* The hooks of the same write before this one were run.
<1>13. \A d \in 1 .. h[2] - 1 : Ran(z, d)
  BY <1>2, <1>4 DEF Whole, Ran
<1> HIDE DEF n, h
<1>14. Numbered' /\ AttemptedCommitted'
  BY <1>4, <1>5 DEF Numbered, AttemptedCommitted
<1>15. OpenInside'
  BY <1>7, <1>10 DEF OpenInside
<1>16. Labelled'
  BY <1>3, <1>8, EmptySeq DEF Labelled, TypeOK
<1>17. Waits'
  <2> SUFFICES ASSUME NEW q \in Procs, NEW i \in Places(q)'
               PROVE  /\ pending'[q][i] \notin attempted \cup {h}
                      /\ \E w \in writes : w.id = pending'[q][i][1] /\ w.by = q
                                           /\ w.state = WaitingState(q)
    BY <1>5, <1>7 DEF Waits
  <2>1. CASE q = p
    BY <2>1, <1>9, <1>12 DEF Waits
  <2>2. CASE q # p
    <3>1. i \in Places(q) /\ pending'[q][i] = pending[q][i]
      BY <2>2, <1>8 DEF Places
    <3>2. pending[q][i][1] # h[1]
      BY <2>2, <3>1, <1>4, <1>11 DEF Waits
    <3> QED
      BY <3>1, <3>2 DEF Waits
  <2> QED
    BY <2>1, <2>2
<1>18. Sorted'
  <2> SUFFICES ASSUME NEW q \in Procs, NEW i \in Places(q)', NEW j \in Places(q)', i < j
               PROVE  Earlier(pending'[q][i], pending'[q][j])
    BY DEF Sorted
  <2>1. CASE q = p
    <3>1. i \in Int /\ j \in Int /\ i + 1 < j + 1
      BY DEF Places
    <3> QED
      BY <2>1, <3>1, <1>9 DEF Sorted
  <2>2. CASE q # p
    BY <2>2, <1>8 DEF Sorted, Places
  <2> QED
    BY <2>1, <2>2
<1>19. AfterAttempted'
  <2> SUFFICES ASSUME NEW q \in Procs, NEW i \in Places(q)', NEW w \in writes,
                      NEW e \in 1 .. Entries, w.by = q, Ran(w, e)'
               PROVE  Earlier(<<w.id, e>>, pending'[q][i])
    BY DEF AfterAttempted, Ran
  <2>1. PICK j \in Places(q) : pending'[q][i] = pending[q][j] /\ (q = p => j # 1)
    BY <1>8, <1>9 DEF Places
  <2>2. CASE Ran(w, e)
    BY <2>1, <2>2 DEF AfterAttempted
  <2>3. CASE <<w.id, e>> = h
    <3>1. w = z /\ q = p
      BY <2>3, <1>4, <1>11
    <3> QED
      BY <2>1, <2>3, <3>1, <1>12
  <2> QED
    BY <2>2, <2>3, <1>5 DEF Ran
<1>20. Whole'
  <2> SUFFICES ASSUME NEW q \in Procs, NEW i \in Places(q)', NEW d \in 1 .. pending'[q][i][2] - 1
               PROVE  \/ <<pending'[q][i][1], d>> \in attempted'
                      \/ \E j \in 1 .. i - 1 : pending'[q][j] = <<pending'[q][i][1], d>>
    BY DEF Whole
  <2>1. CASE q # p
    <3>1. pending'[q] = pending[q] /\ i \in Places(q)
      BY <2>1, <1>8 DEF Places
    <3>2. \/ <<pending[q][i][1], d>> \in attempted
          \/ \E j \in 1 .. i - 1 : pending[q][j] = <<pending[q][i][1], d>>
      BY <3>1 DEF Whole
    <3> QED
      BY <3>1, <3>2, <1>5
  <2>2. CASE q = p
    <3>1. i + 1 \in Places(p) /\ pending'[p][i] = pending[p][i + 1] /\ i \in Nat
      BY <2>2, <1>9 DEF Places
    <3>2. \/ <<pending[p][i + 1][1], d>> \in attempted
          \/ \E j \in 1 .. (i + 1) - 1 : pending[p][j] = <<pending[p][i + 1][1], d>>
      BY <2>2, <3>1 DEF Whole
    <3>3. ASSUME NEW j \in 1 .. (i + 1) - 1, pending[p][j] = <<pending[p][i + 1][1], d>>
          PROVE  \/ <<pending'[p][i][1], d>> \in attempted'
                 \/ \E k \in 1 .. i - 1 : pending'[p][k] = <<pending'[p][i][1], d>>
      <4>1. CASE j = 1
        BY <3>1, <3>3, <4>1, <1>5 DEF h
      <4>2. CASE j # 1
        <5>1. j - 1 \in 1 .. i - 1 /\ j - 1 \in Places(p)' /\ (j - 1) + 1 = j
          BY <2>2, <3>1, <4>2 DEF Places
        <5>2. pending'[p][j - 1] = pending[p][j]
          BY <5>1, <1>9
        <5> QED
          BY <3>1, <3>3, <5>1, <5>2
      <4> QED
        BY <4>1, <4>2
    <3> QED
      BY <2>2, <3>1, <3>2, <3>3, <1>5
  <2> QED
    BY <2>1, <2>2
<1>21. NoneLost'
  <2> SUFFICES ASSUME Transactions, NEW w \in writes, NEW e \in 1 .. Entries,
                      w.state # "void", pc'[w.by] # "failed"
               PROVE  Ran(w, e)' \/ \E i \in Places(w.by)' : pending'[w.by][i] = <<w.id, e>>
    BY DEF NoneLost, Ran
  <2>1. CASE w.by # p
    <3>1. pc[w.by] # "failed" /\ pending'[w.by] = pending[w.by]
      BY <2>1, <1>8, <1>10
    <3>2. Ran(w, e) \/ \E i \in Places(w.by) : pending[w.by][i] = <<w.id, e>>
      BY <3>1 DEF NoneLost
    <3> QED
      BY <3>1, <3>2, <1>5 DEF Ran, Places
  <2>2. CASE w.by = p
    <3>1. pending' = [pending EXCEPT ![p] = Tail(@)]
      BY <2>2 DEF TypeOK
    <3>2. pending'[p] = Tail(pending[p])
      BY <3>1 DEF TypeOK
    <3>3. Ran(w, e) \/ \E i \in Places(p) : pending[p][i] = <<w.id, e>>
      BY <2>2 DEF NoneLost
    <3>4. ASSUME NEW i \in Places(p), pending[p][i] = <<w.id, e>>, i # 1
          PROVE  i - 1 \in Places(p)' /\ pending'[p][i - 1] = <<w.id, e>>
      <4>1. i - 1 \in 1 .. n - 1 /\ (i - 1) + 1 = i
        BY <3>4, <1>1 DEF Places, n
      <4> QED
        BY <3>2, <3>4, <4>1, <1>1 DEF Places
    <3>5. ASSUME pending[p][1] = <<w.id, e>>
          PROVE  Ran(w, e)'
      BY <3>5, <1>5 DEF Ran, h
    <3> QED
      BY <2>2, <3>3, <3>4, <3>5, <1>5 DEF Ran
  <2> QED
    BY <2>1, <2>2
<1>22. Prefixes'
  <2> SUFFICES ASSUME NEW w \in writes, NEW e \in 1 .. Entries, Ran(w, e)', NEW d \in 1 .. e - 1
               PROVE  Ran(w, d)'
    BY DEF Prefixes, Ran
  <2>1. CASE Ran(w, e)
    BY <2>1, <1>5 DEF Prefixes, Ran
  <2>2. CASE <<w.id, e>> = h
    <3>1. w = z /\ h[2] = e
      BY <2>2, <1>11
    <3> QED
      BY <3>1, <1>5, <1>13 DEF Ran
  <2> QED
    BY <2>1, <2>2, <1>5 DEF Ran
<1>23. InOrder'
  <2> SUFFICES ASSUME Transactions, NEW v \in writes, NEW w \in writes, NEW e \in 1 .. Entries,
                      v.by = w.by, v.id < w.id, v.state = "committed", Ran(w, e)'
               PROVE  Ran(v, Entries)'
    BY DEF InOrder, Ran
  <2>1. CASE Ran(w, e)
    BY <2>1, <1>5 DEF InOrder, Ran
  <2>2. CASE <<w.id, e>> = h
    <3>1. w = z /\ v.by = p /\ Entries \in 1 .. Entries /\ pc[p] # "failed"
      <4>1. Entries \in 1 .. Entries
        BY DEF HooksAssumption
      <4> QED
        BY <2>2, <4>1, <1>4, <1>11
    <3>2. Ran(v, Entries) \/ \E i \in Places(p) : pending[p][i] = <<v.id, Entries>>
      BY <3>1 DEF NoneLost
    <3>3. ASSUME NEW i \in Places(p), pending[p][i] = <<v.id, Entries>>
          PROVE  FALSE
      <4>1. i # 1
        BY <3>1, <3>3, <1>4, <1>10 DEF h
      <4>2. Earlier(h, pending[p][i])
        BY <4>1, <1>12
      <4> QED
        BY <2>2, <3>1, <3>3, <4>2, <1>4, <1>10 DEF Earlier
    <3> QED
      BY <3>2, <3>3, <1>5 DEF Ran
  <2> QED
    BY <2>1, <2>2, <1>5 DEF Ran
<1> QED
  BY <1>14, <1>15, <1>16, <1>17, <1>18, <1>19, <1>20, <1>21, <1>22, <1>23

-----------------------------------------------------------------------------
(* Rows.                                                                   *)

LEMMA QuietRows ==
  ASSUME RowInv, table' = table, nextRow' = nextRow, gone' = gone, writes' = writes,
         \A q \in Procs : InTransaction(q) => InTransaction(q)'
  PROVE  RowInv'
BY DEF RowInv

LEMMA EndRows ==
  ASSUME TypeOK, TypeOK', RowInv, NEW p \in Procs, NEW state \in {"committed", "void"},
         EndTransaction(p, state), nextRow' = nextRow,
         \/ state = "committed" /\ table' = table
         \/ state = "void" /\ table' = (table \ fresh[p]) \cup gone[p]
  PROVE  RowInv'
<1> USE DEF RowInv
<1>1. gone'[p] = {} /\ \A q \in Procs \ {p} : gone'[q] = gone[q] /\ depth'[q] = depth[q]
  BY DEF EndTransaction, TypeOK
<1>2. \A r \in table' : r < nextRow'
  OBVIOUS
<1>3. \A q \in Procs : /\ \A r \in gone'[q] : r < nextRow'
                       /\ ~InTransaction(q)' => gone'[q] = {}
  BY <1>1 DEF InTransaction, Active
<1>4. ASSUME NEW x \in writes', x.op = "consume", x.state # "void"
      PROVE  /\ x.row < nextRow' /\ x.row \notin table'
             /\ \A q \in Procs : x.row \in gone'[q] => q = x.by /\ x.state = "open"
  <2>1. PICK w \in writes :
          /\ x.id = w.id /\ x.op = w.op /\ x.row = w.row /\ x.by = w.by
          /\ x.state = IF w.by = p /\ w.state = "open" THEN state ELSE w.state
    BY EndWrites
  <2>2. /\ w.state # "void" /\ w.row < nextRow /\ w.row \notin table
        /\ \A q \in Procs : w.row \in gone[q] => q = w.by /\ w.state = "open"
    BY <1>4, <2>1
  <2>3. state = "void" => w.row \notin gone[p]
    BY <1>4, <2>1, <2>2
  <2> QED
    BY <1>1, <2>1, <2>2, <2>3
<1>5. ASSUME NEW x \in writes', NEW y \in writes', x.op = "consume", y.op = "consume",
             x.row = y.row, x.state # "void", y.state # "void"
      PROVE  x = y
  <2> DEFINE end(w) == IF w.by = p /\ w.state = "open" THEN [w EXCEPT !.state = state] ELSE w
  <2>1. writes' = {end(w) : w \in writes}
    BY DEF EndTransaction
  <2>2. PICK v \in writes, w \in writes : x = end(v) /\ y = end(w)
    BY <2>1
  <2>3. v \in Write /\ w \in Write
    BY DEF TypeOK
  <2>4. v.op = "consume" /\ w.op = "consume" /\ v.row = w.row
        /\ v.state # "void" /\ w.state # "void"
    BY <1>5, <2>2, <2>3 DEF Write
  <2> QED
    BY <2>2, <2>4
<1> QED
  BY <1>2, <1>3, <1>4, <1>5

\* A write that consumes nothing.
LEMMA OtherRows ==
  ASSUME TypeOK, TypeOK', RowInv, NEW p \in Procs, NEW r \in 0 .. MaxRows, Written(p, r),
         op[p] # "consume", nextRow' >= nextRow,
         \A x \in table' : x \in table \/ (x = nextRow /\ nextRow' > nextRow),
         \A q \in Procs : /\ gone'[q] \subseteq gone[q] \cup table
                          /\ ~InTransaction(q) => gone'[q] = gone[q]
  PROVE  RowInv'
<1> USE DEF RowInv
<1> DEFINE z == [id |-> serial', op |-> op[p], row |-> r, by |-> p,
                 state |-> IF InTransaction(p) THEN "open" ELSE "committed"]
<1>0. writes' = writes \cup {z} /\ z.op = op[p]
  BY DEF Written
<1>1. PICK new : writes' = writes \cup {new} /\ new.op = op[p]
  BY <1>0
<1> HIDE DEF z
<1>2. \A q \in Procs : InTransaction(q)' = InTransaction(q)
  BY DEF Written, InTransaction, Active
<1>3. /\ nextRow \in Nat /\ nextRow' \in Nat /\ table \subseteq Nat /\ table' \subseteq Nat
      /\ \A q \in Procs : gone[q] \subseteq Nat /\ gone'[q] \subseteq Nat
      /\ \A w \in writes : w.row \in Nat
  <2>1. \A w \in writes : w \in Write
    BY DEF TypeOK
  <2>2. \A w \in writes : w.row \in Nat
    BY <2>1 DEF Write
  <2>3. nextRow \in Nat /\ nextRow' \in Nat /\ table \subseteq Nat /\ table' \subseteq Nat
    BY DEF TypeOK
  <2>4. ASSUME NEW q \in Procs
        PROVE  gone[q] \subseteq Nat /\ gone'[q] \subseteq Nat
    <3>1. gone[q] \in SUBSET (1 .. MaxRows) /\ gone'[q] \in SUBSET (1 .. MaxRows)
      BY DEF TypeOK
    <3> QED
      BY <3>1
  <2> QED
    BY <2>2, <2>3, <2>4
<1>4. \A x \in table' : x < nextRow'
  <2> SUFFICES ASSUME NEW x \in table'
               PROVE  x < nextRow'
    OBVIOUS
  <2>1. x \in Nat /\ (x < nextRow \/ (x = nextRow /\ nextRow' > nextRow))
    BY <1>3
  <2> QED
    BY <1>3, <2>1
<1>5. \A q \in Procs : /\ \A x \in gone'[q] : x < nextRow'
                       /\ ~InTransaction(q)' => gone'[q] = {}
  BY <1>2, <1>3
<1>6. ASSUME NEW w \in writes', w.op = "consume", w.state # "void"
      PROVE  /\ w \in writes /\ w.row < nextRow' /\ w.row \notin table'
             /\ \A q \in Procs : w.row \in gone'[q] => q = w.by /\ w.state = "open"
  <2>1. w \in writes
    BY <1>1, <1>6
  <2> QED
    BY <1>3, <1>6, <2>1
<1> QED
  BY <1>4, <1>5, <1>6

\* A row that is consumed was there, so nobody else has consumed it.
LEMMA ConsumedRows ==
  ASSUME TypeOK, TypeOK', RowInv, NEW p \in Procs, NEW r \in 0 .. MaxRows, Written(p, r),
         r \in table, Delete(p, r), Unlocked(p, r)
  PROVE  RowInv'
<1> USE DEF RowInv
<1> DEFINE z == [id |-> serial', op |-> op[p], row |-> r, by |-> p,
                 state |-> IF InTransaction(p) THEN "open" ELSE "committed"]
<1>0. /\ writes' = writes \cup {z} /\ z.row = r /\ z.by = p
      /\ z.state = IF InTransaction(p) THEN "open" ELSE "committed"
  BY DEF Written
<1>1. PICK new : /\ writes' = writes \cup {new} /\ new.row = r /\ new.by = p
                 /\ new.state = IF InTransaction(p) THEN "open" ELSE "committed"
  <2> HIDE DEF z
  <2> QED
    BY <1>0
<1>2. \A q \in Procs : InTransaction(q)' = InTransaction(q)
  BY DEF Written, InTransaction, Active
<1>3. /\ table' = table \ {r} /\ nextRow' = nextRow /\ r < nextRow
      /\ \A q \in Procs \ {p} : gone'[q] = gone[q] /\ r \notin gone[q]
      /\ gone'[p] \subseteq gone[p] \cup {r} /\ (~InTransaction(p) => gone'[p] = {})
  BY DEF Delete, Unlocked, TypeOK
<1>4. ASSUME NEW w \in writes, w.op = "consume", w.state # "void"
      PROVE  /\ w.row < nextRow' /\ w.row \notin table' /\ w.row # r
             /\ \A q \in Procs : w.row \in gone'[q] => q = w.by /\ w.state = "open"
  BY <1>3, <1>4
<1>5. /\ new.row < nextRow' /\ new.row \notin table'
      /\ \A q \in Procs : new.row \in gone'[q] => q = new.by /\ new.state = "open"
  BY <1>1, <1>3
<1>6. \A x \in table' : x < nextRow'
  BY <1>3
<1>7. \A q \in Procs : /\ \A x \in gone'[q] : x < nextRow'
                       /\ ~InTransaction(q)' => gone'[q] = {}
  BY <1>2, <1>3
<1> QED
  BY <1>1, <1>4, <1>5, <1>6, <1>7

-----------------------------------------------------------------------------
(* The invariant is inductive.                                             *)

\* Steps of a call that writes nothing and runs no hook.
LEMMA QuietStep ==
  ASSUME TypeOK, TypeOK', QueueInv, RowInv, NEW p \in Procs,
         UNCHANGED data, pending' = pending, attempted' = attempted,
         \A q \in Procs \ {p} : depth'[q] = depth[q] /\ pc'[q] = pc[q],
         \/ /\ pc[p] \in {"body", "write"} /\ pc'[p] \in {"body", "write"}
            /\ depth'[p] = 0 => depth[p] = 0
         \/ /\ pc[p] \in {"run", "drain"} /\ pending[p] = <<>>
            /\ pc'[p] = "body" /\ depth'[p] = depth[p]
  PROVE  QueueInv' /\ RowInv'
<1>1. \A q \in Procs : InTransaction(q) => InTransaction(q)'
  BY DEF InTransaction, Active, TypeOK
<1>2. \A q \in Procs : pending[q] = <<>> \/ (InTransaction(q)' <=> InTransaction(q))
  <2>1. depth[p] = 0 => pending[p] = <<>>
    BY DEF QueueInv, Labelled
  <2>2. depth[p] \in Nat /\ depth'[p] \in Nat
    BY DEF TypeOK
  <2>3. CASE depth[p] = 0
    BY <2>1, <2>3 DEF InTransaction, Active
  <2>4. CASE depth[p] # 0
    <3>1. depth[p] > 0 /\ depth'[p] > 0
      BY <2>2, <2>4
    <3> QED
      BY <3>1 DEF InTransaction, Active
  <2> QED
    BY <2>3, <2>4
<1>3. Labelled'
  BY DEF QueueInv, Labelled
<1>4. OpenInside'
  <2>1. \A w \in writes : w \in Write
    BY DEF TypeOK
  <2>2. \A w \in writes : w.by \in Procs
    BY <2>1 DEF Write
  <2> QED
    BY <1>1, <2>2 DEF QueueInv, OpenInside, data
<1>5. \A q \in Procs : pc'[q] # "failed" => pc[q] # "failed"
  OBVIOUS
<1> QED
  BY <1>1, <1>2, <1>3, <1>4, <1>5, QuietQueue, QuietRows DEF data

LEMMA InvStep ==
  ASSUME HooksAssumption, IInv, [Next]_vars
  PROVE  IInv'
<1> USE DEF IInv
<1>1. TypeOK'
  BY TypeStep
<1>2. CASE UNCHANGED vars
  <2>1. \A q \in Procs : InTransaction(q)' = InTransaction(q)
    BY <1>2 DEF vars, InTransaction, Active
  <2>2. Labelled' /\ OpenInside'
    BY <1>2 DEF vars, QueueInv, Labelled, OpenInside, InTransaction, Active
  <2> QED
    BY <1>1, <1>2, <2>1, <2>2, QuietQueue, QuietRows DEF vars
<1>3. ASSUME NEW p \in Procs, Step(p)
      PROVE  QueueInv' /\ RowInv'
  <2> USE <1>1, <1>3
  <2>1. CASE Begin(p)
    <3>1. depth[p] \in Nat /\ depth'[p] = depth[p] + 1
          /\ \A q \in Procs \ {p} : depth'[q] = depth[q]
      BY <2>1 DEF Begin, TypeOK
    <3>2. depth'[p] # 0
      BY <3>1
    <3> QED
      BY <2>1, <3>1, <3>2, QuietStep DEF Begin
  <2>2. CASE Leave(p)
    <3>1. depth[p] \in Nat /\ depth'[p] = depth[p] - 1
          /\ \A q \in Procs \ {p} : depth'[q] = depth[q]
      BY <2>2 DEF Leave, TypeOK
    <3>2. depth'[p] # 0
      BY <2>2, <3>1 DEF Leave
    <3> QED
      BY <2>2, <3>1, <3>2, QuietStep DEF Leave
  <2>3. CASE Commit(p)
    <3>1. depth[p] > 0 /\ pc' = [pc EXCEPT ![p] = "drain"] /\ EndTransaction(p, "committed")
      BY <2>3 DEF Commit, Goto
    <3>2. QueueInv'
      BY <2>3, <3>1, EndQueue DEF Commit
    <3> QED
      BY <2>3, <3>2, EndRows DEF Commit
  <2>4. CASE Rollback(p)
    <3>1. /\ depth[p] > 0 /\ pc' = [pc EXCEPT ![p] = "drain"] /\ EndTransaction(p, "void")
          /\ pending' = [pending EXCEPT ![p] = <<>>]
      BY <2>4 DEF Rollback, Undo, Active, QueueAfterFailure, Goto
    <3>2. QueueInv'
      BY <2>4, <3>1, EndQueue DEF Rollback
    <3> QED
      BY <2>4, <3>2, EndRows DEF Rollback, Undo
  <2>5. CASE Crash(p)
    <3>1. QueueInv'
      BY <2>5, EndQueue DEF Crash, Undo
    <3> QED
      BY <2>5, <3>1, EndRows DEF Crash, Undo
  <2>6. CASE Before(p)
    BY <2>6, QuietStep DEF Before, Goto, TypeOK
  <2>7. CASE Vetoed(p)
    BY <2>7, QuietStep DEF Vetoed, Back, Goto, TypeOK
  <2>8. CASE CreateRow(p)
    <3>1. nextRow \in 0 .. MaxRows /\ op[p] \in OpNames /\ op[p] # "consume" /\ Written(p, nextRow)
      BY <2>8 DEF CreateRow, OpNames, HooksAssumption, TypeOK
    <3>2. QueueInv'
      BY <2>8, <3>1, WrittenQueue DEF CreateRow
    <3>3. /\ nextRow' >= nextRow /\ gone' = gone
          /\ \A x \in table' : x \in table \/ (x = nextRow /\ nextRow' > nextRow)
      BY <2>8, <3>1 DEF CreateRow
    <3> QED
      BY <3>1, <3>2, <3>3, OtherRows
  <2>9. CASE UpdateRow(p)
    <3>1. row[p] \in 0 .. MaxRows /\ op[p] \in OpNames /\ op[p] # "consume" /\ Written(p, row[p])
      BY <2>9 DEF UpdateRow, OpNames, TypeOK
    <3>2. QueueInv'
      BY <2>9, <3>1, WrittenQueue DEF UpdateRow
    <3>3. nextRow' >= nextRow /\ gone' = gone /\ table' = table
      BY <2>9 DEF UpdateRow, TypeOK
    <3> QED
      BY <3>1, <3>2, <3>3, OtherRows
  <2>10. CASE DeleteRow(p)
    <3>1. /\ row[p] \in 0 .. MaxRows /\ op[p] \in OpNames /\ op[p] # "consume"
          /\ Written(p, row[p]) /\ Delete(p, row[p])
      BY <2>10 DEF DeleteRow, OpNames, TypeOK
    <3>2. QueueInv'
      BY <2>10, <3>1, WrittenQueue DEF DeleteRow
    <3>3. /\ nextRow' >= nextRow /\ table' \subseteq table
          /\ \A q \in Procs : /\ gone'[q] \subseteq gone[q] \cup table
                              /\ ~InTransaction(q) => gone'[q] = gone[q]
      BY <3>1 DEF Delete, TypeOK
    <3> QED
      BY <3>1, <3>2, <3>3, OtherRows
  <2>11. CASE ConsumeRow(p)
    <3>1. CASE Consumed(p)
      <4>1. /\ row[p] \in 0 .. MaxRows /\ op[p] \in OpNames /\ Unlocked(p, row[p])
            /\ Written(p, row[p]) /\ Delete(p, row[p]) /\ row[p] \in table
        BY <2>11, <3>1 DEF ConsumeRow, Consumed, OpNames, TypeOK
      <4>2. QueueInv'
        BY <2>11, <4>1, WrittenQueue DEF ConsumeRow
      <4> QED
        BY <4>1, <4>2, ConsumedRows
    <3>2. CASE ~Consumed(p)
      BY <2>11, <3>2, QuietStep DEF ConsumeRow, Back, Goto, TypeOK
    <3> QED
      BY <3>1, <3>2
  <2>12. CASE HookRuns(p)
    <3>1. QueueInv'
      BY <2>12, RunQueue DEF HookRuns, data
    <3> QED
      BY <2>12, <3>1, QuietRows DEF HookRuns, data, InTransaction, Active
  <2>13. CASE HookThrows(p)
    <3>1. QueueInv'
      BY <2>13, RunQueue DEF HookThrows, data, Goto
    <3> QED
      BY <2>13, <3>1, QuietRows DEF HookThrows, data, InTransaction, Active
  <2>14. CASE HooksEnd(p)
    BY <2>14, QuietStep DEF HooksEnd, Back, Goto, TypeOK
  <2> QED
    BY <2>1, <2>2, <2>3, <2>4, <2>5, <2>6, <2>7, <2>8, <2>9, <2>10, <2>11, <2>12, <2>13, <2>14
    DEF Step
<1> QED
  BY <1>1, <1>2, <1>3 DEF Next

LEMMA InvInit == HooksAssumption /\ Init => IInv
<1> SUFFICES ASSUME HooksAssumption, Init
             PROVE  IInv
  OBVIOUS
<1>1. TypeOK
  BY TypeInit
<1>2. writes = {} /\ attempted = {} /\ \A p \in Procs : Places(p) = {}
  BY EmptySeq DEF Init, Places
<1>3. Labelled
  BY DEF Init, Labelled
<1>4. QueueInv
  BY <1>2, <1>3 DEF QueueInv, Numbered, OpenInside, AttemptedCommitted, Waits, Sorted,
                    AfterAttempted, Whole, NoneLost, Prefixes, InOrder, Ran
<1>5. RowInv
  BY <1>2 DEF Init, RowInv, HooksAssumption
<1> QED
  BY <1>1, <1>4, <1>5 DEF IInv

LEMMA InvHooksFollowCommit ==
  ASSUME HooksAssumption, IInv
  PROVE  HooksFollowCommit
<1> USE DEF IInv, QueueInv
<1>1. \A w \in writes, e \in 1 .. Entries : Ran(w, e) => w.state = "committed"
  BY DEF Ran, AttemptedCommitted, Numbered
<1>2. \A w \in writes, e \in 1 .. Entries : Ran(w, e) => \A d \in 1 .. e - 1 : Ran(w, d)
  BY DEF Prefixes
<1>3. Transactions => \A w \in writes, e \in 1 .. Entries : Ran(w, e) =>
        \A v \in Of(w.by) : v.id < w.id /\ v.state = "committed" => Ran(v, Entries)
  BY DEF InOrder, Of
<1>4. ASSUME Transactions, NEW p \in Procs, pc[p] = "body", NEW w \in Of(p),
             NEW e \in 1 .. Entries, w.state = "committed"
      PROVE  Ran(w, e)
  <2>1. w \in writes /\ w.by = p
    BY DEF Of
  <2>2. Ran(w, e) \/ \E i \in Places(p) : pending[p][i] = <<w.id, e>>
    BY <1>4, <2>1 DEF NoneLost
  <2>3. ASSUME NEW i \in Places(p), pending[p][i] = <<w.id, e>>
        PROVE  FALSE
    <3>1. w.state = WaitingState(p)
      BY <2>1, <2>3 DEF Waits, Numbered
    <3>2. depth[p] = 0
      BY <1>4, <3>1 DEF WaitingState, InTransaction, Active, TypeOK
    <3>3. pending[p] = <<>>
      BY <1>4, <3>2 DEF Labelled
    <3> QED
      BY <3>3, EmptySeq DEF Places
  <2> QED
    BY <2>2, <2>3
<1>5. ASSUME NEW v \in writes, NEW w \in writes, v.op = "consume", w.op = "consume",
             v.row = w.row, Ran(v, 1), Ran(w, 1)
      PROVE  v = w
  <2>1. v.state = "committed" /\ w.state = "committed"
    BY <1>5 DEF Ran, AttemptedCommitted, Numbered
  <2> QED
    BY <1>5, <2>1 DEF RowInv
<1> QED
  BY <1>1, <1>2, <1>3, <1>4, <1>5 DEF HooksFollowCommit

\* Hooks after a write are run once it is committed and never if it is rolled back,
\* in the order of the writes, completely before the call goes on, and for one of the
\* calls that consume a row.
THEOREM HooksFollowCommitCorrect == ASSUME HooksAssumption PROVE Spec => []HooksFollowCommit
<1>1. Init => IInv
  BY InvInit
<1>2. IInv /\ [Next]_vars => IInv'
  BY InvStep
<1>3. IInv => HooksFollowCommit
  BY InvHooksFollowCommit
<1> QED
  BY <1>1, <1>2, <1>3, PTL DEF Spec
=============================================================================
