---------------------------- MODULE DatabaseHooks ----------------------------
(***************************************************************************)
(* Database hooks and transactions (packages/better-auth/src/db/           *)
(* with-hooks.ts, packages/core/src/context/transaction.ts): a write runs  *)
(* the hooks before it, which may veto it, and queues the hooks after it   *)
(* until the transaction it is part of has committed.                      *)
(*                                                                         *)
(* Rows are numbered.  A transaction locks the rows it writes, and others  *)
(* see what is committed; without transactions every write is committed    *)
(* where it is made, and the queue is kept all the same.                   *)
(***************************************************************************)
EXTENDS Naturals, Sequences

CONSTANTS
  Procs,         \* calls in flight
  Entries,       \* number of hooks after each write, in the order they are configured
  Ops,           \* the writes calls make, a subset of OpNames
  Transactions,  \* whether the adapter has transactions
  Reporting,     \* whether calls pass onAfterCommitHookError
  Stored,        \* rows there are at first
  MaxRows,       \* bound: rows ever created, stored ones included
  MaxWrites,     \* bound: writes of all calls
  MaxDepth       \* bound: nested runWithTransaction

OpNames == {"create", "update", "delete", "consume"}

\* What the constants are assumed to be.
HooksAssumption ==
  /\ Ops \subseteq OpNames /\ Transactions \in BOOLEAN /\ Reporting \in BOOLEAN
  /\ {Entries, Stored, MaxRows, MaxWrites, MaxDepth} \subseteq Nat /\ Stored <= MaxRows

VARIABLES
  table,      \* the rows, with the writes of open transactions
  nextRow,    \* the next unused row
  fresh,      \* the rows each open transaction has created
  gone,       \* the rows each open transaction has deleted
  depth,      \* how many calls of runWithTransaction a call is inside of
  pending,    \* pendingHooks of the transaction, or the hooks of one write
  pc,         \* where each call is suspended
  op,         \* the write a call is about to make
  row,        \* the row it is about
  serial,     \* history: the number of writes
  writes,     \* history: the writes, and whether they are committed or rolled back
  attempted   \* history: the hooks after a write that were run, whether they failed or not

vars ==
  <<table, nextRow, fresh, gone, depth, pending, pc, op, row, serial, writes, attempted>>
data == <<table, nextRow, fresh, gone, serial, writes>>

Labels == {"body", "write", "run", "drain", "failed"}

Hook == (1 .. MaxWrites) \X (1 .. Entries)
Write == [id : 1 .. MaxWrites, op : OpNames, row : 0 .. MaxRows, by : Procs,
          state : {"open", "committed", "void"}]

TypeOK ==
  /\ table \subseteq 1 .. MaxRows /\ nextRow \in 1 .. MaxRows + 1
  /\ serial \in 0 .. MaxWrites
  /\ fresh \in [Procs -> SUBSET (1 .. MaxRows)] /\ gone \in [Procs -> SUBSET (1 .. MaxRows)]
  /\ depth \in [Procs -> 0 .. MaxDepth]
  /\ pending \in [Procs -> Seq(Hook)]
  /\ pc \in [Procs -> Labels]
  /\ op \in [Procs -> OpNames \cup {"none"}] /\ row \in [Procs -> 0 .. MaxRows]
  /\ writes \subseteq Write /\ attempted \subseteq Hook

-----------------------------------------------------------------------------
(* Helpers.                                                                *)

Goto(p, l) == pc' = [pc EXCEPT ![p] = l]

\* isTransactionActive
Active(p) == depth[p] > 0

\* What a call reads: the committed rows and its own writes.
Visible(p) ==
  (table \cup UNION {gone[q] : q \in Procs \ {p}}) \ UNION {fresh[q] : q \in Procs \ {p}}

\* No other transaction has written the row.
Unlocked(p, r) == \A q \in Procs \ {p} : r \notin fresh[q] \cup gone[q]

Of(p) == {w \in writes : w.by = p}

\* The hooks after the write with this number, in the order of databaseHooks.
HooksOf(i) == [e \in 1 .. Entries |-> <<i, e>>]

Init ==
  /\ table = 1 .. Stored /\ nextRow = Stored + 1
  /\ fresh = [p \in Procs |-> {}] /\ gone = [p \in Procs |-> {}]
  /\ depth = [p \in Procs |-> 0] /\ pending = [p \in Procs |-> <<>>]
  /\ pc = [p \in Procs |-> "body"]
  /\ op = [p \in Procs |-> "none"] /\ row = [p \in Procs |-> 0]
  /\ serial = 0 /\ writes = {} /\ attempted = {}

-----------------------------------------------------------------------------
(* Transactions.                                                           *)

\* runWithTransaction: the outermost one opens a transaction with an empty
\* queue, and those inside it join it.
Begin(p) ==
  /\ pc[p] = "body" /\ depth[p] < MaxDepth
  /\ depth' = [depth EXCEPT ![p] = @ + 1]
  /\ UNCHANGED <<data, pending, pc, op, row, attempted>>

\* A joined one returns, or throws and its caller goes on.
Leave(p) ==
  /\ pc[p] = "body" /\ depth[p] > 1
  /\ depth' = [depth EXCEPT ![p] = @ - 1]
  /\ UNCHANGED <<data, pending, pc, op, row, attempted>>

EndTransaction(p, state) ==
  /\ depth' = [depth EXCEPT ![p] = 0]
  /\ fresh' = [fresh EXCEPT ![p] = {}] /\ gone' = [gone EXCEPT ![p] = {}]
  /\ writes' = {IF w.by = p /\ w.state = "open" THEN [w EXCEPT !.state = state] ELSE w :
                  w \in writes}

Commit(p) ==
  /\ pc[p] = "body" /\ depth[p] = 1
  /\ EndTransaction(p, "committed")
  /\ Goto(p, "drain")
  /\ UNCHANGED <<table, nextRow, pending, op, row, serial, attempted>>

Undo(p) ==
  /\ table' = (table \ fresh[p]) \cup gone[p]
  /\ EndTransaction(p, "void")

\* Mutant: the hooks are run although the transaction failed.
QueueKept(p) == pending[p]

QueueAfterFailure(p) == <<>>

\* The transaction throws, and whoever asked for it may go on.
Rollback(p) ==
  /\ pc[p] = "body" /\ Active(p)
  /\ Undo(p)
  /\ pending' = [pending EXCEPT ![p] = QueueAfterFailure(p)]
  /\ Goto(p, "drain")
  /\ UNCHANGED <<nextRow, op, row, serial, attempted>>

\* The server dies.
Crash(p) ==
  /\ pc[p] # "failed"
  /\ Undo(p)
  /\ pending' = [pending EXCEPT ![p] = <<>>]
  /\ pc' = [pc EXCEPT ![p] = "failed"]
  /\ op' = [op EXCEPT ![p] = "none"] /\ row' = [row EXCEPT ![p] = 0]
  /\ UNCHANGED <<nextRow, serial, attempted>>

-----------------------------------------------------------------------------
(* Writes.                                                                 *)

\* createWithHooks, updateWithHooks, deleteWithHooks or consumeOneWithHooks.  A
\* delete that does not find the row has no hooks and does nothing.
Before(p) ==
  /\ pc[p] = "body" /\ serial < MaxWrites
  /\ \E o \in Ops, r \in 0 .. MaxRows :
       /\ r = 0 <=> o = "create"
       /\ o = "delete" => r \in Visible(p)
       /\ op' = [op EXCEPT ![p] = o] /\ row' = [row EXCEPT ![p] = r]
  /\ Goto(p, "write")
  /\ UNCHANGED <<data, depth, pending, attempted>>

Back(p) ==
  /\ Goto(p, "body")
  /\ op' = [op EXCEPT ![p] = "none"] /\ row' = [row EXCEPT ![p] = 0]

\* A hook before the write returns false or throws, or the write is rejected.
Vetoed(p) ==
  /\ pc[p] = "write"
  /\ Back(p)
  /\ UNCHANGED <<data, depth, pending, attempted>>

InTransaction(p) == Active(p) /\ Transactions

\* The write of row r is made; then queueAfterTransactionHook, once for each hook,
\* which outside of a transaction runs it.
Written(p, r) ==
  /\ serial < MaxWrites /\ serial' = serial + 1
  /\ writes' = writes \cup {[id |-> serial', op |-> op[p], row |-> r, by |-> p,
                             state |-> IF InTransaction(p) THEN "open" ELSE "committed"]}
  /\ pending' = [pending EXCEPT ![p] = @ \o HooksOf(serial')]
  /\ IF Active(p) THEN Back(p) ELSE Goto(p, "run") /\ UNCHANGED <<op, row>>
  /\ UNCHANGED <<depth, attempted>>

Delete(p, r) ==
  /\ table' = table \ {r}
  /\ gone' = IF InTransaction(p) /\ r \in table \ fresh[p]
             THEN [gone EXCEPT ![p] = @ \cup {r}] ELSE gone
  /\ fresh' = [fresh EXCEPT ![p] = @ \ {r}]
  /\ UNCHANGED nextRow

CreateRow(p) ==
  /\ pc[p] = "write" /\ op[p] = "create" /\ nextRow <= MaxRows
  /\ table' = table \cup {nextRow} /\ nextRow' = nextRow + 1
  /\ fresh' = IF InTransaction(p) THEN [fresh EXCEPT ![p] = @ \cup {nextRow}] ELSE fresh
  /\ UNCHANGED gone
  /\ Written(p, nextRow)

\* The hooks after an update are run even if there was nothing to update.
UpdateRow(p) ==
  /\ pc[p] = "write" /\ op[p] = "update" /\ Unlocked(p, row[p])
  /\ UNCHANGED <<table, nextRow, fresh, gone>>
  /\ Written(p, row[p])

\* So are those after the delete of a row that was read and has gone meanwhile.
DeleteRow(p) ==
  /\ pc[p] = "write" /\ op[p] = "delete" /\ Unlocked(p, row[p])
  /\ Delete(p, row[p])
  /\ Written(p, row[p])

Consumed(p) == row[p] \in table

ConsumeRow(p) ==
  /\ pc[p] = "write" /\ op[p] = "consume" /\ Unlocked(p, row[p])
  /\ IF Consumed(p)
     THEN Delete(p, row[p]) /\ Written(p, row[p])
     ELSE Back(p) /\ UNCHANGED <<data, depth, pending, attempted>>

-----------------------------------------------------------------------------
(* Hooks after writes.                                                     *)

\* The next hook is run, with success or handled by its own onError.
HookRuns(p) ==
  /\ pc[p] \in {"run", "drain"} /\ pending[p] # <<>>
  /\ attempted' = attempted \cup {Head(pending[p])}
  /\ pending' = [pending EXCEPT ![p] = Tail(@)]
  /\ UNCHANGED <<data, depth, pc, op, row>>

\* It throws: after a commit that is reported, if anyone asked for reports, and
\* otherwise the call fails and the hooks behind it are dropped.
HookThrows(p) ==
  /\ pc[p] \in {"run", "drain"} /\ pending[p] # <<>>
  /\ attempted' = attempted \cup {Head(pending[p])}
  /\ IF pc[p] = "drain" /\ Reporting
     THEN pending' = [pending EXCEPT ![p] = Tail(@)] /\ UNCHANGED pc
     ELSE pending' = [pending EXCEPT ![p] = <<>>] /\ Goto(p, "failed")
  /\ UNCHANGED <<data, depth, op, row>>

HooksEnd(p) ==
  /\ pc[p] \in {"run", "drain"} /\ pending[p] = <<>>
  /\ Back(p)
  /\ UNCHANGED <<data, depth, pending, attempted>>

Step(p) ==
  \/ Begin(p) \/ Leave(p) \/ Commit(p) \/ Rollback(p) \/ Crash(p)
  \/ Before(p) \/ Vetoed(p) \/ CreateRow(p) \/ UpdateRow(p) \/ DeleteRow(p) \/ ConsumeRow(p)
  \/ HookRuns(p) \/ HookThrows(p) \/ HooksEnd(p)

Next == \E p \in Procs : Step(p)

Spec == Init /\ [][Next]_vars

-----------------------------------------------------------------------------
(* Properties.                                                             *)

Ran(w, e) == <<w.id, e>> \in attempted

\* Hooks after a write are run once it is committed and never if it is rolled back,
\* each call runs those of its writes in the order it made them, a call that goes on
\* after a commit has run them all, and a row that several calls consume runs the
\* hooks of one of them.
HooksFollowCommit ==
  /\ \A w \in writes, e \in 1 .. Entries :
       Ran(w, e) =>
         /\ w.state = "committed"
         /\ \A d \in 1 .. e - 1 : Ran(w, d)
         /\ Transactions => \A v \in Of(w.by) :
              v.id < w.id /\ v.state = "committed" => Ran(v, Entries)
  /\ Transactions =>
       \A p \in Procs : pc[p] = "body" =>
         \A w \in Of(p), e \in 1 .. Entries : w.state = "committed" => Ran(w, e)
  /\ \A v, w \in writes :
       v.op = "consume" /\ w.op = "consume" /\ v.row = w.row
         /\ Ran(v, 1) /\ Ran(w, 1) => v = w
=============================================================================
