---------------------------- MODULE BulkProgress ----------------------------
(***************************************************************************)
(* What a client of a bulk job is promised: its operations take effect one *)
(* at a time, each at most once, one that refers to what others create     *)
(* after those have succeeded, and none once the job is complete.          *)
(***************************************************************************)
EXTENDS Naturals, Sequences, FiniteSets

CONSTANTS
  Jobs,
  Count,   \* how many operations a job has
  Needs,   \* the operations whose results an operation of a job refers to
  FailOn   \* failOnErrors of a job, 0 for none

VARIABLE log  \* the operations of each job that have been decided, in order

Entry == [op : Nat, ok : BOOLEAN]

Decided(s) == {s[k].op : k \in DOMAIN s}
Succeeded(s) == {s[k].op : k \in {i \in DOMAIN s : s[i].ok}}
Errors(s) == Cardinality({k \in DOMAIN s : ~s[k].ok})

Complete(j, s) == Len(s) = Count[j] \/ (FailOn[j] # 0 /\ Errors(s) >= FailOn[j])

Init == log = [j \in Jobs |-> <<>>]

Decide(j, e) ==
  /\ ~Complete(j, log[j])
  /\ e.op \in 1 .. Count[j] \ Decided(log[j])
  /\ e.ok => Needs[j][e.op] \subseteq Succeeded(log[j])
  /\ log' = [log EXCEPT ![j] = Append(@, e)]

Next == \E j \in Jobs : \E e \in [op : 1 .. Count[j], ok : BOOLEAN] : Decide(j, e)

Spec == Init /\ [][Next]_log
=============================================================================
