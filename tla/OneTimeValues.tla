--------------------------- MODULE OneTimeValues ---------------------------
(***************************************************************************)
(* What the store of verification values promises its callers: values are  *)
(* issued in order, a live value may be returned to one caller and is then *)
(* gone, any live value may become void, and nothing ever comes back.      *)
(***************************************************************************)
EXTENDS Naturals

CONSTANT MaxRows  \* bound: values ever issued

VARIABLES
  next,  \* the next value to issue
  live,  \* the values that may still be returned
  spent  \* how often each value was returned

ovars == <<next, live, spent>>

Init ==
  /\ next \in Nat /\ next > 0 /\ next <= MaxRows + 1
  /\ live \in SUBSET (1 .. next - 1)
  /\ spent = [i \in 1 .. MaxRows |-> 0]

\* A new value, which may take the place of older ones or never become live.
Issue ==
  /\ next <= MaxRows
  /\ next' = next + 1
  /\ live' \in SUBSET (live \cup {next})
  /\ UNCHANGED spent

\* A caller gets the value: it was live, and no longer is.
Use(i) ==
  /\ i \in live
  /\ live' = live \ {i}
  /\ spent' = [spent EXCEPT ![i] = @ + 1]
  /\ UNCHANGED next

Void ==
  /\ live' \in SUBSET live
  /\ UNCHANGED <<next, spent>>

Next == Issue \/ Void \/ \E i \in 1 .. MaxRows : Use(i)

Spec == Init /\ [][Next]_ovars
=============================================================================
