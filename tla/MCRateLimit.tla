----------------------------- MODULE MCRateLimit -----------------------------
(***************************************************************************)
(* Small instances of RateLimit.  A run covers the deployment its          *)
(* constants give and, in the same state graph, those named in Beside.     *)
(***************************************************************************)
EXTENDS RateLimit, TLC

CONSTANTS p1, p2, short, long, Beside

VARIABLE deployment

ASSUME BesideAssumption == Beside \subseteq {"native", "memory", "secondary"}

\* A sign-in path and one with a longer window.
ShortAndLong == [k \in Keys |-> IF k = short THEN 1 ELSE 3]
OneAndTwo == [k \in Keys |-> IF k = short THEN 1 ELSE 2]

AtOnce == INSTANCE RateLimit WITH Native <- TRUE
InMemory == INSTANCE RateLimit WITH Backend <- "memory", Lag <- 0, Cap <- 1
InSecondary == INSTANCE RateLimit WITH Backend <- "secondary", Lag <- 0

MCInit == deployment \in {"given"} \cup Beside /\ Init

MCNext ==
  /\ UNCHANGED deployment
  /\ \/ deployment = "given" /\ Next
     \/ deployment = "native" /\ AtOnce!Next
     \/ deployment = "memory" /\ InMemory!Next
     \/ deployment = "secondary" /\ InSecondary!Next

MCSpec == MCInit /\ [][MCNext]_<<vars, deployment>>

Interchangeable == Permutations(Procs)
=============================================================================
