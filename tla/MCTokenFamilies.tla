-------------------------- MODULE MCTokenFamilies --------------------------
(***************************************************************************)
(* Small instances of TokenFamilies.  A run covers the deployment its      *)
(* constants give and, in the same state graph, those named in Beside.     *)
(***************************************************************************)
EXTENDS TokenFamilies, TLC

CONSTANTS p1, p2, Beside

VARIABLE deployment

ASSUME BesideAssumption ==
  Beside \subseteq {"revoking", "faulty", "strict", "signOut", "loose"}

\* One code, with revocation.
Revoking == INSTANCE TokenFamilies WITH
  Codes <- {1}, Ops <- {"redeem", "refresh", "revoke"}

\* The same, fewer tokens, and any await may fail.
Faulty == INSTANCE TokenFamilies WITH
  Codes <- {1}, Ops <- {"redeem", "refresh", "revoke"}, MaxTokens <- 2,
  Faults <- {"throw", "swallow"}

\* Strict replay detection without a reuse interval; access tokens are JWTs.
Strict == INSTANCE TokenFamilies WITH Opaque <- FALSE, ReuseInterval <- 0, MaxTime <- 2

\* Everything, with sign-out, of clients that drop offline_access.
SignOuts == INSTANCE TokenFamilies WITH
  Codes <- {1}, Ops <- OpNames, Narrowing <- TRUE, ReuseInterval <- 0,
  MaxTokens <- 2, MaxTime <- 2

\* Sign-out over a database that enforces no references.
Loose == INSTANCE TokenFamilies WITH
  Codes <- {1}, Ops <- {"redeem", "refresh", "signOut"}, ForeignKeys <- FALSE,
  Faults <- {"swallow"}, MaxTokens <- 2

MCInit ==
  /\ deployment \in {"given"} \cup Beside
  /\ Init

MCNext ==
  /\ UNCHANGED deployment
  /\ \/ deployment = "given" /\ Next
     \/ deployment = "revoking" /\ Revoking!Next
     \/ deployment = "faulty" /\ Faulty!Next
     \/ deployment = "strict" /\ Strict!Next
     \/ deployment = "signOut" /\ SignOuts!Next
     \/ deployment = "loose" /\ Loose!Next

MCSpec == MCInit /\ [][MCNext]_<<vars, deployment>>

Interchangeable == Permutations(Procs)
=============================================================================
