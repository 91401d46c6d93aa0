----------------------------- MODULE MCSessions -----------------------------
(***************************************************************************)
(* Small instances of Sessions.  A run covers the deployment its constants *)
(* give and, in the same state graph, the deployments named in Beside.     *)
(***************************************************************************)
EXTENDS Sessions, TLC

CONSTANTS p1, p2, Beside

VARIABLE deployment

ASSUME BesideAssumption == Beside \subseteq {"signOut", "preserve", "both"}

\* Both stores, sign-ins and sign-outs at the same time.
SignOut == INSTANCE Sessions WITH
  Mode <- "both", Ops <- {"create", "delete", "deleteMany"},
  Faults <- {"throw"}, MaxTime <- 3

\* Preserved rows, every operation, one call after the other.
Preserve == INSTANCE Sessions WITH
  Mode <- "preserve", Ops <- OpNames, Faults <- {"veto"}, MaxTime <- 4

\* Both stores, every operation and fault, one call after the other.
Both == INSTANCE Sessions WITH
  Mode <- "both", Ops <- OpNames, Faults <- {"throw", "swallow", "veto"}, MaxTime <- 4

MCInit ==
  /\ deployment \in {"given"} \cup Beside
  /\ CASE deployment = "given" -> Init
       [] deployment = "signOut" -> SignOut!Init
       [] deployment = "preserve" -> Preserve!Init
       [] deployment = "both" -> Both!Init

MCNext ==
  /\ UNCHANGED deployment
  /\ \/ deployment = "given" /\ Next
     \/ deployment = "signOut" /\ SignOut!Next
     \/ /\ \/ deployment = "preserve" /\ Preserve!Next
           \/ deployment = "both" /\ Both!Next
        /\ Cardinality({p \in Procs : pc'[p] # "idle"}) <= 1

MCSpec == MCInit /\ [][MCNext]_<<vars, deployment>>

Interchangeable == Permutations(Procs)

\* A session whose revocation succeeded stays dead, unless over both stores a
\* call failed halfway: an error that was only logged, or an update that left
\* an entry the list of the user does not name.
EndedStaysDead == deployment # "both" => RevokedStaysDead

\* Nobody is signed out by the calls of others: a session that no call was
\* meant to end can be found until the expiry its owner was told; over the
\* database whatever calls run at the same time, over both stores whatever fails
\* in calls that do not overlap.
FoundUntilRevoked ==
  /\ deployment = "given" => LiveUntilRevoked
  /\ deployment = "both" => Both!LiveUntilRevoked

\* Where rows outlive their session the hooks of a session end run once for
\* it, however many later deletes match the row again.
HooksRunOncePreserved == deployment = "preserve" => HooksRunOnce
=============================================================================
