--------------------------- MODULE MCVerification ---------------------------
(***************************************************************************)
(* Small instances of Verification.  A run covers the deployment its       *)
(* constants give and, in the same state graph, those named in Beside.     *)
(***************************************************************************)
EXTENDS Verification, TLC

CONSTANTS p1, p2, p3, s1, s2, Beside

VARIABLE deployment

ASSUME BesideAssumption == Beside \subseteq {"oneServer", "secondary"}

TwoCalls == {p1, p2}
ThreeCalls == {p1, p2, p3}

\* Every call on one server.
OneServer == [p \in Procs |-> s1]

\* The first call alone on the first server, the others on the second.
TwoServers == [p \in Procs |-> IF p = p1 THEN s1 ELSE s2]

\* Every call on one server, over a database without transactions.
Single == INSTANCE Verification WITH
  ServerOf <- OneServer, Storage <- "database", Isolation <- "none", Hashed <- FALSE,
  Ops <- {"create", "find", "consume", "update", "delete"}

\* Secondary storage alone, hashed identifiers.
Secondary == INSTANCE Verification WITH
  Storage <- "secondary", Isolation <- "none", Hashed <- TRUE,
  Ops <- {"create", "consume", "delete"}, Lifetimes <- {0, 1}

MCInit ==
  /\ deployment \in {"given"} \cup Beside
  /\ CASE deployment = "given" -> Init
       [] deployment = "oneServer" -> Single!Init
       [] deployment = "secondary" -> Secondary!Init

MCNext ==
  /\ UNCHANGED deployment
  /\ \/ deployment = "given" /\ Next
     \/ deployment = "oneServer" /\ Single!Next
     \/ deployment = "secondary" /\ Secondary!Next

allVars == <<vars, deployment>>

MCSpec == MCInit /\ [][MCNext]_allVars

\* The fairness of FairSpec, in each deployment.
MCFairSpec ==
  /\ MCSpec
  /\ \A p \in Procs :
       /\ WF_allVars(deployment = "given" /\ Continue(p) /\ UNCHANGED deployment)
       /\ WF_allVars(deployment = "secondary" /\ Secondary!Continue(p) /\ UNCHANGED deployment)

\* The calls on the second server may be exchanged.
Interchangeable == Permutations({p2, p3})
=============================================================================
