----------------------------- MODULE TokenChain -----------------------------
(***************************************************************************)
(* What the OAuth provider promises about the refresh tokens that descend  *)
(* from one authorization code: they form a chain with one turn.  Either   *)
(* the client holds the one token that can be exchanged, or one exchange   *)
(* is under way.  A chain that has ended never starts again.               *)
(***************************************************************************)
CONSTANTS Codes  \* the authorization codes

VARIABLE turn  \* of each code: "unused", "held", "turning" or "ended"

Init == turn = [c \in Codes |-> "unused"]

\* The code is redeemed, or the token that is held is exchanged.
Turn(c) ==
  /\ turn[c] \in {"unused", "held"}
  /\ turn' = [turn EXCEPT ![c] = "turning"]

\* The exchange hands out the one new token.
Hold(c) ==
  /\ turn[c] = "turning"
  /\ turn' = [turn EXCEPT ![c] = "held"]

\* Revocation, replay detection and failures end chains, several at a time.
End == \E C \in SUBSET Codes : turn' = [c \in Codes |-> IF c \in C THEN "ended" ELSE turn[c]]

Next == (\E c \in Codes : Turn(c) \/ Hold(c)) \/ End

Spec == Init /\ [][Next]_turn
=============================================================================
