--------------------------- MODULE TwoFactorProofs ---------------------------
(***************************************************************************)
(* Theorems about TwoFactor, for any number of calls, challenges, codes    *)
(* and attempts: type correctness; the budget of guesses of a challenge    *)
(* and of a code that was sent; one session for a challenge; backup codes  *)
(* that stay spent; the lock, and the budget of failures of the account.   *)
(***************************************************************************)
EXTENDS TwoFactor, FiniteSetTheorems, TLAPS

-----------------------------------------------------------------------------
(* Type correctness.                                                       *)

Held == [code : {0} \cup Codes, n : Nat, exp : Nat]

\* What a call has in its hands: a challenge that was opened, one copy of the
\* row, which has the backup code it was given where that was right, and one
\* counter or code, which has attempts left where they are used.
InHand ==
  \A p \in Procs :
    /\ pc[p] # "idle" => ch[p] \in 1 .. opened /\ hold[p] # {}
    /\ \A g, h \in hold[p] : g = h
    /\ \A r, s \in seen[p] : r = s
    /\ pc[p] = "restore" => how[p] # "otp"
    /\ pc[p] = "swap" => \A r \in seen[p] : guess[p] \in r.codes
    /\ pc[p] \in {"check", "restore", "rearm"} => \A h \in hold[p] : h.n < Allowed
    /\ pc[p] \in {"check", "rearm"} /\ how[p] = "otp" => \A h \in hold[p] : h.code \in 1 .. sends

LocalOK ==
  /\ pc \in [Procs -> Labels]
  /\ ch \in [Procs -> {0} \cup Challenges]
  /\ how \in [Procs -> Methods \cup {"none"}]
  /\ seen \in [Procs -> SUBSET Row]
  /\ hold \in [Procs -> SUBSET Held]
  /\ guess \in [Procs -> {0} \cup BackupCodes]
  /\ InHand

ValuesOK ==
  /\ opened \in 0 .. MaxChallenges
  /\ open \subseteq [id : Challenges, exp : Nat]
  /\ armed \subseteq [id : Challenges, n : 0 .. Allowed, exp : Nat]
  /\ sent \in [Challenges -> Seq(Sent)] /\ sends \in 0 .. MaxSends
  /\ \A x \in open : x.id \in 1 .. opened
  /\ \A x \in armed : x.id \in 1 .. opened
  /\ \A c \in Challenges : \A i \in DOMAIN sent[c] : sent[c][i].code \in 1 .. sends

AccountOK == batches \in 1 .. MaxBatches /\ row \in Row

HistoryOK ==
  /\ tries \in [Challenges -> Nat] /\ otpTries \in [Codes -> Nat]
  /\ minted \in [Challenges -> Nat]
  /\ fails \in Nat /\ spent \subseteq BackupCodes

TypeInv == now \in Nat /\ LocalOK /\ ValuesOK /\ AccountOK /\ HistoryOK

LEMMA TypeInvTypes == TypeInv => TypeOK
BY DEF TypeInv, TypeOK, LocalOK, ValuesOK, AccountOK, HistoryOK, Held

LEMMA Numbers ==
  ASSUME TwoFactorAssumption
  PROVE  /\ Allowed \in Nat /\ MaxFailed \in Nat /\ LockDuration \in Nat /\ Batch \in Nat /\ MaxBatches \in Nat
         /\ Allowed > 0 /\ MaxFailed > 0 /\ LockDuration > 0 /\ Batch > 0 /\ MaxBatches > 0
         /\ ChallengeLife \in Nat /\ Period \in Nat
         /\ MaxChallenges \in Nat /\ MaxSends \in Nat /\ MaxTime \in Nat
BY DEF TwoFactorAssumption

\* The codes of the batch b are among the backup codes, and after those of the batches before.
LEMMA Batches ==
  ASSUME TwoFactorAssumption, NEW b \in 1 .. MaxBatches
  PROVE  /\ b * Batch \in Nat /\ b * Batch <= Batch * MaxBatches
         /\ (b - 1) * Batch \in Nat /\ (b - 1) * Batch + Batch = b * Batch
         /\ BatchOf(b) \subseteq 1 .. b * Batch /\ BatchOf(b) \subseteq BackupCodes
         /\ \A k \in BatchOf(b) : k > (b - 1) * Batch
<1>0. b \in Nat /\ b >= 1 /\ b <= MaxBatches /\ MaxBatches \in Nat /\ Batch \in Nat /\ Batch > 0
  BY Numbers
<1>1. /\ b * Batch \in Nat /\ b * Batch <= Batch * MaxBatches
      /\ (b - 1) * Batch \in Nat /\ (b - 1) * Batch + Batch = b * Batch
  BY <1>0
<1>. QED  BY <1>0, <1>1 DEF BatchOf, BackupCodes

LEMMA FinishLocal ==
  ASSUME TwoFactorAssumption, LocalOK, NEW p \in Procs, Finish(p),
         UNCHANGED opened, sends \in Nat, sends' \in {sends, sends + 1}
  PROVE  LocalOK'
<1>1. /\ pc' \in [Procs -> Labels] /\ ch' \in [Procs -> {0} \cup Challenges]
      /\ how' \in [Procs -> Methods \cup {"none"}] /\ seen' \in [Procs -> SUBSET Row]
      /\ hold' \in [Procs -> SUBSET Held] /\ guess' \in [Procs -> {0} \cup BackupCodes]
  BY DEF LocalOK, Finish, Goto, Labels
<1>2. InHand'
  BY DEF LocalOK, InHand, Finish, Goto
<1>. QED  BY <1>1, <1>2 DEF LocalOK

\* A call goes on with the same in its hands.
LEMMA StayLocal ==
  ASSUME TwoFactorAssumption, LocalOK, NEW p \in Procs, NEW l \in Labels, Goto(p, l),
         UNCHANGED <<opened, sends, local>>, pc[p] # "idle",
         l = "restore" => how[p] # "otp",
         l = "swap" => \A r \in seen[p] : guess[p] \in r.codes,
         l \in {"check", "restore", "rearm"} => pc[p] \in {"check", "restore", "rearm"},
         l \in {"check", "rearm"} => pc[p] \in {"check", "rearm"}
  PROVE  LocalOK'
<1>1. pc' \in [Procs -> Labels]
  BY DEF LocalOK, Goto
<1>2. InHand'
  BY DEF LocalOK, InHand, Goto, local
<1>. QED  BY <1>1, <1>2 DEF LocalOK, local

\* No call moves.
LEMMA SameLocal ==
  ASSUME LocalOK, UNCHANGED <<pc, local, sends>>, opened \in Nat, opened' \in {opened, opened + 1}
  PROVE  LocalOK'
BY DEF LocalOK, InHand, local

LEMMA FindLocal ==
  ASSUME TwoFactorAssumption, TypeInv, NEW p \in Procs, Send(p) \/ Verify(p)
  PROVE  LocalOK'
<1>1. PICK x \in open : /\ ch' = [ch EXCEPT ![p] = x.id]
                        /\ hold' = [hold EXCEPT ![p] = {[code |-> 0, n |-> 0, exp |-> x.exp]}]
  BY DEF Send, Verify, Find
<1>2. PICK l \in {"send", "load"} : Goto(p, l)
  BY DEF Send, Verify, Find
<1>3. x.id \in Challenges /\ x.id \in 1 .. opened /\ [code |-> 0, n |-> 0, exp |-> x.exp] \in Held
  BY DEF TypeInv, ValuesOK, Held, Challenges
<1>4. seen' = seen /\ opened' = opened /\ sends' = sends
  BY DEF Send, Verify, values
<1>5. how' \in [Procs -> Methods \cup {"none"}] /\ guess' \in [Procs -> {0} \cup BackupCodes]
  BY DEF Send, Verify, TypeInv, LocalOK
<1>6. /\ pc' \in [Procs -> Labels] /\ ch' \in [Procs -> {0} \cup Challenges] /\ hold' \in [Procs -> SUBSET Held]
  BY <1>1, <1>2, <1>3 DEF TypeInv, LocalOK, Goto, Labels
<1>7. \A q \in Procs : q # p => UNCHANGED <<pc[q], ch[q], hold[q], how[q], guess[q]>>
  BY <1>1, <1>2 DEF Send, Verify, Goto, TypeInv, LocalOK
<1>8. InHand'
  <2>. SUFFICES ASSUME NEW q \in Procs
                PROVE  /\ pc'[q] # "idle" => ch'[q] \in 1 .. opened' /\ hold'[q] # {}
                       /\ \A g, h \in hold'[q] : g = h
                       /\ \A r, s \in seen'[q] : r = s
                       /\ pc'[q] = "restore" => how'[q] # "otp"
                       /\ pc'[q] = "swap" => \A r \in seen'[q] : guess'[q] \in r.codes
                       /\ pc'[q] \in {"check", "restore", "rearm"} => \A h \in hold'[q] : h.n < Allowed
                       /\ pc'[q] \in {"check", "rearm"} /\ how'[q] = "otp" => \A h \in hold'[q] : h.code \in 1 .. sends'
    BY DEF InHand
  <2>1. CASE q = p
    BY <1>1, <1>2, <1>3, <1>4, <2>1 DEF TypeInv, LocalOK, InHand, Goto
  <2>2. CASE q # p
    BY <1>4, <1>7, <2>2 DEF TypeInv, LocalOK, InHand
  <2>. QED  BY <2>1, <2>2
<1>. QED  BY <1>4, <1>5, <1>6, <1>8 DEF TypeInv, LocalOK

\* Challenges are opened, and found by the calls.
LEMMA OpenTypes ==
  ASSUME TwoFactorAssumption, TypeInv, SignIn \/ \E p \in Procs : Send(p) \/ Verify(p)
  PROVE  TypeInv'
<1>0. now \in Nat /\ MaxChallenges \in Nat /\ ChallengeLife \in Nat /\ opened \in Nat
  BY Numbers DEF TypeInv, ValuesOK
<1>1. CASE SignIn
  <2>1. opened' \in 1 .. MaxChallenges /\ opened' = opened + 1 /\ now + ChallengeLife \in Nat
    BY <1>0, <1>1 DEF SignIn, TypeInv, ValuesOK
  <2>2. [id |-> opened', exp |-> now + ChallengeLife] \in [id : Challenges, exp : Nat]
    BY <2>1 DEF Challenges
  <2>3. [id |-> opened', n |-> 0, exp |-> now + ChallengeLife] \in [id : Challenges, n : 0 .. Allowed, exp : Nat]
    BY <2>1, Numbers DEF Challenges
  <2>4. /\ open' = open \cup {[id |-> opened', exp |-> now + ChallengeLife]}
        /\ armed' = armed \cup {[id |-> opened', n |-> 0, exp |-> now + ChallengeLife]}
        /\ UNCHANGED <<now, sent, sends, account, pc, local, history>>
    BY <1>1 DEF SignIn
  <2>5. /\ open' \subseteq [id : Challenges, exp : Nat]
        /\ armed' \subseteq [id : Challenges, n : 0 .. Allowed, exp : Nat]
    BY <2>2, <2>3, <2>4 DEF TypeInv, ValuesOK
  <2>6. \A x \in open' : x.id \in 1 .. opened'
    BY <1>0, <2>1, <2>4 DEF TypeInv, ValuesOK
  <2>7. \A x \in armed' : x.id \in 1 .. opened'
    BY <1>0, <2>1, <2>4 DEF TypeInv, ValuesOK
  <2>8. ValuesOK'
    BY <2>1, <2>4, <2>5, <2>6, <2>7 DEF TypeInv, ValuesOK
  <2>9. LocalOK'
    BY <1>0, <2>1, <2>4, SameLocal DEF TypeInv
  <2>. QED  BY <2>4, <2>8, <2>9 DEF TypeInv, AccountOK, HistoryOK, account, history
<1>2. ASSUME NEW p \in Procs, Send(p) \/ Verify(p) PROVE TypeInv'
  <2>1. UNCHANGED <<now, values, account, history>>
    BY <1>2 DEF Send, Verify
  <2>. QED  BY <1>2, <2>1, FindLocal DEF TypeInv, ValuesOK, AccountOK, HistoryOK, values, account, history
<1>. QED  BY <1>1, <1>2

LEMMA Challenged ==
  ASSUME TypeInv, NEW p \in Procs, pc[p] # "idle"
  PROVE  ch[p] \in Challenges
<1>1. ch[p] \in 1 .. opened /\ ch[p] \in {0} \cup Challenges
  BY DEF TypeInv, LocalOK, InHand
<1>. QED  BY <1>1

\* A code that was sent is put behind those there are.
LEMMA SentAppend ==
  ASSUME sent \in [Challenges -> Seq(Sent)], NEW c \in Challenges, NEW e \in Sent, sends \in Nat,
         sends' \in {sends, sends + 1}, e.code \in 1 .. sends', sent' = [sent EXCEPT ![c] = Append(@, e)],
         \A d \in Challenges : \A i \in DOMAIN sent[d] : sent[d][i].code \in 1 .. sends
  PROVE  /\ sent' \in [Challenges -> Seq(Sent)]
         /\ \A d \in Challenges : \A i \in DOMAIN sent'[d] : sent'[d][i].code \in 1 .. sends'
<1>1. Append(sent[c], e) \in Seq(Sent) /\ sent'[c] = Append(sent[c], e)
  OBVIOUS
<1>2. \A i \in DOMAIN sent'[c] : (i \in DOMAIN sent[c] /\ sent'[c][i] = sent[c][i]) \/ sent'[c][i] = e
  BY <1>1
<1>. QED  BY <1>1, <1>2

\* Only the code that is sent, and the clock, are new.
LEMMA SentTypes ==
  ASSUME TwoFactorAssumption, TypeInv, NEW p \in Procs, CreateOtp(p)
  PROVE  TypeInv'
<1>0. now + Period \in Nat /\ ch[p] \in Challenges /\ sends \in Nat /\ MaxSends \in Nat
  <2>1. pc[p] # "idle"
    BY DEF CreateOtp
  <2>2. ch[p] \in Challenges
    BY <2>1, Challenged
  <2>. QED  BY <2>2, Numbers DEF TypeInv, ValuesOK
<1>1. CASE sends < MaxSends
  <2>1. [code |-> sends', n |-> 0, exp |-> now + Period] \in Sent /\ sends' = sends + 1 /\ sends' \in 0 .. MaxSends
    BY <1>0, <1>1 DEF CreateOtp, Sent, Codes
  <2>2. PICK e \in Sent : e.code = sends' /\ sent' = [sent EXCEPT ![ch[p]] = Append(@, e)]
    BY <1>1, <2>1 DEF CreateOtp
  <2>3. e.code \in 1 .. sends' /\ sends' \in {sends, sends + 1}
    BY <1>0, <2>1, <2>2
  <2>4. /\ sent' \in [Challenges -> Seq(Sent)]
        /\ \A c \in Challenges : \A i \in DOMAIN sent'[c] : sent'[c][i].code \in 1 .. sends'
    BY <1>0, <2>2, <2>3, SentAppend DEF TypeInv, ValuesOK
  <2>5. ValuesOK'
    BY <2>1, <2>4 DEF CreateOtp, TypeInv, ValuesOK
  <2>6. LocalOK'
    BY <1>0, <2>1, FinishLocal DEF CreateOtp, TypeInv
  <2>. QED  BY <2>5, <2>6 DEF CreateOtp, TypeInv, AccountOK, HistoryOK, account, history
<1>2. CASE ~(sends < MaxSends)
  <2>1. LocalOK'
    BY <1>0, <1>2, FinishLocal DEF CreateOtp, TypeInv
  <2>. QED  BY <1>2, <2>1 DEF CreateOtp, TypeInv, ValuesOK, AccountOK, HistoryOK, account, history
<1>. QED  BY <1>1, <1>2

\* The counter is consumed, or found spent and the challenge consumed.
LEMMA BeginTypes ==
  ASSUME TwoFactorAssumption, TypeInv, NEW p \in Procs, Begin(p) \/ Burn(p)
  PROVE  TypeInv'
<1>1. /\ UNCHANGED <<now, opened, sent, sends, account, history>>
      /\ open' \subseteq open /\ armed' \subseteq armed
  BY DEF Begin, Burn, ArmedAfterConsume
<1>2. ValuesOK'
  BY <1>1 DEF TypeInv, ValuesOK
<1>3. LocalOK'
  <2>1. CASE Finish(p)
    BY <1>1, <2>1, FinishLocal DEF TypeInv, ValuesOK
  <2>2. CASE ~Finish(p)
    <3>1. PICK x \in Counter(ch[p]) :
            /\ hold' = [hold EXCEPT ![p] = {[y EXCEPT !.n = x.n] : y \in @}]
            /\ Goto(p, IF x.n >= Allowed THEN "burn" ELSE "check")
      BY <2>2 DEF Begin, Burn
    <3>2. UNCHANGED <<ch, how, seen, guess>> /\ pc[p] = "gate" /\ how[p] # "otp"
      BY <2>2 DEF Begin, Burn
    <3>3. x.n \in Nat /\ Allowed \in Nat
      BY Numbers DEF Counter, TypeInv, ValuesOK
    <3>. DEFINE new == {[y EXCEPT !.n = x.n] : y \in hold[p]}
    <3>4. new \in SUBSET Held /\ (\A g, h \in new : g = h) /\ (\A h \in new : h.n = x.n) /\ new # {}
      <4>1. hold[p] \in SUBSET Held /\ hold[p] # {} /\ \A g, h \in hold[p] : g = h
        BY <3>2 DEF TypeInv, LocalOK, InHand
      <4>2. \A y \in hold[p] : [y EXCEPT !.n = x.n] \in Held /\ [y EXCEPT !.n = x.n].n = x.n
        BY <3>3, <4>1 DEF Held
      <4>3. new # {} /\ new \in SUBSET Held /\ \A h \in new : h.n = x.n
        BY <4>1, <4>2
      <4>4. \A g, h \in new : g = h
        BY <4>1
      <4>. QED  BY <4>3, <4>4
    <3>5. hold' = [hold EXCEPT ![p] = new]
      BY <3>1 DEF TypeInv, LocalOK
    <3>. HIDE DEF new
    <3>6. /\ pc' \in [Procs -> Labels] /\ hold' \in [Procs -> SUBSET Held]
      BY <3>1, <3>4, <3>5 DEF TypeInv, LocalOK, Goto, Labels
    <3>7. InHand'
      BY <1>1, <3>1, <3>2, <3>3, <3>4, <3>5 DEF TypeInv, LocalOK, InHand, Goto
    <3>. QED  BY <3>2, <3>6, <3>7 DEF TypeInv, LocalOK
  <2>. QED  BY <2>1, <2>2
<1>. QED  BY <1>1, <1>2, <1>3 DEF TypeInv, AccountOK, HistoryOK, account, history

\* The code that was sent is consumed.
LEMMA BeginOtpTypes ==
  ASSUME TwoFactorAssumption, TypeInv, NEW p \in Procs, BeginOtp(p)
  PROVE  TypeInv'
<1>0. ch[p] \in Challenges /\ Allowed \in Nat
  BY Challenged, Numbers DEF BeginOtp
<1>1. UNCHANGED <<now, opened, open, armed, sends, account, history>> /\ sent' = [sent EXCEPT ![ch[p]] = <<>>]
  BY DEF BeginOtp
<1>2. ValuesOK'
  BY <1>0, <1>1 DEF TypeInv, ValuesOK
<1>3. LocalOK'
  <2>1. CASE Finish(p)
    BY <1>1, <2>1, FinishLocal DEF TypeInv, ValuesOK
  <2>2. CASE ~Finish(p)
    <3>. DEFINE s == sent[ch[p]]
    <3>1. /\ s # <<>> /\ ~(Last(s).n >= Allowed) /\ hold' = [hold EXCEPT ![p] = {Last(s)}]
          /\ Goto(p, "check") /\ UNCHANGED <<ch, how, seen, guess>> /\ pc[p] = "gate"
      BY <2>2 DEF BeginOtp
    <3>2. s \in Seq(Sent) /\ Len(s) \in DOMAIN s
      BY <1>0, <3>1 DEF TypeInv, ValuesOK
    <3>3. Last(s) \in Sent /\ Last(s).code \in 1 .. sends
      BY <1>0, <3>2 DEF Last, TypeInv, ValuesOK
    <3>4. Last(s) \in Held /\ Last(s).n < Allowed
      BY <1>0, <3>1, <3>3 DEF Sent, Held
    <3>5. PICK h0 \in Held : h0.n < Allowed /\ h0.code \in 1 .. sends /\ hold' = [hold EXCEPT ![p] = {h0}]
      BY <3>1, <3>3, <3>4
    <3>6. Goto(p, "check") /\ UNCHANGED <<ch, how, seen, guess>> /\ pc[p] = "gate"
      BY <3>1
    <3>. HIDE DEF s
    <3>7. pc' \in [Procs -> Labels] /\ hold' \in [Procs -> SUBSET Held]
      BY <3>5, <3>6 DEF TypeInv, LocalOK, Goto, Labels
    <3>8. InHand'
      BY <1>1, <3>5, <3>6 DEF TypeInv, LocalOK, InHand, Goto
    <3>. QED  BY <3>6, <3>7, <3>8 DEF TypeInv, LocalOK
  <2>. QED  BY <2>1, <2>2
<1>. QED  BY <1>1, <1>2, <1>3 DEF TypeInv, AccountOK, HistoryOK, account, history

LEMMA CheckTypes ==
  ASSUME TwoFactorAssumption, TypeInv, NEW p \in Procs, CheckRight(p) \/ CheckWrong(p) \/ CheckFails(p)
  PROVE  TypeInv'
<1>1. /\ UNCHANGED <<now, values, account, local, minted, spent>> /\ fails' \in {fails, fails + 1}
      /\ Checked(p) \/ UNCHANGED <<tries, otpTries>>
      /\ pc[p] = "check"
  BY DEF CheckRight, CheckWrong, CheckFails, history
<1>2. PICK l \in {"swap", "reset", "rearm", "restore"} : Goto(p, l)
  BY DEF CheckRight, CheckWrong, CheckFails
<1>3. LocalOK'
  <2>1. l = "swap" => \A r \in seen[p] : guess[p] \in r.codes
    BY <1>1, <1>2 DEF CheckRight, CheckWrong, CheckFails, MayBeRight, Goto, TypeInv, LocalOK, InHand
  <2>2. l = "restore" => how[p] # "otp"
    BY <1>1, <1>2 DEF CheckRight, CheckWrong, CheckFails, Goto, TypeInv, LocalOK
  <2>. QED  BY <1>1, <1>2, <2>1, <2>2, StayLocal DEF TypeInv, values, Labels
<1>4. tries' \in [Challenges -> Nat] /\ otpTries' \in [Codes -> Nat]
  <2>1. CASE Checked(p) /\ how[p] = "otp"
    BY <2>1 DEF Checked, TypeInv, HistoryOK
  <2>2. CASE Checked(p) /\ how[p] # "otp"
    BY <2>2 DEF Checked, TypeInv, HistoryOK
  <2>3. CASE UNCHANGED <<tries, otpTries>>
    BY <2>3 DEF TypeInv, HistoryOK
  <2>. QED  BY <1>1, <2>1, <2>2, <2>3
<1>. QED  BY <1>1, <1>3, <1>4 DEF TypeInv, ValuesOK, AccountOK, HistoryOK, values, account

\* The counter, or the code, is written again.
LEMMA WriteTypes ==
  ASSUME TwoFactorAssumption, TypeInv, NEW p \in Procs, Restore(p) \/ Rearm(p)
  PROVE  TypeInv'
<1>0. /\ ch[p] \in Challenges /\ ch[p] \in 1 .. opened /\ sends \in Nat /\ Allowed \in Nat
      /\ \A h \in hold[p] : h \in Held /\ h.n \in Nat /\ h.n + 1 \in 0 .. Allowed /\ h.n + 0 \in 0 .. Allowed
  <2>1. pc[p] \in {"restore", "rearm"} /\ Allowed \in Nat
    BY Numbers DEF Restore, Rearm
  <2>2. ch[p] \in Challenges /\ ch[p] \in 1 .. opened
    BY <2>1, Challenged DEF TypeInv, LocalOK, InHand
  <2>3. \A h \in hold[p] : h \in Held /\ h.n \in Nat /\ h.n < Allowed
    BY <2>1 DEF TypeInv, LocalOK, InHand, Held
  <2>. QED  BY <2>1, <2>2, <2>3 DEF TypeInv, ValuesOK
<1>1. UNCHANGED <<now, opened, open, sends, account, history>>
  BY DEF Restore, Rearm
<1>2. ASSUME NEW d \in {0, 1}, WriteCounter(p, d)
      PROVE  /\ armed' \subseteq [id : Challenges, n : 0 .. Allowed, exp : Nat]
             /\ \A x \in armed' : x.id \in 1 .. opened'
  <2>1. CASE armed' = armed
    BY <1>1, <2>1 DEF TypeInv, ValuesOK
  <2>2. CASE armed' = armed \cup {[id |-> ch[p], n |-> h.n + d, exp |-> h.exp] : h \in hold[p]}
    <3>1. \A h \in hold[p] : [id |-> ch[p], n |-> h.n + d, exp |-> h.exp] \in [id : Challenges, n : 0 .. Allowed, exp : Nat]
      BY <1>0 DEF Held
    <3>2. \A x \in armed' : x \in armed \/ x.id = ch[p]
      BY <2>2
    <3>3. \A x \in armed' : x.id \in 1 .. opened'
      BY <1>0, <1>1, <3>2 DEF TypeInv, ValuesOK
    <3>4. armed' \subseteq [id : Challenges, n : 0 .. Allowed, exp : Nat]
      BY <2>2, <3>1 DEF TypeInv, ValuesOK
    <3>. QED  BY <3>3, <3>4
  <2>. QED  BY <1>2, <2>1, <2>2 DEF WriteCounter
<1>3. CASE Restore(p)
  <2>1. WriteCounter(p, 0) /\ UNCHANGED <<sent, sends>> /\ Finish(p)
    BY <1>3 DEF Restore
  <2>2. ValuesOK'
    BY <1>1, <1>2, <2>1 DEF TypeInv, ValuesOK
  <2>3. LocalOK'
    BY <1>0, <1>1, <2>1, FinishLocal DEF TypeInv
  <2>. QED  BY <1>1, <2>2, <2>3 DEF TypeInv, AccountOK, HistoryOK, account, history
<1>4. CASE Rearm(p)
  <2>1. LocalOK'
    <3>1. Goto(p, "count") /\ UNCHANGED <<opened, sends, local>> /\ pc[p] # "idle" /\ "count" \in Labels
      BY <1>4 DEF Rearm, Labels
    <3>. QED  BY <3>1, StayLocal DEF TypeInv
  <2>2. ValuesOK'
    <3>1. CASE how[p] = "otp"
      <4>1. PICK h \in hold[p] : sent' = [sent EXCEPT ![ch[p]] = Append(@, [h EXCEPT !.n = @ + 1])]
        BY <1>4, <3>1 DEF Rearm
      <4>2. h.code \in 1 .. sends /\ sends \in 0 .. MaxSends /\ MaxSends \in Nat
        BY <1>4, <3>1, Numbers DEF Rearm, TypeInv, LocalOK, InHand, ValuesOK
      <4>3. [h EXCEPT !.n = @ + 1] \in Sent /\ [h EXCEPT !.n = @ + 1].code = h.code
        BY <1>0, <4>2 DEF Held, Sent, Codes
      <4>4. /\ sent' \in [Challenges -> Seq(Sent)]
            /\ \A d \in Challenges : \A i \in DOMAIN sent'[d] : sent'[d][i].code \in 1 .. sends'
        <5>. DEFINE e == [h EXCEPT !.n = @ + 1]
        <5>1. e \in Sent /\ e.code \in 1 .. sends' /\ sent' = [sent EXCEPT ![ch[p]] = Append(@, e)]
          BY <1>1, <4>1, <4>2, <4>3
        <5>. HIDE DEF e
        <5>. QED  BY <1>0, <1>1, <5>1, SentAppend DEF TypeInv, ValuesOK
      <4>5. armed' = armed
        BY <1>4, <3>1 DEF Rearm
      <4>. QED  BY <1>1, <4>4, <4>5 DEF TypeInv, ValuesOK
    <3>2. CASE how[p] # "otp"
      <4>1. WriteCounter(p, 1) /\ sent' = sent
        BY <1>4, <3>2 DEF Rearm
      <4>. QED  BY <1>1, <1>2, <4>1 DEF TypeInv, ValuesOK
    <3>. QED  BY <3>1, <3>2
  <2>. QED  BY <1>1, <2>1, <2>2 DEF TypeInv, AccountOK, HistoryOK, account, history
<1>. QED  BY <1>3, <1>4

\* The lock is read and cleared, and failures are counted.
LEMMA LockTypes ==
  ASSUME TwoFactorAssumption, TypeInv, NEW p \in Procs,
         Load(p) \/ ClearLock(p) \/ CountFailure(p) \/ SetLock(p)
  PROVE  TypeInv'
<1>0. UNCHANGED <<now, values, batches, history>> /\ opened' = opened /\ sends' = sends /\ sends \in Nat /\ sends' \in Nat
  BY DEF Load, ClearLock, CountFailure, SetLock, account, values, TypeInv, ValuesOK
<1>1. row' \in Row
  <2>1. now + LockDuration \in Nat /\ row.count + 1 \in Nat
    BY Numbers DEF TypeInv, AccountOK, Row
  <2>2. row' = row \/ row' = [row EXCEPT !.count = 0, !.locked = 0]
        \/ row' = [row EXCEPT !.count = row.count + 1] \/ row' = [row EXCEPT !.locked = now + LockDuration]
    BY DEF Load, ClearLock, CountFailure, SetLock, account, Raised
  <2>3. row \in Row
    BY DEF TypeInv, AccountOK
  <2>4. [row EXCEPT !.count = 0, !.locked = 0] \in Row /\ [row EXCEPT !.count = row.count + 1] \in Row
        /\ [row EXCEPT !.locked = now + LockDuration] \in Row
    BY <2>1, <2>3 DEF Row
  <2>. QED  BY <2>2, <2>3, <2>4
<1>2. LocalOK'
  <2>1. CASE Finish(p)
    BY <1>0, <2>1, FinishLocal DEF TypeInv
  <2>2. CASE ~Finish(p) /\ Load(p)
    <3>1. seen' = [seen EXCEPT ![p] = {row}] /\ UNCHANGED <<ch, how, hold, guess>> /\ pc[p] = "load"
      BY <2>2 DEF Load
    <3>2. PICK l \in {"clear", "gate"} : Goto(p, l)
      BY <2>2 DEF Load
    <3>3. row \in Row
      BY DEF TypeInv, AccountOK
    <3>4. pc' \in [Procs -> Labels] /\ seen' \in [Procs -> SUBSET Row]
      BY <3>1, <3>2, <3>3 DEF TypeInv, LocalOK, Goto, Labels
    <3>5. InHand'
      BY <1>0, <3>1, <3>2 DEF TypeInv, LocalOK, InHand, Goto
    <3>. QED  BY <3>1, <3>4, <3>5 DEF TypeInv, LocalOK
  <2>3. CASE ~Finish(p) /\ ~Load(p)
    <3>1. PICK l \in {"gate", "lock"} : Goto(p, l)
      BY <2>3 DEF ClearLock, CountFailure, SetLock
    <3>2. UNCHANGED local /\ pc[p] # "idle" /\ l \in Labels
      BY <2>3 DEF ClearLock, CountFailure, SetLock, Labels
    <3>. QED  BY <1>0, <3>1, <3>2, StayLocal DEF TypeInv
  <2>. QED  BY <2>1, <2>2, <2>3
<1>. QED  BY <1>0, <1>1, <1>2 DEF TypeInv, ValuesOK, AccountOK, HistoryOK, values, history

LEMMA RightTypes ==
  ASSUME TwoFactorAssumption, TypeInv, NEW p \in Procs, Swap(p) \/ Reset(p) \/ Valid(p) \/ Throw(p)
  PROVE  TypeInv'
<1>0. /\ UNCHANGED <<now, opened, armed, sent, sends, batches, tries, otpTries>> /\ sends \in Nat
      /\ open' \subseteq open
  BY DEF Swap, Reset, Valid, Throw, OpenAfterConsume, account, values, history, TypeInv, ValuesOK
<1>1. row' \in Row
  <2>1. CASE Swap(p)
    <3>1. row' = row \/ \E r \in seen[p] : row' = [row EXCEPT !.codes = r.codes \ {guess[p]}]
      BY <2>1 DEF Swap
    <3>2. \A r \in seen[p] : r.codes \ {guess[p]} \in SUBSET BackupCodes
      BY DEF TypeInv, LocalOK, Row
    <3>. QED  BY <3>1, <3>2 DEF TypeInv, AccountOK, Row
  <2>2. CASE ~Swap(p)
    <3>1. row \in Row /\ [row EXCEPT !.count = 0, !.locked = 0] \in Row
      BY DEF TypeInv, AccountOK, Row
    <3>. QED  BY <2>2, <3>1 DEF Reset, Valid, Throw, account
  <2>. QED  BY <2>1, <2>2
<1>2. spent' \subseteq BackupCodes
  <2>1. \/ spent' = spent
        \/ Swap(p) /\ CodesAsRead(p) /\ spent' = spent \cup {guess[p]}
    BY DEF Swap, Reset, Valid, Throw, history
  <2>2. Swap(p) /\ CodesAsRead(p) => guess[p] \in BackupCodes
    BY DEF Swap, CodesAsRead, TypeInv, LocalOK, InHand, Row
  <2>. QED  BY <2>1, <2>2 DEF TypeInv, HistoryOK
<1>3. fails' \in Nat /\ minted' \in [Challenges -> Nat]
  BY DEF Swap, Reset, Valid, Throw, history, TypeInv, HistoryOK
<1>4. LocalOK'
  <2>1. CASE Finish(p)
    BY <1>0, <2>1, FinishLocal DEF TypeInv
  <2>2. CASE ~Finish(p)
    <3>1. PICK l \in {"reset", "valid"} : Goto(p, l)
      BY <2>2 DEF Swap, Reset, Valid, Throw
    <3>2. UNCHANGED local /\ pc[p] # "idle" /\ l \in Labels
      BY <2>2 DEF Swap, Reset, Valid, Throw, Labels
    <3>. QED  BY <1>0, <3>1, <3>2, StayLocal DEF TypeInv
  <2>. QED  BY <2>1, <2>2
<1>5. ValuesOK'
  BY <1>0 DEF TypeInv, ValuesOK
<1>. QED  BY <1>0, <1>1, <1>2, <1>3, <1>4, <1>5 DEF TypeInv, AccountOK, HistoryOK

LEMMA StepTypes ==
  ASSUME TwoFactorAssumption, TypeInv, [Next]_vars
  PROVE  TypeInv'
<1>1. CASE UNCHANGED vars
  BY <1>1 DEF vars, TypeInv, LocalOK, InHand, ValuesOK, AccountOK, HistoryOK
<1>2. CASE SignIn
  BY <1>2, OpenTypes
<1>3. ASSUME NEW p \in Procs, Step(p) PROVE TypeInv'
  BY <1>3, OpenTypes, SentTypes, BeginTypes, BeginOtpTypes, CheckTypes, WriteTypes, LockTypes,
     RightTypes DEF Step
<1>4. CASE Regenerate
  <2>0. UNCHANGED <<now, values, pc, local, tries, otpTries, minted, fails>>
    BY <1>4 DEF Regenerate
  <2>1. batches' \in 1 .. MaxBatches
    BY <1>4, Numbers DEF Regenerate, TypeInv, AccountOK
  <2>2. BatchOf(batches') \subseteq BackupCodes
    BY <2>1, Batches
  <2>3. row' \in Row /\ spent' \subseteq BackupCodes
    BY <1>4, <2>2 DEF Regenerate, TypeInv, AccountOK, HistoryOK, Row
  <2>4. LocalOK'
    BY <2>0, SameLocal DEF TypeInv, ValuesOK, values
  <2>. QED  BY <2>0, <2>1, <2>3, <2>4 DEF TypeInv, ValuesOK, AccountOK, HistoryOK, values
<1>5. CASE Tick
  <2>0. UNCHANGED <<values, account, pc, local, tries, otpTries, minted, spent>>
    BY <1>5 DEF Tick
  <2>1. now' \in Nat /\ fails' \in Nat
    BY <1>5 DEF Tick, TypeInv, HistoryOK
  <2>2. LocalOK'
    BY <2>0, SameLocal DEF TypeInv, ValuesOK, values
  <2>. QED  BY <2>0, <2>1, <2>2 DEF TypeInv, ValuesOK, AccountOK, HistoryOK, values, account
<1>. QED  BY <1>1, <1>2, <1>3, <1>4, <1>5 DEF Next

LEMMA InitTypes == ASSUME TwoFactorAssumption, Init PROVE TypeInv
<1>0. MaxChallenges \in Nat /\ MaxSends \in Nat /\ MaxBatches \in Nat /\ MaxBatches > 0
  BY Numbers
<1>1. LocalOK
  BY DEF Init, LocalOK, InHand, Labels
<1>2. ValuesOK
  <2>1. <<>> \in Seq(Sent)
    OBVIOUS
  <2>. QED  BY <1>0, <2>1 DEF Init, ValuesOK
<1>3. AccountOK
  <2>1. BatchOf(1) \subseteq BackupCodes
    BY <1>0, Batches
  <2>. QED  BY <1>0, <2>1 DEF Init, AccountOK, Row
<1>4. HistoryOK
  BY DEF Init, HistoryOK
<1>. QED  BY <1>1, <1>2, <1>3, <1>4 DEF TypeInv, Init

LEMMA TypesInvariance == ASSUME TwoFactorAssumption PROVE Spec => []TypeInv
<1>1. Init => TypeInv
  BY InitTypes
<1>2. TypeInv /\ [Next]_vars => TypeInv'
  BY StepTypes
<1>. QED  BY <1>1, <1>2, PTL DEF Spec

\* Every variable of the second factor has its type: no counter of a challenge goes
\* beyond the attempts allowed, and no backup code is from elsewhere.
THEOREM TypeCorrect == ASSUME TwoFactorAssumption PROVE Spec => []TypeOK
<1>. QED  BY TypesInvariance, TypeInvTypes, PTL

-----------------------------------------------------------------------------
(* Sessions and backup codes.                                              *)

\* Whoever is to be given the session of a challenge still has to take it.
Unminted ==
  /\ OneSession
  /\ \A x \in open : minted[x.id] = 0
  /\ \A c \in Challenges : c > opened => minted[c] = 0

LEMMA UnmintedInvariance == ASSUME TwoFactorAssumption PROVE Spec => []Unminted
<1>1. Init => Unminted
  BY DEF Init, Unminted, OneSession
<1>2. TypeInv /\ TypeInv' /\ Unminted /\ [Next]_vars => Unminted'
  <2>. SUFFICES ASSUME TypeInv, TypeInv', Unminted, [Next]_vars PROVE Unminted'
    OBVIOUS
  <2>0. opened \in Nat /\ minted \in [Challenges -> Nat] /\ \A x \in open : x.id \in 1 .. opened /\ x.id \in Challenges
    BY DEF TypeInv, ValuesOK, HistoryOK
  <2>1. CASE minted' = minted /\ open' \subseteq open /\ opened' = opened
    BY <2>1 DEF Unminted, OneSession
  <2>2. CASE SignIn
    <3>1. /\ opened' = opened + 1 /\ minted' = minted /\ opened' \in Challenges
          /\ \A x \in open' : x \in open \/ x.id = opened'
      BY <2>0, <2>2, Numbers DEF SignIn, history, TypeInv, ValuesOK, Challenges
    <3>2. \A x \in open' : minted'[x.id] = 0
      BY <2>0, <3>1 DEF Unminted
    <3>. QED  BY <2>0, <3>1, <3>2 DEF Unminted, OneSession, Challenges
  <2>3. ASSUME NEW p \in Procs, Valid(p) PROVE Unminted'
    <3>1. /\ open' = open \ Challenge(ch[p]) /\ opened' = opened
          /\ \/ minted' = minted
             \/ minted' = [minted EXCEPT ![ch[p]] = @ + 1] /\ Challenge(ch[p]) # {}
      BY <2>3 DEF Valid, OpenAfterConsume, Live
    <3>2. CASE minted' = minted
      BY <3>1, <3>2, <2>1
    <3>3. CASE minted' = [minted EXCEPT ![ch[p]] = @ + 1] /\ Challenge(ch[p]) # {}
      <4>1. minted[ch[p]] = 0 /\ ch[p] \in 1 .. opened
        BY <2>0, <3>3 DEF Unminted, Challenge
      <4>2. \A x \in open' : x \in open /\ x.id # ch[p]
        BY <3>1 DEF Challenge
      <4>3. \A c \in Challenges : minted'[c] = IF c = ch[p] THEN 1 ELSE minted[c]
        BY <2>0, <3>3, <4>1
      <4>. QED  BY <2>0, <3>1, <4>1, <4>2, <4>3 DEF Unminted, OneSession, Challenges
    <3>. QED  BY <3>1, <3>2, <3>3
  <2>4. \/ minted' = minted /\ open' \subseteq open /\ opened' = opened
        \/ SignIn \/ \E p \in Procs : Valid(p)
    BY DEF Next, Step, Send, CreateOtp, Verify, Load, ClearLock, Begin, Burn, BeginOtp, CheckRight,
           CheckWrong, CheckFails, Restore, Rearm, CountFailure, SetLock, Swap, Reset, Throw, Regenerate,
           Tick, values, history, vars
  <2>. QED  BY <2>1, <2>2, <2>3, <2>4
<1>. QED  BY <1>1, <1>2, TypesInvariance, PTL DEF Spec

\* However many calls answer a challenge at the same time, by whichever factors and
\* whether or not they die on the way, consuming the challenge (valid, in
\* verify-two-factor.ts) gives one of them a session.
THEOREM OneSessionCorrect == ASSUME TwoFactorAssumption PROVE Spec => []OneSession
<1>1. Unminted => OneSession
  BY DEF Unminted
<1>. QED  BY <1>1, UnmintedInvariance, PTL

\* The codes there are, and those that a call has read, come from the batches so far.
Generated ==
  /\ row.codes \subseteq 1 .. batches * Batch
  /\ spent \subseteq 1 .. batches * Batch
  /\ SpentStaysSpent

LEMMA GeneratedInvariance == ASSUME TwoFactorAssumption PROVE Spec => []Generated
<1>1. Init => Generated
  <2>1. 1 \in 1 .. MaxBatches
    BY Numbers
  <2>2. BatchOf(1) \subseteq 1 .. 1 * Batch
    BY <2>1, Batches
  <2>. QED  BY <2>2 DEF Init, Generated, SpentStaysSpent
<1>2. TypeInv /\ TypeInv' /\ Generated /\ [Next]_vars => Generated'
  <2>. SUFFICES ASSUME TypeInv, TypeInv', Generated, [Next]_vars PROVE Generated'
    OBVIOUS
  <2>1. CASE row'.codes = row.codes /\ batches' = batches /\ spent' = spent
    BY <2>1 DEF Generated, SpentStaysSpent
  <2>2. CASE Regenerate
    <3>1. batches \in 1 .. MaxBatches /\ batches' = batches + 1 /\ batches' \in 1 .. MaxBatches
      BY <2>2, Numbers DEF Regenerate, TypeInv, AccountOK
    <3>2. /\ BatchOf(batches') \subseteq 1 .. batches' * Batch
          /\ \A k \in BatchOf(batches') : k > (batches' - 1) * Batch
          /\ batches' * Batch \in Nat /\ (batches' - 1) * Batch + Batch = batches' * Batch
      BY <3>1, Batches
    <3>3. batches' - 1 = batches /\ Batch \in Nat /\ batches * Batch \in Nat
      BY <3>1, Numbers
    <3>4. batches * Batch + Batch = batches' * Batch
      BY <3>2, <3>3
    <3>5. row'.codes = BatchOf(batches') /\ spent' = spent \cup row.codes
      BY <2>2 DEF Regenerate, TypeInv, AccountOK, Row
    <3>6. spent' \subseteq 1 .. batches * Batch
      BY <3>5 DEF Generated
    <3>7. 1 .. batches * Batch \subseteq 1 .. batches' * Batch
      BY <3>3, <3>4
    <3>8. spent' \cap row'.codes = {}
      BY <3>2, <3>3, <3>5, <3>6
    <3>. QED  BY <3>2, <3>5, <3>6, <3>7, <3>8 DEF Generated, SpentStaysSpent
  <2>3. ASSUME NEW p \in Procs, Swap(p), CodesAsRead(p) PROVE Generated'
    <3>1. PICK r \in seen[p] : row' = [row EXCEPT !.codes = r.codes \ {guess[p]}]
      BY <2>3 DEF Swap
    <3>2. r.codes = row.codes /\ guess[p] \in row.codes
      BY <2>3 DEF CodesAsRead, Swap, TypeInv, LocalOK, InHand
    <3>3. row'.codes = row.codes \ {guess[p]} /\ spent' = spent \cup {guess[p]} /\ batches' = batches
      BY <2>3, <3>1, <3>2 DEF Swap, TypeInv, AccountOK, Row
    <3>. QED  BY <3>2, <3>3 DEF Generated, SpentStaysSpent
  <2>4. \/ row'.codes = row.codes /\ batches' = batches /\ spent' = spent
        \/ Regenerate \/ \E p \in Procs : Swap(p) /\ CodesAsRead(p)
    <3>1. \A i, j : /\ [row EXCEPT !.count = i].codes = row.codes
                     /\ [row EXCEPT !.locked = i].codes = row.codes
                     /\ [row EXCEPT !.count = i, !.locked = j].codes = row.codes
      BY DEF TypeInv, AccountOK, Row
    <3>2. CASE UNCHANGED <<account, spent>>
      BY <3>2 DEF account
    <3>3. ASSUME NEW p \in Procs, ClearLock(p) \/ CountFailure(p) \/ SetLock(p) \/ Reset(p)
          PROVE  row'.codes = row.codes /\ batches' = batches /\ spent' = spent
      <4>1. CASE ClearLock(p)
        BY <3>1, <4>1 DEF ClearLock, history
      <4>2. CASE CountFailure(p)
        BY <3>1, <4>2 DEF CountFailure, history
      <4>3. CASE SetLock(p)
        BY <3>1, <4>3 DEF SetLock, history
      <4>4. CASE Reset(p)
        BY <3>1, <4>4 DEF Reset
      <4>. QED  BY <3>3, <4>1, <4>2, <4>3, <4>4
    <3>4. \/ UNCHANGED <<account, spent>>
          \/ Regenerate
          \/ \E p \in Procs : Swap(p) /\ CodesAsRead(p)
          \/ \E p \in Procs : ClearLock(p) \/ CountFailure(p) \/ SetLock(p) \/ Reset(p)
      BY DEF Next, Step, SignIn, Send, CreateOtp, Verify, Load, Begin, Burn, BeginOtp, CheckRight,
             CheckWrong, CheckFails, Restore, Rearm, Swap, Valid, Throw, Tick, account, history, vars
    <3>. QED  BY <3>2, <3>3, <3>4
  <2>. QED  BY <2>1, <2>2, <2>3, <2>4
<1>. QED  BY <1>1, <1>2, TypesInvariance, PTL DEF Spec

\* A backup code that was accepted (verifyBackupCode) or replaced by a new batch
\* (generateBackupCodes) is not among the codes of the account again, whichever
\* copies of the codes calls in flight have read.
THEOREM SpentStaysSpentCorrect == ASSUME TwoFactorAssumption PROVE Spec => []SpentStaysSpent
<1>1. Generated => SpentStaysSpent
  BY DEF Generated
<1>. QED  BY <1>1, GeneratedInvariance, PTL

-----------------------------------------------------------------------------
(* The budget of guesses: a counter is there or in the hands of one call,  *)
(* and says no less than what was checked against it.                      *)

Holding(p) == pc[p] \in {"check", "restore", "rearm"} /\ how[p] # "otp"

\* What a counter in the hands of p is to be raised by.
Due(p) == IF pc[p] = "rearm" THEN 1 ELSE 0

OneCounter ==
  /\ \A x, y \in armed : x.id = y.id => x = y
  /\ \A p \in Procs : Holding(p) => \A x \in armed : x.id # ch[p]
  /\ \A p, q \in Procs : Holding(p) /\ Holding(q) /\ ch[p] = ch[q] => p = q

TriesCounted ==
  /\ \A c \in Challenges : tries[c] <= Allowed
  /\ \A c \in Challenges : c > opened => tries[c] = 0
  /\ \A x \in armed : tries[x.id] <= x.n
  /\ \A p \in Procs : Holding(p) => \A h \in hold[p] : tries[ch[p]] <= h.n + Due(p)

CounterInv == OneCounter /\ TriesCounted

\* Counters that were in the hands of a call stay there, go back or are lost.
LEMMA CounterQuiet ==
  ASSUME CounterInv, UNCHANGED <<armed, tries, opened>>,
         \A q \in Procs : Holding(q)' => Holding(q) /\ UNCHANGED <<pc[q], ch[q], hold[q]>>
  PROVE  CounterInv'
<1>1. OneCounter'
  BY DEF CounterInv, OneCounter
<1>2. TriesCounted'
  BY DEF CounterInv, TriesCounted, Due
<1>. QED  BY <1>1, <1>2 DEF CounterInv

LEMMA CounterMoves ==
  ASSUME TypeInv, CounterInv, NEW p \in Procs,
         \A q \in Procs : q # p => UNCHANGED <<pc[q], ch[q], hold[q], how[q]>>,
         ~Holding(p)', UNCHANGED <<armed, tries, opened>>
  PROVE  CounterInv'
<1>1. \A q \in Procs : Holding(q)' => Holding(q) /\ UNCHANGED <<pc[q], ch[q], hold[q]>>
  BY DEF Holding
<1>. QED  BY <1>1, CounterQuiet

\* What a call does is not done to others.
LEMMA Others ==
  ASSUME TypeInv, NEW p \in Procs, Step(p)
  PROVE  \A q \in Procs : q # p => UNCHANGED <<pc[q], ch[q], hold[q], how[q]>>
<1>0. /\ pc \in [Procs -> Labels] /\ ch \in [Procs -> {0} \cup Challenges]
      /\ how \in [Procs -> Methods \cup {"none"}] /\ hold \in [Procs -> SUBSET Held]
  BY DEF TypeInv, LocalOK
<1>1. CASE Finish(p)
  BY <1>0, <1>1 DEF Finish, Goto
<1>2. CASE Send(p) \/ Verify(p)
  BY <1>0, <1>2 DEF Send, Verify, Find, Goto
<1>3. CASE ~Finish(p) /\ (Begin(p) \/ BeginOtp(p) \/ Load(p))
  BY <1>0, <1>3 DEF Begin, BeginOtp, Load, Goto
<1>4. CASE ~Finish(p) /\ (CheckRight(p) \/ CheckWrong(p) \/ CheckFails(p) \/ Rearm(p) \/ ClearLock(p)
                          \/ CountFailure(p) \/ SetLock(p) \/ Swap(p) \/ Reset(p))
  <2>1. UNCHANGED <<ch, how, hold>> /\ \E l : Goto(p, l)
    BY <1>4 DEF CheckRight, CheckWrong, CheckFails, Rearm, ClearLock, CountFailure, SetLock, Swap, Reset, local
  <2>. QED  BY <1>0, <2>1 DEF Goto
<1>. QED  BY <1>1, <1>2, <1>3, <1>4 DEF Step, CreateOtp, Burn, Restore, Valid, Throw

LEMMA CounterBegin ==
  ASSUME TwoFactorAssumption, TypeInv, CounterInv, NEW p \in Procs, Begin(p)
  PROVE  CounterInv'
<1>0. /\ \A q \in Procs : q # p => UNCHANGED <<pc[q], ch[q], hold[q], how[q]>>
      /\ \A q \in Procs : q # p => (Holding(q)' <=> Holding(q)) /\ Due(q)' = Due(q)
      /\ armed' = armed \ Counter(ch[p]) /\ UNCHANGED <<tries, opened>> /\ how[p] # "otp"
  BY Others DEF Step, Begin, ArmedAfterConsume, history, Holding, Due
<1>1. CASE Finish(p)
  <2>1. ~Holding(p)'
    BY <1>1 DEF Finish, Goto, Holding, TypeInv, LocalOK
  <2>2. OneCounter'
    BY <1>0, <2>1 DEF CounterInv, OneCounter
  <2>3. TriesCounted'
    BY <1>0, <2>1 DEF CounterInv, TriesCounted
  <2>. QED  BY <2>2, <2>3 DEF CounterInv
<1>2. CASE ~Finish(p)
  <2>1. PICK x \in Counter(ch[p]) :
          /\ hold' = [hold EXCEPT ![p] = {[y EXCEPT !.n = x.n] : y \in @}]
          /\ Goto(p, IF x.n >= Allowed THEN "burn" ELSE "check")
    BY <1>2 DEF Begin
  <2>2. ch' = ch /\ how' = how
    BY <1>2 DEF Begin
  <2>3. x \in armed /\ x.id = ch[p] /\ pc'[p] \in {"burn", "check"} /\ \A h \in hold'[p] : h.n = x.n /\ x.n \in Nat
    BY <2>1 DEF Counter, TypeInv, LocalOK, ValuesOK, Goto, Held
  <2>4. \A y \in armed' : y \in armed /\ y.id # ch[p]
    BY <1>0 DEF Counter
  <2>5. \A q \in Procs : q # p /\ Holding(q) => ch[q] # ch[p]
    BY <2>3 DEF CounterInv, OneCounter
  <2>6. OneCounter'
    BY <1>0, <2>2, <2>4, <2>5 DEF CounterInv, OneCounter
  <2>7. Holding(p)' => \A h \in hold'[p] : tries'[ch'[p]] <= h.n + Due(p)'
    <3>1. tries'[ch'[p]] <= x.n
      BY <1>0, <2>2, <2>3 DEF CounterInv, TriesCounted
    <3>2. Due(p)' = 0
      BY <2>3 DEF Due
    <3>. QED  BY <2>3, <3>1, <3>2
  <2>8. TriesCounted'
    BY <1>0, <2>4, <2>7 DEF CounterInv, TriesCounted
  <2>. QED  BY <2>6, <2>8 DEF CounterInv
<1>. QED  BY <1>1, <1>2

LEMMA CounterCheck ==
  ASSUME TwoFactorAssumption, TypeInv, CounterInv, NEW p \in Procs,
         CheckRight(p) \/ CheckWrong(p) \/ CheckFails(p)
  PROVE  CounterInv'
<1>0. /\ \A q \in Procs : q # p => UNCHANGED <<pc[q], ch[q], hold[q], how[q]>>
      /\ \A q \in Procs : q # p => (Holding(q)' <=> Holding(q)) /\ Due(q)' = Due(q)
      /\ UNCHANGED <<armed, opened, ch, hold, how>> /\ pc[p] = "check"
  BY Others DEF Step, CheckRight, CheckWrong, CheckFails, local, values, Holding, Due
<1>1. PICK l \in {"swap", "reset", "rearm", "restore"} : pc' = [pc EXCEPT ![p] = l]
  BY DEF CheckRight, CheckWrong, CheckFails, Goto
<1>2. pc'[p] = l /\ (l = "rearm" => Checked(p)) /\ (CheckFails(p) => l = "restore")
  BY <1>1 DEF CheckRight, CheckWrong, CheckFails, Goto, TypeInv, LocalOK
<1>3. CASE tries' = tries
  <2>1. Holding(p)' => Holding(p)
    BY <1>0 DEF Holding
  <2>2. OneCounter'
    BY <1>0, <2>1 DEF CounterInv, OneCounter
  <2>3. Holding(p)' => \A h \in hold'[p] : tries'[ch'[p]] <= h.n + Due(p)'
    <3>1. Holding(p) => \A h \in hold[p] : tries[ch[p]] <= h.n /\ h.n \in Nat
      BY <1>0 DEF CounterInv, TriesCounted, Due, TypeInv, LocalOK, Held
    <3>2. Holding(p) => tries[ch[p]] \in Nat
      BY <1>0, Challenged DEF TypeInv, HistoryOK
    <3>. QED  BY <1>0, <1>3, <2>1, <3>1, <3>2 DEF Due
  <2>4. TriesCounted'
    BY <1>0, <1>3, <2>3 DEF CounterInv, TriesCounted
  <2>. QED  BY <2>2, <2>4 DEF CounterInv
<1>4. CASE tries' # tries
  <2>1. how[p] # "otp" /\ tries' = [tries EXCEPT ![ch[p]] = @ + 1] /\ Holding(p)
    BY <1>0, <1>4 DEF CheckRight, CheckWrong, CheckFails, Checked, Holding, history
  <2>2. /\ ch[p] \in Challenges /\ ch[p] \in 1 .. opened /\ tries[ch[p]] \in Nat /\ opened \in Nat
        /\ \A c \in Challenges : tries'[c] = IF c = ch[p] THEN tries[c] + 1 ELSE tries[c]
    BY <1>0, <2>1, Challenged DEF TypeInv, HistoryOK, LocalOK, InHand, ValuesOK
  <2>3. \A h \in hold[p] : tries[ch[p]] <= h.n /\ h.n \in Nat /\ h.n < Allowed
    BY <1>0, <2>1 DEF CounterInv, TriesCounted, Due, TypeInv, LocalOK, InHand, Held
  <2>4. tries[ch[p]] + 1 <= Allowed
    <3>1. hold[p] # {} /\ Allowed \in Nat
      BY <1>0, Numbers DEF TypeInv, LocalOK, InHand
    <3>. QED  BY <2>2, <2>3, <3>1
  <2>5. OneCounter'
    BY <1>0, <2>1 DEF CounterInv, OneCounter
  <2>6. Holding(p)' => \A h \in hold'[p] : tries'[ch'[p]] <= h.n + Due(p)'
    <3>1. Holding(p)' => l = "rearm"
      <4>1. l # "restore"
        BY <1>1, <1>2, <1>4 DEF CheckRight, CheckWrong, CheckFails, history, Goto, TypeInv, LocalOK
      <4>. QED  BY <1>2, <4>1 DEF Holding
    <3>. QED  BY <1>0, <1>2, <2>2, <2>3, <3>1 DEF Due
  <2>7. \A x \in armed' : tries'[x.id] <= x.n
    <3>1. \A x \in armed : x.id # ch[p] /\ x.id \in Challenges
      BY <2>1 DEF CounterInv, OneCounter, TypeInv, ValuesOK
    <3>. QED  BY <1>0, <2>2, <3>1 DEF CounterInv, TriesCounted
  <2>8. \A q \in Procs : q # p /\ Holding(q) => ch[q] # ch[p] /\ ch[q] \in Challenges
    BY <2>1, Challenged DEF CounterInv, OneCounter, Holding
  <2>9. TriesCounted'
    BY <1>0, <2>2, <2>4, <2>6, <2>7, <2>8 DEF CounterInv, TriesCounted
  <2>. QED  BY <2>5, <2>9 DEF CounterInv
<1>. QED  BY <1>3, <1>4

LEMMA CounterWrite ==
  ASSUME TwoFactorAssumption, TypeInv, CounterInv, NEW p \in Procs, Restore(p) \/ (Rearm(p) /\ how[p] # "otp")
  PROVE  CounterInv'
<1>0. /\ \A q \in Procs : q # p => UNCHANGED <<pc[q], ch[q], hold[q], how[q]>>
      /\ \A q \in Procs : q # p => (Holding(q)' <=> Holding(q)) /\ Due(q)' = Due(q)
      /\ UNCHANGED <<tries, opened>> /\ pc[p] \in {"restore", "rearm"} /\ (Restore(p) => pc[p] = "restore")
  BY Others DEF Step, Restore, Rearm, history, Holding, Due
<1>1. ~Holding(p)'
  BY DEF Restore, Rearm, Finish, Goto, Holding, TypeInv, LocalOK
<1>2. CASE armed' = armed
  BY <1>0, <1>1, <1>2, CounterMoves
<1>3. CASE armed' # armed
  <2>0. how[p] # "otp"
    BY DEF Restore, Rearm, TypeInv, LocalOK, InHand
  <2>1. Holding(p)
    BY <1>0, <2>0 DEF Holding
  <2>. DEFINE D == Due(p)
  <2>2. armed' = armed \cup {[id |-> ch[p], n |-> h.n + D, exp |-> h.exp] : h \in hold[p]}
    BY <1>0, <1>3 DEF Restore, Rearm, WriteCounter, Due
  <2>3. ch[p] \in Challenges /\ \A h \in hold[p] : tries[ch[p]] <= h.n + D
    BY <1>0, <2>1, Challenged DEF CounterInv, TriesCounted
  <2>4. \A x \in armed' : x \in armed \/ (x.id = ch[p] /\ tries[x.id] <= x.n)
    BY <2>2, <2>3
  <2>5. \A x \in armed : x.id # ch[p]
    BY <2>1 DEF CounterInv, OneCounter
  <2>6. \A x, y \in armed' : x \notin armed /\ y \notin armed => x = y
    BY <2>2 DEF TypeInv, LocalOK, InHand
  <2>7. \A q \in Procs : q # p /\ Holding(q) => ch[q] # ch[p]
    BY <2>1 DEF CounterInv, OneCounter
  <2>. HIDE DEF D
  <2>8. OneCounter'
    BY <1>0, <1>1, <2>4, <2>5, <2>6, <2>7 DEF CounterInv, OneCounter
  <2>9. TriesCounted'
    BY <1>0, <1>1, <2>4 DEF CounterInv, TriesCounted
  <2>. QED  BY <2>8, <2>9 DEF CounterInv
<1>. QED  BY <1>2, <1>3

LEMMA CounterOpen ==
  ASSUME TwoFactorAssumption, TypeInv, TypeInv', CounterInv, SignIn
  PROVE  CounterInv'
<1>0. /\ UNCHANGED <<tries, pc, ch, how, hold>> /\ opened' = opened + 1 /\ opened \in Nat
      /\ opened' \in Challenges
  BY Numbers DEF SignIn, local, history, TypeInv, ValuesOK, Challenges
<1>1. \A x \in armed' : x \in armed \/ x = [id |-> opened', n |-> 0, exp |-> now + ChallengeLife]
  BY DEF SignIn
<1>2. tries[opened'] = 0 /\ \A x \in armed : x.id \in 1 .. opened
  BY <1>0 DEF CounterInv, TriesCounted, TypeInv, ValuesOK
<1>3. \A q \in Procs : Holding(q) => ch[q] \in 1 .. opened
  BY DEF Holding, TypeInv, LocalOK, InHand
<1>4. OneCounter'
  BY <1>0, <1>1, <1>2, <1>3 DEF CounterInv, OneCounter, Holding
<1>5. TriesCounted'
  BY <1>0, <1>1, <1>2, <1>3 DEF CounterInv, TriesCounted, Holding, Due
<1>. QED  BY <1>4, <1>5 DEF CounterInv

\* Everything else leaves the counters alone.
LEMMA CounterOther ==
  ASSUME TwoFactorAssumption, TypeInv, CounterInv, NEW p \in Procs, Step(p),
         ~Begin(p), ~CheckRight(p), ~CheckWrong(p), ~CheckFails(p), ~Restore(p),
         ~(Rearm(p) /\ how[p] # "otp")
  PROVE  CounterInv'
<1>1. UNCHANGED <<armed, tries, opened>>
  BY DEF Step, Send, CreateOtp, Verify, Load, ClearLock, Burn, BeginOtp, Rearm, CountFailure, SetLock,
         Swap, Reset, Valid, Throw, values, history
<1>2. CASE BeginOtp(p)
  <2>1. ~Holding(p)'
    BY <1>2 DEF BeginOtp, Finish, Goto, Holding, TypeInv, LocalOK
  <2>. QED  BY <1>1, <2>1, Others, CounterMoves
<1>3. CASE ~BeginOtp(p)
  <2>1. pc'[p] \in Labels \ {"check", "restore", "rearm"}
    BY <1>3 DEF Step, Send, CreateOtp, Verify, Find, Load, ClearLock, Burn, Rearm, CountFailure, SetLock,
           Swap, Reset, Valid, Throw, Finish, Goto, TypeInv, LocalOK, Labels
  <2>2. ~Holding(p)'
    BY <2>1 DEF Holding
  <2>. QED  BY <1>1, <2>2, Others, CounterMoves
<1>. QED  BY <1>2, <1>3

LEMMA CounterInvariance == ASSUME TwoFactorAssumption PROVE Spec => []CounterInv
<1>1. Init => CounterInv
  BY Numbers DEF Init, CounterInv, OneCounter, TriesCounted, Holding
<1>2. TypeInv /\ TypeInv' /\ CounterInv /\ [Next]_vars => CounterInv'
  <2>. SUFFICES ASSUME TypeInv, TypeInv', CounterInv, [Next]_vars PROVE CounterInv'
    OBVIOUS
  <2>1. CASE UNCHANGED vars \/ Regenerate \/ Tick
    <3>1. UNCHANGED <<armed, tries, opened, pc, ch, hold, how>>
      BY <2>1 DEF vars, Regenerate, Tick, values, local
    <3>. QED  BY <3>1, CounterQuiet DEF Holding
  <2>2. CASE SignIn
    BY <2>2, CounterOpen
  <2>3. ASSUME NEW p \in Procs, Step(p) PROVE CounterInv'
    BY <2>3, CounterBegin, CounterCheck, CounterWrite, CounterOther
  <2>. QED  BY <2>1, <2>2, <2>3 DEF Next
<1>. QED  BY <1>1, <1>2, TypesInvariance, PTL DEF Spec

-----------------------------------------------------------------------------
(* The same for codes that are sent: a code lies with one challenge or is  *)
(* in the hands of one call.                                               *)

HoldingOtp(p) == pc[p] \in {"check", "rearm"} /\ how[p] = "otp"

\* The codes that lie with the challenge c.
Lying(c) == {sent[c][i] : i \in DOMAIN sent[c]}

OneCode ==
  /\ \A c, d \in Challenges : \A e \in Lying(c), f \in Lying(d) : e.code = f.code => c = d
  /\ \A p \in Procs : HoldingOtp(p) => \A h \in hold[p] : \A c \in Challenges : \A e \in Lying(c) : e.code # h.code
  /\ \A p, q \in Procs : HoldingOtp(p) /\ HoldingOtp(q) =>
       \A h \in hold[p], g \in hold[q] : h.code = g.code => p = q

OtpCounted ==
  /\ \A k \in Codes : otpTries[k] <= Allowed
  /\ \A k \in Codes : k > sends => otpTries[k] = 0
  /\ \A c \in Challenges : \A e \in Lying(c) : otpTries[e.code] <= e.n
  /\ \A p \in Procs : HoldingOtp(p) => \A h \in hold[p] : otpTries[h.code] <= h.n + Due(p)

OtpInv == OneCode /\ OtpCounted

\* Codes stay where they are, are lost, or go with a call.
LEMMA OtpQuiet ==
  ASSUME OtpInv, UNCHANGED <<otpTries, sends>>,
         \A c \in Challenges : Lying(c)' \subseteq Lying(c),
         \A q \in Procs : HoldingOtp(q)' => HoldingOtp(q) /\ UNCHANGED <<pc[q], hold[q]>>
  PROVE  OtpInv'
<1>1. OneCode'
  BY DEF OtpInv, OneCode
<1>2. OtpCounted'
  BY DEF OtpInv, OtpCounted, Due
<1>. QED  BY <1>1, <1>2 DEF OtpInv

LEMMA LyingTypes ==
  ASSUME TypeInv, NEW c \in Challenges
  PROVE  \A e \in Lying(c) : e \in Sent /\ e.code \in 1 .. sends
BY DEF TypeInv, ValuesOK, Lying

\* A code is put behind those there are.
LEMMA LyingAppend ==
  ASSUME TypeInv, NEW c \in Challenges, NEW e, sent' = [sent EXCEPT ![c] = Append(@, e)]
  PROVE  /\ Lying(c)' = Lying(c) \cup {e}
         /\ \A d \in Challenges : d # c => Lying(d)' = Lying(d)
<1>1. sent[c] \in Seq(Sent) /\ sent'[c] = Append(sent[c], e) /\ \A d \in Challenges : d # c => sent'[d] = sent[d]
  BY DEF TypeInv, ValuesOK
<1>2. /\ DOMAIN sent'[c] = 1 .. Len(sent[c]) + 1 /\ DOMAIN sent[c] = 1 .. Len(sent[c])
      /\ sent'[c][Len(sent[c]) + 1] = e /\ Len(sent[c]) \in Nat
      /\ \A i \in DOMAIN sent[c] : sent'[c][i] = sent[c][i]
  BY <1>1
<1>3. Lying(c)' \subseteq Lying(c) \cup {e}
  <2>. SUFFICES ASSUME NEW i \in DOMAIN sent'[c] PROVE sent'[c][i] \in Lying(c) \cup {e}
    BY DEF Lying
  <2>1. i \in DOMAIN sent[c] \/ i = Len(sent[c]) + 1
    BY <1>2
  <2>. QED  BY <1>2, <2>1 DEF Lying
<1>4. Lying(c) \cup {e} \subseteq Lying(c)'
  BY <1>2 DEF Lying
<1>. QED  BY <1>1, <1>3, <1>4 DEF Lying

LEMMA OtpCreate ==
  ASSUME TwoFactorAssumption, TypeInv, OtpInv, NEW p \in Procs, CreateOtp(p)
  PROVE  OtpInv'
<1>0. /\ \A q \in Procs : q # p => UNCHANGED <<pc[q], ch[q], hold[q], how[q]>>
      /\ \A q \in Procs : q # p => (HoldingOtp(q)' <=> HoldingOtp(q)) /\ Due(q)' = Due(q)
      /\ otpTries' = otpTries /\ ~HoldingOtp(p)'
  BY Others DEF Step, CreateOtp, history, HoldingOtp, Due, Finish, Goto, TypeInv, LocalOK
<1>1. CASE UNCHANGED <<sends, sent>>
  BY <1>0, <1>1, OtpQuiet DEF Lying
<1>2. CASE ~UNCHANGED <<sends, sent>>
  <2>. DEFINE e == [code |-> sends', n |-> 0, exp |-> now + Period]
  <2>1. sends < MaxSends /\ sends' = sends + 1 /\ sent' = [sent EXCEPT ![ch[p]] = Append(@, e)]
    BY <1>2 DEF CreateOtp
  <2>2. sends \in Nat /\ sends' \in Codes
    BY <2>1, Numbers DEF TypeInv, ValuesOK, Codes
  <2>. PICK c \in Challenges : c = ch[p]
    BY Challenged DEF CreateOtp
  <2>3. e.code = sends' /\ e.n = 0
    OBVIOUS
  <2>. HIDE DEF e
  <2>4. Lying(c)' = Lying(c) \cup {e} /\ \A d \in Challenges : d # c => Lying(d)' = Lying(d)
    BY <2>1, LyingAppend
  <2>5. \A d \in Challenges : \A f \in Lying(d)' : f \in Lying(d) \/ (f = e /\ d = c)
    BY <2>4
  <2>6. /\ \A d \in Challenges : \A f \in Lying(d) : f.code # e.code
        /\ \A q \in Procs : HoldingOtp(q) => \A h \in hold[q] : h.code # e.code
        /\ otpTries[e.code] = 0
    <3>1. \A d \in Challenges : \A f \in Lying(d) : f.code \in 1 .. sends
      BY LyingTypes
    <3>2. \A q \in Procs : HoldingOtp(q) => \A h \in hold[q] : h.code \in 1 .. sends
      BY DEF HoldingOtp, TypeInv, LocalOK, InHand
    <3>. QED  BY <2>1, <2>2, <2>3, <3>1, <3>2 DEF OtpInv, OtpCounted
  <2>7. OneCode'
    BY <1>0, <2>5, <2>6 DEF OtpInv, OneCode
  <2>8. OtpCounted'
    <3>1. \A k \in Codes : k > sends' => k > sends
      BY <2>1, <2>2 DEF Codes
    <3>. QED  BY <1>0, <2>3, <2>5, <2>6, <3>1 DEF OtpInv, OtpCounted
  <2>. QED  BY <2>7, <2>8 DEF OtpInv
<1>. QED  BY <1>1, <1>2

LEMMA OtpBegin ==
  ASSUME TwoFactorAssumption, TypeInv, OtpInv, NEW p \in Procs, BeginOtp(p)
  PROVE  OtpInv'
<1>0. /\ \A q \in Procs : q # p => UNCHANGED <<pc[q], ch[q], hold[q], how[q]>>
      /\ \A q \in Procs : q # p => (HoldingOtp(q)' <=> HoldingOtp(q)) /\ Due(q)' = Due(q)
      /\ UNCHANGED <<otpTries, sends>> /\ sent' = [sent EXCEPT ![ch[p]] = <<>>]
  BY Others DEF Step, BeginOtp, history, HoldingOtp, Due
<1>1. PICK c \in Challenges : c = ch[p]
  BY Challenged DEF BeginOtp
<1>2. Lying(c)' = {} /\ \A d \in Challenges : d # c => Lying(d)' = Lying(d)
  BY <1>0, <1>1 DEF Lying, TypeInv, ValuesOK
<1>3. CASE Finish(p)
  <2>1. ~HoldingOtp(p)'
    BY <1>3 DEF Finish, Goto, HoldingOtp, TypeInv, LocalOK
  <2>. QED  BY <1>0, <1>2, <2>1, OtpQuiet
<1>4. CASE ~Finish(p)
  <2>1. /\ sent[c] # <<>> /\ hold' = [hold EXCEPT ![p] = {Last(sent[c])}]
        /\ Goto(p, "check") /\ UNCHANGED <<ch, how, seen, guess>> /\ pc[p] = "gate" /\ how[p] = "otp"
    BY <1>1, <1>4 DEF BeginOtp
  <2>2. Last(sent[c]) \in Lying(c)
    <3>1. Len(sent[c]) \in DOMAIN sent[c]
      BY <1>1, <2>1 DEF TypeInv, ValuesOK
    <3>. QED  BY <3>1 DEF Last, Lying
  <2>3. PICK e \in Lying(c) : hold'[p] = {e}
    BY <2>1, <2>2 DEF TypeInv, LocalOK
  <2>4. pc'[p] = "check" /\ Due(p)' = 0
    BY <2>1 DEF Goto, TypeInv, LocalOK, Due
  <2>5. /\ \A d \in Challenges : \A f \in Lying(d)' : f \in Lying(d) /\ d # c
        /\ \A q \in Procs : q # p /\ HoldingOtp(q) => \A h \in hold[q] : h.code # e.code
        /\ otpTries[e.code] <= e.n
    BY <1>1, <1>2 DEF OtpInv, OneCode, OtpCounted
  <2>6. OneCode'
    BY <1>0, <1>1, <2>3, <2>5 DEF OtpInv, OneCode
  <2>7. otpTries'[e.code] <= e.n + Due(p)'
    BY <1>0, <1>1, <2>4, <2>5, LyingTypes DEF Sent
  <2>8. OtpCounted'
    BY <1>0, <1>1, <2>3, <2>5, <2>7 DEF OtpInv, OtpCounted
  <2>. QED  BY <2>6, <2>8 DEF OtpInv
<1>. QED  BY <1>3, <1>4

LEMMA OtpCheck ==
  ASSUME TwoFactorAssumption, TypeInv, OtpInv, NEW p \in Procs, how[p] = "otp", CheckRight(p) \/ CheckWrong(p)
  PROVE  OtpInv'
<1>0. /\ \A q \in Procs : q # p => UNCHANGED <<pc[q], ch[q], hold[q], how[q]>>
      /\ \A q \in Procs : q # p => (HoldingOtp(q)' <=> HoldingOtp(q)) /\ Due(q)' = Due(q)
      /\ UNCHANGED <<sent, sends, hold, how>> /\ pc[p] = "check" /\ HoldingOtp(p)
  BY Others DEF Step, CheckRight, CheckWrong, local, values, HoldingOtp, Due
<1>1. /\ otpTries' = [k \in Codes |-> IF \E h \in hold[p] : h.code = k THEN otpTries[k] + 1 ELSE otpTries[k]]
      /\ pc'[p] \in {"reset", "rearm"}
  BY DEF CheckRight, CheckWrong, Checked, Goto, TypeInv, LocalOK
<1>2. PICK h \in hold[p] : hold[p] = {h}
  BY <1>0 DEF TypeInv, LocalOK, InHand
<1>3. /\ h.code \in Codes /\ h.n \in Nat /\ h.n < Allowed /\ otpTries[h.code] \in Nat /\ Allowed \in Nat
      /\ otpTries[h.code] <= h.n /\ h.code \in 1 .. sends
  <2>1. h.code \in 1 .. sends /\ h \in Held /\ h.n < Allowed
    BY <1>0, <1>2 DEF TypeInv, LocalOK, InHand, HoldingOtp
  <2>2. h.code \in Codes
    BY <2>1, Numbers DEF TypeInv, ValuesOK, Codes
  <2>3. otpTries[h.code] <= h.n + 0 /\ h.n \in Nat
    BY <1>0, <1>2, <2>1 DEF OtpInv, OtpCounted, Due, Held
  <2>. QED  BY <2>1, <2>2, <2>3, Numbers DEF TypeInv, HistoryOK
<1>4. \A k \in Codes : otpTries'[k] = IF k = h.code THEN otpTries[k] + 1 ELSE otpTries[k]
  BY <1>1, <1>2
<1>5. OneCode'
  BY <1>0 DEF OtpInv, OneCode, Lying
<1>6. \A k \in Codes : otpTries'[k] <= Allowed /\ (k > sends => otpTries'[k] = 0)
  BY <1>3, <1>4 DEF OtpInv, OtpCounted, Codes, TypeInv, ValuesOK
<1>7. \A c \in Challenges : \A e \in Lying(c)' : otpTries'[e.code] <= e.n
  <2>1. \A c \in Challenges : Lying(c)' = Lying(c) /\ \A e \in Lying(c) : e.code # h.code /\ e.code \in Codes
    BY <1>0, <1>2, LyingTypes DEF OtpInv, OneCode, Lying, Sent
  <2>. QED  BY <1>4, <2>1 DEF OtpInv, OtpCounted
<1>8. ASSUME NEW q \in Procs, HoldingOtp(q)', NEW g \in hold'[q]
      PROVE  otpTries'[g.code] <= g.n + Due(q)'
  <2>1. CASE q = p
    <3>1. g = h /\ Due(p)' = 1
      BY <1>0, <1>1, <1>2, <1>8, <2>1 DEF HoldingOtp, Due
    <3>. QED  BY <1>3, <1>4, <2>1, <3>1
  <2>2. CASE q # p
    <3>1. HoldingOtp(q) /\ g \in hold[q] /\ Due(q)' = Due(q)
      BY <1>0, <1>8, <2>2
    <3>2. g.code # h.code
      BY <1>0, <1>2, <2>2, <3>1 DEF OtpInv, OneCode
    <3>3. g.code \in 1 .. sends /\ g.code \in Codes
      BY <3>1, Numbers DEF HoldingOtp, TypeInv, LocalOK, InHand, ValuesOK, Codes
    <3>. QED  BY <1>4, <3>1, <3>2, <3>3 DEF OtpInv, OtpCounted
  <2>. QED  BY <2>1, <2>2
<1>9. OtpCounted'
  BY <1>0, <1>6, <1>7, <1>8 DEF OtpCounted
<1>. QED  BY <1>5, <1>9 DEF OtpInv

LEMMA OtpRearm ==
  ASSUME TwoFactorAssumption, TypeInv, OtpInv, NEW p \in Procs, how[p] = "otp", Rearm(p)
  PROVE  OtpInv'
<1>0. /\ \A q \in Procs : q # p => UNCHANGED <<pc[q], ch[q], hold[q], how[q]>>
      /\ \A q \in Procs : q # p => (HoldingOtp(q)' <=> HoldingOtp(q)) /\ Due(q)' = Due(q)
      /\ UNCHANGED <<otpTries, sends>> /\ HoldingOtp(p) /\ ~HoldingOtp(p)' /\ Due(p) = 1
  BY Others DEF Step, Rearm, history, HoldingOtp, Due, Goto, TypeInv, LocalOK
<1>1. PICK h \in hold[p] : sent' = [sent EXCEPT ![ch[p]] = Append(@, [h EXCEPT !.n = @ + 1])]
  BY DEF Rearm
<1>2. PICK e : e = [h EXCEPT !.n = @ + 1]
  OBVIOUS
<1>3. e.code = h.code /\ e.n = h.n + 1
  BY <1>2 DEF TypeInv, LocalOK, Held
<1>. PICK c \in Challenges : c = ch[p]
  BY Challenged DEF Rearm
<1>4. Lying(c)' = Lying(c) \cup {e} /\ \A d \in Challenges : d # c => Lying(d)' = Lying(d)
  BY <1>1, <1>2, LyingAppend
<1>5. \A d \in Challenges : \A f \in Lying(d)' : f \in Lying(d) \/ (f = e /\ d = c)
  BY <1>4
<1>6. /\ \A d \in Challenges : \A f \in Lying(d) : f.code # e.code
      /\ \A q \in Procs : q # p /\ HoldingOtp(q) => \A g \in hold[q] : g.code # e.code
      /\ otpTries[e.code] <= e.n
  BY <1>0, <1>3 DEF OtpInv, OneCode, OtpCounted
<1>7. OneCode'
  BY <1>0, <1>5, <1>6 DEF OtpInv, OneCode
<1>8. OtpCounted'
  BY <1>0, <1>5, <1>6 DEF OtpInv, OtpCounted
<1>. QED  BY <1>7, <1>8 DEF OtpInv

\* Everything else leaves the codes alone.
LEMMA OtpOther ==
  ASSUME TwoFactorAssumption, TypeInv, OtpInv, NEW p \in Procs, Step(p), ~CreateOtp(p), ~BeginOtp(p),
         ~(how[p] = "otp" /\ (CheckRight(p) \/ CheckWrong(p) \/ Rearm(p)))
  PROVE  OtpInv'
<1>1. UNCHANGED <<sent, otpTries, sends>>
  BY DEF Step, Send, Verify, Load, ClearLock, Begin, Burn, CheckRight, CheckWrong, CheckFails, Checked,
         Restore, Rearm, CountFailure, SetLock, Swap, Reset, Valid, Throw, values, history
<1>2. ~HoldingOtp(p)'
  <2>1. CASE Begin(p) \/ CheckRight(p) \/ CheckWrong(p)
    <3>1. how[p] # "otp" /\ (how' = how \/ Finish(p))
      BY <2>1 DEF Begin, CheckRight, CheckWrong, local
    <3>. QED  BY <3>1 DEF HoldingOtp, Finish, Goto, TypeInv, LocalOK
  <2>2. CASE ~(Begin(p) \/ CheckRight(p) \/ CheckWrong(p))
    <3>1. pc'[p] \in Labels \ {"check", "rearm"}
      BY <2>2 DEF Step, Send, Verify, Find, Load, ClearLock, Burn, CheckFails, Restore, Rearm, CountFailure,
             SetLock, Swap, Reset, Valid, Throw, Finish, Goto, TypeInv, LocalOK, Labels
    <3>. QED  BY <3>1 DEF HoldingOtp
  <2>. QED  BY <2>1, <2>2
<1>3. \A q \in Procs : HoldingOtp(q)' => HoldingOtp(q) /\ UNCHANGED <<pc[q], hold[q]>>
  BY <1>2, Others DEF HoldingOtp
<1>. QED  BY <1>1, <1>3, OtpQuiet DEF Lying

LEMMA OtpInvariance == ASSUME TwoFactorAssumption PROVE Spec => []OtpInv
<1>1. Init => OtpInv
  <2>. SUFFICES ASSUME Init PROVE OtpInv
    OBVIOUS
  <2>1. \A c \in Challenges : Lying(c) = {}
    BY DEF Init, Lying
  <2>. QED  BY <2>1, Numbers DEF Init, OtpInv, OneCode, OtpCounted, HoldingOtp
<1>2. TypeInv /\ OtpInv /\ [Next]_vars => OtpInv'
  <2>. SUFFICES ASSUME TypeInv, OtpInv, [Next]_vars PROVE OtpInv'
    OBVIOUS
  <2>1. CASE UNCHANGED vars \/ Regenerate \/ Tick \/ SignIn
    <3>1. UNCHANGED <<sent, otpTries, sends, pc, hold, how>>
      BY <2>1 DEF vars, Regenerate, Tick, SignIn, values, local, history
    <3>. QED  BY <3>1, OtpQuiet DEF HoldingOtp, Lying
  <2>3. ASSUME NEW p \in Procs, Step(p) PROVE OtpInv'
    BY <2>3, OtpCreate, OtpBegin, OtpCheck, OtpRearm, OtpOther
  <2>. QED  BY <2>1, <2>3 DEF Next
<1>. QED  BY <1>1, <1>2, TypesInvariance, PTL DEF Spec

\* However many guesses of a second factor arrive at the same time, and wherever calls
\* fail or die, no more than the allowed number are checked for a challenge
\* (beginAttempt) and for a code that was sent (verifyTwoFactorOTP).
THEOREM GuessBudgetCorrect == ASSUME TwoFactorAssumption PROVE Spec => []GuessBudget
<1>1. CounterInv /\ OtpInv => GuessBudget
  BY DEF CounterInv, TriesCounted, OtpInv, OtpCounted, GuessBudget
<1>. QED  BY <1>1, CounterInvariance, OtpInvariance, PTL

-----------------------------------------------------------------------------
(* The lock of the account.                                                *)

\* The lock stays, or it is cleared as it has expired, cleared by a right code, or set.
LEMMA LockWrites ==
  ASSUME TypeInv, [Next]_vars
  PROVE  \/ row'.locked = row.locked
         \/ row.locked <= now /\ row'.locked = 0
         \/ row'.locked = 0 /\ \E p \in Procs : pc[p] = "reset"
         \/ row'.locked = now + LockDuration
<1>1. \A i, C : /\ [row EXCEPT !.count = i].locked = row.locked
                /\ [row EXCEPT !.codes = C].locked = row.locked
                /\ [row EXCEPT !.locked = i].locked = i
                /\ [row EXCEPT !.count = i, !.locked = 0].locked = 0
  BY DEF TypeInv, AccountOK, Row
<1>2. CASE row' = row
  BY <1>2
<1>3. ASSUME NEW p \in Procs, ClearLock(p) PROVE row' = row \/ (row.locked <= now /\ row'.locked = 0)
  BY <1>1, <1>3 DEF ClearLock, ExpiredLock
<1>4. ASSUME NEW p \in Procs, CountFailure(p) PROVE row'.locked = row.locked
  BY <1>1, <1>4 DEF CountFailure
<1>5. ASSUME NEW p \in Procs, SetLock(p) PROVE row' = row \/ row'.locked = now + LockDuration
  BY <1>1, <1>5 DEF SetLock
<1>6. ASSUME NEW p \in Procs, Swap(p) PROVE row'.locked = row.locked
  BY <1>1, <1>6 DEF Swap
<1>7. ASSUME NEW p \in Procs, Reset(p) PROVE row'.locked = 0 /\ pc[p] = "reset"
  BY <1>1, <1>7 DEF Reset
<1>8. Regenerate => row'.locked = row.locked
  BY <1>1 DEF Regenerate
<1>9. \/ row' = row \/ Regenerate
      \/ \E p \in Procs : ClearLock(p) \/ CountFailure(p) \/ SetLock(p) \/ Swap(p) \/ Reset(p)
  BY DEF Next, Step, SignIn, Send, CreateOtp, Verify, Load, Begin, Burn, BeginOtp, CheckRight, CheckWrong,
         CheckFails, Restore, Rearm, Valid, Throw, Tick, account, vars
<1>. QED  BY <1>2, <1>3, <1>4, <1>5, <1>6, <1>7, <1>8, <1>9

\* Time does not pass while a call takes a step, and passes by one.
LEMMA Clock ==
  ASSUME TypeInv, [Next]_vars
  PROVE  now' = now \/ now' = now + 1
BY DEF Next, Step, SignIn, Send, CreateOtp, Verify, Load, ClearLock, Begin, Burn, BeginOtp, CheckRight,
       CheckWrong, CheckFails, Restore, Rearm, CountFailure, SetLock, Swap, Reset, Valid, Throw, Regenerate,
       Tick, vars

\* A lock is never further away than a new one would be.
LockNear == row.locked <= now + LockDuration

LEMMA LockInvariance == ASSUME TwoFactorAssumption PROVE Spec => []LockNear
<1>1. Init => LockNear
  BY Numbers DEF Init, LockNear
<1>2. TypeInv /\ LockNear /\ [Next]_vars => LockNear'
  <2>. SUFFICES ASSUME TypeInv, LockNear, [Next]_vars PROVE row'.locked <= now' + LockDuration
    BY DEF LockNear
  <2>1. now \in Nat /\ LockDuration \in Nat /\ row.locked \in Nat
    BY Numbers DEF TypeInv, AccountOK, Row
  <2>. QED  BY <2>1, LockWrites, Clock DEF LockNear
<1>. QED  BY <1>1, <1>2, TypesInvariance, PTL DEF Spec

\* A lock that has not expired is ended early by nobody but a call whose code was right:
\* a call that found an expired lock (assertTwoFactorNotLocked) clears no newer one, and
\* no failure that is counted later (recordTwoFactorFailure) shortens it.
THEOREM LockHoldsCorrect == ASSUME TwoFactorAssumption PROVE Spec => LockHolds
<1>1. TypeInv /\ LockNear /\ [Next]_vars => LockKept
  <2>. SUFFICES ASSUME TypeInv, LockNear, [Next]_vars, row.locked > now, row'.locked < row.locked
                PROVE  \E p \in Procs : pc[p] = "reset"
    BY DEF LockKept
  <2>1. now \in Nat /\ LockDuration \in Nat /\ row.locked \in Nat
    BY Numbers DEF TypeInv, AccountOK, Row
  <2>. QED  BY <2>1, LockWrites DEF LockNear
<1>2. TypeInv /\ LockNear /\ [Next]_vars => [LockKept]_vars
  BY <1>1
<1>. QED  BY <1>2, TypesInvariance, LockInvariance, PTL DEF Spec, LockHolds

-----------------------------------------------------------------------------
(* The budget of failures.  Calls that are past the lock may still fail,   *)
(* and failures of some are yet to be recorded; what these are, the count  *)
(* of the row and the lock make up the failures there can be.              *)

At(S) == {q \in Procs : pc[q] \in S}

Loaded == Cardinality(At({"clear", "gate", "check"}))
Unrecorded == Cardinality(At({"rearm", "count"}))
Locking == Cardinality(At({"lock"}))

LEMMA Counts ==
  ASSUME IsFiniteSet(Procs)
  PROVE  /\ Loaded \in Nat /\ Unrecorded \in Nat /\ Locking \in Nat /\ Cardinality(Procs) \in Nat
         /\ Loaded + Unrecorded + Locking <= Cardinality(Procs)
         /\ \A p \in Procs : pc[p] \in {"clear", "gate", "check"} => Loaded >= 1
<1>. DEFINE A == At({"clear", "gate", "check"}) B == At({"rearm", "count"}) C == At({"lock"})
<1>1. A \subseteq Procs /\ B \subseteq Procs /\ C \subseteq Procs /\ A \cap B = {} /\ (A \cup B) \cap C = {}
  BY DEF At
<1>2. IsFiniteSet(A) /\ IsFiniteSet(B) /\ IsFiniteSet(C)
  BY <1>1, FS_Subset
<1>3. /\ IsFiniteSet(A \cup B) /\ Cardinality(A \cup B) = Cardinality(A) + Cardinality(B) - Cardinality(A \cap B)
      /\ IsFiniteSet((A \cup B) \cup C)
      /\ Cardinality((A \cup B) \cup C) = Cardinality(A \cup B) + Cardinality(C) - Cardinality((A \cup B) \cap C)
  BY <1>2, FS_Union
<1>4. Cardinality({}) = 0
  BY FS_EmptySet
<1>5. (A \cup B) \cup C \subseteq Procs
  BY <1>1
<1>6. Cardinality((A \cup B) \cup C) <= Cardinality(Procs)
  BY <1>5, FS_Subset
<1>7. Cardinality(A) \in Nat /\ Cardinality(B) \in Nat /\ Cardinality(C) \in Nat /\ Cardinality(Procs) \in Nat
  BY <1>2, FS_CardinalityType
<1>8. ASSUME NEW p \in Procs, pc[p] \in {"clear", "gate", "check"} PROVE Cardinality(A) # 0
  <2>1. A # {}
    BY <1>8 DEF At
  <2>. QED  BY <1>2, <2>1, FS_EmptySet
<1>. HIDE DEF A, B, C
<1>9. Cardinality(A) + Cardinality(B) + Cardinality(C) <= Cardinality(Procs)
  <2>1. Cardinality(A \cap B) = 0 /\ Cardinality((A \cup B) \cap C) = 0
    BY <1>1, <1>4
  <2>. QED  BY <1>3, <1>6, <1>7, <2>1
<1>10. Loaded = Cardinality(A) /\ Unrecorded = Cardinality(B) /\ Locking = Cardinality(C)
  BY DEF A, B, C, Loaded, Unrecorded, Locking
<1>. QED  BY <1>7, <1>8, <1>9, <1>10

\* A call that moves leaves the set it was in, and enters the one it is in.
LEMMA Moves ==
  ASSUME IsFiniteSet(Procs), pc \in [Procs -> Labels], NEW p \in Procs, NEW l \in Labels, NEW S,
         pc' = [pc EXCEPT ![p] = l]
  PROVE  Cardinality(At(S))' = Cardinality(At(S)) + (IF l \in S THEN 1 ELSE 0) - (IF pc[p] \in S THEN 1 ELSE 0)
<1>. DEFINE R == {q \in Procs : q # p /\ pc[q] \in S}
<1>1. IsFiniteSet(R) /\ p \notin R
  BY FS_Subset
<1>2. IsFiniteSet(R \cup {p}) /\ Cardinality(R \cup {p}) = Cardinality(R) + 1 /\ Cardinality(R) \in Nat
  BY <1>1, FS_AddElement, FS_CardinalityType
<1>3. At(S) = (IF pc[p] \in S THEN R \cup {p} ELSE R) /\ At(S)' = (IF l \in S THEN R \cup {p} ELSE R)
  BY DEF At
<1>. HIDE DEF R
<1>4. /\ Cardinality(At(S)) = Cardinality(R) + (IF pc[p] \in S THEN 1 ELSE 0)
      /\ Cardinality(At(S)') = Cardinality(R) + (IF l \in S THEN 1 ELSE 0)
  BY <1>2, <1>3
<1>. QED  BY <1>2, <1>4

\* The failures that an open, a locked and an expired account may have behind it.
FailInv ==
  /\ row.locked = 0 =>
       /\ row.count <= MaxFailed - 1 + Locking
       /\ fails <= row.count + Unrecorded + Cardinality(Procs) - 1
  /\ row.locked > now =>
       /\ row.count >= MaxFailed
       /\ fails + Loaded <= MaxFailed - 2 + 2 * Cardinality(Procs)
  /\ row.locked # 0 /\ row.locked <= now =>
       /\ row.count >= MaxFailed
       /\ fails <= Locking + Unrecorded

CountsOK ==
  /\ row.count \in Nat /\ row.locked \in Nat /\ now \in Nat /\ fails \in Nat
  /\ Loaded \in Nat /\ Unrecorded \in Nat /\ Locking \in Nat
  /\ MaxFailed \in Nat /\ MaxFailed >= 1 /\ LockDuration \in Nat /\ LockDuration >= 1
  /\ Cardinality(Procs) \in Nat /\ Cardinality(Procs) >= 1
  /\ Loaded + Unrecorded + Locking <= Cardinality(Procs)

LEMMA CountsTypes ==
  ASSUME TwoFactorAssumption, TypeInv, IsFiniteSet(Procs), Procs # {}
  PROVE  CountsOK
<1>1. Cardinality(Procs) \in Nat /\ Cardinality(Procs) # 0
  BY FS_CardinalityType, FS_EmptySet
<1>. QED  BY <1>1, Counts, Numbers DEF CountsOK, TypeInv, AccountOK, HistoryOK, Row

LEMMA AtLeastZero ==
  ASSUME NEW m \in Nat, NEW l \in Nat, m >= 1
  PROVE  0 <= m - 1 + l /\ 0 <= 0 + l + m - 1
OBVIOUS

\* A call goes on without a failure, and the row stays.
LEMMA FailQuiet ==
  ASSUME CountsOK, CountsOK', FailInv, UNCHANGED <<row, fails, now>>,
         Unrecorded' = Unrecorded, Locking' = Locking, Loaded' <= Loaded \/ ~(row.locked > now)
  PROVE  FailInv'
BY DEF FailInv, CountsOK

\* The three sets as a call moves from where it is to l.
LEMMA ThreeMoves ==
  ASSUME IsFiniteSet(Procs), TypeInv, NEW p \in Procs, NEW l \in Labels, Goto(p, l)
  PROVE  /\ Loaded' = Loaded + (IF l \in {"clear", "gate", "check"} THEN 1 ELSE 0)
                             - (IF pc[p] \in {"clear", "gate", "check"} THEN 1 ELSE 0)
         /\ Unrecorded' = Unrecorded + (IF l \in {"rearm", "count"} THEN 1 ELSE 0)
                                     - (IF pc[p] \in {"rearm", "count"} THEN 1 ELSE 0)
         /\ Locking' = Locking + (IF l = "lock" THEN 1 ELSE 0) - (IF pc[p] = "lock" THEN 1 ELSE 0)
<1>1. pc \in [Procs -> Labels] /\ pc' = [pc EXCEPT ![p] = l]
  BY DEF TypeInv, LocalOK, Goto
<1>2. Loaded' = Loaded + (IF l \in {"clear", "gate", "check"} THEN 1 ELSE 0)
                       - (IF pc[p] \in {"clear", "gate", "check"} THEN 1 ELSE 0)
  <2>. DEFINE S == {"clear", "gate", "check"}
  <2>1. Cardinality(At(S))' = Cardinality(At(S)) + (IF l \in S THEN 1 ELSE 0) - (IF pc[p] \in S THEN 1 ELSE 0)
    <3>. HIDE DEF S
    <3>. QED  BY <1>1, Moves
  <2>. QED  BY <2>1 DEF Loaded
<1>3. Unrecorded' = Unrecorded + (IF l \in {"rearm", "count"} THEN 1 ELSE 0)
                               - (IF pc[p] \in {"rearm", "count"} THEN 1 ELSE 0)
  <2>. DEFINE S == {"rearm", "count"}
  <2>1. Cardinality(At(S))' = Cardinality(At(S)) + (IF l \in S THEN 1 ELSE 0) - (IF pc[p] \in S THEN 1 ELSE 0)
    <3>. HIDE DEF S
    <3>. QED  BY <1>1, Moves
  <2>. QED  BY <2>1 DEF Unrecorded
<1>4. Locking' = Locking + (IF l \in {"lock"} THEN 1 ELSE 0) - (IF pc[p] \in {"lock"} THEN 1 ELSE 0)
  BY <1>1, Moves DEF Locking
<1>. QED  BY <1>2, <1>3, <1>4

LEMMA FailStep ==
  ASSUME TwoFactorAssumption, TypeInv, IsFiniteSet(Procs), CountsOK, CountsOK', FailInv,
         "throw" \notin Faults, NEW p \in Procs, Step(p)
  PROVE  FailInv'
<1>0. pc[p] \in Labels /\ now' = now /\ row \in Row /\ row' \in Row
  <2>1. TypeInv'
    BY StepTypes DEF Next
  <2>. QED  BY <2>1 DEF TypeInv, LocalOK, AccountOK, Step, Send, CreateOtp, Verify, Load, ClearLock, Begin, Burn,
            BeginOtp, CheckRight, CheckWrong, CheckFails, Restore, Rearm, CountFailure, SetLock, Swap, Reset,
            Valid, Throw
<1>1. ASSUME UNCHANGED <<row, fails>>, Finish(p), pc[p] \notin {"rearm", "count", "lock"} PROVE FailInv'
  <2>1. Goto(p, "idle") /\ "idle" \in Labels
    BY <1>1 DEF Finish, Labels
  <2>2. Unrecorded' = Unrecorded /\ Locking' = Locking /\ Loaded' <= Loaded
    BY <1>1, <2>1, ThreeMoves DEF CountsOK
  <2>. QED  BY <1>0, <1>1, <2>2, FailQuiet
<1>2. CASE Send(p) \/ Verify(p)
  <2>1. PICK l \in {"send", "load"} : Goto(p, l)
    BY <1>2 DEF Send, Verify, Find
  <2>2. pc[p] = "idle" /\ UNCHANGED <<row, fails>> /\ l \in Labels
    BY <1>2, <2>1 DEF Send, Verify, Find, account, history, Labels
  <2>3. Unrecorded' = Unrecorded /\ Locking' = Locking /\ Loaded' = Loaded
    BY <2>1, <2>2, ThreeMoves DEF CountsOK
  <2>. QED  BY <1>0, <2>2, <2>3, FailQuiet DEF CountsOK
<1>3. CASE CreateOtp(p) \/ Burn(p) \/ Restore(p) \/ Valid(p) \/ Throw(p)
  BY <1>1, <1>3 DEF CreateOtp, Burn, Restore, Valid, Throw, account, history
<1>4. CASE Load(p)
  <2>1. CASE Finish(p)
    BY <1>1, <1>4, <2>1 DEF Load, account, history
  <2>2. CASE ~Finish(p)
    <3>1. PICK l \in {"clear", "gate"} : Goto(p, l)
      BY <1>4, <2>2 DEF Load
    <3>2. pc[p] = "load" /\ UNCHANGED <<row, fails>> /\ l \in Labels /\ ~(row.locked > now)
      BY <1>4, <2>2, <3>1 DEF Load, account, history, Labels
    <3>3. Unrecorded' = Unrecorded /\ Locking' = Locking
      BY <3>1, <3>2, ThreeMoves DEF CountsOK
    <3>. QED  BY <1>0, <3>2, <3>3, FailQuiet
  <2>. QED  BY <2>1, <2>2
<1>5. CASE ClearLock(p)
  <2>1. Goto(p, "gate") /\ "gate" \in Labels /\ pc[p] = "clear" /\ fails' = fails
    BY <1>5 DEF ClearLock, Labels, history
  <2>2. Unrecorded' = Unrecorded /\ Locking' = Locking /\ Loaded' = Loaded
    BY <2>1, ThreeMoves DEF CountsOK
  <2>3. CASE ~ExpiredLock
    BY <1>0, <1>5, <2>1, <2>2, <2>3, FailQuiet DEF ClearLock, CountsOK
  <2>4. CASE ExpiredLock
    <3>1. row'.count = 0 /\ row'.locked = 0
      BY <1>0, <1>5, <2>4 DEF ClearLock, Row
    <3>2. Loaded >= 1
      BY <2>1, Counts
    <3>. QED  BY <1>0, <2>1, <2>2, <2>4, <3>1, <3>2 DEF FailInv, CountsOK, ExpiredLock
  <2>. QED  BY <2>3, <2>4
<1>6. CASE Begin(p) \/ BeginOtp(p) \/ CheckRight(p) \/ CheckFails(p) \/ Swap(p)
  <2>1. CASE Finish(p)
    BY <1>1, <1>6, <2>1 DEF Begin, BeginOtp, CheckRight, CheckFails, Swap, account, history, Finish, Goto,
       TypeInv, LocalOK
  <2>2. CASE ~Finish(p)
    <3>1. PICK l \in {"burn", "check", "swap", "reset", "restore"} : Goto(p, l)
      BY <1>6, <2>2 DEF Begin, BeginOtp, CheckRight, CheckFails, Swap
    <3>2. pc[p] \in {"gate", "check", "swap"} /\ fails' = fails /\ l \in Labels
          /\ row'.count = row.count /\ row'.locked = row.locked
          /\ (l = "check" => pc[p] = "gate")
      BY <1>0, <1>6, <2>2, <3>1 DEF Begin, BeginOtp, CheckRight, CheckFails, Swap, account, history, Labels, Row,
         Goto, TypeInv, LocalOK
    <3>3. Unrecorded' = Unrecorded /\ Locking' = Locking /\ Loaded' <= Loaded
      BY <3>1, <3>2, ThreeMoves DEF CountsOK
    <3>. QED  BY <1>0, <3>2, <3>3 DEF FailInv, CountsOK
  <2>. QED  BY <2>1, <2>2
<1>7. CASE CheckWrong(p)
  <2>1. Goto(p, "rearm") /\ "rearm" \in Labels /\ pc[p] = "check" /\ fails' = fails + 1 /\ row' = row
    BY <1>7 DEF CheckWrong, Labels, account
  <2>2. Unrecorded' = Unrecorded + 1 /\ Locking' = Locking /\ Loaded' = Loaded - 1
    BY <2>1, ThreeMoves DEF CountsOK
  <2>. QED  BY <1>0, <2>1, <2>2 DEF FailInv, CountsOK
<1>8. CASE Rearm(p)
  <2>1. Goto(p, "count") /\ "count" \in Labels /\ pc[p] = "rearm" /\ UNCHANGED <<row, fails>>
    BY <1>8 DEF Rearm, Labels, account, history
  <2>2. Unrecorded' = Unrecorded /\ Locking' = Locking /\ Loaded' = Loaded
    BY <2>1, ThreeMoves DEF CountsOK
  <2>. QED  BY <1>0, <2>1, <2>2, FailQuiet DEF CountsOK
<1>9. CASE CountFailure(p)
  <2>1. /\ pc[p] = "count" /\ row'.count = row.count + 1 /\ row'.locked = row.locked /\ fails' = fails
        /\ IF row.count + 1 >= MaxFailed THEN Goto(p, "lock") ELSE Goto(p, "idle")
        /\ {"lock", "idle"} \subseteq Labels
    BY <1>0, <1>9 DEF CountFailure, Raised, history, Row, Finish, Labels
  <2>2. /\ Unrecorded' = Unrecorded - 1 /\ Loaded' = Loaded
        /\ Locking' = IF row.count + 1 >= MaxFailed THEN Locking + 1 ELSE Locking
    BY <2>1, ThreeMoves DEF CountsOK
  <2>. QED  BY <1>0, <2>1, <2>2 DEF FailInv, CountsOK
<1>10. CASE SetLock(p)
  <2>1. pc[p] = "lock" /\ fails' = fails /\ Goto(p, "idle") /\ "idle" \in Labels
    BY <1>10 DEF SetLock, history, Finish, Labels
  <2>2. Unrecorded' = Unrecorded /\ Loaded' = Loaded /\ Locking' = Locking - 1
    BY <2>1, ThreeMoves DEF CountsOK
  <2>3. CASE row.count >= MaxFailed
    <3>1. row'.count = row.count /\ row'.locked = now + LockDuration
      BY <1>0, <1>10, <2>3 DEF SetLock, Row
    <3>2. row'.locked > now' /\ row'.count >= MaxFailed
      BY <1>0, <2>3, <3>1 DEF CountsOK
    <3>3. fails + Loaded <= MaxFailed - 2 + 2 * Cardinality(Procs)
      <4>1. CASE row.locked = 0
        BY <4>1 DEF FailInv, CountsOK
      <4>2. CASE row.locked > now
        BY <4>2 DEF FailInv
      <4>3. CASE row.locked # 0 /\ row.locked <= now
        BY <4>3 DEF FailInv, CountsOK
      <4>. QED  BY <4>1, <4>2, <4>3 DEF CountsOK
    <3>. QED  BY <2>1, <2>2, <3>1, <3>2, <3>3 DEF FailInv, CountsOK
  <2>4. CASE ~(row.count >= MaxFailed)
    <3>1. row' = row
      BY <1>10, <2>4 DEF SetLock
    <3>. QED  BY <1>0, <2>1, <2>2, <2>4, <3>1 DEF FailInv, CountsOK
  <2>. QED  BY <2>3, <2>4
<1>11. CASE Reset(p)
  <2>1. row'.count = 0 /\ row'.locked = 0 /\ fails' = 0
    BY <1>0, <1>11 DEF Reset, Row
  <2>2. ~(0 > now')
    BY DEF CountsOK
  <2>3. 0 <= MaxFailed - 1 + Locking'
    <3>1. Locking' \in Nat /\ MaxFailed \in Nat /\ MaxFailed >= 1
      BY DEF CountsOK
    <3>. QED  BY <3>1, AtLeastZero
  <2>4. 0 <= 0 + Unrecorded' + Cardinality(Procs) - 1
    <3>1. Unrecorded' \in Nat /\ Cardinality(Procs) \in Nat /\ Cardinality(Procs) >= 1
      BY DEF CountsOK
    <3>. QED  BY <3>1, AtLeastZero
  <2>. QED  BY <2>1, <2>2, <2>3, <2>4 DEF FailInv
<1>. QED  BY <1>2, <1>3, <1>4, <1>5, <1>6, <1>7, <1>8, <1>9, <1>10, <1>11 DEF Step

\* Where no call dies before it records its failure, the account takes no more wrong
\* codes in a row than its limit and two for each other call in flight, over all
\* challenges and factors: recordTwoFactorFailure raises the count of the row as it is,
\* and the lock is looked at before a code is (assertTwoFactorNotLocked).
THEOREM FailureBudgetCorrect ==
  ASSUME TwoFactorAssumption, IsFiniteSet(Procs), Procs # {}, "throw" \notin Faults
  PROVE  Spec => []FailureBudget
<1>0. TypeInv => CountsOK
  BY CountsTypes
<1>1. TypeInv /\ Init => FailInv
  <2>. SUFFICES ASSUME TypeInv, Init PROVE FailInv
    OBVIOUS
  <2>1. row.count = 0 /\ row.locked = 0 /\ now = 0 /\ fails = 0
    BY DEF Init
  <2>. QED  BY <2>1, CountsTypes DEF FailInv, CountsOK
<1>2. TypeInv /\ CountsOK /\ CountsOK' /\ FailInv /\ [Next]_vars => FailInv'
  <2>. SUFFICES ASSUME TypeInv, CountsOK, CountsOK', FailInv, [Next]_vars PROVE FailInv'
    OBVIOUS
  <2>3. CASE UNCHANGED vars \/ SignIn
    <3>1. UNCHANGED <<row, fails, now, pc>>
      BY <2>3 DEF vars, SignIn, account, history
    <3>2. Unrecorded' = Unrecorded /\ Locking' = Locking /\ Loaded' = Loaded
      BY <3>1 DEF Unrecorded, Locking, Loaded, At
    <3>. QED  BY <3>1, <3>2, FailQuiet DEF CountsOK
  <2>4. ASSUME NEW p \in Procs, Step(p) PROVE FailInv'
    BY <2>4, FailStep
  <2>5. CASE Regenerate
    <3>1. UNCHANGED <<pc, fails, now>> /\ row'.count = row.count /\ row'.locked = row.locked
      BY <2>5 DEF Regenerate, TypeInv, AccountOK, Row
    <3>2. Unrecorded' = Unrecorded /\ Locking' = Locking /\ Loaded' = Loaded
      BY <3>1 DEF Unrecorded, Locking, Loaded, At
    <3>. QED  BY <3>1, <3>2 DEF FailInv, CountsOK
  <2>6. CASE Tick
    <3>1. /\ UNCHANGED <<pc, row>> /\ now' = now + 1
          /\ fails' = IF row.locked = now + 1 THEN 0 ELSE fails
      BY <2>6 DEF Tick, account
    <3>2. Unrecorded' = Unrecorded /\ Locking' = Locking /\ Loaded' = Loaded
      BY <3>1 DEF Unrecorded, Locking, Loaded, At
    <3>. QED  BY <3>1, <3>2 DEF FailInv, CountsOK
  <2>. QED  BY <2>3, <2>4, <2>5, <2>6 DEF Next
<1>3. CountsOK /\ FailInv => FailureBudget
  BY DEF FailInv, CountsOK, FailureBudget
<1>. QED  BY <1>0, <1>1, <1>2, <1>3, TypesInvariance, PTL DEF Spec
=============================================================================
