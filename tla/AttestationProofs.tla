-------------------------- MODULE AttestationProofs --------------------------
(***************************************************************************)
(* Proofs about Attestation, for every number of calls, wallets, attempts, *)
(* hours and limits: its invariants; that it implements                    *)
(* AttestationRegistry, so that every behaviour of the service, seen       *)
(* through the refinement mapping Registry, is one the abstract registry   *)
(* allows; and that it keeps the rate limits up to what is in flight.      *)
(***************************************************************************)
EXTENDS Attestation, Integers, TLAPS, FiniteSetTheorems

\* Counting one more in a window keeps a table of counts a table of counts.
LEMMA Bump ==
    ASSUME NEW R, NEW H, NEW f \in [R -> [H -> Nat]], NEW r \in R, NEW h \in H
    PROVE  [f EXCEPT ![r][h] = @ + 1] \in [R -> [H -> Nat]]
<1>1. f[r] \in [H -> Nat]
  OBVIOUS
<1>2. [f[r] EXCEPT ![h] = @ + 1] \in [H -> Nat]
  BY <1>1
<1>3. QED BY <1>2

\* The day of an hour is a window of the same table.
LEMMA DayInHours == ASSUME NEW h \in Hours PROVE Day(h) \in Hours
<1>1. h \in Nat /\ h <= LastHour /\ LastHour \in Nat /\ HoursPerDay \in Nat \ {0}
  BY ConstantsAssumption DEF Hours
<1>2. /\ h = HoursPerDay * (h \div HoursPerDay) + (h % HoursPerDay)
      /\ h % HoursPerDay \in 0..(HoursPerDay - 1)
      /\ h \div HoursPerDay \in Int
  BY <1>1
<1>3. h \div HoursPerDay \in 0..LastHour
  BY <1>1, <1>2
<1>4. QED BY <1>3 DEF Day, Hours

\* The initial state has the types.
LEMMA InitTypeOK == Init => TypeOK
  BY ConstantsAssumption
  DEF Init, TypeOK, ChainOK, MemoryOK, CreatingOK, ReadingOK, RemovingOK,
      HistoryOK, Zero, Hours

\* A group of variables that a step leaves alone keeps its types.
LEMMA SameTypes ==
    ASSUME TypeOK
    PROVE  /\ UNCHANGED chain => ChainOK'
           /\ UNCHANGED memory => MemoryOK'
           /\ UNCHANGED creating => CreatingOK'
           /\ UNCHANGED reading => ReadingOK'
           /\ UNCHANGED removing => RemovingOK'
           /\ UNCHANGED history => HistoryOK'
<1>1. UNCHANGED chain => ChainOK'
  BY DEF TypeOK, ChainOK, chain
<1>2. UNCHANGED memory => MemoryOK'
  BY DEF TypeOK, MemoryOK, memory
<1>3. UNCHANGED creating => CreatingOK'
  BY DEF TypeOK, CreatingOK, creating
<1>4. UNCHANGED reading => ReadingOK'
  BY DEF TypeOK, ReadingOK, reading
<1>5. UNCHANGED removing => RemovingOK'
  BY DEF TypeOK, RemovingOK, removing
<1>6. UNCHANGED history => HistoryOK'
  BY DEF TypeOK, HistoryOK, history
<1>7. QED BY <1>1, <1>2, <1>3, <1>4, <1>5, <1>6

\* A retry raises an attempt number only while it is below MaxRetries.
LEMMA RetryTypes ==
    ASSUME TypeOK, NEW c \in Creates, NEW retryable \in BOOLEAN,
           RetryOrFail(c, retryable), UNCHANGED recipient, unsure' \subseteq Uids
    PROVE  CreatingOK'
  BY ConstantsAssumption DEF RetryOrFail, CanRetry, TypeOK, CreatingOK

\* The steps of a creation keep the types.
LEMMA CreateTypes ==
    ASSUME TypeOK, NEW c \in Creates,
           \/ \E s \in KycStatuses : CreateRefused(c, s) \/ CreateStart(c, s)
           \/ CreateStep(c)
           \/ \E retryable \in BOOLEAN : WaitFails(c, retryable)
    PROVE  TypeOK'
<1> USE SameTypes
<1>1. ASSUME NEW s \in KycStatuses, CreateRefused(c, s) \/ CreateStart(c, s)
      PROVE  TypeOK'
  <2>1. CreatingOK'
    BY <1>1 DEF CreateRefused, CreateStart, TypeOK, CreatingOK
  <2>2. QED BY <1>1, <2>1 DEF CreateRefused, CreateStart, TypeOK
<1>2. CASE Submit(c)
  <2>1. Uid(c) \in Uids
    BY DEF Uid, Uids, TypeOK, CreatingOK
  <2>2. ChainOK' /\ CreatingOK'
    BY <1>2, <2>1 DEF Submit, TypeOK, ChainOK, CreatingOK
  <2>3. QED BY <1>2, <2>2 DEF Submit, TypeOK
<1>3. ASSUME NEW accepted \in BOOLEAN, NEW retryable \in BOOLEAN,
             SubmitFails(c, accepted, retryable)
      PROVE  TypeOK'
  <2>0. Uid(c) \in Uids /\ unsure \subseteq Uids
    BY DEF Uid, Uids, TypeOK, CreatingOK
  <2>1. CreatingOK'
    BY <1>3, <2>0, RetryTypes DEF SubmitFails
  <2>2. ChainOK'
    BY <1>3 DEF SubmitFails, TypeOK, ChainOK
  <2>3. QED BY <1>3, <2>1, <2>2 DEF SubmitFails, TypeOK
<1>4. CASE Receipt(c) \/ StoreFails(c)
  <2>1. CreatingOK'
    BY <1>4 DEF Receipt, StoreFails, TypeOK, CreatingOK
  <2>2. QED BY <1>4, <2>1 DEF Receipt, StoreFails, TypeOK
<1>5. CASE CreateDone(c)
  <2>1. Uid(c) \in Uids
    BY DEF Uid, Uids, TypeOK, CreatingOK
  <2>2. CreatingOK'
    BY <1>5 DEF CreateDone, TypeOK, CreatingOK
  <2>3. MemoryOK'
    <3>1. cache' \subseteq Names
      BY <1>5, <2>1, ConstantsAssumption DEF CreateDone, TypeOK, MemoryOK, Names
    <3>2. recipient[c] \in Recipients /\ hour \in Hours /\ Day(hour) \in Hours
      BY DayInHours DEF TypeOK, CreatingOK, ChainOK
    <3>3. hourCount' \in [Recipients -> [Hours -> Nat]]
      BY <1>5, <3>2, Bump DEF CreateDone, TypeOK, MemoryOK
    <3>4. dayCount' \in [Recipients -> [Hours -> Nat]]
      BY <1>5, <3>2, Bump DEF CreateDone, TypeOK, MemoryOK
    <3>5. QED BY <3>1, <3>3, <3>4 DEF MemoryOK
  <2>4. QED BY <1>5, <2>2, <2>3 DEF CreateDone, TypeOK
<1>6. ASSUME NEW retryable \in BOOLEAN, WaitFails(c, retryable)
      PROVE  TypeOK'
  <2>0. Uid(c) \in Uids /\ unsure \subseteq Uids
    BY DEF Uid, Uids, TypeOK, CreatingOK
  <2>1. CreatingOK'
    BY <1>6, <2>0, RetryTypes DEF WaitFails
  <2>2. QED BY <1>6, <2>1 DEF WaitFails, TypeOK
<1>7. QED BY <1>1, <1>2, <1>3, <1>4, <1>5, <1>6 DEF CreateStep

\* The steps of getAttestation keep the types.
LEMMA ReadTypes ==
    ASSUME TypeOK, NEW g \in Readers,
           \/ \E n \in Names : GetHit(g, n) \/ GetMiss(g, n)
           \/ GetVerified(g) \/ GetFails(g) \/ GetFill(g)
    PROVE  TypeOK'
<1> USE SameTypes
<1>1. ASSUME NEW n \in Names, GetHit(g, n) \/ GetMiss(g, n) PROVE TypeOK'
  <2>1. Settled(n[1]) \in SUBSET {"revoked", "expired"}
    BY DEF Settled
  <2>2. ReadingOK'
    BY <1>1, <2>1 DEF GetHit, GetMiss, Ask, TypeOK, ReadingOK
  <2>3. QED BY <1>1, <2>2 DEF GetHit, GetMiss, TypeOK
<1>2. CASE GetVerified(g) \/ GetFails(g)
  <2>1. ReadingOK'
    BY <1>2 DEF GetVerified, GetFails, TypeOK, ReadingOK
  <2>2. QED BY <1>2, <2>1 DEF GetVerified, GetFails, TypeOK
<1>3. CASE GetFill(g)
  <2>1. ReadingOK'
    BY <1>3 DEF GetFill, TypeOK, ReadingOK
  <2>2. MemoryOK'
    BY <1>3 DEF GetFill, TypeOK, ReadingOK, MemoryOK
  <2>3. QED BY <1>3, <2>1, <2>2 DEF GetFill, TypeOK
<1>4. QED BY <1>1, <1>2, <1>3

\* The steps of revokeAttestation keep the types.
LEMMA RevokeTypes ==
    ASSUME TypeOK, NEW v \in Revokers,
           \/ \E n \in Names : RevokeSubmit(v, n)
           \/ \E lost \in BOOLEAN : RevokeWaitFails(v, lost)
           \/ RevokeMined(v) \/ RevokeNoReceipt(v) \/ RevokeDone(v)
    PROVE  TypeOK'
<1> USE SameTypes
<1>1. ASSUME NEW n \in Names, RevokeSubmit(v, n) PROVE TypeOK'
  <2>1. RemovingOK'
    BY <1>1 DEF RevokeSubmit, TypeOK, RemovingOK
  <2>2. QED BY <1>1, <2>1 DEF RevokeSubmit, TypeOK
<1>2. ASSUME NEW lost \in BOOLEAN, RevokeWaitFails(v, lost) PROVE TypeOK'
  <2>1. RemovingOK' /\ ChainOK'
    BY <1>2 DEF RevokeWaitFails, Revoked, Names, TypeOK, RemovingOK, ChainOK
  <2>2. QED BY <1>2, <2>1 DEF RevokeWaitFails, TypeOK
<1>3. CASE RevokeMined(v)
  <2>1. RemovingOK' /\ ChainOK'
    BY <1>3 DEF RevokeMined, Revoked, Names, TypeOK, RemovingOK, ChainOK
  <2>2. QED BY <1>3, <2>1 DEF RevokeMined, TypeOK
<1>4. CASE RevokeNoReceipt(v)
  <2>1. RemovingOK'
    BY <1>4 DEF RevokeNoReceipt, TypeOK, RemovingOK
  <2>2. QED BY <1>4, <2>1 DEF RevokeNoReceipt, TypeOK
<1>5. CASE RevokeDone(v)
  <2>1. RemovingOK' /\ HistoryOK'
    BY <1>5 DEF RevokeDone, TypeOK, RemovingOK, HistoryOK
  <2>2. MemoryOK'
    BY <1>5 DEF RevokeDone, Evict, TypeOK, MemoryOK
  <2>3. QED BY <1>5, <2>1, <2>2 DEF RevokeDone, TypeOK
<1>6. QED BY <1>1, <1>2, <1>3, <1>4, <1>5

\* The chain, the clock and a restart keep the types.
LEMMA WorldTypes ==
    ASSUME TypeOK,
           \/ \E u \in Uids : Mine(u) \/ Drop(u) \/ LateRevocation(u) \/ Expire(u)
           \/ NextHour
           \/ Restart
    PROVE  TypeOK'
<1> USE SameTypes
<1>1. ASSUME NEW u \in Uids, Mine(u) \/ Drop(u) \/ LateRevocation(u) \/ Expire(u)
      PROVE  TypeOK'
  <2>1. ChainOK'
    BY <1>1 DEF Mine, Drop, LateRevocation, Expire, TypeOK, ChainOK
  <2>2. QED BY <1>1, <2>1 DEF Mine, Drop, LateRevocation, Expire, TypeOK
<1>2. CASE NextHour
  <2>1. ChainOK'
    BY <1>2, ConstantsAssumption DEF NextHour, TypeOK, ChainOK, Hours
  <2>2. QED BY <1>2, <2>1 DEF NextHour, TypeOK
<1>3. CASE Restart
  <2>1. MemoryOK'
    BY <1>3 DEF Restart, MemoryOK, Zero
  <2>2. ChainOK'
    BY <1>3 DEF Restart, Revoked, Names, TypeOK, ChainOK, RemovingOK
  <2>3. CreatingOK' /\ ReadingOK' /\ RemovingOK'
    BY <1>3 DEF Restart, TypeOK, CreatingOK, ReadingOK, RemovingOK
  <2>4. QED BY <1>3, <2>1, <2>2, <2>3 DEF Restart, TypeOK
<1>4. QED BY <1>1, <1>2, <1>3

\* Every step keeps the types.
LEMMA NextTypeOK == TypeOK /\ [Next]_vars => TypeOK'
<1>1. TypeOK /\ UNCHANGED vars => TypeOK'
  BY SameTypes DEF vars, TypeOK
<1>2. TypeOK /\ Next => TypeOK'
  BY CreateTypes, ReadTypes, RevokeTypes, WorldTypes DEF Next
<1>3. QED BY <1>1, <1>2

\* The state keeps its types in every behaviour.
THEOREM TypeCorrect == Spec => []TypeOK
<1>1. QED BY InitTypeOK, NextTypeOK, PTL DEF Spec

-----------------------------------------------------------------------------
(* What the chain may do to an attestation *)

\* A step moves a transaction forward only: it appears when the creation that
\* owns it submits, stays on the chain once mined and revoked once revoked.
LEMMA TxStep ==
    ASSUME TypeOK, CreateInv, [Next]_vars, NEW u \in Uids
    PROVE  /\ tx[u] \in OnChain => tx'[u] \in OnChain
           /\ tx[u] = "revoked" => tx'[u] = "revoked"
           /\ tx[u] = "none" /\ tx'[u] # "none" => cpc[u[1]] = "submit" /\ u = Uid(u[1])
<1>1. CASE UNCHANGED tx
  BY <1>1
<1>2. ASSUME NEW c \in Creates,
             \/ Submit(c)
             \/ \E accepted, retryable \in BOOLEAN : SubmitFails(c, accepted, retryable)
      PROVE  /\ cpc[c] = "submit" /\ tx[Uid(c)] = "none"
             /\ tx' = [tx EXCEPT ![Uid(c)] = "pending"] \/ tx' = tx
  BY <1>2 DEF Submit, SubmitFails, CreateInv
<1>3. ASSUME NEW c \in Creates, tx[Uid(c)] = "none", cpc[c] = "submit",
             tx' = [tx EXCEPT ![Uid(c)] = "pending"]
      PROVE  /\ tx[u] \in OnChain => tx'[u] \in OnChain
             /\ tx[u] = "revoked" => tx'[u] = "revoked"
             /\ tx[u] = "none" /\ tx'[u] # "none" => cpc[u[1]] = "submit" /\ u = Uid(u[1])
  <2>1. Uid(c)[1] = c /\ Uid(c) \in Uids
    BY DEF Uid, Uids, TypeOK, CreatingOK
  <2>2. CASE u = Uid(c)
    BY <1>3, <2>1, <2>2 DEF OnChain
  <2>3. CASE u # Uid(c)
    BY <1>3, <2>1, <2>3 DEF TypeOK, ChainOK
  <2>4. QED BY <2>2, <2>3
<1>4. ASSUME NEW v \in Revokers, RevokeMined(v)
      PROVE  /\ tx[u] \in OnChain => tx'[u] \in OnChain
             /\ tx[u] = "revoked" => tx'[u] = "revoked"
             /\ tx[u] = "none" => tx'[u] = "none"
  BY <1>4 DEF RevokeMined, TypeOK, ChainOK, OnChain
<1>5. ASSUME NEW w \in Uids, Mine(w) \/ Drop(w) \/ LateRevocation(w) \/ Expire(w)
      PROVE  /\ tx[u] \in OnChain => tx'[u] \in OnChain
             /\ tx[u] = "revoked" => tx'[u] = "revoked"
             /\ tx[u] = "none" => tx'[u] = "none"
  BY <1>5 DEF Mine, Drop, LateRevocation, Expire, TypeOK, ChainOK, OnChain
<1>6. QED
  BY <1>1, <1>2, <1>3, <1>4, <1>5
  DEF Next, vars, chain, CreateStep, CreateRefused, CreateStart, Receipt, StoreFails,
      CreateDone, WaitFails, GetHit, GetMiss, GetVerified, GetFails, GetFill,
      RevokeSubmit, RevokeWaitFails, RevokeNoReceipt, RevokeDone, NextHour, Restart

-----------------------------------------------------------------------------
(* Creation *)

\* Nothing is sent at the start.
LEMMA InitCreateInv == Init => CreateInv
<1> SUFFICES ASSUME Init PROVE CreateInv
  OBVIOUS
<1>1. \A c \in Creates, k \in 1..MaxRetries : <<c, k>> \in Uids
  BY DEF Uids
<1>2. 1 \in 1..MaxRetries
  BY ConstantsAssumption
<1>3. \A c \in Creates : cpc[c] = "idle" /\ attempt[c] = 1
  BY DEF Init
<1>4. \A u \in Uids : tx[u] = "none"
  BY DEF Init
<1>5. \A c \in Creates : tx[Uid(c)] = "none"
  BY <1>1, <1>2, <1>3, <1>4 DEF Uid
<1>6. QED
  BY <1>1, <1>3, <1>4, <1>5 DEF CreateInv, SuccessIsOnChain

\* A step that leaves a creation alone keeps what CreateInv says of it.
CreateInvOf(c) ==
    /\ cpc[c] \in {"receipt", "done"} => tx[Uid(c)] \in OnChain
    /\ cpc[c] \in {"idle", "submit"} => tx[Uid(c)] = "none"
    /\ \A k \in 1..MaxRetries :
        /\ k > attempt[c] => tx[<<c, k>>] = "none"
        /\ k < attempt[c] => tx[<<c, k>>] = "none" \/ <<c, k>> \in unsure

\* CreateInv is the conjunction of what it says of each creation.
LEMMA CreateInvSplit == CreateInv <=> \A c \in Creates : CreateInvOf(c)
  BY DEF CreateInv, CreateInvOf, SuccessIsOnChain

\* What the steps of the others do to a creation: nothing, save that a
\* restart loses it and that its transactions move on.
Untouched(c) ==
    /\ attempt'[c] = attempt[c] /\ unsure \subseteq unsure'
    /\ cpc'[c] = cpc[c] \/ cpc'[c] = "lost"
    /\ \A k \in 1..MaxRetries : tx[<<c, k>>] = "none" => tx'[<<c, k>>] = "none"

\* Another creation's step leaves this one's variables and transactions alone.
LEMMA OtherCreation ==
    ASSUME TypeOK, NEW c \in Creates, NEW d \in Creates, d # c,
           \/ \E s \in KycStatuses : CreateRefused(d, s) \/ CreateStart(d, s)
           \/ CreateStep(d)
           \/ \E retryable \in BOOLEAN : WaitFails(d, retryable)
    PROVE  Untouched(c)
<1>1. \A k \in 1..MaxRetries : <<c, k>> \in Uids /\ <<c, k>> # Uid(d)
  BY DEF Uid, Uids
<1>2. /\ attempt \in [Creates -> 1..MaxRetries]
      /\ cpc \in [Creates -> {"idle", "submit", "wait", "receipt", "done", "failed", "lost"}]
      /\ tx \in [Uids -> {"none", "pending", "live", "revoked", "dropped"}]
  BY DEF TypeOK, CreatingOK, ChainOK
<1>3. ASSUME NEW s \in KycStatuses, CreateRefused(d, s) \/ CreateStart(d, s)
      PROVE  Untouched(c)
  BY <1>1, <1>2, <1>3 DEF CreateRefused, CreateStart, Untouched, chain
<1>4. ASSUME NEW retryable \in BOOLEAN, RetryOrFail(d, retryable)
      PROVE  attempt'[c] = attempt[c] /\ cpc'[c] = cpc[c]
  BY <1>2, <1>4 DEF RetryOrFail
<1>5. CASE Submit(d)
  BY <1>1, <1>2, <1>5 DEF Submit, Untouched
<1>6. ASSUME NEW accepted \in BOOLEAN, NEW retryable \in BOOLEAN,
             SubmitFails(d, accepted, retryable)
      PROVE  Untouched(c)
  BY <1>1, <1>2, <1>4, <1>6 DEF SubmitFails, Untouched
<1>7. CASE Receipt(d) \/ StoreFails(d) \/ CreateDone(d)
  BY <1>2, <1>7 DEF Receipt, StoreFails, CreateDone, Untouched, chain
<1>8. ASSUME NEW retryable \in BOOLEAN, WaitFails(d, retryable) PROVE Untouched(c)
  BY <1>2, <1>4, <1>8 DEF WaitFails, Untouched, chain
<1>9. QED BY <1>3, <1>5, <1>6, <1>7, <1>8 DEF CreateStep

\* Readers, revokers, the chain and the clock leave it alone as well.
LEMMA OtherParties ==
    ASSUME TypeOK, NEW c \in Creates,
           \/ UNCHANGED vars
           \/ \E g \in Readers, n \in Names : GetHit(g, n) \/ GetMiss(g, n)
           \/ \E g \in Readers : GetVerified(g) \/ GetFails(g) \/ GetFill(g)
           \/ \E v \in Revokers, n \in Names : RevokeSubmit(v, n)
           \/ \E v \in Revokers, lost \in BOOLEAN : RevokeWaitFails(v, lost)
           \/ \E v \in Revokers : RevokeMined(v) \/ RevokeNoReceipt(v) \/ RevokeDone(v)
           \/ \E u \in Uids : Mine(u) \/ Drop(u) \/ LateRevocation(u) \/ Expire(u)
           \/ NextHour
           \/ Restart
    PROVE  Untouched(c)
<1>1. \/ UNCHANGED creating
      \/ Restart
  BY DEF vars, GetHit, GetMiss, GetVerified, GetFails, GetFill, RevokeSubmit, RevokeMined,
         RevokeWaitFails, RevokeNoReceipt, RevokeDone, Mine, Drop, LateRevocation, Expire,
         NextHour
<1>2. /\ attempt'[c] = attempt[c] /\ unsure' = unsure
      /\ cpc'[c] = cpc[c] \/ cpc'[c] = "lost"
  BY <1>1 DEF creating, Restart
<1>3. ASSUME NEW u \in Uids, tx[u] = "none" PROVE tx'[u] = "none"
  <2>1. CASE UNCHANGED tx
    BY <2>1, <1>3
  <2>2. ASSUME NEW v \in Revokers, RevokeMined(v) PROVE tx'[u] = "none"
    BY <2>2, <1>3 DEF RevokeMined, TypeOK, ChainOK
  <2>3. ASSUME NEW w \in Uids, Mine(w) \/ Drop(w) \/ LateRevocation(w) \/ Expire(w)
        PROVE  tx'[u] = "none"
    BY <2>3, <1>3 DEF Mine, Drop, LateRevocation, Expire, TypeOK, ChainOK
  <2>4. QED
    BY <2>1, <2>2, <2>3
    DEF vars, chain, GetHit, GetMiss, GetVerified, GetFails, GetFill, RevokeSubmit,
        RevokeWaitFails, RevokeNoReceipt, RevokeDone, NextHour, Restart
<1>4. \A k \in 1..MaxRetries : <<c, k>> \in Uids
  BY DEF Uids
<1>5. QED BY <1>2, <1>3, <1>4 DEF Untouched

\* Every step keeps CreateInv.
LEMMA NextCreateInv == TypeOK /\ CreateInv /\ [Next]_vars => CreateInv'
<1>0. (CreateInv <=> \A c \in Creates : CreateInvOf(c))'
  BY CreateInvSplit, PTL
<1> SUFFICES ASSUME TypeOK, CreateInv, [Next]_vars, NEW c \in Creates
             PROVE  CreateInvOf(c)'
  BY <1>0
<1>1. CreateInvOf(c)
  BY CreateInvSplit
<1>2. \A k \in 1..MaxRetries : tx[<<c, k>>] \in OnChain => tx'[<<c, k>>] \in OnChain
  BY TxStep DEF Uids
<1>3. /\ attempt[c] \in 1..MaxRetries
      /\ attempt \in [Creates -> 1..MaxRetries]
      /\ cpc \in [Creates -> {"idle", "submit", "wait", "receipt", "done", "failed", "lost"}]
      /\ tx \in [Uids -> {"none", "pending", "live", "revoked", "dropped"}]
  BY DEF TypeOK, CreatingOK, ChainOK
<1>4. CASE Untouched(c)
  BY <1>1, <1>2, <1>3, <1>4 DEF Untouched, CreateInvOf, Uid
<1>5. ASSUME NEW s \in KycStatuses, CreateRefused(c, s) \/ CreateStart(c, s)
      PROVE  CreateInvOf(c)'
  BY <1>1, <1>3, <1>5 DEF CreateRefused, CreateStart, CreateInvOf, Uid, chain
<1>6. ASSUME NEW retryable \in BOOLEAN, RetryOrFail(c, retryable),
             cpc[c] \in {"submit", "wait"},
             unsure \subseteq unsure', tx'[Uid(c)] = "none" \/ Uid(c) \in unsure',
             \A k \in 1..MaxRetries : k # attempt[c] => tx'[<<c, k>>] = tx[<<c, k>>]
      PROVE  CreateInvOf(c)'
  <2>1. CASE retryable /\ CanRetry(c)
    <3>1. attempt'[c] = attempt[c] + 1 /\ cpc'[c] = "submit" /\ attempt[c] + 1 \in 1..MaxRetries
      BY <1>3, <1>6, <2>1, ConstantsAssumption DEF RetryOrFail, CanRetry
    <3>2. tx'[<<c, attempt[c] + 1>>] = "none"
      BY <1>1, <1>3, <1>6, <3>1 DEF CreateInvOf
    <3>3. \A k \in 1..MaxRetries :
            /\ k > attempt[c] + 1 => tx'[<<c, k>>] = "none"
            /\ k < attempt[c] + 1 => tx'[<<c, k>>] = "none" \/ <<c, k>> \in unsure'
      BY <1>1, <1>3, <1>6 DEF CreateInvOf, Uid
    <3>4. QED BY <3>1, <3>2, <3>3 DEF CreateInvOf, Uid
  <2>2. CASE ~(retryable /\ CanRetry(c))
    BY <1>1, <1>3, <1>6, <2>2 DEF RetryOrFail, CreateInvOf, Uid
  <2>3. QED BY <2>1, <2>2
<1>7. \A k \in 1..MaxRetries : <<c, k>> \in Uids /\ (k # attempt[c] => <<c, k>> # Uid(c))
  BY DEF Uids, Uid
<1>8. CASE Submit(c)
  BY <1>1, <1>3, <1>7, <1>8 DEF Submit, CreateInvOf, Uid
<1>9. ASSUME NEW accepted \in BOOLEAN, NEW retryable \in BOOLEAN,
             SubmitFails(c, accepted, retryable)
      PROVE  CreateInvOf(c)'
  <2>1. tx[Uid(c)] = "none" /\ Uid(c) \in Uids
    BY <1>1, <1>3, <1>7, <1>9 DEF SubmitFails, CreateInvOf, Uid
  <2>2. tx'[Uid(c)] = "none" \/ Uid(c) \in unsure'
    BY <1>9, <2>1 DEF SubmitFails
  <2>3. QED BY <1>3, <1>6, <1>7, <1>9, <2>2 DEF SubmitFails
<1>10. ASSUME NEW retryable \in BOOLEAN, WaitFails(c, retryable) PROVE CreateInvOf(c)'
  <2>1. Uid(c) \in unsure' /\ unsure \subseteq unsure' /\ tx' = tx
    BY <1>10 DEF WaitFails, chain
  <2>2. QED BY <1>6, <1>10, <2>1 DEF WaitFails
<1>11. CASE Receipt(c) \/ StoreFails(c) \/ CreateDone(c)
  BY <1>1, <1>3, <1>11 DEF Receipt, HasReceipt, StoreFails, CreateDone, CreateInvOf, Uid, chain
<1>12. QED
  BY <1>4, <1>5, <1>8, <1>9, <1>10, <1>11, OtherCreation, OtherParties DEF Next, CreateStep

\* A call leaves a second attestation only where it could not tell what
\* became of the first.
THEOREM DoublesAreUnsure == Spec => []DoubledOnlyIfUnsure
<1>1. TypeOK /\ CreateInv => DoubledOnlyIfUnsure
  <2> SUFFICES ASSUME TypeOK, CreateInv, NEW u \in Uids, tx[u] \in OnChain, u # Uid(u[1])
               PROVE  u \in unsure
    BY DEF DoubledOnlyIfUnsure
  <2>1. u[1] \in Creates /\ u[2] \in 1..MaxRetries /\ u = <<u[1], u[2]>>
    BY DEF Uids
  <2>2. attempt[u[1]] \in 1..MaxRetries /\ u[2] # attempt[u[1]]
    BY <2>1 DEF Uid, TypeOK, CreatingOK
  <2>3. tx[u] # "none"
    BY DEF OnChain
  <2>4. u[2] < attempt[u[1]] \/ u[2] > attempt[u[1]]
    BY <2>1, <2>2
  <2>5. QED BY <2>1, <2>3, <2>4 DEF CreateInv
<1>2. QED BY <1>1, TypeCorrect, InitCreateInv, NextCreateInv, PTL DEF Spec

\* A creation that reported success names an attestation on the chain.
THEOREM SuccessOnChain == Spec => []SuccessIsOnChain
<1>1. CreateInv => SuccessIsOnChain
  BY DEF CreateInv
<1>2. QED BY <1>1, TypeCorrect, InitCreateInv, NextCreateInv, PTL DEF Spec

-----------------------------------------------------------------------------
(* The cache *)

\* Nothing is cached or reported at the start.
LEMMA InitCacheInv == Init => CacheInv
  BY DEF Init, CacheInv, StaleOnlyIfRaced, NoStaleFill

\* The parts of CacheInv: about the chain, the creations and the readers.
AckedRevoked == /\ \A n \in acked : tx[n[1]] = "revoked"
                /\ \A v \in Revokers : vpc[v] = "receipt" => tx[Revoked(v)] = "revoked"
Fresh(c) == <<Uid(c), Canonical>>
HolderRaced(c) == cpc[c] \in {"wait", "receipt"} /\ Fresh(c) \in acked => Fresh(c) \in raced
AckedSomehow(u) == \E s \in Spellings : <<u, s>> \in acked
ReaderSound(g) == /\ rpc[g] = "fill" => known[g] = {}
                  /\ rpc[g] = "fill" /\ rname[g] \in acked => rname[g] \in raced
                  /\ "revoked" \in known[g] => AckedSomehow(rname[g][1])
                  /\ "expired" \in known[g] => rname[g][1] \in expired

\* CacheInv is the conjunction of its parts.
LEMMA CacheInvSplit ==
    CacheInv <=> /\ StaleOnlyIfRaced
                 /\ AckedRevoked
                 /\ \A c \in Creates : HolderRaced(c)
                 /\ \A g \in Readers : ReaderSound(g)
  BY DEF CacheInv, NoStaleFill, AckedRevoked, HolderRaced, Fresh, ReaderSound, AckedSomehow

\* A step that reports no revocation keeps what is known of the reported ones.
LEMMA AckedStep ==
    ASSUME TypeOK, CreateInv, CacheInv, [Next]_vars
    PROVE  AckedRevoked'
<1>1. \A u \in Uids : tx[u] = "revoked" => tx'[u] = "revoked"
  BY TxStep
<1>2. /\ \A n \in acked : n[1] \in Uids
      /\ vpc \in [Revokers -> {"idle", "wait", "receipt"}]
      /\ vname \in [Revokers -> Names \cup {NoName}]
      /\ \A v \in Revokers : vpc[v] # "idle" => Revoked(v) \in Uids
      /\ tx \in [Uids -> {"none", "pending", "live", "revoked", "dropped"}]
  BY DEF TypeOK, ChainOK, HistoryOK, RemovingOK, Names, Revoked
<1>3. AckedRevoked
  BY CacheInvSplit
<1>4. CASE UNCHANGED <<removing, acked>>
  BY <1>1, <1>2, <1>3, <1>4 DEF AckedRevoked, removing, Revoked
<1>5. ASSUME NEW v \in Revokers,
             \/ \E n \in Names : RevokeSubmit(v, n)
             \/ \E lost \in BOOLEAN : RevokeWaitFails(v, lost)
             \/ RevokeNoReceipt(v)
      PROVE  AckedRevoked'
  BY <1>2, <1>3, <1>5
  DEF AckedRevoked, Revoked, RevokeSubmit, RevokeWaitFails, RevokeNoReceipt, chain, history
<1>6. ASSUME NEW v \in Revokers, RevokeMined(v) PROVE AckedRevoked'
  BY <1>2, <1>3, <1>6 DEF AckedRevoked, Revoked, RevokeMined, history
<1>7. ASSUME NEW v \in Revokers, RevokeDone(v) PROVE AckedRevoked'
  BY <1>2, <1>3, <1>7 DEF AckedRevoked, Revoked, RevokeDone, chain
<1>8. CASE Restart
  BY <1>2, <1>3, <1>8 DEF AckedRevoked, Revoked, Restart, history
<1>9. QED
  BY <1>4, <1>5, <1>6, <1>7, <1>8
  DEF Next, CreateStep, vars, history, CreateRefused, CreateStart, Submit, SubmitFails,
      Receipt, WaitFails, StoreFails, CreateDone, GetHit, GetMiss, GetVerified, GetFails,
      GetFill, Mine, Drop, LateRevocation, Expire, NextHour

\* Reported revocations and races are only ever added.
LEMMA HistoryGrows ==
    ASSUME [Next]_vars
    PROVE  /\ acked \subseteq acked' /\ raced \subseteq raced' /\ expired \subseteq expired'
           /\ \/ acked' = acked
              \/ \E v \in Revokers : RevokeDone(v)
<1>1. CASE \E v \in Revokers : RevokeDone(v)
  BY <1>1 DEF RevokeDone, chain
<1>2. CASE UNCHANGED history
  <2>1. expired \subseteq expired'
    BY DEF Next, CreateStep, vars, chain, CreateRefused, CreateStart, Submit, SubmitFails,
           Receipt, WaitFails, StoreFails, CreateDone, GetHit, GetMiss, GetVerified, GetFails,
           GetFill, RevokeSubmit, RevokeMined, RevokeWaitFails, RevokeNoReceipt, RevokeDone,
           Mine, Drop, LateRevocation, Expire, NextHour, Restart
  <2>2. QED BY <1>2, <2>1 DEF history
<1>3. QED
  BY <1>1, <1>2
  DEF Next, CreateStep, vars, CreateRefused, CreateStart, Submit, SubmitFails,
      Receipt, WaitFails, StoreFails, CreateDone, GetHit, GetMiss, GetVerified, GetFails,
      GetFill, RevokeSubmit, RevokeMined, RevokeWaitFails, RevokeNoReceipt,
      Mine, Drop, LateRevocation, Expire, NextHour, Restart

\* A creation holds a reported uid only if it held it when it was reported.
LEMMA HolderStep ==
    ASSUME TypeOK, CreateInv, CacheInv, [Next]_vars, NEW c \in Creates
    PROVE  HolderRaced(c)'
<1>1. HolderRaced(c) /\ AckedRevoked /\ CreateInvOf(c)
  BY CacheInvSplit, CreateInvSplit
<1>2. /\ attempt \in [Creates -> 1..MaxRetries] /\ Uid(c) \in Uids /\ Fresh(c) \in Names
      /\ Fresh(c)[1] = Uid(c)
      /\ cpc \in [Creates -> {"idle", "submit", "wait", "receipt", "done", "failed", "lost"}]
  BY ConstantsAssumption DEF TypeOK, CreatingOK, Uid, Uids, Fresh, Names
<1>3. SUFFICES ASSUME cpc'[c] \in {"wait", "receipt"}, Fresh(c)' \in acked'
               PROVE  Fresh(c)' \in raced'
  BY DEF HolderRaced
<1>4. attempt'[c] = attempt[c] /\ cpc[c] \in {"submit", "wait", "receipt"}
  <2>1. CASE Untouched(c)
    BY <1>3, <2>1 DEF Untouched
  <2>2. ASSUME NEW s \in KycStatuses, CreateRefused(c, s) \/ CreateStart(c, s)
        PROVE  FALSE
    BY <1>2, <1>3, <2>2 DEF CreateRefused, CreateStart
  <2>3. ASSUME NEW retryable \in BOOLEAN, RetryOrFail(c, retryable)
        PROVE  FALSE
    BY <1>2, <1>3, <2>3 DEF RetryOrFail
  <2>4. CASE Submit(c) \/ Receipt(c) \/ StoreFails(c) \/ CreateDone(c)
    BY <2>4 DEF Submit, Receipt, StoreFails, CreateDone
  <2>5. QED
    BY <2>1, <2>2, <2>3, <2>4, OtherCreation, OtherParties
    DEF Next, CreateStep, SubmitFails, WaitFails
<1>5. Fresh(c)' = Fresh(c)
  BY <1>4 DEF Uid, Fresh
<1>6. CASE \E v \in Revokers : RevokeDone(v)
  <2>1. PICK v \in Revokers : RevokeDone(v)
    BY <1>6
  <2>2. cpc' = cpc
    BY <2>1 DEF RevokeDone, creating
  <2>3. CASE Fresh(c) = vname[v]
    <3>1. Held(Fresh(c)) /\ Fresh(c)[1] = Revoked(v)
      BY <1>3, <2>2, <2>3 DEF Held, InFlight, Fresh, Revoked
    <3>2. QED BY <1>2, <1>5, <2>1, <3>1 DEF RevokeDone
  <2>4. CASE Fresh(c) # vname[v]
    BY <1>1, <1>3, <1>5, <2>1, <2>2, <2>4, HistoryGrows DEF RevokeDone, HolderRaced
  <2>5. QED BY <2>3, <2>4
<1>7. CASE acked' = acked
  <2>1. cpc[c] # "submit"
    BY <1>1, <1>2, <1>3, <1>5, <1>7 DEF AckedRevoked, CreateInvOf
  <2>2. QED BY <1>1, <1>3, <1>4, <1>5, <1>7, <2>1, HistoryGrows DEF HolderRaced
<1>8. QED BY <1>6, <1>7, HistoryGrows

\* A reader carries only what was valid after its call began.
LEMMA ReaderStep ==
    ASSUME TypeOK, CacheInv, [Next]_vars, NEW g \in Readers
    PROVE  ReaderSound(g)'
<1>1. ReaderSound(g) /\ AckedRevoked
  BY CacheInvSplit
<1>2. /\ rpc \in [Readers -> {"idle", "verify", "fill"}]
      /\ rname \in [Readers -> Names \cup {NoName}]
      /\ known \in [Readers -> SUBSET {"revoked", "expired"}]
      /\ known[g] \subseteq {"revoked", "expired"}
      /\ rpc[g] # "idle" => rname[g] \in Names
  BY DEF TypeOK, ReadingOK
<1>3. ASSUME rname'[g] = rname[g], known'[g] = known[g], rpc'[g] = rpc[g] \/ rpc'[g] = "idle"
      PROVE  ReaderSound(g)'
  <2>1. CASE acked' = acked
    BY <1>1, <1>3, <2>1, HistoryGrows DEF ReaderSound, AckedSomehow
  <2>2. ASSUME NEW v \in Revokers, RevokeDone(v) PROVE ReaderSound(g)'
    <3>1. rpc' = rpc /\ acked' = acked \cup {vname[v]}
      BY <2>2 DEF RevokeDone, reading
    <3>2. AckedSomehow(rname[g][1]) => AckedSomehow(rname[g][1])'
      BY <1>3, <3>1 DEF AckedSomehow
    <3>3. CASE rpc[g] = "fill" /\ rname[g] = vname[v]
      <4>1. Held(rname[g]) /\ rname[g][1] = Revoked(v) /\ rname[g] \in Names
        BY <1>2, <3>3 DEF Held, Revoked
      <4>2. rname[g] \in raced'
        BY <2>2, <4>1 DEF RevokeDone
      <4>3. QED BY <1>1, <1>3, <3>1, <3>2, <3>3, <4>2, HistoryGrows DEF ReaderSound
    <3>4. CASE ~(rpc[g] = "fill" /\ rname[g] = vname[v])
      BY <1>1, <1>3, <3>1, <3>2, <3>4, HistoryGrows DEF ReaderSound
    <3>5. QED BY <3>3, <3>4
  <2>3. QED BY <2>1, <2>2, HistoryGrows
<1>4. CASE UNCHANGED reading
  BY <1>3, <1>4 DEF reading
<1>5. CASE Restart
  BY <1>2, <1>3, <1>5 DEF Restart
<1>6. ASSUME NEW h \in Readers, h # g,
             \/ \E n \in Names : GetHit(h, n) \/ GetMiss(h, n)
             \/ GetVerified(h) \/ GetFails(h) \/ GetFill(h)
      PROVE  ReaderSound(g)'
  BY <1>2, <1>3, <1>6 DEF GetHit, GetMiss, Ask, GetVerified, GetFails, GetFill
<1>7. ASSUME NEW n \in Names, GetHit(g, n) \/ GetMiss(g, n) PROVE ReaderSound(g)'
  <2>1. rname'[g] = n /\ known'[g] = Settled(n[1]) /\ rpc'[g] # "fill"
    BY <1>2, <1>7 DEF GetHit, GetMiss, Ask, TypeOK
  <2>2. UNCHANGED <<acked, expired>>
    BY <1>7 DEF GetHit, GetMiss, history, chain
  <2>3. /\ "revoked" \in Settled(n[1]) => AckedSomehow(n[1])
        /\ "expired" \in Settled(n[1]) => n[1] \in expired
    BY DEF Settled, AckedSomehow
  <2>4. AckedSomehow(n[1])' <=> AckedSomehow(n[1])
    BY <2>2 DEF AckedSomehow
  <2>5. AckedSomehow(n[1]) => AckedSomehow(rname[g][1])'
    BY <2>1, <2>2 DEF AckedSomehow
  <2>6. QED BY <2>1, <2>2, <2>3, <2>5 DEF ReaderSound
<1>8. CASE GetVerified(g)
  <2>1. tx[rname[g][1]] = "live" /\ rname[g][1] \notin expired
    BY <1>8 DEF GetVerified, Valid
  <2>2. rname[g] \notin acked /\ ~AckedSomehow(rname[g][1])
    <3>1. \A n \in acked : n[1] # rname[g][1]
      BY <1>1, <2>1 DEF AckedRevoked
    <3>2. \A s \in Spellings : <<rname[g][1], s>> \notin acked
      BY <3>1
    <3>3. QED BY <3>1, <3>2 DEF AckedSomehow
  <2>3. known[g] = {}
    BY <1>1, <1>2, <2>1, <2>2 DEF ReaderSound
  <2>4. rname' = rname /\ known' = known /\ acked' = acked
    BY <1>8 DEF GetVerified, history
  <2>5. QED BY <2>2, <2>3, <2>4 DEF ReaderSound
<1>9. CASE GetFails(g) \/ GetFill(g)
  BY <1>2, <1>3, <1>9 DEF GetFails, GetFill
<1>10. QED
  BY <1>4, <1>5, <1>6, <1>7, <1>8, <1>9
  DEF Next, CreateStep, vars, CreateRefused, CreateStart, Submit, SubmitFails,
      Receipt, WaitFails, StoreFails, CreateDone, RevokeSubmit, RevokeMined,
      RevokeWaitFails, RevokeNoReceipt, RevokeDone, Mine, Drop, LateRevocation, Expire,
      NextHour

\* A revoked entry comes back to the cache only from a holder that raced.
LEMMA CacheStep ==
    ASSUME TypeOK, CacheInv, [Next]_vars
    PROVE  StaleOnlyIfRaced'
<1>1. /\ StaleOnlyIfRaced
      /\ \A c \in Creates : HolderRaced(c)
      /\ \A g \in Readers : ReaderSound(g)
  BY CacheInvSplit
<1>2. ASSUME NEW v \in Revokers, RevokeDone(v) PROVE StaleOnlyIfRaced'
  BY <1>1, <1>2, HistoryGrows DEF StaleOnlyIfRaced, RevokeDone, Evict
<1>3. ASSUME NEW c \in Creates, CreateDone(c) PROVE StaleOnlyIfRaced'
  BY <1>1, <1>3 DEF StaleOnlyIfRaced, CreateDone, HolderRaced, Fresh, history
<1>4. ASSUME NEW g \in Readers, GetFill(g) PROVE StaleOnlyIfRaced'
  BY <1>1, <1>4 DEF StaleOnlyIfRaced, GetFill, ReaderSound, history
<1>5. CASE Restart
  BY <1>5 DEF StaleOnlyIfRaced, Restart
<1>6. CASE UNCHANGED <<cache, acked, raced>>
  BY <1>1, <1>6 DEF StaleOnlyIfRaced
<1>7. QED
  BY <1>2, <1>3, <1>4, <1>5, <1>6
  DEF Next, CreateStep, vars, memory, history, CreateRefused, CreateStart, Submit,
      SubmitFails, Receipt, WaitFails, StoreFails, GetHit, GetMiss, GetVerified, GetFails,
      RevokeSubmit, RevokeMined, RevokeWaitFails, RevokeNoReceipt, Mine, Drop,
      LateRevocation, Expire, NextHour

\* Every step keeps CacheInv.
LEMMA NextCacheInv == TypeOK /\ CreateInv /\ CacheInv /\ [Next]_vars => CacheInv'
<1>1. (CacheInv <=> /\ StaleOnlyIfRaced
                    /\ AckedRevoked
                    /\ \A c \in Creates : HolderRaced(c)
                    /\ \A g \in Readers : ReaderSound(g))'
  BY CacheInvSplit, PTL
<1>2. QED BY <1>1, AckedStep, HolderStep, ReaderStep, CacheStep

\* What rests on CacheInv holds in every behaviour.
LEMMA CacheSound == Spec => []CacheInv
<1>1. QED
  BY TypeCorrect, InitCreateInv, NextCreateInv, InitCacheInv, NextCacheInv, PTL DEF Spec

\* getAttestation never caches what was revoked or expired before it began.
THEOREM FreshFills == Spec => []NoStaleFill
<1>1. CacheInv => NoStaleFill
  BY DEF CacheInv
<1>2. QED BY <1>1, CacheSound, PTL

\* After a reported revocation the cache is stale only if another call held
\* the attestation at that moment.
THEOREM StaleOnlyByRace == Spec => []StaleOnlyIfRaced
<1>1. CacheInv => StaleOnlyIfRaced
  BY DEF CacheInv
<1>2. QED BY <1>1, CacheSound, PTL

-----------------------------------------------------------------------------
(* The registry *)

\* The registry's view of an attestation.
Status(u) == IF tx[u] \in OnChain THEN tx[u] ELSE "absent"

\* What a reader is about to cache was valid when it looked, so it is on the
\* chain still: an attestation never leaves it.
ReadInv == \A g \in Readers : rpc[g] = "fill" => tx[rname[g][1]] \in OnChain

\* No reader holds anything at the start.
LEMMA InitReadInv == Init => ReadInv
  BY DEF Init, ReadInv

\* Every step keeps what a reader holds on the chain.
LEMMA NextReadInv == TypeOK /\ CreateInv /\ ReadInv /\ [Next]_vars => ReadInv'
<1> SUFFICES ASSUME TypeOK, CreateInv, ReadInv, [Next]_vars, NEW g \in Readers,
                    rpc'[g] = "fill"
             PROVE  tx'[rname'[g][1]] \in OnChain
  BY DEF ReadInv, OnChain
<1>1. /\ rpc \in [Readers -> {"idle", "verify", "fill"}]
      /\ rname \in [Readers -> Names \cup {NoName}]
      /\ rpc[g] # "idle" => rname[g][1] \in Uids
  BY DEF TypeOK, ReadingOK, Names
<1>2. ASSUME rpc[g] = "fill", rname'[g] = rname[g] PROVE tx'[rname'[g][1]] \in OnChain
  BY <1>1, <1>2, TxStep DEF ReadInv
<1>3. CASE UNCHANGED reading
  BY <1>2, <1>3 DEF reading
<1>4. CASE Restart
  BY <1>4 DEF Restart
<1>5. ASSUME NEW h \in Readers, NEW n \in Names, GetHit(h, n) \/ GetMiss(h, n)
      PROVE  tx'[rname'[g][1]] \in OnChain
  BY <1>1, <1>2, <1>5 DEF GetHit, GetMiss, Ask
<1>6. ASSUME NEW h \in Readers, GetFails(h) \/ GetFill(h)
      PROVE  tx'[rname'[g][1]] \in OnChain
  BY <1>1, <1>2, <1>6 DEF GetFails, GetFill
<1>7. ASSUME NEW h \in Readers, GetVerified(h)
      PROVE  tx'[rname'[g][1]] \in OnChain
  <2>1. CASE h = g
    BY <1>7, <2>1 DEF GetVerified, Valid, chain, OnChain
  <2>2. CASE h # g
    BY <1>1, <1>2, <1>7, <2>2 DEF GetVerified
  <2>3. QED BY <2>1, <2>2
<1>8. QED
  BY <1>3, <1>4, <1>5, <1>6, <1>7
  DEF Next, CreateStep, vars, CreateRefused, CreateStart, Submit, SubmitFails,
      Receipt, WaitFails, StoreFails, CreateDone, RevokeSubmit, RevokeMined,
      RevokeWaitFails, RevokeNoReceipt, RevokeDone, Mine, Drop, LateRevocation, Expire,
      NextHour

-----------------------------------------------------------------------------
(* Steps of the service as steps of the registry *)

\* Nothing is on the chain and nothing is shown at the start.
LEMMA InitRefines == Init => Registry!Init
  BY DEF Init, Registry!Init, OnChain

\* A step that leaves every status and the cache alone is a stutter.
LEMMA Stutter ==
    ASSUME UNCHANGED cache, \A u \in Uids : Status(u)' = Status(u)
    PROVE  UNCHANGED Registry!vars
  BY DEF Registry!vars, Status

\* A step on one transaction that stays off the chain, or goes on it as it
\* was before, changes no status.
LEMMA OffChain ==
    ASSUME TypeOK, NEW u \in Uids, NEW s \in {"pending", "dropped"},
           tx[u] \notin OnChain, tx' = [tx EXCEPT ![u] = s]
    PROVE  \A w \in Uids : Status(w)' = Status(w)
<1>1. ASSUME NEW w \in Uids PROVE Status(w)' = Status(w)
  <2>1. CASE w = u
    BY <2>1 DEF Status, OnChain, TypeOK, ChainOK
  <2>2. CASE w # u
    BY <2>2 DEF Status, OnChain, TypeOK, ChainOK
  <2>3. QED BY <2>1, <2>2
<1>2. QED BY <1>1

\* Mining a creation issues its attestation.
LEMMA MineIssues ==
    ASSUME TypeOK, NEW u \in Uids, Mine(u)
    PROVE  Registry!Issue(u)
  BY DEF Mine, memory, TypeOK, ChainOK, Registry!Issue, OnChain

\* Mining a revocation revokes it, whoever sent it.
LEMMA MinedRevocation ==
    ASSUME TypeOK, NEW u \in Uids, tx[u] = "live", tx' = [tx EXCEPT ![u] = "revoked"],
           UNCHANGED cache
    PROVE  Registry!Revoke(u)
  BY DEF TypeOK, ChainOK, Registry!Revoke, OnChain

\* What a creation or a reader caches is on the chain.
LEMMA CachingShows ==
    ASSUME NEW u \in Uids, NEW n \in Names, n[1] = u, tx[u] \in OnChain,
           UNCHANGED tx, cache' = cache \cup {n}
    PROVE  Registry!Show(u)
  BY DEF Registry!Show, OnChain

\* Evicting entries and losing the memory hide the attestations no other
\* spelling still shows, and no others.
Shown == {n[1] : n \in cache}
LEMMA EvictingHides ==
    ASSUME TypeOK, UNCHANGED tx, cache' \subseteq cache
    PROVE  \E S \in SUBSET Uids : Registry!Hide(S)
<1>1. Shown \subseteq Uids
  BY DEF Shown, TypeOK, MemoryOK, Names
<1>2. PICK T : T = Shown'
  OBVIOUS
<1>3. T \subseteq Shown
  BY <1>2 DEF Shown
<1>4. Shown \ T \in SUBSET Uids /\ Shown' = Shown \ (Shown \ T)
  BY <1>1, <1>2, <1>3
<1>5. PICK S \in SUBSET Uids : Shown' = Shown \ S
  BY <1>4
<1>6. Registry!Hide(S)
  BY <1>5 DEF Registry!Hide, Shown, OnChain
<1>7. QED BY <1>6

\* Every step of the service is a step of the registry, or a stutter.
LEMMA NextRefines ==
    TypeOK /\ CreateInv /\ ReadInv /\ [Next]_vars => [Registry!Next]_(Registry!vars)
<1> SUFFICES ASSUME TypeOK, CreateInv, ReadInv, [Next]_vars
             PROVE  [Registry!Next]_(Registry!vars)
  OBVIOUS
<1>1. CASE UNCHANGED <<tx, cache>>
  BY <1>1, Stutter DEF Status
<1>2. ASSUME NEW c \in Creates,
             \/ Submit(c)
             \/ \E accepted, retryable \in BOOLEAN : SubmitFails(c, accepted, retryable)
      PROVE  [Registry!Next]_(Registry!vars)
  <2>1. Uid(c) \in Uids /\ tx[Uid(c)] = "none" /\ UNCHANGED cache
    BY <1>2 DEF Submit, SubmitFails, CreateInv, Uid, Uids, TypeOK, CreatingOK, memory
  <2>2. CASE tx' = [tx EXCEPT ![Uid(c)] = "pending"]
    BY <2>1, <2>2, OffChain, Stutter DEF OnChain
  <2>3. CASE tx' = tx
    BY <2>1, <2>3, <1>1
  <2>4. QED BY <1>2, <2>2, <2>3 DEF Submit, SubmitFails
<1>3. ASSUME NEW c \in Creates, CreateDone(c)
      PROVE  [Registry!Next]_(Registry!vars)
  <2>1. PICK u \in Uids : u = Uid(c)
    BY DEF Uid, Uids, TypeOK, CreatingOK
  <2>2. tx[u] \in OnChain
    BY <1>3, <2>1 DEF CreateDone, CreateInv
  <2>3. PICK n \in Names : n = <<u, Canonical>>
    BY ConstantsAssumption DEF Names
  <2>4. n[1] = u /\ UNCHANGED tx /\ cache' = cache \cup {n}
    BY <1>3, <2>1, <2>3 DEF CreateDone, chain
  <2>5. Registry!Show(u)
    BY <2>2, <2>4, CachingShows
  <2>6. QED BY <2>5 DEF Registry!Next
<1>4. ASSUME NEW g \in Readers, GetFill(g)
      PROVE  [Registry!Next]_(Registry!vars)
  <2>1. PICK n \in Names : n = rname[g]
    BY <1>4 DEF GetFill, TypeOK, ReadingOK
  <2>2. PICK u \in Uids : u = n[1]
    BY DEF Names
  <2>3. tx[u] \in OnChain /\ UNCHANGED tx /\ cache' = cache \cup {n}
    BY <1>4, <2>1, <2>2 DEF GetFill, ReadInv, chain
  <2>4. Registry!Show(u)
    BY <2>2, <2>3, CachingShows
  <2>5. QED BY <2>4 DEF Registry!Next
<1>5. ASSUME NEW v \in Revokers, RevokeMined(v)
      PROVE  [Registry!Next]_(Registry!vars)
  <2>1. PICK u \in Uids : u = Revoked(v)
    BY <1>5 DEF RevokeMined, TypeOK, RemovingOK, Names, Revoked
  <2>2. Registry!Revoke(u)
    BY <1>5, <2>1, MinedRevocation DEF RevokeMined, memory
  <2>3. QED BY <2>1, <2>2 DEF Registry!Next
<1>6. ASSUME NEW v \in Revokers, RevokeDone(v)
      PROVE  [Registry!Next]_(Registry!vars)
  <2>1. cache' \subseteq cache /\ UNCHANGED tx
    BY <1>6 DEF RevokeDone, Evict, chain
  <2>2. QED BY <2>1, EvictingHides DEF Registry!Next
<1>7. ASSUME NEW u \in Uids, Mine(u) \/ Drop(u) \/ LateRevocation(u)
      PROVE  [Registry!Next]_(Registry!vars)
  <2>1. CASE Mine(u)
    BY <2>1, MineIssues DEF Registry!Next
  <2>2. CASE Drop(u)
    BY <2>2, OffChain, Stutter DEF Drop, memory, OnChain
  <2>3. CASE LateRevocation(u)
    BY <2>3, MinedRevocation DEF LateRevocation, memory, Registry!Next
  <2>4. QED BY <1>7, <2>1, <2>2, <2>3
<1>8. CASE Restart
  <2>1. cache' \subseteq cache /\ UNCHANGED tx
    BY <1>8 DEF Restart
  <2>2. QED BY <2>1, EvictingHides DEF Registry!Next
<1>9. QED
  BY <1>1, <1>2, <1>3, <1>4, <1>5, <1>6, <1>7, <1>8
  DEF Next, CreateStep, vars, chain, memory, CreateRefused, CreateStart, Receipt,
      WaitFails, StoreFails, GetHit, GetMiss, GetVerified, GetFails, RevokeSubmit,
      RevokeWaitFails, RevokeNoReceipt, Expire, NextHour

\* The service implements the registry: an attestation is issued once,
\* revoked for good, and served from memory only after it was issued.
THEOREM RegistryImplemented == Spec => ImplementsRegistry
<1>1. Spec => [](TypeOK /\ CreateInv /\ ReadInv)
  BY TypeCorrect, InitCreateInv, NextCreateInv, InitReadInv, NextReadInv, PTL DEF Spec
<1>2. Spec => Registry!Init /\ [][Registry!Next]_(Registry!vars)
  BY <1>1, InitRefines, NextRefines, PTL DEF Spec
<1>3. QED BY <1>2 DEF ImplementsRegistry, Registry!Spec

-----------------------------------------------------------------------------
(* The rate limits *)

\* Sets of creations are finite, and each has a number of members.
LEMMA InFlightFinite ==
    ASSUME NEW S \in SUBSET Creates
    PROVE  IsFiniteSet(S) /\ Cardinality(S) \in Nat
  BY ConstantsAssumption, FS_Subset, FS_CardinalityType

\* A part of a set of creations has no more members than the whole.
LEMMA FewerInFlight ==
    ASSUME NEW S \in SUBSET Creates, NEW T \in SUBSET S
    PROVE  Cardinality(T) <= Cardinality(S)
  BY InFlightFinite, FS_Subset

\* The types the rate limits rest on.
LEMMA RateTypes ==
    ASSUME TypeOK
    PROVE  /\ hour \in Hours /\ Day(hour) \in Hours
           /\ hourCount \in [Recipients -> [Hours -> Nat]]
           /\ dayCount \in [Recipients -> [Hours -> Nat]]
           /\ MaxPerHour \in Nat /\ MaxPerDay \in Nat /\ MaxInFlight \in Nat
           /\ MaxPerHour > 0 /\ MaxPerDay > 0
           /\ InFlight \subseteq Creates
           /\ \A r \in Recipients : Uncounted(r) \subseteq InFlight
           /\ \A r \in Recipients : Cardinality(Uncounted(r)) \in Nat
<1>1. InFlight \subseteq Creates /\ \A r \in Recipients : Uncounted(r) \subseteq InFlight
  BY DEF InFlight, Uncounted
<1>2. \A r \in Recipients : Cardinality(Uncounted(r)) \in Nat
  BY <1>1, InFlightFinite
<1>3. QED BY <1>1, <1>2, DayInHours, ConstantsAssumption DEF TypeOK, ChainOK, MemoryOK

\* Nothing is counted or in flight at the start.
LEMMA InitRateInv == Init => RateInv
<1> SUFFICES ASSUME Init PROVE RateInv
  OBVIOUS
<1>1. InFlight = {} /\ \A r \in Recipients : Uncounted(r) = {}
  BY DEF Init, InFlight, Uncounted
<1>2. Cardinality({}) = 0
  BY FS_EmptySet
<1>3. TypeOK
  BY InitTypeOK
<1>4. \A r \in Recipients, h \in Hours : hourCount[r][h] = 0 /\ dayCount[r][h] = 0
  BY DEF Init, Zero
<1>5. /\ hour \in Hours /\ Day(hour) \in Hours
      /\ MaxPerHour \in Nat \ {0} /\ MaxPerDay \in Nat \ {0} /\ MaxInFlight \in Nat \ {0}
  BY <1>3, RateTypes, ConstantsAssumption
<1>6. RateOvershootBounded
  BY <1>4, <1>5 DEF RateOvershootBounded
<1>7. \A r \in Recipients :
        /\ hourCount[r][hour] + Cardinality(Uncounted(r)) < MaxPerHour + MaxInFlight
        /\ dayCount[r][Day(hour)] + Cardinality(Uncounted(r)) < MaxPerDay + MaxInFlight
  BY <1>1, <1>2, <1>4, <1>5
<1>8. QED BY <1>1, <1>2, <1>4, <1>5, <1>6, <1>7 DEF RateInv

\* No count changes and no creation passes its check.
LEMMA RateKept ==
    ASSUME TypeOK, TypeOK', RateInv, InFlight' \subseteq InFlight,
           UNCHANGED <<hour, hourCount, dayCount, recipient>>
    PROVE  RateInv'
<1>1. Cardinality(InFlight') <= Cardinality(InFlight)
  BY RateTypes, FewerInFlight
<1>2. Cardinality(InFlight) \in Nat /\ Cardinality(InFlight') \in Nat
  BY RateTypes, InFlightFinite
<1>3. \A r \in Recipients : Uncounted(r)' \subseteq Uncounted(r)
  BY DEF Uncounted
<1>4. ASSUME NEW r \in Recipients
      PROVE  /\ Cardinality(Uncounted(r)') <= Cardinality(Uncounted(r))
             /\ Cardinality(Uncounted(r)') \in Nat
             /\ Cardinality(Uncounted(r)) \in Nat
  BY <1>3, RateTypes, FewerInFlight, InFlightFinite
<1>5. QED
  BY <1>1, <1>2, <1>4, RateTypes DEF RateInv, RateOvershootBounded, Day

\* A creation passes its check only below both limits.
LEMMA RateStart ==
    ASSUME TypeOK, TypeOK', RateInv, NEW c \in Creates, NEW s \in KycStatuses,
           CreateStart(c, s)
    PROVE  RateInv'
<1>1. /\ InFlight' = InFlight \cup {c} /\ c \notin InFlight
      /\ UNCHANGED <<hour, hourCount, dayCount, recipient>>
      /\ Cardinality(InFlight) < MaxInFlight
      /\ hourCount[recipient[c]][hour] < MaxPerHour
      /\ dayCount[recipient[c]][Day(hour)] < MaxPerDay
      /\ recipient[c] \in Recipients
  <2>1. InFlight' = InFlight \cup {c} /\ c \notin InFlight
    BY DEF CreateStart, InFlight, TypeOK, CreatingOK
  <2>2. recipient[c] \in Recipients
    BY DEF TypeOK, CreatingOK
  <2>3. /\ hourCount[recipient[c]][hour] < MaxPerHour
        /\ dayCount[recipient[c]][Day(hour)] < MaxPerDay
    BY <2>2, RateTypes DEF CreateStart, RateLimited
  <2>4. QED BY <2>1, <2>2, <2>3 DEF CreateStart, chain, memory
<1>2. Cardinality(InFlight) \in Nat /\ Cardinality(InFlight') = Cardinality(InFlight) + 1
  BY <1>1, RateTypes, InFlightFinite, FS_AddElement
<1>3. ASSUME NEW r \in Recipients
      PROVE  /\ hourCount[r][hour] + Cardinality(Uncounted(r)') < MaxPerHour + MaxInFlight
             /\ dayCount[r][Day(hour)] + Cardinality(Uncounted(r)') < MaxPerDay + MaxInFlight
  <2>1. CASE r = recipient[c]
    <3>1. Uncounted(r)' \subseteq InFlight'
      BY DEF Uncounted
    <3>2. InFlight' \subseteq Creates
      BY <1>1, RateTypes
    <3>3. Cardinality(Uncounted(r)') <= Cardinality(InFlight') /\ Cardinality(Uncounted(r)') \in Nat
      BY <3>1, <3>2, FewerInFlight, InFlightFinite
    <3>4. QED BY <1>1, <1>2, <2>1, <3>3, RateTypes
  <2>2. CASE r # recipient[c]
    <3>1. Uncounted(r)' = Uncounted(r)
      BY <1>1, <2>2 DEF Uncounted
    <3>2. QED BY <3>1 DEF RateInv
  <2>3. QED BY <2>1, <2>2
<1>4. QED
  BY <1>1, <1>2, <1>3, RateTypes DEF RateInv, RateOvershootBounded, Day

\* A creation that is counted stops being one that may be.
LEMMA RateDone ==
    ASSUME TypeOK, TypeOK', RateInv, NEW c \in Creates, CreateDone(c)
    PROVE  RateInv'
<1>1. /\ InFlight' = InFlight \ {c} /\ c \in InFlight
      /\ UNCHANGED <<hour, recipient>>
      /\ recipient[c] \in Recipients
  BY DEF CreateDone, InFlight, chain, TypeOK, CreatingOK
<1>2. Cardinality(InFlight) \in Nat /\ Cardinality(InFlight') = Cardinality(InFlight) - 1
  BY <1>1, RateTypes, InFlightFinite, FS_RemoveElement
<1>3. ASSUME NEW r \in Recipients, NEW h \in Hours
      PROVE  /\ hourCount'[r][h] = IF r = recipient[c] /\ h = hour
                                   THEN hourCount[r][h] + 1 ELSE hourCount[r][h]
             /\ dayCount'[r][h] = IF r = recipient[c] /\ h = Day(hour)
                                  THEN dayCount[r][h] + 1 ELSE dayCount[r][h]
  BY RateTypes DEF CreateDone
<1>4. ASSUME NEW r \in Recipients
      PROVE  /\ Cardinality(Uncounted(r)') \in Nat
             /\ Cardinality(Uncounted(r)') = IF r = recipient[c]
                                             THEN Cardinality(Uncounted(r)) - 1
                                             ELSE Cardinality(Uncounted(r))
  <2>1. CASE r = recipient[c]
    <3>1. Uncounted(r)' = Uncounted(r) \ {c} /\ c \in Uncounted(r)
      BY <1>1, <2>1 DEF Uncounted
    <3>2. Uncounted(r) \subseteq Creates /\ Uncounted(r) \ {c} \subseteq Creates
      BY RateTypes
    <3>3. IsFiniteSet(Uncounted(r)) /\ Cardinality(Uncounted(r) \ {c}) \in Nat
      BY <3>2, InFlightFinite
    <3>4. Cardinality(Uncounted(r) \ {c}) = Cardinality(Uncounted(r)) - 1
      BY <3>1, <3>3, FS_RemoveElement
    <3>5. QED BY <2>1, <3>1, <3>3, <3>4
  <2>2. CASE r # recipient[c]
    <3>1. Uncounted(r)' = Uncounted(r)
      BY <1>1, <2>2 DEF Uncounted
    <3>2. QED BY <2>2, <3>1, RateTypes
  <2>3. QED BY <2>1, <2>2
<1>5. ASSUME NEW r \in Recipients
      PROVE  /\ hourCount'[r][hour] + Cardinality(Uncounted(r)') < MaxPerHour + MaxInFlight
             /\ dayCount'[r][Day(hour)] + Cardinality(Uncounted(r)') < MaxPerDay + MaxInFlight
  BY <1>3, <1>4, RateTypes DEF RateInv
<1>6. ASSUME NEW r \in Recipients, NEW h \in Hours
      PROVE  /\ hourCount'[r][h] < MaxPerHour + MaxInFlight
             /\ dayCount'[r][h] < MaxPerDay + MaxInFlight
             /\ h > hour => hourCount'[r][h] = 0
             /\ h > Day(hour) => dayCount'[r][h] = 0
  <2>1. /\ hourCount'[r] \in [Hours -> Nat] /\ dayCount'[r] \in [Hours -> Nat]
        /\ hour \in Nat /\ Day(hour) \in Nat /\ h \in Nat
    BY RateTypes DEF TypeOK, MemoryOK, Hours
  <2>2. QED
    BY <1>3, <1>4, <1>5, <2>1, RateTypes DEF RateInv, RateOvershootBounded
<1>7. QED
  BY <1>1, <1>2, <1>5, <1>6, RateTypes DEF RateInv, RateOvershootBounded, Day

\* The clock only ever enters a later window of either kind.
LEMMA DayGrows ==
    ASSUME NEW h \in Hours, h + 1 \in Hours
    PROVE  Day(h) <= Day(h + 1)
<1> DEFINE p == Day(h)
           q == Day(h + 1)
           n == HoursPerDay
<1>1. h \in Nat /\ n \in Nat /\ n > 0
  BY ConstantsAssumption DEF Hours
<1>2. /\ p \in Int /\ h = n * p + (h % n) /\ h % n \in 0..(n - 1)
  BY <1>1 DEF Day
<1>3. /\ q \in Int /\ h + 1 = n * q + ((h + 1) % n) /\ (h + 1) % n \in 0..(n - 1)
  BY <1>1 DEF Day
<1> HIDE DEF p, q, n
<1>4. SUFFICES ASSUME q <= p - 1 PROVE FALSE
  BY <1>2, <1>3 DEF p, q
<1>5. n * q <= n * (p - 1)
  BY <1>1, <1>2, <1>3, <1>4
<1>6. n * (p - 1) = n * p - n
  BY <1>1, <1>2
<1>7. n * q \in Int /\ n * p \in Int
  BY <1>1, <1>2, <1>3
<1>8. QED BY <1>1, <1>2, <1>3, <1>5, <1>6, <1>7

\* A new window starts empty, so it can only fill up with what is in flight.
LEMMA RateNextHour ==
    ASSUME TypeOK, TypeOK', RateInv, NextHour
    PROVE  RateInv'
<1>1. /\ hour' = hour + 1 /\ hour + 1 \in Hours /\ hour \in Nat
      /\ UNCHANGED <<hourCount, dayCount, recipient>>
      /\ InFlight' = InFlight /\ \A r \in Recipients : Uncounted(r)' = Uncounted(r)
  BY DEF NextHour, memory, creating, InFlight, Uncounted, TypeOK, ChainOK, Hours
<1>2. Day(hour)' = Day(hour + 1) /\ Day(hour) <= Day(hour + 1) /\ Day(hour + 1) \in Hours
  BY <1>1, DayGrows, DayInHours, RateTypes DEF Day
<1>3. ASSUME NEW r \in Recipients
      PROVE  /\ Cardinality(Uncounted(r)) <= MaxInFlight
             /\ Cardinality(Uncounted(r)) \in Nat
  BY RateTypes, FewerInFlight, InFlightFinite DEF RateInv
<1>4. ASSUME NEW r \in Recipients
      PROVE  /\ hourCount[r][hour + 1] + Cardinality(Uncounted(r)) < MaxPerHour + MaxInFlight
             /\ dayCount[r][Day(hour + 1)] + Cardinality(Uncounted(r)) < MaxPerDay + MaxInFlight
  <2>1. hourCount[r][hour + 1] = 0
    BY <1>1, RateTypes DEF RateInv
  <2>2. CASE Day(hour + 1) = Day(hour)
    BY <1>3, <2>1, <2>2, RateTypes DEF RateInv
  <2>3. CASE Day(hour + 1) # Day(hour)
    <3>1. dayCount[r][Day(hour + 1)] = 0
      BY <1>2, <2>3, RateTypes DEF RateInv, Hours
    <3>2. QED BY <1>3, <2>1, <3>1, RateTypes
  <2>4. QED BY <2>2, <2>3
<1>5. ASSUME NEW r \in Recipients, NEW h \in Hours
      PROVE  /\ h > hour + 1 => hourCount[r][h] = 0
             /\ h > Day(hour + 1) => dayCount[r][h] = 0
  BY <1>1, <1>2, RateTypes DEF RateInv, Hours
<1>6. QED
  BY <1>1, <1>2, <1>4, <1>5, RateTypes DEF RateInv, RateOvershootBounded

\* Every step keeps RateInv.
LEMMA NextRateInv == TypeOK /\ RateInv /\ [Next]_vars => RateInv'
<1> SUFFICES ASSUME TypeOK, RateInv, [Next]_vars PROVE RateInv'
  OBVIOUS
<1>1. TypeOK'
  BY NextTypeOK
<1>2. CASE UNCHANGED <<hour, hourCount, dayCount, creating>>
  BY <1>1, <1>2, RateKept DEF creating, InFlight
<1>3. ASSUME NEW c \in Creates, NEW retryable \in BOOLEAN, RetryOrFail(c, retryable),
             c \in InFlight, UNCHANGED <<hour, memory, recipient>>
      PROVE  RateInv'
  <2>1. InFlight' \subseteq InFlight
    BY <1>3 DEF RetryOrFail, InFlight, TypeOK, CreatingOK
  <2>2. QED BY <1>1, <1>3, <2>1, RateKept DEF memory
<1>4. ASSUME NEW c \in Creates,
             \/ \E s \in KycStatuses : CreateRefused(c, s)
             \/ Submit(c) \/ Receipt(c) \/ StoreFails(c)
      PROVE  RateInv'
  <2>1. InFlight' \subseteq InFlight
    BY <1>4 DEF CreateRefused, Submit, Receipt, StoreFails, InFlight, TypeOK, CreatingOK
  <2>2. QED
    BY <1>1, <1>4, <2>1, RateKept
    DEF CreateRefused, Submit, Receipt, StoreFails, chain, memory
<1>5. ASSUME NEW c \in Creates,
             \/ \E accepted, retryable \in BOOLEAN : SubmitFails(c, accepted, retryable)
             \/ \E retryable \in BOOLEAN : WaitFails(c, retryable)
      PROVE  RateInv'
  BY <1>3, <1>5 DEF SubmitFails, WaitFails, InFlight, chain
<1>6. CASE Restart
  <2>1. InFlight' = {} /\ \A r \in Recipients : Uncounted(r)' = {}
    BY <1>6 DEF Restart, InFlight, Uncounted, TypeOK, CreatingOK
  <2>2. Cardinality({}) = 0
    BY FS_EmptySet
  <2>3. hour' = hour /\ hour \in Hours /\ Day(hour)' \in Hours
    BY <1>6, RateTypes DEF Restart, Day
  <2>4. \A r \in Recipients, h \in Hours : hourCount'[r][h] = 0 /\ dayCount'[r][h] = 0
    BY <1>6 DEF Restart, Zero
  <2>5. /\ MaxPerHour \in Nat \ {0} /\ MaxPerDay \in Nat \ {0}
        /\ MaxInFlight \in Nat \ {0}
    BY ConstantsAssumption
  <2>6. RateOvershootBounded'
    BY <2>4, <2>5 DEF RateOvershootBounded
  <2>7. \A r \in Recipients :
          /\ hourCount'[r][hour'] + Cardinality(Uncounted(r)') < MaxPerHour + MaxInFlight
          /\ dayCount'[r][Day(hour)'] + Cardinality(Uncounted(r)') < MaxPerDay + MaxInFlight
    BY <2>1, <2>2, <2>3, <2>4, <2>5
  <2>8. QED BY <2>1, <2>2, <2>4, <2>5, <2>6, <2>7 DEF RateInv
<1>7. QED
  BY <1>1, <1>2, <1>4, <1>5, <1>6, RateStart, RateDone, RateNextHour
  DEF Next, CreateStep, vars, chain, memory, GetHit, GetMiss, GetVerified, GetFails,
      GetFill, RevokeSubmit, RevokeMined, RevokeWaitFails, RevokeNoReceipt, RevokeDone,
      Mine, Drop, LateRevocation, Expire

\* However creations interleave with the clock and each other, a limit is
\* passed by fewer than may be in flight together.
THEOREM OvershootBounded == Spec => []RateOvershootBounded
<1>1. RateInv => RateOvershootBounded
  BY DEF RateInv
<1>2. QED BY <1>1, TypeCorrect, InitRateInv, NextRateInv, PTL DEF Spec
=============================================================================
