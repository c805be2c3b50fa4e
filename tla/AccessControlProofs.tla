------------------------- MODULE AccessControlProofs -------------------------
(***************************************************************************)
(* Proofs about AccessControl, for any number of concurrent checks and     *)
(* every limit.                                                            *)
(***************************************************************************)
EXTENDS AccessControl, TLAPS

\* The initial state has the types.
LEMMA InitTypeOK == Init => TypeOK
<1> SUFFICES ASSUME Init PROVE TypeOK
  OBVIOUS
<1>1. count \in Nat /\ resets \in 0..MaxResets
  BY ConstantsAssumption DEF Init
<1>2. /\ cached \in Read \cup {"none"} /\ row \in Levels \cup {"none"} /\ spelled \in BOOLEAN
      /\ policy \in [Calls -> Read \cup {"none"}] /\ need \in [Calls -> Needs]
  BY DEF Init
<1>3. /\ pc \in [Calls -> Ended \cup {"count", "bump", "cache", "db", "fill"}]
      /\ \A c \in Calls : pc[c] = "fill" <=> policy[c] # "none"
  BY DEF Init, Ended
<1>4. seen \in [Calls -> Nat]
  BY DEF Init
<1>5. held \in BOOLEAN /\ reached \in BOOLEAN /\ gone \in BOOLEAN
  BY Zenon DEF Init
<1>6. QED BY <1>1, <1>2, <1>3, <1>4, <1>5 DEF TypeOK

\* Every step keeps the types.
LEMMA NextTypeOK == TypeOK /\ [Next]_vars => TypeOK'
<1> SUFFICES ASSUME TypeOK, [Next]_vars PROVE TypeOK'
  OBVIOUS
<1>1. CASE UNCHANGED vars
  BY <1>1 DEF TypeOK, vars, redis, table, calls, history
<1>2. ASSUME NEW c \in Calls, NEW l \in Needs, NEW e \in Errors, Check(c, l, e)
      PROVE  TypeOK'
  BY <1>2 DEF Check, Goto, TypeOK, Ended, redis, table, history
<1>3. ASSUME NEW c \in Calls, NEW e \in Errors, ReadCount(c, e) PROVE TypeOK'
  BY <1>3 DEF ReadCount, Goto, TypeOK, redis, table
<1>4. ASSUME NEW c \in Calls, NEW e \in Errors, Bump(c, e) PROVE TypeOK'
  BY <1>4 DEF Bump, Goto, TypeOK, table
<1>5. ASSUME NEW c \in Calls, NEW e \in Errors, ReadCache(c, e) PROVE TypeOK'
  BY <1>5 DEF ReadCache, Decide, Goto, TypeOK, Ended, redis, table, history
<1>6. ASSUME NEW c \in Calls, NEW e \in Errors, ReadRow(c, e) PROVE TypeOK'
  BY <1>6 DEF ReadRow, Policy, Read, NoPolicy, Goto, TypeOK, Ended, redis, table, history
<1>7. ASSUME NEW c \in Calls, NEW e \in Errors, Fill(c, e) PROVE TypeOK'
  BY <1>7 DEF Fill, Decide, Goto, TypeOK, Ended, table, history
<1>8. CASE BlockUser \/ ResetCount \/ ExpireCache
  <2>1. count' \in Nat
    BY <1>8, ConstantsAssumption DEF BlockUser, BlockedCount, ResetCount, ExpireCache, TypeOK
  <2>2. held' \in BOOLEAN /\ reached' \in BOOLEAN
    BY <1>8, Zenon DEF BlockUser, ResetCount, ExpireCache, TypeOK, history
  <2>3. UNCHANGED <<table, calls, gone>> /\ cached' \in {cached, "none"}
    BY <1>8 DEF BlockUser, ResetCount, ExpireCache, history
  <2>4. resets' \in 0..MaxResets
    BY <1>8, ConstantsAssumption DEF BlockUser, ResetCount, ExpireCache, TypeOK
  <2>5. QED BY <2>1, <2>2, <2>3, <2>4 DEF TypeOK, calls, table
<1>9. ASSUME NEW l \in Levels \cup {"none"}, ChangeRow(l) PROVE TypeOK'
  BY <1>9 DEF ChangeRow, TypeOK, redis, calls
<1>10. QED
  BY <1>1, <1>2, <1>3, <1>4, <1>5, <1>6, <1>7, <1>8, <1>9 DEF Next

\* The state keeps its types in every behaviour.
THEOREM TypeCorrect == Spec => []TypeOK
<1>1. QED BY InitTypeOK, NextTypeOK, PTL DEF Spec

-----------------------------------------------------------------------------
(* A block that no check is about to overwrite lasts *)

\* No block is in place at the start.
LEMMA InitBlock == Init => BlockInv
  BY DEF Init, BlockInv

\* Every step keeps what a block rests on.
LEMMA NextBlock == TypeOK /\ BlockInv /\ [Next]_vars => BlockInv'
<1> SUFFICES ASSUME TypeOK, BlockInv, [Next]_vars, held'
             PROVE  count' >= Limit /\ ~Lowering'
  BY DEF BlockInv
<1> USE ConstantsAssumption
<1>1. CASE UNCHANGED <<count, calls, held>>
  BY <1>1 DEF BlockInv, Lowering, calls
<1>2. ASSUME NEW c \in Calls, NEW l \in Needs, NEW e \in Errors, Check(c, l, e)
      PROVE  count' >= Limit /\ ~Lowering'
  BY <1>2 DEF Check, Goto, BlockInv, Lowering, TypeOK, redis, table, history
<1>3. ASSUME NEW c \in Calls, NEW e \in Errors, ReadCount(c, e)
      PROVE  count' >= Limit /\ ~Lowering'
  <2>1. held /\ ~e /\ count >= Limit /\ ~Lowering /\ UNCHANGED count
    BY <1>3 DEF ReadCount, BlockInv, redis
  <2>2. seen'[c] = count
    BY <1>3, <2>1 DEF ReadCount, TypeOK
  <2>3. \A d \in Calls \ {c} : pc'[d] = pc[d] /\ seen'[d] = seen[d]
    BY <1>3 DEF ReadCount, Goto, TypeOK
  <2>4. ~(count + 1 < Limit)
    BY <2>1 DEF TypeOK
  <2>5. QED BY <2>1, <2>2, <2>3, <2>4 DEF Lowering
<1>4. ASSUME NEW c \in Calls, NEW e \in Errors, Bump(c, e)
      PROVE  count' >= Limit /\ ~Lowering'
  <2>1. held /\ count >= Limit /\ ~Lowering /\ pc[c] = "bump"
    BY <1>4 DEF Bump, BlockInv
  <2>2. seen[c] + 1 >= Limit
    BY <2>1 DEF Lowering, TypeOK
  <2>3. count' >= Limit
    BY <1>4, <2>1, <2>2 DEF Bump
  <2>4. pc'[c] # "bump" /\ \A d \in Calls \ {c} : pc'[d] = pc[d] /\ seen'[d] = seen[d]
    BY <1>4 DEF Bump, Goto, TypeOK
  <2>5. QED BY <2>1, <2>3, <2>4 DEF Lowering
<1>5. ASSUME NEW c \in Calls, NEW e \in Errors,
             ReadCache(c, e) \/ ReadRow(c, e) \/ Fill(c, e)
      PROVE  count' >= Limit /\ ~Lowering'
  <2>1. UNCHANGED <<count, seen, held>>
    BY <1>5 DEF ReadCache, ReadRow, Fill, redis, table, history
  <2>2. \A d \in Calls : pc'[d] = "bump" => pc[d] = "bump"
    BY <1>5 DEF ReadCache, ReadRow, Fill, NoPolicy, Decide, Goto, TypeOK
  <2>3. QED BY <2>1, <2>2 DEF BlockInv, Lowering
<1>6. CASE BlockUser
  <2>1. held \/ ~Lowering
    BY <1>6, Zenon DEF BlockUser
  <2>2. ~Lowering
    BY <2>1 DEF BlockInv
  <2>3. UNCHANGED <<pc, seen>> /\ count' = Limit
    BY <1>6 DEF BlockUser, BlockedCount, calls
  <2>4. QED BY <2>2, <2>3 DEF Lowering
<1>7. CASE ResetCount
  BY <1>7 DEF ResetCount
<1>8. CASE ExpireCache
  BY <1>1, <1>8 DEF ExpireCache, history
<1>9. ASSUME NEW l \in Levels \cup {"none"}, ChangeRow(l)
      PROVE  count' >= Limit /\ ~Lowering'
  BY <1>1, <1>9 DEF ChangeRow, redis
<1>10. QED
  BY <1>1, <1>2, <1>3, <1>4, <1>5, <1>6, <1>7, <1>8, <1>9 DEF Next, vars, redis, table, history

\* blockUser holds against every check that had read the counter before it
\* and will not write it back lower, and against all that come after.
THEOREM BlocksLast == Spec => []BlockStays
<1>1. BlockInv => BlockStays
  BY DEF BlockInv, BlockStays
<1>2. QED BY <1>1, TypeCorrect, InitBlock, NextBlock, PTL DEF Spec

-----------------------------------------------------------------------------
(* A deleted policy grants nothing *)

\* No policy is deleted at the start.
LEMMA InitGone == Init => GoneInv
  BY DEF Init, GoneInv

\* Every step keeps what a deleted policy may still be found in.
LEMMA NextGone == TypeOK /\ GoneInv /\ [Next]_vars => GoneInv'
<1> SUFFICES ASSUME TypeOK, GoneInv, [Next]_vars, gone' PROVE GoneInv'
  BY DEF GoneInv
<1>1. CASE UNCHANGED <<gone, cached, row, pc>>
  BY <1>1 DEF GoneInv
<1>2. ASSUME NEW c \in Calls, NEW l \in Needs, NEW e \in Errors, Check(c, l, e)
      PROVE  GoneInv'
  BY <1>2 DEF Check, Goto, GoneInv, TypeOK, redis, table, history
<1>3. ASSUME NEW c \in Calls, NEW e \in Errors, ReadCount(c, e) \/ Bump(c, e)
      PROVE  GoneInv'
  BY <1>3 DEF ReadCount, Bump, Goto, GoneInv, TypeOK, redis, table
<1>4. ASSUME NEW c \in Calls, NEW e \in Errors, ReadCache(c, e) \/ ReadRow(c, e)
      PROVE  GoneInv'
  BY <1>4 DEF ReadCache, ReadRow, NoPolicy, Decide, Goto, GoneInv, TypeOK, redis, table, history
<1>5. ASSUME NEW c \in Calls, NEW e \in Errors, Fill(c, e) PROVE GoneInv'
  BY <1>5 DEF Fill, GoneInv, history
<1>6. CASE BlockUser \/ ResetCount \/ ExpireCache
  BY <1>6 DEF BlockUser, ResetCount, ExpireCache, GoneInv, table, calls, history
<1>7. ASSUME NEW l \in Levels \cup {"none"}, ChangeRow(l) PROVE GoneInv'
  BY <1>7 DEF ChangeRow, GoneInv, redis, calls
<1>8. QED
  BY <1>1, <1>2, <1>3, <1>4, <1>5, <1>6, <1>7 DEF Next, vars, redis, table, calls, history

\* From the deletion of a row that neither the cache nor a call still holds,
\* until a row is written again, no check of access succeeds.
THEOREM DeletedDenies == Spec => DeletedGrantsNothing
<1>1. TypeOK /\ GoneInv /\ [Next]_vars
        => (gone => \A c \in Calls : pc'[c] = "allowed" => pc[c] = "allowed")
  <2> SUFFICES ASSUME TypeOK, GoneInv, [Next]_vars, gone, NEW c \in Calls, pc'[c] = "allowed"
               PROVE  pc[c] = "allowed"
    OBVIOUS
  <2>1. cached = "none" /\ row = "none" /\ \A d \in Calls : pc[d] # "fill"
    BY DEF GoneInv
  <2>2. ASSUME NEW d \in Calls, NEW l \in Needs, NEW e \in Errors, Check(d, l, e)
        PROVE  pc[c] = "allowed"
    BY <2>2 DEF Check, Goto, TypeOK
  <2>3. ASSUME NEW d \in Calls, NEW e \in Errors, ReadCount(d, e) \/ Bump(d, e)
        PROVE  pc[c] = "allowed"
    BY <2>3 DEF ReadCount, Bump, Goto, TypeOK
  <2>4. ASSUME NEW d \in Calls, NEW e \in Errors, ReadCache(d, e) \/ ReadRow(d, e)
        PROVE  pc[c] = "allowed"
    BY <2>1, <2>4 DEF ReadCache, ReadRow, NoPolicy, Goto, TypeOK
  <2>5. ASSUME NEW d \in Calls, NEW e \in Errors, Fill(d, e) PROVE FALSE
    BY <2>1, <2>5 DEF Fill
  <2>6. CASE UNCHANGED calls
    BY <2>6 DEF calls
  <2>7. QED
    BY <2>2, <2>3, <2>4, <2>5, <2>6
    DEF Next, vars, BlockUser, ResetCount, ExpireCache, ChangeRow
<1>2. QED BY <1>1, TypeCorrect, InitGone, NextGone, PTL DEF Spec, DeletedGrantsNothing

-----------------------------------------------------------------------------
(* Failures do not grant *)

\* AccessControlService: a check that allows has read a level that suffices.
THEOREM OnlyPoliciesGrant == Spec => AllowedByPolicy
<1>1. ASSUME TypeOK, [Next]_vars, NEW c \in Calls, pc'[c] = "allowed", pc[c] # "allowed"
      PROVE  /\ need[c] = "admin"
             /\ \/ pc[c] = "cache" /\ cached \in Levels /\ Grants(cached, need[c])
                \/ pc[c] = "fill" /\ policy[c] \in Levels /\ Grants(policy[c], need[c])
  <2>1. need[c] \in Needs
    BY <1>1 DEF TypeOK
  <2>2. \A level \in Read \cup {"none"} :
           Grants(level, need[c]) => need[c] = "admin" /\ level # "undefined"
    BY <2>1 DEF Grants, Needs
  <2>3. ASSUME NEW d \in Calls, NEW error \in Errors, ReadCache(d, error)
        PROVE  c = d /\ need[c] = "admin" /\ pc[c] = "cache" /\ cached \in Levels /\ Grants(cached, need[c])
    BY <1>1, <2>2, <2>3 DEF ReadCache, Decide, Goto, TypeOK, Read
  <2>4. ASSUME NEW d \in Calls, NEW error \in Errors, Fill(d, error)
        PROVE  c = d /\ need[c] = "admin" /\ pc[c] = "fill" /\ policy[c] \in Levels /\ Grants(policy[c], need[c])
    BY <1>1, <2>2, <2>4 DEF Fill, Decide, Goto, TypeOK, Read
  <2>5. ASSUME NEW d \in Calls, NEW error \in Errors,
               \/ \E level \in Needs : Check(d, level, error)
               \/ ReadCount(d, error) \/ Bump(d, error) \/ ReadRow(d, error)
        PROVE  FALSE
    BY <1>1, <2>5 DEF Check, ReadCount, Bump, ReadRow, NoPolicy, Goto, TypeOK
  <2>6. CASE \/ BlockUser \/ ResetCount \/ ExpireCache \/ UNCHANGED vars
             \/ \E level \in Levels \cup {"none"} : ChangeRow(level)
    BY <1>1, <2>6 DEF BlockUser, ResetCount, ExpireCache, ChangeRow, calls, vars
  <2>7. QED BY <1>1, <2>3, <2>4, <2>5, <2>6 DEF Next
<1>2. TypeOK /\ [Next]_vars =>
        \A c \in Calls : pc'[c] = "allowed" /\ pc[c] # "allowed" =>
          /\ need[c] = "admin"
          /\ \/ pc[c] = "cache" /\ cached \in Levels /\ Grants(cached, need[c])
             \/ pc[c] = "fill" /\ policy[c] \in Levels /\ Grants(policy[c], need[c])
  BY <1>1
<1>3. QED BY <1>2, TypeCorrect, PTL DEF Spec, AllowedByPolicy
=============================================================================
