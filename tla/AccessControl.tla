---------------------------- MODULE AccessControl ----------------------------
(***************************************************************************)
(* AccessControlService.checkAccess with RateLimitService and RedisService,*)
(* for one user and one project: keys and rows of other pairs are separate.*)
(*                                                                         *)
(* A check reads and writes a request counter and a policy cache in Redis, *)
(* one command at a time; RedisService answers null when a read fails and  *)
(* false when a write does, so callers never see an error.                 *)
(***************************************************************************)
EXTENDS Naturals

CONSTANTS Calls,     \* concurrent checkAccess calls
          Limit,     \* requestLimit (50 in the code)
          MaxCount,  \* bound: the counter is not raised further
          MaxResets, \* bound: resets and expiries of the counter
    Errors,    \* whether a command of Redis or a query fails: {FALSE}, or BOOLEAN
    Blockable  \* somebody calls blockUser: the server itself never does

ASSUME ConstantsAssumption ==
    /\ Limit \in Nat \ {0} /\ MaxCount \in Nat /\ MaxCount >= Limit /\ MaxResets \in Nat
    /\ Errors \subseteq BOOLEAN /\ Blockable \in BOOLEAN

Levels == {"read", "write", "admin"}
\* What the middleware asks for: AccessLevel.ADMIN, or AccessLevel.USER,
\* which the enum does not have.
Needs == {"admin", "undefined"}
\* What a policy that was read holds as its level: "undefined" when it has no
\* field accessLevel.
Read == Levels \cup {"undefined"}
Ended == {"idle", "refused", "denied", "allowed"}

VARIABLES
    count,    \* the counter under the rate-limit key; 0 when there is none
    cached,   \* the level in the cached policy, or "none"
    row,      \* the level in the row of access_control_policies, or "none"
    spelled,  \* the column of the level is named accessLevel
    resets,
    pc, need, \* a call's place and its requiredLevel
    seen,     \* the count a call has read and not yet written
    policy,   \* the level a call has read and not yet decided on
    held,     \* history: blocked while no call was about to overwrite it
    reached,  \* history: checks counted up to the limit since the last reset or expiry
    gone      \* history: the row was deleted while no cache or call held it

redis == <<count, cached>>
table == <<row, spelled>>
calls == <<pc, need, seen, policy>>
history == <<held, reached, gone>>
vars == <<redis, table, resets, calls, history>>

Init ==
    /\ count = 0 /\ cached = "none"
    /\ row \in Levels \cup {"none"}
    /\ spelled \in BOOLEAN
    /\ resets = 0
    /\ pc = [c \in Calls |-> "idle"]
    /\ need \in [Calls -> Needs]
    /\ seen = [c \in Calls |-> 0]
    /\ policy = [c \in Calls |-> "none"]
    /\ held = FALSE /\ reached = FALSE /\ gone = FALSE

Goto(c, label) == pc' = [pc EXCEPT ![c] = label]

-----------------------------------------------------------------------------
(* checkAccess *)

\* isRateLimited; a failed read counts as zero.
Check(c, level, error) ==
    /\ pc[c] \in Ended
    /\ need' = [need EXCEPT ![c] = level]
    /\ Goto(c, IF ~error /\ count >= Limit THEN "refused" ELSE "count")
    /\ UNCHANGED <<redis, table, resets, seen, policy, history>>

\* incrementRequestCount, the read: again zero when it fails.
ReadCount(c, error) ==
    /\ pc[c] = "count"
    /\ seen' = [seen EXCEPT ![c] = IF error THEN 0 ELSE count]
    /\ held' = (held /\ ~error)
    /\ Goto(c, "bump")
    /\ UNCHANGED <<redis, table, resets, need, policy, reached, gone>>

\* incrementRequestCount, the write, with a new time to live.
Bump(c, error) ==
    /\ pc[c] = "bump"
    /\ error \/ seen[c] < MaxCount
    /\ count' = IF error THEN count ELSE seen[c] + 1
    /\ reached' = (reached \/ count' >= Limit)
    /\ seen' = [seen EXCEPT ![c] = 0]
    /\ Goto(c, "cache")
    /\ UNCHANGED <<cached, table, resets, need, policy, held, gone>>

\* The levels are strings, compared in the order of the alphabet; to compare
\* anything with undefined is false.
Order(level) == CASE level = "admin" -> 0 [] level = "read" -> 1 [] level = "write" -> 2
\* evaluatePolicy; evaluateWeb3Policy adds nothing to it.
Grants(level, required) ==
    required # "undefined" /\ level # "undefined" /\ Order(level) >= Order(required)

Decide_Level(c, level) == Goto(c, level)
Decide(c, level) == Goto(c, IF Grants(level, need[c]) THEN "allowed" ELSE "denied")

\* getPolicy: a cached policy decides.
ReadCache(c, error) ==
    /\ pc[c] = "cache"
    /\ IF error \/ cached = "none" THEN Goto(c, "db") ELSE Decide(c, cached)
    /\ UNCHANGED <<redis, table, resets, need, seen, policy, history>>

NoPolicy_FailOpen(c) == Goto(c, "allowed")
NoPolicy(c) == Goto(c, "denied")

\* The row is taken for a policy as it is.  No migration makes its table, and the
\* columns that the query names are user_id and project_id: when the level's is
\* named like these, the policy has no accessLevel.
Policy == IF spelled THEN row ELSE "undefined"

\* No row, and a database error, give no policy.
ReadRow(c, error) ==
    /\ pc[c] = "db"
    /\ IF error \/ row = "none"
       THEN NoPolicy(c) /\ UNCHANGED policy
       ELSE Goto(c, "fill") /\ policy' = [policy EXCEPT ![c] = Policy]
    /\ UNCHANGED <<redis, table, resets, need, seen, history>>

Fill(c, error) ==
    /\ pc[c] = "fill"
    /\ cached' = IF error THEN cached ELSE policy[c]
    /\ Decide(c, policy[c])
    /\ policy' = [policy EXCEPT ![c] = "none"]
    /\ UNCHANGED <<count, table, resets, need, seen, history>>

-----------------------------------------------------------------------------
(* Blocking, resets, expiry and the table *)

\* Some call will write a count below the limit.
Lowering == \E c \in Calls : pc[c] = "bump" /\ seen[c] + 1 < Limit

BlockedCount_OneLess == Limit - 1
BlockedCount == Limit

BlockUser ==
    /\ Blockable
    /\ count' = BlockedCount
    /\ held' = (held \/ ~Lowering)
    /\ UNCHANGED <<cached, table, resets, calls, reached, gone>>

\* resetLimits, or the time to live of the counter ends.
ResetCount ==
    /\ resets < MaxResets
    /\ resets' = resets + 1
    /\ count' = 0
    /\ held' = FALSE /\ reached' = FALSE
    /\ UNCHANGED <<cached, table, calls, gone>>

\* The time to live of the cached policy ends.
ExpireCache ==
    /\ cached # "none"
    /\ cached' = "none"
    /\ UNCHANGED <<count, table, resets, calls, history>>

\* An administrator writes or deletes the row; the cache is not told.
ChangeRow(level) ==
    /\ row # level
    /\ row' = level
    /\ gone' = /\ level = "none" /\ cached = "none"
               /\ \A c \in Calls : pc[c] # "fill"
    /\ UNCHANGED <<redis, spelled, resets, calls, held, reached>>

Next ==
    \/ \E c \in Calls, level \in Needs, error \in Errors : Check(c, level, error)
    \/ \E c \in Calls, error \in Errors :
          \/ ReadCount(c, error) \/ Bump(c, error)
          \/ ReadCache(c, error) \/ ReadRow(c, error) \/ Fill(c, error)
    \/ BlockUser
    \/ ResetCount
    \/ ExpireCache
    \/ \E level \in Levels \cup {"none"} : ChangeRow(level)

Spec == Init /\ [][Next]_vars

-----------------------------------------------------------------------------
(* Properties *)

TypeOK ==
    /\ count \in Nat
    /\ cached \in Read \cup {"none"} /\ row \in Levels \cup {"none"}
    /\ spelled \in BOOLEAN
    /\ resets \in 0..MaxResets
    /\ pc \in [Calls -> Ended \cup {"count", "bump", "cache", "db", "fill"}]
    /\ need \in [Calls -> Needs]
    /\ seen \in [Calls -> Nat]
    /\ policy \in [Calls -> Read \cup {"none"}]
    /\ \A c \in Calls : pc[c] = "fill" <=> policy[c] # "none"
    /\ held \in BOOLEAN /\ reached \in BOOLEAN /\ gone \in BOOLEAN

\* A block set while no check was about to overwrite it lasts until a reset,
\* the expiry, or a read of the count that failed: the checks that slipped
\* past isRateLimited before it do not undo it.
BlockStays == held => count >= Limit

\* The inductive form: nor is any call about to write a lower count.
BlockInv == held => count >= Limit /\ ~Lowering

\* Once the row is deleted and neither the cache nor a call still holds it,
\* no check grants access until a row is written again.
DeletedGrantsNothing ==
    [][gone => \A c \in Calls : pc'[c] = "allowed" => pc[c] = "allowed"]_vars

GoneInv == gone => row = "none" /\ cached = "none" /\ \A c \in Calls : pc[c] # "fill"

\* A check comes to allow only on a level that it has read, from the cache or
\* from the row, and that suffices for what it needs: no failing command grants,
\* nothing is granted to a need the enum does not have, and nothing by a policy
\* whose level was not found.
AllowedByPolicy ==
    [][\A c \in Calls : pc'[c] = "allowed" /\ pc[c] # "allowed" =>
          /\ need[c] = "admin"
          /\ \/ pc[c] = "cache" /\ cached \in Levels /\ Grants(cached, need[c])
             \/ pc[c] = "fill" /\ policy[c] \in Levels /\ Grants(policy[c], need[c])]_vars

\* src/README.md:269 ("Automatic blocking after limit exceeded"): a user whose
\* checks were counted up to the limit stays blocked until a reset or the expiry.
LimitBlocks == reached => count >= Limit
=============================================================================
