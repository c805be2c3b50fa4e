---------------------------- MODULE Attestation ----------------------------
(***************************************************************************)
(* AttestationService, its EasService and the EAS contract they talk to.   *)
(*                                                                         *)
(* A creation submits a transaction, waits for its receipt, and submits    *)
(* another one after a retryable error; each transaction that is mined is  *)
(* an attestation of its own, so the attestation of attempt k of call c is *)
(* named <<c, k>>.  The service keeps an in-memory cache and in-memory     *)
(* rate-limit counters; every await is a step at which other calls, the    *)
(* chain or a restart may come in between.  Clients write a uid with hex   *)
(* digits of either case: the contract reads them all as the same bytes,   *)
(* the cache is keyed by the string as it came.                            *)
(***************************************************************************)
EXTENDS Naturals, FiniteSets

CONSTANTS Creates,      \* calls of createAttestationFromKyc / handleKycCompletion
          Readers,      \* concurrent callers of getAttestation
          Revokers,     \* concurrent callers of revokeAttestation
          Recipients,   \* wallet addresses, each as one request spells it
          Spellings,    \* ways a client may write the hex digits of a uid
          Canonical,    \* the one the service itself writes: lower case
          MaxRetries,   \* attempts of executeWithRetry (3 in the code)
          MaxPerHour,   \* config.maxAttestationsPerHour
          MaxPerDay,    \* config.maxAttestationsPerDay
          HoursPerDay,
          LastHour,     \* bound: the clock stops at this hour
          MaxExpired,   \* bound: attestations that expire
          MaxInFlight   \* bound: creations past their rate check at one time

ASSUME ConstantsAssumption ==
    /\ IsFiniteSet(Creates)
    /\ Canonical \in Spellings
    /\ MaxRetries \in Nat \ {0}
    /\ MaxPerHour \in Nat \ {0}
    /\ MaxPerDay \in Nat \ {0}
    /\ HoursPerDay \in Nat \ {0}
    /\ LastHour \in Nat
    /\ MaxExpired \in Nat
    /\ MaxInFlight \in Nat \ {0}

\* The status of the KYC result a request brings; "pending" stands for the
\* other statuses that are not "completed".
KycStatuses == {"completed", "failed", "pending"}
Hours == 0..LastHour
Uids == Creates \X (1..MaxRetries)
Names == Uids \X Spellings      \* a uid as a request spells it
OnChain == {"live", "revoked"}
NoName == <<>>

VARIABLES
    tx,         \* tx[u]: the transaction of u and the attestation it made
    expired,    \* attestations whose expirationTime has passed
    revoking,   \* revocations still pending that no call waits for
    hour,       \* the clock, in hours
    cache,      \* attestationCache: the spelled uids it holds
    hourCount,  \* attestationCount under its hour keys
    dayCount,   \* attestationCount under its day keys
    cpc, recipient, attempt,        \* creation calls
    rpc, rname, answer,             \* getAttestation calls, their last answer
    vpc, vname,                     \* revokeAttestation calls
    unsure,     \* history: attempts whose fate the creation did not learn
    known,      \* history: what was settled about rname when the call began
    acked,      \* history: revocations reported successful, as spelled
    raced       \* history: names some other call held when they were acked

chain    == <<tx, expired, revoking, hour>>
memory   == <<cache, hourCount, dayCount>>
creating == <<cpc, recipient, attempt, unsure>>
reading  == <<rpc, rname, answer, known>>
removing == <<vpc, vname>>
history  == <<acked, raced>>
vars == <<chain, memory, creating, reading, removing, history>>

Zero == [r \in Recipients |-> [h \in Hours |-> 0]]

Init ==
    /\ tx = [u \in Uids |-> "none"]
    /\ expired = {} /\ revoking = {} /\ hour = 0
    /\ cache = {} /\ hourCount = Zero /\ dayCount = Zero
    /\ cpc = [c \in Creates |-> "idle"]
    /\ recipient \in [Creates -> Recipients]
    /\ attempt = [c \in Creates |-> 1] /\ unsure = {}
    /\ rpc = [g \in Readers |-> "idle"]
    /\ rname = [g \in Readers |-> NoName]
    /\ answer = [g \in Readers |-> "none"]
    /\ known = [g \in Readers |-> {}]
    /\ vpc = [v \in Revokers |-> "idle"]
    /\ vname = [v \in Revokers |-> NoName]
    /\ acked = {} /\ raced = {}

-----------------------------------------------------------------------------
(* Creation *)

Uid(c) == <<c, attempt[c]>>
InFlight == {c \in Creates : cpc[c] \in {"submit", "wait", "receipt"}}
Day(h) == h \div HoursPerDay

RateLimited_OffByOne(r) == \/ hourCount[r][hour] > MaxPerHour
                           \/ dayCount[r][Day(hour)] > MaxPerDay
\* checkRateLimit: the counts of the current hour and the current day.
RateLimited(r) == \/ hourCount[r][hour] >= MaxPerHour
                  \/ dayCount[r][Day(hour)] >= MaxPerDay

\* Only a completed verification is attested.
Attestable(status) == status = "completed"

\* The call is refused before anything is sent: the KYC result is not
\* completed, or checkRateLimit throws RATE_LIMIT_EXCEEDED.
CreateRefused(c, status) ==
    /\ cpc[c] = "idle"
    /\ ~Attestable(status) \/ RateLimited(recipient[c])
    /\ cpc' = [cpc EXCEPT ![c] = "failed"]
    /\ UNCHANGED <<chain, memory, recipient, attempt, unsure, reading, removing, history>>

CreateStart(c, status) ==
    /\ cpc[c] = "idle"
    /\ Attestable(status) /\ ~RateLimited(recipient[c])
    /\ Cardinality(InFlight) < MaxInFlight
    /\ cpc' = [cpc EXCEPT ![c] = "submit"]
    /\ UNCHANGED <<chain, memory, recipient, attempt, unsure, reading, removing, history>>

CanRetry_OneMore(c) == attempt[c] <= MaxRetries
CanRetry(c) == attempt[c] < MaxRetries

\* The catch branch of executeWithRetry: an error shouldRetry accepts leads,
\* after the back-off delay, to a new attempt while one is left; any other
\* error, and the last one, ends the call.
RetryOrFail_SameAttempt(c, retryable) ==
    IF retryable THEN /\ cpc' = [cpc EXCEPT ![c] = "submit"]
                      /\ UNCHANGED attempt
                 ELSE /\ cpc' = [cpc EXCEPT ![c] = "failed"]
                      /\ UNCHANGED attempt
RetryOrFail(c, retryable) ==
    IF retryable /\ CanRetry(c)
    THEN /\ cpc' = [cpc EXCEPT ![c] = "submit"]
         /\ attempt' = [attempt EXCEPT ![c] = @ + 1]
    ELSE /\ cpc' = [cpc EXCEPT ![c] = "failed"]
         /\ UNCHANGED attempt

\* eas.attest returns: the transaction is in the mempool.
Submit(c) ==
    /\ cpc[c] = "submit"
    /\ tx' = [tx EXCEPT ![Uid(c)] = "pending"]
    /\ cpc' = [cpc EXCEPT ![c] = "wait"]
    /\ UNCHANGED <<expired, revoking, hour, memory, recipient, attempt, unsure,
                   reading, removing, history>>

\* eas.attest throws, either before the node took the transaction or, when
\* only its reply was lost, after.
SubmitFails(c, accepted, retryable) ==
    /\ cpc[c] = "submit"
    /\ tx' = IF accepted THEN [tx EXCEPT ![Uid(c)] = "pending"] ELSE tx
    /\ RetryOrFail(c, retryable)
    /\ unsure' = IF accepted THEN unsure \cup {Uid(c)} ELSE unsure
    /\ UNCHANGED <<expired, revoking, hour, memory, recipient,
                   reading, removing, history>>

HasReceipt_Unconfirmed(c) == TRUE
HasReceipt(c) == tx[Uid(c)] \in OnChain

\* tx.wait() resolves with the receipt of this attempt.
Receipt(c) ==
    /\ cpc[c] = "wait"
    /\ HasReceipt(c)
    /\ cpc' = [cpc EXCEPT ![c] = "receipt"]
    /\ UNCHANGED <<chain, memory, recipient, attempt, unsure, reading, removing, history>>

\* tx.wait() throws: a timeout, a network error, a dropped transaction.  The
\* transaction itself may still be pending, or be mined already.
WaitFails(c, retryable) ==
    /\ cpc[c] = "wait"
    /\ RetryOrFail(c, retryable)
    /\ unsure' = unsure \cup {Uid(c)}
    /\ UNCHANGED <<chain, memory, recipient, reading, removing, history>>

\* What fails after the receipt is retried like what failed before it.
StoreFails_Retried(c) ==
    /\ cpc[c] = "receipt"
    /\ RetryOrFail(c, TRUE)
    /\ UNCHANGED <<chain, memory, recipient, unsure, reading, removing, history>>
\* After the receipt: extractAttestationUid, getBlock or storeAttestation
\* (the Arweave upload) throws, and the call fails.
StoreFails(c) ==
    /\ cpc[c] = "receipt"
    /\ cpc' = [cpc EXCEPT ![c] = "failed"]
    /\ UNCHANGED <<chain, memory, recipient, attempt, unsure, reading, removing, history>>

\* createAttestation returns: updateRateLimit counts it under the hour and
\* the day of now, and createAttestationFromKyc caches it under the uid the
\* receipt's event was decoded to.
CreateDone(c) ==
    /\ cpc[c] = "receipt"
    /\ cpc' = [cpc EXCEPT ![c] = "done"]
    /\ hourCount' = [hourCount EXCEPT ![recipient[c]][hour] = @ + 1]
    /\ dayCount' = [dayCount EXCEPT ![recipient[c]][Day(hour)] = @ + 1]
    /\ cache' = cache \cup {<<Uid(c), Canonical>>}
    /\ UNCHANGED <<chain, recipient, attempt, unsure, reading, removing, history>>

-----------------------------------------------------------------------------
(* getAttestation *)

Valid_RevokedToo(u) == tx[u] \in OnChain /\ u \notin expired
\* verifyOnChain: the attestation exists, is not revoked and has not expired.
Valid(u) == tx[u] = "live" /\ u \notin expired

\* What a caller that begins now may rely on: the revocation was reported
\* to its author, however that one spelled the uid, or the expiry has passed.
Settled(u) == {f \in {"revoked", "expired"} :
                  \/ f = "revoked" /\ \E s \in Spellings : <<u, s>> \in acked
                  \/ f = "expired" /\ u \in expired}

\* A call that asks for the uid spelled n.
Ask(g, n, found) ==
    /\ rpc[g] = "idle"
    /\ rname' = [rname EXCEPT ![g] = n]
    /\ known' = [known EXCEPT ![g] = Settled(n[1])]
    /\ answer' = [answer EXCEPT ![g] = IF found THEN "attestation" ELSE "none"]

\* Served from attestationCache under this spelling, without any check.
GetHit(g, n) ==
    /\ n \in cache
    /\ Ask(g, n, TRUE)
    /\ UNCHANGED <<chain, memory, creating, rpc, removing, history>>

\* Not cached under this spelling: easService.verifyAttestation is called.
GetMiss(g, n) ==
    /\ n \notin cache
    /\ Ask(g, n, FALSE)
    /\ rpc' = [rpc EXCEPT ![g] = "verify"]
    /\ UNCHANGED <<chain, memory, creating, removing, history>>

\* eas.getAttestation answers with the state of the chain at this moment.
GetVerified(g) ==
    /\ rpc[g] = "verify"
    /\ Valid(rname[g][1])
    /\ rpc' = [rpc EXCEPT ![g] = "fill"]
    /\ UNCHANGED <<chain, memory, creating, rname, answer, known, removing, history>>

\* Not valid, or an RPC error here or in the calls that follow the read.
GetFails(g) ==
    /\ \/ rpc[g] = "verify" \/ rpc[g] = "fill"
    /\ rpc' = [rpc EXCEPT ![g] = "idle"]
    /\ answer' = [answer EXCEPT ![g] = "error"]
    /\ UNCHANGED <<chain, memory, creating, rname, known, removing, history>>

\* The verified attestation is cached, as it was asked for, and returned.
GetFill(g) ==
    /\ rpc[g] = "fill"
    /\ cache' = cache \cup {rname[g]}
    /\ rpc' = [rpc EXCEPT ![g] = "idle"]
    /\ answer' = [answer EXCEPT ![g] = "attestation"]
    /\ UNCHANGED <<chain, hourCount, dayCount, creating, rname, known, removing, history>>

-----------------------------------------------------------------------------
(* revokeAttestation *)

\* eas.revoke passes gas estimation only for a live attestation; in every
\* other case it throws and nothing changes.
RevokeSubmit(v, n) ==
    /\ vpc[v] = "idle"
    /\ tx[n[1]] = "live"
    /\ vname' = [vname EXCEPT ![v] = n]
    /\ vpc' = [vpc EXCEPT ![v] = "wait"]
    /\ UNCHANGED <<chain, memory, creating, reading, history>>

Revoked(v) == vname[v][1]

\* The revocation is mined and wait() resolves.
RevokeMined(v) ==
    /\ vpc[v] = "wait"
    /\ tx[Revoked(v)] = "live"
    /\ tx' = [tx EXCEPT ![Revoked(v)] = "revoked"]
    /\ vpc' = [vpc EXCEPT ![v] = "receipt"]
    /\ UNCHANGED <<expired, revoking, hour, memory, creating, reading, vname, history>>

\* wait() throws: the transaction was reverted because another revocation
\* came first, or contact was lost and it stays pending.
RevokeWaitFails(v, lost) ==
    /\ vpc[v] = "wait"
    /\ lost \/ tx[Revoked(v)] # "live"
    /\ revoking' = IF lost THEN revoking \cup {Revoked(v)} ELSE revoking
    /\ vpc' = [vpc EXCEPT ![v] = "idle"]
    /\ UNCHANGED <<tx, expired, hour, memory, creating, reading, vname, history>>

\* getTransactionReceipt finds nothing: REVOCATION_FAILED, cache untouched.
RevokeNoReceipt(v) ==
    /\ vpc[v] = "receipt"
    /\ vpc' = [vpc EXCEPT ![v] = "idle"]
    /\ UNCHANGED <<chain, memory, creating, reading, vname, history>>

\* Some other call will still put the name n into the cache.
Held(n) == \/ \E g \in Readers : rpc[g] = "fill" /\ rname[g] = n
           \/ \E c \in InFlight : /\ cpc[c] \in {"wait", "receipt"}
                                  /\ n = <<Uid(c), Canonical>>

Evict_Kept(n) == cache
\* Only the entry under the spelling of the revocation goes.
Evict(n) == cache \ {n}

\* The receipt is there: the cache entry is deleted, success is reported.
RevokeDone(v) ==
    /\ vpc[v] = "receipt"
    /\ vpc' = [vpc EXCEPT ![v] = "idle"]
    /\ cache' = Evict(vname[v])
    /\ acked' = acked \cup {vname[v]}
    /\ raced' = raced \cup {n \in Names : n[1] = Revoked(v) /\ Held(n)}
    /\ UNCHANGED <<chain, hourCount, dayCount, creating, reading, vname>>

-----------------------------------------------------------------------------
(* The chain, the clock and the process *)

Mine(u) ==
    /\ tx[u] = "pending"
    /\ tx' = [tx EXCEPT ![u] = "live"]
    /\ UNCHANGED <<expired, revoking, hour, memory, creating, reading, removing, history>>

\* A pending transaction is dropped from the mempool, or reverted.
Drop(u) ==
    /\ tx[u] = "pending"
    /\ tx' = [tx EXCEPT ![u] = "dropped"]
    /\ UNCHANGED <<expired, revoking, hour, memory, creating, reading, removing, history>>

\* A revocation nobody waits for is mined.
LateRevocation(u) ==
    /\ u \in revoking
    /\ tx[u] = "live"
    /\ tx' = [tx EXCEPT ![u] = "revoked"]
    /\ revoking' = revoking \ {u}
    /\ UNCHANGED <<expired, hour, memory, creating, reading, removing, history>>

Expire(u) ==
    /\ tx[u] \in OnChain
    /\ u \notin expired
    /\ Cardinality(expired) < MaxExpired
    /\ expired' = expired \cup {u}
    /\ UNCHANGED <<tx, revoking, hour, memory, creating, reading, removing, history>>

NextHour ==
    /\ hour < LastHour
    /\ hour' = hour + 1
    /\ UNCHANGED <<tx, expired, revoking, memory, creating, reading, removing, history>>

\* The process stops and starts again: its memory and its calls are gone,
\* what they sent to the chain is not.
Restart ==
    /\ cache' = {} /\ hourCount' = Zero /\ dayCount' = Zero
    /\ cpc' = [c \in Creates |-> IF c \in InFlight THEN "lost" ELSE cpc[c]]
    /\ rpc' = [g \in Readers |-> "idle"]
    /\ answer' = [g \in Readers |-> "none"]
    /\ vpc' = [v \in Revokers |-> "idle"]
    /\ revoking' = revoking \cup {Revoked(v) : v \in {w \in Revokers : vpc[w] = "wait"}}
    /\ UNCHANGED <<tx, expired, hour, recipient, attempt, unsure, rname, known, vname, history>>

\* The steps of a creation the process takes by itself, once its
\* transaction is in a block or the node has answered.
CreateStep(c) ==
    \/ Submit(c)
    \/ \E accepted, retryable \in BOOLEAN : SubmitFails(c, accepted, retryable)
    \/ Receipt(c) \/ StoreFails(c) \/ CreateDone(c)

Next ==
    \/ \E c \in Creates, s \in KycStatuses : CreateRefused(c, s) \/ CreateStart(c, s)
    \/ \E c \in Creates : CreateStep(c)
    \/ \E c \in Creates, retryable \in BOOLEAN : WaitFails(c, retryable)
    \/ \E g \in Readers, n \in Names : GetHit(g, n) \/ GetMiss(g, n)
    \/ \E g \in Readers : GetVerified(g) \/ GetFails(g) \/ GetFill(g)
    \/ \E v \in Revokers, n \in Names : RevokeSubmit(v, n)
    \/ \E v \in Revokers, lost \in BOOLEAN : RevokeWaitFails(v, lost)
    \/ \E v \in Revokers : RevokeMined(v) \/ RevokeNoReceipt(v) \/ RevokeDone(v)
    \/ \E u \in Uids : Mine(u) \/ Drop(u) \/ LateRevocation(u) \/ Expire(u)
    \/ NextHour
    \/ Restart

Spec == Init /\ [][Next]_vars

\* The event loop runs every call whose awaited promise has settled, and the
\* network mines a transaction that it keeps.
Fairness == /\ \A c \in Creates : WF_vars(CreateStep(c))
            /\ \A u \in Uids : WF_vars(Mine(u))
FairSpec == Spec /\ Fairness
-----------------------------------------------------------------------------
(* Properties *)

ChainOK ==
    /\ tx \in [Uids -> {"none", "pending", "live", "revoked", "dropped"}]
    /\ expired \subseteq Uids /\ revoking \subseteq Uids /\ hour \in Hours
MemoryOK ==
    /\ cache \subseteq Names
    /\ hourCount \in [Recipients -> [Hours -> Nat]]
    /\ dayCount \in [Recipients -> [Hours -> Nat]]
CreatingOK ==
    /\ cpc \in [Creates -> {"idle", "submit", "wait", "receipt", "done", "failed", "lost"}]
    /\ recipient \in [Creates -> Recipients]
    /\ attempt \in [Creates -> 1..MaxRetries]
    /\ unsure \subseteq Uids
ReadingOK ==
    /\ rpc \in [Readers -> {"idle", "verify", "fill"}]
    /\ rname \in [Readers -> Names \cup {NoName}]
    /\ answer \in [Readers -> {"none", "attestation", "error"}]
    /\ known \in [Readers -> SUBSET {"revoked", "expired"}]
    /\ \A g \in Readers : rpc[g] # "idle" => rname[g] \in Names
RemovingOK ==
    /\ vpc \in [Revokers -> {"idle", "wait", "receipt"}]
    /\ vname \in [Revokers -> Names \cup {NoName}]
    /\ \A v \in Revokers : vpc[v] # "idle" => vname[v] \in Names
HistoryOK == acked \subseteq Names /\ raced \subseteq Names

TypeOK == ChainOK /\ MemoryOK /\ CreatingOK /\ ReadingOK /\ RemovingOK /\ HistoryOK

\* A creation's call leaves an attestation on the chain besides that of its
\* last attempt only where it could not tell what became of the earlier one:
\* the reply to its transaction was lost, or the wait for it failed.  What
\* goes wrong after the receipt is never answered by another transaction.
DoubledOnlyIfUnsure ==
    \A u \in Uids : tx[u] \in OnChain /\ u # Uid(u[1]) => u \in unsure

\* A creation that reported success names an attestation that is on the
\* chain: the one of its last attempt, not of an earlier, abandoned one.
SuccessIsOnChain == \A c \in Creates : cpc[c] = "done" => tx[Uid(c)] \in OnChain

\* getAttestation never caches an attestation whose revocation had been
\* reported, or whose expiry had passed, before the call began.
NoStaleFill == \A g \in Readers : rpc[g] = "fill" => known[g] = {}

\* Once a revocation is reported, the cache holds the attestation under the
\* spelling of the revocation only if another call had it in hand at that
\* very moment.  (Entries under other spellings are GetHonoursRevocation's.)
StaleOnlyIfRaced == acked \cap cache \subseteq raced

\* checkRateLimit and updateRateLimit are apart by several awaits, yet the
\* limit is passed by fewer than the creations in flight together.
RateOvershootBounded ==
    \A r \in Recipients, h \in Hours :
        /\ hourCount[r][h] < MaxPerHour + MaxInFlight
        /\ dayCount[r][h] < MaxPerDay + MaxInFlight

(* Inductive invariants: what the properties above rest on *)

\* A creation sends its attempts one after the other, gives up on one only
\* when it is unsure of it or sent nothing, and holds a receipt only of a
\* mined one.
CreateInv ==
    /\ SuccessIsOnChain
    /\ \A c \in Creates :
        /\ cpc[c] = "receipt" => tx[Uid(c)] \in OnChain
        /\ cpc[c] \in {"idle", "submit"} => tx[Uid(c)] = "none"
        /\ \A k \in 1..MaxRetries :
            /\ k > attempt[c] => tx[<<c, k>>] = "none"
            /\ k < attempt[c] => tx[<<c, k>>] = "none" \/ <<c, k>> \in unsure

\* A reported revocation is on the chain, so whoever still carries the
\* attestation took it up before, and what a call knew stays true.
CacheInv ==
    /\ StaleOnlyIfRaced
    /\ NoStaleFill
    /\ \A n \in acked : tx[n[1]] = "revoked"
    /\ \A v \in Revokers : vpc[v] = "receipt" => tx[Revoked(v)] = "revoked"
    /\ \A c \in Creates :
        cpc[c] \in {"wait", "receipt"} /\ <<Uid(c), Canonical>> \in acked
            => <<Uid(c), Canonical>> \in raced
    /\ \A g \in Readers :
        /\ rpc[g] = "fill" /\ rname[g] \in acked => rname[g] \in raced
        /\ "revoked" \in known[g] => \E s \in Spellings : <<rname[g][1], s>> \in acked
        /\ "expired" \in known[g] => rname[g][1] \in expired

\* The creations that may still be counted for a recipient.
Uncounted(r) == {c \in InFlight : recipient[c] = r}

\* In the current hour and day, what is counted and what may still be
\* counted stay together within the bound; later windows are empty.
RateInv ==
    /\ RateOvershootBounded
    /\ Cardinality(InFlight) <= MaxInFlight
    /\ \A r \in Recipients :
        /\ hourCount[r][hour] + Cardinality(Uncounted(r)) < MaxPerHour + MaxInFlight
        /\ dayCount[r][Day(hour)] + Cardinality(Uncounted(r)) < MaxPerDay + MaxInFlight
    /\ \A r \in Recipients, h \in Hours :
        /\ h > hour => hourCount[r][h] = 0
        /\ h > Day(hour) => dayCount[r][h] = 0

\* The attestations clients see, as AttestationRegistry promises them.
Registry == INSTANCE AttestationRegistry WITH
    status <- [u \in Uids |-> IF tx[u] \in OnChain THEN tx[u] ELSE "absent"],
    visible <- {n[1] : n \in cache}
ImplementsRegistry == Registry!Spec

\* Every creation is answered, unless the network silently dropped the
\* transaction it waits for or the process was restarted.
CreateAnswered ==
    \A c \in Creates :
        c \in InFlight ~> \/ cpc[c] \in {"done", "failed", "lost"}
                         \/ tx[Uid(c)] = "dropped"

(* What the documentation says and the code does not do *)

\* docs/resources/errors.mdx:196: a revoked attestation is answered with
\* ATTESTATION_REVOKED, so a call begun after the revocation was reported
\* is not answered with the attestation.  The races of StaleOnlyIfRaced are
\* left aside: no other call need have held the attestation.
GetHonoursRevocation ==
    \A g \in Readers :
        answer[g] = "attestation" /\ "revoked" \in known[g] => rname[g] \in raced

\* docs/resources/errors.mdx:197: an expired one with ATTESTATION_EXPIRED.
GetHonoursExpiry ==
    \A g \in Readers : answer[g] = "attestation" => "expired" \notin known[g]

\* docs/resources/errors.mdx:195: after ATTESTATION_CREATION_FAILED, "Failed
\* to create attestation", there is none.
FailureLeavesNothing ==
    \A u \in Uids : cpc[u[1]] = "failed" => tx[u] \notin OnChain
=============================================================================
