------------------------------ MODULE Arweave ------------------------------
(***************************************************************************)
(* ArweaveService: storing data on the Arweave network and reading it back *)
(* through gateways and a cache.                                           *)
(*                                                                         *)
(* A call that stores is one upload, or a first upload followed by those   *)
(* of its documents side by side.  The transaction of a call's n-th upload *)
(* is <<call, n>>.  What is stored is kept as whether it is what was sent; *)
(* the tags of a transaction are taken to read as they were written.       *)
(***************************************************************************)
EXTENDS Naturals, Sequences, FiniteSets

CONSTANTS Calls,      \* calls that store
          Documents,  \* documents of a call that stores an attestation or KYC data
          Reads,      \* calls of retrieveData
          Gateways,   \* gatewayUrls, how many
          MaxSize     \* caching.maxSize

ASSUME ArweaveAssumption == Documents \in Nat /\ Gateways \in Nat /\ MaxSize \in Nat

Kinds == {"data", "attestation", "kyc"}
Txs == Calls \X (0..Documents)

VARIABLES
    wallet,    \* the wallet: uploads are refused until it is there
    kind,      \* what a call stores
    upload,    \* where an upload is
    network,   \* transactions that reached the network
    truthful,  \* transactions whose hash tag is the hash of their data
    stored,    \* how a call ended
    cache,     \* the cached answers, in the order they were first cached
    read       \* where a retrieval is, and its answer

arweaveVars == <<wallet, kind, upload, network, truthful, stored, cache, read>>

NoTx == <<>>
NoAnswer == [tx |-> NoTx, intact |-> FALSE, verified |-> FALSE]
Idle == [state |-> "idle", tx |-> NoTx, verify |-> FALSE, left |-> 0, answer |-> NoAnswer]

\* A key given as data is the wallet at once, one in a file is read first, and
\* without either the service only reads.
ArweaveInit ==
    /\ wallet \in {"ready", "loading", "none"}
    /\ kind = [c \in Calls |-> "none"]
    /\ upload = [t \in Txs |-> "none"]
    /\ network = {} /\ truthful = {}
    /\ stored = [c \in Calls |-> "no"]
    /\ cache = <<>>
    /\ read = [r \in Reads |-> Idle]

\* The constructor does not wait for it.
WalletLoaded ==
    /\ wallet = "loading"
    /\ wallet' = "ready"
    /\ UNCHANGED <<kind, upload, network, truthful, stored, cache, read>>

-----------------------------------------------------------------------------
(* uploadData, storeAttestationData, storeKycData *)

LastUpload(c) == IF kind[c] = "data" THEN 0 ELSE Documents
Uploads(c) == {<<c, n>> : n \in 0..LastUpload(c)}

\* uploadData takes the hash its caller names; the others compute it.
StoreStart(c, k, honest) ==
    /\ stored[c] = "no"
    /\ k # "data" => honest
    /\ kind' = [kind EXCEPT ![c] = k]
    /\ IF wallet = "ready"
       THEN /\ upload' = [upload EXCEPT ![<<c, 0>>] = "sending"]
            /\ stored' = [stored EXCEPT ![c] = "running"]
            /\ truthful' = IF honest THEN truthful \cup ({c} \X (0..Documents)) ELSE truthful
       ELSE stored' = [stored EXCEPT ![c] = "failed"] /\ UNCHANGED <<upload, truthful>>
    /\ UNCHANGED <<wallet, network, cache, read>>

\* createTransaction, sign, getPrice and every chunk of it went well.
UploadDone(t) ==
    /\ upload[t] = "sending"
    /\ upload' = [upload EXCEPT ![t] = "done"]
    /\ network' = network \cup {t}
    /\ UNCHANGED <<wallet, kind, truthful, stored, cache, read>>

\* One of them rejects, maybe only after the network had all of it.
UploadFails(t) ==
    /\ upload[t] = "sending"
    /\ upload' = [upload EXCEPT ![t] = "failed"]
    /\ network' \in {network, network \cup {t}}
    /\ UNCHANGED <<wallet, kind, truthful, stored, cache, read>>

\* The first upload is done: those of the documents start together.
DocumentsStart(c) ==
    /\ stored[c] = "running" /\ kind[c] # "data"
    /\ upload[<<c, 0>>] = "done"
    /\ \A t \in Uploads(c) \ {<<c, 0>>} : upload[t] = "none"
    /\ upload' = [t \in Txs |-> IF t \in Uploads(c) \ {<<c, 0>>} THEN "sending" ELSE upload[t]]
    /\ UNCHANGED <<wallet, kind, network, truthful, stored, cache, read>>

StoreDone_Settled(c) ==
    /\ stored[c] = "running"
    /\ upload[<<c, 0>>] = "done"
    /\ \A t \in Uploads(c) : upload[t] \in {"done", "failed"}
    /\ stored' = [stored EXCEPT ![c] = "stored"]
    /\ UNCHANGED <<wallet, kind, upload, network, truthful, cache, read>>
StoreDone(c) ==
    /\ stored[c] = "running"
    /\ \A t \in Uploads(c) : upload[t] = "done"
    /\ stored' = [stored EXCEPT ![c] = "stored"]
    /\ UNCHANGED <<wallet, kind, upload, network, truthful, cache, read>>

\* The first rejection is the call's; uploads still under way run on.
StoreFails(c) ==
    /\ stored[c] = "running"
    /\ \E t \in Uploads(c) : upload[t] = "failed"
    /\ stored' = [stored EXCEPT ![c] = "failed"]
    /\ UNCHANGED <<wallet, kind, upload, network, truthful, cache, read>>

-----------------------------------------------------------------------------
(* retrieveData *)

Cached(t) == {i \in DOMAIN cache : cache[i].tx = t}
Answer(r, a) == read' = [read EXCEPT ![r].state = "answered", ![r].answer = a]

ReadHit_Rechecked(r, t, verify) ==
    /\ read[r].state = "idle" /\ Cached(t) # {}
    /\ \E i \in Cached(t) : Answer(r, [cache[i] EXCEPT !.verified = verify])
    /\ UNCHANGED <<wallet, kind, upload, network, truthful, stored, cache>>
\* A cached answer is given as it is, whether this call wants it verified or not.
ReadHit(r, t, verify) ==
    /\ read[r].state = "idle" /\ Cached(t) # {}
    /\ \E i \in Cached(t) : Answer(r, cache[i])
    /\ UNCHANGED <<wallet, kind, upload, network, truthful, stored, cache>>

\* A preferred gateway is asked before the configured ones.
ReadStart(r, t, verify, preferred) ==
    /\ read[r].state = "idle" /\ Cached(t) = {}
    /\ read' = [read EXCEPT ![r].state = "asking", ![r].tx = t, ![r].verify = verify,
                            ![r].left = IF preferred THEN Gateways + 1 ELSE Gateways]
    /\ UNCHANGED <<wallet, kind, upload, network, truthful, stored, cache>>

\* The transaction or its data cannot be had: the next gateway, or failure.
GatewayFails(r) ==
    /\ read[r].state = "asking"
    /\ read' = [read EXCEPT ![r].left = @ - 1,
                            ![r].state = IF read[r].left > 1 THEN "asking" ELSE "failed"]
    /\ UNCHANGED <<wallet, kind, upload, network, truthful, stored, cache>>

CacheSet_Late(a) ==
    LET kept == IF Len(cache) > MaxSize THEN Tail(cache) ELSE cache
    IN IF Cached(a.tx) = {} THEN Append(kept, a)
       ELSE [i \in DOMAIN kept |-> IF kept[i].tx = a.tx THEN a ELSE kept[i]]
\* Setting a key that is there keeps its place; the oldest goes when there are
\* too many.
CacheSet(a) ==
    LET grown == IF Cached(a.tx) = {} THEN Append(cache, a)
                 ELSE [i \in DOMAIN cache |-> IF cache[i].tx = a.tx THEN a ELSE cache[i]]
    IN IF Len(grown) > MaxSize THEN Tail(grown) ELSE grown

Verified(t, verify, intact) == verify /\ intact /\ t \in truthful

\* A gateway answers with the data, or with something else.
GatewayAnswers(r, intact) ==
    LET a == [tx |-> read[r].tx, intact |-> intact,
              verified |-> Verified(read[r].tx, read[r].verify, intact)]
    IN /\ read[r].state = "asking" /\ read[r].tx \in network
       /\ Answer(r, a)
       /\ cache' = CacheSet(a)
       /\ UNCHANGED <<wallet, kind, upload, network, truthful, stored>>

-----------------------------------------------------------------------------
\* The process ends and another one starts: what the calls had reached on the
\* network stays.
ArweaveRestart ==
    /\ wallet' \in {"ready", "loading", "none"}
    /\ cache' = <<>>
    /\ upload' = [t \in Txs |-> IF upload[t] = "sending" THEN "failed" ELSE upload[t]]
    /\ network' \in {network \cup ts : ts \in SUBSET {t \in Txs : upload[t] = "sending"}}
    /\ stored' = [c \in Calls |-> IF stored[c] = "running" THEN "failed" ELSE stored[c]]
    /\ read' = [r \in Reads |-> IF read[r].state = "asking" THEN [read[r] EXCEPT !.state = "failed"]
                                                            ELSE read[r]]
    /\ UNCHANGED <<kind, truthful>>

ArweaveTypeOK ==
    /\ wallet \in {"ready", "loading", "none"}
    /\ kind \in [Calls -> Kinds \cup {"none"}]
    /\ upload \in [Txs -> {"none", "sending", "done", "failed"}]
    /\ network \in SUBSET Txs /\ truthful \in SUBSET Txs
    /\ stored \in [Calls -> {"no", "running", "stored", "failed"}]
    /\ Len(cache) <= MaxSize /\ Cardinality({cache[i].tx : i \in DOMAIN cache}) = Len(cache)
    /\ \A r \in Reads : read[r].state \in {"idle", "asking", "answered", "failed"}

\* A call answered as stored has all it was given on the network, and no
\* document of a call is there before the metadata that names it, however the
\* uploads of a call interleave, fail and outlive its answer.
StoredWhole ==
    \A c \in Calls :
       /\ stored[c] = "stored" => Uploads(c) \subseteq network
       /\ \A t \in Uploads(c) \cap network : <<c, 0>> \in network

\* An answer that says verified carries the data that was stored under a hash
\* of it: also when it comes from the cache, where another call with another
\* wish for verification has put it.
VerifiedIsIntact ==
    \A r \in Reads : read[r].answer.verified => read[r].answer.intact /\ read[r].answer.tx \in truthful
=============================================================================
