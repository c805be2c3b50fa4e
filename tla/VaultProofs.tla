---------------------------- MODULE VaultProofs ----------------------------
(***************************************************************************)
(* Proofs that storing is whole, verification honest, sealed data          *)
(* recoverable and the cache bounded, for any number of calls, documents,  *)
(* retrievals and keys.                                                    *)
(***************************************************************************)
EXTENDS Vault, Integers, FiniteSetTheorems, TLAPS

(* Storing *)

\* Besides what the calls answered: a document's upload starts only when the
\* metadata that names it is on the network.
StoreInv ==
    /\ kind \in [Calls -> Kinds \cup {"none"}]
    /\ upload \in [Txs -> {"none", "sending", "done", "failed"}]
    /\ network \subseteq Txs
    /\ stored \in [Calls -> {"no", "running", "stored", "failed"}]
    /\ \A t \in Txs : upload[t] = "done" => t \in network
    /\ \A t \in network : upload[t] # "none"
    /\ \A t \in Txs : t[2] # 0 /\ upload[t] # "none" => <<t[1], 0>> \in network
    /\ \A c \in Calls : stored[c] = "stored" => Uploads(c) \subseteq network

\* What a call may upload is among the transactions.
LEMMA UploadsAreTxs ==
    ASSUME NEW c \in Calls
    PROVE  Uploads(c) \subseteq Txs /\ <<c, 0>> \in Txs
BY ArweaveAssumption DEF Uploads, LastUpload, Txs

\* Nothing is stored at first.
LEMMA StoreInitInv == ArweaveInit => StoreInv
BY DEF ArweaveInit, StoreInv

\* Every step of a call that stores preserves what is known of them.
LEMMA StoreStep ==
    ASSUME StoreInv, [Next]_vars
    PROVE  StoreInv'
<1>1. ASSUME UNCHANGED <<kind, upload, network, stored>> PROVE StoreInv'
  BY <1>1 DEF StoreInv, Uploads, LastUpload
<1>2. CASE UNCHANGED vars
  BY <1>1, <1>2 DEF vars, arweaveVars
<1>3. CASE Sealing
  BY <1>1, <1>3 DEF Sealing, PostGenerateKey, PostEncrypt, AnswerEncrypt, Keys, arweaveVars
<1>4. CASE Retrieving
  <2>1. ASSUME NEW r, NEW t, NEW verify, NEW preferred,
               ReadHit(r, t, verify) \/ ReadStart(r, t, verify, preferred)
        PROVE  UNCHANGED <<kind, upload, network, stored>>
    BY <2>1 DEF ReadHit, ReadStart
  <2>2. ASSUME NEW r, NEW intact, GatewayFails(r) \/ GatewayAnswers(r, intact)
        PROVE  UNCHANGED <<kind, upload, network, stored>>
    BY <2>2 DEF GatewayFails, GatewayAnswers
  <2>3. QED BY <1>1, <1>4, <2>1, <2>2 DEF Retrieving, GetRetrieve, AnswerRetrieve
<1>5. ASSUME NEW c \in Calls, NEW k \in Kinds, NEW honest, StoreStart(c, k, honest) PROVE StoreInv'
  <2>1. /\ kind' = [kind EXCEPT ![c] = k] /\ network' = network /\ stored[c] = "no"
        /\ \/ /\ upload' = [upload EXCEPT ![<<c, 0>>] = "sending"]
              /\ stored' = [stored EXCEPT ![c] = "running"]
           \/ upload' = upload /\ stored' = [stored EXCEPT ![c] = "failed"]
    BY <1>5 DEF StoreStart
  <2>2. /\ kind' \in [Calls -> Kinds \cup {"none"}] /\ network' \subseteq Txs
        /\ upload' \in [Txs -> {"none", "sending", "done", "failed"}]
        /\ stored' \in [Calls -> {"no", "running", "stored", "failed"}]
    BY <2>1 DEF StoreInv
  <2>3. \A t \in Txs : upload'[t] = upload[t] \/ (t = <<c, 0>> /\ upload'[t] = "sending")
    BY <2>1 DEF StoreInv
  <2>4. /\ \A t \in Txs : upload'[t] = "done" => t \in network'
        /\ \A t \in network' : upload'[t] # "none"
        /\ \A t \in Txs : t[2] # 0 /\ upload'[t] # "none" => <<t[1], 0>> \in network'
    BY <2>1, <2>3 DEF StoreInv
  <2>5. ASSUME NEW d \in Calls, stored'[d] = "stored" PROVE Uploads(d)' \subseteq network'
    <3>1. d # c /\ stored[d] = "stored" /\ kind'[d] = kind[d]
      BY <2>1, <2>5 DEF StoreInv
    <3>2. Uploads(d)' = Uploads(d)
      BY <3>1 DEF Uploads, LastUpload
    <3>3. QED BY <2>1, <3>1, <3>2 DEF StoreInv
  <2>6. QED BY <2>2, <2>4, <2>5 DEF StoreInv
<1>6. CASE WalletLoaded
  BY <1>1, <1>6 DEF WalletLoaded
<1>7. ASSUME NEW t \in Txs, UploadDone(t) PROVE StoreInv'
  BY <1>7 DEF UploadDone, StoreInv, Uploads, LastUpload
<1>8. ASSUME NEW t \in Txs, UploadFails(t) PROVE StoreInv'
  BY <1>8 DEF UploadFails, StoreInv, Uploads, LastUpload
<1>9. ASSUME NEW c \in Calls, DocumentsStart(c) PROVE StoreInv'
  BY <1>9, UploadsAreTxs DEF DocumentsStart, StoreInv, Uploads, LastUpload, Txs
<1>10. ASSUME NEW c \in Calls, StoreDone(c) PROVE StoreInv'
  <2>1. /\ stored' = [stored EXCEPT ![c] = "stored"]
        /\ UNCHANGED <<kind, upload, network>>
        /\ Uploads(c) \subseteq network
    BY <1>10, UploadsAreTxs DEF StoreDone, StoreInv
  <2>2. \A d \in Calls : Uploads(d)' = Uploads(d)
    BY <2>1 DEF Uploads, LastUpload
  <2>3. \A d \in Calls : stored'[d] = "stored" => Uploads(d)' \subseteq network'
    BY <2>1, <2>2 DEF StoreInv
  <2>4. stored' \in [Calls -> {"no", "running", "stored", "failed"}]
    BY <2>1 DEF StoreInv
  <2>5. QED BY <2>1, <2>3, <2>4 DEF StoreInv
<1>11. ASSUME NEW c \in Calls, StoreFails(c) PROVE StoreInv'
  BY <1>11 DEF StoreFails, StoreInv, Uploads, LastUpload
<1>12. CASE Restart
  BY <1>12 DEF Restart, ArweaveRestart, StoreInv, Uploads, LastUpload
<1>13. CASE Storing
  BY <1>13, <1>5, <1>6, <1>7, <1>8, <1>9, <1>10, <1>11
     DEF Storing, Uploading, PostUpload, PostAttestation, PostKyc, Kinds
<1>14. QED BY <1>2, <1>3, <1>4, <1>12, <1>13 DEF Next

\* What is answered as stored is stored whole.
LEMMA StoreInvIsWhole == StoreInv => StoredWhole
<1> SUFFICES ASSUME StoreInv, NEW c \in Calls
             PROVE  /\ stored[c] = "stored" => Uploads(c) \subseteq network
                    /\ \A t \in Uploads(c) \cap network : <<c, 0>> \in network
  BY DEF StoredWhole
<1>1. stored[c] = "stored" => Uploads(c) \subseteq network
  BY DEF StoreInv
<1>2. ASSUME NEW t \in Uploads(c) \cap network PROVE <<c, 0>> \in network
  <2>1. t \in Txs /\ t[1] = c /\ t = <<c, t[2]>>
    <3>1. PICK n \in 0..LastUpload(c) : t = <<c, n>>
      BY DEF Uploads
    <3>2. QED BY <3>1, UploadsAreTxs
  <2>2. CASE t[2] = 0
    BY <2>1, <2>2
  <2>3. CASE t[2] # 0
    BY <2>1, <2>3 DEF StoreInv
  <2>4. QED BY <2>2, <2>3
<1>3. QED BY <1>1, <1>2

\* ArweaveService: a call answered as stored has all it was given on the
\* network, and no document is there without the metadata that names it.
THEOREM StoresAreWhole == Spec => []StoredWhole
<1>1. Init => StoreInv
  BY StoreInitInv DEF Init
<1>2. StoreInv /\ [Next]_vars => StoreInv'
  BY StoreStep
<1>3. QED BY <1>1, <1>2, StoreInvIsWhole, PTL DEF Spec

-----------------------------------------------------------------------------
(* Retrieving *)

Answers == [tx : Txs \cup {NoTx}, intact : BOOLEAN, verified : BOOLEAN]
ReadRows == [state : {"idle", "asking", "answered", "failed"}, tx : Txs \cup {NoTx},
             verify : BOOLEAN, left : Int, answer : Answers]
Sound(a) == a.verified => a.intact /\ a.tx \in truthful

\* Every answer that is cached or was given is honest about its verification.
ReadInv ==
    /\ network \subseteq Txs
    /\ cache \in Seq(Answers)
    /\ \A i \in DOMAIN cache : Sound(cache[i])
    /\ read \in [Reads -> ReadRows]
    /\ \A r \in Reads : Sound(read[r].answer)

\* Caching an honest answer leaves the cache honest.
LEMMA CacheSetSound ==
    ASSUME cache \in Seq(Answers), \A i \in DOMAIN cache : Sound(cache[i]),
           NEW a \in Answers, Sound(a)
    PROVE  CacheSet(a) \in Seq(Answers) /\ \A i \in DOMAIN CacheSet(a) : Sound(CacheSet(a)[i])
<1> DEFINE grown == IF Cached(a.tx) = {} THEN Append(cache, a)
                    ELSE [i \in DOMAIN cache |-> IF cache[i].tx = a.tx THEN a ELSE cache[i]]
<1>1. grown \in Seq(Answers) /\ \A i \in DOMAIN grown : Sound(grown[i])
  <2>1. CASE Cached(a.tx) = {}
    <3>1. grown = Append(cache, a)
      BY <2>1
    <3>2. QED BY <3>1
  <2>2. CASE Cached(a.tx) # {}
    <3>0. DOMAIN cache = 1..Len(cache)
      OBVIOUS
    <3>1. grown = [i \in 1..Len(cache) |-> IF cache[i].tx = a.tx THEN a ELSE cache[i]]
      BY ONLY <2>2, <3>0, Zenon
    <3>2. \A i \in 1..Len(cache) : (IF cache[i].tx = a.tx THEN a ELSE cache[i]) \in Answers
      OBVIOUS
    <3>3. Len(cache) \in Nat
      OBVIOUS
    <3>4. grown \in Seq(Answers)
      <4> HIDE DEF grown, Answers
      <4>1. QED BY <3>1, <3>2, <3>3
    <3>5. \A i \in DOMAIN grown : Sound(grown[i])
      BY <3>1
    <3>6. QED BY <3>4, <3>5
  <2>3. QED BY <2>1, <2>2
<1>2. CASE Len(grown) > MaxSize
  <2>1. CacheSet(a) = Tail(grown)
    BY <1>2 DEF CacheSet
  <2> HIDE DEF grown
  <2>2. grown # <<>>
    BY <1>1, <1>2, ArweaveAssumption
  <2>3. Tail(grown) \in Seq(Answers) /\ \A i \in DOMAIN Tail(grown) : Tail(grown)[i] = grown[i + 1]
    BY <1>1, <2>2
  <2>4. \A i \in DOMAIN Tail(grown) : i + 1 \in DOMAIN grown
    BY <1>1, <2>2
  <2>5. QED BY <1>1, <2>1, <2>3, <2>4
<1>3. CASE ~(Len(grown) > MaxSize)
  BY <1>1, <1>3 DEF CacheSet
<1>4. QED BY <1>2, <1>3

\* No answer is cached or given at first.
LEMMA ReadInitInv == ArweaveInit => ReadInv
<1> SUFFICES ASSUME ArweaveInit PROVE ReadInv
  OBVIOUS
<1>1. cache = <<>> /\ network = {} /\ read = [r \in Reads |-> Idle]
  BY DEF ArweaveInit
<1>2. NoAnswer \in Answers /\ Sound(NoAnswer)
  BY DEF NoAnswer, Answers, Sound
<1>3. Idle \in ReadRows
  BY <1>2 DEF Idle, ReadRows
<1>4. cache \in Seq(Answers) /\ DOMAIN cache = {}
  BY <1>1
<1>5. \A r \in Reads : Sound(read[r].answer)
  BY <1>1, <1>2 DEF Idle
<1>6. QED BY <1>1, <1>3, <1>4, <1>5 DEF ReadInv

\* A retrieval that is answered with a sound answer.
LEMMA AnswerSound ==
    ASSUME ReadInv, NEW r \in Reads, NEW a \in Answers, Sound(a), Answer(r, a),
           UNCHANGED truthful
    PROVE  read' \in [Reads -> ReadRows] /\ \A q \in Reads : Sound(read[q].answer)'
<1>1. read \in [Reads -> ReadRows]
  BY DEF ReadInv, ReadRows
<1>2. read' = [read EXCEPT ![r] = [read[r] EXCEPT !.state = "answered", !.answer = a]]
  BY <1>1 DEF Answer
<1>3. [read[r] EXCEPT !.state = "answered", !.answer = a] \in ReadRows
  BY <1>1 DEF ReadRows
<1>4. read' \in [Reads -> ReadRows]
  BY <1>1, <1>2, <1>3
<1>5. read'[r].answer = a /\ \A q \in Reads \ {r} : read'[q] = read[q]
  BY <1>1, <1>2 DEF ReadRows
<1>6. QED BY <1>4, <1>5 DEF ReadInv, Sound

\* Every step preserves what is known of the cache and the answers.
LEMMA ReadStep ==
    ASSUME ReadInv, [Next]_vars
    PROVE  ReadInv'
<1>1. ASSUME UNCHANGED <<cache, read>>, truthful \subseteq truthful', network' \subseteq Txs
      PROVE  ReadInv'
  BY <1>1 DEF ReadInv, Sound
<1>2. CASE UNCHANGED <<network, truthful, cache, read>>
  BY <1>1, <1>2 DEF ReadInv
<1>3. CASE Sealing
  BY <1>2, <1>3 DEF Sealing, PostGenerateKey, PostEncrypt, AnswerEncrypt, Keys, arweaveVars
<1>4. CASE Storing
  <2>1. ASSUME NEW c \in Calls, NEW k, NEW honest, StoreStart(c, k, honest) PROVE ReadInv'
    BY <1>1, <2>1 DEF StoreStart, ReadInv
  <2>2. ASSUME NEW t \in Txs, UploadDone(t) \/ UploadFails(t) PROVE ReadInv'
    BY <1>1, <2>2 DEF UploadDone, UploadFails, ReadInv
  <2>3. ASSUME NEW c \in Calls, DocumentsStart(c) \/ StoreDone(c) \/ StoreFails(c) PROVE ReadInv'
    BY <1>2, <2>3 DEF DocumentsStart, StoreDone, StoreFails
  <2>4. CASE WalletLoaded
    BY <1>2, <2>4 DEF WalletLoaded
  <2>5. QED BY <1>4, <2>1, <2>2, <2>3, <2>4
            DEF Storing, Uploading, PostUpload, PostAttestation, PostKyc
<1>5. ASSUME NEW r \in Reads, NEW t \in network, NEW verify \in BOOLEAN, ReadHit(r, t, verify)
      PROVE  ReadInv'
  <2>1. PICK i \in Cached(t) : Answer(r, cache[i])
    BY <1>5 DEF ReadHit
  <2>2. cache[i] \in Answers /\ Sound(cache[i])
    BY <2>1 DEF ReadInv, Cached
  <2>3. UNCHANGED <<network, truthful, cache>>
    BY <1>5 DEF ReadHit
  <2>4. QED BY <2>1, <2>2, <2>3, AnswerSound DEF ReadInv, Sound, ReadRows
<1>6. ASSUME NEW r \in Reads, NEW t \in network, NEW verify \in BOOLEAN, NEW preferred \in BOOLEAN,
             ReadStart(r, t, verify, preferred)
      PROVE  ReadInv'
  <2> DEFINE left == IF preferred THEN Gateways + 1 ELSE Gateways
             row == [read[r] EXCEPT !.state = "asking", !.tx = t, !.verify = verify, !.left = left]
  <2>1. read \in [Reads -> ReadRows] /\ t \in Txs
    BY DEF ReadInv, ReadRows
  <2>2. read' = [read EXCEPT ![r] = row] /\ UNCHANGED <<network, truthful, cache>>
    BY <1>6, <2>1 DEF ReadStart
  <2>3. row \in ReadRows /\ row.answer = read[r].answer
    <3>1. left \in Int
      BY ArweaveAssumption
    <3> HIDE DEF left
    <3>2. QED BY <2>1, <3>1 DEF ReadRows
  <2>4. QED BY <2>1, <2>2, <2>3 DEF ReadInv, Sound, ReadRows
<1>7. ASSUME NEW r \in Reads, GatewayFails(r) PROVE ReadInv'
  <2> DEFINE left == read[r].left - 1
             state == IF read[r].left > 1 THEN "asking" ELSE "failed"
             row == [read[r] EXCEPT !.left = left, !.state = state]
  <2>1. read \in [Reads -> ReadRows]
    BY DEF ReadInv, ReadRows
  <2>2. read' = [read EXCEPT ![r] = row] /\ UNCHANGED <<network, truthful, cache>>
    BY <1>7, <2>1 DEF GatewayFails
  <2>3. row \in ReadRows /\ row.answer = read[r].answer
    <3>1. left \in Int /\ state \in {"asking", "failed"}
      BY <2>1 DEF ReadRows
    <3> HIDE DEF left, state
    <3>2. QED BY <2>1, <3>1 DEF ReadRows
  <2>4. QED BY <2>1, <2>2, <2>3 DEF ReadInv, Sound, ReadRows
<1>8. ASSUME NEW r \in Reads, NEW intact \in BOOLEAN, GatewayAnswers(r, intact) PROVE ReadInv'
  <2> DEFINE a == [tx |-> read[r].tx, intact |-> intact,
                   verified |-> Verified(read[r].tx, read[r].verify, intact)]
  <2>1. read[r].verify \in BOOLEAN /\ read[r].tx \in Txs
    BY <1>8 DEF GatewayAnswers, ReadInv, ReadRows
  <2>2. a \in Answers /\ Sound(a)
    BY <2>1 DEF Answers, Sound, Verified
  <2>3. Answer(r, a) /\ cache' = CacheSet(a) /\ UNCHANGED <<network, truthful>>
    BY <1>8 DEF GatewayAnswers
  <2> HIDE DEF a
  <2>4. cache' \in Seq(Answers) /\ \A i \in DOMAIN cache' : Sound(cache'[i])
    BY <2>2, <2>3, CacheSetSound DEF ReadInv
  <2>5. QED BY <2>2, <2>3, <2>4, AnswerSound DEF ReadInv, Sound, ReadRows
<1>9. CASE Restart
  <2>1. read \in [Reads -> ReadRows]
    BY DEF ReadInv, ReadRows
  <2>2. read' = [r \in Reads |-> IF read[r].state = "asking" THEN [read[r] EXCEPT !.state = "failed"]
                                                             ELSE read[r]]
        /\ cache' = <<>> /\ truthful' = truthful /\ network' \subseteq Txs
    BY <1>9 DEF Restart, ArweaveRestart, ReadInv
  <2>3. \A r \in Reads : /\ [read[r] EXCEPT !.state = "failed"] \in ReadRows
                         /\ [read[r] EXCEPT !.state = "failed"].answer = read[r].answer
    BY <2>1 DEF ReadRows
  <2>4. read' \in [Reads -> ReadRows] /\ \A r \in Reads : read'[r].answer = read[r].answer
    BY <2>1, <2>2, <2>3
  <2>5. cache' \in Seq(Answers) /\ DOMAIN cache' = {}
    BY <2>2
  <2>6. QED BY <2>2, <2>4, <2>5 DEF ReadInv, Sound, ReadRows
<1>10. CASE UNCHANGED vars
  BY <1>2, <1>10 DEF vars, arweaveVars
<1>11. QED BY <1>3, <1>4, <1>5, <1>6, <1>7, <1>8, <1>9, <1>10
           DEF Next, Retrieving, GetRetrieve, AnswerRetrieve

\* ArweaveService: an answer that says verified carries what was stored under
\* a hash of it, from a gateway or from the cache.
THEOREM VerifiedAnswersAreIntact == Spec => []VerifiedIsIntact
<1>1. Init => ReadInv
  BY ReadInitInv DEF Init
<1>2. ReadInv /\ [Next]_vars => ReadInv'
  BY ReadStep
<1>3. ReadInv => VerifiedIsIntact
  BY DEF ReadInv, VerifiedIsIntact, Sound
<1>4. QED BY <1>1, <1>2, <1>3, PTL DEF Spec

-----------------------------------------------------------------------------
(* Sealing *)

BoxRows == [state : {"none", "compressing", "sealed"}, id : KeyIds \cup {Password},
            key : Nat]

\* The key of a box is under its id, unless it is lost.
KeyInv ==
    /\ made \in Nat
    /\ keys \in [KeyIds -> Nat]
    /\ box \in [Boxes -> BoxRows]
    /\ \A b \in Boxes : box[b].id # Password /\ box[b].state # "none" =>
          /\ box[b].key # NoKey
          /\ keys[box[b].id] = box[b].key \/ box[b].key \in lost

\* What a call stores as KYC data is sealed.
HeldInv ==
    /\ held \in [Calls -> Boxes \cup {NoBoxes}]
    /\ \A c \in Calls : held[c] # NoBoxes => box[held[c]].state = "sealed"

\* There are no keys and no boxes at first.
LEMMA KeyInitInv == EncryptionInit => KeyInv
<1> SUFFICES ASSUME EncryptionInit PROVE KeyInv
  OBVIOUS
<1>1. NoBox \in BoxRows /\ NoBox.state = "none"
  BY DEF NoBox, BoxRows, NoKey
<1>2. box = [b \in Boxes |-> NoBox] /\ made = 0 /\ keys = [k \in KeyIds |-> NoKey]
  BY DEF EncryptionInit
<1>3. QED BY <1>1, <1>2 DEF KeyInv, NoKey

\* No step takes the key of a box away without losing it for all to see.
LEMMA KeyStep ==
    ASSUME KeyInv, [Next]_vars
    PROVE  KeyInv'
<1>1. ASSUME UNCHANGED <<keys, made, box, lost>> PROVE KeyInv'
  BY <1>1 DEF KeyInv
<1>2. ASSUME NEW k \in KeyIds, GenerateKey(k) PROVE KeyInv'
  <2>1. /\ keys' = [keys EXCEPT ![k] = made + 1] /\ made' = made + 1
        /\ lost' = lost \cup ({keys[k]} \ {NoKey}) /\ box' = box
    BY <1>2 DEF GenerateKey
  <2>2. QED BY <2>1 DEF KeyInv, BoxRows
<1>3. ASSUME NEW k \in KeyIds, NEW new \in KeyIds, RotateKey(k, new) PROVE KeyInv'
  <2>1. /\ keys' = [keys EXCEPT ![new] = made + 1] /\ made' = made + 1
        /\ keys[new] = NoKey /\ UNCHANGED <<box, lost>>
    BY <1>3 DEF RotateKey
  <2>2. QED BY <2>1 DEF KeyInv, BoxRows
<1>4. ASSUME NEW k \in KeyIds, KeyExpires(k) PROVE KeyInv'
  BY <1>1, <1>4 DEF KeyExpires
<1>5. ASSUME NEW b \in Boxes, NEW id \in KeyIds \cup {Password}, EncryptStart(b, id) PROVE KeyInv'
  <2> DEFINE key == IF id = Password THEN NoKey ELSE keys[id]
             row == [state |-> "compressing", id |-> id, key |-> key]
  <2>1. box' = [box EXCEPT ![b] = row] /\ UNCHANGED <<keys, made, lost>>
        /\ (id # Password => keys[id] # NoKey)
    BY <1>5 DEF EncryptStart
  <2>2. key \in Nat /\ (id # Password => key = keys[id])
    BY DEF KeyInv, NoKey
  <2> HIDE DEF key
  <2>3. row \in BoxRows
    BY <2>2 DEF BoxRows
  <2>4. QED BY <2>1, <2>2, <2>3 DEF KeyInv
<1>6. ASSUME NEW b \in Boxes, EncryptDone(b) PROVE KeyInv'
  <2>1. box' = [box EXCEPT ![b] = [box[b] EXCEPT !.state = "sealed"]] /\ UNCHANGED <<keys, made, lost>>
        /\ box[b].state = "compressing"
    BY <1>6 DEF EncryptDone, KeyInv
  <2>2. /\ [box[b] EXCEPT !.state = "sealed"] \in BoxRows
        /\ [box[b] EXCEPT !.state = "sealed"].id = box[b].id
        /\ [box[b] EXCEPT !.state = "sealed"].key = box[b].key
    BY DEF KeyInv, BoxRows
  <2>3. QED BY <2>1, <2>2 DEF KeyInv
<1>7. ASSUME NEW b \in Boxes, EncryptFails(b) PROVE KeyInv'
  <2>1. NoBox \in BoxRows /\ NoBox.state = "none"
    BY DEF NoBox, BoxRows, NoKey
  <2>2. box' = [box EXCEPT ![b] = NoBox] /\ UNCHANGED <<keys, made, lost>>
    BY <1>7 DEF EncryptFails
  <2>3. QED BY <2>1, <2>2 DEF KeyInv
<1>8. CASE Restart
  <2>1. NoBox \in BoxRows /\ NoBox.state = "none"
    BY DEF NoBox, BoxRows, NoKey
  <2>2. /\ keys' = [k \in KeyIds |-> NoKey] /\ made' = made
        /\ lost' = lost \cup ({keys[k] : k \in KeyIds} \ {NoKey})
        /\ box' = [b \in Boxes |-> IF box[b].state = "compressing" THEN NoBox ELSE box[b]]
    BY <1>8 DEF Restart, EncryptionRestart
  <2>3. box' \in [Boxes -> BoxRows] /\ keys' \in [KeyIds -> Nat]
    BY <2>1, <2>2 DEF KeyInv, NoKey
  <2>4. ASSUME NEW b \in Boxes, box'[b].id # Password, box'[b].state # "none"
        PROVE  box'[b].key # NoKey /\ box'[b].key \in lost'
    <3>1. box'[b] = box[b]
      BY <2>1, <2>2, <2>4
    <3>2. box[b].id \in KeyIds
      BY <2>4, <3>1 DEF KeyInv, BoxRows
    <3>3. QED BY <2>2, <2>4, <3>1, <3>2 DEF KeyInv
  <2>5. QED BY <2>2, <2>3, <2>4 DEF KeyInv
<1>9. CASE Storing \/ Retrieving \/ UNCHANGED vars
  BY <1>1, <1>9 DEF Storing, Uploading, Retrieving, PostUpload, PostAttestation, PostKyc,
                    GetRetrieve, AnswerRetrieve, vars, cryptoVars
<1>10. CASE Sealing
  BY <1>2, <1>3, <1>4, <1>5, <1>6, <1>7, <1>10, GeneratedAssumption
     DEF Sealing, PostGenerateKey, PostEncrypt, AnswerEncrypt, Keys
<1>11. QED BY <1>8, <1>9, <1>10 DEF Next

\* A sealed box stays sealed.
LEMMA HeldStep ==
    ASSUME KeyInv, HeldInv, [Next]_vars
    PROVE  HeldInv'
<1>1. ASSUME held' = held, \A b \in Boxes : box[b].state = "sealed" => box'[b].state = "sealed"
      PROVE  HeldInv'
  BY <1>1 DEF HeldInv
<1>2. ASSUME UNCHANGED <<box, held>> PROVE HeldInv'
  BY <1>2 DEF HeldInv
<1>3. CASE Sealing
  <2>1. CASE \E b \in Boxes, id \in KeyIds \cup {Password} : PostEncrypt(b, id)
    BY <1>1, <2>1 DEF PostEncrypt, EncryptStart, KeyInv
  <2>2. CASE \E b \in Boxes : AnswerEncrypt(b)
    <3>1. PICK b \in Boxes : AnswerEncrypt(b)
      BY <2>2
    <3>2. CASE EncryptDone(b)
      BY <1>1, <3>1, <3>2 DEF AnswerEncrypt, EncryptDone, KeyInv, BoxRows
    <3>3. CASE EncryptFails(b)
      BY <1>1, <3>1, <3>3 DEF AnswerEncrypt, EncryptFails, KeyInv
    <3>4. QED BY <3>1, <3>2, <3>3 DEF AnswerEncrypt
  <2>3. CASE Keys \/ \E k \in KeyIds : PostGenerateKey(k)
    BY <1>2, <2>3 DEF Keys, PostGenerateKey, KeyExpires, RotateKey, GenerateKey
  <2>4. QED BY <1>3, <2>1, <2>2, <2>3 DEF Sealing
<1>4. ASSUME NEW c \in Calls, NEW b \in Boxes \cup {NoBoxes}, PostKyc(c, b) PROVE HeldInv'
  BY <1>4 DEF PostKyc, HeldInv, cryptoVars
<1>5. CASE Storing
  BY <1>2, <1>4, <1>5 DEF Storing, Uploading, PostUpload, PostAttestation, cryptoVars
<1>6. CASE Retrieving \/ UNCHANGED vars
  BY <1>2, <1>6 DEF Retrieving, GetRetrieve, AnswerRetrieve, vars, cryptoVars
<1>7. CASE Restart
  BY <1>1, <1>7 DEF Restart, EncryptionRestart, KeyInv
<1>8. QED BY <1>3, <1>5, <1>6, <1>7 DEF Next

-----------------------------------------------------------------------------
(* Types *)

\* Besides being honest, the cached answers are for one transaction each and no
\* more than were allowed for.
CacheInv ==
    /\ Len(cache) <= MaxSize
    /\ \A i, j \in DOMAIN cache : cache[i].tx = cache[j].tx => i = j

\* What is not said of the calls and the keys elsewhere.
ShapeInv ==
    /\ wallet \in {"ready", "loading", "none"}
    /\ truthful \subseteq Txs
    /\ about \in {"sealing", "retrieving"}
    /\ made <= KeysMax
    /\ \A k \in KeyIds : keys[k] <= made
    /\ expired \subseteq {k \in KeyIds : keys[k] # NoKey}
    /\ \A b \in Boxes : box[b].key <= made
    /\ lost \subseteq 1..made

\* Caching one more answer keeps the cache within its size and one to a
\* transaction: the oldest goes when a new one has no room.
LEMMA CacheSetBounded ==
    ASSUME cache \in Seq(Answers), CacheInv, NEW a \in Answers
    PROVE  /\ Len(CacheSet(a)) <= MaxSize
           /\ \A i, j \in DOMAIN CacheSet(a) : CacheSet(a)[i].tx = CacheSet(a)[j].tx => i = j
<1> DEFINE grown == IF Cached(a.tx) = {} THEN Append(cache, a)
                    ELSE [i \in DOMAIN cache |-> IF cache[i].tx = a.tx THEN a ELSE cache[i]]
<1>1. /\ grown \in Seq(Answers) /\ Len(grown) <= MaxSize + 1
      /\ \A i, j \in DOMAIN grown : grown[i].tx = grown[j].tx => i = j
  <2>1. CASE Cached(a.tx) = {}
    <3>1. grown = Append(cache, a)
      BY <2>1
    <3>2. \A i \in DOMAIN cache : cache[i].tx # a.tx
      BY <2>1 DEF Cached
    <3>3. /\ DOMAIN grown = 1..(Len(cache) + 1)
          /\ \A i \in DOMAIN grown : grown[i] = IF i <= Len(cache) THEN cache[i] ELSE a
      BY <3>1
    <3> HIDE DEF grown, Answers
    <3>4. \A i, j \in DOMAIN grown : grown[i].tx = grown[j].tx => i = j
      BY <3>2, <3>3 DEF CacheInv
    <3>5. QED BY <3>1, <3>4, ArweaveAssumption DEF CacheInv
  <2>2. CASE Cached(a.tx) # {}
    <3>0. DOMAIN cache = 1..Len(cache)
      OBVIOUS
    <3>1. grown = [i \in 1..Len(cache) |-> IF cache[i].tx = a.tx THEN a ELSE cache[i]]
      BY ONLY <2>2, <3>0, Zenon
    <3>2. /\ \A i \in 1..Len(cache) : (IF cache[i].tx = a.tx THEN a ELSE cache[i]) \in Answers
          /\ Len(cache) \in Nat
      OBVIOUS
    <3>3. \A i \in 1..Len(cache) : grown[i].tx = cache[i].tx
      BY <3>1
    <3>4. grown \in Seq(Answers) /\ Len(grown) = Len(cache) /\ DOMAIN grown = 1..Len(cache)
      <4> HIDE DEF grown, Answers
      <4>1. QED BY <3>1, <3>2
    <3> HIDE DEF grown, Answers
    <3>5. QED BY <3>3, <3>4, ArweaveAssumption DEF CacheInv
  <2>3. QED BY <2>1, <2>2
<1>2. CASE Len(grown) > MaxSize
  <2>1. CacheSet(a) = Tail(grown)
    BY <1>2 DEF CacheSet
  <2> HIDE DEF grown
  <2>2. grown # <<>>
    BY <1>1, <1>2, ArweaveAssumption
  <2>3. /\ Len(Tail(grown)) = Len(grown) - 1 /\ DOMAIN Tail(grown) = 1..(Len(grown) - 1)
        /\ \A i \in DOMAIN Tail(grown) : Tail(grown)[i] = grown[i + 1] /\ i + 1 \in DOMAIN grown
    BY <1>1, <2>2
  <2>4. ASSUME NEW i \in DOMAIN Tail(grown), NEW j \in DOMAIN Tail(grown),
               Tail(grown)[i].tx = Tail(grown)[j].tx
        PROVE  i = j
    <3>1. i + 1 = j + 1
      BY <1>1, <2>3, <2>4
    <3>2. i \in Int /\ j \in Int
      BY <1>1, <2>3
    <3>3. QED BY <3>1, <3>2
  <2>5. Len(Tail(grown)) <= MaxSize
    BY <1>1, <2>3, ArweaveAssumption
  <2>6. QED BY <2>1, <2>4, <2>5
<1>3. CASE ~(Len(grown) > MaxSize)
  <2>1. CacheSet(a) = grown
    BY <1>3 DEF CacheSet
  <2> HIDE DEF grown
  <2>2. Len(grown) <= MaxSize
    BY <1>1, <1>3, ArweaveAssumption
  <2>3. QED BY <1>1, <2>1, <2>2
<1>4. QED BY <1>2, <1>3

\* The cache changes when a gateway answers and when the process starts again.
LEMMA CacheStep ==
    ASSUME ReadInv, CacheInv, [Next]_vars
    PROVE  CacheInv'
<1>1. CASE cache' = cache
  BY <1>1 DEF CacheInv
<1>2. CASE cache' = <<>>
  <2>1. Len(cache') = 0 /\ DOMAIN cache' = {}
    BY <1>2
  <2>2. QED BY <2>1, ArweaveAssumption DEF CacheInv
<1>3. ASSUME NEW r \in Reads, NEW intact \in BOOLEAN, GatewayAnswers(r, intact) PROVE CacheInv'
  <2> DEFINE a == [tx |-> read[r].tx, intact |-> intact,
                   verified |-> Verified(read[r].tx, read[r].verify, intact)]
  <2>1. read[r].verify \in BOOLEAN /\ read[r].tx \in Txs
    BY <1>3 DEF GatewayAnswers, ReadInv, ReadRows
  <2>2. a \in Answers
    BY <2>1 DEF Answers, Verified
  <2>3. cache' = CacheSet(a)
    BY <1>3 DEF GatewayAnswers
  <2> HIDE DEF a
  <2>4. QED BY <2>2, <2>3, CacheSetBounded DEF CacheInv, ReadInv
<1>4. CASE Restart
  BY <1>2, <1>4 DEF Restart, ArweaveRestart
<1>5. CASE Sealing \/ Storing \/ UNCHANGED vars
  BY <1>1, <1>5 DEF Sealing, PostGenerateKey, PostEncrypt, AnswerEncrypt, Keys, Storing, Uploading,
                    PostUpload, PostAttestation, PostKyc, StoreStart, WalletLoaded, UploadDone,
                    UploadFails, DocumentsStart, StoreDone, StoreFails, arweaveVars, vars
<1>6. CASE Retrieving
  BY <1>1, <1>3, <1>6 DEF Retrieving, GetRetrieve, AnswerRetrieve, ReadHit, ReadStart, GatewayFails
<1>7. QED BY <1>4, <1>5, <1>6 DEF Next

\* A cache with one answer to a transaction is as long as it has transactions.
LEMMA CacheCounted ==
    ASSUME cache \in Seq(Answers), CacheInv
    PROVE  Cardinality({cache[i].tx : i \in DOMAIN cache}) = Len(cache)
<1> DEFINE n == Len(cache)
           txs == {cache[i].tx : i \in 1..n}
           f == [i \in 1..n |-> cache[i].tx]
<1>1. n \in Nat /\ DOMAIN cache = 1..n
  OBVIOUS
<1>2. \A i, j \in 1..n : cache[i].tx = cache[j].tx => i = j
  BY <1>1 DEF CacheInv
<1>3. f \in Bijection(1..n, txs)
  BY <1>2, Zenon DEF Bijection, Injection, Surjection, IsInjective
<1>4. ExistsBijection(1..n, txs)
  BY <1>3 DEF ExistsBijection
<1> HIDE DEF txs, n
<1>5. Cardinality(txs) = n
  BY <1>1, <1>4, FS_CountingElements
<1>6. QED BY <1>1, <1>5 DEF txs, n

\* Every step keeps the counters and sets of the vault in their bounds: a key
\* that is made has the next number.
LEMMA ShapeStep ==
    ASSUME StoreInv, KeyInv, ShapeInv, [Next]_vars
    PROVE  ShapeInv'
<1>1. ASSUME UNCHANGED cryptoVars, truthful' \subseteq Txs, about' = about,
             wallet' \in {"ready", "loading", "none"}
      PROVE  ShapeInv'
  BY <1>1 DEF ShapeInv, cryptoVars
<1>2. ASSUME UNCHANGED arweaveVars, about' = about,
             made' \in Nat, made <= made', made' <= KeysMax,
             \A k \in KeyIds : keys'[k] <= made', expired' \subseteq {k \in KeyIds : keys'[k] # NoKey},
             \A b \in Boxes : box'[b].key <= made', lost' \subseteq 1..made'
      PROVE  ShapeInv'
  BY <1>2 DEF ShapeInv, arweaveVars
<1>3. ASSUME NEW k \in KeyIds, PostGenerateKey(k) PROVE ShapeInv'
  <2>1. /\ made < KeysMax /\ made' = made + 1 /\ keys' = [keys EXCEPT ![k] = made + 1]
        /\ expired' = expired \ {k} /\ lost' = lost \cup ({keys[k]} \ {NoKey}) /\ box' = box
        /\ UNCHANGED arweaveVars /\ about' = about
    BY <1>3 DEF PostGenerateKey, GenerateKey
  <2>2. made \in Nat /\ keys \in [KeyIds -> Nat] /\ \A b \in Boxes : box[b].key \in Nat
    BY DEF KeyInv, BoxRows
  <2>3. \A j \in KeyIds : keys'[j] <= made'
    BY <2>1, <2>2 DEF ShapeInv
  <2>4. expired' \subseteq {j \in KeyIds : keys'[j] # NoKey}
    BY <2>1, <2>2 DEF ShapeInv, NoKey
  <2>5. lost' \subseteq 1..made'
    <3>1. lost \subseteq 1..made /\ keys[k] \in 0..made
      BY <2>2 DEF ShapeInv
    <3>2. 1..made \subseteq 1..(made + 1) /\ (0..made) \ {NoKey} \subseteq 1..(made + 1)
      BY <2>2 DEF NoKey
    <3>3. QED BY <2>1, <3>1, <3>2
  <2>6. \A b \in Boxes : box'[b].key <= made'
    BY <2>1, <2>2 DEF ShapeInv
  <2>7. made' \in Nat /\ made <= made' /\ made' <= KeysMax
    BY <2>1, <2>2, EncryptionAssumption
  <2>8. QED BY <1>2, <2>1, <2>3, <2>4, <2>5, <2>6, <2>7
<1>4. ASSUME NEW k \in KeyIds, NEW new \in KeyIds, RotateKey(k, new),
             UNCHANGED <<arweaveVars, held, about>>
      PROVE  ShapeInv'
  <2>1. /\ keys[k] # NoKey /\ keys[new] = NoKey /\ made < KeysMax /\ made' = made + 1
        /\ keys' = [keys EXCEPT ![new] = made + 1] /\ expired' = (expired \ {new}) \cup {k}
        /\ UNCHANGED <<box, lost>>
    BY <1>4 DEF RotateKey
  <2>2. made \in Nat /\ keys \in [KeyIds -> Nat] /\ \A b \in Boxes : box[b].key \in Nat
    BY DEF KeyInv, BoxRows
  <2>3. \A j \in KeyIds : keys'[j] <= made'
    BY <2>1, <2>2 DEF ShapeInv
  <2>4. expired' \subseteq {j \in KeyIds : keys'[j] # NoKey}
    BY <2>1, <2>2 DEF ShapeInv, NoKey
  <2>5. lost' \subseteq 1..made'
    BY <2>1, <2>2 DEF ShapeInv
  <2>6. \A b \in Boxes : box'[b].key <= made'
    BY <2>1, <2>2 DEF ShapeInv
  <2>7. made' \in Nat /\ made <= made' /\ made' <= KeysMax
    BY <2>1, <2>2, EncryptionAssumption
  <2>8. QED BY <1>2, <1>4, <2>3, <2>4, <2>5, <2>6, <2>7
<1>5. ASSUME UNCHANGED <<keys, made, lost, arweaveVars, about>>,
             expired' \subseteq {k \in KeyIds : keys[k] # NoKey},
             \A b \in Boxes : box'[b].key <= made
      PROVE  ShapeInv'
  <2>1. made \in Nat
    BY DEF KeyInv
  <2>2. QED BY <1>2, <1>5, <2>1 DEF ShapeInv
<1>6. ASSUME NEW k \in KeyIds, KeyExpires(k), UNCHANGED <<arweaveVars, held, about>> PROVE ShapeInv'
  BY <1>5, <1>6 DEF KeyExpires, ShapeInv
<1>7. ASSUME NEW b \in Boxes, NEW id \in KeyIds \cup {Password}, PostEncrypt(b, id) PROVE ShapeInv'
  <2> DEFINE key == IF id = Password THEN NoKey ELSE keys[id]
             row == [state |-> "compressing", id |-> id, key |-> key]
  <2>1. box' = [box EXCEPT ![b] = row] /\ UNCHANGED <<keys, made, lost, expired, arweaveVars, about>>
    BY <1>7 DEF PostEncrypt, EncryptStart
  <2>2. key <= made
    BY DEF KeyInv, NoKey, ShapeInv
  <2> HIDE DEF key
  <2>3. \A c \in Boxes : box'[c].key <= made
    BY <2>1, <2>2 DEF KeyInv, ShapeInv
  <2>4. QED BY <1>5, <2>1, <2>3 DEF ShapeInv
<1>8. ASSUME NEW b \in Boxes, AnswerEncrypt(b) PROVE ShapeInv'
  <2> DEFINE sealed == [box[b] EXCEPT !.state = "sealed"]
  <2>1. box' = [box EXCEPT ![b] = sealed] \/ box' = [box EXCEPT ![b] = NoBox]
    BY <1>8 DEF AnswerEncrypt, EncryptDone, EncryptFails, KeyInv
  <2>2. UNCHANGED <<keys, made, lost, expired, arweaveVars, about>>
    BY <1>8 DEF AnswerEncrypt, EncryptDone, EncryptFails
  <2>3. sealed.key = box[b].key /\ NoBox.key <= made
    BY DEF KeyInv, BoxRows, NoBox, NoKey
  <2> HIDE DEF sealed
  <2>4. \A c \in Boxes : box'[c].key <= made
    BY <2>1, <2>3 DEF KeyInv, ShapeInv
  <2>5. QED BY <1>5, <2>2, <2>4 DEF ShapeInv
<1>9. CASE Sealing
  BY <1>3, <1>4, <1>6, <1>7, <1>8, <1>9, GeneratedAssumption DEF Sealing, Keys
<1>10. CASE Storing
  <2>1. UNCHANGED cryptoVars /\ about' = about
    BY <1>10 DEF Storing, Uploading, PostUpload, PostAttestation, PostKyc
  <2>2. ASSUME NEW c \in Calls, NEW k, NEW honest, StoreStart(c, k, honest)
        PROVE  truthful' \subseteq Txs /\ wallet' = wallet
    BY <2>2 DEF StoreStart, ShapeInv, Txs
  <2>3. ASSUME NEW t, UploadDone(t) \/ UploadFails(t) PROVE UNCHANGED <<truthful, wallet>>
    BY <2>3 DEF UploadDone, UploadFails
  <2>4. ASSUME NEW c, DocumentsStart(c) \/ StoreDone(c) \/ StoreFails(c)
        PROVE  UNCHANGED <<truthful, wallet>>
    BY <2>4 DEF DocumentsStart, StoreDone, StoreFails
  <2>5. ASSUME WalletLoaded PROVE truthful' = truthful /\ wallet' = "ready"
    BY <2>5 DEF WalletLoaded
  <2>6. truthful' \subseteq Txs /\ wallet' \in {"ready", "loading", "none"}
    BY <1>10, <2>2, <2>3, <2>4, <2>5
       DEF Storing, Uploading, PostUpload, PostAttestation, PostKyc, ShapeInv
  <2>7. QED BY <1>1, <2>1, <2>6
<1>11. CASE Retrieving
  <2>1. ASSUME NEW r, NEW t, NEW verify, NEW preferred,
               ReadHit(r, t, verify) \/ ReadStart(r, t, verify, preferred)
        PROVE  UNCHANGED <<truthful, wallet>>
    BY <2>1 DEF ReadHit, ReadStart
  <2>2. ASSUME NEW r, NEW intact, GatewayFails(r) \/ GatewayAnswers(r, intact)
        PROVE  UNCHANGED <<truthful, wallet>>
    BY <2>2 DEF GatewayFails, GatewayAnswers
  <2>3. UNCHANGED <<truthful, wallet>> /\ UNCHANGED cryptoVars /\ about' = about
    BY <1>11, <2>1, <2>2 DEF Retrieving, GetRetrieve, AnswerRetrieve
  <2>4. QED BY <1>1, <2>3 DEF ShapeInv
<1>12. CASE Restart
  <2>1. /\ wallet' \in {"ready", "loading", "none"} /\ truthful' = truthful /\ about' = about
    BY <1>12 DEF Restart, ArweaveRestart
  <2>2. /\ keys' = [k \in KeyIds |-> NoKey] /\ expired' = {} /\ made' = made
        /\ lost' = lost \cup ({keys[k] : k \in KeyIds} \ {NoKey})
        /\ box' = [b \in Boxes |-> IF box[b].state = "compressing" THEN NoBox ELSE box[b]]
    BY <1>12 DEF Restart, EncryptionRestart
  <2>3. made \in Nat /\ keys \in [KeyIds -> Nat]
    BY DEF KeyInv
  <2>4. lost' \subseteq 1..made'
    <3>1. lost \subseteq 1..made /\ \A k \in KeyIds : keys[k] \in 0..made
      BY <2>3 DEF ShapeInv
    <3>2. (0..made) \ {NoKey} \subseteq 1..made
      BY <2>3 DEF NoKey
    <3>3. {keys[k] : k \in KeyIds} \subseteq 0..made
      BY <3>1
    <3>4. QED BY <2>2, <3>1, <3>2, <3>3
  <2>5. \A b \in Boxes : box'[b].key <= made'
    BY <2>2, <2>3 DEF ShapeInv, NoBox, NoKey
  <2>6. \A k \in KeyIds : keys'[k] <= made'
    BY <2>2, <2>3 DEF NoKey
  <2>7. QED BY <2>1, <2>2, <2>4, <2>5, <2>6 DEF ShapeInv
<1>13. CASE UNCHANGED vars
  BY <1>1, <1>13 DEF vars, arweaveVars, cryptoVars, ShapeInv
<1>14. QED BY <1>9, <1>10, <1>11, <1>12, <1>13 DEF Next

\* Vault: the types of its state, the cache never above its size and with one
\* answer to a transaction, no id expired that has no key, no key lost that was
\* not made.
THEOREM VaultTypeCorrect == Spec => []TypeOK
<1> DEFINE Inv == StoreInv /\ ReadInv /\ KeyInv /\ HeldInv /\ CacheInv /\ ShapeInv
<1>1. Init => Inv
  <2> SUFFICES ASSUME Init PROVE Inv
    OBVIOUS
  <2>1. StoreInv /\ ReadInv /\ KeyInv /\ HeldInv
    BY StoreInitInv, ReadInitInv, KeyInitInv DEF Init, HeldInv
  <2>2. CacheInv
    <3>1. cache = <<>>
      BY DEF Init, ArweaveInit
    <3>2. Len(cache) = 0 /\ DOMAIN cache = {}
      BY <3>1
    <3>3. QED BY <3>2, ArweaveAssumption DEF CacheInv
  <2>3. ShapeInv
    BY EncryptionAssumption DEF Init, ArweaveInit, EncryptionInit, ShapeInv, NoKey, NoBox
  <2>4. QED BY <2>1, <2>2, <2>3
<1>2. Inv /\ [Next]_vars => Inv'
  BY StoreStep, ReadStep, KeyStep, HeldStep, CacheStep, ShapeStep
<1>3. Inv => TypeOK
  <2> SUFFICES ASSUME Inv PROVE TypeOK
    OBVIOUS
  <2>1. ArweaveTypeOK
    <3>1. Len(cache) <= MaxSize /\ Cardinality({cache[i].tx : i \in DOMAIN cache}) = Len(cache)
      BY CacheCounted DEF ReadInv, CacheInv
    <3>2. \A r \in Reads : read[r].state \in {"idle", "asking", "answered", "failed"}
      BY DEF ReadInv, ReadRows
    <3>3. QED BY <3>1, <3>2 DEF ArweaveTypeOK, StoreInv, ShapeInv
  <2>2. EncryptionTypeOK
    <3>1. made \in 0..KeysMax /\ lost \subseteq 1..KeysMax
      BY EncryptionAssumption DEF KeyInv, ShapeInv
    <3>2. keys \in [KeyIds -> 0..KeysMax]
      BY EncryptionAssumption DEF KeyInv, ShapeInv
    <3>3. box \in [Boxes -> [state : {"none", "compressing", "sealed"},
                             id : KeyIds \cup {Password}, key : 0..KeysMax]]
      <4>1. \A b \in Boxes : /\ box[b] \in BoxRows /\ box[b].key \in 0..KeysMax
        BY EncryptionAssumption DEF KeyInv, ShapeInv, BoxRows
      <4>2. \A row \in BoxRows : row.key \in 0..KeysMax =>
               row \in [state : {"none", "compressing", "sealed"}, id : KeyIds \cup {Password},
                        key : 0..KeysMax]
        BY DEF BoxRows
      <4>3. QED BY <4>1, <4>2 DEF KeyInv
    <3>4. QED BY <3>1, <3>2, <3>3 DEF EncryptionTypeOK, ShapeInv
  <2>3. QED BY <2>1, <2>2 DEF TypeOK, HeldInv, ShapeInv
<1>4. QED BY <1>1, <1>2, <1>3, PTL DEF Spec

-----------------------------------------------------------------------------
(* Keys are told apart *)

\* No two ids lead to one key, and no id to a lost one.
KeysApart ==
    /\ \A j, k \in KeyIds : keys[j] = keys[k] /\ keys[j] # NoKey => j = k
    /\ \A k \in KeyIds : keys[k] \notin lost

\* A key that is made has a number that none had; one that is lost had its id
\* taken.
LEMMA KeysApartStep ==
    ASSUME KeyInv, ShapeInv, KeysApart, [Next]_vars
    PROVE  KeysApart'
<1>1. /\ made \in Nat /\ keys \in [KeyIds -> Nat]
      /\ \A k \in KeyIds : keys[k] <= made
      /\ \A n \in lost : n \in 1..made
  BY DEF KeyInv, ShapeInv
<1>2. ASSUME UNCHANGED <<keys, lost>> PROVE KeysApart'
  BY <1>2 DEF KeysApart
<1>3. ASSUME NEW k \in KeyIds, GenerateKey(k) PROVE KeysApart'
  <2>1. keys' = [keys EXCEPT ![k] = made + 1] /\ lost' = lost \cup ({keys[k]} \ {NoKey})
    BY <1>3 DEF GenerateKey
  <2>2. made + 1 \notin lost /\ made + 1 # keys[k]
    BY <1>1
  <2>3. \A j \in KeyIds \ {k} : keys'[j] = keys[j] /\ keys[j] # made + 1 /\ keys[j] \notin lost'
    BY <1>1, <2>1 DEF KeysApart
  <2>4. QED BY <1>1, <2>1, <2>2, <2>3 DEF KeysApart
<1>4. ASSUME NEW k \in KeyIds, NEW new \in KeyIds, RotateKey(k, new) PROVE KeysApart'
  <2>1. keys' = [keys EXCEPT ![new] = made + 1] /\ lost' = lost
    BY <1>4 DEF RotateKey
  <2>2. made + 1 \notin lost /\ \A j \in KeyIds : keys[j] # made + 1
    BY <1>1
  <2>3. QED BY <1>1, <2>1, <2>2 DEF KeysApart
<1>5. CASE Restart
  <2>1. keys' = [k \in KeyIds |-> NoKey]
        /\ lost' = lost \cup ({keys[k] : k \in KeyIds} \ {NoKey})
    BY <1>5 DEF Restart, EncryptionRestart
  <2>2. NoKey \notin lost
    BY <1>1 DEF NoKey
  <2>3. QED BY <2>1, <2>2 DEF KeysApart
<1>6. CASE Storing \/ Retrieving \/ UNCHANGED vars
  BY <1>2, <1>6 DEF Storing, Uploading, Retrieving, PostUpload, PostAttestation, PostKyc,
                    GetRetrieve, AnswerRetrieve, vars, cryptoVars
<1>7. CASE Sealing
  <2>1. ASSUME NEW b, NEW id, PostEncrypt(b, id) \/ AnswerEncrypt(b) PROVE UNCHANGED <<keys, lost>>
    BY <2>1 DEF PostEncrypt, EncryptStart, AnswerEncrypt, EncryptDone, EncryptFails
  <2>2. ASSUME NEW k, KeyExpires(k) PROVE UNCHANGED <<keys, lost>>
    BY <2>2 DEF KeyExpires
  <2>3. QED BY <1>2, <1>3, <1>4, <1>7, <2>1, <2>2, GeneratedAssumption
            DEF Sealing, PostGenerateKey, Keys
<1>8. QED BY <1>5, <1>6, <1>7 DEF Next

\* EncryptionService: decryption opens what was sealed exactly as long as the key
\* that sealed it is not lost.
THEOREM BoxesOpenIffKept == Spec => []OpensIffKept
<1> DEFINE Inv == StoreInv /\ KeyInv /\ ShapeInv /\ KeysApart
                  /\ \A b \in Boxes : box[b].id = Password => box[b].key = NoKey
<1>1. Init => Inv
  <2>1. Init => StoreInv /\ KeyInv
    BY StoreInitInv, KeyInitInv DEF Init
  <2>2. Init => ShapeInv
    BY EncryptionAssumption DEF Init, ArweaveInit, EncryptionInit, ShapeInv, NoKey, NoBox
  <2>3. Init => KeysApart /\ \A b \in Boxes : box[b].id = Password => box[b].key = NoKey
    BY DEF Init, EncryptionInit, KeysApart, NoBox
  <2>4. QED BY <2>1, <2>2, <2>3
<1>2. Inv /\ [Next]_vars => Inv'
  <2> SUFFICES ASSUME Inv, [Next]_vars PROVE Inv'
    OBVIOUS
  <2>1. \A b \in Boxes : box'[b].id = Password => box'[b].key = NoKey
    <3>1. ASSUME NEW b \in Boxes, NEW id \in KeyIds \cup {Password}, EncryptStart(b, id)
          PROVE  \A c \in Boxes : box'[c].id = Password => box'[c].key = NoKey
      BY <3>1 DEF EncryptStart, KeyInv
    <3>2. ASSUME NEW b \in Boxes, EncryptDone(b)
          PROVE  \A c \in Boxes : box'[c].id = Password => box'[c].key = NoKey
      BY <3>2 DEF EncryptDone, KeyInv, BoxRows
    <3>3. ASSUME NEW b \in Boxes, EncryptFails(b)
          PROVE  \A c \in Boxes : box'[c].id = Password => box'[c].key = NoKey
      BY <3>3 DEF EncryptFails, KeyInv, NoBox
    <3>4. CASE Restart
      BY <3>4 DEF Restart, EncryptionRestart, KeyInv, NoBox
    <3>5. CASE UNCHANGED box
      BY <3>5
    <3>6. ASSUME NEW k, NEW new, GenerateKey(k) \/ KeyExpires(k) \/ RotateKey(k, new)
          PROVE  UNCHANGED box
      BY <3>6 DEF GenerateKey, KeyExpires, RotateKey
    <3>7. CASE Storing \/ Retrieving \/ UNCHANGED vars
      BY <3>5, <3>7 DEF Storing, Uploading, Retrieving, PostUpload, PostAttestation, PostKyc,
                        GetRetrieve, AnswerRetrieve, vars, cryptoVars
    <3>8. CASE Sealing
      BY <3>1, <3>2, <3>3, <3>5, <3>6, <3>8
         DEF Sealing, PostGenerateKey, PostEncrypt, AnswerEncrypt, Keys
    <3>9. QED BY <3>4, <3>7, <3>8 DEF Next
  <2>2. QED BY <2>1, StoreStep, KeyStep, ShapeStep, KeysApartStep
<1>3. Inv => OpensIffKept
  <2> SUFFICES ASSUME Inv, NEW b \in Boxes, box[b].state = "sealed"
               PROVE  PostDecrypt(b, TRUE) = 200 <=> box[b].key \notin lost
    BY DEF OpensIffKept
  <2>1. CASE box[b].id = Password
    <3>1. box[b].key \notin lost
      BY <2>1 DEF ShapeInv, KeyInv, NoKey
    <3>2. QED BY <2>1, <3>1 DEF PostDecrypt, Decrypt
  <2>2. CASE box[b].id # Password
    <3>1. box[b].id \in KeyIds /\ box[b].key # NoKey
          /\ (keys[box[b].id] = box[b].key \/ box[b].key \in lost)
      BY <2>2 DEF KeyInv, BoxRows
    <3>2. keys[box[b].id] = box[b].key <=> box[b].key \notin lost
      BY <3>1 DEF KeysApart
    <3>3. PostDecrypt(b, TRUE) = 200 <=> keys[box[b].id] = box[b].key
      BY <2>2, <3>1 DEF PostDecrypt, Decrypt
    <3>4. QED BY <3>2, <3>3
  <2>3. QED BY <2>1, <2>2
<1>4. QED BY <1>1, <1>2, <1>3, PTL DEF Spec

\* EncryptionService behind the storage routes: KYC data that was answered as
\* stored can be opened exactly as long as its key is not overwritten or gone
\* with its process.
THEOREM KycDataIsRecoverable == Spec => []Recoverable
<1>1. Init => StoreInv /\ KeyInv /\ HeldInv
  BY StoreInitInv, KeyInitInv DEF Init, HeldInv
<1>2. StoreInv /\ KeyInv /\ HeldInv /\ [Next]_vars => (StoreInv /\ KeyInv /\ HeldInv)'
  BY StoreStep, KeyStep, HeldStep
<1>3. StoreInv /\ HeldInv /\ OpensIffKept => Recoverable
  <2> SUFFICES ASSUME StoreInv, HeldInv, OpensIffKept, NEW c \in Calls,
                      stored[c] = "stored", held[c] # NoBoxes
               PROVE  /\ <<c, 0>> \in network
                      /\ PostDecrypt(held[c], TRUE) = 200 <=> box[held[c]].key \notin lost
    BY DEF Recoverable
  <2>1. <<c, 0>> \in network
    <3>1. Uploads(c) \subseteq network
      BY DEF StoreInv
    <3>2. <<c, 0>> \in Uploads(c)
      BY ArweaveAssumption DEF Uploads, LastUpload
    <3>3. QED BY <3>1, <3>2
  <2>2. held[c] \in Boxes /\ box[held[c]].state = "sealed"
    BY DEF HeldInv
  <2>3. QED BY <2>1, <2>2 DEF OpensIffKept
<1>4. QED BY <1>1, <1>2, <1>3, BoxesOpenIffKept, PTL DEF Spec
=============================================================================
