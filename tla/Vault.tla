------------------------------- MODULE Vault -------------------------------
(***************************************************************************)
(* The encryption and storage routers over their services: clients have    *)
(* data sealed, store what was sealed as KYC data, and fetch and open it   *)
(* later.  Stored data is permanent and the keys to it are in the memory   *)
(* of a process.                                                           *)
(***************************************************************************)
EXTENDS Arweave, Encryption

CONSTANT Generated  \* the key ids of generateKeyId, which are no UUIDs

ASSUME GeneratedAssumption == Generated \subseteq KeyIds

VARIABLES
    held,   \* the boxes that calls store
    about   \* what a behaviour is about

vars == <<arweaveVars, cryptoVars, held, about>>

NoBoxes == "no box"

\* Retrievals neither read nor write what keys and stores do, apart from the
\* network: to keep the state graph a sum rather than a product, a behaviour is
\* about sealing and storing or about storing and retrieving.
Init ==
    /\ ArweaveInit /\ EncryptionInit
    /\ held = [c \in Calls |-> NoBoxes]
    /\ about \in {"sealing", "retrieving"}

-----------------------------------------------------------------------------
(* /api/v1/encryption *)

PostGenerateKey(k) == GenerateKey(k) /\ UNCHANGED <<arweaveVars, held, about>>

\* The id of a key has to be a UUID to be let in, if there is one.
PostEncrypt(b, id) ==
    /\ id \notin Generated
    /\ EncryptStart(b, id)
    /\ UNCHANGED <<arweaveVars, held, about>>
AnswerEncrypt(b) ==
    /\ EncryptDone(b) \/ EncryptFails(b)
    /\ UNCHANGED <<arweaveVars, held, about>>

\* The status of the answer for a box, or for something that is not one.
PostDecrypt(b, intact) == IF Decrypt(b, intact) = "plain" THEN 200 ELSE 400

\* What the service offers and no route leads to, and time.
Keys ==
    /\ \E k \in KeyIds : KeyExpires(k) \/ \E new \in Generated : RotateKey(k, new)
    /\ UNCHANGED <<arweaveVars, held, about>>

Sealing ==
    \/ \E k \in KeyIds : PostGenerateKey(k)
    \/ \E b \in Boxes : (\E id \in KeyIds \cup {Password} : PostEncrypt(b, id)) \/ AnswerEncrypt(b)
    \/ Keys

-----------------------------------------------------------------------------
(* /api/v1/storage/arweave *)

PostUpload(c, honest) ==
    StoreStart(c, "data", honest) /\ UNCHANGED <<cryptoVars, held, about>>
PostAttestation(c) ==
    StoreStart(c, "attestation", TRUE) /\ UNCHANGED <<cryptoVars, held, about>>
PostKyc(c, b) ==
    /\ b # NoBoxes => box[b].state = "sealed"
    /\ StoreStart(c, "kyc", TRUE)
    /\ held' = [held EXCEPT ![c] = b]
    /\ UNCHANGED <<cryptoVars, about>>
Uploading ==
    /\ WalletLoaded \/ (\E t \in Txs : UploadDone(t) \/ UploadFails(t))
                    \/ \E c \in Calls : DocumentsStart(c) \/ StoreDone(c) \/ StoreFails(c)
    /\ UNCHANGED <<cryptoVars, held, about>>
Storing ==
    \/ \E c \in Calls : \/ \E honest \in BOOLEAN : PostUpload(c, honest)
                        \/ PostAttestation(c)
                        \/ \E b \in Boxes \cup {NoBoxes} : PostKyc(c, b)
    \/ Uploading

GetRetrieve(r, t, verify, preferred) ==
    /\ ReadHit(r, t, verify) \/ ReadStart(r, t, verify, preferred)
    /\ UNCHANGED <<cryptoVars, held, about>>
AnswerRetrieve(r) ==
    /\ GatewayFails(r) \/ \E intact \in BOOLEAN : GatewayAnswers(r, intact)
    /\ UNCHANGED <<cryptoVars, held, about>>
Retrieving ==
    \E r \in Reads : \/ \E t \in network, verify, preferred \in BOOLEAN :
                           GetRetrieve(r, t, verify, preferred)
                     \/ AnswerRetrieve(r)

\* A crash, or the rejection of a wallet that cannot be read, which the process
\* takes for a reason to shut down.
Restart == ArweaveRestart /\ EncryptionRestart /\ UNCHANGED <<held, about>>

Next == \/ about = "sealing" /\ Sealing
        \/ about = "retrieving" /\ Retrieving
        \/ Storing \/ Restart

Spec == Init /\ [][Next]_vars

-----------------------------------------------------------------------------
TypeOK ==
    /\ ArweaveTypeOK /\ EncryptionTypeOK
    /\ held \in [Calls -> Boxes \cup {NoBoxes}]
    /\ about \in {"sealing", "retrieving"}

\* What was sealed opens exactly as long as its key is not lost: no generated or
\* rotated key ever opens a box that another one sealed.
OpensIffKept ==
    \A b \in Boxes : box[b].state = "sealed" =>
       (PostDecrypt(b, TRUE) = 200 <=> box[b].key \notin lost)

\* KYC data that was answered as stored is on the network, and its box opens
\* unless generateKey was given the id of its key again or the process that had
\* it is gone, and then never again: rotation and expiry, before, during or
\* after the encryption or the upload, never take the key away.
Recoverable ==
    \A c \in Calls : stored[c] = "stored" /\ held[c] # NoBoxes =>
       /\ <<c, 0>> \in network
       /\ PostDecrypt(held[c], TRUE) = 200 <=> box[held[c]].key \notin lost
=============================================================================
