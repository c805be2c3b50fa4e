----------------------------- MODULE Encryption -----------------------------
(***************************************************************************)
(* EncryptionService: keys in memory, boxes that clients hold.             *)
(*                                                                         *)
(* Every key drawn or derived is a number of its own, and 0 is no key.  A  *)
(* box made with a password carries the salt of its key and needs nothing  *)
(* of the service.  Apart from compression, which leaves the thread, every *)
(* await is for a settled promise.                                         *)
(***************************************************************************)
EXTENDS Naturals, FiniteSets

CONSTANTS KeyIds,    \* the ids of keys, chosen by callers or generated
          Boxes,     \* encryptions
          KeysMax    \* bound on the keys ever made

ASSUME EncryptionAssumption == KeysMax \in Nat

NoKey == 0
Password == "password"

VARIABLES
    keys,      \* the key under each id
    expired,   \* the ids whose expiresAt is over
    made,      \* how many keys were made
    box,       \* what an encryption has come to: its state, key id and key
    lost       \* keys no id leads to any more: replaced, or gone with a process

cryptoVars == <<keys, expired, made, box, lost>>

NoBox == [state |-> "none", id |-> Password, key |-> NoKey]

EncryptionInit ==
    /\ keys = [k \in KeyIds |-> NoKey]
    /\ expired = {} /\ made = 0 /\ lost = {}
    /\ box = [b \in Boxes |-> NoBox]

\* The id is the caller's, who may name one that is taken, or a new one.
GenerateKey(k) ==
    /\ made < KeysMax
    /\ made' = made + 1
    /\ keys' = [keys EXCEPT ![k] = made + 1]
    /\ expired' = expired \ {k}
    /\ lost' = lost \cup ({keys[k]} \ {NoKey})
    /\ UNCHANGED box

RotateKey_InPlace(k, new) ==
    /\ keys[k] # NoKey /\ made < KeysMax
    /\ made' = made + 1
    /\ keys' = [keys EXCEPT ![k] = made + 1]
    /\ UNCHANGED <<expired, box, lost>>
\* A new key under a new id; the old one stays, and expires now.
RotateKey(k, new) ==
    /\ keys[k] # NoKey /\ keys[new] = NoKey /\ made < KeysMax
    /\ made' = made + 1
    /\ keys' = [keys EXCEPT ![new] = made + 1]
    /\ expired' = (expired \ {new}) \cup {k}
    /\ UNCHANGED <<box, lost>>

\* An expiresIn that was asked for is over.
KeyExpires(k) ==
    /\ keys[k] # NoKey
    /\ expired' = expired \cup {k}
    /\ UNCHANGED <<keys, made, box, lost>>

\* encrypt takes the key, expired or not, and compresses.
EncryptStart(b, id) ==
    /\ box[b].state = "none"
    /\ id # Password => keys[id] # NoKey
    /\ box' = [box EXCEPT ![b] = [state |-> "compressing", id |-> id,
                                  key |-> IF id = Password THEN NoKey ELSE keys[id]]]
    /\ UNCHANGED <<keys, expired, made, lost>>

\* The key it took seals the box, whatever has become of that key's id.
EncryptDone(b) ==
    /\ box[b].state = "compressing"
    /\ box' = [box EXCEPT ![b].state = "sealed"]
    /\ UNCHANGED <<keys, expired, made, lost>>

EncryptFails(b) ==
    /\ box[b].state = "compressing"
    /\ box' = [box EXCEPT ![b] = NoBox]
    /\ UNCHANGED <<keys, expired, made, lost>>

\* What decrypt answers for the ciphertext of a box, or for one that is not
\* what was sealed: the authentication tag tells both a wrong key and wrong data.
Decrypt(b, intact) ==
    LET id == box[b].id IN
    IF id # Password /\ keys[id] = NoKey THEN "KEY_NOT_FOUND"
    ELSE IF ~intact \/ (id # Password /\ keys[id] # box[b].key) THEN "AUTH_FAILED"
    ELSE "plain"

\* The keys were in memory only.
EncryptionRestart ==
    /\ keys' = [k \in KeyIds |-> NoKey]
    /\ expired' = {}
    /\ lost' = lost \cup ({keys[k] : k \in KeyIds} \ {NoKey})
    /\ box' = [b \in Boxes |-> IF box[b].state = "compressing" THEN NoBox ELSE box[b]]
    /\ UNCHANGED made

EncryptionTypeOK ==
    /\ keys \in [KeyIds -> 0..KeysMax] /\ made \in 0..KeysMax
    /\ expired \subseteq {k \in KeyIds : keys[k] # NoKey}
    /\ box \in [Boxes -> [state : {"none", "compressing", "sealed"},
                          id : KeyIds \cup {Password}, key : 0..KeysMax]]
    /\ lost \subseteq 1..KeysMax
=============================================================================
