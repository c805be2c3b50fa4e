------------------------------ MODULE Batches ------------------------------
(***************************************************************************)
(* EasService.createBatchAttestations: the requests of a call are sent in  *)
(* batches, one transaction for each, and the next batch is sent when the  *)
(* one before it is mined.  A batch whose wait failed is sent again, and   *)
(* both transactions may be mined.  What was made is stored at the end.    *)
(*                                                                         *)
(* The attestation of request i of batch n, made by attempt k to send it,  *)
(* is named <<n, k, i>>.                                                   *)
(***************************************************************************)
EXTENDS Naturals, Sequences

CONSTANTS BatchInputs,  \* the lists of verification results a call is given
          BatchSize,    \* requests in a batch (10 in the code)
          MaxAttempts,  \* of executeWithRetry (3 in the code)
          MaxBatches    \* bound: batches in a call

Results == [status : STRING, confidence : Nat]

ASSUME BatchesAssumption ==
    /\ BatchSize \in Nat \ {0} /\ MaxAttempts \in Nat \ {0} /\ MaxBatches \in Nat \ {0}
    /\ \A list \in BatchInputs :
          list \in Seq(Results) /\ (Len(list) + BatchSize - 1) \div BatchSize <= MaxBatches

VARIABLES
    inputs,      \* the requests of the call, one verification result each
    batchTx,     \* the transactions of the batches, by batch and attempt
    batch,       \* where the call is: its step, its batch and attempt
    made,        \* the attestations the call will report: their uid and their data
    uploads,     \* the attestations being stored
    stored,      \* those that were
    readable,    \* the logs of the contract have the form the code parses
    arweave      \* an Arweave service is configured

batchVars == <<inputs, batchTx, batch, made, uploads, stored, readable, arweave>>

Least(a, b) == IF a < b THEN a ELSE b
BatchCount == (Len(inputs) + BatchSize - 1) \div BatchSize
\* attestationRequests.slice(i, i + batchSize), of the n-th round.
Slice(n) == SubSeq(inputs, (n - 1) * BatchSize + 1, Least(n * BatchSize, Len(inputs)))
BatchNumbers == 1..MaxBatches
BatchUids == BatchNumbers \X (1..MaxAttempts)

BatchesInit ==
    /\ inputs = <<>>
    /\ batchTx = [u \in BatchUids |-> "none"]
    /\ batch = [at |-> "idle", n |-> 1, attempt |-> 1]
    /\ made = <<>> /\ uploads = {} /\ stored = {}
    /\ readable \in BOOLEAN /\ arweave \in BOOLEAN

-----------------------------------------------------------------------------
(* transformKycToAttestationData *)

MapKycStatus(status) ==
    CASE status = "completed" -> "verified"
      [] status \in {"failed", "expired"} -> status
      [] OTHER -> "pending"

\* From the confidence alone: not the level the provider gave.
CalculateRiskLevel(confidence) ==
    IF confidence < 60 THEN "critical"
    ELSE IF confidence < 80 THEN "high"
    ELSE IF confidence < 90 THEN "medium" ELSE "low"

AttestationData(result) ==
    [verificationStatus |-> MapKycStatus(result.status),
     riskLevel |-> CalculateRiskLevel(result.confidence)]

-----------------------------------------------------------------------------
(* The call *)

CurrentTx == <<batch.n, batch.attempt>>
BatchAt(at) == batch' = [batch EXCEPT !.at = at]

\* validateRequest of every request before anything is sent: a recipient that
\* is an address, and a result of whatever status.
CreateBatch(list, valid) ==
    /\ batch.at = "idle"
    /\ inputs' = list
    /\ BatchAt(IF ~valid THEN "failed" ELSE IF list = <<>> THEN "done" ELSE "send")
    /\ UNCHANGED <<batchTx, made, uploads, stored, readable, arweave>>

\* executeWithRetry after an error: again, while the error is one of those
\* worth a retry and attempts are left.
RetryBatch(retryable) ==
    batch' = IF retryable /\ batch.attempt < MaxAttempts
             THEN [batch EXCEPT !.at = "send", !.attempt = @ + 1]
             ELSE [batch EXCEPT !.at = "failed"]

\* multiAttest returns, or throws with the transaction taken or not.
SendBatch(taken, throws, retryable) ==
    /\ batch.at = "send"
    /\ throws \/ taken
    /\ batchTx' = IF taken THEN [batchTx EXCEPT ![CurrentTx] = "pending"] ELSE batchTx
    /\ IF throws THEN RetryBatch(retryable) ELSE BatchAt("wait")
    /\ UNCHANGED <<inputs, made, uploads, stored, readable, arweave>>

BatchConfirmed_Unmined == TRUE
BatchConfirmed == batchTx[CurrentTx] = "mined"

\* wait() resolves with the receipt.
BatchReceipt ==
    /\ batch.at = "wait" /\ BatchConfirmed
    /\ BatchAt("process")
    /\ UNCHANGED <<inputs, batchTx, made, uploads, stored, readable, arweave>>

\* wait() throws, whatever becomes of the transaction.
BatchWaitFails(retryable) ==
    /\ batch.at = "wait"
    /\ RetryBatch(retryable)
    /\ UNCHANGED <<inputs, batchTx, made, uploads, stored, readable, arweave>>

Paired_FromTheStart(i) == inputs[i]
\* The request a uid is paired with, by its position in the logs of the batch.
Paired(i) == Slice(batch.n)[i]

\* processBatchReceipt.  Logs that cannot be parsed are skipped, and what they
\* made is not reported.
ProcessBatchReceipt ==
    LET size == IF readable THEN Len(Slice(batch.n)) ELSE 0 IN
    /\ batch.at = "process"
    /\ made' = made \o [i \in 1..size |-> [uid |-> CurrentTx \o <<i>>, data |-> AttestationData(Paired(i))]]
    /\ IF batch.n < BatchCount
       THEN batch' = [at |-> "send", n |-> batch.n + 1, attempt |-> 1] /\ UNCHANGED uploads
       ELSE BatchAt("store") /\ uploads' = {made'[j].uid : j \in DOMAIN made'}
    /\ UNCHANGED <<inputs, batchTx, stored, readable, arweave>>

\* getBlock throws, or finds no block.
BlockMissing ==
    /\ batch.at = "process"
    /\ BatchAt("failed")
    /\ UNCHANGED <<inputs, batchTx, made, uploads, stored, readable, arweave>>

\* storeAttestation, of all at once.  Only the upload to Arweave can fail, and
\* the first failure ends the call while the other uploads go on.
StoreAttestation(u, fails) ==
    /\ u \in uploads
    /\ fails => arweave
    /\ uploads' = uploads \ {u}
    /\ stored' = IF fails THEN stored ELSE stored \cup {u}
    /\ IF fails THEN BatchAt("failed") ELSE UNCHANGED batch
    /\ UNCHANGED <<inputs, batchTx, made, readable, arweave>>

BatchDone ==
    /\ batch.at = "store" /\ uploads = {}
    /\ BatchAt("done")
    /\ UNCHANGED <<inputs, batchTx, made, uploads, stored, readable, arweave>>

\* The chain mines a transaction, whole, or drops it.
SettleBatch(u) ==
    /\ batchTx[u] = "pending"
    /\ \E status \in {"mined", "dropped"} : batchTx' = [batchTx EXCEPT ![u] = status]
    /\ UNCHANGED <<inputs, batch, made, uploads, stored, readable, arweave>>

BatchesNext ==
    \/ \E list \in BatchInputs, valid \in BOOLEAN : CreateBatch(list, valid)
    \/ \E taken, throws, retryable \in BOOLEAN : SendBatch(taken, throws, retryable)
    \/ BatchReceipt \/ ProcessBatchReceipt \/ BlockMissing \/ BatchDone
    \/ \E retryable \in BOOLEAN : BatchWaitFails(retryable)
    \/ \E u \in uploads, fails \in BOOLEAN : StoreAttestation(u, fails)
    \/ \E u \in BatchUids : SettleBatch(u)

-----------------------------------------------------------------------------
BatchesTypeOK ==
    /\ inputs \in BatchInputs \cup {<<>>} /\ BatchCount \in BatchNumbers \cup {0}
    /\ batchTx \in [BatchUids -> {"none", "pending", "mined", "dropped"}]
    /\ batch \in [at : {"idle", "send", "wait", "process", "store", "failed", "done"},
                  n : BatchNumbers, attempt : 1..MaxAttempts]
    /\ uploads \cup stored \subseteq {made[j].uid : j \in DOMAIN made}
    /\ readable \in BOOLEAN /\ arweave \in BOOLEAN

Mined(n) == \E k \in 1..MaxAttempts : batchTx[<<n, k>>] = "mined"

\* A call that fails halfway leaves an initial run of its batches on the chain,
\* not others, and one that succeeds has them all there.  What it reports was
\* made, with the data it reports, and no request is reported twice although
\* its batch may have been sent, and mined, more than once.
WholeBatches ==
    /\ \A n \in BatchNumbers : Mined(n) => \A m \in 1..n : Mined(m)
    /\ batch.at = "done" => \A n \in 1..BatchCount : Mined(n)
    /\ \A j \in DOMAIN made :
          LET u == made[j].uid IN
          /\ batchTx[<<u[1], u[2]>>] = "mined"
          /\ made[j].data = AttestationData(Slice(u[1])[u[3]])
          /\ \A l \in 1..(j - 1) : <<made[l].uid[1], made[l].uid[3]>> # <<u[1], u[3]>>
    /\ batch.at = "done" /\ readable => Len(made) = Len(inputs)
=============================================================================
