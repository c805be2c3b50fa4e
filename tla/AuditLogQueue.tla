---------------------------- MODULE AuditLogQueue ----------------------------
(***************************************************************************)
(* AuditLogQueue: entries are pushed to a Redis list and moved to the      *)
(* audit_logs table in batches by a timer callback; without Redis, or when *)
(* the push fails, an entry is written to the table directly.              *)
(*                                                                         *)
(* Redis and the database are external: a command may fail, and a command  *)
(* whose reply is lost may have been executed.  Several timer callbacks    *)
(* may be under way; isProcessing is what keeps all but one out.           *)
(***************************************************************************)
EXTENDS Naturals, Sequences, SequencesExt

CONSTANTS Entries,     \* audit log entries, each enqueued once
          Callbacks,   \* timer callbacks that may be under way together
          BatchSize,   \* BATCH_SIZE
          InsertOutcomes,  \* of an insert: see Write
          MaxRestarts  \* bound: how often the process restarts

ASSUME ConstantsAssumption ==
    /\ BatchSize \in Nat \ {0}
    /\ InsertOutcomes \in {{FALSE}, BOOLEAN}
    /\ MaxRestarts \in Nat

VARIABLES
    enabled,       \* redis.isEnabled()
    queue,         \* the Redis list audit_logs:queue
    table,         \* the rows of audit_logs, in the order of insertion
    pc,            \* where the enqueue of an entry is
    timer,         \* processingInterval is set
    isProcessing,
    cb,            \* where a timer callback is
    batch,         \* the entries a callback has taken
    restarts,
    pushed,        \* history: entries in the order they entered the list
    unsure,        \* history: entries pushed although the push failed
    dropped        \* history: entries whose batch, row or command was given up

server == <<queue, table>>
worker == <<timer, isProcessing, cb, batch>>
history == <<pushed, unsure, dropped>>
vars == <<enabled, server, pc, worker, restarts, history>>

Init ==
    /\ enabled \in BOOLEAN
    /\ queue = <<>> /\ table = <<>>
    /\ pc = [e \in Entries |-> "new"]
    /\ timer = TRUE
    /\ isProcessing = FALSE
    /\ cb = [w \in Callbacks |-> "idle"]
    /\ batch = [w \in Callbacks |-> <<>>]
    /\ restarts = 0
    /\ pushed = <<>> /\ unsure = {} /\ dropped = {}

Goto(e, label) == pc' = [pc EXCEPT ![e] = label]

-----------------------------------------------------------------------------
(* enqueue *)

Enqueue(e) ==
    /\ pc[e] = "new"
    /\ Goto(e, IF enabled THEN "push" ELSE "direct")
    /\ UNCHANGED <<enabled, server, worker, restarts, history>>

PushDone(e) ==
    /\ pc[e] = "push"
    /\ queue' = Append(queue, e)
    /\ pushed' = Append(pushed, e)
    /\ Goto(e, "returned")
    /\ UNCHANGED <<enabled, table, worker, restarts, unsure, dropped>>

\* The catch branch of enqueue: a direct write.
Fallback(e) == Goto(e, "direct")

\* rpush throws, before or after the server appended the entry.
PushFails(e, appended) ==
    /\ pc[e] = "push"
    /\ queue' = IF appended THEN Append(queue, e) ELSE queue
    /\ pushed' = IF appended THEN Append(pushed, e) ELSE pushed
    /\ unsure' = IF appended THEN unsure \cup {e} ELSE unsure
    /\ Fallback(e)
    /\ UNCHANGED <<enabled, table, worker, restarts, dropped>>

\* getClient() has no client: the optional call does nothing.
PushSkipped(e) ==
    /\ pc[e] = "push"
    /\ dropped' = dropped \cup {e}
    /\ Goto(e, "returned")
    /\ UNCHANGED <<enabled, server, worker, restarts, pushed, unsure>>

\* writeToDatabase inserts the rows, or logs the database error and returns.
\* The knex that auditLogQueue.ts imports is the factory and not the instance
\* made from dbConfig: with it InsertOutcomes is {FALSE}, with a configured
\* instance BOOLEAN.  BOOLEAN has every behaviour of {FALSE} and those meant.
Write(rows, ok) ==
    /\ ok \in InsertOutcomes
    /\ table' = IF ok THEN table \o rows ELSE table
    /\ dropped' = IF ok THEN dropped ELSE dropped \cup ToSet(rows)

DirectWrite(e, ok) ==
    /\ pc[e] = "direct"
    /\ Write(<<e>>, ok)
    /\ Goto(e, "returned")
    /\ UNCHANGED <<enabled, queue, worker, restarts, pushed, unsure>>

-----------------------------------------------------------------------------
(* The timer callback *)

MayProcess_Reentrant == enabled
MayProcess == ~isProcessing /\ enabled

Tick(w) ==
    /\ timer /\ cb[w] = "idle"
    /\ MayProcess
    /\ isProcessing' = TRUE
    /\ cb' = [cb EXCEPT ![w] = "pop"]
    /\ UNCHANGED <<enabled, server, pc, timer, batch, restarts, history>>

Taken == SubSeq(queue, 1, IF Len(queue) < BatchSize THEN Len(queue) ELSE BatchSize)
Rest_Peeked == queue
Rest_OneMore == SubSeq(queue, Len(Taken) + 2, Len(queue))
Rest == SubSeq(queue, Len(Taken) + 1, Len(queue))

EndCallback_KeepFlag(w) ==
    /\ cb' = [cb EXCEPT ![w] = "idle"]
    /\ batch' = [batch EXCEPT ![w] = <<>>]
    /\ UNCHANGED <<timer, isProcessing>>
EndCallback_KeepBatch(w) ==
    /\ cb' = [cb EXCEPT ![w] = "idle"]
    /\ isProcessing' = FALSE
    /\ UNCHANGED <<timer, batch>>
\* The callback ends and clears isProcessing (the finally branch).
EndCallback(w) ==
    /\ cb' = [cb EXCEPT ![w] = "idle"]
    /\ batch' = [batch EXCEPT ![w] = <<>>]
    /\ isProcessing' = FALSE
    /\ UNCHANGED timer

\* MULTI ... EXEC answers with BATCH_SIZE LPOPs, done at one time.
Pop(w) ==
    /\ cb[w] = "pop"
    /\ queue' = Rest
    /\ IF Taken = <<>>
       THEN EndCallback(w)
       ELSE /\ cb' = [cb EXCEPT ![w] = "write"]
            /\ batch' = [batch EXCEPT ![w] = Taken]
            /\ UNCHANGED <<timer, isProcessing>>
    /\ UNCHANGED <<enabled, table, pc, restarts, history>>

\* exec throws or returns null, before or after the server ran it.
PopFails(w, executed) ==
    /\ cb[w] = "pop"
    /\ queue' = IF executed THEN Rest ELSE queue
    /\ dropped' = IF executed THEN dropped \cup ToSet(Taken) ELSE dropped
    /\ EndCallback(w)
    /\ UNCHANGED <<enabled, table, pc, restarts, pushed, unsure>>

BatchWrite(w, ok) ==
    /\ cb[w] = "write"
    /\ Write(batch[w], ok)
    /\ EndCallback(w)
    /\ UNCHANGED <<enabled, queue, pc, restarts, pushed, unsure>>

\* stop(): no further callback starts; the one under way goes on.
Stop ==
    /\ timer
    /\ timer' = FALSE
    /\ UNCHANGED <<enabled, server, pc, isProcessing, cb, batch, restarts, history>>

-----------------------------------------------------------------------------
(* Redis and the process *)

RedisChange ==
    /\ enabled' = ~enabled
    /\ UNCHANGED <<server, pc, worker, restarts, history>>

\* The process restarts: calls and batches are gone, the list stays.
Restart ==
    /\ restarts < MaxRestarts
    /\ restarts' = restarts + 1
    /\ dropped' = dropped \cup UNION {ToSet(batch[w]) : w \in Callbacks}
    /\ pc' = [e \in Entries |-> IF pc[e] \in {"push", "direct"} THEN "lost" ELSE pc[e]]
    /\ timer' = TRUE
    /\ isProcessing' = FALSE
    /\ cb' = [w \in Callbacks |-> "idle"]
    /\ batch' = [w \in Callbacks |-> <<>>]
    /\ UNCHANGED <<enabled, server, pushed, unsure>>

Next ==
    \/ \E e \in Entries : Enqueue(e) \/ PushDone(e) \/ PushSkipped(e)
    \/ \E e \in Entries, b \in BOOLEAN : PushFails(e, b) \/ DirectWrite(e, b)
    \/ \E w \in Callbacks : Tick(w) \/ Pop(w)
    \/ \E w \in Callbacks, b \in BOOLEAN : PopFails(w, b) \/ BatchWrite(w, b)
    \/ Stop
    \/ RedisChange
    \/ Restart

Spec == Init /\ [][Next]_vars

\* The timer fires, promises settle, and a Redis that is asked again and
\* again answers at last.
Fairness ==
    /\ WF_vars(\E w \in Callbacks : Tick(w))
    /\ SF_vars(\E w \in Callbacks : Pop(w))
    /\ WF_vars(\E w \in Callbacks, b \in BOOLEAN : PopFails(w, b) \/ BatchWrite(w, b))
FairSpec == Spec /\ Fairness

-----------------------------------------------------------------------------
(* Properties *)

TypeOK ==
    /\ enabled \in BOOLEAN
    /\ queue \in Seq(Entries) /\ table \in Seq(Entries)
    /\ pc \in [Entries -> {"new", "push", "direct", "returned", "lost"}]
    /\ timer \in BOOLEAN /\ isProcessing \in BOOLEAN
    /\ cb \in [Callbacks -> {"idle", "pop", "write"}]
    /\ batch \in [Callbacks -> Seq(Entries)]
    /\ \A w \in Callbacks : Len(batch[w]) <= BatchSize /\ (batch[w] # <<>> <=> cb[w] = "write")
    /\ restarts \in 0..MaxRestarts
    /\ pushed \in Seq(Entries) /\ unsure \subseteq Entries /\ dropped \subseteq Entries

Held == UNION {ToSet(batch[w]) : w \in Callbacks}

\* Every entry whose enqueue returned is in the list, in a batch, in the
\* table, or was given up after a failure; none disappears in between.
Accounted ==
    \A e \in Entries :
        pc[e] = "returned" => e \in ToSet(queue) \cup Held \cup ToSet(table) \cup dropped

\* What clients of the queue see, as Outbox promises it: the best that can be
\* said of an entry that is in several places.
Fate(e) ==
    IF e \in ToSet(table) THEN "delivered"
    ELSE IF e \in ToSet(queue) \cup Held THEN "kept"
    ELSE IF e \in dropped THEN "given up"
    ELSE "unknown"
Box == INSTANCE Outbox WITH
    fate <- [e \in Entries |-> Fate(e)],
    acked <- {e \in Entries : pc[e] = "returned"}
ImplementsOutbox == Box!Spec

Copies(e, s) == Cardinality({i \in DOMAIN s : s[i] = e})

\* Only a push that failed after the server had appended the entry can bring
\* it into the table twice.
DuplicateOnlyIfUnsure ==
    \A e \in Entries : Copies(e, table) <= IF e \in unsure THEN 2 ELSE 1

\* Entries that went through the list are inserted in the order they entered.
InsertedInOrder ==
    LET Via == ToSet(pushed) \ unsure
        At(e) == CHOOSE i \in DOMAIN pushed : pushed[i] = e
    IN  \A i, j \in DOMAIN table :
            i < j /\ table[i] \in Via /\ table[j] \in Via => At(table[i]) < At(table[j])

\* An entry in the list is taken out of it, as long as Redis stays enabled and
\* the queue is not stopped.
Drained ==
    \A e \in Entries : e \in ToSet(queue) ~> e \notin ToSet(queue) \/ ~timer \/ ~enabled

\* src/README.md:80 ("Failed writes are handled gracefully with fallback
\* mechanisms"): an entry whose enqueue returned is not lost.
FailedWriteIsNotLost ==
    \A e \in Entries : pc[e] = "returned" => e \in ToSet(queue) \cup Held \cup ToSet(table)
=============================================================================
