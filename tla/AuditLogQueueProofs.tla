------------------------ MODULE AuditLogQueueProofs ------------------------
(***************************************************************************)
(* Proofs about AuditLogQueue, for any number of entries, callbacks and    *)
(* restarts and any batch size.                                            *)
(***************************************************************************)
EXTENDS AuditLogQueue, FiniteSetTheorems, SequenceTheorems, TLAPS

Busy(w) == cb[w] # "idle"

\* isProcessing keeps all callbacks but one out.
OneCallback ==
    /\ \A w \in Callbacks : Busy(w) => isProcessing
    /\ \A w, v \in Callbacks : Busy(w) /\ Busy(v) => w = v

\* The batch that is being written, if there is one.
InHand ==
    IF \E w \in Callbacks : cb[w] = "write"
    THEN batch[CHOOSE w \in Callbacks : cb[w] = "write"] ELSE <<>>

\* The way of the entries: taking a batch and writing it do not change it.
Line == table \o InHand \o queue

Before(s, d, e) == \E i, j \in DOMAIN s : i < j /\ s[i] = d /\ s[j] = e
Via == ToSet(pushed) \ unsure

\* Entries that went through the list stand in their order in s.
Ordered(s) == \A i, j \in DOMAIN s : i < j /\ s[i] \in Via /\ s[j] \in Via => Before(pushed, s[i], s[j])

AtMostOnce(e, s) == \A i, j \in DOMAIN s : s[i] = e /\ s[j] = e => i = j
AtMostTwice(e, s) == \A i, j, k \in DOMAIN s :
    s[i] = e /\ s[j] = e /\ s[k] = e => i = j \/ j = k \/ i = k

\* What is known of an entry by where its enqueue is.
Entered(e) ==
    /\ pc[e] \in {"new", "push"} => e \notin ToSet(Line) \cup ToSet(pushed)
    /\ pc[e] = "direct" /\ e \in ToSet(Line) \cup ToSet(pushed) => e \in unsure
    /\ AtMostTwice(e, Line)
    /\ e \notin unsure \/ pc[e] = "direct" => AtMostOnce(e, Line)

QueueInv ==
    /\ TypeOK
    /\ OneCallback
    /\ Accounted
    /\ \A e \in Entries : Entered(e) /\ AtMostOnce(e, pushed)
    /\ unsure \subseteq ToSet(pushed) /\ ToSet(queue) \cup ToSet(InHand) \subseteq ToSet(pushed)
    /\ Ordered(Line)

-----------------------------------------------------------------------------
(* Sequences *)

\* t is s with some of its elements left out.
Embeds(t, s) ==
    \E h \in [DOMAIN t -> DOMAIN s] :
        /\ \A i \in DOMAIN t : t[i] = s[h[i]]
        /\ \A i, j \in DOMAIN t : i < j => h[i] < h[j]

\* Every sequence is embedded in itself.
LEMMA EmbedsItself == ASSUME NEW S, NEW s \in Seq(S) PROVE Embeds(s, s)
<1> DEFINE h == [i \in DOMAIN s |-> i]
<1>1. h \in [DOMAIN s -> DOMAIN s]
  OBVIOUS
<1>2. QED BY <1>1 DEF Embeds

\* What is left when the middle of a sequence is taken out is embedded in it.
LEMMA RemovalEmbeds ==
    ASSUME NEW S, NEW a \in Seq(S), NEW b \in Seq(S), NEW c \in Seq(S)
    PROVE  Embeds(a \o c, a \o b \o c)
<1> DEFINE s == a \o b \o c
           t == a \o c
           h == [i \in DOMAIN t |-> IF i <= Len(a) THEN i ELSE i + Len(b)]
<1>1. s \in Seq(S) /\ t \in Seq(S) /\ Len(s) = Len(a) + Len(b) + Len(c) /\ Len(t) = Len(a) + Len(c)
  OBVIOUS
<1>2. DOMAIN s = 1..(Len(a) + Len(b) + Len(c)) /\ DOMAIN t = 1..(Len(a) + Len(c))
  BY <1>1
<1>3. h \in [DOMAIN t -> DOMAIN s]
  BY <1>2
<1>4. \A i \in DOMAIN t : t[i] = s[h[i]]
  <2> SUFFICES ASSUME NEW i \in 1..(Len(a) + Len(c)) PROVE t[i] = s[h[i]]
    BY <1>2
  <2>1. CASE i <= Len(a)
    BY <1>2, <2>1
  <2>2. CASE i > Len(a)
    <3>1. t[i] = c[i - Len(a)]
      BY <2>2
    <3>2. h[i] = i + Len(b) /\ h[i] > Len(a \o b) /\ h[i] <= Len(s)
      BY <1>1, <1>2, <2>2
    <3>3. s[h[i]] = c[h[i] - Len(a \o b)]
      BY <3>2, <1>1
    <3>4. QED BY <3>1, <3>2, <3>3
  <2>3. QED BY <2>1, <2>2
<1>5. \A i, j \in DOMAIN t : i < j => h[i] < h[j]
  BY <1>2
<1>6. QED BY <1>3, <1>4, <1>5 DEF Embeds

\* What is embedded has no other elements, no more copies, and the same order.
LEMMA EmbeddedKeeps ==
    ASSUME NEW S, NEW s \in Seq(S), NEW t \in Seq(S), Embeds(t, s)
    PROVE  /\ ToSet(t) \subseteq ToSet(s)
           /\ \A e : AtMostOnce(e, s) => AtMostOnce(e, t)
           /\ \A e : AtMostTwice(e, s) => AtMostTwice(e, t)
           /\ Ordered(s) => Ordered(t)
<1>1. PICK h \in [DOMAIN t -> DOMAIN s] :
        /\ \A i \in DOMAIN t : t[i] = s[h[i]]
        /\ \A i, j \in DOMAIN t : i < j => h[i] < h[j]
  BY DEF Embeds
<1>2. \A i, j \in DOMAIN t : h[i] = h[j] => i = j
  BY <1>1
<1>3. ToSet(t) \subseteq ToSet(s)
  BY <1>1 DEF ToSet
<1>4. \A e : AtMostOnce(e, s) => AtMostOnce(e, t)
  BY <1>1, <1>2 DEF AtMostOnce
<1>5. \A e : AtMostTwice(e, s) => AtMostTwice(e, t)
  BY <1>1, <1>2 DEF AtMostTwice
<1>6. Ordered(s) => Ordered(t)
  BY <1>1 DEF Ordered
<1>7. QED BY <1>3, <1>4, <1>5, <1>6

\* t is s with e put in at n: h says where the others were.
OneMore(s, t, n, e) ==
    /\ t[n] = e /\ ToSet(t) = ToSet(s) \cup {e}
    /\ \E h \in [DOMAIN t -> 0..Len(s)] :
          /\ \A i \in DOMAIN t : h[i] = 0 <=> i = n
          /\ \A i \in DOMAIN t : h[i] # 0 => t[i] = s[h[i]]
          /\ \A i, j \in DOMAIN t : i < j /\ h[i] # 0 /\ h[j] # 0 => h[i] < h[j]

\* A sequence with one more element, wherever it is put.
LEMMA InsertedOne ==
    ASSUME NEW S, NEW a \in Seq(S), NEW c \in Seq(S), NEW e \in S
    PROVE  OneMore(a \o c, a \o <<e>> \o c, Len(a) + 1, e)
<1> DEFINE s0 == a \o c
           t0 == a \o <<e>> \o c
           n == Len(a) + 1
           h == [i \in DOMAIN t0 |-> IF i = n THEN 0 ELSE IF i < n THEN i ELSE i - 1]
<1>1. s0 \in Seq(S) /\ t0 \in Seq(S) /\ Len(s0) = Len(a) + Len(c) /\ Len(t0) = Len(a) + 1 + Len(c)
  OBVIOUS
<1>2. DOMAIN s0 = 1..(Len(a) + Len(c)) /\ DOMAIN t0 = 1..(Len(a) + 1 + Len(c))
  BY <1>1
<1>3. t0[n] = e
  OBVIOUS
<1>4. h \in [DOMAIN t0 -> 0..Len(s0)]
  BY <1>1, <1>2
<1>5. \A i \in DOMAIN t0 : h[i] = 0 <=> i = n
  BY <1>2
<1>6. \A i \in DOMAIN t0 : h[i] # 0 => t0[i] = s0[h[i]]
  <2> SUFFICES ASSUME NEW i \in 1..(Len(a) + 1 + Len(c)), i # n PROVE t0[i] = s0[h[i]]
    BY <1>2, <1>5
  <2>1. CASE i < n
    BY <1>2, <2>1
  <2>2. CASE i > n
    <3>1. t0[i] = c[i - n]
      BY <2>2
    <3>2. h[i] = i - 1 /\ s0[i - 1] = c[i - n]
      BY <1>1, <1>2, <2>2
    <3>3. QED BY <3>1, <3>2
  <2>3. QED BY <2>1, <2>2
<1>7. \A i, j \in DOMAIN t0 : i < j /\ h[i] # 0 /\ h[j] # 0 => h[i] < h[j]
  BY <1>2
<1>8. ToSet(t0) = ToSet(s0) \cup {e}
  <2>1. ToSet(t0) \subseteq ToSet(s0) \cup {e}
    BY <1>1, <1>2, <1>3, <1>4, <1>5, <1>6 DEF ToSet
  <2>2. \A i \in 1..Len(a) : t0[i] = s0[i]
    BY <1>1
  <2>3. \A i \in (Len(a) + 1)..Len(s0) : t0[i + 1] = s0[i]
    BY <1>1
  <2>4. e \in ToSet(t0)
    BY <1>2, <1>3 DEF ToSet
  <2>5. ToSet(s0) \subseteq ToSet(t0)
    <3> SUFFICES ASSUME NEW i \in 1..Len(s0) PROVE \E k \in DOMAIN t0 : t0[k] = s0[i]
      BY <1>1, <1>2 DEF ToSet
    <3>1. CASE i <= Len(a)
      BY <1>1, <1>2, <2>2, <3>1
    <3>2. CASE i > Len(a)
      <4>1. i + 1 \in DOMAIN t0 /\ t0[i + 1] = s0[i]
        BY <1>1, <1>2, <2>3, <3>2
      <4>2. QED BY <4>1
    <3>3. QED BY <3>1, <3>2
  <2>6. QED BY <2>1, <2>4, <2>5
<1>9. QED BY <1>1, <1>3, <1>4, <1>5, <1>6, <1>7, <1>8 DEF OneMore

-----------------------------------------------------------------------------
(* Types, and one callback at a time *)

\* The batch that is taken is not longer than BATCH_SIZE, and with what is left
\* makes up the list.
LEMMA Takes ==
    ASSUME queue \in Seq(Entries)
    PROVE  /\ Taken \in Seq(Entries) /\ Rest \in Seq(Entries)
           /\ Len(Taken) <= BatchSize /\ Taken \o Rest = queue
<1>1. BatchSize \in Nat \ {0} /\ Len(queue) \in Nat
  BY ConstantsAssumption
<1>2. PICK n \in 0..Len(queue) : Taken = SubSeq(queue, 1, n) /\ n <= BatchSize
  BY <1>1 DEF Taken
<1>3. Len(Taken) = n
  BY <1>1, <1>2
<1>4. Taken \in Seq(Entries) /\ Rest \in Seq(Entries)
  BY <1>1, <1>2, <1>3 DEF Rest
<1>5. SubSeq(queue, 1, n) \o SubSeq(queue, n + 1, Len(queue)) = SubSeq(queue, 1, Len(queue))
  <2>1. 1 \in 1..Len(queue) + 1 /\ n \in 0..Len(queue) /\ Len(queue) \in n..Len(queue)
    BY <1>1
  <2>2. n \in (1 - 1)..Len(queue)
    BY <2>1
  <2>3. QED BY <2>1, <2>2, ConcatAdjacentSubSeq
<1>6. SubSeq(queue, 1, Len(queue)) = queue
  BY SubSeqFull
<1>7. QED BY <1>2, <1>3, <1>4, <1>5, <1>6 DEF Rest

\* Taking a batch leaves the line as it is.
LEMMA TakenThenRest == TypeOK => table \o Taken \o Rest = table \o queue
<1> SUFFICES ASSUME TypeOK PROVE table \o Taken \o Rest = table \o queue
  OBVIOUS
<1>1. table \in Seq(Entries) /\ queue \in Seq(Entries)
  BY DEF TypeOK
<1>2. Taken \in Seq(Entries) /\ Rest \in Seq(Entries) /\ Taken \o Rest = queue
  BY <1>1, Takes
<1>3. (table \o Taken) \o Rest = table \o (Taken \o Rest)
  <2>1. \A s, t, u \in Seq(Entries) : (s \o t) \o u = s \o (t \o u)
    BY ConcatAssociative
  <2>2. QED BY <1>1, <1>2, <2>1, Zenon
<1>4. QED BY <1>2, <1>3

\* The elements of an Entries sequence are entries.
LEMMA ElementsAreEntries == \A s \in Seq(Entries) : ToSet(s) \subseteq Entries
BY DEF ToSet

BatchesTyped ==
    /\ cb \in [Callbacks -> {"idle", "pop", "write"}]
    /\ batch \in [Callbacks -> Seq(Entries)]
    /\ \A w \in Callbacks : Len(batch[w]) <= BatchSize /\ (batch[w] # <<>> <=> cb[w] = "write")

\* A callback that ends has no batch.
LEMMA Idling ==
    ASSUME TypeOK, NEW w \in Callbacks,
           cb' = [cb EXCEPT ![w] = "idle"], batch' = [batch EXCEPT ![w] = <<>>]
    PROVE  BatchesTyped'
BY ConstantsAssumption DEF TypeOK, BatchesTyped

\* Every variable keeps its type.
LEMMA TypeStep == TypeOK /\ [Next]_vars => TypeOK'
<1> SUFFICES ASSUME TypeOK, [Next]_vars PROVE TypeOK'
  OBVIOUS
<1> USE DEF TypeOK
<1>1. CASE UNCHANGED vars
  BY <1>1 DEF vars, server, worker, history
<1>2. ASSUME NEW e \in Entries, Enqueue(e) PROVE TypeOK'
  BY <1>2 DEF Enqueue, Goto, server, worker, history
<1>3. ASSUME NEW e \in Entries, PushDone(e) PROVE TypeOK'
  BY <1>3 DEF PushDone, Goto, worker
<1>4. ASSUME NEW e \in Entries, PushSkipped(e) PROVE TypeOK'
  BY <1>4 DEF PushSkipped, Goto, server, worker
<1>5. ASSUME NEW e \in Entries, NEW b \in BOOLEAN, PushFails(e, b) PROVE TypeOK'
  BY <1>5 DEF PushFails, Fallback, Goto, worker
<1>6. ASSUME NEW e \in Entries, NEW b \in BOOLEAN, DirectWrite(e, b) PROVE TypeOK'
  <2>1. ToSet(<<e>>) \subseteq Entries /\ <<e>> \in Seq(Entries)
    BY DEF ToSet
  <2>2. QED BY <1>6, <2>1 DEF DirectWrite, Write, Goto, worker
<1>7. ASSUME NEW w \in Callbacks, Tick(w) PROVE TypeOK'
  BY <1>7 DEF Tick, server, history
<1>8. ASSUME NEW w \in Callbacks, Pop(w) PROVE TypeOK'
  <2>1. queue' \in Seq(Entries)
    BY <1>8, Takes DEF Pop
  <2>2. CASE Taken = <<>>
    BY <1>8, <2>1, <2>2 DEF Pop, EndCallback, history
  <2>3. CASE Taken # <<>>
    BY <1>8, <2>1, <2>3, Takes DEF Pop, history
  <2>4. QED BY <2>2, <2>3
<1>9. ASSUME NEW w \in Callbacks, NEW b \in BOOLEAN, PopFails(w, b) PROVE TypeOK'
  BY <1>9, Takes, ElementsAreEntries DEF PopFails, EndCallback
<1>10. ASSUME NEW w \in Callbacks, NEW b \in BOOLEAN, BatchWrite(w, b) PROVE TypeOK'
  <2>1. table' \in Seq(Entries) /\ dropped' \subseteq Entries
    BY <1>10, ElementsAreEntries DEF BatchWrite, Write
  <2>2. /\ cb' = [cb EXCEPT ![w] = "idle"] /\ batch' = [batch EXCEPT ![w] = <<>>]
        /\ isProcessing' = FALSE
        /\ UNCHANGED <<enabled, queue, pc, timer, restarts, pushed, unsure>>
    BY <1>10 DEF BatchWrite, EndCallback
  <2>3. BatchesTyped'
    BY <2>2, Idling
  <2>4. QED BY <2>1, <2>2, <2>3 DEF BatchesTyped
<1>11. CASE Stop
  BY <1>11 DEF Stop, server, history
<1>12. CASE RedisChange
  BY <1>12 DEF RedisChange, server, worker, history
<1>13. CASE Restart
  <2>1. dropped' \subseteq Entries
    BY <1>13, ElementsAreEntries DEF Restart
  <2>2. restarts' \in 0..MaxRestarts
    BY <1>13, ConstantsAssumption DEF Restart
  <2>3. BatchesTyped'
    BY <1>13, ConstantsAssumption DEF Restart, BatchesTyped
  <2>4. pc' \in [Entries -> {"new", "push", "direct", "returned", "lost"}]
    BY <1>13 DEF Restart
  <2>5. QED BY <1>13, <2>1, <2>2, <2>3, <2>4 DEF Restart, server, BatchesTyped
<1>14. QED BY <1>1, <1>2, <1>3, <1>4, <1>5, <1>6, <1>7, <1>8, <1>9, <1>10, <1>11, <1>12, <1>13
           DEF Next

\* The types hold at first.
LEMMA InitTyped == Init => TypeOK
<1> SUFFICES ASSUME Init PROVE TypeOK
  OBVIOUS
<1>1. BatchesTyped
  BY ConstantsAssumption DEF Init, BatchesTyped
<1>2. restarts \in 0..MaxRestarts
  BY ConstantsAssumption DEF Init
<1>3. pc \in [Entries -> {"new", "push", "direct", "returned", "lost"}]
  BY DEF Init
<1>4. enabled \in BOOLEAN /\ timer \in BOOLEAN /\ isProcessing \in BOOLEAN
  BY DEF Init
<1>5. queue \in Seq(Entries) /\ table \in Seq(Entries) /\ pushed \in Seq(Entries)
  BY DEF Init
<1>6. unsure \subseteq Entries /\ dropped \subseteq Entries
  BY DEF Init
<1>7. QED BY <1>1, <1>2, <1>3, <1>4, <1>5, <1>6 DEF TypeOK, BatchesTyped

\* auditLogQueue.ts: types, and a batch in hand exactly while it is written.
THEOREM TypeCorrect == Spec => []TypeOK
<1>1. Init => TypeOK
  BY InitTyped
<1>2. QED BY <1>1, TypeStep, PTL DEF Spec

\* A callback starts only when no other is under way.
LEMMA OneCallbackStep == TypeOK /\ OneCallback /\ [Next]_vars => OneCallback'
<1> SUFFICES ASSUME TypeOK, OneCallback, [Next]_vars PROVE OneCallback'
  OBVIOUS
<1> USE DEF OneCallback, Busy
<1>1. ASSUME UNCHANGED <<cb, isProcessing>> PROVE OneCallback'
  BY <1>1
<1>2. CASE UNCHANGED vars
  BY <1>1, <1>2 DEF vars, worker
<1>3. ASSUME NEW w \in Callbacks, EndCallback(w), Busy(w) PROVE OneCallback'
  BY <1>3 DEF EndCallback, TypeOK
<1>4. ASSUME NEW w \in Callbacks, Tick(w) PROVE OneCallback'
  BY <1>4 DEF Tick, MayProcess, TypeOK
<1>5. ASSUME NEW w \in Callbacks, Pop(w) PROVE OneCallback'
  BY <1>3, <1>5 DEF Pop, TypeOK
<1>6. ASSUME NEW w \in Callbacks, NEW b \in BOOLEAN, PopFails(w, b) \/ BatchWrite(w, b)
      PROVE  OneCallback'
  BY <1>3, <1>6 DEF PopFails, BatchWrite
<1>7. CASE Restart
  BY <1>7 DEF Restart
<1>8. ASSUME NEW e \in Entries, Enqueue(e) \/ PushDone(e) \/ PushSkipped(e) PROVE OneCallback'
  BY <1>1, <1>8 DEF Enqueue, PushDone, PushSkipped, worker
<1>9. ASSUME NEW e \in Entries, NEW b \in BOOLEAN, PushFails(e, b) \/ DirectWrite(e, b)
      PROVE  OneCallback'
  BY <1>1, <1>9 DEF PushFails, DirectWrite, worker
<1>10. CASE Stop \/ RedisChange
  BY <1>1, <1>10 DEF Stop, RedisChange, worker
<1>11. QED BY <1>2, <1>4, <1>5, <1>6, <1>7, <1>8, <1>9, <1>10 DEF Next

-----------------------------------------------------------------------------
(* No entry disappears *)

\* Where an entry may be.
Places == ToSet(queue) \cup Held \cup ToSet(table) \cup dropped

\* The elements of sequences that are put together.
LEMMA ElementsOfConcat ==
    ASSUME NEW S, NEW s \in Seq(S), NEW t \in Seq(S)
    PROVE  ToSet(s \o t) = ToSet(s) \cup ToSet(t)
<1> DEFINE u == s \o t
<1>1. Len(u) = Len(s) + Len(t) /\ DOMAIN u = 1..(Len(s) + Len(t))
      /\ DOMAIN s = 1..Len(s) /\ DOMAIN t = 1..Len(t)
  OBVIOUS
<1>2. \A i \in DOMAIN s : i \in DOMAIN u /\ u[i] = s[i]
  BY <1>1
<1>3. \A i \in DOMAIN t : Len(s) + i \in DOMAIN u /\ u[Len(s) + i] = t[i]
  BY <1>1
<1>4. \A i \in DOMAIN u : u[i] \in ToSet(s) \cup ToSet(t)
  <2> SUFFICES ASSUME NEW i \in 1..(Len(s) + Len(t)) PROVE u[i] \in ToSet(s) \cup ToSet(t)
    BY <1>1
  <2>1. CASE i <= Len(s)
    BY <1>1, <2>1 DEF ToSet
  <2>2. CASE i > Len(s)
    <3>1. u[i] = t[i - Len(s)] /\ i - Len(s) \in DOMAIN t
      BY <1>1, <2>2
    <3>2. QED BY <3>1 DEF ToSet
  <2>3. QED BY <2>1, <2>2
<1> HIDE DEF u
<1>5. ToSet(u) = ToSet(s) \cup ToSet(t)
  BY <1>2, <1>3, <1>4 DEF ToSet
<1>6. QED BY <1>5 DEF u

\* The elements of a sequence with one more at its end.
LEMMA ElementsOfAppend ==
    ASSUME NEW S, NEW s \in Seq(S), NEW e \in S
    PROVE  ToSet(Append(s, e)) = ToSet(s) \cup {e}
<1> DEFINE one == <<e>>
<1>1. Append(s, e) = s \o one /\ one \in Seq(S)
  BY AppendIsConcat
<1>2. ToSet(one) = {e}
  BY DEF ToSet
<1> HIDE DEF one
<1>3. ToSet(s \o one) = ToSet(s) \cup ToSet(one)
  BY <1>1, ElementsOfConcat
<1>4. QED BY <1>1, <1>2, <1>3

\* What is in a batch that stays is held still.
LEMMA HeldStill ==
    ASSUME TypeOK, NEW w \in Callbacks, NEW b, batch' = [batch EXCEPT ![w] = b]
    PROVE  Held \subseteq Held' \cup ToSet(batch[w]) /\ ToSet(b) \subseteq Held'
<1>1. batch'[w] = b /\ \A v \in Callbacks \ {w} : batch'[v] = batch[v]
  BY DEF TypeOK
<1>2. QED BY <1>1 DEF Held

\* A step moves entries between the places, and never out of them; what it
\* lets return has been put into one.
PlacesKept ==
    /\ Places \subseteq Places'
    /\ \A e \in Entries : pc'[e] = "returned" => pc[e] = "returned" \/ e \in Places'

\* The steps of an enqueue.
LEMMA EnqueuePlaces ==
    ASSUME TypeOK, NEW e \in Entries, NEW b \in BOOLEAN,
           \/ Enqueue(e) \/ PushDone(e) \/ PushSkipped(e)
           \/ PushFails(e, b) \/ DirectWrite(e, b)
    PROVE  PlacesKept
<1>1. UNCHANGED batch /\ Held' = Held
  BY DEF Enqueue, PushDone, PushSkipped, PushFails, DirectWrite, worker, Held
<1>2. \A d \in Entries \ {e} : pc'[d] = pc[d]
  BY DEF Enqueue, PushDone, PushSkipped, PushFails, DirectWrite, Fallback, Goto, TypeOK
<1>3. Places \subseteq Places' /\ (pc'[e] = "returned" => e \in Places')
  <2>1. CASE Enqueue(e)
    BY <1>1, <2>1 DEF Enqueue, Goto, TypeOK, Places, server, history
  <2>2. CASE PushDone(e)
    <3>1. ToSet(queue') = ToSet(queue) \cup {e}
      BY <2>2, ElementsOfAppend DEF PushDone, TypeOK
    <3>2. UNCHANGED <<table, dropped>>
      BY <2>2 DEF PushDone
    <3>3. QED BY <1>1, <3>1, <3>2 DEF Places
  <2>3. CASE PushSkipped(e)
    BY <1>1, <2>3 DEF PushSkipped, Places, server
  <2>4. CASE PushFails(e, b)
    <3>1. ToSet(queue) \subseteq ToSet(queue')
      BY <2>4, ElementsOfAppend DEF PushFails, TypeOK
    <3>2. UNCHANGED <<table, dropped>> /\ pc'[e] = "direct"
      BY <2>4 DEF PushFails, Fallback, Goto, TypeOK
    <3>3. QED BY <1>1, <3>1, <3>2 DEF Places
  <2>5. CASE DirectWrite(e, b)
    <3>1. ToSet(<<e>>) = {e} /\ <<e>> \in Seq(Entries)
      BY DEF ToSet
    <3>2. ToSet(table') \cup dropped' = ToSet(table) \cup dropped \cup {e}
      <4>1. table \o <<e>> = Append(table, e)
        BY AppendIsConcat DEF TypeOK
      <4>2. ToSet(Append(table, e)) = ToSet(table) \cup {e}
        BY ElementsOfAppend DEF TypeOK
      <4>3. IF b THEN table' = table \o <<e>> /\ dropped' = dropped
                 ELSE table' = table /\ dropped' = dropped \cup ToSet(<<e>>)
        BY <2>5 DEF DirectWrite, Write
      <4>4. QED BY <3>1, <4>1, <4>2, <4>3
    <3>3. UNCHANGED queue
      BY <2>5 DEF DirectWrite
    <3>4. QED BY <1>1, <3>2, <3>3 DEF Places
  <2>6. QED BY <2>1, <2>2, <2>3, <2>4, <2>5
<1>4. QED BY <1>2, <1>3 DEF PlacesKept

\* The steps of a callback.
LEMMA CallbackPlaces ==
    ASSUME TypeOK, NEW w \in Callbacks, NEW b \in BOOLEAN,
           Tick(w) \/ Pop(w) \/ PopFails(w, b) \/ BatchWrite(w, b)
    PROVE  PlacesKept
<1>1. UNCHANGED pc
  BY DEF Tick, Pop, PopFails, BatchWrite
<1>2. ToSet(queue) = ToSet(Taken) \cup ToSet(Rest)
  <2>1. Taken \in Seq(Entries) /\ Rest \in Seq(Entries) /\ Taken \o Rest = queue
    BY Takes DEF TypeOK
  <2>2. ToSet(Taken \o Rest) = ToSet(Taken) \cup ToSet(Rest)
    BY <2>1, ElementsOfConcat
  <2>3. QED BY <2>1, <2>2
<1>3. cb[w] = "pop" => ToSet(batch[w]) = {}
  BY DEF TypeOK, ToSet
<1>4. Places \subseteq Places'
  <2>1. CASE Tick(w)
    BY <2>1 DEF Tick, Places, Held, server, history
  <2>2. CASE Pop(w) /\ Taken = <<>>
    <3>1. ToSet(Taken) = {}
      BY <2>2 DEF ToSet
    <3>2. Held \subseteq Held'
      BY <1>3, <2>2, HeldStill DEF Pop, EndCallback
    <3>3. QED BY <1>2, <2>2, <3>1, <3>2 DEF Pop, Places, history
  <2>3. CASE Pop(w) /\ Taken # <<>>
    <3>1. Held \subseteq Held' /\ ToSet(Taken) \subseteq Held'
      BY <1>3, <2>3, HeldStill DEF Pop
    <3>2. QED BY <1>2, <2>3, <3>1 DEF Pop, Places, history
  <2>4. CASE PopFails(w, b)
    <3>1. Held \subseteq Held'
      BY <1>3, <2>4, HeldStill DEF PopFails, EndCallback
    <3>2. QED BY <1>2, <2>4, <3>1 DEF PopFails, Places
  <2>5. CASE BatchWrite(w, b)
    <3>1. Held \subseteq Held' \cup ToSet(batch[w])
      BY <2>5, HeldStill DEF BatchWrite, EndCallback
    <3>2. ToSet(table') \cup dropped' = ToSet(table) \cup dropped \cup ToSet(batch[w])
      BY <2>5, ElementsOfConcat DEF BatchWrite, Write, TypeOK
    <3>3. QED BY <2>5, <3>1, <3>2 DEF BatchWrite, Places
  <2>6. QED BY <2>1, <2>2, <2>3, <2>4, <2>5
<1>5. QED BY <1>1, <1>4 DEF PlacesKept

\* Every step.
LEMMA AccountedStep == TypeOK /\ Accounted /\ [Next]_vars => Accounted'
<1> SUFFICES ASSUME TypeOK, Accounted, [Next]_vars PROVE Accounted'
  OBVIOUS
<1>1. PlacesKept
  <2>1. CASE UNCHANGED vars
    BY <2>1 DEF vars, server, worker, history, PlacesKept, Places, Held
  <2>2. CASE Stop \/ RedisChange
    BY <2>2 DEF Stop, RedisChange, server, worker, history, PlacesKept, Places, Held
  <2>3. CASE Restart
    <3>1. \A e \in Entries : pc'[e] = "returned" => pc[e] = "returned"
      BY <2>3 DEF Restart
    <3>2. Places \subseteq Places'
      BY <2>3 DEF Restart, Places, Held, server
    <3>3. QED BY <3>1, <3>2 DEF PlacesKept
  <2>4. QED BY <2>1, <2>2, <2>3, EnqueuePlaces, CallbackPlaces DEF Next
<1>2. QED BY <1>1 DEF PlacesKept, Accounted, Places

\* An entry whose enqueue returned is in the list, in a batch, in the table, or
\* was given up after a failure.
THEOREM EntriesAreAccounted == Spec => []Accounted
<1>1. Init => Accounted
  BY DEF Init, Accounted
<1>2. QED BY <1>1, TypeCorrect, AccountedStep, PTL DEF Spec

-----------------------------------------------------------------------------
(* The line *)

\* What is in hand is the batch of the one callback that writes.
LEMMA HandIs ==
    ASSUME TypeOK, OneCallback
    PROVE  /\ InHand \in Seq(Entries) /\ Line \in Seq(Entries)
           /\ \A w \in Callbacks : Busy(w) => InHand = batch[w]
           /\ (\A w \in Callbacks : cb[w] # "write") => InHand = <<>>
           /\ ToSet(InHand) = Held
<1>1. (\A w \in Callbacks : cb[w] # "write") => InHand = <<>>
  BY DEF InHand
<1>2. ASSUME NEW w \in Callbacks, Busy(w) PROVE InHand = batch[w]
  <2>1. \A v \in Callbacks : cb[v] = "write" => v = w
    BY <1>2 DEF OneCallback, Busy
  <2>2. CASE cb[w] = "write"
    BY <2>1, <2>2 DEF InHand
  <2>3. CASE cb[w] # "write"
    BY <1>1, <2>1, <2>3 DEF TypeOK
  <2>4. QED BY <2>2, <2>3
<1>3. InHand \in Seq(Entries)
  <2>1. CASE \A w \in Callbacks : cb[w] # "write"
    <3>1. InHand = <<>>
      BY <1>1, <2>1
    <3>2. QED BY <3>1
  <2>2. CASE \E w \in Callbacks : cb[w] = "write"
    BY <1>2, <2>2 DEF TypeOK, Busy
  <2>3. QED BY <2>1, <2>2
<1>4. ToSet(InHand) = Held
  <2>1. CASE \A w \in Callbacks : cb[w] # "write"
    BY <1>1, <2>1 DEF Held, ToSet, TypeOK
  <2>2. CASE \E w \in Callbacks : cb[w] = "write"
    <3>1. PICK w \in Callbacks : cb[w] = "write"
      BY <2>2
    <3>2. InHand = batch[w] /\ \A v \in Callbacks \ {w} : batch[v] = <<>>
      BY <1>2, <3>1 DEF OneCallback, Busy, TypeOK
    <3>3. \A v \in Callbacks \ {w} : ToSet(batch[v]) = {}
      BY <3>2 DEF ToSet
    <3>4. QED BY <3>2, <3>3 DEF Held
  <2>3. QED BY <2>1, <2>2
<1>5. Line \in Seq(Entries)
  BY <1>3 DEF Line, TypeOK
<1>6. QED BY <1>1, <1>2, <1>3, <1>4, <1>5

\* The line is a sequence of entries.
LEMMA LineIsASeq == TypeOK /\ OneCallback => Line \in Seq(Entries)
BY HandIs

\* A step that only takes entries out of the line, and begins or ends enqueues.
Shortens ==
    /\ Embeds(Line', Line)
    /\ UNCHANGED <<pushed, unsure>>
    /\ ToSet(queue') \cup ToSet(InHand') \subseteq ToSet(queue) \cup ToSet(InHand)
    /\ \A e \in Entries : /\ pc'[e] \in {"new", "push"} => pc[e] \in {"new", "push"}
                          /\ pc'[e] = "direct" => pc[e] \in {"new", "push", "direct"}

\* A step that puts an entry at the end of the list.
Pushes(e) ==
    /\ pc[e] = "push"
    /\ Line' = Append(Line, e) /\ queue' = Append(queue, e) /\ InHand' = InHand
    /\ pushed' = Append(pushed, e)
    /\ \/ pc' = [pc EXCEPT ![e] = "returned"] /\ unsure' = unsure
       \/ pc' = [pc EXCEPT ![e] = "direct"] /\ unsure' = unsure \cup {e}

\* A step that puts an entry into the table directly.
Inserts(e) ==
    /\ pc[e] = "direct" /\ pc' = [pc EXCEPT ![e] = "returned"]
    /\ table' = table \o <<e>>
    /\ Line' = table \o <<e>> \o (InHand \o queue)
    /\ UNCHANGED <<queue, pushed, unsure>> /\ InHand' = InHand

\* The steps of an enqueue.
LEMMA EnqueueLine ==
    ASSUME TypeOK, OneCallback, NEW e \in Entries, NEW b \in BOOLEAN,
           \/ Enqueue(e) \/ PushDone(e) \/ PushSkipped(e)
           \/ PushFails(e, b) \/ DirectWrite(e, b)
    PROVE  Shortens \/ Pushes(e) \/ Inserts(e)
<1>1. InHand' = InHand
  BY DEF Enqueue, PushDone, PushSkipped, PushFails, DirectWrite, worker, InHand
<1>2. InHand \in Seq(Entries) /\ Line \in Seq(Entries)
  BY HandIs
<1>3. ASSUME UNCHANGED <<table, queue, pushed, unsure>>,
             \/ pc' = [pc EXCEPT ![e] = "push"] /\ pc[e] = "new"
             \/ pc' = [pc EXCEPT ![e] = "direct"] /\ pc[e] \in {"new", "push"}
             \/ pc' = [pc EXCEPT ![e] = "returned"]
      PROVE  Shortens
  <2>1. Line' = Line
    BY <1>1, <1>3 DEF Line
  <2>2. Embeds(Line', Line)
    BY <1>2, <2>1, EmbedsItself
  <2>3. \A d \in Entries : /\ pc'[d] \in {"new", "push"} => pc[d] \in {"new", "push"}
                           /\ pc'[d] = "direct" => pc[d] \in {"new", "push", "direct"}
    BY <1>3 DEF TypeOK
  <2>4. QED BY <1>1, <1>3, <2>2, <2>3 DEF Shortens
<1>4. ASSUME queue' = Append(queue, e), UNCHANGED table PROVE Line' = Append(Line, e)
  <2>1. Line' = (table \o InHand) \o Append(queue, e)
    BY <1>1, <1>4 DEF Line
  <2>2. \A s, t \in Seq(Entries) : s \o Append(t, e) = Append(s \o t, e)
    OBVIOUS
  <2>3. QED BY <1>2, <2>1, <2>2 DEF Line, TypeOK
<1>5. CASE Enqueue(e)
  BY <1>3, <1>5 DEF Enqueue, Goto, server, history
<1>6. CASE PushDone(e)
  BY <1>1, <1>4, <1>6 DEF PushDone, Goto, Pushes
<1>7. CASE PushSkipped(e)
  BY <1>3, <1>7 DEF PushSkipped, Goto, server
<1>8. CASE PushFails(e, b) /\ b
  BY <1>1, <1>4, <1>8 DEF PushFails, Fallback, Goto, Pushes
<1>9. CASE PushFails(e, b) /\ ~b
  BY <1>3, <1>9 DEF PushFails, Fallback, Goto
<1>10. CASE DirectWrite(e, b) /\ b
  <2>1. table' = table \o <<e>> /\ queue' = queue
    BY <1>10 DEF DirectWrite, Write
  <2>2. Line' = (table \o <<e>>) \o InHand \o queue
    BY <1>1, <2>1 DEF Line
  <2>3. \A s, t, u \in Seq(Entries) : s \o t \o u = s \o (t \o u)
    BY ConcatAssociative
  <2>4. table \o <<e>> \in Seq(Entries)
    BY DEF TypeOK
  <2>5. Line' = table \o <<e>> \o (InHand \o queue)
    BY <1>2, <2>2, <2>3, <2>4 DEF TypeOK
  <2>6. QED BY <1>1, <1>10, <2>1, <2>5 DEF DirectWrite, Goto, Inserts
<1>11. CASE DirectWrite(e, b) /\ ~b
  BY <1>3, <1>11 DEF DirectWrite, Write, Goto
<1>12. QED BY <1>5, <1>6, <1>7, <1>8, <1>9, <1>10, <1>11

\* The batch in hand after a step of the one callback under way.
LEMMA HandNext ==
    ASSUME TypeOK, OneCallback, OneCallback', TypeOK', NEW w \in Callbacks, Busy(w), NEW label, NEW b,
           cb' = [cb EXCEPT ![w] = label], batch' = [batch EXCEPT ![w] = b]
    PROVE  InHand' = b
<1>1. \A v \in Callbacks \ {w} : cb[v] = "idle" /\ cb'[v] = "idle"
  BY DEF OneCallback, Busy, TypeOK
<1>2. batch'[w] = b /\ cb'[w] = label /\ label \in {"idle", "pop", "write"}
  BY DEF TypeOK
<1>3. CASE label = "write"
  <2>1. (CHOOSE v \in Callbacks : cb'[v] = "write") = w
    BY <1>1, <1>2, <1>3
  <2>2. QED BY <1>2, <1>3, <2>1 DEF InHand
<1>4. CASE label # "write"
  <2>1. \A v \in Callbacks : cb'[v] # "write"
    BY <1>1, <1>2, <1>4
  <2>2. b = <<>>
    BY <1>2, <1>4 DEF TypeOK
  <2>3. QED BY <2>1, <2>2 DEF InHand
<1>5. QED BY <1>3, <1>4

\* The steps of a callback only take entries out of the line.
LEMMA CallbackLine ==
    ASSUME TypeOK, OneCallback, TypeOK', OneCallback', NEW w \in Callbacks, NEW b \in BOOLEAN,
           Tick(w) \/ Pop(w) \/ PopFails(w, b) \/ BatchWrite(w, b)
    PROVE  Shortens
<1>1. /\ InHand \in Seq(Entries) /\ Line \in Seq(Entries)
      /\ queue \in Seq(Entries) /\ table \in Seq(Entries)
      /\ Taken \in Seq(Entries) /\ Rest \in Seq(Entries) /\ Taken \o Rest = queue
  BY HandIs, Takes DEF TypeOK
<1>2. UNCHANGED <<pc, pushed, unsure>>
  BY DEF Tick, Pop, PopFails, BatchWrite, history
<1>3. \A s \in Seq(Entries) : s \o <<>> = s /\ <<>> \o s = s
  OBVIOUS
<1>4. \A s, t, u \in Seq(Entries) : s \o t \o u = s \o (t \o u)
  BY ConcatAssociative
<1>5. /\ ToSet(queue) = ToSet(Taken) \cup ToSet(Rest)
      /\ ToSet(<<>>) = {}
  <2>1. ToSet(Taken \o Rest) = ToSet(Taken) \cup ToSet(Rest)
    BY <1>1, ElementsOfConcat
  <2>2. ToSet(<<>>) = {}
    BY DEF ToSet
  <2>3. QED BY <1>1, <2>1, <2>2
<1>6. ASSUME Line' = Line, ToSet(queue') \cup ToSet(InHand') \subseteq ToSet(queue) \cup ToSet(InHand)
      PROVE  Shortens
  BY <1>1, <1>2, <1>6, EmbedsItself DEF Shortens
<1>7. CASE Tick(w)
  <2>1. InHand' = InHand
    <3>1. \A v \in Callbacks : cb'[v] = "write" <=> cb[v] = "write"
      BY <1>7 DEF Tick, TypeOK
    <3>2. batch' = batch
      BY <1>7 DEF Tick
    <3>3. CASE \E v \in Callbacks : cb[v] = "write"
      <4>1. PICK v \in Callbacks : cb[v] = "write"
        BY <3>3
      <4>2. Busy(v) /\ Busy(v)'
        BY <3>1, <4>1 DEF Busy
      <4>3. InHand = batch[v]
        BY <4>2, HandIs
      <4>4. \A u \in Callbacks : cb'[u] = "write" => u = v
        BY <3>1, <4>1 DEF OneCallback, Busy
      <4>5. InHand' = batch'[v]
        BY <3>1, <4>1, <4>4 DEF InHand
      <4>6. QED BY <3>2, <4>3, <4>5
    <3>4. CASE ~ \E v \in Callbacks : cb[v] = "write"
      BY <3>1, <3>4 DEF InHand
    <3>5. QED BY <3>3, <3>4
  <2>2. UNCHANGED <<table, queue>>
    BY <1>7 DEF Tick, server
  <2>3. QED BY <1>6, <2>1, <2>2 DEF Line
<1>8. CASE Pop(w)
  <2>1. Busy(w) /\ batch[w] = <<>>
    BY <1>8 DEF Pop, Busy, TypeOK
  <2>2. InHand = <<>>
    BY <2>1, HandIs
  <2>3. InHand' = Taken
    <3>1. \E label : cb' = [cb EXCEPT ![w] = label] /\ batch' = [batch EXCEPT ![w] = Taken]
      BY <1>8 DEF Pop, EndCallback
    <3>2. QED BY <2>1, <3>1, HandNext
  <2>4. queue' = Rest /\ table' = table
    BY <1>8 DEF Pop
  <2>5. Line = table \o queue
    BY <1>1, <1>3, <2>2 DEF Line
  <2>6. Line' = table \o Taken \o Rest
    BY <2>3, <2>4 DEF Line
  <2>7. Line' = Line
    BY <2>5, <2>6, TakenThenRest
  <2>8. QED BY <1>5, <1>6, <2>3, <2>4, <2>7
<1>9. CASE PopFails(w, b)
  <2>1. Busy(w) /\ batch[w] = <<>>
    BY <1>9 DEF PopFails, Busy, TypeOK
  <2>2. InHand = <<>>
    BY <2>1, HandIs
  <2>3. InHand' = <<>>
    BY <1>9, <2>1, HandNext DEF PopFails, EndCallback
  <2>4. table' = table
    BY <1>9 DEF PopFails
  <2>5. Line = table \o queue /\ Line' = table \o queue'
    <3>1. Line = table \o <<>> \o queue
      BY <2>2 DEF Line
    <3>2. Line' = table \o <<>> \o queue'
      BY <2>3, <2>4 DEF Line
    <3>3. QED BY <1>1, <1>3, <3>1, <3>2
  <2>6. CASE queue' = queue
    BY <1>6, <2>2, <2>3, <2>5, <2>6
  <2>7. CASE queue' = Rest
    <3>1. Line = table \o Taken \o Rest
      BY <2>5, TakenThenRest
    <3>2. Embeds(Line', Line)
      BY <1>1, <2>5, <2>7, <3>1, RemovalEmbeds
    <3>3. QED BY <1>2, <1>5, <2>3, <2>7, <3>2 DEF Shortens
  <2>8. QED BY <1>9, <2>6, <2>7 DEF PopFails
<1>10. CASE BatchWrite(w, b)
  <2>1. Busy(w)
    BY <1>10 DEF BatchWrite, Busy
  <2>2. InHand = batch[w]
    BY <2>1, HandIs
  <2>3. InHand' = <<>>
    BY <1>10, <2>1, HandNext DEF BatchWrite, EndCallback
  <2>4. queue' = queue
    BY <1>10 DEF BatchWrite
  <2>5. Line = table \o InHand \o queue /\ Line' = table' \o queue
    <3>1. Line' = table' \o <<>> \o queue
      BY <2>3, <2>4 DEF Line
    <3>2. table' \in Seq(Entries)
      BY DEF TypeOK
    <3>3. QED BY <1>1, <1>3, <3>1, <3>2 DEF Line
  <2>6. CASE table' = table \o InHand
    BY <1>5, <1>6, <2>3, <2>4, <2>5, <2>6
  <2>7. CASE table' = table
    <3>1. Embeds(Line', Line)
      BY <1>1, <2>5, <2>7, RemovalEmbeds
    <3>2. QED BY <1>2, <1>5, <2>3, <2>4, <3>1 DEF Shortens
  <2>8. QED BY <1>10, <2>2, <2>6, <2>7 DEF BatchWrite, Write
<1>11. QED BY <1>7, <1>8, <1>9, <1>10

\* What a step does to the line.
LEMMA LineStep ==
    ASSUME TypeOK, OneCallback, TypeOK', OneCallback', [Next]_vars
    PROVE  Shortens \/ \E e \in Entries : Pushes(e) \/ Inserts(e)
<1>1. /\ InHand \in Seq(Entries) /\ Line \in Seq(Entries)
      /\ queue \in Seq(Entries) /\ table \in Seq(Entries)
  BY HandIs DEF TypeOK
<1>2. CASE UNCHANGED <<queue, table, pc, cb, batch, pushed, unsure>>
  <2>1. Line' = Line /\ InHand' = InHand
    BY <1>2 DEF Line, InHand
  <2>2. QED BY <1>1, <1>2, <2>1, EmbedsItself DEF Shortens
<1>3. CASE UNCHANGED vars \/ Stop \/ RedisChange
  BY <1>2, <1>3 DEF vars, server, worker, history, Stop, RedisChange
<1>4. CASE Restart
  <2>1. InHand' = <<>>
    <3>1. \A w \in Callbacks : cb'[w] # "write"
      BY <1>4 DEF Restart
    <3>2. QED BY <3>1 DEF InHand
  <2>2. UNCHANGED <<queue, table, pushed, unsure>>
    BY <1>4 DEF Restart, server
  <2>3. Line' = table \o queue
    <3>1. Line' = table \o <<>> \o queue
      BY <2>1, <2>2 DEF Line
    <3>2. QED BY <1>1, <3>1
  <2>4. Embeds(Line', Line)
    BY <1>1, <2>3, RemovalEmbeds DEF Line
  <2>5. ToSet(InHand') = {}
    BY <2>1 DEF ToSet
  <2>6. \A e \in Entries : /\ pc'[e] \in {"new", "push"} => pc[e] \in {"new", "push"}
                           /\ pc'[e] = "direct" => pc[e] \in {"new", "push", "direct"}
    BY <1>4 DEF Restart, TypeOK
  <2>7. QED BY <2>2, <2>4, <2>5, <2>6 DEF Shortens
<1>5. QED BY <1>3, <1>4, EnqueueLine, CallbackLine DEF Next

\* What is not enqueued again has entered once.
LEMMA ShortensKeeps ==
    ASSUME QueueInv, TypeOK', OneCallback', Shortens
    PROVE  /\ \A e \in Entries : (Entered(e) /\ AtMostOnce(e, pushed))'
           /\ (unsure \subseteq ToSet(pushed))'
           /\ (ToSet(queue) \cup ToSet(InHand) \subseteq ToSet(pushed))'
           /\ Ordered(Line)'
<1>1. Line \in Seq(Entries) /\ Line' \in Seq(Entries)
  <2>1. Line \in Seq(Entries)
    BY HandIs DEF QueueInv
  <2>2. (TypeOK /\ OneCallback => Line \in Seq(Entries))'
    BY LineIsASeq, PTL
  <2>3. QED BY <2>1, <2>2
<1>2. /\ ToSet(Line') \subseteq ToSet(Line)
      /\ \A e : AtMostOnce(e, Line) => AtMostOnce(e, Line')
      /\ \A e : AtMostTwice(e, Line) => AtMostTwice(e, Line')
      /\ Ordered(Line) => Ordered(Line')
  BY <1>1, EmbeddedKeeps DEF Shortens
<1>3. pushed' = pushed /\ unsure' = unsure
  BY DEF Shortens
<1>4. Ordered(Line)'
  BY <1>2, <1>3 DEF QueueInv, Ordered, Via, Before
<1>5. ASSUME NEW e \in Entries PROVE (Entered(e) /\ AtMostOnce(e, pushed))'
  <2>1. Entered(e) /\ AtMostOnce(e, pushed)
    BY DEF QueueInv
  <2>2. AtMostOnce(e, pushed)'
    BY <1>3, <2>1 DEF AtMostOnce
  <2>3. /\ pc'[e] \in {"new", "push"} => pc[e] \in {"new", "push"}
        /\ pc'[e] = "direct" => pc[e] \in {"new", "push", "direct"}
    BY DEF Shortens
  <2>4. e \notin ToSet(Line) => AtMostOnce(e, Line)
    BY DEF ToSet, AtMostOnce
  <2>5. /\ pc'[e] \in {"new", "push"} => e \notin ToSet(Line') \cup ToSet(pushed')
        /\ pc'[e] = "direct" /\ e \in ToSet(Line') \cup ToSet(pushed') => e \in unsure'
    BY <1>2, <1>3, <2>1, <2>3 DEF Entered
  <2>6. AtMostTwice(e, Line') /\ (e \notin unsure' \/ pc'[e] = "direct" => AtMostOnce(e, Line'))
    BY <1>2, <1>3, <2>1, <2>3, <2>4 DEF Entered
  <2>7. QED BY <2>2, <2>5, <2>6 DEF Entered, AtMostOnce, AtMostTwice
<1>6. QED BY <1>3, <1>4, <1>5 DEF QueueInv, Shortens

\* An entry that is pushed is last in the line and in the order of entry.
LEMMA PushesKeeps ==
    ASSUME QueueInv, NEW e \in Entries, Pushes(e)
    PROVE  /\ \A d \in Entries : (Entered(d) /\ AtMostOnce(d, pushed))'
           /\ (unsure \subseteq ToSet(pushed))'
           /\ (ToSet(queue) \cup ToSet(InHand) \subseteq ToSet(pushed))'
           /\ Ordered(Line)'
<1> DEFINE n == Len(Line)
           m == Len(pushed)
<1>1. /\ Line \in Seq(Entries) /\ pushed \in Seq(Entries) /\ queue \in Seq(Entries)
      /\ TypeOK /\ Entered(e) /\ Ordered(Line)
  BY HandIs DEF QueueInv, TypeOK
<1>2. /\ Line' = Append(Line, e) /\ pushed' = Append(pushed, e) /\ pc[e] = "push"
      /\ e \notin ToSet(Line) /\ e \notin ToSet(pushed)
  BY <1>1 DEF Pushes, Entered
<1>3. /\ n \in Nat /\ DOMAIN Line = 1..n /\ DOMAIN Line' = 1..(n + 1)
      /\ \A i \in 1..n : Line'[i] = Line[i] /\ Line[i] # e
      /\ Line'[n + 1] = e
  <2>1. \A i \in 1..n : Line[i] # e
    BY <1>1, <1>2 DEF ToSet
  <2>2. QED BY <1>1, <1>2, <2>1
<1>4. /\ m \in Nat /\ DOMAIN pushed = 1..m /\ DOMAIN pushed' = 1..(m + 1)
      /\ \A i \in 1..m : pushed'[i] = pushed[i] /\ pushed[i] # e
      /\ pushed'[m + 1] = e
  <2>1. \A i \in 1..m : pushed[i] # e
    BY <1>1, <1>2 DEF ToSet
  <2>2. QED BY <1>1, <1>2, <2>1
<1> HIDE DEF n, m
<1>5. ToSet(Line') = ToSet(Line) \cup {e} /\ ToSet(pushed') = ToSet(pushed) \cup {e}
      /\ ToSet(queue') = ToSet(queue) \cup {e}
  BY <1>1, <1>2, ElementsOfAppend DEF Pushes
<1>6. \A c, d : Before(pushed, c, d) => Before(pushed', c, d)
  BY <1>4 DEF Before
<1>7. \A d \in ToSet(pushed) : Before(pushed', d, e)
  <2> SUFFICES ASSUME NEW i \in 1..m PROVE Before(pushed', pushed[i], e)
    BY <1>4 DEF ToSet
  <2>1. i < m + 1 /\ i \in DOMAIN pushed' /\ m + 1 \in DOMAIN pushed'
    BY <1>4
  <2>2. QED BY <1>4, <2>1 DEF Before
<1>8. unsure \subseteq unsure' /\ unsure' \subseteq unsure \cup {e}
  BY DEF Pushes
<1>9. Ordered(Line)'
  <2> SUFFICES ASSUME NEW i \in 1..(n + 1), NEW j \in 1..(n + 1), i < j,
                      Line'[i] \in Via', Line'[j] \in Via'
               PROVE  Before(pushed', Line'[i], Line'[j])
    BY <1>3 DEF Ordered
  <2>1. i \in 1..n /\ Line'[i] = Line[i] /\ Line[i] # e
    BY <1>3
  <2>2. Line[i] \in Via /\ Line[i] \in ToSet(pushed)
    BY <1>5, <1>8, <2>1 DEF Via
  <2>3. CASE j = n + 1
    BY <1>3, <1>7, <2>1, <2>2, <2>3
  <2>4. CASE j # n + 1
    <3>1. j \in 1..n /\ Line'[j] = Line[j] /\ Line[j] # e
      BY <1>3, <2>4
    <3>2. Line[j] \in Via
      BY <1>5, <1>8, <3>1 DEF Via
    <3>3. Before(pushed, Line[i], Line[j])
      BY <1>1, <1>3, <2>1, <2>2, <3>1, <3>2 DEF Ordered
    <3>4. QED BY <1>6, <2>1, <3>1, <3>3
  <2>5. QED BY <2>3, <2>4
<1>10. ASSUME NEW d \in Entries PROVE (Entered(d) /\ AtMostOnce(d, pushed))'
  <2>1. Entered(d) /\ AtMostOnce(d, pushed)
    BY DEF QueueInv
  <2>2. AtMostOnce(d, pushed')
    BY <1>4, <2>1 DEF AtMostOnce
  <2>3. CASE d = e
    <3>1. AtMostOnce(d, Line')
      BY <1>3, <2>3 DEF AtMostOnce
    <3>2. AtMostTwice(d, Line')
      BY <3>1 DEF AtMostOnce, AtMostTwice
    <3>3. pc'[d] = "returned" \/ (pc'[d] = "direct" /\ d \in unsure')
      <4>1. pc \in [Entries -> {"new", "push", "direct", "returned", "lost"}]
        BY <1>1 DEF TypeOK
      <4>2. \/ pc' = [pc EXCEPT ![e] = "returned"] /\ unsure' = unsure
            \/ pc' = [pc EXCEPT ![e] = "direct"] /\ unsure' = unsure \cup {e}
        BY DEF Pushes
      <4>3. CASE pc' = [pc EXCEPT ![e] = "returned"]
        <5>1. pc'[e] = "returned"
          BY <4>1, <4>3
        <5>2. QED BY <2>3, <5>1
      <4>4. CASE pc' = [pc EXCEPT ![e] = "direct"] /\ unsure' = unsure \cup {e}
        <5>1. pc'[e] = "direct" /\ e \in unsure'
          BY <4>1, <4>4
        <5>2. QED BY <2>3, <5>1
      <4>5. QED BY <4>2, <4>3, <4>4
    <3>4. QED BY <2>2, <3>1, <3>2, <3>3 DEF Entered, AtMostOnce, AtMostTwice
  <2>4. CASE d # e
    <3>1. pc'[d] = pc[d] /\ (d \in unsure' <=> d \in unsure)
          /\ (d \in ToSet(Line') <=> d \in ToSet(Line)) /\ (d \in ToSet(pushed') <=> d \in ToSet(pushed))
      BY <1>1, <1>5, <2>4 DEF Pushes, TypeOK
    <3>2. /\ AtMostOnce(d, Line) => AtMostOnce(d, Line')
          /\ AtMostTwice(d, Line) => AtMostTwice(d, Line')
      <4>1. \A i \in DOMAIN Line' : Line'[i] = d => i \in DOMAIN Line /\ Line[i] = d
        BY <1>3, <2>4
      <4>2. QED BY <4>1 DEF AtMostOnce, AtMostTwice
    <3>3. QED BY <2>1, <2>2, <3>1, <3>2 DEF Entered, AtMostOnce, AtMostTwice
  <2>5. QED BY <2>3, <2>4
<1>11. (unsure \subseteq ToSet(pushed))' /\ (ToSet(queue) \cup ToSet(InHand) \subseteq ToSet(pushed))'
  BY <1>5, <1>8 DEF QueueInv, Pushes
<1>12. QED BY <1>9, <1>10, <1>11

\* An entry that is written directly is in no order, and at most a second copy.
LEMMA InsertsKeeps ==
    ASSUME QueueInv, NEW e \in Entries, Inserts(e)
    PROVE  /\ \A d \in Entries : (Entered(d) /\ AtMostOnce(d, pushed))'
           /\ (unsure \subseteq ToSet(pushed))'
           /\ (ToSet(queue) \cup ToSet(InHand) \subseteq ToSet(pushed))'
           /\ Ordered(Line)'
<1> DEFINE rest == InHand \o queue
           n == Len(table) + 1
<1>1. /\ Line \in Seq(Entries) /\ table \in Seq(Entries) /\ rest \in Seq(Entries)
      /\ TypeOK /\ Entered(e) /\ Ordered(Line) /\ pc[e] = "direct"
  BY HandIs DEF QueueInv, TypeOK, Inserts
<1>2. Line = table \o rest
  <2>1. \A s, t, u \in Seq(Entries) : s \o t \o u = s \o (t \o u)
    BY ConcatAssociative
  <2>2. InHand \in Seq(Entries) /\ queue \in Seq(Entries)
    BY HandIs DEF QueueInv, TypeOK
  <2>3. QED BY <1>1, <2>1, <2>2 DEF Line
<1>3. Line' = table \o <<e>> \o rest
  BY DEF Inserts
<1> HIDE DEF rest
<1>4. /\ Line' \in Seq(Entries) /\ Line'[n] = e /\ ToSet(Line') = ToSet(Line) \cup {e}
      /\ \E h \in [DOMAIN Line' -> 0..Len(Line)] :
            /\ \A i \in DOMAIN Line' : h[i] = 0 <=> i = n
            /\ \A i \in DOMAIN Line' : h[i] # 0 => Line'[i] = Line[h[i]]
            /\ \A i, j \in DOMAIN Line' : i < j /\ h[i] # 0 /\ h[j] # 0 => h[i] < h[j]
  <2>1. OneMore(table \o rest, table \o <<e>> \o rest, n, e)
    BY <1>1, InsertedOne
  <2>2. Line' \in Seq(Entries)
    BY <1>1, <1>3
  <2>3. OneMore(Line, Line', n, e)
    BY <1>2, <1>3, <2>1
  <2>4. QED BY <2>2, <2>3 DEF OneMore
<1>5. PICK h \in [DOMAIN Line' -> 0..Len(Line)] :
         /\ \A i \in DOMAIN Line' : h[i] = 0 <=> i = n
         /\ \A i \in DOMAIN Line' : h[i] # 0 => Line'[i] = Line[h[i]]
         /\ \A i, j \in DOMAIN Line' : i < j /\ h[i] # 0 /\ h[j] # 0 => h[i] < h[j]
  BY <1>4
<1> HIDE DEF n
<1>6. DOMAIN Line' \subseteq Nat /\ \A i \in DOMAIN Line' : h[i] # 0 => h[i] \in DOMAIN Line
  BY <1>1, <1>4, <1>5
<1>7. /\ pushed' = pushed /\ unsure' = unsure /\ UNCHANGED <<queue, InHand>>
      /\ pc' = [pc EXCEPT ![e] = "returned"]
  BY DEF Inserts
<1>8. e \notin Via
  BY <1>1 DEF Entered, Via
<1>9. Ordered(Line)'
  <2> SUFFICES ASSUME NEW i \in DOMAIN Line', NEW j \in DOMAIN Line', i < j,
                      Line'[i] \in Via, Line'[j] \in Via
               PROVE  Before(pushed, Line'[i], Line'[j])
    BY <1>7 DEF Ordered, Via, Before
  <2>1. h[i] # 0 /\ h[j] # 0
    BY <1>4, <1>5, <1>8
  <2>2. QED BY <1>1, <1>5, <1>6, <2>1 DEF Ordered
<1>10. ASSUME NEW i \in DOMAIN Line', NEW j \in DOMAIN Line', h[i] = h[j] PROVE i = j
  <2>1. CASE h[i] = 0
    BY <1>5, <1>10, <2>1
  <2>2. CASE h[i] # 0
    BY <1>5, <1>6, <1>10, <2>2
  <2>3. QED BY <2>1, <2>2
<1>11. ASSUME NEW d \in Entries PROVE (Entered(d) /\ AtMostOnce(d, pushed))'
  <2>1. Entered(d) /\ AtMostOnce(d, pushed)
    BY DEF QueueInv
  <2>2. CASE d = e
    <3>1. pc'[d] = "returned"
      BY <1>1, <1>7, <2>2 DEF TypeOK
    <3>2. AtMostOnce(e, Line) /\ (e \notin unsure => e \notin ToSet(Line))
      BY <1>1 DEF Entered
    <3>3. \A i, j \in DOMAIN Line' :
             h[i] # 0 /\ h[j] # 0 /\ Line'[i] = e /\ Line'[j] = e => i = j
      BY <1>5, <1>6, <1>10, <3>2 DEF AtMostOnce
    <3>4. AtMostTwice(e, Line')
      BY <1>5, <3>3 DEF AtMostTwice
    <3>5. e \notin unsure => AtMostOnce(e, Line')
      <4>1. e \notin ToSet(Line) => \A i \in DOMAIN Line' : Line'[i] = e => h[i] = 0
        BY <1>5, <1>6 DEF ToSet
      <4>2. QED BY <1>5, <3>2, <4>1 DEF AtMostOnce
    <3>6. QED BY <1>7, <2>1, <2>2, <3>1, <3>4, <3>5 DEF Entered, AtMostOnce, AtMostTwice
  <2>3. CASE d # e
    <3>1. pc'[d] = pc[d] /\ (d \in ToSet(Line') <=> d \in ToSet(Line))
      BY <1>1, <1>4, <1>7, <2>3 DEF TypeOK
    <3>2. \A i \in DOMAIN Line' : Line'[i] = d => h[i] \in DOMAIN Line /\ Line[h[i]] = d
      BY <1>4, <1>5, <1>6, <2>3
    <3>3. AtMostOnce(d, Line) => AtMostOnce(d, Line')
      BY <1>10, <3>2 DEF AtMostOnce
    <3>4. AtMostTwice(d, Line) => AtMostTwice(d, Line')
      BY <1>10, <3>2 DEF AtMostTwice
    <3>5. QED BY <1>7, <2>1, <3>1, <3>3, <3>4 DEF Entered, AtMostOnce, AtMostTwice
  <2>4. QED BY <2>2, <2>3
<1>12. QED BY <1>7, <1>9, <1>11 DEF QueueInv

\* The invariant is inductive.
LEMMA QueueInvStep == QueueInv /\ [Next]_vars => QueueInv'
<1> SUFFICES ASSUME QueueInv, [Next]_vars PROVE QueueInv'
  OBVIOUS
<1>1. TypeOK' /\ OneCallback' /\ Accounted'
  BY TypeStep, OneCallbackStep, AccountedStep DEF QueueInv
<1>2. Shortens \/ \E e \in Entries : Pushes(e) \/ Inserts(e)
  BY <1>1, LineStep DEF QueueInv
<1>3. CASE Shortens
  BY <1>1, <1>3, ShortensKeeps DEF QueueInv
<1>4. ASSUME NEW e \in Entries, Pushes(e) PROVE QueueInv'
  BY <1>1, <1>4, PushesKeeps DEF QueueInv
<1>5. ASSUME NEW e \in Entries, Inserts(e) PROVE QueueInv'
  BY <1>1, <1>5, InsertsKeeps DEF QueueInv
<1>6. QED BY <1>2, <1>3, <1>4, <1>5

\* The invariant holds at first.
LEMMA InitQueueInv == Init => QueueInv
<1> SUFFICES ASSUME Init PROVE QueueInv
  OBVIOUS
<1>1. TypeOK /\ OneCallback /\ Accounted
  BY InitTyped DEF Init, OneCallback, Busy, Accounted
<1>2. InHand = <<>>
  BY DEF Init, InHand
<1>3. Line = <<>>
  <2>1. Line = <<>> \o <<>> \o <<>>
    BY <1>2 DEF Init, Line
  <2>2. QED BY <2>1
<1>4. pushed = <<>> /\ queue = <<>> /\ unsure = {}
  BY DEF Init
<1>5. ToSet(<<>>) = {} /\ Ordered(<<>>) /\ \A e : AtMostOnce(e, <<>>) /\ AtMostTwice(e, <<>>)
  BY DEF ToSet, Ordered, AtMostOnce, AtMostTwice
<1>6. \A e \in Entries : pc[e] = "new"
  BY DEF Init
<1>7. QED BY <1>1, <1>2, <1>3, <1>4, <1>5, <1>6 DEF QueueInv, Entered

\* The invariant holds always.
LEMMA QueueInvariant == Spec => []QueueInv
<1>1. QED BY InitQueueInv, QueueInvStep, PTL DEF Spec

-----------------------------------------------------------------------------
(* Copies and order *)

\* The table is the beginning of the line.
LEMMA TableInLine ==
    ASSUME TypeOK, OneCallback
    PROVE  /\ DOMAIN table \subseteq DOMAIN Line /\ DOMAIN table = 1..Len(table) /\ Len(table) \in Nat
           /\ \A i \in DOMAIN table : Line[i] = table[i]
<1>1. /\ table \in Seq(Entries) /\ InHand \in Seq(Entries) /\ queue \in Seq(Entries)
  BY HandIs DEF TypeOK
<1>2. table \o InHand \in Seq(Entries) /\ DOMAIN table \subseteq DOMAIN (table \o InHand)
      /\ \A i \in DOMAIN table : (table \o InHand)[i] = table[i]
  BY <1>1
<1> DEFINE front == table \o InHand
<1> HIDE DEF front
<1>3. front \in Seq(Entries) => /\ DOMAIN front \subseteq DOMAIN (front \o queue)
                                /\ \A i \in DOMAIN front : (front \o queue)[i] = front[i]
  BY <1>1
<1>4. QED BY <1>1, <1>2, <1>3 DEF front, Line

\* A set whose members are all equal has at most one.
LEMMA OneOfACopy ==
    ASSUME NEW s, NEW n \in Nat, DOMAIN s = 1..n, NEW e
    PROVE  /\ AtMostOnce(e, s) => Copies(e, s) <= 1
           /\ AtMostTwice(e, s) => Copies(e, s) <= 2
<1> DEFINE T == {i \in DOMAIN s : s[i] = e}
<1>1. IsFiniteSet(T)
  BY FS_Interval, FS_Subset
<1>2. CASE T = {}
  BY <1>2, FS_EmptySet DEF Copies
<1>3. CASE T # {}
  <2>1. PICK i \in T : TRUE
    BY <1>3
  <2>2. IsFiniteSet({i}) /\ Cardinality({i}) = 1
    BY FS_Singleton
  <2>3. AtMostOnce(e, s) => T = {i}
    BY <2>1 DEF AtMostOnce
  <2>4. CASE T = {i}
    BY <2>2, <2>4 DEF Copies
  <2>5. CASE T # {i}
    <3>1. PICK j \in T : j # i
      BY <2>1, <2>5
    <3> DEFINE one == {i}
               two == one \cup {j}
    <3>2. AtMostTwice(e, s) => T = two
      BY <2>1, <3>1 DEF AtMostTwice
    <3>3. IsFiniteSet(one) /\ Cardinality(one) = 1 /\ j \notin one
      BY <2>2, <3>1
    <3>4. Cardinality(two) = 2
      <4> HIDE DEF one
      <4>1. Cardinality(one \cup {j}) = Cardinality(one) + 1
        BY <3>3, FS_AddElement
      <4>2. QED BY <3>3, <4>1
    <3>5. ~AtMostOnce(e, s)
      BY <2>3, <2>5
    <3> HIDE DEF two
    <3> HIDE DEF T
    <3>6. AtMostTwice(e, s) => Cardinality(T) = 2
      BY <3>2, <3>4
    <3>7. QED BY <3>5, <3>6 DEF Copies, T
  <2>6. QED BY <2>4, <2>5
<1>4. QED BY <1>2, <1>3

\* auditLogQueue.ts: only a push that failed after the server had appended the
\* entry can bring it into the table twice, and nothing brings it there more often.
THEOREM DuplicatesAreUnsure == Spec => []DuplicateOnlyIfUnsure
<1>1. QueueInv => DuplicateOnlyIfUnsure
  <2> SUFFICES ASSUME QueueInv, NEW e \in Entries
               PROVE  Copies(e, table) <= IF e \in unsure THEN 2 ELSE 1
    BY DEF DuplicateOnlyIfUnsure
  <2>1. AtMostTwice(e, Line) /\ (e \notin unsure => AtMostOnce(e, Line))
    BY DEF QueueInv, Entered
  <2>2. AtMostTwice(e, table) /\ (e \notin unsure => AtMostOnce(e, table))
    BY <2>1, TableInLine DEF QueueInv, AtMostOnce, AtMostTwice
  <2>3. QED BY <2>2, TableInLine, OneOfACopy DEF QueueInv
<1>2. QED BY <1>1, QueueInvariant, PTL

\* Entries that went through the list are inserted in the order they entered it.
THEOREM InsertionIsInOrder == Spec => []InsertedInOrder
<1>1. QueueInv => InsertedInOrder
  <2> SUFFICES ASSUME QueueInv PROVE InsertedInOrder
    OBVIOUS
  <2> DEFINE At(e) == CHOOSE i \in DOMAIN pushed : pushed[i] = e
  <2>1. DOMAIN pushed \subseteq Nat
    BY DEF QueueInv, TypeOK
  <2>2. \A k \in DOMAIN pushed : At(pushed[k]) = k
    <3> SUFFICES ASSUME NEW k \in DOMAIN pushed PROVE At(pushed[k]) = k
      OBVIOUS
    <3>1. pushed[k] \in Entries
      BY DEF QueueInv, TypeOK
    <3>2. \A i \in DOMAIN pushed : pushed[i] = pushed[k] => i = k
      BY <3>1 DEF QueueInv, AtMostOnce
    <3>3. QED BY <3>2
  <2>3. ASSUME NEW i \in DOMAIN table, NEW j \in DOMAIN table, i < j,
               table[i] \in Via, table[j] \in Via
        PROVE  At(table[i]) < At(table[j])
    <3>1. Before(pushed, table[i], table[j])
      BY <2>3, TableInLine DEF QueueInv, Ordered
    <3>2. PICK k, l \in DOMAIN pushed : k < l /\ pushed[k] = table[i] /\ pushed[l] = table[j]
      BY <3>1 DEF Before
    <3>3. At(pushed[k]) < At(pushed[l])
      BY <2>2, <3>2
    <3>4. QED BY <3>2, <3>3
  <2>4. QED BY <2>3 DEF InsertedInOrder, Via
<1>2. QED BY <1>1, QueueInvariant, PTL

-----------------------------------------------------------------------------
(* The outbox *)

Kept == ToSet(queue) \cup Held
Acked == {e \in Entries : pc[e] = "returned"}

\* What was given up is not to be pushed any more.
GivenUpLate == \A e \in dropped : pc[e] \notin {"new", "push"}

\* The entries that callbacks and the list have were pushed.
LEMMA KeptWerePushed ==
    ASSUME QueueInv
    PROVE  \A e \in Kept : e \in Entries /\ pc[e] \notin {"new", "push"}
<1>1. ToSet(InHand) = Held
  BY HandIs DEF QueueInv
<1>2. Kept \subseteq ToSet(pushed) /\ ToSet(pushed) \subseteq Entries
  BY <1>1, ElementsAreEntries DEF QueueInv, Kept, TypeOK
<1>3. QED BY <1>2 DEF QueueInv, Entered

\* The entries a callback holds are held, and those it takes are in the list.
LEMMA HandsAreKept ==
    ASSUME TypeOK, NEW w \in Callbacks
    PROVE  ToSet(batch[w]) \subseteq Held /\ ToSet(queue) = ToSet(Taken) \cup ToSet(Rest)
<1>1. ToSet(batch[w]) \subseteq Held
  BY DEF Held
<1>2. Taken \in Seq(Entries) /\ Rest \in Seq(Entries) /\ Taken \o Rest = queue
  BY Takes DEF TypeOK
<1>3. ToSet(Taken \o Rest) = ToSet(Taken) \cup ToSet(Rest)
  BY <1>2, ElementsOfConcat
<1>4. QED BY <1>1, <1>2, <1>3

\* When the batch of a callback changes, the others hold what they held.
LEMMA HeldMoves ==
    ASSUME TypeOK, NEW w \in Callbacks, NEW b, batch' = [batch EXCEPT ![w] = b]
    PROVE  Held' \subseteq Held \cup ToSet(b)
<1>1. batch'[w] = b /\ \A v \in Callbacks \ {w} : batch'[v] = batch[v]
  BY DEF TypeOK
<1>2. QED BY <1>1 DEF Held

\* Nothing is given up before it could have been pushed.
LEMMA GivenUpStep == QueueInv /\ GivenUpLate /\ [Next]_vars => GivenUpLate'
<1> SUFFICES ASSUME QueueInv, GivenUpLate, [Next]_vars PROVE GivenUpLate'
  OBVIOUS
<1>1. ASSUME NEW S, dropped' \subseteq dropped \cup S, \A e \in S : pc'[e] \notin {"new", "push"},
             \A e \in dropped : pc'[e] \in {"new", "push"} => pc[e] \in {"new", "push"}
      PROVE  GivenUpLate'
  BY <1>1 DEF GivenUpLate
<1>2. pc \in [Entries -> {"new", "push", "direct", "returned", "lost"}] /\ dropped \subseteq Entries
  BY DEF QueueInv, TypeOK
<1>3. ASSUME UNCHANGED <<pc, dropped>> PROVE GivenUpLate'
  BY <1>3 DEF GivenUpLate
<1>4. CASE Stop \/ RedisChange \/ UNCHANGED vars
  BY <1>3, <1>4 DEF Stop, RedisChange, vars, history
<1>5. ASSUME NEW e \in Entries, NEW b \in BOOLEAN,
             \/ Enqueue(e) \/ PushDone(e) \/ PushSkipped(e) \/ PushFails(e, b) \/ DirectWrite(e, b)
      PROVE  GivenUpLate'
  <2>1. CASE Enqueue(e)
    <3>1. pc[e] = "new" /\ dropped' = dropped /\ \A d \in Entries \ {e} : pc'[d] = pc[d]
      BY <1>2, <2>1 DEF Enqueue, Goto, history
    <3>2. QED BY <1>2, <3>1 DEF GivenUpLate
  <2>2. CASE PushDone(e) \/ PushFails(e, b)
    <3>1. /\ pc[e] = "push" /\ dropped' = dropped
          /\ \A d \in Entries \ {e} : pc'[d] = pc[d]
      BY <1>2, <2>2 DEF PushDone, PushFails, Fallback, Goto
    <3>2. QED BY <1>2, <3>1 DEF GivenUpLate
  <2>3. CASE PushSkipped(e) \/ DirectWrite(e, b)
    <3>1. dropped' \subseteq dropped \cup {e}
      BY <2>3 DEF PushSkipped, DirectWrite, Write, ToSet
    <3>2. pc' = [pc EXCEPT ![e] = "returned"]
      BY <2>3 DEF PushSkipped, DirectWrite, Goto
    <3>3. QED BY <1>1, <1>2, <3>1, <3>2
  <2>4. QED BY <1>5, <2>1, <2>2, <2>3
<1>6. ASSUME NEW w \in Callbacks, NEW b \in BOOLEAN,
             Tick(w) \/ Pop(w) \/ PopFails(w, b) \/ BatchWrite(w, b)
      PROVE  GivenUpLate'
  <2>1. pc' = pc
    BY <1>6 DEF Tick, Pop, PopFails, BatchWrite
  <2>2. dropped' \subseteq dropped \cup Kept
    <3>1. ToSet(batch[w]) \subseteq Kept /\ ToSet(Taken) \subseteq Kept
      BY HandsAreKept DEF QueueInv, Kept
    <3>2. QED BY <1>6, <3>1 DEF Tick, Pop, PopFails, BatchWrite, Write, history
  <2>3. QED BY <1>1, <2>1, <2>2, KeptWerePushed
<1>7. CASE Restart
  <2>1. dropped' = dropped \cup Held
        /\ pc' = [e \in Entries |-> IF pc[e] \in {"push", "direct"} THEN "lost" ELSE pc[e]]
    BY <1>7 DEF Restart, Held
  <2>2. \A e \in Held : e \in Entries /\ pc[e] \notin {"new", "push"}
    BY KeptWerePushed DEF Kept
  <2>3. \A e \in Entries : pc'[e] \in {"new", "push"} => pc[e] \in {"new", "push"}
    BY <1>2, <2>1
  <2>4. QED BY <1>1, <1>2, <2>1, <2>2, <2>3
<1>8. QED BY <1>4, <1>5, <1>6, <1>7 DEF Next

\* A return with a fate is an Accept.
LEMMA Accepts ==
    ASSUME NEW e \in Entries, pc[e] # "returned", Acked' = Acked \cup {e},
           \A d \in Entries \ {e} : Fate(d)' = Fate(d),
           Fate(e)' # "unknown", Fate(e) = "delivered" => Fate(e)' = "delivered",
           Fate(e) = "given up" => Fate(e)' # "kept"
    PROVE  Box!Accept(e)
<1> DEFINE fate == [d \in Entries |-> Fate(d)]
<1>1. fate' = [fate EXCEPT ![e] = Fate(e)']
  OBVIOUS
<1>2. Fate(e)' \in Box!Fates \ {"unknown"}
  BY DEF Fate, Box!Fates
<1>3. e \notin Acked /\ fate[e] = Fate(e)
  BY DEF Acked
<1>4. QED BY <1>1, <1>2, <1>3 DEF Box!Accept, Acked

\* Kept entries that leave the callbacks and the list together settle.
LEMMA Settles ==
    ASSUME NEW X, NEW f \in {"delivered", "given up"}, Acked' = Acked,
           X \subseteq Kept, Kept' \subseteq Kept, Kept \subseteq Kept' \cup X,
           ToSet(table') = IF f = "delivered" THEN ToSet(table) \cup X ELSE ToSet(table),
           dropped' = IF f = "delivered" THEN dropped ELSE dropped \cup X
    PROVE  Box!Next
<1> DEFINE fate == [d \in Entries |-> Fate(d)]
           S == {e \in Entries : Fate(e) = "kept" /\ Fate(e)' # "kept"}
<1>1. \A e \in Entries : Fate(e) # "kept" => Fate(e)' = Fate(e)
  BY DEF Fate, Kept
<1>2. \A e \in Entries : Fate(e) = "kept" /\ Fate(e)' # "kept" => Fate(e)' = f
  BY DEF Fate, Kept
<1>3. fate' = [e \in Entries |-> IF e \in S THEN f ELSE fate[e]]
  BY <1>1, <1>2
<1>4. \A e \in S : fate[e] = "kept"
  OBVIOUS
<1>5. Box!Settle(S, f)
  BY <1>3, <1>4 DEF Box!Settle, Acked
<1>6. S \in SUBSET Entries
  OBVIOUS
<1> HIDE DEF S
<1>7. QED BY <1>5, <1>6 DEF Box!Next

\* A step that leaves the places and the returns alone leaves the outbox alone.
LEMMA BoxStutters ==
    ASSUME ToSet(table') = ToSet(table), Kept' = Kept, dropped' = dropped, Acked' = Acked
    PROVE  UNCHANGED Box!vars
<1>1. \A e : Fate(e)' = Fate(e)
  BY DEF Fate, Kept
<1>2. QED BY <1>1 DEF Box!vars, Acked

\* The steps of an enqueue are those of the outbox: one that returns has put its
\* entry somewhere.
LEMMA EnqueueRefines ==
    ASSUME QueueInv, GivenUpLate, NEW e \in Entries, NEW b \in BOOLEAN,
           \/ Enqueue(e) \/ PushDone(e) \/ PushSkipped(e)
           \/ PushFails(e, b) \/ DirectWrite(e, b)
    PROVE  [Box!Next]_(Box!vars)
<1>1. /\ pc \in [Entries -> {"new", "push", "direct", "returned", "lost"}]
      /\ queue \in Seq(Entries) /\ table \in Seq(Entries)
  BY DEF QueueInv, TypeOK
<1>2. Held' = Held
  BY DEF Enqueue, PushDone, PushSkipped, PushFails, DirectWrite, worker, Held
<1>3. pc[e] \in {"new", "push"} => Fate(e) = "unknown"
  <2>1. e \notin ToSet(table) \/ pc[e] \notin {"new", "push"}
    <3>1. ToSet(table) \subseteq ToSet(Line)
      BY TableInLine DEF QueueInv, ToSet
    <3>2. QED BY <3>1 DEF QueueInv, Entered
  <2>2. QED BY <2>1, KeptWerePushed DEF Fate, Kept, GivenUpLate
<1>4. ASSUME pc' = [pc EXCEPT ![e] = "returned"], pc[e] # "returned"
      PROVE  Acked' = Acked \cup {e}
  BY <1>1, <1>4 DEF Acked
<1>5. ASSUME NEW label \in {"push", "direct"}, pc' = [pc EXCEPT ![e] = label], pc[e] # "returned"
      PROVE  Acked' = Acked
  BY <1>1, <1>5 DEF Acked
<1>6. CASE Enqueue(e)
  <2>1. Acked' = Acked
    BY <1>5, <1>6 DEF Enqueue, Goto
  <2>2. Kept' = Kept /\ ToSet(table') = ToSet(table) /\ dropped' = dropped
    BY <1>2, <1>6 DEF Enqueue, server, history, Kept
  <2>3. QED BY <2>1, <2>2, BoxStutters
<1>7. CASE PushDone(e)
  <2>1. Acked' = Acked \cup {e} /\ pc[e] = "push"
    BY <1>4, <1>7 DEF PushDone, Goto
  <2>2. Kept' = Kept \cup {e}
    BY <1>1, <1>2, <1>7, ElementsOfAppend DEF PushDone, Kept
  <2>3. UNCHANGED <<table, dropped>>
    BY <1>7 DEF PushDone
  <2>4. Fate(e)' = "kept" /\ \A d \in Entries \ {e} : Fate(d)' = Fate(d)
    BY <1>3, <2>1, <2>2, <2>3 DEF Fate, Kept
  <2>5. Box!Accept(e)
    BY <1>3, <2>1, <2>4, Accepts
  <2>6. QED BY <2>5 DEF Box!Next
<1>8. CASE PushSkipped(e)
  <2>1. Acked' = Acked \cup {e} /\ pc[e] = "push"
    BY <1>4, <1>8 DEF PushSkipped, Goto
  <2>2. Kept' = Kept /\ table' = table /\ dropped' = dropped \cup {e}
    BY <1>2, <1>8 DEF PushSkipped, server, Kept
  <2>3. Fate(e)' = "given up" /\ \A d \in Entries \ {e} : Fate(d)' = Fate(d)
    BY <1>3, <2>1, <2>2 DEF Fate, Kept
  <2>4. Box!Accept(e)
    BY <1>3, <2>1, <2>3, Accepts
  <2>5. QED BY <2>4 DEF Box!Next
<1>9. CASE PushFails(e, b)
  <2>1. Acked' = Acked /\ pc[e] = "push" /\ UNCHANGED <<table, dropped>>
    BY <1>5, <1>9 DEF PushFails, Fallback, Goto
  <2>2. CASE b
    <3>1. Kept' = Kept \cup {e}
      BY <1>1, <1>2, <1>9, <2>2, ElementsOfAppend DEF PushFails, Kept
    <3>2. Fate(e) = "unknown" /\ Fate(e)' = "kept" /\ \A d \in Entries \ {e} : Fate(d)' = Fate(d)
      BY <1>3, <2>1, <3>1 DEF Fate, Kept
    <3>3. Box!Keep(e)
      BY <2>1, <3>2 DEF Box!Keep, Acked
    <3>4. QED BY <3>3 DEF Box!Next
  <2>3. CASE ~b
    <3>1. Kept' = Kept
      BY <1>2, <1>9, <2>3 DEF PushFails, Kept
    <3>2. QED BY <2>1, <3>1, BoxStutters
  <2>4. QED BY <2>2, <2>3
<1>10. CASE DirectWrite(e, b)
  <2>1. Acked' = Acked \cup {e} /\ pc[e] = "direct"
    BY <1>4, <1>10 DEF DirectWrite, Goto
  <2>2. Kept' = Kept
    BY <1>2, <1>10 DEF DirectWrite, Kept
  <2>3. \/ ToSet(table') = ToSet(table) \cup {e} /\ dropped' = dropped
        \/ table' = table /\ dropped' = dropped \cup {e}
    <3>1. ToSet(<<e>>) = {e} /\ table \o <<e>> = Append(table, e)
      BY <1>1, AppendIsConcat DEF ToSet
    <3>2. ToSet(Append(table, e)) = ToSet(table) \cup {e}
      BY <1>1, ElementsOfAppend
    <3>3. QED BY <1>10, <3>1, <3>2 DEF DirectWrite, Write
  <2>4. /\ \A d \in Entries \ {e} : Fate(d)' = Fate(d)
        /\ Fate(e)' # "unknown" /\ (Fate(e) = "delivered" => Fate(e)' = "delivered")
        /\ (Fate(e) = "given up" => Fate(e)' # "kept")
    BY <2>2, <2>3 DEF Fate, Kept
  <2>5. Box!Accept(e)
    BY <2>1, <2>4, Accepts
  <2>6. QED BY <2>5 DEF Box!Next
<1>11. QED BY <1>6, <1>7, <1>8, <1>9, <1>10

\* The steps of a callback keep, or settle, what it holds.
LEMMA CallbackRefines ==
    ASSUME QueueInv, NEW w \in Callbacks, NEW b \in BOOLEAN,
           Tick(w) \/ Pop(w) \/ PopFails(w, b) \/ BatchWrite(w, b)
    PROVE  [Box!Next]_(Box!vars)
<1>1. TypeOK /\ Acked' = Acked
  BY DEF QueueInv, Tick, Pop, PopFails, BatchWrite, Acked
<1>2. ToSet(batch[w]) \subseteq Held /\ ToSet(queue) = ToSet(Taken) \cup ToSet(Rest)
  BY <1>1, HandsAreKept
<1>3. ASSUME EndCallback(w)
      PROVE  Held' \subseteq Held /\ Held \subseteq Held' \cup ToSet(batch[w])
  <2>1. ToSet(<<>>) = {}
    BY DEF ToSet
  <2>2. QED BY <1>1, <1>3, <2>1, HeldMoves, HeldStill DEF EndCallback
<1>4. cb[w] = "pop" => ToSet(batch[w]) = {}
  BY <1>1 DEF TypeOK, ToSet
<1>5. CASE Tick(w)
  <2>1. Kept' = Kept /\ ToSet(table') = ToSet(table) /\ dropped' = dropped
    BY <1>5 DEF Tick, server, history, Kept, Held
  <2>2. QED BY <1>1, <2>1, BoxStutters
<1>6. CASE Pop(w)
  <2>1. queue' = Rest /\ UNCHANGED <<table, dropped>> /\ cb[w] = "pop"
    BY <1>6 DEF Pop, history
  <2>2. Held' = Held \cup ToSet(Taken)
    <3>1. CASE Taken = <<>>
      <4>1. ToSet(Taken) = {}
        BY <3>1 DEF ToSet
      <4>2. EndCallback(w)
        BY <1>6, <3>1 DEF Pop
      <4>3. QED BY <1>3, <1>4, <2>1, <4>1, <4>2
    <3>2. CASE Taken # <<>>
      <4>1. batch' = [batch EXCEPT ![w] = Taken]
        BY <1>6, <3>2 DEF Pop
      <4>2. Held' \subseteq Held \cup ToSet(Taken)
        BY <1>1, <4>1, HeldMoves
      <4>3. Held \subseteq Held' \cup ToSet(batch[w]) /\ ToSet(Taken) \subseteq Held'
        BY <1>1, <4>1, HeldStill
      <4>4. QED BY <1>4, <2>1, <4>2, <4>3
    <3>3. QED BY <3>1, <3>2
  <2>3. Kept' = Kept
    BY <1>2, <2>1, <2>2 DEF Kept
  <2>4. QED BY <1>1, <2>1, <2>3, BoxStutters
<1>7. CASE PopFails(w, b)
  <2>1. EndCallback(w) /\ cb[w] = "pop" /\ table' = table
    BY <1>7 DEF PopFails
  <2>2. Held' = Held
    BY <1>3, <1>4, <2>1
  <2>3. CASE b
    <3>1. queue' = Rest /\ dropped' = dropped \cup ToSet(Taken)
      BY <1>7, <2>3 DEF PopFails
    <3>2. /\ ToSet(Taken) \subseteq Kept /\ Kept' \subseteq Kept
          /\ Kept \subseteq Kept' \cup ToSet(Taken)
      BY <1>2, <2>2, <3>1 DEF Kept
    <3>3. Box!Next
      <4> DEFINE X == ToSet(Taken)
      <4>1. X \subseteq Kept /\ Kept' \subseteq Kept /\ Kept \subseteq Kept' \cup X
            /\ dropped' = dropped \cup X
        BY <3>1, <3>2
      <4> HIDE DEF X
      <4>2. \A f \in {"given up"} :
               /\ f \in {"delivered", "given up"}
               /\ ToSet(table') = (IF f = "delivered" THEN ToSet(table) \cup X ELSE ToSet(table))
               /\ dropped' = (IF f = "delivered" THEN dropped ELSE dropped \cup X)
        BY <2>1, <4>1
      <4>3. QED BY <1>1, <4>1, <4>2, Settles
    <3>4. QED BY <3>3
  <2>4. CASE ~b
    <3>1. Kept' = Kept /\ dropped' = dropped
      BY <1>7, <2>2, <2>4 DEF PopFails, Kept
    <3>2. QED BY <1>1, <2>1, <3>1, BoxStutters
  <2>5. QED BY <2>3, <2>4
<1>8. CASE BatchWrite(w, b)
  <2>1. EndCallback(w) /\ queue' = queue /\ Write(batch[w], b)
    BY <1>8 DEF BatchWrite
  <2> DEFINE X == ToSet(batch[w])
             f == IF b THEN "delivered" ELSE "given up"
  <2>2. X \subseteq Kept /\ Kept' \subseteq Kept /\ Kept \subseteq Kept' \cup X
    BY <1>2, <1>3, <2>1 DEF Kept
  <2>3. ToSet(table \o batch[w]) = ToSet(table) \cup X
    BY <1>1, ElementsOfConcat DEF TypeOK
  <2>4. /\ ToSet(table') = IF f = "delivered" THEN ToSet(table) \cup X ELSE ToSet(table)
        /\ dropped' = IF f = "delivered" THEN dropped ELSE dropped \cup X
    BY <2>1, <2>3 DEF Write
  <2>5. f \in {"delivered", "given up"}
    OBVIOUS
  <2> HIDE DEF X, f
  <2>6. QED BY <1>1, <2>2, <2>4, <2>5, Settles
<1>9. QED BY <1>5, <1>6, <1>7, <1>8

\* A restart gives up what was held.
LEMMA RestartRefines == ASSUME QueueInv, Restart PROVE Box!Next
<1>1. pc \in [Entries -> {"new", "push", "direct", "returned", "lost"}]
  BY DEF QueueInv, TypeOK
<1>2. Acked' = Acked
  BY <1>1 DEF Restart, Acked
<1>3. Held' = {}
  BY DEF Restart, Held, ToSet
<1>4. dropped' = dropped \cup Held /\ UNCHANGED <<queue, table>>
  BY DEF Restart, Held, server
<1> DEFINE X == Held
<1>5. X \subseteq Kept /\ Kept' \subseteq Kept /\ Kept \subseteq Kept' \cup X /\ dropped' = dropped \cup X
  BY <1>3, <1>4 DEF Kept
<1>6. \A f \in {"given up"} :
         /\ f \in {"delivered", "given up"}
         /\ ToSet(table') = (IF f = "delivered" THEN ToSet(table) \cup X ELSE ToSet(table))
         /\ dropped' = (IF f = "delivered" THEN dropped ELSE dropped \cup X)
  BY <1>4
<1>7. QED BY <1>2, <1>5, <1>6, Settles

\* Every step of the queue is a step of the outbox or none.
LEMMA StepRefines == QueueInv /\ GivenUpLate /\ [Next]_vars => [Box!Next]_(Box!vars)
<1> SUFFICES ASSUME QueueInv, GivenUpLate, [Next]_vars PROVE [Box!Next]_(Box!vars)
  OBVIOUS
<1>1. CASE Stop \/ RedisChange \/ UNCHANGED vars
  <2>1. Kept' = Kept /\ ToSet(table') = ToSet(table) /\ dropped' = dropped /\ Acked' = Acked
    BY <1>1 DEF Stop, RedisChange, vars, server, worker, history, Kept, Held, Acked
  <2>2. QED BY <2>1, BoxStutters
<1>2. CASE Restart
  BY <1>2, RestartRefines
<1>3. QED BY <1>1, <1>2, EnqueueRefines, CallbackRefines DEF Next

\* AuditLogQueue implements Outbox: an entry whose enqueue returned is kept
\* until it is delivered or given up, which either is for good, whatever
\* commands fail, replies are lost and processes restart.
THEOREM OutboxImplemented == Spec => ImplementsOutbox
<1>1. Init => GivenUpLate /\ Box!Init
  <2> SUFFICES ASSUME Init PROVE GivenUpLate /\ Box!Init
    OBVIOUS
  <2>1. ToSet(table) = {} /\ ToSet(queue) = {} /\ Held = {} /\ dropped = {}
    BY DEF Init, ToSet, Held
  <2>2. \A e \in Entries : Fate(e) = "unknown" /\ pc[e] # "returned"
    BY <2>1 DEF Fate, Init
  <2>3. QED BY <2>1, <2>2 DEF GivenUpLate, Box!Init
<1>2. QED BY <1>1, QueueInvariant, GivenUpStep, StepRefines, PTL DEF Spec, ImplementsOutbox, Box!Spec
=============================================================================
