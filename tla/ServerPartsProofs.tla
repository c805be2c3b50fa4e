-------------------------- MODULE ServerPartsProofs --------------------------
(***************************************************************************)
(* Proofs about parts of the server that stand on their own: the accounts, *)
(* the attestation schemas and the batches of attestations, for any number *)
(* of calls, emails, wallets, schemas, fields, requests and attempts.      *)
(***************************************************************************)
EXTENDS Accounts, Schemas, Batches, Integers, SequenceTheorems, TLAPS

(* Accounts *)

\* The row of a finished call is in the table, and a wallet login ends in a
\* row that has its wallet.
FinishedInTable ==
    \A c \in Calls : pc[c] = "done" =>
        \E r \in users : /\ account[c] = {r}
                         /\ kind[c] = "wallet" => r.wallet = form[c].wallet

\* A wallet is written in one row, in the same case.
OneRowPerWallet == \A r, s \in users : r.wallet # NoWallet /\ r.wallet = s.wallet => r = s

\* A wallet login has its wallet in lower case in hand.
LoginsNameAWallet ==
    \A c \in Calls : kind[c] = "wallet" => \E w \in Wallets : form[c].wallet = Lower(w)

AccountsInv ==
    /\ AccountsTypeOK
    /\ OneRowPerWallet
    /\ LoginsNameAWallet
    /\ FinishedInTable

\* No wallet is the missing one.
LEMMA LowerIsSome == \A w \in Wallets : Lower(w) # NoWallet /\ Lower(w)[1] = w
BY DEF Lower, NoWallet

\* The forms calls fill in are rows.
LEMMA FormsAreRows ==
    /\ \A e \in Emails, w \in Written : [email |-> e, wallet |-> w] \in Rows
    /\ \A w \in Wallets : /\ [email |-> TempEmail(w), wallet |-> NoWallet] \in Rows
                          /\ [email |-> TempEmail(w), wallet |-> Lower(w)] \in Rows
BY DEF Rows, Addresses, Written

\* The empty table satisfies the invariant.
LEMMA AccountsInitInv == AccountsInit => AccountsInv
<1> SUFFICES ASSUME AccountsInit PROVE AccountsInv
  OBVIOUS
<1>1. AccountsTypeOK
  BY FormsAreRows DEF AccountsInit, AccountsTypeOK
<1>2. OneRowPerWallet
  BY DEF AccountsInit, OneRowPerWallet
<1>3. LoginsNameAWallet /\ FinishedInTable
  BY DEF AccountsInit, LoginsNameAWallet, FinishedInTable
<1>4. QED BY <1>1, <1>2, <1>3 DEF AccountsInv

\* A step that only moves a call, and not to its end, keeps the invariant.
LEMMA MoveKeeps ==
    ASSUME AccountsInv, NEW c \in Calls,
           NEW label \in {"idle", "email", "wallet", "insert", "lookup", "failed"},
           Goto(c, label), UNCHANGED <<users, kind, form, account>>
    PROVE  AccountsInv'
<1>1. AccountsTypeOK'
  BY DEF AccountsInv, AccountsTypeOK, Goto
<1>2. OneRowPerWallet' /\ LoginsNameAWallet'
  BY DEF AccountsInv, OneRowPerWallet, LoginsNameAWallet
<1>3. \A d \in Calls : pc'[d] = "done" => pc[d] = "done"
  BY DEF Goto, AccountsInv, AccountsTypeOK
<1>4. FinishedInTable'
  BY <1>3 DEF AccountsInv, FinishedInTable
<1>5. QED BY <1>1, <1>2, <1>4 DEF AccountsInv

\* A call that begins names a row; a wallet login names its wallet.
LEMMA BeginKeeps ==
    ASSUME AccountsInv, NEW c \in Calls, NEW label \in {"email", "lookup"},
           pc[c] = "idle", Goto(c, label), NEW row \in Rows, NEW k \in {"register", "wallet"},
           k = "wallet" => \E w \in Wallets : row.wallet = Lower(w),
           form' = [form EXCEPT ![c] = row], kind' = [kind EXCEPT ![c] = k],
           UNCHANGED <<users, account>>
    PROVE  AccountsInv'
<1>1. AccountsTypeOK'
  BY DEF AccountsInv, AccountsTypeOK, Goto
<1>2. OneRowPerWallet'
  BY DEF AccountsInv, OneRowPerWallet
<1>3. LoginsNameAWallet'
  BY DEF AccountsInv, AccountsTypeOK, LoginsNameAWallet
<1>4. \A d \in Calls : pc'[d] = "done" => d # c /\ pc[d] = "done"
  BY DEF Goto, AccountsInv, AccountsTypeOK
<1>5. FinishedInTable'
  <2> SUFFICES ASSUME NEW d \in Calls, pc'[d] = "done"
               PROVE  \E r \in users' : /\ account'[d] = {r}
                                        /\ kind'[d] = "wallet" => r.wallet = form'[d].wallet
    BY DEF FinishedInTable
  <2>1. d # c /\ pc[d] = "done"
    BY <1>4
  <2>2. kind'[d] = kind[d] /\ form'[d] = form[d]
    BY <2>1 DEF AccountsInv, AccountsTypeOK
  <2>3. QED BY <2>1, <2>2 DEF AccountsInv, FinishedInTable
<1>6. QED BY <1>1, <1>2, <1>3, <1>5 DEF AccountsInv

\* A call ends in a row of the table, which may be new but is then unique.
LEMMA FinishKeeps ==
    ASSUME AccountsInv, NEW c \in Calls, NEW row \in Rows,
           \/ row \in users /\ users' = users
           \/ Unique(row) /\ users' = users \cup {row},
           kind[c] = "wallet" => row.wallet = form[c].wallet,
           Finish(c, row), UNCHANGED <<kind, form>>
    PROVE  AccountsInv'
<1>1. users' = users \cup {row}
  OBVIOUS
<1>2. pc' = [pc EXCEPT ![c] = "done"] /\ account' = [account EXCEPT ![c] = {row}]
  BY DEF Finish, Goto
<1>3. AccountsTypeOK'
  BY <1>1, <1>2 DEF AccountsInv, AccountsTypeOK
<1>5. OneRowPerWallet'
  BY <1>1 DEF AccountsInv, OneRowPerWallet, Unique
<1>6. LoginsNameAWallet'
  BY DEF AccountsInv, LoginsNameAWallet
<1>7. FinishedInTable'
  <2> SUFFICES ASSUME NEW d \in Calls, pc'[d] = "done"
               PROVE  \E r \in users' : /\ account'[d] = {r}
                                        /\ kind'[d] = "wallet" => r.wallet = form'[d].wallet
    BY DEF FinishedInTable
  <2>1. CASE d = c
    <3>1. row \in users' /\ account'[d] = {row}
      BY <2>1, <1>1, <1>2 DEF AccountsInv, AccountsTypeOK
    <3>2. QED BY <2>1, <3>1
  <2>2. CASE d # c
    <3>1. pc[d] = "done" /\ account'[d] = account[d]
      BY <2>2, <1>2 DEF AccountsInv, AccountsTypeOK
    <3>2. QED BY <3>1, <1>1 DEF AccountsInv, FinishedInTable
  <2>3. QED BY <2>1, <2>2
<1>8. QED BY <1>3, <1>5, <1>6, <1>7 DEF AccountsInv

\* A row that is inserted without its call learning of it is unique too.
LEMMA LostKeeps ==
    ASSUME AccountsInv, NEW c \in Calls, NEW row \in Rows, Unique(row),
           users' = users \cup {row}, Goto(c, "failed"), UNCHANGED <<kind, form, account>>
    PROVE  AccountsInv'
<1>1. AccountsTypeOK' /\ LoginsNameAWallet'
  BY DEF AccountsInv, AccountsTypeOK, LoginsNameAWallet, Goto
<1>2. OneRowPerWallet'
  BY DEF AccountsInv, OneRowPerWallet, Unique
<1>3. \A d \in Calls : pc'[d] = "done" => pc[d] = "done"
  BY DEF Goto, AccountsInv, AccountsTypeOK
<1>4. FinishedInTable'
  BY <1>3 DEF AccountsInv, FinishedInTable
<1>5. QED BY <1>1, <1>2, <1>4 DEF AccountsInv

\* Every step keeps the invariant.
LEMMA AccountsNextInv == AccountsInv /\ [AccountsNext]_accountVars => AccountsInv'
<1> SUFFICES ASSUME AccountsInv, [AccountsNext]_accountVars PROVE AccountsInv'
  OBVIOUS
<1>1. CASE UNCHANGED accountVars
  BY <1>1 DEF accountVars, AccountsInv, AccountsTypeOK, OneRowPerWallet,
              LoginsNameAWallet, FinishedInTable
<1>2. ASSUME NEW c \in Calls, NEW e \in Emails, NEW w \in Written, Register(c, e, w)
      PROVE  AccountsInv'
  <2>1. [email |-> e, wallet |-> w] \in Rows
    BY FormsAreRows
  <2>2. QED BY <1>2, <2>1, BeginKeeps DEF Register
<1>3. ASSUME NEW c \in Calls, NEW w \in Wallets, WalletLogin(c, w)
      PROVE  AccountsInv'
  <2>1. [email |-> TempEmail(w), wallet |-> Lower(w)] \in Rows
    BY FormsAreRows
  <2>2. QED BY <1>3, <2>1, BeginKeeps DEF WalletLogin
<1>4. ASSUME NEW c \in Calls, NEW error \in BOOLEAN, CheckEmail(c, error)
      PROVE  AccountsInv'
  BY <1>4, MoveKeeps DEF CheckEmail, Fail
<1>5. ASSUME NEW c \in Calls, NEW error \in BOOLEAN, CheckWallet(c, error)
      PROVE  AccountsInv'
  BY <1>5, MoveKeeps DEF CheckWallet, Fail
<1>6. ASSUME NEW c \in Calls, NEW error \in BOOLEAN, WalletLookup(c, error)
      PROVE  AccountsInv'
  <2>1. CASE Goto(c, "email") /\ UNCHANGED <<users, kind, form, account>>
    BY <2>1, MoveKeeps
  <2>2. CASE /\ \E r \in WithWallet(form[c].wallet) : Finish(c, r)
             /\ UNCHANGED <<users, kind, form>>
    <3>1. PICK r \in WithWallet(form[c].wallet) : Finish(c, r)
      BY <2>2
    <3>2. r \in users /\ r \in Rows /\ form[c].wallet # NoWallet
          /\ r.wallet = Lower(form[c].wallet[1])
      BY <3>1 DEF WithWallet, AccountsInv, AccountsTypeOK
    <3>3. ASSUME kind[c] = "wallet" PROVE r.wallet = form[c].wallet
      <4>1. PICK w \in Wallets : form[c].wallet = Lower(w)
        BY <3>3 DEF AccountsInv, LoginsNameAWallet
      <4>2. QED BY <4>1, <3>2, LowerIsSome
    <3>4. QED BY <2>2, <3>1, <3>2, <3>3, FinishKeeps
  <2>3. QED BY <1>6, <2>1, <2>2 DEF WalletLookup
<1>7. ASSUME NEW c \in Calls, NEW replied \in BOOLEAN, Insert(c, replied)
      PROVE  AccountsInv'
  <2>1. form[c] \in Rows
    BY DEF AccountsInv, AccountsTypeOK
  <2>2. CASE replied
    BY <1>7, <2>1, <2>2, FinishKeeps DEF Insert
  <2>3. CASE ~replied
    BY <1>7, <2>1, <2>3, LostKeeps DEF Insert
  <2>4. QED BY <2>2, <2>3
<1>8. ASSUME NEW c \in Calls, InsertFails(c)
      PROVE  AccountsInv'
  BY <1>8, MoveKeeps DEF InsertFails, Fail
<1>9. QED BY <1>1, <1>2, <1>3, <1>4, <1>5, <1>6, <1>7, <1>8 DEF AccountsNext

\* Every behaviour satisfies the invariant.
LEMMA AccountsInvariant == AccountsSpec => []AccountsInv
BY AccountsInitInv, AccountsNextInv, PTL DEF AccountsSpec

\* Every variable keeps its type, for any number of calls.
THEOREM AccountsTypeCorrect == AccountsSpec => []AccountsTypeOK
<1>1. AccountsInv => AccountsTypeOK
  BY DEF AccountsInv
<1>2. QED BY <1>1, AccountsInvariant, PTL

\* Two wallet logins that ended in rows with their wallet ended in one row.
LEMMA LoginsAgree == AccountsInv => WalletLoginStable
<1> SUFFICES ASSUME AccountsInv, NEW c \in Calls, NEW d \in Calls,
                    pc[c] = "done", kind[c] = "wallet", pc[d] = "done", kind[d] = "wallet",
                    form[c].wallet = form[d].wallet
             PROVE  account[c] = account[d]
  BY DEF WalletLoginStable
<1>1. PICK r \in users : account[c] = {r} /\ r.wallet = form[c].wallet
  BY DEF AccountsInv, FinishedInTable
<1>2. PICK s \in users : account[d] = {s} /\ s.wallet = form[d].wallet
  BY DEF AccountsInv, FinishedInTable
<1>3. form[c].wallet # NoWallet
  BY LowerIsSome DEF AccountsInv, LoginsNameAWallet
<1>4. r = s
  BY <1>1, <1>2, <1>3 DEF AccountsInv, OneRowPerWallet
<1>5. QED BY <1>1, <1>2, <1>4

-----------------------------------------------------------------------------
(* Schemas *)

SchemaRows == [state : {"none", "pending", "there"}, text : SchemaTexts]
CacheRows == [age : {"none", "fresh", "stale"}, text : SchemaTexts]
CallRows == [op : {"none", "register", "validate", "compare"}, ids : Seq(SchemaIds),
             got : Seq(SchemaTexts),
             result : {"none", "registered", "failed", "valid", "invalid", "compatible", "breaking"}]
AllSchemaCalls == SchemaCalls \cup {"initialize"}

SchemasTyped ==
    /\ registry \in [SchemaIds -> SchemaRows]
    /\ schemaCache \in [SchemaIds -> CacheRows]
    /\ schemaCall \in [AllSchemaCalls -> CallRows]
    /\ service \in {"new", "validating", "ready", "failed"}

\* What is cached is what is registered.
CacheRight ==
    \A i \in SchemaIds : schemaCache[i].age # "none" =>
        SchemaThere(i) /\ schemaCache[i].text = registry[i].text

\* What a call has got of its schemas is what is registered under their ids, and
\* its answer is about all of them.
CallRight(call) ==
    /\ call.op = "none" => call = NoCall
    /\ call.op = "register" => call.got = <<>> /\ (call.result # "failed" => Len(call.ids) = 1)
    /\ call.op = "validate" => Len(call.ids) = 1
    /\ call.op = "compare" => Len(call.ids) = 2
    /\ Len(call.got) <= Len(call.ids)
    /\ \A k \in 1..Len(call.got) :
          SchemaThere(call.ids[k]) /\ call.got[k] = registry[call.ids[k]].text
    /\ call.op = "register" /\ call.result \notin {"none", "failed"} =>
          call.result = "registered" /\ SchemaThere(call.ids[1])
    /\ call.op = "validate" /\ call.result \notin {"none", "failed"} =>
          Len(call.got) = 1 /\ call.result = ValidateSchemaStructure(call.got[1])
    /\ call.op = "compare" /\ call.result \notin {"none", "failed"} =>
          Len(call.got) = 2 /\ call.result = CompareSchemas(call.got[1], call.got[2])
    /\ call.op \in {"validate", "compare"} /\ call.result = "none" => Len(call.got) < Len(call.ids)

SchemasInv ==
    /\ SchemasTyped
    /\ CacheRight
    /\ \A c \in AllSchemaCalls : CallRight(schemaCall[c])

\* What is registered stays as it is.
RegistryKeeps == \A i \in SchemaIds : SchemaThere(i) => registry'[i] = registry[i]

\* The texts there are, and the empty one, are schema texts.
LEMMA TextsTyped == NoText \in SchemaTexts /\ \A text \in Texts : text \in SchemaTexts
<1>1. <<>> \in Seq([type : STRING, name : STRING])
  OBVIOUS
<1>2. NoText \in SchemaTexts
  BY <1>1 DEF NoText, SchemaTexts
<1>3. QED BY <1>2, SchemasAssumption

\* A call that has not begun is a call, and there is nothing wrong with it.
LEMMA NoCallRight == NoCall \in CallRows /\ CallRight(NoCall)
<1>1. <<>> \in Seq(SchemaIds) /\ <<>> \in Seq(SchemaTexts) /\ Len(<<>>) = 0
  OBVIOUS
<1>2. QED BY <1>1 DEF NoCall, CallRows, CallRight

LEMMA SchemasInitInv == SchemasInit => SchemasInv
<1> SUFFICES ASSUME SchemasInit PROVE SchemasInv
  OBVIOUS
<1>1. Unregistered \in SchemaRows /\ Uncached \in CacheRows
  BY TextsTyped DEF Unregistered, Uncached, SchemaRows, CacheRows
<1>2. SchemasTyped
  BY <1>1, NoCallRight DEF SchemasInit, SchemasTyped, AllSchemaCalls
<1>3. CacheRight
  BY DEF SchemasInit, CacheRight, Uncached
<1>4. \A c \in AllSchemaCalls : CallRight(schemaCall[c])
  BY NoCallRight DEF SchemasInit, AllSchemaCalls
<1>5. QED BY <1>2, <1>3, <1>4 DEF SchemasInv

\* While the registry keeps what it has, what was right of a call stays right.
LEMMA RightStays ==
    ASSUME SchemasTyped, RegistryKeeps, NEW call \in CallRows, CallRight(call)
    PROVE  CallRight(call)'
<1>1. call.ids \in Seq(SchemaIds) /\ call.got \in Seq(SchemaTexts)
      /\ Len(call.ids) \in Nat /\ Len(call.got) \in Nat
  BY DEF CallRows
<1>2. \A i \in SchemaIds : SchemaThere(i) => SchemaThere(i)' /\ registry'[i] = registry[i]
  BY DEF RegistryKeeps, SchemaThere
<1>3. \A k \in 1..Len(call.ids) : call.ids[k] \in SchemaIds
  BY <1>1
<1>4. \A k \in 1..Len(call.got) :
         SchemaThere(call.ids[k])' /\ call.got[k] = registry'[call.ids[k]].text
  <2> SUFFICES ASSUME NEW k \in 1..Len(call.got)
               PROVE  SchemaThere(call.ids[k])' /\ call.got[k] = registry'[call.ids[k]].text
    OBVIOUS
  <2>1. k \in 1..Len(call.ids)
    BY <1>1 DEF CallRight
  <2>2. SchemaThere(call.ids[k]) /\ call.got[k] = registry[call.ids[k]].text
    BY DEF CallRight
  <2>3. QED BY <1>2, <1>3, <2>1, <2>2
<1>5. ASSUME call.op = "register", call.result \notin {"none", "failed"}
      PROVE  call.result = "registered" /\ SchemaThere(call.ids[1])'
  <2>1. call.result = "registered" /\ SchemaThere(call.ids[1]) /\ Len(call.ids) = 1
    BY <1>5 DEF CallRight
  <2>2. QED BY <1>2, <1>3, <2>1
<1>6. QED BY <1>4, <1>5 DEF CallRight

\* A step of one call, which leaves the registry what it has.
LEMMA SchemasStepOf ==
    ASSUME SchemasInv, RegistryKeeps, SchemasTyped', CacheRight',
           NEW c \in AllSchemaCalls,
           \A d \in AllSchemaCalls \ {c} : schemaCall'[d] = schemaCall[d],
           NEW call, schemaCall'[c] = call, CallRight(call)'
    PROVE  SchemasInv'
<1>1. ASSUME NEW d \in AllSchemaCalls PROVE CallRight(schemaCall[d])'
  <2>1. CASE d = c
    BY <2>1
  <2>2. CASE d # c
    <3>1. PICK e \in CallRows : e = schemaCall[d] /\ e = schemaCall'[d]
      BY <2>2 DEF SchemasInv, SchemasTyped
    <3>2. CallRight(e)
      BY <3>1 DEF SchemasInv
    <3>3. CallRight(e)'
      BY <3>2, RightStays DEF SchemasInv
    <3>4. QED BY <3>1, <3>3
  <2>3. QED BY <2>1, <2>2
<1>2. QED BY <1>1 DEF SchemasInv

\* A step of none of them.
LEMMA SchemasStepAlone ==
    ASSUME SchemasInv, RegistryKeeps, SchemasTyped', CacheRight', UNCHANGED schemaCall
    PROVE  SchemasInv'
<1>1. PICK e \in CallRows : e = schemaCall["initialize"] /\ e = schemaCall'["initialize"]
  BY DEF SchemasInv, SchemasTyped, AllSchemaCalls
<1>2. CallRight(e)'
  BY <1>1, RightStays DEF SchemasInv, AllSchemaCalls
<1>3. QED BY <1>1, <1>2, SchemasStepOf DEF AllSchemaCalls

\* A call that begins, with the schemas it is about, is right.
LEMMA BeginRight ==
    ASSUME SchemasInv, RegistryKeeps, SchemasTyped', CacheRight', NEW c \in AllSchemaCalls,
           NEW op \in {"register", "validate", "compare"}, NEW ids \in Seq(SchemaIds),
           Len(ids) = IF op = "compare" THEN 2 ELSE 1,
           Begin(c, op, ids)
    PROVE  SchemasInv'
<1> DEFINE call == [NoCall EXCEPT !.op = op, !.ids = ids]
<1>1. call.op = op /\ call.ids = ids /\ call.got = <<>> /\ call.result = "none"
  <2>1. NoCall \in CallRows /\ NoCall.got = <<>> /\ NoCall.result = "none"
    BY NoCallRight DEF NoCall
  <2>2. QED BY <2>1 DEF CallRows
<1>2. CallRight(call)'
  <2> HIDE DEF call
  <2>1. Len(<<>>) = 0 /\ Len(ids) \in {1, 2}
    OBVIOUS
  <2>2. op # "none" /\ (op = "validate" => Len(ids) = 1) /\ (op = "compare" => Len(ids) = 2)
        /\ (op = "register" => Len(ids) = 1)
    OBVIOUS
  <2>3. \A k \in 1..Len(call.got) : FALSE
    BY <1>1, <2>1
  <2>4. Len(<<>>) < Len(ids) /\ Len(<<>>) <= Len(ids)
    BY <2>1
  <2>5. Len(call.got) < Len(call.ids) /\ Len(call.got) <= Len(call.ids)
    BY <1>1, <2>4, Zenon
  <2>6. QED BY ONLY <1>1, <2>2, <2>3, <2>5 DEF CallRight
<1>3. schemaCall'[c] = call /\ \A d \in AllSchemaCalls \ {c} : schemaCall'[d] = schemaCall[d]
  BY DEF Begin, SchemasInv, SchemasTyped
<1> HIDE DEF call
<1>4. QED BY <1>2, <1>3, SchemasStepOf

\* So its row has its type.
LEMMA BeginTyped ==
    ASSUME SchemasInv, NEW c \in AllSchemaCalls, NEW op \in {"register", "validate", "compare"},
           NEW ids \in Seq(SchemaIds), Begin(c, op, ids)
    PROVE  schemaCall' \in [AllSchemaCalls -> CallRows]
<1>1. [NoCall EXCEPT !.op = op, !.ids = ids] \in CallRows
  BY NoCallRight DEF CallRows
<1>2. QED BY <1>1 DEF SchemasInv, SchemasTyped, Begin

\* An action that leaves the registry and the cache keeps what is known of them.
LEMMA CacheStays == CacheRight /\ UNCHANGED <<registry, schemaCache>> => RegistryKeeps /\ CacheRight'
BY DEF CacheRight, RegistryKeeps, SchemaThere

\* A call that ends, failed or with the answer its schemas give.
LEMMA EndRight ==
    ASSUME SchemasInv, NEW c \in AllSchemaCalls, schemaCall[c].op # "none",
           NEW result \in {"failed", "registered"}, End(c, result),
           result = "registered" => /\ schemaCall[c].op = "register"
                                    /\ schemaCall[c].result # "failed"
                                    /\ SchemaThere(schemaCall[c].ids[1]),
           UNCHANGED <<registry, schemaCache, service>>
    PROVE  SchemasInv'
<1> DEFINE old == schemaCall[c]
<1>1. old \in CallRows /\ CallRight(old)
  BY DEF SchemasInv, SchemasTyped
<1>2. PICK call \in CallRows : call = [old EXCEPT !.result = result]
  BY <1>1 DEF CallRows
<1>3. schemaCall' = [schemaCall EXCEPT ![c] = call]
  BY <1>2 DEF End
<1>4. schemaCall'[c] = call /\ \A d \in AllSchemaCalls \ {c} : schemaCall'[d] = schemaCall[d]
  BY <1>3 DEF SchemasInv, SchemasTyped
<1>5. SchemasTyped' /\ RegistryKeeps /\ CacheRight'
  BY <1>2, <1>3, CacheStays DEF SchemasInv, SchemasTyped
<1>6. call.op = old.op /\ call.ids = old.ids /\ call.got = old.got /\ call.result = result
  BY <1>1, <1>2 DEF CallRows
<1>7. CallRight(call)
  BY <1>1, <1>6 DEF CallRight
<1>8. CallRight(call)'
  BY <1>2, <1>5, <1>7, RightStays DEF SchemasInv
<1>9. QED BY <1>4, <1>5, <1>8, SchemasStepOf

\* A call that gets the next of its schemas, as it is registered.
LEMMA GetOnRight ==
    ASSUME SchemasInv, SchemasTyped', CacheRight', UNCHANGED registry,
           NEW c \in AllSchemaCalls, Reading(c), SchemaThere(Wanted(c)),
           GetOn(c, registry[Wanted(c)].text)
    PROVE  SchemasInv'
<1> DEFINE old == schemaCall[c]
           text == registry[Wanted(c)].text
           got == Append(old.got, text)
           result == IF Len(got) < Len(old.ids) THEN "none"
                     ELSE IF old.op = "validate" THEN ValidateSchemaStructure(got[1])
                     ELSE CompareSchemas(got[1], got[2])
<1>1. old \in CallRows /\ CallRight(old) /\ old.op \in {"validate", "compare"} /\ old.result = "none"
  BY DEF SchemasInv, SchemasTyped, Reading
<1>2. /\ old.ids \in Seq(SchemaIds) /\ Len(old.ids) \in Nat
      /\ old.got \in Seq(SchemaTexts) /\ Len(old.got) \in Nat
  BY <1>1 DEF CallRows
<1>3. Len(old.got) < Len(old.ids) /\ Len(old.ids) = IF old.op = "compare" THEN 2 ELSE 1
  BY <1>1 DEF CallRight
<1>4. Wanted(c) = old.ids[Len(old.got) + 1] /\ Wanted(c) \in SchemaIds
  BY <1>2, <1>3 DEF Wanted
<1>5. text \in SchemaTexts
  BY <1>4 DEF SchemasInv, SchemasTyped, SchemaRows
<1>6. schemaCall' = [schemaCall EXCEPT ![c].got = got, ![c].result = result]
  BY DEF GetOn
<1>7. PICK call : /\ call = [op |-> old.op, ids |-> old.ids, got |-> got, result |-> result]
                  /\ schemaCall'[c] = call
                  /\ \A d \in AllSchemaCalls \ {c} : schemaCall'[d] = schemaCall[d]
  BY <1>1, <1>6 DEF SchemasInv, SchemasTyped, CallRows
<1>8. /\ Len(got) = Len(old.got) + 1
      /\ \A k \in 1..Len(old.got) : got[k] = old.got[k]
      /\ got[Len(old.got) + 1] = text
  BY <1>2, <1>5
<1>9. \A k \in 1..Len(got) : SchemaThere(old.ids[k]) /\ got[k] = registry[old.ids[k]].text
  <2> HIDE DEF got
  <2> SUFFICES ASSUME NEW k \in 1..Len(got)
               PROVE  SchemaThere(old.ids[k]) /\ got[k] = registry[old.ids[k]].text
    OBVIOUS
  <2>1. CASE k \in 1..Len(old.got)
    BY <2>1, <1>1, <1>8 DEF CallRight
  <2>2. CASE k = Len(old.got) + 1
    BY <2>2, <1>4, <1>8
  <2>3. QED BY <2>1, <2>2, <1>2, <1>8
<1>10. \A a, b : ValidateSchemaStructure(a) # "none" /\ CompareSchemas(a, b) # "none"
  BY DEF ValidateSchemaStructure, CompareSchemas
<1>11. CallRight(call)
  <2> HIDE DEF got
  <2>0. call.op = old.op /\ call.ids = old.ids /\ call.got = got /\ call.result = result
    BY <1>7
  <2>1. result # "none" => Len(got) = Len(old.ids)
    BY <1>2, <1>3, <1>8
  <2>2. result = "none" => Len(got) < Len(old.ids)
    BY <1>10
  <2>3. /\ result # "none" /\ old.op = "validate" => result = ValidateSchemaStructure(got[1])
        /\ result # "none" /\ old.op = "compare" => result = CompareSchemas(got[1], got[2])
    BY <1>1
  <2> HIDE DEF result
  <2>4. \A k \in 1..Len(call.got) :
           SchemaThere(call.ids[k]) /\ call.got[k] = registry[call.ids[k]].text
    BY <2>0, <1>9
  <2>5. Len(got) <= Len(old.ids) /\ Len(old.ids) \in {1, 2}
    BY <1>2, <1>3, <1>8
  <2>6. /\ call.op # "none" /\ call.op # "register"
        /\ call.op = "validate" => Len(call.ids) = 1
        /\ call.op = "compare" => Len(call.ids) = 2
        /\ Len(call.got) <= Len(call.ids)
    BY <1>1, <1>3, <2>0, <2>5
  <2>7. /\ call.op = "validate" /\ call.result # "none" =>
              Len(call.got) = 1 /\ call.result = ValidateSchemaStructure(call.got[1])
        /\ call.op = "compare" /\ call.result # "none" =>
              Len(call.got) = 2 /\ call.result = CompareSchemas(call.got[1], call.got[2])
        /\ call.result = "none" => Len(call.got) < Len(call.ids)
    BY <1>3, <2>0, <2>1, <2>2, <2>3
  <2>8. QED BY ONLY <2>4, <2>6, <2>7 DEF CallRight
<1>12. CallRight(call)'
  <2>1. call \in CallRows
    BY <1>7 DEF SchemasTyped
  <2>2. RegistryKeeps
    BY DEF RegistryKeeps
  <2>3. QED BY <1>11, <2>1, <2>2, RightStays DEF SchemasInv
<1>13. RegistryKeeps
  BY DEF RegistryKeeps
<1>14. QED BY <1>7, <1>12, <1>13, SchemasStepOf

\* What GetOn answers is an answer.
LEMMA GetOnTyped ==
    ASSUME SchemasInv, NEW c \in AllSchemaCalls, Reading(c), SchemaThere(Wanted(c)),
           GetOn(c, registry[Wanted(c)].text)
    PROVE  schemaCall' \in [AllSchemaCalls -> CallRows] /\ Wanted(c) \in SchemaIds
<1> DEFINE old == schemaCall[c]
<1>1. old \in CallRows /\ CallRight(old) /\ old.op \in {"validate", "compare"} /\ old.result = "none"
  BY DEF SchemasInv, SchemasTyped, Reading
<1>2. old.ids \in Seq(SchemaIds) /\ old.got \in Seq(SchemaTexts) /\ Len(old.got) < Len(old.ids)
  BY <1>1 DEF CallRows, CallRight
<1>3. Wanted(c) \in SchemaIds
  BY <1>2 DEF Wanted
<1>4. registry[Wanted(c)].text \in SchemaTexts
  BY <1>3 DEF SchemasInv, SchemasTyped, SchemaRows
<1>5. Append(old.got, registry[Wanted(c)].text) \in Seq(SchemaTexts)
  BY <1>2, <1>4
<1>6. \A a, b : /\ ValidateSchemaStructure(a) \in {"failed", "valid", "invalid"}
                /\ CompareSchemas(a, b) \in {"compatible", "breaking"}
  BY DEF ValidateSchemaStructure, CompareSchemas
<1>7. PICK g \in Seq(SchemaTexts),
           r \in {"none", "failed", "valid", "invalid", "compatible", "breaking"} :
           schemaCall' = [schemaCall EXCEPT ![c].got = g, ![c].result = r]
  BY <1>5, <1>6 DEF GetOn
<1>8. QED BY <1>1, <1>3, <1>7 DEF SchemasInv, SchemasTyped, CallRows

\* A registration or a mining is of an id that is not there yet.
LEMMA CacheKept ==
    SchemasInv /\ RegistryKeeps /\ UNCHANGED schemaCache => CacheRight'
BY DEF SchemasInv, CacheRight, RegistryKeeps, SchemaThere

LEMMA RegistrationKeeps ==
    ASSUME SchemasInv, NEW i \in SchemaIds, ~SchemaThere(i), NEW row \in SchemaRows,
           registry' = [registry EXCEPT ![i] = row], UNCHANGED schemaCache
    PROVE  RegistryKeeps /\ CacheRight' /\ registry' \in [SchemaIds -> SchemaRows]
<1>1. registry' \in [SchemaIds -> SchemaRows] /\ RegistryKeeps
  BY DEF SchemasInv, SchemasTyped, RegistryKeeps
<1>2. QED BY <1>1, CacheKept

LEMMA MineSchemaKeeps == ASSUME SchemasInv, NEW i \in SchemaIds, MineSchema(i) PROVE SchemasInv'
<1>1. PICK row \in SchemaRows : registry' = [registry EXCEPT ![i] = row]
  BY DEF MineSchema, SchemasInv, SchemasTyped, SchemaRows
<1>2. ~SchemaThere(i)
  BY DEF MineSchema, SchemaThere
<1>3. RegistryKeeps /\ CacheRight' /\ registry' \in [SchemaIds -> SchemaRows]
  BY <1>1, <1>2, RegistrationKeeps DEF MineSchema
<1>4. SchemasTyped'
  BY <1>3 DEF MineSchema, SchemasInv, SchemasTyped
<1>5. QED BY <1>3, <1>4, SchemasStepAlone DEF MineSchema

LEMMA RegisteredElsewhereKeeps ==
    ASSUME SchemasInv, NEW i \in SchemaIds, NEW text \in Texts, RegisteredElsewhere(i, text)
    PROVE  SchemasInv'
<1>1. [state |-> "there", text |-> text] \in SchemaRows
  BY TextsTyped DEF SchemaRows
<1>2. ~SchemaThere(i)
  BY DEF RegisteredElsewhere, SchemaThere, Unregistered
<1>3. RegistryKeeps /\ CacheRight' /\ registry' \in [SchemaIds -> SchemaRows]
  BY <1>1, <1>2, RegistrationKeeps DEF RegisteredElsewhere
<1>4. SchemasTyped'
  BY <1>3 DEF RegisteredElsewhere, SchemasInv, SchemasTyped
<1>5. QED BY <1>3, <1>4, SchemasStepAlone DEF RegisteredElsewhere

LEMMA RegisterSchemaKeeps ==
    ASSUME SchemasInv, NEW c \in SchemaCalls, NEW i \in SchemaIds, NEW text \in Texts,
           NEW accepted \in BOOLEAN, RegisterSchema(c, i, text, accepted)
    PROVE  SchemasInv'
<1>0. c \in AllSchemaCalls
  BY DEF AllSchemaCalls
<1>1. CASE ValidSchemaString(text) /\ accepted
  <2>1. /\ registry' = [registry EXCEPT ![i] = [state |-> "pending", text |-> text]]
        /\ Begin(c, "register", <<i>>)
        /\ UNCHANGED <<schemaCache, service>> /\ registry[i] = Unregistered
    BY <1>1 DEF RegisterSchema
  <2>2. [state |-> "pending", text |-> text] \in SchemaRows
    BY TextsTyped DEF SchemaRows
  <2>3. RegistryKeeps /\ CacheRight' /\ registry' \in [SchemaIds -> SchemaRows]
    <3>1. ~SchemaThere(i)
      BY <2>1 DEF SchemaThere, Unregistered
    <3>2. QED BY <2>1, <2>2, <3>1, RegistrationKeeps
  <2>4. <<i>> \in Seq(SchemaIds) /\ Len(<<i>>) = 1
    OBVIOUS
  <2>5. schemaCall' \in [AllSchemaCalls -> CallRows]
    BY <1>0, <2>1, <2>4, BeginTyped
  <2>6. SchemasTyped'
    BY <2>1, <2>3, <2>5 DEF SchemasInv, SchemasTyped
  <2>7. QED BY <1>0, <2>1, <2>3, <2>4, <2>6, BeginRight
<1>2. CASE ~(ValidSchemaString(text) /\ accepted)
  <2> DEFINE call == [NoCall EXCEPT !.op = "register", !.result = "failed"]
  <2>1. schemaCall' = [schemaCall EXCEPT ![c] = call]
        /\ UNCHANGED <<registry, schemaCache, service>>
    BY <1>2 DEF RegisterSchema
  <2>2. /\ call \in CallRows /\ call.op = "register" /\ call.result = "failed"
        /\ call.got = NoCall.got /\ call.ids = NoCall.ids
    BY NoCallRight DEF CallRows
  <2>3. NoCall.got = <<>> /\ NoCall.ids = <<>> /\ Len(<<>>) = 0
    BY DEF NoCall
  <2> HIDE DEF call
  <2>4. CallRight(call)'
    <3>1. Len(call.got) <= Len(call.ids) /\ \A k \in 1..Len(call.got) : FALSE
      BY <2>2, <2>3
    <3>2. QED BY ONLY <2>2, <2>3, <3>1 DEF CallRight
  <2>5. RegistryKeeps /\ CacheRight'
    BY <2>1, CacheStays DEF SchemasInv
  <2>6. SchemasTyped' /\ schemaCall'[c] = call
        /\ \A d \in AllSchemaCalls \ {c} : schemaCall'[d] = schemaCall[d]
    BY <1>0, <2>1, <2>2 DEF SchemasInv, SchemasTyped
  <2>7. QED BY <1>0, <2>4, <2>5, <2>6, SchemasStepOf
<1>3. QED BY <1>1, <1>2

\* A call that reads begins; and so does the start of the service.
LEMMA ReadBegins ==
    ASSUME SchemasInv, NEW c \in AllSchemaCalls, NEW op \in {"validate", "compare"},
           NEW ids \in Seq(SchemaIds), Len(ids) = IF op = "compare" THEN 2 ELSE 1,
           Begin(c, op, ids), UNCHANGED <<registry, schemaCache>>,
           service' \in {"new", "validating", "ready", "failed"}
    PROVE  SchemasInv'
<1>1. RegistryKeeps /\ CacheRight'
  BY CacheStays DEF SchemasInv
<1>2. schemaCall' \in [AllSchemaCalls -> CallRows]
  BY BeginTyped
<1>3. SchemasTyped'
  BY <1>2 DEF SchemasInv, SchemasTyped
<1>4. QED BY <1>1, <1>3, BeginRight

LEMMA GetSchemaKeeps ==
    ASSUME SchemasInv, NEW c \in AllSchemaCalls,
           GetCachedSchema(c) \/ GetSchema(c) \/ GetSchemaFails(c)
    PROVE  SchemasInv'
<1>1. CASE GetCachedSchema(c)
  <2>0. Wanted(c) \in SchemaIds
    <3>1. schemaCall[c] \in CallRows /\ CallRight(schemaCall[c])
      BY DEF SchemasInv, SchemasTyped
    <3>2. Len(schemaCall[c].got) < Len(schemaCall[c].ids)
      BY <1>1, <3>1 DEF GetCachedSchema, Reading, CallRight
    <3>3. schemaCall[c].ids \in Seq(SchemaIds) /\ schemaCall[c].got \in Seq(SchemaTexts)
      BY <3>1 DEF CallRows
    <3>4. QED BY <3>2, <3>3 DEF Wanted
  <2>1. SchemaThere(Wanted(c)) /\ schemaCache[Wanted(c)].text = registry[Wanted(c)].text
    BY <1>1, <2>0 DEF GetCachedSchema, SchemasInv, CacheRight
  <2>2. GetOn(c, registry[Wanted(c)].text) /\ Reading(c)
        /\ UNCHANGED <<registry, schemaCache, service>>
    BY <1>1, <2>1 DEF GetCachedSchema
  <2>3. schemaCall' \in [AllSchemaCalls -> CallRows]
    BY <2>1, <2>2, GetOnTyped
  <2>4. SchemasTyped' /\ CacheRight'
    BY <2>2, <2>3, CacheStays DEF SchemasInv, SchemasTyped
  <2>5. QED BY <2>1, <2>2, <2>4, GetOnRight
<1>2. CASE GetSchema(c)
  <2> DEFINE i == Wanted(c)
             row == [age |-> "fresh", text |-> registry[i].text]
  <2>1. /\ SchemaThere(i) /\ Reading(c) /\ GetOn(c, registry[i].text)
        /\ schemaCache' = [schemaCache EXCEPT ![i] = row]
        /\ UNCHANGED <<registry, service>>
    BY <1>2 DEF GetSchema
  <2>2. schemaCall' \in [AllSchemaCalls -> CallRows] /\ i \in SchemaIds
    BY <2>1, GetOnTyped
  <2>3. row \in CacheRows
    BY <2>2 DEF CacheRows, SchemasInv, SchemasTyped, SchemaRows
  <2> HIDE DEF i
  <2>4. SchemasTyped'
    BY <2>1, <2>2, <2>3 DEF SchemasInv, SchemasTyped
  <2>5. CacheRight'
    BY <2>1, <2>2 DEF SchemasInv, SchemasTyped, CacheRight, SchemaThere
  <2>6. QED BY <2>1, <2>4, <2>5, GetOnRight DEF i
<1>3. CASE GetSchemaFails(c)
  BY <1>3, EndRight DEF GetSchemaFails, Reading
<1>4. QED BY <1>1, <1>2, <1>3

\* Every step keeps the invariant.
LEMMA SchemasNextInv == SchemasInv /\ [SchemasNext]_schemaVars => SchemasInv'
<1> SUFFICES ASSUME SchemasInv, [SchemasNext]_schemaVars PROVE SchemasInv'
  OBVIOUS
<1>0. \A c \in SchemaCalls : c \in AllSchemaCalls
  BY DEF AllSchemaCalls
<1>1. CASE UNCHANGED schemaVars
  <2>1. RegistryKeeps /\ CacheRight' /\ SchemasTyped'
    BY <1>1, CacheStays DEF schemaVars, SchemasInv, SchemasTyped
  <2>2. QED BY <1>1, <2>1, SchemasStepAlone DEF schemaVars
<1>2. ASSUME NEW yes \in BOOLEAN, Initialize(yes) PROVE SchemasInv'
  <2>1. CASE yes
    <3>1. <<DefaultSchema>> \in Seq(SchemaIds) /\ Len(<<DefaultSchema>>) = 1
      BY SchemasAssumption
    <3>2. QED BY <1>2, <2>1, <3>1, ReadBegins DEF Initialize, AllSchemaCalls
  <2>2. CASE ~yes
    <3>1. RegistryKeeps /\ CacheRight' /\ SchemasTyped' /\ UNCHANGED schemaCall
      BY <1>2, <2>2, CacheStays DEF Initialize, SchemasInv, SchemasTyped
    <3>2. QED BY <3>1, SchemasStepAlone
  <2>3. QED BY <2>1, <2>2
<1>3. ASSUME NEW yes \in BOOLEAN, Initialized(yes) PROVE SchemasInv'
  <2>1. RegistryKeeps /\ CacheRight' /\ SchemasTyped' /\ UNCHANGED schemaCall
    BY <1>3, CacheStays DEF Initialized, SchemasInv, SchemasTyped
  <2>2. QED BY <2>1, SchemasStepAlone
<1>4. ASSUME NEW i \in SchemaIds, MineSchema(i) PROVE SchemasInv'
  BY <1>4, MineSchemaKeeps
<1>5. ASSUME NEW i \in SchemaIds, TimeToLivePasses(i) PROVE SchemasInv'
  <2>1. schemaCache' = [schemaCache EXCEPT ![i].age = "stale"] /\ schemaCache[i].age = "fresh"
        /\ UNCHANGED <<registry, schemaCall, service>>
    BY <1>5 DEF TimeToLivePasses
  <2>2. SchemasTyped'
    BY <2>1 DEF SchemasInv, SchemasTyped, CacheRows
  <2>3. RegistryKeeps /\ CacheRight'
    BY <2>1 DEF SchemasInv, SchemasTyped, CacheRows, CacheRight, RegistryKeeps, SchemaThere
  <2>4. QED BY <2>1, <2>2, <2>3, SchemasStepAlone
<1>6. ASSUME NEW i \in SchemaIds, NEW text \in Texts, RegisteredElsewhere(i, text) PROVE SchemasInv'
  BY <1>6, RegisteredElsewhereKeeps
<1>7. ASSUME NEW c \in SchemaCalls, NEW i \in SchemaIds, NEW text \in Texts,
             NEW accepted \in BOOLEAN, RegisterSchema(c, i, text, accepted)
      PROVE  SchemasInv'
  BY <1>7, RegisterSchemaKeeps
<1>8. ASSUME NEW c \in SchemaCalls, NEW i \in SchemaIds, ValidateSchema(c, i) PROVE SchemasInv'
  <2>1. <<i>> \in Seq(SchemaIds) /\ Len(<<i>>) = 1
    OBVIOUS
  <2>2. service' \in {"new", "validating", "ready", "failed"}
    BY <1>8 DEF ValidateSchema, SchemasInv, SchemasTyped
  <2>3. QED BY <1>0, <1>8, <2>1, <2>2, ReadBegins DEF ValidateSchema
<1>9. ASSUME NEW c \in SchemaCalls, NEW i \in SchemaIds, NEW j \in SchemaIds,
             CheckCompatibility(c, i, j)
      PROVE  SchemasInv'
  <2>1. <<i, j>> \in Seq(SchemaIds) /\ Len(<<i, j>>) = 2
    OBVIOUS
  <2>2. service' \in {"new", "validating", "ready", "failed"}
    BY <1>9 DEF CheckCompatibility, SchemasInv, SchemasTyped
  <2>3. QED BY <1>0, <1>9, <2>1, <2>2, ReadBegins DEF CheckCompatibility
<1>10. ASSUME NEW c \in SchemaCalls, SchemaRegistered(c) PROVE SchemasInv'
  BY <1>0, <1>10, EndRight DEF SchemaRegistered
<1>11. ASSUME NEW c \in SchemaCalls, RegistrationFails(c) PROVE SchemasInv'
  BY <1>0, <1>11, EndRight DEF RegistrationFails
<1>12. ASSUME NEW c \in SchemaCalls \cup {"initialize"},
              GetCachedSchema(c) \/ GetSchema(c) \/ GetSchemaFails(c)
       PROVE  SchemasInv'
  BY <1>12, GetSchemaKeeps DEF AllSchemaCalls
<1>13. QED BY <1>1, <1>2, <1>3, <1>4, <1>5, <1>6, <1>7, <1>8, <1>9, <1>10, <1>11, <1>12
             DEF SchemasNext

\* Every variable of the part has its type.
LEMMA SchemasTypes == SchemasInv => SchemasTypeOK
<1> SUFFICES ASSUME SchemasInv PROVE SchemasTypeOK
  OBVIOUS
<1>1. ASSUME NEW i \in SchemaIds
      PROVE  /\ registry[i].state \in {"none", "pending", "there"}
             /\ schemaCache[i].age \in {"none", "fresh", "stale"}
  BY DEF SchemasInv, SchemasTyped, SchemaRows, CacheRows
<1>2. ASSUME NEW c \in DOMAIN schemaCall
      PROVE  /\ schemaCall[c].op \in {"none", "register", "validate", "compare"}
             /\ schemaCall[c].result \in {"none", "registered", "failed", "valid", "invalid",
                                          "compatible", "breaking"}
             /\ Len(schemaCall[c].got) <= Len(schemaCall[c].ids)
  <2>1. c \in AllSchemaCalls /\ schemaCall[c] \in CallRows
    BY DEF SchemasInv, SchemasTyped
  <2>2. Len(schemaCall[c].got) <= Len(schemaCall[c].ids)
    BY <2>1 DEF SchemasInv, CallRight
  <2>3. QED BY <2>1, <2>2 DEF CallRows
<1>3. QED BY <1>1, <1>2 DEF SchemasTypeOK, SchemasInv, SchemasTyped

FieldsOf(text) == {text.fields[j] : j \in DOMAIN text.fields}

\* A valid text names each of its fields once, and TypeIn finds the one a name is of.
LEMMA FieldOfName ==
    ASSUME NEW text \in SchemaTexts, ValidateSchemaStructure(text) = "valid"
    PROVE  /\ \A j, k \in DOMAIN text.fields : text.fields[j].name = text.fields[k].name => j = k
           /\ \A k \in DOMAIN text.fields : TypeIn(text, text.fields[k].name) = text.fields[k].type
<1> DEFINE D == DOMAIN text.fields
<1>1. D \subseteq Nat
  BY DEF SchemaTexts
<1>2. \A k \in D : ~IsDuplicate(text.fields, k)
  BY DEF ValidateSchemaStructure
<1>3. \A j, k \in D : text.fields[j].name = text.fields[k].name => ~(j < k)
  BY <1>2 DEF IsDuplicate
<1>4. \A j, k \in D : text.fields[j].name = text.fields[k].name => j = k
  BY <1>1, <1>3
<1>5. ASSUME NEW k \in D PROVE TypeIn(text, text.fields[k].name) = text.fields[k].type
  <2> DEFINE last == CHOOSE i \in D :
                        /\ text.fields[i].name = text.fields[k].name
                        /\ \A j \in D : text.fields[j].name = text.fields[k].name => j <= i
  <2>1. \A j \in D : text.fields[j].name = text.fields[k].name => j <= k
    BY <1>1, <1>4
  <2>2. last \in D /\ text.fields[last].name = text.fields[k].name
    BY <2>1
  <2>3. last = k
    BY <1>4, <2>2
  <2>4. QED BY <2>3 DEF TypeIn
<1>6. QED BY <1>4, <1>5

\* compareSchemas: two valid texts are compatible exactly when they have the
\* same fields, in whatever order they have them.
LEMMA CompatibleIfSame ==
    ASSUME NEW a \in SchemaTexts, NEW b \in SchemaTexts,
           ValidateSchemaStructure(a) = "valid", ValidateSchemaStructure(b) = "valid"
    PROVE  CompareSchemas(a, b) = "compatible" <=> FieldsOf(a) = FieldsOf(b)
<1> DEFINE Same == /\ Names(a) = Names(b)
                   /\ \A n \in Names(a) \cap Names(b) : TypeIn(a, n) = TypeIn(b, n)
<1>1. CompareSchemas(a, b) = "compatible" <=> Same
  <2> DEFINE added == Names(b) \ Names(a)
             modified == {n \in Names(b) \cap Names(a) : TypeIn(a, n) # TypeIn(b, n)}
             removed == Names(a) \ Names(b)
  <2>1. CompareSchemas(a, b) = "compatible" <=> added \cup modified \cup removed = {}
    BY DEF CompareSchemas
  <2>2. added \cup modified \cup removed = {} <=> Same
    OBVIOUS
  <2>3. QED BY <2>1, <2>2
<1> DEFINE Fields == [type : STRING, name : STRING]
<1>2. \A x \in SchemaTexts : \A j \in DOMAIN x.fields : x.fields[j] \in Fields
  <2> SUFFICES ASSUME NEW x \in SchemaTexts, NEW j \in DOMAIN x.fields PROVE x.fields[j] \in Fields
    OBVIOUS
  <2>1. x.fields \in Seq(Fields)
    BY DEF SchemaTexts
  <2> HIDE DEF Fields
  <2>2. QED BY <2>1
<1>3. ASSUME NEW s \in SchemaTexts, NEW t \in SchemaTexts,
             ValidateSchemaStructure(s) = "valid", ValidateSchemaStructure(t) = "valid",
             Names(s) = Names(t), \A n \in Names(s) \cap Names(t) : TypeIn(s, n) = TypeIn(t, n)
      PROVE  FieldsOf(s) \subseteq FieldsOf(t)
  <2> SUFFICES ASSUME NEW j \in DOMAIN s.fields PROVE s.fields[j] \in FieldsOf(t)
    BY DEF FieldsOf
  <2>1. s.fields[j].name \in Names(s) \cap Names(t)
    BY <1>3 DEF Names
  <2>2. PICK k \in DOMAIN t.fields : t.fields[k].name = s.fields[j].name
    BY <2>1 DEF Names
  <2>3. t.fields[k].type = s.fields[j].type
    BY <1>3, <2>1, <2>2, FieldOfName
  <2>4. s.fields[j] \in Fields /\ t.fields[k] \in Fields
    BY <1>2
  <2>5. s.fields[j] = t.fields[k]
    BY <2>2, <2>3, <2>4
  <2>6. QED BY <2>5 DEF FieldsOf
<1>4. Same => FieldsOf(a) = FieldsOf(b)
  <2> SUFFICES ASSUME Same PROVE FieldsOf(a) \subseteq FieldsOf(b) /\ FieldsOf(b) \subseteq FieldsOf(a)
    OBVIOUS
  <2>1. \A n \in Names(b) \cap Names(a) : TypeIn(b, n) = TypeIn(a, n)
    OBVIOUS
  <2>2. QED BY <1>3, <2>1
<1>5. FieldsOf(a) = FieldsOf(b) => Same
  <2> SUFFICES ASSUME FieldsOf(a) = FieldsOf(b) PROVE Same
    OBVIOUS
  <2>1. \A t : Names(t) = {f.name : f \in FieldsOf(t)}
    BY DEF Names, FieldsOf
  <2>2. Names(a) = Names(b)
    BY <2>1
  <2>3. ASSUME NEW n \in Names(a) PROVE TypeIn(a, n) = TypeIn(b, n)
    <3>1. PICK j \in DOMAIN a.fields : a.fields[j].name = n
      BY DEF Names
    <3>2. PICK k \in DOMAIN b.fields : b.fields[k] = a.fields[j]
      BY DEF FieldsOf
    <3>3. QED BY <3>1, <3>2, FieldOfName
  <2>4. QED BY <2>2, <2>3
<1>6. QED BY <1>1, <1>4, <1>5

\* Every answer is that of the registry.
LEMMA AnswersAreRight == SchemasInv => SchemaAnswers
<1> SUFFICES ASSUME SchemasInv, NEW c \in AllSchemaCalls,
                    schemaCall[c].result \notin {"none", "failed"}
             PROVE  LET ids == schemaCall[c].ids
                        result == schemaCall[c].result
                        text(k) == registry[ids[k]].text
                        valid(k) == ValidateSchemaStructure(text(k)) = "valid"
                    IN /\ \A k \in DOMAIN ids : SchemaThere(ids[k])
                       /\ schemaCall[c].op = "validate" => (result = "valid") = valid(1)
                       /\ schemaCall[c].op = "compare" /\ valid(1) /\ valid(2) =>
                            (result = "compatible") = (FieldsOf(text(1)) = FieldsOf(text(2)))
  BY DEF SchemaAnswers, FieldsOf, SchemasInv, SchemasTyped
<1> DEFINE call == schemaCall[c]
           text(k) == registry[call.ids[k]].text
<1>1. call \in CallRows /\ CallRight(call) /\ call.op # "none"
  <2>1. call \in CallRows /\ CallRight(call)
    BY DEF SchemasInv, SchemasTyped
  <2>2. QED BY <2>1 DEF CallRight, NoCall
<1>2. call.ids \in Seq(SchemaIds) /\ call.got \in Seq(SchemaTexts) /\ DOMAIN call.ids = 1..Len(call.ids)
  BY <1>1 DEF CallRows
<1>3. \A k \in 1..Len(call.got) : SchemaThere(call.ids[k]) /\ call.got[k] = text(k)
  BY <1>1 DEF CallRight
<1>4. CASE call.op = "register"
  <2>1. Len(call.ids) = 1 /\ SchemaThere(call.ids[1])
    BY <1>1, <1>4 DEF CallRight
  <2>2. QED BY <1>2, <1>4, <2>1
<1>5. CASE call.op = "validate"
  <2>1. Len(call.ids) = 1 /\ Len(call.got) = 1 /\ call.result = ValidateSchemaStructure(call.got[1])
    BY <1>1, <1>5 DEF CallRight
  <2>2. SchemaThere(call.ids[1]) /\ call.got[1] = text(1)
    BY <1>3, <2>1
  <2>3. QED BY <1>2, <1>5, <2>1, <2>2
<1>6. CASE call.op = "compare"
  <2>1. Len(call.ids) = 2 /\ Len(call.got) = 2 /\ call.result = CompareSchemas(call.got[1], call.got[2])
    BY <1>1, <1>6 DEF CallRight
  <2>2. \A k \in 1..2 : SchemaThere(call.ids[k]) /\ call.got[k] = text(k) /\ call.got[k] \in SchemaTexts
    BY <1>2, <1>3, <2>1
  <2>3. ASSUME ValidateSchemaStructure(text(1)) = "valid", ValidateSchemaStructure(text(2)) = "valid"
        PROVE  call.result = "compatible" <=> FieldsOf(text(1)) = FieldsOf(text(2))
    BY <2>1, <2>2, <2>3, CompatibleIfSame
  <2>4. QED BY <1>2, <1>6, <2>1, <2>2, <2>3
<1>7. QED BY <1>1, <1>4, <1>5, <1>6 DEF CallRows

-----------------------------------------------------------------------------
(* Batches *)

Data == [verificationStatus : {"verified", "failed", "expired", "pending"},
         riskLevel : {"critical", "high", "medium", "low"}]
MadeRows == [uid : Seq(Nat), data : Data]
BatchRows == [at : {"idle", "send", "wait", "process", "store", "failed", "done"},
              n : BatchNumbers, attempt : 1..MaxAttempts]

BatchesTyped ==
    /\ inputs \in Seq(Results) /\ inputs \in BatchInputs \cup {<<>>}
    /\ batchTx \in [BatchUids -> {"none", "pending", "mined", "dropped"}]
    /\ batch \in BatchRows
    /\ made \in Seq(MadeRows)
    /\ readable \in BOOLEAN /\ arweave \in BOOLEAN

\* A call has no transactions before the batch and the attempt it is at, and a
\* batch is sent when all those before it are mined.
SentInOrder ==
    /\ \A n \in BatchNumbers, k \in 1..MaxAttempts : batchTx[<<n, k>>] # "none" =>
          /\ n <= batch.n
          /\ n = batch.n => k <= batch.attempt /\ (batch.at = "send" => k < batch.attempt)
    /\ \A n \in BatchNumbers : n < batch.n => Mined(n)

\* Where the call is: among its batches, with the current one mined from the
\* receipt on, and with all of them at the end.
CallStands ==
    /\ batch.at = "idle" => inputs = <<>> /\ made = <<>> /\ batch.n = 1
                            /\ \A u \in BatchUids : batchTx[u] = "none"
    /\ batch.at \in {"send", "wait", "process", "store"} => batch.n <= BatchCount
    /\ batch.at = "process" => batchTx[CurrentTx] = "mined"
    /\ batch.at = "store" => batch.n = BatchCount /\ Mined(batch.n)
    /\ batch.at = "done" => \A n \in 1..BatchCount : Mined(n)

\* The uid is of a request of a batch whose receipt was processed, which this
\* attempt made, and its data are those of the request.
EntryRight(entry) ==
    LET u == entry.uid IN
    /\ Len(u) = 3 /\ u[1] \in BatchNumbers /\ u[2] \in 1..MaxAttempts
    /\ batchTx[<<u[1], u[2]>>] = "mined"
    /\ entry.data = AttestationData(Slice(u[1])[u[3]])
    /\ batch.at \in {"send", "wait", "process"} => u[1] < batch.n

\* No request is reported twice.
ReportedOnce ==
    \A j, l \in 1..Len(made) :
        l < j => <<made[l].uid[1], made[l].uid[3]>> # <<made[j].uid[1], made[j].uid[3]>>

\* With logs that can be read nothing is left out.
AllReported ==
    readable =>
        /\ batch.at \in {"send", "wait", "process"} => Len(made) = (batch.n - 1) * BatchSize
        /\ batch.at \in {"store", "done"} => Len(made) = Len(inputs)

BatchesInv ==
    /\ BatchesTyped
    /\ SentInOrder
    /\ CallStands
    /\ \A j \in 1..Len(made) : EntryRight(made[j])
    /\ ReportedOnce
    /\ AllReported
    /\ uploads \cup stored \subseteq {made[j].uid : j \in DOMAIN made}

\* Of what the code divides: batch n + 1 exists when n batches do not hold all.
LEMMA Rounds ==
    ASSUME NEW S \in Nat \ {0}, NEW L \in Nat
    PROVE  LET q == (L + S - 1) \div S IN q \in Nat /\ \A n \in Nat : n < q <=> n * S < L
<1> DEFINE q == (L + S - 1) \div S
<1>1. L + S - 1 \in Nat
  OBVIOUS
<1>2. \A x \in Nat, s \in Nat \ {0} :
         (x \div s) \in Nat /\ (x \div s) * s <= x /\ x < (x \div s) * s + s
  OBVIOUS
<1>3. q \in Nat /\ q * S <= L + S - 1 /\ L + S - 1 < q * S + S
  BY <1>1, <1>2
<1> HIDE DEF q
<1>4. \A a, b, s \in Nat : a <= b => a * s <= b * s
  OBVIOUS
<1>5. ASSUME NEW n \in Nat, n < q PROVE n * S < L
  <2>1. (n + 1) * S <= q * S
    BY <1>3, <1>4, <1>5
  <2>2. (n + 1) * S = n * S + S
    OBVIOUS
  <2>3. n * S \in Nat /\ q * S \in Nat
    BY <1>3
  <2>4. QED BY <2>1, <2>2, <2>3, <1>3
<1>6. ASSUME NEW n \in Nat, ~(n < q) PROVE ~(n * S < L)
  <2>1. q * S <= n * S
    BY <1>3, <1>4, <1>6
  <2>2. n * S \in Nat /\ q * S \in Nat
    BY <1>3
  <2>3. QED BY <2>1, <2>2, <1>3
<1>7. QED BY <1>3, <1>5, <1>6 DEF q

\* BatchCount rounds up, within the bound.
LEMMA BatchCountIs ==
    BatchesTyped => /\ BatchCount \in Nat /\ BatchCount <= MaxBatches
                    /\ \A n \in Nat : n < BatchCount <=> n * BatchSize < Len(inputs)
<1> SUFFICES ASSUME BatchesTyped
             PROVE  /\ BatchCount \in Nat /\ BatchCount <= MaxBatches
                    /\ \A n \in Nat : n < BatchCount <=> n * BatchSize < Len(inputs)
  OBVIOUS
<1>1. Len(inputs) \in Nat /\ BatchSize \in Nat \ {0} /\ MaxBatches \in Nat
  BY BatchesAssumption DEF BatchesTyped
<1>2. BatchCount \in Nat /\ \A n \in Nat : n < BatchCount <=> n * BatchSize < Len(inputs)
  BY <1>1, Rounds DEF BatchCount
<1>3. CASE inputs = <<>>
  <2>1. ~(0 < BatchCount)
    <3>1. 0 * BatchSize = 0 /\ Len(inputs) = 0
      BY <1>1, <1>3
    <3>2. QED BY <1>2, <3>1
  <2>2. QED BY <1>1, <1>2, <2>1
<1>4. CASE inputs \in BatchInputs
  BY <1>2, <1>4, BatchesAssumption DEF BatchCount
<1>5. QED BY <1>2, <1>3, <1>4 DEF BatchesTyped

\* A batch is a run of the requests, of the size it has left.
LEMMA SliceIs ==
    ASSUME BatchesTyped, NEW n \in Nat \ {0}, n <= BatchCount
    PROVE  /\ Slice(n) \in Seq(Results)
           /\ Len(Slice(n)) = Least(n * BatchSize, Len(inputs)) - (n - 1) * BatchSize
           /\ Len(Slice(n)) \in Nat
           /\ (n - 1) * BatchSize \in Nat /\ n * BatchSize = (n - 1) * BatchSize + BatchSize
<1> DEFINE z == (n - 1) * BatchSize
<1>1. z \in Nat /\ BatchSize \in Nat \ {0} /\ n * BatchSize = z + BatchSize
  BY BatchesAssumption
<1>2. z < Len(inputs)
  BY BatchCountIs
<1>3. inputs \in Seq(Results) /\ Len(inputs) \in Nat
  BY DEF BatchesTyped
<1> HIDE DEF z
<1>4. z + 1 \in Nat /\ Least(z + BatchSize, Len(inputs)) \in z..Len(inputs)
  BY <1>1, <1>2, <1>3 DEF Least
<1>5. \A s \in Seq(Results), a, b \in Nat : 1 <= a /\ a <= b + 1 /\ b <= Len(s) =>
         SubSeq(s, a, b) \in Seq(Results) /\ Len(SubSeq(s, a, b)) = b - a + 1
  OBVIOUS
<1> DEFINE e == Least(z + BatchSize, Len(inputs))
<1>6. SubSeq(inputs, z + 1, e) \in Seq(Results) /\ Len(SubSeq(inputs, z + 1, e)) = e - z
  <2>1. e \in Nat /\ z <= e /\ e <= Len(inputs)
    BY <1>1, <1>3, <1>4
  <2> HIDE DEF e
  <2>2. SubSeq(inputs, z + 1, e) \in Seq(Results) /\ Len(SubSeq(inputs, z + 1, e)) = e - (z + 1) + 1
    BY <1>1, <1>3, <1>5, <2>1
  <2>3. QED BY <1>1, <2>1, <2>2
<1>7. e - z \in Nat
  BY <1>1, <1>3, <1>4
<1>8. Slice(n) = SubSeq(inputs, z + 1, e)
  BY <1>1 DEF Slice, z
<1>9. QED BY <1>1, <1>6, <1>7, <1>8 DEF z

\* What the contract is given of a result.
LEMMA DataOfResult == \A r \in Results : AttestationData(r) \in Data
<1> SUFFICES ASSUME NEW r \in Results PROVE AttestationData(r) \in Data
  OBVIOUS
<1>1. MapKycStatus(r.status) \in {"verified", "failed", "expired", "pending"}
  <2>1. CASE r.status = "completed"
    BY <2>1 DEF MapKycStatus
  <2>2. CASE r.status \in {"failed", "expired"}
    BY <2>2 DEF MapKycStatus
  <2>3. CASE r.status # "completed" /\ r.status \notin {"failed", "expired"}
    BY <2>3 DEF MapKycStatus
  <2>4. QED BY <2>1, <2>2, <2>3
<1>2. CalculateRiskLevel(r.confidence) \in {"critical", "high", "medium", "low"}
  BY DEF CalculateRiskLevel
<1>3. QED BY <1>1, <1>2 DEF AttestationData, Data

\* The steps of a call before and after its uploads begin.
Sending == {"send", "wait", "process"}
Storing == {"store", "done"}

\* No step takes back what is mined.
MinedKeeps == \A u \in BatchUids : batchTx[u] = "mined" => batchTx'[u] = "mined"

LEMMA MinedStays == MinedKeeps => \A n \in BatchNumbers : Mined(n) => Mined(n)'
BY DEF MinedKeeps, Mined, BatchUids

LEMMA BatchesInitInv == BatchesInit => BatchesInv
<1> SUFFICES ASSUME BatchesInit PROVE BatchesInv
  OBVIOUS
<1>1. batch = [at |-> "idle", n |-> 1, attempt |-> 1] /\ batch \in BatchRows
  BY BatchesAssumption DEF BatchesInit, BatchRows, BatchNumbers
<1>2. BatchesTyped
  BY <1>1 DEF BatchesInit, BatchesTyped
<1>3. SentInOrder
  BY <1>1 DEF BatchesInit, SentInOrder, BatchUids, BatchNumbers
<1>4. CallStands
  BY <1>1 DEF BatchesInit, CallStands
<1>5. Len(made) = 0 /\ made = <<>>
  BY DEF BatchesInit
<1>6. ReportedOnce /\ AllReported /\ \A j \in 1..Len(made) : EntryRight(made[j])
  BY <1>1, <1>5 DEF ReportedOnce, AllReported
<1>7. uploads \cup stored \subseteq {made[j].uid : j \in DOMAIN made}
  BY DEF BatchesInit
<1>8. QED BY <1>2, <1>3, <1>4, <1>6, <1>7 DEF BatchesInv

\* What was reported right stays right.
LEMMA EntryStays ==
    ASSUME NEW entry, EntryRight(entry), MinedKeeps, UNCHANGED inputs,
           batch'.at \in Sending => batch.at \in Sending /\ batch'.n = batch.n
    PROVE  EntryRight(entry)'
<1> DEFINE u == entry.uid
<1>1. u[1] \in BatchNumbers /\ u[2] \in 1..MaxAttempts /\ Len(u) = 3
  BY DEF EntryRight
<1>2. batchTx'[<<u[1], u[2]>>] = "mined"
  BY <1>1 DEF EntryRight, MinedKeeps, BatchUids
<1>3. entry.data = AttestationData(Slice(u[1])[u[3]])'
  BY DEF EntryRight, Slice
<1>4. batch'.at \in Sending => u[1] < batch'.n
  BY DEF EntryRight, Sending
<1>5. QED BY <1>1, <1>2, <1>3, <1>4 DEF EntryRight, Sending

\* A step that reports nothing, and stays with its batch.
LEMMA BatchMoves ==
    ASSUME BatchesInv, UNCHANGED <<inputs, made, readable, arweave>>, MinedKeeps,
           batchTx' \in [BatchUids -> {"none", "pending", "mined", "dropped"}],
           batch' \in BatchRows, batch'.n = batch.n,
           batch'.at \in Sending => batch.at \in Sending,
           batch'.at \in Storing => batch.at \in Storing,
           uploads' \cup stored' \subseteq uploads \cup stored,
           \A n \in BatchNumbers, k \in 1..MaxAttempts : batchTx'[<<n, k>>] # "none" =>
              /\ n <= batch'.n
              /\ n = batch'.n => k <= batch'.attempt /\ (batch'.at = "send" => k < batch'.attempt),
           CallStands'
    PROVE  BatchesInv'
<1>1. BatchesTyped'
  BY DEF BatchesInv, BatchesTyped
<1>2. SentInOrder'
  BY MinedStays DEF BatchesInv, SentInOrder
<1>3. ASSUME NEW j \in 1..Len(made') PROVE EntryRight(made[j])'
  <2>1. PICK entry : entry = made[j] /\ entry = made'[j]
    OBVIOUS
  <2>2. EntryRight(entry)
    BY <2>1 DEF BatchesInv
  <2>3. EntryRight(entry)'
    BY <2>2, EntryStays
  <2>4. QED BY <2>1, <2>3
<1>4. ReportedOnce'
  BY DEF BatchesInv, ReportedOnce
<1>5. AllReported'
  BY DEF BatchesInv, AllReported, Sending, Storing
<1>6. (uploads \cup stored \subseteq {made[j].uid : j \in DOMAIN made})'
  BY DEF BatchesInv
<1>7. QED BY <1>1, <1>2, <1>3, <1>4, <1>5, <1>6 DEF BatchesInv

\* Where the call is, and the transaction it is at.
LEMMA CurrentIs ==
    BatchesTyped => /\ batch.n \in BatchNumbers /\ batch.n \in Nat \ {0}
                    /\ batch.attempt \in 1..MaxAttempts /\ batch.attempt \in Nat
                    /\ CurrentTx \in BatchUids
BY BatchesAssumption DEF BatchesTyped, BatchRows, BatchNumbers, BatchUids, CurrentTx

\* executeWithRetry goes on with the same batch, or ends the call.
LEMMA RetryIs ==
    ASSUME BatchesTyped, NEW retryable \in BOOLEAN, RetryBatch(retryable)
    PROVE  /\ batch' \in BatchRows /\ batch'.n = batch.n
           /\ \/ batch'.at = "send" /\ batch'.attempt = batch.attempt + 1
              \/ batch'.at = "failed" /\ batch'.attempt = batch.attempt
<1>1. batch \in BatchRows /\ MaxAttempts \in Nat
  BY BatchesAssumption DEF BatchesTyped
<1>2. CASE retryable /\ batch.attempt < MaxAttempts
  <2>1. batch' = [batch EXCEPT !.at = "send", !.attempt = @ + 1]
    BY <1>2 DEF RetryBatch
  <2>2. batch.attempt + 1 \in 1..MaxAttempts
    BY <1>1, <1>2 DEF BatchRows
  <2>3. QED BY <1>1, <2>1, <2>2 DEF BatchRows
<1>3. CASE ~(retryable /\ batch.attempt < MaxAttempts)
  <2>1. batch' = [batch EXCEPT !.at = "failed"]
    BY <1>3 DEF RetryBatch
  <2>2. QED BY <1>1, <2>1 DEF BatchRows
<1>4. QED BY <1>2, <1>3

\* A step to another label of the same batch.
LEMMA BatchAtIs ==
    ASSUME BatchesTyped, BatchAt("wait") \/ BatchAt("process") \/ BatchAt("failed") \/ BatchAt("done")
    PROVE  /\ batch' \in BatchRows /\ batch'.n = batch.n /\ batch'.attempt = batch.attempt
           /\ BatchAt("wait") => batch'.at = "wait"
           /\ BatchAt("process") => batch'.at = "process"
           /\ BatchAt("failed") => batch'.at = "failed"
           /\ BatchAt("done") => batch'.at = "done"
BY DEF BatchesTyped, BatchRows, BatchAt

\* The label of a step, and the row it leads to.
LEMMA CreateBatchKeeps ==
    ASSUME BatchesInv, NEW list \in BatchInputs, NEW valid \in BOOLEAN, CreateBatch(list, valid)
    PROVE  BatchesInv'
<1> DEFINE at == IF ~valid THEN "failed" ELSE IF list = <<>> THEN "done" ELSE "send"
<1>1. batch \in BatchRows /\ batch.at = "idle" /\ batch.n = 1 /\ made = <<>>
      /\ \A u \in BatchUids : batchTx[u] = "none"
  BY DEF CreateBatch, BatchesInv, BatchesTyped, CallStands
<1>2. inputs' = list /\ UNCHANGED <<batchTx, made, uploads, stored, readable, arweave>>
  BY DEF CreateBatch
<1>3. batch' = [batch EXCEPT !.at = at]
  BY DEF CreateBatch, BatchAt
<1>4. batch' \in BatchRows /\ batch'.at = at /\ batch'.n = 1
  BY <1>1, <1>3 DEF BatchRows
<1>5. BatchesTyped'
  BY <1>2, <1>4, BatchesAssumption DEF BatchesInv, BatchesTyped
<1>6. SentInOrder'
  BY <1>1, <1>2, <1>4 DEF SentInOrder, BatchUids, BatchNumbers
<1>7. BatchCount' \in Nat /\ \A n \in Nat : n < BatchCount' <=> n * BatchSize < Len(inputs')
  <2>1. (BatchesTyped => /\ BatchCount \in Nat /\ BatchCount <= MaxBatches
                         /\ \A n \in Nat : n < BatchCount <=> n * BatchSize < Len(inputs))'
    BY BatchCountIs, PTL
  <2>2. QED BY <1>5, <2>1
<1>8. 0 * BatchSize = 0 /\ Len(inputs') \in Nat
  BY <1>5, BatchesAssumption DEF BatchesTyped
<1>9. CallStands'
  <2>1. CASE at = "send"
    <3>1. list # <<>> /\ Len(inputs') # 0
      BY <1>2, <1>5, <2>1 DEF BatchesTyped
    <3>2. 1 <= BatchCount'
      BY <1>7, <1>8, <3>1
    <3>3. QED BY <1>4, <2>1, <3>2 DEF CallStands
  <2>2. CASE at = "done"
    <3>1. Len(inputs') = 0
      BY <1>2, <2>2
    <3>2. BatchCount' = 0
      BY <1>7, <1>8, <3>1
    <3>3. \A n \in 1..BatchCount' : FALSE
      BY <3>2
    <3>4. QED BY <1>4, <2>2, <3>3 DEF CallStands
  <2>3. CASE at = "failed"
    BY <1>4, <2>3 DEF CallStands
  <2>4. QED BY <2>1, <2>2, <2>3
<1>10. Len(made') = 0
  BY <1>1, <1>2
<1>11. ReportedOnce' /\ \A j \in 1..Len(made') : EntryRight(made[j])'
  BY <1>10 DEF ReportedOnce
<1>12. AllReported'
  <2>1. (batch'.n - 1) * BatchSize = 0
    BY <1>4, <1>8
  <2>2. at = "done" => Len(inputs') = 0
    BY <1>2
  <2>3. QED BY <1>4, <1>10, <2>1, <2>2 DEF AllReported
<1>13. QED BY <1>2, <1>5, <1>6, <1>9, <1>11, <1>12 DEF BatchesInv

\* At a batch that is being sent, no transaction of this attempt exists.
LEMMA SendBatchKeeps ==
    ASSUME BatchesInv, NEW taken \in BOOLEAN, NEW throws \in BOOLEAN, NEW retryable \in BOOLEAN,
           SendBatch(taken, throws, retryable)
    PROVE  BatchesInv'
<1>0. BatchesTyped /\ batch.at = "send"
  BY DEF BatchesInv, SendBatch
<1>1. /\ batch.n \in BatchNumbers /\ batch.n \in Nat \ {0} /\ batch.attempt \in 1..MaxAttempts
      /\ batch.attempt \in Nat /\ CurrentTx \in BatchUids
  BY <1>0, CurrentIs
<1>2. CurrentTx = <<batch.n, batch.attempt>> /\ batchTx[CurrentTx] = "none"
  BY <1>0, <1>1 DEF BatchesInv, SentInOrder, CurrentTx
<1>3. batchTx' = [batchTx EXCEPT ![CurrentTx] = "pending"] \/ batchTx' = batchTx
  BY DEF SendBatch
<1>4. batchTx' \in [BatchUids -> {"none", "pending", "mined", "dropped"}] /\ MinedKeeps
  BY <1>0, <1>1, <1>2, <1>3 DEF BatchesTyped, MinedKeeps
<1>5. /\ batch' \in BatchRows /\ batch'.n = batch.n
      /\ \/ batch'.at = "send" /\ batch'.attempt = batch.attempt + 1
         \/ batch'.at \in {"failed", "wait"} /\ batch'.attempt = batch.attempt
  BY <1>0, RetryIs, BatchAtIs DEF SendBatch
<1>6. ASSUME NEW n \in BatchNumbers, NEW k \in 1..MaxAttempts, batchTx'[<<n, k>>] # "none"
      PROVE  /\ n <= batch'.n
             /\ n = batch'.n => k <= batch'.attempt /\ (batch'.at = "send" => k < batch'.attempt)
  <2>1. n <= batch.n /\ (n = batch.n => k <= batch.attempt)
    <3>1. CASE n = batch.n /\ k = batch.attempt
      BY <1>1, <3>1
    <3>2. CASE ~(n = batch.n /\ k = batch.attempt)
      <4>1. <<n, k>> \in BatchUids /\ <<n, k>> # CurrentTx
        BY <1>2, <3>2 DEF BatchUids
      <4>2. batchTx[<<n, k>>] # "none"
        BY <1>0, <1>3, <1>6, <4>1 DEF BatchesTyped
      <4>3. QED BY <1>0, <4>2 DEF BatchesInv, SentInOrder
    <3>3. QED BY <3>1, <3>2
  <2>2. k \in Nat /\ MaxAttempts \in Nat
    BY BatchesAssumption
  <2>3. QED BY <1>1, <1>5, <2>1, <2>2
<1>7. CallStands'
  <2>1. BatchCount' = BatchCount /\ batch.n <= BatchCount
    BY <1>0 DEF SendBatch, BatchCount, BatchesInv, CallStands
  <2>2. QED BY <1>5, <2>1 DEF CallStands
<1>8. batch'.at \in Sending => batch.at \in Sending
  BY <1>0 DEF Sending
<1>9. batch'.at \notin Storing
  BY <1>5 DEF Storing
<1>10. QED BY <1>4, <1>5, <1>6, <1>7, <1>8, <1>9, BatchMoves DEF SendBatch

\* A step of the call that leaves the transactions alone.
LEMMA CallMoves ==
    ASSUME BatchesInv, UNCHANGED <<inputs, batchTx, made, readable, arweave>>,
           batch' \in BatchRows, batch'.n = batch.n,
           \/ batch'.attempt = batch.attempt /\ (batch'.at = "send" => batch.at = "send")
           \/ batch'.attempt = batch.attempt + 1,
           batch'.at \in Sending => batch.at \in Sending,
           batch'.at \in Storing => batch.at \in Storing,
           uploads' \cup stored' \subseteq uploads \cup stored, CallStands'
    PROVE  BatchesInv'
<1>1. MinedKeeps /\ batchTx' \in [BatchUids -> {"none", "pending", "mined", "dropped"}]
  BY DEF MinedKeeps, BatchesInv, BatchesTyped
<1>2. batch.n \in Nat /\ batch.attempt \in Nat /\ MaxAttempts \in Nat /\ MaxBatches \in Nat
  BY CurrentIs, BatchesAssumption DEF BatchesInv
<1>3. ASSUME NEW n \in BatchNumbers, NEW k \in 1..MaxAttempts, batchTx'[<<n, k>>] # "none"
      PROVE  /\ n <= batch'.n
             /\ n = batch'.n => k <= batch'.attempt /\ (batch'.at = "send" => k < batch'.attempt)
  <2>1. /\ n <= batch.n
        /\ n = batch.n => k <= batch.attempt /\ (batch.at = "send" => k < batch.attempt)
    BY <1>3 DEF BatchesInv, SentInOrder
  <2>2. k \in Nat
    BY <1>2
  <2>3. QED BY <1>2, <2>1, <2>2
<1>4. QED BY <1>1, <1>3, BatchMoves

\* The chain settles a transaction that is pending, and no other.
LEMMA SettleBatchKeeps ==
    ASSUME BatchesInv, NEW u \in BatchUids, SettleBatch(u)
    PROVE  BatchesInv'
<1>1. PICK status \in {"mined", "dropped"} : batchTx' = [batchTx EXCEPT ![u] = status]
  BY DEF SettleBatch
<1>2. batchTx[u] = "pending" /\ UNCHANGED <<inputs, batch, made, uploads, stored, readable, arweave>>
  BY DEF SettleBatch
<1>3. batchTx' \in [BatchUids -> {"none", "pending", "mined", "dropped"}] /\ MinedKeeps
  BY <1>1, <1>2 DEF BatchesInv, BatchesTyped, MinedKeeps
<1>4. \A v \in BatchUids : batchTx'[v] # "none" => batchTx[v] # "none"
  BY <1>1, <1>2 DEF BatchesInv, BatchesTyped
<1>5. ASSUME NEW n \in BatchNumbers, NEW k \in 1..MaxAttempts, batchTx'[<<n, k>>] # "none"
      PROVE  /\ n <= batch'.n
             /\ n = batch'.n => k <= batch'.attempt /\ (batch'.at = "send" => k < batch'.attempt)
  <2>1. batchTx[<<n, k>>] # "none"
    BY <1>4, <1>5 DEF BatchUids
  <2>2. QED BY <1>2, <2>1 DEF BatchesInv, SentInOrder
<1>6. CallStands'
  <2>1. BatchCount' = BatchCount /\ CurrentTx' = CurrentTx /\ CurrentTx \in BatchUids
    BY <1>2, CurrentIs DEF BatchCount, CurrentTx, BatchesInv
  <2>2. \A n \in BatchNumbers : Mined(n) => Mined(n)'
    BY <1>3, MinedStays
  <2>3. batch.n \in BatchNumbers /\ 1..BatchCount \subseteq BatchNumbers
    BY CurrentIs, BatchCountIs, BatchesAssumption DEF BatchesInv, BatchNumbers
  <2>4. batch.at # "idle"
    BY <1>2 DEF BatchesInv, CallStands
  <2>5. batch.at = "process" => batchTx'[CurrentTx] = "mined"
    BY <1>3, <2>1 DEF BatchesInv, CallStands, MinedKeeps
  <2>6. QED BY <1>2, <2>1, <2>2, <2>3, <2>4, <2>5 DEF BatchesInv, CallStands
<1>7. QED BY <1>2, <1>3, <1>5, <1>6, BatchMoves DEF BatchesInv, BatchesTyped

\* The steps that do not send, report or mine.
LEMMA BatchCallKeeps ==
    ASSUME BatchesInv,
           \/ BatchReceipt \/ BlockMissing \/ BatchDone
           \/ \E retryable \in BOOLEAN : BatchWaitFails(retryable)
           \/ \E u \in uploads, fails \in BOOLEAN : StoreAttestation(u, fails)
    PROVE  BatchesInv'
<1>0. BatchesTyped
  BY DEF BatchesInv
<1>1. CASE BatchReceipt
  <2>1. /\ batch' \in BatchRows /\ batch'.n = batch.n /\ batch'.attempt = batch.attempt
        /\ batch'.at = "process" /\ batch.at = "wait"
    BY <1>0, <1>1, BatchAtIs DEF BatchReceipt
  <2>2. CallStands'
    <3>1. BatchCount' = BatchCount /\ batch.n <= BatchCount
      BY <1>1, <2>1 DEF BatchReceipt, BatchCount, BatchesInv, CallStands
    <3>2. batchTx'[CurrentTx'] = "mined"
      BY <1>1, <2>1 DEF BatchReceipt, BatchConfirmed, CurrentTx
    <3>3. QED BY <2>1, <3>1, <3>2 DEF CallStands
  <2>3. QED BY <1>1, <2>1, <2>2, CallMoves DEF BatchReceipt, Sending, Storing
<1>2. CASE BlockMissing
  <2>1. /\ batch' \in BatchRows /\ batch'.n = batch.n /\ batch'.attempt = batch.attempt
        /\ batch'.at = "failed"
    BY <1>0, <1>2, BatchAtIs DEF BlockMissing
  <2>2. CallStands'
    BY <2>1 DEF CallStands
  <2>3. QED BY <1>2, <2>1, <2>2, CallMoves DEF BlockMissing, Sending, Storing
<1>3. CASE BatchDone
  <2>1. /\ batch' \in BatchRows /\ batch'.n = batch.n /\ batch'.attempt = batch.attempt
        /\ batch'.at = "done" /\ batch.at = "store"
    BY <1>0, <1>3, BatchAtIs DEF BatchDone
  <2>2. CallStands'
    <3>1. BatchCount' = BatchCount /\ batch.n = BatchCount /\ Mined(batch.n)
          /\ \A n \in BatchNumbers : Mined(n)' = Mined(n)
      BY <1>3, <2>1 DEF BatchDone, BatchCount, BatchesInv, CallStands, Mined
    <3>2. \A n \in BatchNumbers : n < batch.n => Mined(n)
      BY DEF BatchesInv, SentInOrder
    <3>3. BatchCount \in Nat /\ 1..BatchCount \subseteq BatchNumbers
      BY <1>0, BatchCountIs, BatchesAssumption DEF BatchNumbers
    <3>4. \A n \in 1..BatchCount : n \in BatchNumbers /\ Mined(n)
      BY <3>1, <3>2, <3>3
    <3>5. \A n \in 1..BatchCount' : Mined(n)'
      BY <3>1, <3>4
    <3>6. QED BY <2>1, <3>5 DEF CallStands
  <2>3. QED BY <1>3, <2>1, <2>2, CallMoves DEF BatchDone, Sending, Storing
<1>4. ASSUME NEW retryable \in BOOLEAN, BatchWaitFails(retryable) PROVE BatchesInv'
  <2>1. /\ batch' \in BatchRows /\ batch'.n = batch.n /\ batch.at = "wait"
        /\ \/ batch'.at = "send" /\ batch'.attempt = batch.attempt + 1
           \/ batch'.at = "failed" /\ batch'.attempt = batch.attempt
    BY <1>0, <1>4, RetryIs DEF BatchWaitFails
  <2>2. CallStands'
    <3>1. BatchCount' = BatchCount /\ batch.n <= BatchCount
      BY <1>4, <2>1 DEF BatchWaitFails, BatchCount, BatchesInv, CallStands
    <3>2. QED BY <2>1, <3>1 DEF CallStands
  <2>3. QED BY <1>4, <2>1, <2>2, CallMoves DEF BatchWaitFails, Sending, Storing
<1>5. ASSUME NEW u \in uploads, NEW fails \in BOOLEAN, StoreAttestation(u, fails) PROVE BatchesInv'
  <2>1. UNCHANGED <<inputs, batchTx, made, readable, arweave>>
        /\ uploads' \cup stored' \subseteq uploads \cup stored
    BY <1>5 DEF StoreAttestation
  <2>2. CASE fails
    <3>1. /\ batch' \in BatchRows /\ batch'.n = batch.n /\ batch'.attempt = batch.attempt
          /\ batch'.at = "failed"
      BY <1>0, <1>5, <2>2, BatchAtIs DEF StoreAttestation
    <3>2. CallStands'
      BY <3>1 DEF CallStands
    <3>3. QED BY <2>1, <3>1, <3>2, CallMoves DEF Sending, Storing
  <2>3. CASE ~fails
    <3>1. batch' = batch
      BY <1>5, <2>3 DEF StoreAttestation
    <3>2. CallStands'
      BY <2>1, <3>1 DEF BatchesInv, CallStands, BatchCount, CurrentTx, Mined
    <3>3. QED BY <1>0, <2>1, <3>1, <3>2, CallMoves DEF BatchesTyped
  <2>4. QED BY <2>2, <2>3
<1>6. QED BY <1>1, <1>2, <1>3, <1>4, <1>5

\* The name of an attestation is its batch, its attempt and its request.
LEMMA UidIs ==
    ASSUME NEW n \in Nat, NEW k \in Nat, NEW i \in Nat
    PROVE  LET u == <<n, k>> \o <<i>>
           IN u \in Seq(Nat) /\ Len(u) = 3 /\ u[1] = n /\ u[2] = k /\ u[3] = i
<1>1. \A s, t \in Seq(Nat) : /\ s \o t \in Seq(Nat) /\ Len(s \o t) = Len(s) + Len(t)
                             /\ \A j \in 1..Len(s) : (s \o t)[j] = s[j]
                             /\ \A j \in 1..Len(t) : (s \o t)[Len(s) + j] = t[j]
  OBVIOUS
<1> DEFINE s == <<n, k>> t == <<i>>
<1>2. s \in Seq(Nat) /\ t \in Seq(Nat) /\ Len(s) = 2 /\ Len(t) = 1 /\ s[1] = n /\ s[2] = k /\ t[1] = i
  OBVIOUS
<1> HIDE DEF s, t
<1>3. s \o t \in Seq(Nat) /\ Len(s \o t) = 3 /\ (s \o t)[1] = n /\ (s \o t)[2] = k /\ (s \o t)[3] = i
  BY <1>1, <1>2
<1>4. QED BY <1>3 DEF s, t

\* What a receipt adds to the report: a row for each request of the batch, in
\* their order, or none.
Reported(size) ==
    [i \in 1..size |-> [uid |-> CurrentTx \o <<i>>, data |-> AttestationData(Paired(i))]]

LEMMA ReportedIs ==
    ASSUME BatchesTyped, batch.n <= BatchCount, NEW size \in {0, Len(Slice(batch.n))}
    PROVE  /\ size \in Nat /\ Reported(size) \in Seq(MadeRows) /\ Len(Reported(size)) = size
           /\ \A i \in 1..size :
                 LET entry == Reported(size)[i] IN
                 /\ Len(entry.uid) = 3 /\ entry.uid[1] = batch.n
                 /\ entry.uid[2] = batch.attempt /\ entry.uid[3] = i
                 /\ entry.data = AttestationData(Slice(batch.n)[i])
<1>1. batch.n \in Nat \ {0} /\ batch.attempt \in Nat
  BY CurrentIs
<1>2. Slice(batch.n) \in Seq(Results) /\ Len(Slice(batch.n)) \in Nat
  BY <1>1, SliceIs
<1>3. size \in Nat /\ size <= Len(Slice(batch.n))
  BY <1>2
<1>4. ASSUME NEW i \in 1..size
      PROVE  \E u \in Seq(Nat), d \in Data :
                /\ Reported(size)[i] = [uid |-> u, data |-> d]
                /\ Len(u) = 3 /\ u[1] = batch.n /\ u[2] = batch.attempt /\ u[3] = i
                /\ d = AttestationData(Slice(batch.n)[i])
  <2>1. Reported(size)[i] = [uid |-> CurrentTx \o <<i>>, data |-> AttestationData(Slice(batch.n)[i])]
    BY DEF Reported, Paired
  <2>2. i \in Nat /\ i \in 1..Len(Slice(batch.n))
    BY <1>2, <1>3
  <2>3. LET u == CurrentTx \o <<i>>
        IN u \in Seq(Nat) /\ Len(u) = 3 /\ u[1] = batch.n /\ u[2] = batch.attempt /\ u[3] = i
    BY <1>1, <2>2, UidIs DEF CurrentTx
  <2>4. Slice(batch.n)[i] \in Results
    BY <1>2, <2>2
  <2>5. QED BY <2>1, <2>3, <2>4, DataOfResult
<1>5. ASSUME NEW i \in 1..size PROVE Reported(size)[i] \in MadeRows
  <2>1. PICK u \in Seq(Nat), d \in Data : Reported(size)[i] = [uid |-> u, data |-> d]
    BY <1>4
  <2>2. QED BY <2>1 DEF MadeRows
<1>6. Reported(size) \in Seq(MadeRows) /\ Len(Reported(size)) = size
  <2>1. Reported(size) = [i \in 1..size |-> Reported(size)[i]]
    BY DEF Reported
  <2>2. \A f : f = [i \in 1..size |-> f[i]] /\ (\A i \in 1..size : f[i] \in MadeRows) =>
           f \in Seq(MadeRows) /\ Len(f) = size
    BY <1>3
  <2>3. QED BY <1>5, <2>1, <2>2
<1>7. ASSUME NEW i \in 1..size
      PROVE  LET entry == Reported(size)[i] IN
             /\ Len(entry.uid) = 3 /\ entry.uid[1] = batch.n
             /\ entry.uid[2] = batch.attempt /\ entry.uid[3] = i
             /\ entry.data = AttestationData(Slice(batch.n)[i])
  <2>1. PICK u \in Seq(Nat), d \in Data :
           /\ Reported(size)[i] = [uid |-> u, data |-> d]
           /\ Len(u) = 3 /\ u[1] = batch.n /\ u[2] = batch.attempt /\ u[3] = i
           /\ d = AttestationData(Slice(batch.n)[i])
    BY <1>4
  <2>2. Reported(size)[i].uid = u /\ Reported(size)[i].data = d
    BY <2>1
  <2>3. QED BY <2>1, <2>2
<1>8. QED BY <1>3, <1>6, <1>7

\* A receipt extends the report, and the call goes on to the next batch or to the
\* uploads.
LEMMA ProcessIs ==
    ASSUME BatchesInv, ProcessBatchReceipt
    PROVE  LET size == IF readable THEN Len(Slice(batch.n)) ELSE 0 IN
           /\ batch.at = "process" /\ batch.n <= BatchCount /\ batchTx[CurrentTx] = "mined"
           /\ size \in {0, Len(Slice(batch.n))}
           /\ made' = made \o Reported(size)
           /\ batch' \in BatchRows
           /\ \/ batch.n < BatchCount /\ batch'.n = batch.n + 1 /\ batch'.at = "send"
                 /\ UNCHANGED uploads
              \/ batch.n = BatchCount /\ batch'.n = batch.n /\ batch'.at = "store"
                 /\ batch'.attempt = batch.attempt
                 /\ uploads' = {made'[j].uid : j \in DOMAIN made'}
           /\ UNCHANGED <<inputs, batchTx, stored, readable, arweave>>
<1> DEFINE size == IF readable THEN Len(Slice(batch.n)) ELSE 0
<1>0. BatchesTyped /\ batch \in BatchRows
  BY DEF BatchesInv, BatchesTyped
<1>1. /\ batch.at = "process" /\ batch.n <= BatchCount /\ batchTx[CurrentTx] = "mined"
      /\ UNCHANGED <<inputs, batchTx, stored, readable, arweave>>
  BY DEF ProcessBatchReceipt, BatchesInv, CallStands
<1>2. size \in {0, Len(Slice(batch.n))} /\ made' = made \o Reported(size)
  BY DEF ProcessBatchReceipt, Reported
<1>3. /\ BatchCount \in Nat /\ BatchCount <= MaxBatches /\ batch.n \in Nat \ {0}
      /\ MaxBatches \in Nat /\ MaxAttempts \in Nat \ {0}
  BY <1>0, BatchCountIs, CurrentIs, BatchesAssumption
<1>4. CASE batch.n < BatchCount
  <2>1. batch' = [at |-> "send", n |-> batch.n + 1, attempt |-> 1] /\ UNCHANGED uploads
    BY <1>4 DEF ProcessBatchReceipt
  <2>2. batch.n + 1 \in BatchNumbers /\ 1 \in 1..MaxAttempts
    BY <1>3, <1>4 DEF BatchNumbers
  <2>3. batch' \in BatchRows /\ batch'.n = batch.n + 1 /\ batch'.at = "send"
    BY <2>1, <2>2 DEF BatchRows
  <2>4. QED BY <1>1, <1>2, <1>4, <2>1, <2>3
<1>5. CASE ~(batch.n < BatchCount)
  <2>1. BatchAt("store") /\ uploads' = {made'[j].uid : j \in DOMAIN made'}
    BY <1>5 DEF ProcessBatchReceipt
  <2>2. batch' \in BatchRows /\ batch'.n = batch.n /\ batch'.at = "store" /\ batch'.attempt = batch.attempt
    BY <1>0, <2>1 DEF BatchAt, BatchRows
  <2>3. batch.n = BatchCount
    BY <1>1, <1>3, <1>5
  <2>4. QED BY <1>1, <1>2, <2>1, <2>2, <2>3
<1>6. QED BY <1>4, <1>5

LEMMA ProcessKeeps == ASSUME BatchesInv, ProcessBatchReceipt PROVE BatchesInv'
<1> DEFINE size == IF readable THEN Len(Slice(batch.n)) ELSE 0
           new == Reported(size)
<1>0. BatchesTyped /\ made \in Seq(MadeRows) /\ Len(made) \in Nat
  BY DEF BatchesInv, BatchesTyped
<1>1. /\ batch.at = "process" /\ batch.n <= BatchCount /\ batchTx[CurrentTx] = "mined"
      /\ size \in {0, Len(Slice(batch.n))} /\ made' = made \o new /\ batch' \in BatchRows
      /\ UNCHANGED <<inputs, batchTx, stored, readable, arweave>>
  BY ProcessIs
<1>2. \/ batch.n < BatchCount /\ batch'.n = batch.n + 1 /\ batch'.at = "send" /\ UNCHANGED uploads
      \/ batch.n = BatchCount /\ batch'.n = batch.n /\ batch'.at = "store"
         /\ batch'.attempt = batch.attempt /\ uploads' = {made'[j].uid : j \in DOMAIN made'}
  BY ProcessIs
<1>3. /\ size \in Nat /\ new \in Seq(MadeRows) /\ Len(new) = size
      /\ \A i \in 1..size :
            /\ Len(new[i].uid) = 3 /\ new[i].uid[1] = batch.n
            /\ new[i].uid[2] = batch.attempt /\ new[i].uid[3] = i
            /\ new[i].data = AttestationData(Slice(batch.n)[i])
  BY <1>0, <1>1, ReportedIs
<1>4. /\ batch.n \in BatchNumbers /\ batch.n \in Nat \ {0} /\ batch.attempt \in 1..MaxAttempts
      /\ batch.attempt \in Nat /\ BatchCount \in Nat /\ MaxAttempts \in Nat /\ MaxBatches \in Nat
      /\ CurrentTx = <<batch.n, batch.attempt>>
  BY <1>0, CurrentIs, BatchCountIs, BatchesAssumption DEF CurrentTx
<1> HIDE DEF new, size
<1>5. /\ made' \in Seq(MadeRows) /\ Len(made') = Len(made) + size
      /\ \A j \in 1..Len(made) : made'[j] = made[j]
      /\ \A i \in 1..size : made'[Len(made) + i] = new[i]
  <2>1. \A s, t \in Seq(MadeRows) : /\ s \o t \in Seq(MadeRows) /\ Len(s \o t) = Len(s) + Len(t)
                                    /\ \A j \in 1..Len(s) : (s \o t)[j] = s[j]
                                    /\ \A j \in 1..Len(t) : (s \o t)[Len(s) + j] = t[j]
    OBVIOUS
  <2>2. QED BY <1>0, <1>1, <1>3, <2>1
<1>6. BatchesTyped'
  BY <1>0, <1>1, <1>5 DEF BatchesTyped
<1>7. Mined(batch.n)
  BY <1>1, <1>4 DEF Mined
<1>8. SentInOrder'
  <2>1. ASSUME NEW n \in BatchNumbers, NEW k \in 1..MaxAttempts, batchTx[<<n, k>>] # "none"
        PROVE  /\ n <= batch'.n
               /\ n = batch'.n => k <= batch'.attempt /\ (batch'.at = "send" => k < batch'.attempt)
    <3>1. n <= batch.n /\ (n = batch.n => k <= batch.attempt)
      BY <2>1 DEF BatchesInv, SentInOrder
    <3>2. n \in Nat
      BY DEF BatchNumbers
    <3>3. QED BY <1>2, <1>4, <3>1, <3>2
  <2>2. ASSUME NEW n \in BatchNumbers, n < batch'.n PROVE Mined(n)
    <3>1. n < batch.n \/ n = batch.n
      BY <1>2, <1>4, <2>2 DEF BatchNumbers
    <3>2. QED BY <1>7, <3>1 DEF BatchesInv, SentInOrder
  <2>3. \A n \in BatchNumbers : Mined(n)' = Mined(n)
    BY <1>1 DEF Mined
  <2>4. QED BY <1>1, <2>1, <2>2, <2>3 DEF SentInOrder
<1>9. CallStands'
  <2>1. BatchCount' = BatchCount
    BY <1>1 DEF BatchCount
  <2>2. CASE batch'.at = "send"
    <3>1. batch'.n <= BatchCount'
      BY <1>2, <1>4, <2>1, <2>2
    <3>2. QED BY <2>2, <3>1 DEF CallStands
  <2>3. CASE batch'.at = "store"
    <3>1. batch'.n = batch.n /\ batch'.n = BatchCount' /\ batch'.n <= BatchCount'
      BY <1>2, <1>4, <2>1, <2>3
    <3>2. \E k \in 1..MaxAttempts : batchTx'[<<batch'.n, k>>] = "mined"
      BY <1>1, <1>7, <3>1 DEF Mined
    <3>3. QED BY <2>3, <3>1, <3>2 DEF CallStands, Mined
  <2>4. QED BY <1>2, <2>2, <2>3
<1>10. \A j \in 1..Len(made') : j \in 1..Len(made) \/ (j - Len(made) \in 1..size /\ j = Len(made) + (j - Len(made)))
  BY <1>0, <1>3, <1>5
<1>11. \A j \in 1..Len(made) : made'[j].uid[1] < batch.n
  BY <1>1, <1>5 DEF BatchesInv, EntryRight
<1>12. ASSUME NEW j \in 1..Len(made') PROVE EntryRight(made[j])'
  <2>1. PICK entry : entry = made'[j]
    OBVIOUS
  <2>2. /\ Len(entry.uid) = 3 /\ entry.uid[1] \in BatchNumbers /\ entry.uid[2] \in 1..MaxAttempts
        /\ batchTx[<<entry.uid[1], entry.uid[2]>>] = "mined"
        /\ entry.data = AttestationData(Slice(entry.uid[1])[entry.uid[3]])
        /\ entry.uid[1] < batch.n \/ (entry.uid[1] = batch.n)
    <3>1. CASE j \in 1..Len(made)
      BY <1>5, <1>11, <2>1, <3>1 DEF BatchesInv, EntryRight
    <3>2. CASE j - Len(made) \in 1..size /\ j = Len(made) + (j - Len(made))
      <4>1. PICK i \in 1..size : entry = new[i]
        BY <1>5, <2>1, <3>2
      <4>2. QED BY <1>1, <1>3, <1>4, <4>1
    <3>3. QED BY <1>10, <3>1, <3>2
  <2>3. batch'.at \in {"send", "wait", "process"} => entry.uid[1] < batch'.n
    BY <1>2, <1>4, <2>2 DEF BatchNumbers
  <2>4. batchTx'[<<entry.uid[1], entry.uid[2]>>] = "mined"
    BY <1>1, <2>2
  <2>5. entry.data = AttestationData(Slice(entry.uid[1])[entry.uid[3]])'
    BY <1>1, <2>2 DEF Slice
  <2>6. EntryRight(entry)'
    BY <2>2, <2>3, <2>4, <2>5 DEF EntryRight
  <2>7. QED BY <2>1, <2>6
<1>13. ASSUME NEW j \in 1..Len(made'), NEW l \in 1..Len(made'), l < j
       PROVE  <<made'[l].uid[1], made'[l].uid[3]>> # <<made'[j].uid[1], made'[j].uid[3]>>
  <2>1. CASE j \in 1..Len(made)
    <3>1. l \in 1..Len(made)
      BY <1>0, <1>13, <2>1
    <3>2. QED BY <1>5, <1>13, <2>1, <3>1 DEF BatchesInv, ReportedOnce
  <2>2. CASE j - Len(made) \in 1..size /\ j = Len(made) + (j - Len(made))
    <3>1. made'[j].uid[1] = batch.n /\ made'[j].uid[3] = j - Len(made)
      BY <1>3, <1>5, <2>2
    <3>2. CASE l \in 1..Len(made)
      <4>1. made'[l].uid[1] # batch.n
        BY <1>4, <1>11, <3>2
      <4>2. QED BY <3>1, <4>1
    <3>3. CASE l - Len(made) \in 1..size /\ l = Len(made) + (l - Len(made))
      <4>1. made'[l].uid[3] = l - Len(made)
        BY <1>3, <1>5, <3>3
      <4>2. l - Len(made) # j - Len(made)
        BY <1>0, <1>13
      <4>3. QED BY <3>1, <4>1, <4>2
    <3>4. QED BY <1>10, <3>2, <3>3
  <2>3. QED BY <1>10, <2>1, <2>2
<1>14. ReportedOnce'
  BY <1>13 DEF ReportedOnce
<1>15. AllReported'
  <2> SUFFICES ASSUME readable
               PROVE  /\ batch'.at = "send" => Len(made') = (batch'.n - 1) * BatchSize
                      /\ batch'.at = "store" => Len(made') = Len(inputs)
    BY <1>1, <1>2 DEF AllReported
  <2>1. size = Least(batch.n * BatchSize, Len(inputs)) - (batch.n - 1) * BatchSize
        /\ (batch.n - 1) * BatchSize \in Nat
    BY <1>0, <1>1, <1>4, SliceIs DEF size
  <2>2. Len(made) = (batch.n - 1) * BatchSize
    BY <1>1 DEF BatchesInv, AllReported
  <2>3. Len(inputs) \in Nat /\ batch.n * BatchSize \in Nat
    BY <1>0, <1>4, BatchesAssumption DEF BatchesTyped
  <2>4. Len(made') = Least(batch.n * BatchSize, Len(inputs))
    BY <1>5, <2>1, <2>2, <2>3 DEF Least
  <2>5. batch.n < BatchCount <=> batch.n * BatchSize < Len(inputs)
    BY <1>0, <1>4, BatchCountIs
  <2>6. CASE batch'.at = "send"
    <3>1. batch.n < BatchCount /\ batch'.n - 1 = batch.n
      BY <1>2, <1>4, <2>6
    <3>2. QED BY <2>4, <2>5, <2>6, <3>1 DEF Least
  <2>7. CASE batch'.at = "store"
    <3>1. ~(batch.n < BatchCount)
      BY <1>2, <1>4, <2>7
    <3>2. QED BY <2>3, <2>4, <2>5, <2>7, <3>1 DEF Least
  <2>8. QED BY <2>6, <2>7
<1>16. (uploads \cup stored \subseteq {made[j].uid : j \in DOMAIN made})'
  <2>1. {made[j].uid : j \in DOMAIN made} \subseteq {made'[j].uid : j \in DOMAIN made'}
    <3>1. DOMAIN made = 1..Len(made) /\ DOMAIN made' = 1..Len(made')
          /\ 1..Len(made) \subseteq 1..Len(made')
      BY <1>0, <1>3, <1>5
    <3>2. QED BY <1>5, <3>1
  <2>2. QED BY <1>1, <1>2, <2>1 DEF BatchesInv
<1>17. QED BY <1>6, <1>8, <1>9, <1>12, <1>14, <1>15, <1>16 DEF BatchesInv

\* Every step keeps the invariant.
LEMMA BatchesNextInv == BatchesInv /\ [BatchesNext]_batchVars => BatchesInv'
<1> SUFFICES ASSUME BatchesInv, [BatchesNext]_batchVars PROVE BatchesInv'
  OBVIOUS
<1>1. CASE UNCHANGED batchVars
  <2>1. UNCHANGED <<inputs, batchTx, batch, made, uploads, stored, readable, arweave>>
    BY <1>1 DEF batchVars
  <2>2. CallStands'
    BY <2>1 DEF BatchesInv, CallStands, BatchCount, CurrentTx, Mined
  <2>3. QED BY <2>1, <2>2, CallMoves DEF BatchesInv, BatchesTyped
<1>2. CASE \E list \in BatchInputs, valid \in BOOLEAN : CreateBatch(list, valid)
  BY <1>2, CreateBatchKeeps
<1>3. CASE \E taken, throws, retryable \in BOOLEAN : SendBatch(taken, throws, retryable)
  BY <1>3, SendBatchKeeps
<1>4. CASE ProcessBatchReceipt
  BY <1>4, ProcessKeeps
<1>5. CASE \E u \in BatchUids : SettleBatch(u)
  BY <1>5, SettleBatchKeeps
<1>6. QED BY <1>1, <1>2, <1>3, <1>4, <1>5, BatchCallKeeps DEF BatchesNext

\* Every variable of the part has its type.
LEMMA BatchesTypes == BatchesInv => BatchesTypeOK
<1> SUFFICES ASSUME BatchesInv PROVE BatchesTypeOK
  OBVIOUS
<1>1. BatchCount \in BatchNumbers \cup {0}
  BY BatchCountIs, BatchesAssumption DEF BatchesInv, BatchNumbers
<1>2. QED BY <1>1 DEF BatchesInv, BatchesTyped, BatchRows, BatchesTypeOK

\* The invariant says that batches are whole.
LEMMA BatchesAreWhole == BatchesInv => WholeBatches
<1> SUFFICES ASSUME BatchesInv PROVE WholeBatches
  OBVIOUS
<1>1. ASSUME NEW n \in BatchNumbers, Mined(n), NEW m \in 1..n PROVE Mined(m)
  <2>1. n <= batch.n
    BY <1>1 DEF Mined, BatchesInv, SentInOrder
  <2>2. batch.n \in Nat /\ MaxBatches \in Nat
    BY CurrentIs, BatchesAssumption DEF BatchesInv
  <2>3. m \in BatchNumbers /\ (m = n \/ m < batch.n)
    BY <2>1, <2>2 DEF BatchNumbers
  <2>4. QED BY <1>1, <2>3 DEF BatchesInv, SentInOrder
<1>2. DOMAIN made = 1..Len(made) /\ Len(made) \in Nat
  BY DEF BatchesInv, BatchesTyped
<1>3. ASSUME NEW j \in DOMAIN made
      PROVE  LET u == made[j].uid IN
             /\ batchTx[<<u[1], u[2]>>] = "mined"
             /\ made[j].data = AttestationData(Slice(u[1])[u[3]])
             /\ \A l \in 1..(j - 1) : <<made[l].uid[1], made[l].uid[3]>> # <<u[1], u[3]>>
  <2>1. EntryRight(made[j])
    BY <1>2 DEF BatchesInv
  <2>2. ASSUME NEW l \in 1..(j - 1)
        PROVE  <<made[l].uid[1], made[l].uid[3]>> # <<made[j].uid[1], made[j].uid[3]>>
    <3>1. l \in 1..Len(made) /\ j \in 1..Len(made) /\ l < j
      BY <1>2
    <3>2. QED BY <3>1 DEF BatchesInv, ReportedOnce
  <2>3. QED BY <2>1, <2>2 DEF EntryRight
<1>4. /\ batch.at = "done" => \A n \in 1..BatchCount : Mined(n)
      /\ batch.at = "done" /\ readable => Len(made) = Len(inputs)
  BY DEF BatchesInv, CallStands, AllReported
<1>5. QED BY <1>1, <1>3, <1>4 DEF WholeBatches
=============================================================================
