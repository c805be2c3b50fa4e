------------------------------ MODULE Schemas ------------------------------
(***************************************************************************)
(* The schemas attestations are made under: the registry on the chain, the *)
(* SchemaManager in front of it with its cache, and the start of the       *)
(* attestation service, which asks it for the default schema.              *)
(*                                                                         *)
(* A schema is registered once and never changes.  Each registration gets  *)
(* an id of its own, for the text carries the time at which it was made.   *)
(* Reading an id, parsing the text and caching it is one step: nothing     *)
(* another call does in between could change what is cached.               *)
(***************************************************************************)
EXTENDS Naturals, Sequences

CONSTANTS SchemaIds,     \* ids of registrations
          DefaultSchema, \* config.defaultSchemaId, one of them
          SchemaCalls,   \* calls of the manager after the start
          Texts          \* schema texts: a sequence of fields, and whether it has a name

SchemaTexts == [fields : Seq([type : STRING, name : STRING]), named : BOOLEAN]

ASSUME SchemasAssumption ==
    /\ DefaultSchema \in SchemaIds
    /\ \A text \in Texts : text \in SchemaTexts

FieldTypes == {"uint256", "int256", "bool", "string", "bytes", "address", "bytes32"}
\* A field that is not a type and a name: what parseSchema makes of it has no name.
Malformed == [type |-> "malformed", name |-> "undefined"]

VARIABLES
    registry,    \* the registry: registrations that are pending, or there
    schemaCache, \* schemaCache: parsed schemas, "fresh" until the time to live is over
    schemaCall,  \* a call: what it does, the schemas it has yet to get and has got
    service      \* AttestationService.initialize

schemaVars == <<registry, schemaCache, schemaCall, service>>

NoText == [fields |-> <<>>, named |-> FALSE]
NoCall == [op |-> "none", ids |-> <<>>, got |-> <<>>, result |-> "none"]
Unregistered == [state |-> "none", text |-> NoText]
Uncached == [age |-> "none", text |-> NoText]

SchemasInit ==
    /\ registry = [i \in SchemaIds |-> Unregistered]
    /\ schemaCache = [i \in SchemaIds |-> Uncached]
    /\ schemaCall = [c \in SchemaCalls \cup {"initialize"} |-> NoCall]
    /\ service = "new"

SchemaThere(i) == registry[i].state = "there"
Begin(c, op, ids) == schemaCall' = [schemaCall EXCEPT ![c] = [NoCall EXCEPT !.op = op, !.ids = ids]]
End(c, result) == schemaCall' = [schemaCall EXCEPT ![c].result = result]

-----------------------------------------------------------------------------
(* What the manager makes of a schema *)

\* validateSchemaString looks at the form of the fields only: any type name
\* will do, and two fields of one name.
ValidSchemaString(text) == Malformed \notin {text.fields[k] : k \in DOMAIN text.fields}

IsDuplicate(fields, k) == \E j \in DOMAIN fields : j < k /\ fields[j].name = fields[k].name
\* validateSchemaStructure, which throws when it matches a name that is not there.
ValidateSchemaStructure(text) ==
    IF ~ValidSchemaString(text) THEN "failed"
    ELSE IF /\ text.named
            /\ \A k \in DOMAIN text.fields : /\ text.fields[k].type \in FieldTypes
                                             /\ ~IsDuplicate(text.fields, k)
         THEN "valid" ELSE "invalid"

Names(text) == {text.fields[k].name : k \in DOMAIN text.fields}
\* The Map of a schema's fields by name: the last field of a name is kept.
TypeIn(text, name) ==
    LET last == CHOOSE k \in DOMAIN text.fields :
                   /\ text.fields[k].name = name
                   /\ \A j \in DOMAIN text.fields : text.fields[j].name = name => j <= k
    IN text.fields[last].type

CompareSchemas_AddedOnly(source, target) ==
    LET added == Names(target) \ Names(source)
        modified == {n \in Names(target) \cap Names(source) : TypeIn(source, n) # TypeIn(target, n)}
    IN IF added \cup modified = {} THEN "compatible" ELSE "breaking"
\* compareSchemas: every field is required, so that any difference breaks.
CompareSchemas(source, target) ==
    LET added == Names(target) \ Names(source)
        modified == {n \in Names(target) \cap Names(source) : TypeIn(source, n) # TypeIn(target, n)}
        removed == Names(source) \ Names(target)
    IN IF added \cup modified \cup removed = {} THEN "compatible" ELSE "breaking"

-----------------------------------------------------------------------------
(* registerSchema *)

\* A text that is not well formed is refused, and so is a call the node fails;
\* or else a transaction is sent.
RegisterSchema(c, i, text, accepted) ==
    /\ service = "ready" /\ schemaCall[c] = NoCall /\ registry[i] = Unregistered
    /\ IF ValidSchemaString(text) /\ accepted
       THEN /\ registry' = [registry EXCEPT ![i] = [state |-> "pending", text |-> text]]
            /\ Begin(c, "register", <<i>>)
       ELSE /\ schemaCall' = [schemaCall EXCEPT ![c] = [NoCall EXCEPT !.op = "register", !.result = "failed"]]
            /\ UNCHANGED registry
    /\ UNCHANGED <<schemaCache, service>>

\* wait() resolves with the id, or with a receipt that has it in its logs.
SchemaRegistered(c) ==
    /\ schemaCall[c].op = "register" /\ schemaCall[c].result = "none"
    /\ SchemaThere(schemaCall[c].ids[1])
    /\ End(c, "registered")
    /\ UNCHANGED <<registry, schemaCache, service>>

\* wait() throws or no log has the id, of a transaction that may be mined all the same.
RegistrationFails(c) ==
    /\ schemaCall[c].op = "register" /\ schemaCall[c].result = "none"
    /\ End(c, "failed")
    /\ UNCHANGED <<registry, schemaCache, service>>

MineSchema(i) ==
    /\ registry[i].state = "pending"
    /\ registry' = [registry EXCEPT ![i].state = "there"]
    /\ UNCHANGED <<schemaCache, schemaCall, service>>

\* Anybody may register a schema, of any text.
RegisteredElsewhere(i, text) ==
    /\ registry[i] = Unregistered
    /\ registry' = [registry EXCEPT ![i] = [state |-> "there", text |-> text]]
    /\ UNCHANGED <<schemaCache, schemaCall, service>>

-----------------------------------------------------------------------------
(* getSchema, for validateSchema and checkCompatibility *)

ValidateSchema(c, i) ==
    /\ service = "ready" /\ schemaCall[c] = NoCall
    /\ Begin(c, "validate", <<i>>)
    /\ UNCHANGED <<registry, schemaCache, service>>

CheckCompatibility(c, source, target) ==
    /\ service = "ready" /\ schemaCall[c] = NoCall
    /\ Begin(c, "compare", <<source, target>>)
    /\ UNCHANGED <<registry, schemaCache, service>>

\* The schema a call needs next.
Wanted(c) == schemaCall[c].ids[Len(schemaCall[c].got) + 1]
Reading(c) == schemaCall[c].op \in {"validate", "compare"} /\ schemaCall[c].result = "none"

\* A call gets on with a schema: it needs another one, or answers.
GetOn(c, text) ==
    LET got == Append(schemaCall[c].got, text)
        result == IF Len(got) < Len(schemaCall[c].ids) THEN "none"
                  ELSE IF schemaCall[c].op = "validate" THEN ValidateSchemaStructure(got[1])
                  ELSE CompareSchemas(got[1], got[2])
    IN schemaCall' = [schemaCall EXCEPT ![c].got = got, ![c].result = result]

GetCachedSchema(c) ==
    /\ Reading(c) /\ schemaCache[Wanted(c)].age = "fresh"
    /\ GetOn(c, schemaCache[Wanted(c)].text)
    /\ UNCHANGED <<registry, schemaCache, service>>

\* Read, parsed and cached; what is not found is not cached.
GetSchema(c) ==
    LET i == Wanted(c) IN
    /\ Reading(c) /\ schemaCache[i].age # "fresh"
    /\ SchemaThere(i)
    /\ schemaCache' = [schemaCache EXCEPT ![i] = [age |-> "fresh", text |-> registry[i].text]]
    /\ GetOn(c, registry[i].text)
    /\ UNCHANGED <<registry, service>>

\* Not found, or the read fails: one error for both.
GetSchemaFails(c) ==
    /\ Reading(c) /\ schemaCache[Wanted(c)].age # "fresh"
    /\ End(c, "failed")
    /\ UNCHANGED <<registry, schemaCache, service>>

TimeToLivePasses(i) ==
    /\ schemaCache[i].age = "fresh"
    /\ schemaCache' = [schemaCache EXCEPT ![i].age = "stale"]
    /\ UNCHANGED <<registry, schemaCall, service>>

-----------------------------------------------------------------------------
(* AttestationService.initialize *)

\* initializeProvider: the signer has to be the attester, and the manager needs
\* its configuration; then the default schema is validated.
Initialize(configured) ==
    /\ service = "new"
    /\ service' = IF configured THEN "validating" ELSE "failed"
    /\ IF configured THEN Begin("initialize", "validate", <<DefaultSchema>>) ELSE UNCHANGED schemaCall
    /\ UNCHANGED <<registry, schemaCache>>

\* A default schema that is not valid, and a chain other than the configured
\* one, end the start.
Initialized(sameChain) ==
    /\ service = "validating" /\ schemaCall["initialize"].result # "none"
    /\ service' = IF schemaCall["initialize"].result = "valid" /\ sameChain THEN "ready" ELSE "failed"
    /\ UNCHANGED <<registry, schemaCache, schemaCall>>

SchemasNext ==
    \/ \E yes \in BOOLEAN : Initialize(yes) \/ Initialized(yes)
    \/ \E i \in SchemaIds : \/ MineSchema(i) \/ TimeToLivePasses(i)
                            \/ \E text \in Texts : RegisteredElsewhere(i, text)
    \/ \E c \in SchemaCalls, i \in SchemaIds :
          \/ \E text \in Texts, accepted \in BOOLEAN : RegisterSchema(c, i, text, accepted)
          \/ ValidateSchema(c, i)
          \/ \E j \in SchemaIds : CheckCompatibility(c, i, j)
    \/ \E c \in SchemaCalls : SchemaRegistered(c) \/ RegistrationFails(c)
    \/ \E c \in SchemaCalls \cup {"initialize"} : GetCachedSchema(c) \/ GetSchema(c) \/ GetSchemaFails(c)

-----------------------------------------------------------------------------
SchemasTypeOK ==
    /\ \A i \in SchemaIds :
          /\ registry[i].state \in {"none", "pending", "there"}
          /\ schemaCache[i].age \in {"none", "fresh", "stale"}
    /\ \A c \in DOMAIN schemaCall :
          /\ schemaCall[c].op \in {"none", "register", "validate", "compare"}
          /\ schemaCall[c].result \in {"none", "registered", "failed", "valid", "invalid",
                                       "compatible", "breaking"}
          /\ Len(schemaCall[c].got) <= Len(schemaCall[c].ids)
    /\ service \in {"new", "validating", "ready", "failed"}

\* What an answer is about is registered, and the answer is that of the
\* registry, whatever the age of the cache it came from: a schema is valid if
\* its fields have types the API knows and names that differ, and two valid
\* schemas are compatible exactly when they have the same fields.
SchemaAnswers ==
    \A c \in DOMAIN schemaCall :
        LET op == schemaCall[c].op
            result == schemaCall[c].result
            ids == schemaCall[c].ids
            fields(k) == {registry[ids[k]].text.fields[j] : j \in DOMAIN registry[ids[k]].text.fields}
            valid(k) == ValidateSchemaStructure(registry[ids[k]].text) = "valid"
        IN result \notin {"none", "failed"} =>
             /\ \A k \in DOMAIN ids : SchemaThere(ids[k])
             /\ op = "validate" => (result = "valid") = valid(1)
             /\ op = "compare" /\ valid(1) /\ valid(2) => (result = "compatible") = (fields(1) = fields(2))
=============================================================================
