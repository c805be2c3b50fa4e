---------------------------- MODULE ServerProofs ----------------------------
(***************************************************************************)
(* Proofs about Server, for any number of users, sessions, accounts,       *)
(* organizations, keys, requests and signals.                              *)
(***************************************************************************)
EXTENDS Server, ServerPartsProofs

TenancyNext == OrganizationsNext \/ MembersNext \/ ProjectsNext \/ KeysNext

\* A step of the server is one of each of its parts, or leaves the part alone.
LEMMA Parts ==
    ASSUME [Next]_serverVars
    PROVE  /\ [AccountsNext]_accountVars
           /\ [TenancyNext]_tenantVars
           /\ [LifeNext]_lifeVars
           /\ [GatewayNext]_vars
           /\ [SchemasNext]_schemaVars
           /\ [BatchesNext]_batchVars
<1>1. CASE UNCHANGED serverVars
  BY <1>1 DEF serverVars
<1>2. CASE /\ server = "listening" /\ TablesNext
           /\ UNCHANGED <<vars, lifeVars, schemaVars, batchVars>>
  BY <1>2 DEF TablesNext, TenancyNext
<1>3. CASE /\ about = "requests" /\ server = "listening" /\ GatewayNext
           /\ UNCHANGED <<lifeVars, tenantVars, accountVars, schemaVars, batchVars>>
  BY <1>3
<1>4. CASE \/ BatchesNext /\ UNCHANGED <<vars, lifeVars, tenantVars, accountVars, schemaVars>>
           \/ SchemasNext /\ UNCHANGED <<vars, lifeVars, tenantVars, accountVars, batchVars>>
  BY <1>4
<1>5. CASE ServerStarts /\ UNCHANGED <<vars, tenantVars, accountVars, schemaVars, batchVars>>
  <2>1. LifeNext
    BY <1>5 DEF ServerStarts, LifeNext, Startup
  <2>2. QED BY <1>5, <2>1
<1>6. CASE LifeNext /\ UNCHANGED <<vars, tenantVars, accountVars, schemaVars, batchVars>>
  BY <1>6
<1>7. QED BY <1>1, <1>2, <1>3, <1>4, <1>5, <1>6 DEF Next

-----------------------------------------------------------------------------
(* Accounts *)

\* The accounts of a server are those of AccountsSpec.
LEMMA ServerAccounts == Spec => []AccountsInv
<1>1. Init => AccountsInv
  BY AccountsInitInv DEF Init
<1>2. AccountsInv /\ [Next]_serverVars => AccountsInv'
  BY AccountsNextInv, Parts
<1>3. QED BY <1>1, <1>2, PTL DEF Spec

\* All wallet logins of a wallet that are answered are answered with one account.
THEOREM WalletLoginsAgree == Spec => []WalletLoginStable
<1>1. AccountsInv => WalletLoginStable
  BY LoginsAgree
<1>2. QED BY <1>1, ServerAccounts, PTL

-----------------------------------------------------------------------------
(* Schemas and batches *)

LEMMA ServerSchemas == Spec => []SchemasInv
<1>1. Init => SchemasInv
  BY SchemasInitInv DEF Init
<1>2. SchemasInv /\ [Next]_serverVars => SchemasInv'
  BY SchemasNextInv, Parts
<1>3. QED BY <1>1, <1>2, PTL DEF Spec

LEMMA ServerBatches == Spec => []BatchesInv
<1>1. Init => BatchesInv
  BY BatchesInitInv DEF Init
<1>2. BatchesInv /\ [Next]_serverVars => BatchesInv'
  BY BatchesNextInv, Parts
<1>3. QED BY <1>1, <1>2, PTL DEF Spec

\* schemaManager.ts: for any schemas, texts and ages of the cache, an answer is
\* about registered schemas and is that of the registry.
THEOREM AnswersAreTheRegistrys == Spec => []SchemaAnswers
<1>1. SchemasInv => SchemaAnswers
  BY AnswersAreRight
<1>2. QED BY <1>1, ServerSchemas, PTL

\* easService.ts: for any number of requests, batches and attempts, what a call
\* leaves on the chain is an initial run of its batches, and what it reports was
\* made, once for each request.
THEOREM BatchesAreInitialRuns == Spec => []WholeBatches
<1>1. BatchesInv => WholeBatches
  BY BatchesAreWhole
<1>2. QED BY <1>1, ServerBatches, PTL

-----------------------------------------------------------------------------
(* Members and keys *)

Memberships == [role : Roles \cup {"none"}, status : {"none", "invited", "active"}]
KeyRows == [project : Projects \cup {"none"},
            status : {"none", "active", "revoked", "expired", "gone"}]

ConsentInv ==
    /\ member \in [Organizations -> [Members -> Memberships]]
    /\ ActiveByConsent

\* Nobody is a member at first.
LEMMA ConsentInit == TenancyInit => ConsentInv
BY DEF TenancyInit, ConsentInv, ActiveByConsent, Memberships, NoMember

\* Only an acceptance or a foundation makes a member active.
LEMMA ConsentStep == ConsentInv /\ [TenancyNext]_tenantVars => ConsentInv'
<1> SUFFICES ASSUME ConsentInv, [TenancyNext]_tenantVars PROVE ConsentInv'
  OBVIOUS
<1>1. CASE UNCHANGED <<member, consent>>
  BY <1>1 DEF ConsentInv, ActiveByConsent
<1>2. ASSUME NEW o \in Organizations, NEW u \in Members, CreateOrganization(o, u)
      PROVE  ConsentInv'
  BY <1>2 DEF CreateOrganization, ConsentInv, ActiveByConsent, Memberships, Roles
<1>3. ASSUME NEW o \in Organizations, DeleteOrganization(o)
      PROVE  ConsentInv'
  <2>1. member' = [member EXCEPT ![o] = [u \in Members |-> NoMember]]
        /\ consent' = {c \in consent : c[1] # o}
    BY <1>3 DEF DeleteOrganization
  <2>2. NoMember \in Memberships /\ NoMember.status # "active"
    BY DEF NoMember, Memberships
  <2>3. member' \in [Organizations -> [Members -> Memberships]]
    BY <2>1, <2>2 DEF ConsentInv
  <2>4. ActiveByConsent'
    <3> SUFFICES ASSUME NEW p \in Organizations, NEW u \in Members, member'[p][u].status = "active"
                 PROVE  <<p, u>> \in consent'
      BY DEF ActiveByConsent
    <3>1. p # o
      BY <2>1, <2>2 DEF ConsentInv
    <3>2. <<p, u>> \in consent
      BY <2>1, <3>1 DEF ConsentInv, ActiveByConsent
    <3>3. QED BY <2>1, <3>1, <3>2
  <2>5. QED BY <2>3, <2>4 DEF ConsentInv
<1>4. ASSUME NEW o \in Organizations, NEW u \in Members, NEW role \in Roles, AddMember(o, u, role)
      PROVE  ConsentInv'
  BY <1>4 DEF AddMember, ConsentInv, ActiveByConsent, Memberships
<1>5. ASSUME NEW o \in Organizations, NEW u \in Members, NEW role \in Roles,
             UpdateMemberRole(o, u, role)
      PROVE  ConsentInv'
  BY <1>5 DEF UpdateMemberRole, ConsentInv, ActiveByConsent, Memberships
<1>6. ASSUME NEW o \in Organizations, NEW u \in Members, RemoveMember(o, u)
      PROVE  ConsentInv'
  BY <1>6 DEF RemoveMember, ConsentInv, ActiveByConsent, Memberships, NoMember
<1>7. ASSUME NEW o \in Organizations, NEW u \in Members, AcceptInvitation(o, u)
      PROVE  ConsentInv'
  <2>1. member' = [member EXCEPT ![o][u].status = "active"] /\ consent' = consent \cup {<<o, u>>}
    BY <1>7 DEF AcceptInvitation
  <2>2. member' \in [Organizations -> [Members -> Memberships]]
    BY <2>1 DEF ConsentInv, Memberships
  <2>3. ActiveByConsent'
    <3> SUFFICES ASSUME NEW p \in Organizations, NEW x \in Members, member'[p][x].status = "active"
                 PROVE  <<p, x>> \in consent'
      BY DEF ActiveByConsent
    <3>1. CASE p = o /\ x = u
      BY <2>1, <3>1
    <3>2. CASE p # o \/ x # u
      <4>1. member'[p][x] = member[p][x]
        BY <2>1, <3>2 DEF ConsentInv
      <4>2. QED BY <2>1, <4>1 DEF ConsentInv, ActiveByConsent
    <3>3. QED BY <3>1, <3>2
  <2>4. QED BY <2>2, <2>3 DEF ConsentInv
<1>8. ProjectsNext \/ KeysNext => UNCHANGED <<member, consent>>
  BY DEF ProjectsNext, KeysNext, NewProject, NoContext, GetOrganizationProjects, GetProject,
         WindowEnds, PutProject, PutSettings, TenantRequest, DeleteApiKey, KeyExpires, PostApiKey,
         ValidateLookup, ValidateExpire, ValidateUse, PostProject, organizationVars
<1>9. ASSUME NEW o \in Organizations, NEW status, UpdateOrganization(o, status)
      PROVE  UNCHANGED <<member, consent>>
  BY <1>9 DEF UpdateOrganization
<1>10. QED BY <1>1, <1>2, <1>3, <1>4, <1>5, <1>6, <1>7, <1>8, <1>9
           DEF TenancyNext, OrganizationsNext, MembersNext, tenantVars

\* organizationService.ts: whoever is an active member founded the
\* organization or accepted to join it, and was not removed since.
THEOREM MembersConsented == Spec => []ActiveByConsent
<1>1. Init => ConsentInv
  BY ConsentInit DEF Init
<1>2. ConsentInv /\ [Next]_serverVars => ConsentInv'
  BY ConsentStep, Parts
<1>3. ConsentInv => ActiveByConsent
  BY DEF ConsentInv
<1>4. QED BY <1>1, <1>2, <1>3, PTL DEF Spec

KeysTyped == apiKey \in [Keys -> KeyRows]

\* Every key keeps its type.
LEMMA KeysInit == TenancyInit => KeysTyped
BY DEF TenancyInit, KeysTyped, KeyRows, NoKey

\* The steps that touch the keys write rows of the table.
LEMMA KeyStep ==
    ASSUME KeysTyped, [TenancyNext]_tenantVars
    PROVE  \/ UNCHANGED apiKey
           \/ \E o \in Organizations : DeleteOrganization(o)
           \/ \E k \in Keys, p \in Projects : apiKey[k] = NoKey /\ CreateApiKey(k, p)
           \/ \E k \in Keys : RevokeApiKey(k)
           \/ \E v \in Validations : ValidateExpire(v)
<1>1. CASE UNCHANGED tenantVars
  BY <1>1 DEF tenantVars
<1>2. CASE OrganizationsNext \/ MembersNext
  <2>1. ASSUME NEW o \in Organizations, NEW u \in Members, CreateOrganization(o, u)
        PROVE  UNCHANGED apiKey
    BY <2>1 DEF CreateOrganization, keyVars
  <2>2. ASSUME NEW o \in Organizations, NEW status, UpdateOrganization(o, status)
        PROVE  UNCHANGED apiKey
    BY <2>2 DEF UpdateOrganization, keyVars
  <2>3. MembersNext => UNCHANGED apiKey
    BY DEF MembersNext, AddMember, UpdateMemberRole, RemoveMember, AcceptInvitation, keyVars
  <2>4. QED BY <1>2, <2>1, <2>2, <2>3 DEF OrganizationsNext
<1>3. CASE ProjectsNext
  <2>1. UNCHANGED apiKey
    BY <1>3 DEF ProjectsNext, NewProject, NoContext, GetOrganizationProjects, GetProject,
         WindowEnds, PutProject, PutSettings, TenantRequest, PostProject, keyVars
  <2>2. QED BY <2>1
<1>4. CASE KeysNext
  BY <1>4 DEF KeysNext, NewProject, PostProject, DeleteApiKey, KeyExpires, PostApiKey,
         ValidateLookup, ValidateUse, keyVars
<1>5. QED BY <1>1, <1>2, <1>3, <1>4 DEF TenancyNext

\* The keys keep their types.
LEMMA KeysStep == KeysTyped /\ [TenancyNext]_tenantVars => KeysTyped'
<1> SUFFICES ASSUME KeysTyped, [TenancyNext]_tenantVars PROVE KeysTyped'
  OBVIOUS
<1>1. ASSUME NEW o \in Organizations, DeleteOrganization(o) PROVE KeysTyped'
  BY <1>1 DEF DeleteOrganization, KeysTyped, KeyRows, NoKey
<1>2. ASSUME NEW k \in Keys, NEW p \in Projects, CreateApiKey(k, p) PROVE KeysTyped'
  BY <1>2 DEF CreateApiKey, KeysTyped, KeyRows
<1>3. ASSUME NEW k \in Keys, RevokeApiKey(k) PROVE KeysTyped'
  BY <1>3 DEF RevokeApiKey, KeysTyped, KeyRows
<1>4. ASSUME NEW v \in Validations, ValidateExpire(v) PROVE KeysTyped'
  BY <1>4 DEF ValidateExpire, KeysTyped, KeyRows
<1>5. QED BY <1>1, <1>2, <1>3, <1>4, KeyStep DEF KeysTyped

Revocation(k) ==
    apiKey[k].status = "revoked" =>
        \/ apiKey'[k].status \in {"revoked", "gone"}
        \/ /\ apiKey'[k].status = "expired"
           /\ \E v \in Validations : validation[v].at = "expire" /\ validation[v].key = k

\* A key that is revoked stays so, but for a validation that saw it expired.
LEMMA RevokedStays ==
    ASSUME KeysTyped, [TenancyNext]_tenantVars, NEW k \in Keys
    PROVE  Revocation(k)
<1>1. CASE UNCHANGED apiKey
  BY <1>1 DEF Revocation
<1>2. ASSUME NEW o \in Organizations, DeleteOrganization(o) PROVE Revocation(k)
  BY <1>2 DEF DeleteOrganization, Revocation, NoKey, KeysTyped, KeyRows
<1>3. ASSUME NEW j \in Keys, NEW p \in Projects, apiKey[j] = NoKey, CreateApiKey(j, p)
      PROVE  Revocation(k)
  BY <1>3 DEF CreateApiKey, Revocation, NoKey, KeysTyped
<1>4. ASSUME NEW j \in Keys, RevokeApiKey(j) PROVE Revocation(k)
  BY <1>4 DEF RevokeApiKey, Revocation, KeysTyped, KeyRows
<1>5. ASSUME NEW v \in Validations, ValidateExpire(v) PROVE Revocation(k)
  BY <1>5 DEF ValidateExpire, Revocation, KeysTyped, KeyRows
<1>6. QED BY <1>1, <1>2, <1>3, <1>4, <1>5, KeyStep

\* apiKeyService.ts: revoking a key is for good, whatever validations of it are
\* under way.
THEOREM RevocationLasts == Spec => RevokedForGood
<1>1. Init => KeysTyped
  BY KeysInit DEF Init
<1>2. KeysTyped /\ [Next]_serverVars => KeysTyped'
  BY KeysStep, Parts
<1>3. KeysTyped /\ [Next]_serverVars =>
        [\A k \in Keys : apiKey[k].status = "revoked" =>
          \/ apiKey'[k].status \in {"revoked", "gone"}
          \/ /\ apiKey'[k].status = "expired"
             /\ \E v \in Validations : validation[v].at = "expire" /\ validation[v].key = k]_apiKey
  BY RevokedStays, Parts DEF Revocation
<1>4. QED BY <1>1, <1>2, <1>3, PTL DEF Spec, RevokedForGood

-----------------------------------------------------------------------------
(* The life of the server *)

LifeTyped ==
    /\ call \in [Deliveries -> {"none", "waiting", "closing", "ending", "knex", "rejected"}]
    /\ check \in [HealthChecks -> {"idle", "database", "services", "abandoned"}]

\* A call that is past server.close finds no connection left, and one past the
\* end of the pool finds no pool: nothing can open another.
LifeInv ==
    /\ LifeTyped
    /\ server # "none" => boot = "started"
    /\ server = "closed" => Connections = {}
    /\ ~NoneTaken => pool # "none"
    /\ \A d \in Deliveries : /\ call[d] = "closing" => server # "none"
                             /\ call[d] \in {"ending", "knex"} => server = "closed"
                             /\ call[d] = "knex" => pool = "none"
    /\ CleanExit

\* Nothing is taken before the start.
LEMMA LifeInvInit == LifeInit => LifeInv
BY DEF LifeInit, LifeInv, LifeTyped, Connections, Clients, NoneTaken, CleanExit

\* Every step of the process keeps the order of shutdown.
LEMMA LifeInvStep == LifeInv /\ [LifeNext]_lifeVars => LifeInv'
<1> SUFFICES ASSUME LifeInv, [LifeNext]_lifeVars PROVE LifeInv'
  OBVIOUS
<1> USE DEF Connections, Clients, NoneTaken
<1>1. CASE UNCHANGED lifeVars
  BY <1>1 DEF lifeVars, LifeInv, LifeTyped, CleanExit
<1>2. CASE StartFails
  BY <1>2 DEF StartFails, LifeInv, LifeTyped, CleanExit, Running
<1>3. CASE InitializeDatabase
  BY <1>3 DEF InitializeDatabase, LifeInv, LifeTyped, CleanExit, Running
<1>4. CASE RunMigrations
  BY <1>4 DEF RunMigrations, LifeInv, LifeTyped, CleanExit, Running
<1>5. ASSUME NEW bound \in BOOLEAN, Listen(bound) PROVE LifeInv'
  BY <1>5 DEF Listen, LifeInv, LifeTyped, CleanExit, Running
<1>6. ASSUME NEW h \in HealthChecks, HealthStart(h) PROVE LifeInv'
  BY <1>6 DEF HealthStart, LifeInv, LifeTyped, CleanExit, Running
<1>7. ASSUME NEW h \in HealthChecks, NEW fails \in BOOLEAN, HealthQueried(h, fails) PROVE LifeInv'
  BY <1>7 DEF HealthQueried, LifeInv, LifeTyped, CleanExit, Running
<1>8. ASSUME NEW h \in HealthChecks, HealthAnswered(h) PROVE LifeInv'
  BY <1>8 DEF HealthAnswered, LifeInv, LifeTyped, CleanExit, Running
<1>9. ASSUME NEW h \in HealthChecks, HealthAbandoned(h) PROVE LifeInv'
  BY <1>9 DEF HealthAbandoned, LifeInv, LifeTyped, CleanExit, Running
<1>10. ASSUME NEW d \in Deliveries, Deliver(d) PROVE LifeInv'
  BY <1>10 DEF Deliver, LifeInv, LifeTyped, CleanExit, Running
<1>11. ASSUME NEW d \in Deliveries, Close(d) PROVE LifeInv'
  BY <1>11 DEF Close, LifeInv, LifeTyped, CleanExit, Running
<1>12. CASE CloseDatabase
  <2>1. PICK first \in {d \in Deliveries : call[d] = "closing"} :
           call' = [d \in Deliveries |->
                      IF call[d] # "closing" THEN call[d]
                      ELSE IF pool = "none" THEN "knex"
                      ELSE IF pool = "open" /\ d = first THEN "ending" ELSE "rejected"]
    BY <1>12 DEF CloseDatabase
  <2>2. /\ server' = "closed" /\ pool' = IF pool = "open" THEN "ending" ELSE pool
        /\ exit = "running" /\ Connections = {} /\ UNCHANGED <<boot, exit, check, leaked>>
    BY <1>12 DEF CloseDatabase, Running, Drained
  <2>3. LifeTyped'
    BY <2>1, <2>2 DEF LifeInv, LifeTyped
  <2>4. boot = "started"
    BY <2>1 DEF LifeInv
  <2>5. Connections' = {} /\ (~NoneTaken' => pool' # "none")
    BY <2>2 DEF LifeInv
  <2>6. \A d \in Deliveries : /\ (call'[d] = "closing") => (server' # "none")
                              /\ (call'[d] \in {"ending", "knex"}) => (server' = "closed")
                              /\ (call'[d] = "knex") => (pool' = "none")
    BY <2>1, <2>2 DEF LifeInv
  <2>7. CleanExit'
    BY <2>2 DEF CleanExit
  <2>8. QED BY <2>2, <2>3, <2>4, <2>5, <2>6, <2>7 DEF LifeInv
<1>13. ASSUME NEW d \in Deliveries, PoolEnded(d) PROVE LifeInv'
  BY <1>13 DEF PoolEnded, LifeInv, LifeTyped, CleanExit, Running
<1>14. ASSUME NEW d \in Deliveries, KnexDestroyed(d) PROVE LifeInv'
  BY <1>14 DEF KnexDestroyed, LifeInv, LifeTyped, CleanExit, Running
<1>15. ASSUME NEW d \in Deliveries, Rejection(d) PROVE LifeInv'
  BY <1>15 DEF Rejection, LifeInv, LifeTyped, CleanExit, Running
<1>16. CASE ForceClose
  BY <1>16 DEF ForceClose, LifeInv, LifeTyped, CleanExit, Running
<1>17. QED BY <1>1, <1>2, <1>3, <1>4, <1>5, <1>6, <1>7, <1>8, <1>9, <1>10, <1>11, <1>12, <1>13,
               <1>14, <1>15, <1>16 DEF LifeNext, Startup

\* index.ts: however many shutdowns overlap, the process reports success only
\* with its pool ended, no client of it taken and no request cut off.
THEOREM ExitsAreClean == Spec => []CleanExit
<1>1. Init => LifeInv
  BY LifeInvInit DEF Init
<1>2. LifeInv /\ [Next]_serverVars => LifeInv'
  BY LifeInvStep, Parts
<1>3. LifeInv => CleanExit
  BY DEF LifeInv
<1>4. QED BY <1>1, <1>2, <1>3, PTL DEF Spec

\* A call that is past the start of its shutdown has set the timer, and so has
\* one that its own rejection calls again.
TimedInv ==
    /\ call \in [Deliveries -> {"none", "waiting", "closing", "ending", "knex", "rejected"}]
    /\ \A d \in Deliveries : call[d] \notin {"none", "waiting"} => armed

\* Only Close leaves "waiting", and it sets the timer, which nothing clears.
LEMMA TimedInvStep == TimedInv /\ [LifeNext]_lifeVars => TimedInv'
<1> SUFFICES ASSUME TimedInv, [LifeNext]_lifeVars PROVE TimedInv'
  OBVIOUS
<1>1. CASE UNCHANGED <<call, armed>>
  BY <1>1 DEF TimedInv
<1>2. ASSUME NEW d \in Deliveries, Deliver(d) \/ Rejection(d) PROVE TimedInv'
  BY <1>2 DEF Deliver, Rejection, TimedInv
<1>3. ASSUME NEW d \in Deliveries, Close(d) PROVE TimedInv'
  BY <1>3 DEF Close, TimedInv
<1>4. ASSUME NEW d \in Deliveries, PoolEnded(d) \/ KnexDestroyed(d) PROVE TimedInv'
  BY <1>4 DEF PoolEnded, KnexDestroyed, TimedInv
<1>5. CASE CloseDatabase
  <2>1. PICK first \in {d \in Deliveries : call[d] = "closing"} :
           call' = [d \in Deliveries |->
                      IF call[d] # "closing" THEN call[d]
                      ELSE IF pool = "none" THEN "knex"
                      ELSE IF pool = "open" /\ d = first THEN "ending" ELSE "rejected"]
    BY <1>5 DEF CloseDatabase
  <2>2. armed' = armed /\ armed
    BY <1>5, <2>1 DEF CloseDatabase, TimedInv
  <2>3. QED BY <2>1, <2>2 DEF TimedInv
<1>6. CASE ForceClose
  BY <1>6 DEF ForceClose, TimedInv
<1>7. CASE Startup
  BY <1>7 DEF Startup, StartFails, InitializeDatabase, RunMigrations, Listen, TimedInv
<1>8. ASSUME NEW h \in HealthChecks,
             \/ HealthStart(h) \/ \E fails \in BOOLEAN : HealthQueried(h, fails)
             \/ HealthAnswered(h) \/ HealthAbandoned(h)
      PROVE  TimedInv'
  BY <1>8 DEF HealthStart, HealthQueried, HealthAnswered, HealthAbandoned, TimedInv
<1>9. QED BY <1>1, <1>2, <1>3, <1>4, <1>5, <1>6, <1>7, <1>8 DEF LifeNext, lifeVars

\* index.ts, shutdown: whatever overlaps and rejects, at no turn of the event
\* loop is a started process that was told to stop without its 30 second timer.
THEOREM ShutdownsAreTimed == Spec => []ShutdownIsTimed
<1>1. Init => TimedInv
  BY DEF Init, LifeInit, TimedInv
<1>2. TimedInv /\ [Next]_serverVars => TimedInv'
  BY TimedInvStep, Parts
<1>3. TimedInv => ShutdownIsTimed
  BY DEF TimedInv, ShutdownIsTimed, Quiet, Queued, Shutdowns
<1>4. QED BY <1>1, <1>2, <1>3, PTL DEF Spec

-----------------------------------------------------------------------------
(* KYC sessions *)

SessionRows == [owner : Users \cup {NoUser}, provider : Providers \cup {"none"},
                status : {"none", "pending", "processing"}]

SessionInv ==
    /\ enabled \subseteq Providers
    /\ session \in [Sessions -> SessionRows]
    /\ caller \in [Sessions -> Callers]
    /\ \A s \in Sessions : Exists(s) => session[s].provider \in Providers
    /\ told \subseteq Sessions
    /\ \A s \in told : Exists(s) /\ session[s].provider \in enabled
    /\ OwnerIsCaller
    /\ RefusedStaysPending

\* There is no session at first.
LEMMA SessionInit == GatewayInit => SessionInv
<1> SUFFICES ASSUME GatewayInit PROVE SessionInv
  OBVIOUS
<1>1. /\ session = [s \in Sessions |-> NoSession] /\ told = {}
      /\ caller = [s \in Sessions |-> NoUser] /\ enabled \subseteq Providers
  BY DeploymentsAssumption DEF GatewayInit, KycInit
<1>2. \A s \in Sessions : ~Exists(s)
  BY <1>1 DEF Exists
<1>3. session \in [Sessions -> SessionRows] /\ caller \in [Sessions -> Callers]
  BY <1>1 DEF SessionRows, NoSession, Callers
<1>4. QED BY <1>1, <1>2, <1>3 DEF SessionInv, OwnerIsCaller, RefusedStaysPending

\* A chain answers 0 only when none of its (at most five) handlers refuses.
LEMMA ChainPasses ==
    ASSUME NEW n \in 1..5, NEW steps, DOMAIN steps = 1..n,
           \A i \in 1..n : steps[i][2] \in Nat \ {0},
           Chain(steps) = 0
    PROVE  \A i \in 1..n : ~steps[i][1]
<1> DEFINE refusing == {i \in DOMAIN steps : steps[i][1]}
           first == CHOOSE i \in refusing : \A j \in refusing : i <= j
<1>1. ASSUME refusing # {} PROVE FALSE
  <2>1. \E i \in refusing : \A j \in refusing : i <= j
    <3>1. refusing \subseteq 1..5
      OBVIOUS
    <3> HIDE DEF refusing
    <3>2. CASE 1 \in refusing
      BY <3>1, <3>2
    <3>3. CASE 1 \notin refusing /\ 2 \in refusing
      BY <3>1, <3>3
    <3>4. CASE 1 \notin refusing /\ 2 \notin refusing /\ 3 \in refusing
      BY <3>1, <3>4
    <3>5. CASE 1 \notin refusing /\ 2 \notin refusing /\ 3 \notin refusing /\ 4 \in refusing
      BY <3>1, <3>5
    <3>6. CASE 1 \notin refusing /\ 2 \notin refusing /\ 3 \notin refusing /\ 4 \notin refusing
      <4>1. PICK e : e \in refusing
        BY <1>1
      <4>2. \A j \in refusing : j = 5
        BY <3>1, <3>6
      <4>3. QED BY <4>1, <4>2
    <3>7. QED BY <3>2, <3>3, <3>4, <3>5, <3>6
  <2>2. first \in refusing
    BY <2>1
  <2>3. steps[first][2] \in Nat \ {0}
    BY <2>2
  <2>4. Chain(steps) = steps[first][2]
    BY <1>1 DEF Chain
  <2>5. QED BY <2>3, <2>4
<1>2. QED BY <1>1

\* A session is stored for an authenticated user by one whose provider is known.
LEMMA SessionStored ==
    ASSUME SessionInv, NEW u \in Callers, NEW claimed \in Callers, NEW request,
           NEW valid \in BOOLEAN, NEW s \in Sessions, NEW ip \in Ips,
           PostSession(ip, u, claimed, request, valid, s)
    PROVE  SessionInv'
<1> DEFINE steps == <<Authenticated, <<hits[ip] >= KycMax, 429>>, <<~valid, 400>>,
                      <<u = NoUser, 500>>, <<Chosen(request) = {}, 500>>>>
<1>1. CASE Chain(steps) # 0
  BY <1>1 DEF PostSession, SessionInv, kycVars, OwnerIsCaller, RefusedStaysPending, Exists
<1>2. CASE Chain(steps) = 0
  <2>1. u # NoUser
    <3>1. DOMAIN steps = 1..5 /\ \A i \in 1..5 : steps[i][2] \in Nat \ {0}
      BY DEF Authenticated
    <3>2. \A i \in 1..5 : ~steps[i][1]
      <4> HIDE DEF steps
      <4>1. QED BY <3>1, <1>2, ChainPasses
    <3>3. ~steps[4][1]
      BY <3>2
    <3>4. QED BY <3>3
  <2>2. PICK p \in Chosen(request) : Store(s, u, p)
    BY <1>2 DEF PostSession, Owner
  <2>3. caller' = [caller EXCEPT ![s] = u] /\ enabled' = enabled
    BY <1>2 DEF PostSession
  <2>4. p \in Providers
    BY DEF Chosen, SelectProvider, SessionInv
  <2> HIDE DEF steps
  <2> DEFINE row == [owner |-> u, provider |-> p, status |-> "pending"]
  <2>5. session' = [session EXCEPT ![s] = row]
        /\ told' = IF p \in enabled THEN told \cup {s} ELSE told
    BY <2>2 DEF Store
  <2>6. row \in SessionRows /\ row # NoSession
    BY <2>1, <2>4 DEF SessionRows, NoSession, Callers
  <2>7. session \in [Sessions -> SessionRows] /\ caller \in [Sessions -> Callers]
    BY DEF SessionInv
  <2>8. session' \in [Sessions -> SessionRows] /\ caller' \in [Sessions -> Callers]
    BY <2>3, <2>5, <2>6, <2>7
  <2>9. session'[s] = row /\ caller'[s] = u
    BY <2>3, <2>5, <2>7
  <2>10. \A r \in Sessions \ {s} : session'[r] = session[r] /\ caller'[r] = caller[r]
    BY <2>3, <2>5, <2>7
  <2>11. OwnerIsCaller'
    BY <2>1, <2>9, <2>10 DEF OwnerIsCaller, Exists, SessionInv
  <2>12. RefusedStaysPending'
    BY <2>3, <2>9, <2>10 DEF RefusedStaysPending, Exists, SessionInv
  <2>13. \A r \in Sessions : Exists(r)' => session'[r].provider \in Providers
    BY <2>4, <2>9, <2>10 DEF Exists, SessionInv
  <2>14. told' \subseteq Sessions /\ \A r \in told' : Exists(r)' /\ session'[r].provider \in enabled'
    <3>1. ~Exists(s) /\ s \notin told
      BY DEF PostSession, SessionInv
    <3>2. \A r \in told : Exists(r)' /\ session'[r].provider \in enabled'
      BY <2>3, <2>10, <3>1 DEF Exists, SessionInv
    <3>3. p \in enabled => Exists(s)' /\ session'[s].provider \in enabled'
      BY <2>3, <2>6, <2>9 DEF Exists
    <3>4. CASE p \in enabled
      BY <2>5, <3>2, <3>3, <3>4 DEF SessionInv
    <3>5. CASE p \notin enabled
      BY <2>5, <3>2, <3>5 DEF SessionInv
    <3>6. QED BY <3>4, <3>5
  <2>15. QED BY <2>3, <2>8, <2>11, <2>12, <2>13, <2>14 DEF SessionInv
<1>3. QED BY <1>1, <1>2

\* Only a session that was answered to its creator is ever verified.
LEMMA SessionVerified ==
    ASSUME SessionInv, NEW ip \in Ips, NEW s \in Sessions, PostVerify(ip, s)
    PROVE  SessionInv'
<1> DEFINE steps == <<Authenticated, <<hits[ip] >= KycMax, 429>>, <<~Exists(s), 500>>>>
<1>1. CASE Chain(steps) # 0
  BY <1>1 DEF PostVerify, SessionInv, kycVars, OwnerIsCaller, RefusedStaysPending, Exists
<1>2. CASE Chain(steps) = 0
  <2>1. Exists(s)
    <3>1. DOMAIN steps = 1..3 /\ \A i \in 1..3 : steps[i][2] \in Nat \ {0}
      BY DEF Authenticated
    <3>2. \A i \in 1..3 : ~steps[i][1]
      <4> HIDE DEF steps
      <4>1. QED BY <3>1, <1>2, ChainPasses
    <3>3. ~steps[3][1]
      BY <3>2
    <3>4. QED BY <3>3
  <2>2. s \in told
    BY <2>1 DEF PostVerify
  <2>3. /\ session' = [session EXCEPT ![s].status = "processing"]
        /\ UNCHANGED <<enabled, told, caller>>
    BY <1>2 DEF PostVerify, Processing
  <2> HIDE DEF steps
  <2>4. session \in [Sessions -> SessionRows]
    BY DEF SessionInv
  <2>5. /\ session'[s] = [session[s] EXCEPT !.status = "processing"]
        /\ \A r \in Sessions \ {s} : session'[r] = session[r]
    BY <2>3, <2>4
  <2>6. /\ session'[s].owner = session[s].owner
        /\ session'[s].provider = session[s].provider
        /\ session'[s].status = "processing"
        /\ session'[s] \in SessionRows
    BY <2>4, <2>5 DEF SessionRows
  <2>7. session' \in [Sessions -> SessionRows]
    BY <2>3, <2>4, <2>5, <2>6
  <2>8. Exists(s)'
    BY <2>6 DEF Exists, NoSession
  <2>9. OwnerIsCaller'
    BY <2>1, <2>3, <2>5, <2>6 DEF OwnerIsCaller, Exists, SessionInv
  <2>10. RefusedStaysPending'
    BY <2>2, <2>3, <2>5, <2>6 DEF RefusedStaysPending, Exists, SessionInv
  <2>11. \A r \in Sessions : Exists(r)' => session'[r].provider \in Providers
    BY <2>1, <2>5, <2>6 DEF Exists, SessionInv
  <2>12. told' \subseteq Sessions /\ \A r \in told' : Exists(r)' /\ session'[r].provider \in enabled'
    BY <2>3, <2>5, <2>6, <2>8 DEF Exists, SessionInv
  <2>13. QED BY <2>3, <2>7, <2>9, <2>10, <2>11, <2>12 DEF SessionInv
<1>3. QED BY <1>1, <1>2

\* Every request preserves what is known of the sessions.
LEMMA SessionStep == SessionInv /\ [GatewayNext]_vars => SessionInv'
<1> SUFFICES ASSUME SessionInv, [GatewayNext]_vars PROVE SessionInv'
  OBVIOUS
<1>1. ASSUME UNCHANGED <<kycVars, caller>> PROVE SessionInv'
  BY <1>1 DEF SessionInv, kycVars, OwnerIsCaller, RefusedStaysPending, Exists
<1>2. CASE UNCHANGED vars
  BY <1>1, <1>2 DEF vars
<1>3. CASE Unauthenticated
  BY <1>1, <1>3 DEF Unauthenticated
<1>4. ASSUME NEW ip \in Ips, KycWindowEnds(ip) \/ \E u \in Callers : OpWindowEnds(ip, u)
      PROVE  SessionInv'
  BY <1>1, <1>4 DEF KycWindowEnds, OpWindowEnds
<1>5. ASSUME NEW u \in Callers, NEW claimed \in Callers, NEW valid \in BOOLEAN, NEW s \in Sessions,
             NEW request \in Providers \cup {"unspecified", "unknown"},
             NEW ip \in Ips, PostSession(ip, u, claimed, request, valid, s)
      PROVE  SessionInv'
  BY <1>5, SessionStored
<1>6. ASSUME NEW ip \in Ips, NEW s \in Sessions, PostVerify(ip, s) PROVE SessionInv'
  BY <1>6, SessionVerified
<1>7. ASSUME NEW limited \in BOOLEAN, GetProviders(limited) PROVE SessionInv'
  BY <1>1, <1>7 DEF GetProviders
<1>8. ASSUME NEW ip \in Ips, NEW u \in Callers, NEW yes \in BOOLEAN, NEW valid \in BOOLEAN,
             PostAttestation(ip, u, yes, valid) \/ PostRevoke(ip, u, valid, yes)
      PROVE  SessionInv'
  BY <1>1, <1>8 DEF PostAttestation, PostRevoke
<1>9. ASSUME NEW u \in Callers, NEW valid \in BOOLEAN, NEW code \in {200, 400, 404},
             ReadAttestation(u, valid, code)
      PROVE  SessionInv'
  BY <1>1, <1>9 DEF ReadAttestation
<1>10. ASSUME NEW uuid \in BOOLEAN, EstimateCost(uuid) PROVE SessionInv'
  BY <1>1, <1>10 DEF EstimateCost
<1>11. QED BY <1>2, <1>3, <1>4, <1>5, <1>6, <1>7, <1>8, <1>9, <1>10 DEF GatewayNext

\* routes/kyc.ts: whatever user id a body carries, a session is its creator's,
\* and never nobody's.
THEOREM SessionsHaveOwners == Spec => []OwnerIsCaller
<1>1. Init => SessionInv
  BY SessionInit DEF Init
<1>2. SessionInv /\ [Next]_serverVars => SessionInv'
  BY SessionStep, Parts
<1>3. SessionInv => OwnerIsCaller
  BY DEF SessionInv
<1>4. QED BY <1>1, <1>2, <1>3, PTL DEF Spec

\* baseKycService.ts: a session whose provider refused it is never verified.
THEOREM RefusedAreInert == Spec => []RefusedStaysPending
<1>1. Init => SessionInv
  BY SessionInit DEF Init
<1>2. SessionInv /\ [Next]_serverVars => SessionInv'
  BY SessionStep, Parts
<1>3. SessionInv => RefusedStaysPending
  BY DEF SessionInv
<1>4. QED BY <1>1, <1>2, <1>3, PTL DEF Spec

-----------------------------------------------------------------------------
(* KYC reports *)

Clean(r) ==
    /\ r.status = "completed" <=> \A k \in Checks : r.checks[k] # "fail"
    /\ r.status = "completed" => r.risk \in {"low", "medium"}

\* Whatever confidence a provider draws, its report is clean.
LEMMA ReportsAreClean ==
    ASSUME NEW p \in Providers, NEW r \in Reports(p)
    PROVE  Clean(r)
<1>1. \A c \in 70..99 : Clean(SmileIdentity(c))
  <2> SUFFICES ASSUME NEW c \in 70..99 PROVE Clean(SmileIdentity(c))
    OBVIOUS
  <2>1. CASE c > 75
    BY <2>1 DEF Clean, SmileIdentity, Report, Verdict, Risk, Checks
  <2>2. CASE ~(c > 75)
    BY <2>2 DEF Clean, SmileIdentity, Report, Verdict, Risk, Checks
  <2>3. QED BY <2>1, <2>2
<1>2. \A c \in 80..99 : Clean(Onfido(c))
  <2> SUFFICES ASSUME NEW c \in 80..99 PROVE Clean(Onfido(c))
    OBVIOUS
  <2>1. CASE c > 85
    BY <2>1 DEF Clean, Onfido, Report, Verdict, Risk, Checks
  <2>2. CASE ~(c > 85)
    BY <2>2 DEF Clean, Onfido, Report, Verdict, Risk, Checks
  <2>3. QED BY <2>1, <2>2
<1>3. \A c \in 75..99 : \A hit \in BOOLEAN \X BOOLEAN : Clean(Trulioo(c, hit[1], hit[2]))
  <2> SUFFICES ASSUME NEW c \in 75..99, NEW sanctionsHit \in BOOLEAN, NEW pepHit \in BOOLEAN
               PROVE  Clean(Trulioo(c, sanctionsHit, pepHit))
    OBVIOUS
  <2> DEFINE report == Trulioo(c, sanctionsHit, pepHit)
  <2>1. CASE sanctionsHit
    <3>1. report.status = "failed" /\ report.checks["sanctions"] = "fail" /\ "sanctions" \in Checks
      BY <2>1 DEF Trulioo, Report, Verdict, Checks
    <3>2. QED BY <3>1 DEF Clean
  <2>2. CASE pepHit
    <3>1. report.status = "failed" /\ report.checks["pep"] = "fail" /\ "pep" \in Checks
      BY <2>2 DEF Trulioo, Report, Verdict, Checks
    <3>2. QED BY <3>1 DEF Clean
  <2>3. CASE ~sanctionsHit /\ ~pepHit /\ c > 80
    <3>1. report.status = "completed" /\ report.risk \in {"low", "medium"}
      BY <2>3 DEF Trulioo, Report, Risk
    <3>2. \A k \in Checks : report.checks[k] # "fail"
      BY <2>3 DEF Trulioo, Report, Verdict, Checks
    <3>3. QED BY <3>1, <3>2 DEF Clean
  <2>4. CASE ~sanctionsHit /\ ~pepHit /\ ~(c > 80)
    <3>1. report.status = "failed" /\ report.checks["identity"] = "fail" /\ "identity" \in Checks
      BY <2>4 DEF Trulioo, Report, Verdict, Checks
    <3>2. QED BY <3>1 DEF Clean
  <2>5. QED BY <2>1, <2>2, <2>3, <2>4
<1>4. CASE p = "smile_identity"
  BY <1>1, <1>4 DEF Reports
<1>5. CASE p = "onfido"
  BY <1>2, <1>5 DEF Reports
<1>6. CASE p = "trulioo"
  <2>1. PICK c \in Confidences \cap 75..99, hit \in BOOLEAN \X BOOLEAN : r = Trulioo(c, hit[1], hit[2])
    BY <1>6 DEF Reports
  <2>2. QED BY <1>3, <2>1
<1>7. QED BY <1>4, <1>5, <1>6 DEF Providers

\* An answer carries a report only after a session with a provider was verified.
LEMMA AnswersStep == SessionInv /\ CompletedIffClean /\ [GatewayNext]_vars => CompletedIffClean'
<1> SUFFICES ASSUME SessionInv, CompletedIffClean, [GatewayNext]_vars PROVE CompletedIffClean'
  OBVIOUS
<1>1. ASSUME NEW code, Respond(code) PROVE CompletedIffClean'
  BY <1>1 DEF CompletedIffClean, Respond
<1>2. ASSUME UNCHANGED answer PROVE CompletedIffClean'
  BY <1>2 DEF CompletedIffClean
<1>3. CASE UNCHANGED vars
  BY <1>2, <1>3 DEF vars
<1>4. CASE Unauthenticated
  BY <1>1, <1>4 DEF Unauthenticated
<1>5. ASSUME NEW ip \in Ips, KycWindowEnds(ip) \/ \E u \in Callers : OpWindowEnds(ip, u)
      PROVE  CompletedIffClean'
  BY <1>2, <1>5 DEF KycWindowEnds, OpWindowEnds
<1>6. ASSUME NEW u \in Callers, NEW claimed \in Callers, NEW valid \in BOOLEAN, NEW s \in Sessions,
             NEW request \in Providers \cup {"unspecified", "unknown"},
             NEW ip \in Ips, PostSession(ip, u, claimed, request, valid, s)
      PROVE  CompletedIffClean'
  <2>1. \E code : Respond(code)
    BY <1>6 DEF PostSession
  <2>2. QED BY <1>1, <2>1
<1>7. ASSUME NEW ip \in Ips, NEW s \in Sessions, PostVerify(ip, s) PROVE CompletedIffClean'
  <2> DEFINE steps == <<Authenticated, <<hits[ip] >= KycMax, 429>>, <<~Exists(s), 500>>>>
  <2>1. CASE Chain(steps) # 0
    BY <1>1, <1>7, <2>1 DEF PostVerify
  <2>2. CASE Chain(steps) = 0
    <3>1. PICK r \in Reports(session[s].provider) : answer' = [code |-> 200, report |-> r]
      BY <1>7, <2>2 DEF PostVerify
    <3>2. Exists(s)
      <4>1. DOMAIN steps = 1..3 /\ \A i \in 1..3 : steps[i][2] \in Nat \ {0}
        BY DEF Authenticated
      <4>2. \A i \in 1..3 : ~steps[i][1]
        <5> HIDE DEF steps
        <5>1. QED BY <4>1, <2>2, ChainPasses
      <4>3. ~steps[3][1]
        BY <4>2
      <4>4. QED BY <4>3
    <3>3. Clean(r)
      BY <3>2, ReportsAreClean DEF SessionInv
    <3>4. QED BY <3>1, <3>3 DEF CompletedIffClean, Clean
  <2>3. QED BY <2>1, <2>2
<1>8. ASSUME NEW limited \in BOOLEAN, GetProviders(limited) PROVE CompletedIffClean'
  BY <1>1, <1>8 DEF GetProviders
<1>9. ASSUME NEW ip \in Ips, NEW u \in Callers, NEW yes \in BOOLEAN, NEW valid \in BOOLEAN,
             PostAttestation(ip, u, yes, valid) \/ PostRevoke(ip, u, valid, yes)
      PROVE  CompletedIffClean'
  BY <1>1, <1>9 DEF PostAttestation, PostRevoke
<1>10. ASSUME NEW u \in Callers, NEW valid \in BOOLEAN, NEW code \in {200, 400, 404},
             ReadAttestation(u, valid, code)
      PROVE  CompletedIffClean'
  BY <1>1, <1>10 DEF ReadAttestation
<1>11. ASSUME NEW uuid \in BOOLEAN, EstimateCost(uuid) PROVE CompletedIffClean'
  BY <1>1, <1>11 DEF EstimateCost
<1>12. CASE \E ip \in Ips, u \in Callers, claimed \in Callers, valid \in BOOLEAN, s \in Sessions :
              \E request \in Providers \cup {"unspecified", "unknown"} :
                 PostSession(ip, u, claimed, request, valid, s)
  BY <1>6, <1>12
<1>13. CASE \E ip \in Ips : KycWindowEnds(ip) \/ \E s \in Sessions : PostVerify(ip, s)
  BY <1>5, <1>7, <1>13
<1>14. CASE \E ip \in Ips, u \in Callers :
               \/ OpWindowEnds(ip, u)
               \/ \E yes, valid \in BOOLEAN : \/ PostAttestation(ip, u, yes, valid)
                                            \/ PostRevoke(ip, u, valid, yes)
  BY <1>5, <1>9, <1>14
<1>15. QED BY <1>3, <1>4, <1>8, <1>10, <1>11, <1>12, <1>13, <1>14 DEF GatewayNext

\* The three providers: a verification is answered as completed exactly when
\* no check of it failed, and then its risk is at most medium.
THEOREM CompletionsAreClean == Spec => []CompletedIffClean
<1>1. Init => SessionInv /\ CompletedIffClean
  <2>1. Init => SessionInv
    BY SessionInit DEF Init
  <2>2. GatewayInit => CompletedIffClean
    BY DEF GatewayInit, CompletedIffClean
  <2>3. QED BY <2>1, <2>2 DEF Init
<1>2. SessionInv /\ CompletedIffClean /\ [Next]_serverVars => (SessionInv /\ CompletedIffClean)'
  BY SessionStep, AnswersStep, Parts
<1>3. QED BY <1>1, <1>2, PTL DEF Spec

-----------------------------------------------------------------------------
(* Types *)

MemberRows == [role : Roles, status : {"invited", "active"}] \cup {NoMember}
ProjectRows == [organization : Organizations \cup {"none"},
                status : {"none", "active", "inactive", "suspended", "gone"},
                rateLimit : RateLimits \cup {0}]

TenancyTyped ==
    /\ organization \in [Organizations -> {"none", "active", "suspended", "deleted", "gone"}]
    /\ member \in [Organizations -> [Members -> MemberRows]]
    /\ project \in [Projects -> ProjectRows]
    /\ settings \in [Projects -> SUBSET Fields]
    /\ KeysTyped
    /\ DOMAIN validation = Validations
    /\ \A v \in Validations : validation[v].at \in {"idle", "expire", "use"}

\* The foreign keys of the tables: what a row refers to is there.
ReferencesThere ==
    /\ \A p \in Projects : IsProject(p) =>
          \E o \in Organizations : project[p].organization = o /\ IsOrganization(o)
    /\ \A k \in Keys : IsKey(k) => \E p \in Projects : apiKey[k].project = p /\ IsProject(p)

\* The tables are empty at first.
LEMMA TenancyTypedInit == TenancyInit => TenancyTyped /\ ReferencesThere
<1> SUFFICES ASSUME TenancyInit PROVE TenancyTyped /\ ReferencesThere
  OBVIOUS
<1>1. /\ organization \in [Organizations -> {"none", "active", "suspended", "deleted", "gone"}]
      /\ member \in [Organizations -> [Members -> MemberRows]]
      /\ project \in [Projects -> ProjectRows]
      /\ settings \in [Projects -> SUBSET Fields]
  BY DEF TenancyInit, MemberRows, ProjectRows, NoProject
<1>2. \A p \in Projects : ~IsProject(p)
  BY DEF TenancyInit, IsProject, NoProject
<1>3. \A k \in Keys : ~IsKey(k)
  BY DEF TenancyInit, IsKey, NoKey
<1>4. DOMAIN validation = Validations /\ \A v \in Validations : validation[v].at = "idle"
  BY DEF TenancyInit
<1>5. QED BY <1>1, <1>2, <1>3, <1>4, KeysInit DEF TenancyTyped, ReferencesThere

\* The organizations keep their types.
LEMMA OrganizationsTyped ==
    ASSUME TenancyTyped, OrganizationsNext \/ MembersNext
    PROVE  /\ organization' \in [Organizations -> {"none", "active", "suspended", "deleted", "gone"}]
           /\ member' \in [Organizations -> [Members -> MemberRows]]
           /\ project' \in [Projects -> ProjectRows]
           /\ settings' \in [Projects -> SUBSET Fields]
           /\ UNCHANGED validation
<1> USE DEF TenancyTyped, MemberRows, Roles
<1>1. ASSUME NEW o \in Organizations, DeleteOrganization(o)
      PROVE  /\ organization' \in [Organizations -> {"none", "active", "suspended", "deleted", "gone"}]
             /\ member' \in [Organizations -> [Members -> MemberRows]]
             /\ project' \in [Projects -> ProjectRows]
             /\ settings' \in [Projects -> SUBSET Fields]
             /\ UNCHANGED validation
  <2>1. [NoProject EXCEPT !.status = "gone"] \in ProjectRows
    BY DEF NoProject, ProjectRows
  <2>2. project' \in [Projects -> ProjectRows]
    BY <1>1, <2>1 DEF DeleteOrganization
  <2>3. settings' \in [Projects -> SUBSET Fields]
    BY <1>1 DEF DeleteOrganization
  <2>4. organization' \in [Organizations -> {"none", "active", "suspended", "deleted", "gone"}]
    BY <1>1 DEF DeleteOrganization
  <2>5. member' \in [Organizations -> [Members -> MemberRows]]
    BY <1>1 DEF DeleteOrganization
  <2>6. QED BY <1>1, <2>2, <2>3, <2>4, <2>5 DEF DeleteOrganization
<1>2. ASSUME NEW o \in Organizations, NEW u \in Members, CreateOrganization(o, u)
      PROVE  /\ organization' \in [Organizations -> {"none", "active", "suspended", "deleted", "gone"}]
             /\ member' \in [Organizations -> [Members -> MemberRows]]
             /\ UNCHANGED <<project, settings, validation>>
  BY <1>2 DEF CreateOrganization, keyVars
<1>3. ASSUME NEW o \in Organizations, NEW status \in {"active", "suspended", "deleted"},
             UpdateOrganization(o, status)
      PROVE  /\ organization' \in [Organizations -> {"none", "active", "suspended", "deleted", "gone"}]
             /\ UNCHANGED <<member, project, settings, validation>>
  BY <1>3 DEF UpdateOrganization, keyVars
<1>4. ASSUME NEW o \in Organizations, NEW u \in Members, NEW role \in Roles, AddMember(o, u, role)
      PROVE  /\ member' \in [Organizations -> [Members -> MemberRows]]
             /\ UNCHANGED <<organization, project, settings, validation>>
  BY <1>4 DEF AddMember, keyVars
<1>5. ASSUME NEW o \in Organizations, NEW u \in Members, NEW role \in Roles,
             UpdateMemberRole(o, u, role)
      PROVE  /\ member' \in [Organizations -> [Members -> MemberRows]]
             /\ UNCHANGED <<organization, project, settings, validation>>
  BY <1>5 DEF UpdateMemberRole, keyVars
<1>6. ASSUME NEW o \in Organizations, NEW u \in Members, RemoveMember(o, u)
      PROVE  /\ member' \in [Organizations -> [Members -> MemberRows]]
             /\ UNCHANGED <<organization, project, settings, validation>>
  BY <1>6 DEF RemoveMember, keyVars
<1>7. ASSUME NEW o \in Organizations, NEW u \in Members, AcceptInvitation(o, u)
      PROVE  /\ member' \in [Organizations -> [Members -> MemberRows]]
             /\ UNCHANGED <<organization, project, settings, validation>>
  BY <1>7 DEF AcceptInvitation, keyVars, NoMember
<1>8. QED BY <1>1, <1>2, <1>3, <1>4, <1>5, <1>6, <1>7 DEF OrganizationsNext, MembersNext

\* The projects and the calls on their keys keep their types.
LEMMA ProjectsTyped ==
    ASSUME TenancyTyped, ProjectsNext \/ KeysNext
    PROVE  /\ UNCHANGED <<organization, member>>
           /\ project' \in [Projects -> ProjectRows]
           /\ settings' \in [Projects -> SUBSET Fields]
           /\ DOMAIN validation' = Validations
           /\ \A v \in Validations : validation'[v].at \in {"idle", "expire", "use"}
<1> USE DEF organizationVars, keyVars
<1>1. ASSUME NEW p \in Projects, NEW o \in Organizations, NEW valid \in BOOLEAN, PostProject(p, o, valid)
      PROVE  /\ project' \in [Projects -> ProjectRows]
             /\ UNCHANGED <<organization, member, settings, validation>>
  BY <1>1 DEF PostProject, CreateProject, TenancyTyped, ProjectRows
<1>2. ASSUME NEW p \in Projects, NEW update, PutProject(p, update)
      PROVE  /\ project' \in [Projects -> ProjectRows]
             /\ UNCHANGED <<organization, member, settings, validation>>
  <2>1. PICK status \in {"active", "inactive", "suspended"}, limit \in RateLimits :
           project' = IF ~IsProject(p) THEN project
                      ELSE [project EXCEPT ![p].status = IF "status" \in update THEN status ELSE @,
                                           ![p].rateLimit = IF "metadata" \in update THEN limit ELSE @]
    BY <1>2 DEF PutProject, UpdateProject
  <2> DEFINE st == IF "status" \in update THEN status ELSE project[p].status
             rl == IF "metadata" \in update THEN limit ELSE project[p].rateLimit
  <2>2. project \in [Projects -> ProjectRows] /\ project[p] \in ProjectRows
    BY DEF TenancyTyped
  <2>3. st \in {"none", "active", "inactive", "suspended", "gone"} /\ rl \in RateLimits \cup {0}
    BY <2>2 DEF ProjectRows
  <2>4. project' = project \/ project' = [project EXCEPT ![p].status = st, ![p].rateLimit = rl]
    BY <2>1, <2>2
  <2> HIDE DEF st, rl
  <2>5. project' \in [Projects -> ProjectRows]
    BY <2>2, <2>3, <2>4 DEF ProjectRows
  <2>6. QED BY <1>2, <2>5 DEF PutProject
<1>3. ASSUME NEW p \in Projects, NEW given \in SUBSET Fields, PutSettings(p, given)
      PROVE  /\ settings' \in [Projects -> SUBSET Fields]
             /\ UNCHANGED <<organization, member, project, validation>>
  BY <1>3 DEF PutSettings, UpdateProjectSettings, TenancyTyped
<1>4. ASSUME \/ NoContext \/ GetOrganizationProjects
             \/ \E p \in Projects : GetProject(p) \/ \E ip \in Ips : WindowEnds(p, ip)
             \/ \E p \in Projects, ip \in Ips : \E resource \in {p, "another", "none"} : TenantRequest(p, ip, resource)
      PROVE  UNCHANGED <<organization, member, project, settings, validation>>
  BY <1>4 DEF NoContext, GetOrganizationProjects, GetProject, WindowEnds, TenantRequest
<1>5. ASSUME NEW k \in Keys, NEW p \in Projects, NEW valid \in BOOLEAN,
             DeleteApiKey(k) \/ KeyExpires(k) \/ PostApiKey(k, p, valid)
      PROVE  UNCHANGED <<organization, member, project, settings, validation>>
  BY <1>5 DEF DeleteApiKey, KeyExpires, PostApiKey
<1>6. ASSUME NEW k \in Keys, NEW v \in Validations, ValidateLookup(v, k)
      PROVE  /\ UNCHANGED <<organization, member, project, settings>>
             /\ DOMAIN validation' = Validations
             /\ \A w \in Validations : validation'[w].at \in {"idle", "expire", "use"}
  <2> DEFINE row == [at |-> IF k \in overdue THEN "expire" ELSE "use", key |-> k]
  <2>1. UNCHANGED <<organization, member, project, settings>>
        /\ (validation' = [validation EXCEPT ![v] = row] \/ validation' = validation)
    BY <1>6 DEF ValidateLookup
  <2>2. row.at \in {"idle", "expire", "use"}
    OBVIOUS
  <2> HIDE DEF row
  <2>3. QED BY <2>1, <2>2 DEF TenancyTyped
<1>7. ASSUME NEW v \in Validations, ValidateExpire(v) \/ ValidateUse(v)
      PROVE  /\ UNCHANGED <<organization, member, project, settings>>
             /\ DOMAIN validation' = Validations
             /\ \A w \in Validations : validation'[w].at \in {"idle", "expire", "use"}
  BY <1>7 DEF ValidateExpire, ValidateUse, TenancyTyped
<1>8. ASSUME NEW k \in Keys, DeleteApiKey(k) \/ KeyExpires(k)
      PROVE  UNCHANGED <<organization, member, project, settings, validation>>
  BY <1>8 DEF DeleteApiKey, KeyExpires
<1>9. QED BY <1>1, <1>2, <1>3, <1>4, <1>5, <1>6, <1>7, <1>8
          DEF ProjectsNext, KeysNext, NewProject, TenancyTyped

LEMMA TenancyTypedStep == TenancyTyped /\ [TenancyNext]_tenantVars => TenancyTyped'
<1> SUFFICES ASSUME TenancyTyped, [TenancyNext]_tenantVars PROVE TenancyTyped'
  OBVIOUS
<1>1. KeysTyped'
  BY KeysStep DEF TenancyTyped
<1>2. CASE UNCHANGED tenantVars
  BY <1>1, <1>2 DEF tenantVars, TenancyTyped
<1>3. CASE OrganizationsNext \/ MembersNext
  BY <1>1, <1>3, OrganizationsTyped DEF TenancyTyped
<1>4. CASE ProjectsNext \/ KeysNext
  BY <1>1, <1>4, ProjectsTyped DEF TenancyTyped
<1>5. QED BY <1>2, <1>3, <1>4 DEF TenancyNext

\* A step that keeps the rows there are, with what they refer to, and gives a
\* new row something that is there.
LEMMA ReferencesStay ==
    ASSUME ReferencesThere,
           \A o \in Organizations : IsOrganization(o) => IsOrganization(o)',
           \A p \in Projects : IsProject(p) => IsProject(p)',
           \A p \in Projects : IsProject(p)' =>
              \/ IsProject(p) /\ project'[p].organization = project[p].organization
              \/ \E o \in Organizations : project'[p].organization = o /\ IsOrganization(o)',
           \A k \in Keys : IsKey(k)' =>
              \/ IsKey(k) /\ apiKey'[k].project = apiKey[k].project
              \/ \E p \in Projects : apiKey'[k].project = p /\ IsProject(p)'
    PROVE  ReferencesThere'
BY DEF ReferencesThere

\* What refers to a deleted organization goes with it, and keys with their project.
LEMMA ReferencesOfDeleted ==
    ASSUME TenancyTyped, ReferencesThere, NEW o \in Organizations, DeleteOrganization(o)
    PROVE  ReferencesThere'
<1> DEFINE projects == {p \in Projects : project[p].organization = o}
<1>1. /\ organization' = [organization EXCEPT ![o] = "gone"]
      /\ project' = [p \in Projects |-> IF p \in projects THEN [NoProject EXCEPT !.status = "gone"]
                                                           ELSE project[p]]
      /\ apiKey' = [k \in Keys |-> IF apiKey[k].project \in projects
                                   THEN [NoKey EXCEPT !.status = "gone"] ELSE apiKey[k]]
  BY DEF DeleteOrganization
<1>2. /\ [NoProject EXCEPT !.status = "gone"].status = "gone"
      /\ [NoKey EXCEPT !.status = "gone"].status = "gone"
  BY DEF NoProject, NoKey
<1>3. \A p \in Projects : IsProject(p)' => p \notin projects /\ project'[p] = project[p] /\ IsProject(p)
  BY <1>1, <1>2 DEF IsProject
<1>4. ASSUME NEW p \in Projects, IsProject(p)'
      PROVE  \E q \in Organizations : project'[p].organization = q /\ IsOrganization(q)'
  <2>1. PICK q \in Organizations : project[p].organization = q /\ IsOrganization(q)
    BY <1>3, <1>4 DEF ReferencesThere
  <2>2. q # o
    BY <1>3, <1>4, <2>1
  <2>3. organization'[q] = organization[q]
    BY <1>1, <2>2 DEF TenancyTyped
  <2>4. QED BY <1>3, <1>4, <2>1, <2>3 DEF IsOrganization
<1>5. ASSUME NEW k \in Keys, IsKey(k)'
      PROVE  \E p \in Projects : apiKey'[k].project = p /\ IsProject(p)'
  <2>1. apiKey[k].project \notin projects /\ apiKey'[k] = apiKey[k] /\ IsKey(k)
    BY <1>1, <1>2, <1>5 DEF IsKey
  <2>2. PICK p \in Projects : apiKey[k].project = p /\ IsProject(p)
    BY <2>1 DEF ReferencesThere
  <2>3. project'[p] = project[p]
    BY <1>1, <2>1, <2>2
  <2>4. QED BY <2>1, <2>2, <2>3 DEF IsProject
<1>6. QED BY <1>4, <1>5 DEF ReferencesThere

LEMMA ReferencesStep ==
    TenancyTyped /\ ReferencesThere /\ [TenancyNext]_tenantVars => ReferencesThere'
<1> SUFFICES ASSUME TenancyTyped, ReferencesThere, [TenancyNext]_tenantVars PROVE ReferencesThere'
  OBVIOUS
<1> USE DEF organizationVars, keyVars
<1>1. ASSUME UNCHANGED <<organization, project, apiKey>> PROVE ReferencesThere'
  BY <1>1 DEF ReferencesThere, IsOrganization, IsProject, IsKey
<1>2. ASSUME NEW o \in Organizations, DeleteOrganization(o) PROVE ReferencesThere'
  BY <1>2, ReferencesOfDeleted
<1>3. ASSUME NEW o \in Organizations, NEW u \in Members, CreateOrganization(o, u) PROVE ReferencesThere'
  <2>1. organization' = [organization EXCEPT ![o] = "active"] /\ UNCHANGED <<project, apiKey>>
    BY <1>3 DEF CreateOrganization
  <2>2. \A q \in Organizations : IsOrganization(q) => IsOrganization(q)'
    BY <2>1 DEF TenancyTyped, IsOrganization
  <2>3. QED BY <2>1, <2>2, ReferencesStay DEF IsProject, IsKey
<1>4. ASSUME NEW o \in Organizations, NEW status \in {"active", "suspended", "deleted"},
             UpdateOrganization(o, status)
      PROVE  ReferencesThere'
  <2>1. organization' = [organization EXCEPT ![o] = status] /\ UNCHANGED <<project, apiKey>>
    BY <1>4 DEF UpdateOrganization
  <2>2. \A q \in Organizations : IsOrganization(q) => IsOrganization(q)'
    BY <2>1 DEF TenancyTyped, IsOrganization
  <2>3. QED BY <2>1, <2>2, ReferencesStay DEF IsProject, IsKey
<1>5. ASSUME MembersNext PROVE ReferencesThere'
  <2>1. UNCHANGED <<organization, project, apiKey>>
    BY <1>5 DEF MembersNext, AddMember, UpdateMemberRole, RemoveMember, AcceptInvitation
  <2>2. QED BY <1>1, <2>1
<1>6. ASSUME NEW p \in Projects, NEW o \in Organizations, NEW valid \in BOOLEAN, PostProject(p, o, valid)
      PROVE  ReferencesThere'
  <2>0. UNCHANGED <<organization, apiKey>> /\ project[p] = NoProject
    BY <1>6 DEF PostProject
  <2>1. CASE project' = project
    BY <1>1, <2>0, <2>1
  <2>2. CASE /\ IsOrganization(o)
             /\ project' = [project EXCEPT ![p] = [organization |-> o, status |-> "active", rateLimit |-> 0]]
    <3>1. /\ project'[p].organization = o /\ project'[p].status = "active"
          /\ \A q \in Projects \ {p} : project'[q] = project[q]
      BY <2>2 DEF TenancyTyped
    <3>2. \A q \in Projects : IsProject(q) => IsProject(q)'
      BY <3>1 DEF IsProject
    <3>3. \A q \in Projects : IsProject(q)' =>
              \/ IsProject(q) /\ project'[q].organization = project[q].organization
              \/ \E r \in Organizations : project'[q].organization = r /\ IsOrganization(r)'
      BY <2>0, <2>2, <3>1 DEF IsProject, IsOrganization
    <3>4. QED BY <2>0, <3>2, <3>3, ReferencesStay DEF IsOrganization, IsKey
  <2>3. QED BY <1>6, <2>1, <2>2 DEF PostProject, CreateProject
<1>7. ASSUME NEW p \in Projects, NEW update, PutProject(p, update) PROVE ReferencesThere'
  <2>1. PICK status \in {"active", "inactive", "suspended"}, limit \in RateLimits :
           project' = IF ~IsProject(p) THEN project
                      ELSE [project EXCEPT ![p].status = IF "status" \in update THEN status ELSE @,
                                           ![p].rateLimit = IF "metadata" \in update THEN limit ELSE @]
    BY <1>7 DEF PutProject, UpdateProject
  <2>0. UNCHANGED <<organization, apiKey>>
    BY <1>7 DEF PutProject
  <2>2. CASE ~IsProject(p)
    BY <1>1, <2>0, <2>1, <2>2
  <2>3. CASE IsProject(p)
    <3> DEFINE st == IF "status" \in update THEN status ELSE project[p].status
               rl == IF "metadata" \in update THEN limit ELSE project[p].rateLimit
    <3>1. project \in [Projects -> ProjectRows] /\ project[p] \in ProjectRows
      BY DEF TenancyTyped
    <3>2. st \notin {"none", "gone"}
      BY <2>3 DEF IsProject
    <3>3. project' = [project EXCEPT ![p].status = st, ![p].rateLimit = rl]
      BY <2>1, <2>3, <3>1
    <3> HIDE DEF st, rl
    <3>4. /\ project'[p].status = st /\ project'[p].organization = project[p].organization
          /\ \A q \in Projects \ {p} : project'[q] = project[q]
      BY <3>1, <3>3 DEF ProjectRows
    <3>5. \A q \in Projects : (IsProject(q) <=> IsProject(q)')
                              /\ project'[q].organization = project[q].organization
      BY <2>3, <3>2, <3>4 DEF IsProject
    <3>6. QED BY <2>0, <3>5, ReferencesStay DEF IsOrganization, IsKey
  <2>4. QED BY <2>2, <2>3
<1>8. ASSUME \/ NoContext \/ GetOrganizationProjects
             \/ \E p \in Projects : GetProject(p) \/ \E ip \in Ips : WindowEnds(p, ip)
             \/ \E p \in Projects : \E given \in SUBSET Fields : PutSettings(p, given)
             \/ \E p \in Projects, ip \in Ips : \E resource \in {p, "another", "none"} : TenantRequest(p, ip, resource)
             \/ \E k \in Keys : KeyExpires(k)
             \/ \E k \in Keys, v \in Validations : ValidateLookup(v, k)
             \/ \E v \in Validations : ValidateUse(v)
      PROVE  ReferencesThere'
  <2>1. UNCHANGED <<organization, project, apiKey>>
    BY <1>8 DEF NoContext, GetOrganizationProjects, GetProject, WindowEnds, PutSettings,
                TenantRequest, KeyExpires, ValidateLookup, ValidateUse
  <2>2. QED BY <1>1, <2>1
<1>9. ASSUME NEW k \in Keys, NEW status, IsKey(k),
             apiKey' = [apiKey EXCEPT ![k].status = status], UNCHANGED <<organization, project>>
      PROVE  ReferencesThere'
  <2>1. /\ apiKey'[k].project = apiKey[k].project
        /\ \A j \in Keys \ {k} : apiKey'[j] = apiKey[j]
    BY <1>9 DEF TenancyTyped, KeysTyped, KeyRows
  <2>2. \A j \in Keys : IsKey(j)' => IsKey(j) /\ apiKey'[j].project = apiKey[j].project
    BY <1>9, <2>1 DEF IsKey
  <2>3. QED BY <1>9, <2>2, ReferencesStay DEF IsOrganization, IsProject
<1>10. ASSUME NEW k \in Keys, DeleteApiKey(k) PROVE ReferencesThere'
  <2>1. UNCHANGED <<organization, project>>
    BY <1>10 DEF DeleteApiKey
  <2>2. CASE apiKey' = apiKey
    BY <1>1, <2>1, <2>2
  <2>3. CASE IsKey(k) /\ apiKey' = [apiKey EXCEPT ![k].status = "revoked"]
    BY <1>9, <2>1, <2>3
  <2>4. QED BY <1>10, <2>2, <2>3 DEF DeleteApiKey, RevokeApiKey
<1>11. ASSUME NEW k \in Keys, NEW p \in Projects, NEW valid \in BOOLEAN, PostApiKey(k, p, valid)
       PROVE  ReferencesThere'
  <2>1. UNCHANGED <<organization, project>>
    BY <1>11 DEF PostApiKey
  <2>2. CASE apiKey' = apiKey
    BY <1>1, <2>1, <2>2
  <2>3. CASE IsProject(p) /\ apiKey' = [apiKey EXCEPT ![k] = [project |-> p, status |-> "active"]]
    <3>1. apiKey'[k].project = p /\ \A j \in Keys \ {k} : apiKey'[j] = apiKey[j]
      BY <2>3 DEF TenancyTyped, KeysTyped
    <3>2. \A j \in Keys : IsKey(j)' =>
              \/ IsKey(j) /\ apiKey'[j].project = apiKey[j].project
              \/ \E q \in Projects : apiKey'[j].project = q /\ IsProject(q)'
      BY <2>1, <2>3, <3>1 DEF IsKey, IsProject
    <3>3. QED BY <2>1, <3>2, ReferencesStay DEF IsOrganization, IsProject
  <2>4. QED BY <1>11, <2>2, <2>3 DEF PostApiKey, CreateApiKey
<1>12. ASSUME NEW v \in Validations, ValidateExpire(v) PROVE ReferencesThere'
  <2> DEFINE k == validation[v].key
  <2>1. UNCHANGED <<organization, project>>
        /\ apiKey' = IF IsKey(k) THEN [apiKey EXCEPT ![k].status = "expired"] ELSE apiKey
    BY <1>12 DEF ValidateExpire
  <2>2. CASE k \in Keys /\ IsKey(k)
    BY <1>9, <2>1, <2>2
  <2>3. CASE k \notin Keys \/ ~IsKey(k)
    <3>1. apiKey' = apiKey
      BY <2>1, <2>3 DEF TenancyTyped, KeysTyped
    <3>2. QED BY <1>1, <2>1, <3>1
  <2>4. QED BY <2>2, <2>3
<1>13. CASE UNCHANGED tenantVars
  BY <1>1, <1>13 DEF tenantVars
<1>14. QED BY <1>2, <1>3, <1>4, <1>5, <1>6, <1>7, <1>8, <1>10, <1>11, <1>12, <1>13
           DEF TenancyNext, OrganizationsNext, ProjectsNext, KeysNext, NewProject

\* The invariant is stronger than the types of the tables.
LEMMA TenancyTypes == TenancyTyped /\ ReferencesThere => TenancyTypeOK
<1> SUFFICES ASSUME TenancyTyped, ReferencesThere PROVE TenancyTypeOK
  OBVIOUS
<1>1. ASSUME NEW o \in Organizations, NEW u \in Members
      PROVE  member[o][u] \in [role : Roles, status : {"invited", "active"}] \cup {NoMember}
  BY DEF TenancyTyped, MemberRows
<1>2. ASSUME NEW p \in Projects
      PROVE  /\ project[p].status \in {"none", "active", "inactive", "suspended", "gone"}
             /\ settings[p] \in SUBSET Fields
             /\ IsProject(p) => IsOrganization(project[p].organization)
  BY DEF TenancyTyped, ReferencesThere, ProjectRows
<1>3. ASSUME NEW k \in Keys
      PROVE  /\ apiKey[k].status \in {"none", "active", "revoked", "expired", "gone"}
             /\ IsKey(k) => IsProject(apiKey[k].project)
  BY DEF TenancyTyped, ReferencesThere, KeysTyped, KeyRows
<1>4. QED BY <1>1, <1>2, <1>3 DEF TenancyTypeOK, TenancyTyped

\* Every step of the process keeps the types of its variables.
LEMMA LifeTypesInit == LifeInit => LifeTypeOK
<1> SUFFICES ASSUME LifeInit PROVE LifeTypeOK
  OBVIOUS
<1>1. supabase \in BOOLEAN /\ armed \in BOOLEAN /\ leaked \in BOOLEAN
  BY DEF LifeInit
<1>2. QED BY <1>1 DEF LifeInit, LifeTypeOK

LEMMA LifeTypesStep == LifeTypeOK /\ [LifeNext]_lifeVars => LifeTypeOK'
<1> SUFFICES ASSUME LifeTypeOK, [LifeNext]_lifeVars PROVE LifeTypeOK'
  OBVIOUS
<1> USE DEF LifeTypeOK
<1>1. CASE UNCHANGED lifeVars
  BY <1>1 DEF lifeVars
<1>2. CASE StartFails \/ InitializeDatabase \/ RunMigrations \/ ForceClose
  BY <1>2 DEF StartFails, InitializeDatabase, RunMigrations, ForceClose
<1>3. ASSUME NEW bound \in BOOLEAN, Listen(bound) PROVE LifeTypeOK'
  BY <1>3 DEF Listen
<1>4. ASSUME NEW h \in HealthChecks, HealthStart(h) PROVE LifeTypeOK'
  BY <1>4 DEF HealthStart
<1>5. ASSUME NEW h \in HealthChecks, NEW fails \in BOOLEAN, HealthQueried(h, fails) PROVE LifeTypeOK'
  BY <1>5 DEF HealthQueried
<1>6. ASSUME NEW h \in HealthChecks, HealthAnswered(h) \/ HealthAbandoned(h) PROVE LifeTypeOK'
  BY <1>6 DEF HealthAnswered, HealthAbandoned
<1>7. ASSUME NEW d \in Deliveries, Deliver(d) \/ Rejection(d) \/ PoolEnded(d) PROVE LifeTypeOK'
  BY <1>7 DEF Deliver, Rejection, PoolEnded
<1>8. ASSUME NEW d \in Deliveries, Close(d) PROVE LifeTypeOK'
  BY <1>8 DEF Close
<1>9. ASSUME NEW d \in Deliveries, KnexDestroyed(d) PROVE LifeTypeOK'
  BY <1>9 DEF KnexDestroyed
<1>10. CASE CloseDatabase
  <2>1. PICK first \in {d \in Deliveries : call[d] = "closing"} :
           call' = [d \in Deliveries |->
                      IF call[d] # "closing" THEN call[d]
                      ELSE IF pool = "none" THEN "knex"
                      ELSE IF pool = "open" /\ d = first THEN "ending" ELSE "rejected"]
    BY <1>10 DEF CloseDatabase
  <2>2. call' \in [Deliveries -> {"none", "waiting", "closing", "ending", "knex", "rejected"}]
    BY <2>1
  <2>3. /\ server' = "closed" /\ pool' = IF pool = "open" THEN "ending" ELSE pool
        /\ UNCHANGED <<supabase, boot, exit, armed, check, leaked>>
    BY <1>10 DEF CloseDatabase
  <2>4. QED BY <2>2, <2>3
<1>11. QED BY <1>1, <1>2, <1>3, <1>4, <1>5, <1>6, <1>7, <1>8, <1>9, <1>10 DEF LifeNext, Startup

Codes == {0, 200, 201, 400, 401, 403, 404, 429, 500, 503}

CountsOf(counts, keys) == counts \in [keys -> 0..MaxCounted]

\* What limiters count and requests are answered with.
AnswersTyped ==
    /\ privy \in BOOLEAN
    /\ CountsOf(hits, Ips)
    /\ CountsOf(opHits, Ips \X Callers)
    /\ answer.code \in Codes
    /\ answer.report.checks \in [Checks -> Verdicts]

\* A chain of at most five handlers answers the code of one of them, or 0.
LEMMA ChainAnswers ==
    ASSUME NEW n \in 1..5, NEW steps, DOMAIN steps = 1..n, \A i \in 1..n : steps[i][2] \in Codes
    PROVE  Chain(steps) \in Codes
<1> DEFINE refusing == {i \in DOMAIN steps : steps[i][1]}
           first == CHOOSE i \in refusing : \A j \in refusing : i <= j
<1>1. CASE refusing = {}
  BY <1>1 DEF Chain, Codes
<1>2. CASE refusing # {}
  <2>1. \E i \in refusing : \A j \in refusing : i <= j
    <3>1. refusing \subseteq 1..5
      OBVIOUS
    <3> HIDE DEF refusing
    <3>2. PICK e : e \in refusing
      BY <1>2
    <3>3. CASE 1 \in refusing
      BY <3>1, <3>3
    <3>4. CASE 1 \notin refusing /\ 2 \in refusing
      BY <3>1, <3>4
    <3>5. CASE 1 \notin refusing /\ 2 \notin refusing /\ 3 \in refusing
      BY <3>1, <3>5
    <3>6. CASE 1 \notin refusing /\ 2 \notin refusing /\ 3 \notin refusing /\ 4 \in refusing
      BY <3>1, <3>6
    <3>7. CASE 1 \notin refusing /\ 2 \notin refusing /\ 3 \notin refusing /\ 4 \notin refusing
      <4>1. \A j \in refusing : j = 5
        BY <3>1, <3>7
      <4>2. QED BY <3>2, <4>1
    <3>8. QED BY <3>3, <3>4, <3>5, <3>6, <3>7
  <2>2. first \in refusing
    BY <2>1
  <2>3. steps[first][2] \in Codes
    BY <2>2
  <2>4. Chain(steps) = steps[first][2]
    BY <1>2 DEF Chain
  <2>5. QED BY <2>3, <2>4
<1>3. QED BY <1>1, <1>2

\* The checks of a report have verdicts.
LEMMA ReportsHaveVerdicts ==
    ASSUME NEW p \in Providers, NEW r \in Reports(p)
    PROVE  r.checks \in [Checks -> Verdicts]
<1>1. \A b : Verdict(b) \in Verdicts
  BY DEF Verdict, Verdicts
<1>2. "not_applicable" \in Verdicts
  BY DEF Verdicts
<1>3. ASSUME NEW c \in Nat
      PROVE  /\ SmileIdentity(c).checks \in [Checks -> Verdicts]
             /\ Onfido(c).checks \in [Checks -> Verdicts]
  <2> DEFINE smile == [k \in Checks |-> IF k \in {"address", "sanctions", "pep"}
                                       THEN "not_applicable" ELSE Verdict(c > 75)]
             onfido == [k \in Checks |-> IF k = "liveness" \/ (k = "address" /\ ~(c > 85))
                                        THEN "not_applicable" ELSE Verdict(c > 85)]
  <2>1. smile \in [Checks -> Verdicts]
    BY <1>1, <1>2, Zenon
  <2>2. onfido \in [Checks -> Verdicts]
    BY <1>1, <1>2, Zenon
  <2>3. SmileIdentity(c).checks = smile /\ Onfido(c).checks = onfido
    BY DEF SmileIdentity, Onfido, Report
  <2>4. QED BY <2>1, <2>2, <2>3
<1>4. ASSUME NEW c \in Nat, NEW sanctionsHit \in BOOLEAN, NEW pepHit \in BOOLEAN
      PROVE  Trulioo(c, sanctionsHit, pepHit).checks \in [Checks -> Verdicts]
  <2> DEFINE checks == [k \in Checks |->
                 CASE k \in {"address", "identity"} -> Verdict(c > 80)
                   [] k = "sanctions" -> Verdict(~sanctionsHit)
                   [] k = "pep" -> Verdict(~pepHit)
                   [] OTHER -> "not_applicable"]
  <2>1. \A k \in Checks : checks[k] \in Verdicts
    <3> SUFFICES ASSUME NEW k \in Checks PROVE checks[k] \in Verdicts
      OBVIOUS
    <3>1. CASE k \in {"address", "identity"}
      BY <1>1, <3>1
    <3>2. CASE k = "sanctions"
      BY <1>1, <3>2
    <3>3. CASE k = "pep"
      BY <1>1, <3>3
    <3>4. CASE k \notin {"address", "identity", "sanctions", "pep"}
      BY <1>2, <3>4
    <3>5. QED BY <3>1, <3>2, <3>3, <3>4
  <2>2. checks \in [Checks -> Verdicts]
    BY <2>1
  <2>3. Trulioo(c, sanctionsHit, pepHit).checks = checks
    BY DEF Trulioo, Report
  <2>4. QED BY <2>2, <2>3
<1>5. CASE p = "smile_identity"
  BY <1>3, <1>5 DEF Reports
<1>6. CASE p = "onfido"
  BY <1>3, <1>6 DEF Reports
<1>7. CASE p = "trulioo"
  <2>1. PICK c \in Confidences \cap 75..99, hit \in BOOLEAN \X BOOLEAN : r = Trulioo(c, hit[1], hit[2])
    BY <1>7 DEF Reports
  <2>2. QED BY <1>4, <2>1
<1>8. QED BY <1>5, <1>6, <1>7 DEF Providers

\* An answer without a report, and limiters that count to their limits.
LEMMA RespondTyped ==
    ASSUME NEW code \in Codes, Respond(code)
    PROVE  answer'.code \in Codes /\ answer'.report.checks \in [Checks -> Verdicts]
BY DEF Respond, NoReport, Verdicts

\* A limiter's counters stay within the bound.
LEMMA CountsTyped ==
    ASSUME NEW keys, NEW counts, NEW k \in keys, CountsOf(counts, keys)
    PROVE  /\ Countable(counts, k) => CountsOf(Counted(counts, k), keys)
           /\ CountsOf(Reset(counts, k), keys)
<1>1. counts \in [keys -> 0..MaxCounted] /\ counts[k] \in 0..MaxCounted /\ MaxCounted \in Nat
  BY LimiterAssumption DEF CountsOf
<1>2. Countable(counts, k) => counts[k] + 1 \in 0..MaxCounted
  BY <1>1 DEF Countable
<1>3. QED BY <1>1, <1>2 DEF CountsOf, Counted, Reset

LEMMA LimitersTyped ==
    ASSUME AnswersTyped, NEW ip \in Ips
    PROVE  /\ CountKyc(ip) => CountsOf(hits', Ips)
           /\ \A u \in Callers : CountOp(ip, u) => CountsOf(opHits', Ips \X Callers)
<1>1. CountsOf(hits, Ips) /\ CountsOf(opHits, Ips \X Callers)
  BY DEF AnswersTyped
<1>2. CountKyc(ip) => CountsOf(hits', Ips)
  <2>1. CASE UNCHANGED hits
    BY <1>1, <2>1 DEF CountsOf
  <2>2. CASE Countable(hits, ip) /\ hits' = Counted(hits, ip)
    BY <1>1, <2>2, CountsTyped
  <2>3. QED BY <2>1, <2>2 DEF CountKyc
<1>3. ASSUME NEW u \in Callers, CountOp(ip, u) PROVE CountsOf(opHits', Ips \X Callers)
  <2>1. <<ip, u>> \in Ips \X Callers
    OBVIOUS
  <2>2. QED BY <1>1, <1>3, <2>1, CountsTyped DEF CountOp
<1>4. QED BY <1>2, <1>3

\* Every request is answered with one of the codes, and within the limits.
LEMMA AnswersTypedStep == SessionInv /\ AnswersTyped /\ [GatewayNext]_vars => AnswersTyped'
<1> SUFFICES ASSUME SessionInv, AnswersTyped, [GatewayNext]_vars PROVE AnswersTyped'
  OBVIOUS
<1>0. ASSUME UNCHANGED privy, CountsOf(hits', Ips), CountsOf(opHits', Ips \X Callers),
             answer'.code \in Codes, answer'.report.checks \in [Checks -> Verdicts]
      PROVE  AnswersTyped'
  BY <1>0 DEF AnswersTyped, CountsOf
<1>1. CountsOf(hits, Ips) /\ CountsOf(opHits, Ips \X Callers)
  BY DEF AnswersTyped
<1>2. CASE UNCHANGED vars
  BY <1>2 DEF vars, AnswersTyped, CountsOf
<1>3. CASE Unauthenticated
  <2>1. PICK code \in {401, 500} : Respond(code)
    BY <1>3 DEF Unauthenticated
  <2>2. code \in Codes
    BY DEF Codes
  <2>3. QED BY <1>0, <1>1, <1>3, <2>1, <2>2, RespondTyped DEF Unauthenticated
<1>4. ASSUME NEW ip \in Ips, KycWindowEnds(ip) \/ \E u \in Callers : OpWindowEnds(ip, u)
      PROVE  AnswersTyped'
  <2>1. ASSUME KycWindowEnds(ip) PROVE AnswersTyped'
    BY <1>0, <1>1, <2>1, CountsTyped DEF KycWindowEnds, AnswersTyped
  <2>2. ASSUME NEW u \in Callers, OpWindowEnds(ip, u) PROVE AnswersTyped'
    <3>1. CountsOf(Reset(opHits, <<ip, u>>), Ips \X Callers)
      BY <1>1, CountsTyped
    <3>2. QED BY <1>0, <1>1, <2>2, <3>1 DEF OpWindowEnds, AnswersTyped
  <2>3. QED BY <1>4, <2>1, <2>2
<1>5. ASSUME NEW u \in Callers, NEW claimed \in Callers, NEW valid \in BOOLEAN, NEW s \in Sessions,
             NEW request \in Providers \cup {"unspecified", "unknown"},
             NEW ip \in Ips, PostSession(ip, u, claimed, request, valid, s)
      PROVE  AnswersTyped'
  <2> DEFINE steps == <<Authenticated, <<hits[ip] >= KycMax, 429>>, <<~valid, 400>>,
                        <<u = NoUser, 500>>, <<Chosen(request) = {}, 500>>>>
  <2>1. Chain(steps) \in Codes
    <3>1. DOMAIN steps = 1..5 /\ \A i \in 1..5 : steps[i][2] \in Codes
      BY DEF Authenticated, Codes
    <3> HIDE DEF steps
    <3>2. QED BY <3>1, ChainAnswers
  <2>2. \E code \in Codes : Respond(code)
    <3>1. 201 \in Codes /\ 500 \in Codes
      BY DEF Codes
    <3>2. CASE Chain(steps) # 0
      BY <1>5, <2>1, <3>2 DEF PostSession
    <3>3. CASE Chain(steps) = 0
      BY <1>5, <3>1, <3>3 DEF PostSession
    <3>4. QED BY <3>2, <3>3
  <2>3. UNCHANGED <<privy, opHits>> /\ CountKyc(ip)
    BY <1>5 DEF PostSession
  <2>4. QED BY <1>0, <1>1, <2>2, <2>3, RespondTyped, LimitersTyped
<1>6. ASSUME NEW ip \in Ips, NEW s \in Sessions, PostVerify(ip, s) PROVE AnswersTyped'
  <2> DEFINE steps == <<Authenticated, <<hits[ip] >= KycMax, 429>>, <<~Exists(s), 500>>>>
  <2>0. DOMAIN steps = 1..3 /\ \A i \in 1..3 : steps[i][2] \in Codes /\ steps[i][2] \in Nat \ {0}
    BY DEF Authenticated, Codes
  <2>1. UNCHANGED <<privy, opHits>> /\ CountKyc(ip)
    BY <1>6 DEF PostVerify
  <2>2. CASE Chain(steps) # 0
    <3>1. Respond(Chain(steps))
      BY <1>6, <2>2 DEF PostVerify
    <3> HIDE DEF steps
    <3>2. Chain(steps) \in Codes
      BY <2>0, ChainAnswers
    <3>3. QED BY <1>0, <1>1, <2>1, <3>1, <3>2, RespondTyped, LimitersTyped
  <2>3. CASE Chain(steps) = 0
    <3>1. PICK r \in Reports(session[s].provider) : answer' = [code |-> 200, report |-> r]
      BY <1>6, <2>3 DEF PostVerify
    <3>2. Exists(s)
      <4>1. \A i \in 1..3 : ~steps[i][1]
        <5> HIDE DEF steps
        <5>1. QED BY <2>0, <2>3, ChainPasses
      <4>2. ~steps[3][1]
        BY <4>1
      <4>3. QED BY <4>2
    <3>3. r.checks \in [Checks -> Verdicts]
      BY <3>2, ReportsHaveVerdicts DEF SessionInv
    <3>4. answer'.code \in Codes /\ answer'.report.checks \in [Checks -> Verdicts]
      BY <3>1, <3>3 DEF Codes
    <3>5. QED BY <1>0, <1>1, <2>1, <3>4, LimitersTyped
  <2>4. QED BY <2>2, <2>3
<1>7. ASSUME NEW limited \in BOOLEAN, GetProviders(limited) PROVE AnswersTyped'
  <2> DEFINE steps == <<Authenticated, <<limited, 429>>>>
  <2>1. Chain(steps) \in Codes
    <3>1. DOMAIN steps = 1..2 /\ \A i \in 1..2 : steps[i][2] \in Codes
      BY DEF Authenticated, Codes
    <3> HIDE DEF steps
    <3>2. QED BY <3>1, ChainAnswers
  <2>2. (IF Chain(steps) # 0 THEN Chain(steps) ELSE 200) \in Codes
    BY <2>1 DEF Codes
  <2>3. QED BY <1>0, <1>1, <1>7, <2>2, RespondTyped DEF GetProviders
<1>8. ASSUME NEW ip \in Ips, NEW u \in Callers, NEW completed \in BOOLEAN, NEW uuid \in BOOLEAN,
             PostAttestation(ip, u, completed, uuid)
      PROVE  AnswersTyped'
  <2> DEFINE first == <<Authenticated, <<u = NoUser, 401>>, <<~completed, 403>>>>
             admission == Chain(first)
             steps == <<<<admission # 0, admission>>, <<opHits[<<ip, u>>] >= OpMax, 429>>,
                        <<~uuid, 400>>, <<TRUE, 404>>>>
  <2>1. admission \in Codes
    <3>1. DOMAIN first = 1..3 /\ \A i \in 1..3 : first[i][2] \in Codes
      BY DEF Authenticated, Codes
    <3> HIDE DEF first
    <3>2. QED BY <3>1, ChainAnswers
  <2>2. /\ Respond(Chain(steps)) /\ UNCHANGED <<privy, hits>>
        /\ CountOp(ip, u) \/ UNCHANGED opHits
    BY <1>8 DEF PostAttestation
  <2> HIDE DEF admission
  <2>3. Chain(steps) \in Codes
    <3>1. DOMAIN steps = 1..4 /\ \A i \in 1..4 : steps[i][2] \in Codes
      BY <2>1 DEF Codes
    <3> HIDE DEF steps
    <3>2. QED BY <3>1, ChainAnswers
  <2> HIDE DEF steps
  <2>4. answer'.code \in Codes /\ answer'.report.checks \in [Checks -> Verdicts]
    BY <2>2, <2>3, RespondTyped
  <2>5. CountsOf(opHits', Ips \X Callers)
    BY <1>1, <2>2, LimitersTyped DEF CountsOf
  <2>6. QED BY <1>0, <1>1, <2>2, <2>4, <2>5
<1>9. ASSUME NEW ip \in Ips, NEW u \in Callers, NEW valid \in BOOLEAN, NEW done \in BOOLEAN,
             PostRevoke(ip, u, valid, done)
      PROVE  AnswersTyped'
  <2> DEFINE steps == <<Authenticated, <<opHits[<<ip, u>>] >= OpMax, 429>>, <<~valid, 400>>,
                        <<u = NoUser, 500>>>>
  <2>1. Chain(steps) \in Codes
    <3>1. DOMAIN steps = 1..4 /\ \A i \in 1..4 : steps[i][2] \in Codes
      BY DEF Authenticated, Codes
    <3> HIDE DEF steps
    <3>2. QED BY <3>1, ChainAnswers
  <2>2. (IF Chain(steps) # 0 THEN Chain(steps) ELSE IF done THEN 200 ELSE 400) \in Codes
    BY <2>1 DEF Codes
  <2>3. /\ Respond(IF Chain(steps) # 0 THEN Chain(steps) ELSE IF done THEN 200 ELSE 400)
        /\ UNCHANGED <<privy, hits>> /\ (CountOp(ip, u) \/ UNCHANGED opHits)
    BY <1>9 DEF PostRevoke
  <2> HIDE DEF steps
  <2>4. QED BY <1>0, <1>1, <2>2, <2>3, RespondTyped, LimitersTyped
<1>10. ASSUME NEW u \in Callers, NEW valid \in BOOLEAN, NEW code \in {200, 400, 404},
              ReadAttestation(u, valid, code)
       PROVE  AnswersTyped'
  <2> DEFINE steps == <<Authenticated, <<~valid, 400>>, <<u = NoUser, 500>>, <<TRUE, code>>>>
  <2>1. Chain(steps) \in Codes
    <3>1. DOMAIN steps = 1..4 /\ \A i \in 1..4 : steps[i][2] \in Codes
      BY DEF Authenticated, Codes
    <3> HIDE DEF steps
    <3>2. QED BY <3>1, ChainAnswers
  <2>2. QED BY <1>0, <1>1, <1>10, <2>1, RespondTyped DEF ReadAttestation
<1>11. ASSUME NEW uuid \in BOOLEAN, EstimateCost(uuid) PROVE AnswersTyped'
  <2> DEFINE steps == <<Authenticated, <<~uuid, 400>>, <<TRUE, 404>>>>
  <2>1. Chain(steps) \in Codes
    <3>1. DOMAIN steps = 1..3 /\ \A i \in 1..3 : steps[i][2] \in Codes
      BY DEF Authenticated, Codes
    <3> HIDE DEF steps
    <3>2. QED BY <3>1, ChainAnswers
  <2>2. QED BY <1>0, <1>1, <1>11, <2>1, RespondTyped DEF EstimateCost
<1>12. QED BY <1>2, <1>3, <1>4, <1>5, <1>6, <1>7, <1>8, <1>9, <1>10, <1>11 DEF GatewayNext

LEMMA AnswersTypedInit == GatewayInit => AnswersTyped
<1> SUFFICES ASSUME GatewayInit PROVE AnswersTyped
  OBVIOUS
<1>1. privy \in BOOLEAN
  BY DEF GatewayInit
<1>2. CountsOf(hits, Ips) /\ CountsOf(opHits, Ips \X Callers)
  BY LimiterAssumption DEF GatewayInit, Unused, CountsOf
<1>3. answer.code \in Codes /\ answer.report.checks \in [Checks -> Verdicts]
  BY DEF GatewayInit, Codes, NoReport, Verdicts
<1>4. QED BY <1>1, <1>2, <1>3 DEF AnswersTyped

\* Every variable of the server keeps its type, and what a row of a table refers
\* to is there.
THEOREM ServerTypeCorrect == Spec => []TypeOK
<1> DEFINE Typed == /\ SessionInv /\ AnswersTyped /\ LifeTypeOK
                    /\ TenancyTyped /\ ReferencesThere
<1>1. Init => Typed
  BY SessionInit, AnswersTypedInit, LifeTypesInit, TenancyTypedInit DEF Init
<1>2. Typed /\ [Next]_serverVars => Typed'
  BY SessionStep, AnswersTypedStep, LifeTypesStep, TenancyTypedStep, ReferencesStep, Parts
<1>3. Typed => GatewayTypeOK /\ LifeTypeOK /\ TenancyTypeOK
  <2>1. SessionInv /\ AnswersTyped => GatewayTypeOK
    BY DEF SessionInv, SessionRows, AnswersTyped, CountsOf, GatewayTypeOK, KycTypeOK, Codes
  <2>2. QED BY <2>1, TenancyTypes
<1>4. AccountsInv => AccountsTypeOK
  BY DEF AccountsInv
<1>5. (Typed /\ AccountsInv /\ SchemasInv /\ BatchesInv) => TypeOK
  BY <1>3, <1>4, SchemasTypes, BatchesTypes DEF TypeOK
<1> HIDE DEF Typed
<1>6. Spec => []Typed
  BY <1>1, <1>2, PTL DEF Spec
<1>7. QED BY <1>5, <1>6, ServerAccounts, ServerSchemas, ServerBatches, PTL
=============================================================================
