----------------------------- MODULE Lifecycle -----------------------------
(***************************************************************************)
(* The life of the server process: startServer, the health checks that use *)
(* the database pool while it serves, and shutdown.                        *)
(*                                                                         *)
(* shutdown is the handler of two signals, of uncaught exceptions and of   *)
(* unhandled rejections; each delivery is a call of its own, and a call    *)
(* whose closeDatabase rejects is an unhandled rejection itself.  Promises *)
(* and nextTick callbacks run before any timer or I/O: the steps that need *)
(* a turn of the event loop wait for Quiet.                                *)
(***************************************************************************)
EXTENDS Naturals, FiniteSets

CONSTANTS Deliveries,   \* signals, exceptions and rejections that call shutdown
          HealthChecks  \* GET /health requests in flight at a time

VARIABLES
    supabase,  \* Supabase is configured: no pool and no migrations at start
    boot,      \* the await startServer is at
    server,    \* the HTTP server
    pool,      \* the pg pool of config/database.ts
    exit,      \* how the process ended
    call,      \* where a call of shutdown is
    armed,     \* some call has set the timer that forces the exit
    check,     \* where a health check is
    leaked     \* a client of the pool was taken and is never given back

lifeVars == <<supabase, boot, server, pool, exit, call, armed, check, leaked>>

LifeInit ==
    /\ supabase \in BOOLEAN
    /\ boot = "database"
    /\ server = "none"
    /\ pool = "none"
    /\ exit = "running"
    /\ call = [d \in Deliveries |-> "none"]
    /\ armed = FALSE
    /\ check = [h \in HealthChecks |-> "idle"]
    /\ leaked = FALSE

Shutdowns == {d \in Deliveries : call[d] # "none"}
\* A connection is open while its request is handled and its client is there.
Connections == {h \in HealthChecks : check[h] \in {"database", "services"}}
\* The health checks that hold a client of the pool.
Clients == {h \in HealthChecks : check[h] \in {"database", "abandoned"}}
NoneTaken == Clients = {} /\ ~leaked

\* server.close calls its callbacks when the last connection has ended.
Drained == Connections = {}
\* Callbacks that run before the event loop turns: shutdown behind a resolved
\* serverPromise, the 'close' event, and the end of a pool nobody uses.
Queued(d) ==
    \/ call[d] = "rejected"
    \/ call[d] = "waiting" /\ server # "none"
    \/ call[d] = "closing" /\ Drained
    \/ call[d] = "ending" /\ NoneTaken
Quiet == \A d \in Deliveries : ~Queued(d)
Running == exit = "running"

-----------------------------------------------------------------------------
(* startServer *)

\* An error anywhere in startServer ends the process.
StartFails ==
    /\ Running /\ Quiet /\ server = "none"
    /\ boot = "attestations" \/ ~supabase
    /\ exit' = "failed"
    /\ UNCHANGED <<supabase, boot, server, pool, call, armed, check, leaked>>

\* initializeDatabase: a pool, one query and knex's migrations.
InitializeDatabase ==
    /\ Running /\ Quiet /\ boot = "database"
    /\ pool' = IF supabase THEN pool ELSE "open"
    /\ boot' = "migrations"
    /\ UNCHANGED <<supabase, server, exit, call, armed, check, leaked>>

RunMigrations ==
    /\ Running /\ Quiet /\ boot = "migrations"
    /\ boot' = "attestations"
    /\ UNCHANGED <<supabase, server, pool, exit, call, armed, check, leaked>>

\* attestationService.initialize is done: app.listen returns a server, which
\* may yet fail to bind its port.
Listen(bound) ==
    /\ Running /\ Quiet /\ boot = "attestations"
    /\ boot' = "started"
    /\ server' = IF bound THEN "listening" ELSE "unbound"
    /\ UNCHANGED <<supabase, pool, exit, call, armed, check, leaked>>

Startup == StartFails \/ InitializeDatabase \/ RunMigrations \/ \E bound \in BOOLEAN : Listen(bound)

-----------------------------------------------------------------------------
(* GET /health *)

\* checkDatabaseHealth makes the pool when there is none and takes a client.
HealthStart(h) ==
    /\ Running /\ Quiet /\ server = "listening" /\ check[h] = "idle"
    /\ pool' = IF pool = "none" THEN "open" ELSE pool
    /\ check' = [check EXCEPT ![h] = "database"]
    /\ UNCHANGED <<supabase, boot, server, exit, call, armed, leaked>>

\* No client was to be had, or both queries are answered and the client is
\* released; or one of them fails, which skips the release.  The attestation
\* service is asked next, whatever became of the database.
HealthQueried(h, fails) ==
    /\ Running /\ Quiet /\ check[h] \in {"database", "abandoned"}
    /\ check' = [check EXCEPT ![h] = IF @ = "database" THEN "services" ELSE "idle"]
    /\ leaked' = (leaked \/ fails)
    /\ UNCHANGED <<supabase, boot, server, pool, exit, call, armed>>

HealthAnswered(h) ==
    /\ Running /\ Quiet /\ check[h] = "services"
    /\ check' = [check EXCEPT ![h] = "idle"]
    /\ UNCHANGED <<supabase, boot, server, pool, exit, call, armed, leaked>>

\* The client goes away; the handler is not told and runs on.
HealthAbandoned(h) ==
    /\ Running /\ Quiet /\ check[h] \in {"database", "services"}
    /\ check' = [check EXCEPT ![h] = IF @ = "database" THEN "abandoned" ELSE "idle"]
    /\ UNCHANGED <<supabase, boot, server, pool, exit, call, armed, leaked>>

-----------------------------------------------------------------------------
(* shutdown *)

\* A signal, an uncaught exception or an unhandled rejection.
Deliver(d) ==
    /\ Running /\ Quiet /\ call[d] = "none"
    /\ call' = [call EXCEPT ![d] = "waiting"]
    /\ UNCHANGED <<supabase, boot, server, pool, exit, armed, check, leaked>>

Close_Unarmed(d) ==
    /\ Running /\ call[d] = "waiting" /\ server # "none"
    /\ server' = IF server = "listening" THEN "closing" ELSE server
    /\ call' = [call EXCEPT ![d] = "closing"]
    /\ UNCHANGED <<supabase, boot, pool, exit, armed, check, leaked>>
\* serverPromise has resolved: server.close, and the timer.
Close(d) ==
    /\ Running /\ call[d] = "waiting" /\ server # "none"
    /\ server' = IF server = "listening" THEN "closing" ELSE server
    /\ call' = [call EXCEPT ![d] = "closing"]
    /\ armed' = TRUE
    /\ UNCHANGED <<supabase, boot, pool, exit, check, leaked>>

\* 'close': the callbacks of all calls that wait for it run closeDatabase.  The
\* first to find the pool open ends it; to end it again rejects.
CloseDatabase ==
    \E first \in {d \in Deliveries : call[d] = "closing"} :
      /\ Running /\ Drained
      /\ server' = "closed"
      /\ pool' = IF pool = "open" THEN "ending" ELSE pool
      /\ call' = [d \in Deliveries |->
                    IF call[d] # "closing" THEN call[d]
                    ELSE IF pool = "none" THEN "knex"
                    ELSE IF pool = "open" /\ d = first THEN "ending" ELSE "rejected"]
      /\ UNCHANGED <<supabase, boot, exit, armed, check, leaked>>

PoolEnded_Unawaited(d) ==
    /\ Running /\ call[d] = "ending"
    /\ pool' = "none"
    /\ call' = [call EXCEPT ![d] = "knex"]
    /\ UNCHANGED <<supabase, boot, server, exit, armed, check, leaked>>
\* pool.end resolves when no client is taken any more.
PoolEnded(d) ==
    /\ Running /\ call[d] = "ending" /\ NoneTaken
    /\ pool' = "none"
    /\ call' = [call EXCEPT ![d] = "knex"]
    /\ UNCHANGED <<supabase, boot, server, exit, armed, check, leaked>>

\* knexInstance.destroy: the process exits, or the callback rejects.
KnexDestroyed(d) ==
    /\ Running /\ Quiet /\ call[d] = "knex"
    /\ \/ exit' = "ok" /\ UNCHANGED call
       \/ call' = [call EXCEPT ![d] = "rejected"] /\ UNCHANGED exit
    /\ UNCHANGED <<supabase, boot, server, pool, armed, check, leaked>>

\* The callback that rejected calls shutdown again.
Rejection(d) ==
    /\ Running /\ call[d] = "rejected"
    /\ call' = [call EXCEPT ![d] = "waiting"]
    /\ UNCHANGED <<supabase, boot, server, pool, exit, armed, check, leaked>>

\* Thirty seconds after server.close.
ForceClose ==
    /\ Running /\ Quiet /\ armed
    /\ exit' = "failed"
    /\ UNCHANGED <<supabase, boot, server, pool, call, armed, check, leaked>>

LifeNext ==
    \/ Startup
    \/ \E h \in HealthChecks : \/ HealthStart(h) \/ \E fails \in BOOLEAN : HealthQueried(h, fails)
                               \/ HealthAnswered(h) \/ HealthAbandoned(h)
    \/ \E d \in Deliveries : \/ Deliver(d) \/ Close(d) \/ PoolEnded(d)
                             \/ KnexDestroyed(d) \/ Rejection(d)
    \/ CloseDatabase \/ ForceClose

\* The process runs what is queued, and its timer fires at some turn of the
\* event loop when turns keep coming.  Nothing is assumed of the database, of
\* the chain or of the clients.
LifeFairness ==
    /\ \A d \in Deliveries : /\ WF_lifeVars(Close(d)) /\ WF_lifeVars(PoolEnded(d))
                             /\ WF_lifeVars(Rejection(d))
    /\ WF_lifeVars(CloseDatabase) /\ SF_lifeVars(ForceClose)

-----------------------------------------------------------------------------
LifeTypeOK ==
    /\ supabase \in BOOLEAN /\ armed \in BOOLEAN /\ leaked \in BOOLEAN
    /\ boot \in {"database", "migrations", "attestations", "started"}
    /\ server \in {"none", "unbound", "listening", "closing", "closed"}
    /\ pool \in {"none", "open", "ending"}
    /\ exit \in {"running", "ok", "failed"}
    /\ call \in [Deliveries -> {"none", "waiting", "closing", "ending", "knex", "rejected"}]
    /\ check \in [HealthChecks -> {"idle", "database", "services", "abandoned"}]

\* The process only reports success with its database pool ended, no client of
\* it taken or lost and no request cut off, however many calls of shutdown overlap and
\* whatever requests are in flight when they come.
CleanExit == exit = "ok" => pool = "none" /\ NoneTaken /\ Connections = {}

\* Whenever the event loop turns with a server there and a shutdown called, the
\* timer that forces the exit is set, however shutdowns overlap, reject and are
\* called again by their own rejection: no turn leaves the process without a way
\* out.
ShutdownIsTimed == Quiet /\ server # "none" /\ Shutdowns # {} => armed

\* "Force close after 30 seconds": when shutdown is called once the server is
\* there, and only once, the process ends although a query, a chain or a client
\* never answers.
SoleShutdownExits ==
    (server # "none" /\ Cardinality(Shutdowns) = 1) ~> (~Running \/ Cardinality(Shutdowns) > 1)
=============================================================================
