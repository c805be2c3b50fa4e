------------------------------- MODULE Server -------------------------------
(***************************************************************************)
(* The server: its life, the requests it answers while it lives, accounts  *)
(* and tenants in its database, and its attestation service, which has to  *)
(* find a valid default schema before the server listens.  A request is    *)
(* answered only by a process that listens, and what the routers remember  *)
(* lives in its memory.                                                    *)
(*                                                                         *)
(* These share nothing else, nor do the members of an organization, its    *)
(* projects and their keys.  To keep the state graph the sum of theirs     *)
(* rather than the product, a behaviour is about one of them: requests,    *)
(* batches or a part of the tables, in a server that has started and stays *)
(* up; schemas, before and after the start; or the life of a server.  It   *)
(* leaves the others as they were.                                         *)
(***************************************************************************)
EXTENDS Gateway, Lifecycle, Tenancy, Accounts, Schemas, Batches

VARIABLE about

serverVars == <<vars, lifeVars, tenantVars, accountVars, schemaVars, batchVars, about>>

\* What works on the database or the chain, in a server whose routers are left alone.
Tables == {"members", "projects", "keys", "accounts"}
OnChainWork == {"schemas", "batches"}

Init ==
    /\ GatewayInit /\ LifeInit /\ TenancyInit /\ AccountsInit /\ SchemasInit /\ BatchesInit
    /\ \/ about \in {"requests", "life"}
       \/ about \in Tables \cup OnChainWork /\ supabase /\ privy /\ enabled = Providers
    /\ about # "batches" => readable /\ arweave

TablesNext ==
    \/ /\ about \in Tables \ {"accounts"}
       /\ \/ OrganizationsNext
          \/ about = "members" /\ MembersNext
          \/ about = "projects" /\ ProjectsNext
          \/ about = "keys" /\ KeysNext
       /\ UNCHANGED accountVars
    \/ about = "accounts" /\ AccountsNext /\ UNCHANGED tenantVars

\* startServer goes on after initialize, or fails as it does.
StartupOf(outcome) == about = "schemas" /\ boot = "attestations" => service = outcome
ServerStarts ==
    \/ StartFails /\ StartupOf("failed")
    \/ InitializeDatabase \/ RunMigrations
    \/ \E bound \in BOOLEAN : Listen(bound) /\ StartupOf("ready")

Next ==
    /\ UNCHANGED about
    /\ \/ /\ server = "listening" /\ TablesNext
          /\ UNCHANGED <<vars, lifeVars, schemaVars, batchVars>>
       \/ /\ about = "requests" /\ server = "listening" /\ GatewayNext
          /\ UNCHANGED <<lifeVars, tenantVars, accountVars, schemaVars, batchVars>>
       \/ /\ about = "batches" /\ server = "listening" /\ BatchesNext
          /\ UNCHANGED <<vars, lifeVars, tenantVars, accountVars, schemaVars>>
       \/ /\ about = "schemas" /\ boot \in {"attestations", "started"} /\ Running /\ SchemasNext
          /\ UNCHANGED <<vars, lifeVars, tenantVars, accountVars, batchVars>>
       \/ /\ about # "life" /\ ServerStarts
          /\ UNCHANGED <<vars, tenantVars, accountVars, schemaVars, batchVars>>
       \/ /\ about = "life" /\ LifeNext
          /\ UNCHANGED <<vars, tenantVars, accountVars, schemaVars, batchVars>>

Spec == Init /\ [][Next]_serverVars /\ LifeFairness

TypeOK ==
    /\ GatewayTypeOK /\ LifeTypeOK /\ TenancyTypeOK /\ AccountsTypeOK
    /\ SchemasTypeOK /\ BatchesTypeOK
=============================================================================
