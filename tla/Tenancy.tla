------------------------------ MODULE Tenancy ------------------------------
(***************************************************************************)
(* Organizations, their members and projects, and the projects' API keys:  *)
(* the three services of services/project, the project router and the      *)
(* middleware that puts a request in the context of a project.             *)
(*                                                                         *)
(* Every operation of the services is one SQL statement or one transaction *)
(* and so one step, but for validateApiKey: it looks a key up, and updates *)
(* it in a statement of its own that asks nothing of what was looked up.   *)
(* Ids are UUIDs and not used again.  A statement the constraints of the   *)
(* tables refuse changes nothing, and is no step.                          *)
(***************************************************************************)
EXTENDS Limiter, FiniteSets

CONSTANTS Organizations, Members, Projects, Keys,
          Validations,   \* calls of validateApiKey in flight at a time
          RateLimits,    \* values of metadata.rateLimit, 0 for none
          DefaultLimit   \* requests per window when there is none

Roles == {"owner", "admin", "member"}
Fields == {"webhookUrl", "allowedOrigins", "customSettings"}

VARIABLES
    organization,  \* the status of an organization; "none" before its row, "gone" after
    member,        \* the rows of organization_members
    consent,       \* who founded an organization or accepted to join it as it is
    project,       \* the rows of projects: organization, status and rate limit
    settings,      \* the fields of project_settings that are not empty
    apiKey,        \* the rows of project_api_keys: project and status
    overdue,       \* the keys whose expires_at has passed
    validation,    \* where a call of validateApiKey is, and with which key
    requests,      \* requests the limiter of a project has counted, by project and address
    reply          \* the status code of the last answer

tenantVars == <<organization, member, consent, project, settings, apiKey, overdue,
                validation, requests, reply>>
organizationVars == <<organization, member, consent>>
keyVars == <<apiKey, overdue, validation>>

NoMember == [role |-> "none", status |-> "none"]
NoProject == [organization |-> "none", status |-> "none", rateLimit |-> 0]
NoKey == [project |-> "none", status |-> "none"]

TenancyInit ==
    /\ organization = [o \in Organizations |-> "none"]
    /\ member = [o \in Organizations |-> [u \in Members |-> NoMember]]
    /\ consent = {}
    /\ project = [p \in Projects |-> NoProject]
    /\ settings = [p \in Projects |-> {}]
    /\ apiKey = [k \in Keys |-> NoKey]
    /\ overdue = {}
    /\ validation = [v \in Validations |-> [at |-> "idle"]]
    /\ requests = Unused(Projects \X Ips)
    /\ reply = 0

\* The rows that are there.
IsOrganization(o) == organization[o] \notin {"none", "gone"}
IsProject(p) == project[p].status \notin {"none", "gone"}
IsKey(k) == apiKey[k].status \notin {"none", "gone"}

-----------------------------------------------------------------------------
(* OrganizationService *)

\* The organization and its owner, in one transaction.
CreateOrganization(o, u) ==
    /\ organization[o] = "none"
    /\ organization' = [organization EXCEPT ![o] = "active"]
    /\ member' = [member EXCEPT ![o][u] = [role |-> "owner", status |-> "active"]]
    /\ consent' = consent \cup {<<o, u>>}
    /\ UNCHANGED <<project, settings, keyVars, requests, reply>>

\* Any status the table takes, "deleted" too: the row stays.
UpdateOrganization(o, status) ==
    /\ IsOrganization(o)
    /\ organization' = [organization EXCEPT ![o] = status]
    /\ UNCHANGED <<member, consent, project, settings, keyVars, requests, reply>>

DeleteOrganization_KeepsKeys(o) ==
    /\ IsOrganization(o)
    /\ organization' = [organization EXCEPT ![o] = "gone"]
    /\ member' = [member EXCEPT ![o] = [u \in Members |-> NoMember]]
    /\ consent' = {c \in consent : c[1] # o}
    /\ project' = [p \in Projects |-> IF project[p].organization = o
                                      THEN [NoProject EXCEPT !.status = "gone"] ELSE project[p]]
    /\ settings' = [p \in Projects |-> IF project[p].organization = o THEN {} ELSE settings[p]]
    /\ UNCHANGED <<keyVars, requests, reply>>
\* The rows that refer to the organization go with it.
DeleteOrganization(o) ==
    LET projects == {p \in Projects : project[p].organization = o} IN
    /\ IsOrganization(o)
    /\ organization' = [organization EXCEPT ![o] = "gone"]
    /\ member' = [member EXCEPT ![o] = [u \in Members |-> NoMember]]
    /\ consent' = {c \in consent : c[1] # o}
    /\ project' = [p \in Projects |-> IF p \in projects THEN [NoProject EXCEPT !.status = "gone"]
                                                         ELSE project[p]]
    /\ settings' = [p \in Projects |-> IF p \in projects THEN {} ELSE settings[p]]
    /\ apiKey' = [k \in Keys |-> IF apiKey[k].project \in projects
                                 THEN [NoKey EXCEPT !.status = "gone"] ELSE apiKey[k]]
    /\ UNCHANGED <<overdue, validation, requests, reply>>

AddMember_Defaulted(o, u, role) ==
    /\ IsOrganization(o)
    /\ member[o][u] = NoMember
    /\ member' = [member EXCEPT ![o][u] = [role |-> role, status |-> "active"]]
    /\ UNCHANGED <<organization, consent, project, settings, keyVars, requests, reply>>
\* One row per organization and user.
AddMember(o, u, role) ==
    /\ IsOrganization(o)
    /\ member[o][u] = NoMember
    /\ member' = [member EXCEPT ![o][u] = [role |-> role, status |-> "invited"]]
    /\ UNCHANGED <<organization, consent, project, settings, keyVars, requests, reply>>

\* The last owner may be made a member, or removed.
UpdateMemberRole(o, u, role) ==
    /\ member[o][u] # NoMember
    /\ member' = [member EXCEPT ![o][u].role = role]
    /\ UNCHANGED <<organization, consent, project, settings, keyVars, requests, reply>>

RemoveMember(o, u) ==
    /\ member[o][u] # NoMember
    /\ member' = [member EXCEPT ![o][u] = NoMember]
    /\ consent' = consent \ {<<o, u>>}
    /\ UNCHANGED <<organization, project, settings, keyVars, requests, reply>>

AcceptInvitation(o, u) ==
    /\ member[o][u].status = "invited"
    /\ member' = [member EXCEPT ![o][u].status = "active"]
    /\ consent' = consent \cup {<<o, u>>}
    /\ UNCHANGED <<organization, project, settings, keyVars, requests, reply>>

-----------------------------------------------------------------------------
(* ProjectService, behind the project router *)

\* An organization that is not there fails the foreign key.
CreateProject(p, o) ==
    project' = IF ~IsOrganization(o) THEN project
               ELSE [project EXCEPT ![p] = [organization |-> o, status |-> "active", rateLimit |-> 0]]

PostProject(p, o, valid) ==
    /\ project[p] = NoProject
    /\ reply' = IF ~valid THEN 400 ELSE IF ~IsOrganization(o) THEN 500 ELSE 201
    /\ IF valid THEN CreateProject(p, o) ELSE UNCHANGED project
    /\ UNCHANGED <<organizationVars, settings, keyVars, requests>>

\* GET /:id
GetProject(p) ==
    /\ reply' = IF IsProject(p) THEN 200 ELSE 404
    /\ UNCHANGED <<organizationVars, project, settings, keyVars, requests>>

\* GET /organizations/:id/projects and, likewise, /:id/api-keys: of what is not
\* there the list is empty.
GetOrganizationProjects ==
    /\ reply' = 200
    /\ UNCHANGED <<organizationVars, project, settings, keyVars, requests>>

\* The fields of a project that may be updated, with any status and metadata.
UpdateProject(p, update) ==
    \E status \in {"active", "inactive", "suspended"}, limit \in RateLimits :
        project' = IF ~IsProject(p) THEN project
                   ELSE [project EXCEPT ![p].status = IF "status" \in update THEN status ELSE @,
                                        ![p].rateLimit = IF "metadata" \in update THEN limit ELSE @]

\* PUT /:id
PutProject(p, update) ==
    /\ reply' = IF update = {} THEN 400 ELSE IF ~IsProject(p) THEN 404 ELSE 200
    /\ UpdateProject(p, update)
    /\ UNCHANGED <<organizationVars, settings, keyVars, requests>>

\* A field that is not given is kept by COALESCE if it is the webhook; the two
\* others get an empty value before they are bound, and are emptied.
UpdateProjectSettings(p, given) ==
    settings' = IF IsProject(p) THEN [settings EXCEPT ![p] = given \cup (@ \cap {"webhookUrl"})]
                                ELSE settings

\* PUT /:id/settings
PutSettings(p, given) ==
    /\ reply' = IF IsProject(p) THEN 200 ELSE 404
    /\ UpdateProjectSettings(p, given)
    /\ UNCHANGED <<organizationVars, project, keyVars, requests>>

-----------------------------------------------------------------------------
(* ApiKeyService *)

\* A failed insert is a DatabaseError.
CreateApiKey(k, p) ==
    apiKey' = IF ~IsProject(p) THEN apiKey
              ELSE [apiKey EXCEPT ![k] = [project |-> p, status |-> "active"]]

\* POST /:id/api-keys
PostApiKey(k, p, valid) ==
    /\ apiKey[k] = NoKey
    /\ reply' = IF ~valid THEN 400 ELSE IF ~IsProject(p) THEN 500 ELSE 201
    /\ IF valid THEN CreateApiKey(k, p) ELSE UNCHANGED apiKey
    /\ UNCHANGED <<organizationVars, project, settings, overdue, validation, requests>>

\* Revoking asks nothing of the key's status.
RevokeApiKey(k) ==
    apiKey' = IF IsKey(k) THEN [apiKey EXCEPT ![k].status = "revoked"] ELSE apiKey

\* DELETE /:projectId/api-keys/:keyId: the project is not looked at.
DeleteApiKey(k) ==
    /\ reply' = IF IsKey(k) THEN 200 ELSE 404
    /\ RevokeApiKey(k)
    /\ UNCHANGED <<organizationVars, project, settings, overdue, validation, requests>>

\* expires_at passes, of a key that was created with one.
KeyExpires(k) ==
    /\ IsKey(k) /\ k \notin overdue
    /\ overdue' = overdue \cup {k}
    /\ UNCHANGED <<organizationVars, project, settings, apiKey, validation, requests, reply>>

\* requireApiKey: validateApiKey answers a boolean, whose projectId it then asks
\* for.  There is none, and no project with that id: whatever the answer, the
\* request fails as not found.
Refused == reply' = 404

\* Only a key that is active is found.
ValidateLookup(v, k) ==
    /\ validation[v].at = "idle"
    /\ IF apiKey[k].status = "active"
       THEN /\ validation' = [validation EXCEPT
                                ![v] = [at |-> IF k \in overdue THEN "expire" ELSE "use", key |-> k]]
            /\ UNCHANGED reply
       ELSE Refused /\ UNCHANGED validation
    /\ UNCHANGED <<organizationVars, project, settings, apiKey, overdue, requests>>

\* updateApiKeyStatus, of whatever status the row has by now.
ValidateExpire(v) ==
    LET k == validation[v].key IN
    /\ validation[v].at = "expire"
    /\ apiKey' = IF IsKey(k) THEN [apiKey EXCEPT ![k].status = "expired"] ELSE apiKey
    /\ validation' = [validation EXCEPT ![v] = [at |-> "idle"]]
    /\ Refused
    /\ UNCHANGED <<organizationVars, project, settings, overdue, requests>>

ValidateUse_WholeRow(v) ==
    LET k == validation[v].key IN
    /\ validation[v].at = "use"
    /\ apiKey' = IF IsKey(k) THEN [apiKey EXCEPT ![k].status = "active"] ELSE apiKey
    /\ validation' = [validation EXCEPT ![v] = [at |-> "idle"]]
    /\ Refused
    /\ UNCHANGED <<organizationVars, project, settings, overdue, requests>>
\* updateApiKeyLastUsed leaves the status alone; a row that has gone is an
\* exception, any other a valid key, even one revoked since.
ValidateUse(v) ==
    /\ validation[v].at = "use"
    /\ validation' = [validation EXCEPT ![v] = [at |-> "idle"]]
    /\ Refused
    /\ UNCHANGED <<organizationVars, project, settings, apiKey, overdue, requests>>

-----------------------------------------------------------------------------
(* MultiTenantMiddleware *)

\* A limit of 0 is taken for none.
Limit(p) == IF project[p].rateLimit = 0 THEN DefaultLimit ELSE project[p].rateLimit

\* The status of a refusal, 0 for next().
ProjectContext(p) == IF ~IsProject(p) THEN 404 ELSE IF project[p].status # "active" THEN 403 ELSE 0
\* A resource is of the project that the parameters name, or else the body.
ResourceIsolation(p, resource) == IF resource \in {p, "none"} THEN 0 ELSE 403

\* A request in the context of p passes the three handlers in this order; the
\* limiter counts what reaches it, also what it refuses.
TenantRequest(p, ip, resource) ==
    LET refused == IF ProjectContext(p) # 0 THEN ProjectContext(p) ELSE ResourceIsolation(p, resource)
    IN /\ IF refused # 0
          THEN reply' = refused /\ UNCHANGED requests
          ELSE /\ Countable(requests, <<p, ip>>)
               /\ requests' = Counted(requests, <<p, ip>>)
               /\ reply' = IF requests[<<p, ip>>] >= Limit(p) THEN 429 ELSE 200
       /\ UNCHANGED <<organizationVars, project, settings, keyVars>>

\* A request that names no project.
NoContext ==
    /\ reply' = 400
    /\ UNCHANGED <<organizationVars, project, settings, keyVars, requests>>

\* A window of a project's limiter ends.
WindowEnds(p, ip) ==
    /\ Open(requests, <<p, ip>>)
    /\ requests' = Reset(requests, <<p, ip>>)
    /\ UNCHANGED <<organizationVars, project, settings, keyVars, reply>>

OrganizationsNext ==
    \E o \in Organizations :
        \/ DeleteOrganization(o)
        \/ \E u \in Members : CreateOrganization(o, u)
        \/ \E status \in {"active", "suspended", "deleted"} : UpdateOrganization(o, status)

MembersNext ==
    \E o \in Organizations, u \in Members :
        \/ RemoveMember(o, u) \/ AcceptInvitation(o, u)
        \/ \E role \in Roles : AddMember(o, u, role) \/ UpdateMemberRole(o, u, role)

NewProject == \E p \in Projects, o \in Organizations, valid \in BOOLEAN : PostProject(p, o, valid)

ProjectsNext ==
    \/ NewProject \/ NoContext \/ GetOrganizationProjects
    \/ \E p \in Projects :
          \/ GetProject(p)
          \/ \E update \in SUBSET {"status", "metadata", "name"} : PutProject(p, update)
          \/ \E given \in SUBSET Fields : PutSettings(p, given)
          \/ \E ip \in Ips : \/ WindowEnds(p, ip)
                            \/ \E resource \in {p, "another", "none"} : TenantRequest(p, ip, resource)

KeysNext ==
    \/ NewProject
    \/ \E k \in Keys : \/ DeleteApiKey(k) \/ KeyExpires(k)
                       \/ \E p \in Projects, valid \in BOOLEAN : PostApiKey(k, p, valid)
                       \/ \E v \in Validations : ValidateLookup(v, k)
    \/ \E v \in Validations : ValidateExpire(v) \/ ValidateUse(v)

-----------------------------------------------------------------------------
TenancyTypeOK ==
    /\ organization \in [Organizations -> {"none", "active", "suspended", "deleted", "gone"}]
    /\ \A o \in Organizations, u \in Members :
          member[o][u] \in [role : Roles, status : {"invited", "active"}] \cup {NoMember}
    /\ \A p \in Projects :
          /\ project[p].status \in {"none", "active", "inactive", "suspended", "gone"}
          /\ settings[p] \in SUBSET Fields
          /\ IsProject(p) => IsOrganization(project[p].organization)
    /\ \A k \in Keys :
          /\ apiKey[k].status \in {"none", "active", "revoked", "expired", "gone"}
          /\ IsKey(k) => IsProject(apiKey[k].project)
    /\ \A v \in Validations : validation[v].at \in {"idle", "expire", "use"}

\* Who is an active member founded the organization or accepted to join it, and
\* has not been removed since: addMember alone makes nobody a member, and an
\* acceptance does not outlive the row it was given for.
ActiveByConsent ==
    \A o \in Organizations, u \in Members :
        member[o][u].status = "active" => <<o, u>> \in consent

\* Revoking a key is for good, whatever validations of it are under way: it is
\* not active again, and shows as something else only when a validation that
\* saw it expired comes to write that.
RevokedForGood ==
    [][\A k \in Keys : apiKey[k].status = "revoked" =>
          \/ apiKey'[k].status \in {"revoked", "gone"}
          \/ /\ apiKey'[k].status = "expired"
             /\ \E v \in Validations : validation[v].at = "expire" /\ validation[v].key = k]_apiKey
=============================================================================
