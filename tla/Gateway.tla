------------------------------ MODULE Gateway ------------------------------
(***************************************************************************)
(* The KYC and attestation routers: the middleware a request passes, in    *)
(* its order, and the handler that ends it.                                *)
(*                                                                         *)
(* A request is one step.  Its middleware waits for Privy and for the      *)
(* users table, and from there to the answer nothing that is shared with   *)
(* another request is read before an await and used after it.  The user a  *)
(* token stands for is a row of the users table, or NoUser: authentication *)
(* lets a request pass whose Privy account has no row.  The two routers    *)
(* each have a KycService of their own, and sessions are only created in   *)
(* that of the KYC router.                                                 *)
(***************************************************************************)
EXTENDS KycSessions, Limiter, Sequences

CONSTANTS KycMax,   \* requests per hour and address that kycLimiter lets pass
          OpMax     \* requests per hour, address and user that
                  \* applyAttestationRateLimit lets pass

ASSUME GatewayAssumption == KycMax \in Nat /\ OpMax \in Nat

VARIABLES
    privy,     \* Privy is configured
    hits,      \* requests counted by kycLimiter, by address
    opHits,    \* requests counted by applyAttestationRateLimit, by address and user
    answer,    \* the last answer: its code, and the report it carries
    caller     \* who was authenticated when a session was created

vars == <<kycVars, privy, hits, opHits, answer, caller>>

Callers == Users \cup {NoUser}
NoReport == [status |-> "none", risk |-> "none", checks |-> [k \in Checks |-> "not_applicable"]]

GatewayInit ==
    /\ KycInit
    /\ privy \in BOOLEAN
    /\ hits = Unused(Ips)
    /\ opHits = Unused(Ips \X Callers)
    /\ answer = [code |-> 0, report |-> NoReport]
    /\ caller = [s \in Sessions |-> NoUser]

Respond(code) == answer' = [code |-> code, report |-> NoReport]
\* The handlers in front of the last one, each with what makes it refuse a
\* request: the code of the first that refuses, 0 when all call next().
Chain(steps) ==
    LET refusing == {i \in DOMAIN steps : steps[i][1]}
    IN IF refusing = {} THEN 0 ELSE steps[CHOOSE i \in refusing : \A j \in refusing : i <= j][2]

\* Every request reaches authenticatePrivy first.
Authenticated == <<~privy, 503>>
\* kycLimiter counts what passed authentication, whatever becomes of it.
CountKyc(ip) == IF privy THEN Countable(hits, ip) /\ hits' = Counted(hits, ip)
                         ELSE UNCHANGED hits
\* Requests without an internal user share the key "anonymous" of their address.
CountOp(ip, u) == Countable(opHits, <<ip, u>>) /\ opHits' = Counted(opHits, <<ip, u>>)

\* A token that Privy does not accept, or an error while it is asked.  The
\* placeholder in privyService.ts accepts none.
Unauthenticated ==
    /\ privy
    /\ \E code \in {401, 500} : Respond(code)
    /\ UNCHANGED <<kycVars, privy, hits, opHits, caller>>

-----------------------------------------------------------------------------
(* /api/v1/kyc *)

Owner_Claimed(u, claimed) == IF claimed = NoUser THEN u ELSE claimed
\* The body may carry a user id; the id of the authenticated user follows it.
Owner(u, claimed) == u

\* POST /sessions.  Reading the id of a user that is not there throws before
\* the service is called, and so does choosing a provider when none is enabled.
PostSession(ip, u, claimed, request, valid, s) ==
    LET code == Chain(<<Authenticated, <<hits[ip] >= KycMax, 429>>, <<~valid, 400>>,
                        <<u = NoUser, 500>>, <<Chosen(request) = {}, 500>>>>)
    IN /\ ~Exists(s)
       /\ CountKyc(ip)
       /\ IF code # 0
          THEN Respond(code) /\ UNCHANGED <<kycVars, caller>>
          ELSE \E p \in Chosen(request) :
                 /\ Store(s, Owner(u, claimed), p)
                 /\ Respond(IF p \in enabled THEN 201 ELSE 500)
                 /\ caller' = [caller EXCEPT ![s] = u]
                 /\ UNCHANGED enabled
       /\ UNCHANGED <<privy, opHits>>

\* POST /sessions/:sessionId/verify.  A caller knows the ids that were answered;
\* one that no provider has a session for is refused.
PostVerify(ip, s) ==
    LET code == Chain(<<Authenticated, <<hits[ip] >= KycMax, 429>>, <<~Exists(s), 500>>>>)
    IN /\ Exists(s) => s \in told
       /\ CountKyc(ip)
       /\ IF code # 0
          THEN Respond(code) /\ UNCHANGED kycVars
          ELSE /\ Processing(s)
               /\ \E r \in Reports(session[s].provider) :
                     answer' = [code |-> 200, report |-> r]
               /\ UNCHANGED <<enabled, told>>
       /\ UNCHANGED <<privy, opHits, caller>>

\* GET /providers and GET /providers/health, within the general rate limit.
GetProviders(limited) ==
    LET code == Chain(<<Authenticated, <<limited, 429>>>>)
    IN /\ Respond(IF code # 0 THEN code ELSE 200)
       /\ UNCHANGED <<kycVars, privy, hits, opHits, caller>>

-----------------------------------------------------------------------------
(* /api/v1/attestations *)

\* POST /: the users whose row says that their KYC is completed get past
\* requireKYCCompletion.  The ids KycService makes are no UUIDs, and no UUID
\* is the id of a session, so that the lookup never finds one and nothing
\* behind it is reached.
PostAttestation(ip, u, completed, uuid) ==
    LET admission == Chain(<<Authenticated, <<u = NoUser, 401>>, <<~completed, 403>>>>)
        code == Chain(<<<<admission # 0, admission>>, <<opHits[<<ip, u>>] >= OpMax, 429>>,
                        <<~uuid, 400>>, <<TRUE, 404>>>>)
    IN /\ Respond(code)
       /\ IF admission = 0 THEN CountOp(ip, u) ELSE UNCHANGED opHits
       /\ UNCHANGED <<kycVars, privy, hits, caller>>

\* POST /revoke.  The request handed to AttestationService names its author,
\* which throws when there is none.
PostRevoke(ip, u, valid, done) ==
    LET code == Chain(<<Authenticated, <<opHits[<<ip, u>>] >= OpMax, 429>>, <<~valid, 400>>,
                        <<u = NoUser, 500>>>>)
    IN /\ Respond(IF code # 0 THEN code ELSE IF done THEN 200 ELSE 400)
       /\ IF privy THEN CountOp(ip, u) ELSE UNCHANGED opHits
       /\ UNCHANGED <<kycVars, privy, hits, caller>>

\* GET /:uid, POST /verify and GET /: the service is read first and its answer
\* logged with the id of the user, which throws when there is none.  GET
\* /health and GET /stats are registered after /:uid and taken for a uid that
\* is not valid.
ReadAttestation(u, valid, code) ==
    /\ Respond(Chain(<<Authenticated, <<~valid, 400>>, <<u = NoUser, 500>>, <<TRUE, code>>>>))
    /\ UNCHANGED <<kycVars, privy, hits, opHits, caller>>

\* POST /estimate-cost looks the session up as POST / does.
EstimateCost(uuid) ==
    /\ Respond(Chain(<<Authenticated, <<~uuid, 400>>, <<TRUE, 404>>>>))
    /\ UNCHANGED <<kycVars, privy, hits, opHits, caller>>

\* An hour has passed since the first request of a window.
KycWindowEnds(ip) ==
    /\ Open(hits, ip)
    /\ hits' = Reset(hits, ip)
    /\ UNCHANGED <<kycVars, privy, opHits, answer, caller>>

OpWindowEnds(ip, u) ==
    /\ Open(opHits, <<ip, u>>)
    /\ opHits' = Reset(opHits, <<ip, u>>)
    /\ UNCHANGED <<kycVars, privy, hits, answer, caller>>

GatewayNext ==
    \/ Unauthenticated
    \/ \E ip \in Ips, u \in Callers, claimed \in Callers, valid \in BOOLEAN, s \in Sessions :
          \E request \in Providers \cup {"unspecified", "unknown"} :
             PostSession(ip, u, claimed, request, valid, s)
    \/ \E ip \in Ips : KycWindowEnds(ip) \/ \E s \in Sessions : PostVerify(ip, s)
    \/ \E limited \in BOOLEAN : GetProviders(limited)
    \/ \E ip \in Ips, u \in Callers :
          \/ OpWindowEnds(ip, u)
          \/ \E yes, valid \in BOOLEAN : \/ PostAttestation(ip, u, yes, valid)
                                       \/ PostRevoke(ip, u, valid, yes)
    \/ \E u \in Callers, valid \in BOOLEAN, code \in {200, 400, 404} : ReadAttestation(u, valid, code)
    \/ \E uuid \in BOOLEAN : EstimateCost(uuid)

-----------------------------------------------------------------------------
GatewayTypeOK ==
    /\ KycTypeOK
    /\ privy \in BOOLEAN
    /\ hits \in [Ips -> 0..MaxCounted]
    /\ opHits \in [Ips \X Callers -> 0..MaxCounted]
    /\ answer.code \in {0, 200, 201, 400, 401, 403, 404, 429, 500, 503}
    /\ answer.report.checks \in [Checks -> Verdicts]
    /\ caller \in [Sessions -> Callers]

\* A session belongs to the user who was authenticated when it was created,
\* whatever user id the body of that request carried, and is nobody's never:
\* authenticatePrivy lets requests pass that have no internal user.
OwnerIsCaller ==
    \A s \in Sessions : Exists(s) => session[s].owner = caller[s] /\ caller[s] # NoUser

\* A verification is answered as completed exactly when no check of it failed,
\* and a completed one never carries more than a medium risk: three providers
\* derive status, checks and risk from a confidence and two screenings, each in
\* its own way, and an attestation is made from the status alone.
CompletedIffClean ==
    LET r == answer.report IN
    r # NoReport =>
        /\ r.status = "completed" <=> \A k \in Checks : r.checks[k] # "fail"
        /\ r.status = "completed" => r.risk \in {"low", "medium"}

\* createSession stores a session before its provider refuses it.  Nobody can
\* get such a session verified: it stays pending for as long as it is there.
RefusedStaysPending ==
    \A s \in Sessions : Exists(s) /\ session[s].provider \notin enabled
                            => session[s].status = "pending"

=============================================================================
