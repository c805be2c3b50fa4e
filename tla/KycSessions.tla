---------------------------- MODULE KycSessions ----------------------------
(***************************************************************************)
(* The sessions of a KycService and the three providers behind it.         *)
(*                                                                         *)
(* Every provider keeps its sessions in memory.  None of the awaits of the *)
(* service waits for anything but a settled promise, so that creating a    *)
(* session and verifying one are single steps.  The providers are mocks    *)
(* that draw a confidence and derive everything else from it; what is kept *)
(* of a result is what decides about the user: its status, its checks and  *)
(* its risk.                                                               *)
(***************************************************************************)
EXTENDS Naturals, FiniteSets

CONSTANTS Users,        \* rows of the users table that callers have
          Sessions,     \* session ids the generators of the providers return
          Confidences,  \* the confidences looked at
          Deployments   \* which providers are enabled, one set per environment

NoUser == "no user"
Providers == {"smile_identity", "onfido", "trulioo"}
Checks == {"document", "face", "address", "identity", "liveness", "sanctions", "pep"}
Verdicts == {"pass", "fail", "not_applicable"}

ASSUME DeploymentsAssumption == Deployments \subseteq SUBSET Providers

VARIABLES
    enabled,   \* the providers with an API key
    session,   \* the sessions that exist, with their owner, provider and status
    told       \* the session ids that were answered to a caller

kycVars == <<enabled, session, told>>

NoSession == [owner |-> NoUser, provider |-> "none", status |-> "none"]

KycInit ==
    /\ enabled \in Deployments
    /\ session = [s \in Sessions |-> NoSession]
    /\ told = {}

Priority == [smile_identity |-> 1, onfido |-> 2, trulioo |-> 3]
Exists(s) == session[s] # NoSession

\* The enabled provider of the lowest priority number, if there is one.
SelectProvider == {p \in enabled : \A q \in enabled : Priority[p] <= Priority[q]}

\* The provider a creation goes to: the one it names, known or not, or else
\* the selected one; none stands for the exception.
Chosen(request) == IF request = "unspecified" THEN SelectProvider ELSE {request} \cap Providers

Store_Told(s, u, p) ==
    /\ session' = [session EXCEPT ![s] = [owner |-> u, provider |-> p, status |-> "pending"]]
    /\ told' = told \cup {s}
\* The session is stored before its provider is asked, and a disabled one
\* then refuses: the caller gets an error and the session stays.
Store(s, u, p) ==
    /\ session' = [session EXCEPT ![s] = [owner |-> u, provider |-> p, status |-> "pending"]]
    /\ told' = IF p \in enabled THEN told \cup {s} ELSE told

-----------------------------------------------------------------------------
(* What the providers find *)

Verdict(passed) == IF passed THEN "pass" ELSE "fail"
Risk(c) == IF c > 90 THEN "low" ELSE IF c > 75 THEN "medium" ELSE "high"
Report(passed, risk, checks) ==
    [status |-> IF passed THEN "completed" ELSE "failed", risk |-> risk, checks |-> checks]

SmileIdentity(c) ==
    LET passed == c > 75 IN
    Report(passed, Risk(c),
           [k \in Checks |-> IF k \in {"address", "sanctions", "pep"} THEN "not_applicable"
                                                                      ELSE Verdict(passed)])

Onfido(c) ==
    LET passed == c > 85 IN
    Report(passed, Risk(c),
           [k \in Checks |-> IF k = "liveness" \/ (k = "address" /\ ~passed)
                             THEN "not_applicable" ELSE Verdict(passed)])

Trulioo_Unscreened(c, sanctionsHit, pepHit) ==
    Report(c > 80, IF sanctionsHit \/ pepHit THEN "critical" ELSE Risk(c),
           [k \in Checks |->
              CASE k \in {"address", "identity"} -> Verdict(c > 80)
                [] k = "sanctions" -> Verdict(~sanctionsHit)
                [] k = "pep" -> Verdict(~pepHit)
                [] OTHER -> "not_applicable"])
Trulioo(c, sanctionsHit, pepHit) ==
    LET passed == c > 80
        hit == sanctionsHit \/ pepHit
    IN Report(passed /\ ~hit, IF hit THEN "critical" ELSE Risk(c),
              [k \in Checks |->
                 CASE k \in {"address", "identity"} -> Verdict(passed)
                   [] k = "sanctions" -> Verdict(~sanctionsHit)
                   [] k = "pep" -> Verdict(~pepHit)
                   [] OTHER -> "not_applicable"])

\* What performVerification of a provider may return.
Reports(p) ==
    CASE p = "smile_identity" -> {SmileIdentity(c) : c \in Confidences \cap 70..99}
      [] p = "onfido" -> {Onfido(c) : c \in Confidences \cap 80..99}
      [] p = "trulioo" -> {Trulioo(c, hit[1], hit[2]) : c \in Confidences \cap 75..99,
                                                        hit \in BOOLEAN \X BOOLEAN}

\* A verification sets the status and nothing ever sets it further, so a
\* session that was verified is verified again when it is asked again.
Processing(s) == session' = [session EXCEPT ![s].status = "processing"]

KycTypeOK ==
    /\ enabled \in SUBSET Providers
    /\ session \in [Sessions -> [owner : Users \cup {NoUser}, provider : Providers \cup {"none"},
                                 status : {"none", "pending", "processing"}]]
    /\ told \in SUBSET Sessions
=============================================================================
