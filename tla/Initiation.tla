----------------------------- MODULE Initiation -----------------------------
(***************************************************************************)
(* engines/initiation.py and ValidationEngine.validate_participation():    *)
(* two engines that judge one participation record.  The first decides     *)
(* whether a participation is admitted; the second validates a record that *)
(* carries such a decision, now or long after it was taken.                *)
(*                                                                         *)
(* Both read maps of authority, evidence and uncertainty records that the  *)
(* caller passes in, and both take whatever is in the maps at that moment. *)
(* Records are immutable in the code: that one changes means that the      *)
(* caller's map holds another one under its id, or none.                   *)
(***************************************************************************)
EXTENDS Naturals, FiniteSets

CONSTANTS
    Authority,     \* authority ids
    NoAuthority,   \* authority_id is None
    Evidence,      \* evidence ids
    Uncertainty,   \* uncertainty ids
    Role           \* role levels, PR0 to PR6

ASSUME InitiationAssumption ==
    /\ NoAuthority \notin Authority
    /\ Role \subseteq 0 .. 6

InitiationDecision ==
    {"ADMIT", "ADMIT_WITH_LIMITS", "ADMIT_PROVISIONALLY", "DEFER",
     "REQUIRE_REMEDIATION", "REQUIRE_REASSESSMENT", "DENY", "RENEW"}

\* What a map can say of an id.  A missing authority or piece of evidence is the
\* worst there is; a missing uncertainty is treated better than a blocking one.
AuthorityStatus == {"missing", "inactive", "active"}
EvidenceStatus == {"missing", "unverified", "verified"}
UncertaintyStatus == {"missing", "blocking", "harmless"}

ParticipationRecord ==
    [requested : Role, admitted : Role, decision : InitiationDecision,
     authority : Authority \union {NoAuthority},
     evidence : SUBSET Evidence, uncertainty : SUBSET Uncertainty]

VARIABLES
    record,        \* the participation record
    authorities,   \* what the caller's maps hold under each id
    evidence,
    uncertainties

maps == <<authorities, evidence, uncertainties>>
vars == <<record, maps>>

-----------------------------------------------------------------------------
(* InitiationDecisionEngine.decide().                                      *)

\* Mutated form of AuthorityActive: an authority that is known is enough.
AuthorityKnownOnly(p) ==
    p.authority # NoAuthority /\ authorities[p.authority] # "missing"

AuthorityActive(p) ==
    p.authority # NoAuthority /\ authorities[p.authority] = "active"

\* Mutated form of EvidenceSound: one verified record is enough.
EvidenceSoundAny(p) == \E e \in p.evidence : evidence[e] = "verified"

EvidenceSound(p) == \A e \in p.evidence : evidence[e] = "verified"

Blocked(p) == \E u \in p.uncertainty : uncertainties[u] = "blocking"
Unresolved(p) == \E u \in p.uncertainty : uncertainties[u] = "missing"

\* Mutated form of Decision: evidence that does not verify is asked for again
\* only where no uncertainty is open, so the later stage overrides the earlier.
DecisionUncertaintyFirst(p) ==
    IF ~AuthorityActive(p)             THEN "DENY"
    ELSE IF p.admitted > p.requested   THEN "REQUIRE_REASSESSMENT"
    ELSE IF p.evidence = {}            THEN "DEFER"
    ELSE IF Blocked(p)                 THEN "REQUIRE_REMEDIATION"
    ELSE IF Unresolved(p)              THEN "ADMIT_PROVISIONALLY"
    ELSE IF ~EvidenceSound(p)          THEN "REQUIRE_REMEDIATION"
    ELSE IF p.admitted < p.requested   THEN "ADMIT_WITH_LIMITS"
    ELSE "ADMIT"

\* The first failure decides.
Decision(p) ==
    IF ~AuthorityActive(p)             THEN "DENY"
    ELSE IF p.admitted > p.requested   THEN "REQUIRE_REASSESSMENT"
    ELSE IF p.evidence = {}            THEN "DEFER"
    ELSE IF ~EvidenceSound(p)          THEN "REQUIRE_REMEDIATION"
    ELSE IF Blocked(p)                 THEN "REQUIRE_REMEDIATION"
    ELSE IF Unresolved(p)              THEN "ADMIT_PROVISIONALLY"
    ELSE IF p.admitted < p.requested   THEN "ADMIT_WITH_LIMITS"
    ELSE "ADMIT"

-----------------------------------------------------------------------------
(* ValidationEngine.validate_participation().                              *)

Admitting == {"ADMIT", "ADMIT_WITH_LIMITS", "ADMIT_PROVISIONALLY", "RENEW"}

AuthorityKnown(p) ==
    p.authority # NoAuthority /\ authorities[p.authority] # "missing"

\* The numbers of the findings, MS-RUNTIME-FIND-0201 to 0207.
Findings(p) ==
    {n \in 201 .. 207 :
       \/ n = 201 /\ p.decision \in Admitting /\ ~AuthorityKnown(p)
       \/ n = 202 /\ p.decision \in Admitting /\ p.evidence = {}
       \/ n = 203 /\ \E e \in p.evidence : evidence[e] = "missing"
       \/ n = 204 /\ \E e \in p.evidence : evidence[e] = "unverified"
       \/ n = 205 /\ p.admitted > p.requested
       \/ n = 206 /\ \E u \in p.uncertainty : uncertainties[u] = "missing"
       \/ n = 207 /\ p.decision \in Admitting
                  /\ \E u \in p.uncertainty : uncertainties[u] = "blocking"}

\* Every finding has one of the dispositions that make a result invalid.
Valid(p) == Findings(p) = {}

-----------------------------------------------------------------------------
(* MorningStarRuntimeApi.evaluate_initiation().                            *)

\* Mutated form of ReasonCodes: one code for all evidence that is not sound.
ReasonCodesSummed(p) ==
    CASE Decision(p) = "DENY" ->
           {IF AuthorityKnown(p) THEN "AUTHORITY_INACTIVE" ELSE "AUTHORITY_MISSING"}
      [] Decision(p) = "REQUIRE_REASSESSMENT" -> {"ADMITTED_ROLE_EXCEEDS_REQUEST"}
      [] Decision(p) = "DEFER" -> {"EVIDENCE_MISSING"}
      [] Decision(p) = "REQUIRE_REMEDIATION" ->
           {IF EvidenceSound(p) THEN "BLOCKING_UNCERTAINTY" ELSE "EVIDENCE_NOT_VERIFIED"}
      [] Decision(p) = "ADMIT_PROVISIONALLY" -> {"UNCERTAINTY_UNRESOLVED"}
      [] Decision(p) = "ADMIT_WITH_LIMITS" -> {"ROLE_SCOPE_LIMITED"}
      [] OTHER -> {}

\* The codes the decision is taken with.  Evidence alone may have two.
ReasonCodes(p) ==
    CASE Decision(p) = "DENY" ->
           {IF AuthorityKnown(p) THEN "AUTHORITY_INACTIVE" ELSE "AUTHORITY_MISSING"}
      [] Decision(p) = "REQUIRE_REASSESSMENT" -> {"ADMITTED_ROLE_EXCEEDS_REQUEST"}
      [] Decision(p) = "DEFER" -> {"EVIDENCE_MISSING"}
      [] Decision(p) = "REQUIRE_REMEDIATION" /\ ~EvidenceSound(p) ->
           {IF evidence[e] = "missing" THEN "EVIDENCE_RECORD_MISSING"
            ELSE "EVIDENCE_NOT_VERIFIED" : e \in {d \in p.evidence : evidence[d] # "verified"}}
      [] Decision(p) = "REQUIRE_REMEDIATION" /\ EvidenceSound(p) ->
           {"BLOCKING_UNCERTAINTY"}
      [] Decision(p) = "ADMIT_PROVISIONALLY" -> {"UNCERTAINTY_UNRESOLVED"}
      [] Decision(p) = "ADMIT_WITH_LIMITS" -> {"ROLE_SCOPE_LIMITED"}
      [] OTHER -> {}

\* The answer: whether it reports success, and its failures.  The other codes
\* have none, although the catalogue has one for an inactive authority.
Succeeds(p) ==
    Decision(p) \in {"ADMIT", "ADMIT_WITH_LIMITS", "ADMIT_PROVISIONALLY"}

FailureOf ==
    [AUTHORITY_MISSING |-> "AUTHORITY_001", EVIDENCE_MISSING |-> "EVIDENCE_001",
     EVIDENCE_NOT_VERIFIED |-> "EVIDENCE_002", BLOCKING_UNCERTAINTY |-> "UNCERTAINTY_002"]

Failures(p) == {FailureOf[c] : c \in ReasonCodes(p) \intersect DOMAIN FailureOf}

-----------------------------------------------------------------------------
(* The caller.                                                             *)

\* A record as it is drafted (DEFER is the default) or as it was renewed.
Init ==
    /\ record \in ParticipationRecord
    /\ record.decision \in {"DEFER", "RENEW"}
    /\ authorities \in [Authority -> AuthorityStatus]
    /\ evidence \in [Evidence -> EvidenceStatus]
    /\ uncertainties \in [Uncertainty -> UncertaintyStatus]

\* The caller asks for a decision and records it.
Decide ==
    /\ record' = [record EXCEPT !.decision = Decision(record)]
    /\ UNCHANGED maps

ChangeAuthority(a, status) ==
    /\ authorities' = [authorities EXCEPT ![a] = status]
    /\ UNCHANGED <<record, evidence, uncertainties>>

ChangeEvidence(e, status) ==
    /\ evidence' = [evidence EXCEPT ![e] = status]
    /\ UNCHANGED <<record, authorities, uncertainties>>

ChangeUncertainty(u, status) ==
    /\ uncertainties' = [uncertainties EXCEPT ![u] = status]
    /\ UNCHANGED <<record, authorities, evidence>>

Next ==
    \/ Decide
    \/ \E a \in Authority, s \in AuthorityStatus : ChangeAuthority(a, s)
    \/ \E e \in Evidence, s \in EvidenceStatus : ChangeEvidence(e, s)
    \/ \E u \in Uncertainty, s \in UncertaintyStatus : ChangeUncertainty(u, s)

Spec == Init /\ [][Next]_vars

-----------------------------------------------------------------------------
(* Properties.                                                             *)

TypeOK ==
    /\ record \in ParticipationRecord
    /\ authorities \in [Authority -> AuthorityStatus]
    /\ evidence \in [Evidence -> EvidenceStatus]
    /\ uncertainties \in [Uncertainty -> UncertaintyStatus]

FullyAdmitting == {"ADMIT", "ADMIT_WITH_LIMITS"}

\* The two engines are written apart and read the same records: a decision of
\* full admission always validates, and a recorded admission that validates
\* under an active authority would be admitted in full again, however old the
\* decision is and whatever happened to the records since.
EnginesAgree ==
    /\ Decision(record) \in FullyAdmitting =>
         Valid([record EXCEPT !.decision = Decision(record)])
    /\ (record.decision \in Admitting /\ Valid(record) /\ AuthorityActive(record)) =>
         Decision(record) \in FullyAdmitting

\* A provisional admission never validates, so that it cannot pass for a full
\* one; the reason is always its open uncertainty and never another finding.
ProvisionalIsUnresolved ==
    Decision(record) = "ADMIT_PROVISIONALLY" =>
      Findings([record EXCEPT !.decision = "ADMIT_PROVISIONALLY"]) = {206}

\* The finding that names the same ground as a failure of the API.
FindingOf ==
    [AUTHORITY_001 |-> 201, EVIDENCE_001 |-> 202,
     EVIDENCE_002 |-> 204, UNCERTAINTY_002 |-> 207]

\* The API names its grounds by a table of its own: each failure of an answer is
\* one the validator would find if the participation were admitted all the same,
\* no answer with a failure reports success, and one that is unsuccessful without
\* a failure has an inactive authority, a role that exceeds the request, or
\* evidence of which the record is missing.
FailuresAreFound ==
    LET found == Findings([record EXCEPT !.decision = "ADMIT"])
    IN  /\ \A f \in Failures(record) : FindingOf[f] \in found
        /\ Failures(record) # {} => ~Succeeds(record)
        /\ (~Succeeds(record) /\ Failures(record) = {}) =>
             ~AuthorityActive(record) \/ found \intersect {203, 205} # {}

Favour(decision) ==
    CASE decision \in FullyAdmitting         -> 2
      [] decision = "ADMIT_PROVISIONALLY"    -> 1
      [] OTHER                               -> 0

\* What a map says of an id after a loss or a lapse, and before: any record may
\* get lost, a blocking uncertainty's too, and any uncertainty become blocking.
Worse(s, t) ==
    \/ s \in {t, "missing", "blocking"}
    \/ s = "inactive" /\ t = "active"
    \/ s = "unverified" /\ t = "verified"

\* Losses and lapses of authority, evidence and uncertainty records, one or
\* several together, turn a decision into a more favourable one in one case
\* only: the record of every uncertainty that blocked the admission is lost.  Then
\* REQUIRE_REMEDIATION becomes ADMIT_PROVISIONALLY, never a full admission.
OnlyLostBlockersPromote ==
    [][(/\ UNCHANGED record
        /\ \A a \in Authority : Worse(authorities'[a], authorities[a])
        /\ \A e \in Evidence : Worse(evidence'[e], evidence[e])
        /\ \A u \in Uncertainty : Worse(uncertainties'[u], uncertainties[u]))
       => (Favour(Decision(record)') > Favour(Decision(record))
             <=> /\ Blocked(record) /\ ~Blocked(record)'
                 /\ Decision(record)' = "ADMIT_PROVISIONALLY")]_vars
=============================================================================
