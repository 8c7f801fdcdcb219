--------------------------- MODULE InitiationProofs ---------------------------
(***************************************************************************)
(* What TLAPS proves of Initiation for any number of authorities, pieces   *)
(* of evidence, uncertainties and roles.                                   *)
(***************************************************************************)
EXTENDS Initiation, TLAPS

\* The fields of a record, and of one that carries another decision.
LEMMA RecordTypes ==
    ASSUME TypeOK
    PROVE  /\ record.requested \in 0 .. 6 /\ record.admitted \in 0 .. 6
           /\ record.decision \in InitiationDecision
           /\ record.authority \in Authority \union {NoAuthority}
           /\ record.evidence \subseteq Evidence
           /\ record.uncertainty \subseteq Uncertainty
           /\ \A d : /\ [record EXCEPT !.decision = d].decision = d
                     /\ [record EXCEPT !.decision = d].requested = record.requested
                     /\ [record EXCEPT !.decision = d].admitted = record.admitted
                     /\ [record EXCEPT !.decision = d].authority = record.authority
                     /\ [record EXCEPT !.decision = d].evidence = record.evidence
                     /\ [record EXCEPT !.decision = d].uncertainty = record.uncertainty
BY InitiationAssumption DEF TypeOK, ParticipationRecord

\* Each decision the engine takes is one a participation record may hold.
LEMMA DecisionType == Decision(record) \in InitiationDecision
BY DEF Decision, InitiationDecision

\* The record and the caller's maps keep their types.
THEOREM TypeCorrect == Spec => []TypeOK
<1>1. Init => TypeOK
  BY DEF Init, TypeOK
<1>2. TypeOK /\ [Next]_vars => TypeOK'
  <2> SUFFICES ASSUME TypeOK, [Next]_vars
               PROVE  TypeOK'
    OBVIOUS
  <2>1. CASE UNCHANGED vars
    BY <2>1 DEF vars, maps, TypeOK
  <2>2. CASE Decide
    <3>1. record' \in ParticipationRecord
      BY <2>2, DecisionType DEF Decide, TypeOK, ParticipationRecord
    <3> QED
      BY <2>2, <3>1 DEF Decide, maps, TypeOK
  <2>3. ASSUME NEW a \in Authority, NEW s \in AuthorityStatus, ChangeAuthority(a, s)
        PROVE  TypeOK'
    BY <2>3 DEF ChangeAuthority, TypeOK
  <2>4. ASSUME NEW e \in Evidence, NEW s \in EvidenceStatus, ChangeEvidence(e, s)
        PROVE  TypeOK'
    BY <2>4 DEF ChangeEvidence, TypeOK
  <2>5. ASSUME NEW u \in Uncertainty, NEW s \in UncertaintyStatus,
               ChangeUncertainty(u, s)
        PROVE  TypeOK'
    BY <2>5 DEF ChangeUncertainty, TypeOK
  <2> QED
    BY <2>1, <2>2, <2>3, <2>4, <2>5 DEF Next
<1> QED
  BY <1>1, <1>2, PTL DEF Spec

\* What a decision of full admission means, and a validation without findings.
LEMMA FullMeans ==
    ASSUME TypeOK
    PROVE  Decision(record) \in FullyAdmitting <=>
             /\ AuthorityActive(record)
             /\ record.admitted <= record.requested
             /\ record.evidence # {}
             /\ EvidenceSound(record) /\ ~Blocked(record) /\ ~Unresolved(record)
BY RecordTypes DEF Decision, FullyAdmitting

\* The decision of the one engine and the validation of the other agree.
THEOREM TheEnginesAgree == Spec => []EnginesAgree
<1>1. TypeOK => EnginesAgree
  <2> SUFFICES ASSUME TypeOK
               PROVE  EnginesAgree
    OBVIOUS
  <2>1. ASSUME Decision(record) \in FullyAdmitting
        PROVE  Valid([record EXCEPT !.decision = Decision(record)])
    <3> DEFINE p == [record EXCEPT !.decision = Decision(record)]
    <3>1. /\ p.authority = record.authority /\ p.evidence = record.evidence
          /\ p.uncertainty = record.uncertainty /\ p.admitted = record.admitted
          /\ p.requested = record.requested
      BY RecordTypes
    <3> HIDE DEF p
    <3>2. /\ AuthorityActive(record) /\ record.admitted <= record.requested
          /\ record.evidence # {}
          /\ EvidenceSound(record) /\ ~Blocked(record) /\ ~Unresolved(record)
      BY <2>1, FullMeans
    <3>3. AuthorityKnown(p)
      BY <3>1, <3>2 DEF AuthorityActive, AuthorityKnown
    <3>4. ~(p.admitted > p.requested) /\ p.evidence # {}
      BY <3>1, <3>2, RecordTypes
    <3>5. /\ \A e \in p.evidence : evidence[e] = "verified"
          /\ \A u \in p.uncertainty : /\ uncertainties[u] # "missing"
                                      /\ uncertainties[u] # "blocking"
      BY <3>1, <3>2 DEF EvidenceSound, Blocked, Unresolved
    <3>6. Findings(p) = {}
      BY <3>3, <3>4, <3>5 DEF Findings
    <3> QED
      BY <3>6 DEF Valid, p
  <2>2. ASSUME record.decision \in Admitting, Valid(record), AuthorityActive(record)
        PROVE  Decision(record) \in FullyAdmitting
    <3>1. \A n \in 201 .. 207 : n \notin Findings(record)
      BY <2>2 DEF Valid
    <3>2. /\ 202 \notin Findings(record) /\ 203 \notin Findings(record)
          /\ 204 \notin Findings(record) /\ 205 \notin Findings(record)
          /\ 206 \notin Findings(record) /\ 207 \notin Findings(record)
      BY <3>1
    <3>3. /\ record.evidence # {} /\ ~(record.admitted > record.requested)
          /\ \A e \in record.evidence : /\ evidence[e] # "missing"
                                        /\ evidence[e] # "unverified"
          /\ \A u \in record.uncertainty : /\ uncertainties[u] # "missing"
                                           /\ uncertainties[u] # "blocking"
      BY <2>2, <3>2 DEF Findings
    <3>4. EvidenceSound(record)
      BY <3>3, RecordTypes DEF EvidenceSound, TypeOK, EvidenceStatus
    <3>5. record.admitted <= record.requested
      BY <3>3, RecordTypes
    <3> QED
      BY <2>2, <3>3, <3>4, <3>5, FullMeans DEF Blocked, Unresolved
  <2> QED
    BY <2>1, <2>2 DEF EnginesAgree
<1> QED
  BY <1>1, TypeCorrect, PTL

-----------------------------------------------------------------------------
(* Worse grounds.                                                          *)

\* If every map entry is at most as good as it was, nothing gets better but for
\* uncertainties, of which one that blocked may be missing now.
LEMMA WorseMeans ==
    ASSUME TypeOK, TypeOK', UNCHANGED record,
           \A a \in Authority : Worse(authorities'[a], authorities[a]),
           \A e \in Evidence : Worse(evidence'[e], evidence[e]),
           \A u \in Uncertainty : Worse(uncertainties'[u], uncertainties[u])
    PROVE  /\ AuthorityActive(record)' => AuthorityActive(record)
           /\ EvidenceSound(record)' => EvidenceSound(record)
           /\ ~Blocked(record)' /\ ~Unresolved(record)' =>
                ~Blocked(record) /\ ~Unresolved(record)
<1>1. AuthorityActive(record)' => AuthorityActive(record)
  BY RecordTypes DEF AuthorityActive, Worse
<1>2. EvidenceSound(record)' => EvidenceSound(record)
  BY RecordTypes DEF EvidenceSound, Worse
<1>3. ASSUME NEW u \in record.uncertainty
      PROVE  uncertainties[u] \in {"missing", "blocking"} =>
               uncertainties'[u] \in {"missing", "blocking"}
  <2>1. Worse(uncertainties'[u], uncertainties[u])
    BY RecordTypes
  <2> QED
    BY <2>1 DEF Worse
<1> QED
  BY <1>1, <1>2, <1>3 DEF Blocked, Unresolved

\* Worse grounds, of any number of records at once, bring a more favourable
\* decision exactly where what blocked an admission is lost, a provisional one.
THEOREM WorseGrounds == Spec => OnlyLostBlockersPromote
<1> DEFINE Before == Favour(Decision(record))
           After == Favour(Decision(record)')
           Lost == /\ Blocked(record) /\ ~Blocked(record)'
                   /\ Decision(record)' = "ADMIT_PROVISIONALLY"
           Lose == /\ UNCHANGED record
                   /\ \A a \in Authority : Worse(authorities'[a], authorities[a])
                   /\ \A e \in Evidence : Worse(evidence'[e], evidence[e])
                   /\ \A u \in Uncertainty : Worse(uncertainties'[u], uncertainties[u])
<1>1. TypeOK /\ TypeOK' => (Lose => (After > Before <=> Lost))
  <2> SUFFICES ASSUME TypeOK, TypeOK', Lose
               PROVE  After > Before <=> Lost
    OBVIOUS
  <2>1. /\ AuthorityActive(record)' => AuthorityActive(record)
        /\ EvidenceSound(record)' => EvidenceSound(record)
        /\ ~Blocked(record)' /\ ~Unresolved(record)' =>
             ~Blocked(record) /\ ~Unresolved(record)
        /\ record' = record
    BY WorseMeans
  <2>2. Before \in 0 .. 2 /\ After \in 0 .. 2
    BY DEF Favour
  <2>3. After = 2 => Before = 2
    BY <2>1, RecordTypes DEF Decision, Favour, FullyAdmitting
  <2>4. After = 1 => Before >= 1 \/ Lost
    BY <2>1, RecordTypes DEF Decision, Favour, FullyAdmitting
  <2>5. Lost => Before = 0 /\ After = 1
    BY DEF Decision, Favour, FullyAdmitting
  <2> HIDE DEF Before, After, Lost
  <2> QED
    BY <2>2, <2>3, <2>4, <2>5
<1>2. TypeOK /\ TypeOK' => [Lose => (After > Before <=> Lost)]_vars
  BY <1>1
<1> QED
  BY <1>2, TypeCorrect, PTL DEF OnlyLostBlockersPromote

\* A provisional admission has exactly one finding, its open uncertainty.
THEOREM ProvisionalAreUnresolved == Spec => []ProvisionalIsUnresolved
<1>1. TypeOK => ProvisionalIsUnresolved
  <2> SUFFICES ASSUME TypeOK, Decision(record) = "ADMIT_PROVISIONALLY"
               PROVE  Findings([record EXCEPT !.decision = "ADMIT_PROVISIONALLY"]) = {206}
    BY DEF ProvisionalIsUnresolved
  <2> DEFINE p == [record EXCEPT !.decision = "ADMIT_PROVISIONALLY"]
  <2>1. /\ AuthorityActive(record) /\ ~(record.admitted > record.requested)
        /\ record.evidence # {}
        /\ EvidenceSound(record) /\ ~Blocked(record) /\ Unresolved(record)
    BY RecordTypes DEF Decision
  <2>2. /\ p.authority = record.authority /\ p.evidence = record.evidence
        /\ p.uncertainty = record.uncertainty /\ p.admitted = record.admitted
        /\ p.requested = record.requested
    BY RecordTypes
  <2> HIDE DEF p
  <2>3. AuthorityKnown(p)
    BY <2>1, <2>2 DEF AuthorityActive, AuthorityKnown
  <2>4. /\ ~(p.admitted > p.requested) /\ p.evidence # {}
        /\ \A e \in p.evidence : evidence[e] = "verified"
        /\ \A u \in p.uncertainty : uncertainties[u] # "blocking"
        /\ \E u \in p.uncertainty : uncertainties[u] = "missing"
    BY <2>1, <2>2 DEF EvidenceSound, Blocked, Unresolved
  <2>5. Findings(p) = {206}
    BY <2>3, <2>4 DEF Findings
  <2> QED
    BY <2>5 DEF p
<1> QED
  BY <1>1, TypeCorrect, PTL

-----------------------------------------------------------------------------
(* The answer of the API.                                                  *)

\* What each code of a decision says of the record.
LEMMA ReasonMeans ==
    ASSUME TypeOK
    PROVE  /\ "AUTHORITY_MISSING" \in ReasonCodes(record) => ~AuthorityKnown(record)
           /\ "EVIDENCE_MISSING" \in ReasonCodes(record) => record.evidence = {}
           /\ "EVIDENCE_NOT_VERIFIED" \in ReasonCodes(record) =>
                \E e \in record.evidence : evidence[e] = "unverified"
           /\ "BLOCKING_UNCERTAINTY" \in ReasonCodes(record) => Blocked(record)
           /\ ReasonCodes(record) \intersect DOMAIN FailureOf # {} => ~Succeeds(record)
<1>1. \A e \in record.evidence : evidence[e] \in {"missing", "unverified", "verified"}
  BY RecordTypes DEF TypeOK, EvidenceStatus
<1>2. CASE Decision(record) = "DENY"
  BY <1>2 DEF ReasonCodes, Succeeds
<1>3. CASE Decision(record) = "REQUIRE_REASSESSMENT"
  BY <1>3 DEF ReasonCodes, FailureOf
<1>4. CASE Decision(record) = "DEFER"
  <2>1. record.evidence = {}
    BY <1>4 DEF Decision
  <2> QED
    BY <1>4, <2>1 DEF ReasonCodes, Succeeds
<1>5. CASE Decision(record) = "REQUIRE_REMEDIATION" /\ ~EvidenceSound(record)
  BY <1>1, <1>5 DEF ReasonCodes, Succeeds
<1>6. CASE Decision(record) = "REQUIRE_REMEDIATION" /\ EvidenceSound(record)
  <2>1. Blocked(record)
    BY <1>6 DEF Decision
  <2> QED
    BY <1>6, <2>1 DEF ReasonCodes, Succeeds
<1>7. CASE Decision(record) = "ADMIT_PROVISIONALLY"
  BY <1>7 DEF ReasonCodes, FailureOf
<1>8. CASE Decision(record) = "ADMIT_WITH_LIMITS"
  BY <1>8 DEF ReasonCodes, FailureOf
<1>9. CASE Decision(record) = "ADMIT"
  BY <1>9 DEF ReasonCodes
<1> QED
  BY <1>2, <1>3, <1>4, <1>5, <1>6, <1>7, <1>8, <1>9 DEF Decision

\* A refusal without a failure is one of the three kinds that have none.
LEMMA SilentMeans ==
    ASSUME TypeOK, ~Succeeds(record), ReasonCodes(record) \intersect DOMAIN FailureOf = {}
    PROVE  \/ ~AuthorityActive(record)
           \/ record.admitted > record.requested
           \/ \E e \in record.evidence : evidence[e] = "missing"
<1>1. \A e \in record.evidence : evidence[e] \in {"missing", "unverified", "verified"}
  BY RecordTypes DEF TypeOK, EvidenceStatus
<1>2. CASE Decision(record) = "DEFER"
  BY <1>2 DEF ReasonCodes, FailureOf
<1>3. CASE Decision(record) = "REQUIRE_REMEDIATION" /\ EvidenceSound(record)
  BY <1>3 DEF ReasonCodes, FailureOf
<1>4. CASE Decision(record) = "REQUIRE_REMEDIATION" /\ ~EvidenceSound(record)
  <2>1. PICK e \in record.evidence : evidence[e] # "verified"
    BY <1>4 DEF EvidenceSound
  <2>2. (IF evidence[e] = "missing" THEN "EVIDENCE_RECORD_MISSING"
         ELSE "EVIDENCE_NOT_VERIFIED") \in ReasonCodes(record)
    BY <1>4, <2>1 DEF ReasonCodes
  <2> QED
    BY <1>1, <2>1, <2>2 DEF FailureOf
<1>5. CASE Decision(record) \in {"DENY", "REQUIRE_REASSESSMENT"}
  BY <1>5, RecordTypes DEF Decision
<1> QED
  BY <1>2, <1>3, <1>4, <1>5 DEF Decision, Succeeds

\* Every failure the API answers with names a ground the validator would find,
\* and every refusal without one has one of the grounds that have no code.
THEOREM FailuresAreFindings == Spec => []FailuresAreFound
<1>1. TypeOK => FailuresAreFound
  <2> SUFFICES ASSUME TypeOK
               PROVE  FailuresAreFound
    OBVIOUS
  <2> DEFINE p == [record EXCEPT !.decision = "ADMIT"]
  <2>1. /\ p.authority = record.authority /\ p.evidence = record.evidence
        /\ p.uncertainty = record.uncertainty /\ p.admitted = record.admitted
        /\ p.requested = record.requested /\ p.decision = "ADMIT"
    BY RecordTypes
  <2> HIDE DEF p
  <2>2. AuthorityKnown(p) <=> AuthorityKnown(record)
    BY <2>1 DEF AuthorityKnown
  <2>3. ASSUME NEW c \in ReasonCodes(record) \intersect DOMAIN FailureOf
        PROVE  FindingOf[FailureOf[c]] \in Findings(p)
    <3>1. c \in {"AUTHORITY_MISSING", "EVIDENCE_MISSING", "EVIDENCE_NOT_VERIFIED",
                 "BLOCKING_UNCERTAINTY"}
      BY DEF FailureOf
    <3>2. /\ c = "AUTHORITY_MISSING" => FindingOf[FailureOf[c]] = 201
          /\ c = "EVIDENCE_MISSING" => FindingOf[FailureOf[c]] = 202
          /\ c = "EVIDENCE_NOT_VERIFIED" => FindingOf[FailureOf[c]] = 204
          /\ c = "BLOCKING_UNCERTAINTY" => FindingOf[FailureOf[c]] = 207
      BY DEF FailureOf, FindingOf
    <3>3. /\ c = "AUTHORITY_MISSING" => 201 \in Findings(p)
          /\ c = "EVIDENCE_MISSING" => 202 \in Findings(p)
          /\ c = "EVIDENCE_NOT_VERIFIED" => 204 \in Findings(p)
          /\ c = "BLOCKING_UNCERTAINTY" => 207 \in Findings(p)
      BY <2>1, <2>2, ReasonMeans DEF Findings, Admitting, Blocked
    <3> QED
      BY <3>1, <3>2, <3>3
  <2>4. \A f \in Failures(record) : FindingOf[f] \in Findings(p)
    BY <2>3 DEF Failures
  <2>5. Failures(record) # {} => ~Succeeds(record)
    BY ReasonMeans DEF Failures
  <2>6. ASSUME ~Succeeds(record), Failures(record) = {}
        PROVE  ~AuthorityActive(record) \/ Findings(p) \intersect {203, 205} # {}
    <3>1. ReasonCodes(record) \intersect DOMAIN FailureOf = {}
      BY <2>6 DEF Failures
    <3>2. \/ ~AuthorityActive(record)
          \/ p.admitted > p.requested
          \/ \E e \in p.evidence : evidence[e] = "missing"
      BY <2>1, <2>6, <3>1, SilentMeans
    <3>3. /\ p.admitted > p.requested => 205 \in Findings(p)
          /\ (\E e \in p.evidence : evidence[e] = "missing") => 203 \in Findings(p)
      BY DEF Findings
    <3> QED
      BY <3>2, <3>3
  <2> QED
    BY <2>4, <2>5, <2>6 DEF FailuresAreFound, p
<1> QED
  BY <1>1, TypeCorrect, PTL
=============================================================================
