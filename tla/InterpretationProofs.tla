------------------------- MODULE InterpretationProofs -------------------------
(***************************************************************************)
(* What TLAPS proves of Interpretation for every interpretation, every     *)
(* source object, and any number of records in the caller's maps.          *)
(***************************************************************************)
EXTENDS Interpretation, TLAPS

\* The fields of a draft and of its source.
LEMMA DraftTypes ==
    ASSUME TypeOK
    PROVE  /\ interpretation.class \in InterpretationClass
           /\ interpretation.uncertainty \subseteq Uncertainty
           /\ source # None => /\ source.authority \in Authority \union {None}
                               /\ source.uncertainty \subseteq Uncertainty
                               /\ source.dependencies \subseteq Dependency
BY InterpretationAssumption DEF TypeOK, InterpretationRecord, ObjectRecord

\* The decision is an admission status.
LEMMA DecisionType == Decision(interpretation) \in AdmissionStatus
BY DEF Decision, AdmissionStatus

\* The records and the caller's maps keep their types.
THEOREM TypeCorrect == Spec => []TypeOK
<1>1. Init => TypeOK
  BY DEF Init, TypeOK, AdmissionStatus
<1>2. TypeOK /\ [Next]_vars => TypeOK'
  <2> SUFFICES ASSUME TypeOK, [Next]_vars
               PROVE  TypeOK'
    OBVIOUS
  <2>1. CASE UNCHANGED vars
    BY <2>1 DEF vars, maps, TypeOK
  <2>2. CASE Decide
    BY <2>2, DecisionType DEF Decide, maps, TypeOK
  <2>3. ASSUME NEW o \in CanonicalObject \union {None}, ChangeSource(o)
        PROVE  TypeOK'
    BY <2>3 DEF ChangeSource, maps, TypeOK
  <2>4. ASSUME NEW a \in Authority, NEW s \in AuthorityStatus, ChangeAuthority(a, s)
        PROVE  TypeOK'
    BY <2>4 DEF ChangeAuthority, TypeOK
  <2>5. ASSUME NEW p \in Provenance, ChangeProvenance(p)
        PROVE  TypeOK'
    BY <2>5 DEF ChangeProvenance, TypeOK
  <2>6. ASSUME NEW u \in Uncertainty, NEW s \in UncertaintyStatus,
               ChangeUncertainty(u, s)
        PROVE  TypeOK'
    BY <2>6 DEF ChangeUncertainty, TypeOK
  <2>7. ASSUME NEW d \in Dependency, NEW s \in DependencyStatus,
               ChangeDependency(d, s)
        PROVE  TypeOK'
    BY <2>7 DEF ChangeDependency, TypeOK
  <2> QED
    BY <2>1, <2>2, <2>3, <2>4, <2>5, <2>6, <2>7 DEF Next
<1> QED
  BY <1>1, <1>2, PTL DEF Spec

\* What a full admission means.
LEMMA FullMeans ==
    Decision(interpretation) \in FullyAdmitting <=>
      /\ source # None /\ source.object_id = "asked"
      /\ ~Blocking(interpretation.uncertainty) /\ ~Missing(interpretation.uncertainty)
      /\ interpretation.class \notin InadmissibleClass
BY DEF Decision, FullyAdmitting

\* A full admission validates, but for what the admission does not look at.
LEMMA FullValidates ==
    ASSUME Decision(interpretation) \in FullyAdmitting
    PROVE  Findings(interpretation, Decision(interpretation)) \subseteq {103, 104}
<1>1. /\ source # None /\ source.object_id = "asked"
      /\ ~Blocking(interpretation.uncertainty) /\ ~Missing(interpretation.uncertainty)
      /\ interpretation.class \notin InadmissibleClass
  BY FullMeans
<1>2. interpretation.class = "CANONICAL" => Decision(interpretation) = "ADMISSIBLE"
  BY <1>1 DEF Decision, LimitedClass
<1> QED
  BY <1>1, <1>2 DEF Findings

\* The failure the API answers with names the fault of the source.
LEMMA FailureNamesSource ==
    /\ 2 \in Failures(interpretation) <=> 102 \in Findings(interpretation, status)
    /\ 101 \in Findings(interpretation, status) => Failures(interpretation) = {1}
<1>1. 101 \in Findings(interpretation, status) <=> source = None
  BY DEF Findings
<1>2. 102 \in Findings(interpretation, status)
        <=> source # None /\ source.object_id # "asked"
  BY DEF Findings
<1>3. source = None \/ source.object_id # "asked" => ~Succeeds(interpretation)
  BY DEF Succeeds, Decision
<1> QED
  BY <1>1, <1>2, <1>3 DEF Failures

\* Full admissions validate, and the API names the fault of a source as the
\* validator finds it.
THEOREM AdmissionsValidate == Spec => []AdmissionValidates
<1>1. AdmissionValidates
  BY FullValidates, FailureNamesSource DEF AdmissionValidates
<1> QED
  BY <1>1, PTL

-----------------------------------------------------------------------------
(* Old admissions.                                                         *)

\* The class does not change, and no inadmissible class is fully admitted.
ClassInv ==
    status = "ADMISSIBLE" => interpretation.class \notin InadmissibleClass

\* An admission without limits stays one of a class that allows it.
LEMMA ClassStep == ClassInv /\ [Next]_vars => ClassInv'
<1> SUFFICES ASSUME ClassInv, [Next]_vars
             PROVE  ClassInv'
  OBVIOUS
<1>1. CASE Decide
  BY <1>1 DEF Decide, Decision, ClassInv
<1>2. CASE UNCHANGED <<interpretation, status>>
  BY <1>2 DEF ClassInv
<1>3. Decide \/ UNCHANGED <<interpretation, status>>
  BY DEF Next, vars, ChangeSource, ChangeAuthority, ChangeProvenance,
     ChangeUncertainty, ChangeDependency
<1> QED
  BY <1>1, <1>2, <1>3

\* What was admitted without limits and validates now would be admitted again,
\* however long ago it was admitted.
THEOREM ValidAreReadmitted == Spec => []ValidIsReadmitted
<1>1. Init => ClassInv
  BY DEF Init, ClassInv
<1>2. ClassInv => ValidIsReadmitted
  <2> SUFFICES ASSUME ClassInv, status = "ADMISSIBLE", Valid(interpretation, status)
               PROVE  Decision(interpretation) \in FullyAdmitting
    BY DEF ValidIsReadmitted
  <2>1. /\ 101 \notin Findings(interpretation, status)
        /\ 102 \notin Findings(interpretation, status)
        /\ 106 \notin Findings(interpretation, status)
        /\ 107 \notin Findings(interpretation, status)
    BY DEF Valid
  <2>2. /\ source # None /\ source.object_id = "asked"
        /\ ~Missing(interpretation.uncertainty) /\ ~Blocking(interpretation.uncertainty)
    BY <2>1 DEF Findings
  <2> QED
    BY <2>2, FullMeans DEF ClassInv
<1> QED
  BY <1>1, <1>2, ClassStep, PTL DEF Spec

-----------------------------------------------------------------------------
(* Records that get lost or worse.                                         *)

\* Losing the source or any uncertainties, or uncertainties that become blocking,
\* make an interpretation more admissible exactly where what blocked it is lost or
\* the first loss hides its class, and then with uncertainty only.
THEOREM HiddenFlawsAdmit == Spec => OnlyHiddenFlawsAdmit
<1> DEFINE ids == interpretation.uncertainty
           Before == Favour(Decision(interpretation))
           After == Favour(Decision(interpretation)')
           Hidden == /\ Decision(interpretation)' = "ADMISSIBLE_WITH_UNCERTAINTY"
                     /\ \/ Blocking(ids) /\ ~Blocking(ids)'
                        \/ interpretation.class \in InadmissibleClass /\ ~Missing(ids)
           Lose == /\ UNCHANGED interpretation
                   /\ source' \in {source, None}
                   /\ \A u \in Uncertainty :
                        uncertainties'[u] \in {uncertainties[u], "blocking", "missing"}
<1>1. TypeOK => (Lose => (After > Before <=> Hidden))
  <2> SUFFICES ASSUME TypeOK, Lose
               PROVE  After > Before <=> Hidden
    OBVIOUS
  <2>1. \A u \in ids : u \in Uncertainty
    BY DraftTypes
  <2>2. ~Blocking(ids)' /\ ~Missing(ids)' => ~Blocking(ids) /\ ~Missing(ids)
    BY <2>1 DEF Blocking, Missing
  <2>3. Before \in 0 .. 2 /\ After \in 0 .. 2
    BY DEF Favour
  <2>4. After = 2 => Before = 2
    BY <2>2 DEF Decision, Favour, FullyAdmitting
  <2>5. After = 1 => Before >= 1 \/ Hidden
    BY <2>2 DEF Decision, Favour, FullyAdmitting
  <2>6. Hidden => Before = 0 /\ After = 1
    BY DEF Decision, Favour, FullyAdmitting
  <2> HIDE DEF Before, After, Hidden
  <2> QED
    BY <2>3, <2>4, <2>5, <2>6
<1>2. TypeOK => [Lose => (After > Before <=> Hidden)]_vars
  BY <1>1
<1> QED
  BY <1>2, TypeCorrect, PTL DEF OnlyHiddenFlawsAdmit

\* No loss hides what made a source object invalid.
THEOREM WorseNeverValidate == Spec => WorseRecordsNeverValidate
<1> DEFINE Lose == /\ source' = source /\ source # None
                   /\ \A a \in Authority :
                        \/ authorities'[a] \in {authorities[a], "missing", "lapsed"}
                        \/ authorities[a] = "active"
                   /\ provenances' \subseteq provenances
                   /\ \A u \in Uncertainty :
                        uncertainties'[u] \in {uncertainties[u], "missing"}
                   /\ \A d \in Dependency :
                        dependencies'[d] \in {dependencies[d], "missing"}
<1>1. TypeOK => (Lose => (ObjectValid(source)' => ObjectValid(source)))
  <2> SUFFICES ASSUME TypeOK, Lose, ObjectValid(source)'
               PROVE  ObjectFindings(source) = {}
    BY DEF ObjectValid
  <2>1. \A n \in 1 .. 8 : n \notin ObjectFindings(source)'
    BY DEF ObjectValid
  <2>2. /\ 1 \notin ObjectFindings(source)' /\ 2 \notin ObjectFindings(source)'
        /\ 3 \notin ObjectFindings(source)' /\ 4 \notin ObjectFindings(source)'
        /\ 5 \notin ObjectFindings(source)' /\ 6 \notin ObjectFindings(source)'
        /\ 7 \notin ObjectFindings(source)' /\ 8 \notin ObjectFindings(source)'
    BY <2>1
  <2>3. /\ Known(source)' /\ Traced(source)'
        /\ authorities'[source.authority] \notin {"inactive", "lapsed", "expired"}
        /\ \A d \in source.dependencies : dependencies'[d] \notin {"missing", "unsatisfied"}
        /\ ~Missing(source.uncertainty)'
        /\ source.status \notin {"SUPERSEDED", "REVOKED"}
    BY <2>2 DEF ObjectFindings
  <2>4. source.authority \in Authority /\ authorities'[source.authority] # "missing"
    BY <2>3, DraftTypes DEF Known
  <2>5. authorities[source.authority] \notin {"missing", "inactive", "lapsed", "expired"}
    BY <2>3, <2>4
  <2>6. Known(source) /\ Traced(source)
    BY <2>3, <2>4, <2>5 DEF Known, Traced
  <2>7. /\ \A d \in source.dependencies : dependencies[d] \notin {"missing", "unsatisfied"}
        /\ ~Missing(source.uncertainty)
    BY <2>3, DraftTypes DEF Missing
  <2> QED
    BY <2>3, <2>5, <2>6, <2>7 DEF ObjectFindings
<1>2. TypeOK => [Lose => (ObjectValid(source)' => ObjectValid(source))]_vars
  BY <1>1
<1> QED
  BY <1>2, TypeCorrect, PTL DEF WorseRecordsNeverValidate
==============================================================================
