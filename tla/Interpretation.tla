--------------------------- MODULE Interpretation ---------------------------
(***************************************************************************)
(* engines/interpretation.py with ValidationEngine.validate_interpretation *)
(* and validate_canonical_object(): the admission of an interpretation of  *)
(* a canonical object, and what validation says of both, now or later.     *)
(*                                                                         *)
(* As in Initiation the engines read maps of records that the caller       *)
(* passes in, and what a map holds under an id changes as time goes by.    *)
(***************************************************************************)
EXTENDS Naturals, FiniteSets

CONSTANTS
    Authority,       \* authority ids
    Provenance,      \* provenance ids
    Uncertainty,     \* uncertainty ids
    Dependency,      \* dependency ids
    None,            \* an id or an object that is None
    CanonicalObject, \* canonical objects that callers interpret
    Draft            \* interpretation records as they are drafted

InterpretationClass ==
    {"CANONICAL", "LITERAL", "CONTEXTUAL", "DERIVED", "COMPARATIVE",
     "ANALOGICAL", "OPERATIONAL", "EDUCATIONAL", "TRANSLATIONAL",
     "SPECULATIVE", "CRITICAL", "CONFLICTING", "RECONSTRUCTED",
     "UNRESOLVED", "INADMISSIBLE"}

AdmissionStatus ==
    {"ADMISSIBLE", "ADMISSIBLE_WITH_LIMITS", "ADMISSIBLE_WITH_UNCERTAINTY",
     "RECONSTRUCTION_REQUIRED", "UNRESOLVED", "INADMISSIBLE"}

ObjectStatus ==
    {"DRAFT", "ACTIVE", "PROVISIONAL", "SUPERSEDED", "REVOKED", "ARCHIVED",
     "UNRESOLVED"}

\* An authority may be inactive, past its expires_at, or both ("lapsed").
AuthorityStatus == {"missing", "inactive", "expired", "lapsed", "active"}
UncertaintyStatus == {"missing", "blocking", "harmless"}
DependencyStatus == {"missing", "unsatisfied", "optional", "satisfied"}

ObjectRecord ==
    [object_id : {"asked", "other"},
     authority : Authority \union {None},
     provenance : Provenance \union {None},
     dependencies : SUBSET Dependency,
     uncertainty : SUBSET Uncertainty,
     status : ObjectStatus]

\* What an interpretation record says apart from its admission status; the
\* interpreted_object_id is always "asked".
InterpretationRecord ==
    [class : InterpretationClass,
     authority : Authority \union {None},
     provenance : Provenance \union {None},
     uncertainty : SUBSET Uncertainty]

ASSUME InterpretationAssumption ==
    /\ None \notin Authority \union Provenance \union CanonicalObject
    /\ CanonicalObject \subseteq ObjectRecord
    /\ Draft \subseteq InterpretationRecord

VARIABLES
    source,          \* the source object the caller found, or None
    interpretation,  \* the interpretation record
    status,          \* its admission_status
    authorities,     \* what the caller's maps hold under each id
    provenances,     \* the ids the provenance map holds
    uncertainties,
    dependencies

maps == <<authorities, provenances, uncertainties, dependencies>>
vars == <<source, interpretation, status, maps>>

Blocking(ids) == \E u \in ids : uncertainties[u] = "blocking"
Missing(ids) == \E u \in ids : uncertainties[u] = "missing"

-----------------------------------------------------------------------------
(* InterpretationAdmissionEngine.decide().                                 *)

InadmissibleClass == {"CONFLICTING", "INADMISSIBLE", "UNRESOLVED"}

LimitedClass ==
    {"ANALOGICAL", "COMPARATIVE", "EDUCATIONAL", "OPERATIONAL",
     "SPECULATIVE", "TRANSLATIONAL"}

\* Mutated form of Decision: a record that is missing hides one that blocks.
DecisionMissingFirst(i) ==
    IF source = None                          THEN "INADMISSIBLE"
    ELSE IF source.object_id # "asked"        THEN "RECONSTRUCTION_REQUIRED"
    ELSE IF Missing(i.uncertainty)            THEN "ADMISSIBLE_WITH_UNCERTAINTY"
    ELSE IF Blocking(i.uncertainty)           THEN "RECONSTRUCTION_REQUIRED"
    ELSE IF i.class \in InadmissibleClass     THEN "INADMISSIBLE"
    ELSE IF i.class \in LimitedClass          THEN "ADMISSIBLE_WITH_LIMITS"
    ELSE "ADMISSIBLE"

\* Mutated form of Decision: any source object will do.
DecisionAnySource(i) ==
    IF source = None                          THEN "INADMISSIBLE"
    ELSE IF Blocking(i.uncertainty)           THEN "RECONSTRUCTION_REQUIRED"
    ELSE IF Missing(i.uncertainty)            THEN "ADMISSIBLE_WITH_UNCERTAINTY"
    ELSE IF i.class \in InadmissibleClass     THEN "INADMISSIBLE"
    ELSE IF i.class \in LimitedClass          THEN "ADMISSIBLE_WITH_LIMITS"
    ELSE "ADMISSIBLE"

\* The admission status of the decision, which names the decision as well:
\* ADMIT, ADMIT_WITH_LIMITS, ADMIT_WITH_UNCERTAINTY, REQUIRE_RECONSTRUCTION
\* and REJECT have one status each.  A record cannot lack a source basis.
Decision(i) ==
    IF source = None                          THEN "INADMISSIBLE"
    ELSE IF source.object_id # "asked"        THEN "RECONSTRUCTION_REQUIRED"
    ELSE IF Blocking(i.uncertainty)           THEN "RECONSTRUCTION_REQUIRED"
    ELSE IF Missing(i.uncertainty)            THEN "ADMISSIBLE_WITH_UNCERTAINTY"
    ELSE IF i.class \in InadmissibleClass     THEN "INADMISSIBLE"
    ELSE IF i.class \in LimitedClass          THEN "ADMISSIBLE_WITH_LIMITS"
    ELSE "ADMISSIBLE"

-----------------------------------------------------------------------------
(* ValidationEngine.                                                       *)

Known(r) == r.authority # None /\ authorities[r.authority] # "missing"
Traced(r) == r.provenance # None /\ r.provenance \in provenances

\* Mutated form of ObjectFindings: an authority that is both inactive and
\* expired is reported by neither finding.
ObjectFindingsSplit(o) ==
    {n \in 1 .. 8 :
       \/ n = 1 /\ ~Known(o)
       \/ n = 2 /\ Known(o) /\ authorities[o.authority] = "inactive"
       \/ n = 3 /\ Known(o) /\ authorities[o.authority] = "expired"
       \/ n = 4 /\ ~Traced(o)
       \/ n = 5 /\ \E d \in o.dependencies : dependencies[d] = "missing"
       \/ n = 6 /\ \E d \in o.dependencies : dependencies[d] = "unsatisfied"
       \/ n = 7 /\ Missing(o.uncertainty)
       \/ n = 8 /\ o.status \in {"SUPERSEDED", "REVOKED"}}

\* validate_canonical_object(): MS-RUNTIME-FIND-0001 to 0008.
ObjectFindings(o) ==
    {n \in 1 .. 8 :
       \/ n = 1 /\ ~Known(o)
       \/ n = 2 /\ Known(o) /\ authorities[o.authority] \in {"inactive", "lapsed"}
       \/ n = 3 /\ Known(o) /\ authorities[o.authority] \in {"expired", "lapsed"}
       \/ n = 4 /\ ~Traced(o)
       \/ n = 5 /\ \E d \in o.dependencies : dependencies[d] = "missing"
       \/ n = 6 /\ \E d \in o.dependencies : dependencies[d] = "unsatisfied"
       \/ n = 7 /\ Missing(o.uncertainty)
       \/ n = 8 /\ o.status \in {"SUPERSEDED", "REVOKED"}}

\* Mutated form of Findings: a blocking uncertainty is not looked for.
FindingsUnblocked(i, s) ==
    {n \in 101 .. 107 :
       \/ n = 101 /\ source = None
       \/ n = 102 /\ source # None /\ source.object_id # "asked"
       \/ n = 103 /\ ~Traced(i)
       \/ n = 104 /\ i.class = "CANONICAL" /\ ~Known(i)
       \/ n = 105 /\ i.class = "CANONICAL" /\ s # "ADMISSIBLE"
       \/ n = 106 /\ Missing(i.uncertainty)}

\* validate_interpretation(): MS-RUNTIME-FIND-0101 to 0107.
Findings(i, s) ==
    {n \in 101 .. 107 :
       \/ n = 101 /\ source = None
       \/ n = 102 /\ source # None /\ source.object_id # "asked"
       \/ n = 103 /\ ~Traced(i)
       \/ n = 104 /\ i.class = "CANONICAL" /\ ~Known(i)
       \/ n = 105 /\ i.class = "CANONICAL" /\ s # "ADMISSIBLE"
       \/ n = 106 /\ Missing(i.uncertainty)
       \/ n = 107 /\ s = "ADMISSIBLE" /\ Blocking(i.uncertainty)}

\* Every finding has one of the dispositions that make a result invalid.
Valid(i, s) == Findings(i, s) = {}
ObjectValid(o) == ObjectFindings(o) = {}

-----------------------------------------------------------------------------
(* MorningStarRuntimeApi.evaluate_interpretation().                        *)

Succeeds(i) ==
    Decision(i) \in {"ADMISSIBLE", "ADMISSIBLE_WITH_LIMITS", "ADMISSIBLE_WITH_UNCERTAINTY"}

\* The numbers of the failures in the answer, MS-FAIL-INTERPRETATION-001 and 002:
\* the reason that the source is another object has a code of its own.
Failures(i) ==
    IF Succeeds(i) THEN {}
    ELSE IF source # None /\ source.object_id # "asked" THEN {2}
    ELSE {1}

-----------------------------------------------------------------------------
(* The caller.                                                             *)

Init ==
    /\ source \in CanonicalObject \union {None}
    /\ interpretation \in Draft
    /\ status = "UNRESOLVED"
    /\ authorities \in [Authority -> AuthorityStatus]
    /\ provenances \in SUBSET Provenance
    /\ uncertainties \in [Uncertainty -> UncertaintyStatus]
    /\ dependencies \in [Dependency -> DependencyStatus]

\* The caller asks for a decision and records its admission status.
Decide ==
    /\ status' = Decision(interpretation)
    /\ UNCHANGED <<source, interpretation, maps>>

\* The source object is found, lost, or revised.
ChangeSource(o) ==
    /\ source' = o
    /\ UNCHANGED <<interpretation, status, maps>>

ChangeAuthority(a, s) ==
    /\ authorities' = [authorities EXCEPT ![a] = s]
    /\ UNCHANGED <<source, interpretation, status, provenances,
                   uncertainties, dependencies>>

ChangeProvenance(p) ==
    /\ provenances' \in {provenances \union {p}, provenances \ {p}}
    /\ UNCHANGED <<source, interpretation, status, authorities,
                   uncertainties, dependencies>>

ChangeUncertainty(u, s) ==
    /\ uncertainties' = [uncertainties EXCEPT ![u] = s]
    /\ UNCHANGED <<source, interpretation, status, authorities, provenances,
                   dependencies>>

ChangeDependency(d, s) ==
    /\ dependencies' = [dependencies EXCEPT ![d] = s]
    /\ UNCHANGED <<source, interpretation, status, authorities, provenances,
                   uncertainties>>

Next ==
    \/ Decide
    \/ \E o \in CanonicalObject \union {None} : ChangeSource(o)
    \/ \E a \in Authority, s \in AuthorityStatus : ChangeAuthority(a, s)
    \/ \E p \in Provenance : ChangeProvenance(p)
    \/ \E u \in Uncertainty, s \in UncertaintyStatus : ChangeUncertainty(u, s)
    \/ \E d \in Dependency, s \in DependencyStatus : ChangeDependency(d, s)

Spec == Init /\ [][Next]_vars

-----------------------------------------------------------------------------
(* Properties.                                                             *)

TypeOK ==
    /\ source \in CanonicalObject \union {None}
    /\ interpretation \in Draft
    /\ status \in AdmissionStatus
    /\ authorities \in [Authority -> AuthorityStatus]
    /\ provenances \in SUBSET Provenance
    /\ uncertainties \in [Uncertainty -> UncertaintyStatus]
    /\ dependencies \in [Dependency -> DependencyStatus]

FullyAdmitting == {"ADMISSIBLE", "ADMISSIBLE_WITH_LIMITS"}

\* The two engines agree as far as they look at the same things: a full
\* admission validates but for the provenance and the canonical authority that
\* the admission engine never asks about.  And where the source is at fault, the
\* failure in the answer of the API tells a wrong one (102) from a missing one.
AdmissionValidates ==
    /\ Decision(interpretation) \in FullyAdmitting =>
         Findings(interpretation, Decision(interpretation)) \subseteq {103, 104}
    /\ 2 \in Failures(interpretation) <=> 102 \in Findings(interpretation, status)
    /\ 101 \in Findings(interpretation, status) => Failures(interpretation) = {1}

\* ... and an interpretation that was admitted without limits and validates now
\* would be admitted again, with or without limits, however old its admission.
ValidIsReadmitted ==
    (status = "ADMISSIBLE" /\ Valid(interpretation, status)) =>
      Decision(interpretation) \in FullyAdmitting

Favour(s) ==
    CASE s \in FullyAdmitting                  -> 2
      [] s = "ADMISSIBLE_WITH_UNCERTAINTY"     -> 1
      [] OTHER                                 -> 0

\* Losing the source or the records of uncertainties, blocking or not, and
\* uncertainties that turn out to block, make an interpretation more admissible
\* in two cases only: the record of every uncertainty that blocked it is lost, or
\* the first lost record hides a class that is inadmissible (ClassFailureStands).
\* Then it is admitted with uncertainty, never in full.
OnlyHiddenFlawsAdmit ==
    [][(/\ UNCHANGED interpretation
        /\ source' \in {source, None}
        /\ \A u \in Uncertainty :
             uncertainties'[u] \in {uncertainties[u], "blocking", "missing"})
       => (Favour(Decision(interpretation)') > Favour(Decision(interpretation))
             <=> /\ Decision(interpretation)' = "ADMISSIBLE_WITH_UNCERTAINTY"
                 /\ \/ /\ Blocking(interpretation.uncertainty)
                       /\ ~Blocking(interpretation.uncertainty)'
                    \/ /\ interpretation.class \in InadmissibleClass
                       /\ ~Missing(interpretation.uncertainty))]_vars

\* Nothing that gets lost or lapses, alone or together, makes an invalid
\* source object valid: no loss hides what made it invalid before.
WorseRecordsNeverValidate ==
    [][(/\ source' = source /\ source # None
        /\ \A a \in Authority :
             \/ authorities'[a] \in {authorities[a], "missing", "lapsed"}
             \/ authorities[a] = "active"
        /\ provenances' \subseteq provenances
        /\ \A u \in Uncertainty : uncertainties'[u] \in {uncertainties[u], "missing"}
        /\ \A d \in Dependency : dependencies'[d] \in {dependencies[d], "missing"})
       => (ObjectValid(source)' => ObjectValid(source))]_vars

\* "A later stage may not override an earlier failure" (volumes/
\* VOLUME_IV_INTERPRETATION/INTERPRETATION.md:473): the class of the
\* interpretation is stage 4 and its uncertainty is stage 10.
ClassFailureStands ==
    interpretation.class \in InadmissibleClass =>
      Favour(Decision(interpretation)) = 0
=============================================================================
