---------------------------- MODULE CanonicalForm ----------------------------
(***************************************************************************)
(* What a record becomes when it is stored and read back: the canonical    *)
(* form of models/serialization.py, which loses the types of the values,   *)
(* and models/reconstruction.py, which has to know them again.  The fields *)
(* are declared in models/canonical.py and listed once more, with the      *)
(* conversion of each, in the reconstruction functions.                    *)
(*                                                                         *)
(* A value is [is, of]: its Python type, and how it is written: a sequence *)
(* of strings, of one string for a scalar.  In metadata, which is a map of *)
(* one entry here, `of' is the type and the spelling of the entry.         *)
(***************************************************************************)
EXTENDS Naturals, Sequences

CONSTANTS
    Uuid,    \* spellings of UUIDs
    Time,    \* spellings of times with a time zone, in their order
    Text     \* texts that are not blank; some may be spelled like a UUID

ASSUME SpellingAssumption ==
    /\ Uuid \subseteq STRING /\ Text \subseteq STRING /\ Time \in Seq(STRING)
    /\ \A i, j \in 1 .. Len(Time) : Time[i] = Time[j] => i = j

Times == {Time[i] : i \in 1 .. Len(Time)}

Enumeration ==
    [ValidationStatus |-> {"NOT_VALIDATED", "VALID", "INVALID", "UNRESOLVED"},
     ObjectStatus |-> {"DRAFT", "ACTIVE", "PROVISIONAL", "SUPERSEDED", "REVOKED",
        "ARCHIVED", "UNRESOLVED"},
     UncertaintyType |-> {"NONE", "SOURCE_UNCERTAINTY", "TRANSLATION_UNCERTAINTY",
        "CONTEXTUAL_UNCERTAINTY", "DEPENDENCY_UNCERTAINTY",
        "EVIDENTIARY_UNCERTAINTY", "EQUIVALENCE_UNCERTAINTY",
        "AUTHORITY_UNCERTAINTY", "TEMPORAL_UNCERTAINTY",
        "IMPLEMENTATION_UNCERTAINTY"},
     InterpretationClass |-> {"CANONICAL", "LITERAL", "CONTEXTUAL", "DERIVED",
        "COMPARATIVE", "ANALOGICAL", "OPERATIONAL", "EDUCATIONAL",
        "TRANSLATIONAL", "SPECULATIVE", "CRITICAL", "CONFLICTING",
        "RECONSTRUCTED", "UNRESOLVED", "INADMISSIBLE"},
     AdmissionStatus |-> {"ADMISSIBLE", "ADMISSIBLE_WITH_LIMITS",
        "ADMISSIBLE_WITH_UNCERTAINTY", "PROVISIONAL", "CONFLICTING",
        "RECONSTRUCTION_REQUIRED", "UNRESOLVED", "INADMISSIBLE", "SUPERSEDED"},
     ParticipationRole |-> {"PR0", "PR1", "PR2", "PR3", "PR4", "PR5", "PR6"},
     InitiationDecision |-> {"ADMIT", "ADMIT_WITH_LIMITS", "ADMIT_PROVISIONALLY",
        "DEFER", "REQUIRE_REMEDIATION", "REQUIRE_REASSESSMENT", "DENY", "SUSPEND",
        "REVOKE", "RENEW", "EXPIRE"},
     ConstitutionalState |-> {"MS-S0", "MS-S1", "MS-S2", "MS-S3", "MS-S4",
        "MS-S5", "MS-S6", "MS-S7", "MS-S8", "MS-S9", "MS-S10", "MS-S11",
        "MS-S12", "MS-S13"}]

-----------------------------------------------------------------------------
(* The records (canonical.py): the declared type of each field, a question *)
(* mark where it may be None.                                              *)

Declared ==
    [PROVENANCE_RECORD |->
       [provenance_id |-> "uuid", source_ids |-> "texts",
        transformation_ids |-> "texts", authority_ids |-> "texts",
        created_at |-> "time"],
     UNCERTAINTY_RECORD |->
       [uncertainty_id |-> "uuid", uncertainty_type |-> "UncertaintyType",
        description |-> "text", blocks_admission |-> "bool", created_at |-> "time"],
     AUTHORITY_RECORD |->
       [authority_id |-> "uuid", holder_id |-> "text", authority_type |-> "text",
        scope |-> "text", source |-> "text", active |-> "bool",
        effective_at |-> "time", expires_at |-> "time?"],
     EVIDENCE_RECORD |->
       [evidence_id |-> "uuid", evidence_type |-> "text", source |-> "text",
        method |-> "text", scope |-> "text", integrity_verified |-> "bool",
        provenance_id |-> "uuid?", created_at |-> "time"],
     DEPENDENCY_RECORD |->
       [dependency_id |-> "uuid", source_object_id |-> "text",
        target_object_id |-> "text", relationship_type |-> "text",
        mandatory |-> "bool", satisfied |-> "bool", evidence_ids |-> "uuids"],
     ACTOR_IDENTITY |->
       [actor_id |-> "uuid", display_name |-> "text", identity_source |-> "text",
        assurance_level |-> "text", provenance_id |-> "uuid?",
        uncertainty_ids |-> "uuids", created_at |-> "time"],
     CANONICAL_OBJECT |->
       [object_id |-> "uuid", object_type |-> "text", canonical_name |-> "text",
        definition |-> "text", scope |-> "text", authority_id |-> "uuid?",
        provenance_id |-> "uuid?", dependency_ids |-> "uuids",
        uncertainty_ids |-> "uuids", status |-> "ObjectStatus",
        version |-> "text", created_at |-> "time", revised_at |-> "time",
        validation_status |-> "ValidationStatus", metadata |-> "map"],
     INTERPRETATION_RECORD |->
       [interpretation_id |-> "uuid", interpreted_object_id |-> "uuid",
        interpretation_class |-> "InterpretationClass", interpreter_id |-> "uuid",
        authority_id |-> "uuid?", source_basis |-> "texts", scope |-> "text",
        dependency_ids |-> "uuids", provenance_id |-> "uuid?",
        uncertainty_ids |-> "uuids", admission_status |-> "AdmissionStatus",
        version |-> "text", created_at |-> "time", revised_at |-> "time",
        validation_status |-> "ValidationStatus"],
     PARTICIPATION_RECORD |->
       [participation_id |-> "uuid", actor_id |-> "uuid",
        prior_role |-> "ParticipationRole", requested_role |-> "ParticipationRole",
        admitted_role |-> "ParticipationRole", decision |-> "InitiationDecision",
        scope |-> "text", authority_id |-> "uuid?", evidence_ids |-> "uuids",
        uncertainty_ids |-> "uuids", effective_at |-> "time",
        expires_at |-> "time?", validation_status |-> "ValidationStatus"],
     CONSTITUTIONAL_TRACE |->
       [trace_id |-> "uuid", actor_id |-> "uuid?", object_id |-> "uuid?",
        prior_state |-> "ConstitutionalState",
        resulting_state |-> "ConstitutionalState", transition_id |-> "text",
        authority_id |-> "uuid?", evidence_ids |-> "uuids",
        uncertainty_ids |-> "uuids", occurred_at |-> "time"]]

RecordType == DOMAIN Declared

\* A record is [type, fields].
Value(is, of) == [is |-> is, of |-> of]
NoValue == Value("null", <<>>)

\* What metadata may hold that is JSON already, what becomes JSON, and what
\* canonicalisation refuses.
Plain == {"text", "number", "bool", "null", "list"}
Converted == {"uuid", "time", "enum", "path", "tuple", "set"}
Refused == {"naive", "nan", "other"}

Moments == {Value("time", <<t>>) : t \in Times} \union {Value("naive", <<Time[1]>>)}

\* The values a field of a declared type can have.
ValuesOf(declared) ==
    CASE declared \in DOMAIN Enumeration ->
           {Value(declared, <<x>>) : x \in Enumeration[declared]}
      [] declared = "uuid" -> {Value("uuid", <<u>>) : u \in Uuid}
      [] declared = "uuid?" -> {Value("uuid", <<u>>) : u \in Uuid} \union {NoValue}
      [] declared = "time" -> Moments
      [] declared = "time?" -> Moments \union {NoValue}
      [] declared = "text" -> {Value("text", <<x>>) : x \in Text}
      [] declared = "bool" -> {Value("bool", <<b>>) : b \in {"True", "False"}}
      [] declared = "texts" ->
           {Value("texts", x) : x \in {<<>>} \union {<<y>> : y \in Text} \union (Text \X Text)}
      [] declared = "uuids" ->
           {Value("uuids", x) : x \in {<<>>} \union {<<u>> : u \in Uuid} \union (Uuid \X Uuid)}
      [] declared = "map" ->
           {Value("map", <<>>)} \union
           {Value("map", <<is, x>>) : is \in Plain \union Converted \union Refused, x \in Text}

\* Two times of one kind, one before the other; a time with a zone and one
\* without cannot be compared.
Before(v, w) ==
    /\ v.is = w.is
    /\ \E i, j \in 1 .. Len(Time) : i < j /\ v.of = <<Time[i]>> /\ w.of = <<Time[j]>>

\* The checks of a record's constructor: __post_init__() of each class.
Constructible(type, fields) ==
    /\ \A f \in DOMAIN fields :
         /\ Declared[type][f] = "text" => fields[f].is = "text"
         /\ f \in {"source_ids", "source_basis"} => fields[f].of # <<>>
    /\ "expires_at" \in DOMAIN fields =>
         fields.expires_at = NoValue \/ Before(fields.effective_at, fields.expires_at)
    /\ "revised_at" \in DOMAIN fields =>
         \/ fields.revised_at = fields.created_at
         \/ Before(fields.created_at, fields.revised_at)
    /\ "target_object_id" \in DOMAIN fields =>
         fields.source_object_id # fields.target_object_id
    /\ "resulting_state" \in DOMAIN fields => fields.prior_state # fields.resulting_state

\* A record the constructors accept.
WellFormed(r) ==
    /\ r.type \in RecordType
    /\ r = [type |-> r.type, fields |-> [f \in DOMAIN Declared[r.type] |-> r.fields[f]]]
    /\ \A f \in DOMAIN Declared[r.type] : r.fields[f] \in ValuesOf(Declared[r.type][f])
    /\ Constructible(r.type, r.fields)

-----------------------------------------------------------------------------
(* The canonical form (serialization.py).  A JSON value is [json, of].     *)

JsonOf(is) ==
    IF is \in {"null", "bool", "number"} THEN is
    ELSE IF is \in {"texts", "uuids", "tuple", "list", "set"} THEN "array"
    ELSE IF is = "map" THEN "object" ELSE "string"

\* _canonicalize(): tuples, lists and sets become arrays, what is neither a
\* number nor a truth value becomes a string.
Canonicalize(v) ==
    [json |-> JsonOf(v.is),
     of |-> IF v.is = "map" /\ v.of # <<>> THEN <<JsonOf(v.of[1]), v.of[2]>> ELSE v.of]

\* It raises SerializationError for anything else.
Serializable(r) ==
    \A f \in DOMAIN r.fields :
      /\ r.fields[f].is \notin Refused
      /\ ~(r.fields[f].is = "map" /\ r.fields[f].of # <<>> /\ r.fields[f].of[1] \in Refused)

\* canonical_dict() of a record: the payload of its envelope.
CanonicalDict(r) == [f \in DOMAIN r.fields |-> Canonicalize(r.fields[f])]

-----------------------------------------------------------------------------
(* Reconstruction (reconstruction.py): the conversion of each field.       *)

Reconstructors ==
    [PROVENANCE_RECORD |->
       [provenance_id |-> "_uuid", source_ids |-> "_tuple_of_text",
        transformation_ids |-> "_tuple_of_text",
        authority_ids |-> "_tuple_of_text", created_at |-> "_datetime"],
     UNCERTAINTY_RECORD |->
       [uncertainty_id |-> "_uuid", uncertainty_type |-> "UncertaintyType",
        description |-> "as_is", blocks_admission |-> "bool",
        created_at |-> "_datetime"],
     AUTHORITY_RECORD |->
       [authority_id |-> "_uuid", holder_id |-> "as_is",
        authority_type |-> "as_is", scope |-> "as_is", source |-> "as_is",
        active |-> "bool", effective_at |-> "_datetime",
        expires_at |-> "_datetime_or_None"],
     EVIDENCE_RECORD |->
       [evidence_id |-> "_uuid", evidence_type |-> "as_is",
        source |-> "as_is", method |-> "as_is", scope |-> "as_is",
        integrity_verified |-> "bool", provenance_id |-> "_optional_uuid",
        created_at |-> "_datetime"],
     DEPENDENCY_RECORD |->
       [dependency_id |-> "_uuid", source_object_id |-> "as_is",
        target_object_id |-> "as_is", relationship_type |-> "as_is",
        mandatory |-> "bool", satisfied |-> "bool",
        evidence_ids |-> "_tuple_of_uuid"],
     ACTOR_IDENTITY |->
       [actor_id |-> "_uuid", display_name |-> "as_is",
        identity_source |-> "as_is", assurance_level |-> "as_is",
        provenance_id |-> "_optional_uuid",
        uncertainty_ids |-> "_tuple_of_uuid", created_at |-> "_datetime"],
     CANONICAL_OBJECT |->
       [object_id |-> "_uuid", object_type |-> "as_is",
        canonical_name |-> "as_is", definition |-> "as_is", scope |-> "as_is",
        authority_id |-> "_optional_uuid", provenance_id |-> "_optional_uuid",
        dependency_ids |-> "_tuple_of_uuid",
        uncertainty_ids |-> "_tuple_of_uuid", status |-> "ObjectStatus",
        version |-> "as_is", created_at |-> "_datetime",
        revised_at |-> "_datetime", validation_status |-> "ValidationStatus",
        metadata |-> "dict"],
     INTERPRETATION_RECORD |->
       [interpretation_id |-> "_uuid", interpreted_object_id |-> "_uuid",
        interpretation_class |-> "InterpretationClass",
        interpreter_id |-> "_uuid", authority_id |-> "_optional_uuid",
        source_basis |-> "_tuple_of_text", scope |-> "as_is",
        dependency_ids |-> "_tuple_of_uuid",
        provenance_id |-> "_optional_uuid",
        uncertainty_ids |-> "_tuple_of_uuid",
        admission_status |-> "AdmissionStatus", version |-> "as_is",
        created_at |-> "_datetime", revised_at |-> "_datetime",
        validation_status |-> "ValidationStatus"],
     PARTICIPATION_RECORD |->
       [participation_id |-> "_uuid", actor_id |-> "_uuid",
        prior_role |-> "ParticipationRole",
        requested_role |-> "ParticipationRole",
        admitted_role |-> "ParticipationRole",
        decision |-> "InitiationDecision", scope |-> "as_is",
        authority_id |-> "_optional_uuid", evidence_ids |-> "_tuple_of_uuid",
        uncertainty_ids |-> "_tuple_of_uuid", effective_at |-> "_datetime",
        expires_at |-> "_datetime_or_None",
        validation_status |-> "ValidationStatus"],
     CONSTITUTIONAL_TRACE |->
       [trace_id |-> "_uuid", actor_id |-> "_optional_uuid",
        object_id |-> "_optional_uuid", prior_state |-> "ConstitutionalState",
        resulting_state |-> "ConstitutionalState", transition_id |-> "as_is",
        authority_id |-> "_optional_uuid", evidence_ids |-> "_tuple_of_uuid",
        uncertainty_ids |-> "_tuple_of_uuid", occurred_at |-> "_datetime"]]

\* The type of a JSON value that is taken as it is.
PlainOf(json) ==
    CASE json = "string" -> "text"
      [] json = "array" -> "list"
      [] json = "object" -> "map"
      [] OTHER -> json

\* Each conversion gives the set of the value it returns, or of nothing when it
\* raises an error.
ReadUuid(j) ==
    IF j.json = "string" /\ j.of[1] \in Uuid THEN {Value("uuid", j.of)} ELSE {}
ReadTime(j) ==
    IF j.json = "string" /\ j.of[1] \in Times THEN {Value("time", j.of)} ELSE {}

\* Mutated form of OrNone: a field that may be None has to be there.
OrRequired(j, read) == read
OrNone(j, read) == IF j.json = "null" THEN {NoValue} ELSE read

ReadList(j, is, items) ==
    IF j.json = "null" THEN {Value(is, <<>>)}
    ELSE IF j.json = "array" /\ \A i \in 1 .. Len(j.of) : j.of[i] \in items
    THEN {Value(is, j.of)} ELSE {}

ReadBy(conversion, j) ==
    CASE conversion \in DOMAIN Enumeration ->
           IF j.json = "string" /\ j.of[1] \in Enumeration[conversion]
           THEN {Value(conversion, j.of)} ELSE {}
      [] conversion = "_uuid" -> ReadUuid(j)
      [] conversion = "_optional_uuid" -> OrNone(j, ReadUuid(j))
      [] conversion = "_datetime" -> ReadTime(j)
      [] conversion = "_datetime_or_None" -> OrNone(j, ReadTime(j))
      [] conversion = "_tuple_of_uuid" -> ReadList(j, "uuids", Uuid)
      [] conversion = "_tuple_of_text" -> ReadList(j, "texts", STRING)
      [] conversion = "bool" ->
           {Value("bool", IF j.json = "bool" THEN j.of
                          ELSE IF j.of = <<>> THEN <<"False">> ELSE <<"True">>)}
      [] conversion = "dict" ->
           IF j.json # "object" THEN {}
           ELSE {Value("map", IF j.of = <<>> THEN <<>> ELSE <<PlainOf(j.of[1]), j.of[2]>>)}
      [] conversion = "as_is" -> {Value(PlainOf(j.json), j.of)}

\* reconstruct_runtime_object(): the record a payload is read as, or nothing.
Reconstruct(type, payload) ==
    LET read == [f \in DOMAIN Reconstructors[type] |->
                   IF f \in DOMAIN payload THEN ReadBy(Reconstructors[type][f], payload[f])
                   ELSE {}]
        fields == [f \in DOMAIN read |-> CHOOSE v \in read[f] : TRUE]
    IN  IF (\E f \in DOMAIN read : read[f] = {}) \/ ~Constructible(type, fields)
        THEN {} ELSE {[type |-> type, fields |-> fields]}

\* Metadata whose entry is no JSON value to begin with.
Lossy(r) ==
    \E f \in DOMAIN r.fields :
      r.fields[f].is = "map" /\ r.fields[f].of # <<>> /\ r.fields[f].of[1] \notin Plain
=============================================================================
