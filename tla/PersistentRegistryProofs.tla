----------------------- MODULE PersistentRegistryProofs -----------------------
(***************************************************************************)
(* What TLAPS proves of PersistentRegistry for any number of callers, ids  *)
(* and envelopes, and any number of errors, crashes and power failures.    *)
(* First the canonical form: what a record is read back as, for any UUIDs, *)
(* times and texts.  Then the registry, of which the form is used only to  *)
(* conclude what its files read back as.                                   *)
(***************************************************************************)
EXTENDS PersistentRegistry, TLAPS

-----------------------------------------------------------------------------
(* The canonical form and its reading.                                     *)

\* The conversion that reads a value of a declared type.
ConversionOf(declared) ==
    CASE declared = "uuid" -> "_uuid"
      [] declared = "uuid?" -> "_optional_uuid"
      [] declared = "time" -> "_datetime"
      [] declared = "time?" -> "_datetime_or_None"
      [] declared = "text" -> "as_is"
      [] declared = "texts" -> "_tuple_of_text"
      [] declared = "uuids" -> "_tuple_of_uuid"
      [] declared = "map" -> "dict"
      [] OTHER -> declared

Plainly == {"uuid", "uuid?", "time", "time?", "text", "bool", "texts", "uuids"}

\* The types of records.
LEMMA RecordTypes ==
    RecordType = {"PROVENANCE_RECORD", "UNCERTAINTY_RECORD", "AUTHORITY_RECORD",
       "EVIDENCE_RECORD", "DEPENDENCY_RECORD", "ACTOR_IDENTITY", "CANONICAL_OBJECT",
       "INTERPRETATION_RECORD", "PARTICIPATION_RECORD", "CONSTITUTIONAL_TRACE"}
BY DEF RecordType, Declared

\* The two lists of fields name the same fields, and for each the conversion of
\* its type.
LEMMA ListsAgree ==
    \A t \in RecordType :
      /\ DOMAIN Reconstructors[t] = DOMAIN Declared[t]
      /\ \A f \in DOMAIN Declared[t] :
           /\ Reconstructors[t][f] = ConversionOf(Declared[t][f])
           /\ Declared[t][f] \in DOMAIN Enumeration \union Plainly \union {"map"}
<1> SUFFICES ASSUME NEW t \in RecordType
             PROVE  /\ DOMAIN Reconstructors[t] = DOMAIN Declared[t]
                    /\ \A f \in DOMAIN Declared[t] :
                         /\ Reconstructors[t][f] = ConversionOf(Declared[t][f])
                         /\ Declared[t][f] \in DOMAIN Enumeration \union Plainly \union {"map"}
  OBVIOUS
<1> USE DEF Reconstructors, Declared, ConversionOf, Enumeration, Plainly
<1>1. CASE t = "PROVENANCE_RECORD"
  BY <1>1
<1>2. CASE t = "UNCERTAINTY_RECORD"
  BY <1>2
<1>3. CASE t = "AUTHORITY_RECORD"
  BY <1>3
<1>4. CASE t = "EVIDENCE_RECORD"
  BY <1>4
<1>5. CASE t = "DEPENDENCY_RECORD"
  BY <1>5
<1>6. CASE t = "ACTOR_IDENTITY"
  BY <1>6
<1>7. CASE t = "CANONICAL_OBJECT"
  BY <1>7
<1>8. CASE t = "INTERPRETATION_RECORD"
  BY <1>8
<1>9. CASE t = "PARTICIPATION_RECORD"
  BY <1>9
<1>10. CASE t = "CONSTITUTIONAL_TRACE"
  BY <1>10
<1> HIDE DEF Reconstructors, Declared, ConversionOf, Enumeration, Plainly
<1> QED
  BY <1>1, <1>2, <1>3, <1>4, <1>5, <1>6, <1>7, <1>8, <1>9, <1>10, RecordTypes

\* The enumerations.
LEMMA EnumerationNames ==
    DOMAIN Enumeration = {"ValidationStatus", "ObjectStatus", "UncertaintyType",
       "InterpretationClass", "AdmissionStatus", "ParticipationRole",
       "InitiationDecision", "ConstitutionalState"}
BY DEF Enumeration

\* The values of an enumeration.
LEMMA EnumerationKind ==
    ASSUME NEW d \in DOMAIN Enumeration
    PROVE  ValuesOf(d) = {Value(d, <<x>>) : x \in Enumeration[d]}
<1>1. CASE d = "ValidationStatus"
  BY <1>1, EnumerationNames DEF ValuesOf
<1>2. CASE d = "ObjectStatus"
  BY <1>2, EnumerationNames DEF ValuesOf
<1>3. CASE d = "UncertaintyType"
  BY <1>3, EnumerationNames DEF ValuesOf
<1>4. CASE d = "InterpretationClass"
  BY <1>4, EnumerationNames DEF ValuesOf
<1>5. CASE d = "AdmissionStatus"
  BY <1>5, EnumerationNames DEF ValuesOf
<1>6. CASE d = "ParticipationRole"
  BY <1>6, EnumerationNames DEF ValuesOf
<1>7. CASE d = "InitiationDecision"
  BY <1>7, EnumerationNames DEF ValuesOf
<1>8. CASE d = "ConstitutionalState"
  BY <1>8, EnumerationNames DEF ValuesOf
<1> QED
  BY <1>1, <1>2, <1>3, <1>4, <1>5, <1>6, <1>7, <1>8, EnumerationNames

\* The reading of an enumeration: its constructor refuses what is not a member.
LEMMA EnumerationReader ==
    ASSUME NEW d \in DOMAIN Enumeration, NEW j
    PROVE  ReadBy(d, j) = IF j.json = "string" /\ j.of[1] \in Enumeration[d]
                          THEN {Value(d, j.of)} ELSE {}
BY EnumerationNames DEF ReadBy

\* A member of an enumeration is read as itself.
LEMMA EnumerationReads ==
    ASSUME NEW d \in DOMAIN Enumeration, NEW v \in ValuesOf(d)
    PROVE  ReadBy(ConversionOf(d), Canonicalize(v)) = {v}
<1>1. ValuesOf(d) = {Value(d, <<x>>) : x \in Enumeration[d]}
  BY EnumerationKind
<1>2. PICK x \in Enumeration[d] : v = Value(d, <<x>>)
  BY <1>1
<1>3. v.is = d /\ v.of = <<x>> /\ v = [is |-> d, of |-> <<x>>]
  BY <1>2 DEF Value
<1>4. ConversionOf(d) = d /\ JsonOf(d) = "string" /\ d # "map"
  BY EnumerationNames DEF ConversionOf, JsonOf
<1>5. Canonicalize(v) = [json |-> "string", of |-> <<x>>]
  BY <1>3, <1>4 DEF Canonicalize
<1> DEFINE j == [json |-> "string", of |-> <<x>>]
<1>6. j.json = "string" /\ j.of[1] = x /\ j.of = <<x>>
  OBVIOUS
<1> HIDE DEF j
<1>7. ReadBy(d, j) = {Value(d, <<x>>)}
  BY <1>6, EnumerationReader
<1> QED
  BY <1>2, <1>4, <1>5, <1>6, <1>7 DEF j

\* None is read as None where it may be.
LEMMA NullReads ==
    /\ Canonicalize(NoValue) = [json |-> "null", of |-> <<>>]
    /\ ReadBy("_optional_uuid", [json |-> "null", of |-> <<>>]) = {NoValue}
    /\ ReadBy("_datetime_or_None", [json |-> "null", of |-> <<>>]) = {NoValue}
BY EnumerationNames DEF Canonicalize, JsonOf, NoValue, Value, ReadBy, OrNone

\* A UUID is read as itself.
LEMMA UuidReads ==
    ASSUME NEW u \in Uuid
    PROVE  /\ ReadBy("_uuid", Canonicalize(Value("uuid", <<u>>))) = {Value("uuid", <<u>>)}
           /\ ReadBy("_optional_uuid", Canonicalize(Value("uuid", <<u>>))) = {Value("uuid", <<u>>)}
<1>1. Canonicalize(Value("uuid", <<u>>)) = [json |-> "string", of |-> <<u>>]
  BY DEF Canonicalize, JsonOf, Value
<1> QED
  BY <1>1, EnumerationNames DEF ReadBy, OrNone, ReadUuid

\* A time with a zone is read as itself.
LEMMA TimeReads ==
    ASSUME NEW t \in Times
    PROVE  /\ ReadBy("_datetime", Canonicalize(Value("time", <<t>>))) = {Value("time", <<t>>)}
           /\ ReadBy("_datetime_or_None", Canonicalize(Value("time", <<t>>))) = {Value("time", <<t>>)}
<1>1. Canonicalize(Value("time", <<t>>)) = [json |-> "string", of |-> <<t>>]
  BY DEF Canonicalize, JsonOf, Value
<1> QED
  BY <1>1, EnumerationNames DEF ReadBy, OrNone, ReadTime

\* The values of the fields that hold UUIDs and times.
LEMMA Kinds ==
    /\ ValuesOf("uuid") = {Value("uuid", <<u>>) : u \in Uuid}
    /\ ValuesOf("uuid?") = {Value("uuid", <<u>>) : u \in Uuid} \union {NoValue}
    /\ ValuesOf("time") = Moments
    /\ ValuesOf("time?") = Moments \union {NoValue}
BY EnumerationNames DEF ValuesOf

\* The values of metadata.
LEMMA MapKind ==
    ASSUME NEW v \in ValuesOf("map")
    PROVE  v = Value("map", <<>>) \/
           \E is \in Plain \union Converted \union Refused, x \in Text : v = Value("map", <<is, x>>)
<1> DEFINE Q == Plain \union Converted \union Refused
           W(is, x) == Value("map", <<is, x>>)
<1>2. ValuesOf("map") = {Value("map", <<>>)} \union {W(is, x) : is \in Q, x \in Text}
  BY EnumerationNames DEF ValuesOf
<1> HIDE DEF Q, W
<1>3. v = Value("map", <<>>) \/ \E is \in Q, x \in Text : v = W(is, x)
  BY <1>2
<1> QED
  BY <1>3 DEF Q, W

\* A list of texts or of UUIDs is read as it was.
LEMMA ListReads ==
    ASSUME NEW is \in {"texts", "uuids"}, NEW items, NEW S,
           is = "texts" => (S = Text /\ items = STRING),
           is = "uuids" => (S = Uuid /\ items = Uuid),
           NEW x \in {<<>>} \union {<<y>> : y \in S} \union (S \X S)
    PROVE  ReadList(Canonicalize(Value(is, x)), is, items) = {Value(is, x)}
<1>1. S \subseteq items
  BY SpellingAssumption
<1>2. \A i \in 1 .. Len(x) : x[i] \in items
  <2>1. CASE x = <<>>
    BY <2>1
  <2>2. CASE x \in {<<y>> : y \in S}
    BY <1>1, <2>2
  <2>3. CASE x \in S \X S
    BY <1>1, <2>3
  <2> QED
    BY <2>1, <2>2, <2>3
<1>3. Canonicalize(Value(is, x)) = [json |-> "array", of |-> x]
  BY DEF Canonicalize, JsonOf, Value
<1> QED
  BY <1>2, <1>3 DEF ReadList

\* The values of lists, and their reading.
LEMMA ListKinds ==
    /\ ValuesOf("texts") =
         {Value("texts", x) : x \in {<<>>} \union {<<y>> : y \in Text} \union (Text \X Text)}
    /\ ValuesOf("uuids") =
         {Value("uuids", x) : x \in {<<>>} \union {<<u>> : u \in Uuid} \union (Uuid \X Uuid)}
    /\ ConversionOf("texts") = "_tuple_of_text" /\ ConversionOf("uuids") = "_tuple_of_uuid"
    /\ \A j : ReadBy("_tuple_of_text", j) = ReadList(j, "texts", STRING)
    /\ \A j : ReadBy("_tuple_of_uuid", j) = ReadList(j, "uuids", Uuid)
<1>1. ValuesOf("texts") =
        {Value("texts", x) : x \in {<<>>} \union {<<y>> : y \in Text} \union (Text \X Text)}
  BY EnumerationNames DEF ValuesOf
<1>2. ValuesOf("uuids") =
        {Value("uuids", x) : x \in {<<>>} \union {<<u>> : u \in Uuid} \union (Uuid \X Uuid)}
  BY EnumerationNames DEF ValuesOf
<1>3. /\ ConversionOf("texts") = "_tuple_of_text" /\ ConversionOf("uuids") = "_tuple_of_uuid"
      /\ \A j : ReadBy("_tuple_of_text", j) = ReadList(j, "texts", STRING)
      /\ \A j : ReadBy("_tuple_of_uuid", j) = ReadList(j, "uuids", Uuid)
  BY EnumerationNames DEF ConversionOf, ReadBy
<1> QED
  BY <1>1, <1>2, <1>3

\* The conversions of UUIDs and times.
LEMMA ConversionNames ==
    /\ ConversionOf("uuid") = "_uuid" /\ ConversionOf("uuid?") = "_optional_uuid"
    /\ ConversionOf("time") = "_datetime" /\ ConversionOf("time?") = "_datetime_or_None"
BY DEF ConversionOf

\* A value of every type but metadata is read as it was.
LEMMA ReadsValue ==
    ASSUME NEW d \in DOMAIN Enumeration \union Plainly, NEW v \in ValuesOf(d),
           v.is \notin Refused
    PROVE  ReadBy(ConversionOf(d), Canonicalize(v)) = {v}
<1>1. CASE d \in DOMAIN Enumeration
  BY <1>1, EnumerationReads
<1>2. CASE d = "uuid" \/ d = "uuid?"
  BY <1>2, Kinds, UuidReads, NullReads, ConversionNames
<1>3. CASE d = "time" \/ d = "time?"
  <2>1. Value("naive", <<Time[1]>>).is \in Refused
    BY DEF Value, Refused
  <2>2. (v = NoValue /\ d = "time?") \/ \E t \in Times : v = Value("time", <<t>>)
    BY <1>3, <2>1, Kinds DEF Moments
  <2> QED
    BY <1>3, <2>2, TimeReads, NullReads, ConversionNames
<1>4. CASE d = "text"
  BY <1>4 DEF ValuesOf, Value, Enumeration, ReadBy, ConversionOf,
       Canonicalize, JsonOf, PlainOf
<1>5. CASE d = "bool"
  BY <1>5 DEF ValuesOf, Value, Enumeration, ReadBy, ConversionOf,
       Canonicalize, JsonOf
<1>6. CASE d = "texts"
  <2>1. PICK x \in {<<>>} \union {<<y>> : y \in Text} \union (Text \X Text) : v = Value("texts", x)
    BY <1>6, ListKinds
  <2>2. ReadList(Canonicalize(v), "texts", STRING) = {v}
    BY <2>1, ListReads
  <2> QED
    BY <1>6, <2>2, ListKinds
<1>7. CASE d = "uuids"
  <2>1. PICK x \in {<<>>} \union {<<u>> : u \in Uuid} \union (Uuid \X Uuid) : v = Value("uuids", x)
    BY <1>7, ListKinds
  <2>2. ReadList(Canonicalize(v), "uuids", Uuid) = {v}
    BY <2>1, ListReads
  <2> QED
    BY <1>7, <2>2, ListKinds
<1> QED
  BY <1>1, <1>2, <1>3, <1>4, <1>5, <1>6, <1>7 DEF Plainly

\* Metadata are read as something else exactly if they hold what is not JSON.
LEMMA ReadsMap ==
    ASSUME NEW v \in ValuesOf("map"), v.of # <<>> => v.of[1] \notin Refused
    PROVE  \E w : /\ ReadBy("dict", Canonicalize(v)) = {w}
                  /\ w = v <=> ~(v.of # <<>> /\ v.of[1] \notin Plain)
<1>1. CASE v = [is |-> "map", of |-> <<>>]
  BY <1>1 DEF Value, Enumeration, ReadBy, Canonicalize, JsonOf
<1>2. CASE \E is \in Plain \union Converted, x \in Text : v = [is |-> "map", of |-> <<is, x>>]
  <2>1. PICK is \in Plain \union Converted, x \in Text : v = [is |-> "map", of |-> <<is, x>>]
    BY <1>2
  <2>2. v.of # <<>> /\ v.of[1] = is /\ v.of[2] = x
    BY <2>1
  <2>3. Canonicalize(v) = [json |-> "object", of |-> <<JsonOf(is), x>>]
    BY <2>1, <2>2 DEF Canonicalize, JsonOf
  <2> DEFINE w == [is |-> "map", of |-> <<PlainOf(JsonOf(is)), x>>]
  <2>4. ReadBy("dict", Canonicalize(v)) = {w}
    BY <2>3 DEF ReadBy, Enumeration, Value
  <2>5. PlainOf(JsonOf(is)) = is <=> is \in Plain
    BY DEF PlainOf, JsonOf, Plain, Converted
  <2>6. w.of[1] = PlainOf(JsonOf(is))
    OBVIOUS
  <2>7. w = v <=> is \in Plain
    BY <2>1, <2>2, <2>5, <2>6
  <2> QED
    BY <2>2, <2>4, <2>7
<1>3. v = Value("map", <<>>) \/
      \E is \in Plain \union Converted \union Refused, x \in Text : v = Value("map", <<is, x>>)
  BY MapKind
<1>4. ASSUME NEW is \in Plain \union Converted \union Refused, NEW x \in Text,
             v = Value("map", <<is, x>>)
      PROVE  is \in Plain \union Converted
  <2>1. v.of = <<is, x>> /\ v.of # <<>> /\ v.of[1] = is
    BY <1>4 DEF Value
  <2> QED
    BY <2>1
<1> QED
  BY <1>1, <1>2, <1>3, <1>4 DEF Value

\* Only metadata are a map.
LEMMA MapsAreMaps ==
    /\ \A v \in ValuesOf("map") : v.is = "map"
    /\ \A d \in DOMAIN Enumeration \union Plainly : \A v \in ValuesOf(d) : v.is # "map"
<1>1. \A v \in ValuesOf("map") : v.is = "map"
  BY MapKind DEF Value
<1>2. ASSUME NEW d \in DOMAIN Enumeration, NEW v \in ValuesOf(d)
      PROVE  v.is # "map"
  <2>1. v.is = d
    BY EnumerationKind DEF Value
  <2> QED
    BY <2>1, EnumerationNames
<1>3. ASSUME NEW d \in Plainly, NEW v \in ValuesOf(d)
      PROVE  v.is # "map"
  <2>1. CASE d \in {"uuid", "uuid?", "time", "time?"}
    BY <2>1, Kinds DEF Moments, NoValue, Value
  <2>2. CASE d \in {"text", "bool", "texts", "uuids"}
    BY <2>2, EnumerationNames DEF ValuesOf, Value
  <2> QED
    BY <2>1, <2>2 DEF Plainly
<1> QED
  BY <1>1, <1>2, <1>3

\* What each field of a record is read as.
LEMMA ReadsField ==
    ASSUME NEW r, WellFormed(r), Serializable(r), NEW f \in DOMAIN Declared[r.type]
    PROVE  \E w : /\ ReadBy(Reconstructors[r.type][f], Canonicalize(r.fields[f])) = {w}
                  /\ w = r.fields[f] <=>
                       ~(/\ r.fields[f].is = "map" /\ r.fields[f].of # <<>>
                         /\ r.fields[f].of[1] \notin Plain)
<1> DEFINE d == Declared[r.type][f]
           v == r.fields[f]
<1>1. /\ Reconstructors[r.type][f] = ConversionOf(d)
      /\ d \in DOMAIN Enumeration \union Plainly \union {"map"}
  BY ListsAgree DEF WellFormed
<1>2. v \in ValuesOf(d)
  BY DEF WellFormed
<1>3. f \in DOMAIN r.fields
  BY DEF WellFormed
<1>4. /\ v.is \notin Refused
      /\ ~(v.is = "map" /\ v.of # <<>> /\ v.of[1] \in Refused)
  BY <1>3 DEF Serializable
<1> HIDE DEF d, v
<1>5. CASE d = "map"
  <2>1. v.is = "map" /\ (v.of # <<>> => v.of[1] \notin Refused)
    BY <1>2, <1>4, <1>5, MapsAreMaps
  <2>2. \E w : /\ ReadBy("dict", Canonicalize(v)) = {w}
               /\ w = v <=> ~(v.of # <<>> /\ v.of[1] \notin Plain)
    BY <1>2, <1>5, <2>1, ReadsMap
  <2>3. ConversionOf(d) = "dict"
    BY <1>5 DEF ConversionOf
  <2> QED
    BY <1>1, <2>1, <2>2, <2>3 DEF v
<1>6. CASE d \in DOMAIN Enumeration \union Plainly
  <2>1. v.is # "map" /\ ReadBy(ConversionOf(d), Canonicalize(v)) = {v}
    BY <1>2, <1>4, <1>6, ReadsValue, MapsAreMaps
  <2> QED
    BY <1>1, <2>1 DEF v
<1> QED
  BY <1>1, <1>5, <1>6

\* A record filed under its own type.
LEMMA RoundTrip ==
    ASSUME NEW r, WellFormed(r), Serializable(r)
    PROVE  Reconstruct(r.type, CanonicalDict(r)) = {r} <=> ~Lossy(r)
<1> DEFINE t == r.type
           p == CanonicalDict(r)
           D == DOMAIN Declared[t]
           read == [f \in DOMAIN Reconstructors[t] |->
                      IF f \in DOMAIN p THEN ReadBy(Reconstructors[t][f], p[f]) ELSE {}]
           fields == [f \in DOMAIN read |-> CHOOSE v \in read[f] : TRUE]
           Loss(f) == /\ r.fields[f].is = "map" /\ r.fields[f].of # <<>>
                      /\ r.fields[f].of[1] \notin Plain
<1>1. Reconstruct(t, p) =
        IF (\E f \in DOMAIN read : read[f] = {}) \/ ~Constructible(t, fields)
        THEN {} ELSE {[type |-> t, fields |-> fields]}
  BY DEF Reconstruct
<1>2. t \in RecordType /\ DOMAIN Reconstructors[t] = D
  BY ListsAgree DEF WellFormed
<1>3. DOMAIN r.fields = D /\ r.fields = [f \in D |-> r.fields[f]]
      /\ r = [type |-> t, fields |-> r.fields]
  BY DEF WellFormed
<1>4. DOMAIN p = D /\ \A f \in D : p[f] = Canonicalize(r.fields[f])
  BY <1>3 DEF CanonicalDict
<1>5. DOMAIN read = D /\ DOMAIN fields = D
  BY <1>2
<1>6. \A f \in D : read[f] = ReadBy(Reconstructors[t][f], Canonicalize(r.fields[f]))
  BY <1>2, <1>4
<1>7. fields = [f \in D |-> CHOOSE v \in read[f] : TRUE]
  BY <1>5
<1>8. ~Lossy(r) <=> \A f \in D : ~Loss(f)
  BY <1>3 DEF Lossy
<1> HIDE DEF read, fields, p
<1>9. ASSUME NEW f \in D
      PROVE  read[f] # {} /\ (fields[f] = r.fields[f] <=> ~Loss(f))
  <2>1. PICK w : /\ ReadBy(Reconstructors[t][f], Canonicalize(r.fields[f])) = {w}
                 /\ w = r.fields[f] <=> ~Loss(f)
    BY ReadsField
  <2>2. read[f] = {w}
    BY <1>6, <2>1
  <2>3. fields[f] = CHOOSE v \in read[f] : TRUE
    BY <1>7
  <2>4. fields[f] = w
    BY <2>2, <2>3
  <2> QED
    BY <2>1, <2>2, <2>4
<1> HIDE DEF Loss
<1>10. fields = r.fields <=> \A f \in D : ~Loss(f)
  BY <1>3, <1>5, <1>7, <1>9
<1>11. CASE fields = r.fields
  <2>1. Constructible(t, fields)
    BY <1>11 DEF WellFormed
  <2> QED
    BY <1>1, <1>3, <1>5, <1>8, <1>9, <1>10, <1>11, <2>1 DEF p
<1>12. CASE fields # r.fields
  <2>1. [type |-> t, fields |-> fields] # r
    BY <1>3, <1>12
  <2> QED
    BY <1>1, <1>8, <1>10, <1>12, <2>1 DEF p
<1> QED
  BY <1>11, <1>12

\* A field that no other record has.
OwnField ==
    [PROVENANCE_RECORD |-> "source_ids", UNCERTAINTY_RECORD |-> "uncertainty_type",
     AUTHORITY_RECORD |-> "holder_id", EVIDENCE_RECORD |-> "evidence_type",
     DEPENDENCY_RECORD |-> "dependency_id", ACTOR_IDENTITY |-> "display_name",
     CANONICAL_OBJECT |-> "canonical_name",
     INTERPRETATION_RECORD |-> "interpretation_id",
     PARTICIPATION_RECORD |-> "participation_id", CONSTITUTIONAL_TRACE |-> "trace_id"]

\* It tells the type of a record.
LEMMA OwnFields ==
    \A t, u \in RecordType :
      /\ OwnField[t] \in DOMAIN Declared[t]
      /\ OwnField[t] \in DOMAIN Declared[u] => t = u
<1> SUFFICES ASSUME NEW u \in RecordType
             PROVE  /\ OwnField[u] \in DOMAIN Declared[u]
                    /\ \A t \in RecordType : OwnField[t] \in DOMAIN Declared[u] => t = u
  OBVIOUS
<1> USE DEF Declared, OwnField, RecordType
<1>1. CASE u = "PROVENANCE_RECORD"
  BY <1>1
<1>2. CASE u = "UNCERTAINTY_RECORD"
  BY <1>2
<1>3. CASE u = "AUTHORITY_RECORD"
  BY <1>3
<1>4. CASE u = "EVIDENCE_RECORD"
  BY <1>4
<1>5. CASE u = "DEPENDENCY_RECORD"
  BY <1>5
<1>6. CASE u = "ACTOR_IDENTITY"
  BY <1>6
<1>7. CASE u = "CANONICAL_OBJECT"
  BY <1>7
<1>8. CASE u = "INTERPRETATION_RECORD"
  BY <1>8
<1>9. CASE u = "PARTICIPATION_RECORD"
  BY <1>9
<1>10. CASE u = "CONSTITUTIONAL_TRACE"
  BY <1>10
<1> QED
  BY <1>1, <1>2, <1>3, <1>4, <1>5, <1>6, <1>7, <1>8, <1>9, <1>10

\* A record filed under another type.
LEMMA Misfiled ==
    ASSUME NEW r, WellFormed(r), NEW t \in RecordType, t # r.type
    PROVE  Reconstruct(t, CanonicalDict(r)) = {}
<1>1. r.type \in RecordType /\ DOMAIN CanonicalDict(r) = DOMAIN Declared[r.type]
  BY DEF WellFormed, CanonicalDict
<1>2. OwnField[t] \in DOMAIN Reconstructors[t] /\ OwnField[t] \notin DOMAIN Declared[r.type]
  BY <1>1, OwnFields, ListsAgree
<1> QED
  BY <1>1, <1>2 DEF Reconstruct

-----------------------------------------------------------------------------
(* The invariant.                                                          *)

Done(e) == [data |-> e, synced |-> TRUE]

\* What a caller's temporary and staged files are at each step, and that it
\* has read an envelope back, whole, before it publishes it.
CallerOK(c) ==
    /\ pc[c] \in {"idle", "look", "write", "sync", "replace"} => staged[c] = NoFile
    /\ pc[c] \in {"sync", "replace"} => temporary[c].data = work[c]
    /\ pc[c] = "replace" => temporary[c].synced
    /\ pc[c] = "verify" /\ route[c] = "staging" => staged[c] = Done(work[c])
    /\ pc[c] \in {"publish", "rename"} => staged[c] = Done(work[c])
    /\ pc[c] \in {"publish", "rename", "verify all"} => work[c].whole
    /\ pc[c] # "idle" /\ route[c] = "direct" => work[c] \in direct
    /\ pc[c] = "verify all" => file[work[c].id] # Absent
    /\ pc[c] # "idle" => Serializable(work[c].record)

\* What a name holds, or may hold after a power failure: it is named after its
\* envelope, which has a canonical form.
Fits(x, n) ==
    x = Absent \/ (/\ x \in workload.envelopes /\ x.id = n /\ (x.whole \/ x \in direct)
                   /\ Serializable(x.record))

FilesOK ==
    \A n \in Id : file[n] \in lasting[n] /\ \A x \in lasting[n] : Fits(x, n)

ReturnedOK == \A e \in returned : e.whole /\ file[e.id] # Absent

IInv ==
    /\ workload \in Workload
    /\ TypeOK
    /\ \A c \in Caller : CallerOK(c)
    /\ FilesOK
    /\ ReturnedOK

\* The envelopes of a history are envelopes.
LEMMA EnvelopeTypes ==
    ASSUME workload \in Workload
    PROVE  /\ workload.saves \in Nat /\ workload.trouble \in Nat
           /\ \A e \in workload.envelopes :
                /\ e \in Envelope /\ e.id \in Id /\ e.whole \in BOOLEAN
                /\ e # Absent /\ e # Torn
                /\ e.type \in RecordType /\ WellFormed(e.record)
BY RegistryAssumption DEF Envelope

\* Initially nothing is stored and nobody is saving.
LEMMA InitIInv == Init => IInv
<1> SUFFICES ASSUME Init
             PROVE  IInv
  OBVIOUS
<1>1. workload \in Workload /\ workload.saves \in Nat /\ workload.trouble \in Nat
  BY EnvelopeTypes DEF Init
<1>2. TypeOK
  BY <1>1 DEF Init, TypeOK, NoFile, Stage
<1>3. \A c \in Caller : CallerOK(c)
  BY DEF Init, CallerOK
<1>4. FilesOK /\ ReturnedOK
  BY DEF Init, FilesOK, Fits, ReturnedOK
<1> QED
  BY <1>1, <1>2, <1>3, <1>4 DEF IInv

\* A digest that agrees with that of a file that loads is that of an envelope
\* that is whole.
LEMMA HashWhole ==
    ASSUME NEW x, NEW e, Loads(x), Hash(x) = Hash(e)
    PROVE  x # Absent /\ e.whole = x.whole /\ x.whole /\ e.id = x.id
BY DEF Loads, Hash

\* Callers do not touch each other's variables.
Others(c) ==
    \A d \in Caller \ {c} :
      /\ pc'[d] = pc[d] /\ work'[d] = work[d] /\ route'[d] = route[d]
      /\ staged'[d] = staged[d] /\ temporary'[d] = temporary[d]

\* A step of one caller keeps the invariant if it keeps it for this caller and
\* for the files, and takes no file away.
LEMMA CallerStep ==
    ASSUME IInv, NEW c \in Caller, Others(c), TypeOK', CallerOK(c)', FilesOK',
           workload' = workload, direct \subseteq direct',
           \A n \in Id : file[n] # Absent => file'[n] # Absent,
           \A e \in returned' : e \in returned \/ (e.whole /\ file'[e.id] # Absent)
    PROVE  IInv'
<1>1. workload \in Workload /\ \A e \in workload.envelopes : e.id \in Id
  BY EnvelopeTypes DEF IInv
<1>2. ASSUME NEW d \in Caller
      PROVE  CallerOK(d)'
  <2>1. CASE d = c
    BY <2>1
  <2>2. CASE d # c
    <3>1. /\ pc'[d] = pc[d] /\ work'[d] = work[d] /\ route'[d] = route[d]
          /\ staged'[d] = staged[d] /\ temporary'[d] = temporary[d]
      BY <2>2 DEF Others
    <3>2. file[work[d].id] # Absent => file'[work[d].id] # Absent
      BY <1>1 DEF IInv, TypeOK
    <3>3. CallerOK(d)
      BY DEF IInv
    <3> QED
      BY <3>1, <3>2, <3>3 DEF CallerOK
  <2> QED
    BY <2>1, <2>2
<1>3. ReturnedOK'
  BY <1>1 DEF IInv, TypeOK, ReturnedOK
<1> QED
  BY <1>1, <1>2, <1>3 DEF IInv

\* Where the registry is left alone, its files stay what they were.
LEMMA SameFiles ==
    ASSUME IInv, UNCHANGED <<file, lasting, workload>>, direct \subseteq direct'
    PROVE  FilesOK'
BY DEF IInv, FilesOK, Fits

\* A call that ends, with or without success.
LEMMA LeaveStep ==
    ASSUME IInv, NEW c \in Caller, Leave(c), UNCHANGED registryVars,
           UNCHANGED historyVars, UNCHANGED outages,
           trouble' \in 0 .. workload.trouble, outages <= trouble',
           returned' = returned \/
             (returned' = returned \union {work[c]} /\ work[c].whole
                /\ file[work[c].id] # Absent)
    PROVE  IInv'
<1>1. /\ workload' = workload /\ direct' = direct /\ saves' = saves
      /\ file' = file /\ lasting' = lasting /\ outages' = outages /\ work' = work
  BY DEF Leave, registryVars, historyVars
<1>2. /\ staged' \in [Caller -> [data : workload.envelopes \union {Absent}, synced : BOOLEAN]]
      /\ temporary' \in [Caller -> [data : workload.envelopes \union {Absent}, synced : BOOLEAN]]
      /\ pc' \in [Caller -> Stage]
      /\ route' \in [Caller -> {"direct", "staging"}]
  BY DEF IInv, TypeOK, Leave, Goto, NoFile, Stage
<1>3. returned' \subseteq workload.envelopes
  BY DEF IInv, TypeOK
<1>4. TypeOK'
  BY <1>1, <1>2, <1>3 DEF IInv, TypeOK
<1>5. CallerOK(c)'
  <2>1. pc'[c] = "idle" /\ staged'[c] = NoFile
    BY DEF IInv, TypeOK, Leave, Goto
  <2> QED
    BY <2>1 DEF CallerOK
<1>6. Others(c)
  BY DEF IInv, TypeOK, Leave, Goto, Others
<1>7. FilesOK'
  BY <1>1, SameFiles
<1> QED
  BY <1>1, <1>4, <1>5, <1>6, <1>7, CallerStep

\* A step in the middle of a call: nothing but the caller's own variables.
LEMMA InnerStep ==
    ASSUME IInv, NEW c \in Caller, Others(c), CallerOK(c)',
           UNCHANGED <<registryVars, historyVars, returned, boundVars>>,
           staged' \in [Caller -> [data : workload.envelopes \union {Absent}, synced : BOOLEAN]],
           temporary' \in [Caller -> [data : workload.envelopes \union {Absent}, synced : BOOLEAN]],
           pc' \in [Caller -> Stage], UNCHANGED <<work, route>>
    PROVE  IInv'
<1>1. /\ workload' = workload /\ direct' = direct /\ saves' = saves /\ returned' = returned
      /\ file' = file /\ lasting' = lasting /\ outages' = outages /\ trouble' = trouble
      /\ work' = work /\ route' = route
  BY DEF registryVars, historyVars, boundVars
<1>2. TypeOK'
  BY <1>1 DEF IInv, TypeOK
<1>3. FilesOK'
  BY <1>1, SameFiles
<1> QED
  BY <1>1, <1>2, <1>3, CallerStep

\* A file takes a name: it was synced, is named after its envelope, and is whole
\* or was saved directly.
LEMMA RenameStep ==
    ASSUME IInv, NEW c \in Caller, Others(c), CallerOK(c)', NEW f,
           Rename(f, work[c].id), f = Done(work[c]), work[c].whole \/ work[c] \in direct,
           Serializable(work[c].record),
           UNCHANGED <<historyVars, returned, boundVars>>,
           staged' \in [Caller -> [data : workload.envelopes \union {Absent}, synced : BOOLEAN]],
           temporary' \in [Caller -> [data : workload.envelopes \union {Absent}, synced : BOOLEAN]],
           pc' \in [Caller -> Stage], UNCHANGED <<work, route>>
    PROVE  IInv'
<1>1. /\ workload' = workload /\ direct' = direct /\ saves' = saves /\ returned' = returned
      /\ outages' = outages /\ trouble' = trouble /\ work' = work /\ route' = route
  BY DEF historyVars, boundVars
<1> DEFINE e == work[c]
<1>2. e \in workload.envelopes /\ e.id \in Id /\ e # Absent
  BY EnvelopeTypes DEF IInv, TypeOK
<1>3. /\ file' = [file EXCEPT ![e.id] = e]
      /\ lasting' = [lasting EXCEPT ![e.id] = @ \union {e}]
  BY DEF Rename, Done
<1> HIDE DEF e
<1>4. TypeOK'
  BY <1>1, <1>2, <1>3 DEF IInv, TypeOK
<1>5. FilesOK'
  <2> SUFFICES ASSUME NEW n \in Id
               PROVE  file'[n] \in lasting'[n] /\ \A x \in lasting'[n] : Fits(x, n)'
    BY DEF FilesOK
  <2>1. CASE n = e.id
    <3>1. file'[n] = e /\ lasting'[n] = lasting[n] \union {e}
      BY <1>2, <1>3, <2>1 DEF IInv, TypeOK
    <3> QED
      BY <1>1, <1>2, <2>1, <3>1 DEF IInv, FilesOK, Fits, e
  <2>2. CASE n # e.id
    <3>1. file'[n] = file[n] /\ lasting'[n] = lasting[n]
      BY <1>3, <2>2 DEF IInv, TypeOK
    <3> QED
      BY <1>1, <3>1 DEF IInv, FilesOK, Fits
  <2> QED
    BY <2>1, <2>2
<1>6. \A n \in Id : file[n] # Absent => file'[n] # Absent
  BY <1>2, <1>3 DEF IInv, TypeOK
<1> QED
  BY <1>1, <1>4, <1>5, <1>6, CallerStep

-----------------------------------------------------------------------------
(* The steps.                                                              *)

\* A save begins: the envelope is one of those saved directly, or its staging
\* directory is still empty.
LEMMA SaveKeeps ==
    ASSUME IInv, NEW c \in Caller, NEW e \in workload.envelopes,
           NEW how \in {"direct", "staging"}, Save(c, e, how)
    PROVE  IInv'
<1>1. /\ workload' = workload /\ returned' = returned /\ staged' = staged
      /\ temporary' = temporary /\ file' = file /\ lasting' = lasting
      /\ outages' = outages /\ trouble' = trouble /\ saves' = saves + 1
  BY DEF Save, registryVars, boundVars
<1>2. /\ pc' = [pc EXCEPT ![c] = "look"] /\ work' = [work EXCEPT ![c] = e]
      /\ route' = [route EXCEPT ![c] = how]
      /\ direct' = IF how = "direct" THEN direct \union {e} ELSE direct
  BY DEF Save, Goto
<1>3. saves' \in 0 .. workload.saves
  BY <1>1, EnvelopeTypes DEF IInv, TypeOK, Save
<1>4. direct \subseteq direct' /\ direct' \subseteq workload.envelopes
  BY <1>2 DEF IInv, TypeOK
<1>5. pc' \in [Caller -> Stage] /\ work' \in [Caller -> workload.envelopes]
      /\ route' \in [Caller -> {"direct", "staging"}]
  BY <1>2 DEF IInv, TypeOK, Stage
<1>6. TypeOK'
  BY <1>1, <1>3, <1>4, <1>5 DEF IInv, TypeOK
<1>7. CallerOK(c)'
  <2>1. pc'[c] = "look" /\ work'[c] = e /\ route'[c] = how
    BY <1>2 DEF IInv, TypeOK
  <2>2. staged[c] = NoFile
    BY DEF IInv, CallerOK, Save
  <2>3. staged'[c] = NoFile /\ (how = "direct" => work'[c] \in direct')
    BY <1>1, <1>2, <2>1, <2>2
  <2>4. Serializable(e.record)
    BY DEF Save
  <2> QED
    BY <2>1, <2>3, <2>4 DEF CallerOK, NoFile
<1>8. Others(c)
  BY <1>1, <1>2 DEF IInv, TypeOK, Others
<1>9. FilesOK'
  BY <1>1, <1>4, SameFiles
<1> QED
  BY <1>1, <1>4, <1>6, <1>7, <1>8, <1>9, CallerStep

\* save() is done with an envelope that was read back whole.
LEMMA SavedKeeps ==
    ASSUME IInv, NEW c \in Caller, Saved(c), UNCHANGED <<registryVars, historyVars, boundVars>>,
           work[c].whole, pc[c] # "idle",
           route[c] = "staging" => staged[c] = Done(work[c]),
           route[c] = "direct" => file[work[c].id] # Absent
    PROVE  IInv'
<1>1. CASE route[c] = "staging"
  <2>1. pc' = [pc EXCEPT ![c] = "publish"] /\ UNCHANGED <<staged, temporary, work, route, returned>>
    BY <1>1 DEF Saved, Goto
  <2>2. pc' \in [Caller -> Stage] /\ pc'[c] = "publish" /\ Others(c)
    BY <2>1 DEF IInv, TypeOK, Stage, Others
  <2>3. CallerOK(c)'
    BY <1>1, <2>1, <2>2 DEF IInv, CallerOK, Done, historyVars
  <2> QED
    BY <2>1, <2>2, <2>3, InnerStep DEF IInv, TypeOK
<1>2. CASE route[c] # "staging"
  <2>1. route[c] = "direct"
    BY <1>2 DEF IInv, TypeOK
  <2>2. Leave(c) /\ returned' = returned \union {work[c]}
    BY <1>2 DEF Saved
  <2>3. trouble' \in 0 .. workload.trouble /\ outages <= trouble' /\ UNCHANGED outages
    BY DEF IInv, TypeOK, boundVars
  <2> QED
    BY <2>1, <2>2, <2>3, LeaveStep
<1> QED
  BY <1>1, <1>2

\* A call that raises leaves the registry as it is.
LEMMA RaiseKeeps ==
    ASSUME IInv, NEW c \in Caller, Raise(c), UNCHANGED <<registryVars, historyVars, boundVars>>
    PROVE  IInv'
<1>1. trouble' \in 0 .. workload.trouble /\ outages <= trouble' /\ UNCHANGED outages
  BY DEF IInv, TypeOK, boundVars
<1> QED
  BY <1>1, LeaveStep DEF Raise

\* The file a caller looks at.
LEMMA FileTypes ==
    ASSUME IInv, NEW c \in Caller
    PROVE  /\ pc[c] = "look" /\ route[c] = "staging" => FileOf(c) = Absent
           /\ pc[c] = "verify" /\ route[c] = "staging" => staged[c] = Done(work[c])
           /\ route[c] = "direct" => FileOf(c) = file[work[c].id]
<1>1. CallerOK(c)
  BY DEF IInv
<1>2. pc[c] = "look" => staged[c].data = Absent
  BY <1>1 DEF CallerOK, NoFile
<1> QED
  BY <1>1, <1>2 DEF CallerOK, FileOf

\* save() looks whether the file exists, and reads it if so.
LEMMA LookKeeps == ASSUME IInv, NEW c \in Caller, Look(c) PROVE IInv'
<1>1. CASE FileOf(c) = Absent
  <2>1. /\ pc' = [pc EXCEPT ![c] = "write"] /\ pc[c] = "look"
        /\ UNCHANGED <<staged, temporary, work, route, returned>>
        /\ UNCHANGED <<registryVars, historyVars, boundVars>>
    BY <1>1 DEF Look, Goto
  <2>2. pc' \in [Caller -> Stage] /\ pc'[c] = "write" /\ Others(c)
    BY <2>1 DEF IInv, TypeOK, Stage, Others
  <2>3. CallerOK(c)'
    BY <2>1, <2>2 DEF IInv, CallerOK, historyVars
  <2> QED
    BY <2>1, <2>2, <2>3, InnerStep DEF IInv, TypeOK
<1>2. CASE FileOf(c) # Absent /\ Loads(FileOf(c)) /\ Hash(FileOf(c)) = Hash(work[c])
  <2>1. Saved(c) /\ UNCHANGED <<registryVars, historyVars, boundVars>> /\ pc[c] = "look"
    BY <1>2 DEF Look
  <2>2. work[c].whole
    BY <1>2, HashWhole
  <2>3. route[c] # "staging" /\ (route[c] = "direct" => file[work[c].id] # Absent)
    BY <1>2, <2>1, FileTypes
  <2> QED
    BY <2>1, <2>2, <2>3, SavedKeeps
<1>3. CASE FileOf(c) # Absent /\ ~(Loads(FileOf(c)) /\ Hash(FileOf(c)) = Hash(work[c]))
  BY <1>3, RaiseKeeps DEF Look
<1> QED
  BY <1>1, <1>2, <1>3

\* The temporary file is written.
LEMMA WriteKeeps == ASSUME IInv, NEW c \in Caller, Write(c) PROVE IInv'
<1>1. /\ pc[c] = "write" /\ pc' = [pc EXCEPT ![c] = "sync"]
      /\ temporary' = [temporary EXCEPT ![c] = [data |-> work[c], synced |-> FALSE]]
      /\ UNCHANGED <<staged, work, route>>
      /\ UNCHANGED <<registryVars, historyVars, returned, boundVars>>
  BY DEF Write, Goto
<1>2. pc' \in [Caller -> Stage] /\ pc'[c] = "sync" /\ Others(c)
  BY <1>1 DEF IInv, TypeOK, Stage, Others
<1>3. /\ temporary' \in [Caller -> [data : workload.envelopes \union {Absent}, synced : BOOLEAN]]
      /\ temporary'[c].data = work[c]
  BY <1>1 DEF IInv, TypeOK
<1>4. CallerOK(c)'
  BY <1>1, <1>2, <1>3 DEF IInv, CallerOK, historyVars
<1> QED
  BY <1>1, <1>2, <1>3, <1>4, InnerStep DEF IInv, TypeOK

\* The temporary file is synced.
LEMMA SyncKeeps == ASSUME IInv, NEW c \in Caller, Sync(c) PROVE IInv'
<1>1. /\ pc[c] = "sync" /\ pc' = [pc EXCEPT ![c] = "replace"]
      /\ temporary' = [temporary EXCEPT ![c].synced = TRUE]
      /\ UNCHANGED <<staged, work, route>>
      /\ UNCHANGED <<registryVars, historyVars, returned, boundVars>>
  BY DEF Sync, Goto
<1>2. pc' \in [Caller -> Stage] /\ pc'[c] = "replace" /\ Others(c)
  BY <1>1 DEF IInv, TypeOK, Stage, Others
<1>3. /\ temporary' \in [Caller -> [data : workload.envelopes \union {Absent}, synced : BOOLEAN]]
      /\ temporary'[c].data = temporary[c].data /\ temporary'[c].synced
  BY <1>1 DEF IInv, TypeOK
<1>4. CallerOK(c)'
  BY <1>1, <1>2, <1>3 DEF IInv, CallerOK, historyVars
<1> QED
  BY <1>1, <1>2, <1>3, <1>4, InnerStep DEF IInv, TypeOK

\* What is in a synced temporary file.
LEMMA SyncedFile ==
    ASSUME IInv, NEW c \in Caller, pc[c] = "replace"
    PROVE  temporary[c] = Done(work[c])
<1>1. temporary[c] \in [data : workload.envelopes \union {Absent}, synced : BOOLEAN]
  BY DEF IInv, TypeOK
<1>2. temporary[c].data = work[c] /\ temporary[c].synced
  BY DEF IInv, CallerOK
<1> QED
  BY <1>1, <1>2 DEF Done

\* The temporary file takes the name, in the registry or in the staging directory.
LEMMA ReplaceKeeps == ASSUME IInv, NEW c \in Caller, Replace(c) PROVE IInv'
<1>1. /\ pc[c] = "replace" /\ pc' = [pc EXCEPT ![c] = "verify"]
      /\ temporary' = [temporary EXCEPT ![c] = NoFile]
      /\ UNCHANGED <<work, route>> /\ UNCHANGED <<historyVars, returned, boundVars>>
  BY DEF Replace, Goto
<1>2. temporary[c] = Done(work[c])
  BY <1>1, SyncedFile
<1>3. pc' \in [Caller -> Stage] /\ pc'[c] = "verify"
  BY <1>1 DEF IInv, TypeOK, Stage
<1>4. temporary' \in [Caller -> [data : workload.envelopes \union {Absent}, synced : BOOLEAN]]
  BY <1>1 DEF IInv, TypeOK, NoFile
<1>5. CASE route[c] = "staging"
  <2>1. staged' = [staged EXCEPT ![c] = Done(work[c])] /\ UNCHANGED registryVars
    BY <1>2, <1>5 DEF Replace
  <2>2. /\ staged' \in [Caller -> [data : workload.envelopes \union {Absent}, synced : BOOLEAN]]
        /\ staged'[c] = Done(work[c])
    BY <2>1 DEF IInv, TypeOK, Done
  <2>3. Others(c)
    BY <1>1, <2>1 DEF IInv, TypeOK, Others
  <2>4. CallerOK(c)'
    BY <1>1, <1>3, <1>5, <2>2 DEF IInv, CallerOK, historyVars
  <2> QED
    BY <1>1, <1>3, <1>4, <2>1, <2>2, <2>3, <2>4, InnerStep
<1>6. CASE route[c] # "staging"
  <2>1. Rename(temporary[c], work[c].id) /\ staged' = staged
    BY <1>6 DEF Replace
  <2>2. route[c] = "direct" /\ work[c] \in direct /\ Serializable(work[c].record)
    BY <1>1, <1>6 DEF IInv, TypeOK, CallerOK
  <2>3. Others(c)
    BY <1>1, <2>1 DEF IInv, TypeOK, Others
  <2>4. CallerOK(c)'
    BY <1>1, <1>3, <2>2 DEF CallerOK, historyVars
  <2>5. staged' \in [Caller -> [data : workload.envelopes \union {Absent}, synced : BOOLEAN]]
    BY <2>1 DEF IInv, TypeOK
  <2> QED
    BY <1>1, <1>2, <1>3, <1>4, <2>1, <2>2, <2>3, <2>4, <2>5, RenameStep
<1> QED
  BY <1>5, <1>6

\* The file is read again, and what is not what was saved makes the call raise.
LEMMA VerifyKeeps == ASSUME IInv, NEW c \in Caller, Verify(c) PROVE IInv'
<1>1. CASE Loads(FileOf(c)) /\ Hash(FileOf(c)) = Hash(work[c])
  <2>1. Saved(c) /\ UNCHANGED <<registryVars, historyVars, boundVars>> /\ pc[c] = "verify"
    BY <1>1 DEF Verify
  <2>2. work[c].whole /\ FileOf(c) # Absent
    BY <1>1, HashWhole
  <2>3. route[c] = "staging" => staged[c] = Done(work[c])
    BY <2>1, FileTypes
  <2>4. route[c] = "direct" => file[work[c].id] # Absent
    BY <2>2, FileTypes
  <2> QED
    BY <2>1, <2>2, <2>3, <2>4, SavedKeeps
<1>2. CASE ~(Loads(FileOf(c)) /\ Hash(FileOf(c)) = Hash(work[c]))
  BY <1>2, RaiseKeeps DEF Verify
<1> QED
  BY <1>1, <1>2

\* commit() finds the name taken.
LEMMA PublishPresentKeeps == ASSUME IInv, NEW c \in Caller, PublishPresent(c) PROVE IInv'
<1>1. CASE Loads(file[work[c].id]) /\ Hash(file[work[c].id]) = Hash(work[c])
  <2>1. /\ pc' = [pc EXCEPT ![c] = "verify all"] /\ pc[c] = "publish"
        /\ UNCHANGED <<staged, temporary, work, route, returned>>
        /\ UNCHANGED <<registryVars, historyVars, boundVars>>
        /\ file[work[c].id] # Absent
    BY <1>1 DEF PublishPresent, Goto
  <2>2. pc' \in [Caller -> Stage] /\ pc'[c] = "verify all" /\ Others(c)
    BY <2>1 DEF IInv, TypeOK, Stage, Others
  <2>3. CallerOK(c)'
    BY <2>1, <2>2 DEF IInv, CallerOK, historyVars, registryVars
  <2> QED
    BY <2>1, <2>2, <2>3, InnerStep DEF IInv, TypeOK
<1>2. CASE ~(Loads(file[work[c].id]) /\ Hash(file[work[c].id]) = Hash(work[c]))
  BY <1>2, RaiseKeeps DEF PublishPresent
<1> QED
  BY <1>1, <1>2

\* commit() finds it free.
LEMMA PublishAbsentKeeps == ASSUME IInv, NEW c \in Caller, PublishAbsent(c) PROVE IInv'
<1>1. /\ pc' = [pc EXCEPT ![c] = "rename"] /\ pc[c] = "publish"
      /\ UNCHANGED <<staged, temporary, work, route>>
      /\ UNCHANGED <<registryVars, historyVars, returned, boundVars>>
  BY DEF PublishAbsent, Goto
<1>2. pc' \in [Caller -> Stage] /\ pc'[c] = "rename" /\ Others(c)
  BY <1>1 DEF IInv, TypeOK, Stage, Others
<1>3. CallerOK(c)'
  BY <1>1, <1>2 DEF IInv, CallerOK, historyVars, Done
<1> QED
  BY <1>1, <1>2, <1>3, InnerStep DEF IInv, TypeOK

\* The staged file takes the name.
LEMMA PublishKeeps == ASSUME IInv, NEW c \in Caller, Publish(c) PROVE IInv'
<1>1. /\ pc' = [pc EXCEPT ![c] = "verify all"] /\ pc[c] = "rename"
      /\ staged' = [staged EXCEPT ![c] = NoFile]
      /\ UNCHANGED temporary /\ UNCHANGED <<work, route>>
      /\ UNCHANGED <<historyVars, returned, boundVars>>
      /\ Rename(staged[c], work[c].id)
  BY DEF Publish, Goto
<1>2. staged[c] = Done(work[c]) /\ work[c].whole /\ Serializable(work[c].record)
  BY <1>1 DEF IInv, CallerOK
<1>3. pc' \in [Caller -> Stage] /\ pc'[c] = "verify all" /\ Others(c)
  BY <1>1 DEF IInv, TypeOK, Stage, Others
<1>4. /\ staged' \in [Caller -> [data : workload.envelopes \union {Absent}, synced : BOOLEAN]]
      /\ temporary' \in [Caller -> [data : workload.envelopes \union {Absent}, synced : BOOLEAN]]
  BY <1>1 DEF IInv, TypeOK, NoFile
<1>5. file'[work[c].id] # Absent
  <2>1. work[c] # Absent /\ work[c].id \in Id
    BY EnvelopeTypes DEF IInv, TypeOK
  <2>2. staged[c].data = work[c]
    BY <1>2 DEF Done
  <2>3. file' = [file EXCEPT ![work[c].id] = work[c]]
    BY <1>1, <2>2 DEF Rename
  <2> QED
    BY <2>1, <2>3 DEF IInv, TypeOK
<1>6. CallerOK(c)'
  <2>1. (route[c] = "direct" => work[c] \in direct) /\ Serializable(work[c].record)
    BY <1>1 DEF IInv, CallerOK
  <2>2. work' = work /\ route' = route /\ direct' = direct
    BY <1>1 DEF historyVars
  <2> QED
    BY <1>2, <1>3, <1>5, <2>1, <2>2 DEF CallerOK
<1> QED
  BY <1>1, <1>2, <1>3, <1>4, <1>6, RenameStep

\* verify_all() reads every file.
LEMMA VerifyAllKeeps == ASSUME IInv, NEW c \in Caller, VerifyAll(c) PROVE IInv'
<1>1. CASE \A n \in Id : file[n] = Absent \/ Loads(file[n])
  <2>1. /\ Leave(c) /\ returned' = returned \union {work[c]} /\ pc[c] = "verify all"
        /\ UNCHANGED <<registryVars, historyVars, boundVars>>
    BY <1>1 DEF VerifyAll
  <2>2. work[c].whole /\ file[work[c].id] # Absent
    BY <2>1 DEF IInv, CallerOK
  <2>3. trouble' = trouble /\ outages' = outages
    BY <2>1 DEF boundVars
  <2>4. trouble' \in 0 .. workload.trouble /\ outages <= trouble'
    BY <2>3 DEF IInv, TypeOK
  <2> QED
    BY <2>1, <2>2, <2>3, <2>4, LeaveStep
<1>2. CASE ~(\A n \in Id : file[n] = Absent \/ Loads(file[n]))
  BY <1>2, RaiseKeeps DEF VerifyAll
<1> QED
  BY <1>1, <1>2

\* An error, or the end of a process.
LEMMA FailKeeps == ASSUME IInv, NEW c \in Caller, Fail(c) PROVE IInv'
<1>1. workload.trouble \in Nat
  BY EnvelopeTypes DEF IInv
<1>2. /\ trouble < workload.trouble /\ trouble' = trouble + 1
      /\ trouble \in 0 .. workload.trouble /\ outages \in 0 .. trouble
  BY DEF Fail, IInv, TypeOK
<1>3. trouble' \in 0 .. workload.trouble /\ outages <= trouble'
  BY <1>1, <1>2
<1> QED
  BY <1>3, LeaveStep DEF Fail, Raise

\* The directory reaches the disk.
LEMMA SettleKeeps == ASSUME IInv, NEW n \in Id, Settle(n) PROVE IInv'
<1>1. /\ lasting' = [lasting EXCEPT ![n] = {file[n]}] /\ file' = file
      /\ UNCHANGED <<staged, temporary, pc, work, route, workload, direct, saves,
                     returned, trouble, outages>>
  BY DEF Settle, callerVars, historyVars, boundVars
<1>2. TypeOK'
  BY <1>1 DEF IInv, TypeOK
<1>3. \A c \in Caller : CallerOK(c)'
  BY <1>1 DEF IInv, CallerOK, Done, NoFile
<1>4. FilesOK'
  BY <1>1 DEF IInv, TypeOK, FilesOK, Fits
<1>5. ReturnedOK'
  BY <1>1 DEF IInv, ReturnedOK
<1> QED
  BY <1>1, <1>2, <1>3, <1>4, <1>5 DEF IInv

\* The power fails.
LEMMA PowerKeeps == ASSUME IInv, PowerFails PROVE IInv'
<1>1. /\ \A n \in Id : file'[n] \in lasting[n]
      /\ lasting' = [n \in Id |-> {file'[n]}]
      /\ staged' = [c \in Caller |-> NoFile] /\ temporary' = [c \in Caller |-> NoFile]
      /\ pc' = [c \in Caller |-> "idle"] /\ route' = [c \in Caller |-> "direct"]
      /\ returned' = {}
      /\ UNCHANGED <<work, workload, direct, saves>>
  BY DEF PowerFails, historyVars
<1>2. file' \in [Id -> workload.envelopes \union {Absent}]
  <2>1. \A n \in Id : file'[n] \in workload.envelopes \union {Absent}
    BY <1>1 DEF IInv, FilesOK, Fits
  <2>2. file' \in [Id -> UNION {lasting[n] : n \in Id}]
    BY DEF PowerFails
  <2> QED
    BY <2>1, <2>2
<1>3. trouble' \in 0 .. workload.trouble /\ outages' \in 0 .. trouble'
  BY EnvelopeTypes DEF IInv, TypeOK, PowerFails
<1>4. TypeOK'
  <2>1. /\ file' \in [Id -> workload.envelopes \union {Absent, Torn}]
        /\ lasting' \in [Id -> SUBSET (workload.envelopes \union {Absent, Torn})]
    BY <1>1, <1>2
  <2>2. /\ staged' \in [Caller -> [data : workload.envelopes \union {Absent}, synced : BOOLEAN]]
        /\ temporary' \in [Caller -> [data : workload.envelopes \union {Absent}, synced : BOOLEAN]]
        /\ pc' \in [Caller -> Stage] /\ route' \in [Caller -> {"direct", "staging"}]
    BY <1>1 DEF NoFile, Stage
  <2> QED
    BY <1>1, <1>3, <2>1, <2>2 DEF IInv, TypeOK
<1>5. \A c \in Caller : CallerOK(c)'
  BY <1>1 DEF CallerOK, NoFile
<1>6. FilesOK'
  BY <1>1 DEF IInv, FilesOK, Fits
<1>7. ReturnedOK'
  BY <1>1 DEF ReturnedOK
<1> QED
  BY <1>1, <1>4, <1>5, <1>6, <1>7 DEF IInv

\* Every step keeps the invariant.
LEMMA NextIInv == IInv /\ [Next]_vars => IInv'
<1> SUFFICES ASSUME IInv, [Next]_vars
             PROVE  IInv'
  OBVIOUS
<1>1. CASE UNCHANGED vars
  <2>1. UNCHANGED <<workload, file, lasting, staged, temporary, pc, work, route,
                    returned, direct, saves, trouble, outages>>
    BY <1>1 DEF vars, registryVars, callerVars, historyVars, boundVars
  <2> QED
    BY <2>1 DEF IInv, TypeOK, CallerOK, FilesOK, Fits, ReturnedOK, Done, NoFile
<1>2. CASE \E c \in Caller : \E e \in workload.envelopes, how \in {"direct", "staging"} :
             Save(c, e, how)
  BY <1>2, SaveKeeps
<1>3. CASE \E c \in Caller : SaveStep(c)
  BY <1>3, LookKeeps, WriteKeeps, SyncKeeps, ReplaceKeeps, VerifyKeeps,
     PublishPresentKeeps, PublishAbsentKeeps, PublishKeeps, VerifyAllKeeps DEF SaveStep
<1>4. CASE \E c \in Caller : Fail(c)
  BY <1>4, FailKeeps
<1>5. CASE \E n \in Id : Settle(n)
  BY <1>5, SettleKeeps
<1>6. CASE PowerFails
  BY <1>6, PowerKeeps
<1> QED
  BY <1>1, <1>2, <1>3, <1>4, <1>5, <1>6 DEF Next

\* The invariant holds of every history.
LEMMA Invariant == Spec => []IInv
<1> QED
  BY InitIInv, NextIInv, PTL DEF Spec

-----------------------------------------------------------------------------
(* What follows.                                                           *)

\* The variables keep their types.
THEOREM TypeCorrect == Spec => []TypeOK
<1>1. IInv => TypeOK
  BY DEF IInv
<1> QED
  BY <1>1, Invariant, PTL

\* No half file is ever found under a name, by a reader or after a power failure.
THEOREM NeverHalfAFile == Spec => []NeverTorn
<1>1. IInv => NeverTorn
  <2> SUFFICES ASSUME IInv, NEW n \in Id
               PROVE  file[n] # Torn /\ Torn \notin lasting[n]
    BY DEF NeverTorn
  <2>1. \A e \in workload.envelopes : e # Torn
    BY EnvelopeTypes DEF IInv
  <2>2. file[n] \in lasting[n] /\ \A x \in lasting[n] : x = Absent \/ x \in workload.envelopes
    BY DEF IInv, FilesOK, Fits
  <2> QED
    BY <2>1, <2>2, RegistryAssumption
<1> QED
  BY <1>1, Invariant, PTL

\* A file that load() refuses was saved directly, by a call that raised.
THEOREM UnreadableWereRefused == Spec => []UnreadableWasRefused
<1>1. IInv => UnreadableWasRefused
  <2> SUFFICES ASSUME IInv, NEW n \in Id, file[n] # Absent, ~Loads(file[n])
               PROVE  file[n] \in direct \ returned
    BY DEF UnreadableWasRefused
  <2>1. /\ file[n] \in workload.envelopes
        /\ file[n].whole \/ file[n] \in direct
    BY DEF IInv, FilesOK, Fits
  <2>2. file[n] # Torn
    BY <2>1, EnvelopeTypes DEF IInv
  <2>3. ~file[n].whole
    BY <2>2 DEF Loads
  <2>4. file[n] \notin returned
    BY <2>3 DEF IInv, ReturnedOK
  <2> QED
    BY <2>1, <2>3, <2>4
<1> QED
  BY <1>1, Invariant, PTL

\* A file of an envelope that is alone under its id holds it or nothing.
LEMMA AloneFits ==
    ASSUME IInv, NEW e \in workload.envelopes, Alone(e), NEW x \in lasting[e.id]
    PROVE  x = Absent \/ x = e
<1>1. e.id \in Id
  BY EnvelopeTypes DEF IInv
<1> QED
  BY <1>1 DEF IInv, FilesOK, Fits, Alone

\* Whatever a step is, but for a power failure: it takes nothing back.
LEMMA StepKeepsReturned ==
    ASSUME IInv, [Next]_vars, ~PowerFails
    PROVE  returned \subseteq returned' /\ workload' = workload
<1>1. CASE UNCHANGED vars
  BY <1>1 DEF vars, historyVars
<1>2. ASSUME NEW c \in Caller, NEW e \in workload.envelopes,
             NEW how \in {"direct", "staging"}, Save(c, e, how)
      PROVE  returned \subseteq returned' /\ workload' = workload
  BY <1>2 DEF Save
<1>3. ASSUME NEW c \in Caller, Look(c) \/ Verify(c) \/ PublishPresent(c) \/ VerifyAll(c) \/ Fail(c)
      PROVE  returned \subseteq returned' /\ workload' = workload
  BY <1>3 DEF Look, Verify, PublishPresent, VerifyAll, Fail, Saved, Raise, historyVars
<1>4. ASSUME NEW c \in Caller, Write(c) \/ Sync(c) \/ Replace(c) \/ PublishAbsent(c) \/ Publish(c)
      PROVE  returned \subseteq returned' /\ workload' = workload
  BY <1>4 DEF Write, Sync, Replace, PublishAbsent, Publish, historyVars
<1>5. ASSUME NEW n \in Id, Settle(n)
      PROVE  returned \subseteq returned' /\ workload' = workload
  BY <1>5 DEF Settle, historyVars
<1> QED
  BY <1>1, <1>2, <1>3, <1>4, <1>5 DEF Next, SaveStep

\* What was saved stays, and only a power failure takes it away, to leave nothing.
THEOREM ReturnedStay == Spec => ReturnedStays
<1> DEFINE Stays ==
      /\ \A e \in returned' : Alone(e) => file'[e.id] = e
      /\ \A e \in returned : (Alone(e) /\ file'[e.id] # e) =>
           outages' > outages /\ file'[e.id] = Absent /\ Absent \in lasting[e.id]
<1>1. IInv /\ IInv' /\ [Next]_vars => Stays
  <2> SUFFICES ASSUME IInv, IInv', [Next]_vars
               PROVE  Stays
    OBVIOUS
  <2>1. CASE PowerFails
    <3>1. returned' = {} /\ outages' = outages + 1 /\ \A n \in Id : file'[n] \in lasting[n]
      BY <2>1 DEF PowerFails
    <3>2. outages \in Nat
      BY DEF IInv, TypeOK
    <3>3. ASSUME NEW e \in returned, Alone(e), file'[e.id] # e
          PROVE  outages' > outages /\ file'[e.id] = Absent /\ Absent \in lasting[e.id]
      <4>1. e \in workload.envelopes /\ e.id \in Id
        BY EnvelopeTypes DEF IInv, TypeOK
      <4>2. file'[e.id] \in lasting[e.id]
        BY <3>1, <4>1
      <4>3. file'[e.id] = Absent
        BY <3>3, <4>1, <4>2, AloneFits
      <4> QED
        BY <3>1, <3>2, <4>2, <4>3
    <3> QED
      BY <3>1, <3>3
  <2>2. CASE ~PowerFails
    <3>1. returned \subseteq returned' /\ workload' = workload
      BY <2>2, StepKeepsReturned
    <3>2. ASSUME NEW e \in returned', Alone(e)
          PROVE  file'[e.id] = e
      <4>1. e \in workload'.envelopes /\ e.id \in Id
        BY <3>1, EnvelopeTypes DEF IInv, TypeOK
      <4>2. /\ file'[e.id] \in lasting'[e.id] /\ file'[e.id] # Absent
            /\ \A x \in lasting'[e.id] : x = Absent \/ (x \in workload'.envelopes /\ x.id = e.id)
        BY <4>1 DEF IInv, FilesOK, Fits, ReturnedOK
      <4> QED
        BY <3>1, <3>2, <4>2 DEF Alone
    <3> QED
      BY <3>1, <3>2
  <2> QED
    BY <2>1, <2>2
<1>2. IInv /\ IInv' /\ [Next]_vars => [Stays]_vars
  BY <1>1
<1> HIDE DEF Stays
<1>3. Spec => [][Stays]_vars
  BY <1>2, Invariant, PTL DEF Spec
<1> QED
  BY <1>3 DEF Stays, ReturnedStays

\* Every file reads back as the record that was saved, exactly if its metadata
\* are JSON; one that is filed under another type is never read as a record.
THEOREM RecordsReadBack == Spec => []ReadsBack
<1>1. IInv => ReadsBack
  <2> SUFFICES ASSUME IInv, NEW n \in Id, file[n] \notin {Absent, Torn}
               PROVE  LET e == file[n]
                          read == Reconstruct(e.type, CanonicalDict(e.record))
                      IN  IF e.type = e.record.type
                          THEN read = {e.record} <=> ~Lossy(e.record)
                          ELSE read = {}
    BY DEF ReadsBack
  <2> DEFINE e == file[n]
  <2>1. e \in workload.envelopes /\ Serializable(e.record)
    BY DEF IInv, FilesOK, Fits
  <2>2. e.type \in RecordType /\ WellFormed(e.record)
    BY <2>1, EnvelopeTypes DEF IInv
  <2> HIDE DEF e
  <2>3. CASE e.type = e.record.type
    BY <2>1, <2>2, <2>3, RoundTrip DEF e
  <2>4. CASE e.type # e.record.type
    BY <2>2, <2>4, Misfiled DEF e
  <2> QED
    BY <2>3, <2>4
<1> QED
  BY <1>1, Invariant, PTL

-----------------------------------------------------------------------------
(* What the comparison of two digests is worth.                            *)

\* Two records that become the same text are the same, of whatever types they
\* are, if their metadata hold nothing but JSON: the digest of the payload, by
\* which save() and commit() compare a file with an envelope, decides.
THEOREM CanonicalFormDecides ==
    ASSUME NEW r, WellFormed(r), Serializable(r), ~Lossy(r),
           NEW s, WellFormed(s), Serializable(s), ~Lossy(s),
           CanonicalDict(r) = CanonicalDict(s)
    PROVE  r = s
<1>1. r.type \in RecordType /\ s.type \in RecordType
  BY DEF WellFormed
<1>2. Reconstruct(r.type, CanonicalDict(r)) = {r} /\ Reconstruct(s.type, CanonicalDict(s)) = {s}
  BY RoundTrip
<1>3. CASE r.type = s.type
  BY <1>2, <1>3
<1>4. CASE r.type # s.type
  <2>1. Reconstruct(r.type, CanonicalDict(s)) = {}
    BY <1>1, <1>4, Misfiled
  <2> QED
    BY <1>2, <2>1
<1> QED
  BY <1>3, <1>4

\* What is read under a name.
ReadUnder(n) == Reconstruct(file[n].type, CanonicalDict(file[n].record))

\* Where an envelope has been saved directly the file under its id reads back as
\* the record of the caller, also when save() found the file there and compared
\* digests, whoever wrote it and whatever it was made from; and no other record
\* with JSON metadata is there.
SavedReadsBack ==
    [][\A c \in Caller : LET e == work[c] IN
         (/\ pc[c] \in {"look", "verify"} /\ pc'[c] = "idle" /\ route[c] = "direct"
          /\ e \in returned' /\ e \notin returned
          /\ e.type = e.record.type /\ ~Lossy(e.record))
           => /\ ReadUnder(e.id) = {e.record}
              /\ Lossy(file[e.id].record) \/ file[e.id].record = e.record]_vars

\* A file whose digest is that of an envelope reads back as its record.
LEMMA SameHashReads ==
    ASSUME IInv, NEW e \in workload.envelopes, Serializable(e.record),
           Loads(file[e.id]), Hash(file[e.id]) = Hash(e),
           e.type = e.record.type, ~Lossy(e.record)
    PROVE  /\ ReadUnder(e.id) = {e.record}
           /\ Lossy(file[e.id].record) \/ file[e.id].record = e.record
<1> DEFINE d == file[e.id]
<1>1. e.id \in Id /\ WellFormed(e.record)
  BY EnvelopeTypes DEF IInv
<1>2. d.type = e.type /\ CanonicalDict(d.record) = CanonicalDict(e.record)
  BY DEF Hash
<1>3. d # Absent /\ Fits(d, e.id)
  BY <1>1 DEF IInv, FilesOK, Loads
<1>4. WellFormed(d.record) /\ Serializable(d.record)
  BY <1>3, EnvelopeTypes DEF IInv, Fits
<1>5. ReadUnder(e.id) = {e.record}
  BY <1>1, <1>2, RoundTrip DEF ReadUnder
<1> HIDE DEF d
<1>6. Lossy(d.record) \/ d.record = e.record
  BY <1>1, <1>2, <1>4, CanonicalFormDecides
<1> QED
  BY <1>5, <1>6 DEF d

\* Who adds an envelope to what was returned has just compared the digests, or
\* is at the end of a transaction.
LEMMA ReturnedBy ==
    ASSUME IInv, [Next]_vars, NEW e \in returned', e \notin returned
    PROVE  \E c \in Caller :
             /\ work[c] = e
             /\ \/ /\ pc[c] \in {"look", "verify"} /\ route[c] = "direct"
                   /\ Loads(file[e.id]) /\ Hash(file[e.id]) = Hash(e)
                \/ pc[c] = "verify all"
             /\ \A d \in Caller \ {c} : pc'[d] = pc[d]
<1>1. ASSUME NEW c \in Caller, Look(c) \/ Verify(c)
      PROVE  /\ work[c] = e /\ pc[c] \in {"look", "verify"} /\ route[c] = "direct"
             /\ Loads(file[e.id]) /\ Hash(file[e.id]) = Hash(e)
             /\ \A d \in Caller \ {c} : pc'[d] = pc[d]
  <2>1. /\ pc[c] \in {"look", "verify"} /\ Saved(c)
        /\ Loads(FileOf(c)) /\ Hash(FileOf(c)) = Hash(work[c])
    BY <1>1 DEF Look, Verify, Raise
  <2>2. route[c] # "staging" /\ Leave(c) /\ returned' = returned \union {work[c]}
    BY <2>1 DEF Saved
  <2>3. route[c] = "direct" /\ work[c] = e /\ FileOf(c) = file[e.id]
    BY <2>2 DEF IInv, TypeOK, FileOf
  <2>4. \A d \in Caller \ {c} : pc'[d] = pc[d]
    BY <2>2 DEF IInv, TypeOK, Leave, Goto
  <2> QED
    BY <2>1, <2>3, <2>4
<1>2. ASSUME NEW c \in Caller, VerifyAll(c)
      PROVE  /\ work[c] = e /\ pc[c] = "verify all"
             /\ \A d \in Caller \ {c} : pc'[d] = pc[d]
  <2>1. pc[c] = "verify all" /\ Leave(c) /\ returned' = returned \union {work[c]}
    BY <1>2 DEF VerifyAll, Raise
  <2> QED
    BY <2>1 DEF IInv, TypeOK, Leave, Goto
<1>3. ASSUME NEW c \in Caller,
             Write(c) \/ Sync(c) \/ Replace(c) \/ PublishPresent(c) \/ PublishAbsent(c)
               \/ Publish(c) \/ Fail(c)
      PROVE  FALSE
  BY <1>3 DEF Write, Sync, Replace, PublishPresent, PublishAbsent, Publish, Fail, Raise
<1>4. ASSUME NEW c \in Caller, NEW x \in workload.envelopes,
             NEW how \in {"direct", "staging"}, Save(c, x, how)
      PROVE  FALSE
  BY <1>4 DEF Save
<1>5. ASSUME (\E n \in Id : Settle(n)) \/ PowerFails \/ UNCHANGED vars
      PROVE  FALSE
  BY <1>5 DEF Settle, PowerFails, vars
<1>6. \E c \in Caller : Look(c) \/ Verify(c) \/ VerifyAll(c)
  BY <1>3, <1>4, <1>5 DEF Next, SaveStep
<1>7. PICK c \in Caller : Look(c) \/ Verify(c) \/ VerifyAll(c)
  BY <1>6
<1>8. CASE Look(c) \/ Verify(c)
  BY <1>1, <1>8
<1>9. CASE VerifyAll(c)
  BY <1>2, <1>9
<1> QED
  BY <1>7, <1>8, <1>9

\* ... so a save that returns leaves its caller what it gave, to be read again.
THEOREM SavesReadBack == Spec => SavedReadsBack
<1> DEFINE Reads(c) == LET e == work[c] IN
             (/\ pc[c] \in {"look", "verify"} /\ pc'[c] = "idle" /\ route[c] = "direct"
              /\ e \in returned' /\ e \notin returned
              /\ e.type = e.record.type /\ ~Lossy(e.record))
               => /\ ReadUnder(e.id) = {e.record}
                  /\ Lossy(file[e.id].record) \/ file[e.id].record = e.record
           AllRead == \A c \in Caller : Reads(c)
<1>1. IInv /\ [Next]_vars => AllRead
  <2> SUFFICES ASSUME IInv, [Next]_vars, NEW c \in Caller,
                      pc[c] \in {"look", "verify"}, pc'[c] = "idle", route[c] = "direct",
                      work[c] \in returned', work[c] \notin returned,
                      work[c].type = work[c].record.type, ~Lossy(work[c].record)
               PROVE  /\ ReadUnder(work[c].id) = {work[c].record}
                      /\ \/ Lossy(file[work[c].id].record)
                         \/ file[work[c].id].record = work[c].record
    OBVIOUS
  <2>1. PICK d \in Caller :
          /\ work[d] = work[c]
          /\ \/ /\ pc[d] \in {"look", "verify"} /\ route[d] = "direct"
                /\ Loads(file[work[c].id]) /\ Hash(file[work[c].id]) = Hash(work[c])
             \/ pc[d] = "verify all"
          /\ \A b \in Caller \ {d} : pc'[b] = pc[b]
    BY ReturnedBy
  <2>2. d = c
    BY <2>1
  <2>3. Loads(file[work[c].id]) /\ Hash(file[work[c].id]) = Hash(work[c])
    BY <2>1, <2>2
  <2>4. work[c] \in workload.envelopes /\ Serializable(work[c].record)
    BY DEF IInv, TypeOK, CallerOK
  <2> QED
    BY <2>3, <2>4, SameHashReads
<1>2. IInv /\ [Next]_vars => [AllRead]_vars
  BY <1>1
<1> HIDE DEF AllRead
<1>3. Spec => [][AllRead]_vars
  BY <1>2, Invariant, PTL DEF Spec
<1> QED
  BY <1>3 DEF AllRead, SavedReadsBack

-----------------------------------------------------------------------------
(* The refinement.                                                         *)

\* A rename is a step of the files, and nothing else touches the registry.
LEMMA StepImplements == IInv /\ IInv' /\ [Next]_vars => [Files!Next]_(Files!vars)
<1> SUFFICES ASSUME IInv, IInv', [Next]_vars
             PROVE  [Files!Next]_(Files!vars)
  OBVIOUS
<1>1. ASSUME NEW c \in Caller, NEW f, Rename(f, work[c].id), f = Done(work[c])
      PROVE  Files!Next
  <2> DEFINE n == work[c].id
  <2>1. work[c] \in Contents /\ n \in Id
    BY EnvelopeTypes DEF IInv, TypeOK, Contents
  <2>2. f.data = work[c] /\ f.synced
    BY <1>1 DEF Done
  <2>3. /\ file' = [file EXCEPT ![n] = work[c]]
        /\ lasting' = [lasting EXCEPT ![n] = @ \union {work[c]}]
    BY <1>1, <2>2 DEF Rename
  <2> HIDE DEF n
  <2>4. file'[n] = work[c]
    BY <2>1, <2>3 DEF IInv, TypeOK
  <2>5. Files!Put(n)
    BY <2>1, <2>3, <2>4 DEF Files!Put
  <2> QED
    BY <2>1, <2>5 DEF Files!Next
<1>2. ASSUME UNCHANGED registryVars
      PROVE  UNCHANGED Files!vars
  BY <1>2 DEF registryVars, Files!vars
<1>3. CASE UNCHANGED vars
  BY <1>2, <1>3 DEF vars
<1>4. ASSUME NEW c \in Caller, Replace(c)
      PROVE  [Files!Next]_(Files!vars)
  <2>1. temporary[c] = Done(work[c])
    BY <1>4, SyncedFile DEF Replace
  <2>2. UNCHANGED registryVars \/ Rename(temporary[c], work[c].id)
    BY <1>4 DEF Replace
  <2> QED
    BY <1>1, <1>2, <2>1, <2>2
<1>5. ASSUME NEW c \in Caller, Publish(c)
      PROVE  [Files!Next]_(Files!vars)
  <2>1. staged[c] = Done(work[c])
    BY <1>5 DEF Publish, IInv, CallerOK
  <2>2. Rename(staged[c], work[c].id)
    BY <1>5 DEF Publish
  <2> QED
    BY <1>1, <2>1, <2>2
<1>6. ASSUME NEW c \in Caller,
             \/ \E e \in workload.envelopes, how \in {"direct", "staging"} : Save(c, e, how)
             \/ Look(c) \/ Write(c) \/ Sync(c) \/ Verify(c) \/ PublishPresent(c)
             \/ PublishAbsent(c) \/ VerifyAll(c) \/ Fail(c)
      PROVE  UNCHANGED registryVars
  BY <1>6 DEF Save, Look, Write, Sync, Verify, PublishPresent, PublishAbsent, VerifyAll, Fail
<1>7. ASSUME NEW n \in Id, Settle(n)
      PROVE  Files!Next
  <2>1. Files!Settle(n)
    BY <1>7 DEF Settle, Files!Settle
  <2> QED
    BY <2>1 DEF Files!Next
<1>8. CASE PowerFails
  <2>1. file' \in [Id -> Contents]
    <3>1. ASSUME NEW n \in Id
          PROVE  file'[n] \in Contents
      <4>1. file'[n] \in lasting[n]
        BY <1>8 DEF PowerFails
      <4>2. file'[n] = Absent \/ file'[n] \in workload.envelopes
        BY <4>1 DEF IInv, FilesOK, Fits
      <4>3. workload.envelopes \subseteq Envelope
        BY EnvelopeTypes DEF IInv
      <4> QED
        BY <4>2, <4>3 DEF Contents
    <3>2. file' \in [Id -> UNION {lasting[n] : n \in Id}]
      BY <1>8 DEF PowerFails
    <3> QED
      BY <3>1, <3>2
  <2>2. Files!PowerFails
    BY <1>8, <2>1 DEF PowerFails, Files!PowerFails
  <2> QED
    BY <2>2 DEF Files!Next
<1> QED
  BY <1>2, <1>3, <1>4, <1>5, <1>6, <1>7, <1>8 DEF Next, SaveStep

\* The registry implements the files that are replaced whole: initial states map
\* to initial states, and each step to a step or a stutter.
THEOREM AtomicFilesImplemented == Spec => ImplementsAtomicFiles
<1>1. Init => Files!Init
  BY DEF Init, Files!Init, Contents
<1> QED
  BY <1>1, StepImplements, Invariant, PTL DEF Spec, ImplementsAtomicFiles, Files!Spec
==============================================================================
