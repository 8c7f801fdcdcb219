------------------------- MODULE MCPersistentRegistry -------------------------
(***************************************************************************)
(* Finite instances of PersistentRegistry.                                 *)
(***************************************************************************)
EXTENDS PersistentRegistry, TLC

CONSTANTS c1, c2, n1, n2

Symmetry == Permutations(Caller)
TwoCallers == {c1, c2}
TwoIds == {n1, n2}
MCUuid == {"u1", "u2"}
MCTime == <<"t1", "t2">>
MCText == {"a", "u1"}

\* A record of each type, and those that differ from it in one field.
First(declared) ==
    CASE declared = "time?" -> NoValue
      [] declared \in {"time", "uuid?"} -> CHOOSE v \in ValuesOf(declared) : v.is \notin {"naive", "null"}
      [] declared = "texts" -> Value("texts", <<"a">>)
      [] declared = "uuids" -> Value("uuids", <<>>)
      [] declared = "map" -> Value("map", <<>>)
      [] OTHER -> CHOOSE v \in ValuesOf(declared) : TRUE

Filled(type) ==
    [f \in DOMAIN Declared[type] |->
       CASE f \in {"effective_at", "created_at"} -> Value("time", <<"t1">>)
         [] f = "revised_at" -> Value("time", <<"t1">>)
         [] f = "target_object_id" -> Value("text", <<"u1">>)
         [] f = "source_object_id" -> Value("text", <<"a">>)
         [] f = "resulting_state" -> Value("ConstitutionalState", <<"MS-S1">>)
         [] f = "prior_state" -> Value("ConstitutionalState", <<"MS-S0">>)
         [] OTHER -> First(Declared[type][f])]

RecordsOf(type) ==
    {[type |-> type, fields |-> x] : x \in
       {y \in UNION {{[Filled(type) EXCEPT ![f] = v] : v \in ValuesOf(Declared[type][f])} :
                       f \in DOMAIN Declared[type]} : Constructible(type, y)}}
FirstOf(type) == [type |-> type, fields |-> Filled(type)]

Filed(n, type, record, whole) ==
    [id |-> n, type |-> type, record |-> record, whole |-> whole]

Actor(n, whole) == Filed(n, "ACTOR_IDENTITY", FirstOf("ACTOR_IDENTITY"), whole)
Evidence(n) == Filed(n, "EVIDENCE_RECORD", FirstOf("EVIDENCE_RECORD"), TRUE)

\* One save of every record under its own type, and of one record of each type
\* under every other.  Several saves of two envelopes that compete for an id and
\* one beside them; and of two of which one has a wrong digest.
MCWorkload ==
    {[envelopes |-> {Filed(n1, f[1], f[2], TRUE)}, saves |-> 1, trouble |-> 1] : f \in
        UNION {{<<t, r>> : r \in RecordsOf(t)} : t \in RecordType}
        \union {<<t, FirstOf(u)>> : t \in RecordType, u \in RecordType}}
    \union
    {[envelopes |-> {Actor(n1, TRUE), Evidence(n1), Actor(n2, TRUE)},
      saves |-> 3, trouble |-> 2],
     [envelopes |-> {Actor(n1, TRUE), Actor(n2, FALSE)}, saves |-> 3, trouble |-> 2]}
=============================================================================
