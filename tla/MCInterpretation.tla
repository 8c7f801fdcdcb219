-------------------------- MODULE MCInterpretation --------------------------
(***************************************************************************)
(* Finite instances of Interpretation.                                     *)
(***************************************************************************)
EXTENDS Interpretation, TLC

CONSTANTS a1, p1, d1, u1, u2

MCAuthority == {a1}
MCProvenance == {p1}
MCDependency == {d1}
MCUncertainty == {u1, u2}

Object(id, authority, kind) ==
    [object_id |-> id, authority |-> authority, provenance |-> p1,
     dependencies |-> {d1}, uncertainty |-> {u1}, status |-> kind]

\* The object that is asked for, before and after it is superseded and when
\* nobody governs it, and another object.
MCObject ==
    {Object("asked", a1, "ACTIVE"), Object("asked", a1, "SUPERSEDED"),
     Object("asked", None, "DRAFT"), Object("other", a1, "ACTIVE")}

Interpret(class, authority, provenance, uncertainty) ==
    [class |-> class, authority |-> authority, provenance |-> provenance,
     uncertainty |-> uncertainty]

\* One class of each kind: canonical, plain, limited, inadmissible.
MCDraft ==
    {Interpret("CANONICAL", a1, p1, {u1, u2}),
     Interpret("CANONICAL", None, p1, {}),
     Interpret("LITERAL", None, None, {u1}),
     Interpret("DERIVED", a1, p1, {u1, u2}),
     Interpret("ANALOGICAL", a1, p1, {u1, u2}),
     Interpret("CONFLICTING", a1, p1, {u1})}
=============================================================================
