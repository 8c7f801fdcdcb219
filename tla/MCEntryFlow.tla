----------------------------- MODULE MCEntryFlow -----------------------------
(***************************************************************************)
(* Finite instances of EntryFlow.                                          *)
(***************************************************************************)
EXTENDS EntryFlow

CONSTANTS c1, s1, a1

OneClient == {c1}
OneSubject == {s1}
MCAuthority == {a1}

\* Complete grounds, and what lacks an authority or evidence.
MCGrounds ==
    {[authority |-> a1, evidence |-> TRUE, uncertainty |-> TRUE],
     [authority |-> NoAuthority, evidence |-> TRUE, uncertainty |-> FALSE],
     [authority |-> a1, evidence |-> FALSE, uncertainty |-> FALSE]}

\* Every target of the way in, with everything resolved but at most one gate.
MCQuestion ==
    [target : {rule.result : rule \in EntryRules},
     resolved : {Gate} \union {Gate \ {g} : g \in Gate}]
=============================================================================
