------------------------ MODULE MCRuntimeTransaction ------------------------
(***************************************************************************)
(* Finite instances of RuntimeTransaction.                                 *)
(***************************************************************************)
EXTENDS RuntimeTransaction, TLC

CONSTANTS actor, evidence, trace, id1, id2, id3, b1, b2, w1, w2

MCSupportedType == {actor, evidence}
MCOtherType == {trace}
MCEnvelopeId == {id1, id2, id3}
MCBody == {b1, b2}

Env(type, id, body) == [type |-> type, id |-> id, body |-> body]

\* One content per path; id1 is used for an actor and for an evidence record,
\* and one envelope is of a type the repository has no directory for.
FreshEnvelopes ==
    {Env(actor, id1, b1), Env(evidence, id1, b1), Env(evidence, id2, b2),
     Env(trace, id2, b1)}

\* Two contents compete for the path of id1.
CollidingEnvelopes ==
    {Env(actor, id1, b1), Env(actor, id1, b2), Env(evidence, id2, b1),
     Env(actor, id3, b1)}

\* One contended path and nothing else but a second record to publish.
ContendedEnvelopes ==
    {Env(actor, id1, b1), Env(actor, id1, b2), Env(evidence, id2, b1)}

TwoWriters == {w1, w2}
OneWriter == {w1}

\* The processes are interchangeable.
WriterSymmetry == Permutations(TwoWriters)
=============================================================================
