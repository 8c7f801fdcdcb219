---------------------------- MODULE MCInitiation ----------------------------
(***************************************************************************)
(* Finite instances of Initiation.                                         *)
(***************************************************************************)
EXTENDS Initiation, TLC

CONSTANTS a1, e1, e2, u1, u2

MCAuthority == {a1}
MCEvidence == {e1, e2}
MCUncertainty == {u1, u2}

\* Two levels tell a role that is exceeded from one that is not reached.
MCRole == {0, 1}

\* Evidence ids are interchangeable, and so are uncertainty ids.
RecordSymmetry == Permutations(MCEvidence) \union Permutations(MCUncertainty)
=============================================================================
