---------------------------- MODULE MCTraceLedger ----------------------------
(***************************************************************************)
(* Finite instances of TraceLedger.                                        *)
(***************************************************************************)
EXTENDS TraceLedger, TLC

CONSTANTS t1, t2, w1, w2

MCTrace == {t1, t2}
OneWriter == {w1}
TwoWriters == {w1, w2}
=============================================================================
