----------------------------- MODULE MCRuntimeApi -----------------------------
(***************************************************************************)
(* Finite instances of RuntimeApi.                                         *)
(***************************************************************************)
EXTENDS RuntimeApi, TLC

CONSTANTS p1, p2, t1

TwoProcesses == {p1, p2}
OneTrace == {t1}
TwoTypes == {"ACTOR_IDENTITY", "EVIDENCE_RECORD"}
MCTypeOrder == <<"ACTOR_IDENTITY", "EVIDENCE_RECORD">>

\* A transaction may publish the types in another order than they are read.
MCBatch == <<"EVIDENCE_RECORD", "ACTOR_IDENTITY">>

\* One architecture with all transitions; another, with a register of sixteen;
\* a configuration that is not JSON with a manifest that is not frozen and a
\* register that names an id twice; and one with a blank version, with all
\* transitions.
MCFirstSources ==
    [configuration |-> [faults |-> {}],
     manifest |-> [version |-> 1, faults |-> {}],
     register |-> [transitions |-> 17, faults |-> {}]]
MCSources ==
    {MCFirstSources,
     [configuration |-> [faults |-> {}],
      manifest |-> [version |-> 2, faults |-> {}],
      register |-> [transitions |-> 16, faults |-> {}]],
     [configuration |-> [faults |-> {"json"}],
      manifest |-> [version |-> 2, faults |-> {"status"}],
      register |-> [transitions |-> 17, faults |-> {"duplicate"}]],
     [configuration |-> [faults |-> {}],
      manifest |-> [version |-> Blank, faults |-> {}],
      register |-> [transitions |-> 17, faults |-> {}]]}

MCCommand == {"validate", "verify", "snapshot", "status"}

\* Bound: of calls of persist_records(), damages and exchanges there are two.
TwoDisturbances == attempt + trouble <= 2

Symmetry == Permutations(Process)
=============================================================================
