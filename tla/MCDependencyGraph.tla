-------------------------- MODULE MCDependencyGraph --------------------------
(***************************************************************************)
(* Finite instances of DependencyGraph.                                    *)
(***************************************************************************)
EXTENDS DependencyGraph

MCObject == 1 .. 4

Record(x, y, mandatory, satisfied) ==
    [source |-> x, target |-> y, mandatory |-> mandatory, satisfied |-> satisfied]

\* Every edge once, and a second record with other flags for three of them.
MCDependency ==
    {Record(x, y, TRUE, TRUE) : <<x, y>> \in
        {e \in MCObject \X MCObject : e[1] # e[2]}}
    \union {Record(1, 2, TRUE, FALSE), Record(3, 1, FALSE, FALSE),
            Record(2, 4, TRUE, FALSE)}

MCKnown == {{1, 2, 3, 4}, {1, 2, 3}}
==============================================================================
