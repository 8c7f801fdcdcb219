--------------------------- MODULE DependencyGraph ---------------------------
(***************************************************************************)
(* engines/dependencies.py: DependencyGraphEngine.evaluate() builds a      *)
(* graph from the dependency records whose ends are known, one record      *)
(* after the other, and orders the objects by removing, again and again,   *)
(* the least object that nothing unplaced points to.  It reports missing   *)
(* ends, unsatisfied mandatory records, and what the ordering is left with.*)
(*                                                                         *)
(* Objects are numbers, ordered as the engine orders their names.  Its     *)
(* queue is kept sorted and never holds an object twice, so it is a set    *)
(* whose least element is popped.  The records come in any order.  Their   *)
(* relationship_type is not modelled because evaluate() never reads it: a  *)
(* source always precedes its target, as "PRECEDES" says and as the        *)
(* "DEPENDS_ON" of other records does not.                                 *)
(***************************************************************************)
EXTENDS Integers, Sequences, FiniteSets

CONSTANTS
    Object,      \* object ids, known or not
    Dependency,  \* the dependency records there may be
    Known,       \* the sets of known ids evaluate() may be called with
    MaxRecords   \* bound: records in one call

\* A DependencyRecord refuses to point from an object to itself.
ASSUME DependencyAssumption ==
    /\ Object \subseteq Int
    /\ Dependency \subseteq [source : Object, target : Object,
                             mandatory : BOOLEAN, satisfied : BOOLEAN]
    /\ \A r \in Dependency : r.source # r.target
    /\ Known \subseteq SUBSET Object
    /\ \A K \in Known : IsFiniteSet(K)
    /\ MaxRecords \in Nat

VARIABLES
    records,    \* the records of this call
    known,      \* known_object_ids
    todo,       \* records the first loop has not looked at
    adjacency,  \* object -> what it points to
    indegree,   \* object -> number of unplaced objects that point to it
    queue,      \* unplaced objects whose indegree is zero
    ordered,    \* the objects placed so far
    findings,   \* what was found so far
    phase       \* "records", "ordering" or "done"

vars == <<records, known, todo, adjacency, indegree, queue, ordered, findings,
          phase>>

Least(S) == CHOOSE x \in S : \A y \in S : x <= y

Placed == {ordered[i] : i \in 1 .. Len(ordered)}

Finding(disposition, source, target) ==
    [disposition |-> disposition, source |-> source, target |-> target]

Init ==
    /\ records \in {R \in SUBSET Dependency :
                      IsFiniteSet(R) /\ Cardinality(R) <= MaxRecords}
    /\ known \in Known
    /\ todo = records
    /\ adjacency = [x \in known |-> {}]
    /\ indegree = [x \in known |-> 0]
    /\ queue = {}
    /\ ordered = <<>>
    /\ findings = {}
    /\ phase = "records"

\* A record with an end that is not known is reported and adds no edge.
SkipMissing(r) ==
    /\ phase = "records" /\ r \in todo
    /\ ~(r.source \in known /\ r.target \in known)
    /\ findings' = findings \union {Finding("MISSING", r.source, r.target)}
    /\ todo' = todo \ {r}
    /\ UNCHANGED <<records, known, adjacency, indegree, queue, ordered, phase>>

\* Mutated form of AddEdge: only the source of a record is looked up.
AddEdgeAnyTarget(r) ==
    /\ phase = "records" /\ r \in todo
    /\ r.source \in known
    /\ findings' = findings \union
         {f \in {Finding("UNSATISFIED", r.source, r.target)} :
            r.mandatory /\ ~r.satisfied}
    /\ adjacency' = [adjacency EXCEPT ![r.source] = @ \union {r.target}]
    /\ indegree' = [indegree EXCEPT ![r.target] = @ + 1]
    /\ todo' = todo \ {r}
    /\ UNCHANGED <<records, known, queue, ordered, phase>>

\* Mutated form of AddEdge: a second record between two objects counts again.
AddEdgeTwice(r) ==
    /\ phase = "records" /\ r \in todo
    /\ r.source \in known /\ r.target \in known
    /\ findings' = findings \union
         {f \in {Finding("UNSATISFIED", r.source, r.target)} :
            r.mandatory /\ ~r.satisfied}
    /\ adjacency' = [adjacency EXCEPT ![r.source] = @ \union {r.target}]
    /\ indegree' = [indegree EXCEPT ![r.target] = @ + 1]
    /\ todo' = todo \ {r}
    /\ UNCHANGED <<records, known, queue, ordered, phase>>

\* A mandatory record that is not satisfied is reported, and is an edge all the
\* same.  Several records between two objects make one edge.
AddEdge(r) ==
    /\ phase = "records" /\ r \in todo
    /\ r.source \in known /\ r.target \in known
    /\ findings' = findings \union
         {f \in {Finding("UNSATISFIED", r.source, r.target)} :
            r.mandatory /\ ~r.satisfied}
    /\ IF r.target \in adjacency[r.source]
       THEN UNCHANGED <<adjacency, indegree>>
       ELSE /\ adjacency' = [adjacency EXCEPT ![r.source] = @ \union {r.target}]
            /\ indegree' = [indegree EXCEPT ![r.target] = @ + 1]
    /\ todo' = todo \ {r}
    /\ UNCHANGED <<records, known, queue, ordered, phase>>

StartOrdering ==
    /\ phase = "records" /\ todo = {}
    /\ queue' = {x \in known : indegree[x] = 0}
    /\ phase' = "ordering"
    /\ UNCHANGED <<records, known, todo, adjacency, indegree, ordered, findings>>

\* Mutated form of Place: the queue is not sorted, any ready object is next.
PlaceAny ==
    /\ phase = "ordering" /\ queue # {}
    /\ \E current \in queue :
         LET lower == [x \in known |->
                         IF x \in adjacency[current] THEN indegree[x] - 1
                         ELSE indegree[x]]
         IN  /\ ordered' = Append(ordered, current)
             /\ indegree' = lower
             /\ queue' = (queue \ {current}) \union
                           {x \in adjacency[current] : lower[x] = 0}
    /\ UNCHANGED <<records, known, todo, adjacency, findings, phase>>

\* One turn of the while loop: place the least ready object, and queue what
\* was only waiting for it.
Place ==
    /\ phase = "ordering" /\ queue # {}
    /\ LET current == Least(queue)
           lower == [x \in known |->
                       IF x \in adjacency[current] THEN indegree[x] - 1
                       ELSE indegree[x]]
       IN  /\ ordered' = Append(ordered, current)
           /\ indegree' = lower
           /\ queue' = (queue \ {current}) \union
                         {x \in adjacency[current] : lower[x] = 0}
    /\ UNCHANGED <<records, known, todo, adjacency, findings, phase>>

\* Mutated form of Finish: only objects that point to something are cyclic.
FinishSources ==
    /\ phase = "ordering" /\ queue = {}
    /\ findings' = findings \union
         {Finding("CYCLIC", x, x) :
            x \in {y \in known : indegree[y] > 0 /\ adjacency[y] # {}}}
    /\ phase' = "done"
    /\ UNCHANGED <<records, known, todo, adjacency, indegree, queue, ordered>>

\* Where not all objects were placed, those with an indegree left are cyclic.
Finish ==
    /\ phase = "ordering" /\ queue = {}
    /\ findings' = findings \union
         {Finding("CYCLIC", x, x) :
            x \in {y \in known : /\ Len(ordered) # Cardinality(known)
                                 /\ indegree[y] > 0}}
    /\ phase' = "done"
    /\ UNCHANGED <<records, known, todo, adjacency, indegree, queue, ordered>>

\* The result of the call: every disposition the engine reports is invalid.
Valid == findings = {}

\* The failures in the answer of the API, by the numbers of their codes,
\* MS-FAIL-DEPENDENCY-001 and 002.  An unknown end has none.
Failures ==
    {IF f.disposition = "CYCLIC" THEN 2 ELSE 1 :
       f \in {g \in findings : g.disposition # "MISSING"}}

Next ==
    \/ \E r \in Dependency : SkipMissing(r) \/ AddEdge(r)
    \/ StartOrdering
    \/ Place
    \/ Finish

Spec == Init /\ [][Next]_vars

-----------------------------------------------------------------------------
(* Properties.                                                             *)

FindingRecord ==
    [disposition : {"MISSING", "UNSATISFIED", "CYCLIC"},
     source : Object, target : Object]

TypeOK ==
    /\ records \subseteq Dependency
    /\ known \in Known
    /\ todo \subseteq records
    /\ adjacency \in [known -> SUBSET known]
    /\ indegree \in [known -> Nat]
    /\ queue \subseteq known
    /\ ordered \in Seq(known)
    /\ findings \subseteq FindingRecord
    /\ phase \in {"records", "ordering", "done"}

\* The edges the records make, whatever the engine has read of them so far.
Edge(x, y) == \E r \in records : r.source = x /\ r.target = y

\* What precedes x: it is to be placed after all of these.
Before(x) == {y \in known : Edge(y, x)}

PlacedBefore(i) == {ordered[j] : j \in 1 .. i - 1}

\* "Derive deterministic dependency order" (engines/dependencies.py:37): each
\* object comes after all that precede it, never twice, and is the least of those
\* that could come next; so the order depends on the known ids and the edges,
\* not on the order, the number or the flags of the records.
OrderIsLeast ==
    \A i \in 1 .. Len(ordered) :
      LET ready == {x \in known \ PlacedBefore(i) : Before(x) \subseteq PlacedBefore(i)}
      IN  ordered[i] \in ready /\ \A x \in ready : ordered[i] <= x

\* No part of the known objects in which each is preceded by one of the part.
Acyclic ==
    \A S \in SUBSET known : S # {} => \E x \in S : Before(x) \intersect S = {}

Sound ==
    /\ \A r \in records : /\ r.source \in known /\ r.target \in known
                          /\ r.mandatory => r.satisfied
    /\ Acyclic

\* A finished evaluation is valid exactly if every end is known, every
\* mandatory dependency is satisfied and there is no cycle; and a valid one
\* has ordered all known objects.
ValidIsSound ==
    phase = "done" => /\ Valid <=> Sound
                      /\ Valid => Placed = known

\* What x points to, and what x leads to over one edge or more: whatever is in
\* every set that holds what x points to and what its own members point to.
PointsTo(x) == {z \in known : Edge(x, z)}
Reaches(x, y) ==
    \A S \in SUBSET known :
      (PointsTo(x) \subseteq S /\ \A w \in S : PointsTo(w) \subseteq S) => y \in S

OnCycle(x) == Reaches(x, x)

\* The cyclic objects reported are those on a cycle and those behind one,
\* nothing else: an object that only leads into a cycle is ordered.  The answer
\* of the API halts its caller (002) exactly if there is a cycle, and one that is
\* unsuccessful without any failure means that only ends were unknown.
CyclicExactly ==
    phase = "done" =>
      /\ {f.source : f \in {g \in findings : g.disposition = "CYCLIC"}} =
           {x \in known : \E c \in known : OnCycle(c) /\ (c = x \/ Reaches(c, x))}
      /\ 2 \in Failures <=> \E c \in known : OnCycle(c)
      /\ (~Valid /\ Failures = {}) =>
           /\ Acyclic
           /\ \A r \in records : (r.source \in known /\ r.target \in known) =>
                (r.mandatory => r.satisfied)
=============================================================================
