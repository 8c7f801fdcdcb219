------------------------ MODULE DependencyGraphProofs ------------------------
(***************************************************************************)
(* What TLAPS proves of DependencyGraph for every set of objects, every    *)
(* finite set of known ids and every set of records.                       *)
(***************************************************************************)
EXTENDS DependencyGraph, FiniteSetTheorems, TLAPS

\* A finite set of numbers that is not empty has a least one.
LEMMA LeastExists ==
    ASSUME NEW S \in SUBSET Int, IsFiniteSet(S), S # {}
    PROVE  Least(S) \in S /\ \A y \in S : Least(S) <= y
<1> DEFINE down(x) == {y \in S : y <= x}
           T == {down(x) : x \in S}
<1>1. \A x \in S : down(x) \in FiniteSubsetsOf(S)
  BY FS_Subset DEF FiniteSubsetsOf
<1>2. T \subseteq FiniteSubsetsOf(S) /\ T # {}
  BY <1>1
<1>3. PICK D \in T : \A E \in T : ~(<<E, D>> \in StrictSubsetOrdering(S))
  <2>1. IsWellFoundedOn(StrictSubsetOrdering(S), FiniteSubsetsOf(S))
    BY FS_StrictSubsetOrderingWellFounded
  <2> HIDE DEF T
  <2> QED
    BY <1>2, <2>1, WFMin
<1>4. PICK x \in S : D = down(x)
  BY <1>3
<1>5. \A y \in S : x <= y
  <2> SUFFICES ASSUME NEW y \in S, y < x
               PROVE  FALSE
    OBVIOUS
  <2>1. down(y) \subseteq down(x) /\ down(y) # down(x)
    <3>1. x \in down(x) /\ x \notin down(y)
      OBVIOUS
    <3>2. \A z \in down(y) : z \in down(x)
      OBVIOUS
    <3> QED
      BY <3>1, <3>2
  <2>2. <<down(y), down(x)>> \in StrictSubsetOrdering(S)
    BY <2>1 DEF StrictSubsetOrdering
  <2> QED
    BY <1>3, <1>4, <2>2
<1> QED
  BY <1>5 DEF Least

-----------------------------------------------------------------------------
(* The invariant.                                                          *)

\* The objects x still waits for in the graph as it has been read so far.
Waiting(x) == {y \in known \ Placed : x \in adjacency[y]}

Bad(r) == ~(r.source \in known /\ r.target \in known /\ (r.mandatory => r.satisfied))

\* The adjacency holds the edges of the records that were read.
GraphRead ==
    \A x, y \in known :
      y \in adjacency[x] <=>
        \E r \in records \ todo : r.source = x /\ r.target = y

DegreeCounts == \A x \in known : indegree[x] = Cardinality(Waiting(x))

\* Until the end something was found exactly if a record read so far is bad;
\* at the end also if not everything was placed.
FindingsExact ==
    /\ phase # "done" =>
         (findings = {} <=> \A r \in records \ todo : ~Bad(r))
    /\ phase = "done" =>
         (findings = {} <=> Placed = known /\ \A r \in records : ~Bad(r))

ReadingState == phase = "records" => queue = {} /\ ordered = <<>>

OrderingState ==
    /\ phase # "records" => /\ todo = {}
                            /\ queue = {x \in known \ Placed : Waiting(x) = {}}
    /\ phase = "done" => queue = {}

\* What has been placed contains all that precedes it, and no cycle.
PlacedClosed == \A x \in Placed : Before(x) \subseteq Placed

PlacedAcyclic ==
    \A S \in SUBSET Placed : S # {} => \E x \in S : Before(x) \intersect S = {}

PlacedOnce == Cardinality(Placed) = Len(ordered)

GraphInv ==
    /\ TypeOK
    /\ GraphRead
    /\ DegreeCounts
    /\ FindingsExact
    /\ ReadingState
    /\ OrderingState
    /\ PlacedClosed
    /\ PlacedAcyclic
    /\ PlacedOnce
    /\ OrderIsLeast

\* The sets that are counted are finite.
LEMMA Finite ==
    ASSUME TypeOK
    PROVE  /\ IsFiniteSet(known) /\ known \subseteq Int
           /\ Placed \subseteq known
           /\ \A S \in SUBSET known : IsFiniteSet(S) /\ Cardinality(S) \in Nat
<1>1. IsFiniteSet(known) /\ known \subseteq Int
  BY DependencyAssumption DEF TypeOK
<1>2. Placed \subseteq known
  BY DEF TypeOK, Placed
<1>3. \A S \in SUBSET known : IsFiniteSet(S) /\ Cardinality(S) \in Nat
  BY <1>1, FS_Subset, FS_CardinalityType
<1> QED
  BY <1>1, <1>2, <1>3

\* Once all records are read, what waits for x is the unplaced part of Before(x).
LEMMA WaitingIsBefore ==
    ASSUME TypeOK, GraphRead, todo = {}, NEW x \in known
    PROVE  Waiting(x) = Before(x) \ Placed
BY DEF Waiting, Before, Edge, GraphRead, TypeOK

\* No record has been read: nothing is placed and no edge counts.
LEMMA GraphInit == Init => GraphInv
<1> SUFFICES ASSUME Init
             PROVE  GraphInv
  OBVIOUS
<1>1. Placed = {} /\ \A x \in known : Waiting(x) = {}
  BY DEF Init, Placed, Waiting
<1>2. TypeOK
  BY DEF Init, TypeOK
<1>3. GraphRead /\ FindingsExact /\ ReadingState /\ OrderingState
  BY DEF Init, GraphRead, FindingsExact, ReadingState, OrderingState
<1>4. DegreeCounts /\ PlacedOnce
  BY <1>1, FS_EmptySet DEF Init, DegreeCounts, PlacedOnce
<1>5. PlacedClosed /\ PlacedAcyclic
  BY <1>1 DEF PlacedClosed, PlacedAcyclic
<1>6. OrderIsLeast
  BY DEF Init, OrderIsLeast
<1> QED
  BY <1>2, <1>3, <1>4, <1>5, <1>6 DEF GraphInv

-----------------------------------------------------------------------------
(* Reading the records.                                                    *)

\* What a step of the first loop leaves alone.
LEMMA ReadingKeeps ==
    ASSUME GraphInv, phase = "records", phase' = "records",
           UNCHANGED <<records, known, queue, ordered>>
    PROVE  /\ ReadingState' /\ OrderingState' /\ PlacedClosed'
           /\ PlacedAcyclic' /\ PlacedOnce' /\ OrderIsLeast'
<1>1. Placed' = Placed /\ Placed = {}
  BY DEF GraphInv, ReadingState, Placed
<1>2. ordered' = <<>>
  BY DEF GraphInv, ReadingState
<1> QED
  BY <1>1, <1>2 DEF GraphInv, ReadingState, OrderingState, PlacedClosed,
     PlacedAcyclic, PlacedOnce, OrderIsLeast

\* A record with an unknown end leaves a finding and no edge.
LEMMA SkipStep ==
    ASSUME GraphInv, NEW r \in Dependency, SkipMissing(r)
    PROVE  GraphInv'
<1> USE DEF GraphInv
<1>1. /\ phase = "records" /\ phase' = "records"
      /\ UNCHANGED <<records, known, adjacency, indegree, queue, ordered>>
      /\ todo' = todo \ {r} /\ r \in todo
      /\ findings' = findings \union {Finding("MISSING", r.source, r.target)}
      /\ ~(r.source \in known /\ r.target \in known)
  BY DEF SkipMissing
<1>2. Finding("MISSING", r.source, r.target) \in FindingRecord
  BY DependencyAssumption DEF Finding, FindingRecord
<1>3. TypeOK'
  BY <1>1, <1>2 DEF TypeOK
<1>4. records \ todo' = (records \ todo) \union {r}
  BY <1>1 DEF TypeOK
<1>5. GraphRead'
  BY <1>1, <1>4 DEF GraphRead
<1>6. Placed' = Placed /\ \A x \in known : Waiting(x)' = Waiting(x)
  BY <1>1 DEF Placed, Waiting
<1>7. DegreeCounts'
  BY <1>1, <1>6 DEF DegreeCounts
<1>8. FindingsExact'
  BY <1>1, <1>4 DEF FindingsExact, Bad
<1> QED
  BY <1>1, <1>3, <1>5, <1>7, <1>8, ReadingKeeps

\* A record with known ends adds its edge once, and one to one indegree.
LEMMA AddStep ==
    ASSUME GraphInv, NEW r \in Dependency, AddEdge(r)
    PROVE  GraphInv'
<1> USE DEF GraphInv
<1>1. /\ phase = "records" /\ phase' = "records"
      /\ UNCHANGED <<records, known, queue, ordered>>
      /\ todo' = todo \ {r} /\ r \in todo
      /\ r.source \in known /\ r.target \in known
      /\ findings' = findings \union
           {f \in {Finding("UNSATISFIED", r.source, r.target)} :
              r.mandatory /\ ~r.satisfied}
  BY DEF AddEdge
<1>2. Finding("UNSATISFIED", r.source, r.target) \in FindingRecord
  BY DependencyAssumption DEF Finding, FindingRecord
<1>3. records \ todo' = (records \ todo) \union {r}
  BY <1>1 DEF TypeOK
<1>4. Placed = {} /\ Placed' = {}
  BY <1>1 DEF ReadingState, Placed
<1>5. FindingsExact'
  <2>1. findings' = {} <=> (findings = {} /\ ~Bad(r))
    BY <1>1, DependencyAssumption DEF Bad
  <2> QED
    BY <1>1, <1>3, <2>1 DEF FindingsExact, Bad
<1>6. CASE r.target \in adjacency[r.source]
  <2>1. UNCHANGED <<adjacency, indegree>>
    BY <1>6 DEF AddEdge
  <2>2. TypeOK'
    BY <1>1, <1>2, <2>1 DEF TypeOK
  <2>3. GraphRead'
    BY <1>1, <1>3, <1>6, <2>1 DEF GraphRead
  <2>4. DegreeCounts'
    BY <1>1, <1>4, <2>1 DEF DegreeCounts, Waiting
  <2> QED
    BY <1>1, <1>5, <2>2, <2>3, <2>4, ReadingKeeps
<1>7. CASE r.target \notin adjacency[r.source]
  <2>1. /\ adjacency' = [adjacency EXCEPT ![r.source] = @ \union {r.target}]
        /\ indegree' = [indegree EXCEPT ![r.target] = @ + 1]
    BY <1>7 DEF AddEdge
  <2>2. TypeOK'
    BY <1>1, <1>2, <2>1 DEF TypeOK
  <2>3. GraphRead'
    <3>1. \A x, y \in known :
            y \in adjacency'[x] <=>
              y \in adjacency[x] \/ (x = r.source /\ y = r.target)
      BY <2>1 DEF TypeOK
    <3> QED
      BY <1>1, <1>3, <3>1 DEF GraphRead
  <2>4. DegreeCounts'
    <3> SUFFICES ASSUME NEW x \in known
                 PROVE  indegree'[x] = Cardinality(Waiting(x)')
      BY <1>1 DEF DegreeCounts
    <3>1. IsFiniteSet(Waiting(x)) /\ indegree[x] = Cardinality(Waiting(x))
      BY Finite DEF Waiting, DegreeCounts
    <3>2. CASE x = r.target
      <4>1. Waiting(x)' = Waiting(x) \union {r.source}
        BY <1>1, <1>4, <2>1, <3>2 DEF Waiting, TypeOK
      <4>2. r.source \notin Waiting(x)
        BY <1>7, <3>2 DEF Waiting
      <4>3. Cardinality(Waiting(x) \union {r.source}) = Cardinality(Waiting(x)) + 1
        BY <3>1, <4>2, FS_AddElement
      <4>4. indegree'[x] = indegree[x] + 1
        BY <2>1, <3>2 DEF TypeOK
      <4> QED
        BY <3>1, <4>1, <4>3, <4>4
    <3>3. CASE x # r.target
      <4>1. Waiting(x)' = Waiting(x)
        BY <1>1, <1>4, <2>1, <3>3 DEF Waiting, TypeOK
      <4>2. indegree'[x] = indegree[x]
        BY <2>1, <3>3 DEF TypeOK
      <4> QED
        BY <3>1, <4>1, <4>2
    <3> QED
      BY <3>2, <3>3
  <2> QED
    BY <1>1, <1>5, <2>2, <2>3, <2>4, ReadingKeeps
<1> QED
  BY <1>6, <1>7

-----------------------------------------------------------------------------
(* Ordering the objects.                                                   *)

\* An object waits for nothing exactly if its indegree is zero.
LEMMA ZeroDegree ==
    ASSUME TypeOK, DegreeCounts, NEW x \in known
    PROVE  /\ indegree[x] = 0 <=> Waiting(x) = {}
           /\ Waiting(x) # {} => indegree[x] > 0
<1>1. IsFiniteSet(Waiting(x)) /\ indegree[x] = Cardinality(Waiting(x))
  BY Finite DEF Waiting, DegreeCounts
<1>2. Cardinality(Waiting(x)) = 0 <=> Waiting(x) = {}
  BY <1>1, FS_EmptySet
<1>3. indegree[x] \in Nat
  BY DEF TypeOK
<1> QED
  BY <1>1, <1>2, <1>3

\* When all records are read, the queue holds the objects nothing precedes.
LEMMA StartStep ==
    ASSUME GraphInv, StartOrdering
    PROVE  GraphInv'
<1> USE DEF GraphInv
<1>1. /\ phase = "records" /\ phase' = "ordering" /\ todo = {}
      /\ UNCHANGED <<records, known, todo, adjacency, indegree, ordered, findings>>
      /\ queue' = {x \in known : indegree[x] = 0}
  BY DEF StartOrdering
<1>2. Placed = {} /\ Placed' = {} /\ \A x \in known : Waiting(x)' = Waiting(x)
  BY <1>1 DEF ReadingState, Placed, Waiting
<1>3. TypeOK'
  BY <1>1 DEF TypeOK
<1>4. OrderingState'
  BY <1>1, <1>2, ZeroDegree DEF OrderingState
<1>5. GraphRead' /\ DegreeCounts' /\ ReadingState'
  BY <1>1, <1>2 DEF GraphRead, DegreeCounts, ReadingState
<1>6. FindingsExact'
  BY <1>1 DEF FindingsExact, Bad
<1>7. PlacedClosed' /\ PlacedAcyclic' /\ PlacedOnce' /\ OrderIsLeast'
  <2>1. ordered' = <<>>
    BY <1>1 DEF ReadingState
  <2> QED
    BY <1>1, <1>2, <2>1 DEF PlacedClosed, PlacedAcyclic, PlacedOnce, OrderIsLeast
<1> QED
  BY <1>3, <1>4, <1>5, <1>6, <1>7

\* The queue holds the objects that may come next, and the least is taken.
LEMMA PlaceStep ==
    ASSUME GraphInv, Place
    PROVE  GraphInv'
<1> USE DEF GraphInv
<1> DEFINE current == Least(queue)
           lower == [x \in known |->
                       IF x \in adjacency[current] THEN indegree[x] - 1
                       ELSE indegree[x]]
<1>1. /\ phase = "ordering" /\ queue # {} /\ todo = {}
      /\ UNCHANGED <<records, known, todo, adjacency, findings, phase>>
      /\ ordered' = Append(ordered, current)
      /\ indegree' = lower
      /\ queue' = (queue \ {current}) \union {x \in adjacency[current] : lower[x] = 0}
  BY DEF Place, OrderingState
<1>2. queue = {x \in known \ Placed : Waiting(x) = {}}
  BY <1>1 DEF OrderingState
<1>3. current \in queue /\ \A x \in queue : current <= x
  <2>1. queue \in SUBSET Int /\ IsFiniteSet(queue)
    BY Finite DEF TypeOK
  <2> QED
    BY <1>1, <2>1, LeastExists
<1> HIDE DEF current
<1>4. current \in known /\ current \notin Placed /\ Waiting(current) = {}
  BY <1>2, <1>3
<1>5. /\ ordered \in Seq(known)
      /\ Len(ordered') = Len(ordered) + 1
      /\ \A i \in 1 .. Len(ordered) : ordered'[i] = ordered[i]
      /\ ordered'[Len(ordered) + 1] = current
      /\ ordered' \in Seq(known)
  BY <1>1, <1>4 DEF TypeOK
<1>6. Placed' = Placed \union {current}
  BY <1>5 DEF Placed
<1>7. \A x \in known : Waiting(x)' = Waiting(x) \ {current}
  BY <1>1, <1>6 DEF Waiting
<1>8. \A x \in known : current \in Waiting(x) <=> x \in adjacency[current]
  BY <1>4 DEF Waiting
<1>9. \A x \in known : Before(x)' = Before(x)
  BY <1>1 DEF Before, Edge
<1>10. Before(current) \subseteq Placed
  BY <1>1, <1>4, WaitingIsBefore
<1>11. \A x \in known : lower[x] \in Nat /\ lower[x] = Cardinality(Waiting(x)')
  <2> SUFFICES ASSUME NEW x \in known
               PROVE  lower[x] \in Nat /\ lower[x] = Cardinality(Waiting(x)')
    OBVIOUS
  <2>1. IsFiniteSet(Waiting(x)) /\ indegree[x] = Cardinality(Waiting(x))
    BY Finite DEF Waiting, DegreeCounts
  <2>2. Cardinality(Waiting(x) \ {current}) =
          IF current \in Waiting(x) THEN Cardinality(Waiting(x)) - 1
          ELSE Cardinality(Waiting(x))
    BY <2>1, FS_RemoveElement
  <2>3. Waiting(x)' \in SUBSET known
    BY <1>1 DEF Waiting
  <2>4. Cardinality(Waiting(x)') \in Nat
    BY <2>3, Finite
  <2> QED
    BY <1>7, <1>8, <2>1, <2>2, <2>4
<1>12. DegreeCounts'
  <2> HIDE DEF lower
  <2> QED
    BY <1>1, <1>11 DEF DegreeCounts
<1>13. TypeOK'
  <2>1. indegree' \in [known -> Nat]
    BY <1>1, <1>11
  <2>2. queue' \subseteq known
    BY <1>1, <1>4 DEF TypeOK
  <2> HIDE DEF lower
  <2> QED
    BY <1>1, <1>5, <2>1, <2>2 DEF TypeOK
<1>14. GraphRead' /\ ReadingState'
  BY <1>1 DEF GraphRead, ReadingState
<1>15. FindingsExact'
  BY <1>1 DEF FindingsExact, Bad
<1>16. OrderingState'
  <2>1. \A x \in known : lower[x] = 0 <=> Waiting(x)' = {}
    <3> SUFFICES ASSUME NEW x \in known
                 PROVE  lower[x] = 0 <=> Waiting(x)' = {}
      OBVIOUS
    <3>1. Waiting(x)' \in SUBSET known
      BY <1>1 DEF Waiting
    <3>2. IsFiniteSet(Waiting(x)')
      BY <3>1, Finite
    <3> HIDE DEF lower
    <3> QED
      BY <1>11, <3>2, FS_EmptySet
  <2>2. adjacency[current] \subseteq known
    BY <1>4 DEF TypeOK
  <2>3. \A x \in adjacency[current] : x \notin Placed /\ x # current
    <3> SUFFICES ASSUME NEW x \in adjacency[current]
                 PROVE  x \notin Placed /\ x # current
      OBVIOUS
    <3>1. x \in known /\ current \in Waiting(x)
      BY <1>8, <2>2
    <3>2. Waiting(x) = Before(x) \ Placed
      BY <1>1, <3>1, WaitingIsBefore
    <3>3. x \in Placed => current \in Placed
      BY <3>1, <3>2 DEF PlacedClosed
    <3> QED
      BY <1>4, <3>1, <3>3
  <2>4. queue' = {x \in known \ (Placed \union {current}) : Waiting(x)' = {}}
    <3> HIDE DEF lower
    <3>1. \A x \in known : x \in queue' =>
            x \notin Placed \union {current} /\ Waiting(x)' = {}
      BY <1>1, <1>2, <1>7, <2>1, <2>2, <2>3
    <3>2. \A x \in known \ (Placed \union {current}) :
            Waiting(x)' = {} => x \in queue'
      BY <1>1, <1>2, <1>7, <1>8, <2>1
    <3> QED
      BY <1>1, <1>13, <3>1, <3>2 DEF TypeOK
  <2> QED
    BY <1>1, <1>6, <2>4 DEF OrderingState
<1>17. PlacedClosed'
  <2>1. Placed \subseteq known
    BY Finite
  <2> QED
    BY <1>4, <1>6, <1>9, <1>10, <2>1 DEF PlacedClosed
<1>18. PlacedAcyclic'
  <2> SUFFICES ASSUME NEW S \in SUBSET (Placed \union {current}), S # {}
               PROVE  \E x \in S : Before(x)' \intersect S = {}
    BY <1>6 DEF PlacedAcyclic
  <2>1. Placed \subseteq known
    BY Finite
  <2>2. CASE S \subseteq {current}
    BY <1>4, <1>9, <1>10, <2>2
  <2>3. CASE ~(S \subseteq {current})
    <3>1. S \ {current} \in SUBSET Placed /\ S \ {current} # {}
      BY <2>3
    <3>2. PICK x \in S \ {current} : Before(x) \intersect (S \ {current}) = {}
      BY <3>1 DEF PlacedAcyclic
    <3>3. current \notin Before(x)
      BY <1>4, <3>1, <3>2 DEF PlacedClosed
    <3> QED
      BY <1>9, <2>1, <3>1, <3>2, <3>3
  <2> QED
    BY <2>2, <2>3
<1>19. PlacedOnce'
  <2>1. IsFiniteSet(Placed)
    BY Finite
  <2>2. Cardinality(Placed \union {current}) = Cardinality(Placed) + 1
    BY <1>4, <2>1, FS_AddElement
  <2> QED
    BY <1>5, <1>6, <2>2 DEF PlacedOnce
<1>20. OrderIsLeast'
  <2>1. ASSUME NEW i \in 1 .. Len(ordered) + 1
        PROVE  PlacedBefore(i)' = PlacedBefore(i)
    <3>1. \A j \in 1 .. i - 1 : j \in 1 .. Len(ordered)
      BY <1>5
    <3>2. \A j \in 1 .. i - 1 : ordered'[j] = ordered[j]
      BY <1>5, <3>1
    <3> QED
      BY <3>2 DEF PlacedBefore
  <2>2. PlacedBefore(Len(ordered) + 1) = Placed
    BY <1>5 DEF PlacedBefore, Placed
  <2> SUFFICES ASSUME NEW i \in 1 .. Len(ordered) + 1
               PROVE  LET ready == {x \in known \ PlacedBefore(i) :
                                      Before(x) \subseteq PlacedBefore(i)}
                      IN  /\ ordered'[i] \in ready
                          /\ \A x \in ready : ordered'[i] <= x
    BY <1>1, <1>5, <1>9, <2>1 DEF OrderIsLeast
  <2>3. CASE i \in 1 .. Len(ordered)
    BY <1>5, <2>3 DEF OrderIsLeast
  <2>4. CASE i = Len(ordered) + 1
    <3>1. queue = {x \in known \ Placed : Before(x) \subseteq Placed}
      BY <1>1, <1>2, WaitingIsBefore
    <3> QED
      BY <1>3, <1>5, <2>2, <2>4, <3>1
  <2> QED
    BY <1>5, <2>3, <2>4
<1> QED
  BY <1>12, <1>13, <1>14, <1>15, <1>16, <1>17, <1>18, <1>19, <1>20

\* When nothing more can be placed, what is left has an indegree, and all of it
\* is reported.
LEMMA FinishStep ==
    ASSUME GraphInv, Finish
    PROVE  GraphInv'
<1> USE DEF GraphInv
<1> DEFINE stuck == {y \in known : /\ Len(ordered) # Cardinality(known)
                                  /\ indegree[y] > 0}
           cyclic == {Finding("CYCLIC", x, x) : x \in stuck}
<1>1. /\ phase = "ordering" /\ phase' = "done" /\ queue = {} /\ todo = {}
      /\ UNCHANGED <<records, known, todo, adjacency, indegree, queue, ordered>>
      /\ findings' = findings \union cyclic
  BY DEF Finish, OrderingState
<1>2. Placed' = Placed /\ \A x \in known : Waiting(x)' = Waiting(x)
  BY <1>1 DEF Placed, Waiting
<1>3. Placed \subseteq known
  BY Finite
<1>4. stuck = {} <=> Placed = known
  <2>1. CASE Placed = known
    <3>1. Len(ordered) = Cardinality(known)
      BY <2>1 DEF PlacedOnce
    <3> QED
      BY <2>1, <3>1
  <2>2. CASE Placed # known
    <3>1. PICK x \in known : x \notin Placed
      BY <1>3, <2>2
    <3>2. Waiting(x) # {}
      BY <1>1, <3>1 DEF OrderingState
    <3>3. indegree[x] > 0
      BY <3>2, ZeroDegree
    <3>4. Cardinality(Placed) # Cardinality(known)
      BY <1>3, <2>2, Finite, FS_Subset
    <3>5. x \in stuck
      BY <3>3, <3>4 DEF PlacedOnce
    <3> QED
      BY <2>2, <3>5
  <2> QED
    BY <2>1, <2>2
<1>5. TypeOK'
  <2>1. cyclic \subseteq FindingRecord
    <3>1. known \subseteq Object
      BY DependencyAssumption DEF TypeOK
    <3> QED
      BY <3>1 DEF Finding, FindingRecord
  <2> HIDE DEF cyclic
  <2> QED
    BY <1>1, <2>1 DEF TypeOK
<1>6. FindingsExact'
  <2>1. cyclic = {} <=> stuck = {}
    OBVIOUS
  <2> HIDE DEF cyclic, stuck
  <2>2. findings' = {} <=> findings = {} /\ Placed = known
    BY <1>1, <1>4, <2>1
  <2>3. findings = {} <=> \A r \in records : ~Bad(r)
    BY <1>1 DEF FindingsExact
  <2> QED
    BY <1>1, <1>2, <2>2, <2>3 DEF FindingsExact, Bad
<1>7. OrderingState' /\ ReadingState'
  BY <1>1, <1>2 DEF OrderingState, ReadingState
<1>8. GraphRead' /\ DegreeCounts'
  BY <1>1, <1>2 DEF GraphRead, DegreeCounts
<1>9. PlacedClosed' /\ PlacedAcyclic' /\ PlacedOnce'
  BY <1>1, <1>2 DEF PlacedClosed, PlacedAcyclic, PlacedOnce, Before, Edge
<1>10. OrderIsLeast'
  BY <1>1 DEF OrderIsLeast, PlacedBefore, Before, Edge
<1> QED
  BY <1>5, <1>6, <1>7, <1>8, <1>9, <1>10

\* Every step of evaluate() keeps the invariant.
LEMMA GraphStep == GraphInv /\ [Next]_vars => GraphInv'
<1> SUFFICES ASSUME GraphInv, [Next]_vars
             PROVE  GraphInv'
  OBVIOUS
<1>1. CASE UNCHANGED vars
  <2> USE <1>1 DEF GraphInv, vars
  <2>1. TypeOK'
    BY DEF TypeOK
  <2>2. Placed' = Placed /\ \A x : Waiting(x)' = Waiting(x)
    BY DEF Waiting, Placed
  <2>3. \A x : Before(x)' = Before(x)
    BY DEF Before, Edge
  <2>4. GraphRead'
    BY DEF GraphRead
  <2>5. DegreeCounts'
    BY <2>2 DEF DegreeCounts
  <2>6. FindingsExact'
    BY DEF FindingsExact, Bad, Placed
  <2>7. ReadingState' /\ OrderingState'
    BY DEF ReadingState, OrderingState, Waiting, Placed
  <2>8. PlacedClosed' /\ PlacedAcyclic'
    BY <2>2, <2>3 DEF PlacedClosed, PlacedAcyclic
  <2>9. PlacedOnce'
    BY <2>2 DEF PlacedOnce
  <2>10. OrderIsLeast'
    BY DEF OrderIsLeast, PlacedBefore, Before, Edge
  <2> QED
    BY <2>1, <2>4, <2>5, <2>6, <2>7, <2>8, <2>9, <2>10
<1> QED
  BY <1>1, SkipStep, AddStep, StartStep, PlaceStep, FinishStep DEF Next

\* The invariant of evaluate(): the indegree of an object counts what still
\* has to be placed before it, the queue holds what is ready, the order is least.
THEOREM GraphInvariant == Spec => []GraphInv
  BY GraphInit, GraphStep, PTL DEF Spec

\* Each variable of evaluate() keeps its type; no indegree becomes negative.
THEOREM TypeCorrect == Spec => []TypeOK
  BY GraphInvariant, PTL DEF GraphInv

\* In whatever order the records come, the result lists each object after all
\* that precede it, and is the least list that does.
THEOREM OrderCorrect == Spec => []OrderIsLeast
  BY GraphInvariant, PTL DEF GraphInv

\* The known objects are acyclic exactly if all of them were placed.
LEMMA PlacedMeansAcyclic ==
    ASSUME GraphInv, phase = "done"
    PROVE  Placed = known <=> Acyclic
<1> USE DEF GraphInv
<1>1. Placed = known => Acyclic
  BY DEF PlacedAcyclic, Acyclic
<1>2. ASSUME Placed # known
      PROVE  ~Acyclic
  <2> DEFINE left == known \ Placed
  <2>1. left \in SUBSET known /\ left # {}
    BY <1>2, Finite
  <2>2. ASSUME NEW x \in left
        PROVE  Before(x) \intersect left # {}
    <3>1. Waiting(x) # {} /\ todo = {}
      BY DEF OrderingState
    <3>2. Waiting(x) = Before(x) \ Placed
      BY <3>1, WaitingIsBefore
    <3> QED
      BY <3>1, <3>2 DEF Waiting
  <2> QED
    BY <2>1, <2>2 DEF Acyclic
<1> QED
  BY <1>1, <1>2

\* A finished evaluation is valid exactly if every end is known, every
\* mandatory dependency is satisfied and there is no cycle.
THEOREM ResultSound == Spec => []ValidIsSound
<1>1. GraphInv => ValidIsSound
  <2> SUFFICES ASSUME GraphInv, phase = "done"
               PROVE  (Valid <=> Sound) /\ (Valid => Placed = known)
    BY DEF ValidIsSound
  <2>1. Valid <=> Placed = known /\ \A r \in records : ~Bad(r)
    BY DEF GraphInv, FindingsExact, Valid
  <2> QED
    BY <2>1, PlacedMeansAcyclic DEF Sound, Bad
<1> QED
  BY <1>1, GraphInvariant, PTL

-----------------------------------------------------------------------------
(* The findings and the cycles.                                            *)

\* What is found in a set of records.
Found(R) ==
    {Finding("MISSING", r.source, r.target) :
       r \in {q \in R : ~(q.source \in known /\ q.target \in known)}}
    \union
    {Finding("UNSATISFIED", r.source, r.target) :
       r \in {q \in R : /\ q.source \in known /\ q.target \in known
                        /\ q.mandatory /\ ~q.satisfied}}

FoundOK ==
    findings = Found(records \ todo) \union
               (IF phase = "done" THEN {Finding("CYCLIC", x, x) : x \in known \ Placed}
                ELSE {})

\* What is not placed at the end has an indegree left, and is not all.
LEMMA StuckAreUnplaced ==
    ASSUME GraphInv, phase # "records", queue = {}
    PROVE  {y \in known : Len(ordered) # Cardinality(known) /\ indegree[y] > 0}
             = known \ Placed
<1> USE DEF GraphInv
<1>1. todo = {} /\ Placed \subseteq known
  BY Finite DEF OrderingState
<1>2. ASSUME NEW x \in Placed
      PROVE  ~(indegree[x] > 0)
  <2>1. Waiting(x) = Before(x) \ Placed /\ Before(x) \subseteq Placed
    BY <1>1, WaitingIsBefore DEF PlacedClosed
  <2>2. indegree[x] = 0
    BY <1>1, <2>1, ZeroDegree
  <2> QED
    BY <2>2
<1>3. ASSUME NEW x \in known \ Placed
      PROVE  Len(ordered) # Cardinality(known) /\ indegree[x] > 0
  <2>1. Waiting(x) # {}
    BY DEF OrderingState
  <2>2. Cardinality(Placed) # Cardinality(known)
    BY <1>1, Finite, FS_Subset
  <2> QED
    BY <2>1, <2>2, ZeroDegree DEF PlacedOnce
<1> QED
  BY <1>1, <1>2, <1>3

\* Every step keeps the findings those of the records read, and of the cycles.
LEMMA FoundStep ==
    ASSUME GraphInv, FoundOK, [Next]_vars
    PROVE  FoundOK'
<1>1. CASE UNCHANGED vars
  BY <1>1 DEF vars, FoundOK, Found, Placed
<1>2. ASSUME NEW r \in Dependency, SkipMissing(r) \/ AddEdge(r)
      PROVE  FoundOK'
  <2>1. /\ phase = "records" /\ phase' = "records" /\ r \in todo /\ todo' = todo \ {r}
        /\ UNCHANGED <<records, known>>
        /\ todo \subseteq records
    BY <1>2 DEF SkipMissing, AddEdge, GraphInv, TypeOK
  <2>2. records \ todo' = (records \ todo) \union {r}
    BY <2>1
  <2>3. findings' = findings \union Found({r})
    <3>1. CASE SkipMissing(r)
      BY <3>1 DEF SkipMissing, Found
    <3>2. CASE AddEdge(r)
      BY <3>2 DEF AddEdge, Found
    <3> QED
      BY <1>2, <3>1, <3>2
  <2>4. Found(records \ todo') = Found(records \ todo) \union Found({r})
    BY <2>2 DEF Found
  <2>5. findings = Found(records \ todo)
    BY <2>1 DEF FoundOK
  <2>6. Found(records \ todo)' = Found(records \ todo')
    BY <2>1 DEF Found
  <2> QED
    BY <2>1, <2>3, <2>4, <2>5, <2>6 DEF FoundOK
<1>3. CASE StartOrdering \/ Place
  <2>1. /\ UNCHANGED <<records, known, todo, findings>>
        /\ phase # "done" /\ phase' # "done"
    BY <1>3 DEF StartOrdering, Place
  <2> QED
    BY <2>1 DEF FoundOK, Found
<1>4. CASE Finish
  <2> DEFINE stuck == {y \in known : /\ Len(ordered) # Cardinality(known)
                                    /\ indegree[y] > 0}
  <2>1. /\ phase = "ordering" /\ phase' = "done" /\ queue = {}
        /\ UNCHANGED <<records, known, todo, ordered>>
        /\ findings' = findings \union {Finding("CYCLIC", x, x) : x \in stuck}
    BY <1>4 DEF Finish
  <2>2. stuck = known \ Placed
    BY <2>1, StuckAreUnplaced
  <2>3. Placed' = Placed
    BY <2>1 DEF Placed
  <2> HIDE DEF stuck
  <2> QED
    BY <2>1, <2>2, <2>3 DEF FoundOK, Found
<1> QED
  BY <1>1, <1>2, <1>3, <1>4 DEF Next

\* What leads where, at its beginning and at its end.
LEMMA ReachFirst ==
    ASSUME NEW w, NEW y \in known, Edge(w, y)
    PROVE  Reaches(w, y) /\ \A z : Reaches(y, z) => Reaches(w, z)
BY DEF Reaches, PointsTo

\* An edge leads on.
LEMMA ReachOn ==
    ASSUME NEW w, NEW y \in known, NEW z \in known, Reaches(w, y), Edge(y, z)
    PROVE  Reaches(w, z)
BY DEF Reaches, PointsTo

\* What is reached is pointed to, from where one started or on the way.
LEMMA ReachLast ==
    ASSUME NEW c, NEW y \in known, Reaches(c, y)
    PROVE  Edge(c, y) \/ \E w \in known : Reaches(c, w) /\ Edge(w, y)
<1> SUFFICES ASSUME ~Edge(c, y), \A w \in known : Reaches(c, w) => ~Edge(w, y)
             PROVE  FALSE
  OBVIOUS
<1> DEFINE S == {z \in known : z # y /\ Reaches(c, z)}
<1>1. PointsTo(c) \subseteq S
  BY ReachFirst DEF PointsTo
<1>2. \A w \in S : PointsTo(w) \subseteq S
  BY ReachOn DEF PointsTo
<1>3. S \in SUBSET known /\ y \notin S
  OBVIOUS
<1> HIDE DEF S
<1> QED
  BY <1>1, <1>2, <1>3 DEF Reaches

\* What was placed is on no cycle.
LEMMA CyclesAreUnplaced ==
    ASSUME GraphInv, NEW c \in known, OnCycle(c)
    PROVE  c \notin Placed
<1> SUFFICES ASSUME c \in Placed
             PROVE  FALSE
  OBVIOUS
<1> DEFINE S == {y \in Placed : Reaches(c, y) /\ Reaches(y, c)}
<1>1. Placed \subseteq known /\ PlacedClosed /\ PlacedAcyclic
  BY Finite DEF GraphInv
<1>2. c \in S /\ S \in SUBSET Placed
  BY DEF OnCycle
<1>3. ASSUME NEW y \in S
      PROVE  Before(y) \intersect S # {}
  <2>0. y \in known
    BY <1>1
  <2>1. CASE Edge(c, y)
    <3>1. c \in Before(y)
      BY <2>1 DEF Before
    <3> QED
      BY <1>2, <3>1
  <2>2. ASSUME NEW w \in known, Reaches(c, w), Edge(w, y)
        PROVE  Before(y) \intersect S # {}
    <3>1. w \in Before(y)
      BY <2>2 DEF Before
    <3>2. w \in Placed
      BY <1>1, <3>1 DEF PlacedClosed
    <3>3. Reaches(w, c)
      BY <2>0, <2>2, ReachFirst
    <3> QED
      BY <2>2, <3>1, <3>2, <3>3
  <2> QED
    BY <2>0, <2>1, <2>2, ReachLast
<1> HIDE DEF S
<1> QED
  BY <1>1, <1>2, <1>3 DEF PlacedAcyclic

\* What is behind something that was not placed was not placed.
LEMMA BehindIsUnplaced ==
    ASSUME GraphInv, NEW c \in known, c \notin Placed, NEW x, Reaches(c, x)
    PROVE  x \notin Placed
<1>1. \A w \in known \ Placed : PointsTo(w) \subseteq known \ Placed
  BY DEF GraphInv, PlacedClosed, Before, PointsTo
<1>2. known \ Placed \in SUBSET known
  OBVIOUS
<1> QED
  BY <1>1, <1>2 DEF Reaches

\* A set of which each member has another before it.
Supported(B) == \A y \in B : Before(y) \intersect B # {}

\* A finite one that is not empty has a cycle in it: a least one of its kind is
\* all behind each of its members.
LEMMA SupportedHasCycle ==
    ASSUME NEW A \in SUBSET known, IsFiniteSet(A), A # {}, Supported(A)
    PROVE  \E c \in A : OnCycle(c)
<1> DEFINE T == {B \in SUBSET A : B # {} /\ Supported(B)}
<1>1. T \subseteq FiniteSubsetsOf(A) /\ T # {}
  <2>1. \A B \in SUBSET A : B \in FiniteSubsetsOf(A)
    BY FS_Subset DEF FiniteSubsetsOf
  <2>2. A \in T
    OBVIOUS
  <2> QED
    BY <2>1, <2>2
<1>2. PICK B \in T : \A D \in T : ~(<<D, B>> \in StrictSubsetOrdering(A))
  <2>1. IsWellFoundedOn(StrictSubsetOrdering(A), FiniteSubsetsOf(A))
    BY FS_StrictSubsetOrderingWellFounded
  <2> HIDE DEF T
  <2> QED
    BY <1>1, <2>1, WFMin
<1>3. B \in SUBSET A /\ B # {} /\ Supported(B)
  BY <1>2
<1>4. PICK c \in B : TRUE
  BY <1>3
<1> DEFINE D == {y \in B : Reaches(y, c)}
<1>5. D # {}
  <2>1. PICK w \in B : w \in Before(c)
    BY <1>3, <1>4 DEF Supported
  <2>2. Reaches(w, c)
    BY <1>3, <1>4, <2>1, ReachFirst DEF Before
  <2> QED
    BY <2>1, <2>2
<1>6. Supported(D)
  <2> SUFFICES ASSUME NEW y \in D
               PROVE  Before(y) \intersect D # {}
    BY DEF Supported
  <2>1. PICK w \in B : w \in Before(y)
    BY <1>3 DEF Supported
  <2>2. Reaches(w, c)
    BY <1>3, <2>1, ReachFirst DEF Before
  <2> QED
    BY <2>1, <2>2
<1>7. D \in T /\ D \subseteq B
  BY <1>3, <1>5, <1>6
<1>8. D = B
  <2> SUFFICES ASSUME D # B
               PROVE  FALSE
    OBVIOUS
  <2>1. D \in SUBSET A /\ B \in SUBSET A
    BY <1>3
  <2> HIDE DEF D, T
  <2>2. <<D, B>> \in StrictSubsetOrdering(A)
    BY <1>7, <2>1 DEF StrictSubsetOrdering
  <2> QED
    BY <1>2, <1>7, <2>2
<1>9. Reaches(c, c)
  BY <1>4, <1>8
<1> QED
  BY <1>3, <1>4, <1>9 DEF OnCycle

\* What could not be placed is on a cycle or behind one.
LEMMA UnplacedIsBehind ==
    ASSUME GraphInv, phase = "done", NEW x \in known \ Placed
    PROVE  \E c \in known : OnCycle(c) /\ (c = x \/ Reaches(c, x))
<1> DEFINE A == {y \in known \ Placed : y = x \/ Reaches(y, x)}
<1>1. A \in SUBSET known /\ x \in A /\ IsFiniteSet(A)
  <2>1. A \in SUBSET known /\ x \in A
    OBVIOUS
  <2> HIDE DEF A
  <2> QED
    BY <2>1, Finite DEF GraphInv
<1>2. Supported(A)
  <2> SUFFICES ASSUME NEW y \in A
               PROVE  Before(y) \intersect A # {}
    BY DEF Supported
  <2>1. Waiting(y) # {} /\ Waiting(y) = Before(y) \ Placed
    <3>1. Waiting(y) # {} /\ todo = {}
      BY DEF GraphInv, OrderingState
    <3> QED
      BY <3>1, WaitingIsBefore DEF GraphInv
  <2>2. PICK w \in Before(y) : w \notin Placed
    BY <2>1
  <2>3. w \in known /\ Edge(w, y)
    BY <2>2 DEF Before
  <2>4. Reaches(w, x)
    BY <2>3, ReachFirst
  <2> QED
    BY <2>2, <2>3, <2>4
<1> HIDE DEF A
<1>3. PICK c \in A : OnCycle(c)
  BY <1>1, <1>2, SupportedHasCycle
<1> QED
  BY <1>1, <1>3 DEF A

\* The objects reported as cyclic are exactly those on a cycle or behind one,
\* and the answer halts its caller exactly if there is a cycle, for every graph.
THEOREM CyclicAreExact == Spec => []CyclicExactly
<1>1. Init => FoundOK
  BY DEF Init, FoundOK, Found
<1>2. GraphInv /\ FoundOK => CyclicExactly
  <2> SUFFICES ASSUME GraphInv, FoundOK, phase = "done"
               PROVE  /\ {f.source : f \in {g \in findings : g.disposition = "CYCLIC"}} =
                           {x \in known : \E c \in known : OnCycle(c) /\ (c = x \/ Reaches(c, x))}
                      /\ 2 \in Failures <=> \E c \in known : OnCycle(c)
                      /\ (~Valid /\ Failures = {}) =>
                           /\ Acyclic
                           /\ \A r \in records : (r.source \in known /\ r.target \in known) =>
                                (r.mandatory => r.satisfied)
    BY DEF CyclicExactly
  <2>1. /\ records \ todo = records /\ Placed \subseteq known
        /\ findings = Found(records) \union {Finding("CYCLIC", x, x) : x \in known \ Placed}
    <3>1. todo = {}
      BY DEF GraphInv, OrderingState
    <3>2. records \ todo = records
      BY <3>1
    <3> QED
      BY <3>2, Finite DEF GraphInv, FoundOK
  <2>2. \A f \in Found(records) : f.disposition \in {"MISSING", "UNSATISFIED"}
    BY DEF Found, Finding
  <2>3. {f.source : f \in {g \in findings : g.disposition = "CYCLIC"}} = known \ Placed
    <3>1. \A x : Finding("CYCLIC", x, x).disposition = "CYCLIC"
                 /\ Finding("CYCLIC", x, x).source = x
      BY DEF Finding
    <3> QED
      BY <2>1, <2>2, <3>1
  <2>4. \A x \in known : x \notin Placed <=>
          \E c \in known : OnCycle(c) /\ (c = x \/ Reaches(c, x))
    <3>1. ASSUME NEW x \in known, NEW c \in known, OnCycle(c), c = x \/ Reaches(c, x)
          PROVE  x \notin Placed
      BY <3>1, CyclesAreUnplaced, BehindIsUnplaced
    <3> QED
      BY <3>1, UnplacedIsBehind
  <2>5. known \ Placed # {} <=> \E c \in known : OnCycle(c)
    BY <2>4
  <2>6. 2 \in Failures <=> known \ Placed # {}
    <3>1. 2 \in Failures <=> \E g \in findings : g.disposition = "CYCLIC"
      BY DEF Failures
    <3> QED
      BY <2>3, <3>1
  <2>7. ASSUME ~Valid, Failures = {}
        PROVE  /\ Acyclic
               /\ \A r \in records : (r.source \in known /\ r.target \in known) =>
                    (r.mandatory => r.satisfied)
    <3>1. \A g \in findings : g.disposition = "MISSING"
      BY <2>7 DEF Failures
    <3>2. Placed = known
      BY <2>1, <2>6, <2>7
    <3>3. Acyclic
      BY <3>2, PlacedMeansAcyclic
    <3>4. ASSUME NEW r \in records, r.source \in known, r.target \in known,
                 r.mandatory, ~r.satisfied
          PROVE  FALSE
      <4>1. Finding("UNSATISFIED", r.source, r.target) \in Found(records)
        BY <3>4 DEF Found
      <4>2. Finding("UNSATISFIED", r.source, r.target).disposition = "UNSATISFIED"
        BY DEF Finding
      <4> QED
        BY <2>1, <3>1, <4>1, <4>2
    <3> QED
      BY <3>3, <3>4
  <2> QED
    BY <2>3, <2>4, <2>5, <2>6, <2>7
<1>3. GraphInv /\ FoundOK /\ [Next]_vars => FoundOK'
  BY FoundStep
<1> QED
  BY <1>1, <1>2, <1>3, GraphInvariant, PTL DEF Spec

-----------------------------------------------------------------------------
(* The result depends on the known ids and the edges alone.                *)

ReadyAfter(P) == {x \in known \ P : Before(x) \subseteq P}

Upto(s, i) == {s[j] : j \in 1 .. i - 1}

\* A list that takes the least ready object each time, and leaves none ready.
LeastOrder(s) ==
    /\ \A i \in 1 .. Len(s) : /\ s[i] \in ReadyAfter(Upto(s, i))
                             /\ \A x \in ReadyAfter(Upto(s, i)) : s[i] <= x
    /\ ReadyAfter(Upto(s, Len(s) + 1)) = {}

\* There is one such list at most: at the first place where two of them differ
\* both would have taken the least of the same objects.
LEMMA OneOrder ==
    ASSUME TypeOK, NEW s \in Seq(known), NEW t \in Seq(known),
           LeastOrder(s), LeastOrder(t)
    PROVE  s = t
<1>0. Len(s) \in Nat /\ Len(t) \in Nat /\ known \subseteq Int
  BY Finite
<1> DEFINE D == {i \in 1 .. Len(s) : i <= Len(t) /\ s[i] # t[i]}
<1>1. D = {}
  <2> SUFFICES ASSUME D # {}
               PROVE  FALSE
    OBVIOUS
  <2>1. D \in SUBSET Int /\ IsFiniteSet(D)
    <3>1. D \subseteq 1 .. Len(s) /\ D \subseteq Int
      BY <1>0
    <3>2. IsFiniteSet(1 .. Len(s))
      BY <1>0, FS_Interval
    <3> HIDE DEF D
    <3> QED
      BY <3>1, <3>2, FS_Subset
  <2>2. PICK k \in D : \A i \in D : k <= i
    <3> HIDE DEF D
    <3> QED
      BY <2>1, LeastExists
  <2>3. k \in 1 .. Len(s) /\ k \in 1 .. Len(t) /\ s[k] # t[k]
    BY <1>0, <2>2
  <2>4. \A j \in 1 .. k - 1 : s[j] = t[j]
    BY <1>0, <2>2, <2>3
  <2>5. Upto(s, k) = Upto(t, k)
    BY <2>4 DEF Upto
  <2>6. s[k] <= t[k] /\ t[k] <= s[k]
    BY <2>3, <2>5 DEF LeastOrder
  <2> HIDE DEF D
  <2>7. s[k] \in known /\ t[k] \in known
    BY <2>3
  <2>8. s[k] \in Int /\ t[k] \in Int
    BY <1>0, <2>7
  <2> QED
    BY <2>3, <2>6, <2>8
<1>2. \A i \in 1 .. Len(s) : i <= Len(t) => s[i] = t[i]
  BY <1>1
<1>3. ~(Len(s) < Len(t))
  <2> SUFFICES ASSUME Len(s) < Len(t)
               PROVE  FALSE
    OBVIOUS
  <2>1. Upto(s, Len(s) + 1) = Upto(t, Len(s) + 1)
    BY <1>0, <1>2 DEF Upto
  <2>2. Len(s) + 1 \in 1 .. Len(t)
    BY <1>0
  <2> QED
    BY <2>1, <2>2 DEF LeastOrder
<1>4. ~(Len(t) < Len(s))
  <2> SUFFICES ASSUME Len(t) < Len(s)
               PROVE  FALSE
    OBVIOUS
  <2>1. \A j \in 1 .. Len(t) : s[j] = t[j]
    BY <1>0, <1>2
  <2>2. Upto(t, Len(t) + 1) = Upto(s, Len(t) + 1)
    BY <1>0, <2>1 DEF Upto
  <2>3. Len(t) + 1 \in 1 .. Len(s)
    BY <1>0
  <2> QED
    BY <2>2, <2>3 DEF LeastOrder
<1>5. Len(s) = Len(t)
  BY <1>0, <1>3, <1>4
<1> QED
  BY <1>2, <1>5

\* The list of a finished evaluation is one.
LEMMA OrderedIsLeast ==
    ASSUME GraphInv, phase = "done"
    PROVE  LeastOrder(ordered)
<1> USE DEF GraphInv
<1>1. /\ todo = {} /\ known \subseteq known
      /\ {x \in known \ Placed : Waiting(x) = {}} = {}
  BY DEF OrderingState
<1>2. \A x \in known \ Placed : Waiting(x) = Before(x) \ Placed
  BY <1>1, WaitingIsBefore
<1>3. ReadyAfter(Placed) = {}
  BY <1>1, <1>2 DEF ReadyAfter
<1>4. Upto(ordered, Len(ordered) + 1) = Placed
  <2>1. Len(ordered) \in Nat
    BY DEF TypeOK
  <2> QED
    BY <2>1 DEF Upto, Placed
<1>5. \A i \in 1 .. Len(ordered) : Upto(ordered, i) = PlacedBefore(i)
  BY DEF Upto, PlacedBefore
<1> QED
  BY <1>3, <1>4, <1>5 DEF OrderIsLeast, LeastOrder, ReadyAfter

Behind == {x \in known : \E c \in known : OnCycle(c) /\ (c = x \/ Reaches(c, x))}

\* evaluate() answers with a function of its arguments: the list is the only
\* one that takes the least ready object each time, and is the same for any
\* records that make the same edges; the findings are those of each record by
\* itself and of each object on a cycle or behind one.
Determined ==
    phase = "done" =>
      /\ \A s \in Seq(known) : LeastOrder(s) <=> s = ordered
      /\ findings = Found(records) \union {Finding("CYCLIC", x, x) : x \in Behind}

\* In whatever order the records are read, one list and one set of findings
\* come out: "Derive deterministic dependency order" (engines/dependencies.py:37).
THEOREM ResultIsDetermined == Spec => []Determined
<1>1. Init => FoundOK
  BY DEF Init, FoundOK, Found
<1>2. GraphInv /\ FoundOK => Determined
  <2> SUFFICES ASSUME GraphInv, FoundOK, phase = "done"
               PROVE  /\ \A s \in Seq(known) : LeastOrder(s) <=> s = ordered
                      /\ findings = Found(records) \union
                                      {Finding("CYCLIC", x, x) : x \in Behind}
    BY DEF Determined
  <2>1. ordered \in Seq(known) /\ LeastOrder(ordered) /\ TypeOK
    BY OrderedIsLeast DEF GraphInv, TypeOK
  <2>2. \A s \in Seq(known) : LeastOrder(s) <=> s = ordered
    BY <2>1, OneOrder
  <2>3. records \ todo = records
    BY DEF GraphInv, OrderingState
  <2>4. known \ Placed = Behind
    <3>1. ASSUME NEW x \in known, NEW c \in known, OnCycle(c), c = x \/ Reaches(c, x)
          PROVE  x \notin Placed
      BY <3>1, CyclesAreUnplaced, BehindIsUnplaced
    <3> QED
      BY <3>1, UnplacedIsBehind DEF Behind
  <2> QED
    BY <2>2, <2>3, <2>4 DEF FoundOK
<1>3. GraphInv /\ FoundOK /\ [Next]_vars => FoundOK'
  BY FoundStep
<1> QED
  BY <1>1, <1>2, <1>3, GraphInvariant, PTL DEF Spec

-----------------------------------------------------------------------------
(* evaluate() comes to an end.                                             *)

\* What is still to be done: records to read, objects to place, the two passages
\* from one loop to the next.
EvalLeft ==
    Cardinality(todo) + (Cardinality(known) - Len(ordered)) +
      (IF phase = "records" THEN 2 ELSE IF phase = "ordering" THEN 1 ELSE 0)

FiniteRecords == IsFiniteSet(records)

\* The numbers that are added.
LEMMA LeftIsNat ==
    ASSUME GraphInv, FiniteRecords
    PROVE  /\ IsFiniteSet(todo) /\ Cardinality(todo) \in Nat
           /\ Cardinality(known) \in Nat /\ Len(ordered) \in Nat
           /\ Len(ordered) <= Cardinality(known)
           /\ EvalLeft \in Nat
<1> USE DEF GraphInv
<1>1. IsFiniteSet(todo) /\ Cardinality(todo) \in Nat
  BY FS_Subset, FS_CardinalityType DEF TypeOK, FiniteRecords
<1>2. Cardinality(known) \in Nat /\ Len(ordered) \in Nat
  BY Finite DEF TypeOK
<1>3. Len(ordered) <= Cardinality(known)
  BY Finite, FS_Subset DEF PlacedOnce
<1> QED
  BY <1>1, <1>2, <1>3 DEF EvalLeft

\* Every step of evaluate() takes something away from what is left, which is
\* never less than nothing: it is over after at most as many steps as there are
\* records and known objects, and two more, whatever cycles there are.
TakesAway == EvalLeft \in Nat /\ EvalLeft' \in Nat /\ EvalLeft' < EvalLeft

EvaluationIsBounded == [][TakesAway]_vars

\* One step takes away.
LEMMA LeftStep ==
    ASSUME GraphInv, FiniteRecords, EvalLeft' \in Nat, Next
    PROVE  TakesAway
<1>1. /\ IsFiniteSet(todo) /\ Cardinality(todo) \in Nat
      /\ Cardinality(known) \in Nat /\ Len(ordered) \in Nat /\ EvalLeft \in Nat
  BY LeftIsNat
<1>2. EvalLeft' < EvalLeft
  <2>1. ASSUME NEW r \in Dependency, SkipMissing(r) \/ AddEdge(r)
        PROVE  EvalLeft' < EvalLeft
    <3>1. /\ phase = "records" /\ phase' = "records" /\ r \in todo
          /\ todo' = todo \ {r} /\ UNCHANGED <<known, ordered>>
      BY <2>1 DEF SkipMissing, AddEdge
    <3>2. Cardinality(todo') = Cardinality(todo) - 1
      BY <1>1, <3>1, FS_RemoveElement
    <3> QED
      BY <1>1, <3>1, <3>2 DEF EvalLeft
  <2>2. CASE StartOrdering
    <3>1. /\ phase = "records" /\ phase' = "ordering"
          /\ UNCHANGED <<todo, known, ordered>>
      BY <2>2 DEF StartOrdering
    <3> QED
      BY <1>1, <3>1 DEF EvalLeft
  <2>3. CASE Place
    <3>1. /\ phase = "ordering" /\ phase' = "ordering" /\ UNCHANGED <<todo, known>>
          /\ ordered' = Append(ordered, Least(queue))
      BY <2>3 DEF Place
    <3>2. Len(ordered') = Len(ordered) + 1
      BY <3>1 DEF GraphInv, TypeOK
    <3> QED
      BY <1>1, <3>1, <3>2 DEF EvalLeft
  <2>4. CASE Finish
    <3>1. phase = "ordering" /\ phase' = "done" /\ UNCHANGED <<todo, known, ordered>>
      BY <2>4 DEF Finish
    <3> QED
      BY <1>1, <3>1 DEF EvalLeft
  <2> QED
    BY <2>1, <2>2, <2>3, <2>4 DEF Next
<1> QED
  BY <1>1, <1>2 DEF TakesAway

\* evaluate() cannot go on for ever, for any set of records: the while loop of a
\* cyclic graph ends like that of any other.
THEOREM EvaluationEnds == Spec => EvaluationIsBounded
<1>1. Init => FiniteRecords
  BY DEF Init, FiniteRecords
<1>2. FiniteRecords /\ [Next]_vars => FiniteRecords'
  BY DEF Next, SkipMissing, AddEdge, StartOrdering, Place, Finish, vars, FiniteRecords
<1>3. Spec => []FiniteRecords
  BY <1>1, <1>2, PTL DEF Spec
<1>4. GraphInv /\ FiniteRecords => EvalLeft \in Nat
  BY LeftIsNat
<1>5. GraphInv /\ FiniteRecords /\ (EvalLeft \in Nat)' /\ [Next]_vars =>
        [TakesAway]_vars
  BY LeftStep
<1> QED
  BY <1>3, <1>4, <1>5, GraphInvariant, PTL DEF Spec, EvaluationIsBounded
=============================================================================
