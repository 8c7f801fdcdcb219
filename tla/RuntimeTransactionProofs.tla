----------------------- MODULE RuntimeTransactionProofs -----------------------
(***************************************************************************)
(* What TLAPS proves of RuntimeTransaction for any number of processes,    *)
(* envelopes, errors, crashes and damaged files.                           *)
(*                                                                         *)
(* commit() looks at a target and renames over it later.  Nothing is lost  *)
(* in between as long as two commits that are under way at the same time   *)
(* never hold two envelopes for one path (Apart).  That is so if no two    *)
(* envelopes share a path (FreshIds), or if one process at a time uses the *)
(* repository (SingleWriter); it is also so if processes with any ids take *)
(* turns, or share the envelopes they have in common.                      *)
(***************************************************************************)
EXTENDS RuntimeTransaction, TLAPS

\* Commits under way at the same time do not compete for a path.
Apart ==
    \A p, q \in Process :
      (p # q /\ pc[p] # "open" /\ pc[q] # "open") =>
        \A d \in Staged(p), e \in Staged(q) : PathOf(d) = PathOf(e) => d = e

\* No path is ever used for two envelopes, or only one process uses the
\* repository.
Guarded == FreshIds \/ SingleWriter

Publishing == {"checking", "renaming", "verifying"}

\* Where the loops of commit() are, while they run.
InLoop(p) ==
    /\ pc[p] \in {"staging", "checking", "renaming"} => next[p] <= Len(staged[p])
    /\ pc[p] = "verifying" => next[p] = Len(staged[p]) + 1

\* A transaction stages no id twice.
OwnIds(p) ==
    \A i, j \in 1 .. Len(staged[p]) : staged[p][i].id = staged[p][j].id => i = j

\* What the loops still need is in the staging directory.
Copied(p) ==
    /\ pc[p] = "staging" =>
         \A i \in 1 .. Len(staged[p]) : (i < next[p]) => staged[p][i] \in staging[p]
    /\ pc[p] \in {"checking", "renaming"} =>
         \A i \in 1 .. Len(staged[p]) : (i >= next[p]) => staged[p][i] \in staging[p]

\* Holds whatever the processes share.
LoopInv ==
    /\ TypeOK
    /\ \A p \in Process : InLoop(p) /\ OwnIds(p) /\ Copied(p)

PassedBy(p) ==
    pc[p] \in Publishing =>
      \A i \in 1 .. Len(staged[p]) :
        (i < next[p]) => files[PathOf(staged[p][i])] \in {staged[p][i], Damaged}

\* The rename that comes next destroys nothing: at its target is nothing that
\* another commit put there or was acknowledged for.
RenameSafe(p) ==
    pc[p] = "renaming" =>
      /\ files[PathOf(Current(p))] \in {Absent, Damaged, Current(p)}
      /\ \A e \in acked : PathOf(e) = PathOf(Current(p)) => e = Current(p)

CommitInv ==
    /\ LoopInv
    /\ AcknowledgedStored
    /\ \A p \in Process : PassedBy(p) /\ RenameSafe(p)

-----------------------------------------------------------------------------
(* The envelopes and their paths.                                          *)

\* Each envelope that can be stored has a path.
LEMMA Paths ==
    /\ \A e \in Storable : PathOf(e) \in Path
    /\ Absent \notin Storable /\ Damaged \notin Storable /\ Absent # Damaged
BY EnvelopeAssumption DEF Storable, PathOf, Path

\* Where a loop of commit() stands there is an envelope.
LEMMA CurrentStorable ==
    ASSUME TypeOK, NEW p \in Process, InLoop(p),
           pc[p] \in {"staging", "checking", "renaming"}
    PROVE  /\ Current(p) \in Storable
           /\ next[p] \in 1 .. Len(staged[p])
<1>1. next[p] \in 1 .. Len(staged[p])
  BY DEF TypeOK, InLoop
<1>2. staged[p] \in Seq(Storable)
  BY DEF TypeOK
<1> QED
  BY <1>1, <1>2 DEF Current

-----------------------------------------------------------------------------
(* The loops of commit(), whatever the processes share.                    *)

\* The repository is empty and no commit runs.
LEMMA LoopInit == Init => LoopInv
BY DEF Init, LoopInv, TypeOK, InLoop, OwnIds, Copied

\* A step of one process keeps what holds of the loops of the others.
LEMMA OtherLoops ==
    ASSUME LoopInv, TypeOK', NEW p \in Process,
           \A q \in Process \ {p} :
             UNCHANGED <<pc[q], next[q], staged[q], staging[q]>>,
           InLoop(p)', OwnIds(p)', Copied(p)'
    PROVE  LoopInv'
<1>1. ASSUME NEW q \in Process \ {p}
      PROVE  InLoop(q)' /\ OwnIds(q)' /\ Copied(q)'
  <2>1. InLoop(q) /\ OwnIds(q) /\ Copied(q)
    BY DEF LoopInv
  <2> QED
    BY <2>1 DEF InLoop, OwnIds, Copied
<1> QED
  BY <1>1 DEF LoopInv

\* Leaving commit(), by return, by an exception or by a crash.
LEMMA LeaveLoop ==
    ASSUME LoopInv, NEW p \in Process,
           Raise(p) \/ Crash(p) \/ FinishCommit(p)
    PROVE  LoopInv'
<1>1. TypeOK
  BY DEF LoopInv
<1>2. CASE Raise(p)
  <2>1. TypeOK' /\ pc'[p] = "open" /\ UNCHANGED staged
    BY <1>1, <1>2 DEF Raise, TypeOK, boundVars
  <2>2. InLoop(p)' /\ OwnIds(p)' /\ Copied(p)'
    BY <2>1 DEF LoopInv, InLoop, OwnIds, Copied
  <2> QED
    BY <1>1, <1>2, <2>1, <2>2, OtherLoops DEF Raise, TypeOK
<1>3. CASE Crash(p)
  <2>1. TypeOK' /\ pc'[p] = "open" /\ staged'[p] = <<>>
    BY <1>1, <1>3 DEF Crash, TypeOK
  <2>2. InLoop(p)' /\ OwnIds(p)' /\ Copied(p)'
    BY <2>1 DEF InLoop, OwnIds, Copied
  <2> QED
    BY <1>1, <1>3, <2>1, <2>2, OtherLoops DEF Crash, TypeOK
<1>4. CASE FinishCommit(p)
  <2>1. Staged(p) \subseteq Storable
    BY <1>1 DEF Staged, TypeOK
  <2>2. TypeOK' /\ pc'[p] = "open" /\ UNCHANGED staged
    BY <1>1, <1>4, <2>1 DEF FinishCommit, TypeOK, boundVars
  <2>3. InLoop(p)' /\ OwnIds(p)' /\ Copied(p)'
    BY <2>2 DEF LoopInv, InLoop, OwnIds, Copied
  <2> QED
    BY <1>1, <1>4, <2>2, <2>3, OtherLoops DEF FinishCommit, TypeOK
<1> QED
  BY <1>2, <1>3, <1>4

\* Outside commit() an envelope is added, with an id of its own, or all are
\* dropped.
LEMMA ClientLoop ==
    ASSUME LoopInv, NEW p \in Process,
           NewTransaction(p) \/ (\E e \in Envelope : Stage(p, e))
    PROVE  LoopInv'
<1>1. TypeOK /\ OwnIds(p)
  BY DEF LoopInv
<1>2. CASE NewTransaction(p)
  <2>1. TypeOK' /\ pc'[p] = "open" /\ staged'[p] = <<>>
    BY <1>1, <1>2 DEF NewTransaction, TypeOK, boundVars
  <2>2. InLoop(p)' /\ OwnIds(p)' /\ Copied(p)'
    BY <2>1 DEF InLoop, OwnIds, Copied
  <2> QED
    BY <1>1, <1>2, <2>1, <2>2, OtherLoops DEF NewTransaction, TypeOK
<1>3. ASSUME NEW e \in Envelope, Stage(p, e)
      PROVE  LoopInv'
  <2>1. e \in Storable /\ staged[p] \in Seq(Storable)
    BY <1>1, <1>3 DEF Stage, TypeOK
  <2>2. /\ staged' = [staged EXCEPT ![p] = Append(staged[p], e)]
        /\ pc'[p] = "open"
        /\ UNCHANGED <<files, committed, pc, next, staging, orphans, acked,
                       crashes, damages>>
    BY <1>3 DEF Stage, boundVars
  <2>3. Append(staged[p], e) \in Seq(Storable)
    BY <2>1
  <2>4. TypeOK' /\ staged'[p] = Append(staged[p], e)
    BY <1>1, <2>2, <2>3 DEF TypeOK
  <2>5. OwnIds(p)'
    <3>1. \A i \in 1 .. Len(staged[p]) : staged[p][i].id # e.id
      BY <1>3 DEF Stage, Staged
    <3>2. /\ Len(staged'[p]) = Len(staged[p]) + 1
          /\ \A i \in 1 .. Len(staged[p]) : staged'[p][i] = staged[p][i]
          /\ staged'[p][Len(staged[p]) + 1] = e
      BY <2>1, <2>4
    <3>3. Len(staged[p]) \in Nat
      BY <2>1
    <3>4. SUFFICES ASSUME NEW i \in 1 .. Len(staged[p]) + 1,
                          NEW j \in 1 .. Len(staged[p]) + 1,
                          staged'[p][i].id = staged'[p][j].id
                   PROVE  i = j
      BY <3>2 DEF OwnIds
    <3>5. CASE i \in 1 .. Len(staged[p]) /\ j \in 1 .. Len(staged[p])
      BY <1>1, <3>2, <3>4, <3>5 DEF OwnIds
    <3>6. CASE i = Len(staged[p]) + 1 /\ j # Len(staged[p]) + 1
      <4>1. j \in 1 .. Len(staged[p])
        BY <3>3, <3>6
      <4> QED
        BY <3>1, <3>2, <3>4, <3>6, <4>1
    <3>7. CASE i # Len(staged[p]) + 1 /\ j = Len(staged[p]) + 1
      <4>1. i \in 1 .. Len(staged[p])
        BY <3>3, <3>7
      <4> QED
        BY <3>1, <3>2, <3>4, <3>7, <4>1
    <3> QED
      BY <3>3, <3>5, <3>6, <3>7
  <2>6. InLoop(p)' /\ Copied(p)'
    BY <2>2 DEF InLoop, Copied
  <2> QED
    BY <1>1, <2>2, <2>4, <2>5, <2>6, OtherLoops DEF TypeOK
<1> QED
  BY <1>2, <1>3

\* A commit starts at its first envelope, with nothing copied.
LEMMA BeginLoop ==
    ASSUME LoopInv, NEW p \in Process, BeginCommit(p)
    PROVE  LoopInv'
<1>1. TypeOK
  BY DEF LoopInv
<1>2. TypeOK'
  BY <1>1 DEF BeginCommit, TypeOK, boundVars
<1>3. /\ pc'[p] = "staging" /\ next'[p] = 1 /\ UNCHANGED staged
      /\ Len(staged[p]) >= 1
  BY <1>1 DEF BeginCommit, TypeOK
<1>4. InLoop(p)' /\ OwnIds(p)' /\ Copied(p)'
  BY <1>3 DEF LoopInv, InLoop, OwnIds, Copied
<1> QED
  BY <1>1, <1>2, <1>4, OtherLoops DEF BeginCommit, TypeOK

\* One more envelope is copied; with the last one all of them are.
LEMMA SaveLoop ==
    ASSUME LoopInv, NEW p \in Process, SaveToStaging(p)
    PROVE  LoopInv'
<1>1. TypeOK /\ InLoop(p) /\ Copied(p) /\ OwnIds(p) /\ pc[p] = "staging"
  BY DEF LoopInv, SaveToStaging
<1>2. Current(p) \in Storable /\ next[p] \in 1 .. Len(staged[p])
  BY <1>1, CurrentStorable
<1>3. staging' \in [Process -> SUBSET Storable] /\ staging'[p] = staging[p] \union {Current(p)}
  <2>1. staging' = [staging EXCEPT ![p] = staging[p] \union {Current(p)}]
    BY DEF SaveToStaging
  <2>2. staging \in [Process -> SUBSET Storable]
    BY <1>1 DEF TypeOK
  <2>3. staging[p] \union {Current(p)} \in SUBSET Storable
    BY <1>2, <2>2
  <2> QED
    BY <2>1, <2>2, <2>3
<1>4. next' \in [Process -> Nat \ {0}]
  <2>1. next \in [Process -> Nat \ {0}]
    BY <1>1 DEF TypeOK
  <2>2. \/ next' = [next EXCEPT ![p] = next[p] + 1]
        \/ next' = [next EXCEPT ![p] = 1]
    BY DEF SaveToStaging
  <2> QED
    BY <2>1, <2>2
<1>5. pc' \in [Process -> {"open", "staging", "checking", "renaming", "verifying"}]
  BY <1>1 DEF SaveToStaging, TypeOK
<1>6. TypeOK'
  BY <1>1, <1>3, <1>4, <1>5 DEF SaveToStaging, TypeOK, boundVars
<1>7. /\ UNCHANGED staged
      /\ \A q \in Process \ {p} : UNCHANGED <<pc[q], next[q], staged[q], staging[q]>>
      /\ \/ pc'[p] = "staging" /\ next'[p] = next[p] + 1 /\ next[p] < Len(staged[p])
         \/ pc'[p] = "checking" /\ next'[p] = 1 /\ ~(next[p] < Len(staged[p]))
  BY <1>1 DEF SaveToStaging, TypeOK
<1>8. \A i \in 1 .. Len(staged[p]) : (i <= next[p]) => staged[p][i] \in staging'[p]
  <2> SUFFICES ASSUME NEW i \in 1 .. Len(staged[p]), i <= next[p]
               PROVE  staged[p][i] \in staging'[p]
    OBVIOUS
  <2>1. CASE i = next[p]
    BY <1>3, <2>1 DEF Current
  <2>2. CASE i < next[p]
    BY <1>1, <1>3, <2>2 DEF Copied
  <2> QED
    BY <1>2, <2>1, <2>2
<1>9. InLoop(p)' /\ OwnIds(p)' /\ Copied(p)'
  BY <1>1, <1>2, <1>7, <1>8 DEF InLoop, OwnIds, Copied
<1> QED
  BY <1>6, <1>7, <1>9, OtherLoops

\* The target is free: nothing has moved yet.
LEMMA AbsentLoop ==
    ASSUME LoopInv, NEW p \in Process, TargetAbsent(p)
    PROVE  LoopInv'
<1>1. TypeOK /\ InLoop(p) /\ Copied(p) /\ OwnIds(p) /\ pc[p] = "checking"
  BY DEF LoopInv, TargetAbsent
<1>2. TypeOK'
  BY <1>1 DEF TargetAbsent, TypeOK, boundVars
<1>3. pc'[p] = "renaming" /\ UNCHANGED <<staged, next, staging>>
  BY <1>1 DEF TargetAbsent, TypeOK
<1>4. InLoop(p)' /\ OwnIds(p)' /\ Copied(p)'
  BY <1>1, <1>3 DEF InLoop, OwnIds, Copied
<1> QED
  BY <1>1, <1>2, <1>3, <1>4, OtherLoops DEF TargetAbsent, TypeOK

\* One turn of the publishing loop takes at most the present envelope out of
\* the staging directory, and the others have other ids.
LEMMA AdvanceLoop ==
    ASSUME LoopInv, TypeOK', NEW p \in Process,
           pc[p] \in {"checking", "renaming"}, Advance(p), staged' = staged,
           \A q \in Process \ {p} : staging'[q] = staging[q],
           staging[p] \ {Current(p)} \subseteq staging'[p]
    PROVE  LoopInv'
<1>1. TypeOK /\ InLoop(p) /\ Copied(p) /\ OwnIds(p)
  BY DEF LoopInv
<1>2. Current(p) \in Storable /\ next[p] \in 1 .. Len(staged[p])
  BY <1>1, CurrentStorable
<1>3. /\ next'[p] = next[p] + 1
      /\ pc'[p] = IF next[p] < Len(staged[p]) THEN "checking" ELSE "verifying"
      /\ \A q \in Process \ {p} : UNCHANGED <<pc[q], next[q]>>
  BY <1>1 DEF Advance, TypeOK
<1>4. \A i \in 1 .. Len(staged[p]) : (i > next[p]) => staged[p][i] \in staging'[p]
  <2> SUFFICES ASSUME NEW i \in 1 .. Len(staged[p]), i > next[p]
               PROVE  staged[p][i] \in staging'[p]
    OBVIOUS
  <2>1. staged[p][i] \in staging[p]
    BY <1>1, <1>2 DEF Copied
  <2>2. staged[p][i] # Current(p)
    BY <1>1, <1>2 DEF OwnIds, Current
  <2> QED
    BY <2>1, <2>2
<1>5. InLoop(p)' /\ OwnIds(p)' /\ Copied(p)'
  BY <1>1, <1>2, <1>3, <1>4 DEF InLoop, OwnIds, Copied
<1> QED
  BY <1>3, <1>5, OtherLoops

\* The publishing loop moves on.
LEMMA PublishLoop ==
    ASSUME LoopInv, NEW p \in Process, TargetPresent(p) \/ Rename(p)
    PROVE  LoopInv'
<1>1. TypeOK /\ InLoop(p)
  BY DEF LoopInv
<1>2. CASE TargetPresent(p)
  <2>1. TypeOK'
    BY <1>1, <1>2 DEF TargetPresent, Advance, TypeOK, boundVars
  <2> QED
    BY <1>2, <2>1, AdvanceLoop DEF TargetPresent
<1>3. CASE Rename(p)
  <2>1. Current(p) \in Storable
    BY <1>1, <1>3, CurrentStorable DEF Rename
  <2>2. files' \in [Path -> Storable \union {Absent, Damaged}]
    BY <1>1, <1>3, <2>1 DEF Rename, TypeOK
  <2>3. /\ staging' = [staging EXCEPT ![p] = staging[p] \ {Current(p)}]
        /\ staging \in [Process -> SUBSET Storable]
    BY <1>1, <1>3 DEF Rename, TypeOK
  <2>4. /\ staging' \in [Process -> SUBSET Storable]
        /\ staging'[p] = staging[p] \ {Current(p)}
        /\ \A q \in Process \ {p} : staging'[q] = staging[q]
    BY <2>3
  <2>5. TypeOK'
    BY <1>1, <1>3, <2>2, <2>4 DEF Rename, Advance, TypeOK, boundVars
  <2> QED
    BY <1>3, <2>4, <2>5, AdvanceLoop DEF Rename
<1> QED
  BY <1>2, <1>3

\* Every step keeps the loops in order.
LEMMA LoopStep == LoopInv /\ [Next]_vars => LoopInv'
<1> SUFFICES ASSUME LoopInv, [Next]_vars
             PROVE  LoopInv'
  OBVIOUS
<1>1. ASSUME NEW path \in Path, Damage(path)
      PROVE  LoopInv'
  BY <1>1 DEF Damage, txnVars, LoopInv, TypeOK, InLoop, OwnIds, Copied
<1>2. CASE UNCHANGED vars
  BY <1>2 DEF vars, txnVars, boundVars, LoopInv, TypeOK, InLoop, OwnIds, Copied
<1>3. ASSUME NEW p \in Process, CommitStep(p)
      PROVE  LoopInv'
  BY <1>3, SaveLoop, AbsentLoop, PublishLoop, LeaveLoop
     DEF CommitStep, TargetCollision, VerifyFails
<1> QED
  BY <1>1, <1>2, <1>3, ClientLoop, BeginLoop, LeaveLoop DEF Next, StorageError

\* The loops of commit() are in order in every run, with whatever ids.
THEOREM LoopInvariant == Spec => []LoopInv
  BY LoopInit, LoopStep, PTL DEF Spec

\* Each variable of a commit keeps its type across retries, errors and crashes,
\* also when processes overwrite each other's records.
THEOREM TypeCorrect == Spec => []TypeOK
<1>1. LoopInv => TypeOK
  BY DEF LoopInv
<1> QED
  BY <1>1, LoopInvariant, PTL

\* A commit under way is never at an envelope that is not there: the loops stand
\* inside the transaction, and source_path of a rename (registries/transaction.py:
\* 121) is the file the staging loop wrote, which no other rename has taken.
SourcesThere ==
    \A p \in Process :
      pc[p] \in {"staging", "checking", "renaming"} =>
        /\ next[p] \in 1 .. Len(staged[p])
        /\ pc[p] # "staging" => Current(p) \in staging[p]

\* So no step of commit() finds less than it needs, whatever others do.
THEOREM SourcesAreThere == Spec => []SourcesThere
<1>1. LoopInv => SourcesThere
  <2> SUFFICES ASSUME LoopInv, NEW p \in Process,
                      pc[p] \in {"staging", "checking", "renaming"}
               PROVE  /\ next[p] \in 1 .. Len(staged[p])
                      /\ pc[p] # "staging" => Current(p) \in staging[p]
    BY DEF SourcesThere
  <2>1. next[p] \in 1 .. Len(staged[p])
    BY CurrentStorable DEF LoopInv
  <2> QED
    BY <2>1 DEF LoopInv, Copied, Current
<1> QED
  BY <1>1, LoopInvariant, PTL

-----------------------------------------------------------------------------
(* commit() comes to an end.                                               *)

\* The steps a commit has left: to copy each envelope, to look at and to rename
\* each, and to verify.
StepsLeft(p) ==
    LET n == Len(staged[p])
    IN  IF pc[p] = "staging" THEN n - next[p] + 1 + 2 * n + 1
        ELSE IF pc[p] = "checking" THEN 2 * (n - next[p]) + 3
        ELSE IF pc[p] = "renaming" THEN 2 * (n - next[p]) + 2
        ELSE IF pc[p] = "verifying" THEN 1
        ELSE 0

\* A commit of n envelopes has 3n + 1 steps before it, each of its own steps
\* takes one or more away, and nothing that others do ever adds one: what is
\* left of termination is that the process is scheduled.
CommitIsBounded ==
    [][\A p \in Process :
         /\ StepsLeft(p) \in Nat
         /\ BeginCommit(p) => StepsLeft(p)' = 3 * Len(staged[p]) + 1
         /\ CommitStep(p) => StepsLeft(p)' < StepsLeft(p)
         /\ pc[p] # "open" => StepsLeft(p)' <= StepsLeft(p)]_vars

\* The steps left are a natural number, and none only outside commit().
LEMMA StepsLeftType ==
    ASSUME LoopInv, NEW p \in Process
    PROVE  /\ StepsLeft(p) \in Nat
           /\ pc[p] # "open" => StepsLeft(p) > 0
<1>1. TypeOK /\ InLoop(p)
  BY DEF LoopInv
<1>2. Len(staged[p]) \in Nat /\ next[p] \in Nat \ {0}
  BY <1>1 DEF TypeOK
<1>3. pc[p] \in {"staging", "checking", "renaming"} => next[p] <= Len(staged[p])
  BY <1>1 DEF InLoop
<1> QED
  BY <1>1, <1>2, <1>3 DEF StepsLeft, TypeOK

\* Each step of commit() takes some of the steps away.
LEMMA StepTaken ==
    ASSUME LoopInv, NEW p \in Process, CommitStep(p)
    PROVE  StepsLeft(p)' < StepsLeft(p)
<1> DEFINE n == Len(staged[p])
<1>1. TypeOK /\ InLoop(p)
  BY DEF LoopInv
<1>2. n \in Nat /\ next[p] \in Nat \ {0}
  BY <1>1 DEF TypeOK
<1>3. pc[p] \in {"staging", "checking", "renaming"} => next[p] <= n
  BY <1>1 DEF InLoop
<1>4. CASE SaveToStaging(p)
  <2>1. /\ pc[p] = "staging" /\ staged'[p] = staged[p]
        /\ \/ pc'[p] = "staging" /\ next'[p] = next[p] + 1
           \/ pc'[p] = "checking" /\ next'[p] = 1 /\ ~(next[p] < n)
    BY <1>1, <1>4 DEF SaveToStaging, TypeOK
  <2>2. StepsLeft(p) = n - next[p] + 1 + 2 * n + 1
    BY <2>1 DEF StepsLeft
  <2>3. CASE pc'[p] = "staging"
    <3>1. StepsLeft(p)' = n - (next[p] + 1) + 1 + 2 * n + 1
      BY <2>1, <2>3 DEF StepsLeft
    <3> QED
      BY <1>2, <2>2, <3>1
  <2>4. CASE pc'[p] = "checking"
    <3>1. StepsLeft(p)' = 2 * (n - 1) + 3
      BY <2>1, <2>4 DEF StepsLeft
    <3> QED
      BY <1>2, <1>3, <2>1, <2>2, <3>1
  <2> QED
    BY <2>1, <2>3, <2>4
<1>5. CASE TargetAbsent(p)
  <2>1. pc[p] = "checking" /\ pc'[p] = "renaming" /\ UNCHANGED <<staged, next>>
    BY <1>1, <1>5 DEF TargetAbsent, TypeOK
  <2> QED
    BY <1>2, <1>3, <2>1 DEF StepsLeft
<1>6. CASE TargetPresent(p) \/ Rename(p)
  <2>1. /\ pc[p] \in {"checking", "renaming"} /\ staged'[p] = staged[p]
        /\ next'[p] = next[p] + 1
        /\ pc'[p] = IF next[p] < n THEN "checking" ELSE "verifying"
    BY <1>1, <1>6 DEF TargetPresent, Rename, Advance, TypeOK
  <2>2. StepsLeft(p) \in {2 * (n - next[p]) + 3, 2 * (n - next[p]) + 2}
    BY <2>1 DEF StepsLeft
  <2>3. CASE next[p] < n
    <3>1. StepsLeft(p)' = 2 * (n - (next[p] + 1)) + 3
      BY <2>1, <2>3 DEF StepsLeft
    <3> QED
      BY <1>2, <2>2, <3>1
  <2>4. CASE ~(next[p] < n)
    <3>1. StepsLeft(p)' = 1
      BY <2>1, <2>4 DEF StepsLeft
    <3> QED
      BY <1>2, <1>3, <2>1, <2>2, <3>1
  <2> QED
    BY <2>3, <2>4
<1>7. CASE TargetCollision(p) \/ VerifyFails(p) \/ FinishCommit(p)
  <2>1. pc[p] # "open" /\ pc'[p] = "open"
    BY <1>1, <1>7 DEF TargetCollision, VerifyFails, FinishCommit, Raise, TypeOK
  <2>2. StepsLeft(p) > 0 /\ StepsLeft(p)' = 0
    BY <2>1, StepsLeftType DEF StepsLeft
  <2> QED
    BY <2>2
<1> QED
  BY <1>4, <1>5, <1>6, <1>7 DEF CommitStep

\* What is no step of the process's own commit leaves it where it is, or ends it.
LEMMA StepOfOthers ==
    ASSUME LoopInv, [Next]_vars, NEW p \in Process, pc[p] # "open", ~CommitStep(p)
    PROVE  \/ UNCHANGED <<pc[p], next[p], staged[p]>>
           \/ pc'[p] = "open"
<1>1. TypeOK
  BY DEF LoopInv
<1>2. ASSUME NEW q \in Process,
             \/ NewTransaction(q) \/ (\E e \in Envelope : Stage(q, e)) \/ BeginCommit(q)
             \/ CommitStep(q) \/ StorageError(q) \/ Crash(q)
      PROVE  \/ UNCHANGED <<pc[p], next[p], staged[p]>>
             \/ pc'[p] = "open"
  <2>1. CASE q # p
    BY <1>1, <1>2, <2>1 DEF NewTransaction, Stage, BeginCommit, CommitStep, StorageError,
       Crash, SaveToStaging, TargetAbsent, TargetPresent, TargetCollision, Rename,
       FinishCommit, VerifyFails, Raise, Advance, TypeOK
  <2>2. CASE q = p
    BY <1>1, <1>2, <2>2 DEF NewTransaction, Stage, BeginCommit, StorageError, Crash,
       Raise, TypeOK
  <2> QED
    BY <2>1, <2>2
<1>3. ASSUME NEW path \in Path, Damage(path)
      PROVE  UNCHANGED <<pc[p], next[p], staged[p]>>
  BY <1>3 DEF Damage, txnVars
<1>4. CASE UNCHANGED vars
  BY <1>4 DEF vars, txnVars
<1> QED
  BY <1>2, <1>3, <1>4 DEF Next

\* A commit begins with two steps per envelope to publish it and one to copy
\* it ahead, and one to end.
LEMMA BeginSteps ==
    ASSUME LoopInv, NEW p \in Process, BeginCommit(p)
    PROVE  StepsLeft(p)' = 3 * Len(staged[p]) + 1
<1>1. /\ pc'[p] = "staging" /\ next'[p] = 1 /\ staged'[p] = staged[p]
      /\ Len(staged[p]) \in Nat
  BY DEF BeginCommit, LoopInv, TypeOK
<1>2. StepsLeft(p)' = Len(staged[p]) - 1 + 1 + 2 * Len(staged[p]) + 1
  BY <1>1 DEF StepsLeft
<1> QED
  BY <1>1, <1>2

\* Every commit, with whatever ids and neighbours, has a bounded way to its end.
THEOREM CommitsAreBounded == Spec => CommitIsBounded
<1> DEFINE Bounded ==
      \A p \in Process :
        /\ StepsLeft(p) \in Nat
        /\ BeginCommit(p) => StepsLeft(p)' = 3 * Len(staged[p]) + 1
        /\ CommitStep(p) => StepsLeft(p)' < StepsLeft(p)
        /\ pc[p] # "open" => StepsLeft(p)' <= StepsLeft(p)
<1> DEFINE Measured == \A p \in Process : StepsLeft(p) \in Nat
<1>1. LoopInv => Measured
  BY StepsLeftType
<1>2. LoopInv' => Measured'
  <2> HIDE DEF Measured
  <2> QED
    BY <1>1, PTL
<1>3. ASSUME LoopInv, LoopInv', [Next]_vars
      PROVE  Bounded
  <2> SUFFICES ASSUME NEW p \in Process
               PROVE  /\ StepsLeft(p) \in Nat
                      /\ BeginCommit(p) => StepsLeft(p)' = 3 * Len(staged[p]) + 1
                      /\ CommitStep(p) => StepsLeft(p)' < StepsLeft(p)
                      /\ pc[p] # "open" => StepsLeft(p)' <= StepsLeft(p)
    OBVIOUS
  <2>1. StepsLeft(p) \in Nat /\ StepsLeft(p)' \in Nat
    BY <1>3, <1>1, <1>2
  <2>2. ASSUME BeginCommit(p)
        PROVE  StepsLeft(p)' = 3 * Len(staged[p]) + 1
    BY <1>3, <2>2, BeginSteps
  <2>3. ASSUME CommitStep(p)
        PROVE  StepsLeft(p)' < StepsLeft(p)
    BY <1>3, <2>3, StepTaken
  <2>4. ASSUME pc[p] # "open"
        PROVE  StepsLeft(p)' <= StepsLeft(p)
    <3>1. CASE CommitStep(p)
      BY <2>1, <2>3, <3>1
    <3>2. CASE ~CommitStep(p)
      <4>1. UNCHANGED <<pc[p], next[p], staged[p]>> \/ pc'[p] = "open"
        BY <1>3, <2>4, <3>2, StepOfOthers
      <4> QED
        BY <2>1, <4>1 DEF StepsLeft
    <3> QED
      BY <3>1, <3>2
  <2> QED
    BY <2>1, <2>2, <2>3, <2>4
<1>4. LoopInv /\ LoopInv' /\ [Next]_vars => [Bounded]_vars
  BY <1>3
<1> QED
  BY <1>4, LoopInvariant, PTL DEF Spec, CommitIsBounded

-----------------------------------------------------------------------------
(* What is acknowledged and passed is stored.                              *)

\* The repository is empty and no commit runs.
LEMMA CommitInit == Init => CommitInv
<1>1. Init => AcknowledgedStored /\ \A p \in Process : PassedBy(p) /\ RenameSafe(p)
  BY DEF Init, AcknowledgedStored, PassedBy, RenameSafe, Publishing
<1> QED
  BY <1>1, LoopInit DEF CommitInv

\* A step of one process that changes no file keeps what holds of the others.
LEMMA OthersStay ==
    ASSUME CommitInv, LoopInv', UNCHANGED <<files, acked>>, NEW p \in Process,
           \A q \in Process \ {p} : UNCHANGED <<pc[q], next[q], staged[q]>>,
           PassedBy(p)', RenameSafe(p)'
    PROVE  CommitInv'
<1>1. AcknowledgedStored'
  BY DEF CommitInv, AcknowledgedStored
<1>2. ASSUME NEW q \in Process \ {p}
      PROVE  PassedBy(q)' /\ RenameSafe(q)'
  <2>1. PassedBy(q) /\ RenameSafe(q)
    BY DEF CommitInv
  <2> QED
    BY <2>1 DEF PassedBy, RenameSafe, Current
<1> QED
  BY <1>1, <1>2 DEF CommitInv

\* A process that is not publishing has nothing to lose.
LEMMA NotPublishing ==
    ASSUME NEW p \in Process, pc'[p] \in {"open", "staging"} \/ next'[p] = 1,
           pc'[p] # "renaming", LoopInv'
    PROVE  PassedBy(p)' /\ RenameSafe(p)'
BY DEF PassedBy, RenameSafe, Publishing, LoopInv, TypeOK

\* Steps before the publishing loop and out of it touch no file of the
\* repository.
LEMMA QuietStep ==
    ASSUME CommitInv, LoopInv', NEW p \in Process,
           \/ NewTransaction(p) \/ (\E e \in Envelope : Stage(p, e))
           \/ BeginCommit(p) \/ SaveToStaging(p) \/ Raise(p) \/ Crash(p)
    PROVE  CommitInv'
<1>1. TypeOK
  BY DEF CommitInv, LoopInv
<1>2. /\ UNCHANGED <<files, acked>>
      /\ \A q \in Process \ {p} : UNCHANGED <<pc[q], next[q], staged[q]>>
      /\ pc'[p] # "renaming"
      /\ pc'[p] \in {"open", "staging"} \/ next'[p] = 1
  BY <1>1 DEF NewTransaction, Stage, BeginCommit, SaveToStaging, Raise, Crash, TypeOK
<1> QED
  BY <1>2, NotPublishing, OthersStay

\* Finding the target free is what makes the next rename safe: no acknowledged
\* record can be there.
LEMMA AbsentStep ==
    ASSUME CommitInv, LoopInv', NEW p \in Process, TargetAbsent(p)
    PROVE  CommitInv'
<1>1. TypeOK /\ PassedBy(p) /\ AcknowledgedStored
  BY DEF CommitInv, LoopInv
<1>2. /\ pc[p] = "checking" /\ pc'[p] = "renaming"
      /\ files[PathOf(Current(p))] = Absent
      /\ UNCHANGED <<files, acked, staged, next>>
      /\ \A q \in Process \ {p} : UNCHANGED <<pc[q], next[q], staged[q]>>
  BY <1>1 DEF TargetAbsent, TypeOK
<1>3. PassedBy(p)'
  BY <1>1, <1>2 DEF PassedBy, Publishing
<1>4. ASSUME NEW e \in acked, PathOf(e) = PathOf(Current(p))
      PROVE  FALSE
  <2>1. e \in Storable
    BY <1>1 DEF TypeOK
  <2>2. files[PathOf(e)] \in {e, Damaged}
    BY <1>1 DEF AcknowledgedStored
  <2> QED
    BY <1>2, <1>4, <2>1, <2>2, Paths
<1>5. RenameSafe(p)'
  BY <1>2, <1>4 DEF RenameSafe, Current
<1> QED
  BY <1>2, <1>3, <1>5, OthersStay

\* One turn of the loop leaves the envelope it was at stored, and those before it
\* where they were.
LEMMA AdvancePasses ==
    ASSUME CommitInv, NEW p \in Process,
           pc[p] \in {"checking", "renaming"}, Advance(p), staged' = staged,
           files'[PathOf(Current(p))] = Current(p),
           \A path \in Path : path # PathOf(Current(p)) => files'[path] = files[path]
    PROVE  PassedBy(p)' /\ RenameSafe(p)'
<1>1. TypeOK /\ InLoop(p) /\ OwnIds(p) /\ PassedBy(p)
  BY DEF CommitInv, LoopInv
<1>2. /\ next'[p] = next[p] + 1
      /\ pc'[p] = IF next[p] < Len(staged[p]) THEN "checking" ELSE "verifying"
  BY <1>1 DEF Advance, TypeOK
<1>3. Current(p) \in Storable /\ next[p] \in 1 .. Len(staged[p])
  BY <1>1, CurrentStorable
<1>4. PassedBy(p)'
  <2> SUFFICES ASSUME NEW i \in 1 .. Len(staged[p]), i < next[p] + 1
               PROVE  files'[PathOf(staged[p][i])] \in {staged[p][i], Damaged}
    BY <1>2 DEF PassedBy, PathOf
  <2>1. CASE i = next[p]
    BY <2>1 DEF Current
  <2>2. CASE i < next[p]
    <3>1. files[PathOf(staged[p][i])] \in {staged[p][i], Damaged}
      BY <1>1, <2>2 DEF PassedBy, Publishing
    <3>2. staged[p][i].id # Current(p).id
      BY <1>1, <1>3, <2>2 DEF OwnIds, Current
    <3>3. staged[p][i] \in Storable /\ PathOf(staged[p][i]) # PathOf(Current(p))
      BY <1>1, <3>2 DEF PathOf, TypeOK
    <3> QED
      BY <3>1, <3>3, Paths
  <2> QED
    BY <1>3, <2>1, <2>2
<1> QED
  BY <1>2, <1>4 DEF RenameSafe

\* A target that is skipped already holds the envelope.
LEMMA PresentStep ==
    ASSUME CommitInv, LoopInv', NEW p \in Process, TargetPresent(p)
    PROVE  CommitInv'
<1>1. TypeOK
  BY DEF CommitInv, LoopInv
<1>2. /\ UNCHANGED <<files, acked, staged>>
      /\ \A q \in Process \ {p} : UNCHANGED <<pc[q], next[q], staged[q]>>
  BY <1>1 DEF TargetPresent, Advance, TypeOK
<1>3. PassedBy(p)' /\ RenameSafe(p)'
  BY <1>2, AdvancePasses DEF TargetPresent
<1> QED
  BY <1>2, <1>3, OthersStay

\* The renaming of one envelope replaces no other readable envelope.
LEMMA RenameKeeps ==
    ASSUME CommitInv, NEW p \in Process, Rename(p)
    PROVE  /\ Current(p) \in Storable /\ Current(p) \in Staged(p)
           /\ PathOf(Current(p)) \in Path
           /\ files' = [files EXCEPT ![PathOf(Current(p))] = Current(p)]
           /\ files'[PathOf(Current(p))] = Current(p)
           /\ \A path \in Path : path # PathOf(Current(p)) => files'[path] = files[path]
           /\ files[PathOf(Current(p))] \in {Absent, Damaged, Current(p)}
<1>1. TypeOK /\ InLoop(p) /\ RenameSafe(p) /\ pc[p] = "renaming"
  BY DEF CommitInv, LoopInv, Rename
<1>2. Current(p) \in Storable /\ next[p] \in 1 .. Len(staged[p])
  BY <1>1, CurrentStorable
<1>3. Current(p) \in Staged(p)
  BY <1>2 DEF Staged, Current
<1>4. files' = [files EXCEPT ![PathOf(Current(p))] = Current(p)]
  BY DEF Rename
<1>5. files \in [Path -> Storable \union {Absent, Damaged}] /\ PathOf(Current(p)) \in Path
  BY <1>1, <1>2, Paths DEF TypeOK
<1> QED
  BY <1>1, <1>2, <1>3, <1>4, <1>5 DEF RenameSafe

\* A rename replaces nothing that others have passed, are about to rename, or
\* were acknowledged for, as long as commits do not compete.
LEMMA RenameStep ==
    ASSUME Apart, CommitInv, LoopInv', NEW p \in Process, Rename(p)
    PROVE  CommitInv'
<1> DEFINE c == Current(p)
<1>1. TypeOK /\ RenameSafe(p) /\ AcknowledgedStored
  BY DEF CommitInv, LoopInv
<1>2. /\ c \in Storable /\ c \in Staged(p) /\ PathOf(c) \in Path
      /\ files'[PathOf(c)] = c
      /\ \A path \in Path : path # PathOf(c) => files'[path] = files[path]
  BY RenameKeeps
<1>3. /\ pc[p] = "renaming" /\ Advance(p) /\ UNCHANGED <<acked, staged>>
      /\ \A q \in Process \ {p} : UNCHANGED <<pc[q], next[q], staged[q]>>
  BY <1>1 DEF Rename, Advance, TypeOK
<1>4. AcknowledgedStored'
  <2> SUFFICES ASSUME NEW e \in acked
               PROVE  files'[PathOf(e)] \in {e, Damaged}
    BY <1>3 DEF AcknowledgedStored, PathOf
  <2>1. e \in Storable /\ files[PathOf(e)] \in {e, Damaged}
    BY <1>1 DEF TypeOK, AcknowledgedStored
  <2>2. PathOf(e) = PathOf(c) => e = c
    BY <1>1, <1>3 DEF RenameSafe
  <2> QED
    BY <1>2, <2>1, <2>2, Paths
<1>5. PassedBy(p)' /\ RenameSafe(p)'
  BY <1>2, <1>3, AdvancePasses
<1>6. ASSUME NEW q \in Process \ {p}
      PROVE  PassedBy(q)' /\ RenameSafe(q)'
  <2>1. PassedBy(q) /\ RenameSafe(q) /\ InLoop(q)
    BY DEF CommitInv, LoopInv
  <2>2. ASSUME pc[q] # "open", NEW e \in Staged(q), PathOf(e) = PathOf(c)
        PROVE  e = c
    BY <1>2, <1>3, <2>2 DEF Apart
  <2>3. PassedBy(q)'
    <3> SUFFICES ASSUME pc[q] \in Publishing,
                        NEW i \in 1 .. Len(staged[q]), i < next[q]
                 PROVE  files'[PathOf(staged[q][i])] \in {staged[q][i], Damaged}
      BY <1>3 DEF PassedBy, PathOf, Publishing
    <3>1. staged[q][i] \in Storable /\ staged[q][i] \in Staged(q)
      BY <1>1 DEF TypeOK, Staged
    <3>2. files[PathOf(staged[q][i])] \in {staged[q][i], Damaged}
      BY <2>1 DEF PassedBy
    <3>3. PathOf(staged[q][i]) = PathOf(c) => staged[q][i] = c
      BY <2>2, <3>1 DEF Publishing
    <3> QED
      BY <1>2, <3>1, <3>2, <3>3, Paths
  <2>4. RenameSafe(q)'
    <3> SUFFICES ASSUME pc[q] = "renaming"
                 PROVE  /\ files'[PathOf(Current(q))] \in {Absent, Damaged, Current(q)}
                        /\ \A e \in acked : PathOf(e) = PathOf(Current(q)) => e = Current(q)
      BY <1>3 DEF RenameSafe, Current, PathOf
    <3>1. Current(q) \in Storable /\ Current(q) \in Staged(q)
      <4>1. next[q] \in 1 .. Len(staged[q]) /\ Current(q) \in Storable
        BY <1>1, <2>1, CurrentStorable
      <4> QED
        BY <4>1 DEF Staged, Current
    <3>2. PathOf(Current(q)) = PathOf(c) => Current(q) = c
      BY <2>2, <3>1
    <3> QED
      BY <1>2, <2>1, <3>1, <3>2, Paths DEF RenameSafe
  <2> QED
    BY <2>3, <2>4
<1> QED
  BY <1>4, <1>5, <1>6 DEF CommitInv

\* What verify_all() finds readable, after the loop has passed all of it, is
\* the whole transaction.
LEMMA AllStored ==
    ASSUME CommitInv, NEW p \in Process, FinishCommit(p)
    PROVE  /\ Staged(p) \subseteq Storable
           /\ \A e \in Staged(p) : files[PathOf(e)] = e
<1> SUFFICES ASSUME NEW i \in 1 .. Len(staged[p])
             PROVE  /\ staged[p][i] \in Storable
                    /\ files[PathOf(staged[p][i])] = staged[p][i]
  BY DEF Staged
<1>1. staged[p][i] \in Storable
  BY DEF CommitInv, LoopInv, TypeOK
<1>2. next[p] = Len(staged[p]) + 1 /\ i < next[p]
  BY DEF FinishCommit, CommitInv, LoopInv, InLoop, TypeOK
<1>3. files[PathOf(staged[p][i])] \in {staged[p][i], Damaged}
  BY <1>2 DEF FinishCommit, CommitInv, PassedBy, Publishing
<1>4. files[PathOf(staged[p][i])] # Damaged
  BY <1>1, Paths DEF FinishCommit, AllReadable
<1> QED
  BY <1>1, <1>3, <1>4

\* A commit is acknowledged when its loop has passed every envelope; what others
\* are about to rename is nothing else at its paths.
LEMMA FinishStep ==
    ASSUME Apart, CommitInv, LoopInv', NEW p \in Process, FinishCommit(p)
    PROVE  CommitInv'
<1>1. TypeOK
  BY DEF CommitInv, LoopInv
<1>2. /\ pc[p] # "open" /\ pc'[p] = "open" /\ UNCHANGED files
      /\ acked' = acked \union Staged(p)
      /\ \A q \in Process \ {p} : UNCHANGED <<pc[q], next[q], staged[q]>>
  BY <1>1 DEF FinishCommit, TypeOK
<1>3. AcknowledgedStored'
  BY <1>2, AllStored DEF CommitInv, AcknowledgedStored
<1>4. ASSUME NEW q \in Process \ {p}
      PROVE  PassedBy(q)' /\ RenameSafe(q)'
  <2>1. PassedBy(q) /\ RenameSafe(q) /\ InLoop(q)
    BY DEF CommitInv, LoopInv
  <2>2. PassedBy(q)'
    BY <1>2, <2>1 DEF PassedBy
  <2>3. RenameSafe(q)'
    <3> SUFFICES ASSUME pc[q] = "renaming"
                 PROVE  /\ files[PathOf(Current(q))] \in {Absent, Damaged, Current(q)}
                        /\ \A e \in acked \union Staged(p) :
                             PathOf(e) = PathOf(Current(q)) => e = Current(q)
      BY <1>2 DEF RenameSafe, Current, PathOf
    <3>1. Current(q) \in Staged(q)
      <4>1. next[q] \in 1 .. Len(staged[q])
        BY <1>1, <2>1, CurrentStorable
      <4> QED
        BY <4>1 DEF Staged, Current
    <3>2. \A e \in Staged(p) : PathOf(e) = PathOf(Current(q)) => e = Current(q)
      BY <1>2, <3>1 DEF Apart
    <3> QED
      BY <2>1, <3>2 DEF RenameSafe
  <2> QED
    BY <2>2, <2>3
<1>5. PassedBy(p)' /\ RenameSafe(p)'
  BY <1>2, NotPublishing
<1> QED
  BY <1>3, <1>4, <1>5 DEF CommitInv

\* A damaged file was readable, and counts as damaged from then on.
LEMMA DamageStep ==
    ASSUME CommitInv, LoopInv', NEW path \in Path, Damage(path)
    PROVE  CommitInv'
<1>1. TypeOK
  BY DEF CommitInv, LoopInv
<1>2. /\ files'[path] = Damaged
      /\ \A other \in Path \ {path} : files'[other] = files[other]
      /\ UNCHANGED <<pc, next, staged, acked>>
  BY <1>1 DEF Damage, txnVars, TypeOK
<1>3. \A e \in Storable : files[PathOf(e)] \in {e, Damaged} =>
                             files'[PathOf(e)] \in {e, Damaged}
  BY <1>2, Paths
<1>4. AcknowledgedStored'
  BY <1>1, <1>2, <1>3 DEF CommitInv, TypeOK, AcknowledgedStored
<1>5. ASSUME NEW q \in Process
      PROVE  PassedBy(q)' /\ RenameSafe(q)'
  <2>1. PassedBy(q) /\ RenameSafe(q) /\ InLoop(q)
    BY DEF CommitInv, LoopInv
  <2>2. PassedBy(q)'
    <3> SUFFICES ASSUME pc[q] \in Publishing,
                        NEW i \in 1 .. Len(staged[q]), i < next[q]
                 PROVE  files'[PathOf(staged[q][i])] \in {staged[q][i], Damaged}
      BY <1>2 DEF PassedBy, PathOf, Publishing
    <3>1. staged[q][i] \in Storable
      BY <1>1 DEF TypeOK
    <3> QED
      BY <1>3, <2>1, <3>1 DEF PassedBy
  <2>3. RenameSafe(q)'
    <3> SUFFICES ASSUME pc[q] = "renaming"
                 PROVE  /\ files'[PathOf(Current(q))] \in {Absent, Damaged, Current(q)}
                        /\ \A e \in acked : PathOf(e) = PathOf(Current(q)) => e = Current(q)
      BY <1>2 DEF RenameSafe, Current, PathOf
    <3>1. PathOf(Current(q)) \in Path
      BY <1>1, <2>1, CurrentStorable, Paths
    <3> QED
      BY <1>2, <2>1, <3>1 DEF RenameSafe
  <2> QED
    BY <2>2, <2>3
<1> QED
  BY <1>4, <1>5 DEF CommitInv

-----------------------------------------------------------------------------
(* The theorems.                                                           *)

\* Every step keeps the invariant.
LEMMA CommitStepKeeps ==
    ASSUME Apart, CommitInv, [Next]_vars
    PROVE  CommitInv'
<1>0. LoopInv'
  BY LoopStep DEF CommitInv
<1>1. CASE UNCHANGED vars
  <2> USE <1>1 DEF vars, txnVars, boundVars
  <2>1. AcknowledgedStored'
    BY DEF CommitInv, AcknowledgedStored
  <2>2. ASSUME NEW q \in Process
        PROVE  PassedBy(q)' /\ RenameSafe(q)'
    <3>1. PassedBy(q) /\ RenameSafe(q)
      BY DEF CommitInv
    <3> QED
      BY <3>1 DEF PassedBy, RenameSafe, Current
  <2> QED
    BY <1>0, <2>1, <2>2 DEF CommitInv
<1>2. ASSUME NEW p \in Process, CommitStep(p)
      PROVE  CommitInv'
  BY <1>0, <1>2, QuietStep, AbsentStep, PresentStep, RenameStep, FinishStep
     DEF CommitStep, TargetCollision, VerifyFails
<1> QED
  BY <1>0, <1>1, <1>2, QuietStep, DamageStep DEF Next, StorageError

\* The invariant of commits: what is acknowledged or passed is in its place, and
\* a rename that is due replaces nothing.
THEOREM CommitInvariant == Spec /\ []Apart => []CommitInv
<1>1. CommitInv /\ Apart /\ [Next]_vars => CommitInv'
  BY CommitStepKeeps
<1> QED
  BY <1>1, CommitInit, PTL DEF Spec

\* Every record of every commit that returned stays stored, for any number of
\* processes whose commits do not compete for a path while they overlap.
THEOREM AcknowledgedAreStored == Spec /\ []Apart => []AcknowledgedStored
<1>1. CommitInv => AcknowledgedStored
  BY DEF CommitInv
<1> QED
  BY <1>1, CommitInvariant, PTL

\* What a commit has passed is stored, at every moment it can be interrupted.
THEOREM PassedAreStored == Spec /\ []Apart => []PassedStored
<1>1. CommitInv => PassedStored
  BY DEF CommitInv, PassedStored, PassedBy, Publishing
<1> QED
  BY <1>1, CommitInvariant, PTL

\* Only a rename and damage change a file.
LEMMA FilesChange ==
    ASSUME [Next]_vars
    PROVE  \/ UNCHANGED files
           \/ \E p \in Process : Rename(p)
           \/ \E path \in Path : Damage(path)
BY DEF Next, vars, CommitStep, NewTransaction, Stage, BeginCommit, SaveToStaging,
   TargetAbsent, TargetPresent, TargetCollision, Raise, FinishCommit,
   VerifyFails, StorageError, Crash

\* A readable record is never replaced by another and never vanishes.
THEOREM RecordsAreImmutable == Spec /\ []Apart => RecordsImmutable
<1> DEFINE Kept == \A path \in Path :
             files[path] \in Storable => files'[path] \in {files[path], Damaged}
<1>1. ASSUME CommitInv, [Next]_vars
      PROVE  Kept
  <2>1. ASSUME UNCHANGED files
        PROVE  Kept
    BY <2>1
  <2>2. ASSUME NEW p \in Process, Rename(p)
        PROVE  Kept
    BY <1>1, <2>2, RenameKeeps, Paths
  <2>3. ASSUME NEW path \in Path, Damage(path)
        PROVE  Kept
    BY <1>1, <2>3 DEF Damage, CommitInv, LoopInv, TypeOK
  <2> QED
    BY <1>1, <2>1, <2>2, <2>3, FilesChange
<1>2. CommitInv /\ [Next]_vars => [Kept]_vars
  BY <1>1
<1> QED
  BY <1>2, CommitInvariant, PTL DEF Spec, RecordsImmutable

-----------------------------------------------------------------------------
(* The repository implements the write-once store.                         *)

\* Each step is a step of the write-once store, or a stutter.
LEMMA StoreStep ==
    ASSUME CommitInv, [Next]_vars
    PROVE  [Store!Next]_(Store!vars)
<1> DEFINE Same == UNCHANGED <<files, acked>>
<1>1. ASSUME NEW p \in Process, Rename(p)
      PROVE  Store!Put(Current(p)) /\ Current(p) \in Storable
  BY <1>1, RenameKeeps DEF Store!Put, Rename
<1>2. ASSUME NEW p \in Process, FinishCommit(p)
      PROVE  Store!Acknowledge(Staged(p)) /\ Staged(p) \in SUBSET Storable
  BY <1>2, AllStored DEF Store!Acknowledge, FinishCommit
<1>3. ASSUME NEW path \in Path, Damage(path)
      PROVE  Store!Decay(path)
  BY <1>3, Paths DEF Store!Decay, Damage
<1>4. \/ Same
      \/ \E p \in Process : Rename(p) \/ FinishCommit(p)
      \/ \E path \in Path : Damage(path)
  BY DEF Next, vars, CommitStep, NewTransaction, Stage, BeginCommit,
     SaveToStaging, TargetAbsent, TargetPresent, TargetCollision, Raise,
     VerifyFails, StorageError, Crash
<1> QED
  BY <1>1, <1>2, <1>3, <1>4 DEF Store!Next, Store!vars

\* What clients see of the repository is a store whose records appear one by
\* one, never change, and are all there when a commit is acknowledged.
THEOREM StoreImplemented == Spec /\ []Apart => ImplementsWriteOnceStore
<1>1. Init => Store!Init
  BY DEF Init, Store!Init
<1>2. CommitInv /\ [Next]_vars => [Store!Next]_(Store!vars)
  BY StoreStep
<1> QED
  BY <1>1, <1>2, CommitInvariant, PTL DEF Spec, ImplementsWriteOnceStore, Store!Spec

-----------------------------------------------------------------------------
(* When commits do not compete.                                            *)

\* One commit is under way at a time, of whatever process.
TakeTurns ==
    \A p, q \in Process : (pc[p] # "open" /\ pc[q] # "open") => p = q

\* Ids that are fresh UUIDs, as the runtime draws them, are enough, and so is a
\* single process; both premises are about the clients alone.
THEOREM GuardedIsApart == Guarded => (Spec => []Apart)
<1> SUFFICES ASSUME Guarded
             PROVE  Spec => []Apart
  OBVIOUS
<1>1. LoopInv => Apart
  <2>1. CASE SingleWriter
    BY <2>1 DEF SingleWriter, Apart
  <2>2. CASE FreshIds
    BY <2>2 DEF FreshIds, Apart, Staged, LoopInv, TypeOK
  <2> QED
    BY <2>1, <2>2 DEF Guarded
<1> QED
  BY <1>1, LoopInvariant, PTL

\* Also processes that take turns may use any ids: then the repository is the
\* write-once store, whoever crashes, fails or tries again.
THEOREM TurnsImplementStore == Spec /\ []TakeTurns => ImplementsWriteOnceStore
<1>1. TakeTurns => Apart
  BY DEF TakeTurns, Apart
<1>2. []TakeTurns => []Apart
  BY <1>1, PTL
<1> QED
  BY <1>2, StoreImplemented
==============================================================================
