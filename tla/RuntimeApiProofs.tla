--------------------------- MODULE RuntimeApiProofs ---------------------------
(***************************************************************************)
(* What TLAPS proves of RuntimeApi for any number of types, records,       *)
(* attempts, calls and disturbances: what retries leave in the repository, *)
(* and what a snapshot or a verification that reads file by file says of   *)
(* a system that changes meanwhile.                                        *)
(***************************************************************************)
EXTENDS RuntimeApi, TraceLedgerProofs, FunctionTheorems

-----------------------------------------------------------------------------
(* The repository.                                                         *)

Stored(a, i) == \E f \in store : f.id = <<a, i>>

\* A record file of the first attempts.
File(attempts) ==
    [id : (1 .. attempts) \X (1 .. Len(Batch)), type : Type,
     readable : BOOLEAN, zoned : BOOLEAN]

\* Record files carry the ids their attempts have drawn, each once.
FileTypes ==
    /\ attempt \in Nat /\ published \in 0 .. Idle /\ persisted \in BOOLEAN
    /\ IsFiniteSet(store)
    /\ store \subseteq File(attempt)
    /\ \A f, g \in store : f.id = g.id => f = g

\* An attempt leaves a prefix; the present one has stored what it published.
AttemptsOK ==
    /\ \A a \in 1 .. attempt, i \in 1 .. Len(Batch) :
         Stored(a, i) => \A j \in 1 .. i : Stored(a, j)
    /\ published # Idle =>
         /\ attempt > 0
         /\ \A i \in 1 .. Len(Batch) : Stored(attempt, i) <=> i <= published
    /\ persisted => \E a \in 1 .. attempt : \A i \in 1 .. Len(Batch) : Stored(a, i)

StoreInv == FileTypes /\ AttemptsOK

\* Where nothing of the repository and its caller changes.
LEMMA StoreStays ==
    ASSUME StoreInv, UNCHANGED <<store, attempt, published, persisted>>
    PROVE  StoreInv'
<1>1. FileTypes'
  BY DEF StoreInv, FileTypes
<1>2. \A a, i : Stored(a, i)' <=> Stored(a, i)
  BY DEF Stored
<1>3. AttemptsOK'
  BY <1>2 DEF StoreInv, AttemptsOK
<1> QED
  BY <1>1, <1>3 DEF StoreInv

\* A new attempt has stored nothing yet.
LEMMA PersistKeeps == ASSUME StoreInv, Persist PROVE StoreInv'
<1>1. /\ attempt \in Nat /\ attempt' = attempt + 1 /\ published' = 0
      /\ persisted' = persisted /\ store' = store /\ Idle \in Nat \ {0}
      /\ Len(Batch) \in Nat
  BY ApiAssumption DEF Persist, StoreInv, FileTypes, repositoryVars, Idle
<1>2. FileTypes'
  <2>1. (1 .. attempt) \subseteq (1 .. attempt')
    BY <1>1
  <2> QED
    BY <1>1, <2>1 DEF StoreInv, FileTypes, File
<1>3. \A i \in 1 .. Len(Batch) : ~Stored(attempt', i)
  BY <1>1 DEF Stored, StoreInv, FileTypes, File
<1>4. \A a, i : Stored(a, i)' <=> Stored(a, i)
  BY <1>1 DEF Stored
<1>5. AttemptsOK'
  <2>1. ASSUME NEW a \in 1 .. attempt', NEW i \in 1 .. Len(Batch), Stored(a, i)'
        PROVE  \A j \in 1 .. i : Stored(a, j)'
    BY <1>1, <1>3, <1>4, <2>1 DEF StoreInv, AttemptsOK
  <2>2. \A i \in 1 .. Len(Batch) : Stored(attempt, i)' <=> i <= published'
    BY <1>1, <1>3, <1>4
  <2>3. persisted' => \E a \in 1 .. attempt' : \A i \in 1 .. Len(Batch) : Stored(a, i)'
    BY <1>1, <1>4 DEF StoreInv, AttemptsOK
  <2> QED
    BY <1>1, <1>3, <1>4, <2>1, <2>3 DEF AttemptsOK
<1> QED
  BY <1>2, <1>5 DEF StoreInv

\* A record appears: the id after those of the present attempt.
LEMMA PublishKeeps == ASSUME StoreInv, Publish PROVE StoreInv'
<1> DEFINE i0 == published + 1
<1>1. /\ attempt \in Nat /\ attempt' = attempt /\ attempt > 0
      /\ published \in Nat /\ published' = i0 /\ i0 \in 1 .. Len(Batch)
      /\ published # Idle /\ persisted' = persisted
      /\ store' = store \union {NewFile} /\ Len(Batch) \in Nat
  <2>1. /\ published' = i0 /\ published < Len(Batch)
        /\ UNCHANGED <<attempt, persisted>> /\ store' = store \union {NewFile}
    BY DEF Publish
  <2>2. attempt \in Nat /\ published \in 0 .. Len(Batch) + 1 /\ Len(Batch) \in Nat
    BY ApiAssumption DEF StoreInv, FileTypes, Idle
  <2>3. published \in Nat /\ published # Len(Batch) + 1 /\ i0 \in 1 .. Len(Batch)
    BY <2>1, <2>2
  <2>4. attempt > 0
    BY <2>3 DEF StoreInv, AttemptsOK, Idle
  <2> QED
    BY <2>1, <2>2, <2>3, <2>4 DEF Idle
<1>2. /\ NewFile.id = <<attempt, i0>>
      /\ NewFile \in File(attempt)
  <2>1. Batch[i0] \in Type
    BY <1>1, ApiAssumption
  <2>2. attempt \in 1 .. attempt
    BY <1>1
  <2> QED
    BY <1>1, <2>1, <2>2 DEF NewFile, File
<1>3. \A a, i : Stored(a, i)' <=> Stored(a, i) \/ (a = attempt /\ i = i0)
  BY <1>1, <1>2 DEF Stored
<1>4. ~Stored(attempt, i0)
  BY <1>1 DEF StoreInv, AttemptsOK
<1>5. FileTypes'
  <2>1. IsFiniteSet(store')
    BY <1>1, FS_AddElement DEF StoreInv, FileTypes
  <2>2. \A f \in store : f.id # NewFile.id
    BY <1>2, <1>4 DEF Stored
  <2>3. \A f, g \in store' : f.id = g.id => f = g
    BY <1>1, <2>2 DEF StoreInv, FileTypes
  <2>4. published' \in 0 .. Idle
    BY <1>1 DEF Idle
  <2>5. store' \subseteq File(attempt')
    BY <1>1, <1>2 DEF StoreInv, FileTypes
  <2> QED
    BY <1>1, <2>1, <2>3, <2>4, <2>5 DEF StoreInv, FileTypes
<1>6. \A i \in 1 .. Len(Batch) : Stored(attempt, i) <=> i <= published
  BY <1>1 DEF StoreInv, AttemptsOK
<1>7. AttemptsOK'
  <2>1. ASSUME NEW a \in 1 .. attempt', NEW i \in 1 .. Len(Batch), Stored(a, i)',
               NEW j \in 1 .. i
        PROVE  Stored(a, j)'
    <3>1. CASE Stored(a, i)
      BY <1>1, <1>3, <3>1 DEF StoreInv, AttemptsOK
    <3>2. CASE a = attempt /\ i = i0
      <4>1. j \in 1 .. Len(Batch) /\ (j <= published \/ j = i0)
        BY <1>1, <3>2
      <4> QED
        BY <1>3, <1>6, <3>2, <4>1
    <3> QED
      BY <1>3, <2>1, <3>1, <3>2
  <2>2. ASSUME NEW i \in 1 .. Len(Batch)
        PROVE  Stored(attempt, i)' <=> i <= i0
    <3>1. i <= i0 <=> i <= published \/ i = i0
      BY <1>1
    <3> QED
      BY <1>1, <1>3, <1>6, <3>1
  <2>3. persisted' => \E a \in 1 .. attempt' : \A i \in 1 .. Len(Batch) : Stored(a, i)'
    BY <1>1, <1>3 DEF StoreInv, AttemptsOK
  <2> QED
    BY <1>1, <2>1, <2>2, <2>3 DEF AttemptsOK
<1> QED
  BY <1>5, <1>7 DEF StoreInv

\* All records are stored when the call returns.
LEMMA ReturnKeeps == ASSUME StoreInv, PersistReturns PROVE StoreInv'
<1>1. /\ attempt \in Nat /\ attempt' = attempt /\ attempt > 0
      /\ published = Len(Batch) /\ published' = Idle /\ persisted' = TRUE
      /\ store' = store /\ Len(Batch) \in Nat /\ Idle \in 0 .. Idle
  BY ApiAssumption DEF PersistReturns, StoreInv, FileTypes, AttemptsOK, repositoryVars, Idle
<1>2. \A i \in 1 .. Len(Batch) : Stored(attempt, i)
  BY <1>1, ApiAssumption DEF StoreInv, AttemptsOK, Idle
<1>3. \A a, i : Stored(a, i)' <=> Stored(a, i)
  BY <1>1 DEF Stored
<1>4. FileTypes'
  BY <1>1 DEF StoreInv, FileTypes
<1>5. AttemptsOK'
  BY <1>1, <1>2, <1>3 DEF StoreInv, AttemptsOK
<1> QED
  BY <1>4, <1>5 DEF StoreInv

\* A call that fails leaves what it published.
LEMMA FailKeeps == ASSUME StoreInv, PersistFails PROVE StoreInv'
<1>1. /\ UNCHANGED <<attempt, persisted, store>> /\ published' = Idle
      /\ Idle \in 0 .. Idle
  BY ApiAssumption DEF PersistFails, repositoryVars, Idle
<1>2. \A a, i : Stored(a, i)' <=> Stored(a, i)
  BY <1>1 DEF Stored
<1>3. FileTypes'
  BY <1>1 DEF StoreInv, FileTypes
<1>4. AttemptsOK'
  BY <1>1, <1>2 DEF StoreInv, AttemptsOK
<1> QED
  BY <1>3, <1>4 DEF StoreInv

\* A file that is damaged keeps its name and its type, and is no more readable.
LEMMA SpoiledForm ==
    ASSUME StoreInv, NEW f \in store, NEW g \in SpoiledForms(f)
    PROVE  /\ f \in File(attempt) /\ g \in File(attempt)
           /\ g.id = f.id /\ g.type = f.type
           /\ g.readable = FALSE \/ g.readable = f.readable
BY DEF StoreInv, FileTypes, File, SpoiledForms

\* Damage keeps what is said of the repository.
LEMMA SpoilKeeps == ASSUME StoreInv, Spoil PROVE StoreInv'
<1>1. UNCHANGED <<attempt, published, persisted>>
  BY DEF Spoil, clientVars
<1>2. ASSUME NEW f \in store, NEW g \in SpoiledForms(f),
             store' = (store \ {f}) \union {g}
      PROVE  StoreInv'
  <2>1. f \in File(attempt) /\ g \in File(attempt) /\ g.id = f.id
    BY SpoiledForm
  <2>2. store' = (store \ {f}) \union {g}
    BY <1>2
  <2>3. IsFiniteSet(store')
    BY <2>2, FS_AddElement, FS_RemoveElement DEF StoreInv, FileTypes
  <2>4. \A d, e \in store' : d.id = e.id => d = e
    BY <2>1, <2>2 DEF StoreInv, FileTypes
  <2>5. FileTypes'
    BY <1>1, <2>1, <2>2, <2>3, <2>4 DEF StoreInv, FileTypes
  <2>6. \A a, i : Stored(a, i)' <=> Stored(a, i)
    BY <2>1, <2>2 DEF Stored
  <2>7. AttemptsOK'
    BY <1>1, <2>6 DEF StoreInv, AttemptsOK
  <2> QED
    BY <2>5, <2>7 DEF StoreInv
<1>3. CASE UNCHANGED store
  BY <1>1, <1>3, StoreStays
<1> QED
  BY <1>2, <1>3 DEF Spoil

\* Of each record there are at most as many copies as there were calls, and one
\* at least if it is stored.
LEMMA CopiesBounded ==
    ASSUME StoreInv, NEW i \in 1 .. Len(Batch)
    PROVE  /\ Copies(i) <= attempt
           /\ \A a \in 1 .. attempt : Stored(a, i) => Copies(i) > 0
<1> DEFINE files == {f \in store : f.id[2] = i}
           which == [f \in files |-> f.id[1]]
<1>1. IsFiniteSet(files) /\ Cardinality(files) \in Nat /\ attempt \in Nat
  BY FS_Subset, FS_CardinalityType DEF StoreInv, FileTypes
<1>2. which \in Injection(files, 1 .. attempt)
  <2>1. ASSUME NEW f \in files
        PROVE  f.id[1] \in 1 .. attempt /\ f.id = <<f.id[1], i>>
    BY DEF StoreInv, FileTypes, File
  <2>2. which \in [files -> 1 .. attempt]
    BY <2>1
  <2>3. \A f, g \in files : which[f] = which[g] => f = g
    BY <2>1 DEF StoreInv, FileTypes
  <2> HIDE DEF files, which
  <2> QED
    BY <2>2, <2>3, Fun_IsInj
<1>3. IsFiniteSet(1 .. attempt) /\ Cardinality(1 .. attempt) = attempt
  <2>1. 1 \in Int /\ attempt \in Int
    BY <1>1
  <2>2. /\ IsFiniteSet(1 .. attempt)
        /\ Cardinality(1 .. attempt) = IF 1 > attempt THEN 0 ELSE attempt - 1 + 1
    BY <2>1, FS_Interval
  <2> QED
    BY <1>1, <2>2
<1>4. ASSUME NEW a \in 1 .. attempt, Stored(a, i)
      PROVE  files # {}
  BY <1>4 DEF Stored
<1> HIDE DEF files, which
<1>5. Cardinality(files) <= attempt
  BY <1>2, <1>3, FS_Injection
<1>6. files # {} => Cardinality(files) > 0
  BY <1>1, FS_EmptySet
<1> QED
  BY <1>4, <1>5, <1>6 DEF Copies, files

\* What is stored is what the property speaks of.
LEMMA StoreInvRetries == ASSUME StoreInv PROVE RetriesLeavePrefixes
<1>1. \A a, i : <<a, i>> \in Ids(store) <=> Stored(a, i)
  BY DEF Ids, Stored
<1>2. persisted => \A i \in 1 .. Len(Batch) : Copies(i) > 0
  BY CopiesBounded DEF StoreInv, AttemptsOK
<1>3. \A i \in 1 .. Len(Batch) : Copies(i) <= attempt
  BY CopiesBounded
<1>4. \A a \in 1 .. attempt, i \in 1 .. Len(Batch) :
        <<a, i>> \in Ids(store) => \A j \in 1 .. i : <<a, j>> \in Ids(store)
  BY <1>1 DEF StoreInv, AttemptsOK
<1> QED
  BY <1>2, <1>3, <1>4 DEF RetriesLeavePrefixes

-----------------------------------------------------------------------------
(* Digests of a type's files.                                              *)

\* Files of one type have as many ids as there are files.
LEMMA IdsCount ==
    ASSUME StoreInv, NEW t
    PROVE  /\ IsFiniteSet(Ids(FilesOf(t)))
           /\ Cardinality(FilesOf(t)) \in Nat
           /\ Cardinality(Ids(FilesOf(t))) = Cardinality(FilesOf(t))
           /\ Ids(FilesOf(t)) \subseteq Nat \X Nat
<1> DEFINE files == FilesOf(t)
           name == [f \in files |-> f.id]
<1>1. IsFiniteSet(files) /\ Cardinality(files) \in Nat
  BY FS_Subset, FS_CardinalityType DEF StoreInv, FileTypes, FilesOf
<1>2. name \in Bijection(files, Ids(files))
  <2>1. name \in [files -> Ids(files)]
    BY DEF Ids
  <2>2. \A f, g \in files : name[f] = name[g] => f = g
    BY DEF StoreInv, FileTypes, FilesOf
  <2>3. \A n \in Ids(files) : \E f \in files : name[f] = n
    BY DEF Ids
  <2> HIDE DEF files, name
  <2> QED
    BY <2>1, <2>2, <2>3, Fun_IsBij
<1>3. Ids(files) \subseteq Nat \X Nat
  <2>1. ASSUME NEW f \in store
        PROVE  f.id \in Nat \X Nat
    <3>1. f.id \in (1 .. attempt) \X (1 .. Len(Batch))
      BY DEF StoreInv, FileTypes, File
    <3>2. (1 .. attempt) \subseteq Nat /\ (1 .. Len(Batch)) \subseteq Nat
      BY DEF StoreInv, FileTypes
    <3> QED
      BY <3>1, <3>2
  <2> QED
    BY <2>1 DEF Ids, FilesOf
<1> HIDE DEF files, name
<1>4. ExistsBijection(files, Ids(files))
  BY <1>2 DEF ExistsBijection
<1>5. IsFiniteSet(Ids(files)) /\ Cardinality(Ids(files)) = Cardinality(files)
  BY <1>1, <1>4, FS_Bijection
<1> QED
  BY <1>1, <1>3, <1>5 DEF files

\* No step takes a record away, or makes it readable again.
Kept ==
    \A f \in store : \E g \in store' :
      g.id = f.id /\ g.type = f.type /\ (g.readable => f.readable)

\* The publication of a record keeps those that are there.
LEMMA PublishKept == ASSUME Publish PROVE Kept
BY DEF Publish, Kept

\* A record that is damaged is still there.
LEMMA SpoilKept == ASSUME StoreInv, Spoil PROVE Kept
<1>1. ASSUME NEW f \in store, NEW g \in SpoiledForms(f),
             store' = (store \ {f}) \union {g}
      PROVE  Kept
  <2>1. g.id = f.id /\ g.type = f.type /\ (g.readable => f.readable)
    BY SpoiledForm DEF File
  <2> QED
    BY <1>1, <2>1 DEF Kept
<1>2. CASE UNCHANGED store
  BY <1>2 DEF Kept
<1> QED
  BY <1>1, <1>2 DEF Spoil

-----------------------------------------------------------------------------
(* A call of the command line.                                             *)

EnvironmentStage == {"sources", "environment-counts", "environment-traces"}
SnapshotStage == {"manifest", "counts", "hashes", "traces", "head", "write"}
VerifyStage == {"verify-records", "verify-ledger", "verify-counts", "verify-traces"}

\* How many types have been counted and hashed.
CountsRead ==
    IF stage = "counts" THEN at - 1
    ELSE IF stage \in {"hashes", "traces", "head", "write"} THEN Len(TypeOrder) ELSE 0
HashesRead ==
    IF stage = "hashes" THEN at - 1
    ELSE IF stage \in {"traces", "head", "write"} THEN Len(TypeOrder) ELSE 0

\* Where a call may be, and how much it has read there.
StageOK ==
    /\ stage \in {"idle", "configuration"} \union EnvironmentStage
                  \union SnapshotStage \union VerifyStage
    /\ at \in 1 .. Len(TypeOrder)
    /\ stage = "configuration" => command \in {"validate", "verify", "snapshot", "status"}
    /\ stage \in EnvironmentStage => command \in {"validate", "snapshot", "status"}
    /\ stage \in SnapshotStage => command = "snapshot"
    /\ stage \in VerifyStage => command \in {"verify", "status"}

SeenShape ==
    seen = [architecture |-> seen.architecture, counts |-> seen.counts,
            hashes |-> seen.hashes, traces |-> seen.traces, head |-> seen.head]

SeenOK ==
    /\ SeenShape
    /\ seen.counts \in Seq(Nat) /\ seen.hashes \in Seq(SUBSET (Nat \X Nat))
    /\ Len(seen.counts) = CountsRead /\ Len(seen.hashes) = HashesRead

\* What was there when the call began is there, and no more readable.
StartOK ==
    /\ start \subseteq
         [id : Nat \X Nat, type : Type, readable : BOOLEAN, zoned : BOOLEAN]
    /\ \A f \in start : \E g \in store :
         g.id = f.id /\ g.type = f.type /\ (g.readable => f.readable)

Before(t) == {f.id : f \in {g \in start : g.type = t}}
Now(t) == Ids(FilesOf(t))

\* What was counted and hashed lies between what was there and what is.
ReadOK ==
    /\ \A i \in 1 .. Len(seen.counts) :
         /\ Cardinality(Before(TypeOrder[i])) <= seen.counts[i]
         /\ seen.counts[i] <= Cardinality(Now(TypeOrder[i]))
    /\ \A i \in 1 .. Len(seen.hashes) :
         /\ Before(TypeOrder[i]) \subseteq seen.hashes[i]
         /\ seen.hashes[i] \subseteq Now(TypeOrder[i])
         /\ seen.counts[i] <= Cardinality(seen.hashes[i])

\* While nothing changes, what was read is what is.
QuietRead ==
    quiet =>
      /\ stage \in SnapshotStage \ {"manifest"} =>
           seen.architecture = sources.manifest.version
      /\ \A i \in 1 .. Len(seen.counts) :
           seen.counts[i] = Cardinality(FilesOf(TypeOrder[i]))
      /\ \A i \in 1 .. Len(seen.hashes) : seen.hashes[i] = Now(TypeOrder[i])
      /\ stage \in {"head", "write"} => seen.traces = Len(ledger)
      /\ stage = "write" => seen.head = HeadHash(ledger)

\* A verification that has come past a type found what the call began with
\* readable, or says so.
VerdictOK ==
    /\ stage = "verify-records" =>
         \A i \in 1 .. at - 1 : \A f \in start : f.type = TypeOrder[i] => f.readable
    /\ stage \in VerifyStage \ {"verify-records"} =>
         "INTEGRITY-001" \in failures \/ \A f \in start : f.readable
    /\ stage = "verify-traces" => "INTEGRITY-002" \notin failures
    /\ stage \in VerifyStage /\ command = "verify" =>
         failures \subseteq {"INTEGRITY-001", "INTEGRITY-002"}
    /\ stage \in {"verify-records", "verify-ledger"} => "INTEGRITY-002" \notin failures
    /\ stage = "verify-records" => "INTEGRITY-001" \notin failures
    /\ stage \in EnvironmentStage =>
         failures \subseteq {"CONFIGURATION-001", "CONFORMANCE-001"}
    /\ stage = "configuration" => failures = {}

\* While nothing changes, the failures so far are those there are.
QuietVerdict ==
    quiet =>
      /\ stage \in {"environment-counts", "environment-traces"} =>
           failures = SourceFailures(sources)
      /\ stage = "verify-records" => \A i \in 1 .. at - 1 : Loadable(TypeOrder[i])
      /\ stage \in VerifyStage \ {"verify-records"} =>
           ("INTEGRITY-001" \in failures <=> ~RepositorySound)
      /\ stage \in {"verify-counts", "verify-traces"} =>
           ("INTEGRITY-002" \in failures <=> ~Loads(ledger))

CallInv ==
    /\ StageOK /\ SeenOK /\ StartOK /\ ReadOK /\ quiet \in BOOLEAN
    /\ QuietRead /\ VerdictOK /\ QuietVerdict

\* Where a call has not moved and nothing it reads has changed.
LEMMA CallStays ==
    ASSUME CallInv, UNCHANGED <<callVars, repositoryVars, sources, ledger, quiet>>
    PROVE  CallInv'
<1>1. UNCHANGED <<stage, at, command, failures, seen, start, store, stray>>
  BY DEF callVars, repositoryVars
<1>2. StageOK' /\ SeenOK' /\ StartOK' /\ quiet' \in BOOLEAN
  BY <1>1 DEF CallInv, StageOK, SeenOK, SeenShape, StartOK, CountsRead, HashesRead
<1>3. ReadOK' /\ QuietRead'
  BY <1>1 DEF CallInv, ReadOK, QuietRead, Before, Now, Ids, FilesOf
<1>4. VerdictOK' /\ QuietVerdict'
  BY <1>1 DEF CallInv, VerdictOK, QuietVerdict, RepositorySound, Loadable, Listable, FilesOf
<1> QED
  BY <1>2, <1>3, <1>4 DEF CallInv

\* What was there is among what is.
LEMMA BeforeNow ==
    ASSUME StoreInv, StartOK, NEW t
    PROVE  /\ Before(t) \subseteq Now(t)
           /\ IsFiniteSet(Before(t)) /\ Cardinality(Before(t)) \in Nat
           /\ Cardinality(Before(t)) <= Cardinality(FilesOf(t))
<1>1. Before(t) \subseteq Now(t)
  BY DEF StartOK, Before, Now, Ids, FilesOf
<1> QED
  BY <1>1, IdsCount, FS_Subset, FS_CardinalityType DEF Now

\* Where something changes, but takes no record away.
LEMMA CallDisturbed ==
    ASSUME StoreInv, StoreInv', CallInv, UNCHANGED callVars, Disturb, Kept
    PROVE  CallInv'
<1>1. UNCHANGED <<stage, at, command, failures, seen, start>>
  BY DEF callVars
<1>2. StageOK' /\ SeenOK' /\ quiet' \in BOOLEAN /\ VerdictOK'
  BY <1>1 DEF CallInv, StageOK, SeenOK, SeenShape, VerdictOK, CountsRead, HashesRead, Disturb
<1>3. StartOK'
  BY <1>1 DEF CallInv, StartOK, Kept
<1>4. ReadOK'
  <2>1. ASSUME NEW t
        PROVE  /\ Now(t) \subseteq Now(t)'
               /\ Cardinality(Now(t)) \in Nat /\ Cardinality(Now(t)') \in Nat
               /\ Cardinality(Now(t)) <= Cardinality(Now(t)')
    <3>1. Now(t) \subseteq Now(t)'
      BY DEF Kept, Now, Ids, FilesOf
    <3>2. IsFiniteSet(Ids(FilesOf(t)))'
      BY IdsCount, PTL
    <3> QED
      BY <3>1, <3>2, FS_Subset, FS_CardinalityType DEF Now
  <2>2. \A t : Before(t)' = Before(t)
    BY <1>1 DEF Before
  <2>3. \A i \in 1 .. Len(seen.counts) : seen.counts[i] \in Nat
    BY DEF CallInv, SeenOK
  <2>4. ASSUME NEW i \in 1 .. Len(seen.counts)
        PROVE  /\ Cardinality(Before(TypeOrder[i])) <= seen.counts[i]
               /\ seen.counts[i] <= Cardinality(Now(TypeOrder[i])')
    <3> DEFINE t == TypeOrder[i]
    <3>1. Cardinality(Before(t)) <= seen.counts[i] /\ seen.counts[i] <= Cardinality(Now(t))
      BY DEF CallInv, ReadOK
    <3>2. /\ Cardinality(Now(t)) \in Nat /\ Cardinality(Now(t)') \in Nat
          /\ Cardinality(Now(t)) <= Cardinality(Now(t)')
      BY <2>1
    <3> QED
      BY <2>3, <3>1, <3>2
  <2>5. ASSUME NEW i \in 1 .. Len(seen.hashes)
        PROVE  /\ Before(TypeOrder[i]) \subseteq seen.hashes[i]
               /\ seen.hashes[i] \subseteq Now(TypeOrder[i])'
               /\ seen.counts[i] <= Cardinality(seen.hashes[i])
    BY <2>1 DEF CallInv, ReadOK
  <2> QED
    BY <1>1, <2>2, <2>4, <2>5 DEF ReadOK
<1>5. QuietRead' /\ QuietVerdict'
  <2>1. CASE stage = "idle"
    <3>1. Len(seen'.counts) = 0 /\ Len(seen'.hashes) = 0 /\ stage' = "idle"
      BY <1>1, <2>1 DEF CallInv, SeenOK, CountsRead, HashesRead
    <3> QED
      BY <3>1 DEF QuietRead, QuietVerdict, SnapshotStage, VerifyStage
  <2>2. CASE stage # "idle"
    BY <2>2 DEF Disturb, QuietRead, QuietVerdict
  <2> QED
    BY <2>1, <2>2
<1> QED
  BY <1>2, <1>3, <1>4, <1>5 DEF CallInv

-----------------------------------------------------------------------------
(* The steps of a call.                                                    *)

\* There is a first type.
LEMMA FirstType == 1 \in 1 .. Len(TypeOrder) /\ Len(TypeOrder) \in Nat
BY ApiAssumption

\* At the first position of a loop nothing is behind.
LEMMA NoneBehind == ASSUME NEW i, i = 1 PROVE \A j \in 1 .. i - 1 : FALSE
OBVIOUS

\* What a verification starts with.
LEMMA VerdictStarts ==
    ASSUME stage = "verify-records", at = 1,
           failures \subseteq {"CONFIGURATION-001", "CONFORMANCE-001"},
           command = "verify" => failures = {}
    PROVE  VerdictOK /\ QuietVerdict
<1>1. \A i \in 1 .. at - 1 : FALSE
  BY NoneBehind
<1>2. stage \notin VerifyStage \ {"verify-records"}
  BY DEF VerifyStage
<1>3. VerdictOK
  BY <1>1, <1>2 DEF VerdictOK, EnvironmentStage
<1>4. QuietVerdict
  BY <1>1, <1>2 DEF QuietVerdict
<1> QED
  BY <1>3, <1>4

\* What a call leaves alone.
Reads == UNCHANGED <<store, stray, sources, ledger>>

\* A call ends and forgets what it read.
LEMMA FinishKeeps ==
    ASSUME CallInv, NEW code, NEW codes, Finish(code, codes)
    PROVE  CallInv'
<1>1. stage' = "idle" /\ at' = 1 /\ seen' = Nothing /\ start' = {} /\ quiet' = TRUE
  BY DEF Finish
<1>2. 1 \in 1 .. Len(TypeOrder)
  BY FirstType
<1>3. /\ seen'.counts = <<>> /\ seen'.hashes = <<>>
      /\ Len(seen'.counts) = 0 /\ Len(seen'.hashes) = 0
      /\ seen'.counts \in Seq(Nat) /\ seen'.hashes \in Seq(SUBSET (Nat \X Nat))
  BY <1>1 DEF Nothing
<1>4. StageOK'
  BY <1>1, <1>2 DEF StageOK, EnvironmentStage, SnapshotStage, VerifyStage
<1>5. SeenOK'
  BY <1>1, <1>3 DEF SeenOK, SeenShape, CountsRead, HashesRead, Nothing
<1>6. StartOK' /\ ReadOK' /\ QuietRead'
  BY <1>1, <1>3 DEF StartOK, ReadOK, QuietRead, SnapshotStage
<1>7. VerdictOK' /\ QuietVerdict'
  BY <1>1 DEF VerdictOK, QuietVerdict, VerifyStage, EnvironmentStage
<1> QED
  BY <1>1, <1>4, <1>5, <1>6, <1>7 DEF CallInv

\* A call begins: what is there is what was there.
LEMMA BeginKeeps ==
    ASSUME StoreInv, CallInv, NEW cmd \in Command, Begin(cmd)
    PROVE  CallInv'
<1>1. /\ stage = "idle" /\ stage' = "configuration" /\ at' = 1
      /\ command' = cmd /\ failures' = {} /\ start' = store
      /\ UNCHANGED <<seen, quiet, store>>
  BY DEF Begin, repositoryVars
<1>2. 1 \in 1 .. Len(TypeOrder) /\ cmd \in {"validate", "verify", "snapshot", "status"}
  BY FirstType, ApiAssumption
<1>3. StageOK'
  BY <1>1, <1>2 DEF StageOK, EnvironmentStage, SnapshotStage, VerifyStage
<1>4. SeenOK' /\ Len(seen'.counts) = 0 /\ Len(seen'.hashes) = 0
  BY <1>1 DEF CallInv, SeenOK, SeenShape, CountsRead, HashesRead
<1>5. StartOK'
  <2>1. (1 .. attempt) \subseteq Nat /\ (1 .. Len(Batch)) \subseteq Nat
    BY DEF StoreInv, FileTypes
  <2>2. store \subseteq [id : Nat \X Nat, type : Type, readable : BOOLEAN, zoned : BOOLEAN]
    BY <2>1 DEF StoreInv, FileTypes, File
  <2> QED
    BY <1>1, <2>2 DEF StartOK
<1>6. ReadOK' /\ QuietRead'
  <2>1. stage' \notin SnapshotStage
    BY <1>1 DEF SnapshotStage
  <2>2. stage' \notin {"head", "write"}
    BY <1>1
  <2> QED
    BY <1>4, <2>1, <2>2 DEF ReadOK, QuietRead
<1>7. VerdictOK' /\ QuietVerdict'
  <2>1. stage' \notin VerifyStage /\ stage' \notin EnvironmentStage
    BY <1>1 DEF VerifyStage, EnvironmentStage
  <2> QED
    BY <1>1, <2>1 DEF VerdictOK, QuietVerdict, VerifyStage, EnvironmentStage
<1> QED
  BY <1>1, <1>3, <1>4, <1>5, <1>6, <1>7 DEF CallInv

\* A step that reads nothing into the snapshot, outside the loops that do.
LEMMA NothingSeen ==
    ASSUME CallInv, Reads, UNCHANGED <<seen, start, quiet, command>>, StageOK',
           stage \notin SnapshotStage, stage' \notin SnapshotStage \ {"manifest"},
           VerdictOK', QuietVerdict'
    PROVE  CallInv'
<1>1. UNCHANGED <<seen, start, quiet, store, stray, sources, ledger>>
  BY DEF Reads
<1>2. Len(seen'.counts) = 0 /\ Len(seen'.hashes) = 0 /\ SeenOK'
  BY <1>1 DEF CallInv, SeenOK, SeenShape, CountsRead, HashesRead, SnapshotStage
<1>3. StartOK'
  BY <1>1 DEF CallInv, StartOK
<1>4. ReadOK' /\ QuietRead'
  BY <1>2 DEF ReadOK, QuietRead, SnapshotStage
<1> QED
  BY <1>1, <1>2, <1>3, <1>4 DEF CallInv

\* The configuration is read, and a verification starts with the records.
LEMMA ConfigureKeeps ==
    ASSUME CallInv, Reads, Configure
    PROVE  CallInv'
<1>1. CASE ~ConfigurationLoads(sources)
  BY <1>1, FinishKeeps DEF Configure, Raise
<1>2. CASE ConfigurationLoads(sources)
  <2>1. /\ stage = "configuration" /\ at' = 1
        /\ stage' = IF command = "verify" THEN "verify-records" ELSE "sources"
        /\ UNCHANGED <<command, seen, start, quiet, failures>>
    BY <1>2 DEF Configure, Goto
  <2>2. command \in {"validate", "verify", "snapshot", "status"} /\ failures = {}
    BY <2>1 DEF CallInv, StageOK, VerdictOK
  <2>3. stage \notin SnapshotStage /\ stage' \notin SnapshotStage
    BY <2>1 DEF SnapshotStage
  <2>4. StageOK'
    BY <2>1, <2>2, FirstType DEF StageOK, EnvironmentStage, SnapshotStage, VerifyStage
  <2>5. (VerdictOK /\ QuietVerdict)'
    <3>1. CASE command = "verify"
      <4>1. /\ (stage = "verify-records")' /\ (at = 1)'
            /\ (failures \subseteq {"CONFIGURATION-001", "CONFORMANCE-001"})'
            /\ (command = "verify" => failures = {})'
        BY <2>1, <2>2, <3>1
      <4> QED
        BY <4>1, VerdictStarts, PTL
    <3>2. CASE command # "verify"
      <4>1. stage' = "sources" /\ stage' \notin VerifyStage /\ failures' = {}
        BY <2>1, <2>2, <3>2 DEF VerifyStage
      <4> QED
        BY <4>1 DEF VerdictOK, QuietVerdict, VerifyStage, EnvironmentStage
    <3> QED
      BY <3>1, <3>2
  <2> QED
    BY <2>1, <2>3, <2>4, <2>5, NothingSeen
<1> QED
  BY <1>1, <1>2

\* validate_environment() has its result: the call ends, or goes on to the
\* records or to the manifest with what it found.
LEMMA EnvironmentKeeps ==
    ASSUME CallInv, Reads, stage \in EnvironmentStage, NEW codes,
           codes \subseteq {"CONFIGURATION-001", "CONFORMANCE-001"},
           EnvironmentAnswers(codes)
    PROVE  CallInv'
<1>1. 1 \in 1 .. Len(TypeOrder) /\ stage \notin SnapshotStage
  BY FirstType DEF EnvironmentStage, SnapshotStage
<1>2. CASE command = "status"
  <2>1. /\ stage' = "verify-records" /\ at' = 1 /\ failures' = codes
        /\ UNCHANGED <<command, seen, start, quiet>>
    BY <1>2 DEF EnvironmentAnswers, Goto
  <2>2. StageOK'
    BY <1>1, <1>2, <2>1 DEF StageOK, EnvironmentStage, SnapshotStage, VerifyStage
  <2>3. (VerdictOK /\ QuietVerdict)'
    <3>1. /\ (stage = "verify-records")' /\ (at = 1)'
          /\ (failures \subseteq {"CONFIGURATION-001", "CONFORMANCE-001"})'
          /\ (command = "verify" => failures = {})'
      BY <1>2, <2>1
    <3> QED
      BY <3>1, VerdictStarts, PTL
  <2> QED
    BY <1>1, <2>1, <2>2, <2>3, NothingSeen DEF SnapshotStage
<1>3. CASE command = "snapshot" /\ codes = {}
  <2>1. stage' = "manifest" /\ at' = 1 /\ UNCHANGED <<command, seen, start, quiet>>
    BY <1>3 DEF EnvironmentAnswers, Goto
  <2>2. StageOK'
    BY <1>1, <1>3, <2>1 DEF StageOK, EnvironmentStage, SnapshotStage, VerifyStage
  <2>3. VerdictOK' /\ QuietVerdict'
    BY <2>1 DEF VerdictOK, QuietVerdict, VerifyStage, EnvironmentStage
  <2> QED
    BY <1>1, <2>1, <2>2, <2>3, NothingSeen DEF SnapshotStage
<1>4. CASE command # "status" /\ ~(command = "snapshot" /\ codes = {})
  <2>1. Answer(codes)
    BY <1>4 DEF EnvironmentAnswers
  <2> QED
    BY <2>1, FinishKeeps DEF Answer
<1> QED
  BY <1>2, <1>3, <1>4

\* The sources are read.
LEMMA SourcesKeeps ==
    ASSUME CallInv, Reads, CheckSources
    PROVE  CallInv'
<1>1. 1 \in 1 .. Len(TypeOrder) /\ stage = "sources"
  BY FirstType DEF CheckSources
<1>2. command \in {"validate", "snapshot", "status"}
  BY <1>1 DEF CallInv, StageOK, EnvironmentStage
<1>3. CASE Usable(sources)
  <2>1. /\ stage' = "environment-counts" /\ at' = 1
        /\ UNCHANGED <<command, seen, start, quiet, sources>>
        /\ failures' = SourceFailures(sources)
    BY <1>3 DEF CheckSources, Goto, Reads
  <2>2. StageOK'
    BY <1>1, <1>2, <2>1 DEF StageOK, EnvironmentStage, SnapshotStage, VerifyStage
  <2>3. VerdictOK' /\ QuietVerdict'
    BY <2>1 DEF VerdictOK, QuietVerdict, VerifyStage, EnvironmentStage, SourceFailures
  <2> QED
    BY <1>1, <2>1, <2>2, <2>3, NothingSeen DEF SnapshotStage
<1>4. CASE ~Usable(sources)
  BY <1>1, <1>4, EnvironmentKeeps DEF CheckSources, EnvironmentStage
<1> QED
  BY <1>3, <1>4

\* The repository and the ledger are looked at.
LEMMA EnvironmentReadsKeep ==
    ASSUME CallInv, Reads, CheckCounts \/ CheckTraces
    PROVE  CallInv'
<1>1. stage \in EnvironmentStage
  BY DEF CheckCounts, CheckTraces, EnvironmentStage
<1>2. CASE CheckCounts /\ \A t \in Type : Listable(t)
  <2>1. /\ stage = "environment-counts" /\ stage' = "environment-traces" /\ at' = 1
        /\ UNCHANGED <<command, seen, start, quiet, sources, failures>>
    BY <1>2 DEF CheckCounts, Goto, Reads
  <2>2. stage \notin SnapshotStage /\ stage' \notin SnapshotStage \ {"manifest"}
    BY <2>1 DEF SnapshotStage
  <2>3. StageOK'
    BY <2>1, FirstType DEF CallInv, StageOK, EnvironmentStage, SnapshotStage, VerifyStage
  <2>4. stage' \notin VerifyStage
    BY <2>1 DEF VerifyStage
  <2>5. VerdictOK'
    <3>1. failures \subseteq {"CONFIGURATION-001", "CONFORMANCE-001"}
      BY <2>1 DEF CallInv, VerdictOK, EnvironmentStage
    <3> QED
      BY <2>1, <2>4, <3>1 DEF VerdictOK
  <2>6. QuietVerdict'
    <3>1. quiet => failures = SourceFailures(sources)
      BY <2>1 DEF CallInv, QuietVerdict
    <3>2. SourceFailures(sources)' = SourceFailures(sources)
      BY <2>1 DEF SourceFailures
    <3> QED
      BY <2>1, <2>4, <3>1, <3>2 DEF QuietVerdict, VerifyStage
  <2> QED
    BY <2>1, <2>2, <2>3, <2>5, <2>6, NothingSeen
<1>3. CASE CheckCounts /\ ~\A t \in Type : Listable(t)
  BY <1>1, <1>3, EnvironmentKeeps DEF CheckCounts
<1>4. CASE CheckTraces
  <2>1. failures \subseteq {"CONFIGURATION-001", "CONFORMANCE-001"}
    BY <1>4 DEF CallInv, CheckTraces, VerdictOK, EnvironmentStage
  <2> QED
    BY <1>1, <1>4, <2>1, EnvironmentKeeps DEF CheckTraces
<1> QED
  BY <1>2, <1>3, <1>4

\* A step of a snapshot keeps it for what is not of the snapshot.
LEMMA SnapshotStep ==
    ASSUME CallInv, Reads, UNCHANGED <<start, quiet, command, failures>>,
           stage \in SnapshotStage, stage' \in SnapshotStage,
           at' \in 1 .. Len(TypeOrder), SeenOK', ReadOK', QuietRead'
    PROVE  CallInv'
<1>1. UNCHANGED <<start, quiet, command, failures, store>>
  BY DEF Reads
<1>2. command = "snapshot"
  BY DEF CallInv, StageOK
<1>3. StageOK'
  BY <1>1, <1>2 DEF StageOK, EnvironmentStage, SnapshotStage, VerifyStage
<1>4. StartOK'
  BY <1>1 DEF CallInv, StartOK
<1>5. /\ stage' \notin VerifyStage /\ stage' \notin EnvironmentStage
      /\ stage' # "configuration"
  BY DEF SnapshotStage, VerifyStage, EnvironmentStage
<1>6. VerdictOK' /\ QuietVerdict'
  BY <1>5 DEF VerdictOK, QuietVerdict, VerifyStage, EnvironmentStage
<1> QED
  BY <1>1, <1>3, <1>4, <1>6 DEF CallInv

\* What is unchanged for a step of a call.
LEMMA ReadsStay ==
    ASSUME Reads, UNCHANGED start
    PROVE  \A t : /\ Now(t)' = Now(t) /\ FilesOf(t)' = FilesOf(t)
                  /\ Before(t)' = Before(t)
BY DEF Reads, Now, Ids, FilesOf, Before

\* The manifest is read again.
LEMMA ManifestKeeps ==
    ASSUME CallInv, Reads, ReadManifest
    PROVE  CallInv'
<1>1. CASE ~ManifestLoads(sources)
  BY <1>1, FinishKeeps DEF ReadManifest, Raise
<1>2. CASE ManifestLoads(sources)
  <2>1. /\ stage = "manifest" /\ stage' = "counts" /\ at' = 1
        /\ UNCHANGED <<command, start, quiet, failures, sources>>
        /\ seen' = [seen EXCEPT !.architecture = sources.manifest.version]
    BY <1>2 DEF ReadManifest, Goto, Reads
  <2>2. /\ seen'.architecture = sources.manifest.version
        /\ seen'.counts = seen.counts /\ seen'.hashes = seen.hashes
        /\ SeenShape'
    BY <2>1 DEF CallInv, SeenOK, SeenShape
  <2>3. Len(seen.counts) = 0 /\ Len(seen.hashes) = 0
    BY <2>1 DEF CallInv, SeenOK, CountsRead, HashesRead
  <2>4. SeenOK'
    BY <2>1, <2>2, <2>3 DEF CallInv, SeenOK, CountsRead, HashesRead
  <2>5. ReadOK'
    BY <2>2, <2>3 DEF ReadOK
  <2>6. QuietRead'
    BY <2>1, <2>2, <2>3 DEF QuietRead
  <2> QED
    BY <2>1, <2>4, <2>5, <2>6, FirstType, SnapshotStep DEF SnapshotStage
<1> QED
  BY <1>1, <1>2

\* One more type is counted.
LEMMA CountKeeps ==
    ASSUME StoreInv, CallInv, Reads, ReadCount
    PROVE  CallInv'
<1> DEFINE t == TypeOrder[at]
           n == Cardinality(FilesOf(t))
<1>1. CASE ~Listable(t)
  BY <1>1, FinishKeeps DEF ReadCount, Raise
<1>2. CASE Listable(t)
  <2>1. /\ stage = "counts" /\ Step("hashes") /\ failures' = failures
        /\ seen' = [seen EXCEPT !.counts = Append(@, n)]
    BY <1>2 DEF ReadCount
  <2>2. /\ n \in Nat /\ n = Cardinality(Now(t)) /\ Cardinality(Before(t)) <= n
    BY IdsCount, BeforeNow DEF CallInv, Now
  <2> HIDE DEF n
  <2>3. /\ at \in 1 .. Len(TypeOrder) /\ Len(TypeOrder) \in Nat
        /\ seen.counts \in Seq(Nat) /\ Len(seen.counts) = at - 1
        /\ Len(seen.hashes) = 0
    BY <2>1, FirstType DEF CallInv, StageOK, SeenOK, CountsRead, HashesRead
  <2>4. /\ seen'.counts = Append(seen.counts, n) /\ seen'.hashes = seen.hashes
        /\ SeenShape'  /\ seen'.architecture = seen.architecture
    BY <2>1 DEF CallInv, SeenOK, SeenShape
  <2>5. /\ seen'.counts \in Seq(Nat) /\ Len(seen'.counts) = at
        /\ seen'.counts[at] = n
        /\ \A i \in 1 .. at : i = at \/ (i \in 1 .. at - 1 /\ seen'.counts[i] = seen.counts[i])
    BY <2>2, <2>3, <2>4
  <2>6. /\ UNCHANGED <<command, start, quiet, sources>>
        /\ \/ stage' = "counts" /\ at' = at + 1 /\ at < Len(TypeOrder)
           \/ stage' = "hashes" /\ at' = 1 /\ at = Len(TypeOrder)
    BY <2>1, <2>3 DEF Step, Goto, Reads
  <2>7. CountsRead' = at /\ HashesRead' = 0 /\ at' \in 1 .. Len(TypeOrder)
    BY <2>3, <2>6, FirstType DEF CountsRead, HashesRead
  <2>8. SeenOK'
    BY <2>3, <2>4, <2>5, <2>7 DEF CallInv, SeenOK
  <2>9. \A u : /\ Now(u)' = Now(u) /\ FilesOf(u)' = FilesOf(u) /\ Before(u)' = Before(u)
    BY <2>6, ReadsStay
  <2>10. ReadOK'
    <3>1. ASSUME NEW i \in 1 .. at
          PROVE  /\ Cardinality(Before(TypeOrder[i])) <= seen'.counts[i]
                 /\ seen'.counts[i] <= Cardinality(Now(TypeOrder[i]))
      BY <2>2, <2>3, <2>5 DEF CallInv, ReadOK, t
    <3> QED
      BY <2>3, <2>4, <2>5, <2>9, <3>1 DEF ReadOK
  <2>11. QuietRead'
    <3>1. quiet => \A i \in 1 .. at : seen'.counts[i] = Cardinality(FilesOf(TypeOrder[i]))
      BY <2>3, <2>5 DEF CallInv, QuietRead, t, n
    <3>2. quiet => seen.architecture = sources.manifest.version
      BY <2>1 DEF CallInv, QuietRead, SnapshotStage
    <3>3. /\ quiet' = quiet /\ sources' = sources /\ stage' \notin {"head", "write"}
          /\ Len(seen'.counts) = at /\ Len(seen'.hashes) = 0
      BY <2>3, <2>4, <2>5, <2>6
    <3>4. quiet' => \A i \in 1 .. Len(seen'.counts) :
                      seen'.counts[i] = Cardinality(FilesOf(TypeOrder[i])')
      BY <2>9, <3>1, <3>3
    <3> QED
      BY <2>4, <3>2, <3>3, <3>4 DEF QuietRead
  <2>12. stage \in SnapshotStage /\ stage' \in SnapshotStage
    BY <2>1, <2>6 DEF SnapshotStage
  <2> QED
    BY <2>1, <2>6, <2>7, <2>8, <2>10, <2>11, <2>12, SnapshotStep
<1> QED
  BY <1>1, <1>2

\* One more type is hashed.
LEMMA HashKeeps ==
    ASSUME StoreInv, CallInv, Reads, ReadHash
    PROVE  CallInv'
<1> DEFINE t == TypeOrder[at]
           h == Now(t)
<1>1. CASE ~Hashable(t)
  BY <1>1, FinishKeeps DEF ReadHash, Raise
<1>2. CASE Hashable(t)
  <2>1. /\ stage = "hashes" /\ Step("traces") /\ failures' = failures
        /\ seen' = [seen EXCEPT !.hashes = Append(@, h)]
    BY <1>2 DEF ReadHash, Now
  <2>2. h \in SUBSET (Nat \X Nat) /\ Before(t) \subseteq h
    BY IdsCount, BeforeNow DEF CallInv, Now
  <2> HIDE DEF h
  <2>3. /\ at \in 1 .. Len(TypeOrder) /\ Len(TypeOrder) \in Nat
        /\ seen.hashes \in Seq(SUBSET (Nat \X Nat)) /\ Len(seen.hashes) = at - 1
        /\ Len(seen.counts) = Len(TypeOrder)
    BY <2>1, FirstType DEF CallInv, StageOK, SeenOK, CountsRead, HashesRead
  <2>4. /\ seen'.hashes = Append(seen.hashes, h) /\ seen'.counts = seen.counts
        /\ SeenShape' /\ seen'.architecture = seen.architecture
    BY <2>1 DEF CallInv, SeenOK, SeenShape
  <2>5. /\ seen'.hashes \in Seq(SUBSET (Nat \X Nat)) /\ Len(seen'.hashes) = at
        /\ seen'.hashes[at] = h
        /\ \A i \in 1 .. at : i = at \/ (i \in 1 .. at - 1 /\ seen'.hashes[i] = seen.hashes[i])
    BY <2>2, <2>3, <2>4
  <2>6. /\ UNCHANGED <<command, start, quiet, sources>>
        /\ \/ stage' = "hashes" /\ at' = at + 1 /\ at < Len(TypeOrder)
           \/ stage' = "traces" /\ at' = 1 /\ at = Len(TypeOrder)
    BY <2>1, <2>3 DEF Step, Goto, Reads
  <2>7. CountsRead' = Len(TypeOrder) /\ HashesRead' = at /\ at' \in 1 .. Len(TypeOrder)
    BY <2>3, <2>6, FirstType DEF CountsRead, HashesRead
  <2>8. SeenOK'
    BY <2>3, <2>4, <2>5, <2>7 DEF CallInv, SeenOK
  <2>9. \A u : /\ Now(u)' = Now(u) /\ FilesOf(u)' = FilesOf(u) /\ Before(u)' = Before(u)
    BY <2>6, ReadsStay
  <2>10. ReadOK'
    <3>1. ASSUME NEW i \in 1 .. at
          PROVE  /\ Before(TypeOrder[i]) \subseteq seen'.hashes[i]
                 /\ seen'.hashes[i] \subseteq Now(TypeOrder[i])
                 /\ seen.counts[i] <= Cardinality(seen'.hashes[i])
      <4>1. CASE i = at
        BY <2>2, <2>3, <2>5, <4>1 DEF CallInv, ReadOK, t, h
      <4>2. CASE i # at
        BY <2>3, <2>5, <4>2 DEF CallInv, ReadOK
      <4> QED
        BY <4>1, <4>2
    <3> QED
      BY <2>3, <2>4, <2>5, <2>9, <3>1 DEF CallInv, ReadOK
  <2>11. QuietRead'
    <3>1. quiet => \A i \in 1 .. at : seen'.hashes[i] = Now(TypeOrder[i])
      BY <2>3, <2>5 DEF CallInv, QuietRead, t, h
    <3>2. quiet => /\ seen.architecture = sources.manifest.version
                   /\ \A i \in 1 .. Len(TypeOrder) :
                        seen.counts[i] = Cardinality(FilesOf(TypeOrder[i]))
      BY <2>1, <2>3 DEF CallInv, QuietRead, SnapshotStage
    <3>3. /\ quiet' = quiet /\ sources' = sources /\ stage' \notin {"head", "write"}
          /\ Len(seen'.counts) = Len(TypeOrder) /\ Len(seen'.hashes) = at
          /\ seen'.counts = seen.counts
      BY <2>3, <2>4, <2>5, <2>6
    <3>4. quiet' => \A i \in 1 .. Len(seen'.counts) :
                      seen'.counts[i] = Cardinality(FilesOf(TypeOrder[i])')
      BY <2>9, <3>2, <3>3
    <3>5. quiet' => \A i \in 1 .. Len(seen'.hashes) : seen'.hashes[i] = Now(TypeOrder[i])'
      BY <2>9, <3>1, <3>3
    <3> QED
      BY <2>4, <3>2, <3>3, <3>4, <3>5 DEF QuietRead
  <2>12. stage \in SnapshotStage /\ stage' \in SnapshotStage
    BY <2>1, <2>6 DEF SnapshotStage
  <2> QED
    BY <2>1, <2>6, <2>7, <2>8, <2>10, <2>11, <2>12, SnapshotStep
<1> QED
  BY <1>1, <1>2

\* The ledger is counted and its head taken.
LEMMA TracesKeep ==
    ASSUME CallInv, Reads, ReadTraceCount \/ ReadHead
    PROVE  CallInv'
<1>1. CASE Raise
  BY <1>1, FinishKeeps DEF Raise
<1>2. CASE ~Raise
  <2>1. /\ at' = 1 /\ UNCHANGED <<command, start, quiet, failures, sources, ledger>>
        /\ \/ /\ stage = "traces" /\ stage' = "head"
              /\ seen' = [seen EXCEPT !.traces = Len(ledger)]
           \/ /\ stage = "head" /\ stage' = "write"
              /\ seen' = [seen EXCEPT !.head = HeadHash(ledger)]
    BY <1>2 DEF ReadTraceCount, ReadHead, Goto, Reads
  <2>2. /\ SeenShape' /\ seen'.counts = seen.counts /\ seen'.hashes = seen.hashes
        /\ seen'.architecture = seen.architecture
        /\ stage = "traces" => seen'.traces = Len(ledger)
        /\ stage = "head" => seen'.traces = seen.traces /\ seen'.head = HeadHash(ledger)
    BY <2>1 DEF CallInv, SeenOK, SeenShape
  <2>3. SeenOK'
    BY <2>1, <2>2 DEF CallInv, SeenOK, CountsRead, HashesRead
  <2>4. \A u : /\ Now(u)' = Now(u) /\ FilesOf(u)' = FilesOf(u) /\ Before(u)' = Before(u)
    BY <2>1, ReadsStay
  <2>5. ReadOK'
    BY <2>2, <2>4 DEF CallInv, ReadOK
  <2>6. stage \in SnapshotStage \ {"manifest"} /\ stage' \in SnapshotStage
    BY <2>1 DEF SnapshotStage
  <2>7. QuietRead'
    <3>1. HeadHash(ledger)' = HeadHash(ledger)
      BY <2>1 DEF HeadHash
    <3> QED
      BY <2>1, <2>2, <2>4, <2>6, <3>1 DEF CallInv, QuietRead
  <2> QED
    BY <2>1, <2>3, <2>5, <2>6, <2>7, FirstType, SnapshotStep
<1> QED
  BY <1>1, <1>2

\* A step of a verification keeps it for what is not of the verification.
LEMMA VerifyStep ==
    ASSUME CallInv, Reads, UNCHANGED <<start, quiet, command, seen>>,
           stage \in VerifyStage, stage' \in VerifyStage,
           at' \in 1 .. Len(TypeOrder), VerdictOK', QuietVerdict'
    PROVE  CallInv'
<1>1. stage \notin SnapshotStage /\ stage' \notin SnapshotStage \ {"manifest"}
  BY DEF SnapshotStage, VerifyStage
<1>2. StageOK'
  BY <1>1 DEF CallInv, StageOK, EnvironmentStage, SnapshotStage, VerifyStage
<1> QED
  BY <1>1, <1>2, NothingSeen

\* Every type has a position.
LEMMA Positions == \A t \in Type : \E i \in 1 .. Len(TypeOrder) : TypeOrder[i] = t
BY ApiAssumption

\* A record of the beginning whose type loads now was readable.
LEMMA LoadableStart ==
    ASSUME StartOK, NEW t, Loadable(t), NEW f \in start, f.type = t
    PROVE  f.readable
BY DEF StartOK, Loadable, FilesOf

\* What can be listed and loaded does not change with what does not.
LEMMA SoundStays ==
    ASSUME Reads
    PROVE  /\ \A t : Loadable(t)' = Loadable(t)
           /\ RepositorySound' = RepositorySound /\ Loads(ledger)' = Loads(ledger)
BY DEF Reads, RepositorySound, Loadable, Listable, FilesOf, Loads, EnvelopeHash

\* One more type of records is verified.
LEMMA RecordsKeep ==
    ASSUME CallInv, Reads, VerifyRecords
    PROVE  CallInv'
<1> DEFINE t == TypeOrder[at]
<1>0. stage = "verify-records" /\ at \in 1 .. Len(TypeOrder) /\ Len(TypeOrder) \in Nat
  BY FirstType DEF VerifyRecords, CallInv, StageOK
<1>1. /\ stage = "verify-records" /\ at \in 1 .. Len(TypeOrder) /\ Len(TypeOrder) \in Nat
      /\ "INTEGRITY-001" \notin failures /\ "INTEGRITY-002" \notin failures
      /\ command = "verify" => failures \subseteq {"INTEGRITY-001", "INTEGRITY-002"}
      /\ \A i \in 1 .. at - 1 : \A f \in start : f.type = TypeOrder[i] => f.readable
      /\ quiet => \A i \in 1 .. at - 1 : Loadable(TypeOrder[i])
      /\ t \in Type /\ StartOK /\ stage \in VerifyStage
  BY FirstType, ApiAssumption
     DEF VerifyRecords, CallInv, StageOK, VerdictOK, QuietVerdict, VerifyStage
<1>2. /\ \A u : Loadable(u)' = Loadable(u)
      /\ RepositorySound' = RepositorySound
  BY SoundStays
<1>3. CASE Loadable(t)
  <2>1. /\ UNCHANGED <<start, quiet, command, seen, failures>>
        /\ \/ stage' = "verify-records" /\ at' = at + 1 /\ at < Len(TypeOrder)
           \/ stage' = "verify-ledger" /\ at' = 1 /\ at = Len(TypeOrder)
    BY <1>0, <1>3 DEF VerifyRecords, Step, Goto
  <2>2. \A i \in 1 .. at : i = at \/ i \in 1 .. at - 1
    BY <1>0
  <2>3. ASSUME NEW i \in 1 .. at, NEW f \in start, f.type = TypeOrder[i]
        PROVE  f.readable
    BY <1>1, <1>3, <2>2, <2>3, LoadableStart
  <2>4. quiet => \A i \in 1 .. at : Loadable(TypeOrder[i])
    BY <1>1, <1>3, <2>2
  <2>5. at' \in 1 .. Len(TypeOrder) /\ stage' \in VerifyStage /\ stage' \notin EnvironmentStage
    BY <1>0, <2>1, FirstType DEF VerifyStage, EnvironmentStage
  <2>6. CASE stage' = "verify-records"
    <3>1. at' - 1 = at
      BY <1>0, <2>1, <2>6
    <3>2. VerdictOK'
      BY <1>1, <2>1, <2>3, <2>5, <2>6, <3>1 DEF VerdictOK
    <3>3. QuietVerdict'
      BY <1>2, <2>1, <2>4, <2>6, <3>1 DEF QuietVerdict
    <3> QED
      BY <1>1, <2>1, <2>5, <3>2, <3>3, VerifyStep
  <2>7. CASE stage' = "verify-ledger" /\ at = Len(TypeOrder)
    <3>1. \A f \in start : f.type \in Type
      BY <1>1 DEF StartOK
    <3>2. \A f \in start : f.readable
      BY <2>3, <2>7, <3>1, Positions
    <3>3. quiet => RepositorySound
      BY <2>4, <2>7, Positions DEF RepositorySound
    <3>4. VerdictOK'
      BY <1>1, <2>1, <2>5, <2>7, <3>2 DEF VerdictOK
    <3>5. QuietVerdict'
      BY <1>1, <1>2, <2>1, <2>7, <3>3 DEF QuietVerdict
    <3> QED
      BY <1>1, <2>1, <2>5, <3>4, <3>5, VerifyStep
  <2> QED
    BY <2>1, <2>6, <2>7
<1>4. CASE ~Loadable(t)
  <2>1. /\ UNCHANGED <<start, quiet, command, seen>>
        /\ stage' = "verify-ledger" /\ at' = 1
        /\ failures' = failures \union {"INTEGRITY-001"}
    BY <1>4 DEF VerifyRecords, Goto
  <2>2. ~RepositorySound
    BY <1>1, <1>4 DEF RepositorySound
  <2>3. stage' \in VerifyStage /\ stage' \notin EnvironmentStage
    BY <2>1 DEF VerifyStage, EnvironmentStage
  <2>4. VerdictOK'
    BY <1>1, <2>1, <2>3 DEF VerdictOK
  <2>5. QuietVerdict'
    BY <1>2, <2>1, <2>2 DEF QuietVerdict
  <2> QED
    BY <1>1, <2>1, <2>3, <2>4, <2>5, FirstType, VerifyStep
<1> QED
  BY <1>3, <1>4

\* The ledger is verified.
LEMMA LedgerKeeps ==
    ASSUME CallInv, Reads, VerifyLedger
    PROVE  CallInv'
<1>1. /\ stage = "verify-ledger" /\ stage' = "verify-counts" /\ at' = 1
      /\ UNCHANGED <<start, quiet, command, seen>>
      /\ failures' = failures \union (IF Loads(ledger) THEN {} ELSE {"INTEGRITY-002"})
  BY DEF VerifyLedger, Goto
<1>2. /\ "INTEGRITY-002" \notin failures
      /\ "INTEGRITY-001" \in failures \/ \A f \in start : f.readable
      /\ command = "verify" => failures \subseteq {"INTEGRITY-001", "INTEGRITY-002"}
      /\ quiet => ("INTEGRITY-001" \in failures <=> ~RepositorySound)
  BY <1>1 DEF CallInv, VerdictOK, QuietVerdict, VerifyStage
<1>3. RepositorySound' = RepositorySound /\ Loads(ledger)' = Loads(ledger)
  BY SoundStays
<1>4. /\ stage \in VerifyStage /\ stage' \in VerifyStage /\ stage' \notin EnvironmentStage
  BY <1>1 DEF VerifyStage, EnvironmentStage
<1>5. VerdictOK'
  BY <1>1, <1>2, <1>4 DEF VerdictOK
<1>6. QuietVerdict'
  BY <1>1, <1>2, <1>3 DEF QuietVerdict
<1> QED
  BY <1>1, <1>4, <1>5, <1>6, FirstType, VerifyStep

\* What there is is counted for the answer.
LEMMA AnswerKeeps ==
    ASSUME CallInv, Reads, VerifyCounts \/ VerifyTraces
    PROVE  CallInv'
<1>1. CASE \E code, codes : Finish(code, codes)
  BY <1>1, FinishKeeps
<1>2. CASE /\ stage = "verify-counts" /\ "INTEGRITY-002" \notin failures
           /\ Goto("verify-traces") /\ UNCHANGED <<failures, seen>>
  <2>1. /\ stage' = "verify-traces" /\ at' = 1
        /\ UNCHANGED <<start, quiet, command, seen, failures>>
    BY <1>2 DEF Goto
  <2>2. RepositorySound' = RepositorySound /\ Loads(ledger)' = Loads(ledger)
    BY SoundStays
  <2>3. stage \in VerifyStage /\ stage' \in VerifyStage /\ stage' \notin EnvironmentStage
    BY <1>2, <2>1 DEF VerifyStage, EnvironmentStage
  <2>4. VerdictOK'
    BY <1>2, <2>1, <2>3 DEF CallInv, VerdictOK
  <2>5. QuietVerdict'
    BY <1>2, <2>1, <2>2 DEF CallInv, QuietVerdict, VerifyStage
  <2> QED
    BY <2>1, <2>3, <2>4, <2>5, FirstType, VerifyStep
<1> QED
  BY <1>1, <1>2 DEF VerifyCounts, VerifyTraces, Raise, Answer

-----------------------------------------------------------------------------
(* The invariants.                                                         *)

\* At first there is nothing, and nothing is being done.
LEMMA InitInvs == ApiInit => StoreInv /\ CallInv
<1> SUFFICES ASSUME ApiInit
             PROVE  StoreInv /\ CallInv
  OBVIOUS
<1>1. Idle \in 0 .. Idle
  BY ApiAssumption DEF Idle
<1>2. StoreInv
  BY <1>1, FS_EmptySet DEF ApiInit, StoreInv, FileTypes, AttemptsOK, Stored
<1>3. /\ seen.counts = <<>> /\ seen.hashes = <<>> /\ SeenShape
      /\ Len(seen.counts) = 0 /\ Len(seen.hashes) = 0
      /\ seen.counts \in Seq(Nat) /\ seen.hashes \in Seq(SUBSET (Nat \X Nat))
  BY DEF ApiInit, Nothing, SeenShape
<1>4. StageOK
  BY FirstType DEF ApiInit, StageOK, EnvironmentStage, SnapshotStage, VerifyStage
<1>5. SeenOK
  BY <1>3 DEF ApiInit, SeenOK, CountsRead, HashesRead
<1>6. StartOK /\ ReadOK /\ QuietRead
  BY <1>3 DEF ApiInit, StartOK, ReadOK, QuietRead, SnapshotStage
<1>7. VerdictOK /\ QuietVerdict
  BY DEF ApiInit, VerdictOK, QuietVerdict, VerifyStage, EnvironmentStage
<1> QED
  BY <1>2, <1>4, <1>5, <1>6, <1>7 DEF CallInv, ApiInit

\* Every step keeps what is said of the repository and its caller.
LEMMA NextStoreInv == ASSUME StoreInv, [ApiNext]_apiVars PROVE StoreInv'
<1>1. CASE UNCHANGED apiVars
  BY <1>1, StoreStays DEF apiVars, clientVars, repositoryVars
<1>2. CASE Persist
  BY <1>2, PersistKeeps
<1>3. CASE Publish
  BY <1>3, PublishKeeps
<1>4. CASE PersistReturns
  BY <1>4, ReturnKeeps
<1>5. CASE PersistFails
  BY <1>5, FailKeeps
<1>6. CASE \E cmd \in Command : Begin(cmd)
  BY <1>6, StoreStays DEF Begin, clientVars, repositoryVars
<1>7. CASE Call
  BY <1>7, StoreStays DEF Call, clientVars, repositoryVars
<1>8. CASE Spoil
  BY <1>8, SpoilKeeps
<1>9. CASE Exchange
  BY <1>9, StoreStays DEF Exchange, clientVars, repositoryVars
<1>10. CASE LedgerStep
  BY <1>10, StoreStays DEF LedgerStep, clientVars, repositoryVars
<1> QED
  BY <1>1, <1>2, <1>3, <1>4, <1>5, <1>6, <1>7, <1>8, <1>9, <1>10 DEF ApiNext

\* A step of a call keeps what is said of it.
LEMMA CallKeeps == ASSUME StoreInv, CallInv, Call PROVE CallInv'
<1>1. Reads
  BY DEF Call, Reads, repositoryVars, vars
<1>2. CASE CheckSources
  BY <1>1, <1>2, SourcesKeeps
<1>3. CASE CheckCounts \/ CheckTraces
  BY <1>1, <1>3, EnvironmentReadsKeep
<1>4. CASE ReadManifest
  BY <1>1, <1>4, ManifestKeeps
<1>5. CASE ReadCount
  BY <1>1, <1>5, CountKeeps
<1>6. CASE ReadHash
  BY <1>1, <1>6, HashKeeps
<1>7. CASE ReadTraceCount \/ ReadHead
  BY <1>1, <1>7, TracesKeep
<1>8. CASE WriteSnapshot
  BY <1>8, FinishKeeps DEF WriteSnapshot, Raise
<1>9. CASE VerifyRecords
  BY <1>1, <1>9, RecordsKeep
<1>10. CASE VerifyLedger
  BY <1>1, <1>10, LedgerKeeps
<1>11. CASE VerifyCounts \/ VerifyTraces
  BY <1>1, <1>11, AnswerKeeps
<1>12. CASE Configure
  BY <1>1, <1>12, ConfigureKeeps
<1>13. CASE Interrupt
  BY <1>13, FinishKeeps DEF Interrupt
<1> QED
  BY <1>2, <1>3, <1>4, <1>5, <1>6, <1>7, <1>8, <1>9, <1>10, <1>11, <1>12, <1>13
     DEF Call, CallStep

\* Every step keeps what is said of a call.
LEMMA NextCallInv ==
    ASSUME StoreInv, CallInv, [ApiNext]_apiVars
    PROVE  CallInv'
<1>1. CASE UNCHANGED <<callVars, repositoryVars, sources, ledger, quiet>>
  BY <1>1, CallStays
<1>2. CASE UNCHANGED callVars /\ Disturb /\ Kept
  BY <1>2, NextStoreInv, CallDisturbed
<1>3. CASE UNCHANGED apiVars
  BY <1>1, <1>3 DEF apiVars, vars
<1>4. CASE Persist \/ PersistReturns \/ PersistFails
  BY <1>1, <1>4 DEF Persist, PersistReturns, PersistFails, vars
<1>5. CASE Publish
  BY <1>2, <1>5, PublishKept DEF Publish
<1>6. ASSUME NEW cmd \in Command, Begin(cmd)
      PROVE  CallInv'
  BY <1>6, BeginKeeps
<1>7. CASE Call
  BY <1>7, CallKeeps
<1>8. CASE Spoil
  BY <1>2, <1>8, SpoilKept DEF Spoil
<1>9. CASE Exchange
  <2>1. Kept
    BY <1>9 DEF Exchange, repositoryVars, Kept
  <2> QED
    BY <1>2, <1>9, <2>1 DEF Exchange
<1>10. CASE LedgerStep
  <2>1. Kept
    BY <1>10 DEF LedgerStep, repositoryVars, Kept
  <2> QED
    BY <1>1, <1>2, <1>10, <2>1 DEF LedgerStep
<1> QED
  BY <1>3, <1>4, <1>5, <1>6, <1>7, <1>8, <1>9, <1>10 DEF ApiNext

\* Both hold always.
LEMMA Invariants == ApiSpec => [](StoreInv /\ CallInv)
BY InitInvs, NextStoreInv, NextCallInv, PTL DEF ApiSpec

-----------------------------------------------------------------------------
(* The properties.                                                         *)

\* However often a caller tries again, it leaves prefixes of its batch, of each
\* record no more copies than it called, and everything when it succeeded.
THEOREM RetriesLeaveOnlyPrefixes == ApiSpec => []RetriesLeavePrefixes
BY Invariants, StoreInvRetries, PTL

\* The position of a type is one.
LEMMA PositionOf ==
    ASSUME NEW t \in Type
    PROVE  Position(t) \in 1 .. Len(TypeOrder) /\ TypeOrder[Position(t)] = t
BY Positions DEF Position

\* A snapshot written while others work misses nothing that was there before the
\* call, invents nothing, and counts nothing that it does not hash.
THEOREM SnapshotsAreBracketed == ApiSpec => SnapshotIsBracketed
<1> DEFINE Bracketed ==
      Written => \A t \in Type :
         LET hashed == snapshot'.hashes[Position(t)]
             before == {f.id : f \in {g \in start : g.type = t}}
         IN  /\ before \subseteq hashed
             /\ hashed \subseteq Ids(FilesOf(t))
             /\ Cardinality(before) <= snapshot'.counts[Position(t)]
             /\ snapshot'.counts[Position(t)] <= Cardinality(hashed)
<1>1. CallInv => Bracketed
  <2> SUFFICES ASSUME CallInv, Written, NEW t \in Type
               PROVE  /\ Before(t) \subseteq snapshot'.hashes[Position(t)]
                      /\ snapshot'.hashes[Position(t)] \subseteq Now(t)
                      /\ Cardinality(Before(t)) <= snapshot'.counts[Position(t)]
                      /\ snapshot'.counts[Position(t)]
                           <= Cardinality(snapshot'.hashes[Position(t)])
    BY DEF Before, Now
  <2>1. /\ snapshot' = seen /\ Len(seen.counts) = Len(TypeOrder)
        /\ Len(seen.hashes) = Len(TypeOrder)
    BY DEF Written, CallInv, SeenOK, CountsRead, HashesRead
  <2> QED
    BY <2>1, PositionOf DEF CallInv, ReadOK
<1> QED
  BY <1>1, Invariants, PTL DEF SnapshotIsBracketed, ApiSpec

\* A snapshot written while nothing else happened is the state of the system.
THEOREM QuietSnapshotsAreExact == ApiSpec => QuietSnapshotIsExact
<1> DEFINE Exact ==
      Written /\ quiet =>
         /\ snapshot'.architecture = sources.manifest.version
         /\ \A t \in Type :
              /\ snapshot'.counts[Position(t)] = Cardinality(FilesOf(t))
              /\ snapshot'.hashes[Position(t)] = Ids(FilesOf(t))
         /\ snapshot'.traces = Len(ledger)
         /\ snapshot'.head = HeadHash(ledger)
<1>1. CallInv => Exact
  <2> SUFFICES ASSUME CallInv, Written, quiet
               PROVE  Exact
    OBVIOUS
  <2>1. /\ snapshot' = seen /\ stage = "write" /\ stage \in SnapshotStage \ {"manifest"}
        /\ Len(seen.counts) = Len(TypeOrder) /\ Len(seen.hashes) = Len(TypeOrder)
    BY DEF Written, CallInv, SeenOK, CountsRead, HashesRead, SnapshotStage
  <2>2. \A t \in Type : /\ seen.counts[Position(t)] = Cardinality(FilesOf(t))
                        /\ seen.hashes[Position(t)] = Ids(FilesOf(t))
    BY <2>1, PositionOf DEF CallInv, QuietRead, Now
  <2>3. /\ seen.architecture = sources.manifest.version
        /\ seen.traces = Len(ledger) /\ seen.head = HeadHash(ledger)
    BY <2>1 DEF CallInv, QuietRead
  <2> QED
    BY <2>1, <2>2, <2>3
<1> QED
  BY <1>1, Invariants, PTL DEF QuietSnapshotIsExact, ApiSpec

\* Only a step of the call itself ends it, and not one of a loop that goes on.
LEMMA EndOfCall ==
    ASSUME CallInv, [ApiNext]_apiVars, stage # "idle", stage' = "idle"
    PROVE  CallStep /\ Reads
<1>1. Call
  BY DEF ApiNext, apiVars, callVars, Persist, Publish, PersistReturns, PersistFails,
         Begin, Spoil, Exchange, LedgerStep
<1> QED
  BY <1>1 DEF Call, Reads, repositoryVars, vars

\* A call whose environment is in question ends only with an answer about it.
LEMMA EnvironmentEnds ==
    ASSUME NEW codes, EnvironmentAnswers(codes), stage' = "idle"
    PROVE  /\ command # "status" /\ ~(command = "snapshot" /\ codes = {})
           /\ UNCHANGED snapshot
BY DEF EnvironmentAnswers, Goto, Answer

\* A verification that is not interrupted ends with an answer or, where a file
\* is no record or the configuration does not load, an exception.
LEMMA VerificationEnds ==
    ASSUME CallInv, CallStep, stage' = "idle", command \in {"verify", "status"},
           stage # "idle", ~Interrupt
    PROVE  \/ /\ stage \in {"verify-counts", "verify-traces"}
              /\ \/ exit' = IF failures = {} THEN 0 ELSE 1
                 \/ /\ exit' = 2
                    /\ \/ \E t \in Type : ~Listable(t)
                       \/ stage = "verify-traces" /\ ~Loads(ledger)
           \/ exit' = 2 /\ ~ConfigurationLoads(sources)
<1>1. /\ stage \notin SnapshotStage
      /\ stage \in {"configuration"} \union EnvironmentStage \union VerifyStage
  BY DEF CallInv, StageOK, EnvironmentStage, SnapshotStage, VerifyStage
<1>2. stage \in EnvironmentStage => command = "status"
  BY DEF CallInv, StageOK
<1>3. stage \notin {"sources", "environment-counts", "environment-traces"}
  <2>1. ~CheckSources \/ stage # "sources"
    BY <1>2, EnvironmentEnds DEF CheckSources, Goto, EnvironmentStage
  <2>2. ~CheckCounts \/ stage # "environment-counts"
    BY <1>2, EnvironmentEnds DEF CheckCounts, Goto, EnvironmentStage
  <2>3. ~CheckTraces \/ stage # "environment-traces"
    BY <1>2, EnvironmentEnds DEF CheckTraces, EnvironmentStage
  <2> QED
    BY <2>1, <2>2, <2>3 DEF CallStep, CheckSources, CheckCounts, CheckTraces, Configure,
       ReadManifest, ReadCount, ReadHash, ReadTraceCount, ReadHead, WriteSnapshot,
       VerifyRecords, VerifyLedger, VerifyCounts, VerifyTraces
<1>4. stage \in {"configuration"} \union VerifyStage
  BY <1>1, <1>3 DEF EnvironmentStage
<1>5. Configure \/ VerifyRecords \/ VerifyLedger \/ VerifyCounts \/ VerifyTraces
  BY <1>4 DEF VerifyStage, CallStep, CheckSources, CheckCounts, CheckTraces,
       ReadManifest, ReadCount, ReadHash, ReadTraceCount, ReadHead, WriteSnapshot
<1>6. ~VerifyRecords /\ ~VerifyLedger
  BY DEF VerifyRecords, VerifyLedger, Step, Goto
<1>7. CASE VerifyCounts
  BY <1>7 DEF VerifyCounts, Raise, Answer, Finish, Goto
<1>8. CASE VerifyTraces
  BY <1>8 DEF VerifyTraces, Raise, Answer, Finish
<1>9. CASE Configure
  BY <1>9 DEF Configure, Raise, Finish, Goto
<1> QED
  BY <1>5, <1>6, <1>7, <1>8, <1>9

\* A verification that reports nothing found everything readable that was there
\* when it began; a quiet one answers what is the case.
THEOREM VerificationsFindDamage == ApiSpec => VerificationFindsDamage
<1> DEFINE Finds ==
      Ended({"verify", "status"}) =>
         /\ exit' = 0 => \A f \in start : f.readable
         /\ (quiet /\ exit' \in {0, 1} /\ command = "verify") =>
              (exit' = 0 <=> RepositorySound /\ Loads(ledger))
         /\ (quiet /\ exit' = 2) =>
              stray # {} \/ ~ConfigurationLoads(sources)
<1>1. CallInv /\ [ApiNext]_apiVars => Finds
  <2> SUFFICES ASSUME CallInv, [ApiNext]_apiVars, Ended({"verify", "status"})
               PROVE  Finds
    OBVIOUS
  <2>0. CASE Interrupt
    BY <2>0 DEF Interrupt, Finish
  <2>1. CASE exit' = 2 /\ ~ConfigurationLoads(sources)
    BY <2>1
  <2>2. CASE /\ stage \in {"verify-counts", "verify-traces"}
             /\ \/ exit' = IF failures = {} THEN 0 ELSE 1
                \/ /\ exit' = 2
                   /\ \/ \E t \in Type : ~Listable(t)
                      \/ stage = "verify-traces" /\ ~Loads(ledger)
    <3>1. /\ "INTEGRITY-001" \in failures \/ \A f \in start : f.readable
          /\ command = "verify" => failures \subseteq {"INTEGRITY-001", "INTEGRITY-002"}
          /\ stage = "verify-traces" => "INTEGRITY-002" \notin failures
          /\ quiet => ("INTEGRITY-001" \in failures <=> ~RepositorySound)
          /\ quiet => ("INTEGRITY-002" \in failures <=> ~Loads(ledger))
      BY <2>2 DEF CallInv, VerdictOK, QuietVerdict, VerifyStage
    <3>2. exit' = 0 => failures = {}
      BY <2>2
    <3>3. exit' # 2 => (exit' = 0 <=> failures = {})
      BY <2>2
    <3>4. exit' = 0 => \A f \in start : f.readable
      BY <3>1, <3>2
    <3>5. (quiet /\ exit' \in {0, 1} /\ command = "verify") =>
            (exit' = 0 <=> RepositorySound /\ Loads(ledger))
      BY <3>1, <3>3
    <3>6. (quiet /\ exit' = 2) => stray # {}
      BY <2>2, <3>1 DEF Listable
    <3> QED
      BY <3>4, <3>5, <3>6
  <2>3. CASE ~Interrupt
    <3>1. /\ CallStep /\ stage # "idle" /\ stage' = "idle"
          /\ command \in {"verify", "status"}
      BY EndOfCall DEF Ended
    <3> QED
      BY <2>1, <2>2, <2>3, <3>1, VerificationEnds
  <2> QED
    BY <2>0, <2>3
<1> QED
  BY <1>1, Invariants, PTL DEF VerificationFindsDamage, ApiSpec

\* While nothing changes, what a call for a snapshot has come past was as it
\* should be, and is.
Passed ==
    quiet =>
      /\ stage \notin {"idle", "configuration"} => ConfigurationLoads(sources)
      /\ stage \in {"environment-counts", "environment-traces"} \union SnapshotStage =>
           Usable(sources)
      /\ stage \in SnapshotStage => SourceFailures(sources) = {}
      /\ \A i \in 1 .. HashesRead : Hashable(TypeOrder[i])
      /\ stage \in {"head", "write"} => Loads(ledger)
      /\ stage = "write" => sources.manifest.version # Blank

\* Before a call has read anything it has come past nothing.
LEMMA NothingPassed == ASSUME stage \in {"idle", "configuration"} PROVE Passed
<1>1. stage \notin SnapshotStage /\ HashesRead = 0
  BY DEF SnapshotStage, HashesRead
<1> QED
  BY <1>1 DEF Passed

\* What a step of a call leaves alone is as good as it was.
LEMMA GoodStays ==
    ASSUME Reads
    PROVE  /\ sources' = sources /\ Loads(ledger)' = Loads(ledger)
           /\ ConfigurationLoads(sources)' = ConfigurationLoads(sources)
           /\ Usable(sources)' = Usable(sources)
           /\ SourceFailures(sources)' = SourceFailures(sources)
           /\ \A t : Hashable(t)' = Hashable(t)
BY SoundStays
   DEF Reads, ConfigurationLoads, Usable, ManifestLoads, SourceFailures, Hashable, FilesOf

\* A call whose environment is good goes on only after all of it was read.
LEMMA EnvironmentPasses ==
    ASSUME NEW codes, EnvironmentAnswers(codes)
    PROVE  \/ stage' = "idle"
           \/ stage' = "verify-records" /\ quiet' = quiet
           \/ stage' = "manifest" /\ quiet' = quiet /\ codes = {}
BY DEF EnvironmentAnswers, Goto, Answer, Finish

\* A step of a call that goes on comes past what it looked at.
LEMMA CallPasses ==
    ASSUME CallInv, Passed, CallStep, Reads, stage' # "idle"
    PROVE  Passed'
<1>0. /\ Reads /\ Passed /\ at \in 1 .. Len(TypeOrder) /\ Len(TypeOrder) \in Nat
      /\ ~\E code, codes : Finish(code, codes)
  BY FirstType DEF CallInv, StageOK, Finish
<1>1. /\ sources' = sources /\ Loads(ledger)' = Loads(ledger)
      /\ ConfigurationLoads(sources)' = ConfigurationLoads(sources)
      /\ Usable(sources)' = Usable(sources)
      /\ SourceFailures(sources)' = SourceFailures(sources)
      /\ \A t : Hashable(t)' = Hashable(t)
  BY <1>0, GoodStays
<1>2. CASE Configure
  <2>1. /\ ConfigurationLoads(sources) /\ stage' \in {"verify-records", "sources"}
        /\ quiet' = quiet
    BY <1>0, <1>2 DEF Configure, Goto, Raise
  <2>2. HashesRead' = 0 /\ stage' \notin SnapshotStage
    BY <2>1 DEF HashesRead, SnapshotStage
  <2> QED
    BY <1>1, <2>1, <2>2 DEF Passed
<1>3. CASE \E codes : EnvironmentAnswers(codes) /\ stage \in EnvironmentStage
                      /\ (codes = {} => /\ stage = "environment-traces"
                                        /\ quiet => SourceFailures(sources) = {})
  <2>1. PICK codes : /\ EnvironmentAnswers(codes) /\ stage \in EnvironmentStage
                     /\ codes = {} => /\ stage = "environment-traces"
                                      /\ quiet => SourceFailures(sources) = {}
    BY <1>3
  <2>2. quiet => ConfigurationLoads(sources)
    BY <1>0, <2>1 DEF Passed, EnvironmentStage
  <2>3. CASE stage' = "verify-records" /\ quiet' = quiet
    <3>1. HashesRead' = 0 /\ stage' \notin SnapshotStage
      BY <2>3 DEF HashesRead, SnapshotStage
    <3> QED
      BY <1>1, <2>2, <2>3, <3>1 DEF Passed
  <2>4. CASE stage' = "manifest" /\ quiet' = quiet /\ codes = {}
    <3>1. quiet => Usable(sources) /\ SourceFailures(sources) = {}
      BY <1>0, <2>1, <2>4 DEF Passed
    <3>2. HashesRead' = 0
      BY <2>4 DEF HashesRead
    <3> QED
      BY <1>1, <2>2, <2>4, <3>1, <3>2 DEF Passed
  <2> QED
    BY <2>1, <2>3, <2>4, EnvironmentPasses
<1>4. CASE CheckSources
  <2>1. CASE ~Usable(sources)
    BY <1>3, <1>4, <2>1 DEF CheckSources, EnvironmentStage
  <2>2. CASE Usable(sources)
    <3>1. stage = "sources" /\ stage' = "environment-counts" /\ quiet' = quiet
      BY <1>4, <2>2 DEF CheckSources, Goto
    <3>2. HashesRead' = 0 /\ stage' \notin SnapshotStage
      BY <3>1 DEF HashesRead, SnapshotStage
    <3> QED
      BY <1>0, <1>1, <2>2, <3>1, <3>2 DEF Passed
  <2> QED
    BY <2>1, <2>2
<1>5. CASE CheckCounts
  <2>1. CASE ~\A t \in Type : Listable(t)
    BY <1>3, <1>5, <2>1 DEF CheckCounts, EnvironmentStage
  <2>2. CASE \A t \in Type : Listable(t)
    <3>1. /\ stage = "environment-counts" /\ stage' = "environment-traces"
          /\ quiet' = quiet
      BY <1>5, <2>2 DEF CheckCounts, Goto
    <3>2. HashesRead' = 0 /\ stage' \notin SnapshotStage
      BY <3>1 DEF HashesRead, SnapshotStage
    <3> QED
      BY <1>0, <1>1, <3>1, <3>2 DEF Passed
  <2> QED
    BY <2>1, <2>2
<1>6. CASE CheckTraces
  <2>1. quiet => failures = SourceFailures(sources)
    BY <1>6 DEF CheckTraces, CallInv, QuietVerdict
  <2>2. EnvironmentAnswers(failures) \/ EnvironmentAnswers({"CONFIGURATION-001"})
    BY <1>6 DEF CheckTraces
  <2>3. stage = "environment-traces" /\ stage \in EnvironmentStage
    BY <1>6 DEF CheckTraces, EnvironmentStage
  <2> QED
    BY <1>3, <2>1, <2>2, <2>3
<1>7. CASE ReadManifest \/ ReadCount
  <2>1. /\ stage \in SnapshotStage /\ stage' \in {"counts", "hashes"} /\ quiet' = quiet
        /\ stage' = "hashes" /\ stage # "hashes" => at' = 1
        /\ stage \in {"manifest", "counts"}
    BY <1>0, <1>7 DEF ReadManifest, ReadCount, Step, Goto, Raise, SnapshotStage
  <2>2. HashesRead' = 0 /\ stage' \in SnapshotStage
    BY <2>1 DEF HashesRead, SnapshotStage
  <2>3. stage \notin {"idle", "configuration"}
    BY <2>1
  <2> QED
    BY <1>0, <1>1, <2>1, <2>2, <2>3 DEF Passed
<1>8. CASE ReadHash
  <2>1. /\ stage = "hashes" /\ Hashable(TypeOrder[at]) /\ quiet' = quiet
        /\ \/ stage' = "hashes" /\ at' = at + 1
           \/ stage' = "traces" /\ at = Len(TypeOrder)
    BY <1>0, <1>8 DEF ReadHash, Step, Goto, Raise
  <2>2. HashesRead = at - 1 /\ HashesRead' = at
    BY <1>0, <2>1 DEF HashesRead
  <2>3. quiet => \A i \in 1 .. at : Hashable(TypeOrder[i])
    <3>1. \A i \in 1 .. at : i = at \/ i \in 1 .. at - 1
      BY <1>0
    <3> QED
      BY <1>0, <2>1, <2>2, <3>1 DEF Passed
  <2>4. stage \in SnapshotStage
    BY <2>1 DEF SnapshotStage
  <2> QED
    BY <1>0, <1>1, <2>1, <2>2, <2>3, <2>4 DEF Passed
<1>9. CASE ReadTraceCount \/ ReadHead
  <2>1. /\ stage \in {"traces", "head"} /\ Loads(ledger) /\ quiet' = quiet
        /\ stage' \in {"head", "write"}
        /\ stage' = "write" => stage = "head" /\ seen.architecture # Blank
    BY <1>0, <1>9 DEF ReadTraceCount, ReadHead, Goto, Raise
  <2>2. /\ HashesRead' = HashesRead
        /\ stage \in SnapshotStage \ {"manifest"}
    BY <2>1 DEF HashesRead, SnapshotStage
  <2>3. quiet => seen.architecture = sources.manifest.version
    BY <2>2 DEF CallInv, QuietRead
  <2> QED
    BY <1>0, <1>1, <2>1, <2>2, <2>3 DEF Passed
<1>10. CASE VerifyRecords \/ VerifyLedger \/ VerifyCounts \/ VerifyTraces
  <2>1. stage \in VerifyStage /\ stage' \in VerifyStage /\ quiet' = quiet
    BY <1>0, <1>10 DEF VerifyRecords, VerifyLedger, VerifyCounts, VerifyTraces, Step,
       Goto, Raise, Answer, VerifyStage
  <2>2. HashesRead' = 0 /\ stage' \notin SnapshotStage /\ stage \notin {"idle", "configuration"}
    BY <2>1 DEF HashesRead, SnapshotStage, VerifyStage
  <2>3. stage' \notin {"environment-counts", "environment-traces", "head", "write"}
    BY <2>1 DEF VerifyStage
  <2> QED
    BY <1>0, <1>1, <2>1, <2>2, <2>3 DEF Passed
<1>11. CASE Interrupt \/ WriteSnapshot
  BY <1>0, <1>11 DEF Interrupt, WriteSnapshot, Raise
<1> QED
  BY <1>2, <1>4, <1>5, <1>6, <1>7, <1>8, <1>9, <1>10, <1>11 DEF CallStep

\* Every step keeps it: what comes between two steps of a call disturbs it.
LEMMA NextPassed == ASSUME CallInv, Passed, [ApiNext]_apiVars PROVE Passed'
<1>1. CASE stage' \in {"idle", "configuration"}
  <2>1. (stage \in {"idle", "configuration"})'
    BY <1>1
  <2> QED
    BY <2>1, NothingPassed, PTL
<1>2. CASE UNCHANGED <<stage, at, store, stray, sources, ledger, quiet>>
  <2>1. Reads /\ UNCHANGED <<stage, at, quiet>>
    BY <1>2 DEF Reads
  <2>2. HashesRead' = HashesRead
    BY <2>1 DEF HashesRead
  <2> QED
    BY <2>1, <2>2, GoodStays DEF Passed
<1>3. CASE UNCHANGED callVars /\ Disturb
  <2>1. stage' = stage /\ quiet' = (stage = "idle")
    BY <1>3 DEF callVars, Disturb
  <2> QED
    BY <1>1, <2>1 DEF Passed
<1>4. CASE Call
  <2>1. CallStep /\ Reads
    BY <1>4 DEF Call, Reads, repositoryVars, vars
  <2> QED
    BY <1>1, <2>1, CallPasses
<1> QED
  BY <1>1, <1>2, <1>3, <1>4 DEF ApiNext, apiVars, callVars, vars, repositoryVars, Persist,
     Publish, PersistReturns, PersistFails, Begin, Spoil, Exchange, LedgerStep

\* It holds always.
LEMMA AlwaysPassed == ApiSpec => []Passed
<1>1. ApiInit => Passed
  BY NothingPassed DEF ApiInit
<1> QED
  BY <1>1, NextPassed, Invariants, PTL DEF ApiSpec

\* A call for a snapshot that stays alone and is not interrupted gets as far as
\* writing it exactly if the system allows one, and the file only ever changes to
\* what was read to the end.
THEOREM SoundSystemsSnapshot == ApiSpec => SoundSystemSnapshots
<1> DEFINE Sound ==
      Ended({"snapshot"}) =>
         /\ quiet /\ exit' # 130 => (stage = "write" <=> Snapshotable)
         /\ snapshot' # snapshot => Written /\ exit' \in {0, 130}
<1>1. CallInv /\ Passed /\ [ApiNext]_apiVars => Sound
  <2> SUFFICES ASSUME CallInv, Passed, [ApiNext]_apiVars, Ended({"snapshot"})
               PROVE  Sound
    OBVIOUS
  <2>1. CallStep /\ Reads /\ stage' = "idle" /\ command = "snapshot" /\ stage # "idle"
    BY EndOfCall DEF Ended
  <2>2. stage \notin VerifyStage
    BY <2>1 DEF CallInv, StageOK
  <2>3. ~VerifyRecords /\ ~VerifyLedger /\ ~VerifyCounts /\ ~VerifyTraces
    BY <2>2 DEF VerifyStage, VerifyRecords, VerifyLedger, VerifyCounts, VerifyTraces
  <2>4. ASSUME quiet, stage = "write"
        PROVE  Snapshotable
    <3>1. HashesRead = Len(TypeOrder) /\ stage \in SnapshotStage
      BY <2>4 DEF HashesRead, SnapshotStage
    <3>2. \A t \in Type : Hashable(t)
      BY <2>4, <3>1, Positions DEF Passed
    <3> QED
      BY <2>4, <3>1, <3>2 DEF Passed, Snapshotable
  <2>5. CASE WriteSnapshot
    BY <2>4, <2>5 DEF WriteSnapshot, Finish, Raise, Written
  <2>6. CASE CheckSources
    BY <2>1, <2>6, EnvironmentEnds DEF CheckSources, Goto, Snapshotable
  <2>7. CASE CheckCounts
    <3>1. Snapshotable => \A t \in Type : Listable(t)
      BY DEF Snapshotable, Hashable, Loadable
    <3> QED
      BY <2>1, <2>7, <3>1, EnvironmentEnds DEF CheckCounts, Goto
  <2>8. CASE CheckTraces
    <3>1. quiet => failures = SourceFailures(sources)
      BY <2>8 DEF CheckTraces, CallInv, QuietVerdict
    <3> QED
      BY <2>1, <2>8, <3>1, EnvironmentEnds DEF CheckTraces, Snapshotable
  <2>9. CASE ReadManifest
    BY <2>1, <2>9 DEF ReadManifest, Goto, Raise, Usable, Snapshotable
  <2>10. CASE ReadCount \/ ReadHash
    <3>1. TypeOrder[at] \in Type
      BY ApiAssumption DEF CallInv, StageOK
    <3>2. Snapshotable => Hashable(TypeOrder[at]) /\ Listable(TypeOrder[at])
      BY <3>1 DEF Snapshotable, Hashable, Loadable
    <3> QED
      BY <2>1, <2>10, <3>2 DEF ReadCount, ReadHash, Step, Goto, Raise
  <2>11. CASE ReadTraceCount \/ ReadHead
    <3>1. quiet /\ stage = "head" => seen.architecture = sources.manifest.version
      BY DEF CallInv, QuietRead, SnapshotStage
    <3>2. quiet => ~Snapshotable
      BY <2>1, <2>11, <3>1 DEF ReadTraceCount, ReadHead, Goto, Raise, Snapshotable
    <3> QED
      BY <2>1, <2>11, <3>2 DEF ReadTraceCount, ReadHead, Goto, Raise
  <2>12. CASE Configure
    BY <2>1, <2>12 DEF Configure, Goto, Raise, Snapshotable
  <2>13. CASE Interrupt
    BY <2>13 DEF Interrupt, Finish, Written
  <2> QED
    BY <2>1, <2>3, <2>5, <2>6, <2>7, <2>8, <2>9, <2>10, <2>11, <2>12, <2>13 DEF CallStep
<1> QED
  BY <1>1, Invariants, AlwaysPassed, PTL DEF SoundSystemSnapshots, ApiSpec

-----------------------------------------------------------------------------
(* What it is made of.                                                     *)

\* Whatever the API, its callers and the environment do around it, the ledger is
\* the one TraceLedger describes: all that is proved of it holds here.
THEOREM ApiImplementsLedger == ApiSpec => Spec
<1>1. ApiInit => Init
  BY DEF ApiInit
<1>2. [ApiNext]_apiVars => [Next]_vars
  BY DEF ApiNext, apiVars, Persist, Publish, PersistReturns, PersistFails, Begin, Call,
         Spoil, Exchange, LedgerStep
<1> QED
  BY <1>1, <1>2, PTL DEF ApiSpec, Spec

\* However processes append while the API works, an unedited file verifies.
THEOREM ChainStaysIntact == ApiSpec => []ChainIntact
BY ApiImplementsLedger, ChainAlwaysIntact, PTL

\* What verify_integrity() accepts has, before any link that was written, what was
\* written there.
THEOREM EditsShowHere == ApiSpec => []DamageShows
BY ApiImplementsLedger, EditsShow, PTL

\* A caller of persist_records() is in a call only until one has succeeded.
CallerOK ==
    /\ published # Idle => ~persisted
    /\ attempt <= MaxAttempt

\* Every step keeps it.
LEMMA CallerStep == ASSUME StoreInv, CallerOK, [ApiNext]_apiVars PROVE CallerOK'
<1>1. attempt \in Nat /\ MaxAttempt \in Nat
  BY ApiAssumption DEF StoreInv, FileTypes
<1>2. CASE UNCHANGED clientVars
  BY <1>2 DEF clientVars, CallerOK
<1>3. CASE Persist
  BY <1>1, <1>3 DEF Persist, CallerOK
<1>4. CASE Publish
  <2>1. published # Idle
    BY <1>4, ApiAssumption DEF Publish, Idle, StoreInv, FileTypes
  <2> QED
    BY <1>4, <2>1 DEF Publish, CallerOK
<1>5. CASE PersistReturns \/ PersistFails
  BY <1>5 DEF PersistReturns, PersistFails, CallerOK
<1> QED
  BY <1>2, <1>3, <1>4, <1>5 DEF ApiNext, apiVars, Begin, Call, Spoil, Exchange, LedgerStep

\* It holds always.
LEMMA CallerInvariant == ApiSpec => []CallerOK
<1>1. ApiInit => CallerOK
  BY ApiAssumption DEF ApiInit, CallerOK
<1> QED
  BY <1>1, CallerStep, Invariants, PTL DEF ApiSpec

\* What clients see of a record is in the files.
LEMMA ViewOf ==
    ASSUME StoreInv, NEW id \in RecordId
    PROVE  /\ StoreView[id] \in {NoFile, BadFile, id}
           /\ StoreView[id] = NoFile <=> \A f \in store : f.id # id
           /\ StoreView[id] = id <=> \E f \in store : f.id = id /\ f.readable
<1>1. id # NoFile /\ id # BadFile /\ NoFile # BadFile
  <2>1. Len(NoFile) # 2 /\ Len(BadFile) # 2 /\ Len(NoFile) # Len(BadFile)
    BY DEF NoFile, BadFile
  <2>2. PICK a \in 1 .. MaxAttempt, i \in 1 .. Len(Batch) : id = <<a, i>>
    BY DEF RecordId
  <2>3. Len(id) = 2
    BY <2>2
  <2> QED
    BY <2>1, <2>3, Zenon
<1>2. id \in Ids(store) <=> \E f \in store : f.id = id
  BY DEF Ids
<1>3. id \in Ids({f \in store : f.readable}) <=> \E f \in store : f.id = id /\ f.readable
  BY DEF Ids
<1> QED
  BY <1>1, <1>2, <1>3 DEF StoreView

\* A step of the API is one of the promised store, or none.
LEMMA RecordsStep ==
    ASSUME StoreInv, StoreInv', CallerOK, CallerOK', [ApiNext]_apiVars
    PROVE  [Records!Next]_(Records!vars)
<1>1. CASE UNCHANGED <<store, attempt, persisted>>
  BY <1>1 DEF Records!vars, StoreView, AckedView, Ids
<1>2. CASE Persist
  BY <1>2 DEF Persist, repositoryVars, Records!vars, StoreView, AckedView, Ids
<1>3. CASE Publish
  <2> DEFINE id == <<attempt, published + 1>>
  <2>1. /\ store' = store \union {NewFile} /\ NewFile.id = id /\ NewFile.readable
        /\ UNCHANGED <<attempt, persisted>>
    BY <1>3 DEF Publish, NewFile
  <2>2. id \in RecordId
    <3>1. published \in Nat /\ published < Len(Batch) /\ Len(Batch) \in Nat
      BY <1>3, ApiAssumption DEF Publish, StoreInv, FileTypes
    <3>2. attempt \in 1 .. MaxAttempt
      <4>1. attempt \in Nat /\ MaxAttempt \in Nat /\ attempt <= MaxAttempt
        BY ApiAssumption DEF StoreInv, FileTypes, CallerOK
      <4>2. attempt > 0
        BY <3>1 DEF StoreInv, AttemptsOK, Idle
      <4> QED
        BY <4>1, <4>2
    <3> QED
      BY <3>1, <3>2 DEF RecordId
  <2>3. StoreView[id] = NoFile
    <3>1. published \in Nat /\ published < Len(Batch) /\ Len(Batch) \in Nat
      BY <1>3, ApiAssumption DEF Publish, StoreInv, FileTypes
    <3>2. published # Idle /\ published + 1 \in 1 .. Len(Batch)
      BY <3>1 DEF Idle
    <3>3. ~Stored(attempt, published + 1)
      BY <3>1, <3>2 DEF StoreInv, AttemptsOK
    <3> QED
      BY <2>2, <3>3, ViewOf DEF Stored
  <2> HIDE DEF id
  <2>4. ASSUME NEW d \in RecordId
        PROVE  StoreView'[d] = IF d = id THEN id ELSE StoreView[d]
    <3>1. d \in Ids(store') <=> d \in Ids(store) \/ d = id
      BY <2>1 DEF Ids
    <3>2. d \in Ids({f \in store' : f.readable})
            <=> d \in Ids({f \in store : f.readable}) \/ d = id
      BY <2>1 DEF Ids
    <3> QED
      BY <3>1, <3>2 DEF StoreView
  <2>5. StoreView' = [StoreView EXCEPT ![id] = id]
    BY <2>2, <2>4 DEF StoreView
  <2>6. UNCHANGED AckedView
    BY <2>1 DEF AckedView
  <2>7. Records!Put(id)
    BY <2>3, <2>5, <2>6 DEF Records!Put, OwnPath
  <2> QED
    BY <2>2, <2>7 DEF Records!Next
<1>4. CASE PersistReturns
  <2> DEFINE S == {<<attempt, i>> : i \in 1 .. Len(Batch)}
  <2>1. /\ RepositorySound /\ published = Len(Batch) /\ ~persisted /\ persisted'
        /\ UNCHANGED <<store, attempt>> /\ published # Idle
    BY <1>4, ApiAssumption DEF PersistReturns, repositoryVars, CallerOK, Idle
  <2>2. attempt \in 1 .. MaxAttempt
    BY <2>1, ApiAssumption DEF StoreInv, FileTypes, AttemptsOK, CallerOK
  <2>3. S \subseteq RecordId
    BY <2>2 DEF RecordId
  <2>4. ASSUME NEW id \in S
        PROVE  StoreView[id] = id
    <3>1. PICK i \in 1 .. Len(Batch) : id = <<attempt, i>>
      OBVIOUS
    <3>2. i <= published
      BY <2>1
    <3>3. Stored(attempt, i)
      BY <2>1, <3>2 DEF StoreInv, AttemptsOK
    <3>4. PICK f \in store : f.id = id
      BY <3>1, <3>3 DEF Stored
    <3>5. f.readable
      BY <2>1 DEF RepositorySound, Loadable, FilesOf, StoreInv, FileTypes, File
    <3> QED
      BY <2>3, <3>4, <3>5, ViewOf
  <2>5. AckedView' = AckedView \union S /\ UNCHANGED StoreView
    BY <2>1 DEF AckedView, StoreView, Ids
  <2> HIDE DEF S
  <2>6. Records!Acknowledge(S)
    BY <2>4, <2>5 DEF Records!Acknowledge, OwnPath
  <2> QED
    BY <2>3, <2>6 DEF Records!Next
<1>5. CASE Spoil
  <2>1. UNCHANGED <<attempt, persisted>>
    BY <1>5 DEF Spoil, clientVars
  <2>2. ASSUME NEW f \in store, NEW g \in SpoiledForms(f), ~g.readable,
               store' = (store \ {f}) \union {g}
        PROVE  [Records!Next]_(Records!vars)
    <3>1. f.id \in (1 .. attempt) \X (1 .. Len(Batch)) /\ g.id = f.id
      BY SpoiledForm DEF File
    <3>2. f.id \in RecordId
      <4>1. attempt \in Nat /\ MaxAttempt \in Nat /\ attempt <= MaxAttempt
        BY ApiAssumption DEF StoreInv, FileTypes, CallerOK
      <4>2. (1 .. attempt) \subseteq (1 .. MaxAttempt)
        BY <4>1
      <4> QED
        BY <3>1, <4>2 DEF RecordId
    <3>3. store' = (store \ {f}) \union {g} /\ ~g.readable
      BY <2>2
    <3>4. \A e \in store : e.id = f.id => e = f
      BY DEF StoreInv, FileTypes
    <3>5. ASSUME NEW d \in RecordId
          PROVE  StoreView'[d] = IF d = f.id THEN BadFile ELSE StoreView[d]
      <4>1. d \in Ids(store') <=> d \in Ids(store)
        BY <3>1, <3>3 DEF Ids
      <4>2. d \in Ids({e \in store' : e.readable})
              <=> d \in Ids({e \in store : e.readable}) /\ d # f.id
        BY <3>1, <3>3, <3>4 DEF Ids
      <4>3. f.id \in Ids(store)
        BY DEF Ids
      <4> QED
        BY <4>1, <4>2, <4>3 DEF StoreView
    <3>6. StoreView' = [StoreView EXCEPT ![f.id] = BadFile]
      BY <3>2, <3>5 DEF StoreView
    <3>7. StoreView[f.id] # NoFile
      BY <3>2, ViewOf
    <3>8. UNCHANGED AckedView
      BY <2>1 DEF AckedView
    <3>9. Records!Decay(f.id)
      BY <3>6, <3>7, <3>8 DEF Records!Decay
    <3> QED
      BY <3>2, <3>9 DEF Records!Next
  <2>3. ASSUME NEW f \in store, NEW g \in SpoiledForms(f), g.readable,
               store' = (store \ {f}) \union {g}
        PROVE  UNCHANGED <<StoreView, AckedView>>
    <3>1. g.id = f.id /\ f.readable
      BY <2>3, SpoiledForm DEF File
    <3>2. /\ Ids(store') = Ids(store)
          /\ Ids({e \in store' : e.readable}) = Ids({e \in store : e.readable})
      BY <2>3, <3>1 DEF Ids
    <3> QED
      BY <2>1, <3>2 DEF StoreView, AckedView
  <2> QED
    BY <1>1, <1>5, <2>1, <2>2, <2>3 DEF Spoil, Records!vars
<1> QED
  BY <1>1, <1>2, <1>3, <1>4, <1>5 DEF ApiNext, apiVars, PersistFails, Begin, Call,
     Exchange, LedgerStep, clientVars, repositoryVars

\* Repeated calls of persist_records(), damage and all else that happens around
\* them implement the store that the transactions below implement when ids are
\* fresh: an acknowledged attempt is readable, and only damage takes it away.
THEOREM ApiImplementsStore == ApiSpec => ImplementsWriteOnceStore
<1>1. ApiInit => Records!Init
  BY DEF ApiInit, Records!Init, StoreView, AckedView, Ids
<1>2. StoreInv /\ StoreInv' /\ CallerOK /\ CallerOK' /\ [ApiNext]_apiVars
        => [Records!Next]_(Records!vars)
  BY RecordsStep
<1> QED
  BY <1>1, <1>2, Invariants, CallerInvariant, PTL
     DEF ApiSpec, ImplementsWriteOnceStore, Records!Spec

-----------------------------------------------------------------------------
(* A call comes to an end.                                                 *)

\* The steps a call of the command line has before it at most, one per type in
\* each of its loops.
CallLeft ==
    LET n == Len(TypeOrder)
    IN  CASE stage = "write" -> 1
          [] stage = "head" -> 2
          [] stage = "traces" -> 3
          [] stage = "hashes" -> n - at + 4
          [] stage = "counts" -> 2 * n - at + 4
          [] stage = "manifest" -> 2 * n + 4
          [] stage = "verify-traces" -> 1
          [] stage = "verify-counts" -> 2
          [] stage = "verify-ledger" -> 3
          [] stage = "verify-records" -> n - at + 4
          [] stage = "environment-traces" -> 2 * n + 5
          [] stage = "environment-counts" -> 2 * n + 6
          [] stage = "sources" -> 2 * n + 7
          [] stage = "configuration" -> 2 * n + 8
          [] OTHER -> 0

\* A call begins with a number of steps that depends on the types alone, each of
\* its steps takes one or more of them away, and nothing that callers, other
\* processes or the environment do meanwhile gives one back.
CallIsBounded ==
    [][/\ CallLeft \in Nat
       /\ \A cmd \in Command : Begin(cmd) => CallLeft' = 2 * Len(TypeOrder) + 8
       /\ Call => CallLeft' < CallLeft
       /\ stage # "idle" => CallLeft' <= CallLeft]_apiVars

\* Going to another place goes to its first position.
LEMMA Moved ==
    ASSUME NEW next, Goto(next)
    PROVE  stage' = next /\ at' = 1
BY DEF Goto

\* Leaving the call.
LEMMA Over ==
    ASSUME NEW code, NEW codes, Finish(code, codes)
    PROVE  CallLeft' = 0
<1>1. stage' = "idle"
  BY DEF Finish
<1> QED
  BY <1>1 DEF CallLeft

\* In a call there is something left.
LEMMA SomethingLeft ==
    ASSUME CallInv, stage # "idle"
    PROVE  CallLeft \in Nat /\ CallLeft > 0
<1>1. at \in 1 .. Len(TypeOrder) /\ Len(TypeOrder) \in Nat
  BY ApiAssumption DEF CallInv, StageOK
<1>2. stage \in {"configuration"} \union EnvironmentStage \union SnapshotStage
                 \union VerifyStage
  BY DEF CallInv, StageOK
<1> DEFINE n == Len(TypeOrder)
<1>3. CASE stage \in {"hashes", "verify-records"}
  <2>1. CallLeft = n - at + 4
    BY <1>3 DEF CallLeft
  <2> QED
    BY <1>1, <2>1
<1>4. CASE stage = "counts"
  <2>1. CallLeft = 2 * n - at + 4
    BY <1>4 DEF CallLeft
  <2> QED
    BY <1>1, <2>1
<1>5. CASE stage \in {"configuration", "manifest"} \union EnvironmentStage
  <2>1. CallLeft \in {2 * n + 8, 2 * n + 4, 2 * n + 7, 2 * n + 6, 2 * n + 5}
    BY <1>5 DEF CallLeft, EnvironmentStage
  <2> QED
    BY <1>1, <2>1
<1>6. CASE stage \in {"traces", "head", "write", "verify-ledger", "verify-counts",
                      "verify-traces"}
  <2>1. CallLeft \in {1, 2, 3}
    BY <1>6 DEF CallLeft
  <2> QED
    BY <2>1
<1> QED
  BY <1>2, <1>3, <1>4, <1>5, <1>6 DEF SnapshotStage, VerifyStage

\* An answer about the environment ends the call or goes on to something shorter.
LEMMA EnvironmentGoesOn ==
    ASSUME CallInv, NEW codes, EnvironmentAnswers(codes)
    PROVE  CallLeft' <= 2 * Len(TypeOrder) + 4 /\ CallLeft' \in Int
<1>1. Len(TypeOrder) \in Nat \ {0}
  BY ApiAssumption
<1>2. CASE stage' = "verify-records" /\ at' = 1
  <2>1. CallLeft' = Len(TypeOrder) - 1 + 4
    BY <1>2 DEF CallLeft
  <2> QED
    BY <1>1, <2>1
<1>3. CASE stage' = "manifest"
  <2>1. CallLeft' = 2 * Len(TypeOrder) + 4
    BY <1>3 DEF CallLeft
  <2> QED
    BY <1>1, <2>1
<1>4. CASE \E code, cs : Finish(code, cs)
  BY <1>1, <1>4, Over
<1> QED
  BY <1>2, <1>3, <1>4, Moved DEF EnvironmentAnswers, Answer

\* One more type of a loop, or the place behind it.
LEMMA LoopGoesOn ==
    ASSUME CallInv, NEW next, Step(next)
    PROVE  \/ at < Len(TypeOrder) /\ at' = at + 1 /\ stage' = stage
           \/ at = Len(TypeOrder) /\ at' = 1 /\ stage' = next
BY ApiAssumption, Moved DEF Step, CallInv, StageOK

\* Each step of a call takes away from what is left of it.
LEMMA CallGoesOn ==
    ASSUME CallInv, Call
    PROVE  CallLeft' < CallLeft
<1> DEFINE n == Len(TypeOrder)
<1>1. n \in Nat \ {0} /\ at \in 1 .. n
  BY ApiAssumption DEF CallInv, StageOK
<1>2. CASE \E code, codes : Finish(code, codes)
  <2>1. stage # "idle"
    BY DEF Call, CallStep, Configure, Interrupt, CheckSources, CheckCounts, CheckTraces,
       ReadManifest, ReadCount, ReadHash, ReadTraceCount, ReadHead, WriteSnapshot,
       VerifyRecords, VerifyLedger, VerifyCounts, VerifyTraces
  <2> QED
    BY <1>2, <2>1, Over, SomethingLeft
<1>3. CASE Configure
  <2>1. CallLeft = 2 * n + 8
    BY <1>3 DEF Configure, CallLeft
  <2>2. CASE stage' = "verify-records" /\ at' = 1
    <3>1. CallLeft' = n - 1 + 4
      BY <2>2 DEF CallLeft
    <3> QED
      BY <1>1, <2>1, <3>1
  <2>3. CASE stage' = "sources"
    <3>1. CallLeft' = 2 * n + 7
      BY <2>3 DEF CallLeft
    <3> QED
      BY <1>1, <2>1, <3>1
  <2> QED
    BY <1>2, <1>3, <2>2, <2>3, Moved DEF Configure, Raise
<1>4. CASE CheckSources
  <2>1. CallLeft = 2 * n + 7
    BY <1>4 DEF CheckSources, CallLeft
  <2>2. CASE stage' = "environment-counts"
    <3>1. CallLeft' = 2 * n + 6
      BY <2>2 DEF CallLeft
    <3> QED
      BY <1>1, <2>1, <3>1
  <2>3. CASE EnvironmentAnswers({"CONFIGURATION-001"})
    BY <1>1, <2>1, <2>3, EnvironmentGoesOn
  <2> QED
    BY <1>4, <2>2, <2>3, Moved DEF CheckSources
<1>5. CASE CheckCounts
  <2>1. CallLeft = 2 * n + 6
    BY <1>5 DEF CheckCounts, CallLeft
  <2>2. CASE stage' = "environment-traces"
    <3>1. CallLeft' = 2 * n + 5
      BY <2>2 DEF CallLeft
    <3> QED
      BY <1>1, <2>1, <3>1
  <2>3. CASE EnvironmentAnswers({"CONFIGURATION-001"})
    BY <1>1, <2>1, <2>3, EnvironmentGoesOn
  <2> QED
    BY <1>5, <2>2, <2>3, Moved DEF CheckCounts
<1>6. CASE CheckTraces
  <2>1. CallLeft = 2 * n + 5
    BY <1>6 DEF CheckTraces, CallLeft
  <2>2. \E codes : EnvironmentAnswers(codes)
    BY <1>6 DEF CheckTraces
  <2> QED
    BY <1>1, <2>1, <2>2, EnvironmentGoesOn
<1>7. CASE ReadManifest
  <2>1. CallLeft = 2 * n + 4
    BY <1>7 DEF ReadManifest, CallLeft
  <2>2. CASE stage' = "counts" /\ at' = 1
    <3>1. CallLeft' = 2 * n - 1 + 4
      BY <2>2 DEF CallLeft
    <3> QED
      BY <1>1, <2>1, <3>1
  <2> QED
    BY <1>2, <1>7, <2>2, Moved DEF ReadManifest, Raise
<1>8. CASE ReadCount
  <2>1. CallLeft = 2 * n - at + 4
    BY <1>8 DEF ReadCount, CallLeft
  <2>2. CASE stage' = "counts" /\ at' = at + 1
    <3>1. CallLeft' = 2 * n - (at + 1) + 4
      BY <2>2 DEF CallLeft
    <3> QED
      BY <1>1, <2>1, <3>1
  <2>3. CASE at = n /\ stage' = "hashes" /\ at' = 1
    <3>1. CallLeft' = n - 1 + 4
      BY <2>3 DEF CallLeft
    <3> QED
      BY <1>1, <2>1, <2>3, <3>1
  <2> QED
    BY <1>2, <1>8, <2>2, <2>3, LoopGoesOn DEF ReadCount, Raise
<1>9. CASE ReadHash
  <2>1. CallLeft = n - at + 4
    BY <1>9 DEF ReadHash, CallLeft
  <2>2. CASE stage' = "hashes" /\ at' = at + 1
    <3>1. CallLeft' = n - (at + 1) + 4
      BY <2>2 DEF CallLeft
    <3> QED
      BY <1>1, <2>1, <3>1
  <2>3. CASE at = n /\ stage' = "traces"
    <3>1. CallLeft' = 3
      BY <2>3 DEF CallLeft
    <3> QED
      BY <1>1, <2>1, <2>3, <3>1
  <2> QED
    BY <1>2, <1>9, <2>2, <2>3, LoopGoesOn DEF ReadHash, Raise
<1>10. CASE ReadTraceCount
  <2>1. CallLeft = 3
    BY <1>10 DEF ReadTraceCount, CallLeft
  <2>2. CASE stage' = "head"
    BY <2>1, <2>2 DEF CallLeft
  <2> QED
    BY <1>2, <1>10, <2>2, Moved DEF ReadTraceCount, Raise
<1>11. CASE ReadHead
  <2>1. CallLeft = 2
    BY <1>11 DEF ReadHead, CallLeft
  <2>2. CASE stage' = "write"
    BY <2>1, <2>2 DEF CallLeft
  <2> QED
    BY <1>2, <1>11, <2>2, Moved DEF ReadHead, Raise
<1>12. CASE VerifyRecords
  <2>1. CallLeft = n - at + 4
    BY <1>12 DEF VerifyRecords, CallLeft
  <2>2. CASE stage' = "verify-records" /\ at' = at + 1
    <3>1. CallLeft' = n - (at + 1) + 4
      BY <2>2 DEF CallLeft
    <3> QED
      BY <1>1, <2>1, <3>1
  <2>3. CASE stage' = "verify-ledger"
    <3>1. CallLeft' = 3
      BY <2>3 DEF CallLeft
    <3> QED
      BY <1>1, <2>1, <3>1
  <2> QED
    BY <1>12, <2>2, <2>3, LoopGoesOn, Moved DEF VerifyRecords
<1>13. CASE VerifyLedger
  <2>1. CallLeft = 3 /\ stage' = "verify-counts"
    BY <1>13, Moved DEF VerifyLedger, CallLeft
  <2> QED
    BY <2>1 DEF CallLeft
<1>14. CASE VerifyCounts
  <2>1. CallLeft = 2
    BY <1>14 DEF VerifyCounts, CallLeft
  <2>2. CASE stage' = "verify-traces"
    BY <2>1, <2>2 DEF CallLeft
  <2> QED
    BY <1>2, <1>14, <2>2, Moved DEF VerifyCounts, Raise, Answer
<1>15. CASE Interrupt \/ WriteSnapshot \/ VerifyTraces
  BY <1>2, <1>15 DEF Interrupt, WriteSnapshot, VerifyTraces, Raise, Answer
<1> QED
  BY <1>3, <1>4, <1>5, <1>6, <1>7, <1>8, <1>9, <1>10, <1>11, <1>12, <1>13, <1>14, <1>15
     DEF Call, CallStep

\* Every call of the command line ends if it is scheduled, whatever is published,
\* appended, damaged or exchanged meanwhile.
THEOREM CallsAreBounded == ApiSpec => CallIsBounded
<1> DEFINE Bounded ==
      /\ CallLeft \in Nat
      /\ \A cmd \in Command : Begin(cmd) => CallLeft' = 2 * Len(TypeOrder) + 8
      /\ Call => CallLeft' < CallLeft
      /\ stage # "idle" => CallLeft' <= CallLeft
<1> DEFINE Measured == CallLeft \in Nat
<1>1. CallInv => Measured
  <2>1. stage = "idle" => CallLeft = 0
    BY DEF CallLeft
  <2> QED
    BY <2>1, SomethingLeft
<1>2. CallInv' => Measured'
  <2> HIDE DEF Measured
  <2> QED
    BY <1>1, PTL
<1>3. CallInv /\ CallInv' /\ [ApiNext]_apiVars => Bounded
  <2> SUFFICES ASSUME CallInv, CallInv', [ApiNext]_apiVars
               PROVE  Bounded
    OBVIOUS
  <2>0. CallLeft \in Nat /\ CallLeft' \in Nat
    BY <1>1, <1>2
  <2>1. ASSUME NEW cmd \in Command, Begin(cmd)
        PROVE  CallLeft' = 2 * Len(TypeOrder) + 8
    <3>1. stage' = "configuration"
      BY <2>1 DEF Begin
    <3> QED
      BY <3>1 DEF CallLeft
  <2>2. Call => CallLeft' < CallLeft
    BY CallGoesOn
  <2>3. ASSUME stage # "idle"
        PROVE  CallLeft' <= CallLeft
    <3>1. CallLeft \in Nat
      BY <2>0
    <3>2. CASE UNCHANGED <<stage, at>>
      <4>1. CallLeft' = CallLeft
        BY <3>2 DEF CallLeft
      <4> QED
        BY <3>1, <4>1
    <3>3. CASE Call
      <4>1. CallLeft' \in Nat
        BY <2>0
      <4> QED
        BY <2>2, <3>1, <3>3, <4>1
    <3> QED
      BY <2>3, <3>2, <3>3 DEF ApiNext, apiVars, callVars, Persist, Publish,
         PersistReturns, PersistFails, Begin, Spoil, Exchange, LedgerStep
  <2> QED
    BY <2>0, <2>1, <2>2, <2>3
<1>4. CallInv /\ CallInv' /\ [ApiNext]_apiVars => [Bounded]_apiVars
  BY <1>3
<1> QED
  BY <1>4, Invariants, PTL DEF ApiSpec, CallIsBounded
==============================================================================
