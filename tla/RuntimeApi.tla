------------------------------ MODULE RuntimeApi ------------------------------
(***************************************************************************)
(* api/runtime.py over the repository and the ledger, called by the        *)
(* command line (cli/main.py): validate_environment(), verify_integrity(), *)
(* generate_snapshot() and status, each of which reads many files one      *)
(* after the other while callers persist records, other processes append   *)
(* traces (TraceLedger), files are damaged and sources are exchanged.  The *)
(* boundary around it (cli/operational.py) answers an interrupt.           *)
(*                                                                         *)
(* The repository is the WriteOnceStore it implements when ids are fresh:  *)
(* commit() makes records appear one by one.  A digest of a registry is    *)
(* the set of the records it was computed from.                            *)
(***************************************************************************)
EXTENDS TraceLedger, FiniteSets

CONSTANTS
    Type,          \* object types
    TypeOrder,     \* the order in which counts(), hashes(), verify_all() visit them
    Batch,         \* the types of the records a caller persists, in order
    Sources,       \* what the configuration, manifest and registers may hold
    FirstSources,  \* what they hold at first
    Command,       \* commands the command line is called with
    MaxAttempt,    \* bound: calls of persist_records()
    MaxTrouble,    \* bound: damages to the repository, the ledger or the sources
    MaxCall        \* bound: calls of the command line

ASSUME ApiAssumption ==
    /\ TypeOrder \in Seq(Type)
    /\ Type = {TypeOrder[i] : i \in 1 .. Len(TypeOrder)}
    /\ TypeOrder # <<>>
    /\ Batch \in Seq(Type)
    /\ FirstSources \in Sources
    /\ \A s \in Sources : s.register.transitions \in Nat
    /\ Command \subseteq {"validate", "verify", "snapshot", "status"}
    /\ MaxAttempt \in Nat /\ MaxTrouble \in Nat /\ MaxCall \in Nat

VARIABLES
    store,       \* record files: [id, type, readable, zoned]
    stray,       \* types whose directory holds a .json file that is no record
    sources,     \* the configuration, the manifest and the transition register
    attempt,     \* calls of persist_records() so far
    published,   \* records the present call has published; Idle outside a call
    persisted,   \* persist_records() has succeeded
    stage,       \* where the command line is; "idle" outside a call
    at,          \* the position in TypeOrder of a loop over the types
    command,     \* the present command
    failures,    \* failure codes of the present or last call
    seen,        \* what generate_snapshot() has read
    snapshot,    \* the snapshot file
    exit,        \* exit code of the last call
    start,       \* history: the store when the call began
    quiet,       \* history: nothing has changed since the call began
    trouble, calls   \* for the bounds

callVars == <<stage, at, command, failures, seen, snapshot, exit, start>>
clientVars == <<attempt, published, persisted>>
repositoryVars == <<store, stray>>
apiVars ==
    <<vars, callVars, clientVars, repositoryVars, sources, trouble, quiet, calls>>

Idle == Len(Batch) + 1

\* A version of the architecture that the RuntimeSnapshot constructor refuses.
Blank == 0
Nothing == [architecture |-> Blank, counts |-> <<>>, hashes |-> <<>>,
            traces |-> 0, head |-> NoDigest]

FilesOf(t) == {f \in store : f.type = t}
Ids(files) == {f.id : f \in files}

\* list_ids() of a type succeeds; each of its records loads; and a digest can be
\* computed of each, which canonical_sha256() refuses for an envelope whose
\* created_at has no zone, though load() accepts it.
Listable(t) == t \notin stray
Loadable(t) == Listable(t) /\ \A f \in FilesOf(t) : f.readable
Hashable(t) == Loadable(t) /\ \A f \in FilesOf(t) : f.zoned
RepositorySound == \A t \in Type : Loadable(t)

\* What can be wrong with the sources that the loaders refuse: of the
\* configuration, that the repository it names is no directory and none can be
\* made there.
ConfigurationFault ==
    {"missing", "json", "root", "fields", "path", "identity", "directory"}
ManifestFault == {"missing", "json", "fields", "identity", "status", "volumes", "hash", "count"}
RegisterFault == {"missing", "header", "empty", "blank", "duplicate"}

\* RuntimeConfiguration.load() and the constructor of the API.
ConfigurationLoads(s) == s.configuration.faults \intersect ConfigurationFault = {}

\* ArchitectureManifest.load(): a manifest that is not frozen is among those it
\* refuses, so that require_frozen_architecture makes no difference later.
ManifestLoads(s) == s.manifest.faults \intersect ManifestFault = {}

\* verify_required_sources() and the loaders of validate_environment().
Usable(s) == ManifestLoads(s) /\ s.register.faults \intersect RegisterFault = {}

\* What validate_environment() reports of usable sources.
SourceFailures(s) ==
    IF s.register.transitions = 17 THEN {} ELSE {"CONFORMANCE-001"}

ApiInit ==
    /\ Init
    /\ store = {} /\ stray = {}
    /\ sources = FirstSources
    /\ attempt = 0 /\ published = Idle /\ persisted = FALSE
    /\ stage = "idle" /\ at = 1 /\ command = "none" /\ failures = {}
    /\ seen = Nothing /\ snapshot = Nothing /\ exit = 0 /\ start = {}
    /\ quiet = TRUE /\ trouble = 0 /\ calls = 0

-----------------------------------------------------------------------------
(* A caller of persist_records() that tries again after a failure.         *)

\* Whatever changes during a call of the command line disturbs it.
Disturb == quiet' = (stage = "idle")

\* persist_records() makes a new transaction with new envelope ids.
Persist ==
    /\ published = Idle
    /\ ~persisted
    /\ attempt < MaxAttempt
    /\ attempt' = attempt + 1
    /\ published' = 0
    /\ UNCHANGED <<vars, callVars, persisted, repositoryVars, sources, trouble, quiet, calls>>

\* Mutated form of NewFile: the last record is published first.
NewFileLast ==
    [id |-> <<attempt, Len(Batch) - published>>,
     type |-> Batch[Len(Batch) - published], readable |-> TRUE, zoned |-> TRUE]

\* The next record of the transaction: an id no other attempt has drawn.
NewFile ==
    [id |-> <<attempt, published + 1>>, type |-> Batch[published + 1],
     readable |-> TRUE, zoned |-> TRUE]

\* commit() renames the next record into the repository.
Publish ==
    /\ published < Len(Batch)
    /\ store' = store \union {NewFile}
    /\ published' = published + 1
    /\ Disturb
    /\ UNCHANGED <<vars, callVars, attempt, persisted, stray, sources, trouble, calls>>

\* verify_all() finds every record of the repository readable.
PersistReturns ==
    /\ published = Len(Batch)
    /\ RepositorySound
    /\ persisted' = TRUE
    /\ published' = Idle
    /\ UNCHANGED <<vars, callVars, attempt, repositoryVars, sources, trouble, quiet, calls>>

\* A step of commit() raises: what was published stays, the caller is told that
\* nothing was persisted and may call again.  Also a crash of the caller.
PersistFails ==
    /\ published # Idle
    /\ published' = Idle
    /\ UNCHANGED <<vars, callVars, attempt, persisted, repositoryVars, sources, trouble, quiet, calls>>

-----------------------------------------------------------------------------
(* The command line.                                                       *)

Begin(cmd) ==
    /\ stage = "idle"
    /\ calls < MaxCall
    /\ calls' = calls + 1
    /\ command' = cmd
    /\ stage' = "configuration"
    /\ at' = 1
    /\ failures' = {}
    /\ start' = store
    /\ UNCHANGED <<vars, seen, snapshot, exit, clientVars, repositoryVars, sources, trouble, quiet>>

Goto(next) ==
    /\ stage' = next
    /\ at' = 1
    /\ UNCHANGED <<command, snapshot, exit, start, quiet>>

\* One more type of a loop, or what comes after it.
Step(next) ==
    IF at < Len(TypeOrder)
    THEN at' = at + 1 /\ UNCHANGED <<stage, command, snapshot, exit, start, quiet>>
    ELSE Goto(next)

\* The call is over.  main() maps its result to an exit code; what a call
\* read is forgotten.
Finish(code, codes) ==
    /\ exit' = code
    /\ failures' = codes
    /\ stage' = "idle"
    /\ at' = 1
    /\ seen' = Nothing
    /\ start' = {}
    /\ quiet' = TRUE
    /\ command' = "none"

Answer(codes) ==
    /\ Finish(IF codes = {} THEN 0 ELSE 1, codes)
    /\ UNCHANGED snapshot

\* An exception leaves the API: main() reports it as a wrong configuration.
Raise == Finish(2, {"CONFIGURATION-001"}) /\ UNCHANGED snapshot

\* The configuration is read once; a change of it does not concern this call.
Configure ==
    /\ stage = "configuration"
    /\ IF ConfigurationLoads(sources)
       THEN /\ Goto(IF command = "verify" THEN "verify-records" ELSE "sources")
            /\ UNCHANGED <<failures, seen>>
       ELSE Raise

\* The user interrupts the call: no handler of the API or of main() takes a
\* KeyboardInterrupt, the one around them does.  It may come before or after
\* the snapshot file has been replaced.
Interrupt ==
    /\ stage # "idle"
    /\ Finish(130, {})
    /\ \/ UNCHANGED snapshot
       \/ stage = "write" /\ snapshot' = seen

\* validate_environment() has its result.
EnvironmentAnswers(codes) ==
    IF command = "status"
    THEN Goto("verify-records") /\ failures' = codes /\ UNCHANGED seen
    ELSE IF command = "snapshot" /\ codes = {}
    THEN Goto("manifest") /\ UNCHANGED <<failures, seen>>
    ELSE Answer(codes)

\* The sources are read and checked; any exception is one failure.
CheckSources ==
    /\ stage = "sources"
    /\ IF Usable(sources)
       THEN /\ Goto("environment-counts")
            /\ failures' = SourceFailures(sources)
            /\ UNCHANGED seen
       ELSE EnvironmentAnswers({"CONFIGURATION-001"})

CheckCounts ==
    /\ stage = "environment-counts"
    /\ IF \A t \in Type : Listable(t)
       THEN Goto("environment-traces") /\ UNCHANGED <<failures, seen>>
       ELSE EnvironmentAnswers({"CONFIGURATION-001"})

CheckTraces ==
    /\ stage = "environment-traces"
    /\ EnvironmentAnswers(IF Loads(ledger) THEN failures ELSE {"CONFIGURATION-001"})

\* generate_snapshot() reads the manifest again.
ReadManifest ==
    /\ stage = "manifest"
    /\ IF ManifestLoads(sources)
       THEN /\ Goto("counts")
            /\ seen' = [seen EXCEPT !.architecture = sources.manifest.version]
            /\ UNCHANGED failures
       ELSE Raise

\* counts(): the number of files of each type.
ReadCount ==
    /\ stage = "counts"
    /\ LET t == TypeOrder[at]
       IN  IF Listable(t)
           THEN /\ Step("hashes")
                /\ seen' = [seen EXCEPT !.counts = Append(@, Cardinality(FilesOf(t)))]
                /\ UNCHANGED failures
           ELSE Raise

\* Mutated form of ReadHash: the last record of a type is left out.
ReadHashShort ==
    /\ stage = "hashes"
    /\ LET t == TypeOrder[at]
       IN  IF Hashable(t)
           THEN /\ Step("traces")
                /\ seen' = [seen EXCEPT !.hashes =
                     Append(@, {id \in Ids(FilesOf(t)) : id[2] < Len(Batch)})]
                /\ UNCHANGED failures
           ELSE Raise

\* Mutated form of ReadHash: the records loaded when the call began.
ReadHashCached ==
    /\ stage = "hashes"
    /\ LET t == TypeOrder[at]
       IN  IF Hashable(t)
           THEN /\ Step("traces")
                /\ seen' = [seen EXCEPT !.hashes =
                     Append(@, Ids({f \in start : f.type = t}))]
                /\ UNCHANGED failures
           ELSE Raise

\* hashes(): the digest of all envelopes of each type, every one loaded again.
ReadHash ==
    /\ stage = "hashes"
    /\ LET t == TypeOrder[at]
       IN  IF Hashable(t)
           THEN /\ Step("traces")
                /\ seen' = [seen EXCEPT !.hashes = Append(@, Ids(FilesOf(t)))]
                /\ UNCHANGED failures
           ELSE Raise

ReadTraceCount ==
    /\ stage = "traces"
    /\ IF Loads(ledger)
       THEN /\ Goto("head")
            /\ seen' = [seen EXCEPT !.traces = Len(ledger)]
            /\ UNCHANGED failures
       ELSE Raise

\* Mutated form of ReadHead: the last entry is taken of an empty ledger too.
ReadHeadOfNone ==
    /\ stage = "head"
    /\ IF Loads(ledger) /\ ledger # <<>> /\ seen.architecture # Blank
       THEN /\ Goto("write")
            /\ seen' = [seen EXCEPT !.head = HeadHash(ledger)]
            /\ UNCHANGED failures
       ELSE Raise

\* The head of the ledger is the last argument of the RuntimeSnapshot, whose
\* constructor then checks the version that no loader has looked at.
ReadHead ==
    /\ stage = "head"
    /\ IF Loads(ledger) /\ seen.architecture # Blank
       THEN /\ Goto("write")
            /\ seen' = [seen EXCEPT !.head = HeadHash(ledger)]
            /\ UNCHANGED failures
       ELSE Raise

\* write() replaces the snapshot file, or fails and leaves it.
WriteSnapshot ==
    /\ stage = "write"
    /\ \/ Finish(0, {}) /\ snapshot' = seen
       \/ Raise

\* Mutated form of VerifyRecords: the first type is passed over.
VerifyRecordsFromSecond ==
    /\ stage = "verify-records"
    /\ IF at = 1 \/ Loadable(TypeOrder[at])
       THEN Step("verify-ledger") /\ UNCHANGED <<failures, seen>>
       ELSE /\ Goto("verify-ledger")
            /\ failures' = failures \union {"INTEGRITY-001"}
            /\ UNCHANGED seen

\* verify_integrity(): verify_all() stops at the first type that does not load.
VerifyRecords ==
    /\ stage = "verify-records"
    /\ IF Loadable(TypeOrder[at])
       THEN Step("verify-ledger") /\ UNCHANGED <<failures, seen>>
       ELSE /\ Goto("verify-ledger")
            /\ failures' = failures \union {"INTEGRITY-001"}
            /\ UNCHANGED seen

VerifyLedger ==
    /\ stage = "verify-ledger"
    /\ Goto("verify-counts")
    /\ failures' = failures \union (IF Loads(ledger) THEN {} ELSE {"INTEGRITY-002"})
    /\ UNCHANGED seen

\* The counts are read for the answer, outside of the try statements, and
\* the number of traces if the ledger was valid.
VerifyCounts ==
    /\ stage = "verify-counts"
    /\ IF \E t \in Type : ~Listable(t) THEN Raise
       ELSE IF "INTEGRITY-002" \in failures THEN Answer(failures)
       ELSE Goto("verify-traces") /\ UNCHANGED <<failures, seen>>

VerifyTraces ==
    /\ stage = "verify-traces"
    /\ IF Loads(ledger) THEN Answer(failures) ELSE Raise

CallStep ==
    \/ Configure \/ Interrupt
    \/ CheckSources \/ CheckCounts \/ CheckTraces
    \/ ReadManifest \/ ReadCount \/ ReadHash
    \/ ReadTraceCount \/ ReadHead \/ WriteSnapshot
    \/ VerifyRecords \/ VerifyLedger \/ VerifyCounts \/ VerifyTraces

Call ==
    /\ CallStep
    /\ UNCHANGED <<vars, clientVars, repositoryVars, sources, trouble, calls>>

-----------------------------------------------------------------------------
(* The environment.                                                        *)

\* What damage makes of a record file.
SpoiledForms(f) == {[f EXCEPT !.readable = FALSE], [f EXCEPT !.zoned = FALSE]}

\* A record file becomes unreadable or loses the zone of its created_at, or a
\* file that is no record appears.
Spoil ==
    /\ trouble < MaxTrouble
    /\ trouble' = trouble + 1
    /\ \/ \E f \in store : \E g \in SpoiledForms(f) :
            /\ store' = (store \ {f}) \union {g}
            /\ UNCHANGED stray
       \/ \E t \in Type : stray' = stray \union {t} /\ UNCHANGED store
    /\ Disturb
    /\ UNCHANGED <<vars, callVars, clientVars, sources, calls>>

\* The configuration, the manifest or a register is exchanged.
Exchange ==
    /\ trouble < MaxTrouble
    /\ trouble' = trouble + 1
    /\ sources' \in Sources \ {sources}
    /\ Disturb
    /\ UNCHANGED <<vars, callVars, clientVars, repositoryVars, calls>>

\* Another process appends a trace, or the ledger is edited.
LedgerStep ==
    /\ Next
    /\ trouble' = trouble + (damages' - damages)
    /\ trouble' <= MaxTrouble
    /\ IF ledger' = ledger THEN UNCHANGED quiet ELSE Disturb
    /\ UNCHANGED <<callVars, clientVars, repositoryVars, sources, calls>>

ApiNext ==
    \/ Persist \/ Publish \/ PersistReturns \/ PersistFails
    \/ \E cmd \in Command : Begin(cmd)
    \/ Call
    \/ Spoil
    \/ Exchange
    \/ LedgerStep

ApiSpec == ApiInit /\ [][ApiNext]_apiVars

-----------------------------------------------------------------------------
(* Properties.                                                             *)

Position(t) == CHOOSE i \in 1 .. Len(TypeOrder) : TypeOrder[i] = t
Written == stage = "write" /\ snapshot' = seen /\ stage' = "idle"

\* A snapshot written while nothing else happened is the state of the system:
\* the count and the records of every type, the length and the head of the
\* ledger, and the architecture.
QuietSnapshotIsExact ==
    [][Written /\ quiet =>
         /\ snapshot'.architecture = sources.manifest.version
         /\ \A t \in Type :
              /\ snapshot'.counts[Position(t)] = Cardinality(FilesOf(t))
              /\ snapshot'.hashes[Position(t)] = Ids(FilesOf(t))
         /\ snapshot'.traces = Len(ledger)
         /\ snapshot'.head = HeadHash(ledger)]_apiVars

\* A snapshot written while others work may be of a state that never was, but
\* it misses no record that was stored when the call began, invents none, and
\* never counts a record it does not hash.
SnapshotIsBracketed ==
    [][Written => \A t \in Type :
         LET hashed == snapshot'.hashes[Position(t)]
             before == {f.id : f \in {g \in start : g.type = t}}
         IN  /\ before \subseteq hashed
             /\ hashed \subseteq Ids(FilesOf(t))
             /\ Cardinality(before) <= snapshot'.counts[Position(t)]
             /\ snapshot'.counts[Position(t)] <= Cardinality(hashed)]_apiVars

Ended(cmds) == stage # "idle" /\ stage' = "idle" /\ command \in cmds

\* What was damaged before a verification is found by it, whatever is published
\* or appended meanwhile; and a quiet verification answers what is the case,
\* unless a file that is no record or the configuration makes it raise.
VerificationFindsDamage ==
    [][Ended({"verify", "status"}) =>
         /\ exit' = 0 => \A f \in start : f.readable
         /\ (quiet /\ exit' \in {0, 1} /\ command = "verify") =>
              (exit' = 0 <=> RepositorySound /\ Loads(ledger))
         /\ (quiet /\ exit' = 2) =>
              stray # {} \/ ~ConfigurationLoads(sources)]_apiVars

\* What a snapshot needs.  A verification asks for less of the records and for
\* nothing of the sources but the configuration.
Snapshotable ==
    /\ ConfigurationLoads(sources) /\ Usable(sources)
    /\ SourceFailures(sources) = {}
    /\ \A t \in Type : Hashable(t)
    /\ Loads(ledger)
    /\ sources.manifest.version # Blank

\* A call for a snapshot that is alone and not interrupted gets as far as writing
\* it exactly when the system allows one, wherever in its many reads the first
\* thing wrong turns up.  And the file changes only to what was read to the end,
\* in a call that reports success or is interrupted.
SoundSystemSnapshots ==
    [][Ended({"snapshot"}) =>
         /\ quiet /\ exit' # 130 => (stage = "write" <=> Snapshotable)
         /\ snapshot' # snapshot => Written /\ exit' \in {0, 130}]_apiVars

Copies(i) == Cardinality({f \in store : f.id[2] = i})

\* What a caller leaves that tries again after each failure: when it succeeded
\* every record is stored, none more often than it called, and what failed
\* attempts left are prefixes of the batch.
RetriesLeavePrefixes ==
    /\ persisted => \A i \in 1 .. Len(Batch) : Copies(i) > 0
    /\ \A i \in 1 .. Len(Batch) : Copies(i) <= attempt
    /\ \A a \in 1 .. attempt, i \in 1 .. Len(Batch) :
         <<a, i>> \in Ids(store) => \A j \in 1 .. i : <<a, j>> \in Ids(store)

\* The files as clients of the repository see them, each under its id.
RecordId == (1 .. MaxAttempt) \X (1 .. Len(Batch))
NoFile == <<>>
BadFile == <<0>>
OwnPath(id) == id
StoreView ==
    [id \in RecordId |->
       IF id \notin Ids(store) THEN NoFile
       ELSE IF id \in Ids({f \in store : f.readable}) THEN id ELSE BadFile]
AckedView ==
    IF persisted THEN {<<attempt, i>> : i \in 1 .. Len(Batch)} ELSE {}

\* What repeated calls of persist_records() and damage do to the repository is
\* what its transactions promise: each record appears once and never changes,
\* and the call that returns acknowledges a whole attempt that is readable.
Records == INSTANCE WriteOnceStore WITH
    Path <- RecordId, Envelope <- RecordId, PathOf <- OwnPath,
    Absent <- NoFile, Damaged <- BadFile, store <- StoreView, acked <- AckedView
ImplementsWriteOnceStore == Records!Spec
=============================================================================
