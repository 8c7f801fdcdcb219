# A TLA+ development of the Morning Star runtime

This directory holds TLA+ models of the Morning Star runtime
(`runtime/src/morning_star`), TLC configurations that check them on small
instances, and TLAPS proofs of their main properties for all instances.

The rest of the repository is text: volumes, registers, architecture papers,
and scripts that inventory and publish them. The text says what the runtime
should do, and that is what several properties and all findings are measured by;
no definition is translated from it.

Paths below are relative to `runtime/src/morning_star/` unless they start with
`src/`.

## 1. The system

The runtime is a library and a command line. A process makes a
`MorningStarRuntimeApi`, which holds one record repository and one trace ledger,
both plain files below configured paths. Nothing is locked: two processes with
one configuration share the files and nothing else. Engines are stateless
classes; whatever they judge is passed in by the caller.

| Component | State it keeps | Operations | Used by |
|---|---|---|---|
| Record repository (`registries/repository.py`, `registries/persistent.py`) | one JSON file per envelope, below a directory per object type | `save`, `load`, `verify_all`, `counts`, `hashes` | transactions, API |
| Transactions (`registries/transaction.py`) | staged envelopes, `_committed`, a staging directory during `commit` | `stage`, `commit` | orchestrator |
| Trace ledger (`registries/persistent_trace.py`, `models/envelopes.py`) | one file with a hash-linked list of envelopes | `append`, `load_envelopes`, `verify`, `head_hash`, `traces` | orchestrator, API |
| State transitions (`engines/transitions.py`, `models/transitions.py`) | none; a table of 17 rules | `evaluate`, `execute` | orchestrator |
| Initiation and participation validation (`engines/initiation.py`, `engines/validation.py`) | none | `decide`, `validate_participation` | orchestrator, callers |
| Interpretation, interpretation and object validation (`engines/interpretation.py`, `engines/validation.py`) | none | `decide`, `validate_interpretation`, `validate_canonical_object` | orchestrator, callers |
| Dependency graph (`engines/dependencies.py`) | local to one call: adjacency, indegrees, queue | `evaluate` | orchestrator |
| Navigation (`engines/navigation.py`) | none; a table of targets and of what each state waits for | `decide` | orchestrator, callers between two transitions |
| API and orchestrator (`api/runtime.py`, `engines/runtime.py`) | references to the above | `persist_records`, `execute_transition`, `generate_snapshot`, `verify_integrity`, ... | command line, callers |
| Snapshot (`models/snapshot.py`) | one file | `write`, `verify` | API |
| Atomic storage (`storage/atomic.py`) | a temporary file during a write | `atomic_write_bytes` | repository, ledger, snapshot |
| Canonical form (`models/serialization.py`, `models/reconstruction.py`, `models/canonical.py`) | none; the fields of ten record types, declared twice | `canonical_dict`, `reconstruct_runtime_object`, constructors | envelopes, repository, ledger |
| Command line (`cli/main.py`, `cli/operational.py`) | none; an exit code | `validate`, `verify`, `snapshot`, `status` | users |
| In-memory registry and ledger (`registries/memory.py`, `registries/trace_ledger.py`) | a dictionary; an envelope chain | `add`, `replace`, `extend`, `append` | library users |
| Configuration, manifest, registries (`config/runtime.py`, `engines/manifest.py`, `engines/registry_ingestion.py`) | none after loading | `load`, `verify_required_sources` | API |

What is hard about them, and what makes them correct:

- **Transactions.** Several processes look at a target and rename over it
  without a lock; a commit may raise or the process may die between two renames;
  a transaction that raised may be committed again, with more envelopes. Correct
  means: an acknowledged record stays, a record never changes, and what an
  interrupted commit leaves is a prefix that the retry recognises.
- **Ledger.** `append` is a read-modify-replace of the whole file. Correct means:
  the chain verifies, it only grows, what an append returned is in it, and an
  edit is noticed as long as a later link that was written still stands.
- **Transitions.** The engine compares a rule with the state the *caller* claims.
  Correct means: the traces of a subject are one path, and no way round leads to
  an active participation.
- **Two engines judging one record.** Initiation and interpretation are decided
  by one engine and validated by another, from separately written checks, at different
  times, from maps whose contents change. Correct means: they agree,
  and it is known exactly which worse grounds give a better answer.
- **Dependency order.** The queue algorithm counts edges while filtering and
  de-duplicating records. Correct means: the order is a topological one and the
  least such, and "valid" and "cyclic" say exactly what they mean.

- **The way in.** Navigation and transitions are two tables that know nothing of one
  another; a caller asks the one and executes the other, with an answer that may be
  stale by then. Correct means: advice is executable exactly while it is not stale,
  every refusal leads on, and who was advised throughout has passed every gate.
- **The API.** Every operation of it reads many files one after the other while
  others publish, append and damage them. Correct means: a snapshot lies between
  what was there at its beginning and at its end, a verification does not miss
  earlier damage, and a caller that retries leaves what it can account for.
- **Files.** A save looks, writes a temporary file, syncs, renames and reads again,
  and may fail or lose power anywhere. Correct means: no reader ever finds half a
  file, and what has returned is there until the power fails at the latest.
- **Reading back.** The canonical form forgets Python types and reconstruction has to
  know them again from a second list of all fields. Correct means: what was stored
  under its own type reads back as it was, and nothing reads back as something else.

`PROJECT.json` lists every component with its status and every hazard with its
line and the properties that would catch it.

## 2. The modules

| Module | Models | Extended by |
|---|---|---|
| `RuntimeTransaction` | `RuntimeTransaction` over `RuntimeRepository` | `MCRuntimeTransaction`, `RuntimeTransactionProofs` |
| `WriteOnceStore` | what clients are promised of the repository (abstract) | instantiated by `RuntimeTransaction` and `RuntimeApi` |
| `TraceLedger` | `PersistentTraceLedger.append` and its file | `RuntimeApi`, `MCTraceLedger`, `TraceLedgerProofs` |
| `AppendOnlyList` | what clients are promised of the ledger (abstract) | instantiated by `TraceLedger` |
| `StateTransitions` | rules, engine, callers, the ledger as one list | `EntryFlow` |
| `EntryFlow` | `NavigationDecisionEngine` composed with `StateTransitions` | `MCEntryFlow`, `StateTransitionsProofs` |
| `Initiation` | `InitiationDecisionEngine`, `validate_participation` | `MCInitiation`, `InitiationProofs` |
| `Interpretation` | `InterpretationAdmissionEngine`, `validate_interpretation`, `validate_canonical_object` | `MCInterpretation`, `InterpretationProofs` |
| `DependencyGraph` | `DependencyGraphEngine.evaluate` | `MCDependencyGraph`, `DependencyGraphProofs` |
| `RuntimeApi` | the API and command line over `TraceLedger` and the repository | `MCRuntimeApi`, `RuntimeApiProofs` |
| `CanonicalForm` | records, canonical form, reconstruction: operators only | `PersistentRegistry` |
| `PersistentRegistry` | `save` and `commit` down to the temporary file, power failures | `MCPersistentRegistry`, `PersistentRegistryProofs` |
| `AtomicFiles` | files that are replaced whole (abstract) | instantiated by `PersistentRegistry` |

The `MC...` modules only give constants their values. The operators whose comment
begins "Mutated form of" are wrong variants of the definition next to them, a
dropped guard or a swapped order; each property is known to fail when the variant
stands in for the definition. No specification uses them.

### RuntimeTransaction

`files` is the repository: a path (object type and envelope id) holds nothing, an
envelope, or a file that `load` refuses. Each process has one transaction object
(`staged`, `committed`) and a place in `commit` (`pc`, `next`, `staging`). The
actions are the code's steps between which another process can act:

| Action | Code |
|---|---|
| `NewTransaction`, `Stage` | the constructor and `stage`, with its refusals as guards |
| `BeginCommit`, `SaveToStaging` | `mkdtemp`, one `save` per envelope; the last one includes `verify_all` of the private directory |
| `TargetAbsent`, `TargetPresent`, `TargetCollision` | `exists()` and, if so, `load` and the comparison of digests |
| `Rename` | `source_path.replace(target_path)`, over whatever is there by then |
| `FinishCommit`, `VerifyFails` | `verify_all` of the repository and the outcome; `finally` is part of each |
| `StorageError` | an `OSError` at any step of `commit` |
| `Crash`, `Damage` | the process dies and starts again; a record file becomes unreadable |

Digests are the envelopes themselves (a SHA-256 digest is taken to be injective).
`acked` is a history variable: the envelopes of all commits that returned.

`WriteOnceStore` is the abstraction: `Put` makes one absent record present,
`Acknowledge` adds stored records to the acknowledged ones, `Decay` is the medium
losing a record. `ImplementsWriteOnceStore` says that `RuntimeTransaction`
implements it with `store <- files`.

### TraceLedger

`ledger` is the file; an entry is an id, a trace, the digest of the entry before
it, and whether its payload still has the digest it names. `Load` is the first
half of `append` up to the list it will write (`updated`), `Replace` the atomic
write, `Return` and `VerifyFails` the second load. `WriteFails` and `Crash` end an
append between them. `Damage` removes an entry, repeats one, or changes one field of
one: its payload together with `payload_hash` (`EditedTrace`), its `prior_envelope_hash`,
which no payload digest covers, to the digest of whatever the file begins with
(`Relinked`), another field (`EditedId`), or anything to something that does not load
(`Broken`). Two edits change an old entry and link the next one to it again: such a
file verifies. `DamageShows` therefore says what a link still vouches for: where a file
that verifies has an entry with a link that was written, everything before it is what
was written. The end of the list, and a tail that was re-linked throughout, are vouched
for by nothing.

A digest is modelled as what it is computed from: the digest of an entry is its
prior digest followed by its own id and trace. The trace of an entry stands for its payload.

`AppendOnlyList` is the abstraction: `Grow` adds one entry that is not in the list yet at
its end, `Confirm` tells a client that the last entry is there, and after an `Edit`
nothing is promised of the contents. `ImplementsAppendOnlyList` says that `TraceLedger`
implements it with `list <- ledger`, `confirmed <- returned`, `edited <- damages > 0`;
with two processes that load the same file it does not (`ledger_lost_append`).

### StateTransitions

`CanonicalTransitions` is the table, `Reasons` the engine's checks, `traces` the
ledger as a list, where one append is one step (its inner steps are
`TraceLedger`'s business). Since the engine takes the prior state from the
request, a caller is what it knows: `known[c][s]`. It learns from its own
executions (`Execute`) and by reading the ledger (`ReadLedger`).
`ExecuteUnreported` is `api/runtime.py:320-335`: the trace is appended, then
`head_hash` or `len` raises, and the caller is told that the transition failed.

### EntryFlow

`Decide` is the navigation engine: the gate of the present state, whether there is a
way on, whether the target is the one asked for, in the order of the early returns.
`Ask` keeps an answer that says `PROCEED` (`advice[c][s]`), `Follow` executes the rule
it points to at any later time, with `Execute` of `StateTransitions`, so that the
answer may have become stale. A caller may also execute a transition it did not ask about
(`ExecuteUnadvised`, `UnreportedUnadvised`), and read the ledger (`ReadTraces`).
Two history variables say what the properties are about: `passed[s]`, the gates that were
resolved when the subject was advised, and `unguided[s]`, whether it took a step of
the way in without advice.

### RuntimeApi

`TraceLedger` is extended, and its `Next` runs as `LedgerStep` beside the calls. The
repository is a set of record files that appear one by one: what `WriteOnceStore` leaves
of it when ids are fresh, with unreadable files, files whose `created_at` has lost its
zone (`zoned`), and directory entries that are no record (`stray`). `load` and
`verify_all` accept a time without zone, `canonical_sha256` and with it `hashes` does
not: `Loadable` and `Hashable` are different things. A version of the architecture may
be `Blank`, which the manifest's loader does not look at and the constructor of
`RuntimeSnapshot` refuses after its last argument has been read (`ReadHead`). One call
of the command line runs at a time; each of its steps is one read of one thing, between
which everything else may happen:

| Stage | Code |
|---|---|
| `Configure` | `RuntimeConfiguration.load` and the constructor of the API, once per call |
| `CheckSources`, `CheckCounts`, `CheckTraces` | `validate_environment` |
| `ReadManifest`, `ReadCount`, `ReadHash`, `ReadTraceCount`, `ReadHead`, `WriteSnapshot` | `generate_snapshot`, after its environment check |
| `VerifyRecords`, `VerifyLedger`, `VerifyCounts`, `VerifyTraces` | `verify_integrity` |

`status` is the first followed by the third. `Finish` is `main`: the exit code, and
`Raise` what it makes of an exception that leaves the API. `Interrupt` is a
`KeyboardInterrupt` at any step, which only `operational.py` handles. `Persist`, `Publish`,
`PersistReturns` and `PersistFails` are a caller of `persist_records` that calls again
when it failed. `Spoil` and `Exchange` are the medium and the people who replace the
configuration, the manifest or a register. `start` and `quiet` are history variables: the records when
the call began, and whether anything has changed since.

### CanonicalForm and PersistentRegistry

`CanonicalForm` has no state. `Declared` is the classes of `models/canonical.py`,
`Reconstructors` the functions of `models/reconstruction.py`, field by field: the two
lists a change of a record type must change together. A value is its Python type and its
spelling, `Canonicalize` keeps the spelling and forgets the type, `ReadBy` is the
conversion each reconstructor applies, `Constructible` the checks of the
constructors and `WellFormed` what they let through: the records the registry is assumed
to be given. So a text that is spelled like a UUID, a time without zone, a metadata
entry that is a tuple, and a record filed under another type are all in the model.

`PersistentRegistry` saves such records. The steps of `save` are `Look`, `Write`,
`Sync`, `Replace` (`os.replace`) and `Verify`; a commit (`route = "staging"`) goes through
the same steps in a directory of its own and then `PublishPresent` or `PublishAbsent`,
`Publish`, `VerifyAll`. `file` is what a reader finds. `lasting` is the set of contents a
power failure may leave under a name: a rename adds to it, because the directory is never
synced, and `Settle` is the directory reaching the disk on its own. A file that was
renamed before it was synced would add `Torn`. `Fail` is an error or a crash at any
step, `PowerFails` ends every process. `AtomicFiles` is what is left of this for whoever
uses it: contents are put whole and fall back to whole contents
(`ImplementsAtomicFiles`, with `value <- file, fallback <- lasting`).

### Initiation and Interpretation

The state is a record and the maps the caller passes along with it; `Decide` runs
the engine and records its answer, the `Change...` actions let each map entry
become anything. So a property of one state covers a decision taken now, and a
property that relates `record.decision` or `status` to the present maps covers a
decision taken at any earlier time. The decision is an `IF` cascade because that
is what the order of the early returns in the code is.

### DependencyGraph

One action per record read (`SkipMissing` for an unknown end, `AddEdge`), one per
queue turn (`Place`), and `StartOrdering` and `Finish` around them. The records are read in any order,
which is more than the code does and is what makes the determinism of the result
a statement. Object ids are numbers; the code compares strings. The queue is
sorted after every insertion and never holds an object twice, so it is a set of
which the least is taken. `relationship_type` is absent because the code never
reads it (see section 6).

## 3. The runs

| Run | Bounds | Distinct states | Shows |
|---|---|---|---|
| `transaction_fresh_ids` | 2 processes, 3 storable envelopes on distinct paths, 1 not storable, 2 per transaction, 1 crash, 1 damage | 530,211 | with ids of their own, concurrent commits keep every promise |
| `transaction_single_writer` | 1 process, 4 envelopes of which 2 compete for a path, 3 per transaction, 1 crash, 1 damage | 72,138 | records of colliding ids are not replaced by one process; every commit ends |
| `transaction_partial` | 1 process, no crash, no damage | violated | a commit of two envelopes that raises after its first rename leaves the first |
| `registry_storage` | 2 callers, 2 ids; one save and one trouble of each record that differs in one field from a plain one of its type, and of one record of each type under each other type; 3 saves and 2 troubles of envelopes that compete for an id or have a wrong digest | 223,155 | no half file, what returned stays, damage is by direct saves only, records read back |
| `ledger_single_writer` | 1 process, 4 appends, 1 crash, 2 edits | 608,519 | what returned is kept, the file implements the append-only list, an edit shows before any link that was written; every append ends |
| `ledger_lost_append` | 2 processes, 2 appends | violated | a concurrent append is lost although both returned |
| `api_concurrent` | 2 processes that append, 1 trace, 2 appends; 2 types, a batch of 2 records, 2 attempts; 4 states of the sources; 1 call of any of 4 commands, interrupted anywhere; 2 damages or exchanges; of attempts, damages and exchanges 2 in all | 1,070,633 | snapshots lie between beginning and end, quiet ones are exact and are written exactly when the system allows one; verification finds damage; retries leave prefixes; the chain verifies in every interleaving |
| `transitions_one_client` | 1 caller, 1 subject, 13 traces, 1 misreported execution; questions for every target of the way in with all gates resolved or all but one | 138,296 | histories are paths, activations are guarded, advice is executable and leads on, the advised have passed every gate |
| `initiation_agreement` | 1 authority, 2 pieces of evidence, 2 uncertainties, 2 roles | 40,770 | the two engines agree; worse grounds promote only where all that blocked is lost, and then provisionally; failures are findings |
| `interpretation_agreement` | 1 authority, provenance, dependency; 2 uncertainties, 4 objects, 6 drafts | 50,400 | admission and validation agree; losses admit only where they hide what blocked or an inadmissible class, and validate nothing |
| `interpretation_class_order` | the same | violated | a missing uncertainty record lets an inadmissible class in |
| `dependency_order` | 4 objects, 15 possible records, up to 4 of them | 69,448 | the order is the least topological one; valid and cyclic are exact |

Why the bounds are enough for their questions. A race over a path needs two processes
and one path; a retry after a partial commit needs two envelopes, a retry that meets its
own files and someone else's three. Envelopes share an id across types because the path,
and not the id, is what must be unique. A damaged file meets a commit at every step with
one damage. Thirteen traces are the eight of the way in and the five of the longest way
back (reconstruction, interpretation, competency, admission, activation). Two
uncertainties (and pieces of evidence) tell "some" from "all". Four objects hold two
disjoint cycles, a cycle with something before and something behind it, and a diamond,
with four records. Two edits of the ledger are one that could hide another. A snapshot
that mixes two states needs one record of each of two types and the other order of
publishing and of reading, which is how the batch and `TypeOrder` are chosen; a stale
one needs an append between `len` and `head_hash`, and a retry that leaves copies needs
a second attempt. A damage comes before, during or after a call, two may hide one
another, and one may come while a caller persists; the calls share no state but the
files, so that one call meets everything two could. A damage beside a second attempt
(`TwoDisturbances`) is left to the proofs, which know no such bound. Reading back is
decided field by field, so records that differ from a plain one in one field meet every
value of every field; `tests/` of the runtime reads back one record of each type.

`MaxStaged`, `MaxCrash`, `MaxDamage`, `MaxAppend`, `MaxTrace`, `MaxUnreported`,
`MaxRecords`, `MaxAttempt`, `MaxTrouble`, `MaxCall` and the `saves` and `trouble` of a
workload are the only bounds; each is in the guard of the action it bounds, and the
theorems hold for every value of them. `TwoDisturbances` of `MCRuntimeApi` is the one
state constraint. Deadlock is not checked where a model stops at a bound or at the end
of a call (`CHECK_DEADLOCK FALSE`); `Initiation` and `Interpretation` never stop, and
there it is checked. Symmetry is used for processes (`transaction_fresh_ids`,
`registry_storage`, `api_concurrent`) and for ids (`initiation_agreement`), with
invariants, action properties and refinements only.

Fairness is assumed of one thing: a process inside `commit` or `append` goes on
(`WF_vars(CommitStep(p))`, `WF_vars(AppendStep(p))`, in `FairSpec`). Both are straight-line code
and one bounded loop without waiting or retrying, so a scheduled thread does go
on. Errors, crashes and damage are not fair, and neither is calling `commit` at
all. `CommitReturns` and `AppendEnds` follow from nothing more.

## 4. What is proved

Every theorem is checked by TLAPS with SMT, Zenon and LS4 alone.

| Module | Theorem | Premise beyond the constants' assumptions |
|---|---|---|
| `RuntimeTransactionProofs` | `TypeCorrect`, `SourcesAreThere`, `CommitsAreBounded` | none |
| `RuntimeTransactionProofs` | `AcknowledgedAreStored`, `PassedAreStored`, `RecordsAreImmutable`, `StoreImplemented` | `[]Apart` |
| `RuntimeTransactionProofs` | `GuardedIsApart` | `FreshIds \/ SingleWriter` |
| `RuntimeTransactionProofs` | `TurnsImplementStore` | `[]TakeTurns` |
| `TraceLedgerProofs` | `TypeCorrect`, `ChainAlwaysIntact`, `EditsShow` | none |
| `TraceLedgerProofs` | `ReturnedAreKept`, `LedgerAppendOnly`, `TurnsImplementList` | `[]TakeTurns` |
| `TraceLedgerProofs` | `SingleTakesTurns` | one process |
| `StateTransitionsProofs` | `TypeCorrect`, `PriorsWereReached`, `FlowImplementsTransitions`, `AdviceStaysExecutable`, `AnswersAlwaysLeadOn` | none |
| `StateTransitionsProofs` | `CurrentCallersKeepPaths`, `CurrentAdvisedHavePassed` | `[][ActOnCurrent]_vars` |
| `StateTransitionsProofs` | `HistoriesArePaths`, `ActivationsAreGuarded`, `AdvisedHavePassed` | `OneCaller` |
| `InitiationProofs` | `TypeCorrect`, `TheEnginesAgree`, `ProvisionalAreUnresolved`, `WorseGrounds`, `FailuresAreFindings` | none |
| `InterpretationProofs` | `TypeCorrect`, `AdmissionsValidate`, `ValidAreReadmitted`, `HiddenFlawsAdmit`, `WorseNeverValidate` | none |
| `DependencyGraphProofs` | `TypeCorrect`, `OrderCorrect`, `ResultSound`, `CyclicAreExact`, `ResultIsDetermined`, `EvaluationEnds` | none |
| `PersistentRegistryProofs` | `TypeCorrect`, `NeverHalfAFile`, `UnreadableWereRefused`, `ReturnedStay`, `RecordsReadBack`, `CanonicalFormDecides`, `SavesReadBack`, `AtomicFilesImplemented` | none |
| `RuntimeApiProofs` | `RetriesLeaveOnlyPrefixes`, `SnapshotsAreBracketed`, `QuietSnapshotsAreExact`, `VerificationsFindDamage`, `SoundSystemsSnapshot`, `ApiImplementsLedger`, `ChainStaysIntact`, `ApiImplementsStore`, `CallsAreBounded` | none |

The premises say what clients have to do, and are where the violated runs begin:

- `Apart`: commits under way at the same time hold no two different envelopes for one
  path. Without it two processes replace each other's records. Fresh ids give it, and so
  does a single process (`GuardedIsApart`); both are what the runs assume.
- `TakeTurns`: one commit, or one append, is under way at a time, of whatever process. That
  is what a lock around the call would give. A crash ends a turn. Without it an append
  is lost.
- `ActOnCurrent`: whoever executes a transition knows the state the ledger has for the
  subject, for example because it has just read the ledger and nobody was quicker. There
  may be any number of callers, and executions reported as failed although they were
  recorded. Without it a history forks. One caller is one way to have it
  while no execution is misreported, which is what `OneCaller` and `unreported = 0` say.

The inductive invariants:

- **`LoopInv`** (transactions, no premise). Where the loops stand (`InLoop`), that a
  transaction stages no id twice (`OwnIds`), and that what the loops still need is in the
  staging directory (`Copied`). It is enough for `TypeOK`, for `SourcesThere` and for counting
  the steps of a commit.
- **`CommitInv`** (transactions that are `Apart`). `AcknowledgedStored` is not inductive:
  the step that acknowledges must know that all envelopes were passed, and a rename
  must know that it replaces nothing. So: what the loops passed is stored (`PassedBy`),
  and at the target of a rename that is due is nothing another commit put there or was
  acknowledged for (`RenameSafe`). That is what another process could break between
  the look and the rename, and what the premise is needed for: only commits that are
  under way matter, because the look has seen what the others left.
- **`ChainInv`** (ledger, any number of processes). The file verifies because
  *every list some process is about to write* verifies (`ListsLoad`), whatever the
  file holds by then. That is also why a lost append cannot be seen in the file.
- **`TurnInv`** (ledger, processes that take turns). Adds that the list a process built
  still extends the file by one entry (`Extends`, `WriterInv`), so that replacing is
  appending, and that ids in the file were drawn before (`IdsDrawn`), so that the entry
  is a new one.
- **`WrittenLoads`** (ledger, any number of processes). `DamageShows` compares the file with
  what was written last. The list that was written verifies, like every list about to be
  written (`ChainInv`). So if both lists verify and an entry of each names the same
  digest, that digest is that of both prefixes before them, and a digest
  determines what it was computed from: the two prefixes have the same length and the
  same entries (`LinksVouch`). No assumption is made on what the edits were.
- **`ReachedInv`**, **`PathsKept`** (transitions). What a caller knows of a subject was
  reached by some trace. If whoever acts knows the present state, each trace starts where
  the one before it of the same subject ended (`Linked`). `Returning`
  ties the present state of a subject to what must still happen before it may be
  active again, and is what makes `ActivationIsGuarded` inductive over histories
  of any length. `PathInv` adds that with one caller what it knows is what the ledger
  says, unless an execution was misreported.
- **`AdviceInv`**, **`GatesPassed`** (entry flow). Advice held is one of the ways the table of
  targets names; and for a subject that is advised throughout, `Needs` says of each
  state which gates must have been passed there, which a reconstruction takes back
  to where the way in is resumed.
- **`ClassInv`** (interpretation). A record admitted without limits is of an
  admissible class: the one thing validation does not look at again.
- **`GraphInv`** (dependencies). The indegree of an object is the number of
  objects before it that are not placed (`DegreeCounts`); the queue is exactly what
  is ready; the placed objects are closed under what precedes them and free of cycles
  (`PlacedClosed`, `PlacedAcyclic`). With the remaining objects all having a positive
  indegree, an incomplete order is a cycle and a complete one is acyclic.
  `FoundOK` adds what the findings say. What is left when the queue is empty is then
  shown to be what lies on a cycle or behind one: in a set in which every object
  has a predecessor of the set one can go back forever, and a finite set of objects
  does not allow that without a cycle (`SupportedHasCycle`). Two lists that each take the
  least ready object agree as far as both go, because what is ready depends on what
  was placed (`OneOrder`): hence `ResultIsDetermined`, with no need to know the order the
  records were read in. `EvalLeft` is what is left of an evaluation.
- **`IInv`** (registry). For every caller where it stands determines what its temporary
  and its staged file hold and that they are synced before a rename (`CallerOK`);
  every file and everything that may be left of it is whole and has a canonical form
  (`FilesOK`); and what returned is in the file or its name is shared (`ReturnedOK`).
  `RecordsReadBack` adds what holds of the form alone: the two lists of fields agree
  type by type (`ListsAgree`), each conversion is the inverse of the canonical form on
  the values of its type (`ReadsField`), and every type has a field that no other type
  has (`OwnFields`), which is why a misfiled record is never read as another one. The
  constructors' checks (`WellFormed`) are assumed of the records saved. With the
  same lemmas the form decides the record (`CanonicalFormDecides`), so that a save that
  finds another's file under its id and compares digests only has found its own record
  (`SavesReadBack`). Lists have at
  most two entries and metadata one: neither conversion looks at more than one entry at
  a time.
- **`StoreInv`**, **`CallInv`** (API). The records published by an attempt are exactly the
  first ones of its batch. During a call the records of its beginning are still
  there (`StartOK`), what was read lies between them and the present ones
  (`ReadOK`), the loop over the types has passed those before `at` and found them
  readable (`VerdictOK`), and as long as the call is quiet what was read is
  what is the case (`QuietRead`, `QuietVerdict`), and what the call has come past was as
  a snapshot needs it (`Passed`): hence a call that is alone comes to its last step
  if, and only if, nothing stands in the way. `CallerOK` says that a caller of
  `persist_records` stops once it has succeeded, and `CallLeft` is what is left of a call.

Refinements proved:

| Implementation | Abstraction | Theorem |
|---|---|---|
| `RuntimeTransaction`, commits apart or in turns | `WriteOnceStore` | `StoreImplemented`, `TurnsImplementStore` |
| `RuntimeApi` | `WriteOnceStore` | `ApiImplementsStore` |
| `RuntimeApi` | `TraceLedger` | `ApiImplementsLedger` |
| `TraceLedger`, appends in turns | `AppendOnlyList` | `TurnsImplementList` |
| `PersistentRegistry` | `AtomicFiles` | `AtomicFilesImplemented` |
| `EntryFlow` | `StateTransitions` | `FlowImplementsTransitions` |

What is proved of `TraceLedger` and of `StateTransitions` without a premise therefore holds
of the modules composed with them; `ChainStaysIntact` says so of the ledger beside
the API.

Only model-checked: `CommitReturns` and `AppendEnds`. Liveness under fairness is out of the
prover's reach; `CommitsAreBounded`, `EvaluationEnds` and `CallsAreBounded` prove its safety
half, that no commit, evaluation or call can take more than a number of its own steps
that is known when it begins. An append takes at most two after loading the file, which
its `pc` shows. The violated properties are model-checked as well.
`ImplementsWriteOnceStore` of `RuntimeApi` is proved only: no run checks it, for
`api_concurrent` would take several times as long. `Determined`, `PathsKept` under
`ActOnCurrent`, and the bounds on steps are no properties of a run either.

## 5. What is assumed and left out

- A digest determines what it was computed from. In `RuntimeTransaction`,
  `TraceLedger` and `RuntimeApi` a stored record reads back as it was;
  `CanonicalForm` says of which records that is true.
- `os.replace` is atomic, and a synced file keeps its contents. That a rename lasts is
  not assumed in `PersistentRegistry`; the others know no power failure.
  Temporary files that a crash leaves have names that nothing reads.
- Ids drawn as UUIDs are fresh (`FreshIds` in the run that says so, and in
  `RuntimeApi`).
- The time at which an authority expires is a status of its record that may change
  at any step.
- One call of the command line runs at a time in `RuntimeApi`. Its calls write
  nothing but the snapshot file, which no other call reads.

Not modelled:

- The in-memory registry and ledger (`registries/memory.py`,
  `registries/trace_ledger.py`): values of one process that nothing of the runtime
  uses; each method is one operation on a dictionary or a list behind one check.
- The failure table (`models/failures.py`): it maps a code to a severity and texts.
  The models answer with the codes.
- Texts that are only handed on: the fields of the configuration and the manifest
  beyond those that decide whether they load, the columns of a register beyond its
  identifiers; parsing of arguments, printing, and the level of logging.
- `RuntimeSnapshot.verify`: it computes a digest again and is called by tests only.
- Scripts that inventory and publish the repository, trials, volumes and registers.

## 6. Where code and text disagree

Shown by a run and listed under `findings`:

- `registries/transaction.py:24` promises an atomic commit of several envelopes;
  a commit of two that raises after its first rename leaves one (`transaction_partial`;
  `AllOrNothing` compares with what was staged when the commit began).
- `registries/persistent_trace.py:1` promises an append-only ledger; concurrent
  appends lose entries (`ledger_lost_append`).
- `src/volumes/VOLUME_IV_INTERPRETATION/INTERPRETATION.md:473` forbids a later stage
  to override an earlier failure; the missing uncertainty record of an inadmissible
  interpretation turns its rejection into an admission
  (`interpretation_class_order`).

Observed while modelling, not (yet) shown by a run:

- `registries/persistent.py:23` promises immutable envelopes. Two commits with one id
  both find no target (`registries/transaction.py:101`) and both rename (`:121`): the
  second replaces the record of the first. Two direct saves of one id do the same.
  The premise of `RecordsAreImmutable`, `Apart`, is what excludes it.
- A file that `load` refuses, and with it `verify_all` and every later commit, can come
  from a direct save only: `save` finds out after it has replaced the file
  (`registries/persistent.py:54`). The constructor takes a digest in lower case and a
  payload that is changed later (`models/envelopes.py:39`).
- After a power failure a record that was acknowledged may be gone: the file is
  synced, its directory is not (`storage/atomic.py:40`).
- `load` does not compare the type and the id in a file with its path, and nothing
  compares the type a record is stored under with the record (`engines/runtime.py:61`):
  a misfiled record is stored, verified and counted, and raises when it is
  reconstructed.
- Metadata with values that are no JSON values (tuples, UUIDs, times) is stored and reads
  back as something else (`models/serialization.py:45`).
- A caller that calls `persist_records` again after a failure stores what the first
  call published a second time: ids are drawn anew (`engines/runtime.py:57`).
- `require_frozen_architecture` makes no difference: the manifest's loader refuses
  what is not frozen, so that the check behind it (`MS-FAIL-ARCHITECTURE-001`) is
  never reached.
- `main` reports every exception that leaves the API as `CONFIGURATION-001` with exit
  code 2, which `ExitCode` (`cli/operational.py:21`) calls an invalid input. The codes
  it has for a wrong configuration (3) and a failed verification (4) are never
  returned: the boundary that knows them surrounds a `main` that catches
  everything. An unreadable record is among those exceptions when a
  snapshot is taken or a directory holds a file that is no record.
- From `UNENCOUNTERED` navigation always answers `PROCEED`, to `ENCOUNTERED`,
  whatever the target is (`engines/navigation.py`).
- A missing dependency record, an inactive authority, an exceeded role and a missing
  evidence record let the API answer `success` false without any failure; the catalogue
  has a code for an inactive authority that is never raised.
- The dispositions of the failure table and of the decisions differ: missing evidence is
  REMEDIATE in one and DEFER in the other, a missing uncertainty RECONSTRUCT in one and
  REMEDIATION_REQUIRED in the other.
- A second caller, or one that was told of a failure after the append, can fork the
  history of a subject: the engine never looks at the ledger
  (`engines/transitions.py:60`). `CurrentCallersKeepPaths` says what callers have to
  see to themselves.
- `src/governance/STATE_TRANSITION_REGISTRY.csv:15` wants, for MS-TR-014, that the authority remains active; the
  engine asks only that some authority id is named.
- A participation validates under an authority that is known but inactive, although
  the finding says "lacks active authority" (`engines/validation.py:307`, `:315`).
  This is why `EnginesAgree` asks for an active authority in its second half.
- A blocking uncertainty invalidates an interpretation that is admissible, but not one
  that is admissible with limits (`engines/validation.py:272`).
- The interpretation engine does not look at the status of its source: a superseded
  object is interpreted like an active one (`engines/interpretation.py:53`).
- A missing uncertainty record admits a participation provisionally
  (`engines/initiation.py:126`), while one that is there and blocks has it remediated
  (`:134`). So taking away the record of what blocked an admission turns
  `REQUIRE_REMEDIATION` into `ADMIT_PROVISIONALLY`, if every record that blocked is gone
  and nothing else is wrong. `OnlyLostBlockersPromote` says that this is the only loss
  or lapse that promotes.
- The same holds of interpretations: a blocking uncertainty has one reconstructed, a
  missing one admits it with uncertainty (`engines/interpretation.py:90-112`). And the
  missing record is answered before the class is, so that losing the record of a
  harmless uncertainty turns the rejection of an inadmissible class into an admission
  (`interpretation_class_order`). `OnlyHiddenFlawsAdmit` says that there is no third case.
- A system that verifies may not be one of which a snapshot can be taken. `hashes`
  computes the digest of each envelope again, which raises for a `created_at` without a
  zone (`models/serialization.py:49`), while `load` and `verify_all` accept it
  (`registries/persistent.py:87`); and a version that is blank passes the manifest's loader
  and is refused by the snapshot (`models/snapshot.py:36`). Both leave the API as an
  exception.
- Removing the last entries of the ledger, editing the last one, or editing any and
  linking all later ones again leaves a file that verifies: the digest of the head is
  kept nowhere but in snapshots, which nothing compares with the ledger
  (`registries/persistent_trace.py:84`).
- `relationship_type` is never read (`engines/dependencies.py:98`). The tests use
  "PRECEDES" in one place and "DEPENDS_ON" in another, and a record of the second
  kind is ordered with the dependent object first.
- `allow_provisional_admission` and `strict_integrity` of the configuration
  (`config/runtime.py:25-26`) are read from the file and used nowhere.

## 7. Plan

Done: the repository and its transactions, the registry down to the temporary file, the
ledger, the API over both, the transitions with navigation, the two pairs of engines,
the dependency graph, and the canonical form, with the refinements and the theorems
above. The ledger of processes that take turns is shown to be the list
`StateTransitions` takes it to be.

What is left, in this order:

1. A weaker premise than `TakeTurns` for `ReturnedKept`: appends that overlap do no harm
   as long as none replaces the file between the load and the replacement of another.
2. `relationship_type` in `DependencyGraph`: the code would have to say first which
   end of each kind of record comes first.
3. The in-memory registry, if something of the runtime comes to use it.
