------------------------- MODULE RuntimeTransaction -------------------------
(***************************************************************************)
(* registries/transaction.py over registries/repository.py: processes that *)
(* stage envelopes and commit them into one shared repository directory.   *)
(* Nothing locks the directory.  A commit copies the envelopes to a        *)
(* private staging directory, verifies it, then looks at and renames one   *)
(* envelope after the other, and last re-reads the whole repository.       *)
(*                                                                         *)
(* Two envelopes with one SHA-256 digest are the same envelope, so the     *)
(* digests the code compares are modelled as the envelopes themselves.     *)
(***************************************************************************)
EXTENDS Naturals, Sequences, FiniteSets

CONSTANTS
    Process,        \* processes that hold a RuntimeTransaction
    SupportedType,  \* keys of OBJECT_TYPE_DIRECTORIES
    OtherType,      \* object types the repository has no directory for
    EnvelopeId,     \* UUIDs
    Body,           \* everything else an envelope holds
    Envelope,       \* the envelopes clients may stage
    Absent,         \* no file at a path
    Damaged,        \* a file that load() refuses
    MaxStaged,      \* bound: envelopes in one transaction
    MaxCrash,       \* bound: crashes
    MaxDamage       \* bound: damaged files

ASSUME EnvelopeAssumption ==
    /\ Envelope \subseteq
         [type : SupportedType \union OtherType, id : EnvelopeId, body : Body]
    /\ Absent \notin Envelope
    /\ Damaged \notin Envelope
    /\ Absent # Damaged
    /\ SupportedType \intersect OtherType = {}

ASSUME BoundAssumption ==
    /\ MaxStaged \in Nat
    /\ MaxCrash \in Nat
    /\ MaxDamage \in Nat

VARIABLES
    files,      \* the repository: path -> Absent, Damaged or an envelope
    staged,     \* _envelopes of the process's current transaction
    committed,  \* its _committed
    pc,         \* where the process is in commit()
    next,       \* the envelope its current loop is at
    staging,    \* files in its staging directory, there during commit()
    orphans,    \* staging directories that crashed commits left behind
    acked,      \* history: envelopes of every commit that returned
    crashes,    \* crashes so far, for the bound
    damages     \* damaged files so far, for the bound

txnVars == <<staged, committed, pc, next, staging>>
boundVars == <<crashes, damages>>
vars == <<files, txnVars, orphans, acked, boundVars>>

\* Mutated form of PathOf: the record's type is not part of its path.
FlatPathOf(e) == <<CHOOSE type \in SupportedType : TRUE, e.id>>

Path == SupportedType \X EnvelopeId
PathOf(e) == <<e.type, e.id>>

\* The envelopes the repository has a directory for.
Storable == {e \in Envelope : e.type \in SupportedType}

Staged(p) == {staged[p][i] : i \in 1 .. Len(staged[p])}
Current(p) == staged[p][next[p]]

Init ==
    /\ files = [path \in Path |-> Absent]
    /\ staged = [p \in Process |-> <<>>]
    /\ committed = [p \in Process |-> FALSE]
    /\ pc = [p \in Process |-> "open"]
    /\ next = [p \in Process |-> 1]
    /\ staging = [p \in Process |-> {}]
    /\ orphans = 0
    /\ acked = {}
    /\ crashes = 0
    /\ damages = 0

-----------------------------------------------------------------------------
(* The client's calls outside commit().                                    *)

\* RuntimeTransaction(repository): the old transaction object is dropped.
NewTransaction(p) ==
    /\ pc[p] = "open"
    /\ staged' = [staged EXCEPT ![p] = <<>>]
    /\ committed' = [committed EXCEPT ![p] = FALSE]
    /\ UNCHANGED <<files, pc, next, staging, orphans, acked, boundVars>>

\* Mutated form of Stage: the object type is not looked at.
StageAnyType(p, e) ==
    /\ pc[p] = "open"
    /\ ~committed[p]
    /\ \A d \in Staged(p) : d.id # e.id
    /\ Len(staged[p]) < MaxStaged
    /\ staged' = [staged EXCEPT ![p] = Append(@, e)]
    /\ UNCHANGED <<files, committed, pc, next, staging, orphans, acked,
                   boundVars>>

\* stage(): refused after commit, for a type without a directory, and for an
\* id that is staged already, whatever its type.  A refusal changes nothing.
Stage(p, e) ==
    /\ pc[p] = "open"
    /\ ~committed[p]
    /\ e \in Storable
    /\ \A d \in Staged(p) : d.id # e.id
    /\ Len(staged[p]) < MaxStaged
    /\ staged' = [staged EXCEPT ![p] = Append(@, e)]
    /\ UNCHANGED <<files, committed, pc, next, staging, orphans, acked,
                   boundVars>>

-----------------------------------------------------------------------------
(* The steps of commit().                                                  *)

\* Refused when committed or empty; otherwise makes the staging directory.
BeginCommit(p) ==
    /\ pc[p] = "open"
    /\ ~committed[p]
    /\ staged[p] # <<>>
    /\ pc' = [pc EXCEPT ![p] = "staging"]
    /\ next' = [next EXCEPT ![p] = 1]
    /\ staging' = [staging EXCEPT ![p] = {}]
    /\ UNCHANGED <<files, staged, committed, orphans, acked, boundVars>>

\* staged_repository.save() of one envelope.  After the last one the staging
\* directory is verified, which nobody else writes to.
SaveToStaging(p) ==
    /\ pc[p] = "staging"
    /\ staging' = [staging EXCEPT ![p] = @ \union {Current(p)}]
    /\ IF next[p] < Len(staged[p])
       THEN /\ next' = [next EXCEPT ![p] = @ + 1]
            /\ UNCHANGED pc
       ELSE /\ next' = [next EXCEPT ![p] = 1]
            /\ pc' = [pc EXCEPT ![p] = "checking"]
    /\ UNCHANGED <<files, staged, committed, orphans, acked, boundVars>>

\* Mutated form of Advance: the loop stops before the last envelope.
AdvanceShort(p) ==
    /\ next' = [next EXCEPT ![p] = @ + 1]
    /\ pc' = [pc EXCEPT ![p] =
                IF next[p] + 1 < Len(staged[p]) THEN "checking" ELSE "verifying"]

\* The loop moves to the next envelope, or on to repository.verify_all().
Advance(p) ==
    /\ next' = [next EXCEPT ![p] = @ + 1]
    /\ pc' = [pc EXCEPT ![p] =
                IF next[p] < Len(staged[p]) THEN "checking" ELSE "verifying"]

\* An exception leaves commit(): finally removes the staging directory, the
\* transaction keeps its envelopes and may be committed again.
Raise(p) ==
    /\ pc' = [pc EXCEPT ![p] = "open"]
    /\ next' = [next EXCEPT ![p] = 1]
    /\ staging' = [staging EXCEPT ![p] = {}]
    /\ UNCHANGED <<files, staged, committed, orphans, acked, boundVars>>

\* Mutated form of TargetAbsent: the target is not looked at.
TargetIgnored(p) ==
    /\ pc[p] = "checking"
    /\ pc' = [pc EXCEPT ![p] = "renaming"]
    /\ UNCHANGED <<files, staged, committed, next, staging, orphans, acked,
                   boundVars>>

\* target_path.exists() is false: the rename is the next step, and anything
\* may happen before it.
TargetAbsent(p) ==
    /\ pc[p] = "checking"
    /\ files[PathOf(Current(p))] = Absent
    /\ pc' = [pc EXCEPT ![p] = "renaming"]
    /\ UNCHANGED <<files, staged, committed, next, staging, orphans, acked,
                   boundVars>>

\* Mutated form of TargetPresent: any envelope at the target will do.
TargetPresentAny(p) ==
    /\ pc[p] = "checking"
    /\ files[PathOf(Current(p))] \in Storable
    /\ Advance(p)
    /\ UNCHANGED <<files, staged, committed, staging, orphans, acked,
                   boundVars>>

\* Mutated form of TargetPresent: the loop does not move on.
TargetPresentStay(p) ==
    /\ pc[p] = "checking"
    /\ files[PathOf(Current(p))] = Current(p)
    /\ UNCHANGED vars

\* The target exists with the same envelope: counted as committed, skipped.
TargetPresent(p) ==
    /\ pc[p] = "checking"
    /\ files[PathOf(Current(p))] = Current(p)
    /\ Advance(p)
    /\ UNCHANGED <<files, staged, committed, staging, orphans, acked,
                   boundVars>>

\* The target holds another envelope, or does not load.
TargetCollision(p) ==
    /\ pc[p] = "checking"
    /\ files[PathOf(Current(p))] \notin {Absent, Current(p)}
    /\ Raise(p)

\* source_path.replace(target_path): a rename, over whatever is there now.
Rename(p) ==
    /\ pc[p] = "renaming"
    /\ Current(p) \in staging[p]
    /\ files' = [files EXCEPT ![PathOf(Current(p))] = Current(p)]
    /\ staging' = [staging EXCEPT ![p] = @ \ {Current(p)}]
    /\ Advance(p)
    /\ UNCHANGED <<staged, committed, orphans, acked, boundVars>>

AllReadable == \A path \in Path : files[path] # Damaged

\* repository.verify_all() loads every record of the repository; then the
\* transaction is committed and the staging directory removed.
FinishCommit(p) ==
    /\ pc[p] = "verifying"
    /\ AllReadable
    /\ committed' = [committed EXCEPT ![p] = TRUE]
    /\ acked' = acked \union Staged(p)
    /\ pc' = [pc EXCEPT ![p] = "open"]
    /\ next' = [next EXCEPT ![p] = 1]
    /\ staging' = [staging EXCEPT ![p] = {}]
    /\ UNCHANGED <<files, staged, orphans, boundVars>>

\* verify_all() meets a record that does not load: everything is published
\* and commit() raises all the same.
VerifyFails(p) ==
    /\ pc[p] = "verifying"
    /\ ~AllReadable
    /\ Raise(p)

\* An OSError (disk full, permission, ...) in any step after mkdtemp.
StorageError(p) ==
    /\ pc[p] # "open"
    /\ Raise(p)

-----------------------------------------------------------------------------
(* The environment.                                                        *)

\* The process dies: its transaction object is lost, no finally runs, and a
\* staging directory stays on disk.  The process starts again.
Crash(p) ==
    /\ crashes < MaxCrash
    /\ crashes' = crashes + 1
    /\ staged' = [staged EXCEPT ![p] = <<>>]
    /\ committed' = [committed EXCEPT ![p] = FALSE]
    /\ pc' = [pc EXCEPT ![p] = "open"]
    /\ next' = [next EXCEPT ![p] = 1]
    /\ staging' = [staging EXCEPT ![p] = {}]
    /\ orphans' = IF pc[p] = "open" THEN orphans ELSE orphans + 1
    /\ UNCHANGED <<files, acked, damages>>

\* A record file is damaged so that load() raises RegistryCorruptionError.
Damage(path) ==
    /\ damages < MaxDamage
    /\ files[path] \in Storable
    /\ damages' = damages + 1
    /\ files' = [files EXCEPT ![path] = Damaged]
    /\ UNCHANGED <<txnVars, orphans, acked, crashes>>

CommitStep(p) ==
    \/ SaveToStaging(p)
    \/ TargetAbsent(p)
    \/ TargetPresent(p)
    \/ TargetCollision(p)
    \/ Rename(p)
    \/ FinishCommit(p)
    \/ VerifyFails(p)

Next ==
    \/ \E p \in Process :
         \/ NewTransaction(p)
         \/ \E e \in Envelope : Stage(p, e)
         \/ BeginCommit(p)
         \/ CommitStep(p)
         \/ StorageError(p)
         \/ Crash(p)
    \/ \E path \in Path : Damage(path)

Spec == Init /\ [][Next]_vars

-----------------------------------------------------------------------------
(* Properties.                                                             *)

TypeOK ==
    /\ files \in [Path -> Storable \union {Absent, Damaged}]
    /\ staged \in [Process -> Seq(Storable)]
    /\ committed \in [Process -> BOOLEAN]
    /\ pc \in [Process ->
          {"open", "staging", "checking", "renaming", "verifying"}]
    /\ next \in [Process -> Nat \ {0}]
    /\ staging \in [Process -> SUBSET Storable]
    /\ orphans \in Nat
    /\ acked \in SUBSET Storable
    /\ crashes \in Nat
    /\ damages \in Nat

\* A path never holds two contents: every envelope id is a fresh UUID, or is
\* only ever used again for the envelope it was made for.
FreshIds ==
    \A d, e \in Storable : PathOf(d) = PathOf(e) => d = e

\* One process at a time uses the repository.
SingleWriter ==
    \A p, q \in Process : p = q

\* Every record of every commit that ever returned is still stored under its
\* own path with its own contents, whatever other commits, retries, errors
\* and crashes came after it; only a damaged medium takes it away.
AcknowledgedStored ==
    \A e \in acked : files[PathOf(e)] \in {e, Damaged}

\* While a commit is in its publishing loop, all envelopes it has passed are
\* stored, those it renamed and those it skipped because an earlier attempt
\* or another process had published them: what a crash leaves is a prefix.
PassedStored ==
    \A p \in Process :
      pc[p] \in {"checking", "renaming", "verifying"} =>
        \A i \in 1 .. Len(staged[p]) :
          (i < next[p]) => files[PathOf(staged[p][i])] \in {staged[p][i], Damaged}

\* A readable record is never replaced by another record and never vanishes:
\* "Store immutable runtime envelopes" (registries/persistent.py:23).
RecordsImmutable ==
    [][\A path \in Path :
         files[path] \in Storable => files'[path] \in {files[path], Damaged}]_vars

\* "Stage and atomically commit multiple runtime envelopes" (registries/
\* transaction.py:24): when commit() is left out of its publishing loop, by
\* return or by an exception, the repository has all of the envelopes that were
\* staged when it began, or none of them.  Nothing is staged while it runs.
AllOrNothing ==
    [][\A p \in Process :
         pc[p] \in {"checking", "renaming", "verifying"} /\ pc'[p] = "open" =>
           {e \in Staged(p) : files'[PathOf(e)] = e} \in {{}, Staged(p)}]_vars

\* Every commit that is under way comes to an end, returning or raising.
CommitReturns ==
    \A p \in Process : (pc[p] # "open") ~> (pc[p] = "open")

\* The processes that run commit() are scheduled.
FairSpec == Spec /\ \A p \in Process : WF_vars(CommitStep(p))

\* What clients are promised: a store whose records appear one by one, never
\* change and are all there when a commit is acknowledged.
Store == INSTANCE WriteOnceStore WITH store <- files, Envelope <- Storable
ImplementsWriteOnceStore == Store!Spec
=============================================================================
