-------------------------- MODULE PersistentRegistry --------------------------
(***************************************************************************)
(* registries/persistent.py over storage/atomic.py, step by step down to   *)
(* the temporary file, with errors, crashes and power failures: callers    *)
(* save envelopes into one registry, either by save() itself or as commit()*)
(* of registries/transaction.py does, by save() into a registry of their   *)
(* own and a rename.  A file is synced before it is renamed, a directory   *)
(* never is: `lasting' holds what a power failure may leave under a name.  *)
(*                                                                         *)
(* An envelope has the record it was made from, which its file does not    *)
(* hold: the file holds the canonical form.  `whole' says that its         *)
(* payload_hash is the digest of its payload as load() computes it.  It is *)
(* not when the caller gave the digest in lower case, which the            *)
(* constructor accepts, or changed the payload since.                      *)
(***************************************************************************)
EXTENDS CanonicalForm, FiniteSets

CONSTANTS
    Caller,      \* processes
    Id,          \* envelope ids: the names of the files
    Workload,    \* what the callers may have to do: the envelopes they save,
                 \* a bound on calls of save() and commit(), and one on errors,
                 \* crashes and power failures
    Absent,      \* no file under a name
    Torn         \* a file of which not everything was written

Envelope == UNION {w.envelopes : w \in Workload}
Contents == Envelope \union {Absent}

ASSUME RegistryAssumption ==
    /\ \A e \in Envelope :
         /\ e.id \in Id /\ e.whole \in BOOLEAN
         /\ e.type \in RecordType /\ WellFormed(e.record)
    /\ Absent \notin Envelope /\ Torn \notin Envelope /\ Absent # Torn
    /\ \A w \in Workload : w.saves \in Nat /\ w.trouble \in Nat

VARIABLES
    workload,   \* that of this history
    file,       \* the registry: id -> contents
    lasting,    \* id -> what a power failure may leave
    staged,     \* the file in the caller's staging directory,
    temporary,  \* its temporary file: the data, and whether it is synced
    pc,         \* where the caller is
    work,       \* the envelope it saves
    route,      \* "direct", or "staging" in a transaction
    returned,   \* history: saved since the last power failure
    direct,     \* history: envelopes that were ever saved directly
    saves, trouble, outages   \* for the bounds; outages counts power failures

registryVars == <<file, lasting>>
callerVars == <<staged, temporary, pc, work, route>>
historyVars == <<workload, direct, saves>>
boundVars == <<trouble, outages>>
vars == <<registryVars, callerVars, historyVars, returned, boundVars>>

NoFile == [data |-> Absent, synced |-> FALSE]
Stage == {"idle", "look", "write", "sync", "replace", "verify", "publish",
          "rename", "verify all"}

\* What load() makes of a file: the envelope, or an error.
Loads(x) == x \notin {Absent, Torn} /\ x.whole

\* envelope_hash(): what two envelopes are compared by.
Hash(e) == <<e.id, e.type, CanonicalDict(e.record), e.whole>>

Init ==
    /\ workload \in Workload
    /\ file = [n \in Id |-> Absent]
    /\ lasting = [n \in Id |-> {Absent}]
    /\ staged = [c \in Caller |-> NoFile]
    /\ temporary = [c \in Caller |-> NoFile]
    /\ pc = [c \in Caller |-> "idle"]
    /\ work \in [Caller -> workload.envelopes]
    /\ route = [c \in Caller |-> "direct"]
    /\ returned = {} /\ direct = {}
    /\ saves = 0 /\ trouble = 0 /\ outages = 0

-----------------------------------------------------------------------------
Goto(c, stage) == pc' = [pc EXCEPT ![c] = stage]

\* The file save() looks at and replaces.
FileOf(c) == IF route[c] = "staging" THEN staged[c].data ELSE file[work[c].id]

\* A file takes a name of the registry.  A power failure may bring back what
\* was there, and finds a file that was not synced incomplete.
Rename(f, n) ==
    /\ file' = [file EXCEPT ![n] = f.data]
    /\ lasting' = [lasting EXCEPT ![n] = @ \union {IF f.synced THEN f.data ELSE Torn}]

\* The call is over: its temporary file and its staging directory are removed.
Leave(c) ==
    /\ Goto(c, "idle")
    /\ temporary' = [temporary EXCEPT ![c] = NoFile]
    /\ staged' = [staged EXCEPT ![c] = NoFile]
    /\ route' = [route EXCEPT ![c] = "direct"]
    /\ UNCHANGED work

\* Mutated form of Raise: the call is never left.
RaiseForgetting(c) ==
    /\ Goto(c, "raised")
    /\ UNCHANGED <<staged, temporary, work, route, returned>>

Raise(c) == Leave(c) /\ UNCHANGED returned

\* save() is done: that was all of it, or the envelope is in the staging
\* directory and is published next.
Saved(c) ==
    IF route[c] = "staging"
    THEN Goto(c, "publish") /\ UNCHANGED <<staged, temporary, work, route, returned>>
    ELSE Leave(c) /\ returned' = returned \union {work[c]}

-----------------------------------------------------------------------------
(* PersistentRegistry.save() and atomic_write_bytes().                     *)

\* RuntimeEnvelope.from_object() refuses a record that has no canonical form.
Save(c, e, how) ==
    /\ pc[c] = "idle"
    /\ saves < workload.saves
    /\ Serializable(e.record)
    /\ saves' = saves + 1
    /\ Goto(c, "look")
    /\ work' = [work EXCEPT ![c] = e]
    /\ route' = [route EXCEPT ![c] = how]
    /\ direct' = IF how = "direct" THEN direct \union {e} ELSE direct
    /\ UNCHANGED <<registryVars, staged, temporary, workload, returned, boundVars>>

\* A file that exists is compared with what is to be saved, and kept.
Look(c) ==
    /\ pc[c] = "look"
    /\ IF FileOf(c) = Absent
       THEN Goto(c, "write") /\ UNCHANGED <<staged, temporary, work, route, returned>>
       ELSE IF Loads(FileOf(c)) /\ Hash(FileOf(c)) = Hash(work[c])
       THEN Saved(c)
       ELSE Raise(c)
    /\ UNCHANGED <<registryVars, historyVars, boundVars>>

\* A temporary file in the same directory is written.
Write(c) ==
    /\ pc[c] = "write"
    /\ temporary' = [temporary EXCEPT ![c] = [data |-> work[c], synced |-> FALSE]]
    /\ Goto(c, "sync")
    /\ UNCHANGED <<registryVars, staged, work, route, historyVars, returned, boundVars>>

\* Mutated form of Sync: the file is flushed only.
SyncNothing(c) ==
    /\ pc[c] = "sync"
    /\ Goto(c, "replace")
    /\ UNCHANGED <<registryVars, staged, temporary, work, route, historyVars, returned, boundVars>>

Sync(c) ==
    /\ pc[c] = "sync"
    /\ temporary' = [temporary EXCEPT ![c].synced = TRUE]
    /\ Goto(c, "replace")
    /\ UNCHANGED <<registryVars, staged, work, route, historyVars, returned, boundVars>>

\* os.replace(): the temporary file takes the name.
Replace(c) ==
    /\ pc[c] = "replace"
    /\ LET t == temporary[c]
       IN  IF route[c] = "staging"
           THEN staged' = [staged EXCEPT ![c] = t] /\ UNCHANGED registryVars
           ELSE Rename(t, work[c].id) /\ UNCHANGED staged
    /\ temporary' = [temporary EXCEPT ![c] = NoFile]
    /\ Goto(c, "verify")
    /\ UNCHANGED <<work, route, historyVars, returned, boundVars>>

\* Mutated form of Verify: the file is not read again.
VerifyNothing(c) ==
    /\ pc[c] = "verify"
    /\ Saved(c)
    /\ UNCHANGED <<registryVars, historyVars, boundVars>>

\* The file is read again.  If it is not what was saved, the call raises and
\* leaves it there.
Verify(c) ==
    /\ pc[c] = "verify"
    /\ IF Loads(FileOf(c)) /\ Hash(FileOf(c)) = Hash(work[c])
       THEN Saved(c)
       ELSE Raise(c)
    /\ UNCHANGED <<registryVars, historyVars, boundVars>>

-----------------------------------------------------------------------------
(* commit(): the rename out of the staging directory.                      *)

\* The registry has the envelope's name already.
PublishPresent(c) ==
    /\ pc[c] = "publish"
    /\ file[work[c].id] # Absent
    /\ IF Loads(file[work[c].id]) /\ Hash(file[work[c].id]) = Hash(work[c])
       THEN Goto(c, "verify all") /\ UNCHANGED <<staged, temporary, work, route, returned>>
       ELSE Raise(c)
    /\ UNCHANGED <<registryVars, historyVars, boundVars>>

\* exists() said that it has not.
PublishAbsent(c) ==
    /\ pc[c] = "publish"
    /\ file[work[c].id] = Absent
    /\ Goto(c, "rename")
    /\ UNCHANGED <<registryVars, staged, temporary, work, route, historyVars, returned, boundVars>>

\* The staged file takes the name, whoever has taken it meanwhile.
Publish(c) ==
    /\ pc[c] = "rename"
    /\ Rename(staged[c], work[c].id)
    /\ staged' = [staged EXCEPT ![c] = NoFile]
    /\ Goto(c, "verify all")
    /\ UNCHANGED <<temporary, work, route, historyVars, returned, boundVars>>

\* verify_all() loads every file of the registry.
VerifyAll(c) ==
    /\ pc[c] = "verify all"
    /\ IF \A n \in Id : file[n] = Absent \/ Loads(file[n])
       THEN Leave(c) /\ returned' = returned \union {work[c]}
       ELSE Raise(c)
    /\ UNCHANGED <<registryVars, historyVars, boundVars>>

-----------------------------------------------------------------------------
(* The environment.                                                        *)

\* Mutated form of Fail: the file is removed, not the temporary one.
FailRemoves(c) ==
    /\ pc[c] # "idle"
    /\ trouble < workload.trouble
    /\ trouble' = trouble + 1
    /\ Raise(c)
    /\ Rename([data |-> Absent, synced |-> TRUE], work[c].id)
    /\ UNCHANGED <<historyVars, outages>>

\* A write, a sync or a rename raises; or the process dies there, and what it
\* leaves has a name that nobody looks at.
Fail(c) ==
    /\ pc[c] # "idle"
    /\ trouble < workload.trouble
    /\ trouble' = trouble + 1
    /\ Raise(c)
    /\ UNCHANGED <<registryVars, historyVars, outages>>

\* The directory reaches the disk on its own.
Settle(n) ==
    /\ lasting[n] # {file[n]}
    /\ lasting' = [lasting EXCEPT ![n] = {file[n]}]
    /\ UNCHANGED <<file, callerVars, historyVars, returned, boundVars>>

\* Every process ends; each name has one of the contents it may have.
PowerFails ==
    /\ trouble < workload.trouble
    /\ trouble' = trouble + 1
    /\ outages' = outages + 1
    /\ file' \in [Id -> UNION {lasting[n] : n \in Id}]
    /\ \A n \in Id : file'[n] \in lasting[n]
    /\ lasting' = [n \in Id |-> {file'[n]}]
    /\ staged' = [c \in Caller |-> NoFile]
    /\ temporary' = [c \in Caller |-> NoFile]
    /\ pc' = [c \in Caller |-> "idle"]
    /\ route' = [c \in Caller |-> "direct"]
    /\ returned' = {}
    /\ UNCHANGED <<work, historyVars>>

SaveStep(c) ==
    \/ Look(c) \/ Write(c) \/ Sync(c) \/ Replace(c) \/ Verify(c)
    \/ PublishPresent(c) \/ PublishAbsent(c) \/ Publish(c) \/ VerifyAll(c)

Next ==
    \/ \E c \in Caller :
         \/ \E e \in workload.envelopes, how \in {"direct", "staging"} : Save(c, e, how)
         \/ SaveStep(c)
         \/ Fail(c)
    \/ \E n \in Id : Settle(n)
    \/ PowerFails

Spec == Init /\ [][Next]_vars

-----------------------------------------------------------------------------
(* Properties.                                                             *)

\* The types of the variables.
TypeOK ==
    /\ file \in [Id -> workload.envelopes \union {Absent, Torn}]
    /\ lasting \in [Id -> SUBSET (workload.envelopes \union {Absent, Torn})]
    /\ staged \in [Caller -> [data : workload.envelopes \union {Absent}, synced : BOOLEAN]]
    /\ temporary \in [Caller -> [data : workload.envelopes \union {Absent}, synced : BOOLEAN]]
    /\ pc \in [Caller -> Stage]
    /\ work \in [Caller -> workload.envelopes]
    /\ route \in [Caller -> {"direct", "staging"}]
    /\ returned \subseteq workload.envelopes /\ direct \subseteq workload.envelopes
    /\ saves \in 0 .. workload.saves /\ trouble \in 0 .. workload.trouble
    /\ outages \in 0 .. trouble

\* No reader and no power failure finds half a file under a name of the
\* registry: what has taken a name was synced before.
NeverTorn == \A n \in Id : file[n] # Torn /\ Torn \notin lasting[n]

\* The registry is a set of files that are replaced whole and fall back to
\* whole contents, whatever fails in between.
Files == INSTANCE AtomicFiles WITH
    Name <- Id, Contents <- Contents, value <- file, fallback <- lasting
ImplementsAtomicFiles == Files!Spec

\* Nobody else saves under the envelope's id.
Alone(e) == \A d \in workload.envelopes : d.id = e.id => d = e

\* An envelope that is alone under its id is stored when its save or commit has
\* returned, and stays.  Only a power failure takes it away, before the
\* directory has reached the disk, and then it leaves no file.
ReturnedStays ==
    [][/\ \A e \in returned' : Alone(e) => file'[e.id] = e
       /\ \A e \in returned : (Alone(e) /\ file'[e.id] # e) =>
            outages' > outages /\ file'[e.id] = Absent /\ Absent \in lasting[e.id]]_vars

\* A file that load() refuses, and with it verify_all() and every later commit,
\* comes from a direct save, and from one that raised.
UnreadableWasRefused ==
    \A n \in Id : file[n] # Absent /\ ~Loads(file[n]) => file[n] \in direct \ returned

\* A record that was filed under its own type reads back as it was written,
\* exactly if its metadata holds nothing but JSON values.  One that was filed
\* under another type, which nothing checks when it is stored, is never read as
\* a record of that type.
ReadsBack ==
    \A n \in Id : LET e == file[n] IN e \notin {Absent, Torn} =>
      LET read == Reconstruct(e.type, CanonicalDict(e.record))
      IN  IF e.type = e.record.type
          THEN read = {e.record} <=> ~Lossy(e.record)
          ELSE read = {}
=============================================================================
