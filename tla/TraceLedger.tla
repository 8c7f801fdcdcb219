----------------------------- MODULE TraceLedger -----------------------------
(***************************************************************************)
(* registries/persistent_trace.py: the constitutional trace ledger, one    *)
(* file that holds a hash-linked list of trace envelopes.  append() loads  *)
(* and checks the whole list, adds an envelope that names the digest of    *)
(* the last one, replaces the whole file, and loads and checks it again.   *)
(* Several processes may hold a PersistentTraceLedger of one path; nothing *)
(* locks the file.                                                         *)
(*                                                                         *)
(* A SHA-256 digest is modelled as a value that determines what it was     *)
(* computed from: the digest of an entry is its prior digest followed by   *)
(* its own id and trace, and no prior digest is the empty sequence.        *)
(***************************************************************************)
EXTENDS Naturals, Sequences

CONSTANTS
    Process,     \* processes that use the ledger
    Trace,       \* constitutional traces
    MaxAppend,   \* bound: envelopes ever built
    MaxCrash,    \* bound: crashes
    MaxDamage    \* bound: edits of the file behind the program's back

ASSUME BoundAssumption ==
    /\ MaxAppend \in Nat
    /\ MaxCrash \in Nat
    /\ MaxDamage \in Nat

VARIABLES
    ledger,      \* the file: its entries; <<>> also when it does not exist
    pc,          \* where the process is in append()
    updated,     \* the list it built: what it loaded and its new envelope
    drawn,       \* UUIDs drawn so far: the next one is drawn + 1
    returned,    \* history: entries whose append() returned
    written,     \* history: what the last append() wrote
    crashes,     \* crashes so far, for the bound
    damages      \* edits so far, for the bound

localVars == <<pc, updated>>
historyVars == <<returned, written>>
vars == <<ledger, localVars, drawn, historyVars, crashes, damages>>

UUID == 1 .. MaxAppend + MaxDamage
Digest == Seq(UUID \X Trace)

\* A RuntimeEnvelope of type CONSTITUTIONAL_TRACE.  sound: the payload has
\* the digest payload_hash names, else the constructor refuses it.
Entry == [id : UUID, trace : Trace, prior : Digest, sound : BOOLEAN]

NoDigest == <<>>
EnvelopeHash(e) == Append(e.prior, <<e.id, e.trace>>)

\* Mutated form of HeadHash: a new entry is not linked to what is there.
NoHash(entries) ==
    NoDigest

\* head_hash of a list of entries.
HeadHash(entries) ==
    IF entries = <<>> THEN NoDigest ELSE EnvelopeHash(entries[Len(entries)])

\* Mutated form of Loads: the first entry's prior digest is not looked at.
LoadsFromSecond(entries) ==
    \A i \in 1 .. Len(entries) :
      /\ entries[i].sound
      /\ i > 1 => entries[i].prior = EnvelopeHash(entries[i - 1])

\* load_envelopes() accepts the list: each payload is sound and each entry
\* names the digest of the one before it.
Loads(entries) ==
    \A i \in 1 .. Len(entries) :
      /\ entries[i].sound
      /\ entries[i].prior =
           IF i = 1 THEN NoDigest ELSE EnvelopeHash(entries[i - 1])

Init ==
    /\ ledger = <<>>
    /\ pc = [p \in Process |-> "idle"]
    /\ updated = [p \in Process |-> <<>>]
    /\ drawn = 0
    /\ returned = {}
    /\ written = <<>>
    /\ crashes = 0
    /\ damages = 0

-----------------------------------------------------------------------------
(* append(), up to each moment another process can act.                    *)

\* The envelope from_object() builds: a fresh UUID, linked to the last entry.
NewEntry(t) ==
    [id |-> drawn + 1, trace |-> t, prior |-> HeadHash(ledger), sound |-> TRUE]

\* Mutated form of Load: the loaded entries are left out of the new list.
LoadNothing(p, t) ==
    /\ pc[p] = "idle"
    /\ Loads(ledger)
    /\ drawn < MaxAppend
    /\ drawn' = drawn + 1
    /\ updated' = [updated EXCEPT ![p] = <<NewEntry(t)>>]
    /\ pc' = [pc EXCEPT ![p] = "loaded"]
    /\ UNCHANGED <<ledger, historyVars, crashes, damages>>

\* append(t) loads and checks the file and builds the list it will write.
Load(p, t) ==
    /\ pc[p] = "idle"
    /\ Loads(ledger)
    /\ drawn < MaxAppend
    /\ drawn' = drawn + 1
    /\ updated' = [updated EXCEPT ![p] = Append(ledger, NewEntry(t))]
    /\ pc' = [pc EXCEPT ![p] = "loaded"]
    /\ UNCHANGED <<ledger, historyVars, crashes, damages>>

\* atomic_write_bytes(): the file becomes the list this process built,
\* whatever the file holds by now.
Replace(p) ==
    /\ pc[p] = "loaded"
    /\ ledger' = updated[p]
    /\ written' = updated[p]
    /\ pc' = [pc EXCEPT ![p] = "replaced"]
    /\ UNCHANGED <<updated, drawn, returned, crashes, damages>>

\* append() is left, by return or by an exception.
Leave(p) ==
    /\ pc' = [pc EXCEPT ![p] = "idle"]
    /\ updated' = [updated EXCEPT ![p] = <<>>]

\* Mutated form of WriteFails: the file itself was being written, and is left
\* truncated.
WriteFailsTruncated(p) ==
    /\ pc[p] = "loaded"
    /\ Leave(p)
    /\ ledger' = <<>>
    /\ UNCHANGED <<drawn, historyVars, crashes, damages>>

\* The write fails (OSError): the temporary file is removed, the ledger is
\* as it was, append() raises.
WriteFails(p) ==
    /\ pc[p] = "loaded"
    /\ Leave(p)
    /\ UNCHANGED <<ledger, drawn, historyVars, crashes, damages>>

\* verify() loads the file again; append() returns the envelope.
Return(p) ==
    /\ pc[p] = "replaced"
    /\ Loads(ledger)
    /\ returned' = returned \union {updated[p][Len(updated[p])]}
    /\ Leave(p)
    /\ UNCHANGED <<ledger, drawn, written, crashes, damages>>

\* Mutated form of VerifyFails: verification is tried again and again.
VerifyAgain(p) ==
    /\ pc[p] = "replaced"
    /\ ~Loads(ledger)
    /\ UNCHANGED vars

\* verify() raises: the entry was written and append() reports a failure.
VerifyFails(p) ==
    /\ pc[p] = "replaced"
    /\ ~Loads(ledger)
    /\ Leave(p)
    /\ UNCHANGED <<ledger, drawn, historyVars, crashes, damages>>

-----------------------------------------------------------------------------
(* The environment.                                                        *)

\* The process dies inside append() and starts again.  A temporary file it
\* may leave has another name and is never read.
Crash(p) ==
    /\ crashes < MaxCrash
    /\ pc[p] # "idle"
    /\ crashes' = crashes + 1
    /\ Leave(p)
    /\ UNCHANGED <<ledger, drawn, historyVars, damages>>

\* The ledger file is edited or damaged behind the program's back.
WithoutEntry(i) == SubSeq(ledger, 1, i - 1) \o SubSeq(ledger, i + 1, Len(ledger))
RepeatedEntry(i) == SubSeq(ledger, 1, i) \o SubSeq(ledger, i, Len(ledger))

\* The entry's id stands for every field that only envelope_hash() covers.
EditedId(e) == [e EXCEPT !.id = MaxAppend + damages + 1]

\* Another payload, with the payload_hash that goes with it.
EditedTrace(e, t) == [e EXCEPT !.trace = t]

\* No digest covers prior_envelope_hash but that of the entry itself: the entry
\* is linked to whatever list of entries the file begins with.
Relinked(e, n) == [e EXCEPT !.prior = HeadHash(SubSeq(ledger, 1, n))]

\* An entry the constructor refuses, or whose created_at has no zone, so that
\* envelope_hash() raises: neither loads.
Broken(e) == [e EXCEPT !.sound = FALSE]

\* One edit: an entry is removed, repeated (and made another by later edits), or
\* one field of it is changed.
Damage(i) ==
    /\ damages < MaxDamage
    /\ damages' = damages + 1
    /\ \/ ledger' = WithoutEntry(i)
       \/ ledger' = RepeatedEntry(i)
       \/ \E e \in {EditedId(ledger[i]), Broken(ledger[i])}
                   \union {EditedTrace(ledger[i], t) : t \in Trace}
                   \union {Relinked(ledger[i], n) : n \in 0 .. Len(ledger)} :
            ledger' = [ledger EXCEPT ![i] = e]
    /\ ledger' # ledger
    /\ UNCHANGED <<localVars, drawn, historyVars, crashes>>

AppendStep(p) == Replace(p) \/ Return(p) \/ VerifyFails(p)

Next ==
    \/ \E p \in Process :
         \/ \E t \in Trace : Load(p, t)
         \/ AppendStep(p)
         \/ WriteFails(p)
         \/ Crash(p)
    \/ \E i \in 1 .. Len(ledger) : Damage(i)

Spec == Init /\ [][Next]_vars

-----------------------------------------------------------------------------
(* Properties.                                                             *)

TypeOK ==
    /\ ledger \in Seq(Entry)
    /\ pc \in [Process -> {"idle", "loaded", "replaced"}]
    /\ updated \in [Process -> Seq(Entry)]
    /\ drawn \in 0 .. MaxAppend
    /\ returned \subseteq Entry
    /\ written \in Seq(Entry)
    /\ crashes \in 0 .. MaxCrash
    /\ damages \in 0 .. MaxDamage

Elements(entries) == {entries[i] : i \in 1 .. Len(entries)}
IsPrefixOf(s, t) == Len(s) <= Len(t) /\ \A i \in 1 .. Len(s) : s[i] = t[i]

\* As long as nobody edits the file, it loads, in every interleaving of
\* appends, failed writes and crashes: a writer that overwrote the work of
\* another still leaves an unbroken chain, so verify() cannot tell.
ChainIntact == damages = 0 => Loads(ledger)

\* In an unedited file an entry stays where it is and the file only grows: the
\* "append-only constitutional trace ledger" of persistent_trace.py:1.
AppendOnly == [][damages' = 0 => IsPrefixOf(ledger, ledger')]_vars

\* Every entry whose append() returned is in an unedited ledger.
ReturnedKept == damages = 0 => returned \subseteq Elements(ledger)

\* Wherever a file that loads has an entry with a link some entry of the last
\* append() was written with, it is that entry's place and everything before it
\* is what was written.  So an edit shows unless every entry after it has been
\* removed or given another link: nothing vouches for the end of the list, nor
\* for a tail that has been re-linked throughout.
DamageShows ==
    Loads(ledger) =>
      \A i \in 1 .. Len(ledger), k \in 1 .. Len(written) :
        ledger[i].prior = written[k].prior =>
          i = k /\ \A j \in 1 .. i - 1 : ledger[j] = written[j]

\* What clients are promised: a list that only grows, by one new entry at a
\* time, and whose last entry is confirmed to the one who appended it.  Only an
\* edit of the file ends that promise.
List == INSTANCE AppendOnlyList WITH
    list <- ledger, confirmed <- returned, edited <- damages > 0
ImplementsAppendOnlyList == List!Spec

\* Each append that has loaded the file comes to an end.
AppendEnds == \A p \in Process : (pc[p] # "idle") ~> (pc[p] = "idle")

FairSpec == Spec /\ \A p \in Process : WF_vars(AppendStep(p))
=============================================================================
