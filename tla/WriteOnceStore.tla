--------------------------- MODULE WriteOnceStore ---------------------------
(***************************************************************************)
(* What the record repository promises its clients, apart from how it is   *)
(* implemented: a path holds one readable record for ever, and a commit    *)
(* that was acknowledged has all its records stored.  A record becomes     *)
(* visible on its own; there is no promise that the records of one commit  *)
(* appear together.                                                        *)
(***************************************************************************)
CONSTANTS
    Path,       \* the places a record can be stored at
    Envelope,   \* the records
    PathOf(_),  \* the place of a record
    Absent,     \* no file at a path
    Damaged     \* a file whose contents no longer decode

VARIABLES
    store,      \* path -> Absent, Damaged or the record stored there
    acked       \* every record of a commit that was acknowledged

vars == <<store, acked>>

Init ==
    /\ store = [path \in Path |-> Absent]
    /\ acked = {}

\* A record appears, or is written again over itself or over a damaged file.
Put(e) ==
    /\ store[PathOf(e)] \in {Absent, Damaged, e}
    /\ store' = [store EXCEPT ![PathOf(e)] = e]
    /\ UNCHANGED acked

\* A whole commit is acknowledged: each of its records is on disk.
Acknowledge(S) ==
    /\ \A e \in S : store[PathOf(e)] = e
    /\ acked' = acked \union S
    /\ UNCHANGED store

\* The medium damages a stored record.
Decay(path) ==
    /\ store[path] # Absent
    /\ store' = [store EXCEPT ![path] = Damaged]
    /\ UNCHANGED acked

Next ==
    \/ \E e \in Envelope : Put(e)
    \/ \E S \in SUBSET Envelope : Acknowledge(S)
    \/ \E path \in Path : Decay(path)

Spec == Init /\ [][Next]_vars
=============================================================================
