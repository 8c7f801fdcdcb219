----------------------------- MODULE AtomicFiles -----------------------------
(***************************************************************************)
(* What storage/atomic.py promises the registry, the ledger and the        *)
(* snapshot that write through it, apart from how it is done: a file has   *)
(* the contents that were put there last, whole; a power failure may bring *)
(* back contents the file had before, whole as well, but nothing older     *)
(* than what the directory was last written to disk with.                  *)
(***************************************************************************)
CONSTANTS
    Name,      \* the names of the files
    Contents   \* what is put into them, and what stands for no file

VARIABLES
    value,     \* name -> what a reader finds
    fallback   \* name -> what a power failure may leave there

vars == <<value, fallback>>

Init ==
    /\ value \in [Name -> Contents]
    /\ fallback = [n \in Name |-> {value[n]}]

\* Something is put into a file, or a file is removed.
Put(n) ==
    /\ value'[n] \in Contents
    /\ value' = [value EXCEPT ![n] = value'[n]]
    /\ fallback' = [fallback EXCEPT ![n] = @ \union {value'[n]}]

\* The directory reaches the disk.
Settle(n) ==
    /\ fallback' = [fallback EXCEPT ![n] = {value[n]}]
    /\ UNCHANGED value

PowerFails ==
    /\ value' \in [Name -> Contents]
    /\ \A n \in Name : value'[n] \in fallback[n]
    /\ fallback' = [n \in Name |-> {value'[n]}]

Next ==
    \/ \E n \in Name : Put(n)
    \/ \E n \in Name : Settle(n)
    \/ PowerFails

Spec == Init /\ [][Next]_vars
=============================================================================
