---------------------------- MODULE AppendOnlyList ----------------------------
(***************************************************************************)
(* What the constitutional trace ledger promises its clients, apart from   *)
(* how it is implemented: a list that grows by one new entry at its end,   *)
(* and confirms an entry while it is the last.  Once somebody has edited   *)
(* the list behind the program's back nothing is promised of its contents. *)
(***************************************************************************)
EXTENDS Naturals, Sequences

CONSTANT Entry

VARIABLES
    list,       \* the entries, oldest first
    confirmed,  \* entries whose append was reported as done
    edited      \* somebody else has changed the list

vars == <<list, confirmed, edited>>

Init ==
    /\ list = <<>>
    /\ confirmed = {}
    /\ edited = FALSE

\* One entry more, which is not in the list yet.
Grow ==
    /\ list' \in Seq(Entry)
    /\ Len(list') = Len(list) + 1
    /\ SubSeq(list', 1, Len(list)) = list
    /\ \A i \in 1 .. Len(list) : list[i] # list'[Len(list')]
    /\ UNCHANGED <<confirmed, edited>>

\* The client is told that the last entry is there.
Confirm ==
    /\ list # <<>>
    /\ confirmed' = confirmed \union {list[Len(list)]}
    /\ UNCHANGED <<list, edited>>

\* An edit, and anything that happens to the list after one.
Edit ==
    /\ edited' = TRUE
    /\ list' \in Seq(Entry)
    /\ confirmed' \in SUBSET Entry
    /\ confirmed \subseteq confirmed'

Next == Grow \/ Confirm \/ Edit

Spec == Init /\ [][Next]_vars
=============================================================================
