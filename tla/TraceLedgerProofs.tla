-------------------------- MODULE TraceLedgerProofs --------------------------
(***************************************************************************)
(* What TLAPS proves of TraceLedger for every set of processes and traces  *)
(* and every bound.                                                        *)
(***************************************************************************)
EXTENDS TraceLedger, FiniteSetTheorems, TLAPS

\* The digest of a well-formed list's last entry is a digest.
LEMMA HeadHashType ==
    ASSUME NEW s \in Seq(Entry)
    PROVE  HeadHash(s) \in Digest
<1>1. CASE s = <<>>
  <2>1. <<>> \in Digest
    BY DEF Digest
  <2> QED
    BY <1>1, <2>1 DEF HeadHash, NoDigest
<1>2. CASE s # <<>>
  <2>1. s[Len(s)] \in Entry
    BY <1>2
  <2> DEFINE e == s[Len(s)]
  <2>2. /\ e.prior \in Digest
        /\ <<e.id, e.trace>> \in UUID \X Trace
    BY <2>1 DEF Entry
  <2> HIDE DEF e
  <2>3. EnvelopeHash(e) \in Digest
    BY <2>2 DEF EnvelopeHash, Digest
  <2> QED
    BY <1>2, <2>3 DEF HeadHash, e
<1> QED
  BY <1>1, <1>2

\* An envelope that append() builds is a well-formed entry.
LEMMA NewEntryType ==
    ASSUME TypeOK, NEW t \in Trace, drawn < MaxAppend
    PROVE  NewEntry(t) \in Entry
<1>1. HeadHash(ledger) \in Digest
  BY HeadHashType DEF TypeOK
<1>2. drawn + 1 \in UUID
  BY BoundAssumption DEF TypeOK, UUID
<1> QED
  BY <1>1, <1>2 DEF NewEntry, Entry

\* What an entry is changed to is an entry.
LEMMA EditedType ==
    ASSUME TypeOK, NEW e \in Entry, damages < MaxDamage
    PROVE  /\ EditedId(e) \in Entry
           /\ Broken(e) \in Entry
           /\ \A t \in Trace : EditedTrace(e, t) \in Entry
           /\ \A n \in 0 .. Len(ledger) : Relinked(e, n) \in Entry
<1>1. EditedId(e) \in Entry
  <2>1. MaxAppend + damages + 1 \in UUID
    BY BoundAssumption DEF UUID, TypeOK
  <2> QED
    BY <2>1 DEF EditedId, Entry
<1>2. Broken(e) \in Entry
  BY DEF Broken, Entry
<1>3. ASSUME NEW t \in Trace
      PROVE  EditedTrace(e, t) \in Entry
  BY DEF EditedTrace, Entry
<1>4. ASSUME NEW n \in 0 .. Len(ledger)
      PROVE  Relinked(e, n) \in Entry
  <2>1. SubSeq(ledger, 1, n) \in Seq(Entry)
    BY DEF TypeOK
  <2>2. HeadHash(SubSeq(ledger, 1, n)) \in Digest
    BY <2>1, HeadHashType
  <2> QED
    BY <2>2 DEF Relinked, Entry
<1> QED
  BY <1>1, <1>2, <1>3, <1>4

\* Editing a list of entries leaves a list of entries.
LEMMA DamageType ==
    ASSUME TypeOK, NEW i \in 1 .. Len(ledger), Damage(i)
    PROVE  ledger' \in Seq(Entry)
<1>0. /\ ledger \in Seq(Entry)
      /\ ledger[i] \in Entry
      /\ damages < MaxDamage
  BY DEF TypeOK, Damage
<1>1. /\ SubSeq(ledger, 1, i - 1) \in Seq(Entry)
      /\ SubSeq(ledger, i + 1, Len(ledger)) \in Seq(Entry)
      /\ SubSeq(ledger, 1, i) \in Seq(Entry)
      /\ SubSeq(ledger, i, Len(ledger)) \in Seq(Entry)
  BY <1>0
<1>2. CASE ledger' = WithoutEntry(i)
  BY <1>1, <1>2 DEF WithoutEntry
<1>3. CASE ledger' = RepeatedEntry(i)
  BY <1>1, <1>3 DEF RepeatedEntry
<1>4. ASSUME NEW e \in {EditedId(ledger[i]), Broken(ledger[i])}
                   \union {EditedTrace(ledger[i], t) : t \in Trace}
                   \union {Relinked(ledger[i], n) : n \in 0 .. Len(ledger)},
             ledger' = [ledger EXCEPT ![i] = e]
      PROVE  ledger' \in Seq(Entry)
  <2>1. e \in Entry
    BY <1>0, <1>4, EditedType
  <2> QED
    BY <1>0, <1>4, <2>1
<1> QED
  BY <1>2, <1>3, <1>4 DEF Damage

\* A list an append is about to write or has written is a list that loads.
ListsLoad ==
    \A p \in Process :
      pc[p] # "idle" => updated[p] # <<>> /\ Loads(updated[p])

ChainInv == TypeOK /\ ListsLoad /\ ChainIntact

\* Adding the envelope append() builds to a list that loads makes a list that
\* loads: the link is computed from the same list it is added to.
LEMMA ExtendLoads ==
    ASSUME TypeOK, Loads(ledger), NEW t \in Trace, drawn < MaxAppend
    PROVE  Loads(Append(ledger, NewEntry(t)))
<1> DEFINE new == Append(ledger, NewEntry(t))
<1>1. ledger \in Seq(Entry) /\ NewEntry(t) \in Entry
  BY NewEntryType DEF TypeOK
<1>2. /\ Len(new) = Len(ledger) + 1
      /\ \A i \in 1 .. Len(ledger) : new[i] = ledger[i]
      /\ new[Len(ledger) + 1] = NewEntry(t)
  BY <1>1
<1>3. ASSUME NEW i \in 1 .. Len(ledger)
      PROVE  /\ new[i].sound
             /\ new[i].prior =
                  IF i = 1 THEN NoDigest ELSE EnvelopeHash(new[i - 1])
  <2>1. /\ ledger[i].sound
        /\ ledger[i].prior =
             IF i = 1 THEN NoDigest ELSE EnvelopeHash(ledger[i - 1])
    BY DEF Loads
  <2>2. i # 1 => i - 1 \in 1 .. Len(ledger)
    BY <1>1
  <2> QED
    BY <1>2, <2>1, <2>2
<1>4. /\ NewEntry(t).sound
      /\ NewEntry(t).prior = IF Len(ledger) + 1 = 1
                             THEN NoDigest ELSE EnvelopeHash(new[Len(ledger)])
  <2>1. NewEntry(t).prior = HeadHash(ledger) /\ NewEntry(t).sound
    BY DEF NewEntry
  <2>2. CASE ledger = <<>>
    BY <2>1, <2>2 DEF HeadHash
  <2>3. CASE ledger # <<>>
    <3>1. Len(ledger) \in Nat \ {0}
      BY <1>1, <2>3
    <3>2. new[Len(ledger)] = ledger[Len(ledger)]
      BY <1>2, <3>1
    <3> QED
      BY <2>1, <2>3, <3>1, <3>2 DEF HeadHash
  <2> QED
    BY <2>2, <2>3
<1>5. ASSUME NEW i \in 1 .. Len(new)
      PROVE  /\ new[i].sound
             /\ new[i].prior =
                  IF i = 1 THEN NoDigest ELSE EnvelopeHash(new[i - 1])
  <2>1. i \in 1 .. Len(ledger) \/ i = Len(ledger) + 1
    BY <1>1, <1>2
  <2>2. CASE i = Len(ledger) + 1
    <3>1. i - 1 = Len(ledger)
      BY <1>1, <2>2
    <3> HIDE DEF new
    <3> QED
      BY <1>2, <1>4, <2>2, <3>1
  <2> QED
    BY <1>3, <2>1, <2>2
<1> QED
  BY <1>5 DEF Loads

\* There is no file and no append.
LEMMA ChainInit == Init => ChainInv
  BY BoundAssumption DEF Init, ChainInv, TypeOK, ListsLoad, ChainIntact, Loads

\* Every step keeps the lists well formed and loadable.
LEMMA ChainStep == ChainInv /\ [Next]_vars => ChainInv'
<1> SUFFICES ASSUME ChainInv, [Next]_vars
             PROVE  ChainInv'
  OBVIOUS
<1> USE DEF ChainInv
<1>1. ASSUME NEW p \in Process, NEW t \in Trace, Load(p, t)
      PROVE  ChainInv'
  <2> DEFINE new == Append(ledger, NewEntry(t))
  <2>1. new \in Seq(Entry) /\ new # <<>> /\ Loads(new)
    <3>1. TypeOK /\ Loads(ledger) /\ drawn < MaxAppend
      BY <1>1 DEF Load
    <3>2. ledger \in Seq(Entry) /\ NewEntry(t) \in Entry
      BY <3>1, NewEntryType DEF TypeOK
    <3>3. new \in Seq(Entry) /\ Len(new) = Len(ledger) + 1
      BY <3>2
    <3>4. Loads(new)
      BY <3>1, ExtendLoads
    <3> HIDE DEF new
    <3> QED
      BY <3>2, <3>3, <3>4
  <2>2. drawn + 1 \in 0 .. MaxAppend
    BY <1>1, BoundAssumption DEF Load, TypeOK
  <2>3. /\ updated' = [updated EXCEPT ![p] = new]
        /\ pc' = [pc EXCEPT ![p] = "loaded"]
        /\ drawn' = drawn + 1
        /\ UNCHANGED <<ledger, returned, written, crashes, damages>>
    BY <1>1 DEF Load, historyVars
  <2> HIDE DEF new
  <2>4. TypeOK'
    BY <2>1, <2>2, <2>3 DEF TypeOK
  <2>5. ListsLoad'
    BY <2>1, <2>3 DEF ListsLoad, TypeOK
  <2>6. ChainIntact'
    BY <2>3 DEF ChainIntact
  <2> QED
    BY <2>4, <2>5, <2>6
<1>2. ASSUME NEW p \in Process, Replace(p)
      PROVE  ChainInv'
  <2>1. TypeOK'
    BY <1>2 DEF Replace, TypeOK
  <2>2. ListsLoad'
    BY <1>2 DEF Replace, ListsLoad, TypeOK
  <2>3. ChainIntact'
    BY <1>2 DEF Replace, ListsLoad, ChainIntact
  <2> QED
    BY <2>1, <2>2, <2>3
<1>3. ASSUME NEW p \in Process, Leave(p),
             returned' \subseteq Entry,
             crashes' \in 0 .. MaxCrash,
             UNCHANGED <<ledger, drawn, written, damages>>
      PROVE  ChainInv'
  <2>1. TypeOK'
    BY <1>3 DEF Leave, TypeOK
  <2>2. ListsLoad'
    BY <1>3 DEF Leave, ListsLoad, TypeOK
  <2>3. ChainIntact'
    BY <1>3 DEF ChainIntact
  <2> QED
    BY <2>1, <2>2, <2>3
<1>4. ASSUME NEW p \in Process, WriteFails(p)
      PROVE  ChainInv'
  BY <1>3, <1>4 DEF WriteFails, historyVars, TypeOK
<1>5. ASSUME NEW p \in Process, Return(p)
      PROVE  ChainInv'
  <2>1. updated[p] \in Seq(Entry) /\ updated[p] # <<>>
    BY <1>5 DEF Return, ListsLoad, TypeOK
  <2>2. updated[p][Len(updated[p])] \in Entry
    BY <2>1
  <2>3. returned' \subseteq Entry
    BY <1>5, <2>2 DEF Return, TypeOK
  <2> QED
    BY <1>3, <1>5, <2>3 DEF Return, TypeOK
<1>6. ASSUME NEW p \in Process, VerifyFails(p)
      PROVE  ChainInv'
  BY <1>3, <1>6 DEF VerifyFails, historyVars, TypeOK
<1>7. ASSUME NEW p \in Process, Crash(p)
      PROVE  ChainInv'
  <2>1. crashes' \in 0 .. MaxCrash
    BY <1>7, BoundAssumption DEF Crash, TypeOK
  <2> QED
    BY <1>3, <1>7, <2>1 DEF Crash, historyVars, TypeOK
<1>8. ASSUME NEW i \in 1 .. Len(ledger), Damage(i)
      PROVE  ChainInv'
  <2>1. ledger' \in Seq(Entry)
    BY <1>8, DamageType
  <2>2. damages' \in 0 .. MaxDamage /\ damages' # 0
    BY <1>8, BoundAssumption DEF Damage, TypeOK
  <2>3. UNCHANGED <<pc, updated, drawn, returned, written, crashes>>
    BY <1>8 DEF Damage, localVars, historyVars
  <2>4. TypeOK'
    BY <2>1, <2>2, <2>3 DEF TypeOK
  <2>5. ListsLoad'
    BY <2>3 DEF ListsLoad
  <2>6. ChainIntact'
    BY <2>2 DEF ChainIntact
  <2> QED
    BY <2>4, <2>5, <2>6
<1>9. CASE UNCHANGED vars
  BY <1>9 DEF vars, localVars, historyVars, TypeOK, ListsLoad, ChainIntact
<1> QED
  BY <1>1, <1>2, <1>4, <1>5, <1>6, <1>7, <1>8, <1>9 DEF Next, AppendStep

\* The invariant of any number of appenders: the lists they hold, and the file
\* as long as nobody edits it, are unbroken chains.
THEOREM ChainInvariant == Spec => []ChainInv
  BY ChainInit, ChainStep, PTL DEF Spec

\* Type correctness of the ledger: every list of entries a process holds or
\* the file has is well formed, and each of the counters is within its bound.
THEOREM TypeCorrect == Spec => []TypeOK
  BY ChainInvariant, PTL DEF ChainInv

\* In every interleaving of any number of processes, an unedited ledger file
\* always passes verify(), lost appends included.
THEOREM ChainAlwaysIntact == Spec => []ChainIntact
  BY ChainInvariant, PTL DEF ChainInv

-----------------------------------------------------------------------------
(* Edits behind the program's back, with any number of processes.          *)

\* A set of positions that is not empty has a least one.
LEMMA LeastExists ==
    ASSUME NEW n \in Nat, NEW S \in SUBSET (1 .. n), S # {}
    PROVE  \E x \in S : \A y \in S : x <= y
<1> DEFINE down(x) == {y \in S : y <= x}
           T == {down(x) : x \in S}
<1>1. IsFiniteSet(S)
  <2>1. IsFiniteSet(1 .. n)
    BY FS_Interval
  <2> QED
    BY <2>1, FS_Subset
<1>2. \A x \in S : down(x) \in FiniteSubsetsOf(S)
  BY <1>1, FS_Subset DEF FiniteSubsetsOf
<1>3. T \subseteq FiniteSubsetsOf(S) /\ T # {}
  BY <1>2
<1>4. PICK D \in T : \A E \in T : ~(<<E, D>> \in StrictSubsetOrdering(S))
  <2>1. IsWellFoundedOn(StrictSubsetOrdering(S), FiniteSubsetsOf(S))
    BY FS_StrictSubsetOrderingWellFounded
  <2> HIDE DEF T
  <2> QED
    BY <1>3, <2>1, WFMin
<1>5. PICK x \in S : D = down(x)
  BY <1>4
<1>6. \A y \in S : x <= y
  <2> SUFFICES ASSUME NEW y \in S, y < x
               PROVE  FALSE
    OBVIOUS
  <2>1. down(y) \subseteq down(x) /\ down(y) # down(x)
    <3>1. x \in down(x) /\ x \notin down(y)
      OBVIOUS
    <3>2. \A z \in down(y) : z \in down(x)
      OBVIOUS
    <3> QED
      BY <3>1, <3>2
  <2>2. <<down(y), down(x)>> \in StrictSubsetOrdering(S)
    BY <2>1 DEF StrictSubsetOrdering
  <2> QED
    BY <1>4, <1>5, <2>2
<1> QED
  BY <1>6

\* In a list that loads a prior digest tells the position of its entry.
LEMMA PriorsCount ==
    ASSUME NEW s \in Seq(Entry), Loads(s)
    PROVE  \A i \in 1 .. Len(s) : Len(s[i].prior) = i - 1
<1> DEFINE wrong == {i \in 1 .. Len(s) : Len(s[i].prior) # i - 1}
<1> SUFFICES ASSUME wrong # {}
             PROVE  FALSE
  OBVIOUS
<1>1. PICK x \in wrong : \A y \in wrong : x <= y
  <2>1. Len(s) \in Nat /\ wrong \in SUBSET (1 .. Len(s))
    OBVIOUS
  <2> HIDE DEF wrong
  <2> QED
    BY <2>1, LeastExists
<1>2. x # 1
  BY <1>1 DEF Loads, NoDigest
<1>3. x - 1 \in 1 .. Len(s) /\ Len(s[x - 1].prior) = x - 2
  BY <1>1, <1>2
<1>4. s[x].prior = EnvelopeHash(s[x - 1])
  BY <1>1, <1>2 DEF Loads
<1>5. s[x - 1].prior \in Seq(UUID \X Trace)
  <2>1. s[x - 1] \in Entry
    BY <1>3
  <2> QED
    BY <2>1 DEF Entry, Digest
<1>6. <<s[x - 1].id, s[x - 1].trace>> \in UUID \X Trace
  <2>1. s[x - 1] \in Entry
    BY <1>3
  <2> QED
    BY <2>1 DEF Entry
<1>7. Len(s[x].prior) = Len(s[x - 1].prior) + 1
  BY <1>4, <1>5, <1>6 DEF EnvelopeHash
<1> QED
  BY <1>1, <1>3, <1>7

\* A digest determines what it was computed from.
LEMMA HashDetermines ==
    ASSUME NEW d \in Entry, NEW e \in Entry, EnvelopeHash(d) = EnvelopeHash(e)
    PROVE  d.id = e.id /\ d.trace = e.trace /\ d.prior = e.prior
<1> DEFINE x == <<d.id, d.trace>>
           y == <<e.id, e.trace>>
           s == d.prior
           t == e.prior
<1>1. x \in UUID \X Trace /\ y \in UUID \X Trace
      /\ s \in Seq(UUID \X Trace) /\ t \in Seq(UUID \X Trace)
  BY DEF Entry, Digest
<1>2. Append(s, x) = Append(t, y)
  BY DEF EnvelopeHash
<1> HIDE DEF x, y, s, t
<1>3. /\ Len(Append(s, x)) = Len(s) + 1 /\ Len(Append(t, y)) = Len(t) + 1
      /\ Append(s, x)[Len(s) + 1] = x /\ Append(t, y)[Len(t) + 1] = y
      /\ \A i \in 1 .. Len(s) : Append(s, x)[i] = s[i]
      /\ \A i \in 1 .. Len(t) : Append(t, y)[i] = t[i]
  BY <1>1
<1>4. Len(s) = Len(t) /\ x = y
  BY <1>1, <1>2, <1>3
<1>5. s = t
  BY <1>1, <1>2, <1>3, <1>4
<1> QED
  BY <1>4, <1>5 DEF x, y, s, t

\* Two lists that load and have entries with one link agree on everything before
\* them: each link determines the entry before it, back to the first.
LEMMA LinksVouch ==
    ASSUME NEW s \in Seq(Entry), NEW t \in Seq(Entry), Loads(s), Loads(t),
           NEW i \in 1 .. Len(s), NEW k \in 1 .. Len(t), s[i].prior = t[k].prior
    PROVE  i = k /\ \A j \in 1 .. i - 1 : s[j] = t[j]
<1>1. i = k
  <2>1. Len(s[i].prior) = i - 1 /\ Len(t[k].prior) = k - 1
    BY PriorsCount
  <2> QED
    BY <2>1
<1>2. ASSUME NEW j \in 1 .. i - 1, s[j + 1].prior = t[j + 1].prior
      PROVE  s[j] = t[j]
  <2>1. /\ j \in 1 .. Len(s) /\ j \in 1 .. Len(t)
        /\ j + 1 \in 1 .. Len(s) /\ j + 1 \in 1 .. Len(t)
        /\ j + 1 # 1 /\ (j + 1) - 1 = j
    BY <1>1
  <2>2. s[j] \in Entry /\ t[j] \in Entry
    BY <2>1
  <2>3. /\ s[j + 1].prior = EnvelopeHash(s[j]) /\ s[j].sound
        /\ t[j + 1].prior = EnvelopeHash(t[j]) /\ t[j].sound
    BY <2>1 DEF Loads
  <2>4. /\ s[j].id = t[j].id /\ s[j].trace = t[j].trace
        /\ s[j].prior = t[j].prior
    <3>1. EnvelopeHash(s[j]) = EnvelopeHash(t[j])
      BY <1>2, <2>3
    <3> QED
      BY <2>2, <3>1, HashDetermines
  <2>5. s[j].sound = t[j].sound
    <3>1. s[j].sound \in BOOLEAN /\ t[j].sound \in BOOLEAN
      BY <2>2 DEF Entry
    <3> QED
      BY <2>3, <3>1
  <2> QED
    BY <2>2, <2>4, <2>5 DEF Entry
<1> DEFINE differ == {d \in 1 .. i - 1 : s[i - d] # t[i - d]}
<1>3. differ = {}
  <2> SUFFICES ASSUME differ # {}
               PROVE  FALSE
    OBVIOUS
  <2>1. PICK d \in differ : \A c \in differ : d <= c
    <3>1. i - 1 \in Nat /\ differ \in SUBSET (1 .. i - 1)
      OBVIOUS
    <3> HIDE DEF differ
    <3> QED
      BY <3>1, LeastExists
  <2>2. /\ d \in 1 .. i - 1 /\ i - d \in 1 .. i - 1
        /\ s[i - d] # t[i - d]
    OBVIOUS
  <2>3. CASE d = 1
    <3>1. (i - d) + 1 = i
      BY <2>3
    <3>2. s[(i - d) + 1].prior = t[(i - d) + 1].prior
      BY <1>1, <3>1
    <3> QED
      BY <1>2, <2>2, <3>2
  <2>4. CASE d # 1
    <3>1. d - 1 \in 1 .. i - 1 /\ d - 1 \notin differ
      BY <2>1, <2>2, <2>4
    <3>2. s[i - (d - 1)] = t[i - (d - 1)]
      BY <3>1
    <3>3. i - (d - 1) = (i - d) + 1
      BY <2>2
    <3>4. s[(i - d) + 1].prior = t[(i - d) + 1].prior
      BY <3>2, <3>3
    <3> HIDE DEF differ
    <3> QED
      BY <1>2, <2>2, <3>4
  <2> QED
    BY <2>3, <2>4
<1>4. ASSUME NEW j \in 1 .. i - 1
      PROVE  s[j] = t[j]
  <2>1. i - j \in 1 .. i - 1 /\ i - (i - j) = j
    OBVIOUS
  <2>2. s[i - (i - j)] = t[i - (i - j)]
    BY <1>3, <2>1
  <2> QED
    BY <2>1, <2>2
<1> QED
  BY <1>1, <1>4

\* What append() wrote last is a list that loads.
WrittenLoads == Loads(written)

\* Only append() writes, and what it is about to write loads.
LEMMA WrittenStep ==
    ASSUME ChainInv, WrittenLoads, [Next]_vars
    PROVE  WrittenLoads'
<1>1. CASE UNCHANGED written
  BY <1>1 DEF WrittenLoads, Loads
<1>2. ASSUME NEW p \in Process, Replace(p)
      PROVE  WrittenLoads'
  <2>1. written' = updated[p] /\ Loads(updated[p])
    BY <1>2 DEF Replace, ChainInv, ListsLoad
  <2> QED
    BY <2>1 DEF WrittenLoads, Loads
<1> QED
  BY <1>1, <1>2 DEF Next, AppendStep, Load, WriteFails, Return, VerifyFails, Crash,
     Damage, historyVars, vars

\* However many processes append and however often the file is edited in any
\* field: where a file that verifies still has a link that was written, its entry
\* is in its place and everything before it is what was written.
THEOREM EditsShow == Spec => []DamageShows
<1>1. Init => WrittenLoads
  BY DEF Init, WrittenLoads, Loads
<1>2. ChainInv /\ WrittenLoads /\ [Next]_vars => WrittenLoads'
  BY WrittenStep
<1>3. ChainInv /\ WrittenLoads => DamageShows
  BY LinksVouch DEF ChainInv, TypeOK, WrittenLoads, DamageShows
<1> QED
  BY <1>1, <1>2, <1>3, ChainInvariant, PTL DEF Spec

-----------------------------------------------------------------------------
(* Processes that take turns.                                              *)

\* No two processes are inside append() at the same time.
TakeTurns ==
    \A p, q \in Process : (pc[p] # "idle" /\ pc[q] # "idle") => p = q

\* Envelopes of an unedited file, and of the lists processes build from it,
\* have ids drawn before.
IdsDrawn ==
    damages = 0 =>
      /\ \A i \in 1 .. Len(ledger) : ledger[i].id <= drawn
      /\ \A p \in Process : pc[p] # "idle" =>
           \A i \in 1 .. Len(updated[p]) : updated[p][i].id <= drawn

\* A list with one new entry at its end.
Extends(new, old) ==
    /\ Len(new) = Len(old) + 1
    /\ IsPrefixOf(old, new)
    /\ \A i \in 1 .. Len(old) : old[i].id # new[Len(new)].id

\* What the one process in append() is about to write extends the file; what
\* it wrote is still there when it verifies it.
WriterInv ==
    \A p \in Process :
      damages = 0 =>
        /\ pc[p] = "loaded" => Extends(updated[p], ledger)
        /\ pc[p] = "replaced" => ledger = updated[p]

TurnInv == ChainInv /\ IdsDrawn /\ WriterInv /\ ReturnedKept

\* There is no entry and no append.
LEMMA TurnInit == Init => TurnInv
<1>1. Init => IdsDrawn /\ WriterInv /\ ReturnedKept
  BY DEF Init, IdsDrawn, WriterInv, ReturnedKept
<1> QED
  BY <1>1, ChainInit DEF TurnInv

\* Ids are numbers.
LEMMA IdsAreNumbers ==
    ASSUME TypeOK, NEW i \in 1 .. Len(ledger)
    PROVE  ledger[i].id \in Nat
<1>1. ledger[i] \in Entry
  BY DEF TypeOK
<1>2. ledger[i].id \in UUID
  BY <1>1 DEF Entry
<1> QED
  BY <1>2, BoundAssumption DEF UUID

\* What append() builds from an unedited file extends it.
LEMMA LoadExtends ==
    ASSUME TypeOK, IdsDrawn, damages = 0, NEW t \in Trace, drawn < MaxAppend
    PROVE  /\ Extends(Append(ledger, NewEntry(t)), ledger)
           /\ \A i \in 1 .. Len(Append(ledger, NewEntry(t))) :
                Append(ledger, NewEntry(t))[i].id <= drawn + 1
<1> DEFINE new == Append(ledger, NewEntry(t))
<1>1. ledger \in Seq(Entry) /\ drawn \in Nat
  BY DEF TypeOK
<1>2. NewEntry(t).id = drawn + 1
  BY DEF NewEntry
<1>3. /\ Len(new) = Len(ledger) + 1
      /\ new[Len(ledger) + 1] = NewEntry(t)
      /\ \A i \in 1 .. Len(ledger) : new[i] = ledger[i]
  BY <1>1
<1>4. \A i \in 1 .. Len(ledger) : ledger[i].id \in Nat /\ ledger[i].id <= drawn
  BY IdsAreNumbers DEF IdsDrawn
<1> HIDE DEF new
<1>5. Extends(new, ledger)
  BY <1>1, <1>2, <1>3, <1>4 DEF Extends, IsPrefixOf
<1>6. \A i \in 1 .. Len(new) : new[i].id <= drawn + 1
  BY <1>1, <1>2, <1>3, <1>4
<1> QED
  BY <1>5, <1>6 DEF new

\* append() has loaded the file: it is the only one inside.
LEMMA LoadStep ==
    ASSUME TakeTurns', TurnInv, TypeOK', NEW p \in Process, NEW t \in Trace,
           Load(p, t)
    PROVE  IdsDrawn' /\ WriterInv' /\ ReturnedKept'
<1> DEFINE new == Append(ledger, NewEntry(t))
<1>1. TypeOK /\ IdsDrawn /\ ReturnedKept
  BY DEF TurnInv, ChainInv
<1>2. /\ UNCHANGED <<ledger, returned, damages>>
      /\ drawn < MaxAppend /\ drawn' = drawn + 1 /\ drawn \in Nat
      /\ pc'[p] = "loaded" /\ updated'[p] = new
  BY <1>1 DEF Load, historyVars, TypeOK
<1>3. \A q \in Process \ {p} : pc'[q] = "idle"
  BY <1>2 DEF TakeTurns
<1>4. damages = 0 => /\ Extends(new, ledger)
                     /\ \A i \in 1 .. Len(new) : new[i].id <= drawn + 1
  BY <1>1, <1>2, LoadExtends
<1> HIDE DEF new
<1>5. WriterInv'
  BY <1>2, <1>3, <1>4 DEF WriterInv, Extends, IsPrefixOf
<1>6. IdsDrawn'
  <2> SUFFICES ASSUME damages = 0
               PROVE  IdsDrawn'
    BY <1>2 DEF IdsDrawn
  <2>1. \A i \in 1 .. Len(ledger) : ledger[i].id \in Nat /\ ledger[i].id <= drawn
    BY <1>1, IdsAreNumbers DEF IdsDrawn
  <2>2. \A i \in 1 .. Len(ledger') : ledger'[i].id <= drawn'
    BY <1>2, <2>1
  <2>3. ASSUME NEW q \in Process, pc'[q] # "idle"
        PROVE  \A i \in 1 .. Len(updated'[q]) : updated'[q][i].id <= drawn'
    BY <1>2, <1>3, <1>4, <2>3
  <2> QED
    BY <2>2, <2>3 DEF IdsDrawn
<1> QED
  BY <1>1, <1>2, <1>5, <1>6 DEF ReturnedKept, Elements

\* Replacing the file is appending to it.
LEMMA ReplaceStep ==
    ASSUME TakeTurns, TurnInv, NEW p \in Process, Replace(p)
    PROVE  IdsDrawn' /\ WriterInv' /\ ReturnedKept'
<1>1. TypeOK /\ IdsDrawn /\ ReturnedKept /\ WriterInv
  BY DEF TurnInv, ChainInv
<1>2. /\ pc[p] = "loaded" /\ pc'[p] = "replaced"
      /\ ledger' = updated[p]
      /\ UNCHANGED <<updated, returned, drawn, damages>>
      /\ \A q \in Process \ {p} : pc'[q] = pc[q]
  BY <1>1 DEF Replace, TypeOK
<1>3. \A q \in Process \ {p} : pc[q] = "idle"
  BY <1>2 DEF TakeTurns
<1>4. WriterInv'
  BY <1>2, <1>3 DEF WriterInv
<1>5. IdsDrawn'
  BY <1>1, <1>2, <1>3 DEF IdsDrawn
<1>6. damages = 0 => IsPrefixOf(ledger, updated[p])
  BY <1>1, <1>2 DEF WriterInv, Extends
<1>7. ledger \in Seq(Entry) /\ updated[p] \in Seq(Entry)
  BY <1>1 DEF TypeOK
<1>8. damages = 0 => Elements(ledger) \subseteq Elements(updated[p])
  BY <1>6, <1>7 DEF IsPrefixOf, Elements
<1>9. ReturnedKept'
  BY <1>1, <1>2, <1>8 DEF ReturnedKept, Elements
<1> QED
  BY <1>4, <1>5, <1>9

\* Leaving append() without touching the file.
LEMMA LeaveStep ==
    ASSUME TurnInv, NEW p \in Process, Leave(p),
           UNCHANGED <<ledger, drawn, damages>>
    PROVE  IdsDrawn' /\ WriterInv'
<1>1. TypeOK /\ IdsDrawn /\ WriterInv
  BY DEF TurnInv, ChainInv
<1>2. /\ pc'[p] = "idle"
      /\ \A q \in Process \ {p} : UNCHANGED <<pc[q], updated[q]>>
  BY <1>1 DEF Leave, TypeOK
<1>3. IdsDrawn'
  BY <1>1, <1>2 DEF IdsDrawn
<1>4. WriterInv'
  BY <1>1, <1>2 DEF WriterInv, Extends, IsPrefixOf
<1> QED
  BY <1>3, <1>4

\* The entry append() returns is the last one of the file.
LEMMA ReturnStep ==
    ASSUME TurnInv, NEW p \in Process, Return(p)
    PROVE  /\ returned' = returned \union {updated[p][Len(updated[p])]}
           /\ updated[p] # <<>>
           /\ updated[p] \in Seq(Entry)
           /\ damages = 0 => ledger = updated[p]
           /\ ReturnedKept'
<1>1. /\ returned' = returned \union {updated[p][Len(updated[p])]}
      /\ pc[p] = "replaced" /\ UNCHANGED <<ledger, damages>>
  BY DEF Return
<1>2. updated[p] \in Seq(Entry) /\ updated[p] # <<>>
  BY <1>1 DEF TurnInv, ChainInv, ListsLoad, TypeOK
<1>3. Len(updated[p]) \in 1 .. Len(updated[p])
  BY <1>2
<1>4. damages = 0 => ledger = updated[p]
  BY <1>1 DEF TurnInv, WriterInv
<1>5. damages = 0 => updated[p][Len(updated[p])] \in Elements(ledger)
  BY <1>3, <1>4 DEF Elements
<1>6. ReturnedKept'
  BY <1>1, <1>5 DEF ReturnedKept, Elements, TurnInv
<1> QED
  BY <1>1, <1>2, <1>4, <1>6

\* After an edit nothing is claimed.
LEMMA EditStep ==
    ASSUME TypeOK, NEW i \in 1 .. Len(ledger), Damage(i)
    PROVE  damages' \in Nat /\ damages' > 0
BY BoundAssumption DEF Damage, TypeOK

\* Each step of processes that take turns keeps the invariant.
LEMMA TurnStep ==
    TakeTurns /\ TakeTurns' /\ TurnInv /\ [Next]_vars => TurnInv'
<1> SUFFICES ASSUME TakeTurns, TakeTurns', TurnInv, [Next]_vars
             PROVE  TurnInv'
  OBVIOUS
<1>0. ChainInv' /\ TypeOK /\ TypeOK'
  BY ChainStep DEF TurnInv, ChainInv
<1> SUFFICES IdsDrawn' /\ WriterInv' /\ ReturnedKept'
  BY <1>0 DEF TurnInv
<1>1. ASSUME NEW p \in Process, NEW t \in Trace, Load(p, t)
      PROVE  IdsDrawn' /\ WriterInv' /\ ReturnedKept'
  BY <1>0, <1>1, LoadStep
<1>2. ASSUME NEW p \in Process, Replace(p)
      PROVE  IdsDrawn' /\ WriterInv' /\ ReturnedKept'
  BY <1>2, ReplaceStep
<1>3. ASSUME NEW p \in Process, WriteFails(p) \/ VerifyFails(p) \/ Crash(p)
      PROVE  IdsDrawn' /\ WriterInv' /\ ReturnedKept'
  <2>1. Leave(p) /\ UNCHANGED <<ledger, drawn, returned, damages>>
    BY <1>3 DEF WriteFails, VerifyFails, Crash, historyVars
  <2> QED
    BY <2>1, LeaveStep DEF ReturnedKept, Elements, TurnInv
<1>4. ASSUME NEW p \in Process, Return(p)
      PROVE  IdsDrawn' /\ WriterInv' /\ ReturnedKept'
  <2>1. Leave(p) /\ UNCHANGED <<ledger, drawn, damages>>
    BY <1>4 DEF Return
  <2> QED
    BY <1>4, <2>1, LeaveStep, ReturnStep
<1>5. ASSUME NEW i \in 1 .. Len(ledger), Damage(i)
      PROVE  IdsDrawn' /\ WriterInv' /\ ReturnedKept'
  <2>1. damages' # 0
    BY <1>0, <1>5, EditStep
  <2> QED
    BY <2>1 DEF IdsDrawn, WriterInv, ReturnedKept
<1>6. CASE UNCHANGED vars
  BY <1>6 DEF vars, localVars, historyVars, TurnInv, IdsDrawn, WriterInv,
     Extends, IsPrefixOf, ReturnedKept, Elements
<1> QED
  BY <1>1, <1>2, <1>3, <1>4, <1>5, <1>6 DEF Next, AppendStep

\* Any number of processes that append one after the other keep the file a list
\* their entries are added to, whatever writes fail and whoever crashes.
THEOREM TurnInvariant == Spec /\ []TakeTurns => []TurnInv
BY TurnInit, TurnStep, PTL DEF Spec

\* Processes that take turns: every trace whose append() returned is in an
\* unedited ledger, whatever writes fail and wherever a process crashes.
THEOREM ReturnedAreKept == Spec /\ []TakeTurns => []ReturnedKept
<1>1. TurnInv => ReturnedKept
  BY DEF TurnInv
<1> QED
  BY <1>1, TurnInvariant, PTL

\* What a step of processes that take turns does to the file.
LEMMA FileStep ==
    ASSUME TurnInv, [Next]_vars
    PROVE  \/ UNCHANGED <<ledger, returned, damages>>
           \/ \E p \in Process : Replace(p) /\ UNCHANGED <<returned, damages>>
           \/ \E p \in Process : Return(p) /\ UNCHANGED <<ledger, damages>>
           \/ \E i \in 1 .. Len(ledger) : Damage(i) /\ UNCHANGED returned
BY DEF Next, AppendStep, Load, Replace, WriteFails, Return, VerifyFails, Crash,
   Damage, vars, historyVars

\* An unedited ledger only ever grows at its end.
THEOREM LedgerAppendOnly == Spec /\ []TakeTurns => AppendOnly
<1>1. TurnInv /\ [Next]_vars =>
        [damages' = 0 => IsPrefixOf(ledger, ledger')]_vars
  <2> SUFFICES ASSUME TurnInv, [Next]_vars, damages' = 0
               PROVE  IsPrefixOf(ledger, ledger')
    OBVIOUS
  <2>1. ledger \in Seq(Entry) /\ TypeOK /\ WriterInv
    BY DEF TurnInv, ChainInv, TypeOK
  <2>2. IsPrefixOf(ledger, ledger)
    BY <2>1 DEF IsPrefixOf
  <2>3. ASSUME NEW p \in Process, Replace(p), UNCHANGED damages
        PROVE  IsPrefixOf(ledger, ledger')
    BY <2>1, <2>3 DEF Replace, WriterInv, Extends
  <2>4. ASSUME NEW i \in 1 .. Len(ledger), Damage(i)
        PROVE  FALSE
    BY <2>1, <2>4, EditStep
  <2> QED
    BY <2>2, <2>3, <2>4, FileStep
<1> QED
  BY <1>1, TurnInvariant, PTL DEF Spec, AppendOnly

\* A step of processes that take turns is one of the promised list, or none.
LEMMA ListStep ==
    ASSUME TurnInv, TurnInv', [Next]_vars
    PROVE  [List!Next]_(List!vars)
<1>1. /\ ledger \in Seq(Entry) /\ ledger' \in Seq(Entry)
      /\ returned \subseteq Entry /\ returned' \subseteq Entry
      /\ damages \in Nat /\ damages' \in Nat /\ TypeOK
  BY BoundAssumption DEF TurnInv, ChainInv, TypeOK
<1>2. CASE UNCHANGED <<ledger, returned, damages>>
  BY <1>2 DEF List!vars
<1>3. ASSUME damages > 0, damages' >= damages, returned \subseteq returned'
      PROVE  List!Edit
  BY <1>1, <1>3 DEF List!Edit
<1>4. ASSUME NEW p \in Process, Replace(p), UNCHANGED <<returned, damages>>
      PROVE  [List!Next]_(List!vars)
  <2>1. CASE damages = 0
    <3>1. Extends(ledger', ledger)
      BY <1>4, <2>1 DEF Replace, TurnInv, WriterInv
    <3>2. Len(ledger') = Len(ledger) + 1 /\ SubSeq(ledger', 1, Len(ledger)) = ledger
      BY <1>1, <3>1 DEF Extends, IsPrefixOf
    <3>3. \A i \in 1 .. Len(ledger) : ledger[i] # ledger'[Len(ledger')]
      BY <3>1 DEF Extends
    <3>4. List!Grow
      BY <1>1, <1>4, <3>2, <3>3 DEF List!Grow
    <3> QED
      BY <3>4 DEF List!Next
  <2>2. CASE damages # 0
    BY <1>1, <1>3, <1>4, <2>2 DEF List!Next
  <2> QED
    BY <2>1, <2>2
<1>5. ASSUME NEW p \in Process, Return(p), UNCHANGED <<ledger, damages>>
      PROVE  [List!Next]_(List!vars)
  <2>1. /\ returned' = returned \union {updated[p][Len(updated[p])]}
        /\ updated[p] # <<>>
        /\ damages = 0 => ledger = updated[p]
    BY <1>5, ReturnStep
  <2>2. CASE damages = 0
    <3>1. List!Confirm
      BY <1>5, <2>1, <2>2 DEF List!Confirm
    <3> QED
      BY <3>1 DEF List!Next
  <2>3. CASE damages # 0
    BY <1>1, <1>3, <1>5, <2>1, <2>3 DEF List!Next
  <2> QED
    BY <2>2, <2>3
<1>6. ASSUME NEW i \in 1 .. Len(ledger), Damage(i), UNCHANGED returned
      PROVE  [List!Next]_(List!vars)
  <2>1. damages' > 0
    BY <1>1, <1>6, EditStep
  <2>2. List!Edit
    BY <1>1, <1>6, <2>1 DEF List!Edit
  <2> QED
    BY <2>2 DEF List!Next
<1> QED
  BY <1>2, <1>4, <1>5, <1>6, FileStep

\* Any number of processes that take turns implement the list the rest of the
\* runtime takes the ledger to be, up to the first edit of the file.
THEOREM TurnsImplementList == Spec /\ []TakeTurns => ImplementsAppendOnlyList
<1>1. Init => List!Init
  BY DEF Init, List!Init
<1>2. TurnInv /\ TurnInv' /\ [Next]_vars => [List!Next]_(List!vars)
  BY ListStep
<1> QED
  BY <1>1, <1>2, TurnInvariant, PTL DEF Spec, ImplementsAppendOnlyList, List!Spec

\* One process takes turns by itself.
THEOREM SingleTakesTurns ==
    (\A p, q \in Process : p = q) => (Spec => []TakeTurns)
<1> SUFFICES ASSUME \A p, q \in Process : p = q
             PROVE  Spec => []TakeTurns
  OBVIOUS
<1>1. TakeTurns
  BY DEF TakeTurns
<1> QED
  BY <1>1, PTL
==============================================================================
