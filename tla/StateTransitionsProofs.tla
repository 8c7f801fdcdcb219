------------------------ MODULE StateTransitionsProofs ------------------------
(***************************************************************************)
(* What TLAPS proves of StateTransitions, and of EntryFlow on top of it,   *)
(* for any number of callers, subjects, authorities, questions and traces. *)
(***************************************************************************)
EXTENDS EntryFlow, FiniteSetTheorems, TLAPS

Own(s) == {i \in 1 .. Len(traces) : traces[i].subject = s}

\* The rules, as far as the proofs need them.
LEMMA RuleTypes ==
    ASSUME NEW rule \in CanonicalTransitions
    PROVE  rule.id \in 1 .. 17 /\ rule.prior \in State /\ rule.result \in State
<1>1. CASE rule \in EntryRules
  BY <1>1 DEF EntryRules, Rule, State
<1>2. CASE rule \in LaterRules
  BY <1>2 DEF LaterRules, Rule, State
<1> QED
  BY <1>1, <1>2 DEF CanonicalTransitions

\* A set of indices that is not empty has a greatest one.
LEMMA GreatestExists ==
    ASSUME NEW n \in Nat, NEW S \in SUBSET (1 .. n), S # {}
    PROVE  \E x \in S : \A y \in S : y <= x
<1> DEFINE up(x) == {y \in S : x <= y}
           T == {up(x) : x \in S}
<1>1. IsFiniteSet(S)
  <2>1. IsFiniteSet(1 .. n)
    BY FS_Interval
  <2> QED
    BY <2>1, FS_Subset
<1>2. \A x \in S : up(x) \in FiniteSubsetsOf(S)
  BY <1>1, FS_Subset DEF FiniteSubsetsOf
<1>3. T \subseteq FiniteSubsetsOf(S) /\ T # {}
  BY <1>2
<1>4. PICK D \in T : \A E \in T : ~(<<E, D>> \in StrictSubsetOrdering(S))
  <2>1. IsWellFoundedOn(StrictSubsetOrdering(S), FiniteSubsetsOf(S))
    BY FS_StrictSubsetOrderingWellFounded
  <2> HIDE DEF T
  <2> QED
    BY <1>3, <2>1, WFMin
<1>5. PICK x \in S : D = up(x)
  BY <1>4
<1>6. \A y \in S : y <= x
  <2> SUFFICES ASSUME NEW y \in S, x < y
               PROVE  FALSE
    OBVIOUS
  <2>1. up(y) \subseteq up(x) /\ up(y) # up(x)
    <3>1. x \in up(x) /\ x \notin up(y)
      OBVIOUS
    <3>2. \A z \in up(y) : z \in up(x)
      OBVIOUS
    <3> QED
      BY <3>1, <3>2
  <2>2. <<up(y), up(x)>> \in StrictSubsetOrdering(S)
    BY <2>1 DEF StrictSubsetOrdering
  <2> QED
    BY <1>4, <1>5, <2>2
<1> QED
  BY <1>6

\* The state the ledger gives a subject is the result of its last trace.
EndsInState(s) ==
    /\ Own(s) = {} => LedgerState(s) = "UNENCOUNTERED"
    /\ Own(s) # {} => \E i \in Own(s) : /\ \A j \in Own(s) : j <= i
                                        /\ LedgerState(s) = traces[i].result

LedgerEnds == \A s \in Subject : EndsInState(s)

\* The last trace of a subject exists and is the one LedgerState looks at.
LEMMA LastTrace == TypeOK => LedgerEnds
<1> SUFFICES ASSUME TypeOK, NEW s \in Subject
             PROVE  EndsInState(s)
  BY DEF LedgerEnds
<1> USE DEF EndsInState
<1>1. Len(traces) \in Nat /\ Own(s) \in SUBSET (1 .. Len(traces))
  BY DEF TypeOK, Own
<1>2. CASE Own(s) = {}
  BY <1>2 DEF Own, LedgerState
<1>3. CASE Own(s) # {}
  <2>1. \E i \in Own(s) : \A j \in Own(s) : j <= i
    BY <1>1, <1>3, GreatestExists
  <2> DEFINE last == CHOOSE i \in Own(s) : \A j \in Own(s) : j <= i
  <2>2. last \in Own(s) /\ \A j \in Own(s) : j <= last
    BY <2>1
  <2>3. LedgerState(s) = traces[last].result
    BY <1>3 DEF LedgerState, Own
  <2> QED
    BY <1>3, <2>2, <2>3
<1> QED
  BY <1>2, <1>3

-----------------------------------------------------------------------------
(* Nobody invents a state.                                                 *)

\* What a caller believes of a subject was once true.
KnownWasReached ==
    \A c \in Client, s \in Subject :
      \/ known[c][s] = "UNENCOUNTERED"
      \/ \E j \in Own(s) : traces[j].result = known[c][s]

ReachedInv == TypeOK /\ PriorWasReached /\ KnownWasReached

\* What an accepted request appends.
LEMMA Appended ==
    ASSUME TypeOK, NEW c \in Client, NEW s \in Subject,
           NEW rule \in CanonicalTransitions, NEW grounds \in Grounds,
           Accepted(RequestOf(c, s, rule, grounds)),
           traces' = Append(traces, TraceOf(RequestOf(c, s, rule, grounds)))
    PROVE  /\ traces' \in Seq(Trace)
           /\ Len(traces') = Len(traces) + 1
           /\ \A i \in 1 .. Len(traces) : traces'[i] = traces[i]
           /\ traces'[Len(traces) + 1] =
                [subject |-> s, rule |-> rule.id, prior |-> known[c][s],
                result |-> rule.result, grounds |-> grounds]
           /\ rule.prior = known[c][s]
           /\ rule.authority => grounds.authority # NoAuthority
           /\ rule.evidence => grounds.evidence
<1> DEFINE r == RequestOf(c, s, rule, grounds)
           t == [subject |-> s, rule |-> rule.id, prior |-> known[c][s],
                result |-> rule.result, grounds |-> grounds]
<1>1. /\ "PRIOR_STATE_MISMATCH" \notin Reasons(r)
      /\ "AUTHORITY_REQUIRED" \notin Reasons(r)
      /\ "EVIDENCE_REQUIRED" \notin Reasons(r)
  BY DEF Accepted
<1>2. /\ rule.prior = known[c][s]
      /\ rule.authority => grounds.authority # NoAuthority
      /\ rule.evidence => grounds.evidence
  BY <1>1, StateTransitionsAssumption DEF Reasons, RequestOf
<1>3. TraceOf(r) = t
  BY <1>2 DEF TraceOf, RequestOf
<1>4. t \in Trace
  BY <1>2, RuleTypes DEF Trace
<1> HIDE DEF t
<1>5. traces' = Append(traces, t) /\ traces \in Seq(Trace)
  BY <1>3 DEF TypeOK
<1>6. /\ traces' \in Seq(Trace) /\ Len(traces') = Len(traces) + 1
      /\ \A i \in 1 .. Len(traces) : traces'[i] = traces[i]
      /\ traces'[Len(traces) + 1] = t
  BY <1>4, <1>5
<1> QED
  BY <1>2, <1>6 DEF t

\* Every step keeps the types.
LEMMA TypeStep ==
    ASSUME TypeOK, [Next]_vars
    PROVE  TypeOK'
<1>1. CASE UNCHANGED vars
  BY <1>1 DEF vars, TypeOK
<1>2. ASSUME NEW c \in Client, NEW s \in Subject,
             NEW rule \in CanonicalTransitions, NEW grounds \in Grounds,
             Execute(c, s, rule, grounds) \/ ExecuteUnreported(c, s, rule, grounds)
      PROVE  TypeOK'
  <2>1. traces' \in Seq(Trace)
    BY <1>2, Appended DEF Execute, ExecuteUnreported
  <2>2. known' \in [Client -> [Subject -> State]]
    <3>1. known' = known \/ known' = [known EXCEPT ![c][s] = rule.result]
      BY <1>2 DEF Execute, ExecuteUnreported
    <3>2. rule.result \in State
      BY RuleTypes
    <3> QED
      BY <3>1, <3>2 DEF TypeOK
  <2> QED
    BY <1>2, <2>1, <2>2 DEF Execute, ExecuteUnreported, TypeOK
<1>3. ASSUME NEW c \in Client, NEW s \in Subject, ReadLedger(c, s)
      PROVE  TypeOK'
  <2>1. LedgerState(s) \in State
    <3>1. "UNENCOUNTERED" \in State
      BY DEF State
    <3>2. \A i \in Own(s) : traces[i] \in Trace
      BY DEF Own, TypeOK
    <3>3. \A i \in Own(s) : traces[i].result \in State
      BY <3>2 DEF Trace
    <3> QED
      BY <3>1, <3>3, LastTrace DEF EndsInState, LedgerEnds
  <2> QED
    BY <1>3, <2>1 DEF ReadLedger, TypeOK
<1> QED
  BY <1>1, <1>2, <1>3 DEF Next

\* Each trace and each caller's knowledge has its type.
THEOREM TypeCorrect == Spec => []TypeOK
<1>1. Init => TypeOK
  BY DEF Init, TypeOK, State
<1>2. TypeOK /\ [Next]_vars => TypeOK'
  BY TypeStep
<1> QED
  BY <1>1, <1>2, PTL DEF Spec

\* Every step keeps what callers know among what was reached.
LEMMA ReachedStep ==
    ASSUME ReachedInv, [Next]_vars
    PROVE  ReachedInv'
<1>1. TypeOK'
  BY TypeStep DEF ReachedInv
<1>2. CASE UNCHANGED vars
  BY <1>1, <1>2 DEF vars, ReachedInv, PriorWasReached, KnownWasReached, Before, Own
<1>3. ASSUME NEW c \in Client, NEW s \in Subject,
             NEW rule \in CanonicalTransitions, NEW grounds \in Grounds,
             Execute(c, s, rule, grounds) \/ ExecuteUnreported(c, s, rule, grounds)
      PROVE  ReachedInv'
  <2> DEFINE n == Len(traces)
  <2>1. /\ n \in Nat /\ Len(traces') = n + 1
        /\ \A i \in 1 .. n : traces'[i] = traces[i]
        /\ traces'[n + 1].subject = s /\ traces'[n + 1].prior = known[c][s]
        /\ traces'[n + 1].result = rule.result
    <3>1. /\ Accepted(RequestOf(c, s, rule, grounds))
          /\ traces' = Append(traces, TraceOf(RequestOf(c, s, rule, grounds)))
      BY <1>3 DEF Execute, ExecuteUnreported
    <3>2. n \in Nat
      BY DEF ReachedInv, TypeOK
    <3>3. /\ Len(traces') = n + 1
          /\ \A i \in 1 .. n : traces'[i] = traces[i]
          /\ traces'[n + 1] =
               [subject |-> s, rule |-> rule.id, prior |-> known[c][s],
                result |-> rule.result, grounds |-> grounds]
      BY <3>1, Appended DEF ReachedInv
    <3> QED
      BY <3>2, <3>3
  <2>2. \A q \in Subject : \A j \in Own(q) : j \in Own(q)' /\ j \in 1 .. n
                                             /\ traces'[j] = traces[j]
    BY <2>1 DEF Own
  <2>3. PriorWasReached'
    <3> SUFFICES ASSUME NEW i \in 1 .. n + 1
                 PROVE  \/ traces'[i].prior = "UNENCOUNTERED"
                        \/ \E j \in 1 .. n + 1 :
                             /\ j < i /\ traces'[j].subject = traces'[i].subject
                             /\ traces'[j].result = traces'[i].prior
      BY <2>1 DEF PriorWasReached, Before
    <3>1. CASE i \in 1 .. n
      BY <2>1, <3>1 DEF ReachedInv, PriorWasReached, Before
    <3>2. CASE i = n + 1
      BY <2>1, <2>2, <3>2 DEF ReachedInv, KnownWasReached, Own
    <3> QED
      BY <2>1, <3>1, <3>2
  <2>4. KnownWasReached'
    <3> SUFFICES ASSUME NEW d \in Client, NEW q \in Subject
                 PROVE  \/ known'[d][q] = "UNENCOUNTERED"
                        \/ \E j \in Own(q)' : traces'[j].result = known'[d][q]
      BY DEF KnownWasReached
    <3>1. CASE known'[d][q] = known[d][q]
      BY <2>2, <3>1 DEF ReachedInv, KnownWasReached
    <3>2. CASE known'[d][q] # known[d][q]
      <4>1. q = s /\ known'[d][q] = rule.result
        BY <1>3, <3>2 DEF Execute, ExecuteUnreported, ReachedInv, TypeOK
      <4>2. n + 1 \in Own(s)'
        BY <2>1 DEF Own
      <4> QED
        BY <2>1, <4>1, <4>2
    <3> QED
      BY <3>1, <3>2
  <2> QED
    BY <1>1, <2>3, <2>4 DEF ReachedInv
<1>4. ASSUME NEW c \in Client, NEW s \in Subject, ReadLedger(c, s)
      PROVE  ReachedInv'
  <2>1. traces' = traces
    BY <1>4 DEF ReadLedger
  <2>2. \/ LedgerState(s) = "UNENCOUNTERED"
        \/ \E j \in Own(s) : traces[j].result = LedgerState(s)
    BY LastTrace DEF ReachedInv, EndsInState, LedgerEnds
  <2>3. \A d \in Client, q \in Subject :
          known'[d][q] = IF d = c /\ q = s THEN LedgerState(s) ELSE known[d][q]
    BY <1>4 DEF ReadLedger, ReachedInv, TypeOK
  <2>4. KnownWasReached'
    BY <2>1, <2>2, <2>3 DEF ReachedInv, KnownWasReached, Own
  <2>5. PriorWasReached'
    BY <2>1 DEF ReachedInv, PriorWasReached, Before
  <2> QED
    BY <1>1, <2>4, <2>5 DEF ReachedInv
<1> QED
  BY <1>2, <1>3, <1>4 DEF Next

\* However many callers act on whatever stale knowledge, no trace starts from a
\* state its subject was never in.
THEOREM PriorsWereReached == Spec => []PriorWasReached
<1>1. Init => ReachedInv
  BY DEF Init, ReachedInv, TypeOK, State, PriorWasReached, KnownWasReached
<1>2. ReachedInv /\ [Next]_vars => ReachedInv'
  BY ReachedStep
<1>3. ReachedInv => PriorWasReached
  BY DEF ReachedInv
<1> QED
  BY <1>1, <1>2, <1>3, PTL DEF Spec
-----------------------------------------------------------------------------
(* Callers that know where a subject is when they move it.                 *)

\* Whoever executes a transition knows the state the subject is in: it has read
\* the ledger, or been told, after the last transition of the subject.
ActOnCurrent ==
    \A c \in Client, s \in Subject, rule \in CanonicalTransitions, grounds \in Grounds :
      Execute(c, s, rule, grounds) \/ ExecuteUnreported(c, s, rule, grounds) =>
        known[c][s] = LedgerState(s)

\* The states a participation that drifted goes through to be admitted again.
Readmission == {"RECONSTRUCTION_REQUIRED", "INTERPRETED", "COMPETENCY_EVALUATED"}

\* What the table of rules says of activations, drifts and exits.
LEMMA RuleFacts ==
    ASSUME NEW rule \in CanonicalTransitions
    PROVE  /\ rule.result = "PARTICIPATION_ACTIVE" =>
                /\ rule.authority /\ rule.evidence
                /\ rule.prior \notin Readmission /\ rule.prior # "EXITED"
           /\ rule.prior \in Readmission =>
                rule.result \in Readmission \union {"PARTICIPATION_ADMITTED"}
           /\ rule.prior = "EXITED" => rule.result = "REVALIDATION_REQUIRED"
<1>1. CASE rule \in EntryRules
  BY <1>1 DEF EntryRules, Rule, Readmission
<1>2. CASE rule \in LaterRules
  BY <1>2 DEF LaterRules, Rule, Readmission
<1> QED
  BY <1>1, <1>2 DEF CanonicalTransitions

\* Trace i starts where the trace of its subject before it ended.
Linked(i) ==
    \/ /\ \A j \in 1 .. Len(traces) : ~Before(j, i)
       /\ traces[i].prior = "UNENCOUNTERED"
    \/ \E j \in 1 .. Len(traces) :
         /\ Before(j, i)
         /\ \A k \in 1 .. Len(traces) : Before(k, i) => k <= j
         /\ traces[j].result = traces[i].prior

\* A drift is followed by a new admission, or the subject is still on the way;
\* an exit is followed by a revalidation, or the subject is still out.
Returning(s) ==
    \A j \in Own(s) :
      /\ traces[j].result = "RECONSTRUCTION_REQUIRED" =>
           \/ \E k \in Own(s) : j <= k /\ traces[k].result = "PARTICIPATION_ADMITTED"
           \/ LedgerState(s) \in Readmission
      /\ traces[j].result = "EXITED" =>
           \/ \E k \in Own(s) : j <= k /\ traces[k].result = "REVALIDATION_REQUIRED"
           \/ LedgerState(s) = "EXITED"

\* Trace i is no activation, or a guarded one.
Guarded(i) ==
    traces[i].result = "PARTICIPATION_ACTIVE" =>
      /\ traces[i].grounds.authority # NoAuthority
      /\ traces[i].grounds.evidence
      /\ \A j \in 1 .. Len(traces) : Before(j, i) =>
           /\ traces[j].result = "RECONSTRUCTION_REQUIRED" =>
                \E k \in j .. i : /\ traces[k].subject = traces[i].subject
                                  /\ traces[k].result = "PARTICIPATION_ADMITTED"
           /\ traces[j].result = "EXITED" =>
                \E k \in j .. i : /\ traces[k].subject = traces[i].subject
                                  /\ traces[k].result = "REVALIDATION_REQUIRED"

\* The traces of each subject are one path, on which nobody takes part who was
\* not let in.
PathsKept ==
    /\ \A s \in Subject : Returning(s)
    /\ \A i \in 1 .. Len(traces) : Linked(i) /\ Guarded(i)

PathInv ==
    /\ TypeOK
    /\ unreported = 0 =>
         /\ \A c \in Client, s \in Subject : known[c][s] = LedgerState(s)
         /\ PathsKept

\* A new trace moves its subject and no other.
LEMMA LedgerAfter ==
    ASSUME TypeOK, TypeOK', NEW s \in Subject,
           Len(traces') = Len(traces) + 1,
           \A i \in 1 .. Len(traces) : traces'[i] = traces[i],
           traces'[Len(traces) + 1].subject = s
    PROVE  /\ LedgerState(s)' = traces'[Len(traces) + 1].result
           /\ Own(s)' = Own(s) \union {Len(traces) + 1}
           /\ \A q \in Subject \ {s} : /\ LedgerState(q)' = LedgerState(q)
                                        /\ Own(q)' = Own(q)
<1> DEFINE n == Len(traces)
<1>1. n \in Nat
  BY DEF TypeOK
<1>2. \A q \in Subject : EndsInState(q) /\ EndsInState(q)'
  <2>1. LedgerEnds'
    BY LastTrace, PTL
  <2> QED
    BY <2>1, LastTrace DEF LedgerEnds
<1>3. Own(s)' = Own(s) \union {n + 1}
  BY <1>1 DEF Own
<1>4. \A q \in Subject \ {s} : Own(q)' = Own(q)
  BY <1>1 DEF Own
<1>5. LedgerState(s)' = traces'[n + 1].result
  <2>1. PICK i \in Own(s)' : /\ \A j \in Own(s)' : j <= i
                             /\ LedgerState(s)' = traces'[i].result
    BY <1>3, <1>2 DEF EndsInState
  <2>2. i = n + 1
    BY <1>1, <1>3, <2>1 DEF Own
  <2> QED
    BY <2>1, <2>2
<1>6. ASSUME NEW q \in Subject \ {s}
      PROVE  LedgerState(q)' = LedgerState(q)
  <2>1. \A i \in Own(q) : i \in 1 .. n /\ traces'[i] = traces[i]
    BY DEF Own
  <2> QED
    BY <1>1, <1>4, <1>2, <2>1 DEF EndsInState
<1> QED
  BY <1>3, <1>4, <1>5, <1>6

\* What a transition does to the states, for a caller that knows them.
LEMMA TransitionMoves ==
    ASSUME TypeOK, TypeOK', NEW c \in Client, NEW s \in Subject,
           NEW rule \in CanonicalTransitions, NEW grounds \in Grounds,
           Execute(c, s, rule, grounds) \/ ExecuteUnreported(c, s, rule, grounds),
           known[c][s] = LedgerState(s)
    PROVE  /\ rule.prior = LedgerState(s) /\ LedgerState(s)' = rule.result
           /\ \A q \in Subject \ {s} : LedgerState(q)' = LedgerState(q)
<1> DEFINE t == [subject |-> s, rule |-> rule.id, prior |-> known[c][s],
                result |-> rule.result, grounds |-> grounds]
<1>1. /\ Len(traces') = Len(traces) + 1
      /\ \A i \in 1 .. Len(traces) : traces'[i] = traces[i]
      /\ traces'[Len(traces) + 1] = t /\ rule.prior = known[c][s]
  <2>1. /\ Accepted(RequestOf(c, s, rule, grounds))
        /\ traces' = Append(traces, TraceOf(RequestOf(c, s, rule, grounds)))
    BY DEF Execute, ExecuteUnreported
  <2> QED
    BY <2>1, Appended
<1> QED
  BY <1>1, LedgerAfter

\* The step that matters: the caller knows where the subject is, and the rule
\* it names starts there.
LEMMA ExecuteStep ==
    ASSUME TypeOK, TypeOK', PathsKept,
           NEW c \in Client, NEW s \in Subject,
           NEW rule \in CanonicalTransitions, NEW grounds \in Grounds,
           Execute(c, s, rule, grounds) \/ ExecuteUnreported(c, s, rule, grounds),
           known[c][s] = LedgerState(s)
    PROVE  PathsKept'
<1>0. PICK n \in Nat : n = Len(traces)
  BY DEF TypeOK
<1> DEFINE t == [subject |-> s, rule |-> rule.id, prior |-> known[c][s],
                result |-> rule.result, grounds |-> grounds]
<1>1. /\ n = Len(traces) /\ Len(traces') = n + 1
      /\ \A i \in 1 .. n : traces'[i] = traces[i]
      /\ traces'[n + 1] = t /\ rule.prior = known[c][s]
      /\ rule.authority => grounds.authority # NoAuthority
      /\ rule.evidence => grounds.evidence
  <2>1. /\ Accepted(RequestOf(c, s, rule, grounds))
        /\ traces' = Append(traces, TraceOf(RequestOf(c, s, rule, grounds)))
    BY DEF Execute, ExecuteUnreported
  <2> QED
    BY <1>0, <2>1, Appended
<1>2. /\ LedgerState(s)' = rule.result
      /\ Own(s)' = Own(s) \union {n + 1}
      /\ \A q \in Subject \ {s} : LedgerState(q)' = LedgerState(q) /\ Own(q)' = Own(q)
  BY <1>1, LedgerAfter
<1>3. rule.prior = LedgerState(s) /\ EndsInState(s)
  BY <1>1, LastTrace DEF LedgerEnds
<1>4. \A q \in Subject : \A j \in Own(q) : j \in 1 .. n /\ traces'[j] = traces[j]
  BY <1>1 DEF Own
<1>5. /\ \A i \in 1 .. n, j \in 1 .. n : Before(j, i)' <=> Before(j, i)
      /\ \A i \in 1 .. n : ~Before(n + 1, i)'
      /\ \A j \in 1 .. n + 1 : Before(j, n + 1)' <=> j \in Own(s)
  BY <1>1 DEF Before, Own
<1>6. \A q \in Subject : Returning(q)'
  <2>1. ASSUME NEW q \in Subject \ {s}
        PROVE  Returning(q)'
    BY <1>2, <1>4 DEF PathsKept, Returning
  <2>2. Returning(s)'
    <3>1. ASSUME NEW j \in Own(s), traces[j].result = "RECONSTRUCTION_REQUIRED"
          PROVE  \/ \E k \in Own(s)' : /\ j <= k
                                       /\ traces'[k].result = "PARTICIPATION_ADMITTED"
                 \/ rule.result \in Readmission
      <4>1. \/ \E k \in Own(s) : j <= k /\ traces[k].result = "PARTICIPATION_ADMITTED"
            \/ rule.prior \in Readmission
        BY <1>3, <3>1 DEF PathsKept, Returning
      <4>2. n + 1 \in Own(s)' /\ j <= n + 1 /\ traces'[n + 1].result = rule.result
        BY <1>1, <1>2, <1>4
      <4> QED
        BY <1>2, <1>4, <4>1, <4>2, RuleFacts
    <3>2. ASSUME NEW j \in Own(s), traces[j].result = "EXITED"
          PROVE  \/ \E k \in Own(s)' : /\ j <= k
                                       /\ traces'[k].result = "REVALIDATION_REQUIRED"
                 \/ rule.result = "EXITED"
      <4>1. \/ \E k \in Own(s) : j <= k /\ traces[k].result = "REVALIDATION_REQUIRED"
            \/ rule.prior = "EXITED"
        BY <1>3, <3>2 DEF PathsKept, Returning
      <4>2. n + 1 \in Own(s)' /\ j <= n + 1 /\ traces'[n + 1].result = rule.result
        BY <1>1, <1>2, <1>4
      <4> QED
        BY <1>2, <1>4, <4>1, <4>2, RuleFacts
    <3>3. traces'[n + 1].result = rule.result
      BY <1>1
    <3> QED
      BY <1>2, <1>4, <3>1, <3>2, <3>3 DEF Returning, Readmission
  <2> QED
    BY <2>1, <2>2
<1>7. ASSUME NEW i \in 1 .. n
      PROVE  Linked(i)' /\ Guarded(i)'
  <2>0. Linked(i) /\ Guarded(i)
    BY <1>0 DEF PathsKept
  <2>1. Linked(i) /\ Guarded(i) /\ traces'[i] = traces[i]
    BY <1>1, <2>0
  <2> DEFINE upto == 1 .. n
  <2>4. /\ 1 .. Len(traces) = upto /\ 1 .. Len(traces') = upto \union {n + 1}
        /\ \A j \in upto : traces'[j] = traces[j]
        /\ \A j \in upto \union {n + 1} : Before(j, i)' => j \in upto /\ Before(j, i)
        /\ \A j \in upto : Before(j, i) => Before(j, i)'
    <3>1. i \in upto /\ \A j \in upto : Before(j, i)' <=> Before(j, i)
      BY <1>5
    <3>2. ~Before(n + 1, i)'
      BY <1>5
    <3>3. 1 .. Len(traces) = upto /\ 1 .. Len(traces') = upto \union {n + 1}
      BY <1>0, <1>1
    <3>4. \A j \in upto : traces'[j] = traces[j]
      BY <1>1
    <3> HIDE DEF upto
    <3> QED
      BY <3>1, <3>2, <3>3, <3>4
  <2>2. Linked(i)'
    <3> HIDE DEF upto, t
    <3>1. CASE /\ \A j \in upto : ~Before(j, i)
               /\ traces[i].prior = "UNENCOUNTERED"
      BY <2>1, <2>4, <3>1 DEF Linked
    <3>2. ASSUME NEW j \in upto, Before(j, i),
                 \A k \in upto : Before(k, i) => k <= j,
                 traces[j].result = traces[i].prior
          PROVE  Linked(i)'
      BY <2>1, <2>4, <3>2 DEF Linked
    <3> QED
      BY <2>1, <2>4, <3>1, <3>2 DEF Linked
  <2>3. Guarded(i)'
    <3>1. \A j \in 1 .. n + 1 : Before(j, i)' => j \in 1 .. n /\ Before(j, i)
      BY <1>1, <1>5
    <3>2. \A j \in 1 .. n : \A k \in j .. i : traces'[k] = traces[k]
      BY <1>1
    <3> QED
      BY <1>1, <2>1, <3>1, <3>2 DEF Guarded
  <2> QED
    BY <2>2, <2>3
<1>8. Linked(n + 1)'
  <2>1. CASE Own(s) = {}
    BY <1>1, <1>3, <1>5, <2>1 DEF Linked, EndsInState
  <2>2. CASE Own(s) # {}
    <3>1. PICK j \in Own(s) : /\ \A k \in Own(s) : k <= j
                              /\ LedgerState(s) = traces[j].result
      BY <1>3, <2>2 DEF EndsInState
    <3>2. j \in 1 .. n + 1 /\ Before(j, n + 1)' /\ traces'[j].result = rule.prior
      BY <1>1, <1>3, <1>4, <1>5, <3>1
    <3>3. \A k \in 1 .. n + 1 : Before(k, n + 1)' => k <= j
      BY <1>5, <3>1
    <3>4. traces'[n + 1].prior = rule.prior
      BY <1>1
    <3> QED
      BY <1>1, <3>2, <3>3, <3>4 DEF Linked
  <2> QED
    BY <2>1, <2>2
<1>9. Guarded(n + 1)'
  <2> SUFFICES ASSUME rule.result = "PARTICIPATION_ACTIVE"
               PROVE  Guarded(n + 1)'
    BY <1>1 DEF Guarded
  <2>1. /\ rule.authority /\ rule.evidence
        /\ rule.prior \notin Readmission /\ rule.prior # "EXITED"
    BY RuleFacts
  <2>2. /\ traces'[n + 1].subject = s /\ traces'[n + 1].grounds = grounds
        /\ \A k \in Own(s) : k \in 1 .. n /\ traces'[k] = traces[k] /\ traces[k].subject = s
    BY <1>1, <1>4 DEF Own
  <2>3. ASSUME NEW j \in Own(s)
        PROVE  /\ traces'[j].result = "RECONSTRUCTION_REQUIRED" =>
                    \E k \in j .. n + 1 : /\ traces'[k].subject = s
                                          /\ traces'[k].result = "PARTICIPATION_ADMITTED"
               /\ traces'[j].result = "EXITED" =>
                    \E k \in j .. n + 1 : /\ traces'[k].subject = s
                                          /\ traces'[k].result = "REVALIDATION_REQUIRED"
    <3>1. Returning(s) /\ LedgerState(s) \notin Readmission /\ LedgerState(s) # "EXITED"
      BY <1>3, <2>1 DEF PathsKept
    <3>2. \A k \in Own(s) : j <= k => k \in j .. n + 1
      BY <1>1, <2>2
    <3> QED
      BY <2>2, <3>1, <3>2 DEF Returning
  <2> QED
    BY <1>1, <1>5, <2>1, <2>2, <2>3 DEF Guarded
<1>10. \A i \in 1 .. n + 1 : Linked(i)' /\ Guarded(i)'
  BY <1>1, <1>7, <1>8, <1>9
<1> QED
  BY <1>1, <1>6, <1>10 DEF PathsKept

\* What moves no subject keeps the paths.
LEMMA SameTraces ==
    ASSUME PathsKept, traces' = traces
    PROVE  PathsKept' /\ \A s \in Subject : LedgerState(s)' = LedgerState(s)
<1>1. \A s \in Subject : LedgerState(s)' = LedgerState(s) /\ Own(s)' = Own(s)
  BY DEF LedgerState, Own
<1>2. \A s \in Subject : Returning(s)' <=> Returning(s)
  BY <1>1 DEF Returning
<1>3. \A i \in 1 .. Len(traces) : /\ Linked(i)' <=> Linked(i)
                                  /\ Guarded(i)' <=> Guarded(i)
  BY DEF Linked, Guarded, Before
<1> QED
  BY <1>1, <1>2, <1>3 DEF PathsKept

\* Before the first transition there is no trace to be wrong.
LEMMA PathsBegin ==
    ASSUME Init
    PROVE  PathsKept /\ \A s \in Subject : LedgerState(s) = "UNENCOUNTERED"
<1>1. TypeOK /\ \A s \in Subject : Own(s) = {}
  BY DEF Init, TypeOK, State, Own
<1>2. \A s \in Subject : LedgerState(s) = "UNENCOUNTERED"
  BY <1>1, LastTrace DEF LedgerEnds, EndsInState
<1> QED
  BY <1>1, <1>2 DEF Init, PathsKept, Returning

\* Callers that read where a subject is before they move it, however many there
\* are and whatever they were told of earlier transitions, keep its traces one
\* path, and no activation on it goes round the admission, revalidation,
\* authority or evidence it needs: this is all the engine leaves to its callers.
THEOREM CurrentCallersKeepPaths == Spec /\ [][ActOnCurrent]_vars => []PathsKept
<1>1. Init => PathsKept
  BY PathsBegin
<1>2. TypeOK /\ TypeOK' /\ PathsKept /\ [Next]_vars /\ [ActOnCurrent]_vars => PathsKept'
  <2> SUFFICES ASSUME TypeOK, TypeOK', PathsKept, [Next]_vars, [ActOnCurrent]_vars
               PROVE  PathsKept'
    OBVIOUS
  <2>1. CASE UNCHANGED vars
    BY <2>1, SameTraces DEF vars
  <2>2. ASSUME ActOnCurrent, NEW c \in Client, NEW s \in Subject,
               NEW rule \in CanonicalTransitions, NEW grounds \in Grounds,
               Execute(c, s, rule, grounds) \/ ExecuteUnreported(c, s, rule, grounds)
        PROVE  PathsKept'
    BY <2>2, ExecuteStep DEF ActOnCurrent
  <2>3. ASSUME NEW c \in Client, NEW s \in Subject, ReadLedger(c, s)
        PROVE  PathsKept'
    BY <2>3, SameTraces DEF ReadLedger
  <2> QED
    BY <2>1, <2>2, <2>3 DEF Next
<1> QED
  BY <1>1, <1>2, TypeCorrect, PTL DEF Spec

-----------------------------------------------------------------------------
(* One caller that is told of every transition.                            *)

\* One caller executes all transitions.
OneCaller == \A c, d \in Client : c = d

\* Every step of a single caller keeps the path of each subject.
LEMMA PathStep ==
    ASSUME OneCaller, PathInv, [Next]_vars
    PROVE  PathInv'
<1>1. TypeOK /\ TypeOK'
  BY TypeStep DEF PathInv
<1>2. CASE UNCHANGED vars
  BY <1>1, <1>2, SameTraces DEF vars, PathInv
<1>3. ASSUME NEW c \in Client, NEW s \in Subject,
             NEW rule \in CanonicalTransitions, NEW grounds \in Grounds,
             Execute(c, s, rule, grounds)
      PROVE  PathInv'
  <2>1. CASE unreported = 0
    <3>1. known[c][s] = LedgerState(s) /\ PathsKept
      BY <2>1 DEF PathInv
    <3>2. PathsKept'
      BY <1>1, <1>3, <3>1, ExecuteStep
    <3>3. /\ LedgerState(s)' = rule.result
          /\ \A q \in Subject \ {s} : LedgerState(q)' = LedgerState(q)
      BY <1>1, <1>3, <3>1, TransitionMoves
    <3>4. \A d \in Client : d = c
      BY DEF OneCaller
    <3>5. \A d \in Client, q \in Subject : known'[d][q] = LedgerState(q)'
      BY <1>1, <1>3, <2>1, <3>3, <3>4 DEF Execute, PathInv, TypeOK
    <3> QED
      BY <1>1, <3>2, <3>5 DEF PathInv
  <2>2. CASE unreported # 0
    BY <1>1, <1>3, <2>2 DEF Execute, PathInv
  <2> QED
    BY <2>1, <2>2
<1>4. ASSUME NEW c \in Client, NEW s \in Subject,
             NEW rule \in CanonicalTransitions, NEW grounds \in Grounds,
             ExecuteUnreported(c, s, rule, grounds)
      PROVE  PathInv'
  <2>1. unreported' # 0
    BY <1>4 DEF ExecuteUnreported, PathInv, TypeOK
  <2> QED
    BY <1>1, <2>1 DEF PathInv
<1>5. ASSUME NEW c \in Client, NEW s \in Subject, ReadLedger(c, s)
      PROVE  PathInv'
  <2>1. unreported # 0 /\ unreported' = unreported
    BY <1>5 DEF ReadLedger, PathInv
  <2> QED
    BY <1>1, <2>1 DEF PathInv
<1> QED
  BY <1>1, <1>2, <1>3, <1>4, <1>5 DEF Next

\* The invariant of a single caller: until an execution is misreported, it knows
\* the state each subject is in, and the traces of the subject lead there.
THEOREM PathInvariant == OneCaller => (Spec => []PathInv)
<1> SUFFICES ASSUME OneCaller
             PROVE  Spec => []PathInv
  OBVIOUS
<1>1. Init => PathInv
  BY PathsBegin DEF Init, TypeOK, State, PathInv
<1>2. PathInv /\ [Next]_vars => PathInv'
  BY PathStep
<1> QED
  BY <1>1, <1>2, PTL DEF Spec

\* With one caller that is told of each transition, for any number of subjects,
\* the traces of a subject are one path from the first encounter on.
THEOREM HistoriesArePaths == OneCaller => (Spec => []HistoryIsPath)
<1> SUFFICES ASSUME OneCaller
             PROVE  Spec => []HistoryIsPath
  OBVIOUS
<1>1. PathInv => HistoryIsPath
  <2> SUFFICES ASSUME PathInv, unreported = 0, NEW i \in 1 .. Len(traces)
               PROVE  traces[i].prior =
                        IF \E j \in 1 .. Len(traces) : Before(j, i)
                        THEN LET last == CHOOSE j \in 1 .. Len(traces) :
                                           /\ Before(j, i)
                                           /\ \A k \in 1 .. Len(traces) :
                                                Before(k, i) => k <= j
                             IN  traces[last].result
                        ELSE "UNENCOUNTERED"
    BY DEF HistoryIsPath
  <2> DEFINE Latest(j) == /\ Before(j, i)
                          /\ \A k \in 1 .. Len(traces) : Before(k, i) => k <= j
             last == CHOOSE j \in 1 .. Len(traces) : Latest(j)
  <2>1. Linked(i)
    BY DEF PathInv, PathsKept
  <2>2. ASSUME NEW j \in 1 .. Len(traces), Latest(j)
        PROVE  last = j
    <3>1. last \in 1 .. Len(traces) /\ Latest(last)
      BY <2>2
    <3> QED
      BY <2>2, <3>1
  <2> QED
    BY <2>1, <2>2 DEF Linked
<1>2. Spec => []PathInv
  BY PathInvariant
<1> QED
  BY <1>1, <1>2, PTL

\* ... and no activation goes round the admission, revalidation, authority or
\* evidence it needs.
THEOREM ActivationsAreGuarded == OneCaller => (Spec => []ActivationIsGuarded)
<1> SUFFICES ASSUME OneCaller
             PROVE  Spec => []ActivationIsGuarded
  OBVIOUS
<1>1. PathInv => ActivationIsGuarded
  BY DEF PathInv, PathsKept, ActivationIsGuarded, Guarded
<1>2. Spec => []PathInv
  BY PathInvariant
<1> QED
  BY <1>1, <1>2, PTL

-----------------------------------------------------------------------------
(* Callers that ask for the way in.                                        *)

\* Whatever callers ask, and whether they follow the advice or not, what they
\* execute are transitions: what is proved of these holds of the composition.
LEMMA FlowStep == [FlowNext]_flowVars => [Next]_vars
<1> SUFFICES ASSUME [FlowNext]_flowVars
             PROVE  [Next]_vars
  OBVIOUS
<1>1. CASE UNCHANGED flowVars
  BY <1>1 DEF flowVars
<1>2. ASSUME NEW c \in Client, NEW s \in Subject, NEW question \in Question,
             Ask(c, s, question)
      PROVE  UNCHANGED vars
  BY <1>2 DEF Ask
<1>3. ASSUME NEW c \in Client, NEW s \in Subject, NEW grounds \in Grounds,
             Follow(c, s, grounds)
      PROVE  Next
  BY <1>3 DEF Follow, Advised, Next
<1>4. ASSUME NEW c \in Client, NEW s \in Subject, NEW grounds \in Grounds,
             NEW rule \in CanonicalTransitions,
             ExecuteUnadvised(c, s, rule, grounds) \/ UnreportedUnadvised(c, s, rule, grounds)
      PROVE  Next
  BY <1>4 DEF ExecuteUnadvised, UnreportedUnadvised, Next
<1>5. ASSUME NEW c \in Client, NEW s \in Subject, ReadTraces(c, s)
      PROVE  Next
  BY <1>5 DEF ReadTraces, Next
<1> QED
  BY <1>1, <1>2, <1>3, <1>4, <1>5 DEF FlowNext

\* The flow of navigation and transitions implements the transitions.
THEOREM FlowImplementsTransitions == FlowSpec => Spec
<1>1. FlowInit => Init
  BY DEF FlowInit
<1> QED
  BY <1>1, FlowStep, PTL DEF FlowSpec, Spec

\* What a caller is told to proceed on.
OnTheWay(a) ==
    /\ a.from \in State /\ a.verdict = "PROCEED"
    /\ \E rule \in EntryRules : rule.prior = a.from /\ rule.result = a.next
    /\ a.granted \subseteq Gate
    /\ a.from \in DOMAIN GateOf => GateOf[a.from] \in a.granted

\* The way the navigation engine knows is that of the entry rules.
LEMMA WayIn ==
    ASSUME NEW st \in DOMAIN AllowedTargets
    PROVE  \E rule \in EntryRules : rule.prior = st /\ rule.result = AllowedTargets[st]
<1>1. st \in {"ENCOUNTERED", "IDENTIFIED", "CONTEXTUALIZED", "DEPENDENCY_RESOLVED",
              "INTERPRETED", "COMPETENCY_EVALUATED", "PARTICIPATION_ADMITTED"}
  BY DEF AllowedTargets
<1> QED
  BY <1>1 DEF AllowedTargets, EntryRules, Rule

\* The gates are those a caller can declare resolved.
LEMMA GateTypes ==
    /\ DOMAIN GateOf = {"ENCOUNTERED", "IDENTIFIED", "CONTEXTUALIZED",
                        "DEPENDENCY_RESOLVED", "INTERPRETED"}
    /\ DOMAIN GateOf \subseteq DOMAIN AllowedTargets
    /\ \A st \in DOMAIN GateOf : GateOf[st] \in Gate /\ DemandOf[st] \in Withheld
BY DEF GateOf, DemandOf, Gate, Withheld, Verdict, AllowedTargets

\* Who may proceed is on the way in and has declared its gate resolved.
LEMMA ProceedIsOnTheWay ==
    ASSUME NEW r, r.current \in State, Decide(r).verdict = "PROCEED"
    PROVE  OnTheWay(Decide(r)) /\ Decide(r).from = r.current
<1>1. "PROCEED" \notin Withheld
  BY DEF Withheld
<1>2. CASE r.current = "UNENCOUNTERED"
  <2>1. Decide(r) = Answer(r, "PROCEED", "ENCOUNTERED")
    BY <1>2 DEF Decide
  <2>2. \E rule \in EntryRules : rule.prior = "UNENCOUNTERED" /\ rule.result = "ENCOUNTERED"
    BY DEF EntryRules, Rule
  <2>3. "UNENCOUNTERED" \notin DOMAIN GateOf
    BY GateTypes
  <2> QED
    BY <1>2, <2>1, <2>2, <2>3 DEF OnTheWay, Answer
<1>3. CASE r.current # "UNENCOUNTERED"
  <2>1. /\ Decide(r) = Answer(r, "PROCEED", AllowedTargets[r.current])
        /\ r.current \in DOMAIN AllowedTargets
        /\ r.current \in DOMAIN GateOf => GateOf[r.current] \in r.resolved
    BY <1>1, <1>3, GateTypes DEF Decide, Answer
  <2>2. \E rule \in EntryRules :
          rule.prior = r.current /\ rule.result = AllowedTargets[r.current]
    BY <2>1, WayIn
  <2>3. Decide(r).granted \subseteq Gate
    BY <2>1, GateTypes DEF Answer
  <2>4. r.current \in DOMAIN GateOf => GateOf[r.current] \in Decide(r).granted
    BY <2>1 DEF Answer
  <2> QED
    BY <2>1, <2>2, <2>3, <2>4 DEF OnTheWay, Answer
<1> QED
  BY <1>2, <1>3

\* What callers hold is a decision to proceed, of the shape decide() gives it.
Held ==
    [from : State, verdict : {"PROCEED"}, next : State, granted : SUBSET Gate]

AdviceInv ==
    /\ advice \in [Client -> [Subject -> {NoAdvice} \union Held]]
    /\ \A c \in Client, s \in Subject :
         advice[c][s] # NoAdvice => OnTheWay(advice[c][s])

\* A decision that is on the way and comes from decide() has that shape.
LEMMA ProceedIsHeld ==
    ASSUME NEW r, r.current \in State, Decide(r).verdict = "PROCEED"
    PROVE  Decide(r) \in Held
<1>1. OnTheWay(Decide(r))
  BY ProceedIsOnTheWay
<1>2. Decide(r).next \in State
  BY <1>1, RuleTypes DEF OnTheWay, CanonicalTransitions
<1>3. \E v, n, g : Decide(r) = [from |-> r.current, verdict |-> v, next |-> n, granted |-> g]
  BY DEF Decide, Answer
<1> QED
  BY <1>1, <1>2, <1>3 DEF Held, OnTheWay

\* Callers hold what the engine told them, whatever else happens.
LEMMA AdviceStep ==
    ASSUME TypeOK, AdviceInv, [FlowNext]_flowVars
    PROVE  AdviceInv'
<1>1. CASE UNCHANGED advice
  BY <1>1 DEF AdviceInv, OnTheWay
<1>2. ASSUME NEW c \in Client, NEW s \in Subject, advice' = [advice EXCEPT ![c][s] = NoAdvice]
      PROVE  AdviceInv'
  BY <1>2 DEF AdviceInv, OnTheWay
<1>3. ASSUME NEW c \in Client, NEW s \in Subject, NEW question \in Question,
             Ask(c, s, question)
      PROVE  AdviceInv'
  <2> DEFINE r == [current |-> known[c][s], target |-> question.target,
                   resolved |-> question.resolved]
             a == Decide(r)
  <2>1. r.current \in State /\ a.verdict = "PROCEED"
        /\ advice' = [advice EXCEPT ![c][s] = a]
    BY <1>3 DEF Ask, TypeOK
  <2>2. OnTheWay(a) /\ a \in Held
    BY <2>1, ProceedIsOnTheWay, ProceedIsHeld
  <2> HIDE DEF a
  <2>3. advice' \in [Client -> [Subject -> {NoAdvice} \union Held]]
    BY <2>1, <2>2 DEF AdviceInv
  <2>4. \A d \in Client, q \in Subject :
          advice'[d][q] = IF d = c /\ q = s THEN a ELSE advice[d][q]
    BY <2>1 DEF AdviceInv
  <2>5. \A d \in Client, q \in Subject :
          advice'[d][q] # NoAdvice => OnTheWay(advice'[d][q])
    BY <2>2, <2>4 DEF AdviceInv
  <2> QED
    BY <2>3, <2>5 DEF AdviceInv, OnTheWay
<1> QED
  BY <1>1, <1>2, <1>3
     DEF FlowNext, flowVars, Follow, ExecuteUnadvised, UnreportedUnadvised, ReadTraces

\* The rules an answer points to leave the state it was asked for.
LEMMA Acceptance ==
    ASSUME NEW c \in Client, NEW s \in Subject, NEW rule \in CanonicalTransitions,
           NEW g \in Grounds, Complete(g)
    PROVE  Accepted(RequestOf(c, s, rule, g)) <=> known[c][s] = rule.prior
BY DEF Complete, Accepted, Reasons, RequestOf

\* Advice that was given can be carried out: the two tables agree on the way,
\* and only advice that has become stale is rejected.
THEOREM AdviceStaysExecutable == FlowSpec => []AdviceIsExecutable
<1>1. FlowInit => AdviceInv
  BY DEF FlowInit, AdviceInv
<1>2. TypeOK /\ AdviceInv /\ [FlowNext]_flowVars => AdviceInv'
  BY AdviceStep
<1>3. AdviceInv => AdviceIsExecutable
  <2> SUFFICES ASSUME AdviceInv, NEW c \in Client, NEW s \in Subject,
                      advice[c][s] # NoAdvice
               PROVE  /\ Advised(advice[c][s]) # {}
                      /\ \A rule \in Advised(advice[c][s]), g \in Grounds : Complete(g) =>
                           (Accepted(RequestOf(c, s, rule, g))
                              <=> known[c][s] = advice[c][s].from)
    BY DEF AdviceIsExecutable
  <2>1. OnTheWay(advice[c][s])
    BY DEF AdviceInv
  <2>2. Advised(advice[c][s]) # {}
    BY <2>1 DEF OnTheWay, Advised, CanonicalTransitions
  <2>3. \A rule \in Advised(advice[c][s]) :
          rule \in CanonicalTransitions /\ rule.prior = advice[c][s].from
    BY DEF Advised
  <2> QED
    BY <2>2, <2>3, Acceptance
<1> QED
  BY <1>1, <1>2, <1>3, FlowImplementsTransitions, TypeCorrect, PTL DEF FlowSpec

\* What AnswersLeadOn says of one question.
LeadOn(st, target, resolved) ==
    LET r == [current |-> st, target |-> target, resolved |-> resolved]
        a == Decide(r)
    IN  /\ a.verdict \in Withheld =>
             Decide([r EXCEPT !.resolved = @ \union {GateOf[r.current]}]).verdict
               \in {"PROCEED", "REDIRECT"}
        /\ a.verdict = "REDIRECT" =>
             Decide([r EXCEPT !.target = a.next]).verdict = "PROCEED"
        /\ a.verdict = "DENY" =>
             \A rule \in EntryRules : rule.prior # r.current

\* Every question about a state leads on: by the gate it names, or the target.
LEMMA LeadsOn ==
    ASSUME NEW st \in State, NEW target, NEW resolved
    PROVE  LeadOn(st, target, resolved)
<1> DEFINE r == [current |-> st, target |-> target, resolved |-> resolved]
           a == Decide(r)
<1>1. {"PROCEED", "REDIRECT", "DENY"} \intersect Withheld = {}
  BY DEF Withheld
<1>2. ASSUME a.verdict \in Withheld
      PROVE  Decide([r EXCEPT !.resolved = @ \union {GateOf[r.current]}]).verdict
               \in {"PROCEED", "REDIRECT"}
  <2> DEFINE more == [r EXCEPT !.resolved = @ \union {GateOf[r.current]}]
  <2>1. st # "UNENCOUNTERED" /\ st \in DOMAIN GateOf
    BY <1>1, <1>2 DEF Decide, Answer
  <2>2. more.current = st /\ GateOf[st] \in more.resolved /\ st \in DOMAIN AllowedTargets
    BY <2>1, GateTypes
  <2> HIDE DEF more
  <2> QED
    BY <2>1, <2>2 DEF Decide, Answer
<1>3. ASSUME a.verdict = "REDIRECT"
      PROVE  Decide([r EXCEPT !.target = a.next]).verdict = "PROCEED"
  <2> DEFINE other == [r EXCEPT !.target = a.next]
  <2>1. /\ st # "UNENCOUNTERED" /\ st \in DOMAIN AllowedTargets
        /\ a.next = AllowedTargets[st]
        /\ st \in DOMAIN GateOf => GateOf[st] \in resolved
    BY <1>1, <1>3, GateTypes DEF Decide, Answer, Withheld
  <2>2. other.current = st /\ other.resolved = resolved /\ other.target = AllowedTargets[st]
    BY <2>1
  <2> HIDE DEF other
  <2> QED
    BY <2>1, <2>2 DEF Decide, Answer
<1>4. ASSUME a.verdict = "DENY"
      PROVE  \A rule \in EntryRules : rule.prior # st
  <2>1. st # "UNENCOUNTERED" /\ st \notin DOMAIN AllowedTargets
    BY <1>1, <1>4, GateTypes DEF Decide, Answer
  <2>2. \A rule \in EntryRules :
          rule.prior = "UNENCOUNTERED" \/ rule.prior \in DOMAIN AllowedTargets
    BY DEF EntryRules, Rule, AllowedTargets
  <2> QED
    BY <2>1, <2>2
<1> QED
  BY <1>2, <1>3, <1>4 DEF LeadOn

\* No caller is told less than it needs to go on, whatever state it holds.
THEOREM AnswersAlwaysLeadOn == FlowSpec => []AnswersLeadOn
<1>1. TypeOK => AnswersLeadOn
  <2> SUFFICES ASSUME TypeOK
               PROVE  \A c \in Client, s \in Subject, q \in Question :
                        LeadOn(known[c][s], q.target, q.resolved)
    BY DEF AnswersLeadOn, LeadOn
  <2>1. \A c \in Client, s \in Subject : known[c][s] \in State
    BY DEF TypeOK
  <2> QED
    BY <2>1, LeadsOn
<1> QED
  BY <1>1, FlowImplementsTransitions, TypeCorrect, PTL

\* What must have been resolved on the way to a state.
NeedsEarly ==
    [UNENCOUNTERED |-> {}, ENCOUNTERED |-> {}, IDENTIFIED |-> {"identity"},
     CONTEXTUALIZED |-> {"identity", "context"},
     DEPENDENCY_RESOLVED |-> {"identity", "context", "dependencies"},
     INTERPRETED |-> {"identity", "context", "dependencies", "interpretation"}]

Needs(st) == IF st \in DOMAIN NeedsEarly THEN NeedsEarly[st] ELSE Gate

\* The rules ask for no more than the gates that were passed to take them; only
\* a reconstruction leads back to where less is needed.
LEMMA NeedsFacts ==
    /\ \A rule \in EntryRules :
         /\ Needs(rule.result) \subseteq
              Needs(rule.prior) \union
              (IF rule.prior \in DOMAIN GateOf THEN {GateOf[rule.prior]} ELSE {})
    /\ \A rule \in LaterRules :
         /\ Needs(rule.prior) = Gate
         /\ rule.prior = "RECONSTRUCTION_REQUIRED" =>
              Needs(rule.result) \subseteq Gate \ {"competency"}
    /\ Needs("UNENCOUNTERED") = {}
    /\ \A st : Needs(st) \subseteq Gate
<1>1. DOMAIN NeedsEarly = {"UNENCOUNTERED", "ENCOUNTERED", "IDENTIFIED", "CONTEXTUALIZED",
                          "DEPENDENCY_RESOLVED", "INTERPRETED"}
  BY DEF NeedsEarly
<1>2. /\ Needs("UNENCOUNTERED") = {} /\ Needs("ENCOUNTERED") = {}
      /\ Needs("IDENTIFIED") = {"identity"}
      /\ Needs("CONTEXTUALIZED") = {"identity", "context"}
      /\ Needs("DEPENDENCY_RESOLVED") = {"identity", "context", "dependencies"}
      /\ Needs("INTERPRETED") = {"identity", "context", "dependencies", "interpretation"}
  BY <1>1 DEF Needs, NeedsEarly
<1>3. \A st : st \notin DOMAIN NeedsEarly => Needs(st) = Gate
  BY DEF Needs
<1>4. \A st : Needs(st) \subseteq Gate
  BY <1>1, <1>2, <1>3 DEF Gate
<1>5. /\ DOMAIN GateOf = {"ENCOUNTERED", "IDENTIFIED", "CONTEXTUALIZED",
                          "DEPENDENCY_RESOLVED", "INTERPRETED"}
      /\ GateOf["ENCOUNTERED"] = "identity" /\ GateOf["IDENTIFIED"] = "context"
      /\ GateOf["CONTEXTUALIZED"] = "dependencies"
      /\ GateOf["DEPENDENCY_RESOLVED"] = "interpretation"
      /\ GateOf["INTERPRETED"] = "competency"
  BY DEF GateOf
<1>6. \A rule \in EntryRules :
        Needs(rule.result) \subseteq
          Needs(rule.prior) \union
          (IF rule.prior \in DOMAIN GateOf THEN {GateOf[rule.prior]} ELSE {})
  <2> SUFFICES ASSUME NEW rule \in EntryRules
               PROVE  Needs(rule.result) \subseteq
                        Needs(rule.prior) \union
                        (IF rule.prior \in DOMAIN GateOf THEN {GateOf[rule.prior]} ELSE {})
    OBVIOUS
  <2>1. \/ rule.prior = "UNENCOUNTERED" /\ rule.result = "ENCOUNTERED"
        \/ rule.prior = "ENCOUNTERED" /\ rule.result = "IDENTIFIED"
        \/ rule.prior = "IDENTIFIED" /\ rule.result = "CONTEXTUALIZED"
        \/ rule.prior = "CONTEXTUALIZED" /\ rule.result = "DEPENDENCY_RESOLVED"
        \/ rule.prior = "DEPENDENCY_RESOLVED" /\ rule.result = "INTERPRETED"
        \/ rule.prior = "INTERPRETED" /\ rule.result = "COMPETENCY_EVALUATED"
        \/ rule.prior \in {"COMPETENCY_EVALUATED", "PARTICIPATION_ADMITTED"}
    BY DEF EntryRules, Rule
  <2>2. CASE rule.prior \in {"COMPETENCY_EVALUATED", "PARTICIPATION_ADMITTED"}
    BY <1>1, <1>3, <1>4, <2>2
  <2>3. CASE rule.prior = "INTERPRETED" /\ rule.result = "COMPETENCY_EVALUATED"
    BY <1>1, <1>2, <1>3, <1>5, <2>3 DEF Gate
  <2> QED
    BY <1>2, <1>5, <2>1, <2>2, <2>3
<1>7. \A rule \in LaterRules :
        /\ Needs(rule.prior) = Gate
        /\ rule.prior = "RECONSTRUCTION_REQUIRED" =>
             Needs(rule.result) \subseteq Gate \ {"competency"}
  <2> SUFFICES ASSUME NEW rule \in LaterRules
               PROVE  /\ Needs(rule.prior) = Gate
                      /\ rule.prior = "RECONSTRUCTION_REQUIRED" =>
                           Needs(rule.result) \subseteq Gate \ {"competency"}
    OBVIOUS
  <2>1. /\ rule.prior \notin DOMAIN NeedsEarly
        /\ rule.prior = "RECONSTRUCTION_REQUIRED" => rule.result = "INTERPRETED"
    BY <1>1 DEF LaterRules, Rule
  <2> QED
    BY <1>2, <1>3, <2>1 DEF Gate
<1> QED
  BY <1>2, <1>4, <1>6, <1>7

GateTypesOK ==
    /\ passed \in [Subject -> SUBSET Gate]
    /\ unguided \in [Subject -> BOOLEAN]

\* What is needed for the state of each subject has been passed, where the way
\* in was advised throughout.
GatesPassed ==
    \A s \in Subject : ~unguided[s] => Needs(LedgerState(s)) \subseteq passed[s]

GateInv == GateTypesOK /\ (unreported = 0 => GatesPassed)

\* The histories keep their types, whoever does what.
LEMMA GateTypesStep ==
    ASSUME AdviceInv, GateTypesOK, [FlowNext]_flowVars
    PROVE  GateTypesOK'
<1>1. ASSUME NEW c \in Client, NEW s \in Subject, NEW grounds \in Grounds,
             Follow(c, s, grounds)
      PROVE  GateTypesOK'
  <2>1. advice[c][s].granted \subseteq Gate
    BY <1>1 DEF Follow, AdviceInv, OnTheWay
  <2>2. /\ unguided' = unguided
        /\ passed' = [passed EXCEPT ![s] =
                        IF unguided[s] THEN {} ELSE passed[s] \union advice[c][s].granted]
    BY <1>1 DEF Follow
  <2> QED
    BY <2>1, <2>2 DEF GateTypesOK
<1>2. ASSUME NEW c \in Client, NEW s \in Subject, NEW grounds \in Grounds,
             NEW rule \in CanonicalTransitions,
             ExecuteUnadvised(c, s, rule, grounds)
      PROVE  GateTypesOK'
  <2>1. (unguided[s] \/ rule \in EntryRules) \in BOOLEAN
    OBVIOUS
  <2>2. (IF rule \in EntryRules THEN {}
         ELSE IF rule.prior = "RECONSTRUCTION_REQUIRED"
         THEN passed[s] \ {"competency"} ELSE passed[s]) \in SUBSET Gate
    BY DEF GateTypesOK
  <2> QED
    BY <1>2, <2>1, <2>2 DEF ExecuteUnadvised, GateTypesOK
<1>3. ASSUME NEW c \in Client, NEW s \in Subject, NEW grounds \in Grounds,
             NEW rule \in CanonicalTransitions,
             UnreportedUnadvised(c, s, rule, grounds)
      PROVE  GateTypesOK'
  BY <1>3 DEF UnreportedUnadvised, GateTypesOK
<1>4. CASE UNCHANGED <<passed, unguided>>
  BY <1>4 DEF GateTypesOK
<1> QED
  BY <1>1, <1>2, <1>3, <1>4 DEF FlowNext, flowVars, Ask, ReadTraces

\* A transition that was advised: what its state waits for was passed.
LEMMA FollowStep ==
    ASSUME TypeOK, TypeOK', AdviceInv, GateTypesOK, GatesPassed,
           NEW c \in Client, NEW s \in Subject, NEW grounds \in Grounds,
           Follow(c, s, grounds), known[c][s] = LedgerState(s)
    PROVE  GatesPassed'
<1> DEFINE a == advice[c][s]
<1>1. OnTheWay(a)
  BY DEF Follow, AdviceInv
<1>2. PICK rule \in CanonicalTransitions :
        /\ rule.prior = a.from /\ rule.result = a.next
        /\ Execute(c, s, rule, grounds)
  BY DEF Follow, Advised
<1>3. PICK entry \in EntryRules : entry.prior = a.from /\ entry.result = a.next
  BY <1>1 DEF OnTheWay
<1>4. /\ rule.prior = LedgerState(s) /\ LedgerState(s)' = rule.result
      /\ \A q \in Subject \ {s} : LedgerState(q)' = LedgerState(q)
  BY <1>2, TransitionMoves
<1>5. a.granted \subseteq Gate /\ (a.from \in DOMAIN GateOf => GateOf[a.from] \in a.granted)
  BY <1>1 DEF OnTheWay
<1>6. Needs(rule.result) \subseteq Needs(rule.prior) \union a.granted
  <2>1. Needs(entry.result) \subseteq
          Needs(entry.prior) \union
          (IF entry.prior \in DOMAIN GateOf THEN {GateOf[entry.prior]} ELSE {})
    BY NeedsFacts
  <2>2. (IF entry.prior \in DOMAIN GateOf THEN {GateOf[entry.prior]} ELSE {}) \subseteq a.granted
    BY <1>3, <1>5
  <2> QED
    BY <1>2, <1>3, <2>1, <2>2
<1> HIDE DEF a
<1>7. /\ passed' = [passed EXCEPT ![s] =
                      IF unguided[s] THEN {} ELSE passed[s] \union a.granted]
      /\ unguided' = unguided
  BY DEF Follow, a
<1>8. \A q \in Subject : ~unguided[q] => Needs(LedgerState(q)') \subseteq passed'[q]
  <2> SUFFICES ASSUME NEW q \in Subject, ~unguided[q]
               PROVE  Needs(LedgerState(q)') \subseteq passed'[q]
    OBVIOUS
  <2>1. Needs(LedgerState(q)) \subseteq passed[q]
    BY DEF GatesPassed
  <2>2. CASE q = s
    <3>1. passed'[q] = passed[q] \union a.granted
      BY <1>7, <2>2 DEF GateTypesOK
    <3> QED
      BY <1>4, <1>6, <2>1, <2>2, <3>1
  <2>3. CASE q # s
    <3>1. passed'[q] = passed[q]
      BY <1>7, <2>3 DEF GateTypesOK
    <3> QED
      BY <1>4, <2>1, <2>3, <3>1
  <2> QED
    BY <2>2, <2>3
<1> QED
  BY <1>7, <1>8 DEF GatesPassed

\* A transition without advice: one of the way in marks its subject, a later
\* one leaves it where as much is needed, or to be evaluated again.
LEMMA UnadvisedStep ==
    ASSUME TypeOK, TypeOK', GateTypesOK, GatesPassed,
           NEW c \in Client, NEW s \in Subject, NEW grounds \in Grounds,
           NEW rule \in CanonicalTransitions,
           ExecuteUnadvised(c, s, rule, grounds), known[c][s] = LedgerState(s)
    PROVE  GatesPassed'
<1>1. /\ rule.prior = LedgerState(s) /\ LedgerState(s)' = rule.result
      /\ \A q \in Subject \ {s} : LedgerState(q)' = LedgerState(q)
  BY TransitionMoves DEF ExecuteUnadvised
<1>2. /\ unguided' = [unguided EXCEPT ![s] = unguided[s] \/ rule \in EntryRules]
      /\ passed' = [passed EXCEPT ![s] =
                      IF rule \in EntryRules THEN {}
                      ELSE IF rule.prior = "RECONSTRUCTION_REQUIRED"
                      THEN passed[s] \ {"competency"} ELSE passed[s]]
  BY DEF ExecuteUnadvised
<1>3. passed[s] \in SUBSET Gate /\ unguided[s] \in BOOLEAN
  BY DEF GateTypesOK
<1>4. \A q \in Subject : ~unguided'[q] => Needs(LedgerState(q)') \subseteq passed'[q]
  <2> SUFFICES ASSUME NEW q \in Subject, ~unguided'[q]
               PROVE  Needs(LedgerState(q)') \subseteq passed'[q]
    OBVIOUS
  <2>1. CASE q = s
    <3>1. ~unguided[s] /\ rule \notin EntryRules
      BY <1>2, <1>3, <2>1 DEF GateTypesOK
    <3>2. rule \in LaterRules
      BY <3>1 DEF CanonicalTransitions
    <3>3. passed[s] = Gate
      BY <1>1, <1>3, <3>1, <3>2, NeedsFacts DEF GatesPassed
    <3>4. passed'[s] = IF rule.prior = "RECONSTRUCTION_REQUIRED"
                       THEN Gate \ {"competency"} ELSE Gate
      BY <1>2, <3>1, <3>3 DEF GateTypesOK
    <3>5. Needs(rule.result) \subseteq passed'[s]
      BY <3>2, <3>4, NeedsFacts
    <3> QED
      BY <1>1, <2>1, <3>5
  <2>2. CASE q # s
    <3>1. passed'[q] = passed[q] /\ unguided'[q] = unguided[q]
      BY <1>2, <2>2 DEF GateTypesOK
    <3> QED
      BY <1>1, <2>2, <3>1 DEF GatesPassed
  <2> QED
    BY <2>1, <2>2
<1> QED
  BY <1>4 DEF GatesPassed

\* A transition whose caller is told that it failed marks its subject.
LEMMA UnreportedStep ==
    ASSUME TypeOK, TypeOK', GateTypesOK, GatesPassed,
           NEW c \in Client, NEW s \in Subject, NEW grounds \in Grounds,
           NEW rule \in CanonicalTransitions,
           UnreportedUnadvised(c, s, rule, grounds), known[c][s] = LedgerState(s)
    PROVE  GatesPassed'
<1>1. \A q \in Subject \ {s} : LedgerState(q)' = LedgerState(q)
  BY TransitionMoves DEF UnreportedUnadvised
<1>2. /\ unguided'[s]
      /\ \A q \in Subject \ {s} : passed'[q] = passed[q] /\ unguided'[q] = unguided[q]
  BY DEF UnreportedUnadvised, GateTypesOK
<1> QED
  BY <1>1, <1>2 DEF GatesPassed

\* Every step of the flow keeps what is needed among what was passed, for callers
\* that know where a subject is when they move it.
LEMMA GateStep ==
    ASSUME TypeOK, TypeOK', AdviceInv, GateTypesOK, GatesPassed,
           [FlowNext]_flowVars, [ActOnCurrent]_vars
    PROVE  GatesPassed'
<1>1. CASE traces' = traces /\ UNCHANGED <<passed, unguided>>
  <2>1. \A s : LedgerState(s)' = LedgerState(s)
    BY <1>1 DEF LedgerState
  <2> QED
    BY <1>1, <2>1 DEF GatesPassed
<1>2. ASSUME NEW c \in Client, NEW s \in Subject, NEW rule \in CanonicalTransitions,
             NEW grounds \in Grounds,
             Execute(c, s, rule, grounds) \/ ExecuteUnreported(c, s, rule, grounds)
      PROVE  known[c][s] = LedgerState(s)
  <2>1. traces' # traces
    <3>1. Len(traces') = Len(traces) + 1 /\ Len(traces) \in Nat
      BY <1>2, Appended DEF Execute, ExecuteUnreported, TypeOK
    <3> QED
      BY <3>1
  <2> QED
    BY <1>2, <2>1 DEF ActOnCurrent, vars
<1>3. ASSUME NEW c \in Client, NEW s \in Subject, NEW grounds \in Grounds,
             Follow(c, s, grounds)
      PROVE  GatesPassed'
  <2>1. \E rule \in CanonicalTransitions : Execute(c, s, rule, grounds)
    BY <1>3 DEF Follow, Advised
  <2> QED
    BY <1>2, <1>3, <2>1, FollowStep
<1>4. ASSUME NEW c \in Client, NEW s \in Subject, NEW grounds \in Grounds,
             NEW rule \in CanonicalTransitions,
             ExecuteUnadvised(c, s, rule, grounds)
      PROVE  GatesPassed'
  <2>1. Execute(c, s, rule, grounds)
    BY <1>4 DEF ExecuteUnadvised
  <2> QED
    BY <1>2, <1>4, <2>1, UnadvisedStep
<1>5. ASSUME NEW c \in Client, NEW s \in Subject, NEW grounds \in Grounds,
             NEW rule \in CanonicalTransitions,
             UnreportedUnadvised(c, s, rule, grounds)
      PROVE  GatesPassed'
  <2>1. ExecuteUnreported(c, s, rule, grounds)
    BY <1>5 DEF UnreportedUnadvised
  <2> QED
    BY <1>2, <1>5, <2>1, UnreportedStep
<1>6. ASSUME NEW c \in Client, NEW s \in Subject, NEW question \in Question,
             Ask(c, s, question)
      PROVE  GatesPassed'
  BY <1>1, <1>6 DEF Ask, vars
<1>7. ASSUME NEW c \in Client, NEW s \in Subject, ReadTraces(c, s)
      PROVE  GatesPassed'
  BY <1>1, <1>7 DEF ReadTraces, ReadLedger
<1>8. CASE UNCHANGED flowVars
  BY <1>1, <1>8 DEF flowVars, vars
<1> QED
  BY <1>3, <1>4, <1>5, <1>6, <1>7, <1>8 DEF FlowNext

\* At the beginning nothing is needed.
LEMMA GateInit ==
    ASSUME FlowInit
    PROVE  AdviceInv /\ GateTypesOK /\ GatesPassed
<1>1. AdviceInv /\ GateTypesOK
  BY DEF FlowInit, AdviceInv, GateTypesOK
<1>2. \A s \in Subject : LedgerState(s) = "UNENCOUNTERED"
  BY PathsBegin DEF FlowInit
<1> QED
  BY <1>1, <1>2, NeedsFacts DEF GatesPassed

\* A subject whose way in was advised throughout has had everything resolved that
\* is asked for where it is.
AllGatesPassed ==
    \A s \in Subject :
      (~unguided[s] /\ LedgerState(s) \in {"COMPETENCY_EVALUATED",
                          "PARTICIPATION_ADMITTED", "PARTICIPATION_ACTIVE"})
        => passed[s] = Gate

\* All gates are needed where one is evaluated, admitted or active.
LEMMA PassedAreAll == GateTypesOK /\ GatesPassed => AllGatesPassed
<1>1. \A st \in {"COMPETENCY_EVALUATED", "PARTICIPATION_ADMITTED",
                 "PARTICIPATION_ACTIVE"} : Needs(st) = Gate
  BY DEF Needs, NeedsEarly
<1> SUFFICES ASSUME GateTypesOK, GatesPassed, NEW s \in Subject, ~unguided[s],
                    LedgerState(s) \in {"COMPETENCY_EVALUATED",
                      "PARTICIPATION_ADMITTED", "PARTICIPATION_ACTIVE"}
             PROVE  passed[s] = Gate
  BY DEF AllGatesPassed
<1>2. Needs(LedgerState(s)) \subseteq passed[s] /\ passed[s] \subseteq Gate
  BY DEF GatesPassed, GateTypesOK
<1> QED
  BY <1>1, <1>2

\* Any number of callers that share subjects, ask all the way in and read where
\* a subject is before they move it: one may ask and another follow later, and
\* still every gate was resolved when a subject is evaluated, admitted or active.
THEOREM CurrentAdvisedHavePassed ==
    FlowSpec /\ [][ActOnCurrent]_vars => []AllGatesPassed
<1>1. FlowInit => AdviceInv /\ GateTypesOK /\ GatesPassed
  BY GateInit
<1>2. TypeOK /\ AdviceInv /\ [FlowNext]_flowVars => AdviceInv'
  BY AdviceStep
<1>3. AdviceInv /\ GateTypesOK /\ [FlowNext]_flowVars => GateTypesOK'
  BY GateTypesStep
<1>4. TypeOK /\ TypeOK' /\ AdviceInv /\ GateTypesOK /\ GatesPassed
        /\ [FlowNext]_flowVars /\ [ActOnCurrent]_vars => GatesPassed'
  BY GateStep
<1> QED
  BY <1>1, <1>2, <1>3, <1>4, PassedAreAll, FlowImplementsTransitions, TypeCorrect,
     PTL DEF FlowSpec

\* One caller that asks all the way in and is told of each transition has had
\* every gate resolved when a subject is evaluated, admitted or active.
THEOREM AdvisedHavePassed == OneCaller => (FlowSpec => []AdvisedPassedAllGates)
<1> SUFFICES ASSUME OneCaller
             PROVE  FlowSpec => []AdvisedPassedAllGates
  OBVIOUS
<1>1. FlowInit => AdviceInv /\ GateInv
  BY GateInit DEF GateInv
<1>2. TypeOK /\ AdviceInv /\ [FlowNext]_flowVars => AdviceInv'
  BY AdviceStep
<1>3. PathInv /\ TypeOK' /\ AdviceInv /\ GateInv /\ [FlowNext]_flowVars => GateInv'
  <2> SUFFICES ASSUME PathInv, TypeOK', AdviceInv, GateInv, [FlowNext]_flowVars
               PROVE  GateInv'
    OBVIOUS
  <2>1. GateTypesOK'
    BY GateTypesStep DEF GateInv
  <2>2. ASSUME unreported' = 0
        PROVE  GatesPassed'
    <3>1. unreported = 0
      <4>1. [Next]_vars
        BY FlowStep
      <4> QED
        BY <2>2, <4>1 DEF Next, vars, Execute, ExecuteUnreported, ReadLedger,
           PathInv, TypeOK
    <3>2. [ActOnCurrent]_vars
      BY <3>1 DEF PathInv, ActOnCurrent
    <3> QED
      BY <3>1, <3>2, GateStep DEF GateInv, PathInv
  <2> QED
    BY <2>1, <2>2 DEF GateInv
<1>4. GateInv => AdvisedPassedAllGates
  BY PassedAreAll DEF GateInv, AllGatesPassed, AdvisedPassedAllGates
<1>5. FlowSpec => []PathInv
  BY PathInvariant, FlowImplementsTransitions, PTL
<1> QED
  BY <1>1, <1>2, <1>3, <1>4, <1>5, FlowImplementsTransitions, TypeCorrect, PTL DEF FlowSpec
=============================================================================
