------------------------------ MODULE EntryFlow ------------------------------
(***************************************************************************)
(* engines/navigation.py composed with StateTransitions: callers ask the   *)
(* navigation engine where a subject may go, and execute the transition it *)
(* names.  The two engines are separate tables: decide() of navigation     *)
(* knows the way in and what must be resolved at each stage of it, the     *)
(* transition engine knows the rules and looks at nothing of that.  A      *)
(* caller may also execute a transition without asking.                    *)
(***************************************************************************)
EXTENDS StateTransitions

CONSTANT Question   \* what callers ask: a target and what they declare resolved

VARIABLES
    advice,    \* the last decision each caller holds about each subject
    passed,    \* history: gates resolved when a subject was advised on its way
    unguided   \* history: whether it took a step of the way in unadvised

flowVars == <<vars, advice, passed, unguided>>

-----------------------------------------------------------------------------
(* NavigationDecisionEngine.decide().                                      *)

\* What a NavigationRequest can declare resolved.
Gate == {"identity", "context", "dependencies", "interpretation", "competency"}

\* Where a subject in a state waits for a gate, and what it is told there.
GateOf ==
    [ENCOUNTERED |-> "identity", IDENTIFIED |-> "context",
     CONTEXTUALIZED |-> "dependencies",
     DEPENDENCY_RESOLVED |-> "interpretation", INTERPRETED |-> "competency"]

DemandOf ==
    [ENCOUNTERED |-> "REQUIRE_CONTEXT", IDENTIFIED |-> "REQUIRE_CONTEXT",
     CONTEXTUALIZED |-> "REQUIRE_DEPENDENCY_RESOLUTION",
     DEPENDENCY_RESOLVED |-> "REQUIRE_RECONSTRUCTION", INTERPRETED |-> "DEFER"]

\* Mutated form of AllowedTargets: the context stage is skipped.
AllowedTargetsSkip ==
    [ENCOUNTERED |-> "IDENTIFIED", IDENTIFIED |-> "DEPENDENCY_RESOLVED",
     CONTEXTUALIZED |-> "DEPENDENCY_RESOLVED",
     DEPENDENCY_RESOLVED |-> "INTERPRETED",
     INTERPRETED |-> "COMPETENCY_EVALUATED",
     COMPETENCY_EVALUATED |-> "PARTICIPATION_ADMITTED",
     PARTICIPATION_ADMITTED |-> "PARTICIPATION_ACTIVE"]

AllowedTargets ==
    [ENCOUNTERED |-> "IDENTIFIED", IDENTIFIED |-> "CONTEXTUALIZED",
     CONTEXTUALIZED |-> "DEPENDENCY_RESOLVED",
     DEPENDENCY_RESOLVED |-> "INTERPRETED",
     INTERPRETED |-> "COMPETENCY_EVALUATED",
     COMPETENCY_EVALUATED |-> "PARTICIPATION_ADMITTED",
     PARTICIPATION_ADMITTED |-> "PARTICIPATION_ACTIVE"]

Navigation == [current : State, target : State, resolved : SUBSET Gate]
Verdict == {"PROCEED", "DEFER", "REDIRECT", "REQUIRE_CONTEXT",
            "REQUIRE_DEPENDENCY_RESOLUTION", "REQUIRE_RECONSTRUCTION", "DENY"}
Withheld == Verdict \ {"PROCEED", "REDIRECT", "DENY"}

\* A NavigationDecision, with the state it was asked from and the gate of that
\* state if it was declared resolved.
Answer(r, verdict, next) ==
    [from |-> r.current, verdict |-> verdict, next |-> next,
     granted |-> {GateOf[st] : st \in DOMAIN GateOf \intersect {r.current}}
                   \intersect r.resolved]
NoAdvice == [verdict |-> "NONE"]

\* Mutated form of Decide: the gates are not looked at.
DecideUngated(r) ==
    IF r.current = "UNENCOUNTERED"
    THEN Answer(r, "PROCEED", "ENCOUNTERED")
    ELSE IF r.current \notin DOMAIN AllowedTargets
    THEN Answer(r, "DENY", r.current)
    ELSE IF r.target # AllowedTargets[r.current]
    THEN Answer(r, "REDIRECT", AllowedTargets[r.current])
    ELSE Answer(r, "PROCEED", AllowedTargets[r.current])

\* Mutated form of Decide: a stage needs the gates of all stages before it,
\* but is told of its own only.
DecideCumulative(r) ==
    IF r.current = "UNENCOUNTERED"
    THEN Answer(r, "PROCEED", "ENCOUNTERED")
    ELSE IF r.current \in DOMAIN GateOf /\ r.resolved # Gate
    THEN Answer(r, DemandOf[r.current], r.current)
    ELSE IF r.current \notin DOMAIN AllowedTargets
    THEN Answer(r, "DENY", r.current)
    ELSE IF r.target # AllowedTargets[r.current]
    THEN Answer(r, "REDIRECT", AllowedTargets[r.current])
    ELSE Answer(r, "PROCEED", AllowedTargets[r.current])

\* decide(): an unencountered subject goes on whatever the target is; then
\* the gate of the present state, then whether there is a way on, then
\* whether it is the one asked for.
Decide(r) ==
    IF r.current = "UNENCOUNTERED"
    THEN Answer(r, "PROCEED", "ENCOUNTERED")
    ELSE IF r.current \in DOMAIN GateOf /\ GateOf[r.current] \notin r.resolved
    THEN Answer(r, DemandOf[r.current], r.current)
    ELSE IF r.current \notin DOMAIN AllowedTargets
    THEN Answer(r, "DENY", r.current)
    ELSE IF r.target # AllowedTargets[r.current]
    THEN Answer(r, "REDIRECT", AllowedTargets[r.current])
    ELSE Answer(r, "PROCEED", AllowedTargets[r.current])

-----------------------------------------------------------------------------
FlowInit ==
    /\ Init
    /\ advice = [c \in Client |-> [s \in Subject |-> NoAdvice]]
    /\ passed = [s \in Subject |-> {}]
    /\ unguided = [s \in Subject |-> FALSE]

\* decide_navigation(): the caller asks for the state it knows, and keeps an
\* answer that lets it proceed; any other answer leaves it where it was.
Ask(c, s, question) ==
    LET a == Decide([current |-> known[c][s], target |-> question.target,
                     resolved |-> question.resolved])
    IN  /\ a.verdict = "PROCEED"
        /\ advice' = [advice EXCEPT ![c][s] = a]
        /\ UNCHANGED <<vars, passed, unguided>>

\* The rule an answer points to, from the state it was asked for.
Advised(a) ==
    {rule \in CanonicalTransitions :
       rule.prior = a.from /\ rule.result = a.next}

\* The caller carries out the advice it holds, and is done with it.
Follow(c, s, grounds) ==
    /\ advice[c][s] # NoAdvice
    /\ \E rule \in Advised(advice[c][s]) : Execute(c, s, rule, grounds)
    /\ passed' = [passed EXCEPT ![s] =
                    IF unguided[s] THEN {} ELSE @ \union advice[c][s].granted]
    /\ advice' = [advice EXCEPT ![c][s] = NoAdvice]
    /\ UNCHANGED unguided

\* A transition without advice.  A reconstruction asks for a new evaluation.
ExecuteUnadvised(c, s, rule, grounds) ==
    /\ Execute(c, s, rule, grounds)
    /\ advice' = [advice EXCEPT ![c][s] = NoAdvice]
    /\ unguided' = [unguided EXCEPT ![s] = @ \/ rule \in EntryRules]
    /\ passed' = [passed EXCEPT ![s] =
                    IF rule \in EntryRules THEN {}
                    ELSE IF rule.prior = "RECONSTRUCTION_REQUIRED"
                    THEN @ \ {"competency"} ELSE @]

\* One that is reported as failed: the caller keeps its advice and may try again.
UnreportedUnadvised(c, s, rule, grounds) ==
    /\ ExecuteUnreported(c, s, rule, grounds)
    /\ unguided' = [unguided EXCEPT ![s] = TRUE]
    /\ passed' = [passed EXCEPT ![s] = {}]
    /\ UNCHANGED advice

\* A caller that reads the ledger keeps the advice it holds.
ReadTraces(c, s) ==
    /\ ReadLedger(c, s)
    /\ UNCHANGED <<advice, passed, unguided>>

FlowNext ==
    \E c \in Client, s \in Subject :
      \/ \E question \in Question : Ask(c, s, question)
      \/ \E grounds \in Grounds :
           \/ Follow(c, s, grounds)
           \/ \E rule \in CanonicalTransitions :
                \/ ExecuteUnadvised(c, s, rule, grounds)
                \/ UnreportedUnadvised(c, s, rule, grounds)
      \/ ReadTraces(c, s)

FlowSpec == FlowInit /\ [][FlowNext]_flowVars

-----------------------------------------------------------------------------
(* Properties.                                                             *)

Complete(g) == g.authority # NoAuthority /\ g.evidence

\* The two tables name the same way: where a caller was told to proceed, one
\* rule leads there, and the transition engine accepts it with complete grounds
\* exactly as long as the caller still holds the subject to be where it asked
\* from.  So advice that has become stale is rejected, and no other is.
AdviceIsExecutable ==
    \A c \in Client, s \in Subject :
      advice[c][s] # NoAdvice =>
        /\ Advised(advice[c][s]) # {}
        /\ \A rule \in Advised(advice[c][s]), g \in Grounds : Complete(g) =>
             (Accepted(RequestOf(c, s, rule, g))
                <=> known[c][s] = advice[c][s].from)

\* Whoever is held up, redirected or denied is told enough: with the one gate
\* of its state resolved, or the target that was named, the same question is
\* not held up again, and a denial means that no rule of the way in leaves the
\* state.  A question is asked of every state some caller holds.
AnswersLeadOn ==
    \A c \in Client, s \in Subject, q \in Question :
      LET r == [current |-> known[c][s], target |-> q.target,
                resolved |-> q.resolved]
          a == Decide(r)
      IN  /\ a.verdict \in Withheld =>
               Decide([r EXCEPT !.resolved = @ \union {GateOf[r.current]}]).verdict
                 \in {"PROCEED", "REDIRECT"}
          /\ a.verdict = "REDIRECT" =>
               Decide([r EXCEPT !.target = a.next]).verdict = "PROCEED"
          /\ a.verdict = "DENY" =>
               \A rule \in EntryRules : rule.prior # r.current

\* A subject whose way in was advised throughout, by a caller that was told of
\* each transition, has had everything resolved that the way in asks for when
\* it is evaluated, admitted or active, and again after a reconstruction.
AdvisedPassedAllGates ==
    \A s \in Subject :
      (unreported = 0 /\ ~unguided[s] /\
       LedgerState(s) \in {"COMPETENCY_EVALUATED", "PARTICIPATION_ADMITTED",
                           "PARTICIPATION_ACTIVE"})
        => passed[s] = Gate
=============================================================================
