-------------------------- MODULE StateTransitions --------------------------
(***************************************************************************)
(* models/transitions.py and engines/transitions.py: the seventeen         *)
(* canonical transition rules and the engine that admits or rejects a      *)
(* request, with the traces that RuntimeOrchestrator.execute_transition()  *)
(* appends to the ledger.                                                  *)
(*                                                                         *)
(* The engine keeps no state: the state a subject (an actor and an object) *)
(* is in is what the caller puts into the request.  A caller knows it from *)
(* the transitions it executed itself and from the traces it has read.     *)
(* One append to the ledger is one step here; TraceLedger models it.       *)
(***************************************************************************)
EXTENDS Naturals, Sequences

CONSTANTS
    Client,       \* callers of the runtime
    Subject,      \* (actor_id, object_id) pairs
    Authority,    \* ids of authority records
    NoAuthority,  \* authority_id is None
    Grounds,      \* the authority, evidence and uncertainty requests name
    MaxTrace,     \* bound: traces in the ledger
    MaxUnreported \* bound: executions whose caller is told they failed

ASSUME StateTransitionsAssumption ==
    /\ NoAuthority \notin Authority
    /\ Grounds \subseteq
         [authority : Authority \union {NoAuthority},
          evidence : BOOLEAN, uncertainty : BOOLEAN]
    /\ MaxTrace \in Nat
    /\ MaxUnreported \in Nat

State ==
    {"UNENCOUNTERED", "ENCOUNTERED", "IDENTIFIED", "CONTEXTUALIZED",
     "DEPENDENCY_RESOLVED", "INTERPRETED", "COMPETENCY_EVALUATED",
     "PARTICIPATION_ADMITTED", "PARTICIPATION_ACTIVE",
     "REVALIDATION_REQUIRED", "RECONSTRUCTION_REQUIRED", "SUSPENDED",
     "REVOKED", "EXITED"}

Rule(id, prior, result, authority, evidence, review) ==
    [id |-> id, prior |-> prior, result |-> result,
     authority |-> authority, evidence |-> evidence, review |-> review]

\* The way in: from the first encounter to an active participation.
EntryRules ==
    {Rule(1, "UNENCOUNTERED", "ENCOUNTERED", FALSE, TRUE, FALSE),
     Rule(2, "ENCOUNTERED", "IDENTIFIED", FALSE, TRUE, TRUE),
     Rule(3, "IDENTIFIED", "CONTEXTUALIZED", FALSE, TRUE, TRUE),
     Rule(4, "CONTEXTUALIZED", "DEPENDENCY_RESOLVED", FALSE, TRUE, TRUE),
     Rule(5, "DEPENDENCY_RESOLVED", "INTERPRETED", FALSE, TRUE, TRUE),
     Rule(6, "INTERPRETED", "COMPETENCY_EVALUATED", TRUE, TRUE, TRUE),
     Rule(7, "COMPETENCY_EVALUATED", "PARTICIPATION_ADMITTED", TRUE, TRUE, TRUE),
     Rule(8, "PARTICIPATION_ADMITTED", "PARTICIPATION_ACTIVE", TRUE, TRUE, TRUE)}

\* Mutated form of LaterRules: a reconstruction ends in an admission.
LaterRulesReadmit ==
    {Rule(9, "PARTICIPATION_ACTIVE", "REVALIDATION_REQUIRED", FALSE, TRUE, TRUE),
     Rule(10, "PARTICIPATION_ACTIVE", "RECONSTRUCTION_REQUIRED", FALSE, TRUE, TRUE),
     Rule(11, "PARTICIPATION_ACTIVE", "SUSPENDED", TRUE, TRUE, TRUE),
     Rule(12, "SUSPENDED", "PARTICIPATION_ACTIVE", TRUE, TRUE, TRUE),
     Rule(13, "SUSPENDED", "REVOKED", TRUE, TRUE, TRUE),
     Rule(14, "REVALIDATION_REQUIRED", "PARTICIPATION_ACTIVE", TRUE, TRUE, TRUE),
     Rule(15, "RECONSTRUCTION_REQUIRED", "PARTICIPATION_ACTIVE", TRUE, TRUE, TRUE),
     Rule(16, "PARTICIPATION_ACTIVE", "EXITED", FALSE, TRUE, FALSE),
     Rule(17, "EXITED", "REVALIDATION_REQUIRED", FALSE, TRUE, TRUE)}

\* What can happen to an active participation.
LaterRules ==
    {Rule(9, "PARTICIPATION_ACTIVE", "REVALIDATION_REQUIRED", FALSE, TRUE, TRUE),
     Rule(10, "PARTICIPATION_ACTIVE", "RECONSTRUCTION_REQUIRED", FALSE, TRUE, TRUE),
     Rule(11, "PARTICIPATION_ACTIVE", "SUSPENDED", TRUE, TRUE, TRUE),
     Rule(12, "SUSPENDED", "PARTICIPATION_ACTIVE", TRUE, TRUE, TRUE),
     Rule(13, "SUSPENDED", "REVOKED", TRUE, TRUE, TRUE),
     Rule(14, "REVALIDATION_REQUIRED", "PARTICIPATION_ACTIVE", TRUE, TRUE, TRUE),
     Rule(15, "RECONSTRUCTION_REQUIRED", "INTERPRETED", TRUE, TRUE, TRUE),
     Rule(16, "PARTICIPATION_ACTIVE", "EXITED", FALSE, TRUE, FALSE),
     Rule(17, "EXITED", "REVALIDATION_REQUIRED", FALSE, TRUE, TRUE)}

CanonicalTransitions == EntryRules \union LaterRules

\* A TransitionRequest.  Its grounds are the authority it names, and whether
\* it names evidence and uncertainties.
Request ==
    [rule : CanonicalTransitions, subject : Subject, current : State,
     grounds : Grounds]

\* The reason codes of evaluate(); the request is accepted if there is none.
\* A transition_id without a rule is rejected before any of them.
Reasons(r) ==
    {code \in {"PRIOR_STATE_MISMATCH", "AUTHORITY_REQUIRED",
               "EVIDENCE_REQUIRED", "UNCERTAINTY_REVIEW_AUTHORITY_REQUIRED"} :
       \/ /\ code = "PRIOR_STATE_MISMATCH"
          /\ r.current # r.rule.prior
       \/ /\ code = "AUTHORITY_REQUIRED"
          /\ r.rule.authority /\ r.grounds.authority = NoAuthority
       \/ /\ code = "EVIDENCE_REQUIRED"
          /\ r.rule.evidence /\ ~r.grounds.evidence
       \/ /\ code = "UNCERTAINTY_REVIEW_AUTHORITY_REQUIRED"
          /\ r.rule.review /\ r.grounds.uncertainty
          /\ r.grounds.authority = NoAuthority}

\* Mutated form of Accepted: the caller's state is not compared.
AcceptedAnyState(r) == Reasons(r) \subseteq {"PRIOR_STATE_MISMATCH"}

Accepted(r) == Reasons(r) = {}

\* Mutated form of TraceOf: the index of the rule, counted from zero.
TraceOfIndex(r) ==
    [subject |-> r.subject, rule |-> r.rule.id - 1, prior |-> r.rule.prior,
     result |-> r.rule.result, grounds |-> r.grounds]

\* The ConstitutionalTrace of an accepted request.
TraceOf(r) ==
    [subject |-> r.subject, rule |-> r.rule.id, prior |-> r.rule.prior,
     result |-> r.rule.result, grounds |-> r.grounds]

VARIABLES
    traces,      \* the ledger, oldest first
    known,       \* the state each caller believes each subject to be in
    unreported   \* executions reported as failed, for the bound

vars == <<traces, known, unreported>>

\* The state the ledger says a subject is in: the result of its last trace.
LedgerState(s) ==
    LET own == {i \in 1 .. Len(traces) : traces[i].subject = s}
    IN  IF own = {}
        THEN "UNENCOUNTERED"
        ELSE traces[CHOOSE i \in own : \A j \in own : j <= i].result

Init ==
    /\ traces = <<>>
    /\ known = [c \in Client |-> [s \in Subject |-> "UNENCOUNTERED"]]
    /\ unreported = 0

\* The request a caller makes of a subject: current_state is what it knows.
RequestOf(c, s, rule, grounds) ==
    [rule |-> rule, subject |-> s, current |-> known[c][s],
     grounds |-> grounds]

\* execute_transition() returns the trace, and the caller learns the result.
\* A rejected request raises TransitionRejectedError and changes nothing.
Execute(c, s, rule, grounds) ==
    LET r == RequestOf(c, s, rule, grounds)
    IN  /\ Len(traces) < MaxTrace
        /\ Accepted(r)
        /\ traces' = Append(traces, TraceOf(r))
        /\ known' = [known EXCEPT ![c][s] = rule.result]
        /\ UNCHANGED unreported

\* The trace is appended, and then verify(), head_hash or len() fails to read
\* the ledger: the API reports a failed transition and the caller believes it.
ExecuteUnreported(c, s, rule, grounds) ==
    LET r == RequestOf(c, s, rule, grounds)
    IN  /\ Len(traces) < MaxTrace
        /\ unreported < MaxUnreported
        /\ Accepted(r)
        /\ traces' = Append(traces, TraceOf(r))
        /\ unreported' = unreported + 1
        /\ UNCHANGED known

\* A caller reads traces() and learns where a subject is.
ReadLedger(c, s) ==
    /\ known[c][s] # LedgerState(s)
    /\ known' = [known EXCEPT ![c][s] = LedgerState(s)]
    /\ UNCHANGED <<traces, unreported>>

Next ==
    \/ \E c \in Client, s \in Subject, rule \in CanonicalTransitions,
          grounds \in Grounds :
         \/ Execute(c, s, rule, grounds)
         \/ ExecuteUnreported(c, s, rule, grounds)
    \/ \E c \in Client, s \in Subject : ReadLedger(c, s)

Spec == Init /\ [][Next]_vars

-----------------------------------------------------------------------------
(* Properties.                                                             *)

Trace ==
    [subject : Subject, rule : 1 .. 17, prior : State, result : State,
     grounds : Grounds]

TypeOK ==
    /\ traces \in Seq(Trace)
    /\ known \in [Client -> [Subject -> State]]
    /\ unreported \in Nat

Before(i, j) == i < j /\ traces[i].subject = traces[j].subject

\* Nobody invents a state: whatever a trace starts from, some earlier trace of
\* the subject reached it, also when callers act on stale knowledge and when
\* an execution was reported as failed.
PriorWasReached ==
    \A i \in 1 .. Len(traces) :
      \/ traces[i].prior = "UNENCOUNTERED"
      \/ \E j \in 1 .. Len(traces) : Before(j, i) /\ traces[j].result = traces[i].prior

\* With one caller that is told of each transition, the traces of a subject
\* are one path: each starts in the state the one before it resulted in.  The
\* engine compares the rule with what the caller says and not with the ledger,
\* so a second caller, or an execution reported as failed, can fork the path.
HistoryIsPath ==
    unreported = 0 => \A i \in 1 .. Len(traces) :
      traces[i].prior =
        IF \E j \in 1 .. Len(traces) : Before(j, i)
        THEN LET last == CHOOSE j \in 1 .. Len(traces) :
                           /\ Before(j, i)
                           /\ \A k \in 1 .. Len(traces) : Before(k, i) => k <= j
             IN  traces[last].result
        ELSE "UNENCOUNTERED"

\* Whoever takes part has been let in: each activation names an authority and
\* evidence; between a drift and the next activation the participation was
\* admitted again; between an exit and the next activation it was revalidated.
\* (Where the path is not forked, as for HistoryIsPath.)
ActivationIsGuarded ==
    \A i \in 1 .. Len(traces) :
      (unreported = 0 /\ traces[i].result = "PARTICIPATION_ACTIVE") =>
        /\ traces[i].grounds.authority # NoAuthority
        /\ traces[i].grounds.evidence
        /\ \A j \in 1 .. Len(traces) : Before(j, i) =>
             /\ traces[j].result = "RECONSTRUCTION_REQUIRED" =>
                  \E k \in j .. i : /\ traces[k].subject = traces[i].subject
                                    /\ traces[k].result = "PARTICIPATION_ADMITTED"
             /\ traces[j].result = "EXITED" =>
                  \E k \in j .. i : /\ traces[k].subject = traces[i].subject
                                    /\ traces[k].result = "REVALIDATION_REQUIRED"
=============================================================================
