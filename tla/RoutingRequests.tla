--------------------------- MODULE RoutingRequests ---------------------------
(***************************************************************************)
(* A machine that asks the routing layer one question after another, for   *)
(* every candidate list, predictor answer, cost assignment and threshold   *)
(* on small scales, and compares the answers with what they must mean.     *)
(***************************************************************************)
EXTENDS Routing

CONSTANTS
    Models,        \* model identifiers
    Levels,        \* acceptability scale; also the valid thresholds
    Costs,         \* projected costs
    MaxCandidates, \* bound: length of a candidate list
    MaxAttempts    \* max_validation_attempts, 1 to 3 in the code

RoutingAssumption ==
    /\ Models \subseteq Nat \ {0} /\ Levels \subseteq Nat
    /\ Costs \subseteq Nat /\ MaxCandidates \in Nat /\ MaxAttempts \in 1 .. 3

VARIABLES
    candidates,   \* the candidate list of the question
    predictions,  \* the predictor's answer
    cost,         \* projected cost of each model
    threshold,    \* may lie outside the scale
    result        \* the RoutingResult, or the error raised

vars == <<candidates, predictions, cost, threshold, result>>

Lists == UNION {[1 .. n -> Models] : n \in 0 .. MaxCandidates}

Threshold == Levels \cup {-1}

Pending == RoutingError("pending")

Init ==
    /\ candidates \in Lists
    /\ predictions = <<>>
    /\ cost \in [Models -> Costs]
    /\ threshold \in Threshold
    /\ result = Pending

\* Predictors of the repository answer for the candidates they were given;
\* the service does not rely on it.
Answers ==
    {[i \in 1 .. Len(candidates) |-> [id |-> candidates[i], acc |-> acc[i]]] :
        acc \in [1 .. Len(candidates) -> Levels]}
    \cup {<<>>}
    \cup {<<[id |-> m, acc |-> l], [id |-> m, acc |-> l]>> :
            m \in Models, l \in Levels}

Route ==
    /\ result = Pending
    /\ predictions' \in Answers
    /\ result' = RouteWithSnapshot(candidates, predictions', cost, threshold,
                                   Levels)
    /\ UNCHANGED <<candidates, cost, threshold>>

\* The same question with the threshold one level up.
RaiseThreshold ==
    /\ result # Pending
    /\ threshold + 1 \in Levels
    /\ threshold' = threshold + 1
    /\ result' = RouteWithSnapshot(candidates, predictions, cost, threshold',
                                   Levels)
    /\ UNCHANGED <<candidates, predictions, cost>>

\* The same question with candidates and predictions listed backwards.
Reorder ==
    /\ result # Pending
    /\ candidates' = Reverse(candidates)
    /\ predictions' = Reverse(predictions)
    /\ result' = RouteWithSnapshot(candidates', predictions', cost, threshold,
                                   Levels)
    /\ UNCHANGED <<cost, threshold>>

Next == Route \/ RaiseThreshold \/ Reorder

Spec == Init /\ [][Next]_vars

-----------------------------------------------------------------------------
Answered == result # Pending /\ result.error = "none"

Acc(m) == Acceptability(predictions)[m]

\* The decision against its meaning: the selected model is one of the
\* candidates; it meets the threshold and nothing cheaper does, or nothing
\* meets the threshold and nothing is more acceptable, with ties going to the
\* cheaper model.
DecisionMeansCheapestAcceptable ==
    Answered =>
        LET S == ToSet(candidates)
            met == {m \in S : Acc(m) >= threshold}
        IN  /\ result.selected \in S
            /\ result.fallback <=> met = {}
            /\ met # {} =>
                  /\ result.selected \in met
                  /\ \A m \in met : cost[result.selected] <= cost[m]
            /\ met = {} => \A m \in S :
                  /\ Acc(result.selected) >= Acc(m)
                  /\ Acc(result.selected) = Acc(m) =>
                        cost[result.selected] <= cost[m]

\* Escalation order against its meaning: no model is tried twice, the routed
\* one is first, costs never fall, everything tried after it meets the
\* threshold, a fallback is never escalated, and with attempts to spare no
\* qualifying model is left out.
AttemptOrderMeansEscalation ==
    Answered =>
        LET order == AttemptOrder(result, cost, MaxAttempts)
            met == {m \in ToSet(candidates) : Acc(m) >= threshold}
        IN  /\ order[1] = result.selected /\ IsInjective(order)
            /\ Len(order) <= MaxAttempts
            /\ \A i \in 2 .. Len(order) :
                  order[i] \in met /\ cost[order[i-1]] <= cost[order[i]]
            /\ result.fallback => Len(order) = 1
            /\ Len(order) < MaxAttempts /\ ~result.fallback =>
                  ToSet(order) = met

\* A bad candidate list, predictor answer or threshold never yields a
\* decision.
OnlyWellFormedAnswersDecide ==
    Answered =>
        /\ candidates # <<>> /\ threshold \in Levels
        /\ IsInjective(candidates) /\ IsInjective(IdsOf(predictions))
        /\ ToSet(candidates) = ToSet(IdsOf(predictions))

\* Raising the quality threshold never makes the routed model cheaper while
\* some model still meets it.
DearerWithThreshold ==
    RaiseThreshold /\ result.error = "none" /\ ~result'.fallback =>
        cost[result'.selected] >= cost[result.selected]

\* The decision does not depend on the order of the configured candidate list
\* or of the predictor's answer.
OrderIndependent == Reorder => result' = result

\* A decision is the cheapest acceptable choice of a well-formed answer, and the
\* models to try after it are the escalation the policy allows.
DecisionIsJustified ==
    /\ DecisionMeansCheapestAcceptable /\ AttemptOrderMeansEscalation
    /\ OnlyWellFormedAnswersDecide
=============================================================================
