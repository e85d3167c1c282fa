------------------------------- MODULE Routing -------------------------------
(***************************************************************************)
(* The pure routing layer: RoutingDecisionService.route_features_with_     *)
(* snapshot, CostAwareRoutingPolicy.route, and the order in which          *)
(* AdaptiveInferenceService._generate_validated tries the candidates.      *)
(*                                                                         *)
(* A model identifier is a number, standing for its place in the           *)
(* lexicographic order of identifiers; acceptabilities and projected costs *)
(* are numbers on finite scales.                                           *)
(***************************************************************************)
EXTENDS Integers, Sequences, FiniteSets, SequencesExt

\* key = (projected_cost_usd, model_id)
Cheaper(cost, m, n) ==
    \/ cost[m] < cost[n]
    \/ cost[m] = cost[n] /\ m < n

\* key = (-predicted_acceptability, projected_cost_usd, model_id)
Better(acc, cost, m, n) ==
    \/ acc[m] > acc[n]
    \/ acc[m] = acc[n] /\ Cheaper(cost, m, n)

\* Python's min() over some of a list: the first of them none of them is less than.
First(list, some, Less(_, _)) ==
    list[Min({i \in DOMAIN list :
                list[i] \in some /\ \A n \in some : ~Less(n, list[i])})]

Qualifies(acc, threshold, m) == acc[m] >= threshold

\* CostAwareRoutingPolicy.route on a nonempty list of distinct candidates.
Decision(list, acc, cost, threshold) ==
    LET qualifying == {m \in ToSet(list) : Qualifies(acc, threshold, m)}
    IN  [error     |-> "none",
         selected  |-> IF qualifying # {}
                       THEN First(list, qualifying, LAMBDA m, n : Cheaper(cost, m, n))
                       ELSE First(list, ToSet(list), LAMBDA m, n : Better(acc, cost, m, n)),
         fallback  |-> qualifying = {},
         qualifies |-> qualifying]

RoutingError(e) ==
    [error |-> e, selected |-> 0, fallback |-> FALSE, qualifies |-> {}]

IdsOf(predictions) == [i \in DOMAIN predictions |-> predictions[i].id]

Acceptability(predictions) ==
    [m \in ToSet(IdsOf(predictions)) |->
        (CHOOSE p \in ToSet(predictions) : p.id = m).acc]

\* route_features_with_snapshot: the predictor's answer must name exactly the
\* eligible candidates, in any order, and each once.  The policy then rejects
\* an empty list and a threshold off the scale.
RouteWithSnapshot(candidates, predictions, cost, threshold, scale) ==
    IF ~IsInjective(candidates) THEN RoutingError("duplicate_candidate")
    ELSE IF ~IsInjective(IdsOf(predictions))
         THEN RoutingError("duplicate_prediction")
    ELSE IF ToSet(candidates) # ToSet(IdsOf(predictions))
         THEN RoutingError("incompatible_prediction")
    ELSE IF candidates = <<>> THEN RoutingError("no_eligible_candidates")
    ELSE IF threshold \notin scale THEN RoutingError("invalid_threshold")
    ELSE Decision(candidates, Acceptability(predictions), cost, threshold)

\* sorted() by the key of Cheaper: the one way to list a set from the cheapest up.
Sorted(S, cost) ==
    CHOOSE s \in [1 .. Cardinality(S) -> S] :
        \A i, j \in DOMAIN s : i < j => Cheaper(cost, s[i], s[j])

AttemptOrder_Fallback(decision, cost, max) ==
    LET others == Sorted(DOMAIN cost \ {decision.selected}, cost)
        all    == <<decision.selected>> \o others
    IN  SubSeq(all, 1, IF Len(all) < max THEN Len(all) ELSE max)

\* model_ids of _generate_validated: the routed model, then, unless routing
\* fell back, the other qualifying candidates from the cheapest up, cut to the
\* maximum number of attempts.
AttemptOrder(decision, cost, max) ==
    LET others == IF decision.fallback THEN <<>>
                  ELSE Sorted(decision.qualifies \ {decision.selected}, cost)
        all    == <<decision.selected>> \o others
    IN  SubSeq(all, 1, IF Len(all) < max THEN Len(all) ELSE max)
=============================================================================
