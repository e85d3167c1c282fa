--------------------------- MODULE OfflinePolicies ---------------------------
(***************************************************************************)
(* The offline comparison of routing policies on a labelled dataset: the   *)
(* baselines and the oracle of routing/analysis.py, the cost-aware choice  *)
(* the experiments make from out-of-fold probabilities, the summaries all  *)
(* policies are compared by, the dominance rules of ml_policy_validation   *)
(* and calibration_analysis, and the ranking diagnostics.                  *)
(*                                                                         *)
(* A dataset is a label and a probability for every task and candidate.    *)
(* The only step is the one that changes it between two analyses: the      *)
(* answer of one candidate to one task is evaluated anew and exported with *)
(* another label, so that every labelling is reached.  Candidates are      *)
(* numbered in the order of identifiers; costs, probabilities and quality  *)
(* scores are numbers, and sums of them are counted unit by unit.          *)
(***************************************************************************)
EXTENDS Routing

CONSTANTS Tasks,
          NumCandidates,
          FoldOf,         \* the outer fold of every task
          Projected,      \* projected_cost_usd by task and candidate
          Realizations,   \* the realized costs a dataset may have
          CostScore,      \* configured_cost_score by candidate
          Rule,           \* what RuleBasedV1Policy selects by task
          Predictions,    \* the out-of-fold probabilities a dataset may have
          Labels,         \* [status, acceptable, quality]
          Thresholds

Candidates  == 1..NumCandidates
NoCandidate == 0

\* A dataset of finitely many tasks, with numbers for every task and candidate.
DatasetAssumption ==
    LET Amounts == [Tasks -> [Candidates -> Nat]]
    IN  /\ IsFiniteSet(Tasks)
        /\ NumCandidates \in Nat \ {0}
        /\ Projected \in Amounts
        /\ Realizations \subseteq Amounts
        /\ Predictions \subseteq Amounts
        /\ CostScore \in [Candidates -> Nat]
        /\ Rule \in [Tasks -> Candidates]
        /\ Labels \subseteq [status : {"valid", "missing"}, acceptable : BOOLEAN, quality : Nat]
        /\ Thresholds \subseteq Nat

VARIABLES label, probability, realized

vars == <<label, probability, realized>>

Init ==
    /\ label \in {[t \in Tasks |-> [c \in Candidates |-> l]] : l \in Labels}
    /\ probability \in Predictions
    /\ realized \in Realizations

Relabel(t, c, l) ==
    /\ l # label[t][c]
    /\ label' = [label EXCEPT ![t][c] = l]
    /\ UNCHANGED <<probability, realized>>

Next == \E t \in Tasks, c \in Candidates, l \in Labels : Relabel(t, c, l)

Spec == Init /\ [][Next]_vars
-----------------------------------------------------------------------------
(***************************************************************************)
(* Policies: a candidate, or none, for every task.                         *)
(***************************************************************************)
Valid(t, c) == label[t][c].status = "valid"

Acceptable(t, c) == Valid(t, c) /\ label[t][c].acceptable

AllCandidates == [c \in Candidates |-> c]

\* AlwaysCheapestPolicy.select.
AlwaysCheapest ==
    [t \in Tasks |-> First(AllCandidates, Candidates,
                            LAMBDA c, d : Cheaper(Projected[t], c, d))]

Rated(c, ts)   == {t \in ts : Valid(t, c)}
Accepted(c, ts) == Cardinality({t \in ts : Acceptable(t, c)})
\* The points of quality, one by one.
Quality(c, ts) ==
    Cardinality(UNION {{t} \X (1 .. label[t][c].quality) : t \in Rated(c, ts)})

\* ranking.append((-acceptable_rate, -mean_quality, cost_score, candidate_id));
\* the rates are over valid labels and are compared without dividing.
Stronger(c, d, ts) ==
    LET nc == Cardinality(Rated(c, ts))
        nd == Cardinality(Rated(d, ts))
        rate == Accepted(c, ts) * nd - Accepted(d, ts) * nc
        mean == Quality(c, ts) * nd - Quality(d, ts) * nc
    IN  \/ rate > 0
        \/ rate = 0 /\ mean > 0
        \/ rate = 0 /\ mean = 0 /\ Cheaper(CostScore, c, d)

\* resolve_strongest on the rows of some tasks: it raises unless every
\* candidate has a valid label among them.
Resolvable(ts) == \A c \in Candidates : Rated(c, ts) # {}

resolve_strongest(ts) ==
    CHOOSE c \in Candidates : \A d \in Candidates \ {c} : Stronger(c, d, ts)

Training_AllTasks(t) == Tasks

\* The rows fold_local_strongest_decisions resolves a task's candidate from.
Training(t) == {u \in Tasks : FoldOf[u] # FoldOf[t]}

FoldLocal(t) ==
    IF Resolvable(Training(t)) THEN resolve_strongest(Training(t)) ELSE NoCandidate

\* ml_experiment.select_cost_aware_candidate: the cheapest candidate that
\* reaches the threshold, or the most probable one when none does.
select_cost_aware_candidate(t, threshold) ==
    LET qualified == {c \in Candidates : probability[t][c] >= threshold}
        Key(c)    == IF qualified # {} THEN 0 ELSE -probability[t][c]
        pool      == IF qualified # {} THEN qualified ELSE Candidates
        rank      == [c \in pool |-> Key(c)]
    IN  CHOOSE c \in pool : \A d \in pool \ {c} :
            \/ rank[c] < rank[d]
            \/ rank[c] = rank[d] /\ Cheaper(Projected[t], c, d)

\* route_predictions, routing_sensitivity and disagreement_routing_diagnostics.
route_predictions(threshold) ==
    [t \in Tasks |-> select_cost_aware_candidate(t, threshold)]

\* calibration_analysis.route_at_threshold: the same choice, made by the
\* production CostAwareRoutingPolicy.
route_at_threshold(threshold) ==
    [t \in Tasks |->
        Decision(AllCandidates, probability[t], Projected[t], threshold)]

CheapestOf(cs, cost) == CHOOSE c \in cs : \A d \in cs \ {c} : Cheaper(cost, c, d)

Observed_AnyLabelled(t) == {c \in Candidates : Valid(t, c)}

\* The rows an oracle may pick from: valid and acceptable.
Observed(t) == {c \in Candidates : Acceptable(t, c)}

\* oracle_cheapest_acceptable: by realized cost.
oracle_cheapest_acceptable ==
    [t \in Tasks |-> IF Observed(t) = {} THEN NoCandidate
                     ELSE CheapestOf(Observed(t), realized[t])]

\* The oracle of baseline_analysis and of phase9_retraining.baselines: by
\* projected cost.
projected_oracle ==
    [t \in Tasks |-> IF Observed(t) = {} THEN NoCandidate
                     ELSE CheapestOf(Observed(t), Projected[t])]
-----------------------------------------------------------------------------
(***************************************************************************)
(* Summaries and their comparison.                                         *)
(***************************************************************************)
Summary(policy, cost) ==
    LET selected == {t \in Tasks : policy[t] # NoCandidate}
        valid    == {t \in selected : Valid(t, policy[t])}
    IN  [selected   |-> Cardinality(selected),
         valid      |-> Cardinality(valid),
         acceptable |-> Cardinality({t \in valid : Acceptable(t, policy[t])}),
         cost       |-> Cardinality(
                            UNION {{t} \X (1 .. cost[t][policy[t]]) : t \in selected})]

\* evaluate_decisions: totals are of realized cost.
evaluate_decisions(policy) == Summary(policy, realized)

\* summarize_selections: totals are of projected cost.
summarize_selections(policy) == Summary(policy, Projected)

HigherRate(a, b) == a.acceptable * b.valid > b.acceptable * a.valid

\* first_dominates: at least as good in rate and cost and better in one.
Dominates(a, b) ==
    /\ ~HigherRate(b, a)
    /\ a.cost <= b.cost
    /\ HigherRate(a, b) \/ a.cost < b.cost

\* Two points are compared only when the same number of their selections
\* carry valid labels; a rate over none of them is None and cannot be read.
compare_policy_points(a, b) ==
    IF a.valid # b.valid THEN "incomparable_coverage"
    ELSE IF a.valid = 0 THEN "error"
    ELSE IF Dominates(a, b) THEN "first_dominates"
    ELSE IF Dominates(b, a) THEN "second_dominates"
    ELSE IF ~HigherRate(a, b) /\ ~HigherRate(b, a) /\ a.cost = b.cost
         THEN "equivalent"
    ELSE "tradeoff"

\* The deployable points pareto_classification compares.
Points ==
    {evaluate_decisions(p) :
        p \in {AlwaysCheapest, Rule, [t \in Tasks |-> FoldLocal(t)]}
              \cup {route_predictions(th) : th \in Thresholds}}

dominated_by(point, points) ==
    {q \in points : compare_policy_points(point, q) = "second_dominates"}

\* One summary per threshold.
ThresholdSummaries ==
    {<<th, summarize_selections([t \in Tasks |-> route_at_threshold(th)[t].selected])>> :
        th \in Thresholds}

\* calibration_analysis.frontier: the thresholds no other threshold with the
\* same coverage dominates, by projected cost.
frontier(summaries) ==
    {key \in summaries :
        ~\E other \in summaries \ {key} :
            /\ other[2].valid = key[2].valid
            /\ other[2].cost <= key[2].cost
            /\ ~HigherRate(key[2], other[2])
            /\ other[2].cost < key[2].cost \/ HigherRate(other[2], key[2])}
-----------------------------------------------------------------------------
(***************************************************************************)
(* The ranking diagnostics of ml_diagnostics._rank_variant.                *)
(***************************************************************************)
\* ranked[0]: most probable, ties by identifier.
TopOne(t) ==
    First(AllCandidates, Candidates,
          LAMBDA c, d : \/ probability[t][c] > probability[t][d]
                        \/ probability[t][c] = probability[t][d] /\ c < d)

\* Pairs of an acceptable and an unacceptable answer to one task, by whether
\* their probabilities are in the right order.
RankedPairs(t) ==
    LET pairs == {p \in Candidates \X Candidates :
                    Acceptable(t, p[1]) /\ Valid(t, p[2]) /\ ~Acceptable(t, p[2])}
    IN  [pairs |-> Cardinality(pairs),
         correct |-> Cardinality({p \in pairs : probability[t][p[1]] > probability[t][p[2]]}),
         ties |-> Cardinality({p \in pairs : probability[t][p[1]] = probability[t][p[2]]})]

\* disagreement_tasks: the tasks whose valid labels differ.
disagreement_tasks ==
    {t \in Tasks : {label[t][c].acceptable : c \in {d \in Candidates : Valid(t, d)}}
                     = {FALSE, TRUE}}

\* What oracle_opportunity_capture says of one selection.
Captured(t, c) ==
    LET oracle == oracle_cheapest_acceptable[t]
    IN  CASE oracle = NoCandidate -> "oracle_abstention_no_acceptable_candidate"
          [] oracle # NoCandidate /\ ~Valid(t, c) -> "interaction_selected_label_missing"
          [] Valid(t, c) /\ c = oracle -> "selected_oracle_cheapest_acceptable"
          [] Acceptable(t, c) /\ c # oracle /\ oracle # NoCandidate ->
                "selected_another_acceptable_candidate"
          [] OTHER -> "selected_unacceptable_candidate"
-----------------------------------------------------------------------------
AnyPolicy == [Tasks -> Candidates]

\* The oracle is the bound the reports take it for, on what has been observed:
\* no policy has more acceptable selections, and a policy that matches them all
\* pays at least the oracle's realized cost.
OracleBoundsPolicies ==
    LET oracle == evaluate_decisions(oracle_cheapest_acceptable)
    IN  \A p \in AnyPolicy :
            LET s == evaluate_decisions(p)
            IN  /\ s.acceptable <= oracle.acceptable
                /\ s.acceptable = oracle.acceptable => s.cost >= oracle.cost

\* The two oracles abstain on the same tasks and are right equally often, and
\* each is the cheaper one by the cost it minimises.
OraclesAgree ==
    LET o == oracle_cheapest_acceptable
        p == projected_oracle
    IN  /\ \A t \in Tasks : (o[t] = NoCandidate) <=> (p[t] = NoCandidate)
        /\ evaluate_decisions(o).acceptable = evaluate_decisions(p).acceptable
        /\ evaluate_decisions(o).cost <= evaluate_decisions(p).cost
        /\ summarize_selections(p).cost <= summarize_selections(o).cost

\* The selection rule the experiments carry and the policy that serves requests
\* choose the same candidate from the same probabilities at every threshold, and
\* as the threshold rises a task once without a qualifying candidate stays so
\* and the price of its qualifying selection never falls.
OfflineMatchesServing ==
    \A t \in Tasks, th \in Thresholds :
        LET d == route_at_threshold(th)[t]
        IN  /\ select_cost_aware_candidate(t, th) = d.selected
            /\ \A higher \in {h \in Thresholds : h > th} :
                  LET e == route_at_threshold(higher)[t]
                  IN  /\ d.fallback => e.fallback
                      /\ ~e.fallback => Projected[t][d.selected] <= Projected[t][e.selected]

Mirror(relation) ==
    CASE relation = "first_dominates" -> "second_dominates"
      [] relation = "second_dominates" -> "first_dominates"
      [] OTHER -> relation

\* compare_policy_points is an order whatever the policies' coverage: it says
\* the same of two points whichever comes first, and a dominated point is
\* dominated by one that is not dominated itself, so that reporting only the
\* others loses nothing.
DominanceIsAnOrder ==
    LET points == Points
    IN  /\ \A p, q \in points :
              compare_policy_points(q, p) = Mirror(compare_policy_points(p, q))
        /\ \A p \in points :
              dominated_by(p, points) # {} =>
                  \E q \in dominated_by(p, points) : dominated_by(q, points) = {}

\* The two implementations of the frontier rule agree on the thresholds, given
\* that their selections carry labels at all.
FrontiersAgree ==
    LET summaries == ThresholdSummaries
    IN  (\A key \in summaries : key[2].valid > 0) =>
            frontier(summaries) =
                {key \in summaries : ~\E other \in summaries :
                    compare_policy_points(other[2], key[2]) = "first_dominates"}

\* When every acceptable answer outranks every unacceptable one, the candidate
\* ranked first is never known to be unacceptable on a task that has an
\* acceptable answer.
PerfectRankingIsSafe ==
    \A t \in Tasks :
        LET r == RankedPairs(t)
        IN  r.pairs > 0 /\ r.correct = r.pairs =>
                Captured(t, TopOne(t)) # "selected_unacceptable_candidate"

Passes(policy, ts) == Cardinality({t \in ts : Acceptable(t, policy[t])})

\* The experiments compare policies on the disagreement tasks because nothing is
\* lost outside them: two policies whose selections are all labelled differ by
\* as many acceptable selections on those tasks as on the whole dataset.
DisagreementsDecide ==
    LET disagreements == disagreement_tasks
        labelled == {p \in AnyPolicy : \A t \in Tasks : Valid(t, p[t])}
    IN  \A p, q \in labelled :
            Passes(p, Tasks) - Passes(q, Tasks)
              = Passes(p, disagreements) - Passes(q, disagreements)

\* fold_local_strongest_decisions: a new label on a task changes no selection
\* on a task of the same fold, which is chosen by the labels of other folds.
HeldOutStep ==
    \A t \in Tasks :
        (\A u \in Tasks : FoldOf[u] # FoldOf[t] => label'[u] = label[u])
            => FoldLocal(t)' = FoldLocal(t)

\* What the reports conclude from the comparison of policies is so: the oracle is
\* a bound, the studied rule is the served one, dominance and frontier order the
\* policies, and ranking and disagreements say what they are read to say.
ComparisonsAreSound ==
    /\ OracleBoundsPolicies /\ OraclesAgree /\ OfflineMatchesServing
    /\ DominanceIsAnOrder /\ FrontiersAgree
    /\ PerfectRankingIsSafe /\ DisagreementsDecide
=============================================================================
