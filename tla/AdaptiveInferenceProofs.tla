----------------------- MODULE AdaptiveInferenceProofs -----------------------
(***************************************************************************)
(* Proofs about AdaptiveInference, for any number of models, any registry, *)
(* any predictions, prices and threshold, and any completion cost: where   *)
(* money may be spent, what may be returned, and that attempt metrics,     *)
(* telemetry rows, execution rows and the classification agree.            *)
(***************************************************************************)
EXTENDS AdaptiveInference, RoutingLemmas
-----------------------------------------------------------------------------
\* The plan a request may settle on: one model, or the routed one followed by
\* dearer ones that meet the threshold, none skipped.
Ordered(p) ==
    /\ p \in Seq(Models) /\ Len(p) \in 1 .. MaxAttempts
    /\ mode # "validated" => Len(p) = 1
    /\ mode # "explicit" => p[1] = Decided.selected
    /\ \A i \in 2 .. Len(p) :
          /\ ~Decided.fallback /\ Meets(p[i])
          /\ \A m \in ToSet(question.list) :
                Meets(m) /\ question.cost[m] < question.cost[p[i]] =>
                    \E j \in 1 .. (i - 1) : p[j] = m
    /\ \A i, j \in 1 .. Len(p) :
          i < j => /\ p[i] # p[j] /\ question.cost[p[i]] <= question.cost[p[j]]
                   /\ Meets(p[i]) /\ Meets(p[j])

Given == mode \in Modes /\ question \in Questions

Settled ==
    /\ plan # <<>> => Ordered(plan) /\ number \in 1 .. Len(plan)
    /\ plan = <<>> =>
          pc \in {"start", "done"} /\ number = 1 /\ calls = <<>> /\ metered = <<>>
    /\ pc = "start" => mode # "explicit" /\ plan = <<>>
    /\ pc \in {"loop", "check", "validate", "record_summary", "writing_summary"} =>
          mode = "validated"

\* Calls, metrics and attempts follow the plan; an earlier attempt failed.
Followed ==
    /\ {Len(calls), Len(metered), Len(attempts)} \subseteq {number - 1, number}
    /\ Len(attempts) <= Len(metered)
    /\ \A i \in 1 .. Len(calls) : calls[i] = plan[i]
    /\ \A i \in 1 .. Len(metered) : metered[i].model = plan[i]
    /\ \A i \in 1 .. Len(attempts) :
          /\ attempts[i].model = plan[i] /\ attempts[i].cost = metered[i].cost
          /\ i < number => attempts[i].status = "failed"
    /\ mode # "validated" => attempts = <<>> /\ number = 1

\* The attempt under way has a completion, which its metric tells of.
Answered ==
    /\ Len(calls) = number /\ Len(metered) = number
    /\ response.model = plan[number]
    /\ metered[number].cost = response.cost
    /\ metered[number].outcome = IF response.rejected THEN "rejected" ELSE "success"
    /\ response.rejected => response.text \in Rejectable

\* The attempt under way came to nothing.
Failed ==
    /\ Len(calls) <= Len(metered)
    /\ Len(metered) = number => metered[number].outcome = "error"
    /\ Len(calls) < Len(metered) => exc = "deadline"

InHand ==
    /\ pc \in {"start", "loop", "enter", "ready"} =>
          /\ Len(calls) = number - 1 /\ Len(metered) = number - 1
          /\ Len(attempts) = number - 1 /\ exc = "none"
    /\ pc = "calling" =>
          /\ Len(calls) = number /\ Len(metered) = number - 1
          /\ Len(attempts) = number - 1 /\ exc = "none"
    /\ pc \in {"record", "writing", "caught"} =>
          /\ Len(attempts) = number - 1
          /\ exc \in {"none", "rejected"} =>
                Answered /\ (exc = "rejected" <=> response.rejected)
          /\ exc \notin {"none", "rejected"} => Failed
    /\ pc \in {"check", "validate"} =>
          Answered /\ Len(attempts) = number - 1 /\ exc = "none"
    /\ pc \in {"record_summary", "writing_summary"} =>
          /\ exc # "rejected"
          /\ exc = "none" => /\ Answered /\ Len(attempts) = number
                             /\ attempts[number].status = Status(response.text)
          /\ exc # "none" => Failed /\ Len(attempts) = number - 1

\* What the properties say of a request that is over.
Ended ==
    /\ pc # "done" => terminal = <<>> /\ summaries = <<>> /\ outcome = "pending"
    /\ pc = "done" =>
          /\ outcome # "pending"
          /\ outcome = "returned" => Len(calls) = number
          /\ ReturnedIsFirstPass
          /\ Len(calls) <= Len(metered)
          /\ Len(calls) < Len(metered) =>
                metered[number].outcome = "error" /\ outcome \in {"deadline", "cancelled"}
          /\ CompleteCostIsTotal /\ ClassificationAgrees /\ TelemetryFailsOpen

Inv == TypeOK /\ Given /\ Settled /\ Followed /\ InHand /\ RowsAgreeWithMetrics /\ Ended

-----------------------------------------------------------------------------
(***************************************************************************)
(* Operators.                                                              *)
(***************************************************************************)
\* _known_cost of two lists of which one starts with the costs of the other.
LEMMA CostOfPrefix ==
    ASSUME NEW S, NEW T, NEW a \in Seq(S), NEW b \in Seq(T), Len(a) <= Len(b),
           \A i \in 1 .. Len(b) : b[i].cost \in Nat,
           \A i \in 1 .. Len(a) : a[i].cost = b[i].cost
    PROVE  /\ KnownCost(a) <= KnownCost(b)
           /\ Len(a) = Len(b) => KnownCost(a) = KnownCost(b)
<1> DEFINE U(s) == UNION {{i} \X (1 .. s[i].cost) : i \in DOMAIN s}
<1>1. DOMAIN a = 1 .. Len(a) /\ DOMAIN b = 1 .. Len(b) /\ Len(a) \in Nat /\ Len(b) \in Nat
  BY LenProperties
<1>2. U(a) \in SUBSET U(b)
  BY <1>1
<1>3. IsFiniteSet(U(b))
  <2> DEFINE P(i) == {i} \X (1 .. b[i].cost)
             F == [i \in DOMAIN b |-> P(i)]
             R == {P(i) : i \in DOMAIN b}
  <2>1. ASSUME NEW i \in DOMAIN b PROVE IsFiniteSet(P(i))
    <3>1. IsFiniteSet({i})
      BY FS_Singleton
    <3>2. 1 \in Int /\ b[i].cost \in Int
      BY <1>1
    <3>3. IsFiniteSet(1 .. b[i].cost)
      BY <3>2, FS_Interval
    <3> QED
      BY <3>1, <3>3, FS_Product
  <2>2. F \in Surjection(DOMAIN b, R)
    BY DEF Surjection
  <2>3. IsFiniteSet(DOMAIN b)
    BY <1>1, FS_Interval
  <2>4. IsFiniteSet(R)
    BY <2>2, <2>3, FS_Surjection
  <2>5. \A X \in R : IsFiniteSet(X)
    BY <2>1
  <2> QED
    BY <2>4, <2>5, FS_UNION
<1>4. KnownCost(a) <= KnownCost(b)
  BY <1>2, <1>3, FS_Subset DEF KnownCost
<1>5. ASSUME Len(a) = Len(b) PROVE U(a) = U(b)
  BY <1>1, <1>5
<1> QED
  BY <1>4, <1>5 DEF KnownCost

\* A completion passes, fails or breaks the validator; only acceptable ones
\* pass.
LEMMA StatusFacts ==
    ASSUME NEW text \in Texts
    PROVE  /\ Status(text) \in {"passed", "failed", "error"}
           /\ Status(text) = "passed" => text \notin Rejectable
BY DEF Texts, Status, Rejectable

\* Routing settles on a plan that is in order (generate, _generate_validated).
LEMMA PlanIsOrdered ==
    ASSUME Given
    PROVE  /\ mode = "legacy" => Ordered(<<Decided.selected>>)
           /\ mode = "validated" => Ordered(AttemptOrder(Decided, question.cost, MaxAttempts))
<1> DEFINE d == Decided
           q == question
           o == AttemptOrder(Decided, question.cost, MaxAttempts)
<1>1. Answerable(Models, q.list, q.acc, q.cost, q.threshold)
  BY AdaptiveAssumption DEF Given, Answerable
<1>2. MaxAttempts \in Nat \ {0}
  BY AdaptiveAssumption
<1>3. LET met == {m \in ToSet(q.list) : Meets(m)}
      IN  d.qualifies = met /\ d.selected \in ToSet(q.list)
  BY <1>1, DecisionFacts DEF Decided, Meets
<1>4. /\ o \in Seq(ToSet(q.list)) /\ Len(o) \in 1 .. MaxAttempts /\ o[1] = d.selected
      /\ \A i \in 1 .. Len(o) : i > 1 => ~d.fallback
      /\ ~d.fallback => \A i \in 1 .. Len(o) : o[i] \in d.qualifies
      /\ \A i, j \in 1 .. Len(o) : i < j => Cheaper(q.cost, o[i], o[j])
      /\ ~d.fallback =>
            \A i \in 1 .. Len(o) : \A m \in d.qualifies :
               Cheaper(q.cost, m, o[i]) => \E j \in 1 .. Len(o) : j < i /\ o[j] = m
  BY <1>1, <1>2, OrderFacts DEF Decided
<1>5. ToSet(q.list) \subseteq Models /\ \A m \in Models : m \in Int /\ q.cost[m] \in Int
  BY <1>1, ListIsFinite DEF Answerable
<1>6. mode = "legacy" => Ordered(<<Decided.selected>>)
  <2>1. <<d.selected>> \in Seq(Models) /\ Len(<<d.selected>>) = 1 /\ <<d.selected>>[1] = d.selected
    BY <1>3, <1>5
  <2> QED
    BY <1>2, <2>1 DEF Ordered
<1> HIDE DEF d, o
<1>7. ASSUME mode = "validated" PROVE Ordered(o)
  <2>1. o \in Seq(Models)
    BY <1>4, <1>5
  <2>2. ASSUME NEW i \in 2 .. Len(o)
        PROVE  /\ ~d.fallback /\ Meets(o[i])
               /\ \A m \in ToSet(q.list) :
                     Meets(m) /\ q.cost[m] < q.cost[o[i]] =>
                         \E j \in 1 .. (i - 1) : o[j] = m
    <3>1. i \in 1 .. Len(o) /\ i > 1 /\ Len(o) \in Nat
      BY <1>4
    <3>2. ~d.fallback
      BY <1>4, <3>1
    <3>3. Meets(o[i])
      BY <1>3, <1>4, <3>1, <3>2
    <3>4. ASSUME NEW m \in ToSet(q.list), Meets(m), q.cost[m] < q.cost[o[i]]
          PROVE  \E j \in 1 .. (i - 1) : o[j] = m
      <4>1. m \in d.qualifies /\ Cheaper(q.cost, m, o[i])
        BY <1>3, <3>4 DEF Cheaper
      <4>2. PICK j \in 1 .. Len(o) : j < i /\ o[j] = m
        BY <1>4, <3>1, <3>2, <4>1
      <4> QED
        BY <3>1, <4>2
    <3> QED
      BY <3>2, <3>3, <3>4
  <2>3. ASSUME NEW i \in 1 .. Len(o), NEW j \in 1 .. Len(o), i < j
        PROVE  /\ o[i] # o[j] /\ q.cost[o[i]] <= q.cost[o[j]]
               /\ Meets(o[i]) /\ Meets(o[j])
    <3>1. j > 1 /\ ~d.fallback
      BY <1>4, <2>3
    <3>2. Meets(o[i]) /\ Meets(o[j])
      BY <1>3, <1>4, <3>1
    <3>3. o[i] \in Models /\ o[j] \in Models /\ Cheaper(q.cost, o[i], o[j])
      BY <1>4, <2>1, <2>3
    <3>4. o[i] # o[j] /\ q.cost[o[i]] <= q.cost[o[j]]
      BY <1>5, <3>3 DEF Cheaper
    <3> QED
      BY <3>2, <3>4
  <2> QED
    BY <1>4, <1>7, <2>1, <2>2, <2>3 DEF Ordered, d
<1> QED
  BY <1>6, <1>7 DEF o

-----------------------------------------------------------------------------
(***************************************************************************)
(* Types.                                                                  *)
(***************************************************************************)
\* The attempt under way is on a model of the plan (model_ids[number]).
LEMMA CurrentIsModel ==
    ASSUME Inv, pc \notin {"start", "done"}
    PROVE  /\ plan \in Seq(Models) /\ Len(plan) \in Nat /\ plan # <<>>
           /\ number \in 1 .. Len(plan) /\ Current \in Models /\ Current = plan[number]
<1>1. plan \in Seq(Models) /\ Len(plan) \in Nat
  BY DEF Inv, TypeOK
<1>2. plan # <<>> /\ number \in 1 .. Len(plan)
  BY DEF Inv, Settled
<1> QED
  BY <1>1, <1>2 DEF Current

\* What the caller sees of an exception is an error it may see.
LEMMA PublicErrors ==
    ASSUME NEW e \in {"rejected"} \cup Errors
    PROVE  PublicError(e) \in Errors /\ (PublicError(e) = "deadline" <=> e = "deadline")
BY DEF PublicError, Errors, ProviderErrors

\* A metric of the attempt under way is a metric.
LEMMA MetricTyped ==
    ASSUME Inv, pc \notin {"start", "done"}, NEW c \in Nat,
           NEW w \in {"success", "rejected", "error", "cancelled"}
    PROVE  Append(metered, Metric(w, c)) \in
              Seq([model : Models, cost : Nat,
                   outcome : {"success", "rejected", "error", "cancelled"}])
<1>1. Current \in Models
  BY CurrentIsModel
<1>2. Metric(w, c) \in [model : Models, cost : Nat,
                        outcome : {"success", "rejected", "error", "cancelled"}]
  BY <1>1 DEF Metric
<1> QED
  BY <1>2 DEF Inv, TypeOK

\* Every step of a request keeps the types.
LEMMA TypeStep ==
    ASSUME Inv, [Next]_vars
    PROVE  TypeOK'
<1> USE DEF inputs, records, work
<1>0. TypeOK /\ Given
  BY DEF Inv
<1>1. CASE Begin
  <2>1. outcome' \in Outcomes
    <3>1. ASSUME NEW i \in DOMAIN question.list,
                 question.registry[question.list[i]] # "enabled",
                 outcome' = RegistryError(question.registry[question.list[i]])
          PROVE  outcome' \in Outcomes
      <4>1. question.list[i] \in Models /\ question.registry \in [Models ->
                        {"enabled", "disabled", "unknown", "unsupported"}]
        BY <1>0, AdaptiveAssumption DEF Given
      <4> QED
        BY <3>1, <4>1 DEF RegistryError, Outcomes, Errors, ProviderErrors
    <3> QED
      BY <1>0, <1>1, <3>1 DEF Begin, Finish, TypeOK, Outcomes, Errors
  <2>2. plan' \in Seq(Models)
    <3>1. plan' = plan \/ Ordered(plan')
      <4>1. ASSUME pc = "start", mode \in Modes PROVE mode = "legacy" \/ mode = "validated"
        BY <4>1, AdaptiveAssumption DEF Inv, Settled
      <4> QED
        BY <1>0, <1>1, <4>1, PlanIsOrdered DEF Begin, Given
    <3> QED
      BY <1>0, <3>1 DEF TypeOK, Ordered
  <2>3. pc' \in {"loop", "enter", "done"}
    BY <1>1 DEF Begin, Finish
  <2> QED
    BY <1>0, <1>1, <2>1, <2>2, <2>3 DEF Begin, TypeOK
<1>2. CASE LoopHead
  BY <1>0, <1>2 DEF LoopHead, Finish, TypeOK, Outcomes, Errors
<1>3. CASE Enter
  <2>1. exc' \in {"none", "rejected"} \cup Errors
    BY <1>3 DEF Enter, RegistryError, Errors, ProviderErrors
  <2> QED
    BY <1>0, <1>3, <2>1 DEF Enter, TypeOK
<1>4. CASE Call
  <2>1. Current \in Models
    BY <1>4, CurrentIsModel DEF Call
  <2>2. exc' \in {"none", "rejected"} \cup Errors
    BY <1>0, <1>4 DEF Call, TypeOK, Errors
  <2>3. calls' \in Seq(Models) /\ pc' \in {"record", "calling"}
    <3>1. calls \in Seq(Models)
      BY <1>0 DEF TypeOK
    <3>2. calls' \in {calls, Append(calls, Current)} /\ pc' \in {"record", "calling"}
      BY <1>4 DEF Call
    <3> QED
      BY <2>1, <3>1, <3>2
  <2>4. metered' \in Seq([model : Models, cost : Nat,
                  outcome : {"success", "rejected", "error", "cancelled"}])
    <3>1. metered' \in {metered, Append(metered, Metric("error", 0))}
      BY <1>4 DEF Call
    <3>2. pc \notin {"start", "done"}
      BY <1>4 DEF Call
    <3> QED
      BY <1>0, <3>1, <3>2, MetricTyped DEF TypeOK
  <2> QED
    BY <1>0, <1>4, <2>2, <2>3, <2>4 DEF Call, TypeOK, Awaiting
<1>5. CASE ProviderReturns \/ ProviderRejects \/ ProviderFails \/ ProviderTimeout
  <2>1. Current \in Models
    BY <1>5, CurrentIsModel DEF ProviderReturns, ProviderRejects, ProviderFails, ProviderTimeout
  <2>2. exc' \in {"none", "rejected"} \cup Errors
    BY <1>0, <1>5 DEF ProviderReturns, ProviderRejects, ProviderFails, ProviderTimeout,
                      TypeOK, Errors
  <2>3. response' \in [model : Models \cup {NoModel}, cost : Nat, text : Texts,
                       rejected : BOOLEAN]
    <3>1. ASSUME NEW text \in Texts, NEW c \in Nat, NEW b \in BOOLEAN,
                 response' = [model |-> Current, cost |-> c, text |-> text, rejected |-> b]
          PROVE  response' \in [model : Models \cup {NoModel}, cost : Nat, text : Texts,
                                rejected : BOOLEAN]
      BY <2>1, <3>1
    <3>2. CASE ProviderReturns
      <4>1. PICK text \in Texts, c \in Costs :
               response' = [model |-> Current, cost |-> c, text |-> text, rejected |-> FALSE]
        BY <3>2 DEF ProviderReturns
      <4>2. c \in Nat /\ FALSE \in BOOLEAN
        BY AdaptiveAssumption
      <4> QED
        BY <3>1, <4>1, <4>2, Zenon
    <3>3. CASE ProviderRejects
      <4>1. PICK text \in Rejectable, c \in Costs :
               response' = [model |-> Current, cost |-> c, text |-> text, rejected |-> TRUE]
        BY <3>3 DEF ProviderRejects
      <4>2. c \in Nat /\ TRUE \in BOOLEAN /\ text \in Texts
        BY AdaptiveAssumption DEF Rejectable, Texts
      <4> QED
        BY <3>1, <4>1, <4>2, Zenon
    <3>4. CASE ProviderFails \/ ProviderTimeout
      BY <1>0, <3>4 DEF ProviderFails, ProviderTimeout, TypeOK
    <3> QED
      BY <1>5, <3>2, <3>3, <3>4
  <2>4. PICK w \in {"success", "rejected", "error"}, c \in Nat :
                metered' = Append(metered, Metric(w, c))
    BY <1>5, AdaptiveAssumption
       DEF ProviderReturns, ProviderRejects, ProviderFails, ProviderTimeout, RejectedMetric
  <2>5. metered' \in Seq([model : Models, cost : Nat,
                  outcome : {"success", "rejected", "error", "cancelled"}])
    <3>1. pc \notin {"start", "done"}
      BY <1>5 DEF ProviderReturns, ProviderRejects, ProviderFails, ProviderTimeout
    <3> QED
      BY <2>4, <3>1, MetricTyped
  <2> QED
    BY <1>0, <1>5, <2>2, <2>3, <2>5
       DEF ProviderReturns, ProviderRejects, ProviderFails, ProviderTimeout, TypeOK
<1>6. CASE Record \/ Check \/ ReturnValidated
  BY <1>0, <1>6 DEF Record, Check, ReturnValidated, Finish, TypeOK, Awaiting, Outcomes, Errors
<1>7. ASSUME pc \notin {"start", "done"}
      PROVE  Append(rows, InferenceRow) \in Seq([model : Models, success : BOOLEAN, cost : Nat])
  <2>1. Current \in Models
    BY <1>7, CurrentIsModel
  <2>2. InferenceRow \in [model : Models, success : BOOLEAN, cost : Nat]
    BY <1>0, <2>1 DEF InferenceRow, TypeOK
  <2> QED
    BY <1>0, <2>2 DEF TypeOK
<1>8. CASE WriteSucceeds \/ WriteFails
  BY <1>0, <1>7, <1>8 DEF WriteSucceeds, WriteFails, TypeOK
<1>9. CASE ReturnExplicit \/ ReturnLegacy
  <2>1. outcome' \in Outcomes
    <3>1. outcome' = IF exc = "none" THEN "returned" ELSE PublicError(exc)
      BY <1>9 DEF ReturnExplicit, ReturnLegacy, Finish
    <3> QED
      BY <1>0, <3>1, PublicErrors DEF TypeOK, Outcomes
  <2> QED
    BY <1>0, <1>9, <2>1 DEF ReturnExplicit, ReturnLegacy, Finish, TypeOK
<1>10. CASE Validate
  <2>1. Current \in Models
    BY <1>10, CurrentIsModel DEF Validate
  <2>2. Status(response.text) \in {"passed", "failed", "error"}
    BY <1>0, StatusFacts DEF TypeOK
  <2>3. attempts' \in Seq([model : Models, cost : Nat, status : {"passed", "failed", "error"}])
    <3> DEFINE e == [model |-> Current, cost |-> response.cost,
                     status |-> Status(response.text)]
               T == [model : Models, cost : Nat, status : {"passed", "failed", "error"}]
    <3>1. e \in T
      BY <1>0, <2>1, <2>2 DEF TypeOK
    <3>2. attempts' = attempts \/ attempts' = Append(attempts, e)
      BY <1>10 DEF Validate
    <3>3. attempts \in Seq(T)
      BY <1>0 DEF TypeOK
    <3> HIDE DEF e, T
    <3>4. attempts' \in Seq(T)
      BY <3>1, <3>2, <3>3
    <3> QED
      BY <3>4 DEF T
  <2>4. number' \in Nat \ {0} /\ outcome' \in Outcomes /\ pc' \in {"done", "loop", "record_summary"}
    BY <1>0, <1>10 DEF Validate, Finish, TypeOK, Outcomes, Errors
  <2> QED
    BY <1>0, <1>10, <2>3, <2>4 DEF Validate, TypeOK
<1>11. ASSUME Conclude PROVE outcome' \in Outcomes /\ pc' = "done"
  BY <1>0, <1>11, PublicErrors DEF Conclude, Finish, Terminal, TypeOK, Outcomes
<1>12. CASE RecordSummary \/ WriteSummary \/ WriteSummaryFails
  <2>1. outcome' \in Outcomes /\ pc' \in {"done", "writing_summary"}
    BY <1>0, <1>11, <1>12 DEF RecordSummary, WriteSummary, WriteSummaryFails, TypeOK
  <2> QED
    BY <1>0, <1>12, <2>1 DEF RecordSummary, WriteSummary, WriteSummaryFails, TypeOK, Awaiting
<1>13. CASE Cancel
  <2>1. pc \notin {"start", "done"}
    BY <1>13 DEF Cancel, Awaiting
  <2>2. rows' \in Seq([model : Models, success : BOOLEAN, cost : Nat])
    BY <1>0, <1>7, <1>13, <2>1 DEF Cancel, TypeOK
  <2>3. metered' \in Seq([model : Models, cost : Nat,
                  outcome : {"success", "rejected", "error", "cancelled"}])
    <3>1. metered' \in {metered, Append(metered, Metric("cancelled", 0))}
      BY <1>13 DEF Cancel, CancelMetered
    <3> QED
      BY <1>0, <2>1, <3>1, MetricTyped DEF TypeOK
  <2> QED
    BY <1>0, <1>13, <2>2, <2>3 DEF Cancel, Finish, TypeOK, Outcomes
<1>14. CASE Expire
  BY <1>0, <1>14 DEF Expire, TypeOK
<1>15. CASE Done \/ UNCHANGED vars
  BY <1>0, <1>15 DEF Done, vars, TypeOK
<1> QED
  BY <1>1, <1>2, <1>3, <1>4, <1>5, <1>6, <1>8, <1>9, <1>10, <1>12, <1>13, <1>14, <1>15
     DEF Next, Step

-----------------------------------------------------------------------------
(***************************************************************************)
(* The invariant.                                                          *)
(***************************************************************************)
\* The lists of a request as sequences, and the constants of its number.
LEMMA Lists ==
    ASSUME Inv
    PROVE  /\ number \in Nat \ {0}
           /\ calls \in Seq(Models) /\ Len(calls) \in Nat
           /\ Len(metered) \in Nat /\ DOMAIN metered = 1 .. Len(metered)
           /\ \A i \in 1 .. Len(metered) : metered[i].cost \in Nat
           /\ Len(attempts) \in Nat /\ DOMAIN attempts = 1 .. Len(attempts)
           /\ Len(rows) \in Nat /\ DOMAIN rows = 1 .. Len(rows)
           /\ Len(calls) \in {number - 1, number} /\ Len(metered) \in {number - 1, number}
           /\ Len(attempts) \in {number - 1, number}
<1>1. TypeOK /\ Followed
  BY DEF Inv
<1>2. Len(calls) \in {number - 1, number} /\ Len(metered) \in {number - 1, number}
      /\ Len(attempts) \in {number - 1, number}
  BY <1>1 DEF Followed
<1>3. number \in Nat \ {0} /\ calls \in Seq(Models) /\ Len(calls) \in Nat
  BY <1>1 DEF TypeOK
<1>4. /\ Len(metered) \in Nat /\ DOMAIN metered = 1 .. Len(metered)
      /\ \A i \in 1 .. Len(metered) : metered[i].cost \in Nat
  <2> DEFINE T == [model : Models, cost : Nat,
                   outcome : {"success", "rejected", "error", "cancelled"}]
  <2>1. metered \in Seq(T)
    BY <1>1 DEF TypeOK
  <2>2. \A e \in T : e.cost \in Nat
    OBVIOUS
  <2> HIDE DEF T
  <2>3. /\ Len(metered) \in Nat /\ DOMAIN metered = 1 .. Len(metered)
        /\ \A i \in 1 .. Len(metered) : metered[i] \in T
    BY <2>1
  <2> QED
    BY <2>2, <2>3
<1>5. Len(attempts) \in Nat /\ DOMAIN attempts = 1 .. Len(attempts)
  BY <1>1 DEF TypeOK
<1>6. Len(rows) \in Nat /\ DOMAIN rows = 1 .. Len(rows)
  BY <1>1 DEF TypeOK
<1> QED
  BY <1>2, <1>3, <1>4, <1>5, <1>6

\* Until the attempt under way is appended, no attempt has passed.
LEMMA NonePassed ==
    ASSUME Inv, Len(attempts) = number - 1
    PROVE  ~Passed
<1>1. ASSUME attempts # <<>> PROVE Last(attempts).status = "failed"
  <2> DEFINE T == [model : Models, cost : Nat, status : {"passed", "failed", "error"}]
  <2>0. attempts \in Seq(T)
    BY DEF Inv, TypeOK
  <2> HIDE DEF T
  <2>1. Len(attempts) \in 1 .. Len(attempts) /\ Len(attempts) < number
    <3>1. Len(attempts) # 0
      BY <1>1, <2>0
    <3> QED
      BY <3>1, Lists
  <2>2. attempts[Len(attempts)].status = "failed"
    BY <2>1 DEF Inv, Followed
  <2> QED
    BY <2>2 DEF Last
<1> QED
  BY <1>1 DEF Passed

\* A step that touches neither plan nor lists leaves what is said of them.
LEMMA QuietStep ==
    ASSUME Inv, UNCHANGED <<mode, question, plan, number, calls, metered, attempts>>
    PROVE  /\ Given' /\ Followed' /\ (plan # <<>> => Ordered(plan)')
           /\ UNCHANGED rows => RowsAgreeWithMetrics'
           /\ (pc # "done" => plan # <<>> \/ pc = "start")
<1>1. Given' /\ Followed'
  BY DEF Inv, Given, Followed
<1>2. plan # <<>> => Ordered(plan)'
  BY DEF Inv, Settled, Ordered, Decided, Meets
<1>3. UNCHANGED rows => RowsAgreeWithMetrics'
  BY DEF Inv, RowsAgreeWithMetrics
<1> QED
  BY <1>1, <1>2, <1>3 DEF Inv, Settled

\* What a request leaves when it ends without an answer and without a record of
\* its own.
LEMMA EndsQuietly ==
    ASSUME Inv, pc # "done", pc' = "done", outcome' \notin {"pending", "returned"},
           UNCHANGED <<mode, number, calls, metered, attempts, terminal, summaries>>,
           Len(calls) <= Len(metered),
           Len(calls) < Len(metered) =>
               metered[number].outcome = "error" /\ outcome' \in {"deadline", "cancelled"},
           outcome' # "cancelled" =>
               /\ mode = "validated" => ~Passed
               /\ mode # "validated" /\ metered # <<>> => Last(metered).outcome # "success"
    PROVE  Ended'
<1>1. terminal' = <<>> /\ summaries' = <<>>
  BY DEF Inv, Ended
<1>2. ReturnedIsFirstPass'
  BY DEF ReturnedIsFirstPass
<1>3. CompleteCostIsTotal' /\ ClassificationAgrees'
  <2>1. DOMAIN summaries' = {} /\ Len(terminal') = 0 /\ Len(summaries') = 0
    BY <1>1
  <2> QED
    BY <1>1, <2>1 DEF CompleteCostIsTotal, ClassificationAgrees
<1>4. TelemetryFailsOpen'
  BY DEF TelemetryFailsOpen, Passed
<1>5. /\ outcome' # "pending"
      /\ outcome' = "returned" => Len(calls') = number'
      /\ Len(calls') <= Len(metered')
      /\ Len(calls') < Len(metered') =>
            metered'[number'].outcome = "error" /\ outcome' \in {"deadline", "cancelled"}
  OBVIOUS
<1> QED
  BY <1>2, <1>3, <1>4, <1>5 DEF Ended

\* generate() of the adaptive service, up to the plan.
LEMMA BeginInv ==
    ASSUME Inv, Begin
    PROVE  Given' /\ Settled' /\ Followed' /\ InHand' /\ RowsAgreeWithMetrics' /\ Ended'
<1> USE DEF inputs, records
<1>0. /\ UNCHANGED <<mode, question, number, calls, response, attempts, exc, metered, rows,
                     terminal, summaries>>
      /\ pc = "start" /\ plan = <<>> /\ mode # "explicit" /\ number = 1
      /\ calls = <<>> /\ metered = <<>> /\ Len(attempts) = 0 /\ exc = "none"
  BY DEF Begin, Inv, Settled, InHand
<1>1. Len(calls) = 0 /\ Len(metered) = 0
  BY <1>0
<1>2. CASE pc' = "done"
  <2>1. plan' = plan
    BY <1>2 DEF Begin
  <2>2. outcome' \in Errors \cup {"routing_error"}
    <3>1. ASSUME NEW i \in DOMAIN question.list,
                 question.registry[question.list[i]] # "enabled",
                 outcome' = RegistryError(question.registry[question.list[i]])
          PROVE  outcome' \in Errors
      <4>1. question.list[i] \in Models /\ question.registry \in [Models ->
                        {"enabled", "disabled", "unknown", "unsupported"}]
        BY AdaptiveAssumption DEF Inv, Given
      <4> QED
        BY <3>1, <4>1 DEF RegistryError, Errors, ProviderErrors
    <3> QED
      BY <1>2, <3>1 DEF Begin, Finish, Errors
  <2>3. outcome' \notin {"pending", "returned", "cancelled"}
    BY <2>2 DEF Errors, ProviderErrors
  <2>4. ~Passed
    BY <1>0, NonePassed
  <2>5. Ended'
    BY <1>0, <1>1, <1>2, <2>3, <2>4, EndsQuietly
  <2>6. Given' /\ Followed' /\ RowsAgreeWithMetrics'
    BY <1>0, <2>1, QuietStep
  <2>7. Settled' /\ InHand'
    BY <1>0, <1>2, <2>1 DEF Settled, InHand
  <2> QED
    BY <2>5, <2>6, <2>7
<1>3. CASE pc' # "done"
  <2>1. /\ mode = "legacy" => plan' = <<Decided.selected>> /\ pc' = "enter"
        /\ mode # "legacy" => /\ plan' = AttemptOrder(Decided, question.cost, MaxAttempts)
                              /\ pc' = "loop"
        /\ outcome' = outcome
    BY <1>3 DEF Begin, Finish
  <2>2. mode \in {"legacy", "validated"}
    BY <1>0, AdaptiveAssumption DEF Inv, Given
  <2>3. Ordered(plan')
    BY <2>1, <2>2, PlanIsOrdered DEF Inv
  <2>4. Ordered(plan)' /\ Len(plan') \in Nat \ {0}
    BY <1>0, <2>3 DEF Ordered, Decided, Meets
  <2>5. plan' # <<>> /\ number' \in 1 .. Len(plan')
    BY <1>0, <2>4
  <2>6. Settled'
    BY <1>0, <2>1, <2>2, <2>4, <2>5 DEF Settled
  <2>7. Given' /\ RowsAgreeWithMetrics'
    BY <1>0 DEF Inv, Given, RowsAgreeWithMetrics
  <2>8. Followed'
    BY <1>0, <1>1 DEF Inv, Followed
  <2>9. InHand'
    BY <1>0, <1>1, <2>1, <2>2 DEF InHand
  <2>10. Ended'
    BY <1>0, <1>3, <2>1 DEF Inv, Ended
  <2> QED
    BY <2>6, <2>7, <2>8, <2>9, <2>10
<1> QED
  BY <1>2, <1>3

\* The parts of the invariant beside the types.
Rest == Given /\ Settled /\ Followed /\ InHand /\ RowsAgreeWithMetrics /\ Ended

\* The loop head, the entry of the inference service, and the check before
\* validation: reads of the clock and of the registry.
LEMMA ClockReads ==
    ASSUME Inv, TypeOK', LoopHead \/ Enter \/ Record \/ Check \/ ReturnValidated
    PROVE  Rest'
<1> USE DEF inputs, records, work
<1>0. UNCHANGED <<mode, question, plan, number, calls, response, attempts, metered, rows,
                  terminal, summaries>>
  BY DEF LoopHead, Enter, Record, Check, ReturnValidated
<1>1. Given' /\ Followed' /\ RowsAgreeWithMetrics'
  BY <1>0, QuietStep
<1>2. pc \notin {"start", "done"} /\ plan # <<>>
  BY DEF LoopHead, Enter, Record, Check, ReturnValidated, Inv, Settled
<1>3. Settled'
  <2>1. Ordered(plan)'
    BY <1>0, <1>2, QuietStep
  <2>2. pc' # "start"
    BY DEF LoopHead, Enter, Record, Check, ReturnValidated, Finish
  <2>3. pc' \in {"loop", "check", "validate", "record_summary", "writing_summary"} =>
           mode = "validated"
    BY DEF LoopHead, Enter, Record, Check, ReturnValidated, Finish, Inv, Settled
  <2> QED
    BY <1>0, <1>2, <2>1, <2>2, <2>3 DEF Inv, Settled
<1>4. InHand'
  <2>0. InHand
    BY DEF Inv
  <2>1. CASE LoopHead
    BY <1>0, <2>0, <2>1 DEF LoopHead, Finish, InHand
  <2>2. CASE Enter
    <3>0. /\ Len(calls) = number - 1 /\ Len(metered) = number - 1
          /\ Len(attempts) = number - 1 /\ number \in Nat
      BY <2>0, <2>2, Lists DEF Enter, InHand
    <3>1. CASE pc' = "ready"
      BY <1>0, <2>2, <3>0, <3>1 DEF Enter, InHand
    <3>2. CASE pc' # "ready"
      <4>1. pc' \in {"caught", "record"} /\ exc' \notin {"none", "rejected"}
        BY <2>2, <3>2 DEF Enter, RegistryError
      <4>2. Failed'
        BY <1>0, <3>0 DEF Failed
      <4> QED
        BY <1>0, <3>0, <4>1, <4>2 DEF InHand
    <3> QED
      BY <3>1, <3>2
  <2>3. CASE Record
    <3>1. pc' \in {"writing", "caught"} /\ exc' = exc /\ pc = "record"
      BY <2>3 DEF Record
    <3>2. (Answered' <=> Answered) /\ (Failed' <=> Failed)
      BY <1>0, <3>1 DEF Answered, Failed
    <3> QED
      BY <1>0, <2>0, <3>1, <3>2 DEF InHand
  <2>4. CASE Check
    <3>1. pc' \in {"validate", "done"} /\ exc' = exc /\ pc = "check"
      BY <2>4 DEF Check, Finish
    <3>2. Answered' <=> Answered
      BY <1>0, <3>1 DEF Answered
    <3> QED
      BY <1>0, <2>0, <3>1, <3>2 DEF InHand
  <2>5. CASE ReturnValidated
    <3>1. pc = "caught"
      BY <2>5 DEF ReturnValidated
    <3>2. Answered' <=> Answered
      BY <1>0 DEF Answered
    <3>3. CASE exc \in {"none", "rejected"}
      <4>1. exc' = "none" /\ pc' = "check"
        BY <2>5, <3>3 DEF ReturnValidated
      <4> QED
        BY <1>0, <2>0, <3>1, <3>2, <3>3, <4>1 DEF InHand
    <3>4. CASE exc \notin {"none", "rejected"}
      <4>1. exc' = exc /\ pc' = "record_summary"
        BY <2>5, <3>4 DEF ReturnValidated
      <4>2. Failed' <=> Failed
        BY <1>0, <4>1 DEF Failed
      <4> QED
        BY <1>0, <2>0, <3>1, <3>4, <4>1, <4>2 DEF InHand
    <3> QED
      BY <3>3, <3>4
  <2> QED
    BY <2>1, <2>2, <2>3, <2>4, <2>5
<1>5. Ended'
  <2>1. CASE pc' # "done"
    <3>1. outcome' = outcome
      BY <2>1 DEF LoopHead, Enter, Record, Check, ReturnValidated, Finish
    <3> QED
      BY <1>0, <1>2, <2>1, <3>1 DEF Inv, Ended
  <2>2. CASE pc' = "done"
    <3>1. (LoopHead \/ Check) /\ outcome' = "deadline"
      BY <2>2 DEF LoopHead, Enter, Record, Check, ReturnValidated, Finish
    <3>2. mode = "validated" /\ Len(attempts) = number - 1 /\ Len(calls) = Len(metered)
      BY <3>1 DEF LoopHead, Check, Inv, Settled, InHand, Answered
    <3>3. ~Passed /\ Len(calls) \in Nat
      BY <3>2, NonePassed, Lists
    <3> QED
      BY <1>0, <1>2, <2>2, <3>1, <3>2, <3>3, EndsQuietly
  <2> QED
    BY <2>1, <2>2
<1> QED
  BY <1>1, <1>3, <1>4, <1>5 DEF Rest

\* The deadline passes, or nothing does.
LEMMA TimePasses ==
    ASSUME Inv, Expire \/ Done \/ UNCHANGED vars
    PROVE  Rest'
<1> USE DEF inputs, records, work
<1>0. UNCHANGED <<mode, question, pc, plan, number, calls, response, exc, attempts, metered, rows,
                  terminal, summaries, outcome>>
  BY DEF Expire, Done, vars
<1>1. Given' /\ Followed' /\ RowsAgreeWithMetrics' /\ (plan # <<>> => Ordered(plan)')
  BY <1>0, QuietStep
<1>2. Settled'
  BY <1>0, <1>1 DEF Inv, Settled
<1>3. InHand'
  <2>1. (Answered' <=> Answered) /\ (Failed' <=> Failed)
    BY <1>0 DEF Answered, Failed
  <2> QED
    BY <1>0, <2>1 DEF Inv, InHand
<1>4. Ended'
  <2>1. ReturnedIsFirstPass' <=> ReturnedIsFirstPass
    BY <1>0 DEF ReturnedIsFirstPass, Passed
  <2>2. CompleteCostIsTotal' <=> CompleteCostIsTotal
    BY <1>0 DEF CompleteCostIsTotal, Spent
  <2>3. (ClassificationAgrees' <=> ClassificationAgrees)
    BY <1>0 DEF ClassificationAgrees
  <2>4. TelemetryFailsOpen' <=> TelemetryFailsOpen
    BY <1>0 DEF TelemetryFailsOpen, Passed
  <2> QED
    BY <1>0, <2>1, <2>2, <2>3, <2>4 DEF Inv, Ended
<1> QED
  BY <1>1, <1>2, <1>3, <1>4 DEF Rest

\* _generate() and the end of the provider call: one metric more.
LEMMA MetricAdded ==
    ASSUME Inv, pc \in {"ready", "calling"}, NEW w, NEW c,
           metered' = Append(metered, Metric(w, c)),
           UNCHANGED <<mode, question, plan, number, attempts, rows>>
    PROVE  /\ Len(metered') = number /\ metered'[number] = Metric(w, c)
           /\ \A i \in 1 .. Len(metered) : metered'[i] = metered[i]
           /\ UNCHANGED calls => Followed'
           /\ RowsAgreeWithMetrics'
<1> DEFINE T == [model : Models, cost : Nat,
                 outcome : {"success", "rejected", "error", "cancelled"}]
<1>1. Len(metered) = number - 1 /\ Len(attempts) = number - 1
  BY DEF Inv, InHand
<1>2. metered \in Seq(T)
  BY DEF Inv, TypeOK
<1> HIDE DEF T
<1>3. /\ Len(metered') = number /\ metered'[number] = Metric(w, c)
      /\ \A i \in 1 .. Len(metered) : metered'[i] = metered[i]
      /\ DOMAIN metered' = 1 .. number
  <2>1. number \in Nat
    BY Lists
  <2>2. metered \in Seq(T \cup {Metric(w, c)})
    BY <1>2
  <2> QED
    BY <1>1, <2>1, <2>2
<1>4. ASSUME UNCHANGED calls PROVE Followed'
  <2>0. Followed
    BY DEF Inv
  <2>1. \A i \in 1 .. Len(metered') : metered'[i].model = plan[i]
    <3>1. Metric(w, c).model = plan[number]
      BY DEF Metric, Current
    <3> QED
      BY <1>1, <1>3, <2>0, <3>1, Lists DEF Followed
  <2>2. \A i \in 1 .. Len(attempts) : attempts[i].cost = metered'[i].cost
    BY <1>1, <1>3, <2>0 DEF Followed
  <2>3. /\ {Len(calls'), Len(metered'), Len(attempts')} \subseteq {number' - 1, number'}
        /\ Len(attempts') <= Len(metered')
    BY <1>1, <1>3, <1>4, <2>0, Lists DEF Followed
  <2> QED
    BY <1>4, <2>0, <2>1, <2>2, <2>3 DEF Followed
<1>5. RowsAgreeWithMetrics'
  <2>1. \A j \in DOMAIN metered : j \in DOMAIN metered' /\ metered'[j] = metered[j]
    BY <1>1, <1>3, Lists
  <2>2. RowsAgreeWithMetrics
    BY DEF Inv
  <2> QED
    BY <2>1, <2>2 DEF RowsAgreeWithMetrics
<1> QED
  BY <1>3, <1>4, <1>5

\* The clock is read once more and the adapter called.
LEMMA CallInv ==
    ASSUME Inv, TypeOK', Call
    PROVE  Rest'
<1> USE DEF inputs
<1>0. /\ pc = "ready" /\ UNCHANGED <<mode, question, plan, number, response, attempts, rows,
                                     terminal, summaries, outcome>>
      /\ pc' \in {"record", "calling"}
  BY DEF Call
<1>1. /\ Len(calls) = number - 1 /\ Len(metered) = number - 1 /\ Len(attempts) = number - 1
      /\ exc = "none" /\ number \in Nat \ {0} /\ plan # <<>>
  BY <1>0, Lists DEF Inv, InHand, Settled
<1>2. Given' /\ Ended'
  BY <1>0 DEF Inv, Given, Ended
<1>3. Settled'
  <2>1. Ordered(plan)'
    BY <1>0, <1>1 DEF Inv, Settled, Ordered, Decided, Meets
  <2> QED
    BY <1>0, <1>1, <2>1 DEF Inv, Settled
<1>4. CASE expired
  <2>1. /\ exc' = "deadline" /\ pc' = "record" /\ calls' = calls
        /\ metered' = Append(metered, Metric("error", 0))
    BY <1>4 DEF Call
  <2>2. /\ Len(metered') = number /\ metered'[number] = Metric("error", 0)
        /\ Followed' /\ RowsAgreeWithMetrics'
    BY <1>0, <2>1, MetricAdded
  <2>3. Failed'
    BY <1>0, <1>1, <2>1, <2>2 DEF Failed, Metric
  <2>4. InHand'
    BY <1>0, <1>1, <2>1, <2>3 DEF InHand
  <2> QED
    BY <1>2, <1>3, <2>2, <2>4 DEF Rest
<1>5. CASE ~expired
  <2>1. calls' = Append(calls, Current) /\ pc' = "calling" /\ exc' = exc /\ metered' = metered
    BY <1>5 DEF Call
  <2>2. Current \in Models /\ calls \in Seq(Models)
    BY <1>0, CurrentIsModel, Lists
  <2>3. /\ Len(calls') = number /\ calls'[number] = plan[number]
        /\ \A i \in 1 .. Len(calls) : calls'[i] = calls[i]
    BY <1>1, <2>1, <2>2 DEF Current
  <2>4. \A i \in 1 .. Len(calls') : calls'[i] = plan[i]
    BY <1>1, <2>3 DEF Inv, Followed
  <2>5. {Len(calls'), Len(metered'), Len(attempts')} \subseteq {number' - 1, number'}
    BY <1>0, <1>1, <2>1, <2>3
  <2>6. Followed'
    BY <1>0, <2>1, <2>4, <2>5 DEF Inv, Followed
  <2>7. InHand'
    BY <1>0, <1>1, <2>1, <2>3 DEF InHand
  <2>8. RowsAgreeWithMetrics'
    BY <1>0, <2>1 DEF Inv, RowsAgreeWithMetrics
  <2> QED
    BY <1>2, <1>3, <2>6, <2>7, <2>8 DEF Rest
<1> QED
  BY <1>4, <1>5

\* The provider call ends.
LEMMA ProviderInv ==
    ASSUME Inv, TypeOK',
           ProviderReturns \/ ProviderRejects \/ ProviderFails \/ ProviderTimeout
    PROVE  Rest'
<1> USE DEF inputs, work
<1>0. /\ pc = "calling" /\ pc' = "record"
      /\ UNCHANGED <<mode, question, plan, number, calls, attempts, rows, terminal, summaries,
                     outcome>>
  BY DEF ProviderReturns, ProviderRejects, ProviderFails, ProviderTimeout
<1>1. /\ Len(calls) = number /\ Len(metered) = number - 1 /\ Len(attempts) = number - 1
      /\ exc = "none" /\ number \in Nat \ {0} /\ plan # <<>>
  BY <1>0, Lists DEF Inv, InHand, Settled
<1>2. Given' /\ Ended'
  BY <1>0 DEF Inv, Given, Ended
<1>3. Settled'
  <2>1. Ordered(plan)'
    BY <1>0, <1>1 DEF Inv, Settled, Ordered, Decided, Meets
  <2> QED
    BY <1>0, <1>1, <2>1 DEF Inv, Settled
<1>4. Followed' /\ RowsAgreeWithMetrics'
  <2>1. PICK w, c : metered' = Append(metered, Metric(w, c))
    BY DEF ProviderReturns, ProviderRejects, ProviderFails, ProviderTimeout, RejectedMetric
  <2> QED
    BY <1>0, <2>1, MetricAdded
<1>5. CASE ProviderReturns \/ ProviderRejects
  <2>1. Answered' /\ exc' \in {"none", "rejected"} /\ (exc' = "rejected" <=> response'.rejected)
    <3>1. CASE ProviderReturns
      <4>1. PICK text \in Texts, c \in Costs :
               /\ response' = [model |-> Current, cost |-> c, text |-> text, rejected |-> FALSE]
               /\ metered' = Append(metered, Metric("success", c))
        BY <3>1 DEF ProviderReturns
      <4>2. exc' = "none"
        BY <1>1, <3>1 DEF ProviderReturns
      <4>3. Len(metered') = number /\ metered'[number] = Metric("success", c)
        BY <1>0, <4>1, MetricAdded
      <4>4. response'.rejected = FALSE /\ response'.cost = c /\ response'.model = plan[number]
        BY <4>1 DEF Current
      <4>5. metered'[number].outcome = "success" /\ metered'[number].cost = c
        BY <4>3 DEF Metric
      <4> QED
        BY <1>0, <1>1, <4>2, <4>3, <4>4, <4>5 DEF Answered
    <3>2. CASE ProviderRejects
      <4>1. PICK text \in Rejectable, c \in Costs :
               /\ response' = [model |-> Current, cost |-> c, text |-> text, rejected |-> TRUE]
               /\ metered' = Append(metered, Metric("rejected", c))
        BY <3>2 DEF ProviderRejects, RejectedMetric
      <4>2. exc' = "rejected"
        BY <3>2 DEF ProviderRejects
      <4>3. Len(metered') = number /\ metered'[number] = Metric("rejected", c)
        BY <1>0, <4>1, MetricAdded
      <4>4. /\ response'.rejected = TRUE /\ response'.cost = c /\ response'.model = plan[number]
            /\ response'.text \in Rejectable
        BY <4>1 DEF Current
      <4>5. metered'[number].outcome = "rejected" /\ metered'[number].cost = c
        BY <4>3 DEF Metric
      <4> QED
        BY <1>0, <1>1, <4>2, <4>3, <4>4, <4>5 DEF Answered
    <3> QED
      BY <1>5, <3>1, <3>2
  <2>2. InHand'
    BY <1>0, <1>1, <2>1 DEF InHand
  <2> QED
    BY <1>2, <1>3, <1>4, <2>2 DEF Rest
<1>6. CASE ProviderFails \/ ProviderTimeout
  <2>1. exc' \notin {"none", "rejected"} /\ metered' = Append(metered, Metric("error", 0))
    BY <1>6 DEF ProviderFails, ProviderTimeout, ProviderErrors
  <2>2. Len(metered') = number /\ metered'[number] = Metric("error", 0)
    BY <1>0, <2>1, MetricAdded
  <2>3. Failed'
    BY <1>0, <1>1, <2>2 DEF Failed, Metric
  <2>4. InHand'
    BY <1>0, <1>1, <2>1, <2>3 DEF InHand
  <2> QED
    BY <1>2, <1>3, <1>4, <2>4 DEF Rest
<1> QED
  BY <1>5, <1>6

\* _record(): the row tells what the metric of the attempt tells.
LEMMA RowAdded ==
    ASSUME Inv, pc = "writing", rows' \in {rows, Append(rows, InferenceRow)}, UNCHANGED metered
    PROVE  RowsAgreeWithMetrics'
<1>0. RowsAgreeWithMetrics
  BY DEF Inv
<1>1. CASE rows' = rows
  BY <1>0, <1>1 DEF RowsAgreeWithMetrics
<1>2. CASE rows' = Append(rows, InferenceRow)
  <2> DEFINE T == [model : Models, success : BOOLEAN, cost : Nat]
             r == InferenceRow
             n == Len(rows) + 1
  <2>1. rows \in Seq(T)
    BY DEF Inv, TypeOK
  <2> HIDE DEF T
  <2>2. /\ DOMAIN rows' = 1 .. n /\ rows'[n] = r
        /\ \A i \in DOMAIN rows : rows'[i] = rows[i]
        /\ DOMAIN rows = 1 .. Len(rows) /\ Len(rows) \in Nat
    <3>1. rows \in Seq(T \cup {r})
      BY <2>1
    <3> QED
      BY <1>2, <3>1
  <2>3. \A i \in DOMAIN rows' : i \in DOMAIN rows \/ i = n
    BY <2>2
  <2>4. ASSUME exc \in {"none", "rejected"}
        PROVE  /\ number \in DOMAIN metered /\ metered[number].model = r.model
               /\ metered[number].cost = r.cost
               /\ exc = "none" => metered[number].outcome = "success"
    <3>1. Answered /\ (exc = "rejected" <=> response.rejected)
      BY <2>4 DEF Inv, InHand
    <3>2. number \in DOMAIN metered
      BY <3>1, Lists DEF Answered
    <3>3. metered[number].model = plan[number]
      BY <3>2, Lists DEF Inv, Followed
    <3> QED
      BY <2>4, <3>1, <3>2, <3>3 DEF InferenceRow, Answered, Current
  <2>5. (r.success => exc = "none") /\ (exc \notin {"none", "rejected"} => r.cost = 0)
    BY DEF InferenceRow
  <2> HIDE DEF r
  <2>6. ASSUME NEW i \in DOMAIN rows'
        PROVE  /\ rows'[i].success =>
                    \E j \in DOMAIN metered : /\ metered[j].model = rows'[i].model
                                              /\ metered[j].outcome = "success"
                                              /\ metered[j].cost = rows'[i].cost
               /\ rows'[i].cost > 0 =>
                    \E j \in DOMAIN metered : /\ metered[j].model = rows'[i].model
                                              /\ metered[j].cost = rows'[i].cost
    <3>1. CASE i \in DOMAIN rows
      BY <1>0, <2>2, <3>1 DEF RowsAgreeWithMetrics
    <3>2. CASE i = n
      <4>1. rows'[i] = r
        BY <2>2, <3>2
      <4>2. CASE exc \in {"none", "rejected"}
        BY <2>4, <2>5, <4>1, <4>2
      <4>3. CASE exc \notin {"none", "rejected"}
        <5>1. ~rows'[i].success
          BY <2>5, <4>1, <4>3
        <5>2. ~(rows'[i].cost > 0)
          BY <2>5, <4>1, <4>3
        <5> QED
          BY <5>1, <5>2, Zenon
      <4> QED
        BY <4>2, <4>3
    <3> QED
      BY <2>3, <3>1, <3>2
  <2> QED
    BY <2>6 DEF RowsAgreeWithMetrics
<1> QED
  BY <1>1, <1>2

\* A telemetry write ends, committed or not.
LEMMA WriteInv ==
    ASSUME Inv, TypeOK', WriteSucceeds \/ WriteFails
    PROVE  Rest'
<1> USE DEF inputs, work
<1>0. /\ pc = "writing" /\ pc' = "caught" /\ rows' \in {rows, Append(rows, InferenceRow)}
      /\ UNCHANGED <<mode, question, plan, number, calls, response, exc, attempts, metered,
                     terminal, summaries, outcome>>
  BY DEF WriteSucceeds, WriteFails
<1>1. plan # <<>>
  BY <1>0 DEF Inv, Settled
<1>2. Given' /\ Followed' /\ Ordered(plan)'
  BY <1>0, <1>1, QuietStep
<1>3. Settled'
  BY <1>0, <1>1, <1>2 DEF Inv, Settled
<1>4. InHand'
  <2>1. (Answered' <=> Answered) /\ (Failed' <=> Failed)
    BY <1>0 DEF Answered, Failed
  <2> QED
    BY <1>0, <2>1 DEF Inv, InHand
<1>5. RowsAgreeWithMetrics'
  BY <1>0, RowAdded
<1>6. Ended'
  BY <1>0 DEF Inv, Ended
<1> QED
  BY <1>2, <1>3, <1>4, <1>5, <1>6 DEF Rest

\* The completion in hand is that of the last model called, counted last.
LEMMA AnswerIsLast ==
    ASSUME Inv, Answered
    PROVE  /\ response.model = Last(calls) /\ Last(metered) = metered[number]
           /\ metered # <<>> /\ Len(calls) = Len(metered) /\ Len(calls) = number
<1>1. Len(calls) = number /\ Len(metered) = number /\ response.model = plan[number]
  BY DEF Answered
<1>2. number \in Nat \ {0} /\ calls[number] = plan[number]
  BY <1>1, Lists DEF Inv, Followed
<1>3. metered # <<>>
  BY <1>1, <1>2
<1> QED
  BY <1>1, <1>2, <1>3 DEF Last

\* A failed attempt without validation is the only one, and is counted, if at
\* all, as an error.
LEMMA LoneFailure ==
    ASSUME Inv, Failed, mode # "validated"
    PROVE  /\ Len(calls) <= Len(metered)
           /\ Len(calls) < Len(metered) => metered[number].outcome = "error" /\ exc = "deadline"
           /\ metered # <<>> => Last(metered).outcome = "error"
<1>1. number = 1 /\ Len(metered) \in {0, 1} /\ Len(calls) \in {0, 1}
  BY Lists DEF Inv, Followed
<1>2. ASSUME metered # <<>> PROVE Len(metered) = 1
  <2> DEFINE T == [model : Models, cost : Nat,
                   outcome : {"success", "rejected", "error", "cancelled"}]
  <2>1. metered \in Seq(T)
    BY DEF Inv, TypeOK
  <2> HIDE DEF T
  <2>2. Len(metered) # 0
    BY <1>2, <2>1
  <2> QED
    BY <1>1, <2>2
<1>3. metered # <<>> => Last(metered).outcome = "error"
  BY <1>1, <1>2 DEF Failed, Last
<1>4. Len(calls) < Len(metered) => Len(metered) = number
  BY <1>1
<1> QED
  BY <1>3, <1>4 DEF Failed

\* The explicit and the legacy request return.
LEMMA ReturnInv ==
    ASSUME Inv, TypeOK', ReturnExplicit \/ ReturnLegacy
    PROVE  Rest'
<1> USE DEF inputs, work, records
<1>0. /\ pc = "caught" /\ mode # "validated" /\ pc' = "done"
      /\ UNCHANGED <<mode, question, plan, number, calls, response, exc, attempts, metered, rows,
                     summaries>>
      /\ outcome' = IF exc = "none" THEN "returned" ELSE PublicError(exc)
  BY DEF ReturnExplicit, ReturnLegacy, Finish
<1>1. plan # <<>>
  BY <1>0 DEF Inv, Settled
<1>2. Given' /\ Followed' /\ Ordered(plan)' /\ RowsAgreeWithMetrics'
  BY <1>0, <1>1, QuietStep
<1>3. Settled'
  BY <1>0, <1>1, <1>2 DEF Inv, Settled
<1>4. InHand'
  BY <1>0 DEF InHand
<1>5. terminal = <<>> /\ summaries = <<>>
  BY <1>0 DEF Inv, Ended
<1>6. exc # "none" => PublicError(exc) \in Errors /\ (PublicError(exc) = "deadline" <=> exc = "deadline")
  BY PublicErrors DEF Inv, TypeOK
<1>7. /\ outcome' # "pending" /\ (outcome' = "returned" <=> exc = "none")
      /\ (outcome' = "deadline" <=> exc = "deadline") /\ outcome' # "validation_failed"
  BY <1>0, <1>6 DEF Errors, ProviderErrors
<1>8. /\ exc = "none" => Answered /\ ~response.rejected /\ Last(metered).outcome = "success"
      /\ exc = "rejected" => Answered /\ Last(metered).outcome = "rejected"
      /\ exc \notin {"none", "rejected"} => Failed
  <2>1. /\ exc \in {"none", "rejected"} => Answered /\ (exc = "rejected" <=> response.rejected)
        /\ exc \notin {"none", "rejected"} => Failed
    BY <1>0 DEF Inv, InHand
  <2> QED
    BY <2>1, AnswerIsLast DEF Answered
<1>9. /\ Len(calls) <= Len(metered)
      /\ Len(calls) < Len(metered) => metered[number].outcome = "error" /\ exc = "deadline"
      /\ metered # <<>> => (exc = "none" <=> Last(metered).outcome = "success")
  <2>1. CASE exc \in {"none", "rejected"}
    <3>1. Len(calls) = Len(metered) /\ Len(calls) \in Nat
      BY <1>8, <2>1, AnswerIsLast, Lists
    <3> QED
      BY <1>8, <2>1, <3>1
  <2>2. CASE exc \notin {"none", "rejected"}
    BY <1>0, <1>8, <2>2, LoneFailure
  <2> QED
    BY <2>1, <2>2
<1>10. ReturnedIsFirstPass'
  BY <1>0, <1>7, <1>8, AnswerIsLast DEF ReturnedIsFirstPass
<1>11. CompleteCostIsTotal'
  <2>1. DOMAIN summaries' = {}
    BY <1>0, <1>5
  <2> QED
    BY <2>1 DEF CompleteCostIsTotal
<1>12. ClassificationAgrees'
  <2>1. Len(summaries') = 0 /\ summaries' = <<>>
    BY <1>0, <1>5
  <2>2. CASE ReturnExplicit
    <3>1. terminal' = <<>> /\ Len(terminal') = 0
      BY <1>5, <2>2 DEF ReturnExplicit
    <3> QED
      BY <2>1, <3>1 DEF ClassificationAgrees
  <2>3. CASE ReturnLegacy
    <3> DEFINE e == [outcome |-> IF exc = "none" THEN "returned" ELSE TerminalOf(exc),
                     attempts |-> 1, recovered |-> FALSE]
    <3>1. terminal' = <<e>>
      BY <1>5, <2>3 DEF ReturnLegacy
    <3>2. /\ e.outcome = "returned" <=> exc = "none"
          /\ e.outcome = "deadline_exceeded" <=> exc = "deadline"
          /\ e.outcome # "validation_failed"
      BY DEF TerminalOf
    <3> HIDE DEF e
    <3>3. Len(terminal') = 1 /\ terminal'[1] = e
      BY <3>1
    <3> QED
      BY <1>7, <2>1, <3>2, <3>3 DEF ClassificationAgrees
  <2> QED
    BY <2>2, <2>3
<1>13. TelemetryFailsOpen'
  BY <1>0, <1>7, <1>9 DEF TelemetryFailsOpen
<1>14. outcome' = "returned" => Len(calls') = number'
  BY <1>0, <1>7, <1>8 DEF Answered
<1>15. Ended'
  BY <1>0, <1>7, <1>9, <1>10, <1>11, <1>12, <1>13, <1>14 DEF Ended
<1> QED
  BY <1>2, <1>3, <1>4, <1>15 DEF Rest

\* validate_response() and what follows it.
LEMMA ValidateInv ==
    ASSUME Inv, TypeOK', Validate
    PROVE  Rest'
<1> USE DEF inputs, records
<1>0. /\ pc = "validate" /\ UNCHANGED <<mode, question, plan, calls, response, exc, metered, rows,
                                        terminal, summaries>>
  BY DEF Validate
<1>1. /\ Answered /\ Len(attempts) = number - 1 /\ exc = "none" /\ mode = "validated"
      /\ plan # <<>> /\ Len(calls) = number /\ Len(metered) = number
  BY <1>0 DEF Inv, InHand, Settled, Answered
<1>2. /\ Given' /\ RowsAgreeWithMetrics'
      /\ Ordered(plan)'
  BY <1>0, <1>1 DEF Inv, Given, RowsAgreeWithMetrics, Settled, Ordered, Decided, Meets
<1>3. CASE expired
  <2>1. UNCHANGED <<attempts, number>> /\ pc' = "done" /\ outcome' = "deadline"
    BY <1>3 DEF Validate, Finish
  <2>2. Followed'
    BY <1>0, <2>1, QuietStep
  <2>3. Settled' /\ InHand'
    BY <1>0, <1>1, <1>2, <2>1 DEF Inv, Settled, InHand
  <2>4. Ended'
    <3>1. ~Passed /\ Len(calls) \in Nat
      BY <1>1, NonePassed, Lists
    <3> QED
      BY <1>0, <1>1, <2>1, <3>1, EndsQuietly
  <2> QED
    BY <1>2, <2>2, <2>3, <2>4 DEF Rest
<1>4. CASE ~expired
  <2> DEFINE e == [model |-> Current, cost |-> response.cost, status |-> Status(response.text)]
             T == [model : Models, cost : Nat, status : {"passed", "failed", "error"}]
  <2>1. attempts' = Append(attempts, e) /\ outcome' = outcome /\ pc' \in {"loop", "record_summary"}
    BY <1>4 DEF Validate
  <2>2. /\ pc' = "loop" => /\ number' = number + 1 /\ number < Len(plan)
                           /\ Status(response.text) = "failed"
        /\ pc' = "record_summary" => number' = number
    BY <1>4 DEF Validate, Recoverable
  <2>3. e.model = plan[number] /\ e.cost = metered[number].cost /\ e.status = Status(response.text)
    BY <1>1 DEF Answered, Current
  <2>4. attempts \in Seq(T)
    BY DEF Inv, TypeOK
  <2> HIDE DEF e, T
  <2>5. number \in Nat \ {0} /\ Len(plan) \in Nat /\ number \in 1 .. Len(plan)
    BY <1>0, CurrentIsModel, Lists
  <2>6. /\ Len(attempts') = number /\ attempts'[number] = e
        /\ \A i \in 1 .. (number - 1) : attempts'[i] = attempts[i]
    <3>1. attempts \in Seq(T \cup {e})
      BY <2>4
    <3> QED
      BY <1>1, <2>1, <2>5, <3>1
  <2>7. Followed'
    <3>0. Followed
      BY DEF Inv
    <3>1. {Len(calls'), Len(metered'), Len(attempts')} \subseteq {number' - 1, number'}
      BY <1>0, <1>1, <2>1, <2>2, <2>5, <2>6
    <3>2. ASSUME NEW i \in 1 .. Len(attempts')
          PROVE  /\ attempts'[i].model = plan[i] /\ attempts'[i].cost = metered[i].cost
                 /\ i < number' => attempts'[i].status = "failed"
      <4>1. CASE i = number
        BY <2>1, <2>2, <2>3, <2>5, <2>6, <4>1
      <4>2. CASE i # number
        <5>1. i \in 1 .. (number - 1) /\ i \in 1 .. Len(attempts) /\ i < number
          BY <1>1, <2>5, <2>6, <4>2
        <5> QED
          BY <2>6, <3>0, <5>1 DEF Followed
      <4> QED
        BY <4>1, <4>2
    <3>3. Len(attempts') <= Len(metered')
      BY <1>0, <1>1, <2>5, <2>6
    <3>4. /\ \A i \in 1 .. Len(calls') : calls'[i] = plan'[i]
          /\ \A i \in 1 .. Len(metered') : metered'[i].model = plan'[i]
      BY <1>0, <3>0 DEF Followed
    <3>5. \A i \in 1 .. Len(attempts') :
             /\ attempts'[i].model = plan'[i] /\ attempts'[i].cost = metered'[i].cost
             /\ i < number' => attempts'[i].status = "failed"
      BY <1>0, <3>2
    <3> QED
      BY <1>0, <1>1, <3>1, <3>3, <3>4, <3>5 DEF Followed
  <2>8. Settled'
    <3>1. number' \in 1 .. Len(plan')
      BY <1>0, <2>1, <2>2, <2>5
    <3> QED
      BY <1>0, <1>1, <1>2, <2>1, <3>1 DEF Settled
  <2>9. InHand'
    <3>1. CASE pc' = "loop"
      BY <1>0, <1>1, <2>2, <2>5, <2>6, <3>1 DEF InHand
    <3>2. CASE pc' = "record_summary"
      <4>1. Answered'
        BY <1>0, <1>1, <2>2, <3>2 DEF Answered
      <4> QED
        BY <1>0, <1>1, <2>2, <2>3, <2>6, <3>2, <4>1 DEF InHand
    <3> QED
      BY <2>1, <3>1, <3>2
  <2>10. Ended'
    BY <1>0, <2>1 DEF Inv, Ended
  <2> QED
    BY <1>2, <2>7, <2>8, <2>9, <2>10 DEF Rest
<1> QED
  BY <1>3, <1>4

\* What _generate_validated has in hand when it concludes, and the execution
\* row it would write.
LEMMA ConclusionFacts ==
    ASSUME Inv, pc \in {"record_summary", "writing_summary"}
    PROVE  /\ mode = "validated" /\ plan # <<>> /\ terminal = <<>> /\ summaries = <<>>
           /\ exc = "none" =>
                 /\ Answered /\ Len(attempts) = number /\ Len(calls) = Len(metered)
                 /\ Terminal = IF Passed THEN "returned" ELSE "validation_failed"
                 /\ Passed => ~response.rejected /\ Last(metered).outcome = "success"
           /\ exc # "none" =>
                 /\ Failed /\ ~Passed /\ Terminal = TerminalOf(exc)
                 /\ PublicError(exc) \in Errors
                 /\ PublicError(exc) = "deadline" <=> exc = "deadline"
           /\ Summary.terminal = Terminal /\ Summary.cost <= KnownCost(metered)
           /\ Summary.complete => Summary.cost = KnownCost(metered)
<1>1. mode = "validated" /\ plan # <<>> /\ terminal = <<>> /\ summaries = <<>>
  BY DEF Inv, Settled, Ended
<1>2. /\ exc = "none" => /\ Answered /\ Len(attempts) = number
                         /\ attempts[number].status = Status(response.text)
      /\ exc # "none" => Failed /\ Len(attempts) = number - 1
      /\ exc # "rejected"
  BY DEF Inv, InHand
<1>3. ASSUME exc = "none"
      PROVE  /\ Answered /\ Len(attempts) = number /\ Len(calls) = Len(metered)
             /\ Terminal = IF Passed THEN "returned" ELSE "validation_failed"
             /\ Passed => ~response.rejected /\ Last(metered).outcome = "success"
  <2>1. Passed => Status(response.text) = "passed"
    BY <1>2, <1>3 DEF Passed, Last
  <2>2. response.text \in Texts
    BY DEF Inv, TypeOK
  <2>3. Passed => response.text \notin Rejectable
    BY <2>1, <2>2, StatusFacts
  <2>4. Passed => ~response.rejected /\ Last(metered).outcome = "success"
    BY <1>2, <1>3, <2>3, AnswerIsLast DEF Answered
  <2> QED
    BY <1>2, <1>3, <2>4, AnswerIsLast DEF Terminal
<1>4. ASSUME exc # "none"
      PROVE  /\ Failed /\ ~Passed /\ Terminal = TerminalOf(exc)
             /\ PublicError(exc) \in Errors
             /\ PublicError(exc) = "deadline" <=> exc = "deadline"
  <2>1. exc \in {"rejected"} \cup Errors
    BY <1>4 DEF Inv, TypeOK
  <2> QED
    BY <1>2, <1>4, <2>1, NonePassed, PublicErrors DEF Terminal
<1>5. /\ KnownCost(attempts) <= KnownCost(metered)
      /\ exc = "none" => KnownCost(attempts) = KnownCost(metered)
  <2> DEFINE A == [model : Models, cost : Nat, status : {"passed", "failed", "error"}]
             M == [model : Models, cost : Nat,
                   outcome : {"success", "rejected", "error", "cancelled"}]
  <2>1. attempts \in Seq(A) /\ metered \in Seq(M)
    BY DEF Inv, TypeOK
  <2> HIDE DEF A, M
  <2>2. /\ \A i \in 1 .. Len(metered) : metered[i].cost \in Nat
        /\ \A i \in 1 .. Len(attempts) : attempts[i].cost = metered[i].cost
        /\ Len(attempts) <= Len(metered)
    BY Lists DEF Inv, Followed
  <2>3. exc = "none" => Len(attempts) = Len(metered)
    BY <1>3 DEF Answered
  <2> QED
    BY <2>1, <2>2, <2>3, CostOfPrefix
<1>6. Summary.terminal = Terminal /\ Summary.cost = KnownCost(attempts)
  BY DEF Summary
<1>7. Summary.complete => exc = "none"
  BY DEF Summary
<1>8. /\ Summary.terminal = Terminal /\ Summary.cost <= KnownCost(metered)
      /\ Summary.complete => Summary.cost = KnownCost(metered)
  BY <1>5, <1>6, <1>7
<1> QED
  BY <1>1, <1>3, <1>4, <1>8

\* An execution row carries what the metrics counted (_record_execution).
LEMMA SummaryCosts ==
    ASSUME Inv, pc \in {"record_summary", "writing_summary"}, UNCHANGED metered,
           summaries' \in {<<>>, <<Summary>>}
    PROVE  CompleteCostIsTotal'
<1>1. /\ Summary.cost <= KnownCost(metered)
      /\ Summary.complete => Summary.cost = KnownCost(metered)
  BY ConclusionFacts
<1> DEFINE s == Summary
<1>2. summaries' = <<>> \/ summaries' = <<s>>
  OBVIOUS
<1>3. s.cost <= KnownCost(metered) /\ (s.complete => s.cost = KnownCost(metered))
  BY <1>1
<1> HIDE DEF s
<1>4. \A i \in DOMAIN summaries' : summaries'[i] = s
  BY <1>2
<1>5. Spent' = KnownCost(metered)
  BY DEF Spent
<1>6. ASSUME NEW i \in DOMAIN summaries'
      PROVE  /\ summaries'[i].complete => summaries'[i].cost = Spent'
             /\ summaries'[i].cost <= Spent'
  BY <1>3, <1>4, <1>5
<1> QED
  BY <1>6 DEF CompleteCostIsTotal

\* The validated request concludes, with its execution row written or not.
LEMMA ConcludeInv ==
    ASSUME Inv, TypeOK', RecordSummary \/ WriteSummary \/ WriteSummaryFails
    PROVE  Rest'
<1> USE DEF inputs, work, records
<1>0. /\ pc \in {"record_summary", "writing_summary"} /\ pc' \in {"writing_summary", "done"}
      /\ UNCHANGED <<mode, question, plan, number, calls, response, exc, attempts, metered, rows>>
  BY DEF RecordSummary, WriteSummary, WriteSummaryFails, Conclude, Finish
<1>1. mode = "validated" /\ plan # <<>> /\ terminal = <<>> /\ summaries = <<>>
  BY <1>0, ConclusionFacts
<1>2. Given' /\ Followed' /\ Ordered(plan)' /\ RowsAgreeWithMetrics'
  BY <1>0, <1>1, QuietStep
<1>3. Settled'
  BY <1>0, <1>1, <1>2 DEF Inv, Settled
<1>4. InHand'
  <2>1. (Answered' <=> Answered) /\ (Failed' <=> Failed)
    BY <1>0 DEF Answered, Failed
  <2> QED
    BY <1>0, <2>1 DEF Inv, InHand
<1>5. CASE pc' = "writing_summary"
  <2>1. UNCHANGED <<terminal, summaries, outcome>>
    BY <1>5 DEF RecordSummary, WriteSummary, WriteSummaryFails, Conclude, Finish
  <2>2. Ended'
    BY <1>0, <1>5, <2>1 DEF Inv, Ended
  <2> QED
    BY <1>2, <1>3, <1>4, <2>2 DEF Rest
<1>6. CASE pc' = "done"
  <2>1. /\ Conclude
        /\ summaries' \in {<<>>, <<Summary>>}
    BY <1>1, <1>6 DEF RecordSummary, WriteSummary, WriteSummaryFails
  <2>2. CompleteCostIsTotal'
    BY <1>0, <2>1, SummaryCosts
  <2> DEFINE e == [outcome |-> Terminal, attempts |-> Summary.attempts,
                   recovered |-> /\ Terminal = "returned"
                                 /\ \E i \in 1 .. (Len(attempts) - 1) :
                                       attempts[i].status = "failed"]
             s == Summary
  <2>3. terminal' = <<e>> /\ outcome' = IF exc # "none" THEN PublicError(exc) ELSE Terminal
    BY <1>1, <2>1 DEF Conclude, Finish
  <2>4. e.outcome = Terminal /\ s.terminal = Terminal /\ s.attempts = e.attempts
    BY <1>0, ConclusionFacts
  <2>5. summaries' = <<>> \/ summaries' = <<s>>
    BY <2>1
  <2> HIDE DEF e, s
  <2>6. /\ outcome' # "pending"
        /\ outcome' = "returned" <=> Passed
        /\ outcome' = "returned" <=> Terminal = "returned"
        /\ outcome' = "deadline" <=> Terminal = "deadline_exceeded"
        /\ outcome' = "validation_failed" <=> Terminal = "validation_failed"
        /\ Len(calls) < Len(metered) => outcome' = "deadline"
    <3>1. CASE exc = "none"
      <4>1. outcome' = (IF Passed THEN "returned" ELSE "validation_failed") /\ outcome' = Terminal
            /\ Len(calls) = Len(metered) /\ Len(calls) \in Nat
        BY <1>0, <2>3, <3>1, ConclusionFacts, Lists
      <4> QED
        BY <4>1
    <3>2. CASE exc # "none"
      <4>1. /\ outcome' \in Errors /\ (outcome' = "deadline" <=> exc = "deadline")
            /\ ~Passed /\ Terminal = TerminalOf(exc) /\ Failed
        BY <1>0, <2>3, <3>2, ConclusionFacts
      <4> QED
        BY <4>1 DEF Errors, ProviderErrors, TerminalOf, Failed
    <3> QED
      BY <3>1, <3>2
  <2>7. ClassificationAgrees'
    <3>1. Len(terminal') = 1 /\ terminal'[1] = e /\ Len(summaries') \in {0, 1}
      BY <2>3, <2>5
    <3>2. summaries' # <<>> => summaries'[1] = s
      BY <2>5
    <3>3. /\ terminal'[1].outcome = "returned" <=> outcome' = "returned"
          /\ terminal'[1].outcome = "deadline_exceeded" <=> outcome' = "deadline"
          /\ terminal'[1].outcome = "validation_failed" <=> outcome' = "validation_failed"
      BY <2>4, <2>6, <3>1
    <3>4. summaries' # <<>> => /\ summaries'[1].terminal = terminal'[1].outcome
                               /\ summaries'[1].attempts = terminal'[1].attempts
      BY <2>4, <3>1, <3>2
    <3>5. Len(terminal') <= 1 /\ Len(summaries') <= 1
      <4>1. Len(<<e>>) = 1 /\ Len(<<s>>) = 1 /\ Len(<<>>) = 0
        OBVIOUS
      <4>2. Len(<<e>>) <= 1 /\ Len(<<s>>) <= 1 /\ Len(<<>>) <= 1
        BY <4>1
      <4> QED
        BY <2>3, <2>5, <4>2, Zenon
    <3> QED
      BY <3>3, <3>4, <3>5, Zenon DEF ClassificationAgrees
  <2>8. TelemetryFailsOpen'
    <3>1. Passed' <=> Passed
      BY <1>0 DEF Passed
    <3> QED
      BY <1>0, <1>1, <2>6, <3>1 DEF TelemetryFailsOpen
  <2>9. outcome' = "returned" => exc = "none"
    BY <1>0, <2>6, ConclusionFacts
  <2>10. ReturnedIsFirstPass'
    <3>1. ASSUME outcome' = "returned"
          PROVE  /\ Passed /\ Answered /\ ~response.rejected /\ Last(metered).outcome = "success"
                 /\ response.model = Last(calls) /\ Len(attempts) = Len(calls)
                 /\ Len(attempts) = number
      BY <1>0, <2>6, <2>9, <3>1, ConclusionFacts, AnswerIsLast
    <3>2. ASSUME outcome' = "returned", NEW i \in 1 .. (Len(attempts) - 1)
          PROVE  attempts[i].status = "failed"
      <4>1. i \in 1 .. Len(attempts) /\ i < number
        BY <3>1, <3>2, Lists
      <4> QED
        BY <4>1 DEF Inv, Followed
    <3>3. Passed' <=> Passed
      BY <1>0 DEF Passed
    <3> QED
      BY <1>0, <3>1, <3>2, <3>3 DEF ReturnedIsFirstPass
  <2>11. /\ Len(calls) <= Len(metered)
         /\ Len(calls) < Len(metered) => metered[number].outcome = "error"
         /\ outcome' = "returned" => Len(calls) = number
    <3>1. CASE exc = "none"
      <4>1. Len(calls) = Len(metered) /\ Len(calls) \in Nat /\ Len(calls) = number
        BY <1>0, <3>1, ConclusionFacts, Lists DEF Answered
      <4> QED
        BY <4>1
    <3>2. CASE exc # "none"
      <4>1. Failed
        BY <1>0, <3>2, ConclusionFacts
      <4>2. Len(calls) < Len(metered) => Len(metered) = number
        BY Lists
      <4> QED
        BY <2>9, <3>2, <4>1, <4>2 DEF Failed
    <3> QED
      BY <3>1, <3>2
  <2>12. Ended'
    BY <1>0, <1>6, <2>2, <2>6, <2>7, <2>8, <2>10, <2>11 DEF Ended
  <2> QED
    BY <1>2, <1>3, <1>4, <2>12 DEF Rest
<1> QED
  BY <1>0, <1>5, <1>6

\* The client goes away at an await.
LEMMA CancelInv ==
    ASSUME Inv, TypeOK', Cancel
    PROVE  Rest'
<1> USE DEF inputs, work
<1>0. /\ pc \in {"calling", "writing", "writing_summary"} /\ pc' = "done"
      /\ outcome' = "cancelled"
      /\ UNCHANGED <<mode, question, plan, number, calls, response, exc, attempts, terminal>>
  BY DEF Cancel, Finish, Awaiting
<1>1. plan # <<>> /\ terminal = <<>> /\ summaries = <<>>
  BY <1>0 DEF Inv, Settled, Ended
<1>2. Given' /\ Ordered(plan)'
  BY <1>0, <1>1 DEF Inv, Given, Settled, Ordered, Decided, Meets
<1>3. Settled'
  BY <1>0, <1>1, <1>2 DEF Inv, Settled
<1>4. InHand'
  BY <1>0 DEF InHand
<1>5. /\ pc = "calling" => metered' = Append(metered, Metric("cancelled", 0)) /\ UNCHANGED rows
      /\ pc # "calling" => UNCHANGED metered
      /\ pc = "writing" => rows' \in {rows, Append(rows, InferenceRow)}
      /\ pc = "writing_summary" => UNCHANGED rows
      /\ summaries' \in {<<>>, <<Summary>>}
      /\ pc # "writing_summary" => summaries' = <<>>
  BY <1>0, <1>1 DEF Cancel, CancelMetered
<1>6. RowsAgreeWithMetrics'
  <2>1. CASE pc = "calling"
    BY <1>0, <1>5, <2>1, MetricAdded
  <2>2. CASE pc = "writing"
    BY <1>5, <2>2, RowAdded
  <2>3. CASE pc = "writing_summary"
    BY <1>5, <2>3 DEF Inv, RowsAgreeWithMetrics
  <2> QED
    BY <1>0, <2>1, <2>2, <2>3
<1>7. Followed'
  <2>1. CASE pc = "calling"
    BY <1>0, <1>5, <2>1, MetricAdded
  <2>2. CASE pc # "calling"
    BY <1>0, <1>5, <2>2, QuietStep
  <2> QED
    BY <2>1, <2>2
<1>8. /\ Len(calls') <= Len(metered')
      /\ Len(calls') < Len(metered') => metered'[number'].outcome = "error"
  <2>1. CASE pc = "calling"
    <3>1. Len(metered') = number /\ Len(calls) = number /\ number \in Nat
      BY <1>0, <1>5, <2>1, MetricAdded, Lists DEF Inv, InHand
    <3> QED
      BY <1>0, <3>1
  <2>2. CASE pc # "calling"
    <3>1. Answered \/ Failed
      BY <1>0, <2>2 DEF Inv, InHand
    <3>2. CASE Answered
      BY <1>0, <1>5, <2>2, <3>2, Lists DEF Answered
    <3>3. CASE Failed
      <4>1. Len(calls) < Len(metered) => Len(metered) = number
        BY Lists
      <4> QED
        BY <1>0, <1>5, <2>2, <3>3, <4>1 DEF Failed
    <3> QED
      BY <3>1, <3>2, <3>3
  <2> QED
    BY <2>1, <2>2
<1>9. CompleteCostIsTotal'
  <2>1. CASE pc = "writing_summary"
    BY <1>5, <2>1, SummaryCosts
  <2>2. CASE pc # "writing_summary"
    <3>1. DOMAIN summaries' = {}
      BY <1>5, <2>2
    <3> QED
      BY <3>1 DEF CompleteCostIsTotal
  <2> QED
    BY <2>1, <2>2
<1>10. ClassificationAgrees'
  <2>1. terminal' = <<>> /\ Len(terminal') = 0
    BY <1>0, <1>1
  <2> DEFINE s == Summary
  <2>2. summaries' = <<>> \/ summaries' = <<s>>
    BY <1>5
  <2> HIDE DEF s
  <2>3. Len(terminal') <= 1 /\ Len(summaries') <= 1
    <3>1. Len(<<s>>) = 1 /\ Len(<<>>) = 0
      OBVIOUS
    <3>2. Len(<<s>>) <= 1 /\ Len(<<>>) <= 1
      BY <3>1
    <3> QED
      BY <2>1, <2>2, <3>2, Zenon
  <2> QED
    BY <2>1, <2>3, Zenon DEF ClassificationAgrees
<1>11. ReturnedIsFirstPass' /\ TelemetryFailsOpen'
  BY <1>0 DEF ReturnedIsFirstPass, TelemetryFailsOpen
<1>12. Ended'
  BY <1>0, <1>8, <1>9, <1>10, <1>11 DEF Ended
<1> QED
  BY <1>2, <1>3, <1>4, <1>6, <1>7, <1>12 DEF Rest

\* A request starts in order (the two generate()s).
LEMMA InitInv ==
    ASSUME Init
    PROVE  Inv
<1>1. /\ number = 1 /\ calls = <<>> /\ attempts = <<>> /\ metered = <<>> /\ rows = <<>>
      /\ terminal = <<>> /\ summaries = <<>> /\ outcome = "pending" /\ exc = "none"
      /\ Len(calls) = 0 /\ Len(metered) = 0 /\ Len(attempts) = 0 /\ Len(rows) = 0
      /\ Given /\ (pc = "enter" \/ (pc = "start" /\ mode # "explicit" /\ plan = <<>>))
  <2>1. /\ number = 1 /\ calls = <<>> /\ attempts = <<>> /\ metered = <<>> /\ rows = <<>>
        /\ terminal = <<>> /\ summaries = <<>> /\ outcome = "pending" /\ exc = "none"
        /\ mode \in Modes /\ question \in Questions
    BY DEF Init
  <2>2. pc = "enter" \/ (pc = "start" /\ mode # "explicit" /\ plan = <<>>)
    <3>1. CASE mode = "explicit"
      BY <3>1 DEF Init
    <3>2. CASE mode # "explicit"
      BY <3>2 DEF Init
    <3> QED
      BY <3>1, <3>2
  <2>3. Len(calls) = 0 /\ Len(metered) = 0 /\ Len(attempts) = 0 /\ Len(rows) = 0
    BY <2>1
  <2> QED
    BY <2>1, <2>2, <2>3 DEF Given
<1>2. pc = "enter" => Ordered(plan) /\ Len(plan) = 1 /\ plan # <<>> /\ plan \in Seq(Models)
  <2>1. ASSUME pc = "enter" PROVE mode = "explicit" /\ \E m \in Models : plan = <<m>>
    BY <2>1 DEF Init
  <2>2. ASSUME NEW m \in Models, plan = <<m>>, mode = "explicit"
        PROVE  Ordered(plan) /\ Len(plan) = 1 /\ plan # <<>> /\ plan \in Seq(Models)
    <3>1. plan \in Seq(Models) /\ Len(plan) = 1 /\ plan # <<>>
      BY <2>2
    <3> QED
      BY <2>2, <3>1, AdaptiveAssumption DEF Ordered
  <2> QED
    BY <2>1, <2>2
<1>3. TypeOK
  <2>1. plan \in Seq(Models)
    <3>1. <<>> \in Seq(Models)
      OBVIOUS
    <3>2. plan = <<>> \/ plan \in Seq(Models)
      BY <1>1, <1>2, Zenon
    <3> QED
      BY <3>1, <3>2, Zenon
  <2>2. response \in [model : Models \cup {NoModel}, cost : Nat, text : Texts, rejected : BOOLEAN]
    <3>1. NoResponse \in [model : Models \cup {NoModel}, cost : Nat, text : Texts,
                          rejected : BOOLEAN]
      BY DEF NoResponse, Texts
    <3> QED
      BY <3>1 DEF Init
  <2>3. expired \in BOOLEAN /\ telemetry \in BOOLEAN
    BY DEF Init
  <2> QED
    BY <1>1, <2>1, <2>2, <2>3 DEF TypeOK, Outcomes
<1>4. Settled
  BY <1>1, <1>2 DEF Settled
<1>5. Followed /\ InHand
  BY <1>1, <1>2 DEF Followed, InHand
<1>6. RowsAgreeWithMetrics /\ Ended
  BY <1>1 DEF RowsAgreeWithMetrics, Ended
<1> QED
  BY <1>1, <1>3, <1>4, <1>5, <1>6 DEF Inv

\* Every step keeps the invariant.
LEMMA NextInv ==
    ASSUME Inv, [Next]_vars
    PROVE  Inv'
<1>1. TypeOK'
  BY TypeStep
<1>2. Begin => Rest'
  BY BeginInv DEF Rest
<1>3. Rest'
  BY <1>1, <1>2, ClockReads, CallInv, ProviderInv, WriteInv, ReturnInv, ValidateInv, ConcludeInv,
     CancelInv, TimePasses DEF Next, Step
<1> QED
  BY <1>1, <1>3 DEF Inv, Rest

\* The invariant holds of every reachable state of one request.
LEMMA Invariant == Spec => []Inv
BY InitInv, NextInv, PTL DEF Spec

-----------------------------------------------------------------------------
(***************************************************************************)
(* Theorems.                                                               *)
(***************************************************************************)
\* The coroutine's locals and the records it leaves keep their types, for every
\* registry, prediction, price and completion (application/adaptive.py,
\* application/service.py).
THEOREM TypeCorrect == Spec => []TypeOK
BY Invariant, PTL DEF Inv

\* Calls follow the plan, and the plan is in order.
LEMMA Disciplined ==
    ASSUME Inv
    PROVE  EscalationDiscipline
<1>1. SUFFICES ASSUME mode # "explicit" PROVE
        /\ IsInjective(calls) /\ Len(calls) <= MaxAttempts
        /\ calls # <<>> => calls[1] = Decided.selected
        /\ \A i \in 2 .. Len(calls) :
              /\ mode = "validated" /\ ~Decided.fallback
              /\ attempts[i - 1].model = calls[i - 1]
              /\ attempts[i - 1].status = "failed"
              /\ Meets(calls[i])
              /\ \A m \in ToSet(question.list) :
                    Meets(m) /\ question.cost[m] < question.cost[calls[i]] =>
                        \E j \in 1 .. (i - 1) : calls[j] = m
  BY DEF EscalationDiscipline
<1>0. calls \in Seq(Models) /\ DOMAIN calls = 1 .. Len(calls)
  BY Lists
<1>2. Len(calls) \in Nat /\ number \in Nat \ {0}
  BY Lists
<1>3. Followed /\ Settled
  BY DEF Inv
<1>4. CASE plan = <<>>
  <2>1. calls = <<>> /\ Len(calls) = 0
    BY <1>3, <1>4 DEF Settled
  <2>2. IsInjective(calls)
    BY <2>1 DEF IsInjective
  <2> QED
    BY <2>1, <2>2, AdaptiveAssumption
<1>5. CASE plan # <<>>
  <2>1. Ordered(plan) /\ number \in 1 .. Len(plan) /\ Len(plan) \in 1 .. MaxAttempts
    BY <1>3, <1>5 DEF Settled, Ordered
  <2>2. Len(calls) <= Len(plan) /\ Len(calls) <= MaxAttempts /\ Len(plan) \in Nat
    <3>1. Len(calls) \in {number - 1, number} /\ MaxAttempts \in 1 .. 3
      BY Lists, AdaptiveAssumption
    <3>2. number \in 1 .. Len(plan) /\ Len(plan) \in 1 .. MaxAttempts
      BY <2>1
    <3>3. Len(plan) \in Nat /\ MaxAttempts \in Nat
      BY <3>1, <3>2
    <3> QED
      BY <1>2, <3>1, <3>2, <3>3
  <2>3. \A i \in 1 .. Len(calls) : calls[i] = plan[i] /\ i \in 1 .. Len(plan)
    BY <1>2, <1>3, <2>2 DEF Followed
  <2>4. IsInjective(calls)
    <3>1. ASSUME NEW i \in 1 .. Len(calls), NEW j \in 1 .. Len(calls), calls[i] = calls[j]
          PROVE  i = j
      <4>1. ~(i < j) /\ ~(j < i)
        BY <2>1, <2>3, <3>1 DEF Ordered
      <4> QED
        BY <1>2, <4>1
    <3> QED
      BY <1>0, <3>1 DEF IsInjective
  <2>5. calls # <<>> => calls[1] = Decided.selected
    <3>1. calls # <<>> => 1 \in 1 .. Len(calls)
      BY <1>0, EmptySeq
    <3> QED
      BY <1>1, <2>1, <2>3, <3>1 DEF Ordered
  <2>6. ASSUME NEW i \in 2 .. Len(calls)
        PROVE  /\ mode = "validated" /\ ~Decided.fallback
               /\ attempts[i - 1].model = calls[i - 1]
               /\ attempts[i - 1].status = "failed"
               /\ Meets(calls[i])
               /\ \A m \in ToSet(question.list) :
                     Meets(m) /\ question.cost[m] < question.cost[calls[i]] =>
                         \E j \in 1 .. (i - 1) : calls[j] = m
    <3>1. /\ i \in 2 .. Len(plan) /\ i \in 1 .. Len(calls) /\ i - 1 \in 1 .. Len(calls)
          /\ i - 1 \in 1 .. Len(attempts) /\ i - 1 < number
      <4>1. Len(calls) \in {number - 1, number} /\ Len(attempts) \in {number - 1, number}
        BY Lists
      <4> QED
        BY <1>2, <2>2, <4>1
    <3>2. mode = "validated" /\ ~Decided.fallback /\ Meets(plan[i])
      BY <2>1, <3>1 DEF Ordered
    <3>3. attempts[i - 1].model = plan[i - 1] /\ attempts[i - 1].status = "failed"
      BY <1>3, <3>1 DEF Followed
    <3>4. ASSUME NEW m \in ToSet(question.list), Meets(m),
                 question.cost[m] < question.cost[calls[i]]
          PROVE  \E j \in 1 .. (i - 1) : calls[j] = m
      <4>1. PICK j \in 1 .. (i - 1) : plan[j] = m
        BY <2>1, <2>3, <3>1, <3>4 DEF Ordered
      <4>2. j \in 1 .. Len(calls)
        BY <1>2, <3>1
      <4> QED
        BY <2>3, <4>1, <4>2
    <3> QED
      BY <2>3, <3>1, <3>2, <3>3, <3>4
  <2> QED
    BY <2>2, <2>4, <2>5, <2>6
<1> QED
  BY <1>4, <1>5

\* Money is spent and an answer returned only as routing and validation allow,
\* for any number of models, any predictions and prices and whatever the clock,
\* the provider, the database and the client do
\* (AdaptiveInferenceService.generate).
THEOREM EscalationProved == Spec => []EscalationSound
<1>1. Inv => ReturnedIsFirstPass
  BY DEF Inv, Ended, ReturnedIsFirstPass
<1>2. Inv => EscalationSound
  BY <1>1, Disciplined DEF EscalationSound
<1> QED
  BY Invariant, <1>2, PTL

\* Attempt metrics, inference rows, the execution row with its cost and the
\* classification tell one story, and telemetry never decides the answer
\* (_record, _record_execution, _known_cost, the adaptive_request metric).
THEOREM TelemetryProved == Spec => []TelemetrySound
<1>1. ASSUME Inv PROVE TelemetrySound
  <2>1. RowsAgreeWithMetrics
    BY <1>1 DEF Inv
  <2>2. CompleteCostIsTotal /\ ClassificationAgrees /\ TelemetryFailsOpen
    <3>1. CASE pc = "done"
      BY <1>1, <3>1 DEF Inv, Ended
    <3>2. CASE pc # "done"
      <4>1. terminal = <<>> /\ summaries = <<>> /\ DOMAIN summaries = {}
            /\ Len(terminal) = 0 /\ Len(summaries) = 0
        BY <1>1, <3>2 DEF Inv, Ended
      <4> QED
        BY <3>2, <4>1 DEF CompleteCostIsTotal, ClassificationAgrees, TelemetryFailsOpen
    <3> QED
      BY <3>1, <3>2
  <2>3. OneMetricPerCall
    <3> DEFINE ended == IF pc = "calling" THEN Len(calls) - 1 ELSE Len(calls)
    <3>0. number \in Nat \ {0} /\ Len(calls) \in {number - 1, number}
          /\ Len(metered) \in {number - 1, number}
      BY <1>1, Lists
    <3>1. Len(metered) \in {ended, ended + 1}
      <4>1. CASE pc \in {"start", "loop", "enter", "ready", "calling"}
        BY <1>1, <3>0, <4>1 DEF Inv, InHand
      <4>2. CASE pc \notin {"start", "loop", "enter", "ready", "calling"}
        <5>1. Len(calls) <= Len(metered)
          <6>1. CASE pc = "done"
            BY <1>1, <6>1 DEF Inv, Ended
          <6>2. CASE pc # "done"
            <7>1. Answered \/ Failed
              BY <1>1, <4>2, <6>2 DEF Inv, InHand, TypeOK, Awaiting
            <7> QED
              BY <3>0, <7>1 DEF Answered, Failed
          <6> QED
            BY <6>1, <6>2
        <5> QED
          BY <3>0, <4>2, <5>1
      <4> QED
        BY <4>1, <4>2
    <3>2. \A i \in 1 .. ended : metered[i].model = calls[i]
      BY <1>1, <3>0, <3>1 DEF Inv, Followed
    <3>3. ASSUME Len(metered) = ended + 1
          PROVE  /\ Last(metered).outcome = "error"
                 /\ outcome \in {"pending", "deadline", "cancelled"}
      <4>1. pc \notin {"start", "loop", "enter", "ready", "calling"}
        BY <1>1, <3>0, <3>3 DEF Inv, InHand
      <4>2. Len(metered) = number /\ Len(calls) < Len(metered)
        BY <3>0, <3>3, <4>1
      <4>3. metered[number].outcome = "error"
        <5>1. CASE pc = "done"
          BY <1>1, <4>2, <5>1 DEF Inv, Ended
        <5>2. CASE pc # "done"
          <6>1. Answered \/ Failed
            BY <1>1, <4>1, <5>2 DEF Inv, InHand, TypeOK, Awaiting
          <6> QED
            BY <3>0, <4>2, <6>1 DEF Answered, Failed
        <5> QED
          BY <5>1, <5>2
      <4>4. outcome \in {"pending", "deadline", "cancelled"}
        BY <1>1, <4>2 DEF Inv, Ended
      <4> QED
        BY <4>2, <4>3, <4>4 DEF Last
    <3> QED
      BY <3>1, <3>2, <3>3 DEF OneMetricPerCall
  <2> QED
    BY <2>1, <2>2, <2>3 DEF TelemetrySound
<1> QED
  BY Invariant, <1>1, PTL

-----------------------------------------------------------------------------
(***************************************************************************)
(* The refinement of EscalationLadder.                                     *)
(***************************************************************************)
Answer == CASE outcome = "pending" -> 0
            [] outcome = "returned" -> response.model
            [] OTHER -> -1

\* An ordered plan is a ladder.
LEMMA OrderedIsLadder ==
    ASSUME NEW p, Ordered(p)
    PROVE  Ladder!IsLadder(p)
<1>1. ASSUME NEW i \in 1 .. Len(p), NEW j \in 1 .. Len(p), i < j
      PROVE  /\ p[i] # p[j] /\ question.cost[p[i]] <= question.cost[p[j]]
             /\ {p[i], p[j]} \subseteq {m \in Models : Meets(m)}
  <2>1. p[i] \in Models /\ p[j] \in Models
    BY DEF Ordered
  <2>2. /\ p[i] # p[j] /\ question.cost[p[i]] <= question.cost[p[j]]
        /\ Meets(p[i]) /\ Meets(p[j])
    BY <1>1 DEF Ordered
  <2> QED
    BY <2>1, <2>2
<1>2. p \in Seq(Models) /\ Len(p) \in 1 .. MaxAttempts
  BY DEF Ordered
<1> QED
  BY <1>1, <1>2 DEF Ladder!IsLadder

\* A step before the end that leaves plan, calls and attempt number alone is no
\* step of the ladder.
LEMMA LadderStutters ==
    ASSUME UNCHANGED <<question, plan, calls, number, outcome>>,
           outcome = "pending" \/ response' = response
    PROVE  UNCHANGED Ladder!vars
<1>1. Answer' = Answer
  BY DEF Answer
<1>2. {m \in Models : Meets(m)}' = {m \in Models : Meets(m)}
  BY DEF Meets
<1> QED
  BY <1>1, <1>2 DEF Ladder!vars, Answer

\* The end of a request gives the answer of the last model asked, or none.
LEMMA LadderEnds ==
    ASSUME Inv, Inv', pc # "done", pc' = "done",
           UNCHANGED <<question, plan, calls, number, response>>
    PROVE  Ladder!Next
<1>1. outcome = "pending" /\ outcome' # "pending"
  BY DEF Inv, Ended
<1>2. Answer = 0
  BY <1>1 DEF Answer
<1>3. {m \in Models : Meets(m)}' = {m \in Models : Meets(m)}
  BY DEF Meets
<1>4. CASE outcome' = "returned"
  <2>1. Len(calls) = number /\ response.model = calls[Len(calls)]
    BY <1>4 DEF Inv, Ended, ReturnedIsFirstPass, Last
  <2>2. Answer' = response.model
    BY <1>4 DEF Answer
  <2>3. Ladder!Give
    BY <1>2, <1>3, <2>1, <2>2 DEF Ladder!Give, Answer
  <2> QED
    BY <2>3 DEF Ladder!Next
<1>5. CASE outcome' # "returned"
  <2>1. Answer' = -1
    BY <1>1, <1>5 DEF Answer
  <2>2. Ladder!GiveNone
    BY <1>2, <1>3, <2>1 DEF Ladder!GiveNone, Answer
  <2> QED
    BY <2>2 DEF Ladder!Next
<1> QED
  BY <1>4, <1>5

\* Every step is a step of the ladder or leaves it alone.
LEMMA LadderStep ==
    ASSUME Inv, Inv', [Next]_vars
    PROVE  [Ladder!Next]_(Ladder!vars)
<1> USE DEF inputs, work, records
<1>0. /\ pc # "done" => outcome = "pending"
      /\ pc' # "done" => outcome' = "pending"
  BY DEF Inv, Ended
<1>g. UNCHANGED question => {m \in Models : Meets(m)}' = {m \in Models : Meets(m)}
  BY DEF Meets
<1>a. /\ outcome = "pending" => Answer = 0
      /\ outcome' = "pending" => Answer' = 0
  BY DEF Answer
<1>1. CASE Begin
  <2>1. /\ pc = "start" /\ UNCHANGED <<question, calls, number, response>>
    BY <1>1 DEF Begin
  <2>2. CASE pc' = "done"
    <3>1. plan' = plan
      BY <1>1, <2>2 DEF Begin
    <3> QED
      BY <2>1, <2>2, <3>1, LadderEnds
  <2>3. CASE pc' # "done"
    <3>1. plan = <<>> /\ mode # "explicit"
      BY <2>1 DEF Inv, Settled
    <3>2. /\ mode = "legacy" => plan' = <<Decided.selected>>
          /\ mode # "legacy" => plan' = AttemptOrder(Decided, question.cost, MaxAttempts)
      BY <1>1, <2>3 DEF Begin, Finish
    <3>3. mode \in {"legacy", "validated"}
      BY <3>1, AdaptiveAssumption DEF Inv, Given
    <3>4. Ladder!IsLadder(plan')
      BY <3>2, <3>3, PlanIsOrdered, OrderedIsLadder DEF Inv
    <3>5. Ladder!Settle
      BY <1>0, <1>a, <1>g, <2>1, <2>3, <3>1, <3>4 DEF Ladder!Settle, Answer
    <3> QED
      BY <3>5 DEF Ladder!Next
  <2> QED
    BY <2>2, <2>3
<1>2. CASE Call
  <2>1. pc = "ready" /\ pc' # "done" /\ UNCHANGED <<question, plan, number, response, outcome>>
    BY <1>2 DEF Call
  <2>2. CASE expired
    <3>1. calls' = calls
      BY <1>2, <2>2 DEF Call
    <3> QED
      BY <2>1, <3>1, LadderStutters
  <2>3. CASE ~expired
    <3>1. calls' = Append(calls, plan[number])
      BY <1>2, <2>3 DEF Call, Current
    <3>2. /\ Len(calls) = number - 1 /\ number \in Nat \ {0} /\ number \in 1 .. Len(plan)
          /\ Len(plan) \in Nat /\ Len(calls) \in Nat
      BY <2>1, Lists, CurrentIsModel DEF Inv, InHand
    <3>3. Len(calls) # number /\ Len(calls) < Len(plan) /\ number = Len(calls) + 1
      BY <3>2
    <3>4. Len(calls') = number'
      BY <1>2, <2>3 DEF Inv, InHand, Call
    <3>5. Ladder!Ask
      BY <1>0, <1>a, <1>g, <2>1, <3>1, <3>3, <3>4 DEF Ladder!Ask, Answer
    <3> QED
      BY <3>5 DEF Ladder!Next
  <2> QED
    BY <2>2, <2>3
<1>3. CASE Validate
  <2>1. pc = "validate" /\ UNCHANGED <<question, plan, calls, response>>
    BY <1>3 DEF Validate
  <2>2. CASE pc' = "done"
    <3>1. number' = number
      BY <1>3, <2>2 DEF Validate
    <3> QED
      BY <2>1, <2>2, <3>1, LadderEnds
  <2>3. CASE pc' = "record_summary"
    <3>1. number' = number /\ outcome' = outcome
      BY <1>3, <2>3 DEF Validate, Finish
    <3> QED
      BY <2>1, <3>1, LadderStutters
  <2>4. CASE pc' = "loop"
    <3>1. number' = number + 1 /\ number < Len(plan)
      BY <1>3, <2>4 DEF Validate, Finish
    <3>2. Len(calls) = number /\ number \in Nat
      BY <2>1, Lists DEF Inv, InHand, Answered
    <3>3. Len(calls') # number' /\ Len(calls) < Len(plan)
      BY <2>1, <3>1, <3>2
    <3>4. Ladder!Dismiss
      BY <1>0, <1>a, <1>g, <2>1, <2>4, <3>2, <3>3 DEF Ladder!Dismiss, Answer
    <3> QED
      BY <3>4 DEF Ladder!Next
  <2> QED
    BY <1>3, <2>2, <2>3, <2>4 DEF Validate, Finish
<1>4. CASE ProviderReturns \/ ProviderRejects \/ ProviderFails \/ ProviderTimeout
  <2>1. pc = "calling" /\ UNCHANGED <<question, plan, calls, number, outcome>>
    BY <1>4 DEF ProviderReturns, ProviderRejects, ProviderFails, ProviderTimeout
  <2> QED
    BY <1>0, <2>1, LadderStutters
<1>5. CASE LoopHead \/ Check \/ ReturnExplicit \/ ReturnLegacy \/ RecordSummary \/ WriteSummary
           \/ WriteSummaryFails \/ Cancel
  <2>1. /\ pc # "done" /\ UNCHANGED <<question, plan, calls, number, response>>
        /\ pc' = "done" \/ outcome' = outcome
    BY <1>5 DEF LoopHead, Check, ReturnExplicit, ReturnLegacy, RecordSummary, WriteSummary,
                WriteSummaryFails, Cancel, Conclude, Finish, Awaiting
  <2> QED
    BY <2>1, LadderEnds, LadderStutters
<1>6. CASE Enter \/ Record \/ WriteSucceeds \/ WriteFails \/ ReturnValidated \/ Expire \/ Done
           \/ UNCHANGED vars
  <2>1. UNCHANGED <<question, plan, calls, number, response, outcome>>
    BY <1>6 DEF Enter, Record, WriteSucceeds, WriteFails, ReturnValidated, Expire, Done, vars
  <2> QED
    BY <2>1, LadderStutters
<1> QED
  BY <1>1, <1>2, <1>3, <1>4, <1>5, <1>6 DEF Next, Step

\* A request starts at the foot of a ladder, settled or not.
LEMMA LadderInit ==
    ASSUME Init
    PROVE  Ladder!Init
<1>1. Inv
  BY InitInv
<1>2. calls = <<>> /\ Len(calls) = 0 /\ number = 1 /\ outcome = "pending"
  BY DEF Init
<1>3. plan = <<>> \/ Ladder!IsLadder(plan)
  BY <1>1, OrderedIsLadder DEF Inv, Settled
<1>4. Answer = 0
  BY <1>2 DEF Answer
<1> QED
  BY <1>2, <1>3, <1>4 DEF Ladder!Init, Answer

\* The whole of a request, whatever the clock, the provider, telemetry and the
\* client do, implements the ladder: one settled order of models, asked one at a
\* time from the bottom, and the last one's answer or none
\* (AdaptiveInferenceService.generate, InferenceService.generate).
THEOREM LadderImplemented == Spec => ImplementsLadder
<1>1. Init => Ladder!Init
  BY LadderInit
<1>2. Inv /\ Inv' /\ [Next]_vars => [Ladder!Next]_(Ladder!vars)
  BY LadderStep
<1> QED
  BY Invariant, <1>1, <1>2, PTL DEF Spec, ImplementsLadder, Ladder!Spec
=============================================================================
