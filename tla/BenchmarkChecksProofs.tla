------------------------ MODULE BenchmarkChecksProofs ------------------------
(***************************************************************************)
(* Proofs about what guards a benchmark's money and grades what it bought: *)
(* the paid commands and the dry runs for any number of replaced files,    *)
(* the judges for any specification, threshold and reply, the evaluators   *)
(* of JSON for any keys and values.                                        *)
(***************************************************************************)
EXTENDS RoutingStudiesProofs

\* A behaviour of MCOffline moves one component and leaves the others alone, so it
\* is a behaviour of each.
LEMMA PartsAreComponents ==
    PartsSpec => Gates!Spec /\ Pilot!Spec /\ Judges!Spec /\ Scoring!Spec
<1>1. PartsInit => Gates!Init /\ Pilot!Init /\ Judges!Init /\ Scoring!Init
  BY Zenon DEF PartsInit, GatesRest, PilotRests, JudgesRest, ScoringRests
<1>2. [PartsNext]_allVars => [Gates!Next]_(Gates!vars)
  BY DEF PartsNext, Moves, allVars, gates, Gates!vars
<1>3. [PartsNext]_allVars => [Pilot!Next]_(Pilot!vars)
  BY DEF PartsNext, Moves, allVars, pilot, Pilot!vars
<1>4. [PartsNext]_allVars => [Judges!Next]_(Judges!vars)
  BY DEF PartsNext, Moves, allVars, summaries, Judges!vars
<1>5. [PartsNext]_allVars => [Scoring!Next]_(Scoring!vars)
  BY DEF PartsNext, Moves, allVars, documents, Scoring!vars
<1> QED
  BY <1>1, <1>2, <1>3, <1>4, <1>5, PTL
  DEF PartsSpec, Gates!Spec, Pilot!Spec, Judges!Spec, Scoring!Spec

\* The components count with the same operators.
LEMMA SameCounting ==
    /\ \A S : Judges!IsFiniteSet(S) <=> IsFiniteSet(S)
    /\ \A S : Judges!Cardinality(S) = Cardinality(S)
    /\ \A S : Scoring!IsFiniteSet(S) <=> IsFiniteSet(S)
    /\ \A S : Scoring!Cardinality(S) = Cardinality(S)
    /\ \A f : Judges!Range(f) = {f[x] : x \in DOMAIN f}
<1>1. /\ \A S : Judges!IsFiniteSet(S) <=> IsFiniteSet(S)
      /\ \A S : Scoring!IsFiniteSet(S) <=> IsFiniteSet(S)
  BY DEF Judges!IsFiniteSet, Scoring!IsFiniteSet, IsFiniteSet
<1>2. \A S : Judges!Cardinality(S) = Cardinality(S)
  BY DEF Judges!Cardinality, Cardinality
<1>3. \A S : Scoring!Cardinality(S) = Cardinality(S)
  BY DEF Scoring!Cardinality, Cardinality
<1>4. \A f : Judges!Range(f) = {f[x] : x \in DOMAIN f}
  BY DEF Judges!Range
<1> QED
  BY <1>1, <1>2, <1>3, <1>4

-----------------------------------------------------------------------------
(* The paid commands.                                                      *)

\* What has been checked by the time main() has come to each stage.
GatesPassed ==
    /\ stage \notin {"models", "refused"} /\ Gates!Paid(args.models) => args.key /\ args.allow
    /\ stage # "done" => ran = Gates!NotRun /\ judged = [calls |-> FALSE, consent |-> FALSE]
    /\ stage \in {"models", "dataset", "protocol", "pricing", "split"} => read.split = "none"
    /\ stage \in {"protocol", "pricing"} => args.protocol
    /\ stage = "pricing" => read.protocol = "p12" /\ read.dataset = "v12"
    /\ stage \in {"split", "run", "done"} /\ args.protocol =>
          /\ read.protocol \in {"p10", "p12"}
          /\ Gates!ContractDataset(read.protocol) = read.dataset
          /\ Gates!RequiresPricing(read.protocol) => read.pricing = "ready"
    /\ stage \in {"run", "done"} /\ args.split = "final" /\ read.split # "none" =>
          args.gate /\ args.identities

\* What main() gave the runner.
RunIsSelected ==
    /\ read \in [dataset : Gates!Datasets \cup {"none"}, protocol : Gates!Protocols \cup {"none"},
                 pricing : Gates!Pricings \cup {"none"}, split : Gates!Splits \cup {"none"}]
    /\ stage = "done" =>
          /\ DOMAIN ran.models = args.models
          /\ args.protocol => \A m \in args.models :
                ran.models[m] = IF m \in Gates!Listed THEN read.protocol ELSE "registry"
          /\ read.split # "none" => ran.tasks = Gates!Selected(read.split, args.split)

GatesInv == Gates!TypeOK /\ Gates!GatesHold /\ GatesPassed /\ RunIsSelected

\* The runner is given every selected model: the listed ones as the contract
\* configures them, the others as the registry does.
LEMMA RunConfigures ==
    ASSUME GatesInv, Gates!Run
    PROVE  /\ DOMAIN ran'.models = args.models
           /\ \A m \in args.models :
                 ran'.models[m] = IF m \in Gates!Listed /\ Gates!Contract # "none"
                                  THEN Gates!Contract ELSE "registry"
           /\ ran'.tasks = IF read.split = "none" THEN {"train", "development", "final"}
                           ELSE Gates!Selected(read.split, args.split)
           /\ Gates!Contract \in {"none", "benchmark", "p10", "p12"}
           /\ args.protocol => Gates!Contract = read.protocol /\ Gates!Contract # "none"
<1>1. DOMAIN Gates!model_overrides =
          {l \in Gates!Listed : l \in args.models /\ Gates!Contract # "none"}
  BY DEF Gates!model_overrides
<1>2. \A m \in DOMAIN Gates!model_overrides : Gates!model_overrides[m] = Gates!Contract
  BY DEF Gates!model_overrides
<1>3. /\ DOMAIN ran'.models = args.models
      /\ \A m \in args.models :
            ran'.models[m] = IF m \in DOMAIN Gates!model_overrides
                             THEN Gates!model_overrides[m] ELSE "registry"
      /\ ran'.tasks = IF read.split = "none" THEN {"train", "development", "final"}
                      ELSE Gates!Selected(read.split, args.split)
  BY DEF Gates!Run
<1>4. /\ args.protocol => read.protocol \in {"p10", "p12"}
      /\ args.protocol => Gates!Contract = read.protocol
      /\ Gates!Contract \in {"none", "benchmark", "p10", "p12"}
  BY DEF GatesInv, GatesPassed, Gates!Run, Gates!Contract
<1> QED
  BY <1>1, <1>2, <1>3, <1>4

\* Every step of a paid command, and every file replaced under it, keeps it.
LEMMA GatesStep == GatesInv /\ [Gates!Next]_(Gates!vars) => GatesInv'
<1> SUFFICES ASSUME GatesInv, [Gates!Next]_(Gates!vars) PROVE GatesInv'
  OBVIOUS
<1>0. \A models : Gates!Paid(models) <=> models \ {"fake"} # {}
  BY DEF Gates!Paid
<1>7. CASE Gates!Run
  <2>1. /\ DOMAIN ran'.models = args.models
        /\ \A m \in args.models :
              ran'.models[m] = IF m \in Gates!Listed /\ Gates!Contract # "none"
                               THEN Gates!Contract ELSE "registry"
        /\ ran'.tasks = IF read.split = "none" THEN {"train", "development", "final"}
                        ELSE Gates!Selected(read.split, args.split)
        /\ Gates!Contract \in {"none", "benchmark", "p10", "p12"}
        /\ args.protocol => Gates!Contract = read.protocol /\ Gates!Contract # "none"
    BY <1>7, RunConfigures
  <2>2. /\ stage = "run" /\ stage' = "done"
        /\ UNCHANGED <<disk, edits, args, read, judged>>
    BY <1>7 DEF Gates!Run
  <2>3. /\ disk \in Gates!Files /\ edits \in 0..MaxEdits /\ args \in Gates!Arguments
        /\ judged = [calls |-> FALSE, consent |-> FALSE]
        /\ Gates!Paid(args.models) => args.allow /\ args.key
    BY <2>2 DEF GatesInv, Gates!TypeOK, GatesPassed
  <2>4. args.models \subseteq Gates!Registered
    BY <2>3, PaidAssumption DEF Gates!Arguments, Gates!GatesAssumption
  <2>5. \A m \in args.models : ran'.models[m] \in {"registry", "benchmark", "p10", "p12"}
    BY <2>1
  <2>6. Gates!TypeOK'
    BY <2>1, <2>2, <2>3, <2>4, <2>5 DEF Gates!TypeOK, Gates!Files, Gates!Arguments, Gates!Protocols
  <2>7. RunIsSelected'
    BY <2>1, <2>2 DEF GatesInv, RunIsSelected
  <2>8. GatesPassed'
    BY <2>2, <2>3 DEF GatesInv, GatesPassed
  <2>9. Gates!PaidNeedsConsent'
    BY <2>1, <2>2, <2>3 DEF Gates!PaidNeedsConsent, Gates!Paid
  <2>10. Gates!ProtocolPinsTheRun'
    BY <2>1, <2>2 DEF GatesInv, GatesPassed, Gates!ProtocolPinsTheRun
  <2>11. Gates!FinalNeedsTheGate'
    BY <2>1, <2>2 DEF GatesInv, GatesPassed, Gates!FinalNeedsTheGate, Gates!HeldOut, Gates!Selected
  <2> QED
    BY <2>6, <2>7, <2>8, <2>9, <2>10, <2>11 DEF GatesInv, Gates!GatesHold
<1> USE PaidAssumption
    DEF GatesInv, Gates!TypeOK, Gates!GatesHold, Gates!PaidNeedsConsent, Gates!ProtocolPinsTheRun,
        Gates!FinalNeedsTheGate, GatesPassed, RunIsSelected, Gates!NotRun, Gates!Paid, Gates!Files,
        Gates!Datasets, Gates!Protocols, Gates!Pricings, Gates!Splits, Gates!ContractDataset,
        Gates!RequiresPricing, Gates!Refuse, Gates!GatesAssumption
<1>1. CASE Gates!CheckModels
  BY <1>1 DEF Gates!CheckModels
<1>2. CASE Gates!LoadDataset
  BY <1>2 DEF Gates!LoadDataset
<1>3. CASE Gates!load_execution_protocol
  BY <1>3 DEF Gates!load_execution_protocol
<1>4. CASE Gates!load_pricing_readiness
  BY <1>4 DEF Gates!load_pricing_readiness
<1>5. CASE Gates!select_execution_dataset
  BY <1>5 DEF Gates!select_execution_dataset, Gates!ValidBenchmark, Gates!ValidSplit
<1>6. CASE Gates!SkipSelection
  BY <1>6 DEF Gates!SkipSelection
<1>8. CASE Gates!Edit
  BY <1>8 DEF Gates!Edit
<1>9. CASE Gates!EvaluationCommand
  BY <1>9 DEF Gates!EvaluationCommand
<1>10. CASE Gates!ValidationCommand
  BY <1>10 DEF Gates!ValidationCommand
<1>11. CASE UNCHANGED Gates!vars
  BY <1>11 DEF Gates!vars
<1> QED
  BY <1>1, <1>2, <1>3, <1>4, <1>5, <1>6, <1>7, <1>8, <1>9, <1>10, <1>11 DEF Gates!Next

\* Any command line, files and number of replacements: the gates of the three
\* paid entry points hold in every state (benchmarks/__main__.py main,
\* evaluation/__main__.py, evaluation/hybrid_validation.py).  What a contract
\* configures are the models it lists; what a split manifest holds out is said by
\* the manifest that was read.
THEOREM PaidCommandsAreGated == PartsSpec => [](Gates!TypeOK /\ Gates!GatesHold)
<1>1. Gates!Init => GatesInv
  BY PaidAssumption
  DEF Gates!Init, GatesInv, Gates!TypeOK, Gates!GatesHold, Gates!PaidNeedsConsent,
      Gates!ProtocolPinsTheRun, Gates!FinalNeedsTheGate, GatesPassed, RunIsSelected, Gates!NotRun,
      Gates!Unread, Gates!Paid, Gates!Files, Gates!Datasets, Gates!Protocols, Gates!Pricings,
      Gates!Splits, Gates!GatesAssumption
<1>2. GatesInv => Gates!TypeOK /\ Gates!GatesHold
  BY DEF GatesInv
<1> QED
  BY <1>1, <1>2, GatesStep, PartsAreComponents, PTL DEF Gates!Spec

-----------------------------------------------------------------------------
(* The dry runs.                                                           *)

AllVersions == {"frozen", "revised", "other"}

\* Until a file is replaced after the first read, the versions read are the
\* versions on disk; what was read before a refusal was accepted.
ReadsAreCurrent ==
    /\ inputs \in [Pilot!Names -> AllVersions]
    /\ reads \in Seq(AllVersions)
    /\ kind \in {"pilot", "confirmation"}
    /\ dirty => reads # <<>>
    /\ ~dirty => \A i \in 1..Len(reads) : reads[i] = inputs[Pilot!Plan[i].file]
    /\ report \in {"none", "ready"} =>
          \A i \in 1..Len(reads) : Pilot!Accepts(Pilot!Plan[i].how, reads[i])

PilotInv == Pilot!TypeOK /\ ReadsAreCurrent

\* What both plans have in common: every file is digested or validated at some
\* read, the split and the inputs that are pinned by digest.
LEMMA PlanFacts ==
    ASSUME kind \in {"pilot", "confirmation"}
    PROVE  /\ Len(Pilot!Plan) \in Nat
           /\ \A i \in 1..Len(Pilot!Plan) :
                 /\ Pilot!Plan[i].file \in Pilot!Names
                 /\ Pilot!Plan[i].file \in {"protocol", "dataset", "specification"} =>
                       Pilot!Plan[i].how = "digest"
                 /\ \E j \in 1..Len(Pilot!Plan) :
                       /\ Pilot!Plan[j].file = Pilot!Plan[i].file
                       /\ Pilot!Plan[j].how \in {"digest", "valid"}
           /\ \E i \in 1..Len(Pilot!Plan) :
                 Pilot!Plan[i].file = "split" /\ Pilot!Plan[i].how = "digest"
<1>1. CASE kind = "pilot"
  <2>1. Pilot!Plan = Pilot!corrected_pilot_dry_run
    BY <1>1 DEF Pilot!Plan
  <2>2. Len(Pilot!corrected_pilot_dry_run) = 11
    BY DEF Pilot!corrected_pilot_dry_run
  <2> QED
    BY <2>1, <2>2, SMTT(60) DEF Pilot!corrected_pilot_dry_run, Pilot!Read, Pilot!Names
<1>2. CASE kind = "confirmation"
  <2>1. Pilot!Plan = Pilot!gemini_confirmation_dry_run
    BY <1>2 DEF Pilot!Plan
  <2>2. Len(Pilot!gemini_confirmation_dry_run) = 7
    BY DEF Pilot!gemini_confirmation_dry_run
  <2> QED
    BY <2>1, <2>2, SMTT(60) DEF Pilot!gemini_confirmation_dry_run, Pilot!Read, Pilot!Names
<1> QED
  BY <1>1, <1>2

\* Every read, the report and every replacement of a file keep it.
LEMMA PilotStep == PilotInv /\ [Pilot!Next]_(Pilot!vars) => PilotInv'
<1> SUFFICES ASSUME PilotInv, [Pilot!Next]_(Pilot!vars) PROVE PilotInv'
  OBVIOUS
<1>0. /\ Len(Pilot!Plan) \in Nat /\ Len(reads) \in Nat
      /\ \A i \in 1..Len(Pilot!Plan) : Pilot!Plan[i].file \in Pilot!Names
  <2>1. kind \in {"pilot", "confirmation"} /\ reads \in Seq(AllVersions)
    BY DEF PilotInv, ReadsAreCurrent
  <2>2. Len(reads) \in Nat
    BY <2>1
  <2>3. /\ Len(Pilot!Plan) \in Nat
        /\ \A i \in 1..Len(Pilot!Plan) : Pilot!Plan[i].file \in Pilot!Names
    BY <2>1, PlanFacts
  <2> QED
    BY <2>2, <2>3
<1> USE DEF PilotInv, Pilot!TypeOK, ReadsAreCurrent
<1>1. CASE Pilot!ReadNext
  <2> DEFINE step == Pilot!Plan[Len(reads) + 1]
  <2>1. /\ report = "none" /\ Len(reads) < Len(Pilot!Plan)
        /\ reads' = Append(reads, inputs[step.file])
        /\ report' = IF Pilot!Accepts(step.how, inputs[step.file]) THEN "none" ELSE "refused"
        /\ UNCHANGED <<inputs, replacements, dirty, kind>>
    BY <1>1 DEF Pilot!ReadNext
  <2>2. Pilot!Plan' = Pilot!Plan
    BY <2>1 DEF Pilot!Plan, Pilot!corrected_pilot_dry_run, Pilot!gemini_confirmation_dry_run
  <2>3. step.file \in Pilot!Names
    BY <1>0, <2>1
  <2> DEFINE found == inputs[step.file]
  <2>4. found \in AllVersions
    BY <2>3
  <2> HIDE DEF found, step
  <2>5. reads' = Append(reads, found)
    BY <2>1 DEF found
  <2>6. /\ reads' \in Seq(AllVersions) /\ Len(reads') = Len(reads) + 1 /\ reads' # <<>>
        /\ reads'[Len(reads) + 1] = found
        /\ \A i \in 1..Len(reads) : reads'[i] = reads[i]
    BY <1>0, <2>4, <2>5
  <2>7. \A i \in 1..Len(reads') : i \in 1..Len(reads) \/ i = Len(reads) + 1
    BY <1>0, <2>6
  <2>8. \A how, version : Pilot!Accepts(how, version)' = Pilot!Accepts(how, version)
    BY DEF Pilot!Accepts
  <2>9. Len(reads') <= Len(Pilot!Plan) /\ report' # "ready"
    BY <1>0, <2>1, <2>6
  <2>10. ~dirty => \A i \in 1..Len(reads') : reads'[i] = inputs[Pilot!Plan[i].file]
    BY <2>6, <2>7 DEF found, step
  <2>11. report' = "none" => \A i \in 1..Len(reads') : Pilot!Accepts(Pilot!Plan[i].how, reads'[i])
    BY <2>1, <2>6, <2>7 DEF found, step
  <2>12. \A f \in Pilot!Names : inputs'[f] \in Pilot!Versions(f)
    BY <2>1
  <2> QED
    BY <2>1, <2>2, <2>6, <2>8, <2>9, <2>10, <2>11, <2>12 DEF Pilot!Versions
<1>2. CASE Pilot!Report
  <2>1. Pilot!Plan' = Pilot!Plan
    BY <1>2 DEF Pilot!Report, Pilot!Plan, Pilot!corrected_pilot_dry_run, Pilot!gemini_confirmation_dry_run
  <2> QED
    BY <1>2, <2>1 DEF Pilot!Report, Pilot!Accepts
<1>3. ASSUME NEW f \in Pilot!Names, Pilot!Edit(f) PROVE PilotInv'
  <2>1. Pilot!Plan' = Pilot!Plan
    BY <1>3 DEF Pilot!Edit, Pilot!Plan, Pilot!corrected_pilot_dry_run, Pilot!gemini_confirmation_dry_run
  <2>2. PICK v \in Pilot!Versions(f) : inputs' = [inputs EXCEPT ![f] = v]
    BY <1>3 DEF Pilot!Edit
  <2>3. /\ inputs' \in [Pilot!Names -> AllVersions]
        /\ \A g \in Pilot!Names : inputs'[g] \in Pilot!Versions(g)
    BY <2>2 DEF Pilot!Versions, AllVersions
  <2>4. /\ report = "none" /\ UNCHANGED <<kind, reads, report>>
        /\ dirty' = (reads # <<>>)
    BY <1>3 DEF Pilot!Edit
  <2>5. /\ dirty' => reads' # <<>>
        /\ ~dirty' => \A i \in 1..Len(reads') : reads'[i] = inputs'[Pilot!Plan[i].file]
    <3>1. Len(<<>>) = 0
      OBVIOUS
    <3>2. \A i \in 1..0 : FALSE
      OBVIOUS
    <3> QED
      BY <2>4, <3>1, <3>2, Zenon
  <2>6. \A how, version : Pilot!Accepts(how, version)' = Pilot!Accepts(how, version)
    BY DEF Pilot!Accepts
  <2>7. ReadsAreCurrent'
    BY <2>1, <2>3, <2>4, <2>5, <2>6
  <2>8. Pilot!TypeOK'
    BY <2>1, <2>3, <2>4, <2>6 DEF Pilot!Versions
  <2> QED
    BY <2>7, <2>8
<1>4. CASE UNCHANGED Pilot!vars
  <2>1. Pilot!Plan' = Pilot!Plan
    BY <1>4 DEF Pilot!vars, Pilot!Plan, Pilot!corrected_pilot_dry_run, Pilot!gemini_confirmation_dry_run
  <2> QED
    BY <1>4, <2>1 DEF Pilot!vars, Pilot!Accepts
<1> QED
  BY <1>1, <1>2, <1>3, <1>4 DEF Pilot!Next

\* A dry run that says ready read frozen files, however the accepted reads were
\* interleaved with replacements.
LEMMA ReadyIsFrozen == PilotInv => Pilot!ReadyMeansFrozen /\ Pilot!PinnedInputsAreFrozen
<1> SUFFICES ASSUME PilotInv, report = "ready"
             PROVE  /\ Pilot!PinnedInputsAreFrozen
                    /\ ~dirty => Pilot!ReadyMeansFrozen
  BY DEF Pilot!ReadyMeansFrozen, Pilot!PinnedInputsAreFrozen
<1> USE DEF PilotInv, ReadsAreCurrent
<1>1. /\ Len(reads) = Len(Pilot!Plan)
      /\ \A i \in 1..Len(Pilot!Plan) : Pilot!Accepts(Pilot!Plan[i].how, reads[i])
  BY DEF Pilot!TypeOK
<1>2. Pilot!PinnedInputsAreFrozen
  BY <1>1, PlanFacts DEF Pilot!PinnedInputsAreFrozen, Pilot!Accepts
<1>3. ASSUME ~dirty PROVE Pilot!ReadyMeansFrozen
  <2>1. \A i \in 1..Len(Pilot!Plan) : reads[i] = inputs[Pilot!Plan[i].file]
    BY <1>1, <1>3
  <2>2. \A i \in 1..Len(Pilot!Plan) : inputs[Pilot!Plan[i].file] # "other"
    <3>1. SUFFICES ASSUME NEW i \in 1..Len(Pilot!Plan)
                   PROVE  inputs[Pilot!Plan[i].file] # "other"
      OBVIOUS
    <3>2. PICK j \in 1..Len(Pilot!Plan) :
              /\ Pilot!Plan[j].file = Pilot!Plan[i].file
              /\ Pilot!Plan[j].how \in {"digest", "valid"}
      BY PlanFacts
    <3>3. Pilot!Accepts(Pilot!Plan[j].how, inputs[Pilot!Plan[i].file])
      BY <1>1, <2>1, <3>2
    <3> QED
      BY <3>2, <3>3 DEF Pilot!Accepts
  <2>3. inputs["split"] = "frozen"
    BY <1>1, <2>1, PlanFacts DEF Pilot!Accepts
  <2> QED
    BY <2>1, <2>2, <2>3 DEF Pilot!ReadyMeansFrozen
<1> QED
  BY <1>2, <1>3

\* What the dry runs of execution_readiness.py promise, for any number of
\* replaced files.
LEMMA PilotHolds == PartsSpec => []PilotInv
<1>1. Pilot!Init => PilotInv
  BY PlanFacts
  DEF Pilot!Init, PilotInv, Pilot!TypeOK, ReadsAreCurrent, AllVersions, Pilot!Versions, Pilot!Accepts
<1> QED
  BY <1>1, PilotStep, PartsAreComponents, PTL DEF Pilot!Spec

\* No path to a paid call avoids its gates, and a pilot that is declared ready
\* was read as frozen, for any command line, any files and any number of
\* replacements (benchmarks/__main__.py, benchmarks/execution_readiness.py).
THEOREM PaidPathIsAlwaysGuarded == PartsSpec => []PaidPathIsGuarded
<1>1. Gates!GatesHold /\ PilotInv => PaidPathIsGuarded
  BY ReadyIsFrozen DEF PaidPathIsGuarded
<1> QED
  BY <1>1, PaidCommandsAreGated, PilotHolds, PTL

-----------------------------------------------------------------------------
(* The judges.                                                             *)

Failed(r) == \E k \in Judges!Unusable, c \in 0..1 : r = [kind |-> k, charged |-> c]

HybridRubric(r) ==
    \E n \in 1..Cardinality(Props), f \in Judges!Findings : \E js \in [1..n -> Judges!Judgments] :
        r = [kind |-> "rubric", charged |-> 1, rubric |-> [judgments |-> js, findings |-> f]]

FlatRubric(r) ==
    \E a, b \in Grades, e \in BOOLEAN :
        r = [kind |-> "rubric", charged |-> 1,
             rubric |-> [coverage |-> a, compliance |-> b, errors |-> e]]

\* What was checked, asked and answered, stage by stage.
JudgedInOrder ==
    /\ judging \in {"static", "judge", "score", "done"}
    /\ judge \in {"hybrid", "semantic"}
    /\ passed \in BOOLEAN
    /\ \/ deterministic = Judges!Pending
       \/ \E met \in 0..2 : deterministic = [Judges!Pending EXCEPT !.quality = <<met, 2>>]
    /\ judging \in {"static", "judge"} => judgeReply = Judges!NoReply
    /\ judging # "done" => kept = Judges!Pending
    /\ judging \in {"score", "done"} /\ judge = "hybrid" =>
          /\ Failed(judgeReply) \/ HybridRubric(judgeReply)
          /\ outcome = Judges!hybrid_judge(judgeReply)
    /\ judging \in {"score", "done"} /\ judge = "semantic" =>
          /\ Failed(judgeReply) \/ FlatRubric(judgeReply)
          /\ outcome = Judges!semantic_judge(judgeReply)
    /\ judging = "done" =>
          kept = IF judge = "hybrid" THEN Judges!evaluate_hybrid(deterministic, passed, outcome)
                 ELSE Judges!evaluate_semantic(deterministic, passed, outcome)

\* Every step of an evaluation keeps it.
LEMMA JudgesStep == JudgedInOrder /\ [Judges!Next]_(Judges!vars) => JudgedInOrder'
<1> SUFFICES ASSUME JudgedInOrder, [Judges!Next]_(Judges!vars) PROVE JudgedInOrder'
  OBVIOUS
<1> USE DEF JudgedInOrder
<1>1. CASE Judges!CheckConstraints
  BY <1>1 DEF Judges!CheckConstraints
<1>2. CASE Judges!AskHybrid
  <2>0. /\ Judges!Unusable' = Judges!Unusable /\ Judges!Findings' = Judges!Findings
        /\ Judges!Judgments' = Judges!Judgments
    BY DEF Judges!Unusable, Judges!Findings, Judges!Judgments, Judges!NoRule
  <2>1. Failed(judgeReply') \/ HybridRubric(judgeReply')
    <3>1. CASE \E k \in Judges!Unusable, c \in 0..1 : judgeReply' = [kind |-> k, charged |-> c]
      BY <3>1 DEF Failed
    <3>2. ASSUME NEW n \in 1..Cardinality(Props), NEW f \in Judges!Findings,
                 NEW js \in [1..n -> Judges!Judgments],
                 judgeReply' = [kind |-> "rubric", charged |-> 1,
                                rubric |-> [judgments |-> js, findings |-> f]]
          PROVE  HybridRubric(judgeReply')
      BY <3>2, Zenon DEF HybridRubric
    <3> QED
      BY <1>2, <3>1, <3>2, SameCounting, Zenon DEF Judges!AskHybrid
  <2>2. Failed(judgeReply)' \/ HybridRubric(judgeReply)'
    BY <2>0, <2>1, Zenon DEF Failed, HybridRubric
  <2> QED
    BY <1>2, <2>2 DEF Judges!AskHybrid
<1>3. CASE Judges!AskSemantic
  <2>1. Failed(judgeReply)' \/ FlatRubric(judgeReply)'
    BY <1>3 DEF Judges!AskSemantic, Failed, FlatRubric
  <2> QED
    BY <1>3, <2>1 DEF Judges!AskSemantic
<1>4. CASE Judges!Score
  BY <1>4 DEF Judges!Score
<1>5. CASE UNCHANGED Judges!vars
  BY <1>5 DEF Judges!vars
<1> QED
  BY <1>1, <1>2, <1>3, <1>4, <1>5 DEF Judges!Next

\* The kept record, in every stage, is an evaluation of the recorded reply.
LEMMA JudgesHold == PartsSpec => []JudgedInOrder
<1>1. Judges!Init => JudgedInOrder
  BY DEF Judges!Init, JudgedInOrder
<1> QED
  BY <1>1, JudgesStep, PartsAreComponents, PTL DEF Judges!Spec

\* A record for a judgement that could not be used decides nothing, and carries
\* the cost of the call.
LEMMA PartialRecord ==
    ASSUME JudgedInOrder, NEW o, NEW why, o.usage \in 0..1,
           kept = Judges!Partial(deterministic, o, why)
    PROVE  /\ kept.status = "partial" /\ kept.acceptable = "none"
           /\ kept.call = TRUE /\ kept.cost = o.usage
BY DEF JudgedInOrder, Judges!Partial, Judges!Charged, Judges!Pending, Judges!EvaluationResult

\* In a rubric that judges every proposition once, a proposition's verdict is
\* the verdict of its judgment (validate_rubric's dictionary comprehension).
LEMMA VerdictFacts ==
    ASSUME NEW n \in Nat, NEW js, DOMAIN js = 1..n,
           \A i, k \in 1..n : i # k => js[i].id # js[k].id
    PROVE  /\ DOMAIN Judges!VerdictOf(js) = {js[i].id : i \in 1..n}
           /\ \A i \in 1..n : Judges!VerdictOf(js)[js[i].id] = js[i].verdict
<1>1. DOMAIN Judges!VerdictOf(js) = {js[i].id : i \in 1..n}
  BY DEF Judges!VerdictOf
<1>2. ASSUME NEW i \in 1..n PROVE Judges!VerdictOf(js)[js[i].id] = js[i].verdict
  <2>1. Judges!VerdictOf(js)[js[i].id] =
          (CHOOSE j \in Judges!Range(js) : j.id = js[i].id).verdict
    BY DEF Judges!VerdictOf
  <2>2. js[i] \in Judges!Range(js)
    BY SameCounting
  <2>3. \A j \in Judges!Range(js) : j.id = js[i].id => j = js[i]
    BY SameCounting
  <2>4. (CHOOSE j \in Judges!Range(js) : j.id = js[i].id) = js[i]
    BY <2>2, <2>3
  <2> QED
    BY <2>1, <2>4
<1> QED
  BY <1>1, <1>2

\* A fraction is at least the threshold only if it is not zero.
LEMMA ZeroIsBelow == ~Judges!AtLeast(Judges!Zero, Passing)
BY JudgesAssumption DEF Judges!AtLeast, Judges!Zero, Judges!LevelsAssumption

Records ==
    /\ Judges!consistent_acceptability(kept)
    /\ kept.cost \in 0..1

\* The hybrid judge: a failed call, an unusable rubric and a usable one.
LEMMA HybridJustified ==
    ASSUME JudgedInOrder, judging = "done", judge = "hybrid"
    PROVE  Judges!JudgementIsJustified /\ Records
<1> USE DEF Records, Judges!JudgementIsJustified, Judges!AcceptedIsGrounded,
            Judges!UndecidedIsNotFailed, Judges!AnsweredCallsArePriced
<1>1. /\ Failed(judgeReply) \/ HybridRubric(judgeReply)
      /\ outcome = Judges!hybrid_judge(judgeReply)
      /\ kept = Judges!evaluate_hybrid(deterministic, passed, outcome)
      /\ passed \in BOOLEAN
  BY DEF JudgedInOrder
<1>2. ASSUME NEW fault, NEW usage \in 0..1,
             outcome = Judges!InfrastructureFailure(fault, usage),
             judgeReply.kind \in {"timeout", "provider_error"} \/ usage = judgeReply.charged
      PROVE  Judges!JudgementIsJustified /\ Records
  <2>1. outcome.status = "infrastructure_failure" /\ outcome.usage = usage
    BY <1>2 DEF Judges!InfrastructureFailure
  <2>2. \E why : kept = Judges!Partial(deterministic, outcome, why)
    BY <1>1, <2>1 DEF Judges!evaluate_hybrid
  <2>3. kept.status = "partial" /\ kept.acceptable = "none" /\ kept.call = TRUE /\ kept.cost = usage
    BY <1>2, <2>1, <2>2, PartialRecord
  <2> QED
    BY <1>2, <2>1, <2>3 DEF Judges!consistent_acceptability
<1>3. CASE Failed(judgeReply)
  <2>1. PICK k \in Judges!Unusable, c \in 0..1 : judgeReply = [kind |-> k, charged |-> c]
    BY <1>3 DEF Failed
  <2>2. CASE k \in {"timeout", "provider_error"}
    <3>1. outcome = Judges!InfrastructureFailure(k, 0)
      BY <1>1, <2>1, <2>2 DEF Judges!hybrid_judge
    <3> QED
      BY <1>2, <2>1, <2>2, <3>1
  <2>3. CASE k \notin {"timeout", "provider_error"}
    <3>1. outcome = Judges!InfrastructureFailure(k, c)
      BY <1>1, <2>1, <2>3 DEF Judges!hybrid_judge, Judges!Unusable
    <3> QED
      BY <1>2, <2>1, <3>1
  <2> QED
    BY <2>2, <2>3
<1>4. CASE HybridRubric(judgeReply)
  <2>0. PICK n \in 1..Cardinality(Props), f \in Judges!Findings :
          \E judgments \in [1..n -> Judges!Judgments] :
            judgeReply = [kind |-> "rubric", charged |-> 1,
                          rubric |-> [judgments |-> judgments, findings |-> f]]
    BY <1>4 DEF HybridRubric
  <2>1. PICK js \in [1..n -> Judges!Judgments] :
          judgeReply = [kind |-> "rubric", charged |-> 1,
                        rubric |-> [judgments |-> js, findings |-> f]]
    BY <2>0
  <2>2. /\ judgeReply.kind = "rubric" /\ judgeReply.charged = 1
        /\ judgeReply.rubric.judgments = js /\ judgeReply.rubric.findings = f
        /\ DOMAIN js = 1..n /\ n \in Nat
    BY <2>1
  <2>3. CASE Judges!reject_duplicate_entries(judgeReply.rubric)
    <3>1. outcome = Judges!InfrastructureFailure("invalid_schema", 1)
      BY <1>1, <2>2, <2>3 DEF Judges!hybrid_judge
    <3> QED
      BY <1>2, <2>2, <3>1
  <2>4. CASE /\ ~Judges!reject_duplicate_entries(judgeReply.rubric)
             /\ Judges!validate_rubric(js) # "none"
    <3>1. outcome = Judges!InfrastructureFailure(Judges!validate_rubric(js), 1)
      BY <1>1, <2>2, <2>4 DEF Judges!hybrid_judge
    <3> QED
      BY <1>2, <2>2, <3>1
  <2>5. CASE /\ ~Judges!reject_duplicate_entries(judgeReply.rubric)
             /\ Judges!validate_rubric(js) = "none"
    <3> DEFINE said == Judges!VerdictOf(js)
               coverage == Judges!weighted_coverage(said)
               found == Judges!Range(f)
               score == Judges!HybridScore(passed, "material" \in found, coverage)
    <3>1. outcome = [status |-> "evaluated", rubric |-> judgeReply.rubric, usage |-> 1]
      BY <1>1, <2>2, <2>5 DEF Judges!hybrid_judge
    <3>2. /\ \A i, k \in 1..n : i # k => js[i].id # js[k].id
          /\ {js[i].id : i \in 1..n} = Props
          /\ \A i \in 1..n : Judges!RulePermitted(js[i], said)
      BY <2>2, <2>5 DEF Judges!reject_duplicate_entries, Judges!validate_rubric
    <3>3. /\ DOMAIN said = Props
          /\ \A i \in 1..n : said[js[i].id] = js[i].verdict
      <4>0. n \in Nat /\ DOMAIN js = 1..n /\ \A i, k \in 1..n : i # k => js[i].id # js[k].id
        BY <2>2, <3>2
      <4>1. /\ DOMAIN Judges!VerdictOf(js) = {js[i].id : i \in 1..n}
            /\ \A i \in 1..n : Judges!VerdictOf(js)[js[i].id] = js[i].verdict
        BY ONLY <4>0, VerdictFacts
      <4> QED
        BY <3>2, <4>1
    <3>4. kept = IF coverage = Judges!NoScore \/ "borderline" \in found
                 THEN Judges!Partial(deterministic, outcome, "AMBIGUOUS_SEMANTIC_RESULT")
                 ELSE Judges!Charged([Judges!EvaluationResult("hybrid", "evaluated", score.quality,
                          Judges!Acceptable(score.quality)) EXCEPT !.failure = score.failure], outcome)
      BY <1>1, <2>2, <3>1 DEF Judges!evaluate_hybrid
    <3> DEFINE decided == \A i \in 1..n : js[i].verdict # "AMBIGUOUS"
               entailed == {p \in Props : \E i \in 1..n : js[i].id = p /\ js[i].verdict = "ENTAILED"}
    <3>5. entailed = {p \in DOMAIN said : said[p] = "ENTAILED"}
      BY <3>2, <3>3
    <3>6. /\ decided => coverage = <<Judges!WeightOf(entailed), Judges!WeightOf(Props)>>
          /\ ~decided => coverage = Judges!NoScore
      <4>1. decided <=> ~\E p \in DOMAIN said : said[p] = "AMBIGUOUS"
        BY <3>2, <3>3
      <4>2. Judges!weighted_coverage(said) =
              IF \E p \in DOMAIN said : said[p] = "AMBIGUOUS" THEN Judges!NoScore
              ELSE <<Judges!WeightOf({p \in DOMAIN said : said[p] = "ENTAILED"}),
                     Judges!WeightOf(Props)>>
        BY DEF Judges!weighted_coverage
      <4> HIDE DEF decided, said
      <4> QED
        BY <3>5, <4>1, <4>2, Zenon
    <3>7. decided <=> coverage # Judges!NoScore
      <4>1. <<Judges!WeightOf(entailed), Judges!WeightOf(Props)>> # <<>>
        <5>1. \A a, b : <<a, b>> # <<>>
          OBVIOUS
        <5> QED
          BY <5>1, Zenon
      <4> HIDE DEF decided, coverage, entailed
      <4> QED
        BY <3>6, <4>1, Zenon DEF Judges!NoScore
    <3> HIDE DEF said, coverage, found, score, decided, entailed
    <3>8. CASE ~decided \/ "borderline" \in found
      <4>1. kept = Judges!Partial(deterministic, outcome, "AMBIGUOUS_SEMANTIC_RESULT")
        BY <3>4, <3>7, <3>8
      <4>2. /\ kept.status = "partial" /\ kept.acceptable = "none"
            /\ kept.call = TRUE /\ kept.cost = 1
        <5>1. outcome.usage = 1 /\ outcome.usage \in 0..1
          BY <3>1
        <5> QED
          BY ONLY JudgedInOrder, <4>1, <5>1, PartialRecord, Zenon
      <4>3. Records
        BY <4>2 DEF Judges!consistent_acceptability
      <4>4. Judges!UndecidedIsNotFailed
        BY <2>2, <3>8, <4>2 DEF decided, found
      <4> QED
        BY <2>2, <4>2, <4>3, <4>4
    <3>9. CASE decided /\ "borderline" \notin found
      <4>1. /\ kept.status = "evaluated" /\ kept.quality = score.quality
            /\ kept.acceptable = Judges!Acceptable(score.quality)
            /\ kept.call = TRUE /\ kept.cost = 1
        BY <3>1, <3>4, <3>7, <3>9 DEF Judges!Charged, Judges!EvaluationResult
      <4>2. score.quality = IF passed /\ "material" \notin found THEN coverage ELSE Judges!Zero
        BY DEF score, Judges!HybridScore
      <4>3. f = <<>> <=> "material" \notin found
        <5>1. found = {f[i] : i \in DOMAIN f}
          BY SameCounting DEF found
        <5>2. f = <<>> => found = {}
          BY <5>1
        <5>3. f # <<>> => f[1] \in found /\ f[1] \in {"material", "borderline"}
          BY <5>1 DEF Judges!Findings
        <5> QED
          BY <5>2, <5>3, <3>9
      <4>4. kept.acceptable = "yes" <=>
              /\ passed
              /\ f = <<>>
              /\ Judges!AtLeast(coverage, Passing)
        BY <4>1, <4>2, <4>3, ZeroIsBelow, <1>1 DEF Judges!Acceptable
      <4>5. Judges!AtLeast(coverage, Passing) <=>
              Judges!WeightOf(entailed) * Passing[2] >= Passing[1] * Judges!WeightOf(Props)
        BY <3>6, <3>9 DEF Judges!AtLeast
      <4>6. \A p \in Props : Judges!Cardinality({i \in DOMAIN js : js[i].id = p}) = 1
        <5>1. SUFFICES ASSUME NEW p \in Props
                       PROVE  Cardinality({i \in 1..n : js[i].id = p}) = 1
          BY <2>2, SameCounting
        <5>2. PICK i \in 1..n : js[i].id = p
          BY <3>2
        <5>3. {k \in 1..n : js[k].id = p} = {i}
          BY <3>2, <5>2
        <5> QED
          BY <5>3, FS_Singleton
      <4>7. ASSUME NEW i \in 1..n, js[i].used # Judges!NoRule
            PROVE  /\ js[i].id \in entailed
                   /\ \/ js[i].used \in Equivalences[js[i].id]
                      \/ /\ js[i].used \in DOMAIN Derivations[js[i].id]
                         /\ Derivations[js[i].id][js[i].used].policy # "NOT_ALLOWED"
                         /\ Derivations[js[i].id][js[i].used].requires \subseteq entailed
        <5>1. js[i].id \in Props /\ Judges!RulePermitted(js[i], said)
          BY <3>2
        <5>2. js[i].id \in entailed
          BY <4>7, <5>1 DEF Judges!RulePermitted, entailed
        <5>3. CASE js[i].used \in Equivalences[js[i].id]
          BY <5>2, <5>3
        <5>4. CASE js[i].used \notin Equivalences[js[i].id]
          <6> DEFINE rule == Derivations[js[i].id][js[i].used]
          <6>1. /\ js[i].used \in DOMAIN Derivations[js[i].id]
                /\ rule.policy # "NOT_ALLOWED"
                /\ rule.policy = "CONDITIONAL" =>
                      \A p \in rule.requires : p \in DOMAIN said /\ said[p] = "ENTAILED"
            BY <4>7, <5>1, <5>4 DEF Judges!RulePermitted
          <6>2. (rule.policy = "CONDITIONAL") <=> (rule.requires # {})
            BY <5>1, <6>1, JudgesAssumption DEF Judges!SpecificationIsValid
          <6>3. rule.requires \subseteq entailed
            BY <3>5, <6>1, <6>2
          <6> QED
            BY <5>2, <6>1, <6>3
        <5> QED
          BY <5>3, <5>4
      <4>8. kept.acceptable = "yes" <=> Judges!GroundedHybrid
        <5> DEFINE From(xs) == {p \in Props : \E i \in DOMAIN xs :
                                   xs[i].id = p /\ xs[i].verdict = "ENTAILED"}
                   Grounded(xs, fs) ==
                      /\ passed /\ fs = <<>>
                      /\ \A p \in Props : Judges!Cardinality({i \in DOMAIN xs : xs[i].id = p}) = 1
                      /\ \A i \in DOMAIN xs :
                            /\ xs[i].verdict # "AMBIGUOUS"
                            /\ xs[i].used # Judges!NoRule =>
                                  /\ xs[i].id \in From(xs)
                                  /\ \/ xs[i].used \in Equivalences[xs[i].id]
                                     \/ /\ xs[i].used \in DOMAIN Derivations[xs[i].id]
                                        /\ Derivations[xs[i].id][xs[i].used].policy # "NOT_ALLOWED"
                                        /\ Derivations[xs[i].id][xs[i].used].requires \subseteq From(xs)
                      /\ Judges!WeightOf(From(xs)) * Passing[2] >= Passing[1] * Judges!WeightOf(Props)
        <5>1. DOMAIN js = 1..n
          BY <2>2
        <5>2. Judges!GroundedHybrid <=> Grounded(judgeReply.rubric.judgments, judgeReply.rubric.findings)
          BY Zenon DEF Judges!GroundedHybrid
        <5>3. From(js) = entailed
          BY <5>1 DEF entailed
        <5> HIDE DEF From
        <5>4. Judges!GroundedHybrid <=> Grounded(js, f)
          <6> HIDE DEF Grounded
          <6> QED
            BY <2>2, <5>2
        <5>5. \A i \in 1..n : js[i].verdict # "AMBIGUOUS"
          BY <3>9 DEF decided
        <5> QED
          BY <4>4, <4>5, <4>6, <4>7, <5>1, <5>3, <5>4, <5>5, Zenon
      <4>9. score.quality # Judges!NoScore
        BY <3>7, <3>9, <4>2 DEF Judges!Zero, Judges!NoScore
      <4>10. Records
        BY <4>1, <4>9 DEF Judges!consistent_acceptability
      <4>11. Judges!UndecidedIsNotFailed
        BY <2>2, <3>1, <3>9, <4>1 DEF decided, found
      <4> QED
        BY <2>2, <4>1, <4>8, <4>10, <4>11
    <3> QED
      BY <3>8, <3>9
  <2> QED
    BY <2>3, <2>4, <2>5
<1> QED
  BY <1>1, <1>3, <1>4

\* Products with a positive common factor order as what they multiply.
LEMMA Cancel ==
    ASSUME NEW x \in Int, NEW y \in Int, NEW z \in Nat \ {0}, x * z >= y * z
    PROVE  x >= y
<1> SUFFICES ASSUME x < y PROVE FALSE
  OBVIOUS
<1>1. x * z < y * z
  OBVIOUS
<1> QED
  BY <1>1

\* Being at least is transitive on fractions.
LEMMA AtLeastTransitive ==
    ASSUME NEW a \in Nat \X (Nat \ {0}), NEW b \in Nat \X (Nat \ {0}), NEW c \in Nat \X (Nat \ {0}),
           Judges!AtLeast(a, b), Judges!AtLeast(b, c)
    PROVE  Judges!AtLeast(a, c)
<1> USE DEF Judges!AtLeast
<1> DEFINE a1 == a[1]  a2 == a[2]  b1 == b[1]  b2 == b[2]  c1 == c[1]  c2 == c[2]
<1>1. /\ a1 \in Nat /\ a2 \in Nat \ {0} /\ b1 \in Nat /\ b2 \in Nat \ {0}
      /\ c1 \in Nat /\ c2 \in Nat \ {0}
  OBVIOUS
<1>2. a1 * b2 >= b1 * a2 /\ b1 * c2 >= c1 * b2
  OBVIOUS
<1> HIDE DEF a1, a2, b1, b2, c1, c2
<1>3. (a1 * b2) * c2 >= (b1 * a2) * c2
  BY <1>1, <1>2
<1>4. (b1 * c2) * a2 >= (c1 * b2) * a2
  BY <1>1, <1>2
<1>5. /\ (a1 * b2) * c2 = (a1 * c2) * b2 /\ (b1 * a2) * c2 = (b1 * c2) * a2
      /\ (c1 * b2) * a2 = (c1 * a2) * b2
  BY <1>1
<1>6. (a1 * c2) * b2 >= (c1 * a2) * b2
  BY <1>1, <1>3, <1>4, <1>5
<1>7. a1 * c2 \in Int /\ c1 * a2 \in Int
  BY <1>1
<1>8. a1 * c2 >= c1 * a2
  BY <1>1, <1>6, <1>7, Cancel
<1> QED
  BY <1>8 DEF a1, a2, c1, c2

\* The lower of two scores reaches the threshold when both do; then so does
\* their average with a full score.
LEMMA LowerReaches ==
    ASSUME NEW a \in Grades, NEW b \in Grades
    PROVE  Judges!AtLeast(Judges!Lower(a, b), Passing) <=>
               Judges!AtLeast(a, Passing) /\ Judges!AtLeast(b, Passing)
<1>1. /\ a \in Nat \X (Nat \ {0}) /\ b \in Nat \X (Nat \ {0})
      /\ Passing \in Nat \X (Nat \ {0})
  BY JudgesAssumption DEF Judges!LevelsAssumption
<1>2. Judges!AtLeast(a, b) \/ Judges!AtLeast(b, a)
  BY <1>1 DEF Judges!AtLeast
<1>3. CASE Judges!AtLeast(a, b)
  BY <1>1, <1>3, AtLeastTransitive DEF Judges!Lower
<1>4. CASE ~Judges!AtLeast(a, b)
  BY <1>1, <1>2, <1>4, AtLeastTransitive DEF Judges!Lower
<1> QED
  BY <1>3, <1>4

LEMMA MeanReachesToo ==
    ASSUME NEW a \in Grades, NEW b \in Grades,
           Judges!AtLeast(a, Passing), Judges!AtLeast(b, Passing)
    PROVE  Judges!AtLeast(Judges!Mean(a, b), Passing)
<1> DEFINE a1 == a[1]  a2 == a[2]  b1 == b[1]  b2 == b[2]  t1 == Passing[1]  t2 == Passing[2]
<1>1. /\ a1 \in Nat /\ a2 \in Nat \ {0} /\ b1 \in Nat /\ b2 \in Nat \ {0}
      /\ t1 \in Nat /\ t2 \in Nat \ {0} /\ t1 <= t2
  BY JudgesAssumption DEF Judges!LevelsAssumption
<1>2. a1 * t2 >= t1 * a2 /\ b1 * t2 >= t1 * b2
  BY DEF Judges!AtLeast
<1> DEFINE top == a1 * b2 + b1 * a2 + a2 * b2  bottom == 3 * a2 * b2
<1>3. Judges!Mean(a, b)[1] = top /\ Judges!Mean(a, b)[2] = bottom
  BY DEF Judges!Mean
<1> HIDE DEF a1, a2, b1, b2, t1, t2
<1>4. (a1 * t2) * b2 >= (t1 * a2) * b2
  BY <1>1, <1>2
<1>5. (b1 * t2) * a2 >= (t1 * b2) * a2
  BY <1>1, <1>2
<1>6. t2 * (a2 * b2) >= t1 * (a2 * b2)
  <2>1. a2 * b2 \in Nat
    BY <1>1
  <2> QED
    BY <1>1, <2>1
<1>7. top * t2 = (a1 * t2) * b2 + (b1 * t2) * a2 + t2 * (a2 * b2)
  BY <1>1
<1>8. t1 * bottom = (t1 * a2) * b2 + (t1 * b2) * a2 + t1 * (a2 * b2)
  BY <1>1
<1>9. top * t2 >= t1 * bottom
  <2>1. /\ (a1 * t2) * b2 \in Int /\ (t1 * a2) * b2 \in Int /\ (b1 * t2) * a2 \in Int
        /\ (t1 * b2) * a2 \in Int /\ t2 * (a2 * b2) \in Int /\ t1 * (a2 * b2) \in Int
    BY <1>1
  <2> HIDE DEF top, bottom
  <2> QED
    BY <1>4, <1>5, <1>6, <1>7, <1>8, <2>1
<1> QED
  BY <1>3, <1>9 DEF Judges!AtLeast, t1, t2

\* The flat judge: a failed call leaves the pending record, a rubric decides.
LEMMA SemanticJustified ==
    ASSUME JudgedInOrder, judging = "done", judge = "semantic"
    PROVE  Judges!JudgementIsJustified /\ Records
<1> USE DEF Records, Judges!JudgementIsJustified, Judges!AcceptedIsGrounded,
            Judges!UndecidedIsNotFailed, Judges!AnsweredCallsArePriced
<1>1. /\ Failed(judgeReply) \/ FlatRubric(judgeReply)
      /\ outcome = Judges!semantic_judge(judgeReply)
      /\ kept = Judges!evaluate_semantic(deterministic, passed, outcome)
      /\ passed \in BOOLEAN
      /\ deterministic.status = "requires_semantic_judge" /\ deterministic.acceptable = "none"
  BY DEF JudgedInOrder, Judges!Pending, Judges!EvaluationResult
<1>2. CASE Failed(judgeReply)
  <2>1. PICK k \in Judges!Unusable, c \in 0..1 : judgeReply = [kind |-> k, charged |-> c]
    BY <1>2 DEF Failed
  <2>2. /\ judgeReply.kind = k /\ judgeReply.charged = c /\ k # "rubric"
        /\ outcome.status = "infrastructure_failure"
        /\ outcome.usage = IF k \in {"timeout", "provider_error"} THEN 0 ELSE c
    BY <1>1, <2>1 DEF Judges!semantic_judge, Judges!Unusable, Judges!InfrastructureFailure
  <2>3. kept = Judges!Charged(deterministic, outcome)
    BY <1>1, <2>2 DEF Judges!evaluate_semantic
  <2>4. /\ kept.status = "requires_semantic_judge" /\ kept.acceptable = "none"
        /\ kept.call = TRUE /\ kept.cost = outcome.usage
    BY <2>3 DEF JudgedInOrder, Judges!Charged, Judges!Pending, Judges!EvaluationResult
  <2> QED
    BY <2>2, <2>4 DEF Judges!consistent_acceptability
<1>3. CASE FlatRubric(judgeReply)
  <2>1. PICK a \in Grades, b \in Grades, e \in BOOLEAN :
          judgeReply = [kind |-> "rubric", charged |-> 1,
                        rubric |-> [coverage |-> a, compliance |-> b, errors |-> e]]
    BY <1>3 DEF FlatRubric
  <2>2. /\ judgeReply.kind = "rubric" /\ judgeReply.charged = 1
        /\ judgeReply.rubric.coverage = a /\ judgeReply.rubric.compliance = b
        /\ judgeReply.rubric.errors = e
    BY <2>1
  <2>3. /\ outcome.status = "evaluated" /\ outcome.usage = 1
        /\ outcome.rubric = judgeReply.rubric
    BY <1>1, <2>2 DEF Judges!semantic_judge
  <2> DEFINE quality == IF passed /\ ~e THEN Judges!Lower(a, b) ELSE Judges!Zero
  <2>4. kept = Judges!Charged(Judges!EvaluationResult("semantic", "evaluated", quality,
                                   Judges!Acceptable(quality)), outcome)
    BY <1>1, <2>2, <2>3 DEF Judges!evaluate_semantic
  <2>5. quality # Judges!NoScore
    <3>1. a \in Nat \X (Nat \ {0}) /\ b \in Nat \X (Nat \ {0})
      BY JudgesAssumption DEF Judges!LevelsAssumption
    <3>2. quality \in {a, b, Judges!Zero}
      BY DEF Judges!Lower
    <3> QED
      BY <3>1, <3>2 DEF Judges!Zero, Judges!NoScore
  <2>6. /\ Judges!AtLeast(quality, Passing) => Judges!Flawless /\ Judges!MeanReaches
        /\ Judges!Flawless /\ Judges!BothReach => Judges!AtLeast(quality, Passing)
    BY <1>1, <2>2, LowerReaches, MeanReachesToo, ZeroIsBelow
    DEF Judges!Flawless, Judges!MeanReaches, Judges!BothReach
  <2> HIDE DEF quality
  <2>7. /\ kept.status = "evaluated" /\ kept.quality = quality
        /\ kept.acceptable = Judges!Acceptable(quality)
        /\ kept.call = TRUE /\ kept.cost = 1
    BY <2>3, <2>4 DEF Judges!Charged, Judges!EvaluationResult
  <2>8. /\ kept.acceptable = "yes" => Judges!Flawless /\ Judges!MeanReaches
        /\ Judges!Flawless /\ Judges!BothReach => kept.acceptable = "yes"
    BY <2>6, <2>7 DEF Judges!Acceptable
  <2> QED
    BY <2>2, <2>3, <2>5, <2>7, <2>8 DEF Judges!consistent_acceptability
<1> QED
  BY <1>1, <1>2, <1>3

\* Before a record is kept nothing is claimed of it.
LEMMA PendingJustified ==
    ASSUME JudgedInOrder, judging # "done"
    PROVE  Judges!JudgementIsJustified /\ Records
BY DEF JudgedInOrder, Judges!JudgementIsJustified, Judges!AcceptedIsGrounded,
       Judges!UndecidedIsNotFailed, Judges!AnsweredCallsArePriced, Records,
       Judges!consistent_acceptability, Judges!Pending, Judges!EvaluationResult

\* For every specification, threshold and reply: a summary is accepted exactly
\* when the raw reply grounds it, only a usable rubric without doubt decides, and
\* an answer that arrived is paid for (evaluation/hybrid_judge.py,
\* evaluation/judge.py, evaluation/service.py).
THEOREM JudgementIsAlwaysJustified == PartsSpec => []JudgementIsJustified
<1>1. JudgedInOrder => JudgementIsJustified
  BY HybridJustified, SemanticJustified, PendingJustified DEF JudgedInOrder, JudgementIsJustified
<1> QED
  BY <1>1, JudgesHold, PTL

\* The type invariants of the components: in particular a task is in at most one
\* fold, every record that is kept is one EvaluationResult's validator accepts, and
\* no dry run goes past a file it refused.
THEOREM PartsAreTyped == PartsSpec => []PartsTypeOK
<1>1. JudgedInOrder => Judges!TypeOK
  <2> SUFFICES ASSUME JudgedInOrder PROVE Judges!TypeOK
    OBVIOUS
  <2>1. Records
    BY HybridJustified, SemanticJustified, PendingJustified DEF JudgedInOrder
  <2>2. Judges!consistent_acceptability(deterministic)
    BY DEF JudgedInOrder, Judges!consistent_acceptability, Judges!Pending, Judges!EvaluationResult
  <2> QED
    BY <2>1, <2>2 DEF JudgedInOrder, Judges!TypeOK, Records
<1>2. PilotInv => Pilot!TypeOK
  BY DEF PilotInv
<1>3. (/\ Dealing!TypeOK /\ Artifact!TypeOK /\ Gates!TypeOK
       /\ PilotInv /\ JudgedInOrder) => PartsTypeOK
  BY <1>1, <1>2, Zenon DEF PartsTypeOK
<1> QED
  BY <1>3, StudiesAreTyped, PaidCommandsAreGated, PilotHolds, JudgesHold, PTL

-----------------------------------------------------------------------------
(* The evaluators of JSON.                                                 *)

\* A flattened document is a dictionary: one value at a path.
OnePerPath(s) == \A x, y \in s : x.path = y.path => x = y

\* How many paths match is bounded by the size of either dictionary, and is the
\* size of both only when each value of either is matched.
LEMMA MatchingBounds ==
    ASSUME NEW e, IsFiniteSet(e), OnePerPath(e), NEW p, IsFiniteSet(p), OnePerPath(p),
           NEW R \in SUBSET (e \X p), \A r \in R : r[1].path = r[2].path
    PROVE  LET M == {x \in e : \E y \in p : <<x, y>> \in R}
           IN  /\ Cardinality(M) \in Nat
               /\ Cardinality(M) <= Cardinality(e) /\ Cardinality(M) <= Cardinality(p)
               /\ (Cardinality(M) = Cardinality(e) /\ Cardinality(M) = Cardinality(p)) <=>
                     /\ \A x \in e : \E y \in p : <<x, y>> \in R
                     /\ \A y \in p : \E x \in e : <<x, y>> \in R
<1> DEFINE M == {x \in e : \E y \in p : <<x, y>> \in R}
           f == [x \in M |-> CHOOSE y \in p : <<x, y>> \in R]
<1>1. /\ IsFiniteSet(M) /\ Cardinality(M) <= Cardinality(e)
      /\ Cardinality(M) = Cardinality(e) <=> M = e
  <2>1. M \in SUBSET e
    OBVIOUS
  <2> HIDE DEF M
  <2> QED
    BY <2>1, FS_Subset
<1>2. \A x \in M : f[x] \in p /\ <<x, f[x]>> \in R /\ x.path = f[x].path
  <2>1. SUFFICES ASSUME NEW x \in M
                 PROVE  f[x] \in p /\ <<x, f[x]>> \in R /\ x.path = f[x].path
    OBVIOUS
  <2>2. f[x] \in p /\ <<x, f[x]>> \in R
    OBVIOUS
  <2> HIDE DEF f
  <2>3. <<x, f[x]>>[1] = x /\ <<x, f[x]>>[2] = f[x]
    OBVIOUS
  <2> QED
    BY <2>2, <2>3
<1>3. f \in [M -> p]
  BY <1>2
<1> HIDE DEF f
<1>4. f \in Injection(M, p)
  <2>1. ASSUME NEW x \in M, NEW y \in M, f[x] = f[y] PROVE x = y
    <3>1. x.path = y.path /\ x \in e /\ y \in e
      BY <1>2, <2>1
    <3> QED
      BY <3>1 DEF OnePerPath
  <2> QED
    BY <1>3, <2>1 DEF Injection, IsInjective
<1>5. /\ Cardinality(M) <= Cardinality(p)
      /\ Cardinality(M) = Cardinality(p) <=> f \in Surjection(M, p)
  BY <1>4, FS_Injection
<1>6. f \in Surjection(M, p) <=> \A y \in p : \E x \in M : f[x] = y
  BY <1>3 DEF Surjection
<1>7. \A y \in p : (\E x \in M : f[x] = y) <=> \E x \in e : <<x, y>> \in R
  <2>1. SUFFICES ASSUME NEW y \in p, NEW x \in e, <<x, y>> \in R PROVE f[x] = y /\ x \in M
    BY <1>2
  <2>2. x \in M
    BY <2>1
  <2>3. <<x, y>>[1].path = <<x, y>>[2].path
    BY <2>1
  <2>4. x.path = y.path
    BY <2>3
  <2>5. f[x].path = y.path /\ f[x] \in p
    BY <1>2, <2>2, <2>4
  <2> QED
    BY <2>2, <2>5 DEF OnePerPath
<1>8. M = e <=> \A x \in e : \E y \in p : <<x, y>> \in R
  OBVIOUS
<1>9. Cardinality(M) \in Nat
  BY <1>1, FS_CardinalityType
<1> QED
  BY <1>1, <1>5, <1>6, <1>7, <1>8, <1>9, Zenon

\* The mean of three proper fractions, the first of them one: it is full only if
\* the other two are.
LEMMA MeanOfThree ==
    ASSUME NEW a \in Nat, NEW b \in Nat \ {0}, NEW c \in Nat, NEW d \in Nat \ {0}, a <= b, c <= d
    PROVE  LET top == b * d + a * d + c * b
               bottom == 3 * b * d
           IN  /\ bottom > 0 /\ top \in 0..bottom
               /\ top = bottom <=> a = b /\ c = d
<1>1. /\ b * d \in Nat /\ a * d \in Nat /\ c * b \in Nat /\ b * d > 0 /\ d * b = b * d
  OBVIOUS
<1>2. a * d <= b * d /\ (a < b => a * d < b * d)
  OBVIOUS
<1>3. c * b <= d * b /\ (c < d => c * b < d * b)
  OBVIOUS
<1>4. 3 * b * d = b * d + b * d + b * d
  OBVIOUS
<1> DEFINE u == b * d  v == a * d  w == c * b
<1>5. /\ u \in Nat /\ v \in Nat /\ w \in Nat /\ u > 0 /\ v <= u /\ w <= u
      /\ (a < b => v < u) /\ (c < d => w < u) /\ 3 * b * d = u + u + u
      /\ (a = b => v = u) /\ (c = d => w = u)
  BY <1>1, <1>2, <1>3, <1>4
<1> HIDE DEF u, v, w
<1>6. LET top == u + v + w
          bottom == u + u + u
      IN  /\ bottom > 0 /\ top \in 0..bottom
          /\ top = bottom <=> a = b /\ c = d
  BY <1>5
<1> QED
  BY <1>5, <1>6 DEF u, v, w

\* What the counts alone say of both scores.
LEMMA CountsDecide ==
    ASSUME NEW m \in Nat, NEW t \in Nat, NEW E \in Nat, NEW P \in Nat,
           m <= t, t <= E, t <= P
    PROVE  LET x == Scoring!_f1(m, E, P)
               s == Scoring!_f1(t, E, P)
               v == IF E = 0 THEN <<IF P = 0 THEN 1 ELSE 0, 1>> ELSE <<m, E>>
           IN  /\ x[2] > 0 /\ x[1] \in 0..x[2]
               /\ x[1] = x[2] <=> m = E /\ m = P
               /\ s[1] \in Nat /\ s[2] \in Nat \ {0} /\ s[1] <= s[2]
               /\ v[1] \in Nat /\ v[2] \in Nat \ {0} /\ v[1] <= v[2]
               /\ (s[1] = s[2] /\ v[1] = v[2]) <=> m = E /\ m = P
<1>1. CASE E = 0 /\ P = 0
  BY <1>1 DEF Scoring!_f1
<1>2. CASE ~(E = 0 /\ P = 0)
  BY <1>2 DEF Scoring!_f1
<1> QED
  BY <1>1, <1>2

\* Both scores of two flattened documents are proper fractions, and full exactly
\* when the documents correspond (ExtractionEvaluator.score, JSONEvaluator.score).
LEMMA ScoreFacts ==
    ASSUME NEW e, IsFiniteSet(e), OnePerPath(e), NEW p, IsFiniteSet(p), OnePerPath(p)
    PROVE  \A s \in {Scoring!ExtractionScore(e, p), Scoring!JSONScore(e, p)} :
               /\ s[2] > 0 /\ s[1] \in 0..s[2]
               /\ s[1] = s[2] <=> Scoring!Correspond(e, p)
<1> DEFINE M == {x \in e : \E y \in p : x.path = y.path /\ Scoring!_json_equal(x, y)}
           T == {x \in e : \E y \in p : x.path = y.path /\ Scoring!SameType(x, y)}
           m == Cardinality(M)
           t == Cardinality(T)
           E == Cardinality(e)
           P == Cardinality(p)
<1>1. /\ m \in Nat /\ m <= E /\ m <= P
      /\ (m = E /\ m = P) <=> Scoring!Correspond(e, p)
  <2> DEFINE R == {r \in e \X p : r[1].path = r[2].path /\ Scoring!_json_equal(r[1], r[2])}
  <2>1. R \in SUBSET (e \X p) /\ \A r \in R : r[1].path = r[2].path
    OBVIOUS
  <2>2. \A x \in e, y \in p :
          <<x, y>> \in R <=> x.path = y.path /\ Scoring!_json_equal(x, y)
    OBVIOUS
  <2> HIDE DEF R
  <2>3. M = {x \in e : \E y \in p : <<x, y>> \in R}
    BY <2>2
  <2>4. Scoring!Correspond(e, p) <=>
          /\ \A x \in e : \E y \in p : <<x, y>> \in R
          /\ \A y \in p : \E x \in e : <<x, y>> \in R
    BY <2>2 DEF Scoring!Correspond
  <2>5. LET A == {x \in e : \E y \in p : <<x, y>> \in R}
        IN  /\ Cardinality(A) \in Nat
            /\ Cardinality(A) <= Cardinality(e) /\ Cardinality(A) <= Cardinality(p)
            /\ (Cardinality(A) = Cardinality(e) /\ Cardinality(A) = Cardinality(p)) <=>
                  /\ \A x \in e : \E y \in p : <<x, y>> \in R
                  /\ \A y \in p : \E x \in e : <<x, y>> \in R
    BY <2>1, MatchingBounds
  <2> HIDE DEF M
  <2> QED
    BY <2>3, <2>4, <2>5, Zenon
<1>2. t \in Nat /\ t <= E /\ t <= P
  <2> DEFINE R == {r \in e \X p : r[1].path = r[2].path /\ Scoring!SameType(r[1], r[2])}
  <2>1. R \in SUBSET (e \X p) /\ \A r \in R : r[1].path = r[2].path
    OBVIOUS
  <2>2. \A x \in e, y \in p :
          <<x, y>> \in R <=> x.path = y.path /\ Scoring!SameType(x, y)
    OBVIOUS
  <2> HIDE DEF R
  <2>3. T = {x \in e : \E y \in p : <<x, y>> \in R}
    BY <2>2
  <2> HIDE DEF T
  <2> QED
    BY <2>1, <2>3, MatchingBounds
<1>3. m <= t
  <2>1. M \in SUBSET T
    BY DEF Scoring!SameType, Scoring!_json_equal
  <2>2. IsFiniteSet(T)
    <3>1. T \in SUBSET e
      OBVIOUS
    <3> HIDE DEF T
    <3> QED
      BY <3>1, FS_Subset
  <2> HIDE DEF M, T
  <2> QED
    BY <2>1, <2>2, FS_Subset
<1>4. /\ E \in Nat /\ P \in Nat /\ (E = 0 <=> e = {}) /\ (P = 0 <=> p = {})
  BY FS_CardinalityType, FS_EmptySet
<1> DEFINE s == Scoring!_f1(t, E, P)
           v == IF E = 0 THEN <<IF P = 0 THEN 1 ELSE 0, 1>> ELSE <<m, E>>
<1>5. Scoring!ExtractionScore(e, p) = Scoring!_f1(m, E, P)
  BY SameCounting DEF Scoring!ExtractionScore, Scoring!Matching
<1>6. Scoring!ValueScore(e, p) = v
  BY <1>4, SameCounting DEF Scoring!ValueScore, Scoring!Matching
<1>7. Scoring!JSONScore(e, p) =
        <<s[2] * v[2] + s[1] * v[2] + v[1] * s[2], 3 * s[2] * v[2]>>
  BY <1>6, SameCounting DEF Scoring!JSONScore, Scoring!Matching
<1> HIDE DEF M, T, m, t, E, P
<1>8. LET x == Scoring!_f1(m, E, P)
      IN  /\ x[2] > 0 /\ x[1] \in 0..x[2]
          /\ x[1] = x[2] <=> m = E /\ m = P
          /\ s[1] \in Nat /\ s[2] \in Nat \ {0} /\ s[1] <= s[2]
          /\ v[1] \in Nat /\ v[2] \in Nat \ {0} /\ v[1] <= v[2]
          /\ (s[1] = s[2] /\ v[1] = v[2]) <=> m = E /\ m = P
  BY <1>1, <1>2, <1>3, <1>4, CountsDecide
<1> HIDE DEF s, v
<1>9. LET top == s[2] * v[2] + s[1] * v[2] + v[1] * s[2]
          bottom == 3 * s[2] * v[2]
      IN  /\ bottom > 0 /\ top \in 0..bottom
          /\ top = bottom <=> s[1] = s[2] /\ v[1] = v[2]
  BY <1>8, MeanOfThree
<1>10. LET x == Scoring!ExtractionScore(e, p)
       IN  x[2] > 0 /\ x[1] \in 0..x[2] /\ (x[1] = x[2] <=> Scoring!Correspond(e, p))
  BY <1>1, <1>5, <1>8
<1>11. LET x == Scoring!JSONScore(e, p)
       IN  x[2] > 0 /\ x[1] \in 0..x[2] /\ (x[1] = x[2] <=> Scoring!Correspond(e, p))
  BY <1>1, <1>7, <1>8, <1>9
<1> QED
  BY <1>10, <1>11

\* What is left of F's sets when each overwrites what an earlier one had at its paths.
Left(F, n) ==
    UNION {{x \in F[i] : \A j \in 1..n : j > i => \A y \in F[j] : y.path # x.path} : i \in 1..n}

\* Of children flattened in order, each overwriting what an earlier one had at its
\* paths, a finite dictionary is left; nothing is lost where no two share a path.
LEMMA Overwriting ==
    ASSUME NEW n \in Nat, NEW F, \A i \in 1..n : IsFiniteSet(F[i]) /\ OnePerPath(F[i])
    PROVE  /\ IsFiniteSet(Left(F, n)) /\ OnePerPath(Left(F, n))
           /\ (\A i, j \in 1..n : i # j => \A x \in F[i], y \in F[j] : x.path # y.path) =>
                 Left(F, n) = UNION {F[i] : i \in 1..n}
<1> DEFINE left(i) == {x \in F[i] : \A j \in 1..n : j > i => \A y \in F[j] : y.path # x.path}
           G == [i \in 1..n |-> left(i)]
           T == {left(i) : i \in 1..n}
           U == UNION T
<1>1. IsFiniteSet(U)
  <2>1. \A i \in 1..n : IsFiniteSet(left(i))
    <3>1. SUFFICES ASSUME NEW i \in 1..n PROVE IsFiniteSet(left(i))
      OBVIOUS
    <3>2. left(i) \in SUBSET F[i]
      OBVIOUS
    <3> HIDE DEF left
    <3> QED
      BY <3>2, FS_Subset
  <2>2. G \in Surjection(1..n, T)
    <3> HIDE DEF left
    <3> QED
      BY DEF Surjection
  <2>3. IsFiniteSet(1..n)
    BY FS_Interval
  <2>4. \A t \in T : IsFiniteSet(t)
    BY <2>1
  <2> HIDE DEF G, T
  <2>5. IsFiniteSet(T)
    BY <2>2, <2>3, FS_Surjection
  <2> QED
    BY <2>4, <2>5, FS_UNION
<1>2. OnePerPath(U)
  <2>1. SUFFICES ASSUME NEW x \in U, NEW y \in U, x.path = y.path PROVE x = y
    BY DEF OnePerPath
  <2>2. PICK i \in 1..n : x \in left(i)
    OBVIOUS
  <2>3. PICK j \in 1..n : y \in left(j)
    OBVIOUS
  <2>4. ~(i < j) /\ ~(j < i)
    BY <2>1, <2>2, <2>3
  <2>5. i = j
    BY <2>4
  <2> QED
    BY <2>1, <2>2, <2>3, <2>5 DEF OnePerPath
<1>3. (\A i, j \in 1..n : i # j => \A x \in F[i], y \in F[j] : x.path # y.path) =>
          \A i \in 1..n : left(i) = F[i]
  <2>1. SUFFICES ASSUME \A i, j \in 1..n : i # j => \A x \in F[i], y \in F[j] : x.path # y.path,
                        NEW i \in 1..n, NEW x \in F[i], NEW j \in 1..n, j > i, NEW y \in F[j]
                 PROVE  y.path # x.path
    OBVIOUS
  <2> QED
    BY <2>1
<1>4. (\A i \in 1..n : left(i) = F[i]) => U = UNION {F[i] : i \in 1..n}
  <2> HIDE DEF left
  <2> QED
    OBVIOUS
<1>5. U = Left(F, n)
  BY DEF Left
<1> QED
  BY <1>1, <1>2, <1>3, <1>4, <1>5, Zenon

\* An entry of a flattened document.
Entry(path, d) == [path |-> path, type |-> d.type, value |-> d.value]

\* The path of key l within the object at key k.
Below(k, l) == k \o l

\* Keys without "." and "[" are their only segment.
PlainKeys == {k \in Keys : Len(k) = 1}

\* Distinct plain keys make distinct paths.
LEMMA PathFacts ==
    ASSUME NEW k \in PlainKeys
    PROVE  /\ k # <<>> /\ <<>> \o k = k
           /\ \A j \in PlainKeys : k[1] = j[1] => k = j
           /\ \A l \in PlainKeys :
                 /\ Below(k, l) # <<>> /\ Below(k, l)[1] = k[1]
                 /\ \A j \in PlainKeys : Below(k, l) # j
                 /\ \A j, m \in PlainKeys : Below(k, l) = Below(j, m) => k = j /\ l = m
<1>1. \A j \in PlainKeys : j \in Seq(Segments) /\ Len(j) = 1
  BY ScoringAssumption DEF Scoring!DocumentsAssumption, PlainKeys
<1>2. \A j \in PlainKeys : j = <<j[1]>> /\ j # <<>>
  BY <1>1
<1>3. \A j, l \in PlainKeys : /\ Len(Below(j, l)) = 2
                              /\ Below(j, l)[1] = j[1] /\ Below(j, l)[2] = l[1]
  <2>1. SUFFICES ASSUME NEW j \in PlainKeys, NEW l \in PlainKeys
                 PROVE  Len(j \o l) = 2 /\ (j \o l)[1] = j[1] /\ (j \o l)[2] = l[1]
    BY DEF Below
  <2> QED
    BY <1>1, ConcatProperties
<1>4. <<>> \o k = k
  BY <1>1, ConcatEmptySeq
<1>5. Len(<<>>) = 0
  OBVIOUS
<1> QED
  BY <1>1, <1>2, <1>3, <1>4, <1>5

Children == Scoring!Scalars \cup Scoring!Inner

\* An object's keys are in some order, each once, and its fields are theirs.
Shaped(d, children) ==
    /\ d.kind = "node" /\ d.keys \in [1..Len(d.keys) -> Keys]
    /\ Len(d.keys) \in Nat
    /\ \A i, j \in 1..Len(d.keys) : d.keys[i] = d.keys[j] => i = j
    /\ DOMAIN d.fields = {d.keys[i] : i \in 1..Len(d.keys)}
    /\ DOMAIN d.fields \subseteq Keys
    /\ \A k \in DOMAIN d.fields : d.fields[k] \in children

LEMMA ObjectShape ==
    \A orders \in SUBSET (KeyLists \cup InnerLists) : \A children :
        \A d \in Scoring!Objects(orders, children) : Shaped(d, children)
<1> SUFFICES ASSUME NEW orders \in SUBSET (KeyLists \cup InnerLists), NEW children,
                    NEW d \in Scoring!Objects(orders, children)
             PROVE  Shaped(d, children)
  OBVIOUS
<1>1. PICK ks \in orders : \E g \in [Scoring!Range(ks) -> children] : d = Scoring!Node(ks, g)
  BY DEF Scoring!Objects
<1>2. PICK f \in [Scoring!Range(ks) -> children] : d = Scoring!Node(ks, f)
  BY <1>1
<1>3. d.kind = "node" /\ d.keys = ks /\ d.fields = f
  BY <1>2 DEF Scoring!Node
<1>4. ks \in Seq(Keys) /\ Scoring!IsInjective(ks)
  BY ScoringAssumption DEF Scoring!DocumentsAssumption
<1>5. ks \in [1..Len(ks) -> Keys] /\ DOMAIN ks = 1..Len(ks) /\ Len(ks) \in Nat
  BY <1>4
<1>6. Scoring!Range(ks) = {ks[i] : i \in 1..Len(ks)}
  BY <1>5 DEF Scoring!Range
<1>7. \A i, j \in 1..Len(ks) : ks[i] = ks[j] => i = j
  BY <1>4, <1>5 DEF Scoring!IsInjective
<1> QED
  BY <1>2, <1>3, <1>4, <1>5, <1>6, <1>7 DEF Shaped

\* What documents are made of.
LEMMA DocumentShape ==
    /\ \A d \in Scoring!Scalars : d.kind = "leaf"
    /\ \A d \in Children :
          \/ d.kind = "leaf"
          \/ /\ d.kind = "node" /\ DOMAIN d.fields \subseteq Keys
             /\ d \in Scoring!Inner
    /\ \A d \in Scoring!Documents :
          \/ d.kind = "leaf"
          \/ /\ d.kind = "node" /\ DOMAIN d.fields \subseteq Keys
             /\ \A k \in DOMAIN d.fields : d.fields[k] \in Children
             /\ d \in Scoring!Objects(KeyLists, Children)
<1>1. \A d \in Scoring!Scalars : d.kind = "leaf"
  BY DEF Scoring!Scalars, Scoring!Leaf
<1>2. KeyLists \in SUBSET (KeyLists \cup InnerLists) /\ InnerLists \in SUBSET (KeyLists \cup InnerLists)
  OBVIOUS
<1>3. ASSUME NEW d \in Scoring!Inner PROVE d.kind = "node" /\ DOMAIN d.fields \subseteq Keys
  <2>1. Shaped(d, Scoring!Scalars)
    BY <1>2, <1>3, ObjectShape, Zenon DEF Scoring!Inner
  <2> QED
    BY <2>1 DEF Shaped
<1>4. ASSUME NEW d \in Scoring!Objects(KeyLists, Children)
      PROVE  /\ d.kind = "node" /\ DOMAIN d.fields \subseteq Keys
             /\ \A k \in DOMAIN d.fields : d.fields[k] \in Children
  <2>1. Shaped(d, Children)
    BY <1>2, <1>4, ObjectShape, Zenon
  <2> QED
    BY <2>1 DEF Shaped
<1> QED
  BY <1>1, <1>3, <1>4 DEF Scoring!Documents, Children

\* The children of a node, flattened below its path.
ScalarParts(d, path) ==
    [i \in 1..Len(d.keys) |-> Scoring!flatten_scalar(d.fields[d.keys[i]], path \o d.keys[i])]
InnerParts(d, path) ==
    [i \in 1..Len(d.keys) |-> Scoring!flatten_inner(d.fields[d.keys[i]], path \o d.keys[i])]

\* A node flattens to what overwriting leaves of its children.
LEMMA FlattenNode ==
    ASSUME NEW d, d.kind = "node", DOMAIN d.keys = 1..Len(d.keys), NEW path
    PROVE  /\ Scoring!flatten_inner(d, path) = Left(ScalarParts(d, path), Len(d.keys))
           /\ Scoring!flatten_json(d, path) = Left(InnerParts(d, path), Len(d.keys))
<1>1. Scoring!flatten_inner(d, path) = Left(ScalarParts(d, path), Len(d.keys))
  <2> DEFINE n == Len(d.keys)
             P(i) == Scoring!flatten_scalar(d.fields[d.keys[i]], path \o d.keys[i])
             F == ScalarParts(d, path)
             stays(i) == {x \in P(i) : \A j \in 1..n : j > i => \A y \in P(j) : y.path # x.path}
             left(i) == {x \in F[i] : \A j \in 1..n : j > i => \A y \in F[j] : y.path # x.path}
  <2>1. Scoring!flatten_inner(d, path) = UNION {stays(i) : i \in 1..n}
    BY DEF Scoring!flatten_inner, Scoring!FlattenWith, Scoring!At
  <2>2. \A i \in 1..n : F[i] = P(i)
    BY DEF ScalarParts
  <2>3. Left(F, n) = UNION {left(i) : i \in 1..n}
    BY DEF Left
  <2> HIDE DEF P, F
  <2>4. \A i \in 1..n : stays(i) = left(i)
    BY <2>2
  <2> HIDE DEF stays, left
  <2>5. UNION {stays(i) : i \in 1..n} = UNION {left(i) : i \in 1..n}
    BY <2>4
  <2> QED
    BY <2>1, <2>3, <2>5 DEF F
<1>2. Scoring!flatten_json(d, path) = Left(InnerParts(d, path), Len(d.keys))
  <2> DEFINE n == Len(d.keys)
             P(i) == Scoring!flatten_inner(d.fields[d.keys[i]], path \o d.keys[i])
             F == InnerParts(d, path)
             stays(i) == {x \in P(i) : \A j \in 1..n : j > i => \A y \in P(j) : y.path # x.path}
             left(i) == {x \in F[i] : \A j \in 1..n : j > i => \A y \in F[j] : y.path # x.path}
  <2>1. Scoring!flatten_json(d, path) = UNION {stays(i) : i \in 1..n}
    BY DEF Scoring!flatten_json, Scoring!FlattenWith, Scoring!At
  <2>2. \A i \in 1..n : F[i] = P(i)
    BY DEF InnerParts
  <2>3. Left(F, n) = UNION {left(i) : i \in 1..n}
    BY DEF Left
  <2> HIDE DEF P, F
  <2>4. \A i \in 1..n : stays(i) = left(i)
    BY <2>2
  <2> HIDE DEF stays, left
  <2>5. UNION {stays(i) : i \in 1..n} = UNION {left(i) : i \in 1..n}
    BY <2>4
  <2> QED
    BY <2>1, <2>3, <2>5 DEF F
<1> QED
  BY <1>1, <1>2

\* A plain child flattened below its key: a scalar is one entry at the key, an
\* object one entry for each of its keys.
LEMMA FlattenInner ==
    ASSUME NEW c \in Children, NEW k
    PROVE  /\ c.kind = "leaf" => Scoring!flatten_inner(c, k) = {Entry(k, c)}
           /\ (c.kind = "node" /\ Scoring!PlainInner(c) /\ k \in PlainKeys) =>
                 /\ DOMAIN c.fields \subseteq PlainKeys
                 /\ \A x : x \in Scoring!flatten_inner(c, k) <=>
                              \E l \in DOMAIN c.fields : x = Entry(Below(k, l), c.fields[l])
           /\ IsFiniteSet(Scoring!flatten_inner(c, k)) /\ OnePerPath(Scoring!flatten_inner(c, k))
<1>0. /\ \A path, d : Scoring!flatten_scalar(d, path) = {Entry(path, d)}
      /\ \A path, d : Entry(path, d).path = path
  BY DEF Scoring!flatten_scalar, Entry
<1>1. CASE c.kind = "leaf"
  <2>1. Scoring!flatten_inner(c, k) = {Entry(k, c)}
    BY <1>1 DEF Scoring!flatten_inner, Scoring!FlattenWith, Entry
  <2> QED
    BY <1>1, <2>1, FS_Singleton DEF OnePerPath
<1>2. CASE c.kind # "leaf"
  <2>1. c.kind = "node" /\ DOMAIN c.fields \subseteq Keys /\ c \in Scoring!Objects(InnerLists, Scoring!Scalars)
    BY <1>2, DocumentShape DEF Scoring!Inner
  <2>2. /\ c.keys \in [1..Len(c.keys) -> Keys] /\ Len(c.keys) \in Nat
        /\ \A i, j \in 1..Len(c.keys) : c.keys[i] = c.keys[j] => i = j
        /\ DOMAIN c.fields = {c.keys[i] : i \in 1..Len(c.keys)}
    <3>1. InnerLists \in SUBSET (KeyLists \cup InnerLists)
      OBVIOUS
    <3>2. Shaped(c, Scoring!Scalars)
      BY <2>1, <3>1, ObjectShape, Zenon
    <3> QED
      BY <3>2 DEF Shaped
  <2> DEFINE n == Len(c.keys)
             F == ScalarParts(c, k)
             U == Left(F, n)
  <2>3. Scoring!flatten_inner(c, k) = U
    BY <2>1, <2>2, FlattenNode
  <2>4. \A i \in 1..n : F[i] = {Entry(Below(k, c.keys[i]), c.fields[c.keys[i]])}
    BY <1>0 DEF Below, ScalarParts
  <2> HIDE DEF F
  <2>5. \A i \in 1..n : IsFiniteSet(F[i]) /\ OnePerPath(F[i])
    BY <2>4, FS_Singleton DEF OnePerPath
  <2>6. /\ IsFiniteSet(U) /\ OnePerPath(U)
        /\ (\A i, j \in 1..n : i # j => \A x \in F[i], y \in F[j] : x.path # y.path) =>
              U = UNION {F[i] : i \in 1..n}
    BY <2>2, <2>5, Overwriting, Zenon
  <2> HIDE DEF U
  <2>7. ASSUME Scoring!PlainInner(c), k \in PlainKeys
        PROVE  /\ DOMAIN c.fields \subseteq PlainKeys
               /\ \A x : x \in U <=> \E l \in DOMAIN c.fields : x = Entry(Below(k, l), c.fields[l])
    <3>1. DOMAIN c.fields \subseteq PlainKeys
      BY <2>1, <2>7 DEF Scoring!PlainInner, PlainKeys
    <3>2. \A i \in 1..n : c.keys[i] \in PlainKeys
      BY <2>2, <3>1
    <3>3. \A i, j \in 1..n : i # j => Below(k, c.keys[i]) # Below(k, c.keys[j])
      BY <2>2, <2>7, <3>2, PathFacts
    <3>4. \A i, j \in 1..n : i # j => \A x \in F[i], y \in F[j] : x.path # y.path
      BY <1>0, <2>4, <3>3
    <3>5. U = UNION {F[i] : i \in 1..n}
      BY <2>6, <3>4
    <3>6. \A x : x \in U <=> \E i \in 1..n : x \in F[i]
      BY <3>5
    <3>7. \A x : x \in U <=> \E i \in 1..n : x = Entry(Below(k, c.keys[i]), c.fields[c.keys[i]])
      BY <2>4, <3>6
    <3> QED
      BY <2>2, <3>1, <3>7
  <2> QED
    BY <1>2, <2>3, <2>6, <2>7
<1> QED
  BY <1>1, <1>2

\* Entries of a plain child lie below its key.
LEMMA InnerPaths ==
    ASSUME NEW c \in Children, Scoring!PlainInner(c), NEW k \in PlainKeys
    PROVE  /\ \A x \in Scoring!flatten_inner(c, k) : x.path # <<>> /\ x.path[1] = k[1]
           /\ Scoring!flatten_inner(c, k) = {} <=> Scoring!EmptyInner(c)
<1>0. \A path, d : Entry(path, d).path = path
  BY DEF Entry
<1>1. CASE c.kind = "leaf"
  <2>1. Scoring!flatten_inner(c, k) = {Entry(k, c)}
    BY <1>1, FlattenInner
  <2>2. ~Scoring!EmptyInner(c)
    BY <1>1 DEF Scoring!EmptyInner
  <2> QED
    BY <1>0, <2>1, <2>2, PathFacts
<1>2. CASE c.kind = "node"
  <2>1. /\ DOMAIN c.fields \subseteq PlainKeys
        /\ \A x : x \in Scoring!flatten_inner(c, k) <=>
                     \E l \in DOMAIN c.fields : x = Entry(Below(k, l), c.fields[l])
    BY <1>2, FlattenInner
  <2>2. \A x \in Scoring!flatten_inner(c, k) : x.path # <<>> /\ x.path[1] = k[1]
    BY <1>0, <2>1, PathFacts
  <2>3. Scoring!flatten_inner(c, k) = {} <=> Scoring!EmptyInner(c)
    BY <1>2, <2>1 DEF Scoring!EmptyInner
  <2> QED
    BY <2>2, <2>3
<1> QED
  BY <1>1, <1>2, DocumentShape

\* A whole document flattened is a finite dictionary, and where keys are plain all
\* of its children's entries.
LEMMA FlattenDocument ==
    ASSUME NEW d \in Scoring!Documents
    PROVE  /\ d.kind = "leaf" => Scoring!Flat(d) = {Entry(<<>>, d)}
           /\ (d.kind = "node" /\ Scoring!Plain(d)) =>
                 /\ DOMAIN d.fields \subseteq PlainKeys
                 /\ \A x : x \in Scoring!Flat(d) <=>
                              \E k \in DOMAIN d.fields : x \in Scoring!flatten_inner(d.fields[k], k)
           /\ IsFiniteSet(Scoring!Flat(d)) /\ OnePerPath(Scoring!Flat(d))
<1>1. CASE d.kind = "leaf"
  <2>1. Scoring!Flat(d) = {Entry(<<>>, d)}
    BY <1>1 DEF Scoring!Flat, Scoring!flatten_json, Scoring!FlattenWith, Entry
  <2>2. \A x, y \in {Entry(<<>>, d)} : x = y
    OBVIOUS
  <2> QED
    BY <1>1, <2>1, <2>2, FS_Singleton DEF OnePerPath
<1>2. CASE d.kind # "leaf"
  <2>1. /\ d.kind = "node" /\ DOMAIN d.fields \subseteq Keys
        /\ \A k \in DOMAIN d.fields : d.fields[k] \in Children
        /\ d \in Scoring!Objects(KeyLists, Children)
    BY <1>2, DocumentShape
  <2>2. /\ d.keys \in [1..Len(d.keys) -> Keys] /\ Len(d.keys) \in Nat
        /\ \A i, j \in 1..Len(d.keys) : d.keys[i] = d.keys[j] => i = j
        /\ DOMAIN d.fields = {d.keys[i] : i \in 1..Len(d.keys)}
    <3>1. KeyLists \in SUBSET (KeyLists \cup InnerLists)
      OBVIOUS
    <3>2. Shaped(d, Children)
      BY <2>1, <3>1, ObjectShape, Zenon
    <3> QED
      BY <3>2 DEF Shaped
  <2> DEFINE n == Len(d.keys)
             F == InnerParts(d, <<>>)
             U == Left(F, n)
  <2>3. Scoring!Flat(d) = U
    BY <2>1, <2>2, FlattenNode DEF Scoring!Flat
  <2>4. \A i \in 1..n : F[i] = Scoring!flatten_inner(d.fields[d.keys[i]], <<>> \o d.keys[i])
    BY DEF InnerParts
  <2> HIDE DEF F
  <2>5. \A i \in 1..n : IsFiniteSet(F[i]) /\ OnePerPath(F[i])
    BY <2>1, <2>2, <2>4, FlattenInner
  <2>6. /\ IsFiniteSet(U) /\ OnePerPath(U)
        /\ (\A i, j \in 1..n : i # j => \A x \in F[i], y \in F[j] : x.path # y.path) =>
              U = UNION {F[i] : i \in 1..n}
    BY <2>2, <2>5, Overwriting, Zenon
  <2> HIDE DEF U
  <2>7. ASSUME Scoring!Plain(d)
        PROVE  /\ DOMAIN d.fields \subseteq PlainKeys
               /\ \A x : x \in U <=>
                     \E k \in DOMAIN d.fields : x \in Scoring!flatten_inner(d.fields[k], k)
    <3>1. /\ DOMAIN d.fields \subseteq PlainKeys
          /\ \A k \in DOMAIN d.fields : Scoring!PlainInner(d.fields[k])
      BY <2>1, <2>7 DEF Scoring!Plain, Scoring!PlainInner, PlainKeys
    <3>2. \A i \in 1..n : /\ d.keys[i] \in PlainKeys /\ d.fields[d.keys[i]] \in Children
                          /\ Scoring!PlainInner(d.fields[d.keys[i]])
      BY <2>1, <2>2, <3>1
    <3>3. \A i \in 1..n : F[i] = Scoring!flatten_inner(d.fields[d.keys[i]], d.keys[i])
      BY <2>4, <3>2, PathFacts
    <3>4. \A i \in 1..n : \A x \in F[i] : x.path[1] = d.keys[i][1]
      BY <3>2, <3>3, InnerPaths
    <3>5. \A i, j \in 1..n : i # j => d.keys[i][1] # d.keys[j][1]
      BY <2>2, <3>2, PathFacts
    <3>6. \A i, j \in 1..n : i # j => \A x \in F[i], y \in F[j] : x.path # y.path
      BY <3>4, <3>5
    <3>7. U = UNION {F[i] : i \in 1..n}
      BY <2>6, <3>6
    <3>8. \A x : x \in U <=> \E i \in 1..n : x \in F[i]
      BY <3>7
    <3> QED
      BY <2>2, <3>1, <3>3, <3>8
  <2> QED
    BY <1>2, <2>3, <2>6, <2>7
<1> QED
  BY <1>1, <1>2
\* _json_equal on entries is agreement of the scalars they hold.
LEMMA EntriesAgree ==
    \A path, other, d, c :
        Scoring!_json_equal(Entry(path, d), Entry(other, c)) <=> Scoring!AgreeScalar(d, c)
BY DEF Scoring!_json_equal, Scoring!AgreeScalar, Scoring!Meaning, Entry

\* The reference, on children and on documents, in the words of its definition.
LEMMA AgreeFacts ==
    ASSUME NEW d, NEW c
    PROVE  /\ Scoring!AgreeInner(d, c) <=>
                \/ d.kind = "leaf" /\ c.kind = "leaf" /\ Scoring!AgreeScalar(d, c)
                \/ /\ d.kind = "node" /\ c.kind = "node"
                   /\ DOMAIN d.fields = DOMAIN c.fields
                   /\ \A l \in DOMAIN d.fields : Scoring!AgreeScalar(d.fields[l], c.fields[l])
           /\ Scoring!Agree(d, c) <=>
                \/ d.kind = "leaf" /\ c.kind = "leaf" /\ Scoring!AgreeScalar(d, c)
                \/ /\ d.kind = "node" /\ c.kind = "node"
                   /\ {k \in DOMAIN d.fields : ~Scoring!EmptyInner(d.fields[k])} =
                        {k \in DOMAIN c.fields : ~Scoring!EmptyInner(c.fields[k])}
                   /\ \A k \in {j \in DOMAIN d.fields : ~Scoring!EmptyInner(d.fields[j])} :
                         Scoring!AgreeInner(d.fields[k], c.fields[k])
<1>1. \A x : {k \in DOMAIN x.fields : ~Scoring!EmptyScalar(x.fields[k])} = DOMAIN x.fields
  BY DEF Scoring!EmptyScalar
<1>2. Scoring!AgreeInner(d, c) <=>
        \/ d.kind = "leaf" /\ c.kind = "leaf" /\ Scoring!AgreeScalar(d, c)
        \/ /\ d.kind = "node" /\ c.kind = "node"
           /\ DOMAIN d.fields = DOMAIN c.fields
           /\ \A l \in DOMAIN d.fields : Scoring!AgreeScalar(d.fields[l], c.fields[l])
  <2>1. Scoring!AgreeInner(d, c) <=>
          \/ d.kind = "leaf" /\ c.kind = "leaf" /\ Scoring!AgreeScalar(d, c)
          \/ /\ d.kind = "node" /\ c.kind = "node"
             /\ {k \in DOMAIN d.fields : ~Scoring!EmptyScalar(d.fields[k])} =
                  {k \in DOMAIN c.fields : ~Scoring!EmptyScalar(c.fields[k])}
             /\ \A k \in {j \in DOMAIN d.fields : ~Scoring!EmptyScalar(d.fields[j])} :
                   Scoring!AgreeScalar(d.fields[k], c.fields[k])
    BY Zenon DEF Scoring!AgreeInner, Scoring!AgreeWith, Scoring!AgreeScalar
  <2> QED
    BY <1>1, <2>1, Zenon
<1>3. Scoring!Agree(d, c) <=>
        \/ d.kind = "leaf" /\ c.kind = "leaf" /\ Scoring!AgreeScalar(d, c)
        \/ /\ d.kind = "node" /\ c.kind = "node"
           /\ {k \in DOMAIN d.fields : ~Scoring!EmptyInner(d.fields[k])} =
                {k \in DOMAIN c.fields : ~Scoring!EmptyInner(c.fields[k])}
           /\ \A k \in {j \in DOMAIN d.fields : ~Scoring!EmptyInner(d.fields[j])} :
                 Scoring!AgreeInner(d.fields[k], c.fields[k])
  BY Zenon DEF Scoring!Agree, Scoring!AgreeWith, Scoring!AgreeScalar
<1> QED
  BY <1>2, <1>3, Zenon

\* Two children correspond, flattened below the same key, when they agree.
LEMMA InnerAgree ==
    ASSUME NEW c \in Children, Scoring!PlainInner(c), NEW b \in Children, Scoring!PlainInner(b),
           NEW k \in PlainKeys
    PROVE  Scoring!Correspond(Scoring!flatten_inner(c, k), Scoring!flatten_inner(b, k))
               <=> Scoring!AgreeInner(c, b)
<1>0. \A path, d : Entry(path, d).path = path
  BY DEF Entry
<1> DEFINE PlainChildren == {d \in Children : Scoring!PlainInner(d)}
<1>1. \A d \in PlainChildren :
        \/ d.kind = "leaf"
        \/ d.kind = "node" /\ DOMAIN d.fields \subseteq PlainKeys
  BY DocumentShape, FlattenInner
<1> DEFINE C == Scoring!flatten_inner(c, k)
           B == Scoring!flatten_inner(b, k)
<1>2. /\ \A d \in PlainChildren : \A x : d.kind = "node" =>
            (x \in Scoring!flatten_inner(d, k) <=>
                \E l \in DOMAIN d.fields : x = Entry(Below(k, l), d.fields[l]))
      /\ \A d \in PlainChildren : d.kind = "leaf" =>
            Scoring!flatten_inner(d, k) = {Entry(k, d)}
  BY FlattenInner
<1>3. \A l, m \in PlainKeys : /\ Below(k, l) # k
                              /\ Below(k, l) = Below(k, m) => l = m
  BY PathFacts
<1>4. CASE c.kind = "leaf" /\ b.kind = "leaf"
  <2>1. C = {Entry(k, c)} /\ B = {Entry(k, b)}
    BY <1>2, <1>4
  <2>2. Scoring!Correspond(C, B) <=> Scoring!AgreeScalar(c, b)
    BY <1>0, <2>1, EntriesAgree DEF Scoring!Correspond
  <2> QED
    BY <1>4, <2>2, AgreeFacts
<1>5. CASE c.kind = "leaf" /\ b.kind = "node"
  <2>1. C = {Entry(k, c)}
    BY <1>2, <1>5
  <2>2. \A y \in B : y.path # k
    BY <1>0, <1>1, <1>2, <1>3, <1>5
  <2>3. ~Scoring!Correspond(C, B)
    BY <1>0, <2>1, <2>2 DEF Scoring!Correspond
  <2> QED
    BY <1>5, <2>3, AgreeFacts
<1>6. CASE c.kind = "node" /\ b.kind = "leaf"
  <2>1. B = {Entry(k, b)}
    BY <1>2, <1>6
  <2>2. \A x \in C : x.path # k
    BY <1>0, <1>1, <1>2, <1>3, <1>6
  <2>3. ~Scoring!Correspond(C, B)
    BY <1>0, <2>1, <2>2 DEF Scoring!Correspond
  <2> QED
    BY <1>6, <2>3, AgreeFacts
<1>7. CASE c.kind = "node" /\ b.kind = "node"
  <2>1. /\ \A x : x \in C <=> \E l \in DOMAIN c.fields : x = Entry(Below(k, l), c.fields[l])
        /\ \A y : y \in B <=> \E l \in DOMAIN b.fields : y = Entry(Below(k, l), b.fields[l])
        /\ DOMAIN c.fields \subseteq PlainKeys /\ DOMAIN b.fields \subseteq PlainKeys
    BY <1>1, <1>2, <1>7
  <2> HIDE DEF C, B
  <2>2. ASSUME NEW l \in DOMAIN c.fields
        PROVE  (\E y \in B : /\ Entry(Below(k, l), c.fields[l]).path = y.path
                             /\ Scoring!_json_equal(Entry(Below(k, l), c.fields[l]), y))
                 <=> l \in DOMAIN b.fields /\ Scoring!AgreeScalar(c.fields[l], b.fields[l])
    BY <1>0, <1>3, <2>1, EntriesAgree
  <2>3. ASSUME NEW l \in DOMAIN b.fields
        PROVE  (\E x \in C : /\ x.path = Entry(Below(k, l), b.fields[l]).path
                             /\ Scoring!_json_equal(x, Entry(Below(k, l), b.fields[l])))
                 <=> l \in DOMAIN c.fields /\ Scoring!AgreeScalar(c.fields[l], b.fields[l])
    BY <1>0, <1>3, <2>1, EntriesAgree
  <2>4. Scoring!Correspond(C, B) <=>
          /\ \A l \in DOMAIN c.fields :
                l \in DOMAIN b.fields /\ Scoring!AgreeScalar(c.fields[l], b.fields[l])
          /\ \A l \in DOMAIN b.fields :
                l \in DOMAIN c.fields /\ Scoring!AgreeScalar(c.fields[l], b.fields[l])
    <3>1. (\A x \in C : \E y \in B : x.path = y.path /\ Scoring!_json_equal(x, y)) <=>
            \A l \in DOMAIN c.fields :
                \E y \in B : /\ Entry(Below(k, l), c.fields[l]).path = y.path
                             /\ Scoring!_json_equal(Entry(Below(k, l), c.fields[l]), y)
      BY <2>1
    <3>2. (\A y \in B : \E x \in C : x.path = y.path /\ Scoring!_json_equal(x, y)) <=>
            \A l \in DOMAIN b.fields :
                \E x \in C : /\ x.path = Entry(Below(k, l), b.fields[l]).path
                             /\ Scoring!_json_equal(x, Entry(Below(k, l), b.fields[l]))
      BY <2>1
    <3> QED
      BY <2>2, <2>3, <3>1, <3>2, Zenon DEF Scoring!Correspond
  <2>5. Scoring!AgreeInner(c, b) <=>
          /\ DOMAIN c.fields = DOMAIN b.fields
          /\ \A l \in DOMAIN c.fields : Scoring!AgreeScalar(c.fields[l], b.fields[l])
    BY <1>7, AgreeFacts
  <2> QED
    BY <2>4, <2>5 DEF C, B
<1> QED
  BY <1>1, <1>4, <1>5, <1>6, <1>7

\* Two documents correspond, flattened, exactly when they agree.
LEMMA DocumentsAgree ==
    ASSUME NEW d \in Scoring!Documents, Scoring!Plain(d),
           NEW c \in Scoring!Documents, Scoring!Plain(c)
    PROVE  Scoring!Correspond(Scoring!Flat(d), Scoring!Flat(c)) <=> Scoring!Agree(d, c)
<1>0. \A path, x : Entry(path, x).path = path
  BY DEF Entry
<1> DEFINE PlainDocuments == {x \in Scoring!Documents : Scoring!Plain(x)}
           PlainChildren == {x \in Children : Scoring!PlainInner(x)}
<1>1. \A x \in PlainDocuments :
        \/ x.kind = "leaf"
        \/ /\ x.kind = "node"
           /\ \A k \in DOMAIN x.fields : k \in PlainKeys /\ x.fields[k] \in PlainChildren
  BY DocumentShape, FlattenDocument DEF Scoring!Plain
<1>2. /\ \A x \in PlainDocuments : x.kind = "leaf" => Scoring!Flat(x) = {Entry(<<>>, x)}
      /\ \A x \in PlainDocuments : x.kind = "node" =>
            \A y \in Scoring!Flat(x) : y.path # <<>>
  <2>1. \A x \in PlainDocuments : x.kind = "leaf" => Scoring!Flat(x) = {Entry(<<>>, x)}
    BY FlattenDocument
  <2>2. ASSUME NEW x \in PlainDocuments, x.kind = "node", NEW y \in Scoring!Flat(x)
        PROVE  y.path # <<>>
    <3>1. PICK k \in DOMAIN x.fields : y \in Scoring!flatten_inner(x.fields[k], k)
      BY <2>2, FlattenDocument
    <3>2. k \in PlainKeys /\ x.fields[k] \in PlainChildren
      BY <1>1, <2>2
    <3> QED
      BY <3>1, <3>2, InnerPaths
  <2> QED
    BY <2>1, <2>2
<1>3. CASE d.kind = "leaf" /\ c.kind = "leaf"
  <2>1. Scoring!Correspond(Scoring!Flat(d), Scoring!Flat(c)) <=> Scoring!AgreeScalar(d, c)
    BY <1>0, <1>2, <1>3, EntriesAgree DEF Scoring!Correspond
  <2> QED
    BY <1>3, <2>1, AgreeFacts
<1>4. CASE d.kind = "leaf" /\ c.kind = "node"
  <2>1. ~Scoring!Correspond(Scoring!Flat(d), Scoring!Flat(c))
    BY <1>0, <1>2, <1>4 DEF Scoring!Correspond
  <2> QED
    BY <1>4, <2>1, AgreeFacts
<1>5. CASE d.kind = "node" /\ c.kind = "leaf"
  <2>1. ~Scoring!Correspond(Scoring!Flat(d), Scoring!Flat(c))
    BY <1>0, <1>2, <1>5 DEF Scoring!Correspond
  <2> QED
    BY <1>5, <2>1, AgreeFacts
<1>6. CASE d.kind = "node" /\ c.kind = "node"
  <2> DEFINE D(k) == Scoring!flatten_inner(d.fields[k], k)
             C(k) == Scoring!flatten_inner(c.fields[k], k)
             F == Scoring!Flat(d)
             G == Scoring!Flat(c)
             shownD == {k \in DOMAIN d.fields : ~Scoring!EmptyInner(d.fields[k])}
             shownC == {k \in DOMAIN c.fields : ~Scoring!EmptyInner(c.fields[k])}
  <2>1. /\ \A k \in DOMAIN d.fields : k \in PlainKeys /\ d.fields[k] \in PlainChildren
        /\ \A k \in DOMAIN c.fields : k \in PlainKeys /\ c.fields[k] \in PlainChildren
    BY <1>1, <1>6
  <2>2. /\ \A k \in DOMAIN d.fields : D(k) = {} <=> k \notin shownD
        /\ \A k \in DOMAIN c.fields : C(k) = {} <=> k \notin shownC
    BY <2>1, InnerPaths
  <2>3. /\ \A k \in DOMAIN d.fields : \A x \in D(k) : x.path[1] = k[1]
        /\ \A k \in DOMAIN c.fields : \A y \in C(k) : y.path[1] = k[1]
    BY <2>1, InnerPaths
  <2>4. /\ \A x : x \in F <=> \E k \in DOMAIN d.fields : x \in D(k)
        /\ \A y : y \in G <=> \E k \in DOMAIN c.fields : y \in C(k)
    BY <1>6, FlattenDocument
  <2>5. \A k \in shownD \cap shownC :
          Scoring!Correspond(D(k), C(k)) <=> Scoring!AgreeInner(d.fields[k], c.fields[k])
    BY <2>1, InnerAgree
  <2>6. Scoring!Agree(d, c) <=>
          shownD = shownC /\ \A k \in shownD : Scoring!AgreeInner(d.fields[k], c.fields[k])
    BY <1>6, AgreeFacts, Zenon
  <2>7. shownD \subseteq DOMAIN d.fields /\ shownC \subseteq DOMAIN c.fields
    OBVIOUS
  <2> HIDE DEF D, C, F, G, shownD, shownC
  <2>8. ASSUME Scoring!Correspond(F, G), NEW k \in shownD
        PROVE  k \in shownC /\ \A x \in D(k) : \E y \in C(k) : x.path = y.path /\ Scoring!_json_equal(x, y)
    <3>1. \A x \in D(k) : k \in DOMAIN c.fields /\ \E y \in C(k) : x.path = y.path /\ Scoring!_json_equal(x, y)
      <4>1. SUFFICES ASSUME NEW x \in D(k)
                     PROVE  k \in DOMAIN c.fields /\ \E y \in C(k) : x.path = y.path /\ Scoring!_json_equal(x, y)
        OBVIOUS
      <4>2. x \in F
        BY <2>4, <2>7
      <4>3. PICK y \in G : x.path = y.path /\ Scoring!_json_equal(x, y)
        BY <2>8, <4>2 DEF Scoring!Correspond
      <4>4. PICK j \in DOMAIN c.fields : y \in C(j)
        BY <2>4
      <4>5. j = k
        BY <2>1, <2>3, <2>7, <4>3, <4>4, PathFacts
      <4> QED
        BY <4>3, <4>4, <4>5
    <3>2. D(k) # {}
      BY <2>2, <2>7
    <3> QED
      BY <2>2, <3>1, <3>2
  <2>9. ASSUME Scoring!Correspond(F, G), NEW k \in shownC
        PROVE  k \in shownD /\ \A y \in C(k) : \E x \in D(k) : x.path = y.path /\ Scoring!_json_equal(x, y)
    <3>1. \A y \in C(k) : k \in DOMAIN d.fields /\ \E x \in D(k) : x.path = y.path /\ Scoring!_json_equal(x, y)
      <4>1. SUFFICES ASSUME NEW y \in C(k)
                     PROVE  k \in DOMAIN d.fields /\ \E x \in D(k) : x.path = y.path /\ Scoring!_json_equal(x, y)
        OBVIOUS
      <4>2. y \in G
        BY <2>4, <2>7
      <4>3. PICK x \in F : x.path = y.path /\ Scoring!_json_equal(x, y)
        BY <2>9, <4>2 DEF Scoring!Correspond
      <4>4. PICK j \in DOMAIN d.fields : x \in D(j)
        BY <2>4
      <4>5. j = k
        BY <2>1, <2>3, <2>7, <4>3, <4>4, PathFacts
      <4> QED
        BY <4>3, <4>4, <4>5
    <3>2. C(k) # {}
      BY <2>2, <2>7
    <3> QED
      BY <2>2, <3>1, <3>2
  <2>10. Scoring!Correspond(F, G) => Scoring!Agree(d, c)
    <3> SUFFICES ASSUME Scoring!Correspond(F, G) PROVE Scoring!Agree(d, c)
      OBVIOUS
    <3>1. shownD = shownC
      BY <2>8, <2>9
    <3>2. \A k \in shownD : Scoring!Correspond(D(k), C(k))
      BY <2>8, <2>9, <3>1 DEF Scoring!Correspond
    <3> QED
      BY <2>5, <2>6, <3>1, <3>2
  <2>11. Scoring!Agree(d, c) => Scoring!Correspond(F, G)
    <3> SUFFICES ASSUME Scoring!Agree(d, c) PROVE Scoring!Correspond(F, G)
      OBVIOUS
    <3>1. shownD = shownC /\ \A k \in shownD : Scoring!Correspond(D(k), C(k))
      BY <2>5, <2>6
    <3>2. ASSUME NEW x \in F PROVE \E y \in G : x.path = y.path /\ Scoring!_json_equal(x, y)
      <4>1. PICK k \in DOMAIN d.fields : x \in D(k)
        BY <2>4
      <4>2. k \in shownD /\ k \in DOMAIN c.fields
        BY <2>2, <2>7, <3>1, <4>1
      <4>3. PICK y \in C(k) : x.path = y.path /\ Scoring!_json_equal(x, y)
        BY <3>1, <4>1, <4>2 DEF Scoring!Correspond
      <4> QED
        BY <2>4, <4>2, <4>3
    <3>3. ASSUME NEW y \in G PROVE \E x \in F : x.path = y.path /\ Scoring!_json_equal(x, y)
      <4>1. PICK k \in DOMAIN c.fields : y \in C(k)
        BY <2>4
      <4>2. k \in shownD /\ k \in DOMAIN d.fields
        BY <2>2, <2>7, <3>1, <4>1
      <4>3. PICK x \in D(k) : x.path = y.path /\ Scoring!_json_equal(x, y)
        BY <3>1, <4>1, <4>2 DEF Scoring!Correspond
      <4> QED
        BY <2>4, <4>2, <4>3
    <3> QED
      BY <3>2, <3>3 DEF Scoring!Correspond
  <2> QED
    BY <2>10, <2>11 DEF F, G
<1> QED
  BY <1>1, <1>3, <1>4, <1>5, <1>6

\* An unscored document, or a scored one with the scores of its flattened pair.
Scored ==
    /\ reference \in Scoring!Documents
    /\ \/ /\ predicted.kind \in {"none", "invalid"}
          /\ predicted.kind = "none" => predicted = Scoring!Unparsed
          /\ scores = Scoring!Unscored
       \/ /\ predicted \in Scoring!Documents
          /\ scores = [extraction |-> Scoring!ExtractionScore(Scoring!Flat(reference), Scoring!Flat(predicted)),
                       json |-> Scoring!JSONScore(Scoring!Flat(reference), Scoring!Flat(predicted))]

\* For any keys and scalar values, documents that nest two objects: both scores
\* are proper fractions; full marks mean that every flattened value has an equal
\* one of its type at its path, whatever overwrote what; and where no key has a "."
\* or a "[", that the documents agree (evaluators.py, normalization.py flatten_json).
THEOREM ScoresAlwaysMeasureAgreement == PartsSpec => []ScoresMeasureAgreement
<1>1. Scoring!Init => Scored
  BY DEF Scoring!Init, Scored, Scoring!Unparsed
<1>2. Scored /\ [Scoring!Next]_(Scoring!vars) => Scored'
  <2> SUFFICES ASSUME Scored, [Scoring!Next]_(Scoring!vars) PROVE Scored'
    OBVIOUS
  <2>0. /\ Scoring!Documents' = Scoring!Documents
    BY DEF Scoring!Documents, Scoring!Scalars, Scoring!Inner, Scoring!Objects, Scoring!Node, Scoring!Leaf
  <2>1. CASE Scoring!Evaluate
    BY <2>0, <2>1 DEF Scored, Scoring!Evaluate
  <2>2. CASE Scoring!EvaluateInvalid
    BY <2>0, <2>2 DEF Scored, Scoring!EvaluateInvalid, Scoring!Unscored
  <2>3. CASE UNCHANGED Scoring!vars
    BY <2>0, <2>3 DEF Scored, Scoring!vars
  <2> QED
    BY <2>1, <2>2, <2>3 DEF Scoring!Next
<1>3. Scored => ScoresMeasureAgreement
  <2> SUFFICES ASSUME Scored
               PROVE  /\ Scoring!ScoresAreFractions /\ Scoring!FullMarksMeanCorrespondence
                      /\ Scoring!PlainMarksMeanAgreement
    BY DEF ScoresMeasureAgreement, Scoring!ScoresMeasureAgreement
  <2>1. CASE predicted.kind \in {"none", "invalid"} /\ scores = Scoring!Unscored
    <3>1. predicted # Scoring!Unparsed => predicted.kind = "invalid"
      BY <2>1, DocumentShape DEF Scored
    <3>2. scores.extraction = <<0, 1>> /\ scores.json = <<0, 1>>
      BY <2>1 DEF Scoring!Unscored
    <3>3. \A s \in {scores.extraction, scores.json} : s[1] = 0 /\ s[2] = 1
      BY <3>2
    <3> QED
      BY <2>1, <3>1, <3>3
      DEF Scoring!ScoresAreFractions, Scoring!FullMarksMeanCorrespondence,
          Scoring!PlainMarksMeanAgreement
  <2>2. CASE predicted \in Scoring!Documents /\
             scores = [extraction |-> Scoring!ExtractionScore(Scoring!Flat(reference), Scoring!Flat(predicted)),
                       json |-> Scoring!JSONScore(Scoring!Flat(reference), Scoring!Flat(predicted))]
    <3> DEFINE e == Scoring!Flat(reference)
               p == Scoring!Flat(predicted)
    <3>1. IsFiniteSet(e) /\ OnePerPath(e) /\ IsFiniteSet(p) /\ OnePerPath(p)
      BY <2>2, FlattenDocument DEF Scored
    <3>2. predicted.kind # "invalid"
      BY <2>2, DocumentShape
    <3>3. scores.extraction = Scoring!ExtractionScore(e, p) /\ scores.json = Scoring!JSONScore(e, p)
      BY <2>2
    <3>4. Scoring!Plain(reference) /\ Scoring!Plain(predicted) =>
            (Scoring!Correspond(e, p) <=> Scoring!Agree(reference, predicted))
      BY <2>2, DocumentsAgree DEF Scored
    <3> HIDE DEF e, p
    <3>5. \A s \in {scores.extraction, scores.json} :
            s[2] > 0 /\ s[1] \in 0..s[2] /\ (s[1] = s[2] <=> Scoring!Correspond(e, p))
      BY <3>1, <3>3, ScoreFacts
    <3>6. Scoring!ScoresAreFractions
      BY <3>5 DEF Scoring!ScoresAreFractions
    <3>7. Scoring!FullMarksMeanCorrespondence
      BY <3>2, <3>5 DEF Scoring!FullMarksMeanCorrespondence, e, p
    <3>8. Scoring!PlainMarksMeanAgreement
      BY <3>4, <3>5 DEF Scoring!PlainMarksMeanAgreement
    <3> QED
      BY <3>6, <3>7, <3>8
  <2> QED
    BY <2>1, <2>2 DEF Scored
<1> QED
  BY <1>1, <1>2, <1>3, PartsAreComponents, PTL DEF Scoring!Spec
=============================================================================
