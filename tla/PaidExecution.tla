--------------------------- MODULE PaidExecution ----------------------------
(***************************************************************************)
(* The gates between a command line and provider calls that cost money or  *)
(* open the held-out test split: benchmarks/__main__.py with the contracts *)
(* of benchmarks/routing_benchmark_v1.py and the pricing evidence of       *)
(* benchmarks/execution_readiness.py, and the two other paid entry points, *)
(* evaluation/__main__.py and evaluation/hybrid_validation.py.             *)
(*                                                                         *)
(* main() reads four files at four moments; an editor may replace any of   *)
(* them in between.  A file's content is abstracted to the version that    *)
(* the checks tell apart:                                                  *)
(*   dataset  "v10", "v12": the supported releases, byte for byte;         *)
(*            "reformatted": release v12 with other whitespace;            *)
(*            "edited": the benchmark's name, other tasks;                 *)
(*            "renamed": the same tasks under another dataset name;        *)
(*   protocol "p10", "p12": frozen protocols for v10 and v12; "edited";    *)
(*   pricing  "ready": evidence for p12; "expired"; "other": for another   *)
(*            protocol, or with other models or prices;                    *)
(*   split    "frozen"; "relabelled": the development and final families   *)
(*            exchanged, which keeps every total; "malformed".             *)
(***************************************************************************)
EXTENDS Integers, FiniteSets

CONSTANTS
    MaxEdits,  \* bound: how often a file is replaced during the run
    Selections \* what --models may name: sets of registered models

VARIABLES
    disk,   \* the version of each file
    edits,  \* how many files were replaced
    args,   \* the command line and the environment
    stage,  \* how far main() has come
    read,   \* the versions main() has read
    ran,    \* what BenchmarkRunner was given
    judged  \* whether the other entry points called a paid judge, and why

vars == <<disk, edits, args, stage, read, ran, judged>>

Datasets == {"v10", "v12", "reformatted", "edited", "renamed"}
Protocols == {"p10", "p12", "edited"}
Pricings == {"ready", "expired", "other"}
Splits == {"frozen", "relabelled", "malformed"}
Files == [dataset : Datasets, protocol : Protocols, pricing : Pricings, split : Splits]

(* A model is fake, a gateway candidate that the protocols and the         *)
(* benchmark list, or a gateway model that only the registry knows.        *)
Registered == {"fake", "listed", "unlisted"}
Listed == {"listed"}

GatesAssumption == MaxEdits \in Nat /\ Selections \subseteq SUBSET Registered \ {{}}

Arguments ==
    [key : BOOLEAN,         \* AI_GATEWAY_API_KEY is set
     models : Selections,   \* --models
     allow : BOOLEAN,       \* --allow-paid
     limit : BOOLEAN,       \* --limit is positive
     protocol : BOOLEAN,    \* --protocol was given
     split : {"none", "train", "development", "final"},
     gate : BOOLEAN,        \* --allow-final-evaluation
     identities : BOOLEAN]  \* two 64-digit identities were given

Unread == [dataset |-> "none", protocol |-> "none", pricing |-> "none", split |-> "none"]
NotRun == [tasks |-> {}, models |-> [m \in {} |-> "registry"]]
Paid(models) == models \ {"fake"} # {}

Init ==
    /\ disk \in Files
    /\ edits = 0
    /\ args \in Arguments
    /\ stage = "models"
    /\ read = Unread
    /\ ran = NotRun
    /\ judged = [calls |-> FALSE, consent |-> FALSE]

Refuse == stage' = "refused"

-----------------------------------------------------------------------------
(* Gateway models are registered only with credentials; a gateway model    *)
(* without --allow-paid ends the program before any file is read.          *)
CheckModels ==
    /\ stage = "models"
    /\ IF Paid(args.models) /\ (~args.key \/ ~args.allow) THEN Refuse ELSE stage' = "dataset"
    /\ UNCHANGED <<disk, edits, args, read, ran, judged>>

LoadDataset ==
    /\ stage = "dataset"
    /\ read' = [read EXCEPT !.dataset = disk.dataset]
    /\ IF ~args.limit THEN Refuse
       ELSE stage' = IF args.protocol THEN "protocol" ELSE "split"
    /\ UNCHANGED <<disk, edits, args, ran, judged>>

(* SUPPORTED_EXECUTION_PROTOCOLS: the dataset bytes a protocol is for, and *)
(* whether it also needs pricing evidence.                                 *)
ContractDataset(p) == IF p = "p10" THEN "v10" ELSE "v12"
RequiresPricing(p) == p = "p12"

(* Any mutation of the manifest changes its digest and is refused; then    *)
(* the protocol must be for the dataset that was loaded.                   *)
load_execution_protocol ==
    /\ stage = "protocol"
    /\ read' = [read EXCEPT !.protocol = disk.protocol]
    /\ IF disk.protocol = "edited" \/ ContractDataset(disk.protocol) # read.dataset THEN Refuse
       ELSE stage' = IF RequiresPricing(disk.protocol) THEN "pricing" ELSE "split"
    /\ UNCHANGED <<disk, edits, args, ran, judged>>

load_pricing_readiness ==
    /\ stage = "pricing"
    /\ read' = [read EXCEPT !.pricing = disk.pricing]
    /\ IF disk.pricing # "ready" THEN Refuse ELSE stage' = "split"
    /\ UNCHANGED <<disk, edits, args, ran, judged>>

-----------------------------------------------------------------------------
(* validate_routing_benchmark compares the parsed content, so whitespace   *)
(* does not matter to it.                                                  *)
ValidBenchmark(d) == d \in {"v10", "v12", "reformatted"}

(* validate_split_manifest: totals, per-category quotas and families that  *)
(* do not cross a boundary.  Which family is in which split is not checked. *)
ValidSplit(s) == s # "malformed"

Selected(manifest, split) ==
    CASE manifest = "relabelled" /\ split = "development" -> {"final"}
      [] manifest = "relabelled" /\ split = "final" -> {"development"}
      [] OTHER -> {split}

(* select_execution_dataset: reached when the dataset carries the          *)
(* benchmark's name.                                                       *)
select_execution_dataset ==
    /\ stage = "split" /\ read.dataset # "renamed"
    /\ read' = [read EXCEPT !.split = disk.split]
    /\ IF \/ args.split = "none"
          \/ ~ValidBenchmark(read.dataset) \/ ~ValidSplit(disk.split)
          \/ args.split = "final" /\ ~(args.gate /\ args.identities)
       THEN Refuse ELSE stage' = "run"
    /\ UNCHANGED <<disk, edits, args, ran, judged>>

(* Any other dataset has no splits.                                        *)
SkipSelection ==
    /\ stage = "split" /\ read.dataset = "renamed"
    /\ stage' = "run"
    /\ UNCHANGED <<disk, edits, args, read, ran, judged>>

(* The contract whose models configure the run, or none of them.           *)
Contract_ByName == IF read.split # "none" THEN "benchmark" ELSE "none"

Contract ==
    IF args.protocol THEN read.protocol
    ELSE IF read.split # "none" THEN "benchmark"
    ELSE "none"

(* _model_overrides_from_validated_contract keeps the contract's models    *)
(* that were selected; BenchmarkRunner takes every other selected model as *)
(* the registry configures it.                                             *)
model_overrides == [m \in {l \in Listed : l \in args.models /\ Contract # "none"} |-> Contract]

Run ==
    /\ stage = "run"
    /\ ran' = [tasks |-> IF read.split = "none" THEN {"train", "development", "final"}
                         ELSE Selected(read.split, args.split),
               models |-> [m \in args.models |->
                  IF m \in DOMAIN model_overrides THEN model_overrides[m] ELSE "registry"]]
    /\ stage' = "done"
    /\ UNCHANGED <<disk, edits, args, read, judged>>

-----------------------------------------------------------------------------
(* A file is replaced while the program runs.                              *)
Edit ==
    /\ edits < MaxEdits /\ stage \notin {"done", "refused"}
    /\ \E f \in Files :
          /\ Cardinality({n \in DOMAIN f : f[n] # disk[n]}) = 1
          /\ disk' = f
    /\ edits' = edits + 1
    /\ UNCHANGED <<args, stage, read, ran, judged>>

(* python -m adaptive_llm_gateway.evaluation: a judge model and the        *)
(* acknowledgement come together or not at all, and never with             *)
(* --summary-only.                                                         *)
EvaluationCommand ==
    /\ stage = "done" /\ ~judged.calls
    /\ \E model, allow, summaryOnly \in BOOLEAN :
          /\ ~(summaryOnly /\ (model \/ allow))
          /\ model = allow
          /\ model => args.key
          /\ judged' = [calls |-> model /\ ~summaryOnly, consent |-> allow]
    /\ UNCHANGED <<disk, edits, args, stage, read, ran>>

(* HybridValidationRunner.run: only the fake judge runs unauthorised.      *)
ValidationCommand ==
    /\ stage = "done" /\ ~judged.calls
    /\ \E fake, authorized \in BOOLEAN :
          /\ fake \/ authorized
          /\ judged' = [calls |-> ~fake, consent |-> authorized]
    /\ UNCHANGED <<disk, edits, args, stage, read, ran>>

Next ==
    \/ CheckModels \/ LoadDataset \/ load_execution_protocol \/ load_pricing_readiness
    \/ select_execution_dataset \/ SkipSelection \/ Run
    \/ Edit \/ EvaluationCommand \/ ValidationCommand

Spec == Init /\ [][Next]_vars

-----------------------------------------------------------------------------
TypeOK ==
    /\ disk \in Files
    /\ edits \in 0..MaxEdits
    /\ args \in Arguments
    /\ stage \in {"models", "dataset", "protocol", "pricing", "split", "run", "done", "refused"}
    /\ DOMAIN ran.models \subseteq Registered
    /\ \A m \in DOMAIN ran.models :
          ran.models[m] \in {"registry", "benchmark"} \cup (Protocols \ {"edited"})

(* Money is spent only on an explicit acknowledgement, at each of the      *)
(* three entry points.                                                     *)
PaidNeedsConsent ==
    /\ Paid(DOMAIN ran.models) => args.allow /\ args.key
    /\ judged.calls => judged.consent

(* A run under a protocol executes the dataset that protocol was frozen    *)
(* for, on the evidence it asks for, and each candidate it lists in its    *)
(* frozen configuration, whatever happens to the files while main() works  *)
(* its way through them.  Models it does not list may run next to them, as *)
(* the registry configures them.                                           *)
ProtocolPinsTheRun ==
    (stage = "done" /\ args.protocol) =>
        /\ read.protocol # "edited"
        /\ ContractDataset(read.protocol) = read.dataset
        /\ RequiresPricing(read.protocol) => read.pricing = "ready"
        /\ DOMAIN ran.models = args.models
        /\ \A m \in args.models :
              ran.models[m] = IF m \in Listed THEN read.protocol ELSE "registry"

(* The families that a split manifest holds out.                           *)
HeldOut(manifest) == IF manifest = "relabelled" THEN {"development"} ELSE {"final"}

(* A family that the split manifest main() read holds out is executed only *)
(* through the gate and with both identities.  The property ends there:    *)
(* the manifest itself is not pinned, so an exchanged one holds out other  *)
(* families than the frozen one, and a dataset under another name has no   *)
(* splits at all and runs whole.                                           *)
FinalNeedsTheGate ==
    (read.split # "none" /\ ran.tasks \cap HeldOut(read.split) # {}) =>
        args.split = "final" /\ args.gate /\ args.identities

(* Consent, the protocol and the split gate hold together on every path.   *)
GatesHold == PaidNeedsConsent /\ ProtocolPinsTheRun /\ FinalNeedsTheGate
=============================================================================
