-------------------------- MODULE PredictorArtifact --------------------------
(***************************************************************************)
(* The two files of a quality predictor (routing/predictor.py): builders   *)
(* that write the model and then its metadata (routing/train_predictor.py) *)
(* and load them back, and an application that loads them once at startup  *)
(* and predicts ever after (application/adaptive.py).                      *)
(*                                                                         *)
(* Each file is replaced atomically; the pair is not.  A build stands for  *)
(* its bytes and for their checksum.                                       *)
(***************************************************************************)
EXTENDS Naturals, Sequences, SequencesExt, FiniteSets

CONSTANTS
    Builders,     \* runs of train_predictor, each named after its build
    Approved,     \* the build whose checksum is approved for production
    Candidates,   \* model identifiers an operator may configure
    Known         \* those every artifact knows

ArtifactAssumption ==
    Builders \cap {Approved, "old", "none"} = {} /\ Known \subseteq Candidates

VARIABLES
    model,      \* predictor.pkl: a build, or None
    metadata,   \* metadata.json: [build, kind, defect], or NoMetadata
    build,      \* of each builder: where it is
    expected,   \* of each builder: the checksum it read back
    app,        \* the application: "start", "configured", "has_metadata",
                \* "serving", "refused"
    wanted,     \* the checksum the application read in the metadata
    loaded,     \* the build the application serves, or None
    refusal,    \* the error that stopped the application
    candidates, \* its configured candidates
    prediction  \* the last prediction: "none", "given", or an error

files == <<model, metadata>>
builders == <<build, expected>>
application == <<app, wanted, loaded, refusal, candidates, prediction>>
vars == <<files, builders, application>>

None == "none"
NoMetadata == [build |-> None, kind |-> None, defect |-> None]

Check(field, error) == [field |-> field, error |-> error]

\* _validate_metadata, in its order: the field that is looked at and the error
\* it raises.
DevelopmentChecks == <<
    Check("format", "IncompatibleArtifactFormatError"),
    Check("formulation", "IncompatiblePredictorFormulationError"),
    Check("features", "IncompatibleFeatureSchemaError"),
    Check("taxonomy", "IncompatibleCategoryTaxonomyError"),
    Check("governance", "CorruptPredictorArtifactError"),
    Check("candidates", "CorruptPredictorArtifactError"),
    Check("categories", "CorruptPredictorArtifactError"),
    Check("rows", "CorruptPredictorArtifactError"),
    Check("runtime", "IncompatibleArtifactFormatError")>>

\* _validate_production_metadata.
ProductionChecks == <<
    Check("checksum", "PredictorArtifactChecksumError"),
    Check("features", "IncompatibleFeatureSchemaError"),
    Check("formulation", "IncompatiblePredictorFormulationError"),
    Check("candidates", "CorruptPredictorArtifactError"),
    Check("categories", "IncompatibleCategoryTaxonomyError"),
    Check("governance", "CorruptPredictorArtifactError"),
    Check("approval", "CorruptPredictorArtifactError"),
    Check("rows", "CorruptPredictorArtifactError"),
    Check("runtime", "IncompatibleArtifactFormatError")>>

\* The error of the first check that fails; "corrupt" fails before them all.
\* Production metadata has one field more: its checksum is a constant.
MetadataError(m) ==
    LET checks == IF m.kind = "production" THEN ProductionChecks ELSE DevelopmentChecks
        fails(c) == c.field = m.defect
                    \/ (c.field = "checksum" /\ m.build # Approved)
        failing == {i \in DOMAIN checks : fails(checks[i])}
    IN  IF m.build = None THEN "PredictorArtifactNotFoundError"
        ELSE IF m.defect = "corrupt" THEN "CorruptPredictorArtifactError"
        ELSE IF failing # {} THEN checks[Min(failing)].error ELSE None

\* What can be wrong with installed metadata: the field a loader looks at.
Defects == {None, "corrupt", "format", "formulation", "features", "taxonomy",
            "governance", "approval", "checksum", "candidates", "categories",
            "rows", "runtime"}

Build(b) == [build |-> b, kind |-> "development", defect |-> None]
Installed(b, k, d) == [build |-> b, kind |-> k, defect |-> d]

\* The directory is empty, or holds what was installed: a production artifact,
\* approved or not, or an older build, each maybe damaged or meant for other
\* software, next to bytes that may be another build's.
Init ==
    /\ \/ model = None /\ metadata = NoMetadata
       \/ /\ model \in {Approved, "old"}
          /\ \/ \E b \in {Approved, "old"},
                   d \in Defects \ {"format", "taxonomy"} :
                   metadata = Installed(b, "production", d)
             \/ \E d \in Defects \ {"checksum", "approval"} :
                   metadata = Installed("old", "development", d)
    /\ build = [b \in Builders |-> "idle"]
    /\ expected = [b \in Builders |-> None]
    /\ app = "start" /\ wanted = None /\ loaded = None /\ refusal = None
    /\ candidates \in UNION {[1 .. n -> Candidates] : n \in 1 .. 2}
    /\ prediction = None

-----------------------------------------------------------------------------
(* The builders.                                                           *)

\* Everything before the first write: frozen inputs, parity, label counts, the
\* fit and its probabilities.  Any of them may stop the build.
Fit(b) ==
    /\ build[b] = "idle"
    /\ build' = [build EXCEPT ![b] = "fitted"] \/ build' = [build EXCEPT ![b] = "failed"]
    /\ UNCHANGED <<files, expected, application>>

WriteModel(b) ==
    /\ build[b] = "fitted"
    /\ model' = b
    /\ build' = [build EXCEPT ![b] = "wrote_model"]
    /\ UNCHANGED <<metadata, expected, application>>

WriteMetadata(b) ==
    /\ build[b] = "wrote_model"
    /\ metadata' = Build(b)
    /\ build' = [build EXCEPT ![b] = "written"]
    /\ UNCHANGED <<model, expected, application>>

\* The builder loads what it wrote, in the loader's two reads.
ReadBackMetadata(b) ==
    /\ build[b] = "written"
    /\ IF MetadataError(metadata) = None
       THEN /\ expected' = [expected EXCEPT ![b] = metadata.build]
            /\ build' = [build EXCEPT ![b] = "reading"]
       ELSE build' = [build EXCEPT ![b] = "failed"] /\ UNCHANGED expected
    /\ UNCHANGED <<files, application>>

\* Mutant: the read-back does not look at the checksum.
ReadBackModel_Unchecked(b) ==
    /\ build[b] = "reading"
    /\ build' = [build EXCEPT ![b] = "done"]
    /\ UNCHANGED <<files, expected, application>>

ReadBackModel(b) ==
    /\ build[b] = "reading"
    /\ build' = [build EXCEPT ![b] = IF model = expected[b] THEN "done" ELSE "failed"]
    /\ UNCHANGED <<files, expected, application>>

\* A write fails, or the process dies; what was replaced stays.
Abandon(b) ==
    /\ build[b] \in {"fitted", "wrote_model", "written", "reading"}
    /\ build' = [build EXCEPT ![b] = "crashed"]
    /\ UNCHANGED <<files, expected, application>>

-----------------------------------------------------------------------------
(* The application.                                                        *)

\* Mutant: the error is swallowed.
Refuse_Silent(error) == app' = "refused" /\ UNCHANGED refusal

Refuse(error) == app' = "refused" /\ refusal' = error

\* AdaptiveRoutingConfig: identifiers must be unique.
Configure ==
    /\ app = "start"
    /\ IF IsInjective(candidates) THEN app' = "configured" /\ UNCHANGED refusal
                                  ELSE Refuse("ValueError")
    /\ UNCHANGED <<files, builders, wanted, loaded, candidates, prediction>>

\* load_trusted_quality_artifact: metadata first.
LoadMetadata ==
    /\ app = "configured"
    /\ IF MetadataError(metadata) = None
       THEN app' = "has_metadata" /\ wanted' = metadata.build /\ UNCHANGED refusal
       ELSE Refuse(MetadataError(metadata)) /\ UNCHANGED wanted
    /\ UNCHANGED <<files, builders, loaded, candidates, prediction>>

ModelError(bytes, checksum) ==
    CASE bytes = None -> "PredictorArtifactNotFoundError"
      [] bytes # checksum -> "PredictorArtifactChecksumError"
      [] OTHER -> None

\* Then the model, its checksum, and the configured candidates.
LoadModel ==
    /\ app = "has_metadata"
    /\ IF ModelError(model, wanted) # None THEN Refuse(ModelError(model, wanted)) /\ UNCHANGED loaded
       ELSE IF ~(ToSet(candidates) \subseteq Known)
       THEN Refuse("UnsupportedPredictorCandidateError") /\ UNCHANGED loaded
       ELSE app' = "serving" /\ loaded' = model /\ UNCHANGED refusal
    /\ UNCHANGED <<files, builders, wanted, candidates, prediction>>

\* predict, for a category and the configured candidates.
PredictError(category) ==
    CASE category = "absent" -> "MissingRoutingCategoryError"
      [] ~IsInjective(candidates) -> "PredictorInputCompatibilityError"
      [] ~(ToSet(candidates) \subseteq Known) -> "UnsupportedPredictorCandidateError"
      [] OTHER -> "given"

\* Requests carry one of the routing categories, all of which are known.
Predict ==
    /\ app = "serving"
    /\ prediction' = PredictError("known")
    /\ UNCHANGED <<files, builders, app, wanted, loaded, refusal, candidates>>

Next ==
    \/ \E b \in Builders :
          \/ Fit(b) \/ WriteModel(b) \/ WriteMetadata(b)
          \/ ReadBackMetadata(b) \/ ReadBackModel(b) \/ Abandon(b)
    \/ Configure \/ LoadMetadata \/ LoadModel \/ Predict

Spec == Init /\ [][Next]_vars

-----------------------------------------------------------------------------
(* Properties.                                                             *)

\* The variables hold what the code can put there.
TypeOK ==
    /\ model \in Builders \cup {Approved, "old", None}
    /\ build \in [Builders -> {"idle", "fitted", "wrote_model", "written",
                               "reading", "done", "failed", "crashed"}]
    /\ app \in {"start", "configured", "has_metadata", "serving", "refused"}
    /\ (app = "refused") <=> (refusal # None)
    /\ prediction \in {None, "given", "MissingRoutingCategoryError",
                       "PredictorInputCompatibilityError",
                       "UnsupportedPredictorCandidateError"}

Ended == {"idle", "done", "failed", "crashed"}

\* Builders that run at the same time can leave a model and metadata that do
\* not belong together, but never unseen: unless a builder died on the way, the
\* one whose metadata is there has failed (build_predictor_artifact loads what
\* it wrote, after writing both).
MismatchIsNoticed ==
    (/\ metadata.build \in Builders /\ metadata.build # model
     /\ \A b \in Builders : build[b] \in Ended \ {"crashed"})
        => build[metadata.build] = "failed"

\* The application serves the very bytes its metadata vouched for, however the
\* files changed between the two reads (load_trusted_quality_artifact).
ServedIsVouchedFor == app = "serving" => loaded = wanted

\* A damaged artifact, one for other software, or another runtime, never serves:
\* startup stops, and production metadata vouches for the approved build only.
OnlySoundArtifactsServe ==
    app = "configured" /\ app' = "has_metadata" =>
        /\ metadata.defect = None
        /\ metadata.kind = "production" => wanted' = Approved

\* What startup checks, prediction relies on: a serving application never
\* refuses its own candidates (predict against from_trusted_artifact and
\* AdaptiveRoutingConfig).
PredictionsNeverRefused == prediction \in {None, "given"}

\* Two files that are replaced one by one are as good as one: a mixed pair is
\* noticed by the builder, refused by the application, and what serves predicts.
ArtifactIsWhole ==
    MismatchIsNoticed /\ ServedIsVouchedFor /\ PredictionsNeverRefused
=============================================================================
