------------------------ MODULE RoutingStudiesProofs -------------------------
(***************************************************************************)
(* What MCOffline checks of the decision service, of the predictor        *)
(* artifact, of the comparisons of offline policies, of the folds and of   *)
(* what a change may do, proved for every candidate list, cost scale,      *)
(* number of builders, labelled dataset and number of folds, categories    *)
(* and tasks.                                                              *)
(***************************************************************************)
EXTENDS MCOffline, RoutingLemmas

-----------------------------------------------------------------------------
(* The parts of the composition.                                           *)

\* Whatever part moves, each component starts in one of its initial states and
\* takes one of its steps or none.
LEMMA PartsSteps ==
    /\ PartsInit => Init /\ Dealing!Init /\ Offline!Init /\ Artifact!Init
    /\ [PartsNext]_allVars => /\ [Next]_vars
                              /\ [Dealing!Next]_(Dealing!vars)
                              /\ [Offline!Next]_(Offline!vars)
                              /\ [Artifact!Next]_(Artifact!vars)
<1>1. PartsInit => Init /\ Dealing!Init /\ Offline!Init /\ Artifact!Init
  BY Zenon DEF PartsInit, FoldsRest, DecisionRests, OfflineRests, ArtifactRests
<1>2. [PartsNext]_allVars => [Next]_vars
  BY DEF PartsNext, allVars, vars
<1>3. [PartsNext]_allVars => [Dealing!Next]_(Dealing!vars)
  BY DEF PartsNext, allVars, dealing, Dealing!vars
<1>4. [PartsNext]_allVars => [Offline!Next]_(Offline!vars)
  BY DEF PartsNext, allVars, offline, Offline!vars
<1>5. [PartsNext]_allVars => [Artifact!Next]_(Artifact!vars)
  BY DEF PartsNext, allVars, artifact, Artifact!vars, Artifact!files, Artifact!builders,
         Artifact!application
<1> QED
  BY <1>1, <1>2, <1>3, <1>4, <1>5

-----------------------------------------------------------------------------
(* The predictor artifact.                                                 *)

Stages == {"idle", "fitted", "wrote_model", "written", "reading", "done", "failed", "crashed"}

\* The checks of metadata raise an error, and find every defect that is not
\* another kind's.
MetadataTyped ==
    /\ metadata \in [build : Builders \cup {Approved, "old", "none"},
                     kind : {"production", "development", "none"},
                     defect : Artifact!Defects]
    /\ metadata.kind = "none" => metadata.build = "none"
    /\ metadata.kind = "production" => metadata.defect \notin {"format", "taxonomy"}
    /\ metadata.kind = "development" => metadata.defect \notin {"checksum", "approval"}

\* The builder whose metadata is on disk has written both files and expects its
\* own model back; if it was content and the model is another's, that other one
\* has not come to its metadata, or never will.
Noticed ==
    metadata.build \in Builders =>
        LET b == metadata.build
        IN  /\ build[b] \in {"written", "reading", "done", "failed", "crashed"}
            /\ build[b] \in {"reading", "done"} => expected[b] = b
            /\ build[b] = "done" /\ model # b =>
                  \E c \in Builders : model = c /\ build[c] \in {"wrote_model", "crashed"}

\* What the application has checked so far.
Startup ==
    /\ app \in {"configured", "has_metadata", "serving"} => Artifact!IsInjective(configured)
    /\ app = "serving" => Artifact!ToSet(configured) \subseteq Known /\ loaded = wanted
    /\ prediction \in {"none", "given"}

ArtifactInv ==
    Artifact!TypeOK /\ expected \in [Builders -> Builders \cup {Approved, "old", "none"}]
    /\ MetadataTyped /\ Noticed /\ Startup

\* _validate_metadata and _validate_production_metadata let nothing through: what
\* they accept has no defect and, in production, is the approved build; whatever
\* they refuse, they refuse with an error.
LEMMA MetadataChecks ==
    ASSUME MetadataTyped, Artifact!MetadataError(metadata) = "none"
    PROVE  /\ metadata.build # "none" /\ metadata.defect = "none"
           /\ metadata.kind = "production" => metadata.build = Approved
<1> DEFINE checks == IF metadata.kind = "production" THEN Artifact!ProductionChecks
                     ELSE Artifact!DevelopmentChecks
           Fails(c) == c.field = metadata.defect
                       \/ (c.field = "checksum" /\ metadata.build # Approved)
           failing == {i \in DOMAIN checks : Fails(checks[i])}
<1>1. /\ DOMAIN checks = 1 .. 9
      /\ \A i \in 1 .. 9 : checks[i].error # "none"
  <2>1. /\ DOMAIN Artifact!ProductionChecks = 1 .. 9
        /\ \A i \in 1 .. 9 : Artifact!ProductionChecks[i].error # "none"
    BY DEF Artifact!ProductionChecks, Artifact!Check
  <2>2. /\ DOMAIN Artifact!DevelopmentChecks = 1 .. 9
        /\ \A i \in 1 .. 9 : Artifact!DevelopmentChecks[i].error # "none"
    BY DEF Artifact!DevelopmentChecks, Artifact!Check
  <2> QED
    BY <2>1, <2>2
<1>2. Artifact!Min(failing) = Min(failing)
  BY DEF Artifact!Min, Min
<1>3. Artifact!MetadataError(metadata) =
        IF metadata.build = "none" THEN "PredictorArtifactNotFoundError"
        ELSE IF metadata.defect = "corrupt" THEN "CorruptPredictorArtifactError"
        ELSE IF failing # {} THEN checks[Artifact!Min(failing)].error ELSE "none"
  BY DEF Artifact!MetadataError, Artifact!None
<1> HIDE DEF checks
<1>4. failing = {}
  <2>1. failing \subseteq 1 .. 9
    BY <1>1
  <2>2. failing # {} => Min(failing) \in 1 .. 9
    BY <2>1, MinPlace
  <2> HIDE DEF failing
  <2> QED
    BY <1>1, <1>2, <1>3, <2>2
<1>5. metadata.build # "none" /\ metadata.defect # "corrupt"
  BY <1>3
<1>6. ASSUME NEW i \in 1 .. 9
      PROVE  /\ checks[i].field # metadata.defect
             /\ checks[i].field = "checksum" => metadata.build = Approved
  BY <1>1, <1>4
<1>7. CASE metadata.kind = "production"
  <2>1. checks = Artifact!ProductionChecks
    BY <1>7 DEF checks
  <2>2. /\ checks[1].field = "checksum" /\ checks[2].field = "features"
        /\ checks[3].field = "formulation" /\ checks[4].field = "candidates"
        /\ checks[5].field = "categories" /\ checks[6].field = "governance"
        /\ checks[7].field = "approval" /\ checks[8].field = "rows"
        /\ checks[9].field = "runtime"
    BY <2>1 DEF Artifact!ProductionChecks, Artifact!Check
  <2>3. metadata.defect \notin {checks[i].field : i \in 1 .. 9} /\ metadata.build = Approved
    BY <1>6, <2>2
  <2>4. metadata.defect \in Artifact!Defects \ {"format", "taxonomy"}
    BY <1>7 DEF MetadataTyped
  <2> QED
    BY <1>5, <2>2, <2>3, <2>4 DEF Artifact!Defects, Artifact!None
<1>8. CASE metadata.kind # "production"
  <2>1. checks = Artifact!DevelopmentChecks /\ metadata.kind = "development"
    BY <1>5, <1>8 DEF checks, MetadataTyped
  <2>2. /\ checks[1].field = "format" /\ checks[2].field = "formulation"
        /\ checks[3].field = "features" /\ checks[4].field = "taxonomy"
        /\ checks[5].field = "governance" /\ checks[6].field = "candidates"
        /\ checks[7].field = "categories" /\ checks[8].field = "rows"
        /\ checks[9].field = "runtime"
    BY <2>1 DEF Artifact!DevelopmentChecks, Artifact!Check
  <2>3. metadata.defect \notin {checks[i].field : i \in 1 .. 9}
    BY <1>6, <2>2
  <2>4. metadata.defect \in Artifact!Defects \ {"checksum", "approval"}
    BY <2>1 DEF MetadataTyped
  <2> QED
    BY <1>5, <1>8, <2>2, <2>3, <2>4 DEF Artifact!Defects, Artifact!None
<1> QED
  BY <1>7, <1>8

\* An empty directory or an installed artifact, idle builders, an application that
\* has checked nothing.
LEMMA ArtifactStart == Artifact!Init => ArtifactInv
<1> SUFFICES ASSUME Artifact!Init PROVE ArtifactInv
  OBVIOUS
<1> USE DEF Artifact!Init, Artifact!None
<1>1. Artifact!TypeOK /\ expected \in [Builders -> Builders \cup {Approved, "old", "none"}]
  BY DEF Artifact!TypeOK, Artifact!NoMetadata
<1>2. MetadataTyped
  BY DEF MetadataTyped, Artifact!NoMetadata, Artifact!Installed, Artifact!Defects
<1>3. Noticed
  BY InstalledAssumption DEF Noticed, Artifact!NoMetadata, Artifact!Installed,
     Artifact!ArtifactAssumption
<1>4. Startup
  BY DEF Startup
<1> QED
  BY <1>1, <1>2, <1>3, <1>4 DEF ArtifactInv

\* What a builder does leaves the application's checks alone.
LEMMA BuilderStep ==
    ASSUME ArtifactInv, NEW b \in Builders,
           \/ Artifact!Fit(b) \/ Artifact!WriteModel(b) \/ Artifact!WriteMetadata(b)
           \/ Artifact!ReadBackMetadata(b) \/ Artifact!ReadBackModel(b) \/ Artifact!Abandon(b)
    PROVE  ArtifactInv'
<1> DEFINE Everyone == Builders \cup {Approved, "old", "none"}
<1>0. /\ model \in Everyone /\ build \in [Builders -> Stages] /\ expected \in [Builders -> Everyone]
      /\ metadata.build \in Everyone /\ b \in Everyone /\ b # "none"
      /\ MetadataTyped /\ Noticed /\ Startup /\ Artifact!TypeOK
  BY InstalledAssumption DEF ArtifactInv, Artifact!TypeOK, Artifact!None, Stages, MetadataTyped,
     Artifact!ArtifactAssumption
<1>1. UNCHANGED <<app, wanted, loaded, refusal, configured, prediction>>
  BY DEF Artifact!Fit, Artifact!WriteModel, Artifact!WriteMetadata, Artifact!ReadBackMetadata,
         Artifact!ReadBackModel, Artifact!Abandon, Artifact!application
<1>2. Startup'
  BY <1>0, <1>1 DEF Startup, Artifact!IsInjective, Artifact!ToSet
<1>3. ASSUME model' \in Everyone, build' \in [Builders -> Stages] PROVE Artifact!TypeOK'
  BY <1>0, <1>1, <1>3 DEF Artifact!TypeOK, Artifact!None, Stages
<1>4. CASE Artifact!Fit(b) \/ Artifact!Abandon(b)
  <2>1. /\ UNCHANGED <<model, metadata, expected>>
        /\ \E s \in {"fitted", "failed", "crashed"} : build' = [build EXCEPT ![b] = s]
        /\ build[b] \in {"idle", "fitted", "wrote_model", "written", "reading"}
        /\ build[b] = "wrote_model" => build'[b] = "crashed"
        /\ build[b] # "idle" => build' = [build EXCEPT ![b] = "crashed"]
    BY <1>0, <1>4 DEF Artifact!Fit, Artifact!Abandon, Artifact!files
  <2>2. Artifact!TypeOK' /\ (expected \in [Builders -> Everyone])'
    BY <1>0, <1>3, <2>1 DEF Stages
  <2>3. MetadataTyped'
    BY <1>0, <2>1 DEF MetadataTyped
  <2>4. Noticed'
    <3>1. build' \in [Builders -> Stages] /\ \A c \in Builders \ {b} : build'[c] = build[c]
      BY <1>0, <2>1 DEF Stages
    <3>2. b = metadata.build => build'[b] = "crashed"
      BY <1>0, <2>1 DEF Noticed
    <3> QED
      BY <1>0, <2>1, <3>1, <3>2 DEF Noticed
  <2> QED
    BY <1>2, <2>2, <2>3, <2>4 DEF ArtifactInv
<1>5. CASE Artifact!WriteModel(b)
  <2>1. /\ UNCHANGED <<metadata, expected>> /\ model' = b /\ build[b] = "fitted"
        /\ build' = [build EXCEPT ![b] = "wrote_model"]
    BY <1>5 DEF Artifact!WriteModel
  <2>2. Artifact!TypeOK' /\ (expected \in [Builders -> Everyone])'
    BY <1>0, <1>3, <2>1 DEF Stages
  <2>3. MetadataTyped'
    BY <1>0, <2>1 DEF MetadataTyped
  <2>4. Noticed'
    BY <1>0, <2>1 DEF Noticed
  <2> QED
    BY <1>2, <2>2, <2>3, <2>4 DEF ArtifactInv
<1>6. CASE Artifact!WriteMetadata(b)
  <2>1. /\ UNCHANGED <<model, expected>> /\ build[b] = "wrote_model"
        /\ metadata' = [build |-> b, kind |-> "development", defect |-> "none"]
        /\ build' = [build EXCEPT ![b] = "written"]
    BY <1>6 DEF Artifact!WriteMetadata, Artifact!Build, Artifact!None
  <2>2. Artifact!TypeOK' /\ (expected \in [Builders -> Everyone])'
    BY <1>0, <1>3, <2>1 DEF Stages
  <2>3. MetadataTyped'
    BY <1>0, <2>1 DEF MetadataTyped, Artifact!Defects, Artifact!None
  <2>4. Noticed'
    BY <1>0, <2>1 DEF Noticed
  <2> QED
    BY <1>2, <2>2, <2>3, <2>4 DEF ArtifactInv
<1>7. CASE Artifact!ReadBackMetadata(b)
  <2>1. /\ UNCHANGED <<model, metadata>> /\ build[b] = "written"
        /\ \/ /\ expected' = [expected EXCEPT ![b] = metadata.build]
              /\ build' = [build EXCEPT ![b] = "reading"]
           \/ build' = [build EXCEPT ![b] = "failed"] /\ UNCHANGED expected
    BY <1>7 DEF Artifact!ReadBackMetadata, Artifact!files
  <2>2. Artifact!TypeOK' /\ (expected \in [Builders -> Everyone])'
    BY <1>0, <1>3, <2>1 DEF Stages
  <2>3. MetadataTyped'
    BY <1>0, <2>1 DEF MetadataTyped
  <2>4. Noticed'
    BY <1>0, <2>1 DEF Noticed
  <2> QED
    BY <1>2, <2>2, <2>3, <2>4 DEF ArtifactInv
<1>8. CASE Artifact!ReadBackModel(b)
  <2>1. /\ UNCHANGED <<model, metadata, expected>> /\ build[b] = "reading"
        /\ \/ model = expected[b] /\ build' = [build EXCEPT ![b] = "done"]
           \/ build' = [build EXCEPT ![b] = "failed"]
    BY <1>8 DEF Artifact!ReadBackModel, Artifact!files
  <2>2. Artifact!TypeOK' /\ (expected \in [Builders -> Everyone])'
    BY <1>0, <1>3, <2>1 DEF Stages
  <2>3. MetadataTyped'
    BY <1>0, <2>1 DEF MetadataTyped
  <2>4. Noticed'
    BY <1>0, <2>1 DEF Noticed
  <2> QED
    BY <1>2, <2>2, <2>3, <2>4 DEF ArtifactInv
<1> QED
  BY <1>4, <1>5, <1>6, <1>7, <1>8

\* What the application does leaves the files and the builders alone.
LEMMA ApplicationStep ==
    ASSUME ArtifactInv,
           \/ Artifact!Configure \/ Artifact!LoadMetadata \/ Artifact!LoadModel
           \/ Artifact!Predict
    PROVE  ArtifactInv'
<1>1. UNCHANGED <<model, metadata, build, expected, configured>>
  BY DEF Artifact!Configure, Artifact!LoadMetadata, Artifact!LoadModel, Artifact!Predict,
         Artifact!files, Artifact!builders
<1>2. /\ (expected \in [Builders -> Builders \cup {Approved, "old", "none"}])'
      /\ MetadataTyped' /\ Noticed'
  BY <1>1 DEF ArtifactInv, MetadataTyped, Noticed
<1>3. Artifact!TypeOK /\ Startup
  BY DEF ArtifactInv
<1>4. CASE Artifact!Configure
  <2>1. /\ app = "start" /\ UNCHANGED <<wanted, loaded, prediction>>
        /\ \/ /\ Artifact!IsInjective(configured) /\ app' = "configured" /\ UNCHANGED refusal
           \/ app' = "refused" /\ refusal' = "ValueError"
    BY <1>4 DEF Artifact!Configure, Artifact!Refuse
  <2>2. Artifact!TypeOK'
    BY <1>1, <1>3, <2>1 DEF Artifact!TypeOK, Artifact!None
  <2>3. Startup'
    BY <1>1, <1>3, <2>1 DEF Startup, Artifact!IsInjective, Artifact!ToSet
  <2> QED
    BY <1>2, <2>2, <2>3 DEF ArtifactInv
<1>5. CASE Artifact!LoadMetadata
  <2>1. /\ app = "configured" /\ UNCHANGED <<loaded, prediction>>
        /\ \/ app' = "has_metadata" /\ UNCHANGED refusal
           \/ app' = "refused" /\ refusal' # "none"
    BY <1>5 DEF Artifact!LoadMetadata, Artifact!Refuse, Artifact!None
  <2>2. Artifact!TypeOK'
    BY <1>1, <1>3, <2>1 DEF Artifact!TypeOK, Artifact!None
  <2>3. Startup'
    BY <1>1, <1>3, <2>1 DEF Startup, Artifact!IsInjective, Artifact!ToSet
  <2> QED
    BY <1>2, <2>2, <2>3 DEF ArtifactInv
<1>6. CASE Artifact!LoadModel
  <2>1. /\ app = "has_metadata" /\ UNCHANGED <<wanted, prediction>>
        /\ \/ /\ Artifact!ModelError(model, wanted) = "none"
              /\ Artifact!ToSet(configured) \subseteq Known
              /\ app' = "serving" /\ loaded' = model /\ UNCHANGED refusal
           \/ app' = "refused" /\ refusal' # "none"
    BY <1>6 DEF Artifact!LoadModel, Artifact!Refuse, Artifact!None
  <2>2. Artifact!ModelError(model, wanted) = "none" => model = wanted
    BY DEF Artifact!ModelError, Artifact!None
  <2>3. Artifact!TypeOK'
    BY <1>1, <1>3, <2>1 DEF Artifact!TypeOK, Artifact!None
  <2>4. Startup'
    BY <1>1, <1>3, <2>1, <2>2 DEF Startup, Artifact!IsInjective, Artifact!ToSet
  <2> QED
    BY <1>2, <2>3, <2>4 DEF ArtifactInv
<1>7. CASE Artifact!Predict
  <2>1. app = "serving" /\ UNCHANGED <<app, wanted, loaded, refusal>> /\ prediction' = "given"
    BY <1>3, <1>7 DEF Artifact!Predict, Artifact!PredictError, Startup
  <2>2. Artifact!TypeOK'
    BY <1>1, <1>3, <2>1 DEF Artifact!TypeOK, Artifact!None
  <2>3. Startup'
    BY <1>1, <1>3, <2>1 DEF Startup, Artifact!IsInjective, Artifact!ToSet
  <2> QED
    BY <1>2, <2>2, <2>3 DEF ArtifactInv
<1> QED
  BY <1>4, <1>5, <1>6, <1>7

\* However the builders and the application interleave.
LEMMA ArtifactStep == ArtifactInv /\ [Artifact!Next]_(Artifact!vars) => ArtifactInv'
<1> SUFFICES ASSUME ArtifactInv, [Artifact!Next]_(Artifact!vars) PROVE ArtifactInv'
  OBVIOUS
<1>1. CASE UNCHANGED Artifact!vars
  <2>1. UNCHANGED <<model, metadata, build, expected, app, wanted, loaded, refusal,
                    configured, prediction>>
    BY <1>1 DEF Artifact!vars, Artifact!files, Artifact!builders, Artifact!application
  <2> QED
    BY <2>1 DEF ArtifactInv, Artifact!TypeOK, MetadataTyped, Noticed, Startup,
                Artifact!IsInjective, Artifact!ToSet
<1>2. CASE Artifact!Next
  BY <1>2, BuilderStep, ApplicationStep DEF Artifact!Next
<1> QED
  BY <1>1, <1>2

\* The artifact's invariant holds of every behaviour.
LEMMA ArtifactInvariant == PartsSpec => []ArtifactInv
<1>1. PartsInit => ArtifactInv
  BY PartsSteps, ArtifactStart
<1>2. ArtifactInv /\ [PartsNext]_allVars => ArtifactInv'
  BY PartsSteps, ArtifactStep
<1> QED
  BY <1>1, <1>2, PTL DEF PartsSpec

\* The two files of a predictor, written and read one by one by any number of
\* builders and an application, are as good as one: a mixed pair is noticed by the
\* builder whose metadata it has, what serves is what its metadata vouched for, and
\* a serving application never refuses its own candidates
\* (routing/train_predictor.py, routing/predictor.py, application/adaptive.py).
THEOREM ArtifactProved == PartsSpec => []ArtifactIsWhole
<1>1. ASSUME ArtifactInv PROVE ArtifactIsWhole
  <2>1. Noticed /\ Startup /\ build \in [Builders -> Stages]
    BY <1>1 DEF ArtifactInv, Artifact!TypeOK, Stages
  <2>2. Artifact!MismatchIsNoticed
    <3> SUFFICES ASSUME metadata.build \in Builders, metadata.build # model,
                        \A b \in Builders : build[b] \in Artifact!Ended \ {"crashed"}
                 PROVE  build[metadata.build] = "failed"
      BY DEF Artifact!MismatchIsNoticed
    <3> QED
      BY <2>1 DEF Noticed, Artifact!Ended
  <2>3. Artifact!ServedIsVouchedFor /\ Artifact!PredictionsNeverRefused
    BY <2>1 DEF Startup, Artifact!ServedIsVouchedFor, Artifact!PredictionsNeverRefused,
                Artifact!None
  <2> QED
    BY <2>2, <2>3 DEF ArtifactIsWhole, Artifact!ArtifactIsWhole
<1>2. ArtifactInv => ArtifactIsWhole
  BY <1>1
<1> QED
  BY <1>2, ArtifactInvariant, PTL

-----------------------------------------------------------------------------
(* The decision service.                                                   *)

\* A list read backwards has the same length and members, and as many duplicates.
LEMMA ReverseFacts ==
    ASSUME NEW T, NEW s \in Seq(T)
    PROVE  /\ Reverse(s) \in Seq(T) /\ Len(Reverse(s)) = Len(s)
           /\ \A i \in 1 .. Len(s) : Reverse(s)[i] = s[(Len(s) - i) + 1]
           /\ ToSet(Reverse(s)) = ToSet(s)
           /\ IsInjective(Reverse(s)) <=> IsInjective(s)
<1> DEFINE n == Len(s)
           r == Reverse(s)
<1>1. n \in Nat /\ DOMAIN s = 1 .. n /\ s \in [1 .. n -> T]
  BY LenProperties
<1>2. \A i \in 1 .. n : (n - i) + 1 \in 1 .. n /\ (n - ((n - i) + 1)) + 1 = i
  BY <1>1
<1>3. r = [i \in 1 .. n |-> s[(n - i) + 1]]
  BY DEF Reverse
<1> HIDE DEF n, r
<1>4. r \in [1 .. n -> T]
  BY <1>1, <1>2, <1>3
<1>5. r \in Seq(T) /\ Len(r) = n /\ DOMAIN r = 1 .. n
  <2>1. r \in Seq(T)
    BY <1>1, <1>4, SeqDef
  <2> QED
    BY <1>1, <1>4, <2>1, LenProperties
<1>6. \A i \in 1 .. n : r[i] = s[(n - i) + 1] /\ r[(n - i) + 1] = s[i]
  BY <1>2, <1>3
<1>7. ToSet(r) = ToSet(s)
  <2>1. ToSet(r) = {r[i] : i \in 1 .. n} /\ ToSet(s) = {s[i] : i \in 1 .. n}
    BY <1>1, <1>5 DEF ToSet
  <2>2. \A i \in 1 .. n : (\E j \in 1 .. n : r[i] = s[j]) /\ (\E j \in 1 .. n : s[i] = r[j])
    BY <1>2, <1>6
  <2>3. ASSUME NEW x \in ToSet(r) PROVE x \in ToSet(s)
    BY <2>1, <2>2
  <2>4. ASSUME NEW x \in ToSet(s) PROVE x \in ToSet(r)
    BY <2>1, <2>2
  <2> QED
    BY <2>3, <2>4
<1>8. ASSUME IsInjective(s), NEW i \in 1 .. n, NEW j \in 1 .. n, r[i] = r[j] PROVE i = j
  <2>1. (n - i) + 1 = (n - j) + 1
    BY <1>1, <1>2, <1>6, <1>8 DEF IsInjective
  <2> QED
    BY <1>1, <2>1
<1>9. ASSUME IsInjective(r), NEW i \in 1 .. n, NEW j \in 1 .. n, s[i] = s[j] PROVE i = j
  <2>0. \A a, b \in 1 .. n : r[a] = r[b] => a = b
    BY <1>5, <1>9 DEF IsInjective
  <2>1. (n - i) + 1 = (n - j) + 1
    BY <1>2, <1>6, <1>9, <2>0
  <2> QED
    BY <1>1, <2>1
<1>10. IsInjective(r) <=> IsInjective(s)
  BY <1>1, <1>5, <1>8, <1>9 DEF IsInjective
<1> QED
  BY <1>5, <1>6, <1>7, <1>10 DEF n, r

\* CostAwareRoutingPolicy.route does not look at the order of its candidates:
\* identifiers break every tie, so the least one is the same in any list.
LEMMA OrderIsIgnored ==
    ASSUME NEW S, NEW l1, NEW l2, NEW acc, NEW price, NEW bar,
           Answerable(S, l1, acc, price, bar), Answerable(S, l2, acc, price, bar),
           ToSet(l1) = ToSet(l2)
    PROVE  Decision(l1, acc, price, bar) = Decision(l2, acc, price, bar)
<1> DEFINE all == ToSet(l1)
           met == {m \in all : acc[m] >= bar}
           Selected(l) == IF met # {} THEN CheapestOf(l, met, price)
                          ELSE BestOf(l, all, acc, price)
           Made(x) == [error |-> "none", selected |-> x, fallback |-> met = {},
                       qualifies |-> met]
<1>1. Decision(l1, acc, price, bar) = Made(Selected(l1))
  BY Zenon DEF Decision, Qualifies, CheapestOf, BestOf
<1>2. Decision(l2, acc, price, bar) = Made(Selected(l2))
  <2>1. Decision(l2, acc, price, bar) =
          [error |-> "none",
           selected |-> IF {m \in ToSet(l2) : acc[m] >= bar} # {}
                        THEN CheapestOf(l2, {m \in ToSet(l2) : acc[m] >= bar}, price)
                        ELSE BestOf(l2, ToSet(l2), acc, price),
           fallback |-> {m \in ToSet(l2) : acc[m] >= bar} = {},
           qualifies |-> {m \in ToSet(l2) : acc[m] >= bar}]
    BY Zenon DEF Decision, Qualifies, CheapestOf, BestOf
  <2> QED
    BY <2>1, Zenon
<1>3. all \subseteq Int /\ \A m \in all : acc[m] \in Int /\ price[m] \in Int
  <2>1. all \subseteq S
    BY ListIsFinite DEF Answerable
  <2> QED
    BY <2>1 DEF Answerable
<1>4. /\ Selected(l1) \in all
      /\ met # {} => Selected(l1) \in met /\ \A n \in met : ~Cheaper(price, n, Selected(l1))
      /\ met = {} => \A n \in all : ~Better(acc, price, n, Selected(l1))
  <2>1. Decision(l1, acc, price, bar).selected = Selected(l1)
    BY <1>1
  <2> HIDE DEF Selected
  <2> QED
    BY <2>1, DecisionFacts
<1>5. /\ Selected(l2) \in all
      /\ met # {} => Selected(l2) \in met /\ \A n \in met : ~Cheaper(price, n, Selected(l2))
      /\ met = {} => \A n \in all : ~Better(acc, price, n, Selected(l2))
  <2>1. Decision(l2, acc, price, bar).selected = Selected(l2)
    BY <1>2
  <2> HIDE DEF Selected
  <2> QED
    BY <2>1, DecisionFacts
<1> HIDE DEF Selected
<1>6. Selected(l1) = Selected(l2)
  <2> DEFINE x == Selected(l1)
             y == Selected(l2)
  <2>1. x \in all /\ y \in all
    BY <1>4, <1>5
  <2>2. \/ ~Cheaper(price, x, y) /\ ~Cheaper(price, y, x)
        \/ ~Better(acc, price, x, y) /\ ~Better(acc, price, y, x)
    BY <1>4, <1>5
  <2>3. /\ x \in Int /\ y \in Int /\ price[x] \in Int /\ price[y] \in Int
        /\ acc[x] \in Int /\ acc[y] \in Int
    BY <1>3, <2>1
  <2> HIDE DEF x, y
  <2>4. x = y
    BY <2>2, <2>3 DEF Cheaper, Better
  <2> QED
    BY <2>4 DEF x, y
<1> QED
  BY <1>1, <1>2, <1>6

\* A question of the decision service: a candidate list, a predictor's answer, the
\* projected costs and a threshold that may lie off the scale.
Prediction == [id : Models, acc : Levels]

Asks(list, answer, price, bar) ==
    /\ list \in Seq(Models) /\ answer \in Seq(Prediction)
    /\ price \in [Models -> Costs] /\ bar \in Threshold

Routed(list, answer, price, bar) == RouteWithSnapshot(list, answer, price, bar, Levels)

\* The scales are numbers.
LEMMA Scales ==
    /\ \A m \in Models : m \in Int
    /\ \A x \in Levels : x \in Int
    /\ \A x \in Costs : x \in Int
<1>1. Models \subseteq Nat \ {0} /\ Levels \subseteq Nat /\ Costs \subseteq Nat
  BY QuestionAssumption, Zenon DEF RoutingAssumption
<1> QED
  BY <1>1

\* Every model a predictor names has an acceptability on the scale.
LEMMA PredictionFacts ==
    ASSUME NEW answer \in Seq(Prediction)
    PROVE  /\ IdsOf(answer) \in Seq(Models)
           /\ \A m \in ToSet(IdsOf(answer)) : Acceptability(answer)[m] \in Levels
<1>1. /\ Len(answer) \in Nat /\ DOMAIN answer = 1 .. Len(answer)
      /\ answer \in [1 .. Len(answer) -> Prediction]
  BY LenProperties
<1>2. /\ IdsOf(answer) \in [1 .. Len(answer) -> Models]
      /\ \A i \in 1 .. Len(answer) : IdsOf(answer)[i] = answer[i].id
  BY <1>1 DEF IdsOf, Prediction
<1>3. IdsOf(answer) \in Seq(Models)
  BY <1>1, <1>2, SeqDef
<1>4. ASSUME NEW m \in ToSet(IdsOf(answer)) PROVE Acceptability(answer)[m] \in Levels
  <2> DEFINE q == CHOOSE p \in ToSet(answer) : p.id = m
  <2>1. PICK i \in 1 .. Len(answer) : answer[i].id = m
    BY <1>2 DEF ToSet
  <2>2. answer[i] \in ToSet(answer)
    BY <1>1 DEF ToSet
  <2>3. q \in ToSet(answer)
    BY <2>1, <2>2
  <2>4. q \in Prediction
    BY <1>1, <2>3 DEF ToSet
  <2>5. Acceptability(answer)[m] = q.acc
    BY DEF Acceptability
  <2> HIDE DEF q
  <2> QED
    BY <2>4, <2>5 DEF Prediction
<1> QED
  BY <1>3, <1>4

\* An answer that is no error is the policy's decision on a question it can answer
\* (route_features_with_snapshot).
LEMMA AnswerFacts ==
    ASSUME NEW list, NEW answer, NEW price, NEW bar, Asks(list, answer, price, bar),
           Routed(list, answer, price, bar).error = "none"
    PROVE  /\ Routed(list, answer, price, bar) = Decision(list, Acceptability(answer), price, bar)
           /\ Answerable(ToSet(list), list, Acceptability(answer), price, bar)
           /\ list # <<>> /\ bar \in Levels /\ ToSet(list) \subseteq Models
           /\ IsInjective(list) /\ IsInjective(IdsOf(answer)) /\ ToSet(list) = ToSet(IdsOf(answer))
<1>1. /\ Routed(list, answer, price, bar) = Decision(list, Acceptability(answer), price, bar)
      /\ list # <<>> /\ bar \in Levels
      /\ IsInjective(list) /\ IsInjective(IdsOf(answer)) /\ ToSet(list) = ToSet(IdsOf(answer))
  <2>1. \A e : RoutingError(e).error = e
    BY DEF RoutingError
  <2> QED
    BY <2>1 DEF Routed, RouteWithSnapshot
<1>2. list \in Seq(Models) /\ ToSet(list) \subseteq Models
  BY ListIsFinite DEF Asks
<1>3. list \in Seq(ToSet(list))
  <2>1. /\ Len(list) \in Nat /\ DOMAIN list = 1 .. Len(list) /\ list \in [1 .. Len(list) -> Models]
    BY <1>2, LenProperties
  <2>2. list \in [1 .. Len(list) -> ToSet(list)]
    BY <2>1 DEF ToSet
  <2> QED
    BY <2>1, <2>2, SeqDef
<1>4. ASSUME NEW m \in ToSet(list) PROVE Acceptability(answer)[m] \in Int /\ price[m] \in Int
  <2>1. Acceptability(answer)[m] \in Levels
    BY <1>1, PredictionFacts DEF Asks
  <2>2. price[m] \in Costs
    BY <1>2 DEF Asks
  <2> QED
    BY <2>1, <2>2, Scales
<1>5. ToSet(list) \subseteq Int /\ bar \in Int
  BY <1>1, <1>2, Scales
<1> QED
  BY <1>1, <1>2, <1>3, <1>4, <1>5 DEF Answerable

\* The result is pending, or the service's answer to the question.
Asked ==
    /\ Asks(candidates, predictions, cost, threshold)
    /\ result # Pending => result = Routed(candidates, predictions, cost, threshold)

\* A question asked anew, with a higher threshold, or backwards.
LEMMA AskedStep == /\ Init => Asked
                   /\ Asked /\ [Next]_vars => Asked'
<1>1. ASSUME Init PROVE Asked
  <2>1. PICK n \in 0 .. MaxCandidates : candidates \in [1 .. n -> Models]
    BY <1>1 DEF Init, Lists
  <2>2. n \in Nat
    BY <2>1, QuestionAssumption DEF RoutingAssumption
  <2>3. candidates \in Seq(Models)
    BY <2>1, <2>2, SeqDef
  <2>4. predictions \in Seq(Prediction)
    BY <1>1, EmptySeq DEF Init
  <2> QED
    BY <1>1, <2>3, <2>4 DEF Init, Asked, Asks
<1>2. ASSUME Asked, Route PROVE Asked'
  <2>1. UNCHANGED <<candidates, cost, threshold>> /\ predictions' \in Answers
        /\ result' = Routed(candidates, predictions', cost, threshold)
    BY <1>2 DEF Route, Routed
  <2>2. Len(candidates) \in Nat /\ candidates \in [1 .. Len(candidates) -> Models]
    BY <1>2, LenProperties DEF Asked, Asks
  <2>3. predictions' \in Seq(Prediction)
    <3>1. CASE \E acc \in [1 .. Len(candidates) -> Levels] :
             predictions' = [i \in 1 .. Len(candidates) |-> [id |-> candidates[i], acc |-> acc[i]]]
      <4>1. predictions' \in [1 .. Len(candidates) -> Prediction]
        BY <2>2, <3>1 DEF Prediction
      <4> QED
        BY <2>2, <4>1, SeqDef
    <3>2. CASE predictions' = <<>>
      BY <3>2
    <3>3. CASE \E m \in Models, l \in Levels :
                 predictions' = <<[id |-> m, acc |-> l], [id |-> m, acc |-> l]>>
      <4>1. PICK x \in Prediction : predictions' = <<x, x>>
        BY <3>3 DEF Prediction
      <4> QED
        BY <4>1
    <3> QED
      BY <2>1, <3>1, <3>2, <3>3 DEF Answers
  <2> QED
    BY <1>2, <2>1, <2>3 DEF Asked, Asks
<1>3. ASSUME Asked, RaiseThreshold PROVE Asked'
  BY <1>3 DEF Asked, Asks, RaiseThreshold, Routed, Threshold
<1>4. ASSUME Asked, Reorder PROVE Asked'
  <2>1. Reverse(candidates) \in Seq(Models) /\ Reverse(predictions) \in Seq(Prediction)
    BY <1>4, ReverseFacts DEF Asked, Asks
  <2> QED
    BY <1>4, <2>1 DEF Asked, Asks, Reorder, Routed
<1>5. ASSUME Asked, UNCHANGED vars PROVE Asked'
  BY <1>5 DEF Asked, Asks, vars, Pending, Routed
<1> QED
  BY <1>1, <1>2, <1>3, <1>4, <1>5 DEF Next

\* The decision's invariant holds of every behaviour.
LEMMA AskedInvariant == PartsSpec => []Asked
<1>1. PartsInit => Asked
  BY PartsSteps, AskedStep
<1>2. Asked /\ [PartsNext]_allVars => Asked'
  BY PartsSteps, AskedStep
<1> QED
  BY <1>1, <1>2, PTL DEF PartsSpec

\* An answer is the cheapest acceptable choice of a well-formed question.
LEMMA Justified == Asked => DecisionIsJustified
<1> SUFFICES ASSUME Asked, Answered
             PROVE  DecisionIsJustified
  BY Zenon DEF DecisionIsJustified, DecisionMeansCheapestAcceptable, AttemptOrderMeansEscalation,
     OnlyWellFormedAnswersDecide
<1> DEFINE acc == Acceptability(predictions)
           S == ToSet(candidates)
           met == {m \in S : acc[m] >= threshold}
           order == AttemptOrder(result, cost, MaxAttempts)
<1>1. /\ Asks(candidates, predictions, cost, threshold)
      /\ result = Routed(candidates, predictions, cost, threshold) /\ result.error = "none"
  BY DEF Asked, Answered
<1>2. /\ result = Decision(candidates, acc, cost, threshold)
      /\ Answerable(S, candidates, acc, cost, threshold)
      /\ candidates # <<>> /\ threshold \in Levels /\ S \subseteq Models
      /\ IsInjective(candidates) /\ IsInjective(IdsOf(predictions))
      /\ S = ToSet(IdsOf(predictions))
  BY <1>1, AnswerFacts, Zenon
<1>3. OnlyWellFormedAnswersDecide
  BY <1>2, Zenon DEF OnlyWellFormedAnswersDecide
<1>4. /\ result.qualifies = met /\ result.fallback = (met = {}) /\ result.selected \in S
      /\ met # {} => result.selected \in met /\ \A n \in met : ~Cheaper(cost, n, result.selected)
      /\ met = {} => \A n \in S : ~Better(acc, cost, n, result.selected)
  BY <1>2, DecisionFacts
<1>5. \A m \in S : m \in Int /\ acc[m] \in Int /\ cost[m] \in Int
  BY <1>2 DEF Answerable
<1> HIDE DEF acc, S
<1>6. DecisionMeansCheapestAcceptable
  <2>1. \A m \in met : met # {} => cost[result.selected] <= cost[m]
    BY <1>4, <1>5 DEF Cheaper
  <2>2. ASSUME met = {}, NEW m \in S
        PROVE  /\ acc[result.selected] >= acc[m]
               /\ acc[result.selected] = acc[m] => cost[result.selected] <= cost[m]
    BY <1>4, <1>5, <2>2 DEF Cheaper, Better
  <2>3. result.fallback <=> met = {}
    BY <1>4
  <2> HIDE DEF met
  <2> QED
    BY <1>4, <2>1, <2>2, <2>3 DEF DecisionMeansCheapestAcceptable, Acc, acc, S, met
<1>7. /\ order \in Seq(S) /\ Len(order) \in 1 .. MaxAttempts /\ order[1] = result.selected
      /\ \A i \in 1 .. Len(order) : i > 1 => ~result.fallback
      /\ ~result.fallback => \A i \in 1 .. Len(order) : order[i] \in result.qualifies
      /\ \A i, j \in 1 .. Len(order) : i < j => Cheaper(cost, order[i], order[j])
      /\ ~result.fallback /\ Len(order) < MaxAttempts =>
            \A m \in result.qualifies : \E i \in 1 .. Len(order) : order[i] = m
  <2>1. MaxAttempts \in Nat \ {0}
    BY QuestionAssumption DEF RoutingAssumption
  <2>2. S = ToSet(candidates)
    BY DEF S
  <2> QED
    BY <1>2, <2>1, <2>2, OrderFacts
<1>8. AttemptOrderMeansEscalation
  <2> HIDE DEF order
  <2> DEFINE n == Len(order)
  <2>1. /\ n \in Nat /\ n >= 1 /\ n <= MaxAttempts /\ DOMAIN order = 1 .. n
        /\ \A i \in 1 .. n : order[i] \in S
    BY <1>7, LenProperties, QuestionAssumption DEF RoutingAssumption
  <2> HIDE DEF n
  <2>2. \A i, j \in 1 .. n : i < j => Cheaper(cost, order[i], order[j])
    BY <1>7 DEF n
  <2>3. IsInjective(order)
    <3>1. ASSUME NEW i \in 1 .. n, NEW j \in 1 .. n, order[i] = order[j], i < j PROVE FALSE
      <4>1. Cheaper(cost, order[i], order[j]) /\ order[i] \in S
        BY <2>1, <2>2, <3>1
      <4>2. order[i] \in Int /\ cost[order[i]] \in Int
        BY <1>5, <4>1
      <4> QED
        BY <3>1, <4>1, <4>2 DEF Cheaper
    <3>2. \A i, j \in 1 .. n : order[i] = order[j] => i = j
      BY <2>1, <3>1
    <3> QED
      BY <2>1, <3>2, Zenon DEF IsInjective
  <2>4. ASSUME NEW i \in 2 .. n PROVE order[i] \in met /\ cost[order[i-1]] <= cost[order[i]]
    <3>1. i \in 1 .. n /\ i - 1 \in 1 .. n /\ i > 1 /\ i - 1 < i
      BY <2>1
    <3>2. ~result.fallback
      BY <1>7, <3>1 DEF n
    <3>3. order[i] \in met
      BY <1>4, <1>7, <3>1, <3>2 DEF n
    <3>4. Cheaper(cost, order[i-1], order[i]) /\ order[i-1] \in S /\ order[i] \in S
      BY <2>1, <2>2, <3>1
    <3>5. cost[order[i-1]] \in Int /\ cost[order[i]] \in Int
      BY <1>5, <3>4
    <3>6. cost[order[i-1]] <= cost[order[i]]
      BY <3>4, <3>5 DEF Cheaper
    <3> QED
      BY <3>3, <3>6
  <2>5. result.fallback => n = 1
    <3>1. n > 1 => ~result.fallback
      BY <1>7, <2>1 DEF n
    <3> QED
      BY <2>1, <3>1
  <2>6. ASSUME n < MaxAttempts, ~result.fallback PROVE ToSet(order) = met
    <3>1. \A i \in 1 .. n : order[i] \in met
      BY <1>4, <1>7, <2>6 DEF n
    <3>2. \A m \in met : \E i \in 1 .. n : order[i] = m
      BY <1>4, <1>7, <2>6 DEF n
    <3>3. ToSet(order) = {order[i] : i \in 1 .. n}
      BY <2>1 DEF ToSet
    <3> HIDE DEF met
    <3> QED
      BY <3>1, <3>2, <3>3
  <2>7. met = {m \in ToSet(candidates) : Acc(m) >= threshold}
    BY DEF met, S, acc, Acc
  <2> HIDE DEF met
  <2>8. order[1] = result.selected /\ n <= MaxAttempts
    BY <1>7, <2>1
  <2> QED
    BY <2>3, <2>4, <2>5, <2>6, <2>7, <2>8 DEF AttemptOrderMeansEscalation, order, n
<1> QED
  BY <1>3, <1>6, <1>8 DEF DecisionIsJustified

\* Whatever the candidate list, the predictor's answer, the costs and the threshold,
\* a decision is the cheapest acceptable candidate, or the best when none is
\* acceptable, it comes of a well-formed answer only, and the escalation that starts
\* with it tries each acceptable candidate once, from the cheapest up
\* (routing/policy.py, routing/service.py, application/adaptive.py).
THEOREM DecisionProved == PartsSpec => []DecisionIsJustified
BY AskedInvariant, Justified, PTL

-----------------------------------------------------------------------------
(* What a change may do.                                                   *)

\* With a higher threshold fewer models qualify, so the cheapest of them is no
\* cheaper than before.
LEMMA DearerStep == Asked => DearerWithThreshold
<1> SUFFICES ASSUME Asked, RaiseThreshold, result.error = "none", ~result'.fallback
             PROVE  cost[result'.selected] >= cost[result.selected]
  BY DEF DearerWithThreshold
<1> DEFINE acc == Acceptability(predictions)
           S == ToSet(candidates)
           Met(bar) == {m \in S : acc[m] >= bar}
<1>1. /\ Asks(candidates, predictions, cost, threshold)
      /\ result = Routed(candidates, predictions, cost, threshold)
      /\ threshold' = threshold + 1 /\ threshold' \in Levels
      /\ result' = Routed(candidates, predictions, cost, threshold')
      /\ UNCHANGED cost
  BY DEF Asked, RaiseThreshold, Routed
<1>2. /\ result = Decision(candidates, acc, cost, threshold)
      /\ Answerable(S, candidates, acc, cost, threshold)
      /\ candidates # <<>> /\ S \subseteq Models
      /\ IsInjective(candidates) /\ IsInjective(IdsOf(predictions))
      /\ S = ToSet(IdsOf(predictions))
  BY <1>1, AnswerFacts, Zenon
<1>3. result' = Decision(candidates, acc, cost, threshold')
  BY <1>1, <1>2 DEF Routed, RouteWithSnapshot
<1>4. Answerable(S, candidates, acc, cost, threshold')
  BY <1>1, <1>2, Scales DEF Answerable
<1>5. /\ Met(threshold) # {} =>
            /\ result.selected \in Met(threshold)
            /\ \A n \in Met(threshold) : ~Cheaper(cost, n, result.selected)
  BY <1>2, DecisionFacts
<1>6. /\ Met(threshold') # {} /\ result'.selected \in Met(threshold')
  <2>1. /\ result'.fallback = (Met(threshold') = {})
        /\ Met(threshold') # {} => result'.selected \in Met(threshold')
    BY <1>3, <1>4, DecisionFacts
  <2> QED
    BY <2>1
<1>7. threshold \in Int /\ \A m \in S : acc[m] \in Int /\ cost[m] \in Int
  BY <1>2 DEF Answerable
<1>8. result'.selected \in Met(threshold)
  BY <1>1, <1>6, <1>7
<1>9. /\ result.selected \in S /\ result'.selected \in S
      /\ ~Cheaper(cost, result'.selected, result.selected)
  BY <1>5, <1>8
<1> QED
  BY <1>7, <1>9 DEF Cheaper

\* The same candidates and predictions listed backwards get the same answer, an
\* error or a decision.
LEMMA BackwardsStep == Asked => OrderIndependent
<1> SUFFICES ASSUME Asked, Reorder PROVE result' = result
  BY DEF OrderIndependent
<1> DEFINE back == Reverse(candidates)
           told == Reverse(predictions)
<1>1. /\ candidates \in Seq(Models) /\ predictions \in Seq(Prediction)
      /\ Asks(candidates, predictions, cost, threshold)
      /\ result = Routed(candidates, predictions, cost, threshold)
      /\ result' = Routed(back, told, cost, threshold)
  BY DEF Asked, Asks, Reorder, Routed
<1>2. /\ back \in Seq(Models) /\ ToSet(back) = ToSet(candidates) /\ Len(back) = Len(candidates)
      /\ IsInjective(back) <=> IsInjective(candidates)
  BY <1>1, ReverseFacts
<1>3. told \in Seq(Prediction) /\ ToSet(told) = ToSet(predictions) /\ Len(told) = Len(predictions)
  BY <1>1, ReverseFacts
<1>4. IdsOf(told) = Reverse(IdsOf(predictions))
  <2> DEFINE n == Len(predictions)
  <2>1. /\ n \in Nat /\ DOMAIN predictions = 1 .. n /\ DOMAIN told = 1 .. n
        /\ \A i \in 1 .. n : told[i] = predictions[(n - i) + 1] /\ (n - i) + 1 \in 1 .. n
    BY <1>1, <1>3, ReverseFacts, LenProperties
  <2>2. IdsOf(predictions) = [i \in 1 .. n |-> predictions[i].id]
    BY <2>1 DEF IdsOf
  <2>3. Len(IdsOf(predictions)) = n
    BY <2>1, <2>2
  <2>4. Reverse(IdsOf(predictions)) = [i \in 1 .. n |-> IdsOf(predictions)[(n - i) + 1]]
    BY <2>3 DEF Reverse
  <2>5. IdsOf(told) = [i \in 1 .. n |-> told[i].id]
    BY <2>1 DEF IdsOf
  <2> HIDE DEF n, told
  <2>6. \A i \in 1 .. n : told[i].id = IdsOf(predictions)[(n - i) + 1]
    BY <2>1, <2>2
  <2> QED
    BY <2>4, <2>5, <2>6
<1>5. /\ ToSet(IdsOf(told)) = ToSet(IdsOf(predictions))
      /\ IsInjective(IdsOf(told)) <=> IsInjective(IdsOf(predictions))
  BY <1>1, <1>4, PredictionFacts, ReverseFacts
<1>6. Acceptability(told) = Acceptability(predictions)
  BY <1>3, <1>5 DEF Acceptability
<1>7. candidates = <<>> <=> back = <<>>
  BY <1>1, <1>2, EmptySeq
<1> HIDE DEF back, told
<1>8. CASE result.error = "none"
  <2>1. /\ result = Decision(candidates, Acceptability(predictions), cost, threshold)
        /\ Answerable(ToSet(candidates), candidates, Acceptability(predictions), cost, threshold)
        /\ candidates # <<>> /\ threshold \in Levels
        /\ IsInjective(candidates) /\ IsInjective(IdsOf(predictions))
        /\ ToSet(candidates) = ToSet(IdsOf(predictions))
    BY <1>1, <1>8, AnswerFacts, Zenon
  <2>2. result' = Decision(back, Acceptability(predictions), cost, threshold)
    BY <1>1, <1>2, <1>5, <1>6, <1>7, <2>1 DEF Routed, RouteWithSnapshot
  <2>3. back \in Seq(ToSet(candidates))
    <3>1. /\ Len(back) \in Nat /\ DOMAIN back = 1 .. Len(back) /\ back \in [1 .. Len(back) -> Models]
      BY <1>2, LenProperties
    <3>2. back \in [1 .. Len(back) -> ToSet(back)]
      BY <3>1 DEF ToSet
    <3> QED
      BY <1>2, <3>1, <3>2, SeqDef
  <2>4. Answerable(ToSet(candidates), back, Acceptability(predictions), cost, threshold)
    BY <1>7, <2>1, <2>3 DEF Answerable
  <2> QED
    BY <1>2, <2>1, <2>2, <2>4, OrderIsIgnored
<1>9. CASE result.error # "none"
  <2>1. result # Decision(candidates, Acceptability(predictions), cost, threshold)
    <3>1. Decision(candidates, Acceptability(predictions), cost, threshold).error = "none"
      BY DEF Decision
    <3> QED
      BY <1>9, <3>1, Zenon
  <2>2. \/ ~IsInjective(candidates) \/ ~IsInjective(IdsOf(predictions))
        \/ ToSet(candidates) # ToSet(IdsOf(predictions))
        \/ candidates = <<>> \/ threshold \notin Levels
    BY <1>1, <2>1 DEF Routed, RouteWithSnapshot
  <2> QED
    BY <1>1, <1>2, <1>5, <1>7, <2>2 DEF Routed, RouteWithSnapshot
<1> QED
  BY <1>8, <1>9

\* A fold's selections are made from the labels of the other folds.
LEMMA HeldOut == Offline!HeldOutStep
<1> SUFFICES ASSUME NEW t \in Requests,
                    \A u \in Requests : FoldOf[u] # FoldOf[t] => verdict'[u] = verdict[u]
             PROVE  Offline!FoldLocal(t)' = Offline!FoldLocal(t)
  BY DEF Offline!HeldOutStep
<1> DEFINE others == Offline!Training(t)
<1>1. \A u \in others : verdict'[u] = verdict[u]
  BY DEF Offline!Training
<1>2. ASSUME NEW c \in Offline!Candidates
      PROVE  /\ Offline!Rated(c, others)' = Offline!Rated(c, others)
             /\ Offline!Accepted(c, others)' = Offline!Accepted(c, others)
             /\ Offline!Quality(c, others)' = Offline!Quality(c, others)
  <2>1. Offline!Rated(c, others)' = Offline!Rated(c, others)
    BY <1>1 DEF Offline!Rated, Offline!Valid
  <2>2. {u \in others : Offline!Acceptable(u, c)}' = {u \in others : Offline!Acceptable(u, c)}
    BY <1>1 DEF Offline!Acceptable, Offline!Valid
  <2>3. \A u \in Offline!Rated(c, others) : verdict'[u][c].quality = verdict[u][c].quality
    BY <1>1 DEF Offline!Rated
  <2>4. {{u} \X (1 .. verdict'[u][c].quality) : u \in Offline!Rated(c, others)} =
        {{u} \X (1 .. verdict[u][c].quality) : u \in Offline!Rated(c, others)}
    BY <2>3
  <2> QED
    BY <2>1, <2>2, <2>4 DEF Offline!Accepted, Offline!Quality
<1>3. \A c, d \in Offline!Candidates :
         Offline!Stronger(c, d, others)' <=> Offline!Stronger(c, d, others)
  BY <1>2 DEF Offline!Stronger
<1>4. Offline!Resolvable(others)' <=> Offline!Resolvable(others)
  BY <1>2 DEF Offline!Resolvable
<1>5. Offline!resolve_strongest(others)' = Offline!resolve_strongest(others)
  BY <1>3 DEF Offline!resolve_strongest
<1> QED
  BY <1>4, <1>5 DEF Offline!FoldLocal

\* The application goes on from its metadata only when the checks found nothing.
LEMMA SoundStep ==
    ArtifactInv /\ [Artifact!Next]_(Artifact!vars) => Artifact!OnlySoundArtifactsServe
<1> SUFFICES ASSUME ArtifactInv, [Artifact!Next]_(Artifact!vars),
                    app = "configured", app' = "has_metadata"
             PROVE  /\ metadata.defect = "none"
                    /\ metadata.kind = "production" => wanted' = Approved
  BY DEF Artifact!OnlySoundArtifactsServe, Artifact!None
<1>1. Artifact!LoadMetadata
  BY DEF Artifact!Next, Artifact!vars, Artifact!files, Artifact!builders, Artifact!application,
         Artifact!Fit, Artifact!WriteModel, Artifact!WriteMetadata, Artifact!ReadBackMetadata,
         Artifact!ReadBackModel, Artifact!Abandon, Artifact!Configure, Artifact!LoadModel,
         Artifact!Predict
<1>2. Artifact!MetadataError(metadata) = "none" /\ wanted' = metadata.build
  BY <1>1 DEF Artifact!LoadMetadata, Artifact!Refuse, Artifact!None
<1> QED
  BY <1>2, MetadataChecks DEF ArtifactInv

\* No step of the decision service, of the studies or of the predictor's builders and
\* application does what it may not: a higher threshold never routes to a cheaper model
\* while one meets it, the order of a list decides nothing, a label never steers a
\* selection of its own fold (fold_local_strongest_decisions), and startup goes on with
\* sound metadata only, which in production vouches for the approved build
\* (load_trusted_quality_artifact).
THEOREM ChangesProved == PartsSpec => ChangesAreSound
<1> DEFINE Sound == /\ part = "decision" => DearerWithThreshold /\ OrderIndependent
                    /\ part = "offline" => Offline!HeldOutStep
                    /\ Artifact!OnlySoundArtifactsServe
<1>1. Asked /\ ArtifactInv /\ [PartsNext]_allVars => [Sound]_allVars
  BY DearerStep, BackwardsStep, HeldOut, SoundStep, PartsSteps
<1>2. PartsSpec => [][Sound]_allVars
  BY <1>1, AskedInvariant, ArtifactInvariant, PTL DEF PartsSpec
<1> QED
  BY <1>2 DEF ChangesAreSound

-----------------------------------------------------------------------------
(* The comparison of policies: a dataset as the analyses read it.          *)

Amounts == [Requests -> [Offline!Candidates -> Nat]]

Dataset ==
    /\ verdict \in [Requests -> [Offline!Candidates -> Labels]]
    /\ probability \in Predictions
    /\ realized \in Realizations

\* Whatever label is exported next, the dataset stays one.
LEMMA DatasetInvariant == PartsSpec => []Dataset
<1>1. Offline!Init => Dataset
  BY DEF Offline!Init, Dataset
<1>2. Dataset /\ [Offline!Next]_(Offline!vars) => Dataset'
  BY DEF Dataset, Offline!Next, Offline!Relabel, Offline!vars
<1> QED
  BY <1>1, <1>2, PartsSteps, PTL DEF PartsSpec

\* The operators the analyses share with the serving code are the same ones.
LEMMA SameOperators ==
    /\ \A S : Offline!IsFiniteSet(S) <=> IsFiniteSet(S)
    /\ \A S : Offline!Cardinality(S) = Cardinality(S)
    /\ \A w, m, n : Offline!Cheaper(w, m, n) <=> Cheaper(w, m, n)
<1>1. \A S : Offline!IsFiniteSet(S) <=> IsFiniteSet(S)
  BY DEF Offline!IsFiniteSet, IsFiniteSet
<1>2. \A S : Offline!Cardinality(S) = Cardinality(S)
  BY DEF Offline!Cardinality, Cardinality
<1>3. \A w, m, n : Offline!Cheaper(w, m, n) <=> Cheaper(w, m, n)
  BY DEF Offline!Cheaper, Cheaper
<1> QED
  BY <1>1, <1>2, <1>3

\* What the assumption on the constants says, in the terms of the proofs.
LEMMA StudyFacts ==
    /\ IsFiniteSet(Requests) /\ Offline!Candidates = 1 .. NumCandidates
    /\ NumCandidates \in Nat \ {0}
    /\ Projected \in Amounts /\ Realizations \subseteq Amounts /\ Predictions \subseteq Amounts
    /\ CostScore \in [Offline!Candidates -> Nat] /\ Rule \in [Requests -> Offline!Candidates]
    /\ \A l \in Labels : l.acceptable \in BOOLEAN /\ l.quality \in Nat
    /\ Thresholds \subseteq Nat
    /\ Offline!NoCandidate = 0 /\ 0 \notin Offline!Candidates
    /\ IsFiniteSet(Offline!Candidates) /\ Offline!Candidates # {} /\ Offline!Candidates \subseteq Int
<1>1. NumCandidates \in Nat \ {0} /\ Offline!Candidates = 1 .. NumCandidates
  BY StudyAssumption DEF Offline!DatasetAssumption, Offline!Candidates
<1>2. IsFiniteSet(1 .. NumCandidates)
  BY <1>1, FS_Interval
<1>3. IsFiniteSet(Requests)
  BY StudyAssumption, SameOperators DEF Offline!DatasetAssumption
<1>4. /\ Projected \in Amounts /\ Realizations \subseteq Amounts /\ Predictions \subseteq Amounts
      /\ CostScore \in [Offline!Candidates -> Nat] /\ Rule \in [Requests -> Offline!Candidates]
      /\ Thresholds \subseteq Nat
  BY StudyAssumption DEF Offline!DatasetAssumption, Amounts
<1>5. \A l \in Labels : l.acceptable \in BOOLEAN /\ l.quality \in Nat
  BY StudyAssumption DEF Offline!DatasetAssumption
<1>6. 0 \notin 1 .. NumCandidates /\ 1 \in 1 .. NumCandidates /\ 1 .. NumCandidates \subseteq Int
  BY <1>1
<1> QED
  BY <1>1, <1>2, <1>3, <1>4, <1>5, <1>6, Zenon DEF Offline!NoCandidate

\* min() by (cost, identifier): one of them, and none costs less.
LEMMA CheapestChosen ==
    ASSUME NEW S, IsFiniteSet(S), S # {}, NEW w, Priced(S, w)
    PROVE  LET c == Offline!CheapestOf(S, w) IN c \in S /\ \A d \in S : w[c] <= w[d]
<1> DEFINE Least(c) == \A d \in S \ {c} : Cheaper(w, c, d)
<1>1. /\ \A m, n \in S : <<m, n>> \in CheaperPairs(S, w) <=> Cheaper(w, m, n)
      /\ Orders(CheaperPairs(S, w), S)
  BY KeysOrder
<1>2. PICK m \in S : \A n \in S : ~Cheaper(w, n, m)
  <2>1. \E m \in S : \A n \in S : <<n, m>> \notin CheaperPairs(S, w)
    BY <1>1, LeastMember
  <2> QED
    BY <1>1, <2>1
<1>3. Least(m)
  BY <1>2 DEF Cheaper, Priced
<1>4. Offline!CheapestOf(S, w) = CHOOSE c \in S : Least(c)
  BY SameOperators DEF Offline!CheapestOf
<1>5. ASSUME NEW c \in S, Least(c), NEW d \in S PROVE w[c] <= w[d]
  <2>1. CASE c = d
    BY <2>1 DEF Priced
  <2>2. CASE c # d
    BY <1>5, <2>2 DEF Cheaper, Priced
  <2> QED
    BY <2>1, <2>2
<1> HIDE DEF Least
<1> QED
  BY <1>3, <1>4, <1>5

Policies == [Requests -> Offline!Candidates \cup {0}]

Chosen(p) == {t \in Requests : p[t] # 0}
Rightly(p) == {t \in Chosen(p) : Offline!Acceptable(t, p[t])}
Spent(p, w) == [t \in Requests |-> w[t][p[t]]]

\* What a summary counts: selections, acceptable ones, and units of cost.
LEMMA SummaryFacts ==
    ASSUME NEW p \in Policies, NEW w \in Amounts
    PROVE  LET s == Offline!Summary(p, w)
           IN  /\ IsFiniteSet(Chosen(p)) /\ IsFiniteSet(Rightly(p))
               /\ s.acceptable = Cardinality(Rightly(p))
               /\ s.cost = Cardinality(Units(Chosen(p), Spent(p, w)))
               /\ s.valid \in Nat /\ s.acceptable \in Nat /\ s.cost \in Nat
               /\ s.acceptable <= Cardinality(Requests)
               /\ Cardinality(Requests) \in Nat
               /\ \A t \in Chosen(p) : p[t] \in Offline!Candidates /\ Spent(p, w)[t] \in Nat
<1> DEFINE s == Offline!Summary(p, w)
           valid == {t \in Chosen(p) : Offline!Valid(t, p[t])}
<1>1. Chosen(p) \subseteq Requests /\ Rightly(p) \subseteq Requests /\ valid \subseteq Requests
  BY DEF Chosen, Rightly
<1>2. /\ IsFiniteSet(Chosen(p)) /\ IsFiniteSet(Rightly(p)) /\ IsFiniteSet(valid)
      /\ Cardinality(Rightly(p)) <= Cardinality(Requests)
  BY <1>1, StudyFacts, FS_Subset
<1>3. /\ Cardinality(Rightly(p)) \in Nat /\ Cardinality(valid) \in Nat
      /\ Cardinality(Requests) \in Nat
  BY <1>2, StudyFacts, FS_CardinalityType
<1>4. \A t \in Chosen(p) : p[t] \in Offline!Candidates /\ Spent(p, w)[t] \in Nat
  <2>1. ASSUME NEW t \in Chosen(p)
        PROVE  p[t] \in Offline!Candidates /\ Spent(p, w)[t] = w[t][p[t]] /\ t \in Requests
    BY DEF Chosen, Policies, Spent
  <2> QED
    BY <2>1 DEF Amounts
<1>5. Cardinality(Units(Chosen(p), Spent(p, w))) \in Nat
  BY <1>2, <1>4, UnitsAreFinite
<1>6. Rightly(p) = {t \in valid : Offline!Acceptable(t, p[t])}
  BY DEF Rightly, Offline!Acceptable
<1>7. {{t} \X (1 .. w[t][p[t]]) : t \in Chosen(p)}
        = {{t} \X (1 .. Spent(p, w)[t]) : t \in Chosen(p)}
  <2>1. \A t \in Chosen(p) : Spent(p, w)[t] = w[t][p[t]]
    BY DEF Chosen, Spent
  <2> QED
    BY <2>1
<1>8. s = [selected |-> Cardinality(Chosen(p)), valid |-> Cardinality(valid),
           acceptable |-> Cardinality({t \in valid : Offline!Acceptable(t, p[t])}),
           cost |-> Cardinality(UNION {{t} \X (1 .. w[t][p[t]]) : t \in Chosen(p)})]
  BY SameOperators, StudyFacts DEF Offline!Summary, Chosen
<1> HIDE DEF s, valid
<1>9. /\ s.acceptable = Cardinality(Rightly(p)) /\ s.valid = Cardinality(valid)
      /\ s.cost = Cardinality(Units(Chosen(p), Spent(p, w)))
  BY <1>6, <1>7, <1>8 DEF Units
<1> QED
  BY <1>2, <1>3, <1>4, <1>5, <1>9 DEF s

\* The oracle by some cost: oracle_cheapest_acceptable by the realized one,
\* projected_oracle by the projected one.
OracleBy(w) ==
    [t \in Requests |-> IF Offline!Observed(t) = {} THEN 0
                        ELSE Offline!CheapestOf(Offline!Observed(t), w[t])]

\* An oracle abstains where nothing acceptable has been observed, and elsewhere
\* takes one of the acceptable answers that none undercuts.
LEMMA OracleFacts ==
    ASSUME Dataset, NEW w \in Amounts
    PROVE  LET o == OracleBy(w)
           IN  /\ o \in Policies
               /\ \A t \in Requests : o[t] = 0 <=> Offline!Observed(t) = {}
               /\ \A t \in Chosen(o) : /\ o[t] \in Offline!Observed(t)
                                       /\ \A c \in Offline!Observed(t) : w[t][o[t]] <= w[t][c]
               /\ Rightly(o) = Chosen(o)
<1> DEFINE o == OracleBy(w)
<1>1. ASSUME NEW t \in Requests
      PROVE  /\ Offline!Observed(t) \subseteq Offline!Candidates
             /\ IsFiniteSet(Offline!Observed(t)) /\ Priced(Offline!Observed(t), w[t])
  <2>1. Offline!Observed(t) \subseteq Offline!Candidates
    BY DEF Offline!Observed
  <2>2. IsFiniteSet(Offline!Observed(t))
    BY <2>1, StudyFacts, FS_Subset
  <2>3. \A c \in Offline!Candidates : c \in Int /\ w[t][c] \in Int
    BY StudyFacts DEF Amounts
  <2> QED
    BY <2>1, <2>2, <2>3 DEF Priced
<1>2. ASSUME NEW t \in Requests, Offline!Observed(t) # {}
      PROVE  /\ o[t] \in Offline!Observed(t) /\ o[t] # 0
             /\ \A c \in Offline!Observed(t) : w[t][o[t]] <= w[t][c]
  <2>1. o[t] = Offline!CheapestOf(Offline!Observed(t), w[t])
    BY <1>2 DEF OracleBy
  <2>2. /\ o[t] \in Offline!Observed(t)
        /\ \A c \in Offline!Observed(t) : w[t][o[t]] <= w[t][c]
    BY <1>1, <1>2, <2>1, CheapestChosen
  <2> QED
    BY <1>1, <2>2, StudyFacts
<1>3. \A t \in Requests : Offline!Observed(t) = {} => o[t] = 0
  BY DEF OracleBy
<1>4. \A t \in Requests : o[t] \in Offline!Candidates \cup {0}
  BY <1>1, <1>2, <1>3
<1>5. o \in Policies
  BY <1>4 DEF OracleBy, Policies
<1>6. \A t \in Requests : o[t] = 0 <=> Offline!Observed(t) = {}
  BY <1>2, <1>3
<1> HIDE DEF o
<1>7. \A t \in Chosen(o) : /\ o[t] \in Offline!Observed(t)
                           /\ \A c \in Offline!Observed(t) : w[t][o[t]] <= w[t][c]
  BY <1>2, <1>6 DEF Chosen
<1>8. Rightly(o) = Chosen(o)
  BY <1>7 DEF Rightly, Offline!Observed
<1> QED
  BY <1>5, <1>6, <1>7, <1>8 DEF o

\* The two oracles of the analyses.
LEMMA Oracles ==
    /\ Offline!oracle_cheapest_acceptable = OracleBy(realized)
    /\ Offline!projected_oracle = OracleBy(Projected)
BY DEF Offline!oracle_cheapest_acceptable, Offline!projected_oracle, OracleBy, Offline!NoCandidate

\* A policy with an acceptable selection wherever the oracle has one pays at
\* least what the oracle does, in the cost the oracle minimises.
LEMMA OraclePaysLeast ==
    ASSUME Dataset, NEW w \in Amounts, NEW p \in Policies,
           Chosen(OracleBy(w)) \subseteq Rightly(p)
    PROVE  Offline!Summary(OracleBy(w), w).cost <= Offline!Summary(p, w).cost
<1> DEFINE o == OracleBy(w)
<1>1. /\ o \in Policies
      /\ \A t \in Chosen(o) : \A c \in Offline!Observed(t) : w[t][o[t]] <= w[t][c]
  BY OracleFacts
<1> HIDE DEF o
<1>2. /\ Offline!Summary(o, w).cost = Cardinality(Units(Chosen(o), Spent(o, w)))
      /\ \A t \in Chosen(o) : Spent(o, w)[t] \in Nat
  BY <1>1, SummaryFacts
<1>3. /\ Offline!Summary(p, w).cost = Cardinality(Units(Chosen(p), Spent(p, w)))
      /\ IsFiniteSet(Chosen(p))
      /\ \A t \in Chosen(p) : Spent(p, w)[t] \in Nat /\ p[t] \in Offline!Candidates
  BY SummaryFacts
<1>4. Chosen(o) \subseteq Chosen(p)
  BY DEF Rightly, o
<1>5. ASSUME NEW t \in Chosen(o) PROVE Spent(o, w)[t] <= Spent(p, w)[t]
  <2>1. t \in Requests /\ t \in Chosen(p) /\ Offline!Acceptable(t, p[t])
    BY <1>4 DEF Chosen, Rightly, o
  <2>2. p[t] \in Offline!Observed(t)
    BY <1>3, <2>1 DEF Offline!Observed
  <2>3. w[t][o[t]] <= w[t][p[t]]
    BY <1>1, <2>2
  <2> QED
    BY <2>1, <2>3 DEF Spent
<1>6. Cardinality(Units(Chosen(o), Spent(o, w))) <= Cardinality(Units(Chosen(p), Spent(p, w)))
  BY <1>2, <1>3, <1>4, <1>5, UnitsGrow
<1> QED
  BY <1>2, <1>3, <1>6 DEF o

\* oracle_cheapest_acceptable is the bound the reports take it for.
LEMMA OracleIsABound == Dataset => Offline!OracleBoundsPolicies
<1> SUFFICES ASSUME Dataset PROVE Offline!OracleBoundsPolicies
  OBVIOUS
<1> DEFINE o == OracleBy(realized)
<1>1. realized \in Amounts
  BY StudyFacts DEF Dataset
<1>2. /\ o \in Policies /\ Rightly(o) = Chosen(o)
      /\ \A t \in Requests : o[t] = 0 <=> Offline!Observed(t) = {}
  BY <1>1, OracleFacts
<1> HIDE DEF o
<1>3. ASSUME NEW p \in [Requests -> Offline!Candidates]
      PROVE  LET s == Offline!Summary(p, realized)
                 b == Offline!Summary(o, realized)
             IN  /\ s.acceptable <= b.acceptable
                 /\ s.acceptable = b.acceptable => s.cost >= b.cost
  <2> DEFINE s == Offline!Summary(p, realized)
             b == Offline!Summary(o, realized)
  <2>1. p \in Policies
    BY DEF Policies
  <2>2. /\ s.acceptable = Cardinality(Rightly(p)) /\ b.acceptable = Cardinality(Rightly(o))
        /\ IsFiniteSet(Rightly(o)) /\ s.cost \in Nat /\ b.cost \in Nat
    BY <1>1, <1>2, <2>1, SummaryFacts
  <2>3. Rightly(p) \subseteq Rightly(o)
    <3>1. ASSUME NEW t \in Rightly(p) PROVE t \in Chosen(o)
      <4>1. t \in Requests /\ p[t] \in Offline!Observed(t)
        BY DEF Rightly, Chosen, Offline!Observed
      <4> QED
        BY <1>2, <4>1 DEF Chosen
    <3> QED
      BY <1>2, <3>1
  <2>4. /\ Cardinality(Rightly(p)) <= Cardinality(Rightly(o))
        /\ Cardinality(Rightly(p)) = Cardinality(Rightly(o)) => Rightly(p) = Rightly(o)
    BY <2>2, <2>3, FS_Subset
  <2>5. Rightly(p) = Rightly(o) => b.cost <= s.cost
    BY <1>1, <1>2, <2>1, OraclePaysLeast DEF o
  <2> HIDE DEF s, b
  <2> QED
    BY <2>2, <2>4, <2>5 DEF s, b
<1> QED
  BY <1>3, Oracles DEF Offline!OracleBoundsPolicies, Offline!AnyPolicy, Offline!evaluate_decisions, o

\* The oracle by realized and the one by projected cost differ in cost only.
LEMMA OraclesDifferInCost == Dataset => Offline!OraclesAgree
<1> SUFFICES ASSUME Dataset PROVE Offline!OraclesAgree
  OBVIOUS
<1> DEFINE o == OracleBy(realized)
           p == OracleBy(Projected)
<1>1. realized \in Amounts /\ Projected \in Amounts
  BY StudyFacts DEF Dataset
<1>2. /\ o \in Policies /\ Rightly(o) = Chosen(o)
      /\ \A t \in Requests : o[t] = 0 <=> Offline!Observed(t) = {}
  BY <1>1, OracleFacts
<1>3. /\ p \in Policies /\ Rightly(p) = Chosen(p)
      /\ \A t \in Requests : p[t] = 0 <=> Offline!Observed(t) = {}
  BY <1>1, OracleFacts
<1>4. Chosen(o) = Chosen(p)
  BY <1>2, <1>3 DEF Chosen
<1>5. Offline!Summary(o, realized).acceptable = Offline!Summary(p, realized).acceptable
  BY <1>1, <1>2, <1>3, <1>4, SummaryFacts
<1>6. Offline!Summary(o, realized).cost <= Offline!Summary(p, realized).cost
  BY <1>1, <1>3, <1>4, OraclePaysLeast
<1>7. Offline!Summary(p, Projected).cost <= Offline!Summary(o, Projected).cost
  BY <1>1, <1>2, <1>4, OraclePaysLeast
<1> HIDE DEF o, p
<1>8. Offline!oracle_cheapest_acceptable = o /\ Offline!projected_oracle = p
  BY Oracles DEF o, p
<1> QED
  BY <1>2, <1>3, <1>5, <1>6, <1>7, <1>8
  DEF Offline!OraclesAgree, Offline!evaluate_decisions, Offline!summarize_selections,
      Offline!NoCandidate

-----------------------------------------------------------------------------
(* The studied rule and the served one.                                    *)

\* The policy module is the serving code's.
LEMMA SameDecision ==
    \A list, acc, w, th : Offline!Decision(list, acc, w, th) = Decision(list, acc, w, th)
<1>1. \A S : Offline!Min(S) = Min(S)
  BY DEF Offline!Min, Min
<1>2. \A s : Offline!ToSet(s) = ToSet(s)
  BY DEF Offline!ToSet, ToSet
<1>3. \A acc, w, m, n : Offline!Better(acc, w, m, n) <=> Better(acc, w, m, n)
  BY SameOperators DEF Offline!Better, Better
<1> SUFFICES ASSUME NEW list, NEW acc, NEW w, NEW th
             PROVE  Offline!Decision(list, acc, w, th) = Decision(list, acc, w, th)
  OBVIOUS
<1> DEFINE met == {m \in ToSet(list) : acc[m] >= th}
           cheapest == First(list, met, LAMBDA m, n : Cheaper(w, m, n))
           best == First(list, ToSet(list), LAMBDA m, n : Better(acc, w, m, n))
           d == [error |-> "none", selected |-> IF met # {} THEN cheapest ELSE best,
                 fallback |-> met = {}, qualifies |-> met]
<1>4. Offline!First(list, met, LAMBDA m, n : Offline!Cheaper(w, m, n)) = cheapest
  BY <1>1, SameOperators DEF Offline!First, First
<1>5. Offline!First(list, ToSet(list), LAMBDA m, n : Offline!Better(acc, w, m, n)) = best
  BY <1>1, <1>3 DEF Offline!First, First
<1>6. Decision(list, acc, w, th) = d
  BY DEF Decision, Qualifies
<1>7. Offline!Decision(list, acc, w, th) =
        [error |-> "none",
         selected |-> IF met # {}
                      THEN Offline!First(list, met, LAMBDA m, n : Offline!Cheaper(w, m, n))
                      ELSE Offline!First(list, ToSet(list),
                                         LAMBDA m, n : Offline!Better(acc, w, m, n)),
         fallback |-> met = {}, qualifies |-> met]
  BY <1>2, Zenon DEF Offline!Decision, Offline!Qualifies
<1> QED
  BY <1>4, <1>5, <1>6, <1>7, Zenon

\* All candidates, listed in the order of identifiers.
LEMMA AllListed ==
    /\ Offline!AllCandidates \in Seq(Offline!Candidates)
    /\ ToSet(Offline!AllCandidates) = Offline!Candidates
    /\ Offline!AllCandidates # <<>>
<1>1. /\ Offline!AllCandidates \in [1 .. NumCandidates -> Offline!Candidates]
      /\ DOMAIN Offline!AllCandidates = Offline!Candidates
      /\ \A c \in Offline!Candidates : Offline!AllCandidates[c] = c
  BY StudyFacts DEF Offline!AllCandidates
<1>2. Offline!AllCandidates \in Seq(Offline!Candidates)
  BY <1>1, StudyFacts
<1>3. ToSet(Offline!AllCandidates) = Offline!Candidates
  BY <1>1 DEF ToSet
<1>4. Offline!AllCandidates # <<>>
  BY <1>3, StudyFacts DEF ToSet
<1> QED
  BY <1>2, <1>3, <1>4

\* route_at_threshold: the cheapest candidate that reaches the threshold or, when
\* none does, the most probable one.
LEMMA RouteFacts ==
    ASSUME Dataset, NEW t \in Requests, NEW th \in Nat
    PROVE  LET d == Decision(Offline!AllCandidates, probability[t], Projected[t], th)
               met == {c \in Offline!Candidates : probability[t][c] >= th}
           IN  /\ Offline!route_at_threshold(th)[t] = d
               /\ d.fallback = (met = {}) /\ d.selected \in Offline!Candidates
               /\ met # {} => /\ d.selected \in met
                              /\ \A c \in met : ~Cheaper(Projected[t], c, d.selected)
               /\ met = {} => \A c \in Offline!Candidates :
                                ~Better(probability[t], Projected[t], c, d.selected)
<1>1. Offline!route_at_threshold(th)[t]
        = Decision(Offline!AllCandidates, probability[t], Projected[t], th)
  BY SameDecision DEF Offline!route_at_threshold
<1>2. probability \in Amounts /\ Projected \in Amounts
  BY StudyFacts DEF Dataset
<1>3. \A c \in Offline!Candidates : probability[t][c] \in Int /\ Projected[t][c] \in Int
  BY <1>2 DEF Amounts
<1>4. Answerable(Offline!Candidates, Offline!AllCandidates, probability[t], Projected[t], th)
  BY <1>3, AllListed, StudyFacts DEF Answerable
<1> DEFINE met == {c \in ToSet(Offline!AllCandidates) : probability[t][c] >= th}
           d == Decision(Offline!AllCandidates, probability[t], Projected[t], th)
<1>5. /\ d.fallback = (met = {}) /\ d.selected \in ToSet(Offline!AllCandidates)
      /\ met # {} => d.selected \in met /\ \A c \in met : ~Cheaper(Projected[t], c, d.selected)
      /\ met = {} => \A c \in ToSet(Offline!AllCandidates) :
                        ~Better(probability[t], Projected[t], c, d.selected)
  BY <1>4, DecisionFacts
<1>6. met = {c \in Offline!Candidates : probability[t][c] >= th}
  BY AllListed
<1> HIDE DEF met, d
<1> QED
  BY <1>1, <1>5, <1>6, AllListed DEF d

\* select_cost_aware_candidate picks what the serving policy picks.
LEMMA StudiedRuleIsServed ==
    ASSUME Dataset, NEW t \in Requests, NEW th \in Nat
    PROVE  Offline!select_cost_aware_candidate(t, th) = Offline!route_at_threshold(th)[t].selected
<1> DEFINE d == Decision(Offline!AllCandidates, probability[t], Projected[t], th)
           met == {c \in Offline!Candidates : probability[t][c] >= th}
           pool == IF met # {} THEN met ELSE Offline!Candidates
           rank == [c \in pool |-> IF met # {} THEN 0 ELSE -probability[t][c]]
           First1(c) == \A e \in pool \ {c} :
                          \/ rank[c] < rank[e]
                          \/ rank[c] = rank[e] /\ Cheaper(Projected[t], c, e)
<1>1. /\ Offline!route_at_threshold(th)[t] = d /\ d.selected \in Offline!Candidates
      /\ met # {} => d.selected \in met /\ \A c \in met : ~Cheaper(Projected[t], c, d.selected)
      /\ met = {} => \A c \in Offline!Candidates :
                       ~Better(probability[t], Projected[t], c, d.selected)
  BY RouteFacts
<1>2. Offline!select_cost_aware_candidate(t, th) = CHOOSE c \in pool : First1(c)
  BY SameOperators DEF Offline!select_cost_aware_candidate
<1>3. probability \in Amounts /\ Projected \in Amounts
  BY StudyFacts DEF Dataset
<1>4. \A c \in Offline!Candidates :
         c \in Int /\ probability[t][c] \in Int /\ Projected[t][c] \in Int
  BY <1>3, StudyFacts DEF Amounts
<1>5. /\ pool \subseteq Offline!Candidates
      /\ \A c \in pool : rank[c] = IF met # {} THEN 0 ELSE -probability[t][c]
  OBVIOUS
<1>6. \A c \in pool : rank[c] \in Int
  BY <1>4, <1>5
<1> HIDE DEF d
<1>7. d.selected \in pool /\ First1(d.selected)
  <2>1. CASE met # {}
    <3>1. \A c \in pool : rank[c] = 0 /\ c \in met
      BY <1>5, <2>1
    <3> QED
      BY <1>1, <1>4, <1>5, <2>1, <3>1 DEF Cheaper
  <2>2. CASE met = {}
    <3>1. \A c \in pool : rank[c] = -probability[t][c] /\ c \in Offline!Candidates
      BY <1>5, <2>2
    <3>2. d.selected \in pool
      BY <1>1, <2>2
    <3> HIDE DEF pool, rank, met
    <3>3. ASSUME NEW e \in pool, e # d.selected
          PROVE  rank[d.selected] < rank[e]
                 \/ (rank[d.selected] = rank[e] /\ Cheaper(Projected[t], d.selected, e))
      <4>1. ~Better(probability[t], Projected[t], e, d.selected)
        BY <1>1, <2>2, <3>1
      <4> QED
        BY <1>1, <1>4, <3>1, <3>2, <3>3, <4>1 DEF Better, Cheaper
    <3> QED
      BY <3>2, <3>3
  <2> QED
    BY <2>1, <2>2
<1> HIDE DEF pool, rank, met
<1>8. ASSUME NEW c \in pool, NEW e \in pool, First1(c), First1(e) PROVE c = e
  <2>1. c # e => /\ rank[c] < rank[e] \/ (rank[c] = rank[e] /\ Cheaper(Projected[t], c, e))
                 /\ rank[e] < rank[c] \/ (rank[e] = rank[c] /\ Cheaper(Projected[t], e, c))
    BY <1>8
  <2> QED
    BY <1>4, <1>5, <1>6, <2>1 DEF Cheaper
<1> HIDE DEF First1
<1> QED
  BY <1>1, <1>2, <1>7, <1>8

\* The experiments study the rule that serves, at every threshold, and a higher
\* threshold only drops qualifying candidates.
LEMMA StudyMatchesServing == Dataset => Offline!OfflineMatchesServing
<1> SUFFICES ASSUME Dataset, NEW t \in Requests, NEW th \in Thresholds
             PROVE  LET d == Offline!route_at_threshold(th)[t]
                    IN  /\ Offline!select_cost_aware_candidate(t, th) = d.selected
                        /\ \A h \in {x \in Thresholds : x > th} :
                              LET e == Offline!route_at_threshold(h)[t]
                              IN  /\ d.fallback => e.fallback
                                  /\ ~e.fallback =>
                                       Projected[t][d.selected] <= Projected[t][e.selected]
  BY Zenon DEF Offline!OfflineMatchesServing
<1>1. th \in Nat /\ Thresholds \subseteq Nat
  BY StudyFacts
<1>2. Offline!select_cost_aware_candidate(t, th) = Offline!route_at_threshold(th)[t].selected
  BY <1>1, StudiedRuleIsServed
<1>3. ASSUME NEW h \in Thresholds, h > th
      PROVE  LET d == Offline!route_at_threshold(th)[t]
                 e == Offline!route_at_threshold(h)[t]
             IN  /\ d.fallback => e.fallback
                 /\ ~e.fallback => Projected[t][d.selected] <= Projected[t][e.selected]
  <2> DEFINE d == Offline!route_at_threshold(th)[t]
             e == Offline!route_at_threshold(h)[t]
             low == {c \in Offline!Candidates : probability[t][c] >= th}
             high == {c \in Offline!Candidates : probability[t][c] >= h}
  <2>1. h \in Nat
    BY <1>1
  <2>2. /\ d.fallback = (low = {})
        /\ low # {} => d.selected \in low /\ \A c \in low : ~Cheaper(Projected[t], c, d.selected)
    BY <1>1, RouteFacts
  <2>3. e.fallback = (high = {}) /\ (high # {} => e.selected \in high)
    BY <2>1, RouteFacts
  <2>4. \A c \in Offline!Candidates :
           probability[t][c] \in Int /\ Projected[t][c] \in Int /\ c \in Int
    <3>1. probability \in Amounts /\ Projected \in Amounts
      BY StudyFacts DEF Dataset
    <3> QED
      BY <3>1, StudyFacts DEF Amounts
  <2>5. high \subseteq low
    BY <1>1, <1>3, <2>1, <2>4
  <2>6. low \subseteq Offline!Candidates
    OBVIOUS
  <2> HIDE DEF d, e, low, high
  <2>7. high # {} => Projected[t][d.selected] <= Projected[t][e.selected]
    BY <2>2, <2>3, <2>4, <2>5, <2>6 DEF Cheaper
  <2> QED
    BY <2>2, <2>3, <2>5, <2>7 DEF d, e
<1> QED
  BY <1>2, <1>3

-----------------------------------------------------------------------------
(* Rates are compared without dividing.                                    *)

\* Of three rates x/k, y/l and z/m, the first exceeds the third when it exceeds
\* the second, which is no less, or is no less than the second, which exceeds it.
LEMMA RatesOrder ==
    ASSUME NEW x \in Int, NEW y \in Int, NEW z \in Int,
           NEW k \in Nat \ {0}, NEW l \in Nat \ {0}, NEW m \in Nat \ {0},
           x * l - y * k >= 0, y * m - z * l >= 0
    PROVE  /\ x * m - z * k >= 0
           /\ x * l - y * k > 0 \/ y * m - z * l > 0 => x * m - z * k > 0
<1> DEFINE u == x * l - y * k
           v == y * m - z * l
           r == x * m - z * k
<1>1. u \in Nat /\ v \in Nat /\ r \in Int
  OBVIOUS
<1>2. r * l = u * m + v * k
  OBVIOUS
<1> HIDE DEF u, v, r
<1>3. u * m \in Nat /\ v * k \in Nat /\ (u > 0 => u * m > 0) /\ (v > 0 => v * k > 0)
  BY <1>1
<1>4. (r < 0 => r * l < 0) /\ (r = 0 => r * l = 0)
  BY <1>1
<1> QED
  BY <1>1, <1>2, <1>3, <1>4 DEF u, v, r

\* resolve_strongest finds a candidate: by rate, mean quality, cost score and
\* identifier, one of them comes before all others.
LEMMA StrongestFound ==
    ASSUME Dataset, NEW ts, ts \subseteq Requests, Offline!Resolvable(ts)
    PROVE  Offline!resolve_strongest(ts) \in Offline!Candidates
<1> DEFINE C == Offline!Candidates
           n == [c \in C |-> Cardinality(Offline!Rated(c, ts))]
           a == [c \in C |-> Offline!Accepted(c, ts)]
           q == [c \in C |-> Offline!Quality(c, ts)]
           Rate(c, d) == a[c] * n[d] - a[d] * n[c]
           Mean(c, d) == q[c] * n[d] - q[d] * n[c]
           Ahead(c, d) == \/ Rate(c, d) > 0
                          \/ Rate(c, d) = 0 /\ Mean(c, d) > 0
                          \/ Rate(c, d) = 0 /\ Mean(c, d) = 0 /\ Cheaper(CostScore, c, d)
           R == {p \in C \X C : Ahead(p[1], p[2])}
<1>1. IsFiniteSet(ts)
  BY StudyFacts, FS_Subset
<1>2. ASSUME NEW c \in C
      PROVE  n[c] \in Nat \ {0} /\ a[c] \in Nat /\ q[c] \in Nat
  <2> DEFINE w == [t \in ts |-> verdict[t][c].quality]
             rated == Offline!Rated(c, ts)
             accepted == {t \in ts : Offline!Acceptable(t, c)}
  <2>1. rated \subseteq ts /\ accepted \subseteq ts /\ rated # {}
    BY DEF Offline!Rated, Offline!Resolvable
  <2>2. IsFiniteSet(rated) /\ IsFiniteSet(accepted)
    BY <1>1, <2>1, FS_Subset
  <2>3. n[c] \in Nat \ {0}
    <3>1. Cardinality(rated) \in Nat /\ Cardinality(rated) # 0
      BY <2>1, <2>2, FS_CardinalityType, FS_EmptySet
    <3> QED
      BY <3>1
  <2>4. a[c] \in Nat
    BY <2>2, FS_CardinalityType, SameOperators DEF Offline!Accepted
  <2>5. \A t \in ts : w[t] \in Nat
    BY StudyFacts DEF Dataset
  <2>6. {{t} \X (1 .. verdict[t][c].quality) : t \in rated} = {{t} \X (1 .. w[t]) : t \in rated}
    <3>1. \A t \in rated : w[t] = verdict[t][c].quality
      BY <2>1
    <3> QED
      BY <3>1
  <2>7. q[c] = Cardinality(Units(rated, w))
    <3>1. q[c] = Cardinality(UNION {{t} \X (1 .. verdict[t][c].quality) : t \in rated})
      BY SameOperators DEF Offline!Quality
    <3> QED
      BY <2>6, <3>1, Zenon DEF Units
  <2>8. q[c] \in Nat
    BY <2>1, <2>2, <2>5, <2>7, UnitsAreFinite
  <2> QED
    BY <2>3, <2>4, <2>8
<1>3. ASSUME NEW c \in C, NEW d \in C PROVE Offline!Stronger(c, d, ts) <=> Ahead(c, d)
  BY SameOperators DEF Offline!Stronger
<1>4. \A c, d \in C : <<c, d>> \in R <=> Ahead(c, d)
  OBVIOUS
<1> HIDE DEF n, a, q
<1>5. \A c, d \in C : /\ Rate(c, d) \in Int /\ Mean(c, d) \in Int
                      /\ Rate(d, c) = -Rate(c, d) /\ Mean(d, c) = -Mean(c, d)
  BY <1>2
<1>6. ASSUME NEW b \in C, NEW c \in C, NEW d \in C
      PROVE  /\ Rate(b, c) >= 0 /\ Rate(c, d) >= 0 =>
                  Rate(b, d) >= 0 /\ (Rate(b, c) > 0 \/ Rate(c, d) > 0 => Rate(b, d) > 0)
             /\ Mean(b, c) >= 0 /\ Mean(c, d) >= 0 =>
                  Mean(b, d) >= 0 /\ (Mean(b, c) > 0 \/ Mean(c, d) > 0 => Mean(b, d) > 0)
  <2>1. /\ n[b] \in Nat \ {0} /\ n[c] \in Nat \ {0} /\ n[d] \in Nat \ {0}
        /\ a[b] \in Int /\ a[c] \in Int /\ a[d] \in Int
        /\ q[b] \in Int /\ q[c] \in Int /\ q[d] \in Int
    BY <1>2
  <2>2. Rate(b, c) >= 0 /\ Rate(c, d) >= 0 =>
          Rate(b, d) >= 0 /\ (Rate(b, c) > 0 \/ Rate(c, d) > 0 => Rate(b, d) > 0)
    BY <2>1, RatesOrder
  <2>3. Mean(b, c) >= 0 /\ Mean(c, d) >= 0 =>
          Mean(b, d) >= 0 /\ (Mean(b, c) > 0 \/ Mean(c, d) > 0 => Mean(b, d) > 0)
    BY <2>1, RatesOrder
  <2> QED
    BY <2>2, <2>3
<1> HIDE DEF Rate, Mean, R
<1>7. \A c \in C : c \in Int /\ CostScore[c] \in Int
  BY StudyFacts
<1> HIDE DEF C
<1>8. Orders(R, C)
  <2>1. \A c \in C : <<c, c>> \notin R
    <3>1. \A c \in C : Rate(c, c) = 0 /\ Mean(c, c) = 0
      BY <1>5
    <3> QED
      BY <1>4, <1>7, <3>1 DEF Cheaper
  <2>2. ASSUME NEW c \in C, NEW d \in C, c # d PROVE <<c, d>> \in R \/ <<d, c>> \in R
    <3>1. Cheaper(CostScore, c, d) \/ Cheaper(CostScore, d, c)
      BY <1>7, <2>2 DEF Cheaper
    <3>2. /\ Rate(c, d) \in Int /\ Mean(c, d) \in Int
          /\ Rate(d, c) = -Rate(c, d) /\ Mean(d, c) = -Mean(c, d)
      BY <1>5
    <3>3. Ahead(c, d) \/ Ahead(d, c)
      BY <3>1, <3>2
    <3> QED
      BY <1>4, <3>3
  <2>3. ASSUME NEW b \in C, NEW c \in C, NEW d \in C, <<b, c>> \in R, <<c, d>> \in R
        PROVE  <<b, d>> \in R
    <3>1. Ahead(b, c) /\ Ahead(c, d)
      BY <1>4, <2>3
    <3>2. /\ Rate(b, c) >= 0 /\ Rate(c, d) >= 0
          /\ Rate(b, c) \in Int /\ Rate(c, d) \in Int /\ Rate(b, d) \in Int
          /\ Mean(b, c) \in Int /\ Mean(c, d) \in Int /\ Mean(b, d) \in Int
      BY <1>5, <3>1
    <3>3. CASE Rate(b, c) > 0 \/ Rate(c, d) > 0
      BY <1>4, <1>6, <3>2, <3>3
    <3>4. CASE Rate(b, c) = 0 /\ Rate(c, d) = 0
      <4>1. Rate(c, b) = 0 /\ Rate(d, c) = 0 /\ Rate(d, b) = -Rate(b, d)
        BY <1>5, <3>4
      <4>2. Rate(b, d) = 0
        BY <1>6, <3>2, <3>4, <4>1
      <4>3. Mean(b, c) >= 0 /\ Mean(c, d) >= 0
        BY <3>1, <3>2, <3>4
      <4>4. CASE Mean(b, c) > 0 \/ Mean(c, d) > 0
        BY <1>4, <1>6, <4>2, <4>3, <4>4
      <4>5. CASE Mean(b, c) = 0 /\ Mean(c, d) = 0
        <5>1. Mean(c, b) = 0 /\ Mean(d, c) = 0 /\ Mean(d, b) = -Mean(b, d)
          BY <1>5, <4>5
        <5>2. Mean(b, d) = 0
          BY <1>6, <3>2, <4>5, <5>1
        <5>3. Cheaper(CostScore, b, c) /\ Cheaper(CostScore, c, d)
          BY <3>1, <3>4, <4>5
        <5>4. Cheaper(CostScore, b, d)
          BY <1>7, <5>3 DEF Cheaper
        <5> QED
          BY <1>4, <4>2, <5>2, <5>4
      <4> QED
        BY <3>2, <4>3, <4>4, <4>5
    <3> QED
      BY <3>2, <3>3, <3>4
  <2> QED
    BY <2>1, <2>2, <2>3 DEF Orders
<1>9. PICK c \in C : \A d \in C : <<d, c>> \notin R
  BY <1>8, LeastMember, StudyFacts DEF C
<1>10. \A d \in C \ {c} : Offline!Stronger(c, d, ts)
  <2>1. \A d \in C \ {c} : <<c, d>> \in R
    BY <1>8, <1>9 DEF Orders
  <2> HIDE DEF Ahead
  <2> QED
    BY <1>3, <1>4, <2>1
<1>11. \E e \in C : \A d \in C \ {e} : Offline!Stronger(e, d, ts)
  BY <1>10
<1> QED
  BY <1>11, Zenon DEF Offline!resolve_strongest, C

\* A policy's summary is made of counts.
Point(s) ==
    /\ s.valid \in Nat /\ s.acceptable \in Nat /\ s.cost \in Nat
    /\ s.acceptable <= Cardinality(Requests)

\* The policies the studies compare select candidates, or abstain.
LEMMA PointsAreCounts ==
    ASSUME Dataset
    PROVE  /\ \A s \in Offline!Points : Point(s)
           /\ \A key \in Offline!ThresholdSummaries : Point(key[2])
<1>1. realized \in Amounts /\ Projected \in Amounts /\ Thresholds \subseteq Nat
  BY StudyFacts DEF Dataset
<1>2. ASSUME NEW p \in Policies, NEW w \in Amounts PROVE Point(Offline!Summary(p, w))
  BY SummaryFacts DEF Point
<1>3. Offline!AlwaysCheapest \in Policies
  <2>1. ASSUME NEW t \in Requests PROVE Offline!AlwaysCheapest[t] \in Offline!Candidates
    <3>1. \A S : Offline!Min(S) = Min(S)
      BY DEF Offline!Min, Min
    <3>2. Offline!AlwaysCheapest[t]
            = CheapestOf(Offline!AllCandidates, Offline!Candidates, Projected[t])
      BY <3>1, SameOperators DEF Offline!AlwaysCheapest, Offline!First, First, CheapestOf
    <3>3. Priced(Offline!Candidates, Projected[t])
      BY <1>1, StudyFacts DEF Priced, Amounts
    <3>4. CheapestOf(Offline!AllCandidates, Offline!Candidates, Projected[t]) \in Offline!Candidates
      BY <3>3, AllListed, StudyFacts, CheapestFirst
    <3> QED
      BY <3>2, <3>4
  <2>2. Offline!AlwaysCheapest = [t \in Requests |-> Offline!AlwaysCheapest[t]]
    BY DEF Offline!AlwaysCheapest
  <2> HIDE DEF Offline!AlwaysCheapest
  <2> QED
    BY <2>1, <2>2 DEF Policies
<1>4. Rule \in Policies
  BY StudyFacts DEF Policies
<1>5. [t \in Requests |-> Offline!FoldLocal(t)] \in Policies
  <2>1. ASSUME NEW t \in Requests PROVE Offline!FoldLocal(t) \in Offline!Candidates \cup {0}
    <3>1. Offline!Training(t) \subseteq Requests
      BY DEF Offline!Training
    <3>2. Offline!Resolvable(Offline!Training(t)) =>
            Offline!resolve_strongest(Offline!Training(t)) \in Offline!Candidates
      BY <3>1, StrongestFound
    <3> QED
      BY <3>2 DEF Offline!FoldLocal, Offline!NoCandidate
  <2> QED
    BY <2>1 DEF Policies
<1>6. ASSUME NEW th \in Thresholds
      PROVE  /\ Offline!route_predictions(th) \in Policies
             /\ [t \in Requests |-> Offline!route_at_threshold(th)[t].selected] \in Policies
  <2>1. ASSUME NEW t \in Requests
        PROVE  /\ Offline!select_cost_aware_candidate(t, th) \in Offline!Candidates
               /\ Offline!route_at_threshold(th)[t].selected \in Offline!Candidates
    <3>1. th \in Nat
      BY <1>1
    <3>2. Offline!route_at_threshold(th)[t].selected \in Offline!Candidates
      BY <3>1, RouteFacts
    <3> QED
      BY <3>1, <3>2, StudiedRuleIsServed
  <2> QED
    BY <2>1 DEF Policies, Offline!route_predictions
<1>7. ASSUME NEW s \in Offline!Points PROVE Point(s)
  <2>1. PICK p \in {Offline!AlwaysCheapest, Rule, [t \in Requests |-> Offline!FoldLocal(t)]}
                   \cup {Offline!route_predictions(th) : th \in Thresholds} :
              s = Offline!Summary(p, realized)
    BY Zenon DEF Offline!Points, Offline!evaluate_decisions
  <2>2. p \in Policies
    BY <1>3, <1>4, <1>5, <1>6, <2>1
  <2> QED
    BY <1>1, <1>2, <2>1, <2>2
<1>8. ASSUME NEW key \in Offline!ThresholdSummaries PROVE Point(key[2])
  <2>1. PICK th \in Thresholds :
           key = <<th, Offline!Summary([t \in Requests |->
                             Offline!route_at_threshold(th)[t].selected], Projected)>>
    BY Zenon DEF Offline!ThresholdSummaries, Offline!summarize_selections
  <2>2. key[2] = Offline!Summary([t \in Requests |->
                             Offline!route_at_threshold(th)[t].selected], Projected)
    BY <2>1
  <2> QED
    BY <1>1, <1>2, <1>6, <2>2
<1> QED
  BY <1>7, <1>8

\* A point that is at least as right and as cheap, and better in one.
Beats(a, b) ==
    /\ a.valid = b.valid /\ a.valid > 0
    /\ a.acceptable >= b.acceptable /\ a.cost <= b.cost
    /\ a.acceptable > b.acceptable \/ a.cost < b.cost

\* What compare_policy_points says of two points.
LEMMA ComparisonFacts ==
    ASSUME NEW a, NEW b, Point(a), Point(b)
    PROVE  LET says == Offline!compare_policy_points(a, b)
               same == a.valid = b.valid /\ a.valid > 0
           IN  /\ same => (Offline!HigherRate(a, b) <=> a.acceptable > b.acceptable)
               /\ same => (Offline!Dominates(a, b) <=> Beats(a, b))
               /\ a.valid # b.valid => says = "incomparable_coverage"
               /\ a.valid = b.valid /\ a.valid = 0 => says = "error"
               /\ says = "first_dominates" <=> Beats(a, b)
               /\ says = "second_dominates" <=> Beats(b, a)
               /\ same /\ ~Beats(a, b) /\ ~Beats(b, a) =>
                    says = IF a.acceptable = b.acceptable /\ a.cost = b.cost
                           THEN "equivalent" ELSE "tradeoff"
<1> DEFINE same == a.valid = b.valid /\ a.valid > 0
<1>1. ASSUME NEW x \in Nat, NEW y \in Nat, NEW v \in Nat, v > 0 PROVE x * v > y * v <=> x > y
  <2>1. x > y => (x - y) * v > 0
    BY <1>1
  <2>2. ~(x > y) => (y - x) * v >= 0
    BY <1>1
  <2>3. (x - y) * v = x * v - y * v /\ (y - x) * v = y * v - x * v
    OBVIOUS
  <2>4. x * v \in Int /\ y * v \in Int
    OBVIOUS
  <2> QED
    BY <2>1, <2>2, <2>3, <2>4
<1>2. same => /\ Offline!HigherRate(a, b) <=> a.acceptable > b.acceptable
              /\ Offline!HigherRate(b, a) <=> b.acceptable > a.acceptable
  <2>1. ASSUME same
        PROVE  /\ a.acceptable * b.valid > b.acceptable * a.valid <=> a.acceptable > b.acceptable
               /\ b.acceptable * a.valid > a.acceptable * b.valid <=> b.acceptable > a.acceptable
    <3>1. a.acceptable \in Nat /\ b.acceptable \in Nat /\ a.valid \in Nat /\ a.valid > 0
      BY <2>1 DEF Point
    <3>2. /\ a.acceptable * a.valid > b.acceptable * a.valid <=> a.acceptable > b.acceptable
          /\ b.acceptable * a.valid > a.acceptable * a.valid <=> b.acceptable > a.acceptable
      BY <1>1, <3>1
    <3> QED
      BY <2>1, <3>2
  <2> QED
    BY <2>1 DEF Offline!HigherRate
<1>3. same => /\ Offline!Dominates(a, b) <=> Beats(a, b)
              /\ Offline!Dominates(b, a) <=> Beats(b, a)
  BY <1>2 DEF Offline!Dominates, Beats, Point
<1>4. Beats(a, b) \/ Beats(b, a) => same
  BY DEF Beats, Point
<1>5. ~(Beats(a, b) /\ Beats(b, a))
  BY DEF Beats, Point
<1>6. a.valid = b.valid /\ a.valid # 0 => same
  BY DEF Point
<1>7. a.valid # b.valid => Offline!compare_policy_points(a, b) = "incomparable_coverage"
  BY DEF Offline!compare_policy_points
<1>8. a.valid = b.valid /\ a.valid = 0 => Offline!compare_policy_points(a, b) = "error"
  BY DEF Offline!compare_policy_points
<1>9. same => Offline!compare_policy_points(a, b) =
                IF Beats(a, b) THEN "first_dominates"
                ELSE IF Beats(b, a) THEN "second_dominates"
                ELSE IF a.acceptable = b.acceptable /\ a.cost = b.cost THEN "equivalent"
                ELSE "tradeoff"
  <2>1. same => a.valid # 0 /\ a.acceptable \in Nat /\ b.acceptable \in Nat
    BY DEF Point
  <2> QED
    BY <1>2, <1>3, <2>1 DEF Offline!compare_policy_points
<1> HIDE DEF same
<1> QED
  BY <1>2, <1>3, <1>4, <1>5, <1>6, <1>7, <1>8, <1>9 DEF same

\* compare_policy_points is an order: symmetric in what it says, and every
\* dominated point is dominated by one that none dominates.
LEMMA DominanceOrders == Dataset => Offline!DominanceIsAnOrder
<1> SUFFICES ASSUME Dataset PROVE Offline!DominanceIsAnOrder
  OBVIOUS
<1> DEFINE points == Offline!Points
           N == Cardinality(Requests)
           Over(p) == Offline!dominated_by(p, points)
<1>1. \A p \in points : Point(p)
  BY PointsAreCounts
<1>2. N \in Nat
  BY StudyFacts, FS_CardinalityType
<1>3. ASSUME NEW p \in points, NEW q \in points
      PROVE  Offline!compare_policy_points(q, p) = Offline!Mirror(Offline!compare_policy_points(p, q))
  <2> DEFINE pq == Offline!compare_policy_points(p, q)
             qp == Offline!compare_policy_points(q, p)
             same == p.valid = q.valid /\ p.valid > 0
  <2>1. Point(p) /\ Point(q)
    BY <1>1
  <2>2. /\ p.valid # q.valid => pq = "incomparable_coverage"
        /\ p.valid = q.valid /\ p.valid = 0 => pq = "error"
        /\ pq = "first_dominates" <=> Beats(p, q)
        /\ pq = "second_dominates" <=> Beats(q, p)
        /\ same /\ ~Beats(p, q) /\ ~Beats(q, p) =>
             pq = IF p.acceptable = q.acceptable /\ p.cost = q.cost
                  THEN "equivalent" ELSE "tradeoff"
    BY <2>1, ComparisonFacts
  <2>3. /\ q.valid # p.valid => qp = "incomparable_coverage"
        /\ q.valid = p.valid /\ q.valid = 0 => qp = "error"
        /\ qp = "first_dominates" <=> Beats(q, p)
        /\ qp = "second_dominates" <=> Beats(p, q)
        /\ q.valid = p.valid /\ q.valid > 0 /\ ~Beats(q, p) /\ ~Beats(p, q) =>
             qp = IF q.acceptable = p.acceptable /\ q.cost = p.cost
                  THEN "equivalent" ELSE "tradeoff"
    BY <2>1, ComparisonFacts
  <2>4. p.valid = q.valid => p.valid = 0 \/ same
    BY <2>1 DEF Point
  <2> SUFFICES qp = Offline!Mirror(pq)
    OBVIOUS
  <2> HIDE DEF pq, qp
  <2>5. Offline!Mirror(pq) = CASE pq = "first_dominates" -> "second_dominates"
                               [] pq = "second_dominates" -> "first_dominates"
                               [] OTHER -> pq
    BY DEF Offline!Mirror
  <2>6. CASE Beats(p, q)
    BY <2>2, <2>3, <2>5, <2>6
  <2>7. CASE Beats(q, p)
    BY <2>2, <2>3, <2>5, <2>7
  <2>8. CASE ~Beats(p, q) /\ ~Beats(q, p)
    <3>1. Offline!Mirror(pq) = pq
      BY <2>2, <2>5, <2>8
    <3>2. qp = pq
      BY <2>2, <2>3, <2>4, <2>8
    <3> QED
      BY <3>1, <3>2
  <2> QED
    BY <2>6, <2>7, <2>8
<1>4. ASSUME NEW p \in points PROVE Over(p) = {q \in points : Beats(q, p)}
  <2>1. ASSUME NEW q \in points
        PROVE  Offline!compare_policy_points(p, q) = "second_dominates" <=> Beats(q, p)
    BY <1>1, ComparisonFacts
  <2> QED
    BY <2>1 DEF Offline!dominated_by
<1> HIDE DEF Over
<1>5. ASSUME NEW p \in points, Over(p) # {} PROVE \E q \in Over(p) : Over(q) = {}
  <2> DEFINE Worth(q) == q.cost + (N - q.acceptable)
             T == {Worth(q) : q \in Over(p)}
  <2>1. ASSUME NEW q \in points PROVE Worth(q) \in Nat
    BY <1>1, <1>2 DEF Point
  <2>2. T \subseteq Nat /\ T # {}
    BY <1>4, <1>5, <2>1
  <2>3. PICK q \in Over(p) : \A r \in Over(p) : Worth(q) <= Worth(r)
    <3>1. PICK x \in T : \A y \in T : x <= y
      BY <2>2, LeastNumber
    <3> QED
      BY <3>1
  <2>4. q \in points /\ Beats(q, p)
    BY <1>4
  <2>5. ASSUME NEW r \in points, Beats(r, q) PROVE FALSE
    <3>1. Point(p) /\ Point(q) /\ Point(r)
      BY <1>1, <2>4
    <3>2. Beats(r, p) /\ Worth(r) < Worth(q)
      BY <1>2, <2>4, <2>5, <3>1 DEF Beats, Point
    <3>3. Worth(q) <= Worth(r)
      BY <1>4, <2>3, <3>2
    <3> QED
      BY <2>1, <2>4, <3>2, <3>3
  <2>6. Over(q) = {}
    BY <1>4, <2>4, <2>5
  <2> QED
    BY <2>6
<1> HIDE DEF points
<1> QED
  BY <1>3, <1>5, Zenon DEF Offline!DominanceIsAnOrder, Over, points

\* calibration_analysis.frontier keeps what compare_policy_points would keep.
LEMMA FrontierRulesAgree == Dataset => Offline!FrontiersAgree
<1> SUFFICES ASSUME Dataset, \A key \in Offline!ThresholdSummaries : key[2].valid > 0
             PROVE  Offline!frontier(Offline!ThresholdSummaries) =
                      {key \in Offline!ThresholdSummaries :
                         ~\E other \in Offline!ThresholdSummaries :
                            Offline!compare_policy_points(other[2], key[2]) = "first_dominates"}
  BY Zenon DEF Offline!FrontiersAgree
<1> DEFINE all == Offline!ThresholdSummaries
           Over(other, key) == /\ other[2].valid = key[2].valid
                               /\ other[2].cost <= key[2].cost
                               /\ ~Offline!HigherRate(key[2], other[2])
                               /\ \/ other[2].cost < key[2].cost
                                  \/ Offline!HigherRate(other[2], key[2])
<1>1. \A key \in all : Point(key[2]) /\ key[2].valid > 0
  BY PointsAreCounts
<1>2. ASSUME NEW key \in all, NEW other \in all
      PROVE  /\ Over(other, key) <=> Beats(other[2], key[2])
             /\ Offline!compare_policy_points(other[2], key[2]) = "first_dominates"
                  <=> Beats(other[2], key[2])
  <2>1. /\ Point(key[2]) /\ Point(other[2]) /\ key[2].valid > 0 /\ other[2].valid > 0
    BY <1>1
  <2>2. /\ other[2].valid = key[2].valid =>
             (Offline!HigherRate(other[2], key[2]) <=> other[2].acceptable > key[2].acceptable)
        /\ Offline!compare_policy_points(other[2], key[2]) = "first_dominates"
             <=> Beats(other[2], key[2])
    BY <2>1, ComparisonFacts
  <2>3. key[2].valid = other[2].valid =>
             (Offline!HigherRate(key[2], other[2]) <=> key[2].acceptable > other[2].acceptable)
    BY <2>1, ComparisonFacts
  <2>4. Over(other, key) <=> Beats(other[2], key[2])
    BY <2>1, <2>2, <2>3 DEF Beats, Point
  <2> QED
    BY <2>2, <2>4
<1>3. \A key \in all : ~Beats(key[2], key[2])
  BY <1>1 DEF Beats, Point
<1>4. Offline!frontier(all) = {key \in all : ~\E other \in all \ {key} : Over(other, key)}
  BY DEF Offline!frontier
<1> HIDE DEF all, Over
<1> QED
  BY <1>2, <1>3, <1>4, Zenon DEF all

-----------------------------------------------------------------------------
(* Ranking and disagreements.                                              *)

\* A part of a finite set with as many members is the whole set.
LEMMA AllCounted ==
    ASSUME NEW S, NEW T, IsFiniteSet(S), T \subseteq S, Cardinality(T) = Cardinality(S)
    PROVE  T = S
BY FS_Subset

\* ranked[0] of _rank_variant: no candidate is more probable.
LEMMA TopOneFacts ==
    ASSUME Dataset, NEW t \in Requests
    PROVE  LET top == Offline!TopOne(t)
           IN  /\ top \in Offline!Candidates
               /\ \A c \in Offline!Candidates : ~(probability[t][c] > probability[t][top])
<1> DEFINE top == Offline!TopOne(t)
           zero == [c \in Offline!Candidates |-> 0]
           L == Offline!AllCandidates
           C == Offline!Candidates
           I == {i \in DOMAIN L : L[i] \in C /\ \A n \in C :
                    ~(\/ probability[t][n] > probability[t][L[i]]
                      \/ probability[t][n] = probability[t][L[i]] /\ n < L[i])}
           J == {i \in DOMAIN L : L[i] \in C /\ \A n \in C : ~Better(probability[t], zero, n, L[i])}
<1>1. probability \in Amounts
  BY StudyFacts DEF Dataset
<1>2. Priced(C, zero) /\ Priced(C, probability[t])
  BY <1>1, StudyFacts DEF Priced, Amounts
<1>3. top = L[Min(I)]
  <2>1. \A S : Offline!Min(S) = Min(S)
    BY DEF Offline!Min, Min
  <2> QED
    BY <2>1 DEF Offline!TopOne, Offline!First
<1>4. BestOf(L, C, probability[t], zero) = L[Min(J)]
  BY DEF BestOf, First
<1>5. I = J
  <2>1. \A m, n \in C : Better(probability[t], zero, m, n)
                          <=> \/ probability[t][m] > probability[t][n]
                              \/ probability[t][m] = probability[t][n] /\ m < n
    BY DEF Better, Cheaper
  <2> QED
    BY <2>1
<1>6. LET m == BestOf(L, C, probability[t], zero)
      IN  m \in C /\ \A n \in C : ~Better(probability[t], zero, n, m)
  BY <1>2, AllListed, StudyFacts, BestFirst
<1>7. top = BestOf(L, C, probability[t], zero)
  BY <1>3, <1>4, <1>5
<1> HIDE DEF top, zero, L, C
<1> QED
  BY <1>6, <1>7 DEF Better, top, C

\* With every pair in order, the first of the ranking is no wrong answer that
\* a right one could have replaced.
LEMMA RankingIsSafe == Dataset => Offline!PerfectRankingIsSafe
<1> SUFFICES ASSUME Dataset, NEW t \in Requests,
                    Offline!RankedPairs(t).pairs > 0,
                    Offline!RankedPairs(t).correct = Offline!RankedPairs(t).pairs,
                    Offline!Captured(t, Offline!TopOne(t)) = "selected_unacceptable_candidate"
             PROVE  FALSE
  BY Zenon DEF Offline!PerfectRankingIsSafe
<1> DEFINE C == Offline!Candidates
           top == Offline!TopOne(t)
           oracle == Offline!oracle_cheapest_acceptable[t]
           pairs == {p \in C \X C : Offline!Acceptable(t, p[1]) /\ Offline!Valid(t, p[2])
                                      /\ ~Offline!Acceptable(t, p[2])}
           correct == {p \in pairs : probability[t][p[1]] > probability[t][p[2]]}
<1>1. top \in C /\ \A c \in C : ~(probability[t][c] > probability[t][top])
  BY TopOneFacts
<1>2. IsFiniteSet(pairs)
  <2>1. IsFiniteSet(C \X C)
    BY StudyFacts, FS_Product
  <2>2. pairs \subseteq C \X C
    OBVIOUS
  <2> QED
    BY <2>1, <2>2, FS_Subset
<1>3. Cardinality(correct) = Cardinality(pairs)
  BY SameOperators DEF Offline!RankedPairs
<1>4. correct = pairs
  <2>1. correct \subseteq pairs
    OBVIOUS
  <2> HIDE DEF correct, pairs
  <2> QED
    BY <1>2, <1>3, <2>1, AllCounted
<1>5. oracle \in C /\ Offline!Acceptable(t, oracle)
  <2>1. oracle # 0
    BY DEF Offline!Captured, Offline!NoCandidate
  <2>2. realized \in Amounts
    BY StudyFacts DEF Dataset
  <2>3. t \in Chosen(OracleBy(realized)) /\ oracle = OracleBy(realized)[t]
    BY <2>1, Oracles DEF Chosen
  <2>4. oracle \in Offline!Observed(t)
    BY <2>2, <2>3, OracleFacts
  <2> QED
    BY <2>4 DEF Offline!Observed
<1>6. Offline!Valid(t, top) /\ ~Offline!Acceptable(t, top)
  <2> HIDE DEF top
  <2>1. oracle # 0
    BY <1>5, StudyFacts
  <2> HIDE DEF oracle
  <2>2. Offline!Captured(t, top) =
          CASE oracle = 0 -> "oracle_abstention_no_acceptable_candidate"
            [] oracle # 0 /\ ~Offline!Valid(t, top) -> "interaction_selected_label_missing"
            [] Offline!Valid(t, top) /\ top = oracle -> "selected_oracle_cheapest_acceptable"
            [] Offline!Acceptable(t, top) /\ top # oracle /\ oracle # 0 ->
                  "selected_another_acceptable_candidate"
            [] OTHER -> "selected_unacceptable_candidate"
    BY DEF Offline!Captured, Offline!NoCandidate, oracle
  <2>3. Offline!Captured(t, top) = "selected_unacceptable_candidate"
    BY DEF top
  <2>4. Offline!Valid(t, top)
    BY <2>1, <2>2, <2>3
  <2>5. top # oracle
    BY <2>1, <2>2, <2>3, <2>4
  <2>6. ~Offline!Acceptable(t, top)
    BY <2>1, <2>2, <2>3, <2>4, <2>5
  <2> QED
    BY <2>4, <2>6
<1>7. <<oracle, top>> \in pairs
  BY <1>1, <1>5, <1>6
<1>8. <<oracle, top>> \in correct
  BY <1>4, <1>7
<1>9. probability[t][oracle] > probability[t][top]
  BY <1>8
<1> QED
  BY <1>1, <1>5, <1>9

\* Policies whose selections are all labelled differ on disagreements only.
LEMMA DisagreementsAreEnough == Dataset => Offline!DisagreementsDecide
<1> SUFFICES ASSUME Dataset,
                    NEW p \in [Requests -> Offline!Candidates],
                    NEW q \in [Requests -> Offline!Candidates],
                    \A t \in Requests : Offline!Valid(t, p[t]),
                    \A t \in Requests : Offline!Valid(t, q[t])
             PROVE  Offline!Passes(p, Requests) - Offline!Passes(q, Requests)
                      = Offline!Passes(p, Offline!disagreement_tasks)
                          - Offline!Passes(q, Offline!disagreement_tasks)
  BY Zenon DEF Offline!DisagreementsDecide, Offline!AnyPolicy
<1> DEFINE D == Offline!disagreement_tasks
           rest == Requests \ D
           Pass(r, ts) == {t \in ts : Offline!Acceptable(t, r[t])}
<1>1. D \subseteq Requests
  BY DEF Offline!disagreement_tasks
<1>2. ASSUME NEW t \in Requests, t \notin D
      PROVE  Offline!Acceptable(t, p[t]) <=> Offline!Acceptable(t, q[t])
  <2> DEFINE seen == {verdict[t][c].acceptable :
                        c \in {d \in Offline!Candidates : Offline!Valid(t, d)}}
  <2>1. seen # {FALSE, TRUE}
    BY <1>2 DEF Offline!disagreement_tasks
  <2>2. verdict[t][p[t]].acceptable \in seen /\ verdict[t][q[t]].acceptable \in seen
    OBVIOUS
  <2>3. seen \subseteq BOOLEAN
    BY StudyFacts DEF Dataset
  <2> HIDE DEF seen
  <2>4. verdict[t][p[t]].acceptable = verdict[t][q[t]].acceptable
    BY <2>1, <2>2, <2>3
  <2> QED
    BY <2>4 DEF Offline!Acceptable
<1>3. Pass(p, rest) = Pass(q, rest)
  BY <1>2
<1> HIDE DEF D
<1>4. ASSUME NEW r
      PROVE  /\ Cardinality(Pass(r, Requests)) = Cardinality(Pass(r, D)) + Cardinality(Pass(r, rest))
             /\ Cardinality(Pass(r, D)) \in Nat /\ Cardinality(Pass(r, rest)) \in Nat
  <2>1. Pass(r, D) \subseteq Requests /\ Pass(r, rest) \subseteq Requests
    BY <1>1
  <2>2. IsFiniteSet(Pass(r, D)) /\ IsFiniteSet(Pass(r, rest))
    BY <2>1, StudyFacts, FS_Subset
  <2>3. /\ Pass(r, Requests) = Pass(r, D) \cup Pass(r, rest)
        /\ Pass(r, D) \cap Pass(r, rest) = {}
    BY <1>1
  <2> HIDE DEF Pass
  <2>4. Cardinality(Pass(r, D) \cup Pass(r, rest)) =
          Cardinality(Pass(r, D)) + Cardinality(Pass(r, rest))
            - Cardinality(Pass(r, D) \cap Pass(r, rest))
    BY <2>2, FS_Union
  <2>5. Cardinality(Pass(r, D) \cap Pass(r, rest)) = 0
    BY <2>3, FS_EmptySet
  <2>6. Cardinality(Pass(r, D)) \in Nat /\ Cardinality(Pass(r, rest)) \in Nat
    BY <2>2, FS_CardinalityType
  <2>7. \A a, b \in Nat : a + b - 0 = a + b
    OBVIOUS
  <2> QED
    BY <2>3, <2>4, <2>5, <2>6, <2>7, Zenon
<1>5. \A r, ts : Offline!Passes(r, ts) = Cardinality(Pass(r, ts))
  BY SameOperators DEF Offline!Passes
<1> HIDE DEF Pass
<1>6. Cardinality(Pass(p, Requests)) - Cardinality(Pass(q, Requests))
        = Cardinality(Pass(p, D)) - Cardinality(Pass(q, D))
  <2> DEFINE k == Cardinality(Pass(p, rest))
  <2>1. /\ Cardinality(Pass(p, Requests)) = Cardinality(Pass(p, D)) + k
        /\ Cardinality(Pass(p, D)) \in Nat /\ k \in Nat
    BY <1>4, Zenon
  <2>2. /\ Cardinality(Pass(q, Requests)) = Cardinality(Pass(q, D)) + k
        /\ Cardinality(Pass(q, D)) \in Nat
    BY <1>3, <1>4, Zenon
  <2> HIDE DEF k
  <2> QED
    BY ONLY <2>1, <2>2, SMT
<1> QED
  BY <1>5, <1>6, Zenon DEF D

\* What the reports conclude from the comparison of policies holds of every dataset:
\* the oracle of routing/analysis.py is a bound, the studied selection rule is the served
\* one, dominance and frontier order the policies, a perfect ranking is safe and the
\* disagreement tasks account for every difference.
THEOREM ComparisonsAreAlwaysSound == PartsSpec => []ComparisonsAreSound
<1>1. Dataset => ComparisonsAreSound
  BY OracleIsABound, OraclesDifferInCost, StudyMatchesServing, DominanceOrders,
     FrontierRulesAgree, RankingIsSafe, DisagreementsAreEnough
  DEF ComparisonsAreSound, Offline!ComparisonsAreSound
<1> QED
  BY <1>1, DatasetInvariant, PTL

-----------------------------------------------------------------------------
(* The folds: tasks, their rows, and lists in the order of a key.          *)

LabelsTyped == label \in [Dealing!Tasks -> Profiles] /\ (builder = "outer" => PerFold = 2)

\* The operators the dealing is written with.
LEMMA DealOperators ==
    /\ \A S : Dealing!IsFiniteSet(S) <=> IsFiniteSet(S)
    /\ \A S : Dealing!Cardinality(S) = Cardinality(S)
    /\ \A s : Dealing!ToSet(s) = {s[i] : i \in DOMAIN s}
<1>1. \A S : Dealing!IsFiniteSet(S) <=> IsFiniteSet(S)
  BY DEF Dealing!IsFiniteSet, IsFiniteSet
<1>2. \A S : Dealing!Cardinality(S) = Cardinality(S)
  BY DEF Dealing!Cardinality, Cardinality
<1>3. \A s : Dealing!ToSet(s) = {s[i] : i \in DOMAIN s}
  BY DEF Dealing!ToSet
<1> QED
  BY <1>1, <1>2, <1>3

\* A category has PerFold tasks for every fold, and a task is its category and
\* its place.
LEMMA TaskFacts ==
    /\ NumFolds \in Nat \ {0} /\ NumCategories \in Nat \ {0} /\ PerFold \in Nat \ {0}
    /\ PerFold * NumFolds \in Nat \ {0}
    /\ Dealing!Folds = 1 .. NumFolds /\ Dealing!Categories = 1 .. NumCategories
    /\ Dealing!NoFold = 0
    /\ IsFiniteSet(Dealing!Tasks)
    /\ \A t \in Dealing!Tasks : /\ t = <<t[1], t[2]>> /\ t[1] \in Dealing!Categories
                                /\ t[2] \in 1 .. (PerFold * NumFolds)
    /\ \A c : /\ Dealing!Of(c) \subseteq Dealing!Tasks /\ IsFiniteSet(Dealing!Of(c))
              /\ \A t \in Dealing!Of(c) : t[1] = c
    /\ \A c \in Dealing!Categories : Cardinality(Dealing!Of(c)) = PerFold * NumFolds
<1>1. NumFolds \in Nat \ {0} /\ NumCategories \in Nat \ {0} /\ PerFold \in Nat \ {0}
  BY DealAssumption DEF Dealing!FoldsAssumption
<1>2. PerFold * NumFolds \in Nat \ {0}
  BY <1>1
<1> DEFINE n == PerFold * NumFolds
<1> HIDE DEF n
<1>3. n \in Nat \ {0} /\ Dealing!Tasks = Dealing!Categories \X (1 .. n)
  BY <1>2 DEF Dealing!Tasks, n
<1>4. Dealing!Categories = 1 .. NumCategories /\ Dealing!Folds = 1 .. NumFolds
      /\ Dealing!NoFold = 0
  BY DEF Dealing!Categories, Dealing!Folds, Dealing!NoFold
<1>5. IsFiniteSet(1 .. NumCategories) /\ IsFiniteSet(1 .. n) /\ Cardinality(1 .. n) = n
  <2>1. IsFiniteSet(1 .. NumCategories)
    BY <1>1, FS_Interval
  <2>2. IsFiniteSet(1 .. n) /\ Cardinality(1 .. n) = n
    BY <1>3, FS_Interval
  <2> QED
    BY <2>1, <2>2
<1>6. IsFiniteSet(Dealing!Tasks)
  BY <1>3, <1>4, <1>5, FS_Product
<1>7. \A t \in Dealing!Tasks :
         t = <<t[1], t[2]>> /\ t[1] \in Dealing!Categories /\ t[2] \in 1 .. n
  BY <1>3
<1>8. ASSUME NEW c
      PROVE  /\ Dealing!Of(c) \subseteq Dealing!Tasks /\ IsFiniteSet(Dealing!Of(c))
             /\ \A t \in Dealing!Of(c) : t[1] = c
  <2>1. Dealing!Of(c) \subseteq Dealing!Tasks /\ \A t \in Dealing!Of(c) : t[1] = c
    BY DEF Dealing!Of
  <2> QED
    BY <1>6, <2>1, FS_Subset
<1>9. ASSUME NEW c \in Dealing!Categories PROVE Cardinality(Dealing!Of(c)) = n
  <2>1. \A x : x \in Dealing!Of(c) <=> x \in {c} \X (1 .. n)
    BY <1>3 DEF Dealing!Of
  <2>2. Dealing!Of(c) = {c} \X (1 .. n)
    BY <2>1
  <2>3. IsFiniteSet({c}) /\ Cardinality({c}) = 1
    BY FS_Singleton
  <2>4. Cardinality({c} \X (1 .. n)) = Cardinality({c}) * Cardinality(1 .. n)
    BY <1>5, <2>3, FS_Product
  <2>5. Cardinality(Dealing!Of(c)) = 1 * n
    BY <1>5, <2>2, <2>3, <2>4, Zenon
  <2> QED
    BY <1>3, <2>5
<1> QED
  BY <1>1, <1>3, <1>4, <1>6, <1>7, <1>8, <1>9, Zenon DEF n

\* The sum of a label count over tasks is what Count counts.
Amount(what) == [t \in Dealing!Tasks |-> label[t][what]]

LabelKinds == {"positive", "negative", "missing"}

\* The sum of the label counts over tasks is a number, and adds up over disjoint sets.
LEMMA CountFacts ==
    ASSUME LabelsTyped, NEW what \in LabelKinds
    PROVE  /\ \A t \in Dealing!Tasks : Amount(what)[t] \in Nat
           /\ \A ts : ts \subseteq Dealing!Tasks =>
                 /\ Dealing!Count(what, ts) = Cardinality(Units(ts, Amount(what)))
                 /\ Dealing!Count(what, ts) \in Nat /\ IsFiniteSet(ts)
                 /\ Dealing!Count(what, ts) <= Dealing!Count(what, Dealing!Tasks)
           /\ \A ts, us : /\ ts \subseteq Dealing!Tasks
                          /\ us \subseteq Dealing!Tasks
                          /\ ts \cap us = {}
                 => Dealing!Count(what, ts \cup us)
                      = Dealing!Count(what, ts) + Dealing!Count(what, us)
           /\ Dealing!Count(what, {}) = 0
<1> DEFINE w == Amount(what)
<1>1. \A t \in Dealing!Tasks : w[t] \in Nat
  <2>1. \A p \in Profiles : p["positive"] \in Nat /\ p["negative"] \in Nat /\ p["missing"] \in Nat
    BY DealAssumption DEF Dealing!FoldsAssumption
  <2>2. \A t \in Dealing!Tasks : label[t] \in Profiles
    BY DEF LabelsTyped
  <2> QED
    BY <2>1, <2>2 DEF LabelKinds, Amount
<1>2. ASSUME NEW ts, ts \subseteq Dealing!Tasks
      PROVE  Dealing!Count(what, ts) = Cardinality(Units(ts, w))
  <2>1. \A t \in ts : w[t] = label[t][what]
    BY <1>2 DEF Amount
  <2>2. {{t} \X (1 .. label[t][what]) : t \in ts} = {{t} \X (1 .. w[t]) : t \in ts}
    BY <2>1
  <2>3. Dealing!Count(what, ts) = Cardinality(UNION {{t} \X (1 .. label[t][what]) : t \in ts})
    BY DealOperators DEF Dealing!Count
  <2> QED
    BY <2>2, <2>3, Zenon DEF Units
<1> HIDE DEF w
<1>3. ASSUME NEW ts, ts \subseteq Dealing!Tasks
      PROVE  IsFiniteSet(ts) /\ \A t \in ts : w[t] \in Nat
  BY <1>1, <1>3, TaskFacts, FS_Subset
<1>4. ASSUME NEW ts, ts \subseteq Dealing!Tasks
      PROVE  /\ Cardinality(Units(ts, w)) \in Nat
             /\ Cardinality(Units(ts, w)) <= Cardinality(Units(Dealing!Tasks, w))
  <2>1. Cardinality(Units(ts, w)) \in Nat
    BY <1>3, <1>4, UnitsAreFinite
  <2>2. \A t \in ts : w[t] \in Nat /\ w[t] <= w[t]
    BY <1>1, <1>4
  <2> QED
    BY <1>1, <1>4, <2>1, <2>2, TaskFacts, UnitsGrow
<1>5. ASSUME NEW ts, NEW us, ts \subseteq Dealing!Tasks, us \subseteq Dealing!Tasks, ts \cap us = {}
      PROVE  Dealing!Count(what, ts \cup us) = Dealing!Count(what, ts) + Dealing!Count(what, us)
  <2>1. ts \cup us \subseteq Dealing!Tasks
    BY <1>5
  <2>2. IsFiniteSet(ts) /\ IsFiniteSet(us) /\ \A t \in ts \cup us : w[t] \in Nat
    BY <1>3, <1>5
  <2>3. Cardinality(Units(ts \cup us, w)) = Cardinality(Units(ts, w)) + Cardinality(Units(us, w))
    BY <1>5, <2>2, UnitsAdd
  <2> QED
    BY <1>2, <1>5, <2>1, <2>3
<1>6. Dealing!Count(what, {}) = 0
  <2>1. Units({}, w) = {}
    BY DEF Units
  <2>2. Dealing!Count(what, {}) = Cardinality(Units({}, w))
    BY <1>2
  <2> QED
    BY <2>1, <2>2, FS_EmptySet
<1> QED
  BY <1>1, <1>2, <1>3, <1>4, <1>5, <1>6 DEF w

\* Python's order on the sort keys, on things whose keys differ in the end.
InOrder(K) ==
    /\ \A x \in K : x.key[1] \in Int /\ x.key[2] \in Int /\ x.key[3] \in Int
    /\ \A x, y \in K : x.key[3] = y.key[3] => x = y

KeyPairs(K) == {p \in K \X K : Dealing!Before(p[1].key, p[2].key)}

\* The keys of sorted() order what has one, as no two share the identifier.
LEMMA KeyedOrder ==
    ASSUME NEW K, InOrder(K)
    PROVE  /\ \A x, y \in K : <<x, y>> \in KeyPairs(K) <=> Dealing!Before(x.key, y.key)
           /\ Orders(KeyPairs(K), K)
<1>1. \A x, y \in K : <<x, y>> \in KeyPairs(K) <=> Dealing!Before(x.key, y.key)
  BY DEF KeyPairs
<1>2. \A x \in K : <<x, x>> \notin KeyPairs(K)
  BY <1>1 DEF Dealing!Before, InOrder
<1>3. ASSUME NEW x \in K, NEW y \in K, x # y
      PROVE  <<x, y>> \in KeyPairs(K) \/ <<y, x>> \in KeyPairs(K)
  <2>1. /\ x.key[1] \in Int /\ x.key[2] \in Int /\ x.key[3] \in Int
        /\ y.key[1] \in Int /\ y.key[2] \in Int /\ y.key[3] \in Int
        /\ x.key[3] # y.key[3]
    BY <1>3 DEF InOrder
  <2>2. Dealing!Before(x.key, y.key) \/ Dealing!Before(y.key, x.key)
    BY <2>1 DEF Dealing!Before
  <2> QED
    BY <1>1, <2>2
<1>4. ASSUME NEW x \in K, NEW y \in K, NEW z \in K,
             <<x, y>> \in KeyPairs(K), <<y, z>> \in KeyPairs(K)
      PROVE  <<x, z>> \in KeyPairs(K)
  <2>1. Dealing!Before(x.key, y.key) /\ Dealing!Before(y.key, z.key)
    BY <1>1, <1>4
  <2>2. Dealing!Before(x.key, z.key)
    BY <2>1 DEF Dealing!Before, InOrder
  <2> QED
    BY <1>1, <2>2
<1> QED
  BY <1>1, <1>2, <1>3, <1>4 DEF Orders

\* sorted() lists every item once, in the order of the keys.
LEMMA KeyedSort ==
    ASSUME NEW K, IsFiniteSet(K), InOrder(K)
    PROVE  /\ Cardinality(K) \in Nat
           /\ \E s \in [1 .. Cardinality(K) -> K] :
                 /\ Dealing!Sorted(K) = [i \in 1 .. Cardinality(K) |-> s[i].item]
                 /\ \A i, j \in 1 .. Cardinality(K) : i < j =>
                       s[i] # s[j] /\ Dealing!Before(s[i].key, s[j].key)
                 /\ \A x \in K : \E i \in 1 .. Cardinality(K) : s[i] = x
<1> DEFINE N == Cardinality(K)
           Ascends(s) == \A i, j \in DOMAIN s : i < j => Dealing!Before(s[i].key, s[j].key)
           list == CHOOSE s \in [1 .. N -> K] : Ascends(s)
<1>1. N \in Nat
  BY FS_CardinalityType
<1>2. /\ \A x, y \in K : <<x, y>> \in KeyPairs(K) <=> Dealing!Before(x.key, y.key)
      /\ Orders(KeyPairs(K), K)
  BY KeyedOrder
<1>3. \E s \in [1 .. N -> K] : Ascends(s)
  <2>1. PICK s \in [1 .. N -> K] : \A i, j \in 1 .. N : i < j => <<s[i], s[j]>> \in KeyPairs(K)
    BY <1>2, Enumeration
  <2>2. ASSUME NEW i \in DOMAIN s, NEW j \in DOMAIN s, i < j
        PROVE  Dealing!Before(s[i].key, s[j].key)
    BY <1>2, <2>1, <2>2
  <2> QED
    BY <2>1, <2>2
<1>4. list \in [1 .. N -> K] /\ Ascends(list)
  BY <1>3
<1>5. Dealing!Sorted(K) = [i \in DOMAIN list |-> list[i].item]
  <2> DEFINE same == CHOOSE s \in [1 .. Dealing!Cardinality(K) -> K] : Ascends(s)
  <2>1. Dealing!Cardinality(K) = N
    BY DealOperators
  <2>2. same = list
    BY <2>1
  <2>3. Dealing!Sorted(K) = [i \in DOMAIN same |-> same[i].item]
    BY Zenon DEF Dealing!Sorted
  <2> QED
    BY <2>2, <2>3, Zenon
<1> HIDE DEF list, N
<1>6. ASSUME NEW i \in 1 .. N, NEW j \in 1 .. N, i < j
      PROVE  list[i] # list[j] /\ Dealing!Before(list[i].key, list[j].key)
  <2>1. Dealing!Before(list[i].key, list[j].key) /\ list[i] \in K /\ list[j] \in K
    BY <1>4, <1>6
  <2> QED
    BY <1>2, <2>1 DEF Orders
<1>7. list \in Surjection(1 .. N, K)
  <2>1. ASSUME NEW i \in 1 .. N, NEW j \in 1 .. N, list[i] = list[j] PROVE i = j
    <3>1. ~(i < j) /\ ~(j < i)
      BY <1>6, <2>1
    <3> QED
      BY <1>1, <3>1
  <2>2. list \in Injection(1 .. N, K)
    BY <1>4, <2>1 DEF Injection, IsInjective
  <2>3. IsFiniteSet(1 .. N) /\ Cardinality(1 .. N) = N
    BY <1>1, FS_Interval
  <2> QED
    BY <2>2, <2>3, FS_Injection DEF N
<1>8. \A x \in K : \E i \in 1 .. N : list[i] = x
  BY <1>7 DEF Surjection
<1>9. DOMAIN list = 1 .. N
  BY <1>4
<1> QED
  BY <1>1, <1>4, <1>5, <1>6, <1>8, <1>9 DEF N

\* The tasks of a category, by positive and missing labels and identifier.
TaskKeys(c) ==
    {Dealing!Keyed(t, <<label[t].positive, label[t].missing, t[2]>>) : t \in Dealing!Of(c)}

\* tasks of build_outer_folds: each task of the category once.
LEMMA TaskList ==
    ASSUME LabelsTyped, NEW c \in Dealing!Categories
    PROVE  LET tasks == Dealing!Sorted(TaskKeys(c))
               n == PerFold * NumFolds
           IN  /\ tasks \in [1 .. n -> Dealing!Of(c)]
               /\ \A i, j \in 1 .. n : i # j => tasks[i] # tasks[j]
               /\ \A t \in Dealing!Of(c) : \E i \in 1 .. n : tasks[i] = t
<1> DEFINE n == PerFold * NumFolds
           K == TaskKeys(c)
           key == [t \in Dealing!Of(c) |->
                     Dealing!Keyed(t, <<label[t].positive, label[t].missing, t[2]>>)]
<1>1. /\ IsFiniteSet(Dealing!Of(c)) /\ Cardinality(Dealing!Of(c)) = n
      /\ \A t \in Dealing!Of(c) : t \in Dealing!Tasks /\ t = <<c, t[2]>> /\ t[2] \in Nat
  BY TaskFacts
<1>2. \A t \in Dealing!Of(c) :
         /\ key[t].item = t /\ key[t].key[1] = label[t].positive
         /\ key[t].key[2] = label[t].missing /\ key[t].key[3] = t[2]
         /\ label[t].positive \in Nat /\ label[t].missing \in Nat
  <2>1. \A p \in Profiles : p.positive \in Nat /\ p.missing \in Nat
    BY DealAssumption DEF Dealing!FoldsAssumption
  <2>2. \A t \in Dealing!Of(c) : label[t] \in Profiles
    BY <1>1 DEF LabelsTyped
  <2> QED
    BY <2>1, <2>2 DEF Dealing!Keyed
<1>3. K = {key[t] : t \in Dealing!Of(c)} /\ key \in [Dealing!Of(c) -> K]
  BY DEF TaskKeys
<1> HIDE DEF K, key, n
<1>4. key \in Bijection(Dealing!Of(c), K)
  <2>1. key \in Surjection(Dealing!Of(c), K)
    BY <1>3 DEF Surjection
  <2>2. key \in Injection(Dealing!Of(c), K)
    BY <1>2, <1>3 DEF Injection, IsInjective
  <2> QED
    BY <2>1, <2>2 DEF Bijection
<1>5. IsFiniteSet(K) /\ Cardinality(K) = n
  BY <1>1, <1>4, FS_Bijection DEF ExistsBijection
<1>6. InOrder(K)
  BY <1>1, <1>2, <1>3 DEF InOrder
<1>7. PICK s \in [1 .. n -> K] :
            /\ Dealing!Sorted(K) = [i \in 1 .. n |-> s[i].item]
            /\ \A i, j \in 1 .. n : i < j =>
                  s[i] # s[j] /\ Dealing!Before(s[i].key, s[j].key)
            /\ \A x \in K : \E i \in 1 .. n : s[i] = x
  BY <1>5, <1>6, KeyedSort
<1>8. n \in Nat
  BY TaskFacts DEF n
<1>9. \A x \in K : x.item \in Dealing!Of(c) /\ key[x.item] = x
  BY <1>2, <1>3
<1>10. ASSUME NEW i \in 1 .. n, NEW j \in 1 .. n, i # j PROVE s[i].item # s[j].item
  <2>1. s[i] # s[j]
    BY <1>7, <1>8, <1>10
  <2> QED
    BY <1>7, <1>9, <2>1
<1>11. ASSUME NEW t \in Dealing!Of(c) PROVE \E i \in 1 .. n : s[i].item = t
  BY <1>2, <1>3, <1>7
<1>12. Dealing!Sorted(K) \in [1 .. n -> Dealing!Of(c)]
  BY <1>7, <1>9
<1> QED
  BY <1>7, <1>10, <1>11, <1>12 DEF n, K

-----------------------------------------------------------------------------
(* The folds: the blocks a category is dealt in.                           *)

Size == IF builder = "outer" THEN 2 ELSE 1

BlockSet(c) ==
    IF builder = "outer" THEN Dealing!Pairs(c) ELSE {<<t>> : t \in Dealing!Of(c)}

TasksOf(b) == Dealing!ToSet(b)

Missing(b) == Dealing!CountIn("missing", b)

\* The blocks cut the category into pieces of one size.
Pieces(S, c) ==
    /\ IsFiniteSet(S)
    /\ \A b \in S : /\ b[1] \in TasksOf(b) /\ TasksOf(b) \subseteq Dealing!Of(c)
                    /\ IsFiniteSet(TasksOf(b)) /\ Cardinality(TasksOf(b)) = Size
    /\ \A a, b \in S : TasksOf(a) \cap TasksOf(b) # {} => a = b
    /\ \A t \in Dealing!Of(c) : \E b \in S : t \in TasksOf(b)

\* build_grouped_folds deals single tasks.
LEMMA SinglePieces ==
    ASSUME builder # "outer", NEW c \in Dealing!Categories
    PROVE  Pieces(BlockSet(c), c)
<1> DEFINE S == {<<t>> : t \in Dealing!Of(c)}
           wrap == [t \in Dealing!Of(c) |-> <<t>>]
<1>1. BlockSet(c) = S /\ Size = 1
  BY DEF BlockSet, Size
<1>2. \A t : TasksOf(<<t>>) = {t} /\ <<t>>[1] = t
  BY DealOperators DEF TasksOf
<1>3. wrap \in Surjection(Dealing!Of(c), S)
  BY DEF Surjection
<1>4. IsFiniteSet(S)
  BY <1>3, TaskFacts, FS_Surjection
<1>5. ASSUME NEW b \in S
      PROVE  /\ b[1] \in TasksOf(b) /\ TasksOf(b) \subseteq Dealing!Of(c)
             /\ IsFiniteSet(TasksOf(b)) /\ Cardinality(TasksOf(b)) = 1
  <2>1. PICK t \in Dealing!Of(c) : b = <<t>>
    OBVIOUS
  <2>2. TasksOf(b) = {t} /\ b[1] = t
    BY <1>2, <2>1
  <2> QED
    BY <2>2, FS_Singleton
<1>6. ASSUME NEW a \in S, NEW b \in S, TasksOf(a) \cap TasksOf(b) # {} PROVE a = b
  <2>1. PICK t \in Dealing!Of(c) : a = <<t>>
    OBVIOUS
  <2>2. PICK u \in Dealing!Of(c) : b = <<u>>
    OBVIOUS
  <2>3. TasksOf(a) = {t} /\ TasksOf(b) = {u}
    BY <1>2, <2>1, <2>2
  <2> QED
    BY <1>6, <2>1, <2>2, <2>3
<1>7. \A t \in Dealing!Of(c) : <<t>> \in S /\ t \in TasksOf(<<t>>)
  BY <1>2
<1> HIDE DEF S
<1> QED
  BY <1>1, <1>4, <1>5, <1>6, <1>7 DEF Pieces

\* build_outer_folds deals the i-th task from each end.
LEMMA PairPieces ==
    ASSUME LabelsTyped, builder = "outer", NEW c \in Dealing!Categories
    PROVE  Pieces(BlockSet(c), c)
<1> DEFINE tasks == Dealing!Sorted(TaskKeys(c))
           n == PerFold * NumFolds
           Pair(i) == <<tasks[i], tasks[n + 1 - i]>>
           S == {Pair(i) : i \in 1 .. NumFolds}
           pair == [i \in 1 .. NumFolds |-> Pair(i)]
<1>1. n = 2 * NumFolds /\ NumFolds \in Nat \ {0}
  BY TaskFacts DEF LabelsTyped
<1>2. /\ tasks \in [1 .. n -> Dealing!Of(c)]
      /\ \A i, j \in 1 .. n : i # j => tasks[i] # tasks[j]
      /\ \A t \in Dealing!Of(c) : \E i \in 1 .. n : tasks[i] = t
  BY TaskList
<1> HIDE DEF tasks, n
<1>3. n \in Nat /\ n \div 2 = NumFolds
  BY <1>1
<1>4. BlockSet(c) = S /\ Size = 2
  <2>1. Len(tasks) = n
    BY <1>2, <1>3
  <2>2. Dealing!Pairs(c) = {<<tasks[i], tasks[Len(tasks) + 1 - i]>> : i \in 1 .. (Len(tasks) \div 2)}
    BY Zenon DEF Dealing!Pairs, tasks, TaskKeys
  <2>3. Dealing!Pairs(c) = {<<tasks[i], tasks[n + 1 - i]>> : i \in 1 .. NumFolds}
    BY <1>3, <2>1, <2>2, Zenon
  <2> QED
    BY <2>3 DEF BlockSet, Size
<1>5. IsFiniteSet(S)
  <2>1. pair \in Surjection(1 .. NumFolds, S)
    BY DEF Surjection
  <2>2. IsFiniteSet(1 .. NumFolds)
    BY <1>1, FS_Interval
  <2> QED
    BY <2>1, <2>2, FS_Surjection
<1>6. \A x, y : TasksOf(<<x, y>>) = {x, y} /\ <<x, y>>[1] = x
  <2>1. \A x, y : DOMAIN <<x, y>> = {1, 2} /\ <<x, y>>[1] = x /\ <<x, y>>[2] = y
    OBVIOUS
  <2>2. \A x, y : {<<x, y>>[i] : i \in {1, 2}} = {x, y}
    BY <2>1
  <2> QED
    BY <2>1, <2>2, DealOperators DEF TasksOf
<1>7. ASSUME NEW i \in 1 .. NumFolds
      PROVE  /\ i \in 1 .. n /\ n + 1 - i \in 1 .. n /\ i < n + 1 - i
             /\ TasksOf(Pair(i)) = {tasks[i], tasks[n + 1 - i]} /\ Pair(i)[1] = tasks[i]
  BY <1>1, <1>6
<1> HIDE DEF Pair
<1>8. ASSUME NEW b \in S
      PROVE  /\ b[1] \in TasksOf(b) /\ TasksOf(b) \subseteq Dealing!Of(c)
             /\ IsFiniteSet(TasksOf(b)) /\ Cardinality(TasksOf(b)) = 2
  <2>1. PICK i \in 1 .. NumFolds : b = Pair(i)
    OBVIOUS
  <2> DEFINE x == tasks[i]
             y == tasks[n + 1 - i]
  <2>2. TasksOf(b) = {x, y} /\ b[1] = x /\ x # y /\ x \in Dealing!Of(c) /\ y \in Dealing!Of(c)
    BY <1>2, <1>3, <1>7, <2>1
  <2> HIDE DEF x, y
  <2>3. IsFiniteSet({x}) /\ Cardinality({x}) = 1
    BY FS_Singleton
  <2>4. IsFiniteSet({x} \cup {y}) /\ Cardinality({x} \cup {y}) = 2
    BY <2>2, <2>3, FS_AddElement
  <2>5. TasksOf(b) = {x} \cup {y}
    BY <2>2
  <2> QED
    BY <2>2, <2>4, <2>5
<1>9. ASSUME NEW a \in S, NEW b \in S, TasksOf(a) \cap TasksOf(b) # {} PROVE a = b
  <2>1. PICK i \in 1 .. NumFolds : a = Pair(i)
    OBVIOUS
  <2>2. PICK j \in 1 .. NumFolds : b = Pair(j)
    OBVIOUS
  <2>3. PICK t : t \in TasksOf(a) /\ t \in TasksOf(b)
    BY <1>9
  <2>4. PICK k \in {i, n + 1 - i} : t = tasks[k]
    BY <1>7, <2>1, <2>3
  <2>5. PICK l \in {j, n + 1 - j} : t = tasks[l]
    BY <1>7, <2>2, <2>3
  <2>6. k \in 1 .. n /\ l \in 1 .. n
    BY <1>7
  <2>7. k = l
    BY <1>2, <2>4, <2>5, <2>6
  <2>8. i = j
    BY <1>1, <2>7
  <2> QED
    BY <2>1, <2>2, <2>8
<1>10. ASSUME NEW t \in Dealing!Of(c) PROVE \E b \in S : t \in TasksOf(b)
  <2>1. PICK k \in 1 .. n : tasks[k] = t
    BY <1>2
  <2>2. CASE k <= NumFolds
    <3>1. k \in 1 .. NumFolds
      BY <1>3, <2>2
    <3> QED
      BY <1>7, <2>1, <3>1
  <2>3. CASE k > NumFolds
    <3>1. n + 1 - k \in 1 .. NumFolds /\ n + 1 - (n + 1 - k) = k
      BY <1>1, <2>3
    <3>2. t \in TasksOf(Pair(n + 1 - k))
      BY <1>7, <2>1, <3>1
    <3> QED
      BY <3>1, <3>2
  <2> QED
    BY <1>1, <2>2, <2>3
<1> HIDE DEF S
<1> QED
  BY <1>4, <1>5, <1>8, <1>9, <1>10 DEF Pieces

\* A builder deals every piece of the category once, the ones with most missing
\* labels first.
LEMMA BlocksFacts ==
    ASSUME LabelsTyped, NEW c \in Dealing!Categories
    PROVE  LET q == Dealing!Blocks(c)
           IN  /\ Pieces(BlockSet(c), c)
               /\ \A b \in BlockSet(c) : /\ Missing(b) = Dealing!Count("missing", TasksOf(b))
                                         /\ Missing(b) \in Nat
               /\ q \in Seq(BlockSet(c))
               /\ \A i, j \in 1 .. Len(q) : i < j =>
                     q[i] # q[j] /\ Missing(q[i]) >= Missing(q[j])
               /\ \A b \in BlockSet(c) : \E i \in 1 .. Len(q) : q[i] = b
               /\ Dealing!ToSet(q) = BlockSet(c)
<1> DEFINE S == BlockSet(c)
           Positive(b) == Dealing!CountIn("positive", b)
           key == [b \in S |-> Dealing!Keyed(b, <<-Missing(b), -Positive(b), b[1][2]>>)]
           K == {key[b] : b \in S}
           q == Dealing!Blocks(c)
<1>1. Pieces(S, c)
  BY SinglePieces, PairPieces
<1>2. ASSUME NEW b \in S
      PROVE  /\ Missing(b) = Dealing!Count("missing", TasksOf(b)) /\ Missing(b) \in Nat
             /\ Positive(b) \in Nat
  <2>1. TasksOf(b) \subseteq Dealing!Tasks
    BY <1>1, TaskFacts DEF Pieces
  <2>2. /\ Dealing!Count("missing", TasksOf(b)) \in Nat
        /\ Dealing!Count("positive", TasksOf(b)) \in Nat
    BY <2>1, CountFacts DEF LabelKinds
  <2> QED
    BY <2>2 DEF Missing, TasksOf, Dealing!CountIn
<1>3. q = Dealing!Sorted(K)
  <2>1. {Dealing!Keyed(b, <<-Missing(b), -Positive(b), b[1][2]>>) : b \in S} = K
    OBVIOUS
  <2>2. q = Dealing!Sorted({Dealing!Keyed(b, <<-Missing(b), -Positive(b), b[1][2]>>) : b \in S})
    BY Zenon DEF Dealing!Blocks, BlockSet, Missing
  <2> QED
    BY <2>1, <2>2, Zenon
<1>4. \A b \in S : /\ key[b].item = b /\ key[b].key[1] = -Missing(b)
                   /\ key[b].key[2] = -Positive(b) /\ key[b].key[3] = b[1][2]
  BY DEF Dealing!Keyed
<1>5. key \in Surjection(S, K)
  BY DEF Surjection
<1> HIDE DEF S, key, q, Positive
<1>6. IsFiniteSet(K)
  BY <1>1, <1>5, FS_Surjection DEF Pieces
<1>7. ASSUME NEW a \in S, NEW b \in S, a[1][2] = b[1][2] PROVE a = b
  <2>1. a[1] \in Dealing!Of(c) /\ b[1] \in Dealing!Of(c)
    BY <1>1 DEF Pieces
  <2>2. a[1] = <<c, a[1][2]>> /\ b[1] = <<c, b[1][2]>>
    BY <2>1, TaskFacts
  <2>3. a[1] = b[1]
    BY <1>7, <2>2
  <2> QED
    BY <1>1, <2>3 DEF Pieces
<1>8. \A b \in S : b[1][2] \in Int
  <2>1. \A b \in S : b[1] \in Dealing!Tasks
    BY <1>1, TaskFacts DEF Pieces
  <2> QED
    BY <2>1, TaskFacts
<1>9. InOrder(K)
  BY <1>2, <1>4, <1>7, <1>8 DEF InOrder
<1>10. Cardinality(K) \in Nat
  BY <1>6, <1>9, KeyedSort
<1>11. PICK s \in [1 .. Cardinality(K) -> K] :
            /\ Dealing!Sorted(K) = [i \in 1 .. Cardinality(K) |-> s[i].item]
            /\ \A i, j \in 1 .. Cardinality(K) : i < j =>
                  s[i] # s[j] /\ Dealing!Before(s[i].key, s[j].key)
            /\ \A x \in K : \E i \in 1 .. Cardinality(K) : s[i] = x
  BY <1>6, <1>9, KeyedSort
<1> DEFINE N == Cardinality(K)
<1>12. \A x \in K : x.item \in S /\ x = key[x.item]
  BY <1>4
<1> HIDE DEF N, K
<1>13. \A i \in 1 .. N : q[i] = s[i].item /\ q[i] \in S /\ s[i] = key[q[i]]
  BY <1>3, <1>11, <1>12 DEF N
<1>14. q \in [1 .. N -> S]
  BY <1>3, <1>11, <1>12 DEF N
<1>15. q \in Seq(S) /\ Len(q) = N
  BY <1>10, <1>14 DEF N
<1>16. ASSUME NEW i \in 1 .. N, NEW j \in 1 .. N, i < j
       PROVE  q[i] # q[j] /\ Missing(q[i]) >= Missing(q[j])
  <2>1. s[i] # s[j] /\ Dealing!Before(s[i].key, s[j].key)
    BY <1>11, <1>16 DEF N
  <2>2. s[i] = key[q[i]] /\ s[j] = key[q[j]] /\ q[i] \in S /\ q[j] \in S
    BY <1>13
  <2>3. s[i].key[1] = -Missing(q[i]) /\ s[j].key[1] = -Missing(q[j])
    BY <1>4, <2>2
  <2>4. s[i].key[1] <= s[j].key[1]
    BY <1>2, <2>1, <2>2, <2>3 DEF Dealing!Before
  <2>5. Missing(q[i]) >= Missing(q[j])
    BY <1>2, <2>2, <2>3, <2>4
  <2> QED
    BY <2>1, <2>2, <2>5
<1>17. ASSUME NEW b \in S PROVE \E i \in 1 .. N : q[i] = b
  <2>1. key[b] \in K /\ key[b].item = b
    BY <1>4 DEF K
  <2>2. PICK i \in 1 .. N : s[i] = key[b]
    BY <1>11, <2>1 DEF N
  <2> QED
    BY <1>13, <2>1, <2>2
<1>18. Dealing!ToSet(q) = S
  BY <1>14, <1>17, DealOperators
<1> QED
  BY <1>1, <1>2, <1>15, <1>16, <1>17, <1>18 DEF S, q

-----------------------------------------------------------------------------
(* The folds: the inductive invariant of the dealing.                      *)

Held(f) == Dealing!InFold(f) \cap Dealing!Of(category)
Has(f) == Cardinality(Held(f))
Lacks(f) == Dealing!Count("missing", Dealing!InFold(f))

DealTyped ==
    /\ builder \in {"outer", "grouped"} /\ LabelsTyped
    /\ category \in Dealing!Categories
    /\ fold \in [Dealing!Tasks -> Dealing!Folds \cup {0}]

\* The queue lists, in order, the blocks whose tasks have no fold yet.
Queued ==
    /\ queue \in Seq(BlockSet(category))
    /\ \A i, j \in 1 .. Len(queue) : i < j =>
          queue[i] # queue[j] /\ Missing(queue[i]) >= Missing(queue[j])
    /\ \A t \in Dealing!Of(category) :
          fold[t] = 0 <=> \E i \in 1 .. Len(queue) : t \in TasksOf(queue[i])

\* The category goes round the folds: none is more than one block ahead.
Levelled ==
    /\ \A f \in Dealing!Folds : Has(f) <= PerFold /\ (builder = "outer" => Has(f) \in {0, 2})
    /\ \A f, g \in Dealing!Folds : Has(f) <= Has(g) + Size

\* Earlier categories are dealt, and evenly, later ones not at all.
Evenly ==
    \A c \in Dealing!Categories : c < category =>
        \A f \in Dealing!Folds : Cardinality(Dealing!InFold(f) \cap Dealing!Of(c)) = PerFold
InTurn ==
    \A t \in Dealing!Tasks : /\ t[1] < category => fold[t] # 0
                             /\ t[1] > category => fold[t] = 0
Settled == Evenly /\ InTurn

\* D is at least what two blocks of one category differ by in missing labels.
Bounds(D) ==
    /\ D \in Int
    /\ \A c \in Dealing!Categories : \A a, b \in BlockSet(c) : Missing(a) - Missing(b) <= D

\* Two folds that have as much of the category differ by no more; of two others,
\* the one ahead will not be further ahead after any block of the category, and
\* the one behind will not be after any block of the queue.
Apart(f, g, D) ==
    /\ Has(f) = Has(g) => Lacks(f) - Lacks(g) <= D
    /\ Has(f) > Has(g) => \A b \in BlockSet(category) : Lacks(f) - Lacks(g) - Missing(b) <= D
    /\ Has(f) < Has(g) => \A i \in 1 .. Len(queue) : Lacks(f) + Missing(queue[i]) - Lacks(g) <= D

Spread == \A D : Bounds(D) => \A f, g \in Dealing!Folds : Apart(f, g, D)

DealInv == DealTyped /\ Queued /\ Levelled /\ Settled /\ Spread

\* What a fold holds is finite, and its tasks are no other fold's.
LEMMA FoldFacts ==
    ASSUME DealTyped
    PROVE  /\ \A f : /\ Dealing!InFold(f) \subseteq Dealing!Tasks
                     /\ IsFiniteSet(Held(f)) /\ Has(f) \in Nat /\ Lacks(f) \in Nat
                     /\ Held(f) \subseteq Dealing!Of(category)
                     /\ Dealing!Count("positive", Dealing!InFold(f)) \in Nat
           /\ \A f, t : t \in Dealing!InFold(f) <=> t \in Dealing!Tasks /\ fold[t] = f
           /\ \A f : Dealing!Dealt(f) = Has(f)
<1>1. \A f : Dealing!InFold(f) \subseteq Dealing!Tasks
  BY DEF Dealing!InFold
<1>2. \A f, t : t \in Dealing!InFold(f) <=> t \in Dealing!Tasks /\ fold[t] = f
  BY DEF Dealing!InFold
<1>3. ASSUME NEW f PROVE IsFiniteSet(Held(f)) /\ Has(f) \in Nat /\ Held(f) \subseteq Dealing!Of(category)
  <2>1. Held(f) \subseteq Dealing!Of(category)
    BY DEF Held
  <2>2. IsFiniteSet(Held(f))
    BY <2>1, TaskFacts, FS_Subset
  <2> QED
    BY <2>1, <2>2, FS_CardinalityType DEF Has
<1>4. \A f : Lacks(f) \in Nat /\ Dealing!Count("positive", Dealing!InFold(f)) \in Nat
  BY <1>1, CountFacts DEF Lacks, LabelKinds, DealTyped
<1>5. \A f : Dealing!Dealt(f) = Has(f)
  BY DealOperators DEF Dealing!Dealt, Has, Held
<1> QED
  BY <1>1, <1>2, <1>3, <1>4, <1>5

\* Those of the category that have a fold, and the shelves they are on.
LEMMA Shelves ==
    ASSUME DealTyped
    PROVE  LET T == {t \in Dealing!Of(category) : fold[t] # 0}
               g == [t \in T |-> fold[t]]
           IN  /\ T \subseteq Dealing!Of(category) /\ g \in [T -> 1 .. NumFolds]
               /\ \A f \in 1 .. NumFolds : Shelf(T, g, f) = Held(f)
<1> DEFINE T == {t \in Dealing!Of(category) : fold[t] # 0}
           g == [t \in T |-> fold[t]]
<1>1. T \subseteq Dealing!Of(category) /\ T \subseteq Dealing!Tasks
  BY TaskFacts
<1>2. \A t \in T : fold[t] \in 1 .. NumFolds
  BY <1>1, TaskFacts DEF DealTyped
<1>3. g \in [T -> 1 .. NumFolds]
  BY <1>2
<1>4. ASSUME NEW f \in 1 .. NumFolds PROVE Shelf(T, g, f) = Held(f)
  <2>1. f # 0
    BY TaskFacts
  <2>2. \A t : t \in Shelf(T, g, f) <=> t \in T /\ fold[t] = f
    BY DEF Shelf
  <2>3. \A t : t \in Held(f) <=> t \in Dealing!Of(category) /\ fold[t] = f
    BY <1>1, FoldFacts, TaskFacts DEF Held
  <2>4. \A t : t \in Shelf(T, g, f) <=> t \in Held(f)
    BY <2>1, <2>2, <2>3
  <2> QED
    BY <2>4
<1> QED
  BY <1>1, <1>3, <1>4

\* When the queue is empty, every fold has its PerFold tasks of the category.
LEMMA AllDealt ==
    ASSUME DealInv, queue = <<>>
    PROVE  \A f \in Dealing!Folds : Has(f) = PerFold
<1> DEFINE S == Dealing!Of(category)
           T == {t \in S : fold[t] # 0}
           g == [t \in T |-> fold[t]]
<1>1. /\ NumFolds \in Nat /\ PerFold \in Nat \ {0} /\ Dealing!Folds = 1 .. NumFolds
      /\ IsFiniteSet(S) /\ Cardinality(S) = PerFold * NumFolds
  BY TaskFacts DEF DealInv, DealTyped
<1>2. T = S
  <2>1. \A t \in S : fold[t] # 0
    BY DEF DealInv, Queued
  <2> QED
    BY <2>1
<1>3. g \in [S -> 1 .. NumFolds] /\ \A f \in 1 .. NumFolds : Shelf(S, g, f) = Held(f)
  BY <1>2, Shelves DEF DealInv
<1> HIDE DEF g, S, T
<1>4. \A f \in 1 .. NumFolds : Cardinality(Shelf(S, g, f)) <= PerFold
  BY <1>1, <1>3 DEF DealInv, Levelled, Has
<1>5. \A f \in 1 .. NumFolds : Cardinality(Shelf(S, g, f)) = PerFold
  BY <1>1, <1>3, <1>4, FullShelves
<1> QED
  BY <1>1, <1>3, <1>5 DEF Has

\* While blocks are left, some fold lacks tasks of the category.
LEMMA RoomLeft ==
    ASSUME DealInv, queue # <<>>
    PROVE  \E f \in Dealing!Folds : Has(f) < PerFold
<1> DEFINE S == Dealing!Of(category)
           T == {t \in S : fold[t] # 0}
           g == [t \in T |-> fold[t]]
<1>1. /\ NumFolds \in Nat /\ PerFold \in Nat \ {0} /\ Dealing!Folds = 1 .. NumFolds
      /\ IsFiniteSet(S) /\ Cardinality(S) = PerFold * NumFolds
  BY TaskFacts DEF DealInv, DealTyped
<1>2. /\ T \subseteq S /\ g \in [T -> 1 .. NumFolds]
      /\ \A f \in 1 .. NumFolds : Shelf(T, g, f) = Held(f)
  BY Shelves DEF DealInv
<1>3. PICK t \in S : fold[t] = 0
  <2>1. 1 \in 1 .. Len(queue) /\ queue[1] \in BlockSet(category)
    BY DEF DealInv, Queued
  <2>2. Pieces(BlockSet(category), category)
    BY BlocksFacts DEF DealInv, DealTyped
  <2>3. queue[1][1] \in TasksOf(queue[1]) /\ queue[1][1] \in S
    BY <2>1, <2>2 DEF Pieces
  <2> QED
    BY <2>1, <2>3 DEF DealInv, Queued
<1>4. T # S
  BY <1>3
<1> HIDE DEF g, S, T
<1>5. ASSUME \A f \in 1 .. NumFolds : ~(Has(f) < PerFold) PROVE FALSE
  <2>1. \A f \in 1 .. NumFolds : Has(f) \in Nat /\ Has(f) <= PerFold
    BY <1>1, FoldFacts DEF DealInv, Levelled
  <2>2. \A f \in 1 .. NumFolds : Has(f) = PerFold
    BY <1>1, <1>5, <2>1
  <2>3. \A f \in 1 .. NumFolds : Cardinality(Shelf(T, g, f)) = PerFold
    BY <1>2, <2>2 DEF Has
  <2>4. Filled(NumFolds, PerFold, S, T, g)
    BY <1>2, <2>3 DEF Filled
  <2>5. T = S
    BY <1>1, <2>4, NothingLeft
  <2> QED
    BY <1>4, <2>5
<1> QED
  BY <1>1, <1>5

FoldKey(f) == <<Lacks(f), Dealing!Count("positive", Dealing!InFold(f)), f>>

FirstOf(C, x) == x \in C /\ \A g \in C \ {x} : Dealing!Before(FoldKey(x), FoldKey(g))

\* min(): of any folds one has the first key, and no other has fewer missing labels.
LEMMA FirstFold ==
    ASSUME DealTyped, NEW C, C \subseteq Dealing!Folds, C # {}
    PROVE  /\ \E x : FirstOf(C, x)
           /\ \A x : FirstOf(C, x) => \A g \in C : Lacks(x) <= Lacks(g)
<1> DEFINE R == {p \in C \X C : Dealing!Before(FoldKey(p[1]), FoldKey(p[2]))}
<1>1. \A f \in C : /\ FoldKey(f)[1] \in Int /\ FoldKey(f)[2] \in Int /\ FoldKey(f)[3] \in Int
                   /\ FoldKey(f)[1] = Lacks(f) /\ FoldKey(f)[3] = f
  BY FoldFacts, TaskFacts DEF FoldKey
<1>2. \A f, g \in C : <<f, g>> \in R <=> Dealing!Before(FoldKey(f), FoldKey(g))
  OBVIOUS
<1> HIDE DEF R
<1>3. Orders(R, C)
  <2>1. \A f \in C : ~Dealing!Before(FoldKey(f), FoldKey(f))
    BY <1>1 DEF Dealing!Before
  <2>2. \A f, g \in C : f = g \/ Dealing!Before(FoldKey(f), FoldKey(g))
                              \/ Dealing!Before(FoldKey(g), FoldKey(f))
    BY <1>1 DEF Dealing!Before
  <2>3. \A f, g, h \in C :
           Dealing!Before(FoldKey(f), FoldKey(g)) /\ Dealing!Before(FoldKey(g), FoldKey(h))
              => Dealing!Before(FoldKey(f), FoldKey(h))
    BY <1>1 DEF Dealing!Before
  <2> QED
    BY <1>2, <2>1, <2>2, <2>3, Zenon DEF Orders
<1>4. IsFiniteSet(C)
  <2>1. NumFolds \in Int /\ Dealing!Folds = 1 .. NumFolds
    BY TaskFacts
  <2>2. IsFiniteSet(1 .. NumFolds)
    BY <2>1, FS_Interval
  <2> QED
    BY <2>1, <2>2, FS_Subset
<1>5. PICK x \in C : \A g \in C : <<g, x>> \notin R
  BY <1>3, <1>4, LeastMember
<1>6. \A g \in C \ {x} : Dealing!Before(FoldKey(x), FoldKey(g))
  <2>1. \A g \in C : g # x => <<x, g>> \in R
    BY <1>3, <1>5, Zenon DEF Orders
  <2>2. \A g \in C : g # x => Dealing!Before(FoldKey(x), FoldKey(g))
    BY <1>2, <2>1, Zenon
  <2> QED
    BY <2>2
<1>7. ASSUME NEW y, FirstOf(C, y), NEW g \in C PROVE Lacks(y) <= Lacks(g)
  <2>1. y \in C /\ (g = y \/ Dealing!Before(FoldKey(y), FoldKey(g)))
    BY <1>7 DEF FirstOf
  <2>2. CASE g = y
    BY <2>1, <2>2, FoldFacts
  <2>3. CASE Dealing!Before(FoldKey(y), FoldKey(g))
    BY <1>1, <2>1, <2>3 DEF Dealing!Before
  <2> QED
    BY <2>1, <2>2, <2>3
<1>8. FirstOf(C, x)
  BY <1>5, <1>6 DEF FirstOf
<1> QED
  BY <1>7, <1>8

\* The folds that may get the next block.
Level == {f \in Dealing!Eligible : \A g \in Dealing!Eligible : Dealing!Dealt(f) <= Dealing!Dealt(g)}
Choice == IF builder = "outer" THEN Dealing!Eligible ELSE Level

\* The fold a block goes to has room, has least of the category, and of those
\* that have as much it has fewest missing labels.
LEMMA FoldForFacts ==
    ASSUME DealInv, queue # <<>>
    PROVE  LET x == Dealing!FoldFor
           IN  /\ x \in Dealing!Folds /\ Has(x) + Size <= PerFold
               /\ \A g \in Dealing!Folds : Has(x) <= Has(g)
               /\ \A g \in Dealing!Folds : Has(g) = Has(x) => Lacks(x) <= Lacks(g)
<1> DEFINE x == Dealing!FoldFor
<1>1. DealTyped /\ Levelled /\ builder \in {"outer", "grouped"}
  BY DEF DealInv, DealTyped
<1>2. /\ \A f : Has(f) \in Nat /\ Dealing!Dealt(f) = Has(f)
      /\ PerFold \in Nat /\ (builder = "outer" => PerFold = 2)
  BY <1>1, FoldFacts, TaskFacts DEF DealTyped, LabelsTyped
<1>3. \A f : f \in Dealing!Eligible <=> f \in Dealing!Folds /\ Has(f) < PerFold
  BY <1>2 DEF Dealing!Eligible
<1>4. Dealing!Eligible # {}
  BY <1>3, RoomLeft
<1>5. /\ Choice # {} /\ Choice \subseteq Dealing!Eligible
      /\ \A f \in Choice : \A g \in Dealing!Eligible : Has(f) <= Has(g)
      /\ \A f \in Choice : \A g \in Dealing!Eligible : Has(g) = Has(f) => g \in Choice
  <2>1. CASE builder = "outer"
    <3>1. \A f \in Dealing!Eligible : Has(f) = 0
      BY <1>1, <1>2, <1>3, <2>1 DEF Levelled
    <3> QED
      BY <1>2, <1>4, <2>1, <3>1 DEF Choice
  <2>2. CASE builder # "outer"
    <3>1. \A f : f \in Choice <=>
             f \in Dealing!Eligible /\ \A g \in Dealing!Eligible : Has(f) <= Has(g)
      BY <1>2, <2>2 DEF Choice, Level
    <3> DEFINE T == {Has(f) : f \in Dealing!Eligible}
    <3>2. T \subseteq Nat /\ T # {}
      BY <1>2, <1>4
    <3>3. PICK n \in T : \A m \in T : n <= m
      BY <3>2, LeastNumber
    <3>4. PICK f \in Dealing!Eligible : n = Has(f)
      BY <3>3
    <3>5. f \in Choice
      BY <3>1, <3>3, <3>4
    <3>6. \A h \in Choice : \A g \in Dealing!Eligible : Has(g) = Has(h) => g \in Choice
      BY <3>1
    <3> QED
      BY <3>1, <3>5, <3>6
  <2> QED
    BY <2>1, <2>2
<1>6. x = CHOOSE f : FirstOf(Choice, f)
  <2>1. x = CHOOSE f \in Choice : \A g \in Choice \ {f} : Dealing!Before(FoldKey(f), FoldKey(g))
    BY DEF Dealing!FoldFor, Choice, Level, FoldKey, Lacks
  <2> QED
    BY <2>1 DEF FirstOf
<1> HIDE DEF x
<1>7. FirstOf(Choice, x) /\ \A g \in Choice : Lacks(x) <= Lacks(g)
  <2>1. Choice \subseteq Dealing!Folds
    BY <1>3, <1>5
  <2>2. /\ \E f : FirstOf(Choice, f)
        /\ \A f : FirstOf(Choice, f) => \A g \in Choice : Lacks(f) <= Lacks(g)
    BY <1>1, <1>5, <2>1, FirstFold
  <2> QED
    BY <1>6, <2>2
<1>8. x \in Choice /\ x \in Dealing!Eligible /\ x \in Dealing!Folds /\ Has(x) < PerFold
  BY <1>3, <1>5, <1>7 DEF FirstOf
<1>9. ASSUME NEW g \in Dealing!Folds PROVE Has(x) <= Has(g)
  BY <1>2, <1>3, <1>5, <1>8
<1>10. ASSUME NEW g \in Dealing!Folds, Has(g) = Has(x) PROVE Lacks(x) <= Lacks(g)
  <2>1. g \in Dealing!Eligible
    BY <1>3, <1>8, <1>10
  <2> QED
    BY <1>5, <1>7, <1>8, <1>10, <2>1
<1>11. Has(x) + Size <= PerFold
  BY <1>1, <1>2, <1>8 DEF Levelled, Size
<1> QED
  BY <1>8, <1>9, <1>10, <1>11 DEF x

SameLabels == builder' = builder /\ label' = label

\* What the blocks are depends on the builder and on the labels only.
LEMMA SameBlocks ==
    ASSUME SameLabels
    PROVE  /\ LabelsTyped' = LabelsTyped /\ Size' = Size
           /\ \A c : BlockSet(c)' = BlockSet(c)
           /\ \A b : TasksOf(b)' = TasksOf(b) /\ Missing(b)' = Missing(b)
           /\ \A what, ts : Dealing!Count(what, ts)' = Dealing!Count(what, ts)
<1>1. LabelsTyped' = LabelsTyped
  BY DEF SameLabels, LabelsTyped
<1>2. Size' = Size
  BY DEF SameLabels, Size
<1>3. ASSUME NEW what, NEW ts PROVE Dealing!Count(what, ts)' = Dealing!Count(what, ts)
  BY DEF SameLabels, Dealing!Count, Dealing!Cardinality
<1>4. ASSUME NEW b PROVE TasksOf(b)' = TasksOf(b)
  BY DEF TasksOf, Dealing!ToSet
<1>5. ASSUME NEW b PROVE Missing(b)' = Missing(b)
  BY <1>3, <1>4 DEF Missing, Dealing!CountIn, TasksOf
<1>6. ASSUME NEW c PROVE BlockSet(c)' = BlockSet(c)
  BY DEF SameLabels, BlockSet, Dealing!Pairs, Dealing!Sorted, Dealing!Keyed, Dealing!Before,
         Dealing!Of, Dealing!Tasks, Dealing!Categories, Dealing!Cardinality
<1> QED
  BY <1>1, <1>2, <1>3, <1>4, <1>5, <1>6

\* A step that deals block h to fold x: what the folds have afterwards.
LEMMA DealtFacts ==
    ASSUME DealInv, Dealing!Deal, NEW x, x = Dealing!FoldFor, NEW h, h = queue[1]
    PROVE  /\ SameLabels /\ category' = category
           /\ h \in BlockSet(category) /\ 1 \in 1 .. Len(queue)
           /\ queue' \in Seq(BlockSet(category)) /\ Len(queue') = Len(queue) - 1
           /\ \A i \in 1 .. Len(queue') : queue'[i] = queue[i + 1] /\ i + 1 \in 1 .. Len(queue)
           /\ fold' = [t \in Dealing!Tasks |-> IF t \in TasksOf(h) THEN x ELSE fold[t]]
           /\ TasksOf(h) \subseteq Dealing!Of(category) /\ \A t \in TasksOf(h) : fold[t] = 0
           /\ IsFiniteSet(TasksOf(h)) /\ Cardinality(TasksOf(h)) = Size
           /\ Missing(h) = Dealing!Count("missing", TasksOf(h)) /\ Missing(h) \in Nat
<1>1. SameLabels /\ category' = category /\ queue # <<>> /\ queue' = Tail(queue)
  BY DEF Dealing!Deal, SameLabels
<1>2. queue \in Seq(BlockSet(category)) /\ DealTyped
  BY DEF DealInv, Queued
<1>3. h \in BlockSet(category) /\ Len(queue) \in Nat \ {0} /\ Head(queue) = h
  BY <1>1, <1>2
<1>4. /\ queue' \in Seq(BlockSet(category)) /\ Len(queue') = Len(queue) - 1
      /\ \A i \in 1 .. Len(queue') : queue'[i] = queue[i + 1] /\ i + 1 \in 1 .. Len(queue)
  BY <1>1, <1>2
<1>5. fold' = [t \in Dealing!Tasks |-> IF t \in TasksOf(h) THEN x ELSE fold[t]]
  BY <1>3 DEF Dealing!Deal, TasksOf
<1>6. Pieces(BlockSet(category), category)
      /\ \A b \in BlockSet(category) : /\ Missing(b) = Dealing!Count("missing", TasksOf(b))
                                       /\ Missing(b) \in Nat
  BY <1>2, BlocksFacts DEF DealTyped
<1>7. /\ TasksOf(h) \subseteq Dealing!Of(category)
      /\ IsFiniteSet(TasksOf(h)) /\ Cardinality(TasksOf(h)) = Size
      /\ Missing(h) = Dealing!Count("missing", TasksOf(h)) /\ Missing(h) \in Nat
  BY <1>3, <1>6 DEF Pieces
<1>8. 1 \in 1 .. Len(queue)
  BY <1>3
<1>9. \A t \in TasksOf(h) : fold[t] = 0
  BY <1>7, <1>8 DEF DealInv, Queued
<1> QED
  BY <1>1, <1>3, <1>4, <1>5, <1>7, <1>8, <1>9

\* That step adds the block to one fold, and leaves the others as they were.
LEMMA DealtFolds ==
    ASSUME DealInv, Dealing!Deal, NEW x, x = Dealing!FoldFor, NEW h, h = queue[1]
    PROVE  /\ x \in Dealing!Folds /\ x # 0
           /\ DealTyped'
           /\ Dealing!InFold(x)' = Dealing!InFold(x) \cup TasksOf(h)
           /\ Dealing!InFold(x) \cap TasksOf(h) = {}
           /\ \A g \in Dealing!Folds : g # x => Dealing!InFold(g)' = Dealing!InFold(g)
<1>1. x \in Dealing!Folds /\ x # 0
  BY FoldForFacts, TaskFacts DEF Dealing!Deal
<1>2. DealTyped
  BY DEF DealInv
<1>3. /\ SameLabels /\ category' = category
      /\ fold' = [t \in Dealing!Tasks |-> IF t \in TasksOf(h) THEN x ELSE fold[t]]
      /\ TasksOf(h) \subseteq Dealing!Of(category) /\ \A t \in TasksOf(h) : fold[t] = 0
  BY DealtFacts
<1>4. TasksOf(h) \subseteq Dealing!Tasks
  BY <1>3, TaskFacts
<1>5. \A t \in Dealing!Tasks : fold'[t] = IF t \in TasksOf(h) THEN x ELSE fold[t]
  BY <1>3
<1>6. \A f : /\ \A t : t \in Dealing!InFold(f) <=> t \in Dealing!Tasks /\ fold[t] = f
             /\ \A t : t \in Dealing!InFold(f)' <=> t \in Dealing!Tasks /\ fold'[t] = f
  BY DEF Dealing!InFold, Dealing!Tasks, Dealing!Categories
<1>7. \A t : t \in Dealing!InFold(x)' <=> t \in Dealing!InFold(x) \cup TasksOf(h)
  BY <1>4, <1>5, <1>6
<1>8. Dealing!InFold(x)' = Dealing!InFold(x) \cup TasksOf(h)
  BY <1>7
<1>9. Dealing!InFold(x) \cap TasksOf(h) = {}
  BY <1>1, <1>3, <1>6
<1>10. ASSUME NEW g \in Dealing!Folds, g # x PROVE Dealing!InFold(g)' = Dealing!InFold(g)
  <2>1. g # 0
    BY TaskFacts
  <2>2. \A t : t \in Dealing!InFold(g)' <=> t \in Dealing!InFold(g)
    BY <1>3, <1>4, <1>5, <1>6, <1>10, <2>1
  <2> QED
    BY <2>2
<1>11. fold' \in [Dealing!Tasks -> Dealing!Folds \cup {0}]
  BY <1>1, <1>2, <1>3 DEF DealTyped
<1>12. DealTyped'
  <2>1. LabelsTyped'
    BY <1>2, <1>3, SameBlocks DEF DealTyped
  <2> QED
    BY <1>2, <1>3, <1>11, <2>1
    DEF DealTyped, SameLabels, Dealing!Tasks, Dealing!Categories, Dealing!Folds
<1> QED
  BY <1>1, <1>8, <1>9, <1>10, <1>12

\* The block counts once, in the fold it was dealt to.
LEMMA DealtCounts ==
    ASSUME DealInv, Dealing!Deal, NEW x, x = Dealing!FoldFor, NEW h, h = queue[1]
    PROVE  \A f \in Dealing!Folds :
              /\ Has(f)' = IF f = x THEN Has(f) + Size ELSE Has(f)
              /\ Lacks(f)' = IF f = x THEN Lacks(f) + Missing(h) ELSE Lacks(f)
              /\ \A c : c # category =>
                    (Dealing!InFold(f) \cap Dealing!Of(c))' = Dealing!InFold(f) \cap Dealing!Of(c)
<1>1. DealTyped /\ LabelsTyped
  BY DEF DealInv, DealTyped
<1>2. /\ SameLabels /\ category' = category
      /\ TasksOf(h) \subseteq Dealing!Of(category)
      /\ IsFiniteSet(TasksOf(h)) /\ Cardinality(TasksOf(h)) = Size
      /\ Missing(h) = Dealing!Count("missing", TasksOf(h))
  BY DealtFacts
<1>3. /\ Dealing!InFold(x)' = Dealing!InFold(x) \cup TasksOf(h)
      /\ Dealing!InFold(x) \cap TasksOf(h) = {}
      /\ \A g \in Dealing!Folds : g # x => Dealing!InFold(g)' = Dealing!InFold(g)
  BY DealtFolds
<1>4. \A c : Dealing!Of(c)' = Dealing!Of(c)
  BY DEF Dealing!Of, Dealing!Tasks, Dealing!Categories
<1>5. Dealing!Of(category)' = Dealing!Of(category)
  BY <1>2 DEF Dealing!Of, Dealing!Tasks, Dealing!Categories
<1>6. \A f : Has(f)' = Cardinality(Dealing!InFold(f)' \cap Dealing!Of(category))
  BY <1>5 DEF Has, Held
<1>7. \A f : Lacks(f)' = Dealing!Count("missing", Dealing!InFold(f)')
  BY <1>2 DEF Lacks, SameLabels, Dealing!Count, Dealing!Cardinality
<1>8. Has(x)' = Has(x) + Size
  <2>1. Dealing!InFold(x)' \cap Dealing!Of(category) = Held(x) \cup TasksOf(h)
        /\ Held(x) \cap TasksOf(h) = {}
    BY <1>2, <1>3 DEF Held
  <2>2. IsFiniteSet(Held(x)) /\ Has(x) = Cardinality(Held(x)) /\ Has(x) \in Nat /\ Size \in Nat
    BY <1>1, FoldFacts DEF Has, Size
  <2>3. Cardinality(Held(x) \cap TasksOf(h)) = 0
    BY <2>1, FS_EmptySet
  <2>4. Cardinality(Held(x) \cup TasksOf(h))
          = Cardinality(Held(x)) + Cardinality(TasksOf(h)) - Cardinality(Held(x) \cap TasksOf(h))
    BY <1>2, <2>2, FS_Union
  <2> QED
    BY <1>2, <1>6, <2>1, <2>2, <2>3, <2>4
<1>9. Lacks(x)' = Lacks(x) + Missing(h)
  <2>1. Dealing!InFold(x) \subseteq Dealing!Tasks /\ TasksOf(h) \subseteq Dealing!Tasks
    BY <1>1, <1>2, FoldFacts, TaskFacts
  <2>2. Dealing!Count("missing", Dealing!InFold(x) \cup TasksOf(h))
          = Dealing!Count("missing", Dealing!InFold(x)) + Dealing!Count("missing", TasksOf(h))
    BY <1>1, <1>3, <2>1, CountFacts DEF LabelKinds
  <2> QED
    BY <1>2, <1>3, <1>7, <2>2 DEF Lacks
<1>10. ASSUME NEW f \in Dealing!Folds, f # x PROVE Has(f)' = Has(f) /\ Lacks(f)' = Lacks(f)
  BY <1>3, <1>6, <1>7, <1>10 DEF Has, Held, Lacks
<1>11. ASSUME NEW f \in Dealing!Folds, NEW c, c # category
       PROVE  (Dealing!InFold(f) \cap Dealing!Of(c))' = Dealing!InFold(f) \cap Dealing!Of(c)
  <2>1. TasksOf(h) \cap Dealing!Of(c) = {}
    BY <1>2, <1>11, TaskFacts
  <2> QED
    BY <1>3, <1>4, <2>1
<1> QED
  BY <1>8, <1>9, <1>10, <1>11

\* What the rest of the queue holds has still no fold.
LEMMA QueuedAfterDeal ==
    ASSUME DealInv, Dealing!Deal
    PROVE  Queued'
<1>0. PICK x : x = Dealing!FoldFor
  OBVIOUS
<1>1. PICK h : h = queue[1]
  OBVIOUS
<1>2. /\ SameLabels /\ category' = category
      /\ h \in BlockSet(category) /\ 1 \in 1 .. Len(queue)
      /\ queue' \in Seq(BlockSet(category)) /\ Len(queue') = Len(queue) - 1
      /\ \A i \in 1 .. Len(queue') : queue'[i] = queue[i + 1] /\ i + 1 \in 1 .. Len(queue)
      /\ fold' = [t \in Dealing!Tasks |-> IF t \in TasksOf(h) THEN x ELSE fold[t]]
      /\ TasksOf(h) \subseteq Dealing!Of(category)
  BY <1>0, <1>1, DealtFacts
<1>3. x # 0
  BY <1>0, <1>1, DealtFolds
<1>4. /\ queue \in Seq(BlockSet(category)) /\ Len(queue) \in Nat
      /\ \A i, j \in 1 .. Len(queue) : i < j =>
            queue[i] # queue[j] /\ Missing(queue[i]) >= Missing(queue[j])
      /\ \A t \in Dealing!Of(category) :
            fold[t] = 0 <=> \E i \in 1 .. Len(queue) : t \in TasksOf(queue[i])
  BY DEF DealInv, Queued
<1>5. Pieces(BlockSet(category), category)
  BY BlocksFacts DEF DealInv, DealTyped
<1>6. /\ BlockSet(category)' = BlockSet(category)
      /\ Dealing!Of(category)' = Dealing!Of(category)
      /\ \A i : TasksOf(queue[i])' = TasksOf(queue'[i]) /\ Missing(queue[i])' = Missing(queue'[i])
  <2>1. BlockSet(category)' = BlockSet(category)
    BY <1>2, SameBlocks
  <2>2. Dealing!Of(category)' = Dealing!Of(category)
    BY <1>2 DEF Dealing!Of, Dealing!Tasks, Dealing!Categories
  <2>3. \A i : TasksOf(queue[i])' = TasksOf(queue'[i])
    BY DEF TasksOf, Dealing!ToSet
  <2>4. \A i : Missing(queue[i])' = Missing(queue'[i])
    BY <1>2, SameBlocks
  <2> QED
    BY <2>1, <2>2, <2>3, <2>4
<1>7. ASSUME NEW i \in 1 .. Len(queue'), NEW j \in 1 .. Len(queue'), i < j
      PROVE  queue'[i] # queue'[j] /\ Missing(queue'[i]) >= Missing(queue'[j])
  <2>1. i + 1 \in 1 .. Len(queue) /\ j + 1 \in 1 .. Len(queue) /\ i + 1 < j + 1
    BY <1>2, <1>7
  <2>2. queue'[i] = queue[i + 1] /\ queue'[j] = queue[j + 1]
    BY <1>2
  <2>3. queue[i + 1] # queue[j + 1] /\ Missing(queue[i + 1]) >= Missing(queue[j + 1])
    BY <1>4, <2>1
  <2> QED
    BY <2>2, <2>3, Zenon
<1>8. ASSUME NEW t \in Dealing!Of(category)
      PROVE  fold'[t] = 0 <=> \E i \in 1 .. Len(queue') : t \in TasksOf(queue'[i])
  <2>1. fold'[t] = IF t \in TasksOf(h) THEN x ELSE fold[t]
    BY <1>2, TaskFacts
  <2>2. CASE t \in TasksOf(h)
    <3>1. ASSUME NEW i \in 1 .. Len(queue'), t \in TasksOf(queue'[i]) PROVE FALSE
      <4>1. queue'[i] = queue[i + 1] /\ i + 1 \in 1 .. Len(queue) /\ 1 < i + 1
        BY <1>2
      <4>2. queue[i + 1] \in BlockSet(category)
        BY <1>4, <4>1
      <4>3. queue[i + 1] = h
        BY <1>2, <1>5, <2>2, <3>1, <4>1, <4>2 DEF Pieces
      <4> QED
        BY <1>1, <1>2, <1>4, <4>1, <4>3
    <3> QED
      BY <1>3, <2>1, <2>2, <3>1
  <2>3. CASE t \notin TasksOf(h)
    <3>1. ASSUME NEW i \in 1 .. Len(queue), t \in TasksOf(queue[i])
          PROVE  \E k \in 1 .. Len(queue') : t \in TasksOf(queue'[k])
      <4>1. i # 1
        BY <1>1, <2>3, <3>1
      <4>2. i - 1 \in 1 .. Len(queue') /\ (i - 1) + 1 = i
        BY <1>2, <1>4, <4>1
      <4>3. queue'[i - 1] = queue[i]
        BY <1>2, <4>2
      <4> QED
        BY <3>1, <4>2, <4>3
    <3>2. ASSUME NEW i \in 1 .. Len(queue'), t \in TasksOf(queue'[i])
          PROVE  \E k \in 1 .. Len(queue) : t \in TasksOf(queue[k])
      BY <1>2, <3>2
    <3> QED
      BY <1>4, <2>1, <2>3, <3>1, <3>2
  <2> QED
    BY <2>2, <2>3
<1> QED
  BY <1>2, <1>6, <1>7, <1>8 DEF Queued

\* Dealing keeps the category level, and touches no other.
LEMMA LevelAfterDeal ==
    ASSUME DealInv, Dealing!Deal
    PROVE  Levelled' /\ Settled'
<1>0. PICK x : x = Dealing!FoldFor
  OBVIOUS
<1>1. PICK h : h = queue[1]
  OBVIOUS
<1>2. /\ SameLabels /\ category' = category /\ Size' = Size /\ builder' = builder
      /\ fold' = [t \in Dealing!Tasks |-> IF t \in TasksOf(h) THEN x ELSE fold[t]]
      /\ TasksOf(h) \subseteq Dealing!Of(category)
  BY <1>0, <1>1, DealtFacts, SameBlocks DEF SameLabels
<1>3. \A f \in Dealing!Folds :
         /\ Has(f)' = IF f = x THEN Has(f) + Size ELSE Has(f)
         /\ \A c : c # category =>
               (Dealing!InFold(f) \cap Dealing!Of(c))' = Dealing!InFold(f) \cap Dealing!Of(c)
  BY <1>0, <1>1, DealtCounts
<1>4. /\ x \in Dealing!Folds /\ Has(x) + Size <= PerFold
      /\ \A g \in Dealing!Folds : Has(x) <= Has(g)
  BY <1>0, FoldForFacts DEF Dealing!Deal
<1>5. \A f \in Dealing!Folds : Has(f) \in Nat
  BY FoldFacts DEF DealInv
<1>6. /\ \A f \in Dealing!Folds : Has(f) <= PerFold /\ (builder = "outer" => Has(f) \in {0, 2})
      /\ \A f, g \in Dealing!Folds : Has(f) <= Has(g) + Size
      /\ PerFold \in Nat /\ (builder = "outer" => PerFold = 2 /\ Size = 2) /\ Size \in {1, 2}
  BY TaskFacts DEF DealInv, Levelled, DealTyped, LabelsTyped, Size
<1>7. Levelled'
  <2>1. \A f \in Dealing!Folds : Has(f)' <= PerFold /\ (builder = "outer" => Has(f)' \in {0, 2})
    BY <1>3, <1>4, <1>5, <1>6
  <2>2. \A f, g \in Dealing!Folds : Has(f)' <= Has(g)' + Size
    BY <1>3, <1>4, <1>5, <1>6
  <2> QED
    BY <1>2, <2>1, <2>2 DEF Levelled, Dealing!Folds
<1>8. \A c \in Dealing!Categories : c < category =>
          \A f \in Dealing!Folds : Cardinality((Dealing!InFold(f) \cap Dealing!Of(c))') = PerFold
  <2>1. \A c \in Dealing!Categories : c < category => c # category
    BY TaskFacts DEF DealInv, DealTyped
  <2>2. \A c \in Dealing!Categories : c < category =>
          \A f \in Dealing!Folds : Cardinality(Dealing!InFold(f) \cap Dealing!Of(c)) = PerFold
    BY DEF DealInv, Settled, Evenly, InTurn
  <2> QED
    BY <1>3, <2>1, <2>2
<1>9. \A t \in Dealing!Tasks : /\ t[1] < category => fold'[t] # 0
                               /\ t[1] > category => fold'[t] = 0
  <2>1. \A t \in TasksOf(h) : t[1] = category
    BY <1>2, TaskFacts
  <2>2. \A t \in Dealing!Tasks : t[1] < category \/ t[1] > category => t \notin TasksOf(h)
    BY <2>1, TaskFacts DEF DealInv, DealTyped
  <2>3. \A t \in Dealing!Tasks : t[1] < category \/ t[1] > category => fold'[t] = fold[t]
    BY <1>2, <2>2
  <2> QED
    BY <2>3 DEF DealInv, Settled, Evenly, InTurn
<1>10. Settled'
  <2>1. Evenly'
    BY <1>2, <1>8 DEF Evenly, Dealing!Categories, Dealing!Folds
  <2>2. InTurn'
    <3>1. Dealing!Tasks' = Dealing!Tasks
      BY DEF Dealing!Tasks, Dealing!Categories
    <3> QED
      BY <1>2, <1>9, <3>1 DEF InTurn
  <2> QED
    BY <2>1, <2>2 DEF Settled
<1> QED
  BY <1>7, <1>10

\* The next block goes to a fold that has fewest missing labels of those that
\* have as much: the folds stay as close as two blocks are.
LEMMA SpreadAfterDeal ==
    ASSUME DealInv, Dealing!Deal
    PROVE  Spread'
<1>0. PICK x : x = Dealing!FoldFor
  OBVIOUS
<1>1. PICK h : h = queue[1]
  OBVIOUS
<1>2. /\ SameLabels /\ category' = category
      /\ h \in BlockSet(category) /\ 1 \in 1 .. Len(queue)
      /\ queue' \in Seq(BlockSet(category)) /\ Len(queue') = Len(queue) - 1
      /\ \A i \in 1 .. Len(queue') : queue'[i] = queue[i + 1] /\ i + 1 \in 1 .. Len(queue)
      /\ Missing(h) \in Nat
  BY <1>0, <1>1, DealtFacts
<1>3. \A f \in Dealing!Folds : /\ Has(f)' = IF f = x THEN Has(f) + Size ELSE Has(f)
                               /\ Lacks(f)' = IF f = x THEN Lacks(f) + Missing(h) ELSE Lacks(f)
  BY <1>0, <1>1, DealtCounts
<1>4. /\ x \in Dealing!Folds
      /\ \A g \in Dealing!Folds : Has(x) <= Has(g)
      /\ \A g \in Dealing!Folds : Has(g) = Has(x) => Lacks(x) <= Lacks(g)
  BY <1>0, FoldForFacts DEF Dealing!Deal
<1>5. \A f \in Dealing!Folds : Has(f) \in Nat /\ Lacks(f) \in Nat
  BY FoldFacts DEF DealInv
<1>6. /\ \A f, g \in Dealing!Folds : Has(f) <= Has(g) + Size
      /\ (builder = "outer" => Size = 2 /\ \A f \in Dealing!Folds : Has(f) \in {0, 2})
      /\ (builder # "outer" => Size = 1) /\ Size \in {1, 2}
  BY DEF DealInv, Levelled, Size
<1>7. \A b \in BlockSet(category) : Missing(b) \in Nat
  BY BlocksFacts DEF DealInv, DealTyped
<1>8. /\ BlockSet(category)' = BlockSet(category)
      /\ \A b : Missing(b)' = Missing(b)
      /\ \A c : BlockSet(c)' = BlockSet(c)
      /\ \A i : Missing(queue[i])' = Missing(queue'[i])
  BY <1>2, SameBlocks
<1>9. /\ Len(queue) \in Nat
      /\ \A i \in 1 .. Len(queue) : queue[i] \in BlockSet(category) /\ Missing(queue[i]) <= Missing(h)
  <2>1. /\ queue \in Seq(BlockSet(category))
        /\ \A i, j \in 1 .. Len(queue) : i < j => Missing(queue[i]) >= Missing(queue[j])
    BY DEF DealInv, Queued
  <2> QED
    BY <1>1, <1>2, <2>1
<1>10. ASSUME NEW D, Bounds(D)', NEW f \in Dealing!Folds, NEW g \in Dealing!Folds
       PROVE  Apart(f, g, D)'
  <2>1. Bounds(D)
    BY <1>8, <1>10 DEF Bounds, Dealing!Categories
  <2>2. D \in Int /\ \A a, b \in BlockSet(category) : Missing(a) - Missing(b) <= D
    BY <2>1 DEF Bounds, DealInv, DealTyped
  <2>3. \A k, l \in Dealing!Folds : Apart(k, l, D)
    BY <2>1 DEF DealInv, Spread
  <2>4. \A k, l \in Dealing!Folds :
           /\ Has(k) = Has(l) => Lacks(k) - Lacks(l) <= D
           /\ Has(k) > Has(l) => \A b \in BlockSet(category) : Lacks(k) - Lacks(l) - Missing(b) <= D
           /\ Has(k) < Has(l) =>
                 \A i \in 1 .. Len(queue) : Lacks(k) + Missing(queue[i]) - Lacks(l) <= D
    BY <2>3 DEF Apart
  <2>5. \A i \in 1 .. Len(queue') :
           Missing(queue'[i]) \in Nat /\ Missing(queue'[i]) <= Missing(h)
    BY <1>2, <1>7, <1>9
  <2> SUFFICES
         /\ Has(f)' = Has(g)' => Lacks(f)' - Lacks(g)' <= D
         /\ Has(f)' > Has(g)' =>
               \A b \in BlockSet(category) : Lacks(f)' - Lacks(g)' - Missing(b) <= D
         /\ Has(f)' < Has(g)' =>
               \A i \in 1 .. Len(queue') : Lacks(f)' + Missing(queue'[i]) - Lacks(g)' <= D
    BY <1>8 DEF Apart
  <2>6. CASE f = x /\ g = x
    <3>1. 0 <= D
      BY <1>2, <2>2
    <3> QED
      BY <1>2, <1>3, <1>5, <1>6, <2>2, <2>6, <3>1
  <2>7. CASE f = x /\ g # x
    <3>1. Has(f)' = Has(x) + Size /\ Lacks(f)' = Lacks(x) + Missing(h)
          /\ Has(g)' = Has(g) /\ Lacks(g)' = Lacks(g)
      BY <1>3, <2>7
    <3>2. CASE Has(g) = Has(x)
      <4>1. Has(f)' > Has(g)'
        BY <1>4, <1>5, <1>6, <3>1, <3>2
      <4>2. ASSUME NEW b \in BlockSet(category)
            PROVE  Lacks(x) + Missing(h) - Lacks(g) - Missing(b) <= D
        <5>1. Missing(h) - Missing(b) <= D /\ Lacks(x) <= Lacks(g)
              /\ Missing(b) \in Nat /\ Lacks(x) \in Nat /\ Lacks(g) \in Nat
          BY <1>2, <1>4, <1>5, <1>7, <2>2, <3>2
        <5> QED
          BY <1>2, <2>2, <5>1
      <4>3. Has(f)' # Has(g)' /\ ~(Has(f)' < Has(g)')
        BY <1>4, <1>5, <1>6, <3>1, <4>1
      <4>4. \A b \in BlockSet(category) : Lacks(f)' - Lacks(g)' - Missing(b) <= D
        BY <1>2, <1>4, <1>5, <1>7, <2>2, <3>1, <4>2
      <4> QED
        BY <4>3, <4>4, Zenon
    <3>3. CASE Has(g) # Has(x)
      <4>1. Has(f)' = Has(g)'
        BY <1>4, <1>5, <1>6, <3>1, <3>3
      <4>2. Has(x) < Has(g)
        BY <1>4, <1>5, <3>3
      <4>3. Lacks(x) + Missing(queue[1]) - Lacks(g) <= D
        BY <1>2, <1>4, <2>4, <4>2
      <4>4. Lacks(f)' - Lacks(g)' <= D
        BY <1>1, <1>2, <1>4, <1>5, <2>2, <3>1, <4>3
      <4>5. ~(Has(f)' > Has(g)') /\ ~(Has(f)' < Has(g)')
        BY <1>4, <1>5, <1>6, <3>1, <4>1
      <4> QED
        BY <4>4, <4>5, Zenon
    <3> QED
      BY <3>2, <3>3
  <2>8. CASE f # x /\ g = x
    <3>1. Has(g)' = Has(x) + Size /\ Lacks(g)' = Lacks(x) + Missing(h)
          /\ Has(f)' = Has(f) /\ Lacks(f)' = Lacks(f)
      BY <1>3, <2>8
    <3>2. CASE Has(f) = Has(x)
      <4>1. Has(f)' < Has(g)'
        BY <1>4, <1>5, <1>6, <3>1, <3>2
      <4>2. Lacks(f) - Lacks(x) <= D
        BY <1>4, <2>4, <3>2
      <4>3. \A i \in 1 .. Len(queue') : Lacks(f) + Missing(queue'[i]) - (Lacks(x) + Missing(h)) <= D
        BY <1>2, <1>4, <1>5, <2>2, <2>5, <4>2
      <4> QED
        BY <1>4, <1>5, <1>6, <3>1, <4>1, <4>3
    <3>3. CASE Has(f) # Has(x)
      <4>1. Has(f)' = Has(g)'
        BY <1>4, <1>5, <1>6, <3>1, <3>3
      <4>2. Has(f) > Has(x)
        BY <1>4, <1>5, <3>3
      <4>3. Lacks(f) - Lacks(x) - Missing(h) <= D
        BY <1>2, <1>4, <2>4, <4>2
      <4>4. Lacks(f)' - Lacks(g)' <= D
        BY <1>2, <1>4, <1>5, <2>2, <3>1, <4>3
      <4> QED
        BY <1>4, <1>5, <1>6, <3>1, <4>1, <4>4
    <3> QED
      BY <3>2, <3>3
  <2>9. CASE f # x /\ g # x
    <3>1. Has(f)' = Has(f) /\ Lacks(f)' = Lacks(f) /\ Has(g)' = Has(g) /\ Lacks(g)' = Lacks(g)
      BY <1>3, <2>9
    <3>2. Has(f) < Has(g) =>
             \A i \in 1 .. Len(queue') : Lacks(f) + Missing(queue'[i]) - Lacks(g) <= D
      BY <1>2, <2>4
    <3> QED
      BY <2>4, <3>1, <3>2
  <2> QED
    BY <2>6, <2>7, <2>8, <2>9
<1> QED
  BY <1>10 DEF Spread, Dealing!Folds

\* Dealing a block keeps the invariant of the dealing.
LEMMA DealStep == DealInv /\ Dealing!Deal => DealInv'
<1> SUFFICES ASSUME DealInv, Dealing!Deal PROVE DealInv'
  OBVIOUS
<1>0. PICK x : x = Dealing!FoldFor
  OBVIOUS
<1>1. PICK h : h = queue[1]
  OBVIOUS
<1>2. DealTyped'
  BY <1>0, <1>1, DealtFolds
<1> QED
  BY <1>2, QueuedAfterDeal, LevelAfterDeal, SpreadAfterDeal DEF DealInv

\* A category before its first block is dealt.
CategoryStart ==
    /\ DealTyped /\ Settled
    /\ queue = Dealing!Blocks(category)
    /\ \A t \in Dealing!Of(category) : fold[t] = 0
    /\ \A D : Bounds(D) => \A f, g \in Dealing!Folds : Lacks(f) - Lacks(g) <= D

\* A category that starts so satisfies the invariant: all folds have none of it.
LEMMA FreshCategory == CategoryStart => DealInv
<1> SUFFICES ASSUME CategoryStart PROVE DealInv
  OBVIOUS
<1>1. DealTyped /\ LabelsTyped /\ Settled /\ category \in Dealing!Categories
  BY DEF CategoryStart, DealTyped
<1>2. /\ Pieces(BlockSet(category), category)
      /\ queue \in Seq(BlockSet(category))
      /\ \A i, j \in 1 .. Len(queue) : i < j =>
            queue[i] # queue[j] /\ Missing(queue[i]) >= Missing(queue[j])
      /\ \A b \in BlockSet(category) : \E i \in 1 .. Len(queue) : queue[i] = b
  BY <1>1, BlocksFacts DEF CategoryStart
<1>3. \A f \in Dealing!Folds : Has(f) = 0
  <2>1. ASSUME NEW f \in Dealing!Folds PROVE Held(f) = {}
    <3>1. f # 0
      BY TaskFacts
    <3> QED
      BY <1>1, <3>1, FoldFacts DEF CategoryStart, Held
  <2> QED
    BY <2>1, FS_EmptySet DEF Has
<1>4. Queued
  <2>1. ASSUME NEW t \in Dealing!Of(category)
        PROVE  fold[t] = 0 /\ \E i \in 1 .. Len(queue) : t \in TasksOf(queue[i])
    <3>1. PICK b \in BlockSet(category) : t \in TasksOf(b)
      BY <1>2 DEF Pieces
    <3>2. PICK i \in 1 .. Len(queue) : queue[i] = b
      BY <1>2
    <3> QED
      BY <3>1, <3>2 DEF CategoryStart
  <2> QED
    BY <1>2, <2>1 DEF Queued
<1>5. Levelled
  BY <1>3, TaskFacts DEF Levelled, Size
<1>6. Spread
  <2>1. \A f, g \in Dealing!Folds : Has(f) = Has(g) /\ ~(Has(f) > Has(g)) /\ ~(Has(f) < Has(g))
    BY <1>3
  <2> QED
    BY <2>1 DEF Spread, Apart, CategoryStart
<1> QED
  BY <1>1, <1>4, <1>5, <1>6 DEF DealInv

\* The experiment starts with the first category, nothing dealt.
LEMMA DealStart == Dealing!Init => DealInv
<1> SUFFICES ASSUME Dealing!Init PROVE CategoryStart
  BY FreshCategory
<1>1. category = 1 /\ fold = [t \in Dealing!Tasks |-> 0] /\ queue = Dealing!Blocks(category)
  BY TaskFacts DEF Dealing!Init
<1>2. DealTyped /\ LabelsTyped
  BY <1>1, TaskFacts DEF Dealing!Init, DealTyped, LabelsTyped
<1>3. Settled
  BY <1>1, TaskFacts DEF Settled, Evenly, InTurn
<1>4. \A t \in Dealing!Of(category) : fold[t] = 0
  BY <1>1, TaskFacts
<1>5. \A f \in Dealing!Folds : Lacks(f) = 0
  <2>1. \A f \in Dealing!Folds : Dealing!InFold(f) = {}
    BY <1>1, <1>2, FoldFacts, TaskFacts
  <2> QED
    BY <1>2, <2>1, CountFacts DEF Lacks, LabelKinds
<1>6. ASSUME NEW D, Bounds(D) PROVE 0 - 0 <= D
  <2>1. 1 \in Dealing!Categories /\ <<1, 1>> \in Dealing!Of(1)
    BY TaskFacts DEF Dealing!Of, Dealing!Tasks
  <2>2. /\ Pieces(BlockSet(1), 1)
        /\ \A b \in BlockSet(1) : Missing(b) \in Nat
    BY <1>2, <2>1, BlocksFacts
  <2>3. PICK b \in BlockSet(1) : <<1, 1>> \in TasksOf(b)
    BY <2>1, <2>2 DEF Pieces
  <2> QED
    BY <1>6, <2>1, <2>2, <2>3 DEF Bounds
<1> QED
  BY <1>1, <1>2, <1>3, <1>4, <1>5, <1>6 DEF CategoryStart

\* A step that deals nothing leaves in every fold what it has.
LEMMA SameFolds ==
    ASSUME SameLabels, fold' = fold
    PROVE  /\ DealTyped /\ category' \in Dealing!Categories => DealTyped'
           /\ \A f : Dealing!InFold(f)' = Dealing!InFold(f)
           /\ \A f, c : (Dealing!InFold(f) \cap Dealing!Of(c))' = Dealing!InFold(f) \cap Dealing!Of(c)
           /\ \A f : Lacks(f)' = Lacks(f)
           /\ \A D : Bounds(D)' => Bounds(D)
           /\ \A c : Dealing!Blocks(c)' = Dealing!Blocks(c)
<1>1. \A f : Dealing!InFold(f)' = Dealing!InFold(f)
  BY DEF Dealing!InFold, Dealing!Tasks, Dealing!Categories
<1>2. \A c : Dealing!Of(c)' = Dealing!Of(c)
  BY DEF Dealing!Of, Dealing!Tasks, Dealing!Categories
<1>3. \A f, c : (Dealing!InFold(f) \cap Dealing!Of(c))' = Dealing!InFold(f) \cap Dealing!Of(c)
  BY <1>1, <1>2
<1>4. \A f : Lacks(f)' = Lacks(f)
  <2>1. \A f : Lacks(f)' = Dealing!Count("missing", Dealing!InFold(f)')
    BY DEF Lacks, SameLabels, Dealing!Count, Dealing!Cardinality
  <2> QED
    BY <1>1, <2>1 DEF Lacks
<1>5. \A D : Bounds(D)' => Bounds(D)
  BY SameBlocks DEF Bounds, Dealing!Categories
<1>6. ASSUME NEW c PROVE Dealing!Blocks(c)' = Dealing!Blocks(c)
  <2> DEFINE K == {Dealing!Keyed(b, <<-Dealing!CountIn("missing", b),
                                       -Dealing!CountIn("positive", b), b[1][2]>>) :
                      b \in BlockSet(c)}
  <2>1. ASSUME NEW what, NEW b PROVE Dealing!CountIn(what, b)' = Dealing!CountIn(what, b)
    BY DEF SameLabels, Dealing!CountIn, Dealing!Count, Dealing!Cardinality, Dealing!ToSet
  <2>2. BlockSet(c)' = BlockSet(c)
    BY SameBlocks
  <2>3. K' = K
    BY <2>1, <2>2 DEF Dealing!Keyed
  <2>4. Dealing!Blocks(c) = Dealing!Sorted(K)
    BY DEF Dealing!Blocks, BlockSet
  <2>5. Dealing!Blocks(c)' = Dealing!Sorted(K)'
    BY DEF Dealing!Blocks, BlockSet
  <2> HIDE DEF K
  <2>6. Dealing!Sorted(K)' = Dealing!Sorted(K)
    BY <2>3 DEF Dealing!Sorted, Dealing!Before, Dealing!Cardinality
  <2> QED
    BY <2>4, <2>5, <2>6
<1>7. DealTyped /\ category' \in Dealing!Categories => DealTyped'
  BY SameBlocks DEF DealTyped, SameLabels, Dealing!Tasks, Dealing!Categories, Dealing!Folds
<1> QED
  BY <1>1, <1>3, <1>4, <1>5, <1>6, <1>7

\* The next category starts when every fold has its share of this one.
LEMMA NextCategoryStep == DealInv /\ Dealing!NextCategory => DealInv'
<1> SUFFICES ASSUME DealInv, Dealing!NextCategory PROVE CategoryStart'
  BY FreshCategory, PTL
<1>1. /\ SameLabels /\ fold' = fold /\ queue = <<>> /\ category < NumCategories
      /\ category' = category + 1 /\ queue' = Dealing!Blocks(category + 1)
  BY DEF Dealing!NextCategory, SameLabels
<1>2. DealTyped /\ Settled /\ category \in Dealing!Categories
      /\ category \in Nat /\ NumCategories \in Nat
  BY TaskFacts DEF DealInv, DealTyped
<1>3. DealTyped'
  BY <1>1, <1>2, SameFolds, TaskFacts
<1>4. \A f \in Dealing!Folds : Has(f) = PerFold
  BY <1>1, AllDealt
<1>5. Settled'
  <2>1. \A c \in Dealing!Categories : c < category + 1 =>
           \A f \in Dealing!Folds : Cardinality(Dealing!InFold(f) \cap Dealing!Of(c)) = PerFold
    <3>1. \A c \in Dealing!Categories : c < category + 1 => c < category \/ c = category
      BY <1>2, TaskFacts
    <3>2. \A f \in Dealing!Folds : Cardinality(Dealing!InFold(f) \cap Dealing!Of(category)) = PerFold
      BY <1>4 DEF Has, Held
    <3> QED
      BY <1>2, <3>1, <3>2 DEF Settled, Evenly, InTurn
  <2>2. \A t \in Dealing!Tasks : /\ t[1] < category + 1 => fold[t] # 0
                                 /\ t[1] > category + 1 => fold[t] = 0
    <3>1. \A t \in Dealing!Tasks : /\ t[1] < category + 1 => t[1] < category \/ t[1] = category
                                   /\ t[1] > category + 1 => t[1] > category
      BY <1>2, TaskFacts
    <3>2. \A t \in Dealing!Tasks : t[1] = category => t \in Dealing!Of(category)
      BY DEF Dealing!Of
    <3>3. \A t \in Dealing!Of(category) : fold[t] # 0
      BY <1>1 DEF DealInv, Queued
    <3> QED
      <4>1. \A t \in Dealing!Tasks : /\ t[1] < category => fold[t] # 0
                                     /\ t[1] > category => fold[t] = 0
        BY <1>2 DEF Settled, InTurn
      <4>2. ASSUME NEW t \in Dealing!Tasks, t[1] < category + 1 PROVE fold[t] # 0
        BY <3>1, <3>2, <3>3, <4>1, <4>2, Zenon
      <4>3. ASSUME NEW t \in Dealing!Tasks, t[1] > category + 1 PROVE fold[t] = 0
        BY <3>1, <4>1, <4>3, Zenon
      <4> QED
        BY <4>2, <4>3, Zenon
  <2>3. \A f, c : (Dealing!InFold(f) \cap Dealing!Of(c))' = Dealing!InFold(f) \cap Dealing!Of(c)
    BY <1>1, SameFolds
  <2>4. Evenly'
    BY <1>1, <2>1, <2>3 DEF Evenly, Dealing!Categories, Dealing!Folds
  <2>5. InTurn'
    <3>1. Dealing!Tasks' = Dealing!Tasks
      BY DEF Dealing!Tasks, Dealing!Categories
    <3> QED
      BY <1>1, <2>2, <3>1 DEF InTurn
  <2> QED
    BY <2>4, <2>5 DEF Settled
<1>6. queue' = Dealing!Blocks(category)'
  BY <1>1, SameFolds
<1>7. \A t \in Dealing!Of(category)' : fold'[t] = 0
  <2>1. \A t \in Dealing!Of(category)' : t \in Dealing!Tasks /\ t[1] = category + 1
    BY <1>1 DEF Dealing!Of, Dealing!Tasks, Dealing!Categories
  <2> QED
    BY <1>1, <1>2, <2>1 DEF Settled, Evenly, InTurn
<1>8. ASSUME NEW D, Bounds(D)', NEW f \in Dealing!Folds, NEW g \in Dealing!Folds
      PROVE  Lacks(f)' - Lacks(g)' <= D
  <2>1. Bounds(D)
    BY <1>1, <1>8, SameFolds
  <2>2. Apart(f, g, D) /\ Has(f) = Has(g)
    BY <1>4, <2>1 DEF DealInv, Spread
  <2>3. Lacks(f)' = Lacks(f) /\ Lacks(g)' = Lacks(g)
    BY <1>1, SameFolds
  <2> QED
    BY <2>2, <2>3 DEF Apart
<1> QED
  BY <1>3, <1>5, <1>6, <1>7, <1>8 DEF CategoryStart, Dealing!Folds

\* The later steps deal nothing.
LEMMA DealtStep ==
    DealInv /\ SameLabels /\ UNCHANGED <<category, queue, fold>> => DealInv'
<1> SUFFICES ASSUME DealInv, SameLabels, category' = category, queue' = queue, fold' = fold
             PROVE  DealInv'
  OBVIOUS
<1>1. /\ DealTyped'
      /\ \A f : Dealing!InFold(f)' = Dealing!InFold(f)
      /\ \A f, c : (Dealing!InFold(f) \cap Dealing!Of(c))' = Dealing!InFold(f) \cap Dealing!Of(c)
      /\ \A f : Lacks(f)' = Lacks(f)
      /\ \A D : Bounds(D)' => Bounds(D)
  BY SameFolds DEF DealInv, DealTyped
<1>2. /\ Size' = Size /\ BlockSet(category)' = BlockSet(category)
      /\ \A b : TasksOf(b)' = TasksOf(b) /\ Missing(b)' = Missing(b)
      /\ \A i : TasksOf(queue[i])' = TasksOf(queue[i]) /\ Missing(queue[i])' = Missing(queue[i])
  BY SameBlocks
<1>3. Dealing!Of(category)' = Dealing!Of(category)
  BY DEF Dealing!Of, Dealing!Tasks, Dealing!Categories
<1>4. \A f : Has(f)' = Has(f)
  BY <1>1, <1>3 DEF Has, Held
<1>5. Queued'
  BY <1>2, <1>3 DEF DealInv, Queued
<1>6. Levelled'
  BY <1>2, <1>4 DEF DealInv, Levelled, SameLabels, Dealing!Folds
<1>7. Settled'
  BY <1>1 DEF DealInv, Settled, Evenly, InTurn, Dealing!Categories, Dealing!Folds, Dealing!Tasks
<1>8. ASSUME NEW D, Bounds(D)', NEW f \in Dealing!Folds, NEW g \in Dealing!Folds
      PROVE  Apart(f, g, D)'
  <2>1. Apart(f, g, D)
    BY <1>1, <1>8 DEF DealInv, Spread
  <2> QED
    BY <1>1, <1>2, <1>4, <2>1 DEF Apart
<1> QED
  BY <1>1, <1>5, <1>6, <1>7, <1>8 DEF DealInv, Spread, Dealing!Folds

\* When the last category is dealt, every task has a fold, and every fold has its
\* share of every category.
LEMMA FullyDealt ==
    ASSUME DealInv, queue = <<>>, category = NumCategories
    PROVE  /\ \A t \in Dealing!Tasks : fold[t] \in Dealing!Folds
           /\ \A f \in Dealing!Folds, c \in Dealing!Categories :
                 Cardinality(Dealing!InFold(f) \cap Dealing!Of(c)) = PerFold
<1>1. \A c \in Dealing!Categories : c < category \/ c = category
  BY TaskFacts
<1>2. \A f \in Dealing!Folds : Cardinality(Dealing!InFold(f) \cap Dealing!Of(category)) = PerFold
  BY AllDealt DEF Has, Held
<1>3. \A f \in Dealing!Folds, c \in Dealing!Categories :
         Cardinality(Dealing!InFold(f) \cap Dealing!Of(c)) = PerFold
  BY <1>1, <1>2 DEF DealInv, Settled, Evenly, InTurn
<1>4. ASSUME NEW t \in Dealing!Tasks PROVE fold[t] \in Dealing!Folds
  <2>1. t[1] \in Dealing!Categories /\ fold[t] \in Dealing!Folds \cup {0}
    BY TaskFacts DEF DealInv, DealTyped
  <2>2. CASE t[1] < category
    BY <2>1, <2>2 DEF DealInv, Settled, Evenly, InTurn
  <2>3. CASE t[1] = category
    <3>1. t \in Dealing!Of(category)
      BY <2>3 DEF Dealing!Of
    <3>2. fold[t] # 0
      BY <3>1 DEF DealInv, Queued
    <3> QED
      BY <2>1, <3>2
  <2> QED
    BY <1>1, <2>1, <2>2, <2>3
<1> QED
  BY <1>3, <1>4

-----------------------------------------------------------------------------
(* The folds: what the fitted models are computed from.                    *)

\* The labelled tasks outside a fold, train_rows of its model.
Outside(f) == Dealing!Labelled(Dealing!Tasks \ Dealing!InFold(f))

Phases == {"deal", "fit", "calibrate", "done", "failed"}

\* Whether the loop over folds has fitted, or calibrated, the fold of a task.
HasModel(t) == (phase = "fit" /\ fold[t] < current) \/ phase \in {"calibrate", "done"}
IsCalibrated(t) == (phase = "calibrate" /\ fold[t] < current) \/ phase = "done"

EvidenceInv ==
    /\ phase \in Phases /\ current \in Dealing!Folds
    /\ oof \in [Dealing!Tasks -> SUBSET Dealing!Tasks]
    /\ platt \in [Dealing!Tasks -> SUBSET Dealing!Tasks]
    /\ phase = "deal" => current = 1 /\ \A t \in Dealing!Tasks : oof[t] = {} /\ platt[t] = {}
    /\ phase # "deal" => queue = <<>> /\ category = NumCategories
    /\ \A t \in Dealing!Tasks :
          /\ oof[t] \in {{}, Outside(fold[t])}
          /\ HasModel(t) => oof[t] = Outside(fold[t]) /\ oof[t] # {}
          /\ IsCalibrated(t) => platt[t] = Dealing!Labelled(Dealing!Tasks)

\* What a model is fitted on is labelled, and not in its fold.
LEMMA OutsideFacts ==
    /\ Dealing!Train = Outside(current)
    /\ \A f : Outside(f) \in SUBSET Dealing!Tasks /\ Outside(f) \cap Dealing!InFold(f) = {}
    /\ \A f, t : t \in Outside(f) <=>
          t \in Dealing!Tasks /\ fold[t] # f /\ t \in Dealing!Labelled(Dealing!Tasks)
    /\ Dealing!Labelled(Dealing!Tasks) \subseteq Dealing!Tasks
    /\ LabelsTyped => \A ts : Dealing!Fittable(ts) => ts # {}
<1>1. Dealing!Train = Outside(current)
  BY DEF Dealing!Train, Outside
<1>2. \A f, t : t \in Outside(f) <=>
         t \in Dealing!Tasks /\ fold[t] # f /\ t \in Dealing!Labelled(Dealing!Tasks)
  BY DEF Outside, Dealing!Labelled, Dealing!InFold
<1>3. \A f : Outside(f) \in SUBSET Dealing!Tasks /\ Outside(f) \cap Dealing!InFold(f) = {}
  BY DEF Outside, Dealing!Labelled, Dealing!InFold
<1>4. Dealing!Labelled(Dealing!Tasks) \subseteq Dealing!Tasks
  BY DEF Dealing!Labelled
<1>5. ASSUME LabelsTyped, NEW ts, Dealing!Fittable(ts) PROVE ts # {}
  <2>1. Dealing!Count("positive", {}) = 0
    BY <1>5, CountFacts DEF LabelKinds
  <2> QED
    BY <1>5, <2>1 DEF Dealing!Fittable
<1> QED
  BY <1>1, <1>2, <1>3, <1>4, <1>5

\* The labels and the folds stay, so what is outside a fold does.
LEMMA SameOutside ==
    ASSUME SameLabels
    PROVE  /\ Dealing!Labelled(Dealing!Tasks)' = Dealing!Labelled(Dealing!Tasks)
           /\ fold' = fold => /\ \A f : Outside(f)' = Outside(f)
                              /\ \A t : Outside(fold[t])' = Outside(fold[t])
<1>1. Dealing!Labelled(Dealing!Tasks)' = Dealing!Labelled(Dealing!Tasks)
  BY DEF SameLabels, Dealing!Labelled, Dealing!Tasks, Dealing!Categories
<1>2. ASSUME fold' = fold PROVE \A f : Outside(f)' = Outside(f)
  BY <1>2 DEF SameLabels, Outside, Dealing!InFold, Dealing!Labelled, Dealing!Tasks,
              Dealing!Categories
<1>3. ASSUME fold' = fold PROVE \A t : Outside(fold[t])' = Outside(fold[t])
  BY <1>2, <1>3
<1> QED
  BY <1>1, <1>2, <1>3

FoldsInv == DealInv /\ EvidenceInv

\* At first nothing is computed.
LEMMA FoldsStart == Dealing!Init => FoldsInv
<1> SUFFICES ASSUME Dealing!Init PROVE EvidenceInv
  BY DealStart DEF FoldsInv
<1>1. phase = "deal" /\ current = 1 /\ current \in Dealing!Folds
      /\ oof = [t \in Dealing!Tasks |-> {}] /\ platt = [t \in Dealing!Tasks |-> {}]
  BY TaskFacts DEF Dealing!Init
<1>2. \A t : ~HasModel(t) /\ ~IsCalibrated(t)
  BY <1>1 DEF HasModel, IsCalibrated
<1> QED
  BY <1>1, <1>2 DEF EvidenceInv, Phases

\* While the tasks are dealt, nothing is computed.
LEMMA EvidenceWhileDealing ==
    ASSUME EvidenceInv, phase = "deal", UNCHANGED <<phase, current, oof, platt>>
    PROVE  EvidenceInv'
<1>1. phase' = "deal" /\ current' = current /\ oof' = oof /\ platt' = platt
  OBVIOUS
<1>2. /\ current \in Dealing!Folds /\ current = 1
      /\ oof \in [Dealing!Tasks -> SUBSET Dealing!Tasks]
      /\ platt \in [Dealing!Tasks -> SUBSET Dealing!Tasks]
      /\ \A t \in Dealing!Tasks : oof[t] = {} /\ platt[t] = {}
  BY DEF EvidenceInv
<1>3. Dealing!Tasks' = Dealing!Tasks /\ Dealing!Folds' = Dealing!Folds
  BY DEF Dealing!Tasks, Dealing!Categories, Dealing!Folds
<1>4. \A t : ~HasModel(t)' /\ ~IsCalibrated(t)'
  BY <1>1 DEF HasModel, IsCalibrated
<1> QED
  BY <1>1, <1>2, <1>3, <1>4 DEF EvidenceInv, Phases

\* The builders' closing checks never fail, and the first fold comes first.
LEMMA CheckFoldsStep == FoldsInv /\ Dealing!CheckFolds => EvidenceInv'
<1> SUFFICES ASSUME FoldsInv, Dealing!CheckFolds PROVE EvidenceInv'
  OBVIOUS
<1>1. /\ SameLabels /\ fold' = fold /\ queue' = queue /\ category' = category
      /\ queue = <<>> /\ category = NumCategories /\ phase = "deal"
      /\ current' = current /\ oof' = oof /\ platt' = platt
  BY DEF Dealing!CheckFolds, SameLabels
<1>2. /\ \A t \in Dealing!Tasks : fold[t] \in Dealing!Folds
      /\ \A f \in Dealing!Folds, c \in Dealing!Categories :
            Cardinality(Dealing!InFold(f) \cap Dealing!Of(c)) = PerFold
  BY <1>1, FullyDealt DEF FoldsInv
<1>3. phase' = "fit"
  BY <1>2, DealOperators DEF Dealing!CheckFolds
<1>4. /\ current \in Dealing!Folds /\ current = 1
      /\ oof \in [Dealing!Tasks -> SUBSET Dealing!Tasks]
      /\ platt \in [Dealing!Tasks -> SUBSET Dealing!Tasks]
      /\ \A t \in Dealing!Tasks : oof[t] = {} /\ platt[t] = {}
  BY <1>1 DEF FoldsInv, EvidenceInv
<1>5. Dealing!Tasks' = Dealing!Tasks /\ Dealing!Folds' = Dealing!Folds
  BY DEF Dealing!Tasks, Dealing!Categories, Dealing!Folds
<1>6. \A t \in Dealing!Tasks : ~HasModel(t)' /\ ~IsCalibrated(t)'
  BY <1>1, <1>2, <1>3, <1>4, TaskFacts DEF HasModel, IsCalibrated
<1> QED
  BY <1>1, <1>3, <1>4, <1>5, <1>6 DEF EvidenceInv, Phases

\* One turn of the loop over folds: the fold's tasks get a probability computed
\* from the labels outside the fold, the others keep theirs.
LEMMA FitStep == FoldsInv /\ Dealing!Fit => EvidenceInv'
<1> SUFFICES ASSUME FoldsInv, Dealing!Fit PROVE EvidenceInv'
  OBVIOUS
<1>1. /\ SameLabels /\ fold' = fold /\ queue' = queue /\ category' = category
      /\ phase = "fit" /\ platt' = platt
  BY DEF Dealing!Fit, SameLabels
<1>2. /\ current \in Dealing!Folds /\ queue = <<>> /\ category = NumCategories
      /\ oof \in [Dealing!Tasks -> SUBSET Dealing!Tasks]
      /\ platt \in [Dealing!Tasks -> SUBSET Dealing!Tasks]
      /\ \A t \in Dealing!Tasks : oof[t] \in {{}, Outside(fold[t])}
      /\ \A t \in Dealing!Tasks :
            fold[t] < current => oof[t] = Outside(fold[t]) /\ oof[t] # {}
  BY <1>1 DEF FoldsInv, EvidenceInv, HasModel
<1>3. /\ Dealing!Tasks' = Dealing!Tasks /\ Dealing!Folds' = Dealing!Folds
      /\ \A t : Outside(fold[t])' = Outside(fold[t])
  BY <1>1, SameOutside DEF Dealing!Tasks, Dealing!Categories, Dealing!Folds
<1>4. /\ \A t \in Dealing!Tasks : fold[t] \in 1 .. NumFolds
      /\ Dealing!Folds = 1 .. NumFolds /\ NumFolds \in Nat \ {0}
  BY <1>2, FullyDealt, TaskFacts DEF FoldsInv
<1>5. CASE Dealing!Fittable(Dealing!Train)
  <2>1. /\ oof' = [t \in Dealing!Tasks |-> IF fold[t] = current THEN Outside(current) ELSE oof[t]]
        /\ phase' = IF current = NumFolds THEN "calibrate" ELSE phase
        /\ current' = IF current = NumFolds THEN 1 ELSE current + 1
    BY <1>5, OutsideFacts DEF Dealing!Fit, Dealing!LastFold
  <2>2. Outside(current) # {} /\ Outside(current) \in SUBSET Dealing!Tasks
    BY <1>5, OutsideFacts DEF FoldsInv, DealInv, DealTyped
  <2>3. oof' \in [Dealing!Tasks -> SUBSET Dealing!Tasks]
    BY <1>2, <2>1, <2>2
  <2>4. current' \in Dealing!Folds /\ phase' \in {"fit", "calibrate"}
    BY <1>1, <1>2, <1>4, <2>1
  <2>5. ASSUME NEW t \in Dealing!Tasks
        PROVE  /\ oof'[t] \in {{}, Outside(fold[t])}
               /\ HasModel(t)' => oof'[t] = Outside(fold[t]) /\ oof'[t] # {}
               /\ ~IsCalibrated(t)'
    <3>1. oof'[t] = IF fold[t] = current THEN Outside(current) ELSE oof[t]
      BY <2>1
    <3>2. oof'[t] \in {{}, Outside(fold[t])}
      BY <1>2, <3>1
    <3>3. HasModel(t)' => fold[t] <= current
      BY <1>1, <1>2, <1>4, <2>1 DEF HasModel
    <3>4. fold[t] <= current => fold[t] < current \/ fold[t] = current
      BY <1>2, <1>4
    <3>5. HasModel(t)' => oof'[t] = Outside(fold[t]) /\ oof'[t] # {}
      BY <1>2, <2>2, <3>1, <3>3, <3>4
    <3>6. ~IsCalibrated(t)'
      <4>1. phase' = "calibrate" => current' = 1
        BY <1>1, <2>1
      <4> QED
        BY <1>1, <1>4, <2>4, <4>1 DEF IsCalibrated
    <3> QED
      BY <3>2, <3>5, <3>6
  <2> QED
    BY <1>1, <1>2, <1>3, <2>3, <2>4, <2>5 DEF EvidenceInv, Phases
<1>6. CASE ~Dealing!Fittable(Dealing!Train)
  <2>1. phase' = "failed" /\ oof' = oof /\ current' = current
    BY <1>6 DEF Dealing!Fit
  <2>2. \A t : ~HasModel(t)' /\ ~IsCalibrated(t)'
    BY <2>1 DEF HasModel, IsCalibrated
  <2> QED
    BY <1>1, <1>2, <1>3, <2>1, <2>2 DEF EvidenceInv, Phases
<1> QED
  BY <1>5, <1>6

\* What a calibrator of cross_fitted_platt is fitted on: the labels outside the
\* fold and, by way of the probabilities there, the ones inside.
LEMMA CalibratorSees ==
    ASSUME NEW f, Outside(f) # {},
           \A t \in Dealing!Tasks : oof[t] = Outside(fold[t])
    PROVE  Outside(f) \cup Outside(f) \cup UNION {oof[u] : u \in Outside(f)}
             = Dealing!Labelled(Dealing!Tasks)
<1> DEFINE seen == Outside(f) \cup Outside(f) \cup UNION {oof[u] : u \in Outside(f)}
<1>1. \A k, t : t \in Outside(k) <=>
         t \in Dealing!Tasks /\ fold[t] # k /\ t \in Dealing!Labelled(Dealing!Tasks)
  BY OutsideFacts
<1>2. Dealing!Labelled(Dealing!Tasks) \subseteq Dealing!Tasks
  BY OutsideFacts
<1>3. PICK u : u \in Outside(f)
  OBVIOUS
<1>4. \A v \in Outside(f) : oof[v] = Outside(fold[v])
  BY <1>1
<1>5. ASSUME NEW t \in seen PROVE t \in Dealing!Labelled(Dealing!Tasks)
  <2>1. t \in Outside(f) \/ \E v \in Outside(f) : t \in oof[v]
    OBVIOUS
  <2> QED
    BY <1>1, <1>4, <2>1
<1>6. ASSUME NEW t \in Dealing!Labelled(Dealing!Tasks) PROVE t \in seen
  <2>1. CASE fold[t] # f
    BY <1>1, <1>2, <2>1
  <2>2. CASE fold[t] = f
    <3>1. fold[t] # fold[u]
      BY <1>1, <1>3, <2>2
    <3>2. t \in oof[u]
      BY <1>1, <1>2, <1>3, <1>4, <3>1
    <3> QED
      BY <1>3, <3>2
  <2> QED
    BY <2>1, <2>2
<1> QED
  BY <1>5, <1>6

\* One turn of cross_fitted_platt.
LEMMA CalibrateStep == FoldsInv /\ Dealing!Calibrate => EvidenceInv'
<1> SUFFICES ASSUME FoldsInv, Dealing!Calibrate PROVE EvidenceInv'
  OBVIOUS
<1>1. /\ SameLabels /\ fold' = fold /\ queue' = queue /\ category' = category
      /\ phase = "calibrate" /\ oof' = oof
  BY DEF Dealing!Calibrate, SameLabels
<1>2. /\ current \in Dealing!Folds /\ queue = <<>> /\ category = NumCategories
      /\ oof \in [Dealing!Tasks -> SUBSET Dealing!Tasks]
      /\ platt \in [Dealing!Tasks -> SUBSET Dealing!Tasks]
      /\ \A t \in Dealing!Tasks : oof[t] = Outside(fold[t]) /\ oof[t] # {}
      /\ \A t \in Dealing!Tasks :
            fold[t] < current => platt[t] = Dealing!Labelled(Dealing!Tasks)
  BY <1>1 DEF FoldsInv, EvidenceInv, HasModel, IsCalibrated
<1>3. /\ Dealing!Tasks' = Dealing!Tasks /\ Dealing!Folds' = Dealing!Folds
      /\ Dealing!Labelled(Dealing!Tasks)' = Dealing!Labelled(Dealing!Tasks)
      /\ \A t : Outside(fold[t])' = Outside(fold[t])
  BY <1>1, SameOutside DEF Dealing!Tasks, Dealing!Categories, Dealing!Folds
<1>4. /\ \A t \in Dealing!Tasks : fold[t] \in 1 .. NumFolds
      /\ Dealing!Folds = 1 .. NumFolds /\ NumFolds \in Nat \ {0}
  BY <1>2, FullyDealt, TaskFacts DEF FoldsInv
<1>5. CASE Dealing!Fittable(Dealing!Train)
  <2>1. /\ platt' = [t \in Dealing!Tasks |->
              IF fold[t] = current
              THEN oof[t] \cup Outside(current) \cup UNION {oof[u] : u \in Outside(current)}
              ELSE platt[t]]
        /\ phase' = IF current = NumFolds THEN "done" ELSE phase
        /\ current' = IF current = NumFolds THEN current ELSE current + 1
    BY <1>5, OutsideFacts DEF Dealing!Calibrate, Dealing!LastFold
  <2>2. Outside(current) # {} /\ Dealing!Labelled(Dealing!Tasks) \in SUBSET Dealing!Tasks
    BY <1>5, OutsideFacts DEF FoldsInv, DealInv, DealTyped
  <2>3. Outside(current) \cup Outside(current) \cup UNION {oof[u] : u \in Outside(current)}
          = Dealing!Labelled(Dealing!Tasks)
    BY <1>2, <2>2, CalibratorSees
  <2>4. ASSUME NEW t \in Dealing!Tasks
        PROVE  platt'[t] = IF fold[t] = current THEN Dealing!Labelled(Dealing!Tasks)
                                                ELSE platt[t]
    BY <1>2, <2>1, <2>3
  <2>5. platt' \in [Dealing!Tasks -> SUBSET Dealing!Tasks]
    <3>1. platt' = [t \in Dealing!Tasks |-> platt'[t]]
      BY <2>1
    <3>2. \A t \in Dealing!Tasks : platt'[t] \in SUBSET Dealing!Tasks
      BY <1>2, <2>2, <2>4
    <3> QED
      BY <3>1, <3>2
  <2>6. current' \in Dealing!Folds /\ phase' \in {"calibrate", "done"}
    BY <1>1, <1>2, <1>4, <2>1
  <2>7. ASSUME NEW t \in Dealing!Tasks, IsCalibrated(t)'
        PROVE  platt'[t] = Dealing!Labelled(Dealing!Tasks)
    <3>1. fold[t] <= current
      BY <1>1, <1>2, <1>4, <2>1, <2>7 DEF IsCalibrated
    <3>2. fold[t] < current \/ fold[t] = current
      BY <1>2, <1>4, <3>1
    <3> QED
      BY <1>2, <2>4, <3>2
  <2> QED
    BY <1>1, <1>2, <1>3, <2>5, <2>6, <2>7 DEF EvidenceInv, Phases
<1>6. CASE ~Dealing!Fittable(Dealing!Train)
  <2>1. phase' = "failed" /\ platt' = platt /\ current' = current
    BY <1>6 DEF Dealing!Calibrate
  <2>2. \A t : ~HasModel(t)' /\ ~IsCalibrated(t)'
    BY <2>1 DEF HasModel, IsCalibrated
  <2> QED
    BY <1>1, <1>2, <1>3, <2>1, <2>2 DEF EvidenceInv, Phases
<1> QED
  BY <1>5, <1>6

\* A step of another part changes nothing here.
LEMMA IdleStep == FoldsInv /\ UNCHANGED Dealing!vars => EvidenceInv'
<1> SUFFICES ASSUME FoldsInv, UNCHANGED Dealing!vars PROVE EvidenceInv'
  OBVIOUS
<1>1. /\ SameLabels /\ fold' = fold /\ queue' = queue /\ category' = category
      /\ phase' = phase /\ current' = current /\ oof' = oof /\ platt' = platt
  BY DEF Dealing!vars, SameLabels
<1>2. /\ Dealing!Tasks' = Dealing!Tasks /\ Dealing!Folds' = Dealing!Folds
      /\ Dealing!Labelled(Dealing!Tasks)' = Dealing!Labelled(Dealing!Tasks)
      /\ \A t : Outside(fold[t])' = Outside(fold[t])
  BY <1>1, SameOutside DEF Dealing!Tasks, Dealing!Categories, Dealing!Folds
<1>3. \A t : HasModel(t)' = HasModel(t) /\ IsCalibrated(t)' = IsCalibrated(t)
  BY <1>1 DEF HasModel, IsCalibrated
<1> QED
  BY <1>1, <1>2, <1>3 DEF FoldsInv, EvidenceInv

\* Every step of an experiment keeps both invariants.
LEMMA FoldsStep == FoldsInv /\ [Dealing!Next]_(Dealing!vars) => FoldsInv'
<1> SUFFICES ASSUME FoldsInv, [Dealing!Next]_(Dealing!vars) PROVE FoldsInv'
  OBVIOUS
<1>1. CASE Dealing!Deal
  <2>1. EvidenceInv'
    BY <1>1, EvidenceWhileDealing DEF Dealing!Deal, FoldsInv
  <2> QED
    BY <1>1, <2>1, DealStep DEF FoldsInv
<1>2. CASE Dealing!NextCategory
  <2>1. EvidenceInv'
    BY <1>2, EvidenceWhileDealing DEF Dealing!NextCategory, FoldsInv
  <2> QED
    BY <1>2, <2>1, NextCategoryStep DEF FoldsInv
<1>3. CASE Dealing!CheckFolds
  <2>1. SameLabels /\ UNCHANGED <<category, queue, fold>>
    BY <1>3 DEF Dealing!CheckFolds, SameLabels
  <2> QED
    BY <1>3, <2>1, CheckFoldsStep, DealtStep DEF FoldsInv
<1>4. CASE Dealing!Fit
  <2>1. SameLabels /\ UNCHANGED <<category, queue, fold>>
    BY <1>4 DEF Dealing!Fit, SameLabels
  <2> QED
    BY <1>4, <2>1, FitStep, DealtStep DEF FoldsInv
<1>5. CASE Dealing!Calibrate
  <2>1. SameLabels /\ UNCHANGED <<category, queue, fold>>
    BY <1>5 DEF Dealing!Calibrate, SameLabels
  <2> QED
    BY <1>5, <2>1, CalibrateStep, DealtStep DEF FoldsInv
<1>6. CASE UNCHANGED Dealing!vars
  <2>1. SameLabels /\ UNCHANGED <<category, queue, fold>>
    BY <1>6 DEF Dealing!vars, SameLabels
  <2> QED
    BY <1>6, <2>1, IdleStep, DealtStep DEF FoldsInv
<1> QED
  BY <1>1, <1>2, <1>3, <1>4, <1>5, <1>6 DEF Dealing!Next, Dealing!Ended

\* Both invariants hold throughout the composition.
LEMMA FoldsInvariant == PartsSpec => []FoldsInv
<1>1. PartsInit => FoldsInv
  BY PartsSteps, FoldsStart
<1>2. FoldsInv /\ [PartsNext]_allVars => FoldsInv'
  BY PartsSteps, FoldsStep
<1> QED
  BY <1>1, <1>2, PTL DEF PartsSpec

-----------------------------------------------------------------------------
(* The folds: what the runs check of them.                                 *)

\* What two blocks of one category differ by in missing labels.
Spreads ==
    UNION {{Missing(a) - Missing(b) : a, b \in BlockSet(c)} : c \in Dealing!Categories}

\* One of these differences is the largest.
LEMMA LargestSpread ==
    ASSUME LabelsTyped
    PROVE  \E D \in Spreads : Bounds(D)
<1> DEFINE K == Dealing!Count("missing", Dealing!Tasks)
           T == {K - d : d \in Spreads}
<1>1. K \in Nat
  BY CountFacts DEF LabelKinds
<1>2. ASSUME NEW c \in Dealing!Categories, NEW b \in BlockSet(c)
      PROVE  Missing(b) \in Nat /\ Missing(b) <= K
  <2>1. /\ Pieces(BlockSet(c), c) /\ Missing(b) \in Nat
        /\ Missing(b) = Dealing!Count("missing", TasksOf(b))
    BY BlocksFacts
  <2>2. TasksOf(b) \subseteq Dealing!Tasks
    BY <2>1, TaskFacts DEF Pieces
  <2> QED
    BY <2>1, <2>2, CountFacts DEF LabelKinds
<1>3. \A d : d \in Spreads <=> \E c \in Dealing!Categories : \E a, b \in BlockSet(c) :
                                  d = Missing(a) - Missing(b)
  BY DEF Spreads
<1>4. Spreads # {}
  <2>1. 1 \in Dealing!Categories /\ <<1, 1>> \in Dealing!Of(1)
    BY TaskFacts DEF Dealing!Of, Dealing!Tasks
  <2>2. Pieces(BlockSet(1), 1)
    BY <2>1, BlocksFacts
  <2>3. PICK b \in BlockSet(1) : <<1, 1>> \in TasksOf(b)
    BY <2>1, <2>2 DEF Pieces
  <2> QED
    BY <1>3, <2>1, <2>3
<1> HIDE DEF K
<1>5. \A d \in Spreads : d \in Int /\ K - d \in Nat
  BY <1>1, <1>2, <1>3
<1>6. T \subseteq Nat /\ T # {}
  BY <1>4, <1>5
<1>7. PICK n \in T : \A m \in T : n <= m
  BY <1>6, LeastNumber
<1>8. PICK D \in Spreads : n = K - D
  BY <1>7
<1>9. ASSUME NEW d \in Spreads PROVE d <= D
  <2>1. K - d \in T
    OBVIOUS
  <2>2. K - D <= K - d
    BY <1>7, <1>8, <2>1, Zenon
  <2> QED
    BY <1>1, <1>5, <1>8, <2>2
<1>10. Bounds(D)
  BY <1>3, <1>5, <1>8, <1>9 DEF Bounds
<1> QED
  BY <1>8, <1>10

\* build_outer_folds and build_grouped_folds, fewest first: no two folds end
\* further apart in missing labels than some two blocks are.
LEMMA MissingAreSpread == FoldsInv => Dealing!MissingLabelsAreSpread
<1> SUFFICES ASSUME FoldsInv, phase # "deal", NEW f \in Dealing!Folds, NEW g \in Dealing!Folds
             PROVE  \E d \in Spreads : Lacks(f) - Lacks(g) <= d
  <2>1. ASSUME FoldsInv
        PROVE  UNION {{Dealing!CountIn("missing", a) - Dealing!CountIn("missing", b) :
                          a, b \in Dealing!ToSet(Dealing!Blocks(c))} : c \in Dealing!Categories}
                 = Spreads
    <3>1. \A c \in Dealing!Categories : Dealing!ToSet(Dealing!Blocks(c)) = BlockSet(c)
      BY <2>1, BlocksFacts DEF FoldsInv, DealInv, DealTyped
    <3> QED
      BY <3>1 DEF Spreads, Missing
  <2> QED
    BY <2>1 DEF Dealing!MissingLabelsAreSpread, Lacks
<1>1. DealInv /\ DealTyped /\ LabelsTyped /\ queue = <<>>
  BY DEF FoldsInv, EvidenceInv, DealInv, DealTyped
<1>2. PICK D \in Spreads : Bounds(D)
  BY <1>1, LargestSpread
<1>3. Apart(f, g, D) /\ Has(f) = Has(g)
  BY <1>1, <1>2, AllDealt DEF DealInv, Spread
<1> QED
  BY <1>2, <1>3 DEF Apart

\* However the labels lie, for any number of folds, categories and tasks: the two
\* fold builders of routing/ml_features.py and phase9_retraining.py deal every fold
\* its share of every category and spread the missing labels, and no out-of-fold
\* probability is computed from a label of its own fold.
THEOREM LabelsAlwaysGoWhereDealt == PartsSpec => []LabelsGoWhereDealt
<1>1. ASSUME FoldsInv PROVE LabelsGoWhereDealt
  <2>1. Dealing!FoldsAreBalanced
    <3>1. phase # "deal" \/ (queue = <<>> /\ category = NumCategories)
             => queue = <<>> /\ category = NumCategories
      BY <1>1 DEF FoldsInv, EvidenceInv
    <3> QED
      BY <1>1, <3>1, FullyDealt, DealOperators DEF FoldsInv, Dealing!FoldsAreBalanced
  <2>2. Dealing!PredictionsAreOutOfFold
    <3>1. \A t \in Dealing!Tasks :
             /\ oof[t] \in {{}, Outside(fold[t])}
             /\ phase \in {"calibrate", "done"} => oof[t] # {}
      BY <1>1 DEF FoldsInv, EvidenceInv, HasModel
    <3> QED
      BY <3>1, OutsideFacts DEF Dealing!PredictionsAreOutOfFold
  <2> QED
    BY <1>1, <2>1, <2>2, MissingAreSpread DEF LabelsGoWhereDealt, Dealing!LabelsGoWhereDealt
<1> QED
  BY <1>1, FoldsInvariant, PTL

\* The state of the folds and of the artifact has its types, for every labelled
\* dataset and number of builders: a task is in at most one fold, what is still to be
\* dealt is of the category that is being dealt, and evidence is made of tasks.
LEMMA StudiesAreTyped == PartsSpec => [](Dealing!TypeOK /\ Artifact!TypeOK)
<1>1. ASSUME FoldsInv PROVE Dealing!TypeOK
  <2>1. /\ builder \in {"outer", "grouped"} /\ label \in [Dealing!Tasks -> Profiles]
        /\ category \in Dealing!Categories
        /\ fold \in [Dealing!Tasks -> Dealing!Folds \cup {Dealing!NoFold}]
    BY <1>1, TaskFacts DEF FoldsInv, DealInv, DealTyped, LabelsTyped
  <2>2. UNION {Dealing!ToSet(b) : b \in Dealing!ToSet(queue)} \subseteq Dealing!Of(category)
    <3>1. Pieces(BlockSet(category), category) /\ queue \in Seq(BlockSet(category))
      BY <1>1, BlocksFacts DEF FoldsInv, DealInv, DealTyped, Queued
    <3>2. \A b \in Dealing!ToSet(queue) : b \in BlockSet(category)
      BY <3>1, DealOperators
    <3>3. \A b \in Dealing!ToSet(queue) : Dealing!ToSet(b) \subseteq Dealing!Of(category)
      BY <3>1, <3>2 DEF Pieces, TasksOf
    <3> QED
      BY <3>3
  <2>3. phase \in {"deal", "fit", "calibrate", "done", "failed"} /\ current \in Dealing!Folds
    BY <1>1 DEF FoldsInv, EvidenceInv, Phases
  <2>4. /\ oof \in [Dealing!Tasks -> SUBSET Dealing!Tasks]
        /\ platt \in [Dealing!Tasks -> SUBSET Dealing!Tasks]
        /\ phase = "deal" => \A t \in Dealing!Tasks : oof[t] = {} /\ platt[t] = {}
    BY <1>1 DEF FoldsInv, EvidenceInv
  <2>5. phase = "deal" => oof = platt /\ \A t \in Dealing!Tasks : oof[t] = {}
    BY <2>4
  <2>6. \A t \in Dealing!Tasks : oof[t] \cup platt[t] \subseteq Dealing!Tasks
    BY <2>4
  <2> QED
    BY <2>1, <2>2, <2>3, <2>5, <2>6 DEF Dealing!TypeOK
<1>2. ArtifactInv => Artifact!TypeOK
  BY DEF ArtifactInv
<1> QED
  BY <1>1, <1>2, FoldsInvariant, ArtifactInvariant, PTL
=============================================================================
