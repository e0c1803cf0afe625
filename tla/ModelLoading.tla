---------------------------- MODULE ModelLoading ----------------------------
(***************************************************************************)
(* Which models the process serves after its start (src/src/engines): each *)
(* engine tries MLflow, then files in the models directory, whose pickles  *)
(* are compared with a manifest of hashes (src/src/model_integrity.py).    *)
(* The supervised engine is the FT-Transformer if it loads, else a Random  *)
(* Forest (registry.py).  The engine then labels and scores flows.         *)
(*                                                                         *)
(* A file is "absent", "good", "broken" (it cannot be read as a model),    *)
(* "misfit" (weights of another shape) or "changed" (not the listed hash). *)
(***************************************************************************)
EXTENDS Integers, FiniteSets, FiniteSetsExt

CONSTANTS
    Sites,        \* installations: mode, manifest, mlflow, torch, disk
    ClassScores,  \* what a model says of a flow: class -> probability in percent
    Benign,       \* BENIGN_LABEL
    RfThreshold,  \* RF_SCORE_THRESHOLD
    FtThreshold   \* FT_SCORE_THRESHOLD

VARIABLES
    site,     \* the installation, chosen once
    process,  \* "starting", "up", or "down" if the start failed
    engines,  \* what each engine serves
    verdict   \* label, confidence and score of the last flow

modelVars == <<site, process, engines, verdict>>

NoModel == "none"
NoVerdict == [label |-> NoModel, confidence |-> 0, score |-> 0]

Init ==
    /\ site \in Sites /\ process = "starting" /\ verdict = NoVerdict
    /\ engines = [supervised |-> NoModel, iforest |-> NoModel, scaler |-> NoModel, lstm |-> NoModel]

-----------------------------------------------------------------------------

OnDisk(f) == site.disk[f] # "absent"

(* read_manifest: the names a manifest lists; without a manifest site.listed is {}. *)
Listed == IF site.manifest THEN site.listed ELSE {}

(* verify *)
Verified(f) ==
    \/ site.mode = "off"
    \/ ~site.manifest /\ site.mode = "auto"
    \/ f \in Listed /\ site.disk[f] # "changed"

(* load_joblib: a pickle of another shape loads all the same. *)
LoadsPickle(f) == OnDisk(f) /\ Verified(f) /\ site.disk[f] # "broken"

(* load_latest: whatever goes wrong, MLflow has no model. *)
FromMlflow(name) == name \in site.mlflow

(* SupervisedEngine._load: MLflow, the full model, then the bundled one. *)
RandomForest ==
    IF FromMlflow("supervised") THEN "mlflow"
    ELSE IF LoadsPickle("rf") THEN "rf"
    ELSE IF LoadsPickle("rfLite") THEN "rfLite" ELSE NoModel

(* FTTransformerEngine: a checkpoint is no pickle and is not verified. *)
FtBundle ==
    IF ~site.torch THEN "absent"
    ELSE IF FromMlflow("ft") THEN "good"
    ELSE IF site.disk["ft"] = "broken" THEN "absent" ELSE site.disk["ft"]
FtStarts    == FtBundle # "misfit"   \* build_from_checkpoint raises outside of every try
FtAvailable == FtBundle # "absent" /\ LoadsPickle("ftScaler")

(* LSTMAutoencoderEngine._load: weights that do not load leave the model as it was built. *)
Lstm ==
    IF FromMlflow("lstm") /\ site.torch THEN "mlflow"
    ELSE IF ~OnDisk("lstm") \/ ~site.torch THEN NoModel
    ELSE IF site.disk["lstm"] \in {"broken", "misfit"} THEN "untrained" ELSE "lstm"

IForest == IF FromMlflow("iforest") THEN "mlflow"
           ELSE IF LoadsPickle("if") THEN "if" ELSE NoModel

(* registry.py: the engines are built when it is imported. *)
Start ==
    /\ process = "starting"
    /\ process' = IF FtStarts THEN "up" ELSE "down"
    /\ engines' = IF ~FtStarts THEN engines
                  ELSE [supervised |-> IF FtAvailable THEN "ft" ELSE RandomForest,
                        iforest |-> IForest,
                        scaler |-> IF LoadsPickle("ifScaler") THEN "ifScaler" ELSE NoModel,
                        lstm |-> Lstm]
    /\ UNCHANGED <<site, verdict>>

(* swap(), through reload() with a scaler or without, and reload_from_mlflow(). *)
Reload(model, scaler) ==
    /\ process = "up" /\ LoadsPickle(model)
    /\ scaler # NoModel /\ OnDisk(scaler) => LoadsPickle(scaler)
    /\ engines' = [engines EXCEPT !.iforest = model,
                                  !.scaler = IF scaler # NoModel /\ OnDisk(scaler) THEN scaler ELSE NoModel]
    /\ UNCHANGED <<site, process, verdict>>
ReloadFromMlflow ==
    /\ process = "up" /\ FromMlflow("iforest")
    /\ engines' = [engines EXCEPT !.iforest = "mlflow", !.scaler = NoModel]
    /\ UNCHANGED <<site, process, verdict>>

-----------------------------------------------------------------------------

Probability(p) == CHOOSE top \in {p[c] : c \in DOMAIN p} : \A c \in DOMAIN p : p[c] <= top

(* anomaly_score of both supervised engines: 1 - P(Benign), if the model knows Benign. *)
RawScore(p) == IF Benign \in DOMAIN p THEN 100 - p[Benign] ELSE Probability(p)
Threshold == IF engines.supervised = "ft" THEN FtThreshold ELSE RfThreshold
Score(p) == IF RawScore(p) >= Threshold THEN RawScore(p) ELSE 0

(* predict and anomaly_score of one flow; argmax takes any class with the highest probability here. *)
Classify(p) ==
    /\ process = "up" /\ engines.supervised # NoModel
    /\ \E c \in DOMAIN p :
         /\ p[c] = Probability(p)
         /\ verdict' = [label |-> c, confidence |-> p[c], score |-> Score(p)]
    /\ UNCHANGED <<site, process, engines>>

(* An array of the wrong length, or any other error: no label and score 0. *)
ClassifyFails ==
    /\ process = "up" /\ verdict' = NoVerdict
    /\ UNCHANGED <<site, process, engines>>

ReloadNext == \/ \E s \in {"ifScaler", NoModel} : Reload("if", s)
              \/ ReloadFromMlflow

Next ==
    \/ Start
    \/ ReloadNext
    \/ \E p \in ClassScores : Classify(p)
    \/ ClassifyFails

Spec == Init /\ [][Next]_modelVars

(* describe_engines, per engine: enabled or not. *)
Enabled(e) == engines[e] # NoModel

-----------------------------------------------------------------------------

(***************************************************************************)
(* Where a manifest governs (it exists and the mode is not "off", or the   *)
(* mode is "enforce"), every local pickle in use is listed with its hash,  *)
(* whichever of the fall-backs or reloads brought it in.                   *)
(***************************************************************************)
Pickles == {"rf", "rfLite", "if", "ifScaler"}
InUse == {engines[e] : e \in DOMAIN engines} \cup (IF engines.supervised = "ft" THEN {"ftScaler"} ELSE {})
OnlyListedPickles ==
    (site.manifest /\ site.mode # "off") \/ site.mode = "enforce" =>
        \A f \in InUse \cap (Pickles \cup {"ftScaler"}) : f \in Listed /\ site.disk[f] # "changed"

(***************************************************************************)
(* The label and the score of a flow agree: a flow labelled as an attack   *)
(* with a confidence above the threshold scores at least that confidence,  *)
(* and a flow labelled Benign, with a confidence that leaves less than the *)
(* threshold for the attacks, scores 0.                                    *)
(***************************************************************************)
ScoreFollowsLabel ==
    verdict # NoVerdict =>
        /\ verdict.label # Benign /\ verdict.confidence >= Threshold => verdict.score >= verdict.confidence
        /\ verdict.label = Benign /\ 100 - verdict.confidence < Threshold => verdict.score = 0

(***************************************************************************)
(* "is_available: bool property indicating readiness"                      *)
(* (src/src/engines/protocol.py:4): an engine that reports itself          *)
(* available serves a model that was trained.                              *)
(***************************************************************************)
AvailableIsTrained == engines.lstm # "untrained"
=============================================================================
