--------------------------- MODULE BaselineModels ---------------------------
(***************************************************************************)
(* The BaselineEngine at work (src/src/engines/baseline_engine.py): hot    *)
(* reloads of four artifacts from the registry, and the scores taken       *)
(* meanwhile.  An artifact is the version it belongs to.                   *)
(***************************************************************************)
EXTENDS Integers, Sequences, FiniteSets, Functions

CONSTANTS
    Reloaders,    \* training threads that call reload_from_mlflow_baseline
    Scorers,      \* capture threads that score
    Loadable,     \* versions whose artifacts have the schema of this extractor and load
    MaxVersions   \* bound: registered versions

Parts == <<"scaler", "iforest", "lstm", "threshold">>   \* in the order they are assigned
NoThreadHere == "nobody"

VARIABLES
    published,  \* how many versions the registry holds
    quartet,    \* the version each artifact of the engine comes from, 0 for none
    swapping,   \* who holds _swap_lock
    reloading,  \* who holds _reload_lock
    reload,     \* per reloader: stage, version, parts still to swap
    scoring,    \* per scorer: stage and the artifacts it has read
    active      \* _version

baseVars == <<published, quartet, swapping, reloading, reload, scoring, active>>

Resting == [stage |-> "idle", version |-> 0, left |-> <<>>]
Nothing == [stage |-> "idle", read |-> <<>>]

Init ==
    /\ published = 0 /\ quartet = [p \in Range(Parts) |-> 0] /\ active = 0
    /\ swapping = NoThreadHere /\ reloading = NoThreadHere
    /\ reload = [r \in Reloaders |-> Resting] /\ scoring = [s \in Scorers |-> Nothing]

(* WindowTrainer._register_baseline, by this detector or another one. *)
Publish ==
    /\ published < MaxVersions /\ published' = published + 1
    /\ UNCHANGED <<quartet, swapping, reloading, reload, scoring, active>>

-----------------------------------------------------------------------------
(* Reload: the latest version is looked up, downloaded and swapped in.       *)

(* Mutant of MayReload: reloads are not serialised. *)
MayReloadAtOnce(r) == reload[r].stage = "idle"

MayReload(r) == reload[r].stage = "idle" /\ reloading = NoThreadHere

BeginReload(r) ==
    /\ MayReload(r) /\ published > 0
    /\ reloading' = r
    /\ reload' = [reload EXCEPT ![r] = [stage |-> "loading", version |-> published, left |-> Parts]]
    /\ UNCHANGED <<published, quartet, swapping, scoring, active>>

EndReload(r) ==
    /\ reload' = [reload EXCEPT ![r] = Resting]
    /\ reloading' = NoThreadHere

(* No artifacts, another schema, unreadable files: the engine stays as it is. *)
LoadFails(r) ==
    /\ reload[r].stage = "loading"
    /\ EndReload(r)
    /\ UNCHANGED <<published, quartet, swapping, scoring, active>>

LockQuartet(r) ==
    /\ reload[r].stage = "loading" /\ reload[r].version \in Loadable /\ swapping = NoThreadHere
    /\ swapping' = r
    /\ reload' = [reload EXCEPT ![r].stage = "swapping"]
    /\ UNCHANGED <<published, quartet, reloading, scoring, active>>

SwapPart(r) ==
    /\ reload[r].stage = "swapping" /\ reload[r].left # <<>>
    /\ quartet' = [quartet EXCEPT ![Head(reload[r].left)] = reload[r].version]
    /\ reload' = [reload EXCEPT ![r].left = Tail(@)]
    /\ UNCHANGED <<published, swapping, reloading, scoring, active>>

UnlockQuartet(r) ==
    /\ reload[r].stage = "swapping" /\ reload[r].left = <<>>
    /\ swapping' = NoThreadHere /\ active' = reload[r].version
    /\ EndReload(r)
    /\ UNCHANGED <<published, quartet, scoring>>

-----------------------------------------------------------------------------
(* anomaly_score: is_available, then the quartet, then the two branches.     *)

Available == quartet["scaler"] # 0 /\ quartet["iforest"] # 0 /\ quartet["lstm"] # 0

AskAvailable(s) ==
    /\ scoring[s].stage = "idle" /\ swapping = NoThreadHere /\ Available
    /\ scoring' = [scoring EXCEPT ![s] = [stage |-> "available", read |-> <<>>]]
    /\ UNCHANGED <<published, quartet, swapping, reloading, reload, active>>

(* Mutant of QuartetReadable: the references are read without the lock. *)
QuartetReadableAnytime == TRUE

QuartetReadable == swapping = NoThreadHere

ReadQuartet(s) ==
    /\ scoring[s].stage = "available" /\ QuartetReadable
    /\ scoring' = [scoring EXCEPT ![s] = [stage |-> "read", read |-> quartet]]
    /\ UNCHANGED <<published, quartet, swapping, reloading, reload, active>>

(* With what was read; an error gives no opinion. *)
Score(s) ==
    /\ scoring[s].stage = "read"
    /\ scoring' = [scoring EXCEPT ![s] = Nothing]
    /\ UNCHANGED <<published, quartet, swapping, reloading, reload, active>>

ReloadNext == \E r \in Reloaders :
    \/ BeginReload(r) \/ LoadFails(r) \/ LockQuartet(r) \/ SwapPart(r) \/ UnlockQuartet(r)
ScoreNext == \E s \in Scorers :
    AskAvailable(s) \/ ReadQuartet(s) \/ Score(s)
Next == Publish \/ ReloadNext \/ ScoreNext

Spec == Init /\ [][Next]_baseVars

-----------------------------------------------------------------------------

(***************************************************************************)
(* A score is taken with the artifacts of one version, whatever reload is  *)
(* under way.                                                              *)
(***************************************************************************)
ScoresUseOneVersion ==
    \A s \in Scorers : scoring[s].stage = "read" => Cardinality(Range(scoring[s].read)) = 1

(***************************************************************************)
(* Reloads that overlap never put an older version back.                   *)
(***************************************************************************)
VersionsMoveForward == [][active' >= active]_baseVars
=============================================================================
