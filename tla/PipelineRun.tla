------------------------------ MODULE PipelineRun ------------------------------
(***************************************************************************)
(* One source's run through the five stages of the runtime pipeline        *)
(* (PipelineService.execute_queue_item in pipeline_service.py, with        *)
(* PipelineStateManager in pipeline_state.py): what is kept at each        *)
(* checkpoint, what a crash or a failure leaves behind, and what a later   *)
(* execution of the source resumes from, when the active model set may     *)
(* have changed in between.                                                *)
(*                                                                         *)
(* A checkpoint is two files written one after the other: the checkpoint   *)
(* file, then the run state file with its own copy of the checkpoint.      *)
(* Each write is atomic.  A feature file is named for its content and      *)
(* never overwritten; the staged batches of a run are, so a manifest       *)
(* reference is valid only while they hold what it was made for.           *)
(***************************************************************************)
EXTENDS Naturals

CONSTANTS
    ModelSets,        \* versions of the active model set
    SchemaOf,         \* SchemaOf[m]: the feature schemas of the models of m
    None,             \* nothing there
    MaxInterruptions  \* bound: crashes and failures

Schemas == {SchemaOf[m] : m \in ModelSets}

ASSUME RunAssumption ==
    /\ None \notin ModelSets /\ None \notin Schemas
    /\ MaxInterruptions \in Nat

VARIABLES
    active,         \* the active model set
    checkpointFile, \* the checkpoint file of the source's last run
    stateFile,      \* its run state file
    staged,         \* the model set whose predictions its staged batches hold
    outbox,         \* the model sets whose predictions were published
    stage,          \* the stage the execution is in
    step,           \* what it does next there
    models,         \* the model set it has pinned
    loaded,         \* checkpoint_to_resume, None in a fresh run
    resumedFrom,    \* resumed_stage
    state,          \* manager.state
    features,       \* the schema of the features at hand
    results,        \* the model set that computed model_results
    batches,        \* the model set whose predictions are delivered
    interruptions,
    torn            \* a crash fell between the two files of a checkpoint

disk == <<checkpointFile, stateFile, staged, outbox>>
vars == <<active, checkpointFile, stateFile, staged, outbox, stage, step, models, loaded,
          resumedFrom, state, features, results, batches, interruptions, torn>>
history == <<interruptions, torn>>

Validated == 0  Prep == 1  Feature == 2  Prediction == 3  Batch == 4  Delivery == 5
Stages == Validated..Delivery

(* What of a PipelineCheckpoint decides how a run goes on. *)
Checkpoints ==
    [last : Stages,                     \* last_completed_stage
     models : ModelSets,                \* model_set_*, model_snapshot
     prep : BOOLEAN,                    \* stage_outputs["preprocessing"]
     feat : Schemas \cup {None},        \* the outputs of "runtime_feature"
     manifest : ModelSets \cup {None},  \* batch_manifest_ref
     status : {"resumable", "completed"}]

(* And of a PipelineRunState. *)
RunStates ==
    [status : {"running", "failed", "succeeded"},
     featureRunning : BOOLEAN,             \* stages["runtime_feature"] is running
     predictions : ModelSets \cup {None},  \* prediction_results
     checkpoint : Checkpoints]

ASSUME NoneAssumption == None \notin Checkpoints /\ None \notin RunStates

Init ==
    /\ active \in ModelSets
    /\ checkpointFile = None /\ stateFile = None /\ staged = None /\ outbox = {}
    /\ stage = Validated /\ step = "idle"
    /\ models = None /\ loaded = None /\ resumedFrom = Validated /\ state = None
    /\ features = None /\ results = None /\ batches = None
    /\ interruptions = 0 /\ torn = FALSE

(* The execution is over, one way or another: its memory is gone. *)
Forget ==
    /\ stage' = Validated /\ step' = "idle"
    /\ models' = None /\ loaded' = None /\ resumedFrom' = Validated /\ state' = None
    /\ features' = None /\ results' = None /\ batches' = None

(* Another model set is activated; an execution keeps the one it pinned. *)
Activate(m) ==
    /\ m # active
    /\ active' = m
    /\ UNCHANGED <<disk, stage, step, models, loaded, resumedFrom, state, features, results,
                   batches, history>>

-----------------------------------------------------------------------------
(* Resumption planning. *)

(* find_resumable_run *)
Resumable ==
    /\ stateFile # None /\ stateFile.status \in {"running", "failed"}
    /\ checkpointFile.status = "resumable"

Valid(manifest) == manifest # None /\ manifest = staged

(* The loaded checkpoint is adapted to the model set that is active now:   *)
(* what depends on the old models goes, their features if the schemas      *)
(* differ.                                                                 *)
Reconciled(chk, m) ==
    IF chk.models = m THEN chk
    ELSE IF SchemaOf[chk.models] # SchemaOf[m]
    THEN [chk EXCEPT !.models = m, !.manifest = None, !.feat = None, !.last = Prep]
    ELSE [chk EXCEPT !.models = m, !.manifest = None,
                     !.last = IF chk.last > Feature THEN Feature ELSE @]

(* The first stage that has to be done again. *)
ResumeStage(chk, predictions) ==
    IF ~chk.prep THEN Prep
    ELSE IF chk.feat = None THEN Feature
    ELSE IF predictions = None \/ chk.last < Prediction THEN Prediction
    ELSE IF ~Valid(chk.manifest) \/ chk.last < Batch THEN Batch
    ELSE Delivery

MutantResume ==
    /\ Resumable
    /\ LET chk == Reconciled(checkpointFile, active)
       IN  /\ loaded' = chk
           /\ state' = [stateFile EXCEPT !.status = "running"]
           /\ resumedFrom' = ResumeStage(chk, stateFile.predictions)
    /\ stage' = IF resumedFrom' = Prep THEN Prep ELSE Feature
    /\ step' = "work"

(* The run state and its copy of the checkpoint are taken as they are,     *)
(* also when the checkpoint file is newer.                                 *)
Resume ==
    /\ Resumable
    /\ LET chk == Reconciled(checkpointFile, active)
           kept == IF checkpointFile.models = active THEN stateFile.predictions ELSE None
       IN  /\ loaded' = chk
           /\ state' = [stateFile EXCEPT !.status = "running", !.predictions = kept]
           /\ resumedFrom' = ResumeStage(chk, kept)
    /\ stage' = IF resumedFrom' = Prep THEN Prep ELSE Feature
    /\ step' = "work"

(* record_checkpoint: on top of what the run state's own copy holds. *)
Record(s, last, feat, manifest) ==
    [s EXCEPT !.checkpoint =
        [last |-> last, models |-> models, prep |-> @.prep \/ last = Prep,
         feat |-> IF feat = None THEN @.feat ELSE feat,
         manifest |-> IF manifest = None THEN @.manifest ELSE manifest,
         status |-> IF last = Delivery THEN "completed" ELSE "resumable"]]

StartFresh ==
    /\ ~Resumable
    /\ loaded' = None /\ resumedFrom' = Validated
    /\ state' = [status |-> "running", featureRunning |-> FALSE, predictions |-> None,
                 checkpoint |-> [last |-> Validated, models |-> active, prep |-> FALSE,
                                 feat |-> None, manifest |-> None, status |-> "resumable"]]
    /\ stage' = Validated /\ step' = "checkpoint"

Finished == stateFile # None /\ stateFile.status = "succeeded"

Begin ==
    /\ step = "idle" /\ ~Finished
    /\ models' = active
    /\ Resume \/ StartFresh
    /\ UNCHANGED <<active, disk, features, results, batches, history>>

-----------------------------------------------------------------------------
(* The stages.  Each ends with its checkpoint in memory. *)

Preprocess ==
    /\ stage = Prep /\ step = "work"
    /\ state' = Record(state, Prep, None, None)
    /\ step' = "checkpoint"
    /\ UNCHANGED <<active, disk, stage, models, loaded, resumedFrom, features, results, batches,
                   history>>

(* The features of the loaded checkpoint are used again, or extracted.     *)
(* The stage is always started, but it succeeds only in a run that has not *)
(* resumed behind it.                                                      *)
BuildFeatures ==
    /\ stage = Feature /\ step = "work" /\ ~state.featureRunning
    /\ features' = IF loaded # None /\ loaded.feat # None THEN loaded.feat ELSE SchemaOf[models]
    /\ state' = Record([state EXCEPT !.featureRunning = resumedFrom >= Prediction],
                       Feature, features', None)
    /\ step' = "checkpoint"
    /\ UNCHANGED <<active, disk, stage, models, loaded, resumedFrom, results, batches,
                   history>>

(* start_stage refuses a stage that is running: nothing is saved. *)
RefuseFeatures ==
    /\ stage = Feature /\ step = "work" /\ state.featureRunning
    /\ Forget
    /\ UNCHANGED <<active, disk, history>>

Reuse == resumedFrom >= Batch

ReusePredictions ==
    /\ stage = Prediction /\ step = "work" /\ Reuse
    /\ results' = state.predictions
    /\ stage' = Batch
    /\ UNCHANGED <<active, disk, step, models, loaded, resumedFrom, state, features, batches,
                   history>>

Predict ==
    /\ stage = Prediction /\ step = "work" /\ ~Reuse
    /\ results' = models
    /\ state' = Record(state, Prediction, None, None)
    /\ step' = "checkpoint"
    /\ UNCHANGED <<active, disk, stage, models, loaded, resumedFrom, features, batches,
                   history>>

Reload == loaded # None /\ Valid(loaded.manifest)

(* The predictions become part of the run state only when they are staged. *)
BuildBatches ==
    /\ stage = Batch /\ step = "work"
    /\ batches' = IF Reload THEN loaded.manifest ELSE results
    /\ staged' = batches'
    /\ state' = Record(IF Reload THEN state ELSE [state EXCEPT !.predictions = results],
                       Batch, None, batches')
    /\ step' = "checkpoint"
    /\ UNCHANGED <<active, checkpointFile, stateFile, outbox, stage, models, loaded, resumedFrom,
                   features, results, history>>

(* Outbox files are named for their content: the same predictions are      *)
(* registered once.                                                        *)
Deliver ==
    /\ stage = Delivery /\ step = "work"
    /\ outbox' = outbox \cup {batches}
    /\ state' = Record(state, Delivery, None, None)
    /\ step' = "checkpoint"
    /\ UNCHANGED <<active, checkpointFile, stateFile, staged, stage, models, loaded, resumedFrom,
                   features, results, batches, history>>

(* save_checkpoint.  The first one of a run creates the run's directory.   *)
SaveCheckpoint ==
    /\ step = "checkpoint"
    /\ checkpointFile' = state.checkpoint
    /\ IF stage = Validated THEN stateFile' = None /\ staged' = None
       ELSE UNCHANGED <<stateFile, staged>>
    /\ step' = "state"
    /\ UNCHANGED <<active, outbox, stage, models, loaded, resumedFrom, state, features, results,
                   batches, history>>

(* save_run_state, and on to the next stage. *)
SaveState ==
    /\ step = "state" /\ stage # Delivery
    /\ stateFile' = state
    /\ stage' = stage + 1 /\ step' = "work"
    /\ UNCHANGED <<active, checkpointFile, staged, outbox, models, loaded, resumedFrom, state,
                   features, results, batches, history>>

MutantFinish ==
    /\ step = "state" /\ stage = Delivery
    /\ stateFile' = state
    /\ staged' = None
    /\ Forget
    /\ UNCHANGED <<active, checkpointFile, outbox, history>>

(* After the last stage the intermediate files are deleted. *)
Finish ==
    /\ step = "state" /\ stage = Delivery
    /\ stateFile' = [state EXCEPT !.status = "succeeded"]
    /\ staged' = None
    /\ Forget
    /\ UNCHANGED <<active, checkpointFile, outbox, history>>

-----------------------------------------------------------------------------
Interrupt ==
    /\ interruptions < MaxInterruptions
    /\ interruptions' = interruptions + 1
    /\ torn' = (torn \/ step = "state")
    /\ Forget
    /\ UNCHANGED <<active, checkpointFile, outbox>>

(* Interrupted at work on the batches: the files are as they were, written *)
(* in part, or written.                                                    *)
Staging == stage = Batch /\ step = "work" /\ ~Reload
LeavesStaged == staged' \in {staged} \cup (IF Staging THEN {None, results} ELSE {})

CanFail ==
    /\ step = "work" /\ stage \in {Prep, Feature, Prediction, Batch}
    /\ stage = Feature => ~state.featureRunning
    /\ stage = Prediction => ~Reuse

MutantFail ==
    /\ CanFail
    /\ stateFile' = [state EXCEPT !.status = "failed", !.featureRunning = @ \/ stage = Feature]
    /\ LeavesStaged /\ Interrupt

(* A stage fails: the run state is saved as failed, without a checkpoint.  *)
(* The predictions are recorded before the batches are staged.             *)
Fail ==
    /\ CanFail
    /\ \E kept \in {state.predictions} \cup (IF Staging THEN {results} ELSE {}) :
        stateFile' = [state EXCEPT !.status = "failed", !.predictions = kept]
    /\ LeavesStaged /\ Interrupt

(* The process dies; or stage 5 raises, which saves nothing either.        *)
Crash ==
    /\ step # "idle"
    /\ LeavesStaged /\ Interrupt /\ UNCHANGED stateFile

-----------------------------------------------------------------------------
Execution ==
    \/ Begin \/ Preprocess \/ BuildFeatures \/ RefuseFeatures
    \/ ReusePredictions \/ Predict \/ BuildBatches \/ Deliver
    \/ SaveCheckpoint \/ SaveState \/ Finish

Next ==
    \/ Execution \/ Fail \/ Crash
    \/ \E m \in ModelSets : Activate(m)

Spec == Init /\ [][Next]_vars

(* The queue hands out an interrupted job again when the process starts,   *)
(* a failed one within its attempts, and any at an explicit retry.         *)
FairSpec == Spec /\ WF_vars(Execution)

-----------------------------------------------------------------------------
TypeOK ==
    /\ active \in ModelSets
    /\ checkpointFile \in Checkpoints \cup {None}
    /\ stateFile \in RunStates \cup {None}
    /\ staged \in ModelSets \cup {None}
    /\ outbox \subseteq ModelSets
    /\ stage \in Stages
    /\ step \in {"idle", "work", "checkpoint", "state"}
    /\ models \in ModelSets \cup {None}
    /\ loaded \in Checkpoints \cup {None}
    /\ resumedFrom \in Stages
    /\ state \in RunStates \cup {None}
    /\ features \in Schemas \cup {None}
    /\ results \in ModelSets \cup {None}
    /\ batches \in ModelSets \cup {None}
    /\ interruptions \in 0..MaxInterruptions
    /\ torn \in BOOLEAN

(* Predictions handed to the batches were computed by the model set the    *)
(* execution has pinned, also those taken from the run state of an earlier *)
(* execution, however often the source was interrupted and whichever       *)
(* models were activated: as long as no crash fell between the two files   *)
(* of a checkpoint.                                                        *)
ResultsArePinnedUnlessTorn == ~torn /\ results # None => results = models

(* A checkpoint is completed only when the batches it names are published, *)
(* and they are those the run staged or loaded, not what it recomputed.    *)
CompletedIsPublished ==
    checkpointFile # None /\ checkpointFile.status = "completed"
        => checkpointFile.manifest \in outbox

(* A run that is interrupted once, anywhere, is resumed and completes,     *)
(* whichever model sets are activated meanwhile.                           *)
CompletesAfterOneInterruption == [](interruptions <= 1) => <>Finished

(* However often it is interrupted, a run completes unless its file says   *)
(* that the feature stage is running.                                      *)
CompletesOrIsStuck == <>(Finished \/ (stateFile # None /\ stateFile.featureRunning))
=============================================================================
