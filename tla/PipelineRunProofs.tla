--------------------------- MODULE PipelineRunProofs ---------------------------
(***************************************************************************)
(* For any model sets and any number of interruptions: a completed         *)
(* checkpoint names published batches, and predictions that are used again *)
(* are those of the pinned model set as long as the two files of a         *)
(* checkpoint were never torn apart.  Predictions travel: an execution     *)
(* computes or reuses them, keeps them in its run state, saves that, and a *)
(* later one resumes from it (PredictionsArePinned).                       *)
(***************************************************************************)
EXTENDS PipelineRun, TLAPS

Running == step # "idle"

MemoryInv ==
    /\ Running => models \in ModelSets /\ state \in RunStates
    /\ ~Running => results = None /\ batches = None

(* The checkpoint file always comes first. *)
FilesInv ==
    /\ stateFile # None => checkpointFile # None
    /\ step = "work" => checkpointFile # None
    /\ step = "state" => checkpointFile = state.checkpoint
    /\ Running /\ stage > Feature => checkpointFile # None /\ checkpointFile.models = models

(* What is about to be saved, or has been saved in the first file. *)
RecordedInv ==
    step \in {"checkpoint", "state"} =>
        /\ state.checkpoint.models = models
        /\ state.checkpoint.status = "completed" =>
              stage = Delivery /\ state.checkpoint.manifest \in outbox

ResultsAtHand ==
    Running =>
        /\ resumedFrom >= Batch => state.predictions # None
        /\ (stage >= Batch \/ (stage = Prediction /\ step # "work")) => results # None

BatchesAtHand ==
    Running /\ (stage = Delivery \/ (stage = Batch /\ step # "work")) =>
        batches # None /\ state.checkpoint.manifest = batches

(* Wherever predictions are, they go with the models named beside them. *)
PredictionsArePinned ==
    ~torn =>
        /\ results # None => results = models
        /\ Running /\ state.predictions # None =>
              /\ state.predictions = models
              /\ checkpointFile # None /\ checkpointFile.models = models
        /\ step # "state" /\ stateFile # None /\ stateFile.predictions # None =>
              stateFile.predictions = checkpointFile.models

IInv ==
    /\ TypeOK
    /\ MemoryInv
    /\ FilesInv
    /\ RecordedInv
    /\ ResultsAtHand
    /\ BatchesAtHand
    /\ PredictionsArePinned
    /\ CompletedIsPublished

-----------------------------------------------------------------------------
LEMMA InitIInv == ASSUME Init PROVE IInv
<1>1. Validated \in Stages /\ 0 \in 0..MaxInterruptions
  BY RunAssumption DEF Stages, Validated, Delivery
<1>2. TypeOK
  BY <1>1 DEF Init, TypeOK
<1>3. MemoryInv /\ FilesInv /\ RecordedInv /\ ResultsAtHand /\ BatchesAtHand
  BY DEF Init, MemoryInv, FilesInv, RecordedInv, ResultsAtHand, BatchesAtHand, Running
<1>4. PredictionsArePinned /\ CompletedIsPublished
  BY DEF Init, PredictionsArePinned, CompletedIsPublished, Running
<1> QED BY <1>2, <1>3, <1>4 DEF IInv

(* What record_checkpoint changes of a run state, and what it keeps. *)
LEMMA RecordKeeps ==
    ASSUME models \in ModelSets, NEW s \in RunStates, NEW last \in Stages,
           NEW feat \in Schemas \cup {None}, NEW manifest \in ModelSets \cup {None}
    PROVE  /\ Record(s, last, feat, manifest) \in RunStates
           /\ Record(s, last, feat, manifest).predictions = s.predictions
           /\ Record(s, last, feat, manifest).checkpoint.models = models
           /\ Record(s, last, feat, manifest).checkpoint.manifest =
                 IF manifest = None THEN s.checkpoint.manifest ELSE manifest
           /\ Record(s, last, feat, manifest).checkpoint.status = "completed" => last = Delivery
<1> DEFINE old == s.checkpoint
           new == [last |-> last, models |-> models, prep |-> old.prep \/ last = Prep,
                   feat |-> IF feat = None THEN old.feat ELSE feat,
                   manifest |-> IF manifest = None THEN old.manifest ELSE manifest,
                   status |-> IF last = Delivery THEN "completed" ELSE "resumable"]
<1>1. old \in Checkpoints
  BY DEF RunStates
<1>2. new \in Checkpoints
  BY <1>1 DEF Checkpoints
<1>3. Record(s, last, feat, manifest) = [s EXCEPT !.checkpoint = new]
  BY DEF Record
<1>4. [s EXCEPT !.checkpoint = new] \in RunStates
  BY <1>2 DEF RunStates
<1>5. [s EXCEPT !.checkpoint = new].checkpoint = new
      /\ [s EXCEPT !.checkpoint = new].predictions = s.predictions
  BY DEF RunStates
<1> QED BY <1>3, <1>4, <1>5

LEMMA ReconciledKeeps ==
    ASSUME NEW chk \in Checkpoints, NEW m \in ModelSets
    PROVE  Reconciled(chk, m) \in Checkpoints
<1>1. CASE chk.models = m
  BY <1>1 DEF Reconciled
<1>2. Prep \in Stages /\ Feature \in Stages
  BY DEF Stages, Validated, Prep, Feature, Delivery
<1>3. [chk EXCEPT !.models = m, !.manifest = None, !.feat = None, !.last = Prep] \in Checkpoints
  BY <1>2 DEF Checkpoints
<1>4. ASSUME NEW last \in Stages
      PROVE  [chk EXCEPT !.models = m, !.manifest = None, !.last = last] \in Checkpoints
  BY DEF Checkpoints
<1>5. (IF chk.last > Feature THEN Feature ELSE chk.last) \in Stages
  BY <1>2 DEF Checkpoints
<1> QED BY <1>1, <1>3, <1>4, <1>5 DEF Reconciled

LEMMA StageFacts ==
    /\ Stages = 0..5
    /\ Validated = 0 /\ Prep = 1 /\ Feature = 2 /\ Prediction = 3 /\ Batch = 4 /\ Delivery = 5
BY DEF Stages, Validated, Prep, Feature, Prediction, Batch, Delivery

LEMMA ResumeStageType ==
    ASSUME NEW chk, NEW predictions
    PROVE  /\ ResumeStage(chk, predictions) \in Stages
           /\ ResumeStage(chk, predictions) >= Batch => predictions # None
BY StageFacts DEF ResumeStage

(* What a resumption has in memory: the run state of the file, with the    *)
(* predictions only if the model set has not changed.                      *)
LEMMA ResumeKeeps ==
    ASSUME TypeOK, FilesInv, Resume
    PROVE  /\ loaded' \in Checkpoints
           /\ state' \in RunStates
           /\ state'.predictions =
                 IF checkpointFile.models = active THEN stateFile.predictions ELSE None
           /\ resumedFrom' \in Stages
           /\ resumedFrom' >= Batch => state'.predictions # None
           /\ stage' \in {Prep, Feature}
           /\ step' = "work"
<1> DEFINE kept == IF checkpointFile.models = active THEN stateFile.predictions ELSE None
<1>1. checkpointFile \in Checkpoints /\ stateFile \in RunStates
  BY DEF TypeOK, FilesInv, Resume, Resumable
<1>2. /\ loaded' = Reconciled(checkpointFile, active)
      /\ state' = [stateFile EXCEPT !.status = "running", !.predictions = kept]
      /\ resumedFrom' = ResumeStage(loaded', kept)
  BY DEF Resume
<1>3. loaded' \in Checkpoints
  BY <1>1, <1>2, ReconciledKeeps DEF TypeOK
<1>4. kept \in ModelSets \cup {None}
  BY <1>1 DEF RunStates
<1>5. state' \in RunStates /\ state'.predictions = kept
  BY <1>1, <1>2, <1>4 DEF RunStates
<1>6. resumedFrom' \in Stages /\ (resumedFrom' >= Batch => kept # None)
  BY <1>2, ResumeStageType
<1>7. stage' \in {Prep, Feature} /\ step' = "work"
  BY DEF Resume
<1> QED BY <1>3, <1>5, <1>6, <1>7

LEMMA FreshKeeps ==
    ASSUME TypeOK, StartFresh
    PROVE  /\ loaded' = None
           /\ state' \in RunStates
           /\ state'.predictions = None
           /\ state'.checkpoint.models = active
           /\ state'.checkpoint.status = "resumable"
           /\ resumedFrom' = Validated
           /\ stage' = Validated
           /\ step' = "checkpoint"
<1>1. [last |-> Validated, models |-> active, prep |-> FALSE, feat |-> None,
       manifest |-> None, status |-> "resumable"] \in Checkpoints
  BY StageFacts DEF TypeOK, Checkpoints
<1> QED BY <1>1 DEF StartFresh, RunStates

LEMMA BeginKeeps ==
    ASSUME IInv, Begin
    PROVE  IInv'
<1> USE DEF IInv
<1>1. models' = active /\ active \in ModelSets /\ step = "idle"
  BY DEF Begin, TypeOK
<1>2. UNCHANGED <<active, checkpointFile, stateFile, staged, outbox, features, results, batches,
                  interruptions, torn>>
  BY DEF Begin, disk, history
<1>3. results = None /\ batches = None
  BY <1>1 DEF MemoryInv, Running
<1>4. CASE Resume
  <2>1. stage' \in Stages /\ step' = "work" /\ ~(stage' > Feature)
    BY <1>4, ResumeKeeps, StageFacts
  <2>2. TypeOK'
    BY <1>1, <1>2, <1>4, <2>1, ResumeKeeps DEF TypeOK
  <2>3. stateFile # None /\ checkpointFile # None
    BY <1>4 DEF Resume, Resumable, FilesInv
  <2>4. MemoryInv' /\ FilesInv' /\ RecordedInv' /\ ResultsAtHand' /\ BatchesAtHand'
    BY <1>1, <1>2, <1>3, <1>4, <2>1, <2>3, ResumeKeeps, StageFacts
       DEF MemoryInv, FilesInv, RecordedInv, ResultsAtHand, BatchesAtHand, Running
  <2>5. PredictionsArePinned'
    BY <1>1, <1>2, <1>3, <1>4, <2>1, <2>3, ResumeKeeps DEF PredictionsArePinned, Running
  <2>6. CompletedIsPublished'
    BY <1>2 DEF CompletedIsPublished
  <2> QED BY <2>2, <2>4, <2>5, <2>6
<1>5. CASE StartFresh
  <2>1. TypeOK'
    BY <1>1, <1>2, <1>5, FreshKeeps, StageFacts DEF TypeOK
  <2>2. MemoryInv' /\ FilesInv' /\ RecordedInv' /\ ResultsAtHand' /\ BatchesAtHand'
    BY <1>1, <1>2, <1>3, <1>5, FreshKeeps, StageFacts
       DEF MemoryInv, FilesInv, RecordedInv, ResultsAtHand, BatchesAtHand, Running
  <2>3. PredictionsArePinned' /\ CompletedIsPublished'
    BY <1>1, <1>2, <1>3, <1>5, FreshKeeps
       DEF PredictionsArePinned, CompletedIsPublished, Running
  <2> QED BY <2>1, <2>2, <2>3
<1> QED BY <1>4, <1>5 DEF Begin

-----------------------------------------------------------------------------
(* The stages. *)

LEMMA PreprocessKeeps ==
    ASSUME IInv, Preprocess
    PROVE  IInv'
<1> USE DEF IInv
<1>1. /\ stage = Prep /\ step = "work" /\ step' = "checkpoint"
      /\ models \in ModelSets /\ state \in RunStates
      /\ state' = Record(state, Prep, None, None)
  BY DEF Preprocess, MemoryInv, Running
<1>2. UNCHANGED <<active, checkpointFile, stateFile, staged, outbox, stage, models, loaded,
                  resumedFrom, features, results, batches, interruptions, torn>>
  BY DEF Preprocess, disk, history
<1>3. /\ state' \in RunStates
      /\ state'.predictions = state.predictions
      /\ state'.checkpoint.models = models
      /\ state'.checkpoint.status # "completed"
  BY <1>1, RecordKeeps, StageFacts
<1>4. TypeOK'
  BY <1>1, <1>2, <1>3 DEF TypeOK
<1>5. MemoryInv' /\ FilesInv' /\ RecordedInv' /\ ResultsAtHand' /\ BatchesAtHand'
  BY <1>1, <1>2, <1>3, StageFacts
     DEF MemoryInv, FilesInv, RecordedInv, ResultsAtHand, BatchesAtHand, Running
<1>6. PredictionsArePinned' /\ CompletedIsPublished'
  BY <1>1, <1>2, <1>3 DEF PredictionsArePinned, CompletedIsPublished, Running
<1> QED BY <1>4, <1>5, <1>6

LEMMA BuildFeaturesKeeps ==
    ASSUME IInv, BuildFeatures
    PROVE  IInv'
<1> USE DEF IInv
<1> DEFINE s == [state EXCEPT !.featureRunning = resumedFrom >= Prediction]
<1>1. /\ stage = Feature /\ step = "work" /\ step' = "checkpoint"
      /\ models \in ModelSets /\ state \in RunStates
      /\ state' = Record(s, Feature, features', None)
  BY DEF BuildFeatures, MemoryInv, Running
<1>2. UNCHANGED <<active, checkpointFile, stateFile, staged, outbox, stage, models, loaded,
                  resumedFrom, results, batches, interruptions, torn>>
  BY DEF BuildFeatures, disk, history
<1>3. features' \in Schemas \cup {None}
  <2>1. loaded # None => loaded.feat \in Schemas \cup {None}
    BY DEF TypeOK, Checkpoints
  <2>2. SchemaOf[models] \in Schemas
    BY <1>1 DEF Schemas
  <2> QED BY <2>1, <2>2 DEF BuildFeatures
<1>4. (resumedFrom >= Prediction) \in BOOLEAN
  BY StageFacts DEF TypeOK
<1>5. s \in RunStates /\ s.predictions = state.predictions
  BY <1>1, <1>4 DEF RunStates
<1>6. /\ state' \in RunStates
      /\ state'.predictions = state.predictions
      /\ state'.checkpoint.models = models
      /\ state'.checkpoint.status # "completed"
  <2>1. Feature \in Stages /\ Feature # Delivery
    BY StageFacts
  <2> HIDE DEF s
  <2> QED BY <1>1, <1>3, <1>5, <2>1, RecordKeeps
<1>7. TypeOK'
  BY <1>1, <1>2, <1>3, <1>6 DEF TypeOK
<1>8. MemoryInv' /\ FilesInv' /\ RecordedInv' /\ ResultsAtHand' /\ BatchesAtHand'
  BY <1>1, <1>2, <1>6, StageFacts
     DEF MemoryInv, FilesInv, RecordedInv, ResultsAtHand, BatchesAtHand, Running
<1>9. PredictionsArePinned' /\ CompletedIsPublished'
  BY <1>1, <1>2, <1>6 DEF PredictionsArePinned, CompletedIsPublished, Running
<1> QED BY <1>7, <1>8, <1>9

(* Predictions that are used again are those the resumption has kept. *)
LEMMA ReusePredictionsKeeps ==
    ASSUME IInv, ReusePredictions
    PROVE  IInv'
<1> USE DEF IInv
<1>1. /\ stage = Prediction /\ step = "work" /\ stage' = Batch
      /\ models \in ModelSets /\ state \in RunStates
      /\ results' = state.predictions
  BY DEF ReusePredictions, MemoryInv, Running
<1>2. UNCHANGED <<active, checkpointFile, stateFile, staged, outbox, step, models, loaded,
                  resumedFrom, state, features, batches, interruptions, torn>>
  BY DEF ReusePredictions, disk, history
<1>3. results' \in ModelSets
  BY <1>1 DEF ReusePredictions, Reuse, ResultsAtHand, Running, RunStates
<1>4. TypeOK'
  BY <1>1, <1>2, <1>3, StageFacts DEF TypeOK
<1>5. results' # None
  BY <1>3, RunAssumption
<1>6. MemoryInv' /\ FilesInv' /\ RecordedInv' /\ ResultsAtHand' /\ BatchesAtHand'
  BY <1>1, <1>2, <1>5, StageFacts
     DEF MemoryInv, FilesInv, RecordedInv, ResultsAtHand, BatchesAtHand, Running
<1>7. PredictionsArePinned' /\ CompletedIsPublished'
  BY <1>1, <1>2, <1>5 DEF PredictionsArePinned, CompletedIsPublished, Running
<1> QED BY <1>4, <1>6, <1>7

LEMMA PredictKeeps ==
    ASSUME IInv, Predict
    PROVE  IInv'
<1> USE DEF IInv
<1>1. /\ stage = Prediction /\ step = "work" /\ step' = "checkpoint"
      /\ models \in ModelSets /\ state \in RunStates
      /\ results' = models
      /\ state' = Record(state, Prediction, None, None)
  BY DEF Predict, MemoryInv, Running
<1>2. UNCHANGED <<active, checkpointFile, stateFile, staged, outbox, stage, models, loaded,
                  resumedFrom, features, batches, interruptions, torn>>
  BY DEF Predict, disk, history
<1>3. /\ state' \in RunStates
      /\ state'.predictions = state.predictions
      /\ state'.checkpoint.models = models
      /\ state'.checkpoint.status # "completed"
  BY <1>1, RecordKeeps, StageFacts
<1>4. TypeOK'
  BY <1>1, <1>2, <1>3 DEF TypeOK
<1>5. results' # None
  BY <1>1, RunAssumption
<1>6. MemoryInv' /\ FilesInv' /\ RecordedInv' /\ ResultsAtHand' /\ BatchesAtHand'
  BY <1>1, <1>2, <1>3, <1>5, StageFacts
     DEF MemoryInv, FilesInv, RecordedInv, ResultsAtHand, BatchesAtHand, Running
<1>7. PredictionsArePinned' /\ CompletedIsPublished'
  BY <1>1, <1>2, <1>3 DEF PredictionsArePinned, CompletedIsPublished, Running
<1> QED BY <1>4, <1>6, <1>7

(* Whatever is staged, recomputed or reloaded, is what the checkpoint names. *)
LEMMA BuildBatchesKeeps ==
    ASSUME IInv, BuildBatches
    PROVE  IInv'
<1> USE DEF IInv
<1> DEFINE s == IF Reload THEN state ELSE [state EXCEPT !.predictions = results]
<1>1. /\ stage = Batch /\ step = "work" /\ step' = "checkpoint"
      /\ models \in ModelSets /\ state \in RunStates
      /\ results # None /\ results \in ModelSets
      /\ staged' = batches'
      /\ state' = Record(s, Batch, None, batches')
  BY StageFacts DEF BuildBatches, MemoryInv, ResultsAtHand, Running, TypeOK
<1>2. UNCHANGED <<active, checkpointFile, stateFile, outbox, stage, models, loaded,
                  resumedFrom, features, results, interruptions, torn>>
  BY DEF BuildBatches, disk, history
<1>3. batches' \in ModelSets /\ batches' # None
  BY <1>1, RunAssumption DEF BuildBatches, Reload, Valid, TypeOK
<1>4. /\ s \in RunStates
      /\ s.predictions = state.predictions \/ s.predictions = results
      /\ state.predictions # None => s.predictions # None
  BY <1>1 DEF RunStates
<1>5. /\ state' \in RunStates
      /\ state'.predictions = s.predictions
      /\ state'.checkpoint.models = models
      /\ state'.checkpoint.manifest = batches'
      /\ state'.checkpoint.status # "completed"
  <2>1. Batch \in Stages /\ Batch # Delivery
    BY StageFacts
  <2>2. None \in Schemas \cup {None} /\ batches' \in ModelSets \cup {None}
    BY <1>3
  <2>3. s \in RunStates /\ models \in ModelSets /\ state' = Record(s, Batch, None, batches')
    BY <1>1, <1>4
  <2> HIDE DEF s
  <2> QED BY <1>3, <2>1, <2>2, <2>3, RecordKeeps
<1> HIDE DEF s
<1>6. TypeOK'
  BY <1>1, <1>2, <1>3, <1>5 DEF TypeOK
<1>7. MemoryInv' /\ FilesInv' /\ RecordedInv' /\ ResultsAtHand' /\ BatchesAtHand'
  BY <1>1, <1>2, <1>3, <1>4, <1>5, StageFacts
     DEF MemoryInv, FilesInv, RecordedInv, ResultsAtHand, BatchesAtHand, Running
<1>8. checkpointFile # None /\ checkpointFile.models = models
  BY <1>1, StageFacts DEF FilesInv, Running
<1>9. PredictionsArePinned' /\ CompletedIsPublished'
  BY <1>1, <1>2, <1>4, <1>5, <1>8 DEF PredictionsArePinned, CompletedIsPublished, Running
<1> QED BY <1>6, <1>7, <1>9

LEMMA DeliverKeeps ==
    ASSUME IInv, Deliver
    PROVE  IInv'
<1> USE DEF IInv
<1>1. /\ stage = Delivery /\ step = "work" /\ step' = "checkpoint"
      /\ models \in ModelSets /\ state \in RunStates
      /\ batches # None /\ state.checkpoint.manifest = batches
      /\ outbox' = outbox \cup {batches}
      /\ state' = Record(state, Delivery, None, None)
  BY DEF Deliver, MemoryInv, BatchesAtHand, Running
<1>2. UNCHANGED <<active, checkpointFile, stateFile, staged, stage, models, loaded,
                  resumedFrom, features, results, batches, interruptions, torn>>
  BY DEF Deliver, history
<1>3. /\ state' \in RunStates
      /\ state'.predictions = state.predictions
      /\ state'.checkpoint.models = models
      /\ state'.checkpoint.manifest = batches
  BY <1>1, RecordKeeps, StageFacts
<1>4. TypeOK'
  BY <1>1, <1>2, <1>3 DEF TypeOK
<1>5. MemoryInv' /\ FilesInv' /\ RecordedInv' /\ ResultsAtHand' /\ BatchesAtHand'
  BY <1>1, <1>2, <1>3, StageFacts
     DEF MemoryInv, FilesInv, RecordedInv, ResultsAtHand, BatchesAtHand, Running
<1>6. PredictionsArePinned' /\ CompletedIsPublished'
  BY <1>1, <1>2, <1>3 DEF PredictionsArePinned, CompletedIsPublished, Running
<1> QED BY <1>4, <1>5, <1>6

-----------------------------------------------------------------------------
(* The two files of a checkpoint. *)

LEMMA SaveCheckpointKeeps ==
    ASSUME IInv, SaveCheckpoint
    PROVE  IInv'
<1> USE DEF IInv
<1>1. /\ step = "checkpoint" /\ step' = "state"
      /\ models \in ModelSets /\ state \in RunStates
      /\ checkpointFile' = state.checkpoint
  BY DEF SaveCheckpoint, MemoryInv, Running
<1>2. UNCHANGED <<active, outbox, stage, models, loaded, resumedFrom, state, features,
                  results, batches, interruptions, torn>>
  BY DEF SaveCheckpoint, history
<1>3. stateFile' \in {stateFile, None} /\ staged' \in {staged, None}
  BY DEF SaveCheckpoint
<1>4. state.checkpoint \in Checkpoints /\ state.checkpoint.models = models
  BY <1>1 DEF RunStates, RecordedInv
<1>5. state.checkpoint # None
  BY <1>4, NoneAssumption
<1>6. TypeOK'
  BY <1>1, <1>2, <1>3, <1>4 DEF TypeOK
<1>7. MemoryInv' /\ FilesInv' /\ RecordedInv' /\ ResultsAtHand' /\ BatchesAtHand'
  BY <1>1, <1>2, <1>3, <1>4, <1>5, StageFacts
     DEF MemoryInv, FilesInv, RecordedInv, ResultsAtHand, BatchesAtHand, Running
<1>8. PredictionsArePinned'
  BY <1>1, <1>2, <1>3, <1>4, <1>5 DEF PredictionsArePinned, Running
<1>9. CompletedIsPublished'
  BY <1>1, <1>2 DEF CompletedIsPublished, RecordedInv
<1> QED BY <1>6, <1>7, <1>8, <1>9

(* The run state is saved with predictions of the models that the          *)
(* checkpoint file names already.                                          *)
LEMMA SaveStateKeeps ==
    ASSUME IInv, SaveState
    PROVE  IInv'
<1> USE DEF IInv
<1>1. /\ step = "state" /\ step' = "work" /\ stage # Delivery /\ stage' = stage + 1
      /\ models \in ModelSets /\ state \in RunStates /\ state # None
      /\ stateFile' = state
  BY NoneAssumption DEF SaveState, MemoryInv, Running
<1>2. UNCHANGED <<active, checkpointFile, staged, outbox, models, loaded, resumedFrom, state,
                  features, results, batches, interruptions, torn>>
  BY DEF SaveState, history
<1>3. /\ checkpointFile = state.checkpoint
      /\ state.checkpoint \in Checkpoints /\ state.checkpoint.models = models
  BY <1>1 DEF FilesInv, RecordedInv, RunStates
<1>4. checkpointFile # None
  BY <1>3, NoneAssumption
<1>5. stage \in 0..4 /\ stage' \in Stages
  BY <1>1, StageFacts DEF TypeOK
<1>6. TypeOK'
  BY <1>1, <1>2, <1>5 DEF TypeOK
<1>7. stage' >= Batch => results # None
  <2>1. CASE stage >= Batch
    BY <1>1, <2>1 DEF ResultsAtHand, Running
  <2>2. CASE stage = Prediction
    BY <1>1, <2>2 DEF ResultsAtHand, Running
  <2> QED BY <1>1, <1>5, <2>1, <2>2, StageFacts
<1>8. MemoryInv' /\ FilesInv' /\ RecordedInv' /\ ResultsAtHand'
  BY <1>1, <1>2, <1>3, <1>4, <1>7, StageFacts
     DEF MemoryInv, FilesInv, RecordedInv, ResultsAtHand, Running
<1>9. BatchesAtHand'
  BY <1>1, <1>2, <1>5, StageFacts DEF BatchesAtHand, Running
<1>10. PredictionsArePinned'
  BY <1>1, <1>2, <1>3, <1>4 DEF PredictionsArePinned, Running
<1>11. CompletedIsPublished'
  BY <1>2 DEF CompletedIsPublished
<1> QED BY <1>6, <1>8, <1>9, <1>10, <1>11

(* The execution is over: what it leaves is in the files. *)
LEMMA FinishKeeps ==
    ASSUME IInv, Finish
    PROVE  IInv'
<1> USE DEF IInv
<1> DEFINE s == [state EXCEPT !.status = "succeeded"]
<1>1. /\ step = "state" /\ step' = "idle" /\ state \in RunStates
      /\ stateFile' = s
      /\ stage' = Validated /\ models' = None /\ loaded' = None /\ resumedFrom' = Validated
      /\ state' = None /\ features' = None /\ results' = None /\ batches' = None
      /\ staged' = None
  BY DEF Finish, Forget, MemoryInv, Running
<1>2. UNCHANGED <<active, checkpointFile, outbox, interruptions, torn>>
  BY DEF Finish, history
<1>3. s \in RunStates /\ s.predictions = state.predictions
  BY <1>1 DEF RunStates
<1>4. checkpointFile # None /\ checkpointFile.models = models
  BY <1>1, NoneAssumption DEF FilesInv, RecordedInv, RunStates
<1>5. TypeOK'
  BY <1>1, <1>2, <1>3, StageFacts DEF TypeOK
<1>6. MemoryInv' /\ FilesInv' /\ RecordedInv' /\ ResultsAtHand' /\ BatchesAtHand'
  BY <1>1, <1>2, <1>4
     DEF MemoryInv, FilesInv, RecordedInv, ResultsAtHand, BatchesAtHand, Running
<1>7. PredictionsArePinned' /\ CompletedIsPublished'
  BY <1>1, <1>2, <1>3, <1>4 DEF PredictionsArePinned, CompletedIsPublished, Running
<1> QED BY <1>5, <1>6, <1>7

-----------------------------------------------------------------------------
LEMMA FailKeeps ==
    ASSUME IInv, Fail
    PROVE  IInv'
<1> USE DEF IInv
<1>1. PICK kept \in {state.predictions} \cup (IF Staging THEN {results} ELSE {}) :
        stateFile' = [state EXCEPT !.status = "failed", !.predictions = kept]
  BY DEF Fail
<1>2. /\ step = "work" /\ step' = "idle" /\ state \in RunStates /\ torn' = torn
      /\ stage' = Validated /\ models' = None /\ loaded' = None /\ resumedFrom' = Validated
      /\ state' = None /\ features' = None /\ results' = None /\ batches' = None
  BY DEF Fail, CanFail, Interrupt, Forget, MemoryInv, Running, TypeOK
<1>3. UNCHANGED <<active, checkpointFile, outbox>>
  BY DEF Fail, Interrupt
<1>4. interruptions' \in 0..MaxInterruptions
  BY RunAssumption DEF Fail, Interrupt, TypeOK
<1>5. staged' \in ModelSets \cup {None}
  BY DEF Fail, LeavesStaged, TypeOK
<1>6. /\ stateFile' \in RunStates
      /\ stateFile'.predictions = kept
  <2>1. kept \in ModelSets \cup {None}
    BY <1>1, <1>2 DEF RunStates, TypeOK
  <2> QED BY <1>1, <1>2, <2>1 DEF RunStates
<1>7. checkpointFile # None
  BY <1>2 DEF FilesInv
<1>8. TypeOK'
  BY <1>2, <1>3, <1>4, <1>5, <1>6, StageFacts DEF TypeOK
<1>9. MemoryInv' /\ FilesInv' /\ RecordedInv' /\ ResultsAtHand' /\ BatchesAtHand'
  BY <1>2, <1>3, <1>7
     DEF MemoryInv, FilesInv, RecordedInv, ResultsAtHand, BatchesAtHand, Running
<1>10. ~torn /\ kept # None => kept = models /\ checkpointFile.models = models
  <2>1. CASE kept = state.predictions
    BY <1>2, <2>1 DEF PredictionsArePinned, Running
  <2>2. CASE Staging /\ kept = results
    <3>1. checkpointFile.models = models
      BY <1>2, <2>2, StageFacts DEF FilesInv, Staging, Running
    <3> QED BY <2>2, <3>1 DEF PredictionsArePinned
  <2> QED BY <1>1, <2>1, <2>2
<1>11. PredictionsArePinned' /\ CompletedIsPublished'
  BY <1>2, <1>3, <1>6, <1>10 DEF PredictionsArePinned, CompletedIsPublished, Running
<1> QED BY <1>8, <1>9, <1>11

(* A crash between the two files tears the checkpoint; any other leaves    *)
(* files that belong together.                                             *)
LEMMA CrashKeeps ==
    ASSUME IInv, Crash
    PROVE  IInv'
<1> USE DEF IInv
<1>1. /\ step # "idle" /\ step' = "idle" /\ torn' = (torn \/ step = "state")
      /\ stage' = Validated /\ models' = None /\ loaded' = None /\ resumedFrom' = Validated
      /\ state' = None /\ features' = None /\ results' = None /\ batches' = None
  BY DEF Crash, Interrupt, Forget
<1>2. UNCHANGED <<active, checkpointFile, stateFile, outbox>>
  BY DEF Crash, Interrupt
<1>3. interruptions' \in 0..MaxInterruptions
  BY RunAssumption DEF Crash, Interrupt, TypeOK
<1>4. staged' \in ModelSets \cup {None}
  BY DEF Crash, LeavesStaged, TypeOK
<1>5. TypeOK'
  BY <1>1, <1>2, <1>3, <1>4, StageFacts DEF TypeOK
<1>6. MemoryInv' /\ FilesInv' /\ RecordedInv' /\ ResultsAtHand' /\ BatchesAtHand'
  BY <1>1, <1>2 DEF MemoryInv, FilesInv, RecordedInv, ResultsAtHand, BatchesAtHand, Running
<1>7. PredictionsArePinned' /\ CompletedIsPublished'
  BY <1>1, <1>2 DEF PredictionsArePinned, CompletedIsPublished, Running
<1> QED BY <1>5, <1>6, <1>7

LEMMA RefuseFeaturesKeeps ==
    ASSUME IInv, RefuseFeatures
    PROVE  IInv'
<1> USE DEF IInv
<1>1. /\ step = "work" /\ step' = "idle"
      /\ stage' = Validated /\ models' = None /\ loaded' = None /\ resumedFrom' = Validated
      /\ state' = None /\ features' = None /\ results' = None /\ batches' = None
  BY DEF RefuseFeatures, Forget
<1>2. UNCHANGED <<active, checkpointFile, stateFile, staged, outbox, interruptions, torn>>
  BY DEF RefuseFeatures, disk, history
<1>3. TypeOK'
  BY <1>1, <1>2, StageFacts DEF TypeOK
<1>4. MemoryInv' /\ FilesInv' /\ RecordedInv' /\ ResultsAtHand' /\ BatchesAtHand'
  BY <1>1, <1>2 DEF MemoryInv, FilesInv, RecordedInv, ResultsAtHand, BatchesAtHand, Running
<1>5. PredictionsArePinned' /\ CompletedIsPublished'
  BY <1>1, <1>2 DEF PredictionsArePinned, CompletedIsPublished, Running
<1> QED BY <1>3, <1>4, <1>5

LEMMA ActivateKeeps ==
    ASSUME IInv, NEW m \in ModelSets, Activate(m)
    PROVE  IInv'
<1> USE DEF IInv
<1>1. active' \in ModelSets
      /\ UNCHANGED <<checkpointFile, stateFile, staged, outbox, stage, step, models, loaded,
                     resumedFrom, state, features, results, batches, interruptions, torn>>
  BY DEF Activate, disk, history
<1>2. TypeOK'
  BY <1>1 DEF TypeOK
<1>3. MemoryInv' /\ FilesInv' /\ RecordedInv' /\ ResultsAtHand' /\ BatchesAtHand'
  BY <1>1 DEF MemoryInv, FilesInv, RecordedInv, ResultsAtHand, BatchesAtHand, Running
<1>4. PredictionsArePinned' /\ CompletedIsPublished'
  BY <1>1 DEF PredictionsArePinned, CompletedIsPublished, Running
<1> QED BY <1>2, <1>3, <1>4

LEMMA StutterKeeps ==
    ASSUME IInv, UNCHANGED vars
    PROVE  IInv'
<1> USE DEF IInv
<1>1. UNCHANGED <<active, checkpointFile, stateFile, staged, outbox, stage, step, models,
                  loaded, resumedFrom, state, features, results, batches, interruptions, torn>>
  BY DEF vars
<1>2. TypeOK'
  BY <1>1 DEF TypeOK
<1>3. MemoryInv' /\ FilesInv' /\ RecordedInv' /\ ResultsAtHand' /\ BatchesAtHand'
  BY <1>1 DEF MemoryInv, FilesInv, RecordedInv, ResultsAtHand, BatchesAtHand, Running
<1>4. PredictionsArePinned' /\ CompletedIsPublished'
  BY <1>1 DEF PredictionsArePinned, CompletedIsPublished, Running
<1> QED BY <1>2, <1>3, <1>4

-----------------------------------------------------------------------------
THEOREM RunInvariant == Spec => []IInv
<1>1. ASSUME IInv, [Next]_vars PROVE IInv'
  BY <1>1, BeginKeeps, PreprocessKeeps, BuildFeaturesKeeps, RefuseFeaturesKeeps,
     ReusePredictionsKeeps, PredictKeeps, BuildBatchesKeeps, DeliverKeeps, SaveCheckpointKeeps,
     SaveStateKeeps, FinishKeeps, FailKeeps, CrashKeeps, ActivateKeeps, StutterKeeps
     DEF Next, Execution
<1> QED BY <1>1, InitIInv, PTL DEF Spec

(* The state of a run keeps its types for any model sets and any number of *)
(* interruptions.                                                          *)
THEOREM RunTypeCorrect == Spec => []TypeOK
<1>1. IInv => TypeOK
  BY DEF IInv
<1> QED BY <1>1, RunInvariant, PTL

(* Predictions used again after any interruptions, under whichever models  *)
(* are active then, are those of the pinned model set unless a crash fell  *)
(* between the two files of a checkpoint.                                  *)
THEOREM RunResultsArePinnedUnlessTorn == Spec => []ResultsArePinnedUnlessTorn
<1>1. IInv => ResultsArePinnedUnlessTorn
  BY DEF IInv, PredictionsArePinned, ResultsArePinnedUnlessTorn
<1> QED BY <1>1, RunInvariant, PTL

(* A completed checkpoint names batches that are published, also if a      *)
(* crash left the two files of some checkpoint apart.                      *)
THEOREM RunCompletedIsPublished == Spec => []CompletedIsPublished
<1>1. IInv => CompletedIsPublished
  BY DEF IInv
<1> QED BY <1>1, RunInvariant, PTL
=============================================================================
