--------------------------- MODULE PredictionDelivery ---------------------------
(***************************************************************************)
(* The delivery of one source's prediction batches from the Generator to   *)
(* the Backend: stage 5 of the pipeline service registers one outbox file  *)
(* per batch (pipeline_service.py, prediction_delivery_service.py), a      *)
(* second thread posts them (prediction_delivery_worker.py) over a network *)
(* that may lose or delay anything, and the Backend stores and promotes    *)
(* what it receives (runtime_router.py, diagnosis_runtime_repository.py).  *)
(*                                                                         *)
(* Both threads write the run state file: the worker updates one event of  *)
(* it under a lock, the pipeline saves the whole of it from memory.  A     *)
(* file write is atomic (rename), and is one action.  event_id is a hash   *)
(* of the batch without run_id and emitted_at, so the batch names it.      *)
(***************************************************************************)
EXTENDS Naturals

CONSTANTS
    Batches,      \* the batches of the source, one per equipment
    NoBatch,      \* what an idle worker holds
    MaxAttempts,  \* max_attempts of an outbox item
    Slots,        \* bound: requests in flight at once
    NoSlot,       \* the worker has no request open
    MaxRuns,      \* bound: runs started for the source
    MaxCrashes    \* bound: how often the Generator dies

ASSUME DeliveryAssumption ==
    /\ NoBatch \notin Batches
    /\ NoSlot \notin Slots
    /\ MaxAttempts \in Nat \ {0}
    /\ MaxRuns \in Nat \ {0}
    /\ MaxCrashes \in Nat

VARIABLES
    item,       \* item[b]: status of the outbox file, "absent" if there is none
    attempt,    \* attempt[b]
    due,        \* due[b]: next_retry_at <= now
    itemRun,    \* itemRun[b]: run_id of the outbox file
    up,         \* the Generator process is running
    worker,     \* where the delivery worker is in process_item
    held,       \* the batch it holds
    call,       \* the slot of the request it waits for
    stage,      \* where the pipeline is in execute_queue_item
    todo,       \* batches it has still to register
    memory,     \* prediction_events of the run state it holds in memory
    run,        \* the last run started
    checkpoint, \* checkpoint[n]: status in the checkpoint file of run n
    runEvents,  \* runEvents[n][b]: prediction_events in the run state file
    jobDone,    \* the queue item is marked succeeded
    request,    \* request[s]: a request in flight and how far it got
    known,      \* batches whose assets the Backend's workspace has
    inbox,      \* inbox[b]: validation_status stored for the batch
    promoted,   \* batches with a product result
    crashes     \* how often the Generator has died

outbox == <<item, attempt, due, itemRun>>
workerVars == <<worker, held, call>>
pipeline == <<stage, todo, memory, run, checkpoint, jobDone>>
backend == <<known, inbox, promoted>>
vars == <<item, attempt, due, itemRun, up, worker, held, call, stage, todo, memory, run,
          checkpoint, runEvents, jobDone, request, known, inbox, promoted, crashes>>

Runs == 1..MaxRuns
ItemStatuses == {"absent", "pending", "sending", "retry_wait", "sent", "failed"}
Settled == {"sent", "failed"}
Places == {"free", "posted", "received", "answered"}
Answers == {"none", "accepted", "duplicate", "rejected", "error", "refused"}
Requests == [at : Places, batch : Batches \cup {NoBatch}, answer : Answers]
Empty == [at |-> "free", batch |-> NoBatch, answer |-> "none"]
NoEvents == [b \in Batches |-> "absent"]

Init ==
    /\ item = NoEvents
    /\ attempt = [b \in Batches |-> 0]
    /\ due = [b \in Batches |-> FALSE]
    /\ itemRun = [b \in Batches |-> 1]
    /\ up = TRUE
    /\ worker = "idle" /\ held = NoBatch /\ call = NoSlot
    /\ stage = "idle" /\ todo = {} /\ memory = NoEvents
    /\ run = 0
    /\ checkpoint = [n \in Runs |-> "none"]
    /\ runEvents = [n \in Runs |-> NoEvents]
    /\ jobDone = FALSE
    /\ request = [s \in Slots |-> Empty]
    /\ known = {}
    /\ inbox = [b \in Batches |-> "none"]
    /\ promoted = {}
    /\ crashes = 0

-----------------------------------------------------------------------------
(* The pipeline, stage by stage as far as delivery sees it.                *)

(* find_resumable_run looks at the checkpoint file first: only a run whose *)
(* checkpoint is not completed is resumed, with its events as last saved.  *)
Resumable == run # 0 /\ checkpoint[run] = "resumable"

StartRun ==
    /\ up /\ stage = "idle" /\ ~jobDone
    /\ \/ Resumable /\ memory' = runEvents[run] /\ UNCHANGED <<run, checkpoint>>
       \/ /\ ~Resumable /\ run < MaxRuns
          /\ run' = run + 1
          /\ checkpoint' = [checkpoint EXCEPT ![run + 1] = "resumable"]
          /\ memory' = NoEvents
    /\ stage' = "running"
    /\ UNCHANGED <<outbox, up, workerVars, todo, runEvents, jobDone, request, backend, crashes>>

SaveMemory == runEvents' = [runEvents EXCEPT ![run] = memory]

(* Stages 1 to 4 save the run state at each checkpoint, always with the    *)
(* events the run started with: the last of these saves stands for all.    *)
SaveStages ==
    /\ stage = "running"
    /\ SaveMemory
    /\ stage' = "publishing" /\ todo' = Batches
    /\ UNCHANGED <<outbox, up, workerVars, memory, run, checkpoint, jobDone, request, backend, crashes>>

(* A stage fails: the run state is saved as failed, the job may come back. *)
StageFails ==
    /\ stage = "running"
    /\ SaveMemory /\ memory' = NoEvents
    /\ stage' = "idle"
    /\ UNCHANGED <<outbox, up, workerVars, todo, run, checkpoint, jobDone, request, backend,
                   crashes>>

MutantPublish(b) ==
    /\ stage = "publishing" /\ b \in todo
    /\ todo' = todo \ {b}
    /\ item' = [item EXCEPT ![b] = "pending"]
    /\ itemRun' = [itemRun EXCEPT ![b] = run]
    /\ UNCHANGED <<attempt, due, up, workerVars, stage, memory, run, checkpoint, runEvents,
                   jobDone, request, backend, crashes>>

(* register_idempotent_outbox_record: a batch that has a file keeps it.    *)
Publish(b) ==
    /\ stage = "publishing" /\ b \in todo
    /\ todo' = todo \ {b}
    /\ IF item[b] = "absent"
       THEN /\ item' = [item EXCEPT ![b] = "pending"]
            /\ itemRun' = [itemRun EXCEPT ![b] = run]
       ELSE UNCHANGED <<item, itemRun>>
    /\ UNCHANGED <<attempt, due, up, workerVars, stage, memory, run, checkpoint, runEvents,
                   jobDone, request, backend, crashes>>

(* The source file changed, or a file cannot be written: the exception     *)
(* leaves stage 5 and nothing is saved.                                    *)
PublishRaises ==
    /\ stage = "publishing"
    /\ stage' = "idle" /\ todo' = {} /\ memory' = NoEvents
    /\ UNCHANGED <<outbox, up, workerVars, run, checkpoint, runEvents, jobDone, request, backend,
                   crashes>>

MutantComplete ==
    /\ stage = "publishing"
    /\ memory' = [b \in Batches |-> "pending"]
    /\ checkpoint' = [checkpoint EXCEPT ![run] = "completed"]
    /\ stage' = "completed"
    /\ UNCHANGED <<outbox, up, workerVars, todo, run, runEvents, jobDone, request, backend,
                   crashes>>

(* Checkpoint 5 is written.  In memory every event is pending, also one    *)
(* whose file was already there, whatever its status.                      *)
Complete ==
    /\ stage = "publishing" /\ todo = {}
    /\ memory' = [b \in Batches |-> "pending"]
    /\ checkpoint' = [checkpoint EXCEPT ![run] = "completed"]
    /\ stage' = "completed"
    /\ UNCHANGED <<outbox, up, workerVars, todo, run, runEvents, jobDone, request, backend,
                   crashes>>

(* The run state is saved before the cleanup of intermediate files and     *)
(* again when the run is finished.                                         *)
SaveRun ==
    /\ stage \in {"completed", "cleaning"}
    /\ SaveMemory
    /\ stage' = IF stage = "completed" THEN "cleaning" ELSE "finished"
    /\ UNCHANGED <<outbox, up, workerVars, todo, memory, run, checkpoint, jobDone, request,
                   backend, crashes>>

MarkSucceeded ==
    /\ stage = "finished"
    /\ jobDone' = TRUE
    /\ stage' = "idle" /\ memory' = NoEvents
    /\ UNCHANGED <<outbox, up, workerVars, todo, run, checkpoint, runEvents, request, backend,
                   crashes>>

-----------------------------------------------------------------------------
(* The delivery worker.  It posts the ready items one by one; the order,   *)
(* by creation with the first replay of an event promoted, is left open.   *)

Ready(b) == item[b] = "pending" \/ (item[b] = "retry_wait" /\ due[b])

(* update_prediction_event: read, change and write under one lock. *)
UpdateEvent(b, status) == runEvents' = [runEvents EXCEPT ![itemRun[b]][b] = status]

MarkSending(b) ==
    /\ up /\ worker = "idle" /\ Ready(b)
    /\ item' = [item EXCEPT ![b] = "sending"]
    /\ worker' = "marked" /\ held' = b
    /\ UNCHANGED <<attempt, due, itemRun, up, call, pipeline, runEvents, request, backend, crashes>>

SyncSending ==
    /\ worker = "marked"
    /\ UpdateEvent(held, "sending")
    /\ worker' = "synced"
    /\ UNCHANGED <<outbox, up, held, call, pipeline, request, backend, crashes>>

Post ==
    /\ worker = "synced"
    /\ \E s \in Slots :
        /\ request[s] = Empty
        /\ request' = [request EXCEPT ![s] =
                        [at |-> "posted", batch |-> held, answer |-> "none"]]
        /\ call' = s
    /\ worker' = "waiting"
    /\ UNCHANGED <<outbox, up, held, pipeline, runEvents, backend, crashes>>

Settle(b, status) ==
    /\ item' = [item EXCEPT ![b] = status]
    /\ attempt' = [attempt EXCEPT ![b] = @ + 1]
    /\ due' = [due EXCEPT ![b] = FALSE]
    /\ worker' = "settled" /\ call' = NoSlot

(* A retryable error: wait and try again, until the attempts are used up.  *)
Retry(b) ==
    Settle(b, IF attempt[b] + 1 < MaxAttempts THEN "retry_wait" ELSE "failed")

(* send_once returns or raises: 200 and 202 deliver, 5xx is retryable,     *)
(* 422 and the other 4xx are not.                                          *)
GetAnswer ==
    /\ worker = "waiting" /\ request[call].at = "answered"
    /\ LET answer == request[call].answer IN
        \/ answer \in {"accepted", "duplicate"} /\ Settle(held, "sent")
        \/ answer = "error" /\ Retry(held)
        \/ answer \in {"rejected", "refused"} /\ Settle(held, "failed")
    /\ request' = [request EXCEPT ![call] = Empty]
    /\ UNCHANGED <<itemRun, up, held, pipeline, runEvents, backend, crashes>>

(* No answer in time, or a broken connection: the request may be lost, or  *)
(* still be on its way to the Backend.  (An answer that is lost on its way *)
(* back is one given after the timeout.)                                   *)
Timeout ==
    /\ worker = "waiting" /\ request[call].at # "answered"
    /\ Retry(held)
    /\ UNCHANGED <<itemRun, up, held, pipeline, runEvents, request, backend, crashes>>

SyncSettled ==
    /\ worker = "settled"
    /\ UpdateEvent(held, item[held])
    /\ worker' = "idle" /\ held' = NoBatch
    /\ UNCHANGED <<outbox, up, call, pipeline, request, backend, crashes>>

BecomeDue(b) ==
    /\ item[b] = "retry_wait" /\ ~due[b]
    /\ due' = [due EXCEPT ![b] = TRUE]
    /\ UNCHANGED <<item, attempt, itemRun, up, workerVars, pipeline, runEvents, request, backend,
                   crashes>>

-----------------------------------------------------------------------------
(* The Generator dies and starts again. *)

Crash ==
    /\ up /\ crashes < MaxCrashes
    /\ up' = FALSE
    /\ crashes' = crashes + 1
    /\ worker' = "idle" /\ held' = NoBatch /\ call' = NoSlot
    /\ stage' = "idle" /\ todo' = {} /\ memory' = NoEvents
    /\ request' = [s \in Slots |-> IF request[s].at = "answered" THEN Empty ELSE request[s]]
    /\ UNCHANGED <<outbox, run, checkpoint, runEvents, jobDone, backend>>

MutantStart ==
    /\ ~up
    /\ up' = TRUE
    /\ UNCHANGED <<outbox, workerVars, pipeline, runEvents, request, backend, crashes>>

(* recover_interrupted_items: what was being sent is tried again, under    *)
(* the same attempt number.                                                *)
Interrupted(b) == item[b] = "sending"

Start ==
    /\ ~up
    /\ up' = TRUE
    /\ item' = [b \in Batches |-> IF Interrupted(b) THEN "retry_wait" ELSE item[b]]
    /\ due' = [b \in Batches |-> due[b] \/ Interrupted(b)]
    /\ runEvents' = [n \in Runs |-> [b \in Batches |->
                        IF Interrupted(b) /\ itemRun[b] = n THEN "retry_wait"
                        ELSE runEvents[n][b]]]
    /\ UNCHANGED <<attempt, itemRun, workerVars, pipeline, request, backend, crashes>>

-----------------------------------------------------------------------------
(* The Backend.  receive_internal_prediction_results answers a request     *)
(* after two transactions: the inbox, then the promotion.                  *)

(* An answer nobody waits for any more is dropped. *)
Answer(s, answer) ==
    request' = [request EXCEPT ![s] =
                    IF s = call THEN [@ EXCEPT !.at = "answered", !.answer = answer] ELSE Empty]

(* save_prediction_batch_inbox: the first receipt decides, by the assets   *)
(* of the workspace at that time; the same batch again is a duplicate,     *)
(* whatever was decided.                                                   *)
Verdict(b) ==
    IF inbox[b] # "none" THEN "duplicate" ELSE IF b \in known THEN "accepted" ELSE "rejected"

MutantReceive(s) ==
    /\ request[s].at = "posted"
    /\ LET b == request[s].batch IN
        /\ inbox' = [inbox EXCEPT ![b] = IF b \in known THEN "accepted" ELSE "rejected"]
        /\ request' = [request EXCEPT ![s].at = "received", ![s].answer = Verdict(b)]
    /\ UNCHANGED <<outbox, up, workerVars, pipeline, runEvents, known, promoted, crashes>>

Receive(s) ==
    /\ request[s].at = "posted"
    /\ LET b == request[s].batch IN
        /\ inbox' = [inbox EXCEPT ![b] = IF @ = "none" THEN Verdict(b) ELSE @]
        /\ request' = [request EXCEPT ![s].at = "received", ![s].answer = Verdict(b)]
    /\ UNCHANGED <<outbox, up, workerVars, pipeline, runEvents, known, promoted, crashes>>

MutantPromote(s) ==
    /\ request[s].at = "received"
    /\ promoted' = IF request[s].answer = "accepted"
                   THEN promoted \cup {request[s].batch} ELSE promoted
    /\ Answer(s, request[s].answer)
    /\ UNCHANGED <<outbox, up, workerVars, pipeline, runEvents, known, inbox, crashes>>

(* An accepted or duplicate receipt promotes the batch's accepted row; a   *)
(* duplicate without such a row (KeyError) is answered all the same.       *)
Promote(s) ==
    /\ request[s].at = "received"
    /\ promoted' = IF request[s].answer \in {"accepted", "duplicate"}
                        /\ inbox[request[s].batch] = "accepted"
                   THEN promoted \cup {request[s].batch} ELSE promoted
    /\ Answer(s, request[s].answer)
    /\ UNCHANGED <<outbox, up, workerVars, pipeline, runEvents, known, inbox, crashes>>

(* A transaction is rolled back (5xx), or the caller is turned away (4xx). *)
ServerError(s) ==
    /\ request[s].at \in {"posted", "received"}
    /\ Answer(s, "error")
    /\ UNCHANGED <<outbox, up, workerVars, pipeline, runEvents, backend, crashes>>

Refuse(s) ==
    /\ request[s].at = "posted"
    /\ Answer(s, "refused")
    /\ UNCHANGED <<outbox, up, workerVars, pipeline, runEvents, backend, crashes>>

(* The request or the Backend process is lost. *)
Lose(s) ==
    /\ request[s].at \in {"posted", "received"}
    /\ request' = [request EXCEPT ![s] = Empty]
    /\ UNCHANGED <<outbox, up, workerVars, pipeline, runEvents, backend, crashes>>

(* The assets of a batch are imported into the workspace. *)
ImportAssets(b) ==
    /\ b \notin known
    /\ known' = known \cup {b}
    /\ UNCHANGED <<outbox, up, workerVars, pipeline, runEvents, request, inbox, promoted, crashes>>

-----------------------------------------------------------------------------
PipelineStep ==
    \/ StartRun \/ SaveStages \/ StageFails
    \/ (\E b \in Batches : Publish(b)) \/ PublishRaises
    \/ Complete \/ SaveRun \/ MarkSucceeded

WorkerStep ==
    \/ \E b \in Batches : MarkSending(b)
    \/ SyncSending \/ Post \/ GetAnswer \/ Timeout \/ SyncSettled

BackendStep(s) == Receive(s) \/ Promote(s) \/ ServerError(s) \/ Refuse(s) \/ Lose(s)

Next ==
    \/ PipelineStep \/ WorkerStep \/ Crash \/ Start
    \/ \E s \in Slots : BackendStep(s)
    \/ \E b \in Batches : BecomeDue(b) \/ ImportAssets(b)

Spec == Init /\ [][Next]_vars

(* The worker thread polls for ever and times out, the process is started  *)
(* again, requests end and time passes.                                    *)
Fairness ==
    /\ WF_vars(WorkerStep) /\ WF_vars(Start)
    /\ \A s \in Slots : WF_vars(BackendStep(s))
    /\ \A b \in Batches : WF_vars(BecomeDue(b))

FairSpec == Spec /\ Fairness

-----------------------------------------------------------------------------
TypeOK ==
    /\ item \in [Batches -> ItemStatuses]
    /\ attempt \in [Batches -> 0..MaxAttempts]
    /\ due \in [Batches -> BOOLEAN]
    /\ itemRun \in [Batches -> Runs]
    /\ up \in BOOLEAN
    /\ worker \in {"idle", "marked", "synced", "waiting", "settled"}
    /\ held \in Batches \cup {NoBatch}
    /\ call \in Slots \cup {NoSlot}
    /\ stage \in {"idle", "running", "publishing", "completed", "cleaning", "finished"}
    /\ todo \subseteq Batches
    /\ memory \in [Batches -> ItemStatuses]
    /\ run \in 0..MaxRuns
    /\ checkpoint \in [Runs -> {"none", "resumable", "completed"}]
    /\ runEvents \in [Runs -> [Batches -> ItemStatuses]]
    /\ jobDone \in BOOLEAN
    /\ request \in [Slots -> Requests]
    /\ known \subseteq Batches
    /\ inbox \in [Batches -> {"none", "accepted", "rejected"}]
    /\ promoted \subseteq Batches
    /\ crashes \in 0..MaxCrashes

(* A batch that is marked sent is stored by the Backend, and if it was     *)
(* accepted it has its product result: lost requests, lost answers,        *)
(* timeouts and restarts never mark an undelivered batch, a crash of the   *)
(* Backend between inbox and promotion is repaired by the retry, and no    *)
(* stale or duplicate request is answered before the promotion.            *)
SentIsInBackend ==
    \A b \in Batches : item[b] = "sent" =>
        inbox[b] # "none" /\ (inbox[b] = "accepted" => b \in promoted)

(* A run is completed, and the job with it, only when every batch has an   *)
(* outbox file, whatever was interrupted or started again in between.      *)
CompletedRunIsPublished ==
    \A n \in Runs : checkpoint[n] = "completed" => \A b \in Batches : item[b] # "absent"

(* A batch that was sent or failed stays so, and its file keeps its run:   *)
(* a resumed or repeated run registers it again without sending it again.  *)
SettledForGood ==
    [][\A b \in Batches : item[b] \in Settled => item'[b] = item[b] /\ itemRun'[b] = itemRun[b]]_vars

(* Every registered batch is sent or failed in the end, whatever is lost,  *)
(* delayed or interrupted.                                                 *)
EveryBatchSettles == \A b \in Batches : item[b] = "pending" ~> item[b] \in Settled

(* The batches whose requester has been told that they were delivered.     *)
Told ==
    {b \in Batches : \E s \in Slots :
        /\ request[s].batch = b /\ request[s].at = "answered"
        /\ request[s].answer \in {"accepted", "duplicate"}}

(* The accepted batches that have no product result yet.                    *)
Owing == {b \in Batches \ promoted : inbox[b] = "accepted"}

(* Seen through lost, late and repeated requests the Backend's tables are  *)
(* an orderly receipt: each batch is decided once and for good, promoted   *)
(* if it was accepted, and only then is anybody told that it was           *)
(* delivered, a retry after a death between the two transactions included. *)
Receipt == INSTANCE BatchReceipt WITH
    WithResults <- Batches,
    Refusals <- {"rejected"},
    verdict <- inbox,
    owing <- Owing,
    told <- Told

RefinesReceipt == Receipt!Spec

(* The claim of update_prediction_event's docstring                        *)
(* (pipeline_repository.py:159): the run state carries the state of each   *)
(* delivery.  When the job is done and the worker has nothing left to do,  *)
(* the last run's events are those of the outbox.                          *)
RunStateTellsDelivery ==
    jobDone /\ worker = "idle" /\ (\A b \in Batches : item[b] \in Settled)
        => runEvents[run] = item
=============================================================================
