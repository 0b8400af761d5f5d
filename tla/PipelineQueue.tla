----------------------------- MODULE PipelineQueue -----------------------------
(***************************************************************************)
(* The persistent job queue of the Generator's runtime pipeline            *)
(* (runtime_pipeline/pipeline_queue.py), its single worker thread          *)
(* (pipeline_worker.py) and the startup recovery of the process they live  *)
(* in (pipeline_manager.py).                                               *)
(*                                                                         *)
(* Every method of PipelineQueue runs under one lock and one SQLite        *)
(* transaction: it is one action.  Rows are never deleted and sequence is  *)
(* max + 1, so a row is named by its sequence.  The worker holds its item  *)
(* in memory between two actions, where the process may die.               *)
(***************************************************************************)
EXTENDS Naturals

CONSTANTS
    Sources,      \* input files, one per (source_uri, checksum) and identity
    EventOf,      \* EventOf[s]: its maintenance_event_id, if a replay overlay
    NoEvent,      \* EventOf[s] of a live sensor file
    MaxAttempts,  \* pipeline_max_attempts
    MaxJobs,      \* bound: rows of the queue
    MaxCrashes    \* bound: how often the process dies

ASSUME QueueAssumption ==
    /\ MaxAttempts \in Nat \ {0}
    /\ MaxJobs \in Nat
    /\ MaxCrashes \in Nat

VARIABLES
    last,      \* the highest sequence
    status,    \* status[j]
    sourceOf,  \* sourceOf[j]: source_uri, checksum and context
    owner,     \* owner[j]: source_identity and dedup_key are not "archived:..."
    attempt,   \* attempt[j]
    up,        \* the process is running
    stage,     \* where the worker is in process_one
    current,   \* the sequence of the item it holds, 0 if none
    computed,  \* sources whose results execute_queue_item has produced
    crashes    \* how often the process has died

vars == <<last, status, sourceOf, owner, attempt, up, stage, current, computed, crashes>>
rows == <<last, status, sourceOf, owner, attempt>>

Jobs == 1..MaxJobs
Added == 1..last
Statuses == {"absent", "queued", "running", "succeeded", "failed"}
Terminal == {"succeeded", "failed"}
Stages == {"idle", "executing", "executed", "backoff"}

Init ==
    /\ last = 0
    /\ status = [j \in Jobs |-> "absent"]
    /\ sourceOf \in [Jobs -> Sources]
    /\ owner = [j \in Jobs |-> FALSE]
    /\ attempt = [j \in Jobs |-> 0]
    /\ up = TRUE
    /\ stage = "idle"
    /\ current = 0
    /\ computed = {}
    /\ crashes = 0

-----------------------------------------------------------------------------
(* A new row at the end of the queue. *)
AddRow(s) ==
    /\ last < MaxJobs
    /\ last' = last + 1
    /\ status' = [status EXCEPT ![last + 1] = "queued"]
    /\ sourceOf' = [sourceOf EXCEPT ![last + 1] = s]
    /\ attempt' = [attempt EXCEPT ![last + 1] = 1]
    /\ UNCHANGED <<up, stage, current, computed, crashes>>

MutantRegistered(s) ==
    \E j \in Added : sourceOf[j] = s /\ owner[j] /\ status[j] # "failed"

(* enqueue refuses a source whose identity a row still carries, whatever   *)
(* the status of that row: queued or running (already registered),         *)
(* succeeded (already processed) or failed (retry explicitly).             *)
Registered(s) == \E j \in Added : sourceOf[j] = s /\ owner[j]

Enqueue(s) ==
    /\ up
    /\ ~Registered(s)
    /\ AddRow(s)
    /\ owner' = [owner EXCEPT ![last + 1] = TRUE]

MutantRetryFailed(j) ==
    /\ up
    /\ status[j] = "failed"
    /\ status' = [status EXCEPT ![j] = "queued"]
    /\ attempt' = [attempt EXCEPT ![j] = 1]
    /\ UNCHANGED <<last, sourceOf, owner, up, stage, current, computed, crashes>>

(* retry_failed_job archives the keys of the old row and gives the row's   *)
(* keys, as it read them, to the new one.  The old row stays failed.       *)
RetryFailed(j) ==
    /\ up
    /\ status[j] = "failed"
    /\ AddRow(sourceOf[j])
    /\ owner' = [owner EXCEPT ![j] = FALSE, ![last + 1] = owner[j]]

-----------------------------------------------------------------------------
Succeeded(e) == \E j \in Added : status[j] = "succeeded" /\ EventOf[sourceOf[j]] = e

(* A replay job goes first until one replay of its event has succeeded. *)
Promoted(j) ==
    /\ EventOf[sourceOf[j]] # NoEvent
    /\ ~Succeeded(EventOf[sourceOf[j]])

MutantGoesBefore(i, j) ==
    \/ Promoted(i) /\ ~Promoted(j)
    \/ (Promoted(i) <=> Promoted(j)) /\ attempt[i] < attempt[j]
    \/ (Promoted(i) <=> Promoted(j)) /\ attempt[i] = attempt[j] /\ i <= j

(* The ORDER BY of claim_next: promoted jobs first, then by sequence. *)
GoesBefore(i, j) ==
    \/ Promoted(i) /\ ~Promoted(j)
    \/ (Promoted(i) <=> Promoted(j)) /\ i <= j

ClaimNext ==
    /\ up /\ stage = "idle"
    /\ \E j \in Added :
        /\ status[j] = "queued"
        /\ \A i \in Added : status[i] = "queued" => GoesBefore(j, i)
        /\ status' = [status EXCEPT ![j] = "running"]
        /\ current' = j
    /\ stage' = "executing"
    /\ UNCHANGED <<last, sourceOf, owner, attempt, up, computed, crashes>>

(* execute_queue_item returns: the predictions of the source are produced. *)
Execute ==
    /\ stage = "executing"
    /\ computed' = computed \cup {sourceOf[current]}
    /\ stage' = "executed"
    /\ UNCHANGED <<rows, up, current, crashes>>

MarkSucceeded ==
    /\ stage = "executed"
    /\ status' = [status EXCEPT ![current] = "succeeded"]
    /\ stage' = "idle" /\ current' = 0
    /\ UNCHANGED <<last, sourceOf, owner, attempt, up, computed, crashes>>

(* execute_queue_item raises a retryable error and attempts remain: the    *)
(* worker sleeps before it puts the job back.                              *)
StartBackoff ==
    /\ stage = "executing"
    /\ attempt[current] < MaxAttempts
    /\ stage' = "backoff"
    /\ UNCHANGED <<rows, up, current, computed, crashes>>

MarkRetryWait ==
    /\ stage = "backoff"
    /\ status' = [status EXCEPT ![current] = "queued"]
    /\ attempt' = [attempt EXCEPT ![current] = @ + 1]
    /\ stage' = "idle" /\ current' = 0
    /\ UNCHANGED <<last, sourceOf, owner, up, computed, crashes>>

(* It raises an error that is not retryable, or the last attempt fails. *)
MarkFailed ==
    /\ stage = "executing"
    /\ status' = [status EXCEPT ![current] = "failed"]
    /\ stage' = "idle" /\ current' = 0
    /\ UNCHANGED <<last, sourceOf, owner, attempt, up, computed, crashes>>

-----------------------------------------------------------------------------
(* The process dies, with whatever the worker held. *)
Crash ==
    /\ up /\ crashes < MaxCrashes
    /\ up' = FALSE
    /\ stage' = "idle" /\ current' = 0
    /\ crashes' = crashes + 1
    /\ UNCHANGED <<rows, computed>>

MutantStart ==
    /\ ~up
    /\ up' = TRUE
    /\ UNCHANGED <<rows, stage, current, computed, crashes>>

(* PipelineManager.start: every job found running is queued again, under   *)
(* its old sequence, and counts one more attempt.                          *)
Start ==
    /\ ~up
    /\ up' = TRUE
    /\ status' = [j \in Jobs |-> IF status[j] = "running" THEN "queued" ELSE status[j]]
    /\ attempt' = [j \in Jobs |-> IF status[j] = "running" THEN attempt[j] + 1 ELSE attempt[j]]
    /\ UNCHANGED <<last, sourceOf, owner, stage, current, computed, crashes>>

-----------------------------------------------------------------------------
WorkerStep ==
    ClaimNext \/ Execute \/ MarkSucceeded \/ StartBackoff \/ MarkRetryWait \/ MarkFailed

Next ==
    \/ \E s \in Sources : Enqueue(s)
    \/ \E j \in Jobs : RetryFailed(j)
    \/ WorkerStep
    \/ Crash \/ Start

Spec == Init /\ [][Next]_vars

(* The worker thread polls for ever and the process is restarted. *)
FairSpec == Spec /\ WF_vars(WorkerStep) /\ WF_vars(Start)

-----------------------------------------------------------------------------
TypeOK ==
    /\ last \in 0..MaxJobs
    /\ status \in [Jobs -> Statuses]
    /\ sourceOf \in [Jobs -> Sources]
    /\ owner \in [Jobs -> BOOLEAN]
    /\ attempt \in [Jobs -> 0..(MaxAttempts + MaxCrashes)]
    /\ up \in BOOLEAN
    /\ stage \in Stages
    /\ current \in 0..last
    /\ computed \subseteq Sources
    /\ crashes \in 0..MaxCrashes
    /\ \A j \in Jobs : j \in Added <=> status[j] # "absent"

(* While the process is up, the only running row is the one its worker     *)
(* holds: a crash leaves no job running for ever, and no two jobs run.     *)
RunningIsHeld == \A j \in Jobs : up /\ status[j] = "running" => current = j

(* Live files are processed in the order they arrived, whatever fails, is  *)
(* retried or is interrupted: a live job is started only when every        *)
(* earlier live job has ended.                                             *)
IsLive(j) == j \in Added /\ EventOf[sourceOf[j]] = NoEvent

LiveInArrivalOrder ==
    \A i, j \in Jobs : IsLive(i) /\ IsLive(j) /\ i < j /\ status[j] # "queued" =>
        status[i] \in Terminal

(* A source that was registered once keeps exactly one row that carries    *)
(* its identity: explicit retries hand it on, so enqueue never takes the   *)
(* source in again and never forgets it.                                   *)
OneOwnerPerSource ==
    \A j \in Added : \E i \in Added :
        /\ sourceOf[i] = sourceOf[j] /\ owner[i]
        /\ \A k \in Added : sourceOf[k] = sourceOf[j] /\ owner[k] => k = i

(* A job that ended stays as it ended: a retry is a new row, and neither   *)
(* the startup recovery nor a late worker changes the old one.  It ends in *)
(* success only after its source's results were produced.                  *)
EndedForGood ==
    [][\A j \in Jobs :
        /\ status[j] \in Terminal => status'[j] = status[j]
        /\ status'[j] = "succeeded" => sourceOf[j] \in computed]_vars

(* Every job that enters the queue ends, through retries, crashes and      *)
(* restarts, and however many promoted replays pass it.                    *)
EveryJobEnds == \A j \in Jobs : status[j] = "queued" ~> status[j] \in Terminal
=============================================================================
