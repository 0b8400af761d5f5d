-------------------------------- MODULE Handoff --------------------------------
(***************************************************************************)
(* The handoff of published datasets from extraction to the runtime queue  *)
(* (extraction_runtime_handoff_service.py, extraction_handoff_repository.  *)
(* py, extraction_handoff_worker.py), composed with the queue they feed:   *)
(* this module adds the handoffs to the variables of PipelineQueue.        *)
(*                                                                         *)
(* A handoff is a file in the directory of its status.  It is read into    *)
(* memory, changed there and saved: the old file is removed, then the new  *)
(* one renamed into place.  The event loop (the manager after publication  *)
(* and the handoff worker, which never await inside process_handoff) and   *)
(* the threads that serve POST .../retry do so without any lock, and the   *)
(* process may die between two steps.                                      *)
(***************************************************************************)
EXTENDS PipelineQueue, Sequences

(* A source of the queue is a dataset here, and has one handoff.           *)
CONSTANTS
    Threads,          \* threads that serve explicit retries
    Loop,             \* the thread of the event loop
    MaxHandoffRetries,\* extraction_handoff_max_retries
    MaxPublications,  \* bound: how often a dataset is published (or reused)
    MaxRetries,       \* bound on POST /extraction/handoffs/{id}/retry
    MaxFaults         \* bound on failed file and database accesses

ASSUME HandoffAssumption ==
    /\ Sources # {}
    /\ Loop \notin Threads
    /\ MaxHandoffRetries \in Nat \ {0}
    /\ MaxPublications \in Nat /\ MaxRetries \in Nat /\ MaxFaults \in Nat

VARIABLES
    own,       \* rows of the queue whose job_id is that of a handoff
    files,     \* files[h]: the files of handoff h, in all directories
    call,      \* call[p]: the handoff thread p has in memory, and where it is
    mode,      \* the process is down, or has runtime prediction disabled or enabled
    published, \* published[h]: how often h was handed to create_or_get_handoff
    retries, faults

(* vars is the state of the queue.                                         *)
handoffVars == <<vars, own, files, call, mode, published, retries, faults>>

(* STATUS_SUBDIRS, in the order they are searched. *)
StatusSubdirs == <<"pending", "runtime_disabled", "enqueueing", "enqueued", "retry_wait",
                   "blocked", "retry_exhausted">>
HandoffStatuses == {StatusSubdirs[i] : i \in 1..Len(StatusSubdirs)}
Final == {"enqueued", "blocked", "retry_exhausted"}
Files == [status : HandoffStatuses, attempt : 0..MaxHandoffRetries]

Actors == Threads \cup {Loop}
Phases == {"idle", "loaded", "saving", "replacing", "enqueueing"}

(* next: what the caller of save_handoff does when it has returned. *)
Calls == [phase : Phases, handoff : Sources, status : HandoffStatuses,
          attempt : 0..MaxHandoffRetries, next : {"return", "process", "enqueue", "succeed"}]

Idle == [phase |-> "idle", handoff |-> CHOOSE h \in Sources : TRUE, status |-> "pending",
         attempt |-> 0, next |-> "return"]

HandoffInit ==
    /\ Init
    /\ own = {}
    /\ files = [h \in Sources |-> {}]
    /\ call = [p \in Actors |-> Idle]
    /\ mode = "enabled"
    /\ published = [h \in Sources |-> 0]
    /\ retries = 0 /\ faults = 0

InDirectory(h, s) == {f \in files[h] : f.status = s}

(* find_handoff_by_id *)
Found(h) ==
    LET first == CHOOSE i \in 1..Len(StatusSubdirs) :
                    /\ InDirectory(h, StatusSubdirs[i]) # {}
                    /\ \A j \in 1..(i - 1) : InDirectory(h, StatusSubdirs[j]) = {}
    IN  CHOOSE f \in files[h] : f.status = StatusSubdirs[first]

OwnJob(h) == \E j \in own : sourceOf[j] = h

(* A row that is not processed yet, or failed, has the identity of h. *)
Active(h) == \E j \in Added : sourceOf[j] = h /\ owner[j] /\ status[j] # "succeeded"

-----------------------------------------------------------------------------
(* Thread p has set the status and attempt of its handoff and saves it. *)
Save(p, s, n, next) ==
    call' = [call EXCEPT ![p] = [phase |-> "saving", handoff |-> @.handoff,
                                 status |-> s, attempt |-> n, next |-> next]]

Load(p, h, f) ==
    call' = [call EXCEPT ![p] = [phase |-> "loaded", handoff |-> h,
                                 status |-> f.status, attempt |-> f.attempt, next |-> "return"]]

SaveNew(p, h, s, next) ==
    call' = [call EXCEPT ![p] = [phase |-> "saving", handoff |-> h,
                                 status |-> s, attempt |-> 0, next |-> next]]

(* create_or_get_handoff after publication; the manager goes on to          *)
(* process_handoff if runtime prediction is enabled.                        *)
Create(h) ==
    /\ mode # "down"
    /\ call[Loop].phase = "idle"
    /\ published[h] < MaxPublications
    /\ published' = [published EXCEPT ![h] = @ + 1]
    /\ \/ files[h] = {} /\ mode = "enabled" /\ SaveNew(Loop, h, "pending", "process")
       \/ files[h] = {} /\ mode = "disabled" /\ SaveNew(Loop, h, "runtime_disabled", "return")
       \/ files[h] # {} /\ mode = "enabled" /\ Load(Loop, h, Found(h))
       \/ files[h] # {} /\ mode = "disabled" /\ UNCHANGED call
    /\ UNCHANGED <<vars, own, files, mode, retries, faults>>

(* Mutant: what waits for a retry is not taken. *)
MutantPoll(h) ==
    /\ mode # "down"
    /\ call[Loop].phase = "idle"
    /\ \E f \in files[h] :
          /\ f.status \in {"pending", "runtime_disabled"}
          /\ Load(Loop, h, f)
    /\ UNCHANGED <<vars, own, files, mode, published, retries, faults>>

(* run_single_cycle takes the handoffs of three directories. *)
Poll(h) ==
    /\ mode # "down"
    /\ call[Loop].phase = "idle"
    /\ \E f \in files[h] :
          /\ f.status \in {"pending", "runtime_disabled", "retry_wait"}
          /\ Load(Loop, h, f)
    /\ UNCHANGED <<vars, own, files, mode, published, retries, faults>>

(* retry_extraction_handoff *)
Retry(p, h) ==
    /\ mode # "down"
    /\ retries < MaxRetries
    /\ call[p].phase = "idle"
    /\ files[h] # {}
    /\ Found(h).status # "blocked"
    /\ retries' = retries + 1
    /\ Load(p, h, Found(h))
    /\ UNCHANGED <<vars, own, files, mode, published, faults>>

Return(p) == call' = [call EXCEPT ![p] = Idle]

(* process_handoff with nothing to do, or runtime prediction disabled. *)
Skip(p) ==
    /\ call[p].phase = "loaded"
    /\ call[p].status \in Final \/ (mode = "disabled" /\ call[p].status = "runtime_disabled")
    /\ Return(p)
    /\ UNCHANGED <<vars, own, files, mode, published, retries, faults>>

(* Mutant: that runtime prediction is disabled is an error like any other. *)
MutantDisable(p) ==
    /\ call[p].phase = "loaded"
    /\ mode = "disabled"
    /\ call[p].status \notin Final \cup {"runtime_disabled"}
    /\ Save(p, "blocked", call[p].attempt, "return")
    /\ UNCHANGED <<vars, own, files, mode, published, retries, faults>>

Disable(p) ==
    /\ call[p].phase = "loaded"
    /\ mode = "disabled"
    /\ call[p].status \notin Final \cup {"runtime_disabled"}
    /\ Save(p, "runtime_disabled", call[p].attempt, "return")
    /\ UNCHANGED <<vars, own, files, mode, published, retries, faults>>

(* _get_existing_queue_item: the handoff is healed if its job exists, and   *)
(* saved as enqueueing before enqueue is called if not.                     *)
LookUp(p) ==
    /\ call[p].phase = "loaded"
    /\ mode = "enabled"
    /\ call[p].status \notin Final
    /\ IF OwnJob(call[p].handoff)
       THEN Save(p, "enqueued", call[p].attempt, "return")
       ELSE Save(p, "enqueueing", call[p].attempt, "enqueue")
    /\ UNCHANGED <<vars, own, files, mode, published, retries, faults>>

(* An error of the database in get_item is not a PipelineQueuePersistError. *)
LookUpFails(p) ==
    /\ \/ call[p].phase = "loaded" /\ mode = "enabled" /\ call[p].status \notin Final
       \/ call[p].phase = "enqueueing" /\ Active(call[p].handoff)
    /\ faults < MaxFaults
    /\ faults' = faults + 1
    /\ Save(p, "blocked", call[p].attempt, "return")
    /\ UNCHANGED <<vars, own, files, mode, published, retries>>

-----------------------------------------------------------------------------
(* Mutant: the handoff service inserts its job without looking for others. *)
MutantEnqueueHandoff(p) ==
    /\ call[p].phase = "enqueueing"
    /\ up
    /\ AddRow(call[p].handoff)
    /\ owner' = [owner EXCEPT ![last + 1] = TRUE]
    /\ own' = own \cup {last'}
    /\ Save(p, "enqueued", call[p].attempt, "succeed")
    /\ UNCHANGED <<files, mode, published, retries, faults>>

(* PipelineQueue.enqueue adds the row. *)
EnqueueHandoff(p) ==
    /\ call[p].phase = "enqueueing"
    /\ Enqueue(call[p].handoff)
    /\ own' = own \cup {last'}
    /\ Save(p, "enqueued", call[p].attempt, "succeed")
    /\ UNCHANGED <<files, mode, published, retries, faults>>

(* It refuses the source.  If the row that has it is active or failed, and  *)
(* the handoff's own job exists, the handoff is healed; a source that is    *)
(* already processed, or registered by someone else, is not to be retried.  *)
Refused(p) ==
    /\ call[p].phase = "enqueueing"
    /\ Registered(call[p].handoff)
    /\ IF OwnJob(call[p].handoff) /\ Active(call[p].handoff)
       THEN Save(p, "enqueued", call[p].attempt, "return")
       ELSE Save(p, "blocked", call[p].attempt, "return")
    /\ UNCHANGED <<vars, own, files, mode, published, retries, faults>>

(* The handler of a retryable exception. *)
Postpone(p) ==
    LET n == call[p].attempt + 1
    IN  Save(p, IF n >= MaxHandoffRetries THEN "retry_exhausted" ELSE "retry_wait", n, "return")

(* The queue cannot be written (PipelineQueuePersistError). *)
EnqueueFails(p) ==
    /\ call[p].phase = "enqueueing"
    /\ faults < MaxFaults
    /\ faults' = faults + 1
    /\ Postpone(p)
    /\ UNCHANGED <<vars, own, files, mode, published, retries>>

-----------------------------------------------------------------------------
(* save_handoff finds the file there is and removes it, unless it is the    *)
(* one that will be replaced.                                               *)
Unlink(p) ==
    /\ call[p].phase = "saving"
    /\ LET h == call[p].handoff
       IN  files' = [files EXCEPT ![h] =
              IF @ # {} /\ Found(h).status # call[p].status THEN @ \ {Found(h)} ELSE @]
    /\ call' = [call EXCEPT ![p].phase = "replacing"]
    /\ UNCHANGED <<vars, own, mode, published, retries, faults>>

(* Then the new one is renamed into place, and the caller goes on. *)
Replace(p) ==
    /\ call[p].phase = "replacing"
    /\ LET h == call[p].handoff
       IN  files' = [files EXCEPT ![h] = (@ \ InDirectory(h, call[p].status))
              \cup {[status |-> call[p].status, attempt |-> call[p].attempt]}]
    /\ CASE call[p].next \in {"return", "succeed"} -> Return(p)
         [] call[p].next = "process" -> call' = [call EXCEPT ![p].phase = "loaded"]
         [] call[p].next = "enqueue" -> call' = [call EXCEPT ![p].phase = "enqueueing"]
    /\ UNCHANGED <<vars, own, mode, published, retries, faults>>

(* save_handoff raises, before or after the old file was removed; only when *)
(* the job has just been enqueued does process_handoff catch that.          *)
SaveFails(p) ==
    /\ call[p].phase \in {"saving", "replacing"}
    /\ faults < MaxFaults
    /\ faults' = faults + 1
    /\ IF call[p].next = "succeed" THEN Postpone(p) ELSE Return(p)
    /\ UNCHANGED <<vars, own, files, mode, published, retries>>

-----------------------------------------------------------------------------
local == <<own, files, call, mode, published, retries, faults>>

(* The queue's worker, its explicit retries, and another client of          *)
(* POST /internal/runtime-pipeline/enqueue with a job_id of its own.        *)
QueueStep ==
    /\ \/ WorkerStep
       \/ \E h \in Sources : Enqueue(h) /\ published[h] > 0
       \/ \E j \in 1..MaxJobs : RetryFailed(j)
    /\ UNCHANGED local

(* The process dies, with everything in memory. *)
ProcessDies ==
    /\ mode # "down"
    /\ \/ mode = "enabled" /\ Crash
       \/ mode = "disabled" /\ UNCHANGED vars
    /\ mode' = "down"
    /\ call' = [p \in Actors |-> Idle]
    /\ UNCHANGED <<own, files, published, retries, faults>>

(* It starts again; the queue is recovered and worked on only with runtime  *)
(* prediction enabled.                                                      *)
ProcessStarts ==
    /\ mode = "down"
    /\ \/ mode' = "enabled" /\ Start
       \/ mode' = "disabled" /\ UNCHANGED vars
    /\ UNCHANGED <<own, files, call, published, retries, faults>>

Go(p) ==
    \/ Skip(p) \/ Disable(p) \/ LookUp(p) \/ EnqueueHandoff(p) \/ Refused(p)
    \/ Unlink(p) \/ Replace(p)

Fail(p) == LookUpFails(p) \/ EnqueueFails(p) \/ SaveFails(p)

HandoffNext ==
    \/ \E h \in Sources : Create(h) \/ Poll(h)
    \/ \E p \in Threads, h \in Sources : Retry(p, h)
    \/ \E p \in Actors : Go(p) \/ Fail(p)
    \/ QueueStep \/ ProcessDies \/ ProcessStarts

HandoffSpec == HandoffInit /\ [][HandoffNext]_handoffVars

(* Calls go on, the handoff worker polls, the queue's worker works and the  *)
(* process is restarted.                                                    *)
HandoffFairSpec ==
    /\ HandoffSpec
    /\ \A p \in Actors : WF_handoffVars(Go(p))
    /\ \A h \in Sources : WF_handoffVars(Poll(h))
    /\ WF_handoffVars(WorkerStep /\ UNCHANGED local)
    /\ WF_handoffVars(ProcessStarts)

-----------------------------------------------------------------------------
HandoffTypeOK ==
    /\ own \subseteq Added
    /\ files \in [Sources -> SUBSET Files]
    /\ call \in [Actors -> Calls]
    /\ mode \in {"down", "disabled", "enabled"}
    /\ up <=> mode = "enabled"
    /\ published \in [Sources -> 0..MaxPublications]
    /\ retries \in 0..MaxRetries
    /\ faults \in 0..MaxFaults
    /\ \A h \in Sources : \A f \in files[h] :
          f.status \notin {"retry_exhausted", "blocked"} => f.attempt < MaxHandoffRetries

(* A handoff that was saved as enqueued has a job of its own in the queue,  *)
(* and one only, however the event loop, explicit retries, failed writes    *)
(* and crashes met between the enqueue and the two file operations of a     *)
(* save, and whatever became of the job since.                              *)
EnqueuedHasOneJob ==
    \A h \in Sources : \A f \in files[h] :
       f.status = "enqueued" =>
          \E j \in own : sourceOf[j] = h /\ \A k \in own : sourceOf[k] = h => k = j

(* As long as no file or database access has failed, a handoff is given up  *)
(* only when its dataset is in the queue anyway: by another client, or      *)
(* since the other of two threads that processed the same handoff was       *)
(* faster.  Disabling runtime prediction in between gives up nothing.       *)
GivenUpIsQueued ==
    \A h \in Sources : \A f \in files[h] :
       f.status \in {"blocked", "retry_exhausted"} /\ faults = 0 =>
          \E j \in Added : sourceOf[j] = h

GivenUp(h) == \E f \in files[h] : f.status \in {"blocked", "retry_exhausted"}

(* The job of h was run to its end. *)
Processed(h) ==
    h \in computed \/ \E j \in Added : sourceOf[j] = h /\ status[j] = "failed"

(* A save of h was cut short: its file is gone, or is where nobody looks.   *)
CutShort(h) ==
    /\ crashes > 0 \/ faults > 0
    /\ files[h] = {} \/ \E f \in files[h] : f.status = "enqueueing"

(* Every published dataset is processed by the runtime pipeline in the end  *)
(* unless its handoff is given up, or a crash or a failed write cut one of  *)
(* its saves short, or runtime prediction is disabled.                      *)
EveryDatasetIsProcessed ==
    \A h \in Sources :
       published[h] > 0 ~> Processed(h) \/ GivenUp(h) \/ CutShort(h) \/ mode = "disabled"
=============================================================================
