------------------------------ MODULE Extraction ------------------------------
(***************************************************************************)
(* Incremental extraction of one growing sensor stream into immutable      *)
(* window datasets (generator/app/extraction).                             *)
(*                                                                         *)
(* process_source_once reads the lines appended since the checkpoint into  *)
(* a fragment on disk, commits the fragment in the checkpoint, then        *)
(* collects every fragment that is not consumed, publishes each window     *)
(* that the newest record has closed as a dataset, records in each         *)
(* fragment's consumption record that the window is published, deletes the *)
(* fragments that are consumed, and creates a handoff for each dataset.    *)
(* Every file is written to a temporary place and renamed, so a step of    *)
(* the model is one rename; the process may die between any two.           *)
(*                                                                         *)
(* A record stands for a line that converts to an observation.             *)
(***************************************************************************)
EXTENDS Naturals, FiniteSets

CONSTANTS
    MaxRecords,   \* bound on the length of the source
    Windows,      \* UTC windows, numbered in the order of time
    WindowOf,     \* WindowOf[i]: the window of the observed_at of record i
    MaxRead,      \* extraction_max_records: records read at a time
    MaxAttempts,  \* extraction_max_attempts
    MaxRequests,  \* bound on POST /extraction
    MaxFaults     \* bound on crashes and failed writes

ASSUME ExtractionAssumption ==
    /\ MaxRecords \in Nat /\ MaxRequests \in Nat /\ MaxFaults \in Nat
    /\ MaxRead \in Nat \ {0} /\ MaxAttempts \in Nat \ {0}
    /\ Windows \subseteq Nat \ {0} /\ IsFiniteSet(Windows)
    /\ WindowOf \in [1..MaxRecords -> Windows]

Records == 1..MaxRecords

(* A batch is a range of the source; its batch_id is a hash of it. *)
Batches == {b \in [from : 0..MaxRecords, to : 0..MaxRecords] : b.from < b.to}
RecordsOf(b) == {i \in Records : b.from < i /\ i <= b.to}
InWindow(w, records) == {i \in records : WindowOf[i] = w}

VARIABLES
    source,      \* complete lines of the source file
    tail,        \* it ends in an incomplete line
    checkpoint,  \* committed offset, and the batch staged beyond it
    fragments,   \* batches whose fragment directory exists
    temporary,   \* batches a killed process left a .tmp_ directory of
    consumption, \* consumption[b]: windows referenced and published
    datasets,    \* datasets[w]: records of the dataset of w ({}: none)
    handoffs,    \* windows whose dataset has a handoff record
    memory,      \* the manager's ExtractionSourceStatus
    work,        \* the call of process_source_once under way
    requests,
    faults

disk == <<checkpoint, fragments, temporary, consumption, datasets, handoffs>>
vars == <<source, tail, disk, memory, work, requests, faults>>

Phases == {"idle", "begun", "reading", "saved", "staged", "collecting",
           "publishing", "recording", "cleaning", "handing"}

(* batches: the fragments collected; todo, done: the windows to publish and *)
(* published; refs: the fragments whose consumption is still to be recorded *)
(* for the window being published.                                          *)
Idle == [phase |-> "idle", flush |-> 0, end |-> 0, batches |-> {}, todo |-> {}, done |-> {},
         refs |-> {}]
Fresh == [status |-> "waiting", attempt |-> 0, known |-> 0]

TypeOK ==
    /\ source \in 0..MaxRecords
    /\ tail \in BOOLEAN
    /\ checkpoint \in [offset : 0..MaxRecords, staged : 0..MaxRecords]
    /\ fragments \subseteq Batches
    /\ temporary \subseteq Batches
    /\ consumption \in [Batches -> [referenced : SUBSET Windows, published : SUBSET Windows]]
    /\ datasets \in [Windows -> SUBSET Records]
    /\ handoffs \subseteq Windows
    /\ memory \in [status : {"waiting", "queued", "failed", "blocked"},
                   attempt : 0..MaxAttempts, known : 0..MaxRecords]
    /\ work \in [phase : Phases, flush : Windows \cup {0}, end : 0..MaxRecords,
                 batches : SUBSET Batches, todo : SUBSET Windows, done : SUBSET Windows,
                 refs : SUBSET Batches]
    /\ requests \in 0..MaxRequests
    /\ faults \in 0..MaxFaults

Init ==
    /\ source = 0 /\ tail = FALSE
    /\ checkpoint = [offset |-> 0, staged |-> 0]
    /\ fragments = {} /\ temporary = {}
    /\ consumption = [b \in Batches |-> [referenced |-> {}, published |-> {}]]
    /\ datasets = [w \in Windows |-> {}]
    /\ handoffs = {}
    /\ memory = Fresh
    /\ work = Idle
    /\ requests = 0 /\ faults = 0

GoOn(next) == work' = [work EXCEPT !.phase = next]

-----------------------------------------------------------------------------
(* The stream generator, outside this code, appends lines. *)
Append ==
    /\ source < MaxRecords
    /\ \/ ~tail /\ tail' = TRUE /\ UNCHANGED source
       \/ tail' = FALSE /\ source' = source + 1
    /\ UNCHANGED <<disk, memory, work, requests, faults>>

BeginWith(flush) ==
    /\ work.phase = "idle"
    /\ work' = [Idle EXCEPT !.phase = "begun", !.flush = flush]
    /\ UNCHANGED <<source, tail, disk, memory, faults>>

(* run_single_cycle: the file is longer than what the manager knows to be   *)
(* committed (nothing is known after a restart).                            *)
Poll ==
    /\ memory.status \notin {"blocked", "failed"}
    /\ source > memory.known \/ tail
    /\ BeginWith(0)
    /\ UNCHANGED requests

(* execute_request: whatever the state of the source, and it may name a     *)
(* time before which windows are closed without waiting for a later record. *)
Request ==
    /\ requests < MaxRequests
    /\ requests' = requests + 1
    /\ \E flush \in Windows \cup {0} : BeginWith(flush)

Return(status, attempt, known) ==
    /\ memory' = [status |-> status, attempt |-> attempt, known |-> known]
    /\ work' = Idle

(* The handler of a retryable error: a checkpoint or fragment write failed. *)
Retryable ==
    IF memory.attempt + 1 >= MaxAttempts
    THEN Return("failed", MaxAttempts, memory.known)
    ELSE Return("queued", memory.attempt + 1, memory.known)

Block == Return("blocked", memory.attempt, memory.known)

(* _recover_pending_fragment_if_valid: the batch staged before a crash. *)
Recover ==
    /\ work.phase = "begun"
    /\ checkpoint.staged # 0
    /\ IF /\ checkpoint.staged <= source
          /\ [from |-> checkpoint.offset, to |-> checkpoint.staged] \in fragments
       THEN /\ checkpoint' = [offset |-> checkpoint.staged, staged |-> 0]
            /\ UNCHANGED <<memory, work>>
       ELSE Block /\ UNCHANGED checkpoint
    /\ UNCHANGED <<source, tail, fragments, temporary, consumption, datasets, handoffs,
                   requests, faults>>

(* There is nothing, or nothing complete, beyond the committed offset: the  *)
(* manager returns before it would publish.                                 *)
NoData ==
    /\ checkpoint.staged = 0
    /\ checkpoint.offset = source
    /\ \/ work.phase = "begun" /\ (source = 0 \/ ~tail)
       \/ work.phase = "reading"
    /\ Return("waiting", 0, source)
    /\ UNCHANGED <<source, tail, disk, requests, faults>>

(* Status "processing" is saved, then the lines are read. *)
MarkProcessing ==
    /\ work.phase = "begun"
    /\ checkpoint.staged = 0
    /\ source > checkpoint.offset \/ (source > 0 /\ tail)
    /\ GoOn("reading")
    /\ UNCHANGED <<source, tail, disk, memory, requests, faults>>

(* Mutant: the batch ends where it would if the file were long enough. *)
MutantReadEnd == checkpoint.offset + MaxRead

ReadEnd == IF source - checkpoint.offset > MaxRead THEN checkpoint.offset + MaxRead ELSE source

(* The fragment of the batch is found in some run's directory or written.   *)
SaveFragment ==
    /\ work.phase = "reading"
    /\ source > checkpoint.offset
    /\ fragments' = fragments \cup {[from |-> checkpoint.offset, to |-> ReadEnd]}
    /\ work' = [work EXCEPT !.phase = "saved", !.end = ReadEnd]
    /\ UNCHANGED <<source, tail, checkpoint, temporary, consumption, datasets, handoffs,
                   memory, requests, faults>>

Stage ==
    /\ work.phase = "saved"
    /\ checkpoint' = [checkpoint EXCEPT !.staged = work.end]
    /\ GoOn("staged")
    /\ UNCHANGED <<source, tail, fragments, temporary, consumption, datasets, handoffs,
                   memory, requests, faults>>

(* Mutant: the size of the file is committed, not the end of what was read. *)
MutantCommit ==
    /\ work.phase = "staged"
    /\ checkpoint' = [offset |-> source, staged |-> 0]
    /\ memory' = [memory EXCEPT !.known = source]
    /\ GoOn("collecting")
    /\ UNCHANGED <<source, tail, fragments, temporary, consumption, datasets, handoffs,
                   requests, faults>>

(* Mutant: the manager takes the size of the file for the committed offset. *)
MutantCommitKnown ==
    /\ work.phase = "staged"
    /\ checkpoint' = [offset |-> work.end, staged |-> 0]
    /\ memory' = [memory EXCEPT !.known = source]
    /\ GoOn("collecting")
    /\ UNCHANGED <<source, tail, fragments, temporary, consumption, datasets, handoffs,
                   requests, faults>>

Commit ==
    /\ work.phase = "staged"
    /\ checkpoint' = [offset |-> work.end, staged |-> 0]
    /\ memory' = [memory EXCEPT !.known = work.end]
    /\ GoOn("collecting")
    /\ UNCHANGED <<source, tail, fragments, temporary, consumption, datasets, handoffs,
                   requests, faults>>

-----------------------------------------------------------------------------
(* is_fully_consumed: the record exists and no referenced window is pending. *)
FullyConsumed(b) ==
    /\ consumption[b].published # {}
    /\ consumption[b].referenced \subseteq consumption[b].published

Discovered == {b \in fragments : ~FullyConsumed(b)}
DiscoveredTemporary == {b \in temporary : ~FullyConsumed(b)}

(* Two directories with one batch_id, or the same record in two fragments.  *)
Conflicting ==
    \/ Discovered \cap DiscoveredTemporary # {}
    \/ \E b1, b2 \in Discovered \cup DiscoveredTemporary :
          b1 # b2 /\ RecordsOf(b1) \cap RecordsOf(b2) # {}

RecordsIn(batches) == UNION {RecordsOf(b) : b \in batches}

(* Mutant: a window is closed one window too late. *)
MutantClosed(w, records) ==
    /\ InWindow(w, records) # {}
    /\ (\E i \in records : WindowOf[i] > w + 1) \/ w <= work.flush

(* The watermark, the newest observed_at in the fragments, is past the end  *)
(* of the window, or the window is to be flushed.                           *)
Closed(w, records) ==
    /\ InWindow(w, records) # {}
    /\ (\E i \in records : WindowOf[i] > w) \/ w <= work.flush

(* discover_fragments_for_source, collect_publishable_windows *)
Collect ==
    /\ work.phase = "collecting"
    /\ LET batches == Discovered \cup DiscoveredTemporary
           closed == {w \in Windows : Closed(w, RecordsIn(batches))}
       IN  CASE Conflicting -> Block
             [] ~Conflicting /\ closed = {} -> Return("waiting", 0, memory.known)
             [] OTHER ->
                  /\ work' = [work EXCEPT !.phase = "publishing", !.batches = batches,
                                          !.todo = closed]
                  /\ UNCHANGED memory
    /\ UNCHANGED <<source, tail, disk, requests, faults>>

IsFirst(w, windows) == w \in windows /\ \A v \in windows : w <= v

(* publish_window_dataset: a dataset that exists is never overwritten; it   *)
(* is reused when it is what would be written.                              *)
Publish(w) ==
    /\ work.phase = "publishing"
    /\ IsFirst(w, work.todo)
    /\ LET content == InWindow(w, RecordsIn(work.batches))
       IN  IF datasets[w] \in {{}, content}
           THEN /\ datasets' = [datasets EXCEPT ![w] = content]
                /\ work' = [work EXCEPT !.phase = "recording",
                       !.refs = {b \in work.batches : InWindow(w, RecordsOf(b)) # {}}]
                /\ UNCHANGED memory
           ELSE Block /\ UNCHANGED datasets
    /\ UNCHANGED <<source, tail, checkpoint, fragments, temporary, consumption, handoffs,
                   requests, faults>>

(* Mutant: all windows of the fragment, without anything that keeps a       *)
(* window that is published from being assembled again.                     *)
MutantReferenced(w, b) == {WindowOf[i] : i \in RecordsOf(b)}

(* What publish_available_windows passes for the windows of fragment b.     *)
Referenced(w, b) == {w}

(* record_window_publication *)
Record(w, b) ==
    /\ work.phase = "recording"
    /\ IsFirst(w, work.todo)
    /\ b \in work.refs
    /\ consumption' = [consumption EXCEPT
           ![b] = [referenced |-> @.referenced \cup Referenced(w, b) \cup {w},
                   published |-> @.published \cup {w}]]
    /\ work' = [work EXCEPT !.refs = @ \ {b}]
    /\ UNCHANGED <<source, tail, checkpoint, fragments, temporary, datasets, handoffs,
                   memory, requests, faults>>

(* Mutant: only the last of several windows is remembered. *)
MutantNextWindow(w) ==
    /\ work.phase = "recording"
    /\ work.refs = {}
    /\ IsFirst(w, work.todo)
    /\ work' = [work EXCEPT !.todo = @ \ {w}, !.done = {w},
                            !.phase = IF work.todo = {w} THEN "cleaning" ELSE "publishing"]
    /\ UNCHANGED <<source, tail, disk, memory, requests, faults>>

NextWindow(w) ==
    /\ work.phase = "recording"
    /\ work.refs = {}
    /\ IsFirst(w, work.todo)
    /\ work' = [work EXCEPT !.todo = @ \ {w}, !.done = @ \cup {w},
                            !.phase = IF work.todo = {w} THEN "cleaning" ELSE "publishing"]
    /\ UNCHANGED <<source, tail, disk, memory, requests, faults>>

(* safe_cleanup_fragment looks up the consumption record by the name of the *)
(* directory, which for a temporary one is not its batch_id.                *)
Removable == {b \in work.batches \cap fragments : FullyConsumed(b)}

CleanUp(b) ==
    /\ work.phase = "cleaning"
    /\ b \in Removable
    /\ fragments' = fragments \ {b}
    /\ UNCHANGED <<source, tail, checkpoint, temporary, consumption, datasets, handoffs,
                   memory, work, requests, faults>>

CleanedUp ==
    /\ work.phase = "cleaning"
    /\ Removable = {}
    /\ GoOn("handing")
    /\ UNCHANGED <<source, tail, disk, memory, requests, faults>>

(* create_or_get_handoff; its exceptions are logged and the window skipped. *)
HandOff(w) ==
    /\ work.phase = "handing"
    /\ IsFirst(w, work.done)
    /\ work' = [work EXCEPT !.done = @ \ {w}]
    /\ \/ handoffs' = handoffs \cup {w} /\ UNCHANGED faults
       \/ faults < MaxFaults /\ faults' = faults + 1 /\ UNCHANGED handoffs
    /\ UNCHANGED <<source, tail, checkpoint, fragments, temporary, consumption, datasets,
                   memory, requests>>

Finish ==
    /\ work.phase = "handing"
    /\ work.done = {}
    /\ Return("waiting", 0, memory.known)
    /\ UNCHANGED <<source, tail, disk, requests, faults>>

-----------------------------------------------------------------------------
(* A checkpoint or a fragment cannot be written. *)
WriteFails ==
    /\ faults < MaxFaults
    /\ work.phase \in {"begun", "reading", "saved", "staged"}
    /\ faults' = faults + 1
    /\ Retryable
    /\ UNCHANGED <<source, tail, disk, requests>>

(* A dataset, its receipt or a consumption record cannot be written. *)
PublicationFails ==
    /\ faults < MaxFaults
    /\ work.phase \in {"publishing", "recording"}
    /\ faults' = faults + 1
    /\ Block
    /\ UNCHANGED <<source, tail, disk, requests>>

(* The process dies and starts again, with nothing in memory; it may have   *)
(* been about to rename the directory of a new fragment.                    *)
Crash ==
    /\ faults < MaxFaults
    /\ faults' = faults + 1
    /\ memory' = Fresh
    /\ work' = Idle
    /\ \/ UNCHANGED temporary
       \/ /\ work.phase = "reading" /\ source > checkpoint.offset
          /\ LET b == [from |-> checkpoint.offset, to |-> ReadEnd]
             IN  b \notin fragments /\ temporary' = temporary \cup {b}
    /\ UNCHANGED <<source, tail, checkpoint, fragments, consumption, datasets, handoffs,
                   requests>>

Step ==
    \/ Recover \/ NoData \/ MarkProcessing \/ SaveFragment \/ Stage \/ Commit \/ Collect
    \/ \E w \in Windows : Publish(w) \/ NextWindow(w) \/ HandOff(w)
    \/ \E w \in Windows, b \in Batches : Record(w, b)
    \/ \E b \in Batches : CleanUp(b)
    \/ CleanedUp \/ Finish

Next ==
    \/ Append \/ Poll \/ Request \/ Step
    \/ WriteFails \/ PublicationFails \/ Crash

Spec == Init /\ [][Next]_vars

(* The polling loop goes on, and a call that has begun goes on to its end.  *)
FairSpec == Spec /\ WF_vars(Poll) /\ WF_vars(Step)

-----------------------------------------------------------------------------
Held(i) ==
    \/ i \in datasets[WindowOf[i]]
    \/ \E b \in fragments : i \in RecordsOf(b) /\ ~FullyConsumed(b)

(* The record's fragment counts as consumed since another of its windows    *)
(* was published.                                                           *)
Straddled(i) ==
    \E b \in Batches :
       i \in RecordsOf(b) /\ FullyConsumed(b) /\ WindowOf[i] \notin consumption[b].published

(* A record of the committed part of the source is never lost, whatever     *)
(* crashes and failed writes there were, except in one way: its fragment    *)
(* holds records of two windows, and the first of them to be published      *)
(* counts for all of it (publish_available_windows passes that window alone *)
(* as all_referenced_windows).                                              *)
LossOnlyByStraddling ==
    \A i \in Records : i <= checkpoint.offset => Held(i) \/ Straddled(i)

(* What fragment_lifecycle.py and the generator's README say: a fragment is *)
(* kept until every window it holds records of has been published.          *)
ObservationsSurvive == \A i \in Records : i <= checkpoint.offset => Held(i)

(* A record came after the dataset of its window. *)
LateRecord ==
    \E i \in Records :
       /\ i <= checkpoint.offset
       /\ datasets[WindowOf[i]] # {}
       /\ \A j \in datasets[WindowOf[i]] : j < i

(* Extraction never comes into conflict with itself: as long as no process  *)
(* died and no write failed, a source is blocked by nothing but a record    *)
(* that comes after its window was published.                               *)
BlocksOnlyAfterFault == memory.status = "blocked" => faults > 0 \/ LateRecord

(* Between two calls, as long as nothing failed and no record came late,    *)
(* every dataset that was published has its handoff. (A late record blocks  *)
(* the source in the middle of a call, which forgets what it published.)    *)
PublishedIsHandedOff ==
    work.phase = "idle" /\ faults = 0 /\ ~LateRecord
    => \A w \in Windows : datasets[w] # {} => w \in handoffs

(* Every line that is appended is committed in the end, after any crashes   *)
(* and failed writes, unless the source is given up.                        *)
EverythingIsRead ==
    \A i \in Records :
       source >= i ~> checkpoint.offset >= i \/ memory.status \in {"blocked", "failed"}

(* A record followed by one of a later window gets into the dataset of its  *)
(* window, unless something failed, a record came late, or the record is    *)
(* lost as described above.                                                 *)
ClosedIsPublished ==
    \A i, j \in Records :
       (i < j /\ source >= j /\ WindowOf[j] > WindowOf[i])
       ~> \/ i \in datasets[WindowOf[i]]
          \/ Straddled(i) \/ faults > 0 \/ LateRecord
=============================================================================
