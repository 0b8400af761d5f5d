--------------------------- MODULE ExtractionProofs ---------------------------
(***************************************************************************)
(* For any stream, windows, crashes and failed writes: extraction stays    *)
(* type correct, and a committed record is lost in no way but the one that *)
(* Straddled names; and without a crash or a failed write, a source is     *)
(* blocked by late records only and every dataset gets its handoff.  The   *)
(* first two follow from where a committed record is (Covered) and from    *)
(* what a consumption record promises (PublishedHeld); the others from     *)
(* the order in which fragments and datasets come (Orderly, Timely).       *)
(***************************************************************************)
EXTENDS Extraction, TLAPS

(* Before a call publishes, it has nothing published. *)
CallSoFar ==
    work.phase \in {"idle", "begun", "reading", "saved", "staged", "collecting"}
    => work.batches = {} /\ work.todo = {} /\ work.done = {} /\ work.refs = {}

SavedOnDisk ==
    work.phase \in {"saved", "staged"}
    => [from |-> checkpoint.offset, to |-> work.end] \in fragments

(* A committed record is in a fragment that exists or was consumed. *)
Covered ==
    \A i \in Records : i <= checkpoint.offset =>
       \E b \in Batches : i \in RecordsOf(b) /\ (b \in fragments \/ FullyConsumed(b))

(* What a consumption record calls published is in the dataset, and it      *)
(* refers to nothing else.                                                  *)
PublishedHeld ==
    \A b \in Batches :
       /\ consumption[b].referenced \subseteq consumption[b].published
       /\ \A w \in consumption[b].published : InWindow(w, RecordsOf(b)) \subseteq datasets[w]

(* The window whose publication is being recorded, and where. *)
InRecording(w) == work.phase = "recording" /\ IsFirst(w, work.todo)

RefsHeld ==
    \A w \in Windows : InRecording(w) =>
       \A b \in work.refs : InWindow(w, RecordsOf(b)) \subseteq datasets[w]

(* Without a fault, fragments follow each other without overlap, and a call *)
(* collects all that is not consumed.                                       *)
Orderly ==
    faults = 0 =>
       /\ temporary = {}
       /\ checkpoint.staged = 0 \/ work.phase = "staged"
       /\ \A b \in fragments :
             \/ b.to <= checkpoint.offset
             \/ /\ work.phase \in {"saved", "staged"}
                /\ b = [from |-> checkpoint.offset, to |-> work.end]
       /\ \A b, c \in fragments : b = c \/ RecordsOf(b) \cap RecordsOf(c) = {}
       /\ \A b \in work.batches : b.to <= checkpoint.offset
       /\ \A w \in Windows : \A i \in datasets[w] : i <= checkpoint.offset
       /\ work.phase \in {"publishing", "recording"} =>
             /\ \A b \in fragments : FullyConsumed(b) \/ b \in work.batches
             /\ \A w \in work.todo : InWindow(w, RecordsIn(work.batches)) # {}

(* All records of window w in b come after those in its dataset. *)
Later(w, b) == \A i \in InWindow(w, RecordsOf(b)) : \A j \in datasets[w] : j < i

(* Without a fault and without a late record, what is still to be published *)
(* of a window that has a dataset would be late, and a dataset has its      *)
(* handoff or gets it before the call ends.                                 *)
Timely ==
    faults = 0 /\ ~LateRecord =>
       /\ memory.status # "blocked"
       /\ \A b \in fragments, w \in Windows :
             FullyConsumed(b) \/ (InRecording(w) /\ b \in work.refs) \/ Later(w, b)
       /\ work.phase \in {"publishing", "recording"} =>
             \A w \in work.todo, b \in work.batches : InRecording(w) \/ Later(w, b)
       /\ \A w \in Windows :
             datasets[w] # {} => w \in handoffs \/ w \in work.done \/ InRecording(w)

IInv ==
    /\ TypeOK
    /\ CallSoFar
    /\ SavedOnDisk
    /\ Covered
    /\ PublishedHeld
    /\ RefsHeld
    /\ Orderly
    /\ Timely

-----------------------------------------------------------------------------
LEMMA InitIInv == Init => IInv
<1> SUFFICES ASSUME Init PROVE IInv
  OBVIOUS
<1> USE ExtractionAssumption
<1>1. TypeOK
  <2>1. /\ 0 \in 0..MaxRecords /\ 0 \in 0..MaxRequests /\ 0 \in 0..MaxFaults
        /\ 0 \in 0..MaxAttempts
    OBVIOUS
  <2>2. consumption \in [Batches -> [referenced : SUBSET Windows, published : SUBSET Windows]]
    BY DEF Init
  <2>3. work \in [phase : Phases, flush : Windows \cup {0}, end : 0..MaxRecords,
                  batches : SUBSET Batches, todo : SUBSET Windows, done : SUBSET Windows,
                  refs : SUBSET Batches]
    BY <2>1 DEF Init, Idle, Phases
  <2>5. memory \in [status : {"waiting", "queued", "failed", "blocked"},
                    attempt : 0..MaxAttempts, known : 0..MaxRecords]
    BY <2>1 DEF Init, Fresh
  <2>4. checkpoint \in [offset : 0..MaxRecords, staged : 0..MaxRecords]
    BY <2>1 DEF Init
  <2> QED
    BY <2>1, <2>2, <2>3, <2>4, <2>5 DEF Init, TypeOK
<1>2. CallSoFar /\ SavedOnDisk /\ RefsHeld
  BY DEF Init, CallSoFar, SavedOnDisk, RefsHeld, InRecording, Idle
<1>3. Covered /\ PublishedHeld
  <2>1. \A i \in Records : ~(i <= checkpoint.offset)
    BY DEF Init, Records
  <2> QED
    BY <2>1 DEF Init, Covered, PublishedHeld
<1>4. Orderly
  BY DEF Init, Orderly, Idle
<1>5. Timely
  BY DEF Init, Timely, Idle, Fresh
<1> QED
  BY <1>1, <1>2, <1>3, <1>4, <1>5 DEF IInv

(* A step that leaves checkpoint and datasets keeps what is late; one that  *)
(* moves the checkpoint on or adds a dataset can only make more late.       *)
LEMMA LateForGood ==
    ASSUME TypeOK, checkpoint' \in [offset : 0..MaxRecords, staged : 0..MaxRecords],
           checkpoint.offset <= checkpoint'.offset,
           \A w \in Windows : datasets[w] = {} \/ datasets'[w] = datasets[w],
           LateRecord
    PROVE  LateRecord'
<1>1. PICK i \in Records :
         /\ i <= checkpoint.offset
         /\ datasets[WindowOf[i]] # {}
         /\ \A j \in datasets[WindowOf[i]] : j < i
  BY DEF LateRecord
<1>2. WindowOf[i] \in Windows
  BY ExtractionAssumption DEF Records
<1>3. datasets'[WindowOf[i]] = datasets[WindowOf[i]]
  BY <1>1, <1>2
<1>4. i <= checkpoint'.offset
  BY <1>1, ExtractionAssumption DEF TypeOK, Records
<1> QED
  BY <1>1, <1>3, <1>4 DEF LateRecord

(* What is on disk and in consumption records is not touched by a step of   *)
(* the call's memory alone.                                                 *)
LEMMA DiskStays ==
    ASSUME UNCHANGED disk
    PROVE  /\ UNCHANGED <<checkpoint, fragments, temporary, consumption, datasets, handoffs>>
           /\ LateRecord' = LateRecord
           /\ \A b : FullyConsumed(b)' = FullyConsumed(b)
           /\ \A w, b : Later(w, b)' = Later(w, b)
BY DEF disk, LateRecord, FullyConsumed, Later

(* The end of a call. *)
LEMMA ReturnKeeps ==
    ASSUME IInv, work' = Idle, TypeOK',
           UNCHANGED <<checkpoint, fragments, consumption, datasets, handoffs>>,
           faults' = 0 => /\ faults = 0 /\ temporary' = temporary /\ checkpoint.staged = 0
                          /\ work.phase \notin {"saved", "staged", "recording"}
                          /\ LateRecord \/ memory'.status # "blocked"
                          /\ LateRecord \/ \A w \in Windows : datasets[w] # {} => w \in handoffs
    PROVE  IInv'
<1>1. /\ work'.phase = "idle" /\ work'.batches = {} /\ work'.todo = {}
      /\ work'.done = {} /\ work'.refs = {}
  BY DEF Idle
<1>2. /\ LateRecord' = LateRecord
      /\ \A b : FullyConsumed(b)' = FullyConsumed(b)
      /\ \A w, b : Later(w, b)' = Later(w, b)
  BY DEF LateRecord, FullyConsumed, Later
<1>3. CallSoFar' /\ SavedOnDisk' /\ RefsHeld'
  BY <1>1 DEF CallSoFar, SavedOnDisk, RefsHeld, InRecording
<1>4. Covered' /\ PublishedHeld'
  BY <1>2 DEF IInv, Covered, PublishedHeld
<1>5. Orderly'
  <2>1. SUFFICES ASSUME faults' = 0 PROVE Orderly'
    BY DEF Orderly
  <2>2. \A b \in fragments : b.to <= checkpoint.offset
    BY <2>1 DEF IInv, Orderly, TypeOK
  <2> QED
    BY <1>1, <1>2, <2>1, <2>2 DEF IInv, Orderly
<1>6. Timely'
  BY <1>1, <1>2 DEF IInv, Timely, InRecording
<1> QED
  BY <1>3, <1>4, <1>5, <1>6 DEF IInv

(* A step before anything is published or saved: a call begins, or turns to *)
(* reading.                                                                 *)
LEMMA EarlyKeeps ==
    ASSUME IInv, TypeOK', UNCHANGED <<disk, memory, faults>>,
           work.phase \in {"idle", "begun"}, work'.phase \in {"begun", "reading"},
           work'.batches = {}, work'.todo = {}, work'.done = {}, work'.refs = {}
    PROVE  IInv'
<1>1. work.done = {}
  BY DEF IInv, CallSoFar
<1>2. CallSoFar' /\ SavedOnDisk' /\ RefsHeld'
  BY DEF CallSoFar, SavedOnDisk, RefsHeld, InRecording
<1>3. Covered' /\ PublishedHeld'
  BY DiskStays DEF IInv, Covered, PublishedHeld
<1>4. Orderly'
  BY DiskStays DEF IInv, Orderly
<1>5. Timely'
  BY <1>1, DiskStays DEF IInv, Timely, InRecording
<1> QED
  BY <1>2, <1>3, <1>4, <1>5 DEF IInv

LEMMA AppendKeeps == IInv /\ Append => IInv'
<1> SUFFICES ASSUME IInv, Append PROVE IInv'
  OBVIOUS
<1>1. UNCHANGED <<disk, memory, work, faults>>
  BY DEF Append
<1>2. TypeOK'
  <2>1. source' \in 0..MaxRecords
    BY ExtractionAssumption DEF Append, IInv, TypeOK
  <2>2. tail' \in BOOLEAN
    BY DEF Append
  <2>3. UNCHANGED <<checkpoint, fragments, temporary, consumption, datasets, handoffs,
                    memory, work, requests, faults>>
    BY DEF Append, disk
  <2> QED
    BY <2>1, <2>2, <2>3 DEF IInv, TypeOK
<1>3. CallSoFar' /\ SavedOnDisk' /\ RefsHeld'
  BY <1>1 DEF IInv, CallSoFar, SavedOnDisk, RefsHeld, InRecording, disk
<1>4. Covered' /\ PublishedHeld'
  BY <1>1, DiskStays DEF IInv, Covered, PublishedHeld
<1>5. Orderly'
  BY <1>1, DiskStays DEF IInv, Orderly
<1>6. Timely'
  BY <1>1, DiskStays DEF IInv, Timely, InRecording
<1> QED
  BY <1>2, <1>3, <1>4, <1>5, <1>6 DEF IInv

LEMMA BeginKeeps ==
    ASSUME IInv, NEW flush \in Windows \cup {0}, BeginWith(flush), requests' \in 0..MaxRequests
    PROVE  IInv'
<1>1. work' = [Idle EXCEPT !.phase = "begun", !.flush = flush]
  BY DEF BeginWith
<1>2. /\ work'.phase = "begun" /\ work'.batches = {} /\ work'.todo = {}
      /\ work'.done = {} /\ work'.refs = {}
  BY <1>1 DEF Idle
<1>3. work' \in [phase : Phases, flush : Windows \cup {0}, end : 0..MaxRecords,
                 batches : SUBSET Batches, todo : SUBSET Windows, done : SUBSET Windows,
                 refs : SUBSET Batches]
  <2>1. work' = [phase |-> "begun", flush |-> flush, end |-> 0, batches |-> {},
                 todo |-> {}, done |-> {}, refs |-> {}]
    BY <1>1 DEF Idle
  <2>2. 0 \in 0..MaxRecords
    BY ExtractionAssumption
  <2> QED
    BY <2>1, <2>2 DEF Phases
<1>4. TypeOK'
  BY <1>3 DEF BeginWith, IInv, TypeOK, disk
<1> QED
  BY <1>2, <1>4, EarlyKeeps DEF BeginWith

LEMMA MarkProcessingKeeps == IInv /\ MarkProcessing => IInv'
<1> SUFFICES ASSUME IInv, MarkProcessing PROVE IInv'
  OBVIOUS
<1>1. work.phase = "begun" /\ work' = [work EXCEPT !.phase = "reading"]
  BY DEF MarkProcessing, GoOn
<1>2. /\ work'.phase = "reading" /\ work'.batches = {} /\ work'.todo = {}
      /\ work'.done = {} /\ work'.refs = {}
  BY <1>1 DEF IInv, CallSoFar, TypeOK
<1>3. TypeOK'
  BY <1>1 DEF MarkProcessing, IInv, TypeOK, disk, Phases
<1> QED
  BY <1>1, <1>2, <1>3, EarlyKeeps DEF MarkProcessing

-----------------------------------------------------------------------------
(* A call that returns leaves what TypeOK says of the manager's memory. *)
LEMMA ReturnTyped ==
    ASSUME TypeOK, NEW status \in {"waiting", "queued", "failed", "blocked"},
           NEW attempt \in 0..MaxAttempts, NEW known \in 0..MaxRecords,
           Return(status, attempt, known),
           UNCHANGED <<source, tail, checkpoint, fragments, temporary, consumption,
                       datasets, handoffs, requests>>,
           faults' \in 0..MaxFaults
    PROVE  TypeOK' /\ work' = Idle /\ memory'.status = status
<1>1. work' = Idle /\ memory' = [status |-> status, attempt |-> attempt, known |-> known]
  BY DEF Return
<1>2. Idle \in [phase : Phases, flush : Windows \cup {0}, end : 0..MaxRecords,
                batches : SUBSET Batches, todo : SUBSET Windows, done : SUBSET Windows,
                refs : SUBSET Batches]
  BY ExtractionAssumption DEF Idle, Phases
<1>3. memory' \in [status : {"waiting", "queued", "failed", "blocked"},
                   attempt : 0..MaxAttempts, known : 0..MaxRecords]
  BY <1>1
<1> QED
  BY <1>1, <1>2, <1>3 DEF TypeOK

LEMMA BlockTyped ==
    ASSUME TypeOK, Block,
           UNCHANGED <<source, tail, checkpoint, fragments, temporary, consumption,
                       datasets, handoffs, requests>>,
           faults' \in 0..MaxFaults
    PROVE  TypeOK' /\ work' = Idle
<1>1. memory.attempt \in 0..MaxAttempts /\ memory.known \in 0..MaxRecords
  BY DEF TypeOK
<1> QED
  BY <1>1, ReturnTyped DEF Block

LEMMA NoDataKeeps == IInv /\ NoData => IInv'
<1> SUFFICES ASSUME IInv, NoData PROVE IInv'
  OBVIOUS
<1>1. /\ Return("waiting", 0, source)
      /\ UNCHANGED <<source, tail, disk, requests, faults>>
      /\ work.phase \in {"begun", "reading"}
      /\ checkpoint.staged = 0
  BY DEF NoData
<1>2. 0 \in 0..MaxAttempts /\ source \in 0..MaxRecords /\ faults \in 0..MaxFaults
  BY ExtractionAssumption DEF IInv, TypeOK
<1>3. TypeOK' /\ work' = Idle /\ memory'.status = "waiting"
  BY <1>1, <1>2, ReturnTyped DEF IInv, disk
<1>4. faults = 0 => LateRecord \/ \A w \in Windows : datasets[w] # {} => w \in handoffs
  BY <1>1 DEF IInv, Timely, CallSoFar, InRecording
<1> QED
  BY <1>1, <1>3, <1>4, ReturnKeeps DEF disk

LEMMA FinishKeeps == IInv /\ Finish => IInv'
<1> SUFFICES ASSUME IInv, Finish PROVE IInv'
  OBVIOUS
<1>1. /\ Return("waiting", 0, memory.known)
      /\ UNCHANGED <<source, tail, disk, requests, faults>>
      /\ work.phase = "handing" /\ work.done = {}
  BY DEF Finish
<1>2. 0 \in 0..MaxAttempts /\ memory.known \in 0..MaxRecords /\ faults \in 0..MaxFaults
  BY ExtractionAssumption DEF IInv, TypeOK
<1>3. TypeOK' /\ work' = Idle /\ memory'.status = "waiting"
  BY <1>1, <1>2, ReturnTyped DEF IInv, disk
<1>4. faults = 0 => LateRecord \/ \A w \in Windows : datasets[w] # {} => w \in handoffs
  BY <1>1 DEF IInv, Timely, InRecording
<1>5. faults = 0 => checkpoint.staged = 0
  BY <1>1 DEF IInv, Orderly
<1> QED
  BY <1>1, <1>3, <1>4, <1>5, ReturnKeeps DEF disk

(* After a fault, only the parts that hold through faults are left to show. *)
LEMMA WriteFailsKeeps == IInv /\ WriteFails => IInv'
<1> SUFFICES ASSUME IInv, WriteFails PROVE IInv'
  OBVIOUS
<1>1. Retryable /\ UNCHANGED <<source, tail, disk, requests>>
  BY DEF WriteFails
<1>2. faults' \in 0..MaxFaults /\ faults' # 0
  BY ExtractionAssumption DEF WriteFails, IInv, TypeOK
<1>3. memory.attempt \in 0..MaxAttempts /\ memory.known \in 0..MaxRecords
  BY DEF IInv, TypeOK
<1>4. CASE memory.attempt + 1 >= MaxAttempts
  <2>1. Return("failed", MaxAttempts, memory.known) /\ MaxAttempts \in 0..MaxAttempts
    BY <1>1, <1>4, ExtractionAssumption DEF Retryable
  <2>2. TypeOK' /\ work' = Idle
    BY <1>1, <1>2, <1>3, <2>1, ReturnTyped DEF IInv, disk
  <2> QED
    BY <1>1, <1>2, <2>2, ReturnKeeps DEF disk
<1>5. CASE ~(memory.attempt + 1 >= MaxAttempts)
  <2>1. Return("queued", memory.attempt + 1, memory.known)
    BY <1>1, <1>5 DEF Retryable
  <2>2. memory.attempt + 1 \in 0..MaxAttempts
    BY <1>3, <1>5, ExtractionAssumption
  <2>3. TypeOK' /\ work' = Idle
    BY <1>1, <1>2, <1>3, <2>1, <2>2, ReturnTyped DEF IInv, disk
  <2> QED
    BY <1>1, <1>2, <2>3, ReturnKeeps DEF disk
<1> QED
  BY <1>4, <1>5

LEMMA PublicationFailsKeeps == IInv /\ PublicationFails => IInv'
<1> SUFFICES ASSUME IInv, PublicationFails PROVE IInv'
  OBVIOUS
<1>1. Block /\ UNCHANGED <<source, tail, disk, requests>>
  BY DEF PublicationFails
<1>2. faults' \in 0..MaxFaults /\ faults' # 0
  BY ExtractionAssumption DEF PublicationFails, IInv, TypeOK
<1>3. TypeOK' /\ work' = Idle
  BY <1>1, <1>2, BlockTyped DEF IInv, disk
<1> QED
  BY <1>1, <1>2, <1>3, ReturnKeeps DEF disk

(* Where a read of the source ends. *)
LEMMA ReadEndBounds ==
    ASSUME TypeOK, source > checkpoint.offset
    PROVE  /\ ReadEnd \in 0..MaxRecords
           /\ checkpoint.offset < ReadEnd
           /\ [from |-> checkpoint.offset, to |-> ReadEnd] \in Batches
<1>1. source \in 0..MaxRecords /\ checkpoint.offset \in 0..MaxRecords
  BY DEF TypeOK
<1>2. ReadEnd \in 0..MaxRecords /\ checkpoint.offset < ReadEnd
  BY <1>1, ExtractionAssumption DEF ReadEnd
<1> QED
  BY <1>1, <1>2 DEF Batches

LEMMA CrashKeeps == IInv /\ Crash => IInv'
<1> SUFFICES ASSUME IInv, Crash PROVE IInv'
  OBVIOUS
<1>1. /\ memory' = Fresh /\ work' = Idle
      /\ UNCHANGED <<source, tail, checkpoint, fragments, consumption, datasets, handoffs,
                     requests>>
  BY DEF Crash
<1>2. faults' \in 0..MaxFaults /\ faults' # 0
  BY ExtractionAssumption DEF Crash, IInv, TypeOK
<1>3. temporary' \subseteq Batches
  BY ReadEndBounds DEF Crash, IInv, TypeOK
<1>4. Fresh \in [status : {"waiting", "queued", "failed", "blocked"},
                 attempt : 0..MaxAttempts, known : 0..MaxRecords]
  BY ExtractionAssumption DEF Fresh
<1>5. Idle \in [phase : Phases, flush : Windows \cup {0}, end : 0..MaxRecords,
                batches : SUBSET Batches, todo : SUBSET Windows, done : SUBSET Windows,
                refs : SUBSET Batches]
  BY ExtractionAssumption DEF Idle, Phases
<1>6. TypeOK'
  BY <1>1, <1>2, <1>3, <1>4, <1>5 DEF IInv, TypeOK
<1> QED
  BY <1>1, <1>2, <1>6, ReturnKeeps

-----------------------------------------------------------------------------
(* A batch whose fragment exists is committed. *)
LEMMA CommitCovers ==
    ASSUME IInv, NEW e \in 0..MaxRecords, checkpoint' = [offset |-> e, staged |-> 0],
           [from |-> checkpoint.offset, to |-> e] \in fragments,
           UNCHANGED <<fragments, consumption>>
    PROVE  Covered' /\ checkpoint.offset < e
<1> DEFINE new == [from |-> checkpoint.offset, to |-> e]
<1>1. new \in Batches /\ new.from = checkpoint.offset /\ new.to = e
  BY DEF IInv, TypeOK
<1>2. checkpoint.offset < e
  BY <1>1 DEF Batches
<1>3. ASSUME NEW i \in Records, i <= e
      PROVE  \E b \in Batches : i \in RecordsOf(b) /\ (b \in fragments \/ FullyConsumed(b)')
  <2>1. CASE i <= checkpoint.offset
    BY <2>1 DEF IInv, Covered, FullyConsumed
  <2>2. CASE ~(i <= checkpoint.offset)
    <3>1. i \in RecordsOf(new)
      BY <1>1, <1>3, <2>2, ExtractionAssumption DEF RecordsOf, Records, IInv, TypeOK
    <3> QED
      BY <1>1, <3>1
  <2> QED
    BY <2>1, <2>2
<1>4. checkpoint'.offset = e
  OBVIOUS
<1> QED
  BY <1>2, <1>3, <1>4 DEF Covered

LEMMA RecoverKeeps == IInv /\ Recover => IInv'
<1> SUFFICES ASSUME IInv, Recover PROVE IInv'
  OBVIOUS
<1>1. /\ work.phase = "begun" /\ checkpoint.staged # 0
      /\ UNCHANGED <<source, tail, fragments, temporary, consumption, datasets, handoffs,
                     requests, faults>>
  BY DEF Recover
<1>2. faults # 0 /\ faults \in 0..MaxFaults
  BY <1>1 DEF IInv, Orderly, TypeOK
<1>3. CASE Block /\ UNCHANGED checkpoint
  <2>1. TypeOK' /\ work' = Idle
    BY <1>1, <1>2, <1>3, BlockTyped DEF IInv
  <2> QED
    BY <1>1, <1>2, <1>3, <2>1, ReturnKeeps
<1>4. CASE ~(Block /\ UNCHANGED checkpoint)
  <2>1. /\ [from |-> checkpoint.offset, to |-> checkpoint.staged] \in fragments
        /\ checkpoint' = [offset |-> checkpoint.staged, staged |-> 0]
        /\ UNCHANGED <<memory, work>>
    BY <1>4 DEF Recover
  <2>2. checkpoint.staged \in 0..MaxRecords
    BY DEF IInv, TypeOK
  <2>3. Covered'
    BY <1>1, <2>1, <2>2, CommitCovers
  <2>4. TypeOK'
    BY <1>1, <2>1, <2>2, ExtractionAssumption DEF IInv, TypeOK
  <2>5. CallSoFar' /\ SavedOnDisk' /\ RefsHeld' /\ PublishedHeld'
    BY <1>1, <2>1 DEF IInv, CallSoFar, SavedOnDisk, RefsHeld, PublishedHeld, InRecording
  <2>6. Orderly' /\ Timely'
    BY <1>1, <1>2 DEF Orderly, Timely
  <2> QED
    BY <2>3, <2>4, <2>5, <2>6 DEF IInv
<1> QED
  BY <1>3, <1>4

LEMMA SaveFragmentKeeps == IInv /\ SaveFragment => IInv'
<1> SUFFICES ASSUME IInv, SaveFragment PROVE IInv'
  OBVIOUS
<1> DEFINE new == [from |-> checkpoint.offset, to |-> ReadEnd]
<1>1. /\ work.phase = "reading" /\ source > checkpoint.offset
      /\ fragments' = fragments \cup {new}
      /\ work' = [work EXCEPT !.phase = "saved", !.end = ReadEnd]
      /\ UNCHANGED <<source, tail, checkpoint, temporary, consumption, datasets, handoffs,
                     memory, requests, faults>>
  BY DEF SaveFragment
<1>2. ReadEnd \in 0..MaxRecords /\ checkpoint.offset < ReadEnd /\ new \in Batches
  BY <1>1, ReadEndBounds DEF IInv
<1>3. /\ work'.phase = "saved" /\ work'.end = ReadEnd /\ work'.batches = {}
      /\ work'.todo = {} /\ work'.done = {} /\ work'.refs = {}
  BY <1>1 DEF IInv, TypeOK, CallSoFar
<1>4. work' \in [phase : Phases, flush : Windows \cup {0}, end : 0..MaxRecords,
                 batches : SUBSET Batches, todo : SUBSET Windows, done : SUBSET Windows,
                 refs : SUBSET Batches]
  BY <1>1, <1>2 DEF IInv, TypeOK, Phases
<1>5. TypeOK'
  BY <1>1, <1>2, <1>4 DEF IInv, TypeOK
<1>6. /\ LateRecord' = LateRecord
      /\ \A b : FullyConsumed(b)' = FullyConsumed(b)
      /\ \A w, b : Later(w, b)' = Later(w, b)
  BY <1>1 DEF LateRecord, FullyConsumed, Later
<1>7. CallSoFar' /\ SavedOnDisk' /\ RefsHeld'
  BY <1>1, <1>3 DEF CallSoFar, SavedOnDisk, RefsHeld, InRecording
<1>8. Covered' /\ PublishedHeld'
  BY <1>1, <1>6 DEF IInv, Covered, PublishedHeld
<1>9. ASSUME faults = 0, NEW b \in fragments PROVE RecordsOf(b) \cap RecordsOf(new) = {}
  <2>1. b.to <= checkpoint.offset
    BY <1>1, <1>9 DEF IInv, Orderly
  <2>2. b.to \in 0..MaxRecords /\ checkpoint.offset \in 0..MaxRecords
    BY DEF IInv, TypeOK, Batches
  <2> QED
    BY <2>1, <2>2 DEF RecordsOf, Records
<1>10. Orderly'
  <2>1. SUFFICES ASSUME faults = 0 PROVE Orderly'
    BY <1>1 DEF Orderly
  <2>2. \A b \in fragments' : b.to <= checkpoint.offset \/ b = new
    BY <1>1, <2>1 DEF IInv, Orderly
  <2>3. \A b, c \in fragments' : b = c \/ RecordsOf(b) \cap RecordsOf(c) = {}
    BY <1>1, <1>9, <2>1 DEF IInv, Orderly
  <2>4. /\ temporary = {} /\ checkpoint.staged = 0
        /\ \A w \in Windows : \A i \in datasets[w] : i <= checkpoint.offset
    BY <1>1, <2>1 DEF IInv, Orderly
  <2> QED
    BY <1>1, <1>3, <2>2, <2>3, <2>4 DEF Orderly
<1>11. Timely'
  <2>1. SUFFICES ASSUME faults = 0, ~LateRecord PROVE Timely'
    BY <1>1, <1>6 DEF Timely
  <2>2. ASSUME NEW w \in Windows PROVE Later(w, new)
    <3>1. \A j \in datasets[w] : j <= checkpoint.offset /\ j \in Records
      BY <2>1 DEF IInv, Orderly, TypeOK
    <3>2. \A i \in RecordsOf(new) : checkpoint.offset < i /\ i \in Records
      BY DEF RecordsOf
    <3> QED
      BY <3>1, <3>2, ExtractionAssumption DEF Later, InWindow, Records, IInv, TypeOK
  <2>3. \A b \in fragments, w \in Windows : FullyConsumed(b) \/ Later(w, b)
    BY <1>1, <2>1 DEF IInv, Timely, InRecording
  <2>4. memory.status # "blocked" /\ \A w \in Windows : datasets[w] # {} => w \in handoffs
    BY <1>1, <2>1 DEF IInv, Timely, CallSoFar, InRecording
  <2> QED
    BY <1>1, <1>3, <1>6, <2>2, <2>3, <2>4 DEF Timely
<1> QED
  BY <1>5, <1>7, <1>8, <1>10, <1>11 DEF IInv

LEMMA StageKeeps == IInv /\ Stage => IInv'
<1> SUFFICES ASSUME IInv, Stage PROVE IInv'
  OBVIOUS
<1>1. /\ work.phase = "saved"
      /\ checkpoint' = [checkpoint EXCEPT !.staged = work.end]
      /\ work' = [work EXCEPT !.phase = "staged"]
      /\ UNCHANGED <<source, tail, fragments, temporary, consumption, datasets, handoffs,
                     memory, requests, faults>>
  BY DEF Stage, GoOn
<1>2. /\ work'.phase = "staged" /\ work'.end = work.end /\ work'.batches = {}
      /\ work'.todo = {} /\ work'.done = {} /\ work'.refs = {}
  BY <1>1 DEF IInv, TypeOK, CallSoFar
<1>3. checkpoint'.offset = checkpoint.offset
  BY <1>1 DEF IInv, TypeOK
<1>4. TypeOK'
  BY <1>1 DEF IInv, TypeOK, Phases
<1>5. /\ LateRecord' = LateRecord
      /\ \A b : FullyConsumed(b)' = FullyConsumed(b)
      /\ \A w, b : Later(w, b)' = Later(w, b)
  BY <1>1, <1>3 DEF LateRecord, FullyConsumed, Later
<1>6. CallSoFar' /\ SavedOnDisk' /\ RefsHeld'
  BY <1>1, <1>2, <1>3 DEF IInv, CallSoFar, SavedOnDisk, RefsHeld, InRecording
<1>7. Covered' /\ PublishedHeld'
  BY <1>1, <1>3, <1>5 DEF IInv, Covered, PublishedHeld
<1>8. Orderly'
  BY <1>1, <1>2, <1>3, <1>5 DEF IInv, Orderly
<1>9. Timely'
  BY <1>1, <1>2, <1>5 DEF IInv, Timely, InRecording, CallSoFar
<1> QED
  BY <1>4, <1>6, <1>7, <1>8, <1>9 DEF IInv

LEMMA CommitKeeps == IInv /\ Commit => IInv'
<1> SUFFICES ASSUME IInv, Commit PROVE IInv'
  OBVIOUS
<1>1. /\ work.phase = "staged"
      /\ checkpoint' = [offset |-> work.end, staged |-> 0]
      /\ memory' = [memory EXCEPT !.known = work.end]
      /\ work' = [work EXCEPT !.phase = "collecting"]
      /\ UNCHANGED <<source, tail, fragments, temporary, consumption, datasets, handoffs,
                     requests, faults>>
  BY DEF Commit, GoOn
<1>2. /\ work'.phase = "collecting" /\ work'.batches = {} /\ work'.todo = {}
      /\ work'.done = {} /\ work'.refs = {}
  BY <1>1 DEF IInv, TypeOK, CallSoFar
<1>3. work.end \in 0..MaxRecords /\ 0 \in 0..MaxRecords
  BY ExtractionAssumption DEF IInv, TypeOK
<1>4. TypeOK'
  <2>1. work' \in [phase : Phases, flush : Windows \cup {0}, end : 0..MaxRecords,
                   batches : SUBSET Batches, todo : SUBSET Windows, done : SUBSET Windows,
                   refs : SUBSET Batches]
    BY <1>1 DEF IInv, TypeOK, Phases
  <2>2. memory' \in [status : {"waiting", "queued", "failed", "blocked"},
                     attempt : 0..MaxAttempts, known : 0..MaxRecords]
    BY <1>1, <1>3 DEF IInv, TypeOK
  <2>3. checkpoint' \in [offset : 0..MaxRecords, staged : 0..MaxRecords]
    BY <1>1, <1>3
  <2> QED
    BY <1>1, <2>1, <2>2, <2>3 DEF IInv, TypeOK
<1>5. Covered' /\ checkpoint.offset < work.end
  BY <1>1, <1>3, CommitCovers DEF IInv, SavedOnDisk
<1>6. checkpoint'.offset = work.end /\ checkpoint'.staged = 0
  BY <1>1
<1>7. LateRecord => LateRecord'
  BY <1>1, <1>4, <1>5, <1>6, LateForGood DEF IInv, TypeOK
<1>8. /\ \A b : FullyConsumed(b)' = FullyConsumed(b)
      /\ \A w, b : Later(w, b)' = Later(w, b)
  BY <1>1 DEF FullyConsumed, Later
<1>9. CallSoFar' /\ SavedOnDisk' /\ RefsHeld' /\ PublishedHeld'
  BY <1>1, <1>2 DEF IInv, CallSoFar, SavedOnDisk, RefsHeld, PublishedHeld, InRecording
<1>10. Orderly'
  <2>1. SUFFICES ASSUME faults = 0 PROVE Orderly'
    BY <1>1 DEF Orderly
  <2>2. \A b \in fragments : b.to <= work.end
    BY <1>5, <2>1, <1>3 DEF IInv, Orderly, TypeOK, Batches
  <2>3. \A w \in Windows : \A i \in datasets[w] : i <= work.end
    <3>1. \A w \in Windows : \A i \in datasets[w] : i <= checkpoint.offset /\ i \in Records
      BY <2>1 DEF IInv, Orderly, TypeOK
    <3> QED
      BY <3>1, <1>3, <1>5, ExtractionAssumption DEF IInv, TypeOK, Records
  <2>4. temporary = {} /\ \A b, c \in fragments : b = c \/ RecordsOf(b) \cap RecordsOf(c) = {}
    BY <2>1 DEF IInv, Orderly
  <2> QED
    BY <1>1, <1>2, <1>6, <2>2, <2>3, <2>4 DEF Orderly
<1>11. Timely'
  <2>1. SUFFICES ASSUME faults = 0, ~LateRecord PROVE Timely'
    BY <1>1, <1>7 DEF Timely
  <2>2. memory'.status = memory.status
    BY <1>1 DEF IInv, TypeOK
  <2> QED
    BY <1>1, <1>2, <1>8, <2>1, <2>2 DEF IInv, Timely, InRecording, CallSoFar
<1> QED
  BY <1>4, <1>5, <1>9, <1>10, <1>11 DEF IInv

-----------------------------------------------------------------------------
LEMMA CollectKeeps == IInv /\ Collect => IInv'
<1> SUFFICES ASSUME IInv, Collect PROVE IInv'
  OBVIOUS
<1> DEFINE batches == Discovered \cup DiscoveredTemporary
           closed == {w \in Windows : Closed(w, RecordsIn(batches))}
<1>1. work.phase = "collecting" /\ UNCHANGED <<source, tail, disk, requests, faults>>
  BY DEF Collect
<1>2. faults \in 0..MaxFaults /\ memory.known \in 0..MaxRecords /\ 0 \in 0..MaxAttempts
  BY ExtractionAssumption DEF IInv, TypeOK
<1>3. faults = 0 => checkpoint.staged = 0 /\ temporary = {} /\ ~Conflicting
  BY <1>1 DEF IInv, Orderly, Conflicting, Discovered, DiscoveredTemporary
<1>4. faults = 0 => LateRecord \/ \A w \in Windows : datasets[w] # {} => w \in handoffs
  BY <1>1 DEF IInv, Timely, CallSoFar, InRecording
<1>5. CASE Conflicting
  <2>1. Block
    BY <1>5 DEF Collect
  <2>2. TypeOK' /\ work' = Idle
    BY <1>1, <1>2, <2>1, BlockTyped DEF IInv, disk
  <2> QED
    BY <1>1, <1>3, <1>5, <2>2, ReturnKeeps DEF disk
<1>6. CASE ~Conflicting /\ closed = {}
  <2>1. Return("waiting", 0, memory.known)
    BY <1>6 DEF Collect
  <2>2. TypeOK' /\ work' = Idle /\ memory'.status = "waiting"
    BY <1>1, <1>2, <2>1, ReturnTyped DEF IInv, disk
  <2> QED
    BY <1>1, <1>3, <1>4, <2>2, ReturnKeeps DEF disk
<1>7. CASE ~Conflicting /\ closed # {}
  <2>1. /\ work' = [work EXCEPT !.phase = "publishing", !.batches = batches, !.todo = closed]
        /\ UNCHANGED memory
    BY <1>7 DEF Collect
  <2>2. batches \subseteq Batches /\ closed \subseteq Windows
    BY DEF Discovered, DiscoveredTemporary, IInv, TypeOK
  <2>3. /\ work'.phase = "publishing" /\ work'.batches = batches /\ work'.todo = closed
        /\ work'.done = {} /\ work'.refs = {}
    BY <1>1, <2>1 DEF IInv, TypeOK, CallSoFar
  <2>4. TypeOK'
    <3>1. work' \in [phase : Phases, flush : Windows \cup {0}, end : 0..MaxRecords,
                     batches : SUBSET Batches, todo : SUBSET Windows, done : SUBSET Windows,
                     refs : SUBSET Batches]
      BY <2>1, <2>2 DEF IInv, TypeOK, Phases
    <3> QED
      BY <1>1, <2>1, <3>1 DEF IInv, TypeOK, disk
  <2>5. CallSoFar' /\ SavedOnDisk' /\ RefsHeld'
    BY <2>3 DEF CallSoFar, SavedOnDisk, RefsHeld, InRecording
  <2>6. Covered' /\ PublishedHeld'
    BY <1>1, DiskStays DEF IInv, Covered, PublishedHeld
  <2>7. faults = 0 => batches = {b \in fragments : ~FullyConsumed(b)}
    BY <1>3 DEF Discovered, DiscoveredTemporary
  <2>8. Orderly'
    <3>1. SUFFICES ASSUME faults = 0 PROVE Orderly'
      BY <1>1 DEF Orderly
    <3>2. \A b \in fragments : b.to <= checkpoint.offset
      BY <1>1, <3>1 DEF IInv, Orderly
    <3>3. \A w \in closed : InWindow(w, RecordsIn(batches)) # {}
      BY DEF Closed
    <3>4. /\ temporary = {} /\ checkpoint.staged = 0
          /\ \A b, c \in fragments : b = c \/ RecordsOf(b) \cap RecordsOf(c) = {}
          /\ \A w \in Windows : \A i \in datasets[w] : i <= checkpoint.offset
      BY <1>1, <3>1 DEF IInv, Orderly
    <3>5. UNCHANGED <<checkpoint, fragments, temporary, datasets>>
      BY <1>1 DEF disk
    <3>6. \A b \in fragments' : FullyConsumed(b)' \/ b \in work'.batches
      BY <1>1, <2>3, <2>7, <3>1, DiskStays
    <3>7. \A w \in work'.todo : InWindow(w, RecordsIn(work'.batches)) # {}
      BY <2>3, <3>3
    <3>8. \A b \in work'.batches : b.to <= checkpoint.offset
      BY <2>3, <2>7, <3>1, <3>2
    <3> QED
      BY <2>3, <3>2, <3>4, <3>5, <3>6, <3>7, <3>8 DEF Orderly
  <2>9. Timely'
    <3>1. SUFFICES ASSUME faults = 0, ~LateRecord PROVE Timely'
      BY <1>1, DiskStays DEF Timely
    <3>2. \A b \in fragments, w \in Windows : FullyConsumed(b) \/ Later(w, b)
      BY <1>1, <3>1 DEF IInv, Timely, InRecording
    <3>3. \A w \in closed, b \in batches : Later(w, b)
      BY <2>7, <3>1, <3>2
    <3>4. memory'.status # "blocked"
      BY <2>1, <3>1 DEF IInv, Timely
    <3>5. \A w \in Windows : datasets'[w] # {} => w \in handoffs'
      BY <1>1, <1>4, <3>1 DEF disk
    <3>6. \A b \in fragments', w \in Windows : FullyConsumed(b)' \/ Later(w, b)'
      BY <1>1, <3>2, DiskStays
    <3>7. \A w \in work'.todo, b \in work'.batches : Later(w, b)'
      BY <1>1, <2>3, <3>3, DiskStays
    <3> QED
      BY <3>4, <3>5, <3>6, <3>7 DEF Timely
  <2> QED
    BY <2>4, <2>5, <2>6, <2>8, <2>9 DEF IInv
<1> QED
  BY <1>5, <1>6, <1>7

(* Windows are taken in their order, one at a time. *)
LEMMA FirstIsOne ==
    ASSUME NEW windows \in SUBSET Windows, NEW v, NEW w, IsFirst(v, windows), IsFirst(w, windows)
    PROVE  v = w
<1>1. v \in Nat /\ w \in Nat /\ v <= w /\ w <= v
  BY ExtractionAssumption DEF IsFirst
<1> QED
  BY <1>1

(* Without a fault, what cannot be published is late. *)
LEMMA BlockedIsLate ==
    ASSUME IInv, NEW w \in work.todo, work.phase = "publishing", faults = 0,
           datasets[w] # {}
    PROVE  LateRecord
<1> SUFFICES ASSUME ~LateRecord PROVE FALSE
  OBVIOUS
<1>1. w \in Windows /\ work.batches \subseteq Batches
  BY DEF IInv, TypeOK
<1>2. InWindow(w, RecordsIn(work.batches)) # {}
  BY DEF IInv, Orderly
<1>3. PICK i : i \in RecordsIn(work.batches) /\ WindowOf[i] = w
  BY <1>2 DEF InWindow
<1>4. PICK b \in work.batches : i \in RecordsOf(b)
  BY <1>3 DEF RecordsIn
<1>5. Later(w, b)
  BY <1>4 DEF IInv, Timely, InRecording
<1>6. \A j \in datasets[w] : j < i
  BY <1>3, <1>4, <1>5 DEF Later, InWindow
<1>7. i \in Records /\ i <= b.to /\ b.to <= checkpoint.offset
  BY <1>4 DEF RecordsOf, IInv, Orderly
<1>8. i <= checkpoint.offset
  BY <1>1, <1>4, <1>7, ExtractionAssumption DEF Records, Batches, IInv, TypeOK
<1> QED
  BY <1>3, <1>6, <1>7, <1>8 DEF LateRecord

LEMMA PublishKeeps ==
    ASSUME IInv, NEW w \in Windows, Publish(w) PROVE IInv'
<1> DEFINE content == InWindow(w, RecordsIn(work.batches))
<1>1. /\ work.phase = "publishing" /\ IsFirst(w, work.todo)
      /\ UNCHANGED <<source, tail, checkpoint, fragments, temporary, consumption, handoffs,
                     requests, faults>>
  BY DEF Publish
<1>2. w \in work.todo
  BY <1>1 DEF IsFirst
<1>3. CASE datasets[w] \notin {{}, content}
  <2>1. Block /\ UNCHANGED datasets
    BY <1>3 DEF Publish
  <2>2. faults \in 0..MaxFaults
    BY DEF IInv, TypeOK
  <2>3. TypeOK' /\ work' = Idle
    BY <1>1, <2>1, <2>2, BlockTyped DEF IInv
  <2>4. faults = 0 => LateRecord /\ checkpoint.staged = 0
    BY <1>1, <1>2, <1>3, BlockedIsLate DEF IInv, Orderly
  <2> QED
    BY <1>1, <2>1, <2>3, <2>4, ReturnKeeps
<1>4. CASE datasets[w] \in {{}, content}
  <2> DEFINE refs == {b \in work.batches : InWindow(w, RecordsOf(b)) # {}}
  <2>1. /\ datasets' = [datasets EXCEPT ![w] = content]
        /\ work' = [work EXCEPT !.phase = "recording", !.refs = refs]
        /\ UNCHANGED memory
    BY <1>4 DEF Publish
  <2>2. /\ work'.phase = "recording" /\ work'.refs = refs /\ work'.batches = work.batches
        /\ work'.todo = work.todo /\ work'.done = work.done
    BY <2>1 DEF IInv, TypeOK
  <2>3. content \subseteq Records /\ refs \subseteq Batches
    BY DEF InWindow, RecordsIn, RecordsOf, IInv, TypeOK
  <2>4. datasets'[w] = content /\ \A v \in Windows \ {w} : datasets'[v] = datasets[v]
    BY <2>1 DEF IInv, TypeOK
  <2>5. TypeOK'
    <3>1. work' \in [phase : Phases, flush : Windows \cup {0}, end : 0..MaxRecords,
                     batches : SUBSET Batches, todo : SUBSET Windows, done : SUBSET Windows,
                     refs : SUBSET Batches]
      BY <2>1, <2>3 DEF IInv, TypeOK, Phases
    <3>2. datasets' \in [Windows -> SUBSET Records]
      BY <2>1, <2>3 DEF IInv, TypeOK
    <3> QED
      BY <1>1, <2>1, <3>1, <3>2 DEF IInv, TypeOK
  <2>6. \A v \in Windows : InRecording(v)' <=> v = w
    <3>1. work.todo \in SUBSET Windows
      BY DEF IInv, TypeOK
    <3>2. \A v : IsFirst(v, work.todo) => v = w
      BY <1>1, <3>1, FirstIsOne
    <3> QED
      BY <1>1, <2>2, <3>2 DEF InRecording
  <2>7. \A b : FullyConsumed(b)' = FullyConsumed(b)
    BY <1>1 DEF FullyConsumed
  <2>8. \A v \in Windows \ {w}, b \in Batches : Later(v, b)' = Later(v, b)
    BY <2>4 DEF Later
  <2>9. CallSoFar' /\ SavedOnDisk'
    BY <2>2 DEF CallSoFar, SavedOnDisk
  <2>10. Covered'
    BY <1>1, <2>7 DEF IInv, Covered
  <2>11. PublishedHeld'
    <3>1. \A b \in Batches :
             /\ consumption[b].referenced \subseteq consumption[b].published
             /\ \A v \in consumption[b].published :
                   v \in Windows /\ InWindow(v, RecordsOf(b)) \subseteq datasets[v]
      BY DEF IInv, PublishedHeld, TypeOK
    <3>2. datasets[w] \subseteq datasets'[w]
      BY <1>4, <2>4
    <3> QED
      BY <1>1, <2>4, <3>1, <3>2 DEF PublishedHeld
  <2>12. RefsHeld'
    <3>1. \A b \in refs : InWindow(w, RecordsOf(b)) \subseteq content
      BY DEF InWindow, RecordsIn
    <3> QED
      BY <2>2, <2>4, <2>6, <3>1 DEF RefsHeld
  <2>13. Orderly'
    <3>1. SUFFICES ASSUME faults = 0 PROVE Orderly'
      BY <1>1 DEF Orderly
    <3>2. \A i \in content : i <= checkpoint.offset
      <4>1. ASSUME NEW b \in work.batches, NEW i \in RecordsOf(b) PROVE i <= checkpoint.offset
        <5>1. b \in Batches /\ b.to <= checkpoint.offset
          BY <3>1 DEF IInv, Orderly, TypeOK
        <5> QED
          BY <5>1, ExtractionAssumption DEF RecordsOf, Records, Batches, IInv, TypeOK
      <4> QED
        BY <4>1 DEF InWindow, RecordsIn
    <3>3. \A v \in Windows : \A i \in datasets'[v] : i <= checkpoint.offset
      BY <2>4, <3>1, <3>2 DEF IInv, Orderly
    <3> QED
      BY <1>1, <2>2, <2>7, <3>1, <3>3 DEF IInv, Orderly
  <2>14. Timely'
    <3>1. SUFFICES ASSUME faults = 0, ~LateRecord' PROVE Timely'
      BY <1>1 DEF Timely
    <3>2. ~LateRecord
      BY <1>1, <1>4, <2>4, <2>5, <3>1, LateForGood DEF IInv, TypeOK
    <3>3. datasets[w] = {}
      BY <1>1, <1>2, <3>1, <3>2, BlockedIsLate
    <3>4. memory'.status # "blocked"
      BY <2>1, <3>1, <3>2 DEF IInv, Timely
    <3>5. ASSUME NEW b \in fragments', NEW v \in Windows
          PROVE  FullyConsumed(b)' \/ (InRecording(v)' /\ b \in work'.refs) \/ Later(v, b)'
      <4>1. b \in Batches /\ b \in fragments
        BY <1>1 DEF IInv, TypeOK
      <4>2. CASE v = w
        <5>1. FullyConsumed(b) \/ b \in work.batches
          BY <1>1, <3>1, <4>1 DEF IInv, Orderly
        <5>2. b \in work.batches => b \in refs \/ Later(w, b)'
          BY DEF Later
        <5> QED
          BY <2>2, <2>6, <2>7, <4>2, <5>1, <5>2
      <4>3. CASE v # w
        <5>1. FullyConsumed(b) \/ Later(v, b)
          BY <1>1, <3>1, <3>2, <4>1 DEF IInv, Timely, InRecording
        <5> QED
          BY <2>7, <2>8, <4>1, <4>3, <5>1
      <4> QED
        BY <4>2, <4>3
    <3>6. ASSUME NEW v \in work'.todo, NEW b \in work'.batches
          PROVE  InRecording(v)' \/ Later(v, b)'
      <4>1. v \in work.todo /\ b \in work.batches /\ v \in Windows /\ b \in Batches
        BY <2>2 DEF IInv, TypeOK
      <4>2. Later(v, b)
        BY <1>1, <3>1, <3>2, <4>1 DEF IInv, Timely, InRecording
      <4> QED
        BY <2>6, <2>8, <4>1, <4>2
    <3>7. \A v \in Windows :
             datasets'[v] # {} => v \in handoffs' \/ v \in work'.done \/ InRecording(v)'
      BY <1>1, <2>2, <2>4, <2>6, <3>1, <3>2 DEF IInv, Timely, InRecording
    <3> QED
      BY <3>4, <3>5, <3>6, <3>7 DEF Timely
  <2> QED
    BY <2>5, <2>9, <2>10, <2>11, <2>12, <2>13, <2>14 DEF IInv
<1> QED
  BY <1>3, <1>4

LEMMA RecordKeeps ==
    ASSUME IInv, NEW w \in Windows, NEW b \in Batches, Record(w, b) PROVE IInv'
<1>1. /\ work.phase = "recording" /\ IsFirst(w, work.todo) /\ b \in work.refs
      /\ work' = [work EXCEPT !.refs = @ \ {b}]
      /\ UNCHANGED <<source, tail, checkpoint, fragments, temporary, datasets, handoffs,
                     memory, requests, faults>>
  BY DEF Record
<1>2. /\ work'.phase = "recording" /\ work'.refs = work.refs \ {b}
      /\ work'.batches = work.batches /\ work'.todo = work.todo /\ work'.done = work.done
  BY <1>1 DEF IInv, TypeOK
<1>3. /\ consumption'[b].referenced = consumption[b].referenced \cup {w}
      /\ consumption'[b].published = consumption[b].published \cup {w}
      /\ \A c \in Batches \ {b} : consumption'[c] = consumption[c]
  BY DEF Record, Referenced, IInv, TypeOK
<1>4. TypeOK'
  <2>1. work' \in [phase : Phases, flush : Windows \cup {0}, end : 0..MaxRecords,
                   batches : SUBSET Batches, todo : SUBSET Windows, done : SUBSET Windows,
                   refs : SUBSET Batches]
    BY <1>1 DEF IInv, TypeOK
  <2>2. consumption' \in [Batches -> [referenced : SUBSET Windows, published : SUBSET Windows]]
    BY DEF Record, Referenced, IInv, TypeOK
  <2> QED
    BY <1>1, <2>1, <2>2 DEF IInv, TypeOK
<1>5. \A v : InRecording(v)' = InRecording(v)
  BY <1>1, <1>2 DEF InRecording
<1>6. InRecording(w) /\ \A v : InRecording(v) => v = w
  BY <1>1, FirstIsOne DEF InRecording, IInv, TypeOK
<1>7. FullyConsumed(b)' /\ \A c \in Batches : FullyConsumed(c) => FullyConsumed(c)'
  BY <1>3 DEF FullyConsumed, IInv, PublishedHeld
<1>8. LateRecord' = LateRecord /\ \A v, c : Later(v, c)' = Later(v, c)
  BY <1>1 DEF LateRecord, Later
<1>9. CallSoFar' /\ SavedOnDisk'
  BY <1>2 DEF CallSoFar, SavedOnDisk
<1>10. Covered'
  BY <1>1, <1>7 DEF IInv, Covered
<1>11. PublishedHeld'
  <2>1. InWindow(w, RecordsOf(b)) \subseteq datasets[w]
    BY <1>1, <1>6 DEF IInv, RefsHeld
  <2> QED
    BY <1>1, <1>3, <2>1 DEF IInv, PublishedHeld
<1>12. RefsHeld'
  BY <1>1, <1>2, <1>5 DEF IInv, RefsHeld
<1>13. fragments \subseteq Batches
  BY DEF IInv, TypeOK
<1>14. Orderly'
  BY <1>1, <1>2, <1>7, <1>13 DEF IInv, Orderly
<1>15. Timely'
  <2>1. SUFFICES ASSUME faults = 0, ~LateRecord PROVE Timely'
    BY <1>1, <1>8 DEF Timely
  <2>2. \A c \in fragments, v \in Windows :
           FullyConsumed(c)' \/ (InRecording(v)' /\ c \in work'.refs) \/ Later(v, c)'
    BY <1>2, <1>5, <1>7, <1>8, <1>13, <2>1 DEF IInv, Timely
  <2> QED
    BY <1>1, <1>2, <1>5, <1>8, <2>1, <2>2 DEF IInv, Timely
<1> QED
  BY <1>4, <1>9, <1>10, <1>11, <1>12, <1>14, <1>15 DEF IInv

LEMMA NextWindowKeeps ==
    ASSUME IInv, NEW w \in Windows, NextWindow(w) PROVE IInv'
<1> DEFINE next == IF work.todo = {w} THEN "cleaning" ELSE "publishing"
<1>1. /\ work.phase = "recording" /\ work.refs = {} /\ IsFirst(w, work.todo)
      /\ work' = [work EXCEPT !.todo = @ \ {w}, !.done = @ \cup {w}, !.phase = next]
      /\ UNCHANGED <<source, tail, disk, memory, requests, faults>>
  BY DEF NextWindow
<1>2. /\ work'.phase \in {"cleaning", "publishing"} /\ work'.refs = {}
      /\ work'.batches = work.batches
      /\ work'.todo = work.todo \ {w} /\ work'.done = work.done \cup {w}
  BY <1>1 DEF IInv, TypeOK
<1>3. TypeOK'
  <2>1. work' \in [phase : Phases, flush : Windows \cup {0}, end : 0..MaxRecords,
                   batches : SUBSET Batches, todo : SUBSET Windows, done : SUBSET Windows,
                   refs : SUBSET Batches]
    BY <1>1 DEF IInv, TypeOK, Phases
  <2> QED
    BY <1>1, <2>1 DEF IInv, TypeOK, disk
<1>4. \A v : InRecording(v) => v = w
  BY <1>1, FirstIsOne DEF InRecording, IInv, TypeOK
<1>5. \A v : ~InRecording(v)'
  BY <1>2 DEF InRecording
<1>6. CallSoFar' /\ SavedOnDisk' /\ RefsHeld'
  BY <1>2, <1>5 DEF CallSoFar, SavedOnDisk, RefsHeld
<1>7. Covered' /\ PublishedHeld'
  BY <1>1, DiskStays DEF IInv, Covered, PublishedHeld
<1>8. Orderly'
  BY <1>1, <1>2, DiskStays DEF IInv, Orderly
<1>9. Timely'
  <2>1. SUFFICES ASSUME faults = 0, ~LateRecord PROVE Timely'
    BY <1>1, DiskStays DEF Timely
  <2>2. \A c \in fragments, v \in Windows : FullyConsumed(c) \/ Later(v, c)
    BY <1>1, <2>1 DEF IInv, Timely
  <2>3. \A v \in work.todo \ {w}, c \in work.batches : Later(v, c)
    BY <1>1, <1>4, <2>1 DEF IInv, Timely
  <2>4. \A v \in Windows : datasets[v] # {} => v \in handoffs \/ v \in work'.done
    BY <1>2, <1>4, <2>1 DEF IInv, Timely
  <2> QED
    BY <1>1, <1>2, <2>1, <2>2, <2>3, <2>4, DiskStays DEF IInv, Timely
<1> QED
  BY <1>3, <1>6, <1>7, <1>8, <1>9 DEF IInv

LEMMA CleanUpKeeps ==
    ASSUME IInv, NEW b \in Batches, CleanUp(b) PROVE IInv'
<1>1. /\ work.phase = "cleaning" /\ FullyConsumed(b) /\ fragments' = fragments \ {b}
      /\ UNCHANGED <<source, tail, checkpoint, temporary, consumption, datasets, handoffs,
                     memory, work, requests, faults>>
  BY DEF CleanUp, Removable
<1>2. /\ LateRecord' = LateRecord
      /\ \A c : FullyConsumed(c)' = FullyConsumed(c)
      /\ \A v, c : Later(v, c)' = Later(v, c)
  BY <1>1 DEF LateRecord, FullyConsumed, Later
<1>3. TypeOK'
  BY <1>1 DEF IInv, TypeOK
<1>4. CallSoFar' /\ SavedOnDisk' /\ RefsHeld' /\ PublishedHeld'
  BY <1>1 DEF IInv, CallSoFar, SavedOnDisk, RefsHeld, PublishedHeld, InRecording
<1>5. Covered'
  BY <1>1, <1>2 DEF IInv, Covered
<1>6. Orderly'
  BY <1>1, <1>2 DEF IInv, Orderly
<1>7. Timely'
  BY <1>1, <1>2 DEF IInv, Timely, InRecording
<1> QED
  BY <1>3, <1>4, <1>5, <1>6, <1>7 DEF IInv

LEMMA CleanedUpKeeps == IInv /\ CleanedUp => IInv'
<1> SUFFICES ASSUME IInv, CleanedUp PROVE IInv'
  OBVIOUS
<1>1. /\ work.phase = "cleaning" /\ work' = [work EXCEPT !.phase = "handing"]
      /\ UNCHANGED <<source, tail, disk, memory, requests, faults>>
  BY DEF CleanedUp, GoOn
<1>2. work'.phase = "handing" /\ work'.batches = work.batches /\ work'.done = work.done
  BY <1>1 DEF IInv, TypeOK
<1>3. TypeOK'
  BY <1>1 DEF IInv, TypeOK, disk, Phases
<1>4. CallSoFar' /\ SavedOnDisk' /\ RefsHeld'
  BY <1>2 DEF CallSoFar, SavedOnDisk, RefsHeld, InRecording
<1>5. Covered' /\ PublishedHeld'
  BY <1>1, DiskStays DEF IInv, Covered, PublishedHeld
<1>6. Orderly'
  BY <1>1, <1>2, DiskStays DEF IInv, Orderly
<1>7. Timely'
  BY <1>1, <1>2, DiskStays DEF IInv, Timely, InRecording
<1> QED
  BY <1>3, <1>4, <1>5, <1>6, <1>7 DEF IInv

LEMMA HandOffKeeps ==
    ASSUME IInv, NEW w \in Windows, HandOff(w) PROVE IInv'
<1>1. /\ work.phase = "handing" /\ w \in work.done
      /\ work' = [work EXCEPT !.done = @ \ {w}]
      /\ UNCHANGED <<source, tail, checkpoint, fragments, temporary, consumption, datasets,
                     memory, requests>>
  BY DEF HandOff, IsFirst
<1>2. /\ work'.phase = "handing" /\ work'.batches = work.batches
      /\ work'.done = work.done \ {w}
  BY <1>1 DEF IInv, TypeOK
<1>3. /\ faults' \in 0..MaxFaults
      /\ handoffs' \subseteq Windows
      /\ faults' = 0 => faults = 0 /\ handoffs' = handoffs \cup {w}
  <2>1. faults \in 0..MaxFaults /\ handoffs \subseteq Windows
    BY DEF IInv, TypeOK
  <2>2. CASE handoffs' = handoffs \cup {w} /\ faults' = faults
    BY <2>1, <2>2
  <2>3. CASE faults < MaxFaults /\ faults' = faults + 1 /\ handoffs' = handoffs
    <3>1. faults' \in 0..MaxFaults /\ faults' # 0
      BY <2>1, <2>3, ExtractionAssumption
    <3> QED
      BY <2>1, <2>3, <3>1
  <2> QED
    BY <2>2, <2>3 DEF HandOff
<1>4. TypeOK'
  <2>1. work' \in [phase : Phases, flush : Windows \cup {0}, end : 0..MaxRecords,
                   batches : SUBSET Batches, todo : SUBSET Windows, done : SUBSET Windows,
                   refs : SUBSET Batches]
    BY <1>1 DEF IInv, TypeOK
  <2> QED
    BY <1>1, <1>3, <2>1 DEF IInv, TypeOK
<1>5. /\ LateRecord' = LateRecord
      /\ \A c : FullyConsumed(c)' = FullyConsumed(c)
      /\ \A v, c : Later(v, c)' = Later(v, c)
  BY <1>1 DEF LateRecord, FullyConsumed, Later
<1>6. CallSoFar' /\ SavedOnDisk' /\ RefsHeld'
  BY <1>2 DEF CallSoFar, SavedOnDisk, RefsHeld, InRecording
<1>7. Covered' /\ PublishedHeld'
  BY <1>1, <1>5 DEF IInv, Covered, PublishedHeld
<1>8. Orderly'
  BY <1>1, <1>2, <1>3, <1>5 DEF IInv, Orderly
<1>9. Timely'
  BY <1>1, <1>2, <1>3, <1>5 DEF IInv, Timely, InRecording
<1> QED
  BY <1>4, <1>6, <1>7, <1>8, <1>9 DEF IInv

-----------------------------------------------------------------------------
LEMMA NextIInv == IInv /\ [Next]_vars => IInv'
<1> SUFFICES ASSUME IInv, [Next]_vars PROVE IInv'
  OBVIOUS
<1>1. CASE Append
  BY <1>1, AppendKeeps
<1>2. CASE Poll
  <2>1. BeginWith(0) /\ requests' \in 0..MaxRequests
    BY <1>2 DEF Poll, IInv, TypeOK
  <2> QED
    BY <2>1, BeginKeeps
<1>3. CASE Request
  <2>1. requests' \in 0..MaxRequests /\ \E flush \in Windows \cup {0} : BeginWith(flush)
    BY <1>3, ExtractionAssumption DEF Request, IInv, TypeOK
  <2> QED
    BY <2>1, BeginKeeps
<1>4. CASE Recover \/ NoData \/ MarkProcessing \/ SaveFragment
  BY <1>4, RecoverKeeps, NoDataKeeps, MarkProcessingKeeps, SaveFragmentKeeps
<1>5. CASE Stage \/ Commit \/ Collect \/ CleanedUp \/ Finish
  BY <1>5, StageKeeps, CommitKeeps, CollectKeeps, CleanedUpKeeps, FinishKeeps
<1>6. ASSUME NEW w \in Windows, Publish(w) \/ NextWindow(w) \/ HandOff(w) PROVE IInv'
  BY <1>6, PublishKeeps, NextWindowKeeps, HandOffKeeps
<1>7. ASSUME NEW b \in Batches, CleanUp(b) \/ \E w \in Windows : Record(w, b) PROVE IInv'
  BY <1>7, CleanUpKeeps, RecordKeeps
<1>8. CASE WriteFails \/ PublicationFails \/ Crash
  BY <1>8, WriteFailsKeeps, PublicationFailsKeeps, CrashKeeps
<1>9. CASE UNCHANGED vars
  <2>1. UNCHANGED <<source, tail, disk, memory, work, requests, faults>>
    BY <1>9 DEF vars
  <2>2. TypeOK' /\ CallSoFar' /\ SavedOnDisk' /\ RefsHeld'
    BY <2>1 DEF IInv, TypeOK, CallSoFar, SavedOnDisk, RefsHeld, InRecording, disk
  <2>3. Covered' /\ PublishedHeld'
    BY <2>1, DiskStays DEF IInv, Covered, PublishedHeld
  <2>4. Orderly'
    BY <2>1, DiskStays DEF IInv, Orderly
  <2>5. Timely'
    BY <2>1, DiskStays DEF IInv, Timely, InRecording
  <2> QED
    BY <2>2, <2>3, <2>4, <2>5 DEF IInv
<1> QED
  BY <1>1, <1>2, <1>3, <1>4, <1>5, <1>6, <1>7, <1>8, <1>9 DEF Next, Step

LEMMA AlwaysIInv == Spec => []IInv
<1> QED
  BY InitIInv, NextIInv, PTL DEF Spec

-----------------------------------------------------------------------------
(* Extraction is type correct: no batch or window is named that is not one, *)
(* no offset is beyond the source's bound.                                  *)
THEOREM ExtractionTypeCorrect == Spec => []TypeOK
<1>1. IInv => TypeOK
  BY DEF IInv
<1> QED
  BY <1>1, AlwaysIInv, PTL

(* Whatever crashes and failed writes there are, a committed record is in a *)
(* dataset or in a fragment still to be published, unless its fragment      *)
(* counts as consumed for another window's sake.                            *)
THEOREM RecordsAreLostOnlyByStraddling == Spec => []LossOnlyByStraddling
<1>1. ASSUME IInv, NEW i \in Records, i <= checkpoint.offset PROVE Held(i) \/ Straddled(i)
  <2>1. PICK b \in Batches : i \in RecordsOf(b) /\ (b \in fragments \/ FullyConsumed(b))
    BY <1>1 DEF IInv, Covered
  <2>2. CASE ~FullyConsumed(b)
    BY <2>1, <2>2 DEF Held
  <2>3. CASE FullyConsumed(b) /\ WindowOf[i] \in consumption[b].published
    BY <1>1, <2>1, <2>3 DEF IInv, PublishedHeld, InWindow, Held
  <2>4. CASE FullyConsumed(b) /\ WindowOf[i] \notin consumption[b].published
    BY <2>1, <2>4 DEF Straddled
  <2> QED
    BY <2>2, <2>3, <2>4
<1>2. IInv => LossOnlyByStraddling
  BY <1>1 DEF LossOnlyByStraddling
<1> QED
  BY <1>2, AlwaysIInv, PTL

(* Without a crash or a failed write, extraction blocks a source only for a *)
(* record that came after the dataset of its window.                        *)
THEOREM OnlyLateRecordsBlock == Spec => []BlocksOnlyAfterFault
<1>1. IInv => BlocksOnlyAfterFault
  BY ExtractionAssumption DEF IInv, TypeOK, Timely, BlocksOnlyAfterFault
<1> QED
  BY <1>1, AlwaysIInv, PTL

(* Without a fault and without a late record, no call ends before each      *)
(* dataset it published has its handoff.                                    *)
THEOREM DatasetsAreHandedOff == Spec => []PublishedIsHandedOff
<1>1. IInv => PublishedIsHandedOff
  BY DEF IInv, Timely, CallSoFar, InRecording, PublishedIsHandedOff
<1> QED
  BY <1>1, AlwaysIInv, PTL
=============================================================================
