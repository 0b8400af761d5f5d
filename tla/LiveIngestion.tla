---------------------------- MODULE LiveIngestion ----------------------------
(***************************************************************************)
(* The live worker of the backend (app/live_predictive_maintenance.py,     *)
(* maintenance/live_service.py, infra/live_predictive_maintenance_         *)
(* runtime.py): it polls the sensor files that gen_data appends to, saves  *)
(* the ticks at which every machine outside the runtime overlay has a row, *)
(* submits the latest window of each machine to the Generator, and then    *)
(* hands over the overlay's availability events.                           *)
(*                                                                         *)
(* The worker is one process.  gen_data (external) goes on writing while   *)
(* it reads: each file is read at a moment of its own, and the machines in *)
(* the overlay were read before all of them.  A cycle may fail or die      *)
(* between any two of its steps; the next cycle begins from the database.  *)
(* What it cannot read or save it meets again in every cycle: nothing is   *)
(* skipped or set aside.                                                   *)
(***************************************************************************)
EXTENDS Integers, FiniteSetsExt

CONSTANTS
    Assets,    \* machines of the live dataset version, each with a file of its own
    EventFile, \* observations_available.jsonl
    NumTicks,  \* bound: ticks of gen_data's clock
    MinRows,   \* minimum_history_rows
    Lookback,  \* rows of a machine a window is looked for in (the code: 8 * MinRows)
    NumEvents, \* bound: availability events
    MaxSkew,   \* bound: ticks that a line is ahead of another
    MaxTroubles\* bound: rows that a line fails to write, changes of the overlay, what
               \* stays unreadable or is refused for good, and other failures of a cycle

ASSUME LiveAssumption ==
    /\ Assets # {} /\ EventFile \notin Assets
    /\ {NumTicks, NumEvents, MaxSkew, MaxTroubles} \subseteq Nat
    /\ MinRows \in Nat \ {0}
    /\ Lookback \in Nat /\ Lookback >= MinRows

Ticks == 1..NumTicks
Events == 1..NumEvents
Files == Assets \cup {EventFile}

VARIABLES
    clock,     \* clock[a]: the last tick that a's line has dealt with
    written,   \* written[a]: ticks with a row of a in its file
    overlay,   \* machines with a branch in runtime_overlay_state.json
    published, \* events 1..published are in observations_available.jsonl
    malformed, \* files with a line that cannot be read, or contradicts another
    strange,   \* <<a, t>>: a's file has a row of an unknown machine at t
    partial,   \* <<a, t>>: the row of a at t lacks a value
    bad,       \* events whose branch storage cannot be read or does not agree
    rejected,  \* events the Generator will not take
    db,        \* db[a]: ticks with a row of a in pm_*_observations
    recorded,  \* rows of pm_runtime_overlay_events
    submitted, \* submitted[a]: a's part of the last snapshot the Generator took
    queued,    \* events the Generator has taken
    phase,     \* where the cycle is
    active,    \* active_overlay_assets of the cycle
    unread,    \* files the cycle has not read yet
    seen,      \* seen[a]: ticks the cycle has found in a's file
    next, last,\* the event the cycle deals with, the last one it has found
    troubles,
    overlaid,  \* machines that have ever been in the overlay; nothing reads it
    missed     \* the last batch was saved and not submitted; nothing reads it

stream == <<clock, written, overlay, published, overlaid>>
damage == <<malformed, strange, partial, bad, rejected>>
memory == <<active, unread, seen, next, last>>
stores == <<db, recorded, submitted, queued>>
vars == <<stream, damage, stores, phase, memory, troubles, missed>>

Phases == {"idle", "reading", "saving", "submitting", "events", "posting"}

TypeOK ==
    /\ clock \in [Assets -> 0..NumTicks]
    /\ written \in [Assets -> SUBSET Ticks] /\ db \in [Assets -> SUBSET Ticks]
    /\ seen \in [Assets -> SUBSET Ticks] /\ submitted \in [Assets -> SUBSET Ticks]
    /\ overlay \subseteq Assets /\ active \subseteq Assets
    /\ unread \subseteq Assets /\ overlaid \subseteq Assets
    /\ published \in 0..NumEvents /\ last \in 0..NumEvents /\ next \in 1..(NumEvents + 1)
    /\ malformed \subseteq Files
    /\ strange \subseteq Assets \X Ticks /\ partial \subseteq Assets \X Ticks
    /\ bad \subseteq Events /\ rejected \subseteq Events
    /\ recorded \subseteq Events /\ queued \subseteq Events
    /\ phase \in Phases
    /\ troubles \in 0..MaxTroubles
    /\ missed \in BOOLEAN

Nothing == [a \in Assets |-> {}]

Init ==
    /\ clock = [a \in Assets |-> 0]
    /\ written = Nothing /\ db = Nothing /\ submitted = Nothing /\ seen = Nothing
    /\ overlay \in SUBSET Assets /\ overlaid = overlay
    /\ active = {} /\ unread = {}
    /\ malformed = {} /\ strange = {} /\ partial = {} /\ bad = {} /\ rejected = {}
    /\ published = 0 /\ last = 0 /\ next = 1
    /\ recorded = {} /\ queued = {}
    /\ phase = "idle"
    /\ troubles = 0 /\ missed = FALSE

(***************************************************************************)
(* gen_data.  A line appends its rows in order and is not backfilled.  A   *)
(* machine in the overlay is paused: time passes, but no row is written.   *)
(* A restart of gen_data goes on at the present tick and leaves a gap.     *)
(***************************************************************************)
Tick(a, row) ==
    /\ clock[a] < NumTicks
    /\ \A b \in Assets : clock[a] < clock[b] + MaxSkew
    /\ clock' = [clock EXCEPT ![a] = @ + 1]
    /\ written' = [written EXCEPT ![a] = @ \cup (IF row THEN {clock'[a]} ELSE {})]
    /\ UNCHANGED <<overlay, published, overlaid>>

Trouble == troubles < MaxTroubles /\ troubles' = troubles + 1

Emit(a) == Tick(a, a \notin overlay) /\ UNCHANGED troubles

Gap(a) ==
    /\ a \notin overlay
    /\ Tick(a, FALSE)
    /\ Trouble

ChangeOverlay(a) ==
    /\ overlay' = IF a \in overlay THEN overlay \ {a} ELSE overlay \cup {a}
    /\ overlaid' = overlaid \cup {a}
    /\ UNCHANGED <<clock, written, published>>
    /\ Trouble

PublishEvent ==
    /\ published < NumEvents
    /\ published' = published + 1
    /\ UNCHANGED <<clock, written, overlay, overlaid, troubles>>

Stream ==
    /\ PublishEvent \/ \E a \in Assets : Emit(a) \/ Gap(a) \/ ChangeOverlay(a)
    /\ UNCHANGED <<damage, stores, phase, memory, missed>>

(***************************************************************************)
(* What makes the worker raise in every cycle that comes to it: a line     *)
(* that is no record of its file (in the events' file also an event_id     *)
(* with another content), a row of a machine that the dataset version does *)
(* not have, a row that lacks a value, a branch file that cannot be read   *)
(* or is not what the event says, an event that the Generator refuses.     *)
(***************************************************************************)
BadLine(f) ==
    /\ malformed' = malformed \cup {f}
    /\ UNCHANGED <<stream, strange, partial, bad, rejected>>

StrangeRow(a) ==
    /\ clock[a] > 0
    /\ strange' = strange \cup {<<a, clock[a]>>}
    /\ UNCHANGED <<stream, malformed, partial, bad, rejected>>

PartialRow(a) ==
    /\ a \notin overlay
    /\ Tick(a, TRUE)
    /\ partial' = partial \cup {<<a, clock'[a]>>}
    /\ UNCHANGED <<malformed, strange, bad, rejected>>

SpoilBranch(e) ==
    /\ bad' = bad \cup {e}
    /\ UNCHANGED <<stream, malformed, strange, partial, rejected>>

(* It decides when it is asked for the first time.                         *)
Reject ==
    /\ phase = "posting" /\ next \notin queued
    /\ rejected' = rejected \cup {next}
    /\ UNCHANGED <<stream, malformed, strange, partial, bad>>

Damage ==
    /\ \/ \E f \in Files : BadLine(f)
       \/ \E a \in Assets : StrangeRow(a) \/ PartialRow(a)
       \/ \E e \in 1..published : SpoilBranch(e)
       \/ Reject
    /\ Trouble
    /\ UNCHANGED <<stores, phase, memory, missed>>

(***************************************************************************)
(* The worker.                                                             *)
(***************************************************************************)

(* _latest_ingested_at: the greatest of both families, over all machines.  *)
Latest == Max({0} \cup UNION {db[a] : a \in Assets})

(* The end of a cycle, and of what it holds in memory.                     *)
GoIdle ==
    /\ phase' = "idle"
    /\ active' = {} /\ unread' = {} /\ seen' = Nothing
    /\ next' = 1 /\ last' = 0

(* The overlay is read before anything else, from its checkpoint file.     *)
(* With every machine in it no sensor file is opened.                      *)
BeginCycle ==
    /\ phase = "idle"
    /\ active' = overlay
    /\ unread' = IF overlay = Assets THEN {} ELSE Assets
    /\ phase' = IF overlay = Assets THEN "saving" ELSE "reading"
    /\ UNCHANGED <<stream, damage, stores, seen, next, last, troubles, missed>>

MutantRefused(a) == a \in malformed \/ \E t \in Ticks : <<a, t>> \in strange

(* Every line is parsed, also those of saved ticks; whether its machine is *)
(* known is looked at from the newest saved tick on.                       *)
Refused(a) == a \in malformed \/ \E t \in Ticks : <<a, t>> \in strange /\ t > Latest

(* Rows up to the newest saved tick are skipped: read_complete_ticks.      *)
ReadFile(a) ==
    /\ phase = "reading"
    /\ a \in unread /\ ~Refused(a)
    /\ unread' = unread \ {a}
    /\ seen' = [seen EXCEPT ![a] = {t \in written[a] : t > Latest}]
    /\ phase' = IF unread' = {} THEN "saving" ELSE "reading"
    /\ UNCHANGED <<stream, damage, stores, active, next, last, troubles, missed>>

(* A file that is refused ends the cycle before anything is saved, and     *)
(* before the events are looked at.  (A row of an unknown machine is found *)
(* when all files have been read; nothing has changed until then.)         *)
FileIsRefused(a) ==
    /\ phase = "reading"
    /\ a \in unread /\ Refused(a)
    /\ GoIdle
    /\ UNCHANGED <<stream, damage, stores, troubles, missed>>

Expected == Assets \ active

MutantCompleteTicks == {t \in Ticks : \E a \in Expected : t \in seen[a]}

(* read_complete_ticks: those at which no expected machine lacks its row.  *)
CompleteTicks ==
    IF Expected = {} THEN {} ELSE {t \in Ticks : \A a \in Expected : t \in seen[a]}

(* read_overlay_available_events: all lines are validated before the first *)
(* event is returned; one that is not valid ends the cycle.  What was read *)
(* of the sensor files is no longer needed.                                *)
ReadEvents ==
    \/ EventFile \in malformed /\ GoIdle
    \/ /\ EventFile \notin malformed
       /\ phase' = "events"
       /\ next' = 1 /\ last' = published
       /\ active' = {} /\ unread' = {} /\ seen' = Nothing

NothingNew ==
    /\ phase = "saving"
    /\ CompleteTicks = {}
    /\ ReadEvents
    /\ UNCHANGED <<stream, damage, stores, troubles, missed>>

(* A row of the batch that has not all of its columns.                     *)
Unsavable == \E a \in Expected, t \in CompleteTicks : <<a, t>> \in partial

(* persist_batch: the rows of the expected machines, in one transaction.   *)
Persist ==
    /\ phase = "saving"
    /\ CompleteTicks # {} /\ ~Unsavable
    /\ db' = [a \in Assets |-> db[a] \cup (IF a \in Expected THEN CompleteTicks \cap seen[a] ELSE {})]
    /\ phase' = "submitting"
    /\ UNCHANGED <<stream, damage, recorded, submitted, queued, memory, troubles, missed>>

(* Not one tick is saved, neither those before the row.                    *)
BatchIsRefused ==
    /\ phase = "saving"
    /\ Unsavable
    /\ GoIdle
    /\ UNCHANGED <<stream, damage, stores, troubles, missed>>

Recent(a) == {t \in db[a] : Cardinality({u \in db[a] : u >= t}) <= Lookback}

(* latest_continuous_window: {} when there is none.                        *)
Window(a) ==
    LET ends == {t \in Recent(a) : (t - MinRows + 1)..t \subseteq Recent(a)}
    IN  IF ends = {} THEN {} ELSE (Max(ends) - MinRows + 1)..Max(ends)

MutantSnapshot == [a \in Assets |-> IF a \in overlay THEN {} ELSE Window(a)]

(* The machines of the batch, not those that are out of the overlay now.   *)
Snapshot == [a \in Assets |-> IF a \in Expected THEN Window(a) ELSE {}]

(* materialize_live_results, then the events of the overlay.  Without any  *)
(* window it is "warming_up" and submits nothing.  An answer that is lost  *)
(* is this step followed by CycleFails.                                    *)
Submit ==
    /\ phase = "submitting"
    /\ submitted' = IF Snapshot = Nothing THEN submitted ELSE Snapshot
    /\ missed' = FALSE
    /\ ReadEvents
    /\ UNCHANGED <<stream, damage, db, recorded, queued, troubles>>

MutantConsumeEvent ==
    /\ phase = "events"
    /\ next <= last /\ next \notin bad
    /\ recorded' = recorded \cup {next}
    /\ IF next \in recorded
         THEN next' = next + 1 /\ UNCHANGED phase
         ELSE phase' = "posting" /\ UNCHANGED next
    /\ UNCHANGED <<stream, damage, db, submitted, queued, active, unread, seen, last, troubles, missed>>

(* _consume_overlay_event up to its commit, for new and for known events.  *)
ConsumeEvent ==
    /\ phase = "events"
    /\ next <= last /\ next \notin bad
    /\ recorded' = recorded \cup {next}
    /\ phase' = "posting"
    /\ UNCHANGED <<stream, damage, db, submitted, queued, memory, troubles, missed>>

(* The Generator takes the event's snapshot, or has it already ("reused"). *)
PostEvent ==
    /\ phase = "posting" /\ next \notin rejected
    /\ queued' = queued \cup {next}
    /\ next' = next + 1
    /\ phase' = "events"
    /\ UNCHANGED <<stream, damage, db, recorded, submitted, active, unread, seen, last, troubles, missed>>

MutantEventIsRefused ==
    /\ phase = "events"
    /\ next <= last /\ next \in bad
    /\ next' = next + 1
    /\ UNCHANGED <<stream, damage, stores, phase, active, unread, seen, last, troubles, missed>>

(* The rows of the event are not those of its branch: ValueError, and the  *)
(* cycle is over.                                                          *)
EventIsRefused ==
    /\ phase = "events"
    /\ next <= last /\ next \in bad
    /\ GoIdle
    /\ UNCHANGED <<stream, damage, stores, troubles, missed>>

EventIsRejected ==
    /\ phase = "posting" /\ next \in rejected
    /\ GoIdle
    /\ UNCHANGED <<stream, damage, stores, troubles, missed>>

EndCycle ==
    /\ phase = "events"
    /\ next > last
    /\ GoIdle
    /\ UNCHANGED <<stream, damage, stores, troubles, missed>>

(* A database or HTTP error, or the last line of a file half written, is   *)
(* logged by the main loop; or the process dies and is started again.      *)
CycleFails ==
    /\ phase # "idle"
    /\ GoIdle
    /\ Trouble
    /\ missed' = (missed \/ phase = "submitting")
    /\ UNCHANGED <<stream, damage, stores>>

Worker ==
    \/ BeginCycle \/ NothingNew \/ Persist \/ Submit
    \/ BatchIsRefused \/ EventIsRefused \/ EventIsRejected
    \/ ConsumeEvent \/ PostEvent \/ EndCycle
    \/ \E a \in Assets : ReadFile(a) \/ FileIsRefused(a)

Next == Stream \/ Damage \/ Worker \/ CycleFails

(* main polls for ever, whatever a cycle raises, and a worker that dies is *)
(* started again ("restart: unless-stopped").  Nothing is assumed of       *)
(* gen_data.                                                               *)
Spec == Init /\ [][Next]_vars /\ WF_vars(Worker)

(***************************************************************************)
(* Properties.                                                             *)
(***************************************************************************)

(* A row that lies behind the newest saved tick and is not saved is lost:  *)
(* the files are read from there on.  That is so only if another machine   *)
(* has left that tick out (its line failed, or it was paused and is no     *)
(* longer), or the machine itself was in the overlay when the tick was     *)
(* read; never because gen_data was still appending.                       *)
LossOnlyByGap ==
    \A a \in Assets : \A t \in written[a] \ db[a] :
        t <= Latest => a \in overlaid \/ \E b \in Assets : t \notin written[b] /\ t <= clock[b]

(* The Generator has the newest window of every machine that is in the     *)
(* newest tick, unless the cycle that saved the tick failed before it      *)
(* submitted: no later cycle repeats that until another tick is complete.  *)
(* A machine whose rows have a gap is submitted with an older window.      *)
NewestWindowIsSubmitted ==
    phase = "idle" /\ ~missed =>
        \A a \in Assets : Latest \in db[a] => Window(a) \in {{}, submitted[a]}

(* The Generator takes the events in the order of the file, each after its *)
(* rows have been committed, and none past one that cannot be read or that *)
(* it refuses, whenever that came about: at most one event is recorded and *)
(* not taken.                                                              *)
EventsGoInOrder ==
    \E k \in 0..published :
        /\ queued = 1..k
        /\ recorded \in {1..k, 1..(k + 1)}

(* What stops every cycle before its events: a file that cannot be read,   *)
(* a row of an unknown machine ahead of the newest saved tick, or a row    *)
(* that lacks a value at a tick that would be saved; but only if a machine *)
(* is left out of the overlay, since the files are not read otherwise.     *)
SensorsAreStuck ==
    /\ overlay # Assets
    /\ \/ malformed \cap Assets # {}
       \/ \E w \in strange : w[2] > Latest
       \/ \E w \in partial : /\ w[1] \notin overlay /\ w[2] > Latest
                           /\ \A a \in Assets \ overlay : w[2] \in written[a]

(* A tick at which every machine has its row is saved in the end, for each *)
(* machine that never was in the overlay, although ticks before and after  *)
(* it may be incomplete, overlays change and cycles fail, unless the       *)
(* sensors are stuck: one bad line of one machine's file, saved ticks      *)
(* included, holds up all machines.  A row of an unknown machine at a tick *)
(* that was passed holds up none.                                          *)
WholeTicksAreSaved ==
    []<>(\/ SensorsAreStuck
         \/ \A t \in Ticks :
                (\A a \in Assets : t \in written[a])
                    => (\A a \in Assets : t \in db[a] \/ a \in overlaid))

(* An event is taken in the end, also if a cycle died after recording it,  *)
(* provided that it and every event before it can be read and is not       *)
(* refused, that every line of the events' file is valid, also those       *)
(* behind it, and that the sensors are not stuck.                          *)
EventsAreTaken ==
    []<>(\/ SensorsAreStuck \/ EventFile \in malformed
         \/ \A e \in 1..published : (bad \cup rejected) \cap 1..e = {} => e \in queued)
=============================================================================
