-------------------------------- MODULE Outbox --------------------------------
(***************************************************************************)
(* The transactional outbox of the backend                                 *)
(* (systems/backend/app/infra/messaging/outbox.py), the dispatcher process *)
(* that drains it (maintenance_replay_dispatcher.py) and the JSONL inbox   *)
(* it appends to (maintenance_replay_jsonl.py).                            *)
(*                                                                         *)
(* Every database transaction is one action; what a worker does between    *)
(* two transactions (the handler) is split where another worker can step   *)
(* in.  Wall-clock time is abstracted to two facts about a row that time   *)
(* alone changes: its retry delay has passed (due) and its lease has run   *)
(* out (expired).                                                          *)
(***************************************************************************)
EXTENDS Naturals, Sequences

CONSTANTS
    Rows,         \* the outbox rows, one per integration event
    Workers,      \* dispatcher processes
    NoRow,        \* what an idle worker holds
    NoWorker,     \* the lease_token of a row that is not leased
    ActionOf,     \* ActionOf[r]: the maintenance action row r belongs to
    StreamOf,     \* StreamOf[r]: its delivery stream
    Version,      \* Version[r]: the state_version in its payload
    CreatedRank,  \* CreatedRank[r]: its place in the order of (created_at, id)
    Handles,      \* Handles[w]: the rows whose event type worker w registered
    MaxAttempts,  \* max_attempts of the workers
    MaxReplays    \* bound: how often an operator replays a dead letter

ASSUME RowsAssumption ==
    /\ NoRow \notin Rows
    /\ NoWorker \notin Workers
    /\ Version \in [Rows -> Nat]
    /\ CreatedRank \in [Rows -> Nat]
    /\ \A r, s \in Rows : CreatedRank[r] = CreatedRank[s] => r = s
    /\ Handles \in [Workers -> SUBSET Rows]
    /\ MaxAttempts \in Nat \ {0}
    /\ MaxReplays \in Nat

(* The events of one action carry one (simulation_session_id,              *)
(* equipment_id), hence one stream, and the dispatcher registers all three *)
(* maintenance event types together (maintenance_replay_dispatcher.py:38). *)
ASSUME StreamAssumption ==
    \A r, s \in Rows : ActionOf[r] = ActionOf[s] =>
        /\ StreamOf[r] = StreamOf[s]
        /\ \A w \in Workers : r \in Handles[w] => s \in Handles[w]

VARIABLES
    status,       \* status[r]; "absent" until the row's transaction commits
    attempts,     \* attempts[r]: attempt_count
    due,          \* due[r]: available_at <= now
    holder,       \* holder[r]: lease_token
    expired,      \* expired[r]: the lease has run out
    deliveryLog,  \* outbox_id of the outbox_delivery_log rows
    phase,        \* phase[w]: where worker w is in process_once
    msg,          \* msg[w]: the row whose message worker w holds in memory
    inbox,        \* the lines of the JSONL file
    replays       \* dead letters replayed so far

rowVars == <<status, attempts, due, holder, expired>>
vars == <<status, attempts, due, holder, expired, deliveryLog, phase, msg, inbox, replays>>

Statuses == {"absent", "pending", "processing", "retry", "processed", "dead_letter"}
Phases == {"idle", "claimed", "checked", "handled", "failed", "rejected"}

TypeOK ==
    /\ status \in [Rows -> Statuses]
    /\ attempts \in [Rows -> 0..MaxAttempts]
    /\ due \in [Rows -> BOOLEAN]
    /\ holder \in [Rows -> Workers \cup {NoWorker}]
    /\ expired \in [Rows -> BOOLEAN]
    /\ deliveryLog \subseteq Rows
    /\ phase \in [Workers -> Phases]
    /\ msg \in [Workers -> Rows \cup {NoRow}]
    /\ \A w \in Workers : (msg[w] = NoRow) <=> (phase[w] = "idle")
    /\ inbox \in Seq(Rows)
    /\ replays \in 0..MaxReplays

Init ==
    /\ status = [r \in Rows |-> "absent"]
    /\ attempts = [r \in Rows |-> 0]
    /\ due = [r \in Rows |-> FALSE]
    /\ holder = [r \in Rows |-> NoWorker]
    /\ expired = [r \in Rows |-> FALSE]
    /\ deliveryLog = {}
    /\ phase = [w \in Workers |-> "idle"]
    /\ msg = [w \in Workers |-> NoRow]
    /\ inbox = <<>>
    /\ replays = 0

-----------------------------------------------------------------------------
(* The producer: start_maintenance, complete_maintenance and request_replay *)
(* insert their row in the transaction that changes the action, and refuse  *)
(* a state_version that does not advance the action's lifecycle.            *)

Predecessors(r) == {s \in Rows : ActionOf[s] = ActionOf[r] /\ Version[s] < Version[r]}

Enqueue(r) ==
    /\ status[r] = "absent"
    /\ \A s \in Predecessors(r) : status[s] # "absent"
    /\ status' = [status EXCEPT ![r] = "pending"]
    /\ due' = [due EXCEPT ![r] = TRUE]
    /\ UNCHANGED <<attempts, holder, expired, deliveryLog, phase, msg, inbox, replays>>

-----------------------------------------------------------------------------
(* Claiming.  One transaction first turns every expired lease of the       *)
(* worker's event types into "retry", then picks, among the heads of the   *)
(* delivery streams, the oldest row that may be tried.                     *)

MutantLapsed(w) == {}

Lapsed(w) == {r \in Handles[w] : status[r] = "processing" /\ expired[r]}

(* The rows of the claim's SELECT. *)
Unsettled(w) == {r \in Handles[w] : status[r] \notin {"absent", "processed"}}

MutantBefore(r, s) == CreatedRank[r] < CreatedRank[s]

(* The order inside a stream: state_version, then created_at, then id. *)
Before(r, s) ==
    \/ Version[r] < Version[s]
    \/ Version[r] = Version[s] /\ CreatedRank[r] < CreatedRank[s]

StreamHeads(w) ==
    {r \in Unsettled(w) :
        \A s \in Unsettled(w) \ {r} : StreamOf[s] = StreamOf[r] => Before(r, s)}

Claimable(w, r) ==
    /\ status[r] \in {"pending", "retry"} \/ r \in Lapsed(w)
    /\ due[r] \/ r \in Lapsed(w)
    /\ attempts[r] < MaxAttempts

Eligible(w) == {r \in StreamHeads(w) : Claimable(w, r)}

(* The claim of row r; the lapsed rows it does not take are left for retry. *)
Take(w, r) ==
    /\ status' = [s \in Rows |-> IF s = r THEN "processing"
                                 ELSE IF s \in Lapsed(w) THEN "retry" ELSE status[s]]
    /\ due' = [s \in Rows |-> due[s] \/ s \in Lapsed(w)]
    /\ holder' = [s \in Rows |-> IF s = r THEN w
                                 ELSE IF s \in Lapsed(w) THEN NoWorker ELSE holder[s]]
    /\ expired' = [s \in Rows |-> expired[s] /\ s # r /\ s \notin Lapsed(w)]
    /\ attempts' = [attempts EXCEPT ![r] = @ + 1]
    /\ phase' = [phase EXCEPT ![w] = "claimed"]
    /\ msg' = [msg EXCEPT ![w] = r]
    /\ UNCHANGED <<deliveryLog, inbox, replays>>

Claim(w) ==
    /\ phase[w] = "idle"
    /\ \E r \in Eligible(w) :
        /\ \A s \in Eligible(w) : CreatedRank[r] <= CreatedRank[s]
        /\ Take(w, r)

(* A poll that finds nothing to claim still commits the recovered leases. *)
RecoverOnly(w) ==
    /\ phase[w] = "idle"
    /\ Eligible(w) = {}
    /\ Lapsed(w) # {}
    /\ status' = [s \in Rows |-> IF s \in Lapsed(w) THEN "retry" ELSE status[s]]
    /\ due' = [s \in Rows |-> due[s] \/ s \in Lapsed(w)]
    /\ holder' = [s \in Rows |-> IF s \in Lapsed(w) THEN NoWorker ELSE holder[s]]
    /\ expired' = [s \in Rows |-> expired[s] /\ s \notin Lapsed(w)]
    /\ UNCHANGED <<attempts, deliveryLog, phase, msg, inbox, replays>>

-----------------------------------------------------------------------------
(* The handler, outside any transaction: it reads the whole file to see    *)
(* whether the event is there, and only then appends it.                   *)

Lines == {inbox[i] : i \in DOMAIN inbox}

CheckInbox(w) ==
    /\ phase[w] = "claimed"
    /\ phase' = [phase EXCEPT ![w] = IF msg[w] \in Lines THEN "handled" ELSE "checked"]
    /\ UNCHANGED <<rowVars, deliveryLog, msg, inbox, replays>>

AppendLine(w) ==
    /\ phase[w] = "checked"
    /\ inbox' = Append(inbox, msg[w])
    /\ phase' = [phase EXCEPT ![w] = "handled"]
    /\ UNCHANGED <<rowVars, deliveryLog, msg, replays>>

(* The handler raises: the payload fails validation or the file cannot be  *)
(* read or opened (retryable), or the event conflicts with the file or     *)
(* with the row (MaintenanceReplayDeliveryConflict, not retryable).        *)
HandlerRaises(w) ==
    /\ phase[w] \in {"claimed", "checked"}
    /\ \E raised \in {"failed", "rejected"} :
        /\ phase[w] = "checked" => raised = "failed"
        /\ phase' = [phase EXCEPT ![w] = raised]
    /\ UNCHANGED <<rowVars, deliveryLog, msg, inbox, replays>>

(* The line is written but fsync raises: the attempt counts as failed. *)
SyncRaises(w) ==
    /\ phase[w] = "checked"
    /\ inbox' = Append(inbox, msg[w])
    /\ phase' = [phase EXCEPT ![w] = "failed"]
    /\ UNCHANGED <<rowVars, deliveryLog, msg, replays>>

-----------------------------------------------------------------------------
(* Settling.  The UPDATE matches on id and lease_token, and a claim makes  *)
(* a new token that only the claiming process knows: a token is therefore  *)
(* named by the worker that made it.  A worker that lost its lease gets    *)
(* OutboxLeaseLost, which rolls the transaction back and ends run_forever; *)
(* the process that replaces it starts idle.                               *)

MutantOwnsLease(w) == TRUE

OwnsLease(w) == holder[msg[w]] = w

ToIdle(w) ==
    /\ phase' = [phase EXCEPT ![w] = "idle"]
    /\ msg' = [msg EXCEPT ![w] = NoRow]

(* The row's update, which also clears the lease columns. *)
Settle(r, outcome) ==
    /\ status' = [status EXCEPT ![r] = outcome]
    /\ holder' = [holder EXCEPT ![r] = NoWorker]
    /\ expired' = [expired EXCEPT ![r] = FALSE]

MarkDelivered(w) ==
    /\ phase[w] = "handled"
    /\ OwnsLease(w)
    /\ deliveryLog' = deliveryLog \cup {msg[w]}
    /\ Settle(msg[w], "processed")
    /\ ToIdle(w)
    /\ UNCHANGED <<attempts, due, inbox, replays>>

(* message.attempt_count is the row's attempt_count of this claim, and no  *)
(* one else counts while the token still matches.                          *)
MarkFailed(w) ==
    /\ phase[w] \in {"failed", "rejected"}
    /\ OwnsLease(w)
    /\ Settle(msg[w], IF phase[w] = "failed" /\ attempts[msg[w]] < MaxAttempts
                      THEN "retry" ELSE "dead_letter")
    /\ due' = [due EXCEPT ![msg[w]] = FALSE]
    /\ ToIdle(w)
    /\ UNCHANGED <<attempts, deliveryLog, inbox, replays>>

MutantLeaseLost(w) ==
    /\ phase[w] \in {"handled", "failed", "rejected"}
    /\ ~OwnsLease(w)
    /\ deliveryLog' = IF phase[w] = "handled" THEN deliveryLog \cup {msg[w]} ELSE deliveryLog
    /\ ToIdle(w)
    /\ UNCHANGED <<rowVars, inbox, replays>>

LeaseLost(w) ==
    /\ phase[w] \in {"handled", "failed", "rejected"}
    /\ ~OwnsLease(w)
    /\ ToIdle(w)
    /\ UNCHANGED <<rowVars, deliveryLog, inbox, replays>>

(* The worker process dies between two steps and is started again. *)
Crash(w) ==
    /\ phase[w] # "idle"
    /\ ToIdle(w)
    /\ UNCHANGED <<rowVars, deliveryLog, inbox, replays>>

-----------------------------------------------------------------------------
(* An operator replays a dead letter; time passes. *)

ReplayDeadLetter(r) ==
    /\ replays < MaxReplays
    /\ status[r] = "dead_letter"
    /\ Settle(r, "pending")
    /\ attempts' = [attempts EXCEPT ![r] = 0]
    /\ due' = [due EXCEPT ![r] = TRUE]
    /\ replays' = replays + 1
    /\ UNCHANGED <<deliveryLog, phase, msg, inbox>>

BecomeDue(r) ==
    /\ status[r] \in {"pending", "retry"}
    /\ ~due[r]
    /\ due' = [due EXCEPT ![r] = TRUE]
    /\ UNCHANGED <<status, attempts, holder, expired, deliveryLog, phase, msg, inbox, replays>>

LeaseExpires(r) ==
    /\ status[r] = "processing"
    /\ ~expired[r]
    /\ expired' = [expired EXCEPT ![r] = TRUE]
    /\ UNCHANGED <<status, attempts, due, holder, deliveryLog, phase, msg, inbox, replays>>

-----------------------------------------------------------------------------
WorkerStep(w) ==
    \/ Claim(w) \/ RecoverOnly(w)
    \/ CheckInbox(w) \/ AppendLine(w) \/ HandlerRaises(w) \/ SyncRaises(w)
    \/ MarkDelivered(w) \/ MarkFailed(w) \/ LeaseLost(w)

TimeStep(r) == BecomeDue(r) \/ LeaseExpires(r)

Next ==
    \/ \E r \in Rows : Enqueue(r) \/ ReplayDeadLetter(r) \/ TimeStep(r)
    \/ \E w \in Workers : WorkerStep(w) \/ Crash(w)

Spec == Init /\ [][Next]_vars

(* A running dispatcher polls for ever and time passes; nothing is assumed *)
(* of crashes, of the operator or of the producer.                         *)
Fairness ==
    /\ \A w \in Workers : WF_vars(WorkerStep(w))
    /\ \A r \in Rows : WF_vars(TimeStep(r))

FairSpec == Spec /\ Fairness

-----------------------------------------------------------------------------
(* No event is tried before the earlier events of its maintenance action   *)
(* are processed: the stream-head rule of _first_claimable, together with  *)
(* the producer's lifecycle guard, survives crashes, expired leases,       *)
(* retries, dead letters and replays.                                      *)
TriedInStateOrder ==
    \A r \in Rows : status[r] \in {"processing", "retry", "processed", "dead_letter"} =>
        \A s \in Predecessors(r) : status[s] = "processed"

(* A row is processed only if its line is in the inbox. *)
ProcessedIsInInbox == \A r \in Rows : status[r] = "processed" => r \in Lines

(* The delivery log holds exactly the processed rows. *)
LoggedIffProcessed == deliveryLog = {r \in Rows : status[r] = "processed"}

(* At-least-once delivery loses nothing, whatever happens between append   *)
(* and settle, and its log is exact: the insert of a worker that lost its  *)
(* lease is rolled back with its settle.                                   *)
AccountsForDelivery == ProcessedIsInInbox /\ LoggedIffProcessed

(* The outcome of a row is decided by the worker that holds its current    *)
(* lease and by no other: a worker whose lease was taken over changes      *)
(* neither a row in flight nor one that is settled, and a processed row    *)
(* stays processed.                                                        *)
OnlyTheHolderSettles ==
    [][\A r \in Rows :
        /\ status[r] = "processing" /\ status'[r] \in {"processed", "retry", "dead_letter"} =>
            \/ expired[r]
            \/ \E w \in Workers : holder[r] = w /\ msg[w] = r /\ msg'[w] = NoRow
        /\ status[r] = "processed" => status'[r] = "processed"]_vars

(* What the consumer sees is an ordered delivery: the first line of every  *)
(* event comes after the lines of its action's earlier events.             *)
Abstract == INSTANCE OrderedDelivery WITH
    published <- {r \in Rows : status[r] # "absent"},
    delivered <- Lines

DeliversInOrder == Abstract!Spec

(* A row that used up its attempts without being settled: claim_one        *)
(* recovered its lease after the last attempt.                             *)
Stranded(r) == status[r] = "retry" /\ attempts[r] = MaxAttempts

IsHead(r) == \E w \in Workers : r \in StreamHeads(w)

(* The row at the head of its stream is settled or stranded in the end;    *)
(* it cannot wait for ever behind other streams, a dead worker or a delay. *)
HeadSettlesOrStrands ==
    \A r \in Rows : IsHead(r) ~> (status[r] \in {"processed", "dead_letter"} \/ Stranded(r)
                                  \/ ~IsHead(r))
=============================================================================
