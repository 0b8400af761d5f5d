----------------------------- MODULE Maintenance -----------------------------
(***************************************************************************)
(* The maintenance loop of the backend, from the recommendation that       *)
(* follows an inspection to the replay of the simulation                   *)
(* (backend/app/maintenance/service.py over                                *)
(* backend/app/infra/db/maintenance_repository.py).                        *)
(*                                                                         *)
(* An HTTP command first reads and validates in the service, outside any   *)
(* transaction; then one transaction looks up its Idempotency-Key, inserts *)
(* a record for it, reads its rows, and changes them by conditional        *)
(* updates.  On PostgreSQL `BEGIN IMMEDIATE` is dropped                    *)
(* (postgresql_compat.py:201) and transactions interleave at READ          *)
(* COMMITTED: a row read may be changed by another transaction before it   *)
(* is updated, an update waits for the row's lock and then sees what was   *)
(* committed, and the insertion of a key waits for whoever is inserting    *)
(* the same key.  SQLite's transactions, which do not interleave, are a    *)
(* special case.                                                           *)
(***************************************************************************)
EXTENDS Naturals, Sequences, FiniteSets

CONSTANTS
    Cases,      \* maintenance cases: an inspection result and an action code
    Machines,
    MachineOf,  \* MachineOf[c]: the equipment_id of case c
    Texts,      \* what an operator may write into a recommendation
    Clients,    \* threads that handle a command
    Keys,       \* the Idempotency-Keys clients use, each for one command and case
    NoArg,      \* the argument of a command without one; no record of a key
    NoRequest,
    Unread      \* rows a transaction has not read

Commands == {"recommend", "decide", "approve", "start", "complete", "replay"}
Dispositions == {"accept", "reject", "defer"}

(* The part of a command's payload that its fingerprint tells apart. *)
ArgsOf(command) ==
    CASE command = "recommend" -> Texts
      [] command = "decide" -> Dispositions
      [] OTHER -> {"plain"}

Args == Texts \cup Dispositions \cup {"plain"}

ASSUME MaintenanceAssumption ==
    /\ IsFiniteSet(Cases)
    /\ MachineOf \in [Cases -> Machines]
    /\ Keys \subseteq [command : Commands, case : Cases, n : Nat]
    /\ NoArg \notin Args
    /\ NoRequest \notin [key : Keys, arg : Args, attempt : {"first", "again"}]
    /\ Texts \cap (Dispositions \cup {"plain"}) = {}

VARIABLES
    row,        \* row[c]: the recommendation, work order and action of the case
    equipment,  \* equipment[m]: closed_loop_equipment_state (version 0: no row)
    outbox,     \* the rows of transactional_outbox, in order of insertion
    records,    \* records[k]: fingerprint of the succeeded command of key k
    phase,      \* phase[w]: where the command of client w is, or how it ended
    request,    \* request[w]: its key and argument, and whether the same request
                \* had already succeeded when it was sent ("again")
    seen,       \* seen[w]: the rows its transaction has read
    seenMachine \* seenMachine[w]: the equipment state its transaction has read

data == <<row, equipment, outbox, records>>
vars == <<row, equipment, outbox, records, phase, request, seen, seenMachine>>

RecommendationStatuses == {"none", "proposed", "deferred", "accepted", "rejected"}
OrderStatuses == {"none", "requested", "approved", "in_progress", "completed"}
ActionStatuses == {"none", "planned", "in_progress", "completed"}

Row == [recommendation : RecommendationStatuses, text : Texts \cup {NoArg},
        order : OrderStatuses, action : ActionStatuses, lifecycle : 0..3]
Equipment == [version : Nat, applied : SUBSET Cases]
Event == [case : Cases, version : 1..3]

(* "refused": any answer of 4xx or 5xx, whatever its reason. *)
Ended == {"idle", "done", "replayed", "refused", "lost"}
Underway == {"sent", "checked", "selected", "reserved", "locked"}

TypeOK ==
    /\ row \in [Cases -> Row]
    /\ equipment \in [Machines -> Equipment]
    /\ outbox \in Seq(Event)
    /\ records \in [Keys -> Args \cup {NoArg}]
    /\ phase \in [Clients -> Ended \cup Underway]
    /\ request \in [Clients -> [key : Keys, arg : Args, attempt : {"first", "again"}] \cup {NoRequest}]
    /\ seen \in [Clients -> Row \cup {Unread}]
    /\ seenMachine \in [Clients -> Equipment \cup {Unread}]
    /\ \A w \in Clients :
          /\ phase[w] \in Underway <=> request[w] # NoRequest
          /\ phase[w] \in {"selected", "reserved", "locked"} => seen[w] \in Row
          /\ phase[w] = "locked" => seenMachine[w] \in Equipment

Init ==
    /\ row = [c \in Cases |-> [recommendation |-> "none", text |-> NoArg, order |-> "none",
                               action |-> "none", lifecycle |-> 0]]
    /\ equipment = [m \in Machines |-> [version |-> 0, applied |-> {}]]
    /\ outbox = <<>>
    /\ records = [k \in Keys |-> NoArg]
    /\ phase = [w \in Clients |-> "idle"]
    /\ request = [w \in Clients |-> NoRequest]
    /\ seen = [w \in Clients |-> Unread]
    /\ seenMachine = [w \in Clients |-> Unread]

Key(w) == request[w].key
Command(w) == request[w].key.command
Case(w) == request[w].key.case
Arg(w) == request[w].arg

(* The command of w ends; a transaction that did not commit is rolled back. *)
End(w, how) ==
    /\ phase' = [phase EXCEPT ![w] = how]
    /\ request' = [request EXCEPT ![w] = NoRequest]
    /\ seen' = [seen EXCEPT ![w] = Unread]
    /\ seenMachine' = [seenMachine EXCEPT ![w] = Unread]

GoOn(w, next) ==
    /\ phase' = [phase EXCEPT ![w] = next]
    /\ UNCHANGED request

-----------------------------------------------------------------------------
(* A client sends a command with a key of its own choice: a new one, or the *)
(* key of an attempt whose answer it did not get.                           *)
Send(w) ==
    /\ phase[w] \in Ended
    /\ \E k \in Keys : \E arg \in ArgsOf(k.command) :
          request' = [request EXCEPT
              ![w] = [key |-> k, arg |-> arg,
                      attempt |-> IF records[k] = arg THEN "again" ELSE "first"]]
    /\ phase' = [phase EXCEPT ![w] = "sent"]
    /\ UNCHANGED <<data, seen, seenMachine>>

(* transition_recommendation; nothing here supersedes a recommendation. *)
MayDecide(status, disposition) ==
    \/ status = "proposed"
    \/ status = "deferred" /\ disposition # "defer"

(* Mutant: a start is validated against the action before the key is looked up. *)
MutantServiceAccepts(command, arg, r) ==
    CASE command = "recommend" -> TRUE
      [] command = "decide" -> MayDecide(r.recommendation, arg)
      [] command = "approve" -> r.order # "none"
      [] command = "start" -> r.action = "planned"
      [] command = "complete" -> r.action # "none"
      [] OTHER -> r.action = "completed"

(* The service's own reads.  Only decide_manual_recommendation validates    *)
(* the transition here, before the key is looked up.                        *)
ServiceAccepts(command, arg, r) ==
    CASE command = "recommend" -> TRUE
      [] command = "decide" -> MayDecide(r.recommendation, arg)
      [] command = "approve" -> r.order # "none"
      [] command \in {"start", "complete"} -> r.action # "none"
      [] OTHER -> r.action = "completed"

Check(w) ==
    /\ phase[w] = "sent"
    /\ IF ServiceAccepts(Command(w), Arg(w), row[Case(w)])
       THEN GoOn(w, "checked") /\ UNCHANGED <<seen, seenMachine>>
       ELSE End(w, "refused")
    /\ UNCHANGED data

(* The SELECT of _reserve_idempotency; a decision, a start and a completion *)
(* read their recommendation or action just before it.                      *)
SelectKey(w) ==
    /\ phase[w] = "checked"
    /\ CASE records[Key(w)] = NoArg ->
               /\ GoOn(w, "selected")
               /\ seen' = [seen EXCEPT ![w] = row[Case(w)]]
               /\ UNCHANGED seenMachine
         [] records[Key(w)] = Arg(w) -> End(w, "replayed")
         [] OTHER -> End(w, "refused")
    /\ UNCHANGED data

InTransaction == {w \in Clients : phase[w] \in {"reserved", "locked"}}

(* What a transaction that read r before its key was inserted has read when *)
(* it comes to its updates, the rows being now r2.                          *)
ReadsAgain(command, r, r2) ==
    CASE command = "decide" -> r
      [] command \in {"start", "complete"} -> [r EXCEPT !.order = r2.order]
      [] OTHER -> r2

(* Its INSERT, which waits for another transaction with the same key and    *)
(* fails if that one has committed.                                         *)
InsertKey(w) ==
    /\ phase[w] = "selected"
    /\ \A v \in InTransaction : Key(v) # Key(w)
    /\ IF records[Key(w)] = NoArg
       THEN /\ GoOn(w, "reserved")
            /\ seen' = [seen EXCEPT ![w] = ReadsAgain(Command(w), @, row[Case(w)])]
            /\ UNCHANGED seenMachine
       ELSE End(w, "refused")
    /\ UNCHANGED data

-----------------------------------------------------------------------------
(* What each command requires of the rows it has read, r, and then of the    *)
(* rows its conditional updates find, now.                                  *)

MayRecommend(text, now) == now.recommendation # "none" => now.text = text

(* Mutant: the update does not ask for the status that was read. *)
MutantMayRecordDecision(disposition, r, now) == MayDecide(r.recommendation, disposition)

MayRecordDecision(disposition, r, now) ==
    /\ MayDecide(r.recommendation, disposition)
    /\ now.recommendation = r.recommendation

MayApprove(r, now) == r.order = "requested" /\ now.order = "requested"

MayStart(r, now) ==
    /\ r.order = "approved" /\ r.action = "planned" /\ r.lifecycle < 1
    /\ now.order = "approved" /\ now.action = "planned" /\ now.lifecycle = r.lifecycle

(* Mutant: the updates do not ask for the statuses that were read. *)
MutantMayComplete(r, now) == r.action = "in_progress" /\ r.lifecycle < 2

MayComplete(r, now) ==
    /\ r.order = "in_progress" /\ r.action = "in_progress" /\ r.lifecycle < 2
    /\ now.order = "in_progress" /\ now.action = "in_progress" /\ now.lifecycle = r.lifecycle

(* The lifecycle is 3 as soon as there is a restart_at. *)
MayReplay(r, now) ==
    /\ r.action = "completed" /\ r.lifecycle < 3
    /\ now.action = "completed" /\ now.lifecycle = r.lifecycle

MayCommit(command, arg, r, now) ==
    CASE command = "recommend" -> MayRecommend(arg, now)
      [] command = "decide" -> MayRecordDecision(arg, r, now)
      [] command = "approve" -> MayApprove(r, now)
      [] command = "start" -> MayStart(r, now)
      [] command = "complete" -> MayComplete(r, now)
      [] OTHER -> MayReplay(r, now)

(* The rows after the updates of a command. *)

Recommended(text, now) ==
    IF now.recommendation = "none"
    THEN [now EXCEPT !.recommendation = "proposed", !.text = text] ELSE now

Decided(disposition, now) ==
    CASE disposition = "accept" -> [now EXCEPT !.recommendation = "accepted", !.order = "requested"]
      [] disposition = "reject" -> [now EXCEPT !.recommendation = "rejected"]
      [] OTHER -> [now EXCEPT !.recommendation = "deferred"]

Approved(now) == [now EXCEPT !.order = "approved", !.action = "planned"]
Started(now) == [now EXCEPT !.order = "in_progress", !.action = "in_progress", !.lifecycle = 1]
Completed(now) == [now EXCEPT !.order = "completed", !.action = "completed", !.lifecycle = 2]
ReplayRequested(now) == [now EXCEPT !.lifecycle = 3]

Updated(command, arg, now) ==
    CASE command = "recommend" -> Recommended(arg, now)
      [] command = "decide" -> Decided(arg, now)
      [] command = "approve" -> Approved(now)
      [] command = "start" -> Started(now)
      [] command = "complete" -> Completed(now)
      [] OTHER -> ReplayRequested(now)

VersionOf(command) == CASE command = "start" -> 1 [] command = "complete" -> 2 [] OTHER -> 3

(* _enqueue: the integration event of the command, in the same transaction. *)
Enqueue(command, c) ==
    IF command \in {"start", "complete", "replay"}
    THEN outbox' = Append(outbox, [case |-> c, version |-> VersionOf(command)])
    ELSE UNCHANGED outbox

(* The rows of a case whose completion is under way are locked by it. *)
Unlocked(w) ==
    \A v \in Clients \ {w} : ~(phase[v] = "locked" /\ Case(v) = Case(w))

Permitted(w) == MayCommit(Command(w), Arg(w), seen[w], row[Case(w)])

(* _finish_idempotency and the end of the transaction. *)
Finish(w) ==
    /\ row' = [row EXCEPT ![Case(w)] = Updated(Command(w), Arg(w), @)]
    /\ Enqueue(Command(w), Case(w))
    /\ records' = [records EXCEPT ![Key(w)] = Arg(w)]
    /\ End(w, "done")

(* Every command but a completion, which only the updates of another        *)
(* transaction on the same rows can hold up.                                *)
Commit(w) ==
    /\ phase[w] = "reserved"
    /\ Command(w) # "complete"
    /\ Unlocked(w)
    /\ Permitted(w)
    /\ Finish(w)
    /\ UNCHANGED equipment

(* A completion has updated its order and action, and reads the state of    *)
(* the equipment that it is going to patch.                                 *)
ReadEquipment(w) ==
    /\ phase[w] = "reserved"
    /\ Command(w) = "complete"
    /\ Unlocked(w)
    /\ Permitted(w)
    /\ GoOn(w, "locked")
    /\ seenMachine' = [seenMachine EXCEPT ![w] = equipment[MachineOf[Case(w)]]]
    /\ UNCHANGED <<data, seen>>

(* _apply_state_patch *)
Patched(state, c) == [version |-> state.version + 1, applied |-> state.applied \cup {c}]

(* Mutant: the state is written whatever version is there. *)
MutantEquipmentUnchanged(w) == equipment[MachineOf[Case(w)]].version >= 0

(* _persist_equipment_state: inserts or updates the version it has read. *)
EquipmentUnchanged(w) == equipment[MachineOf[Case(w)]].version = seenMachine[w].version

CommitCompletion(w) ==
    /\ phase[w] = "locked"
    /\ EquipmentUnchanged(w)
    /\ equipment' = [equipment EXCEPT ![MachineOf[Case(w)]] = Patched(seenMachine[w], Case(w))]
    /\ Finish(w)

(* InvalidTransition, or the IdempotencyConflict of a recommendation that   *)
(* says something else than the one in its place: all of it is rolled back. *)
Refuse(w) ==
    /\ \/ phase[w] = "reserved" /\ Unlocked(w) /\ ~Permitted(w)
       \/ phase[w] = "locked" /\ ~EquipmentUnchanged(w)
    /\ End(w, "refused")
    /\ UNCHANGED data

(* The process or its connection to the database dies. *)
Drop(w) ==
    /\ phase[w] \in Underway
    /\ End(w, "lost")
    /\ UNCHANGED data

Next == \E w \in Clients :
    \/ Send(w) \/ Check(w) \/ SelectKey(w) \/ InsertKey(w)
    \/ Commit(w) \/ ReadEquipment(w) \/ CommitCompletion(w) \/ Refuse(w) \/ Drop(w)

Spec == Init /\ [][Next]_vars

-----------------------------------------------------------------------------
(* The equipment's state_version counts the maintenances its state          *)
(* contains, and these are the completed ones of that machine: of two       *)
(* completions on one machine neither is lost from its state and none is    *)
(* counted twice (_persist_equipment_state).                                *)
EquipmentCountsEvents ==
    \A m \in Machines :
       /\ equipment[m].version = Cardinality(equipment[m].applied)
       /\ equipment[m].applied = {c \in Cases : MachineOf[c] = m /\ row[c].action = "completed"}

(* The statuses of a case's recommendation, work order and action, which    *)
(* are rows of three tables, never contradict each other.                   *)
RowsAgree(r) ==
    /\ r.recommendation = "none" <=> r.text = NoArg
    /\ r.order # "none" <=> r.recommendation = "accepted"
    /\ r.action # "none" <=> r.order \in {"approved", "in_progress", "completed"}
    /\ r.action = "planned" <=> r.order = "approved"
    /\ r.action = "in_progress" <=> r.order = "in_progress"
    /\ r.order # "completed" => r.lifecycle = IF r.order = "in_progress" THEN 1 ELSE 0
    /\ r.order = "completed" => r.lifecycle \in {2, 3}

(* What a command that was answered as done has left in the rows. *)
Done(command, arg, r) ==
    CASE command = "recommend" -> r.text = arg
      [] command = "decide" ->
             CASE arg = "accept" -> r.recommendation = "accepted"
               [] arg = "reject" -> r.recommendation = "rejected"
               [] OTHER -> r.recommendation \notin {"none", "proposed"}
      [] command = "approve" -> r.action # "none"
      [] command = "start" -> r.lifecycle >= 1
      [] command = "complete" -> r.lifecycle >= 2
      [] OTHER -> r.lifecycle = 3

Recorded == {k \in Keys : records[k] # NoArg}

(* A recommendation may be written again in the same words; everything else *)
(* is done once for a case, whatever the keys.                              *)
SameEffect(k1, k2) ==
    /\ k1.case = k2.case /\ k1.command = k2.command
    /\ k1.command # "recommend"
    /\ k1.command = "decide" => (records[k1] = "defer" <=> records[k2] = "defer")

(* A recorded key is the effect of its command, still there to be answered  *)
(* from, and no second key is recorded for the same effect: two requests    *)
(* that race, with the same key or with different ones, do not both start,  *)
(* complete, decide or replay a case.                                       *)
OneEffect ==
    /\ \A c \in Cases : RowsAgree(row[c])
    /\ \A k \in Recorded : Done(k.command, records[k], row[k.case])
    /\ \A k1, k2 \in Recorded : SameEffect(k1, k2) => k1 = k2

(* A request that had already succeeded when it was sent again is answered  *)
(* with what it did (or is lost again): no validation refuses it for the    *)
(* state it has itself brought about.  The code keeps this for every        *)
(* command but a decision.  (One that is sent while the first is under way  *)
(* is refused by the unique key instead, and is not "again" here.)          *)
RetryIsReplayed(w) ==
    /\ request[w] # NoRequest /\ request[w].attempt = "again"
    /\ Command(w) # "decide"
    /\ phase'[w] \in Ended
    => phase'[w] \in {"replayed", "lost"}

RetriesAreReplayed == [][\A w \in Clients : RetryIsReplayed(w)]_vars

Stage(c) ==
    CASE row[c].order = "none" /\ row[c].recommendation # "accepted" -> row[c].recommendation
      [] row[c].order = "completed" /\ row[c].lifecycle = 3 -> "replayed"
      [] OTHER -> row[c].order

Lifecycle == INSTANCE MaintenanceLifecycle WITH
    stage <- [c \in Cases |-> Stage(c)], published <- outbox

(* The maintenance lifecycle, seen from outside, is that of one command at  *)
(* a time.                                                                  *)
RefinesLifecycle == Lifecycle!Spec
=============================================================================
