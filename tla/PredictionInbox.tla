---------------------------- MODULE PredictionInbox ----------------------------
(***************************************************************************)
(* How the backend receives the prediction batches of the Generator and    *)
(* promotes them to product results (backend/app/diagnosis/runtime_        *)
(* router.py, runtime_service.py, infra/db/diagnosis_runtime_repository.   *)
(* py).                                                                    *)
(*                                                                         *)
(* A request reads which assets the workspace knows, saves the batch and   *)
(* its items in one transaction under advisory locks, and promotes what    *)
(* the inbox has accepted under that batch_id in two more.  Requests, the  *)
(* repetitions of one that timed out included, run concurrently; the       *)
(* database is at READ COMMITTED, so what a transaction reads and what it  *)
(* inserts later are two steps.  The public endpoints, one that only       *)
(* receives and one that only promotes, do to the tables what a request    *)
(* that fails in between and its repetition do.                            *)
(***************************************************************************)
EXTENDS Naturals

CONSTANTS
    Payloads,  \* request bodies: a batch_id and its results (none: schema-invalid)
    Batches, Contents, Assets, Versions,
    NumEvents, \* number of event_ids
    AssetOf,   \* AssetOf[e]: the asset event e is about
    VersionOf, \* VersionOf[b]: the dataset version of b's source_context
    AssetsIn,  \* AssetsIn[v]: pm_assets of v, imported with it in one transaction
    Clients,
    NoPayload, Undecided

(* Event_ids, numbered in their order as strings. *)
Events == 1..NumEvents

(* content: the payload_sha256 a result claims; fault: whether that or the  *)
(* model lineage of the result is wrong.                                    *)
Items == [event : Events, content : Contents, fault : {"none", "checksum"}]

ASSUME InboxAssumption ==
    /\ Payloads \subseteq [batch : Batches, items : SUBSET Items]
    /\ \A p \in Payloads : \A i, j \in p.items : i.event = j.event => i = j
    /\ NumEvents \in Nat
    /\ AssetOf \in [Events -> Assets]
    /\ VersionOf \in [Batches -> Versions]
    /\ AssetsIn \in [Versions -> SUBSET Assets]
    /\ NoPayload \notin Payloads

Verdicts == {"accepted", "rejected", "conflict"}
Statuses == Verdicts \cup {"none", "duplicate"}

ASSUME UndecidedAssumption ==
    Undecided \notin [batch : Statuses, item : [Events -> Statuses]]

VARIABLES
    imported, \* dataset versions in the workspace
    attempts, \* attempts[p]: status of the inbox row of payload p ("none": no row)
    items,    \* items[e][c]: status of the inbox row of content c of event e
    results,  \* product results; their ids are made of batch_id and event_id
    phase,    \* phase[w]: where the request of client w is, or how it was answered
    request,  \* request[w]: its body
    fit,      \* fit[w]: the events whose results have passed validation
    locked,   \* locked[w]: the events whose advisory lock it holds
    decision  \* decision[w]: the statuses it is going to insert

data == <<imported, attempts, items, results>>
vars == <<data, phase, request, fit, locked, decision>>

(* "error": a 500, or an answer that never arrives. *)
Answered == Verdicts \cup {"idle", "duplicate", "error"}
Underway == {"sent", "validated", "locking", "decided", "saved", "promoting"}

TypeOK ==
    /\ imported \subseteq Versions
    /\ attempts \in [Payloads -> Verdicts \cup {"none"}]
    /\ items \in [Events -> [Contents -> Verdicts \cup {"none"}]]
    /\ results \subseteq [batch : Batches, event : Events, content : Contents]
    /\ phase \in [Clients -> Answered \cup Underway]
    /\ request \in [Clients -> Payloads \cup {NoPayload}]
    /\ fit \in [Clients -> SUBSET Events]
    /\ locked \in [Clients -> SUBSET Events]
    /\ decision \in [Clients -> [batch : Statuses, item : [Events -> Statuses]] \cup {Undecided}]
    /\ \A w \in Clients :
          /\ phase[w] # "idle" => request[w] \in Payloads
          /\ phase[w] = "decided" => decision[w] # Undecided
          /\ phase[w] \notin {"locking", "decided"} => locked[w] = {}

Init ==
    /\ imported = {}
    /\ attempts = [p \in Payloads |-> "none"]
    /\ items = [e \in Events |-> [c \in Contents |-> "none"]]
    /\ results = {}
    /\ phase = [w \in Clients |-> "idle"]
    /\ request = [w \in Clients |-> NoPayload]
    /\ fit = [w \in Clients |-> {}]
    /\ locked = [w \in Clients |-> {}]
    /\ decision = [w \in Clients |-> Undecided]

EventsOf(p) == {i.event : i \in p.items}
InBatch(b) == {p \in Payloads : p.batch = b}
AcceptedIn(b) == {p \in InBatch(b) : attempts[p] = "accepted"}

GoOn(w, next) == phase' = [phase EXCEPT ![w] = next]

(* The transaction under way, if any, ends, and its locks are released. *)
Answer(w, how) ==
    /\ GoOn(w, how)
    /\ fit' = [fit EXCEPT ![w] = {}]
    /\ locked' = [locked EXCEPT ![w] = {}]
    /\ decision' = [decision EXCEPT ![w] = Undecided]

-----------------------------------------------------------------------------
(* Dataset versions are imported, outside this code. *)
Import(v) ==
    /\ imported' = imported \cup {v}
    /\ UNCHANGED <<attempts, items, results, phase, request, fit, locked, decision>>

Send(w) ==
    /\ phase[w] \in Answered
    /\ request' \in {[request EXCEPT ![w] = p] : p \in Payloads}
    /\ GoOn(w, "sent")
    /\ UNCHANGED <<data, fit, locked, decision>>

(* assets_exist_in_workspace: in any version of any dataset. *)
KnownAssets == UNION {AssetsIn[v] : v \in imported}

Validate(w) ==
    /\ phase[w] = "sent"
    /\ fit' = [fit EXCEPT ![w] = {i.event : i \in
                  {j \in request[w].items : j.fault = "none" /\ AssetOf[j.event] \in KnownAssets}}]
    /\ GoOn(w, "validated")
    /\ UNCHANGED <<data, request, locked, decision>>

HoldsBatch(w) == phase[w] \in {"locking", "decided"}

LockBatch(w) ==
    /\ phase[w] = "validated"
    /\ \A v \in Clients \ {w} : HoldsBatch(v) => request[v].batch # request[w].batch
    /\ GoOn(w, "locking")
    /\ UNCHANGED <<data, request, fit, locked, decision>>

(* Mutant: the events are not locked. *)
MutantToLock(w) == {}

ToLock(w) == EventsOf(request[w]) \ locked[w]

(* Mutant: the events are locked in the order of the payload. *)
MutantNextLock(w) == ToLock(w)

(* The lock asked for next: for event_id in sorted(...). *)
NextLock(w) == {e \in ToLock(w) : \A f \in ToLock(w) : e <= f}

LockEvent(w) ==
    /\ phase[w] = "locking"
    /\ \E e \in NextLock(w) :
          /\ \A v \in Clients : e \notin locked[v]
          /\ locked' = [locked EXCEPT ![w] = @ \cup {e}]
    /\ UNCHANGED <<data, phase, request, fit, decision>>

-----------------------------------------------------------------------------
(* save_prediction_batch_inbox, with all its locks. *)

RecordedContents(e) == {c \in Contents : items[e][c] # "none"}

Validated(i, fitting) == IF i.event \in fitting THEN "accepted" ELSE "rejected"

(* Mutant: another content of an event is no conflict. *)
MutantItemStatus(i, fitting) ==
    IF i.content \in RecordedContents(i.event) THEN "duplicate" ELSE Validated(i, fitting)

(* The same content is a duplicate whatever became of it the first time. *)
ItemStatus(i, fitting) ==
    IF i.content \in RecordedContents(i.event) THEN "duplicate"
    ELSE IF RecordedContents(i.event) # {} THEN "conflict"
    ELSE Validated(i, fitting)

BatchStatus(p, fitting) ==
    LET found == {ItemStatus(i, fitting) : i \in p.items}
    IN  IF \/ "conflict" \in found
           \/ attempts[p] = "none" /\ \E q \in InBatch(p.batch) : attempts[q] # "none"
        THEN "conflict"
        ELSE IF "rejected" \in found THEN "rejected"
        ELSE IF attempts[p] # "none" THEN "duplicate"
        ELSE IF p.items # {} /\ fitting = EventsOf(p) THEN "accepted"
        ELSE "rejected"

Statused(p, fitting) ==
    [batch |-> BatchStatus(p, fitting),
     item |-> [e \in Events |->
         IF e \in EventsOf(p)
         THEN ItemStatus(CHOOSE i \in p.items : i.event = e, fitting) ELSE "none"]]

(* The SELECTs of the batch and of each item. *)
Decide(w) ==
    /\ phase[w] = "locking"
    /\ ToLock(w) = {}
    /\ decision' = [decision EXCEPT ![w] = Statused(request[w], fit[w])]
    /\ GoOn(w, "decided")
    /\ UNCHANGED <<data, request, fit, locked>>

(* Mutant: a duplicate is recorded as an attempt of its own. *)
MutantIsNew(status) == TRUE

IsNew(status) == status # "duplicate"

(* Mutant: only a batch that is new is promoted. *)
MutantGoesOn(status) == status = "accepted"

(* receive_internal_prediction_results: a duplicate may have been left      *)
(* without its promotion.                                                   *)
GoesOn(status) == status \in {"accepted", "duplicate"}

(* The INSERTs and the commit. *)
Insert(w) ==
    /\ phase[w] = "decided"
    /\ LET status == decision[w].batch
           new(i) == IsNew(status) /\ IsNew(decision[w].item[i.event])
       IN  /\ attempts' = IF IsNew(status)
                          THEN [attempts EXCEPT ![request[w]] = status] ELSE attempts
           /\ items' = [e \in Events |-> [c \in Contents |->
                  IF \E i \in request[w].items : i.event = e /\ i.content = c /\ new(i)
                  THEN decision[w].item[e] ELSE items[e][c]]]
           /\ IF GoesOn(status)
              THEN /\ GoOn(w, "saved")
                   /\ locked' = [locked EXCEPT ![w] = {}]
                   /\ UNCHANGED <<fit, decision>>
              ELSE Answer(w, status)
    /\ UNCHANGED <<imported, results, request>>

-----------------------------------------------------------------------------
Batch(w) == request[w].batch

(* prediction_batch_promotion_context: a duplicate of a batch that was never *)
(* accepted is answered as it is; a dataset version that is not there is an *)
(* error.                                                                   *)
Resolve(w) ==
    /\ phase[w] = "saved"
    /\ IF AcceptedIn(Batch(w)) = {}
       THEN Answer(w, IF decision[w].batch = "duplicate" THEN "duplicate" ELSE "error")
       ELSE IF VersionOf[Batch(w)] \notin imported THEN Answer(w, "error")
       ELSE GoOn(w, "promoting") /\ UNCHANGED <<fit, locked, decision>>
    /\ UNCHANGED <<data, request>>

(* Results about an asset that is not in the batch's own version are left   *)
(* out without an error.                                                    *)
Promotable(p) ==
    {i \in p.items : AssetOf[i.event] \in AssetsIn[VersionOf[p.batch]]}

ResultOf(p, i) == [batch |-> p.batch, event |-> i.event, content |-> i.content]

(* save_prediction_batch_promotions, under the lock of the inbox row. *)
Promote(w) ==
    /\ phase[w] = "promoting"
    /\ results' = results \cup
           UNION {{ResultOf(p, i) : i \in Promotable(p)} : p \in AcceptedIn(Batch(w))}
    /\ Answer(w, decision[w].batch)
    /\ UNCHANGED <<imported, attempts, items, request>>

(* The process, the database or the connection fails. *)
Fail(w) ==
    /\ phase[w] \in Underway
    /\ Answer(w, "error")
    /\ UNCHANGED <<data, request>>

Next ==
    \/ \E v \in Versions : Import(v)
    \/ \E w \in Clients :
          \/ Send(w) \/ Validate(w) \/ LockBatch(w) \/ LockEvent(w) \/ Decide(w)
          \/ Insert(w) \/ Resolve(w) \/ Promote(w) \/ Fail(w)

Spec == Init /\ [][Next]_vars

-----------------------------------------------------------------------------
(* What a request has read under its locks is still so when it inserts: no  *)
(* concurrent request for the same batch, or for another batch with some of *)
(* the same events, changes the status of the batch or of an item in        *)
(* between.  (This is why the unique indexes on accepted rows never raise.) *)
DecisionsAreCurrent ==
    \A w \in Clients : phase[w] = "decided" => decision[w] = Statused(request[w], fit[w])

(* w waits for a lock that v holds. *)
WaitsFor(w, v) ==
    \/ phase[w] = "validated" /\ HoldsBatch(v) /\ Batch(v) = Batch(w)
    \/ phase[w] = "locking" /\ NextLock(w) \cap locked[v] # {}

(* Requests whose batches overlap never wait for each other in a circle. *)
NobodyWaitsInACircle ==
    \A waiting \in (SUBSET Clients) \ {{}} :
       \E w \in waiting : \A v \in waiting \ {w} : ~WaitsFor(w, v)

(* When a request is answered as accepted or as a duplicate, so that the    *)
(* Generator marks its batch as sent, everything in the accepted batch of   *)
(* that batch_id whose asset its dataset version has is a product result,   *)
(* also if the promotion of an earlier request had failed or another one is *)
(* going on.                                                                *)
AnsweredIsPromoted ==
    \A w \in Clients : phase[w] \in {"accepted", "duplicate"} =>
       /\ phase[w] = "accepted" => attempts[request[w]] = "accepted"
       /\ \A p \in AcceptedIn(Batch(w)) : \A i \in Promotable(p) : ResultOf(p, i) \in results

Refused(i) == items[i.event][i.content] \in {"conflict", "rejected"}

(* A content that contradicts one that is accepted for its event becomes a  *)
(* product result in one way only: it was refused before, and a third       *)
(* batch with it is taken for a duplicate and accepted                      *)
(* (save_prediction_batch_inbox does not look at the status of the row it   *)
(* finds).                                                                  *)
SecondContentWasRefused ==
    \A p, q \in Payloads : \A i \in p.items, j \in q.items :
       /\ i.event = j.event /\ i.content # j.content
       /\ ResultOf(p, i) \in results /\ ResultOf(q, j) \in results
       => Refused(i) \/ Refused(j)

(* The accepted batches some of whose results are not there yet. *)
Owing ==
    {p \in Payloads :
        attempts[p] = "accepted" /\ \E i \in Promotable(p) : ResultOf(p, i) \notin results}

(* The batches some client has been told are delivered. *)
Told == {request[w] : w \in {v \in Clients : phase[v] \in {"accepted", "duplicate"}}}

(* Requests that receive and promote at the same time, fail and come again, *)
(* are together an orderly receipt: each batch is decided once and for      *)
(* good, by whichever request inserts first; one that was accepted is       *)
(* promoted as a whole, in one step, possibly by another request for its    *)
(* batch_id; and a client is told that a batch was delivered only after.    *)
Receipt == INSTANCE BatchReceipt WITH
    Batches <- Payloads,
    WithResults <- {p \in Payloads : Promotable(p) # {}},
    Refusals <- {"conflict", "rejected"},
    verdict <- attempts,
    owing <- Owing,
    told <- Told

RefinesReceipt == Receipt!Spec
=============================================================================
