------------------------- MODULE PredictionInboxProofs -------------------------
(***************************************************************************)
(* For any payloads, events and clients: what a request has decided under  *)
(* its locks is still so when it inserts, requests never wait in a circle, *)
(* what is answered as accepted or as a duplicate is promoted, and a       *)
(* second content of an event becomes a result only if it was refused.     *)
(***************************************************************************)
EXTENDS PredictionInbox, TLAPS, WellFoundedInduction

(* Locks are held on events of the request's own batch, taken in their      *)
(* order, all of them before it decides.                                    *)
LocksInOrder ==
    \A w \in Clients :
       /\ HoldsBatch(w) => locked[w] \subseteq EventsOf(request[w])
       /\ phase[w] = "decided" => ToLock(w) = {}
       /\ phase[w] = "locking" => \A e \in locked[w], f \in ToLock(w) : e < f

(* An advisory lock has one holder. *)
Exclusive ==
    \A v, w \in Clients : v # w =>
       /\ locked[v] \cap locked[w] = {}
       /\ HoldsBatch(v) /\ HoldsBatch(w) => Batch(v) # Batch(w)

(* A batch is stored with all its items. *)
ItemsStored ==
    \A p \in Payloads : attempts[p] # "none" =>
       \A i \in p.items : items[i.event][i.content] # "none"

OneAccepted ==
    \A e \in Events : \A c, d \in Contents :
       items[e][c] = "accepted" /\ items[e][d] = "accepted" => c = d

(* A batch_id has one accepted batch, whatever else was sent under it. *)
OneAcceptedInBatch ==
    \A p, q \in Payloads :
       p.batch = q.batch /\ attempts[p] = "accepted" /\ attempts[q] = "accepted" => p = q

(* What goes on after the first transaction. *)
GoingOn ==
    \A w \in Clients :
       /\ phase[w] \in {"saved", "promoting"} =>
             /\ decision[w] # Undecided
             /\ decision[w].batch \in {"accepted", "duplicate"}
             /\ decision[w].batch = "accepted" => attempts[request[w]] = "accepted"
       /\ phase[w] \in {"saved", "promoting", "accepted", "duplicate"} =>
             attempts[request[w]] # "none"

(* Every result comes from the accepted batch of its batch_id. *)
Sourced ==
    \A r \in results : \E p \in AcceptedIn(r.batch) : \E i \in p.items :
       i.event = r.event /\ i.content = r.content

IInv ==
    /\ TypeOK
    /\ LocksInOrder
    /\ Exclusive
    /\ DecisionsAreCurrent
    /\ ItemsStored
    /\ OneAccepted
    /\ OneAcceptedInBatch
    /\ GoingOn
    /\ Sourced
    /\ AnsweredIsPromoted

-----------------------------------------------------------------------------
(* The operators of the inbox. *)

LEMMA EventsOfPayload ==
    ASSUME NEW p \in Payloads
    PROVE  /\ p.batch \in Batches
           /\ p.items \subseteq Items
           /\ EventsOf(p) \subseteq Events
           /\ \A i \in p.items : i.event \in EventsOf(p) /\ i.event \in Events /\ i.content \in Contents
<1>1. p \in [batch : Batches, items : SUBSET Items]
  BY InboxAssumption
<1> QED
  BY <1>1 DEF EventsOf, Items

(* The item of an event of a payload. *)
LEMMA ItemOfEvent ==
    ASSUME NEW p \in Payloads, NEW i \in p.items
    PROVE  (CHOOSE j \in p.items : j.event = i.event) = i
<1>1. \A j \in p.items : j.event = i.event => j = i
  BY InboxAssumption
<1>2. (CHOOSE j \in p.items : j.event = i.event) \in p.items
  OBVIOUS
<1>3. (CHOOSE j \in p.items : j.event = i.event).event = i.event
  OBVIOUS
<1> QED
  BY <1>1, <1>2, <1>3

LEMMA ItemStatusType ==
    ASSUME NEW i, NEW fitting PROVE ItemStatus(i, fitting) \in {"accepted", "rejected", "conflict", "duplicate"}
BY DEF ItemStatus, Validated

LEMMA StatusedType ==
    ASSUME NEW p \in Payloads, NEW fitting
    PROVE  /\ Statused(p, fitting) \in [batch : Statuses, item : [Events -> Statuses]]
           /\ Statused(p, fitting) # Undecided
           /\ Statused(p, fitting).batch = BatchStatus(p, fitting)
           /\ Statused(p, fitting).batch \in {"accepted", "rejected", "conflict", "duplicate"}
           /\ \A i \in p.items : Statused(p, fitting).item[i.event] = ItemStatus(i, fitting)
<1>1. BatchStatus(p, fitting) \in {"accepted", "rejected", "conflict", "duplicate"}
  BY DEF BatchStatus
<1>2. \A e \in Events :
         (IF e \in EventsOf(p) THEN ItemStatus(CHOOSE i \in p.items : i.event = e, fitting) ELSE "none")
            \in Statuses
  BY ItemStatusType DEF Statuses, Verdicts
<1>3. \A i \in p.items : Statused(p, fitting).item[i.event] = ItemStatus(i, fitting)
  <2> TAKE i \in p.items
  <2>1. i.event \in Events /\ i.event \in EventsOf(p)
    BY EventsOfPayload
  <2>2. Statused(p, fitting).item[i.event] = ItemStatus(CHOOSE j \in p.items : j.event = i.event, fitting)
    BY <2>1 DEF Statused
  <2> QED
    BY <2>2, ItemOfEvent
<1>4. Statused(p, fitting) \in [batch : Statuses, item : [Events -> Statuses]]
  BY <1>1, <1>2 DEF Statused, Statuses, Verdicts
<1>5. Statused(p, fitting).batch = BatchStatus(p, fitting)
  BY DEF Statused
<1> QED
  BY <1>1, <1>3, <1>4, <1>5, UndecidedAssumption

(* What a request decides depends on the rows of its batch_id and of its    *)
(* events only.                                                             *)
LEMMA DecisionKept ==
    ASSUME TypeOK, NEW w \in Clients, request[w] \in Payloads,
           request'[w] = request[w], fit'[w] = fit[w],
           \A q \in InBatch(Batch(w)) : attempts'[q] = attempts[q],
           \A e \in EventsOf(request[w]) : items'[e] = items[e]
    PROVE  Statused(request[w], fit[w])' = Statused(request[w], fit[w])
<1> DEFINE p == request[w]
<1>1. \A i \in p.items : RecordedContents(i.event)' = RecordedContents(i.event)
  BY EventsOfPayload DEF RecordedContents
<1>2. \A i \in p.items : ItemStatus(i, fit[w])' = ItemStatus(i, fit[w])
  BY <1>1 DEF ItemStatus, Validated
<1>3. p \in InBatch(Batch(w)) /\ p.batch = Batch(w)
  BY DEF InBatch, Batch
<1>4. \A q \in InBatch(p.batch) : (attempts[q])' = attempts[q]
  BY <1>3
<1>5. (BatchStatus(request[w], fit[w]))' = BatchStatus(request[w], fit[w])
  <2>1. {ItemStatus(i, fit[w])' : i \in p.items} = {ItemStatus(i, fit[w]) : i \in p.items}
    BY <1>2
  <2>2. (attempts[p])' = attempts[p]
    BY <1>3
  <2>3. (\E q \in InBatch(p.batch) : (attempts[q])' # "none") <=> \E q \in InBatch(p.batch) : attempts[q] # "none"
    BY <1>4
  <2> QED
    BY <2>1, <2>2, <2>3 DEF BatchStatus, InBatch
<1>6. \A e \in EventsOf(p) :
         /\ (CHOOSE i \in p.items : i.event = e) \in p.items
         /\ ItemStatus(CHOOSE i \in p.items : i.event = e, fit[w])'
               = ItemStatus(CHOOSE i \in p.items : i.event = e, fit[w])
  BY <1>2 DEF EventsOf
<1> QED
  BY <1>5, <1>6 DEF Statused

(* A stored batch is a duplicate, and a batch is accepted only if nothing   *)
(* is stored under its batch_id.                                            *)
LEMMA BatchStatusOfStored ==
    ASSUME NEW p \in Payloads, NEW fitting, ItemsStored, TypeOK
    PROVE  /\ attempts[p] # "none" => BatchStatus(p, fitting) = "duplicate"
           /\ BatchStatus(p, fitting) = "accepted" => \A q \in InBatch(p.batch) : attempts[q] = "none"
           /\ BatchStatus(p, fitting) = "duplicate" => attempts[p] # "none"
<1>1. ASSUME attempts[p] # "none" PROVE \A i \in p.items : ItemStatus(i, fitting) = "duplicate"
  <2> TAKE i \in p.items
  <2>1. i.event \in Events /\ i.content \in Contents
    BY EventsOfPayload
  <2>2. items[i.event][i.content] # "none"
    BY <1>1 DEF ItemsStored
  <2> QED
    BY <2>1, <2>2 DEF ItemStatus, RecordedContents
<1>2. attempts[p] # "none" => BatchStatus(p, fitting) = "duplicate"
  BY <1>1 DEF BatchStatus
<1>3. p \in InBatch(p.batch)
  BY DEF InBatch
<1> QED
  BY <1>2, <1>3 DEF BatchStatus

(* What the INSERTs change: the request's own row and the rows of its own   *)
(* events, where there was none; an accepted batch is the first of its      *)
(* batch_id, an accepted content the first of its event.                    *)
LEMMA InsertFacts ==
    ASSUME TypeOK, ItemsStored, DecisionsAreCurrent, NEW w \in Clients, Insert(w)
    PROVE  /\ request[w] \in Payloads
           /\ decision[w] = Statused(request[w], fit[w])
           /\ \A q \in Payloads : attempts[q] # "none" => attempts'[q] = attempts[q]
           /\ \A q \in Payloads : q # request[w] => attempts'[q] = attempts[q]
           /\ attempts'[request[w]] # "none"
           /\ \/ attempts'[request[w]] = attempts[request[w]]
              \/ attempts'[request[w]] = decision[w].batch
           /\ attempts'[request[w]] = "accepted" /\ attempts[request[w]] # "accepted" =>
                 \A q \in InBatch(Batch(w)) : attempts[q] = "none"
           /\ \A e \in Events : \A c \in Contents :
                 items[e][c] # "none" => items'[e][c] = items[e][c]
           /\ \A e \in Events : e \notin EventsOf(request[w]) => items'[e] = items[e]
           /\ \A e \in Events : \A c \in Contents :
                 items'[e][c] = "accepted" /\ items[e][c] # "accepted" =>
                    /\ \A d \in Contents : items[e][d] = "none"
                    /\ \A d \in Contents : d # c => items'[e][d] = items[e][d]
           /\ \A i \in request[w].items : items'[i.event][i.content] # "none"
<1> DEFINE p == request[w]
           status == decision[w].batch
           new(i) == IsNew(status) /\ IsNew(decision[w].item[i.event])
<1>1. phase[w] = "decided" /\ p \in Payloads /\ decision[w] = Statused(p, fit[w])
  BY DEF Insert, TypeOK, DecisionsAreCurrent
<1>2. /\ status = BatchStatus(p, fit[w])
      /\ status \in {"accepted", "rejected", "conflict", "duplicate"}
      /\ \A i \in p.items : decision[w].item[i.event] = ItemStatus(i, fit[w])
  BY <1>1, StatusedType
<1>3. /\ attempts[p] # "none" => status = "duplicate"
      /\ status = "accepted" => \A q \in InBatch(Batch(w)) : attempts[q] = "none"
      /\ status = "duplicate" => attempts[p] # "none"
  BY <1>1, <1>2, BatchStatusOfStored DEF Batch
<1>4. attempts' = IF IsNew(status) THEN [attempts EXCEPT ![p] = status] ELSE attempts
  BY DEF Insert
<1>5. items' = [e \in Events |-> [c \in Contents |->
             IF \E i \in p.items : i.event = e /\ i.content = c /\ new(i)
             THEN decision[w].item[e] ELSE items[e][c]]]
  BY DEF Insert
<1>6. /\ attempts \in [Payloads -> Verdicts \cup {"none"}]
      /\ items \in [Events -> [Contents -> Verdicts \cup {"none"}]]
  BY DEF TypeOK
<1>7. /\ \A q \in Payloads : attempts[q] # "none" => attempts'[q] = attempts[q]
      /\ \A q \in Payloads : q # p => attempts'[q] = attempts[q]
      /\ attempts'[p] # "none"
      /\ attempts'[p] = attempts[p] \/ attempts'[p] = status
  BY <1>1, <1>2, <1>3, <1>4, <1>6 DEF IsNew
<1>8. attempts'[p] = "accepted" /\ attempts[p] # "accepted" =>
         \A q \in InBatch(Batch(w)) : attempts[q] = "none"
  BY <1>3, <1>7
<1>9. \A i \in p.items : new(i) =>
         /\ i.content \notin RecordedContents(i.event)
         /\ decision[w].item[i.event] = "accepted" => RecordedContents(i.event) = {}
         /\ decision[w].item[i.event] # "none"
  BY <1>2, ItemStatusType DEF IsNew, ItemStatus, Validated
<1>10. \A e \in Events : \A c \in Contents :
          items'[e][c] = IF \E i \in p.items : i.event = e /\ i.content = c /\ new(i)
                         THEN decision[w].item[e] ELSE items[e][c]
  BY <1>5
<1>11. \A e \in Events : \A c \in Contents : items[e][c] # "none" => items'[e][c] = items[e][c]
  BY <1>9, <1>10 DEF RecordedContents
<1>12. \A e \in Events : e \notin EventsOf(p) => items'[e] = items[e]
  <2> SUFFICES ASSUME NEW e \in Events, e \notin EventsOf(p) PROVE items'[e] = items[e]
    OBVIOUS
  <2>1. ~\E i \in p.items : i.event = e
    BY DEF EventsOf
  <2>2. items'[e] = [c \in Contents |-> items[e][c]]
    BY <1>5, <2>1
  <2> QED
    BY <2>2, <1>6
<1>13. ASSUME NEW e \in Events, NEW c \in Contents, items'[e][c] = "accepted", items[e][c] # "accepted"
       PROVE  /\ \A d \in Contents : items[e][d] = "none"
              /\ \A d \in Contents : d # c => items'[e][d] = items[e][d]
  <2>1. PICK i \in p.items : i.event = e /\ i.content = c /\ new(i)
    BY <1>10, <1>13
  <2>2. decision[w].item[e] = "accepted"
    BY <1>10, <1>13, <2>1
  <2>3. RecordedContents(e) = {}
    BY <1>9, <2>1, <2>2
  <2>4. \A j \in p.items : j.event = e => j = i
    BY <1>1, <2>1, InboxAssumption
  <2>5. \A d \in Contents : d # c => items'[e][d] = items[e][d]
    BY <1>10, <2>1, <2>4
  <2> QED
    BY <2>3, <2>5 DEF RecordedContents
<1>14. ASSUME NEW i \in p.items PROVE items'[i.event][i.content] # "none"
  <2>1. i.event \in Events /\ i.content \in Contents
    BY <1>1, EventsOfPayload
  <2>2. CASE items[i.event][i.content] # "none"
    BY <2>1, <2>2, <1>11
  <2>3. CASE items[i.event][i.content] = "none"
    <3>1. attempts[p] = "none"
      BY <1>1, <2>3 DEF ItemsStored
    <3>2. IsNew(status)
      BY <1>3, <3>1 DEF IsNew
    <3>3. IsNew(decision[w].item[i.event])
      BY <1>2, <2>1, <2>3 DEF IsNew, ItemStatus, RecordedContents, Validated
    <3>4. items'[i.event][i.content] = decision[w].item[i.event]
      BY <1>10, <2>1, <3>2, <3>3
    <3> QED
      BY <3>2, <3>3, <3>4, <1>9
  <2> QED
    BY <2>2, <2>3
<1> QED
  BY <1>1, <1>7, <1>8, <1>11, <1>12, <1>13, <1>14

-----------------------------------------------------------------------------
(* How a request moves. *)

LEMMA AnswerFacts ==
    ASSUME TypeOK, NEW w \in Clients, NEW how \in Answered \ {"idle"}, Answer(w, how),
           phase[w] # "idle", UNCHANGED request
    PROVE  /\ phase' = [phase EXCEPT ![w] = how]
           /\ phase' \in [Clients -> Answered \cup Underway]
           /\ fit' \in [Clients -> SUBSET Events]
           /\ locked' \in [Clients -> SUBSET Events]
           /\ decision' \in [Clients -> [batch : Statuses, item : [Events -> Statuses]] \cup {Undecided}]
           /\ \A v \in Clients :
                 /\ phase'[v] # "idle" => request'[v] \in Payloads
                 /\ phase'[v] = "decided" => decision'[v] # Undecided
                 /\ phase'[v] \notin {"locking", "decided"} => locked'[v] = {}
BY DEF Answer, GoOn, TypeOK, Answered, Underway, Verdicts

LEMMA TypeInit == Init => TypeOK
BY DEF Init, TypeOK, Answered, Verdicts

LEMMA TypeStep == ASSUME TypeOK, DecisionsAreCurrent, GoingOn, [Next]_vars PROVE TypeOK'
<1>1. ASSUME NEW v \in Versions, Import(v) PROVE TypeOK'
  BY <1>1 DEF Import, TypeOK
<1>2. ASSUME NEW w \in Clients, Send(w) PROVE TypeOK'
  BY <1>2 DEF Send, GoOn, TypeOK, data, Answered, Underway, Verdicts
<1>3. ASSUME NEW w \in Clients, Validate(w) PROVE TypeOK'
  <2>1. request[w] \in Payloads
    BY <1>3 DEF Validate, TypeOK
  <2>2. {i.event : i \in {j \in request[w].items : j.fault = "none" /\ AssetOf[j.event] \in KnownAssets}}
           \subseteq Events
    BY <2>1, EventsOfPayload
  <2>3. fit' \in [Clients -> SUBSET Events]
    BY <1>3, <2>2 DEF Validate, TypeOK
  <2> QED
    BY <1>3, <2>3 DEF Validate, GoOn, TypeOK, data, Underway
<1>4. ASSUME NEW w \in Clients, LockBatch(w) PROVE TypeOK'
  BY <1>4 DEF LockBatch, GoOn, TypeOK, data, Underway
<1>5. ASSUME NEW w \in Clients, LockEvent(w) PROVE TypeOK'
  <2>1. request[w] \in Payloads
    BY <1>5 DEF LockEvent, TypeOK
  <2>2. PICK e \in NextLock(w) : locked' = [locked EXCEPT ![w] = @ \cup {e}]
    BY <1>5 DEF LockEvent
  <2>3. e \in Events
    BY <2>1, EventsOfPayload DEF NextLock, ToLock
  <2>4. locked' \in [Clients -> SUBSET Events]
    BY <2>2, <2>3 DEF TypeOK
  <2> QED
    BY <1>5, <2>2, <2>4 DEF LockEvent, TypeOK, data
<1>6. ASSUME NEW w \in Clients, Decide(w) PROVE TypeOK'
  <2>1. request[w] \in Payloads
    BY <1>6 DEF Decide, TypeOK
  <2>2. /\ Statused(request[w], fit[w]) \in [batch : Statuses, item : [Events -> Statuses]]
        /\ Statused(request[w], fit[w]) # Undecided
    BY <2>1, StatusedType
  <2>3. decision' \in [Clients -> [batch : Statuses, item : [Events -> Statuses]] \cup {Undecided}]
    BY <1>6, <2>2 DEF Decide, TypeOK
  <2> QED
    BY <1>6, <2>2, <2>3 DEF Decide, GoOn, TypeOK, data, Underway
<1>7. ASSUME NEW w \in Clients, Insert(w) PROVE TypeOK'
  <2> DEFINE p == request[w]
             status == decision[w].batch
             new(i) == IsNew(status) /\ IsNew(decision[w].item[i.event])
  <2>1. /\ phase[w] = "decided" /\ p \in Payloads
        /\ decision[w] \in [batch : Statuses, item : [Events -> Statuses]]
        /\ status \in {"accepted", "rejected", "conflict", "duplicate"}
    BY <1>7, StatusedType DEF Insert, TypeOK, DecisionsAreCurrent
  <2>2. attempts' \in [Payloads -> Verdicts \cup {"none"}]
    BY <1>7, <2>1 DEF Insert, TypeOK, IsNew, Statuses
  <2>3. \A e \in Events : \A c \in Contents :
           (IF \E i \in p.items : i.event = e /\ i.content = c /\ new(i)
            THEN decision[w].item[e] ELSE items[e][c]) \in Verdicts \cup {"none"}
    BY <2>1 DEF TypeOK, IsNew, Statuses
  <2>4. items' \in [Events -> [Contents -> Verdicts \cup {"none"}]]
    BY <1>7, <2>3 DEF Insert
  <2>5. CASE GoesOn(status)
    <3>1. /\ phase' = [phase EXCEPT ![w] = "saved"]
          /\ locked' = [locked EXCEPT ![w] = {}]
          /\ UNCHANGED <<imported, results, request, fit, decision>>
      BY <1>7, <2>5 DEF Insert, GoOn
    <3>2. phase' \in [Clients -> Answered \cup Underway] /\ locked' \in [Clients -> SUBSET Events]
      BY <3>1 DEF TypeOK, Underway
    <3>3. \A v \in Clients :
             /\ phase'[v] # "idle" => request'[v] \in Payloads
             /\ phase'[v] = "decided" => decision'[v] # Undecided
             /\ phase'[v] \notin {"locking", "decided"} => locked'[v] = {}
      BY <2>1, <3>1 DEF TypeOK
    <3> QED
      BY <2>2, <2>4, <3>1, <3>2, <3>3 DEF TypeOK
  <2>6. CASE ~GoesOn(status)
    <3>1. Answer(w, status)
      BY <1>7, <2>6 DEF Insert
    <3>2. status \in Answered \ {"idle"}
      BY <2>1 DEF Answered, Verdicts
    <3> QED
      BY <1>7, <2>1, <2>2, <2>4, <3>1, <3>2, AnswerFacts DEF Insert, TypeOK
  <2> QED
    BY <2>5, <2>6
<1>8. ASSUME NEW w \in Clients, Resolve(w) PROVE TypeOK'
  <2>1. CASE Answer(w, "duplicate")
    BY <1>8, <2>1, AnswerFacts DEF Resolve, TypeOK, data, Answered
  <2>2. CASE Answer(w, "error")
    BY <1>8, <2>2, AnswerFacts DEF Resolve, TypeOK, data, Answered
  <2>3. CASE GoOn(w, "promoting") /\ UNCHANGED <<fit, locked, decision>>
    BY <1>8, <2>3 DEF Resolve, GoOn, TypeOK, data, Underway
  <2> QED
    BY <1>8, <2>1, <2>2, <2>3 DEF Resolve
<1>9. ASSUME NEW w \in Clients, Promote(w) PROVE TypeOK'
  <2> DEFINE how == decision[w].batch
  <2>3. phase[w] = "promoting" /\ how \in {"accepted", "duplicate"}
    BY <1>9 DEF Promote, GoingOn
  <2>1. \A p \in AcceptedIn(Batch(w)) : \A i \in Promotable(p) :
           ResultOf(p, i) \in [batch : Batches, event : Events, content : Contents]
    BY EventsOfPayload DEF AcceptedIn, InBatch, Promotable, ResultOf
  <2>2. results' \subseteq [batch : Batches, event : Events, content : Contents]
    BY <1>9, <2>1 DEF Promote, TypeOK
  <2> QED
    <3>1. Answer(w, how) /\ how \in Answered \ {"idle"} /\ UNCHANGED request
      BY <1>9, <2>3 DEF Promote, Answered, Verdicts
    <3>2. UNCHANGED <<imported, attempts, items>>
      BY <1>9 DEF Promote
    <3> QED
      BY <2>2, <2>3, <3>1, <3>2, AnswerFacts DEF TypeOK
<1>10. ASSUME NEW w \in Clients, Fail(w) PROVE TypeOK'
  BY <1>10, AnswerFacts DEF Fail, TypeOK, data, Answered, Underway
<1>11. CASE UNCHANGED vars
  BY <1>11 DEF vars, data, TypeOK
<1> QED
  BY <1>1, <1>2, <1>3, <1>4, <1>5, <1>6, <1>7, <1>8, <1>9, <1>10, <1>11 DEF Next

Step(w) ==
    \/ Send(w) \/ Validate(w) \/ LockBatch(w) \/ LockEvent(w) \/ Decide(w)
    \/ Insert(w) \/ Resolve(w) \/ Promote(w) \/ Fail(w)

LEMMA OthersStay ==
    ASSUME TypeOK, NEW w \in Clients, Step(w), NEW v \in Clients, v # w
    PROVE  /\ phase'[v] = phase[v] /\ request'[v] = request[v] /\ fit'[v] = fit[v]
           /\ locked'[v] = locked[v] /\ decision'[v] = decision[v]
BY DEF Step, Send, Validate, LockBatch, LockEvent, Decide, Insert, Resolve, Promote, Fail,
       Answer, GoOn, TypeOK

(* What is not among the requests does not change by their steps, and the   *)
(* rows of the inbox only when one inserts.                                 *)
LEMMA DataStays ==
    ASSUME NEW w \in Clients, Step(w)
    PROVE  /\ UNCHANGED imported
           /\ Insert(w) \/ UNCHANGED <<attempts, items>>
           /\ Promote(w) \/ UNCHANGED results
BY DEF Step, Send, Validate, LockBatch, LockEvent, Decide, Insert, Resolve, Promote, Fail, data

(* A request that holds its locks has them from before, or it has just got  *)
(* one that nobody else has.                                                *)
LEMMA OwnLocks ==
    ASSUME TypeOK, LocksInOrder, GoingOn, NEW w \in Clients, Step(w)
    PROVE  /\ HoldsBatch(w)' =>
                 /\ request'[w] = request[w] /\ fit'[w] = fit[w]
                 /\ \/ HoldsBatch(w)
                    \/ \A v \in Clients \ {w} : HoldsBatch(v) => Batch(v) # Batch(w)
                 /\ \/ locked'[w] = locked[w]
                    \/ \E e \in ToLock(w) :
                          /\ locked'[w] = locked[w] \cup {e}
                          /\ \A v \in Clients : e \notin locked[v]
                 /\ locked'[w] \subseteq EventsOf(request[w])
           /\ phase'[w] = "decided" => ToLock(w)' = {}
           /\ phase'[w] = "locking" => \A e \in locked'[w], f \in ToLock(w)' : e < f
           /\ ~HoldsBatch(w)' => locked'[w] = {}
<1>1. CASE Send(w) \/ Validate(w)
  <2>1. ~HoldsBatch(w)' /\ locked'[w] = {} /\ phase'[w] \notin {"decided", "locking"}
    BY <1>1 DEF Send, Validate, GoOn, HoldsBatch, TypeOK, Answered, Verdicts
  <2> QED
    BY <2>1
<1>2. CASE LockBatch(w)
  <2>1. /\ phase'[w] = "locking" /\ locked'[w] = {} /\ locked[w] = {}
        /\ request'[w] = request[w] /\ fit'[w] = fit[w]
        /\ \A v \in Clients \ {w} : HoldsBatch(v) => Batch(v) # Batch(w)
    BY <1>2 DEF LockBatch, GoOn, TypeOK, Batch
  <2> QED
    BY <2>1 DEF HoldsBatch
<1>3. CASE LockEvent(w)
  <2>1. PICK e \in NextLock(w) :
           /\ \A v \in Clients : e \notin locked[v]
           /\ locked' = [locked EXCEPT ![w] = @ \cup {e}]
    BY <1>3 DEF LockEvent
  <2>2. /\ phase[w] = "locking" /\ phase'[w] = "locking" /\ request' = request /\ fit' = fit
        /\ locked'[w] = locked[w] \cup {e}
    BY <1>3, <2>1 DEF LockEvent, TypeOK
  <2>3. /\ e \in ToLock(w) /\ \A f \in ToLock(w) : e <= f
        /\ ToLock(w) \subseteq EventsOf(request[w])
    BY <2>1 DEF NextLock, ToLock
  <2>4. EventsOf(request[w]) \subseteq Events
    BY <2>2, EventsOfPayload DEF TypeOK
  <2>5. locked'[w] \subseteq EventsOf(request[w])
    BY <2>2, <2>3 DEF LocksInOrder, HoldsBatch
  <2>6. ToLock(w)' = ToLock(w) \ {e}
    BY <2>2 DEF ToLock, EventsOf
  <2>7. \A g \in locked'[w], f \in ToLock(w)' : g < f
    BY <2>2, <2>3, <2>4, <2>6, InboxAssumption DEF LocksInOrder, Events
  <2> QED
    BY <2>1, <2>2, <2>3, <2>5, <2>7 DEF HoldsBatch
<1>4. CASE Decide(w)
  <2>1. /\ phase[w] = "locking" /\ phase'[w] = "decided" /\ locked' = locked /\ fit' = fit
        /\ request' = request /\ ToLock(w) = {}
    BY <1>4 DEF Decide, GoOn, TypeOK
  <2> QED
    BY <2>1 DEF LocksInOrder, HoldsBatch, ToLock, EventsOf
<1>5. CASE Insert(w) \/ Resolve(w) \/ Promote(w) \/ Fail(w)
  <2>1. CASE Insert(w)
    <3> DEFINE status == decision[w].batch
    <3>1. locked'[w] = {} /\ phase'[w] \in {"saved", status}
      BY <2>1 DEF Insert, Answer, GoOn, TypeOK
    <3>2. phase[w] = "decided" /\ status \in Statuses
      BY <2>1 DEF Insert, TypeOK
    <3>3. phase'[w] \notin {"locking", "decided"}
      BY <3>1, <3>2 DEF Statuses, Verdicts
    <3> QED
      BY <3>1, <3>3 DEF HoldsBatch
  <2>2. CASE Resolve(w)
    BY <2>2 DEF Resolve, Answer, GoOn, TypeOK, HoldsBatch
  <2>3. CASE Promote(w)
    <3>1. locked'[w] = {} /\ phase'[w] = decision[w].batch
      BY <2>3 DEF Promote, Answer, GoOn, TypeOK
    <3> QED
      BY <2>3, <3>1 DEF HoldsBatch, GoingOn, Promote
  <2>4. CASE Fail(w)
    BY <2>4 DEF Fail, Answer, GoOn, TypeOK, HoldsBatch
  <2> QED
    BY <1>5, <2>1, <2>2, <2>3, <2>4
<1> QED
  BY <1>1, <1>2, <1>3, <1>4, <1>5 DEF Step

-----------------------------------------------------------------------------
(* The locks. *)

LEMMA LockStep ==
    ASSUME TypeOK, LocksInOrder, GoingOn, Exclusive, [Next]_vars
    PROVE  LocksInOrder' /\ Exclusive'
<1>1. ASSUME NEW w \in Clients, Step(w) PROVE LocksInOrder' /\ Exclusive'
  <2>1. \A v \in Clients : v # w => phase'[v] = phase[v] /\ request'[v] = request[v] /\ locked'[v] = locked[v]
    BY <1>1, OthersStay
  <2>2. LocksInOrder'
    <3>1. ASSUME NEW v \in Clients, v # w
          PROVE  /\ HoldsBatch(v)' <=> HoldsBatch(v)
                 /\ EventsOf(request[v])' = EventsOf(request[v])
                 /\ ToLock(v)' = ToLock(v)
      BY <2>1, <3>1 DEF HoldsBatch, EventsOf, ToLock
    <3>2. EventsOf(request[w])' = EventsOf(request'[w])
      BY DEF EventsOf
    <3>3. /\ HoldsBatch(w)' => locked'[w] \subseteq EventsOf(request[w])'
          /\ phase'[w] = "decided" => ToLock(w)' = {}
          /\ phase'[w] = "locking" => \A e \in locked'[w], f \in ToLock(w)' : e < f
      BY <1>1, <3>2, OwnLocks
    <3> QED
      BY <2>1, <3>1, <3>3 DEF LocksInOrder
  <2>3. ASSUME NEW v \in Clients, v # w
        PROVE  /\ locked'[v] \cap locked'[w] = {}
               /\ HoldsBatch(v)' /\ HoldsBatch(w)' => Batch(v)' # Batch(w)'
    <3>1. locked'[v] = locked[v] /\ Batch(v)' = Batch(v) /\ (HoldsBatch(v)' <=> HoldsBatch(v))
      BY <2>1, <2>3 DEF Batch, HoldsBatch
    <3>2. CASE HoldsBatch(w)'
      <4>1. locked[v] \cap locked[w] = {}
        BY <2>3 DEF Exclusive
      <4>2. locked'[v] \cap locked'[w] = {}
        BY <1>1, <3>1, <3>2, <4>1, OwnLocks
      <4>3. Batch(w)' = Batch(w)
        BY <1>1, <3>2, OwnLocks DEF Batch
      <4> QED
        BY <1>1, <2>3, <3>1, <3>2, <4>2, <4>3, OwnLocks DEF Exclusive
    <3>3. CASE ~HoldsBatch(w)'
      BY <1>1, <3>3, OwnLocks
    <3> QED
      BY <3>2, <3>3
  <2>4. Exclusive'
    <3>1. ASSUME NEW u \in Clients, NEW v \in Clients, u # v
          PROVE  /\ locked'[u] \cap locked'[v] = {}
                 /\ HoldsBatch(u)' /\ HoldsBatch(v)' => Batch(u)' # Batch(v)'
      <4>1. CASE u = w
        BY <2>3, <3>1, <4>1
      <4>2. CASE v = w
        BY <2>3, <3>1, <4>2
      <4>3. CASE u # w /\ v # w
        BY <2>1, <3>1, <4>3 DEF Exclusive, HoldsBatch, Batch
      <4> QED
        BY <4>1, <4>2, <4>3
    <3> QED
      BY <3>1 DEF Exclusive
  <2> QED
    BY <2>2, <2>4
<1>2. CASE (\E v \in Versions : Import(v)) \/ UNCHANGED vars
  <2>1. UNCHANGED <<phase, request, locked>>
    BY <1>2 DEF Import, vars
  <2> QED
    BY <2>1 DEF LocksInOrder, Exclusive, HoldsBatch, EventsOf, ToLock, Batch
<1> QED
  BY <1>1, <1>2 DEF Next, Step

(* The rows a request has decided about are of its own batch_id and events, *)
(* and no other request that inserts holds one of these locks.              *)
LEMMA DecisionStep ==
    ASSUME TypeOK, LocksInOrder, Exclusive, DecisionsAreCurrent, ItemsStored, GoingOn, [Next]_vars
    PROVE  DecisionsAreCurrent'
<1>1. ASSUME NEW w \in Clients, Step(w) PROVE DecisionsAreCurrent'
  <2> SUFFICES ASSUME NEW v \in Clients, phase'[v] = "decided"
               PROVE  decision'[v] = Statused(request[v], fit[v])'
    BY DEF DecisionsAreCurrent
  <2>1. CASE v = w
    <3>1. Decide(w)
      <4>1. ~(Send(w) \/ Validate(w) \/ LockBatch(w) \/ Resolve(w) \/ Fail(w))
        BY <2>1 DEF Send, Validate, LockBatch, Resolve, Fail, Answer, GoOn, TypeOK, Answered, Verdicts
      <4>2. ~LockEvent(w)
        BY <2>1 DEF LockEvent
      <4>3. ~Promote(w)
        BY <2>1 DEF Promote, Answer, GoOn, TypeOK, GoingOn
      <4>4. ~Insert(w)
        <5> SUFFICES ASSUME Insert(w) PROVE FALSE
          OBVIOUS
        <5> DEFINE status == decision[w].batch
        <5>1. phase'[w] \in {"saved", status}
          BY DEF Insert, Answer, GoOn, TypeOK
        <5>2. phase[w] = "decided" /\ status \in Statuses
          BY DEF Insert, TypeOK
        <5> QED
          BY <2>1, <5>1, <5>2 DEF Statuses, Verdicts
      <4> QED
        BY <1>1, <4>1, <4>2, <4>3, <4>4 DEF Step
    <3>2. /\ decision'[w] = Statused(request[w], fit[w])
          /\ request[w] \in Payloads
          /\ UNCHANGED <<attempts, items, request, fit>>
      BY <3>1 DEF Decide, data, TypeOK
    <3>3. Statused(request[w], fit[w])' = Statused(request[w], fit[w])
      BY <3>2, DecisionKept
    <3> QED
      BY <2>1, <3>2, <3>3
  <2>2. CASE v # w
    <3>1. /\ phase[v] = "decided" /\ request[v] \in Payloads
          /\ request'[v] = request[v] /\ fit'[v] = fit[v] /\ decision'[v] = decision[v]
      BY <1>1, <2>2, OthersStay DEF TypeOK
    <3>2. /\ \A q \in InBatch(Batch(v)) : attempts'[q] = attempts[q]
          /\ \A e \in EventsOf(request[v]) : items'[e] = items[e]
      <4>1. CASE Insert(w)
        <5>1. phase[w] = "decided"
          BY <4>1 DEF Insert
        <5>2. Batch(v) # Batch(w) /\ locked[v] \cap locked[w] = {}
          BY <2>2, <3>1, <5>1 DEF Exclusive, HoldsBatch
        <5>3. EventsOf(request[v]) \subseteq locked[v] /\ EventsOf(request[w]) \subseteq locked[w]
          BY <3>1, <5>1 DEF LocksInOrder, ToLock
        <5>4. /\ request[w] \in Payloads
              /\ \A q \in Payloads : q # request[w] => attempts'[q] = attempts[q]
              /\ \A e \in Events : e \notin EventsOf(request[w]) => items'[e] = items[e]
          BY <4>1, InsertFacts
        <5>5. request[w] \notin InBatch(Batch(v)) /\ InBatch(Batch(v)) \subseteq Payloads
          BY <5>2 DEF InBatch, Batch
        <5>6. EventsOf(request[v]) \subseteq Events
          BY <3>1, EventsOfPayload
        <5> QED
          BY <5>2, <5>3, <5>4, <5>5, <5>6
      <4>2. CASE UNCHANGED <<attempts, items>>
        BY <4>2
      <4> QED
        BY <1>1, <4>1, <4>2, DataStays
    <3>3. Statused(request[v], fit[v])' = Statused(request[v], fit[v])
      BY <3>1, <3>2, DecisionKept
    <3> QED
      BY <3>1, <3>3 DEF DecisionsAreCurrent
  <2> QED
    BY <2>1, <2>2
<1>2. CASE (\E v \in Versions : Import(v)) \/ UNCHANGED vars
  <2>1. UNCHANGED <<attempts, items, phase, request, fit, decision>>
    BY <1>2 DEF Import, vars, data
  <2> SUFFICES ASSUME NEW v \in Clients, phase'[v] = "decided"
               PROVE  decision'[v] = Statused(request[v], fit[v])'
    BY DEF DecisionsAreCurrent
  <2>2. request[v] \in Payloads /\ phase[v] = "decided"
    BY <2>1 DEF TypeOK
  <2>3. Statused(request[v], fit[v])' = Statused(request[v], fit[v])
    BY <2>1, <2>2, DecisionKept
  <2> QED
    BY <2>1, <2>2, <2>3 DEF DecisionsAreCurrent
<1> QED
  BY <1>1, <1>2 DEF Next, Step

-----------------------------------------------------------------------------
(* The inbox and the results. *)

LEMMA StoreStep ==
    ASSUME TypeOK, DecisionsAreCurrent, ItemsStored, OneAccepted, [Next]_vars
    PROVE  /\ ItemsStored' /\ OneAccepted'
           /\ \A p \in Payloads : attempts[p] # "none" => attempts'[p] = attempts[p]
<1>1. ASSUME NEW w \in Clients, Insert(w)
      PROVE  /\ ItemsStored' /\ OneAccepted'
             /\ \A p \in Payloads : attempts[p] # "none" => attempts'[p] = attempts[p]
  <2>1. ItemsStored'
    <3> SUFFICES ASSUME NEW p \in Payloads, attempts'[p] # "none", NEW i \in p.items
                 PROVE  items'[i.event][i.content] # "none"
      BY DEF ItemsStored
    <3>1. CASE p = request[w]
      BY <1>1, <3>1, InsertFacts
    <3>2. CASE p # request[w]
      <4>1. attempts[p] # "none"
        BY <1>1, <3>2, InsertFacts
      <4>2. items[i.event][i.content] # "none" /\ i.event \in Events /\ i.content \in Contents
        BY <4>1, EventsOfPayload DEF ItemsStored
      <4> QED
        BY <1>1, <4>2, InsertFacts
    <3> QED
      BY <3>1, <3>2
  <2>2. OneAccepted'
    <3> SUFFICES ASSUME NEW e \in Events, NEW c \in Contents, NEW d \in Contents,
                        items'[e][c] = "accepted", items'[e][d] = "accepted", c # d
                 PROVE  FALSE
      BY DEF OneAccepted
    <3>1. items[e][c] = "accepted" \/ items[e][c] # "accepted"
      OBVIOUS
    <3>2. CASE items[e][c] # "accepted"
      BY <1>1, <3>2, InsertFacts
    <3>3. CASE items[e][d] # "accepted"
      BY <1>1, <3>3, InsertFacts
    <3> QED
      BY <3>2, <3>3 DEF OneAccepted
  <2> QED
    BY <1>1, <2>1, <2>2, InsertFacts
<1>2. CASE UNCHANGED <<attempts, items>>
  BY <1>2 DEF ItemsStored, OneAccepted
<1>3. (\E w \in Clients : Insert(w)) \/ UNCHANGED <<attempts, items>>
  <2>1. CASE \E v \in Versions : Import(v)
    BY <2>1 DEF Import
  <2>2. CASE UNCHANGED vars
    BY <2>2 DEF vars, data
  <2> QED
    BY <2>1, <2>2, DataStays DEF Next, Step
<1> QED
  BY <1>1, <1>2, <1>3

LEMMA OneAcceptedInBatchStep ==
    ASSUME TypeOK, DecisionsAreCurrent, ItemsStored, OneAcceptedInBatch, [Next]_vars
    PROVE  OneAcceptedInBatch'
<1>1. ASSUME NEW w \in Clients, Insert(w) PROVE OneAcceptedInBatch'
  <2> SUFFICES ASSUME NEW p \in Payloads, NEW q \in Payloads, p.batch = q.batch,
                      attempts'[p] = "accepted", attempts'[q] = "accepted", p # q
               PROVE  FALSE
    BY DEF OneAcceptedInBatch
  <2>1. \A o \in Payloads : attempts'[o] = "accepted" /\ attempts[o] # "accepted" =>
           o = request[w] /\ \A r \in Payloads : r.batch = o.batch => attempts[r] = "none"
    BY <1>1, InsertFacts DEF InBatch, Batch
  <2>2. \A o \in Payloads : o # request[w] => attempts'[o] = attempts[o]
    BY <1>1, InsertFacts
  <2>3. CASE attempts[p] = "accepted" /\ attempts[q] = "accepted"
    BY <2>3 DEF OneAcceptedInBatch
  <2>4. CASE attempts[p] # "accepted"
    BY <2>1, <2>2, <2>4
  <2>5. CASE attempts[q] # "accepted"
    BY <2>1, <2>2, <2>5
  <2> QED
    BY <2>3, <2>4, <2>5
<1>2. CASE UNCHANGED attempts
  BY <1>2 DEF OneAcceptedInBatch
<1>3. CASE (\E v \in Versions : Import(v)) \/ UNCHANGED vars
  BY <1>2, <1>3 DEF Import, vars, data
<1> QED
  BY <1>1, <1>2, <1>3, DataStays DEF Next, Step

(* Where a request can come to stand, and from where. *)
LEMMA OwnFlow ==
    ASSUME TypeOK, DecisionsAreCurrent, ItemsStored, GoingOn, NEW w \in Clients, Step(w)
    PROVE  /\ phase'[w] \in {"saved", "promoting"} =>
                 /\ \/ Insert(w) /\ GoesOn(decision[w].batch)
                    \/ phase[w] \in {"saved", "promoting"}
                 /\ decision'[w] = decision[w] /\ request'[w] = request[w]
           /\ phase'[w] \in {"accepted", "duplicate"} =>
                 /\ phase[w] \in {"saved", "promoting"} /\ request'[w] = request[w]
                 /\ phase'[w] = decision[w].batch
                 /\ \/ Promote(w)
                    \/ AcceptedIn(Batch(w)) = {} /\ UNCHANGED <<attempts, results>>
<1>1. CASE Send(w) \/ Validate(w) \/ LockBatch(w) \/ Decide(w) \/ Fail(w)
  BY <1>1 DEF Send, Validate, LockBatch, Decide, Fail, Answer, GoOn, TypeOK
<1>2. CASE LockEvent(w)
  BY <1>2 DEF LockEvent
<1>3. CASE Insert(w)
  <2> DEFINE status == decision[w].batch
  <2>1. status \in {"accepted", "rejected", "conflict", "duplicate"}
    BY <1>3, InsertFacts, StatusedType
  <2>2. CASE GoesOn(status)
    BY <1>3, <2>2 DEF Insert, GoOn, TypeOK
  <2>3. CASE ~GoesOn(status)
    <3>1. phase'[w] \in {"rejected", "conflict"}
      BY <1>3, <2>1, <2>3 DEF Insert, Answer, GoOn, TypeOK, GoesOn
    <3> QED
      BY <3>1
  <2> QED
    BY <2>2, <2>3
<1>4. CASE Resolve(w)
  <2>1. phase[w] = "saved" /\ UNCHANGED <<data, request>>
    BY <1>4 DEF Resolve
  <2>2. CASE AcceptedIn(Batch(w)) = {}
    BY <1>4, <2>1, <2>2 DEF Resolve, Answer, GoOn, TypeOK, data
  <2>3. CASE AcceptedIn(Batch(w)) # {}
    BY <1>4, <2>1, <2>3 DEF Resolve, Answer, GoOn, TypeOK
  <2> QED
    BY <2>2, <2>3
<1>5. CASE Promote(w)
  <2>1. phase[w] = "promoting" /\ phase'[w] = decision[w].batch /\ request' = request
    BY <1>5 DEF Promote, Answer, GoOn, TypeOK
  <2>2. decision[w].batch \in {"accepted", "duplicate"}
    BY <2>1 DEF GoingOn
  <2> QED
    BY <1>5, <2>1, <2>2
<1> QED
  BY <1>1, <1>2, <1>3, <1>4, <1>5 DEF Step

LEMMA FlowStep ==
    ASSUME TypeOK, DecisionsAreCurrent, ItemsStored, OneAccepted, GoingOn, [Next]_vars
    PROVE  GoingOn'
<1>1. \A p \in Payloads : attempts[p] # "none" => attempts'[p] = attempts[p]
  BY StoreStep
<1>2. ASSUME NEW w \in Clients, Step(w) PROVE GoingOn'
  <2>1. ASSUME NEW v \in Clients, v # w
        PROVE  /\ phase'[v] \in {"saved", "promoting"} =>
                     /\ decision'[v] # Undecided
                     /\ decision'[v].batch \in {"accepted", "duplicate"}
                     /\ decision'[v].batch = "accepted" => attempts'[request'[v]] = "accepted"
               /\ phase'[v] \in {"saved", "promoting", "accepted", "duplicate"} =>
                     attempts'[request'[v]] # "none"
    <3>1. phase'[v] = phase[v] /\ request'[v] = request[v] /\ decision'[v] = decision[v]
      BY <1>2, <2>1, OthersStay
    <3>2. phase[v] # "idle" => request[v] \in Payloads
      BY DEF TypeOK
    <3> QED
      BY <1>1, <3>1, <3>2 DEF GoingOn
  <2>2. phase'[w] \in {"saved", "promoting"} =>
           /\ decision'[w] # Undecided
           /\ decision'[w].batch \in {"accepted", "duplicate"}
           /\ decision'[w].batch = "accepted" => attempts'[request'[w]] = "accepted"
           /\ attempts'[request'[w]] # "none"
    <3> SUFFICES ASSUME phase'[w] \in {"saved", "promoting"}
                 PROVE  /\ decision'[w] # Undecided
                        /\ decision'[w].batch \in {"accepted", "duplicate"}
                        /\ decision'[w].batch = "accepted" => attempts'[request'[w]] = "accepted"
                        /\ attempts'[request'[w]] # "none"
      OBVIOUS
    <3>1. decision'[w] = decision[w] /\ request'[w] = request[w]
      BY <1>2, OwnFlow
    <3>2. CASE phase[w] \in {"saved", "promoting"}
      <4>1. request[w] \in Payloads
        BY <3>2 DEF TypeOK
      <4> QED
        BY <1>1, <3>1, <3>2, <4>1 DEF GoingOn
    <3>3. CASE Insert(w) /\ GoesOn(decision[w].batch)
      <4>1. /\ request[w] \in Payloads
            /\ decision[w] = Statused(request[w], fit[w])
            /\ attempts'[request[w]] # "none"
        BY <3>3, InsertFacts
      <4>2. decision[w] # Undecided /\ decision[w].batch \in {"accepted", "duplicate"}
        BY <3>3, <4>1, StatusedType DEF GoesOn
      <4>3. decision[w].batch = "accepted" => attempts'[request[w]] = "accepted"
        BY <3>3, <4>1 DEF Insert, IsNew, TypeOK
      <4> QED
        BY <3>1, <4>1, <4>2, <4>3
    <3> QED
      BY <1>2, <3>2, <3>3, OwnFlow
  <2>3. phase'[w] \in {"accepted", "duplicate"} => attempts'[request'[w]] # "none"
    <3>1. phase[w] \in {"saved", "promoting"} => request[w] \in Payloads
      BY DEF TypeOK
    <3> QED
      BY <1>1, <1>2, <3>1, OwnFlow DEF GoingOn
  <2> QED
    BY <2>1, <2>2, <2>3 DEF GoingOn
<1>3. CASE (\E v \in Versions : Import(v)) \/ UNCHANGED vars
  BY <1>3 DEF Import, vars, data, GoingOn
<1> QED
  BY <1>2, <1>3 DEF Next, Step

LEMMA SourcedStep ==
    ASSUME TypeOK, DecisionsAreCurrent, ItemsStored, OneAccepted, Sourced, [Next]_vars
    PROVE  Sourced'
<1>1. \A p \in Payloads : attempts[p] # "none" => attempts'[p] = attempts[p]
  BY StoreStep
<1>2. \A b : AcceptedIn(b) \subseteq AcceptedIn(b)'
  BY <1>1 DEF AcceptedIn, InBatch
<1>3. ASSUME NEW r \in results'
      PROVE  \E p \in AcceptedIn(r.batch) : \E i \in p.items : i.event = r.event /\ i.content = r.content
  <2>1. CASE r \in results
    BY <2>1 DEF Sourced
  <2>2. CASE r \notin results
    <3>1. PICK w \in Clients : Promote(w)
      BY <2>2, DataStays DEF Next, Step, Import, vars, data
    <3>2. PICK p \in AcceptedIn(Batch(w)) : \E i \in Promotable(p) : r = ResultOf(p, i)
      BY <2>2, <3>1 DEF Promote
    <3>3. PICK i \in Promotable(p) : r = ResultOf(p, i)
      BY <3>2
    <3>4. r.batch = p.batch /\ r.event = i.event /\ r.content = i.content /\ i \in p.items
      BY <3>3 DEF ResultOf, Promotable
    <3>5. p \in AcceptedIn(p.batch)
      BY DEF AcceptedIn, InBatch
    <3> QED
      BY <3>4, <3>5
  <2> QED
    BY <2>1, <2>2
<1> QED
  BY <1>2, <1>3 DEF Sourced

LEMMA AnsweredStep ==
    ASSUME TypeOK, DecisionsAreCurrent, ItemsStored, OneAccepted, GoingOn, AnsweredIsPromoted, [Next]_vars
    PROVE  AnsweredIsPromoted'
<1>1. \A p \in Payloads : attempts[p] # "none" => attempts'[p] = attempts[p]
  BY StoreStep
<1>2. results \subseteq results'
  BY DataStays DEF Next, Step, Promote, Import, vars, data
<1>3. ASSUME NEW v \in Clients, phase'[v] \in {"accepted", "duplicate"},
             phase'[v] = phase[v], request'[v] = request[v],
             NEW p \in AcceptedIn(Batch(v))', p \notin AcceptedIn(Batch(v))
      PROVE  FALSE
  <2>1. /\ p \in Payloads /\ p.batch = request[v].batch
        /\ attempts'[p] = "accepted" /\ attempts[p] # "accepted"
    BY <1>3 DEF AcceptedIn, InBatch, Batch
  <2>2. PICK w \in Clients : Insert(w)
    <3>1. attempts' # attempts
      BY <2>1
    <3> QED
      BY <3>1, DataStays DEF Next, Step, Import, vars, data
  <2>3. p = request[w]
    BY <2>1, <2>2, InsertFacts
  <2>4. \A q \in InBatch(Batch(w)) : attempts[q] = "none"
    BY <2>1, <2>2, <2>3, InsertFacts
  <2>5. request[v] \in InBatch(Batch(w))
    BY <1>3, <2>1, <2>3 DEF InBatch, Batch, TypeOK
  <2> QED
    BY <1>3, <2>4, <2>5 DEF GoingOn
<1>4. ASSUME NEW v \in Clients, phase'[v] \in {"accepted", "duplicate"},
             phase'[v] = phase[v], request'[v] = request[v]
      PROVE  /\ phase'[v] = "accepted" => attempts'[request'[v]] = "accepted"
             /\ \A p \in AcceptedIn(Batch(v))' : \A i \in Promotable(p) : ResultOf(p, i) \in results'
  <2>1. request[v] \in Payloads
    BY <1>4 DEF TypeOK
  <2>2. \A p \in AcceptedIn(Batch(v))' : p \in AcceptedIn(Batch(v))
    BY <1>3, <1>4
  <2> QED
    BY <1>1, <1>2, <1>4, <2>1, <2>2 DEF AnsweredIsPromoted
<1>5. ASSUME NEW w \in Clients, Step(w), phase'[w] \in {"accepted", "duplicate"}
      PROVE  /\ phase'[w] = "accepted" => attempts'[request'[w]] = "accepted"
             /\ \A p \in AcceptedIn(Batch(w))' : \A i \in Promotable(p) : ResultOf(p, i) \in results'
  <2>1. /\ phase[w] \in {"saved", "promoting"} /\ request'[w] = request[w] /\ phase'[w] = decision[w].batch
        /\ \/ Promote(w)
           \/ AcceptedIn(Batch(w)) = {} /\ UNCHANGED <<attempts, results>>
    BY <1>5, OwnFlow
  <2>2. UNCHANGED attempts
    BY <2>1 DEF Promote
  <2>3. AcceptedIn(Batch(w))' = AcceptedIn(Batch(w))
    BY <2>1, <2>2 DEF AcceptedIn, InBatch, Batch
  <2>4. \A p \in AcceptedIn(Batch(w)) : \A i \in Promotable(p) : ResultOf(p, i) \in results'
    BY <2>1 DEF Promote
  <2>5. phase'[w] = "accepted" => attempts'[request'[w]] = "accepted"
    BY <2>1, <2>2 DEF GoingOn
  <2> QED
    BY <2>3, <2>4, <2>5
<1>6. ASSUME NEW w \in Clients, Step(w) PROVE AnsweredIsPromoted'
  <2>1. \A v \in Clients : v # w => phase'[v] = phase[v] /\ request'[v] = request[v]
    BY <1>6, OthersStay
  <2> QED
    BY <1>4, <1>5, <1>6, <2>1 DEF AnsweredIsPromoted
<1>7. CASE (\E v \in Versions : Import(v)) \/ UNCHANGED vars
  <2>1. UNCHANGED <<phase, request>>
    BY <1>7 DEF Import, vars
  <2> QED
    BY <1>4, <2>1 DEF AnsweredIsPromoted
<1> QED
  BY <1>6, <1>7 DEF Next, Step

-----------------------------------------------------------------------------
(* The theorems. *)

LEMMA InitHolds == Init => IInv
<1> SUFFICES ASSUME Init PROVE IInv
  OBVIOUS
<1>1. TypeOK
  BY TypeInit
<1>2. LocksInOrder /\ Exclusive /\ DecisionsAreCurrent
  BY DEF Init, LocksInOrder, Exclusive, DecisionsAreCurrent, HoldsBatch
<1>3. ItemsStored /\ OneAccepted /\ OneAcceptedInBatch
  BY DEF Init, ItemsStored, OneAccepted, OneAcceptedInBatch
<1>4. GoingOn /\ Sourced /\ AnsweredIsPromoted
  BY DEF Init, GoingOn, Sourced, AnsweredIsPromoted
<1> QED
  BY <1>1, <1>2, <1>3, <1>4 DEF IInv

THEOREM InboxInductive == Spec => []IInv
<1>1. IInv /\ [Next]_vars => IInv'
  <2> SUFFICES ASSUME IInv, [Next]_vars PROVE IInv'
    OBVIOUS
  <2>1. TypeOK' /\ LocksInOrder' /\ Exclusive' /\ DecisionsAreCurrent'
    BY TypeStep, LockStep, DecisionStep DEF IInv
  <2>2. ItemsStored' /\ OneAccepted' /\ OneAcceptedInBatch'
    BY StoreStep, OneAcceptedInBatchStep DEF IInv
  <2>3. GoingOn' /\ Sourced' /\ AnsweredIsPromoted'
    BY FlowStep, SourcedStep, AnsweredStep DEF IInv
  <2> QED
    BY <2>1, <2>2, <2>3 DEF IInv
<1> QED
  BY <1>1, InitHolds, PTL DEF Spec

(* The state of the inbox and of the requests has its type. *)
THEOREM InboxTypeCorrect == Spec => []TypeOK
<1>1. IInv => TypeOK
  BY DEF IInv
<1> QED
  BY <1>1, InboxInductive, PTL

(* What a request has read under its advisory locks is still so when it     *)
(* inserts, whatever other batches are received meanwhile.                  *)
THEOREM InboxDecidesOnCurrentRows == Spec => []DecisionsAreCurrent
<1>1. IInv => DecisionsAreCurrent
  BY DEF IInv
<1> QED
  BY <1>1, InboxInductive, PTL

(* What is answered as accepted or as a duplicate has been promoted.        *)
THEOREM InboxAnswersArePromoted == Spec => []AnsweredIsPromoted
<1>1. IInv => AnsweredIsPromoted
  BY DEF IInv
<1> QED
  BY <1>1, InboxInductive, PTL

(* Of two contents of one event that are both results, one was refused.     *)
THEOREM InboxSecondContentWasRefused == Spec => []SecondContentWasRefused
<1>1. IInv => SecondContentWasRefused
  <2> SUFFICES ASSUME IInv,
                      NEW p \in Payloads, NEW q \in Payloads, NEW i \in p.items, NEW j \in q.items,
                      i.event = j.event, i.content # j.content,
                      ResultOf(p, i) \in results, ResultOf(q, j) \in results
               PROVE  Refused(i) \/ Refused(j)
    BY DEF SecondContentWasRefused
  <2>1. ASSUME NEW o \in Payloads, NEW k \in o.items, ResultOf(o, k) \in results
        PROVE  Refused(k) \/ items[k.event][k.content] = "accepted"
    <3>1. PICK m \in AcceptedIn(o.batch) : \E l \in m.items : l.event = k.event /\ l.content = k.content
      BY <2>1 DEF IInv, Sourced, ResultOf
    <3>2. items[k.event][k.content] # "none"
      BY <3>1 DEF IInv, ItemsStored, AcceptedIn, InBatch
    <3>3. items[k.event][k.content] \in Verdicts \cup {"none"}
      BY EventsOfPayload DEF IInv, TypeOK
    <3> QED
      BY <3>2, <3>3 DEF Refused, Verdicts
  <2>2. i.event \in Events /\ i.content \in Contents /\ j.content \in Contents
    BY EventsOfPayload
  <2> QED
    BY <2>1, <2>2 DEF IInv, OneAccepted
<1> QED
  BY <1>1, InboxInductive, PTL

(* A set of events that is not empty has a greatest one. *)
LEMMA GreatestEvent ==
    ASSUME NEW S \in SUBSET Events, S # {}
    PROVE  \E e \in S : \A f \in S : f <= e
<1> DEFINE T == {NumEvents - e : e \in S}
           R == OpToRel(<, Nat)
<1>1. \A e \in S : e \in 1..NumEvents /\ NumEvents - e \in Nat
  BY InboxAssumption DEF Events
<1>2. T \subseteq Nat /\ T # {}
  BY <1>1
<1>3. PICK x \in T : \A y \in T : <<y, x>> \notin R
  <2> HIDE DEF T, R
  <2>1. IsWellFoundedOn(R, Nat)
    BY NatLessThanWellFounded DEF R
  <2> QED
    BY <1>2, <2>1, WFMin
<1>4. \A y \in T : ~(y < x)
  BY <1>2, <1>3 DEF OpToRel
<1>5. PICK e \in S : x = NumEvents - e
  BY <1>3
<1>6. ASSUME NEW f \in S PROVE f <= e
  <2>1. ~(NumEvents - f < NumEvents - e)
    BY <1>4, <1>5
  <2>2. e \in Int /\ f \in Int /\ NumEvents \in Int
    BY <1>1, InboxAssumption
  <2> QED
    BY <2>1, <2>2
<1> QED
  BY <1>6

(* Requests with overlapping batches never wait in a circle: batch locks    *)
(* are taken before event locks, and these in their order, so whoever holds *)
(* the greatest event that anybody waits for waits for nobody.              *)
THEOREM InboxNobodyWaitsInACircle == Spec => []NobodyWaitsInACircle
<1>1. IInv => NobodyWaitsInACircle
  <2> SUFFICES ASSUME IInv, NEW waiting \in SUBSET Clients, waiting # {},
                      \A w \in waiting : \E v \in waiting \ {w} : WaitsFor(w, v)
               PROVE  FALSE
    BY DEF NobodyWaitsInACircle
  <2> DEFINE Waited == {e \in Events : \E w, v \in waiting :
                           phase[w] = "locking" /\ e \in NextLock(w) /\ e \in locked[v]}
  <2>1. \A w \in Clients : phase[w] = "locking" => NextLock(w) \subseteq Events
    BY EventsOfPayload DEF IInv, TypeOK, NextLock, ToLock
  <2>2. ASSUME NEW v \in waiting, HoldsBatch(v)
        PROVE  \E u \in waiting : \E f \in NextLock(v) : f \in Waited /\ phase[v] = "locking"
    <3>1. PICK u \in waiting \ {v} : WaitsFor(v, u)
      OBVIOUS
    <3>2. phase[v] = "locking" /\ NextLock(v) \cap locked[u] # {}
      BY <2>2, <3>1 DEF WaitsFor, HoldsBatch
    <3> QED
      BY <2>1, <3>2
  <2>3. Waited # {}
    <3>1. PICK w \in waiting : TRUE
      OBVIOUS
    <3>2. PICK v \in waiting \ {w} : WaitsFor(w, v)
      OBVIOUS
    <3>3. CASE phase[w] = "validated"
      BY <2>2, <3>2, <3>3 DEF WaitsFor
    <3>4. CASE phase[w] # "validated"
      BY <2>2, <3>2, <3>4 DEF WaitsFor, HoldsBatch
    <3> QED
      BY <3>3, <3>4
  <2>4. PICK e \in Waited : \A f \in Waited : f <= e
    BY <2>3, GreatestEvent
  <2>5. PICK v \in waiting : e \in locked[v]
    OBVIOUS
  <2>6. HoldsBatch(v)
    BY <2>5 DEF IInv, TypeOK, HoldsBatch
  <2>7. PICK f \in NextLock(v) : f \in Waited /\ phase[v] = "locking"
    BY <2>2, <2>6
  <2>8. e < f
    BY <2>5, <2>7 DEF IInv, LocksInOrder, NextLock
  <2> QED
    BY <2>4, <2>7, <2>8, InboxAssumption DEF Events
<1> QED
  BY <1>1, InboxInductive, PTL

-----------------------------------------------------------------------------
(* The refinement of BatchReceipt. *)

(* Nobody new is told, and the tables stay as they are. *)
LEMMA ForgetStep ==
    ASSUME UNCHANGED <<attempts, results>>,
           \A w \in Clients : phase'[w] \in {"accepted", "duplicate"} =>
              phase'[w] = phase[w] /\ request'[w] = request[w]
    PROVE  Receipt!Next
<1>1. Told' \subseteq Told
  BY DEF Told
<1>2. Owing' = Owing
  BY DEF Owing
<1> QED
  BY <1>1, <1>2 DEF Receipt!Next, Receipt!Forget

(* A batch none of which was accepted has no result of any payload.         *)
LEMMA NoResultsYet ==
    ASSUME Sourced, NEW p \in Payloads, \A q \in InBatch(p.batch) : attempts[q] # "accepted", NEW i
    PROVE  ResultOf(p, i) \notin results
BY DEF Sourced, AcceptedIn, ResultOf

(* The first request that inserts its batch decides it. *)
LEMMA InsertDecides ==
    ASSUME IInv, NEW w \in Clients, Insert(w)
    PROVE  [Receipt!Next]_<<attempts, Owing, Told>>
<1> DEFINE p == request[w]
           status == decision[w].batch
<1>0. p \in Payloads /\ decision[w] = Statused(p, fit[w])
  BY InsertFacts DEF IInv
<1>1. /\ p \in Payloads /\ status = BatchStatus(p, fit[w])
      /\ status \in {"accepted", "rejected", "conflict", "duplicate"}
      /\ results' = results /\ request' = request /\ phase[w] = "decided"
      /\ attempts' = IF IsNew(status) THEN [attempts EXCEPT ![p] = status] ELSE attempts
  <2>1. /\ results' = results /\ request' = request /\ phase[w] = "decided"
        /\ attempts' = IF IsNew(status) THEN [attempts EXCEPT ![p] = status] ELSE attempts
    BY DEF Insert
  <2> QED
    BY <1>0, <2>1, StatusedType
<1>2. \A v \in Clients : phase'[v] \in {"accepted", "duplicate"} <=> phase[v] \in {"accepted", "duplicate"}
  <2>1. \A v \in Clients : v # w => phase'[v] = phase[v]
    BY OthersStay DEF IInv, Step
  <2>2. phase'[w] \notin {"accepted", "duplicate"}
    BY <1>1, OwnFlow DEF IInv, Step
  <2> QED
    BY <1>1, <2>1, <2>2
<1>3. Told' = Told
  BY <1>1, <1>2 DEF Told
<1>4. CASE ~IsNew(status)
  BY <1>1, <1>3, <1>4 DEF Owing
<1>5. CASE IsNew(status)
  <2>1. /\ attempts[p] = "none" /\ attempts' = [attempts EXCEPT ![p] = status]
        /\ status \in {"accepted", "rejected", "conflict"}
        /\ attempts \in [Payloads -> Verdicts \cup {"none"}]
    BY <1>1, <1>5, BatchStatusOfStored DEF IInv, IsNew, TypeOK
  <2>2. CASE status = "accepted"
    <3>1. \A q \in InBatch(p.batch) : attempts[q] = "none"
      BY <1>1, <2>2, BatchStatusOfStored DEF IInv
    <3>2. \A i : ResultOf(p, i) \notin results
      BY <1>1, <3>1, NoResultsYet DEF IInv
    <3>3. Owing' = Owing \cup ({p} \cap {q \in Payloads : Promotable(q) # {}})
      BY <1>1, <2>1, <2>2, <3>2 DEF Owing
    <3>4. Receipt!Decide(p)
      BY <1>3, <2>1, <2>2, <3>3 DEF Receipt!Decide
    <3> QED
      BY <1>1, <3>4 DEF Receipt!Next
  <2>3. CASE status \in {"conflict", "rejected"}
    <3>1. Owing' = Owing
      BY <1>1, <2>1, <2>3 DEF Owing
    <3>2. Receipt!Decide(p)
      BY <1>3, <2>1, <2>3, <3>1 DEF Receipt!Decide
    <3> QED
      BY <1>1, <3>2 DEF Receipt!Next
  <2> QED
    BY <2>1, <2>2, <2>3
<1> QED
  BY <1>4, <1>5

(* A promotion gives the accepted batch of its batch_id all its results.    *)
LEMMA PromotionPays ==
    ASSUME IInv, NEW w \in Clients, Promote(w)
    PROVE  \/ Owing' = Owing
           \/ \E p \in Payloads : p.batch = Batch(w) /\ Owing' = Owing \ {p}
<1>1. /\ UNCHANGED attempts
      /\ results' = results \cup
            UNION {{ResultOf(p, i) : i \in Promotable(p)} : p \in AcceptedIn(Batch(w))}
  BY DEF Promote
<1>2. CASE AcceptedIn(Batch(w)) = {}
  <2>1. results' = results
    BY <1>1, <1>2
  <2> QED
    BY <1>1, <2>1 DEF Owing
<1>3. ASSUME NEW p \in AcceptedIn(Batch(w))
      PROVE  p \in Payloads /\ p.batch = Batch(w) /\ Owing' = Owing \ {p}
  <2>1. p \in Payloads /\ p.batch = Batch(w) /\ attempts[p] = "accepted"
    BY <1>3 DEF AcceptedIn, InBatch
  <2>2. AcceptedIn(Batch(w)) = {p}
    BY <1>3, <2>1 DEF IInv, OneAcceptedInBatch, AcceptedIn, InBatch
  <2>3. results' = results \cup {ResultOf(p, i) : i \in Promotable(p)}
    BY <1>1, <2>2
  <2>4. p \notin Owing'
    BY <2>3 DEF Owing
  <2>5. ASSUME NEW q \in Payloads, q # p PROVE q \in Owing' <=> q \in Owing
    <3>1. CASE attempts[q] # "accepted"
      BY <1>1, <3>1 DEF Owing
    <3>2. CASE attempts[q] = "accepted"
      <4>1. q.batch # p.batch
        BY <2>1, <2>5, <3>2 DEF IInv, OneAcceptedInBatch
      <4>2. \A i, j : ResultOf(q, i) # ResultOf(p, j)
        BY <4>1 DEF ResultOf
      <4>3. \A i : ResultOf(q, i) \in results' <=> ResultOf(q, i) \in results
        BY <2>3, <4>2
      <4> QED
        BY <1>1, <4>3 DEF Owing
    <3> QED
      BY <3>1, <3>2
  <2>6. Owing \subseteq Payloads /\ Owing' \subseteq Payloads
    BY DEF Owing
  <2> QED
    BY <2>1, <2>4, <2>5, <2>6
<1> QED
  BY <1>2, <1>3

(* A request that ends as accepted or as a duplicate tells its client of a  *)
(* batch that is decided and, after this step, not owed.                    *)
LEMMA AnswerTells ==
    ASSUME IInv, [Next]_vars, NEW w \in Clients, Step(w), phase'[w] \in {"accepted", "duplicate"},
           phase[w] \notin {"accepted", "duplicate"}
    PROVE  Receipt!Tell(request[w])
<1>1. /\ phase[w] \in {"saved", "promoting"} /\ request'[w] = request[w]
      /\ phase'[w] = decision[w].batch
      /\ Promote(w) \/ (AcceptedIn(Batch(w)) = {} /\ UNCHANGED <<attempts, results>>)
  BY OwnFlow DEF IInv
<1>2. request[w] \in Payloads /\ attempts[request[w]] # "none"
  BY <1>1 DEF IInv, GoingOn, TypeOK
<1>3. \A v \in Clients : v # w => phase'[v] = phase[v] /\ request'[v] = request[v]
  BY OthersStay DEF IInv
<1>4. Told' = Told \cup {request[w]}
  BY <1>1, <1>3 DEF Told
<1>5. AnsweredIsPromoted'
  BY AnsweredStep DEF IInv
<1>6. request[w] \notin Owing'
  <2>1. request[w] \in AcceptedIn(Batch(w))' => \A i \in Promotable(request[w]) : ResultOf(request[w], i) \in results'
    BY <1>1, <1>5 DEF AnsweredIsPromoted
  <2>2. request[w] \in Owing' => request[w] \in AcceptedIn(Batch(w))'
    BY <1>1 DEF Owing, AcceptedIn, InBatch, Batch
  <2> QED
    BY <2>1, <2>2 DEF Owing
<1> QED
  BY <1>2, <1>4, <1>6 DEF Receipt!Tell

(* However requests, failures and repetitions interleave, every batch is    *)
(* decided once and for good, an accepted batch gets its results in one     *)
(* step, and a client is told that a batch was delivered only when the      *)
(* batch is decided and none of its results is owed.                        *)
THEOREM InboxIsAReceipt == Spec => RefinesReceipt
<1>1. Init => Receipt!Init
  <2> SUFFICES ASSUME Init PROVE Receipt!Init
    OBVIOUS
  <2>1. Owing = {} /\ Told = {}
    BY DEF Init, Owing, Told
  <2> QED
    BY <2>1 DEF Init, Receipt!Init
<1>2. ASSUME IInv, [Next]_vars PROVE [Receipt!Next]_<<attempts, Owing, Told>>
  <2>1. CASE (\E v \in Versions : Import(v)) \/ UNCHANGED vars
    BY <2>1 DEF Import, vars, data, Owing, Told
  <2>2. ASSUME NEW w \in Clients, Step(w), ~Insert(w), ~Promote(w)
        PROVE  Receipt!Next
    <3>1. /\ UNCHANGED <<attempts, results>>
          /\ \A v \in Clients : v # w => phase'[v] = phase[v] /\ request'[v] = request[v]
      BY <1>2, <2>2, DataStays, OthersStay DEF IInv
    <3>2. CASE phase'[w] \notin {"accepted", "duplicate"}
      BY <3>1, <3>2, ForgetStep
    <3>3. CASE phase'[w] \in {"accepted", "duplicate"}
      <4>1. phase[w] \in {"saved", "promoting"}
        BY <1>2, <2>2, <3>3, OwnFlow DEF IInv
      <4>2. Receipt!Tell(request[w]) /\ request[w] \in Payloads
        BY <1>2, <2>2, <3>3, <4>1, AnswerTells DEF IInv, TypeOK
      <4>3. UNCHANGED <<attempts, Owing>>
        BY <3>1 DEF Owing
      <4> QED
        BY <4>2, <4>3 DEF Receipt!Next
    <3> QED
      BY <3>2, <3>3
  <2>3. ASSUME NEW w \in Clients, Promote(w) PROVE Receipt!Next
    <3>1. Step(w) /\ UNCHANGED <<attempts, request>>
      BY <2>3 DEF Step, Promote
    <3>2. /\ phase[w] = "promoting" /\ phase'[w] = decision[w].batch
          /\ decision[w].batch \in {"accepted", "duplicate"}
      BY <1>2, <2>3 DEF Promote, Answer, GoOn, IInv, TypeOK, GoingOn
    <3>3. Receipt!Tell(request[w]) /\ request[w] \in Payloads
      BY <1>2, <3>1, <3>2, AnswerTells DEF IInv, TypeOK
    <3>4. UNCHANGED Owing \/ \E p \in Payloads : Receipt!Promote(p)
      BY <1>2, <2>3, PromotionPays DEF Receipt!Promote
    <3> QED
      BY <3>1, <3>3, <3>4 DEF Receipt!Next
  <2> QED
    BY <1>2, <2>1, <2>2, <2>3, InsertDecides DEF Next, Step
<1> QED
  BY <1>1, <1>2, InboxInductive, PTL DEF Spec, RefinesReceipt, Receipt!Spec
=============================================================================
