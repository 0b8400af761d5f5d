----------------------------- MODULE OutboxProofs -----------------------------
(***************************************************************************)
(* For any rows, workers, streams and attempt limit: the outbox delivers   *)
(* the events of an action in the order of their state_version, settles a  *)
(* row only for the holder of its lease and logs exactly what it           *)
(* processed.  IInv is the inductive invariant: the checked invariants     *)
(* together with what a worker's memory may still hold of a row (its       *)
(* predecessors are processed, and its line is written once it is handled) *)
(* and where a lease token can be.                                         *)
(***************************************************************************)
EXTENDS Outbox, TLAPS

(* A lease token is only ever on a row that is being processed. *)
LeaseOnlyOnProcessing == \A r \in Rows : holder[r] # NoWorker => status[r] = "processing"

(* The producer publishes the events of an action in order. *)
PublishedInOrder ==
    \A r \in Rows : status[r] # "absent" => \A s \in Predecessors(r) : status[s] # "absent"

(* What a worker remembers of a row, however old its lease. *)
HeldInOrder ==
    \A w \in Workers : msg[w] # NoRow =>
        /\ status[msg[w]] # "absent"
        /\ \A s \in Predecessors(msg[w]) : status[s] = "processed"

HandledIsInInbox == \A w \in Workers : phase[w] = "handled" => msg[w] \in Lines

LinesArePublished == \A r \in Lines : status[r] # "absent"

IInv ==
    /\ TypeOK
    /\ LeaseOnlyOnProcessing
    /\ PublishedInOrder
    /\ HeldInOrder
    /\ TriedInStateOrder
    /\ HandledIsInInbox
    /\ ProcessedIsInInbox
    /\ LoggedIffProcessed
    /\ LinesArePublished

-----------------------------------------------------------------------------
(* Appending a line adds that event and no other. *)
LEMMA AppendAddsLine ==
    ASSUME NEW r \in Rows, inbox \in Seq(Rows), inbox' = Append(inbox, r)
    PROVE  Lines' = Lines \cup {r} /\ inbox' \in Seq(Rows)
BY DEF Lines

(* A row that a worker may claim comes after processed rows only: were a   *)
(* predecessor still open it would be ahead of the row in the row's own    *)
(* stream, and the worker handles it too.                                  *)
LEMMA EligibleInOrder ==
    ASSUME TypeOK, PublishedInOrder,
           NEW w \in Workers, NEW r \in Eligible(w)
    PROVE  /\ r \in Rows
           /\ status[r] \in {"pending", "retry", "processing"}
           /\ attempts[r] < MaxAttempts
           /\ status[r] = "processing" => r \in Lapsed(w)
           /\ \A s \in Predecessors(r) : status[s] = "processed"
<1>1. r \in Rows /\ r \in StreamHeads(w) /\ Claimable(w, r)
  BY RowsAssumption DEF Eligible, StreamHeads, Unsettled
<1>2. r \in Handles[w] /\ status[r] \notin {"absent", "processed"}
  BY <1>1 DEF StreamHeads, Unsettled
<1>3. /\ status[r] \in {"pending", "retry", "processing"}
      /\ attempts[r] < MaxAttempts
      /\ status[r] = "processing" => r \in Lapsed(w)
  BY <1>1, <1>2 DEF Claimable, Lapsed
<1>4. ASSUME NEW s \in Predecessors(r) PROVE status[s] = "processed"
  <2>1. s \in Rows /\ s # r /\ ActionOf[s] = ActionOf[r] /\ Version[s] < Version[r]
    BY <1>1, RowsAssumption DEF Predecessors
  <2>2. StreamOf[s] = StreamOf[r] /\ s \in Handles[w]
    BY <1>1, <1>2, <2>1, StreamAssumption
  <2>3. ~Before(r, s)
    BY <1>1, <2>1, RowsAssumption DEF Before
  <2>4. s \notin Unsettled(w)
    BY <1>1, <2>1, <2>2, <2>3 DEF StreamHeads
  <2>5. status[s] # "absent"
    BY <1>1, <1>2 DEF PublishedInOrder
  <2> QED BY <2>2, <2>4, <2>5 DEF Unsettled
<1> QED BY <1>1, <1>3, <1>4

-----------------------------------------------------------------------------
LEMMA InitInvariant == Init => IInv
<1> SUFFICES ASSUME Init PROVE IInv
  OBVIOUS
<1>1. TypeOK
  BY RowsAssumption DEF Init, TypeOK, Statuses, Phases
<1>2. Lines = {}
  BY DEF Init, Lines
<1> QED
  BY <1>1, <1>2, RowsAssumption
  DEF Init, IInv, LeaseOnlyOnProcessing, PublishedInOrder, HeldInOrder, TriedInStateOrder,
      HandledIsInInbox, ProcessedIsInInbox, LoggedIffProcessed, LinesArePublished, Predecessors

LEMMA EnqueueInvariant ==
    ASSUME IInv, NEW r \in Rows, Enqueue(r) PROVE IInv'
<1> USE DEF IInv, Enqueue
<1>1. TypeOK'
  BY DEF TypeOK, Statuses
<1>2. Lines' = Lines
  BY DEF Lines
<1>3. PublishedInOrder' /\ TriedInStateOrder' /\ LeaseOnlyOnProcessing'
  BY DEF TypeOK, PublishedInOrder, TriedInStateOrder, LeaseOnlyOnProcessing, Predecessors
<1>4. HeldInOrder'
  BY RowsAssumption DEF TypeOK, HeldInOrder, Predecessors
<1>5. HandledIsInInbox' /\ ProcessedIsInInbox' /\ LoggedIffProcessed' /\ LinesArePublished'
  BY <1>2 DEF TypeOK, HandledIsInInbox, ProcessedIsInInbox, LoggedIffProcessed, LinesArePublished
<1> QED BY <1>1, <1>3, <1>4, <1>5

LEMMA ClaimInvariant ==
    ASSUME IInv, NEW w \in Workers, Claim(w) PROVE IInv'
<1>1. PICK r \in Eligible(w) : Take(w, r)
  BY DEF Claim
<1>2. /\ r \in Rows
      /\ status[r] \in {"pending", "retry", "processing"}
      /\ attempts[r] < MaxAttempts
      /\ \A s \in Predecessors(r) : status[s] = "processed"
  BY EligibleInOrder DEF IInv
<1>3. \A s \in Lapsed(w) : s \in Rows /\ status[s] = "processing"
  BY RowsAssumption DEF Lapsed
<1>4. \A s \in Rows : /\ status'[s] = status[s] \/ status'[s] \in {"processing", "retry"}
                      /\ status[s] = "processed" <=> status'[s] = "processed"
                      /\ status[s] = "absent" <=> status'[s] = "absent"
  BY <1>1, <1>2, <1>3 DEF Take
<1>5. TypeOK'
  <2>1. status' \in [Rows -> Statuses] /\ holder' \in [Rows -> Workers \cup {NoWorker}]
    BY <1>1 DEF Take, IInv, TypeOK, Statuses
  <2>2. due' \in [Rows -> BOOLEAN] /\ expired' \in [Rows -> BOOLEAN]
    BY <1>1 DEF Take, IInv, TypeOK
  <2>3. attempts' \in [Rows -> 0..MaxAttempts]
    BY <1>1, <1>2, RowsAssumption DEF Take, IInv, TypeOK
  <2>4. /\ phase' \in [Workers -> Phases] /\ msg' \in [Workers -> Rows \cup {NoRow}]
        /\ \A v \in Workers : (msg'[v] = NoRow) <=> (phase'[v] = "idle")
    BY <1>1, <1>2, RowsAssumption DEF Take, IInv, TypeOK, Phases
  <2> QED BY <1>1, <2>1, <2>2, <2>3, <2>4 DEF Take, IInv, TypeOK
<1>6. Lines' = Lines
  BY <1>1 DEF Take, Lines
<1>7. LeaseOnlyOnProcessing'
  BY <1>1, <1>3 DEF Take, IInv, TypeOK, LeaseOnlyOnProcessing
<1>8. PublishedInOrder'
  BY <1>4 DEF IInv, PublishedInOrder, Predecessors
<1>9. HeldInOrder'
  <2> SUFFICES ASSUME NEW v \in Workers, msg'[v] # NoRow
               PROVE  /\ status'[msg'[v]] # "absent"
                      /\ \A s \in Predecessors(msg'[v]) : status'[s] = "processed"
    BY DEF HeldInOrder, Predecessors
  <2>1. msg'[v] \in Rows /\ (msg'[v] = r \/ msg'[v] = msg[v])
    BY <1>1, <1>2, <1>5 DEF Take, IInv, TypeOK
  <2>2. \A s \in Predecessors(msg'[v]) : s \in Rows /\ status[s] = "processed"
    BY <1>2, <2>1 DEF IInv, HeldInOrder, Predecessors
  <2>3. status[msg'[v]] # "absent"
    BY <1>2, <2>1 DEF IInv, HeldInOrder
  <2> QED BY <1>4, <2>1, <2>2, <2>3
<1>10. TriedInStateOrder'
  <2> SUFFICES ASSUME NEW q \in Rows,
                      status'[q] \in {"processing", "retry", "processed", "dead_letter"},
                      NEW s \in Predecessors(q)
               PROVE  status'[s] = "processed"
    BY DEF TriedInStateOrder, Predecessors
  <2>1. CASE q = r
    BY <1>2, <1>4, <2>1 DEF Predecessors
  <2>2. CASE q # r
    <3>1. status[q] \in {"processing", "retry", "processed", "dead_letter"}
      BY <1>1, <1>3, <2>2 DEF Take
    <3> QED BY <1>4, <3>1 DEF IInv, TriedInStateOrder, Predecessors
  <2> QED BY <2>1, <2>2
<1>11. HandledIsInInbox' /\ LinesArePublished'
  BY <1>1, <1>4, <1>6 DEF Take, IInv, TypeOK, HandledIsInInbox, LinesArePublished, Lines
<1>12. ProcessedIsInInbox' /\ LoggedIffProcessed'
  BY <1>1, <1>4, <1>6 DEF Take, IInv, ProcessedIsInInbox, LoggedIffProcessed
<1> QED BY <1>5, <1>7, <1>8, <1>9, <1>10, <1>11, <1>12 DEF IInv

LEMMA RecoverInvariant ==
    ASSUME IInv, NEW w \in Workers, RecoverOnly(w) PROVE IInv'
<1> USE DEF RecoverOnly
<1>1. \A s \in Lapsed(w) : s \in Rows /\ status[s] = "processing"
  BY RowsAssumption DEF Lapsed
<1>2. \A s \in Rows : /\ status'[s] = status[s] \/ (status[s] = "processing" /\ status'[s] = "retry")
                      /\ status[s] = "processed" <=> status'[s] = "processed"
                      /\ status[s] = "absent" <=> status'[s] = "absent"
  BY <1>1
<1>3. TypeOK'
  BY DEF IInv, TypeOK, Statuses
<1>4. Lines' = Lines
  BY DEF Lines
<1>5. LeaseOnlyOnProcessing'
  BY <1>1 DEF IInv, TypeOK, LeaseOnlyOnProcessing
<1>6. PublishedInOrder' /\ TriedInStateOrder'
  BY <1>2 DEF IInv, PublishedInOrder, TriedInStateOrder, Predecessors
<1>7. HeldInOrder'
  BY <1>2 DEF IInv, TypeOK, HeldInOrder, Predecessors
<1>8. HandledIsInInbox' /\ LinesArePublished' /\ ProcessedIsInInbox' /\ LoggedIffProcessed'
  BY <1>2, <1>4
  DEF IInv, TypeOK, HandledIsInInbox, LinesArePublished, ProcessedIsInInbox, LoggedIffProcessed, Lines
<1> QED BY <1>3, <1>5, <1>6, <1>7, <1>8 DEF IInv

(* Steps that change a worker's place in the handler, and at most add the  *)
(* line of the row it holds.                                               *)
LEMMA HandlerInvariant ==
    ASSUME IInv, NEW w \in Workers,
           CheckInbox(w) \/ AppendLine(w) \/ HandlerRaises(w) \/ SyncRaises(w)
    PROVE  IInv'
<1>1. UNCHANGED <<rowVars, deliveryLog, msg, replays>>
  BY DEF CheckInbox, AppendLine, HandlerRaises, SyncRaises
<1>2. msg[w] \in Rows /\ phase[w] # "idle"
  BY DEF IInv, TypeOK, CheckInbox, AppendLine, HandlerRaises, SyncRaises
<1>3. inbox \in Seq(Rows)
  BY DEF IInv, TypeOK
<1>4. AppendLine(w) \/ SyncRaises(w) => Lines' = Lines \cup {msg[w]} /\ inbox' \in Seq(Rows)
  <2> SUFFICES ASSUME AppendLine(w) \/ SyncRaises(w)
               PROVE  Lines' = Lines \cup {msg[w]} /\ inbox' \in Seq(Rows)
    OBVIOUS
  <2>1. inbox' = Append(inbox, msg[w])
    BY DEF AppendLine, SyncRaises
  <2> QED BY <1>2, <1>3, <2>1, AppendAddsLine
<1>5. /\ Lines' = Lines \/ Lines' = Lines \cup {msg[w]}
      /\ inbox' \in Seq(Rows)
  BY <1>2, <1>3, <1>4 DEF Lines, CheckInbox, HandlerRaises
<1>6. \E p \in Phases \ {"idle"} :
        /\ phase' = [phase EXCEPT ![w] = p]
        /\ p = "handled" => msg[w] \in Lines'
  <2>1. CASE CheckInbox(w)
    BY <2>1 DEF CheckInbox, Phases, Lines
  <2>2. CASE AppendLine(w)
    <3>1. msg[w] \in Lines'
      BY <1>4, <2>2
    <3>2. phase' = [phase EXCEPT ![w] = "handled"] /\ "handled" \in Phases \ {"idle"}
      BY <2>2 DEF AppendLine, Phases
    <3> QED BY <3>1, <3>2
  <2>3. CASE HandlerRaises(w)
    BY <2>3 DEF HandlerRaises, Phases
  <2>4. CASE SyncRaises(w)
    <3>1. phase' = [phase EXCEPT ![w] = "failed"] /\ "failed" \in Phases \ {"idle"}
      BY <2>4 DEF SyncRaises, Phases
    <3> QED BY <3>1
  <2> QED BY <2>1, <2>2, <2>3, <2>4
<1>7. TypeOK'
  BY <1>1, <1>2, <1>5, <1>6, RowsAssumption DEF IInv, TypeOK, rowVars
<1>8. HandledIsInInbox'
  BY <1>1, <1>5, <1>6 DEF IInv, TypeOK, HandledIsInInbox
<1>9. LinesArePublished'
  BY <1>1, <1>2, <1>5, RowsAssumption DEF IInv, HeldInOrder, LinesArePublished, rowVars
<1>10. LeaseOnlyOnProcessing' /\ PublishedInOrder' /\ HeldInOrder' /\ TriedInStateOrder'
  BY <1>1 DEF IInv, LeaseOnlyOnProcessing, PublishedInOrder, HeldInOrder, TriedInStateOrder,
              Predecessors, rowVars
<1>11. ProcessedIsInInbox' /\ LoggedIffProcessed'
  BY <1>1, <1>5 DEF IInv, ProcessedIsInInbox, LoggedIffProcessed, rowVars
<1> QED BY <1>7, <1>8, <1>9, <1>10, <1>11 DEF IInv

LEMMA MarkDeliveredInvariant ==
    ASSUME IInv, NEW w \in Workers, MarkDelivered(w) PROVE IInv'
<1> USE DEF MarkDelivered, Settle, ToIdle
<1> DEFINE r == msg[w]
<1>1. r \in Rows /\ r \in Lines /\ (\A s \in Predecessors(r) : status[s] = "processed")
  BY RowsAssumption DEF IInv, TypeOK, HandledIsInInbox, HeldInOrder
<1>2. status' = [status EXCEPT ![r] = "processed"] /\ Lines' = Lines
  BY DEF Lines
<1>3. TypeOK'
  BY <1>1, RowsAssumption DEF IInv, TypeOK, Statuses, Phases
<1>4. LeaseOnlyOnProcessing'
  BY <1>1 DEF IInv, TypeOK, LeaseOnlyOnProcessing
<1>5. \A s \in Rows : /\ Predecessors(s)' = Predecessors(s)
                     /\ (status[s] = "processed" => status'[s] = "processed")
                     /\ (s # r => status'[s] = status[s])
  BY <1>2 DEF IInv, TypeOK, Predecessors
<1>51. PublishedInOrder'
  BY <1>1, <1>2, <1>5 DEF IInv, TypeOK, PublishedInOrder
<1>52. TriedInStateOrder'
  BY <1>1, <1>2, <1>5 DEF IInv, TypeOK, TriedInStateOrder
<1>6. HeldInOrder'
  BY <1>1, <1>2, <1>5 DEF IInv, TypeOK, HeldInOrder
<1>7. HandledIsInInbox' /\ LinesArePublished' /\ ProcessedIsInInbox'
  BY <1>1, <1>2 DEF IInv, TypeOK, HandledIsInInbox, LinesArePublished, ProcessedIsInInbox
<1>8. LoggedIffProcessed'
  BY <1>1, <1>2 DEF IInv, TypeOK, LoggedIffProcessed
<1> QED BY <1>3, <1>4, <1>51, <1>52, <1>6, <1>7, <1>8 DEF IInv

LEMMA MarkFailedInvariant ==
    ASSUME IInv, NEW w \in Workers, MarkFailed(w) PROVE IInv'
<1> USE DEF MarkFailed, Settle, ToIdle
<1> DEFINE r == msg[w]
<1>1. /\ r \in Rows /\ status[r] = "processing"
      /\ \A s \in Predecessors(r) : s \in Rows /\ s # r /\ status[s] = "processed"
  BY RowsAssumption
  DEF IInv, TypeOK, HeldInOrder, LeaseOnlyOnProcessing, OwnsLease, Predecessors
<1>2. \E outcome \in {"retry", "dead_letter"} : status' = [status EXCEPT ![r] = outcome]
  OBVIOUS
<1>3. Lines' = Lines
  BY DEF Lines
<1>4. TypeOK'
  BY <1>1, RowsAssumption DEF IInv, TypeOK, Statuses, Phases
<1>5. LeaseOnlyOnProcessing'
  BY <1>1 DEF IInv, TypeOK, LeaseOnlyOnProcessing
<1>6. PublishedInOrder' /\ TriedInStateOrder'
  BY <1>1, <1>2 DEF IInv, TypeOK, PublishedInOrder, TriedInStateOrder, Predecessors
<1>7. HeldInOrder'
  BY <1>1, <1>2 DEF IInv, TypeOK, HeldInOrder, Predecessors
<1>8. HandledIsInInbox' /\ LinesArePublished' /\ ProcessedIsInInbox' /\ LoggedIffProcessed'
  BY <1>1, <1>2, <1>3
  DEF IInv, TypeOK, HandledIsInInbox, LinesArePublished, ProcessedIsInInbox, LoggedIffProcessed, Lines
<1> QED BY <1>4, <1>5, <1>6, <1>7, <1>8 DEF IInv

(* A worker that loses its lease, or dies, only forgets its message. *)
LEMMA ForgetInvariant ==
    ASSUME IInv, NEW w \in Workers, LeaseLost(w) \/ Crash(w) PROVE IInv'
<1>1. ToIdle(w) /\ UNCHANGED <<rowVars, deliveryLog, inbox, replays>>
  BY DEF LeaseLost, Crash
<1>2. TypeOK'
  BY <1>1, RowsAssumption DEF ToIdle, IInv, TypeOK, Phases, rowVars
<1>3. Lines' = Lines
  BY <1>1 DEF Lines
<1>4. HeldInOrder' /\ HandledIsInInbox'
  BY <1>1, <1>3
  DEF ToIdle, IInv, TypeOK, HeldInOrder, HandledIsInInbox, Predecessors, rowVars
<1>5. LeaseOnlyOnProcessing' /\ PublishedInOrder' /\ TriedInStateOrder'
  BY <1>1 DEF IInv, LeaseOnlyOnProcessing, PublishedInOrder, TriedInStateOrder, Predecessors, rowVars
<1>6. ProcessedIsInInbox' /\ LoggedIffProcessed' /\ LinesArePublished'
  BY <1>1, <1>3 DEF IInv, ProcessedIsInInbox, LoggedIffProcessed, LinesArePublished, rowVars
<1> QED BY <1>2, <1>4, <1>5, <1>6 DEF IInv

LEMMA ReplayInvariant ==
    ASSUME IInv, NEW r \in Rows, ReplayDeadLetter(r) PROVE IInv'
<1> USE DEF ReplayDeadLetter, Settle
<1>1. \A s \in Rows : /\ status'[s] = status[s]
                         \/ (status[s] = "dead_letter" /\ status'[s] = "pending")
                      /\ status[s] = "processed" <=> status'[s] = "processed"
                      /\ status[s] = "absent" <=> status'[s] = "absent"
  BY DEF IInv, TypeOK
<1>2. Lines' = Lines
  BY DEF Lines
<1>3. TypeOK'
  BY RowsAssumption DEF IInv, TypeOK, Statuses
<1>4. LeaseOnlyOnProcessing'
  BY DEF IInv, TypeOK, LeaseOnlyOnProcessing
<1>5. PublishedInOrder' /\ TriedInStateOrder'
  BY <1>1 DEF IInv, PublishedInOrder, TriedInStateOrder, Predecessors
<1>6. HeldInOrder'
  BY <1>1 DEF IInv, TypeOK, HeldInOrder, Predecessors
<1>7. HandledIsInInbox' /\ LinesArePublished' /\ ProcessedIsInInbox' /\ LoggedIffProcessed'
  BY <1>1, <1>2
  DEF IInv, TypeOK, HandledIsInInbox, LinesArePublished, ProcessedIsInInbox, LoggedIffProcessed, Lines
<1> QED BY <1>3, <1>4, <1>5, <1>6, <1>7 DEF IInv

LEMMA TimeInvariant ==
    ASSUME IInv, NEW r \in Rows, TimeStep(r) PROVE IInv'
<1>1. UNCHANGED <<status, attempts, holder, deliveryLog, phase, msg, inbox, replays>>
  BY DEF TimeStep, BecomeDue, LeaseExpires
<1>2. TypeOK'
  BY <1>1 DEF TimeStep, BecomeDue, LeaseExpires, IInv, TypeOK
<1> QED
  BY <1>1, <1>2
  DEF IInv, LeaseOnlyOnProcessing, PublishedInOrder, HeldInOrder, TriedInStateOrder,
      HandledIsInInbox, ProcessedIsInInbox, LoggedIffProcessed, LinesArePublished,
      Predecessors, Lines

LEMMA StepInvariant == IInv /\ [Next]_vars => IInv'
<1> SUFFICES ASSUME IInv, [Next]_vars PROVE IInv'
  OBVIOUS
<1>1. CASE \E r \in Rows : Enqueue(r) \/ ReplayDeadLetter(r) \/ TimeStep(r)
  BY <1>1, EnqueueInvariant, ReplayInvariant, TimeInvariant
<1>2. CASE \E w \in Workers : WorkerStep(w) \/ Crash(w)
  BY <1>2, ClaimInvariant, RecoverInvariant, HandlerInvariant, MarkDeliveredInvariant,
     MarkFailedInvariant, ForgetInvariant DEF WorkerStep
<1>3. CASE UNCHANGED vars
  BY <1>3
  DEF vars, IInv, TypeOK, LeaseOnlyOnProcessing, PublishedInOrder, HeldInOrder,
      TriedInStateOrder, HandledIsInInbox, ProcessedIsInInbox, LoggedIffProcessed,
      LinesArePublished, Predecessors, Lines
<1> QED BY <1>1, <1>2, <1>3 DEF Next

(* IInv holds in every reachable state. *)
THEOREM OutboxInvariant == Spec => []IInv
BY InitInvariant, StepInvariant, PTL DEF Spec

(* The types of the outbox's state, for every value of the constants. *)
THEOREM OutboxTypeCorrect == Spec => []TypeOK
<1>1. IInv => TypeOK
  BY DEF IInv
<1> QED BY <1>1, OutboxInvariant, PTL

(* Events of one action are tried in state_version order, whatever         *)
(* crashes, expired leases, dead letters and replays happen.               *)
THEOREM OutboxTriesInStateOrder == Spec => []TriedInStateOrder
<1>1. IInv => TriedInStateOrder
  BY DEF IInv
<1> QED BY <1>1, OutboxInvariant, PTL

(* Nothing is processed without its line in the inbox, and the delivery    *)
(* log holds exactly the processed rows.                                   *)
THEOREM OutboxAccountsForDelivery == Spec => []AccountsForDelivery
<1>1. IInv => AccountsForDelivery
  BY DEF IInv, AccountsForDelivery
<1> QED BY <1>1, OutboxInvariant, PTL

(* Only the holder of a row's current lease settles it, and a processed    *)
(* row stays processed.                                                    *)
THEOREM OutboxOnlyTheHolderSettles == Spec => OnlyTheHolderSettles
<1> DEFINE Step ==
      \A r \in Rows :
        /\ status[r] = "processing" /\ status'[r] \in {"processed", "retry", "dead_letter"} =>
            \/ expired[r]
            \/ \E w \in Workers : holder[r] = w /\ msg[w] = r /\ msg'[w] = NoRow
        /\ status[r] = "processed" => status'[r] = "processed"
<1>1. ASSUME IInv, Next PROVE Step
  <2>1. CASE \E r \in Rows : Enqueue(r) \/ ReplayDeadLetter(r) \/ TimeStep(r)
    BY <1>1, <2>1
    DEF Enqueue, ReplayDeadLetter, Settle, TimeStep, BecomeDue, LeaseExpires, IInv, TypeOK
  <2>2. ASSUME NEW w \in Workers, Claim(w) PROVE Step
    <3>1. PICK q \in Eligible(w) : Take(w, q)
      BY <2>2 DEF Claim
    <3>2. status[q] # "processed"
      BY <1>1, EligibleInOrder DEF IInv
    <3> QED BY <3>1, <3>2 DEF Take, Lapsed
  <2>3. ASSUME NEW w \in Workers, RecoverOnly(w) PROVE Step
    BY <2>3 DEF RecoverOnly, Lapsed
  <2>4. ASSUME NEW w \in Workers, MarkDelivered(w) \/ MarkFailed(w) PROVE Step
    <3>1. msg[w] \in Rows /\ msg'[w] = NoRow /\ holder[msg[w]] = w
      BY <1>1, <2>4 DEF MarkDelivered, MarkFailed, ToIdle, OwnsLease, IInv, TypeOK
    <3>2. status[msg[w]] = "processing"
      BY <1>1, <3>1, RowsAssumption DEF IInv, LeaseOnlyOnProcessing
    <3>3. \A r \in Rows : r # msg[w] => status'[r] = status[r]
      BY <1>1, <2>4 DEF MarkDelivered, MarkFailed, Settle, IInv, TypeOK
    <3> QED BY <3>1, <3>2, <3>3
  <2>5. ASSUME NEW w \in Workers,
               \/ CheckInbox(w) \/ AppendLine(w) \/ HandlerRaises(w) \/ SyncRaises(w)
               \/ LeaseLost(w) \/ Crash(w)
        PROVE Step
    BY <2>5
    DEF CheckInbox, AppendLine, HandlerRaises, SyncRaises, LeaseLost, Crash, rowVars
  <2> QED BY <1>1, <2>1, <2>2, <2>3, <2>4, <2>5 DEF Next, WorkerStep
<1>2. IInv /\ [Next]_vars => [Step]_vars
  BY <1>1
<1>3. Spec => [][Step]_vars
  BY <1>2, OutboxInvariant, PTL DEF Spec
<1> QED BY <1>3 DEF OnlyTheHolderSettles

(* The outbox implements the ordered delivery that the integration         *)
(* contract promises: every step publishes one event, makes one event      *)
(* readable for the first time after all its predecessors, or changes      *)
(* nothing the consumer sees.                                              *)
THEOREM OutboxDeliversInOrder == Spec => DeliversInOrder
<1> DEFINE pub == {r \in Rows : status[r] # "absent"}
<1>1. Init => Abstract!Init
  BY DEF Init, Abstract!Init, Lines
<1>2. ASSUME IInv, [Next]_vars PROVE [Abstract!Next]_<<pub, Lines>>
  <2>1. ASSUME NEW r \in Rows, Enqueue(r) PROVE Abstract!Next
    <3>1. pub' = pub \cup {r} /\ r \notin pub /\ Lines' = Lines
      BY <1>2, <2>1 DEF Enqueue, IInv, TypeOK, Lines
    <3> QED BY <3>1 DEF Abstract!Next, Abstract!Publish
  <2>2. ASSUME NEW w \in Workers, AppendLine(w) \/ SyncRaises(w)
        PROVE  [Abstract!Next]_<<pub, Lines>>
    <3>1. msg[w] \in Rows /\ pub' = pub
      BY <1>2, <2>2 DEF AppendLine, SyncRaises, IInv, TypeOK, rowVars
    <3>2. Lines' = Lines \cup {msg[w]}
      BY <1>2, <2>2, <3>1, AppendAddsLine DEF AppendLine, SyncRaises, IInv, TypeOK
    <3>3. msg[w] \in pub
      BY <1>2, <3>1, RowsAssumption DEF IInv, HeldInOrder
    <3>4. Abstract!Predecessors(msg[w]) \subseteq Lines
      BY <1>2, <3>1, RowsAssumption
      DEF IInv, HeldInOrder, ProcessedIsInInbox, Predecessors, Abstract!Predecessors
    <3> QED BY <3>1, <3>2, <3>3, <3>4 DEF Abstract!Next, Abstract!Deliver
  <2>3. ASSUME NEW w \in Workers, Claim(w) PROVE UNCHANGED <<pub, Lines>>
    <3>1. PICK q \in Eligible(w) : Take(w, q)
      BY <2>3 DEF Claim
    <3>2. q \in Rows /\ status[q] # "absent"
      BY <1>2, EligibleInOrder DEF IInv
    <3> QED BY <3>1, <3>2 DEF Take, Lapsed, Lines
  <2>4. ASSUME NEW w \in Workers, RecoverOnly(w) PROVE UNCHANGED <<pub, Lines>>
    BY <2>4 DEF RecoverOnly, Lapsed, Lines
  <2>5. ASSUME NEW w \in Workers, MarkDelivered(w) \/ MarkFailed(w)
        PROVE  UNCHANGED <<pub, Lines>>
    <3>1. msg[w] \in Rows /\ status[msg[w]] # "absent"
      BY <1>2, <2>5, RowsAssumption DEF MarkDelivered, MarkFailed, IInv, TypeOK, HeldInOrder
    <3> QED BY <1>2, <2>5, <3>1 DEF MarkDelivered, MarkFailed, Settle, IInv, TypeOK, Lines
  <2>6. ASSUME NEW w \in Workers,
               CheckInbox(w) \/ HandlerRaises(w) \/ LeaseLost(w) \/ Crash(w)
        PROVE  UNCHANGED <<pub, Lines>>
    BY <2>6 DEF CheckInbox, HandlerRaises, LeaseLost, Crash, rowVars, Lines
  <2>7. ASSUME NEW r \in Rows, ReplayDeadLetter(r) \/ TimeStep(r)
        PROVE  UNCHANGED <<pub, Lines>>
    BY <1>2, <2>7
    DEF ReplayDeadLetter, Settle, TimeStep, BecomeDue, LeaseExpires, IInv, TypeOK, Lines
  <2>8. CASE UNCHANGED vars
    BY <2>8 DEF vars, Lines
  <2> QED BY <1>2, <2>1, <2>2, <2>3, <2>4, <2>5, <2>6, <2>7, <2>8 DEF Next, WorkerStep
<1> QED BY <1>1, <1>2, OutboxInvariant, PTL DEF Spec, DeliversInOrder, Abstract!Spec
=============================================================================
