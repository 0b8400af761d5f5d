----------------------- MODULE PredictionDeliveryProofs ------------------------
(***************************************************************************)
(* For any batches, requests in flight, attempts, runs and crashes: what   *)
(* is marked sent was stored, and promoted if it was accepted; a completed *)
(* run has published all its batches; a settled batch is left alone.  The  *)
(* argument goes along a request: what the Backend has done when a request *)
(* has got so far (AnswersAreSound), and that the worker takes the answer  *)
(* to the batch it holds (WaitsForHeld).                                   *)
(***************************************************************************)
EXTENDS PredictionDelivery, TLAPS

(* A busy worker holds a batch, and marks it sending until it settles it. *)
WorkerState ==
    /\ worker # "idle" => up /\ held \in Batches
    /\ worker \in {"marked", "synced", "waiting"} => item[held] = "sending"
    /\ worker = "waiting" => call \in Slots
    /\ stage # "idle" => run \in Runs

AttemptsLeft == \A b \in Batches : item[b] \notin Settled => attempt[b] < MaxAttempts

(* The Backend has decided on the batch, and has promoted it if accepted. *)
Delivered(b) == inbox[b] # "none" /\ (inbox[b] = "accepted" => b \in promoted)

Sound(r) ==
    /\ r.at # "free" => r.batch \in Batches
    /\ r.at = "received" => inbox[r.batch] # "none"
    /\ (r.at = "answered" /\ r.answer \in {"accepted", "duplicate"}) => Delivered(r.batch)

AnswersAreSound == \A s \in Slots : Sound(request[s])

WaitsForHeld ==
    worker = "waiting" => request[call].at = "free" \/ request[call].batch = held

SentIsDelivered == \A b \in Batches : item[b] = "sent" => Delivered(b)

PublishedSoFar ==
    stage = "publishing" => \A b \in Batches \ todo : item[b] # "absent"

PromotedIsAccepted == \A b \in promoted : inbox[b] = "accepted"

IInv ==
    /\ TypeOK
    /\ WorkerState
    /\ AttemptsLeft
    /\ AnswersAreSound
    /\ WaitsForHeld
    /\ SentIsDelivered
    /\ PublishedSoFar
    /\ PromotedIsAccepted
    /\ CompletedRunIsPublished

-----------------------------------------------------------------------------
LEMMA InitIInv == ASSUME Init PROVE IInv
<1>1. TypeOK
  <2>1. 1 \in Runs /\ 0 \in 0..MaxRuns /\ 0 \in 0..MaxAttempts /\ 0 \in 0..MaxCrashes
    BY DeliveryAssumption DEF Runs
  <2>2. NoEvents \in [Batches -> ItemStatuses]
    BY DEF NoEvents, ItemStatuses
  <2>3. Empty \in Requests
    BY DEF Empty, Requests, Places, Answers
  <2> QED BY <2>1, <2>2, <2>3 DEF Init, TypeOK
<1>2. WorkerState /\ AttemptsLeft /\ SentIsDelivered /\ PublishedSoFar
  BY DeliveryAssumption
     DEF Init, WorkerState, AttemptsLeft, SentIsDelivered, PublishedSoFar, NoEvents
<1>3. AnswersAreSound /\ WaitsForHeld
  BY DEF Init, AnswersAreSound, Sound, WaitsForHeld, Empty
<1>4. CompletedRunIsPublished /\ PromotedIsAccepted
  BY DEF Init, CompletedRunIsPublished, PromotedIsAccepted
<1> QED BY <1>1, <1>2, <1>3, <1>4 DEF IInv

(* A request that gets on is a request, also one whose answer is dropped. *)
LEMMA MovesOn ==
    ASSUME TypeOK, NEW s \in Slots, NEW at \in Places, NEW answer \in Answers
    PROVE  [request EXCEPT ![s].at = at, ![s].answer = answer] \in [Slots -> Requests]
<1>1. request \in [Slots -> Requests]
  BY DEF TypeOK
<1>2. [request[s] EXCEPT !.at = at, !.answer = answer] \in Requests
  BY <1>1 DEF Requests
<1>3. [request EXCEPT ![s].at = at, ![s].answer = answer]
          = [request EXCEPT ![s] = [request[s] EXCEPT !.at = at, !.answer = answer]]
  BY <1>1
<1> QED BY <1>1, <1>2, <1>3

(* An answer ends the request, or is given to the one that waits for it.   *)
LEMMA AnswerEffect ==
    ASSUME TypeOK, NEW s \in Slots, NEW answer, Answer(s, answer)
    PROVE  \/ request'[s] = Empty
           \/ /\ request'[s].batch = request[s].batch
              /\ request'[s].at = "answered"
              /\ request'[s].answer = answer
<1>1. request \in [Slots -> Requests] /\ request[s] \in Requests
  BY DEF TypeOK
<1>2. request'[s] = IF s = call THEN [request[s] EXCEPT !.at = "answered", !.answer = answer]
                    ELSE Empty
  BY <1>1 DEF Answer
<1> QED BY <1>1, <1>2 DEF Requests

LEMMA AnswerKeepsType ==
    ASSUME TypeOK, NEW s \in Slots, NEW answer \in Answers, Answer(s, answer)
    PROVE  request' \in [Slots -> Requests]
<1>1. Empty \in Requests /\ "answered" \in Places
  BY DEF Empty, Requests, Places, Answers
<1>2. [request[s] EXCEPT !.at = "answered", !.answer = answer] \in Requests
  BY <1>1 DEF TypeOK, Requests
<1> QED BY <1>1, <1>2 DEF Answer, TypeOK

LEMMA ReceiveKeepsType ==
    ASSUME TypeOK, NEW s \in Slots, Receive(s)
    PROVE  request' \in [Slots -> Requests]
<1>1. "received" \in Places /\ Verdict(request[s].batch) \in Answers
  BY DEF Verdict, Places, Answers
<1>2. request' = [request EXCEPT ![s].at = "received", ![s].answer = Verdict(request[s].batch)]
  BY DEF Receive
<1> QED BY <1>1, <1>2, MovesOn

LEMMA BackendKeepsRequests ==
    ASSUME TypeOK, NEW s \in Slots, BackendStep(s)
    PROVE  request' \in [Slots -> Requests]
<1>1. {"accepted", "duplicate", "rejected", "error", "refused"} \subseteq Answers
  BY DEF Answers
<1>2. request[s].answer \in Answers
  BY DEF TypeOK, Requests
<1>3. CASE Receive(s)
  BY <1>3, ReceiveKeepsType
<1>4. CASE Promote(s)
  BY <1>2, <1>4, AnswerKeepsType DEF Promote
<1>5. CASE ServerError(s)
  BY <1>1, <1>5, AnswerKeepsType DEF ServerError
<1>6. CASE Refuse(s)
  BY <1>1, <1>6, AnswerKeepsType DEF Refuse
<1>7. CASE Lose(s)
  <2>1. Empty \in Requests
    BY DEF Empty, Requests, Places, Answers
  <2> QED BY <1>7, <2>1 DEF Lose, TypeOK
<1> QED BY <1>3, <1>4, <1>5, <1>6, <1>7 DEF BackendStep

(* The outcome of a request leaves an attempt if it waits for another.     *)
LEMMA SettlingKeepsType ==
    ASSUME IInv, GetAnswer \/ Timeout
    PROVE  /\ item' \in [Batches -> ItemStatuses]
           /\ due' \in [Batches -> BOOLEAN]
           /\ attempt' \in [Batches -> 0..MaxAttempts]
           /\ worker' = "settled" /\ call' = NoSlot
<1> USE DeliveryAssumption DEF IInv, TypeOK, ItemStatuses
<1>1. \E status \in {"retry_wait", "sent", "failed"} : Settle(held, status)
  BY DEF GetAnswer, Timeout, Retry
<1>2. held \in Batches /\ item[held] = "sending"
  BY DEF GetAnswer, Timeout, WorkerState
<1>3. attempt[held] \in 0..MaxAttempts /\ attempt[held] < MaxAttempts
  BY <1>2 DEF AttemptsLeft, Settled
<1>4. item' \in [Batches -> ItemStatuses] /\ due' \in [Batches -> BOOLEAN]
  BY <1>1, <1>2 DEF Settle
<1>5. attempt' \in [Batches -> 0..MaxAttempts]
  BY <1>1, <1>2, <1>3 DEF Settle
<1> QED BY <1>1, <1>4, <1>5 DEF Settle

(* Every action keeps the types. *)
LEMMA TypeStep ==
    ASSUME IInv, [Next]_vars
    PROVE  TypeOK'
<1> USE DeliveryAssumption DEF IInv, TypeOK, WorkerState, AttemptsLeft, outbox, workerVars, pipeline, backend, ItemStatuses, Settled, Places, Answers, Requests, Empty, NoEvents, Runs
<1>1. CASE StartRun
  <2>1. run' \in 0..MaxRuns
    BY <1>1 DEF StartRun
  <2>2. memory' \in [Batches -> ItemStatuses]
    BY <1>1 DEF StartRun, Resumable
  <2>3. checkpoint' \in [Runs -> {"none", "resumable", "completed"}]
    <3>1. UNCHANGED checkpoint \/ checkpoint' = [checkpoint EXCEPT ![run + 1] = "resumable"]
      BY <1>1 DEF StartRun
    <3> HIDE DEF Runs
    <3> QED BY <3>1
  <2> QED BY <1>1, <2>1, <2>2, <2>3 DEF StartRun
<1>2. CASE SaveStages
  BY <1>2 DEF SaveStages, SaveMemory
<1>3. CASE StageFails
  BY <1>3 DEF StageFails, SaveMemory
<1>4. ASSUME NEW b \in Batches, Publish(b) PROVE TypeOK'
  <2>1. item' \in [Batches -> ItemStatuses]
    <3>1. \/ item' = item
          \/ item' = [item EXCEPT ![b] = "pending"]
      BY <1>4 DEF Publish
    <3> QED BY <3>1
  <2>2. run \in Runs
    BY <1>4 DEF Publish
  <2>3. itemRun' \in [Batches -> Runs]
    <3> HIDE DEF Runs
    <3> QED BY <1>4, <2>2 DEF Publish
  <2> QED BY <1>4, <2>1, <2>3 DEF Publish
<1>5. CASE PublishRaises
  BY <1>5 DEF PublishRaises
<1>6. CASE Complete
  BY <1>6 DEF Complete
<1>7. CASE SaveRun
  BY <1>7 DEF SaveRun, SaveMemory
<1>8. CASE MarkSucceeded
  BY <1>8 DEF MarkSucceeded
<1>9. ASSUME NEW b \in Batches, MarkSending(b) PROVE TypeOK'
  BY <1>9 DEF MarkSending, Ready
<1>10. CASE SyncSending
  BY <1>10 DEF SyncSending, UpdateEvent
<1>11. CASE Post
  BY <1>11 DEF Post
<1>12. CASE GetAnswer
  <2>1. request' \in [Slots -> Requests]
    BY <1>12 DEF GetAnswer
  <2> QED BY <1>12, <2>1, SettlingKeepsType DEF GetAnswer
<1>13. CASE Timeout
  BY <1>13, SettlingKeepsType DEF Timeout
<1>14. CASE SyncSettled
  BY <1>14 DEF SyncSettled, UpdateEvent
<1>15. CASE Crash
  <2>1. request' \in [Slots -> Requests]
    BY <1>15 DEF Crash
  <2>2. crashes' \in 0..MaxCrashes
    BY <1>15 DEF Crash
  <2> QED BY <1>15, <2>1, <2>2 DEF Crash
<1>16. CASE Start
  BY <1>16 DEF Start, Interrupted
<1>17. ASSUME NEW s \in Slots, Receive(s) PROVE TypeOK'
  <2>1. request[s].batch \in Batches
    BY <1>17 DEF Receive, AnswersAreSound, Sound
  <2>3. inbox' \in [Batches -> {"none", "accepted", "rejected"}]
    BY <1>17, <2>1 DEF Receive, Verdict
  <2>4. request' \in [Slots -> Requests]
    BY <1>17, BackendKeepsRequests DEF BackendStep
  <2> QED BY <1>17, <2>3, <2>4 DEF Receive
<1>18. ASSUME NEW s \in Slots, Promote(s) PROVE TypeOK'
  <2>1. request[s].batch \in Batches
    BY <1>18 DEF Promote, AnswersAreSound, Sound
  <2>2. promoted' \subseteq Batches
    BY <1>18, <2>1 DEF Promote
  <2>3. request' \in [Slots -> Requests]
    BY <1>18, BackendKeepsRequests DEF BackendStep
  <2> QED BY <1>18, <2>2, <2>3 DEF Promote
<1>19. ASSUME NEW s \in Slots, ServerError(s) PROVE TypeOK'
  <2>1. request' \in [Slots -> Requests]
    BY <1>19, BackendKeepsRequests DEF BackendStep
  <2> QED BY <1>19, <2>1 DEF ServerError
<1>20. ASSUME NEW s \in Slots, Refuse(s) PROVE TypeOK'
  <2>1. request' \in [Slots -> Requests]
    BY <1>20, BackendKeepsRequests DEF BackendStep
  <2> QED BY <1>20, <2>1 DEF Refuse
<1>21. ASSUME NEW s \in Slots, Lose(s) PROVE TypeOK'
  BY <1>21, BackendKeepsRequests DEF Lose, BackendStep
<1>22. ASSUME NEW b \in Batches, BecomeDue(b) PROVE TypeOK'
  BY <1>22 DEF BecomeDue
<1>23. ASSUME NEW b \in Batches, ImportAssets(b) PROVE TypeOK'
  BY <1>23 DEF ImportAssets
<1>24. CASE UNCHANGED vars
  BY <1>24 DEF vars
<1> QED
  BY <1>1, <1>2, <1>3, <1>4, <1>5, <1>6, <1>7, <1>8, <1>9, <1>10, <1>11, <1>12, <1>13, <1>14, <1>15, <1>16, <1>17, <1>18, <1>19, <1>20, <1>21, <1>22, <1>23, <1>24
     DEF Next, PipelineStep, WorkerStep, BackendStep

(* What the pipeline, the Backend and time leave as it is. *)
LEMMA PipelineFrame ==
    ASSUME PipelineStep
    PROVE  UNCHANGED <<attempt, up, worker, held, call, request, inbox, promoted>>
BY DEF PipelineStep, StartRun, SaveStages, StageFails, Publish, PublishRaises, Complete, SaveRun,
   MarkSucceeded, outbox, workerVars, backend

LEMMA BackendFrame ==
    ASSUME NEW s \in Slots, BackendStep(s)
    PROVE  UNCHANGED <<item, attempt, up, worker, held, call, stage, todo, run, checkpoint>>
BY DEF BackendStep, Receive, Promote, ServerError, Refuse, Lose, outbox, workerVars, pipeline

LEMMA TimeFrame ==
    ASSUME NEW b \in Batches, BecomeDue(b) \/ ImportAssets(b)
    PROVE  UNCHANGED <<item, attempt, up, worker, held, call, stage, todo, run, checkpoint,
                       request, inbox, promoted>>
BY DEF BecomeDue, ImportAssets, outbox, workerVars, pipeline, backend

LEMMA RestartFrame ==
    ASSUME Crash \/ Start
    PROVE  UNCHANGED <<attempt, run, checkpoint, inbox, promoted>>
BY DEF Crash, Start, outbox, pipeline, backend

(* Every action keeps what the worker holds. *)
LEMMA WorkerStateStep ==
    ASSUME IInv, [Next]_vars
    PROVE  WorkerState'
<1> USE DEF WorkerState
<1>0. TypeOK /\ WorkerState
  BY DEF IInv
<1>1. CASE PipelineStep
  <2>1. stage' # "idle" => run' \in Runs
    <3>1. CASE StartRun
      BY <1>0, <3>1, DeliveryAssumption DEF StartRun, Resumable, Runs, TypeOK
    <3>2. CASE ~StartRun
      BY <1>0, <1>1, <3>2 DEF PipelineStep, SaveStages, StageFails, Publish, PublishRaises,
         Complete, SaveRun, MarkSucceeded
    <3> QED BY <3>1, <3>2
  <2>2. \A b \in Batches : item[b] = "sending" => item'[b] = "sending"
    BY <1>0, <1>1 DEF PipelineStep, StartRun, SaveStages, StageFails, Publish, PublishRaises,
       Complete, SaveRun, MarkSucceeded, outbox, TypeOK
  <2> QED BY <1>0, <1>1, <2>1, <2>2, PipelineFrame
<1>2. ASSUME NEW b \in Batches, MarkSending(b) PROVE WorkerState'
  BY <1>0, <1>2 DEF MarkSending, pipeline, TypeOK
<1>3. CASE SyncSending \/ Post \/ GetAnswer \/ Timeout \/ SyncSettled
  BY <1>0, <1>3 DEF SyncSending, Post, GetAnswer, Timeout, Settle, Retry, SyncSettled, outbox,
     pipeline
<1>4. CASE Crash \/ Start
  BY <1>0, <1>4 DEF Crash, Start, workerVars, pipeline
<1>5. ASSUME NEW s \in Slots, BackendStep(s) PROVE WorkerState'
  BY <1>0, <1>5, BackendFrame
<1>6. ASSUME NEW b \in Batches, BecomeDue(b) \/ ImportAssets(b) PROVE WorkerState'
  BY <1>0, <1>6, TimeFrame
<1>7. CASE UNCHANGED vars
  BY <1>0, <1>7 DEF vars
<1> QED BY <1>1, <1>2, <1>3, <1>4, <1>5, <1>6, <1>7 DEF Next, WorkerStep

(* A batch that is not settled has an attempt left. *)
LEMMA AttemptsLeftStep ==
    ASSUME IInv, [Next]_vars
    PROVE  AttemptsLeft'
<1> USE DEF AttemptsLeft, Settled
<1>0. TypeOK /\ WorkerState /\ AttemptsLeft
  BY DEF IInv
<1>1. ASSUME attempt' = attempt,
             \A b \in Batches : item[b] \in Settled => item'[b] \in Settled
      PROVE  AttemptsLeft'
  BY <1>0, <1>1
<1>2. CASE PipelineStep
  <2>1. \A b \in Batches : item[b] \in Settled => item'[b] \in Settled
    BY <1>0, <1>2 DEF PipelineStep, StartRun, SaveStages, StageFails, Publish, PublishRaises,
       Complete, SaveRun, MarkSucceeded, outbox, TypeOK
  <2> QED BY <1>1, <1>2, <2>1, PipelineFrame
<1>3. CASE GetAnswer \/ Timeout
  <2>1. held \in Batches /\ attempt[held] \in Nat
    BY <1>0, <1>3, DeliveryAssumption DEF GetAnswer, Timeout, WorkerState, TypeOK
  <2>2. \E status \in {"retry_wait", "sent", "failed"} :
            /\ Settle(held, status)
            /\ status = "retry_wait" => attempt[held] + 1 < MaxAttempts
    BY <1>3 DEF GetAnswer, Timeout, Retry
  <2> QED BY <1>0, <2>1, <2>2 DEF Settle, TypeOK
<1>4. CASE \/ \E b \in Batches : MarkSending(b)
           \/ SyncSending \/ Post \/ SyncSettled
  <2>1. attempt' = attempt
    BY <1>4 DEF MarkSending, SyncSending, Post, SyncSettled, outbox
  <2>2. \A b \in Batches : item[b] \in Settled => item'[b] \in Settled
    BY <1>0, <1>4 DEF MarkSending, Ready, SyncSending, Post, SyncSettled, outbox, TypeOK
  <2> QED BY <1>1, <2>1, <2>2
<1>5. CASE Crash \/ Start
  <2>1. \A b \in Batches : item[b] \in Settled => item'[b] \in Settled
    BY <1>5 DEF Crash, Start, Interrupted, outbox
  <2> QED BY <1>1, <1>5, <2>1, RestartFrame
<1>6. CASE \/ \E s \in Slots : BackendStep(s)
           \/ \E b \in Batches : BecomeDue(b) \/ ImportAssets(b)
  BY <1>1, <1>6, BackendFrame, TimeFrame
<1>7. CASE UNCHANGED vars
  BY <1>1, <1>7 DEF vars
<1> QED BY <1>2, <1>3, <1>4, <1>5, <1>6, <1>7 DEF Next, WorkerStep

(* What the Backend has decided and promoted, it keeps. *)
LEMMA DeliveredStays ==
    ASSUME IInv, [Next]_vars
    PROVE  /\ \A b \in Batches : inbox[b] # "none" => inbox'[b] = inbox[b]
           /\ promoted \subseteq promoted'
<1>1. ASSUME NEW s \in Slots, Receive(s)
      PROVE  /\ promoted' = promoted
             /\ \A b \in Batches : inbox[b] # "none" => inbox'[b] = inbox[b]
  BY <1>1 DEF Receive, IInv, TypeOK
<1>2. ASSUME NEW s \in Slots, Promote(s) \/ ServerError(s) \/ Refuse(s) \/ Lose(s)
      PROVE  inbox' = inbox /\ promoted \subseteq promoted'
  BY <1>2 DEF Promote, ServerError, Refuse, Lose, backend
<1>3. CASE PipelineStep \/ WorkerStep \/ Crash \/ Start \/ UNCHANGED vars
  <2>1. WorkerStep => UNCHANGED <<inbox, promoted>>
    BY DEF WorkerStep, MarkSending, SyncSending, Post, GetAnswer, Timeout, SyncSettled, backend
  <2> QED BY <1>3, <2>1, PipelineFrame, RestartFrame DEF vars
<1>4. CASE \E b \in Batches : BecomeDue(b) \/ ImportAssets(b)
  BY <1>4, TimeFrame
<1> QED BY <1>1, <1>2, <1>3, <1>4 DEF Next, BackendStep

(* What a request has reached says what the Backend has done. *)
LEMMA AnswersAreSoundStep ==
    ASSUME IInv, [Next]_vars
    PROVE  AnswersAreSound'
<1>1. ASSUME NEW t \in Slots, request'[t] = request[t] PROVE Sound(request[t])'
  <2>1. Sound(request[t])
    BY DEF IInv, AnswersAreSound
  <2>2. /\ \A b \in Batches : inbox[b] # "none" => inbox'[b] = inbox[b]
        /\ promoted \subseteq promoted'
    BY DeliveredStays
  <2> QED BY <1>1, <2>1, <2>2 DEF Sound, Delivered
<1>2. ASSUME NEW t \in Slots, request'[t] = Empty PROVE Sound(request[t])'
  BY <1>2 DEF Sound, Empty
<1>3. UNCHANGED request => AnswersAreSound'
  BY <1>1 DEF AnswersAreSound
<1>4. CASE PipelineStep
  BY <1>3, <1>4 DEF PipelineStep, StartRun, SaveStages, StageFails, Publish, PublishRaises,
     Complete, SaveRun, MarkSucceeded
<1>5. CASE Post
  <2>1. PICK s \in Slots : request' =
            [request EXCEPT ![s] = [at |-> "posted", batch |-> held, answer |-> "none"]]
    BY <1>5 DEF Post
  <2>2. held \in Batches
    BY <1>5 DEF Post, IInv, WorkerState
  <2>3. Sound(request[s])'
    BY <2>1, <2>2 DEF Sound, IInv, TypeOK
  <2> QED BY <1>1, <2>1, <2>3 DEF AnswersAreSound, IInv, TypeOK
<1>6. CASE GetAnswer
  <2>1. \A t \in Slots : request'[t] = request[t] \/ request'[t] = Empty
    BY <1>6 DEF GetAnswer, IInv, TypeOK
  <2> QED BY <1>1, <1>2, <2>1 DEF AnswersAreSound
<1>7. CASE Crash
  <2>1. \A t \in Slots : request'[t] = request[t] \/ request'[t] = Empty
    BY <1>7 DEF Crash, IInv, TypeOK
  <2> QED BY <1>1, <1>2, <2>1 DEF AnswersAreSound
<1>8. CASE \/ \E b \in Batches : MarkSending(b)
           \/ SyncSending \/ Timeout \/ SyncSettled \/ Start
           \/ \E b \in Batches : BecomeDue(b) \/ ImportAssets(b)
           \/ UNCHANGED vars
  BY <1>3, <1>8 DEF MarkSending, SyncSending, Timeout, SyncSettled, Start, BecomeDue,
     ImportAssets, vars
<1>9. ASSUME NEW s \in Slots, Receive(s) PROVE AnswersAreSound'
  <2>1. request[s].batch \in Batches
    BY <1>9 DEF Receive, IInv, AnswersAreSound, Sound
  <2>2. inbox'[request[s].batch] # "none"
    BY <1>9, <2>1 DEF Receive, Verdict, IInv, TypeOK
  <2>3. request'[s].batch = request[s].batch /\ request'[s].at = "received"
    BY <1>9 DEF Receive, IInv, TypeOK, Requests
  <2>4. Sound(request[s])'
    BY <2>1, <2>2, <2>3 DEF Sound
  <2>5. \A t \in Slots \ {s} : request'[t] = request[t]
    BY <1>9 DEF Receive, IInv, TypeOK
  <2> QED BY <1>1, <2>4, <2>5 DEF AnswersAreSound
<1>10. ASSUME NEW s \in Slots, Promote(s) PROVE AnswersAreSound'
  <2>1. request[s].batch \in Batches /\ inbox[request[s].batch] # "none"
    BY <1>10 DEF Promote, IInv, AnswersAreSound, Sound
  <2>2. request[s].answer \in {"accepted", "duplicate"} =>
            \A b \in Batches : b = request[s].batch => Delivered(b)'
    BY <1>10, <2>1 DEF Promote, Delivered
  <2>3. \/ request'[s] = Empty
        \/ /\ request'[s].batch = request[s].batch /\ request'[s].at = "answered"
           /\ request'[s].answer = request[s].answer
    BY <1>10, AnswerEffect DEF Promote, IInv
  <2>4. Sound(request[s])'
    BY <1>2, <2>1, <2>2, <2>3 DEF Sound, Delivered
  <2>5. \A t \in Slots \ {s} : request'[t] = request[t]
    BY <1>10 DEF Promote, Answer, IInv, TypeOK
  <2> QED BY <1>1, <2>4, <2>5 DEF AnswersAreSound
<1>11. ASSUME NEW s \in Slots, ServerError(s) \/ Refuse(s) PROVE AnswersAreSound'
  <2>1. request[s].batch \in Batches
    BY <1>11 DEF ServerError, Refuse, IInv, AnswersAreSound, Sound
  <2>2. \/ request'[s] = Empty
        \/ /\ request'[s].batch = request[s].batch /\ request'[s].at = "answered"
           /\ request'[s].answer \in {"error", "refused"}
    <3>1. Answer(s, "error") \/ Answer(s, "refused")
      BY <1>11 DEF ServerError, Refuse
    <3>2. TypeOK
      BY DEF IInv
    <3> QED BY <3>1, <3>2, AnswerEffect
  <2>3. Sound(request[s])'
    BY <1>2, <2>1, <2>2 DEF Sound
  <2>4. \A t \in Slots \ {s} : request'[t] = request[t]
    BY <1>11 DEF ServerError, Refuse, Answer, IInv, TypeOK
  <2> QED BY <1>1, <2>3, <2>4 DEF AnswersAreSound
<1>12. ASSUME NEW s \in Slots, Lose(s) PROVE AnswersAreSound'
  <2>1. \A t \in Slots : request'[t] = request[t] \/ request'[t] = Empty
    BY <1>12 DEF Lose, IInv, TypeOK
  <2> QED BY <1>1, <1>2, <2>1 DEF AnswersAreSound
<1> QED
  BY <1>4, <1>5, <1>6, <1>7, <1>8, <1>9, <1>10, <1>11, <1>12
     DEF Next, WorkerStep, BackendStep

(* The worker waits for the batch it holds. *)
LEMMA WaitsForHeldStep ==
    ASSUME IInv, [Next]_vars
    PROVE  WaitsForHeld'
<1> USE DEF WaitsForHeld
<1>0. TypeOK /\ WorkerState /\ WaitsForHeld
  BY DEF IInv
<1>1. ASSUME UNCHANGED <<worker, held, call>>,
             worker = "waiting" =>
                 \/ request'[call].at = "free"
                 \/ request'[call].at = request[call].at /\ request'[call].batch = request[call].batch
                 \/ request[call].at # "free" /\ request'[call].batch = request[call].batch
      PROVE  WaitsForHeld'
  BY <1>0, <1>1
<1>2. CASE PipelineStep
  BY <1>1, <1>2, PipelineFrame
<1>3. CASE Post
  BY <1>0, <1>3 DEF Post, TypeOK
<1>4. CASE \/ \E b \in Batches : MarkSending(b)
           \/ SyncSending \/ GetAnswer \/ Timeout \/ SyncSettled \/ Crash
  BY <1>4 DEF MarkSending, SyncSending, GetAnswer, Timeout, Settle, Retry, SyncSettled, Crash
<1>5. ASSUME NEW s \in Slots, BackendStep(s) PROVE WaitsForHeld'
  <2>1. call \in Slots \/ worker # "waiting"
    BY <1>0 DEF WorkerState
  <2>2. \A t \in Slots :
            \/ request'[t].at = "free"
            \/ request'[t] = request[t]
            \/ request[t].at # "free" /\ request'[t].batch = request[t].batch
    <3>1. \A t \in Slots : request[t] \in Requests
      BY <1>0 DEF TypeOK
    <3>2. CASE Receive(s)
      BY <1>0, <3>1, <3>2 DEF Receive, TypeOK, Requests
    <3>3. ASSUME NEW answer, Answer(s, answer), request[s].at # "free"
          PROVE  \A t \in Slots :
                     \/ request'[t].at = "free"
                     \/ request'[t] = request[t]
                     \/ request[t].at # "free" /\ request'[t].batch = request[t].batch
      BY <1>0, <3>1, <3>3 DEF Answer, Empty, TypeOK, Requests
    <3>4. CASE Promote(s) \/ ServerError(s) \/ Refuse(s)
      BY <3>3, <3>4 DEF Promote, ServerError, Refuse
    <3>5. CASE Lose(s)
      BY <1>0, <3>5 DEF Lose, Empty, TypeOK
    <3> QED BY <1>5, <3>2, <3>4, <3>5 DEF BackendStep
  <2> QED BY <1>0, <1>1, <1>5, <2>1, <2>2, BackendFrame
<1>6. CASE Start \/ (\E b \in Batches : BecomeDue(b) \/ ImportAssets(b)) \/ UNCHANGED vars
  <2>1. UNCHANGED <<worker, held, call, request>>
    BY <1>6, TimeFrame DEF Start, workerVars, vars
  <2> QED BY <1>1, <2>1
<1> QED BY <1>2, <1>3, <1>4, <1>5, <1>6 DEF Next, WorkerStep

(* A batch is marked sent when its own answer says so. *)
LEMMA SentIsDeliveredStep ==
    ASSUME IInv, [Next]_vars
    PROVE  SentIsDelivered'
<1>0. TypeOK /\ WorkerState /\ SentIsDelivered
  BY DEF IInv
<1>1. \A b \in Batches : Delivered(b) => Delivered(b)'
  BY DeliveredStays DEF Delivered
<1>2. ASSUME \A b \in Batches : item'[b] = "sent" => item[b] = "sent"
      PROVE  SentIsDelivered'
  BY <1>0, <1>1, <1>2 DEF SentIsDelivered
<1>3. CASE PipelineStep
  <2>1. \A b \in Batches : item'[b] = "sent" => item[b] = "sent"
    BY <1>0, <1>3 DEF PipelineStep, StartRun, SaveStages, StageFails, Publish, PublishRaises,
       Complete, SaveRun, MarkSucceeded, outbox, TypeOK
  <2> QED BY <1>2, <2>1
<1>4. CASE GetAnswer
  <2>1. held \in Batches /\ request[call].batch = held
    BY <1>0, <1>4 DEF GetAnswer, WorkerState, IInv, WaitsForHeld
  <2>2. request[call].answer \in {"accepted", "duplicate"} => Delivered(held)
    BY <1>0, <1>4, <2>1 DEF GetAnswer, WorkerState, IInv, AnswersAreSound, Sound
  <2>3. \A b \in Batches : b # held => item'[b] = item[b]
    BY <1>0, <1>4 DEF GetAnswer, Settle, Retry, TypeOK
  <2>4. item'[held] = "sent" => request[call].answer \in {"accepted", "duplicate"}
    BY <1>0, <1>4, <2>1 DEF GetAnswer, Settle, Retry, TypeOK
  <2> QED BY <1>0, <1>1, <2>2, <2>3, <2>4 DEF SentIsDelivered
<1>5. CASE \/ \E b \in Batches : MarkSending(b)
           \/ SyncSending \/ Post \/ Timeout \/ SyncSettled \/ Crash \/ Start
           \/ UNCHANGED vars
  <2>1. \A b \in Batches : item'[b] = "sent" => item[b] = "sent"
    BY <1>0, <1>5 DEF MarkSending, SyncSending, Post, Timeout, Settle, Retry, SyncSettled, Crash,
       Start, Interrupted, outbox, vars, TypeOK
  <2> QED BY <1>2, <2>1
<1>6. CASE \/ \E s \in Slots : BackendStep(s)
           \/ \E b \in Batches : BecomeDue(b) \/ ImportAssets(b)
  BY <1>2, <1>6, BackendFrame, TimeFrame
<1> QED BY <1>3, <1>4, <1>5, <1>6 DEF Next, WorkerStep

(* An outbox file stays, and checkpoint 5 comes after the last of them. *)
LEMMA PublishedStep ==
    ASSUME IInv, [Next]_vars
    PROVE  (PublishedSoFar /\ CompletedRunIsPublished)'
<1> USE DEF PublishedSoFar, CompletedRunIsPublished
<1>0. TypeOK /\ WorkerState /\ PublishedSoFar /\ CompletedRunIsPublished
  BY DEF IInv
<1>1. \A b \in Batches : item[b] # "absent" => item'[b] # "absent"
  <2>1. CASE PipelineStep
    BY <1>0, <2>1 DEF PipelineStep, StartRun, SaveStages, StageFails, Publish, PublishRaises,
       Complete, SaveRun, MarkSucceeded, outbox, TypeOK
  <2>2. CASE WorkerStep
    BY <1>0, <2>2 DEF WorkerStep, MarkSending, SyncSending, Post, GetAnswer, Timeout, Settle,
       Retry, SyncSettled, outbox, TypeOK
  <2>3. CASE Crash \/ Start \/ UNCHANGED vars
    BY <2>3 DEF Crash, Start, outbox, vars
  <2> QED BY <2>1, <2>2, <2>3, BackendFrame, TimeFrame DEF Next
<1>2. ASSUME checkpoint' = checkpoint PROVE CompletedRunIsPublished'
  BY <1>0, <1>1, <1>2
<1>3. CASE StartRun
  BY <1>0, <1>1, <1>2, <1>3 DEF StartRun, TypeOK
<1>4. CASE SaveStages \/ StageFails \/ PublishRaises \/ SaveRun \/ MarkSucceeded
  BY <1>2, <1>4 DEF SaveStages, StageFails, PublishRaises, SaveRun, MarkSucceeded
<1>5. ASSUME NEW b \in Batches, Publish(b) PROVE (PublishedSoFar /\ CompletedRunIsPublished)'
  <2>1. item'[b] # "absent"
    BY <1>0, <1>5 DEF Publish, TypeOK
  <2>2. stage' = stage /\ todo' = todo \ {b} /\ checkpoint' = checkpoint
    BY <1>5 DEF Publish
  <2> QED BY <1>0, <1>1, <1>2, <2>1, <2>2
<1>6. CASE Complete
  BY <1>0, <1>1, <1>6 DEF Complete, TypeOK
<1>7. CASE WorkerStep \/ Start \/ UNCHANGED vars
  <2>1. UNCHANGED <<stage, todo, checkpoint>>
    BY <1>7 DEF WorkerStep, MarkSending, SyncSending, Post, GetAnswer, Timeout, SyncSettled,
       Start, pipeline, vars
  <2> QED BY <1>0, <1>1, <1>2, <2>1
<1>8. CASE Crash
  BY <1>2, <1>8, RestartFrame DEF Crash
<1>9. CASE \/ \E s \in Slots : BackendStep(s)
           \/ \E b \in Batches : BecomeDue(b) \/ ImportAssets(b)
  BY <1>0, <1>9, BackendFrame, TimeFrame
<1> QED BY <1>3, <1>4, <1>5, <1>6, <1>7, <1>8, <1>9 DEF Next, PipelineStep

(* Only an accepted batch is promoted, and it stays accepted. *)
LEMMA PromotedIsAcceptedStep ==
    ASSUME IInv, [Next]_vars
    PROVE  PromotedIsAccepted'
<1>1. /\ \A b \in Batches : inbox[b] # "none" => inbox'[b] = inbox[b]
      /\ promoted \subseteq Batches /\ PromotedIsAccepted
  BY DeliveredStays DEF IInv, TypeOK
<1>2. promoted' = promoted => PromotedIsAccepted'
  BY <1>1 DEF PromotedIsAccepted
<1>3. ASSUME NEW s \in Slots, Promote(s) PROVE PromotedIsAccepted'
  BY <1>1, <1>3 DEF Promote, PromotedIsAccepted
<1>4. CASE PipelineStep \/ Crash \/ Start \/ UNCHANGED vars
  BY <1>2, <1>4, PipelineFrame, RestartFrame DEF vars
<1>5. CASE WorkerStep
  BY <1>2, <1>5 DEF WorkerStep, MarkSending, SyncSending, Post, GetAnswer, Timeout, SyncSettled,
     backend
<1>6. ASSUME NEW s \in Slots, Receive(s) \/ ServerError(s) \/ Refuse(s) \/ Lose(s)
      PROVE  PromotedIsAccepted'
  BY <1>2, <1>6 DEF Receive, ServerError, Refuse, Lose, backend
<1>7. CASE \E b \in Batches : BecomeDue(b) \/ ImportAssets(b)
  BY <1>2, <1>7, TimeFrame
<1> QED BY <1>3, <1>4, <1>5, <1>6, <1>7 DEF Next, BackendStep

-----------------------------------------------------------------------------
LEMMA IInvStep == ASSUME IInv, [Next]_vars PROVE IInv'
BY TypeStep, WorkerStateStep, AttemptsLeftStep, AnswersAreSoundStep, WaitsForHeldStep,
   SentIsDeliveredStep, PublishedStep, PromotedIsAcceptedStep DEF IInv

LEMMA Invariant == Spec => []IInv
BY InitIInv, IInvStep, PTL DEF Spec

(* Whatever is lost, delayed, repeated or interrupted, the outbox files,   *)
(* the requests and the Backend's tables hold what they may hold.          *)
THEOREM DeliveryTypeCorrect == Spec => []TypeOK
<1>1. IInv => TypeOK
  BY DEF IInv
<1> QED BY <1>1, Invariant, PTL

(* A batch that is marked sent is stored by the Backend, and one that was  *)
(* accepted has its product result, also if the Backend died between       *)
(* storing and promoting it.                                               *)
THEOREM DeliverySentIsInBackend == Spec => []SentIsInBackend
<1>1. IInv => SentIsInBackend
  BY DEF IInv, SentIsDelivered, Delivered, SentIsInBackend
<1> QED BY <1>1, Invariant, PTL

(* A run whose checkpoint is completed has an outbox file for every batch. *)
THEOREM DeliveryCompletedRunIsPublished == Spec => []CompletedRunIsPublished
<1>1. IInv => CompletedRunIsPublished
  BY DEF IInv
<1> QED BY <1>1, Invariant, PTL

(* No step changes the status or the run of a settled batch: the worker    *)
(* settles only what it is sending, and a run registers only what is new.  *)
THEOREM DeliverySettledForGood == Spec => SettledForGood
<1> DEFINE Stays ==
      \A b \in Batches : item[b] \in Settled => item'[b] = item[b] /\ itemRun'[b] = itemRun[b]
<1>1. ASSUME IInv, [Next]_vars PROVE Stays
  <2> USE DEF Settled, outbox, workerVars
  <2>0. item \in [Batches -> ItemStatuses] /\ itemRun \in [Batches -> Runs]
    BY <1>1 DEF IInv, TypeOK
  <2>1. CASE PipelineStep
    <3>1. ASSUME NEW b \in Batches, Publish(b) PROVE Stays
      <4>1. CASE item[b] = "absent"
        BY <2>0, <3>1, <4>1 DEF Publish
      <4>2. CASE item[b] # "absent"
        BY <3>1, <4>2 DEF Publish
      <4> QED BY <4>1, <4>2
    <3>2. (\E b \in Batches : Publish(b)) \/ UNCHANGED <<item, itemRun>>
      BY <2>1 DEF PipelineStep, StartRun, SaveStages, StageFails, PublishRaises, Complete,
         SaveRun, MarkSucceeded
    <3> QED BY <3>1, <3>2
  <2>2. ASSUME NEW b \in Batches, MarkSending(b) PROVE Stays
    BY <2>0, <2>2 DEF MarkSending, Ready
  <2>3. CASE SyncSending \/ Post \/ SyncSettled
    BY <2>3 DEF SyncSending, Post, SyncSettled
  <2>4. CASE GetAnswer \/ Timeout
    <3>1. item[held] = "sending" /\ itemRun' = itemRun
      BY <1>1, <2>4 DEF GetAnswer, Timeout, IInv, WorkerState
    <3>2. \E status \in {"retry_wait", "sent", "failed"} : Settle(held, status)
      BY <2>4 DEF GetAnswer, Timeout, Retry
    <3>3. \A b \in Batches : b # held => item'[b] = item[b]
      BY <2>0, <3>2 DEF Settle
    <3> QED BY <3>1, <3>3
  <2>5. CASE Crash \/ Start
    BY <2>5 DEF Crash, Start, Interrupted
  <2>6. ASSUME NEW s \in Slots, BackendStep(s) PROVE Stays
    BY <2>6 DEF BackendStep, Receive, Promote, ServerError, Refuse, Lose
  <2>7. CASE \E b \in Batches : BecomeDue(b) \/ ImportAssets(b)
    <3>1. UNCHANGED <<item, itemRun>>
      BY <2>7 DEF BecomeDue, ImportAssets
    <3> QED BY <3>1
  <2>8. CASE UNCHANGED vars
    BY <2>8 DEF vars
  <2> QED BY <1>1, <2>1, <2>2, <2>3, <2>4, <2>5, <2>6, <2>7, <2>8 DEF Next, WorkerStep
<1>2. IInv /\ [Next]_vars => [Stays]_vars
  BY <1>1
<1> QED BY <1>2, Invariant, PTL DEF Spec, SettledForGood

-----------------------------------------------------------------------------
(* Nobody new is told, and the Backend keeps its tables: the caller may at *)
(* most have forgotten.                                                    *)
LEMMA ForgetStep ==
    ASSUME UNCHANGED <<inbox, promoted>>,
           \A s \in Slots : \/ request'[s] = request[s]
                           \/ request'[s].at # "answered"
                           \/ request'[s].answer \in {"error", "refused"}
    PROVE  Receipt!Next
<1>1. Told' \subseteq Told
  BY DEF Told
<1>2. UNCHANGED <<inbox, Owing>>
  BY DEF Owing
<1> QED BY <1>1, <1>2 DEF Receipt!Next, Receipt!Forget

(* A receipt decides, or finds its batch decided. *)
LEMMA ReceiveStep ==
    ASSUME IInv, NEW s \in Slots, Receive(s)
    PROVE  Receipt!Next
<1> DEFINE b == request[s].batch
<1>1. /\ b \in Batches /\ request[s].at = "posted" /\ promoted' = promoted
      /\ inbox' = [inbox EXCEPT ![b] = IF @ = "none" THEN Verdict(b) ELSE @]
      /\ inbox \in [Batches -> {"none", "accepted", "rejected"}]
  BY DEF Receive, IInv, AnswersAreSound, Sound, TypeOK
<1>2. /\ request'[s].at = "received"
      /\ \A t \in Slots : t # s => request'[t] = request[t]
  BY DEF Receive, IInv, TypeOK, Requests
<1>3. CASE inbox[b] # "none"
  <2>1. inbox' = inbox
    BY <1>1, <1>3
  <2> QED BY <1>1, <1>2, <2>1, ForgetStep
<1>4. CASE inbox[b] = "none"
  <2>1. b \notin promoted /\ b \notin Owing
    BY <1>4 DEF IInv, PromotedIsAccepted, Owing
  <2>2. Told' = Told
    BY <1>1, <1>2 DEF Told
  <2>3. \/ inbox' = [inbox EXCEPT ![b] = "accepted"]
        \/ inbox' = [inbox EXCEPT ![b] = "rejected"]
    BY <1>1, <1>4 DEF Verdict
  <2>4. CASE inbox' = [inbox EXCEPT ![b] = "accepted"]
    <3>1. Owing' = Owing \cup ({b} \cap Batches)
      BY <1>1, <2>1, <2>4 DEF Owing
    <3>2. Receipt!Decide(b)
      BY <1>4, <2>2, <2>4, <3>1 DEF Receipt!Decide
    <3> QED BY <1>1, <3>2 DEF Receipt!Next
  <2>5. CASE inbox' = [inbox EXCEPT ![b] = "rejected"]
    <3>1. Owing' = Owing
      BY <1>1, <1>4, <2>5 DEF Owing
    <3>2. Receipt!Decide(b)
      BY <1>4, <2>2, <2>5, <3>1 DEF Receipt!Decide
    <3> QED BY <1>1, <3>2 DEF Receipt!Next
  <2> QED BY <2>3, <2>4, <2>5
<1> QED BY <1>3, <1>4

(* A promotion pays what is owed before its answer tells anybody. *)
LEMMA PromoteStep ==
    ASSUME IInv, NEW s \in Slots, Promote(s)
    PROVE  Receipt!Next
<1> DEFINE b == request[s].batch
           delivers == request[s].answer \in {"accepted", "duplicate"}
<1>1. /\ b \in Batches /\ inbox[b] # "none" /\ request[s].at = "received" /\ inbox' = inbox
      /\ promoted' = IF delivers /\ inbox[b] = "accepted" THEN promoted \cup {b} ELSE promoted
  BY DEF Promote, IInv, AnswersAreSound, Sound
<1>2. /\ \/ request'[s] = Empty
         \/ /\ request'[s].batch = b /\ request'[s].at = "answered"
            /\ request'[s].answer = request[s].answer
      /\ \A t \in Slots : t # s => request'[t] = request[t]
  <2>1. \A t \in Slots : t # s => request'[t] = request[t]
    BY DEF Promote, Answer, IInv, TypeOK
  <2> QED BY <2>1, AnswerEffect DEF Promote, IInv
<1>3. CASE ~delivers
  <2>1. Told' = Told
    BY <1>1, <1>2, <1>3 DEF Told, Empty
  <2>2. UNCHANGED <<inbox, Owing>>
    BY <1>1, <1>3 DEF Owing
  <2> QED BY <2>1, <2>2 DEF Receipt!Next, Receipt!Forget
<1>4. CASE delivers
  <2>1. Owing' = Owing \ {b}
    BY <1>1, <1>4 DEF Owing
  <2>2. Told' = Told \/ Told' = Told \cup {b}
    <3>1. CASE request'[s] = Empty
      BY <1>1, <1>2, <3>1 DEF Told, Empty
    <3>2. CASE request'[s] # Empty
      BY <1>1, <1>2, <1>4, <3>2 DEF Told
    <3> QED BY <3>1, <3>2
  <2>3. Receipt!Promote(b)
    BY <2>1 DEF Receipt!Promote
  <2>4. UNCHANGED Told \/ Receipt!Tell(b)
    BY <1>1, <2>1, <2>2 DEF Receipt!Tell
  <2> QED BY <1>1, <2>3, <2>4 DEF Receipt!Next
<1> QED BY <1>3, <1>4

(* Whatever the network, the Generator and the Backend lose or repeat, the *)
(* Backend decides each batch once, promotes what it has accepted, and     *)
(* answers that a batch was delivered only when nothing of it is owed.     *)
THEOREM DeliveryIsAReceipt == Spec => RefinesReceipt
<1>1. Init => Receipt!Init
  BY DEF Init, Receipt!Init, Owing, Told, Empty
<1>2. ASSUME IInv, [Next]_vars PROVE [Receipt!Next]_<<inbox, Owing, Told>>
  <2>1. CASE PipelineStep \/ (\E b \in Batches : BecomeDue(b) \/ ImportAssets(b))
    BY <2>1, PipelineFrame, TimeFrame, ForgetStep
  <2>2. CASE \/ \E b \in Batches : MarkSending(b)
             \/ SyncSending \/ Timeout \/ SyncSettled \/ Start \/ UNCHANGED vars
    <3>1. UNCHANGED <<inbox, promoted, request>>
      BY <2>2 DEF MarkSending, SyncSending, Timeout, SyncSettled, Start, backend, vars
    <3> QED BY <3>1, ForgetStep
  <2>3. CASE Post
    <3>1. /\ UNCHANGED <<inbox, promoted>>
          /\ \A s \in Slots : request'[s] = request[s] \/ request'[s].at = "posted"
      BY <1>2, <2>3 DEF Post, backend, IInv, TypeOK
    <3> QED BY <3>1, ForgetStep
  <2>4. CASE GetAnswer \/ Crash
    <3>1. /\ UNCHANGED <<inbox, promoted>>
          /\ \A s \in Slots : request'[s] = request[s] \/ request'[s] = Empty
      BY <1>2, <2>4 DEF GetAnswer, Crash, backend, IInv, TypeOK
    <3> QED BY <3>1, ForgetStep DEF Empty
  <2>5. ASSUME NEW s \in Slots, ServerError(s) \/ Refuse(s) \/ Lose(s) PROVE Receipt!Next
    <3>1. UNCHANGED <<inbox, promoted>>
      BY <2>5 DEF ServerError, Refuse, Lose, backend
    <3>2. \A t \in Slots : t # s => request'[t] = request[t]
      BY <1>2, <2>5 DEF ServerError, Refuse, Lose, Answer, IInv, TypeOK
    <3>3. request'[s] = Empty \/ request'[s].answer \in {"error", "refused"}
      <4>1. CASE ServerError(s)
        BY <1>2, <4>1, AnswerEffect DEF ServerError, IInv
      <4>2. CASE Refuse(s)
        BY <1>2, <4>2, AnswerEffect DEF Refuse, IInv
      <4>3. CASE Lose(s)
        BY <1>2, <4>3 DEF Lose, IInv, TypeOK
      <4> QED BY <2>5, <4>1, <4>2, <4>3
    <3> QED BY <3>1, <3>2, <3>3, ForgetStep DEF Empty
  <2> QED
    BY <1>2, <2>1, <2>2, <2>3, <2>4, <2>5, ReceiveStep, PromoteStep
    DEF Next, WorkerStep, BackendStep
<1> QED BY <1>1, <1>2, Invariant, PTL DEF Spec, RefinesReceipt, Receipt!Spec
=============================================================================
