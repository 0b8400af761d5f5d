----------------------------- MODULE HandoffProofs -----------------------------
(***************************************************************************)
(* Part one, the queue of PipelineQueue.  For any sources, attempt limit,  *)
(* number of rows and number of crashes: at most the worker's own job is   *)
(* running, live files are processed in the order they arrived, a source   *)
(* has one row that carries its identity, and a job that ended stays as it *)
(* ended.  What makes the checked invariants inductive is what the worker  *)
(* holds between two actions (WorkerState), the attempts a restart may     *)
(* still add (AttemptsBounded) and that success follows production         *)
(* (SucceededAreComputed).                                                 *)
(*                                                                         *)
(* Part two, the handoffs that feed it.  For any datasets, threads,        *)
(* retries, faults and crashes: the handoffs stay type correct, a handoff  *)
(* saved as enqueued has one job of its own, and nothing is given up       *)
(* without a fault unless its dataset is in the queue.  The queue's        *)
(* invariant of part one is part of the inductive invariant; the rest says *)
(* of what a thread has in memory what the properties say of the files.    *)
(***************************************************************************)
EXTENDS Handoff, TLAPS

(* The worker is busy exactly with a running row, and only while it is up. *)
WorkerState ==
    /\ stage = "idle" <=> current = 0
    /\ stage # "idle" => up /\ current \in Jobs /\ status[current] = "running"
    /\ stage = "backoff" => attempt[current] < MaxAttempts
    /\ stage = "executed" => sourceOf[current] \in computed

(* A process that is down may still add one attempt when it starts. *)
AttemptsBounded ==
    \A j \in Jobs : attempt[j] + (IF up THEN 0 ELSE 1) <= MaxAttempts + crashes

SucceededAreComputed == \A j \in Jobs : status[j] = "succeeded" => sourceOf[j] \in computed

QueueIInv ==
    /\ TypeOK
    /\ WorkerState
    /\ AttemptsBounded
    /\ SucceededAreComputed
    /\ RunningIsHeld
    /\ LiveInArrivalOrder
    /\ OneOwnerPerSource

-----------------------------------------------------------------------------
(* The rows are 1..last, and a row to add is a job that does not exist. *)
LEMMA QueueRowFacts ==
    ASSUME TypeOK
    PROVE  /\ Added \subseteq Jobs
           /\ last \in Nat /\ 0 \notin Jobs
           /\ \A j \in Jobs : j \in Added <=> j <= last
           /\ last < MaxJobs => last + 1 \in Jobs /\ status[last + 1] = "absent"
BY QueueAssumption DEF TypeOK, Added, Jobs

LEMMA QueueInitIInv == ASSUME Init PROVE QueueIInv
<1>1. Added = {}
  BY DEF Init, Added
<1>2. TypeOK
  BY <1>1, QueueAssumption DEF Init, TypeOK, Jobs, Statuses, Stages
<1>3. AttemptsBounded
  BY QueueAssumption DEF Init, AttemptsBounded, Jobs
<1> QED
  BY <1>1, <1>2, <1>3 DEF Init, QueueIInv, WorkerState, SucceededAreComputed, RunningIsHeld,
     LiveInArrivalOrder, IsLive, OneOwnerPerSource, Jobs

(* What both ways of adding a row keep, whoever owns the source. *)
LEMMA AddRowKeeps ==
    ASSUME QueueIInv, NEW s \in Sources, AddRow(s), up,
           owner' \in [Jobs -> BOOLEAN]
    PROVE  /\ TypeOK' /\ WorkerState' /\ AttemptsBounded' /\ SucceededAreComputed'
           /\ RunningIsHeld' /\ LiveInArrivalOrder'
<1> DEFINE new == last + 1
<1>1. new \in Jobs /\ status[new] = "absent" /\ last \in Nat /\ Added \subseteq Jobs
  BY QueueRowFacts DEF QueueIInv, AddRow
<1>2. Added' = Added \cup {new}
  BY <1>1 DEF AddRow, Added
<1>3. /\ status'[new] = "queued" /\ sourceOf'[new] = s /\ attempt'[new] = 1
      /\ \A j \in Jobs \ {new} : /\ status'[j] = status[j]
                                 /\ sourceOf'[j] = sourceOf[j]
                                 /\ attempt'[j] = attempt[j]
  BY <1>1 DEF AddRow, QueueIInv, TypeOK
<1>4. current # new
  BY <1>1 DEF QueueIInv, TypeOK
<1>5. TypeOK'
  <2>1. /\ last' \in 0..MaxJobs /\ current' \in 0..last'
        /\ up' \in BOOLEAN /\ stage' \in Stages
        /\ computed' \subseteq Sources /\ crashes' \in 0..MaxCrashes
    BY <1>1, QueueAssumption DEF AddRow, QueueIInv, TypeOK
  <2>2. status' \in [Jobs -> Statuses] /\ sourceOf' \in [Jobs -> Sources]
    BY <1>1 DEF AddRow, QueueIInv, TypeOK, Statuses
  <2>3. attempt' \in [Jobs -> 0..(MaxAttempts + MaxCrashes)]
    BY <1>1, QueueAssumption DEF AddRow, QueueIInv, TypeOK
  <2>4. \A j \in Jobs : j \in Added' <=> status'[j] # "absent"
    BY <1>1, <1>2, <1>3 DEF QueueIInv, TypeOK
  <2> QED BY <2>1, <2>2, <2>3, <2>4 DEF TypeOK
<1>6. WorkerState'
  BY <1>3, <1>4 DEF AddRow, QueueIInv, WorkerState
<1>7. AttemptsBounded'
  BY <1>1, <1>3, QueueAssumption DEF AddRow, QueueIInv, TypeOK, AttemptsBounded
<1>8. SucceededAreComputed' /\ RunningIsHeld'
  BY <1>1, <1>3 DEF AddRow, QueueIInv, SucceededAreComputed, RunningIsHeld
<1>9. LiveInArrivalOrder'
  <2> SUFFICES ASSUME NEW i \in Jobs, NEW j \in Jobs, IsLive(i)', IsLive(j)', i < j,
                      status'[j] # "queued"
               PROVE  status'[i] \in Terminal
    BY DEF LiveInArrivalOrder, Terminal
  <2>1. j # new /\ j \in Added /\ i \in Added /\ i # new
    BY <1>1, <1>2, <1>3 DEF IsLive, Added, Jobs
  <2> QED BY <1>3, <2>1 DEF IsLive, QueueIInv, LiveInArrivalOrder
<1> QED BY <1>5, <1>6, <1>7, <1>8, <1>9

LEMMA QueueEnqueueKeeps == ASSUME QueueIInv, NEW s \in Sources, Enqueue(s) PROVE QueueIInv'
<1> DEFINE new == last + 1
<1>1. new \in Jobs /\ new \notin Added /\ Added \subseteq Jobs /\ Added' = Added \cup {new}
  BY QueueRowFacts DEF QueueIInv, Enqueue, AddRow, Added
<1>2. /\ sourceOf'[new] = s /\ owner'[new]
      /\ \A j \in Added : sourceOf'[j] = sourceOf[j] /\ owner'[j] = owner[j]
  BY <1>1 DEF Enqueue, AddRow, QueueIInv, TypeOK
<1>3. owner' \in [Jobs -> BOOLEAN]
  BY <1>1 DEF Enqueue, QueueIInv, TypeOK
<1>4. \A j \in Added : sourceOf[j] # s
  BY DEF Enqueue, Registered, QueueIInv, OneOwnerPerSource
<1>5. OneOwnerPerSource'
  <2> SUFFICES ASSUME NEW j \in Added'
               PROVE  \E i \in Added' :
                        /\ sourceOf'[i] = sourceOf'[j] /\ owner'[i]
                        /\ \A k \in Added' : sourceOf'[k] = sourceOf'[j] /\ owner'[k] => k = i
    BY DEF OneOwnerPerSource
  <2>1. CASE j = new
    BY <1>1, <1>2, <1>4, <2>1
  <2>2. CASE j \in Added
    <3>1. PICK i \in Added :
            /\ sourceOf[i] = sourceOf[j] /\ owner[i]
            /\ \A k \in Added : sourceOf[k] = sourceOf[j] /\ owner[k] => k = i
      BY <2>2 DEF QueueIInv, OneOwnerPerSource
    <3> QED BY <1>1, <1>2, <1>4, <2>2, <3>1
  <2> QED BY <1>1, <2>1, <2>2
<1> QED BY <1>3, <1>5, AddRowKeeps DEF Enqueue, QueueIInv

LEMMA QueueRetryFailedKeeps == ASSUME QueueIInv, NEW j \in Jobs, RetryFailed(j) PROVE QueueIInv'
<1> DEFINE new == last + 1
           s == sourceOf[j]
<1>1. /\ new \in Jobs /\ new \notin Added /\ Added \subseteq Jobs /\ Added' = Added \cup {new}
      /\ j \in Added /\ j # new /\ s \in Sources
  BY QueueRowFacts DEF QueueIInv, TypeOK, RetryFailed, AddRow, Added
<1>2. /\ sourceOf'[new] = s /\ owner'[new] = owner[j] /\ owner'[j] = FALSE
      /\ \A k \in Added : sourceOf'[k] = sourceOf[k]
      /\ \A k \in Added \ {j} : owner'[k] = owner[k]
  BY <1>1 DEF RetryFailed, AddRow, QueueIInv, TypeOK
<1>3. owner' \in [Jobs -> BOOLEAN]
  BY <1>1 DEF RetryFailed, QueueIInv, TypeOK
<1>4. OneOwnerPerSource'
  <2> SUFFICES ASSUME NEW k \in Added'
               PROVE  \E i \in Added' :
                        /\ sourceOf'[i] = sourceOf'[k] /\ owner'[i]
                        /\ \A m \in Added' : sourceOf'[m] = sourceOf'[k] /\ owner'[m] => m = i
    BY DEF OneOwnerPerSource
  <2>1. PICK o \in Added : sourceOf[o] = sourceOf'[k]
    BY <1>1, <1>2
  <2>2. PICK i \in Added :
          /\ sourceOf[i] = sourceOf'[k] /\ owner[i]
          /\ \A m \in Added : sourceOf[m] = sourceOf'[k] /\ owner[m] => m = i
    BY <2>1 DEF QueueIInv, OneOwnerPerSource
  <2>3. CASE i = j
    BY <1>1, <1>2, <2>2, <2>3
  <2>4. CASE i # j
    BY <1>1, <1>2, <2>2, <2>4
  <2> QED BY <2>3, <2>4
<1> QED BY <1>1, <1>3, <1>4, AddRowKeeps DEF RetryFailed, QueueIInv

-----------------------------------------------------------------------------
(* A step that only moves rows between statuses keeps the owners. *)
LEMMA OwnersKept ==
    ASSUME OneOwnerPerSource, UNCHANGED <<last, sourceOf, owner>>
    PROVE  OneOwnerPerSource'
BY DEF OneOwnerPerSource, Added

(* The chosen job is the first in the order of claim_next, and nothing     *)
(* else runs: every earlier live job has ended.                            *)
LEMMA QueueClaimNextKeeps == ASSUME QueueIInv, ClaimNext PROVE QueueIInv'
<1>1. PICK j \in Added :
        /\ status[j] = "queued"
        /\ \A i \in Added : status[i] = "queued" => GoesBefore(j, i)
        /\ status' = [status EXCEPT ![j] = "running"]
        /\ current' = j
  BY DEF ClaimNext
<1>2. j \in Jobs /\ j # 0 /\ Added \subseteq Jobs /\ 0 \notin Jobs
  BY <1>1, QueueRowFacts DEF QueueIInv
<1>3. \A i \in Jobs : status[i] # "running"
  BY <1>2 DEF QueueIInv, RunningIsHeld, WorkerState, ClaimNext
<1>4. status'[j] = "running" /\ \A i \in Jobs \ {j} : status'[i] = status[i]
  BY <1>1, <1>2 DEF QueueIInv, TypeOK
<1>5. TypeOK'
  <2>1. status' \in [Jobs -> Statuses]
    BY <1>1, <1>2 DEF QueueIInv, TypeOK, Statuses
  <2>2. current' \in 0..last'
    BY <1>1 DEF ClaimNext, Added, QueueIInv, TypeOK
  <2>3. \A i \in Jobs : i \in Added' <=> status'[i] # "absent"
    BY <1>1, <1>4 DEF ClaimNext, Added, QueueIInv, TypeOK
  <2> QED BY <2>1, <2>2, <2>3 DEF ClaimNext, QueueIInv, TypeOK, Stages
<1>6. WorkerState'
  BY <1>1, <1>2, <1>4 DEF ClaimNext, WorkerState
<1>7. AttemptsBounded'
  BY DEF ClaimNext, QueueIInv, AttemptsBounded
<1>8. SucceededAreComputed' /\ RunningIsHeld'
  BY <1>1, <1>3, <1>4 DEF ClaimNext, QueueIInv, SucceededAreComputed, RunningIsHeld
<1>9. LiveInArrivalOrder'
  <2> SUFFICES ASSUME NEW i \in Jobs, NEW k \in Jobs, IsLive(i)', IsLive(k)', i < k,
                      status'[k] # "queued"
               PROVE  status'[i] \in Terminal
    BY DEF LiveInArrivalOrder, Terminal
  <2>1. IsLive(i) /\ IsLive(k)
    BY DEF ClaimNext, IsLive, Added
  <2>2. CASE k = j
    <3>1. ~GoesBefore(j, i)
      BY <2>1, <2>2 DEF GoesBefore, Promoted, IsLive, Jobs
    <3>2. status[i] # "queued" /\ status[i] # "absent" /\ status[i] # "running"
      BY <1>1, <1>3, <2>1, <3>1 DEF IsLive, QueueIInv, TypeOK
    <3>3. status[i] \in Terminal
      BY <3>2 DEF QueueIInv, TypeOK, Statuses, Terminal
    <3>4. i # j
      BY <1>1, <3>2
    <3> QED BY <1>4, <3>3, <3>4
  <2>3. CASE k # j
    BY <1>1, <1>4, <2>1, <2>3 DEF QueueIInv, LiveInArrivalOrder, Terminal
  <2> QED BY <2>2, <2>3
<1> QED BY <1>5, <1>6, <1>7, <1>8, <1>9, OwnersKept DEF ClaimNext, QueueIInv

LEMMA QueueExecuteKeeps == ASSUME QueueIInv, Execute PROVE QueueIInv'
<1>1. current \in Jobs /\ sourceOf[current] \in Sources
  BY DEF Execute, QueueIInv, WorkerState, TypeOK
<1>2. TypeOK'
  BY <1>1 DEF Execute, rows, QueueIInv, TypeOK, Stages, Added
<1>3. WorkerState'
  BY DEF Execute, rows, QueueIInv, WorkerState
<1>4. AttemptsBounded' /\ SucceededAreComputed'
  BY DEF Execute, rows, QueueIInv, AttemptsBounded, SucceededAreComputed
<1>5. RunningIsHeld' /\ LiveInArrivalOrder'
  BY DEF Execute, rows, QueueIInv, RunningIsHeld, LiveInArrivalOrder, IsLive, Added
<1> QED BY <1>2, <1>3, <1>4, <1>5, OwnersKept DEF Execute, rows, QueueIInv

(* The worker leaves its row: in any status but "running" and "absent",    *)
(* with at most the attempt of a backoff more.                             *)
LEMMA LeaveRow ==
    ASSUME QueueIInv, stage # "idle",
           NEW outcome \in {"queued", "succeeded", "failed"},
           status' = [status EXCEPT ![current] = outcome],
           outcome = "succeeded" => stage = "executed",
           \/ attempt' = attempt
           \/ stage = "backoff" /\ attempt' = [attempt EXCEPT ![current] = @ + 1],
           stage' = "idle", current' = 0,
           UNCHANGED <<last, sourceOf, owner, up, computed, crashes>>
    PROVE  QueueIInv'
<1>1. current \in Jobs /\ status[current] = "running" /\ up /\ 0 \notin Jobs
  BY QueueRowFacts DEF QueueIInv, WorkerState
<1>2. status'[current] = outcome /\ \A i \in Jobs \ {current} : status'[i] = status[i]
  BY <1>1 DEF QueueIInv, TypeOK
<1>3. \A i \in Jobs : attempt'[i] \in Nat /\ attempt'[i] <= MaxAttempts + crashes
  BY <1>1, QueueAssumption DEF QueueIInv, TypeOK, AttemptsBounded, WorkerState
<1>4. TypeOK'
  <2>1. status' \in [Jobs -> Statuses]
    BY <1>1 DEF QueueIInv, TypeOK, Statuses
  <2>2. attempt' \in [Jobs -> 0..(MaxAttempts + MaxCrashes)]
    <3>1. \A i \in Jobs : attempt'[i] \in 0..(MaxAttempts + MaxCrashes)
      BY <1>3, QueueAssumption DEF QueueIInv, TypeOK
    <3>2. attempt' = [i \in Jobs |-> attempt'[i]]
      BY DEF QueueIInv, TypeOK
    <3> QED BY <3>1, <3>2
  <2>3. \A i \in Jobs : i \in Added' <=> status'[i] # "absent"
    BY <1>1, <1>2 DEF Added, QueueIInv, TypeOK
  <2>4. current' \in 0..last' /\ stage' \in Stages
    BY DEF QueueIInv, TypeOK, Stages
  <2> QED BY <2>1, <2>2, <2>3, <2>4 DEF QueueIInv, TypeOK
<1>5. WorkerState' /\ AttemptsBounded'
  BY <1>1, <1>3 DEF WorkerState, AttemptsBounded
<1>6. SucceededAreComputed' /\ RunningIsHeld'
  BY <1>1, <1>2 DEF QueueIInv, SucceededAreComputed, RunningIsHeld, WorkerState
<1>7. LiveInArrivalOrder'
  <2> SUFFICES ASSUME NEW i \in Jobs, NEW j \in Jobs, IsLive(i)', IsLive(j)', i < j,
                      status'[j] # "queued"
               PROVE  status'[i] \in Terminal
    BY DEF LiveInArrivalOrder, Terminal
  <2>1. IsLive(i) /\ IsLive(j)
    BY DEF IsLive, Added
  <2>2. status[j] # "queued"
    BY <1>1, <1>2
  <2>3. status[i] \in Terminal
    BY <2>1, <2>2 DEF QueueIInv, LiveInArrivalOrder
  <2>4. i # current
    BY <1>1, <2>3 DEF Terminal
  <2> QED BY <1>2, <2>3, <2>4
<1> QED BY <1>4, <1>5, <1>6, <1>7, OwnersKept DEF QueueIInv

LEMMA QueueCrashKeeps == ASSUME QueueIInv, Crash PROVE QueueIInv'
<1>0. last \in Nat /\ crashes' \in 0..MaxCrashes
  BY QueueAssumption DEF Crash, QueueIInv, TypeOK
<1>1. TypeOK'
  <2>1. stage' \in Stages /\ up' \in BOOLEAN /\ current' = 0
    BY DEF Crash, Stages
  <2>2. last' = last /\ status' = status /\ sourceOf' = sourceOf /\ owner' = owner
        /\ attempt' = attempt /\ computed' = computed
    BY DEF Crash, rows
  <2>3. Added' = Added
    BY <2>2 DEF Added
  <2>4. /\ last' \in 0..MaxJobs /\ status' \in [Jobs -> Statuses]
        /\ sourceOf' \in [Jobs -> Sources] /\ owner' \in [Jobs -> BOOLEAN]
        /\ attempt' \in [Jobs -> 0..(MaxAttempts + MaxCrashes)] /\ computed' \subseteq Sources
    BY <2>2 DEF QueueIInv, TypeOK
  <2>5. \A j \in Jobs : j \in Added' <=> status'[j] # "absent"
    BY <2>2, <2>3 DEF QueueIInv, TypeOK
  <2>6. current' \in 0..last'
    BY <1>0, <2>1, <2>2
  <2> QED BY <1>0, <2>1, <2>4, <2>5, <2>6 DEF TypeOK
<1>2. AttemptsBounded'
  BY QueueAssumption DEF Crash, rows, QueueIInv, TypeOK, AttemptsBounded
<1>3. WorkerState' /\ SucceededAreComputed' /\ RunningIsHeld'
  BY DEF Crash, rows, QueueIInv, WorkerState, SucceededAreComputed, RunningIsHeld
<1>4. LiveInArrivalOrder'
  BY DEF Crash, rows, QueueIInv, LiveInArrivalOrder, IsLive, Added
<1> QED BY <1>1, <1>2, <1>3, <1>4, OwnersKept DEF Crash, rows, QueueIInv

LEMMA QueueStartKeeps == ASSUME QueueIInv, Start PROVE QueueIInv'
<1>1. \A j \in Jobs :
        /\ status'[j] = IF status[j] = "running" THEN "queued" ELSE status[j]
        /\ attempt'[j] = IF status[j] = "running" THEN attempt[j] + 1 ELSE attempt[j]
  BY DEF Start
<1>2. stage = "idle" /\ current = 0 /\ ~up
  BY DEF Start, QueueIInv, WorkerState
<1>3. \A j \in Jobs : attempt'[j] \in Nat /\ attempt'[j] <= MaxAttempts + crashes
  BY <1>1, <1>2, QueueAssumption DEF QueueIInv, TypeOK, AttemptsBounded
<1>4. TypeOK'
  <2>1. status' \in [Jobs -> Statuses]
    BY <1>1 DEF Start, QueueIInv, TypeOK, Statuses
  <2>2. attempt' \in [Jobs -> 0..(MaxAttempts + MaxCrashes)]
    <3>1. \A j \in Jobs : attempt'[j] \in 0..(MaxAttempts + MaxCrashes)
      BY <1>3, QueueAssumption DEF QueueIInv, TypeOK
    <3>2. attempt' = [j \in Jobs |-> attempt'[j]]
      BY DEF Start
    <3> QED BY <3>1, <3>2
  <2>3. \A j \in Jobs : j \in Added' <=> status'[j] # "absent"
    BY <1>1 DEF Start, Added, QueueIInv, TypeOK
  <2> QED BY <2>1, <2>2, <2>3 DEF Start, QueueIInv, TypeOK
<1>5. WorkerState' /\ AttemptsBounded'
  BY <1>2, <1>3 DEF Start, WorkerState, AttemptsBounded
<1>6. SucceededAreComputed' /\ RunningIsHeld'
  BY <1>1 DEF Start, QueueIInv, SucceededAreComputed, RunningIsHeld
<1>7. LiveInArrivalOrder'
  <2> SUFFICES ASSUME NEW i \in Jobs, NEW j \in Jobs, IsLive(i)', IsLive(j)', i < j,
                      status'[j] # "queued"
               PROVE  status'[i] \in Terminal
    BY DEF LiveInArrivalOrder, Terminal
  <2>1. IsLive(i) /\ IsLive(j) /\ status[j] # "queued"
    BY <1>1 DEF Start, IsLive, Added
  <2> QED BY <1>1, <2>1 DEF QueueIInv, LiveInArrivalOrder, Terminal
<1> QED BY <1>4, <1>5, <1>6, <1>7, OwnersKept DEF Start, QueueIInv

-----------------------------------------------------------------------------
LEMMA QueueNextKeeps == ASSUME QueueIInv, [Next]_vars PROVE QueueIInv'
<1>1. ASSUME NEW s \in Sources, Enqueue(s) PROVE QueueIInv'
  BY <1>1, QueueEnqueueKeeps
<1>2. ASSUME NEW j \in Jobs, RetryFailed(j) PROVE QueueIInv'
  BY <1>2, QueueRetryFailedKeeps
<1>3. CASE ClaimNext
  BY <1>3, QueueClaimNextKeeps
<1>4. CASE Execute
  BY <1>4, QueueExecuteKeeps
<1>5. CASE MarkSucceeded
  BY <1>5, LeaveRow DEF MarkSucceeded
<1>6. CASE StartBackoff
  <2>1. TypeOK'
    BY <1>6 DEF StartBackoff, rows, QueueIInv, TypeOK, Stages, Added
  <2>2. WorkerState' /\ AttemptsBounded' /\ SucceededAreComputed' /\ RunningIsHeld'
    BY <1>6 DEF StartBackoff, rows, QueueIInv, WorkerState, AttemptsBounded, SucceededAreComputed,
       RunningIsHeld
  <2>3. LiveInArrivalOrder'
    BY <1>6 DEF StartBackoff, rows, QueueIInv, LiveInArrivalOrder, IsLive, Added
  <2> QED BY <1>6, <2>1, <2>2, <2>3, OwnersKept DEF StartBackoff, rows, QueueIInv
<1>7. CASE MarkRetryWait
  BY <1>7, LeaveRow DEF MarkRetryWait
<1>8. CASE MarkFailed
  BY <1>8, LeaveRow DEF MarkFailed
<1>9. CASE Crash
  BY <1>9, QueueCrashKeeps
<1>10. CASE Start
  BY <1>10, QueueStartKeeps
<1>11. CASE UNCHANGED vars
  BY <1>11 DEF vars, QueueIInv, TypeOK, WorkerState, AttemptsBounded, SucceededAreComputed,
     RunningIsHeld, LiveInArrivalOrder, IsLive, OneOwnerPerSource, Added
<1> QED
  BY <1>1, <1>2, <1>3, <1>4, <1>5, <1>6, <1>7, <1>8, <1>9, <1>10, <1>11 DEF Next, WorkerStep

(* The strengthened invariant holds in every reachable state. *)
THEOREM QueueInvariant == Spec => []QueueIInv
BY QueueInitIInv, QueueNextKeeps, PTL DEF Spec

(* The queue's state keeps its types, and the attempts of a job are        *)
(* bounded by the attempt limit and the number of crashes (claim_next,     *)
(* mark_retry_wait, recover_running_on_startup).                           *)
THEOREM QueueTypeCorrect == Spec => []TypeOK
BY QueueInvariant, PTL DEF QueueIInv

(* While the process is up only the job its worker holds is running: the   *)
(* startup recovery leaves no job running for ever.                        *)
THEOREM QueueRunningIsHeld == Spec => []RunningIsHeld
BY QueueInvariant, PTL DEF QueueIInv

(* claim_next, the retries and the recovery process live files in arrival  *)
(* order, for any number of jobs and any mix with promoted replays.        *)
THEOREM QueueLiveInArrivalOrder == Spec => []LiveInArrivalOrder
BY QueueInvariant, PTL DEF QueueIInv

(* enqueue and retry_failed_job leave every registered source exactly one  *)
(* row that carries its identity.                                          *)
THEOREM QueueOneOwnerPerSource == Spec => []OneOwnerPerSource
BY QueueInvariant, PTL DEF QueueIInv

(* No action changes a job that ended, and only a worker that produced the *)
(* results of its source marks a job succeeded.                            *)
LEMMA StepKeepsEnded ==
    ASSUME QueueIInv, Next, NEW j \in Jobs
    PROVE  /\ status[j] \in Terminal => status'[j] = status[j]
           /\ status'[j] = "succeeded" => sourceOf[j] \in computed
<1>1. status \in [Jobs -> Statuses] /\ last \in Nat
  BY QueueRowFacts DEF QueueIInv, TypeOK
<1>2. status[j] = "succeeded" => sourceOf[j] \in computed
  BY DEF QueueIInv, SucceededAreComputed
<1>3. ASSUME NEW s \in Sources, AddRow(s)
      PROVE  status'[j] = status[j] \/ (status'[j] = "queued" /\ status[j] = "absent")
  <2>1. last + 1 \in Jobs /\ status[last + 1] = "absent"
    BY <1>3, QueueRowFacts DEF AddRow, QueueIInv
  <2>2. status' = [status EXCEPT ![last + 1] = "queued"]
    BY <1>3 DEF AddRow
  <2>3. CASE j = last + 1
    BY <1>1, <2>1, <2>2, <2>3
  <2>4. CASE j # last + 1
    BY <1>1, <2>1, <2>2, <2>4
  <2> QED BY <2>3, <2>4
<1>4. stage # "idle" => current \in Jobs /\ status[current] = "running"
  BY DEF QueueIInv, WorkerState
<1>5. CASE \E s \in Sources : Enqueue(s)
  BY <1>2, <1>3, <1>5 DEF Enqueue, Terminal
<1>6. CASE \E k \in Jobs : RetryFailed(k)
  <2>1. PICK k \in Jobs : RetryFailed(k)
    BY <1>6
  <2>2. sourceOf[k] \in Sources
    BY DEF QueueIInv, TypeOK
  <2> QED BY <1>2, <1>3, <2>1, <2>2 DEF RetryFailed, Terminal
<1>7. CASE ClaimNext
  BY <1>1, <1>2, <1>7 DEF ClaimNext, Terminal
<1>8. CASE MarkSucceeded
  BY <1>1, <1>2, <1>4, <1>8 DEF MarkSucceeded, Terminal, QueueIInv, WorkerState
<1>9. CASE MarkRetryWait \/ MarkFailed
  BY <1>1, <1>2, <1>4, <1>9 DEF MarkRetryWait, MarkFailed, Terminal
<1>10. CASE Execute \/ StartBackoff \/ Crash
  BY <1>2, <1>10 DEF Execute, StartBackoff, Crash, rows, Terminal
<1>11. CASE Start
  BY <1>1, <1>2, <1>11 DEF Start, Terminal
<1> QED
  BY <1>5, <1>6, <1>7, <1>8, <1>9, <1>10, <1>11 DEF Next, WorkerStep

(* A job that ended stays as it ended, and it succeeds only after the      *)
(* results of its source were produced.                                    *)
THEOREM QueueEndedForGood == Spec => EndedForGood
<1> DEFINE Step == \A j \in Jobs :
             /\ status[j] \in Terminal => status'[j] = status[j]
             /\ status'[j] = "succeeded" => sourceOf[j] \in computed
<1>1. ASSUME QueueIInv, [Next]_vars PROVE [Step]_vars
  BY <1>1, StepKeepsEnded
<1> QED BY <1>1, QueueInvariant, PTL DEF Spec, EndedForGood

-----------------------------------------------------------------------------
(***************************************************************************)
(* Part two: the handoffs.                                                 *)
(***************************************************************************)
InQueue(h) == \E j \in Added : sourceOf[j] = h

(* What a status and an attempt, in a file or in memory, say of handoff h. *)
Sound(s, n, h) ==
    /\ s \notin {"retry_exhausted", "blocked"} => n < MaxHandoffRetries
    /\ s = "enqueued" => OwnJob(h)
    /\ s \in {"retry_exhausted", "blocked"} /\ faults = 0 => InQueue(h)

FilesSound == \A h \in Sources : \A f \in files[h] : Sound(f.status, f.attempt, h)

CallSound(c) ==
    /\ Sound(c.status, c.attempt, c.handoff)
    /\ c.phase = "enqueueing" => c.status = "enqueueing"
    /\ c.next = "succeed" => c.status = "enqueued"
    /\ c.next = "enqueue" => c.status = "enqueueing"

CallsSound == \A p \in Actors : CallSound(call[p])

(* A handoff never adds a second job: the row of the first one, or of its   *)
(* retry, still carries the identity.                                       *)
OwnOnce == \A j, k \in own : sourceOf[j] = sourceOf[k] => j = k

IInv ==
    /\ HandoffTypeOK
    /\ QueueIInv
    /\ FilesSound
    /\ CallsSound
    /\ OwnOnce

-----------------------------------------------------------------------------
(* What the queue's invariant says of its rows. *)
LEMMA RowFacts ==
    ASSUME QueueIInv
    PROVE  /\ last \in Nat /\ last <= MaxJobs
           /\ Jobs = 1..MaxJobs /\ Added = 1..last /\ Added \subseteq Jobs
           /\ sourceOf \in [Jobs -> Sources]
           /\ \A j \in Added : \E i \in Added : sourceOf[i] = sourceOf[j] /\ owner[i]
<1>1. Jobs = Jobs /\ Added = Added
  BY DEF Jobs, Jobs, Added, Added
<1>2. last \in 0..MaxJobs /\ sourceOf \in [Jobs -> Sources]
  BY <1>1 DEF QueueIInv, TypeOK
<1>3. \A j \in Added : \E i \in Added : sourceOf[i] = sourceOf[j] /\ owner[i]
  BY <1>1 DEF QueueIInv, OneOwnerPerSource
<1> QED
  BY <1>2, <1>3, QueueAssumption DEF Jobs, Added

(* A row stays, with the source it has. *)
LEMMA RowsStay ==
    ASSUME QueueIInv, [Next]_vars
    PROVE  /\ QueueIInv'
           /\ Added \subseteq Added'
           /\ \A j \in Added : sourceOf'[j] = sourceOf[j]
<1>1. QueueIInv'
  BY QueueNextKeeps
<1>2. ASSUME NEW s, AddRow(s)
      PROVE  /\ last' = last + 1
             /\ \A j \in Added : sourceOf'[j] = sourceOf[j]
  BY <1>2, RowFacts DEF AddRow
<1>3. \/ UNCHANGED <<last, sourceOf>>
      \/ \E s : AddRow(s)
  BY DEF Next, Enqueue, RetryFailed, WorkerStep, ClaimNext,
     Execute, MarkSucceeded, StartBackoff, MarkRetryWait,
     MarkFailed, Crash, Start, rows, vars
<1>4. last \in Nat /\ (last' = last \/ last' = last + 1)
  BY <1>2, <1>3, RowFacts
<1>5. Added \subseteq Added'
  BY <1>4 DEF Added
<1>6. \A j \in Added : sourceOf'[j] = sourceOf[j]
  BY <1>2, <1>3
<1> QED
  BY <1>1, <1>5, <1>6

-----------------------------------------------------------------------------
(* A step that keeps what it does not save or take up. *)
LEMMA StepKeeps ==
    ASSUME IInv, [Next]_vars, HandoffTypeOK', OwnOnce',
           own \subseteq own', faults' = 0 => faults = 0,
           \A h \in Sources : \A f \in files'[h] :
              f \in files[h] \/ Sound(f.status, f.attempt, h)',
           \A p \in Actors : call'[p] = call[p] \/ CallSound(call[p])'
    PROVE  IInv'
<1>1. /\ QueueIInv'
      /\ Added \subseteq Added'
      /\ \A j \in Added : sourceOf'[j] = sourceOf[j]
  BY RowsStay DEF IInv
<1>2. own \subseteq Added
  BY DEF IInv, HandoffTypeOK
<1>3. \A s, n, h : Sound(s, n, h) => Sound(s, n, h)'
  BY <1>1, <1>2 DEF Sound, OwnJob, InQueue
<1>4. FilesSound'
  BY <1>3 DEF IInv, FilesSound
<1>5. CallsSound'
  BY <1>3 DEF IInv, CallsSound, CallSound
<1> QED
  BY <1>1, <1>4, <1>5 DEF IInv

(* A step of thread p that changes nothing but what it has in memory. *)
LEMMA CallStep ==
    ASSUME IInv, NEW p \in Actors, call' = [call EXCEPT ![p] = call'[p]],
           call'[p] \in Calls, CallSound(call[p])',
           UNCHANGED <<vars, own, files, mode>>,
           published' \in [Sources -> 0..MaxPublications],
           retries' \in 0..MaxRetries, faults' \in 0..MaxFaults,
           faults' = 0 => faults = 0
    PROVE  IInv'
<1>1. /\ call' \in [Actors -> Calls]
      /\ \A q \in Actors \ {p} : call'[q] = call[q]
  BY DEF IInv, HandoffTypeOK
<1>2. UNCHANGED <<last, sourceOf, up>>
  BY DEF vars
<1>3. HandoffTypeOK'
  BY <1>1, <1>2 DEF IInv, HandoffTypeOK, Added
<1>4. OwnOnce'
  BY <1>2 DEF IInv, OwnOnce
<1> QED
  BY <1>1, <1>3, <1>4, StepKeeps

(* A file that save_handoff, create_or_get_handoff or the retry finds. *)
LEMMA FoundIsFile ==
    ASSUME HandoffTypeOK, NEW h \in Sources, files[h] # {}
    PROVE  Found(h) \in files[h] /\ Found(h) \in Files
<1> DEFINE In(i) == InDirectory(h, StatusSubdirs[i]) # {}
           First(i) == In(i) /\ \A j \in 1..(i - 1) : ~In(j)
<1>1. files[h] \subseteq Files
  BY DEF HandoffTypeOK
<1>2. Len(StatusSubdirs) = 7
  BY DEF StatusSubdirs
<1>3. \E i \in 1..7 : In(i)
  <2>1. PICK f \in files[h] : f.status \in HandoffStatuses
    BY <1>1 DEF Files
  <2>2. \E i \in 1..7 : StatusSubdirs[i] = f.status
    BY <1>2, <2>1 DEF HandoffStatuses
  <2> QED
    BY <2>2 DEF InDirectory
<1>4. \E k \in 1..7 : First(k)
  <2> HIDE DEF In
  <2>1. CASE First(1) \/ First(2) \/ First(3) \/ First(4)
    BY <2>1
  <2>2. CASE ~(First(1) \/ First(2) \/ First(3) \/ First(4))
    <3>1. ~In(1)
      BY <2>2
    <3>2. ~In(2)
      BY <2>2, <3>1
    <3>3. ~In(3)
      BY <2>2, <3>1, <3>2
    <3>4. ~In(4)
      BY <2>2, <3>1, <3>2, <3>3
    <3> QED
      BY <1>3, <3>1, <3>2, <3>3, <3>4
  <2> QED
    BY <2>1, <2>2
<1> DEFINE k == CHOOSE i \in 1..Len(StatusSubdirs) : First(i)
<1>5. In(k)
  BY <1>2, <1>4
<1>6. Found(h) = CHOOSE f \in files[h] : f.status = StatusSubdirs[k]
  BY DEF Found
<1>7. \E f \in files[h] : f.status = StatusSubdirs[k]
  BY <1>5 DEF InDirectory
<1> HIDE DEF k
<1> QED
  BY <1>1, <1>6, <1>7

(* The forms of call that the actions use. *)
LEMMA CallForms ==
    ASSUME HandoffTypeOK, NEW p \in Actors
    PROVE  /\ call[p] \in Calls /\ call[p].handoff \in Sources
           /\ call[p].attempt \in 0..MaxHandoffRetries
           /\ \A s, n, next : Save(p, s, n, next) =>
                 /\ call'[p] = [phase |-> "saving", handoff |-> call[p].handoff,
                                status |-> s, attempt |-> n, next |-> next]
                 /\ call' = [call EXCEPT ![p] = call'[p]]
           /\ \A h, s, next : SaveNew(p, h, s, next) =>
                 /\ call'[p] = [phase |-> "saving", handoff |-> h,
                                status |-> s, attempt |-> 0, next |-> next]
                 /\ call' = [call EXCEPT ![p] = call'[p]]
           /\ \A h, f : Load(p, h, f) =>
                 /\ call'[p] = [phase |-> "loaded", handoff |-> h, status |-> f.status,
                                attempt |-> f.attempt, next |-> "return"]
                 /\ call' = [call EXCEPT ![p] = call'[p]]
           /\ Return(p) => call'[p] = Idle /\ call' = [call EXCEPT ![p] = call'[p]]
<1>1. call[p] \in Calls
  BY DEF HandoffTypeOK
<1> QED
  BY <1>1 DEF HandoffTypeOK, Calls, Save, SaveNew, Load, Return

LEMMA IdleSound ==
    /\ Idle \in Calls /\ Idle.status = "pending" /\ Idle.attempt = 0
    /\ Idle.phase = "idle" /\ Idle.next = "return"
BY HandoffAssumption DEF Idle, Calls, Phases, HandoffStatuses, StatusSubdirs

LEMMA StatusFacts ==
    /\ HandoffStatuses = {"pending", "runtime_disabled", "enqueueing", "enqueued", "retry_wait",
                   "blocked", "retry_exhausted"}
    /\ 0 \in 0..MaxHandoffRetries /\ 0 < MaxHandoffRetries
<1>1. Len(StatusSubdirs) = 7 /\ 1..7 = {1, 2, 3, 4, 5, 6, 7}
  BY DEF StatusSubdirs
<1> QED
  BY <1>1, HandoffAssumption DEF HandoffStatuses, StatusSubdirs

(* What is taken up from a file, or made for a new one, is as sound as it.  *)
LEMMA TakesUp ==
    ASSUME IInv, NEW p \in Actors, NEW h \in Sources,
           UNCHANGED <<vars, own, files, mode, faults>>,
           published' \in [Sources -> 0..MaxPublications], retries' \in 0..MaxRetries,
           \/ \E f \in files[h] : Load(p, h, f)
           \/ \E s \in {"pending", "runtime_disabled"}, next \in {"process", "return"} :
                 SaveNew(p, h, s, next)
    PROVE  IInv'
<1> USE StatusFacts, CallForms DEF IInv
<1>1. UNCHANGED <<last, sourceOf, own, files, faults>> /\ files[h] \subseteq Files
  BY DEF vars, HandoffTypeOK
<1>2. faults' \in 0..MaxFaults
  BY DEF HandoffTypeOK
<1>3. CASE \E f \in files[h] : Load(p, h, f)
  <2>1. PICK f \in files[h] : Load(p, h, f)
    BY <1>3
  <2>2. /\ call'[p] = [phase |-> "loaded", handoff |-> h, status |-> f.status,
                       attempt |-> f.attempt, next |-> "return"]
        /\ call' = [call EXCEPT ![p] = call'[p]]
    BY <2>1
  <2>3. call'[p] \in Calls
    BY <1>1, <2>1, <2>2 DEF Calls, Files, Phases
  <2>4. Sound(f.status, f.attempt, h)
    BY <2>1 DEF FilesSound
  <2>5. CallSound(call[p])'
    BY <1>1, <2>2, <2>4 DEF CallSound, Sound, OwnJob, InQueue, Added
  <2> QED
    BY <1>1, <1>2, <2>2, <2>3, <2>5, CallStep
<1>4. CASE \E s \in {"pending", "runtime_disabled"}, next \in {"process", "return"} :
              SaveNew(p, h, s, next)
  <2>1. PICK s \in {"pending", "runtime_disabled"}, next \in {"process", "return"} :
              SaveNew(p, h, s, next)
    BY <1>4
  <2>2. /\ call'[p] = [phase |-> "saving", handoff |-> h, status |-> s, attempt |-> 0, next |-> next]
        /\ call' = [call EXCEPT ![p] = call'[p]]
    BY <2>1
  <2>3. call'[p] \in Calls
    BY <2>1, <2>2 DEF Calls, Phases
  <2>4. CallSound(call[p])'
    BY <2>1, <2>2 DEF CallSound, Sound
  <2> QED
    BY <1>1, <1>2, <2>2, <2>3, <2>4, CallStep
<1> QED
  BY <1>3, <1>4

LEMMA TakeUpKeeps ==
    ASSUME IInv, NEW h \in Sources,
           Create(h) \/ Poll(h) \/ (\E p \in Threads : Retry(p, h))
    PROVE  IInv'
<1>1. Loop \in Actors /\ Threads \subseteq Actors
  BY DEF Actors
<1>2. /\ published \in [Sources -> 0..MaxPublications] /\ retries \in 0..MaxRetries
      /\ files[h] # {} => Found(h) \in files[h]
  BY FoundIsFile DEF IInv, HandoffTypeOK
<1>3. CASE Create(h)
  <2>1. published' \in [Sources -> 0..MaxPublications] /\ retries' = retries
        /\ UNCHANGED <<vars, own, files, mode, faults>>
    BY <1>2, <1>3, HandoffAssumption DEF Create
  <2>2. CASE UNCHANGED call
    <3>1. call' = [call EXCEPT ![Loop] = call'[Loop]] /\ call'[Loop] = call[Loop]
      BY <1>1, <2>2 DEF IInv, HandoffTypeOK
    <3>2. UNCHANGED <<last, sourceOf, own, faults>>
      BY <2>1 DEF vars
    <3>3. CallSound(call[Loop])' /\ call'[Loop] \in Calls
      BY <1>1, <3>1, <3>2, CallForms DEF IInv, CallsSound, CallSound, Sound, OwnJob, InQueue,
         Added
    <3>4. faults \in 0..MaxFaults
      BY DEF IInv, HandoffTypeOK
    <3> QED
      BY <1>1, <1>2, <2>1, <3>1, <3>3, <3>4, CallStep
  <2>3. CASE ~UNCHANGED call
    <3>1. \/ \E f \in files[h] : Load(Loop, h, f)
          \/ \E s \in {"pending", "runtime_disabled"}, next \in {"process", "return"} :
                SaveNew(Loop, h, s, next)
      BY <1>2, <1>3, <2>3 DEF Create
    <3> QED
      BY <1>1, <1>2, <2>1, <3>1, TakesUp
  <2> QED
    BY <2>2, <2>3
<1>4. CASE Poll(h)
  BY <1>1, <1>2, <1>4, TakesUp DEF Poll
<1>5. CASE \E p \in Threads : Retry(p, h)
  <2>1. PICK p \in Threads : Retry(p, h)
    BY <1>5
  <2>2. /\ \E f \in files[h] : Load(p, h, f)
        /\ UNCHANGED <<vars, own, files, mode, published, faults>>
        /\ retries' \in 0..MaxRetries
    BY <1>2, <2>1, HandoffAssumption DEF Retry
  <2> QED
    BY <1>1, <1>2, <2>2, TakesUp
<1> QED
  BY <1>3, <1>4, <1>5

LEMMA ReturnStep ==
    ASSUME IInv, NEW p \in Actors, Return(p),
           UNCHANGED <<vars, own, files, mode, published, retries>>,
           faults' \in 0..MaxFaults, faults' = 0 => faults = 0
    PROVE  IInv'
<1>1. call'[p] = Idle /\ call' = [call EXCEPT ![p] = call'[p]]
  BY CallForms DEF IInv
<1>2. call'[p] \in Calls /\ CallSound(call[p])'
  BY <1>1, IdleSound, StatusFacts DEF IInv, CallSound, Sound
<1> QED
  BY <1>1, <1>2, CallStep DEF IInv, HandoffTypeOK

LEMMA SaveStep ==
    ASSUME IInv, NEW p \in Actors, NEW s \in HandoffStatuses, NEW n \in 0..MaxHandoffRetries,
           NEW next \in {"return", "enqueue", "succeed"}, Save(p, s, n, next),
           UNCHANGED <<vars, own, files, mode, published, retries>>,
           faults' \in 0..MaxFaults, faults' = 0 => faults = 0,
           s \notin {"retry_exhausted", "blocked"} => n < MaxHandoffRetries,
           s = "enqueued" => OwnJob(call[p].handoff),
           s \in {"retry_exhausted", "blocked"} /\ faults' = 0 => InQueue(call[p].handoff),
           next = "succeed" => s = "enqueued", next = "enqueue" => s = "enqueueing"
    PROVE  IInv'
<1>1. /\ call'[p] = [phase |-> "saving", handoff |-> call[p].handoff,
                     status |-> s, attempt |-> n, next |-> next]
      /\ call' = [call EXCEPT ![p] = call'[p]] /\ call[p].handoff \in Sources
  BY CallForms DEF IInv
<1>2. call'[p] \in Calls
  BY <1>1 DEF Calls, Phases
<1>3. UNCHANGED <<last, sourceOf>>
  BY DEF vars
<1>4. CallSound(call[p])'
  BY <1>1, <1>3 DEF CallSound, Sound, OwnJob, InQueue, Added
<1> QED
  BY <1>1, <1>2, <1>4, CallStep DEF IInv, HandoffTypeOK

(* What a thread knows of the handoff it has in memory. *)
LEMMA CallFacts ==
    ASSUME IInv, NEW p \in Actors
    PROVE  /\ call[p].handoff \in Sources /\ call[p].attempt \in 0..MaxHandoffRetries
           /\ call[p].status \in HandoffStatuses
           /\ call[p].status \notin {"retry_exhausted", "blocked"}
                 => call[p].attempt < MaxHandoffRetries
           /\ call[p].status = "enqueued" => OwnJob(call[p].handoff)
           /\ call[p].phase = "enqueueing" => call[p].status = "enqueueing"
           /\ call[p].next = "succeed" => call[p].status = "enqueued"
           /\ call[p].next = "enqueue" => call[p].status = "enqueueing"
           /\ faults \in 0..MaxFaults /\ faults \in Nat
           /\ published \in [Sources -> 0..MaxPublications] /\ retries \in 0..MaxRetries
BY CallForms, HandoffAssumption DEF IInv, HandoffTypeOK, CallsSound, CallSound, Sound, Calls

LEMMA PostponeStep ==
    ASSUME IInv, NEW p \in Actors, call[p].status \in {"enqueueing", "enqueued"}, Postpone(p),
           UNCHANGED <<vars, own, files, mode, published, retries>>,
           faults < MaxFaults, faults' = faults + 1
    PROVE  IInv'
<1> DEFINE n == call[p].attempt + 1
           s == IF n >= MaxHandoffRetries THEN "retry_exhausted" ELSE "retry_wait"
<1>1. Save(p, s, n, "return")
  BY DEF Postpone
<1>2. n \in 0..MaxHandoffRetries /\ (s = "retry_wait" => n < MaxHandoffRetries)
  BY CallFacts, HandoffAssumption
<1>3. s \in HandoffStatuses /\ s \in {"retry_exhausted", "retry_wait"}
  BY StatusFacts
<1>4. faults' \in 0..MaxFaults /\ faults' # 0
  BY CallFacts, HandoffAssumption
<1> HIDE DEF n, s
<1> QED
  BY <1>1, <1>2, <1>3, <1>4, SaveStep

LEMMA LocalKeeps ==
    ASSUME IInv, NEW p \in Actors,
           \/ Skip(p) \/ Disable(p) \/ LookUp(p) \/ LookUpFails(p)
           \/ Refused(p) \/ EnqueueFails(p) \/ SaveFails(p)
    PROVE  IInv'
<1>1. CASE Skip(p)
  BY <1>1, CallFacts, ReturnStep DEF Skip
<1>2. CASE Disable(p)
  <2>1. Save(p, "runtime_disabled", call[p].attempt, "return") /\ call[p].status \notin Final
    BY <1>2 DEF Disable
  <2> QED
    BY <1>2, <2>1, CallFacts, StatusFacts, SaveStep DEF Disable, Final
<1>3. CASE LookUp(p)
  <2>1. /\ UNCHANGED <<vars, own, files, mode, published, retries>> /\ faults' = faults
        /\ call[p].attempt < MaxHandoffRetries
    BY <1>3, CallFacts DEF LookUp, Final
  <2>2. CASE OwnJob(call[p].handoff)
    <3>1. Save(p, "enqueued", call[p].attempt, "return")
      BY <1>3, <2>2 DEF LookUp
    <3> QED
      BY <2>1, <2>2, <3>1, CallFacts, StatusFacts, SaveStep
  <2>3. CASE ~OwnJob(call[p].handoff)
    <3>1. Save(p, "enqueueing", call[p].attempt, "enqueue")
      BY <1>3, <2>3 DEF LookUp
    <3> QED
      BY <2>1, <3>1, CallFacts, StatusFacts, SaveStep
  <2> QED
    BY <2>2, <2>3
<1>4. CASE LookUpFails(p)
  <2>1. /\ Save(p, "blocked", call[p].attempt, "return")
        /\ UNCHANGED <<vars, own, files, mode, published, retries>>
        /\ faults' \in 0..MaxFaults /\ faults' # 0
    BY <1>4, CallFacts, HandoffAssumption DEF LookUpFails
  <2> QED
    BY <2>1, CallFacts, StatusFacts, SaveStep
<1>5. CASE Refused(p)
  <2>1. /\ UNCHANGED <<vars, own, files, mode, published, retries>> /\ faults' = faults
        /\ call[p].attempt < MaxHandoffRetries
        /\ InQueue(call[p].handoff)
    BY <1>5, CallFacts DEF Refused, Registered, InQueue
  <2>2. CASE OwnJob(call[p].handoff) /\ Active(call[p].handoff)
    <3>1. Save(p, "enqueued", call[p].attempt, "return")
      BY <1>5, <2>2 DEF Refused
    <3> QED
      BY <2>1, <2>2, <3>1, CallFacts, StatusFacts, SaveStep
  <2>3. CASE ~(OwnJob(call[p].handoff) /\ Active(call[p].handoff))
    <3>1. Save(p, "blocked", call[p].attempt, "return")
      BY <1>5, <2>3 DEF Refused
    <3> QED
      BY <2>1, <3>1, CallFacts, StatusFacts, SaveStep
  <2> QED
    BY <2>2, <2>3
<1>6. CASE EnqueueFails(p)
  BY <1>6, CallFacts, PostponeStep DEF EnqueueFails
<1>7. CASE SaveFails(p)
  <2>1. /\ UNCHANGED <<vars, own, files, mode, published, retries>>
        /\ faults < MaxFaults /\ faults' = faults + 1
        /\ faults' \in 0..MaxFaults /\ faults' # 0
    BY <1>7, CallFacts, HandoffAssumption DEF SaveFails
  <2>2. CASE call[p].next = "succeed"
    BY <1>7, <2>1, <2>2, CallFacts, PostponeStep DEF SaveFails
  <2>3. CASE call[p].next # "succeed"
    BY <1>7, <2>1, <2>3, ReturnStep DEF SaveFails
  <2> QED
    BY <2>2, <2>3
<1> QED
  BY <1>1, <1>2, <1>3, <1>4, <1>5, <1>6, <1>7

-----------------------------------------------------------------------------
LEMMA UnlinkKeeps ==
    ASSUME IInv, NEW p \in Actors, Unlink(p)
    PROVE  IInv'
<1> DEFINE h == call[p].handoff
<1>1. /\ call' = [call EXCEPT ![p].phase = "replacing"]
      /\ UNCHANGED <<vars, own, mode, published, retries, faults>>
      /\ files' = [files EXCEPT ![h] =
            IF files[h] # {} /\ Found(h).status # call[p].status
            THEN files[h] \ {Found(h)} ELSE files[h]]
  BY DEF Unlink
<1>2. UNCHANGED <<last, sourceOf, up>>
  BY <1>1 DEF vars
<1>3. /\ files' \in [Sources -> SUBSET Files]
      /\ \A g \in Sources : files'[g] \subseteq files[g]
  BY <1>1, CallFacts DEF IInv, HandoffTypeOK
<1>4. /\ call' \in [Actors -> Calls]
      /\ \A q \in Actors \ {p} : call'[q] = call[q]
      /\ call'[p].phase = "replacing" /\ call'[p].handoff = call[p].handoff
      /\ call'[p].status = call[p].status /\ call'[p].attempt = call[p].attempt
      /\ call'[p].next = call[p].next
  BY <1>1 DEF IInv, HandoffTypeOK, Calls, Phases
<1>5. HandoffTypeOK'
  BY <1>1, <1>2, <1>3, <1>4 DEF IInv, HandoffTypeOK, Added
<1>6. OwnOnce'
  BY <1>1, <1>2 DEF IInv, OwnOnce
<1>7. CallSound(call[p])'
  BY <1>1, <1>2, <1>4 DEF IInv, CallsSound, CallSound, Sound, OwnJob, InQueue, Added
<1> QED
  BY <1>1, <1>3, <1>4, <1>5, <1>6, <1>7, StepKeeps

LEMMA ReplaceKeeps ==
    ASSUME IInv, NEW p \in Actors, Replace(p)
    PROVE  IInv'
<1> DEFINE h == call[p].handoff
           new == [status |-> call[p].status, attempt |-> call[p].attempt]
<1>1. /\ UNCHANGED <<vars, own, mode, published, retries, faults>>
      /\ files' = [files EXCEPT ![h] = (files[h] \ InDirectory(h, call[p].status)) \cup {new}]
      /\ \/ Return(p)
         \/ call' = [call EXCEPT ![p].phase = "loaded"]
         \/ call[p].next = "enqueue" /\ call' = [call EXCEPT ![p].phase = "enqueueing"]
  <2>1. call[p].next \in {"return", "process", "enqueue", "succeed"}
    BY DEF IInv, HandoffTypeOK, Calls
  <2> QED
    BY <2>1 DEF Replace
<1>2. UNCHANGED <<last, sourceOf, up>>
  BY <1>1 DEF vars
<1>3. new \in Files /\ h \in Sources
  BY CallFacts DEF Files
<1> HIDE DEF new
<1>4. /\ files' \in [Sources -> SUBSET Files]
      /\ files'[h] \subseteq files[h] \cup {new}
      /\ \A g \in Sources \ {h} : files'[g] = files[g]
  BY <1>1, <1>3 DEF IInv, HandoffTypeOK
<1>5. /\ call' \in [Actors -> Calls]
      /\ \A q \in Actors \ {p} : call'[q] = call[q]
      /\ \/ call'[p] = Idle
         \/ /\ call'[p].handoff = h /\ call'[p].next = call[p].next
            /\ call'[p].status = call[p].status /\ call'[p].attempt = call[p].attempt
            /\ call'[p].phase = "enqueueing" => call[p].next = "enqueue"
  <2>1. CASE Return(p)
    BY <2>1, IdleSound DEF Return, IInv, HandoffTypeOK
  <2>2. CASE call' = [call EXCEPT ![p].phase = "loaded"]
    BY <2>2 DEF IInv, HandoffTypeOK, Calls, Phases
  <2>3. CASE call[p].next = "enqueue" /\ call' = [call EXCEPT ![p].phase = "enqueueing"]
    BY <2>3 DEF IInv, HandoffTypeOK, Calls, Phases
  <2> QED
    BY <1>1, <2>1, <2>2, <2>3
<1>6. HandoffTypeOK'
  <2>1. \A g \in Sources : \A f \in files'[g] :
           f.status \notin {"retry_exhausted", "blocked"} => f.attempt < MaxHandoffRetries
    BY <1>4, CallFacts DEF IInv, HandoffTypeOK, new
  <2> QED
    BY <1>1, <1>2, <1>4, <1>5, <2>1 DEF IInv, HandoffTypeOK, Added
<1>7. OwnOnce'
  BY <1>1, <1>2 DEF IInv, OwnOnce
<1>8. CallSound(call[p])'
  <2>1. CASE call'[p] = Idle
    BY <2>1, IdleSound, StatusFacts DEF CallSound, Sound
  <2>2. CASE call'[p] # Idle
    BY <1>1, <1>2, <1>5, <2>2 DEF IInv, CallsSound, CallSound, Sound, OwnJob, InQueue, Added
  <2> QED
    BY <2>1, <2>2
<1>9. \A g \in Sources : \A f \in files'[g] : f \in files[g] \/ Sound(f.status, f.attempt, g)'
  <2>1. \A g, f : g = h /\ f = new => Sound(f.status, f.attempt, g)
    BY DEF IInv, CallsSound, CallSound, new
  <2>2. \A g, f : g = h /\ f = new => Sound(f.status, f.attempt, g)'
    BY <1>1, <1>2, <2>1 DEF Sound, OwnJob, InQueue, Added
  <2> QED
    BY <1>4, <2>2
<1> QED
  BY <1>1, <1>5, <1>6, <1>7, <1>8, <1>9, StepKeeps

(* The job is added and its handoff changed in memory. *)
LEMMA EnqueueKeeps ==
    ASSUME IInv, NEW p \in Actors, EnqueueHandoff(p)
    PROVE  IInv'
<1> DEFINE h == call[p].handoff
<1>1. /\ call[p].phase = "enqueueing" /\ Enqueue(h) /\ own' = own \cup {last'}
      /\ Save(p, "enqueued", call[p].attempt, "succeed")
      /\ UNCHANGED <<files, mode, published, retries, faults>>
  BY DEF EnqueueHandoff
<1>2. h \in Sources /\ call[p].attempt < MaxHandoffRetries
  BY <1>1, CallFacts
<1>3. [Next]_vars
  BY <1>1, <1>2 DEF Next
<1>4. /\ last' = last + 1 /\ last' \in Jobs /\ last' \notin Added
      /\ Added' = Added \cup {last'}
      /\ sourceOf' = [sourceOf EXCEPT ![last'] = h] /\ up' = up
      /\ own \subseteq Added
      /\ sourceOf'[last'] = h /\ \A j \in own : sourceOf'[j] = sourceOf[j]
  <2>1. /\ last \in Nat /\ Jobs = 1..MaxJobs /\ Added = 1..last
        /\ sourceOf \in [Jobs -> Sources] /\ own \subseteq Added
        /\ Added \subseteq Jobs
    BY RowFacts DEF IInv, HandoffTypeOK
  <2>2. /\ last < MaxJobs /\ last' = last + 1 /\ up' = up
        /\ sourceOf' = [sourceOf EXCEPT ![last + 1] = h]
    BY <1>1 DEF Enqueue, AddRow
  <2>3. Added' = 1..last'
    BY DEF Added
  <2>4. last' \in Jobs /\ last' \notin Added
    BY <2>1, <2>2, QueueAssumption
  <2>5. Added' = Added \cup {last'}
    BY <2>1, <2>2, <2>3
  <2>6. sourceOf'[last'] = h /\ \A j \in Jobs \ {last'} : sourceOf'[j] = sourceOf[j]
    BY <2>1, <2>2, <2>4
  <2> QED
    BY <2>1, <2>2, <2>4, <2>5, <2>6
<1>5. \A j \in own : sourceOf[j] # h
  <2> SUFFICES ASSUME NEW j \in own, sourceOf[j] = h PROVE FALSE
    OBVIOUS
  <2>1. PICK i \in Added : sourceOf[i] = h /\ owner[i]
    BY <1>4, RowFacts DEF IInv
  <2> QED
    BY <1>1, <2>1 DEF Enqueue, Registered
<1>6. /\ call'[p] = [phase |-> "saving", handoff |-> h, status |-> "enqueued",
                     attempt |-> call[p].attempt, next |-> "succeed"]
      /\ call' = [call EXCEPT ![p] = call'[p]]
  BY <1>1, CallForms DEF IInv
<1>7. call'[p] \in Calls
  BY <1>2, <1>6, CallFacts, StatusFacts DEF Calls, Phases
<1>8. call' \in [Actors -> Calls] /\ \A q \in Actors \ {p} : call'[q] = call[q]
  BY <1>6, <1>7 DEF IInv, HandoffTypeOK
<1>9. HandoffTypeOK'
  BY <1>1, <1>4, <1>8 DEF IInv, HandoffTypeOK
<1>10. OwnOnce'
  BY <1>1, <1>4, <1>5 DEF IInv, OwnOnce
<1>11. CallSound(call[p])'
  BY <1>1, <1>2, <1>4, <1>6 DEF CallSound, Sound, OwnJob
<1> QED
  BY <1>1, <1>3, <1>8, <1>9, <1>10, <1>11, StepKeeps

(* A step of the queue alone, or a start. *)
LEMMA QueueAloneKeeps ==
    ASSUME IInv, [Next]_vars, UNCHANGED <<own, files, published, retries, faults>>,
           call' = call \/ call' = [p \in Actors |-> Idle],
           mode' \in {"down", "disabled", "enabled"}, up' <=> mode' = "enabled"
    PROVE  IInv'
<1>1. Added \subseteq Added' /\ \A j \in Added : sourceOf'[j] = sourceOf[j]
  BY RowsStay DEF IInv
<1>2. call' \in [Actors -> Calls] /\ \A p \in Actors : call'[p] = call[p] \/ CallSound(call[p])'
  <2>1. CASE call' = call
    BY <2>1 DEF IInv, HandoffTypeOK
  <2>2. CASE call' = [p \in Actors |-> Idle]
    BY <2>2, IdleSound, StatusFacts DEF IInv, CallSound, Sound
  <2> QED
    BY <2>1, <2>2
<1>3. HandoffTypeOK'
  BY <1>1, <1>2 DEF IInv, HandoffTypeOK
<1>4. OwnOnce'
  BY <1>1 DEF IInv, HandoffTypeOK, OwnOnce
<1> QED
  BY <1>2, <1>3, <1>4, StepKeeps

LEMMA UpStays ==
    ASSUME \/ WorkerStep
           \/ \E h \in Sources : Enqueue(h)
           \/ \E j \in Jobs : RetryFailed(j)
    PROVE  up' = up /\ [Next]_vars
BY DEF Next, WorkerStep, ClaimNext, Execute, MarkSucceeded,
   StartBackoff, MarkRetryWait, MarkFailed, Enqueue, RetryFailed,
   AddRow

LEMMA QueueOrProcessKeeps ==
    ASSUME IInv, QueueStep \/ ProcessDies \/ ProcessStarts
    PROVE  IInv'
<1>1. CASE QueueStep
  <2>1. UNCHANGED <<own, files, call, mode, published, retries, faults>>
    BY <1>1 DEF QueueStep, local
  <2>2. up' = up /\ [Next]_vars
    BY <1>1, UpStays DEF QueueStep, Jobs
  <2> QED
    BY <2>1, <2>2, QueueAloneKeeps DEF IInv, HandoffTypeOK
<1>2. CASE ProcessDies
  <2>1. [Next]_vars
    BY <1>2 DEF ProcessDies, Next
  <2>2. up' = FALSE
    BY <1>2 DEF ProcessDies, Crash, vars, IInv, HandoffTypeOK
  <2> QED
    BY <1>2, <2>1, <2>2, QueueAloneKeeps DEF ProcessDies
<1>3. CASE ProcessStarts
  <2>1. [Next]_vars
    BY <1>3 DEF ProcessStarts, Next
  <2>2. mode' \in {"disabled", "enabled"} /\ (up' <=> mode' = "enabled")
    BY <1>3 DEF ProcessStarts, Start, vars, IInv, HandoffTypeOK
  <2> QED
    BY <1>3, <2>1, <2>2, QueueAloneKeeps DEF ProcessStarts
<1> QED
  BY <1>1, <1>2, <1>3

-----------------------------------------------------------------------------
LEMMA InitIInv == HandoffInit => IInv
<1> SUFFICES ASSUME HandoffInit PROVE IInv
  OBVIOUS
<1>1. QueueIInv
  BY QueueInitIInv DEF HandoffInit
<1>2. HandoffTypeOK
  BY IdleSound, HandoffAssumption DEF HandoffInit, HandoffTypeOK, Init
<1>3. FilesSound /\ OwnOnce
  BY DEF HandoffInit, FilesSound, OwnOnce
<1>4. CallsSound
  BY <1>2, IdleSound, StatusFacts DEF HandoffInit, CallsSound, CallSound, Sound
<1> QED
  BY <1>1, <1>2, <1>3, <1>4 DEF IInv

LEMMA NextIInv ==
    ASSUME IInv, [HandoffNext]_handoffVars
    PROVE  IInv'
<1>1. CASE UNCHANGED handoffVars
  <2>1. /\ UNCHANGED vars /\ UNCHANGED <<own, files, call, mode, published, retries, faults>>
        /\ up' = up
    BY <1>1 DEF handoffVars, vars
  <2> QED
    BY <2>1, QueueAloneKeeps DEF IInv, HandoffTypeOK
<1>2. CASE \E h \in Sources : Create(h) \/ Poll(h)
  BY <1>2, TakeUpKeeps DEF Create, Poll
<1>3. CASE \E p \in Threads, h \in Sources : Retry(p, h)
  BY <1>3, TakeUpKeeps DEF Retry
<1>4. ASSUME NEW p \in Actors, Go(p) \/ Fail(p) PROVE IInv'
  <2>1. CASE \/ Skip(p) \/ Disable(p) \/ LookUp(p) \/ LookUpFails(p)
             \/ Refused(p) \/ EnqueueFails(p) \/ SaveFails(p)
    BY <2>1, LocalKeeps DEF Skip, Disable, LookUp, LookUpFails, Refused, EnqueueFails, SaveFails
  <2>2. CASE Unlink(p)
    BY <2>2, UnlinkKeeps DEF Unlink
  <2>3. CASE Replace(p)
    BY <2>3, ReplaceKeeps DEF Replace
  <2>4. CASE EnqueueHandoff(p)
    BY <2>4, EnqueueKeeps, CallFacts DEF EnqueueHandoff, Next
  <2> QED
    BY <1>4, <2>1, <2>2, <2>3, <2>4 DEF Go, Fail
<1>5. CASE QueueStep \/ ProcessDies \/ ProcessStarts
  BY <1>5, QueueOrProcessKeeps
<1> QED
  BY <1>1, <1>2, <1>3, <1>4, <1>5 DEF HandoffNext

THEOREM HandoffInvariant == HandoffSpec => []IInv
<1>1. IInv /\ [HandoffNext]_handoffVars => IInv'
  BY NextIInv
<1> QED
  BY <1>1, InitIInv, PTL DEF HandoffSpec

(* The handoffs, and the attempts they count, keep their types, whatever    *)
(* the event loop and the explicit retries do to each other's files.        *)
THEOREM HandoffTypeCorrect == HandoffSpec => []HandoffTypeOK
<1>1. IInv => HandoffTypeOK
  BY DEF IInv
<1> QED
  BY <1>1, HandoffInvariant, PTL

(* A handoff saved as enqueued has one job of its own in the queue.         *)
THEOREM EnqueuedHandoffsHaveOneJob == HandoffSpec => []EnqueuedHasOneJob
<1>1. IInv => EnqueuedHasOneJob
  <2> SUFFICES ASSUME IInv, NEW h \in Sources, NEW f \in files[h], f.status = "enqueued"
               PROVE  \E j \in own : sourceOf[j] = h /\ \A k \in own : sourceOf[k] = h => k = j
    BY DEF EnqueuedHasOneJob
  <2>1. OwnJob(h)
    BY DEF IInv, FilesSound, Sound
  <2> QED
    BY <2>1 DEF IInv, OwnJob, OwnOnce
<1> QED
  BY <1>1, HandoffInvariant, PTL

(* Without a failed access, a handoff is given up only when its dataset is  *)
(* in the queue.                                                            *)
THEOREM NothingIsGivenUpUnqueued == HandoffSpec => []GivenUpIsQueued
<1>1. IInv => GivenUpIsQueued
  BY DEF IInv, FilesSound, Sound, InQueue, GivenUpIsQueued
<1> QED
  BY <1>1, HandoffInvariant, PTL
=============================================================================
