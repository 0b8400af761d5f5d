-------------------------- MODULE LiveIngestionProofs --------------------------
(***************************************************************************)
(* For any machines, ticks, overlays, gaps, bad lines and failed cycles: the *)
(* live worker loses a row only behind a gap of another machine or to the  *)
(* overlay, the Generator has the newest window of every machine in the    *)
(* newest tick unless a batch was missed, and it takes the events of the   *)
(* overlay in order.  What makes this inductive is what a cycle holds of   *)
(* the files, each read at a moment of its own (SeenIsACut), and that the  *)
(* newest saved tick is one of every machine that never left the stream    *)
(* (StreamersAreInLatest).                                                 *)
(***************************************************************************)
EXTENDS LiveIngestion, TLAPS, WellFoundedInduction

(* Files grow at their end, and only what is in them is saved. *)
RowsAreDealtWith ==
    \A a \in Assets : /\ db[a] \subseteq written[a]
                      /\ \A t \in written[a] : t <= clock[a]

ActiveWasOverlaid == overlay \subseteq overlaid /\ active \subseteq overlaid

(* A cycle has all rows of a file that are new, up to one of them. *)
SeenIsACut ==
    /\ phase = "idle" => seen = Nothing
    /\ phase \in {"reading", "saving"} =>
         \A a \in Assets :
          /\ \A t \in seen[a] : t \in written[a] /\ t > Latest
          /\ \A t \in seen[a], u \in written[a] : Latest < u /\ u < t => u \in seen[a]

StreamersAreInLatest ==
    \A a \in Assets \ overlaid : Latest = 0 \/ Latest \in db[a]

(* The newest tick was saved for machines of this batch only. *)
BatchIsNewest ==
    phase = "submitting" => \A a \in Assets : Latest \in db[a] => a \in Expected

SubmittedIsNewest ==
    phase # "submitting" /\ ~missed =>
       \A a \in Assets : Latest \in db[a] => Window(a) \in {{}, submitted[a]}

(* Of the first k events that the Generator took, or k + 1 of which the     *)
(* last is recorded only, a cycle that repeats them has reached next.       *)
EventsReached(k) ==
    /\ k <= published
    /\ queued = 1..k
    /\ recorded \in {1..k, 1..(k + 1)}
    /\ recorded \subseteq 1..published
    /\ phase \in {"events", "posting"} => next <= k + 1 /\ last <= published
    /\ phase = "posting" => next <= last /\ next \in recorded

IInv ==
    /\ TypeOK
    /\ RowsAreDealtWith
    /\ ActiveWasOverlaid
    /\ SeenIsACut
    /\ StreamersAreInLatest
    /\ LossOnlyByGap
    /\ BatchIsNewest
    /\ SubmittedIsNewest
    /\ \E k \in 0..NumEvents : EventsReached(k)

-----------------------------------------------------------------------------
LEMMA Bounds ==
    /\ NumTicks \in Nat /\ NumEvents \in Nat /\ MaxSkew \in Nat
    /\ MaxTroubles \in Nat
BY LiveAssumption

(* A set of ticks that is not empty has a greatest one. *)
LEMMA GreatestTick ==
    ASSUME NEW S \in SUBSET (0..NumTicks), S # {}
    PROVE  Max(S) \in S /\ \A t \in S : t <= Max(S)
<1> DEFINE T == {NumTicks - t : t \in S}
           R == OpToRel(<, Nat)
<1>1. \A t \in S : t \in 0..NumTicks /\ NumTicks - t \in Nat
  BY LiveAssumption
<1>2. T \subseteq Nat /\ T # {}
  BY <1>1
<1>3. PICK x \in T : \A y \in T : <<y, x>> \notin R
  <2> HIDE DEF T, R
  <2>1. IsWellFoundedOn(R, Nat)
    BY NatLessThanWellFounded DEF R
  <2> QED
    BY <1>2, <2>1, WFMin
<1>4. \A y \in T : ~(y < x)
  BY <1>2, <1>3 DEF OpToRel
<1>5. PICK e \in S : x = NumTicks - e
  BY <1>3
<1>6. ASSUME NEW t \in S PROVE e >= t
  <2>1. ~(NumTicks - t < NumTicks - e)
    BY <1>4, <1>5
  <2>2. e \in Int /\ t \in Int /\ NumTicks \in Int
    BY <1>1, LiveAssumption
  <2> QED
    BY <2>1, <2>2
<1>7. Max(S) \in S /\ \A t \in S : Max(S) >= t
  BY <1>6 DEF Max
<1> QED
  BY <1>1, <1>7

(* Latest, of any saved rows. *)
LEMMA NewestSaved ==
    ASSUME NEW D \in [Assets -> SUBSET Ticks], NEW m,
           m = Max({0} \cup UNION {D[a] : a \in Assets})
    PROVE  /\ m \in 0..NumTicks
           /\ m = 0 \/ \E a \in Assets : m \in D[a]
           /\ \A a \in Assets : \A t \in D[a] : t <= m
<1> DEFINE S == {0} \cup UNION {D[a] : a \in Assets}
<1>1. S \in SUBSET (0..NumTicks) /\ S # {}
  BY LiveAssumption DEF Ticks
<1>2. Max(S) \in S /\ \A t \in S : t <= Max(S)
  <2> HIDE DEF S
  <2> QED
    BY <1>1, GreatestTick
<1> QED
  BY <1>1, <1>2

LEMMA LatestFacts ==
    ASSUME TypeOK
    PROVE  /\ Latest \in 0..NumTicks
           /\ Latest = 0 \/ \E a \in Assets : Latest \in db[a]
           /\ \A a \in Assets : \A t \in db[a] : t \in Ticks /\ t <= Latest
<1>1. db \in [Assets -> SUBSET Ticks]
  BY DEF TypeOK
<1> QED
  BY <1>1, NewestSaved DEF Latest

(* A window is made of saved rows. *)
LEMMA WindowIsSaved ==
    ASSUME TypeOK, NEW a \in Assets
    PROVE  Window(a) \subseteq db[a]
<1> DEFINE ends == {t \in Recent(a) : (t - MinRows + 1)..t \subseteq Recent(a)}
<1>1. Recent(a) \subseteq db[a] /\ db[a] \subseteq Ticks /\ Ticks \subseteq 0..NumTicks
  BY LiveAssumption DEF Recent, TypeOK, Ticks
<1>2. CASE ends = {}
  BY <1>2 DEF Window
<1>3. CASE ends # {}
  <2>1. ends \in SUBSET (0..NumTicks)
    BY <1>1
  <2>2. Max(ends) \in ends
    <3> HIDE DEF ends
    <3> QED
      BY <1>3, <2>1, GreatestTick
  <2>3. (Max(ends) - MinRows + 1)..Max(ends) \subseteq db[a]
    BY <1>1, <2>2
  <2> QED
    BY <1>3, <2>3 DEF Window
<1> QED
  BY <1>2, <1>3

LEMMA SameDb ==
    ASSUME UNCHANGED db
    PROVE  Latest' = Latest /\ \A a \in Assets : Window(a)' = Window(a)
BY DEF Latest, Window, Recent

-----------------------------------------------------------------------------
LEMMA InitIInv == Init => IInv
<1> SUFFICES ASSUME Init PROVE IInv
  OBVIOUS
<1>1. TypeOK
  <2>1. missed \in BOOLEAN
    BY DEF Init
  <2>2. /\ malformed \subseteq Files /\ bad \subseteq Events /\ rejected \subseteq Events
        /\ strange \subseteq Assets \X Ticks /\ partial \subseteq Assets \X Ticks
        /\ overlay \subseteq Assets /\ overlaid \subseteq Assets
    BY DEF Init
  <2>3. /\ clock \in [Assets -> 0..NumTicks] /\ written \in [Assets -> SUBSET Ticks]
        /\ db \in [Assets -> SUBSET Ticks] /\ seen \in [Assets -> SUBSET Ticks]
        /\ submitted \in [Assets -> SUBSET Ticks]
    BY Bounds DEF Init, Nothing
  <2>4. /\ active \subseteq Assets /\ unread \subseteq Assets
        /\ recorded \subseteq Events /\ queued \subseteq Events
        /\ published \in 0..NumEvents /\ last \in 0..NumEvents /\ next \in 1..(NumEvents + 1)
        /\ troubles \in 0..MaxTroubles
        /\ phase \in Phases
    BY Bounds DEF Init, Phases
  <2> QED
    BY <2>1, <2>2, <2>3, <2>4 DEF TypeOK
<1>2. \A a \in Assets : db[a] = {} /\ written[a] = {}
  BY DEF Init, Nothing
<1>3. Latest = 0
  BY <1>1, <1>2, LatestFacts
<1>4. EventsReached(0)
  BY LiveAssumption DEF Init, EventsReached
<1>5. 0 \in 0..NumEvents
  BY LiveAssumption
<1>6. RowsAreDealtWith /\ ActiveWasOverlaid /\ SeenIsACut /\ StreamersAreInLatest
  BY <1>2, <1>3 DEF Init, RowsAreDealtWith, ActiveWasOverlaid, SeenIsACut, StreamersAreInLatest
<1>7. LossOnlyByGap /\ BatchIsNewest /\ SubmittedIsNewest
  BY <1>2 DEF LossOnlyByGap, BatchIsNewest, SubmittedIsNewest
<1> QED
  BY <1>1, <1>4, <1>5, <1>6, <1>7 DEF IInv

(* What gen_data and the overlay do while the worker works: files grow at   *)
(* their end, and a tick that a line has left out stays out.                *)
LEMMA StreamMoves ==
    ASSUME TypeOK, RowsAreDealtWith, Stream \/ Damage
    PROVE  /\ clock' \in [Assets -> 0..NumTicks] /\ written' \in [Assets -> SUBSET Ticks]
           /\ \A a \in Assets : /\ clock[a] <= clock'[a]
                                /\ written[a] \subseteq written'[a]
                                /\ \A t \in written'[a] : t <= clock'[a]
                                /\ \A t \in written'[a] \ written[a] : clock[a] < t
           /\ overlay' \subseteq overlay \cup overlaid' /\ overlaid \subseteq overlaid'
           /\ overlay' \subseteq Assets /\ overlaid' \subseteq Assets
           /\ published' \in 0..NumEvents /\ published <= published'
           /\ troubles' \in 0..MaxTroubles
<1> USE Bounds
<1>1. /\ clock \in [Assets -> 0..NumTicks] /\ written \in [Assets -> SUBSET Ticks]
      /\ overlay \subseteq Assets /\ overlaid \subseteq Assets
      /\ published \in 0..NumEvents /\ troubles \in 0..MaxTroubles
  BY DEF TypeOK
<1>2. \A a \in Assets : \A t \in written[a] : t <= clock[a]
  BY DEF RowsAreDealtWith
<1>3. ASSUME NEW a \in Assets, \E row : Tick(a, row)
      PROVE  /\ clock' \in [Assets -> 0..NumTicks] /\ written' \in [Assets -> SUBSET Ticks]
             /\ \A b \in Assets : /\ clock[b] <= clock'[b]
                                  /\ written[b] \subseteq written'[b]
                                  /\ \A t \in written'[b] : t <= clock'[b]
                                  /\ \A t \in written'[b] \ written[b] : clock[b] < t
             /\ UNCHANGED <<overlay, published, overlaid>>
  <2>1. /\ clock[a] < NumTicks
        /\ clock' = [clock EXCEPT ![a] = clock[a] + 1]
        /\ UNCHANGED <<overlay, published, overlaid>>
    BY <1>3 DEF Tick
  <2>2. /\ clock'[a] = clock[a] + 1 /\ clock[a] \in 0..NumTicks
        /\ \A b \in Assets \ {a} : clock'[b] = clock[b]
        /\ clock'[a] \in Ticks /\ clock' \in [Assets -> 0..NumTicks]
    BY <1>1, <2>1 DEF Ticks
  <2>3. PICK new \in SUBSET {clock'[a]} : written' = [written EXCEPT ![a] = written[a] \cup new]
    BY <1>3 DEF Tick
  <2>4. written' \in [Assets -> SUBSET Ticks]
    BY <1>1, <2>2, <2>3
  <2>5. \A b \in Assets : /\ written[b] \subseteq written'[b]
                          /\ \A t \in written'[b] \ written[b] : b = a /\ t = clock'[a]
    BY <1>1, <2>3
  <2>6. ASSUME NEW b \in Assets
        PROVE  /\ clock[b] <= clock'[b]
               /\ \A t \in written'[b] : t <= clock'[b]
               /\ \A t \in written'[b] \ written[b] : clock[b] < t
    <3>1. clock[b] \in Nat /\ clock'[b] \in Nat /\ clock[b] <= clock'[b]
      BY <1>1, <2>2
    <3>2. \A t \in written'[b] \ written[b] : clock[b] < t /\ t <= clock'[b]
      BY <2>2, <2>5, <3>1
    <3>3. \A t \in written[b] : t \in Nat /\ t <= clock[b]
      BY <1>1, <1>2 DEF Ticks
    <3> QED
      BY <3>1, <3>2, <3>3
  <2> QED
    BY <2>1, <2>2, <2>4, <2>5, <2>6
<1>4. CASE PublishEvent
  BY <1>1, <1>2, <1>4 DEF PublishEvent
<1>5. ASSUME Trouble PROVE troubles' \in 0..MaxTroubles
  BY <1>1, <1>5 DEF Trouble
<1>6. ASSUME NEW a \in Assets, Emit(a) PROVE (\E row : Tick(a, row)) /\ UNCHANGED troubles
  BY <1>6 DEF Emit
<1>7. ASSUME NEW a \in Assets, Gap(a) PROVE (\E row : Tick(a, row)) /\ Trouble
  <2>1. Tick(a, FALSE) /\ Trouble
    BY <1>7, Zenon DEF Gap
  <2> QED
    BY <2>1, Zenon
<1>8. ASSUME NEW a \in Assets, ChangeOverlay(a)
      PROVE  /\ UNCHANGED <<clock, written, published>>
             /\ overlay' \subseteq overlay \cup {a} /\ overlaid' = overlaid \cup {a}
             /\ Trouble
  BY <1>1, <1>8 DEF ChangeOverlay
<1>9. published \in Nat /\ \A a \in Assets : clock[a] \in Nat
  BY <1>1
<1>10. CASE \E a \in Assets : Emit(a)
  BY <1>1, <1>3, <1>6, <1>9, <1>10
<1>11. CASE \E a \in Assets : Gap(a)
  BY <1>1, <1>3, <1>5, <1>7, <1>9, <1>11
<1>12. CASE \E a \in Assets : ChangeOverlay(a)
  <2>1. PICK a \in Assets : ChangeOverlay(a)
    BY <1>12
  <2> QED
    BY <1>1, <1>2, <1>5, <1>8, <1>9, <2>1
<1>13. CASE Stream
  BY <1>4, <1>10, <1>11, <1>12, <1>13 DEF Stream
<1>14. CASE Damage
  <2>1. troubles' \in 0..MaxTroubles
    BY <1>5, <1>14 DEF Damage
  <2>2. CASE \E a \in Assets : PartialRow(a)
    <3>1. PICK a \in Assets : PartialRow(a)
      BY <2>2
    <3>2. \E row : Tick(a, row)
      BY <3>1, Zenon DEF PartialRow
    <3> QED
      BY <1>1, <1>3, <1>9, <2>1, <3>2
  <2>3. CASE UNCHANGED stream
    BY <1>1, <1>2, <1>9, <2>1, <2>3 DEF stream
  <2> QED
    BY <1>14, <2>2, <2>3 DEF Damage, BadLine, StrangeRow, SpoilBranch, Reject
<1> QED
  BY <1>13, <1>14

(* What the damage done by a step is of. *)
LEMMA DamageMoves ==
    ASSUME TypeOK, Stream \/ Damage, phase = "posting" => next \in Events
    PROVE  /\ malformed' \subseteq Files /\ bad' \subseteq Events /\ rejected' \subseteq Events
           /\ strange' \subseteq Assets \X Ticks /\ partial' \subseteq Assets \X Ticks
<1> USE Bounds
<1>1. /\ malformed \subseteq Files /\ bad \subseteq Events /\ rejected \subseteq Events
      /\ strange \subseteq Assets \X Ticks /\ partial \subseteq Assets \X Ticks
      /\ clock \in [Assets -> 0..NumTicks] /\ published \in 0..NumEvents
  BY DEF TypeOK
<1>2. CASE Stream
  BY <1>1, <1>2 DEF Stream, damage
<1>3. CASE \E f \in Files : BadLine(f)
  BY <1>1, <1>3 DEF BadLine
<1>4. CASE \E a \in Assets : StrangeRow(a)
  BY <1>1, <1>4 DEF StrangeRow, Ticks
<1>5. CASE \E a \in Assets : PartialRow(a)
  <2>1. PICK a \in Assets : PartialRow(a)
    BY <1>5
  <2>2. \E row : Tick(a, row)
    BY <2>1, Zenon DEF PartialRow
  <2>3. clock'[a] \in Ticks
    BY <1>1, <2>2 DEF Tick, Ticks
  <2> QED
    BY <1>1, <2>1, <2>3 DEF PartialRow
<1>6. CASE \E e \in 1..published : SpoilBranch(e)
  BY <1>1, <1>6 DEF SpoilBranch, Events
<1>7. CASE Reject
  BY <1>1, <1>7 DEF Reject
<1> QED
  BY <1>2, <1>3, <1>4, <1>5, <1>6, <1>7 DEF Damage

(* The event that is posted is one of the file. *)
LEMMA PostedIsEvent == ASSUME IInv PROVE phase = "posting" => next \in Events
<1>1. PICK k \in 0..NumEvents : EventsReached(k)
  BY DEF IInv
<1>2. phase = "posting" => next \in 1..published
  BY <1>1 DEF EventsReached
<1> QED
  BY <1>2, Bounds DEF IInv, TypeOK, Events

LEMMA StreamKeeps == ASSUME IInv, Stream \/ Damage PROVE IInv'
<1>1. /\ UNCHANGED <<db, recorded, submitted, queued, phase, missed>>
      /\ UNCHANGED <<active, unread, seen, next, last>>
  BY DEF Stream, Damage, stores, memory
<1>2. TypeOK /\ RowsAreDealtWith
  BY DEF IInv
<1>3. /\ clock' \in [Assets -> 0..NumTicks] /\ written' \in [Assets -> SUBSET Ticks]
      /\ overlay' \subseteq overlay \cup overlaid' /\ overlaid \subseteq overlaid'
      /\ overlay' \subseteq Assets /\ overlaid' \subseteq Assets
      /\ published' \in 0..NumEvents /\ published <= published'
      /\ troubles' \in 0..MaxTroubles
  BY <1>2, StreamMoves
<1>4. \A a \in Assets : /\ clock[a] <= clock'[a]
                        /\ written[a] \subseteq written'[a]
                        /\ \A t \in written'[a] : t <= clock'[a]
                        /\ \A t \in written'[a] \ written[a] : clock[a] < t
  BY <1>2, StreamMoves
<1>5. /\ Latest' = Latest /\ Latest \in Nat
      /\ \A a \in Assets : Window(a)' = Window(a)
  BY <1>1, <1>2, SameDb, LatestFacts, Bounds
<1>6. \A a \in Assets : /\ clock[a] \in Nat /\ clock'[a] \in Nat
                        /\ \A t \in written'[a] : t \in Nat
                        /\ \A t \in db[a] : t \in Nat
                        /\ \A t \in seen[a] : t \in Nat
  BY <1>2, <1>3, Bounds DEF TypeOK, Ticks
<1>7. TypeOK'
  BY <1>1, <1>2, <1>3, DamageMoves, PostedIsEvent DEF TypeOK
<1>8. RowsAreDealtWith'
  BY <1>1, <1>2, <1>4 DEF RowsAreDealtWith
<1>9. ActiveWasOverlaid'
  BY <1>1, <1>3 DEF IInv, ActiveWasOverlaid
<1>10. \A a \in Assets : \A t \in written[a] : t <= clock[a]
  BY <1>2 DEF RowsAreDealtWith
<1>11. SeenIsACut'
  <2>1. phase' = "idle" => seen' = Nothing
    BY <1>1 DEF IInv, SeenIsACut
  <2>2. ASSUME phase \in {"reading", "saving"}, NEW a \in Assets, NEW t \in seen[a]
        PROVE  /\ t \in written'[a] /\ t > Latest
               /\ \A u \in written'[a] : Latest < u /\ u < t => u \in seen[a]
    <3>1. /\ t \in written[a] /\ t > Latest
          /\ \A u \in written[a] : Latest < u /\ u < t => u \in seen[a]
      BY <2>2 DEF IInv, SeenIsACut
    <3>2. ASSUME NEW u \in written'[a], u < t PROVE u \in written[a]
      BY <1>4, <1>6, <1>10, <3>1, <3>2
    <3> QED
      BY <1>4, <3>1, <3>2
  <2> QED
    BY <1>1, <1>5, <2>1, <2>2 DEF SeenIsACut, Nothing
<1>12. StreamersAreInLatest'
  BY <1>1, <1>3, <1>5 DEF IInv, StreamersAreInLatest
<1>13. LossOnlyByGap'
  <2> SUFFICES ASSUME NEW a \in Assets, NEW t \in written'[a] \ db[a], t <= Latest, a \notin overlaid'
               PROVE  \E b \in Assets : t \notin written'[b] /\ t <= clock'[b]
    BY <1>1, <1>5 DEF LossOnlyByGap
  <2>1. a \notin overlaid
    BY <1>3
  <2>2. t \in written[a]
    <3>1. Latest = 0 \/ Latest \in written[a]
      BY <2>1 DEF IInv, StreamersAreInLatest, RowsAreDealtWith
    <3>2. Latest <= clock[a]
      BY <1>5, <1>6, <1>10, <3>1
    <3> QED
      BY <1>4, <1>5, <1>6, <3>2
  <2>3. PICK b \in Assets : t \notin written[b] /\ t <= clock[b]
    BY <2>1, <2>2 DEF IInv, LossOnlyByGap
  <2>4. t \notin written'[b] /\ t <= clock'[b]
    BY <1>4, <1>6, <2>3
  <2> QED
    BY <2>4
<1>14. BatchIsNewest'
  BY <1>1, <1>5 DEF IInv, BatchIsNewest, Expected
<1>15. SubmittedIsNewest'
  BY <1>1, <1>5 DEF IInv, SubmittedIsNewest
<1>16. ASSUME NEW k \in 0..NumEvents, EventsReached(k) PROVE EventsReached(k)'
  <2>1. published \in Nat /\ published' \in Nat /\ k \in Nat
    BY <1>2, <1>3, Bounds DEF TypeOK
  <2>2. last \in Nat
    BY <1>2, Bounds DEF TypeOK
  <2>3. 1..published \subseteq 1..published'
    BY <1>3, <2>1
  <2> QED
    BY <1>1, <1>3, <1>16, <2>1, <2>2, <2>3 DEF EventsReached
<1> QED
  BY <1>7, <1>8, <1>9, <1>11, <1>12, <1>13, <1>14, <1>15, <1>16 DEF IInv

-----------------------------------------------------------------------------
(* A step of the worker that saves no rows and takes no event.              *)
LEMMA CycleStep ==
    ASSUME IInv, TypeOK', UNCHANGED <<stream, damage, db, recorded, queued>>,
           active' \subseteq overlaid, SeenIsACut', BatchIsNewest', SubmittedIsNewest',
           phase' \notin {"events", "posting"} \/ (phase' = "events" /\ next' = 1 /\ last' <= published)
    PROVE  IInv'
<1>1. /\ UNCHANGED <<clock, written, overlay, published, overlaid, db, recorded, queued>>
      /\ Latest' = Latest
  BY SameDb DEF stream
<1>2. RowsAreDealtWith' /\ ActiveWasOverlaid' /\ StreamersAreInLatest' /\ LossOnlyByGap'
  BY <1>1 DEF IInv, RowsAreDealtWith, ActiveWasOverlaid, StreamersAreInLatest, LossOnlyByGap
<1>3. ASSUME NEW k \in 0..NumEvents, EventsReached(k) PROVE EventsReached(k)'
  <2>1. k \in Nat
    BY Bounds
  <2> QED
    BY <1>1, <1>3, <2>1 DEF EventsReached
<1> QED
  BY <1>2, <1>3 DEF IInv

(* The steps that end the cycle, or the reading of the sensor files.        *)
LEMMA IdleStep ==
    ASSUME IInv, GoIdle, UNCHANGED <<stream, damage, db, recorded, queued>>,
           submitted' \in [Assets -> SUBSET Ticks], missed' \in BOOLEAN,
           troubles' \in 0..MaxTroubles, SubmittedIsNewest'
    PROVE  IInv'
<1>1. /\ UNCHANGED <<clock, written, overlay, published, overlaid>>
      /\ UNCHANGED <<malformed, strange, partial, bad, rejected>>
      /\ phase' = "idle" /\ active' = {} /\ unread' = {} /\ seen' = Nothing
      /\ next' = 1 /\ last' = 0
  BY DEF GoIdle, stream, damage
<1>2. seen' \in [Assets -> SUBSET Ticks] /\ next' \in 1..(NumEvents + 1)
      /\ last' \in 0..NumEvents /\ phase' \in Phases
  BY <1>1, Bounds DEF Nothing, Phases
<1>3. TypeOK'
  BY <1>1, <1>2 DEF IInv, TypeOK
<1> QED
  BY <1>1, <1>3, CycleStep DEF SeenIsACut, BatchIsNewest

LEMMA ReadEventsKeeps ==
    ASSUME IInv, ReadEvents, UNCHANGED <<stream, damage, db, recorded, queued>>,
           submitted' \in [Assets -> SUBSET Ticks], missed' \in BOOLEAN,
           troubles' \in 0..MaxTroubles, SubmittedIsNewest'
    PROVE  IInv'
<1>1. CASE GoIdle
  BY <1>1, IdleStep
<1>2. CASE ~GoIdle
  <2>1. /\ UNCHANGED <<clock, written, overlay, published, overlaid>>
        /\ UNCHANGED <<malformed, strange, partial, bad, rejected>>
        /\ last' = published /\ next' = 1 /\ phase' = "events"
        /\ active' = {} /\ unread' = {} /\ seen' = Nothing
    BY <1>2 DEF ReadEvents, stream, damage
  <2>2. seen' \in [Assets -> SUBSET Ticks] /\ next' \in 1..(NumEvents + 1) /\ phase' \in Phases
    BY <2>1, Bounds DEF Nothing, Phases
  <2>3. TypeOK'
    BY <2>1, <2>2 DEF IInv, TypeOK
  <2>4. published \in Nat
    BY Bounds DEF IInv, TypeOK
  <2> QED
    BY <2>1, <2>3, <2>4, CycleStep DEF SeenIsACut, BatchIsNewest
<1> QED
  BY <1>1, <1>2

LEMMA GoIdleKeeps ==
    ASSUME IInv, GoIdle, UNCHANGED <<stream, damage, stores>>, troubles' \in 0..MaxTroubles,
           missed' \in BOOLEAN, missed' = missed \/ missed' = TRUE,
           phase = "submitting" => missed' = TRUE
    PROVE  IInv'
<1>1. UNCHANGED <<db, recorded, submitted, queued>> /\ phase' = "idle"
  BY DEF GoIdle, stores
<1>2. SubmittedIsNewest'
  BY <1>1, SameDb DEF IInv, SubmittedIsNewest
<1> QED
  BY <1>1, <1>2, IdleStep DEF IInv, TypeOK

LEMMA BeginCycleKeeps == ASSUME IInv, BeginCycle PROVE IInv'
<1>1. /\ UNCHANGED <<stream, damage, stores, seen, next, last, troubles, missed>>
      /\ phase = "idle" /\ phase' \in {"reading", "saving"}
      /\ active' = overlay /\ unread' \subseteq Assets
      /\ UNCHANGED <<clock, written, overlay, published, overlaid>>
      /\ UNCHANGED <<malformed, strange, partial, bad, rejected>>
      /\ UNCHANGED <<db, recorded, submitted, queued>>
  BY DEF BeginCycle, stream, damage, stores
<1>2. TypeOK'
  BY <1>1 DEF IInv, TypeOK, Phases
<1>3. SeenIsACut'
  BY <1>1 DEF IInv, SeenIsACut, Nothing
<1>4. SubmittedIsNewest' /\ BatchIsNewest'
  BY <1>1, SameDb DEF IInv, SubmittedIsNewest, BatchIsNewest
<1> QED
  BY <1>1, <1>2, <1>3, <1>4, CycleStep DEF IInv, ActiveWasOverlaid

LEMMA ReadFileKeeps == ASSUME IInv, NEW a \in Assets, ReadFile(a) PROVE IInv'
<1>1. /\ UNCHANGED <<stream, damage, stores, active, next, last, troubles, missed>>
      /\ phase = "reading" /\ phase' \in {"reading", "saving"}
      /\ unread' = unread \ {a}
      /\ seen' = [seen EXCEPT ![a] = {t \in written[a] : t > Latest}]
      /\ UNCHANGED <<clock, written, overlay, published, overlaid>>
      /\ UNCHANGED <<malformed, strange, partial, bad, rejected>>
      /\ UNCHANGED <<db, recorded, submitted, queued>>
  BY DEF ReadFile, stream, damage, stores
<1>2. TypeOK'
  BY <1>1 DEF IInv, TypeOK, Phases
<1>3. SeenIsACut'
  <2>1. Latest' = Latest
    BY <1>1, SameDb
  <2>2. seen'[a] = {t \in written[a] : t > Latest} /\ \A b \in Assets \ {a} : seen'[b] = seen[b]
    BY <1>1 DEF IInv, TypeOK
  <2>3. Latest \in Nat /\ \A t \in written[a] : t \in Nat
    BY LatestFacts, Bounds DEF IInv, TypeOK, Ticks
  <2> QED
    BY <1>1, <2>1, <2>2, <2>3 DEF IInv, SeenIsACut
<1>4. SubmittedIsNewest' /\ BatchIsNewest'
  BY <1>1, SameDb DEF IInv, SubmittedIsNewest, BatchIsNewest
<1> QED
  BY <1>1, <1>2, <1>3, <1>4, CycleStep DEF IInv, ActiveWasOverlaid

LEMMA SubmitKeeps == ASSUME IInv, Submit PROVE IInv'
<1>1. /\ phase = "submitting" /\ ReadEvents /\ missed' = FALSE
      /\ submitted' = IF Snapshot = Nothing THEN submitted ELSE Snapshot
      /\ UNCHANGED <<stream, damage, db, recorded, queued, troubles>>
  BY DEF Submit
<1>2. TypeOK
  BY DEF IInv
<1>3. submitted' \in [Assets -> SUBSET Ticks]
  <2>1. ASSUME NEW a \in Assets PROVE Window(a) \subseteq Ticks
    BY <1>2, WindowIsSaved DEF TypeOK
  <2>2. Snapshot \in [Assets -> SUBSET Ticks]
    BY <2>1 DEF Snapshot
  <2> QED
    BY <1>1, <1>2, <2>2 DEF TypeOK
<1>4. ASSUME NEW a \in Assets, Latest \in db[a]
      PROVE  Window(a) \in {{}, submitted'[a]}
  <2>1. Snapshot[a] = Window(a)
    BY <1>1, <1>4 DEF IInv, BatchIsNewest, Snapshot
  <2> QED
    BY <1>1, <2>1 DEF Nothing
<1>5. SubmittedIsNewest'
  BY <1>1, <1>4, SameDb DEF SubmittedIsNewest
<1>6. missed' \in BOOLEAN /\ troubles' \in 0..MaxTroubles
  BY <1>1, <1>2 DEF TypeOK
<1> QED
  BY <1>1, <1>3, <1>5, <1>6, ReadEventsKeeps

-----------------------------------------------------------------------------
(* The ticks of a batch are newer than all that was saved; the newest of    *)
(* them is the next Latest, and is saved for the expected machines only.    *)
LEMMA BatchFacts ==
    ASSUME IInv, Persist
    PROVE  /\ db' \in [Assets -> SUBSET Ticks]
           /\ \A a \in Assets : db'[a] \subseteq written[a] /\ db[a] \subseteq db'[a]
           /\ \A a \in Expected : db'[a] = db[a] \cup CompleteTicks
           /\ \A a \in Assets \ Expected : db'[a] = db[a]
           /\ Latest' \in CompleteTicks /\ Latest' \in 0..NumTicks
           /\ Latest < Latest' /\ \A a \in Assets : \A t \in db[a] : t < Latest'
           /\ Expected # {} /\ \A a \in Expected : \A t \in CompleteTicks : t \in seen[a]
<1>1. /\ phase = "saving" /\ CompleteTicks # {}
      /\ db' = [a \in Assets |-> db[a] \cup (IF a \in Expected THEN CompleteTicks \cap seen[a] ELSE {})]
  BY DEF Persist
<1>2. /\ db \in [Assets -> SUBSET Ticks] /\ seen \in [Assets -> SUBSET Ticks]
      /\ Expected \subseteq Assets
  BY DEF IInv, TypeOK, Expected
<1>3. /\ Expected # {} /\ CompleteTicks \subseteq Ticks
      /\ \A a \in Expected : \A t \in CompleteTicks : t \in seen[a]
  BY <1>1 DEF CompleteTicks
<1>4. /\ \A a \in Expected : db'[a] = db[a] \cup CompleteTicks
      /\ \A a \in Assets \ Expected : db'[a] = db[a]
      /\ db' \in [Assets -> SUBSET Ticks]
  BY <1>1, <1>2, <1>3
<1>5. \A a \in Assets : \A t \in seen[a] : t \in written[a] /\ t > Latest
  BY <1>1 DEF IInv, SeenIsACut
<1>6. \A a \in Assets : db'[a] \subseteq written[a] /\ db[a] \subseteq db'[a]
  BY <1>2, <1>3, <1>4, <1>5 DEF IInv, RowsAreDealtWith
<1>7. /\ Latest' \in 0..NumTicks
      /\ Latest' = 0 \/ \E a \in Assets : Latest' \in db'[a]
      /\ \A a \in Assets : \A t \in db'[a] : t <= Latest'
  BY <1>4, NewestSaved DEF Latest
<1>8. /\ Latest \in 0..NumTicks
      /\ \A a \in Assets : \A t \in db[a] : t \in Ticks /\ t <= Latest
  BY LatestFacts DEF IInv
<1>9. PICK a \in Expected, t \in CompleteTicks : t \in Nat /\ t > Latest /\ t <= Latest'
  <2>1. PICK a \in Expected, t \in CompleteTicks : TRUE
    BY <1>1, <1>3
  <2>2. t > Latest /\ t \in db'[a] /\ t \in Ticks
    BY <1>2, <1>3, <1>4, <1>5
  <2> QED
    BY <1>2, <1>7, <2>2, Bounds DEF Ticks
<1>10. Latest < Latest' /\ Latest \in Nat /\ Latest' \in Nat
  BY <1>7, <1>8, <1>9, Bounds
<1>11. \A b \in Assets : \A u \in db[b] : u < Latest'
  BY <1>8, <1>10, Bounds DEF Ticks
<1>12. Latest' \in CompleteTicks
  <2>1. PICK b \in Assets : Latest' \in db'[b]
    BY <1>7, <1>10
  <2>2. Latest' \notin db[b]
    BY <1>10, <1>11
  <2> QED
    BY <1>4, <2>1, <2>2
<1> QED
  BY <1>3, <1>4, <1>6, <1>7, <1>10, <1>11, <1>12

LEMMA PersistKeeps == ASSUME IInv, Persist PROVE IInv'
<1>1. /\ phase = "saving" /\ phase' = "submitting"
      /\ UNCHANGED <<stream, damage, recorded, submitted, queued, memory, troubles, missed>>
      /\ UNCHANGED <<clock, written, overlay, published, overlaid>>
      /\ UNCHANGED <<malformed, strange, partial, bad, rejected>>
      /\ UNCHANGED <<active, unread, seen, next, last>>
  BY DEF Persist, stream, damage, memory
<1>2. /\ db' \in [Assets -> SUBSET Ticks]
      /\ \A a \in Assets : db'[a] \subseteq written[a] /\ db[a] \subseteq db'[a]
      /\ \A a \in Expected : db'[a] = db[a] \cup CompleteTicks
      /\ \A a \in Assets \ Expected : db'[a] = db[a]
      /\ Latest' \in CompleteTicks /\ Latest' \in 0..NumTicks /\ Latest < Latest'
      /\ \A a \in Assets : \A t \in db[a] : t < Latest'
      /\ Expected # {} /\ \A a \in Expected : \A t \in CompleteTicks : t \in seen[a]
  BY BatchFacts
<1>3. /\ Latest \in Nat /\ Latest' \in Nat
      /\ \A a \in Assets : \A t \in written[a] : t \in Nat
  BY <1>2, LatestFacts, Bounds DEF IInv, TypeOK, Ticks
<1>4. TypeOK'
  BY <1>1, <1>2 DEF IInv, TypeOK, Phases
<1>5. RowsAreDealtWith' /\ ActiveWasOverlaid' /\ SeenIsACut'
  BY <1>1, <1>2 DEF IInv, RowsAreDealtWith, ActiveWasOverlaid, SeenIsACut
<1>6. \A a \in Assets \ overlaid : a \in Expected
  BY DEF IInv, ActiveWasOverlaid, Expected
<1>7. StreamersAreInLatest'
  BY <1>1, <1>2, <1>6 DEF StreamersAreInLatest
<1>8. LossOnlyByGap'
  <2> SUFFICES ASSUME NEW a \in Assets, NEW t \in written[a] \ db'[a], t <= Latest', a \notin overlaid
               PROVE  \E b \in Assets : t \notin written[b] /\ t <= clock[b]
    BY <1>1 DEF LossOnlyByGap
  <2>1. CASE t <= Latest
    BY <1>2, <2>1 DEF IInv, LossOnlyByGap
  <2>2. CASE Latest < t
    <3>1. a \in Expected /\ t \notin CompleteTicks /\ t # Latest' /\ t < Latest'
      BY <1>2, <1>3, <1>6
    <3>2. Latest' \in seen[a] /\ t \in seen[a]
      BY <1>1, <1>2, <2>2, <3>1 DEF IInv, SeenIsACut
    <3>3. PICK b \in Expected : t \notin seen[b]
      BY <1>2, <3>1, <3>2 DEF CompleteTicks, IInv, TypeOK
    <3>4. b \in Assets /\ Latest' \in seen[b] /\ Latest' \in written[b]
      BY <1>1, <1>2, <3>3 DEF Expected, IInv, SeenIsACut
    <3>5. t \notin written[b]
      BY <1>1, <2>2, <3>1, <3>3, <3>4 DEF IInv, SeenIsACut
    <3>6. t <= clock[b]
      <4>1. Latest' <= clock[b] /\ clock[b] \in Nat
        BY <3>4, Bounds DEF IInv, RowsAreDealtWith, TypeOK
      <4> QED
        BY <1>3, <3>1, <4>1
    <3> QED
      BY <3>4, <3>5, <3>6
  <2> QED
    BY <1>3, <2>1, <2>2
<1>9. BatchIsNewest' /\ SubmittedIsNewest'
  <2>1. \A a \in Assets : Latest' \in db'[a] => a \in Expected
    BY <1>2, <1>3 DEF IInv, TypeOK
  <2>2. Expected' = Expected
    BY <1>1 DEF Expected
  <2> QED
    BY <1>1, <2>1, <2>2 DEF BatchIsNewest, SubmittedIsNewest
<1>10. ASSUME NEW k \in 0..NumEvents, EventsReached(k) PROVE EventsReached(k)'
  BY <1>1, <1>10 DEF EventsReached
<1> QED
  BY <1>4, <1>5, <1>7, <1>8, <1>9, <1>10 DEF IInv

-----------------------------------------------------------------------------
(* A step that only records or hands over an event. *)
LEMMA EventStep ==
    ASSUME IInv, TypeOK', UNCHANGED <<stream, damage, db, submitted, active, seen, missed>>,
           phase \in {"events", "posting"}, phase' \in {"events", "posting"},
           \E k \in 0..NumEvents : EventsReached(k)'
    PROVE  IInv'
<1>1. /\ UNCHANGED <<clock, written, overlay, published, overlaid, db, submitted, active, missed>>
      /\ Latest' = Latest /\ \A a \in Assets : Window(a)' = Window(a)
  BY SameDb DEF stream
<1>2. RowsAreDealtWith' /\ ActiveWasOverlaid' /\ StreamersAreInLatest' /\ LossOnlyByGap'
  BY <1>1 DEF IInv, RowsAreDealtWith, ActiveWasOverlaid, StreamersAreInLatest, LossOnlyByGap
<1>3. SeenIsACut' /\ BatchIsNewest' /\ SubmittedIsNewest'
  BY <1>1 DEF IInv, SeenIsACut, BatchIsNewest, SubmittedIsNewest
<1> QED
  BY <1>2, <1>3 DEF IInv

LEMMA ConsumeEventKeeps == ASSUME IInv, ConsumeEvent PROVE IInv'
<1>1. /\ phase = "events" /\ phase' = "posting" /\ next <= last /\ next \notin bad
      /\ recorded' = recorded \cup {next}
      /\ UNCHANGED <<stream, damage, db, submitted, queued, memory, troubles, missed>>
      /\ UNCHANGED <<clock, written, overlay, published, overlaid>>
      /\ UNCHANGED <<malformed, strange, partial, bad, rejected>>
      /\ UNCHANGED <<active, unread, seen, next, last>>
  BY DEF ConsumeEvent, stream, damage, memory
<1>2. PICK k \in 0..NumEvents : EventsReached(k)
  BY DEF IInv
<1>3. /\ k \in Nat /\ published \in Nat /\ next \in Nat \ {0} /\ last \in Nat
      /\ published <= NumEvents
  BY Bounds DEF IInv, TypeOK
<1>4. next <= k + 1 /\ last <= published /\ next \in 1..published
  BY <1>1, <1>2, <1>3 DEF EventsReached
<1>5. TypeOK'
  <2>1. next \in Events
    BY <1>3, <1>4, Bounds DEF Events
  <2> QED
    BY <1>1, <2>1 DEF IInv, TypeOK, Phases
<1>6. recorded' \in {1..k, 1..(k + 1)}
  <2>1. 1..(k + 1) = (1..k) \cup {k + 1}
    BY <1>3
  <2>2. CASE next <= k
    BY <1>1, <1>2, <1>3, <2>1, <2>2 DEF EventsReached
  <2>3. CASE next = k + 1
    BY <1>1, <1>2, <2>1, <2>3 DEF EventsReached
  <2> QED
    BY <1>3, <1>4, <2>2, <2>3
<1>7. EventsReached(k)'
  BY <1>1, <1>2, <1>3, <1>4, <1>6 DEF EventsReached
<1> QED
  BY <1>1, <1>5, <1>7, EventStep

LEMMA PostEventKeeps == ASSUME IInv, PostEvent PROVE IInv'
<1>1. /\ phase = "posting" /\ phase' = "events" /\ queued' = queued \cup {next} /\ next' = next + 1
      /\ UNCHANGED <<stream, damage, db, recorded, submitted, active, unread, seen, last, troubles, missed>>
      /\ UNCHANGED <<clock, written, overlay, published, overlaid>>
      /\ UNCHANGED <<malformed, strange, partial, bad, rejected>>
  BY DEF PostEvent, stream, damage
<1>2. PICK k \in 0..NumEvents : EventsReached(k)
  BY DEF IInv
<1>3. /\ k \in Nat /\ published \in Nat /\ next \in Nat \ {0} /\ last \in Nat
      /\ published <= NumEvents
  BY Bounds DEF IInv, TypeOK
<1>4. /\ next <= k + 1 /\ last <= published /\ next <= last /\ next \in recorded
      /\ queued = 1..k /\ recorded \in {1..k, 1..(k + 1)}
      /\ recorded \subseteq 1..published
  BY <1>1, <1>2 DEF EventsReached
<1>5. TypeOK'
  <2>1. next \in Events /\ next' \in 1..(NumEvents + 1)
    BY <1>1, <1>3, <1>4, Bounds DEF Events
  <2> QED
    BY <1>1, <2>1 DEF IInv, TypeOK, Phases
<1>6. CASE next <= k
  <2>1. queued' = 1..k
    BY <1>1, <1>3, <1>4, <1>6
  <2>2. EventsReached(k)'
    BY <1>1, <1>2, <1>3, <1>4, <1>6, <2>1 DEF EventsReached
  <2> QED
    BY <1>1, <1>5, <2>2, EventStep
<1>7. CASE next = k + 1
  <2>1. queued' = 1..(k + 1)
    BY <1>1, <1>3, <1>4, <1>7
  <2>2. recorded = 1..(k + 1)
    BY <1>3, <1>4, <1>7
  <2>3. EventsReached(k + 1)'
    BY <1>1, <1>3, <1>4, <1>7, <2>1, <2>2 DEF EventsReached
  <2>4. k + 1 \in 0..NumEvents
    BY <1>3, <1>4, <1>7, Bounds
  <2> QED
    BY <1>1, <1>5, <2>3, <2>4, EventStep
<1> QED
  BY <1>3, <1>4, <1>6, <1>7

-----------------------------------------------------------------------------
LEMMA NextIInv == ASSUME IInv, [Next]_vars PROVE IInv'
<1>1. CASE Stream \/ Damage
  BY <1>1, StreamKeeps
<1>2. CASE BeginCycle
  BY <1>2, BeginCycleKeeps
<1>3. CASE \E a \in Assets : ReadFile(a)
  BY <1>3, ReadFileKeeps
<1>4. CASE NothingNew
  <2>1. /\ phase = "saving" /\ ReadEvents /\ UNCHANGED <<db, recorded, submitted, queued, missed>>
        /\ UNCHANGED <<stream, damage, troubles>>
    BY <1>4 DEF NothingNew, stores
  <2>2. SubmittedIsNewest'
    BY <2>1, SameDb DEF IInv, SubmittedIsNewest
  <2> QED
    BY <2>1, <2>2, ReadEventsKeeps DEF IInv, TypeOK
<1>5. CASE Persist
  BY <1>5, PersistKeeps
<1>6. CASE Submit
  BY <1>6, SubmitKeeps
<1>7. CASE ConsumeEvent
  BY <1>7, ConsumeEventKeeps
<1>8. CASE PostEvent
  BY <1>8, PostEventKeeps
<1>9. CASE \/ EventIsRefused \/ EventIsRejected \/ BatchIsRefused \/ EndCycle
           \/ \E a \in Assets : FileIsRefused(a)
  <2>1. /\ GoIdle /\ UNCHANGED <<stream, damage, stores, troubles, missed>>
        /\ phase # "submitting"
    BY <1>9 DEF EventIsRefused, EventIsRejected, BatchIsRefused, EndCycle, FileIsRefused
  <2> QED
    BY <2>1, GoIdleKeeps DEF IInv, TypeOK
<1>10. CASE CycleFails
  <2>1. /\ GoIdle /\ UNCHANGED <<stream, damage, stores>>
        /\ missed' = (missed \/ phase = "submitting")
        /\ troubles < MaxTroubles /\ troubles' = troubles + 1
    BY <1>10 DEF CycleFails, Trouble
  <2>2. missed \in BOOLEAN /\ troubles \in 0..MaxTroubles
    BY DEF IInv, TypeOK
  <2>3. /\ missed' \in BOOLEAN /\ (missed' = missed \/ missed' = TRUE)
        /\ (phase = "submitting" => missed' = TRUE)
    BY <2>1, <2>2, Zenon
  <2>4. troubles' \in 0..MaxTroubles
    BY <2>1, <2>2, Bounds
  <2> QED
    BY <2>1, <2>3, <2>4, GoIdleKeeps
<1>11. CASE UNCHANGED vars
  <2>1. /\ UNCHANGED <<db, recorded, submitted, queued, phase, active, unread, seen>>
        /\ UNCHANGED <<next, last, troubles, missed>>
        /\ UNCHANGED <<clock, written, overlay, published, overlaid>>
      /\ UNCHANGED <<malformed, strange, partial, bad, rejected>>
    BY <1>11 DEF vars, stream, damage, stores, memory
  <2>2. Latest' = Latest /\ \A a \in Assets : Window(a)' = Window(a)
    BY <2>1, SameDb
  <2>3. TypeOK' /\ RowsAreDealtWith' /\ ActiveWasOverlaid' /\ SeenIsACut' /\ StreamersAreInLatest'
    BY <2>1, <2>2 DEF IInv, TypeOK, RowsAreDealtWith, ActiveWasOverlaid, SeenIsACut,
       StreamersAreInLatest, Nothing
  <2>4. LossOnlyByGap' /\ BatchIsNewest' /\ SubmittedIsNewest'
    BY <2>1, <2>2 DEF IInv, LossOnlyByGap, BatchIsNewest, SubmittedIsNewest, Expected
  <2>5. \A k : EventsReached(k) => EventsReached(k)'
    BY <2>1 DEF EventsReached
  <2> QED
    BY <2>3, <2>4, <2>5 DEF IInv
<1> QED
  BY <1>1, <1>2, <1>3, <1>4, <1>5, <1>6, <1>7, <1>8, <1>9, <1>10, <1>11 DEF Next, Worker

THEOREM LiveInvariant == Spec => []IInv
<1>1. IInv /\ [Next]_vars => IInv'
  BY NextIInv
<1> QED
  BY <1>1, InitIInv, PTL DEF Spec

(* The worker's state and what gen_data does keep their types.              *)
THEOREM LiveTypeCorrect == Spec => []TypeOK
<1>1. IInv => TypeOK
  BY DEF IInv
<1> QED
  BY <1>1, LiveInvariant, PTL

(* Files are read at different moments while gen_data appends, overlays     *)
(* change and cycles fail: a row is lost only to the overlay, or behind a   *)
(* tick that another machine left out.                                      *)
THEOREM LiveLosesOnlyByGap == Spec => []LossOnlyByGap
<1>1. IInv => LossOnlyByGap
  BY DEF IInv
<1> QED
  BY <1>1, LiveInvariant, PTL

(* The Generator has the newest window of every machine of the newest tick, *)
(* whatever changes of the overlay came between saving and submitting it.   *)
THEOREM LiveNewestWindowIsSubmitted == Spec => []NewestWindowIsSubmitted
<1>1. IInv => NewestWindowIsSubmitted
  BY DEF IInv, SubmittedIsNewest, NewestWindowIsSubmitted
<1> QED
  BY <1>1, LiveInvariant, PTL

(* The Generator takes the overlay's events in order and each after its     *)
(* rows, also when cycles die between the two.                              *)
THEOREM LiveEventsGoInOrder == Spec => []EventsGoInOrder
<1>1. ASSUME IInv PROVE EventsGoInOrder
  <2>1. PICK k \in 0..NumEvents : EventsReached(k)
    BY <1>1 DEF IInv
  <2>2. k \in 0..published
    BY <1>1, <2>1, Bounds DEF IInv, TypeOK, EventsReached
  <2> QED
    BY <2>1, <2>2 DEF EventsGoInOrder, EventsReached
<1> QED
  BY <1>1, LiveInvariant, PTL
=============================================================================
