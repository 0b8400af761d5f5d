--------------------------- MODULE MaintenanceProofs ---------------------------
(***************************************************************************)
(* For any cases, machines, clients and keys: the maintenance loop stays   *)
(* type correct, the equipment's version counts its completed maintenances,*)
(* a recorded key is one effect that is still there, retries are answered, *)
(* and all of it implements MaintenanceLifecycle.  The checked invariants  *)
(* become inductive with what a transaction under way may rely on: the     *)
(* rows it holds locked (LockedRows), the key it has inserted              *)
(* (ReservedKeys) and the equipment state it has read (SeenEquipment).     *)
(***************************************************************************)
EXTENDS Maintenance, TLAPS, FiniteSetTheorems

(* A command comes with an argument of its own kind, and is recorded so. *)
ArgsMatch ==
    /\ \A w \in Clients : request[w] # NoRequest => Arg(w) \in ArgsOf(Command(w))
    /\ \A k \in Recorded : records[k] \in ArgsOf(k.command)

(* A transaction that has inserted its key is alone with it. *)
ReservedKeys ==
    \A w \in InTransaction :
       /\ records[Key(w)] = NoArg
       /\ \A v \in InTransaction : Key(v) = Key(w) => v = w

(* A completion holds the rows it has updated as it found them. *)
LockedRows ==
    \A w \in Clients : phase[w] = "locked" =>
       /\ Command(w) = "complete"
       /\ MayComplete(seen[w], row[Case(w)])
       /\ \A v \in Clients : phase[v] = "locked" /\ Case(v) = Case(w) => v = w

(* An equipment state that was read and has the same version is the same. *)
SeenEquipment ==
    \A w \in Clients : phase[w] = "locked" =>
       /\ seenMachine[w].version <= equipment[MachineOf[Case(w)]].version
       /\ seenMachine[w].version = equipment[MachineOf[Case(w)]].version
             => seenMachine[w] = equipment[MachineOf[Case(w)]]

(* A request that had succeeded when it was sent is still recorded, and     *)
(* does not get past the look-up of its key.                                *)
RetriesRecorded ==
    \A w \in Clients : request[w] # NoRequest /\ request[w].attempt = "again" =>
       /\ records[Key(w)] = Arg(w)
       /\ phase[w] \in {"sent", "checked"}

IInv ==
    /\ TypeOK
    /\ ArgsMatch
    /\ ReservedKeys
    /\ LockedRows
    /\ SeenEquipment
    /\ RetriesRecorded
    /\ EquipmentCountsEvents
    /\ OneEffect

-----------------------------------------------------------------------------
(* Rows that agree are turned by a permitted command into rows that agree   *)
(* and show what the command was answered with; only a completion completes.*)
LEMMA UpdateAgrees ==
    ASSUME NEW r \in Row, NEW s \in Row, RowsAgree(r),
           NEW command \in Commands, NEW arg \in ArgsOf(command),
           MayCommit(command, arg, s, r)
    PROVE  LET r2 == Updated(command, arg, r)
           IN  /\ r2 \in Row
               /\ RowsAgree(r2)
               /\ Done(command, arg, r2)
               /\ command # "complete" => (r2.action = "completed" <=> r.action = "completed")
               /\ command = "complete" => r2.action = "completed" /\ r.action = "in_progress"
<1>1. CASE command = "recommend"
  <2>1. arg \in Texts /\ arg # NoArg
    BY <1>1, MaintenanceAssumption DEF ArgsOf, Args
  <2> QED
    BY <1>1, <2>1 DEF Row, RowsAgree, MayCommit, MayRecommend, Updated, Recommended, Done,
       RecommendationStatuses, OrderStatuses, ActionStatuses
<1>2. CASE command = "decide"
  <2> DEFINE r2 == Decided(arg, r)
  <2>1. arg \in Dispositions
    BY <1>2 DEF ArgsOf
  <2>2. /\ r.recommendation \in {"proposed", "deferred"}
        /\ r.text # NoArg /\ r.order = "none" /\ r.action = "none" /\ r.lifecycle = 0
    BY <1>2, <2>1 DEF RowsAgree, MayCommit, MayRecordDecision, MayDecide, Row, OrderStatuses
  <2>3. /\ r2 \in Row
        /\ r2.text # NoArg /\ r2.action = "none" /\ r2.lifecycle = 0
        /\ \/ arg = "accept" /\ r2.recommendation = "accepted" /\ r2.order = "requested"
           \/ arg = "reject" /\ r2.recommendation = "rejected" /\ r2.order = "none"
           \/ arg = "defer" /\ r2.recommendation = "deferred" /\ r2.order = "none"
    BY <2>1, <2>2 DEF Decided, Row, RecommendationStatuses, OrderStatuses, Dispositions
  <2>4. RowsAgree(r2)
    BY <2>3 DEF RowsAgree
  <2>5. Done(command, arg, r2)
    BY <1>2, <2>3 DEF Done
  <2>6. Updated(command, arg, r) = r2
    BY <1>2 DEF Updated
  <2> QED
    BY <1>2, <2>2, <2>3, <2>4, <2>5, <2>6
<1>3. CASE command = "approve"
  BY <1>3 DEF Row, RowsAgree, MayCommit, MayApprove, Updated, Approved, Done,
     RecommendationStatuses, OrderStatuses, ActionStatuses
<1>4. CASE command = "start"
  <2>1. /\ r.order = "approved" /\ r.action = "planned"
        /\ r.recommendation = "accepted" /\ r.text # NoArg
    BY <1>4 DEF RowsAgree, MayCommit, MayStart
  <2>2. Updated(command, arg, r) = Started(r)
    BY <1>4 DEF Updated
  <2>3. /\ Started(r) \in Row
        /\ Started(r).order = "in_progress" /\ Started(r).action = "in_progress"
        /\ Started(r).lifecycle = 1
        /\ Started(r).recommendation = "accepted" /\ Started(r).text # NoArg
    <3> DEFINE half == [r EXCEPT !.order = "in_progress", !.action = "in_progress"]
    <3>1. Started(r) = [half EXCEPT !.lifecycle = 1]
      BY DEF Started
    <3>2. half \in Row
      BY DEF Row, OrderStatuses, ActionStatuses
    <3>3. \A q \in Row : [q EXCEPT !.lifecycle = 1] \in Row
      BY DEF Row
    <3>4. Started(r) \in Row
      BY <3>1, <3>2, <3>3
    <3> QED
      BY <2>1, <3>4 DEF Started, Row
  <2>4. RowsAgree(Started(r)) /\ Done(command, arg, Started(r))
    BY <1>4, <2>3 DEF RowsAgree, Done
  <2> QED
    BY <1>4, <2>1, <2>2, <2>3, <2>4
<1>5. CASE command = "complete"
  <2>1. /\ r.order = "in_progress" /\ r.action = "in_progress"
        /\ r.recommendation = "accepted" /\ r.text # NoArg
    BY <1>5 DEF RowsAgree, MayCommit, MayComplete
  <2>2. Updated(command, arg, r) = Completed(r)
    BY <1>5 DEF Updated
  <2>3. /\ Completed(r) \in Row
        /\ Completed(r).order = "completed" /\ Completed(r).action = "completed"
        /\ Completed(r).lifecycle = 2
        /\ Completed(r).recommendation = "accepted" /\ Completed(r).text # NoArg
    <3> DEFINE half == [r EXCEPT !.order = "completed", !.action = "completed"]
    <3>1. Completed(r) = [half EXCEPT !.lifecycle = 2]
      BY DEF Completed
    <3>2. half \in Row
      BY DEF Row, OrderStatuses, ActionStatuses
    <3>3. \A q \in Row : [q EXCEPT !.lifecycle = 2] \in Row
      BY DEF Row
    <3>4. Completed(r) \in Row
      BY <3>1, <3>2, <3>3
    <3> QED
      BY <2>1, <3>4 DEF Completed, Row
  <2>4. RowsAgree(Completed(r)) /\ Done(command, arg, Completed(r))
    BY <1>5, <2>3 DEF RowsAgree, Done
  <2> QED
    BY <1>5, <2>1, <2>2, <2>3, <2>4
<1>6. CASE command = "replay"
  BY <1>6 DEF Row, RowsAgree, MayCommit, MayReplay, Updated, ReplayRequested, Done,
     RecommendationStatuses, OrderStatuses, ActionStatuses
<1> QED
  BY <1>1, <1>2, <1>3, <1>4, <1>5, <1>6 DEF Commands

(* What other commands were answered with stays true of the rows. *)
LEMMA EffectsStay ==
    ASSUME NEW r \in Row, NEW s \in Row, RowsAgree(r),
           NEW command \in Commands, NEW arg \in ArgsOf(command),
           MayCommit(command, arg, s, r),
           NEW k \in Commands, NEW a \in ArgsOf(k), Done(k, a, r)
    PROVE  Done(k, a, Updated(command, arg, r))
<1>0. /\ k = "recommend" => a \in Texts /\ a # NoArg
      /\ command = "decide" => arg \in Dispositions
  BY MaintenanceAssumption DEF ArgsOf, Args
<1>1. CASE command = "recommend"
  BY <1>0, <1>1 DEF Row, RowsAgree, MayCommit, MayRecommend, Updated, Recommended, Done, Commands
<1>2. CASE command = "decide"
  BY <1>0, <1>2 DEF Row, RowsAgree, MayCommit, MayRecordDecision, MayDecide, Updated, Decided,
     Done, Commands, Dispositions
<1>3. CASE command = "approve"
  BY <1>0, <1>3 DEF Row, RowsAgree, MayCommit, MayApprove, Updated, Approved, Done, Commands
<1>4. CASE command = "start"
  <2>1. Updated(command, arg, r) = Started(r)
    BY <1>4 DEF Updated
  <2>2. /\ Started(r).text = r.text /\ Started(r).recommendation = r.recommendation
        /\ Started(r).lifecycle = 1 /\ Started(r).action # "none" /\ r.lifecycle = 0
    BY <1>4 DEF Started, Row, MayCommit, MayStart
  <2> QED
    BY <2>1, <2>2 DEF Done
<1>5. CASE command = "complete"
  <2>1. Updated(command, arg, r) = Completed(r)
    BY <1>5 DEF Updated
  <2>2. /\ Completed(r).text = r.text /\ Completed(r).recommendation = r.recommendation
        /\ Completed(r).lifecycle = 2 /\ Completed(r).action # "none" /\ r.lifecycle < 2
        /\ r.lifecycle \in Nat
    BY <1>5 DEF Completed, Row, MayCommit, MayComplete
  <2> QED
    BY <2>1, <2>2 DEF Done
<1>6. CASE command = "replay"
  BY <1>0, <1>6 DEF Row, RowsAgree, MayCommit, MayReplay, Updated, ReplayRequested, Done, Commands
<1> QED
  BY <1>1, <1>2, <1>3, <1>4, <1>5, <1>6 DEF Commands

(* A command is not permitted where the same effect is there already. *)
LEMMA NotTwice ==
    ASSUME NEW r \in Row, NEW s \in Row, RowsAgree(r),
           NEW command \in Commands \ {"recommend"}, NEW arg \in ArgsOf(command),
           NEW a \in ArgsOf(command), Done(command, a, r),
           command = "decide" => (a = "defer" <=> arg = "defer")
    PROVE  ~MayCommit(command, arg, s, r)
<1>1. CASE command = "decide"
  BY <1>1 DEF Row, RowsAgree, MayCommit, MayRecordDecision, MayDecide, Done, ArgsOf, Dispositions
<1>2. CASE command = "approve"
  BY <1>2 DEF Row, RowsAgree, MayCommit, MayApprove, Done
<1>3. CASE command = "start"
  BY <1>3 DEF Row, RowsAgree, MayCommit, MayStart, Done
<1>4. CASE command = "complete"
  BY <1>4 DEF Row, RowsAgree, MayCommit, MayComplete, Done
<1>5. CASE command = "replay"
  BY <1>5 DEF Row, RowsAgree, MayCommit, MayReplay, Done
<1> QED
  BY <1>1, <1>2, <1>3, <1>4, <1>5 DEF Commands

-----------------------------------------------------------------------------
(* What is known of a command under way. *)
LEMMA CommandFacts ==
    ASSUME TypeOK, ArgsMatch, NEW w \in Clients, phase[w] \in Underway
    PROVE  /\ request[w] # NoRequest
           /\ request[w] \in [key : Keys, arg : Args, attempt : {"first", "again"}]
           /\ Key(w) \in Keys /\ Command(w) \in Commands /\ Case(w) \in Cases
           /\ Arg(w) \in ArgsOf(Command(w)) /\ Arg(w) \in Args /\ Arg(w) # NoArg
           /\ MachineOf[Case(w)] \in Machines
           /\ row[Case(w)] \in Row
<1>1. request[w] # NoRequest /\ request[w] \in [key : Keys, arg : Args, attempt : {"first", "again"}]
  BY DEF TypeOK
<1>2. Key(w) \in Keys /\ Arg(w) \in Args /\ Arg(w) # NoArg
  BY <1>1, MaintenanceAssumption DEF Key, Arg
<1>3. Command(w) \in Commands /\ Case(w) \in Cases
  BY <1>2, MaintenanceAssumption DEF Key, Command, Case
<1> QED
  BY <1>1, <1>2, <1>3, MaintenanceAssumption DEF ArgsMatch, TypeOK

(* A command that ends without a trace but for its answer. *)
LEMMA EndKeeps ==
    ASSUME IInv, NEW w \in Clients, NEW how \in Ended, End(w, how), UNCHANGED data
    PROVE  IInv'
<1>1. /\ phase' = [phase EXCEPT ![w] = how] /\ phase'[w] = how
      /\ request' = [request EXCEPT ![w] = NoRequest] /\ request'[w] = NoRequest
      /\ seen' = [seen EXCEPT ![w] = Unread]
      /\ seenMachine' = [seenMachine EXCEPT ![w] = Unread]
      /\ row' = row /\ equipment' = equipment /\ outbox' = outbox /\ records' = records
  BY DEF End, data, IInv, TypeOK
<1>2. how \notin Underway /\ {"selected", "reserved", "locked"} \subseteq Underway
  BY DEF Ended, Underway
<1>3. \A v \in Clients \ {w} :
         /\ phase'[v] = phase[v] /\ request'[v] = request[v]
         /\ seen'[v] = seen[v] /\ seenMachine'[v] = seenMachine[v]
         /\ (Key(v))' = Key(v) /\ (Command(v))' = Command(v)
         /\ (Case(v))' = Case(v) /\ (Arg(v))' = Arg(v)
  BY <1>1 DEF IInv, TypeOK, Key, Command, Case, Arg
<1>4. TypeOK'
  <2>1. /\ phase' \in [Clients -> Ended \cup Underway]
        /\ request' \in [Clients -> [key : Keys, arg : Args, attempt : {"first", "again"}] \cup {NoRequest}]
        /\ seen' \in [Clients -> Row \cup {Unread}]
        /\ seenMachine' \in [Clients -> Equipment \cup {Unread}]
    BY <1>1 DEF IInv, TypeOK
  <2>2. \A v \in Clients :
          /\ phase'[v] \in Underway <=> request'[v] # NoRequest
          /\ phase'[v] \in {"selected", "reserved", "locked"} => seen'[v] \in Row
          /\ phase'[v] = "locked" => seenMachine'[v] \in Equipment
    BY <1>1, <1>2, <1>3 DEF IInv, TypeOK
  <2> QED
    BY <1>1, <2>1, <2>2 DEF IInv, TypeOK
<1>5. ArgsMatch'
  BY <1>1, <1>3 DEF IInv, ArgsMatch, Recorded
<1>6. InTransaction' \subseteq InTransaction \ {w}
  BY <1>1, <1>2, <1>3 DEF InTransaction
<1>7. ReservedKeys'
  BY <1>1, <1>3, <1>6 DEF IInv, ReservedKeys, InTransaction
<1>8. LockedRows' /\ SeenEquipment' /\ RetriesRecorded'
  BY <1>1, <1>2, <1>3 DEF IInv, LockedRows, SeenEquipment, RetriesRecorded
<1>9. EquipmentCountsEvents' /\ OneEffect'
  BY <1>1 DEF IInv, EquipmentCountsEvents, OneEffect, Recorded, SameEffect
<1> QED
  BY <1>4, <1>5, <1>7, <1>8, <1>9 DEF IInv

(* The frame of a command that goes on in its transaction. *)
LEMMA GoOnFrame ==
    ASSUME IInv, NEW w \in Clients, phase[w] \in Underway,
           NEW next \in Underway, GoOn(w, next), UNCHANGED data,
           seen' \in [Clients -> Row \cup {Unread}],
           seenMachine' \in [Clients -> Equipment \cup {Unread}],
           \A v \in Clients \ {w} : seen'[v] = seen[v] /\ seenMachine'[v] = seenMachine[v],
           next \in {"selected", "reserved", "locked"} => seen'[w] \in Row,
           next = "locked" => seenMachine'[w] \in Equipment
    PROVE  /\ TypeOK' /\ ArgsMatch' /\ EquipmentCountsEvents' /\ OneEffect'
           /\ row' = row /\ equipment' = equipment /\ records' = records /\ request' = request
           /\ phase'[w] = next /\ \A v \in Clients \ {w} : phase'[v] = phase[v]
           /\ \A v \in Clients :
                 /\ (Key(v))' = Key(v) /\ (Command(v))' = Command(v)
                 /\ (Case(v))' = Case(v) /\ (Arg(v))' = Arg(v)
<1>1. /\ row' = row /\ equipment' = equipment /\ outbox' = outbox /\ records' = records
      /\ request' = request
      /\ phase' = [phase EXCEPT ![w] = next]
  BY DEF data, GoOn
<1>2. phase'[w] = next /\ \A v \in Clients \ {w} : phase'[v] = phase[v]
  BY <1>1 DEF IInv, TypeOK
<1>3. phase' \in [Clients -> Ended \cup Underway]
  BY <1>1 DEF IInv, TypeOK
<1>4. \A v \in Clients :
        /\ phase'[v] \in Underway <=> request'[v] # NoRequest
        /\ phase'[v] \in {"selected", "reserved", "locked"} => seen'[v] \in Row
        /\ phase'[v] = "locked" => seenMachine'[v] \in Equipment
  BY <1>1, <1>2 DEF IInv, TypeOK
<1>5. TypeOK'
  BY <1>1, <1>3, <1>4 DEF IInv, TypeOK
<1>6. \A v \in Clients :
         /\ (Key(v))' = Key(v) /\ (Command(v))' = Command(v)
         /\ (Case(v))' = Case(v) /\ (Arg(v))' = Arg(v)
  BY <1>1 DEF Key, Command, Case, Arg
<1>7. ArgsMatch'
  BY <1>1, <1>6 DEF IInv, ArgsMatch, Recorded
<1>8. EquipmentCountsEvents' /\ OneEffect'
  BY <1>1 DEF IInv, EquipmentCountsEvents, OneEffect, Recorded, SameEffect
<1> QED
  BY <1>1, <1>2, <1>5, <1>6, <1>7, <1>8

LEMMA SendKeeps ==
    ASSUME IInv, NEW w \in Clients, Send(w)
    PROVE  IInv'
<1> DEFINE new(k, arg) == [key |-> k, arg |-> arg,
                           attempt |-> IF records[k] = arg THEN "again" ELSE "first"]
<1>0. PICK k \in Keys : \E arg \in ArgsOf(k.command) :
        request' = [request EXCEPT ![w] = new(k, arg)]
  BY DEF Send
<1>1. PICK arg \in ArgsOf(k.command) : request' = [request EXCEPT ![w] = new(k, arg)]
  BY <1>0
<1>2. /\ phase[w] \in Ended
      /\ phase' = [phase EXCEPT ![w] = "sent"]
      /\ row' = row /\ equipment' = equipment /\ outbox' = outbox /\ records' = records
      /\ seen' = seen /\ seenMachine' = seenMachine
  BY DEF Send, data
<1>3. arg \in Args
  BY MaintenanceAssumption DEF ArgsOf, Args
<1>4. new(k, arg) \in [key : Keys, arg : Args, attempt : {"first", "again"}] /\ new(k, arg) # NoRequest
  BY <1>3, MaintenanceAssumption
<1>5. /\ request'[w] = new(k, arg) /\ phase'[w] = "sent"
      /\ \A v \in Clients \ {w} : phase'[v] = phase[v] /\ request'[v] = request[v]
  BY <1>1, <1>2 DEF IInv, TypeOK
<1>6. \A v \in Clients \ {w} :
         /\ (Key(v))' = Key(v) /\ (Command(v))' = Command(v)
         /\ (Case(v))' = Case(v) /\ (Arg(v))' = Arg(v)
  BY <1>5 DEF Key, Command, Case, Arg
<1>7. (Key(w))' = k /\ (Command(w))' = k.command /\ (Arg(w))' = arg
  BY <1>5 DEF Key, Command, Arg
<1>8. TypeOK'
  <2>1. phase' \in [Clients -> Ended \cup Underway]
    BY <1>2 DEF IInv, TypeOK, Underway
  <2>2. request' \in [Clients -> [key : Keys, arg : Args, attempt : {"first", "again"}] \cup {NoRequest}]
    BY <1>1, <1>4 DEF IInv, TypeOK
  <2>3. \A v \in Clients :
          /\ phase'[v] \in Underway <=> request'[v] # NoRequest
          /\ phase'[v] \in {"selected", "reserved", "locked"} => seen'[v] \in Row
          /\ phase'[v] = "locked" => seenMachine'[v] \in Equipment
    <3>1. "sent" \in Underway
      BY DEF Underway
    <3> QED
      BY <1>2, <1>4, <1>5, <3>1 DEF IInv, TypeOK
  <2> QED
    BY <1>2, <2>1, <2>2, <2>3 DEF IInv, TypeOK
<1>9. ArgsMatch'
  BY <1>2, <1>5, <1>6, <1>7 DEF IInv, ArgsMatch, Recorded
<1>10. InTransaction' \subseteq InTransaction \ {w}
  BY <1>5 DEF InTransaction
<1>11. ReservedKeys'
  BY <1>2, <1>6, <1>10 DEF IInv, ReservedKeys, InTransaction
<1>12. LockedRows' /\ SeenEquipment'
  BY <1>2, <1>5, <1>6 DEF IInv, LockedRows, SeenEquipment
<1>13. RetriesRecorded'
  <2>1. request'[w].attempt = "again" => records[k] = arg
    BY <1>5
  <2> QED
    BY <1>2, <1>5, <1>6, <1>7, <2>1 DEF IInv, RetriesRecorded
<1>14. EquipmentCountsEvents' /\ OneEffect'
  BY <1>2 DEF IInv, EquipmentCountsEvents, OneEffect, Recorded, SameEffect
<1> QED
  BY <1>8, <1>9, <1>11, <1>12, <1>13, <1>14 DEF IInv

(* Outside its transaction a command holds no key and no row. *)
LEMMA GoOnOutside ==
    ASSUME IInv, NEW w \in Clients, phase[w] \in Underway \ {"reserved", "locked"},
           NEW next \in Underway \ {"reserved", "locked"}, GoOn(w, next), UNCHANGED data,
           seen' \in [Clients -> Row \cup {Unread}],
           \A v \in Clients \ {w} : seen'[v] = seen[v],
           UNCHANGED seenMachine,
           next = "selected" => seen'[w] \in Row,
           request[w].attempt = "again" => next \in {"sent", "checked"}
    PROVE  IInv'
<1>1. /\ seenMachine' \in [Clients -> Equipment \cup {Unread}]
      /\ \A v \in Clients \ {w} : seenMachine'[v] = seenMachine[v]
  BY DEF IInv, TypeOK
<1>2. /\ TypeOK' /\ ArgsMatch' /\ EquipmentCountsEvents' /\ OneEffect'
      /\ row' = row /\ equipment' = equipment /\ records' = records /\ request' = request
      /\ phase'[w] = next /\ \A v \in Clients \ {w} : phase'[v] = phase[v]
      /\ \A v \in Clients :
            /\ (Key(v))' = Key(v) /\ (Command(v))' = Command(v)
            /\ (Case(v))' = Case(v) /\ (Arg(v))' = Arg(v)
  BY <1>1, GoOnFrame
<1>3. InTransaction' = InTransaction
  BY <1>2 DEF InTransaction
<1>4. ReservedKeys'
  BY <1>2, <1>3 DEF IInv, ReservedKeys, InTransaction
<1>5. LockedRows' /\ SeenEquipment' /\ RetriesRecorded'
  BY <1>1, <1>2 DEF IInv, LockedRows, SeenEquipment, RetriesRecorded
<1> QED
  BY <1>2, <1>4, <1>5 DEF IInv

LEMMA CheckKeeps ==
    ASSUME IInv, NEW w \in Clients, Check(w)
    PROVE  IInv'
<1>1. phase[w] = "sent" /\ UNCHANGED data
  BY DEF Check
<1>2. CASE ServiceAccepts(Command(w), Arg(w), row[Case(w)])
  <2>1. GoOn(w, "checked") /\ UNCHANGED <<seen, seenMachine>>
    BY <1>2 DEF Check
  <2>2. seen' \in [Clients -> Row \cup {Unread}] /\ \A v \in Clients \ {w} : seen'[v] = seen[v]
    BY <2>1 DEF IInv, TypeOK
  <2>3. "checked" \in Underway \ {"reserved", "locked"} /\ "sent" \in Underway \ {"reserved", "locked"}
    BY DEF Underway
  <2> QED
    BY <1>1, <2>1, <2>2, <2>3, GoOnOutside
<1>3. CASE ~ServiceAccepts(Command(w), Arg(w), row[Case(w)])
  <2>1. End(w, "refused") /\ "refused" \in Ended
    BY <1>3 DEF Check, Ended
  <2> QED
    BY <1>1, <2>1, EndKeeps
<1> QED
  BY <1>2, <1>3

LEMMA SelectKeyKeeps ==
    ASSUME IInv, NEW w \in Clients, SelectKey(w)
    PROVE  IInv'
<1>1. phase[w] = "checked" /\ UNCHANGED data
  BY DEF SelectKey
<1>2. "checked" \in Underway \ {"reserved", "locked"} /\ "selected" \in Underway \ {"reserved", "locked"}
      /\ "replayed" \in Ended /\ "refused" \in Ended
  BY DEF Underway, Ended
<1>3. CASE records[Key(w)] = NoArg
  <2>1. row[Case(w)] \in Row /\ request[w] # NoRequest /\ Arg(w) # NoArg
    BY <1>1, <1>2, CommandFacts DEF IInv
  <2>2. GoOn(w, "selected") /\ seen' = [seen EXCEPT ![w] = row[Case(w)]] /\ UNCHANGED seenMachine
    BY <1>3, <2>1 DEF SelectKey
  <2>3. request[w].attempt # "again"
    BY <1>3, <2>1 DEF IInv, RetriesRecorded
  <2>4. /\ seen' \in [Clients -> Row \cup {Unread}] /\ seen'[w] \in Row
        /\ \A v \in Clients \ {w} : seen'[v] = seen[v]
    BY <2>2, <2>1 DEF IInv, TypeOK
  <2> QED
    BY <1>1, <1>2, <2>2, <2>3, <2>4, GoOnOutside
<1>4. CASE records[Key(w)] # NoArg
  <2>1. End(w, "replayed") \/ End(w, "refused")
    BY <1>4 DEF SelectKey
  <2> QED
    BY <1>1, <1>2, <2>1, EndKeeps
<1> QED
  BY <1>3, <1>4

LEMMA InsertKeyKeeps ==
    ASSUME IInv, NEW w \in Clients, InsertKey(w)
    PROVE  IInv'
<1>1. /\ phase[w] = "selected" /\ UNCHANGED data
      /\ \A v \in InTransaction : Key(v) # Key(w)
  BY DEF InsertKey
<1>2. "selected" \in Underway /\ "reserved" \in Underway /\ "refused" \in Ended
  BY DEF Underway, Ended
<1>3. CASE records[Key(w)] = NoArg
  <2> DEFINE r == ReadsAgain(Command(w), seen[w], row[Case(w)])
  <2>1. GoOn(w, "reserved") /\ seen' = [seen EXCEPT ![w] = r] /\ UNCHANGED seenMachine
    BY <1>3 DEF InsertKey
  <2>2. /\ seenMachine' \in [Clients -> Equipment \cup {Unread}]
        /\ \A v \in Clients \ {w} : seenMachine'[v] = seenMachine[v]
    BY <2>1 DEF IInv, TypeOK
  <2>3. row[Case(w)] \in Row /\ seen[w] \in Row
        /\ request[w] # NoRequest /\ Arg(w) # NoArg
    BY <1>1, <1>2, CommandFacts DEF IInv, TypeOK
  <2>4. \A s1, s2 \in Row : [s1 EXCEPT !.order = s2.order] \in Row
    BY DEF Row
  <2>5. r \in Row
    BY <2>3, <2>4 DEF ReadsAgain
  <2> HIDE DEF r
  <2>6. /\ seen' \in [Clients -> Row \cup {Unread}] /\ seen'[w] \in Row
         /\ \A v \in Clients \ {w} : seen'[v] = seen[v]
    BY <2>1, <2>5 DEF IInv, TypeOK
  <2>7. /\ TypeOK' /\ ArgsMatch' /\ EquipmentCountsEvents' /\ OneEffect'
        /\ row' = row /\ equipment' = equipment /\ records' = records /\ request' = request
        /\ phase'[w] = "reserved" /\ \A v \in Clients \ {w} : phase'[v] = phase[v]
        /\ \A v \in Clients :
              /\ (Key(v))' = Key(v) /\ (Command(v))' = Command(v)
              /\ (Case(v))' = Case(v) /\ (Arg(v))' = Arg(v)
    BY <1>1, <1>2, <2>1, <2>2, <2>6, GoOnFrame
  <2>8. InTransaction' = InTransaction \cup {w}
    BY <2>7 DEF InTransaction
  <2>9. ReservedKeys'
    <3> SUFFICES ASSUME NEW v \in InTransaction \cup {w}
                 PROVE  /\ records[Key(v)] = NoArg
                        /\ \A u \in InTransaction \cup {w} : Key(u) = Key(v) => u = v
      BY <2>7, <2>8 DEF ReservedKeys, InTransaction
    <3> QED
      BY <1>1, <1>3 DEF IInv, ReservedKeys
  <2>10. LockedRows' /\ SeenEquipment'
    BY <2>2, <2>7, <2>6 DEF IInv, LockedRows, SeenEquipment
  <2>11. request[w].attempt # "again"
    BY <1>3, <2>3 DEF IInv, RetriesRecorded
  <2>12. RetriesRecorded'
    BY <2>7, <2>11 DEF IInv, RetriesRecorded
  <2> QED
    BY <2>7, <2>9, <2>10, <2>12 DEF IInv
<1>4. CASE records[Key(w)] # NoArg
  <2>1. End(w, "refused")
    BY <1>4 DEF InsertKey
  <2> QED
    BY <1>1, <1>2, <2>1, EndKeeps
<1> QED
  BY <1>3, <1>4

LEMMA ReadEquipmentKeeps ==
    ASSUME IInv, NEW w \in Clients, ReadEquipment(w)
    PROVE  IInv'
<1>1. /\ phase[w] = "reserved" /\ Command(w) = "complete"
      /\ Unlocked(w) /\ Permitted(w) /\ GoOn(w, "locked")
      /\ seenMachine' = [seenMachine EXCEPT ![w] = equipment[MachineOf[Case(w)]]]
      /\ UNCHANGED data /\ seen' = seen
  BY DEF ReadEquipment
<1>2. "reserved" \in Underway /\ "locked" \in Underway
  BY DEF Underway
<1>3. /\ equipment[MachineOf[Case(w)]] \in Equipment
      /\ request[w] # NoRequest
  BY <1>1, <1>2, CommandFacts DEF IInv, TypeOK
<1>4. /\ seen' \in [Clients -> Row \cup {Unread}] /\ seen'[w] \in Row
      /\ seenMachine' \in [Clients -> Equipment \cup {Unread}]
      /\ seenMachine'[w] = equipment[MachineOf[Case(w)]]
      /\ \A v \in Clients \ {w} : seen'[v] = seen[v] /\ seenMachine'[v] = seenMachine[v]
  BY <1>1, <1>3 DEF IInv, TypeOK
<1>5. /\ TypeOK' /\ ArgsMatch' /\ EquipmentCountsEvents' /\ OneEffect'
      /\ row' = row /\ equipment' = equipment /\ records' = records /\ request' = request
      /\ phase'[w] = "locked" /\ \A v \in Clients \ {w} : phase'[v] = phase[v]
      /\ \A v \in Clients :
            /\ (Key(v))' = Key(v) /\ (Command(v))' = Command(v)
            /\ (Case(v))' = Case(v) /\ (Arg(v))' = Arg(v)
  BY <1>1, <1>2, <1>3, <1>4, GoOnFrame
<1>6. ReservedKeys'
  <2>1. InTransaction' = InTransaction
    BY <1>1, <1>5 DEF InTransaction
  <2> QED
    BY <1>5, <2>1 DEF IInv, ReservedKeys, InTransaction
<1>7. LockedRows'
  <2>1. MayComplete(seen[w], row[Case(w)])
    BY <1>1 DEF Permitted, MayCommit
  <2>2. \A v \in Clients \ {w} : ~(phase[v] = "locked" /\ Case(v) = Case(w))
    BY <1>1 DEF Unlocked
  <2> QED
    BY <1>1, <1>5, <2>1, <2>2 DEF IInv, LockedRows
<1>8. SeenEquipment'
  <2>1. equipment[MachineOf[Case(w)]].version \in Nat
    BY <1>3 DEF Equipment
  <2> QED
    BY <1>4, <1>5, <2>1 DEF IInv, SeenEquipment
<1>9. RetriesRecorded'
  BY <1>1, <1>3, <1>5 DEF IInv, RetriesRecorded
<1> QED
  BY <1>5, <1>6, <1>7, <1>8, <1>9 DEF IInv

(* What a transaction changes when it commits, the equipment apart. *)
LEMMA FinishKeeps ==
    ASSUME IInv, NEW w \in Clients, w \in InTransaction,
           Unlocked(w), Permitted(w), Finish(w)
    PROVE  /\ row' \in [Cases -> Row] /\ outbox' \in Seq(Event)
           /\ row'[Case(w)] = Updated(Command(w), Arg(w), row[Case(w)])
           /\ \A c \in Cases \ {Case(w)} : row'[c] = row[c]
           /\ equipment' \in [Machines -> Equipment] => TypeOK'
           /\ ArgsMatch' /\ ReservedKeys' /\ LockedRows' /\ RetriesRecorded' /\ OneEffect'
<1>1. /\ row' = [row EXCEPT ![Case(w)] = Updated(Command(w), Arg(w), row[Case(w)])]
      /\ Enqueue(Command(w), Case(w))
      /\ records' = [records EXCEPT ![Key(w)] = Arg(w)]
      /\ phase' = [phase EXCEPT ![w] = "done"]
      /\ request' = [request EXCEPT ![w] = NoRequest]
      /\ seen' = [seen EXCEPT ![w] = Unread]
      /\ seenMachine' = [seenMachine EXCEPT ![w] = Unread]
  BY DEF Finish, End
<1>2. /\ "done" \in Ended /\ "done" \notin Underway
      /\ {"selected", "reserved", "locked"} \subseteq Underway
  BY DEF Ended, Underway
<1>3. /\ phase[w] \in {"reserved", "locked"}
      /\ Key(w) \in Keys /\ Command(w) \in Commands /\ Case(w) \in Cases
      /\ Command(w) = Key(w).command /\ Case(w) = Key(w).case
      /\ Arg(w) \in ArgsOf(Command(w)) /\ Arg(w) \in Args /\ Arg(w) # NoArg
      /\ row[Case(w)] \in Row /\ seen[w] \in Row
      /\ records[Key(w)] = NoArg
  BY <1>2, CommandFacts DEF IInv, TypeOK, InTransaction, ReservedKeys, Key, Command, Case
<1>4. MayCommit(Command(w), Arg(w), seen[w], row[Case(w)])
  BY DEF Permitted
<1>5. RowsAgree(row[Case(w)])
  BY <1>3 DEF IInv, OneEffect
<1> DEFINE new == Updated(Command(w), Arg(w), row[Case(w)])
<1>6. /\ new \in Row /\ RowsAgree(new) /\ Done(Command(w), Arg(w), new)
  BY <1>3, <1>4, <1>5, UpdateAgrees
<1> HIDE DEF new
<1>7. /\ row' \in [Cases -> Row] /\ row'[Case(w)] = new
      /\ \A c \in Cases \ {Case(w)} : row'[c] = row[c]
  BY <1>1, <1>3, <1>6 DEF IInv, TypeOK, new
<1>8. outbox' \in Seq(Event)
  <2>1. CASE Command(w) \in {"start", "complete", "replay"}
    <3>1. outbox' = Append(outbox, [case |-> Case(w), version |-> VersionOf(Command(w))])
      BY <1>1, <2>1 DEF Enqueue
    <3>2. VersionOf(Command(w)) \in 1..3
      BY <2>1 DEF VersionOf
    <3>3. [case |-> Case(w), version |-> VersionOf(Command(w))] \in Event
      BY <1>3, <3>2 DEF Event
    <3> QED
      BY <3>1, <3>3 DEF IInv, TypeOK
  <2>2. CASE Command(w) \notin {"start", "complete", "replay"}
    BY <1>1, <2>2 DEF Enqueue, IInv, TypeOK
  <2> QED
    BY <2>1, <2>2
<1>9. /\ records' \in [Keys -> Args \cup {NoArg}] /\ records'[Key(w)] = Arg(w)
      /\ \A k \in Keys \ {Key(w)} : records'[k] = records[k]
      /\ Recorded' = Recorded \cup {Key(w)}
  BY <1>1, <1>3 DEF IInv, TypeOK, Recorded
<1>10. /\ phase'[w] = "done" /\ request'[w] = NoRequest
       /\ \A v \in Clients \ {w} :
            /\ phase'[v] = phase[v] /\ request'[v] = request[v]
            /\ seen'[v] = seen[v] /\ seenMachine'[v] = seenMachine[v]
            /\ (Key(v))' = Key(v) /\ (Command(v))' = Command(v)
            /\ (Case(v))' = Case(v) /\ (Arg(v))' = Arg(v)
  BY <1>1 DEF IInv, TypeOK, Key, Command, Case, Arg
<1>11. ASSUME equipment' \in [Machines -> Equipment] PROVE TypeOK'
  <2>1. /\ phase' \in [Clients -> Ended \cup Underway]
        /\ request' \in [Clients -> [key : Keys, arg : Args, attempt : {"first", "again"}] \cup {NoRequest}]
        /\ seen' \in [Clients -> Row \cup {Unread}]
        /\ seenMachine' \in [Clients -> Equipment \cup {Unread}]
    BY <1>1, <1>2 DEF IInv, TypeOK
  <2>2. \A v \in Clients :
          /\ phase'[v] \in Underway <=> request'[v] # NoRequest
          /\ phase'[v] \in {"selected", "reserved", "locked"} => seen'[v] \in Row
          /\ phase'[v] = "locked" => seenMachine'[v] \in Equipment
    BY <1>2, <1>10 DEF IInv, TypeOK
  <2> QED
    BY <1>7, <1>8, <1>9, <1>11, <2>1, <2>2 DEF TypeOK
<1>12. ArgsMatch'
  BY <1>3, <1>9, <1>10 DEF IInv, ArgsMatch, Recorded
<1>13. InTransaction' = InTransaction \ {w}
  BY <1>10 DEF InTransaction
<1>14. ReservedKeys'
  <2> SUFFICES ASSUME NEW v \in InTransaction \ {w}
               PROVE  /\ records'[Key(v)] = NoArg
                      /\ \A u \in InTransaction \ {w} : Key(u) = Key(v) => u = v
    BY <1>10, <1>13 DEF ReservedKeys, InTransaction
  <2>1. /\ records[Key(v)] = NoArg /\ Key(v) # Key(w)
        /\ \A u \in InTransaction : Key(u) = Key(v) => u = v
    BY DEF IInv, ReservedKeys
  <2>2. Key(v) \in Keys
    BY <1>2, CommandFacts DEF IInv, InTransaction
  <2> QED
    BY <1>9, <2>1, <2>2
<1>15. LockedRows'
  <2> SUFFICES ASSUME NEW v \in Clients \ {w}, phase[v] = "locked"
               PROVE  /\ Command(v) = "complete"
                      /\ MayComplete(seen[v], row'[Case(v)])
                      /\ \A u \in Clients \ {w} : phase[u] = "locked" /\ Case(u) = Case(v) => u = v
    BY <1>10 DEF LockedRows
  <2>1. Case(v) # Case(w) /\ Case(v) \in Cases
    BY <1>2, CommandFacts DEF Unlocked, IInv
  <2> QED
    BY <1>7, <2>1 DEF IInv, LockedRows
<1>16. RetriesRecorded'
  <2> SUFFICES ASSUME NEW v \in Clients \ {w}, request[v] # NoRequest, request[v].attempt = "again"
               PROVE  records'[Key(v)] = Arg(v) /\ phase[v] \in {"sent", "checked"}
    BY <1>10 DEF RetriesRecorded
  <2>1. /\ records[Key(v)] = Arg(v) /\ phase[v] \in {"sent", "checked"}
        /\ phase[v] \in Underway
    BY DEF IInv, RetriesRecorded, TypeOK
  <2>2. Key(v) \in Keys /\ Arg(v) # NoArg
    BY <2>1, CommandFacts DEF IInv
  <2> QED
    BY <1>3, <1>9, <2>1, <2>2
<1>17. OneEffect'
  <2>1. \A c \in Cases : RowsAgree(row'[c])
    BY <1>6, <1>7 DEF IInv, OneEffect
  <2>2. ASSUME NEW k \in Recorded
        PROVE  /\ k \in Keys /\ k # Key(w) /\ k.command \in Commands /\ k.case \in Cases
               /\ records[k] \in ArgsOf(k.command) /\ Done(k.command, records[k], row[k.case])
    BY <1>3, MaintenanceAssumption DEF IInv, OneEffect, Recorded, ArgsMatch
  <2>3. ASSUME NEW k \in Recorded
        PROVE  Done(k.command, records[k], row'[k.case])
    <3>1. CASE k.case = Case(w)
      <4>1. Done(k.command, records[k], row[Case(w)])
        BY <2>2, <3>1
      <4>2. Done(k.command, records[k], new)
        BY <1>3, <1>4, <1>5, <2>2, <4>1, EffectsStay DEF new
      <4> QED
        BY <1>7, <3>1, <4>2
    <3>2. CASE k.case # Case(w)
      BY <1>7, <2>2, <3>2
    <3> QED
      BY <3>1, <3>2
  <2>4. \A k \in Recorded' : Done(k.command, records'[k], row'[k.case])
    BY <1>3, <1>6, <1>7, <1>9, <2>2, <2>3
  <2>5. ASSUME NEW k \in Recorded, k.command = Command(w), k.case = Case(w),
               k.command # "recommend",
               k.command = "decide" => (records[k] = "defer" <=> Arg(w) = "defer")
        PROVE  FALSE
    <3>1. Done(Command(w), records[k], row[Case(w)]) /\ records[k] \in ArgsOf(Command(w))
      BY <2>2, <2>5
    <3> QED
      BY <1>3, <1>4, <1>5, <2>5, <3>1, NotTwice
  <2>6. ASSUME NEW k1 \in Recorded', NEW k2 \in Recorded', SameEffect(k1, k2)'
        PROVE  k1 = k2
    <3>1. /\ k1.case = k2.case /\ k1.command = k2.command /\ k1.command # "recommend"
          /\ k1.command = "decide" => (records'[k1] = "defer" <=> records'[k2] = "defer")
      BY <2>6 DEF SameEffect
    <3>2. CASE k1 \in Recorded /\ k2 \in Recorded
      <4>1. SameEffect(k1, k2)
        BY <1>9, <2>2, <3>1, <3>2 DEF SameEffect
      <4> QED
        BY <3>2, <4>1 DEF IInv, OneEffect
    <3>3. CASE k1 \in Recorded /\ k2 = Key(w)
      BY <1>3, <1>9, <2>2, <2>5, <3>1, <3>3
    <3>4. CASE k2 \in Recorded /\ k1 = Key(w)
      BY <1>3, <1>9, <2>2, <2>5, <3>1, <3>4
    <3> QED
      BY <1>9, <3>2, <3>3, <3>4
  <2> QED
    BY <2>1, <2>4, <2>6 DEF OneEffect
<1> QED
  BY <1>7, <1>8, <1>11, <1>12, <1>14, <1>15, <1>16, <1>17 DEF new

LEMMA CommitKeeps ==
    ASSUME IInv, NEW w \in Clients, Commit(w)
    PROVE  IInv'
<1>1. /\ phase[w] = "reserved" /\ Command(w) # "complete"
      /\ Unlocked(w) /\ Permitted(w) /\ Finish(w) /\ equipment' = equipment
  BY DEF Commit
<1>2. w \in InTransaction /\ phase[w] \in Underway
  BY <1>1 DEF InTransaction, Underway
<1>3. /\ row'[Case(w)] = Updated(Command(w), Arg(w), row[Case(w)])
      /\ \A c \in Cases \ {Case(w)} : row'[c] = row[c]
      /\ TypeOK' /\ ArgsMatch' /\ ReservedKeys' /\ LockedRows' /\ RetriesRecorded' /\ OneEffect'
  <2>1. equipment' \in [Machines -> Equipment]
    BY <1>1 DEF IInv, TypeOK
  <2> QED
    BY <1>1, <1>2, <2>1, FinishKeeps
<1>4. SeenEquipment'
  <2>1. /\ phase'[w] = "done"
        /\ \A v \in Clients \ {w} :
              /\ phase'[v] = phase[v] /\ seenMachine'[v] = seenMachine[v]
              /\ (Case(v))' = Case(v)
    BY <1>1 DEF Finish, End, IInv, TypeOK, Case
  <2> QED
    BY <1>1, <2>1 DEF IInv, SeenEquipment
<1>5. row'[Case(w)].action = "completed" <=> row[Case(w)].action = "completed"
  <2>1. /\ Case(w) \in Cases /\ Command(w) \in Commands /\ Arg(w) \in ArgsOf(Command(w))
        /\ row[Case(w)] \in Row /\ seen[w] \in Row
    BY <1>1, <1>2, CommandFacts DEF IInv, TypeOK
  <2>2. RowsAgree(row[Case(w)]) /\ MayCommit(Command(w), Arg(w), seen[w], row[Case(w)])
    BY <1>1, <2>1 DEF IInv, OneEffect, Permitted
  <2> QED
    BY <1>1, <1>3, <2>1, <2>2, UpdateAgrees
<1>6. EquipmentCountsEvents'
  <2>1. \A m \in Machines :
           {c \in Cases : MachineOf[c] = m /\ row'[c].action = "completed"}
             = {c \in Cases : MachineOf[c] = m /\ row[c].action = "completed"}
    BY <1>3, <1>5
  <2> QED
    BY <1>1, <2>1 DEF IInv, EquipmentCountsEvents
<1> QED
  BY <1>3, <1>4, <1>6 DEF IInv

LEMMA CommitCompletionKeeps ==
    ASSUME IInv, NEW w \in Clients, CommitCompletion(w)
    PROVE  IInv'
<1> DEFINE m == MachineOf[Case(w)]
<1>1. /\ phase[w] = "locked" /\ Finish(w)
      /\ equipment[m].version = seenMachine[w].version
      /\ equipment' = [equipment EXCEPT ![m] = Patched(seenMachine[w], Case(w))]
  BY DEF CommitCompletion, EquipmentUnchanged
<1>2. w \in InTransaction /\ phase[w] \in Underway
  BY <1>1 DEF InTransaction, Underway
<1>3. /\ Command(w) = "complete" /\ Unlocked(w) /\ Permitted(w)
      /\ MayComplete(seen[w], row[Case(w)])
  BY <1>1, <1>2 DEF IInv, LockedRows, Unlocked, Permitted, MayCommit
<1>4. /\ m \in Machines /\ Case(w) \in Cases /\ row[Case(w)] \in Row
      /\ Command(w) \in Commands /\ Arg(w) \in ArgsOf(Command(w)) /\ seen[w] \in Row
      /\ equipment[m] \in Equipment
  BY <1>1, <1>2, CommandFacts DEF IInv, TypeOK
<1>5. seenMachine[w] = equipment[m]
  BY <1>1 DEF IInv, SeenEquipment
<1> DEFINE patched == [version |-> equipment[m].version + 1,
                       applied |-> equipment[m].applied \cup {Case(w)}]
<1>6. /\ patched \in Equipment /\ equipment' = [equipment EXCEPT ![m] = patched]
      /\ equipment' \in [Machines -> Equipment] /\ equipment'[m] = patched
      /\ \A n \in Machines \ {m} : equipment'[n] = equipment[n]
  <2>1. patched \in Equipment
    BY <1>4 DEF Equipment
  <2>2. equipment' = [equipment EXCEPT ![m] = patched]
    BY <1>1, <1>5 DEF Patched
  <2> HIDE DEF patched
  <2> QED
    BY <1>4, <2>1, <2>2 DEF IInv, TypeOK
<1>7. /\ row'[Case(w)] = Updated(Command(w), Arg(w), row[Case(w)])
      /\ \A c \in Cases \ {Case(w)} : row'[c] = row[c]
      /\ TypeOK' /\ ArgsMatch' /\ ReservedKeys' /\ LockedRows' /\ RetriesRecorded' /\ OneEffect'
  BY <1>1, <1>2, <1>3, <1>6, FinishKeeps
<1>8. SeenEquipment'
  <2>1. /\ phase'[w] = "done"
        /\ \A v \in Clients \ {w} :
              /\ phase'[v] = phase[v] /\ seenMachine'[v] = seenMachine[v]
              /\ (Case(v))' = Case(v)
    BY <1>1 DEF Finish, End, IInv, TypeOK, Case
  <2> SUFFICES ASSUME NEW v \in Clients \ {w}, phase[v] = "locked"
               PROVE  LET n == MachineOf[Case(v)]
                      IN  /\ seenMachine[v].version <= equipment'[n].version
                          /\ seenMachine[v].version = equipment'[n].version
                                => seenMachine[v] = equipment'[n]
    BY <2>1 DEF SeenEquipment
  <2>2. /\ phase[v] \in Underway /\ seenMachine[v] \in Equipment
        /\ seenMachine[v].version \in Nat /\ equipment[m].version \in Nat
    BY <1>1, <1>2, <1>4 DEF IInv, TypeOK, Equipment
  <2>3. MachineOf[Case(v)] \in Machines
    BY <2>2, CommandFacts DEF IInv
  <2>4. CASE MachineOf[Case(v)] = m
    <3>1. seenMachine[v].version <= equipment[m].version
      BY <2>4 DEF IInv, SeenEquipment
    <3> QED
      BY <1>6, <2>2, <2>4, <3>1
  <2>5. CASE MachineOf[Case(v)] # m
    BY <1>6, <2>3, <2>5 DEF IInv, SeenEquipment
  <2> QED
    BY <2>4, <2>5
<1>9. row'[Case(w)].action = "completed" /\ row[Case(w)].action # "completed"
  <2>1. RowsAgree(row[Case(w)]) /\ MayCommit(Command(w), Arg(w), seen[w], row[Case(w)])
    BY <1>3, <1>4 DEF IInv, OneEffect, Permitted
  <2> QED
    BY <1>3, <1>4, <1>7, <2>1, UpdateAgrees
<1>10. EquipmentCountsEvents'
  <2> SUFFICES ASSUME NEW n \in Machines
               PROVE  /\ equipment'[n].version = Cardinality(equipment'[n].applied)
                      /\ equipment'[n].applied
                           = {c \in Cases : MachineOf[c] = n /\ row'[c].action = "completed"}
    BY DEF EquipmentCountsEvents
  <2> DEFINE old == {c \in Cases : MachineOf[c] = n /\ row[c].action = "completed"}
  <2>1. equipment[n].applied = old /\ equipment[n].version = Cardinality(equipment[n].applied)
    BY DEF IInv, EquipmentCountsEvents
  <2>2. CASE n = m
    <3>1. {c \in Cases : MachineOf[c] = n /\ row'[c].action = "completed"} = old \cup {Case(w)}
      BY <1>4, <1>7, <1>9, <2>2
    <3>2. Case(w) \notin old
      BY <1>9
    <3>3. IsFiniteSet(old)
      BY MaintenanceAssumption, FS_Subset
    <3>4. Cardinality(old \cup {Case(w)}) = Cardinality(old) + 1
      BY <3>2, <3>3, FS_AddElement
    <3> QED
      BY <1>6, <2>1, <2>2, <3>1, <3>4
  <2>3. CASE n # m
    <3>1. {c \in Cases : MachineOf[c] = n /\ row'[c].action = "completed"} = old
      BY <1>7, <2>3
    <3> QED
      BY <1>6, <2>1, <2>3, <3>1
  <2> QED
    BY <2>2, <2>3
<1> QED
  BY <1>7, <1>8, <1>10 DEF IInv

LEMMA RefuseOrDropKeeps ==
    ASSUME IInv, NEW w \in Clients, Refuse(w) \/ Drop(w)
    PROVE  IInv'
<1>1. UNCHANGED data /\ (End(w, "refused") \/ End(w, "lost"))
  BY DEF Refuse, Drop
<1>2. "refused" \in Ended /\ "lost" \in Ended
  BY DEF Ended
<1> QED
  BY <1>1, <1>2, EndKeeps

-----------------------------------------------------------------------------
LEMMA InitIInv == Init => IInv
<1> SUFFICES ASSUME Init PROVE IInv
  OBVIOUS
<1> USE DEF Init
<1>1. \A c \in Cases : row[c].recommendation = "none" /\ row[c].text = NoArg /\ row[c].order = "none"
                       /\ row[c].action = "none" /\ row[c].lifecycle = 0
  OBVIOUS
<1>2. TypeOK
  <2>1. row \in [Cases -> Row]
    BY DEF Row, RecommendationStatuses, OrderStatuses, ActionStatuses
  <2>2. equipment \in [Machines -> Equipment]
    BY DEF Equipment
  <2>3. "idle" \in Ended /\ "idle" \notin Underway /\ "idle" \notin {"selected", "reserved", "locked"}
    BY DEF Ended, Underway
  <2>4. phase \in [Clients -> Ended \cup Underway]
    BY <2>3
  <2>5. outbox \in Seq(Event)
    OBVIOUS
  <2> QED
    BY <2>1, <2>2, <2>3, <2>4, <2>5 DEF TypeOK
<1>3. Recorded = {} /\ InTransaction = {}
  BY DEF Recorded, InTransaction
<1>4. ArgsMatch /\ ReservedKeys /\ LockedRows /\ SeenEquipment /\ RetriesRecorded
  BY <1>3 DEF ArgsMatch, ReservedKeys, LockedRows, SeenEquipment, RetriesRecorded
<1>5. EquipmentCountsEvents
  <2>1. \A m \in Machines : {c \in Cases : MachineOf[c] = m /\ row[c].action = "completed"} = {}
    BY <1>1
  <2> QED
    BY <2>1, FS_EmptySet DEF EquipmentCountsEvents
<1>6. OneEffect
  BY <1>1, <1>3 DEF OneEffect, RowsAgree
<1> QED
  BY <1>2, <1>4, <1>5, <1>6 DEF IInv

LEMMA StepKeepsIInv == IInv /\ [Next]_vars => IInv'
<1> SUFFICES ASSUME IInv, [Next]_vars PROVE IInv'
  OBVIOUS
<1>1. CASE Next
  <2> PICK w \in Clients : \/ Send(w) \/ Check(w) \/ SelectKey(w) \/ InsertKey(w)
                           \/ Commit(w) \/ ReadEquipment(w) \/ CommitCompletion(w)
                           \/ Refuse(w) \/ Drop(w)
    BY <1>1 DEF Next
  <2> QED
    BY SendKeeps, CheckKeeps, SelectKeyKeeps, InsertKeyKeeps, CommitKeeps, ReadEquipmentKeeps,
       CommitCompletionKeeps, RefuseOrDropKeeps
<1>2. CASE UNCHANGED vars
  <2>1. /\ row' = row /\ equipment' = equipment /\ outbox' = outbox /\ records' = records
        /\ phase' = phase /\ request' = request /\ seen' = seen /\ seenMachine' = seenMachine
    BY <1>2 DEF vars
  <2> QED
    BY <2>1 DEF IInv, TypeOK, ArgsMatch, ReservedKeys, LockedRows, SeenEquipment, RetriesRecorded,
       EquipmentCountsEvents, OneEffect, Recorded, SameEffect, InTransaction, Key, Command, Case, Arg
<1> QED
  BY <1>1, <1>2

LEMMA SpecIInv == Spec => []IInv
  BY InitIInv, StepKeepsIInv, PTL DEF Spec

(* The maintenance loop stays within its types, whatever the interleaving.  *)
THEOREM MaintenanceTypeCorrect == Spec => []TypeOK
<1>1. IInv => TypeOK
  BY DEF IInv
<1> QED
  BY <1>1, SpecIInv, PTL

(* However the completions on a machine interleave, its state version       *)
(* counts them, and its state contains exactly them.                        *)
THEOREM EquipmentCountsItsCompletions == Spec => []EquipmentCountsEvents
<1>1. IInv => EquipmentCountsEvents
  BY DEF IInv
<1> QED
  BY <1>1, SpecIInv, PTL

(* Two requests never both bring about what may happen once, and what a     *)
(* recorded key was answered with stays in the rows.                        *)
THEOREM EffectsHappenOnce == Spec => []OneEffect
<1>1. IInv => OneEffect
  BY DEF IInv
<1> QED
  BY <1>1, SpecIInv, PTL

-----------------------------------------------------------------------------
(* No validation refuses a command for what it has itself brought about,    *)
(* except for a decision.                                                   *)
LEMMA DoneIsAccepted ==
    ASSUME NEW r \in Row, RowsAgree(r),
           NEW command \in Commands \ {"decide"}, NEW arg, Done(command, arg, r)
    PROVE  ServiceAccepts(command, arg, r)
BY DEF Row, RowsAgree, Done, ServiceAccepts, Commands, OrderStatuses, ActionStatuses

LEMMA StepReplays ==
    ASSUME IInv, Next, NEW v \in Clients
    PROVE  RetryIsReplayed(v)
<1> SUFFICES ASSUME request[v] # NoRequest, request[v].attempt = "again",
                    Command(v) # "decide", phase'[v] \in Ended
             PROVE  phase'[v] \in {"replayed", "lost"}
  BY DEF RetryIsReplayed
<1>1. /\ records[Key(v)] = Arg(v) /\ phase[v] \in {"sent", "checked"}
      /\ phase[v] \in Underway /\ phase[v] \notin Ended
  BY DEF IInv, RetriesRecorded, TypeOK, Underway, Ended
<1>2. PICK w \in Clients : \/ Send(w) \/ Check(w) \/ SelectKey(w) \/ InsertKey(w)
                           \/ Commit(w) \/ ReadEquipment(w) \/ CommitCompletion(w)
                           \/ Refuse(w) \/ Drop(w)
  BY DEF Next
<1>3. CASE w # v
  <2>1. phase'[v] = phase[v]
    BY <1>2, <1>3 DEF Send, Check, SelectKey, InsertKey, Commit, ReadEquipment, CommitCompletion,
       Refuse, Drop, GoOn, Finish, End, IInv, TypeOK
  <2> QED
    BY <1>1, <2>1
<1>4. CASE w = v
  <2>1. /\ Key(v) \in Keys /\ Command(v) \in Commands /\ Case(v) \in Cases
        /\ Arg(v) # NoArg /\ row[Case(v)] \in Row
        /\ Key(v).command = Command(v) /\ Key(v).case = Case(v)
    BY <1>1, CommandFacts DEF IInv, Key, Command, Case
  <2>2. RowsAgree(row[Case(v)]) /\ Done(Command(v), Arg(v), row[Case(v)])
    BY <1>1, <2>1 DEF IInv, OneEffect, Recorded
  <2>3. ServiceAccepts(Command(v), Arg(v), row[Case(v)])
    BY <2>1, <2>2, DoneIsAccepted
  <2>4. CASE Check(v)
    <3>1. GoOn(v, "checked")
      BY <2>3, <2>4 DEF Check
    <3>2. phase'[v] = "checked"
      BY <3>1 DEF GoOn, IInv, TypeOK
    <3> QED
      BY <3>2 DEF Ended
  <2>5. CASE SelectKey(v)
    <3>1. End(v, "replayed")
      BY <1>1, <2>1, <2>5 DEF SelectKey
    <3> QED
      BY <3>1 DEF End, IInv, TypeOK
  <2>6. CASE Drop(v)
    BY <2>6 DEF Drop, End, IInv, TypeOK
  <2>7. CASE Send(v) \/ InsertKey(v) \/ Commit(v) \/ ReadEquipment(v) \/ CommitCompletion(v)
             \/ Refuse(v)
    BY <1>1, <2>7 DEF Send, InsertKey, Commit, ReadEquipment, CommitCompletion, Refuse
  <2> QED
    BY <1>2, <1>4, <2>4, <2>5, <2>6, <2>7
<1> QED
  BY <1>3, <1>4

(* A request that had succeeded when it was sent again, a decision apart,   *)
(* is answered with what it did, for any number of clients and keys.        *)
THEOREM RetriesAreAnswered == Spec => RetriesAreReplayed
<1>1. IInv /\ [Next]_vars => [\A w \in Clients : RetryIsReplayed(w)]_vars
  BY StepReplays
<1> QED
  BY <1>1, SpecIInv, PTL DEF Spec, RetriesAreReplayed

-----------------------------------------------------------------------------
(* The stage a row stands for. *)
StageOf(r) ==
    CASE r.order = "none" /\ r.recommendation # "accepted" -> r.recommendation
      [] r.order = "completed" /\ r.lifecycle = 3 -> "replayed"
      [] OTHER -> r.order

LEMMA StageMoves ==
    ASSUME NEW r \in Row, NEW s \in Row, RowsAgree(r),
           NEW command \in Commands, NEW arg \in ArgsOf(command),
           MayCommit(command, arg, s, r)
    PROVE  LET from == StageOf(r)
               to == StageOf(Updated(command, arg, r))
           IN  /\ command = "recommend" => to = from \/ (from = "none" /\ to = "proposed")
               /\ command = "decide" =>
                     \/ from = "proposed" /\ to = "deferred"
                     \/ from \in {"proposed", "deferred"} /\ to \in {"rejected", "requested"}
               /\ command = "approve" => from = "requested" /\ to = "approved"
               /\ command = "start" => from = "approved" /\ to = "in_progress"
               /\ command = "complete" => from = "in_progress" /\ to = "completed"
               /\ command = "replay" => from = "completed" /\ to = "replayed"
<1>1. CASE command = "recommend"
  <2>1. Updated(command, arg, r) = Recommended(arg, r)
    BY <1>1 DEF Updated
  <2>2. r.recommendation # "none" => Recommended(arg, r) = r
    BY DEF Recommended
  <2>3. r.recommendation = "none" =>
           /\ r.order = "none"
           /\ Recommended(arg, r).order = "none" /\ Recommended(arg, r).recommendation = "proposed"
    BY DEF Recommended, Row, RowsAgree
  <2> QED
    BY <1>1, <2>1, <2>2, <2>3 DEF StageOf
<1>2. CASE command = "decide"
  <2>1. /\ arg \in Dispositions /\ r.order = "none"
        /\ \/ r.recommendation = "proposed"
           \/ r.recommendation = "deferred" /\ arg # "defer"
    BY <1>2 DEF ArgsOf, RowsAgree, MayCommit, MayRecordDecision, MayDecide, Row
  <2>2. /\ arg = "accept" => Decided(arg, r).order = "requested"
        /\ arg = "reject" => Decided(arg, r).order = "none" /\ Decided(arg, r).recommendation = "rejected"
        /\ arg = "defer" => Decided(arg, r).order = "none" /\ Decided(arg, r).recommendation = "deferred"
    BY <2>1 DEF Decided, Row, Dispositions
  <2>3. Updated(command, arg, r) = Decided(arg, r)
    BY <1>2 DEF Updated
  <2> QED
    BY <1>2, <2>1, <2>2, <2>3 DEF StageOf, Dispositions
<1>3. CASE command = "approve"
  BY <1>3 DEF Row, MayCommit, MayApprove, Updated, Approved, StageOf
<1>4. CASE command = "start"
  <2>1. r.order = "approved" /\ Started(r).order = "in_progress"
    BY <1>4 DEF Row, MayCommit, MayStart, Started
  <2> QED
    BY <1>4, <2>1 DEF Updated, StageOf
<1>5. CASE command = "complete"
  <2>1. /\ r.order = "in_progress" /\ Completed(r).order = "completed"
        /\ Completed(r).lifecycle = 2
    BY <1>5 DEF Row, MayCommit, MayComplete, Completed
  <2> QED
    BY <1>5, <2>1 DEF Updated, StageOf
<1>6. CASE command = "replay"
  <2>1. r.order = "completed" /\ r.lifecycle # 3 /\ ReplayRequested(r).order = "completed"
        /\ ReplayRequested(r).lifecycle = 3
    BY <1>6 DEF Row, RowsAgree, MayCommit, MayReplay, ReplayRequested, OrderStatuses
  <2> QED
    BY <1>6, <2>1 DEF Updated, StageOf
<1> QED
  BY <1>1, <1>2, <1>3, <1>4, <1>5, <1>6

Stages == [c \in Cases |-> Stage(c)]

(* A commit is the step of MaintenanceLifecycle of its command, or the      *)
(* repetition of a recommendation.                                          *)
LEMMA FinishImplements ==
    ASSUME IInv, NEW w \in Clients, w \in InTransaction,
           Unlocked(w), Permitted(w), Finish(w),
           Command(w) # "complete" => equipment' = equipment,
           Command(w) = "complete" =>
              equipment' = [equipment EXCEPT ![MachineOf[Case(w)]] =
                  [version |-> @.version + 1, applied |-> @.applied \cup {Case(w)}]]
    PROVE  [Lifecycle!Next]_<<Stages, outbox, equipment>>
<1> DEFINE c == Case(w)
<1>1. phase[w] \in Underway
  BY DEF InTransaction, Underway
<1>2. /\ c \in Cases /\ row[c] \in Row /\ seen[w] \in Row
      /\ Command(w) \in Commands /\ Arg(w) \in ArgsOf(Command(w))
  BY <1>1, CommandFacts DEF IInv, TypeOK, InTransaction
<1>3. /\ row'[c] = Updated(Command(w), Arg(w), row[c])
      /\ \A d \in Cases \ {c} : row'[d] = row[d]
  BY FinishKeeps
<1>4. /\ \A d \in Cases : Stages[d] = StageOf(row[d]) /\ Stages'[d] = StageOf(row'[d])
      /\ \A d \in Cases \ {c} : Stages'[d] = Stages[d]
  BY <1>3 DEF Stages, Stage, StageOf
<1>5. Stages' = [Stages EXCEPT ![c] = Stages'[c]]
  BY <1>2, <1>4 DEF Stages
<1>6. RowsAgree(row[c]) /\ MayCommit(Command(w), Arg(w), seen[w], row[c])
  BY <1>2 DEF IInv, OneEffect, Permitted
<1> DEFINE from == Stages[c]
           to == Stages'[c]
<1>7. /\ Command(w) = "recommend" => to = from \/ (from = "none" /\ to = "proposed")
      /\ Command(w) = "decide" =>
            \/ from = "proposed" /\ to = "deferred"
            \/ from \in {"proposed", "deferred"} /\ to \in {"rejected", "requested"}
      /\ Command(w) = "approve" => from = "requested" /\ to = "approved"
      /\ Command(w) = "start" => from = "approved" /\ to = "in_progress"
      /\ Command(w) = "complete" => from = "in_progress" /\ to = "completed"
      /\ Command(w) = "replay" => from = "completed" /\ to = "replayed"
  BY <1>2, <1>3, <1>4, <1>6, StageMoves
<1>8. Enqueue(Command(w), c)
  BY DEF Finish
<1> HIDE DEF from, to
<1>9. CASE Command(w) \in {"recommend", "decide", "approve"}
  <2>1. outbox' = outbox /\ equipment' = equipment
    BY <1>8, <1>9 DEF Enqueue
  <2>2. CASE to = from
    BY <1>5, <2>1, <2>2 DEF from, to, Stages
  <2>3. CASE to # from
    <3>1. Lifecycle!Decide(c)
      BY <1>5, <1>7, <1>9, <2>1, <2>3 DEF Lifecycle!Decide, Lifecycle!Enter, from, to, Stages
    <3> QED
      BY <1>2, <3>1 DEF Lifecycle!Next
  <2> QED
    BY <2>2, <2>3
<1>10. CASE Command(w) = "start"
  <2>1. outbox' = Append(outbox, [case |-> c, version |-> 1]) /\ equipment' = equipment
    BY <1>8, <1>10 DEF Enqueue, VersionOf
  <2>2. Lifecycle!StartWork(c)
    BY <1>5, <1>7, <1>10, <2>1 DEF Lifecycle!StartWork, Lifecycle!Enter, Lifecycle!PublishEvent,
       from, to, Stages
  <2> QED
    BY <1>2, <2>2 DEF Lifecycle!Next
<1>11. CASE Command(w) = "complete"
  <2>1. outbox' = Append(outbox, [case |-> c, version |-> 2])
    BY <1>8, <1>11 DEF Enqueue, VersionOf
  <2>2. Lifecycle!CompleteWork(c)
    BY <1>5, <1>7, <1>11, <2>1 DEF Lifecycle!CompleteWork, Lifecycle!Enter, Lifecycle!PublishEvent,
       from, to, Stages
  <2> QED
    BY <1>2, <2>2 DEF Lifecycle!Next
<1>12. CASE Command(w) = "replay"
  <2>1. outbox' = Append(outbox, [case |-> c, version |-> 3]) /\ equipment' = equipment
    BY <1>8, <1>12 DEF Enqueue, VersionOf
  <2>2. Lifecycle!RequestReplay(c)
    BY <1>5, <1>7, <1>12, <2>1 DEF Lifecycle!RequestReplay, Lifecycle!Enter,
       Lifecycle!PublishEvent, from, to, Stages
  <2> QED
    BY <1>2, <2>2 DEF Lifecycle!Next
<1> QED
  BY <1>2, <1>9, <1>10, <1>11, <1>12 DEF Commands

LEMMA StepImplements ==
    ASSUME IInv, [Next]_vars
    PROVE  [Lifecycle!Next]_<<Stages, outbox, equipment>>
<1>1. ASSUME UNCHANGED data PROVE UNCHANGED <<Stages, outbox, equipment>>
  BY <1>1 DEF data, Stages, Stage
<1>2. CASE UNCHANGED vars
  BY <1>1, <1>2 DEF vars, data
<1>3. CASE Next
  <2> PICK w \in Clients : \/ Send(w) \/ Check(w) \/ SelectKey(w) \/ InsertKey(w)
                           \/ Commit(w) \/ ReadEquipment(w) \/ CommitCompletion(w)
                           \/ Refuse(w) \/ Drop(w)
    BY <1>3 DEF Next
  <2>1. CASE \/ Send(w) \/ Check(w) \/ SelectKey(w) \/ InsertKey(w) \/ ReadEquipment(w)
             \/ Refuse(w) \/ Drop(w)
    <3>1. UNCHANGED data
      BY <2>1 DEF Send, Check, SelectKey, InsertKey, ReadEquipment, Refuse, Drop
    <3> QED
      BY <1>1, <3>1
  <2>2. CASE Commit(w)
    <3>1. /\ w \in InTransaction /\ Command(w) # "complete" /\ Unlocked(w) /\ Permitted(w)
          /\ Finish(w) /\ equipment' = equipment
      BY <2>2 DEF Commit, InTransaction
    <3> QED
      BY <3>1, FinishImplements
  <2>3. CASE CommitCompletion(w)
    <3>1. /\ w \in InTransaction /\ phase[w] = "locked" /\ Finish(w)
          /\ equipment[MachineOf[Case(w)]].version = seenMachine[w].version
          /\ equipment' = [equipment EXCEPT ![MachineOf[Case(w)]] = Patched(seenMachine[w], Case(w))]
      BY <2>3 DEF CommitCompletion, EquipmentUnchanged, InTransaction
    <3>2. Command(w) = "complete" /\ Unlocked(w) /\ Permitted(w)
      BY <3>1 DEF IInv, LockedRows, Unlocked, Permitted, MayCommit
    <3>3. seenMachine[w] = equipment[MachineOf[Case(w)]]
      BY <3>1 DEF IInv, SeenEquipment
    <3>4. equipment' = [equipment EXCEPT ![MachineOf[Case(w)]] =
                            [version |-> @.version + 1, applied |-> @.applied \cup {Case(w)}]]
      BY <3>1, <3>3 DEF Patched
    <3> QED
      BY <3>1, <3>2, <3>4, FinishImplements
  <2> QED
    BY <2>1, <2>2, <2>3
<1> QED
  BY <1>2, <1>3

(* Seen from outside, the loop is that of one command at a time: no         *)
(* interleaving skips, repeats or reverses a stage of a case, and its       *)
(* events leave in order, in the transaction of the stage they report.      *)
THEOREM ImplementsLifecycle == Spec => RefinesLifecycle
<1>1. Init => Lifecycle!Init
  BY DEF Init, Lifecycle!Init, Stages, Stage
<1>2. IInv /\ [Next]_vars => [Lifecycle!Next]_<<Stages, outbox, equipment>>
  BY StepImplements
<1> QED
  BY <1>1, <1>2, SpecIInv, PTL DEF Spec, RefinesLifecycle, Lifecycle!Spec, Stages

=============================================================================
