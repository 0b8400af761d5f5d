------------------------------- MODULE MCOutbox -------------------------------
(* Two maintenance actions on one machine, hence one delivery stream: A    *)
(* has two events, and B's only event has a lower state_version than A's   *)
(* second one, and may be committed after it.  The live instance has one   *)
(* event on each of two machines.                                          *)
EXTENDS Outbox, TLC

CONSTANTS a1, a2, b1, w1, w2

MCRows == {a1, a2, b1}
MCActionOf == (a1 :> "A") @@ (a2 :> "A") @@ (b1 :> "B")
MCStreamOf == [r \in MCRows |-> "m1"]
MCVersion == (a1 :> 1) @@ (a2 :> 2) @@ (b1 :> 1)
MCCreatedRank == (a1 :> 2) @@ (a2 :> 1) @@ (b1 :> 3)
MCHandles == [w \in {w1, w2} |-> MCRows]
Symmetry == Permutations({w1, w2})

LiveRows == {a1, b1}
LiveActionOf == (a1 :> "A") @@ (b1 :> "B")
LiveStreamOf == (a1 :> "m1") @@ (b1 :> "m2")
LiveVersion == [r \in LiveRows |-> 1]
LiveCreatedRank == (a1 :> 1) @@ (b1 :> 2)
LiveHandles == [w \in {w1, w2} |-> LiveRows]
=============================================================================
