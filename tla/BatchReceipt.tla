----------------------------- MODULE BatchReceipt -----------------------------
(***************************************************************************)
(* What the Backend promises the Generator about its prediction batches:   *)
(* the first receipt of a batch decides for good, a batch that is accepted *)
(* is owed its promotion to product results until it has it, and nobody is *)
(* told that a batch was delivered before it is decided and no longer      *)
(* owed.  Receipts, promotions and answers may repeat and come in any      *)
(* order.                                                                  *)
(***************************************************************************)
CONSTANTS
    Batches,     \* the batches the Generator sends
    WithResults, \* those with anything to promote
    Refusals     \* how a batch that is not accepted may be decided

VARIABLES
    verdict,  \* verdict[b]: "none" until b is decided
    owing,    \* accepted batches whose promotion is still to be made
    told      \* batches somebody has been told are delivered

Init ==
    /\ verdict = [b \in Batches |-> "none"]
    /\ owing = {}
    /\ told = {}

Decide(b) ==
    /\ verdict[b] = "none"
    /\ \/ /\ verdict' = [verdict EXCEPT ![b] = "accepted"]
          /\ owing' = owing \cup ({b} \cap WithResults)
       \/ /\ \E refusal \in Refusals : verdict' = [verdict EXCEPT ![b] = refusal]
          /\ owing' = owing
    /\ UNCHANGED told

(* All of b's results at once. *)
Promote(b) == owing' = owing \ {b}

(* A batch may be delivered without a promotion of its own: one that was   *)
(* refused, and is a duplicate when it comes again.                        *)
Tell(b) ==
    /\ verdict[b] # "none"
    /\ b \notin owing'
    /\ told' = told \cup {b}

(* The caller has gone, or has nothing of the answer left in memory. *)
Forget == told' \subseteq told

Next ==
    \/ Forget /\ UNCHANGED <<verdict, owing>>
    \/ /\ UNCHANGED verdict
       /\ UNCHANGED owing \/ \E b \in Batches : Promote(b)
       /\ UNCHANGED told \/ \E b \in Batches : Tell(b)
    \/ \E b \in Batches : Decide(b)

Spec == Init /\ [][Next]_<<verdict, owing, told>>
===============================================================================
