--------------------------- MODULE OrderedDelivery ---------------------------
(***************************************************************************)
(* What the maintenance integration promises its consumer, the gen_data    *)
(* Runtime Overlay: events of one maintenance action (started, completed,  *)
(* replay_requested) reach its inbox in the order of their state_version,  *)
(* none skipped, and only after the operational transaction that published *)
(* them has committed.  Nothing is said of events of different actions:    *)
(* state_version only orders one simulation session, equipment and action. *)
(***************************************************************************)
EXTENDS Naturals

CONSTANTS
    Rows,       \* the integration events
    ActionOf,   \* ActionOf[r]: the maintenance action that event r belongs to
    Version     \* Version[r]: its state_version

VARIABLES
    published,  \* events whose transaction has committed
    delivered   \* events the consumer can read

(* The events of r's action that come before it. *)
Predecessors(r) == {s \in Rows : ActionOf[s] = ActionOf[r] /\ Version[s] < Version[r]}

Init == published = {} /\ delivered = {}

Publish(r) ==
    /\ r \notin published
    /\ published' = published \cup {r}
    /\ UNCHANGED delivered

Deliver(r) ==
    /\ r \in published \ delivered
    /\ Predecessors(r) \subseteq delivered
    /\ delivered' = delivered \cup {r}
    /\ UNCHANGED published

Next == \E r \in Rows : Publish(r) \/ Deliver(r)

Spec == Init /\ [][Next]_<<published, delivered>>
=============================================================================
