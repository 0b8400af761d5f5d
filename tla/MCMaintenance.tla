---------------------------- MODULE MCMaintenance ----------------------------
(* Two cases on one machine, two threads; two keys for what may race. *)
EXTENDS Maintenance, TLC

CONSTANTS c1, c2, m1, t1, t2, w1, w2

MCMachineOf == (c1 :> m1) @@ (c2 :> m1)
MCSymmetry == Permutations({w1, w2})

(* Both decisions and both completions of c1 may race; c2 is not replayed. *)
MCKeys ==
    {[command |-> cmd, case |-> c1, n |-> 1] : cmd \in Commands}
    \cup {[command |-> cmd, case |-> c1, n |-> 2] : cmd \in {"decide", "complete"}}
    \cup {[command |-> cmd, case |-> c2, n |-> 1] : cmd \in Commands \ {"replay"}}
=============================================================================
