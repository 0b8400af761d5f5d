-------------------------- MODULE MCPredictionInbox --------------------------
(* Two events of two assets, in batches that overlap.  Version v2 does not  *)
(* have the asset of event 2.                                               *)
EXTENDS PredictionInbox, TLC

CONSTANTS b1, b2, b3, c1, c2, a1, a2, v1, v2, w1, w2

Sound(e, c) == [event |-> e, content |-> c, fault |-> "none"]

MCPayloads == {
    [batch |-> b1, items |-> {Sound(1, c1), Sound(2, c1)}],
    [batch |-> b1, items |-> {Sound(1, c2), Sound(2, c1)}],
    [batch |-> b2, items |-> {Sound(1, c2), [event |-> 2, content |-> c1, fault |-> "checksum"]}],
    [batch |-> b2, items |-> {}],
    [batch |-> b3, items |-> {Sound(1, c2), Sound(2, c1)}]}

MCAssetOf == <<a1, a2>>
MCVersionOf == (b1 :> v1) @@ (b2 :> v1) @@ (b3 :> v2)
MCAssetsIn == (v1 :> {a1, a2}) @@ (v2 :> {a1})
MCSymmetry == Permutations({w1, w2})
=============================================================================
