-------------------------- MODULE MCPredictionDelivery --------------------------
(* One batch, whose requests, runs and crashes meet; batches meet only in  *)
(* the worker, which holds one at a time.                                  *)
EXTENDS PredictionDelivery

CONSTANTS b1, s1, s2
=============================================================================
