----------------------------- MODULE MCExtraction -----------------------------
(* Records of three windows, in the order of time. *)
EXTENDS Extraction

MCWindowOf == <<1, 1, 2, 3>>
=============================================================================
