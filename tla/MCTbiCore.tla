----------------------------- MODULE MCTbiCore -----------------------------
(* Instances of TbiCore for TLC.  Attributes and threads are model values. *)
EXTENDS TbiRefinement

CONSTANTS main, serial, product, gain

OneInfo == <<serial>>
TwoInfo == <<product, serial>>
=============================================================================
