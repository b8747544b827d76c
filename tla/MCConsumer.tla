----------------------------- MODULE MCConsumer -----------------------------
(***************************************************************************)
(* Instances of Consumer for TLC.                                          *)
(***************************************************************************)
EXTENDS Consumer
AllKinds == {"Window", "Cbr", "Batches", "Zipf"}
WindowOnly == {"Window"}
SmallWindows == {0, 1, 2}
=============================================================================
