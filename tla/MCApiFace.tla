----------------------------- MODULE MCApiFace ------------------------------
(***************************************************************************)
(* Instances of ApiFace for TLC.                                           *)
(***************************************************************************)
EXTENDS ApiFace
\* A name and one that it is a prefix of.
SmallNames == {<<1>>, <<1, 2>>}
OnePrefix == {<<1>>}
ShortAndLong == {1, 2}
=============================================================================
