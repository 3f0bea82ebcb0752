------------------------------- MODULE Lists -------------------------------
(***************************************************************************)
(* Values that are lists: every entry of one is among its elements.        *)
(***************************************************************************)
EXTENDS SequencesExt

IsList(s) == s \in Seq(ToSet(s))
=============================================================================
