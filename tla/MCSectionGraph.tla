-------------------------- MODULE MCSectionGraph ---------------------------
(* Instances of SectionGraph for TLC.                                      *)
EXTENDS SectionGraph
=============================================================================
