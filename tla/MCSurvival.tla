----------------------------- MODULE MCSurvival -----------------------------
(***************************************************************************)
(* The small engine of MCGameEngine with the history of module Survival,   *)
(* which the obstacles of a run determine: it adds no state.               *)
(***************************************************************************)
EXTENDS MCGameEngine, Survival

=============================================================================
