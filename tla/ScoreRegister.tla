--------------------------- MODULE ScoreRegister ---------------------------
(***************************************************************************)
(* What the high-score file provides: one number that changes all at once, *)
(* but is safe only some time later.  A saved number can be read at once.  *)
(* A power loss soon after the save goes back to an earlier number, the    *)
(* last that had become permanent, and never to anything else.             *)
(*                                                                         *)
(* docs/persistence.md:64 promises more: that a score whose rename is done *)
(* survives a power loss.  That is a register without Harden, in which     *)
(* Commit sets safe too, and the code does not implement it: save does not *)
(* sync the directory (file_high_score_store.cpp:38-39).                   *)
(***************************************************************************)
EXTENDS Integers

CONSTANT
  Values \* the numbers that can be saved, all of them in Nat

VARIABLES
  seen, \* what a load returns
  safe  \* what a load returns after a power loss

registerVars == <<seen, safe>>

RegisterInit == seen \in Values \union {0} /\ safe = seen

\* A save takes effect.
Commit(value) == seen' = value /\ UNCHANGED safe

\* What can be read has become permanent.
Harden == safe' = seen /\ UNCHANGED seen

LosePower == seen' = safe /\ UNCHANGED safe

RegisterNext ==
  \/ \E value \in Values : Commit(value)
  \/ Harden
  \/ LosePower

RegisterSpec == RegisterInit /\ [][RegisterNext]_registerVars

=============================================================================
