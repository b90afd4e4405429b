--------------------------- MODULE MCInputDevice ---------------------------
(***************************************************************************)
(* Constants for model checking InputDevice: a keyboard with space, D and  *)
(* Q, the five-way controller with down, and a third node with R.          *)
(***************************************************************************)
EXTENDS InputDevice

ThreeNodes == [n \in 0 .. 2 |-> CASE n = 0 -> {57, 32, 16}
                                  [] n = 1 -> {108}
                                  [] n = 2 -> {19}]

\* A jump or a duck that began before the game.
DownFirst == {<<0, 57>>, <<0, 32>>, <<1, 108>>}

\* Two duck keys on two nodes.
TwoNodes == [n \in 0 .. 1 |-> CASE n = 0 -> {32} [] n = 1 -> {108}]

=============================================================================
