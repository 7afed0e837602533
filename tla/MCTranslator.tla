---------------------------- MODULE MCTranslator -----------------------------
(* An instance of Translator for TLC: the only block runs on into the next *)
(* page.                                                                   *)
EXTENDS Translator

TwoPages == {1, 2}
OneAddr == {10}
Spanning == [a \in OneAddr |-> <<1, 2>>]
==============================================================================
