------------------------------ MODULE MCPrompt ------------------------------
(***************************************************************************)
(* Instances of Prompt for TLC: [, A, B and the space are characters       *)
(* enough, up and down are the arrows.                                     *)
(***************************************************************************)
EXTENDS Prompt

LetterB == {"B"}
=============================================================================
