------------------------------- MODULE MCSpriteUnit -------------------------------
(***********************************************************************************)
(* A table of two bytes, writes inside it and past its end.                        *)
(***********************************************************************************)
EXTENDS SpriteUnit

MCIndices == 0 .. 2
MCValues  == 0 .. 2
=====================================================================================
