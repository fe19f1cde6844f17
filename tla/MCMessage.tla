----------------------------- MODULE MCMessage -----------------------------
(***************************************************************************)
(* Two messages, two handles, segments of two words and a half.            *)
(***************************************************************************)
EXTENDS MessageProps, TLC

Symmetric == Permutations(Obj) \cup Permutations(Fd)
=============================================================================
