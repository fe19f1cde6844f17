----------------------------- MODULE MCFraming -----------------------------
(***************************************************************************)
(* Instances of Framing for model-checking.                                *)
(***************************************************************************)
EXTENDS FramingProps

(* This build, one that speaks a newer version too, and a later one that   *)
(* has dropped the first version of the auxiliary protocol: this build and *)
(* the later one do not understand each other.                             *)
ThisBuild  == [min |-> <<1, 1>>, max |-> <<1, 1>>]
NewerBuild == [min |-> <<1, 1>>, max |-> <<2, 1>>]
LaterBuild == [min |-> <<1, 2>>, max |-> <<2, 2>>]
AnyBuilds  == {[cli |-> ThisBuild, srv |-> b] : b \in {NewerBuild, LaterBuild}}
SameBuilds == {[p \in Peer |-> ThisBuild]}

ClientTalks == [cli |-> 2, srv |-> 0]

ClientBreaks == {"cli"} \X Pipe
=============================================================================
