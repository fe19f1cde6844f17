----------------------------- MODULE WholePipe -----------------------------
(***************************************************************************)
(* The pipes of a channel, each in one direction, as struc::Channel uses   *)
(* them: structured messages are put in whole and come out whole, in order,*)
(* once each.  This is what StructChannel takes a pipe to be.              *)
(***************************************************************************)
EXTENDS Naturals, Sequences

CONSTANTS Link,    \* the pipes
          Message  \* the structured messages

VARIABLES put,   \* put[l]: the messages put into l so far
          taken  \* taken[l]: the messages taken out of l so far

vars == <<put, taken>>

Init == put = [l \in Link |-> <<>>] /\ taken = [l \in Link |-> <<>>]

Put(l, m) == /\ put' = [put EXCEPT ![l] = Append(@, m)]
             /\ UNCHANGED taken

Take(l) == /\ Len(taken[l]) < Len(put[l])
           /\ taken' = [taken EXCEPT ![l] = Append(@, put[l][Len(@) + 1])]
           /\ UNCHANGED put

Next == \E l \in Link : Take(l) \/ \E m \in Message : Put(l, m)

Spec == Init /\ [][Next]_vars

=============================================================================
