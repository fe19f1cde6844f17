---------------------------- MODULE RequestReply ----------------------------
(***************************************************************************)
(* What struc::Channel promises of sync_request() and of errors: requests  *)
(* go one at a time; each ends once, with the response to it, with the     *)
(* error that hosed the channel or because its time is over; and an error  *)
(* hoses the channel once and is told once, either to the call that met    *)
(* it, or to the request that was waiting, or to the on-error handler.     *)
(***************************************************************************)
EXTENDS Naturals

CONSTANT Request  \* the requests that may be made

VARIABLES outcome, \* outcome[i]: what became of request i
          current, \* the request that is waiting, as a set of at most one
          error    \* the channel's error: "none", "due" or "told"

vars == <<outcome, current, error>>

Open     == [kind |-> "none", of |-> 0]
Waiting  == [kind |-> "asked", of |-> 0]
Ending(i) == {[kind |-> "rsp", of |-> i], [kind |-> "timeout", of |-> 0]}

Init == /\ outcome = [i \in Request |-> Open]
        /\ current = {}
        /\ error = "none"

Ask(i) == /\ current = {} /\ error = "none"
          /\ outcome[i] = Open
          /\ outcome' = [outcome EXCEPT ![i] = Waiting]
          /\ current' = {i}
          /\ UNCHANGED error

(* It ends with its response or in time; both can be said of a request     *)
(* that was waiting when an error came.                                    *)
End(i) == /\ i \in current /\ outcome[i] = Waiting
          /\ \E e \in Ending(i) : outcome' = [outcome EXCEPT ![i] = e]
          /\ current' = {}
          /\ UNCHANGED error

EndInError(i) == /\ i \in current /\ outcome[i] = Waiting
                 /\ error = "due" /\ error' = "told"
                 /\ outcome' = [outcome EXCEPT ![i] = [kind |-> "error", of |-> 0]]
                 /\ current' = {}

ErrorOccurs == error = "none" /\ error' \in {"due", "told"}
               /\ UNCHANGED <<outcome, current>>

TellHandler == error = "due" /\ error' = "told"
               /\ UNCHANGED <<outcome, current>>

Next == \/ \E i \in Request : Ask(i) \/ End(i) \/ EndInError(i)
        \/ ErrorOccurs \/ TellHandler

Spec == Init /\ [][Next]_vars
=============================================================================
