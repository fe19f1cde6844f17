--------------------------- MODULE MCAsyncChannel ---------------------------
(***************************************************************************)
(* A user of struc::Channel for TLC: two threads make blocking requests,   *)
(* one with a timeout and one without, while others use the rest of the    *)
(* API and the peer answers, notifies and closes.                          *)
(***************************************************************************)
EXTENDS AsyncChannelProps, TLC

(* Blocking requests, with all that can end one or come in between.        *)
RequestsApi   == {"start", "send", "async_end_sending", "destroy"}
RequestsInput == {"rsp", "fail"}

(* Handlers of every kind, with expectations that come and go.             *)
HandlersApi   == Call \ {"send", "async_end_sending"}
HandlersInput == {"note", "rsp", "remote_unexpected", "fail"}
=============================================================================
