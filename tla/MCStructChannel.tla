-------------------------- MODULE MCStructChannel --------------------------
(***************************************************************************)
(* Workloads for model-checking a pair of channels: what each user calls,  *)
(* how many messages each sends, which transports may fail.                *)
(***************************************************************************)
EXTENDS StructChannelProps, TLC

(* The client notifies, the server registers and drops expectations.       *)
NotifyApi == [cli |-> {"send", "async_end_sending"},
              srv |-> {"expect_msg", "expect_msgs", "undo_expect_msgs"}]

(* The same, with a server that sends too, over transports that may fail.  *)
TalkApi == [NotifyApi EXCEPT !.srv = @ \cup {"send"}]
TalkOut == [cli |-> 3, srv |-> 1]

(* The client makes requests, the server answers, perhaps too often.       *)
RequestApi == [cli |-> {"async_request", "async_request_open",
                        "undo_expect_responses", "set_handlers"},
               srv |-> {"send", "expect_msgs"}]
RequestOut == [cli |-> 2, srv |-> 3]

(* A master channel: the peers log in, then one answers the other.  A      *)
(* hasty server also makes requests of its own before it is logged in; its *)
(* client only makes requests, perhaps after it has stopped sending.       *)
LogInApi == [cli |-> {"send", "async_request", "async_end_sending"},
             srv |-> {"send", "expect_log_in_request", "expect_msg"}]
HastyApi == [LogInApi EXCEPT !.cli = (@ \ {"send"}) \cup {"expect_msg"},
                             !.srv = @ \cup {"async_request"}]
LogInOut == [cli |-> 2, srv |-> 2]

(* Both peers send, answer and stop sending, over transports that fail,    *)
(* and the server drops expectations while handlers wait.                  *)
FaultApi == [p \in Peer |-> {"send", "expect_msgs", "async_end_sending"}
                              \cup IF p = "cli" THEN {"async_request"}
                                               ELSE {"undo_expect_msgs"}]
FaultOut == [cli |-> 2, srv |-> 1]

(* The smallest exchange in which a response is unexpected and a channel   *)
(* is closed, for the liveness properties.                                 *)
LiveApi == [cli |-> {"send", "async_end_sending"},
            srv |-> {"send", "expect_msgs", "async_end_sending"}]
LiveOut == [cli |-> 2, srv |-> 1]

(* The names of the tokens do not matter.                                  *)
SameTokens == Permutations(Token)

NoBreak       == {}
ClientBreaks  == {"cli"} \X Pipe
ServerBreaks  == {"srv"} \X Pipe
BothBreak     == Peer \X Pipe
=============================================================================
