--------------------------- MODULE StructChannel ---------------------------
(***************************************************************************)
(* Two struc::sync_io::Channel peers joined by an owned transport::Channel *)
(* of one or two full-duplex pipes.  After protocol negotiation each pipe  *)
(* is, per direction, a reliable FIFO of structured messages.              *)
(*                                                                         *)
(* Each peer is single-threaded (the sync_io pattern), and an in-message   *)
(* is processed in one go; mode[p] is the program counter of that thread:  *)
(*   "idle"  - outside the library: the user may call any API;             *)
(*   "flush" - in the loop that empties the reassembly queue;              *)
(*   "drain" - handlers_poll() is about to run its first handler;          *)
(*   "user"  - handlers_poll() has run a handler and more are left: that   *)
(*             handler may have called any API.                            *)
(* A structured message travels as one unit (its segments follow each      *)
(* other on one pipe).                                                     *)
(*                                                                         *)
(* A definition under a comment that begins with Mutation: is the next one *)
(* with a plausible bug.  No specification uses it: put in place of the    *)
(* definition it varies, it shows that a property would catch the bug.     *)
(***************************************************************************)
EXTENDS Naturals, Sequences

CONSTANTS
  Which,     \* the values of the message body's top-level union
  Token,     \* session tokens other than nil
  Nil,       \* the nil session token
  Pipe,      \* the pipes of the owned channel: "blobs", "handles" or both
  LogIn,     \* TRUE: the session master channel, which has a log-in phase
  MaxOut,    \* MaxOut[p]: bound on the user messages p sends
  Api,       \* Api[p]: the calls the user at p makes
  Breakable, \* the (peer, pipe) out-pipes whose transport may fail
  KeepsList  \* TRUE: the user gives expect_msgs() the same list each time

Peer == {"cli", "srv"}

Call == {"send", "async_request", "async_request_open", "expect_msg",
         "expect_msgs", "undo_expect_msgs", "undo_expect_responses",
         "expect_log_in_request", "set_handlers", "async_end_sending"}

ASSUME ConstantsAssumption ==
  /\ Pipe \in {{"blobs"}, {"handles"}, {"blobs", "handles"}}
  /\ Which # {} /\ Nil \notin Token
  /\ LogIn \in BOOLEAN
  /\ MaxOut \in [Peer -> Nat]
  /\ Api \in [Peer -> SUBSET Call]
  /\ Breakable \subseteq Peer \X Pipe
  /\ KeepsList \in BOOLEAN

VARIABLES
  phase,        \* m_phase
  token,        \* m_session_token
  logInStarted, \* m_phase_log_in_started
  sndNext,      \* m_snd_msg_next_id
  rcvNext,      \* m_rcv_msg_next_id
  reasm,        \* *m_rcv_reassembly_q
  msgOnce,      \* m_rcv_expecting_msg_map, the one-off expectations
  msgOpen,      \* m_rcv_expecting_msg_map, the open-ended ones
  pending,      \* m_rcv_pending_msgs: pending[p][w] holds in-message IDs
  rspOnce,      \* m_rcv_expecting_response_map, one-off
  rspOpen,      \* m_rcv_expecting_response_map, open-ended
  softSet,      \* the on-unexpected-response handlers that are registered
  err,          \* m_channel_err_code_or_ok
  started,      \* start_and_poll() was called: m_on_err_func is set
  chain,        \* the pipes whose async-read chain is alive
  hq,           \* m_sync_io_handlers
  mode,         \* where the peer's thread is (see above)
  net,          \* net[p][k]: messages on their way to p on pipe k
  ended,        \* the owned channel has queued its graceful-close
  qdMsgs,       \* the user's list, *qd_msgs of expect_msgs()
  broken,       \* the out-pipes whose transport has failed
  sent,         \* history: the user messages handed to the transport, each
                \* with the kind of response expectation it was sent with
  log           \* history: what p's user was told, in order

sndVars  == <<sndNext, sent>>
rcvVars  == <<rcvNext, reasm>>
expVars  == <<msgOnce, msgOpen, pending>>
rspVars  == <<rspOnce, rspOpen>>
authVars == <<phase, token>>
loopVars == <<started, chain>>
linkVars == <<ended, broken>>
userVars == <<log, qdMsgs>>
vars == <<phase, token, logInStarted, sndNext, rcvNext, reasm, msgOnce,
          msgOpen, pending, rspOnce, rspOpen, softSet, err, started, chain,
          hq, mode, net, ended, broken, sent, log, qdMsgs>>

Other(p) == CHOOSE q \in Peer : q # p
Phase    == {"CLI_LOG_IN", "SRV_LOG_IN", "LOGGED_IN"}
Error    == {"ok", "LOG_IN_MISUSED_SCHEMA", "MISUSED_SCHEMA", "BAD_AUTH",
             "GOT_UNEXPECTED_LOG_IN_REQUEST", "RECEIVES_FINISHED",
             "TRANSPORT", "SEND"}
TwoPipes == Pipe = {"blobs", "handles"}

(* Internal messages carry no handle, so the blobs pipe takes them.        *)
InternalPipe == IF "blobs" \in Pipe THEN "blobs" ELSE "handles"

(* A structured message; an internal one has ID 0 and no union value.      *)
Msg == [id : Nat, orig : Nat, which : Which, tok : Token \cup {Nil}]
Internal(orig, t) == [id |-> 0, orig |-> orig,
                      which |-> CHOOSE w \in Which : TRUE, tok |-> t]

(* A handler invocation, or an in-message or error returned by a call.     *)
Event == [kind : {"msg", "rsp", "unexpected", "remote_unexpected",
                  "unexpected_ignored", "remote_ignored", "on_error",
                  "send_error"}, id : Nat]
Ev(kind, id) == [kind |-> kind, id |-> id]

(* What becomes of a soft error when the user has no handler for it.       *)
Ignored == [unexpected |-> "unexpected_ignored",
            remote_unexpected |-> "remote_ignored"]

SeqRange(s) == {s[i] : i \in 1..Len(s)}

(* The in-messages p's user has been handed, hence may respond to.         *)
Held(p) == {e.id : e \in {f \in SeqRange(log[p]) :
                            f.kind \in {"msg", "rsp", "unexpected"}}}

CanCall(p, call) == call \in Api[p] /\ mode[p] \in {"idle", "user"}

-----------------------------------------------------------------------------
(* Construction.  The master channel starts logging in: the server picks   *)
(* the token, the client has none.  Any other channel is given its token   *)
(* and is logged in from the start.                                        *)
Init ==
  /\ IF LogIn
     THEN /\ phase = [p \in Peer |-> IF p = "cli" THEN "CLI_LOG_IN"
                                                  ELSE "SRV_LOG_IN"]
          /\ \E t \in Token : token = [p \in Peer |-> IF p = "cli" THEN Nil
                                                                   ELSE t]
     ELSE /\ phase = [p \in Peer |-> "LOGGED_IN"]
          /\ token \in [Peer -> Token]
  /\ logInStarted = [p \in Peer |-> FALSE]
  /\ sndNext = [p \in Peer |-> 1]
  /\ rcvNext = [p \in Peer |-> 1]
  /\ reasm = [p \in Peer |-> {}]
  /\ msgOnce = [p \in Peer |-> {}]
  /\ msgOpen = [p \in Peer |-> {}]
  /\ pending = [p \in Peer |-> [w \in Which |-> <<>>]]
  /\ rspOnce = [p \in Peer |-> {}]
  /\ rspOpen = [p \in Peer |-> {}]
  /\ softSet = [p \in Peer |-> {}]
  /\ err = [p \in Peer |-> "ok"]
  /\ started = [p \in Peer |-> FALSE]
  /\ chain = [p \in Peer |-> {}]
  /\ hq = [p \in Peer |-> <<>>]
  /\ mode = [p \in Peer |-> "idle"]
  /\ net = [p \in Peer |-> [k \in Pipe |-> <<>>]]
  /\ ended = [p \in Peer |-> FALSE]
  /\ qdMsgs = [p \in Peer |-> <<>>]
  /\ broken = {}
  /\ sent = [p \in Peer |-> <<>>]
  /\ log = [p \in Peer |-> <<>>]

(* start_and_poll(): fails on a second call and on a hosed channel.        *)
StartAndPoll(p) ==
  /\ mode[p] \in {"idle", "user"}
  /\ ~started[p]
  /\ err[p] = "ok"
  /\ started' = [started EXCEPT ![p] = TRUE]
  /\ chain' = [chain EXCEPT ![p] = Pipe]
  /\ UNCHANGED <<authVars, logInStarted, sndVars, rcvVars, expVars, rspVars,
                 softSet, err, hq, mode, net, linkVars, userVars>>

-----------------------------------------------------------------------------
(* Sending.  rsp says which API it is: "none" for send(), "once" and       *)
(* "open" for the two forms of async_request().                            *)

RspApi == [none |-> "send", once |-> "async_request",
           open |-> "async_request_open"]

(* async_request() registers the response expectation as soon as the ID is *)
(* known; emplace() keeps an element that is already there.                *)
RegisterResponse(p, rsp) ==
  LET id  == sndNext[p]
      new == id \notin rspOnce[p] \cup rspOpen[p]
  IN  /\ rspOnce' = [rspOnce EXCEPT ![p] =
                       IF new /\ rsp = "once" THEN @ \cup {id} ELSE @]
      /\ rspOpen' = [rspOpen EXCEPT ![p] =
                       IF new /\ rsp = "open" THEN @ \cup {id} ELSE @]

(* Mutation: the server's first message need not be a response.            *)
PhaseAllowsAny(p, orig, rsp) ==
  CASE phase[p] = "CLI_LOG_IN" -> sndNext[p] = 1 /\ rsp # "none" /\ orig = 0
    [] phase[p] = "SRV_LOG_IN" -> sndNext[p] = 1
    [] OTHER -> TRUE

(* Before log-in is over a peer sends one message: the client its log-in   *)
(* request, which expects a response, the server the response to it.       *)
PhaseAllows(p, orig, rsp) ==
  CASE phase[p] = "LOGGED_IN"  -> TRUE
    [] phase[p] = "CLI_LOG_IN" -> sndNext[p] = 1 /\ rsp # "none" /\ orig = 0
    [] phase[p] = "SRV_LOG_IN" -> sndNext[p] = 1 /\ orig # 0

(* Mutation: sends on a hosed channel.                                     *)
SendCallableHosed(p, orig, rsp) ==
  /\ CanCall(p, RspApi[rsp])
  /\ sndNext[p] <= MaxOut[p]
  /\ orig \in Held(p) \cup {0}

SendCallable(p, orig, rsp) ==
  /\ CanCall(p, RspApi[rsp])
  /\ err[p] = "ok"
  /\ sndNext[p] <= MaxOut[p]
  /\ orig \in Held(p) \cup {0}

Send(p, k, w, orig, rsp) ==
  /\ SendCallable(p, orig, rsp)
  /\ PhaseAllows(p, orig, rsp)
  /\ ~ended[p]
  /\ <<p, k>> \notin broken
  /\ RegisterResponse(p, rsp)
  /\ LET m == [id |-> sndNext[p], orig |-> orig, which |-> w, tok |-> token[p]]
     IN  /\ net' = [net EXCEPT ![Other(p)][k] = Append(@, m)]
         /\ sent' = [sent EXCEPT ![p] = Append(@, [msg |-> m, rsp |-> rsp])]
  /\ sndNext' = [sndNext EXCEPT ![p] = @ + 1]
  /\ phase' = [phase EXCEPT ![p] = IF @ = "SRV_LOG_IN" THEN "LOGGED_IN" ELSE @]
  /\ UNCHANGED <<token, logInStarted, rcvVars, expVars, softSet, err,
                 loopVars, hq, mode, linkVars, userVars>>

(* The transport refuses: the call itself reports the error, once, and the *)
(* channel is hosed.                                                       *)
SendFails(p, k, orig, rsp) ==
  /\ SendCallable(p, orig, rsp)
  /\ PhaseAllows(p, orig, rsp)
  /\ ~ended[p]
  /\ <<p, k>> \in broken
  /\ RegisterResponse(p, rsp)
  /\ sndNext' = [sndNext EXCEPT ![p] = @ + 1]
  /\ err' = [err EXCEPT ![p] = "SEND"]
  /\ log' = [log EXCEPT ![p] = Append(@, Ev("send_error", 0))]
  /\ UNCHANGED <<authVars, logInStarted, rcvVars, expVars, softSet,
                 loopVars, hq, mode, net, linkVars, sent, qdMsgs>>

(* Mutation: the message is taken to be sent.                              *)
SendAfterEndCounts(p, orig, rsp) ==
  /\ SendCallable(p, orig, rsp)
  /\ PhaseAllows(p, orig, rsp)
  /\ ended[p]
  /\ RegisterResponse(p, rsp)
  /\ sndNext' = [sndNext EXCEPT ![p] = @ + 1]
  /\ LET m == [Internal(orig, token[p]) EXCEPT !.id = sndNext[p]]
     IN  sent' = [sent EXCEPT ![p] = Append(@, [msg |-> m, rsp |-> rsp])]
  /\ UNCHANGED <<authVars, logInStarted, rcvVars, expVars, softSet, err,
                 loopVars, hq, mode, net, linkVars, userVars>>

(* Mutation: the ID is taken back, as where a request is refused.          *)
SendAfterEndTakesBack(p, orig, rsp) ==
  /\ SendCallable(p, orig, rsp)
  /\ PhaseAllows(p, orig, rsp)
  /\ ended[p]
  /\ RegisterResponse(p, rsp)
  /\ UNCHANGED <<authVars, logInStarted, sndVars, rcvVars, expVars, softSet,
                 err, loopVars, hq, mode, net, linkVars, userVars>>

(* After async_end_sending() the transport says SENDS_FINISHED: the call   *)
(* returns false and the channel stays good, but the ID and the            *)
(* expectation are spent.                                                  *)
SendAfterEnd(p, orig, rsp) ==
  /\ SendCallable(p, orig, rsp)
  /\ PhaseAllows(p, orig, rsp)
  /\ ended[p]
  /\ RegisterResponse(p, rsp)
  /\ sndNext' = [sndNext EXCEPT ![p] = @ + 1]
  /\ UNCHANGED <<authVars, logInStarted, rcvVars, expVars, softSet, err,
                 loopVars, hq, mode, net, linkVars, sent, userVars>>

(* Mutation: the ID is taken back twice.                                   *)
RequestRefusedTwice(p, rsp) ==
  /\ SendCallable(p, 0, rsp)
  /\ phase[p] = "SRV_LOG_IN" /\ sndNext[p] = 1 /\ rsp # "none"
  /\ RegisterResponse(p, rsp)
  /\ sndNext' = [sndNext EXCEPT ![p] = @ - 1]
  /\ UNCHANGED <<authVars, logInStarted, sent, rcvVars, expVars, softSet,
                 err, loopVars, hq, mode, net, linkVars, userVars>>

(* A server not yet logged in may send its first message only as a         *)
(* response.  An async_request() that is not one is refused and its ID     *)
(* taken back, yet the expectation it registered stays.                    *)
RequestRefused(p, rsp) ==
  /\ SendCallable(p, 0, rsp)
  /\ phase[p] = "SRV_LOG_IN" /\ sndNext[p] = 1 /\ rsp # "none"
  /\ RegisterResponse(p, rsp)
  /\ UNCHANGED <<authVars, logInStarted, sndVars, rcvVars, expVars, softSet,
                 err, loopVars, hq, mode, net, linkVars, userVars>>

(* async_end_sending(): the owned channel queues a graceful-close behind   *)
(* what was sent, on each of its pipes.                                    *)
EndSending(p) ==
  /\ CanCall(p, "async_end_sending")
  /\ ~ended[p]
  /\ ended' = [ended EXCEPT ![p] = TRUE]
  /\ UNCHANGED <<authVars, logInStarted, sndVars, rcvVars, expVars, rspVars,
                 softSet, err, loopVars, hq, mode, net, broken, userVars>>

(* The transport of an out-pipe fails.                                     *)
Break(p, k) ==
  /\ <<p, k>> \in Breakable \ broken
  /\ broken' = broken \cup {<<p, k>>}
  /\ UNCHANGED <<authVars, logInStarted, sndVars, rcvVars, expVars, rspVars,
                 softSet, err, loopVars, hq, mode, net, ended, userVars>>

-----------------------------------------------------------------------------
(* Receiving.                                                              *)

(* Mutation: the reassembly queue is never flushed.                        *)
NextModeNoFlush(q, next, handlers) ==
  IF handlers # <<>> THEN "drain" ELSE "idle"

(* What the code does next, once it has dealt with one message: flush the  *)
(* reassembly queue, run the handlers posted, or wait for more.            *)
NextMode(q, next, handlers) ==
  IF \E m \in q : m.id = next THEN "flush"
  ELSE IF handlers # <<>> THEN "drain" ELSE "idle"

(* Mutation: the token is looked at only during log-in.                    *)
TokenErrorLogInOnly(p, m) ==
  IF \/ phase[p] = "SRV_LOG_IN" /\ m.tok # Nil
     \/ phase[p] = "CLI_LOG_IN" /\ m.tok = Nil
  THEN "LOG_IN_MISUSED_SCHEMA" ELSE "ok"

(* The checks of rcv_struct_new_msg_in() and of the two log-in methods, in *)
(* the order they are made; "ok" when the message passes.                  *)
TokenError(p, m) ==
  CASE phase[p] = "SRV_LOG_IN" ->
         IF m.tok = Nil THEN "ok" ELSE "LOG_IN_MISUSED_SCHEMA"
    [] phase[p] = "CLI_LOG_IN" ->
         IF m.tok # Nil THEN "ok" ELSE "LOG_IN_MISUSED_SCHEMA"
    [] phase[p] = "LOGGED_IN" ->
         IF m.tok = token[p] THEN "ok" ELSE "BAD_AUTH"

(* Mutation: a gap is an error with two pipes as it is with one.           *)
SequenceErrorNoGap(p, m) ==
  IF \/ m.id # rcvNext[p]
     \/ rcvNext[p] > 1 /\ phase[p] # "LOGGED_IN"
  THEN "MISUSED_SCHEMA" ELSE "ok"

SequenceError(p, m) ==
  IF \/ m.id < rcvNext[p]
     \/ m.id > rcvNext[p] /\ (~TwoPipes \/ phase[p] # "LOGGED_IN")
     \/ \E r \in reasm[p] : r.id = m.id
     \/ rcvNext[p] > 1 /\ phase[p] # "LOGGED_IN"
  THEN "MISUSED_SCHEMA" ELSE "ok"

LogInError(p, m) ==
  CASE phase[p] = "CLI_LOG_IN" ->
         IF rspOnce[p] \cup rspOpen[p] = {1} /\ m.orig = 1
         THEN "ok" ELSE "LOG_IN_MISUSED_SCHEMA"
    [] phase[p] = "SRV_LOG_IN" ->
         IF \/ m.orig # 0
            \/ msgOnce[p] = {} /\ \E w \in Which : pending[p][w] # <<>>
         THEN "LOG_IN_MISUSED_SCHEMA"
         ELSE IF msgOnce[p] \notin {{}, {m.which}}
              THEN "GOT_UNEXPECTED_LOG_IN_REQUEST" ELSE "ok"
    [] phase[p] = "LOGGED_IN" -> "ok"

(* A user message that gets as far as the increment of m_rcv_msg_next_id.  *)
InOrder(p, m) ==
  /\ TokenError(p, m) = "ok" /\ SequenceError(p, m) = "ok"
  /\ m.id # 0 /\ m.id = rcvNext[p]

InMsgError(p, m) ==
  IF TokenError(p, m) # "ok" THEN TokenError(p, m)
  ELSE IF m.id = 0 THEN "ok"
  ELSE IF InOrder(p, m) THEN LogInError(p, m) ELSE SequenceError(p, m)

(* handle_new_error(): the channel is hosed; its on-error handler is       *)
(* posted.                                                                 *)
NewError(p, e) ==
  /\ err' = [err EXCEPT ![p] = e]
  /\ hq' = [hq EXCEPT ![p] = Append(@, Ev("on_error", 0))]

(* rcv_struct_new_msg_in_is_next_expected(): an in-order message goes to   *)
(* the handler that expects it, or waits, or is an unexpected response, in *)
(* which case the other peer is told.  pipes is net[p] or what Receive has *)
(* left of it.                                                             *)
IsResponseExpected(p, m) == m.orig \in rspOnce[p] \cup rspOpen[p]

(* Mutation: a one-off response expectation outlives its response.         *)
DeliverResponseKeeps(p, m, pipes) ==
  /\ m.orig # 0 /\ IsResponseExpected(p, m)
  /\ hq' = [hq EXCEPT ![p] = Append(@, Ev("rsp", m.id))]
  /\ net' = [net EXCEPT ![p] = pipes]
  /\ UNCHANGED <<rspVars, expVars>>

DeliverResponse(p, m, pipes) ==
  /\ m.orig # 0 /\ IsResponseExpected(p, m)
  /\ hq' = [hq EXCEPT ![p] = Append(@, Ev("rsp", m.id))]
  /\ rspOnce' = [rspOnce EXCEPT ![p] = @ \ {m.orig}]
  /\ net' = [net EXCEPT ![p] = pipes]
  /\ UNCHANGED <<rspOpen, expVars>>

(* Mutation: the notice names the request, not the response.               *)
DeliverUnexpectedMisnamed(p, m, pipes) ==
  /\ m.orig # 0 /\ ~IsResponseExpected(p, m)
  /\ hq' = [hq EXCEPT ![p] = Append(@, Ev("unexpected", m.id))]
  /\ net' = [net EXCEPT ![p] = pipes, ![Other(p)][InternalPipe] =
                          Append(@, Internal(m.orig, token[p]))]
  /\ UNCHANGED <<rspVars, expVars>>

(* Mutation: the other peer is not told.                                   *)
DeliverUnexpectedSilently(p, m, pipes) ==
  /\ m.orig # 0 /\ ~IsResponseExpected(p, m)
  /\ hq' = [hq EXCEPT ![p] = Append(@, Ev("unexpected", m.id))]
  /\ net' = [net EXCEPT ![p] = pipes]
  /\ UNCHANGED <<rspVars, expVars>>

DeliverUnexpected(p, m, pipes) ==
  LET able   == ~ended[p] /\ <<p, InternalPipe>> \notin broken
      notice == Internal(m.id, token[p])
  IN  /\ m.orig # 0 /\ ~IsResponseExpected(p, m)
      /\ hq' = [hq EXCEPT ![p] = Append(@, Ev("unexpected", m.id))]
      /\ net' = [net EXCEPT ![p] = pipes,
                            ![Other(p)][InternalPipe] =
                              IF able THEN Append(@, notice) ELSE @]
      /\ UNCHANGED <<rspVars, expVars>>

DeliverExpected(p, m, pipes) ==
  /\ m.orig = 0 /\ m.which \in msgOnce[p] \cup msgOpen[p]
  /\ hq' = [hq EXCEPT ![p] = Append(@, Ev("msg", m.id))]
  /\ msgOnce' = [msgOnce EXCEPT ![p] = @ \ {m.which}]
  /\ net' = [net EXCEPT ![p] = pipes]
  /\ UNCHANGED <<msgOpen, pending, rspVars>>

(* Mutation: the queue of waiting messages is a stack.                     *)
DeliverLaterAtFront(p, m, pipes) ==
  /\ m.orig = 0 /\ m.which \notin msgOnce[p] \cup msgOpen[p]
  /\ pending' = [pending EXCEPT ![p][m.which] = <<m.id>> \o @]
  /\ net' = [net EXCEPT ![p] = pipes]
  /\ UNCHANGED <<hq, msgOnce, msgOpen, rspVars>>

DeliverLater(p, m, pipes) ==
  /\ m.orig = 0 /\ m.which \notin msgOnce[p] \cup msgOpen[p]
  /\ pending' = [pending EXCEPT ![p][m.which] = Append(@, m.id)]
  /\ net' = [net EXCEPT ![p] = pipes]
  /\ UNCHANGED <<hq, msgOnce, msgOpen, rspVars>>

IsNextExpected(p, m, pipes) ==
  \/ DeliverResponse(p, m, pipes)
  \/ DeliverUnexpected(p, m, pipes)
  \/ DeliverExpected(p, m, pipes)
  \/ DeliverLater(p, m, pipes)

(* An async read of pipe k has a message: the cases of                     *)
(* rcv_struct_new_msg_in().                                                *)
Reads(p, k) == mode[p] = "idle" /\ k \in chain[p]

(* Mutation: a hosed channel goes on receiving.                            *)
MsgAtHosed(p, k) == Reads(p, k) /\ net[p][k] # <<>>

MsgAt(p, k) == Reads(p, k) /\ net[p][k] # <<>> /\ err[p] = "ok"
Rest(p, k)  == [net[p] EXCEPT ![k] = Tail(@)]

ReceiveBad(p, k) ==
  LET m == Head(net[p][k])
  IN  /\ MsgAt(p, k)
      /\ InMsgError(p, m) # "ok"
      /\ NewError(p, InMsgError(p, m))
      /\ rcvNext' = [rcvNext EXCEPT ![p] = IF InOrder(p, m) THEN @ + 1 ELSE @]
      /\ net' = [net EXCEPT ![p] = Rest(p, k)]
      /\ chain' = [chain EXCEPT ![p] = @ \ {k}]
      /\ mode' = [mode EXCEPT ![p] = "drain"]
      /\ UNCHANGED <<authVars, logInStarted, sndVars, reasm, expVars, rspVars,
                     softSet, started, linkVars, userVars>>

ReceiveInternal(p, k) ==
  LET m == Head(net[p][k])
  IN  /\ MsgAt(p, k)
      /\ InMsgError(p, m) = "ok" /\ m.id = 0
      /\ hq' = [hq EXCEPT ![p] = Append(@, Ev("remote_unexpected", m.orig))]
      /\ net' = [net EXCEPT ![p] = Rest(p, k)]
      /\ mode' = [mode EXCEPT ![p] = "drain"]
      /\ UNCHANGED <<authVars, logInStarted, sndVars, rcvVars, expVars,
                     rspVars, softSet, err, loopVars, linkVars, userVars>>

ReceiveEarly(p, k) ==
  LET m == Head(net[p][k])
  IN  /\ MsgAt(p, k)
      /\ InMsgError(p, m) = "ok" /\ m.id > rcvNext[p]
      /\ reasm' = [reasm EXCEPT ![p] = @ \cup {m}]
      /\ net' = [net EXCEPT ![p] = Rest(p, k)]
      /\ mode' = [mode EXCEPT ![p] = IF hq[p] # <<>> THEN "drain" ELSE "idle"]
      /\ UNCHANGED <<authVars, logInStarted, sndVars, rcvNext, expVars,
                     rspVars, softSet, err, loopVars, hq, linkVars, userVars>>

(* Mutation: the client does not take the token.                           *)
ReceiveNextNoToken(p, k) ==
  LET m == Head(net[p][k])
  IN  /\ MsgAt(p, k)
      /\ InMsgError(p, m) = "ok" /\ m.id = rcvNext[p]
      /\ rcvNext' = [rcvNext EXCEPT ![p] = @ + 1]
      /\ phase' = [phase EXCEPT ![p] = IF @ = "CLI_LOG_IN" THEN "LOGGED_IN"
                                                           ELSE @]
      /\ IsNextExpected(p, m, Rest(p, k))
      /\ mode' = [mode EXCEPT ![p] = NextMode(reasm[p], rcvNext'[p], hq'[p])]
      /\ UNCHANGED <<token, logInStarted, sndVars, reasm, softSet, err,
                     loopVars, linkVars, userVars>>

(* The next message in order; a client in log-in takes the token from it   *)
(* and is logged in.                                                       *)
ReceiveNext(p, k) ==
  LET m == Head(net[p][k])
  IN  /\ MsgAt(p, k)
      /\ InMsgError(p, m) = "ok" /\ m.id = rcvNext[p]
      /\ rcvNext' = [rcvNext EXCEPT ![p] = @ + 1]
      /\ IF phase[p] = "CLI_LOG_IN"
         THEN /\ phase' = [phase EXCEPT ![p] = "LOGGED_IN"]
              /\ token' = [token EXCEPT ![p] = m.tok]
         ELSE UNCHANGED authVars
      /\ IsNextExpected(p, m, Rest(p, k))
      /\ mode' = [mode EXCEPT ![p] = NextMode(reasm[p], rcvNext'[p], hq'[p])]
      /\ UNCHANGED <<logInStarted, sndVars, reasm, softSet, err, loopVars,
                     linkVars, userVars>>

(* Mutation: the loop takes the messages in any order.                     *)
FlushAny(p, m) ==
  /\ mode[p] = "flush"
  /\ m \in reasm[p]
  /\ reasm' = [reasm EXCEPT ![p] = @ \ {m}]
  /\ rcvNext' = [rcvNext EXCEPT ![p] = @ + 1]
  /\ IsNextExpected(p, m, net[p])
  /\ mode' = [mode EXCEPT ![p] = IF reasm'[p] # {} THEN "flush"
                                ELSE IF hq'[p] # <<>> THEN "drain" ELSE "idle"]
  /\ UNCHANGED <<authVars, logInStarted, sndVars, softSet, err, loopVars,
                 linkVars, userVars>>

(* One turn of the loop at the end of rcv_struct_new_msg_in().             *)
Flush(p, m) ==
  /\ mode[p] = "flush"
  /\ m \in reasm[p] /\ m.id = rcvNext[p]
  /\ reasm' = [reasm EXCEPT ![p] = @ \ {m}]
  /\ rcvNext' = [rcvNext EXCEPT ![p] = @ + 1]
  /\ IsNextExpected(p, m, net[p])
  /\ mode' = [mode EXCEPT ![p] = NextMode(reasm'[p], rcvNext'[p], hq'[p])]
  /\ UNCHANGED <<authVars, logInStarted, sndVars, softSet, err, loopVars,
                 linkVars, userVars>>

(* The read of pipe k fails: the other peer's graceful-close is next, or   *)
(* the transport has failed.  The first such error hoses the channel.      *)
ReadError(p, k) ==
  {e \in {"RECEIVES_FINISHED", "TRANSPORT"} :
     IF e = "TRANSPORT" THEN <<Other(p), k>> \in broken
                        ELSE ended[Other(p)] /\ net[p][k] = <<>>}

(* Mutation: an error is reported on a channel that is hosed already.      *)
ReadFailsAgain(p, k) ==
  /\ Reads(p, k)
  /\ \E e \in ReadError(p, k) : NewError(p, e)
  /\ chain' = [chain EXCEPT ![p] = @ \ {k}]
  /\ mode' = [mode EXCEPT ![p] = "drain"]
  /\ UNCHANGED <<authVars, logInStarted, sndVars, rcvVars, expVars, rspVars,
                 softSet, started, net, linkVars, userVars>>

(* Mutation: the on-error handler is posted and not polled.                *)
ReadFailsUnpolled(p, k) ==
  /\ Reads(p, k)
  /\ err[p] = "ok"
  /\ \E e \in ReadError(p, k) : NewError(p, e)
  /\ chain' = [chain EXCEPT ![p] = @ \ {k}]
  /\ UNCHANGED <<authVars, logInStarted, sndVars, rcvVars, expVars, rspVars,
                 softSet, started, mode, net, linkVars, userVars>>

ReadFails(p, k) ==
  /\ Reads(p, k)
  /\ err[p] = "ok"
  /\ \E e \in ReadError(p, k) : NewError(p, e)
  /\ chain' = [chain EXCEPT ![p] = @ \ {k}]
  /\ mode' = [mode EXCEPT ![p] = "drain"]
  /\ UNCHANGED <<authVars, logInStarted, sndVars, rcvVars, expVars, rspVars,
                 softSet, started, net, linkVars, userVars>>

(* On a hosed channel whatever a read yields is ignored and the chain      *)
(* stops; handlers left unpolled are run.                                  *)
ReadIgnored(p, k) ==
  /\ Reads(p, k)
  /\ err[p] # "ok"
  /\ net[p][k] # <<>> \/ ReadError(p, k) # {}
  /\ net' = [net EXCEPT ![p][k] = IF @ = <<>> THEN @ ELSE Tail(@)]
  /\ chain' = [chain EXCEPT ![p] = @ \ {k}]
  /\ mode' = [mode EXCEPT ![p] = IF hq[p] # <<>> THEN "drain" ELSE "idle"]
  /\ UNCHANGED <<authVars, logInStarted, sndVars, rcvVars, expVars, rspVars,
                 softSet, err, started, hq, linkVars, userVars>>

(* handlers_poll() runs the next handler.  The two unexpected-response     *)
(* handlers look at run time whether the user registered anything.         *)
Fired(p, e) ==
  IF e.kind \in DOMAIN Ignored /\ e.kind \notin softSet[p]
  THEN Ev(Ignored[e.kind], e.id) ELSE e

Fire(p) ==
  /\ mode[p] \in {"drain", "user"}
  /\ log' = [log EXCEPT ![p] = Append(@, Fired(p, Head(hq[p])))]
  /\ hq' = [hq EXCEPT ![p] = Tail(@)]
  /\ mode' = [mode EXCEPT ![p] = IF Len(hq[p]) > 1 THEN "user" ELSE "idle"]
  /\ UNCHANGED <<authVars, logInStarted, sndVars, rcvVars, expVars, rspVars,
                 softSet, err, loopVars, net, linkVars, qdMsgs>>

-----------------------------------------------------------------------------
(* Expectations, and the other calls.                                      *)

LoggedInCall(p, call) ==
  CanCall(p, call) /\ err[p] = "ok" /\ phase[p] = "LOGGED_IN"

Emit(p, ids) == log' = [log EXCEPT ![p] =
                          @ \o [i \in 1..Len(ids) |-> Ev("msg", ids[i])]]

(* expect_msg(): a waiting message meets the expectation at once and is    *)
(* returned by the call; otherwise the expectation is registered.          *)
ExpectMsg(p, w) ==
  /\ LoggedInCall(p, "expect_msg")
  /\ w \notin msgOnce[p] \cup msgOpen[p]
  /\ IF pending[p][w] = <<>>
     THEN /\ msgOnce' = [msgOnce EXCEPT ![p] = @ \cup {w}]
          /\ UNCHANGED <<pending, log>>
     ELSE /\ pending' = [pending EXCEPT ![p][w] = Tail(@)]
          /\ Emit(p, <<Head(pending[p][w])>>)
          /\ UNCHANGED msgOnce
  /\ UNCHANGED <<authVars, logInStarted, sndVars, rcvVars, msgOpen, rspVars,
                 softSet, err, loopVars, hq, mode, net, linkVars, qdMsgs>>

(* Mutation: only the first waiting message is taken.                      *)
ExpectMsgsFirst(p, w) ==
  /\ LoggedInCall(p, "expect_msgs")
  /\ w \notin msgOnce[p] \cup msgOpen[p]
  /\ msgOpen' = [msgOpen EXCEPT ![p] = @ \cup {w}]
  /\ IF pending[p][w] = <<>> THEN UNCHANGED <<pending, log>>
     ELSE /\ Emit(p, <<Head(pending[p][w])>>)
          /\ pending' = [pending EXCEPT ![p][w] = Tail(@)]
  /\ UNCHANGED <<authVars, logInStarted, sndVars, rcvVars, msgOnce, rspVars,
                 softSet, err, loopVars, hq, mode, net, linkVars, qdMsgs>>

(* Mutation: the waiting messages are returned and go on waiting.          *)
ExpectMsgsKeepsWaiting(p, w) ==
  /\ LoggedInCall(p, "expect_msgs")
  /\ w \notin msgOnce[p] \cup msgOpen[p]
  /\ msgOpen' = [msgOpen EXCEPT ![p] = @ \cup {w}]
  /\ Emit(p, pending[p][w])
  /\ UNCHANGED <<authVars, logInStarted, sndVars, rcvVars, msgOnce, pending,
                 rspVars, softSet, err, loopVars, hq, mode, net, linkVars,
                 qdMsgs>>

(* expect_msgs() stays registered.  It puts all the waiting messages in    *)
(* the user's list, which it clears first; when there are none it leaves   *)
(* the list as it is.  The user handles what the list holds.               *)
ExpectMsgs(p, w) ==
  /\ LoggedInCall(p, "expect_msgs")
  /\ w \notin msgOnce[p] \cup msgOpen[p]
  /\ msgOpen' = [msgOpen EXCEPT ![p] = @ \cup {w}]
  /\ LET list == IF pending[p][w] # <<>> THEN pending[p][w] ELSE qdMsgs[p]
     IN  /\ Emit(p, list)
         /\ qdMsgs' = [qdMsgs EXCEPT ![p] = IF KeepsList THEN list ELSE <<>>]
  /\ pending' = [pending EXCEPT ![p][w] = <<>>]
  /\ UNCHANGED <<authVars, logInStarted, sndVars, rcvVars, msgOnce, rspVars,
                 softSet, err, loopVars, hq, mode, net, linkVars>>

UndoExpectMsgs(p, w) ==
  /\ LoggedInCall(p, "undo_expect_msgs")
  /\ w \in msgOnce[p] \cup msgOpen[p]
  /\ msgOnce' = [msgOnce EXCEPT ![p] = @ \ {w}]
  /\ msgOpen' = [msgOpen EXCEPT ![p] = @ \ {w}]
  /\ UNCHANGED <<authVars, logInStarted, sndVars, rcvVars, pending, rspVars,
                 softSet, err, loopVars, hq, mode, net, linkVars, userVars>>

(* Only async_request() in its open-ended form tells the user the ID.      *)
UndoExpectResponses(p, id) ==
  /\ LoggedInCall(p, "undo_expect_responses")
  /\ id \in rspOpen[p]
  /\ rspOpen' = [rspOpen EXCEPT ![p] = @ \ {id}]
  /\ UNCHANGED <<authVars, logInStarted, sndVars, rcvVars, expVars, rspOnce,
                 softSet, err, loopVars, hq, mode, net, linkVars, userVars>>

(* expect_log_in_request(), once per server: a request of the kind w that  *)
(* is already here is returned; one of another kind hoses the channel,     *)
(* which posts the on-error handler but does not poll it.                  *)
ExpectLogInRequest(p, w) ==
  /\ CanCall(p, "expect_log_in_request")
  /\ phase[p] = "SRV_LOG_IN" /\ err[p] = "ok" /\ ~logInStarted[p]
  /\ logInStarted' = [logInStarted EXCEPT ![p] = TRUE]
  /\ IF pending[p][w] # <<>>
     THEN /\ pending' = [pending EXCEPT ![p][w] = Tail(@)]
          /\ Emit(p, <<Head(pending[p][w])>>)
          /\ UNCHANGED <<msgOnce, err, hq>>
     ELSE /\ msgOnce' = [msgOnce EXCEPT ![p] = @ \cup {w}]
          /\ IF \E v \in Which : pending[p][v] # <<>>
             THEN NewError(p, "GOT_UNEXPECTED_LOG_IN_REQUEST")
             ELSE UNCHANGED <<err, hq>>
          /\ UNCHANGED <<pending, log>>
  /\ UNCHANGED <<authVars, sndVars, rcvVars, msgOpen, rspVars, softSet,
                 loopVars, mode, net, linkVars, qdMsgs>>

(* set_unexpected_response_handler() and its remote counterpart, and the   *)
(* calls that undo them: allowed in every phase, error or not.             *)
SetHandler(p, h) ==
  /\ CanCall(p, "set_handlers")
  /\ h \notin softSet[p]
  /\ softSet' = [softSet EXCEPT ![p] = @ \cup {h}]
  /\ UNCHANGED <<authVars, logInStarted, sndVars, rcvVars, expVars, rspVars,
                 err, loopVars, hq, mode, net, linkVars, userVars>>

UnsetHandler(p, h) ==
  /\ CanCall(p, "set_handlers")
  /\ h \in softSet[p]
  /\ softSet' = [softSet EXCEPT ![p] = @ \ {h}]
  /\ UNCHANGED <<authVars, logInStarted, sndVars, rcvVars, expVars, rspVars,
                 err, loopVars, hq, mode, net, linkVars, userVars>>

-----------------------------------------------------------------------------
SendStep(p) ==
  \E orig \in Held(p) \cup {0}, rsp \in DOMAIN RspApi :
    \/ \E k \in Pipe, w \in Which : Send(p, k, w, orig, rsp)
    \/ \E k \in Pipe : SendFails(p, k, orig, rsp)
    \/ SendAfterEnd(p, orig, rsp)

ApiStep(p) ==
  \/ StartAndPoll(p)
  \/ SendStep(p)
  \/ \E rsp \in DOMAIN RspApi : RequestRefused(p, rsp)
  \/ EndSending(p)
  \/ \E w \in Which : \/ ExpectMsg(p, w)
                      \/ ExpectMsgs(p, w)
                      \/ UndoExpectMsgs(p, w)
                      \/ ExpectLogInRequest(p, w)
  \/ \E id \in rspOpen[p] : UndoExpectResponses(p, id)
  \/ \E h \in DOMAIN Ignored : SetHandler(p, h) \/ UnsetHandler(p, h)

ReadStep(p, k) ==
  \/ ReceiveBad(p, k)
  \/ ReceiveInternal(p, k)
  \/ ReceiveEarly(p, k)
  \/ ReceiveNext(p, k)
  \/ ReadFails(p, k)
  \/ ReadIgnored(p, k)

ThreadStep(p) == Fire(p) \/ \E m \in reasm[p] : Flush(p, m)

Next ==
  \/ \E p \in Peer : \/ ApiStep(p)
                     \/ ThreadStep(p)
                     \/ \E k \in Pipe : ReadStep(p, k) \/ Break(p, k)

Spec == Init /\ [][Next]_vars

=============================================================================
