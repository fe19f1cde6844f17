---------------------------- MODULE AsyncChannel ----------------------------
(***************************************************************************)
(* struc::Channel: the asynchronous wrapper of one struc::sync_io::Channel *)
(* (the core, m_sync_io).  User threads call its API at any time; thread W *)
(* reads the channel on the core's behalf and calls the user's handlers;   *)
(* the destructor ends W and lets a finisher thread do what W had left.    *)
(*                                                                         *)
(* A section under m_mutex is one step, and so is a pass through           *)
(* m_sync_io, except for start(), which may read several messages before   *)
(* it unlocks.  What the core does with an in-message is that of           *)
(* StructChannel, reduced to one kind of notification, a log-in that is    *)
(* over, and one in-pipe.                                                  *)
(*                                                                         *)
(* A definition under a comment that begins with Mutation: is the next one *)
(* with a plausible bug.  No specification uses it: put in place of the    *)
(* definition it varies, it shows that a property would catch the bug.     *)
(***************************************************************************)
EXTENDS Naturals, Sequences

CONSTANTS
  User,    \* the user's threads that call sync_request()
  Untimed, \* those of them that give no timeout
  None,    \* no thread
  Api,     \* the other calls the user makes
  Input,   \* the kinds of things that come from the peer
  MaxReq,  \* bound on the messages sent that expect a response
  MaxSync, \* bound on the calls of sync_request(), below 2^32
  MaxIn,   \* bound on what comes from the peer
  MaxEnd   \* bound on the calls of async_end_sending()

Call == {"start", "send", "async_request", "async_request_open", "expect_msg",
         "expect_msgs", "undo_expect_msgs", "undo_expect_responses",
         "set_handler", "async_end_sending", "destroy"}

ASSUME ConstantsAssumption ==
  /\ Untimed \subseteq User /\ None \notin User
  /\ Api \subseteq Call
  /\ Input \subseteq {"note", "rsp", "remote_unexpected", "fail"}
  /\ MaxReq \in Nat /\ MaxSync \in Nat /\ MaxIn \in Nat /\ MaxEnd \in Nat

VARIABLES
  \* m_sync_io, the core
  started,  \* start_and_poll() was called
  hosed,    \* m_channel_err_code_or_ok: by whom the error is to be emitted
  expect,   \* m_rcv_expecting_msg_map, for the one kind of notification
  waiting,  \* m_rcv_pending_msgs
  rsp,      \* m_rcv_expecting_response_map
  soft,     \* the kinds of the on-unexpected-response handlers registered
  sndNext,  \* m_snd_msg_next_id
  ended,    \* the owned channel's graceful-close: "no", "waits", "done"
  wire,     \* what has come from the peer and is not read yet
  nIn,      \* how much has come from the peer
  sent,     \* the IDs of the messages handed to the transport
  \* the wrapper
  starting, \* start() is in start_and_poll(), with m_mutex locked
  holder,   \* who holds m_sync_op_mutex
  op,       \* m_sync_op_state
  opNext,   \* m_sync_op_state_id
  pc,       \* where each thread is in sync_request()
  req,      \* the ID of the message it sent
  endFunc,  \* m_snd_end_sending_on_done_func_or_empty: 0, or whose it is
  nEnd,     \* the calls of async_end_sending() so far
  tasks,    \* what is posted to m_worker
  run,      \* run[r]: the handlers runner r is calling, the first at present
  life,     \* "up", or how far the destructor is
  \* history
  emitted,  \* the calls of in-message handlers decided upon, in order
  fired,    \* the handler calls made, in order
  told,     \* through what the user was told that the channel is hosed
  answer    \* answer[i]: what became of the sync_request() that sent i

coreVars == <<started, hosed, expect, waiting, rsp, soft, sndNext, ended>>
wireVars == <<wire, nIn, sent>>
syncVars == <<holder, op, opNext, pc, req>>
endVars  == <<endFunc, nEnd>>
workVars == <<tasks, run>>
hist     == <<emitted, fired, told, answer>>
vars == <<coreVars, wireVars, starting, syncVars, endVars, workVars, life,
          hist>>

(* Who may run handlers: thread W, and the destructor's finisher thread.   *)
Runner == {"W", "finisher"}

(* A handler call: an in-message handler's, the on-error handler's, or     *)
(* that of the completion handler of async_end_sending() number id.        *)
Event == [kind : {"msg", "rsp", "unexpected", "remote_unexpected", "error",
                  "end", "end_aborted"}, id : Nat]
Ev(kind, id) == [kind |-> kind, id |-> id]

(* A task posted to m_worker: it calls a handler, once or (expect_msgs())  *)
(* once for each of a list, or it deals with the error or the end.         *)
Task == [kind : {"call", "error", "end"}, evs : Seq(Event)]
CallTask(evs) == [kind |-> "call", evs |-> evs]
OtherTask(kind) == [kind |-> kind, evs |-> <<>>]

(* m_result_if_any: monostate, an Error_code, or the response, which       *)
(* names the request it answers.                                           *)
Result == [kind : {"none", "error", "rsp"}, of : Nat]
NoResult == [kind |-> "none", of |-> 0]
Hosing   == [kind |-> "error", of |-> 0]
Response(of) == [kind |-> "rsp", of |-> of]

(* What sync_request() returned: the response, an error code, or not yet.  *)
Outcome == [kind : {"none", "asked", "rsp", "error", "timeout"}, of : Nat]
NoOutcome == [kind |-> "none", of |-> 0]
Asked     == [kind |-> "asked", of |-> 0]
TimedOut  == [kind |-> "timeout", of |-> 0]

(* m_sync_op_state, which is an optional.                                  *)
SyncOp == [on : BOOLEAN, id : Nat, result : Result]
NoOp   == [on |-> FALSE, id |-> 0, result |-> NoResult]
NewOp(id) == [on |-> TRUE, id |-> id, result |-> NoResult]

(* An expectation of responses to message id; a sync_request()'s captures  *)
(* the ID of its operation.                                                *)
Expectation == [id : Nat, mode : {"once", "open", "sync"}, op : Nat]
Expecting(id, mode, o) == [id |-> id, mode |-> mode, op |-> o]

Item == [kind : {"note", "rsp", "remote_unexpected", "fail"}, id : Nat]

(* m_mutex is free, and the object may be used: the destructor has not     *)
(* begun, or a handler runs, which may call any API but sync_request().    *)
Unlocked == ~starting
Calling  == \E r \in Runner : run[r] # <<>>
CanCall(call) == call \in Api /\ Unlocked /\ (life = "up" \/ Calling)

(* Mutation: the finisher does not wait for W to end.                      *)
IdleAtOnce(r) == /\ life \in IF r = "W" THEN {"up"}
                                        ELSE {"stopping", "finishing"}
                 /\ run[r] = <<>>

(* Runner r's loop is about to take the next thing that is ready.          *)
Idle(r) == /\ life = IF r = "W" THEN "up" ELSE "finishing"
           /\ run[r] = <<>>

-----------------------------------------------------------------------------
(* The constructor makes the core, starts thread W and, with start_ops(),  *)
(* has W wait for whatever descriptor the core names.                      *)
Init ==
  /\ started = FALSE /\ starting = FALSE
  /\ hosed = "ok"
  /\ expect = "none" /\ waiting = <<>>
  /\ rsp = {} /\ soft = {}
  /\ sndNext = 1
  /\ ended = "no"
  /\ wire = <<>> /\ nIn = 0 /\ sent = {}
  /\ holder = None
  /\ op = NoOp /\ opNext = 0
  /\ pc = [t \in User |-> "out"]
  /\ req = [t \in User |-> 0]
  /\ endFunc = 0 /\ nEnd = 0
  /\ tasks = <<>>
  /\ run = [r \in Runner |-> <<>>]
  /\ life = "up"
  /\ emitted = <<>> /\ fired = <<>> /\ told = <<>>
  /\ answer = [i \in 1..MaxReq |-> NoOutcome]

(* A handler of the core posts the user's handler.                         *)
Emits(ev) == /\ tasks' = Append(tasks, CallTask(<<ev>>))
             /\ emitted' = Append(emitted, ev)

-----------------------------------------------------------------------------
(* The peer.                                                               *)

Arrives(item) ==
  /\ item.kind \in Input
  /\ nIn < MaxIn
  /\ hosed = "ok" /\ life # "gone"
  /\ \A i \in 1..Len(wire) : wire[i].kind # "fail"
  /\ wire' = Append(wire, item)
  /\ nIn' = nIn + 1
  /\ UNCHANGED <<sent, coreVars, starting, syncVars, endVars, workVars, life,
                 hist>>

(* It answers what it was sent, once or more; it sends notifications; its  *)
(* reports of unexpected responses; it closes, or the transport fails.     *)
PeerSends ==
  \/ \E i \in sent : Arrives([kind |-> "rsp", id |-> i])
  \/ \E kind \in {"note", "remote_unexpected", "fail"} :
       Arrives([kind |-> kind, id |-> nIn + 1])

-----------------------------------------------------------------------------
(* Reading: the handlers that the wrapper gave the core, run by the core   *)
(* with m_mutex locked.                                                    *)

(* real_on_msg_func: an expected notification is emitted, another waits.   *)
OnNote(n) ==
  /\ IF expect = "none" THEN waiting' = Append(waiting, n)
                             /\ UNCHANGED <<tasks, emitted>>
     ELSE Emits(Ev("msg", n)) /\ UNCHANGED waiting
  /\ expect' = IF expect = "once" THEN "none" ELSE expect
  /\ UNCHANGED <<rsp, op, hosed, fired>>

(* Mutation: sync_request()'s handler does not ask whose operation it is.  *)
OnSyncResponseAnyOp(i, o) ==
  /\ op' = IF op.on /\ op.result.kind # "error"
           THEN [op EXCEPT !.result = Response(i)] ELSE op
  /\ UNCHANGED <<tasks, emitted, fired>>

(* sync_request()'s handler: the response is dropped when the operation it *)
(* was registered by is over, or has met an error.                         *)
OnSyncResponse(i, o) ==
  /\ op' = IF op.on /\ op.id = o /\ op.result.kind # "error"
           THEN [op EXCEPT !.result = Response(i)] ELSE op
  /\ UNCHANGED <<tasks, emitted, fired>>

(* Mutation: the user's response handler is called at once, not posted.    *)
OnAsyncResponseAtOnce(i) ==
  /\ emitted' = Append(emitted, Ev("rsp", i))
  /\ fired' = Append(fired, Ev("rsp", i))
  /\ UNCHANGED <<tasks, op>>

(* real_on_rsp_func of async_request().                                    *)
OnAsyncResponse(i) == Emits(Ev("rsp", i)) /\ UNCHANGED <<op, fired>>

(* The on-unexpected-response handlers, if they are set.                   *)
OnUnexpected(kind, i) ==
  /\ IF kind \in soft THEN Emits(Ev(kind, i)) ELSE UNCHANGED <<tasks, emitted>>
  /\ UNCHANGED <<op, fired>>

(* The core drops a one-off expectation before it calls the handler.       *)
OnResponse(i) ==
  /\ \/ \E e \in rsp :
          /\ e.id = i
          /\ IF e.mode = "sync" THEN OnSyncResponse(i, e.op)
                                ELSE OnAsyncResponse(i)
     \/ /\ \A e \in rsp : e.id # i
        /\ OnUnexpected("unexpected", i)
  /\ rsp' = {e \in rsp : e.id # i \/ e.mode = "open"}
  /\ UNCHANGED <<expect, waiting, hosed>>

(* The on-error handler given to start_and_poll().                         *)
OnError == /\ hosed' = "rcv"
           /\ tasks' = Append(tasks, OtherTask("error"))
           /\ UNCHANGED <<expect, waiting, rsp, op, emitted, fired>>

(* The core reads one message: thread W in the handler of async_wait(), or *)
(* the caller of start().                                                  *)
Read ==
  /\ started /\ hosed = "ok" /\ wire # <<>>
  /\ starting \/ \E r \in Runner : Idle(r)
  /\ LET item == Head(wire)
     IN  CASE item.kind = "note" -> OnNote(item.id)
           [] item.kind = "rsp"  -> OnResponse(item.id)
           [] item.kind = "fail" -> OnError
           [] item.kind = "remote_unexpected" ->
                /\ OnUnexpected(item.kind, item.id)
                /\ UNCHANGED <<expect, waiting, rsp, hosed>>
  /\ wire' = Tail(wire)
  /\ UNCHANGED <<started, soft, sndNext, ended, nIn, sent, starting, holder,
                 opNext, pc, req, endVars, run, life, told, answer>>

-----------------------------------------------------------------------------
(* The calls that forward to the core with m_mutex locked.                 *)

(* start(): the core may read at once, before start() unlocks.             *)
Start ==
  /\ CanCall("start") /\ ~started /\ hosed = "ok"
  /\ started' = TRUE /\ starting' = TRUE
  /\ UNCHANGED <<hosed, expect, waiting, rsp, soft, sndNext, ended, wireVars,
                 syncVars, endVars, workVars, life, hist>>

StartReturns ==
  /\ starting /\ (wire = <<>> \/ hosed # "ok")
  /\ starting' = FALSE
  /\ UNCHANGED <<coreVars, wireVars, syncVars, endVars, workVars, life, hist>>

(* expect_msg() and expect_log_in_request(): a notification that waits is  *)
(* taken, or else an expectation registered.                               *)
ExpectMsg ==
  /\ CanCall("expect_msg") /\ hosed = "ok" /\ expect = "none"
  /\ IF waiting = <<>>
     THEN expect' = "once" /\ UNCHANGED <<waiting, tasks, emitted>>
     ELSE /\ Emits(Ev("msg", Head(waiting)))
          /\ waiting' = Tail(waiting)
          /\ UNCHANGED expect
  /\ UNCHANGED <<started, hosed, rsp, soft, sndNext, ended, wireVars, starting,
                 syncVars, endVars, run, life, fired, told, answer>>

(* expect_msgs(): one task calls the handler for all that wait.            *)
ExpectMsgs ==
  /\ CanCall("expect_msgs") /\ hosed = "ok" /\ expect = "none"
  /\ LET evs == [i \in 1..Len(waiting) |-> Ev("msg", waiting[i])]
     IN  /\ tasks' = IF evs = <<>> THEN tasks ELSE Append(tasks, CallTask(evs))
         /\ emitted' = emitted \o evs
  /\ expect' = "open" /\ waiting' = <<>>
  /\ UNCHANGED <<started, hosed, rsp, soft, sndNext, ended, wireVars, starting,
                 syncVars, endVars, run, life, fired, told, answer>>

UndoExpectMsgs ==
  /\ CanCall("undo_expect_msgs") /\ hosed = "ok" /\ expect # "none"
  /\ expect' = "none"
  /\ UNCHANGED <<started, hosed, waiting, rsp, soft, sndNext, ended, wireVars,
                 starting, syncVars, endVars, workVars, life, hist>>

UndoExpectResponses(i) ==
  /\ CanCall("undo_expect_responses") /\ hosed = "ok"
  /\ \E e \in rsp : /\ e.id = i /\ e.mode = "open"
                    /\ rsp' = rsp \ {e}
  /\ UNCHANGED <<started, hosed, expect, waiting, soft, sndNext, ended,
                 wireVars, starting, syncVars, endVars, workVars, life, hist>>

(* set_ and unset_unexpected_response_handler(), and the remote ones.      *)
SetHandler(kind) ==
  /\ CanCall("set_handler")
  /\ soft' = IF kind \in soft THEN soft \ {kind} ELSE soft \cup {kind}
  /\ UNCHANGED <<started, hosed, expect, waiting, rsp, sndNext, ended,
                 wireVars, starting, syncVars, endVars, workVars, life, hist>>

-----------------------------------------------------------------------------
(* Sending.  The core registers what it expects and spends the ID; then    *)
(* the transport takes the message, or refuses it because sending was      *)
(* ended, or fails, which hoses the channel and is the caller's to know.   *)
Registers(mode, o) ==
  /\ sndNext <= MaxReq
  /\ sndNext' = sndNext + 1
  /\ rsp' = IF mode = "none" THEN rsp
            ELSE rsp \cup {Expecting(sndNext, mode, o)}

Sent   == /\ ended = "no"
          /\ sent' = sent \cup {sndNext}
          /\ UNCHANGED <<hosed, told>>
Refused == /\ ended # "no"
           /\ UNCHANGED <<sent, hosed, told>>
Failed == /\ ended = "no"
          /\ hosed' = "send"
          /\ told' = Append(told, "call")
          /\ UNCHANGED sent

SendApi == [none |-> "send", once |-> "async_request",
            open |-> "async_request_open"]

(* send() and async_request().                                             *)
Send(mode) ==
  /\ CanCall(SendApi[mode]) /\ hosed = "ok"
  /\ Registers(mode, 0)
  /\ Sent \/ Refused \/ Failed
  /\ UNCHANGED <<started, expect, waiting, soft, ended, wire, nIn, starting,
                 syncVars, endVars, workVars, life, emitted, fired, answer>>

-----------------------------------------------------------------------------
(* sync_request().                                                         *)

(* The call, which waits for m_sync_op_mutex.                              *)
SyncCalled(t) ==
  /\ life = "up" /\ pc[t] = "out"
  /\ opNext < MaxSync
  /\ pc' = [pc EXCEPT ![t] = "lock"]
  /\ UNCHANGED <<coreVars, wireVars, starting, holder, op, opNext, req,
                 endVars, workVars, life, hist>>

(* Mutation: m_sync_op_mutex is not there.                                 *)
CanSyncAnyTime(t) == pc[t] = "lock" /\ Unlocked

(* Both mutexes are taken and the message is sent.                         *)
CanSync(t) == pc[t] = "lock" /\ holder = None /\ Unlocked

SyncSends(t) ==
  /\ CanSync(t) /\ hosed = "ok"
  /\ Registers("sync", opNext)
  /\ Sent
  /\ op' = NewOp(opNext) /\ opNext' = opNext + 1
  /\ pc' = [pc EXCEPT ![t] = "wait"]
  /\ holder' = t
  /\ req' = [req EXCEPT ![t] = sndNext]
  /\ answer' = [answer EXCEPT ![sndNext] = Asked]
  /\ UNCHANGED <<started, expect, waiting, soft, ended, wire, nIn, starting,
                 endVars, workVars, life, emitted, fired>>

(* Mutation: an ID is given back that was not spent.                       *)
SyncFailsGivesBack(t) ==
  /\ CanSync(t)
  /\ \/ hosed # "ok" /\ sndNext' = sndNext - 1 /\ UNCHANGED <<hosed, told, sent, rsp>>
     \/ hosed = "ok" /\ Registers("sync", opNext) /\ (Refused \/ Failed)
  /\ op' = NoOp /\ opNext' = opNext + 1
  /\ pc' = [pc EXCEPT ![t] = "out"]
  /\ UNCHANGED <<started, expect, waiting, soft, ended, wire, nIn, starting,
                 holder, req, endVars, workVars, life, emitted, fired, answer>>

(* The send fails or is refused: sync_request() returns at once.           *)
SyncFails(t) ==
  /\ CanSync(t)
  /\ \/ hosed # "ok" /\ UNCHANGED <<hosed, told, sent, rsp, sndNext>>
     \/ hosed = "ok" /\ Registers("sync", opNext) /\ (Refused \/ Failed)
  /\ op' = NoOp /\ opNext' = opNext + 1
  /\ pc' = [pc EXCEPT ![t] = "out"]
  /\ UNCHANGED <<started, expect, waiting, soft, ended, wire, nIn, starting,
                 holder, req, endVars, workVars, life, emitted, fired, answer>>

(* The wait ends: the promise was fulfilled, or the time is over.          *)
SyncWakes(t) ==
  /\ pc[t] = "wait"
  /\ op.result.kind # "none" \/ t \notin Untimed
  /\ pc' = [pc EXCEPT ![t] = "woken"]
  /\ UNCHANGED <<coreVars, wireVars, starting, holder, op, opNext, req,
                 endVars, workVars, life, hist>>

(* Whatever it was that ended the wait, what counts is the result by now.  *)
SyncReturns(t) ==
  /\ pc[t] = "woken" /\ Unlocked
  /\ answer' = [answer EXCEPT ![req[t]] =
                  IF op.result.kind = "none" THEN TimedOut ELSE op.result]
  /\ told' = IF op.result.kind = "error" THEN Append(told, "sync_request")
                                         ELSE told
  /\ op' = NoOp
  /\ holder' = None
  /\ pc' = [pc EXCEPT ![t] = "out"]
  /\ UNCHANGED <<coreVars, wireVars, starting, opNext, req, endVars, workVars,
                 life, emitted, fired>>

-----------------------------------------------------------------------------
(* async_end_sending().                                                    *)

(* Mutation: a saved completion handler is overwritten.                    *)
EndSendingAnyTime ==
  /\ CanCall("async_end_sending") /\ nEnd < MaxEnd
  /\ nEnd' = nEnd + 1
  /\ \/ /\ ended = "no"
        /\ endFunc' = nEnd + 1
        /\ \/ ended' = "waits" /\ UNCHANGED tasks
           \/ ended' = "done" /\ tasks' = Append(tasks, OtherTask("end"))
     \/ ended # "no" /\ endFunc' = 0 /\ UNCHANGED <<ended, tasks>>
  /\ UNCHANGED <<started, hosed, expect, waiting, rsp, soft, sndNext, wireVars,
                 starting, syncVars, run, life, hist>>

(* A call is refused while a completion handler is saved.  Otherwise its   *)
(* own is saved; the core accepts one call ever, and the handler is        *)
(* dropped when it refuses.  The transport takes the graceful-close at     *)
(* once, or would block.                                                   *)
EndSending ==
  /\ CanCall("async_end_sending") /\ nEnd < MaxEnd
  /\ nEnd' = nEnd + 1
  /\ \/ endFunc # 0 /\ UNCHANGED <<endFunc, ended, tasks>>
     \/ /\ endFunc = 0 /\ ended = "no"
        /\ endFunc' = nEnd + 1
        /\ \/ ended' = "waits" /\ UNCHANGED tasks
           \/ ended' = "done" /\ tasks' = Append(tasks, OtherTask("end"))
     \/ endFunc = 0 /\ ended # "no" /\ UNCHANGED <<endFunc, ended, tasks>>
  /\ UNCHANGED <<started, hosed, expect, waiting, rsp, soft, sndNext, wireVars,
                 starting, syncVars, run, life, hist>>

(* The out-pipe has drained; the core's handler posts the rest.            *)
EndReady ==
  /\ ended = "waits" /\ Unlocked
  /\ \E r \in Runner : Idle(r)
  /\ ended' = "done"
  /\ tasks' = Append(tasks, OtherTask("end"))
  /\ UNCHANGED <<started, hosed, expect, waiting, rsp, soft, sndNext, wireVars,
                 starting, syncVars, endVars, run, life, hist>>

-----------------------------------------------------------------------------
(* The loop of thread W, and of the finisher.                              *)

TakesTask(r, kind) == /\ Idle(r) /\ tasks # <<>> /\ Head(tasks).kind = kind
                      /\ tasks' = Tail(tasks)

Calls(r, evs) == /\ run' = [run EXCEPT ![r] = evs]
                 /\ fired' = Append(fired, Head(evs))

RunCall(r) ==
  /\ TakesTask(r, "call")
  /\ Calls(r, Head(tasks).evs)
  /\ UNCHANGED <<coreVars, wireVars, starting, syncVars, endVars, life,
                 emitted, told, answer>>

(* Mutation: the on-error handler is called in any case.                   *)
RunErrorTwice(r) ==
  /\ TakesTask(r, "error") /\ Unlocked
  /\ op' = IF op.on /\ op.result.kind = "none"
           THEN [op EXCEPT !.result = Hosing] ELSE op
  /\ Calls(r, <<Ev("error", 0)>>)
  /\ told' = Append(told, "handler")
  /\ UNCHANGED <<coreVars, wireVars, starting, holder, opNext, pc, req,
                 endVars, life, emitted, answer>>

(* Mutation: the error is left to a sync_request() that has its response.  *)
RunErrorSwallowed(r) ==
  /\ TakesTask(r, "error") /\ Unlocked
  /\ IF op.on
     THEN /\ op' = IF op.result.kind = "none"
                   THEN [op EXCEPT !.result = Hosing] ELSE op
          /\ UNCHANGED <<run, fired, told>>
     ELSE /\ Calls(r, <<Ev("error", 0)>>)
          /\ told' = Append(told, "handler")
          /\ UNCHANGED op
  /\ UNCHANGED <<coreVars, wireVars, starting, holder, opNext, pc, req,
                 endVars, life, emitted, answer>>

(* Mutation: the error goes to the on-error handler whoever waits.         *)
RunErrorNoSync(r) ==
  /\ TakesTask(r, "error") /\ Unlocked
  /\ Calls(r, <<Ev("error", 0)>>)
  /\ told' = Append(told, "handler")
  /\ UNCHANGED <<coreVars, wireVars, starting, syncVars, endVars, life,
                 emitted, answer>>

(* The error goes to the sync_request() that waits with no result yet, or  *)
(* else to the on-error handler.                                           *)
RunError(r) ==
  /\ TakesTask(r, "error") /\ Unlocked
  /\ IF op.on /\ op.result.kind = "none"
     THEN /\ op' = [op EXCEPT !.result = Hosing]
          /\ UNCHANGED <<run, fired, told>>
     ELSE /\ Calls(r, <<Ev("error", 0)>>)
          /\ told' = Append(told, "handler")
          /\ UNCHANGED op
  /\ UNCHANGED <<coreVars, wireVars, starting, holder, opNext, pc, req,
                 endVars, life, emitted, answer>>

(* The completion handler is taken out under the lock, then called.        *)
RunEnd(r) ==
  /\ TakesTask(r, "end") /\ Unlocked
  /\ Calls(r, <<Ev("end", endFunc)>>)
  /\ endFunc' = 0
  /\ UNCHANGED <<coreVars, wireVars, starting, syncVars, nEnd, life, emitted,
                 told, answer>>

(* A handler returns; one task may call it again.                          *)
HandlerReturns(r) ==
  /\ run[r] # <<>>
  /\ run' = [run EXCEPT ![r] = Tail(@)]
  /\ fired' = IF Len(run[r]) = 1 THEN fired ELSE Append(fired, run[r][2])
  /\ UNCHANGED <<coreVars, wireVars, starting, syncVars, endVars, tasks, life,
                 emitted, told, answer>>

-----------------------------------------------------------------------------
(* The destructor.                                                         *)

(* m_worker.stop(): W takes nothing more.  By contract no thread is in     *)
(* sync_request().                                                         *)
DtorBegins ==
  /\ "destroy" \in Api /\ life = "up" /\ Unlocked
  /\ \A t \in User : pc[t] = "out"
  /\ life' = "stopping"
  /\ UNCHANGED <<coreVars, wireVars, starting, syncVars, endVars, workVars,
                 hist>>

(* The handler W was in has returned; the finisher polls the loop.         *)
WorkerJoined ==
  /\ life = "stopping" /\ run["W"] = <<>> /\ Unlocked
  /\ life' = "finishing"
  /\ UNCHANGED <<coreVars, wireVars, starting, syncVars, endVars, workVars,
                 hist>>

(* Mutation: the queued tasks are dropped.                                 *)
PollEndsEarly ==
  /\ Idle("finisher")
  /\ life' = "drained"
  /\ UNCHANGED <<coreVars, wireVars, starting, syncVars, endVars, workVars,
                 hist>>

(* poll() returns when nothing is ready.                                   *)
PollEnds ==
  /\ Idle("finisher") /\ Unlocked
  /\ tasks = <<>>
  /\ ~started \/ hosed # "ok" \/ wire = <<>>
  /\ life' = "drained"
  /\ UNCHANGED <<coreVars, wireVars, starting, syncVars, endVars, workVars,
                 hist>>

(* A completion handler that is still saved is told of the abort.          *)
DtorEnds ==
  /\ life = "drained"
  /\ life' = "gone"
  /\ fired' = IF endFunc = 0 THEN fired
              ELSE Append(fired, Ev("end_aborted", endFunc))
  /\ UNCHANGED <<coreVars, wireVars, starting, syncVars, endVars, workVars,
                 emitted, told, answer>>

-----------------------------------------------------------------------------
UserCalls ==
  \/ Start \/ ExpectMsg \/ ExpectMsgs \/ UndoExpectMsgs \/ EndSending
  \/ \E i \in 1..MaxReq : UndoExpectResponses(i)
  \/ \E kind \in {"unexpected", "remote_unexpected"} : SetHandler(kind)
  \/ \E mode \in DOMAIN SendApi : Send(mode)

SyncStep(t) == \/ SyncSends(t) \/ SyncFails(t) \/ SyncWakes(t)
               \/ SyncReturns(t)

Runs(r) == RunCall(r) \/ RunError(r) \/ RunEnd(r) \/ HandlerReturns(r)

DtorStep == WorkerJoined \/ PollEnds \/ DtorEnds

Next ==
  \/ PeerSends \/ Read \/ StartReturns \/ EndReady
  \/ UserCalls
  \/ \E t \in User : SyncCalled(t) \/ SyncStep(t)
  \/ \E r \in Runner : Runs(r)
  \/ DtorBegins \/ DtorStep

Spec == Init /\ [][Next]_vars

(* The threads run: the system schedules W, the finisher and every thread  *)
(* that is in sync_request(), time passes, and the user's handlers return. *)
(* Nothing is assumed of what the user calls and the peer sends.           *)
Fairness == /\ WF_vars(Read) /\ WF_vars(StartReturns)
            /\ \A t \in User : WF_vars(SyncStep(t))
            /\ \A r \in Runner : WF_vars(Runs(r))
            /\ WF_vars(DtorStep)

FairSpec == Spec /\ Fairness
=============================================================================
