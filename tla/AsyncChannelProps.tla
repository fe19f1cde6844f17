------------------------- MODULE AsyncChannelProps -------------------------
(***************************************************************************)
(* What struc::Channel promises the threads that use it.                   *)
(***************************************************************************)
EXTENDS AsyncChannel, FiniteSets

(* Type invariant of every variable of AsyncChannel.                       *)
TypeOK ==
  /\ started \in BOOLEAN /\ starting \in BOOLEAN
  /\ hosed \in {"ok", "send", "rcv"}
  /\ expect \in {"none", "once", "open"}
  /\ waiting \in Seq(Nat)
  /\ rsp \in SUBSET Expectation
  /\ soft \subseteq {"unexpected", "remote_unexpected"}
  /\ sndNext \in Nat \ {0}
  /\ ended \in {"no", "waits", "done"}
  /\ wire \in Seq(Item) /\ nIn \in Nat /\ sent \subseteq Nat
  /\ holder \in User \cup {None}
  /\ op \in SyncOp /\ opNext \in Nat
  /\ pc \in [User -> {"out", "lock", "wait", "woken"}]
  /\ req \in [User -> Nat]
  /\ endFunc \in Nat /\ nEnd \in Nat
  /\ tasks \in Seq(Task)
  /\ run \in [Runner -> Seq(Event)]
  /\ life \in {"up", "stopping", "finishing", "drained", "gone"}
  /\ emitted \in Seq(Event) /\ fired \in Seq(Event)
  /\ told \in Seq({"call", "sync_request", "handler"})
  /\ answer \in [1..MaxReq -> Outcome]

-----------------------------------------------------------------------------
(* The errors on their way to the user: in a posted task, or left with the *)
(* sync_request() that waits.                                              *)
ErrorTasks == {n \in 1..Len(tasks) : tasks[n].kind = "error"}
ErrorLeft  == IF op.result.kind = "error" THEN 1 ELSE 0

(* "Report a channel-hosing error exactly once (if ever)": it is told by   *)
(* the call that met it, or it is on its way to one receiver, or was told  *)
(* to one; never two, never none, whenever sync_request() begins and ends  *)
(* (start()'s on-error lambda, sync_request()).                            *)
ErrorToldOnce ==
  LET due == Cardinality(ErrorTasks) + ErrorLeft
  IN  CASE hosed = "ok"   -> due = 0 /\ told = <<>>
        [] hosed = "send" -> due = 0 /\ told = <<"call">>
        [] hosed = "rcv"  -> due + Len(told) = 1

(* A response is returned by the sync_request() it answers and by no       *)
(* other, however late it comes (the handler in sync_request()).           *)
OwnAnswer == \A i \in 1..MaxReq :
               answer[i].kind = "rsp" => answer[i].of = i

(* The in-message handlers are called in the order the core decided on     *)
(* them, each once, by thread W or by the destructor, which leaves none    *)
(* uncalled (m_worker.post(), ~Channel()).                                 *)
MsgCalls == {n \in 1..Len(fired) :
               fired[n].kind \notin {"error", "end", "end_aborted"}}

HandlersInOrder ==
  /\ \A n \in MsgCalls : LET nth == Cardinality({m \in MsgCalls : m <= n})
                         IN  nth <= Len(emitted) /\ fired[n] = emitted[nth]
  /\ life = "gone" => Cardinality(MsgCalls) = Len(emitted)

(* The completion handler of the one accepted async_end_sending() is saved *)
(* or has been called, once, be the others refused before or after it, the *)
(* channel hosed or destroyed.                                             *)
EndCalls == {n \in 1..Len(fired) : fired[n].kind \in {"end", "end_aborted"}}

EndSendingCalledOnce ==
  /\ Cardinality(EndCalls) + (IF endFunc = 0 \/ life = "gone" THEN 0 ELSE 1)
       = IF ended = "no" THEN 0 ELSE 1
  /\ \A n \in EndCalls : fired[n].id # 0

(* "No 2 such handlers shall be invoked concurrently to each other", not   *)
(* even during destruction.                                                *)
HandlersSerial == run["W"] = <<>> \/ run["finisher"] = <<>>

-----------------------------------------------------------------------------
(* A sync_request() with a timeout returns, whatever the peer does; one    *)
(* without does when an error is met in the background.                    *)
WaitEnds ==
  \A t \in User :
    pc[t] = "wait" /\ (t \notin Untimed \/ hosed = "rcv") ~> pc[t] = "out"

(* "It shall exit only once either the expected one-off response arrives,  *)
(* or a pipe-hosing error occurs": so it does exit when one occurs.        *)
ErrorWakes == \A t \in User : pc[t] = "wait" /\ hosed # "ok" ~> pc[t] = "out"

(* Every handler call decided upon is made, destruction or not, and an     *)
(* error is told.                                                          *)
HandlersFire == \A n \in 1..MaxIn : Len(emitted) >= n ~> Cardinality(MsgCalls) >= n
ErrorTold == hosed # "ok" ~> told # <<>>

-----------------------------------------------------------------------------
(* sync_request() and the error reports implement RequestReply.            *)
Reply == INSTANCE RequestReply WITH
  Request <- 1..MaxReq,
  outcome <- answer,
  current <- {req[t] : t \in {u \in User : holder = u}},
  error   <- IF hosed = "ok" THEN "none"
             ELSE IF told = <<>> THEN "due" ELSE "told"

ImplementsRequestReply == Reply!Spec
=============================================================================
