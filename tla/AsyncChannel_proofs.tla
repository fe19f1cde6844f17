------------------------ MODULE AsyncChannel_proofs ------------------------
(***************************************************************************)
(* Proofs, for any threads, any part of the API and any bounds, of what    *)
(* AsyncChannelProps states.                                               *)
(***************************************************************************)
EXTENDS AsyncChannelProps, FiniteSetTheorems, SequenceTheorems, TLAPS

-----------------------------------------------------------------------------
(* The records that the actions make are of the types they are kept in.    *)
LEMMA EvIsEvent ==
  ASSUME NEW kind \in {"msg", "rsp", "unexpected", "remote_unexpected",
                       "error", "end", "end_aborted"}, NEW id \in Nat
  PROVE  Ev(kind, id) \in Event
BY DEF Ev, Event

LEMMA CallIsTask ==
  ASSUME NEW evs \in Seq(Event) PROVE CallTask(evs) \in Task
BY DEF CallTask, Task

LEMMA OtherIsTask ==
  ASSUME NEW kind \in {"error", "end"} PROVE OtherTask(kind) \in Task
<1>1. <<>> \in Seq(Event)
  OBVIOUS
<1> QED BY <1>1 DEF OtherTask, Task

(* The calls of the handlers of in-messages, and of reports of them.       *)
MsgEvent == {ev \in Event : ev.kind \notin {"error", "end", "end_aborted"}}

LEMMA EvIsMsgEvent ==
  ASSUME NEW kind \in {"msg", "rsp", "unexpected", "remote_unexpected"},
         NEW id \in Nat
  PROVE  Ev(kind, id) \in MsgEvent
BY DEF Ev, Event, MsgEvent

(* The handler calls of a list of notifications.                           *)
LEMMA EvsAreEvents ==
  ASSUME NEW s \in Seq(Nat)
  PROVE  [i \in 1..Len(s) |-> Ev("msg", s[i])] \in Seq(MsgEvent)
<1>1. \A i \in 1..Len(s) : Ev("msg", s[i]) \in MsgEvent
  <2> TAKE i \in 1..Len(s)
  <2>1. s[i] \in Nat
    OBVIOUS
  <2> QED BY <2>1, EvIsMsgEvent
<1>2. Len(s) \in Nat
  OBVIOUS
<1> QED BY <1>1, <1>2, SeqDef

(* A post, by a handler of the core.                                       *)
LEMMA EmitsTypes ==
  ASSUME NEW ev \in Event, tasks \in Seq(Task), emitted \in Seq(Event),
         Emits(ev)
  PROVE  tasks' \in Seq(Task) /\ emitted' \in Seq(Event)
<1>1. <<ev>> \in Seq(Event)
  OBVIOUS
<1>2. CallTask(<<ev>>) \in Task
  BY <1>1, CallIsTask
<1> QED BY <1>2 DEF Emits

-----------------------------------------------------------------------------
(* The type invariant, in parts that the actions change together.          *)
FlagTypes == started \in BOOLEAN /\ starting \in BOOLEAN
CoreTypes ==
  /\ hosed \in {"ok", "send", "rcv"}
  /\ expect \in {"none", "once", "open"}
  /\ waiting \in Seq(Nat)
  /\ rsp \in SUBSET Expectation
  /\ soft \subseteq {"unexpected", "remote_unexpected"}
  /\ sndNext \in Nat \ {0}
  /\ ended \in {"no", "waits", "done"}
  /\ wire \in Seq(Item) /\ nIn \in Nat /\ sent \subseteq Nat
SyncTypes ==
  /\ holder \in User \cup {None}
  /\ op \in SyncOp /\ opNext \in Nat
  /\ pc \in [User -> {"out", "lock", "wait", "woken"}]
  /\ req \in [User -> Nat]
  /\ answer \in [1..MaxReq -> Outcome]
WorkTypes ==
  /\ endFunc \in Nat /\ nEnd \in Nat
  /\ tasks \in Seq(Task)
  /\ run \in [Runner -> Seq(Event)]
  /\ life \in {"up", "stopping", "finishing", "drained", "gone"}
  /\ emitted \in Seq(Event) /\ fired \in Seq(Event)
  /\ told \in Seq({"call", "sync_request", "handler"})

LEMMA TypeParts ==
  /\ TypeOK <=> FlagTypes /\ CoreTypes /\ SyncTypes /\ WorkTypes
  /\ TypeOK' <=> FlagTypes' /\ CoreTypes' /\ SyncTypes' /\ WorkTypes'
BY DEF TypeOK, FlagTypes, CoreTypes, SyncTypes, WorkTypes

LEMMA TypeInit == Init => TypeOK
<1> SUFFICES ASSUME Init PROVE TypeOK
  OBVIOUS
<1>1. CoreTypes
  BY DEF Init, CoreTypes
<1>2. SyncTypes
  <2>1. op \in SyncOp
    BY DEF Init, NoOp, SyncOp, NoResult, Result
  <2>2. answer \in [1..MaxReq -> Outcome]
    BY DEF Init, NoOutcome, Outcome
  <2> QED BY <2>1, <2>2 DEF Init, SyncTypes
<1>3. WorkTypes
  BY DEF Init, WorkTypes
<1>4. FlagTypes
  BY Zenon DEF Init, FlagTypes
<1> QED BY <1>1, <1>2, <1>3, <1>4, TypeParts

-----------------------------------------------------------------------------
LEMMA TypePeer == ASSUME TypeOK, PeerSends PROVE TypeOK'
<1> USE TypeParts
<1>1. ASSUME NEW item \in Item, Arrives(item) PROVE TypeOK'
  <2>1. CoreTypes'
    <3>1. wire' \in Seq(Item) /\ nIn' \in Nat
      BY <1>1 DEF Arrives, CoreTypes
    <3> QED BY <1>1, <3>1 DEF Arrives, CoreTypes, coreVars
  <2>2. SyncTypes'
    BY <1>1 DEF Arrives, SyncTypes, syncVars, hist
  <2>3. WorkTypes'
    BY <1>1 DEF Arrives, WorkTypes, workVars, endVars, hist
  <2>4. FlagTypes'
    BY <1>1, Zenon DEF Arrives, FlagTypes, coreVars
  <2> QED BY <2>1, <2>2, <2>3, <2>4
<1>2. CASE \E i \in sent : Arrives([kind |-> "rsp", id |-> i])
  <2>1. PICK i \in sent : Arrives([kind |-> "rsp", id |-> i])
    BY <1>2
  <2>2. [kind |-> "rsp", id |-> i] \in Item
    BY DEF CoreTypes, Item
  <2> QED BY <2>1, <2>2, <1>1
<1>3. CASE \E kind \in {"note", "remote_unexpected", "fail"} :
             Arrives([kind |-> kind, id |-> nIn + 1])
  <2>1. PICK kind \in {"note", "remote_unexpected", "fail"} :
          Arrives([kind |-> kind, id |-> nIn + 1])
    BY <1>3
  <2>2. [kind |-> kind, id |-> nIn + 1] \in Item
    BY DEF CoreTypes, Item
  <2> QED BY <2>1, <2>2, <1>1
<1> QED BY <1>2, <1>3 DEF PeerSends

LEMMA TypeOnNote ==
  ASSUME TypeOK, NEW n \in Nat, OnNote(n)
  PROVE  /\ waiting' \in Seq(Nat) /\ expect' \in {"none", "once", "open"}
         /\ tasks' \in Seq(Task) /\ emitted' \in Seq(Event)
<1> USE TypeParts
<1>1. expect' \in {"none", "once", "open"}
  BY DEF OnNote, CoreTypes
<1>2. CASE expect = "none"
  <2>1. waiting' = Append(waiting, n) /\ UNCHANGED <<tasks, emitted>>
    BY <1>2 DEF OnNote
  <2> QED BY <1>1, <2>1 DEF CoreTypes, WorkTypes
<1>3. CASE expect # "none"
  <2>1. Ev("msg", n) \in Event
    BY EvIsEvent
  <2>2. Emits(Ev("msg", n)) /\ UNCHANGED waiting
    BY <1>3 DEF OnNote
  <2> QED BY <1>1, <2>1, <2>2, EmitsTypes DEF CoreTypes, WorkTypes
<1> QED BY <1>2, <1>3

LEMMA TypeOnUnexpected ==
  ASSUME TypeOK, NEW kind \in {"unexpected", "remote_unexpected"},
         NEW n \in Nat, OnUnexpected(kind, n)
  PROVE  tasks' \in Seq(Task) /\ emitted' \in Seq(Event)
<1>1. Ev(kind, n) \in Event
  BY EvIsEvent
<1>2. tasks \in Seq(Task) /\ emitted \in Seq(Event)
  BY TypeParts DEF WorkTypes
<1> QED BY <1>1, <1>2, EmitsTypes DEF OnUnexpected

LEMMA TypeOnResponse ==
  ASSUME TypeOK, NEW i \in Nat, OnResponse(i)
  PROVE  /\ op' \in SyncOp /\ rsp' \in SUBSET Expectation
         /\ tasks' \in Seq(Task) /\ emitted' \in Seq(Event)
         /\ UNCHANGED fired
<1> USE TypeParts
<1>1. rsp' \in SUBSET Expectation
  BY DEF OnResponse, CoreTypes
<1>2. ASSUME NEW o, OnSyncResponse(i, o)
      PROVE  op' \in SyncOp /\ tasks' \in Seq(Task) /\ emitted' \in Seq(Event)
  <2>1. Response(i) \in Result
    BY DEF Response, Result
  <2> QED BY <1>2, <2>1 DEF OnSyncResponse, SyncTypes, SyncOp, WorkTypes
<1>3. ASSUME OnAsyncResponse(i)
      PROVE  op' \in SyncOp /\ tasks' \in Seq(Task) /\ emitted' \in Seq(Event)
  <2>1. Ev("rsp", i) \in Event
    BY EvIsEvent
  <2> QED BY <1>3, <2>1, EmitsTypes DEF OnAsyncResponse, SyncTypes, WorkTypes
<1>4. ASSUME OnUnexpected("unexpected", i)
      PROVE  op' \in SyncOp /\ tasks' \in Seq(Task) /\ emitted' \in Seq(Event)
  BY <1>4, TypeOnUnexpected DEF OnUnexpected, SyncTypes
<1>5. UNCHANGED fired
  BY DEF OnResponse, OnSyncResponse, OnAsyncResponse, OnUnexpected
<1> QED BY <1>1, <1>2, <1>3, <1>4, <1>5 DEF OnResponse

LEMMA TypeRead == ASSUME TypeOK, Read PROVE TypeOK'
<1> USE TypeParts
<1> DEFINE item == Head(wire)
<1>1. item \in Item /\ wire' \in Seq(Item)
  BY DEF Read, CoreTypes
<1>2. item.id \in Nat
  BY <1>1 DEF Item
<1>3. OtherTask("error") \in Task
  BY OtherIsTask
<1> HIDE DEF item
<1>4. /\ expect' \in {"none", "once", "open"} /\ waiting' \in Seq(Nat)
      /\ rsp' \in SUBSET Expectation /\ hosed' \in {"ok", "send", "rcv"}
      /\ op' \in SyncOp /\ UNCHANGED fired
      /\ tasks' \in Seq(Task) /\ emitted' \in Seq(Event)
  <2>1. CASE item.kind = "note"
    <3>1. OnNote(item.id)
      BY <2>1 DEF Read, item
    <3> QED BY <3>1, <1>2, TypeOnNote DEF OnNote, CoreTypes, SyncTypes
  <2>2. CASE item.kind = "rsp"
    <3>1. OnResponse(item.id)
      BY <2>2 DEF Read, item
    <3> QED BY <3>1, <1>2, TypeOnResponse DEF OnResponse, CoreTypes
  <2>3. CASE item.kind = "fail"
    <3>1. OnError
      BY <2>3 DEF Read, item
    <3> QED BY <3>1, <1>3 DEF OnError, CoreTypes, SyncTypes, WorkTypes
  <2>4. CASE item.kind = "remote_unexpected"
    <3>1. /\ OnUnexpected("remote_unexpected", item.id)
          /\ UNCHANGED <<expect, waiting, rsp, hosed>>
      BY <2>4 DEF Read, item
    <3> QED BY <3>1, <1>2, TypeOnUnexpected
            DEF OnUnexpected, CoreTypes, SyncTypes
  <2> QED BY <2>1, <2>2, <2>3, <2>4, <1>1 DEF Item
<1>5. CoreTypes'
  BY <1>1, <1>4 DEF Read, CoreTypes
<1>6. SyncTypes'
  BY <1>4 DEF Read, SyncTypes
<1>7. WorkTypes'
  BY <1>4 DEF Read, WorkTypes, endVars
<1>8. FlagTypes'
  <2>1. UNCHANGED <<started, starting>>
    BY Zenon DEF Read
  <2> QED BY <2>1, Zenon DEF FlagTypes
<1> QED BY <1>5, <1>6, <1>7, <1>8

-----------------------------------------------------------------------------
(* The user's calls, but those that send.                                  *)
LEMMA TypeUserCall ==
  ASSUME TypeOK,
         \/ Start \/ StartReturns \/ ExpectMsg \/ ExpectMsgs \/ UndoExpectMsgs
         \/ EndSending \/ EndReady
         \/ \E i \in 1..MaxReq : UndoExpectResponses(i)
         \/ \E kind \in {"unexpected", "remote_unexpected"} : SetHandler(kind)
  PROVE  TypeOK'
<1> USE TypeParts
<1>1. CASE Start \/ StartReturns
  <2>1. FlagTypes'
    BY <1>1, Zenon DEF Start, StartReturns, FlagTypes, coreVars
  <2>2. CoreTypes' /\ SyncTypes' /\ WorkTypes'
    BY <1>1 DEF Start, StartReturns, CoreTypes, SyncTypes, WorkTypes,
                coreVars, wireVars, syncVars, endVars, workVars, hist
  <2> QED BY <2>1, <2>2
<1>2. CASE ExpectMsg
  <2>1. FlagTypes'
    BY <1>2, Zenon DEF ExpectMsg, FlagTypes
  <2>2. CASE waiting = <<>>
    BY <1>2, <2>1, <2>2
       DEF ExpectMsg, CoreTypes, SyncTypes, WorkTypes, wireVars, syncVars,
           endVars
  <2>3. CASE waiting # <<>>
    <3>1. Head(waiting) \in Nat /\ Tail(waiting) \in Seq(Nat)
      BY <2>3 DEF CoreTypes
    <3>2. Ev("msg", Head(waiting)) \in Event
      BY <3>1, EvIsEvent
    <3>3. Emits(Ev("msg", Head(waiting)))
      BY <1>2, <2>3 DEF ExpectMsg
    <3>4. tasks' \in Seq(Task) /\ emitted' \in Seq(Event)
      BY <3>2, <3>3, EmitsTypes DEF WorkTypes
    <3>5. CoreTypes'
      BY <1>2, <2>3, <3>1 DEF ExpectMsg, CoreTypes, wireVars
    <3>6. SyncTypes' /\ WorkTypes'
      BY <1>2, <3>4 DEF ExpectMsg, SyncTypes, WorkTypes, syncVars, endVars
    <3> QED BY <2>1, <3>5, <3>6
  <2> QED BY <2>2, <2>3
<1>3. CASE ExpectMsgs
  <2> DEFINE evs == [i \in 1..Len(waiting) |-> Ev("msg", waiting[i])]
  <2>1. evs \in Seq(Event)
    <3>1. evs \in Seq(MsgEvent)
      BY EvsAreEvents DEF CoreTypes
    <3>2. MsgEvent \subseteq Event
      BY DEF MsgEvent
    <3> HIDE DEF evs
    <3> QED BY <3>1, <3>2, SeqMonotonic
  <2>2. CallTask(evs) \in Task
    BY <2>1, CallIsTask
  <2>3. /\ tasks' = IF evs = <<>> THEN tasks ELSE Append(tasks, CallTask(evs))
        /\ emitted' = emitted \o evs
    BY <1>3 DEF ExpectMsgs
  <2> HIDE DEF evs
  <2>4. tasks' \in Seq(Task) /\ emitted' \in Seq(Event)
    BY <2>1, <2>2, <2>3, ConcatProperties DEF WorkTypes
  <2>5. FlagTypes'
    BY <1>3, Zenon DEF ExpectMsgs, FlagTypes
  <2>6. CoreTypes'
    BY <1>3 DEF ExpectMsgs, CoreTypes, wireVars
  <2>7. SyncTypes' /\ WorkTypes'
    BY <1>3, <2>4 DEF ExpectMsgs, SyncTypes, WorkTypes, syncVars, endVars
  <2> QED BY <2>5, <2>6, <2>7
<1>4. CASE UndoExpectMsgs
  <2>1. FlagTypes'
    BY <1>4, Zenon DEF UndoExpectMsgs, FlagTypes
  <2>2. CoreTypes' /\ SyncTypes' /\ WorkTypes'
    BY <1>4 DEF UndoExpectMsgs, CoreTypes, SyncTypes, WorkTypes, wireVars,
                syncVars, endVars, workVars, hist
  <2> QED BY <2>1, <2>2
<1>5. CASE EndSending \/ EndReady
  <2>1. FlagTypes'
    BY <1>5, Zenon DEF EndSending, EndReady, FlagTypes
  <2>2. OtherTask("end") \in Task
    BY OtherIsTask
  <2>3. CoreTypes' /\ SyncTypes'
    BY <1>5 DEF EndSending, EndReady, CoreTypes, SyncTypes, wireVars,
                syncVars, hist
  <2>4. tasks' \in Seq(Task)
    <3>1. UNCHANGED tasks \/ tasks' = Append(tasks, OtherTask("end"))
      BY <1>5 DEF EndSending, EndReady
    <3>2. tasks \in Seq(Task)
      BY DEF WorkTypes
    <3>3. Append(tasks, OtherTask("end")) \in Seq(Task)
      BY <2>2, <3>2
    <3> QED BY <3>1, <3>2, <3>3, Zenon
  <2>5. endFunc' \in Nat /\ nEnd' \in Nat
    BY <1>5 DEF EndSending, EndReady, WorkTypes, endVars
  <2>6. WorkTypes'
    BY <1>5, <2>4, <2>5 DEF EndSending, EndReady, WorkTypes, hist
  <2> QED BY <2>1, <2>3, <2>6
<1>6. ASSUME NEW i \in 1..MaxReq, UndoExpectResponses(i) PROVE TypeOK'
  <2>1. FlagTypes'
    BY <1>6, Zenon DEF UndoExpectResponses, FlagTypes
  <2>2. CoreTypes' /\ SyncTypes' /\ WorkTypes'
    BY <1>6 DEF UndoExpectResponses, CoreTypes, SyncTypes, WorkTypes,
                wireVars, syncVars, endVars, workVars, hist
  <2> QED BY <2>1, <2>2
<1>7. ASSUME NEW kind \in {"unexpected", "remote_unexpected"},
             SetHandler(kind)
      PROVE  TypeOK'
  <2>1. FlagTypes'
    BY <1>7, Zenon DEF SetHandler, FlagTypes
  <2>2. CoreTypes' /\ SyncTypes' /\ WorkTypes'
    BY <1>7 DEF SetHandler, CoreTypes, SyncTypes, WorkTypes, wireVars,
                syncVars, endVars, workVars, hist
  <2> QED BY <2>1, <2>2
<1> QED BY <1>1, <1>2, <1>3, <1>4, <1>5, <1>6, <1>7

-----------------------------------------------------------------------------
(* What sending does to the core.                                          *)
LEMMA RegistersTypes ==
  ASSUME TypeOK, NEW mode \in {"none", "once", "open", "sync"},
         NEW o \in Nat, Registers(mode, o)
  PROVE  sndNext' \in Nat \ {0} /\ rsp' \in SUBSET Expectation
<1>1. sndNext \in Nat \ {0} /\ rsp \in SUBSET Expectation
  BY TypeParts DEF CoreTypes
<1>2. mode # "none" => Expecting(sndNext, mode, o) \in Expectation
  BY <1>1 DEF Expecting, Expectation
<1> QED BY <1>1, <1>2 DEF Registers

LEMMA SentTypes ==
  ASSUME TypeOK, Sent \/ Refused \/ Failed
  PROVE  /\ sent' \subseteq Nat /\ hosed' \in {"ok", "send", "rcv"}
         /\ told' \in Seq({"call", "sync_request", "handler"})
<1>1. /\ sndNext \in Nat /\ sent \subseteq Nat
      /\ hosed \in {"ok", "send", "rcv"}
      /\ told \in Seq({"call", "sync_request", "handler"})
  BY TypeParts DEF CoreTypes, WorkTypes
<1>2. CASE Sent \/ Refused
  BY <1>1, <1>2 DEF Sent, Refused
<1>3. CASE Failed
  <2>1. told' = Append(told, "call") /\ hosed' = "send" /\ UNCHANGED sent
    BY <1>3 DEF Failed
  <2> QED BY <1>1, <2>1
<1> QED BY <1>2, <1>3

LEMMA TypeSend ==
  ASSUME TypeOK, NEW mode \in DOMAIN SendApi, Send(mode)
  PROVE  TypeOK'
<1> USE TypeParts
<1>1. mode \in {"none", "once", "open", "sync"}
  BY DEF SendApi
<1>2. /\ sndNext' \in Nat \ {0} /\ rsp' \in SUBSET Expectation
      /\ sent' \subseteq Nat /\ hosed' \in {"ok", "send", "rcv"}
      /\ told' \in Seq({"call", "sync_request", "handler"})
  BY <1>1, RegistersTypes, SentTypes DEF Send
<1>3. FlagTypes'
  BY Zenon DEF Send, FlagTypes
<1>4. CoreTypes'
  BY <1>2 DEF Send, CoreTypes
<1>5. SyncTypes' /\ WorkTypes'
  BY <1>2 DEF Send, SyncTypes, WorkTypes, syncVars, endVars, workVars
<1> QED BY <1>3, <1>4, <1>5

LEMMA TypeSync ==
  ASSUME TypeOK, NEW t \in User, SyncCalled(t) \/ SyncStep(t)
  PROVE  TypeOK'
<1> USE TypeParts
<1>1. NoOp \in SyncOp /\ NewOp(opNext) \in SyncOp
  BY DEF NoOp, NewOp, NoResult, SyncOp, Result, SyncTypes
<1>2. CASE SyncCalled(t) \/ SyncWakes(t)
  <2>1. FlagTypes'
    BY <1>2, Zenon DEF SyncCalled, SyncWakes, FlagTypes, coreVars
  <2>2. CoreTypes' /\ SyncTypes' /\ WorkTypes'
    BY <1>2 DEF SyncCalled, SyncWakes, CoreTypes, SyncTypes, WorkTypes,
                coreVars, wireVars, endVars, workVars, hist
  <2> QED BY <2>1, <2>2
<1>3. CASE SyncSends(t)
  <2>1. opNext \in Nat
    BY DEF SyncTypes
  <2>2. /\ sndNext' \in Nat \ {0} /\ rsp' \in SUBSET Expectation
        /\ sent' \subseteq Nat /\ hosed' \in {"ok", "send", "rcv"}
        /\ told' \in Seq({"call", "sync_request", "handler"})
    BY <1>3, <2>1, RegistersTypes, SentTypes DEF SyncSends
  <2>3. FlagTypes'
    BY <1>3, Zenon DEF SyncSends, FlagTypes
  <2>4. CoreTypes' /\ WorkTypes'
    BY <1>3, <2>2 DEF SyncSends, CoreTypes, WorkTypes, endVars, workVars
  <2>5. Asked \in Outcome
    BY DEF Asked, Outcome
  <2>6. answer' \in [1..MaxReq -> Outcome]
    BY <1>3, <2>5 DEF SyncSends, SyncTypes
  <2>7. SyncTypes'
    BY <1>3, <1>1, <2>6 DEF SyncSends, SyncTypes, CoreTypes
  <2> QED BY <2>3, <2>4, <2>7
<1>4. CASE SyncFails(t)
  <2>1. opNext \in Nat
    BY DEF SyncTypes
  <2>2. /\ sndNext' \in Nat \ {0} /\ rsp' \in SUBSET Expectation
        /\ sent' \subseteq Nat /\ hosed' \in {"ok", "send", "rcv"}
        /\ told' \in Seq({"call", "sync_request", "handler"})
    <3>1. CASE hosed # "ok" /\ UNCHANGED <<hosed, told, sent, rsp, sndNext>>
      BY <3>1 DEF CoreTypes, WorkTypes
    <3>2. CASE Registers("sync", opNext) /\ (Refused \/ Failed)
      BY <3>2, <2>1, RegistersTypes, SentTypes
    <3> QED BY <1>4, <3>1, <3>2 DEF SyncFails
  <2>3. FlagTypes'
    BY <1>4, Zenon DEF SyncFails, FlagTypes
  <2>4. CoreTypes' /\ WorkTypes'
    BY <1>4, <2>2 DEF SyncFails, CoreTypes, WorkTypes, endVars, workVars
  <2>5. SyncTypes'
    BY <1>4, <1>1 DEF SyncFails, SyncTypes
  <2> QED BY <2>3, <2>4, <2>5
<1>5. CASE SyncReturns(t)
  <2>1. FlagTypes'
    BY <1>5, Zenon DEF SyncReturns, FlagTypes, coreVars
  <2>2. CoreTypes' /\ WorkTypes'
    BY <1>5 DEF SyncReturns, CoreTypes, WorkTypes, coreVars, wireVars,
                endVars, workVars
  <2>3. (IF op.result.kind = "none" THEN TimedOut ELSE op.result) \in Outcome
    BY DEF SyncTypes, SyncOp, Result, Outcome, TimedOut
  <2>4. SyncTypes'
    BY <1>5, <1>1, <2>3 DEF SyncReturns, SyncTypes
  <2> QED BY <2>1, <2>2, <2>4
<1> QED BY <1>2, <1>3, <1>4, <1>5 DEF SyncStep

-----------------------------------------------------------------------------
(* A task that calls a handler has a call to make, that of a handler of    *)
(* in-messages; what a runner has left to call is of that kind too.        *)
TasksCall ==
  \A n \in 1..Len(tasks) :
    tasks[n].kind = "call" => tasks[n].evs \in Seq(MsgEvent) \ {<<>>}
RunsCall ==
  \A r \in Runner : \A n \in 2..Len(run[r]) : run[r][n] \in MsgEvent

LEMMA CallsTypes ==
  ASSUME TypeOK, NEW r \in Runner, NEW evs \in Seq(Event), evs # <<>>,
         Calls(r, evs)
  PROVE  run' \in [Runner -> Seq(Event)] /\ fired' \in Seq(Event)
<1>1. Head(evs) \in Event
  OBVIOUS
<1> QED BY <1>1, TypeParts DEF Calls, WorkTypes
LEMMA TypeRuns ==
  ASSUME TypeOK, TasksCall, NEW r \in Runner, Runs(r)
  PROVE  TypeOK'
<1> USE TypeParts
<1>1. ASSUME NEW kind, TakesTask(r, kind)
      PROVE  /\ Head(tasks) \in Task /\ tasks' \in Seq(Task)
             /\ kind = "call" => Head(tasks).evs # <<>>
  <2>1. tasks # <<>> /\ tasks \in Seq(Task)
    BY <1>1 DEF TakesTask, WorkTypes
  <2>2. Head(tasks) = tasks[1] /\ 1 \in 1..Len(tasks)
    BY <2>1
  <2> QED BY <1>1, <2>1, <2>2 DEF TakesTask, TasksCall
<1>2. CASE RunCall(r)
  <2>1. /\ Head(tasks).evs \in Seq(Event) /\ Head(tasks).evs # <<>>
        /\ tasks' \in Seq(Task)
    BY <1>1, <1>2 DEF RunCall, Task
  <2>2. run' \in [Runner -> Seq(Event)] /\ fired' \in Seq(Event)
    BY <1>2, <2>1, CallsTypes DEF RunCall
  <2>3. FlagTypes'
    BY <1>2, Zenon DEF RunCall, FlagTypes, coreVars
  <2>4. CoreTypes' /\ SyncTypes' /\ WorkTypes'
    BY <1>2, <2>1, <2>2 DEF RunCall, CoreTypes, SyncTypes, WorkTypes,
       coreVars, wireVars, syncVars, endVars
  <2> QED BY <2>3, <2>4
<1>3. CASE RunError(r)
  <2>1. tasks' \in Seq(Task)
    BY <1>1, <1>3 DEF RunError
  <2>2. Ev("error", 0) \in Event
    BY EvIsEvent
  <2>3. <<Ev("error", 0)>> \in Seq(Event) /\ <<Ev("error", 0)>> # <<>>
    BY <2>2
  <2>4. /\ run' \in [Runner -> Seq(Event)] /\ fired' \in Seq(Event)
        /\ told' \in Seq({"call", "sync_request", "handler"})
        /\ op' \in SyncOp
    <3>1. CASE op.on /\ op.result.kind = "none"
      <4>1. op' = [op EXCEPT !.result = Hosing] /\ UNCHANGED <<run, fired, told>>
        BY <1>3, <3>1 DEF RunError
      <4>2. Hosing \in Result
        BY DEF Hosing, Result
      <4> QED BY <4>1, <4>2 DEF SyncTypes, WorkTypes, SyncOp
    <3>2. CASE ~(op.on /\ op.result.kind = "none")
      <4>1. /\ Calls(r, <<Ev("error", 0)>>)
            /\ told' = Append(told, "handler") /\ UNCHANGED op
        BY <1>3, <3>2 DEF RunError
      <4>2. told' \in Seq({"call", "sync_request", "handler"})
        BY <4>1 DEF WorkTypes
      <4> QED BY <4>1, <4>2, <2>3, CallsTypes DEF SyncTypes
    <3> QED BY <3>1, <3>2
  <2>5. FlagTypes'
    BY <1>3, Zenon DEF RunError, FlagTypes, coreVars
  <2>6. CoreTypes' /\ SyncTypes' /\ WorkTypes'
    BY <1>3, <2>1, <2>4 DEF RunError, CoreTypes, SyncTypes, WorkTypes,
       coreVars, wireVars, endVars
  <2> QED BY <2>5, <2>6
<1>4. CASE RunEnd(r)
  <2>1. tasks' \in Seq(Task)
    BY <1>1, <1>4 DEF RunEnd
  <2>2. Ev("end", endFunc) \in Event
    BY EvIsEvent DEF WorkTypes
  <2>3. <<Ev("end", endFunc)>> \in Seq(Event) /\ <<Ev("end", endFunc)>> # <<>>
    BY <2>2
  <2>4. run' \in [Runner -> Seq(Event)] /\ fired' \in Seq(Event)
    BY <1>4, <2>3, CallsTypes DEF RunEnd
  <2>5. FlagTypes'
    BY <1>4, Zenon DEF RunEnd, FlagTypes, coreVars
  <2>6. CoreTypes' /\ SyncTypes' /\ WorkTypes'
    BY <1>4, <2>1, <2>4 DEF RunEnd, CoreTypes, SyncTypes, WorkTypes,
       coreVars, wireVars, syncVars
  <2> QED BY <2>5, <2>6
<1>5. CASE HandlerReturns(r)
  <2>1. run[r] \in Seq(Event) /\ run[r] # <<>>
    BY <1>5 DEF HandlerReturns, WorkTypes
  <2>2. Len(run[r]) # 1 => run[r][2] \in Event
    <3>1. Len(run[r]) \in Nat \ {0}
      BY <2>1, EmptySeq
    <3>2. \A n \in Nat \ {0} : n # 1 => 2 \in 1..n
      OBVIOUS
    <3> QED BY <2>1, <3>1, <3>2, ElementOfSeq
  <2>3. run' \in [Runner -> Seq(Event)]
    BY <1>5, <2>1 DEF HandlerReturns, WorkTypes
  <2>4. fired' \in Seq(Event)
    BY <1>5, <2>2 DEF HandlerReturns, WorkTypes
  <2>5. FlagTypes'
    BY <1>5, Zenon DEF HandlerReturns, FlagTypes, coreVars
  <2>6. CoreTypes' /\ SyncTypes' /\ WorkTypes'
    BY <1>5, <2>3, <2>4 DEF HandlerReturns, CoreTypes, SyncTypes, WorkTypes,
       coreVars, wireVars, syncVars, endVars
  <2> QED BY <2>5, <2>6
<1> QED BY <1>2, <1>3, <1>4, <1>5 DEF Runs

LEMMA TypeDtor ==
  ASSUME TypeOK, DtorBegins \/ DtorStep PROVE TypeOK'
<1> USE TypeParts
<1>1. FlagTypes'
  BY Zenon DEF DtorBegins, DtorStep, WorkerJoined, PollEnds, DtorEnds,
               FlagTypes, coreVars
<1>2. CoreTypes' /\ SyncTypes'
  BY DEF DtorBegins, DtorStep, WorkerJoined, PollEnds, DtorEnds, CoreTypes,
         SyncTypes, coreVars, wireVars, syncVars, hist
<1>3. fired' \in Seq(Event)
  <2>1. Ev("end_aborted", endFunc) \in Event
    BY EvIsEvent DEF WorkTypes
  <2>2. \/ UNCHANGED fired
        \/ fired' = Append(fired, Ev("end_aborted", endFunc))
    BY DEF DtorBegins, DtorStep, WorkerJoined, PollEnds, DtorEnds, hist
  <2>3. fired \in Seq(Event)
    BY DEF WorkTypes
  <2>4. Append(fired, Ev("end_aborted", endFunc)) \in Seq(Event)
    BY <2>1, <2>3
  <2> QED BY <2>2, <2>3, <2>4, Zenon
<1>4. WorkTypes'
  BY <1>3 DEF DtorBegins, DtorStep, WorkerJoined, PollEnds, DtorEnds,
              WorkTypes, endVars, workVars, hist
<1> QED BY <1>1, <1>2, <1>4

LEMMA TypeStays ==
  ASSUME TypeOK, UNCHANGED vars PROVE TypeOK'
<1> USE TypeParts
<1>1. FlagTypes'
  BY Zenon DEF FlagTypes, vars, coreVars
<1>2. CoreTypes' /\ SyncTypes' /\ WorkTypes'
  BY DEF CoreTypes, SyncTypes, WorkTypes, vars, coreVars, wireVars, syncVars,
         endVars, workVars, hist
<1> QED BY <1>1, <1>2

LEMMA TypeStep ==
  ASSUME TypeOK, TasksCall, [Next]_vars PROVE TypeOK'
<1>1. CASE PeerSends
  BY <1>1, TypePeer
<1>2. CASE Read
  BY <1>2, TypeRead
<1>3. CASE StartReturns \/ EndReady \/ UserCalls
  BY <1>3, TypeUserCall, TypeSend DEF UserCalls
<1>4. CASE \E t \in User : SyncCalled(t) \/ SyncStep(t)
  BY <1>4, TypeSync
<1>5. CASE \E r \in Runner : Runs(r)
  BY <1>5, TypeRuns
<1>6. CASE DtorBegins \/ DtorStep
  BY <1>6, TypeDtor
<1>7. CASE UNCHANGED vars
  BY <1>7, TypeStays
<1> QED BY <1>1, <1>2, <1>3, <1>4, <1>5, <1>6, <1>7 DEF Next

-----------------------------------------------------------------------------
(* The tasks of a kind in a queue: none, or one.                           *)
NoneOf(s, kind) == \A n \in 1..Len(s) : s[n].kind # kind
OneOf(s, kind) ==
  \E n \in 1..Len(s) :
    s[n].kind = kind /\ \A m \in 1..Len(s) : m # n => s[m].kind # kind

LEMMA AppendOther ==
  ASSUME NEW s \in Seq(Task), NEW x \in Task, NEW kind, x.kind # kind
  PROVE  /\ NoneOf(s, kind) => NoneOf(Append(s, x), kind)
         /\ OneOf(s, kind) => OneOf(Append(s, x), kind)
BY DEF NoneOf, OneOf

LEMMA AppendSame ==
  ASSUME NEW s \in Seq(Task), NEW x \in Task, NoneOf(s, x.kind)
  PROVE  OneOf(Append(s, x), x.kind)
<1>1. Len(s) + 1 \in 1..Len(Append(s, x)) /\ Append(s, x)[Len(s) + 1] = x
  OBVIOUS
<1>2. \A m \in 1..Len(Append(s, x)) :
        m # Len(s) + 1 => Append(s, x)[m].kind # x.kind
  BY DEF NoneOf
<1> QED BY <1>1, <1>2 DEF OneOf

LEMMA TailOther ==
  ASSUME NEW s \in Seq(Task), s # <<>>, NEW kind, Head(s).kind # kind
  PROVE  /\ NoneOf(s, kind) => NoneOf(Tail(s), kind)
         /\ OneOf(s, kind) => OneOf(Tail(s), kind)
<1>1. /\ Len(s) \in Nat \ {0} /\ Len(Tail(s)) = Len(s) - 1
      /\ \A m \in 1..Len(Tail(s)) : Tail(s)[m] = s[m + 1]
  BY EmptySeq
<1>2. NoneOf(s, kind) => NoneOf(Tail(s), kind)
  BY <1>1 DEF NoneOf
<1>3. ASSUME OneOf(s, kind) PROVE OneOf(Tail(s), kind)
  <2>1. PICK n \in 1..Len(s) :
          s[n].kind = kind /\ \A m \in 1..Len(s) : m # n => s[m].kind # kind
    BY <1>3 DEF OneOf
  <2>2. n # 1
    BY <2>1
  <2>3. n - 1 \in 1..Len(Tail(s)) /\ Tail(s)[n - 1].kind = kind
    BY <1>1, <2>1, <2>2
  <2>4. \A m \in 1..Len(Tail(s)) : m # n - 1 => Tail(s)[m].kind # kind
    BY <1>1, <2>1
  <2> QED BY <2>3, <2>4 DEF OneOf
<1> QED BY <1>2, <1>3

LEMMA TailSame ==
  ASSUME NEW s \in Seq(Task), s # <<>>, OneOf(s, Head(s).kind)
  PROVE  NoneOf(Tail(s), Head(s).kind)
<1>1. /\ Len(s) \in Nat \ {0} /\ Len(Tail(s)) = Len(s) - 1
      /\ \A m \in 1..Len(Tail(s)) : Tail(s)[m] = s[m + 1]
  BY EmptySeq
<1>2. 1 \in 1..Len(s) /\ Head(s) = s[1]
  BY <1>1
<1>3. \A m \in 1..Len(s) : m # 1 => s[m].kind # Head(s).kind
  BY <1>2 DEF OneOf
<1> QED BY <1>1, <1>3 DEF NoneOf

(* A step posts a handler call.                                            *)
Posts == \E evs \in Seq(MsgEvent) \ {<<>>} : tasks' = Append(tasks, CallTask(evs))

LEMMA EmitsPosts ==
  ASSUME NEW ev \in MsgEvent, Emits(ev) PROVE Posts
<1>1. <<ev>> \in Seq(MsgEvent) \ {<<>>}
  OBVIOUS
<1> QED BY <1>1 DEF Emits, Posts

(* What reading a message does.                                            *)
LEMMA ReadEffect ==
  ASSUME TypeOK, Read
  PROVE  /\ \/ OnError
            \/ UNCHANGED <<hosed, rsp, op>> /\ (UNCHANGED tasks \/ Posts)
            \/ /\ UNCHANGED hosed /\ (UNCHANGED tasks \/ Posts)
               /\ rsp' \subseteq rsp
               /\ \/ UNCHANGED op
                  \/ \E e \in rsp : e.mode = "sync" /\ OnSyncResponse(e.id, e.op)
         /\ UNCHANGED fired
<1> DEFINE item == Head(wire)
<1>1. item \in Item
  BY TypeParts DEF Read, CoreTypes
<1>2. item.id \in Nat
  BY <1>1 DEF Item
<1> HIDE DEF item
<1>3. ASSUME NEW kind \in {"unexpected", "remote_unexpected"},
             OnUnexpected(kind, item.id)
      PROVE  (UNCHANGED tasks \/ Posts) /\ UNCHANGED <<op, fired>>
  <2>1. Ev(kind, item.id) \in MsgEvent
    BY <1>2, EvIsMsgEvent
  <2> QED BY <1>3, <2>1, EmitsPosts DEF OnUnexpected
<1>4. CASE item.kind = "note"
  <2>1. OnNote(item.id)
    BY <1>4 DEF Read, item
  <2>2. Ev("msg", item.id) \in MsgEvent
    BY <1>2, EvIsMsgEvent
  <2>3. (UNCHANGED tasks \/ Posts) /\ UNCHANGED <<hosed, rsp, op, fired>>
    BY <2>1, <2>2, EmitsPosts DEF OnNote
  <2> QED BY <2>3
<1>5. CASE item.kind = "rsp"
  <2>1. OnResponse(item.id)
    BY <1>5 DEF Read, item
  <2>2. rsp' \subseteq rsp /\ UNCHANGED hosed
    BY <2>1 DEF OnResponse
  <2>3. CASE OnUnexpected("unexpected", item.id)
    BY <1>3, <2>2, <2>3
  <2>4. ASSUME NEW e \in rsp, e.id = item.id,
               IF e.mode = "sync" THEN OnSyncResponse(item.id, e.op)
                                  ELSE OnAsyncResponse(item.id)
        PROVE  /\ UNCHANGED tasks \/ Posts
               /\ \/ UNCHANGED op
                  \/ e.mode = "sync" /\ OnSyncResponse(e.id, e.op)
               /\ UNCHANGED fired
    <3>1. Ev("rsp", item.id) \in MsgEvent
      BY <1>2, EvIsMsgEvent
    <3>2. CASE e.mode = "sync"
      BY <2>4, <3>2 DEF OnSyncResponse
    <3>3. CASE e.mode # "sync"
      BY <2>4, <3>1, <3>3, EmitsPosts DEF OnAsyncResponse
    <3> QED BY <3>2, <3>3
  <2>5. \/ OnUnexpected("unexpected", item.id)
        \/ \E e \in rsp : /\ e.id = item.id
                          /\ IF e.mode = "sync"
                             THEN OnSyncResponse(item.id, e.op)
                             ELSE OnAsyncResponse(item.id)
    BY <2>1 DEF OnResponse
  <2> QED BY <2>2, <2>3, <2>4, <2>5
<1>6. CASE item.kind = "fail"
  <2>1. OnError
    BY <1>6 DEF Read, item
  <2> QED BY <2>1 DEF OnError
<1>7. CASE item.kind = "remote_unexpected"
  <2>1. /\ OnUnexpected("remote_unexpected", item.id)
        /\ UNCHANGED <<expect, waiting, rsp, hosed>>
    BY <1>7 DEF Read, item
  <2> QED BY <2>1, <1>3
<1> QED BY <1>1, <1>4, <1>5, <1>6, <1>7 DEF Item

(* The user's calls, but those that send, and what goes with them: what    *)
(* they do besides changing the core.                                      *)
LEMMA UserCallEffect ==
  ASSUME TypeOK,
         \/ Start \/ StartReturns \/ ExpectMsg \/ ExpectMsgs \/ UndoExpectMsgs
         \/ \E i \in 1..MaxReq : UndoExpectResponses(i)
         \/ \E kind \in {"unexpected", "remote_unexpected"} : SetHandler(kind)
  PROVE  /\ UNCHANGED tasks \/ Posts
         /\ rsp' \subseteq rsp
         /\ UNCHANGED <<hosed, sndNext, ended, endFunc, nEnd, run, life,
                        fired, told, answer, holder, op, opNext, pc, req>>
<1>1. CASE Start \/ StartReturns \/ UndoExpectMsgs
  BY <1>1 DEF Start, StartReturns, UndoExpectMsgs, coreVars, wireVars,
              syncVars, endVars, workVars, hist
<1>2. CASE ExpectMsg
  <2>1. CASE waiting = <<>>
    BY <1>2, <2>1 DEF ExpectMsg, syncVars, endVars
  <2>2. CASE waiting # <<>>
    <3>1. Head(waiting) \in Nat
      BY <2>2, TypeParts DEF CoreTypes
    <3>2. Ev("msg", Head(waiting)) \in MsgEvent
      BY <3>1, EvIsMsgEvent
    <3>3. Emits(Ev("msg", Head(waiting)))
      BY <1>2, <2>2 DEF ExpectMsg
    <3>4. Posts
      BY <3>2, <3>3, EmitsPosts
    <3> QED BY <1>2, <3>4 DEF ExpectMsg, syncVars, endVars
  <2> QED BY <2>1, <2>2
<1>3. CASE ExpectMsgs
  <2> DEFINE evs == [i \in 1..Len(waiting) |-> Ev("msg", waiting[i])]
  <2>1. evs \in Seq(MsgEvent)
    BY EvsAreEvents, TypeParts DEF CoreTypes
  <2>2. tasks' = IF evs = <<>> THEN tasks ELSE Append(tasks, CallTask(evs))
    BY <1>3 DEF ExpectMsgs
  <2> HIDE DEF evs
  <2>3. UNCHANGED tasks \/ Posts
    BY <2>1, <2>2 DEF Posts
  <2> QED BY <1>3, <2>3 DEF ExpectMsgs, syncVars, endVars
<1>4. ASSUME NEW i \in 1..MaxReq, UndoExpectResponses(i)
      PROVE  /\ rsp' \subseteq rsp
             /\ UNCHANGED <<tasks, hosed, sndNext, ended, endFunc, nEnd, run,
                            life, fired, told, answer, holder, op, opNext, pc,
                            req>>
  BY <1>4 DEF UndoExpectResponses, wireVars, syncVars, endVars, workVars, hist
<1>5. ASSUME NEW kind \in {"unexpected", "remote_unexpected"},
             SetHandler(kind)
      PROVE  UNCHANGED <<tasks, rsp, hosed, sndNext, ended, endFunc, nEnd,
                         run, life, fired, told, answer, holder, op, opNext,
                         pc, req>>
  BY <1>5 DEF SetHandler, wireVars, syncVars, endVars, workVars, hist
<1> QED BY <1>1, <1>2, <1>3, <1>4, <1>5

(* What a step does to the queue of tasks.                                 *)
LEMMA TasksEffect ==
  ASSUME TypeOK, [Next]_vars
  PROVE  \/ UNCHANGED tasks
         \/ Posts
         \/ \E kind \in {"error", "end"} : tasks' = Append(tasks, OtherTask(kind))
         \/ tasks # <<>> /\ tasks' = Tail(tasks)
<1>1. CASE PeerSends
  BY <1>1 DEF PeerSends, Arrives, workVars
<1>2. CASE Read
  BY <1>2, ReadEffect DEF OnError
<1>3. CASE StartReturns \/ EndReady \/ UserCalls
  <2>1. CASE EndReady \/ EndSending
    BY <2>1 DEF EndReady, EndSending
  <2>2. ASSUME NEW mode \in DOMAIN SendApi, Send(mode) PROVE UNCHANGED tasks
    BY <2>2 DEF Send, workVars
  <2> QED BY <1>3, <2>1, <2>2, UserCallEffect DEF UserCalls
<1>4. CASE \E t \in User : SyncCalled(t) \/ SyncStep(t)
  BY <1>4 DEF SyncCalled, SyncStep, SyncSends, SyncFails, SyncWakes,
              SyncReturns, workVars
<1>5. CASE \E r \in Runner : Runs(r)
  BY <1>5 DEF Runs, RunCall, RunError, RunEnd, HandlerReturns, TakesTask
<1>6. CASE DtorBegins \/ DtorStep
  BY <1>6 DEF DtorBegins, DtorStep, WorkerJoined, PollEnds, DtorEnds, workVars
<1>7. CASE UNCHANGED vars
  BY <1>7 DEF vars, workVars
<1> QED BY <1>1, <1>2, <1>3, <1>4, <1>5, <1>6, <1>7 DEF Next

LEMMA TasksCallStep ==
  ASSUME TypeOK, TasksCall, [Next]_vars PROVE TasksCall'
<1>1. tasks \in Seq(Task)
  BY TypeParts DEF WorkTypes
<1> DEFINE Good(x) == x.kind = "call" => x.evs \in Seq(MsgEvent) \ {<<>>}
<1>2. \A n \in 1..Len(tasks) : Good(tasks[n])
  BY DEF TasksCall
<1>3. ASSUME NEW x \in Task, Good(x), tasks' = Append(tasks, x)
      PROVE  \A n \in 1..Len(tasks') : Good(tasks'[n])
  <2> HIDE DEF Good
  <2> QED BY <1>1, <1>2, <1>3
<1>4. CASE Posts
  <2>1. PICK evs \in Seq(MsgEvent) \ {<<>>} : tasks' = Append(tasks, CallTask(evs))
    BY <1>4 DEF Posts
  <2>2. MsgEvent \subseteq Event
    BY DEF MsgEvent
  <2>3. CallTask(evs) \in Task
    BY <2>2, SeqMonotonic, CallIsTask
  <2>4. Good(CallTask(evs))
    BY DEF CallTask
  <2> HIDE DEF Good
  <2>5. \A n \in 1..Len(tasks') : Good(tasks'[n])
    BY <1>3, <2>1, <2>3, <2>4
  <2> USE DEF Good
  <2> QED BY <2>5 DEF TasksCall
<1>5. ASSUME NEW kind \in {"error", "end"},
             tasks' = Append(tasks, OtherTask(kind))
      PROVE  TasksCall'
  <2>1. OtherTask(kind) \in Task /\ Good(OtherTask(kind))
    BY OtherIsTask DEF OtherTask
  <2> HIDE DEF Good
  <2>2. \A n \in 1..Len(tasks') : Good(tasks'[n])
    BY <1>3, <1>5, <2>1
  <2> USE DEF Good
  <2> QED BY <2>2 DEF TasksCall
<1>6. ASSUME tasks # <<>>, tasks' = Tail(tasks) PROVE TasksCall'
  <2>1. /\ Len(tasks) \in Nat \ {0} /\ Len(tasks') = Len(tasks) - 1
        /\ \A m \in 1..Len(tasks') : tasks'[m] = tasks[m + 1]
    BY <1>1, <1>6, EmptySeq
  <2> HIDE DEF Good
  <2>2. \A n \in 1..Len(tasks') : Good(tasks'[n])
    BY <1>2, <2>1
  <2> USE DEF Good
  <2> QED BY <2>2 DEF TasksCall
<1>7. CASE UNCHANGED tasks
  BY <1>7 DEF TasksCall
<1> QED BY <1>4, <1>5, <1>6, <1>7, TasksEffect

-----------------------------------------------------------------------------
(* Who holds m_sync_op_mutex, and what m_sync_op_state then is: it belongs *)
(* to the request that the holder sent, and only the expectation that went *)
(* with that request can put a response there.                             *)
HolderWaits == \A t \in User : pc[t] \in {"wait", "woken"} <=> holder = t
NoHolderNoOp == holder = None => op = NoOp
OpOfHolder ==
  holder # None =>
    /\ op.on /\ op.id < opNext
    /\ req[holder] \in 1..MaxReq /\ req[holder] < sndNext
    /\ answer[req[holder]] = Asked
    /\ op.result \in {NoResult, Hosing, Response(req[holder])}
    /\ \A e \in rsp : e.mode = "sync" /\ e.op = op.id => e.id = req[holder]
OpsOfThePast == \A e \in rsp : e.mode = "sync" => e.op < opNext
UnsentOpen == \A i \in 1..MaxReq : i >= sndNext => answer[i] = NoOutcome

SyncInv == /\ HolderWaits /\ NoHolderNoOp /\ OpOfHolder /\ OpsOfThePast
           /\ UnsentOpen /\ OwnAnswer

(* The response that a request waits for is put where it is waited for.    *)
LEMMA SyncResponseOp ==
  ASSUME TypeOK, SyncInv, NEW e \in rsp, e.mode = "sync",
         OnSyncResponse(e.id, e.op)
  PROVE  /\ op' = op
            \/ (holder # None /\ op' = [op EXCEPT !.result = Response(req[holder])])
         /\ op'.result.kind = "error" <=> op.result.kind = "error"
<1>1. op \in SyncOp
  BY TypeParts DEF SyncTypes
<1>2. CASE op' = op
  BY <1>2
<1>3. CASE op' # op
  <2>1. /\ op.on /\ op.id = e.op /\ op.result.kind # "error"
        /\ op' = [op EXCEPT !.result = Response(e.id)]
    BY <1>3 DEF OnSyncResponse
  <2>2. holder # None
    BY <2>1 DEF SyncInv, NoHolderNoOp, NoOp
  <2>3. e.id = req[holder]
    BY <2>1, <2>2 DEF SyncInv, OpOfHolder
  <2>4. op'.result = Response(e.id)
    BY <1>1, <2>1 DEF SyncOp
  <2> QED BY <2>1, <2>2, <2>3, <2>4 DEF Response
<1> QED BY <1>2, <1>3

(* Steps that leave sync_request() as it is, but for the result.           *)
LEMMA SyncSame ==
  ASSUME TypeOK, SyncInv,
         UNCHANGED <<sndNext, holder, opNext, pc, req, answer>>,
         rsp' \subseteq rsp,
         \/ op' = op
         \/ holder # None /\ op' = [op EXCEPT !.result = Response(req[holder])]
         \/ holder # None /\ op' = [op EXCEPT !.result = Hosing]
  PROVE  SyncInv'
<1>1. HolderWaits' /\ OpsOfThePast' /\ UnsentOpen' /\ OwnAnswer'
  BY DEF SyncInv, HolderWaits, OpsOfThePast, UnsentOpen, OwnAnswer
<1>2. NoHolderNoOp'
  BY DEF SyncInv, NoHolderNoOp
<1>3. ASSUME holder # None
      PROVE  /\ op'.on = op.on /\ op'.id = op.id
             /\ op'.result \in {NoResult, Hosing, Response(req[holder])}
  <2>1. op \in SyncOp
    BY TypeParts DEF SyncTypes
  <2>2. op.result \in {NoResult, Hosing, Response(req[holder])}
    BY <1>3 DEF SyncInv, OpOfHolder
  <2> QED BY <1>3, <2>1, <2>2 DEF SyncOp
<1>4. OpOfHolder'
  <2> SUFFICES ASSUME holder # None
               PROVE  OpOfHolder'
    BY DEF OpOfHolder
  <2>1. /\ op.on /\ op.id < opNext
        /\ req[holder] \in 1..MaxReq /\ req[holder] < sndNext
        /\ answer[req[holder]] = Asked
        /\ \A e \in rsp : e.mode = "sync" /\ e.op = op.id => e.id = req[holder]
    BY DEF SyncInv, OpOfHolder
  <2> QED BY <1>3, <2>1 DEF OpOfHolder
<1> QED BY <1>1, <1>2, <1>4 DEF SyncInv

LEMMA SyncInit == Init => SyncInv
<1> SUFFICES ASSUME Init PROVE SyncInv
  OBVIOUS
<1>1. None \notin User
  BY ConstantsAssumption
<1>2. HolderWaits
  BY <1>1 DEF Init, HolderWaits
<1>3. NoHolderNoOp /\ OpOfHolder /\ OpsOfThePast
  BY DEF Init, NoHolderNoOp, OpOfHolder, OpsOfThePast
<1>4. UnsentOpen /\ OwnAnswer
  BY DEF Init, UnsentOpen, OwnAnswer, NoOutcome
<1> QED BY <1>2, <1>3, <1>4 DEF SyncInv

(* A message is sent that is not a sync_request()'s.                       *)
LEMMA SyncSend ==
  ASSUME TypeOK, SyncInv, NEW mode \in DOMAIN SendApi, Send(mode)
  PROVE  SyncInv'
<1>1. mode \in {"none", "once", "open"}
  BY DEF SendApi
<1>2. /\ UNCHANGED <<holder, op, opNext, pc, req, answer>>
      /\ sndNext' = sndNext + 1 /\ sndNext \in Nat
  BY TypeParts DEF Send, Registers, syncVars, CoreTypes
<1>3. \A e \in rsp' : e.mode = "sync" => e \in rsp
  <2>1. rsp' \subseteq rsp \cup {Expecting(sndNext, mode, 0)}
    BY DEF Send, Registers
  <2>2. Expecting(sndNext, mode, 0).mode # "sync"
    BY <1>1 DEF Expecting
  <2> QED BY <2>1, <2>2
<1>4. HolderWaits' /\ NoHolderNoOp' /\ OpsOfThePast' /\ UnsentOpen' /\ OwnAnswer'
  BY <1>2, <1>3 DEF SyncInv, HolderWaits, NoHolderNoOp, OpsOfThePast,
                    UnsentOpen, OwnAnswer
<1>5. OpOfHolder'
  <2> SUFFICES ASSUME holder # None PROVE OpOfHolder'
    BY <1>2 DEF OpOfHolder
  <2>1. /\ op.on /\ op.id < opNext
        /\ req[holder] \in 1..MaxReq /\ req[holder] < sndNext
        /\ answer[req[holder]] = Asked
        /\ op.result \in {NoResult, Hosing, Response(req[holder])}
        /\ \A e \in rsp : e.mode = "sync" /\ e.op = op.id => e.id = req[holder]
    BY DEF SyncInv, OpOfHolder
  <2> QED BY <1>2, <1>3, <2>1 DEF OpOfHolder
<1> QED BY <1>4, <1>5 DEF SyncInv

LEMMA SyncRequestSync ==
  ASSUME TypeOK, SyncInv, NEW t \in User, SyncCalled(t) \/ SyncStep(t)
  PROVE  SyncInv'
<1>1. /\ holder \in User \cup {None} /\ None \notin User
      /\ pc \in [User -> {"out", "lock", "wait", "woken"}]
      /\ req \in [User -> Nat] /\ answer \in [1..MaxReq -> Outcome]
      /\ sndNext \in Nat \ {0} /\ opNext \in Nat /\ op \in SyncOp
      /\ rsp \subseteq Expectation
  BY ConstantsAssumption, TypeParts DEF SyncTypes, CoreTypes
<1>2. CASE SyncCalled(t) \/ SyncWakes(t)
  <2>1. /\ UNCHANGED <<sndNext, holder, op, opNext, req, answer, rsp>>
        /\ \/ pc[t] = "out" /\ pc' = [pc EXCEPT ![t] = "lock"]
           \/ pc[t] = "wait" /\ pc' = [pc EXCEPT ![t] = "woken"]
    BY <1>2 DEF SyncCalled, SyncWakes, coreVars, wireVars, hist
  <2>2. HolderWaits'
    BY <1>1, <2>1 DEF SyncInv, HolderWaits
  <2>3. /\ NoHolderNoOp' /\ OpsOfThePast' /\ UnsentOpen' /\ OwnAnswer'
        /\ OpOfHolder'
    BY <2>1 DEF SyncInv, NoHolderNoOp, OpsOfThePast, UnsentOpen, OwnAnswer,
                OpOfHolder
  <2> QED BY <2>2, <2>3 DEF SyncInv
<1>3. CASE SyncSends(t)
  <2>1. /\ holder = None /\ pc[t] = "lock"
        /\ sndNext <= MaxReq /\ sndNext' = sndNext + 1
        /\ rsp' = rsp \cup {Expecting(sndNext, "sync", opNext)}
        /\ op' = NewOp(opNext) /\ opNext' = opNext + 1
        /\ pc' = [pc EXCEPT ![t] = "wait"]
        /\ holder' = t
        /\ req' = [req EXCEPT ![t] = sndNext]
        /\ answer' = [answer EXCEPT ![sndNext] = Asked]
    BY <1>3 DEF SyncSends, CanSync, Registers
  <2>2. sndNext \in 1..MaxReq
    BY <1>1, <2>1, ConstantsAssumption
  <2>3. HolderWaits'
    BY <1>1, <2>1 DEF SyncInv, HolderWaits
  <2>4. NoHolderNoOp'
    BY <1>1, <2>1 DEF NoHolderNoOp
  <2>5. OpsOfThePast'
    <3>1. \A e \in rsp : e.mode = "sync" => e.op < opNext /\ e.op \in Nat
      BY <1>1 DEF SyncInv, OpsOfThePast, Expectation
    <3> QED BY <1>1, <2>1, <3>1 DEF OpsOfThePast, Expecting
  <2>6. OpOfHolder'
    <3>1. op'.on /\ op'.id = opNext /\ op'.result = NoResult
      BY <2>1 DEF NewOp
    <3>2. req'[t] = sndNext /\ answer'[sndNext] = Asked
      BY <1>1, <2>1, <2>2
    <3>3. \A e \in rsp' : e.mode = "sync" /\ e.op = opNext => e.id = sndNext
      <4>1. \A e \in rsp : e.mode = "sync" => e.op < opNext /\ e.op \in Nat
        BY <1>1 DEF SyncInv, OpsOfThePast, Expectation
      <4> QED BY <1>1, <2>1, <4>1 DEF Expecting
    <3> QED BY <1>1, <2>1, <2>2, <3>1, <3>2, <3>3 DEF OpOfHolder
  <2>7. UnsentOpen' /\ OwnAnswer'
    BY <1>1, <2>1, <2>2 DEF SyncInv, UnsentOpen, OwnAnswer, Asked
  <2> QED BY <2>3, <2>4, <2>5, <2>6, <2>7 DEF SyncInv
<1>4. CASE SyncFails(t)
  <2>1. /\ holder = None /\ pc[t] = "lock"
        /\ sndNext' \in {sndNext, sndNext + 1}
        /\ rsp' \subseteq rsp \cup {Expecting(sndNext, "sync", opNext)}
        /\ op' = NoOp /\ opNext' = opNext + 1
        /\ pc' = [pc EXCEPT ![t] = "out"]
        /\ UNCHANGED <<holder, req, answer>>
    BY <1>4 DEF SyncFails, CanSync, Registers
  <2>2. HolderWaits' /\ NoHolderNoOp' /\ OpOfHolder'
    BY <1>1, <2>1 DEF SyncInv, HolderWaits, NoHolderNoOp, OpOfHolder
  <2>3. OpsOfThePast'
    <3>1. \A e \in rsp : e.mode = "sync" => e.op < opNext /\ e.op \in Nat
      BY <1>1 DEF SyncInv, OpsOfThePast, Expectation
    <3> QED BY <1>1, <2>1, <3>1 DEF OpsOfThePast, Expecting
  <2>4. UnsentOpen' /\ OwnAnswer'
    BY <1>1, <2>1 DEF SyncInv, UnsentOpen, OwnAnswer
  <2> QED BY <2>2, <2>3, <2>4 DEF SyncInv
<1>5. CASE SyncReturns(t)
  <2> DEFINE result == IF op.result.kind = "none" THEN TimedOut ELSE op.result
  <2>1. /\ pc[t] = "woken"
        /\ answer' = [answer EXCEPT ![req[t]] = result]
        /\ op' = NoOp /\ holder' = None
        /\ pc' = [pc EXCEPT ![t] = "out"]
        /\ UNCHANGED <<sndNext, rsp, opNext, req>>
    BY <1>5 DEF SyncReturns, coreVars
  <2>2. holder = t
    BY <2>1 DEF SyncInv, HolderWaits
  <2>3. /\ req[t] \in 1..MaxReq /\ req[t] < sndNext
        /\ op.result \in {NoResult, Hosing, Response(req[t])}
    BY <1>1, <2>2 DEF SyncInv, OpOfHolder
  <2>4. result.kind = "rsp" => result.of = req[t]
    BY <2>3 DEF NoResult, Hosing, Response, TimedOut
  <2> HIDE DEF result
  <2>5. HolderWaits'
    BY <1>1, <2>1, <2>2 DEF SyncInv, HolderWaits
  <2>6. NoHolderNoOp' /\ OpOfHolder' /\ OpsOfThePast'
    BY <2>1 DEF SyncInv, NoHolderNoOp, OpOfHolder, OpsOfThePast
  <2>7. UnsentOpen'
    BY <1>1, <2>1, <2>3 DEF SyncInv, UnsentOpen
  <2>8. OwnAnswer'
    BY <1>1, <2>1, <2>3, <2>4 DEF SyncInv, OwnAnswer
  <2> QED BY <2>5, <2>6, <2>7, <2>8 DEF SyncInv
<1> QED BY <1>2, <1>3, <1>4, <1>5 DEF SyncStep

(* Steps that do not touch sync_request() nor the errors.                  *)
LEMMA QuietEffect ==
  ASSUME TypeOK,
         \/ PeerSends \/ EndReady \/ EndSending \/ UNCHANGED vars
         \/ \E r \in Runner : RunCall(r) \/ RunEnd(r) \/ HandlerReturns(r)
         \/ DtorBegins \/ DtorStep
  PROVE  UNCHANGED <<hosed, rsp, sndNext, holder, op, opNext, pc, req, told,
                     answer>>
<1>1. CASE PeerSends \/ EndReady \/ EndSending
  BY <1>1 DEF PeerSends, Arrives, EndReady, EndSending, coreVars, syncVars,
              hist
<1>2. CASE UNCHANGED vars
  BY <1>2 DEF vars, coreVars, syncVars, hist
<1>3. CASE \E r \in Runner : RunCall(r) \/ RunEnd(r) \/ HandlerReturns(r)
  BY <1>3 DEF RunCall, RunEnd, HandlerReturns, coreVars, syncVars, hist
<1>4. CASE DtorBegins \/ DtorStep
  BY <1>4 DEF DtorBegins, DtorStep, WorkerJoined, PollEnds, DtorEnds,
              coreVars, syncVars, hist
<1> QED BY <1>1, <1>2, <1>3, <1>4

LEMMA RunErrorSync ==
  ASSUME TypeOK, SyncInv, NEW r \in Runner, RunError(r)
  PROVE  /\ UNCHANGED <<rsp, sndNext, holder, opNext, pc, req, answer>>
         /\ \/ op' = op
            \/ holder # None /\ op' = [op EXCEPT !.result = Hosing]
<1>1. UNCHANGED <<rsp, sndNext, holder, opNext, pc, req, answer>>
  BY DEF RunError, coreVars
<1>2. CASE op.on /\ op.result.kind = "none"
  <2>1. op' = [op EXCEPT !.result = Hosing]
    BY <1>2 DEF RunError
  <2>2. holder # None
    BY <1>2 DEF SyncInv, NoHolderNoOp, NoOp
  <2> QED BY <1>1, <2>1, <2>2
<1>3. CASE ~(op.on /\ op.result.kind = "none")
  <2>1. op' = op
    BY <1>3 DEF RunError
  <2> QED BY <1>1, <2>1
<1> QED BY <1>2, <1>3

(* What a reading does to sync_request().                                  *)
LEMMA ReadSync ==
  ASSUME TypeOK, SyncInv, Read
  PROVE  /\ UNCHANGED <<sndNext, holder, opNext, pc, req, answer, told>>
         /\ rsp' \subseteq rsp
         /\ \/ op' = op
            \/ holder # None /\ op' = [op EXCEPT !.result = Response(req[holder])]
         /\ op'.result.kind = "error" <=> op.result.kind = "error"
<1>1. UNCHANGED <<sndNext, holder, opNext, pc, req, answer, told>>
  BY DEF Read
<1>2. CASE OnError
  BY <1>1, <1>2 DEF OnError
<1>3. CASE UNCHANGED <<hosed, rsp, op>>
  BY <1>1, <1>3
<1>4. ASSUME rsp' \subseteq rsp,
             \/ UNCHANGED op
             \/ \E e \in rsp : e.mode = "sync" /\ OnSyncResponse(e.id, e.op)
      PROVE  /\ rsp' \subseteq rsp
             /\ \/ op' = op
                \/ /\ holder # None
                   /\ op' = [op EXCEPT !.result = Response(req[holder])]
             /\ op'.result.kind = "error" <=> op.result.kind = "error"
  <2>1. CASE UNCHANGED op
    BY <1>4, <2>1
  <2>2. CASE \E e \in rsp : e.mode = "sync" /\ OnSyncResponse(e.id, e.op)
    BY <1>4, <2>2, SyncResponseOp
  <2> QED BY <1>4, <2>1, <2>2
<1> QED BY <1>1, <1>2, <1>3, <1>4, ReadEffect

LEMMA SyncNext ==
  ASSUME TypeOK, SyncInv, [Next]_vars PROVE SyncInv'
<1>1. CASE \/ PeerSends \/ EndReady \/ EndSending \/ UNCHANGED vars
           \/ \E r \in Runner : RunCall(r) \/ RunEnd(r) \/ HandlerReturns(r)
           \/ DtorBegins \/ DtorStep
  BY <1>1, QuietEffect, SyncSame
<1>2. CASE Read
  BY <1>2, ReadSync, SyncSame
<1>3. CASE StartReturns \/ UserCalls
  <2>1. CASE \E mode \in DOMAIN SendApi : Send(mode)
    BY <2>1, SyncSend
  <2>2. CASE \/ Start \/ StartReturns \/ ExpectMsg \/ ExpectMsgs
             \/ UndoExpectMsgs
             \/ \E i \in 1..MaxReq : UndoExpectResponses(i)
             \/ \E kind \in {"unexpected", "remote_unexpected"} :
                  SetHandler(kind)
    BY <2>2, UserCallEffect, SyncSame
  <2> QED BY <1>1, <1>3, <2>1, <2>2 DEF UserCalls
<1>4. CASE \E t \in User : SyncCalled(t) \/ SyncStep(t)
  BY <1>4, SyncRequestSync
<1>5. CASE \E r \in Runner : RunError(r)
  BY <1>5, RunErrorSync, SyncSame
<1> QED BY <1>1, <1>2, <1>3, <1>4, <1>5 DEF Next, Runs

-----------------------------------------------------------------------------
(* Where an error is: nowhere, told, in a posted task, or left with the    *)
(* sync_request() that waits.                                              *)
ErrorInv ==
  \/ /\ hosed = "ok" /\ told = <<>>
     /\ NoneOf(tasks, "error") /\ op.result.kind # "error"
  \/ /\ hosed = "send" /\ told = <<"call">>
     /\ NoneOf(tasks, "error") /\ op.result.kind # "error"
  \/ /\ hosed = "rcv" /\ told = <<>>
     /\ OneOf(tasks, "error") /\ op.result.kind # "error"
  \/ /\ hosed = "rcv" /\ told = <<>>
     /\ NoneOf(tasks, "error") /\ op.result.kind = "error"
  \/ /\ hosed = "rcv" /\ Len(told) = 1
     /\ NoneOf(tasks, "error") /\ op.result.kind # "error"

(* A step leaves the tasks of a kind as they are.                          *)
NotQueued(kind) ==
  \/ UNCHANGED tasks
  \/ Posts
  \/ \E other \in {"error", "end"} \ {kind} :
       tasks' = Append(tasks, OtherTask(other))
  \/ tasks # <<>> /\ Head(tasks).kind # kind /\ tasks' = Tail(tasks)

LEMMA NotQueuedSame ==
  ASSUME TypeOK, NEW kind \in {"error", "end"}, NotQueued(kind)
  PROVE  /\ NoneOf(tasks, kind) => NoneOf(tasks, kind)'
         /\ OneOf(tasks, kind) => OneOf(tasks, kind)'
<1>1. tasks \in Seq(Task)
  BY TypeParts DEF WorkTypes
<1>2. CASE UNCHANGED tasks
  BY <1>2 DEF NoneOf, OneOf
<1>3. CASE Posts
  <2>1. PICK evs \in Seq(MsgEvent) : tasks' = Append(tasks, CallTask(evs))
    BY <1>3 DEF Posts
  <2>2. MsgEvent \subseteq Event
    BY DEF MsgEvent
  <2>3. CallTask(evs) \in Task /\ CallTask(evs).kind # kind
    BY <2>2, SeqMonotonic, CallIsTask DEF CallTask
  <2>4. /\ NoneOf(tasks, kind) => NoneOf(tasks', kind)
        /\ OneOf(tasks, kind) => OneOf(tasks', kind)
    BY <1>1, <2>1, <2>3, AppendOther
  <2> QED BY <2>4 DEF NoneOf, OneOf
<1>4. ASSUME NEW other \in {"error", "end"} \ {kind},
             tasks' = Append(tasks, OtherTask(other))
      PROVE  /\ NoneOf(tasks, kind) => NoneOf(tasks, kind)'
             /\ OneOf(tasks, kind) => OneOf(tasks, kind)'
  <2>1. OtherTask(other) \in Task /\ OtherTask(other).kind # kind
    BY OtherIsTask DEF OtherTask
  <2>2. /\ NoneOf(tasks, kind) => NoneOf(tasks', kind)
        /\ OneOf(tasks, kind) => OneOf(tasks', kind)
    BY <1>1, <1>4, <2>1, AppendOther
  <2> QED BY <2>2 DEF NoneOf, OneOf
<1>5. ASSUME tasks # <<>>, Head(tasks).kind # kind, tasks' = Tail(tasks)
      PROVE  /\ NoneOf(tasks, kind) => NoneOf(tasks, kind)'
             /\ OneOf(tasks, kind) => OneOf(tasks, kind)'
  <2>1. /\ NoneOf(tasks, kind) => NoneOf(tasks', kind)
        /\ OneOf(tasks, kind) => OneOf(tasks', kind)
    BY <1>1, <1>5, TailOther
  <2> QED BY <2>1 DEF NoneOf, OneOf
<1> QED BY <1>2, <1>3, <1>4, <1>5 DEF NotQueued

LEMMA ErrorSame ==
  ASSUME TypeOK, ErrorInv, UNCHANGED <<hosed, told>>, NotQueued("error"),
         op'.result.kind = "error" <=> op.result.kind = "error"
  PROVE  ErrorInv'
<1>1. /\ NoneOf(tasks, "error") => NoneOf(tasks, "error")'
      /\ OneOf(tasks, "error") => OneOf(tasks, "error")'
  BY NotQueuedSame
<1>2. CASE hosed = "ok"
  BY <1>1, <1>2 DEF ErrorInv
<1>3. CASE hosed = "send"
  BY <1>1, <1>3 DEF ErrorInv
<1>4. CASE hosed = "rcv"
  BY <1>1, <1>4 DEF ErrorInv
<1> QED BY <1>2, <1>3, <1>4 DEF ErrorInv

LEMMA ErrorInit == Init => ErrorInv
BY DEF Init, ErrorInv, NoneOf, NoOp, NoResult

(* A message is sent, or its sending fails.                                *)
LEMMA ErrorSent ==
  ASSUME TypeOK, ErrorInv, UNCHANGED tasks,
         op'.result.kind = "error" <=> op.result.kind = "error",
         \/ UNCHANGED <<hosed, told>>
         \/ hosed = "ok" /\ Failed
  PROVE  ErrorInv'
<1>1. NotQueued("error")
  BY DEF NotQueued
<1>2. CASE UNCHANGED <<hosed, told>>
  BY <1>1, <1>2, ErrorSame
<1>3. CASE hosed = "ok" /\ Failed
  <2>1. hosed' = "send" /\ told' = Append(told, "call")
    BY <1>3 DEF Failed
  <2>2. told = <<>> /\ NoneOf(tasks, "error") /\ op.result.kind # "error"
    BY <1>3 DEF ErrorInv
  <2>3. told' = <<"call">>
    BY <2>1, <2>2
  <2>4. NoneOf(tasks, "error")'
    BY <2>2 DEF NoneOf
  <2> QED BY <2>1, <2>2, <2>3, <2>4 DEF ErrorInv
<1> QED BY <1>2, <1>3

LEMMA ErrorSync ==
  ASSUME TypeOK, SyncInv, ErrorInv, NEW t \in User, SyncCalled(t) \/ SyncStep(t)
  PROVE  ErrorInv'
<1>1. UNCHANGED tasks
  BY DEF SyncCalled, SyncStep, SyncSends, SyncFails, SyncWakes, SyncReturns,
         workVars
<1>2. CASE SyncCalled(t) \/ SyncWakes(t)
  <2>1. UNCHANGED <<hosed, told, op>>
    BY <1>2 DEF SyncCalled, SyncWakes, coreVars, hist
  <2> QED BY <1>1, <2>1, ErrorSent
<1>3. CASE SyncSends(t) \/ SyncFails(t)
  <2>1. holder = None
    BY <1>3 DEF SyncSends, SyncFails, CanSync
  <2>2. op.result.kind # "error"
    BY <2>1 DEF SyncInv, NoHolderNoOp, NoOp, NoResult
  <2>3. op'.result.kind # "error"
    BY <1>3 DEF SyncSends, SyncFails, NewOp, NoOp, NoResult
  <2>4. UNCHANGED <<hosed, told>> \/ (hosed = "ok" /\ Failed)
    BY <1>3 DEF SyncSends, SyncFails, Sent, Refused
  <2> QED BY <1>1, <2>2, <2>3, <2>4, ErrorSent
<1>4. CASE SyncReturns(t)
  <2>1. /\ op'.result.kind = "none" /\ UNCHANGED hosed
        /\ told' = IF op.result.kind = "error"
                   THEN Append(told, "sync_request") ELSE told
    BY <1>4 DEF SyncReturns, coreVars, NoOp, NoResult
  <2>2. CASE op.result.kind # "error"
    BY <1>1, <2>1, <2>2, ErrorSent
  <2>3. CASE op.result.kind = "error"
    <3>1. hosed = "rcv" /\ told = <<>> /\ NoneOf(tasks, "error")
      BY <2>3 DEF ErrorInv
    <3>2. told' = <<"sync_request">>
      BY <2>1, <2>3, <3>1
    <3>3. Len(told') = 1
      BY <3>2
    <3>4. NoneOf(tasks, "error")'
      BY <1>1, <3>1 DEF NoneOf
    <3> QED BY <2>1, <3>1, <3>3, <3>4 DEF ErrorInv
  <2> QED BY <2>2, <2>3
<1> QED BY <1>2, <1>3, <1>4 DEF SyncStep

LEMMA ErrorRun ==
  ASSUME TypeOK, ErrorInv, NEW r \in Runner, RunError(r)
  PROVE  ErrorInv'
<1>1. tasks \in Seq(Task) /\ op \in SyncOp
  BY TypeParts DEF WorkTypes, SyncTypes
<1>2. /\ tasks # <<>> /\ Head(tasks).kind = "error" /\ tasks' = Tail(tasks)
      /\ UNCHANGED hosed
  BY DEF RunError, TakesTask, coreVars
<1>3. ~NoneOf(tasks, "error")
  <2>1. 1 \in 1..Len(tasks) /\ tasks[1] = Head(tasks)
    BY <1>1, <1>2, EmptySeq
  <2> QED BY <1>2, <2>1 DEF NoneOf
<1>4. /\ hosed = "rcv" /\ told = <<>> /\ OneOf(tasks, "error")
      /\ op.result.kind # "error"
  BY <1>3 DEF ErrorInv
<1>5. NoneOf(tasks, "error")'
  <2>1. NoneOf(Tail(tasks), "error")
    BY <1>1, <1>2, <1>4, TailSame
  <2> QED BY <1>2, <2>1 DEF NoneOf
<1>6. CASE op.on /\ op.result.kind = "none"
  <2>1. op' = [op EXCEPT !.result = Hosing] /\ UNCHANGED told
    BY <1>6 DEF RunError
  <2>2. op'.result.kind = "error"
    BY <1>1, <2>1 DEF SyncOp, Hosing
  <2> QED BY <1>2, <1>4, <1>5, <2>1, <2>2 DEF ErrorInv
<1>7. CASE ~(op.on /\ op.result.kind = "none")
  <2>1. told' = Append(told, "handler") /\ UNCHANGED op
    BY <1>7 DEF RunError
  <2>2. told' = <<"handler">>
    BY <1>4, <2>1
  <2>3. Len(told') = 1
    BY <2>2
  <2> QED BY <1>2, <1>4, <1>5, <2>1, <2>3 DEF ErrorInv
<1> QED BY <1>6, <1>7

LEMMA ErrorNext ==
  ASSUME TypeOK, SyncInv, ErrorInv, [Next]_vars PROVE ErrorInv'
<1>1. CASE \/ PeerSends \/ EndReady \/ EndSending \/ UNCHANGED vars
           \/ \E r \in Runner : RunCall(r) \/ RunEnd(r) \/ HandlerReturns(r)
           \/ DtorBegins \/ DtorStep
  <2>1. UNCHANGED <<hosed, told, op>>
    BY <1>1, QuietEffect
  <2>2. NotQueued("error")
    <3>1. CASE PeerSends \/ UNCHANGED vars \/ DtorBegins \/ DtorStep
      BY <3>1 DEF NotQueued, PeerSends, Arrives, vars, DtorBegins, DtorStep,
                  WorkerJoined, PollEnds, DtorEnds, workVars
    <3>2. CASE EndReady \/ EndSending
      BY <3>2 DEF NotQueued, EndReady, EndSending
    <3>3. CASE \E r \in Runner : RunCall(r) \/ RunEnd(r) \/ HandlerReturns(r)
      BY <3>3 DEF NotQueued, RunCall, RunEnd, HandlerReturns, TakesTask
    <3> QED BY <1>1, <3>1, <3>2, <3>3
  <2> QED BY <2>1, <2>2, ErrorSame
<1>2. CASE Read
  <2>1. CASE OnError
    <3>1. /\ hosed = "ok" /\ hosed' = "rcv" /\ UNCHANGED <<told, op>>
          /\ tasks' = Append(tasks, OtherTask("error"))
      BY <1>2, <2>1 DEF Read, OnError
    <3>2. told = <<>> /\ NoneOf(tasks, "error") /\ op.result.kind # "error"
      BY <3>1 DEF ErrorInv
    <3>3. OneOf(tasks', "error")
      <4>1. OtherTask("error") \in Task /\ OtherTask("error").kind = "error"
        BY OtherIsTask DEF OtherTask
      <4>2. tasks \in Seq(Task)
        BY TypeParts DEF WorkTypes
      <4> QED BY <3>1, <3>2, <4>1, <4>2, AppendSame
    <3>4. OneOf(tasks, "error")'
      BY <3>3 DEF OneOf
    <3> QED BY <3>1, <3>2, <3>4 DEF ErrorInv
  <2>2. CASE UNCHANGED hosed /\ (UNCHANGED tasks \/ Posts)
    <3>1. UNCHANGED told /\ (op'.result.kind = "error" <=> op.result.kind = "error")
      BY <1>2, ReadSync
    <3>2. NotQueued("error")
      BY <2>2 DEF NotQueued
    <3> QED BY <2>2, <3>1, <3>2, ErrorSame
  <2> QED BY <1>2, <2>1, <2>2, ReadEffect
<1>3. CASE StartReturns \/ UserCalls
  <2>1. ASSUME NEW mode \in DOMAIN SendApi, Send(mode) PROVE ErrorInv'
    <3>1. /\ UNCHANGED <<tasks, op>>
          /\ UNCHANGED <<hosed, told>> \/ (hosed = "ok" /\ Failed)
      BY <2>1 DEF Send, Sent, Refused, syncVars, workVars
    <3> QED BY <3>1, ErrorSent
  <2>2. CASE \/ Start \/ StartReturns \/ ExpectMsg \/ ExpectMsgs
             \/ UndoExpectMsgs
             \/ \E i \in 1..MaxReq : UndoExpectResponses(i)
             \/ \E kind \in {"unexpected", "remote_unexpected"} :
                  SetHandler(kind)
    <3>1. UNCHANGED <<hosed, told, op>> /\ NotQueued("error")
      BY <2>2, UserCallEffect DEF NotQueued
    <3> QED BY <3>1, ErrorSame
  <2> QED BY <1>1, <1>3, <2>1, <2>2 DEF UserCalls
<1>4. CASE \E t \in User : SyncCalled(t) \/ SyncStep(t)
  BY <1>4, ErrorSync
<1>5. CASE \E r \in Runner : RunError(r)
  BY <1>5, ErrorRun
<1> QED BY <1>1, <1>2, <1>3, <1>4, <1>5 DEF Next, Runs

(* The property, from where an error is.                                   *)
LEMMA ErrorInvTold == ErrorInv => ErrorToldOnce
<1> SUFFICES ASSUME ErrorInv PROVE ErrorToldOnce
  OBVIOUS
<1>1. NoneOf(tasks, "error") => Cardinality(ErrorTasks) = 0
  <2>1. NoneOf(tasks, "error") => ErrorTasks = {}
    BY DEF NoneOf, ErrorTasks
  <2> QED BY <2>1, FS_EmptySet
<1>2. OneOf(tasks, "error") => Cardinality(ErrorTasks) = 1
  <2>1. OneOf(tasks, "error") => \E n : ErrorTasks = {n}
    BY DEF OneOf, ErrorTasks
  <2> QED BY <2>1, FS_Singleton
<1>3. CASE hosed = "ok"
  BY <1>1, <1>3 DEF ErrorInv, ErrorToldOnce, ErrorLeft
<1>4. CASE hosed = "send"
  BY <1>1, <1>4 DEF ErrorInv, ErrorToldOnce, ErrorLeft
<1>5. CASE hosed = "rcv"
  <2>1. told = <<>> => Len(told) = 0
    BY EmptySeq
  <2>2. Cardinality(ErrorTasks) + ErrorLeft + Len(told) = 1
    <3>1. CASE OneOf(tasks, "error") /\ op.result.kind # "error" /\ told = <<>>
      BY <1>2, <2>1, <3>1 DEF ErrorLeft
    <3>2. CASE NoneOf(tasks, "error") /\ op.result.kind = "error" /\ told = <<>>
      BY <1>1, <2>1, <3>2 DEF ErrorLeft
    <3>3. CASE NoneOf(tasks, "error") /\ op.result.kind # "error" /\ Len(told) = 1
      BY <1>1, <3>3 DEF ErrorLeft
    <3> QED BY <1>5, <3>1, <3>2, <3>3 DEF ErrorInv
  <2> QED BY <1>5, <2>2 DEF ErrorToldOnce
<1> QED BY <1>3, <1>4, <1>5 DEF ErrorInv

-----------------------------------------------------------------------------
(* The finisher begins when W is done, and ends when nothing is left.      *)
SerialInv ==
  /\ run["finisher"] # <<>> => life = "finishing"
  /\ life \in {"finishing", "drained", "gone"} => run["W"] = <<>>
  /\ life \in {"drained", "gone"} => tasks = <<>> /\ ~starting

LEMMA SerialInit == Init => SerialInv
BY DEF Init, SerialInv, Runner

(* What runs does not change unless a runner takes a task or its handler   *)
(* returns; how far the destructor is, unless it goes on.                  *)
LEMMA RunLifeEffect ==
  ASSUME TypeOK,
         \/ PeerSends \/ Read \/ StartReturns \/ EndReady \/ UserCalls
         \/ \E t \in User : SyncCalled(t) \/ SyncStep(t)
         \/ UNCHANGED vars
  PROVE  UNCHANGED <<run, life>>
<1>1. CASE PeerSends \/ Read \/ EndReady \/ EndSending \/ UNCHANGED vars
  BY <1>1 DEF PeerSends, Arrives, Read, EndReady, EndSending, vars, workVars
<1>2. CASE StartReturns \/ UserCalls
  <2>1. ASSUME NEW mode \in DOMAIN SendApi, Send(mode)
        PROVE  UNCHANGED <<run, life>>
    BY <2>1 DEF Send, workVars
  <2> QED BY <1>1, <1>2, <2>1, UserCallEffect DEF UserCalls
<1>3. CASE \E t \in User : SyncCalled(t) \/ SyncStep(t)
  BY <1>3 DEF SyncCalled, SyncStep, SyncSends, SyncFails, SyncWakes,
              SyncReturns, workVars
<1> QED BY <1>1, <1>2, <1>3

(* Once the finisher's loop is over nothing can post a task.               *)
LEMMA DrainedStays ==
  ASSUME TypeOK, SerialInv, life \in {"drained", "gone"},
         \/ PeerSends \/ Read \/ StartReturns \/ EndReady \/ UserCalls
         \/ \E t \in User : SyncCalled(t) \/ SyncStep(t)
         \/ UNCHANGED vars
  PROVE  UNCHANGED <<tasks, starting>>
<1>1. /\ run["W"] = <<>> /\ run["finisher"] = <<>>
      /\ tasks = <<>> /\ ~starting
  BY DEF SerialInv
<1>2. ~Calling /\ \A r \in Runner : ~Idle(r)
  BY <1>1 DEF Calling, Idle, Runner
<1>3. \A call : ~CanCall(call)
  BY <1>2 DEF CanCall
<1>4. ~UserCalls
  BY <1>3 DEF UserCalls, Start, ExpectMsg, ExpectMsgs, UndoExpectMsgs,
              EndSending, UndoExpectResponses, SetHandler, Send
<1>5. ~Read /\ ~StartReturns /\ ~EndReady
  BY <1>1, <1>2 DEF Read, StartReturns, EndReady
<1>6. CASE PeerSends \/ UNCHANGED vars
  BY <1>6 DEF PeerSends, Arrives, vars, workVars
<1>7. CASE \E t \in User : SyncCalled(t) \/ SyncStep(t)
  BY <1>7 DEF SyncCalled, SyncStep, SyncSends, SyncFails, SyncWakes,
              SyncReturns, workVars
<1> QED BY <1>4, <1>5, <1>6, <1>7

LEMMA SerialNext ==
  ASSUME TypeOK, SerialInv, [Next]_vars PROVE SerialInv'
<1>1. /\ run \in [Runner -> Seq(Event)]
      /\ life \in {"up", "stopping", "finishing", "drained", "gone"}
  BY TypeParts DEF WorkTypes
<1>2. CASE \/ PeerSends \/ Read \/ StartReturns \/ EndReady \/ UserCalls
           \/ \E t \in User : SyncCalled(t) \/ SyncStep(t)
           \/ UNCHANGED vars
  <2>1. UNCHANGED <<run, life>>
    BY <1>2, RunLifeEffect
  <2>2. life \in {"drained", "gone"} => UNCHANGED <<tasks, starting>>
    BY <1>2, DrainedStays
  <2>3. life' \in {"drained", "gone"} => tasks' = <<>> /\ ~starting'
    BY <2>1, <2>2 DEF SerialInv
  <2> QED BY <2>1, <2>3 DEF SerialInv
<1>3. ASSUME NEW r \in Runner, Runs(r) PROVE SerialInv'
  <2>1. CASE HandlerReturns(r)
    <3>1. /\ run[r] # <<>> /\ run' = [run EXCEPT ![r] = Tail(@)]
          /\ UNCHANGED <<life, tasks, starting>>
      BY <2>1 DEF HandlerReturns
    <3>2. run'["finisher"] # <<>> => run["finisher"] # <<>>
      BY <1>1, <3>1 DEF Runner
    <3>3. run["W"] = <<>> => run'["W"] = <<>>
      BY <1>1, <3>1 DEF Runner
    <3> QED BY <3>1, <3>2, <3>3 DEF SerialInv
  <2>2. CASE RunCall(r) \/ RunError(r) \/ RunEnd(r)
    <3>1. Idle(r) /\ UNCHANGED <<life, starting>>
      BY <2>2 DEF RunCall, RunError, RunEnd, TakesTask
    <3>2. \A other \in Runner \ {r} : run'[other] = run[other]
      BY <1>1, <2>2 DEF RunCall, RunError, RunEnd, Calls
    <3> QED BY <3>1, <3>2 DEF SerialInv, Idle, Runner
  <2> QED BY <1>3, <2>1, <2>2 DEF Runs
<1>4. CASE DtorBegins
  BY <1>4 DEF DtorBegins, SerialInv, workVars
<1>5. CASE DtorStep
  <2>1. CASE WorkerJoined
    BY <2>1 DEF WorkerJoined, SerialInv, workVars
  <2>2. CASE PollEnds
    BY <2>2 DEF PollEnds, SerialInv, workVars, Idle, Unlocked
  <2>3. CASE DtorEnds
    BY <2>3 DEF DtorEnds, SerialInv, workVars
  <2> QED BY <1>5, <2>1, <2>2, <2>3 DEF DtorStep
<1> QED BY <1>2, <1>3, <1>4, <1>5 DEF Next

-----------------------------------------------------------------------------
(* What a runner is about to call, and what it has called.                 *)

LEMMA RunsCallInit == Init => RunsCall
BY DEF Init, RunsCall

LEMMA RunsCallNext ==
  ASSUME TypeOK, TasksCall, RunsCall, [Next]_vars PROVE RunsCall'
<1>1. run \in [Runner -> Seq(Event)] /\ tasks \in Seq(Task)
  BY TypeParts DEF WorkTypes
<1>2. CASE UNCHANGED run
  BY <1>2 DEF RunsCall
<1>3. ASSUME NEW r \in Runner, NEW evs,
             run' = [run EXCEPT ![r] = evs],
             \A n \in 2..Len(evs) : evs[n] \in MsgEvent
      PROVE  RunsCall'
  <2>1. run'[r] = evs /\ \A other \in Runner \ {r} : run'[other] = run[other]
    BY <1>1, <1>3
  <2> QED BY <1>3, <2>1 DEF RunsCall
<1>4. ASSUME NEW r \in Runner, Runs(r) PROVE RunsCall'
  <2>1. CASE RunCall(r)
    <3>1. /\ tasks # <<>> /\ Head(tasks).kind = "call"
          /\ run' = [run EXCEPT ![r] = Head(tasks).evs]
      BY <2>1 DEF RunCall, TakesTask, Calls
    <3>2. 1 \in 1..Len(tasks) /\ Head(tasks) = tasks[1]
      BY <1>1, <3>1, EmptySeq
    <3>3. Head(tasks).evs \in Seq(MsgEvent)
      BY <3>1, <3>2 DEF TasksCall
    <3>4. \A n \in 2..Len(Head(tasks).evs) : Head(tasks).evs[n] \in MsgEvent
      BY <3>3
    <3> QED BY <1>3, <3>1, <3>4
  <2>2. ASSUME NEW ev, run' = [run EXCEPT ![r] = <<ev>>] PROVE RunsCall'
    <3>1. \A n \in 2..Len(<<ev>>) : <<ev>>[n] \in MsgEvent
      OBVIOUS
    <3> QED BY <1>3, <2>2, <3>1
  <2>3. CASE RunError(r)
    BY <1>2, <2>2, <2>3 DEF RunError, Calls
  <2>4. CASE RunEnd(r)
    BY <2>2, <2>4 DEF RunEnd, Calls
  <2>5. CASE HandlerReturns(r)
    <3>1. run[r] # <<>> /\ run' = [run EXCEPT ![r] = Tail(run[r])]
      BY <1>1, <2>5 DEF HandlerReturns
    <3>2. /\ Len(run[r]) \in Nat \ {0} /\ Len(Tail(run[r])) = Len(run[r]) - 1
          /\ \A m \in 1..Len(Tail(run[r])) : Tail(run[r])[m] = run[r][m + 1]
      BY <1>1, <3>1, EmptySeq
    <3>3. \A n \in 2..Len(Tail(run[r])) : Tail(run[r])[n] \in MsgEvent
      BY <3>2 DEF RunsCall
    <3> QED BY <1>3, <3>1, <3>3
  <2> QED BY <1>4, <2>1, <2>3, <2>4, <2>5 DEF Runs
<1>5. CASE DtorBegins \/ DtorStep
  BY <1>2, <1>5 DEF DtorBegins, DtorStep, WorkerJoined, PollEnds, DtorEnds,
                    workVars
<1> QED BY <1>2, <1>4, <1>5, RunLifeEffect DEF Next

(* A step makes no call of a completion handler.                           *)
Ends == {"end", "end_aborted"}
FiredOther ==
  \/ UNCHANGED fired
  \/ \E ev \in Event : ev.kind \notin Ends /\ fired' = Append(fired, ev)

LEMMA RunsFireOther ==
  ASSUME TypeOK, TasksCall, RunsCall, NEW r \in Runner,
         RunCall(r) \/ RunError(r) \/ HandlerReturns(r)
  PROVE  FiredOther
<1>1. run \in [Runner -> Seq(Event)] /\ tasks \in Seq(Task)
  BY TypeParts DEF WorkTypes
<1>2. \A ev \in MsgEvent : ev \in Event /\ ev.kind \notin Ends
  BY DEF MsgEvent, Ends
<1>3. CASE RunCall(r)
  <2>1. /\ tasks # <<>> /\ Head(tasks).kind = "call"
        /\ fired' = Append(fired, Head(Head(tasks).evs))
    BY <1>3 DEF RunCall, TakesTask, Calls
  <2>2. 1 \in 1..Len(tasks) /\ Head(tasks) = tasks[1]
    BY <1>1, <2>1, EmptySeq
  <2>3. Head(tasks).evs \in Seq(MsgEvent) \ {<<>>}
    BY <2>1, <2>2 DEF TasksCall
  <2>4. Head(Head(tasks).evs) \in MsgEvent
    BY <2>3
  <2> QED BY <1>2, <2>1, <2>4 DEF FiredOther
<1>4. CASE RunError(r)
  <2>1. UNCHANGED fired \/ fired' = Append(fired, Head(<<Ev("error", 0)>>))
    BY <1>4 DEF RunError, Calls
  <2>2. Head(<<Ev("error", 0)>>) = Ev("error", 0)
    OBVIOUS
  <2>3. Ev("error", 0) \in Event /\ Ev("error", 0).kind \notin Ends
    BY EvIsEvent DEF Ev, Ends
  <2> QED BY <2>1, <2>2, <2>3 DEF FiredOther
<1>5. CASE HandlerReturns(r)
  <2>1. /\ run[r] # <<>>
        /\ fired' = IF Len(run[r]) = 1 THEN fired ELSE Append(fired, run[r][2])
    BY <1>5 DEF HandlerReturns
  <2>2. Len(run[r]) \in Nat \ {0}
    BY <1>1, <2>1, EmptySeq
  <2>3. Len(run[r]) # 1 => run[r][2] \in MsgEvent
    <3>1. \A n \in Nat \ {0} : n # 1 => 2 \in 2..n
      OBVIOUS
    <3> QED BY <2>2, <3>1 DEF RunsCall
  <2> QED BY <1>2, <2>1, <2>3 DEF FiredOther
<1> QED BY <1>3, <1>4, <1>5

(* The handler of the accepted async_end_sending(): not accepted yet, or   *)
(* saved, its call to be posted or posted, or called.                      *)
NoEndCall == \A n \in 1..Len(fired) : fired[n].kind \notin Ends
OneEndCall ==
  \E n \in 1..Len(fired) :
    /\ fired[n].kind \in Ends /\ fired[n].id # 0
    /\ \A m \in 1..Len(fired) : m # n => fired[m].kind \notin Ends
EndInv ==
  \/ ended = "no" /\ endFunc = 0 /\ NoneOf(tasks, "end") /\ NoEndCall
  \/ /\ ended = "waits" /\ endFunc # 0 /\ NoneOf(tasks, "end")
     /\ life # "gone" /\ NoEndCall
  \/ /\ ended = "waits" /\ endFunc # 0 /\ NoneOf(tasks, "end")
     /\ life = "gone" /\ OneEndCall
  \/ ended = "done" /\ endFunc # 0 /\ OneOf(tasks, "end") /\ NoEndCall
  \/ ended = "done" /\ endFunc = 0 /\ NoneOf(tasks, "end") /\ OneEndCall

LEMMA EndInit == Init => EndInv
BY DEF Init, EndInv, NoneOf, NoEndCall

LEMMA FiredOtherSame ==
  ASSUME TypeOK, FiredOther
  PROVE  (NoEndCall => NoEndCall') /\ (OneEndCall => OneEndCall')
<1>1. fired \in Seq(Event)
  BY TypeParts DEF WorkTypes
<1>2. CASE UNCHANGED fired
  BY <1>2 DEF NoEndCall, OneEndCall
<1>3. ASSUME NEW ev \in Event, ev.kind \notin Ends, fired' = Append(fired, ev)
      PROVE  (NoEndCall => NoEndCall') /\ (OneEndCall => OneEndCall')
  BY <1>1, <1>3 DEF NoEndCall, OneEndCall
<1> QED BY <1>2, <1>3 DEF FiredOther

(* Such a handler is called.                                               *)
LEMMA FiredEnd ==
  ASSUME TypeOK, NoEndCall, NEW ev \in Event, ev.kind \in Ends, ev.id # 0,
         fired' = Append(fired, ev)
  PROVE  OneEndCall'
<1>1. fired \in Seq(Event)
  BY TypeParts DEF WorkTypes
<1>2. /\ Len(fired') = Len(fired) + 1 /\ fired'[Len(fired) + 1] = ev
      /\ \A m \in 1..Len(fired) : fired'[m] = fired[m]
      /\ Len(fired) \in Nat
  BY <1>1
<1>3. \A m \in 1..Len(fired') : m # Len(fired) + 1 => fired'[m].kind \notin Ends
  BY <1>2 DEF NoEndCall
<1>4. Len(fired) + 1 \in 1..Len(fired')
  BY <1>2
<1> QED BY <1>2, <1>3, <1>4 DEF OneEndCall

LEMMA EndSame ==
  ASSUME TypeOK, EndInv, UNCHANGED <<ended, endFunc>>, NotQueued("end"),
         FiredOther, life' = "gone" <=> life = "gone"
  PROVE  EndInv'
<1>1. /\ NoneOf(tasks, "end") => NoneOf(tasks, "end")'
      /\ OneOf(tasks, "end") => OneOf(tasks, "end")'
  BY NotQueuedSame
<1>2. (NoEndCall => NoEndCall') /\ (OneEndCall => OneEndCall')
  BY FiredOtherSame
<1>3. CASE ended = "no"
  BY <1>1, <1>2, <1>3 DEF EndInv
<1>4. CASE ended = "waits"
  BY <1>1, <1>2, <1>4 DEF EndInv
<1>5. CASE ended = "done"
  BY <1>1, <1>2, <1>5 DEF EndInv
<1> QED BY <1>3, <1>4, <1>5 DEF EndInv

(* The end of sending is posted.                                           *)
LEMMA EndPosted ==
  ASSUME TypeOK, NoneOf(tasks, "end"),
         tasks' = Append(tasks, OtherTask("end"))
  PROVE  OneOf(tasks, "end")'
<1>1. OtherTask("end") \in Task /\ OtherTask("end").kind = "end"
  BY OtherIsTask DEF OtherTask
<1>2. tasks \in Seq(Task)
  BY TypeParts DEF WorkTypes
<1>3. OneOf(tasks', "end")
  BY <1>1, <1>2, AppendSame
<1> QED BY <1>3 DEF OneOf

LEMMA EndSendingEnd ==
  ASSUME TypeOK, SerialInv, EndInv, EndSending PROVE EndInv'
<1>1. life # "gone"
  <2>1. life = "gone" => run["W"] = <<>> /\ run["finisher"] = <<>>
    BY DEF SerialInv
  <2>2. life = "gone" => ~Calling
    BY <2>1 DEF Calling, Runner
  <2> QED BY <2>2 DEF EndSending, CanCall
<1>2. nEnd \in Nat /\ UNCHANGED <<fired, life>>
  BY TypeParts DEF EndSending, WorkTypes, hist
<1>3. (NoEndCall => NoEndCall') /\ (OneEndCall => OneEndCall')
  BY <1>2 DEF NoEndCall, OneEndCall
<1>4. CASE UNCHANGED <<endFunc, ended, tasks>>
  <2>1. NotQueued("end") /\ FiredOther
    BY <1>2, <1>4 DEF NotQueued, FiredOther
  <2> QED BY <1>2, <1>4, <2>1, EndSame
<1>5. ASSUME endFunc = 0, ended = "no", endFunc' = nEnd + 1,
             \/ ended' = "waits" /\ UNCHANGED tasks
             \/ ended' = "done" /\ tasks' = Append(tasks, OtherTask("end"))
      PROVE  EndInv'
  <2>1. NoneOf(tasks, "end") /\ NoEndCall
    BY <1>5 DEF EndInv
  <2>2. CASE ended' = "waits" /\ UNCHANGED tasks
    <3>1. NoneOf(tasks, "end")'
      BY <2>1, <2>2 DEF NoneOf
    <3> QED BY <1>1, <1>2, <1>3, <1>5, <2>1, <2>2, <3>1 DEF EndInv
  <2>3. CASE ended' = "done" /\ tasks' = Append(tasks, OtherTask("end"))
    <3>1. OneOf(tasks, "end")'
      BY <2>1, <2>3, EndPosted
    <3> QED BY <1>2, <1>3, <1>5, <2>1, <2>3, <3>1 DEF EndInv
  <2> QED BY <1>5, <2>2, <2>3
<1> QED BY <1>4, <1>5 DEF EndSending

LEMMA EndReadyEnd ==
  ASSUME TypeOK, EndInv, EndReady PROVE EndInv'
<1>1. /\ ended = "waits" /\ ended' = "done" /\ UNCHANGED <<endFunc, fired>>
      /\ tasks' = Append(tasks, OtherTask("end"))
  BY DEF EndReady, endVars, hist
<1>2. life # "gone"
  BY DEF EndReady, Idle
<1>3. endFunc # 0 /\ NoneOf(tasks, "end") /\ NoEndCall
  BY <1>1, <1>2 DEF EndInv
<1>4. OneOf(tasks, "end")'
  BY <1>1, <1>3, EndPosted
<1>5. NoEndCall'
  BY <1>1, <1>3 DEF NoEndCall
<1> QED BY <1>1, <1>3, <1>4, <1>5 DEF EndInv

LEMMA RunEndEnd ==
  ASSUME TypeOK, EndInv, NEW r \in Runner, RunEnd(r) PROVE EndInv'
<1>1. tasks \in Seq(Task) /\ endFunc \in Nat
  BY TypeParts DEF WorkTypes
<1>2. /\ tasks # <<>> /\ Head(tasks).kind = "end" /\ tasks' = Tail(tasks)
      /\ UNCHANGED ended /\ endFunc' = 0
      /\ fired' = Append(fired, Head(<<Ev("end", endFunc)>>))
  BY DEF RunEnd, TakesTask, Calls, coreVars
<1>3. ~NoneOf(tasks, "end")
  <2>1. 1 \in 1..Len(tasks) /\ tasks[1] = Head(tasks)
    BY <1>1, <1>2, EmptySeq
  <2> QED BY <1>2, <2>1 DEF NoneOf
<1>4. ended = "done" /\ endFunc # 0 /\ OneOf(tasks, "end") /\ NoEndCall
  BY <1>3 DEF EndInv
<1>5. NoneOf(tasks, "end")'
  <2>1. NoneOf(Tail(tasks), "end")
    BY <1>1, <1>2, <1>4, TailSame
  <2> QED BY <1>2, <2>1 DEF NoneOf
<1>6. OneEndCall'
  <2>1. Head(<<Ev("end", endFunc)>>) = Ev("end", endFunc)
    OBVIOUS
  <2>2. /\ Ev("end", endFunc) \in Event /\ Ev("end", endFunc).kind \in Ends
        /\ Ev("end", endFunc).id = endFunc
    BY <1>1, EvIsEvent DEF Ev, Ends
  <2> QED BY <1>2, <1>4, <2>1, <2>2, FiredEnd
<1> QED BY <1>2, <1>4, <1>5, <1>6 DEF EndInv

LEMMA DtorEndsEnd ==
  ASSUME TypeOK, SerialInv, EndInv, DtorEnds PROVE EndInv'
<1>1. /\ life = "drained" /\ life' = "gone"
      /\ UNCHANGED <<ended, endFunc, tasks>>
      /\ fired' = IF endFunc = 0 THEN fired
                  ELSE Append(fired, Ev("end_aborted", endFunc))
  BY DEF DtorEnds, coreVars, endVars, workVars
<1>2. tasks = <<>>
  BY <1>1 DEF SerialInv
<1>3. ~OneOf(tasks, "end") /\ NoneOf(tasks, "end")'
  BY <1>1, <1>2 DEF OneOf, NoneOf
<1>4. CASE endFunc = 0
  <2>1. (NoEndCall => NoEndCall') /\ (OneEndCall => OneEndCall')
    BY <1>1, <1>4 DEF NoEndCall, OneEndCall
  <2> QED BY <1>1, <1>3, <1>4, <2>1 DEF EndInv
<1>5. CASE endFunc # 0
  <2>1. ended = "waits" /\ NoEndCall
    BY <1>1, <1>3, <1>5 DEF EndInv
  <2>2. endFunc \in Nat
    BY TypeParts DEF WorkTypes
  <2>3. /\ Ev("end_aborted", endFunc) \in Event
        /\ Ev("end_aborted", endFunc).kind \in Ends
        /\ Ev("end_aborted", endFunc).id = endFunc
    BY <2>2, EvIsEvent DEF Ev, Ends
  <2>4. OneEndCall'
    BY <1>1, <1>5, <2>1, <2>3, FiredEnd
  <2> QED BY <1>1, <1>3, <1>5, <2>1, <2>4 DEF EndInv
<1> QED BY <1>4, <1>5

LEMMA EndNext ==
  ASSUME TypeOK, TasksCall, RunsCall, SerialInv, EndInv, [Next]_vars
  PROVE  EndInv'
<1>1. CASE \/ PeerSends \/ Read \/ StartReturns
           \/ UserCalls /\ ~EndSending
           \/ \E t \in User : SyncCalled(t) \/ SyncStep(t)
           \/ UNCHANGED vars
  <2>1. UNCHANGED <<ended, endFunc, fired>> /\ NotQueued("end")
    <3>1. CASE PeerSends \/ UNCHANGED vars
      BY <3>1 DEF PeerSends, Arrives, vars, coreVars, endVars, workVars, hist,
                  NotQueued
    <3>2. CASE Read
      <4>1. NotQueued("end") /\ UNCHANGED fired
        BY <3>2, ReadEffect DEF NotQueued, OnError
      <4> QED BY <3>2, <4>1 DEF Read, endVars
    <3>3. CASE StartReturns \/ (UserCalls /\ ~EndSending)
      <4>1. ASSUME NEW mode \in DOMAIN SendApi, Send(mode)
            PROVE  UNCHANGED <<ended, endFunc, fired, tasks>>
        BY <4>1 DEF Send, endVars, workVars
      <4> QED BY <3>3, <4>1, UserCallEffect DEF UserCalls, NotQueued
    <3>4. CASE \E t \in User : SyncCalled(t) \/ SyncStep(t)
      BY <3>4 DEF SyncCalled, SyncStep, SyncSends, SyncFails, SyncWakes,
                  SyncReturns, coreVars, endVars, workVars, hist, NotQueued
    <3> QED BY <1>1, <3>1, <3>2, <3>3, <3>4
  <2>2. UNCHANGED life
    BY <1>1, RunLifeEffect
  <2>3. FiredOther
    BY <2>1 DEF FiredOther
  <2> QED BY <2>1, <2>2, <2>3, EndSame
<1>2. ASSUME NEW r \in Runner, Runs(r) PROVE EndInv'
  <2>1. CASE RunCall(r) \/ RunError(r) \/ HandlerReturns(r)
    <3>1. FiredOther
      BY <2>1, RunsFireOther
    <3>2. UNCHANGED <<ended, endFunc, life>> /\ NotQueued("end")
      BY <2>1 DEF RunCall, RunError, HandlerReturns, TakesTask, coreVars,
                  endVars, NotQueued
    <3> QED BY <3>1, <3>2, EndSame
  <2> QED BY <1>2, <2>1, RunEndEnd DEF Runs
<1>3. CASE DtorBegins \/ WorkerJoined \/ PollEnds
  <2>1. /\ UNCHANGED <<ended, endFunc, fired, tasks>>
        /\ life # "gone" /\ life' # "gone"
    BY <1>3 DEF DtorBegins, WorkerJoined, PollEnds, coreVars, endVars,
                workVars, hist, Idle
  <2>2. NotQueued("end") /\ FiredOther
    BY <2>1 DEF NotQueued, FiredOther
  <2> QED BY <2>1, <2>2, EndSame
<1> QED BY <1>1, <1>2, <1>3, EndSendingEnd, EndReadyEnd, DtorEndsEnd
        DEF Next, DtorStep, UserCalls

(* The property, from where the handler is.                                *)
LEMMA EndInvCalled == SerialInv /\ EndInv => EndSendingCalledOnce
<1> SUFFICES ASSUME SerialInv, EndInv PROVE EndSendingCalledOnce
  OBVIOUS
<1>1. NoEndCall => EndCalls = {} /\ Cardinality(EndCalls) = 0
  <2>1. NoEndCall => EndCalls = {}
    BY DEF NoEndCall, EndCalls, Ends
  <2> QED BY <2>1, FS_EmptySet
<1>2. OneEndCall =>
        Cardinality(EndCalls) = 1 /\ \A n \in EndCalls : fired[n].id # 0
  <2>1. OneEndCall => /\ \E n : EndCalls = {n}
                      /\ \A n \in EndCalls : fired[n].id # 0
    BY DEF OneEndCall, EndCalls, Ends
  <2> QED BY <2>1, FS_Singleton
<1>3. CASE ended = "no"
  BY <1>1, <1>3 DEF EndInv, EndSendingCalledOnce
<1>4. CASE ended = "waits"
  BY <1>1, <1>2, <1>4 DEF EndInv, EndSendingCalledOnce
<1>5. CASE ended = "done"
  <2>1. life = "gone" => ~OneOf(tasks, "end")
    BY DEF SerialInv, OneOf
  <2> QED BY <1>1, <1>2, <1>5, <2>1 DEF EndInv, EndSendingCalledOnce
<1> QED BY <1>3, <1>4, <1>5 DEF EndInv

-----------------------------------------------------------------------------
(* The handler calls that were decided upon are laid out, from the first:  *)
(* those made, those a runner has left, those of the tasks posted.         *)
MsgsOf(s)  == {n \in 1..Len(s) : s[n].kind \notin {"error", "end", "end_aborted"}}
UpTo(s, n) == {m \in MsgsOf(s) : m <= n}

(* Those made, in f, are the first of e, one by one.                       *)
Made(f, e) == \A n \in MsgsOf(f) : LET nth == Cardinality(UpTo(f, n))
                                   IN  nth <= Len(e) /\ f[n] = e[nth]

(* A runner with the calls s, the first of them made, is to go on with     *)
(* those of e behind the first c.                                          *)
GoesOn(s, e, c) == \A i \in 2..Len(s) : /\ c + (i - 1) \in 1..Len(e)
                                        /\ s[i] = e[c + (i - 1)]
Left(s) == IF s = <<>> THEN 0 ELSE Len(s) - 1

(* The calls of the tasks t are those of e behind the first k; those of    *)
(* task n begin behind the first pos[n].                                   *)
Laid(pos, t, e, k) ==
  /\ pos[1] = k /\ pos[Len(t) + 1] = Len(e)
  /\ \A n \in 1..Len(t) :
       /\ pos[n + 1] = pos[n] + Len(t[n].evs)
       /\ \A i \in 1..Len(t[n].evs) : t[n].evs[i] = e[pos[n] + i]
InLine(t, e, k) ==
  \E pos \in [1..(Len(t) + 1) -> 0..Len(e)] : Laid(pos, t, e, k)

Line(f, s, t, e) ==
  LET c == Cardinality(MsgsOf(f))
  IN  Made(f, e) /\ GoesOn(s, e, c) /\ InLine(t, e, c + Left(s))

(* What is called now; by SerialInv one runner at most is calling.         *)
Running == IF run["W"] # <<>> THEN run["W"] ELSE run["finisher"]

LineInv ==
  /\ Line(fired, Running, tasks, emitted)
  /\ \A n \in 1..Len(tasks) : tasks[n].kind # "call" => tasks[n].evs = <<>>

LEMMA CountOfCalls ==
  ASSUME NEW s \in Seq(Event)
  PROVE  IsFiniteSet(MsgsOf(s)) /\ Cardinality(MsgsOf(s)) \in Nat
<1>1. MsgsOf(s) \subseteq 1..Len(s) /\ Len(s) \in Nat
  BY DEF MsgsOf
<1>2. IsFiniteSet(1..Len(s))
  BY <1>1, FS_Interval
<1> QED BY <1>1, <1>2, FS_Subset, FS_CardinalityType

LEMMA CallsOfAppend ==
  ASSUME NEW s \in Seq(Event), NEW ev \in Event
  PROVE  /\ \A n \in MsgsOf(s) : /\ Append(s, ev)[n] = s[n]
                                 /\ UpTo(Append(s, ev), n) = UpTo(s, n)
         /\ ev \notin MsgEvent => MsgsOf(Append(s, ev)) = MsgsOf(s)
         /\ ev \in MsgEvent =>
              /\ MsgsOf(Append(s, ev)) = MsgsOf(s) \cup {Len(s) + 1}
              /\ Cardinality(MsgsOf(Append(s, ev))) = Cardinality(MsgsOf(s)) + 1
              /\ UpTo(Append(s, ev), Len(s) + 1) = MsgsOf(Append(s, ev))
              /\ Append(s, ev)[Len(s) + 1] = ev
<1> DEFINE t == Append(s, ev)
           l == Len(s)
<1>1. /\ l \in Nat /\ Len(t) = l + 1 /\ t[l + 1] = ev
      /\ \A n \in 1..l : t[n] = s[n]
  BY AppendProperties
<1>2. 1..Len(t) = 1..l \cup {l + 1} /\ l + 1 \notin 1..l
  BY <1>1
<1>3. ev \in MsgEvent <=> ev.kind \notin {"error", "end", "end_aborted"}
  BY DEF MsgEvent
<1> HIDE DEF t, l
<1>4. MsgsOf(s) \subseteq 1..l /\ MsgsOf(t) \subseteq 1..Len(t)
  BY DEF MsgsOf, l
<1>5. MsgsOf(t) = MsgsOf(s) \cup IF ev \in MsgEvent THEN {l + 1} ELSE {}
  BY <1>1, <1>2, <1>3 DEF MsgsOf, l
<1>6. IsFiniteSet(MsgsOf(s)) /\ Cardinality(MsgsOf(s)) \in Nat
  BY CountOfCalls
<1>7. \A n \in MsgsOf(s) : t[n] = s[n] /\ UpTo(t, n) = UpTo(s, n)
  <2> TAKE n \in MsgsOf(s)
  <2>1. n \in 1..l /\ ~(l + 1 <= n)
    BY <1>1, <1>4
  <2> QED BY <1>1, <1>5, <2>1 DEF UpTo
<1>8. ASSUME ev \in MsgEvent
      PROVE  /\ MsgsOf(t) = MsgsOf(s) \cup {l + 1}
             /\ Cardinality(MsgsOf(t)) = Cardinality(MsgsOf(s)) + 1
             /\ UpTo(t, l + 1) = MsgsOf(t)
             /\ t[l + 1] = ev
  <2>1. MsgsOf(t) = MsgsOf(s) \cup {l + 1}
    BY <1>5, <1>8
  <2>2. l + 1 \notin MsgsOf(s)
    BY <1>2, <1>4
  <2>3. Cardinality(MsgsOf(t)) = Cardinality(MsgsOf(s)) + 1
    BY <1>6, <2>1, <2>2, FS_AddElement
  <2>4. \A m \in MsgsOf(t) : m <= l + 1
    BY <1>1, <1>4
  <2> QED BY <1>1, <2>1, <2>3, <2>4 DEF UpTo
<1> QED BY <1>5, <1>6, <1>7, <1>8 DEF t, l

LEMMA MadeMore ==
  ASSUME NEW f \in Seq(Event), NEW e \in Seq(Event), NEW ev \in Event, Made(f, e),
         ev \in MsgEvent =>
           /\ Cardinality(MsgsOf(f)) + 1 \in 1..Len(e)
           /\ ev = e[Cardinality(MsgsOf(f)) + 1]
  PROVE  Made(Append(f, ev), e)
<1> DEFINE g == Append(f, ev)
<1>1. /\ \A n \in MsgsOf(f) : g[n] = f[n] /\ UpTo(g, n) = UpTo(f, n)
      /\ ev \notin MsgEvent => MsgsOf(g) = MsgsOf(f)
      /\ ev \in MsgEvent =>
           /\ MsgsOf(g) = MsgsOf(f) \cup {Len(f) + 1}
           /\ Cardinality(MsgsOf(g)) = Cardinality(MsgsOf(f)) + 1
           /\ UpTo(g, Len(f) + 1) = MsgsOf(g)
           /\ g[Len(f) + 1] = ev
  BY CallsOfAppend
<1> HIDE DEF g
<1>2. \A n \in MsgsOf(f) :
        Cardinality(UpTo(g, n)) <= Len(e) /\ g[n] = e[Cardinality(UpTo(g, n))]
  BY <1>1 DEF Made
<1>3. ASSUME ev \in MsgEvent
      PROVE  \A n \in MsgsOf(g) : /\ Cardinality(UpTo(g, n)) <= Len(e)
                                  /\ g[n] = e[Cardinality(UpTo(g, n))]
  <2>1. Cardinality(UpTo(g, Len(f) + 1)) = Cardinality(MsgsOf(f)) + 1
    BY <1>1, <1>3
  <2>2. /\ Cardinality(UpTo(g, Len(f) + 1)) <= Len(e)
        /\ g[Len(f) + 1] = e[Cardinality(UpTo(g, Len(f) + 1))]
    BY <1>1, <1>3, <2>1
  <2> QED BY <1>1, <1>2, <1>3, <2>2
<1>4. ASSUME ev \notin MsgEvent
      PROVE  \A n \in MsgsOf(g) : /\ Cardinality(UpTo(g, n)) <= Len(e)
                                  /\ g[n] = e[Cardinality(UpTo(g, n))]
  BY <1>1, <1>2, <1>4
<1>5. \A n \in MsgsOf(g) :
        Cardinality(UpTo(g, n)) <= Len(e) /\ g[n] = e[Cardinality(UpTo(g, n))]
  BY <1>3, <1>4
<1> QED BY <1>5 DEF g, Made

(* Further calls are decided upon, and what posts them, if any.            *)
LEMMA LineGrows ==
  ASSUME NEW f \in Seq(Event), NEW s \in Seq(Event), NEW t \in Seq(Task),
         NEW e \in Seq(Event), NEW x \in Task, Line(f, s, t, e)
  PROVE  Line(f, s, Append(t, x), e \o x.evs)
<1> DEFINE c == Cardinality(MsgsOf(f))
           k == c + Left(s)
           d == e \o x.evs
           u == Append(t, x)
           l == Len(t)
<1>1. x.evs \in Seq(Event)
  BY DEF Task
<1>2. /\ Len(e) \in Nat /\ Len(x.evs) \in Nat /\ Len(d) = Len(e) + Len(x.evs)
      /\ \A i \in 1..Len(e) : d[i] = e[i]
      /\ \A i \in 1..Len(x.evs) : d[Len(e) + i] = x.evs[i]
  BY <1>1, ConcatProperties
<1>3. /\ l \in Nat /\ Len(u) = l + 1 /\ u[l + 1] = x
      /\ \A n \in 1..l : u[n] = t[n]
  BY AppendProperties
<1>4. c \in Nat /\ Made(f, e) /\ GoesOn(s, e, c) /\ InLine(t, e, k)
  BY CountOfCalls DEF Line
<1> HIDE DEF c, k, d, u
<1>5. Made(f, d)
  <2> SUFFICES ASSUME NEW n \in MsgsOf(f)
               PROVE  /\ Cardinality(UpTo(f, n)) <= Len(d)
                      /\ f[n] = d[Cardinality(UpTo(f, n))]
    BY DEF Made
  <2>1. /\ Cardinality(UpTo(f, n)) <= Len(e)
        /\ f[n] = e[Cardinality(UpTo(f, n))]
    BY <1>4 DEF Made
  <2>2. Cardinality(UpTo(f, n)) \in Nat \ {0}
    <3>1. Len(f) \in Nat /\ n \in 1..Len(f) /\ n \in UpTo(f, n)
      BY DEF MsgsOf, UpTo
    <3>2. IsFiniteSet(1..Len(f)) /\ UpTo(f, n) \subseteq 1..Len(f)
      BY <3>1, FS_Interval DEF MsgsOf, UpTo
    <3>3. IsFiniteSet(UpTo(f, n))
      BY <3>2, FS_Subset
    <3>4. Cardinality(UpTo(f, n)) # 0
      BY <3>1, <3>3, FS_EmptySet
    <3> QED BY <3>3, <3>4, FS_CardinalityType
  <2> QED BY <1>2, <2>1, <2>2
<1>6. GoesOn(s, d, c)
  <2> SUFFICES ASSUME NEW i \in 2..Len(s)
               PROVE  c + (i - 1) \in 1..Len(d) /\ s[i] = d[c + (i - 1)]
    BY DEF GoesOn
  <2>1. c + (i - 1) \in 1..Len(e) /\ s[i] = e[c + (i - 1)]
    BY <1>4 DEF GoesOn
  <2> QED BY <1>2, <2>1
<1>7. InLine(u, d, k)
  <2>1. PICK pos \in [1..(l + 1) -> 0..Len(e)] : Laid(pos, t, e, k)
    BY <1>4 DEF InLine
  <2> DEFINE q == [n \in 1..(Len(u) + 1) |-> IF n <= l + 1 THEN pos[n] ELSE Len(d)]
  <2>2. \A n \in 1..(l + 1) : pos[n] \in 0..Len(e) /\ n \in 1..(Len(u) + 1) /\ n <= l + 1
    BY <1>3
  <2>3. /\ \A n \in 1..(l + 1) : q[n] = pos[n]
        /\ q[Len(u) + 1] = Len(d)
    BY <1>3, <2>2
  <2>4. q \in [1..(Len(u) + 1) -> 0..Len(d)]
    BY <1>2, <1>3, <2>2
  <2> HIDE DEF q
  <2>5. q[1] = k
    BY <1>3, <2>1, <2>3 DEF Laid
  <2>6. ASSUME NEW n \in 1..Len(u)
        PROVE  /\ q[n + 1] = q[n] + Len(u[n].evs)
               /\ \A i \in 1..Len(u[n].evs) : u[n].evs[i] = d[q[n] + i]
    <3>1. CASE n = l + 1
      <4>1. q[n] = Len(e) /\ u[n] = x /\ q[n + 1] = Len(d)
        BY <1>3, <2>1, <2>3, <3>1 DEF Laid
      <4> QED BY <1>2, <4>1
    <3>2. CASE n # l + 1
      <4>1. n \in 1..l /\ n \in 1..(l + 1) /\ n + 1 \in 1..(l + 1)
        BY <1>3, <3>2
      <4>2. u[n] = t[n] /\ q[n] = pos[n] /\ q[n + 1] = pos[n + 1]
        BY <1>3, <2>3, <4>1
      <4>3. /\ pos[n + 1] = pos[n] + Len(t[n].evs)
            /\ \A i \in 1..Len(t[n].evs) : t[n].evs[i] = e[pos[n] + i]
        BY <2>1, <4>1 DEF Laid
      <4>4. pos[n] \in Nat /\ pos[n + 1] <= Len(e) /\ Len(t[n].evs) \in Nat
        <5>1. t[n] \in Task
          BY <4>1, ElementOfSeq
        <5> QED BY <1>2, <2>2, <4>1, <5>1 DEF Task
      <4>5. ASSUME NEW i \in 1..Len(t[n].evs) PROVE pos[n] + i \in 1..Len(e)
        <5> DEFINE a == pos[n]
                   b == Len(t[n].evs)
        <5>1. a \in Nat /\ b \in Nat /\ a + b <= Len(e) /\ i \in 1..b
          BY <4>3, <4>4
        <5> HIDE DEF a, b
        <5>2. a + i \in 1..Len(e)
          BY <1>2, <5>1
        <5> QED BY <5>2 DEF a
      <4> QED BY <1>2, <4>2, <4>3, <4>5
    <3> QED BY <3>1, <3>2
  <2>7. Laid(q, u, d, k)
    BY <2>3, <2>5, <2>6 DEF Laid
  <2> QED BY <2>4, <2>7 DEF InLine
<1> QED BY <1>5, <1>6, <1>7 DEF Line, c, k, d, u

(* The first task is taken: its calls are the next of those decided upon.  *)
LEMMA FirstInLine ==
  ASSUME NEW t \in Seq(Task), t # <<>>, NEW e \in Seq(Event), NEW k \in Nat,
         InLine(t, e, k)
  PROVE  /\ Head(t).evs \in Seq(Event) /\ Tail(t) \in Seq(Task)
         /\ InLine(Tail(t), e, k + Len(Head(t).evs))
         /\ \A i \in 1..Len(Head(t).evs) :
              k + i \in 1..Len(e) /\ Head(t).evs[i] = e[k + i]
<1> DEFINE u == Tail(t)
           h == Head(t)
           l == Len(t)
           a == Len(h.evs)
<1>1. /\ l \in Nat \ {0} /\ u \in Seq(Task) /\ Len(u) = l - 1 /\ h = t[1]
      /\ \A n \in 1..(l - 1) : u[n] = t[n + 1]
  BY EmptySeq
<1>2. h \in Task /\ Len(e) \in Nat
  OBVIOUS
<1>3. h.evs \in Seq(Event)
  BY <1>2 DEF Task
<1>4. a \in Nat
  BY <1>3
<1>5. PICK pos \in [1..(l + 1) -> 0..Len(e)] : Laid(pos, t, e, k)
  BY DEF InLine
<1> HIDE DEF u, h, l, a
<1>6. /\ pos[1] = k /\ pos[l + 1] = Len(e) /\ pos[2] = k + a
      /\ \A i \in 1..a : h.evs[i] = e[k + i]
  <2>1. /\ pos[1] = k /\ pos[l + 1] = Len(e)
        /\ \A n \in 1..l :
             /\ pos[n + 1] = pos[n] + Len(t[n].evs)
             /\ \A i \in 1..Len(t[n].evs) : t[n].evs[i] = e[pos[n] + i]
    BY <1>5 DEF Laid, l
  <2>2. 1 \in 1..l /\ 1 + 1 = 2
    BY <1>1
  <2>3. pos[2] = k + Len(t[1].evs)
    BY <2>1, <2>2
  <2> QED BY <1>1, <2>1, <2>2, <2>3 DEF a
<1>7. k + a <= Len(e)
  <2>1. 2 \in 1..(l + 1)
    BY <1>1
  <2>2. pos[2] \in 0..Len(e)
    BY <2>1, <1>5
  <2> QED BY <1>2, <1>6, <2>2
<1> DEFINE q == [n \in 1..(Len(u) + 1) |-> pos[n + 1]]
<1>8. \A n \in 1..l : n \in 1..(Len(u) + 1) /\ n + 1 \in 1..(l + 1)
  BY <1>1
<1>9. \A n \in 1..l : q[n] = pos[n + 1]
  BY <1>8
<1>10. q \in [1..(Len(u) + 1) -> 0..Len(e)]
  BY <1>1, <1>5
<1> HIDE DEF q
<1>11. q[1] = k + a /\ q[Len(u) + 1] = Len(e)
  BY <1>1, <1>6, <1>9
<1>12. ASSUME NEW n \in 1..Len(u)
       PROVE  /\ q[n + 1] = q[n] + Len(u[n].evs)
              /\ \A i \in 1..Len(u[n].evs) : u[n].evs[i] = e[q[n] + i]
  <2>1. n \in 1..(l - 1) /\ n \in 1..l /\ n + 1 \in 1..l
    BY <1>1
  <2>2. u[n] = t[n + 1] /\ q[n] = pos[n + 1] /\ q[n + 1] = pos[(n + 1) + 1]
    BY <1>1, <1>9, <2>1
  <2>3. /\ pos[(n + 1) + 1] = pos[n + 1] + Len(t[n + 1].evs)
        /\ \A i \in 1..Len(t[n + 1].evs) : t[n + 1].evs[i] = e[pos[n + 1] + i]
    BY <1>5, <2>1 DEF Laid, l
  <2> QED BY <2>2, <2>3
<1>13. InLine(u, e, k + a)
  <2>1. Laid(q, u, e, k + a)
    BY <1>11, <1>12 DEF Laid
  <2> QED BY <1>10, <2>1 DEF InLine
<1>14. \A i \in 1..a : k + i \in 1..Len(e)
  BY <1>2, <1>4, <1>7
<1> QED BY <1>1, <1>3, <1>6, <1>13, <1>14 DEF u, h, a

LEMMA LineTakes ==
  ASSUME NEW f \in Seq(Event), NEW t \in Seq(Task), t # <<>>, NEW e \in Seq(Event),
         Line(f, <<>>, t, e)
  PROVE  LET evs == Head(t).evs
         IN  /\ evs \in Seq(MsgEvent) \ {<<>>} =>
                  Line(Append(f, Head(evs)), evs, Tail(t), e)
             /\ evs = <<>> =>
                  /\ Line(f, <<>>, Tail(t), e)
                  /\ \A ev \in Event \ MsgEvent :
                       Line(Append(f, ev), <<ev>>, Tail(t), e)
<1> DEFINE c == Cardinality(MsgsOf(f))
           evs == Head(t).evs
           u == Tail(t)
<1>1. c \in Nat /\ Made(f, e) /\ Left(<<>>) = 0 /\ InLine(t, e, c)
  BY CountOfCalls DEF Line, Left
<1>2. /\ evs \in Seq(Event)
      /\ InLine(u, e, c + Len(evs))
      /\ \A i \in 1..Len(evs) : c + i \in 1..Len(e) /\ evs[i] = e[c + i]
  BY <1>1, FirstInLine
<1>3. Len(evs) \in Nat
  BY <1>2
<1> HIDE DEF u, evs
<1>4. ASSUME evs \in Seq(MsgEvent) \ {<<>>}
      PROVE  Line(Append(f, Head(evs)), evs, u, e)
  <2> DEFINE g == Append(f, Head(evs))
  <2>1. 1 \in 1..Len(evs) /\ Head(evs) = evs[1] /\ Head(evs) \in MsgEvent
    BY <1>4, EmptySeq
  <2>2. Head(evs) \in Event
    BY <2>1 DEF MsgEvent
  <2>3. Cardinality(MsgsOf(g)) = c + 1
    BY <2>1, <2>2, CallsOfAppend
  <2>4. c + 1 \in 1..Len(e) /\ Head(evs) = e[c + 1]
    BY <1>2, <2>1
  <2>5. Made(g, e)
    BY <1>1, <2>2, <2>4, MadeMore
  <2> HIDE DEF g
  <2>6. GoesOn(evs, e, c + 1)
    <3>1. ASSUME NEW i \in 2..Len(evs) PROVE i \in 1..Len(evs) /\ c + 1 + (i - 1) = c + i
      BY <1>1, <1>3
    <3> QED BY <1>2, <3>1 DEF GoesOn
  <2>7. (c + 1) + Left(evs) = c + Len(evs)
    BY <1>1, <1>3, <1>4 DEF Left
  <2>8. InLine(u, e, (c + 1) + Left(evs))
    BY <1>2, <2>7
  <2>9. Line(g, evs, u, e)
    BY <2>3, <2>5, <2>6, <2>8 DEF Line
  <2> QED BY <2>9 DEF g
<1>5. ASSUME evs = <<>> PROVE InLine(u, e, c)
  <2>1. c + Len(evs) = c
    BY <1>1, <1>5, EmptySeq
  <2> QED BY <1>2, <2>1
<1>6. ASSUME evs = <<>> PROVE Line(f, <<>>, u, e)
  <2>1. GoesOn(<<>>, e, c) /\ c + 0 = c
    BY <1>1 DEF GoesOn
  <2> QED BY <1>1, <1>5, <1>6, <2>1 DEF Line
<1>7. ASSUME evs = <<>>, NEW ev \in Event \ MsgEvent
      PROVE  Line(Append(f, ev), <<ev>>, u, e)
  <2>1. MsgsOf(Append(f, ev)) = MsgsOf(f)
    BY CallsOfAppend
  <2>2. Made(Append(f, ev), e)
    BY <1>1, MadeMore
  <2>3. GoesOn(<<ev>>, e, c) /\ Left(<<ev>>) = 0
    <3>1. Len(<<ev>>) = 1 /\ <<ev>> # <<>>
      OBVIOUS
    <3> QED BY <3>1 DEF GoesOn, Left
  <2>4. c + 0 = c
    BY <1>1
  <2> QED BY <1>5, <1>7, <2>1, <2>2, <2>3, <2>4 DEF Line
<1> QED BY <1>4, <1>6, <1>7 DEF u, evs

(* A handler returns and the next call of its task is made.                *)
LEMMA LineReturns ==
  ASSUME NEW f \in Seq(Event), NEW s \in Seq(Event), s # <<>>, NEW t \in Seq(Task),
         NEW e \in Seq(Event), Line(f, s, t, e),
         \A n \in 2..Len(s) : s[n] \in MsgEvent
  PROVE  Line(IF Len(s) = 1 THEN f ELSE Append(f, s[2]), Tail(s), t, e)
<1> DEFINE c == Cardinality(MsgsOf(f))
           r == Tail(s)
           l == Len(s)
<1>1. /\ c \in Nat /\ Made(f, e) /\ GoesOn(s, e, c) /\ InLine(t, e, c + Left(s))
  BY CountOfCalls DEF Line
<1>2. /\ l \in Nat \ {0} /\ r \in Seq(Event) /\ Len(r) = l - 1
      /\ \A n \in 1..(l - 1) : r[n] = s[n + 1]
  BY EmptySeq
<1>3. Left(s) = l - 1
  BY DEF Left
<1> HIDE DEF r
<1>4. CASE l = 1
  <2>1. r = <<>>
    BY <1>2, <1>4, EmptySeq
  <2>2. Left(r) = 0 /\ Left(s) = 0 /\ GoesOn(r, e, c)
    <3>1. Len(r) = 0
      BY <1>2, <1>4
    <3> QED BY <1>3, <1>4, <2>1, <3>1 DEF Left, GoesOn
  <2>3. Line(f, r, t, e)
    BY <1>1, <2>2 DEF Line
  <2> QED BY <1>4, <2>3 DEF r
<1>5. CASE l # 1
  <2> DEFINE g == Append(f, s[2])
  <2>1. 2 \in 2..l /\ Len(r) # 0
    BY <1>2, <1>5
  <2>2. s[2] \in MsgEvent /\ s[2] \in Event
    BY <2>1 DEF MsgEvent
  <2>3. Cardinality(MsgsOf(g)) = c + 1
    BY <2>2, CallsOfAppend
  <2>4. c + 1 \in 1..Len(e) /\ s[2] = e[c + 1]
    <3>1. c + (2 - 1) = c + 1
      BY <1>1
    <3> QED BY <1>1, <2>1, <3>1 DEF GoesOn
  <2>5. Made(g, e)
    BY <1>1, <2>2, <2>4, MadeMore
  <2> HIDE DEF g
  <2>6. GoesOn(r, e, c + 1)
    <3> SUFFICES ASSUME NEW i \in 2..Len(r)
                 PROVE  (c + 1) + (i - 1) \in 1..Len(e) /\ r[i] = e[(c + 1) + (i - 1)]
      BY DEF GoesOn
    <3>1. /\ i + 1 \in 2..l /\ i \in 1..(l - 1)
          /\ (c + 1) + (i - 1) = c + ((i + 1) - 1)
      BY <1>1, <1>2
    <3> QED BY <1>1, <1>2, <3>1 DEF GoesOn
  <2>7. (c + 1) + Left(r) = c + Left(s)
    <3>1. r # <<>>
      BY <2>1, EmptySeq
    <3>2. Left(r) = l - 2
      BY <1>2, <3>1 DEF Left
    <3> QED BY <1>1, <1>2, <1>3, <3>2
  <2>8. Line(g, r, t, e)
    BY <1>1, <2>3, <2>5, <2>6, <2>7 DEF Line
  <2> QED BY <1>5, <2>8 DEF r, g
<1> QED BY <1>4, <1>5

LEMMA LineOther ==
  ASSUME NEW f \in Seq(Event), NEW s, NEW t, NEW e \in Seq(Event), Line(f, s, t, e),
         NEW ev \in Event \ MsgEvent
  PROVE  Line(Append(f, ev), s, t, e)
<1>1. MsgsOf(Append(f, ev)) = MsgsOf(f)
  BY CallsOfAppend
<1>2. Made(Append(f, ev), e)
  BY MadeMore DEF Line
<1> QED BY <1>1, <1>2 DEF Line

(* A step decides upon calls, or puts what is no handler call in line.     *)
Queues ==
  \/ UNCHANGED <<tasks, emitted>>
  \/ \E x \in Task : /\ x.kind # "call" => x.evs = <<>>
                     /\ tasks' = Append(tasks, x) /\ emitted' = emitted \o x.evs

LEMMA EmitsQueues ==
  ASSUME emitted \in Seq(Event), NEW ev \in MsgEvent, Emits(ev) PROVE Queues
<1> DEFINE x == CallTask(<<ev>>)
<1>1. x \in Task /\ x.evs = <<ev>> /\ x.kind = "call"
  <2>1. <<ev>> \in Seq(Event)
    BY DEF MsgEvent
  <2> QED BY <2>1, CallIsTask DEF CallTask
<1>2. Append(emitted, ev) = emitted \o <<ev>>
  <2>1. ev \in Event
    BY DEF MsgEvent
  <2> QED BY <2>1, AppendIsConcat
<1>3. tasks' = Append(tasks, x) /\ emitted' = emitted \o x.evs
  BY <1>1, <1>2 DEF Emits
<1> HIDE DEF x
<1> QED BY <1>1, <1>3 DEF Queues

LEMMA OtherQueues ==
  ASSUME emitted \in Seq(Event), NEW kind \in {"error", "end"},
         tasks' = Append(tasks, OtherTask(kind)), emitted' = emitted
  PROVE  Queues
<1> DEFINE x == OtherTask(kind)
<1>1. x \in Task /\ x.evs = <<>>
  BY OtherIsTask DEF OtherTask
<1>2. emitted \o <<>> = emitted
  BY ConcatEmptySeq
<1> HIDE DEF x
<1> QED BY <1>1, <1>2 DEF Queues, x

LEMMA ReadQueues ==
  ASSUME TypeOK, Read PROVE Queues /\ UNCHANGED <<run, fired>>
<1> DEFINE item == Head(wire)
<1>1. item \in Item /\ emitted \in Seq(Event)
  BY TypeParts DEF Read, CoreTypes, WorkTypes
<1>2. item.id \in Nat
  BY <1>1 DEF Item
<1>3. \A kind \in {"msg", "rsp", "unexpected", "remote_unexpected"} :
        Emits(Ev(kind, item.id)) => Queues
  BY <1>1, <1>2, EvIsMsgEvent, EmitsQueues
<1>4. UNCHANGED <<run, fired>>
  BY ReadEffect DEF Read
<1> HIDE DEF item
<1>5. CASE item.kind = "note"
  <2>1. OnNote(item.id)
    BY <1>5 DEF Read, item
  <2> QED BY <1>3, <1>4, <2>1 DEF OnNote, Queues
<1>6. CASE item.kind = "rsp"
  <2>1. OnResponse(item.id)
    BY <1>6 DEF Read, item
  <2> QED BY <1>3, <1>4, <2>1
          DEF OnResponse, OnSyncResponse, OnAsyncResponse, OnUnexpected, Queues
<1>7. CASE item.kind = "fail"
  <2>1. OnError
    BY <1>7 DEF Read, item
  <2> QED BY <1>1, <1>4, <2>1, OtherQueues DEF OnError
<1>8. CASE item.kind = "remote_unexpected"
  <2>1. OnUnexpected("remote_unexpected", item.id)
    BY <1>8 DEF Read, item
  <2> QED BY <1>3, <1>4, <2>1 DEF OnUnexpected, Queues
<1> QED BY <1>1, <1>5, <1>6, <1>7, <1>8 DEF Item

LEMMA CallQueues ==
  ASSUME TypeOK, UserCalls \/ StartReturns \/ EndReady
  PROVE  Queues /\ UNCHANGED <<run, fired>>
<1>1. emitted \in Seq(Event) /\ waiting \in Seq(Nat)
  BY TypeParts DEF WorkTypes, CoreTypes
<1>2. CASE Start \/ StartReturns \/ UndoExpectMsgs
  BY <1>2 DEF Start, StartReturns, UndoExpectMsgs, workVars, hist, Queues
<1>3. CASE ExpectMsg
  <2>1. UNCHANGED <<run, fired>>
    BY <1>3 DEF ExpectMsg
  <2>2. CASE waiting = <<>>
    BY <1>3, <2>1, <2>2 DEF ExpectMsg, Queues
  <2>3. CASE waiting # <<>>
    <3>1. Head(waiting) \in Nat
      BY <1>1, <2>3
    <3>2. Emits(Ev("msg", Head(waiting)))
      BY <1>3, <2>3 DEF ExpectMsg
    <3>3. Queues
      BY <1>1, <3>1, <3>2, EvIsMsgEvent, EmitsQueues
    <3> QED BY <2>1, <3>3
  <2> QED BY <2>2, <2>3
<1>4. CASE ExpectMsgs
  <2> DEFINE evs == [i \in 1..Len(waiting) |-> Ev("msg", waiting[i])]
             x == CallTask(evs)
  <2>1. evs \in Seq(MsgEvent)
    BY <1>1, EvsAreEvents
  <2>2. /\ tasks' = IF evs = <<>> THEN tasks ELSE Append(tasks, x)
        /\ emitted' = emitted \o evs /\ UNCHANGED <<run, fired>>
    BY <1>4 DEF ExpectMsgs
  <2>3. x \in Task /\ x.evs = evs /\ x.kind = "call"
    <3>1. evs \in Seq(Event)
      BY <2>1, SeqMonotonic DEF MsgEvent
    <3> HIDE DEF evs
    <3> QED BY <3>1, CallIsTask DEF CallTask
  <2>4. emitted \o <<>> = emitted
    BY <1>1, ConcatEmptySeq
  <2> HIDE DEF evs, x
  <2> QED BY <2>2, <2>3, <2>4 DEF Queues
<1>5. CASE EndSending \/ EndReady
  <2>1. UNCHANGED <<run, emitted, fired>>
    BY <1>5 DEF EndSending, EndReady, hist
  <2>2. UNCHANGED tasks \/ tasks' = Append(tasks, OtherTask("end"))
    BY <1>5 DEF EndSending, EndReady
  <2> QED BY <1>1, <2>1, <2>2, OtherQueues DEF Queues
<1>6. ASSUME NEW i \in 1..MaxReq, UndoExpectResponses(i)
      PROVE  Queues /\ UNCHANGED <<run, fired>>
  BY <1>6 DEF UndoExpectResponses, workVars, hist, Queues
<1>7. ASSUME NEW kind, SetHandler(kind) PROVE Queues /\ UNCHANGED <<run, fired>>
  BY <1>7 DEF SetHandler, workVars, hist, Queues
<1>8. ASSUME NEW mode \in DOMAIN SendApi, Send(mode)
      PROVE  Queues /\ UNCHANGED <<run, fired>>
  BY <1>8 DEF Send, workVars, Queues
<1> QED BY <1>2, <1>3, <1>4, <1>5, <1>6, <1>7, <1>8 DEF UserCalls

LEMMA LineInit == Init => LineInv
<1> SUFFICES ASSUME Init PROVE LineInv
  OBVIOUS
<1>1. tasks = <<>> /\ emitted = <<>> /\ fired = <<>> /\ Running = <<>>
  BY DEF Init, Running, Runner
<1>2. MsgsOf(<<>>) = {} /\ Cardinality({}) = 0
  BY FS_EmptySet DEF MsgsOf
<1>3. Made(<<>>, <<>>) /\ GoesOn(<<>>, <<>>, 0) /\ Left(<<>>) = 0
  BY <1>2 DEF Made, GoesOn, Left
<1>4. InLine(<<>>, <<>>, 0)
  <2> DEFINE pos == [n \in 1..1 |-> 0]
  <2>1. Len(<<>>) + 1 = 1 /\ Len(<<>>) = 0
    OBVIOUS
  <2>2. pos \in [1..(Len(<<>>) + 1) -> 0..Len(<<>>)]
    BY <2>1
  <2>3. Laid(pos, <<>>, <<>>, 0)
    BY <2>1 DEF Laid
  <2> QED BY <2>2, <2>3 DEF InLine
<1>5. Line(<<>>, <<>>, <<>>, <<>>)
  <2>1. 0 + Left(<<>>) = 0
    BY <1>3
  <2> QED BY <1>2, <1>3, <1>4, <2>1 DEF Line
<1> QED BY <1>1, <1>5 DEF LineInv

LEMMA LineNext ==
  ASSUME TypeOK, TasksCall, RunsCall, SerialInv, LineInv, [Next]_vars
  PROVE  LineInv'
<1>1. /\ tasks \in Seq(Task) /\ run \in [Runner -> Seq(Event)]
      /\ emitted \in Seq(Event) /\ fired \in Seq(Event) /\ Len(tasks) \in Nat
  BY TypeParts DEF WorkTypes
<1>2. Running \in Seq(Event)
  BY <1>1 DEF Running, Runner
<1> DEFINE Bare(t) == \A n \in 1..Len(t) : t[n].kind # "call" => t[n].evs = <<>>
<1>3. Line(fired, Running, tasks, emitted) /\ Bare(tasks)
  BY DEF LineInv
<1>4. ASSUME Line(fired', Running', tasks', emitted'), Bare(tasks') PROVE LineInv'
  BY <1>4 DEF LineInv
<1>5. run' = run => Running' = Running
  BY DEF Running
<1> HIDE DEF Bare
<1>6. CASE UNCHANGED <<tasks, emitted, run, fired>>
  BY <1>3, <1>4, <1>5, <1>6
<1>7. CASE Queues /\ UNCHANGED <<run, fired>>
  <2>1. CASE UNCHANGED <<tasks, emitted>>
    BY <1>6, <1>7, <2>1
  <2>2. ASSUME NEW x \in Task, x.kind # "call" => x.evs = <<>>,
               tasks' = Append(tasks, x), emitted' = emitted \o x.evs
        PROVE  LineInv'
    <3>1. Line(fired, Running, Append(tasks, x), emitted \o x.evs)
      BY <1>1, <1>2, <1>3, LineGrows
    <3>2. /\ Len(Append(tasks, x)) = Len(tasks) + 1
          /\ Append(tasks, x)[Len(tasks) + 1] = x
          /\ \A n \in 1..Len(tasks) : Append(tasks, x)[n] = tasks[n]
      BY <1>1, AppendProperties
    <3>3. Bare(Append(tasks, x))
      BY <1>1, <1>3, <2>2, <3>2 DEF Bare
    <3> QED BY <1>4, <1>5, <1>7, <2>2, <3>1, <3>3
  <2> QED BY <1>7, <2>1, <2>2 DEF Queues
<1>8. ASSUME NEW r \in Runner, Runs(r) PROVE LineInv'
  <2>1. ASSUME NEW evs, run' = [run EXCEPT ![r] = evs],
               \A o \in Runner \ {r} : run[o] = <<>>
        PROVE  Running' = evs
    <3>1. run'[r] = evs /\ \A o \in Runner \ {r} : run'[o] = <<>>
      BY <1>1, <2>1
    <3>2. CASE r = "W"
      BY <3>1, <3>2 DEF Running, Runner
    <3>3. CASE r = "finisher"
      BY <3>1, <3>3 DEF Running, Runner
    <3> QED BY <3>2, <3>3 DEF Runner
  <2>2. CASE HandlerReturns(r)
    <3>1. /\ run[r] # <<>> /\ run' = [run EXCEPT ![r] = Tail(run[r])]
          /\ fired' = IF Len(run[r]) = 1 THEN fired ELSE Append(fired, run[r][2])
          /\ UNCHANGED <<tasks, emitted>>
      BY <1>1, <2>2 DEF HandlerReturns
    <3>2. \A o \in Runner \ {r} : run[o] = <<>>
      BY <3>1 DEF SerialInv, Runner
    <3>3. Running = run[r] /\ Running' = Tail(run[r])
      BY <2>1, <3>1, <3>2 DEF Running, Runner
    <3>4. \A n \in 2..Len(run[r]) : run[r][n] \in MsgEvent
      BY DEF RunsCall
    <3>5. Line(fired', Running', tasks, emitted)
      BY <1>1, <1>2, <1>3, <3>1, <3>3, <3>4, LineReturns
    <3> QED BY <1>3, <1>4, <3>1, <3>5
  <2>3. CASE RunCall(r) \/ RunError(r) \/ RunEnd(r)
    <3>1. /\ Idle(r) /\ tasks # <<>> /\ tasks' = Tail(tasks) /\ UNCHANGED emitted
      BY <2>3 DEF RunCall, RunError, RunEnd, TakesTask
    <3>2. /\ run[r] = <<>> /\ \A o \in Runner \ {r} : run[o] = <<>>
          /\ Running = <<>>
      BY <3>1 DEF Idle, SerialInv, Runner, Running
    <3>3. /\ 1 \in 1..Len(tasks) /\ Head(tasks) = tasks[1]
          /\ Len(Tail(tasks)) = Len(tasks) - 1
          /\ \A n \in 1..(Len(tasks) - 1) : Tail(tasks)[n] = tasks[n + 1]
      BY <1>1, <3>1, EmptySeq
    <3>4. Bare(tasks')
      BY <1>1, <1>3, <3>1, <3>3 DEF Bare
    <3>5. LET evs == Head(tasks).evs
          IN  /\ evs \in Seq(MsgEvent) \ {<<>>} =>
                   Line(Append(fired, Head(evs)), evs, tasks', emitted)
              /\ evs = <<>> =>
                   /\ Line(fired, <<>>, tasks', emitted)
                   /\ \A ev \in Event \ MsgEvent :
                        Line(Append(fired, ev), <<ev>>, tasks', emitted)
      BY <1>1, <1>3, <3>1, <3>2, LineTakes
    <3>6. CASE RunCall(r)
      <4>1. Head(tasks).kind = "call" /\ Calls(r, Head(tasks).evs)
        BY <3>6 DEF RunCall, TakesTask
      <4>2. Head(tasks).evs \in Seq(MsgEvent) \ {<<>>}
        BY <3>3, <4>1 DEF TasksCall
      <4>3. Running' = Head(tasks).evs
        BY <2>1, <3>2, <4>1 DEF Calls
      <4> QED BY <1>4, <3>1, <3>4, <3>5, <4>1, <4>2, <4>3 DEF Calls
    <3>7. ASSUME NEW ev \in Event \ MsgEvent, Head(tasks).kind # "call",
                 Calls(r, <<ev>>)
          PROVE  LineInv'
      <4>1. Head(tasks).evs = <<>>
        BY <1>3, <3>3, <3>7 DEF Bare
      <4>2. Running' = <<ev>> /\ fired' = Append(fired, ev)
        <5>1. Head(<<ev>>) = ev
          OBVIOUS
        <5> QED BY <2>1, <3>2, <3>7, <5>1 DEF Calls
      <4> QED BY <1>4, <3>1, <3>4, <3>5, <4>1, <4>2
    <3>8. CASE RunError(r)
      <4>1. Head(tasks).kind # "call"
        BY <3>8 DEF RunError, TakesTask
      <4>2. CASE UNCHANGED <<run, fired>>
        <5>1. Head(tasks).evs = <<>>
          BY <1>3, <3>3, <4>1 DEF Bare
        <5> QED BY <1>4, <1>5, <3>1, <3>2, <3>4, <3>5, <4>2, <5>1
      <4>3. Ev("error", 0) \in Event \ MsgEvent
        BY EvIsEvent DEF Ev, MsgEvent
      <4> QED BY <3>7, <3>8, <4>1, <4>2, <4>3 DEF RunError
    <3>9. CASE RunEnd(r)
      <4>1. Head(tasks).kind # "call" /\ Calls(r, <<Ev("end", endFunc)>>)
        BY <3>9 DEF RunEnd, TakesTask
      <4>2. endFunc \in Nat
        BY TypeParts DEF WorkTypes
      <4>3. Ev("end", endFunc) \in Event \ MsgEvent
        BY <4>2, EvIsEvent DEF Ev, MsgEvent
      <4> QED BY <3>7, <4>1, <4>3
    <3> QED BY <2>3, <3>6, <3>8, <3>9
  <2> QED BY <1>8, <2>2, <2>3 DEF Runs
<1>9. CASE PeerSends \/ DtorBegins \/ WorkerJoined \/ PollEnds \/ UNCHANGED vars
  BY <1>6, <1>9 DEF PeerSends, Arrives, DtorBegins, WorkerJoined, PollEnds, vars,
                    workVars, hist
<1>10. CASE \E t \in User : SyncCalled(t) \/ SyncStep(t)
  BY <1>6, <1>10 DEF SyncCalled, SyncStep, SyncSends, SyncFails, SyncWakes,
                     SyncReturns, workVars, hist
<1>11. CASE DtorEnds
  <2>1. UNCHANGED <<run, tasks, emitted>>
    BY <1>11 DEF DtorEnds, workVars
  <2>2. CASE UNCHANGED fired
    BY <1>6, <2>1, <2>2
  <2>3. CASE fired' = Append(fired, Ev("end_aborted", endFunc))
    <3>1. endFunc \in Nat
      BY TypeParts DEF WorkTypes
    <3>2. Ev("end_aborted", endFunc) \in Event \ MsgEvent
      BY <3>1, EvIsEvent DEF Ev, MsgEvent
    <3>3. Line(fired', Running, tasks, emitted)
      BY <1>1, <1>3, <2>3, <3>2, LineOther
    <3> QED BY <1>3, <1>4, <1>5, <2>1, <3>3
  <2> QED BY <1>11, <2>2, <2>3 DEF DtorEnds
<1> QED BY <1>7, <1>8, <1>9, <1>10, <1>11, ReadQueues, CallQueues
        DEF Next, DtorStep

LEMMA LineInvInOrder ==
  ASSUME TypeOK, SerialInv, LineInv PROVE HandlersInOrder
<1>1. MsgCalls = MsgsOf(fired)
  BY DEF MsgCalls, MsgsOf
<1>2. \A n \in MsgCalls : LET nth == Cardinality({m \in MsgCalls : m <= n})
                          IN  nth <= Len(emitted) /\ fired[n] = emitted[nth]
  BY <1>1 DEF LineInv, Line, Made, UpTo
<1>3. ASSUME life = "gone" PROVE Cardinality(MsgCalls) = Len(emitted)
  <2> DEFINE c == Cardinality(MsgsOf(fired))
  <2>1. tasks = <<>> /\ Running = <<>>
    BY <1>3 DEF SerialInv, Running
  <2>2. c \in Nat
    BY CountOfCalls, TypeParts DEF WorkTypes
  <2> HIDE DEF c
  <2>3. InLine(<<>>, emitted, c)
    <3>1. Left(<<>>) = 0 /\ c + 0 = c
      BY <2>2 DEF Left
    <3> QED BY <2>1, <3>1 DEF LineInv, Line, c
  <2>4. Len(<<>>) + 1 = 1
    OBVIOUS
  <2>5. c = Len(emitted)
    BY <2>3, <2>4 DEF InLine, Laid
  <2> QED BY <1>1, <2>5 DEF c
<1> QED BY <1>2, <1>3 DEF HandlersInOrder

-----------------------------------------------------------------------------
(* The inductive invariant.                                                *)
IInv == /\ TypeOK /\ TasksCall /\ RunsCall
        /\ SyncInv /\ ErrorInv /\ SerialInv /\ EndInv /\ LineInv

LEMMA Inductive == Spec => []IInv
<1>1. Init => IInv
  <2>1. Init => TasksCall
    BY DEF Init, TasksCall
  <2> QED BY <2>1, TypeInit, RunsCallInit, SyncInit, ErrorInit, SerialInit,
             EndInit, LineInit DEF IInv
<1>2. IInv /\ [Next]_vars => IInv'
  BY TypeStep, TasksCallStep, RunsCallNext, SyncNext, ErrorNext, SerialNext,
     EndNext, LineNext DEF IInv
<1> QED BY <1>1, <1>2, PTL DEF Spec

(* Every variable keeps its type, whoever calls what and when.             *)
THEOREM TypeCorrect == Spec => []TypeOK
<1>1. IInv => TypeOK
  BY DEF IInv
<1> QED BY <1>1, Inductive, PTL

(* "Report a channel-hosing error exactly once (if ever)": whatever the    *)
(* order in which W, the threads in sync_request() and the destructor run. *)
THEOREM ErrorToldOnceAlways == Spec => []ErrorToldOnce
<1>1. IInv => ErrorToldOnce
  BY ErrorInvTold DEF IInv
<1> QED BY <1>1, Inductive, PTL

(* sync_request() returns no response but the one to its own request,      *)
(* however many have timed out before and whenever their responses come.   *)
THEOREM OwnAnswerAlways == Spec => []OwnAnswer
<1>1. IInv => OwnAnswer
  BY DEF IInv, SyncInv
<1> QED BY <1>1, Inductive, PTL

(* Thread W and the destructor's finisher never run handlers at a time.    *)
THEOREM HandlersSerialAlways == Spec => []HandlersSerial
<1>1. IInv => HandlersSerial
  BY DEF IInv, SerialInv, HandlersSerial
<1> QED BY <1>1, Inductive, PTL

(* The handlers of in-messages are called in the order they were decided   *)
(* upon, each once, the destructor having called those that were left.     *)
THEOREM HandlersInOrderAlways == Spec => []HandlersInOrder
<1>1. IInv => HandlersInOrder
  BY LineInvInOrder DEF IInv
<1> QED BY <1>1, Inductive, PTL

(* The completion handler that async_end_sending() saved is called once,   *)
(* by W, by the finisher or, as aborted, by the destructor.                *)
THEOREM EndSendingCalledOnceAlways == Spec => []EndSendingCalledOnce
<1>1. IInv => EndSendingCalledOnce
  BY EndInvCalled DEF IInv
<1> QED BY <1>1, Inductive, PTL

-----------------------------------------------------------------------------
(* The channel implements RequestReply.                                    *)
Asking == {req[t] : t \in {u \in User : holder = u}}
Trouble == IF hosed = "ok" THEN "none"
           ELSE IF told = <<>> THEN "due" ELSE "told"

LEMMA AskingIs ==
  ASSUME TypeOK
  PROVE  /\ holder = None => Asking = {}
         /\ holder # None => holder \in User /\ Asking = {req[holder]}
<1>1. holder \in User \cup {None} /\ None \notin User
  BY ConstantsAssumption, TypeParts DEF SyncTypes
<1> QED BY <1>1 DEF Asking

LEMMA ReplyStays ==
  ASSUME UNCHANGED <<hosed, told, holder, req, answer>>
  PROVE  UNCHANGED Reply!vars
BY DEF Reply!vars

LEMMA ReplyFails ==
  ASSUME hosed = "ok", Failed, TypeOK, UNCHANGED <<holder, req, answer>>
  PROVE  Reply!ErrorOccurs
<1>1. hosed' = "send" /\ told' = Append(told, "call")
  BY DEF Failed
<1>2. told' # <<>>
  <2>1. told \in Seq({"call", "sync_request", "handler"})
    BY TypeParts DEF WorkTypes
  <2>2. Len(told') = Len(told) + 1 /\ Len(told) \in Nat
    BY <1>1, <2>1
  <2> QED BY <2>2, EmptySeq
<1>3. hosed' # "ok"
  BY <1>1
<1> HIDE DEF Failed
<1> QED BY <1>2, <1>3 DEF Reply!ErrorOccurs

LEMMA ReplyInit == Init => Reply!Init
<1> SUFFICES ASSUME Init PROVE Reply!Init
  OBVIOUS
<1>1. {req[t] : t \in {u \in User : holder = u}} = {}
  BY ConstantsAssumption DEF Init
<1> QED BY <1>1 DEF Init, Reply!Init, NoOutcome, Reply!Open

LEMMA ReplySync ==
  ASSUME IInv, IInv', NEW t \in User, SyncCalled(t) \/ SyncStep(t)
  PROVE  Reply!Next \/ UNCHANGED Reply!vars
<1>1. /\ TypeOK /\ TypeOK' /\ SyncInv /\ ErrorInv
      /\ answer \in [1..MaxReq -> Outcome] /\ req \in [User -> Nat]
      /\ sndNext \in Nat \ {0}
  BY TypeParts DEF IInv, SyncTypes, CoreTypes
<1>2. CASE SyncCalled(t) \/ SyncWakes(t)
  BY <1>2, ReplyStays DEF SyncCalled, SyncWakes, coreVars, hist
<1>3. CASE SyncSends(t)
  <2>1. /\ holder = None /\ hosed = "ok" /\ UNCHANGED <<hosed, told>>
        /\ sndNext <= MaxReq /\ holder' = t
        /\ req' = [req EXCEPT ![t] = sndNext]
        /\ answer' = [answer EXCEPT ![sndNext] = Asked]
    BY <1>3 DEF SyncSends, CanSync, Registers, Sent
  <2>2. sndNext \in 1..MaxReq
    BY <1>1, <2>1, ConstantsAssumption
  <2>3. answer[sndNext] = NoOutcome
    BY <1>1, <2>2 DEF SyncInv, UnsentOpen
  <2>4. Asking = {}
    BY <1>1, <2>1, AskingIs
  <2>5. Asking' = {sndNext}
    BY <1>1, <2>1, ConstantsAssumption DEF Asking
  <2>6. PICK i \in 1..MaxReq : i = sndNext
    BY <2>2
  <2>7. Reply!Ask(i)
    BY <2>1, <2>3, <2>4, <2>5, <2>6
       DEF Reply!Ask, Reply!Open, Reply!Waiting, NoOutcome, Asked, Asking
  <2> QED BY <2>7 DEF Reply!Next
<1>4. CASE SyncFails(t)
  <2>1. UNCHANGED <<holder, req, answer>>
    BY <1>4 DEF SyncFails
  <2>2. UNCHANGED <<hosed, told>> \/ (hosed = "ok" /\ Failed)
    BY <1>4 DEF SyncFails, Refused
  <2> QED BY <1>1, <2>1, <2>2, ReplyStays, ReplyFails DEF Reply!Next
<1>5. CASE SyncReturns(t)
  <2>1. /\ pc[t] = "woken" /\ UNCHANGED <<hosed, req>> /\ holder' = None
        /\ answer' = [answer EXCEPT ![req[t]] =
                        IF op.result.kind = "none" THEN TimedOut ELSE op.result]
        /\ told' = IF op.result.kind = "error"
                   THEN Append(told, "sync_request") ELSE told
    BY <1>5 DEF SyncReturns, coreVars
  <2>2. holder = t /\ holder # None
    BY <1>1, <2>1, ConstantsAssumption DEF SyncInv, HolderWaits
  <2>3. /\ req[t] \in 1..MaxReq /\ answer[req[t]] = Asked
        /\ op.result \in {NoResult, Hosing, Response(req[t])}
    BY <1>1, <2>2 DEF SyncInv, OpOfHolder
  <2>4. PICK i \in 1..MaxReq : i = req[t] /\ Asking = {i}
    BY <1>1, <2>2, <2>3, AskingIs
  <2>5. Asking' = {}
    BY <1>1, <2>1, ConstantsAssumption DEF Asking
  <2>6. CASE op.result = Hosing
    <3>1. /\ answer' = [answer EXCEPT ![req[t]] = Hosing]
          /\ told' = Append(told, "sync_request")
      BY <2>1, <2>6 DEF Hosing
    <3>2. hosed = "rcv" /\ told = <<>>
      BY <1>1, <2>6 DEF ErrorInv, Hosing
    <3>3. told' # <<>>
      BY <3>1, <3>2
    <3>4. Reply!EndInError(i)
      BY <2>1, <2>3, <2>4, <2>5, <3>1, <3>2, <3>3
         DEF Reply!EndInError, Reply!Waiting, Asked, Hosing, Asking
    <3> QED BY <3>4 DEF Reply!Next
  <2>7. CASE op.result # Hosing
    <3>1. UNCHANGED told
      BY <2>1, <2>3, <2>7 DEF NoResult, Response
    <3>2. PICK e \in Reply!Ending(i) :
            answer' = [answer EXCEPT ![req[t]] = e]
      <4>1. CASE op.result = NoResult
        <5>1. answer' = [answer EXCEPT ![req[t]] = TimedOut]
          BY <2>1, <4>1 DEF NoResult
        <5>2. TimedOut \in Reply!Ending(i)
          BY DEF TimedOut, Reply!Ending
        <5> QED BY <5>1, <5>2, Zenon
      <4>2. CASE op.result = Response(req[t])
        <5>1. answer' = [answer EXCEPT ![req[t]] = Response(req[t])]
          BY <2>1, <4>2 DEF Response
        <5>2. Response(req[t]) \in Reply!Ending(i)
          BY <2>4 DEF Response, Reply!Ending
        <5> QED BY <5>1, <5>2, Zenon
      <4> QED BY <2>3, <2>7, <4>1, <4>2
    <3>3. Reply!End(i)
      BY <2>1, <2>3, <2>4, <2>5, <3>1, <3>2
         DEF Reply!End, Reply!Waiting, Asked, Asking
    <3> QED BY <3>3 DEF Reply!Next
  <2> QED BY <2>6, <2>7
<1> QED BY <1>2, <1>3, <1>4, <1>5 DEF SyncStep

LEMMA ReplyNext ==
  ASSUME IInv, IInv', [Next]_vars
  PROVE  Reply!Next \/ UNCHANGED Reply!vars
<1>1. TypeOK /\ SyncInv /\ ErrorInv
  BY DEF IInv
<1>2. CASE \/ PeerSends \/ EndReady \/ EndSending \/ UNCHANGED vars
           \/ \E r \in Runner : RunCall(r) \/ RunEnd(r) \/ HandlerReturns(r)
           \/ DtorBegins \/ DtorStep
  <2>1. UNCHANGED <<hosed, told, holder, req, answer>>
    BY <1>1, <1>2, QuietEffect
  <2> QED BY <2>1, ReplyStays
<1>3. CASE Read
  <2>1. UNCHANGED <<told, holder, req, answer>>
    BY <1>1, <1>3, ReadSync
  <2>2. CASE OnError
    <3>1. hosed = "ok" /\ hosed' = "rcv"
      BY <1>3, <2>2 DEF Read, OnError
    <3>2. told = <<>>
      BY <1>1, <3>1 DEF ErrorInv
    <3>3. Reply!ErrorOccurs
      BY <2>1, <3>1, <3>2 DEF Reply!ErrorOccurs
    <3> QED BY <3>3 DEF Reply!Next
  <2>3. CASE UNCHANGED hosed
    BY <2>1, <2>3, ReplyStays
  <2> QED BY <1>1, <1>3, <2>2, <2>3, ReadEffect
<1>4. CASE StartReturns \/ UserCalls
  <2>1. ASSUME NEW mode \in DOMAIN SendApi, Send(mode)
        PROVE  Reply!Next \/ UNCHANGED Reply!vars
    <3>1. /\ UNCHANGED <<holder, req, answer>>
          /\ UNCHANGED <<hosed, told>> \/ (hosed = "ok" /\ Failed)
      BY <2>1 DEF Send, Sent, Refused, syncVars
    <3> QED BY <1>1, <3>1, ReplyStays, ReplyFails DEF Reply!Next
  <2> QED BY <1>1, <1>2, <1>4, <2>1, UserCallEffect, ReplyStays DEF UserCalls
<1>5. CASE \E t \in User : SyncCalled(t) \/ SyncStep(t)
  BY <1>5, ReplySync
<1>6. ASSUME NEW r \in Runner, RunError(r)
      PROVE  Reply!Next \/ UNCHANGED Reply!vars
  <2>1. UNCHANGED <<hosed, holder, req, answer>>
    BY <1>6 DEF RunError, coreVars
  <2>2. CASE UNCHANGED told
    BY <2>1, <2>2, ReplyStays
  <2>3. CASE told' = Append(told, "handler")
    <3>1. tasks # <<>> /\ Head(tasks).kind = "error" /\ tasks \in Seq(Task)
      BY <1>1, <1>6, TypeParts DEF RunError, TakesTask, WorkTypes
    <3>2. 1 \in 1..Len(tasks) /\ tasks[1] = Head(tasks)
      BY <3>1, EmptySeq
    <3>3. hosed = "rcv" /\ told = <<>>
      BY <1>1, <3>1, <3>2 DEF ErrorInv, NoneOf
    <3>4. told' # <<>>
      BY <2>3, <3>3
    <3>5. Reply!TellHandler
      BY <2>1, <3>3, <3>4 DEF Reply!TellHandler
    <3> QED BY <3>5 DEF Reply!Next
  <2> QED BY <1>6, <2>2, <2>3 DEF RunError
<1> QED BY <1>2, <1>3, <1>4, <1>5, <1>6 DEF Next, Runs

(* sync_request() and the error reports do what RequestReply promises:     *)
(* requests one at a time, each with one end of its own, and an error      *)
(* told once to whom it is due.                                            *)
THEOREM Implements == Spec => ImplementsRequestReply
<1>1. IInv /\ IInv' /\ [Next]_vars => [Reply!Next]_(Reply!vars)
  BY ReplyNext
<1> QED BY <1>1, ReplyInit, Inductive, PTL
        DEF Spec, ImplementsRequestReply, Reply!Spec

=============================================================================
