------------------------ MODULE StructChannel_proofs ------------------------
(***************************************************************************)
(* Proofs, for every number of messages, of union values and of tokens and *)
(* for one pipe or two, of what StructChannelProps states.                 *)
(***************************************************************************)
EXTENDS StructChannelProps, SequenceTheorems, TLAPS

(* The peers face each other.                                              *)
LEMMA OtherPeer ==
  \A p \in Peer : Other(p) \in Peer /\ Other(p) # p
<1>1. \E q \in Peer : q # "cli" BY DEF Peer
<1>2. \E q \in Peer : q # "srv" BY DEF Peer
<1> QED BY <1>1, <1>2 DEF Other, Peer

(* Internal messages have a pipe.                                          *)
LEMMA InternalPipeIsPipe == InternalPipe \in Pipe
BY ConstantsAssumption DEF InternalPipe

(* The IDs of messages the user holds.                                     *)
LEMMA HeldIds == ASSUME UserTypes, NEW p \in Peer PROVE Held(p) \subseteq Nat
<1>1. log[p] \in Seq(Event)
  BY DEF UserTypes
<1>2. \A i \in 1..Len(log[p]) : log[p][i] \in Event
  BY <1>1
<1>3. \A e \in Event : e.id \in Nat
  BY DEF Event
<1> QED BY <1>2, <1>3 DEF Held, SeqRange

-----------------------------------------------------------------------------
(* The handlers run are handlers that were posted: handlers_poll() and the *)
(* loop of rcv_struct_new_msg_in() find what the program counter says.     *)
PostedIsThere ==
  \A p \in Peer : mode[p] \in {"drain", "user"} => hq[p] # <<>>

TypeInv == TypeOK /\ PostedIsThere

(* What a step leaves alone keeps its type.                                *)
LEMMA SameTypes ==
  /\ AuthTypes /\ UNCHANGED authVars => AuthTypes'
  /\ SndTypes /\ UNCHANGED sndVars => SndTypes'
  /\ RcvTypes /\ UNCHANGED rcvVars => RcvTypes'
  /\ ExpTypes /\ UNCHANGED expVars => ExpTypes'
  /\ RspTypes /\ UNCHANGED rspVars => RspTypes'
  /\ LoopTypes /\ UNCHANGED loopVars => LoopTypes'
  /\ LinkTypes /\ UNCHANGED linkVars => LinkTypes'
  /\ UserTypes /\ UNCHANGED userVars => UserTypes'
  /\ PostedIsThere /\ UNCHANGED <<hq, mode>> => PostedIsThere'
BY DEF AuthTypes, authVars, SndTypes, sndVars, RcvTypes, rcvVars, ExpTypes,
       expVars, RspTypes, rspVars, LoopTypes, loopVars, LinkTypes, linkVars,
       UserTypes, userVars, PostedIsThere

LEMMA TypeInit == Init => TypeInv
<1> SUFFICES ASSUME Init PROVE TypeInv
  OBVIOUS
<1>1. AuthTypes /\ SndTypes /\ RcvTypes /\ RspTypes
  BY DEF Init, AuthTypes, SndTypes, RcvTypes, RspTypes, Peer, Phase
<1>2. ExpTypes /\ LoopTypes /\ LinkTypes /\ UserTypes
  BY DEF Init, ExpTypes, LoopTypes, LinkTypes, UserTypes
<1> QED BY <1>1, <1>2 DEF Init, TypeInv, TypeOK, PostedIsThere, Error

-----------------------------------------------------------------------------
LEMMA RegisterTypes ==
  ASSUME TypeInv, NEW p \in Peer, NEW rsp, RegisterResponse(p, rsp)
  PROVE  RspTypes'
BY DEF RegisterResponse, TypeInv, TypeOK, RspTypes, SndTypes

LEMMA TypeSend ==
  ASSUME TypeInv, NEW p \in Peer, NEW k \in Pipe, NEW w \in Which,
         NEW orig, NEW rsp \in DOMAIN RspApi, Send(p, k, w, orig, rsp)
  PROVE  TypeInv'
<1> DEFINE m == [id |-> sndNext[p], orig |-> orig, which |-> w, tok |-> token[p]]
<1>1. orig \in Nat
  BY HeldIds DEF Send, SendCallable, TypeInv, TypeOK
<1>2. m \in Msg
  BY <1>1 DEF TypeInv, TypeOK, SndTypes, AuthTypes, Msg
<1>3. net' \in [Peer -> [Pipe -> Seq(Msg)]]
  BY <1>2, OtherPeer DEF Send, TypeInv, TypeOK
<1>4. SndTypes'
  <2>1. [msg |-> m, rsp |-> rsp] \in SentMsg
    BY <1>2 DEF SentMsg
  <2> QED BY <2>1 DEF Send, TypeInv, TypeOK, SndTypes
<1>5. AuthTypes'
  BY DEF Send, TypeInv, TypeOK, AuthTypes, Phase
<1>6. RspTypes'
  BY RegisterTypes DEF Send
<1> QED
  BY <1>3, <1>4, <1>5, <1>6, SameTypes DEF Send, TypeInv, TypeOK

LEMMA TypeSendNot ==
  ASSUME TypeInv, NEW p \in Peer, NEW k \in Pipe, NEW orig, NEW rsp,
         SendFails(p, k, orig, rsp) \/ SendAfterEnd(p, orig, rsp)
           \/ RequestRefused(p, rsp)
  PROVE  TypeInv'
<1>1. RspTypes'
  BY RegisterTypes DEF SendFails, SendAfterEnd, RequestRefused
<1>2. CASE SendFails(p, k, orig, rsp)
  <2>1. Ev("send_error", 0) \in Event
    BY DEF Ev, Event
  <2>2. UserTypes'
    BY <1>2, <2>1 DEF SendFails, TypeInv, TypeOK, UserTypes
  <2>3. SndTypes' /\ err' \in [Peer -> Error]
    BY <1>2 DEF SendFails, TypeInv, TypeOK, SndTypes, Error
  <2> QED BY <1>1, <1>2, <2>2, <2>3, SameTypes DEF SendFails, TypeInv, TypeOK
<1>3. CASE SendAfterEnd(p, orig, rsp)
  <2>1. SndTypes'
    BY <1>3 DEF SendAfterEnd, TypeInv, TypeOK, SndTypes
  <2> QED BY <1>1, <1>3, <2>1, SameTypes DEF SendAfterEnd, TypeInv, TypeOK
<1>4. CASE RequestRefused(p, rsp)
  BY <1>1, <1>4, SameTypes DEF RequestRefused, TypeInv, TypeOK
<1> QED BY <1>2, <1>3, <1>4

LEMMA TypeLink ==
  ASSUME TypeInv, NEW p \in Peer,
         StartAndPoll(p) \/ EndSending(p) \/ \E k \in Pipe : Break(p, k)
  PROVE  TypeInv'
<1>1. CASE StartAndPoll(p)
  <2>1. LoopTypes'
    BY <1>1 DEF StartAndPoll, TypeInv, TypeOK, LoopTypes
  <2> QED BY <1>1, <2>1, SameTypes DEF StartAndPoll, TypeInv, TypeOK
<1>2. CASE EndSending(p)
  <2>1. LinkTypes'
    BY <1>2 DEF EndSending, TypeInv, TypeOK, LinkTypes
  <2> QED BY <1>2, <2>1, SameTypes DEF EndSending, TypeInv, TypeOK
<1>3. CASE \E k \in Pipe : Break(p, k)
  <2>1. LinkTypes'
    BY <1>3 DEF Break, TypeInv, TypeOK, LinkTypes
  <2> QED BY <1>3, <2>1, SameTypes DEF Break, TypeInv, TypeOK
<1> QED BY <1>1, <1>2, <1>3

-----------------------------------------------------------------------------
LEMMA EmitTypes ==
  ASSUME TypeInv, NEW p \in Peer, NEW ids \in Seq(Nat), Emit(p, ids)
  PROVE  log' \in [Peer -> Seq(Event)]
<1> DEFINE new == [i \in 1..Len(ids) |-> Ev("msg", ids[i])]
<1>1. \A i \in 1..Len(ids) : Ev("msg", ids[i]) \in Event
  BY DEF Ev, Event
<1>2. new \in Seq(Event)
  BY <1>1
<1> HIDE DEF new
<1>3. log' = [log EXCEPT ![p] = @ \o new]
  BY DEF Emit, new
<1> QED BY <1>2, <1>3 DEF TypeInv, TypeOK, UserTypes

LEMMA TypeExpect ==
  ASSUME TypeInv, NEW p \in Peer, NEW w \in Which,
         ExpectMsg(p, w) \/ ExpectMsgs(p, w) \/ UndoExpectMsgs(p, w)
  PROVE  TypeInv'
<1>1. pending[p][w] \in Seq(Nat) /\ qdMsgs[p] \in Seq(Nat)
  BY DEF TypeInv, TypeOK, ExpTypes, UserTypes
<1>2. CASE ExpectMsg(p, w)
  <2>1. CASE pending[p][w] = <<>>
    <3>0. /\ msgOnce' = [msgOnce EXCEPT ![p] = @ \cup {w}]
          /\ UNCHANGED <<pending, msgOpen>>
      BY <1>2, <2>1 DEF ExpectMsg
    <3>1. ExpTypes'
      BY <3>0 DEF TypeInv, TypeOK, ExpTypes
    <3>2. UNCHANGED userVars
      BY <1>2, <2>1 DEF ExpectMsg, userVars
    <3> QED BY <1>2, <3>1, <3>2, SameTypes DEF ExpectMsg, TypeInv, TypeOK
  <2>2. CASE pending[p][w] # <<>>
    <3>1. /\ <<Head(pending[p][w])>> \in Seq(Nat)
          /\ Tail(pending[p][w]) \in Seq(Nat)
      BY <1>1, <2>2
    <3>0. /\ pending' = [pending EXCEPT ![p][w] = Tail(@)]
          /\ UNCHANGED <<msgOnce, msgOpen>>
      BY <1>2, <2>2 DEF ExpectMsg
    <3>2. ExpTypes'
      BY <3>0, <3>1 DEF TypeInv, TypeOK, ExpTypes
    <3>3. Emit(p, <<Head(pending[p][w])>>)
      BY <1>2, <2>2 DEF ExpectMsg
    <3>4. log' \in [Peer -> Seq(Event)]
      BY <3>1, <3>3, EmitTypes
    <3>5. UserTypes'
      BY <1>2, <3>4 DEF ExpectMsg, TypeInv, TypeOK, UserTypes
    <3> QED BY <1>2, <3>2, <3>5, SameTypes DEF ExpectMsg, TypeInv, TypeOK
  <2> QED BY <2>1, <2>2
<1>3. CASE ExpectMsgs(p, w)
  <2>1. PICK list \in Seq(Nat) :
          /\ Emit(p, list)
          /\ qdMsgs' = [qdMsgs EXCEPT ![p] = IF KeepsList THEN list ELSE <<>>]
    BY <1>1, <1>3 DEF ExpectMsgs
  <2>2. UserTypes'
    BY <2>1, EmitTypes DEF TypeInv, TypeOK, UserTypes
  <2>3. ExpTypes'
    BY <1>3 DEF ExpectMsgs, TypeInv, TypeOK, ExpTypes
  <2> QED BY <1>3, <2>2, <2>3, SameTypes DEF ExpectMsgs, TypeInv, TypeOK
<1>4. CASE UndoExpectMsgs(p, w)
  <2>1. ExpTypes'
    BY <1>4 DEF UndoExpectMsgs, TypeInv, TypeOK, ExpTypes
  <2> QED BY <1>4, <2>1, SameTypes DEF UndoExpectMsgs, TypeInv, TypeOK
<1> QED BY <1>2, <1>3, <1>4

(* handle_new_error() posts a handler and takes none away.                 *)
LEMMA NewErrorTypes ==
  ASSUME TypeInv, NEW p \in Peer, NEW e \in Error, NewError(p, e)
  PROVE  /\ err' \in [Peer -> Error]
         /\ hq' \in [Peer -> Seq(Event)]
         /\ hq'[p] # <<>>
         /\ \A q \in Peer : hq[q] # <<>> => hq'[q] # <<>>
<1>1. Ev("on_error", 0) \in Event
  BY DEF Ev, Event
<1> HIDE DEF Ev
<1>2. hq[p] \in Seq(Event)
  BY DEF TypeInv, TypeOK
<1>3. Append(hq[p], Ev("on_error", 0)) \in Seq(Event) \ {<<>>}
  BY <1>1, <1>2
<1> QED BY <1>3 DEF NewError, TypeInv, TypeOK

LEMMA TypeLogInRequest ==
  ASSUME TypeInv, NEW p \in Peer, NEW w \in Which, ExpectLogInRequest(p, w)
  PROVE  TypeInv'
<1>1. logInStarted' \in [Peer -> BOOLEAN]
  BY DEF ExpectLogInRequest, TypeInv, TypeOK
<1>2. CASE pending[p][w] # <<>>
  <2>1. /\ <<Head(pending[p][w])>> \in Seq(Nat)
        /\ Tail(pending[p][w]) \in Seq(Nat)
    BY <1>2 DEF TypeInv, TypeOK, ExpTypes
  <2>0. /\ pending' = [pending EXCEPT ![p][w] = Tail(@)]
        /\ UNCHANGED <<msgOnce, msgOpen>>
    BY <1>2 DEF ExpectLogInRequest
  <2>2. ExpTypes'
    BY <2>0, <2>1 DEF TypeInv, TypeOK, ExpTypes
  <2>3. Emit(p, <<Head(pending[p][w])>>)
    BY <1>2 DEF ExpectLogInRequest
  <2>4. log' \in [Peer -> Seq(Event)]
    BY <2>1, <2>3, EmitTypes
  <2>5. UserTypes'
    BY <2>4 DEF ExpectLogInRequest, TypeInv, TypeOK, UserTypes
  <2> QED
    BY <1>1, <1>2, <2>2, <2>5, SameTypes DEF ExpectLogInRequest, TypeInv, TypeOK
<1>3. CASE pending[p][w] = <<>>
  <2>0. /\ msgOnce' = [msgOnce EXCEPT ![p] = @ \cup {w}]
        /\ UNCHANGED <<pending, msgOpen, log, qdMsgs>>
    BY <1>3 DEF ExpectLogInRequest
  <2>1. ExpTypes' /\ UNCHANGED userVars
    BY <2>0 DEF TypeInv, TypeOK, ExpTypes, userVars
  <2>2. \/ NewError(p, "GOT_UNEXPECTED_LOG_IN_REQUEST")
        \/ UNCHANGED <<err, hq>>
    BY <1>3 DEF ExpectLogInRequest
  <2>3. /\ err' \in [Peer -> Error] /\ hq' \in [Peer -> Seq(Event)]
        /\ \A q \in Peer : hq[q] # <<>> => hq'[q] # <<>>
    BY <2>2, NewErrorTypes DEF TypeInv, TypeOK, Error
  <2>4. PostedIsThere'
    BY <2>3 DEF ExpectLogInRequest, PostedIsThere, TypeInv
  <2> QED
    BY <1>1, <2>1, <2>3, <2>4, SameTypes DEF ExpectLogInRequest, TypeInv, TypeOK
<1> QED BY <1>2, <1>3

LEMMA TypeHandlers ==
  ASSUME TypeInv, NEW p \in Peer,
         \/ \E id \in rspOpen[p] : UndoExpectResponses(p, id)
         \/ \E h \in DOMAIN Ignored : SetHandler(p, h) \/ UnsetHandler(p, h)
  PROVE  TypeInv'
<1>1. CASE \E id \in rspOpen[p] : UndoExpectResponses(p, id)
  <2>1. RspTypes'
    BY <1>1 DEF UndoExpectResponses, TypeInv, TypeOK, RspTypes
  <2> QED BY <1>1, <2>1, SameTypes DEF UndoExpectResponses, TypeInv, TypeOK
<1>2. CASE \E h \in DOMAIN Ignored : SetHandler(p, h) \/ UnsetHandler(p, h)
  <2>0. PICK h \in DOMAIN Ignored : SetHandler(p, h) \/ UnsetHandler(p, h)
    BY <1>2
  <2>1. softSet' \in [Peer -> SUBSET DOMAIN Ignored]
    <3> DEFINE Soft == DOMAIN Ignored
    <3>1. h \in Soft /\ softSet \in [Peer -> SUBSET Soft]
      BY DEF TypeInv, TypeOK
    <3>2. \/ softSet' = [softSet EXCEPT ![p] = @ \cup {h}]
          \/ softSet' = [softSet EXCEPT ![p] = @ \ {h}]
      BY <2>0 DEF SetHandler, UnsetHandler
    <3> HIDE DEF Soft
    <3>3. softSet' \in [Peer -> SUBSET Soft]
      BY <3>1, <3>2
    <3> QED BY <3>3 DEF Soft
  <2> QED BY <1>2, <2>1, SameTypes DEF SetHandler, UnsetHandler, TypeInv, TypeOK
<1> QED BY <1>1, <1>2

-----------------------------------------------------------------------------
(* An in-message delivered: what IsNextExpected() changes.                 *)
LEMMA TypeDeliver ==
  ASSUME TypeInv, NEW p \in Peer, NEW m \in Msg,
         NEW pipes \in [Pipe -> Seq(Msg)], IsNextExpected(p, m, pipes)
  PROVE  /\ ExpTypes' /\ RspTypes'
         /\ hq' \in [Peer -> Seq(Event)]
         /\ net' \in [Peer -> [Pipe -> Seq(Msg)]]
         /\ \A q \in Peer \ {p} : hq'[q] = hq[q]
<1> USE DEF TypeInv, TypeOK
<1>1. /\ m.id \in Nat /\ m.orig \in Nat /\ m.which \in Which
      /\ \A kind \in {"msg", "rsp", "unexpected"} : Ev(kind, m.id) \in Event
  BY DEF Msg, Ev, Event
<1>2. CASE DeliverResponse(p, m, pipes)
  <2>1. /\ hq' = [hq EXCEPT ![p] = Append(@, Ev("rsp", m.id))]
        /\ rspOnce' = [rspOnce EXCEPT ![p] = @ \ {m.orig}]
        /\ net' = [net EXCEPT ![p] = pipes]
        /\ UNCHANGED <<rspOpen, expVars>>
    BY <1>2 DEF DeliverResponse
  <2>2. RspTypes'
    BY <2>1 DEF RspTypes
  <2> QED BY <1>1, <2>1, <2>2, SameTypes
<1>3. CASE DeliverUnexpected(p, m, pipes)
  <2> DEFINE n == Internal(m.id, token[p])
  <2>1. n \in Msg
    BY <1>1, ConstantsAssumption DEF Internal, Msg, AuthTypes
  <2>2. hq' = [hq EXCEPT ![p] = Append(@, Ev("unexpected", m.id))]
        /\ UNCHANGED <<rspVars, expVars>>
    BY <1>3 DEF DeliverUnexpected
  <2>3. PICK new \in BOOLEAN :
          net' = [net EXCEPT ![p] = pipes, ![Other(p)][InternalPipe] =
                               IF new THEN Append(@, n) ELSE @]
    BY <1>3 DEF DeliverUnexpected
  <2> HIDE DEF n
  <2>4. net' \in [Peer -> [Pipe -> Seq(Msg)]]
    <3> DEFINE q == Other(p)
               s == IF new THEN Append(net[q][InternalPipe], n)
                           ELSE net[q][InternalPipe]
               r == [net[q] EXCEPT ![InternalPipe] = s]
    <3>1. q \in Peer /\ q # p
      BY OtherPeer
    <3>2. net[q] \in [Pipe -> Seq(Msg)]
      BY <3>1
    <3>3. r \in [Pipe -> Seq(Msg)]
      BY <2>1, <3>2, InternalPipeIsPipe
    <3>4. net' = [net EXCEPT ![p] = pipes, ![q] = r]
      BY <2>3, <3>1
    <3> HIDE DEF q, r
    <3> QED BY <3>1, <3>3, <3>4
  <2>5. /\ hq' \in [Peer -> Seq(Event)]
        /\ \A q \in Peer \ {p} : hq'[q] = hq[q]
    BY <1>1, <2>2
  <2> QED BY <2>2, <2>4, <2>5, SameTypes
<1>4. CASE DeliverExpected(p, m, pipes)
  <2>1. /\ hq' = [hq EXCEPT ![p] = Append(@, Ev("msg", m.id))]
        /\ msgOnce' = [msgOnce EXCEPT ![p] = @ \ {m.which}]
        /\ net' = [net EXCEPT ![p] = pipes]
        /\ UNCHANGED <<msgOpen, pending, rspVars>>
    BY <1>4 DEF DeliverExpected
  <2>2. ExpTypes'
    BY <2>1 DEF ExpTypes
  <2> QED BY <1>1, <2>1, <2>2, SameTypes
<1>5. CASE DeliverLater(p, m, pipes)
  <2>1. /\ pending' = [pending EXCEPT ![p][m.which] = Append(@, m.id)]
        /\ net' = [net EXCEPT ![p] = pipes]
        /\ UNCHANGED <<hq, msgOnce, msgOpen, rspVars>>
    BY <1>5 DEF DeliverLater
  <2>2. ExpTypes'
    BY <1>1, <2>1 DEF ExpTypes
  <2> QED BY <2>1, <2>2, SameTypes
<1> QED BY <1>2, <1>3, <1>4, <1>5 DEF IsNextExpected

(* The message at the head of a pipe, and the pipes without it.            *)
LEMMA HeadIsMsg ==
  ASSUME TypeInv, NEW p \in Peer, NEW k \in Pipe, net[p][k] # <<>>
  PROVE  Head(net[p][k]) \in Msg /\ Rest(p, k) \in [Pipe -> Seq(Msg)]
<1>1. net[p] \in [Pipe -> Seq(Msg)] /\ net[p][k] \in Seq(Msg)
  BY DEF TypeInv, TypeOK
<1>2. Head(net[p][k]) \in Msg /\ Tail(net[p][k]) \in Seq(Msg)
  BY <1>1
<1> QED BY <1>1, <1>2 DEF Rest

(* A read of pipe k.                                                       *)
LEMMA TypeRead ==
  ASSUME TypeInv, NEW p \in Peer, NEW k \in Pipe, ReadStep(p, k)
  PROVE  TypeInv'
<1> DEFINE m == Head(net[p][k])
<1>1. CASE ReceiveBad(p, k)
  <2>1. InMsgError(p, m) \in Error
    BY DEF InMsgError, TokenError, SequenceError, LogInError, Error, TypeInv,
           TypeOK, AuthTypes, Phase
  <2>2. /\ err' \in [Peer -> Error] /\ hq' \in [Peer -> Seq(Event)]
        /\ hq'[p] # <<>> /\ \A q \in Peer : hq[q] # <<>> => hq'[q] # <<>>
    BY <1>1, <2>1, NewErrorTypes DEF ReceiveBad
  <2>3. net' \in [Peer -> [Pipe -> Seq(Msg)]]
    BY <1>1, HeadIsMsg DEF ReceiveBad, MsgAt, TypeInv, TypeOK
  <2>4. RcvTypes'
    BY <1>1 DEF ReceiveBad, TypeInv, TypeOK, RcvTypes
  <2>5. LoopTypes'
    BY <1>1 DEF ReceiveBad, TypeInv, TypeOK, LoopTypes
  <2>6. /\ mode' \in [Peer -> {"idle", "flush", "drain", "user"}]
        /\ PostedIsThere'
    BY <1>1, <2>2 DEF ReceiveBad, TypeInv, TypeOK, PostedIsThere
  <2> QED
    BY <1>1, <2>2, <2>3, <2>4, <2>5, <2>6, SameTypes
    DEF ReceiveBad, TypeInv, TypeOK
<1>2. CASE ReceiveInternal(p, k)
  <2>1. Ev("remote_unexpected", m.orig) \in Event
    BY <1>2, HeadIsMsg DEF ReceiveInternal, MsgAt, Ev, Event, Msg
  <2>2. hq' \in [Peer -> Seq(Event)] /\ hq'[p] # <<>>
    <3> DEFINE e == Ev("remote_unexpected", m.orig)
    <3>1. Append(hq[p], e) \in Seq(Event) /\ Append(hq[p], e) # <<>>
      <4>1. hq[p] \in Seq(Event)
        BY DEF TypeInv, TypeOK
      <4> HIDE DEF e
      <4> QED BY <2>1, <4>1, AppendProperties DEF e
    <3>2. hq' = [hq EXCEPT ![p] = Append(@, e)]
      BY <1>2 DEF ReceiveInternal
    <3> HIDE DEF e
    <3> QED BY <3>1, <3>2 DEF TypeInv, TypeOK
  <2>3. net' \in [Peer -> [Pipe -> Seq(Msg)]]
    BY <1>2, HeadIsMsg DEF ReceiveInternal, MsgAt, TypeInv, TypeOK
  <2>4. /\ mode' \in [Peer -> {"idle", "flush", "drain", "user"}]
        /\ PostedIsThere'
    BY <1>2, <2>2 DEF ReceiveInternal, TypeInv, TypeOK, PostedIsThere
  <2> QED
    BY <1>2, <2>2, <2>3, <2>4, SameTypes DEF ReceiveInternal, TypeInv, TypeOK
<1>3. CASE ReceiveEarly(p, k)
  <2>1. net' \in [Peer -> [Pipe -> Seq(Msg)]]
    BY <1>3, HeadIsMsg DEF ReceiveEarly, MsgAt, TypeInv, TypeOK
  <2>2. RcvTypes'
    BY <1>3, HeadIsMsg DEF ReceiveEarly, MsgAt, TypeInv, TypeOK, RcvTypes
  <2>3. /\ mode' \in [Peer -> {"idle", "flush", "drain", "user"}]
        /\ PostedIsThere'
    BY <1>3 DEF ReceiveEarly, TypeInv, TypeOK, PostedIsThere
  <2> QED
    BY <1>3, <2>1, <2>2, <2>3, SameTypes DEF ReceiveEarly, TypeInv, TypeOK
<1>4. CASE ReceiveNext(p, k)
  <2>1. m \in Msg /\ Rest(p, k) \in [Pipe -> Seq(Msg)]
    BY <1>4, HeadIsMsg DEF ReceiveNext, MsgAt
  <2>2. /\ ExpTypes' /\ RspTypes' /\ hq' \in [Peer -> Seq(Event)]
        /\ net' \in [Peer -> [Pipe -> Seq(Msg)]]
        /\ \A q \in Peer \ {p} : hq'[q] = hq[q]
    BY <1>4, <2>1, TypeDeliver DEF ReceiveNext
  <2>3. RcvTypes'
    BY <1>4 DEF ReceiveNext, TypeInv, TypeOK, RcvTypes
  <2>4. AuthTypes'
    BY <1>4, <2>1
    DEF ReceiveNext, TypeInv, TypeOK, AuthTypes, authVars, Phase, Msg
  <2>5. /\ mode' \in [Peer -> {"idle", "flush", "drain", "user"}]
        /\ PostedIsThere'
    BY <1>4, <2>2 DEF ReceiveNext, NextMode, TypeInv, TypeOK, PostedIsThere
  <2> QED
    BY <1>4, <2>2, <2>3, <2>4, <2>5, SameTypes DEF ReceiveNext, TypeInv, TypeOK
<1>5. CASE ReadFails(p, k)
  <2>1. PICK e \in Error : NewError(p, e)
    BY <1>5 DEF ReadFails, ReadError, Error
  <2>2. /\ err' \in [Peer -> Error] /\ hq' \in [Peer -> Seq(Event)]
        /\ hq'[p] # <<>> /\ \A q \in Peer : hq[q] # <<>> => hq'[q] # <<>>
    BY <2>1, NewErrorTypes
  <2>3. LoopTypes'
    BY <1>5 DEF ReadFails, TypeInv, TypeOK, LoopTypes
  <2>4. /\ mode' \in [Peer -> {"idle", "flush", "drain", "user"}]
        /\ PostedIsThere'
    BY <1>5, <2>2 DEF ReadFails, TypeInv, TypeOK, PostedIsThere
  <2> QED
    BY <1>5, <2>2, <2>3, <2>4, SameTypes DEF ReadFails, TypeInv, TypeOK
<1>6. CASE ReadIgnored(p, k)
  <2>1. net' \in [Peer -> [Pipe -> Seq(Msg)]]
    <3>1. net[p][k] \in Seq(Msg)
      BY DEF TypeInv, TypeOK
    <3>2. (IF net[p][k] = <<>> THEN net[p][k] ELSE Tail(net[p][k])) \in Seq(Msg)
      BY <3>1
    <3> QED BY <1>6, <3>2 DEF ReadIgnored, TypeInv, TypeOK
  <2>2. LoopTypes'
    BY <1>6 DEF ReadIgnored, TypeInv, TypeOK, LoopTypes
  <2>3. /\ mode' \in [Peer -> {"idle", "flush", "drain", "user"}]
        /\ PostedIsThere'
    BY <1>6 DEF ReadIgnored, TypeInv, TypeOK, PostedIsThere
  <2> QED
    BY <1>6, <2>1, <2>2, <2>3, SameTypes DEF ReadIgnored, TypeInv, TypeOK
<1> QED BY <1>1, <1>2, <1>3, <1>4, <1>5, <1>6 DEF ReadStep

(* A turn of the loop over the reassembly queue, and a handler run.        *)
LEMMA TypeThread ==
  ASSUME TypeInv, NEW p \in Peer, ThreadStep(p)
  PROVE  TypeInv'
<1>1. CASE \E m \in reasm[p] : Flush(p, m)
  <2>1. PICK m \in reasm[p] : Flush(p, m)
    BY <1>1
  <2>2. m \in Msg /\ net[p] \in [Pipe -> Seq(Msg)]
    BY DEF TypeInv, TypeOK, RcvTypes
  <2>3. /\ ExpTypes' /\ RspTypes' /\ hq' \in [Peer -> Seq(Event)]
        /\ net' \in [Peer -> [Pipe -> Seq(Msg)]]
        /\ \A q \in Peer \ {p} : hq'[q] = hq[q]
    BY <2>1, <2>2, TypeDeliver DEF Flush
  <2>4. RcvTypes'
    BY <2>1 DEF Flush, TypeInv, TypeOK, RcvTypes
  <2>5. /\ mode' \in [Peer -> {"idle", "flush", "drain", "user"}]
        /\ PostedIsThere'
    BY <2>1, <2>3 DEF Flush, NextMode, TypeInv, TypeOK, PostedIsThere
  <2> QED BY <2>1, <2>3, <2>4, <2>5, SameTypes DEF Flush, TypeInv, TypeOK
<1>2. CASE Fire(p)
  <2>1. hq[p] \in Seq(Event) /\ hq[p] # <<>>
    BY <1>2 DEF Fire, TypeInv, TypeOK, PostedIsThere
  <2>2. Head(hq[p]) \in Event /\ Tail(hq[p]) \in Seq(Event)
        /\ (Len(hq[p]) > 1 => Tail(hq[p]) # <<>>)
    BY <2>1, HeadTailProperties, EmptySeq
  <2>3. Fired(p, Head(hq[p])) \in Event
    BY <2>2 DEF Fired, Ignored, Ev, Event
  <2>4. UserTypes'
    BY <1>2, <2>3 DEF Fire, TypeInv, TypeOK, UserTypes
  <2>5. /\ mode' \in [Peer -> {"idle", "flush", "drain", "user"}]
        /\ hq' \in [Peer -> Seq(Event)] /\ PostedIsThere'
    BY <1>2, <2>2 DEF Fire, TypeInv, TypeOK, PostedIsThere
  <2> QED BY <1>2, <2>4, <2>5, SameTypes DEF Fire, TypeInv, TypeOK
<1> QED BY <1>1, <1>2 DEF ThreadStep

-----------------------------------------------------------------------------
LEMMA TypeNext == TypeInv /\ [Next]_vars => TypeInv'
<1> SUFFICES ASSUME TypeInv, [Next]_vars PROVE TypeInv'
  OBVIOUS
<1>1. CASE UNCHANGED vars
  BY <1>1, SameTypes
  DEF vars, authVars, sndVars, rcvVars, expVars, rspVars, loopVars, linkVars,
      userVars, TypeInv, TypeOK
<1>2. ASSUME NEW p \in Peer, SendStep(p) PROVE TypeInv'
  <2>1. PICK orig \in Held(p) \cup {0}, rsp \in DOMAIN RspApi :
          \/ \E k \in Pipe, w \in Which : Send(p, k, w, orig, rsp)
          \/ \E k \in Pipe : SendFails(p, k, orig, rsp)
          \/ SendAfterEnd(p, orig, rsp)
    BY <1>2 DEF SendStep
  <2>2. CASE \E k \in Pipe, w \in Which : Send(p, k, w, orig, rsp)
    BY <2>2, TypeSend
  <2>3. CASE \E k \in Pipe : SendFails(p, k, orig, rsp)
    BY <2>3, TypeSendNot
  <2>4. CASE SendAfterEnd(p, orig, rsp)
    BY <2>4, TypeSendNot, InternalPipeIsPipe
  <2> QED BY <2>1, <2>2, <2>3, <2>4
<1>3. ASSUME NEW p \in Peer, ApiStep(p) PROVE TypeInv'
  <2>1. CASE \E rsp \in DOMAIN RspApi : RequestRefused(p, rsp)
    BY <2>1, TypeSendNot, InternalPipeIsPipe
  <2> QED
    BY <1>2, <1>3, <2>1, TypeLink, TypeExpect, TypeLogInRequest, TypeHandlers
    DEF ApiStep
<1>4. ASSUME NEW p \in Peer, NEW k \in Pipe, ReadStep(p, k) \/ Break(p, k)
      PROVE  TypeInv'
  BY <1>4, TypeRead, TypeLink
<1> QED BY <1>1, <1>3, <1>4, TypeThread DEF Next

(* Every variable keeps its type, and a handler is run only if one is      *)
(* posted.                                                                 *)
THEOREM TypeCorrect == Spec => []TypeOK
<1>1. TypeInv => TypeOK
  BY DEF TypeInv
<1> QED BY <1>1, TypeInit, TypeNext, PTL DEF Spec

-----------------------------------------------------------------------------
(* The reassembly queue is flushed only on a good channel.                 *)
FlushIsGood == \A p \in Peer : mode[p] = "flush" => err[p] = "ok"

LEMMA FlushIsGoodNext ==
  TypeInv /\ FlushIsGood /\ [Next]_vars => FlushIsGood'
<1> SUFFICES ASSUME TypeInv, FlushIsGood, [Next]_vars PROVE FlushIsGood'
  OBVIOUS
<1> USE DEF FlushIsGood, TypeInv, TypeOK
<1>1. CASE UNCHANGED vars
  BY <1>1 DEF vars
<1>2. ASSUME NEW p \in Peer, SendStep(p) PROVE FlushIsGood'
  BY <1>2 DEF SendStep, Send, SendFails, SendAfterEnd, SendCallable, CanCall
<1>3. ASSUME NEW p \in Peer, ApiStep(p) PROVE FlushIsGood'
  BY <1>2, <1>3
  DEF ApiStep, StartAndPoll, RequestRefused, EndSending, ExpectMsg, ExpectMsgs,
      UndoExpectMsgs, ExpectLogInRequest, UndoExpectResponses, SetHandler,
      UnsetHandler, NewError, CanCall
<1>4. ASSUME NEW p \in Peer, NEW k \in Pipe, ReadStep(p, k) \/ Break(p, k)
      PROVE  FlushIsGood'
  <2>1. CASE ReceiveBad(p, k) \/ ReadFails(p, k) \/ ReadIgnored(p, k)
    BY <2>1 DEF ReceiveBad, ReadFails, ReadIgnored, NewError
  <2>2. CASE ReceiveInternal(p, k) \/ ReceiveEarly(p, k) \/ Break(p, k)
    BY <2>2 DEF ReceiveInternal, ReceiveEarly, Break
  <2>3. CASE ReceiveNext(p, k)
    BY <2>3 DEF ReceiveNext, MsgAt
  <2> QED BY <1>4, <2>1, <2>2, <2>3 DEF ReadStep
<1>5. ASSUME NEW p \in Peer, ThreadStep(p) PROVE FlushIsGood'
  BY <1>5 DEF ThreadStep, Fire, Flush, NextMode
<1> QED BY <1>1, <1>3, <1>4, <1>5 DEF Next

(* On a hosed channel no API transmits, accepts or expects anything.       *)
THEOREM HosedIsInertAlways == Spec => HosedIsInert
<1> DEFINE Inert == \A p \in Peer : err[p] # "ok" =>
              /\ sent'[p] = sent[p] /\ rcvNext'[p] = rcvNext[p]
              /\ msgOnce'[p] = msgOnce[p] /\ msgOpen'[p] = msgOpen[p]
              /\ rspOnce'[p] = rspOnce[p] /\ rspOpen'[p] = rspOpen[p]
              /\ pending'[p] = pending[p]
<1>1. Init => FlushIsGood
  BY DEF Init, FlushIsGood
<1>2. TypeInv /\ FlushIsGood /\ [Next]_vars => [Inert]_vars
  <2> SUFFICES ASSUME TypeInv, FlushIsGood, Next PROVE Inert
    OBVIOUS
  <2> USE DEF TypeInv, TypeOK, SndTypes, RcvTypes, ExpTypes, RspTypes
  <2>1. ASSUME NEW p \in Peer, SendStep(p) PROVE Inert
    <3>1. PICK orig \in Held(p) \cup {0}, rsp \in DOMAIN RspApi :
            \/ \E k \in Pipe, w \in Which : Send(p, k, w, orig, rsp)
            \/ \E k \in Pipe : SendFails(p, k, orig, rsp)
            \/ SendAfterEnd(p, orig, rsp)
      BY <2>1 DEF SendStep
    <3>2. /\ err[p] = "ok" /\ RegisterResponse(p, rsp)
          /\ UNCHANGED <<rcvVars, expVars>>
      BY <3>1 DEF Send, SendFails, SendAfterEnd, SendCallable
    <3>3. \A q \in Peer \ {p} : sent'[q] = sent[q]
      BY <3>1 DEF Send, SendFails, SendAfterEnd
    <3> QED BY <3>2, <3>3 DEF RegisterResponse, rcvVars, expVars
  <2>2. ASSUME NEW p \in Peer, ApiStep(p) PROVE Inert
    <3>1. CASE StartAndPoll(p) \/ EndSending(p)
      BY <3>1 DEF StartAndPoll, EndSending, sndVars, rcvVars, expVars, rspVars
    <3>2. CASE \E rsp \in DOMAIN RspApi : RequestRefused(p, rsp)
      BY <3>2
      DEF RequestRefused, SendCallable, RegisterResponse, sndVars, rcvVars,
          expVars
    <3>3. CASE \E w \in Which : ExpectMsg(p, w) \/ ExpectMsgs(p, w)
                                  \/ UndoExpectMsgs(p, w)
      BY <3>3
      DEF ExpectMsg, ExpectMsgs, UndoExpectMsgs, LoggedInCall, sndVars, rcvVars,
          rspVars
    <3>4. CASE \E w \in Which : ExpectLogInRequest(p, w)
      BY <3>4 DEF ExpectLogInRequest, sndVars, rcvVars, rspVars
    <3>5. CASE \E id \in rspOpen[p] : UndoExpectResponses(p, id)
      BY <3>5 DEF UndoExpectResponses, LoggedInCall, sndVars, rcvVars, expVars
    <3>6. CASE \E h \in DOMAIN Ignored : SetHandler(p, h) \/ UnsetHandler(p, h)
      BY <3>6 DEF SetHandler, UnsetHandler, sndVars, rcvVars, expVars, rspVars
    <3> QED BY <2>1, <2>2, <3>1, <3>2, <3>3, <3>4, <3>5, <3>6 DEF ApiStep
  <2>3. ASSUME NEW p \in Peer, NEW k \in Pipe, ReadStep(p, k) \/ Break(p, k)
        PROVE  Inert
    <3>1. CASE ReceiveBad(p, k) \/ ReceiveInternal(p, k) \/ ReceiveEarly(p, k)
      BY <3>1
      DEF ReceiveBad, ReceiveInternal, ReceiveEarly, MsgAt, sndVars, rcvVars,
          expVars, rspVars
    <3>2. CASE ReceiveNext(p, k)
      BY <3>2
      DEF ReceiveNext, MsgAt, IsNextExpected, DeliverResponse,
          DeliverUnexpected, DeliverExpected, DeliverLater, sndVars, rcvVars,
          expVars, rspVars
    <3>3. CASE ReadFails(p, k) \/ ReadIgnored(p, k) \/ Break(p, k)
      BY <3>3
      DEF ReadFails, ReadIgnored, Break, sndVars, rcvVars, expVars, rspVars
    <3> QED BY <2>3, <3>1, <3>2, <3>3 DEF ReadStep
  <2>4. ASSUME NEW p \in Peer, ThreadStep(p) PROVE Inert
    <3>1. CASE Fire(p)
      BY <3>1 DEF Fire, sndVars, rcvVars, expVars, rspVars
    <3>2. CASE \E m \in reasm[p] : Flush(p, m)
      BY <3>2
      DEF Flush, FlushIsGood, IsNextExpected, DeliverResponse,
          DeliverUnexpected, DeliverExpected, DeliverLater, sndVars, expVars,
          rspVars
    <3> QED BY <2>4, <3>1, <3>2 DEF ThreadStep
  <2> QED BY <2>1, <2>2, <2>3, <2>4 DEF Next
<1>3. Spec => [][Inert]_vars
  <2> HIDE DEF Inert
  <2> QED BY <1>1, <1>2, TypeInit, TypeNext, FlushIsGoodNext, PTL DEF Spec
<1> QED BY <1>3 DEF HosedIsInert

-----------------------------------------------------------------------------
(* A message waits only while nothing expects its union value.             *)
LEMMA WaitingNext ==
  TypeInv /\ WaitingIsUnexpected /\ [Next]_vars => WaitingIsUnexpected'
<1> SUFFICES ASSUME TypeInv, WaitingIsUnexpected, [Next]_vars
             PROVE  WaitingIsUnexpected'
  OBVIOUS
<1> USE DEF WaitingIsUnexpected, TypeInv, TypeOK, ExpTypes
<1>1. CASE UNCHANGED expVars
  BY <1>1 DEF expVars
<1>2. ASSUME NEW p \in Peer, NEW w \in Which,
             ExpectMsg(p, w) \/ ExpectMsgs(p, w) \/ UndoExpectMsgs(p, w)
      PROVE  WaitingIsUnexpected'
  <2>1. CASE ExpectMsg(p, w)
    <3>1. CASE pending[p][w] = <<>>
      <4>1. /\ msgOnce' = [msgOnce EXCEPT ![p] = @ \cup {w}]
            /\ UNCHANGED <<msgOpen, pending>>
        BY <2>1, <3>1 DEF ExpectMsg
      <4> QED BY <3>1, <4>1
    <3>2. CASE pending[p][w] # <<>>
      <4>1. /\ pending' = [pending EXCEPT ![p][w] = Tail(@)]
            /\ w \notin msgOnce[p] \cup msgOpen[p]
            /\ UNCHANGED <<msgOnce, msgOpen>>
        BY <2>1, <3>2 DEF ExpectMsg
      <4> QED BY <4>1
    <3> QED BY <3>1, <3>2
  <2>2. CASE ExpectMsgs(p, w)
    BY <2>2 DEF ExpectMsgs
  <2>3. CASE UndoExpectMsgs(p, w)
    BY <2>3 DEF UndoExpectMsgs
  <2> QED BY <1>2, <2>1, <2>2, <2>3
<1>3. ASSUME NEW p \in Peer, NEW w \in Which, ExpectLogInRequest(p, w)
      PROVE  WaitingIsUnexpected'
  <2>1. CASE pending[p][w] = <<>>
    <3>1. /\ msgOnce' = [msgOnce EXCEPT ![p] = @ \cup {w}]
          /\ UNCHANGED <<msgOpen, pending>>
      BY <1>3, <2>1 DEF ExpectLogInRequest
    <3> QED BY <2>1, <3>1
  <2>2. CASE pending[p][w] # <<>>
    <3>1. /\ pending' = [pending EXCEPT ![p][w] = Tail(@)]
          /\ UNCHANGED <<msgOnce, msgOpen>>
      BY <1>3, <2>2 DEF ExpectLogInRequest
    <3> QED BY <2>2, <3>1
  <2> QED BY <2>1, <2>2
<1>4. ASSUME NEW p \in Peer, NEW m \in Msg, NEW pipes, IsNextExpected(p, m, pipes)
      PROVE  WaitingIsUnexpected'
  <2>1. CASE DeliverResponse(p, m, pipes) \/ DeliverUnexpected(p, m, pipes)
    BY <1>1, <2>1 DEF DeliverResponse, DeliverUnexpected
  <2>2. CASE DeliverExpected(p, m, pipes)
    BY <2>2 DEF DeliverExpected
  <2>3. CASE DeliverLater(p, m, pipes)
    BY <2>3 DEF DeliverLater, Msg
  <2> QED BY <1>4, <2>1, <2>2, <2>3 DEF IsNextExpected
<1>5. ASSUME NEW p \in Peer, ApiStep(p) PROVE WaitingIsUnexpected'
  <2>1. CASE SendStep(p)
    BY <1>1, <2>1 DEF SendStep, Send, SendFails, SendAfterEnd
  <2> QED
    BY <1>1, <1>2, <1>3, <1>5, <2>1
    DEF ApiStep, StartAndPoll, RequestRefused, EndSending, UndoExpectResponses,
        SetHandler, UnsetHandler
<1>6. ASSUME NEW p \in Peer, NEW k \in Pipe, ReadStep(p, k) \/ Break(p, k)
      PROVE  WaitingIsUnexpected'
  <2>1. CASE ReceiveNext(p, k)
    BY <1>4, <2>1, HeadIsMsg DEF ReceiveNext, MsgAt
  <2> QED
    BY <1>1, <1>6, <2>1
    DEF ReadStep, ReceiveBad, ReceiveInternal, ReceiveEarly, ReadFails,
        ReadIgnored, Break
<1>7. ASSUME NEW p \in Peer, ThreadStep(p) PROVE WaitingIsUnexpected'
  BY <1>1, <1>4, <1>7 DEF ThreadStep, Fire, Flush, RcvTypes
<1>8. CASE UNCHANGED vars
  BY <1>1, <1>8 DEF vars, expVars
<1> QED BY <1>5, <1>6, <1>7, <1>8 DEF Next

(* Whatever is sent, expected and undone, no message is left waiting in    *)
(* m_rcv_pending_msgs under a union value that has a handler.              *)
THEOREM WaitingIsUnexpectedAlways == Spec => []WaitingIsUnexpected
<1>1. Init => WaitingIsUnexpected
  BY DEF Init, WaitingIsUnexpected
<1> QED BY <1>1, TypeInit, TypeNext, WaitingNext, PTL DEF Spec

-----------------------------------------------------------------------------
(* What a step does to a pipe: nothing, or it takes the message at its     *)
(* head, or it adds one that carries its sender's token; a user message is *)
(* added by a peer that is then no server in log-in.                       *)
PipeStep(q, k) ==
  \/ net'[q][k] = net[q][k]
  \/ net[q][k] # <<>> /\ net'[q][k] = Tail(net[q][k])
  \/ \E m \in Msg : /\ net'[q][k] = Append(net[q][k], m)
                    /\ m.tok = token[Other(q)]
                    /\ m.id # 0 => phase'[Other(q)] # "SRV_LOG_IN"

LEMMA PipeStepDeliver ==
  ASSUME TypeInv, NEW p \in Peer, NEW j \in Pipe, NEW m \in Msg, NEW pipes,
         pipes = net[p] \/ (net[p][j] # <<>> /\ pipes = Rest(p, j)),
         IsNextExpected(p, m, pipes)
  PROVE  \A q \in Peer, k \in Pipe : PipeStep(q, k)
<1> USE DEF TypeInv, TypeOK
<1>1. \A k \in Pipe : \/ pipes[k] = net[p][k]
                      \/ net[p][k] # <<>> /\ pipes[k] = Tail(net[p][k])
  BY DEF Rest
<1>2. CASE net' = [net EXCEPT ![p] = pipes]
  BY <1>1, <1>2 DEF PipeStep
<1>3. CASE DeliverUnexpected(p, m, pipes)
  <2> DEFINE o == Other(p)
             n == Internal(m.id, token[p])
  <2>1. o \in Peer /\ o # p /\ Other(o) = p
    BY OtherPeer DEF Peer
  <2>2. n \in Msg /\ n.tok = token[p] /\ n.id = 0
    BY ConstantsAssumption DEF Internal, Msg, AuthTypes
  <2>3. PICK able \in BOOLEAN :
          net' = [net EXCEPT ![p] = pipes, ![o][InternalPipe] =
                               IF able THEN Append(@, n) ELSE @]
    BY <1>3 DEF DeliverUnexpected
  <2> HIDE DEF o, n
  <2>4. net'[p] = pipes
    BY <2>1, <2>3
  <2>5. \A k \in Pipe : net'[o][k] \in {net[o][k], Append(net[o][k], n)}
    BY <2>1, <2>3
  <2>6. \A k \in Pipe : PipeStep(p, k)
    BY <1>1, <2>4 DEF PipeStep
  <2>7. \A k \in Pipe : PipeStep(o, k)
    BY <2>1, <2>2, <2>5 DEF PipeStep
  <2> QED BY <2>1, <2>6, <2>7 DEF Peer
<1> QED
  BY <1>2, <1>3
  DEF IsNextExpected, DeliverResponse, DeliverExpected, DeliverLater

LEMMA PipeStepNext ==
  ASSUME TypeInv, [Next]_vars, NEW q \in Peer, NEW k \in Pipe
  PROVE  PipeStep(q, k)
<1> USE DEF TypeInv, TypeOK
<1>1. CASE net' = net
  BY <1>1 DEF PipeStep
<1>2. ASSUME NEW p \in Peer, SendStep(p) PROVE PipeStep(q, k)
  <2>1. PICK orig \in Held(p) \cup {0}, rsp \in DOMAIN RspApi :
          \/ \E j \in Pipe, w \in Which : Send(p, j, w, orig, rsp)
          \/ net' = net
    BY <1>2 DEF SendStep, SendFails, SendAfterEnd
  <2>2. ASSUME NEW j \in Pipe, NEW w \in Which, Send(p, j, w, orig, rsp)
        PROVE  PipeStep(q, k)
    <3> DEFINE m == [id |-> sndNext[p], orig |-> orig, which |-> w,
                     tok |-> token[p]]
               o == Other(p)
    <3>1. m \in Msg /\ m.tok = token[p]
      BY HeldIds DEF SndTypes, AuthTypes, Msg
    <3>2. net' = [net EXCEPT ![o][j] = Append(@, m)]
      BY <2>2 DEF Send
    <3>3. phase'[p] # "SRV_LOG_IN"
      BY <2>2 DEF Send, AuthTypes
    <3>4. o \in Peer /\ o # p /\ Other(o) = p
      BY OtherPeer DEF Peer
    <3> HIDE DEF m, o
    <3>5. \/ net'[q][k] = net[q][k]
          \/ q = o /\ net'[q][k] = Append(net[q][k], m)
      <4> DEFINE r == [net[o] EXCEPT ![j] = Append(@, m)]
      <4>1. net' = [net EXCEPT ![o] = r]
        BY <3>2
      <4>2. net[o] \in [Pipe -> Seq(Msg)] /\ net \in [Peer -> [Pipe -> Seq(Msg)]]
        BY <3>4
      <4>3. r[k] = IF k = j THEN Append(net[o][k], m) ELSE net[o][k]
        BY <4>2
      <4> HIDE DEF r
      <4>4. net'[q] = IF q = o THEN r ELSE net[q]
        BY <4>1, <4>2
      <4> QED BY <4>3, <4>4
    <3> QED BY <3>1, <3>3, <3>4, <3>5 DEF PipeStep
  <2> QED BY <1>1, <2>1, <2>2
<1>3. ASSUME NEW p \in Peer, ApiStep(p) PROVE PipeStep(q, k)
  BY <1>1, <1>2, <1>3
  DEF ApiStep, StartAndPoll, RequestRefused, EndSending, UndoExpectResponses,
      SetHandler, UnsetHandler, ExpectMsg, ExpectMsgs, UndoExpectMsgs,
      ExpectLogInRequest
<1>4. ASSUME NEW p \in Peer, NEW j \in Pipe, ReadStep(p, j) \/ Break(p, j)
      PROVE  PipeStep(q, k)
  <2>1. CASE ReceiveNext(p, j)
    BY <2>1, HeadIsMsg, PipeStepDeliver DEF ReceiveNext, MsgAt
  <2>2. ASSUME net[p][j] # <<>>, net' = [net EXCEPT ![p] = Rest(p, j)]
        PROVE  PipeStep(q, k)
    BY <2>2 DEF PipeStep, Rest
  <2>3. CASE ReadIgnored(p, j)
    BY <2>3 DEF ReadIgnored, PipeStep
  <2> QED
    BY <1>1, <1>4, <2>1, <2>2, <2>3
    DEF ReadStep, ReceiveBad, ReceiveInternal, ReceiveEarly, MsgAt, ReadFails,
        Break
<1>5. ASSUME NEW p \in Peer, ThreadStep(p) PROVE PipeStep(q, k)
  <2>1. CASE \E m \in reasm[p] : Flush(p, m)
    <3>1. PICK m \in Msg : IsNextExpected(p, m, net[p])
      BY <2>1 DEF Flush, RcvTypes
    <3> QED BY <3>1, PipeStepDeliver, InternalPipeIsPipe
  <2> QED BY <1>1, <1>5, <2>1 DEF ThreadStep, Fire
<1>6. CASE UNCHANGED vars
  BY <1>1, <1>6 DEF vars
<1> QED BY <1>3, <1>4, <1>5, <1>6 DEF Next

(* A message on a pipe was there before the step, or is authentic.         *)
LEMMA MessagesAuthentic ==
  ASSUME TypeInv, [Next]_vars, NEW q \in Peer, NEW k \in Pipe,
         NEW i \in 1..Len(net'[q][k])
  PROVE  \/ \E j \in 1..Len(net[q][k]) : net'[q][k][i] = net[q][k][j]
         \/ /\ net'[q][k][i].tok = token[Other(q)]
            /\ net'[q][k][i].id # 0 => phase'[Other(q)] # "SRV_LOG_IN"
<1>1. net[q][k] \in Seq(Msg)
  BY DEF TypeInv, TypeOK
<1>2. CASE net'[q][k] = net[q][k]
  BY <1>2
<1>3. CASE net[q][k] # <<>> /\ net'[q][k] = Tail(net[q][k])
  <2>1. i + 1 \in 1..Len(net[q][k]) /\ net'[q][k][i] = net[q][k][i + 1]
    BY <1>1, <1>3, HeadTailProperties
  <2> QED BY <2>1
<1>4. ASSUME NEW m \in Msg, net'[q][k] = Append(net[q][k], m),
             m.tok = token[Other(q)],
             m.id # 0 => phase'[Other(q)] # "SRV_LOG_IN"
      PROVE  \/ \E j \in 1..Len(net[q][k]) : net'[q][k][i] = net[q][k][j]
             \/ /\ net'[q][k][i].tok = token[Other(q)]
                /\ net'[q][k][i].id # 0 => phase'[Other(q)] # "SRV_LOG_IN"
  <2>1. i \in 1..Len(net[q][k]) \/ i = Len(net[q][k]) + 1
    BY <1>1, <1>4, AppendProperties
  <2>2. CASE i \in 1..Len(net[q][k])
    BY <1>1, <1>4, <2>2, AppendProperties
  <2>3. CASE i = Len(net[q][k]) + 1
    <3>1. net'[q][k][i] = m
      BY <1>1, <1>4, <2>3, AppendProperties
    <3> QED BY <1>4, <3>1
  <2> QED BY <2>1, <2>2, <2>3
<1> QED BY <1>2, <1>3, <1>4, PipeStepNext DEF PipeStep

(* How phase and token change: a server is logged in by the response it    *)
(* sends, a client by a user message it receives, whose token it takes.    *)
LEMMA AuthStep ==
  ASSUME TypeInv, [Next]_vars
  PROVE  \/ UNCHANGED authVars
         \/ \E p \in Peer : /\ phase[p] = "SRV_LOG_IN"
                            /\ phase' = [phase EXCEPT ![p] = "LOGGED_IN"]
                            /\ UNCHANGED token
         \/ \E p \in Peer, k \in Pipe :
              LET m == Head(net[p][k])
              IN  /\ phase[p] = "CLI_LOG_IN"
                  /\ net[p][k] # <<>> /\ m.id # 0
                  /\ phase' = [phase EXCEPT ![p] = "LOGGED_IN"]
                  /\ token' = [token EXCEPT ![p] = m.tok]
<1> USE DEF TypeInv, TypeOK, AuthTypes
<1>1. ASSUME NEW p \in Peer, SendStep(p)
      PROVE  \/ UNCHANGED authVars
             \/ /\ phase[p] = "SRV_LOG_IN"
                /\ phase' = [phase EXCEPT ![p] = "LOGGED_IN"]
                /\ UNCHANGED token
  <2>1. \/ UNCHANGED authVars
        \/ \E orig, rsp : \E k \in Pipe, w \in Which : Send(p, k, w, orig, rsp)
    BY <1>1 DEF SendStep, SendFails, SendAfterEnd
  <2>2. ASSUME NEW orig, NEW rsp, NEW k \in Pipe, NEW w \in Which,
               Send(p, k, w, orig, rsp)
        PROVE  /\ phase' = [phase EXCEPT ![p] = IF @ = "SRV_LOG_IN"
                                                THEN "LOGGED_IN" ELSE @]
               /\ UNCHANGED token
    BY <2>2 DEF Send
  <2>3. CASE phase[p] = "SRV_LOG_IN"
    BY <2>1, <2>2, <2>3
  <2>4. ASSUME phase[p] # "SRV_LOG_IN",
               phase' = [phase EXCEPT ![p] = IF @ = "SRV_LOG_IN"
                                             THEN "LOGGED_IN" ELSE @]
        PROVE  phase' = phase
    BY <2>4
  <2> QED BY <2>1, <2>2, <2>3, <2>4 DEF authVars
<1>2. ASSUME NEW p \in Peer, ApiStep(p), ~SendStep(p) PROVE UNCHANGED authVars
  BY <1>2
  DEF ApiStep, StartAndPoll, RequestRefused, EndSending, UndoExpectResponses,
      SetHandler, UnsetHandler, ExpectMsg, ExpectMsgs, UndoExpectMsgs,
      ExpectLogInRequest
<1>3. ASSUME NEW p \in Peer, NEW k \in Pipe, ReceiveNext(p, k)
      PROVE  \/ UNCHANGED authVars
             \/ LET m == Head(net[p][k])
                IN  /\ phase[p] = "CLI_LOG_IN"
                    /\ net[p][k] # <<>> /\ m.id # 0
                    /\ phase' = [phase EXCEPT ![p] = "LOGGED_IN"]
                    /\ token' = [token EXCEPT ![p] = m.tok]
  BY <1>3 DEF ReceiveNext, MsgAt, RcvTypes
<1>4. ASSUME NEW p \in Peer, NEW k \in Pipe, ReadStep(p, k) \/ Break(p, k),
             ~ReceiveNext(p, k)
      PROVE  UNCHANGED authVars
  BY <1>4
  DEF ReadStep, ReceiveBad, ReceiveInternal, ReceiveEarly, ReadFails,
      ReadIgnored, Break
<1>5. ASSUME NEW p \in Peer, ThreadStep(p) PROVE UNCHANGED authVars
  BY <1>5 DEF ThreadStep, Fire, Flush
<1>6. CASE UNCHANGED vars
  BY <1>6 DEF vars, authVars
<1>7. CASE \E p \in Peer : ApiStep(p)
  BY <1>1, <1>2, <1>7
<1>8. CASE \E p \in Peer, k \in Pipe : ReadStep(p, k) \/ Break(p, k)
  <2>1. PICK p \in Peer, k \in Pipe : ReadStep(p, k) \/ Break(p, k)
    BY <1>8
  <2>2. CASE ReceiveNext(p, k)
    BY <1>3, <2>2
  <2>3. CASE ~ReceiveNext(p, k)
    BY <1>4, <2>1, <2>3
  <2> QED BY <2>2, <2>3
<1>9. CASE \E p \in Peer : ThreadStep(p)
  BY <1>5, <1>9
<1> QED BY <1>6, <1>7, <1>8, <1>9 DEF Next

(* Every message on the way carries its sender's token.  The server of a   *)
(* master channel sends user messages only once it is logged in, and the   *)
(* client takes the token from one of them.                                *)
LoggingIn ==
  /\ phase["cli"] \in {"CLI_LOG_IN", "LOGGED_IN"}
  /\ phase["srv"] \in {"SRV_LOG_IN", "LOGGED_IN"}
  /\ token["srv"] \in Token
  /\ phase["cli"] = "CLI_LOG_IN" => token["cli"] = Nil
  /\ phase["cli"] = "LOGGED_IN" =>
       phase["srv"] = "LOGGED_IN" /\ token["cli"] = token["srv"]
  /\ \A k \in Pipe : \A i \in 1..Len(net["cli"][k]) :
       /\ net["cli"][k][i].tok = token["srv"]
       /\ net["cli"][k][i].id # 0 => phase["srv"] = "LOGGED_IN"

OneSession ==
  \A p \in Peer :
    /\ phase[p] = "LOGGED_IN" /\ token[p] \in Token
    /\ \A k \in Pipe : \A i \in 1..Len(net[p][k]) :
         net[p][k][i].tok = token[Other(p)]

Authentic == IF LogIn THEN LoggingIn ELSE OneSession

LEMMA AuthenticInit == Init => Authentic
BY DEF Init, Authentic, LoggingIn, OneSession, Peer

LEMMA AuthenticNext == TypeInv /\ Authentic /\ [Next]_vars => Authentic'
<1> SUFFICES ASSUME TypeInv, Authentic, [Next]_vars PROVE Authentic'
  OBVIOUS
<1>1. phase \in [Peer -> Phase] /\ token \in [Peer -> Token \cup {Nil}]
  BY DEF TypeInv, TypeOK, AuthTypes
<1>2. ASSUME NEW p \in Peer, NEW k \in Pipe, net[p][k] # <<>>
      PROVE  1 \in 1..Len(net[p][k]) /\ Head(net[p][k]) = net[p][k][1]
  BY <1>2, EmptySeq DEF TypeInv, TypeOK
<1>3. CASE LogIn
  <2>1. Other("cli") = "srv" /\ Other("srv") = "cli"
    BY OtherPeer DEF Peer
  <2>2. LoggingIn
    BY <1>3 DEF Authentic
  <2>3. token'["srv"] = token["srv"]
        /\ (phase["srv"] = "LOGGED_IN" => phase'["srv"] = "LOGGED_IN")
        /\ phase'["srv"] \in {"SRV_LOG_IN", "LOGGED_IN"}
    BY <1>1, <2>2, AuthStep DEF LoggingIn, authVars, Peer
  <2>4. ASSUME NEW k \in Pipe, NEW i \in 1..Len(net'["cli"][k])
        PROVE  /\ net'["cli"][k][i].tok = token'["srv"]
               /\ net'["cli"][k][i].id # 0 => phase'["srv"] = "LOGGED_IN"
    <3>1. CASE \E j \in 1..Len(net["cli"][k]) :
                 net'["cli"][k][i] = net["cli"][k][j]
      BY <2>2, <2>3, <3>1 DEF LoggingIn
    <3>2. CASE /\ net'["cli"][k][i].tok = token["srv"]
               /\ net'["cli"][k][i].id # 0 => phase'["srv"] # "SRV_LOG_IN"
      BY <2>3, <3>2
    <3> QED BY <2>1, <3>1, <3>2, MessagesAuthentic DEF Peer
  <2>5. /\ phase'["cli"] \in {"CLI_LOG_IN", "LOGGED_IN"}
        /\ phase'["cli"] = "CLI_LOG_IN" => token'["cli"] = Nil
        /\ phase'["cli"] = "LOGGED_IN" =>
             phase'["srv"] = "LOGGED_IN" /\ token'["cli"] = token'["srv"]
    <3>1. CASE UNCHANGED authVars
      BY <2>2, <3>1 DEF LoggingIn, authVars
    <3>2. CASE \E p \in Peer : /\ phase[p] = "SRV_LOG_IN"
                               /\ phase' = [phase EXCEPT ![p] = "LOGGED_IN"]
                               /\ UNCHANGED token
      BY <1>1, <2>2, <3>2 DEF LoggingIn, Peer
    <3>3. ASSUME NEW p \in Peer, NEW k \in Pipe,
                 phase[p] = "CLI_LOG_IN", net[p][k] # <<>>,
                 Head(net[p][k]).id # 0,
                 phase' = [phase EXCEPT ![p] = "LOGGED_IN"],
                 token' = [token EXCEPT ![p] = Head(net[p][k]).tok]
          PROVE  /\ phase'["cli"] = "LOGGED_IN" /\ phase'["srv"] = "LOGGED_IN"
                 /\ token'["cli"] = token'["srv"]
      <4>1. p = "cli"
        BY <2>2, <3>3 DEF LoggingIn, Peer
      <4>2. Head(net[p][k]).tok = token["srv"] /\ phase["srv"] = "LOGGED_IN"
        BY <1>2, <2>2, <3>3, <4>1 DEF LoggingIn
      <4> QED BY <1>1, <3>3, <4>1, <4>2 DEF Peer
    <3> QED BY <3>1, <3>2, <3>3, AuthStep
  <2> QED BY <1>3, <2>2, <2>3, <2>4, <2>5 DEF Authentic, LoggingIn
<1>4. CASE ~LogIn
  <2>1. OneSession
    BY <1>4 DEF Authentic
  <2>2. UNCHANGED authVars
    BY <2>1, AuthStep DEF OneSession
  <2>3. ASSUME NEW p \in Peer, NEW k \in Pipe, NEW i \in 1..Len(net'[p][k])
        PROVE  net'[p][k][i].tok = token'[Other(p)]
    BY <2>1, <2>2, MessagesAuthentic DEF OneSession, authVars
  <2> QED BY <1>4, <2>1, <2>2, <2>3 DEF Authentic, OneSession, authVars
<1> QED BY <1>3, <1>4

(* Log-in agreement: a client that is logged in faces a server that is,    *)
(* and both hold the token the server chose.                               *)
THEOREM LogInAgreementAlways == Spec => []LogInAgreement
<1>1. TypeInv /\ Authentic => LogInAgreement
  BY DEF Authentic, LoggingIn, LogInAgreement
<1> QED BY <1>1, TypeInit, TypeNext, AuthenticInit, AuthenticNext, PTL DEF Spec

-----------------------------------------------------------------------------
(* Two channels of different sessions, neither of which logs in.           *)
Foreign == ~LogIn /\ token["cli"] # token["srv"]

(* The user of such a channel has nothing and can be handed nothing but    *)
(* the error that hosed it.                                                *)
Quiet(p) ==
  /\ reasm[p] = {} /\ qdMsgs[p] = <<>>
  /\ \A w \in Which : pending[p][w] = <<>>
  /\ IF err[p] = "ok" THEN hq[p] = <<>> /\ log[p] = <<>>
     ELSE \/ hq[p] = <<Ev("on_error", 0)>> /\ log[p] = <<>>
          \/ /\ hq[p] = <<>>
             /\ log[p] \in {<<Ev("on_error", 0)>>, <<Ev("send_error", 0)>>}

ForeignQuiet == Foreign => \A p \in Peer : Quiet(p)

quietVars == <<reasm, qdMsgs, pending, err, hq, log>>

(* Every message that arrives fails the token check.                       *)
LEMMA ForeignIsBad ==
  ASSUME TypeInv, Authentic, Foreign, NEW p \in Peer, NEW k \in Pipe,
         net[p][k] # <<>>
  PROVE  InMsgError(p, Head(net[p][k])) = "BAD_AUTH"
<1>1. OneSession
  BY DEF Authentic, Foreign
<1>2. Head(net[p][k]).tok = token[Other(p)]
  <2>1. 1 \in 1..Len(net[p][k]) /\ Head(net[p][k]) = net[p][k][1]
    BY EmptySeq DEF TypeInv, TypeOK
  <2> QED BY <1>1, <2>1 DEF OneSession
<1>3. token[Other(p)] # token[p]
  BY OtherPeer DEF Foreign, Peer
<1> QED BY <1>1, <1>2, <1>3 DEF OneSession, InMsgError, TokenError

(* Tokens change during log-in only.                                       *)
LEMMA ForeignKept ==
  ASSUME TypeInv, Authentic, [Next]_vars, Foreign'
  PROVE  Foreign
<1>1. ~LogIn /\ OneSession
  BY DEF Foreign, Authentic
<1>2. UNCHANGED authVars
  BY <1>1, AuthStep DEF OneSession
<1> QED BY <1>2 DEF Foreign, authVars

LEMMA ForeignQuietNext ==
  TypeInv /\ Authentic /\ ForeignQuiet /\ [Next]_vars => ForeignQuiet'
<1> SUFFICES ASSUME TypeInv, Authentic, ForeignQuiet, [Next]_vars, Foreign',
                    NEW q \in Peer
             PROVE  Quiet(q)'
  BY DEF ForeignQuiet
<1>1. Foreign /\ \A p \in Peer : Quiet(p)
  BY ForeignKept DEF ForeignQuiet
<1>2. \A p \in Peer : phase[p] = "LOGGED_IN"
  BY <1>1 DEF Foreign, Authentic, OneSession
<1>3. CASE UNCHANGED quietVars
  BY <1>1, <1>3 DEF Quiet, quietVars
<1>4. ASSUME NEW p \in Peer, NEW e \in Error \ {"ok"}, NewError(p, e),
             err[p] = "ok", UNCHANGED <<reasm, qdMsgs, pending, log>>
      PROVE  Quiet(q)'
  <2>1. hq[p] = <<>> /\ log[p] = <<>>
    BY <1>1, <1>4 DEF Quiet
  <2>2. Append(hq[p], Ev("on_error", 0)) = <<Ev("on_error", 0)>>
    BY <2>1
  <2>3. /\ hq' = [hq EXCEPT ![p] = <<Ev("on_error", 0)>>]
        /\ err' = [err EXCEPT ![p] = e]
    BY <1>4, <2>2 DEF NewError
  <2> QED BY <1>1, <1>4, <2>1, <2>3 DEF Quiet, TypeInv, TypeOK
<1>5. ASSUME NEW p \in Peer, SendStep(p) PROVE Quiet(q)'
  <2>1. ASSUME NEW k \in Pipe, NEW orig, NEW rsp, SendFails(p, k, orig, rsp)
        PROVE  Quiet(q)'
    <3>1. hq[p] = <<>> /\ log[p] = <<>>
      BY <1>1, <2>1 DEF SendFails, SendCallable, Quiet
    <3>2. /\ log' = [log EXCEPT ![p] = <<Ev("send_error", 0)>>]
          /\ err' = [err EXCEPT ![p] = "SEND"]
          /\ UNCHANGED <<reasm, qdMsgs, pending, hq>>
      BY <2>1, <3>1 DEF SendFails, rcvVars, expVars
    <3> QED BY <1>1, <3>1, <3>2 DEF Quiet, TypeInv, TypeOK, UserTypes
  <2> QED
    BY <1>3, <1>5, <2>1
    DEF SendStep, Send, SendAfterEnd, quietVars, rcvVars, expVars, userVars
<1>6. ASSUME NEW p \in Peer, NEW w \in Which,
             ExpectMsg(p, w) \/ ExpectMsgs(p, w) \/ UndoExpectMsgs(p, w)
      PROVE  Quiet(q)'
  <2>1. pending[p][w] = <<>> /\ qdMsgs[p] = <<>>
    BY <1>1 DEF Quiet
  <2>2. CASE ExpectMsg(p, w) \/ UndoExpectMsgs(p, w)
    BY <1>3, <2>1, <2>2
    DEF ExpectMsg, UndoExpectMsgs, quietVars, rcvVars, userVars
  <2>3. CASE ExpectMsgs(p, w)
    <3>1. /\ Emit(p, <<>>) /\ qdMsgs' = [qdMsgs EXCEPT ![p] = <<>>]
          /\ pending' = [pending EXCEPT ![p][w] = <<>>]
          /\ UNCHANGED <<reasm, err, hq>>
      BY <2>1, <2>3 DEF ExpectMsgs, rcvVars
    <3>2. log' = log
      <4>1. log[p] \in Seq(Event) /\ log \in [Peer -> Seq(Event)]
        BY DEF TypeInv, TypeOK, UserTypes
      <4>2. log' = [log EXCEPT ![p] = @ \o <<>>]
        BY <3>1 DEF Emit
      <4>3. log[p] \o <<>> = log[p]
        BY <4>1
      <4> QED BY <4>1, <4>2, <4>3
    <3>3. qdMsgs'[q] = <<>> /\ \A v \in Which : pending'[q][v] = <<>>
      BY <1>1, <3>1 DEF Quiet, TypeInv, TypeOK, ExpTypes, UserTypes
    <3> QED BY <1>1, <3>1, <3>2, <3>3 DEF Quiet
  <2> QED BY <1>6, <2>2, <2>3
<1>7. ASSUME NEW p \in Peer, ApiStep(p) PROVE Quiet(q)'
  BY <1>2, <1>3, <1>5, <1>6, <1>7
  DEF ApiStep, StartAndPoll, RequestRefused, EndSending, ExpectLogInRequest,
      UndoExpectResponses, SetHandler, UnsetHandler, quietVars, rcvVars,
      expVars, userVars
<1>8. ASSUME NEW p \in Peer, NEW k \in Pipe, ReadStep(p, k) \/ Break(p, k)
      PROVE  Quiet(q)'
  <2>1. CASE ReceiveBad(p, k)
    <3>1. NewError(p, "BAD_AUTH") /\ err[p] = "ok"
      BY <1>1, <2>1, ForeignIsBad DEF ReceiveBad, MsgAt
    <3>2. UNCHANGED <<reasm, qdMsgs, pending, log>>
      BY <2>1 DEF ReceiveBad, userVars, expVars
    <3> QED BY <1>4, <3>1, <3>2 DEF Error
  <2>2. CASE ReceiveInternal(p, k) \/ ReceiveEarly(p, k) \/ ReceiveNext(p, k)
    BY <1>1, <2>2, ForeignIsBad
    DEF ReceiveInternal, ReceiveEarly, ReceiveNext, MsgAt
  <2>3. CASE ReadFails(p, k)
    <3>1. PICK e \in Error \ {"ok"} : NewError(p, e)
      BY <2>3 DEF ReadFails, ReadError, Error
    <3>2. err[p] = "ok" /\ UNCHANGED <<reasm, qdMsgs, pending, log>>
      BY <2>3 DEF ReadFails, rcvVars, userVars, expVars
    <3> QED BY <1>4, <3>1, <3>2
  <2>4. CASE ReadIgnored(p, k) \/ Break(p, k)
    BY <1>3, <2>4
    DEF ReadIgnored, Break, quietVars, rcvVars, userVars, expVars
  <2> QED BY <1>8, <2>1, <2>2, <2>3, <2>4 DEF ReadStep
<1>9. ASSUME NEW p \in Peer, ThreadStep(p) PROVE Quiet(q)'
  <2>1. Fire(p)
    BY <1>1, <1>9 DEF ThreadStep, Quiet
  <2>2. hq[p] = <<Ev("on_error", 0)>> /\ log[p] = <<>> /\ err[p] # "ok"
    BY <1>1, <2>1 DEF Fire, TypeInv, PostedIsThere, Quiet
  <2>3. Fired(p, Head(hq[p])) = Ev("on_error", 0)
    BY <2>2 DEF Fired, Ignored, Ev
  <2>4. /\ log' = [log EXCEPT ![p] = <<Ev("on_error", 0)>>]
        /\ hq' = [hq EXCEPT ![p] = <<>>]
        /\ UNCHANGED <<reasm, qdMsgs, pending, err>>
    <3>1. Append(log[p], Ev("on_error", 0)) = <<Ev("on_error", 0)>>
          /\ Tail(hq[p]) = <<>>
      BY <2>2
    <3>2. UNCHANGED <<reasm, qdMsgs, pending, err>>
      BY <2>1 DEF Fire, rcvVars, expVars
    <3> QED BY <2>1, <2>3, <3>1, <3>2 DEF Fire
  <2> QED BY <1>1, <2>2, <2>4 DEF Quiet, TypeInv, TypeOK, UserTypes
<1>10. CASE UNCHANGED vars
  BY <1>3, <1>10 DEF vars, quietVars
<1> QED BY <1>7, <1>8, <1>9, <1>10 DEF Next

(* Channels of different sessions exchange nothing: whatever they send, in *)
(* whatever order, no user is handed a message, a response or a notice.    *)
THEOREM NothingAcrossSessionsAlways == Spec => []NothingAcrossSessions
<1>1. Init => ForeignQuiet
  BY DEF Init, ForeignQuiet, Quiet
<1>2. TypeInv /\ Authentic /\ ForeignQuiet => NothingAcrossSessions
  <2> SUFFICES ASSUME Authentic, ForeignQuiet, NEW p \in Peer,
                      Nil \notin {token[p], token[Other(p)]},
                      token[p] # token[Other(p)]
               PROVE  log[p] \in {<<>>, <<Ev("on_error", 0)>>,
                                  <<Ev("send_error", 0)>>}
    BY DEF NothingAcrossSessions
  <2>1. {p, Other(p)} = {"cli", "srv"}
    BY OtherPeer DEF Peer
  <2>2. token["cli"] # token["srv"] /\ token["cli"] # Nil
    BY <2>1
  <2>3. ~LogIn
    BY <2>2 DEF Authentic, LoggingIn
  <2> QED BY <2>2, <2>3 DEF ForeignQuiet, Foreign, Quiet
<1> QED
  BY <1>1, <1>2, TypeInit, TypeNext, AuthenticInit, AuthenticNext,
     ForeignQuietNext, PTL
  DEF Spec

-----------------------------------------------------------------------------
(* Posting a handler, running one, and returning messages from a call:     *)
(* where the errors are among the events.                                  *)
ErrorKinds == {"on_error", "send_error"}

LEMMA ErrorsAppend ==
  ASSUME NEW s \in Seq(Event), NEW e \in Event
  PROVE  ErrorEvents(Append(s, e)) =
           ErrorEvents(s) \cup (IF e.kind \in ErrorKinds THEN {Len(s) + 1}
                                                         ELSE {})
<1> DEFINE t == Append(s, e)
<1>1. Len(t) = Len(s) + 1 /\ Len(s) \in Nat
  BY AppendProperties
<1>2. \A n \in 1..Len(s) : t[n] = s[n]
  BY AppendProperties
<1>3. t[Len(s) + 1] = e
  BY AppendProperties
<1> HIDE DEF t
<1>4. ErrorEvents(t) = {n \in 1..Len(t) : t[n].kind \in ErrorKinds}
  BY DEF ErrorEvents, ErrorKinds
<1>5. ErrorEvents(s) = {n \in 1..Len(s) : s[n].kind \in ErrorKinds}
  BY DEF ErrorEvents, ErrorKinds
<1>6. 1..Len(t) = 1..Len(s) \cup {Len(s) + 1}
  BY <1>1
<1> HIDE DEF ErrorKinds
<1>7. \A n : n \in ErrorEvents(t) <=>
               \/ n \in ErrorEvents(s)
               \/ n = Len(s) + 1 /\ e.kind \in ErrorKinds
  BY <1>1, <1>2, <1>3, <1>4, <1>5, <1>6
<1> QED BY <1>7 DEF t

LEMMA ErrorsTail ==
  ASSUME NEW s \in Seq(Event), s # <<>>
  PROVE  /\ \A n \in Nat : n \in ErrorEvents(Tail(s))
                             <=> n # 0 /\ n + 1 \in ErrorEvents(s)
         /\ ErrorEvents(Tail(s)) \subseteq Nat
         /\ ErrorEvents(s) \subseteq Nat \ {0}
         /\ 1 \in ErrorEvents(s) <=> Head(s).kind \in ErrorKinds
<1>1. /\ Len(Tail(s)) = Len(s) - 1 /\ Len(s) \in Nat \ {0}
      /\ \A n \in 1..Len(Tail(s)) : Tail(s)[n] = s[n + 1]
      /\ Head(s) = s[1]
  BY HeadTailProperties, EmptySeq
<1> DEFINE t == Tail(s)
<1>2. ErrorEvents(t) = {n \in 1..Len(t) : t[n].kind \in ErrorKinds}
  BY DEF ErrorEvents, ErrorKinds
<1>3. ErrorEvents(s) = {n \in 1..Len(s) : s[n].kind \in ErrorKinds}
  BY DEF ErrorEvents, ErrorKinds
<1> HIDE DEF t, ErrorKinds
<1>4. \A n \in Nat : n \in ErrorEvents(t) <=> n # 0 /\ n + 1 \in ErrorEvents(s)
  <2> TAKE n \in Nat
  <2>1. n \in 1..Len(t) <=> n # 0 /\ n + 1 \in 1..Len(s)
    BY <1>1 DEF t
  <2>2. n \in 1..Len(t) => t[n] = s[n + 1]
    BY <1>1 DEF t
  <2> QED BY <1>2, <1>3, <2>1, <2>2
<1>5. ErrorEvents(t) \subseteq Nat /\ ErrorEvents(s) \subseteq Nat \ {0}
  BY <1>1, <1>2, <1>3
<1>6. 1 \in ErrorEvents(s) <=> Head(s).kind \in ErrorKinds
  BY <1>1, <1>3
<1> QED BY <1>4, <1>5, <1>6 DEF t

LEMMA ErrorsEmit ==
  ASSUME NEW s \in Seq(Event), NEW ids \in Seq(Nat)
  PROVE  ErrorEvents(s \o [i \in 1..Len(ids) |-> Ev("msg", ids[i])])
           = ErrorEvents(s)
<1> DEFINE new == [i \in 1..Len(ids) |-> Ev("msg", ids[i])]
           t == s \o new
<1>1. new \in Seq(Event) /\ Len(new) = Len(ids)
      /\ \A n \in 1..Len(new) : new[n].kind = "msg"
  BY DEF Ev, Event
<1> HIDE DEF new
<1>2. /\ Len(t) = Len(s) + Len(new) /\ Len(s) \in Nat /\ Len(new) \in Nat
      /\ \A n \in 1..Len(t) : t[n] = IF n <= Len(s) THEN s[n]
                                                    ELSE new[n - Len(s)]
  <2>1. /\ Len(s \o new) = Len(s) + Len(new)
        /\ \A n \in 1..Len(s) + Len(new) :
             (s \o new)[n] = IF n <= Len(s) THEN s[n] ELSE new[n - Len(s)]
    BY <1>1, ConcatProperties, Zenon
  <2>2. Len(s) \in Nat /\ Len(new) \in Nat
    BY <1>1
  <2> QED BY <2>1, <2>2
<1> HIDE DEF t
<1>3. \A n \in 1..Len(t) : n <= Len(s) \/ t[n].kind = "msg"
  BY <1>1, <1>2
<1>4. \A n \in 1..Len(s) : n \in 1..Len(t) /\ t[n] = s[n]
  BY <1>2
<1>5. \A n : n \in ErrorEvents(t) <=> n \in ErrorEvents(s)
  BY <1>2, <1>3, <1>4 DEF ErrorEvents
<1> QED BY <1>5 DEF t, new

-----------------------------------------------------------------------------
(* ErrorEmittedOnce of one peer.                                           *)
Posted(p) == ErrorEvents(hq[p])
Told(p)   == ErrorEvents(log[p])

EmittedOnce(p) ==
  IF err[p] = "ok" THEN Posted(p) = {} /\ Told(p) = {}
  ELSE \E n : \/ Posted(p) = {n} /\ Told(p) = {}
              \/ Posted(p) = {} /\ Told(p) = {n}

LEMMA EmittedOnceIs ==
  TypeInv => (ErrorEmittedOnce <=> \A p \in Peer : EmittedOnce(p))
BY DEF ErrorEmittedOnce, EmittedOnce, Posted, Told

(* A step leaves the errors of q where they are.                           *)
ErrorsKept(q) == /\ err'[q] = err[q]
                 /\ Posted(q)' = Posted(q) /\ Told(q)' = Told(q)

LEMMA KeptIsOnce ==
  ASSUME NEW q \in Peer, EmittedOnce(q), ErrorsKept(q) PROVE EmittedOnce(q)'
BY DEF EmittedOnce, ErrorsKept

LEMMA NewErrorOnce ==
  ASSUME TypeInv, \A p \in Peer : EmittedOnce(p), NEW p \in Peer, NEW q \in Peer,
         NEW e \in Error \ {"ok"}, err[p] = "ok", NewError(p, e), UNCHANGED log
  PROVE  EmittedOnce(q)'
<1>1. Ev("on_error", 0) \in Event /\ Ev("on_error", 0).kind \in ErrorKinds
  BY DEF Ev, Event, ErrorKinds
<1>2. hq[p] \in Seq(Event) /\ hq \in [Peer -> Seq(Event)]
      /\ err \in [Peer -> Error]
  BY DEF TypeInv, TypeOK
<1>3. /\ hq'[p] = Append(hq[p], Ev("on_error", 0)) /\ err'[p] = e
      /\ q # p => hq'[q] = hq[q] /\ err'[q] = err[q]
  BY <1>2 DEF NewError
<1>4. CASE q = p
  <2>1. Posted(p)' = Posted(p) \cup {Len(hq[p]) + 1}
    BY <1>1, <1>2, <1>3, ErrorsAppend DEF Posted
  <2> QED BY <1>3, <1>4, <2>1 DEF EmittedOnce, Told
<1>5. CASE q # p
  BY <1>3, <1>5, KeptIsOnce DEF ErrorsKept, Posted, Told
<1> QED BY <1>4, <1>5

(* Handlers that are posted for in-messages carry no error.                *)
LEMMA PostKeeps ==
  ASSUME TypeInv, NEW p \in Peer, NEW q \in Peer,
         NEW e \in Event, e.kind \notin ErrorKinds,
         hq' = [hq EXCEPT ![p] = Append(@, e)], UNCHANGED <<err, log>>
  PROVE  ErrorsKept(q)
<1>1. hq[p] \in Seq(Event) /\ hq \in [Peer -> Seq(Event)]
  BY DEF TypeInv, TypeOK
<1>2. Posted(p)' = Posted(p)
  BY <1>1, ErrorsAppend DEF Posted
<1>3. q # p => Posted(q)' = Posted(q)
  BY <1>1 DEF Posted
<1> QED BY <1>2, <1>3 DEF ErrorsKept, Told

LEMMA DeliverKeeps ==
  ASSUME TypeInv, NEW p \in Peer, NEW q \in Peer, NEW m \in Msg, NEW pipes,
         IsNextExpected(p, m, pipes), UNCHANGED <<err, log>>
  PROVE  ErrorsKept(q)
<1>1. \A kind \in {"rsp", "unexpected", "msg"} :
        Ev(kind, m.id) \in Event /\ Ev(kind, m.id).kind \notin ErrorKinds
  BY DEF Ev, Event, Msg, ErrorKinds
<1>2. \/ \E kind \in {"rsp", "unexpected", "msg"} :
           hq' = [hq EXCEPT ![p] = Append(@, Ev(kind, m.id))]
      \/ hq' = hq
  BY DEF IsNextExpected, DeliverResponse, DeliverUnexpected, DeliverExpected,
         DeliverLater
<1>3. CASE hq' = hq
  BY <1>3 DEF ErrorsKept, Posted, Told
<1> QED BY <1>1, <1>2, <1>3, PostKeeps

LEMMA EmitKeeps ==
  ASSUME TypeInv, NEW p \in Peer, NEW q \in Peer, NEW ids \in Seq(Nat),
         Emit(p, ids), UNCHANGED <<err, hq>>
  PROVE  ErrorsKept(q)
<1> DEFINE new == [i \in 1..Len(ids) |-> Ev("msg", ids[i])]
<1>1. log[p] \in Seq(Event) /\ log \in [Peer -> Seq(Event)]
  BY DEF TypeInv, TypeOK, UserTypes
<1>2. ErrorEvents(log[p] \o new) = ErrorEvents(log[p])
  BY <1>1, ErrorsEmit
<1>3. log' = [log EXCEPT ![p] = @ \o new]
  BY DEF Emit
<1> HIDE DEF new
<1>4. Told(q)' = Told(q)
  BY <1>1, <1>2, <1>3 DEF Told
<1> QED BY <1>4 DEF ErrorsKept, Posted

(* A handler that is run carries its error, if it is one, to the user.     *)
LEMMA FireOnce ==
  ASSUME TypeInv, NEW p \in Peer, EmittedOnce(p), Fire(p)
  PROVE  EmittedOnce(p)'
<1> DEFINE e == Head(hq[p])
           f == Fired(p, e)
<1>1. hq[p] \in Seq(Event) /\ hq[p] # <<>> /\ log[p] \in Seq(Event)
  BY DEF Fire, TypeInv, TypeOK, UserTypes, PostedIsThere
<1>2. e \in Event
  BY <1>1
<1>3. f \in Event /\ (f.kind \in ErrorKinds <=> e.kind \in ErrorKinds)
  BY <1>2 DEF Fired, Ignored, Ev, Event, ErrorKinds
<1>4. hq'[p] = Tail(hq[p]) /\ log'[p] = Append(log[p], f) /\ err'[p] = err[p]
  BY DEF Fire, TypeInv, TypeOK, UserTypes
<1> HIDE DEF e, f
<1>5. Told(p)' = Told(p) \cup IF e.kind \in ErrorKinds THEN {Len(log[p]) + 1}
                                                       ELSE {}
  BY <1>1, <1>3, <1>4, ErrorsAppend DEF Told
<1>6. /\ \A n \in Nat : n \in Posted(p)' <=> n # 0 /\ n + 1 \in Posted(p)
      /\ Posted(p)' \subseteq Nat /\ Posted(p) \subseteq Nat \ {0}
      /\ 1 \in Posted(p) <=> e.kind \in ErrorKinds
  BY <1>1, <1>4, ErrorsTail DEF Posted, e
<1>7. CASE Posted(p) = {}
  BY <1>4, <1>5, <1>6, <1>7 DEF EmittedOnce
<1>8. ASSUME NEW n, Posted(p) = {n}, Told(p) = {}, err[p] # "ok"
      PROVE  EmittedOnce(p)'
  <2>1. CASE n = 1
    <3>1. Posted(p)' = {}
      BY <1>6, <1>8, <2>1
    <3>2. Told(p)' = {Len(log[p]) + 1}
      BY <1>5, <1>6, <1>8, <2>1
    <3> QED BY <1>4, <1>8, <3>1, <3>2 DEF EmittedOnce
  <2>2. CASE n # 1
    <3>1. n \in Nat /\ n - 1 \in Nat \ {0} /\ (n - 1) + 1 = n
      BY <1>6, <1>8, <2>2
    <3>2. \A i \in Nat : i \in Posted(p)' <=> i = n - 1
      BY <1>6, <1>8, <3>1
    <3>3. Posted(p)' = {n - 1}
      BY <1>6, <3>1, <3>2
    <3>4. Told(p)' = {}
      BY <1>5, <1>6, <1>8, <2>2
    <3> QED BY <1>4, <1>8, <3>3, <3>4 DEF EmittedOnce
  <2> QED BY <2>1, <2>2
<1> QED BY <1>7, <1>8 DEF EmittedOnce

LEMMA EmittedOnceNext ==
  ASSUME TypeInv, \A p \in Peer : EmittedOnce(p), [Next]_vars, NEW q \in Peer
  PROVE  EmittedOnce(q)'
<1>1. CASE UNCHANGED <<err, hq, log>>
  BY <1>1, KeptIsOnce DEF ErrorsKept, Posted, Told
<1>2. ASSUME NEW p \in Peer, SendStep(p) PROVE EmittedOnce(q)'
  <2>1. ASSUME NEW k \in Pipe, NEW orig, NEW rsp, SendFails(p, k, orig, rsp)
        PROVE  EmittedOnce(q)'
    <3> DEFINE e == Ev("send_error", 0)
    <3>1. e \in Event /\ e.kind \in ErrorKinds
      BY DEF Ev, Event, ErrorKinds
    <3> HIDE DEF e
    <3>2. /\ log'[p] = Append(log[p], e) /\ err'[p] = "SEND" /\ err[p] = "ok"
          /\ hq' = hq
          /\ q # p => log'[q] = log[q] /\ err'[q] = err[q]
      BY <2>1 DEF SendFails, SendCallable, TypeInv, TypeOK, UserTypes, e
    <3>3. Told(p)' = Told(p) \cup {Len(log[p]) + 1}
      BY <3>1, <3>2, ErrorsAppend DEF Told, TypeInv, TypeOK, UserTypes
    <3>4. EmittedOnce(p)'
      BY <3>2, <3>3 DEF EmittedOnce, Posted
    <3>5. q # p => EmittedOnce(q)'
      BY <3>2, KeptIsOnce DEF ErrorsKept, Posted, Told
    <3> QED BY <3>4, <3>5
  <2> QED
    BY <1>1, <1>2, <2>1 DEF SendStep, Send, SendAfterEnd, userVars
<1>3. ASSUME NEW p \in Peer, NEW w \in Which,
             ExpectMsg(p, w) \/ ExpectMsgs(p, w) \/ ExpectLogInRequest(p, w)
      PROVE  EmittedOnce(q)'
  <2>1. pending[p][w] \in Seq(Nat) /\ qdMsgs[p] \in Seq(Nat)
    BY DEF TypeInv, TypeOK, ExpTypes, UserTypes
  <2>2. \/ UNCHANGED <<err, hq, log>>
        \/ /\ UNCHANGED <<err, hq>>
           /\ pending[p][w] # <<>> /\ Emit(p, <<Head(pending[p][w])>>)
        \/ /\ UNCHANGED <<err, hq>>
           /\ Emit(p, IF pending[p][w] # <<>> THEN pending[p][w]
                                              ELSE qdMsgs[p])
        \/ /\ UNCHANGED log /\ err[p] = "ok"
           /\ NewError(p, "GOT_UNEXPECTED_LOG_IN_REQUEST")
    BY <1>3 DEF ExpectMsg, ExpectMsgs, ExpectLogInRequest
  <2>3. ASSUME NEW ids \in Seq(Nat), Emit(p, ids), UNCHANGED <<err, hq>>
        PROVE  EmittedOnce(q)'
    BY <2>3, EmitKeeps, KeptIsOnce
  <2>4. pending[p][w] # <<>> => <<Head(pending[p][w])>> \in Seq(Nat)
    BY <2>1
  <2>5. "GOT_UNEXPECTED_LOG_IN_REQUEST" \in Error \ {"ok"}
    BY DEF Error
  <2> QED BY <1>1, <2>1, <2>2, <2>3, <2>4, <2>5, NewErrorOnce
<1>4. ASSUME NEW p \in Peer, ApiStep(p) PROVE EmittedOnce(q)'
  BY <1>1, <1>2, <1>3, <1>4
  DEF ApiStep, StartAndPoll, RequestRefused, EndSending, UndoExpectMsgs,
      UndoExpectResponses, SetHandler, UnsetHandler, userVars
<1>5. ASSUME NEW p \in Peer, NEW k \in Pipe, ReadStep(p, k) \/ Break(p, k)
      PROVE  EmittedOnce(q)'
  <2>1. CASE ReceiveBad(p, k)
    <3> DEFINE e == InMsgError(p, Head(net[p][k]))
    <3>1. e \in Error \ {"ok"}
      BY <2>1
      DEF ReceiveBad, InMsgError, TokenError, SequenceError, LogInError, Error,
          TypeInv, TypeOK, AuthTypes, Phase
    <3>2. NewError(p, e) /\ err[p] = "ok" /\ UNCHANGED log
      BY <2>1 DEF ReceiveBad, MsgAt, userVars
    <3> QED BY <3>1, <3>2, NewErrorOnce
  <2>2. CASE ReceiveInternal(p, k)
    <3> DEFINE e == Ev("remote_unexpected", Head(net[p][k]).orig)
    <3>1. e \in Event /\ e.kind \notin ErrorKinds
      BY <2>2, HeadIsMsg
      DEF ReceiveInternal, MsgAt, Ev, Event, Msg, ErrorKinds
    <3>2. hq' = [hq EXCEPT ![p] = Append(@, e)] /\ UNCHANGED <<err, log>>
      BY <2>2 DEF ReceiveInternal, userVars
    <3> QED BY <3>1, <3>2, PostKeeps, KeptIsOnce
  <2>3. CASE ReceiveNext(p, k)
    <3>1. Head(net[p][k]) \in Msg
      BY <2>3, HeadIsMsg DEF ReceiveNext, MsgAt
    <3>2. IsNextExpected(p, Head(net[p][k]), Rest(p, k))
          /\ UNCHANGED <<err, log>>
      BY <2>3 DEF ReceiveNext, userVars
    <3> QED BY <3>1, <3>2, DeliverKeeps, KeptIsOnce
  <2>4. CASE ReadFails(p, k)
    <3>1. PICK e \in Error \ {"ok"} : NewError(p, e)
      BY <2>4 DEF ReadFails, ReadError, Error
    <3>2. err[p] = "ok" /\ UNCHANGED log
      BY <2>4 DEF ReadFails, userVars
    <3> QED BY <3>1, <3>2, NewErrorOnce
  <2> QED
    BY <1>1, <1>5, <2>1, <2>2, <2>3, <2>4
    DEF ReadStep, ReceiveEarly, ReadIgnored, Break, userVars
<1>6. ASSUME NEW p \in Peer, ThreadStep(p) PROVE EmittedOnce(q)'
  <2>1. CASE \E m \in reasm[p] : Flush(p, m)
    <3>1. PICK m \in Msg : /\ IsNextExpected(p, m, net[p])
                           /\ UNCHANGED <<err, log>>
      BY <2>1 DEF Flush, TypeInv, TypeOK, RcvTypes, userVars
    <3> QED BY <3>1, DeliverKeeps, KeptIsOnce
  <2>2. CASE Fire(p)
    <3>1. q # p => hq'[q] = hq[q] /\ log'[q] = log[q] /\ err'[q] = err[q]
      BY <2>2 DEF Fire, TypeInv, TypeOK, UserTypes
    <3>2. q # p => EmittedOnce(q)'
      BY <3>1, KeptIsOnce DEF ErrorsKept, Posted, Told
    <3> QED BY <2>2, <3>2, FireOnce
  <2> QED BY <1>6, <2>1, <2>2 DEF ThreadStep
<1>7. CASE UNCHANGED vars
  BY <1>1, <1>7 DEF vars
<1> QED BY <1>4, <1>5, <1>6, <1>7 DEF Next

(* A pipe-hosing error is emitted once: by the call that met it or through *)
(* the on-error handler, never both, never twice, never on a good channel. *)
THEOREM ErrorEmittedOnceAlways == Spec => []ErrorEmittedOnce
<1> DEFINE Once == \A p \in Peer : EmittedOnce(p)
<1>1. Init => Once
  BY DEF Init, EmittedOnce, Posted, Told, ErrorEvents
<1>2. TypeInv /\ Once /\ [Next]_vars => Once'
  BY EmittedOnceNext
<1>3. TypeInv /\ Once => ErrorEmittedOnce
  BY EmittedOnceIs
<1> HIDE DEF Once
<1> QED BY <1>1, <1>2, <1>3, TypeInit, TypeNext, PTL DEF Spec
=============================================================================
