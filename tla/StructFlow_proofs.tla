------------------------- MODULE StructFlow_proofs -------------------------
(***************************************************************************)
(* Proofs, for every number of messages, of union values and of tokens, of *)
(* what StructChannelProps states of the way of a message from the peer    *)
(* that sends it to the peer that accepts it, and of the peer's thread.    *)
(***************************************************************************)
EXTENDS StructChannel_proofs

-----------------------------------------------------------------------------
(* IdsFresh, one peer at a time.                                           *)
Spent(p) ==
  \A i \in rspOnce[p] \cup rspOpen[p] :
    i < sndNext[p] \/ (i = 1 /\ phase[p] = "SRV_LOG_IN")

LEMMA RegisterSpent ==
  ASSUME TypeInv, \A p \in Peer : Spent(p), NEW p \in Peer, NEW orig, NEW rsp,
         SendCallable(p, orig, rsp), PhaseAllows(p, orig, rsp),
         RegisterResponse(p, rsp), sndNext' = [sndNext EXCEPT ![p] = @ + 1],
         \A q \in Peer \ {p} : phase'[q] = phase[q], NEW q \in Peer
  PROVE  Spent(q)'
<1>1. /\ rspOnce'[q] \subseteq rspOnce[q] \cup IF q = p THEN {sndNext[p]} ELSE {}
      /\ rspOpen'[q] \subseteq rspOpen[q] \cup IF q = p THEN {sndNext[p]} ELSE {}
  BY DEF RegisterResponse, TypeInv, TypeOK, RspTypes
<1>2. /\ sndNext[q] \in Nat \ {0}
      /\ sndNext'[q] = IF q = p THEN sndNext[q] + 1 ELSE sndNext[q]
      /\ rspOnce[q] \subseteq Nat /\ rspOpen[q] \subseteq Nat
  BY DEF TypeInv, TypeOK, SndTypes, RspTypes
<1>3. CASE q = p
  <2>1. \A i \in rspOnce[q] \cup rspOpen[q] : i < sndNext[q] + 1
    BY <1>2 DEF Spent
  <2> QED BY <1>1, <1>2, <1>3, <2>1 DEF Spent
<1>4. CASE q # p
  BY <1>1, <1>2, <1>4 DEF Spent
<1> QED BY <1>3, <1>4

LEMMA SpentNext ==
  ASSUME TypeInv, \A p \in Peer : Spent(p), [Next]_vars, NEW q \in Peer
  PROVE  Spent(q)'
<1> USE DEF TypeInv, TypeOK, RspTypes
<1>1. ASSUME rspOnce'[q] \subseteq rspOnce[q], rspOpen'[q] \subseteq rspOpen[q],
             sndNext'[q] = sndNext[q],
             phase[q] = "SRV_LOG_IN" => phase'[q] = "SRV_LOG_IN"
      PROVE  Spent(q)'
  BY <1>1 DEF Spent
<1>2. ASSUME NEW p \in Peer, SendStep(p) PROVE Spent(q)'
  <2>1. PICK orig \in Held(p) \cup {0}, rsp \in DOMAIN RspApi :
          \/ \E k \in Pipe, w \in Which : Send(p, k, w, orig, rsp)
          \/ \E k \in Pipe : SendFails(p, k, orig, rsp)
          \/ SendAfterEnd(p, orig, rsp)
    BY <1>2 DEF SendStep
  <2>2. /\ SendCallable(p, orig, rsp) /\ PhaseAllows(p, orig, rsp)
        /\ RegisterResponse(p, rsp)
        /\ sndNext' = [sndNext EXCEPT ![p] = @ + 1]
        /\ \A r \in Peer \ {p} : phase'[r] = phase[r]
    BY <2>1 DEF Send, SendFails, SendAfterEnd, authVars, AuthTypes
  <2> QED BY <2>2, RegisterSpent
<1>3. ASSUME NEW p \in Peer, NEW rsp, RequestRefused(p, rsp) PROVE Spent(q)'
  BY <1>3 DEF RequestRefused, RegisterResponse, authVars, sndVars, Spent
<1>4. ASSUME NEW p \in Peer, ApiStep(p) PROVE Spent(q)'
  BY <1>1, <1>2, <1>3, <1>4
  DEF ApiStep, StartAndPoll, EndSending, ExpectMsg, ExpectMsgs, UndoExpectMsgs,
      ExpectLogInRequest, UndoExpectResponses, SetHandler, UnsetHandler,
      authVars, sndVars, rspVars
<1>5. ASSUME NEW p \in Peer, NEW m, NEW pipes, IsNextExpected(p, m, pipes)
      PROVE  rspOnce'[q] \subseteq rspOnce[q] /\ rspOpen'[q] \subseteq rspOpen[q]
  BY <1>5
  DEF IsNextExpected, DeliverResponse, DeliverUnexpected, DeliverExpected,
      DeliverLater, rspVars
<1>6. ASSUME NEW p \in Peer, NEW k \in Pipe, ReadStep(p, k) \/ Break(p, k)
      PROVE  Spent(q)'
  <2>1. CASE ReceiveNext(p, k)
    <3>1. sndNext' = sndNext
      BY <2>1 DEF ReceiveNext, sndVars
    <3>2. phase[q] = "SRV_LOG_IN" => phase'[q] = "SRV_LOG_IN"
      BY <2>1 DEF ReceiveNext, authVars, AuthTypes
    <3>3. rspOnce'[q] \subseteq rspOnce[q] /\ rspOpen'[q] \subseteq rspOpen[q]
      BY <1>5, <2>1 DEF ReceiveNext
    <3> QED BY <1>1, <3>1, <3>2, <3>3
  <2>2. CASE ~ReceiveNext(p, k)
    BY <1>1, <1>6, <2>2
    DEF ReadStep, ReceiveBad, ReceiveInternal, ReceiveEarly, ReadFails,
        ReadIgnored, Break, authVars, sndVars, rspVars
  <2> QED BY <2>1, <2>2
<1>7. ASSUME NEW p \in Peer, ThreadStep(p) PROVE Spent(q)'
  BY <1>1, <1>5, <1>7
  DEF ThreadStep, Fire, Flush, authVars, sndVars, rspVars
<1>8. CASE UNCHANGED vars
  BY <1>1, <1>8 DEF vars
<1> QED BY <1>4, <1>6, <1>7, <1>8 DEF Next

(* The ID of a request whose response is expected is spent, be the request *)
(* sent, refused by the transport or too late; the one exception is what a *)
(* refused request of a server in log-in leaves.                           *)
THEOREM IdsFreshAlways == Spec => []IdsFresh
<1> DEFINE AllSpent == \A p \in Peer : Spent(p)
<1>1. Init => AllSpent
  BY DEF Init, Spent
<1>2. TypeInv /\ AllSpent /\ [Next]_vars => AllSpent'
  BY SpentNext
<1>3. AllSpent => IdsFresh
  BY DEF Spent, IdsFresh
<1> HIDE DEF AllSpent
<1> QED BY <1>1, <1>2, <1>3, TypeInit, TypeNext, PTL DEF Spec

(* Hence emplace() never meets an expectation for the ID of a new request, *)
(* but where a server was refused a request before it was logged in.       *)
THEOREM IdsFreshOnceLoggedIn ==
  Spec => [](\A p \in Peer : phase[p] # "SRV_LOG_IN" =>
               sndNext[p] \notin rspOnce[p] \cup rspOpen[p])
<1> DEFINE Fresh == \A p \in Peer : phase[p] # "SRV_LOG_IN" =>
                      sndNext[p] \notin rspOnce[p] \cup rspOpen[p]
<1>1. TypeInv /\ IdsFresh => Fresh
  BY DEF IdsFresh, TypeInv, TypeOK, SndTypes
<1>2. Spec => []Fresh
  <2> HIDE DEF Fresh
  <2> QED BY <1>1, IdsFreshAlways, TypeInit, TypeNext, PTL DEF Spec
<1> QED BY <1>2
-----------------------------------------------------------------------------
(* A step is one of the two peers'.                                        *)
StepOf(p) == \/ ApiStep(p)
             \/ ThreadStep(p)
             \/ \E k \in Pipe : ReadStep(p, k) \/ Break(p, k)

LEMMA StepOfAPeer == Next <=> \E p \in Peer : StepOf(p)
BY DEF Next, StepOf

(* What is q's own.                                                        *)
OwnAuth(q) == <<phase[q], token[q], logInStarted[q], softSet[q]>>
OwnSnd(q)  == <<sndNext[q], sent[q], ended[q], rspOnce[q], rspOpen[q]>>
OwnRcv(q)  == <<rcvNext[q], reasm[q], msgOnce[q], msgOpen[q], pending[q]>>
OwnLoop(q) == <<err[q], hq[q], mode[q], log[q], qdMsgs[q]>>

Untouched(q) == UNCHANGED <<OwnAuth(q), OwnSnd(q), OwnRcv(q), OwnLoop(q)>>

LEMMA UnchangedIsUntouched ==
  ASSUME UNCHANGED vars, NEW q \in Peer PROVE Untouched(q)
BY DEF vars, Untouched, OwnAuth, OwnSnd, OwnRcv, OwnLoop

(* A step of one peer touches nothing that is the other's.                 *)
LEMMA OtherUntouched ==
  ASSUME TypeInv, NEW p \in Peer, StepOf(p), NEW q \in Peer \ {p}
  PROVE  Untouched(q)
<1> USE DEF TypeInv, TypeOK, Untouched, OwnAuth, OwnSnd, OwnRcv, OwnLoop,
            authVars, sndVars, rcvVars, expVars, rspVars, linkVars, userVars
<1>1. ASSUME NEW m, NEW pipes, IsNextExpected(p, m, pipes)
      PROVE  UNCHANGED <<msgOnce[q], msgOpen[q], pending[q], rspOnce[q],
                         rspOpen[q], hq[q]>>
  BY <1>1
  DEF IsNextExpected, DeliverResponse, DeliverUnexpected, DeliverExpected,
      DeliverLater, ExpTypes, RspTypes
<1>2. ASSUME NEW rsp, RegisterResponse(p, rsp)
      PROVE  UNCHANGED <<rspOnce[q], rspOpen[q]>>
  BY <1>2 DEF RegisterResponse, RspTypes
<1>3. ASSUME NEW e, NewError(p, e) PROVE UNCHANGED <<err[q], hq[q]>>
  BY <1>3 DEF NewError
<1>4. ASSUME NEW ids, Emit(p, ids) PROVE UNCHANGED log[q]
  BY <1>4 DEF Emit, UserTypes
<1>5. CASE SendStep(p)
  <2>1. PICK orig \in Held(p) \cup {0}, rsp \in DOMAIN RspApi :
          \/ \E k \in Pipe, w \in Which : Send(p, k, w, orig, rsp)
          \/ \E k \in Pipe : SendFails(p, k, orig, rsp)
          \/ SendAfterEnd(p, orig, rsp)
    BY <1>5 DEF SendStep
  <2>2. CASE \E k \in Pipe, w \in Which : Send(p, k, w, orig, rsp)
    BY <1>2, <2>2 DEF Send, AuthTypes, SndTypes
  <2>3. CASE \E k \in Pipe : SendFails(p, k, orig, rsp)
    BY <1>2, <2>3 DEF SendFails, SndTypes, UserTypes
  <2>4. CASE SendAfterEnd(p, orig, rsp)
    BY <1>2, <2>4 DEF SendAfterEnd, SndTypes
  <2> QED BY <2>1, <2>2, <2>3, <2>4
<1>6. CASE \E rsp \in DOMAIN RspApi : RequestRefused(p, rsp)
  BY <1>2, <1>6 DEF RequestRefused
<1>7. CASE StartAndPoll(p) \/ EndSending(p)
  BY <1>7 DEF StartAndPoll, EndSending, LinkTypes
<1>8. CASE \E w \in Which : ExpectMsg(p, w) \/ ExpectMsgs(p, w)
                              \/ UndoExpectMsgs(p, w) \/ ExpectLogInRequest(p, w)
  <2>1. PICK w \in Which : ExpectMsg(p, w) \/ ExpectMsgs(p, w)
                             \/ UndoExpectMsgs(p, w) \/ ExpectLogInRequest(p, w)
    BY <1>8
  <2>2. CASE ExpectMsg(p, w)
    BY <1>4, <2>2 DEF ExpectMsg, ExpTypes
  <2>3. CASE ExpectMsgs(p, w)
    BY <1>4, <2>3 DEF ExpectMsgs, ExpTypes, UserTypes
  <2>4. CASE UndoExpectMsgs(p, w)
    BY <2>4 DEF UndoExpectMsgs, ExpTypes
  <2>5. CASE ExpectLogInRequest(p, w)
    BY <1>3, <1>4, <2>5 DEF ExpectLogInRequest, ExpTypes
  <2> QED BY <2>1, <2>2, <2>3, <2>4, <2>5
<1>9. CASE \E id \in rspOpen[p] : UndoExpectResponses(p, id)
  BY <1>9 DEF UndoExpectResponses, RspTypes
<1>10. CASE \E h \in DOMAIN Ignored : SetHandler(p, h) \/ UnsetHandler(p, h)
  <2>1. PICK h : SetHandler(p, h) \/ UnsetHandler(p, h)
    BY <1>10
  <2>2. softSet'[q] = softSet[q]
    BY <2>1 DEF SetHandler, UnsetHandler
  <2> QED BY <2>1, <2>2 DEF SetHandler, UnsetHandler
<1>11. ASSUME NEW k \in Pipe, ReadStep(p, k) \/ Break(p, k) PROVE Untouched(q)
  <2>1. CASE ReceiveBad(p, k)
    BY <1>3, <2>1 DEF ReceiveBad, RcvTypes
  <2>2. CASE ReceiveInternal(p, k) \/ ReceiveEarly(p, k)
    BY <2>2 DEF ReceiveInternal, ReceiveEarly, RcvTypes
  <2>3. CASE ReceiveNext(p, k)
    BY <1>1, <2>3 DEF ReceiveNext, RcvTypes, AuthTypes
  <2>4. CASE ReadFails(p, k)
    BY <1>3, <2>4 DEF ReadFails
  <2>5. CASE ReadIgnored(p, k) \/ Break(p, k)
    BY <2>5 DEF ReadIgnored, Break
  <2> QED BY <1>11, <2>1, <2>2, <2>3, <2>4, <2>5 DEF ReadStep
<1>12. CASE Fire(p)
  BY <1>12 DEF Fire, UserTypes
<1>13. CASE \E m \in reasm[p] : Flush(p, m)
  BY <1>1, <1>13 DEF Flush, RcvTypes
<1> QED
  BY <1>5, <1>6, <1>7, <1>8, <1>9, <1>10, <1>11, <1>12, <1>13
  DEF StepOf, ApiStep, ThreadStep
-----------------------------------------------------------------------------
(* What a step of p does to what p has received and has told its user.     *)
Events(ids) == [i \in 1..Len(ids) |-> Ev("msg", ids[i])]

(* m is what p's thread has in hand: the next of a pipe, or of the         *)
(* reassembly queue.                                                       *)
Arrived(p, m) ==
  \/ mode[p] = "flush" /\ m \in reasm[p]
  \/ mode[p] = "idle" /\ \E k \in Pipe : net[p][k] # <<>> /\ m = Head(net[p][k])

Still(p) ==
  /\ UNCHANGED <<err[p], hq[p], log[p], pending[p], rcvNext[p], reasm[p], qdMsgs[p]>>
  /\ \/ mode'[p] = mode[p]
     \/ mode[p] = "idle" /\ err[p] # "ok" /\ mode'[p] = "drain"

SendErrs(p) ==
  /\ err[p] = "ok" /\ err'[p] = "SEND" /\ mode[p] \in {"idle", "user"}
  /\ log'[p] = Append(log[p], Ev("send_error", 0))
  /\ UNCHANGED <<hq[p], pending[p], rcvNext[p], reasm[p], mode[p], qdMsgs[p]>>

Returns(p, w, ids) ==
  /\ err[p] = "ok" /\ mode[p] \in {"idle", "user"}
  /\ log'[p] = log[p] \o Events(ids)
  /\ \/ /\ pending[p][w] # <<>> /\ ids = <<Head(pending[p][w])>>
        /\ pending'[p] = [pending[p] EXCEPT ![w] = Tail(@)]
        /\ UNCHANGED qdMsgs[p]
     \/ /\ ids = IF pending[p][w] # <<>> THEN pending[p][w] ELSE qdMsgs[p]
        /\ pending'[p] = [pending[p] EXCEPT ![w] = <<>>]
        /\ qdMsgs'[p] = IF KeepsList THEN ids ELSE <<>>
  /\ UNCHANGED <<err[p], hq[p], rcvNext[p], reasm[p], mode[p]>>

Hosed(p) ==
  /\ err[p] = "ok" /\ err'[p] \in Error \ {"ok"}
  /\ hq'[p] = Append(hq[p], Ev("on_error", 0))
  /\ \/ rcvNext'[p] = rcvNext[p]
     \/ /\ rcvNext'[p] = rcvNext[p] + 1
        /\ \E m \in Msg : Arrived(p, m) /\ m.id = rcvNext[p]
  /\ \/ mode[p] = "idle" /\ mode'[p] = "drain"
     \/ mode[p] \in {"idle", "user"} /\ mode'[p] = mode[p]
  /\ UNCHANGED <<log[p], pending[p], reasm[p], qdMsgs[p]>>

Takes(p, k, m) == /\ net[p][k] # <<>> /\ m = Head(net[p][k])
                  /\ net'[p] = [net[p] EXCEPT ![k] = Tail(@)]

Informed(p) ==
  /\ err[p] = "ok" /\ mode[p] = "idle" /\ mode'[p] = "drain"
  /\ \E m \in Msg : /\ Arrived(p, m) /\ m.id = 0
                    /\ hq'[p] = Append(hq[p], Ev("remote_unexpected", m.orig))
                    /\ \E k \in Pipe : Takes(p, k, m)
  /\ UNCHANGED <<err[p], log[p], pending[p], rcvNext[p], reasm[p], qdMsgs[p]>>

Keeps(p) ==
  /\ TwoPipes /\ err[p] = "ok" /\ mode[p] = "idle"
  /\ \E m \in Msg : /\ Arrived(p, m) /\ m.id > rcvNext[p]
                    /\ reasm'[p] = reasm[p] \cup {m}
  /\ mode'[p] = IF hq[p] # <<>> THEN "drain" ELSE "idle"
  /\ UNCHANGED <<err[p], hq[p], log[p], pending[p], rcvNext[p], qdMsgs[p]>>

Posts(p, m, kind) ==
  /\ CASE kind = "rsp"        -> m.orig # 0 /\ IsResponseExpected(p, m)
       [] kind = "unexpected" -> m.orig # 0 /\ ~IsResponseExpected(p, m)
       [] kind = "msg"        -> m.orig = 0 /\ m.which \in msgOnce[p] \cup msgOpen[p]
  /\ hq'[p] = Append(hq[p], Ev(kind, m.id)) /\ UNCHANGED pending[p]

Waits(p, m) ==
  /\ m.orig = 0 /\ m.which \notin msgOnce[p] \cup msgOpen[p]
  /\ pending'[p] = [pending[p] EXCEPT ![m.which] = Append(@, m.id)]
  /\ UNCHANGED hq[p]

Accepts(p, m) ==
  /\ err[p] = "ok" /\ Arrived(p, m) /\ m.id = rcvNext[p]
  /\ rcvNext'[p] = rcvNext[p] + 1
  /\ reasm'[p] = IF mode[p] = "flush" THEN reasm[p] \ {m} ELSE reasm[p]
  /\ Waits(p, m) \/ \E kind \in {"rsp", "unexpected", "msg"} : Posts(p, m, kind)
  /\ mode'[p] = NextMode(reasm'[p], rcvNext'[p], hq'[p])
  /\ UNCHANGED <<err[p], log[p], qdMsgs[p]>>

Fires(p) ==
  /\ mode[p] \in {"drain", "user"}
  /\ log'[p] = Append(log[p], Fired(p, Head(hq[p])))
  /\ hq'[p] = Tail(hq[p])
  /\ mode'[p] = IF Len(hq[p]) > 1 THEN "user" ELSE "idle"
  /\ UNCHANGED <<err[p], pending[p], rcvNext[p], reasm[p], qdMsgs[p]>>

UserMove(p) ==
  \/ Still(p)
  \/ SendErrs(p)
  \/ \E w \in Which, ids \in Seq(Nat) : Returns(p, w, ids)
  \/ Hosed(p)
  \/ Informed(p)
  \/ Keeps(p)
  \/ \E m \in Msg : Accepts(p, m)
  \/ Fires(p)

LEMMA UserMoveDeliver ==
  ASSUME TypeInv, NEW p \in Peer, NEW m \in Msg, NEW pipes,
         IsNextExpected(p, m, pipes)
  PROVE  Waits(p, m) \/ \E kind \in {"rsp", "unexpected", "msg"} : Posts(p, m, kind)
<1> USE DEF TypeInv, TypeOK, ExpTypes, Posts, Waits, expVars
<1>1. CASE DeliverResponse(p, m, pipes)
  <2>1. Posts(p, m, "rsp")
    BY <1>1 DEF DeliverResponse
  <2> QED BY <2>1
<1>2. CASE DeliverUnexpected(p, m, pipes)
  <2>1. Posts(p, m, "unexpected")
    BY <1>2 DEF DeliverUnexpected
  <2> QED BY <2>1
<1>3. CASE DeliverExpected(p, m, pipes)
  <2>1. Posts(p, m, "msg")
    BY <1>3 DEF DeliverExpected
  <2> QED BY <2>1
<1>4. CASE DeliverLater(p, m, pipes)
  BY <1>4 DEF DeliverLater
<1> QED BY <1>1, <1>2, <1>3, <1>4 DEF IsNextExpected

LEMMA UserMoveApi ==
  ASSUME TypeInv, NEW p \in Peer, ApiStep(p) PROVE UserMove(p)
<1> USE DEF TypeInv, TypeOK, authVars, sndVars, rcvVars, expVars, rspVars,
            linkVars, userVars
<1>1. ASSUME UNCHANGED <<err, hq, log, pending, rcvNext, reasm, mode, qdMsgs>>
      PROVE  UserMove(p)
  BY <1>1 DEF UserMove, Still
<1>2. CASE SendStep(p)
  <2>1. ASSUME NEW k \in Pipe, NEW orig, NEW rsp, SendFails(p, k, orig, rsp)
        PROVE  SendErrs(p)
    BY <2>1 DEF SendFails, SendCallable, CanCall, SendErrs, UserTypes
  <2>2. ASSUME ~\E k \in Pipe : \E orig, rsp : SendFails(p, k, orig, rsp)
        PROVE  UNCHANGED <<err, hq, log, pending, rcvNext, reasm, mode, qdMsgs>>
    BY <1>2, <2>2, ZenonT(40) DEF SendStep, Send, SendAfterEnd
  <2> QED BY <1>1, <2>1, <2>2 DEF UserMove
<1>3. ASSUME NEW w \in Which,
             ExpectMsg(p, w) \/ ExpectMsgs(p, w) \/ ExpectLogInRequest(p, w)
      PROVE  UserMove(p)
  <2>1. pending[p][w] \in Seq(Nat) /\ qdMsgs[p] \in Seq(Nat)
        /\ (pending[p][w] # <<>> => <<Head(pending[p][w])>> \in Seq(Nat))
    BY DEF ExpTypes, UserTypes
  <2>2. CASE (ExpectMsg(p, w) \/ ExpectLogInRequest(p, w)) /\ pending[p][w] # <<>>
    <3>1. /\ pending' = [pending EXCEPT ![p][w] = Tail(@)]
          /\ Emit(p, <<Head(pending[p][w])>>)
          /\ err[p] = "ok" /\ mode[p] \in {"idle", "user"}
          /\ UNCHANGED <<err, hq, rcvNext, reasm, mode, qdMsgs>>
      BY <2>2 DEF ExpectMsg, ExpectLogInRequest, LoggedInCall, CanCall
    <3>2. log'[p] = log[p] \o Events(<<Head(pending[p][w])>>)
      BY <3>1 DEF Emit, Events, UserTypes
    <3>3. pending'[p] = [pending[p] EXCEPT ![w] = Tail(@)]
      BY <3>1 DEF ExpTypes
    <3>4. Returns(p, w, <<Head(pending[p][w])>>)
      BY <2>2, <3>1, <3>2, <3>3 DEF Returns
    <3> QED BY <2>1, <2>2, <3>4 DEF UserMove
  <2>3. CASE ExpectMsg(p, w) /\ pending[p][w] = <<>>
    BY <1>1, <2>3 DEF ExpectMsg
  <2>4. CASE ExpectLogInRequest(p, w) /\ pending[p][w] = <<>>
    <3>1. /\ err[p] = "ok" /\ mode[p] \in {"idle", "user"}
          /\ UNCHANGED <<log, pending, rcvNext, reasm, mode, qdMsgs>>
          /\ \/ NewError(p, "GOT_UNEXPECTED_LOG_IN_REQUEST")
             \/ UNCHANGED <<err, hq>>
      BY <2>4 DEF ExpectLogInRequest, CanCall
    <3>2. NewError(p, "GOT_UNEXPECTED_LOG_IN_REQUEST") => Hosed(p)
      BY <3>1 DEF NewError, Hosed, Error
    <3> QED BY <1>1, <3>1, <3>2 DEF UserMove
  <2>5. CASE ExpectMsgs(p, w)
    <3> DEFINE list == IF pending[p][w] # <<>> THEN pending[p][w] ELSE qdMsgs[p]
    <3>1. /\ pending' = [pending EXCEPT ![p][w] = <<>>]
          /\ Emit(p, list)
          /\ qdMsgs' = [qdMsgs EXCEPT ![p] = IF KeepsList THEN list ELSE <<>>]
          /\ err[p] = "ok" /\ mode[p] \in {"idle", "user"}
          /\ UNCHANGED <<err, hq, rcvNext, reasm, mode>>
      BY <2>5 DEF ExpectMsgs, LoggedInCall, CanCall
    <3>2. list \in Seq(Nat)
      BY <2>1
    <3>3. log'[p] = log[p] \o Events(list)
      BY <3>1 DEF Emit, Events, UserTypes
    <3>4. pending'[p] = [pending[p] EXCEPT ![w] = <<>>]
      BY <3>1 DEF ExpTypes
    <3>5. qdMsgs'[p] = IF KeepsList THEN list ELSE <<>>
      BY <3>1 DEF UserTypes
    <3>6. Returns(p, w, list)
      BY <3>1, <3>3, <3>4, <3>5 DEF Returns
    <3> QED BY <3>2, <3>6 DEF UserMove
  <2> QED BY <1>3, <2>2, <2>3, <2>4, <2>5
<1> QED
  BY <1>1, <1>2, <1>3
  DEF ApiStep, StartAndPoll, RequestRefused, EndSending, UndoExpectMsgs,
      UndoExpectResponses, SetHandler, UnsetHandler

LEMMA UserMoveRead ==
  ASSUME TypeInv, NEW p \in Peer, NEW k \in Pipe, ReadStep(p, k) \/ Break(p, k)
  PROVE  UserMove(p)
<1> USE DEF TypeInv, TypeOK, authVars, sndVars, rcvVars, expVars, rspVars,
            linkVars, userVars
<1> DEFINE m == Head(net[p][k])
<1>1. MsgAt(p, k) => m \in Msg /\ Arrived(p, m) /\ err[p] = "ok" /\ mode[p] = "idle"
  BY HeadIsMsg DEF MsgAt, Reads, Arrived
<1>2. CASE ReceiveBad(p, k)
  <2>1. InMsgError(p, m) \in Error \ {"ok"}
    BY <1>2
    DEF ReceiveBad, InMsgError, TokenError, SequenceError, LogInError, Error,
        AuthTypes, Phase
  <2>2. /\ err'[p] = InMsgError(p, m)
        /\ hq'[p] = Append(hq[p], Ev("on_error", 0))
        /\ UNCHANGED <<log, pending, reasm, qdMsgs>>
        /\ mode'[p] = "drain"
    BY <1>2 DEF ReceiveBad, NewError
  <2>3. \/ rcvNext'[p] = rcvNext[p]
        \/ rcvNext'[p] = rcvNext[p] + 1 /\ m.id = rcvNext[p]
    BY <1>2 DEF ReceiveBad, InOrder, RcvTypes
  <2>4. MsgAt(p, k)
    BY <1>2 DEF ReceiveBad
  <2>5. Hosed(p)
    BY <1>1, <2>1, <2>2, <2>3, <2>4 DEF Hosed
  <2> QED BY <2>5 DEF UserMove
<1>3. CASE ReceiveInternal(p, k)
  <2>1. MsgAt(p, k) /\ m.id = 0
    BY <1>3 DEF ReceiveInternal
  <2>2. /\ hq'[p] = Append(hq[p], Ev("remote_unexpected", m.orig))
        /\ mode'[p] = "drain"
        /\ UNCHANGED <<err, log, pending, rcvNext, reasm, qdMsgs>>
    BY <1>3 DEF ReceiveInternal
  <2>4. Takes(p, k, m)
    BY <1>3 DEF ReceiveInternal, MsgAt, Rest, Takes
  <2> HIDE DEF m
  <2>3. Informed(p)
    BY <1>1, <2>1, <2>2, <2>4 DEF Informed
  <2> QED BY <2>3 DEF UserMove
<1>4. CASE ReceiveEarly(p, k)
  <2>1. MsgAt(p, k) /\ m.id > rcvNext[p] /\ InMsgError(p, m) = "ok"
    BY <1>4 DEF ReceiveEarly
  <2>2. TwoPipes
    <3>1. SequenceError(p, m) = "ok"
      BY <2>1 DEF InMsgError, InOrder, RcvTypes
    <3> QED BY <2>1, <3>1 DEF SequenceError
  <2>3. /\ reasm'[p] = reasm[p] \cup {m}
        /\ mode'[p] = IF hq[p] # <<>> THEN "drain" ELSE "idle"
        /\ UNCHANGED <<err, hq, log, pending, rcvNext, qdMsgs>>
    BY <1>4 DEF ReceiveEarly, RcvTypes
  <2>4. Keeps(p)
    BY <1>1, <2>1, <2>2, <2>3 DEF Keeps
  <2> QED BY <2>4 DEF UserMove
<1>5. CASE ReceiveNext(p, k)
  <2>1. MsgAt(p, k) /\ m.id = rcvNext[p] /\ IsNextExpected(p, m, Rest(p, k))
    BY <1>5 DEF ReceiveNext
  <2>2. /\ rcvNext'[p] = rcvNext[p] + 1
        /\ mode'[p] = NextMode(reasm'[p], rcvNext'[p], hq'[p])
        /\ UNCHANGED <<err, log, reasm, qdMsgs>>
    BY <1>5 DEF ReceiveNext, RcvTypes
  <2>3. Waits(p, m) \/ \E kind \in {"rsp", "unexpected", "msg"} : Posts(p, m, kind)
    BY <1>1, <2>1, UserMoveDeliver
  <2>4. Accepts(p, m)
    BY <1>1, <2>1, <2>2, <2>3 DEF Accepts
  <2> QED BY <1>1, <2>1, <2>4 DEF UserMove
<1>6. CASE ReadFails(p, k)
  <2>1. PICK e \in Error \ {"ok"} : NewError(p, e)
    BY <1>6 DEF ReadFails, ReadError, Error
  <2>2. Hosed(p)
    BY <1>6, <2>1 DEF ReadFails, Reads, NewError, Hosed
  <2> QED BY <2>2 DEF UserMove
<1>7. CASE ReadIgnored(p, k) \/ Break(p, k)
  <2>1. Still(p)
    BY <1>7 DEF ReadIgnored, Break, Reads, Still
  <2> QED BY <2>1 DEF UserMove
<1> QED BY <1>2, <1>3, <1>4, <1>5, <1>6, <1>7 DEF ReadStep

LEMMA UserMoveThread ==
  ASSUME TypeInv, FlushIsGood, NEW p \in Peer, ThreadStep(p) PROVE UserMove(p)
<1> USE DEF TypeInv, TypeOK, authVars, sndVars, rcvVars, expVars, rspVars,
            linkVars, userVars
<1>1. CASE Fire(p)
  <2>1. Fires(p)
    BY <1>1 DEF Fire, Fires, UserTypes
  <2> QED BY <2>1 DEF UserMove
<1>2. ASSUME NEW m \in reasm[p], Flush(p, m) PROVE UserMove(p)
  <2>1. m \in Msg /\ mode[p] = "flush" /\ err[p] = "ok"
    BY <1>2 DEF Flush, FlushIsGood, RcvTypes
  <2>2. Waits(p, m) \/ \E kind \in {"rsp", "unexpected", "msg"} : Posts(p, m, kind)
    BY <1>2, <2>1, UserMoveDeliver DEF Flush
  <2>3. /\ m.id = rcvNext[p] /\ rcvNext'[p] = rcvNext[p] + 1
        /\ reasm'[p] = reasm[p] \ {m}
        /\ mode'[p] = NextMode(reasm'[p], rcvNext'[p], hq'[p])
        /\ UNCHANGED <<err, log, qdMsgs>>
    BY <1>2 DEF Flush, RcvTypes
  <2>4. Accepts(p, m)
    BY <2>1, <2>2, <2>3 DEF Accepts, Arrived
  <2> QED BY <2>1, <2>4 DEF UserMove
<1> QED BY <1>1, <1>2 DEF ThreadStep

LEMMA UserMoveNext ==
  ASSUME TypeInv, FlushIsGood, [Next]_vars, NEW q \in Peer
  PROVE  UserMove(q)
<1>1. Untouched(q) => UserMove(q)
  BY DEF Untouched, OwnRcv, OwnLoop, UserMove, Still
<1>2. CASE UNCHANGED vars
  BY <1>1, <1>2, UnchangedIsUntouched
<1>3. ASSUME NEW p \in Peer, StepOf(p) PROVE UserMove(q)
  <2>1. CASE q # p
    BY <1>1, <1>3, <2>1, OtherUntouched
  <2>2. CASE q = p
    BY <1>3, <2>2, UserMoveApi, UserMoveRead, UserMoveThread DEF StepOf
  <2> QED BY <2>1, <2>2
<1> QED BY <1>2, <1>3, StepOfAPeer

-----------------------------------------------------------------------------
LEMMA TailOfOne ==
  ASSUME NEW S, NEW s \in Seq(S), Len(s) = 1 PROVE Tail(s) = <<>>
<1>1. s # <<>>
  OBVIOUS
<1>2. Tail(s) \in Seq(S) /\ Len(Tail(s)) = Len(s) - 1
  BY <1>1, HeadTailProperties
<1> DEFINE t == Tail(s)
<1> HIDE DEF t
<1>3. t \in Seq(S) /\ Len(t) = 0
  BY <1>2 DEF t
<1>4. t = <<>>
  BY <1>3, EmptySeq
<1> QED BY <1>4 DEF t

(* With one pipe nothing is reassembled and a handler is run before the    *)
(* next message is read: at most one is posted.                            *)
OneAtATime(p) ==
  ~TwoPipes =>
    /\ mode[p] \in {"idle", "drain"} /\ reasm[p] = {}
    /\ hq[p] = <<>> \/ Len(hq[p]) = 1
    /\ mode[p] = "idle" /\ err[p] = "ok" => hq[p] = <<>>

LEMMA OneAtATimeNext ==
  ASSUME TypeInv, NEW p \in Peer, OneAtATime(p), UserMove(p)
  PROVE  OneAtATime(p)'
<1> SUFFICES ASSUME ~TwoPipes
             PROVE  /\ mode'[p] \in {"idle", "drain"} /\ reasm'[p] = {}
                    /\ hq'[p] = <<>> \/ Len(hq'[p]) = 1
                    /\ mode'[p] = "idle" /\ err'[p] = "ok" => hq'[p] = <<>>
  BY DEF OneAtATime, TwoPipes
<1>1. /\ mode[p] \in {"idle", "drain"} /\ reasm[p] = {}
      /\ hq[p] = <<>> \/ Len(hq[p]) = 1
      /\ mode[p] = "idle" /\ err[p] = "ok" => hq[p] = <<>>
      /\ mode[p] \in {"drain", "user"} => hq[p] # <<>>
      /\ hq[p] \in Seq(Event)
  BY DEF OneAtATime, TypeInv, TypeOK, PostedIsThere
<1>2. ASSUME NEW e, hq[p] = <<>>, hq'[p] = Append(hq[p], e)
      PROVE  Len(hq'[p]) = 1
  BY <1>2
<1>3. CASE Still(p)
  BY <1>1, <1>3 DEF Still
<1>4. CASE SendErrs(p)
  BY <1>1, <1>4 DEF SendErrs
<1>5. CASE \E w \in Which, ids \in Seq(Nat) : Returns(p, w, ids)
  BY <1>1, <1>5 DEF Returns
<1>6. CASE Hosed(p)
  BY <1>1, <1>2, <1>6 DEF Hosed
<1>7. CASE Informed(p)
  BY <1>1, <1>2, <1>7 DEF Informed
<1>8. CASE Keeps(p)
  BY <1>8 DEF Keeps
<1>9. ASSUME NEW m \in Msg, Accepts(p, m)
      PROVE  /\ mode'[p] \in {"idle", "drain"} /\ reasm'[p] = {}
             /\ hq'[p] = <<>> \/ Len(hq'[p]) = 1
             /\ mode'[p] = "idle" /\ err'[p] = "ok" => hq'[p] = <<>>
  <2>1. mode[p] = "idle" /\ err[p] = "ok"
    BY <1>1, <1>9 DEF Accepts, Arrived
  <2>2. reasm'[p] = {} /\ mode'[p] = IF hq'[p] # <<>> THEN "drain" ELSE "idle"
    BY <1>1, <1>9, <2>1 DEF Accepts, NextMode
  <2>3. hq'[p] = <<>> \/ Len(hq'[p]) = 1
    BY <1>1, <1>2, <1>9, <2>1 DEF Accepts, Waits, Posts
  <2> QED BY <2>2, <2>3
<1>10. CASE Fires(p)
  <2>1. Len(hq[p]) = 1
    BY <1>1, <1>10 DEF Fires
  <2>2. hq'[p] = <<>>
    BY <1>1, <1>10, <2>1, TailOfOne DEF Fires
  <2>3. mode'[p] = "idle" /\ reasm'[p] = reasm[p]
    BY <1>10, <2>1 DEF Fires
  <2> QED BY <1>1, <2>2, <2>3
<1> QED
  BY <1>3, <1>4, <1>5, <1>6, <1>7, <1>8, <1>9, <1>10 DEF UserMove

(* The error is the last handler posted, and the last thing told: always   *)
(* through the on-error handler, with one pipe through a call as well.     *)
ErrorIsLast(p) ==
  /\ \A n \in Posted(p) : n = Len(hq[p])
  /\ \A n \in Told(p) :
       ~TwoPipes \/ log[p][n].kind = "on_error" => n = Len(log[p]) /\ hq[p] = <<>>

LEMMA FireKeepsLast ==
  ASSUME TypeInv, NEW p \in Peer, EmittedOnce(p), ErrorIsLast(p), Fires(p)
  PROVE  ErrorIsLast(p)'
<1> DEFINE e == Head(hq[p])
           f == Fired(p, e)
<1>1. hq[p] \in Seq(Event) /\ hq[p] # <<>> /\ log[p] \in Seq(Event)
  BY DEF Fires, TypeInv, TypeOK, UserTypes, PostedIsThere
<1>2. f \in Event /\ (f.kind \in ErrorKinds <=> e.kind \in ErrorKinds)
  <2>1. e \in Event
    BY <1>1
  <2> QED BY <2>1 DEF Fired, Ignored, Ev, Event, ErrorKinds
<1>3. hq'[p] = Tail(hq[p]) /\ log'[p] = Append(log[p], f)
  BY DEF Fires
<1> HIDE DEF e, f
<1>4. Told(p)' = Told(p) \cup IF e.kind \in ErrorKinds THEN {Len(log[p]) + 1}
                                                       ELSE {}
  BY <1>1, <1>2, <1>3, ErrorsAppend DEF Told
<1>5. /\ \A n \in Nat : n \in Posted(p)' <=> n # 0 /\ n + 1 \in Posted(p)
      /\ Posted(p)' \subseteq Nat
      /\ 1 \in Posted(p) <=> e.kind \in ErrorKinds
  BY <1>1, <1>3, ErrorsTail DEF Posted, e
<1>6. /\ Len(hq'[p]) = Len(hq[p]) - 1 /\ Len(hq[p]) \in Nat \ {0}
      /\ Len(log'[p]) = Len(log[p]) + 1
      /\ \A n \in 1..Len(log[p]) : log'[p][n] = log[p][n]
  BY <1>1, <1>3, HeadTailProperties, AppendProperties, EmptySeq
<1>7. \A n \in Posted(p)' : n = Len(hq'[p])
  BY <1>5, <1>6 DEF ErrorIsLast
<1>8. ASSUME NEW n \in Told(p)', ~TwoPipes \/ log'[p][n].kind = "on_error"
      PROVE  n = Len(log'[p]) /\ hq'[p] = <<>>
  <2>1. CASE n \in Told(p)
    <3>1. n \in 1..Len(log[p])
      BY <2>1 DEF Told, ErrorEvents
    <3>2. hq[p] = <<>>
      BY <1>6, <1>8, <2>1, <3>1 DEF ErrorIsLast
    <3> QED BY <1>1, <3>2
  <2>2. CASE n \notin Told(p)
    <3>1. n = Len(log[p]) + 1 /\ 1 \in Posted(p)
      BY <1>4, <1>5, <1>8, <2>2
    <3>2. Len(hq[p]) = 1
      BY <3>1 DEF ErrorIsLast
    <3>3. Tail(hq[p]) = <<>>
      BY <1>1, <3>2, TailOfOne
    <3> QED BY <1>3, <1>6, <3>1, <3>3
  <2> QED BY <2>1, <2>2
<1> QED BY <1>7, <1>8 DEF ErrorIsLast

LEMMA ErrorIsLastNext ==
  ASSUME TypeInv, NEW p \in Peer, EmittedOnce(p), OneAtATime(p), ErrorIsLast(p),
         UserMove(p)
  PROVE  ErrorIsLast(p)'
<1>1. hq[p] \in Seq(Event) /\ log[p] \in Seq(Event)
  BY DEF TypeInv, TypeOK, UserTypes
<1>2. ASSUME hq'[p] = hq[p], log'[p] = log[p] PROVE ErrorIsLast(p)'
  BY <1>2 DEF ErrorIsLast, Posted, Told, TwoPipes
<1>3. ASSUME NEW e \in Event, err[p] = "ok", log'[p] = log[p],
             hq'[p] = Append(hq[p], e)
      PROVE  ErrorIsLast(p)'
  <2>1. Posted(p) = {} /\ Told(p)' = {}
    BY <1>3 DEF EmittedOnce, Told
  <2>2. Posted(p)' \subseteq {Len(hq[p]) + 1}
    BY <1>1, <1>3, <2>1, ErrorsAppend DEF Posted
  <2>3. Len(hq'[p]) = Len(hq[p]) + 1
    BY <1>1, <1>3
  <2> QED BY <2>1, <2>2, <2>3 DEF ErrorIsLast
<1>4. ASSUME err[p] = "ok", hq'[p] = hq[p], Told(p)' = Told(p)
      PROVE  ErrorIsLast(p)'
  BY <1>4 DEF ErrorIsLast, EmittedOnce, Posted
<1>5. CASE Still(p)
  BY <1>2, <1>5 DEF Still
<1>6. CASE SendErrs(p)
  <2> DEFINE e == Ev("send_error", 0)
  <2>1. e \in Event /\ e.kind = "send_error"
    BY DEF Ev, Event
  <2>2. /\ err[p] = "ok" /\ mode[p] \in {"idle", "user"}
        /\ log'[p] = Append(log[p], e) /\ hq'[p] = hq[p]
    BY <1>6 DEF SendErrs
  <2> HIDE DEF e
  <2>3. Posted(p)' = {} /\ Told(p) = {}
    BY <2>2 DEF EmittedOnce, Posted
  <2>4. Told(p)' \subseteq {Len(log[p]) + 1}
    BY <1>1, <2>1, <2>2, <2>3, ErrorsAppend DEF Told
  <2>5. Len(log'[p]) = Len(log[p]) + 1 /\ log'[p][Len(log[p]) + 1] = e
    BY <1>1, <2>1, <2>2, AppendProperties
  <2>6. ~TwoPipes => hq'[p] = <<>>
    BY <2>2 DEF OneAtATime
  <2>7. \A n \in Told(p)' : n = Len(log'[p]) /\ log'[p][n].kind # "on_error"
    BY <2>1, <2>4, <2>5
  <2> QED BY <2>3, <2>6, <2>7 DEF ErrorIsLast, TwoPipes
<1>7. CASE \E w \in Which, ids \in Seq(Nat) : Returns(p, w, ids)
  <2>1. PICK w \in Which, ids \in Seq(Nat) : Returns(p, w, ids)
    BY <1>7
  <2>2. log'[p] = log[p] \o Events(ids) /\ err[p] = "ok" /\ hq'[p] = hq[p]
    BY <2>1 DEF Returns
  <2>3. Told(p)' = Told(p)
    BY <1>1, <2>2, ErrorsEmit DEF Told, Events
  <2> QED BY <1>4, <2>2, <2>3
<1>8. CASE Hosed(p)
  <2>1. Ev("on_error", 0) \in Event
    BY DEF Ev, Event
  <2> QED BY <1>3, <1>8, <2>1 DEF Hosed
<1>9. CASE Informed(p)
  <2>1. PICK m \in Msg : hq'[p] = Append(hq[p], Ev("remote_unexpected", m.orig))
    BY <1>9 DEF Informed
  <2>2. Ev("remote_unexpected", m.orig) \in Event
    BY DEF Ev, Event, Msg
  <2> QED BY <1>3, <1>9, <2>1, <2>2 DEF Informed
<1>10. CASE Keeps(p)
  BY <1>2, <1>10 DEF Keeps
<1>11. ASSUME NEW m \in Msg, Accepts(p, m) PROVE ErrorIsLast(p)'
  <2>1. err[p] = "ok" /\ log'[p] = log[p]
    BY <1>11 DEF Accepts
  <2>2. CASE Waits(p, m)
    BY <1>2, <2>1, <2>2 DEF Waits
  <2>3. ASSUME NEW kind \in {"rsp", "unexpected", "msg"}, Posts(p, m, kind)
        PROVE  ErrorIsLast(p)'
    <3>1. Ev(kind, m.id) \in Event
      BY DEF Ev, Event, Msg
    <3> QED BY <1>3, <2>1, <2>3, <3>1 DEF Posts
  <2> QED BY <1>11, <2>2, <2>3 DEF Accepts
<1>12. CASE Fires(p)
  BY <1>12, FireKeepsLast
<1> QED
  BY <1>5, <1>6, <1>7, <1>8, <1>9, <1>10, <1>11, <1>12 DEF UserMove

ThreadInv == /\ TypeInv /\ FlushIsGood
             /\ \A p \in Peer : EmittedOnce(p) /\ OneAtATime(p) /\ ErrorIsLast(p)

LEMMA ThreadInvInit == Init => ThreadInv
<1> SUFFICES ASSUME Init PROVE ThreadInv
  OBVIOUS
<1>1. TypeInv /\ FlushIsGood
  BY TypeInit DEF Init, FlushIsGood
<1>2. \A p \in Peer : /\ mode[p] = "idle" /\ reasm[p] = {} /\ err[p] = "ok"
                      /\ hq[p] = <<>> /\ Posted(p) = {} /\ Told(p) = {}
  BY DEF Init, Posted, Told, ErrorEvents
<1> QED BY <1>1, <1>2 DEF ThreadInv, EmittedOnce, OneAtATime, ErrorIsLast

LEMMA ThreadInvNext == ThreadInv /\ [Next]_vars => ThreadInv'
<1> SUFFICES ASSUME ThreadInv, [Next]_vars PROVE ThreadInv'
  OBVIOUS
<1>1. TypeInv' /\ FlushIsGood'
  BY TypeNext, FlushIsGoodNext DEF ThreadInv
<1>2. \A p \in Peer : EmittedOnce(p)'
  BY EmittedOnceNext DEF ThreadInv
<1>3. \A p \in Peer : OneAtATime(p)' /\ ErrorIsLast(p)'
  BY UserMoveNext, OneAtATimeNext, ErrorIsLastNext DEF ThreadInv
<1> QED BY <1>1, <1>2, <1>3 DEF ThreadInv

(* Once the on-error handler has run, no other handler does and no call    *)
(* returns a message, with one pipe or two.                                *)
THEOREM SilentAfterOnError ==
  Spec => [](\A p \in Peer : \A n \in ErrorEvents(log[p]) :
               log[p][n].kind = "on_error" => n = Len(log[p]))
<1> DEFINE Silent == \A p \in Peer : \A n \in ErrorEvents(log[p]) :
                       log[p][n].kind = "on_error" => n = Len(log[p])
<1>1. ThreadInv => Silent
  BY DEF ThreadInv, ErrorIsLast, Told
<1>2. Spec => []Silent
  <2> HIDE DEF Silent
  <2> QED BY <1>1, ThreadInvInit, ThreadInvNext, PTL DEF Spec
<1> QED BY <1>2

(* With one pipe this holds of the error that a call reports as well.      *)
THEOREM SilentAfterErrorAlways == ~TwoPipes => (Spec => []SilentAfterError)
<1> SUFFICES ASSUME ~TwoPipes PROVE Spec => []SilentAfterError
  OBVIOUS
<1>1. ThreadInv => SilentAfterError
  BY DEF ThreadInv, ErrorIsLast, Told, SilentAfterError
<1> QED BY <1>1, ThreadInvInit, ThreadInvNext, PTL DEF Spec

-----------------------------------------------------------------------------
(* The way from one peer to the other: n[k] is what is on pipe k, r is in  *)
(* reassembly, x is the ID to be accepted next, s is what was sent.        *)
Pipes == [Pipe -> Seq(Msg)]

(* A user message that is on its way is one that was sent and is still to  *)
(* be accepted; it is not in reassembly.                                   *)
IsSent(m, x, s) == m.id \in x..Len(s) /\ m = s[m.id].msg

Sound(n, r, x, s) ==
  /\ \A k \in Pipe : \A i \in 1..Len(n[k]) : n[k][i].id # 0 =>
       IsSent(n[k][i], x, s) /\ \A y \in r : y.id # n[k][i].id
  /\ \A y \in r : IsSent(y, x, s)

(* On each pipe in the order sent, on at most one pipe.                    *)
Ordered(n) ==
  \A k \in Pipe : \A i, j \in 1..Len(n[k]) :
    i < j /\ n[k][i].id # 0 /\ n[k][j].id # 0 => n[k][i].id < n[k][j].id

Apart(n) ==
  \A k, l \in Pipe : k # l =>
    \A i \in 1..Len(n[k]), j \in 1..Len(n[l]) :
      n[k][i].id # 0 => n[k][i].id # n[l][j].id

(* None that was sent is missing.                                          *)
OnAPipe(n, i) == \E k \in Pipe : \E j \in 1..Len(n[k]) : n[k][j].id = i

Whole(n, r, x, s) ==
  \A i \in x..Len(s) : (\E y \in r : y.id = i) \/ OnAPipe(n, i)

AddTo(n, k, m) == [n EXCEPT ![k] = Append(@, m)]
RestOf(n, k)   == [n EXCEPT ![k] = Tail(@)]
Shift(k, l)    == IF k = l THEN 1 ELSE 0

LEMMA AtRest ==
  ASSUME NEW n \in Pipes, NEW k \in Pipe, n[k] # <<>>, NEW l \in Pipe
  PROVE  /\ \A i \in 1..Len(RestOf(n, k)[l]) :
              /\ i + Shift(k, l) \in 1..Len(n[l])
              /\ RestOf(n, k)[l][i] = n[l][i + Shift(k, l)]
         /\ \A j \in 1..Len(n[l]) :
              \/ l = k /\ j = 1
              \/ /\ j - Shift(k, l) \in 1..Len(RestOf(n, k)[l])
                 /\ RestOf(n, k)[l][j - Shift(k, l)] = n[l][j]
         /\ 1 \in 1..Len(n[k]) /\ Head(n[k]) = n[k][1]
         /\ RestOf(n, k) \in Pipes
<1>1. n[k] \in Seq(Msg) /\ n[l] \in Seq(Msg)
  BY DEF Pipes
<1>2. /\ Tail(n[k]) \in Seq(Msg) /\ Len(Tail(n[k])) = Len(n[k]) - 1
      /\ \A i \in 1..Len(Tail(n[k])) : Tail(n[k])[i] = n[k][i + 1]
      /\ Len(n[k]) \in Nat \ {0} /\ Head(n[k]) = n[k][1]
  BY <1>1, HeadTailProperties, EmptySeq
<1>3. RestOf(n, k) \in Pipes
  BY <1>2 DEF RestOf, Pipes
<1>4. CASE l = k
  <2>1. RestOf(n, k)[l] = Tail(n[k]) /\ Shift(k, l) = 1
    BY <1>4 DEF RestOf, Pipes, Shift
  <2>2. \A i \in 1..Len(Tail(n[k])) : i + 1 \in 1..Len(n[k])
    BY <1>2
  <2>3. \A j \in 1..Len(n[k]) : j # 1 => j - 1 \in 1..Len(Tail(n[k]))
    BY <1>2
  <2>4. \A j \in 1..Len(n[k]) : j # 1 => Tail(n[k])[j - 1] = n[k][j]
    <3> TAKE j \in 1..Len(n[k])
    <3> HAVE j # 1
    <3>1. j - 1 \in 1..Len(Tail(n[k])) /\ (j - 1) + 1 = j
      BY <2>3
    <3> QED BY <1>2, <3>1
  <2> QED BY <1>2, <1>3, <1>4, <2>1, <2>2, <2>3, <2>4
<1>5. CASE l # k
  <2>1. RestOf(n, k)[l] = n[l] /\ Shift(k, l) = 0
    BY <1>5 DEF RestOf, Pipes, Shift
  <2>2. \A i \in 1..Len(n[l]) : i + 0 = i /\ i - 0 = i
    OBVIOUS
  <2> QED BY <1>2, <1>3, <1>5, <2>1, <2>2
<1> QED BY <1>4, <1>5

(* A message taken from a pipe leaves what is behind it in order, and its  *)
(* ID is not on the way any more.                                          *)
LEMMA TakeOne ==
  ASSUME NEW n \in Pipes, NEW r \in SUBSET Msg, NEW x \in Nat \ {0},
         NEW s \in Seq(SentMsg), NEW k \in Pipe, n[k] # <<>>,
         Sound(n, r, x, s), Ordered(n), Apart(n)
  PROVE  /\ RestOf(n, k) \in Pipes
         /\ Sound(RestOf(n, k), r, x, s)
         /\ Ordered(RestOf(n, k)) /\ Apart(RestOf(n, k))
         /\ Head(n[k]).id # 0 =>
              /\ ~OnAPipe(RestOf(n, k), Head(n[k]).id)
              /\ IsSent(Head(n[k]), x, s)
              /\ \A y \in r : y.id # Head(n[k]).id
         /\ \A i : OnAPipe(n, i) => i = Head(n[k]).id \/ OnAPipe(RestOf(n, k), i)
<1> DEFINE t == RestOf(n, k)
<1>1. \A l \in Pipe : \A i \in 1..Len(t[l]) :
        i + Shift(k, l) \in 1..Len(n[l]) /\ t[l][i] = n[l][i + Shift(k, l)]
  BY AtRest
<1>2. \A l \in Pipe : \A j \in 1..Len(n[l]) :
        \/ l = k /\ j = 1
        \/ j - Shift(k, l) \in 1..Len(t[l]) /\ t[l][j - Shift(k, l)] = n[l][j]
  BY AtRest
<1>3. 1 \in 1..Len(n[k]) /\ Head(n[k]) = n[k][1] /\ t \in Pipes
  BY AtRest
<1>4. \A l \in Pipe : Shift(k, l) \in {0, 1} /\ Shift(k, k) = 1
  BY DEF Shift
<1> HIDE DEF t
<1>5. Sound(t, r, x, s)
  BY <1>1, SMTT(30) DEF Sound
<1>6. Ordered(t)
  <2> SUFFICES ASSUME NEW l \in Pipe, NEW i \in 1..Len(t[l]),
                      NEW j \in 1..Len(t[l]), i < j,
                      t[l][i].id # 0, t[l][j].id # 0
               PROVE  t[l][i].id < t[l][j].id
    BY DEF Ordered
  <2>1. i + Shift(k, l) < j + Shift(k, l)
    BY <1>4
  <2> QED BY <1>1, <2>1, SMTT(30) DEF Ordered
<1>7. Apart(t)
  <2> SUFFICES ASSUME NEW l \in Pipe, NEW h \in Pipe, l # h,
                      NEW i \in 1..Len(t[l]), NEW j \in 1..Len(t[h]),
                      t[l][i].id # 0
               PROVE  t[l][i].id # t[h][j].id
    BY DEF Apart
  <2>1. PICK a \in 1..Len(n[l]) : t[l][i] = n[l][a]
    BY <1>1
  <2>2. PICK b \in 1..Len(n[h]) : t[h][j] = n[h][b]
    BY <1>1
  <2> QED BY <2>1, <2>2 DEF Apart
<1>8. ASSUME Head(n[k]).id # 0
      PROVE  /\ ~OnAPipe(t, Head(n[k]).id)
             /\ IsSent(Head(n[k]), x, s)
             /\ \A y \in r : y.id # Head(n[k]).id
  <2>1. ASSUME NEW l \in Pipe, NEW i \in 1..Len(t[l])
        PROVE  t[l][i].id # Head(n[k]).id
    <3>1. i + Shift(k, l) \in 1..Len(n[l]) /\ t[l][i] = n[l][i + Shift(k, l)]
      BY <1>1
    <3>2. CASE l = k
      <4>1. i + Shift(k, l) = i + 1 /\ 1 < i + 1
        BY <1>4, <3>2
      <4>2. n[k][i + 1].id \in Nat /\ n[k][1].id \in Nat
        <5>1. n[k] \in Seq(Msg) /\ \A m \in Msg : m.id \in Nat
          BY DEF Pipes, Msg
        <5>2. i + 1 \in 1..Len(n[k]) /\ 1 \in 1..Len(n[k])
          BY <1>3, <3>1, <3>2, <4>1
        <5> QED BY <5>1, <5>2
      <4>3. CASE n[k][i + 1].id = 0
        BY <1>3, <1>8, <3>1, <3>2, <4>1, <4>3
      <4>4. CASE n[k][i + 1].id # 0
        <5>1. n[k][1].id < n[k][i + 1].id
          BY <1>3, <1>8, <3>1, <3>2, <4>1, <4>4 DEF Ordered
        <5> QED BY <1>3, <3>1, <3>2, <4>1, <4>2, <5>1
      <4> QED BY <4>3, <4>4
    <3>3. CASE l # k
      BY <1>3, <1>8, <3>1, <3>3 DEF Apart
    <3> QED BY <3>2, <3>3
  <2> QED BY <1>3, <1>8, <2>1 DEF OnAPipe, Sound
<1>9. \A i : OnAPipe(n, i) => i = Head(n[k]).id \/ OnAPipe(t, i)
  BY <1>2, <1>3 DEF OnAPipe
<1> QED BY <1>3, <1>5, <1>6, <1>7, <1>8, <1>9 DEF t

LEMMA AtAdd ==
  ASSUME NEW n \in Pipes, NEW k \in Pipe, NEW m \in Msg, NEW l \in Pipe
  PROVE  /\ \A i \in 1..Len(AddTo(n, k, m)[l]) :
              \/ i \in 1..Len(n[l]) /\ AddTo(n, k, m)[l][i] = n[l][i]
              \/ l = k /\ i = Len(n[l]) + 1 /\ AddTo(n, k, m)[l][i] = m
         /\ \A i \in 1..Len(n[l]) : /\ i \in 1..Len(AddTo(n, k, m)[l])
                                    /\ AddTo(n, k, m)[l][i] = n[l][i]
         /\ \E i \in 1..Len(AddTo(n, k, m)[k]) : AddTo(n, k, m)[k][i] = m
         /\ AddTo(n, k, m) \in Pipes
         /\ Len(n[l]) \in Nat
<1>1. n[k] \in Seq(Msg) /\ n[l] \in Seq(Msg)
  BY DEF Pipes
<1> DEFINE a == Append(n[k], m)
<1>2. /\ a \in Seq(Msg) /\ Len(a) = Len(n[k]) + 1 /\ Len(n[k]) \in Nat
      /\ \A i \in 1..Len(n[k]) : a[i] = n[k][i]
      /\ a[Len(n[k]) + 1] = m
  BY <1>1, AppendProperties
<1> HIDE DEF a
<1>3. AddTo(n, k, m) = [n EXCEPT ![k] = a]
  BY DEF AddTo, a
<1>4. AddTo(n, k, m)[k] = a /\ (l # k => AddTo(n, k, m)[l] = n[l])
      /\ AddTo(n, k, m) \in Pipes
  BY <1>2, <1>3 DEF Pipes
<1>5. \A i \in 1..Len(a) : i \in 1..Len(n[k]) \/ i = Len(n[k]) + 1
  BY <1>2
<1>6. Len(n[k]) + 1 \in 1..Len(a) /\ \A i \in 1..Len(n[k]) : i \in 1..Len(a)
  BY <1>2
<1>7. Len(n[l]) \in Nat
  BY <1>1
<1>8. CASE l = k
  BY <1>2, <1>4, <1>5, <1>6, <1>7, <1>8
<1>9. CASE l # k
  BY <1>2, <1>4, <1>6, <1>7, <1>9
<1> QED BY <1>8, <1>9

FlowOK(n, r, x, s) == /\ n \in Pipes /\ r \in SUBSET Msg
                      /\ x \in Nat \ {0} /\ s \in Seq(SentMsg)
                      /\ Sound(n, r, x, s) /\ Ordered(n) /\ Apart(n)
                      /\ x <= Len(s) + 1

(* An internal message joins what is on the way.                           *)
LEMMA AddNotice ==
  ASSUME NEW n, NEW r, NEW x, NEW s, FlowOK(n, r, x, s),
         NEW k \in Pipe, NEW m \in Msg, m.id = 0
  PROVE  /\ FlowOK(AddTo(n, k, m), r, x, s)
         /\ Whole(n, r, x, s) => Whole(AddTo(n, k, m), r, x, s)
<1> DEFINE t == AddTo(n, k, m)
<1> USE DEF FlowOK
<1>1. \A l \in Pipe : \A i \in 1..Len(t[l]) :
        \/ i \in 1..Len(n[l]) /\ t[l][i] = n[l][i]
        \/ t[l][i].id = 0
  BY AtAdd
<1>2. \A l \in Pipe : \A i \in 1..Len(n[l]) :
        i \in 1..Len(t[l]) /\ t[l][i] = n[l][i]
  BY AtAdd
<1>3. t \in Pipes
  BY AtAdd
<1> HIDE DEF t
<1>4. Sound(t, r, x, s)
  BY <1>1 DEF Sound
<1>5. Ordered(t)
  BY <1>1, SMTT(30) DEF Ordered
<1>6. Apart(t)
  <2> SUFFICES ASSUME NEW l \in Pipe, NEW h \in Pipe, l # h,
                      NEW i \in 1..Len(t[l]), NEW j \in 1..Len(t[h]),
                      t[l][i].id # 0
               PROVE  t[l][i].id # t[h][j].id
    BY DEF Apart
  <2>1. i \in 1..Len(n[l]) /\ t[l][i] = n[l][i]
    BY <1>1
  <2>2. (j \in 1..Len(n[h]) /\ t[h][j] = n[h][j]) \/ t[h][j].id = 0
    BY <1>1
  <2> QED BY <2>1, <2>2 DEF Apart
<1>7. \A i : OnAPipe(n, i) => OnAPipe(t, i)
  BY <1>2 DEF OnAPipe
<1> QED BY <1>3, <1>4, <1>5, <1>6, <1>7 DEF Whole, t

(* A user message joins what is on the way, and what was sent.             *)
LEMMA AddUser ==
  ASSUME NEW n, NEW r, NEW x, NEW s, FlowOK(n, r, x, s),
         NEW k \in Pipe, NEW m \in Msg, NEW e \in SentMsg, e.msg = m,
         m.id = Len(s) + 1
  PROVE  /\ FlowOK(AddTo(n, k, m), r, x, Append(s, e))
         /\ Whole(n, r, x, s) => Whole(AddTo(n, k, m), r, x, Append(s, e))
<1> DEFINE t == AddTo(n, k, m)
           u == Append(s, e)
<1> USE DEF FlowOK
<1>1. \A l \in Pipe : \A i \in 1..Len(t[l]) :
        \/ i \in 1..Len(n[l]) /\ t[l][i] = n[l][i]
        \/ l = k /\ i = Len(n[l]) + 1 /\ t[l][i] = m
  BY AtAdd
<1>2. \A l \in Pipe : \A i \in 1..Len(n[l]) :
        i \in 1..Len(t[l]) /\ t[l][i] = n[l][i]
  BY AtAdd
<1>3. t \in Pipes /\ \A l \in Pipe : Len(n[l]) \in Nat
  BY AtAdd
<1>4. OnAPipe(t, m.id)
  BY AtAdd DEF OnAPipe
<1>5. /\ u \in Seq(SentMsg) /\ Len(u) = Len(s) + 1 /\ Len(s) \in Nat
      /\ \A i \in 1..Len(s) : u[i] = s[i]
      /\ u[Len(s) + 1] = e
  BY AppendProperties
<1> HIDE DEF t, u
<1>6. \A y : IsSent(y, x, s) => IsSent(y, x, u) /\ y.id <= Len(s)
  BY <1>5 DEF IsSent
<1>7. IsSent(m, x, u)
  BY <1>5 DEF IsSent
<1>8. Sound(t, r, x, u)
  <2>1. ASSUME NEW l \in Pipe, NEW i \in 1..Len(t[l]), t[l][i].id # 0
        PROVE  IsSent(t[l][i], x, u) /\ \A y \in r : y.id # t[l][i].id
    <3>1. CASE i \in 1..Len(n[l]) /\ t[l][i] = n[l][i]
      BY <1>6, <2>1, <3>1 DEF Sound
    <3>2. CASE t[l][i] = m
      <4>1. \A y \in r : y.id <= Len(s)
        BY <1>6 DEF Sound
      <4> QED BY <1>5, <1>7, <3>2, <4>1
    <3> QED BY <1>1, <3>1, <3>2
  <2>2. \A y \in r : IsSent(y, x, u)
    BY <1>6 DEF Sound
  <2> QED BY <2>1, <2>2 DEF Sound
<1>9. \A l \in Pipe : \A i \in 1..Len(n[l]) :
        n[l][i].id # 0 => n[l][i].id <= Len(s) /\ n[l][i].id < m.id
  <2> SUFFICES ASSUME NEW l \in Pipe, NEW i \in 1..Len(n[l]), n[l][i].id # 0
               PROVE  n[l][i].id <= Len(s) /\ n[l][i].id < m.id
    OBVIOUS
  <2>1. n[l][i].id \in x..Len(s)
    BY DEF Sound, IsSent
  <2> QED BY <1>5, <2>1
<1>10. Ordered(t)
  <2> SUFFICES ASSUME NEW l \in Pipe, NEW i \in 1..Len(t[l]),
                      NEW j \in 1..Len(t[l]), i < j,
                      t[l][i].id # 0, t[l][j].id # 0
               PROVE  t[l][i].id < t[l][j].id
    BY DEF Ordered
  <2>1. i \in 1..Len(n[l]) /\ t[l][i] = n[l][i]
    BY <1>1, <1>3, SMTT(30)
  <2>2. CASE j \in 1..Len(n[l]) /\ t[l][j] = n[l][j]
    BY <2>1, <2>2 DEF Ordered
  <2>3. CASE t[l][j] = m
    BY <1>9, <2>1, <2>3
  <2> QED BY <1>1, <2>2, <2>3
<1>11. Apart(t)
  <2> SUFFICES ASSUME NEW l \in Pipe, NEW h \in Pipe, l # h,
                      NEW i \in 1..Len(t[l]), NEW j \in 1..Len(t[h]),
                      t[l][i].id # 0
               PROVE  t[l][i].id # t[h][j].id
    BY DEF Apart
  <2>1. CASE /\ i \in 1..Len(n[l]) /\ t[l][i] = n[l][i]
             /\ j \in 1..Len(n[h]) /\ t[h][j] = n[h][j]
    BY <2>1 DEF Apart
  <2>2. CASE i \in 1..Len(n[l]) /\ t[l][i] = n[l][i] /\ t[h][j] = m
    <3>1. n[l][i].id <= Len(s)
      BY <1>9, <2>2
    <3> QED BY <1>5, <2>2, <3>1
  <2>3. CASE l = k /\ t[l][i] = m
    <3>1. j \in 1..Len(n[h]) /\ t[h][j] = n[h][j]
      BY <1>1, <2>3
    <3>2. n[h][j].id # 0 => n[h][j].id <= Len(s)
      BY <1>9, <3>1
    <3> QED BY <1>5, <2>3, <3>1, <3>2
  <2> QED BY <1>1, <2>1, <2>2, <2>3
<1>12. ASSUME Whole(n, r, x, s) PROVE Whole(t, r, x, u)
  <2>1. \A i : OnAPipe(n, i) => OnAPipe(t, i)
    BY <1>2 DEF OnAPipe
  <2>2. \A i \in x..Len(u) : i \in x..Len(s) \/ i = m.id
    BY <1>5
  <2> QED BY <1>4, <1>12, <2>1, <2>2 DEF Whole
<1>13. x <= Len(u) + 1
  BY <1>5
<1> QED BY <1>3, <1>5, <1>8, <1>10, <1>11, <1>12, <1>13 DEF t, u

(* A message is taken from a pipe: an internal one, one that is kept for   *)
(* reassembly, one that is next, or one that is dropped.                   *)
LEMMA TakeMessage ==
  ASSUME NEW n, NEW r, NEW x, NEW s, FlowOK(n, r, x, s),
         NEW k \in Pipe, n[k] # <<>>
  PROVE  LET t == RestOf(n, k)
             m == Head(n[k])
         IN  /\ FlowOK(t, r, x, s)
             /\ m.id = 0 /\ Whole(n, r, x, s) => Whole(t, r, x, s)
             /\ m.id > x => /\ FlowOK(t, r \cup {m}, x, s)
                            /\ Whole(n, r, x, s) => Whole(t, r \cup {m}, x, s)
             /\ m.id = x => /\ FlowOK(t, r, x + 1, s)
                            /\ Whole(n, r, x, s) => Whole(t, r, x + 1, s)
<1> DEFINE t == RestOf(n, k)
           m == Head(n[k])
<1> USE DEF FlowOK
<1>1. FlowOK(t, r, x, s)
  BY TakeOne
<1>2. m.id # 0 => /\ ~OnAPipe(t, m.id) /\ IsSent(m, x, s)
                  /\ \A y \in r : y.id # m.id
  BY TakeOne
<1>3. \A i : OnAPipe(n, i) => i = m.id \/ OnAPipe(t, i)
  BY TakeOne
<1>4. Len(s) \in Nat
  OBVIOUS
<1>5. m \in Msg
  BY DEF Pipes
<1> HIDE DEF t, m
<1>6. ASSUME m.id = 0, Whole(n, r, x, s) PROVE Whole(t, r, x, s)
  BY <1>3, <1>6 DEF Whole
<1>7. ASSUME m.id > x PROVE FlowOK(t, r \cup {m}, x, s)
  <2>1. m.id # 0
    BY <1>7
  <2>2. Sound(t, r \cup {m}, x, s)
    BY <1>1, <1>2, <2>1 DEF Sound, OnAPipe
  <2> QED BY <1>1, <1>5, <2>2
<1>8. ASSUME Whole(n, r, x, s) PROVE Whole(t, r \cup {m}, x, s)
  BY <1>3, <1>8 DEF Whole
<1>9. ASSUME m.id = x
      PROVE  /\ FlowOK(t, r, x + 1, s)
             /\ Whole(n, r, x, s) => Whole(t, r, x + 1, s)
  <2>1. m.id # 0 /\ x \in x..Len(s)
    BY <1>2, <1>9 DEF IsSent
  <2>2. \A y : IsSent(y, x, s) /\ y.id # x => IsSent(y, x + 1, s)
    BY <1>4 DEF IsSent
  <2>3. Sound(t, r, x + 1, s)
    BY <1>1, <1>2, <1>9, <2>1, <2>2 DEF Sound, OnAPipe
  <2>4. x + 1 \in Nat \ {0} /\ x + 1 <= Len(s) + 1
    BY <1>4, <2>1
  <2>5. \A i \in (x + 1)..Len(s) : i \in x..Len(s) /\ i # x
    BY <1>4
  <2>6. Whole(n, r, x, s) => Whole(t, r, x + 1, s)
    BY <1>3, <1>9, <2>5 DEF Whole
  <2> QED BY <1>1, <2>3, <2>4, <2>6
<1> QED BY <1>1, <1>6, <1>7, <1>8, <1>9 DEF t, m

(* The message that is next is taken from reassembly.                      *)
LEMMA TakeFromReassembly ==
  ASSUME NEW n, NEW r, NEW x, NEW s, FlowOK(n, r, x, s),
         NEW m \in r, m.id = x
  PROVE  /\ FlowOK(n, r \ {m}, x + 1, s)
         /\ Whole(n, r, x, s) => Whole(n, r \ {m}, x + 1, s)
<1> USE DEF FlowOK
<1>1. Len(s) \in Nat /\ x \in x..Len(s) /\ m = s[x].msg
  BY DEF Sound, IsSent
<1>2. \A y : IsSent(y, x, s) /\ y.id # x => IsSent(y, x + 1, s)
  BY <1>1 DEF IsSent
<1>3. \A y \in r \ {m} : y.id # x
  BY <1>1 DEF Sound, IsSent
<1>4. Sound(n, r \ {m}, x + 1, s)
  BY <1>2, <1>3 DEF Sound
<1>5. x + 1 \in Nat \ {0} /\ x + 1 <= Len(s) + 1
  BY <1>1
<1>6. \A i \in (x + 1)..Len(s) : i \in x..Len(s) /\ i # x
  BY <1>1
<1>7. Whole(n, r, x, s) => Whole(n, r \ {m}, x + 1, s)
  BY <1>6 DEF Whole
<1> QED BY <1>4, <1>5, <1>7

-----------------------------------------------------------------------------
(* What a step does to what p has sent.                                    *)
Follows(p, m, rsp) ==
  /\ m.id = sndNext[p] /\ m.tok = token[p]
  /\ m.orig \in Held(p) \cup {0} /\ PhaseAllows(p, m.orig, rsp)

SndMove(p) ==
  \/ UNCHANGED <<sent[p], sndNext[p], ended[p]>>
  \/ UNCHANGED <<sent[p], sndNext[p]>> /\ ended'[p]
  \/ /\ err[p] = "ok" /\ ~ended[p] /\ sndNext'[p] = sndNext[p] + 1
     /\ \E e \in SentMsg : Follows(p, e.msg, e.rsp) /\ sent'[p] = Append(sent[p], e)
     /\ phase'[p] = IF phase[p] = "SRV_LOG_IN" THEN "LOGGED_IN" ELSE phase[p]
     /\ UNCHANGED ended[p]
  \/ /\ UNCHANGED <<sent[p], ended[p]>> /\ sndNext'[p] = sndNext[p] + 1
     /\ ended[p] \/ err'[p] # "ok"

LEMMA SndMoveNext ==
  ASSUME TypeInv, [Next]_vars, NEW q \in Peer PROVE SndMove(q)
<1> USE DEF TypeInv, TypeOK, SndTypes, LinkTypes
<1>1. CASE UNCHANGED <<sent, sndNext, ended>>
  BY <1>1 DEF SndMove
<1>2. ASSUME NEW p \in Peer, StepOf(p), q # p PROVE SndMove(q)
  <2>1. Untouched(q)
    BY <1>2, OtherUntouched
  <2> QED BY <2>1 DEF Untouched, OwnSnd, SndMove
<1>3. ASSUME SendStep(q) PROVE SndMove(q)
  <2>1. PICK orig \in Held(q) \cup {0}, rsp \in DOMAIN RspApi :
          \/ \E k \in Pipe, w \in Which : Send(q, k, w, orig, rsp)
          \/ \E k \in Pipe : SendFails(q, k, orig, rsp)
          \/ SendAfterEnd(q, orig, rsp)
    BY <1>3 DEF SendStep
  <2>2. ASSUME NEW k \in Pipe, NEW w \in Which, Send(q, k, w, orig, rsp)
        PROVE  SndMove(q)
    <3> DEFINE m == [id |-> sndNext[q], orig |-> orig, which |-> w,
                     tok |-> token[q]]
               e == [msg |-> m, rsp |-> rsp]
    <3>1. e \in SentMsg /\ Follows(q, e.msg, e.rsp)
      BY <2>2, HeldIds DEF Send, AuthTypes, Msg, SentMsg, Follows
    <3>2. sent'[q] = Append(sent[q], e)
      BY <2>2 DEF Send
    <3> HIDE DEF e
    <3>3. /\ err[q] = "ok" /\ ~ended[q] /\ sndNext'[q] = sndNext[q] + 1
          /\ ended' = ended
          /\ phase'[q] = IF phase[q] = "SRV_LOG_IN" THEN "LOGGED_IN" ELSE phase[q]
      BY <2>2 DEF Send, SendCallable, linkVars, AuthTypes
    <3> QED BY <3>1, <3>2, <3>3 DEF SndMove
  <2>3. ASSUME NEW k \in Pipe, SendFails(q, k, orig, rsp) PROVE SndMove(q)
    <3>1. /\ UNCHANGED <<sent, ended>> /\ sndNext'[q] = sndNext[q] + 1
          /\ err'[q] = "SEND"
      BY <2>3 DEF SendFails, linkVars
    <3> QED BY <3>1 DEF SndMove
  <2>4. ASSUME SendAfterEnd(q, orig, rsp) PROVE SndMove(q)
    <3>1. sent' = sent /\ sndNext'[q] = sndNext[q] + 1 /\ ended' = ended
      BY <2>4 DEF SendAfterEnd, linkVars
    <3>2. ended[q]
      BY <2>4 DEF SendAfterEnd
    <3> QED BY <3>1, <3>2 DEF SndMove
  <2> QED BY <2>1, <2>2, <2>3, <2>4
<1>4. ASSUME ApiStep(q) PROVE SndMove(q)
  <2>1. CASE EndSending(q)
    BY <2>1 DEF EndSending, sndVars, SndMove
  <2>2. CASE ~SendStep(q) /\ ~EndSending(q)
    <3>1. UNCHANGED <<sent, sndNext, ended>>
      BY <1>4, <2>2
      DEF ApiStep, StartAndPoll, RequestRefused, ExpectMsg, ExpectMsgs,
          UndoExpectMsgs, ExpectLogInRequest, UndoExpectResponses, SetHandler,
          UnsetHandler, sndVars, linkVars
    <3> QED BY <1>1, <3>1
  <2> QED BY <1>3, <2>1, <2>2
<1>5. ASSUME ThreadStep(q) \/ \E k \in Pipe : ReadStep(q, k) \/ Break(q, k)
      PROVE  SndMove(q)
  <2>1. UNCHANGED <<sent, sndNext, ended>>
    BY <1>5
    DEF ThreadStep, Fire, Flush, ReadStep, ReceiveBad, ReceiveInternal,
        ReceiveEarly, ReceiveNext, ReadFails, ReadIgnored, Break, sndVars,
        linkVars
  <2> QED BY <1>1, <2>1
<1>6. CASE UNCHANGED vars
  BY <1>1, <1>6 DEF vars
<1>7. ASSUME NEW p \in Peer, StepOf(p) PROVE SndMove(q)
  <2>1. CASE p = q
    BY <1>4, <1>5, <1>7, <2>1 DEF StepOf
  <2> QED BY <1>2, <1>7, <2>1
<1> QED BY <1>6, <1>7, StepOfAPeer

(* The message with ID i is the i-th sent: what fails to be sent spends an *)
(* ID, but nothing is sent after that.                                     *)
Numbered(p) ==
  /\ \A i \in 1..Len(sent[p]) : sent[p][i].msg.id = i
  /\ Len(sent[p]) < sndNext[p]
  /\ ~ended[p] /\ err[p] = "ok" => sndNext[p] = Len(sent[p]) + 1

LEMMA HosedStays ==
  ASSUME NEW q \in Peer, UserMove(q) PROVE err[q] # "ok" => err'[q] # "ok"
BY DEF UserMove, Still, SendErrs, Returns, Hosed, Informed, Keeps, Accepts, Fires

LEMMA EndedStays ==
  ASSUME NEW q \in Peer, SndMove(q), ended[q] \in BOOLEAN
  PROVE  ended[q] => ended'[q] /\ sent'[q] = sent[q]
BY Zenon DEF SndMove

LEMMA NumberedNext ==
  ASSUME TypeInv, FlushIsGood, [Next]_vars, NEW p \in Peer, Numbered(p)
  PROVE  Numbered(p)'
<1>1. SndMove(p) /\ (err[p] # "ok" => err'[p] # "ok")
  BY SndMoveNext, UserMoveNext, HosedStays
<1>2. sent[p] \in Seq(SentMsg) /\ sndNext[p] \in Nat \ {0}
      /\ ended[p] \in BOOLEAN
  BY DEF TypeInv, TypeOK, SndTypes, LinkTypes
<1>3. Len(sent[p]) \in Nat
  BY <1>2
<1>4. CASE sent'[p] = sent[p] /\ sndNext'[p] = sndNext[p]
  <2>1. ended[p] => ended'[p]
    BY <1>1, <1>2, EndedStays
  <2> QED BY <1>1, <1>4, <2>1 DEF Numbered
<1>5. CASE /\ sent'[p] = sent[p] /\ sndNext'[p] = sndNext[p] + 1
           /\ ended'[p] \/ err'[p] # "ok"
  BY <1>2, <1>3, <1>5 DEF Numbered
<1>6. ASSUME err[p] = "ok", ~ended[p], sndNext'[p] = sndNext[p] + 1,
             NEW e \in SentMsg, e.msg.id = sndNext[p],
             sent'[p] = Append(sent[p], e)
      PROVE  Numbered(p)'
  <2>1. sndNext[p] = Len(sent[p]) + 1
    BY <1>6 DEF Numbered
  <2>2. /\ Len(sent'[p]) = Len(sent[p]) + 1
        /\ \A i \in 1..Len(sent[p]) : sent'[p][i] = sent[p][i]
        /\ sent'[p][Len(sent[p]) + 1] = e
    BY <1>2, <1>6, AppendProperties
  <2>3. \A i \in 1..Len(sent'[p]) : i \in 1..Len(sent[p]) \/ i = Len(sent[p]) + 1
    BY <1>3, <2>2
  <2>4. \A i \in 1..Len(sent'[p]) : sent'[p][i].msg.id = i
    BY <1>6, <2>1, <2>2, <2>3 DEF Numbered
  <2>5. sndNext'[p] = Len(sent'[p]) + 1 /\ Len(sent'[p]) < sndNext'[p]
    BY <1>3, <1>6, <2>1, <2>2
  <2> QED BY <2>4, <2>5 DEF Numbered
<1> QED BY <1>1, <1>4, <1>5, <1>6 DEF SndMove, Follows

-----------------------------------------------------------------------------
(* What a step does to the way to q.                                       *)
In(q) == sent[Other(q)]

WireSame(q) == UNCHANGED <<net[q], In(q), rcvNext[q], reasm[q]>>

(* p tells of the response it has just found unexpected.                   *)
Notice(p, n) ==
  /\ n.id = 0 /\ n.orig = rcvNext[p] /\ n.tok = token[p]
  /\ hq'[p] = Append(hq[p], Ev("unexpected", n.orig))
  /\ reasm[p] = {} => phase[p] # "CLI_LOG_IN"

WireNotice(q) ==
  /\ \E m \in Msg : Notice(Other(q), m) /\ net'[q] = AddTo(net[q], InternalPipe, m)
  /\ UNCHANGED <<In(q), rcvNext[q], reasm[q]>>

WireSend(q) ==
  /\ err[Other(q)] = "ok" /\ ~ended[Other(q)]
  /\ \E k \in Pipe, e \in SentMsg : /\ e.msg.id = sndNext[Other(q)]
                                    /\ net'[q] = AddTo(net[q], k, e.msg)
                                    /\ In(q)' = Append(In(q), e)
  /\ UNCHANGED <<rcvNext[q], reasm[q]>>

WireTake(q, k) ==
  LET m == Head(net[q][k])
  IN  /\ net[q][k] # <<>> /\ net'[q] = RestOf(net[q], k)
      /\ \/ UNCHANGED <<rcvNext[q], reasm[q]>> /\ (m.id = 0 \/ err'[q] # "ok")
         \/ /\ m.id > rcvNext[q] /\ reasm'[q] = reasm[q] \cup {m}
            /\ UNCHANGED rcvNext[q]
         \/ /\ m.id = rcvNext[q] /\ rcvNext'[q] = rcvNext[q] + 1
            /\ UNCHANGED reasm[q]
      /\ UNCHANGED In(q)

WireFlush(q) ==
  /\ \E m \in reasm[q] : /\ m.id = rcvNext[q] /\ rcvNext'[q] = rcvNext[q] + 1
                         /\ reasm'[q] = reasm[q] \ {m}
  /\ UNCHANGED <<net[q], In(q)>>

WireMove(q) == \/ WireSame(q) \/ WireNotice(q) \/ WireSend(q)
               \/ \E k \in Pipe : WireTake(q, k)
               \/ WireFlush(q)

LEMMA OtherOther ==
  \A q \in Peer : Other(q) \in Peer \ {q} /\ Other(Other(q)) = q
BY OtherPeer DEF Peer

(* What p does with a message it accepts leaves its own pipes as they are  *)
(* to be, and adds to the other's a notice at most.                        *)
LEMMA WireDeliver ==
  ASSUME TypeInv, NEW p \in Peer, NEW m \in Msg, NEW pipes,
         IsNextExpected(p, m, pipes)
  PROVE  /\ net'[p] = pipes
         /\ \/ net'[Other(p)] = net[Other(p)]
            \/ /\ ~IsResponseExpected(p, m)
               /\ \E n \in Msg :
                    /\ n.id = 0 /\ n.orig = m.id /\ n.tok = token[p]
                    /\ hq'[p] = Append(hq[p], Ev("unexpected", n.orig))
                    /\ net'[Other(p)] = AddTo(net[Other(p)], InternalPipe, n)
<1> DEFINE o == Other(p)
           n == Internal(m.id, token[p])
<1>1. o \in Peer \ {p} /\ net \in [Peer -> Pipes] /\ InternalPipe \in Pipe
  BY OtherOther, InternalPipeIsPipe DEF TypeInv, TypeOK, Pipes
<1>2. n \in Msg /\ n.id = 0 /\ n.orig = m.id /\ n.tok = token[p]
  BY ConstantsAssumption DEF Internal, Msg, TypeInv, TypeOK, AuthTypes
<1>3. CASE net' = [net EXCEPT ![p] = pipes]
  BY <1>1, <1>3
<1>4. CASE DeliverUnexpected(p, m, pipes)
  <2>1. PICK able \in BOOLEAN :
          net' = [net EXCEPT ![p] = pipes, ![o][InternalPipe] =
                               IF able THEN Append(@, n) ELSE @]
    BY <1>4 DEF DeliverUnexpected
  <2>6. ~IsResponseExpected(p, m) /\ hq'[p] = Append(hq[p], Ev("unexpected", m.id))
    BY <1>4 DEF DeliverUnexpected, TypeInv, TypeOK
  <2> HIDE DEF n, o
  <2>2. net'[p] = pipes
    BY <1>1, <2>1
  <2>3. net'[o] = [net[o] EXCEPT ![InternalPipe] =
                     IF able THEN Append(@, n) ELSE @]
    BY <1>1, <2>1
  <2>4. able => net'[o] = AddTo(net[o], InternalPipe, n)
    BY <2>3 DEF AddTo
  <2>5. ~able => net'[o] = net[o]
    BY <1>1, <2>3 DEF Pipes
  <2> QED BY <1>1, <1>2, <2>2, <2>4, <2>5, <2>6 DEF o
<1> QED
  BY <1>3, <1>4
  DEF IsNextExpected, DeliverResponse, DeliverExpected, DeliverLater

LEMMA WireMoveRead ==
  ASSUME TypeInv, NEW q \in Peer, NEW k \in Pipe, ReadStep(q, k) \/ Break(q, k),
         UNCHANGED In(q)
  PROVE  WireMove(q)
<1> USE DEF TypeInv, TypeOK, rcvVars
<1> DEFINE m == Head(net[q][k])
           t == RestOf(net[q], k)
<1>1. MsgAt(q, k) => net[q][k] # <<>> /\ m \in Msg
  BY HeadIsMsg DEF MsgAt
<1>2. Rest(q, k) = t
  BY DEF Rest, RestOf
<1>3. net' = [net EXCEPT ![q] = Rest(q, k)] => net'[q] = t
  BY <1>2
<1>4. CASE ReceiveBad(q, k)
  <2>1. MsgAt(q, k) /\ net'[q] = t /\ err'[q] # "ok"
    BY <1>3, <1>4 DEF ReceiveBad, NewError
  <2>2. /\ UNCHANGED reasm
        /\ \/ rcvNext'[q] = rcvNext[q]
           \/ rcvNext'[q] = rcvNext[q] + 1 /\ m.id = rcvNext[q]
    BY <1>4 DEF ReceiveBad, InOrder, RcvTypes
  <2>3. WireTake(q, k)
    BY <1>1, <2>1, <2>2 DEF WireTake
  <2> QED BY <2>3 DEF WireMove
<1>5. CASE ReceiveInternal(q, k)
  <2>1. MsgAt(q, k) /\ net'[q] = t /\ m.id = 0 /\ UNCHANGED <<rcvNext, reasm>>
    BY <1>3, <1>5 DEF ReceiveInternal
  <2>2. WireTake(q, k)
    BY <1>1, <2>1 DEF WireTake
  <2> QED BY <2>2 DEF WireMove
<1>6. CASE ReceiveEarly(q, k)
  <2>1. MsgAt(q, k) /\ net'[q] = t /\ m.id > rcvNext[q] /\ UNCHANGED rcvNext
        /\ reasm'[q] = reasm[q] \cup {m}
    BY <1>3, <1>6 DEF ReceiveEarly, RcvTypes
  <2>2. WireTake(q, k)
    BY <1>1, <2>1 DEF WireTake
  <2> QED BY <2>2 DEF WireMove
<1>7. CASE ReceiveNext(q, k)
  <2>1. MsgAt(q, k) /\ m.id = rcvNext[q] /\ rcvNext'[q] = rcvNext[q] + 1
        /\ UNCHANGED reasm /\ IsNextExpected(q, m, Rest(q, k))
    BY <1>7 DEF ReceiveNext, RcvTypes
  <2>2. net'[q] = t
    BY <1>1, <1>2, <2>1, WireDeliver
  <2>3. WireTake(q, k)
    BY <1>1, <2>1, <2>2 DEF WireTake
  <2> QED BY <2>3 DEF WireMove
<1>8. CASE ReadFails(q, k) \/ Break(q, k)
  <2>1. WireSame(q)
    BY <1>8 DEF ReadFails, Break, WireSame
  <2> QED BY <2>1 DEF WireMove
<1>9. CASE ReadIgnored(q, k)
  <2>1. err'[q] # "ok" /\ UNCHANGED <<rcvNext, reasm>>
        /\ net' = [net EXCEPT ![q][k] = IF @ = <<>> THEN @ ELSE Tail(@)]
    BY <1>9 DEF ReadIgnored
  <2>2. net[q] \in Pipes /\ net'[q] = [net[q] EXCEPT ![k] =
                                         IF @ = <<>> THEN @ ELSE Tail(@)]
    BY <2>1 DEF Pipes
  <2>3. CASE net[q][k] = <<>>
    <3>1. net'[q] = net[q]
      BY <2>2, <2>3 DEF Pipes
    <3> QED BY <2>1, <3>1 DEF WireMove, WireSame
  <2>4. CASE net[q][k] # <<>>
    <3>1. net'[q] = t
      BY <2>2, <2>4 DEF RestOf
    <3>2. WireTake(q, k)
      BY <2>1, <2>4, <3>1 DEF WireTake
    <3> QED BY <3>2 DEF WireMove
  <2> QED BY <2>3, <2>4
<1> QED BY <1>4, <1>5, <1>6, <1>7, <1>8, <1>9 DEF ReadStep

(* A step of q itself.                                                     *)
LEMMA WireMoveOwn ==
  ASSUME TypeInv, NEW q \in Peer, StepOf(q) PROVE WireMove(q)
<1>1. UNCHANGED In(q)
  BY OtherUntouched, OtherOther DEF In, Untouched, OwnSnd
<1>2. CASE ApiStep(q)
  <2>1. UNCHANGED <<rcvNext, reasm>>
    BY <1>2, ZenonT(40)
    DEF ApiStep, StartAndPoll, SendStep, Send, SendFails, SendAfterEnd,
        RequestRefused, EndSending, ExpectMsg, ExpectMsgs, UndoExpectMsgs,
        ExpectLogInRequest, UndoExpectResponses, SetHandler, UnsetHandler, rcvVars
  <2>2. net'[q] = net[q]
    <3>1. ASSUME NEW m, NEW k \in Pipe,
                 net' = [net EXCEPT ![Other(q)][k] = Append(@, m)]
          PROVE  net'[q] = net[q]
      BY <3>1, OtherOther DEF TypeInv, TypeOK
    <3> QED
      BY <1>2, <3>1, ZenonT(40)
      DEF ApiStep, StartAndPoll, SendStep, Send, SendFails, SendAfterEnd,
          RequestRefused, EndSending, ExpectMsg, ExpectMsgs, UndoExpectMsgs,
          ExpectLogInRequest, UndoExpectResponses, SetHandler, UnsetHandler
  <2> QED BY <1>1, <2>1, <2>2 DEF WireMove, WireSame
<1>3. CASE Fire(q)
  BY <1>1, <1>3 DEF Fire, rcvVars, WireMove, WireSame
<1>4. ASSUME NEW m \in reasm[q], Flush(q, m) PROVE WireMove(q)
  <2>1. m \in Msg /\ m.id = rcvNext[q] /\ rcvNext'[q] = rcvNext[q] + 1
        /\ reasm'[q] = reasm[q] \ {m} /\ IsNextExpected(q, m, net[q])
    BY <1>4 DEF Flush, TypeInv, TypeOK, RcvTypes
  <2>2. net'[q] = net[q]
    BY <2>1, WireDeliver
  <2>3. WireFlush(q)
    BY <1>1, <2>1, <2>2 DEF WireFlush
  <2> QED BY <2>3 DEF WireMove
<1>5. ASSUME NEW k \in Pipe, ReadStep(q, k) \/ Break(q, k) PROVE WireMove(q)
  BY <1>1, <1>5, WireMoveRead
<1> QED BY <1>2, <1>3, <1>4, <1>5 DEF StepOf, ThreadStep

(* The message that ends the client's log-in is one it expects.            *)
LEMMA LogInAnswered ==
  ASSUME TypeInv, NEW p \in Peer, NEW m \in Msg, m.id = rcvNext[p],
         InMsgError(p, m) = "ok", phase[p] = "CLI_LOG_IN"
  PROVE  IsResponseExpected(p, m)
<1>1. m.id # 0
  BY DEF TypeInv, TypeOK, RcvTypes
<1>2. TokenError(p, m) = "ok"
  BY DEF InMsgError
<1>3. InOrder(p, m)
  BY <1>1, <1>2 DEF InMsgError, InOrder
<1>4. LogInError(p, m) = "ok"
  BY <1>1, <1>2, <1>3 DEF InMsgError
<1>5. rspOnce[p] \cup rspOpen[p] = {1} /\ m.orig = 1
  BY <1>4 DEF LogInError
<1> QED BY <1>5 DEF IsResponseExpected

(* A step of the peer that sends to q.                                     *)
LEMMA WireMoveOther ==
  ASSUME TypeInv, NEW p \in Peer, StepOf(p), NEW q \in Peer, q = Other(p)
  PROVE  WireMove(q)
<1> USE DEF TypeInv, TypeOK, rcvVars, sndVars
<1>1. UNCHANGED <<rcvNext[q], reasm[q]>>
  BY OtherUntouched, OtherOther DEF Untouched, OwnRcv
<1>2. Other(q) = p /\ p # q
  BY OtherOther
<1>3. ASSUME UNCHANGED sent, net'[q] = net[q] PROVE WireMove(q)
  BY <1>1, <1>3 DEF WireMove, WireSame, In
<1>4. ASSUME NEW m \in Msg, NEW pipes, IsNextExpected(p, m, pipes),
             UNCHANGED sent, m.id = rcvNext[p],
             reasm[p] = {} /\ phase[p] = "CLI_LOG_IN" => IsResponseExpected(p, m)
      PROVE  WireMove(q)
  <2>1. \/ net'[q] = net[q]
        \/ /\ ~IsResponseExpected(p, m)
           /\ \E n \in Msg :
                /\ n.id = 0 /\ n.orig = m.id /\ n.tok = token[p]
                /\ hq'[p] = Append(hq[p], Ev("unexpected", n.orig))
                /\ net'[q] = AddTo(net[q], InternalPipe, n)
    <3>1. \/ net'[Other(p)] = net[Other(p)]
          \/ /\ ~IsResponseExpected(p, m)
             /\ \E n \in Msg :
                  /\ n.id = 0 /\ n.orig = m.id /\ n.tok = token[p]
                  /\ hq'[p] = Append(hq[p], Ev("unexpected", n.orig))
                  /\ net'[Other(p)] = AddTo(net[Other(p)], InternalPipe, n)
      BY <1>4, WireDeliver
    <3> QED BY <3>1, Zenon
  <2>2. ASSUME ~IsResponseExpected(p, m), NEW n \in Msg,
               n.id = 0, n.orig = m.id, n.tok = token[p],
               hq'[p] = Append(hq[p], Ev("unexpected", n.orig)),
               net'[q] = AddTo(net[q], InternalPipe, n)
        PROVE  WireNotice(q)
    <3>1. Notice(p, n)
      BY <1>4, <2>2 DEF Notice
    <3> QED BY <1>1, <1>2, <1>4, <2>2, <3>1 DEF WireNotice, In
  <2> QED BY <1>3, <1>4, <2>1, <2>2 DEF WireMove
<1>5. ASSUME NEW k \in Pipe, NEW w \in Which, NEW orig \in Held(p) \cup {0},
             NEW rsp \in DOMAIN RspApi, Send(p, k, w, orig, rsp)
      PROVE  WireMove(q)
  <2> DEFINE m == [id |-> sndNext[p], orig |-> orig, which |-> w, tok |-> token[p]]
             e == [msg |-> m, rsp |-> rsp]
  <2>1. m \in Msg /\ e \in SentMsg /\ e.msg = m /\ m.id = sndNext[p]
    BY HeldIds DEF AuthTypes, SndTypes, Msg, SentMsg
  <2>2. /\ net' = [net EXCEPT ![q][k] = Append(@, m)]
        /\ sent' = [sent EXCEPT ![p] = Append(@, e)]
        /\ err[p] = "ok" /\ ~ended[p]
    BY <1>5 DEF Send, SendCallable
  <2> HIDE DEF m, e
  <2>3. net'[q] = AddTo(net[q], k, m)
    BY <2>2 DEF AddTo
  <2>4. In(q)' = Append(In(q), e)
    BY <1>2, <2>2 DEF In, SndTypes
  <2>5. WireSend(q)
    BY <1>1, <1>2, <2>1, <2>2, <2>3, <2>4, ZenonT(40) DEF WireSend
  <2> QED BY <2>5 DEF WireMove
<1>6. CASE ApiStep(p)
  BY <1>3, <1>5, <1>6
  DEF ApiStep, StartAndPoll, SendStep, SendFails, SendAfterEnd, RequestRefused,
      EndSending, ExpectMsg, ExpectMsgs, UndoExpectMsgs, ExpectLogInRequest,
      UndoExpectResponses, SetHandler, UnsetHandler
<1>7. CASE ThreadStep(p)
  <2>1. ASSUME NEW m \in reasm[p], Flush(p, m) PROVE WireMove(q)
    <3>1. m \in Msg /\ m.id = rcvNext[p] /\ UNCHANGED sent /\ reasm[p] # {}
          /\ IsNextExpected(p, m, net[p])
      BY <2>1 DEF Flush, RcvTypes
    <3> QED BY <1>4, <3>1
  <2> QED BY <1>3, <1>7, <2>1 DEF ThreadStep, Fire
<1>8. ASSUME NEW k \in Pipe, ReadStep(p, k) \/ Break(p, k) PROVE WireMove(q)
  <2>1. CASE ReceiveNext(p, k)
    <3> DEFINE m == Head(net[p][k])
    <3>1. /\ m \in Msg /\ m.id = rcvNext[p] /\ InMsgError(p, m) = "ok"
          /\ IsNextExpected(p, m, Rest(p, k)) /\ UNCHANGED sent
      BY <2>1, HeadIsMsg DEF ReceiveNext, MsgAt
    <3>2. phase[p] = "CLI_LOG_IN" => IsResponseExpected(p, m)
      BY <3>1, LogInAnswered
    <3> QED BY <1>4, <3>1, <3>2
  <2>2. CASE ~ReceiveNext(p, k)
    <3>1. UNCHANGED sent
      BY <1>8, <2>2
      DEF ReadStep, ReceiveBad, ReceiveInternal, ReceiveEarly, ReadFails,
          ReadIgnored, Break
    <3>2. ASSUME net' = [net EXCEPT ![p] = Rest(p, k)] PROVE net'[q] = net[q]
      BY <1>2, <3>2
    <3>3. ReadIgnored(p, k) => net'[q] = net[q]
      BY <1>2 DEF ReadIgnored
    <3>4. net'[q] = net[q]
      BY <1>8, <2>2, <3>2, <3>3
      DEF ReadStep, ReceiveBad, ReceiveInternal, ReceiveEarly, ReadFails, Break
    <3> QED BY <1>3, <3>1, <3>4
  <2> QED BY <2>1, <2>2
<1> QED BY <1>6, <1>7, <1>8 DEF StepOf

LEMMA WireMoveNext ==
  ASSUME TypeInv, [Next]_vars, NEW q \in Peer PROVE WireMove(q)
<1>1. CASE UNCHANGED vars
  BY <1>1 DEF vars, WireMove, WireSame, In
<1>2. ASSUME NEW p \in Peer, StepOf(p) PROVE WireMove(q)
  <2>1. CASE p = q
    BY <1>2, <2>1, WireMoveOwn
  <2>2. CASE p # q
    <3>1. q = Other(p)
      BY <2>2, OtherOther DEF Peer
    <3> QED BY <1>2, <3>1, WireMoveOther
  <2> QED BY <2>1, <2>2
<1> QED BY <1>1, <1>2, StepOfAPeer

-----------------------------------------------------------------------------
(* What is on the way to q is what was sent and is not accepted yet, in    *)
(* order; while q's channel is good nothing of it is missing.              *)
FlowOn(q) ==
  /\ FlowOK(net[q], reasm[q], rcvNext[q], In(q))
  /\ err[q] = "ok" => Whole(net[q], reasm[q], rcvNext[q], In(q))

FlowInv == ThreadInv /\ \A p \in Peer : Numbered(p) /\ FlowOn(p)

LEMMA FlowOnInit == Init => \A q \in Peer : FlowOn(q)
<1> SUFFICES ASSUME Init, NEW q \in Peer PROVE FlowOn(q)
  OBVIOUS
<1>1. /\ net[q] = [k \in Pipe |-> <<>>] /\ reasm[q] = {} /\ rcvNext[q] = 1
      /\ In(q) = <<>>
  BY OtherOther DEF Init, In
<1>2. net[q] \in Pipes /\ In(q) \in Seq(SentMsg)
  BY <1>1 DEF Pipes
<1>3. \A k \in Pipe : 1..Len(net[q][k]) = {}
  BY <1>1
<1>4. Len(In(q)) = 0 /\ 1..0 = {}
  BY <1>1
<1> QED
  BY <1>1, <1>2, <1>3, <1>4 DEF FlowOn, FlowOK, Sound, Ordered, Apart, Whole

LEMMA FlowOnNext ==
  ASSUME TypeInv, FlushIsGood, [Next]_vars, NEW q \in Peer,
         Numbered(Other(q)), FlowOn(q)
  PROVE  FlowOn(q)'
<1> DEFINE n == net[q]
           r == reasm[q]
           x == rcvNext[q]
           s == In(q)
<1>1. FlowOK(n, r, x, s) /\ (err[q] = "ok" => Whole(n, r, x, s))
  BY DEF FlowOn
<1>2. err'[q] = "ok" => err[q] = "ok"
  BY UserMoveNext, HosedStays
<1>3. ASSUME FlowOK(net'[q], reasm'[q], rcvNext'[q], In(q)'),
             err'[q] = "ok" /\ Whole(n, r, x, s) =>
               Whole(net'[q], reasm'[q], rcvNext'[q], In(q)')
      PROVE  FlowOn(q)'
  BY <1>1, <1>2, <1>3 DEF FlowOn
<1>4. CASE WireSame(q)
  BY <1>1, <1>3, <1>4 DEF WireSame
<1>5. CASE WireNotice(q)
  <2>1. /\ InternalPipe \in Pipe
        /\ \E m \in Msg : m.id = 0 /\ net'[q] = AddTo(net[q], InternalPipe, m)
    BY <1>5, InternalPipeIsPipe DEF WireNotice, Notice
  <2>5. PICK m \in Msg : m.id = 0 /\ net'[q] = AddTo(net[q], InternalPipe, m)
    BY <2>1
  <2>2. UNCHANGED <<In(q), rcvNext[q], reasm[q]>>
    BY <1>5 DEF WireNotice
  <2> HIDE DEF n, r, x, s
  <2>3. /\ FlowOK(AddTo(n, InternalPipe, m), r, x, s)
        /\ Whole(n, r, x, s) => Whole(AddTo(n, InternalPipe, m), r, x, s)
    BY <1>1, <2>1, <2>5, AddNotice
  <2> QED BY <1>3, <2>2, <2>3, <2>5 DEF n, r, x, s
<1>6. CASE WireSend(q)
  <2>1. PICK k \in Pipe, e \in SentMsg : /\ e.msg.id = sndNext[Other(q)]
                                         /\ net'[q] = AddTo(net[q], k, e.msg)
                                         /\ In(q)' = Append(In(q), e)
    BY <1>6 DEF WireSend
  <2>2. /\ UNCHANGED <<rcvNext[q], reasm[q]>>
        /\ err[Other(q)] = "ok" /\ ~ended[Other(q)]
    BY <1>6 DEF WireSend
  <2>3. e.msg.id = Len(s) + 1 /\ e.msg \in Msg
    BY <2>1, <2>2 DEF Numbered, In, SentMsg
  <2> HIDE DEF n, r, x, s
  <2>4. /\ FlowOK(AddTo(n, k, e.msg), r, x, Append(s, e))
        /\ Whole(n, r, x, s) => Whole(AddTo(n, k, e.msg), r, x, Append(s, e))
    BY <1>1, <2>3, AddUser
  <2> QED BY <1>3, <2>1, <2>2, <2>4 DEF n, r, x, s
<1>7. ASSUME NEW k \in Pipe, WireTake(q, k) PROVE FlowOn(q)'
  <2> DEFINE m == Head(n[k])
             t == RestOf(n, k)
  <2>1. n[k] # <<>> /\ net'[q] = t /\ In(q)' = s
    BY <1>7 DEF WireTake
  <2>2. \/ UNCHANGED <<rcvNext[q], reasm[q]>> /\ (m.id = 0 \/ err'[q] # "ok")
        \/ m.id > x /\ reasm'[q] = r \cup {m} /\ UNCHANGED rcvNext[q]
        \/ m.id = x /\ rcvNext'[q] = x + 1 /\ UNCHANGED reasm[q]
    BY <1>7 DEF WireTake
  <2>3. /\ FlowOK(t, r, x, s)
        /\ m.id = 0 /\ Whole(n, r, x, s) => Whole(t, r, x, s)
        /\ m.id > x => /\ FlowOK(t, r \cup {m}, x, s)
                       /\ Whole(n, r, x, s) => Whole(t, r \cup {m}, x, s)
        /\ m.id = x => /\ FlowOK(t, r, x + 1, s)
                       /\ Whole(n, r, x, s) => Whole(t, r, x + 1, s)
    <3> HIDE DEF n, r, x, s
    <3> QED BY <1>1, <2>1, TakeMessage
  <2>4. CASE UNCHANGED <<rcvNext[q], reasm[q]>> /\ (m.id = 0 \/ err'[q] # "ok")
    BY <1>3, <2>1, <2>3, <2>4
  <2>5. CASE m.id > x /\ reasm'[q] = r \cup {m} /\ UNCHANGED rcvNext[q]
    BY <1>3, <2>1, <2>3, <2>5
  <2>6. CASE m.id = x /\ rcvNext'[q] = x + 1 /\ UNCHANGED reasm[q]
    BY <1>3, <2>1, <2>3, <2>6
  <2> QED BY <2>2, <2>4, <2>5, <2>6
<1>8. CASE WireFlush(q)
  <2>1. PICK m \in r : m.id = x /\ rcvNext'[q] = x + 1 /\ reasm'[q] = r \ {m}
    BY <1>8 DEF WireFlush
  <2>2. net'[q] = n /\ In(q)' = s
    BY <1>8 DEF WireFlush
  <2>3. /\ FlowOK(n, r \ {m}, x + 1, s)
        /\ Whole(n, r, x, s) => Whole(n, r \ {m}, x + 1, s)
    <3> HIDE DEF n, r, x, s
    <3> QED BY <1>1, <2>1, TakeFromReassembly
  <2> QED BY <1>3, <2>1, <2>2, <2>3
<1> QED BY <1>4, <1>5, <1>6, <1>7, <1>8, WireMoveNext DEF WireMove

LEMMA FlowInvInit == Init => FlowInv
<1> SUFFICES ASSUME Init PROVE FlowInv
  OBVIOUS
<1>1. \A p \in Peer : sent[p] = <<>> /\ sndNext[p] = 1
  BY DEF Init
<1>2. \A p \in Peer : Numbered(p)
  BY <1>1 DEF Numbered
<1> QED BY <1>2, ThreadInvInit, FlowOnInit DEF FlowInv

LEMMA FlowInvNext == FlowInv /\ [Next]_vars => FlowInv'
<1> SUFFICES ASSUME FlowInv, [Next]_vars PROVE FlowInv'
  OBVIOUS
<1>1. ThreadInv' /\ TypeInv /\ FlushIsGood
  BY ThreadInvNext DEF FlowInv, ThreadInv
<1>2. ASSUME NEW p \in Peer PROVE Numbered(p)' /\ FlowOn(p)'
  <2>1. Other(p) \in Peer
    BY OtherPeer
  <2> QED BY <1>1, <2>1, NumberedNext, FlowOnNext DEF FlowInv
<1> QED BY <1>1, <1>2 DEF FlowInv

-----------------------------------------------------------------------------
(* When a peer learns that the other has finished sending, one of the      *)
(* pipes from it was read to its end.                                      *)
LEMMA Finishes ==
  ASSUME TypeInv, [Next]_vars, NEW p \in Peer,
         err'[p] = "RECEIVES_FINISHED", err[p] # "RECEIVES_FINISHED"
  PROVE  /\ err[p] = "ok" /\ ended[Other(p)]
         /\ \E k \in Pipe : net[p][k] = <<>>
         /\ UNCHANGED <<rcvNext, sent, ended>>
<1> USE DEF TypeInv, TypeOK
<1>1. PICK q \in Peer : StepOf(q)
  BY StepOfAPeer DEF vars
<1>2. q = p
  BY <1>1, OtherUntouched DEF Untouched, OwnLoop
<1>3. ASSUME ApiStep(p) PROVE err'[p] \in {err[p], "SEND", "GOT_UNEXPECTED_LOG_IN_REQUEST"}
  BY <1>3, ZenonT(40)
  DEF ApiStep, StartAndPoll, SendStep, Send, SendFails, SendAfterEnd,
      RequestRefused, EndSending, ExpectMsg, ExpectMsgs, UndoExpectMsgs,
      ExpectLogInRequest, UndoExpectResponses, SetHandler, UnsetHandler, NewError
<1>4. PICK k \in Pipe : ReadStep(p, k) \/ Break(p, k)
  BY <1>1, <1>2, <1>3 DEF StepOf, ThreadStep, Fire, Flush
<1>5. ~ReceiveBad(p, k)
  <2>1. Head(net[p][k]) \in Msg
          => InMsgError(p, Head(net[p][k])) # "RECEIVES_FINISHED"
    BY DEF InMsgError, TokenError, SequenceError, LogInError, AuthTypes, Phase
  <2>2. ReceiveBad(p, k) => err'[p] = InMsgError(p, Head(net[p][k]))
                              /\ Head(net[p][k]) \in Msg
    BY HeadIsMsg DEF ReceiveBad, NewError, MsgAt
  <2> QED BY <2>1, <2>2
<1>6. ReadFails(p, k)
  BY <1>4, <1>5
  DEF ReadStep, ReceiveInternal, ReceiveEarly, ReceiveNext, ReadIgnored, Break
<1>7. err[p] = "ok" /\ UNCHANGED <<rcvNext, sent, ended>>
  BY <1>6 DEF ReadFails, rcvVars, sndVars, linkVars
<1>8. PICK e \in ReadError(p, k) : NewError(p, e)
  BY <1>6 DEF ReadFails
<1>9. e = "RECEIVES_FINISHED"
  BY <1>8 DEF NewError
<1>10. ended[Other(p)] /\ net[p][k] = <<>>
  BY <1>8, <1>9 DEF ReadError
<1> QED BY <1>7, <1>10

(* With one pipe its end is the end of everything.                         *)
CutsNothing(p) ==
  ~TwoPipes /\ err[p] = "RECEIVES_FINISHED" =>
    ended[Other(p)] /\ rcvNext[p] > Len(In(p))

LEMMA CutsNothingNext ==
  ASSUME FlowInv, [Next]_vars, NEW p \in Peer, CutsNothing(p)
  PROVE  CutsNothing(p)'
<1> SUFFICES ASSUME ~TwoPipes, err'[p] = "RECEIVES_FINISHED"
             PROVE  (ended[Other(p)])' /\ rcvNext'[p] > Len(In(p)')
  BY DEF CutsNothing, TwoPipes
<1> USE DEF FlowInv, ThreadInv
<1>1. CASE err[p] = "RECEIVES_FINISHED"
  <2>1. rcvNext'[p] = rcvNext[p]
    <3>1. UserMove(p)
      BY UserMoveNext
    <3> QED
      BY <1>1, <3>1
      DEF UserMove, Still, SendErrs, Returns, Hosed, Informed, Keeps, Accepts,
          Fires
  <2>2. (ended[Other(p)])' /\ In(p)' = In(p)
    <3>1. SndMove(Other(p)) /\ ended[Other(p)] \in BOOLEAN
      BY SndMoveNext, OtherPeer DEF TypeInv, TypeOK, LinkTypes
    <3>2. ended[Other(p)]
      BY <1>1 DEF CutsNothing
    <3> QED BY <3>1, <3>2, EndedStays, OtherPeer DEF In
  <2> QED BY <1>1, <2>1, <2>2 DEF CutsNothing
<1>2. CASE err[p] # "RECEIVES_FINISHED"
  <2>1. /\ err[p] = "ok" /\ ended[Other(p)]
        /\ \E k \in Pipe : net[p][k] = <<>>
        /\ UNCHANGED <<rcvNext, sent, ended>>
    BY <1>2, Finishes
  <2>2. \A k, l \in Pipe : k = l
    BY ConstantsAssumption DEF TwoPipes
  <2>3. \A i : ~OnAPipe(net[p], i)
    BY <2>1, <2>2 DEF OnAPipe
  <2>4. reasm[p] = {}
    BY DEF OneAtATime
  <2>5. \A i \in rcvNext[p]..Len(In(p)) : FALSE
    BY <2>1, <2>3, <2>4 DEF FlowOn, Whole
  <2>6. rcvNext[p] > Len(In(p))
    <3>1. rcvNext[p] \in Nat /\ Len(In(p)) \in Nat
      BY DEF FlowOn, FlowOK
    <3> QED BY <2>5, <3>1
  <2> QED BY <2>1, <2>6 DEF In
<1> QED BY <1>1, <1>2

(* A graceful-close cuts nothing off a channel of one pipe.  (With two     *)
(* pipes the end of one may be read before the other's messages are.)      *)
THEOREM CloseCutsNothingOffAlways == ~TwoPipes => (Spec => []CloseCutsNothingOff)
<1> SUFFICES ASSUME ~TwoPipes PROVE Spec => []CloseCutsNothingOff
  OBVIOUS
<1> DEFINE CutInv == FlowInv /\ \A p \in Peer : CutsNothing(p)
<1>1. Init => CutInv
  BY FlowInvInit DEF Init, CutsNothing
<1>2. CutInv /\ [Next]_vars => CutInv'
  BY FlowInvNext, CutsNothingNext
<1>3. CutInv => CloseCutsNothingOff
  BY DEF CutsNothing, CloseCutsNothingOff, In
<1> HIDE DEF CutInv
<1> QED BY <1>1, <1>2, <1>3, PTL DEF Spec

-----------------------------------------------------------------------------
(* What a peer has in hand - posted, waiting, returned or handed over - it *)
(* has accepted.                                                           *)
IdsBelow(s, x) == \A i \in 1..Len(s) : s[i] \in 1..(x - 1)
EventsBelow(s, x) ==
  \A i \in 1..Len(s) : s[i].kind \in MsgKinds => s[i].id \in 1..(x - 1)

Known(p) ==
  /\ EventsBelow(hq[p], rcvNext[p]) /\ EventsBelow(log[p], rcvNext[p])
  /\ \A w \in Which : IdsBelow(pending[p][w], rcvNext[p])
  /\ IdsBelow(qdMsgs[p], rcvNext[p])

LEMMA BelowMore ==
  ASSUME NEW s, NEW x \in Nat, NEW y \in Nat, x <= y
  PROVE  /\ IdsBelow(s, x) => IdsBelow(s, y)
         /\ EventsBelow(s, x) => EventsBelow(s, y)
<1>1. 1..(x - 1) \subseteq 1..(y - 1)
  OBVIOUS
<1> QED BY <1>1 DEF IdsBelow, EventsBelow

LEMMA BelowAppend ==
  ASSUME NEW S, NEW s \in Seq(S), NEW e \in S, NEW x
  PROVE  /\ IdsBelow(s, x) /\ e \in 1..(x - 1) => IdsBelow(Append(s, e), x)
         /\ EventsBelow(s, x) /\ (e.kind \in MsgKinds => e.id \in 1..(x - 1))
              => EventsBelow(Append(s, e), x)
<1> DEFINE t == Append(s, e)
<1>1. /\ Len(t) = Len(s) + 1 /\ Len(s) \in Nat
      /\ \A i \in 1..Len(s) : t[i] = s[i]
      /\ t[Len(s) + 1] = e
  BY AppendProperties
<1> HIDE DEF t
<1>2. \A i \in 1..Len(t) : i \in 1..Len(s) \/ i = Len(s) + 1
  BY <1>1
<1>3. IdsBelow(s, x) /\ e \in 1..(x - 1) => IdsBelow(t, x)
  BY <1>1, <1>2 DEF IdsBelow
<1>4. EventsBelow(s, x) /\ (e.kind \in MsgKinds => e.id \in 1..(x - 1))
        => EventsBelow(t, x)
  BY <1>1, <1>2 DEF EventsBelow
<1> QED BY <1>3, <1>4 DEF t

LEMMA BelowTail ==
  ASSUME NEW S, NEW s \in Seq(S), s # <<>>, NEW x
  PROVE  /\ IdsBelow(s, x) => IdsBelow(Tail(s), x) /\ Head(s) \in 1..(x - 1)
         /\ EventsBelow(s, x) =>
              /\ EventsBelow(Tail(s), x)
              /\ Head(s).kind \in MsgKinds => Head(s).id \in 1..(x - 1)
<1> DEFINE t == Tail(s)
<1>1. /\ Len(t) = Len(s) - 1 /\ Len(s) \in Nat \ {0}
      /\ \A i \in 1..Len(t) : t[i] = s[i + 1]
      /\ Head(s) = s[1]
  BY HeadTailProperties, EmptySeq
<1> HIDE DEF t
<1>2. \A i \in 1..Len(t) : i + 1 \in 1..Len(s)
  BY <1>1
<1>3. 1 \in 1..Len(s)
  BY <1>1
<1>4. IdsBelow(s, x) => IdsBelow(t, x) /\ Head(s) \in 1..(x - 1)
  BY <1>1, <1>2, <1>3 DEF IdsBelow
<1>5. EventsBelow(s, x) =>
        /\ EventsBelow(t, x)
        /\ Head(s).kind \in MsgKinds => Head(s).id \in 1..(x - 1)
  BY <1>1, <1>2, <1>3 DEF EventsBelow
<1> QED BY <1>4, <1>5 DEF t

LEMMA EventsOfIds ==
  ASSUME NEW ids \in Seq(Nat)
  PROVE  /\ Events(ids) \in Seq(Event) /\ Len(Events(ids)) = Len(ids)
         /\ \A i \in 1..Len(ids) : Events(ids)[i] = Ev("msg", ids[i])
<1>1. \A i \in 1..Len(ids) : Ev("msg", ids[i]) \in Event
  BY DEF Ev, Event
<1>2. Len(ids) \in Nat
  OBVIOUS
<1> QED BY <1>1, <1>2 DEF Events

LEMMA ConcatIs ==
  ASSUME NEW S, NEW s \in Seq(S), NEW t \in Seq(S)
  PROVE  /\ s \o t \in Seq(S)
         /\ Len(s) \in Nat /\ Len(t) \in Nat
         /\ Len(s \o t) = Len(s) + Len(t)
         /\ \A i \in 1..Len(s) : i \in 1..Len(s \o t) /\ (s \o t)[i] = s[i]
         /\ \A j \in 1..Len(t) : /\ Len(s) + j \in 1..Len(s \o t)
                                 /\ (s \o t)[Len(s) + j] = t[j]
         /\ \A i \in 1..Len(s \o t) :
              i \in 1..Len(s) \/ (i - Len(s) \in 1..Len(t) /\ i = Len(s) + (i - Len(s)))
<1> DEFINE u == s \o t
<1>1. u \in Seq(S) /\ Len(s) \in Nat /\ Len(t) \in Nat
  BY ConcatProperties
<1>2. /\ Len(u) = Len(s) + Len(t)
      /\ \A i \in 1..Len(s) + Len(t) :
           u[i] = IF i <= Len(s) THEN s[i] ELSE t[i - Len(s)]
  BY ConcatProperties, Zenon
<1> HIDE DEF u
<1>3. PICK a \in Nat, b \in Nat : a = Len(s) /\ b = Len(t)
  BY <1>1
<1>4. \A i \in 1..a : i \in 1..(a + b) /\ i <= a
  OBVIOUS
<1>5. \A j \in 1..b : a + j \in 1..(a + b) /\ ~(a + j <= a) /\ (a + j) - a = j
  OBVIOUS
<1>6. \A i \in 1..(a + b) : i \in 1..a \/ (i - a \in 1..b /\ i = a + (i - a))
  OBVIOUS
<1>7. \A i \in 1..Len(s) : i \in 1..Len(u) /\ u[i] = s[i]
  BY <1>2, <1>3, <1>4
<1>8. \A j \in 1..Len(t) : Len(s) + j \in 1..Len(u) /\ u[Len(s) + j] = t[j]
  <2> TAKE j \in 1..Len(t)
  <2>1. /\ Len(s) + j \in 1..(Len(s) + Len(t)) /\ ~(Len(s) + j <= Len(s))
        /\ (Len(s) + j) - Len(s) = j
    BY <1>3, <1>5
  <2> QED BY <1>2, <2>1
<1>9. \A i \in 1..Len(u) :
        i \in 1..Len(s) \/ (i - Len(s) \in 1..Len(t) /\ i = Len(s) + (i - Len(s)))
  BY <1>2, <1>3, <1>6
<1> QED BY <1>1, <1>2, <1>7, <1>8, <1>9 DEF u

LEMMA BelowEmit ==
  ASSUME NEW s \in Seq(Event), NEW ids \in Seq(Nat), NEW x,
         EventsBelow(s, x), IdsBelow(ids, x)
  PROVE  EventsBelow(s \o Events(ids), x)
<1> DEFINE f == Events(ids)
           t == s \o f
<1>1. f \in Seq(Event) /\ Len(f) = Len(ids)
      /\ \A i \in 1..Len(ids) : f[i] = Ev("msg", ids[i])
  BY EventsOfIds
<1> HIDE DEF f
<1>2. /\ \A i \in 1..Len(s) : t[i] = s[i]
      /\ \A j \in 1..Len(f) : t[Len(s) + j] = f[j]
      /\ \A i \in 1..Len(t) :
           i \in 1..Len(s) \/ (i - Len(s) \in 1..Len(f) /\ i = Len(s) + (i - Len(s)))
  BY <1>1, ConcatIs, SMTT(30)
<1> HIDE DEF t
<1>3. ASSUME NEW i \in 1..Len(t), t[i].kind \in MsgKinds
      PROVE  t[i].id \in 1..(x - 1)
  <2>1. CASE i \in 1..Len(s)
    BY <1>2, <1>3, <2>1 DEF EventsBelow
  <2>2. ASSUME NEW j \in 1..Len(f), i = Len(s) + j PROVE t[i].id \in 1..(x - 1)
    <3>1. t[i] = Ev("msg", ids[j]) /\ j \in 1..Len(ids)
      BY <1>1, <1>2, <2>2
    <3> QED BY <3>1 DEF Ev, IdsBelow
  <2> QED BY <1>2, <2>1, <2>2
<1>4. EventsBelow(t, x)
  BY <1>3 DEF EventsBelow
<1> QED BY <1>4 DEF t, f

LEMMA KnownNext ==
  ASSUME TypeInv, NEW p \in Peer, Known(p), UserMove(p) PROVE Known(p)'
<1>1. /\ hq[p] \in Seq(Event) /\ log[p] \in Seq(Event) /\ qdMsgs[p] \in Seq(Nat)
      /\ pending[p] \in [Which -> Seq(Nat)] /\ rcvNext[p] \in Nat \ {0}
  BY DEF TypeInv, TypeOK, UserTypes, ExpTypes, RcvTypes
<1> DEFINE x == rcvNext[p]
<1>2. ASSUME rcvNext'[p] = x \/ rcvNext'[p] = x + 1,
             EventsBelow(hq'[p], rcvNext'[p]), log'[p] = log[p],
             pending'[p] = pending[p], qdMsgs'[p] = qdMsgs[p]
      PROVE  Known(p)'
  <2>1. rcvNext'[p] \in Nat /\ x <= rcvNext'[p]
    BY <1>1, <1>2
  <2>2. EventsBelow(log[p], rcvNext'[p]) /\ IdsBelow(qdMsgs[p], rcvNext'[p])
        /\ \A w \in Which : IdsBelow(pending[p][w], rcvNext'[p])
    BY <1>1, <2>1, BelowMore DEF Known
  <2> QED BY <1>2, <2>2 DEF Known
<1>3. \A e \in Event : e.kind \notin MsgKinds =>
        EventsBelow(Append(hq[p], e), x) /\ EventsBelow(Append(log[p], e), x)
  BY <1>1, BelowAppend DEF Known
<1>4. /\ Ev("send_error", 0) \in Event /\ Ev("on_error", 0) \in Event
      /\ Ev("send_error", 0).kind \notin MsgKinds
      /\ Ev("on_error", 0).kind \notin MsgKinds
  BY DEF Ev, Event, MsgKinds
<1>5. EventsBelow(hq[p], x + 1) /\ EventsBelow(Append(hq[p], Ev("on_error", 0)), x + 1)
  <2>1. EventsBelow(Append(hq[p], Ev("on_error", 0)), x)
    BY <1>3, <1>4
  <2>2. x \in Nat /\ x + 1 \in Nat /\ x <= x + 1
    BY <1>1
  <2>3. EventsBelow(hq[p], x)
    BY DEF Known
  <2> HIDE DEF x
  <2> QED BY <2>1, <2>2, <2>3, BelowMore
<1>6. CASE Still(p) \/ Keeps(p)
  BY <1>6 DEF Still, Keeps, Known
<1>7. CASE SendErrs(p)
  BY <1>3, <1>4, <1>7 DEF SendErrs, Known
<1>8. ASSUME NEW w \in Which, NEW ids \in Seq(Nat), Returns(p, w, ids)
      PROVE  Known(p)'
  <2>1. IdsBelow(pending[p][w], x) /\ IdsBelow(qdMsgs[p], x)
        /\ pending[p][w] \in Seq(Nat)
    BY <1>1 DEF Known
  <2>2. \A h : IdsBelow(<<h>>, x) <=> h \in 1..(x - 1)
    BY DEF IdsBelow
  <2>3. IdsBelow(<<>>, x)
    BY DEF IdsBelow
  <2>4. /\ IdsBelow(ids, x) /\ IdsBelow(qdMsgs'[p], x)
        /\ \A v \in Which : IdsBelow(pending'[p][v], x)
    <3>1. CASE /\ pending[p][w] # <<>> /\ ids = <<Head(pending[p][w])>>
               /\ pending'[p] = [pending[p] EXCEPT ![w] = Tail(@)]
               /\ UNCHANGED qdMsgs[p]
      <4>1. IdsBelow(Tail(pending[p][w]), x) /\ Head(pending[p][w]) \in 1..(x - 1)
        BY <2>1, <3>1, BelowTail
      <4>2. \A v \in Which : IdsBelow(pending'[p][v], x)
        BY <1>1, <3>1, <4>1 DEF Known
      <4> QED BY <2>1, <2>2, <3>1, <4>1, <4>2
    <3>2. CASE /\ ids = IF pending[p][w] # <<>> THEN pending[p][w] ELSE qdMsgs[p]
               /\ pending'[p] = [pending[p] EXCEPT ![w] = <<>>]
               /\ qdMsgs'[p] = IF KeepsList THEN ids ELSE <<>>
      <4>1. \A v \in Which : IdsBelow(pending'[p][v], x)
        BY <1>1, <2>3, <3>2 DEF Known
      <4> QED BY <2>1, <2>3, <3>2, <4>1
    <3> QED BY <1>8, <3>1, <3>2 DEF Returns
  <2>5. log'[p] = log[p] \o Events(ids) /\ UNCHANGED <<hq[p], rcvNext[p]>>
    BY <1>8 DEF Returns
  <2>6. EventsBelow(log[p] \o Events(ids), x)
    BY <1>1, <2>4, BelowEmit DEF Known
  <2> QED BY <2>4, <2>5, <2>6 DEF Known
<1>9. CASE Hosed(p)
  BY <1>2, <1>3, <1>4, <1>5, <1>9 DEF Hosed
<1>10. CASE Informed(p)
  <2>1. PICK m \in Msg : hq'[p] = Append(hq[p], Ev("remote_unexpected", m.orig))
    BY <1>10 DEF Informed
  <2>2. /\ Ev("remote_unexpected", m.orig) \in Event
        /\ Ev("remote_unexpected", m.orig).kind \notin MsgKinds
    BY DEF Ev, Event, Msg, MsgKinds
  <2>3. EventsBelow(hq'[p], x)
    BY <1>3, <2>1, <2>2
  <2> QED BY <1>2, <1>10, <2>3 DEF Informed
<1>11. ASSUME NEW m \in Msg, Accepts(p, m) PROVE Known(p)'
  <2>1. /\ rcvNext'[p] = x + 1 /\ m.id = x /\ m.id \in 1..((x + 1) - 1)
        /\ UNCHANGED <<log[p], qdMsgs[p]>>
    BY <1>1, <1>11 DEF Accepts
  <2>2. CASE Waits(p, m)
    <3>1. m.which \in Which /\ m.id \in Nat
      BY DEF Msg
    <3>2. \A w \in Which : IdsBelow(pending[p][w], x + 1)
      <4>1. x \in Nat /\ x + 1 \in Nat /\ x <= x + 1
        BY <1>1
      <4> HIDE DEF x
      <4> QED BY <4>1, BelowMore DEF Known, x
    <3>3. IdsBelow(Append(pending[p][m.which], m.id), x + 1)
      BY <1>1, <2>1, <3>1, <3>2, BelowAppend
    <3>4. \A w \in Which : IdsBelow(pending'[p][w], x + 1)
      BY <1>1, <2>2, <3>2, <3>3 DEF Waits
    <3>5. EventsBelow(log[p], x + 1) /\ IdsBelow(qdMsgs[p], x + 1)
      <4>1. x \in Nat /\ x + 1 \in Nat /\ x <= x + 1
        BY <1>1
      <4> HIDE DEF x
      <4> QED BY <4>1, BelowMore DEF Known, x
    <3> QED BY <1>5, <2>1, <2>2, <3>4, <3>5 DEF Waits, Known
  <2>3. ASSUME NEW kind \in {"rsp", "unexpected", "msg"}, Posts(p, m, kind)
        PROVE  Known(p)'
    <3>1. Ev(kind, m.id) \in Event /\ Ev(kind, m.id).id = m.id
      BY DEF Ev, Event, Msg
    <3>2. EventsBelow(Append(hq[p], Ev(kind, m.id)), x + 1)
      BY <1>1, <1>5, <2>1, <3>1, BelowAppend
    <3> QED BY <1>2, <2>1, <2>3, <3>2 DEF Posts
  <2> QED BY <1>11, <2>2, <2>3 DEF Accepts
<1>12. CASE Fires(p)
  <2> DEFINE e == Head(hq[p])
             f == Fired(p, e)
  <2>1. hq[p] # <<>> /\ e \in Event
    BY <1>1, <1>12 DEF Fires, TypeInv, PostedIsThere
  <2>2. f \in Event /\ f.id = e.id /\ (f.kind \in MsgKinds => e.kind \in MsgKinds)
    BY <2>1 DEF Fired, Ignored, Ev, Event, MsgKinds
  <2>3. EventsBelow(Tail(hq[p]), x) /\ (e.kind \in MsgKinds => e.id \in 1..(x - 1))
    BY <1>1, <2>1, BelowTail DEF Known
  <2> HIDE DEF f
  <2>4. EventsBelow(Append(log[p], f), x)
    BY <1>1, <2>2, <2>3, BelowAppend DEF Known
  <2> QED BY <1>12, <2>3, <2>4 DEF Fires, Known, f
<1> QED
  BY <1>6, <1>7, <1>8, <1>9, <1>10, <1>11, <1>12 DEF UserMove

LEMMA KnownHeld ==
  ASSUME NEW p \in Peer, Known(p) PROVE Held(p) \subseteq 1..(rcvNext[p] - 1)
<1> SUFFICES ASSUME NEW h \in Held(p) PROVE h \in 1..(rcvNext[p] - 1)
  OBVIOUS
<1>1. PICK i \in 1..Len(log[p]) : /\ log[p][i].id = h
                                  /\ log[p][i].kind \in {"msg", "rsp", "unexpected"}
  BY DEF Held, SeqRange
<1> QED BY <1>1 DEF Known, EventsBelow, MsgKinds

-----------------------------------------------------------------------------
(* Notices on the way.                                                     *)
Notices(n) ==
  UNION {{n[k][i] : i \in {j \in 1..Len(n[k]) : n[k][j].id = 0}} : k \in Pipe}

LEMMA NoticesIs ==
  ASSUME NEW n, NEW m
  PROVE  m \in Notices(n) <=>
           \E k \in Pipe : \E i \in 1..Len(n[k]) : m = n[k][i] /\ m.id = 0
BY DEF Notices

LEMMA NoticesNext ==
  ASSUME TypeInv, [Next]_vars, NEW q \in Peer, NEW m \in Notices(net'[q])
  PROVE  m \in Notices(net[q]) \/ Notice(Other(q), m)
<1> USE DEF TypeInv, TypeOK
<1>1. net[q] \in Pipes
  BY DEF Pipes
<1>9. PICK k \in Pipe : \E i \in 1..Len(net'[q][k]) : m = net'[q][k][i] /\ m.id = 0
  BY NoticesIs
<1>2. PICK i \in 1..Len(net'[q][k]) : m = net'[q][k][i] /\ m.id = 0
  BY <1>9
<1>3. ASSUME NEW j \in 1..Len(net[q][k]), m = net[q][k][j]
      PROVE  m \in Notices(net[q])
  BY <1>2, <1>3, NoticesIs
<1>4. ASSUME NEW l \in Pipe, NEW n \in Msg, net'[q] = AddTo(net[q], l, n)
      PROVE  m = n \/ m \in Notices(net[q])
  <2>1. \A t \in 1..Len(AddTo(net[q], l, n)[k]) :
          \/ t \in 1..Len(net[q][k]) /\ AddTo(net[q], l, n)[k][t] = net[q][k][t]
          \/ AddTo(net[q], l, n)[k][t] = n
    BY <1>1, AtAdd
  <2> QED BY <1>2, <1>3, <1>4, <2>1
<1>5. CASE net'[q] = net[q]
  BY <1>2, <1>3, <1>5
<1>6. CASE WireNotice(q)
  BY <1>4, <1>6, InternalPipeIsPipe DEF WireNotice
<1>7. CASE WireSend(q)
  <2>1. PICK l \in Pipe, e \in SentMsg : /\ e.msg.id = sndNext[Other(q)]
                                         /\ net'[q] = AddTo(net[q], l, e.msg)
    BY <1>7 DEF WireSend
  <2>2. e.msg \in Msg /\ e.msg.id # 0
    BY <2>1, OtherPeer DEF SentMsg, SndTypes
  <2> QED BY <1>2, <1>4, <2>1, <2>2
<1>8. ASSUME NEW l \in Pipe, WireTake(q, l) PROVE m \in Notices(net[q])
  <2>1. net[q][l] # <<>> /\ net'[q] = RestOf(net[q], l)
    BY <1>8 DEF WireTake
  <2>2. \A t \in 1..Len(RestOf(net[q], l)[k]) :
          /\ t + Shift(l, k) \in 1..Len(net[q][k])
          /\ RestOf(net[q], l)[k][t] = net[q][k][t + Shift(l, k)]
    BY <1>1, <2>1, AtRest
  <2> QED BY <1>2, <1>3, <2>1, <2>2
<1> QED
  BY <1>5, <1>6, <1>7, <1>8, WireMoveNext DEF WireMove, WireSame, WireFlush

-----------------------------------------------------------------------------
(* Two peers that follow the protocol are not accused of breaking it.      *)

LEMMA HeadIsSent ==
  ASSUME NEW n, NEW r, NEW x, NEW s, FlowOK(n, r, x, s),
         NEW k \in Pipe, n[k] # <<>>, Head(n[k]).id # 0
  PROVE  IsSent(Head(n[k]), x, s) /\ \A y \in r : y.id # Head(n[k]).id
BY TakeOne DEF FlowOK

(* The message at the head of a pipe is the next in order, or early, which *)
(* with one pipe it is never.                                              *)
LEMMA HeadInSequence ==
  ASSUME FlowInv, NEW p \in Peer, NEW k \in Pipe, MsgAt(p, k),
         Head(net[p][k]).id # 0,
         phase[p] = "LOGGED_IN" \/ (~TwoPipes /\ rcvNext[p] = 1)
  PROVE  /\ IsSent(Head(net[p][k]), rcvNext[p], In(p))
         /\ ~TwoPipes => Head(net[p][k]).id = rcvNext[p]
         /\ SequenceError(p, Head(net[p][k])) = "ok"
<1> DEFINE m == Head(net[p][k])
           x == rcvNext[p]
           n == net[p]
           s == In(p)
<1>1. /\ n \in Pipes /\ x \in Nat \ {0} /\ s \in Seq(SentMsg) /\ n[k] # <<>>
      /\ reasm[p] \in SUBSET Msg
      /\ Sound(n, reasm[p], x, s) /\ Ordered(n) /\ Apart(n)
  BY DEF FlowInv, FlowOn, FlowOK, MsgAt
<1>2. IsSent(m, x, s) /\ \A y \in reasm[p] : y.id # m.id
  <2>1. Head(n[k]).id # 0
    OBVIOUS
  <2>2. FlowOK(n, reasm[p], x, s)
    BY DEF FlowInv, FlowOn
  <2> QED BY <1>1, <2>1, <2>2, HeadIsSent
<1>3. m.id \in x..Len(s) /\ Len(s) \in Nat
  BY <1>1, <1>2 DEF IsSent
<1>4. ASSUME ~TwoPipes PROVE m.id = x
  <2>1. reasm[p] = {} /\ Whole(n, reasm[p], x, s)
    BY <1>4 DEF FlowInv, ThreadInv, OneAtATime, FlowOn, MsgAt
  <2>2. x \in x..Len(s)
    BY <1>1, <1>3
  <2>3. PICK j \in 1..Len(n[k]) : n[k][j].id = x
    <3>1. PICK l \in Pipe : \E j \in 1..Len(n[l]) : n[l][j].id = x
      BY <2>1, <2>2 DEF Whole, OnAPipe
    <3>2. l = k
      BY <1>4, ConstantsAssumption DEF TwoPipes
    <3> QED BY <3>1, <3>2
  <2>5. m = n[k][1] /\ 1 \in 1..Len(n[k])
    BY <1>1, AtRest
  <2>6. CASE j = 1
    BY <2>3, <2>5, <2>6
  <2>7. CASE j # 1
    <3>1. 1 < j
      BY <2>7
    <3>2. x # 0 /\ m.id # 0
      BY <1>1
    <3>3. n[k][1].id < n[k][j].id
      <4> HIDE DEF n, m, x
      <4> QED BY <1>1, <2>3, <2>5, <3>1, <3>2 DEF Ordered
    <3>4. m.id < x
      <4> HIDE DEF n, m, x
      <4> QED BY <2>3, <2>5, <3>3
    <3> QED BY <1>1, <1>3, <3>4
  <2> QED BY <2>6, <2>7
<1>5. SequenceError(p, m) = "ok"
  <2>1. ~(m.id < x)
    BY <1>1, <1>3
  <2>2. ~(m.id > x /\ (~TwoPipes \/ phase[p] # "LOGGED_IN"))
    BY <1>1, <1>3, <1>4
  <2>3. ~(x > 1 /\ phase[p] # "LOGGED_IN")
    BY <1>1
  <2> QED BY <1>2, <2>1, <2>2, <2>3 DEF SequenceError
<1> QED BY <1>2, <1>4, <1>5

LEMMA HeadFacts ==
  ASSUME TypeInv, NEW p \in Peer, NEW k \in Pipe, MsgAt(p, k)
  PROVE  /\ Head(net[p][k]) \in Msg /\ 1 \in 1..Len(net[p][k])
         /\ Head(net[p][k]) = net[p][k][1] /\ err[p] = "ok"
BY HeadIsMsg, EmptySeq DEF MsgAt, TypeInv, TypeOK

(* Such an accusation is made of a message just read.                      *)
LEMMA Blames ==
  ASSUME TypeInv, [Next]_vars, NEW p \in Peer,
         err'[p] \in ProtocolErrors, err[p] \notin ProtocolErrors
  PROVE  \E k \in Pipe : /\ MsgAt(p, k)
                         /\ InMsgError(p, Head(net[p][k])) \in ProtocolErrors
<1> USE DEF TypeInv, TypeOK
<1>1. PICK q \in Peer : StepOf(q)
  BY StepOfAPeer DEF vars
<1>2. q = p
  BY <1>1, OtherUntouched DEF Untouched, OwnLoop
<1>3. ASSUME ApiStep(p) PROVE err'[p] \in {err[p], "SEND", "GOT_UNEXPECTED_LOG_IN_REQUEST"}
  BY <1>3, ZenonT(40)
  DEF ApiStep, StartAndPoll, SendStep, Send, SendFails, SendAfterEnd,
      RequestRefused, EndSending, ExpectMsg, ExpectMsgs, UndoExpectMsgs,
      ExpectLogInRequest, UndoExpectResponses, SetHandler, UnsetHandler, NewError
<1>4. PICK k \in Pipe : ReadStep(p, k) \/ Break(p, k)
  BY <1>1, <1>2, <1>3 DEF StepOf, ThreadStep, Fire, Flush, ProtocolErrors
<1>5. ReceiveBad(p, k)
  <2>1. ReadFails(p, k) => err'[p] \in {"RECEIVES_FINISHED", "TRANSPORT"}
    BY DEF ReadFails, ReadError, NewError
  <2> QED
    BY <1>4, <2>1
    DEF ReadStep, ReceiveInternal, ReceiveEarly, ReceiveNext, ReadIgnored, Break,
        ProtocolErrors
<1> QED BY <1>5 DEF ReceiveBad, NewError

BlameBase == FlowInv /\ Authentic /\ \A p \in Peer : Known(p)

LEMMA BlameBaseInit == Init => BlameBase
<1> SUFFICES ASSUME Init PROVE BlameBase
  OBVIOUS
<1>1. \A p \in Peer : Known(p)
  BY DEF Init, Known, EventsBelow, IdsBelow
<1> QED BY <1>1, FlowInvInit, AuthenticInit DEF BlameBase

LEMMA BlameBaseNext == BlameBase /\ [Next]_vars => BlameBase'
<1> SUFFICES ASSUME BlameBase, [Next]_vars PROVE BlameBase'
  OBVIOUS
<1>1. TypeInv /\ FlushIsGood /\ FlowInv /\ Authentic
  BY DEF BlameBase, FlowInv, ThreadInv
<1>2. \A p \in Peer : Known(p)'
  BY <1>1, UserMoveNext, KnownNext DEF BlameBase
<1> QED BY <1>1, <1>2, FlowInvNext, AuthenticNext DEF BlameBase

(* A channel that is not the master: every message is in order and carries *)
(* its sender's token.                                                     *)
LEMMA NoBlameInSession ==
  ASSUME ~LogIn, BlameBase, NoFalseBlame, [Next]_vars PROVE NoFalseBlame'
<1> USE DEF BlameBase
<1>1. TypeInv /\ OneSession
  BY DEF Authentic, FlowInv, ThreadInv
<1>2. UNCHANGED authVars
  BY <1>1, AuthStep DEF OneSession
<1>3. ASSUME NEW p \in Peer, err'[p] \in ProtocolErrors
      PROVE  Nil \notin {token[p], token[Other(p)]} /\ token[p] # token[Other(p)]
  <2>1. CASE err[p] \in ProtocolErrors
    BY <2>1 DEF NoFalseBlame
  <2>2. CASE err[p] \notin ProtocolErrors
    <3>1. PICK k \in Pipe : /\ MsgAt(p, k)
                            /\ InMsgError(p, Head(net[p][k])) \in ProtocolErrors
      BY <1>1, <1>3, <2>2, Blames
    <3> DEFINE m == Head(net[p][k])
    <3>2. phase[p] = "LOGGED_IN" /\ m.tok = token[Other(p)]
      BY <1>1, <3>1, HeadFacts DEF OneSession
    <3>3. m.id # 0 => SequenceError(p, m) = "ok"
      BY <3>1, <3>2, HeadInSequence
    <3>4. LogInError(p, m) = "ok"
      BY <3>2 DEF LogInError
    <3>5. TokenError(p, m) = IF m.tok = token[p] THEN "ok" ELSE "BAD_AUTH"
      BY <3>2 DEF TokenError
    <3> HIDE DEF m
    <3>6. TokenError(p, m) # "ok"
      BY <3>1, <3>3, <3>4 DEF InMsgError, ProtocolErrors, m
    <3>7. {token[p], token[Other(p)]} \subseteq Token
      BY <1>1, OtherPeer DEF OneSession
    <3> QED BY <3>2, <3>5, <3>6, <3>7, ConstantsAssumption
  <2> QED BY <2>1, <2>2
<1> QED BY <1>2, <1>3 DEF NoFalseBlame, authVars

-----------------------------------------------------------------------------
(* The master channel, with one pipe: what the log-in is made of.          *)

(* The client sends its request without a token, and the rest with the     *)
(* server's.                                                               *)
RequestTokens ==
  /\ \A i \in 1..Len(sent["cli"]) :
       LET m == sent["cli"][i].msg
       IN  \/ i = 1 /\ m.tok = Nil /\ m.orig = 0
           \/ m.tok = token["srv"] /\ phase["cli"] = "LOGGED_IN"
  /\ \A m \in Notices(net["srv"]) :
       m.tok = token["srv"] /\ phase["cli"] = "LOGGED_IN"

(* Until it is answered the client sends that one request and expects the  *)
(* response to it.                                                         *)
ClientStart ==
  phase["cli"] = "CLI_LOG_IN" =>
    /\ sndNext["cli"] \in {1, 2}
    /\ rspOnce["cli"] \cup rspOpen["cli"] = IF sndNext["cli"] = 1 THEN {} ELSE {1}
    /\ err["cli"] = "ok" => rcvNext["cli"] = 1

(* The server's first message is its answer.                               *)
ServerStart ==
  /\ phase["srv"] = "SRV_LOG_IN" <=> sent["srv"] = <<>>
  /\ sent["srv"] # <<>> => /\ rcvNext["srv"] > 1
                           /\ sent["srv"][1].msg.orig \in 1..Len(sent["cli"])

Blameless == \A p \in Peer : err[p] \notin ProtocolErrors

LogInInv == /\ BlameBase /\ Blameless
            /\ RequestTokens /\ ClientStart /\ ServerStart

LEMMA Accepted ==
  ASSUME TypeInv, FlushIsGood, [Next]_vars, NEW p \in Peer
  PROVE  rcvNext'[p] \in {rcvNext[p], rcvNext[p] + 1}
<1>1. UserMove(p)
  BY UserMoveNext
<1> QED
  BY <1>1
  DEF UserMove, Still, SendErrs, Returns, Hosed, Informed, Keeps, Accepts, Fires

LEMMA PeersAre ==
  /\ Other("cli") = "srv" /\ Other("srv") = "cli"
  /\ "cli" \in Peer /\ "srv" \in Peer
BY OtherPeer DEF Peer

LEMMA Steady ==
  ASSUME LogIn, TypeInv, Authentic, [Next]_vars
  PROVE  /\ token'["srv"] = token["srv"] /\ token["srv"] \in Token
         /\ phase["cli"] \in {"CLI_LOG_IN", "LOGGED_IN"}
         /\ phase["srv"] \in {"SRV_LOG_IN", "LOGGED_IN"}
         /\ phase["cli"] = "CLI_LOG_IN" => token["cli"] = Nil
         /\ phase["cli"] = "LOGGED_IN" =>
              /\ token["cli"] = token["srv"] /\ phase["srv"] = "LOGGED_IN"
              /\ phase'["cli"] = "LOGGED_IN"
         /\ phase["srv"] = "LOGGED_IN" => phase'["srv"] = "LOGGED_IN"
<1>1. LoggingIn /\ phase \in [Peer -> Phase] /\ token \in [Peer -> Token \cup {Nil}]
  BY DEF Authentic, TypeInv, TypeOK, AuthTypes
<1>2. /\ token'["srv"] = token["srv"]
      /\ phase["cli"] = "LOGGED_IN" => phase'["cli"] = "LOGGED_IN"
      /\ phase["srv"] = "LOGGED_IN" => phase'["srv"] = "LOGGED_IN"
  BY <1>1, AuthStep, PeersAre DEF LoggingIn, authVars, Peer
<1> QED BY <1>1, <1>2 DEF LoggingIn

LEMMA RequestTokensNext ==
  ASSUME LogIn, ~TwoPipes, LogInInv, [Next]_vars PROVE RequestTokens'
<1> USE DEF LogInInv, BlameBase, FlowInv, ThreadInv
<1>1. /\ token'["srv"] = token["srv"]
      /\ phase["cli"] \in {"CLI_LOG_IN", "LOGGED_IN"}
      /\ phase["cli"] = "CLI_LOG_IN" => token["cli"] = Nil
      /\ phase["cli"] = "LOGGED_IN" =>
           token["cli"] = token["srv"] /\ phase'["cli"] = "LOGGED_IN"
  BY Steady
<1>2. ASSUME NEW m \in Notices(net'["srv"])
      PROVE  m.tok = token'["srv"] /\ phase'["cli"] = "LOGGED_IN"
  <2>1. m \in Notices(net["srv"]) \/ Notice("cli", m)
    BY NoticesNext, PeersAre
  <2>2. reasm["cli"] = {}
    BY PeersAre DEF OneAtATime
  <2> QED BY <1>1, <2>1, <2>2 DEF RequestTokens, Notice
<1>3. ASSUME NEW i \in 1..Len(sent'["cli"])
      PROVE  \/ /\ i = 1 /\ sent'["cli"][i].msg.tok = Nil
                /\ sent'["cli"][i].msg.orig = 0
             \/ /\ sent'["cli"][i].msg.tok = token'["srv"]
                /\ phase'["cli"] = "LOGGED_IN"
  <2>1. CASE sent'["cli"] = sent["cli"]
    BY <1>1, <2>1 DEF RequestTokens
  <2>2. ASSUME NEW e \in SentMsg, err["cli"] = "ok", ~ended["cli"],
               Follows("cli", e.msg, e.rsp),
               sent'["cli"] = Append(sent["cli"], e)
        PROVE  \/ /\ i = 1 /\ sent'["cli"][i].msg.tok = Nil
                  /\ sent'["cli"][i].msg.orig = 0
               \/ /\ sent'["cli"][i].msg.tok = token'["srv"]
                  /\ phase'["cli"] = "LOGGED_IN"
    <3>1. sent["cli"] \in Seq(SentMsg) /\ Numbered("cli")
      BY PeersAre DEF TypeInv, TypeOK, SndTypes
    <3>2. /\ Len(sent'["cli"]) = Len(sent["cli"]) + 1 /\ Len(sent["cli"]) \in Nat
          /\ \A j \in 1..Len(sent["cli"]) : sent'["cli"][j] = sent["cli"][j]
          /\ sent'["cli"][Len(sent["cli"]) + 1] = e
      BY <2>2, <3>1, AppendProperties
    <3>3. i \in 1..Len(sent["cli"]) \/ i = Len(sent["cli"]) + 1
      BY <3>2
    <3>4. CASE i \in 1..Len(sent["cli"])
      BY <1>1, <3>2, <3>4 DEF RequestTokens
    <3>5. CASE i = Len(sent["cli"]) + 1 /\ phase["cli"] = "LOGGED_IN"
      BY <1>1, <2>2, <3>2, <3>5 DEF Follows
    <3>6. CASE i = Len(sent["cli"]) + 1 /\ phase["cli"] = "CLI_LOG_IN"
      <4>1. sndNext["cli"] = 1 /\ e.msg.orig = 0
        BY <2>2, <3>6 DEF Follows, PhaseAllows
      <4>2. sndNext["cli"] = i
        BY <2>2, <3>1, <3>6 DEF Numbered
      <4> QED BY <1>1, <2>2, <3>2, <3>6, <4>1, <4>2 DEF Follows
    <3> QED BY <1>1, <3>3, <3>4, <3>5, <3>6
  <2>3. SndMove("cli")
    BY SndMoveNext, PeersAre
  <2> QED BY <2>1, <2>2, <2>3 DEF SndMove
<1> QED BY <1>2, <1>3 DEF RequestTokens

(* What changes of a client that is still to be logged in.                 *)
LEMMA ClientWaits ==
  ASSUME TypeInv, NEW p \in Peer, StepOf(p), phase[p] = "CLI_LOG_IN",
         phase'[p] = "CLI_LOG_IN", reasm[p] = {}
  PROVE  /\ \/ UNCHANGED <<sndNext[p], rspOnce[p], rspOpen[p]>>
            \/ /\ sndNext'[p] = sndNext[p] + 1
               /\ \E orig : \E rsp \in DOMAIN RspApi :
                    PhaseAllows(p, orig, rsp) /\ RegisterResponse(p, rsp)
         /\ err'[p] = "ok" => rcvNext'[p] = rcvNext[p]
<1> USE DEF TypeInv, TypeOK, sndVars, rcvVars, rspVars
<1>1. CASE SendStep(p)
  <2>1. PICK orig \in Held(p) \cup {0}, rsp \in DOMAIN RspApi :
          \/ \E k \in Pipe, w \in Which : Send(p, k, w, orig, rsp)
          \/ \E k \in Pipe : SendFails(p, k, orig, rsp)
          \/ SendAfterEnd(p, orig, rsp)
    BY <1>1 DEF SendStep
  <2>2. /\ sndNext'[p] = sndNext[p] + 1 /\ UNCHANGED rcvNext
        /\ PhaseAllows(p, orig, rsp) /\ RegisterResponse(p, rsp)
    BY <2>1 DEF Send, SendFails, SendAfterEnd, SndTypes
  <2> QED BY <2>2
<1>2. CASE ApiStep(p) /\ ~SendStep(p)
  <2>1. UNCHANGED <<sndNext, rspOnce, rspOpen, rcvNext>>
    BY <1>2
    DEF ApiStep, StartAndPoll, RequestRefused, EndSending, ExpectMsg, ExpectMsgs,
        UndoExpectMsgs, ExpectLogInRequest, UndoExpectResponses, SetHandler,
        UnsetHandler, LoggedInCall
  <2> QED BY <2>1
<1>3. CASE ThreadStep(p)
  BY <1>3 DEF ThreadStep, Fire
<1>4. ASSUME NEW k \in Pipe, ReadStep(p, k) \/ Break(p, k)
      PROVE  /\ UNCHANGED <<sndNext, rspOnce, rspOpen>>
             /\ err'[p] = "ok" => rcvNext'[p] = rcvNext[p]
  <2>1. CASE ReceiveBad(p, k)
    BY <2>1 DEF ReceiveBad, NewError
  <2>2. ~ReceiveNext(p, k)
    BY DEF ReceiveNext, AuthTypes
  <2> QED
    BY <1>4, <2>1, <2>2
    DEF ReadStep, ReceiveInternal, ReceiveEarly, ReadFails, ReadIgnored, Break
<1> QED BY <1>1, <1>2, <1>3, <1>4 DEF StepOf

LEMMA ClientStartNext ==
  ASSUME LogIn, ~TwoPipes, LogInInv, [Next]_vars PROVE ClientStart'
<1> USE DEF LogInInv, BlameBase, FlowInv, ThreadInv
<1> SUFFICES ASSUME phase'["cli"] = "CLI_LOG_IN"
             PROVE  /\ sndNext'["cli"] \in {1, 2}
                    /\ rspOnce'["cli"] \cup rspOpen'["cli"]
                         = IF sndNext'["cli"] = 1 THEN {} ELSE {1}
                    /\ err'["cli"] = "ok" => rcvNext'["cli"] = 1
  BY DEF ClientStart
<1>1. phase["cli"] = "CLI_LOG_IN" /\ reasm["cli"] = {}
  BY Steady, PeersAre DEF OneAtATime
<1>2. /\ sndNext["cli"] \in {1, 2}
      /\ rspOnce["cli"] \cup rspOpen["cli"] = IF sndNext["cli"] = 1 THEN {} ELSE {1}
      /\ err["cli"] = "ok" => rcvNext["cli"] = 1
  BY <1>1 DEF ClientStart
<1>3. err'["cli"] = "ok" => err["cli"] = "ok"
  BY UserMoveNext, HosedStays, PeersAre
<1>4. CASE Untouched("cli")
  BY <1>2, <1>4 DEF Untouched, OwnSnd, OwnRcv, OwnLoop
<1>5. CASE StepOf("cli")
  <2>1. /\ \/ UNCHANGED <<sndNext["cli"], rspOnce["cli"], rspOpen["cli"]>>
           \/ /\ sndNext'["cli"] = sndNext["cli"] + 1
              /\ \E orig : \E rsp \in DOMAIN RspApi :
                   PhaseAllows("cli", orig, rsp) /\ RegisterResponse("cli", rsp)
        /\ err'["cli"] = "ok" => rcvNext'["cli"] = rcvNext["cli"]
    BY <1>1, <1>5, ClientWaits, PeersAre
  <2>2. ASSUME NEW orig, NEW rsp \in DOMAIN RspApi,
               sndNext'["cli"] = sndNext["cli"] + 1,
               PhaseAllows("cli", orig, rsp), RegisterResponse("cli", rsp)
        PROVE  sndNext'["cli"] = 2 /\ rspOnce'["cli"] \cup rspOpen'["cli"] = {1}
    <3>1. sndNext["cli"] = 1 /\ rsp \in {"once", "open"}
      BY <1>1, <2>2 DEF PhaseAllows, RspApi
    <3>2. rspOnce["cli"] = {} /\ rspOpen["cli"] = {}
      BY <1>2, <3>1
    <3>3. /\ rspOnce'["cli"] = IF rsp = "once" THEN {1} ELSE {}
          /\ rspOpen'["cli"] = IF rsp = "open" THEN {1} ELSE {}
      BY <2>2, <3>1, <3>2, PeersAre DEF RegisterResponse, TypeInv, TypeOK, RspTypes
    <3> QED BY <2>2, <3>1, <3>3
  <2> QED BY <1>2, <1>3, <2>1, <2>2
<1>6. Untouched("cli") \/ StepOf("cli")
  <2>1. CASE UNCHANGED vars
    BY <2>1, UnchangedIsUntouched, PeersAre
  <2>2. ASSUME NEW p \in Peer, StepOf(p) PROVE Untouched("cli") \/ StepOf("cli")
    BY <2>2, OtherUntouched, PeersAre
  <2> QED BY <2>1, <2>2, StepOfAPeer
<1> QED BY <1>4, <1>5, <1>6

(* A server is logged in by the first message it sends.                    *)
LEMMA ServerLogsIn ==
  ASSUME TypeInv, [Next]_vars, NEW p \in Peer, phase[p] = "SRV_LOG_IN"
  PROVE  \/ phase'[p] = "SRV_LOG_IN" /\ sent'[p] = sent[p]
         \/ \E e \in SentMsg : /\ Follows(p, e.msg, e.rsp)
                               /\ sent'[p] = Append(sent[p], e)
                               /\ phase'[p] = "LOGGED_IN"
<1> USE DEF TypeInv, TypeOK, AuthTypes
<1>1. SndMove(p)
  BY SndMoveNext
<1>2. CASE sent'[p] # sent[p]
  BY <1>1, <1>2 DEF SndMove
<1>3. CASE sent'[p] = sent[p]
  <2>1. CASE UNCHANGED vars
    BY <1>3, <2>1 DEF vars
  <2>2. ASSUME NEW q \in Peer, StepOf(q), q # p PROVE phase'[p] = "SRV_LOG_IN"
    BY <2>2, OtherUntouched DEF Untouched, OwnAuth
  <2>3. ASSUME StepOf(p) PROVE phase'[p] = "SRV_LOG_IN"
    <3>1. ASSUME NEW k \in Pipe, NEW w \in Which, NEW orig, NEW rsp,
                 Send(p, k, w, orig, rsp)
          PROVE  FALSE
      <4> DEFINE e == [msg |-> [id |-> sndNext[p], orig |-> orig, which |-> w,
                                tok |-> token[p]], rsp |-> rsp]
      <4>1. sent'[p] = Append(sent[p], e)
        BY <3>1 DEF Send, SndTypes
      <4> HIDE DEF e
      <4>2. Len(sent'[p]) = Len(sent[p]) + 1 /\ Len(sent[p]) \in Nat
        BY <4>1 DEF SndTypes
      <4> QED BY <1>3, <4>2
    <3>2. CASE ApiStep(p)
      BY <3>1, <3>2
      DEF ApiStep, StartAndPoll, SendStep, SendFails, SendAfterEnd,
          RequestRefused, EndSending, ExpectMsg, ExpectMsgs, UndoExpectMsgs,
          ExpectLogInRequest, UndoExpectResponses, SetHandler, UnsetHandler,
          authVars
    <3>3. ASSUME NEW k \in Pipe, ReadStep(p, k) \/ Break(p, k)
          PROVE  phase'[p] = "SRV_LOG_IN"
      BY <3>3
      DEF ReadStep, ReceiveBad, ReceiveInternal, ReceiveEarly, ReceiveNext,
          ReadFails, ReadIgnored, Break, authVars
    <3>4. CASE ThreadStep(p)
      BY <3>4 DEF ThreadStep, Fire, Flush, authVars
    <3> QED BY <2>3, <3>2, <3>3, <3>4 DEF StepOf
  <2> QED BY <1>3, <2>1, <2>2, <2>3, StepOfAPeer
<1> QED BY <1>2, <1>3

(* What is sent stays sent.                                                *)
LEMMA SentStays ==
  ASSUME TypeInv, [Next]_vars, NEW p \in Peer
  PROVE  /\ Len(sent[p]) \in Nat /\ Len(sent'[p]) \in Nat
         /\ Len(sent[p]) <= Len(sent'[p])
         /\ \A i \in 1..Len(sent[p]) :
              i \in 1..Len(sent'[p]) /\ sent'[p][i] = sent[p][i]
<1>1. sent[p] \in Seq(SentMsg) /\ SndMove(p)
  BY SndMoveNext DEF TypeInv, TypeOK, SndTypes
<1>2. CASE sent'[p] = sent[p]
  BY <1>1, <1>2
<1>3. ASSUME NEW e \in SentMsg, sent'[p] = Append(sent[p], e)
      PROVE  /\ Len(sent[p]) \in Nat /\ Len(sent'[p]) = Len(sent[p]) + 1
             /\ \A i \in 1..Len(sent[p]) : sent'[p][i] = sent[p][i]
  BY <1>1, <1>3, AppendProperties
<1>4. ASSUME NEW e \in SentMsg, sent'[p] = Append(sent[p], e)
      PROVE  /\ Len(sent[p]) <= Len(sent'[p]) /\ Len(sent'[p]) \in Nat
             /\ \A i \in 1..Len(sent[p]) : i \in 1..Len(sent'[p])
  BY <1>3, <1>4
<1> QED BY <1>1, <1>2, <1>3, <1>4 DEF SndMove

LEMMA ServerStartNext ==
  ASSUME LogIn, ~TwoPipes, LogInInv, [Next]_vars PROVE ServerStart'
<1> USE DEF LogInInv, BlameBase, FlowInv, ThreadInv
<1>1. /\ phase["srv"] \in {"SRV_LOG_IN", "LOGGED_IN"}
      /\ phase["srv"] = "LOGGED_IN" => phase'["srv"] = "LOGGED_IN"
  BY Steady
<1>2. sent["srv"] \in Seq(SentMsg) /\ rcvNext["srv"] \in Nat
  BY PeersAre DEF TypeInv, TypeOK, SndTypes, RcvTypes
<1>3. CASE phase["srv"] = "LOGGED_IN"
  <2>1. sent["srv"] # <<>> /\ rcvNext["srv"] > 1
        /\ sent["srv"][1].msg.orig \in 1..Len(sent["cli"])
    BY <1>3 DEF ServerStart
  <2>2. 1 \in 1..Len(sent["srv"])
    BY <1>2, <2>1, EmptySeq
  <2>3. 1 \in 1..Len(sent'["srv"]) /\ sent'["srv"][1] = sent["srv"][1]
    BY <2>2, SentStays, PeersAre
  <2>4. sent'["srv"] # <<>>
    BY <2>3
  <2>5. 1..Len(sent["cli"]) \subseteq 1..Len(sent'["cli"])
    BY SentStays, PeersAre
  <2>6. rcvNext'["srv"] > 1
    BY <1>2, <2>1, Accepted, PeersAre
  <2> QED BY <1>1, <1>3, <2>1, <2>3, <2>4, <2>5, <2>6 DEF ServerStart
<1>4. CASE phase["srv"] = "SRV_LOG_IN"
  <2>1. sent["srv"] = <<>>
    BY <1>4 DEF ServerStart
  <2>2. CASE phase'["srv"] = "SRV_LOG_IN" /\ sent'["srv"] = sent["srv"]
    BY <2>1, <2>2 DEF ServerStart
  <2>3. ASSUME NEW e \in SentMsg, Follows("srv", e.msg, e.rsp),
               sent'["srv"] = Append(sent["srv"], e), phase'["srv"] = "LOGGED_IN"
        PROVE  ServerStart'
    <3>1. e.msg.orig \in Held("srv") /\ e.msg.orig # 0
      BY <1>4, <2>3 DEF Follows, PhaseAllows
    <3>2. e.msg.orig \in 1..(rcvNext["srv"] - 1)
      BY <3>1, KnownHeld, PeersAre
    <3>3. rcvNext["srv"] <= Len(sent["cli"]) + 1 /\ Len(sent["cli"]) \in Nat
      BY PeersAre, SentStays DEF FlowOn, FlowOK, In
    <3>4. rcvNext["srv"] > 1 /\ e.msg.orig \in 1..Len(sent["cli"])
      BY <1>2, <3>2, <3>3
    <3>5. 1..Len(sent["cli"]) \subseteq 1..Len(sent'["cli"])
      BY SentStays, PeersAre
    <3>6. rcvNext'["srv"] > 1
      BY <1>2, <3>4, Accepted, PeersAre
    <3>7. sent'["srv"] # <<>> /\ sent'["srv"][1] = e
      BY <2>1, <2>3
    <3> QED BY <2>3, <3>4, <3>5, <3>6, <3>7 DEF ServerStart
  <2> QED BY <1>4, <2>2, <2>3, ServerLogsIn, PeersAre
<1> QED BY <1>1, <1>3, <1>4

LEMMA NotBlamed ==
  ASSUME NEW p \in Peer, NEW m, TokenError(p, m) = "ok",
         m.id # 0 => SequenceError(p, m) = "ok"
                       /\ LogInError(p, m) \notin ProtocolErrors
  PROVE  InMsgError(p, m) \notin ProtocolErrors
BY DEF InMsgError, ProtocolErrors

(* A message the server reads before it has answered is the request.       *)
LEMMA ServerReads ==
  ASSUME LogIn, ~TwoPipes, LogInInv, NEW k \in Pipe, MsgAt("srv", k),
         Authentic
  PROVE  InMsgError("srv", Head(net["srv"][k])) \notin ProtocolErrors
<1> USE DEF LogInInv, BlameBase, FlowInv, ThreadInv
<1> DEFINE m == Head(net["srv"][k])
           x == rcvNext["srv"]
<1>1. LoggingIn /\ x \in Nat \ {0}
  BY PeersAre DEF Authentic, TypeInv, TypeOK, RcvTypes
<1>2. m \in Msg /\ 1 \in 1..Len(net["srv"][k]) /\ m = net["srv"][k][1]
  BY HeadFacts, PeersAre
<1>3. ASSUME m.id = 0
      PROVE  m.tok = token["srv"] /\ phase["srv"] = "LOGGED_IN"
  <2>1. m \in Notices(net["srv"])
    BY <1>2, <1>3, NoticesIs
  <2> QED BY <1>1, <2>1 DEF RequestTokens, LoggingIn
<1>4. ASSUME m.id # 0
      PROVE  /\ m.id \in x..Len(sent["cli"]) /\ m = sent["cli"][m.id].msg
             /\ Len(sent["cli"]) \in Nat
  BY <1>4, HeadIsSent, PeersAre, <1>1 DEF FlowOn, FlowOK, IsSent, In, MsgAt
<1>5. CASE phase["srv"] = "LOGGED_IN"
  <2>1. m.tok = token["srv"]
    <3>1. CASE m.id = 0
      BY <1>3, <3>1
    <3>2. CASE m.id # 0
      <4>1. x > 1
        BY <1>5 DEF ServerStart
      <4>2. m.id # 1 /\ m.id \in 1..Len(sent["cli"])
        BY <1>1, <1>4, <3>2, <4>1
      <4> QED BY <1>4, <3>2, <4>2 DEF RequestTokens
    <3> QED BY <3>1, <3>2
  <2>2. m.id # 0 => SequenceError("srv", m) = "ok"
    BY <1>5, HeadInSequence, PeersAre
  <2>3. TokenError("srv", m) = "ok" /\ LogInError("srv", m) = "ok"
    <3> HIDE DEF m
    <3> QED BY <1>5, <2>1 DEF TokenError, LogInError
  <2> QED BY <2>2, <2>3, NotBlamed, PeersAre DEF ProtocolErrors
<1>6. CASE phase["srv"] = "SRV_LOG_IN"
  <2>1. m.id # 0 /\ phase["cli"] = "CLI_LOG_IN"
    BY <1>1, <1>3, <1>6 DEF LoggingIn
  <2>2. Len(sent["cli"]) <= 1
    BY <1>4, <2>1, PeersAre DEF ClientStart, Numbered
  <2>3. x = 1 /\ m.id = 1 /\ m.id \in 1..Len(sent["cli"])
    BY <1>1, <1>4, <2>1, <2>2
  <2>4. m.tok = Nil /\ m.orig = 0
    BY <1>4, <2>1, <2>3 DEF RequestTokens
  <2>5. SequenceError("srv", m) = "ok"
    BY <2>1, <2>3, HeadInSequence, PeersAre
  <2>6. \A w \in Which : pending["srv"][w] = <<>>
    <3> SUFFICES ASSUME NEW w \in Which PROVE pending["srv"][w] = <<>>
      OBVIOUS
    <3>1. pending["srv"][w] \in Seq(Nat) /\ IdsBelow(pending["srv"][w], x)
      BY PeersAre DEF Known, TypeInv, TypeOK, ExpTypes
    <3>2. \A i \in 1..Len(pending["srv"][w]) : FALSE
      BY <2>3, <3>1 DEF IdsBelow
    <3>3. Len(pending["srv"][w]) = 0
      BY <3>1, <3>2
    <3> QED BY <3>1, <3>3, EmptySeq
  <2>7. LogInError("srv", m) \notin ProtocolErrors
    BY <1>6, <2>4, <2>6 DEF LogInError, ProtocolErrors
  <2>8. TokenError("srv", m) = "ok"
    <3> HIDE DEF m
    <3> QED BY <1>6, <2>4 DEF TokenError
  <2> QED BY <2>5, <2>7, <2>8, NotBlamed, PeersAre
<1> QED BY <1>1, <1>5, <1>6 DEF LoggingIn

(* A user message the client reads before it is logged in is the response. *)
LEMMA ClientReads ==
  ASSUME LogIn, ~TwoPipes, LogInInv, NEW k \in Pipe, MsgAt("cli", k)
  PROVE  InMsgError("cli", Head(net["cli"][k])) \notin ProtocolErrors
<1> USE DEF LogInInv, BlameBase, FlowInv, ThreadInv
<1> DEFINE m == Head(net["cli"][k])
           x == rcvNext["cli"]
<1>1. LoggingIn /\ x \in Nat \ {0}
  BY PeersAre DEF Authentic, TypeInv, TypeOK, RcvTypes
<1>2. /\ m \in Msg /\ 1 \in 1..Len(net["cli"][k]) /\ m = net["cli"][k][1]
      /\ err["cli"] = "ok"
  BY HeadFacts, PeersAre
<1>3. m.tok = token["srv"] /\ m.tok # Nil
      /\ (m.id # 0 => phase["srv"] = "LOGGED_IN")
  BY <1>1, <1>2, ConstantsAssumption DEF LoggingIn
<1>4. CASE phase["cli"] = "LOGGED_IN"
  <2>1. m.tok = token["cli"]
    BY <1>1, <1>3, <1>4 DEF LoggingIn
  <2>2. m.id # 0 => SequenceError("cli", m) = "ok"
    BY <1>4, HeadInSequence, PeersAre
  <2>3. TokenError("cli", m) = "ok" /\ LogInError("cli", m) = "ok"
    <3> HIDE DEF m
    <3> QED BY <1>4, <2>1 DEF TokenError, LogInError
  <2> QED BY <2>2, <2>3, NotBlamed, PeersAre DEF ProtocolErrors
<1>5. CASE phase["cli"] = "CLI_LOG_IN"
  <2>1. x = 1
    BY <1>2, <1>5 DEF ClientStart
  <2>4. TokenError("cli", m) = "ok"
    <3> HIDE DEF m
    <3> QED BY <1>3, <1>5 DEF TokenError
  <2>2. CASE m.id = 0
    BY <2>2, <2>4, NotBlamed, PeersAre
  <2>3. CASE m.id # 0
    <3>1. /\ SequenceError("cli", m) = "ok" /\ m.id = 1
          /\ IsSent(m, x, sent["srv"])
      BY <2>1, <2>3, HeadInSequence, PeersAre DEF In
    <3>2. m = sent["srv"][1].msg /\ sent["srv"] # <<>>
      BY <3>1 DEF IsSent
    <3>3. m.orig \in 1..Len(sent["cli"])
      BY <3>2 DEF ServerStart
    <3>4. /\ sndNext["cli"] \in {1, 2} /\ Len(sent["cli"]) < sndNext["cli"]
          /\ rspOnce["cli"] \cup rspOpen["cli"]
               = IF sndNext["cli"] = 1 THEN {} ELSE {1}
          /\ Len(sent["cli"]) \in Nat
      BY <1>5, PeersAre DEF ClientStart, Numbered, TypeInv, TypeOK, SndTypes
    <3>5. m.orig = 1 /\ sndNext["cli"] # 1
      BY <3>3, <3>4
    <3>6. LogInError("cli", m) = "ok"
      BY <1>5, <3>4, <3>5 DEF LogInError
    <3> QED BY <2>4, <3>1, <3>6, NotBlamed, PeersAre DEF ProtocolErrors
  <2> QED BY <2>2, <2>3
<1> QED BY <1>1, <1>4, <1>5 DEF LoggingIn

LEMMA LogInInvInit == LogIn /\ ~TwoPipes /\ Init => LogInInv
<1> SUFFICES ASSUME LogIn, Init PROVE LogInInv
  OBVIOUS
<1>1. BlameBase /\ Blameless
  BY BlameBaseInit DEF Init, Blameless, ProtocolErrors
<1>2. \A p \in Peer : \A k \in Pipe : Len(net[p][k]) = 0
  BY DEF Init
<1>3. /\ sent["cli"] = <<>> /\ sent["srv"] = <<>>
      /\ phase["cli"] = "CLI_LOG_IN" /\ phase["srv"] = "SRV_LOG_IN"
      /\ sndNext["cli"] = 1 /\ rcvNext["cli"] = 1
      /\ rspOnce["cli"] = {} /\ rspOpen["cli"] = {}
  BY PeersAre DEF Init
<1>4. Notices(net["srv"]) = {}
  BY <1>2, PeersAre DEF Notices
<1> QED BY <1>1, <1>3, <1>4 DEF LogInInv, RequestTokens, ClientStart, ServerStart

LEMMA LogInInvNext == LogIn /\ ~TwoPipes /\ LogInInv /\ [Next]_vars => LogInInv'
<1> SUFFICES ASSUME LogIn, ~TwoPipes, LogInInv, [Next]_vars PROVE LogInInv'
  OBVIOUS
<1>1. BlameBase'
  BY BlameBaseNext DEF LogInInv
<1>2. ASSUME NEW p \in Peer, err'[p] \in ProtocolErrors PROVE FALSE
  <2>1. PICK k \in Pipe : /\ MsgAt(p, k)
                          /\ InMsgError(p, Head(net[p][k])) \in ProtocolErrors
    BY <1>2, Blames DEF LogInInv, Blameless, BlameBase, FlowInv, ThreadInv
  <2> QED
    BY <2>1, ServerReads, ClientReads DEF Peer, LogInInv, BlameBase
<1> QED
  BY <1>1, <1>2, RequestTokensNext, ClientStartNext, ServerStartNext
  DEF LogInInv, Blameless

(* Peers of one session are never accused of breaking the protocol: not on *)
(* a channel that is no master, and not on a master channel of one pipe.   *)
(* (A master channel of two pipes may be: see the run TwoPipeLogIn.)       *)
THEOREM NoFalseBlameAlways == ~(LogIn /\ TwoPipes) => (Spec => []NoFalseBlame)
<1> SUFFICES ASSUME ~(LogIn /\ TwoPipes) PROVE Spec => []NoFalseBlame
  OBVIOUS
<1>1. CASE ~LogIn
  <2>1. Init => BlameBase /\ NoFalseBlame
    BY BlameBaseInit DEF Init, NoFalseBlame, ProtocolErrors
  <2>2. BlameBase /\ NoFalseBlame /\ [Next]_vars => BlameBase' /\ NoFalseBlame'
    BY <1>1, BlameBaseNext, NoBlameInSession
  <2> QED BY <2>1, <2>2, PTL DEF Spec
<1>2. CASE LogIn
  <2>1. Init => LogInInv
    BY <1>2, LogInInvInit
  <2>2. LogInInv /\ [Next]_vars => LogInInv'
    BY <1>2, LogInInvNext
  <2>3. LogInInv => NoFalseBlame
    BY DEF LogInInv, Blameless, NoFalseBlame
  <2> QED BY <2>1, <2>2, <2>3, PTL DEF Spec
<1> QED BY <1>1, <1>2

=============================================================================
