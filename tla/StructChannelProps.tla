------------------------- MODULE StructChannelProps -------------------------
(***************************************************************************)
(* What a pair of struc::Channel peers promises its users.                 *)
(***************************************************************************)
EXTENDS StructChannel, FiniteSets

(* A message handed to the transport, and the API that sent it.            *)
SentMsg == [msg : Msg, rsp : DOMAIN RspApi]

(* Type invariant of every variable of StructChannel, by groups that       *)
(* change together.                                                        *)
AuthTypes == phase \in [Peer -> Phase] /\ token \in [Peer -> Token \cup {Nil}]
SndTypes  == sndNext \in [Peer -> Nat \ {0}] /\ sent \in [Peer -> Seq(SentMsg)]
RcvTypes  == rcvNext \in [Peer -> Nat \ {0}] /\ reasm \in [Peer -> SUBSET Msg]
ExpTypes  == /\ msgOnce \in [Peer -> SUBSET Which]
             /\ msgOpen \in [Peer -> SUBSET Which]
             /\ pending \in [Peer -> [Which -> Seq(Nat)]]
RspTypes  == rspOnce \in [Peer -> SUBSET Nat] /\ rspOpen \in [Peer -> SUBSET Nat]
LoopTypes == started \in [Peer -> BOOLEAN] /\ chain \in [Peer -> SUBSET Pipe]
LinkTypes == ended \in [Peer -> BOOLEAN] /\ broken \subseteq Peer \X Pipe
UserTypes == log \in [Peer -> Seq(Event)] /\ qdMsgs \in [Peer -> Seq(Nat)]

TypeOK ==
  /\ AuthTypes /\ SndTypes /\ RcvTypes /\ ExpTypes /\ RspTypes
  /\ LoopTypes /\ LinkTypes /\ UserTypes
  /\ logInStarted \in [Peer -> BOOLEAN]
  /\ softSet \in [Peer -> SUBSET DOMAIN Ignored]
  /\ err \in [Peer -> Error]
  /\ hq \in [Peer -> Seq(Event)]
  /\ mode \in [Peer -> {"idle", "flush", "drain", "user"}]
  /\ net \in [Peer -> [Pipe -> Seq(Msg)]]

-----------------------------------------------------------------------------
(* Where in-message i of peer p is: on the wire, in the reassembly queue,  *)
(* waiting for an expectation, in a posted handler, or with the user.      *)
MsgKinds == {"msg", "rsp", "unexpected", "unexpected_ignored"}
EventsOf(s, i) == {n \in 1..Len(s) : s[n].kind \in MsgKinds /\ s[n].id = i}

Places(p, i) ==
  (UNION {{<<k, n>> : n \in {x \in 1..Len(net[p][k]) : net[p][k][x].id = i}} :
            k \in Pipe})
  \cup {<<"reassembly", m>> : m \in {x \in reasm[p] : x.id = i}}
  \cup (UNION {{<<w, n>> : n \in {x \in 1..Len(pending[p][w]) :
                                    pending[p][w][x] = i}} : w \in Which})
  \cup {<<"posted", n>> : n \in EventsOf(hq[p], i)}
  \cup {<<"user", n>> : n \in EventsOf(log[p], i)}

(* A message is never in two places, and while the channel is good every   *)
(* message sent is in one: none is lost, none is handed over twice, however*)
(* the pipes race and whatever expectations come and go                    *)
(* (rcv_struct_new_msg_in(), rcv_struct_new_msg_in_is_next_expected(),     *)
(* expect_msgs_impl()).                                                    *)
ExactlyOnePlace ==
  \A p \in Peer : \A i \in 1..Len(sent[Other(p)]) :
    /\ Cardinality(Places(p, i)) <= 1
    /\ err[p] = "ok" => Cardinality(Places(p, i)) = 1

(* "Messages arrive in the same order as they are sent": the notifications *)
(* of one union value reach the user in the order they were sent in, be it *)
(* through a handler or returned by expect_msg() or expect_msgs().         *)
SentAs(p, e) == sent[Other(p)][e.id].msg

NotificationsInOrder ==
  \A p \in Peer : \A i, j \in 1..Len(log[p]) :
    LET a == log[p][i]
        b == log[p][j]
    IN  i < j /\ a.kind = "msg" /\ b.kind = "msg"
          /\ SentAs(p, a).which = SentAs(p, b).which => a.id < b.id

(* The responses to one request reach the user in the order sent, those    *)
(* that come too late included.                                            *)
ResponsesInOrder ==
  \A p \in Peer : \A i, j \in 1..Len(log[p]) :
    LET a == log[p][i]
        b == log[p][j]
    IN  i < j /\ {a.kind, b.kind} \subseteq MsgKinds \ {"msg"}
          /\ SentAs(p, a).orig = SentAs(p, b).orig => a.id < b.id

(* A response reaches the handler of a request only if that request was    *)
(* sent with async_request(), and of a one-off request at most one does.   *)
ResponsesWanted ==
  \A p \in Peer : \A o \in 1..Len(sent[p]) :
    LET rsps(s) == {n \in 1..Len(s) : s[n].kind = "rsp" /\ SentAs(p, s[n]).orig = o}
        n == Cardinality(rsps(hq[p])) + Cardinality(rsps(log[p]))
    IN  CASE sent[p][o].rsp = "none" -> n = 0
          [] sent[p][o].rsp = "once" -> n <= 1
          [] sent[p][o].rsp = "open" -> TRUE

(* A message waits only while its union value has no expectation: waiting  *)
(* messages and a registered handler never coexist.                        *)
WaitingIsUnexpected ==
  \A p \in Peer : \A w \in msgOnce[p] \cup msgOpen[p] : pending[p][w] = <<>>

-----------------------------------------------------------------------------
(* Two peers that follow the protocol are never accused of breaking it:    *)
(* the checks of rcv_struct_new_msg_in() that say "Other side misbehaved?" *)
(* fail only between channels constructed with different session tokens.   *)
ProtocolErrors == {"MISUSED_SCHEMA", "LOG_IN_MISUSED_SCHEMA", "BAD_AUTH"}

NoFalseBlame ==
  \A p \in Peer : err[p] \in ProtocolErrors =>
    /\ Nil \notin {token[p], token[Other(p)]}
    /\ token[p] # token[Other(p)]

(* Channels of different sessions exchange nothing: a message whose token  *)
(* is not the session's reaches no layer above the check.                  *)
NothingAcrossSessions ==
  \A p \in Peer :
    Nil \notin {token[p], token[Other(p)]} /\ token[p] # token[Other(p)]
      => log[p] \in {<<>>, <<Ev("on_error", 0)>>, <<Ev("send_error", 0)>>}

(* The client is logged in only with a server that is, under its token.    *)
LogInAgreement ==
  LogIn /\ phase["cli"] = "LOGGED_IN"
    => phase["srv"] = "LOGGED_IN" /\ token["cli"] = token["srv"]

(* "IDs do not repeat, so dupe-insertion should not be possible": an ID    *)
(* whose response is expected is spent for good, though the request was    *)
(* never sent because the transport failed or async_end_sending() came     *)
(* first.  Until the server is logged in its first ID alone may be given   *)
(* back with the expectation left behind, as a refused request does.       *)
IdsFresh ==
  \A p \in Peer : \A id \in rspOnce[p] \cup rspOpen[p] :
    \/ id < sndNext[p]
    \/ phase[p] = "SRV_LOG_IN" /\ id = 1

-----------------------------------------------------------------------------
(* A pipe-hosing error is emitted in exactly one way, once: by the call    *)
(* that met it or through the on-error handler.                            *)
ErrorEvents(s) == {n \in 1..Len(s) : s[n].kind \in {"on_error", "send_error"}}

ErrorEmittedOnce ==
  \A p \in Peer :
    LET posted == ErrorEvents(hq[p])
        told   == ErrorEvents(log[p])
    IN  IF err[p] = "ok" THEN posted = {} /\ told = {}
        ELSE \E n \in posted \cup told : {posted, told} = {{}, {n}}

(* Once the user has been told of the error no in-message handler fires.   *)
SilentAfterError ==
  \A p \in Peer : \A n \in ErrorEvents(log[p]) : n = Len(log[p])

(* A graceful-close cuts nothing off: a peer that learns the other has     *)
(* finished sending has accepted everything it sent.                       *)
CloseCutsNothingOff ==
  \A p \in Peer : err[p] = "RECEIVES_FINISHED" =>
    rcvNext[p] > Len(sent[Other(p)])

(* On a hosed channel no API transmits, accepts or expects anything.       *)
HosedIsInert ==
  [][\A p \in Peer : err[p] # "ok" =>
       /\ sent'[p] = sent[p] /\ rcvNext'[p] = rcvNext[p]
       /\ msgOnce'[p] = msgOnce[p] /\ msgOpen'[p] = msgOpen[p]
       /\ rspOnce'[p] = rspOnce[p] /\ rspOpen'[p] = rspOpen[p]
       /\ pending'[p] = pending[p]]_vars

(* A peer hears of an unexpected response only if it sent that response,   *)
(* the other peer found it unexpected, and then once.                      *)
RemoteKinds == {"remote_unexpected", "remote_ignored"}
Unexpected(p, i) == \E n \in EventsOf(hq[p] \o log[p], i) :
                      (hq[p] \o log[p])[n].kind
                        \in {"unexpected", "unexpected_ignored"}
RemoteReports(p, i) == {n \in 1..Len(log[p]) :
                          log[p][n].kind \in RemoteKinds /\ log[p][n].id = i}

RemoteReportsTrue ==
  \A p \in Peer : \A i \in 1..Len(sent[p]) :
    /\ Cardinality(RemoteReports(p, i)) <= 1
    /\ RemoteReports(p, i) # {} => Unexpected(Other(p), i)

-----------------------------------------------------------------------------
(* Refinement: seen by its two users the channel is one ordered pipe.      *)
ClassOf(m)   == IF m.orig = 0 THEN <<"kind", m.which>> ELSE <<"reply", m.orig>>
MsgClass     == ({"kind"} \X Which)
                  \cup ({"reply"} \X UNION {1..MaxOut[p] : p \in Peer})
PipeSent     == [p \in Peer |->
                   [i \in 1..Len(sent[p]) |-> ClassOf(sent[p][i].msg)]]
PipeHanded   == [p \in Peer |-> {log[p][n].id : n \in
                   {x \in 1..Len(log[p]) : log[p][x].kind \in MsgKinds}}]
PipeHosed    == {p \in Peer : err[p] # "ok"}

Promise == INSTANCE OrderedPipe
             WITH Peers <- Peer, Class <- MsgClass, sent <- PipeSent,
                  handed <- PipeHanded, hosed <- PipeHosed

(* The two peers implement the ordered pipe: at most once, in order within *)
(* a class and without gaps, across races of the pipes, reassembly,        *)
(* caching of unexpected messages and expectations undone.                 *)
ImplementsOrderedPipe == Promise!Spec

-----------------------------------------------------------------------------
(* Fairness.  The user's event loop runs what the sync_io core asks for:   *)
(* a pipe that is readable is read, and the library finishes what it has   *)
(* begun.  The user starts the channel.                                    *)
Fairness ==
  \A p \in Peer : /\ WF_vars(ThreadStep(p))
                  /\ WF_vars(StartAndPoll(p))
                  /\ \A k \in Pipe : WF_vars(ReadStep(p, k))

FairSpec == Spec /\ Fairness

(* Every message sent is accepted by the other peer, unless its channel is *)
(* hosed: no race between the pipes leaves a gap open for good.            *)
EventuallyAccepted ==
  \A p \in Peer : \A i \in 1..MaxOut[Other(p)] :
    Len(sent[Other(p)]) >= i ~> (rcvNext[p] > i \/ err[p] # "ok")

(* An error met in the background reaches the on-error handler.            *)
EventuallyEmitted ==
  \A p \in Peer : err[p] # "ok" ~> ErrorEvents(log[p]) # {}

(* The sender of an unexpected response hears of it, unless a channel is   *)
(* hosed or the informer has stopped sending.                              *)
EventuallyInformed ==
  \A p \in Peer : \A i \in 1..MaxOut[p] :
    Unexpected(Other(p), i) ~>
      \/ RemoteReports(p, i) # {}
      \/ "ok" # err[p] \/ ended[Other(p)] \/ broken # {}

=============================================================================
