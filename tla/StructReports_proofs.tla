------------------------ MODULE StructReports_proofs ------------------------
(***************************************************************************)
(* Proofs, for every number of messages, of union values and of tokens, of *)
(* what StructChannelProps states of responses: what a peer is told of its *)
(* unexpected responses is true, and is told once; what reaches a response *)
(* handler was asked for.                                                  *)
(***************************************************************************)
EXTENDS StructOrder_proofs

-----------------------------------------------------------------------------
(* What a peer's thread does to the reports of the other peer's notices:   *)
(* one is posted, one is told by its handler, or there are no new ones.    *)
IsReport(e) == e.kind \in RemoteKinds

NoReport(s, t) == \E u \in Seq(Event) :
                 t = s \o u /\ \A e \in SeqRange(u) : ~IsReport(e)

LEMMA NoReportSame ==
  ASSUME NEW s \in Seq(Event) PROVE NoReport(s, s)
<1>1. <<>> \in Seq(Event) /\ s = s \o <<>>
  BY ConcatProperties
<1> QED BY <1>1, OfEmpty DEF NoReport

LEMMA NoReportAdds ==
  ASSUME NEW s \in Seq(Event), NEW e \in Event, ~IsReport(e)
  PROVE  NoReport(s, Append(s, e))
<1>1. <<e>> \in Seq(Event) /\ Append(s, e) = s \o <<e>>
  OBVIOUS
<1>2. SeqRange(<<e>>) = {e}
  BY DEF SeqRange
<1> QED BY <1>1, <1>2 DEF NoReport

LEMMA NoReportReturns ==
  ASSUME NEW s \in Seq(Event), NEW ids \in Seq(Nat)
  PROVE  NoReport(s, s \o Events(ids))
<1>1. /\ Events(ids) \in Seq(Event)
      /\ SeqRange(Events(ids)) = {Ev("msg", i) : i \in SeqRange(ids)}
  BY OfEvents
<1>2. \A e \in SeqRange(Events(ids)) : ~IsReport(e)
  BY <1>1 DEF Ev, IsReport, RemoteKinds
<1> QED BY <1>1, <1>2 DEF NoReport

LEMMA MoveOfReports ==
  ASSUME TypeInv, NEW p \in Peer, UserMove(p)
  PROVE  \/ Informed(p)
         \/ Fires(p)
         \/ NoReport(hq[p], hq'[p]) /\ NoReport(log[p], log'[p])
<1>1. hq[p] \in Seq(Event) /\ log[p] \in Seq(Event)
  BY DEF TypeInv, TypeOK, UserTypes
<1>2. NoReport(hq[p], hq[p]) /\ NoReport(log[p], log[p])
  BY <1>1, NoReportSame
<1>3. CASE Still(p) \/ Keeps(p)
  BY <1>2, <1>3 DEF Still, Keeps
<1>4. CASE SendErrs(p)
  <2>1. Ev("send_error", 0) \in Event /\ ~IsReport(Ev("send_error", 0))
    BY DEF Ev, Event, IsReport, RemoteKinds
  <2> QED BY <1>1, <1>2, <1>4, <2>1, NoReportAdds DEF SendErrs
<1>5. CASE Hosed(p)
  <2>1. Ev("on_error", 0) \in Event /\ ~IsReport(Ev("on_error", 0))
    BY DEF Ev, Event, IsReport, RemoteKinds
  <2> QED BY <1>1, <1>2, <1>5, <2>1, NoReportAdds DEF Hosed
<1>6. ASSUME NEW w \in Which, NEW ids \in Seq(Nat), Returns(p, w, ids)
      PROVE  NoReport(hq[p], hq'[p]) /\ NoReport(log[p], log'[p])
  BY <1>1, <1>2, <1>6, NoReportReturns DEF Returns
<1>7. ASSUME NEW m \in Msg, Accepts(p, m)
      PROVE  NoReport(hq[p], hq'[p]) /\ NoReport(log[p], log'[p])
  <2>1. ASSUME NEW kind \in {"rsp", "unexpected", "msg"}, Posts(p, m, kind)
        PROVE  NoReport(hq[p], hq'[p])
    <3>1. Ev(kind, m.id) \in Event /\ ~IsReport(Ev(kind, m.id))
      BY DEF Ev, Event, IsReport, RemoteKinds, Msg
    <3> QED BY <1>1, <2>1, <3>1, NoReportAdds DEF Posts
  <2>2. Waits(p, m) => NoReport(hq[p], hq'[p])
    BY <1>2 DEF Waits
  <2> QED BY <1>2, <1>7, <2>1, <2>2 DEF Accepts
<1> QED BY <1>3, <1>4, <1>5, <1>6, <1>7 DEF UserMove

-----------------------------------------------------------------------------
(* The responses a peer has found unexpected.                              *)
Found(p) == {e.id : e \in {f \in SeqRange(hq[p]) \cup SeqRange(log[p]) :
                             f.kind \in {"unexpected", "unexpected_ignored"}}}

LEMMA FoundStays ==
  ASSUME TypeInv, NEW p \in Peer, UserMove(p) PROVE Found(p) \subseteq Found(p)'
<1>1. hq[p] \in Seq(Event) /\ log[p] \in Seq(Event)
  BY DEF TypeInv, TypeOK, UserTypes
<1>2. ASSUME NEW s \in Seq(Event), NEW t, NoReport(s, t) PROVE SeqRange(s) \subseteq SeqRange(t)
  BY <1>2, OfConcat DEF NoReport
<1>3. CASE NoReport(hq[p], hq'[p]) /\ NoReport(log[p], log'[p])
  <2>1. /\ SeqRange(hq[p]) \subseteq SeqRange(hq'[p])
        /\ SeqRange(log[p]) \subseteq SeqRange(log'[p])
    BY <1>1, <1>2, <1>3
  <2> QED BY <2>1 DEF Found
<1>4. CASE Informed(p)
  <2>1. PICK m \in Msg : hq'[p] = Append(hq[p], Ev("remote_unexpected", m.orig))
    BY <1>4 DEF Informed
  <2>2. Ev("remote_unexpected", m.orig) \in Event /\ log'[p] = log[p]
    BY <1>4 DEF Informed, Ev, Event, Msg
  <2>3. SeqRange(hq[p]) \subseteq SeqRange(hq'[p])
    BY <1>1, <2>1, <2>2, OfAppend
  <2> QED BY <2>2, <2>3 DEF Found
<1>5. CASE Fires(p)
  <2> DEFINE h == Head(hq[p])
             f == Fired(p, h)
  <2>1. /\ SeqRange(hq[p]) = {h} \cup SeqRange(hq'[p]) /\ h \in Event
        /\ log'[p] = Append(log[p], f) /\ f \in Event
    BY <1>5, FiresIs, FiredIs DEF Fires
  <2>2. SeqRange(log'[p]) = SeqRange(log[p]) \cup {f}
    BY <1>1, <2>1, OfAppend
  <2>3. /\ f.id = h.id
        /\ h.kind \in {"unexpected", "unexpected_ignored"}
             => f.kind \in {"unexpected", "unexpected_ignored"}
    BY <2>1 DEF Fired, Ignored, Ev, Event
  <2> HIDE DEF h, f
  <2> QED BY <2>1, <2>2, <2>3 DEF Found
<1> QED BY <1>3, <1>4, <1>5, MoveOfReports

LEMMA FoundBelow ==
  ASSUME TypeInv, NEW p \in Peer, Known(p)
  PROVE  \A i \in Found(p) : i \in Nat /\ i < rcvNext[p]
<1>1. /\ rcvNext[p] \in Nat \ {0}
      /\ \A e \in SeqRange(hq[p]) \cup SeqRange(log[p]) :
           IsMsg(e) => e.id \in 1..(rcvNext[p] - 1)
  BY KnownIs
<1>2. \A i \in Found(p) : i \in 1..(rcvNext[p] - 1)
  BY <1>1 DEF Found, IsMsg, MsgKinds
<1> QED BY <1>1, <1>2

-----------------------------------------------------------------------------
(* What a step does to the notices on their way to q, which all come on    *)
(* the pipe for internal messages.                                         *)
NoteRising == {r \in Msg \X Msg : r[1].id = 0 /\ r[2].id = 0 => r[1].orig < r[2].orig}

OnlyThere(n) == \A k \in Pipe \ {InternalPipe} : \A m \in SeqRange(n[k]) : m.id # 0

NoticesRise(n) == OnlyThere(n) /\ Pairwise(n[InternalPipe], NoteRising)

Noticed(n) == {m.orig : m \in {x \in SeqRange(n[InternalPipe]) : x.id = 0}}

LEMMA InternalIsAPipe == InternalPipe \in Pipe
BY ConstantsAssumption DEF InternalPipe

LEMMA NoticesTaken ==
  ASSUME NEW n \in Pipes, NEW k \in Pipe, n[k] # <<>>, NoticesRise(n)
  PROVE  /\ NoticesRise(RestOf(n, k)) /\ Noticed(RestOf(n, k)) \subseteq Noticed(n)
         /\ Head(n[k]).id = 0 =>
              /\ Head(n[k]).orig \in Noticed(n)
              /\ \A i \in Noticed(RestOf(n, k)) : Head(n[k]).orig < i
<1> DEFINE b == InternalPipe
           t == RestOf(n, k)
<1>1. /\ b \in Pipe /\ n[b] \in Seq(Msg) /\ n[k] \in Seq(Msg)
      /\ t = [n EXCEPT ![k] = Tail(n[k])]
  BY InternalIsAPipe DEF Pipes, RestOf
<1>2. /\ t[k] = Tail(n[k]) /\ \A l \in Pipe \ {k} : t[l] = n[l]
      /\ n[b] \in Seq(Msg)
  BY <1>1 DEF Pipes
<1>3. /\ SeqRange(n[k]) = {Head(n[k])} \cup SeqRange(t[k])
      /\ Head(n[k]) \in Msg /\ SeqRange(n[k]) \subseteq Msg
      /\ Pairwise(n[k], NoteRising) =>
           /\ Pairwise(t[k], NoteRising)
           /\ \A f \in SeqRange(t[k]) : <<Head(n[k]), f>> \in NoteRising
  <2>1. SeqRange(n[k]) \subseteq Msg
    BY <1>1, ElementOfSeq DEF SeqRange
  <2> QED BY <1>1, <1>2, <2>1, OfTail
<1> HIDE DEF b, t
<1>4. \A l \in Pipe : SeqRange(t[l]) \subseteq SeqRange(n[l])
  BY <1>2, <1>3
<1>5. Pairwise(t[b], NoteRising)
  BY <1>1, <1>2, <1>3 DEF NoticesRise, b
<1>6. OnlyThere(t)
  BY <1>4 DEF NoticesRise, OnlyThere
<1>7. Noticed(t) \subseteq Noticed(n)
  BY <1>1, <1>4 DEF Noticed, b
<1>8. ASSUME Head(n[k]).id = 0
      PROVE  /\ Head(n[k]).orig \in Noticed(n)
             /\ \A i \in Noticed(t) : Head(n[k]).orig < i
  <2>1. k = b
    BY <1>3, <1>8 DEF NoticesRise, OnlyThere, b
  <2>2. Head(n[k]).orig \in Noticed(n)
    BY <1>3, <1>8, <2>1 DEF Noticed, b
  <2>3. ASSUME NEW m \in SeqRange(t[b]), m.id = 0 PROVE Head(n[k]).orig < m.orig
    <3>1. <<Head(n[k]), m>> \in NoteRising
      BY <1>3, <2>1, <2>3 DEF NoticesRise, b
    <3> QED BY <1>8, <2>3, <3>1 DEF NoteRising
  <2> QED BY <2>2, <2>3 DEF Noticed, b
<1> QED BY <1>5, <1>6, <1>7, <1>8 DEF NoticesRise, b, t

LEMMA NoticesAdded ==
  ASSUME NEW n \in Pipes, NEW k \in Pipe, NEW m \in Msg, NoticesRise(n),
         m.id = 0 => k = InternalPipe /\ \A i \in Noticed(n) : i < m.orig
  PROVE  /\ NoticesRise(AddTo(n, k, m))
         /\ Noticed(AddTo(n, k, m)) \subseteq
              Noticed(n) \cup IF m.id = 0 THEN {m.orig} ELSE {}
<1> DEFINE b == InternalPipe
           t == AddTo(n, k, m)
<1>1. /\ b \in Pipe /\ n[b] \in Seq(Msg) /\ n[k] \in Seq(Msg)
      /\ t[k] = Append(n[k], m) /\ \A l \in Pipe \ {k} : t[l] = n[l]
  BY InternalIsAPipe DEF Pipes, AddTo
<1>2. /\ SeqRange(t[k]) = SeqRange(n[k]) \cup {m} /\ SeqRange(n[k]) \subseteq Msg
      /\ Pairwise(n[k], NoteRising) /\ (\A f \in SeqRange(n[k]) : <<f, m>> \in NoteRising)
           => Pairwise(t[k], NoteRising)
  <2>1. SeqRange(n[k]) \subseteq Msg
    BY <1>1, ElementOfSeq DEF SeqRange
  <2> QED BY <1>1, <2>1, OfAppend
<1> HIDE DEF b, t
<1>3. OnlyThere(t)
  BY <1>1, <1>2 DEF NoticesRise, OnlyThere, b
<1>4. Pairwise(t[b], NoteRising)
  <2>1. CASE k = b
    <3>1. \A f \in SeqRange(n[k]) : f.id = 0 /\ m.id = 0 => f.orig < m.orig
      BY <2>1 DEF Noticed, b
    <3>2. \A f \in SeqRange(n[k]) : <<f, m>> \in NoteRising
      BY <1>2, <3>1 DEF NoteRising
    <3> QED BY <1>2, <2>1, <3>2 DEF NoticesRise, b
  <2>2. CASE k # b
    BY <1>1, <2>2 DEF NoticesRise, b
  <2> QED BY <2>1, <2>2
<1>5. ASSUME NEW x \in SeqRange(t[b]), x.id = 0
      PROVE  x.orig \in Noticed(n) \cup IF m.id = 0 THEN {m.orig} ELSE {}
  <2>1. x \in SeqRange(n[b]) \/ x = m
    BY <1>1, <1>2
  <2> QED BY <1>5, <2>1 DEF Noticed, b
<1>6. Noticed(t) \subseteq Noticed(n) \cup IF m.id = 0 THEN {m.orig} ELSE {}
  BY <1>5 DEF Noticed, b
<1> QED BY <1>3, <1>4, <1>6 DEF NoticesRise, b, t

-----------------------------------------------------------------------------
(* Reports are posted and told in the order the notices were sent, each    *)
(* before those still on their way; and each is of a response the other    *)
(* peer has found unexpected.                                              *)
RepRising == {r \in Event \X Event : IsReport(r[1]) /\ IsReport(r[2]) => r[1].id < r[2].id}

Reported(p) == {e.id : e \in {f \in SeqRange(hq[p]) \cup SeqRange(log[p]) : IsReport(f)}}

Heard(p) == /\ Pairwise(hq[p], RepRising) /\ Pairwise(log[p], RepRising)
            /\ Cross(log[p], hq[p], RepRising)

Credible(p) ==
  /\ Heard(p) /\ NoticesRise(net[p])
  /\ \A i \in Reported(p) : \A j \in Noticed(net[p]) : i < j
  /\ Reported(p) \cup Noticed(net[p]) \subseteq Found(Other(p))

LEMMA NoReportKeeps ==
  ASSUME NEW s \in Seq(Event), NEW t, NoReport(s, t)
  PROVE  /\ t \in Seq(Event) /\ SeqRange(s) \subseteq Event /\ SeqRange(t) \subseteq Event
         /\ \A e \in SeqRange(t) : IsReport(e) => e \in SeqRange(s)
         /\ Pairwise(s, RepRising) => Pairwise(t, RepRising)
<1>1. PICK u \in Seq(Event) : t = s \o u /\ \A e \in SeqRange(u) : ~IsReport(e)
  BY DEF NoReport
<1>2. /\ t \in Seq(Event) /\ SeqRange(s) \subseteq Event /\ SeqRange(u) \subseteq Event
      /\ SeqRange(t) \subseteq Event
  BY <1>1, ConcatProperties, ElementOfSeq DEF SeqRange
<1>3. SeqRange(t) = SeqRange(s) \cup SeqRange(u)
  BY <1>1, OfConcat
<1>4. Pairwise(u, RepRising) /\ Cross(s, u, RepRising)
  <2>1. \A e \in SeqRange(s) \cup SeqRange(u), f \in SeqRange(u) : <<e, f>> \in RepRising
    BY <1>1, <1>2 DEF RepRising
  <2> QED BY <2>1 DEF Pairwise, Cross, SeqRange
<1> QED BY <1>1, <1>2, <1>3, <1>4, OfConcat

(* Nothing is new, the next report is told, or one is posted.              *)
LEMMA HeardNothing ==
  ASSUME TypeInv, NEW p \in Peer, Heard(p), NoReport(hq[p], hq'[p]), NoReport(log[p], log'[p])
  PROVE  Heard(p)' /\ Reported(p)' \subseteq Reported(p)
<1>1. hq[p] \in Seq(Event) /\ log[p] \in Seq(Event)
  BY DEF TypeInv, TypeOK, UserTypes
<1>2. /\ SeqRange(hq'[p]) \subseteq Event /\ SeqRange(log'[p]) \subseteq Event
      /\ \A e \in SeqRange(hq'[p]) : IsReport(e) => e \in SeqRange(hq[p])
      /\ \A e \in SeqRange(log'[p]) : IsReport(e) => e \in SeqRange(log[p])
      /\ Pairwise(hq'[p], RepRising) /\ Pairwise(log'[p], RepRising)
  BY <1>1, NoReportKeeps DEF Heard
<1>3. Cross(log'[p], hq'[p], RepRising)
  <2> SUFFICES ASSUME NEW e \in SeqRange(log'[p]), NEW f \in SeqRange(hq'[p])
               PROVE  <<e, f>> \in RepRising
    BY DEF Cross
  <2>1. CASE IsReport(e) /\ IsReport(f)
    BY <1>2, <2>1 DEF Heard, Cross
  <2> QED BY <1>2, <2>1 DEF RepRising
<1> QED BY <1>2, <1>3 DEF Heard, Reported

LEMMA HeardFires ==
  ASSUME TypeInv, NEW p \in Peer, Heard(p), Fires(p)
  PROVE  Heard(p)' /\ Reported(p)' \subseteq Reported(p)
<1> DEFINE h == Head(hq[p])
           t == Tail(hq[p])
           f == Fired(p, h)
<1>1. /\ hq[p] \in Seq(Event) /\ hq[p] # <<>> /\ log[p] \in Seq(Event)
      /\ SeqRange(hq[p]) = {h} \cup SeqRange(t) /\ h \in Event /\ t \in Seq(Event)
      /\ hq'[p] = t /\ log'[p] = Append(log[p], f) /\ f \in Event /\ f.id = h.id
  BY FiresIs, FiredIs DEF Fires
<1>2. IsReport(f) <=> IsReport(h)
  BY <1>1 DEF Fired, Ignored, Ev, Event, IsReport, RemoteKinds
<1>3. SeqRange(hq[p]) \subseteq Event /\ SeqRange(log[p]) \subseteq Event
  BY <1>1, ElementOfSeq DEF SeqRange
<1>4. Pairwise(t, RepRising) /\ \A g \in SeqRange(t) : <<h, g>> \in RepRising
  BY <1>1, OfTail DEF Heard
<1> HIDE DEF h, t, f
<1>5. \A g \in SeqRange(t) : <<f, g>> \in RepRising
  BY <1>1, <1>2, <1>3, <1>4 DEF RepRising
<1>6. \A g \in SeqRange(log[p]) : <<g, f>> \in RepRising
  <2>1. \A g \in SeqRange(log[p]) : <<g, h>> \in RepRising
    BY <1>1 DEF Heard, Cross
  <2> QED BY <1>1, <1>2, <1>3, <2>1 DEF RepRising
<1>7. /\ Pairwise(log'[p], RepRising)
      /\ SeqRange(log'[p]) = SeqRange(log[p]) \cup {f}
  BY <1>1, <1>6, OfAppend DEF Heard
<1>8. Cross(log'[p], hq'[p], RepRising)
  BY <1>1, <1>5, <1>7 DEF Heard, Cross
<1>9. Reported(p)' \subseteq Reported(p)
  BY <1>1, <1>2, <1>7 DEF Reported
<1> QED BY <1>1, <1>4, <1>7, <1>8, <1>9 DEF Heard

LEMMA HeardInformed ==
  ASSUME TypeInv, NEW p \in Peer, Heard(p), NEW m \in Msg,
         hq'[p] = Append(hq[p], Ev("remote_unexpected", m.orig)), log'[p] = log[p],
         \A i \in Reported(p) : i < m.orig
  PROVE  Heard(p)' /\ Reported(p)' \subseteq Reported(p) \cup {m.orig}
<1> DEFINE e == Ev("remote_unexpected", m.orig)
<1>1. hq[p] \in Seq(Event) /\ log[p] \in Seq(Event)
  BY DEF TypeInv, TypeOK, UserTypes
<1>2. SeqRange(hq[p]) \subseteq Event /\ SeqRange(log[p]) \subseteq Event
  BY <1>1, ElementOfSeq DEF SeqRange
<1>3. e \in Event /\ e.id = m.orig
  BY DEF Ev, Event, Msg
<1>4. hq'[p] = Append(hq[p], e)
  OBVIOUS
<1> HIDE DEF e
<1>5. \A g \in SeqRange(hq[p]) \cup SeqRange(log[p]) : <<g, e>> \in RepRising
  BY <1>2, <1>3 DEF RepRising, Reported
<1>6. /\ Pairwise(hq'[p], RepRising)
      /\ SeqRange(hq'[p]) = SeqRange(hq[p]) \cup {e}
  BY <1>1, <1>3, <1>4, <1>5, OfAppend DEF Heard
<1>7. Cross(log'[p], hq'[p], RepRising)
  BY <1>5, <1>6 DEF Heard, Cross
<1>8. Reported(p)' \subseteq Reported(p) \cup {m.orig}
  BY <1>3, <1>6 DEF Reported
<1> QED BY <1>6, <1>7, <1>8 DEF Heard

LEMMA NoticesMove ==
  ASSUME TypeInv, NEW q \in Peer, WireMove(q), NoticesRise(net[q]),
         \A i \in Noticed(net[q]) : i < rcvNext[Other(q)]
  PROVE  /\ NoticesRise(net[q])'
         /\ \A i \in Noticed(net[q])' \ Noticed(net[q]) :
              i = rcvNext[Other(q)] /\ i \in Found(Other(q))'
<1> DEFINE o == Other(q)
<1>1. net[q] \in Pipes /\ o \in Peer /\ InternalPipe \in Pipe
  BY InternalIsAPipe, OtherPeer DEF TypeInv, TypeOK, Pipes
<1>2. CASE net'[q] = net[q]
  BY <1>2 DEF NoticesRise, OnlyThere, Noticed
<1>3. ASSUME NEW t, net'[q] = t, NoticesRise(t),
             \A i \in Noticed(t) \ Noticed(net[q]) : i = rcvNext[o] /\ i \in Found(o)'
      PROVE  /\ NoticesRise(net[q])'
             /\ \A i \in Noticed(net[q])' \ Noticed(net[q]) :
                  i = rcvNext[o] /\ i \in Found(o)'
  BY <1>3 DEF NoticesRise, OnlyThere, Noticed
<1>4. CASE WireNotice(q)
  <2>1. PICK m \in Msg : Notice(o, m) /\ net'[q] = AddTo(net[q], InternalPipe, m)
    BY <1>4 DEF WireNotice
  <2>2. m.id = 0 /\ m.orig = rcvNext[o] /\ hq'[o] = Append(hq[o], Ev("unexpected", m.orig))
    BY <2>1 DEF Notice
  <2>3. m.orig \in Found(o)'
    <3> DEFINE e == Ev("unexpected", m.orig)
    <3>1. e \in Event /\ e.id = m.orig /\ e.kind = "unexpected" /\ hq[o] \in Seq(Event)
      BY <1>1 DEF Ev, Event, Msg, TypeInv, TypeOK
    <3>2. hq'[o] = Append(hq[o], e)
      BY <2>2
    <3> HIDE DEF e
    <3>3. e \in SeqRange(hq'[o])
      BY <3>1, <3>2, OfAppend
    <3> QED BY <3>1, <3>3 DEF Found
  <2> DEFINE t == AddTo(net[q], InternalPipe, m)
  <2>4. NoticesRise(t) /\ Noticed(t) \subseteq Noticed(net[q]) \cup {m.orig}
    BY <1>1, <2>2, NoticesAdded
  <2>5. net'[q] = t
    BY <2>1
  <2> HIDE DEF t
  <2> QED BY <1>3, <2>2, <2>3, <2>4, <2>5
<1>5. CASE WireSend(q)
  <2>1. PICK k \in Pipe, e \in SentMsg : /\ e.msg.id = sndNext[o]
                                         /\ net'[q] = AddTo(net[q], k, e.msg)
    BY <1>5 DEF WireSend
  <2>2. e.msg \in Msg /\ e.msg.id # 0
    BY <1>1, <2>1 DEF SentMsg, TypeInv, TypeOK, SndTypes
  <2> DEFINE t == AddTo(net[q], k, e.msg)
  <2>3. NoticesRise(t) /\ Noticed(t) \subseteq Noticed(net[q])
    BY <1>1, <2>2, NoticesAdded
  <2>4. net'[q] = t
    BY <2>1
  <2> HIDE DEF t
  <2> QED BY <1>3, <2>3, <2>4
<1>6. ASSUME NEW k \in Pipe, WireTake(q, k)
      PROVE  /\ NoticesRise(net[q])'
             /\ \A i \in Noticed(net[q])' \ Noticed(net[q]) :
                  i = rcvNext[o] /\ i \in Found(o)'
  <2> DEFINE t == RestOf(net[q], k)
  <2>1. net[q][k] # <<>> /\ net'[q] = t
    BY <1>6 DEF WireTake
  <2>2. NoticesRise(t) /\ Noticed(t) \subseteq Noticed(net[q])
    BY <1>1, <2>1, NoticesTaken
  <2> HIDE DEF t
  <2> QED BY <1>3, <2>1, <2>2
<1> QED
  BY <1>2, <1>4, <1>5, <1>6 DEF WireMove, WireSame, WireFlush

LEMMA CredibleNext ==
  ASSUME TypeInv, NEW q \in Peer, UserMove(q), UserMove(Other(q)), WireMove(q),
         Known(Other(q)), Credible(q)
  PROVE  Credible(q)'
<1> DEFINE o == Other(q)
           x == rcvNext[o]
<1>1. o \in Peer /\ net[q] \in Pipes
  BY OtherPeer DEF TypeInv, TypeOK, Pipes
<1>2. /\ Found(o) \subseteq Found(o)'
      /\ \A i \in Found(o) : i \in Nat /\ i < x
  BY <1>1, FoundStays, FoundBelow
<1>3. /\ Heard(q) /\ NoticesRise(net[q])
      /\ Reported(q) \subseteq Found(o) /\ Noticed(net[q]) \subseteq Found(o)
      /\ \A i \in Reported(q) : \A j \in Noticed(net[q]) : i < j
  BY DEF Credible
<1>4. /\ NoticesRise(net[q])'
      /\ \A i \in Noticed(net[q])' \ Noticed(net[q]) : i = x /\ i \in Found(o)'
  BY <1>2, <1>3, NoticesMove
<1> HIDE DEF x
<1>5. Noticed(net[q])' \subseteq Found(o)'
  BY <1>2, <1>3, <1>4
<1>6. ASSUME Heard(q)', Reported(q)' \subseteq Reported(q) PROVE Credible(q)'
  <2>1. Reported(q)' \subseteq Found(o)'
    BY <1>2, <1>3, <1>6
  <2>2. ASSUME NEW i \in Reported(q)', NEW j \in Noticed(net[q])' PROVE i < j
    BY <1>2, <1>3, <1>4, <1>6, <2>2
  <2> QED BY <1>4, <1>5, <1>6, <2>1, <2>2 DEF Credible
<1>7. CASE Informed(q)
  <2>1. PICK m \in Msg : /\ m.id = 0 /\ \E k \in Pipe : Takes(q, k, m)
                         /\ hq'[q] = Append(hq[q], Ev("remote_unexpected", m.orig))
    BY <1>7 DEF Informed
  <2>2. PICK k \in Pipe : Takes(q, k, m)
    BY <2>1
  <2> DEFINE t == RestOf(net[q], k)
  <2>3. net[q][k] # <<>> /\ m = Head(net[q][k]) /\ net'[q] = t
    BY <2>2 DEF Takes, RestOf
  <2>4. /\ Noticed(t) \subseteq Noticed(net[q]) /\ m.orig \in Noticed(net[q])
        /\ \A i \in Noticed(t) : m.orig < i
    BY <1>1, <1>3, <2>1, <2>3, NoticesTaken
  <2> HIDE DEF t
  <2>5. Noticed(net[q])' = Noticed(t)
    BY <2>3 DEF Noticed
  <2>6. Heard(q)' /\ Reported(q)' \subseteq Reported(q) \cup {m.orig}
    <3>1. log'[q] = log[q] /\ \A i \in Reported(q) : i < m.orig
      BY <1>3, <1>7, <2>4 DEF Informed
    <3> QED BY <1>3, <2>1, <3>1, HeardInformed
  <2>7. Reported(q)' \subseteq Found(o)'
    BY <1>2, <1>3, <2>4, <2>6
  <2>8. ASSUME NEW i \in Reported(q)', NEW j \in Noticed(net[q])' PROVE i < j
    BY <1>3, <2>4, <2>5, <2>6, <2>8
  <2> QED BY <1>4, <1>5, <2>6, <2>7, <2>8 DEF Credible
<1>8. CASE Fires(q)
  BY <1>3, <1>6, <1>8, HeardFires
<1>9. CASE NoReport(hq[q], hq'[q]) /\ NoReport(log[q], log'[q])
  BY <1>3, <1>6, <1>9, HeardNothing
<1> QED BY <1>7, <1>8, <1>9, MoveOfReports

LEMMA CredibleInit == Init => \A q \in Peer : Credible(q)
<1> SUFFICES ASSUME Init, NEW q \in Peer PROVE Credible(q)
  OBVIOUS
<1>1. hq[q] = <<>> /\ log[q] = <<>> /\ net[q] = [k \in Pipe |-> <<>>]
  BY DEF Init
<1>2. \A k \in Pipe : SeqRange(net[q][k]) = {} /\ Pairwise(net[q][k], NoteRising)
  BY <1>1, OfEmpty
<1>3. NoticesRise(net[q]) /\ Noticed(net[q]) = {}
  BY <1>2, InternalIsAPipe DEF NoticesRise, OnlyThere, Noticed
<1>4. Heard(q) /\ Reported(q) = {}
  <2>1. SeqRange(hq[q]) = {} /\ SeqRange(log[q]) = {}
    BY <1>1, OfEmpty
  <2> QED BY <1>1, <2>1, OfEmpty DEF Heard, Cross, Reported
<1> QED BY <1>3, <1>4 DEF Credible

ReportInv == BlameBase /\ \A p \in Peer : Credible(p)

LEMMA ReportInvNext == ReportInv /\ [Next]_vars => ReportInv'
<1> SUFFICES ASSUME ReportInv, [Next]_vars PROVE ReportInv'
  OBVIOUS
<1>1. BlameBase /\ BlameBase'
  BY BlameBaseNext DEF ReportInv
<1>2. TypeInv /\ FlushIsGood /\ \A p \in Peer : Known(p) /\ Credible(p)
  BY DEF ReportInv, BlameBase, FlowInv, ThreadInv
<1>3. ASSUME NEW p \in Peer PROVE Credible(p)'
  <2>1. Other(p) \in Peer
    BY OtherPeer
  <2> QED BY <1>2, <2>1, UserMoveNext, WireMoveNext, CredibleNext
<1> QED BY <1>1, <1>3 DEF ReportInv

(* A peer hears once of a response the other peer has found unexpected,    *)
(* and of no other, on one pipe or two, though handlers, notices and       *)
(* further responses overtake each other.                                  *)
THEOREM RemoteReportsTrueAlways == Spec => []RemoteReportsTrue
<1>1. ReportInv => RemoteReportsTrue
  <2> SUFFICES ASSUME ReportInv, NEW p \in Peer, NEW i \in 1..Len(sent[p])
               PROVE  /\ Cardinality(RemoteReports(p, i)) <= 1
                      /\ RemoteReports(p, i) # {} => Unexpected(Other(p), i)
    BY DEF RemoteReportsTrue
  <2> DEFINE o == Other(p)
  <2>1. TypeInv /\ Credible(p) /\ o \in Peer
    BY OtherPeer DEF ReportInv, BlameBase, FlowInv, ThreadInv
  <2>2. /\ log[p] \in Seq(Event) /\ hq[o] \in Seq(Event) /\ log[o] \in Seq(Event)
        /\ Len(log[p]) \in Nat
    BY <2>1 DEF TypeInv, TypeOK, UserTypes
  <2>3. ASSUME NEW n \in RemoteReports(p, i), NEW m \in RemoteReports(p, i) PROVE n = m
    <3>1. /\ n \in 1..Len(log[p]) /\ log[p][n].kind \in RemoteKinds /\ log[p][n].id = i
          /\ m \in 1..Len(log[p]) /\ log[p][m].kind \in RemoteKinds /\ log[p][m].id = i
      BY DEF RemoteReports
    <3>2. /\ n < m => log[p][n].id < log[p][m].id
          /\ m < n => log[p][m].id < log[p][n].id
      <4>1. /\ n < m => <<log[p][n], log[p][m]>> \in RepRising
            /\ m < n => <<log[p][m], log[p][n]>> \in RepRising
        BY <2>1, <3>1 DEF Credible, Heard, Pairwise
      <4> QED BY <3>1, <4>1 DEF RepRising, IsReport
    <3>3. ~(i < i)
      OBVIOUS
    <3> QED BY <2>2, <3>1, <3>2, <3>3
  <2>4. Cardinality(RemoteReports(p, i)) <= 1
    <3>1. CASE RemoteReports(p, i) = {}
      <4>1. Cardinality({}) = 0
        BY FS_EmptySet
      <4> QED BY <3>1, <4>1
    <3>2. ASSUME NEW n \in RemoteReports(p, i)
          PROVE  Cardinality(RemoteReports(p, i)) <= 1
      <4>1. RemoteReports(p, i) = {n}
        BY <2>3
      <4>2. Cardinality({n}) = 1
        BY FS_Singleton
      <4> QED BY <4>1, <4>2
    <3> QED BY <3>1, <3>2
  <2>5. ASSUME NEW n \in RemoteReports(p, i) PROVE Unexpected(o, i)
    <3>1. log[p][n] \in SeqRange(log[p]) /\ IsReport(log[p][n]) /\ log[p][n].id = i
      BY DEF RemoteReports, IsReport, SeqRange
    <3>2. i \in Found(o)
      BY <2>1, <3>1 DEF Credible, Reported
    <3>3. PICK e \in SeqRange(hq[o]) \cup SeqRange(log[o]) :
            e.id = i /\ e.kind \in {"unexpected", "unexpected_ignored"}
      BY <3>2 DEF Found
    <3>4. e \in SeqRange(hq[o] \o log[o])
      BY <2>2, <3>3, OfConcat
    <3>5. PICK j \in 1..Len(hq[o] \o log[o]) : (hq[o] \o log[o])[j] = e
      BY <3>4 DEF SeqRange
    <3> QED BY <3>3, <3>5 DEF Unexpected, EventsOf, MsgKinds
  <2> QED BY <2>4, <2>5
<1>2. Init => ReportInv
  BY BlameBaseInit, CredibleInit DEF ReportInv
<1> QED BY <1>1, <1>2, ReportInvNext, PTL DEF Spec

-----------------------------------------------------------------------------
(* Requests and responses.  In log-in a request that is not a response is  *)
(* refused and yet leaves its expectation, which is then met by responses  *)
(* to the server's first message: the ID is the same.                      *)
NoEarlyRequest ==
  LogIn => Api["srv"] \cap {"async_request", "async_request_open"} = {}

Exempt(p, o) == ~NoEarlyRequest /\ p = "srv" /\ o = 1

(* What a step does to the expectations of responses.                      *)
Registers(p) ==
  /\ sndNext'[p] = sndNext[p] + 1
  /\ \E rsp \in DOMAIN RspApi :
       /\ rspOnce'[p] \subseteq rspOnce[p] \cup IF rsp = "once" THEN {sndNext[p]} ELSE {}
       /\ rspOpen'[p] \subseteq rspOpen[p] \cup IF rsp = "open" THEN {sndNext[p]} ELSE {}
       /\ \/ sent'[p] = sent[p]
          \/ /\ err[p] = "ok" /\ ~ended[p]
             /\ \E e \in SentMsg : e.rsp = rsp /\ sent'[p] = Append(sent[p], e)

RspMove(p) ==
  \/ Registers(p)
  \/ /\ UNCHANGED <<sent[p], sndNext[p]>>
     /\ \A i \in rspOnce'[p] : i \in rspOnce[p] \/ Exempt(p, i)
     /\ \A i \in rspOpen'[p] : i \in rspOpen[p] \/ Exempt(p, i)

LEMMA RefusedIsExempt ==
  ASSUME Authentic, NEW p \in Peer, NEW rsp \in DOMAIN RspApi, RequestRefused(p, rsp)
  PROVE  Exempt(p, sndNext[p])
<1>1. phase[p] = "SRV_LOG_IN" /\ rsp # "none" /\ RspApi[rsp] \in Api[p]
  BY DEF RequestRefused, SendCallable, CanCall
<1>2. LogIn /\ p = "srv"
  BY <1>1 DEF Authentic, OneSession, LoggingIn, Peer
<1>3. RspApi[rsp] \in {"async_request", "async_request_open"}
  BY <1>1 DEF RspApi
<1>4. sndNext[p] = 1
  BY DEF RequestRefused
<1> QED BY <1>1, <1>2, <1>3, <1>4 DEF NoEarlyRequest, Exempt

LEMMA RegistersSend ==
  ASSUME TypeInv, NEW p \in Peer, SendStep(p) PROVE Registers(p)
<1> USE DEF TypeInv, TypeOK, SndTypes, RspTypes
<1>1. PICK orig \in Held(p) \cup {0}, rsp \in DOMAIN RspApi :
        \/ \E k \in Pipe, w \in Which : Send(p, k, w, orig, rsp)
        \/ \E k \in Pipe : SendFails(p, k, orig, rsp)
        \/ SendAfterEnd(p, orig, rsp)
  BY DEF SendStep
<1>2. ASSUME RegisterResponse(p, rsp)
      PROVE  /\ rspOnce'[p] \subseteq
                  rspOnce[p] \cup IF rsp = "once" THEN {sndNext[p]} ELSE {}
             /\ rspOpen'[p] \subseteq
                  rspOpen[p] \cup IF rsp = "open" THEN {sndNext[p]} ELSE {}
  BY <1>2 DEF RegisterResponse
<1>3. ASSUME NEW k \in Pipe, NEW w \in Which, Send(p, k, w, orig, rsp)
      PROVE  Registers(p)
  <2> DEFINE m == [id |-> sndNext[p], orig |-> orig, which |-> w, tok |-> token[p]]
             e == [msg |-> m, rsp |-> rsp]
  <2>1. e \in SentMsg /\ e.rsp = rsp
    BY <1>3, HeldIds DEF Send, AuthTypes, Msg, SentMsg
  <2>2. sent'[p] = Append(sent[p], e)
    BY <1>3 DEF Send
  <2> HIDE DEF e
  <2>3. /\ RegisterResponse(p, rsp) /\ err[p] = "ok" /\ ~ended[p]
        /\ sndNext'[p] = sndNext[p] + 1
    BY <1>3 DEF Send, SendCallable
  <2> QED BY <1>2, <2>1, <2>2, <2>3 DEF Registers
<1>4. ASSUME \/ \E k \in Pipe : SendFails(p, k, orig, rsp)
             \/ SendAfterEnd(p, orig, rsp)
      PROVE  Registers(p)
  <2>1. RegisterResponse(p, rsp) /\ sndNext'[p] = sndNext[p] + 1 /\ sent' = sent
    BY <1>4 DEF SendFails, SendAfterEnd
  <2> QED BY <1>2, <2>1 DEF Registers
<1> QED BY <1>1, <1>3, <1>4

LEMMA RspMoveNext ==
  ASSUME TypeInv, Authentic, [Next]_vars, NEW q \in Peer PROVE RspMove(q)
<1> USE DEF TypeInv, TypeOK, RspTypes
<1>1. ASSUME Untouched(q) PROVE RspMove(q)
  BY <1>1 DEF Untouched, OwnSnd, RspMove
<1>2. ASSUME ApiStep(q) PROVE RspMove(q)
  <2>1. CASE SendStep(q)
    BY <2>1, RegistersSend DEF RspMove
  <2>2. ASSUME NEW rsp \in DOMAIN RspApi, RequestRefused(q, rsp) PROVE RspMove(q)
    <3>1. UNCHANGED <<sent, sndNext>> /\ RegisterResponse(q, rsp)
      BY <2>2 DEF RequestRefused, sndVars
    <3>2. /\ rspOnce'[q] \subseteq rspOnce[q] \cup {sndNext[q]}
          /\ rspOpen'[q] \subseteq rspOpen[q] \cup {sndNext[q]}
      BY <3>1 DEF RegisterResponse
    <3> QED BY <2>2, <3>1, <3>2, RefusedIsExempt DEF RspMove
  <2>3. CASE ~SendStep(q) /\ \A rsp \in DOMAIN RspApi : ~RequestRefused(q, rsp)
    <3>1. /\ UNCHANGED <<sent, sndNext, rspOnce>>
          /\ \/ rspOpen' = rspOpen
             \/ \E id \in rspOpen[q] : UndoExpectResponses(q, id)
      BY <1>2, <2>3
      DEF ApiStep, StartAndPoll, EndSending, ExpectMsg, ExpectMsgs,
          UndoExpectMsgs, ExpectLogInRequest, UndoExpectResponses, SetHandler,
          UnsetHandler, sndVars, rspVars
    <3>2. rspOpen'[q] \subseteq rspOpen[q]
      BY <3>1 DEF UndoExpectResponses
    <3> QED BY <3>1, <3>2 DEF RspMove
  <2> QED BY <2>1, <2>2, <2>3
<1>3. ASSUME NEW m, NEW pipes, IsNextExpected(q, m, pipes)
      PROVE  rspOnce'[q] \subseteq rspOnce[q] /\ rspOpen'[q] \subseteq rspOpen[q]
  BY <1>3
  DEF IsNextExpected, DeliverResponse, DeliverUnexpected, DeliverExpected,
      DeliverLater, rspVars
<1>4. ASSUME NEW k \in Pipe, ReadStep(q, k) \/ Break(q, k) PROVE RspMove(q)
  <2>1. UNCHANGED <<sent, sndNext>>
    BY <1>4
    DEF ReadStep, ReceiveBad, ReceiveInternal, ReceiveEarly, ReceiveNext,
        ReadFails, ReadIgnored, Break, sndVars
  <2>2. rspOnce'[q] \subseteq rspOnce[q] /\ rspOpen'[q] \subseteq rspOpen[q]
    <3>1. CASE ReceiveNext(q, k)
      BY <1>3, <3>1 DEF ReceiveNext
    <3>2. CASE ~ReceiveNext(q, k)
      BY <1>4, <3>2
      DEF ReadStep, ReceiveBad, ReceiveInternal, ReceiveEarly, ReadFails,
          ReadIgnored, Break, rspVars
    <3> QED BY <3>1, <3>2
  <2> QED BY <2>1, <2>2 DEF RspMove
<1>5. ASSUME ThreadStep(q) PROVE RspMove(q)
  <2>1. UNCHANGED <<sent, sndNext>>
    BY <1>5 DEF ThreadStep, Fire, Flush, sndVars
  <2>2. rspOnce'[q] \subseteq rspOnce[q] /\ rspOpen'[q] \subseteq rspOpen[q]
    BY <1>3, <1>5 DEF ThreadStep, Fire, Flush, rspVars
  <2> QED BY <2>1, <2>2 DEF RspMove
<1>6. ASSUME NEW p \in Peer, StepOf(p) PROVE RspMove(q)
  <2>1. CASE q # p
    BY <1>1, <1>6, <2>1, OtherUntouched
  <2>2. CASE q = p
    BY <1>2, <1>4, <1>5, <1>6, <2>2 DEF StepOf
  <2> QED BY <2>1, <2>2
<1> QED BY <1>1, <1>6, StepOfAPeer, UnchangedIsUntouched

(* What is registered was asked for, by the request that has the ID.       *)
Registered(p) ==
  /\ \A i \in rspOnce[p] \cup rspOpen[p] : i < sndNext[p] \/ Exempt(p, i)
  /\ \A i \in 1..Len(sent[p]) :
       \/ Exempt(p, i)
       \/ /\ i \in rspOnce[p] => sent[p][i].rsp = "once"
          /\ i \in rspOpen[p] => sent[p][i].rsp = "open"

LEMMA RegisteredNext ==
  ASSUME TypeInv, NEW p \in Peer, RspMove(p), Numbered(p), Registered(p)
  PROVE  Registered(p)'
<1>1. /\ sent[p] \in Seq(SentMsg) /\ Len(sent[p]) \in Nat /\ sndNext[p] \in Nat
      /\ rspOnce[p] \subseteq Nat /\ rspOpen[p] \subseteq Nat
      /\ Len(sent[p]) < sndNext[p]
  BY DEF TypeInv, TypeOK, SndTypes, RspTypes, Numbered
<1>2. CASE /\ UNCHANGED <<sent[p], sndNext[p]>>
           /\ \A i \in rspOnce'[p] : i \in rspOnce[p] \/ Exempt(p, i)
           /\ \A i \in rspOpen'[p] : i \in rspOpen[p] \/ Exempt(p, i)
  BY <1>2 DEF Registered, Exempt
<1>3. CASE Registers(p)
  <2>1. PICK rsp \in DOMAIN RspApi :
          /\ rspOnce'[p] \subseteq rspOnce[p] \cup IF rsp = "once" THEN {sndNext[p]} ELSE {}
          /\ rspOpen'[p] \subseteq rspOpen[p] \cup IF rsp = "open" THEN {sndNext[p]} ELSE {}
          /\ \/ sent'[p] = sent[p]
             \/ /\ err[p] = "ok" /\ ~ended[p]
                /\ \E e \in SentMsg : e.rsp = rsp /\ sent'[p] = Append(sent[p], e)
    BY <1>3 DEF Registers
  <2>2. sndNext'[p] = sndNext[p] + 1
    BY <1>3 DEF Registers
  <2>3. \A i \in (rspOnce[p] \cup rspOpen[p])' : i < sndNext'[p] \/ Exempt(p, i)
    <3>1. \A i \in (rspOnce[p] \cup rspOpen[p])' :
            i \in rspOnce[p] \cup rspOpen[p] \/ i = sndNext[p]
      BY <2>1
    <3>2. \A i \in rspOnce[p] \cup rspOpen[p] : i < sndNext[p] + 1 \/ Exempt(p, i)
      BY <1>1 DEF Registered
    <3>3. sndNext[p] < sndNext[p] + 1
      BY <1>1
    <3> QED BY <2>2, <3>1, <3>2, <3>3
  <2>4. ASSUME NEW i \in 1..Len(sent[p]), ~Exempt(p, i)
        PROVE  /\ i \in rspOnce'[p] => sent[p][i].rsp = "once"
               /\ i \in rspOpen'[p] => sent[p][i].rsp = "open"
    <3>1. i # sndNext[p]
      BY <1>1
    <3>2. /\ i \in rspOnce'[p] => i \in rspOnce[p]
          /\ i \in rspOpen'[p] => i \in rspOpen[p]
      BY <2>1, <3>1
    <3> QED BY <2>4, <3>2 DEF Registered
  <2>5. CASE sent'[p] = sent[p]
    BY <2>3, <2>4, <2>5 DEF Registered, Exempt
  <2>6. CASE sent'[p] # sent[p]
    <3>1. PICK e \in SentMsg : e.rsp = rsp /\ sent'[p] = Append(sent[p], e)
      BY <2>1, <2>6
    <3>2. sndNext[p] = Len(sent[p]) + 1
      BY <2>1, <2>6 DEF Numbered
    <3>3. /\ Len(sent'[p]) = Len(sent[p]) + 1
          /\ sent'[p][Len(sent[p]) + 1] = e
          /\ \A i \in 1..Len(sent[p]) : sent'[p][i] = sent[p][i]
      BY <1>1, <3>1, AppendProperties
    <3>4. \A i \in 1..Len(sent'[p]) : i \in 1..Len(sent[p]) \/ i = sndNext[p]
      BY <1>1, <3>2, <3>3
    <3>5. ASSUME ~Exempt(p, sndNext[p])
          PROVE  /\ sndNext[p] \in rspOnce'[p] => e.rsp = "once"
                 /\ sndNext[p] \in rspOpen'[p] => e.rsp = "open"
      <4>1. sndNext[p] \notin rspOnce[p] \cup rspOpen[p]
        BY <1>1, <3>5 DEF Registered
      <4> QED BY <2>1, <3>1, <4>1
    <3>6. ASSUME NEW i \in 1..Len(sent'[p]), ~Exempt(p, i)
          PROVE  /\ i \in rspOnce'[p] => sent'[p][i].rsp = "once"
                 /\ i \in rspOpen'[p] => sent'[p][i].rsp = "open"
      BY <2>4, <3>2, <3>3, <3>4, <3>5, <3>6
    <3> QED BY <2>3, <3>6 DEF Registered, Exempt
  <2> QED BY <2>5, <2>6
<1> QED BY <1>2, <1>3 DEF RspMove

-----------------------------------------------------------------------------
(* The responses posted for a request's handler, or handed to it.          *)
Answers(p)    == {e \in SeqRange(hq[p]) \cup SeqRange(log[p]) : e.kind = "rsp"}
Request(p, e) == SentAs(p, e).orig

Answer(p, m) == /\ Accepts(p, m) /\ hq'[p] = Append(hq[p], Ev("rsp", m.id))
                /\ Answers(p)' \subseteq Answers(p) \cup {Ev("rsp", m.id)}

LEMMA AnswersMove ==
  ASSUME TypeInv, NEW p \in Peer, UserMove(p)
  PROVE  Answers(p)' \subseteq Answers(p) \/ \E m \in Msg : Answer(p, m)
<1>1. hq[p] \in Seq(Event) /\ log[p] \in Seq(Event)
  BY DEF TypeInv, TypeOK, UserTypes
<1>2. CASE Idles(p)
  <2>1. /\ \A e \in SeqRange(hq'[p]) : IsMsg(e) => e \in SeqRange(hq[p])
        /\ \A e \in SeqRange(log'[p]) : IsMsg(e) => e \in SeqRange(log[p])
    BY <1>1, <1>2, SaysKeeps DEF Idles
  <2> QED BY <2>1 DEF Answers, IsMsg, MsgKinds
<1>3. ASSUME NEW w \in Which, NEW ids \in Seq(Nat), Returns(p, w, ids)
      PROVE  Answers(p)' \subseteq Answers(p)
  <2>1. /\ hq'[p] = hq[p] /\ log'[p] = log[p] \o Events(ids)
        /\ Events(ids) \in Seq(Event)
        /\ SeqRange(Events(ids)) = {Ev("msg", i) : i \in SeqRange(ids)}
    BY <1>3, OfEvents DEF Returns
  <2>2. SeqRange(log'[p]) = SeqRange(log[p]) \cup {Ev("msg", i) : i \in SeqRange(ids)}
    BY <1>1, <2>1, OfConcat
  <2> QED BY <2>1, <2>2 DEF Answers, Ev
<1>4. CASE Fires(p)
  <2> DEFINE h == Head(hq[p])
             f == Fired(p, h)
  <2>1. /\ SeqRange(hq[p]) = {h} \cup SeqRange(hq'[p]) /\ h \in Event
        /\ log'[p] = Append(log[p], f) /\ f \in Event
    BY <1>4, FiresIs, FiredIs DEF Fires
  <2>2. SeqRange(log'[p]) = SeqRange(log[p]) \cup {f}
    BY <1>1, <2>1, OfAppend
  <2>3. f.kind = "rsp" => f = h
    BY <2>1 DEF Fired, Ignored, Ev, Event
  <2> HIDE DEF h, f
  <2> QED BY <2>1, <2>2, <2>3 DEF Answers
<1>5. ASSUME NEW m \in Msg, Accepts(p, m)
      PROVE  Answers(p)' \subseteq Answers(p) \/ Answer(p, m)
  <2>1. log'[p] = log[p]
    BY <1>5 DEF Accepts
  <2>2. Waits(p, m) => Answers(p)' \subseteq Answers(p)
    BY <2>1 DEF Waits, Answers
  <2>3. ASSUME NEW kind \in {"rsp", "unexpected", "msg"}, Posts(p, m, kind)
        PROVE  Answers(p)' \subseteq Answers(p) \/ Answer(p, m)
    <3> DEFINE e == Ev(kind, m.id)
    <3>1. e \in Event /\ e.kind = kind /\ hq'[p] = Append(hq[p], e)
      BY <2>3 DEF Ev, Event, Msg, Posts
    <3>2. e = Ev(kind, m.id)
      OBVIOUS
    <3> HIDE DEF e
    <3>3. SeqRange(hq'[p]) = SeqRange(hq[p]) \cup {e}
      BY <1>1, <3>1, OfAppend
    <3>4. CASE kind = "rsp"
      <4>1. Answers(p)' \subseteq Answers(p) \cup {e}
        BY <2>1, <3>3 DEF Answers
      <4> QED BY <1>5, <3>1, <3>2, <3>4, <4>1 DEF Answer
    <3>5. CASE kind # "rsp"
      BY <2>1, <3>1, <3>3, <3>5 DEF Answers
    <3> QED BY <3>4, <3>5
  <2> QED BY <1>5, <2>2, <2>3 DEF Accepts
<1> QED BY <1>2, <1>3, <1>4, <1>5, MoveOfMessages

(* A response that is posted for its handler was expected, and a one-off   *)
(* expectation ends with it.                                               *)
LEMMA AnswerIsAsked ==
  ASSUME TypeInv, [Next]_vars, NEW p \in Peer, FlowOn(p), NEW m \in Msg, Answer(p, m)
  PROVE  m.orig \in rspOnce[p] \cup rspOpen[p] /\ m.orig \notin rspOnce'[p]
<1>1. /\ Accepts(p, m) /\ hq'[p] = Append(hq[p], Ev("rsp", m.id))
      /\ m.id = rcvNext[p] /\ rcvNext'[p] = rcvNext[p] + 1 /\ err'[p] = "ok"
  BY DEF Answer, Accepts
<1>2. /\ rcvNext[p] \in Nat \ {0} /\ hq[p] \in Seq(Event)
      /\ FlowOK(net[p], reasm[p], rcvNext[p], In(p))
      /\ m = In(p)[rcvNext[p]].msg
  BY <1>1, AcceptsTheSent DEF TypeInv, TypeOK, RcvTypes, FlowOn
<1>3. ASSUME NEW pipes, IsNextExpected(p, m, pipes)
      PROVE  m.orig \in rspOnce[p] \cup rspOpen[p] /\ m.orig \notin rspOnce'[p]
  <2>1. ASSUME NEW e \in Event, hq' = [hq EXCEPT ![p] = Append(@, e)]
        PROVE  e.kind = "rsp"
    <3> DEFINE f == Ev("rsp", m.id)
    <3>1. f \in Event /\ f.kind = "rsp"
      BY DEF Ev, Event, Msg
    <3>2. hq'[p] = Append(hq[p], f) /\ hq'[p] = Append(hq[p], e)
      BY <1>1, <2>1 DEF TypeInv, TypeOK
    <3> HIDE DEF f
    <3>3. \A g \in Event : Append(hq[p], g)[Len(hq[p]) + 1] = g
      BY <1>2, AppendProperties
    <3>4. f = e
      BY <2>1, <3>1, <3>2, <3>3
    <3> QED BY <3>1, <3>4
  <2>2. CASE DeliverResponse(p, m, pipes)
    BY <2>2 DEF DeliverResponse, IsResponseExpected, TypeInv, TypeOK, RspTypes
  <2>3. ~DeliverUnexpected(p, m, pipes) /\ ~DeliverExpected(p, m, pipes)
    <3>1. \A kind \in {"unexpected", "msg"} :
            Ev(kind, m.id) \in Event /\ Ev(kind, m.id).kind # "rsp"
      BY DEF Ev, Event, Msg
    <3>2. \A kind \in {"unexpected", "msg"} :
            hq' # [hq EXCEPT ![p] = Append(@, Ev(kind, m.id))]
      BY <2>1, <3>1
    <3> QED BY <3>2 DEF DeliverUnexpected, DeliverExpected
  <2>4. ~DeliverLater(p, m, pipes)
    <3>1. Ev("rsp", m.id) \in Event
      BY DEF Ev, Event, Msg
    <3>2. Len(hq'[p]) = Len(hq[p]) + 1 /\ Len(hq[p]) \in Nat
      BY <1>1, <1>2, <3>1, AppendProperties
    <3>3. hq'[p] # hq[p]
      BY <3>2
    <3> QED BY <3>3 DEF DeliverLater
  <2> QED BY <1>3, <2>2, <2>3, <2>4 DEF IsNextExpected
<1>4. ~Untouched(p)
  BY <1>1, <1>2 DEF Untouched, OwnRcv
<1>5. StepOf(p)
  BY <1>4, OtherUntouched, StepOfAPeer, UnchangedIsUntouched
<1>6. rcvNext' # rcvNext
  BY <1>1, <1>2
<1>7. \/ \E k \in Pipe : ReceiveNext(p, k)
      \/ \E x \in reasm[p] : Flush(p, x)
  <2>1. ~ApiStep(p)
    BY <1>6, ZenonT(60)
    DEF ApiStep, StartAndPoll, SendStep, Send, SendFails, SendAfterEnd,
        RequestRefused, EndSending, ExpectMsg, ExpectMsgs, UndoExpectMsgs,
        ExpectLogInRequest, UndoExpectResponses, SetHandler, UnsetHandler, rcvVars
  <2>2. ASSUME NEW k \in Pipe, ReadStep(p, k) \/ Break(p, k) PROVE ReceiveNext(p, k)
    <3>1. ~ReceiveBad(p, k)
      <4>1. ReceiveBad(p, k) => err'[p] = InMsgError(p, Head(net[p][k]))
        BY DEF ReceiveBad, NewError, TypeInv, TypeOK
      <4> QED BY <1>1, <4>1 DEF ReceiveBad
    <3> QED
      BY <1>6, <2>2, <3>1
      DEF ReadStep, ReceiveInternal, ReceiveEarly, ReadFails, ReadIgnored, Break, rcvVars
  <2>3. ~Fire(p)
    BY <1>6 DEF Fire, rcvVars
  <2> QED BY <1>5, <2>1, <2>2, <2>3 DEF StepOf, ThreadStep
<1>8. ASSUME NEW k \in Pipe, ReceiveNext(p, k)
      PROVE  m.orig \in rspOnce[p] \cup rspOpen[p] /\ m.orig \notin rspOnce'[p]
  <2> DEFINE x == Head(net[p][k])
  <2>1. net[p][k] # <<>> /\ x.id = rcvNext[p] /\ IsNextExpected(p, x, Rest(p, k))
    BY <1>8 DEF ReceiveNext, MsgAt
  <2>2. x = m
    BY <1>2, <2>1, HeadIsSent DEF IsSent
  <2> QED BY <1>3, <2>1, <2>2
<1>9. ASSUME NEW x \in reasm[p], Flush(p, x)
      PROVE  m.orig \in rspOnce[p] \cup rspOpen[p] /\ m.orig \notin rspOnce'[p]
  <2>1. x.id = rcvNext[p] /\ IsNextExpected(p, x, net[p])
    BY <1>9 DEF Flush
  <2>2. x = m
    BY <1>2, <2>1 DEF FlowOK, Sound, IsSent
  <2> QED BY <1>3, <2>1, <2>2
<1> QED BY <1>7, <1>8, <1>9

(* They answer a request that was made, and one that is one-off only once. *)
Fits(p, e, i) ==
  /\ sent[p][i].rsp # "none"
  /\ sent[p][i].rsp = "once" =>
       /\ i \notin rspOnce[p]
       /\ \A f \in Answers(p) : Request(p, f) = i => f = e

Answered(p) ==
  \A e \in Answers(p) :
    \/ Exempt(p, Request(p, e))
    \/ /\ Request(p, e) < sndNext[p]
       /\ \A i \in 1..Len(sent[p]) : Request(p, e) = i => Fits(p, e, i)

LEMMA RequestStays ==
  ASSUME TypeInv, [Next]_vars, NEW p \in Peer, FlowOn(p), Known(p), NEW e \in Answers(p)
  PROVE  Request(p, e)' = Request(p, e) /\ Request(p, e) \in Nat
<1>1. IsMsg(e) /\ e \in SeqRange(hq[p]) \cup SeqRange(log[p])
  BY DEF Answers, IsMsg, MsgKinds
<1>2. e.id \in 1..(rcvNext[p] - 1)
  BY <1>1, KnownIs
<1>3. e.id \in 1..Len(In(p)) /\ In(p)'[e.id] = In(p)[e.id]
  BY <1>2, AcceptedStays
<1>4. In(p) \in Seq(SentMsg)
  BY DEF FlowOn, FlowOK
<1>5. In(p)[e.id] \in SentMsg
  BY <1>3, <1>4, ElementOfSeq
<1> QED BY <1>3, <1>5 DEF Request, SentAs, In, SentMsg, Msg

(* What is asked later does not bear on what was answered.                 *)
LEMMA AskedLater ==
  ASSUME TypeInv, [Next]_vars, NEW p \in Peer, RspMove(p), Numbered(p)
  PROVE  /\ \A i \in 1..Len(sent'[p]) : i < sndNext[p] =>
              i \in 1..Len(sent[p]) /\ sent'[p][i] = sent[p][i]
         /\ \A i \in rspOnce'[p] : \/ i \in rspOnce[p] \/ Exempt(p, i)
                                   \/ i = sndNext[p]
         /\ sndNext[p] \in Nat /\ sndNext'[p] \in {sndNext[p], sndNext[p] + 1}
<1>1. /\ sent[p] \in Seq(SentMsg) /\ Len(sent[p]) \in Nat /\ sndNext[p] \in Nat
      /\ \A i \in 1..Len(sent[p]) : sent'[p][i] = sent[p][i]
  BY SentStays DEF TypeInv, TypeOK, SndTypes
<1>2. ASSUME NEW i \in 1..Len(sent'[p]), i < sndNext[p]
      PROVE  i \in 1..Len(sent[p]) /\ sent'[p][i] = sent[p][i]
  <2>1. CASE sent'[p] = sent[p]
    BY <1>2, <2>1
  <2>2. ASSUME NEW e \in SentMsg, sent'[p] = Append(sent[p], e), err[p] = "ok", ~ended[p]
        PROVE  i \in 1..Len(sent[p])
    <3>1. sndNext[p] = Len(sent[p]) + 1
      BY <2>2 DEF Numbered
    <3>2. Len(sent'[p]) = Len(sent[p]) + 1
      BY <1>1, <2>2, AppendProperties
    <3> QED BY <1>1, <1>2, <3>1, <3>2
  <2>3. \/ sent'[p] = sent[p]
        \/ \E e \in SentMsg : sent'[p] = Append(sent[p], e) /\ err[p] = "ok" /\ ~ended[p]
    BY DEF RspMove, Registers
  <2> QED BY <1>1, <2>1, <2>2, <2>3
<1>3. \A i \in rspOnce'[p] : i \in rspOnce[p] \/ Exempt(p, i) \/ i = sndNext[p]
  BY DEF RspMove, Registers
<1>4. sndNext'[p] \in {sndNext[p], sndNext[p] + 1}
  BY DEF RspMove, Registers
<1> QED BY <1>1, <1>2, <1>3, <1>4

LEMMA AnsweredNext ==
  ASSUME TypeInv, [Next]_vars, NEW p \in Peer, RspMove(p), UserMove(p), Numbered(p),
         Known(p), FlowOn(p), Registered(p), Answered(p)
  PROVE  Answered(p)'
<1>1. \A e \in Answers(p) : Request(p, e)' = Request(p, e) /\ Request(p, e) \in Nat
  BY RequestStays
<1>2. /\ \A i \in 1..Len(sent'[p]) : i < sndNext[p] =>
           i \in 1..Len(sent[p]) /\ sent'[p][i] = sent[p][i]
      /\ \A i \in rspOnce'[p] : i \in rspOnce[p] \/ Exempt(p, i) \/ i = sndNext[p]
      /\ sndNext[p] \in Nat /\ sndNext'[p] \in {sndNext[p], sndNext[p] + 1}
  BY AskedLater
<1>3. \A i \in Nat : i < sndNext[p] => i # sndNext[p] /\ i < sndNext'[p]
  BY <1>2
<1>4. ASSUME NEW e \in Answers(p), ~Exempt(p, Request(p, e)),
             NEW i \in 1..Len(sent'[p]), Request(p, e) = i
      PROVE  /\ i < sndNext[p] /\ i < sndNext'[p] /\ i \in 1..Len(sent[p])
             /\ Fits(p, e, i) /\ sent'[p][i] = sent[p][i]
             /\ sent[p][i].rsp = "once" => i \notin rspOnce'[p]
  <2>1. i < sndNext[p] /\ i \in Nat
    BY <1>1, <1>4 DEF Answered
  <2>2. i \in 1..Len(sent[p]) /\ sent'[p][i] = sent[p][i]
    BY <1>2, <2>1
  <2>3. Fits(p, e, i)
    BY <1>4, <2>2 DEF Answered
  <2>4. sent[p][i].rsp = "once" => i \notin rspOnce'[p]
    BY <1>2, <1>3, <1>4, <2>1, <2>3 DEF Fits
  <2> QED BY <1>3, <2>1, <2>2, <2>3, <2>4
<1>5. ASSUME NEW e \in Answers(p), ~Exempt(p, Request(p, e))
      PROVE  Request(p, e) < sndNext'[p]
  BY <1>1, <1>3, <1>5 DEF Answered
<1>6. CASE Answers(p)' \subseteq Answers(p)
  <2>1. ASSUME NEW e \in Answers(p)', ~Exempt(p, Request(p, e)),
               NEW i \in 1..Len(sent'[p]), Request(p, e) = i
        PROVE  Fits(p, e, i)'
    <3>1. \A f \in Answers(p)' : f \in Answers(p) /\ Request(p, f)' = Request(p, f)
      BY <1>1, <1>6
    <3>2. e \in Answers(p)
      BY <1>6
    <3> QED BY <1>4, <2>1, <3>1, <3>2 DEF Fits
  <2>2. \A e \in Answers(p)' : e \in Answers(p) /\ Request(p, e)' = Request(p, e)
    BY <1>1, <1>6
  <2> QED BY <1>5, <2>1, <2>2 DEF Answered, Exempt
<1>7. ASSUME NEW m \in Msg, Answer(p, m) PROVE Answered(p)'
  <2> DEFINE e0 == Ev("rsp", m.id)
             r0 == m.orig
  <2>1. /\ Answers(p)' \subseteq Answers(p) \cup {e0}
        /\ r0 \in rspOnce[p] \cup rspOpen[p] /\ r0 \notin rspOnce'[p] /\ r0 \in Nat
    BY <1>7, AnswerIsAsked DEF Answer, Msg
  <2>2. Request(p, e0)' = r0
    <3>1. /\ m.id = rcvNext[p] /\ rcvNext[p] \in 1..Len(In(p))
          /\ m = In(p)[rcvNext[p]].msg
      BY <1>7, AcceptsTheSent DEF Answer, Accepts
    <3>2. In(p)'[m.id] = In(p)[m.id]
      BY <3>1, SentStays, OtherPeer DEF In
    <3> QED BY <3>1, <3>2 DEF Request, SentAs, In, Ev
  <2>3. Exempt(p, r0) \/ r0 < sndNext[p]
    BY <2>1 DEF Registered
  <2>4. ASSUME ~Exempt(p, r0), r0 \in 1..Len(sent'[p])
        PROVE  /\ r0 \in 1..Len(sent[p]) /\ sent'[p][r0] = sent[p][r0]
               /\ sent[p][r0].rsp \in {"once", "open"}
               /\ sent[p][r0].rsp = "once" => r0 \in rspOnce[p]
    <3>1. r0 \in 1..Len(sent[p]) /\ sent'[p][r0] = sent[p][r0]
      BY <1>2, <2>3, <2>4
    <3> QED BY <2>1, <2>4, <3>1 DEF Registered
  <2> HIDE DEF e0, r0
  <2>5. ASSUME ~Exempt(p, r0), r0 \in 1..Len(sent'[p]), sent[p][r0].rsp = "once",
               NEW f \in Answers(p)
        PROVE  Request(p, f) # r0
    <3>1. r0 \in rspOnce[p] /\ r0 \in 1..Len(sent[p])
      BY <2>4, <2>5
    <3> QED BY <2>5, <3>1 DEF Answered, Fits
  <2>6. ASSUME NEW e \in Answers(p)', e # e0, ~Exempt(p, Request(p, e)')
        PROVE  /\ Request(p, e)' < sndNext'[p]
               /\ \A i \in 1..Len(sent'[p]) : Request(p, e)' = i => Fits(p, e, i)'
    <3>1. e \in Answers(p) /\ Request(p, e)' = Request(p, e)
      BY <1>1, <2>1, <2>6
    <3>2. ASSUME NEW i \in 1..Len(sent'[p]), Request(p, e)' = i PROVE Fits(p, e, i)'
      <4>1. /\ Fits(p, e, i) /\ sent'[p][i] = sent[p][i]
            /\ sent[p][i].rsp = "once" => i \notin rspOnce'[p]
        BY <1>4, <2>6, <3>1, <3>2
      <4>2. ASSUME sent[p][i].rsp = "once", NEW f \in Answers(p)', Request(p, f)' = i
            PROVE  f = e
        <5>1. f # e0
          BY <2>2, <2>5, <2>6, <3>1, <3>2, <4>2
        <5>2. f \in Answers(p) /\ Request(p, f) = i
          BY <1>1, <2>1, <4>2, <5>1
        <5> QED BY <4>1, <4>2, <5>2 DEF Fits
      <4> QED BY <4>1, <4>2 DEF Fits
    <3> QED BY <1>5, <2>6, <3>1, <3>2
  <2>7. ASSUME ~Exempt(p, r0)
        PROVE  /\ r0 < sndNext'[p]
               /\ \A i \in 1..Len(sent'[p]) : r0 = i => Fits(p, e0, i)'
    <3>1. r0 < sndNext'[p]
      BY <1>3, <2>1, <2>3, <2>7 DEF r0
    <3>2. ASSUME r0 \in 1..Len(sent'[p]) PROVE Fits(p, e0, r0)'
      <4>1. /\ sent'[p][r0] = sent[p][r0] /\ sent[p][r0].rsp # "none"
            /\ r0 \notin rspOnce'[p]
        BY <2>1, <2>4, <2>7, <3>2 DEF r0
      <4>2. ASSUME sent[p][r0].rsp = "once", NEW f \in Answers(p)', Request(p, f)' = r0
            PROVE  f = e0
        BY <1>1, <2>1, <2>5, <2>7, <3>2, <4>2
      <4> QED BY <4>1, <4>2 DEF Fits
    <3> QED BY <3>1, <3>2
  <2>8. ASSUME NEW e \in Answers(p)', ~Exempt(p, Request(p, e)')
        PROVE  /\ Request(p, e)' < sndNext'[p]
               /\ \A i \in 1..Len(sent'[p]) : Request(p, e)' = i => Fits(p, e, i)'
    BY <2>2, <2>6, <2>7, <2>8
  <2> QED BY <2>8 DEF Answered, Exempt
<1> QED BY <1>6, <1>7, AnswersMove

WantedInv ==
  OrderBase /\ \A p \in Peer : Registered(p) /\ Answered(p)

LEMMA WantedInvInit == Init => WantedInv
<1> SUFFICES ASSUME Init, NEW p \in Peer PROVE Registered(p) /\ Answered(p)
  BY OrderBaseInit DEF WantedInv
<1>1. rspOnce[p] = {} /\ rspOpen[p] = {} /\ sent[p] = <<>>
  BY DEF Init
<1>2. hq[p] = <<>> /\ log[p] = <<>>
  BY EmptyInit
<1>3. Registered(p)
  BY <1>1 DEF Registered
<1>4. Answers(p) = {}
  BY <1>2, OfEmpty DEF Answers
<1> QED BY <1>3, <1>4 DEF Answered

LEMMA WantedInvNext == WantedInv /\ [Next]_vars => WantedInv'
<1> SUFFICES ASSUME WantedInv, [Next]_vars PROVE WantedInv'
  OBVIOUS
<1>1. OrderBase /\ OrderBase'
  BY OrderBaseNext DEF WantedInv
<1>2. /\ TypeInv /\ FlushIsGood /\ Authentic
      /\ \A p \in Peer : Known(p) /\ Numbered(p) /\ FlowOn(p)
  BY <1>1, OrderBaseParts DEF OrderBase, BlameBase
<1>3. ASSUME NEW p \in Peer PROVE Registered(p)' /\ Answered(p)'
  <2>1. RspMove(p) /\ UserMove(p)
    BY <1>2, RspMoveNext, UserMoveNext
  <2>2. Registered(p) /\ Answered(p)
    BY DEF WantedInv
  <2> QED BY <1>2, <2>1, <2>2, RegisteredNext, AnsweredNext
<1> QED BY <1>1, <1>3 DEF WantedInv

(* What ResponsesWanted says of one request.                               *)
RspsAt(p, o, s) == {n \in 1..Len(s) : s[n].kind = "rsp" /\ SentAs(p, s[n]).orig = o}

ResponsesTo(p, o) ==
  LET n == Cardinality(RspsAt(p, o, hq[p])) + Cardinality(RspsAt(p, o, log[p]))
  IN  CASE sent[p][o].rsp = "none" -> n = 0
        [] sent[p][o].rsp = "once" -> n <= 1
        [] sent[p][o].rsp = "open" -> TRUE

LEMMA CountOf ==
  /\ \A S : S = {} => Cardinality(S) = 0
  /\ \A S : (\A n, m \in S : n = m) => Cardinality(S) \in {0, 1}
<1>1. \A S : S = {} => Cardinality(S) = 0
  BY FS_EmptySet
<1>2. ASSUME NEW S, \A n, m \in S : n = m PROVE Cardinality(S) \in {0, 1}
  <2>1. CASE S = {}
    BY <1>1, <2>1
  <2>2. ASSUME NEW n \in S PROVE Cardinality(S) \in {0, 1}
    <3>1. S = {n}
      BY <1>2
    <3>2. Cardinality({n}) = 1
      BY FS_Singleton
    <3> QED BY <3>1, <3>2
  <2> QED BY <2>1, <2>2
<1> QED BY <1>1, <1>2

LEMMA ResponsesToRequest ==
  ASSUME WantedInv, NEW p \in Peer, NEW o \in 1..Len(sent[p]), ~Exempt(p, o)
  PROVE  ResponsesTo(p, o)
<1> DEFINE H == RspsAt(p, o, hq[p])
           L == RspsAt(p, o, log[p])
<1>1. TypeInv /\ Sorted(p) /\ Answered(p)
  BY OrderBaseParts DEF WantedInv
<1>2. /\ sent[p] \in Seq(SentMsg)
      /\ hq[p] \in Seq(Event) /\ Len(hq[p]) \in Nat
      /\ log[p] \in Seq(Event) /\ Len(log[p]) \in Nat
  BY <1>1 DEF TypeInv, TypeOK, SndTypes, UserTypes
<1>3. sent[p][o].rsp \in {"none", "once", "open"}
  <2>1. sent[p][o] \in SentMsg
    BY <1>2, ElementOfSeq
  <2> QED BY <2>1 DEF SentMsg, RspApi
<1>4. ASSUME NEW e \in Answers(p), Request(p, e) = o PROVE Fits(p, e, o)
  BY <1>1, <1>4 DEF Answered
<1>5. /\ \A n \in H : hq[p][n] \in Answers(p) /\ Request(p, hq[p][n]) = o
      /\ \A n \in L : log[p][n] \in Answers(p) /\ Request(p, log[p][n]) = o
  BY DEF RspsAt, Answers, Request, SeqRange
<1>6. CASE sent[p][o].rsp = "none"
  <2>1. H = {} /\ L = {}
    BY <1>4, <1>5, <1>6 DEF Fits
  <2>2. Cardinality(H) = 0 /\ Cardinality(L) = 0
    BY <2>1, CountOf
  <2> HIDE DEF H, L
  <2>3. Cardinality(H) + Cardinality(L) = 0
    BY <2>2
  <2> QED BY <1>6, <2>3 DEF ResponsesTo, H, L
<1>7. CASE sent[p][o].rsp = "once"
  <2>1. \A e, f \in Answers(p) : Request(p, e) = o /\ Request(p, f) = o => e = f
    BY <1>4, <1>7 DEF Fits
  <2>2. ASSUME NEW e \in Event, e.kind = "rsp" PROVE <<e, e>> \notin RspRising
    <3>1. IsRsp(e) /\ e.id \in Nat
      BY <2>2 DEF IsRsp, MsgKinds, Event
    <3>2. ~(e.id < e.id)
      BY <3>1
    <3> QED BY <3>1, <3>2, Relations
  <2>3. \A e \in Answers(p) : e \in Event /\ e.kind = "rsp"
    BY <1>2, ElementOfSeq DEF Answers, SeqRange
  <2>4. \A e \in Answers(p) : <<e, e>> \notin RspRising
    BY <2>2, <2>3
  <2>5. ASSUME NEW s \in {hq[p], log[p]}, Pairwise(s, RspRising), Len(s) \in Nat,
               NEW n \in 1..Len(s), NEW m \in 1..Len(s), s[n] = s[m], s[n] \in Answers(p)
        PROVE  n = m
    <3>1. <<s[n], s[n]>> \notin RspRising
      BY <2>4, <2>5
    <3>2. (n < m => <<s[n], s[m]>> \in RspRising) /\ (m < n => <<s[m], s[n]>> \in RspRising)
      BY <2>5 DEF Pairwise
    <3>3. ~(n < m) /\ ~(m < n)
      BY <2>5, <3>1, <3>2
    <3> QED BY <2>5, <3>3
  <2>6. Pairwise(log[p], RspRising) /\ Cross(log[p], hq[p], RspRising)
    BY <1>1 DEF Sorted
  <2>7. Pairwise(hq[p], RspRising)
    <3>1. \A e, f \in Event : <<e, f>> \in Rising => <<e, f>> \in RspRising
      BY Relations DEF IsMsg, IsRsp, MsgKinds
    <3>2. \A n \in 1..Len(hq[p]) : hq[p][n] \in Event
      BY <1>2, ElementOfSeq
    <3> QED BY <1>1, <3>1, <3>2 DEF Sorted, Pairwise
  <2>8. \A n, m \in H : n = m
    <3>1. \A n \in H : n \in 1..Len(hq[p])
      BY DEF RspsAt
    <3> QED BY <1>2, <1>5, <2>1, <2>5, <2>7, <3>1
  <2>9. \A n, m \in L : n = m
    <3>1. \A n \in L : n \in 1..Len(log[p])
      BY DEF RspsAt
    <3> QED BY <1>2, <1>5, <2>1, <2>5, <2>6, <3>1
  <2>10. H = {} \/ L = {}
    <3> SUFFICES ASSUME NEW n \in H, NEW m \in L PROVE FALSE
      OBVIOUS
    <3>1. hq[p][n] = log[p][m] /\ hq[p][n] \in Answers(p)
      BY <1>5, <2>1
    <3>2. hq[p][n] \in SeqRange(hq[p]) /\ log[p][m] \in SeqRange(log[p])
      BY DEF RspsAt, SeqRange
    <3>3. <<log[p][m], hq[p][n]>> \in RspRising
      BY <2>6, <3>2 DEF Cross
    <3> QED BY <2>4, <3>1, <3>3
  <2>11. /\ Cardinality(H) \in {0, 1} /\ Cardinality(L) \in {0, 1}
         /\ Cardinality(H) = 0 \/ Cardinality(L) = 0
    BY <2>8, <2>9, <2>10, CountOf
  <2> HIDE DEF H, L
  <2>12. Cardinality(H) + Cardinality(L) <= 1
    BY <2>11
  <2> QED BY <1>7, <2>12 DEF ResponsesTo, H, L
<1>8. CASE sent[p][o].rsp = "open"
  BY <1>8 DEF ResponsesTo
<1> QED BY <1>3, <1>6, <1>7, <1>8

(* On any channel, the responses of a request go to the handler that       *)
(* expects them, and to a one-off handler at most one does; only to the    *)
(* first message of a server that may make a request before it is logged   *)
(* in does this not apply.                                                 *)
THEOREM ResponsesWantedButOne ==
  Spec => [](\A p \in Peer : \A o \in 1..Len(sent[p]) : Exempt(p, o) \/ ResponsesTo(p, o))
<1>1. WantedInv =>
        \A p \in Peer : \A o \in 1..Len(sent[p]) : Exempt(p, o) \/ ResponsesTo(p, o)
  BY ResponsesToRequest
<1> QED BY <1>1, WantedInvInit, WantedInvNext, PTL DEF Spec

(* So where no server makes a request in log-in, no handler is run that    *)
(* was not asked for, and none too often.                                  *)
THEOREM ResponsesWantedAlways == NoEarlyRequest => (Spec => []ResponsesWanted)
<1>1. ASSUME NoEarlyRequest, WantedInv PROVE ResponsesWanted
  <2>1. \A p \in Peer : \A o \in 1..Len(sent[p]) : ResponsesTo(p, o)
    BY <1>1, ResponsesToRequest DEF Exempt
  <2> QED BY <2>1 DEF ResponsesTo, RspsAt, ResponsesWanted
<1> SUFFICES ASSUME NoEarlyRequest PROVE Spec => []ResponsesWanted
  OBVIOUS
<1>2. WantedInv => ResponsesWanted
  BY <1>1
<1> QED BY <1>2, WantedInvInit, WantedInvNext, PTL DEF Spec

=============================================================================
