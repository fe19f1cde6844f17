------------------------- MODULE StructOrder_proofs -------------------------
(***************************************************************************)
(* Proofs, for every number of messages, of union values and of tokens, of *)
(* what StructChannelProps states of the order in which a user is handed   *)
(* messages, and that none is lost or handed over twice; and that the pair *)
(* of channels implements OrderedPipe.                                     *)
(***************************************************************************)
EXTENDS StructFlow_proofs, FiniteSetTheorems

-----------------------------------------------------------------------------
(* What is in a sequence, and what holds of each two of its elements in    *)
(* the order they are in.                                                  *)
Pairwise(s, R) == \A n, m \in 1..Len(s) : n < m => <<s[n], s[m]>> \in R
Cross(s, t, R) == \A e \in SeqRange(s), f \in SeqRange(t) : <<e, f>> \in R

LEMMA OfEmpty == \A R : SeqRange(<<>>) = {} /\ Pairwise(<<>>, R)
BY DEF SeqRange, Pairwise

LEMMA OfAppend ==
  ASSUME NEW S, NEW s \in Seq(S), NEW e \in S
  PROVE  /\ SeqRange(Append(s, e)) = SeqRange(s) \cup {e}
         /\ \A R : Pairwise(s, R) /\ (\A f \in SeqRange(s) : <<f, e>> \in R)
                     => Pairwise(Append(s, e), R)
<1> DEFINE t == Append(s, e)
<1>1. /\ Len(t) = Len(s) + 1 /\ Len(s) \in Nat /\ t[Len(s) + 1] = e
      /\ \A n \in 1..Len(s) : t[n] = s[n]
  BY AppendProperties
<1> HIDE DEF t
<1>2. SeqRange(t) = SeqRange(s) \cup {e}
  BY <1>1 DEF SeqRange
<1>3. ASSUME NEW R, Pairwise(s, R), \A f \in SeqRange(s) : <<f, e>> \in R
      PROVE  Pairwise(t, R)
  BY <1>1, <1>3 DEF Pairwise, SeqRange
<1> QED BY <1>2, <1>3 DEF t

LEMMA OfTail ==
  ASSUME NEW S, NEW s \in Seq(S), s # <<>>
  PROVE  /\ Head(s) \in S /\ Tail(s) \in Seq(S)
         /\ SeqRange(s) = {Head(s)} \cup SeqRange(Tail(s))
         /\ \A R : Pairwise(s, R) =>
              /\ Pairwise(Tail(s), R)
              /\ \A f \in SeqRange(Tail(s)) : <<Head(s), f>> \in R
<1> DEFINE t == Tail(s)
<1>1. /\ t \in Seq(S) /\ Len(s) \in Nat /\ Len(s) # 0 /\ Len(t) = Len(s) - 1
      /\ Head(s) = s[1] /\ Head(s) \in S
      /\ \A n \in 1..Len(t) : t[n] = s[n + 1]
  BY HeadTailProperties, EmptySeq
<1> HIDE DEF t
<1>2. SeqRange(s) = {Head(s)} \cup SeqRange(t)
  <2>1. ASSUME NEW n \in 1..Len(s) PROVE s[n] = Head(s) \/ s[n] \in SeqRange(t)
    <3>1. CASE n = 1
      BY <1>1, <3>1
    <3>2. CASE n # 1
      <4>1. n - 1 \in 1..Len(t) /\ (n - 1) + 1 = n
        BY <1>1, <3>2
      <4> QED BY <1>1, <4>1 DEF SeqRange
    <3> QED BY <3>1, <3>2
  <2>2. ASSUME NEW n \in 1..Len(t) PROVE t[n] \in SeqRange(s)
    <3>1. n + 1 \in 1..Len(s) /\ t[n] = s[n + 1]
      BY <1>1
    <3> QED BY <3>1 DEF SeqRange
  <2>3. Head(s) \in SeqRange(s)
    <3>1. 1 \in 1..Len(s)
      BY <1>1
    <3> QED BY <1>1, <3>1 DEF SeqRange
  <2> QED BY <2>1, <2>2, <2>3 DEF SeqRange
<1>3. ASSUME NEW R, Pairwise(s, R)
      PROVE  Pairwise(t, R) /\ \A f \in SeqRange(t) : <<Head(s), f>> \in R
  BY <1>1, <1>3 DEF Pairwise, SeqRange
<1> QED BY <1>1, <1>2, <1>3 DEF t

LEMMA OfConcat ==
  ASSUME NEW S, NEW s \in Seq(S), NEW t \in Seq(S)
  PROVE  /\ SeqRange(s \o t) = SeqRange(s) \cup SeqRange(t)
         /\ \A R : Pairwise(s, R) /\ Pairwise(t, R) /\ Cross(s, t, R)
                     => Pairwise(s \o t, R)
<1> DEFINE u == s \o t
<1>1. /\ Len(s) \in Nat /\ Len(t) \in Nat /\ Len(u) = Len(s) + Len(t)
      /\ \A i \in 1..Len(s) : u[i] = s[i]
      /\ \A j \in 1..Len(t) : u[Len(s) + j] = t[j]
  BY ConcatIs
<1> HIDE DEF u
<1>2. ASSUME NEW i \in 1..Len(u)
      PROVE  \/ i \in 1..Len(s) /\ u[i] = s[i]
             \/ i - Len(s) \in 1..Len(t) /\ u[i] = t[i - Len(s)]
  <2>1. CASE i <= Len(s)
    BY <1>1, <2>1
  <2>2. CASE i > Len(s)
    <3>1. i - Len(s) \in 1..Len(t) /\ Len(s) + (i - Len(s)) = i
      BY <1>1, <2>2
    <3> QED BY <1>1, <3>1
  <2> QED BY <1>1, <2>1, <2>2
<1>3. SeqRange(u) = SeqRange(s) \cup SeqRange(t)
  <2>1. ASSUME NEW j \in 1..Len(t) PROVE t[j] \in SeqRange(u)
    <3>1. Len(s) + j \in 1..Len(u)
      BY <1>1
    <3> QED BY <1>1, <3>1 DEF SeqRange
  <2>2. ASSUME NEW j \in 1..Len(s) PROVE s[j] \in SeqRange(u)
    <3>1. j \in 1..Len(u)
      BY <1>1
    <3> QED BY <1>1, <3>1 DEF SeqRange
  <2> QED BY <1>2, <2>1, <2>2 DEF SeqRange
<1>4. ASSUME NEW R, Pairwise(s, R), Pairwise(t, R), Cross(s, t, R),
             NEW i \in 1..Len(u), NEW j \in 1..Len(u), i < j
      PROVE  <<u[i], u[j]>> \in R
  <2>1. CASE j \in 1..Len(s)
    BY <1>1, <1>4, <2>1 DEF Pairwise
  <2>2. CASE i \in 1..Len(s) /\ j \notin 1..Len(s)
    BY <1>1, <1>2, <1>4, <2>2 DEF Cross, SeqRange
  <2>3. CASE i \notin 1..Len(s) /\ j \notin 1..Len(s)
    <3>1. i - Len(s) < j - Len(s)
      BY <1>1, <1>4
    <3> QED BY <1>2, <1>4, <2>3, <3>1 DEF Pairwise
  <2> QED BY <1>1, <1>4, <2>1, <2>2, <2>3
<1>5. ASSUME NEW R, Pairwise(s, R), Pairwise(t, R), Cross(s, t, R)
      PROVE  Pairwise(u, R)
  BY <1>4, <1>5 DEF Pairwise
<1> QED BY <1>3, <1>5 DEF u

LEMMA OfEvents ==
  ASSUME NEW ids \in Seq(Nat)
  PROVE  /\ Events(ids) \in Seq(Event)
         /\ SeqRange(Events(ids)) = {Ev("msg", i) : i \in SeqRange(ids)}
         /\ SeqRange(ids) \subseteq Nat
<1>1. /\ Events(ids) \in Seq(Event) /\ Len(Events(ids)) = Len(ids)
      /\ \A i \in 1..Len(ids) : Events(ids)[i] = Ev("msg", ids[i])
  BY EventsOfIds
<1>2. \A i \in 1..Len(ids) : ids[i] \in Nat
  BY ElementOfSeq
<1> QED BY <1>1, <1>2 DEF SeqRange

LEMMA OfEventIds ==
  ASSUME NEW ids \in Seq(Nat), NEW R, NEW Q, Pairwise(ids, Q),
         \A i, j \in Nat : <<i, j>> \in Q => <<Ev("msg", i), Ev("msg", j)>> \in R
  PROVE  Pairwise(Events(ids), R)
<1>1. /\ Len(Events(ids)) = Len(ids)
      /\ \A i \in 1..Len(ids) : Events(ids)[i] = Ev("msg", ids[i])
  BY EventsOfIds
<1>2. \A i \in 1..Len(ids) : ids[i] \in Nat
  BY ElementOfSeq
<1> QED BY <1>1, <1>2 DEF Pairwise

-----------------------------------------------------------------------------
(* Each two in-messages among events rise: in-messages at all, responses   *)
(* only, or merely differ; IDs rise.                                       *)
IsMsg(e) == e.kind \in MsgKinds
IsRsp(e) == e.kind \in MsgKinds \ {"msg"}

Rising    == {r \in Event \X Event : IsMsg(r[1]) /\ IsMsg(r[2]) => r[1].id < r[2].id}
RspRising == {r \in Event \X Event : IsRsp(r[1]) /\ IsRsp(r[2]) => r[1].id < r[2].id}
Distinct  == {r \in Event \X Event : IsMsg(r[1]) /\ IsMsg(r[2]) => r[1].id # r[2].id}
IdRising  == {r \in Nat \X Nat : r[1] < r[2]}

LEMMA Relations ==
  /\ \A e, f \in Event :
       /\ <<e, f>> \in Rising <=> (IsMsg(e) /\ IsMsg(f) => e.id < f.id)
       /\ <<e, f>> \in RspRising <=> (IsRsp(e) /\ IsRsp(f) => e.id < f.id)
       /\ <<e, f>> \in Distinct <=> (IsMsg(e) /\ IsMsg(f) => e.id # f.id)
  /\ \A i, j \in Nat : <<i, j>> \in IdRising <=> i < j
BY DEF Rising, RspRising, Distinct, IdRising

(* A step of a peer's thread, by what becomes of the in-messages it has:   *)
(* nothing (but an error, or a notice from the other peer, may be posted   *)
(* or told), some are returned by a call, one is accepted, one is handed   *)
(* over by its handler.                                                    *)
Says(s, t) == \/ t = s
              \/ \E e \in Event : ~IsMsg(e) /\ t = Append(s, e)

Idles(p) ==
  /\ Says(hq[p], hq'[p]) /\ Says(log[p], log'[p])
  /\ UNCHANGED <<pending[p], qdMsgs[p]>>
  /\ \/ rcvNext'[p] = rcvNext[p]
     \/ rcvNext'[p] = rcvNext[p] + 1 /\ err[p] = "ok" /\ err'[p] # "ok"
  /\ err'[p] = "ok" => err[p] = "ok"

LEMMA MoveOfMessages ==
  ASSUME NEW p \in Peer, UserMove(p)
  PROVE  \/ Idles(p)
         \/ \E w \in Which, ids \in Seq(Nat) : Returns(p, w, ids)
         \/ \E m \in Msg : Accepts(p, m)
         \/ Fires(p)
<1>1. CASE Still(p)
  BY <1>1 DEF Still, Idles, Says
<1>2. CASE SendErrs(p)
  <2>1. Ev("send_error", 0) \in Event /\ ~IsMsg(Ev("send_error", 0))
    BY DEF Ev, Event, IsMsg, MsgKinds
  <2> QED BY <1>2, <2>1 DEF SendErrs, Idles, Says
<1>3. CASE Hosed(p)
  <2>1. Ev("on_error", 0) \in Event /\ ~IsMsg(Ev("on_error", 0))
    BY DEF Ev, Event, IsMsg, MsgKinds
  <2>2. /\ err[p] = "ok" /\ err'[p] # "ok"
        /\ hq'[p] = Append(hq[p], Ev("on_error", 0))
        /\ rcvNext'[p] = rcvNext[p] \/ rcvNext'[p] = rcvNext[p] + 1
        /\ UNCHANGED <<log[p], pending[p], qdMsgs[p]>>
    BY <1>3 DEF Hosed
  <2> HIDE DEF Ev
  <2> QED BY <2>1, <2>2 DEF Idles, Says
<1>4. CASE Informed(p)
  <2>1. PICK m \in Msg : hq'[p] = Append(hq[p], Ev("remote_unexpected", m.orig))
    BY <1>4 DEF Informed
  <2> DEFINE e == Ev("remote_unexpected", m.orig)
  <2>2. e \in Event /\ ~IsMsg(e)
    BY DEF Ev, Event, IsMsg, MsgKinds, Msg
  <2>3. hq'[p] = Append(hq[p], e)
    BY <2>1
  <2>4. UNCHANGED <<err[p], log[p], pending[p], rcvNext[p], qdMsgs[p]>>
    BY <1>4 DEF Informed
  <2> HIDE DEF e
  <2> QED BY <2>2, <2>3, <2>4 DEF Idles, Says
<1>5. CASE Keeps(p)
  BY <1>5 DEF Keeps, Idles, Says
<1> QED BY <1>1, <1>2, <1>3, <1>4, <1>5 DEF UserMove

(* What a peer has in hand, by what is in it.                              *)
LEMMA KnownIs ==
  ASSUME TypeInv, NEW p \in Peer, Known(p)
  PROVE  /\ rcvNext[p] \in Nat \ {0}
         /\ hq[p] \in Seq(Event) /\ log[p] \in Seq(Event)
         /\ SeqRange(hq[p]) \subseteq Event /\ SeqRange(log[p]) \subseteq Event
         /\ \A e \in SeqRange(hq[p]) \cup SeqRange(log[p]) :
              IsMsg(e) => e.id \in 1..(rcvNext[p] - 1)
         /\ \A w \in Which :
              /\ pending[p][w] \in Seq(Nat)
              /\ \A i \in SeqRange(pending[p][w]) : i \in 1..(rcvNext[p] - 1)
<1>1. /\ rcvNext[p] \in Nat \ {0} /\ hq[p] \in Seq(Event) /\ log[p] \in Seq(Event)
      /\ \A w \in Which : pending[p][w] \in Seq(Nat)
  BY DEF TypeInv, TypeOK, RcvTypes, UserTypes, ExpTypes
<1>2. SeqRange(hq[p]) \subseteq Event /\ SeqRange(log[p]) \subseteq Event
  BY <1>1, ElementOfSeq DEF SeqRange
<1>3. \A e \in SeqRange(hq[p]) \cup SeqRange(log[p]) :
        IsMsg(e) => e.id \in 1..(rcvNext[p] - 1)
  BY DEF SeqRange, Known, EventsBelow, IsMsg
<1>4. \A w \in Which : \A i \in SeqRange(pending[p][w]) : i \in 1..(rcvNext[p] - 1)
  BY DEF SeqRange, Known, IdsBelow
<1> QED BY <1>1, <1>2, <1>3, <1>4

LEMMA FiredIs ==
  ASSUME NEW p, NEW e \in Event
  PROVE  /\ Fired(p, e) \in Event /\ Fired(p, e).id = e.id
         /\ IsMsg(Fired(p, e)) <=> IsMsg(e)
         /\ IsRsp(Fired(p, e)) <=> IsRsp(e)
BY DEF Fired, Ignored, Ev, Event, IsMsg, IsRsp, MsgKinds

-----------------------------------------------------------------------------
(* Handlers are posted, and messages wait, in the order the messages were  *)
(* sent in; so are the responses that were handed over.                    *)
Sorted(p) ==
  /\ Pairwise(hq[p], Rising)
  /\ \A w \in Which : Pairwise(pending[p][w], IdRising)
  /\ Pairwise(log[p], RspRising) /\ Cross(log[p], hq[p], RspRising)

LEMMA SaysKeeps ==
  ASSUME NEW s \in Seq(Event), NEW t, Says(s, t)
  PROVE  /\ t \in Seq(Event) /\ SeqRange(s) \subseteq Event /\ SeqRange(t) \subseteq Event
         /\ {e \in SeqRange(t) : IsMsg(e)} = {e \in SeqRange(s) : IsMsg(e)}
         /\ Pairwise(s, Rising) => Pairwise(t, Rising)
         /\ Pairwise(s, RspRising) => Pairwise(t, RspRising)
         /\ Pairwise(s, Distinct) => Pairwise(t, Distinct)
<1>1. SeqRange(s) \subseteq Event
  BY ElementOfSeq DEF SeqRange
<1>2. CASE t = s
  BY <1>1, <1>2
<1>3. ASSUME NEW e \in Event, ~IsMsg(e), t = Append(s, e)
      PROVE  /\ t \in Seq(Event) /\ SeqRange(t) = SeqRange(s) \cup {e}
             /\ Pairwise(s, Rising) => Pairwise(t, Rising)
             /\ Pairwise(s, RspRising) => Pairwise(t, RspRising)
             /\ Pairwise(s, Distinct) => Pairwise(t, Distinct)
  <2>1. \A f \in SeqRange(s) : /\ <<f, e>> \in Rising /\ <<f, e>> \in RspRising
                               /\ <<f, e>> \in Distinct
    BY <1>1, <1>3, Relations DEF IsMsg, IsRsp
  <2> QED BY <1>3, <2>1, OfAppend
<1>4. CASE t # s
  <2>1. PICK e \in Event : ~IsMsg(e) /\ t = Append(s, e)
    BY <1>4 DEF Says
  <2> QED BY <1>1, <1>3, <2>1
<1> QED BY <1>2, <1>4

LEMMA CrossSays ==
  ASSUME NEW s \in Seq(Event), NEW t \in Seq(Event), NEW u, NEW v,
         Says(s, u), Says(t, v), Cross(s, t, RspRising)
  PROVE  Cross(u, v, RspRising)
<1>1. /\ SeqRange(u) \subseteq Event /\ SeqRange(v) \subseteq Event
      /\ {e \in SeqRange(u) : IsMsg(e)} = {e \in SeqRange(s) : IsMsg(e)}
      /\ {e \in SeqRange(v) : IsMsg(e)} = {e \in SeqRange(t) : IsMsg(e)}
  BY SaysKeeps
<1>2. \A e \in Event : IsRsp(e) => IsMsg(e)
  BY DEF IsRsp, IsMsg
<1>3. ASSUME NEW e \in SeqRange(u), NEW f \in SeqRange(v), IsRsp(e), IsRsp(f)
      PROVE  <<e, f>> \in RspRising
  BY <1>1, <1>2, <1>3 DEF Cross
<1> QED BY <1>1, <1>3, Relations DEF Cross
(* What one accepted message, the returns of a call, and a handler that is *)
(* run do to what p has in hand.                                           *)
LEMMA AcceptsIs ==
  ASSUME TypeInv, NEW p \in Peer, Known(p), NEW m \in Msg, Accepts(p, m)
  PROVE  /\ m.id = rcvNext[p] /\ log'[p] = log[p] /\ err'[p] = err[p] /\ err[p] = "ok"
         /\ qdMsgs'[p] = qdMsgs[p] /\ rcvNext'[p] = rcvNext[p] + 1
         /\ \/ /\ m.orig = 0 /\ hq'[p] = hq[p]
               /\ m.which \in Which \ (msgOnce[p] \cup msgOpen[p])
               /\ pending'[p] = [pending[p] EXCEPT ![m.which] =
                                   Append(pending[p][m.which], rcvNext[p])]
            \/ /\ pending'[p] = pending[p]
               /\ \E e \in Event :
                    /\ IsMsg(e) /\ e.id = rcvNext[p] /\ hq'[p] = Append(hq[p], e)
                    /\ IsRsp(e) <=> m.orig # 0
                    /\ ~IsRsp(e) => m.which \in msgOnce[p] \cup msgOpen[p]
<1>1. /\ m.id = rcvNext[p] /\ log'[p] = log[p] /\ err'[p] = err[p] /\ err[p] = "ok"
      /\ qdMsgs'[p] = qdMsgs[p] /\ rcvNext'[p] = rcvNext[p] + 1
  BY DEF Accepts
<1>2. CASE Waits(p, m)
  <2>1. m.which \in Which
    BY DEF Msg
  <2>2. pending[p] \in [Which -> Seq(Nat)]
    BY DEF TypeInv, TypeOK, ExpTypes
  <2>3. pending'[p] = [pending[p] EXCEPT ![m.which] =
                         Append(pending[p][m.which], rcvNext[p])]
    BY <1>1, <1>2, <2>1, <2>2 DEF Waits
  <2> QED BY <1>1, <1>2, <2>1, <2>3 DEF Waits
<1>3. ASSUME NEW kind \in {"rsp", "unexpected", "msg"}, Posts(p, m, kind)
      PROVE  /\ pending'[p] = pending[p]
             /\ \E e \in Event :
                  /\ IsMsg(e) /\ e.id = rcvNext[p] /\ hq'[p] = Append(hq[p], e)
                  /\ IsRsp(e) <=> m.orig # 0
                  /\ ~IsRsp(e) => m.which \in msgOnce[p] \cup msgOpen[p]
  <2> DEFINE e == Ev(kind, m.id)
  <2>1. e \in Event /\ e.id = rcvNext[p] /\ e.kind = kind
    BY <1>1 DEF Ev, Event, Msg
  <2>2. /\ pending'[p] = pending[p] /\ hq'[p] = Append(hq[p], e)
        /\ kind # "msg" => m.orig # 0
        /\ kind = "msg" => m.orig = 0 /\ m.which \in msgOnce[p] \cup msgOpen[p]
    BY <1>3 DEF Posts
  <2>3. IsMsg(e) /\ (IsRsp(e) <=> kind # "msg")
    BY <2>1 DEF IsMsg, IsRsp, MsgKinds
  <2> HIDE DEF e
  <2>4. IsRsp(e) <=> m.orig # 0
    BY <2>2, <2>3
  <2>5. ~IsRsp(e) => m.which \in msgOnce[p] \cup msgOpen[p]
    BY <2>2, <2>3
  <2> QED BY <2>1, <2>2, <2>3, <2>4, <2>5
<1> QED BY <1>1, <1>2, <1>3 DEF Accepts

LEMMA FiresIs ==
  ASSUME TypeInv, NEW p \in Peer, Fires(p)
  PROVE  /\ hq[p] \in Seq(Event) /\ hq[p] # <<>> /\ Head(hq[p]) \in Event
         /\ log[p] \in Seq(Event) /\ Tail(hq[p]) \in Seq(Event)
         /\ SeqRange(hq[p]) = {Head(hq[p])} \cup SeqRange(Tail(hq[p]))
         /\ hq'[p] = Tail(hq[p])
         /\ \E f \in Event :
              /\ log'[p] = Append(log[p], f)
              /\ f.id = Head(hq[p]).id
              /\ IsMsg(f) <=> IsMsg(Head(hq[p]))
              /\ IsRsp(f) <=> IsRsp(Head(hq[p]))
         /\ UNCHANGED <<err[p], pending[p], rcvNext[p], qdMsgs[p]>>
<1>1. hq[p] \in Seq(Event) /\ log[p] \in Seq(Event) /\ hq[p] # <<>>
  BY DEF TypeInv, TypeOK, UserTypes, Fires, PostedIsThere
<1>2. /\ Head(hq[p]) \in Event /\ Tail(hq[p]) \in Seq(Event)
      /\ SeqRange(hq[p]) = {Head(hq[p])} \cup SeqRange(Tail(hq[p]))
  BY <1>1, OfTail
<1>3. /\ log'[p] = Append(log[p], Fired(p, Head(hq[p])))
      /\ hq'[p] = Tail(hq[p])
      /\ UNCHANGED <<err[p], pending[p], rcvNext[p], qdMsgs[p]>>
  BY DEF Fires
<1> DEFINE f == Fired(p, Head(hq[p]))
<1>4. /\ f \in Event /\ f.id = Head(hq[p]).id
      /\ IsMsg(f) <=> IsMsg(Head(hq[p]))
      /\ IsRsp(f) <=> IsRsp(Head(hq[p]))
  BY <1>2, FiredIs
<1>5. log'[p] = Append(log[p], f)
  BY <1>3
<1> HIDE DEF f
<1> QED BY <1>1, <1>2, <1>3, <1>4, <1>5

(* A call returns ids of those waiting and leaves the rest.                *)
TakesFrom(p, w, ids, rest) ==
  /\ pending'[p] = [pending[p] EXCEPT ![w] = rest]
  /\ \/ rest = <<>> /\ (KeepsList \/ ids = pending[p][w])
     \/ /\ pending[p][w] # <<>> /\ rest = Tail(pending[p][w])
        /\ ids = <<Head(pending[p][w])>>

LEMMA ReturnsIs ==
  ASSUME TypeInv, NEW p \in Peer, NEW w \in Which, NEW ids \in Seq(Nat),
         Returns(p, w, ids), KeepsList \/ qdMsgs[p] = <<>>
  PROVE  /\ err[p] = "ok" /\ UNCHANGED <<err[p], hq[p], rcvNext[p]>>
         /\ log'[p] = log[p] \o Events(ids)
         /\ \E rest \in Seq(Nat) : TakesFrom(p, w, ids, rest)
         /\ KeepsList \/ qdMsgs'[p] = <<>>
<1>1. pending[p] \in [Which -> Seq(Nat)]
  BY DEF TypeInv, TypeOK, ExpTypes
<1>2. /\ err[p] = "ok" /\ UNCHANGED <<err[p], hq[p], rcvNext[p]>>
      /\ log'[p] = log[p] \o Events(ids)
  BY DEF Returns
<1>3. CASE /\ pending[p][w] # <<>> /\ ids = <<Head(pending[p][w])>>
           /\ pending'[p] = [pending[p] EXCEPT ![w] = Tail(@)]
           /\ UNCHANGED qdMsgs[p]
  <2>1. Tail(pending[p][w]) \in Seq(Nat)
    BY <1>1, <1>3, OfTail
  <2>2. pending'[p] = [pending[p] EXCEPT ![w] = Tail(pending[p][w])]
    BY <1>1, <1>3
  <2>3. TakesFrom(p, w, ids, Tail(pending[p][w]))
    BY <1>3, <2>2 DEF TakesFrom
  <2> QED BY <1>2, <1>3, <2>1, <2>3
<1>4. CASE /\ ids = IF pending[p][w] # <<>> THEN pending[p][w] ELSE qdMsgs[p]
           /\ pending'[p] = [pending[p] EXCEPT ![w] = <<>>]
           /\ qdMsgs'[p] = IF KeepsList THEN ids ELSE <<>>
  <2>1. <<>> \in Seq(Nat)
    OBVIOUS
  <2>2. ~KeepsList => ids = pending[p][w]
    BY <1>4
  <2>3. KeepsList \/ qdMsgs'[p] = <<>>
    BY <1>4
  <2>4. TakesFrom(p, w, ids, <<>>)
    BY <1>4, <2>2 DEF TakesFrom
  <2> QED BY <1>2, <2>1, <2>3, <2>4
<1> QED BY <1>3, <1>4 DEF Returns

LEMMA SortedNext ==
  ASSUME TypeInv, NEW p \in Peer, Known(p), Sorted(p), UserMove(p)
  PROVE  Sorted(p)'
<1> DEFINE x == rcvNext[p]
<1>1. /\ x \in Nat \ {0} /\ hq[p] \in Seq(Event) /\ log[p] \in Seq(Event)
      /\ SeqRange(hq[p]) \subseteq Event /\ SeqRange(log[p]) \subseteq Event
      /\ \A e \in SeqRange(hq[p]) \cup SeqRange(log[p]) :
           IsMsg(e) => e.id \in 1..(x - 1)
      /\ \A w \in Which : /\ pending[p][w] \in Seq(Nat)
                          /\ \A i \in SeqRange(pending[p][w]) : i \in 1..(x - 1)
  BY KnownIs
<1>2. pending[p] \in [Which -> Seq(Nat)]
  BY DEF TypeInv, TypeOK, ExpTypes
<1>3. \A e : IsRsp(e) => IsMsg(e)
  BY DEF IsRsp, IsMsg
<1>4. CASE Idles(p)
  <2>1. Pairwise(hq'[p], Rising) /\ Pairwise(log'[p], RspRising)
    BY <1>1, <1>4, SaysKeeps DEF Idles, Sorted
  <2>2. Cross(log'[p], hq'[p], RspRising)
    BY <1>1, <1>4, CrossSays DEF Idles, Sorted
  <2> QED BY <1>4, <2>1, <2>2 DEF Idles, Sorted
<1>5. ASSUME NEW w \in Which, NEW ids \in Seq(Nat), Returns(p, w, ids)
      PROVE  Sorted(p)'
  <2> DEFINE es == Events(ids)
  <2>1. /\ hq'[p] = hq[p] /\ log'[p] = log[p] \o es
        /\ \/ pending'[p] = [pending[p] EXCEPT ![w] = <<>>]
           \/ /\ pending[p][w] # <<>>
              /\ pending'[p] = [pending[p] EXCEPT ![w] = Tail(pending[p][w])]
    BY <1>2, <1>5 DEF Returns
  <2>2. es \in Seq(Event) /\ SeqRange(es) \subseteq Event
        /\ \A e \in SeqRange(es) : ~IsRsp(e)
    <3>1. es \in Seq(Event) /\ SeqRange(es) = {Ev("msg", i) : i \in SeqRange(ids)}
      BY OfEvents
    <3>2. SeqRange(es) \subseteq Event
      BY <3>1, ElementOfSeq DEF SeqRange
    <3> QED BY <3>1, <3>2 DEF Ev, IsRsp
  <2>3. Pairwise(es, RspRising)
    <3>1. \A n \in 1..Len(es) : es[n] \in SeqRange(es)
      BY DEF SeqRange
    <3> HIDE DEF es
    <3> QED BY <2>2, <3>1, Relations DEF Pairwise
  <2> HIDE DEF es
  <2>4. Cross(log[p], es, RspRising) /\ Cross(es, hq[p], RspRising)
    BY <1>1, <2>2, Relations DEF Cross
  <2>5. Pairwise(log'[p], RspRising) /\ SeqRange(log'[p]) = SeqRange(log[p]) \cup SeqRange(es)
    BY <1>1, <2>1, <2>2, <2>3, <2>4, OfConcat DEF Sorted
  <2>6. Cross(log'[p], hq'[p], RspRising)
    BY <2>1, <2>4, <2>5 DEF Sorted, Cross
  <2>7. ASSUME NEW v \in Which PROVE Pairwise(pending'[p][v], IdRising)
    <3>1. \/ pending'[p][v] \in {pending[p][v], <<>>}
          \/ pending[p][v] # <<>> /\ pending'[p][v] = Tail(pending[p][v])
      BY <1>2, <2>1
    <3> QED BY <1>1, <3>1, OfEmpty, OfTail DEF Sorted
  <2> QED BY <2>1, <2>5, <2>6, <2>7 DEF Sorted
<1>6. ASSUME NEW m \in Msg, Accepts(p, m) PROVE Sorted(p)'
  <2>1. log'[p] = log[p]
    BY <1>6, AcceptsIs
  <2>2. CASE /\ hq'[p] = hq[p] /\ m.which \in Which
             /\ pending'[p] = [pending[p] EXCEPT ![m.which] = Append(pending[p][m.which], x)]
    <3>1. ASSUME NEW v \in Which PROVE Pairwise(pending'[p][v], IdRising)
      <4>1. pending'[p][v] \in {pending[p][v], Append(pending[p][v], x)}
        BY <1>2, <2>2
      <4>2. \A i \in SeqRange(pending[p][v]) : i \in Nat /\ i < x
        <5>1. x \in Nat \ {0} /\ \A i \in SeqRange(pending[p][v]) : i \in 1..(x - 1)
          BY <1>1
        <5> HIDE DEF x
        <5> QED BY <5>1
      <4>3. \A i \in SeqRange(pending[p][v]) : <<i, x>> \in IdRising
        BY <1>1, <4>2, Relations
      <4>4. pending[p][v] \in Seq(Nat) /\ Pairwise(pending[p][v], IdRising)
        BY <1>1 DEF Sorted
      <4>5. Pairwise(Append(pending[p][v], x), IdRising)
        <5> HIDE DEF x
        <5> QED BY <1>1, <4>3, <4>4, OfAppend
      <4> QED BY <4>1, <4>4, <4>5
    <3> QED BY <2>1, <2>2, <3>1 DEF Sorted
  <2>3. ASSUME pending'[p] = pending[p], NEW e \in Event,
               IsMsg(e), e.id = x, hq'[p] = Append(hq[p], e)
        PROVE  Sorted(p)'
    <3>1. /\ \A f \in SeqRange(hq[p]) : <<f, e>> \in Rising
          /\ \A f \in SeqRange(log[p]) : <<f, e>> \in RspRising
      <4>1. \A f \in SeqRange(hq[p]) \cup SeqRange(log[p]) :
              f \in Event /\ (IsMsg(f) => f.id < e.id)
        BY <1>1, <2>3
      <4> QED BY <1>3, <4>1, Relations
    <3>2. /\ SeqRange(hq'[p]) = SeqRange(hq[p]) \cup {e}
          /\ Pairwise(hq'[p], Rising)
      BY <1>1, <2>3, <3>1, OfAppend DEF Sorted
    <3>3. Cross(log'[p], hq'[p], RspRising)
      BY <2>1, <3>1, <3>2 DEF Sorted, Cross
    <3> QED BY <2>1, <2>3, <3>2, <3>3 DEF Sorted
  <2> QED BY <1>6, <2>2, <2>3, AcceptsIs
<1>7. CASE Fires(p)
  <2> DEFINE h == Head(hq[p])
             t == Tail(hq[p])
  <2>1. /\ hq[p] # <<>> /\ h \in Event /\ t \in Seq(Event)
        /\ SeqRange(hq[p]) = {h} \cup SeqRange(t)
        /\ hq'[p] = t /\ pending'[p] = pending[p]
    BY <1>7, FiresIs
  <2>2. PICK f \in Event : /\ log'[p] = Append(log[p], f) /\ f.id = h.id
                           /\ IsMsg(f) <=> IsMsg(h)
                           /\ IsRsp(f) <=> IsRsp(h)
    BY <1>7, FiresIs
  <2>3. Pairwise(t, Rising) /\ \A g \in SeqRange(t) : <<h, g>> \in Rising
    BY <1>1, <2>1, OfTail DEF Sorted
  <2> HIDE DEF h, t
  <2>4. \A g \in SeqRange(log[p]) : <<g, f>> \in RspRising
    <3>1. \A g \in SeqRange(log[p]) : <<g, h>> \in RspRising
      BY <2>1 DEF Sorted, Cross
    <3> QED BY <1>1, <2>1, <2>2, <3>1, Relations
  <2>5. Pairwise(log'[p], RspRising) /\ SeqRange(log'[p]) = SeqRange(log[p]) \cup {f}
    BY <1>1, <2>2, <2>4, OfAppend DEF Sorted
  <2>6. \A g \in SeqRange(t) : <<f, g>> \in RspRising
    BY <1>1, <1>3, <2>1, <2>2, <2>3, Relations
  <2>7. Cross(log'[p], hq'[p], RspRising)
    BY <2>1, <2>5, <2>6 DEF Sorted, Cross
  <2> QED BY <2>1, <2>3, <2>5, <2>7 DEF Sorted
<1> QED BY <1>4, <1>5, <1>6, <1>7, MoveOfMessages
LEMMA EmptyInit ==
  ASSUME Init, NEW p \in Peer
  PROVE  /\ log[p] = <<>> /\ hq[p] = <<>> /\ qdMsgs[p] = <<>>
         /\ rcvNext[p] = 1 /\ mode[p] = "idle" /\ err[p] = "ok"
         /\ \A w \in Which : pending[p][w] = <<>>
BY DEF Init

OrderBase == BlameBase /\ \A p \in Peer : Sorted(p)

LEMMA OrderBaseInit == Init => OrderBase
<1> SUFFICES ASSUME Init PROVE \A p \in Peer : Sorted(p)
  BY BlameBaseInit DEF OrderBase
<1> SUFFICES ASSUME NEW p \in Peer PROVE Sorted(p)
  OBVIOUS
<1>1. Cross(<<>>, <<>>, RspRising)
  BY OfEmpty DEF Cross
<1> QED BY <1>1, EmptyInit, OfEmpty DEF Sorted

LEMMA OrderBaseParts ==
  OrderBase => /\ TypeInv /\ FlushIsGood /\ FlowInv
               /\ \A p \in Peer : Known(p) /\ Sorted(p) /\ Numbered(p) /\ FlowOn(p)
BY DEF OrderBase, BlameBase, FlowInv, ThreadInv

LEMMA OrderBaseNext == OrderBase /\ [Next]_vars => OrderBase'
<1> SUFFICES ASSUME OrderBase, [Next]_vars PROVE OrderBase'
  OBVIOUS
<1>1. BlameBase'
  BY BlameBaseNext DEF OrderBase
<1>2. ASSUME NEW p \in Peer PROVE Sorted(p)'
  BY OrderBaseParts, UserMoveNext, SortedNext
<1> QED BY <1>1, <1>2 DEF OrderBase

(* Responses are handed over in the order they were sent, those to one     *)
(* request and all of them, on one pipe or two, unexpected or not.         *)
THEOREM ResponsesInOrderAlways == Spec => []ResponsesInOrder
<1>1. OrderBase => ResponsesInOrder
  <2> SUFFICES ASSUME OrderBase, NEW p \in Peer,
                      NEW i \in 1..Len(log[p]), NEW j \in 1..Len(log[p]), i < j,
                      {log[p][i].kind, log[p][j].kind} \subseteq MsgKinds \ {"msg"}
               PROVE  log[p][i].id < log[p][j].id
    BY DEF ResponsesInOrder
  <2>1. Pairwise(log[p], RspRising) /\ log[p] \in Seq(Event)
    BY OrderBaseParts DEF Sorted, TypeInv, TypeOK, UserTypes
  <2>2. log[p][i] \in Event /\ log[p][j] \in Event
    BY <2>1, ElementOfSeq
  <2>3. <<log[p][i], log[p][j]>> \in RspRising
    BY <2>1 DEF Pairwise
  <2> QED BY <2>2, <2>3, Relations DEF IsRsp
<1> QED BY <1>1, OrderBaseInit, OrderBaseNext, PTL DEF Spec

-----------------------------------------------------------------------------
(* Every message accepted is in one place: posted, waiting, or with the    *)
(* user.  The message at which the channel is hosed may be in none.        *)
IdsIn(S)  == {e.id : e \in {f \in S : IsMsg(f)}}
MsgIds(s) == IdsIn(SeqRange(s))

LEMMA IdsInUnion ==
  /\ \A S, T : IdsIn(S \cup T) = IdsIn(S) \cup IdsIn(T)
  /\ \A e : IdsIn({e}) = IF IsMsg(e) THEN {e.id} ELSE {}
  /\ \A S, T : {e \in S : IsMsg(e)} = {e \in T : IsMsg(e)} => IdsIn(S) = IdsIn(T)
  /\ \A I : IdsIn({Ev("msg", i) : i \in I}) = I
<1>1. \A S, T : IdsIn(S \cup T) = IdsIn(S) \cup IdsIn(T)
  BY DEF IdsIn
<1>2. \A e : IdsIn({e}) = IF IsMsg(e) THEN {e.id} ELSE {}
  BY DEF IdsIn
<1>3. \A S, T : {e \in S : IsMsg(e)} = {e \in T : IsMsg(e)} => IdsIn(S) = IdsIn(T)
  BY DEF IdsIn
<1>4. \A i : IsMsg(Ev("msg", i)) /\ Ev("msg", i).id = i
  BY DEF IsMsg, Ev, MsgKinds
<1>5. \A I : IdsIn({Ev("msg", i) : i \in I}) = I
  <2> SUFFICES ASSUME NEW I, NEW i
               PROVE  i \in IdsIn({Ev("msg", j) : j \in I}) <=> i \in I
    OBVIOUS
  <2> QED BY <1>4 DEF IdsIn
<1> QED BY <1>1, <1>2, <1>3, <1>5

LEMMA MsgIdsOf ==
  ASSUME NEW s \in Seq(Event), NEW t \in Seq(Event), NEW e \in Event
  PROVE  /\ MsgIds(Append(s, e)) = MsgIds(s) \cup IF IsMsg(e) THEN {e.id} ELSE {}
         /\ MsgIds(s \o t) = MsgIds(s) \cup MsgIds(t)
         /\ s # <<>> => MsgIds(s) = MsgIds(Tail(s)) \cup
                           IF IsMsg(Head(s)) THEN {Head(s).id} ELSE {}
<1>1. MsgIds(Append(s, e)) = MsgIds(s) \cup IF IsMsg(e) THEN {e.id} ELSE {}
  <2>1. SeqRange(Append(s, e)) = SeqRange(s) \cup {e}
    BY OfAppend
  <2>2. IdsIn(SeqRange(s) \cup {e}) = IdsIn(SeqRange(s)) \cup IdsIn({e})
    BY IdsInUnion
  <2> QED BY <2>1, <2>2, IdsInUnion DEF MsgIds
<1>2. MsgIds(s \o t) = MsgIds(s) \cup MsgIds(t)
  <2>1. SeqRange(s \o t) = SeqRange(s) \cup SeqRange(t)
    BY OfConcat
  <2>2. IdsIn(SeqRange(s) \cup SeqRange(t)) = IdsIn(SeqRange(s)) \cup IdsIn(SeqRange(t))
    BY IdsInUnion
  <2> QED BY <2>1, <2>2 DEF MsgIds
<1>3. ASSUME s # <<>>
      PROVE  MsgIds(s) = MsgIds(Tail(s)) \cup
                           IF IsMsg(Head(s)) THEN {Head(s).id} ELSE {}
  <2>1. SeqRange(s) = {Head(s)} \cup SeqRange(Tail(s))
    BY <1>3, OfTail
  <2>2. IdsIn({Head(s)} \cup SeqRange(Tail(s)))
          = IdsIn({Head(s)}) \cup IdsIn(SeqRange(Tail(s)))
    BY IdsInUnion
  <2>3. IdsIn({Head(s)}) = IF IsMsg(Head(s)) THEN {Head(s).id} ELSE {}
    BY IdsInUnion
  <2> QED BY <2>1, <2>2, <2>3 DEF MsgIds
<1> QED BY <1>1, <1>2, <1>3

InHand(p, i) == \/ i \in MsgIds(log[p]) \/ i \in MsgIds(hq[p])
                \/ \E w \in Which : i \in SeqRange(pending[p][w])

AtMostOnce(p) ==
  /\ Pairwise(log[p], Distinct)
  /\ MsgIds(log[p]) \cap MsgIds(hq[p]) = {}
  /\ \A w \in Which :
       SeqRange(pending[p][w]) \cap (MsgIds(log[p]) \cup MsgIds(hq[p])) = {}
  /\ \A v, w \in Which :
       v # w => SeqRange(pending[p][v]) \cap SeqRange(pending[p][w]) = {}
  /\ qdMsgs[p] = <<>>

NoneMissing(p) ==
  \A i \in 1..(rcvNext[p] - 1) :
    InHand(p, i) \/ (err[p] # "ok" /\ i = rcvNext[p] - 1)

Placed(p) == AtMostOnce(p) /\ NoneMissing(p)

(* The same of the sets of IDs: l handed over, h posted, q[w] waiting, x   *)
(* the ID to be accepted next, good while the channel is.                  *)
Parts(l, h, q, x, good) ==
  /\ l \cap h = {}
  /\ \A w \in Which : q[w] \cap (l \cup h) = {}
  /\ \A v, w \in Which : v # w => q[v] \cap q[w] = {}
  /\ \A i \in 1..(x - 1) : \/ i \in l \/ i \in h \/ \E w \in Which : i \in q[w]
                           \/ ~good /\ i = x - 1

WaitingIds(p) == [w \in Which |-> SeqRange(pending[p][w])]
PartsOf(p) == Parts(MsgIds(log[p]), MsgIds(hq[p]), WaitingIds(p), rcvNext[p],
                    err[p] = "ok")

LEMMA PlacedIs ==
  ASSUME NEW p
  PROVE  Placed(p) <=> PartsOf(p) /\ Pairwise(log[p], Distinct) /\ qdMsgs[p] = <<>>
BY DEF Placed, AtMostOnce, NoneMissing, InHand, PartsOf, Parts, WaitingIds

LEMMA PartsMove ==
  ASSUME NEW l, NEW h, NEW q, NEW x \in Nat \ {0}, NEW good \in BOOLEAN,
         Parts(l, h, q, x, good)
  PROVE  (* posted *)
         /\ good /\ x \notin l \cup h /\ (\A w \in Which : x \notin q[w])
              => Parts(l, h \cup {x}, q, x + 1, good)
         (* handed over by a handler *)
         /\ \A i : i \in h => Parts(l \cup {i}, h \ {i}, q, x, good)
         (* dropped by an error *)
         /\ Parts(l, h, q, x, FALSE)
         /\ good => Parts(l, h, q, x + 1, FALSE)
<1> USE DEF Parts
<1>1. ASSUME NEW i \in 1..((x + 1) - 1), i # x PROVE i \in 1..(x - 1)
  BY <1>1
<1>2. ASSUME good, x \notin l \cup h, \A w \in Which : x \notin q[w]
      PROVE  Parts(l, h \cup {x}, q, x + 1, good)
  BY <1>1, <1>2
<1>3. ASSUME NEW i \in h PROVE Parts(l \cup {i}, h \ {i}, q, x, good)
  BY <1>3
<1>4. good => Parts(l, h, q, x + 1, FALSE)
  BY <1>1
<1> QED BY <1>2, <1>3, <1>4

(* A message joins those that wait, and some of those that wait are        *)
(* returned by a call.                                                     *)
LEMMA PartsWait ==
  ASSUME NEW l, NEW h, NEW q, NEW x \in Nat \ {0}, NEW w \in Which, NEW r,
         Parts(l, h, q, x, TRUE),
         x \notin l \cup h, \A v \in Which : x \notin q[v],
         \A v \in Which : r[v] = IF v = w THEN q[v] \cup {x} ELSE q[v]
  PROVE  Parts(l, h, r, x + 1, TRUE)
<1>1. ASSUME NEW i \in 1..((x + 1) - 1), i # x PROVE i \in 1..(x - 1)
  BY <1>1
<1>2. \A v \in Which : q[v] \subseteq r[v]
  OBVIOUS
<1>3. x \in r[w]
  OBVIOUS
<1>4. ASSUME NEW i \in 1..((x + 1) - 1)
      PROVE  i \in l \/ i \in h \/ \E v \in Which : i \in r[v]
  <2>1. CASE i = x
    BY <1>3, <2>1
  <2>2. CASE i # x
    <3>1. i \in l \/ i \in h \/ \E v \in Which : i \in q[v]
      BY <1>1, <2>2 DEF Parts
    <3> QED BY <1>2, <3>1
  <2> QED BY <2>1, <2>2
<1>5. l \cap h = {} /\ \A v \in Which : r[v] \cap (l \cup h) = {}
  <2>1. l \cap h = {} /\ \A v \in Which : q[v] \cap (l \cup h) = {}
    BY DEF Parts
  <2>2. \A v \in Which : r[v] \subseteq q[v] \cup {x}
    OBVIOUS
  <2> QED BY <2>1, <2>2
<1>6. ASSUME NEW u \in Which, NEW v \in Which, u # v PROVE r[u] \cap r[v] = {}
  <2>1. q[u] \cap q[v] = {} /\ x \notin q[u] /\ x \notin q[v]
    BY <1>6 DEF Parts
  <2>2. \/ r[u] = q[u] /\ r[v] \subseteq q[v] \cup {x}
        \/ r[v] = q[v] /\ r[u] \subseteq q[u] \cup {x}
    BY <1>6
  <2> QED BY <2>1, <2>2
<1> QED BY <1>4, <1>5, <1>6 DEF Parts

LEMMA PartsReturn ==
  ASSUME NEW l, NEW h, NEW q, NEW x \in Nat \ {0}, NEW w \in Which, NEW r, NEW ids,
         Parts(l, h, q, x, TRUE), ids \subseteq q[w],
         \A v \in Which : r[v] = IF v = w THEN q[v] \ ids ELSE q[v]
  PROVE  Parts(l \cup ids, h, r, x, TRUE)
<1>1. ASSUME NEW i \in 1..(x - 1)
      PROVE  i \in l \cup ids \/ i \in h \/ \E v \in Which : i \in r[v]
  <2>1. i \in l \/ i \in h \/ \E v \in Which : i \in q[v]
    BY DEF Parts
  <2> QED BY <2>1
<1>2. /\ (l \cup ids) \cap h = {}
      /\ \A v \in Which : r[v] \cap ((l \cup ids) \cup h) = {}
      /\ \A u, v \in Which : u # v => r[u] \cap r[v] = {}
  BY DEF Parts
<1> QED BY <1>1, <1>2 DEF Parts
LEMMA PlacedNext ==
  ASSUME ~KeepsList, TypeInv, NEW p \in Peer, Known(p), Sorted(p), Placed(p),
         UserMove(p)
  PROVE  Placed(p)'
<1> DEFINE x == rcvNext[p]
           l == MsgIds(log[p])
           h == MsgIds(hq[p])
           q == WaitingIds(p)
<1>1. /\ x \in Nat \ {0} /\ hq[p] \in Seq(Event) /\ log[p] \in Seq(Event)
      /\ SeqRange(hq[p]) \subseteq Event /\ SeqRange(log[p]) \subseteq Event
      /\ \A e \in SeqRange(hq[p]) \cup SeqRange(log[p]) :
           IsMsg(e) => e.id \in 1..(x - 1)
      /\ \A w \in Which : /\ pending[p][w] \in Seq(Nat)
                          /\ \A i \in SeqRange(pending[p][w]) : i \in 1..(x - 1)
  BY KnownIs
<1>2. pending[p] \in [Which -> Seq(Nat)]
  BY DEF TypeInv, TypeOK, ExpTypes
<1>3. /\ Parts(l, h, q, x, err[p] = "ok")
      /\ Pairwise(log[p], Distinct) /\ qdMsgs[p] = <<>>
  BY PlacedIs DEF PartsOf
<1>4. x \notin l \cup h /\ \A w \in Which : x \notin q[w]
  <2>1. x \notin 1..(x - 1)
    BY <1>1
  <2> QED BY <1>1, <2>1 DEF MsgIds, IdsIn, WaitingIds
<1>5. SUFFICES /\ Parts(MsgIds(log'[p]), MsgIds(hq'[p]), WaitingIds(p)', rcvNext'[p],
                        err'[p] = "ok")
               /\ Pairwise(log'[p], Distinct) /\ qdMsgs'[p] = <<>>
  BY DEF Placed, AtMostOnce, NoneMissing, InHand, Parts, WaitingIds
<1>6. CASE Idles(p)
  <2>1. MsgIds(log'[p]) = l /\ MsgIds(hq'[p]) = h /\ Pairwise(log'[p], Distinct)
    BY <1>1, <1>3, <1>6, SaysKeeps, IdsInUnion DEF Idles, MsgIds
  <2>2. WaitingIds(p)' = q /\ qdMsgs'[p] = <<>>
    BY <1>3, <1>6 DEF Idles, WaitingIds
  <2>3. \/ rcvNext'[p] = x /\ (err'[p] = "ok" <=> err[p] = "ok")
        \/ rcvNext'[p] = x /\ err'[p] # "ok"
        \/ rcvNext'[p] = x + 1 /\ err[p] = "ok" /\ err'[p] # "ok"
    BY <1>6 DEF Idles
  <2> HIDE DEF x, l, h, q
  <2>4. Parts(l, h, q, rcvNext'[p], err'[p] = "ok")
    <3>1. CASE rcvNext'[p] = x /\ (err'[p] = "ok" <=> err[p] = "ok")
      BY <1>3, <3>1 DEF Parts
    <3>2. CASE rcvNext'[p] = x /\ err'[p] # "ok"
      BY <1>3, <3>2 DEF Parts
    <3>3. CASE rcvNext'[p] = x + 1 /\ err[p] = "ok" /\ err'[p] # "ok"
      <4>1. Parts(l, h, q, x, TRUE)
        BY <1>3, <3>3 DEF Parts
      <4>2. Parts(l, h, q, x + 1, FALSE)
        BY <1>1, <4>1, PartsMove
      <4> QED BY <3>3, <4>2 DEF Parts
    <3> QED BY <2>3, <3>1, <3>2, <3>3
  <2> QED BY <2>1, <2>2, <2>4
<1>7. ASSUME NEW w \in Which, NEW ids \in Seq(Nat), Returns(p, w, ids)
      PROVE  /\ Parts(MsgIds(log'[p]), MsgIds(hq'[p]), WaitingIds(p)', rcvNext'[p],
                      err'[p] = "ok")
             /\ Pairwise(log'[p], Distinct) /\ qdMsgs'[p] = <<>>
  <2> DEFINE es == Events(ids)
             I == SeqRange(ids)
  <2>1. /\ err[p] = "ok" /\ UNCHANGED <<err[p], hq[p], rcvNext[p]>>
        /\ log'[p] = log[p] \o es /\ qdMsgs'[p] = <<>>
    BY <1>3, <1>7, ReturnsIs
  <2>0. \E rest \in Seq(Nat) : TakesFrom(p, w, ids, rest)
    BY <1>3, <1>7, ReturnsIs
  <2>2. PICK rest \in Seq(Nat) :
          /\ pending'[p] = [pending[p] EXCEPT ![w] = rest]
          /\ \/ rest = <<>> /\ ids = pending[p][w]
             \/ /\ pending[p][w] # <<>> /\ rest = Tail(pending[p][w])
                /\ ids = <<Head(pending[p][w])>>
    BY <2>0 DEF TakesFrom
  <2>3. /\ I \subseteq q[w] /\ SeqRange(rest) = q[w] \ I
        /\ Pairwise(ids, IdRising)
    <3>1. pending[p][w] \in Seq(Nat) /\ Pairwise(pending[p][w], IdRising)
          /\ q[w] = SeqRange(pending[p][w])
      BY <1>1 DEF Sorted, WaitingIds
    <3>2. CASE rest = <<>> /\ ids = pending[p][w]
      BY <3>1, <3>2, OfEmpty
    <3>3. CASE /\ pending[p][w] # <<>> /\ rest = Tail(pending[p][w])
               /\ ids = <<Head(pending[p][w])>>
      <4> DEFINE i == Head(pending[p][w])
      <4>1. /\ i \in Nat /\ q[w] = {i} \cup SeqRange(rest)
            /\ \A j \in SeqRange(rest) : <<i, j>> \in IdRising
        BY <3>1, <3>3, OfTail
      <4>2. ids = <<i>> /\ I = {i} /\ Pairwise(<<i>>, IdRising)
        BY <3>3 DEF SeqRange, Pairwise
      <4> HIDE DEF i
      <4>3. i \notin SeqRange(rest)
        <5>1. <<i, i>> \in IdRising <=> i < i
          BY <4>1, Relations
        <5>2. ~(i < i)
          BY <4>1
        <5> QED BY <4>1, <5>1, <5>2
      <4> QED BY <4>1, <4>2, <4>3
    <3> QED BY <2>2, <3>2, <3>3
  <2>4. /\ es \in Seq(Event) /\ SeqRange(es) = {Ev("msg", i) : i \in I}
        /\ I \subseteq Nat /\ MsgIds(es) = I
    BY OfEvents, IdsInUnion DEF MsgIds
  <2>5. Pairwise(es, Distinct)
    <3>1. \A i, j \in Nat : <<i, j>> \in IdRising =>
            <<Ev("msg", i), Ev("msg", j)>> \in Distinct
      BY Relations DEF Ev, Event
    <3> QED BY <2>3, <3>1, OfEventIds
  <2>6. Cross(log[p], es, Distinct)
    <3>1. ASSUME NEW e \in SeqRange(log[p]), NEW f \in SeqRange(es), IsMsg(e)
          PROVE  e.id # f.id
      <4>1. e.id \in l /\ f.id \in I
        BY <2>4, <3>1 DEF MsgIds, IdsIn, Ev
      <4>2. l \cap q[w] = {}
        BY <1>3 DEF Parts
      <4> QED BY <2>3, <4>1, <4>2
    <3>2. SeqRange(es) \subseteq Event
      BY <2>4, ElementOfSeq DEF SeqRange
    <3> QED BY <1>1, <3>1, <3>2, Relations DEF Cross
  <2>7. Pairwise(log'[p], Distinct) /\ MsgIds(log'[p]) = l \cup I
    <3>1. Pairwise(log'[p], Distinct)
      BY <1>1, <1>3, <2>1, <2>4, <2>5, <2>6, OfConcat
    <3>2. Ev("msg", 0) \in Event
      BY DEF Ev, Event
    <3>3. MsgIds(log[p] \o es) = MsgIds(log[p]) \cup MsgIds(es)
      BY <1>1, <2>4, <3>2, MsgIdsOf
    <3> QED BY <2>1, <2>4, <3>1, <3>3
  <2>8. \A v \in Which : WaitingIds(p)'[v] = IF v = w THEN q[v] \ I ELSE q[v]
    BY <1>2, <2>2, <2>3 DEF WaitingIds
  <2> HIDE DEF x, l, h, q, I
  <2>9. Parts(l, h, q, x, TRUE)
    BY <1>3, <2>1 DEF Parts
  <2>10. Parts(l \cup I, h, WaitingIds(p)', x, TRUE)
    BY <1>1, <2>3, <2>8, <2>9, PartsReturn
  <2>11. /\ MsgIds(hq'[p]) = h /\ rcvNext'[p] = x /\ (err'[p] = "ok") = TRUE
    BY <2>1 DEF h, x
  <2> QED BY <2>1, <2>7, <2>10, <2>11
<1>8. ASSUME NEW m \in Msg, Accepts(p, m)
      PROVE  /\ Parts(MsgIds(log'[p]), MsgIds(hq'[p]), WaitingIds(p)', rcvNext'[p],
                      err'[p] = "ok")
             /\ Pairwise(log'[p], Distinct) /\ qdMsgs'[p] = <<>>
  <2>1. /\ log'[p] = log[p] /\ err'[p] = err[p] /\ err[p] = "ok"
        /\ qdMsgs'[p] = qdMsgs[p] /\ rcvNext'[p] = x + 1
    BY <1>8, AcceptsIs
  <2>2. Parts(l, h, q, x, TRUE)
    BY <1>3, <2>1 DEF Parts
  <2>3. CASE /\ hq'[p] = hq[p] /\ m.which \in Which
             /\ pending'[p] = [pending[p] EXCEPT ![m.which] = Append(pending[p][m.which], x)]
    <3>1. \A v \in Which : WaitingIds(p)'[v] = IF v = m.which THEN q[v] \cup {x} ELSE q[v]
      <4>1. SeqRange(Append(pending[p][m.which], x)) = q[m.which] \cup {x}
        <5>1. pending[p][m.which] \in Seq(Nat) /\ x \in Nat
          BY <1>1, <2>3
        <5> QED BY <2>3, <5>1, OfAppend DEF WaitingIds
      <4> QED BY <1>2, <2>3, <4>1 DEF WaitingIds
    <3> HIDE DEF x, l, h, q
    <3>2. Parts(l, h, WaitingIds(p)', x + 1, TRUE)
      BY <1>1, <1>4, <2>2, <2>3, <3>1, PartsWait
    <3> QED BY <1>3, <2>1, <2>3, <3>2 DEF l, h
  <2>4. ASSUME pending'[p] = pending[p], NEW e \in Event, IsMsg(e), e.id = x,
               hq'[p] = Append(hq[p], e)
        PROVE  Parts(MsgIds(log'[p]), MsgIds(hq'[p]), WaitingIds(p)', rcvNext'[p],
                     err'[p] = "ok")
    <3>1. MsgIds(hq'[p]) = h \cup {x}
      <4>1. MsgIds(Append(hq[p], e)) = MsgIds(hq[p]) \cup {e.id}
        BY <1>1, <2>4, MsgIdsOf
      <4> QED BY <2>4, <4>1
    <3>2. WaitingIds(p)' = q
      BY <2>4 DEF WaitingIds
    <3> HIDE DEF x, l, h, q
    <3>3. Parts(l, h \cup {x}, q, x + 1, TRUE)
      BY <1>1, <1>4, <2>2, PartsMove
    <3> QED BY <2>1, <3>1, <3>2, <3>3 DEF l
  <2>5. Pairwise(log'[p], Distinct) /\ qdMsgs'[p] = <<>>
    BY <1>3, <2>1
  <2> QED BY <1>8, <2>3, <2>4, <2>5, AcceptsIs
<1>9. CASE Fires(p)
  <2> DEFINE a == Head(hq[p])
             t == Tail(hq[p])
  <2>1. /\ hq[p] # <<>> /\ a \in Event /\ t \in Seq(Event)
        /\ SeqRange(hq[p]) = {a} \cup SeqRange(t)
        /\ hq'[p] = t /\ pending'[p] = pending[p]
        /\ UNCHANGED <<err[p], pending[p], rcvNext[p], qdMsgs[p]>>
    BY <1>9, FiresIs
  <2>2. PICK f \in Event : /\ log'[p] = Append(log[p], f) /\ f.id = a.id
                           /\ IsMsg(f) <=> IsMsg(a)
    BY <1>9, FiresIs
  <2>3. \A g \in SeqRange(t) : <<a, g>> \in Rising
    BY <1>1, <2>1, OfTail DEF Sorted
  <2> HIDE DEF a, t
  <2>4. h = MsgIds(t) \cup IF IsMsg(a) THEN {a.id} ELSE {}
    BY <1>1, <2>1, MsgIdsOf DEF a, t
  <2>5. IsMsg(a) => a.id \notin MsgIds(t)
    <3>1. ASSUME IsMsg(a), NEW g \in SeqRange(t), IsMsg(g) PROVE g.id # a.id
      <4>1. g \in Event
        BY <1>1, <2>1, <3>1
      <4>2. a.id < g.id
        BY <2>1, <2>3, <3>1, <4>1, Relations
      <4> QED BY <2>1, <4>1, <4>2 DEF Event
    <3> QED BY <3>1 DEF MsgIds, IdsIn
  <2>6. MsgIds(log'[p]) = l \cup IF IsMsg(a) THEN {a.id} ELSE {}
    <3>1. MsgIds(Append(log[p], f)) = MsgIds(log[p]) \cup IF IsMsg(f) THEN {f.id} ELSE {}
      BY <1>1, <2>2, MsgIdsOf
    <3> QED BY <2>2, <3>1
  <2>7. Pairwise(log'[p], Distinct)
    <3>1. ASSUME NEW g \in SeqRange(log[p]), IsMsg(g), IsMsg(f) PROVE g.id # f.id
      <4>1. g.id \in l /\ f.id \in h
        BY <2>2, <2>4, <3>1 DEF MsgIds, IdsIn
      <4> QED BY <1>3, <4>1 DEF Parts
    <3>2. \A g \in SeqRange(log[p]) : <<g, f>> \in Distinct
      BY <1>1, <2>2, <3>1, Relations
    <3> QED BY <1>1, <1>3, <2>2, <3>2, OfAppend
  <2>8. WaitingIds(p)' = q /\ rcvNext'[p] = x /\ err'[p] = err[p] /\ qdMsgs'[p] = <<>>
    BY <1>3, <2>1 DEF WaitingIds
  <2> HIDE DEF x, l, h, q
  <2>9. Parts(MsgIds(log'[p]), MsgIds(t), q, x, err[p] = "ok")
    <3>1. CASE IsMsg(a)
      <4>1. /\ MsgIds(log'[p]) = l \cup {a.id} /\ MsgIds(t) = h \ {a.id}
            /\ a.id \in h
        BY <2>4, <2>5, <2>6, <3>1
      <4>2. Parts(l \cup {a.id}, h \ {a.id}, q, x, err[p] = "ok")
        BY <1>1, <1>3, <4>1, PartsMove
      <4> QED BY <4>1, <4>2
    <3>2. CASE ~IsMsg(a)
      BY <1>3, <2>4, <2>6, <3>2
    <3> QED BY <3>1, <3>2
  <2> QED BY <2>1, <2>7, <2>8, <2>9
<1> QED BY <1>6, <1>7, <1>8, <1>9, MoveOfMessages
PlaceInv == OrderBase /\ \A p \in Peer : Placed(p)

LEMMA PlaceInvInit == Init => PlaceInv
<1> SUFFICES ASSUME Init, NEW p \in Peer PROVE Placed(p)
  BY OrderBaseInit DEF PlaceInv
<1>1. /\ log[p] = <<>> /\ hq[p] = <<>> /\ qdMsgs[p] = <<>> /\ rcvNext[p] = 1
      /\ \A w \in Which : pending[p][w] = <<>>
  BY EmptyInit
<1>2. MsgIds(<<>>) = {}
  BY OfEmpty DEF MsgIds, IdsIn
<1> QED BY <1>1, <1>2, OfEmpty DEF Placed, AtMostOnce, NoneMissing

LEMMA PlaceInvNext == ~KeepsList /\ PlaceInv /\ [Next]_vars => PlaceInv'
<1> SUFFICES ASSUME ~KeepsList, PlaceInv, [Next]_vars, NEW p \in Peer
             PROVE  Placed(p)'
  BY OrderBaseNext DEF PlaceInv
<1>1. TypeInv /\ FlushIsGood /\ Known(p) /\ Sorted(p) /\ Placed(p)
  BY OrderBaseParts DEF PlaceInv
<1>2. UserMove(p)
  BY <1>1, UserMoveNext
<1> QED BY <1>1, <1>2, PlacedNext

LEMMA PlacesIs ==
  ASSUME NEW p, NEW i, NEW a
  PROVE  a \in Places(p, i) <=>
           \/ \E k \in Pipe : \E n \in 1..Len(net[p][k]) :
                net[p][k][n].id = i /\ a = <<k, n>>
           \/ \E m \in reasm[p] : m.id = i /\ a = <<"reassembly", m>>
           \/ \E w \in Which : \E n \in 1..Len(pending[p][w]) :
                pending[p][w][n] = i /\ a = <<w, n>>
           \/ \E n \in EventsOf(hq[p], i) : a = <<"posted", n>>
           \/ \E n \in EventsOf(log[p], i) : a = <<"user", n>>
<1>1. ASSUME NEW k \in Pipe, NEW n \in 1..Len(net[p][k]), net[p][k][n].id = i
      PROVE  <<k, n>> \in Places(p, i)
  BY <1>1 DEF Places
<1>2. ASSUME NEW w \in Which, NEW n \in 1..Len(pending[p][w]), pending[p][w][n] = i
      PROVE  <<w, n>> \in Places(p, i)
  BY <1>2 DEF Places
<1>3. ASSUME NEW m \in reasm[p], m.id = i PROVE <<"reassembly", m>> \in Places(p, i)
  BY <1>3 DEF Places
<1>4. ASSUME NEW n \in EventsOf(hq[p], i) PROVE <<"posted", n>> \in Places(p, i)
  BY DEF Places
<1>5. ASSUME NEW n \in EventsOf(log[p], i) PROVE <<"user", n>> \in Places(p, i)
  BY DEF Places
<1>6. ASSUME a \in Places(p, i)
      PROVE  \/ \E k \in Pipe : \E n \in 1..Len(net[p][k]) :
                net[p][k][n].id = i /\ a = <<k, n>>
             \/ \E m \in reasm[p] : m.id = i /\ a = <<"reassembly", m>>
             \/ \E w \in Which : \E n \in 1..Len(pending[p][w]) :
                pending[p][w][n] = i /\ a = <<w, n>>
             \/ \E n \in EventsOf(hq[p], i) : a = <<"posted", n>>
             \/ \E n \in EventsOf(log[p], i) : a = <<"user", n>>
  BY <1>6 DEF Places
<1> QED BY <1>1, <1>2, <1>3, <1>4, <1>5, <1>6

(* Where one ID is among events, and among IDs.                            *)
LEMMA EventsOnce ==
  ASSUME NEW s \in Seq(Event), NEW i
  PROVE  /\ i \in MsgIds(s) <=> EventsOf(s, i) # {}
         /\ Pairwise(s, Distinct) \/ Pairwise(s, Rising)
              => \A n, m \in EventsOf(s, i) : n = m
<1>1. i \in MsgIds(s) <=> EventsOf(s, i) # {}
  BY DEF MsgIds, IdsIn, SeqRange, EventsOf, IsMsg
<1>2. ASSUME Pairwise(s, Distinct) \/ Pairwise(s, Rising),
             NEW n \in EventsOf(s, i), NEW m \in EventsOf(s, i), n < m
      PROVE  FALSE
  <2>1. /\ n \in 1..Len(s) /\ m \in 1..Len(s) /\ s[n] \in Event /\ s[m] \in Event
        /\ IsMsg(s[n]) /\ IsMsg(s[m]) /\ s[n].id = s[m].id
    BY ElementOfSeq DEF EventsOf, IsMsg
  <2>2. <<s[n], s[m]>> \in Distinct \/ <<s[n], s[m]>> \in Rising
    BY <1>2, <2>1 DEF Pairwise
  <2>3. s[n].id # s[m].id \/ s[n].id < s[m].id
    BY <2>1, <2>2, Relations
  <2> QED BY <2>1, <2>3 DEF Event
<1>3. ASSUME Pairwise(s, Distinct) \/ Pairwise(s, Rising),
             NEW n \in EventsOf(s, i), NEW m \in EventsOf(s, i)
      PROVE  n = m
  <2>1. n \in Nat /\ m \in Nat
    BY DEF EventsOf
  <2>2. ~(n < m) /\ ~(m < n)
    BY <1>2, <1>3
  <2> QED BY <2>1, <2>2
<1> QED BY <1>1, <1>3

LEMMA IdsOnce ==
  ASSUME NEW s \in Seq(Nat), Pairwise(s, IdRising),
         NEW n \in 1..Len(s), NEW m \in 1..Len(s), s[n] = s[m]
  PROVE  n = m
<1>1. \A j \in 1..Len(s) : s[j] \in Nat
  BY ElementOfSeq
<1>2. ~(n < m) /\ ~(m < n)
  <2>1. n < m => s[n] < s[m]
    BY <1>1, Relations DEF Pairwise
  <2>2. m < n => s[m] < s[n]
    BY <1>1, Relations DEF Pairwise
  <2> QED BY <1>1, <2>1, <2>2
<1> QED BY <1>2

(* A message that is accepted is not on its way; where it is, it is once.  *)
LEMMA OneAcceptedPlace ==
  ASSUME PlaceInv, NEW p \in Peer, NEW i \in 1..Len(In(p)), i < rcvNext[p]
  PROVE  /\ \A a, b \in Places(p, i) : a = b
         /\ err[p] = "ok" => Places(p, i) # {}
<1>1. /\ TypeInv /\ Known(p) /\ Sorted(p) /\ Placed(p) /\ FlowOn(p)
  BY OrderBaseParts DEF PlaceInv
<1>2. /\ rcvNext[p] \in Nat \ {0} /\ hq[p] \in Seq(Event) /\ log[p] \in Seq(Event)
      /\ \A w \in Which : pending[p][w] \in Seq(Nat)
  BY <1>1, KnownIs
<1>3. /\ \A k \in Pipe : \A n \in 1..Len(net[p][k]) : net[p][k][n].id # i
      /\ \A m \in reasm[p] : m.id # i
  <2>1. Sound(net[p], reasm[p], rcvNext[p], In(p))
    BY <1>1 DEF FlowOn, FlowOK
  <2>2. \A m : IsSent(m, rcvNext[p], In(p)) => m.id # i
    BY <1>2 DEF IsSent
  <2>3. i # 0
    OBVIOUS
  <2> QED BY <2>1, <2>2, <2>3 DEF Sound
<1>4. \A a : a \in Places(p, i) <=>
           \/ \E w \in Which : \E n \in 1..Len(pending[p][w]) :
                pending[p][w][n] = i /\ a = <<w, n>>
           \/ \E n \in EventsOf(hq[p], i) : a = <<"posted", n>>
           \/ \E n \in EventsOf(log[p], i) : a = <<"user", n>>
  BY <1>3, PlacesIs
<1>5. /\ MsgIds(log[p]) \cap MsgIds(hq[p]) = {}
      /\ \A w \in Which :
           SeqRange(pending[p][w]) \cap (MsgIds(log[p]) \cup MsgIds(hq[p])) = {}
      /\ \A v, w \in Which :
           v # w => SeqRange(pending[p][v]) \cap SeqRange(pending[p][w]) = {}
  BY <1>1 DEF Placed, AtMostOnce
<1>6. /\ i \in MsgIds(hq[p]) <=> EventsOf(hq[p], i) # {}
      /\ i \in MsgIds(log[p]) <=> EventsOf(log[p], i) # {}
      /\ \A n, m \in EventsOf(hq[p], i) : n = m
      /\ \A n, m \in EventsOf(log[p], i) : n = m
  BY <1>1, <1>2, EventsOnce DEF Sorted, Placed, AtMostOnce
<1>7. ASSUME NEW w \in Which
      PROVE  /\ \A n \in 1..Len(pending[p][w]) :
                  pending[p][w][n] = i => i \in SeqRange(pending[p][w])
             /\ i \in SeqRange(pending[p][w]) =>
                  \E n \in 1..Len(pending[p][w]) : pending[p][w][n] = i
             /\ \A n, m \in 1..Len(pending[p][w]) :
                  pending[p][w][n] = i /\ pending[p][w][m] = i => n = m
  <2>1. pending[p][w] \in Seq(Nat) /\ Pairwise(pending[p][w], IdRising)
    BY <1>1, <1>2 DEF Sorted
  <2>2. \A n, m \in 1..Len(pending[p][w]) :
          pending[p][w][n] = i /\ pending[p][w][m] = i => n = m
    BY <2>1, IdsOnce
  <2> QED BY <2>2 DEF SeqRange
<1>8. ASSUME NEW a \in Places(p, i), NEW b \in Places(p, i) PROVE a = b
  <2>1. CASE i \in MsgIds(hq[p]) \/ i \in MsgIds(log[p])
    <3>1. \A w \in Which : i \notin SeqRange(pending[p][w])
      BY <1>5, <2>1
    <3>2. \A c \in {a, b} : \/ \E n \in EventsOf(hq[p], i) : c = <<"posted", n>>
                            \/ \E n \in EventsOf(log[p], i) : c = <<"user", n>>
      BY <1>4, <1>7, <3>1
    <3>3. EventsOf(hq[p], i) = {} \/ EventsOf(log[p], i) = {}
      BY <1>5, <1>6
    <3> QED BY <1>6, <3>2, <3>3
  <2>2. CASE ~(i \in MsgIds(hq[p]) \/ i \in MsgIds(log[p]))
    <3>1. \A c \in {a, b} : \E w \in Which : \E n \in 1..Len(pending[p][w]) :
            pending[p][w][n] = i /\ c = <<w, n>>
      BY <1>4, <1>6, <2>2
    <3>2. PICK v \in Which : \E n \in 1..Len(pending[p][v]) :
            pending[p][v][n] = i /\ a = <<v, n>>
      BY <3>1
    <3>3. PICK w \in Which : \E n \in 1..Len(pending[p][w]) :
            pending[p][w][n] = i /\ b = <<w, n>>
      BY <3>1
    <3>4. v = w
      BY <1>5, <1>7, <3>2, <3>3
    <3> QED BY <1>7, <3>2, <3>3, <3>4
  <2> QED BY <2>1, <2>2
<1>9. ASSUME err[p] = "ok" PROVE Places(p, i) # {}
  <2>1. i \in 1..(rcvNext[p] - 1)
    BY <1>2
  <2>2. InHand(p, i)
    BY <1>1, <1>9, <2>1 DEF Placed, NoneMissing
  <2>3. \E a : a \in Places(p, i)
    <3>1. CASE i \in MsgIds(hq[p])
      <4>1. PICK n : n \in EventsOf(hq[p], i)
        BY <1>6, <3>1
      <4>2. <<"posted", n>> \in Places(p, i)
        BY <1>4, <4>1
      <4> QED BY <4>2
    <3>2. CASE i \in MsgIds(log[p])
      <4>1. PICK n : n \in EventsOf(log[p], i)
        BY <1>6, <3>2
      <4>2. <<"user", n>> \in Places(p, i)
        BY <1>4, <4>1
      <4> QED BY <4>2
    <3>3. ASSUME NEW w \in Which, i \in SeqRange(pending[p][w])
          PROVE  \E a : a \in Places(p, i)
      <4>1. PICK n \in 1..Len(pending[p][w]) : pending[p][w][n] = i
        BY <1>7, <3>3
      <4>2. <<w, n>> \in Places(p, i)
        BY <1>4, <4>1
      <4> QED BY <4>2
    <3> QED BY <2>2, <3>1, <3>2, <3>3 DEF InHand
  <2> QED BY <2>3
<1> QED BY <1>8, <1>9

(* A message that is still to be accepted is on the way, once.             *)
LEMMA OnePlaceOnTheWay ==
  ASSUME PlaceInv, NEW p \in Peer, NEW i \in 1..Len(In(p)), ~(i < rcvNext[p])
  PROVE  /\ \A a, b \in Places(p, i) : a = b
         /\ err[p] = "ok" => Places(p, i) # {}
<1>1. /\ TypeInv /\ Known(p) /\ FlowOn(p)
  BY OrderBaseParts DEF PlaceInv
<1>2. /\ rcvNext[p] \in Nat \ {0} /\ hq[p] \in Seq(Event) /\ log[p] \in Seq(Event)
      /\ \A e \in SeqRange(hq[p]) \cup SeqRange(log[p]) :
           IsMsg(e) => e.id \in 1..(rcvNext[p] - 1)
      /\ \A w \in Which : \A j \in SeqRange(pending[p][w]) : j \in 1..(rcvNext[p] - 1)
  BY <1>1, KnownIs
<1>3. i \in Nat \ {0} /\ i \notin 1..(rcvNext[p] - 1)
  BY <1>2
<1>4. /\ EventsOf(hq[p], i) = {} /\ EventsOf(log[p], i) = {}
      /\ \A w \in Which : \A n \in 1..Len(pending[p][w]) : pending[p][w][n] # i
  BY <1>2, <1>3 DEF EventsOf, SeqRange, IsMsg
<1>5. \A a : a \in Places(p, i) <=>
           \/ \E k \in Pipe : \E n \in 1..Len(net[p][k]) :
                net[p][k][n].id = i /\ a = <<k, n>>
           \/ \E m \in reasm[p] : m.id = i /\ a = <<"reassembly", m>>
  BY <1>4, PlacesIs
<1>6. /\ Sound(net[p], reasm[p], rcvNext[p], In(p))
      /\ Ordered(net[p]) /\ Apart(net[p])
      /\ err[p] = "ok" => Whole(net[p], reasm[p], rcvNext[p], In(p))
  BY <1>1 DEF FlowOn, FlowOK
<1>7. ASSUME NEW k \in Pipe, NEW n \in 1..Len(net[p][k]), net[p][k][n].id = i,
             NEW l \in Pipe, NEW m \in 1..Len(net[p][l]), net[p][l][m].id = i
      PROVE  k = l /\ n = m
  <2>1. k = l
    BY <1>3, <1>6, <1>7 DEF Apart
  <2>2. ~(n < m) /\ ~(m < n)
    <3>1. n < m => i < i
      BY <1>3, <1>6, <1>7, <2>1 DEF Ordered
    <3>2. m < n => i < i
      BY <1>3, <1>6, <1>7, <2>1 DEF Ordered
    <3> QED BY <3>1, <3>2
  <2>3. n \in Nat /\ m \in Nat
    OBVIOUS
  <2> QED BY <2>1, <2>2, <2>3
<1>8. ASSUME NEW a \in reasm[p], a.id = i, NEW b \in reasm[p], b.id = i PROVE a = b
  BY <1>6, <1>8 DEF Sound, IsSent
<1>9. ASSUME NEW k \in Pipe, NEW n \in 1..Len(net[p][k]), net[p][k][n].id = i,
             NEW m \in reasm[p], m.id = i
      PROVE  FALSE
  BY <1>3, <1>6, <1>9 DEF Sound
<1>10. ASSUME NEW a \in Places(p, i), NEW b \in Places(p, i) PROVE a = b
  <2>1. CASE \E m \in reasm[p] : m.id = i
    <3>1. \A c \in {a, b} : \E m \in reasm[p] : m.id = i /\ c = <<"reassembly", m>>
      BY <1>5, <1>9, <2>1
    <3> QED BY <1>8, <3>1
  <2>2. CASE ~\E m \in reasm[p] : m.id = i
    <3>1. \A c \in {a, b} : \E k \in Pipe : \E n \in 1..Len(net[p][k]) :
            net[p][k][n].id = i /\ c = <<k, n>>
      BY <1>5, <2>2
    <3>2. PICK k \in Pipe : \E n \in 1..Len(net[p][k]) :
            net[p][k][n].id = i /\ a = <<k, n>>
      BY <3>1
    <3>3. PICK l \in Pipe : \E n \in 1..Len(net[p][l]) :
            net[p][l][n].id = i /\ b = <<l, n>>
      BY <3>1
    <3> QED BY <1>7, <3>2, <3>3
  <2> QED BY <2>1, <2>2
<1>11. ASSUME err[p] = "ok" PROVE Places(p, i) # {}
  <2>1. i \in rcvNext[p]..Len(In(p))
    BY <1>2
  <2>2. (\E y \in reasm[p] : y.id = i) \/ OnAPipe(net[p], i)
    BY <1>6, <1>11, <2>1 DEF Whole
  <2>3. \E a : a \in Places(p, i)
    <3>1. ASSUME NEW y \in reasm[p], y.id = i PROVE <<"reassembly", y>> \in Places(p, i)
      BY <1>5, <3>1
    <3>2. ASSUME NEW k \in Pipe, NEW n \in 1..Len(net[p][k]), net[p][k][n].id = i
          PROVE  <<k, n>> \in Places(p, i)
      BY <1>5, <3>2
    <3> QED BY <2>2, <3>1, <3>2 DEF OnAPipe
  <2> QED BY <2>3
<1> QED BY <1>10, <1>11

(* None is lost, none is handed over twice, on one pipe or two.  (A user   *)
(* who gives expect_msgs() a list that is not empty finds in it again what *)
(* was in it: that is KeepsList.)                                          *)
THEOREM ExactlyOnePlaceAlways == ~KeepsList => (Spec => []ExactlyOnePlace)
<1> SUFFICES ASSUME ~KeepsList PROVE Spec => []ExactlyOnePlace
  OBVIOUS
<1>1. PlaceInv => ExactlyOnePlace
  <2> SUFFICES ASSUME PlaceInv, NEW p \in Peer, NEW i \in 1..Len(sent[Other(p)])
               PROVE  /\ Cardinality(Places(p, i)) <= 1
                      /\ err[p] = "ok" => Cardinality(Places(p, i)) = 1
    BY DEF ExactlyOnePlace
  <2>1. /\ \A a, b \in Places(p, i) : a = b
        /\ err[p] = "ok" => Places(p, i) # {}
    BY OneAcceptedPlace, OnePlaceOnTheWay DEF In
  <2>2. CASE Places(p, i) = {}
    <3>1. Cardinality(Places(p, i)) = 0
      BY <2>2, FS_EmptySet
    <3> QED BY <2>1, <2>2, <3>1
  <2>3. CASE Places(p, i) # {}
    <3>1. PICK a : Places(p, i) = {a}
      BY <2>1, <2>3
    <3>2. Cardinality(Places(p, i)) = 1
      BY <3>1, FS_Singleton
    <3> QED BY <3>2
  <2> QED BY <2>2, <2>3
<1>2. PlaceInv /\ [Next]_vars => PlaceInv'
  BY PlaceInvNext
<1> QED BY <1>1, <1>2, PlaceInvInit, PTL DEF Spec

-----------------------------------------------------------------------------
(* The order within a class.  With two pipes a one-off expectation is spent *)
(* when its message is accepted, and its handler may be run only after     *)
(* later messages, of a flush, have begun to wait: expect_msg(), called by *)
(* another handler meanwhile, returns one of those first.  (The one-off    *)
(* expectation of a log-in request does no harm: nothing is flushed then.) *)
NoOneOffs == TwoPipes => \A p \in Peer : "expect_msg" \notin Api[p]

(* A server in log-in expects at most its log-in request, once, and has    *)
(* been handed none while it expects it.                                   *)
ToldOfOne(p) == \E e \in SeqRange(hq[p]) \cup SeqRange(log[p]) : IsMsg(e)

ServerWaits(p) == /\ reasm[p] = {} /\ msgOpen[p] = {}
                  /\ msgOnce[p] # {} => logInStarted[p]
                  /\ ToldOfOne(p) => msgOnce[p] = {} /\ logInStarted[p]

OnlyOpen(p) == IF phase[p] = "SRV_LOG_IN" THEN ServerWaits(p)
               ELSE TwoPipes => msgOnce[p] = {}

LEMMA SaysIsNotTold ==
  ASSUME TypeInv, NEW p \in Peer, Says(hq[p], hq'[p]), Says(log[p], log'[p])
  PROVE  ToldOfOne(p)' => ToldOfOne(p)
<1>1. hq[p] \in Seq(Event) /\ log[p] \in Seq(Event)
  BY DEF TypeInv, TypeOK, UserTypes
<1>2. ASSUME NEW s \in Seq(Event), NEW t, Says(s, t), NEW e \in SeqRange(t), IsMsg(e)
      PROVE  e \in SeqRange(s)
  <2>1. CASE t = s
    BY <1>2, <2>1
  <2>2. ASSUME NEW f \in Event, ~IsMsg(f), t = Append(s, f) PROVE e \in SeqRange(s)
    <3>1. SeqRange(t) = SeqRange(s) \cup {f}
      BY <2>2, OfAppend
    <3> QED BY <1>2, <2>2, <3>1
  <2> QED BY <1>2, <2>1, <2>2 DEF Says
<1> QED BY <1>1, <1>2 DEF ToldOfOne

LEMMA FiresWhatIsTold ==
  ASSUME TypeInv, NEW p \in Peer, Fires(p) PROVE ToldOfOne(p)' => ToldOfOne(p)
<1>1. PICK f \in Event : /\ log'[p] = Append(log[p], f)
                         /\ IsMsg(f) <=> IsMsg(Head(hq[p]))
  BY FiresIs
<1>2. SeqRange(log'[p]) = SeqRange(log[p]) \cup {f}
  BY <1>1, FiresIs, OfAppend
<1>3. /\ SeqRange(hq[p]) = {Head(hq[p])} \cup SeqRange(Tail(hq[p]))
      /\ hq'[p] = Tail(hq[p])
  BY FiresIs
<1> QED BY <1>1, <1>2, <1>3 DEF ToldOfOne

(* What a server in log-in accepts is the request it expects, or it waits. *)
LEMMA ServerAccepts ==
  ASSUME TypeInv, NEW p \in Peer, phase[p] = "SRV_LOG_IN", ServerWaits(p),
         NEW k \in Pipe, ReceiveNext(p, k)
  PROVE  ServerWaits(p)' /\ phase'[p] = "SRV_LOG_IN"
<1> DEFINE m == Head(net[p][k])
<1>1. /\ InMsgError(p, m) = "ok" /\ m.id = rcvNext[p] /\ IsNextExpected(p, m, Rest(p, k))
      /\ phase'[p] = "SRV_LOG_IN"
      /\ reasm'[p] = reasm[p] /\ logInStarted'[p] = logInStarted[p] /\ log'[p] = log[p]
  BY DEF ReceiveNext, authVars, userVars
<1>2. rcvNext[p] \in Nat \ {0} /\ msgOnce \in [Peer -> SUBSET Which]
      /\ hq \in [Peer -> Seq(Event)] /\ hq[p] \in Seq(Event)
  BY DEF TypeInv, TypeOK, RcvTypes, ExpTypes
<1> HIDE DEF m
<1>3. m.orig = 0 /\ msgOnce[p] \in {{}, {m.which}}
  <2>1. LogInError(p, m) = "ok"
    BY <1>1, <1>2 DEF InMsgError, InOrder
  <2> QED BY <2>1 DEF LogInError
<1>4. msgOpen'[p] = msgOpen[p]
  BY <1>1, <1>3
  DEF IsNextExpected, DeliverResponse, DeliverUnexpected, DeliverExpected, DeliverLater
<1>5. CASE DeliverLater(p, m, Rest(p, k))
  <2>1. msgOnce'[p] = msgOnce[p] /\ hq'[p] = hq[p]
    BY <1>5 DEF DeliverLater
  <2>2. ToldOfOne(p)' => ToldOfOne(p)
    BY <1>1, <2>1, SaysIsNotTold DEF Says
  <2> QED BY <1>1, <1>4, <2>1, <2>2 DEF ServerWaits
<1>6. CASE DeliverExpected(p, m, Rest(p, k))
  <2>1. msgOnce[p] # {} /\ msgOnce'[p] = msgOnce[p] \ {m.which}
    BY <1>2, <1>6 DEF DeliverExpected, ServerWaits
  <2>2. msgOnce'[p] = {} /\ logInStarted[p]
    BY <1>3, <2>1 DEF ServerWaits
  <2> QED BY <1>1, <1>4, <2>2 DEF ServerWaits
<1> QED BY <1>1, <1>3, <1>5, <1>6 DEF IsNextExpected, DeliverResponse, DeliverUnexpected

LEMMA ServerWaitsNext ==
  ASSUME TypeInv, NEW p \in Peer, StepOf(p), phase[p] = "SRV_LOG_IN", ServerWaits(p)
  PROVE  \/ phase'[p] = "SRV_LOG_IN" /\ ServerWaits(p)'
         \/ phase'[p] = "LOGGED_IN" /\ msgOnce'[p] = {}
<1> DEFINE Stays == phase'[p] = "SRV_LOG_IN" /\ ServerWaits(p)'
<1>1. /\ hq \in [Peer -> Seq(Event)] /\ log \in [Peer -> Seq(Event)]
      /\ msgOnce \in [Peer -> SUBSET Which]
      /\ logInStarted \in [Peer -> BOOLEAN] /\ phase \in [Peer -> Phase]
  BY DEF TypeInv, TypeOK, UserTypes, ExpTypes, AuthTypes
<1>2. ASSUME phase'[p] = phase[p], reasm'[p] = reasm[p], msgOpen'[p] = msgOpen[p],
             msgOnce'[p] = msgOnce[p], logInStarted'[p] = logInStarted[p],
             ToldOfOne(p)' => ToldOfOne(p)
      PROVE  Stays
  BY <1>2 DEF ServerWaits
<1>3. ~IsMsg(Ev("on_error", 0)) /\ Ev("on_error", 0) \in Event
  BY DEF Ev, IsMsg, MsgKinds, Event
<1>4. ASSUME UNCHANGED <<authVars, logInStarted, reasm, msgOpen, msgOnce, log, hq>>
      PROVE  Stays
  <2>1. ToldOfOne(p)' => ToldOfOne(p)
    BY <1>4 DEF ToldOfOne
  <2> QED BY <1>2, <1>4, <2>1 DEF authVars
<1>5. ASSUME SendStep(p) PROVE Stays \/ (phase'[p] = "LOGGED_IN" /\ msgOnce'[p] = {})
  <2>1. PICK orig \in Held(p) \cup {0}, rsp \in DOMAIN RspApi :
          \/ \E k \in Pipe, w \in Which : Send(p, k, w, orig, rsp)
          \/ \E k \in Pipe : SendFails(p, k, orig, rsp)
          \/ SendAfterEnd(p, orig, rsp)
    BY <1>5 DEF SendStep
  <2>2. CASE \E k \in Pipe, w \in Which : Send(p, k, w, orig, rsp)
    <3>1. phase'[p] = "LOGGED_IN" /\ orig # 0 /\ msgOnce'[p] = msgOnce[p]
      BY <1>1, <2>2 DEF Send, PhaseAllows, expVars
    <3>2. \A e \in SeqRange(log[p]) : e.kind \in {"msg", "rsp", "unexpected"} => IsMsg(e)
      BY DEF IsMsg, MsgKinds
    <3>3. ToldOfOne(p)
      BY <2>1, <3>1, <3>2 DEF Held, ToldOfOne
    <3> QED BY <3>1, <3>3 DEF ServerWaits
  <2>3. CASE \E k \in Pipe : SendFails(p, k, orig, rsp)
    <3>1. ~IsMsg(Ev("send_error", 0)) /\ Ev("send_error", 0) \in Event
      BY DEF Ev, IsMsg, MsgKinds, Event
    <3>2. ToldOfOne(p)' => ToldOfOne(p)
      BY <1>1, <2>3, <3>1, SaysIsNotTold DEF SendFails, Says
    <3> QED BY <1>2, <2>3, <3>2 DEF SendFails, authVars, rcvVars, expVars
  <2>4. CASE SendAfterEnd(p, orig, rsp)
    BY <1>4, <2>4 DEF SendAfterEnd, rcvVars, expVars, userVars
  <2> QED BY <2>1, <2>2, <2>3, <2>4
<1>6. ASSUME NEW w \in Which, ExpectLogInRequest(p, w) PROVE Stays
  <2>1. /\ phase'[p] = "SRV_LOG_IN" /\ reasm'[p] = reasm[p] /\ msgOpen'[p] = msgOpen[p]
        /\ logInStarted'[p] /\ ~logInStarted[p]
    BY <1>1, <1>6 DEF ExpectLogInRequest, authVars, rcvVars
  <2>2. msgOnce[p] = {} /\ ~ToldOfOne(p)
    BY <2>1 DEF ServerWaits
  <2>3. CASE pending[p][w] # <<>>
    BY <1>6, <2>1, <2>2, <2>3 DEF ExpectLogInRequest, ServerWaits
  <2>4. CASE pending[p][w] = <<>>
    <3>1. log'[p] = log[p] /\ Says(hq[p], hq'[p])
      <4>1. /\ log' = log
            /\ hq' = hq \/ hq' = [hq EXCEPT ![p] = Append(@, Ev("on_error", 0))]
        BY <1>6, <2>4 DEF ExpectLogInRequest, NewError
      <4>2. hq'[p] = hq[p] \/ hq'[p] = Append(hq[p], Ev("on_error", 0))
        BY <1>1, <4>1
      <4> QED BY <1>3, <4>1, <4>2 DEF Says
    <3>2. ~ToldOfOne(p)'
      BY <2>2, <3>1, SaysIsNotTold DEF Says
    <3> QED BY <2>1, <2>2, <3>2 DEF ServerWaits
  <2> QED BY <2>3, <2>4
<1>7. CASE ApiStep(p)
  <2>1. ASSUME NEW w \in Which
        PROVE ~ExpectMsg(p, w) /\ ~ExpectMsgs(p, w) /\ ~UndoExpectMsgs(p, w)
    BY DEF ExpectMsg, ExpectMsgs, UndoExpectMsgs, LoggedInCall
  <2>2. CASE SendStep(p)
    BY <1>5, <2>2
  <2>3. CASE \E w \in Which : ExpectLogInRequest(p, w)
    BY <1>6, <2>3
  <2>4. CASE ~SendStep(p) /\ ~\E w \in Which : ExpectLogInRequest(p, w)
    <3>1. UNCHANGED <<authVars, logInStarted, reasm, msgOpen, msgOnce, log, hq>>
      BY <1>7, <2>1, <2>4
      DEF ApiStep, StartAndPoll, RequestRefused, EndSending, UndoExpectResponses,
          SetHandler, UnsetHandler, authVars, rcvVars, expVars, userVars
    <3> QED BY <1>4, <3>1
  <2> QED BY <2>2, <2>3, <2>4
<1>8. CASE Fire(p)
  <2>1. Fires(p)
    BY <1>1, <1>8 DEF Fire, Fires, expVars, rcvVars, TypeInv, TypeOK, LoopTypes
  <2>2. ToldOfOne(p)' => ToldOfOne(p)
    BY <2>1, FiresWhatIsTold
  <2> QED BY <1>2, <1>8, <2>2 DEF Fire, authVars, rcvVars, expVars
<1>9. ASSUME NEW m \in reasm[p], Flush(p, m) PROVE Stays
  BY <1>9 DEF ServerWaits
<1>10. ASSUME NEW k \in Pipe, Break(p, k) PROVE Stays
  BY <1>4, <1>10 DEF Break, authVars, rcvVars, expVars, userVars
<1>11. ASSUME NEW k \in Pipe, ReadStep(p, k) PROVE Stays
  <2>1. CASE ReceiveNext(p, k)
    BY <2>1, ServerAccepts
  <2>2. ~ReceiveEarly(p, k)
    <3>1. ASSUME ReceiveEarly(p, k) PROVE FALSE
      <4> DEFINE m == Head(net[p][k])
      <4>1. InMsgError(p, m) = "ok" /\ m.id > rcvNext[p] /\ rcvNext[p] \in Nat \ {0}
        BY <3>1 DEF ReceiveEarly, TypeInv, TypeOK, RcvTypes
      <4>2. SequenceError(p, m) # "ok"
        BY <4>1 DEF SequenceError
      <4>3. ~InOrder(p, m)
        BY <4>2 DEF InOrder
      <4>4. m.id # 0
        <5>1. \A a : \A b \in Nat \ {0} : a = 0 => ~(a > b)
          OBVIOUS
        <5> QED BY <4>1, <5>1
      <4> QED BY <4>1, <4>2, <4>3, <4>4 DEF InMsgError
    <3> QED BY <3>1
  <2>3. CASE ReadIgnored(p, k)
    BY <1>4, <2>3 DEF ReadIgnored, authVars, rcvVars, expVars, userVars
  <2>4. CASE ReceiveBad(p, k) \/ ReceiveInternal(p, k) \/ ReadFails(p, k)
    <3>1. UNCHANGED <<authVars, logInStarted, reasm, msgOpen, msgOnce, log>>
      BY <2>4 DEF ReceiveBad, ReceiveInternal, ReadFails, rcvVars, expVars, userVars
    <3>2. Says(hq[p], hq'[p])
      <4>1. CASE ReceiveBad(p, k) \/ ReadFails(p, k)
        BY <1>1, <1>3, <4>1 DEF ReceiveBad, ReadFails, NewError, Says
      <4>2. CASE ReceiveInternal(p, k)
        <5>1. /\ hq'[p] = Append(hq[p], Ev("remote_unexpected", Head(net[p][k]).orig))
              /\ net[p][k] # <<>>
          BY <1>1, <4>2 DEF ReceiveInternal, MsgAt
        <5>2. Head(net[p][k]) \in Msg
          <6>1. net[p][k] \in Seq(Msg)
            BY DEF TypeInv, TypeOK
          <6> QED BY <5>1, <6>1, HeadTailProperties
        <5>3. Head(net[p][k]).orig \in Nat
          BY <5>2 DEF Msg
        <5>4. LET e == Ev("remote_unexpected", Head(net[p][k]).orig)
              IN  e \in Event /\ ~IsMsg(e)
          BY <5>3 DEF Ev, Event, IsMsg, MsgKinds
        <5> QED BY <5>1, <5>4 DEF Says
      <4> QED BY <2>4, <4>1, <4>2
    <3>3. ToldOfOne(p)' => ToldOfOne(p)
      BY <3>1, <3>2, SaysIsNotTold DEF Says
    <3> QED BY <1>2, <3>1, <3>3 DEF authVars
  <2> QED BY <1>11, <2>1, <2>2, <2>3, <2>4 DEF ReadStep
<1> QED BY <1>7, <1>8, <1>9, <1>10, <1>11 DEF StepOf, ThreadStep

LEMMA LogInIsOver ==
  ASSUME TypeInv, [Next]_vars, NEW p \in Peer, phase[p] # "SRV_LOG_IN"
  PROVE  phase'[p] # "SRV_LOG_IN"
<1>1. phase \in [Peer -> Phase]
  BY DEF TypeInv, TypeOK, AuthTypes
<1>2. ASSUME StepOf(p) PROVE phase'[p] # "SRV_LOG_IN"
  <2>1. CASE ApiStep(p)
    BY <1>1, <2>1, ZenonT(40)
    DEF ApiStep, StartAndPoll, SendStep, Send, SendFails, SendAfterEnd, RequestRefused,
        EndSending, ExpectMsg, ExpectMsgs, UndoExpectMsgs, ExpectLogInRequest,
        UndoExpectResponses, SetHandler, UnsetHandler, authVars
  <2>2. CASE ThreadStep(p)
    BY <2>2 DEF ThreadStep, Fire, Flush, authVars
  <2>3. ASSUME NEW k \in Pipe, ReadStep(p, k) \/ Break(p, k)
        PROVE  phase'[p] # "SRV_LOG_IN"
    BY <1>1, <2>3
    DEF ReadStep, ReceiveBad, ReceiveInternal, ReceiveEarly, ReceiveNext,
        ReadFails, ReadIgnored, Break, authVars
  <2> QED BY <1>2, <2>1, <2>2, <2>3 DEF StepOf
<1>3. ASSUME NEW q \in Peer, StepOf(q), q # p PROVE phase'[p] # "SRV_LOG_IN"
  BY <1>3, OtherUntouched DEF Untouched, OwnAuth
<1>4. CASE UNCHANGED vars
  BY <1>4 DEF vars
<1> QED BY <1>2, <1>3, <1>4, StepOfAPeer

LEMMA OnlyOpenNext ==
  ASSUME NoOneOffs, TypeInv, [Next]_vars, NEW p \in Peer, OnlyOpen(p)
  PROVE  OnlyOpen(p)'
<1>1. CASE phase[p] = "SRV_LOG_IN"
  <2>1. CASE Untouched(p)
    BY <1>1, <2>1
    DEF Untouched, OwnAuth, OwnRcv, OwnLoop, OnlyOpen, ServerWaits, ToldOfOne
  <2>2. CASE StepOf(p)
    BY <1>1, <2>2, ServerWaitsNext DEF OnlyOpen
  <2> QED BY <2>1, <2>2, StepOfAPeer, OtherUntouched, UnchangedIsUntouched
<1>2. ASSUME phase[p] # "SRV_LOG_IN", TwoPipes PROVE msgOnce'[p] = {}
  <2>1. msgOnce[p] = {} /\ msgOnce \in [Peer -> SUBSET Which]
    BY <1>2 DEF OnlyOpen, TypeInv, TypeOK, ExpTypes
  <2>2. CASE UNCHANGED msgOnce
    BY <2>1, <2>2
  <2>3. ASSUME NEW m, NEW pipes, IsNextExpected(p, m, pipes) PROVE msgOnce'[p] = {}
    BY <2>1, <2>3
    DEF IsNextExpected, DeliverResponse, DeliverUnexpected, DeliverExpected,
        DeliverLater, expVars
  <2>4. ASSUME StepOf(p) PROVE msgOnce'[p] = {}
    <3>1. CASE ApiStep(p)
      <4>1. ASSUME NEW w \in Which PROVE ~ExpectMsg(p, w) /\ ~ExpectLogInRequest(p, w)
        BY <1>2 DEF NoOneOffs, ExpectMsg, ExpectLogInRequest, LoggedInCall, CanCall
      <4>2. CASE \E w \in Which : UndoExpectMsgs(p, w)
        BY <2>1, <4>2 DEF UndoExpectMsgs
      <4>3. CASE ~\E w \in Which : UndoExpectMsgs(p, w)
        <5>1. UNCHANGED msgOnce
          BY <3>1, <4>1, <4>3, ZenonT(40)
          DEF ApiStep, StartAndPoll, SendStep, Send, SendFails, SendAfterEnd,
              RequestRefused, EndSending, ExpectMsgs, UndoExpectResponses,
              SetHandler, UnsetHandler, expVars
        <5> QED BY <2>1, <5>1
      <4> QED BY <4>2, <4>3
    <3>2. CASE Fire(p)
      BY <2>1, <3>2 DEF Fire, expVars
    <3>3. CASE \E m \in reasm[p] : Flush(p, m)
      BY <2>3, <3>3 DEF Flush
    <3>4. ASSUME NEW k \in Pipe, ReadStep(p, k) \/ Break(p, k) PROVE msgOnce'[p] = {}
      BY <2>1, <2>3, <3>4
      DEF ReadStep, ReceiveBad, ReceiveInternal, ReceiveEarly, ReceiveNext,
          ReadFails, ReadIgnored, Break, expVars
    <3> QED BY <2>4, <3>1, <3>2, <3>3, <3>4 DEF StepOf, ThreadStep
  <2>5. ASSUME NEW q \in Peer, StepOf(q), q # p PROVE msgOnce'[p] = {}
    BY <2>1, <2>5, OtherUntouched DEF Untouched, OwnRcv
  <2> QED BY <2>2, <2>4, <2>5, StepOfAPeer DEF vars
<1>3. ASSUME phase[p] # "SRV_LOG_IN" PROVE phase'[p] # "SRV_LOG_IN"
  BY <1>3, LogInIsOver
<1> QED BY <1>1, <1>2, <1>3 DEF OnlyOpen, TwoPipes

(* No call is made during a flush: an open-ended expectation stays.        *)
LEMMA OpenStays ==
  ASSUME TypeInv, [Next]_vars, NEW p \in Peer, mode'[p] = "flush"
  PROVE  msgOpen'[p] = msgOpen[p]
<1>1. CASE UNCHANGED msgOpen
  BY <1>1
<1>2. ASSUME NEW m, NEW pipes, IsNextExpected(p, m, pipes) PROVE UNCHANGED msgOpen
  BY <1>2
  DEF IsNextExpected, DeliverResponse, DeliverUnexpected, DeliverExpected,
      DeliverLater, expVars
<1>3. ASSUME StepOf(p) PROVE UNCHANGED msgOpen
  <2>1. CASE ApiStep(p)
    <3>1. ~\E w \in Which : ExpectMsgs(p, w) \/ UndoExpectMsgs(p, w)
      BY DEF ExpectMsgs, UndoExpectMsgs, LoggedInCall, CanCall
    <3> QED
      BY <2>1, <3>1, ZenonT(40)
      DEF ApiStep, StartAndPoll, SendStep, Send, SendFails, SendAfterEnd,
          RequestRefused, EndSending, ExpectMsg, ExpectLogInRequest,
          UndoExpectResponses, SetHandler, UnsetHandler, expVars
  <2>2. CASE ThreadStep(p)
    BY <1>2, <2>2 DEF ThreadStep, Fire, Flush, expVars
  <2>3. ASSUME NEW k \in Pipe, ReadStep(p, k) \/ Break(p, k) PROVE UNCHANGED msgOpen
    BY <1>2, <2>3
    DEF ReadStep, ReceiveBad, ReceiveInternal, ReceiveEarly, ReceiveNext,
        ReadFails, ReadIgnored, Break, expVars
  <2> QED BY <1>3, <2>1, <2>2, <2>3 DEF StepOf
<1>4. ASSUME NEW q \in Peer, StepOf(q), q # p PROVE msgOpen'[p] = msgOpen[p]
  BY <1>4, OtherUntouched DEF Untouched, OwnRcv
<1> QED BY <1>1, <1>3, <1>4, StepOfAPeer DEF vars

(* A peer that waits for more, and is not hosed, has run every handler.    *)
IdleEmpty(p) == mode[p] = "idle" /\ err[p] = "ok" => hq[p] = <<>>

LEMMA IdleEmptyNext ==
  ASSUME TypeInv, NEW p \in Peer, IdleEmpty(p), UserMove(p) PROVE IdleEmpty(p)'
<1>1. hq[p] \in Seq(Event)
  BY DEF TypeInv, TypeOK, UserTypes
<1>2. CASE Still(p)
  BY <1>2 DEF Still, IdleEmpty
<1>3. CASE SendErrs(p) \/ Hosed(p) \/ Informed(p)
  BY <1>3 DEF SendErrs, Hosed, Informed, IdleEmpty
<1>4. ASSUME NEW w \in Which, NEW ids \in Seq(Nat), Returns(p, w, ids) PROVE IdleEmpty(p)'
  BY <1>4 DEF Returns, IdleEmpty
<1>5. CASE Keeps(p)
  BY <1>5 DEF Keeps, IdleEmpty
<1>6. ASSUME NEW m \in Msg, Accepts(p, m) PROVE IdleEmpty(p)'
  BY <1>6 DEF Accepts, NextMode, IdleEmpty
<1>7. CASE Fires(p)
  <2>1. hq[p] # <<>> /\ hq'[p] = Tail(hq[p])
    BY <1>7, FiresIs
  <2>2. CASE Len(hq[p]) > 1
    BY <1>7, <2>2 DEF Fires, IdleEmpty
  <2>3. CASE ~(Len(hq[p]) > 1)
    <3>1. Tail(hq[p]) \in Seq(Event) /\ Len(Tail(hq[p])) = Len(hq[p]) - 1
          /\ Len(hq[p]) \in Nat
      BY <1>1, <2>1, HeadTailProperties
    <3>2. Len(Tail(hq[p])) \in Nat
      BY <3>1
    <3>3. Len(Tail(hq[p])) = 0
      <4>1. \A a, b \in Nat : a = b - 1 /\ ~(b > 1) => a = 0
        OBVIOUS
      <4> QED BY <2>3, <3>1, <3>2, <4>1
    <3> QED BY <2>1, <3>1, <3>3, EmptySeq DEF IdleEmpty
  <2> QED BY <2>2, <2>3
<1> QED BY <1>2, <1>3, <1>4, <1>5, <1>6, <1>7 DEF UserMove

(* What is accepted is what was sent under its ID.                         *)
LEMMA AcceptsTheSent ==
  ASSUME TypeInv, NEW p \in Peer, FlowOn(p), NEW m \in Msg, Accepts(p, m)
  PROVE  rcvNext[p] \in 1..Len(In(p)) /\ m = In(p)[rcvNext[p]].msg
<1>1. FlowOK(net[p], reasm[p], rcvNext[p], In(p))
  BY DEF FlowOn
<1>2. m.id = rcvNext[p] /\ Arrived(p, m)
  BY DEF Accepts
<1>3. rcvNext[p] \in Nat \ {0}
  BY <1>1 DEF FlowOK
<1>4. IsSent(m, rcvNext[p], In(p))
  <2>1. CASE m \in reasm[p]
    BY <1>1, <2>1 DEF FlowOK, Sound
  <2>2. ASSUME NEW k \in Pipe, net[p][k] # <<>>, m = Head(net[p][k])
        PROVE  IsSent(m, rcvNext[p], In(p))
    BY <1>1, <1>2, <1>3, <2>2, HeadIsSent
  <2> QED BY <1>2, <2>1, <2>2 DEF Arrived
<1>5. rcvNext[p] \in rcvNext[p]..Len(In(p)) /\ m = In(p)[rcvNext[p]].msg
  BY <1>2, <1>4 DEF IsSent
<1> QED BY <1>3, <1>5

(* What p has accepted is among what was sent, and stays.                  *)
LEMMA AcceptedStays ==
  ASSUME TypeInv, [Next]_vars, NEW p \in Peer, FlowOn(p),
         NEW i \in 1..(rcvNext[p] - 1)
  PROVE  i \in 1..Len(In(p)) /\ In(p)'[i] = In(p)[i]
<1>1. Other(p) \in Peer
  BY OtherPeer
<1>2. /\ Len(In(p)) \in Nat /\ \A j \in 1..Len(In(p)) : In(p)'[j] = In(p)[j]
  BY <1>1, SentStays DEF In
<1>3. rcvNext[p] \in Nat \ {0} /\ rcvNext[p] <= Len(In(p)) + 1
  BY DEF FlowOn, FlowOK
<1>4. \A x, l \in Nat : x <= l + 1 => 1..(x - 1) \subseteq 1..l
  OBVIOUS
<1>5. i \in 1..Len(In(p))
  BY <1>2, <1>3, <1>4
<1> QED BY <1>2, <1>5

(* A response is told from a notification by what was sent; what waits     *)
(* does so under its own union value.                                      *)
Classes(p) ==
  /\ \A e \in SeqRange(hq[p]) \cup SeqRange(log[p]) :
       IsMsg(e) => (IsRsp(e) <=> In(p)[e.id].msg.orig # 0)
  /\ \A w \in Which : \A i \in SeqRange(pending[p][w]) :
       In(p)[i].msg.orig = 0 /\ In(p)[i].msg.which = w

LEMMA ClassesNext ==
  ASSUME TypeInv, [Next]_vars, NEW p \in Peer, Known(p), FlowOn(p), Classes(p),
         UserMove(p), ~KeepsList, qdMsgs[p] = <<>>
  PROVE  Classes(p)'
<1> DEFINE x == rcvNext[p]
           Right(e) == IsMsg(e) => (IsRsp(e) <=> In(p)'[e.id].msg.orig # 0)
           Of(i, w) == In(p)'[i].msg.orig = 0 /\ In(p)'[i].msg.which = w
<1>1. /\ x \in Nat \ {0} /\ hq[p] \in Seq(Event) /\ log[p] \in Seq(Event)
      /\ \A e \in SeqRange(hq[p]) \cup SeqRange(log[p]) :
           IsMsg(e) => e.id \in 1..(x - 1)
      /\ \A w \in Which : /\ pending[p][w] \in Seq(Nat)
                          /\ \A i \in SeqRange(pending[p][w]) : i \in 1..(x - 1)
  BY KnownIs
<1>2. pending[p] \in [Which -> Seq(Nat)]
  BY DEF TypeInv, TypeOK, ExpTypes
<1>3. \A i \in 1..(x - 1) : In(p)'[i] = In(p)[i]
  BY AcceptedStays
<1>4. /\ \A e \in SeqRange(hq[p]) \cup SeqRange(log[p]) : Right(e)
      /\ \A w \in Which : \A i \in SeqRange(pending[p][w]) : Of(i, w)
  BY <1>1, <1>3 DEF Classes
<1>5. SUFFICES /\ \A e \in SeqRange(hq'[p]) \cup SeqRange(log'[p]) : Right(e)
               /\ \A w \in Which : \A i \in SeqRange(pending'[p][w]) : Of(i, w)
  BY DEF Classes
<1> HIDE DEF x
<1>6. CASE Idles(p)
  <2>1. /\ {e \in SeqRange(hq'[p]) : IsMsg(e)} = {e \in SeqRange(hq[p]) : IsMsg(e)}
        /\ {e \in SeqRange(log'[p]) : IsMsg(e)} = {e \in SeqRange(log[p]) : IsMsg(e)}
        /\ pending'[p] = pending[p]
    BY <1>1, <1>6, SaysKeeps DEF Idles
  <2>2. ASSUME NEW e \in SeqRange(hq'[p]) \cup SeqRange(log'[p]) PROVE Right(e)
    BY <1>4, <2>1
  <2> QED BY <1>4, <2>1, <2>2
<1>7. ASSUME NEW w \in Which, NEW ids \in Seq(Nat), Returns(p, w, ids)
      PROVE  /\ \A e \in SeqRange(hq'[p]) \cup SeqRange(log'[p]) : Right(e)
             /\ \A v \in Which : \A i \in SeqRange(pending'[p][v]) : Of(i, v)
  <2>1. hq'[p] = hq[p] /\ log'[p] = log[p] \o Events(ids)
    BY <1>7, ReturnsIs
  <2>2. \E rest \in Seq(Nat) : TakesFrom(p, w, ids, rest)
    BY <1>7, ReturnsIs
  <2>3. PICK rest \in Seq(Nat) : TakesFrom(p, w, ids, rest)
    BY <2>2
  <2>4. SeqRange(ids) \subseteq SeqRange(pending[p][w])
        /\ SeqRange(rest) \subseteq SeqRange(pending[p][w])
    <3>1. CASE rest = <<>> /\ ids = pending[p][w]
      BY <3>1, OfEmpty
    <3>2. CASE /\ pending[p][w] # <<>> /\ rest = Tail(pending[p][w])
               /\ ids = <<Head(pending[p][w])>>
      <4>1. SeqRange(pending[p][w]) = {Head(pending[p][w])} \cup SeqRange(rest)
        BY <1>1, <3>2, OfTail
      <4>2. SeqRange(ids) = {Head(pending[p][w])}
        BY <3>2 DEF SeqRange
      <4> QED BY <4>1, <4>2
    <3> QED BY <2>3, <3>1, <3>2 DEF TakesFrom
  <2>5. \A v \in Which : SeqRange(pending'[p][v]) \subseteq SeqRange(pending[p][v])
    BY <1>2, <2>3, <2>4 DEF TakesFrom
  <2>6. /\ SeqRange(log'[p]) = SeqRange(log[p]) \cup {Ev("msg", i) : i \in SeqRange(ids)}
    <3>1. /\ Events(ids) \in Seq(Event)
          /\ SeqRange(Events(ids)) = {Ev("msg", i) : i \in SeqRange(ids)}
      BY OfEvents
    <3> QED BY <1>1, <2>1, <3>1, OfConcat
  <2>7. ASSUME NEW i \in SeqRange(ids) PROVE Right(Ev("msg", i))
    <3>1. Of(i, w)
      BY <1>4, <2>4
    <3> QED BY <3>1 DEF Ev, IsRsp
  <2>8. ASSUME NEW e \in SeqRange(hq'[p]) \cup SeqRange(log'[p]) PROVE Right(e)
    <3> HIDE DEF Right
    <3> QED BY <1>4, <2>1, <2>6, <2>7
  <2> QED BY <1>4, <2>5, <2>8
<1>8. ASSUME NEW m \in Msg, Accepts(p, m)
      PROVE  /\ \A e \in SeqRange(hq'[p]) \cup SeqRange(log'[p]) : Right(e)
             /\ \A v \in Which : \A i \in SeqRange(pending'[p][v]) : Of(i, v)
  <2>1. In(p)'[x].msg = m
    <3>1. x \in 1..Len(In(p)) /\ m = In(p)[x].msg
      BY <1>8, AcceptsTheSent DEF x
    <3>2. In(p)'[x] = In(p)[x]
      BY <3>1, OtherPeer, SentStays DEF In
    <3> QED BY <3>1, <3>2
  <2>2. log'[p] = log[p]
    BY <1>8, AcceptsIs
  <2>3. CASE /\ hq'[p] = hq[p] /\ m.orig = 0 /\ m.which \in Which
             /\ pending'[p] = [pending[p] EXCEPT ![m.which] = Append(pending[p][m.which], x)]
    <3>1. ASSUME NEW v \in Which, NEW i \in SeqRange(pending'[p][v]) PROVE Of(i, v)
      <4>1. CASE v = m.which
        <5>1. SeqRange(Append(pending[p][v], x)) = SeqRange(pending[p][v]) \cup {x}
          BY <1>1, OfAppend
        <5>2. i \in SeqRange(pending[p][v]) \/ i = x
          BY <1>2, <2>3, <4>1, <5>1
        <5>3. Of(x, v)
          BY <2>1, <2>3, <4>1
        <5> QED BY <1>4, <5>2, <5>3
      <4>2. CASE v # m.which
        BY <1>2, <1>4, <2>3, <4>2
      <4> QED BY <4>1, <4>2
    <3> QED BY <1>4, <2>2, <2>3, <3>1
  <2>4. ASSUME pending'[p] = pending[p], NEW e \in Event, e.id = x,
               hq'[p] = Append(hq[p], e), IsRsp(e) <=> m.orig # 0
        PROVE  /\ \A f \in SeqRange(hq'[p]) \cup SeqRange(log'[p]) : Right(f)
               /\ \A v \in Which : \A i \in SeqRange(pending'[p][v]) : Of(i, v)
    <3>1. SeqRange(hq'[p]) = SeqRange(hq[p]) \cup {e}
      BY <1>1, <2>4, OfAppend
    <3>2. Right(e)
      BY <2>1, <2>4
    <3>3. ASSUME NEW f \in SeqRange(hq'[p]) \cup SeqRange(log'[p]) PROVE Right(f)
      <4> HIDE DEF Right
      <4> QED BY <1>4, <2>2, <3>1, <3>2
    <3> QED BY <1>4, <2>4, <3>3
  <2> QED BY <1>8, <2>3, <2>4, AcceptsIs DEF x
<1>9. CASE Fires(p)
  <2>1. /\ SeqRange(hq[p]) = {Head(hq[p])} \cup SeqRange(Tail(hq[p]))
        /\ hq'[p] = Tail(hq[p]) /\ pending'[p] = pending[p]
    BY <1>9, FiresIs
  <2>2. PICK f \in Event : /\ log'[p] = Append(log[p], f)
                           /\ f.id = Head(hq[p]).id
                           /\ IsMsg(f) <=> IsMsg(Head(hq[p]))
                           /\ IsRsp(f) <=> IsRsp(Head(hq[p]))
    BY <1>9, FiresIs
  <2>3. SeqRange(log'[p]) = SeqRange(log[p]) \cup {f}
    BY <1>1, <2>2, OfAppend
  <2>4. Right(f)
    <3>1. Right(Head(hq[p]))
      BY <1>4, <2>1
    <3> QED BY <2>2, <3>1
  <2>5. ASSUME NEW e \in SeqRange(hq'[p]) \cup SeqRange(log'[p]) PROVE Right(e)
    <3> HIDE DEF Right
    <3> QED BY <1>4, <2>1, <2>3, <2>4
  <2> QED BY <1>4, <2>1, <2>5
<1> QED BY <1>6, <1>7, <1>8, <1>9, MoveOfMessages

(* Under the union value of a notification that is posted nothing waits,   *)
(* and during a flush nothing will begin to: its expectation is open-ended.*)
PostedClears(p) ==
  \A e \in SeqRange(hq[p]) : IsMsg(e) /\ ~IsRsp(e) =>
    /\ pending[p][In(p)[e.id].msg.which] = <<>>
    /\ mode[p] = "flush" => In(p)[e.id].msg.which \in msgOpen[p]

LEMMA BeginsAFlush ==
  ASSUME NEW p \in Peer, UserMove(p), mode'[p] = "flush"
  PROVE  Still(p) \/ \E m \in Msg : Accepts(p, m)
BY DEF UserMove, SendErrs, Returns, Hosed, Informed, Keeps, Fires

LEMMA PostedClearsNext ==
  ASSUME TypeInv, [Next]_vars, NEW p \in Peer, Known(p), FlowOn(p),
         UserMove(p), ~KeepsList, qdMsgs[p] = <<>>,
         WaitingIsUnexpected, OnlyOpen(p), IdleEmpty(p), OneAtATime(p)',
         PostedClears(p)
  PROVE  PostedClears(p)'
<1> DEFINE x == rcvNext[p]
           W(e) == In(p)[e.id].msg.which
<1>1. /\ x \in Nat \ {0} /\ hq[p] \in Seq(Event) /\ log[p] \in Seq(Event)
      /\ \A e \in SeqRange(hq[p]) : IsMsg(e) => e.id \in 1..(x - 1)
  BY KnownIs
<1>2. pending[p] \in [Which -> Seq(Nat)]
  BY DEF TypeInv, TypeOK, ExpTypes
<1>3. \A i \in 1..(x - 1) : In(p)'[i] = In(p)[i] /\ i \in 1..Len(In(p))
  BY AcceptedStays
<1>4. \A i \in 1..Len(In(p)) : In(p)[i].msg.which \in Which
  <2>1. In(p) \in Seq(SentMsg)
    BY DEF FlowOn, FlowOK
  <2>2. \A i \in 1..Len(In(p)) : In(p)[i] \in SentMsg
    BY <2>1, ElementOfSeq
  <2>3. \A s \in SentMsg : s.msg.which \in Which
    BY DEF SentMsg, Msg
  <2> QED BY <2>2, <2>3
<1>5. mode'[p] = "flush" => msgOpen'[p] = msgOpen[p]
  BY OpenStays
<1>6. ASSUME NEW e \in SeqRange(hq[p]), IsMsg(e), ~IsRsp(e)
      PROVE  /\ W(e)' = W(e) /\ W(e) \in Which
             /\ pending[p][W(e)] = <<>>
             /\ mode[p] = "flush" => W(e) \in msgOpen[p]
  <2>1. e.id \in 1..(x - 1)
    BY <1>1, <1>6
  <2> QED BY <1>3, <1>4, <1>6, <2>1 DEF PostedClears
<1> HIDE DEF x
(* What was posted stays clear.                                            *)
<1>7. ASSUME \A w \in Which : pending[p][w] = <<>> => pending'[p][w] = <<>>,
             mode'[p] = "flush" => mode[p] = "flush",
             NEW e \in SeqRange(hq[p]), IsMsg(e), ~IsRsp(e)
      PROVE  /\ pending'[p][W(e)'] = <<>>
             /\ mode'[p] = "flush" => W(e)' \in msgOpen'[p]
  BY <1>5, <1>6, <1>7
<1>8. CASE Idles(p)
  <2>1. /\ {e \in SeqRange(hq'[p]) : IsMsg(e)} = {e \in SeqRange(hq[p]) : IsMsg(e)}
        /\ pending'[p] = pending[p]
    BY <1>1, <1>8, SaysKeeps DEF Idles
  <2>2. mode'[p] = "flush" => mode[p] = "flush"
    <3>1. ASSUME NEW m \in Msg PROVE ~Accepts(p, m)
      BY <1>1, <1>8 DEF Accepts, Idles, x
    <3>2. Still(p) /\ mode'[p] = "flush" => mode[p] = "flush"
      BY DEF Still
    <3> QED BY <3>1, <3>2, BeginsAFlush
  <2>3. ASSUME NEW e \in SeqRange(hq'[p]), IsMsg(e) PROVE e \in SeqRange(hq[p])
    BY <2>1, <2>3
  <2> QED BY <1>7, <2>1, <2>2, <2>3 DEF PostedClears
<1>9. ASSUME NEW w \in Which, NEW ids \in Seq(Nat), Returns(p, w, ids)
      PROVE  PostedClears(p)'
  <2>1. hq'[p] = hq[p] /\ \E rest \in Seq(Nat) : TakesFrom(p, w, ids, rest)
    BY <1>9, ReturnsIs
  <2>2. PICK rest \in Seq(Nat) : TakesFrom(p, w, ids, rest)
    BY <2>1
  <2>3. ASSUME NEW v \in Which, pending[p][v] = <<>> PROVE pending'[p][v] = <<>>
    BY <1>2, <2>2, <2>3 DEF TakesFrom
  <2>4. mode'[p] = mode[p]
    BY <1>9 DEF Returns
  <2> QED BY <1>7, <2>1, <2>3, <2>4 DEF PostedClears
<1>10. ASSUME NEW m \in Msg, Accepts(p, m) PROVE PostedClears(p)'
  <2>1. /\ mode[p] \in {"flush", "idle"} /\ err[p] = "ok"
        /\ mode'[p] = "flush" => TwoPipes
    BY <1>10 DEF Accepts, Arrived, OneAtATime, TwoPipes
  <2>3. CASE /\ hq'[p] = hq[p] /\ m.which \in Which \ (msgOnce[p] \cup msgOpen[p])
             /\ pending'[p] = [pending[p] EXCEPT ![m.which] = Append(pending[p][m.which], x)]
    <3>1. ASSUME NEW e \in SeqRange(hq[p]), IsMsg(e), ~IsRsp(e)
          PROVE  /\ pending'[p][W(e)'] = <<>>
                 /\ mode'[p] = "flush" => W(e)' \in msgOpen'[p]
      <4>1. mode[p] = "flush"
        <5>1. hq[p] = <<>> => SeqRange(hq[p]) = {}
          BY OfEmpty
        <5> QED BY <2>1, <3>1, <5>1 DEF IdleEmpty
      <4>2. W(e) # m.which
        BY <1>6, <2>3, <3>1, <4>1
      <4>3. pending'[p][W(e)] = <<>>
        BY <1>2, <1>6, <2>3, <3>1, <4>2
      <4> QED BY <1>5, <1>6, <3>1, <4>1, <4>3
    <3> QED BY <2>3, <3>1 DEF PostedClears
  <2>4. ASSUME pending'[p] = pending[p], NEW f \in Event, IsMsg(f), f.id = x,
               hq'[p] = Append(hq[p], f),
               ~IsRsp(f) => m.which \in msgOnce[p] \cup msgOpen[p]
        PROVE  PostedClears(p)'
    <3>1. SeqRange(hq'[p]) = SeqRange(hq[p]) \cup {f}
      BY <1>1, <2>4, OfAppend
    <3>2. ASSUME NEW e \in SeqRange(hq[p]), IsMsg(e), ~IsRsp(e)
          PROVE  /\ pending'[p][W(e)'] = <<>>
                 /\ mode'[p] = "flush" => W(e)' \in msgOpen'[p]
      <4>1. mode[p] = "flush"
        <5>1. hq[p] = <<>> => SeqRange(hq[p]) = {}
          BY OfEmpty
        <5> QED BY <2>1, <3>2, <5>1 DEF IdleEmpty
      <4> QED BY <1>7, <2>4, <3>2, <4>1
    <3>3. ASSUME ~IsRsp(f)
          PROVE  /\ pending'[p][W(f)'] = <<>>
                 /\ mode'[p] = "flush" => W(f)' \in msgOpen'[p]
      <4>1. In(p)'[x].msg = m
        <5>1. x \in 1..Len(In(p)) /\ m = In(p)[x].msg
          BY <1>10, AcceptsTheSent DEF x
        <5>2. In(p)'[x] = In(p)[x]
          BY <5>1, OtherPeer, SentStays DEF In
        <5> QED BY <5>1, <5>2
      <4>2. pending[p][m.which] = <<>>
        BY <2>4, <3>3 DEF WaitingIsUnexpected
      <4>3. mode'[p] = "flush" => m.which \in msgOpen[p]
        <5>1. ASSUME mode'[p] = "flush" PROVE reasm[p] # {}
          BY <1>10, <5>1 DEF Accepts, NextMode
        <5>2. ASSUME mode'[p] = "flush" PROVE msgOnce[p] = {}
          BY <2>1, <5>1, <5>2 DEF OnlyOpen, ServerWaits
        <5> QED BY <2>4, <3>3, <5>2
      <4> QED BY <1>5, <2>4, <4>1, <4>2, <4>3
    <3> QED BY <3>1, <3>2, <3>3 DEF PostedClears
  <2> QED BY <1>10, <2>3, <2>4, AcceptsIs DEF x
<1>11. CASE Fires(p)
  <2>1. /\ SeqRange(hq[p]) = {Head(hq[p])} \cup SeqRange(Tail(hq[p]))
        /\ hq'[p] = Tail(hq[p]) /\ pending'[p] = pending[p]
    BY <1>11, FiresIs
  <2>2. mode'[p] # "flush"
    BY <1>11 DEF Fires
  <2> QED BY <1>7, <2>1, <2>2 DEF PostedClears
<1> QED BY <1>8, <1>9, <1>10, <1>11, MoveOfMessages

(* Two in-messages of p of one class: notifications of one union value, or *)
(* responses to one request.                                               *)
Same(p, i, j) ==
  LET m == In(p)[i].msg
      n == In(p)[j].msg
  IN  m.orig = n.orig /\ (m.orig = 0 => m.which = n.which)

(* All that is known of what p has received, before a step.                *)
InOrderBase(p) ==
  /\ TypeInv /\ Known(p) /\ FlowOn(p) /\ Sorted(p) /\ Placed(p)
  /\ Classes(p) /\ PostedClears(p)

(* What is handed over next is the first of its class that is left: what a *)
(* handler hands over, and what a call returns.                            *)
LEMMA NextOfItsClass ==
  ASSUME NEW p \in Peer, InOrderBase(p)
  PROVE  /\ hq[p] # <<>> /\ IsMsg(Head(hq[p])) =>
              /\ Head(hq[p]).id \in 1..(rcvNext[p] - 1)
              /\ \A j \in 1..Head(hq[p]).id :
                   Same(p, Head(hq[p]).id, j) =>
                     j \in MsgIds(log[p]) \cup {Head(hq[p]).id}
         /\ err[p] = "ok" =>
              \A w \in Which : \A i \in SeqRange(pending[p][w]) : \A j \in 1..i :
                Same(p, i, j) => j \in MsgIds(log[p]) \cup SeqRange(pending[p][w])
<1> DEFINE x == rcvNext[p]
<1>1. /\ x \in Nat \ {0} /\ hq[p] \in Seq(Event) /\ SeqRange(hq[p]) \subseteq Event
      /\ \A e \in SeqRange(hq[p]) : IsMsg(e) => e.id \in 1..(x - 1)
      /\ \A w \in Which : /\ pending[p][w] \in Seq(Nat)
                          /\ \A i \in SeqRange(pending[p][w]) : i \in 1..(x - 1)
  BY KnownIs DEF InOrderBase
<1>2. \A i \in 1..(x - 1) : InHand(p, i) \/ (err[p] # "ok" /\ i = x - 1)
  BY DEF InOrderBase, Placed, NoneMissing
<1>3. /\ \A e \in SeqRange(hq[p]) :
           IsMsg(e) => (IsRsp(e) <=> In(p)[e.id].msg.orig # 0)
      /\ \A w \in Which : \A i \in SeqRange(pending[p][w]) :
           In(p)[i].msg.orig = 0 /\ In(p)[i].msg.which = w
      /\ \A e \in SeqRange(hq[p]) : IsMsg(e) /\ ~IsRsp(e) =>
           pending[p][In(p)[e.id].msg.which] = <<>>
  BY DEF InOrderBase, Classes, PostedClears
<1>4. ASSUME NEW e \in SeqRange(hq[p]), IsMsg(e), NEW w \in Which,
             NEW i \in SeqRange(pending[p][w])
      PROVE  ~Same(p, e.id, i) /\ ~Same(p, i, e.id)
  <2>1. pending[p][w] # <<>>
    BY <1>4, OfEmpty
  <2> QED BY <1>3, <1>4, <2>1 DEF Same
<1>5. ASSUME NEW w \in Which, NEW v \in Which, NEW i \in SeqRange(pending[p][w]),
             NEW j \in SeqRange(pending[p][v]), Same(p, i, j)
      PROVE  w = v
  BY <1>3, <1>5 DEF Same
<1>6. \A j : j \in MsgIds(hq[p]) => \E e \in SeqRange(hq[p]) : IsMsg(e) /\ e.id = j
  BY DEF MsgIds, IdsIn
<1>7. ASSUME hq[p] # <<>>, IsMsg(Head(hq[p]))
      PROVE  /\ Head(hq[p]).id \in 1..(x - 1)
             /\ \A j \in 1..Head(hq[p]).id :
                  Same(p, Head(hq[p]).id, j) =>
                    j \in MsgIds(log[p]) \cup {Head(hq[p]).id}
  <2> DEFINE h == Head(hq[p])
             t == Tail(hq[p])
  <2>1. /\ SeqRange(hq[p]) = {h} \cup SeqRange(t)
        /\ \A f \in SeqRange(t) : <<h, f>> \in Rising
    BY <1>1, <1>7, OfTail DEF InOrderBase, Sorted
  <2> HIDE DEF h, t
  <2>2. h \in SeqRange(hq[p]) /\ IsMsg(h)
    BY <1>7, <2>1 DEF h
  <2>3. h \in Event /\ h.id \in 1..(x - 1)
    BY <1>1, <2>2
  <2>4. ASSUME NEW j \in 1..h.id, Same(p, h.id, j), j # h.id
        PROVE  j \in MsgIds(log[p])
    <3> HIDE DEF x
    <3>1. j \in 1..(x - 1) /\ j # x - 1
      BY <1>1, <2>3, <2>4
    <3>2. InHand(p, j)
      BY <1>2, <3>1
    <3>3. j \notin MsgIds(hq[p])
      <4>1. SUFFICES ASSUME NEW f \in SeqRange(hq[p]), IsMsg(f), f.id = j
                     PROVE  FALSE
        BY <1>6
      <4>2. f \in SeqRange(t) /\ f \in Event
        BY <1>1, <2>1, <2>4, <4>1
      <4>3. h.id < f.id
        BY <2>1, <2>2, <2>3, <4>1, <4>2, Relations
      <4> QED BY <2>3, <2>4, <4>1, <4>3
    <3>4. \A w \in Which : j \notin SeqRange(pending[p][w])
      BY <1>4, <2>2, <2>4
    <3> QED BY <3>2, <3>3, <3>4 DEF InHand
  <2> QED BY <2>3, <2>4 DEF h
<1>8. ASSUME err[p] = "ok", NEW w \in Which, NEW i \in SeqRange(pending[p][w]),
             NEW j \in 1..i, Same(p, i, j)
      PROVE  j \in MsgIds(log[p]) \cup SeqRange(pending[p][w])
  <2>1. j \in 1..(x - 1)
    <3>1. x \in Nat \ {0} /\ i \in 1..(x - 1)
      BY <1>1
    <3> HIDE DEF x
    <3> QED BY <3>1
  <2>2. InHand(p, j)
    BY <1>2, <1>8, <2>1
  <2>3. j \notin MsgIds(hq[p])
    BY <1>4, <1>6, <1>8
  <2>4. \A v \in Which : j \in SeqRange(pending[p][v]) => v = w
    BY <1>5, <1>8
  <2> QED BY <2>2, <2>3, <2>4 DEF InHand
<1> QED BY <1>7, <1>8

(* The messages of I are handed over: new ones, and with them all that     *)
(* were sent before them in their classes.                                 *)
HandsOver(p, I) ==
  /\ I \subseteq 1..(rcvNext[p] - 1) /\ I \cap MsgIds(log[p]) = {}
  /\ \A i \in I : \A j \in 1..i : Same(p, i, j) => j \in MsgIds(log[p]) \cup I
  /\ MsgIds(log'[p]) = MsgIds(log[p]) \cup I

(* They are, in the order sent.                                            *)
KindRising(s) == {r \in Event \X Event :
  r[1].kind = "msg" /\ r[2].kind = "msg"
    /\ s[r[1].id].msg.which = s[r[2].id].msg.which => r[1].id < r[2].id}

HandedInOrder(p) == Pairwise(log[p], KindRising(In(p)))

Down(p) == \A i \in MsgIds(log[p]) : \A j \in 1..i :
             Same(p, i, j) => j \in MsgIds(log[p])

LEMMA KindRisingIs ==
  \A s : \A e, f \in Event :
    <<e, f>> \in KindRising(s) <=>
      (e.kind = "msg" /\ f.kind = "msg" /\ s[e.id].msg.which = s[f.id].msg.which
         => e.id < f.id)
BY DEF KindRising

(* Notifications handed over are of one class if they are of one union     *)
(* value.                                                                  *)
LEMMA KindIs ==
  \A e : e.kind = "msg" <=> IsMsg(e) /\ ~IsRsp(e)
BY DEF IsMsg, IsRsp, MsgKinds

(* One more handed over comes after those of its class handed over before. *)
LEMMA ComesAfter ==
  ASSUME NEW p \in Peer, InOrderBase(p), Down(p),
         NEW g \in SeqRange(log[p]), g.kind = "msg",
         NEW i \in 1..(rcvNext[p] - 1), i \notin MsgIds(log[p]),
         In(p)[i].msg.orig = 0, In(p)[g.id].msg.which = In(p)[i].msg.which
  PROVE  g.id < i
<1>1. g.id \in MsgIds(log[p]) /\ IsMsg(g) /\ ~IsRsp(g)
  BY KindIs DEF MsgIds, IdsIn
<1>2. g.id \in 1..(rcvNext[p] - 1) /\ In(p)[g.id].msg.orig = 0
  BY <1>1, KnownIs DEF InOrderBase, Classes
<1>3. Same(p, g.id, i)
  BY <1>2 DEF Same
<1>4. i \notin 1..g.id
  BY <1>1, <1>3 DEF Down
<1>5. g.id \in Nat /\ i \in Nat /\ i >= 1
  BY <1>2
<1> QED BY <1>4, <1>5

LEMMA InOrderIs ==
  ASSUME NEW p \in Peer, InOrderBase(p)
  PROVE  /\ rcvNext[p] \in Nat \ {0} /\ hq[p] \in Seq(Event) /\ log[p] \in Seq(Event)
         /\ SeqRange(hq[p]) \subseteq Event /\ SeqRange(log[p]) \subseteq Event
         /\ \A w \in Which :
              /\ pending[p][w] \in Seq(Nat)
              /\ \A i \in SeqRange(pending[p][w]) : i \in 1..(rcvNext[p] - 1)
         /\ qdMsgs[p] = <<>> /\ MsgIds(log[p]) \cap MsgIds(hq[p]) = {}
         /\ \A w \in Which : SeqRange(pending[p][w]) \cap MsgIds(log[p]) = {}
BY KnownIs DEF InOrderBase, Placed, AtMostOnce

LEMMA HandsOverNothing ==
  ASSUME NEW p, MsgIds(log'[p]) = MsgIds(log[p]) PROVE HandsOver(p, {})
BY DEF HandsOver

LEMMA HandedByACall ==
  ASSUME ~KeepsList, NEW p \in Peer, InOrderBase(p), Down(p), HandedInOrder(p),
         NEW w \in Which, NEW ids \in Seq(Nat), Returns(p, w, ids)
  PROVE  /\ HandsOver(p, SeqRange(ids))
         /\ Pairwise(log'[p], KindRising(In(p)))
<1> DEFINE R == KindRising(In(p))
           I == SeqRange(ids)
           es == Events(ids)
           q == pending[p][w]
<1>1. /\ hq[p] \in Seq(Event) /\ log[p] \in Seq(Event) /\ SeqRange(log[p]) \subseteq Event
      /\ q \in Seq(Nat) /\ \A i \in SeqRange(q) : i \in 1..(rcvNext[p] - 1)
      /\ SeqRange(q) \cap MsgIds(log[p]) = {}
  BY InOrderIs
<1>2. err[p] = "ok" /\ log'[p] = log[p] \o es
      /\ \E rest \in Seq(Nat) : TakesFrom(p, w, ids, rest)
  <2>1. TypeInv /\ (KeepsList \/ qdMsgs[p] = <<>>)
    BY InOrderIs DEF InOrderBase
  <2> QED BY <2>1, ReturnsIs
<1>3. Pairwise(q, IdRising)
  BY DEF InOrderBase, Sorted
<1>4. \A i \in SeqRange(q) : \A j \in 1..i :
        Same(p, i, j) => j \in MsgIds(log[p]) \cup SeqRange(q)
  BY <1>2, NextOfItsClass
<1>5. \A i \in SeqRange(q) : In(p)[i].msg.orig = 0 /\ In(p)[i].msg.which = w
  BY DEF InOrderBase, Classes
<1>6. /\ I \subseteq SeqRange(q) /\ Pairwise(ids, IdRising)
      /\ \A i \in I : \A j \in 1..i : j \in SeqRange(q) => j \in I
  <2>0. PICK rest \in Seq(Nat) : TakesFrom(p, w, ids, rest)
    BY <1>2
  <2>1. CASE rest = <<>> /\ ids = q
    BY <1>3, <2>1
  <2>2. CASE q # <<>> /\ rest = Tail(q) /\ ids = <<Head(q)>>
    <3> DEFINE i == Head(q)
    <3>1. /\ i \in Nat /\ SeqRange(q) = {i} \cup SeqRange(rest)
          /\ \A j \in SeqRange(rest) : <<i, j>> \in IdRising
      BY <1>1, <1>3, <2>2, OfTail
    <3>2. ids = <<i>> /\ I = {i} /\ Pairwise(<<i>>, IdRising)
      BY <2>2 DEF SeqRange, Pairwise
    <3> HIDE DEF i, I, q
    <3>3. ASSUME NEW j \in 1..i, j \in SeqRange(q) PROVE j = i
      <4>1. j \in Nat /\ j <= i
        BY <3>1
      <4>2. ASSUME j \in SeqRange(rest) PROVE FALSE
        <5>1. <<i, j>> \in IdRising
          BY <3>1, <4>2
        <5>2. i < j
          BY <3>1, <4>1, <5>1, Relations
        <5> QED BY <3>1, <4>1, <5>2
      <4> QED BY <3>1, <3>3, <4>2
    <3> QED BY <3>1, <3>2, <3>3
  <2> QED BY <2>0, <2>1, <2>2 DEF TakesFrom
<1>7. es \in Seq(Event) /\ SeqRange(es) = {Ev("msg", i) : i \in I} /\ MsgIds(es) = I
  BY OfEvents, IdsInUnion DEF MsgIds
<1> HIDE DEF es
<1>8. HandsOver(p, I)
  <2>1. Ev("msg", 0) \in Event
    BY DEF Ev, Event
  <2>2. MsgIds(log'[p]) = MsgIds(log[p]) \cup I
    BY <1>1, <1>2, <1>7, <2>1, MsgIdsOf
  <2>3. I \subseteq 1..(rcvNext[p] - 1) /\ I \cap MsgIds(log[p]) = {}
    BY <1>1, <1>6
  <2>4. ASSUME NEW i \in I, NEW j \in 1..i, Same(p, i, j)
        PROVE  j \in MsgIds(log[p]) \cup I
    BY <1>4, <1>6, <2>4
  <2> QED BY <2>2, <2>3, <2>4 DEF HandsOver
<1>9. Pairwise(es, R)
  <2>1. ASSUME NEW i \in Nat, NEW j \in Nat, <<i, j>> \in IdRising
        PROVE  <<Ev("msg", i), Ev("msg", j)>> \in R
    <3>1. Ev("msg", i) \in Event /\ Ev("msg", j) \in Event
          /\ Ev("msg", i).id = i /\ Ev("msg", j).id = j
      BY DEF Ev, Event
    <3> QED BY <2>1, <3>1, KindRisingIs, Relations
  <2> HIDE DEF R
  <2> QED BY <1>6, <2>1, OfEventIds DEF es
<1>10. Cross(log[p], es, R)
  <2> SUFFICES ASSUME NEW g \in SeqRange(log[p]), NEW f \in SeqRange(es)
               PROVE  <<g, f>> \in R
    BY DEF Cross
  <2>1. PICK i \in I : f = Ev("msg", i)
    BY <1>7
  <2>2. /\ f \in Event /\ f.id = i /\ f.kind = "msg" /\ g \in Event
    <3>1. i \in Nat
      BY <1>1, <1>6
    <3> QED BY <1>1, <2>1, <3>1 DEF Ev, Event
  <2>3. ASSUME g.kind = "msg", In(p)[g.id].msg.which = In(p)[i].msg.which
        PROVE  g.id < i
    <3>1. i \in 1..(rcvNext[p] - 1) /\ i \notin MsgIds(log[p])
      BY <1>1, <1>6
    <3>2. In(p)[i].msg.orig = 0
      BY <1>5, <1>6
    <3> QED BY <2>3, <3>1, <3>2, ComesAfter
  <2> QED BY <2>2, <2>3, KindRisingIs
<1>11. Pairwise(log'[p], R)
  <2>1. Pairwise(log[p], R)
    BY DEF HandedInOrder
  <2> HIDE DEF R
  <2> QED BY <1>1, <1>2, <1>7, <1>9, <1>10, <2>1, OfConcat
<1> QED BY <1>8, <1>11

LEMMA HandedByAHandler ==
  ASSUME NEW p \in Peer, InOrderBase(p), Down(p), HandedInOrder(p), Fires(p)
  PROVE  /\ HandsOver(p, IF IsMsg(Head(hq[p])) THEN {Head(hq[p]).id} ELSE {})
         /\ Pairwise(log'[p], KindRising(In(p)))
<1> DEFINE R == KindRising(In(p))
           h == Head(hq[p])
<1>1. /\ log[p] \in Seq(Event) /\ SeqRange(log[p]) \subseteq Event
      /\ MsgIds(log[p]) \cap MsgIds(hq[p]) = {}
  BY InOrderIs
<1>2. /\ hq[p] # <<>> /\ h \in Event /\ h \in SeqRange(hq[p])
  BY FiresIs DEF InOrderBase
<1>3. \E f \in Event : /\ log'[p] = Append(log[p], f) /\ f.id = h.id
                       /\ IsMsg(f) <=> IsMsg(h)
                       /\ IsRsp(f) <=> IsRsp(h)
  BY FiresIs DEF InOrderBase
<1>4. PICK f \in Event : /\ log'[p] = Append(log[p], f) /\ f.id = h.id
                         /\ IsMsg(f) <=> IsMsg(h)
                         /\ IsRsp(f) <=> IsRsp(h)
  BY <1>3
<1>5. IsMsg(h) => /\ h.id \in 1..(rcvNext[p] - 1) /\ h.id \notin MsgIds(log[p])
                  /\ \A j \in 1..h.id :
                       Same(p, h.id, j) => j \in MsgIds(log[p]) \cup {h.id}
  <2>1. IsMsg(h) => h.id \in MsgIds(hq[p])
    BY <1>2 DEF MsgIds, IdsIn
  <2> QED BY <1>1, <1>2, <2>1, NextOfItsClass
<1>6. IsMsg(h) => (IsRsp(h) <=> In(p)[h.id].msg.orig # 0)
  BY <1>2 DEF InOrderBase, Classes
<1> HIDE DEF h
<1>7. HandsOver(p, IF IsMsg(h) THEN {h.id} ELSE {})
  <2>1. MsgIds(log'[p]) = MsgIds(log[p]) \cup IF IsMsg(f) THEN {f.id} ELSE {}
    BY <1>1, <1>4, MsgIdsOf
  <2>2. CASE IsMsg(h)
    BY <1>4, <1>5, <2>1, <2>2 DEF HandsOver
  <2>3. CASE ~IsMsg(h)
    BY <1>4, <2>1, <2>3, HandsOverNothing
  <2> QED BY <2>2, <2>3
<1>8. ASSUME NEW g \in SeqRange(log[p]) PROVE <<g, f>> \in R
  <2>1. ASSUME g.kind = "msg", f.kind = "msg",
               In(p)[g.id].msg.which = In(p)[f.id].msg.which
        PROVE  g.id < f.id
    <3>1. IsMsg(h) /\ ~IsRsp(h)
      BY <1>4, <2>1, KindIs
    <3> QED BY <1>4, <1>5, <1>6, <2>1, <3>1, ComesAfter
  <2> QED BY <1>1, <1>4, <2>1, KindRisingIs
<1>9. Pairwise(log'[p], R)
  <2>1. Pairwise(log[p], R)
    BY DEF HandedInOrder
  <2> HIDE DEF R
  <2> QED BY <1>1, <1>4, <1>8, <2>1, OfAppend
<1> QED BY <1>7, <1>9 DEF h

(* A step hands over such messages, or none.                               *)
LEMMA HandedNext ==
  ASSUME ~KeepsList, NEW p \in Peer, InOrderBase(p), Down(p), HandedInOrder(p),
         UserMove(p)
  PROVE  \E I : HandsOver(p, I) /\ Pairwise(log'[p], KindRising(In(p)))
<1> DEFINE R == KindRising(In(p))
<1>1. log[p] \in Seq(Event) /\ SeqRange(log[p]) \subseteq Event /\ Pairwise(log[p], R)
  BY InOrderIs DEF HandedInOrder
<1> HIDE DEF R
<1>2. CASE Idles(p)
  <2>1. MsgIds(log'[p]) = MsgIds(log[p])
    BY <1>1, <1>2, SaysKeeps, IdsInUnion DEF Idles, MsgIds
  <2>2. CASE log'[p] = log[p]
    BY <1>1, <2>1, <2>2, HandsOverNothing DEF R
  <2>3. ASSUME NEW e \in Event, ~IsMsg(e), log'[p] = Append(log[p], e)
        PROVE  Pairwise(log'[p], R)
    <3>1. e.kind # "msg"
      BY <2>3, KindIs
    <3>2. \A g \in SeqRange(log[p]) : <<g, e>> \in R
      BY <1>1, <3>1, KindRisingIs DEF R
    <3> QED BY <1>1, <2>3, <3>2, OfAppend
  <2>4. Says(log[p], log'[p])
    BY <1>2 DEF Idles
  <2> QED BY <2>1, <2>2, <2>3, <2>4, HandsOverNothing DEF R, Says
<1>3. ASSUME NEW w \in Which, NEW ids \in Seq(Nat), Returns(p, w, ids)
      PROVE  \E I : HandsOver(p, I) /\ Pairwise(log'[p], R)
  BY <1>3, HandedByACall DEF R
<1>4. ASSUME NEW m \in Msg, Accepts(p, m)
      PROVE  \E I : HandsOver(p, I) /\ Pairwise(log'[p], R)
  <2>1. log'[p] = log[p]
    BY <1>4 DEF Accepts
  <2> QED BY <1>1, <2>1, HandsOverNothing
<1>5. CASE Fires(p)
  BY <1>5, HandedByAHandler DEF R
<1> QED BY <1>2, <1>3, <1>4, <1>5, MoveOfMessages DEF R

LEMMA HandedStays ==
  ASSUME NEW p \in Peer, NEW I, HandsOver(p, I), InOrderBase(p), [Next]_vars,
         Down(p), Pairwise(log'[p], KindRising(In(p))), log'[p] \in Seq(Event)
  PROVE  Down(p)' /\ HandedInOrder(p)'
<1> DEFINE L == MsgIds(log[p])
           x == rcvNext[p]
<1>1. L \subseteq 1..(x - 1) /\ I \subseteq 1..(x - 1) /\ x \in Nat \ {0}
  BY KnownIs DEF InOrderBase, HandsOver, MsgIds, IdsIn
<1>2. \A i \in 1..(x - 1) : In(p)'[i] = In(p)[i]
  BY AcceptedStays DEF InOrderBase
<1>3. MsgIds(log'[p]) = L \cup I
  BY DEF HandsOver
<1> HIDE DEF L, x
<1>4. Down(p)'
  <2> SUFFICES ASSUME NEW i \in L \cup I, NEW j \in 1..i, Same(p, i, j)'
               PROVE  j \in L \cup I
    BY <1>3 DEF Down
  <2>1. i \in 1..(x - 1)
    BY <1>1
  <2>2. j \in 1..(x - 1)
    BY <1>1, <2>1
  <2>3. Same(p, i, j)
    BY <1>2, <2>1, <2>2 DEF Same
  <2>4. CASE i \in L
    BY <2>3, <2>4 DEF Down, L
  <2>5. CASE i \in I
    BY <2>3, <2>5 DEF HandsOver, L
  <2> QED BY <2>4, <2>5
<1>5. HandedInOrder(p)'
  <2>1. ASSUME NEW n \in 1..Len(log'[p])
        PROVE  /\ log'[p][n] \in Event
               /\ log'[p][n].kind = "msg" => In(p)'[log'[p][n].id] = In(p)[log'[p][n].id]
    <3>1. log'[p][n] \in Event /\ log'[p][n] \in SeqRange(log'[p])
      BY ElementOfSeq DEF SeqRange
    <3>2. log'[p][n].kind = "msg" => log'[p][n].id \in L \cup I
      BY <1>3, <3>1, KindIs DEF MsgIds, IdsIn
    <3> QED BY <1>1, <1>2, <3>1, <3>2
  <2>2. ASSUME NEW n \in 1..Len(log'[p]), NEW m \in 1..Len(log'[p]), n < m
        PROVE  <<log'[p][n], log'[p][m]>> \in KindRising(In(p)')
    <3>1. <<log'[p][n], log'[p][m]>> \in KindRising(In(p))
      BY <2>2 DEF Pairwise
    <3> QED BY <2>1, <3>1, KindRisingIs
  <2>3. Pairwise(log'[p], KindRising(In(p)'))
    BY <2>2 DEF Pairwise
  <2> QED BY <2>3 DEF HandedInOrder
<1> QED BY <1>4, <1>5

-----------------------------------------------------------------------------
(* The inductive invariant of all that is said of the order within a class.*)
ClassOrder(p) == /\ OnlyOpen(p) /\ IdleEmpty(p) /\ Classes(p) /\ PostedClears(p)
                 /\ Down(p) /\ HandedInOrder(p)

ClassInv == PlaceInv /\ WaitingIsUnexpected /\ \A p \in Peer : ClassOrder(p)

LEMMA ClassInvInit == Init => ClassInv
<1> SUFFICES ASSUME Init PROVE ClassInv
  OBVIOUS
<1>1. /\ WaitingIsUnexpected
      /\ \A p \in Peer : msgOnce[p] = {} /\ msgOpen[p] = {} /\ reasm[p] = {}
  BY DEF Init, WaitingIsUnexpected
<1>2. ASSUME NEW p \in Peer PROVE ClassOrder(p)
  <2>1. /\ log[p] = <<>> /\ hq[p] = <<>>
        /\ \A w \in Which : pending[p][w] = <<>>
    BY EmptyInit
  <2>2. MsgIds(<<>>) = {} /\ SeqRange(<<>>) = {}
    BY OfEmpty DEF MsgIds, IdsIn
  <2>3. OnlyOpen(p)
    BY <1>1, <2>1, <2>2 DEF OnlyOpen, ServerWaits, ToldOfOne
  <2> QED BY <1>1, <2>1, <2>2, <2>3, OfEmpty
    DEF ClassOrder, IdleEmpty, Classes, PostedClears, Down, HandedInOrder
<1> QED BY <1>1, <1>2, PlaceInvInit DEF ClassInv

LEMMA ClassInvBase ==
  ClassInv => \A p \in Peer : InOrderBase(p) /\ qdMsgs[p] = <<>>
BY OrderBaseParts
DEF ClassInv, PlaceInv, ClassOrder, InOrderBase, Placed, AtMostOnce

LEMMA ClassInvMoves ==
  ASSUME ClassInv, [Next]_vars, NEW p \in Peer
  PROVE  UserMove(p) /\ TypeInv /\ InOrderBase(p) /\ Down(p) /\ HandedInOrder(p)
BY OrderBaseParts, UserMoveNext, ClassInvBase DEF ClassInv, PlaceInv, ClassOrder

LEMMA ClassInvNext == ~KeepsList /\ NoOneOffs /\ ClassInv /\ [Next]_vars => ClassInv'
<1> SUFFICES ASSUME ~KeepsList, NoOneOffs, ClassInv, [Next]_vars PROVE ClassInv'
  OBVIOUS
<1>1. PlaceInv' /\ WaitingIsUnexpected'
  BY PlaceInvNext, WaitingNext, OrderBaseParts DEF ClassInv, PlaceInv
<1>2. ASSUME NEW p \in Peer PROVE ClassOrder(p)'
  <2>1. /\ UserMove(p) /\ InOrderBase(p) /\ qdMsgs[p] = <<>>
        /\ TypeInv /\ Known(p) /\ FlowOn(p)
        /\ ClassOrder(p) /\ WaitingIsUnexpected
    BY ClassInvMoves, ClassInvBase DEF InOrderBase, ClassInv
  <2>2. OneAtATime(p)' /\ TypeInv'
    BY <1>1, OrderBaseParts DEF PlaceInv, OrderBase, BlameBase, FlowInv, ThreadInv
  <2>3. OnlyOpen(p)' /\ IdleEmpty(p)' /\ Classes(p)'
    BY <2>1, OnlyOpenNext, IdleEmptyNext, ClassesNext DEF ClassOrder
  <2>4. PostedClears(p)'
    BY <2>1, <2>2, PostedClearsNext DEF ClassOrder
  <2>5. \E I : HandsOver(p, I) /\ Pairwise(log'[p], KindRising(In(p)))
    BY <2>1, HandedNext DEF ClassOrder
  <2>6. log'[p] \in Seq(Event)
    BY <2>2 DEF TypeInv, TypeOK, UserTypes
  <2>7. Down(p)' /\ HandedInOrder(p)'
    BY <2>1, <2>5, <2>6, HandedStays DEF ClassOrder
  <2> QED BY <2>3, <2>4, <2>7 DEF ClassOrder
<1> QED BY <1>1, <1>2 DEF ClassInv

(* The notifications of one union value reach the user in the order sent,  *)
(* by handlers and by the calls that return those that waited, however     *)
(* expectations come and go; with two pipes if expect_msg() is not used.   *)
THEOREM NotificationsInOrderAlways ==
  ~KeepsList /\ NoOneOffs => (Spec => []NotificationsInOrder)
<1> SUFFICES ASSUME ~KeepsList, NoOneOffs PROVE Spec => []NotificationsInOrder
  OBVIOUS
<1>1. ClassInv => NotificationsInOrder
  <2> SUFFICES ASSUME ClassInv, NEW p \in Peer,
                      NEW i \in 1..Len(log[p]), NEW j \in 1..Len(log[p]), i < j,
                      log[p][i].kind = "msg", log[p][j].kind = "msg",
                      SentAs(p, log[p][i]).which = SentAs(p, log[p][j]).which
               PROVE  log[p][i].id < log[p][j].id
    BY DEF NotificationsInOrder
  <2>1. log[p] \in Seq(Event) /\ Pairwise(log[p], KindRising(In(p)))
    BY ClassInvBase, InOrderIs DEF ClassInv, ClassOrder, HandedInOrder
  <2>2. log[p][i] \in Event /\ log[p][j] \in Event
    BY <2>1, ElementOfSeq
  <2>3. <<log[p][i], log[p][j]>> \in KindRising(In(p))
    BY <2>1 DEF Pairwise
  <2> QED BY <2>2, <2>3, KindRisingIs DEF SentAs, In
<1>2. ClassInv /\ [Next]_vars => ClassInv'
  BY ClassInvNext
<1> QED BY <1>1, <1>2, ClassInvInit, PTL DEF Spec

-----------------------------------------------------------------------------
(* The channel is one ordered pipe.                                        *)
LEMMA ClassOfIs ==
  \A m, n \in Msg : ClassOf(m) = ClassOf(n) <=>
                      m.orig = n.orig /\ (m.orig = 0 => m.which = n.which)
BY DEF ClassOf, Msg

ClassesOf(s) == [i \in 1..Len(s) |-> ClassOf(s[i].msg)]

LEMMA ClassesOfAppend ==
  ASSUME NEW s \in Seq(SentMsg), NEW e \in SentMsg
  PROVE  ClassesOf(Append(s, e)) = Append(ClassesOf(s), ClassOf(e.msg))
<1> DEFINE C == {ClassOf(f.msg) : f \in SentMsg}
           t == Append(s, e)
           c == ClassesOf(s)
           d == Append(c, ClassOf(e.msg))
<1>1. /\ t \in Seq(SentMsg) /\ Len(t) = Len(s) + 1 /\ Len(s) \in Nat
      /\ t[Len(s) + 1] = e /\ \A i \in 1..Len(s) : t[i] = s[i]
  BY AppendProperties
<1>2. c \in Seq(C) /\ Len(c) = Len(s) /\ \A i \in 1..Len(s) : c[i] = ClassOf(s[i].msg)
  <2>1. \A i \in 1..Len(s) : s[i] \in SentMsg
    BY ElementOfSeq
  <2>2. c \in [1..Len(s) -> C]
    BY <2>1 DEF ClassesOf
  <2> QED BY <1>1, <2>2 DEF ClassesOf
<1>3. ClassOf(e.msg) \in C
  OBVIOUS
<1> HIDE DEF C
<1>4. /\ d \in Seq(C) /\ Len(d) = Len(s) + 1
      /\ d[Len(s) + 1] = ClassOf(e.msg) /\ \A i \in 1..Len(s) : d[i] = c[i]
  <2> HIDE DEF c
  <2> QED BY <1>2, <1>3, AppendProperties
<1> HIDE DEF t, c, d
<1>5. /\ d = [i \in 1..Len(d) |-> d[i]]
      /\ ClassesOf(t) = [i \in 1..Len(t) |-> ClassOf(t[i].msg)]
  BY <1>4 DEF ClassesOf
<1>6. ASSUME NEW i \in 1..(Len(s) + 1) PROVE d[i] = ClassOf(t[i].msg)
  <2>1. CASE i = Len(s) + 1
    BY <1>1, <1>4, <2>1
  <2>2. CASE i # Len(s) + 1
    <3>1. i \in 1..Len(s)
      BY <1>1, <2>2
    <3> QED BY <1>1, <1>2, <1>4, <3>1
  <2> QED BY <2>1, <2>2
<1>7. ClassesOf(t) = d
  BY <1>1, <1>4, <1>5, <1>6
<1> QED BY <1>7 DEF t, c, d

(* The variables of the pipe.                                              *)
LEMMA PipeIs ==
  /\ PipeSent = [p \in Peer |-> ClassesOf(sent[p])]
  /\ PipeHanded = [p \in Peer |-> MsgIds(log[p])]
  /\ \A p \in Peer : p \in PipeHosed <=> err[p] # "ok"
<1>1. PipeSent = [p \in Peer |-> ClassesOf(sent[p])]
  BY DEF PipeSent, ClassesOf
<1>2. ASSUME NEW p PROVE {log[p][n].id : n \in
                            {x \in 1..Len(log[p]) : log[p][x].kind \in MsgKinds}}
                         = MsgIds(log[p])
  BY DEF MsgIds, IdsIn, SeqRange, IsMsg
<1>3. PipeHanded = [p \in Peer |-> MsgIds(log[p])]
  BY <1>2 DEF PipeHanded
<1> QED BY <1>1, <1>3 DEF PipeHosed

LEMMA PipeIsNext ==
  /\ PipeSent' = [p \in Peer |-> ClassesOf(sent'[p])]
  /\ PipeHanded' = [p \in Peer |-> MsgIds(log'[p])]
  /\ \A p \in Peer : p \in PipeHosed' <=> err'[p] # "ok"
<1>1. PipeSent' = [p \in Peer |-> ClassesOf(sent'[p])]
  BY DEF PipeSent, ClassesOf
<1>2. ASSUME NEW p PROVE {log'[p][n].id : n \in
                            {x \in 1..Len(log'[p]) : log'[p][x].kind \in MsgKinds}}
                         = MsgIds(log'[p])
  BY DEF MsgIds, IdsIn, SeqRange, IsMsg
<1>3. PipeHanded' = [p \in Peer |-> MsgIds(log'[p])]
  BY <1>2 DEF PipeHanded
<1> QED BY <1>1, <1>3 DEF PipeHosed

(* A user message is within the bound on what a peer sends.                *)
Bounded(p) == sndNext[p] <= MaxOut[p] + 1

LEMMA BoundedNext ==
  ASSUME TypeInv, [Next]_vars, NEW p \in Peer, Bounded(p) PROVE Bounded(p)'
<1>1. MaxOut[p] \in Nat /\ sndNext[p] \in Nat /\ sndNext \in [Peer -> Nat \ {0}]
  BY ConstantsAssumption DEF TypeInv, TypeOK, SndTypes
<1>2. CASE sndNext'[p] = sndNext[p]
  BY <1>2 DEF Bounded
<1>3. ASSUME NEW q \in Peer, StepOf(q), q # p PROVE sndNext'[p] = sndNext[p]
  BY <1>3, OtherUntouched DEF Untouched, OwnSnd
<1>4. ASSUME StepOf(p), ~SendStep(p) PROVE sndNext' = sndNext
  BY <1>4
  DEF StepOf, ApiStep, StartAndPoll, RequestRefused, EndSending, ExpectMsg,
      ExpectMsgs, UndoExpectMsgs, ExpectLogInRequest, UndoExpectResponses,
      SetHandler, UnsetHandler, ThreadStep, Fire, Flush, ReadStep, ReceiveBad,
      ReceiveInternal, ReceiveEarly, ReceiveNext, ReadFails, ReadIgnored, Break,
      sndVars
<1>5. ASSUME SendStep(p)
      PROVE  sndNext[p] <= MaxOut[p] /\ sndNext'[p] = sndNext[p] + 1
  BY <1>1, <1>5, ZenonT(40) DEF SendStep, Send, SendFails, SendAfterEnd, SendCallable
<1>6. CASE SendStep(p)
  BY <1>1, <1>5, <1>6 DEF Bounded
<1>7. CASE UNCHANGED vars
  BY <1>2, <1>7 DEF vars
<1> QED BY <1>2, <1>3, <1>4, <1>6, <1>7, StepOfAPeer

(* A call that sends a message does nothing else that a user can see.      *)
LEMMA SendsOnly ==
  ASSUME TypeInv, NEW p \in Peer, StepOf(p), sent' # sent
  PROVE  UNCHANGED <<log, err>>
<1>1. CASE SendStep(p)
  BY <1>1 DEF SendStep, Send, SendFails, SendAfterEnd, userVars
<1>2. CASE ~SendStep(p)
  BY <1>2
  DEF StepOf, ApiStep, StartAndPoll, RequestRefused, EndSending, ExpectMsg,
      ExpectMsgs, UndoExpectMsgs, ExpectLogInRequest, UndoExpectResponses,
      SetHandler, UnsetHandler, ThreadStep, Fire, Flush, ReadStep, ReceiveBad,
      ReceiveInternal, ReceiveEarly, ReceiveNext, ReadFails, ReadIgnored, Break,
      sndVars
<1> QED BY <1>1, <1>2

(* What hoses the channel hands over nothing.                              *)
LEMMA HosesOnly ==
  ASSUME TypeInv, NEW p \in Peer, UserMove(p), err'[p] # err[p]
  PROVE  err[p] = "ok" /\ MsgIds(log'[p]) = MsgIds(log[p])
<1>1. err[p] = "ok" /\ Says(log[p], log'[p])
  <2>1. SendErrs(p) \/ Hosed(p)
    BY DEF UserMove, Still, Returns, Informed, Keeps, Accepts, Fires
  <2>2. Ev("send_error", 0) \in Event /\ ~IsMsg(Ev("send_error", 0))
    BY DEF Ev, Event, IsMsg, MsgKinds
  <2> QED BY <2>1, <2>2 DEF SendErrs, Hosed, Says
<1>2. log[p] \in Seq(Event)
  BY DEF TypeInv, TypeOK, UserTypes
<1> QED BY <1>1, <1>2, SaysKeeps, IdsInUnion DEF MsgIds

PipeInv == ClassInv /\ \A p \in Peer : Bounded(p)

LEMMA MapsSend ==
  ASSUME PipeInv, [Next]_vars, NEW p \in Peer, StepOf(p), sent'[p] # sent[p]
  PROVE  Promise!Next
<1>1. /\ TypeInv /\ Numbered(p) /\ Known(p) /\ SndMove(p)
      /\ FlowOn(p) /\ Numbered(Other(p)) /\ Other(p) \in Peer
  BY OrderBaseParts, SndMoveNext, OtherPeer DEF PipeInv, ClassInv, PlaceInv
<1>2. /\ err[p] = "ok" /\ sndNext'[p] = sndNext[p] + 1
      /\ \E e \in SentMsg : Follows(p, e.msg, e.rsp) /\ sent'[p] = Append(sent[p], e)
  BY <1>1 DEF SndMove
<1>3. PICK e \in SentMsg : Follows(p, e.msg, e.rsp) /\ sent'[p] = Append(sent[p], e)
  BY <1>2
<1>4. UNCHANGED <<log, err>>
  BY <1>1, SendsOnly
<1>5. \A q \in Peer : q # p => sent'[q] = sent[q]
  BY <1>1, OtherUntouched DEF Untouched, OwnSnd
<1>6. PICK c : c = ClassOf(e.msg)
  OBVIOUS
<1>7. c \in MsgClass
  <2>1. e.msg \in Msg /\ e.msg.orig \in Held(p) \cup {0}
    BY <1>3 DEF SentMsg, Follows
  <2>2. CASE e.msg.orig = 0
    BY <1>6, <2>1, <2>2 DEF ClassOf, MsgClass, Msg
  <2>3. CASE e.msg.orig # 0
    <3>1. e.msg.orig \in 1..(rcvNext[p] - 1)
      BY <1>1, <2>1, <2>3, KnownHeld
    <3>2. /\ rcvNext[p] \in Nat \ {0} /\ rcvNext[p] <= Len(In(p)) + 1
          /\ Len(In(p)) \in Nat
      <4>1. In(p) \in Seq(SentMsg)
        BY <1>1 DEF FlowOn, FlowOK
      <4> QED BY <1>1, <4>1 DEF FlowOn, FlowOK
    <3>3. /\ Len(In(p)) < sndNext[Other(p)] /\ sndNext[Other(p)] \in Nat
          /\ sndNext[Other(p)] <= MaxOut[Other(p)] + 1 /\ MaxOut[Other(p)] \in Nat
      BY <1>1, ConstantsAssumption
      DEF PipeInv, Bounded, Numbered, In, TypeInv, TypeOK, SndTypes
    <3>4. \A x, l, n, b \in Nat : x <= l + 1 /\ l < n /\ n <= b + 1
                                    => 1..(x - 1) \subseteq 1..b
      OBVIOUS
    <3>5. e.msg.orig \in 1..MaxOut[Other(p)]
      BY <3>1, <3>2, <3>3, <3>4
    <3>6. e.msg.orig \in UNION {1..MaxOut[q] : q \in Peer}
      BY <1>1, <3>5
    <3>7. c = <<"reply", e.msg.orig>>
      BY <1>6, <2>3 DEF ClassOf
    <3> QED BY <3>6, <3>7 DEF MsgClass
  <2> QED BY <2>2, <2>3
<1>8. PipeSent' = [PipeSent EXCEPT ![p] = Append(@, c)]
  <2>1. sent[p] \in Seq(SentMsg)
    BY <1>1 DEF TypeInv, TypeOK, SndTypes
  <2>2. ClassesOf(sent'[p]) = Append(ClassesOf(sent[p]), c)
    BY <1>3, <1>6, <2>1, ClassesOfAppend
  <2>3. \A q \in Peer : q # p => ClassesOf(sent'[q]) = ClassesOf(sent[q])
    BY <1>5
  <2> QED BY <2>2, <2>3, PipeIs, PipeIsNext
<1>9. PipeHanded' = PipeHanded /\ PipeHosed' = PipeHosed /\ p \notin PipeHosed
  BY <1>2, <1>4 DEF PipeHanded, PipeHosed
<1>10. Promise!Send(p, c)
  BY <1>8, <1>9 DEF Promise!Send
<1> QED BY <1>7, <1>10 DEF Promise!Next

LEMMA MapsHand ==
  ASSUME PipeInv, NEW p \in Peer, NEW I, HandsOver(p, I), I # {},
         UNCHANGED sent, \A q \in Peer : q # p => log'[q] = log[q],
         \A q \in Peer : err'[q] = err[q]
  PROVE  Promise!Next
<1>1. TypeInv /\ InOrderBase(p) /\ Other(p) \in Peer
  BY ClassInvBase, OtherPeer DEF PipeInv, InOrderBase
<1>2. PICK in : in = PipeSent[Other(p)]
  OBVIOUS
<1>3. /\ Len(In(p)) \in Nat /\ in = ClassesOf(In(p))
      /\ rcvNext[p] \in Nat \ {0} /\ rcvNext[p] <= Len(In(p)) + 1
      /\ In(p) \in Seq(SentMsg)
  <2>1. In(p) \in Seq(SentMsg) /\ rcvNext[p] \in Nat \ {0} /\ rcvNext[p] <= Len(In(p)) + 1
    BY <1>1 DEF InOrderBase, FlowOn, FlowOK
  <2>2. in = ClassesOf(In(p))
    BY <1>1, <1>2, PipeIs DEF In
  <2> QED BY <2>1, <2>2
<1>4. I \subseteq 1..Len(In(p))
  <2>1. \A x, l \in Nat : x <= l + 1 => 1..(x - 1) \subseteq 1..l
    OBVIOUS
  <2> QED BY <1>3, <2>1 DEF HandsOver
<1>5. Len(in) = Len(In(p)) /\ \A j \in 1..Len(In(p)) : in[j] = ClassOf(In(p)[j].msg)
  BY <1>3 DEF ClassesOf
<1>6. PipeHanded[p] = MsgIds(log[p])
  BY PipeIs
<1>7. ASSUME NEW i \in I, NEW j \in 1..i, in[j] = in[i]
      PROVE  j \in PipeHanded[p] \cup I
  <2>1. i \in 1..Len(In(p)) /\ j \in 1..Len(In(p))
    BY <1>3, <1>4
  <2>2. In(p)[i].msg \in Msg /\ In(p)[j].msg \in Msg
    <3>1. In(p)[i] \in SentMsg /\ In(p)[j] \in SentMsg
      BY <1>3, <2>1, ElementOfSeq
    <3> QED BY <3>1 DEF SentMsg
  <2>3. Same(p, i, j)
    BY <1>5, <1>7, <2>1, <2>2, ClassOfIs DEF Same
  <2> QED BY <1>6, <2>3 DEF HandsOver
<1>8. PipeHanded' = [PipeHanded EXCEPT ![p] = @ \cup I]
  <2>1. MsgIds(log'[p]) = MsgIds(log[p]) \cup I
    BY DEF HandsOver
  <2>2. \A q \in Peer : q # p => MsgIds(log'[q]) = MsgIds(log[q])
    OBVIOUS
  <2> QED BY <2>1, <2>2, PipeIs, PipeIsNext
<1>9. PipeSent' = PipeSent /\ PipeHosed' = PipeHosed
  BY DEF PipeSent, PipeHosed
<1>10. Promise!Opposite(p) = Other(p)
  BY DEF Promise!Opposite, Other
<1>11. I \cap PipeHanded[p] = {}
  BY <1>6 DEF HandsOver
<1>12. Promise!Hand(p, I)
  BY <1>2, <1>7, <1>8, <1>9, <1>10, <1>11 DEF Promise!Hand
<1>13. I \in SUBSET (1..Len(PipeSent[Promise!Opposite(p)]))
  BY <1>2, <1>4, <1>5, <1>10
<1> QED BY <1>12, <1>13 DEF Promise!Next

LEMMA MapsHose ==
  ASSUME NEW p \in Peer, UNCHANGED sent, err[p] = "ok", err'[p] # "ok",
         MsgIds(log'[p]) = MsgIds(log[p]),
         \A q \in Peer : q # p => log'[q] = log[q] /\ err'[q] = err[q]
  PROVE  Promise!Next
<1>1. PipeSent' = PipeSent
  BY DEF PipeSent
<1>2. PipeHanded' = PipeHanded
  BY PipeIs, PipeIsNext
<1>3. p \notin PipeHosed /\ PipeHosed' = PipeHosed \cup {p}
  BY DEF PipeHosed
<1>4. Promise!Hose(p)
  BY <1>1, <1>2, <1>3 DEF Promise!Hose
<1> QED BY <1>4 DEF Promise!Next

LEMMA MapsStep ==
  ASSUME ~KeepsList, NoOneOffs, PipeInv, [Next]_vars
  PROVE  [Promise!Next]_Promise!vars
<1>1. ASSUME UNCHANGED sent, \A p \in Peer : MsgIds(log'[p]) = MsgIds(log[p]),
             \A p \in Peer : err'[p] = err[p]
      PROVE  UNCHANGED Promise!vars
  <2>1. PipeSent' = PipeSent /\ PipeHosed' = PipeHosed
    BY <1>1 DEF PipeSent, PipeHosed
  <2>2. PipeHanded' = PipeHanded
    BY <1>1, PipeIs, PipeIsNext
  <2> QED BY <2>1, <2>2 DEF Promise!vars
<1>2. CASE UNCHANGED vars
  BY <1>1, <1>2 DEF vars
<1>3. ASSUME NEW p \in Peer, StepOf(p) PROVE [Promise!Next]_Promise!vars
  <2>1. /\ UserMove(p) /\ TypeInv /\ InOrderBase(p) /\ Down(p) /\ HandedInOrder(p)
    BY ClassInvMoves DEF PipeInv
  <2>2. \A q \in Peer : q # p => /\ sent'[q] = sent[q] /\ log'[q] = log[q]
                                 /\ err'[q] = err[q]
    BY <1>3, <2>1, OtherUntouched DEF Untouched, OwnSnd, OwnLoop
  <2>3. sent'[p] = sent[p] => sent' = sent
    <3>1. sent \in [Peer -> Seq(SentMsg)] /\ sent' \in [Peer -> Seq(SentMsg)]
      BY <2>1, TypeNext DEF TypeInv, TypeOK, SndTypes
    <3> QED BY <2>2, <3>1
  <2>4. CASE sent'[p] # sent[p]
    BY <1>3, <2>4, MapsSend
  <2>5. CASE sent' = sent /\ err'[p] = err[p]
    <3>1. PICK I : HandsOver(p, I)
      BY <2>1, HandedNext
    <3>2. CASE I = {}
      <4>1. MsgIds(log'[p]) = MsgIds(log[p])
        BY <3>1, <3>2 DEF HandsOver
      <4> QED BY <1>1, <2>2, <2>5, <4>1
    <3>3. CASE I # {}
      BY <2>2, <2>5, <3>1, <3>3, MapsHand
    <3> QED BY <3>2, <3>3
  <2>6. CASE sent' = sent /\ err'[p] # err[p]
    <3>1. err[p] = "ok" /\ MsgIds(log'[p]) = MsgIds(log[p])
      BY <2>1, <2>6, HosesOnly
    <3> QED BY <2>2, <2>6, <3>1, MapsHose
  <2> QED BY <2>3, <2>4, <2>5, <2>6
<1> QED BY <1>2, <1>3, StepOfAPeer

(* Seen by its two users the channel is one ordered pipe: StructChannel    *)
(* implements OrderedPipe, whatever the pipes do and the users expect; but *)
(* with two pipes only if expect_msg() is not used.                        *)
THEOREM ImplementsOrderedPipeAlways ==
  ~KeepsList /\ NoOneOffs => (Spec => ImplementsOrderedPipe)
<1> SUFFICES ASSUME ~KeepsList, NoOneOffs PROVE Spec => ImplementsOrderedPipe
  OBVIOUS
<1>1. Init => Promise!Init
  <2> SUFFICES ASSUME Init PROVE Promise!Init
    OBVIOUS
  <2>1. \A p \in Peer : sent[p] = <<>> /\ log[p] = <<>> /\ err[p] = "ok"
    BY DEF Init
  <2>2. ClassesOf(<<>>) = <<>> /\ MsgIds(<<>>) = {}
    BY OfEmpty DEF ClassesOf, MsgIds, IdsIn
  <2>3. PipeSent = [p \in Peer |-> <<>>] /\ PipeHanded = [p \in Peer |-> {}]
    BY <2>1, <2>2, PipeIs
  <2>4. PipeHosed = {}
    BY <2>1 DEF PipeHosed
  <2> QED BY <2>3, <2>4 DEF Promise!Init
<1>2. Init => PipeInv
  <2>1. Init => \A p \in Peer : Bounded(p)
    BY ConstantsAssumption DEF Init, Bounded
  <2> QED BY <2>1, ClassInvInit DEF PipeInv
<1>3. PipeInv /\ [Next]_vars => PipeInv'
  <2> SUFFICES ASSUME PipeInv, [Next]_vars PROVE PipeInv'
    OBVIOUS
  <2>1. ClassInv' /\ TypeInv
    BY ClassInvNext, OrderBaseParts DEF PipeInv, ClassInv, PlaceInv
  <2> QED BY <2>1, BoundedNext DEF PipeInv
<1>4. PipeInv /\ [Next]_vars => [Promise!Next]_Promise!vars
  BY MapsStep
<1> QED BY <1>1, <1>2, <1>3, <1>4, PTL
        DEF Spec, ImplementsOrderedPipe, Promise!Spec
=============================================================================
