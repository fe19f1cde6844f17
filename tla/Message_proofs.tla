--------------------------- MODULE Message_proofs ---------------------------
(***************************************************************************)
(* Proofs, for any number of messages and handles and any sizes, of what   *)
(* MessageProps states.                                                    *)
(***************************************************************************)
EXTENDS MessageProps, SequenceTheorems, TLAPS

-----------------------------------------------------------------------------
(* Sizes in words and in bytes.                                            *)
MaxSeg == SegmentSz \div WordSz

LEMMA SegmentSzFits ==
  SegmentSz \in Nat /\ WordSz <= SegmentSz
    /\ SegmentSz <= BlobMax /\ SegmentSz <= MetaMax
BY ConstantsAssumption DEF SegmentSz

LEMMA Times ==
  \A a, b, w \in Nat : a <= b => a * w <= b * w /\ a * w \in Nat /\ b * w \in Nat
<1> SUFFICES ASSUME NEW a \in Nat, NEW b \in Nat, NEW w \in Nat, a <= b
             PROVE  a * w <= b * w /\ a * w \in Nat /\ b * w \in Nat
  OBVIOUS
<1>1. PICK d \in Nat : b = a + d
  <2>1. b - a \in Nat /\ b = a + (b - a)
    OBVIOUS
  <2> QED BY <2>1
<1>2. a * w \in Nat /\ d * w \in Nat /\ b * w \in Nat
  OBVIOUS
<1>3. b * w = a * w + d * w
  BY <1>1
<1> QED BY <1>2, <1>3

LEMMA Division ==
  MaxSeg \in Nat /\ MaxSeg * WordSz <= SegmentSz
    /\ SegmentSz < (MaxSeg + 1) * WordSz
BY SegmentSzFits, ConstantsAssumption DEF MaxSeg

(* Words that fit in a segment by count do by size, and the reverse.       *)
LEMMA WordsFit == \A n \in Nat : n * WordSz > SegmentSz <=> n > MaxSeg
<1> SUFFICES ASSUME NEW n \in Nat
             PROVE  n * WordSz > SegmentSz <=> n > MaxSeg
  OBVIOUS
<1>1. /\ MaxSeg \in Nat /\ WordSz \in Nat /\ SegmentSz \in Nat
      /\ MaxSeg * WordSz <= SegmentSz
      /\ SegmentSz < (MaxSeg + 1) * WordSz
  BY Division, SegmentSzFits, ConstantsAssumption
<1>2. CASE n <= MaxSeg
  <2>1. n * WordSz <= MaxSeg * WordSz /\ n * WordSz \in Nat
          /\ MaxSeg * WordSz \in Nat
    BY <1>1, <1>2, Times
  <2> QED BY <1>1, <1>2, <2>1
<1>3. CASE n >= MaxSeg + 1
  <2>1. (MaxSeg + 1) * WordSz <= n * WordSz /\ n * WordSz \in Nat
          /\ (MaxSeg + 1) * WordSz \in Nat
    BY <1>1, <1>3, Times
  <2> QED BY <1>1, <1>3, <2>1
<1> QED BY <1>1, <1>2, <1>3
-----------------------------------------------------------------------------
(* The segments of a message whose largest object has big words, 0 if it   *)
(* has none: a segment larger than agreed holds one object and is full.    *)
SegOk(s, big) ==
  /\ s \in Segment /\ 0 < s.used /\ s.used <= s.cap
  /\ s.cap > MaxSeg => s.used = s.cap /\ s.cap <= big
SegsOk(ss, big) ==
  /\ ss \in Seq(Segment)
  /\ \A i \in 1..Len(ss) : SegOk(ss[i], big)
  /\ IF big = 0 THEN ss = <<>> ELSE \E i \in 1..Len(ss) : ss[i].used >= big

LEMMA NewSegmentIs ==
  ASSUME NEW n \in Nat \ {0}
  PROVE  /\ NewSegment(n) \in Segment /\ NewSegment(n).used = 0
         /\ NewSegment(n).cap = IF n > MaxSeg THEN n ELSE MaxSeg
<1> DEFINE cap == IF n > MaxSeg THEN n ELSE MaxSeg
<1>1. cap \in Nat
  BY Division
<1>2. cap * WordSz \in Nat
  BY <1>1, ConstantsAssumption
<1>3. NewSegment(n) = [used |-> 0, cap |-> cap, size |-> cap * WordSz]
  BY DEF NewSegment, MaxSeg
<1> HIDE DEF cap
<1>4. /\ NewSegment(n) \in Segment /\ NewSegment(n).used = 0
      /\ NewSegment(n).cap = cap
  BY <1>1, <1>2, <1>3 DEF Segment
<1> QED BY <1>4 DEF cap

(* Growing by an object of n words keeps it so.                            *)
LEMMA GrownOk ==
  ASSUME NEW big \in Nat, NEW ss, SegsOk(ss, big), NEW n \in Nat \ {0}
  PROVE  SegsOk(Grown(ss, n), IF n > big THEN n ELSE big)
<1> DEFINE most == IF n > big THEN n ELSE big
           fits == ss # <<>> /\ Last(ss).used + n <= Last(ss).cap
           tail == IF fits THEN Last(ss) ELSE NewSegment(n)
           full == [tail EXCEPT !.used = @ + n]
<1>1. /\ most \in Nat \ {0} /\ most >= n /\ most >= big
      /\ ss \in Seq(Segment) /\ MaxSeg \in Nat
  BY Division DEF SegsOk
<1>2. Grown(ss, n) = IF fits THEN Append(Front(ss), full) ELSE Append(ss, full)
  BY DEF Grown
<1>3. ASSUME NEW s, SegOk(s, big) PROVE SegOk(s, most)
  BY <1>1, <1>3 DEF SegOk, Segment
<1>4. CASE fits
  <2>1. /\ Len(ss) \in Nat \ {0} /\ Last(ss) = ss[Len(ss)]
    BY <1>1, <1>4, EmptySeq DEF Last
  <2>2. SegOk(Last(ss), big)
    BY <2>1 DEF SegsOk
  <2>3. full = [Last(ss) EXCEPT !.used = @ + n]
    BY <1>4
  <2>4. /\ full \in Segment /\ full.used = Last(ss).used + n
        /\ full.cap = Last(ss).cap
    BY <2>2, <2>3 DEF SegOk, Segment
  <2>5. SegOk(full, most) /\ full.used >= n /\ full.used >= Last(ss).used
    BY <1>1, <1>4, <2>2, <2>4 DEF SegOk, Segment
  <2>6. /\ Front(ss) \in Seq(Segment) /\ Len(Front(ss)) = Len(ss) - 1
        /\ \A i \in 1..(Len(ss) - 1) : Front(ss)[i] = ss[i]
    <3>1. \A i \in 1..(Len(ss) - 1) : ss[i] \in Segment
      BY <1>1, <2>1
    <3>2. PICK k \in Nat : k = Len(ss) - 1
      BY <2>1
    <3>3. Front(ss) = SubSeq(ss, 1, k)
      BY <3>2 DEF Front
    <3>4. /\ SubSeq(ss, 1, k) \in Seq(Segment)
          /\ Len(SubSeq(ss, 1, k)) = k
          /\ \A i \in 1..k : SubSeq(ss, 1, k)[i] = ss[i]
      BY <1>1, <2>1, <3>1, <3>2
    <3> QED BY <3>2, <3>3, <3>4
  <2>7. Grown(ss, n) = Append(Front(ss), full)
    BY <1>2, <1>4
  <2> HIDE DEF most, fits, tail, full
  <2>8. /\ Grown(ss, n) \in Seq(Segment) /\ Len(Grown(ss, n)) = Len(ss)
        /\ \A i \in 1..(Len(ss) - 1) : Grown(ss, n)[i] = ss[i]
        /\ Grown(ss, n)[Len(ss)] = full
    BY <2>1, <2>4, <2>6, <2>7
  <2>9. \A i \in 1..Len(ss) : SegOk(Grown(ss, n)[i], most)
    BY <1>3, <2>1, <2>5, <2>8 DEF SegsOk
  <2>10. \E i \in 1..Len(ss) : Grown(ss, n)[i].used >= most
    <3>1. CASE most = n
      BY <2>1, <2>5, <2>8, <3>1
    <3>2. CASE most = big /\ most # n
      <4>1. big # 0
        BY <1>1, <3>2
      <4>2. PICK i \in 1..Len(ss) : ss[i].used >= big
        BY <4>1 DEF SegsOk
      <4>3. CASE i = Len(ss)
        <5>1. full.used >= big
          BY <2>1, <2>2, <2>4, <2>5, <4>2, <4>3 DEF SegOk, Segment
        <5> QED BY <2>1, <2>8, <3>2, <5>1
      <4>4. CASE i # Len(ss)
        BY <2>1, <2>8, <3>2, <4>2, <4>4
      <4> QED BY <4>3, <4>4
    <3> QED BY <3>1, <3>2 DEF most
  <2>11. SegsOk(Grown(ss, n), most)
    BY <1>1, <2>8, <2>9, <2>10 DEF SegsOk
  <2> QED BY <2>11 DEF most
<1>5. CASE ~fits
  <2>1. full = [NewSegment(n) EXCEPT !.used = @ + n]
    BY <1>5
  <2>2. /\ full \in Segment /\ full.used = n
        /\ full.cap = IF n > MaxSeg THEN n ELSE MaxSeg
    BY <2>1, NewSegmentIs DEF Segment
  <2>3. SegOk(full, most)
    BY <1>1, <2>2 DEF SegOk
  <2>4. Grown(ss, n) = Append(ss, full)
    BY <1>2, <1>5
  <2> HIDE DEF most, fits, tail, full
  <2>5. /\ Grown(ss, n) \in Seq(Segment)
        /\ Len(Grown(ss, n)) = Len(ss) + 1 /\ Len(ss) \in Nat
        /\ \A i \in 1..Len(ss) : Grown(ss, n)[i] = ss[i]
        /\ Grown(ss, n)[Len(ss) + 1] = full
    BY <1>1, <2>2, <2>4
  <2>6. \A i \in 1..(Len(ss) + 1) : SegOk(Grown(ss, n)[i], most)
    BY <1>3, <2>3, <2>5 DEF SegsOk
  <2>7. \E i \in 1..(Len(ss) + 1) : Grown(ss, n)[i].used >= most
    <3>1. CASE most = n
      BY <2>2, <2>5, <3>1
    <3>2. CASE most = big /\ most # n
      <4>1. PICK i \in 1..Len(ss) : ss[i].used >= big
        BY <1>1, <3>2 DEF SegsOk
      <4> QED BY <2>5, <3>2, <4>1
    <3> QED BY <3>1, <3>2 DEF most
  <2>8. SegsOk(Grown(ss, n), most)
    BY <1>1, <2>5, <2>6, <2>7 DEF SegsOk
  <2> QED BY <2>8 DEF most
<1> QED BY <1>4, <1>5

(* Emitting changes the sizes of the Blobs only.                           *)
EmittedAll(ss) == [i \in 1..Len(ss) |-> Emitted(ss[i])]

LEMMA EmittedOk ==
  ASSUME NEW big \in Nat, NEW ss, SegsOk(ss, big)
  PROVE  /\ SegsOk(EmittedAll(ss), big)
         /\ Len(EmittedAll(ss)) = Len(ss)
         /\ \A i \in 1..Len(ss) : EmittedAll(ss)[i].size = ss[i].used * WordSz
<1>1. ss \in Seq(Segment) /\ Len(ss) \in Nat /\ WordSz \in Nat
  BY ConstantsAssumption DEF SegsOk
<1>2. \A i \in 1..Len(ss) :
        /\ Emitted(ss[i]) \in Segment
        /\ Emitted(ss[i]).used = ss[i].used /\ Emitted(ss[i]).cap = ss[i].cap
        /\ Emitted(ss[i]).size = ss[i].used * WordSz
  <2> TAKE i \in 1..Len(ss)
  <2>1. ss[i] \in Segment
    BY <1>1
  <2>2. ss[i].used * WordSz \in Nat
    BY <1>1, <2>1 DEF Segment
  <2> QED BY <2>1, <2>2 DEF Emitted, Segment
<1>3. /\ EmittedAll(ss) \in Seq(Segment) /\ Len(EmittedAll(ss)) = Len(ss)
      /\ \A i \in 1..Len(ss) : EmittedAll(ss)[i] = Emitted(ss[i])
  <2>1. EmittedAll(ss) \in [1..Len(ss) -> Segment]
    BY <1>2 DEF EmittedAll
  <2>2. EmittedAll(ss) \in Seq(Segment)
    BY <1>1, <2>1, SeqDef
  <2> QED BY <1>1, <2>1, <2>2 DEF EmittedAll
<1>4. \A i \in 1..Len(ss) : SegOk(EmittedAll(ss)[i], big)
  BY <1>2, <1>3 DEF SegsOk, SegOk
<1>5. IF big = 0 THEN EmittedAll(ss) = <<>>
      ELSE \E i \in 1..Len(ss) : EmittedAll(ss)[i].used >= big
  <2>1. CASE big = 0
    BY <1>3, <2>1, EmptySeq DEF SegsOk
  <2>2. CASE big # 0
    BY <1>2, <1>3, <2>2 DEF SegsOk
  <2> QED BY <2>1, <2>2
<1> QED BY <1>2, <1>3, <1>4, <1>5 DEF SegsOk

-----------------------------------------------------------------------------
(* The messages and the handles.                                           *)
MsgTypes ==
  /\ state \in [Obj -> {"none", "blank", "live"}]
  /\ segs \in [Obj -> Seq(Segment)] /\ leaf \in [Obj -> Nat]
  /\ hndl \in [Obj -> Fd \cup {Null}]
FdTypes ==
  /\ open \in [Fd -> Nat] /\ mine \subseteq Fd /\ nDesc \in Nat

(* An object that holds no message has neither segments nor a handle.      *)
MsgOk(m) == /\ SegsOk(segs[m], leaf[m])
            /\ state[m] = "live" <=> leaf[m] # 0
            /\ hndl[m] # Null => state[m] = "live"

MsgInv == MsgTypes /\ FdTypes /\ \A m \in Obj : MsgOk(m)

LEMMA MsgInit == Init => MsgInv /\ HandlesHeldOnce
<1> SUFFICES ASSUME Init PROVE MsgInv /\ HandlesHeldOnce
  OBVIOUS
<1>1. MsgTypes /\ FdTypes
  BY DEF Init, MsgTypes, FdTypes
<1>2. ASSUME NEW m \in Obj PROVE MsgOk(m)
  BY DEF Init, MsgOk, SegsOk
<1>3. HandlesHeldOnce
  BY DEF Init, HandlesHeldOnce
<1> QED BY <1>1, <1>2, <1>3 DEF MsgInv

LEMMA ClosedType ==
  ASSUME MsgInv, NEW h
  PROVE  /\ Closed(h) \in [Fd -> Nat]
         /\ \A f \in Fd : Closed(h)[f] = IF f = h THEN 0 ELSE open[f]
BY DEF MsgInv, FdTypes, Closed

LEMMA MsgStep ==
  ASSUME MsgInv, [Next]_vars PROVE MsgInv'
<1>1. MsgTypes /\ FdTypes /\ \A m \in Obj : MsgOk(m)
  BY DEF MsgInv
<1>3. ASSUME NEW f \in Fd, Open(f) PROVE MsgInv'
  <2>1. FdTypes'
    BY <1>1, <1>3 DEF Open, FdTypes
  <2>2. MsgTypes' /\ \A m \in Obj : MsgOk(m)'
    BY <1>1, <1>3 DEF Open, msgVars, MsgTypes, MsgOk
  <2> QED BY <2>1, <2>2 DEF MsgInv
<1>4. ASSUME NEW m \in Obj, NEW h \in Fd \cup {Null}, Create(m, h)
      PROVE  MsgInv'
  <2>1. SegsOk(Grown(<<>>, 1), 1)
    <3>1. SegsOk(<<>>, 0)
      BY DEF SegsOk
    <3>2. SegsOk(Grown(<<>>, 1), IF 1 > 0 THEN 1 ELSE 0)
      BY <3>1, GrownOk
    <3> QED BY <3>2
  <2>2. MsgTypes' /\ FdTypes'
    BY <1>1, <1>4, <2>1 DEF Create, MsgTypes, FdTypes, SegsOk
  <2>3. ASSUME NEW n \in Obj PROVE MsgOk(n)'
    <3>1. CASE n = m
      BY <1>1, <1>4, <2>1, <3>1 DEF Create, MsgTypes, MsgOk
    <3>2. CASE n # m
      BY <1>1, <1>4, <3>2 DEF Create, MsgTypes, MsgOk
    <3> QED BY <3>1, <3>2
  <2> QED BY <2>2, <2>3 DEF MsgInv
<1>5. ASSUME NEW m \in Obj, NEW h \in Fd \cup {Null}, Store(m, h)
      PROVE  MsgInv'
  <2>1. open' \in [Fd -> Nat]
    BY <1>1, <1>5, ClosedType DEF Store, FdTypes
  <2>2. MsgTypes' /\ FdTypes'
    BY <1>1, <1>5, <2>1 DEF Store, MsgTypes, FdTypes
  <2>3. ASSUME NEW n \in Obj PROVE MsgOk(n)'
    BY <1>1, <1>5 DEF Store, MsgTypes, MsgOk
  <2> QED BY <2>2, <2>3 DEF MsgInv
<1>6. ASSUME NEW m \in Obj, NEW n \in 1..MaxLeaf, Grow(m, n) PROVE MsgInv'
  <2>1. n \in Nat \ {0} /\ leaf[m] \in Nat
    BY <1>1 DEF MsgTypes
  <2>2. SegsOk(Grown(segs[m], n), IF n > leaf[m] THEN n ELSE leaf[m])
    BY <1>1, <2>1, GrownOk DEF MsgOk
  <2>3. /\ segs' = [segs EXCEPT ![m] = Grown(segs[m], n)]
        /\ leaf' = [leaf EXCEPT ![m] = IF n > leaf[m] THEN n ELSE leaf[m]]
        /\ state[m] = "live" /\ UNCHANGED <<state, hndl>>
    BY <1>6 DEF Grow
  <2>4. Grown(segs[m], n) \in Seq(Segment)
    BY <2>2 DEF SegsOk
  <2>5. MsgTypes' /\ FdTypes'
    BY <1>1, <1>6, <2>1, <2>3, <2>4 DEF Grow, MsgTypes, FdTypes, fdVars
  <2>6. ASSUME NEW o \in Obj PROVE MsgOk(o)'
    <3>1. CASE o = m
      <4>1. /\ segs'[m] = Grown(segs[m], n)
            /\ leaf'[m] = IF n > leaf[m] THEN n ELSE leaf[m]
        BY <1>1, <2>3 DEF MsgTypes
      <4>2. leaf'[m] # 0
        BY <2>1, <4>1
      <4>3. SegsOk(segs[m], leaf[m])'
        BY <2>2, <4>1
      <4> QED BY <2>3, <3>1, <4>2, <4>3 DEF MsgOk
    <3>2. CASE o # m
      BY <1>1, <2>3, <3>2 DEF MsgTypes, MsgOk
    <3> QED BY <3>1, <3>2
  <2> QED BY <2>5, <2>6 DEF MsgInv
<1>7. ASSUME NEW dst \in Obj, NEW src \in Obj, Move(dst, src) PROVE MsgInv'
  <2>1. open' \in [Fd -> Nat]
    BY <1>1, <1>7, ClosedType DEF Move, FdTypes
  <2>2. MsgTypes' /\ FdTypes'
    <3>1. state' \in [Obj -> {"none", "blank", "live"}]
      BY <1>1, <1>7 DEF Move, MsgTypes
    <3>2. segs' \in [Obj -> Seq(Segment)]
      <4>1. <<>> \in Seq(Segment) /\ segs[src] \in Seq(Segment)
        BY <1>1 DEF MsgTypes
      <4> QED BY <1>1, <1>7, <4>1 DEF Move, MsgTypes
    <3>3. leaf' \in [Obj -> Nat] /\ hndl' \in [Obj -> Fd \cup {Null}]
      BY <1>1, <1>7 DEF Move, MsgTypes
    <3> QED BY <1>1, <1>7, <2>1, <3>1, <3>2, <3>3 DEF Move, MsgTypes, FdTypes
  <2>3. ASSUME NEW n \in Obj PROVE MsgOk(n)'
    <3>1. CASE n = src
      <4>1. /\ segs'[n] = <<>> /\ leaf'[n] = 0 /\ state'[n] = "blank"
            /\ hndl'[n] = Null
        BY <1>1, <1>7, <3>1 DEF Move, MsgTypes
      <4> QED BY <4>1 DEF MsgOk, SegsOk
    <3>2. CASE n = dst
      <4>1. /\ segs'[n] = segs[src] /\ leaf'[n] = leaf[src]
            /\ state'[n] = "live" /\ state[src] = "live"
        BY <1>1, <1>7, <3>2 DEF Move, MsgTypes
      <4>2. MsgOk(src)
        BY <1>1
      <4> QED BY <4>1, <4>2 DEF MsgOk
    <3>3. CASE n # src /\ n # dst
      BY <1>1, <1>7, <3>3 DEF Move, MsgTypes, MsgOk
    <3> QED BY <3>1, <3>2, <3>3
  <2> QED BY <2>2, <2>3 DEF MsgInv
<1>8. ASSUME NEW m \in Obj, Destroy(m) PROVE MsgInv'
  <2>1. open' \in [Fd -> Nat]
    BY <1>8, ClosedType DEF Destroy
  <2>2. MsgTypes' /\ FdTypes'
    BY <1>1, <1>8, <2>1 DEF Destroy, MsgTypes, FdTypes
  <2>3. ASSUME NEW n \in Obj PROVE MsgOk(n)'
    <3>1. CASE n = m
      <4>1. /\ segs'[n] = <<>> /\ leaf'[n] = 0 /\ state'[n] = "none"
            /\ hndl'[n] = Null
        BY <1>1, <1>8, <3>1 DEF Destroy, MsgTypes
      <4> QED BY <4>1 DEF MsgOk, SegsOk
    <3>2. CASE n # m
      BY <1>1, <1>8, <3>2 DEF Destroy, MsgTypes, MsgOk
    <3> QED BY <3>1, <3>2
  <2> QED BY <2>2, <2>3 DEF MsgInv
<1>9. ASSUME NEW m \in Obj, Send(m) PROVE MsgInv'
  <2>1. /\ segs' = [segs EXCEPT ![m] = EmittedAll(segs[m])]
        /\ UNCHANGED <<state, leaf, hndl, open, mine, nDesc>>
    BY <1>9 DEF Send, EmittedAll, fdVars
  <2>2. leaf[m] \in Nat /\ SegsOk(segs[m], leaf[m])
    BY <1>1 DEF MsgTypes, MsgOk
  <2>3. SegsOk(EmittedAll(segs[m]), leaf[m])
    BY <2>2, EmittedOk
  <2>4. MsgTypes' /\ FdTypes'
    BY <1>1, <2>1, <2>3 DEF MsgTypes, FdTypes, SegsOk
  <2>5. ASSUME NEW n \in Obj PROVE MsgOk(n)'
    BY <1>1, <2>1, <2>3 DEF MsgTypes, MsgOk
  <2> QED BY <2>4, <2>5 DEF MsgInv
<1>10. CASE ReadLead \/ ReadCont \/ UNCHANGED vars
  <2>1. UNCHANGED <<state, segs, leaf, hndl, open, mine, nDesc>>
    BY <1>10 DEF ReadLead, ReadCont, vars, msgVars, fdVars
  <2> QED BY <1>1, <2>1 DEF MsgInv, MsgTypes, FdTypes, MsgOk
<1> QED BY <1>3, <1>4, <1>5, <1>6, <1>7, <1>8, <1>9, <1>10 DEF Next

-----------------------------------------------------------------------------
(* Handles.                                                                *)

(* The property, handle by handle.                                         *)
HeldOnce ==
  /\ \A m, n \in Obj : hndl[m] = hndl[n] /\ hndl[m] # Null => m = n
  /\ \A m \in Obj : hndl[m] \notin mine
  /\ \A f \in Fd : open[f] # 0 <=> f \in mine \/ \E m \in Obj : hndl[m] = f

LEMMA HeldOnceIs ==
  MsgTypes /\ FdTypes => (HandlesHeldOnce <=> HeldOnce)
<1> SUFFICES ASSUME MsgTypes, FdTypes PROVE HandlesHeldOnce <=> HeldOnce
  OBVIOUS
<1>1. Null \notin Fd
  BY ConstantsAssumption
<1>2. {f \in Fd : open[f] # 0} = (mine \cup {hndl[m] : m \in Obj}) \ {Null}
        <=> \A f \in Fd : open[f] # 0 <=> f \in mine \/ \E m \in Obj : hndl[m] = f
  BY <1>1 DEF MsgTypes, FdTypes
<1> QED BY <1>2 DEF HandlesHeldOnce, HeldOnce

LEMMA HeldOnceStep ==
  ASSUME MsgInv, HeldOnce, [Next]_vars PROVE HeldOnce'
<1>1. MsgTypes /\ FdTypes /\ Null \notin Fd
  BY ConstantsAssumption DEF MsgInv
<1>2. ASSUME NEW f \in Fd, Open(f) PROVE HeldOnce'
  <2>1. nDesc + 1 # 0
    BY <1>1 DEF FdTypes
  <2>2. f \notin mine /\ \A m \in Obj : hndl[m] # f
    BY <1>2 DEF HeldOnce, Open
  <2> QED BY <1>1, <1>2, <2>1, <2>2
          DEF Open, HeldOnce, MsgTypes, FdTypes, msgVars
<1>3. ASSUME NEW m \in Obj, NEW h \in Fd \cup {Null}, Create(m, h)
      PROVE  HeldOnce'
  <2>1. hndl[m] = Null
    BY <1>1, <1>3 DEF Create, MsgInv, MsgOk
  <2>2. /\ hndl' = [hndl EXCEPT ![m] = h] /\ mine' = mine \ {h}
        /\ UNCHANGED open /\ h \in mine \cup {Null}
    BY <1>3 DEF Create
  <2> QED BY <1>1, <2>1, <2>2 DEF HeldOnce, MsgTypes, FdTypes
<1>4. ASSUME NEW m \in Obj, NEW h \in Fd \cup {Null}, Store(m, h)
      PROVE  HeldOnce'
  <2>1. /\ hndl' = [hndl EXCEPT ![m] = h] /\ mine' = mine \ {h}
        /\ h \in mine \cup {Null, hndl[m]}
        /\ open' = IF h = hndl[m] THEN open ELSE Closed(hndl[m])
    BY <1>4 DEF Store
  <2>2. CASE h = hndl[m]
    BY <1>1, <2>1, <2>2 DEF HeldOnce, MsgTypes, FdTypes
  <2>3. CASE h # hndl[m]
    <3>1. \A f \in Fd : open'[f] = IF f = hndl[m] THEN 0 ELSE open[f]
      BY <2>1, <2>3, ClosedType
    <3> QED BY <1>1, <2>1, <2>3, <3>1 DEF HeldOnce, MsgTypes, FdTypes
  <2> QED BY <2>2, <2>3
<1>5. ASSUME NEW dst \in Obj, NEW src \in Obj, Move(dst, src)
      PROVE  HeldOnce'
  <2>1. /\ dst # src /\ UNCHANGED mine
        /\ hndl' = [hndl EXCEPT ![src] = Null, ![dst] = hndl[src]]
        /\ open' = IF hndl[dst] = hndl[src] THEN open ELSE Closed(hndl[dst])
    BY <1>5 DEF Move
  <2>2. \A f \in Fd : open'[f] = IF f = hndl[dst] THEN 0 ELSE open[f]
    <3>1. CASE hndl[dst] = hndl[src]
      BY <1>1, <2>1, <3>1 DEF HeldOnce
    <3>2. CASE hndl[dst] # hndl[src]
      BY <2>1, <3>2, ClosedType
    <3> QED BY <3>1, <3>2
  <2>3. \A m \in Obj : hndl'[m] = IF m = dst THEN hndl[src]
                                  ELSE IF m = src THEN Null ELSE hndl[m]
    BY <1>1, <2>1 DEF MsgTypes
  <2>4. \A m, n \in Obj : hndl'[m] = hndl'[n] /\ hndl'[m] # Null => m = n
    BY <2>3 DEF HeldOnce
  <2>5. \A m \in Obj : hndl'[m] \notin mine'
    <3> TAKE m \in Obj
    <3>1. hndl[src] \notin mine /\ hndl[m] \notin mine
      BY DEF HeldOnce
    <3>2. Null \notin mine
      BY <1>1 DEF FdTypes
    <3>3. hndl'[m] \in {hndl[src], Null, hndl[m]}
      BY <2>3
    <3> QED BY <2>1, <3>1, <3>2, <3>3
  <2>6. \A f \in Fd :
          open'[f] # 0 <=> f \in mine' \/ \E m \in Obj : hndl'[m] = f
    <3> TAKE f \in Fd
    <3>1. CASE f = hndl[dst]
      <4>1. open'[f] = 0 /\ f \notin mine'
        BY <2>1, <2>2, <3>1 DEF HeldOnce
      <4>2. \A m \in Obj : hndl'[m] # f
        <5> TAKE m \in Obj
        <5>1. hndl[src] # f
          BY <1>1, <2>1, <3>1 DEF HeldOnce
        <5>2. m # dst => hndl[m] # f
          BY <1>1, <3>1 DEF HeldOnce
        <5> QED BY <1>1, <2>3, <5>1, <5>2
      <4> QED BY <4>1, <4>2
    <3>2. CASE f # hndl[dst]
      <4>1. (\E m \in Obj : hndl'[m] = f) <=> (\E m \in Obj : hndl[m] = f)
        BY <1>1, <2>1, <2>3, <3>2
      <4> QED BY <2>1, <2>2, <3>2, <4>1 DEF HeldOnce
    <3> QED BY <3>1, <3>2
  <2> QED BY <2>4, <2>5, <2>6 DEF HeldOnce
<1>6. ASSUME NEW m \in Obj, Destroy(m) PROVE HeldOnce'
  <2>1. hndl' = [hndl EXCEPT ![m] = Null] /\ UNCHANGED mine
    BY <1>6 DEF Destroy
  <2>2. \A f \in Fd : open'[f] = IF f = hndl[m] THEN 0 ELSE open[f]
    BY <1>6, ClosedType DEF Destroy
  <2> QED BY <1>1, <2>1, <2>2 DEF HeldOnce, MsgTypes, FdTypes
<1>7. CASE UNCHANGED <<hndl, open, mine>>
  BY <1>7 DEF HeldOnce
<1>8. ASSUME NEW m \in Obj, \/ Send(m) \/ \E n \in 1..MaxLeaf : Grow(m, n)
      PROVE  HeldOnce'
  BY <1>7, <1>8 DEF Send, Grow, fdVars
<1>9. CASE ReadLead \/ ReadCont \/ UNCHANGED vars
  BY <1>7, <1>9 DEF ReadLead, ReadCont, vars, msgVars, fdVars
<1> QED BY <1>2, <1>3, <1>4, <1>5, <1>6, <1>8, <1>9 DEF Next

-----------------------------------------------------------------------------
(* What is on its way.                                                     *)
SentMsg == [sizes : Seq(Nat), hndl : Nat]
NetTypes ==
  /\ wire \in Seq(Blob)
  /\ incoming \in [left : Nat, sizes : Seq(Nat), hndl : Nat]
  /\ got \in Seq(SentMsg) /\ sent \in Seq(SentMsg)

(* The blobs of message x lie on the wire w from place i on.               *)
MsgAt(w, i, x) ==
  /\ i \in Nat \ {0} /\ i + Len(x.sizes) <= Len(w)
  /\ w[i].kind = "lead" /\ w[i].n = Len(x.sizes) /\ w[i].hndl = x.hndl
  /\ \A j \in 1..Len(x.sizes) :
       w[i + j].kind = "cont" /\ w[i + j].size = x.sizes[j]

LEMMA MsgAtTail ==
  ASSUME NEW w \in Seq(Blob), w # <<>>, NEW x \in SentMsg, NEW i \in Nat,
         i > 1, MsgAt(w, i, x)
  PROVE  MsgAt(Tail(w), i - 1, x)
<1>1. /\ Len(w) \in Nat \ {0} /\ Len(Tail(w)) = Len(w) - 1
      /\ \A m \in 1..Len(Tail(w)) : Tail(w)[m] = w[m + 1]
  BY EmptySeq
<1>2. Len(x.sizes) \in Nat
  BY DEF SentMsg
<1>3. i - 1 \in Nat \ {0} /\ (i - 1) + Len(x.sizes) <= Len(Tail(w))
  BY <1>1, <1>2 DEF MsgAt
<1>4. Tail(w)[i - 1] = w[i]
  BY <1>1, <1>2, <1>3
<1>5. \A j \in 1..Len(x.sizes) : Tail(w)[(i - 1) + j] = w[i + j]
  <2> TAKE j \in 1..Len(x.sizes)
  <2>1. (i - 1) + j \in 1..Len(Tail(w)) /\ ((i - 1) + j) + 1 = i + j
    BY <1>1, <1>2, <1>3
  <2> QED BY <1>1, <2>1
<1> QED BY <1>3, <1>4, <1>5 DEF MsgAt

LEMMA MsgAtExtended ==
  ASSUME NEW w \in Seq(Blob), NEW v \in Seq(Blob), Len(w) <= Len(v),
         \A j \in 1..Len(w) : v[j] = w[j],
         NEW x \in SentMsg, NEW i \in Nat, MsgAt(w, i, x)
  PROVE  MsgAt(v, i, x)
<1>1. Len(x.sizes) \in Nat /\ Len(w) \in Nat /\ Len(v) \in Nat
  BY DEF SentMsg
<1>2. /\ i \in Nat \ {0} /\ i + Len(x.sizes) <= Len(w)
      /\ w[i].kind = "lead" /\ w[i].n = Len(x.sizes) /\ w[i].hndl = x.hndl
      /\ \A j \in 1..Len(x.sizes) :
           w[i + j].kind = "cont" /\ w[i + j].size = x.sizes[j]
  BY DEF MsgAt
<1>3. i \in 1..Len(w) /\ i + Len(x.sizes) <= Len(v)
  BY <1>1, <1>2
<1>4. v[i] = w[i]
  BY <1>3
<1>5. \A j \in 1..Len(x.sizes) : v[i + j] = w[i + j]
  <2> TAKE j \in 1..Len(x.sizes)
  <2>1. i + j \in 1..Len(w)
    BY <1>1, <1>2
  <2> QED BY <2>1
<1> QED BY <1>2, <1>3, <1>4, <1>5 DEF MsgAt

(* The messages that have been received, the one that is being read and    *)
(* those whose first blob is still on the wire, from the place of one to   *)
(* that of the next, are the messages that were sent.                      *)
Begun == IF incoming.left = 0 THEN Len(got) ELSE Len(got) + 1
GotIsSent ==
  /\ Begun <= Len(sent)
  /\ \A m \in 1..Len(got) : got[m] = sent[m]
  /\ \A m \in 1..Len(sent) : sent[m].sizes # <<>>
ReadIsSent ==
  incoming.left # 0 =>
    LET x == sent[Begun]
    IN  /\ incoming.hndl = x.hndl
        /\ Len(incoming.sizes) + incoming.left = Len(x.sizes)
        /\ \A j \in 1..Len(incoming.sizes) : incoming.sizes[j] = x.sizes[j]
        /\ incoming.left <= Len(wire)
        /\ \A j \in 1..incoming.left :
             /\ wire[j].kind = "cont"
             /\ wire[j].size = x.sizes[Len(incoming.sizes) + j]
Placed(pos, w, ms, b, n) ==
  /\ pos \in [(b + 1)..(Len(ms) + 1) -> Nat]
  /\ pos[b + 1] = n + 1
  /\ pos[Len(ms) + 1] = Len(w) + 1
  /\ \A i, j \in (b + 1)..(Len(ms) + 1) : i < j => pos[i] < pos[j]
  /\ \A m \in (b + 1)..Len(ms) :
       /\ MsgAt(w, pos[m], ms[m])
       /\ pos[m + 1] = pos[m] + Len(ms[m].sizes) + 1

StreamInv ==
  /\ GotIsSent /\ ReadIsSent
  /\ \E pos : Placed(pos, wire, sent, Begun, incoming.left)
FitInv == \A i \in 1..Len(wire) :
            /\ 0 < wire[i].size /\ wire[i].size <= SegmentSz

NetInv == NetTypes /\ StreamInv /\ FitInv

(* Places, when a message is sent.                                         *)
LEMMA PlacedSend ==
  ASSUME NEW w \in Seq(Blob), NEW ms \in Seq(SentMsg), NEW b \in 0..Len(ms),
         NEW n \in Nat, NEW pos, Placed(pos, w, ms, b, n),
         NEW v \in Seq(Blob), NEW x \in SentMsg,
         Len(v) = Len(w) + 1 + Len(x.sizes),
         \A j \in 1..Len(w) : v[j] = w[j],
         MsgAt(v, Len(w) + 1, x)
  PROVE  \E q : Placed(q, v, Append(ms, x), b, n)
<1>0. PICK lw \in Nat, lv \in Nat, lx \in Nat :
        lw = Len(w) /\ lv = Len(v) /\ lx = Len(x.sizes)
  BY DEF SentMsg
<1> DEFINE L == Len(ms)
           q == [k \in (b + 1)..(L + 2) |->
                   IF k = L + 2 THEN lv + 1 ELSE pos[k]]
<1>1. /\ L \in Nat /\ b \in Nat /\ b <= L /\ lv = lw + 1 + lx
      /\ Len(w) <= Len(v)
  <2>1. L \in Nat /\ b \in Nat /\ b <= L
    OBVIOUS
  <2>2. lv = lw + 1 + lx
    BY <1>0
  <2>3. lw <= lv
    BY <2>2
  <2> QED BY <1>0, <2>1, <2>2, <2>3
<1>2. /\ Append(ms, x) \in Seq(SentMsg) /\ Len(Append(ms, x)) = L + 1
      /\ \A k \in 1..L : Append(ms, x)[k] = ms[k]
      /\ Append(ms, x)[L + 1] = x
  OBVIOUS
<1>3. /\ pos \in [(b + 1)..(L + 1) -> Nat]
      /\ pos[b + 1] = n + 1 /\ pos[L + 1] = lw + 1
      /\ \A i, j \in (b + 1)..(L + 1) : i < j => pos[i] < pos[j]
      /\ \A m \in (b + 1)..L : /\ MsgAt(w, pos[m], ms[m])
                               /\ pos[m + 1] = pos[m] + Len(ms[m].sizes) + 1
  BY <1>0 DEF Placed
<1> HIDE DEF L
<1>4. /\ q \in [(b + 1)..(L + 2) -> Nat]
      /\ q[L + 2] = lv + 1
      /\ \A k \in (b + 1)..(L + 1) : q[k] = pos[k]
  <2>1. \A k \in (b + 1)..(L + 2) :
          k # L + 2 => k \in (b + 1)..(L + 1) /\ pos[k] \in Nat
    BY <1>1, <1>3
  <2>2. \A k \in (b + 1)..(L + 1) : k \in (b + 1)..(L + 2) /\ k # L + 2
    BY <1>1
  <2>3. lv + 1 \in Nat /\ L + 2 \in (b + 1)..(L + 2)
    BY <1>1
  <2>4. q \in [(b + 1)..(L + 2) -> Nat]
    BY <2>1, <2>3
  <2> QED BY <2>2, <2>3, <2>4
<1> HIDE DEF q
<1>5. b + 1 \in (b + 1)..(L + 1) /\ L + 1 \in (b + 1)..(L + 1)
  BY <1>1
<1>6. q[b + 1] = n + 1
  BY <1>3, <1>4, <1>5
<1>7. ASSUME NEW i \in (b + 1)..(L + 2), NEW j \in (b + 1)..(L + 2), i < j
      PROVE  q[i] < q[j]
  <2>1. i \in (b + 1)..(L + 1) /\ pos[i] \in Nat /\ q[i] = pos[i]
    BY <1>1, <1>3, <1>4, <1>7
  <2>2. pos[i] <= lw + 1
    <3>1. CASE i = L + 1
      BY <1>1, <1>3, <3>1
    <3>2. CASE i # L + 1
      <4>1. i < L + 1 /\ pos[L + 1] \in Nat
        BY <1>1, <1>3, <1>5, <2>1, <3>2
      <4>2. pos[i] < pos[L + 1]
        BY <1>3, <1>5, <2>1, <4>1
      <4> QED BY <1>3, <2>1, <4>1, <4>2
    <3> QED BY <3>1, <3>2
  <2>3. CASE j = L + 2
    <3>1. q[j] = lv + 1 /\ lw + 1 < lv + 1
      BY <1>1, <1>4, <2>3
    <3> QED BY <1>1, <2>1, <2>2, <3>1
  <2>4. CASE j # L + 2
    <3>1. j \in (b + 1)..(L + 1)
      BY <1>1, <2>4
    <3> QED BY <1>3, <1>4, <1>7, <2>1, <3>1
  <2> QED BY <2>3, <2>4
<1>8. ASSUME NEW m \in (b + 1)..(L + 1)
      PROVE  /\ MsgAt(v, q[m], Append(ms, x)[m])
             /\ q[m + 1] = q[m] + Len(Append(ms, x)[m].sizes) + 1
  <2>1. CASE m = L + 1
    <3>1. q[m] = lw + 1 /\ q[m + 1] = lv + 1 /\ Append(ms, x)[m] = x
      <4>1. m + 1 = L + 2
        BY <1>1, <2>1
      <4> QED BY <1>2, <1>3, <1>4, <1>5, <2>1, <4>1
    <3>2. q[m + 1] = q[m] + lx + 1
      BY <1>1, <3>1
    <3> QED BY <1>0, <3>1, <3>2
  <2>2. CASE m # L + 1
    <3>1. m \in (b + 1)..L /\ m \in 1..L /\ m + 1 \in (b + 1)..(L + 1)
      BY <1>1, <2>2
    <3>2. Append(ms, x)[m] = ms[m] /\ q[m] = pos[m] /\ q[m + 1] = pos[m + 1]
      BY <1>2, <1>4, <3>1
    <3>3. ms[m] \in SentMsg /\ pos[m] \in Nat
      <4>1. ms[m] \in SentMsg
        BY <3>1 DEF L
      <4>2. m \in (b + 1)..(L + 1)
        BY <1>1, <3>1
      <4> QED BY <1>3, <4>1, <4>2
    <3>4. MsgAt(w, pos[m], ms[m])
            /\ pos[m + 1] = pos[m] + Len(ms[m].sizes) + 1
      BY <1>3, <3>1
    <3>5. MsgAt(v, pos[m], ms[m])
      BY <1>1, <3>3, <3>4, MsgAtExtended
    <3> QED BY <3>2, <3>4, <3>5
  <2> QED BY <2>1, <2>2
<1>9. (L + 1) + 1 = L + 2
  BY <1>1
<1>10. Placed(q, v, Append(ms, x), b, n)
  BY <1>0, <1>2, <1>4, <1>6, <1>7, <1>8, <1>9 DEF Placed
<1> QED BY <1>10

(* Places, when the first of the wire is read.                             *)
LEMMA PlacedShift ==
  ASSUME NEW w \in Seq(Blob), w # <<>>, NEW ms \in Seq(SentMsg),
         NEW b \in 0..Len(ms), NEW n \in Nat, NEW pos, Placed(pos, w, ms, b, n),
         NEW c \in b..Len(ms), pos[c + 1] > 1
  PROVE  \E q : Placed(q, Tail(w), ms, c, pos[c + 1] - 2)
<1> DEFINE L == Len(ms)
           q == [k \in (c + 1)..(L + 1) |-> pos[k] - 1]
<1>1. /\ L \in Nat /\ b \in Nat /\ b <= L /\ c \in Nat /\ b <= c /\ c <= L
      /\ Len(w) \in Nat /\ Len(Tail(w)) = Len(w) - 1
  BY EmptySeq
<1>2. /\ pos \in [(b + 1)..(L + 1) -> Nat]
      /\ pos[L + 1] = Len(w) + 1
      /\ \A i, j \in (b + 1)..(L + 1) : i < j => pos[i] < pos[j]
      /\ \A m \in (b + 1)..L : /\ MsgAt(w, pos[m], ms[m])
                               /\ pos[m + 1] = pos[m] + Len(ms[m].sizes) + 1
  BY DEF Placed
<1> HIDE DEF L
<1>3. \A k \in (c + 1)..(L + 1) : k \in (b + 1)..(L + 1) /\ pos[k] \in Nat
  BY <1>1, <1>2
<1>4. \A k \in (c + 1)..(L + 1) : pos[k] > 1
  <2> TAKE k \in (c + 1)..(L + 1)
  <2>1. c + 1 \in (c + 1)..(L + 1) /\ (k = c + 1 \/ c + 1 < k)
    BY <1>1
  <2>2. CASE k = c + 1
    BY <2>2
  <2>3. CASE c + 1 < k
    <3>1. pos[c + 1] < pos[k] /\ pos[k] \in Nat /\ pos[c + 1] \in Nat
      BY <1>2, <1>3, <2>1, <2>3
    <3> QED BY <3>1
  <2> QED BY <2>1, <2>2, <2>3
<1>5. /\ q \in [(c + 1)..(L + 1) -> Nat]
      /\ \A k \in (c + 1)..(L + 1) : q[k] = pos[k] - 1
  BY <1>3, <1>4
<1> HIDE DEF q
<1>6. c + 1 \in (c + 1)..(L + 1) /\ L + 1 \in (c + 1)..(L + 1)
  BY <1>1
<1>7. q[c + 1] = (pos[c + 1] - 2) + 1 /\ q[L + 1] = Len(Tail(w)) + 1
  <2>1. pos[c + 1] \in Nat
    BY <1>3, <1>6
  <2> QED BY <1>1, <1>2, <1>5, <1>6, <2>1
<1>8. \A i, j \in (c + 1)..(L + 1) : i < j => q[i] < q[j]
  <2> TAKE i, j \in (c + 1)..(L + 1)
  <2> HAVE i < j
  <2>1. pos[i] < pos[j] /\ pos[i] \in Nat /\ pos[j] \in Nat
    BY <1>2, <1>3
  <2> QED BY <1>5, <2>1
<1>9. ASSUME NEW m \in (c + 1)..L
      PROVE  /\ MsgAt(Tail(w), q[m], ms[m])
             /\ q[m + 1] = q[m] + Len(ms[m].sizes) + 1
  <2>1. /\ m \in (b + 1)..L /\ m \in 1..L /\ m \in (c + 1)..(L + 1)
        /\ m + 1 \in (c + 1)..(L + 1)
    BY <1>1
  <2>2. ms[m] \in SentMsg /\ pos[m] \in Nat /\ pos[m] > 1
    BY <1>3, <1>4, <2>1 DEF L
  <2>3. Len(ms[m].sizes) \in Nat
    BY <2>2 DEF SentMsg
  <2>4. MsgAt(w, pos[m], ms[m]) /\ pos[m + 1] = pos[m] + Len(ms[m].sizes) + 1
    BY <1>2, <2>1
  <2>5. MsgAt(Tail(w), pos[m] - 1, ms[m])
    BY <2>2, <2>4, MsgAtTail
  <2>6. q[m] = pos[m] - 1 /\ q[m + 1] = pos[m + 1] - 1
    BY <1>5, <2>1
  <2>7. q[m + 1] = q[m] + Len(ms[m].sizes) + 1
    <3>1. PICK l \in Nat, r \in Nat :
            l = Len(ms[m].sizes) /\ r = pos[m] /\ pos[m + 1] = r + l + 1
      BY <2>2, <2>3, <2>4
    <3>2. (r + l + 1) - 1 = (r - 1) + l + 1
      OBVIOUS
    <3> QED BY <2>6, <3>1, <3>2
  <2> QED BY <2>5, <2>6, <2>7
<1>10. Placed(q, Tail(w), ms, c, pos[c + 1] - 2)
  BY <1>5, <1>7, <1>8, <1>9 DEF Placed, L
<1> QED BY <1>10

LEMMA NetInit == Init => NetInv
<1> SUFFICES ASSUME Init PROVE NetInv
  OBVIOUS
<1>1. /\ wire = <<>> /\ got = <<>> /\ sent = <<>> /\ incoming = Unread
      /\ Len(wire) = 0 /\ Len(got) = 0 /\ Len(sent) = 0
  BY DEF Init
<1>2. incoming.left = 0 /\ Begun = 0
  BY <1>1 DEF Unread, Begun
<1>3. NetTypes
  <2>1. <<>> \in Seq(Nat) /\ <<>> \in Seq(Blob) /\ <<>> \in Seq(SentMsg)
    OBVIOUS
  <2> QED BY <1>1, <2>1 DEF NetTypes, Unread
<1>4. GotIsSent /\ ReadIsSent /\ FitInv
  BY <1>1, <1>2 DEF GotIsSent, ReadIsSent, FitInv
<1>5. Placed([m \in 1..1 |-> 1], wire, sent, Begun, incoming.left)
  BY <1>1, <1>2 DEF Placed
<1> QED BY <1>3, <1>4, <1>5 DEF NetInv, StreamInv

LEMMA NetSame ==
  ASSUME NetInv, UNCHANGED <<wire, incoming, got, sent>> PROVE NetInv'
<1>1. NetTypes' /\ GotIsSent' /\ ReadIsSent' /\ FitInv'
  BY DEF NetInv, StreamInv, NetTypes, GotIsSent, ReadIsSent, FitInv, Begun
<1>2. (\E pos : Placed(pos, wire, sent, Begun, incoming.left))'
  BY DEF NetInv, StreamInv, Begun
<1> QED BY <1>1, <1>2 DEF NetInv, StreamInv
(* What the blobs of a message look like on the wire.                      *)
LEMMA SentOnWire ==
  ASSUME NEW w \in Seq(Blob), NEW x \in SentMsg
  PROVE  LET n == Len(x.sizes)
             v == Append(w, Lead(n, x.hndl))
                    \o [i \in 1..n |-> Cont(x.sizes[i], x.hndl)]
         IN  /\ v \in Seq(Blob)
             /\ Len(v) = Len(w) + 1 + n
             /\ \A j \in 1..Len(w) : v[j] = w[j]
             /\ MsgAt(v, Len(w) + 1, x)
             /\ v[Len(w) + 1].size = WordSz
             /\ \A j \in 1..n : v[Len(w) + 1 + j].size = x.sizes[j]
<1> DEFINE n == Len(x.sizes)
           e == Lead(n, x.hndl)
           c == [i \in 1..n |-> Cont(x.sizes[i], x.hndl)]
           u == Append(w, e)
           v == u \o c
<1>1. /\ n \in Nat /\ x.hndl \in Nat /\ WordSz \in Nat /\ Len(w) \in Nat
      /\ \A i \in 1..n : x.sizes[i] \in Nat
  BY ConstantsAssumption DEF SentMsg
<1>2. PipeFor(x.hndl) \in {"blobs", "handles"}
  BY DEF PipeFor
<1>3. e \in Blob /\ e.kind = "lead" /\ e.n = n /\ e.hndl = x.hndl
        /\ e.size = WordSz
  BY <1>1, <1>2 DEF Lead, Blob
<1>4. ASSUME NEW i \in 1..n
      PROVE  /\ Cont(x.sizes[i], x.hndl) \in Blob
             /\ Cont(x.sizes[i], x.hndl).kind = "cont"
             /\ Cont(x.sizes[i], x.hndl).size = x.sizes[i]
  BY <1>1, <1>2 DEF Cont, Blob
<1>5. /\ c \in Seq(Blob) /\ Len(c) = n
      /\ \A i \in 1..n : c[i] = Cont(x.sizes[i], x.hndl)
  <2>1. c \in [1..n -> Blob]
    BY <1>4
  <2> HIDE DEF n
  <2>2. c \in Seq(Blob) /\ Len(c) = n
    BY <1>1, <2>1, SeqDef
  <2> QED BY <2>2
<1> HIDE DEF n, e, c
<1>6. /\ u \in Seq(Blob) /\ Len(u) = Len(w) + 1 /\ u[Len(w) + 1] = e
      /\ \A j \in 1..Len(w) : u[j] = w[j]
  BY <1>1, <1>3
<1> HIDE DEF u
<1>7. PICK l \in Nat : l = Len(w) /\ Len(u) = l + 1
  BY <1>1, <1>6
<1>8. /\ v \in Seq(Blob) /\ Len(v) = l + 1 + n
      /\ \A j \in 1..(l + 1) : v[j] = u[j]
      /\ \A j \in 1..n : v[l + 1 + j] = c[j]
  <2>1. v \in Seq(Blob) /\ Len(v) = l + 1 + n
    BY <1>5, <1>6, <1>7
  <2>2. \A j \in 1..(l + 1) : v[j] = u[j]
    BY <1>1, <1>5, <1>6, <1>7
  <2>3. ASSUME NEW j \in 1..n PROVE v[l + 1 + j] = c[j]
    <3>1. (l + 1 + j) - (l + 1) = j /\ l + 1 + j > l + 1
            /\ l + 1 + j \in 1..(l + 1 + n)
      BY <1>1
    <3> QED BY <1>5, <1>6, <1>7, <3>1
  <2> QED BY <2>1, <2>2, <2>3
<1> HIDE DEF v
<1>9. /\ \A j \in 1..l : v[j] = w[j]
      /\ v[l + 1] = e
      /\ \A j \in 1..n : v[l + 1 + j].kind = "cont"
                           /\ v[l + 1 + j].size = x.sizes[j]
  BY <1>4, <1>5, <1>6, <1>7, <1>8
<1>10. MsgAt(v, l + 1, x)
  <2>1. l + 1 \in Nat \ {0} /\ (l + 1) + n <= Len(v)
    BY <1>1, <1>8
  <2> QED BY <1>3, <1>9, <2>1 DEF MsgAt, n
<1> QED BY <1>3, <1>7, <1>8, <1>9, <1>10 DEF v, u, c, e, n

-----------------------------------------------------------------------------
(* Each step of a send and of the reads keeps the wire in order.           *)
LEMMA NetSend ==
  ASSUME MsgInv, NetInv, NEW m \in Obj, Send(m) PROVE NetInv'
<1> DEFINE ss == EmittedAll(segs[m])
           n == Len(segs[m])
           x == [sizes |-> [i \in 1..n |-> segs[m][i].used * WordSz],
                 hndl  |-> Handle(m)]
           c == [i \in 1..n |-> Cont(x.sizes[i], x.hndl)]
           v == Append(wire, Lead(n, x.hndl)) \o c
<1>1. SegsOk(segs[m], leaf[m]) /\ leaf[m] # 0 /\ leaf[m] \in Nat
  BY DEF MsgInv, MsgOk, MsgTypes, Send
<1>2. /\ segs[m] \in Seq(Segment) /\ n \in Nat \ {0}
      /\ \A i \in 1..n : segs[m][i].used \in Nat \ {0}
  <2>1. segs[m] \in Seq(Segment)
          /\ \A i \in 1..n : segs[m][i].used \in Nat \ {0}
    <3>1. segs[m] \in Seq(Segment)
      BY <1>1 DEF SegsOk
    <3>2. ASSUME NEW i \in 1..n PROVE segs[m][i].used \in Nat \ {0}
      <4>1. SegOk(segs[m][i], leaf[m])
        BY <1>1 DEF SegsOk
      <4> QED BY <4>1 DEF SegOk, Segment
    <3> QED BY <3>1, <3>2
  <2>2. n # 0
    BY <1>1 DEF SegsOk
  <2> QED BY <2>1, <2>2
<1>3. Len(ss) = n /\ \A i \in 1..n : ss[i].size = segs[m][i].used * WordSz
  BY <1>1, EmittedOk
<1>4. \A i \in 1..n : segs[m][i].used * WordSz \in Nat \ {0}
  <2>1. \A a, b \in Nat \ {0} : a * b \in Nat \ {0}
    <3> TAKE a, b \in Nat \ {0}
    <3>1. 1 * b <= a * b /\ a * b \in Nat
      BY Times
    <3> QED BY <3>1
  <2> QED BY <1>2, <2>1, ConstantsAssumption
<1>5. Handle(m) \in Nat
  BY DEF Handle, MsgInv, MsgTypes, FdTypes
<1>6. x.sizes \in [1..n -> Nat]
  BY <1>4
<1>7. /\ x \in SentMsg /\ Len(x.sizes) = n /\ x.hndl = Handle(m)
      /\ \A i \in 1..n : x.sizes[i] = segs[m][i].used * WordSz
  <2>1. x.sizes \in Seq(Nat) /\ Len(x.sizes) = n
    BY <1>2, <1>6, SeqDef
  <2> QED BY <1>5, <2>1 DEF SentMsg
<1>8. c = [i \in 1..n |-> Cont(ss[i].size, Handle(m))]
  BY <1>3, <1>7
<1>9. \/ UNCHANGED <<wire, incoming, got, sent>>
      \/ /\ wire' = v /\ sent' = Append(sent, x)
         /\ UNCHANGED <<incoming, got>> /\ ~LeafTooBig(ss)
  <2>1. Len(ss) = n /\ ss = [i \in 1..Len(segs[m]) |-> Emitted(segs[m][i])]
    BY <1>3 DEF EmittedAll
  <2> HIDE DEF ss
  <2> QED BY <1>8, <2>1 DEF Send
<1> HIDE DEF ss, n, x, c
<1>10. ASSUME wire' = v, sent' = Append(sent, x), UNCHANGED <<incoming, got>>,
              ~LeafTooBig(ss)
       PROVE  NetInv'
  <2>1. /\ wire \in Seq(Blob) /\ sent \in Seq(SentMsg)
        /\ got \in Seq(SentMsg)
        /\ incoming \in [left : Nat, sizes : Seq(Nat), hndl : Nat]
    BY DEF NetInv, NetTypes
  <2>2. /\ wire' \in Seq(Blob)
        /\ Len(wire') = Len(wire) + 1 + n
        /\ \A j \in 1..Len(wire) : wire'[j] = wire[j]
        /\ MsgAt(wire', Len(wire) + 1, x)
        /\ wire'[Len(wire) + 1].size = WordSz
        /\ \A j \in 1..n : wire'[Len(wire) + 1 + j].size = x.sizes[j]
    BY <1>7, <1>10, <2>1, SentOnWire DEF c
  <2>3. /\ sent' \in Seq(SentMsg) /\ Len(sent') = Len(sent) + 1
        /\ \A k \in 1..Len(sent) : sent'[k] = sent[k]
        /\ sent'[Len(sent) + 1] = x
    BY <1>7, <1>10, <2>1
  <2>4. NetTypes'
    BY <1>10, <2>1, <2>2, <2>3 DEF NetTypes
  <2>5. Begun' = Begun /\ Begun \in Nat /\ Begun <= Len(sent)
    <3>1. Begun' = Begun /\ Begun \in Nat
      BY <1>10, <2>1 DEF Begun
    <3> QED BY <3>1 DEF NetInv, StreamInv, GotIsSent
  <2>6. GotIsSent'
    <3>1. Len(got) <= Begun
      BY <2>1 DEF Begun
    <3>2. \A k \in 1..Len(got) : k \in 1..Len(sent)
      BY <2>1, <2>5, <3>1
    <3>3. Begun' <= Len(sent')
      BY <2>1, <2>3, <2>5
    <3>4. \A k \in 1..Len(got') : got'[k] = sent'[k]
      BY <1>10, <2>3, <3>2 DEF NetInv, StreamInv, GotIsSent
    <3>5. \A k \in 1..Len(sent') : sent'[k].sizes # <<>>
      <4>1. x.sizes # <<>>
        BY <1>2, <1>7
      <4>2. \A k \in 1..Len(sent') : k \in 1..Len(sent) \/ k = Len(sent) + 1
        BY <2>1, <2>3
      <4> QED BY <2>3, <4>1, <4>2 DEF NetInv, StreamInv, GotIsSent
    <3> QED BY <3>3, <3>4, <3>5 DEF GotIsSent
  <2>7. ReadIsSent'
    <3> SUFFICES ASSUME incoming.left # 0 PROVE ReadIsSent'
      BY <1>10 DEF ReadIsSent
    <3>1. Begun \in 1..Len(sent)
      BY <2>1, <2>5 DEF Begun
    <3>2. sent'[Begun'] = sent[Begun]
      BY <2>3, <2>5, <3>1
    <3>3. /\ incoming.left <= Len(wire)
          /\ \A j \in 1..incoming.left :
               /\ wire[j].kind = "cont"
               /\ wire[j].size = sent[Begun].sizes[Len(incoming.sizes) + j]
      BY DEF NetInv, StreamInv, ReadIsSent
    <3>4. incoming.left <= Len(wire')
            /\ \A j \in 1..incoming.left : wire'[j] = wire[j]
      BY <1>2, <2>1, <2>2, <3>3
    <3>5. /\ incoming.hndl = sent[Begun].hndl
          /\ Len(incoming.sizes) + incoming.left = Len(sent[Begun].sizes)
          /\ \A j \in 1..Len(incoming.sizes) :
               incoming.sizes[j] = sent[Begun].sizes[j]
      BY DEF NetInv, StreamInv, ReadIsSent
    <3> QED BY <1>10, <3>2, <3>3, <3>4, <3>5 DEF ReadIsSent
  <2>8. (\E pos : Placed(pos, wire, sent, Begun, incoming.left))'
    <3>1. PICK pos : Placed(pos, wire, sent, Begun, incoming.left)
      BY DEF NetInv, StreamInv
    <3>2. /\ Len(wire') = Len(wire) + 1 + Len(x.sizes) /\ incoming.left \in Nat
          /\ Begun \in 0..Len(sent)
      BY <1>7, <2>1, <2>2, <2>5
    <3>3. \E q : Placed(q, wire', Append(sent, x), Begun, incoming.left)
      BY <1>7, <2>1, <2>2, <3>1, <3>2, PlacedSend
    <3> QED BY <1>10, <2>5, <3>3
  <2>9. FitInv'
    <3>1. ASSUME NEW i \in 1..Len(wire')
          PROVE  0 < wire'[i].size /\ wire'[i].size <= SegmentSz
      <4>1. PICK l \in Nat : l = Len(wire) /\ Len(wire') = l + 1 + n
        BY <2>1, <2>2
      <4>2. CASE i \in 1..l
        BY <2>2, <4>1, <4>2 DEF NetInv, FitInv
      <4>3. CASE i = l + 1
        BY <2>2, <4>1, <4>3, ConstantsAssumption, SegmentSzFits
      <4>4. CASE i > l + 1
        <5>1. PICK j \in 1..n : i = l + 1 + j
          <6>1. i - (l + 1) \in 1..n /\ i = l + 1 + (i - (l + 1))
            BY <1>2, <4>1, <4>4
          <6> QED BY <6>1
        <5>2. wire'[i].size = x.sizes[j]
          BY <2>2, <4>1, <5>1
        <5>3. x.sizes[j] \in Nat \ {0} /\ x.sizes[j] = ss[j].size
          BY <1>3, <1>4, <1>7
        <5>4. ~(ss[j].size > SegmentSz)
          BY <1>3, <1>10 DEF LeafTooBig
        <5> QED BY <5>2, <5>3, <5>4, SegmentSzFits
      <4> QED BY <1>2, <4>1, <4>2, <4>3, <4>4
    <3> QED BY <3>1 DEF FitInv
  <2> QED BY <2>4, <2>6, <2>7, <2>8, <2>9 DEF NetInv, StreamInv
<1> QED BY <1>9, <1>10, NetSame

(* Where the first blob of the wire belongs.                               *)
LEMMA WireHead ==
  ASSUME NetInv, wire # <<>>
  PROVE  \/ /\ incoming.left # 0 /\ wire[1].kind = "cont"
            /\ Begun = Len(got) + 1 /\ Begun \in 1..Len(sent)
         \/ /\ incoming.left = 0 /\ Begun = Len(got) /\ Len(got) + 1 \in 1..Len(sent)
            /\ MsgAt(wire, 1, sent[Len(got) + 1])
            /\ wire[1].kind = "lead"
<1>1. /\ wire \in Seq(Blob) /\ incoming.left \in Nat /\ Len(got) \in Nat
      /\ Len(sent) \in Nat /\ Begun <= Len(sent) /\ Begun \in Nat
  BY DEF NetInv, NetTypes, StreamInv, GotIsSent, Begun
<1>2. Len(wire) \in Nat \ {0}
  BY <1>1, EmptySeq
<1>3. CASE incoming.left # 0
  <2>1. 1 \in 1..incoming.left
    BY <1>1, <1>3
  <2>2. wire[1].kind = "cont"
    BY <1>3, <2>1 DEF NetInv, StreamInv, ReadIsSent
  <2> QED BY <1>1, <1>3, <2>2 DEF Begun
<1>4. CASE incoming.left = 0
  <2>1. Begun = Len(got)
    BY <1>4 DEF Begun
  <2>2. PICK pos : Placed(pos, wire, sent, Len(got), 0)
    BY <1>4, <2>1 DEF NetInv, StreamInv
  <2>3. pos[Len(got) + 1] = 1 /\ pos[Len(sent) + 1] = Len(wire) + 1
    BY <2>2 DEF Placed
  <2>4. Len(got) # Len(sent)
    BY <1>2, <2>3
  <2>5. Len(got) + 1 \in 1..Len(sent)
          /\ Len(got) + 1 \in (Len(got) + 1)..Len(sent)
    BY <1>1, <2>1, <2>4
  <2>6. MsgAt(wire, 1, sent[Len(got) + 1])
    BY <2>2, <2>3, <2>5 DEF Placed
  <2>7. wire[1].kind = "lead"
    BY <2>6 DEF MsgAt
  <2> QED BY <1>4, <2>1, <2>5, <2>6, <2>7
<1> QED BY <1>3, <1>4

LEMMA WireTail ==
  ASSUME NetInv, wire # <<>>
  PROVE  /\ Head(wire) = wire[1] /\ Tail(wire) \in Seq(Blob)
         /\ Len(wire) \in Nat \ {0} /\ Len(Tail(wire)) = Len(wire) - 1
         /\ \A i \in 1..Len(Tail(wire)) :
              i + 1 \in 1..Len(wire) /\ Tail(wire)[i] = wire[i + 1]
         /\ wire' = Tail(wire) => FitInv'
<1>1. wire \in Seq(Blob)
  BY DEF NetInv, NetTypes
<1>2. /\ Head(wire) = wire[1] /\ Tail(wire) \in Seq(Blob)
      /\ Len(wire) \in Nat \ {0} /\ Len(Tail(wire)) = Len(wire) - 1
  BY <1>1, EmptySeq
<1>3. \A i \in 1..Len(Tail(wire)) :
        i + 1 \in 1..Len(wire) /\ Tail(wire)[i] = wire[i + 1]
  BY <1>1, <1>2
<1>4. wire' = Tail(wire) => FitInv'
  BY <1>3 DEF NetInv, FitInv
<1> QED BY <1>2, <1>3, <1>4

LEMMA NetReadLead ==
  ASSUME NetInv, ReadLead PROVE NetInv'
<1>1. /\ wire # <<>> /\ Head(wire).kind = "lead" /\ wire' = Tail(wire)
      /\ incoming' = [left |-> Head(wire).n, sizes |-> <<>>,
                      hndl |-> Head(wire).hndl]
      /\ UNCHANGED <<got, sent>>
  BY DEF ReadLead
<1> DEFINE g == Len(got)
           x == sent[g + 1]
<1>2. /\ Head(wire) = wire[1] /\ Tail(wire) \in Seq(Blob) /\ FitInv'
      /\ \A i \in 1..Len(Tail(wire)) : Tail(wire)[i] = wire[i + 1]
      /\ Len(Tail(wire)) = Len(wire) - 1 /\ Len(wire) \in Nat \ {0}
  BY <1>1, WireTail
<1>3. /\ incoming.left = 0 /\ Begun = g /\ g + 1 \in 1..Len(sent)
      /\ MsgAt(wire, 1, x)
  BY <1>1, <1>2, WireHead
<1>4. g \in Nat /\ Len(sent) \in Nat /\ x \in SentMsg /\ x.sizes # <<>>
  BY <1>3 DEF NetInv, NetTypes, StreamInv, GotIsSent
<1> HIDE DEF g
<1>5. PICK l \in Nat \ {0} : l = Len(x.sizes)
  BY <1>4, EmptySeq DEF SentMsg
<1>6. /\ wire[1].n = l /\ wire[1].hndl = x.hndl /\ 1 + l <= Len(wire)
      /\ \A j \in 1..l : wire[1 + j].kind = "cont" /\ wire[1 + j].size = x.sizes[j]
  BY <1>3, <1>5 DEF MsgAt
<1> HIDE DEF x
<1>7. /\ incoming'.left = l /\ incoming'.sizes = <<>> /\ incoming'.hndl = x.hndl
      /\ incoming' \in [left : Nat, sizes : Seq(Nat), hndl : Nat]
  <2>1. <<>> \in Seq(Nat) /\ x.hndl \in Nat
    BY <1>4 DEF SentMsg
  <2> QED BY <1>1, <1>2, <1>6, <2>1
<1>8. Begun' = g + 1
  BY <1>1, <1>7 DEF Begun, g
<1>9. NetTypes'
  BY <1>1, <1>2, <1>7 DEF NetTypes, NetInv
<1>10. GotIsSent'
  <2>1. Begun' <= Len(sent')
    BY <1>1, <1>3, <1>8
  <2> QED BY <1>1, <2>1 DEF NetInv, StreamInv, GotIsSent
<1>11. ReadIsSent'
  <2>1. sent'[Begun'] = x /\ Len(incoming'.sizes) = 0 /\ wire' = Tail(wire)
    BY <1>1, <1>7, <1>8 DEF x
  <2>2. l <= Len(wire')
    BY <1>1, <1>2, <1>6
  <2>3. \A j \in 1..l : wire'[j] = wire[1 + j]
    BY <1>2, <2>1, <2>2
  <2>4. \A j \in 1..l : wire'[j].kind = "cont" /\ wire'[j].size = x.sizes[0 + j]
    BY <1>6, <2>3
  <2> QED BY <1>5, <1>7, <2>1, <2>2, <2>4 DEF ReadIsSent
<1>12. (\E pos : Placed(pos, wire, sent, Begun, incoming.left))'
  <2>1. PICK pos : Placed(pos, wire, sent, g, 0)
    BY <1>3 DEF NetInv, StreamInv
  <2>2. g + 1 \in (g + 1)..Len(sent) /\ g \in 0..Len(sent)
          /\ g + 1 \in g..Len(sent)
    BY <1>3, <1>4
  <2>3. pos[g + 1] = 1 /\ pos[(g + 1) + 1] = pos[g + 1] + Len(sent[g + 1].sizes) + 1
    BY <2>1, <2>2 DEF Placed
  <2>4. pos[(g + 1) + 1] > 1 /\ pos[(g + 1) + 1] - 2 = l
    BY <1>5, <2>3 DEF x
  <2>5. wire \in Seq(Blob) /\ sent \in Seq(SentMsg)
    BY DEF NetInv, NetTypes
  <2>6. \E q : Placed(q, Tail(wire), sent, g + 1, pos[(g + 1) + 1] - 2)
    BY <1>1, <2>1, <2>2, <2>4, <2>5, PlacedShift
  <2> QED BY <1>1, <1>7, <1>8, <2>4, <2>6
<1> QED BY <1>2, <1>9, <1>10, <1>11, <1>12 DEF NetInv, StreamInv

LEMMA NetReadCont ==
  ASSUME NetInv, ReadCont PROVE NetInv'
<1> DEFINE sizes == Append(incoming.sizes, Head(wire).size)
           g == Len(got)
           x == sent[g + 1]
<1>1. /\ wire # <<>> /\ Head(wire).kind = "cont" /\ wire' = Tail(wire)
      /\ UNCHANGED sent
      /\ IF incoming.left = 1
         THEN /\ got' = Append(got, [sizes |-> sizes, hndl |-> incoming.hndl])
              /\ incoming' = Unread
         ELSE /\ incoming' = [incoming EXCEPT !.left = @ - 1, !.sizes = sizes]
              /\ UNCHANGED got
  BY DEF ReadCont
<1>2. /\ Head(wire) = wire[1] /\ Tail(wire) \in Seq(Blob) /\ FitInv'
      /\ \A i \in 1..Len(Tail(wire)) : Tail(wire)[i] = wire[i + 1]
      /\ Len(Tail(wire)) = Len(wire) - 1 /\ Len(wire) \in Nat \ {0}
  BY <1>1, WireTail
<1>3. incoming.left # 0 /\ Begun = g + 1 /\ g + 1 \in 1..Len(sent)
  BY <1>1, <1>2, WireHead
<1>4. /\ wire \in Seq(Blob) /\ got \in Seq(SentMsg) /\ sent \in Seq(SentMsg)
      /\ incoming \in [left : Nat, sizes : Seq(Nat), hndl : Nat]
      /\ wire[1] \in Blob
  BY <1>2 DEF NetInv, NetTypes
<1>5. g \in Nat /\ Len(sent) \in Nat /\ x \in SentMsg
  BY <1>3, <1>4
<1>6. PICK k \in Nat, l \in Nat \ {0} :
        k = Len(incoming.sizes) /\ l = incoming.left
  BY <1>3, <1>4
<1>7. /\ incoming.hndl = x.hndl /\ k + l = Len(x.sizes)
      /\ \A j \in 1..k : incoming.sizes[j] = x.sizes[j]
      /\ l <= Len(wire)
      /\ \A j \in 1..l : wire[j].kind = "cont" /\ wire[j].size = x.sizes[k + j]
  BY <1>3, <1>6 DEF NetInv, StreamInv, ReadIsSent
<1>8. /\ sizes \in Seq(Nat) /\ Len(sizes) = k + 1
      /\ \A j \in 1..(k + 1) : sizes[j] = x.sizes[j]
  <2>1. wire[1].size \in Nat /\ incoming.sizes \in Seq(Nat)
    BY <1>4 DEF Blob
  <2>2. wire[1].size = x.sizes[k + 1]
    BY <1>6, <1>7
  <2>3. /\ sizes \in Seq(Nat) /\ Len(sizes) = k + 1
        /\ \A j \in 1..k : sizes[j] = incoming.sizes[j]
        /\ sizes[k + 1] = wire[1].size
    BY <1>2, <1>6, <2>1
  <2>4. \A j \in 1..(k + 1) : j \in 1..k \/ j = k + 1
    OBVIOUS
  <2> HIDE DEF sizes, x
  <2> QED BY <1>7, <2>2, <2>3, <2>4
<1>9. \E pos : Placed(pos, wire', sent', g + 1, l - 1)
  <2>1. PICK pos : Placed(pos, wire, sent, g + 1, l)
    BY <1>3, <1>6 DEF NetInv, StreamInv
  <2>2. pos[(g + 1) + 1] = l + 1
    BY <2>1 DEF Placed
  <2>3. pos[(g + 1) + 1] > 1 /\ pos[(g + 1) + 1] - 2 = l - 1
    BY <1>6, <2>2
  <2>4. g + 1 \in 0..Len(sent) /\ g + 1 \in (g + 1)..Len(sent)
    BY <1>3, <1>5
  <2>5. \E q : Placed(q, Tail(wire), sent, g + 1, pos[(g + 1) + 1] - 2)
    BY <1>1, <1>4, <2>1, <2>3, <2>4, PlacedShift
  <2> HIDE DEF g
  <2>6. \E q : Placed(q, Tail(wire), sent, g + 1, l - 1)
    BY <2>3, <2>5
  <2>7. PICK q : Placed(q, Tail(wire), sent, g + 1, l - 1)
    BY <2>6
  <2> QED BY <1>1, <2>7
<1> HIDE DEF sizes
<1>10. CASE l = 1
  <2>1. /\ got' = Append(got, [sizes |-> sizes, hndl |-> incoming.hndl])
        /\ incoming' = Unread
    BY <1>1, <1>6, <1>10
  <2>2. sizes = x.sizes
    <3>1. x.sizes \in Seq(Nat) /\ Len(x.sizes) = k + 1
      BY <1>5, <1>7, <1>10 DEF SentMsg
    <3> HIDE DEF x
    <3> QED BY <1>8, <3>1
  <2>3. [sizes |-> sizes, hndl |-> incoming.hndl] = x
    BY <1>5, <1>7, <2>2 DEF SentMsg
  <2> HIDE DEF x
  <2>4. /\ got' = Append(got, x) /\ got' \in Seq(SentMsg) /\ Len(got') = g + 1
        /\ \A m \in 1..g : got'[m] = got[m]
        /\ got'[g + 1] = x
    BY <1>4, <1>5, <2>1, <2>3
  <2>5. incoming'.left = 0 /\ incoming' \in [left : Nat, sizes : Seq(Nat), hndl : Nat]
    <3>1. <<>> \in Seq(Nat)
      OBVIOUS
    <3> QED BY <2>1, <3>1 DEF Unread
  <2>6. Begun' = g + 1
    BY <2>4, <2>5 DEF Begun
  <2>7. NetTypes'
    BY <1>1, <1>2, <1>4, <2>4, <2>5 DEF NetTypes
  <2>8. GotIsSent'
    <3>1. Begun' <= Len(sent')
      BY <1>1, <1>3, <2>6
    <3>2. \A m \in 1..(g + 1) : got'[m] = sent[m]
      <4>1. got'[g + 1] = sent[g + 1]
        BY <2>4 DEF x
      <4>2. \A m \in 1..g : got[m] = sent[m]
        BY DEF NetInv, StreamInv, GotIsSent
      <4>3. \A m \in 1..(g + 1) : m \in 1..g \/ m = g + 1
        BY <1>5
      <4> QED BY <2>4, <4>1, <4>2, <4>3
    <3> QED BY <1>1, <2>4, <3>1, <3>2 DEF NetInv, StreamInv, GotIsSent
  <2>9. ReadIsSent'
    BY <2>5 DEF ReadIsSent
  <2>10. (\E pos : Placed(pos, wire, sent, Begun, incoming.left))'
    <3>1. l - 1 = 0
      BY <1>10
    <3> QED BY <1>1, <1>9, <2>4, <2>5, <2>6, <3>1
  <2> QED BY <1>2, <2>7, <2>8, <2>9, <2>10 DEF NetInv, StreamInv
<1>11. CASE l # 1
  <2>1. incoming' = [incoming EXCEPT !.left = l - 1, !.sizes = sizes]
          /\ UNCHANGED got
    BY <1>1, <1>6, <1>11
  <2>2. l - 1 \in Nat \ {0}
    BY <1>11
  <2>3. /\ incoming'.left = l - 1 /\ incoming'.sizes = sizes
        /\ incoming'.hndl = incoming.hndl
        /\ incoming' \in [left : Nat, sizes : Seq(Nat), hndl : Nat]
    BY <1>4, <1>8, <2>1, <2>2
  <2>4. Begun' = g + 1
    BY <2>1, <2>2, <2>3 DEF Begun
  <2>5. NetTypes'
    BY <1>1, <1>2, <1>4, <2>1, <2>3 DEF NetTypes
  <2>6. GotIsSent'
    <3>1. Begun' <= Len(sent')
      BY <1>1, <1>3, <2>4
    <3> QED BY <1>1, <2>1, <3>1 DEF NetInv, StreamInv, GotIsSent
  <2>7. ReadIsSent'
    <3>1. sent'[Begun'] = x
      BY <1>1, <2>4
    <3> HIDE DEF x
    <3>2. PICK w \in Nat : w = Len(wire) /\ Len(wire') = w - 1
      BY <1>1, <1>2
    <3>3. l - 1 <= Len(wire')
      BY <1>7, <3>2
    <3>4. \A j \in 1..(l - 1) : j \in 1..Len(wire') /\ j + 1 \in 1..l
      BY <1>6, <3>2, <3>3
    <3>5. \A j \in 1..(l - 1) : wire'[j] = wire[j + 1]
      BY <1>1, <1>2, <3>4
    <3>6. ASSUME NEW j \in 1..(l - 1)
          PROVE  /\ wire'[j].kind = "cont"
                 /\ wire'[j].size = x.sizes[(k + 1) + j]
      <4>1. k + (j + 1) = (k + 1) + j
        OBVIOUS
      <4>2. /\ wire[j + 1].kind = "cont"
            /\ wire[j + 1].size = x.sizes[k + (j + 1)]
        BY <1>7, <3>4
      <4> QED BY <3>5, <4>1, <4>2
    <3>7. (k + 1) + (l - 1) = k + l
      OBVIOUS
    <3>8. /\ incoming'.hndl = x.hndl
          /\ Len(incoming'.sizes) + incoming'.left = Len(x.sizes)
          /\ \A j \in 1..Len(incoming'.sizes) : incoming'.sizes[j] = x.sizes[j]
      BY <1>7, <1>8, <2>3, <3>7
    <3> QED BY <1>8, <2>3, <3>1, <3>3, <3>6, <3>8 DEF ReadIsSent
  <2>8. (\E pos : Placed(pos, wire, sent, Begun, incoming.left))'
    BY <1>1, <1>9, <2>1, <2>3, <2>4
  <2> QED BY <1>2, <2>5, <2>6, <2>7, <2>8 DEF NetInv, StreamInv
<1> QED BY <1>10, <1>11

LEMMA NetStep ==
  ASSUME MsgInv, NetInv, [Next]_vars PROVE NetInv'
<1>1. ASSUME NEW f \in Fd, Open(f) PROVE NetInv'
  BY <1>1, NetSame DEF Open, netVars
<1>2. ASSUME NEW m \in Obj, NEW h \in Fd \cup {Null}, Create(m, h) \/ Store(m, h)
      PROVE  NetInv'
  BY <1>2, NetSame DEF Create, Store, netVars
<1>3. ASSUME NEW m \in Obj, NEW n \in 1..MaxLeaf, Grow(m, n) PROVE NetInv'
  BY <1>3, NetSame DEF Grow, netVars
<1>4. ASSUME NEW m \in Obj, NEW src \in Obj, Move(m, src) PROVE NetInv'
  BY <1>4, NetSame DEF Move, netVars
<1>5. ASSUME NEW m \in Obj, Destroy(m) PROVE NetInv'
  BY <1>5, NetSame DEF Destroy, netVars
<1>6. CASE UNCHANGED vars
  BY <1>6, NetSame DEF vars, netVars
<1> QED BY <1>1, <1>2, <1>3, <1>4, <1>5, <1>6, NetSend, NetReadLead,
           NetReadCont DEF Next

(* hosed is set once and for all.                                          *)
LEMMA HosedStep ==
  ASSUME hosed \in BOOLEAN, [Next]_vars PROVE hosed' \in BOOLEAN
<1>1. ASSUME NEW m \in Obj, Send(m) PROVE hosed' = TRUE \/ hosed' = hosed
  BY <1>1, Zenon DEF Send
<1>2. ASSUME NEW m \in Obj, NEW h, Create(m, h) \/ Store(m, h)
      PROVE  hosed' = hosed
  BY <1>2, Zenon DEF Create, Store, netVars
<1>3. ASSUME NEW m \in Obj, NEW n, Grow(m, n) \/ Move(m, n) \/ Destroy(m)
      PROVE  hosed' = hosed
  BY <1>3, Zenon DEF Grow, Move, Destroy, netVars
<1>4. ASSUME NEW f, Open(f) PROVE hosed' = hosed
  BY <1>4, Zenon DEF Open, netVars
<1>5. ASSUME ReadLead \/ ReadCont \/ UNCHANGED vars PROVE hosed' = hosed
  <2>1. ReadLead \/ ReadCont => hosed' = hosed
    BY Zenon DEF ReadLead, ReadCont
  <2>2. UNCHANGED vars => hosed' = hosed
    BY SMT DEF vars, netVars
  <2> QED BY <1>5, <2>1, <2>2, Zenon
<1>6. hosed' = TRUE \/ hosed' = hosed
  BY <1>1, <1>2, <1>3, <1>4, <1>5, Zenon DEF Next
<1> QED BY <1>6, Zenon

-----------------------------------------------------------------------------
IInv == MsgInv /\ HeldOnce /\ NetInv /\ hosed \in BOOLEAN

LEMMA Inductive == Spec => []IInv
<1>1. Init => IInv
  <2> SUFFICES ASSUME Init PROVE IInv
    OBVIOUS
  <2>1. MsgInv /\ HandlesHeldOnce /\ NetInv
    BY MsgInit, NetInit
  <2>2. HeldOnce
    BY <2>1, HeldOnceIs DEF MsgInv
  <2>3. hosed = FALSE
    BY Zenon DEF Init
  <2>4. hosed \in BOOLEAN
    BY <2>3, Zenon
  <2> QED BY <2>1, <2>2, <2>4, Zenon DEF IInv
<1>2. IInv /\ [Next]_vars => IInv'
  <2> SUFFICES ASSUME IInv, [Next]_vars PROVE IInv'
    OBVIOUS
  <2>1. MsgInv /\ HeldOnce /\ NetInv /\ hosed \in BOOLEAN
    BY Zenon DEF IInv
  <2>2. MsgInv' /\ HeldOnce' /\ NetInv' /\ hosed' \in BOOLEAN
    BY <2>1, MsgStep, HeldOnceStep, NetStep, HosedStep, Zenon
  <2> QED BY <2>2, Zenon DEF IInv
<1> QED BY <1>1, <1>2, PTL DEF Spec

(* Type correctness.                                                       *)
THEOREM TypeCorrect == Spec => []TypeOK
<1>1. IInv => TypeOK
  <2> SUFFICES ASSUME IInv PROVE TypeOK
    OBVIOUS
  <2>1. MsgTypes /\ FdTypes /\ NetTypes /\ hosed \in BOOLEAN
    BY Zenon DEF IInv, MsgInv, NetInv
  <2> QED BY <2>1, Zenon DEF TypeOK, MsgTypes, FdTypes, NetTypes, SentMsg
<1> QED BY <1>1, Inductive, PTL

(* However often messages are stored into, moved and destroyed, every open *)
(* handle is held once and every held handle is open: operator= and        *)
(* store_native_handle_or_null() neither leak one nor give it back twice.  *)
THEOREM HandlesHeldOnceAlways == Spec => []HandlesHeldOnce
<1>1. IInv => HandlesHeldOnce
  BY HeldOnceIs DEF IInv, MsgInv
<1> QED BY <1>1, Inductive, PTL

(* For any word size and any two limits no smaller than a word, send_core()*)
(* refuses a message only for an object too large for one segment.         *)
THEOREM OnlyLeavesAreTooBigAlways == Spec => []OnlyLeavesAreTooBig
<1>1. IInv => OnlyLeavesAreTooBig
  <2> SUFFICES ASSUME IInv, NEW m \in Obj
               PROVE  LeafTooBig(EmittedAll(segs[m]))
                        <=> leaf[m] * WordSz > SegmentSz
    BY DEF OnlyLeavesAreTooBig, EmittedAll
  <2>1. SegsOk(segs[m], leaf[m]) /\ leaf[m] \in Nat
    BY DEF IInv, MsgInv, MsgOk, MsgTypes
  <2>2. /\ Len(EmittedAll(segs[m])) = Len(segs[m])
        /\ \A i \in 1..Len(segs[m]) :
             /\ SegOk(segs[m][i], leaf[m])
             /\ segs[m][i].used \in Nat /\ segs[m][i].cap \in Nat
             /\ EmittedAll(segs[m])[i].size > SegmentSz
                  <=> segs[m][i].used > MaxSeg
    <3>1. ASSUME NEW i \in 1..Len(segs[m])
          PROVE  SegOk(segs[m][i], leaf[m])
                   /\ segs[m][i].used \in Nat /\ segs[m][i].cap \in Nat
      BY <2>1 DEF SegsOk, SegOk, Segment
    <3> QED BY <2>1, <3>1, EmittedOk, WordsFit
  <2>3. LeafTooBig(EmittedAll(segs[m]))
          <=> \E i \in 1..Len(segs[m]) : segs[m][i].used > MaxSeg
    BY <2>2 DEF LeafTooBig
  <2>4. leaf[m] * WordSz > SegmentSz <=> leaf[m] > MaxSeg
    BY <2>1, WordsFit
  <2>5. ASSUME NEW i \in 1..Len(segs[m]), segs[m][i].used > MaxSeg
        PROVE  leaf[m] > MaxSeg
    BY <2>1, <2>2, <2>5, Division DEF SegOk
  <2>6. ASSUME leaf[m] > MaxSeg
        PROVE  \E i \in 1..Len(segs[m]) : segs[m][i].used > MaxSeg
    <3>1. leaf[m] # 0
      BY <2>1, <2>6, Division
    <3>2. PICK i \in 1..Len(segs[m]) : segs[m][i].used >= leaf[m]
      BY <2>1, <3>1 DEF SegsOk
    <3> QED BY <2>1, <2>2, <2>6, <3>2, Division
  <2> QED BY <2>3, <2>4, <2>5, <2>6
<1> QED BY <1>1, Inductive, PTL

(* No blob is empty or larger than the limit of the pipe it goes through,  *)
(* for any two limits: heap_fixed_builder_config() takes the smaller.      *)
THEOREM FitsThePipeAlways == Spec => []FitsThePipe
<1>1. IInv => FitsThePipe
  <2> SUFFICES ASSUME IInv, NEW i \in 1..Len(wire)
               PROVE  /\ wire[i].size > 0
                      /\ wire[i].size <= (IF wire[i].pipe = "blobs" THEN BlobMax
                                          ELSE MetaMax)
    BY DEF FitsThePipe
  <2>1. 0 < wire[i].size /\ wire[i].size <= SegmentSz
    BY DEF IInv, NetInv, FitInv
  <2>2. wire[i].size \in Nat
    <3>1. wire \in Seq(Blob)
      BY DEF IInv, NetInv, NetTypes
    <3>2. wire[i] \in Blob
      BY <3>1
    <3> QED BY <3>2 DEF Blob
  <2> QED BY <2>1, <2>2, SegmentSzFits, ConstantsAssumption
<1> QED BY <1>1, Inductive, PTL

(* The messages received are those that were sent, each as it was when it  *)
(* was sent, whatever was done to the object since.                        *)
THEOREM ReceivedAsSentAlways == Spec => []ReceivedAsSent
<1>1. IInv => ReceivedAsSent
  <2> SUFFICES ASSUME IInv PROVE ReceivedAsSent
    OBVIOUS
  <2>1. /\ got \in Seq(SentMsg) /\ sent \in Seq(SentMsg)
        /\ Begun <= Len(sent) /\ \A m \in 1..Len(got) : got[m] = sent[m]
    BY DEF IInv, NetInv, NetTypes, StreamInv, GotIsSent
  <2>2. PICK g \in Nat, l \in Nat : g = Len(got) /\ l = Len(sent)
    BY <2>1
  <2>3. g <= l
    BY <2>1, <2>2 DEF Begun
  <2>4. /\ SubSeq(got, 1, g) \in Seq(SentMsg) /\ Len(SubSeq(got, 1, g)) = g
        /\ \A m \in 1..g : SubSeq(got, 1, g)[m] = got[m]
    BY <2>1, <2>2
  <2>5. /\ SubSeq(sent, 1, g) \in Seq(SentMsg) /\ Len(SubSeq(sent, 1, g)) = g
        /\ \A m \in 1..g : SubSeq(sent, 1, g)[m] = sent[m]
    BY <2>1, <2>2, <2>3
  <2>6. SubSeq(got, 1, g) = SubSeq(sent, 1, g)
    BY <2>1, <2>2, <2>4, <2>5
  <2> QED BY <2>2, <2>3, <2>6 DEF ReceivedAsSent, IsPrefix
<1> QED BY <1>1, Inductive, PTL

=============================================================================
