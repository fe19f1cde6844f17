------------------------ MODULE FramingStream_proofs ------------------------
(***************************************************************************)
(* Proofs, for every number of messages and segments, every way the        *)
(* transport fails and for one pipe or two, that what a read chain puts    *)
(* together is what was sent: the blobs of a pipe are laid out against the *)
(* messages they are the parts of.                                         *)
(***************************************************************************)
EXTENDS Framing_proofs, Integers

(* The messages that pipe k may carry.                                     *)
MsgOn(k) ==
  {Blobs(id, h, n) : id \in 0..(MaxMsg["cli"] + MaxMsg["srv"]),
                     h \in {x \in BOOLEAN : PipeFor(x) = k}, n \in 0..MaxSeg}

(* The blobs w are those of the messages ms, message j from the blob after *)
(* pos[j] on: what has been taken from w already lies before it.  The last *)
(* of ms is cut: some of it is missing, or all.                            *)
Carried(pos, w, ms) ==
  /\ pos \in [1..Len(ms) -> Int]
  /\ \A j \in 1..Len(ms) : pos[j] <= Len(w)
  /\ \A j \in 1..(Len(ms) - 1) : pos[j + 1] = pos[j] + Len(ms[j])
  /\ \A j \in 1..Len(ms) : \A i \in 1..Len(ms[j]) :
       pos[j] + i \in 1..Len(w) => w[pos[j] + i] = ms[j][i]
  /\ Len(w) < pos[Len(ms)] + Len(ms[Len(ms)])

(* Nothing more is put on the pipe, and what was may have been cut.        *)
Dead(q, k) == err[q] # "ok" /\ <<q, k>> \in broken

(* Where the chain is in what is laid out.                                 *)
Reads(pos, p, k, ms) ==
  LET n == Len(got[p][k]) + 1
      m == msgIn[p][k]
  IN  /\ step[p][k] \in {"off", "notice"} =>
           m = <<>> /\ n = 1 /\ pos[1] = Lower(1, Len(wire[p][k]))
      /\ step[p][k] = "lead" => m = <<>> /\ pos[n] = 0
      /\ step[p][k] = "cont" =>
           /\ m # <<>> /\ pos[n] + Len(m) = 0
           /\ Len(m) + left[p][k] + 1 = Len(ms[n])
           /\ \A i \in 1..Len(m) : m[i] = ms[n][i]

StreamBy(p, k, t, pos) ==
  LET ms == Append(sent[Other(p)][k], t)
  IN  /\ Carried(pos, wire[p][k], ms)
      /\ pos[Len(ms)] = Len(wire[p][k]) \/ Dead(Other(p), k)
      /\ Reads(pos, p, k, ms)

Stream(p, k) ==
  step[p][k] # "stop" => \E t \in MsgOn(k) : \E pos : StreamBy(p, k, t, pos)

(* What the chain has put together is a beginning of what was sent.        *)
Delivered(p, k) ==
  LET g == got[p][k]
      s == sent[Other(p)][k]
  IN  /\ Len(g) <= Len(s) /\ \A j \in 1..Len(g) : g[j] = s[j]
      /\ \A j \in 1..Len(s) : s[j] \in MsgOn(k)
      /\ s # <<>> => startedOps[Other(p)] /\ negErr[Other(p)] = "ok"

StreamInv == \A p \in Peer, k \in Pipe : Stream(p, k) /\ Delivered(p, k)

-----------------------------------------------------------------------------
(* The blobs of a message.                                                 *)
LEMMA MsgOnBlobs ==
  ASSUME NEW k \in Pipe, NEW m \in MsgOn(k)
  PROVE  /\ m \in Seq(MsgBlob) /\ Len(m) \in Nat \ {0}
         /\ m[1].kind = "lead" /\ m[1].segs = Len(m) - 1
         /\ TwoPipes => m[1].hndl = (k = "handles")
         /\ \A i \in 1..Len(m) : m[i] \in MsgBlob /\ m[i].id = m[1].id
         /\ \A i \in 2..Len(m) : m[i].kind = "cont"
<1>1. PICK id \in Nat, h \in BOOLEAN, n \in Nat :
        m = Blobs(id, h, n) /\ PipeFor(h) = k
  BY ConstantsAssumption DEF MsgOn, Peer
<1>2. m \in Seq(MsgBlob) /\ Len(m) = n + 1
  BY <1>1, BlobsTyped
<1>3. m[1] = Lead(id, h, n) /\ \A i \in 2..(n + 1) : m[i] = Cont(id, i - 1)
  <2> DEFINE tail == [i \in 1..n |-> Cont(id, i)]
             first == <<Lead(id, h, n)>>
  <2>1. \A i \in 1..n : Cont(id, i) \in MsgBlob
    BY DEF Cont, MsgBlob
  <2>2. tail \in Seq(MsgBlob) /\ Len(tail) = n
    <3>1. tail \in [1..n -> MsgBlob]
      BY <2>1
    <3>2. tail \in Seq(MsgBlob)
      BY <3>1, SeqDef
    <3> QED BY <3>2, LenProperties
  <2>3. Lead(id, h, n) \in MsgBlob
    BY DEF Lead, MsgBlob
  <2>4. first \in Seq(MsgBlob) /\ Len(first) = 1 /\ first[1] = Lead(id, h, n)
    BY <2>3
  <2>5. \A i \in 1..n : tail[i] = Cont(id, i)
    OBVIOUS
  <2>6. m = first \o tail
    BY <1>1 DEF Blobs
  <2> HIDE DEF first, tail
  <2>7. \A i \in 1..(1 + n) : m[i] = IF i <= 1 THEN first[i] ELSE tail[i - 1]
    <3>1. \A i \in 1..(Len(first) + Len(tail)) : (first \o tail)[i] =
            IF i <= Len(first) THEN first[i] ELSE tail[i - Len(first)]
      BY <2>2, <2>4, ConcatProperties, Zenon
    <3> QED BY <2>2, <2>4, <2>6, <3>1
  <2>8. m[1] = first[1]
    BY <2>7
  <2>9. ASSUME NEW i \in 2..(n + 1) PROVE m[i] = Cont(id, i - 1)
    <3>1. i \in 1..(1 + n) /\ ~(i <= 1) /\ i - 1 \in 1..n
      OBVIOUS
    <3> QED BY <2>5, <2>7, <3>1
  <2> QED BY <2>4, <2>8, <2>9
<1>4. m[1].kind = "lead" /\ m[1].segs = n /\ m[1].id = id
  BY <1>3 DEF Lead
<1>5. TwoPipes => m[1].hndl = (k = "handles")
  <2>1. m[1].hndl = h
    BY <1>3 DEF Lead
  <2>2. TwoPipes => (h <=> k = "handles")
    BY <1>1 DEF PipeFor
  <2> QED BY <2>1, <2>2
<1>6. ASSUME NEW i \in 2..(n + 1) PROVE m[i].kind = "cont" /\ m[i].id = id
  <2>1. m[i] = Cont(id, i - 1)
    BY <1>3
  <2> QED BY <2>1 DEF Cont
<1>7. \A i \in 1..(n + 1) : i = 1 \/ i \in 2..(n + 1)
  OBVIOUS
<1>8. \A i \in 1..Len(m) : m[i] \in MsgBlob
  BY <1>2
<1>9. m[1].segs = Len(m) - 1 /\ Len(m) \in Nat \ {0}
  BY <1>2, <1>4
<1> HIDE DEF TwoPipes
<1> QED BY <1>2, <1>4, <1>5, <1>6, <1>7, <1>8, <1>9

LEMMA MsgOnSome ==
  ASSUME NEW k \in Pipe PROVE MsgOn(k) # {}
<1>1. PICK h \in BOOLEAN : PipeFor(h) = k
  BY ConstantsAssumption DEF PipeFor, TwoPipes
<1>2. Blobs(0, h, 0) \in MsgOn(k)
  BY <1>1, ConstantsAssumption DEF MsgOn, Peer
<1> QED BY <1>2

-----------------------------------------------------------------------------
(* A blob is taken.                                                        *)
LEMMA CarriedTail ==
  ASSUME NEW w \in Seq(Blob), w # <<>>, NEW ms \in Seq(Seq(MsgBlob)),
         ms # <<>>, NEW pos, Carried(pos, w, ms)
  PROVE  Carried([j \in 1..Len(ms) |-> pos[j] - 1], Tail(w), ms)
<1> DEFINE new == [j \in 1..Len(ms) |-> pos[j] - 1]
<1>1. /\ Tail(w) \in Seq(Blob) /\ Len(Tail(w)) = Len(w) - 1
      /\ \A i \in 1..Len(Tail(w)) : Tail(w)[i] = w[i + 1]
  BY HeadTailProperties
<1>2. PICK N \in Nat \ {0} : N = Len(ms)
  BY EmptySeq
<1>3. PICK lw \in Nat : lw = Len(w)
  OBVIOUS
<1>4. pos \in [1..N -> Int] /\ new \in [1..N -> Int]
      /\ \A j \in 1..N : new[j] = pos[j] - 1
  BY <1>2 DEF Carried
<1> HIDE DEF new
<1>5. \A j \in 1..N : pos[j] <= lw
  BY <1>2, <1>3 DEF Carried
<1>6. \A j \in 1..N : new[j] <= Len(Tail(w))
  BY <1>1, <1>3, <1>4, <1>5
<1>7. \A j \in 1..(N - 1) : new[j + 1] = new[j] + Len(ms[j])
  <2> TAKE j \in 1..(N - 1)
  <2>1. j \in 1..N /\ j + 1 \in 1..N /\ ms[j] \in Seq(MsgBlob)
    BY <1>2
  <2>2. PICK l \in Nat : l = Len(ms[j])
    BY <2>1
  <2>3. pos[j + 1] = pos[j] + l
    BY <1>2, <2>2 DEF Carried
  <2>4. pos[j] \in Int /\ new[j] = pos[j] - 1 /\ new[j + 1] = pos[j + 1] - 1
    BY <1>4, <2>1
  <2> QED BY <2>2, <2>3, <2>4
<1>8. ASSUME NEW j \in 1..N, NEW i \in 1..Len(ms[j]),
             new[j] + i \in 1..Len(Tail(w))
      PROVE  Tail(w)[new[j] + i] = ms[j][i]
  <2>1. i \in Nat /\ pos[j] \in Int /\ new[j] = pos[j] - 1
    <3>1. ms[j] \in Seq(MsgBlob)
      BY <1>2
    <3> QED BY <1>4, <3>1
  <2>2. pos[j] + i \in 1..lw /\ new[j] + i + 1 = pos[j] + i
    <3>1. new[j] + i \in 1..(lw - 1)
      BY <1>1, <1>3, <1>8
    <3>2. PICK q \in Int : q = pos[j]
      BY <2>1
    <3>3. q - 1 + i \in 1..(lw - 1)
      BY <2>1, <3>1, <3>2
    <3>4. q + i \in 1..lw /\ q - 1 + i + 1 = q + i
      BY <2>1, <3>3
    <3> QED BY <2>1, <3>2, <3>4
  <2>3. w[pos[j] + i] = ms[j][i]
    BY <1>2, <1>3, <2>2 DEF Carried
  <2> QED BY <1>1, <1>8, <2>2, <2>3
<1>9. Len(Tail(w)) < new[N] + Len(ms[N])
  <2>1. N \in 1..N /\ ms[N] \in Seq(MsgBlob)
    BY <1>2
  <2>2. PICK l \in Nat : l = Len(ms[N])
    BY <2>1
  <2>3. lw < pos[N] + l
    BY <1>2, <1>3, <2>2 DEF Carried
  <2> QED BY <1>1, <1>3, <1>4, <2>1, <2>2, <2>3, SMTT(40)
<1>10. Carried(new, Tail(w), ms)
  BY <1>2, <1>4, <1>6, <1>7, <1>8, <1>9 DEF Carried
<1> QED BY <1>10 DEF new

(* What is laid out where one message after those put on whole begins.     *)
LEMMA Appended ==
  ASSUME NEW s \in Seq(Seq(MsgBlob)), NEW t \in Seq(MsgBlob)
  PROVE  /\ Append(s, t) \in Seq(Seq(MsgBlob)) /\ Append(s, t) # <<>>
         /\ Len(Append(s, t)) = Len(s) + 1 /\ Len(s) \in Nat
         /\ Append(s, t)[Len(s) + 1] = t
         /\ \A j \in 1..Len(s) : Append(s, t)[j] = s[j]
<1>1. /\ Append(s, t) \in Seq(Seq(MsgBlob)) /\ Len(Append(s, t)) = Len(s) + 1
      /\ Len(s) \in Nat /\ Append(s, t)[Len(s) + 1] = t
      /\ \A j \in 1..Len(s) : Append(s, t)[j] = s[j]
  OBVIOUS
<1> QED BY <1>1, EmptySeq

(* A beginning c of message m is put behind blobs none of which is cut.    *)
LEMMA CarriedCut ==
  ASSUME NEW w \in Seq(Blob), NEW s \in Seq(Seq(MsgBlob)),
         NEW t \in Seq(MsgBlob), NEW m \in Seq(MsgBlob), NEW c \in Seq(MsgBlob),
         Len(c) < Len(m), \A i \in 1..Len(c) : c[i] = m[i],
         NEW pos, Carried(pos, w, Append(s, t)), pos[Len(s) + 1] = Len(w)
  PROVE  Carried(pos, w \o c, Append(s, m))
<1>1. PICK N \in Nat : N = Len(s)
  OBVIOUS
<1>2. PICK lw \in Nat : lw = Len(w)
  OBVIOUS
<1>3. PICK lc \in Nat : lc = Len(c)
  OBVIOUS
<1>4. /\ Len(Append(s, t)) = N + 1 /\ Len(Append(s, m)) = N + 1
      /\ Append(s, m)[N + 1] = m
      /\ \A j \in 1..N : Append(s, t)[j] = s[j] /\ Append(s, m)[j] = s[j]
  BY <1>1, Appended
<1>5. /\ pos \in [1..(N + 1) -> Int] /\ pos[N + 1] = lw
      /\ \A j \in 1..(N + 1) : pos[j] <= lw
  BY <1>1, <1>2, <1>4 DEF Carried
<1>6. /\ Len(w \o c) = lw + lc
      /\ \A i \in 1..(lw + lc) : (w \o c)[i] = IF i <= lw THEN w[i] ELSE c[i - lw]
  <2>1. c \in Seq(Blob)
    BY DEF Blob
  <2>2. /\ Len(w \o c) = Len(w) + Len(c)
        /\ \A i \in 1..Len(w) + Len(c) :
             (w \o c)[i] = IF i <= Len(w) THEN w[i] ELSE c[i - Len(w)]
    BY <2>1, ConcatProperties, Zenon
  <2> QED BY <1>2, <1>3, <2>2
<1>7. \A j \in 1..(N + 1) : pos[j] <= lw + lc
  BY <1>5
<1>8. ASSUME NEW j \in 1..N
      PROVE  pos[j + 1] = pos[j] + Len(Append(s, m)[j])
  BY <1>4, <1>8 DEF Carried
<1>9. ASSUME NEW j \in 1..(N + 1), NEW i \in 1..Len(Append(s, m)[j]),
             pos[j] + i \in 1..(lw + lc)
      PROVE  (w \o c)[pos[j] + i] = Append(s, m)[j][i]
  <2>1. CASE j = N + 1
    <3>1. i \in 1..Len(m) /\ Len(m) \in Nat /\ pos[j] = lw
      BY <1>4, <1>5, <1>9, <2>1
    <3>2. i \in 1..lc /\ ~(lw + i <= lw) /\ lw + i - lw = i
          /\ lw + i \in 1..(lw + lc)
      BY <1>9, <3>1
    <3>3. c[i] = m[i]
      BY <1>3, <3>2
    <3> QED BY <1>4, <1>6, <2>1, <3>1, <3>2, <3>3, SMTT(40)
  <2>2. CASE j \in 1..N
    <3>1. s[j] \in Seq(MsgBlob) /\ Append(s, m)[j] = s[j]
          /\ Append(s, t)[j] = s[j]
      BY <1>1, <1>4, <2>2
    <3>2. PICK l \in Nat : l = Len(s[j])
      BY <3>1
    <3>3. pos[j + 1] = pos[j] + l /\ pos[j + 1] <= lw /\ pos[j] \in Int
      BY <1>4, <1>5, <2>2, <3>1, <3>2, SMTT(40) DEF Carried
    <3>4. i \in 1..l
      BY <3>1, <3>2
    <3>5. pos[j] + i <= lw /\ pos[j] + i \in 1..lw
      BY <1>9, <3>3, <3>4, SMTT(40)
    <3>6. w[pos[j] + i] = s[j][i]
      BY <1>2, <1>4, <3>1, <3>2, <3>4, <3>5, SMTT(30) DEF Carried
    <3> QED BY <1>6, <1>9, <3>1, <3>5, <3>6
  <2>3. j = N + 1 \/ j \in 1..N
    OBVIOUS
  <2> QED BY <2>1, <2>2, <2>3
<1>10. lw + lc < pos[N + 1] + Len(m)
  <2>1. Len(m) \in Nat
    OBVIOUS
  <2> QED BY <1>3, <1>5, <2>1
<1>11. PICK ms, u : ms = Append(s, m) /\ u = w \o c
  OBVIOUS
<1>12. Len(ms) = N + 1 /\ Len(u) = lw + lc /\ ms[N + 1] = m /\ N + 1 - 1 = N
  BY <1>4, <1>6, <1>11
<1>13. /\ \A j \in 1..N : pos[j + 1] = pos[j] + Len(ms[j])
       /\ \A j \in 1..(N + 1) : \A i \in 1..Len(ms[j]) :
            pos[j] + i \in 1..(lw + lc) => u[pos[j] + i] = ms[j][i]
  BY <1>8, <1>9, <1>11
<1>14. /\ pos \in [1..Len(ms) -> Int]
       /\ \A j \in 1..Len(ms) : pos[j] <= Len(u)
       /\ Len(u) < pos[Len(ms)] + Len(ms[Len(ms)])
  BY <1>5, <1>7, <1>10, <1>12
<1>15. /\ \A j \in 1..(Len(ms) - 1) : pos[j + 1] = pos[j] + Len(ms[j])
       /\ \A j \in 1..Len(ms) : \A i \in 1..Len(ms[j]) :
            pos[j] + i \in 1..Len(u) => u[pos[j] + i] = ms[j][i]
  BY <1>12, <1>13
<1>16. Carried(pos, u, ms)
  BY <1>14, <1>15 DEF Carried
<1> QED BY <1>11, <1>16

(* A message m is put behind them whole; the next one to be cut is o.      *)
LEMMA CarriedWhole ==
  ASSUME NEW w \in Seq(Blob), NEW s \in Seq(Seq(MsgBlob)),
         NEW t \in Seq(MsgBlob), NEW m \in Seq(MsgBlob), NEW o \in Seq(MsgBlob),
         0 < Len(o),
         NEW pos, Carried(pos, w, Append(s, t)), pos[Len(s) + 1] = Len(w)
  PROVE  LET ms  == Append(Append(s, m), o)
             new == [j \in 1..(Len(s) + 2) |->
                       IF j <= Len(s) + 1 THEN pos[j] ELSE Len(w) + Len(m)]
         IN  Carried(new, w \o m, ms) /\ new[Len(ms)] = Len(w \o m)
<1> DEFINE new == [j \in 1..(Len(s) + 2) |->
                     IF j <= Len(s) + 1 THEN pos[j] ELSE Len(w) + Len(m)]
<1>1. PICK N \in Nat : N = Len(s)
  OBVIOUS
<1>2. PICK lw \in Nat : lw = Len(w)
  OBVIOUS
<1>3. PICK lm \in Nat : lm = Len(m)
  OBVIOUS
<1>4. Len(Append(s, t)) = N + 1 /\ \A j \in 1..N : Append(s, t)[j] = s[j]
  BY <1>1, Appended
<1>5. /\ pos \in [1..(N + 1) -> Int] /\ pos[N + 1] = lw
      /\ \A j \in 1..(N + 1) : pos[j] <= lw
  BY <1>1, <1>2, <1>4 DEF Carried
<1>6. PICK u \in Seq(Blob) : u = w \o m
  <2>1. m \in Seq(Blob)
    BY DEF Blob
  <2>2. w \o m \in Seq(Blob)
    BY <2>1, ConcatProperties, Zenon
  <2> QED BY <2>2
<1>7. /\ Len(u) = lw + lm
      /\ \A i \in 1..(lw + lm) : u[i] = IF i <= lw THEN w[i] ELSE m[i - lw]
  <2>1. m \in Seq(Blob)
    BY DEF Blob
  <2>2. /\ Len(w \o m) = Len(w) + Len(m)
        /\ \A i \in 1..Len(w) + Len(m) :
             (w \o m)[i] = IF i <= Len(w) THEN w[i] ELSE m[i - Len(w)]
    BY <2>1, ConcatProperties, Zenon
  <2> QED BY <1>2, <1>3, <1>6, <2>2
<1>8. PICK ms \in Seq(Seq(MsgBlob)) : ms = Append(Append(s, m), o)
  <2>1. Append(s, m) \in Seq(Seq(MsgBlob))
    BY Appended
  <2> QED BY <2>1, Appended
<1>9. /\ Len(ms) = N + 2 /\ ms[N + 2] = o /\ ms[N + 1] = m
      /\ \A j \in 1..N : ms[j] = s[j]
  <2>1. PICK r \in Seq(Seq(MsgBlob)) : r = Append(s, m)
    BY Appended
  <2>2. Len(r) = N + 1 /\ r[N + 1] = m /\ \A j \in 1..N : r[j] = s[j]
    BY <1>1, <2>1, Appended
  <2>3. /\ Len(ms) = Len(r) + 1 /\ ms[Len(r) + 1] = o
        /\ \A j \in 1..Len(r) : ms[j] = r[j]
    BY <1>8, <2>1, Appended
  <2> QED BY <2>2, <2>3
<1>10. /\ new \in [1..(N + 2) -> Int] /\ new[N + 2] = lw + lm
       /\ \A j \in 1..(N + 1) : new[j] = pos[j]
  <2>1. new = [j \in 1..(N + 2) |-> IF j <= N + 1 THEN pos[j] ELSE lw + lm]
    BY <1>1, <1>2, <1>3
  <2> HIDE DEF new
  <2>2. \A j \in 1..(N + 2) : new[j] \in Int
    BY <1>5, <2>1
  <2> QED BY <2>1, <2>2
<1> HIDE DEF new
<1>11. \A j \in 1..(N + 2) : j \in 1..N \/ j = N + 1 \/ j = N + 2
  OBVIOUS
<1>12. \A j \in 1..(N + 2) : new[j] <= lw + lm
  <2>1. \A j \in 1..(N + 1) : new[j] <= lw
    BY <1>5, <1>10
  <2>2. \A j \in 1..(N + 1) : new[j] <= lw + lm
    <3> TAKE j \in 1..(N + 1)
    <3>1. PICK a \in Int : a = new[j]
      BY <1>10
    <3>2. a <= lw
      BY <2>1, <3>1
    <3>3. a <= lw + lm
      BY <3>2
    <3> QED BY <3>1, <3>3
  <2> TAKE j \in 1..(N + 2)
  <2>3. CASE j = N + 2
    BY <1>10, <2>3
  <2>4. CASE j # N + 2
    BY <2>2, <2>4
  <2> QED BY <2>3, <2>4
<1>13. ASSUME NEW j \in 1..(N + 1) PROVE new[j + 1] = new[j] + Len(ms[j])
  <2>1. CASE j = N + 1
    <3>1. new[j] = lw /\ new[j + 1] = lw + lm /\ Len(ms[j]) = lm
      <4>1. N + 1 \in 1..(N + 1) /\ N + 1 + 1 = N + 2
        OBVIOUS
      <4>2. new[j] = lw
        BY <1>5, <1>10, <2>1, <4>1
      <4>3. new[j + 1] = lw + lm
        BY <1>10, <2>1, <4>1
      <4> QED BY <1>3, <1>9, <2>1, <4>2, <4>3
    <3> QED BY <3>1
  <2>2. CASE j \in 1..N
    <3>1. j \in 1..(N + 1) /\ j + 1 \in 1..(N + 1) /\ j \in 1..(N + 1 - 1)
      BY <2>2
    <3>2. pos[j + 1] = pos[j] + Len(s[j])
      <4>1. Append(s, t)[j] = s[j] /\ j \in 1..(Len(Append(s, t)) - 1)
        BY <1>4, <2>2
      <4>2. pos[j + 1] = pos[j] + Len(Append(s, t)[j])
        BY <4>1 DEF Carried
      <4> QED BY <4>1, <4>2
    <3> QED BY <1>9, <1>10, <2>2, <3>1, <3>2
  <2>3. j = N + 1 \/ j \in 1..N
    OBVIOUS
  <2> QED BY <2>1, <2>2, <2>3
<1>14. ASSUME NEW j \in 1..(N + 2), NEW i \in 1..Len(ms[j]),
              new[j] + i \in 1..(lw + lm)
       PROVE  u[new[j] + i] = ms[j][i]
  <2>0. i \in Nat \ {0}
    <3>1. ms[j] \in Seq(MsgBlob)
      BY <1>8, <1>9
    <3> QED BY <3>1
  <2>1. CASE j = N + 2
    <3>1. lw + lm + i \in 1..(lw + lm)
      BY <1>10, <1>14, <2>1
    <3> QED BY <2>0, <3>1, SMTT(40)
  <2>2. CASE j = N + 1
    <3>1. new[j] = lw /\ i \in 1..lm
      BY <1>3, <1>5, <1>9, <1>10, <2>2
    <3>2. ~(lw + i <= lw) /\ lw + i - lw = i /\ lw + i \in 1..(lw + lm)
      BY <3>1
    <3> QED BY <1>7, <1>9, <2>2, <3>1, <3>2, SMTT(40)
  <2>3. CASE j \in 1..N
    <3>1. s[j] \in Seq(MsgBlob) /\ ms[j] = s[j] /\ Append(s, t)[j] = s[j]
          /\ new[j] = pos[j]
      <4>1. j \in 1..(N + 1)
        BY <2>3
      <4> QED BY <1>1, <1>4, <1>9, <1>10, <2>3, <4>1, SMTT(30)
    <3>2. PICK l \in Nat : l = Len(s[j])
      BY <3>1, SMTT(30)
    <3>3. pos[j + 1] = pos[j] + l /\ pos[j + 1] <= lw /\ pos[j] \in Int
      BY <1>4, <1>5, <2>3, <3>1, <3>2 DEF Carried
    <3>4. i \in 1..l
      BY <3>1, <3>2
    <3>5. pos[j] + i \in 1..(lw + lm)
      BY <1>14, <3>1
    <3>6. pos[j] + i <= lw /\ pos[j] + i \in 1..lw
      BY <3>3, <3>4, <3>5, SMTT(30)
    <3>7. w[pos[j] + i] = s[j][i]
      <4>1. j \in 1..Len(Append(s, t)) /\ i \in 1..Len(Append(s, t)[j])
        BY <1>4, <2>3, <3>1, <3>2, <3>4
      <4>2. pos[j] + i \in 1..Len(w)
        BY <1>2, <3>6
      <4>3. w[pos[j] + i] = Append(s, t)[j][i]
        BY <4>1, <4>2 DEF Carried
      <4> QED BY <3>1, <4>3
    <3>8. PICK x \in 1..(lw + lm) : x = pos[j] + i
      BY <3>5
    <3>9. u[x] = w[x]
      BY <1>7, <3>6, <3>8
    <3> QED BY <3>1, <3>7, <3>8, <3>9
  <2> QED BY <1>11, <2>1, <2>2, <2>3
<1>15. /\ new \in [1..Len(ms) -> Int]
       /\ \A j \in 1..Len(ms) : new[j] <= Len(u)
       /\ new[Len(ms)] = Len(u)
       /\ Len(u) < new[Len(ms)] + Len(ms[Len(ms)])
  <2>1. Len(o) \in Nat /\ lw + lm < lw + lm + Len(o)
    OBVIOUS
  <2> QED BY <1>7, <1>9, <1>10, <1>12, <2>1
<1>16. /\ \A j \in 1..(Len(ms) - 1) : new[j + 1] = new[j] + Len(ms[j])
       /\ \A j \in 1..Len(ms) : \A i \in 1..Len(ms[j]) :
            new[j] + i \in 1..Len(u) => u[new[j] + i] = ms[j][i]
  <2>1. Len(ms) - 1 = N + 1
    BY <1>9
  <2> QED BY <1>7, <1>9, <1>13, <1>14, <2>1
<1>17. Carried(new, u, ms) /\ new[Len(ms)] = Len(u)
  BY <1>15, <1>16 DEF Carried
<1> QED BY <1>6, <1>8, <1>17 DEF new

-----------------------------------------------------------------------------
(* A step that puts nothing on the pipe and takes nothing from it, unless  *)
(* the chain stops.                                                        *)
LEMMA StreamKept ==
  ASSUME NEW p \in Peer, NEW k \in Pipe, Stream(p, k), Delivered(p, k),
         \/ step'[p][k] \in {step[p][k], "stop"}
         \/ step[p][k] = "off" /\ step'[p][k] = "notice",
         step'[p][k] # "stop" => /\ wire'[p][k] = wire[p][k]
                                 /\ msgIn'[p][k] = msgIn[p][k]
                                 /\ left'[p][k] = left[p][k],
         got'[p][k] = got[p][k], sent'[Other(p)][k] = sent[Other(p)][k],
         startedOps[Other(p)] => startedOps'[Other(p)] /\ UNCHANGED negErr[Other(p)],
         Dead(Other(p), k) => Dead(Other(p), k)'
  PROVE  Stream(p, k)' /\ Delivered(p, k)'
<1>1. Delivered(p, k)'
  BY DEF Delivered
<1>2. CASE step'[p][k] = "stop"
  BY <1>1, <1>2 DEF Stream
<1>3. CASE step'[p][k] # "stop"
  <2>1. step[p][k] # "stop"
    BY <1>3
  <2>a. PICK t \in MsgOn(k) : \E pos : StreamBy(p, k, t, pos)
    BY <2>1 DEF Stream
  <2>2. PICK pos : StreamBy(p, k, t, pos)
    BY <2>a
  <2>3. PICK ms : ms = Append(sent[Other(p)][k], t)
    OBVIOUS
  <2>4. /\ Carried(pos, wire[p][k], ms) /\ Reads(pos, p, k, ms)
        /\ pos[Len(ms)] = Len(wire[p][k]) \/ Dead(Other(p), k)
    BY <2>2, <2>3 DEF StreamBy
  <2>5. Reads(pos, p, k, ms)'
    BY <1>3, <2>4 DEF Reads
  <2>6. StreamBy(p, k, t, pos)'
    BY <1>3, <2>3, <2>4, <2>5 DEF StreamBy
  <2> QED BY <1>1, <2>6 DEF Stream
<1> QED BY <1>2, <1>3

LEMMA StreamInit == Init => StreamInv
<1> SUFFICES ASSUME Init, NEW p \in Peer, NEW k \in Pipe
             PROVE  Stream(p, k) /\ Delivered(p, k)
  BY DEF StreamInv
<1>1. /\ wire[p][k] = <<>> /\ step[p][k] = "off" /\ msgIn[p][k] = <<>>
      /\ got[p][k] = <<>> /\ sent[Other(p)][k] = <<>>
  BY OtherPeer DEF Init
<1>2. PICK t \in MsgOn(k) : TRUE
  BY MsgOnSome
<1>3. t \in Seq(MsgBlob) /\ Len(t) \in Nat \ {0}
  BY <1>2, MsgOnBlobs
<1>4. PICK ms : ms = Append(sent[Other(p)][k], t)
  OBVIOUS
<1>5. ms = <<t>> /\ Len(ms) = 1 /\ ms[1] = t
  BY <1>1, <1>3, <1>4
<1> DEFINE pos == [j \in 1..1 |-> 0]
<1>6. pos \in [1..1 -> Int] /\ pos[1] = 0
  OBVIOUS
<1> HIDE DEF pos
<1>7. Carried(pos, <<>>, ms)
  <2>1. \A j \in 1..1 : j = 1
    OBVIOUS
  <2>2. Len(<<>>) = 0 /\ 1..0 = {} /\ 1..(1 - 1) = {}
    OBVIOUS
  <2> QED BY <1>3, <1>5, <1>6, <2>1, <2>2 DEF Carried
<1>8. Reads(pos, p, k, ms)
  BY <1>1, <1>6 DEF Reads, Lower
<1>9. StreamBy(p, k, t, pos)
  BY <1>1, <1>4, <1>5, <1>6, <1>7, <1>8 DEF StreamBy
<1>10. Delivered(p, k)
  BY <1>1 DEF Delivered
<1> QED BY <1>9, <1>10 DEF Stream

-----------------------------------------------------------------------------
(* What is put behind whole messages is read no sooner than they are.      *)
LEMMA ReadsMore ==
  ASSUME Inv, NEW p \in Peer, NEW k \in Pipe, Delivered(p, k),
         startedOps[Other(p)], negErr[Other(p)] = "ok",
         NEW N \in Nat, N = Len(sent[Other(p)][k]),
         NEW pos, NEW ms, NEW new, NEW more,
         Reads(pos, p, k, ms), pos[N + 1] = Len(wire[p][k]),
         \A j \in 1..(N + 1) : new[j] = pos[j],
         \A j \in 1..N : more[j] = ms[j],
         Len(wire[p][k]) <= Len(wire'[p][k]), Len(wire'[p][k]) \in Nat,
         step'[p][k] = step[p][k], msgIn'[p][k] = msgIn[p][k],
         left'[p][k] = left[p][k], got'[p][k] = got[p][k]
  PROVE  Reads(new, p, k, more)'
<1>1. PICK lw \in Nat : lw = Len(wire[p][k])
  BY DEF Inv, TypeOK
<1>2. PICK g \in Nat : g = Len(got[p][k])
  BY DEF Inv, TypeOK
<1>3. PICK m \in Seq(MsgBlob) : m = msgIn[p][k]
  BY DEF Inv, TypeOK
<1>4. g <= N /\ g + 1 \in 1..(N + 1) /\ new[g + 1] = pos[g + 1]
  BY <1>2, SMTT(40) DEF Delivered
<1>5. ASSUME step[p][k] \in {"off", "notice"}
      PROVE  m = <<>> /\ g + 1 = 1 /\ new[1] = Lower(1, Len(wire'[p][k]))
  <2>1. m = <<>> /\ g + 1 = 1 /\ pos[1] = Lower(1, lw)
    BY <1>1, <1>2, <1>3, <1>5 DEF Reads
  <2>2. wire[p][k] # <<>> /\ wire[p][k] \in Seq(Blob)
    BY <1>5, OtherPeer DEF Inv, Chains, Framed, TypeOK
  <2>3. lw # 0
    BY <1>1, <2>2, EmptySeq
  <2>4. Lower(1, lw) = 1 /\ Lower(1, Len(wire'[p][k])) = 1
    <3>1. PICK l \in Nat : l = Len(wire'[p][k])
      OBVIOUS
    <3>2. lw <= l
      BY <1>1, <3>1
    <3>3. ~(lw < 1) /\ ~(l < 1)
      BY <2>3, <3>2
    <3>4. (1 < lw \/ lw = 1) /\ (1 < l \/ l = 1)
      BY <3>3
    <3> QED BY <3>1, <3>4 DEF Lower
  <2> QED BY <1>4, <2>1, <2>4
<1>6. ASSUME step[p][k] = "lead" PROVE m = <<>> /\ new[g + 1] = 0
  BY <1>2, <1>3, <1>4, <1>6 DEF Reads
<1>7. ASSUME step[p][k] = "cont"
      PROVE  /\ m # <<>> /\ new[g + 1] + Len(m) = 0
             /\ Len(m) + left[p][k] + 1 = Len(more[g + 1])
             /\ \A i \in 1..Len(m) : m[i] = more[g + 1][i]
  <2>1. /\ m # <<>> /\ pos[g + 1] + Len(m) = 0
        /\ Len(m) + left[p][k] + 1 = Len(ms[g + 1])
        /\ \A i \in 1..Len(m) : m[i] = ms[g + 1][i]
    BY <1>2, <1>3, <1>7 DEF Reads
  <2>2. Len(m) \in Nat \ {0}
    BY <2>1, EmptySeq
  <2>3. g # N
    <3>1. lw + Len(m) # 0
      BY <2>2
    <3> QED BY <1>1, <2>1, <3>1
  <2>4. g + 1 \in 1..N
    BY <1>4, <2>3
  <2> QED BY <1>4, <2>1, <2>4
<1> QED BY <1>2, <1>3, <1>5, <1>6, <1>7 DEF Reads

(* The other peer puts a message on the pipe, whole.                       *)
LEMMA StreamPut ==
  ASSUME Inv, NEW p \in Peer, NEW k \in Pipe, Stream(p, k), Delivered(p, k),
         startedOps[Other(p)], negErr[Other(p)] = "ok", ~Dead(Other(p), k),
         NEW m \in MsgOn(k),
         wire'[p][k] = wire[p][k] \o m,
         sent'[Other(p)][k] = Append(sent[Other(p)][k], m),
         step'[p][k] = step[p][k], msgIn'[p][k] = msgIn[p][k],
         left'[p][k] = left[p][k], got'[p][k] = got[p][k],
         UNCHANGED <<startedOps, negErr>>
  PROVE  Stream(p, k)' /\ Delivered(p, k)'
<1> DEFINE q == Other(p)
<1>0. q \in Peer
  BY OtherPeer
<1>1. PICK s \in Seq(Seq(MsgBlob)) : s = sent[q][k]
  BY <1>0 DEF Inv, TypeOK
<1>2. PICK w \in Seq(Blob) : w = wire[p][k]
  BY DEF Inv, TypeOK
<1>3. PICK N \in Nat : N = Len(s)
  BY LenProperties
<1>4. m \in Seq(MsgBlob) /\ Len(m) \in Nat
  BY MsgOnBlobs
<1>5. Len(w \o m) = Len(w) + Len(m) /\ Len(w) \in Nat
  <2>1. m \in Seq(Blob)
    BY <1>4 DEF Blob
  <2>2. Len(w \o m) = Len(w) + Len(m)
    BY <2>1, ConcatProperties, Zenon
  <2> QED BY <2>2, LenProperties
<1>6. Delivered(p, k)'
  <2>1. /\ Len(Append(s, m)) = N + 1 /\ Append(s, m)[N + 1] = m
        /\ \A j \in 1..N : Append(s, m)[j] = s[j]
    BY <1>3, <1>4, Appended
  <2>2. /\ Len(got[p][k]) <= N /\ Len(got[p][k]) \in Nat
        /\ \A j \in 1..Len(got[p][k]) : got[p][k][j] = s[j]
        /\ \A j \in 1..N : s[j] \in MsgOn(k)
    <3>1. PICK g \in Seq(Seq(MsgBlob)) : g = got[p][k]
      BY DEF Inv, TypeOK
    <3>2. Len(g) \in Nat
      BY LenProperties
    <3>3. /\ Len(got[p][k]) <= Len(s)
          /\ \A j \in 1..Len(got[p][k]) : got[p][k][j] = s[j]
          /\ \A j \in 1..Len(s) : s[j] \in MsgOn(k)
      BY <1>1, Zenon DEF Delivered
    <3> QED BY <1>3, <3>1, <3>2, <3>3, Zenon
  <2>3. \A j \in 1..(N + 1) : j \in 1..N \/ j = N + 1
    OBVIOUS
  <2>4. \A j \in 1..(N + 1) : Append(s, m)[j] \in MsgOn(k)
    BY <2>1, <2>2, <2>3
  <2>5. Len(got[p][k]) <= N + 1 /\ \A j \in 1..Len(got[p][k]) : j \in 1..N
    BY <2>2
  <2> QED BY <1>1, <2>1, <2>2, <2>4, <2>5 DEF Delivered
<1>7. CASE step[p][k] # "stop"
  <2>a. PICK t \in MsgOn(k) : \E pos : StreamBy(p, k, t, pos)
    BY <1>7 DEF Stream
  <2>1. PICK pos : StreamBy(p, k, t, pos)
    BY <2>a
  <2>2. t \in Seq(MsgBlob) /\ Len(t) \in Nat /\ 0 < Len(t)
    BY MsgOnBlobs
  <2>3. PICK ms \in Seq(Seq(MsgBlob)) : ms = Append(s, t)
    BY <2>2, Appended
  <2>4. Len(ms) = N + 1 /\ \A j \in 1..N : ms[j] = s[j]
    BY <1>3, <2>2, <2>3, Appended
  <2>5. Carried(pos, w, ms) /\ Reads(pos, p, k, ms) /\ pos[N + 1] = Len(w)
    BY <1>1, <1>2, <2>1, <2>3, <2>4 DEF StreamBy
  <2>6. PICK more : more = Append(Append(s, m), t)
    OBVIOUS
  <2>7. PICK new : /\ Carried(new, w \o m, more)
                   /\ new[Len(more)] = Len(w \o m)
                   /\ \A j \in 1..(N + 1) : new[j] = pos[j]
    <3> DEFINE f == [j \in 1..(Len(s) + 2) |->
                       IF j <= Len(s) + 1 THEN pos[j] ELSE Len(w) + Len(m)]
    <3>1. Carried(f, w \o m, more) /\ f[Len(more)] = Len(w \o m)
      BY <1>3, <1>4, <2>2, <2>3, <2>5, <2>6, CarriedWhole
    <3>2. \A j \in 1..(N + 1) : f[j] = pos[j]
      BY <1>3
    <3> HIDE DEF f
    <3> QED BY <3>1, <3>2
  <2>8. \A j \in 1..N : more[j] = ms[j]
    <3>1. PICK r \in Seq(Seq(MsgBlob)) : r = Append(s, m)
      BY <1>4, Appended
    <3>2. Len(r) = N + 1 /\ \A j \in 1..N : r[j] = s[j]
      BY <1>3, <1>4, <3>1, Appended
    <3>3. \A j \in 1..(N + 1) : more[j] = r[j]
      BY <2>2, <2>6, <3>1, <3>2, Appended
    <3> QED BY <2>4, <3>2, <3>3
  <2>9. Reads(new, p, k, more)'
    <3>1. Len(wire[p][k]) <= Len(wire'[p][k]) /\ Len(wire'[p][k]) \in Nat
      BY <1>2, <1>4, <1>5
    <3> QED BY <1>1, <1>2, <1>3, <2>5, <2>7, <2>8, <3>1, ReadsMore
  <2>10. StreamBy(p, k, t, new)'
    <3>1. more = Append(sent'[q][k], t) /\ wire'[p][k] = w \o m
      BY <1>1, <1>2, <2>6
    <3> QED BY <2>7, <2>9, <3>1 DEF StreamBy
  <2> QED BY <1>6, <2>10 DEF Stream
<1>8. CASE step[p][k] = "stop"
  BY <1>6, <1>8 DEF Stream
<1> QED BY <1>7, <1>8

(* The transport fails with a beginning c of the message on its way.       *)
LEMMA StreamCut ==
  ASSUME Inv, NEW p \in Peer, NEW k \in Pipe, Stream(p, k), Delivered(p, k),
         startedOps[Other(p)], negErr[Other(p)] = "ok", ~Dead(Other(p), k),
         NEW m \in MsgOn(k), NEW c \in Seq(MsgBlob), Len(c) < Len(m),
         \A i \in 1..Len(c) : c[i] = m[i],
         wire'[p][k] = wire[p][k] \o c, Dead(Other(p), k)',
         sent'[Other(p)][k] = sent[Other(p)][k],
         step'[p][k] = step[p][k], msgIn'[p][k] = msgIn[p][k],
         left'[p][k] = left[p][k], got'[p][k] = got[p][k],
         UNCHANGED <<startedOps, negErr>>
  PROVE  Stream(p, k)' /\ Delivered(p, k)'
<1> DEFINE q == Other(p)
<1>0. q \in Peer
  BY OtherPeer
<1>1. PICK s \in Seq(Seq(MsgBlob)) : s = sent[q][k]
  BY <1>0 DEF Inv, TypeOK
<1>2. PICK w \in Seq(Blob) : w = wire[p][k]
  BY DEF Inv, TypeOK
<1>3. PICK N \in Nat : N = Len(s)
  BY LenProperties
<1>4. m \in Seq(MsgBlob)
  BY MsgOnBlobs
<1>5. Len(w \o c) = Len(w) + Len(c) /\ Len(w) \in Nat /\ Len(c) \in Nat
  <2>1. c \in Seq(Blob)
    BY DEF Blob
  <2>2. Len(w \o c) = Len(w) + Len(c)
    BY <2>1, ConcatProperties, Zenon
  <2> QED BY <2>2, LenProperties
<1>6. Delivered(p, k)'
  BY DEF Delivered
<1>7. CASE step[p][k] # "stop"
  <2>a. PICK t \in MsgOn(k) : \E pos : StreamBy(p, k, t, pos)
    BY <1>7 DEF Stream
  <2>1. PICK pos : StreamBy(p, k, t, pos)
    BY <2>a
  <2>2. t \in Seq(MsgBlob)
    BY MsgOnBlobs
  <2>3. PICK ms : ms = Append(s, t)
    OBVIOUS
  <2>4. Len(ms) = N + 1 /\ \A j \in 1..N : ms[j] = s[j]
    BY <1>3, <2>2, <2>3, Appended
  <2>5. Carried(pos, w, ms) /\ Reads(pos, p, k, ms) /\ pos[N + 1] = Len(w)
    BY <1>1, <1>2, <2>1, <2>3, <2>4 DEF StreamBy
  <2>6. PICK more : more = Append(s, m)
    OBVIOUS
  <2>7. Carried(pos, w \o c, more)
    BY <1>3, <1>4, <2>2, <2>3, <2>5, <2>6, CarriedCut
  <2>8. \A j \in 1..N : more[j] = ms[j]
    BY <1>3, <1>4, <2>4, <2>6, Appended
  <2>9. Reads(pos, p, k, more)'
    <3>1. Len(wire[p][k]) <= Len(wire'[p][k]) /\ Len(wire'[p][k]) \in Nat
      BY <1>2, <1>5
    <3>2. \A j \in 1..(N + 1) : pos[j] = pos[j]
      OBVIOUS
    <3> QED BY <1>1, <1>2, <1>3, <2>5, <2>8, <3>1, <3>2, ReadsMore
  <2>10. StreamBy(p, k, m, pos)'
    <3>1. more = Append(sent'[q][k], m) /\ wire'[p][k] = w \o c
      BY <1>1, <1>2, <2>6
    <3> QED BY <2>7, <2>9, <3>1 DEF StreamBy
  <2> QED BY <1>6, <2>10 DEF Stream
<1>8. CASE step[p][k] = "stop"
  BY <1>6, <1>8 DEF Stream
<1> QED BY <1>7, <1>8

(* The other peer's notice is put on a pipe that carries nothing yet.      *)
LEMMA StreamNoticed ==
  ASSUME Inv, NEW p \in Peer, NEW k \in Pipe, Stream(p, k), Delivered(p, k),
         ~startedOps[Other(p)], wire'[p][k] = <<Notice(build[Other(p)].max)>>,
         step'[p][k] = step[p][k], msgIn'[p][k] = msgIn[p][k],
         got'[p][k] = got[p][k], sent'[Other(p)][k] = sent[Other(p)][k]
  PROVE  Stream(p, k)' /\ Delivered(p, k)'
<1>1. sent[Other(p)][k] = <<>> /\ step[p][k] \notin {"lead", "cont"}
        /\ step[p][k] \in Steps
  BY DEF Delivered, Inv, Chains, Framed, TypeOK, Steps
<1>2. got[p][k] = <<>>
  BY <1>1, OtherPeer, EmptySeq DEF Delivered, Inv, TypeOK
<1>3. Delivered(p, k)'
  BY <1>1, <1>2 DEF Delivered
<1>4. CASE step[p][k] # "stop"
  <2>1. step[p][k] \in {"off", "notice"}
    BY <1>1, <1>4 DEF Steps
  <2>2. msgIn[p][k] = <<>>
    BY <1>4, <2>1 DEF Stream, StreamBy, Reads
  <2>3. PICK t \in MsgOn(k) : TRUE
    BY MsgOnSome
  <2>4. t \in Seq(MsgBlob) /\ Len(t) \in Nat \ {0}
    BY <2>3, MsgOnBlobs
  <2>5. PICK ms : ms = Append(sent[Other(p)][k], t)
    OBVIOUS
  <2>6. ms = <<t>> /\ Len(ms) = 1 /\ ms[1] = t
    BY <1>1, <2>4, <2>5
  <2> DEFINE pos == [j \in 1..1 |-> 1]
  <2>7. pos \in [1..1 -> Int] /\ pos[1] = 1
    OBVIOUS
  <2> HIDE DEF pos
  <2>8. PICK w : w = wire'[p][k]
    OBVIOUS
  <2>9. Len(w) = 1 /\ w # <<>>
    BY <2>8
  <2>10. Carried(pos, w, ms)
    <3>1. \A j \in 1..1 : j = 1
      OBVIOUS
    <3>2. 1..(1 - 1) = {} /\ \A i \in 1..Len(t) : ~(1 + i \in 1..1)
      BY <2>4
    <3>3. 1 < 1 + Len(t)
      BY <2>4
    <3> QED BY <2>6, <2>7, <2>9, <3>1, <3>2, <3>3 DEF Carried
  <2>11. Reads(pos, p, k, ms)'
    BY <1>2, <2>1, <2>2, <2>7, <2>8, <2>9 DEF Reads, Lower
  <2>12. StreamBy(p, k, t, pos)'
    BY <2>5, <2>6, <2>7, <2>8, <2>9, <2>10, <2>11 DEF StreamBy
  <2> QED BY <1>3, <2>12 DEF Stream
<1>5. CASE step[p][k] = "stop"
  BY <1>3, <1>5 DEF Stream
<1> QED BY <1>4, <1>5

-----------------------------------------------------------------------------
(* The notice is taken.                                                    *)
LEMMA StreamReadNotice ==
  ASSUME Inv, NEW p \in Peer, NEW k \in Pipe, Stream(p, k), Delivered(p, k),
         step[p][k] = "notice", wire[p][k] # <<>>,
         wire'[p][k] = Tail(wire[p][k]), step'[p][k] \in {"lead", "stop"},
         UNCHANGED <<msgIn, got, sent, startedOps, negErr>>,
         Dead(Other(p), k) => Dead(Other(p), k)'
  PROVE  Stream(p, k)' /\ Delivered(p, k)'
<1>1. Delivered(p, k)'
  BY DEF Delivered
<1>a. PICK t \in MsgOn(k) : \E pos : StreamBy(p, k, t, pos)
  BY DEF Stream
<1>2. PICK pos : StreamBy(p, k, t, pos)
  BY <1>a
<1>3. PICK s \in Seq(Seq(MsgBlob)) : s = sent[Other(p)][k]
  BY OtherPeer DEF Inv, TypeOK
<1>4. PICK w \in Seq(Blob) : w = wire[p][k]
  BY DEF Inv, TypeOK
<1>5. t \in Seq(MsgBlob)
  BY MsgOnBlobs
<1>6. PICK ms \in Seq(Seq(MsgBlob)) : ms = Append(s, t)
  BY <1>5, Appended
<1>7. PICK N \in Nat \ {0} : N = Len(ms)
  <2>1. ms # <<>>
    BY <1>5, <1>6, Appended
  <2> QED BY <2>1, EmptySeq, LenProperties
<1>8. /\ Carried(pos, w, ms) /\ Reads(pos, p, k, ms)
      /\ pos[N] = Len(w) \/ Dead(Other(p), k)
  BY <1>2, <1>3, <1>4, <1>6, <1>7 DEF StreamBy
<1>9. PICK lw \in Nat \ {0} : lw = Len(w)
  BY <1>4, EmptySeq, LenProperties
<1>10. /\ msgIn[p][k] = <<>> /\ Len(got[p][k]) + 1 = 1 /\ pos[1] = 1
  BY <1>4, <1>8, <1>9 DEF Reads, Lower
<1> DEFINE new == [j \in 1..Len(ms) |-> pos[j] - 1]
<1>11. Carried(new, Tail(w), ms)
  <2>1. ms # <<>>
    BY <1>5, <1>6, Appended
  <2> QED BY <1>4, <1>8, <2>1, CarriedTail
<1>12. \A j \in 1..N : new[j] = pos[j] - 1
  BY <1>7
<1> HIDE DEF new
<1>13. Len(Tail(w)) = lw - 1
  BY <1>4, <1>9, HeadTailProperties
<1>14. new[N] = Len(Tail(w)) \/ Dead(Other(p), k)'
  BY <1>8, <1>9, <1>12, <1>13
<1>15. new[1] = 0
  BY <1>7, <1>10, <1>12, SMTT(40)
<1>16. ASSUME step'[p][k] = "lead" PROVE Reads(new, p, k, ms)'
  BY <1>10, <1>15, <1>16 DEF Reads
<1>17. ASSUME step'[p][k] = "lead" PROVE StreamBy(p, k, t, new)'
  BY <1>3, <1>4, <1>6, <1>7, <1>11, <1>14, <1>16, <1>17 DEF StreamBy
<1> QED BY <1>1, <1>17 DEF Stream

-----------------------------------------------------------------------------
LEMMA UpTo == \A N \in Nat : \A n \in 1..(N + 1) : n = N + 1 \/ n \in 1..N
OBVIOUS

(* Sums the proof of StreamRead needs, apart from its long context.        *)
LEMMA TopIndex == \A N \in Nat : N + 1 \in 1..(N + 1)
OBVIOUS

LEMMA NextIndex ==
  \A N \in Nat : \A n \in 1..N : n + 1 \in 1..(N + 1)
OBVIOUS

LEMMA ShiftSum ==
  \A a \in Int, l \in Nat : a + l = 0 => (a - 1) + (l + 1) = 0
OBVIOUS

LEMMA PredSum ==
  \A a, b \in Int, l \in Nat : b = a + (l + 1) => b - 1 = (a - 1) + (l + 1)
OBVIOUS

LEMMA OneMore ==
  \A r, l \in Nat : (l + 1) + (r - 1) + 1 = r + (l + 1)
OBVIOUS

LEMMA NoMore == \A l \in Nat : \A x : 0 + (l + 1) = x => x = l + 1
OBVIOUS

LEMMA AppendedBlob ==
  ASSUME NEW u \in Seq(MsgBlob), NEW b \in MsgBlob
  PROVE  /\ Len(Append(u, b)) = Len(u) + 1 /\ Append(u, b) # <<>>
         /\ \A i \in 1..Len(u) : Append(u, b)[i] = u[i]
         /\ Append(u, b)[Len(u) + 1] = b
BY AppendProperties, SMTT(30)

LEMMA NotBelowItself == \A l \in Nat : ~(l + 1 < l + 1)
OBVIOUS

LEMMA BelowTop ==
  \A N, g \in Nat : \A n \in 1..N : g + 1 = n => g + 1 <= N
OBVIOUS

LEMMA LessOne == \A n \in Nat : (n + 1) - 1 = n
OBVIOUS

LEMMA PartAt ==
  ASSUME NEW w \in Seq(Blob), w # <<>>, NEW ms \in Seq(Seq(MsgBlob)),
         NEW pos, Carried(pos, w, ms), NEW n \in 1..Len(ms), NEW l \in Nat,
         pos[n] + l = 0, l < Len(ms[n])
  PROVE  /\ l + 1 \in 1..Len(ms[n]) /\ Head(w) = ms[n][l + 1]
         /\ n = Len(ms) => l + 1 < Len(ms[n])
<1>1. PICK lw \in Nat \ {0} : lw = Len(w) /\ Head(w) = w[1]
  BY EmptySeq, LenProperties
<1>2. PICK ln \in Nat : ln = Len(ms[n])
  <2>1. ms[n] \in Seq(MsgBlob)
    OBVIOUS
  <2> QED BY <2>1
<1>3. PICK a \in Int : a = pos[n]
  BY DEF Carried
<1>4. l + 1 \in 1..ln /\ a + (l + 1) = 1
  BY <1>2, <1>3
<1>5. 1 \in 1..lw
  BY <1>1
<1>6. w[pos[n] + (l + 1)] = ms[n][l + 1]
  BY <1>1, <1>2, <1>3, <1>4, <1>5 DEF Carried
<1>7. ASSUME n = Len(ms) PROVE l + 1 < ln
  <2>1. lw < a + ln
    BY <1>1, <1>2, <1>3, <1>7 DEF Carried
  <2> QED BY <1>1, <1>3, <2>1
<1> QED BY <1>1, <1>2, <1>3, <1>4, <1>6, <1>7

(* The next blob is the next part of the message that is being read, and   *)
(* that message, if it is the one that is cut, has more.                   *)
AtPart(p, k, t, pos) ==
  LET s  == sent[Other(p)][k]
      ms == Append(s, t)
      n  == Len(got[p][k]) + 1
      l  == Len(msgIn[p][k])
  IN  /\ n \in 1..(Len(s) + 1) /\ ms[n] \in MsgOn(k) /\ pos[n] + l = 0
      /\ l + 1 \in 1..Len(ms[n]) /\ Head(wire[p][k]) = ms[n][l + 1]
      /\ n = Len(s) + 1 => l + 1 < Len(ms[n])
      /\ \A i \in 1..l : msgIn[p][k][i] = ms[n][i]
      /\ step[p][k] = "lead" => l = 0 /\ msgIn[p][k] = <<>>
      /\ step[p][k] = "cont" => l # 0 /\ l + left[p][k] + 1 = Len(ms[n])

LEMMA NextPart ==
  ASSUME Inv, NEW p \in Peer, NEW k \in Pipe, Delivered(p, k),
         step[p][k] \in {"lead", "cont"}, wire[p][k] # <<>>,
         NEW t \in MsgOn(k), NEW pos, StreamBy(p, k, t, pos)
  PROVE  AtPart(p, k, t, pos)
<1>1. PICK s \in Seq(Seq(MsgBlob)) : s = sent[Other(p)][k]
  BY OtherPeer DEF Inv, TypeOK
<1>2. PICK w \in Seq(Blob) : w = wire[p][k]
  BY DEF Inv, TypeOK
<1>3. t \in Seq(MsgBlob)
  BY MsgOnBlobs
<1>4. PICK N \in Nat : N = Len(s)
  BY LenProperties
<1>5. PICK ms \in Seq(Seq(MsgBlob)) : ms = Append(s, t)
  BY <1>3, Appended
<1>6. Len(ms) = N + 1 /\ ms[N + 1] = t /\ \A j \in 1..N : ms[j] = s[j]
  BY <1>3, <1>4, <1>5, Appended
<1>7. Carried(pos, w, ms) /\ Reads(pos, p, k, ms)
  BY <1>1, <1>2, <1>5 DEF StreamBy
<1>8. PICK n \in 1..(N + 1) : n = Len(got[p][k]) + 1
  <2>1. PICK g \in Nat : g = Len(got[p][k])
    BY DEF Inv, TypeOK
  <2>2. g <= N
    BY <1>1, <1>4, <2>1 DEF Delivered
  <2>3. g + 1 \in 1..(N + 1)
    BY <2>2
  <2> QED BY <2>1, <2>3
<1>9. ms[n] \in MsgOn(k)
  <2>1. CASE n = N + 1
    BY <1>6, <2>1
  <2>2. CASE n \in 1..N
    BY <1>1, <1>4, <1>6, <2>2 DEF Delivered
  <2> QED BY <2>1, <2>2, UpTo
<1>10. PICK ln \in Nat \ {0} : ln = Len(ms[n])
  BY <1>9, MsgOnBlobs
<1>11. PICK m \in Seq(MsgBlob) : m = msgIn[p][k]
  BY DEF Inv, TypeOK
<1>12. PICK l \in Nat : l = Len(m)
  BY LenProperties
<1>13. ASSUME step[p][k] = "lead"
       PROVE  l = 0 /\ m = <<>> /\ pos[n] + l = 0 /\ l < ln
  <2>1. m = <<>> /\ pos[n] = 0
    BY <1>7, <1>8, <1>11, <1>13 DEF Reads
  <2>2. l = 0
    BY <1>12, <2>1
  <2>3. 0 < ln /\ 0 + 0 = 0
    BY <1>10
  <2> QED BY <2>1, <2>2, <2>3
<1>14. ASSUME step[p][k] = "cont"
       PROVE  /\ l # 0 /\ l + left[p][k] + 1 = ln /\ l < ln /\ pos[n] + l = 0
              /\ \A i \in 1..l : m[i] = ms[n][i]
  <2>1. /\ m # <<>> /\ pos[n] + l = 0 /\ l + left[p][k] + 1 = ln
        /\ \A i \in 1..l : m[i] = ms[n][i]
    BY <1>7, <1>8, <1>10, <1>11, <1>12, <1>14 DEF Reads
  <2>2. PICK f \in Nat : f = left[p][k]
    BY DEF Inv, TypeOK
  <2>3. l # 0
    BY <1>12, <2>1, EmptySeq
  <2>4. l < ln
    BY <2>1, <2>2
  <2> QED BY <2>1, <2>3, <2>4
<1>15. pos[n] + l = 0 /\ l < ln
  BY <1>13, <1>14
<1>16. \A i \in 1..l : m[i] = ms[n][i]
  <2>1. 1..0 = {}
    OBVIOUS
  <2> QED BY <1>13, <1>14, <2>1
<1>17. /\ l + 1 \in 1..Len(ms[n]) /\ Head(w) = ms[n][l + 1]
       /\ n = N + 1 => l + 1 < Len(ms[n])
  <2>1. w # <<>> /\ n \in 1..Len(ms) /\ l < Len(ms[n])
    BY <1>2, <1>6, <1>10, <1>15
  <2>2. /\ l + 1 \in 1..Len(ms[n]) /\ Head(w) = ms[n][l + 1]
        /\ n = Len(ms) => l + 1 < Len(ms[n])
    BY <1>7, <1>15, <2>1, PartAt, Zenon
  <2> QED BY <1>6, <2>2
<1> QED BY <1>1, <1>2, <1>4, <1>5, <1>8, <1>9, <1>10, <1>11, <1>12, <1>13,
           <1>14, <1>15, <1>16, <1>17 DEF AtPart

(* The blob is taken, and more are missing from its message.               *)
Missed(p, k, t, m, more) ==
  more + Len(m) = Len(Append(sent[Other(p)][k], t)[Len(got[p][k]) + 1])

LEMMA StreamRead ==
  ASSUME Inv, NEW p \in Peer, NEW k \in Pipe, Delivered(p, k),
         step[p][k] \in {"lead", "cont"}, wire[p][k] # <<>>,
         NEW t \in MsgOn(k), NEW pos, StreamBy(p, k, t, pos),
         NEW m \in Seq(MsgBlob), m = Append(msgIn[p][k], Head(wire[p][k])),
         NEW more \in Nat, Missed(p, k, t, m, more),
         wire'[p][k] = Tail(wire[p][k]),
         \/ /\ more = 0 /\ got'[p][k] = Append(got[p][k], m)
            /\ msgIn'[p][k] = <<>> /\ step'[p][k] \in {"lead", "stop"}
         \/ /\ more # 0 /\ got'[p][k] = got[p][k] /\ left'[p][k] = more - 1
            /\ msgIn'[p][k] = m /\ step'[p][k] \in {"cont", "stop"},
         UNCHANGED <<sent, startedOps, negErr>>,
         Dead(Other(p), k) => Dead(Other(p), k)'
  PROVE  Stream(p, k)' /\ Delivered(p, k)'
<1>1. PICK s \in Seq(Seq(MsgBlob)) : s = sent[Other(p)][k]
  BY OtherPeer DEF Inv, TypeOK
<1>2. PICK w \in Seq(Blob) : w = wire[p][k]
  BY DEF Inv, TypeOK
<1>3. t \in Seq(MsgBlob)
  BY MsgOnBlobs
<1>4. PICK N \in Nat : N = Len(s)
  BY LenProperties
<1>5. PICK ms \in Seq(Seq(MsgBlob)) : ms = Append(s, t)
  BY <1>3, Appended
<1>6. Len(ms) = N + 1 /\ ms # <<>> /\ \A j \in 1..N : ms[j] = s[j]
  BY <1>3, <1>4, <1>5, Appended, ZenonT(40)
<1>7. /\ Carried(pos, w, ms)
      /\ pos[N + 1] = Len(w) \/ Dead(Other(p), k)
  BY <1>1, <1>2, <1>5, <1>6 DEF StreamBy
<1>8. PICK n \in 1..(N + 1) : n = Len(got[p][k]) + 1
  BY <1>1, <1>4, NextPart DEF AtPart
<1>9. PICK u \in Seq(MsgBlob) : u = msgIn[p][k]
  BY DEF Inv, TypeOK
<1>10. PICK l \in Nat : l = Len(u)
  BY LenProperties
<1>11. /\ ms[n] \in MsgOn(k) /\ pos[n] + l = 0
       /\ l + 1 \in 1..Len(ms[n]) /\ Head(w) = ms[n][l + 1]
       /\ n = N + 1 => l + 1 < Len(ms[n])
       /\ \A i \in 1..l : u[i] = ms[n][i]
  <2>1. AtPart(p, k, t, pos)
    BY NextPart
  <2> QED BY <1>1, <1>2, <1>4, <1>5, <1>8, <1>9, <1>10, <2>1 DEF AtPart
<1>12. ms[n] \in Seq(MsgBlob) /\ Head(w) \in MsgBlob
  <2>1. ms[n] \in Seq(MsgBlob) /\ \A i \in 1..Len(ms[n]) : ms[n][i] \in MsgBlob
    BY <1>11, MsgOnBlobs, Zenon
  <2> QED BY <1>11, <2>1
<1>13. /\ Len(m) = l + 1 /\ m # <<>>
       /\ \A i \in 1..(l + 1) : m[i] = ms[n][i]
  <2>1. m = Append(u, Head(w))
    BY <1>2, <1>9
  <2>2. /\ Len(m) = l + 1 /\ m # <<>> /\ \A i \in 1..l : m[i] = u[i]
        /\ m[l + 1] = Head(w)
    <3>1. PICK b \in MsgBlob : b = Head(w)
      BY <1>12
    <3>2. /\ Len(Append(u, b)) = Len(u) + 1 /\ Append(u, b) # <<>>
          /\ \A i \in 1..Len(u) : Append(u, b)[i] = u[i]
          /\ Append(u, b)[Len(u) + 1] = b
      BY AppendedBlob, Zenon
    <3> QED BY <1>10, <2>1, <3>1, <3>2
  <2> QED BY <1>11, <2>2, UpTo
<1>14. more + (l + 1) = Len(ms[n])
  BY <1>1, <1>5, <1>8, <1>13 DEF Missed
<1> DEFINE new == [j \in 1..Len(ms) |-> pos[j] - 1]
<1>15. Carried(new, Tail(w), ms)
  BY <1>2, <1>6, <1>7, CarriedTail
<1>16. \A j \in 1..(N + 1) : new[j] = pos[j] - 1
  BY <1>6
<1> HIDE DEF new
<1>17. new[N + 1] = Len(Tail(w)) \/ Dead(Other(p), k)'
  <2>1. Len(Tail(w)) = Len(w) - 1
    BY <1>2, HeadTailProperties
  <2>2. N + 1 \in 1..(N + 1)
    BY TopIndex, Zenon
  <2> QED BY <1>7, <1>16, <2>1, <2>2
<1>18. new[n] + (l + 1) = 0
  <2>1. PICK a \in Int : a = pos[n]
    BY <1>6, <1>7 DEF Carried
  <2>2. a + l = 0 /\ new[n] = a - 1
    BY <1>11, <1>16, <2>1
  <2>3. (a - 1) + (l + 1) = 0
    BY <1>10, <2>1, <2>2, ShiftSum, Zenon
  <2> QED BY <2>2, <2>3, Zenon
<1>19. CASE more # 0
  <2>1. Delivered(p, k)'
    BY <1>19 DEF Delivered
  <2>2. CASE step'[p][k] = "stop"
    BY <2>1, <2>2 DEF Stream
  <2>3. CASE step'[p][k] = "cont"
    <3>1. (l + 1) + (more - 1) + 1 = Len(ms[n])
      <4>1. (l + 1) + (more - 1) + 1 = more + (l + 1)
        BY <1>10, OneMore, Zenon
      <4> QED BY <1>14, <4>1, Zenon
    <3>2. Reads(new, p, k, ms)'
      BY <1>8, <1>13, <1>18, <1>19, <2>3, <3>1 DEF Reads
    <3>3. StreamBy(p, k, t, new)'
      BY <1>1, <1>2, <1>5, <1>6, <1>15, <1>17, <3>2 DEF StreamBy
    <3> QED BY <2>1, <3>3 DEF Stream
  <2> QED BY <1>19, <2>2, <2>3
<1>20. CASE more = 0
  <2>1. Len(ms[n]) = l + 1
    <3>1. 0 + (l + 1) = Len(ms[n])
      BY <1>14, <1>20, Zenon
    <3> QED BY <1>10, <3>1, NoMore, Zenon
  <2>2. n # N + 1
    <3>1. ~(l + 1 < l + 1)
      BY <1>10, NotBelowItself, Zenon
    <3> QED BY <1>11, <2>1, <3>1, Zenon
  <2>3. n \in 1..N /\ n + 1 \in 1..(N + 1)
    <3>1. n \in 1..N
      BY <1>4, <1>8, <2>2, UpTo, Zenon
    <3> QED BY <1>4, <3>1, NextIndex, Zenon
  <2>4. m = ms[n]
    BY <1>12, <1>13, <2>1, SeqEqual
  <2>5. PICK g \in Seq(Seq(MsgBlob)) : g = got[p][k]
    BY DEF Inv, TypeOK
  <2>6. /\ Len(Append(g, m)) = Len(g) + 1 /\ Append(g, m)[Len(g) + 1] = m
        /\ \A j \in 1..Len(g) : Append(g, m)[j] = g[j]
    BY Appended
  <2>7. PICK lg \in Nat : lg = Len(g) /\ lg + 1 = n
    BY <1>8, <2>5, LenProperties
  <2>8. \A j \in 1..lg : g[j] = s[j]
    BY <1>1, <2>5, <2>7 DEF Delivered
  <2>9. \A j \in 1..(lg + 1) : Append(g, m)[j] = s[j]
    BY <1>6, <2>3, <2>4, <2>6, <2>7, <2>8, UpTo
  <2>10. lg + 1 <= N
    BY <1>4, <2>3, <2>7, BelowTop, Zenon
  <2>11. got'[p][k] = Append(g, m)
    BY <1>20, <2>5
  <2>12. Delivered(p, k)'
    BY <1>1, <1>4, <2>6, <2>7, <2>9, <2>10, <2>11, ZenonT(40) DEF Delivered
  <2>13. CASE step'[p][k] = "stop"
    BY <2>12, <2>13 DEF Stream
  <2>14. CASE step'[p][k] = "lead"
    <3>1. new[n + 1] = 0
      <4>1. PICK a, b \in Int : a = pos[n] /\ b = pos[n + 1]
        BY <1>6, <1>7, <2>3 DEF Carried
      <4>2. b = a + (l + 1)
        <5>1. Len(ms) - 1 = N
          BY <1>4, <1>6, LessOne, Zenon
        <5> QED BY <1>7, <2>1, <2>3, <4>1, <5>1 DEF Carried
      <4>3. a + l = 0 /\ new[n + 1] = b - 1
        BY <1>11, <1>16, <2>3, <4>1
      <4>4. (a - 1) + (l + 1) = 0
        BY <1>10, <4>1, <4>3, ShiftSum, Zenon
      <4>5. b - 1 = (a - 1) + (l + 1)
        BY <1>10, <4>1, <4>2, PredSum, Zenon
      <4> QED BY <4>3, <4>4, <4>5, Zenon
    <3>2. Reads(new, p, k, ms)'
      BY <1>20, <2>6, <2>7, <2>11, <2>14, <3>1 DEF Reads
    <3>3. StreamBy(p, k, t, new)'
      BY <1>1, <1>2, <1>5, <1>6, <1>15, <1>17, <3>2 DEF StreamBy
    <3> QED BY <2>12, <3>3 DEF Stream
  <2> QED BY <1>20, <2>13, <2>14
<1> QED BY <1>19, <1>20

-----------------------------------------------------------------------------
(* The inductive invariant.                                                *)
FlowInv == Inv /\ StreamInv /\ NeverMisread

DeadStays == \A q \in Peer, j \in Pipe : Dead(q, j) => Dead(q, j)'

(* An error that is not of the kind a peer is blamed for.                  *)
LEMMA ErrorKept ==
  ASSUME FlowInv, broken \subseteq broken',
         \/ UNCHANGED err
         \/ \E p \in Peer : \E e \in PipeErrors, how \in {"posted", "told"} :
              NewError(p, e, how)
  PROVE  NeverMisread' /\ DeadStays
<1>1. err \in [Peer -> {"ok"} \cup PipeErrors \cup Misfits]
  BY DEF FlowInv, Inv, TypeOK
<1>2. CASE UNCHANGED err
  BY <1>2 DEF FlowInv, NeverMisread, DeadStays, Dead
<1>3. ASSUME NEW p \in Peer, NEW e \in PipeErrors, err' = [err EXCEPT ![p] = e]
      PROVE  NeverMisread' /\ DeadStays
  <2>1. e \notin Misfits /\ e # "ok"
    BY DEF PipeErrors, Misfits
  <2>2. \A q \in Peer : err'[q] = IF q = p THEN e ELSE err[q]
    BY <1>1, <1>3
  <2>3. NeverMisread'
    BY <2>1, <2>2 DEF FlowInv, NeverMisread
  <2>4. DeadStays
    BY <2>1, <2>2 DEF DeadStays, Dead
  <2> QED BY <2>3, <2>4
<1> QED BY <1>2, <1>3 DEF NewError

(* One chain moves; the others are left as they were.                      *)
LEMMA OneChain ==
  ASSUME FlowInv, NEW p \in Peer, NEW k \in Pipe, DeadStays,
         Stream(p, k)' /\ Delivered(p, k)',
         \A q \in Peer, j \in Pipe : q # p \/ j # k =>
           /\ step'[q][j] = step[q][j] /\ wire'[q][j] = wire[q][j]
           /\ msgIn'[q][j] = msgIn[q][j] /\ left'[q][j] = left[q][j]
           /\ got'[q][j] = got[q][j] /\ sent'[Other(q)][j] = sent[Other(q)][j],
         UNCHANGED <<startedOps, negErr>>
  PROVE  StreamInv'
<1>1. ASSUME NEW q \in Peer, NEW j \in Pipe, q # p \/ j # k
      PROVE  Stream(q, j)' /\ Delivered(q, j)'
  <2>1. Stream(q, j) /\ Delivered(q, j)
    BY DEF FlowInv, StreamInv
  <2>2. Dead(Other(q), j) => Dead(Other(q), j)'
    BY OtherPeer DEF DeadStays
  <2> QED BY <1>1, <2>1, <2>2, StreamKept
<1> QED BY <1>1 DEF StreamInv

(* Nothing is put or taken, except by chains that stop.                    *)
LEMMA NoneMoves ==
  ASSUME FlowInv, DeadStays, UNCHANGED <<got, sent>>,
         \A q \in Peer, j \in Pipe :
           /\ \/ step'[q][j] \in {step[q][j], "stop"}
              \/ step[q][j] = "off" /\ step'[q][j] = "notice"
           /\ step'[q][j] # "stop" => /\ wire'[q][j] = wire[q][j]
                                      /\ msgIn'[q][j] = msgIn[q][j]
                                      /\ left'[q][j] = left[q][j],
         UNCHANGED <<startedOps, negErr>>
  PROVE  StreamInv'
<1>1. ASSUME NEW q \in Peer, NEW j \in Pipe
      PROVE  Stream(q, j)' /\ Delivered(q, j)'
  <2>1. Stream(q, j) /\ Delivered(q, j)
    BY DEF FlowInv, StreamInv
  <2>2. Dead(Other(q), j) => Dead(Other(q), j)'
    BY OtherPeer DEF DeadStays
  <2> QED BY <2>1, <2>2, StreamKept
<1> QED BY <1>1 DEF StreamInv

-----------------------------------------------------------------------------
LEMMA FlowStartOps ==
  ASSUME FlowInv, NEW p \in Peer, StartOps(p)
  PROVE  StreamInv' /\ NeverMisread'
<1>1. PICK o \in Peer : o = Other(p) /\ Other(o) = p /\ o # p
  BY OtherPeer DEF Other, Peer
<1>2. /\ ~startedOps[p]
      /\ startedOps' = [startedOps EXCEPT ![p] = TRUE]
      /\ startedOps \in [Peer -> BOOLEAN]
      /\ negErr' = [negErr EXCEPT ![p] = IF Noticed(p) = Pipe THEN "ok" ELSE "SEND"]
      /\ negErr \in [Peer -> {"ok", "SEND"}]
      /\ UNCHANGED <<build, err, step, left, msgIn, broken, sent, got>>
  BY DEF StartOps, ownVars, errVars, readVars, FlowInv, Inv, TypeOK
<1>3. NeverMisread' /\ DeadStays
  BY <1>2, ErrorKept
<1>4. wire \in [Peer -> [Pipe -> Seq(Blob)]]
  BY DEF FlowInv, Inv, TypeOK
<1>5. ASSUME NEW k \in Pipe
      PROVE  /\ wire'[p][k] = wire[p][k]
             /\ wire[o][k] = <<>>
             /\ wire'[o][k] \in {<<>>, <<Notice(build[p].max)>>}
  <2>1. wire[o][k] = <<>>
    BY <1>1, <1>2 DEF FlowInv, Inv, Chains, Framed
  <2>2. wire' = [wire EXCEPT ![o] = [j \in Pipe |->
                   IF j \in Noticed(p) THEN Append(wire[o][j], Notice(build[p].max))
                   ELSE wire[o][j]]]
    BY <1>1, <1>4 DEF StartOps
  <2>3. wire'[o][k] = IF k \in Noticed(p) THEN Append(wire[o][k], Notice(build[p].max))
                      ELSE wire[o][k]
    BY <1>4, <2>2
  <2> QED BY <1>1, <1>4, <2>1, <2>2, <2>3
<1>6. ASSUME NEW q \in Peer, NEW j \in Pipe
      PROVE  Stream(q, j)' /\ Delivered(q, j)'
  <2>1. Stream(q, j) /\ Delivered(q, j)
    BY DEF FlowInv, StreamInv
  <2>2. Dead(Other(q), j) => Dead(Other(q), j)'
    BY <1>3, OtherPeer DEF DeadStays
  <2>3. CASE q = p
    <3>1. startedOps[o] => startedOps'[o] /\ UNCHANGED negErr[o]
      BY <1>1, <1>2
    <3> QED BY <1>1, <1>2, <1>5, <2>1, <2>2, <2>3, <3>1, StreamKept
  <2>4. CASE q = o /\ wire'[q][j] = <<>>
    BY <1>1, <1>2, <1>5, <2>1, <2>2, <2>4, StreamKept
  <2>5. CASE q = o /\ wire'[q][j] = <<Notice(build[p].max)>>
    BY <1>1, <1>2, <2>1, <2>5, StreamNoticed DEF FlowInv
  <2> QED BY <1>1, <1>5, <2>3, <2>4, <2>5 DEF Peer
<1> QED BY <1>3, <1>6 DEF StreamInv

LEMMA FlowStartAndPoll ==
  ASSUME FlowInv, NEW p \in Peer, StartAndPoll(p)
  PROVE  StreamInv' /\ NeverMisread'
<1>1. UNCHANGED <<startedOps, negErr, left, msgIn, wire, broken, sent, got>>
  BY DEF StartAndPoll
<1>2. \/ UNCHANGED <<err, onErr>>
      \/ \E e \in PipeErrors : NewError(p, e, "posted")
  <2>1. "ALLOC_FAILED" \in PipeErrors
        /\ (negErr[p] # "ok" => negErr[p] \in PipeErrors)
    BY DEF FlowInv, Inv, TypeOK, PipeErrors
  <2> QED BY <2>1 DEF StartAndPoll, errVars
<1>3. NeverMisread' /\ DeadStays
  BY <1>1, <1>2, ErrorKept
<1>4. ASSUME NEW q \in Peer, NEW j \in Pipe
      PROVE  \/ step'[q][j] = step[q][j]
             \/ step[q][j] = "off" /\ step'[q][j] = "notice"
  <2>1. step \in [Peer -> [Pipe -> Steps]]
    BY DEF FlowInv, Inv, TypeOK, Steps
  <2>2. step[p][j] = "off"
    BY DEF StartAndPoll, FlowInv, Inv, Chains, Starting
  <2>3. UNCHANGED step \/ step' = [step EXCEPT ![p] = [i \in Pipe |-> "notice"]]
    BY DEF StartAndPoll
  <2>4. CASE step' = [step EXCEPT ![p] = [i \in Pipe |-> "notice"]]
    BY <2>1, <2>2, <2>4
  <2> QED BY <2>3, <2>4
<1> QED BY <1>1, <1>3, <1>4, NoneMoves

-----------------------------------------------------------------------------
(* What is put on one wire.                                                *)
Grown(o, k, m) ==
  /\ wire'[o][k] = wire[o][k] \o m
  /\ \A q \in Peer, j \in Pipe : q # o \/ j # k => wire'[q][j] = wire[q][j]

LEMMA OneWire ==
  ASSUME TypeOK, NEW p \in Peer, NEW k \in Pipe, NEW m \in Seq(MsgBlob),
         Puts(p, k, m)
  PROVE  Grown(Other(p), k, m)
<1> SUFFICES ASSUME NEW o \in Peer, o = Other(p) PROVE Grown(o, k, m)
  BY OtherPeer
<1>1. wire \in [Peer -> [Pipe -> Seq(Blob)]]
  BY DEF TypeOK
<1>2. PICK v \in Seq(Blob) : v = wire[o][k] \o m
  <2>1. wire[o][k] \in Seq(Blob)
    BY <1>1
  <2> QED BY <2>1, GrownWire
<1>3. wire' = [wire EXCEPT ![o][k] = v]
  BY <1>2 DEF Puts
<1> QED BY <1>1, <1>2, <1>3, OneChanged DEF Grown

LEMMA FlowPut ==
  ASSUME FlowInv, NEW p \in Peer, NEW k \in Pipe, NEW m \in MsgOn(k),
         startedOps[p], negErr[p] = "ok", err[p] = "ok", Puts(p, k, m),
         sent' = [sent EXCEPT ![p][k] = Append(@, m)],
         UNCHANGED <<ownVars, errVars, readVars, broken, got>>
  PROVE  StreamInv' /\ NeverMisread'
<1>1. PICK o \in Peer : o = Other(p) /\ Other(o) = p
  BY OtherPeer
<1>2. m \in Seq(MsgBlob)
  BY MsgOnBlobs
<1>3. UNCHANGED <<startedOps, negErr, err, step, left, msgIn, broken, got>>
  BY DEF ownVars, errVars, readVars
<1>4. NeverMisread' /\ DeadStays
  BY <1>3, ErrorKept
<1>5. /\ wire'[o][k] = wire[o][k] \o m
      /\ \A q \in Peer, j \in Pipe : q # o \/ j # k => wire'[q][j] = wire[q][j]
  <2>1. Grown(Other(p), k, m)
    BY <1>2, OneWire DEF FlowInv, Inv
  <2> QED BY <1>1, <2>1 DEF Grown
<1>6. /\ sent'[p][k] = Append(sent[p][k], m)
      /\ \A q \in Peer, j \in Pipe : q # p \/ j # k => sent'[q][j] = sent[q][j]
  <2>1. sent \in [Peer -> [Pipe -> Seq(Seq(MsgBlob))]]
    BY DEF FlowInv, Inv, TypeOK
  <2>2. Append(sent[p][k], m) \in Seq(Seq(MsgBlob))
    BY <1>2, <2>1
  <2> QED BY <2>1, <2>2, OneChanged
<1>7. ~Dead(p, k)
  BY DEF Dead
<1>8. Stream(o, k)' /\ Delivered(o, k)'
  <2>1. Stream(o, k) /\ Delivered(o, k)
    BY DEF FlowInv, StreamInv
  <2> QED BY <1>1, <1>3, <1>5, <1>6, <1>7, <2>1, StreamPut, ZenonT(40) DEF FlowInv
<1>9. \A q \in Peer, j \in Pipe : q # o \/ j # k =>
        sent'[Other(q)][j] = sent[Other(q)][j]
  BY <1>1, <1>6, OtherPeer
<1>10. StreamInv'
  BY <1>3, <1>4, <1>5, <1>8, <1>9, OneChain
<1> QED BY <1>4, <1>10

LEMMA MsgOfSend ==
  ASSUME TypeOK, NEW p \in Peer, NEW h \in BOOLEAN, NEW n \in 1..MaxSeg,
         sndNext[p] <= MaxMsg[p]
  PROVE  Blobs(sndNext[p], h, n) \in MsgOn(PipeFor(h))
<1>1. /\ MaxMsg["cli"] \in Nat /\ MaxMsg["srv"] \in Nat /\ MaxSeg \in Nat
      /\ p \in {"cli", "srv"}
  BY ConstantsAssumption DEF Peer
<1>2. sndNext[p] \in Nat
  BY DEF TypeOK
<1>3. sndNext[p] \in 0..(MaxMsg["cli"] + MaxMsg["srv"])
  BY <1>1, <1>2
<1>4. n \in 0..MaxSeg
  BY <1>1
<1> QED BY <1>3, <1>4 DEF MsgOn

LEMMA FlowSend ==
  ASSUME FlowInv, NEW p \in Peer, NEW h \in BOOLEAN, NEW n \in 1..MaxSeg,
         Send(p, h, n)
  PROVE  StreamInv' /\ NeverMisread'
<1>1. PICK k \in Pipe : k = PipeFor(h)
  BY PipeForIsPipe
<1>2. PICK m \in MsgOn(k) : m = Blobs(sndNext[p], h, n)
  BY <1>1, MsgOfSend DEF Send, Sendable, FlowInv, Inv
<1> QED BY <1>1, <1>2, FlowPut DEF Send, Sendable, Puts

LEMMA MsgOfInform == Blobs(0, FALSE, 0) \in MsgOn(PipeFor(FALSE))
<1>1. 0 \in 0..(MaxMsg["cli"] + MaxMsg["srv"]) /\ 0 \in 0..MaxSeg
  BY ConstantsAssumption DEF Peer
<1>2. PICK k \in Pipe : k = PipeFor(FALSE)
  BY PipeForIsPipe
<1>3. PICK h \in {x \in BOOLEAN : PipeFor(x) = k} : h = FALSE
  BY <1>2
<1>4. Blobs(0, h, 0) \in MsgOn(k)
  BY <1>1, <1>3 DEF MsgOn
<1> QED BY <1>2, <1>3, <1>4

LEMMA FlowInform ==
  ASSUME FlowInv, NEW p \in Peer, Inform(p)
  PROVE  StreamInv' /\ NeverMisread'
<1>1. PICK k \in Pipe : k = PipeFor(FALSE)
  BY PipeForIsPipe
<1>2. PICK m \in MsgOn(k) : m = Blobs(0, FALSE, 0)
  BY <1>1, MsgOfInform
<1>3. startedOps[p] /\ negErr[p] = "ok"
  BY DEF Inform, FlowInv, Inv, Chains, Starting
<1> QED BY <1>1, <1>2, <1>3, FlowPut DEF Inform, Puts

(* A message is cut.                                                       *)
LEMMA FlowSendFails ==
  ASSUME FlowInv, NEW p \in Peer, NEW h \in BOOLEAN, NEW n \in 1..MaxSeg,
         NEW i \in 1..(n + 1), SendFails(p, h, n, i)
  PROVE  StreamInv' /\ NeverMisread'
<1>1. PICK k \in Pipe : k = PipeFor(h)
  BY PipeForIsPipe
<1>2. PICK m \in MsgOn(k) : m = Blobs(sndNext[p], h, n)
  BY <1>1, MsgOfSend DEF SendFails, Sendable, FlowInv, Inv
<1>3. PICK c \in Seq(MsgBlob) : /\ c = SubSeq(m, 1, i - 1)
                                /\ Len(c) < Len(m)
                                /\ \A j \in 1..Len(c) : c[j] = m[j]
  <2>1. m \in Seq(MsgBlob) /\ Len(m) = n + 1 /\ n \in Nat
    <3>1. n \in Nat /\ sndNext[p] \in Nat
      BY ConstantsAssumption DEF FlowInv, Inv, TypeOK
    <3> QED BY <1>2, <3>1, BlobsTyped
  <2>2. PICK x \in Nat : x = i - 1 /\ x <= n
    BY <2>1
  <2>3. \A j \in 1..x : m[j] \in MsgBlob
    BY <2>1, <2>2
  <2>4. /\ SubSeq(m, 1, x) \in Seq(MsgBlob) /\ Len(SubSeq(m, 1, x)) = x
        /\ \A j \in 1..x : SubSeq(m, 1, x)[j] = m[j]
    BY <2>1, <2>2, <2>3
  <2>5. x < n + 1
    BY <2>1, <2>2
  <2> QED BY <2>1, <2>2, <2>4, <2>5
<1>4. PICK o \in Peer : o = Other(p) /\ Other(o) = p
  BY OtherPeer
<1>5. /\ startedOps[p] /\ negErr[p] = "ok" /\ err[p] = "ok"
      /\ Puts(p, k, c) /\ NewError(p, "SEND", "told") /\ <<p, k>> \in broken
      /\ UNCHANGED <<startedOps, negErr, step, left, msgIn, broken, sent, got>>
  BY <1>1, <1>2, <1>3 DEF SendFails, Sendable, Puts, ownVars, readVars
<1>6. NeverMisread' /\ DeadStays
  <2>1. "SEND" \in PipeErrors
    BY DEF PipeErrors
  <2> QED BY <1>5, <2>1, ErrorKept
<1>7. ~Dead(p, k) /\ Dead(p, k)'
  <2>1. err \in [Peer -> {"ok"} \cup PipeErrors \cup Misfits]
    BY DEF FlowInv, Inv, TypeOK
  <2>2. err'[p] = "SEND"
    BY <1>5, <2>1 DEF NewError
  <2> QED BY <1>5, <2>2 DEF Dead
<1>8. /\ wire'[o][k] = wire[o][k] \o c
      /\ \A q \in Peer, j \in Pipe : q # o \/ j # k => wire'[q][j] = wire[q][j]
  <2>1. Grown(Other(p), k, c)
    BY <1>5, OneWire DEF FlowInv, Inv
  <2> QED BY <1>4, <2>1 DEF Grown
<1>9. Stream(o, k)' /\ Delivered(o, k)'
  <2>1. Stream(o, k) /\ Delivered(o, k)
    BY DEF FlowInv, StreamInv
  <2> QED BY <1>3, <1>4, <1>5, <1>7, <1>8, <2>1, StreamCut DEF FlowInv
<1>10. StreamInv'
  BY <1>4, <1>5, <1>6, <1>8, <1>9, OneChain
<1> QED BY <1>6, <1>10

(* What a peer does that puts nothing on a wire.                           *)
LEMMA FlowNone ==
  ASSUME FlowInv, NEW p \in Peer,
         \/ SendMeetsNegError(p) \/ SendAfterEnd(p) \/ EndSending(p)
         \/ \E k \in Pipe : Break(p, k)
  PROVE  StreamInv' /\ NeverMisread'
<1>1. UNCHANGED <<startedOps, negErr, step, left, msgIn, wire, sent, got>>
  BY DEF SendMeetsNegError, SendAfterEnd, EndSending, Break, ownVars, readVars
<1>2. broken \subseteq broken'
  BY DEF SendMeetsNegError, SendAfterEnd, EndSending, Break
<1>3. \/ UNCHANGED err
      \/ \E e \in PipeErrors : NewError(p, e, "told")
  <2>1. negErr[p] # "ok" => negErr[p] \in PipeErrors
    BY DEF FlowInv, Inv, TypeOK, PipeErrors
  <2> QED BY <2>1
          DEF SendMeetsNegError, SendAfterEnd, EndSending, Break, errVars
<1>4. NeverMisread' /\ DeadStays
  BY <1>2, <1>3, ErrorKept
<1> QED BY <1>1, <1>4, NoneMoves

-----------------------------------------------------------------------------
(* A blob is taken from one wire, and the chain goes on to another step.   *)
LEMMA OneTaken ==
  ASSUME TypeOK, NEW p \in Peer, NEW k \in Pipe, NEW to \in Steps,
         wire[p][k] # <<>>, Takes(p, k), Goes(p, k, to)
  PROVE  /\ wire'[p][k] = Tail(wire[p][k]) /\ step'[p][k] = to
         /\ \A q \in Peer, j \in Pipe : q # p \/ j # k =>
              wire'[q][j] = wire[q][j] /\ step'[q][j] = step[q][j]
<1>1. /\ wire \in [Peer -> [Pipe -> Seq(Blob)]]
      /\ step \in [Peer -> [Pipe -> Steps]]
  BY DEF TypeOK, Steps
<1>2. PICK v \in Seq(Blob) : v = Tail(wire[p][k])
  <2>1. wire[p][k] \in Seq(Blob)
    BY <1>1
  <2> QED BY <2>1, HeadTailProperties
<1>3. wire' = [wire EXCEPT ![p][k] = v] /\ step' = [step EXCEPT ![p][k] = to]
  BY <1>2 DEF Takes, Goes
<1>4. /\ wire'[p][k] = v
      /\ \A q \in Peer, j \in Pipe : q # p \/ j # k => wire'[q][j] = wire[q][j]
  BY <1>1, <1>2, <1>3, OneChanged
<1>5. /\ step'[p][k] = to
      /\ \A q \in Peer, j \in Pipe : q # p \/ j # k => step'[q][j] = step[q][j]
  BY <1>1, <1>3, OneChanged
<1> QED BY <1>2, <1>4, <1>5

LEMMA FlowReadNotice ==
  ASSUME FlowInv, NEW p \in Peer, NEW k \in Pipe, ReadNotice(p, k)
  PROVE  StreamInv' /\ NeverMisread'
<1>1. /\ step[p][k] = "notice" /\ wire[p][k] # <<>> /\ Takes(p, k)
      /\ UNCHANGED <<startedOps, negErr, left, msgIn, broken, sent, got>>
  BY DEF ReadNotice, Yields, ownVars
<1>2. PICK to \in {"lead", "stop"} : Goes(p, k, to)
  BY DEF ReadNotice
<1>3. UNCHANGED err \/ NewError(p, "VERSION", "told")
  BY DEF ReadNotice, errVars
<1>4. NeverMisread' /\ DeadStays
  <2>1. "VERSION" \in PipeErrors
    BY DEF PipeErrors
  <2> QED BY <1>1, <1>3, <2>1, ErrorKept
<1>5. /\ wire'[p][k] = Tail(wire[p][k]) /\ step'[p][k] = to
      /\ \A q \in Peer, j \in Pipe : q # p \/ j # k =>
           wire'[q][j] = wire[q][j] /\ step'[q][j] = step[q][j]
  <2>1. to \in Steps
    BY DEF Steps
  <2> QED BY <1>1, <1>2, <2>1, OneTaken DEF FlowInv, Inv
<1>6. Stream(p, k)' /\ Delivered(p, k)'
  <2>1. Stream(p, k) /\ Delivered(p, k)
    BY DEF FlowInv, StreamInv
  <2>2. Dead(Other(p), k) => Dead(Other(p), k)'
    BY <1>4, OtherPeer DEF DeadStays
  <2> QED BY <1>1, <1>5, <2>1, <2>2, StreamReadNotice DEF FlowInv
<1>7. StreamInv'
  BY <1>1, <1>4, <1>5, <1>6, OneChain
<1> QED BY <1>4, <1>7

(* A chain stops, whatever the wire held.                                  *)
LEMMA FlowReadNot ==
  ASSUME FlowInv, NEW p \in Peer, NEW k \in Pipe,
         ReadOnHosed(p, k) \/ ReadFails(p, k)
  PROVE  StreamInv' /\ NeverMisread'
<1>1. /\ Goes(p, k, "stop")
      /\ UNCHANGED <<startedOps, negErr, left, msgIn, broken, sent, got>>
  BY DEF ReadOnHosed, ReadFails, Stops, ownVars
<1>2. UNCHANGED err \/ NewError(p, "RECEIVE", "told")
  BY DEF ReadOnHosed, ReadFails, errVars
<1>3. NeverMisread' /\ DeadStays
  <2>1. "RECEIVE" \in PipeErrors
    BY DEF PipeErrors
  <2> QED BY <1>1, <1>2, <2>1, ErrorKept
<1>4. /\ step'[p][k] = "stop"
      /\ \A q \in Peer, j \in Pipe : q # p \/ j # k =>
           step'[q][j] = step[q][j] /\ wire'[q][j] = wire[q][j]
  <2>1. "stop" \in Steps /\ step \in [Peer -> [Pipe -> Steps]]
    BY DEF Steps, FlowInv, Inv, TypeOK
  <2>2. CASE ReadOnHosed(p, k)
    BY <1>1, <2>1, <2>2, OneTaken DEF ReadOnHosed, Yields, FlowInv, Inv
  <2>3. CASE ReadFails(p, k)
    <3>1. UNCHANGED wire
      BY <2>3 DEF ReadFails
    <3> QED BY <1>1, <2>1, <3>1, OneChanged DEF Goes
  <2> QED BY <2>2, <2>3
<1>5. ASSUME NEW q \in Peer, NEW j \in Pipe
      PROVE  /\ step'[q][j] \in {step[q][j], "stop"}
             /\ step'[q][j] # "stop" => wire'[q][j] = wire[q][j]
  BY <1>4
<1> QED BY <1>1, <1>3, <1>5, NoneMoves

(* The next part of a message is taken.                                    *)
LEMMA FlowBlob ==
  ASSUME FlowInv, NEW p \in Peer, NEW k \in Pipe,
         step[p][k] \in {"lead", "cont"}, wire[p][k] # <<>>, Takes(p, k),
         NEW t \in MsgOn(k), NEW pos, StreamBy(p, k, t, pos),
         NEW m \in Seq(MsgBlob), m = Append(msgIn[p][k], Head(wire[p][k])),
         NEW more \in Nat, Missed(p, k, t, m, more),
         \/ more = 0 /\ Whole(p, k, m) /\ UNCHANGED left
         \/ more # 0 /\ Part(p, k, m, more - 1),
         UNCHANGED <<ownVars, negotiated, sndNext, broken, ended, sent>>
  PROVE  StreamInv' /\ NeverMisread'
<1>1. UNCHANGED <<startedOps, negErr, broken, sent>>
  BY DEF ownVars
<1>2. PICK to \in {"lead", "cont", "stop"} :
        /\ Goes(p, k, to) /\ (UNCHANGED err \/ NewError(p, "ALLOC_FAILED", "told"))
        /\ to \in {IF more = 0 THEN "lead" ELSE "cont", "stop"}
  BY DEF Whole, Part, ReadOn, errVars
<1>3. NeverMisread' /\ DeadStays
  <2>1. "ALLOC_FAILED" \in PipeErrors
    BY DEF PipeErrors
  <2> QED BY <1>1, <1>2, <2>1, ErrorKept
<1>4. /\ wire'[p][k] = Tail(wire[p][k]) /\ step'[p][k] = to
      /\ \A q \in Peer, j \in Pipe : q # p \/ j # k =>
           wire'[q][j] = wire[q][j] /\ step'[q][j] = step[q][j]
  <2>1. to \in Steps
    BY DEF Steps
  <2> QED BY <1>2, <2>1, OneTaken DEF FlowInv, Inv
<1>5. /\ got \in [Peer -> [Pipe -> Seq(Seq(MsgBlob))]]
      /\ msgIn \in [Peer -> [Pipe -> Seq(MsgBlob)]]
      /\ left \in [Peer -> [Pipe -> Nat]]
  BY DEF FlowInv, Inv, TypeOK
<1>6. CASE more = 0
  <2>1. PICK g \in Seq(Seq(MsgBlob)), e \in Seq(MsgBlob) :
          g = Append(got[p][k], m) /\ e = <<>>
    <3>1. PICK h \in Seq(Seq(MsgBlob)) : h = got[p][k]
      BY <1>5
    <3>2. Append(h, m) \in Seq(Seq(MsgBlob)) /\ <<>> \in Seq(MsgBlob)
      BY AppendProperties
    <3> QED BY <3>1, <3>2
  <2>2. got' = [got EXCEPT ![p][k] = g] /\ UNCHANGED left
        /\ msgIn' = [msgIn EXCEPT ![p][k] = e]
    BY <1>6, <2>1 DEF Whole
  <2>3. /\ got'[p][k] = g
        /\ \A q \in Peer, j \in Pipe : q # p \/ j # k => got'[q][j] = got[q][j]
    BY <1>5, <2>1, <2>2, OneChanged
  <2>4. /\ msgIn'[p][k] = e
        /\ \A q \in Peer, j \in Pipe : q # p \/ j # k => msgIn'[q][j] = msgIn[q][j]
    BY <1>5, <2>1, <2>2, OneChanged
  <2>5. Stream(p, k)' /\ Delivered(p, k)'
    <3>1. Delivered(p, k)
      BY DEF FlowInv, StreamInv
    <3>2. Dead(Other(p), k) => Dead(Other(p), k)'
      BY <1>3, OtherPeer DEF DeadStays
    <3>3. to \in {"lead", "stop"} /\ got'[p][k] = Append(got[p][k], m)
          /\ msgIn'[p][k] = <<>>
      BY <1>2, <1>6, <2>1, <2>3, <2>4
    <3> QED BY <1>1, <1>4, <1>6, <3>1, <3>2, <3>3, StreamRead DEF FlowInv
  <2>6. StreamInv'
    BY <1>1, <1>3, <1>4, <2>2, <2>3, <2>4, <2>5, OneChain, SMTT(40)
  <2> QED BY <1>3, <2>6
<1>7. CASE more # 0
  <2>1. PICK f \in Nat : f = more - 1
    BY <1>7
  <2>2. UNCHANGED got /\ left' = [left EXCEPT ![p][k] = f]
        /\ msgIn' = [msgIn EXCEPT ![p][k] = m]
    BY <1>7, <2>1 DEF Part
  <2>3. /\ left'[p][k] = f
        /\ \A q \in Peer, j \in Pipe : q # p \/ j # k => left'[q][j] = left[q][j]
    BY <1>5, <2>1, <2>2, OneChanged
  <2>4. /\ msgIn'[p][k] = m
        /\ \A q \in Peer, j \in Pipe : q # p \/ j # k => msgIn'[q][j] = msgIn[q][j]
    BY <1>5, <2>2, OneChanged
  <2>5. Stream(p, k)' /\ Delivered(p, k)'
    <3>1. Delivered(p, k)
      BY DEF FlowInv, StreamInv
    <3>2. Dead(Other(p), k) => Dead(Other(p), k)'
      BY <1>3, OtherPeer DEF DeadStays
    <3>3. to \in {"cont", "stop"} /\ got'[p][k] = got[p][k]
          /\ left'[p][k] = more - 1
      BY <1>2, <1>7, <2>1, <2>2, <2>3
    <3> QED BY <1>1, <1>4, <1>7, <2>4, <3>1, <3>2, <3>3, StreamRead DEF FlowInv
  <2>6. StreamInv'
    BY <1>1, <1>3, <1>4, <2>2, <2>3, <2>4, <2>5, OneChain
  <2> QED BY <1>3, <2>6
<1> QED BY <1>6, <1>7

(* The blob a chain reads is the next part of a message, as it expects.    *)
Expected(p, k, t, pos, b, more) ==
  LET m == Append(msgIn[p][k], b)
  IN  /\ StreamBy(p, k, t, pos) /\ b \in MsgBlob /\ b = Head(wire[p][k])
      /\ m \in Seq(MsgBlob) /\ Missed(p, k, t, m, more)
      /\ step[p][k] = "lead" => /\ b.kind = "lead" /\ b.segs = more
                                /\ TwoPipes => b.hndl = (k = "handles")
                                /\ m = <<b>>
      /\ step[p][k] = "cont" => b.kind = "cont" /\ left[p][k] = more

LEMMA ExpectedCome ==
  ASSUME FlowInv, NEW p \in Peer, NEW k \in Pipe,
         step[p][k] \in {"lead", "cont"}, wire[p][k] # <<>>
  PROVE  \E t \in MsgOn(k), b \in MsgBlob, more \in Nat : \E pos :
            Expected(p, k, t, pos, b, more)
<1>1. Stream(p, k) /\ Delivered(p, k)
  BY DEF FlowInv, StreamInv
<1>a. PICK t \in MsgOn(k) : \E pos : StreamBy(p, k, t, pos)
  BY <1>1 DEF Stream
<1>2. PICK pos : StreamBy(p, k, t, pos)
  BY <1>a
<1>3. AtPart(p, k, t, pos)
  BY <1>1, <1>2, NextPart DEF FlowInv
<1>4. PICK M \in MsgOn(k) :
        M = Append(sent[Other(p)][k], t)[Len(got[p][k]) + 1]
  BY <1>3 DEF AtPart
<1>5. PICK u \in Seq(MsgBlob) : u = msgIn[p][k]
  BY DEF FlowInv, Inv, TypeOK
<1>6. PICK l \in Nat : l = Len(u)
  BY LenProperties
<1>7. PICK b : b = Head(wire[p][k])
  OBVIOUS
<1>8. PICK L \in Nat \ {0} : L = Len(M)
  BY MsgOnBlobs
<1>9. /\ l + 1 \in 1..L /\ b = M[l + 1]
      /\ step[p][k] = "lead" => l = 0 /\ u = <<>>
      /\ step[p][k] = "cont" => l # 0 /\ l + left[p][k] + 1 = L
  BY <1>3, <1>4, <1>5, <1>6, <1>7, <1>8 DEF AtPart
<1>10. b \in MsgBlob
  BY <1>8, <1>9, MsgOnBlobs
<1>11. PICK m \in Seq(MsgBlob) : m = Append(u, b)
  <2>1. Append(u, b) \in Seq(MsgBlob)
    BY <1>10, AppendProperties
  <2> QED BY <2>1
<1>12. Len(m) = l + 1
  BY <1>6, <1>10, <1>11
<1>13. PICK more \in Nat : more + (l + 1) = L
  <2>1. L - (l + 1) \in Nat /\ (L - (l + 1)) + (l + 1) = L
    BY <1>9
  <2> QED BY <2>1
<1>14. Missed(p, k, t, m, more)
  BY <1>4, <1>8, <1>12, <1>13 DEF Missed
<1>15. ASSUME step[p][k] = "lead"
       PROVE  /\ b.kind = "lead" /\ b.segs = more
              /\ TwoPipes => b.hndl = (k = "handles")
              /\ m = <<b>>
  <2>1. l = 0 /\ l + 1 = 1
    BY <1>9, <1>15
  <2>2. b = M[1] /\ u = <<>>
    BY <1>9, <1>15, <2>1
  <2>3. b.segs = L - 1 /\ b.kind = "lead"
    BY <1>8, <2>2, MsgOnBlobs
  <2>4. L - 1 = more
    BY <1>13, <2>1
  <2>5. TwoPipes => b.hndl = (k = "handles")
    BY <2>2, MsgOnBlobs, Zenon
  <2>6. m = <<b>>
    BY <1>10, <1>11, <2>2
  <2> QED BY <2>3, <2>4, <2>5, <2>6
<1>16. ASSUME step[p][k] = "cont" PROVE b.kind = "cont" /\ left[p][k] = more
  <2>1. PICK f \in Nat : f = left[p][k]
    BY DEF FlowInv, Inv, TypeOK
  <2>2. l + f + 1 = L /\ l # 0
    BY <1>9, <1>16, <2>1
  <2>3. f = more
    BY <1>13, <2>2
  <2>4. l + 1 \in 2..L
    BY <1>9, <2>2
  <2> QED BY <1>8, <1>9, <2>1, <2>3, <2>4, MsgOnBlobs
<1>17. Expected(p, k, t, pos, b, more)
  BY <1>2, <1>5, <1>7, <1>10, <1>11, <1>14, <1>15, <1>16 DEF Expected
<1> QED BY <1>10, <1>17

LEMMA FlowReadLead ==
  ASSUME FlowInv, NEW p \in Peer, NEW k \in Pipe, ReadLead(p, k)
  PROVE  StreamInv' /\ NeverMisread'
<1>1. /\ step[p][k] = "lead" /\ wire[p][k] # <<>> /\ Takes(p, k)
      /\ UNCHANGED <<ownVars, negotiated, sndNext, broken, ended, sent>>
  BY DEF ReadLead, Yields
<1>a. PICK t \in MsgOn(k), b \in MsgBlob, more \in Nat :
        \E pos : Expected(p, k, t, pos, b, more)
  BY <1>1, ExpectedCome
<1>2. PICK pos : Expected(p, k, t, pos, b, more)
  BY <1>a
<1>3. PICK m \in Seq(MsgBlob) : m = Append(msgIn[p][k], b) /\ m = <<b>>
  BY <1>1, <1>2 DEF Expected
<1>4. /\ StreamBy(p, k, t, pos) /\ b = Head(wire[p][k]) /\ Missed(p, k, t, m, more)
      /\ b.kind = "lead" /\ b.segs = more
      /\ TwoPipes => b.hndl = (k = "handles")
  BY <1>1, <1>2, <1>3 DEF Expected
<1>5. LeadError(k, b) = "ok"
  BY <1>4 DEF LeadError
<1>6. \/ more = 0 /\ Whole(p, k, m) /\ UNCHANGED left
      \/ more # 0 /\ Part(p, k, m, more - 1)
  BY <1>3, <1>4, <1>5 DEF ReadLead
<1> QED BY <1>1, <1>3, <1>4, <1>6, FlowBlob

LEMMA FlowReadCont ==
  ASSUME FlowInv, NEW p \in Peer, NEW k \in Pipe, ReadCont(p, k)
  PROVE  StreamInv' /\ NeverMisread'
<1>1. /\ step[p][k] = "cont" /\ wire[p][k] # <<>> /\ Takes(p, k)
      /\ UNCHANGED <<ownVars, negotiated, sndNext, broken, ended, sent>>
  BY DEF ReadCont, Yields
<1>a. PICK t \in MsgOn(k), b \in MsgBlob, more \in Nat :
        \E pos : Expected(p, k, t, pos, b, more)
  BY <1>1, ExpectedCome
<1>2. PICK pos : Expected(p, k, t, pos, b, more)
  BY <1>a
<1>3. PICK m \in Seq(MsgBlob) : m = Append(msgIn[p][k], b)
  BY <1>2 DEF Expected
<1>4. /\ StreamBy(p, k, t, pos) /\ b = Head(wire[p][k]) /\ Missed(p, k, t, m, more)
      /\ b.kind = "cont" /\ left[p][k] = more
  BY <1>1, <1>2, <1>3 DEF Expected
<1>5. ContError(b) = "ok"
  BY <1>4 DEF ContError
<1>6. \/ more = 0 /\ Whole(p, k, m) /\ UNCHANGED left
      \/ more # 0 /\ Part(p, k, m, more - 1)
  BY <1>3, <1>4, <1>5 DEF ReadCont
<1> QED BY <1>1, <1>3, <1>4, <1>6, FlowBlob

-----------------------------------------------------------------------------
LEMMA FlowInit == Init => FlowInv
<1>1. Init => NeverMisread
  BY DEF Init, NeverMisread, Misfits
<1> QED BY <1>1, InvInit, StreamInit DEF FlowInv

LEMMA FlowNext == FlowInv /\ [Next]_vars => FlowInv'
<1> SUFFICES ASSUME FlowInv, [Next]_vars PROVE StreamInv' /\ NeverMisread'
  BY InvNext DEF FlowInv
<1>1. CASE UNCHANGED vars
  <2>1. UNCHANGED <<startedOps, negErr, err, step, left, msgIn, wire, broken,
                    sent, got>>
    BY <1>1 DEF vars
  <2>2. NeverMisread' /\ DeadStays
    BY <2>1, ErrorKept
  <2> QED BY <2>1, <2>2, NoneMoves
<1>2. ASSUME NEW p \in Peer, UserStep(p) PROVE StreamInv' /\ NeverMisread'
  BY <1>2, FlowStartOps, FlowStartAndPoll, FlowSend, FlowSendFails, FlowInform,
     FlowNone
  DEF UserStep
<1>3. ASSUME NEW p \in Peer, NEW k \in Pipe, ReadStep(p, k) \/ Break(p, k)
      PROVE  StreamInv' /\ NeverMisread'
  BY <1>3, FlowReadNotice, FlowReadLead, FlowReadCont, FlowReadNot, FlowNone
  DEF ReadStep
<1> QED BY <1>1, <1>2, <1>3 DEF Next

(* However the pipes race, whichever transports fail between two blobs of  *)
(* a message and whichever chains stop, no blob is taken for one of        *)
(* another kind: peers that keep the protocol are never found to misbehave.*)
THEOREM NeverMisreadAlways == Spec => []NeverMisread
<1>1. FlowInv => NeverMisread
  BY DEF FlowInv
<1> QED BY <1>1, FlowInit, FlowNext, PTL DEF Spec

-----------------------------------------------------------------------------
(* A chain in the middle of message M, n-th of the pipe, has l blobs of it.*)
AmidMessage(p, k, pos, M, n, l) ==
  LET s == sent[Other(p)][k]
  IN  /\ n \in 1..(Len(s) + 1) /\ l \in 1..Len(M) /\ l + left[p][k] + 1 = Len(M)
      /\ Len(msgIn[p][k]) = l /\ Head(msgIn[p][k]) = M[1]
      /\ pos \in [1..(Len(s) + 1) -> Int] /\ pos[n] + l = 0
      /\ \A i \in 1..Len(M) : pos[n] + i \in 1..Len(wire[p][k])
                               => wire[p][k][pos[n] + i] = M[i]
      /\ n \in 1..Len(s) => /\ pos[n + 1] = pos[n] + Len(M)
                            /\ pos[n + 1] <= Len(wire[p][k])
      /\ pos[Len(s) + 1] = Len(wire[p][k]) \/ Dead(Other(p), k)

LEMMA Amid ==
  ASSUME Inv, NEW p \in Peer, NEW k \in Pipe, Stream(p, k), Delivered(p, k),
         step[p][k] = "cont"
  PROVE  \E M \in MsgOn(k), n \in Nat, l \in Nat : \E pos :
           AmidMessage(p, k, pos, M, n, l)
<1>a. PICK t \in MsgOn(k) : \E pos : StreamBy(p, k, t, pos)
  BY DEF Stream
<1>1. PICK pos : StreamBy(p, k, t, pos)
  BY <1>a
<1>2. PICK s \in Seq(Seq(MsgBlob)) : s = sent[Other(p)][k]
  BY OtherPeer DEF Inv, TypeOK
<1>3. PICK w \in Seq(Blob) : w = wire[p][k]
  BY DEF Inv, TypeOK
<1>4. t \in Seq(MsgBlob)
  BY MsgOnBlobs
<1>5. PICK N \in Nat : N = Len(s)
  BY LenProperties
<1>6. PICK ms \in Seq(Seq(MsgBlob)) : ms = Append(s, t)
  BY <1>4, Appended
<1>7. Len(ms) = N + 1 /\ ms[N + 1] = t /\ \A j \in 1..N : ms[j] = s[j]
  BY <1>4, <1>5, <1>6, Appended
<1>8. /\ Carried(pos, w, ms) /\ Reads(pos, p, k, ms)
      /\ pos[N + 1] = Len(w) \/ Dead(Other(p), k)
  BY <1>1, <1>2, <1>3, <1>6, <1>7 DEF StreamBy
<1>9. PICK n \in 1..(N + 1) : n = Len(got[p][k]) + 1
  <2>1. PICK g \in Nat : g = Len(got[p][k])
    BY DEF Inv, TypeOK
  <2>2. g <= N
    BY <1>2, <1>5, <2>1 DEF Delivered
  <2>3. g + 1 \in 1..(N + 1)
    BY <2>2
  <2> QED BY <2>1, <2>3
<1>10. PICK M \in MsgOn(k) : M = ms[n]
  <2>1. CASE n = N + 1
    BY <1>7, <2>1
  <2>2. CASE n \in 1..N
    BY <1>2, <1>5, <1>7, <2>2 DEF Delivered
  <2> QED BY <2>1, <2>2, UpTo
<1>11. PICK L \in Nat \ {0} : L = Len(M)
  BY MsgOnBlobs
<1>12. PICK m \in Seq(MsgBlob) : m = msgIn[p][k]
  BY DEF Inv, TypeOK
<1>13. PICK l \in Nat : l = Len(m)
  BY LenProperties
<1>14. /\ m # <<>> /\ pos[n] + l = 0 /\ l + left[p][k] + 1 = L
       /\ \A i \in 1..l : m[i] = M[i]
  BY <1>8, <1>9, <1>10, <1>11, <1>12, <1>13 DEF Reads
<1>15. l \in 1..L
  <2>1. PICK f \in Nat : f = left[p][k]
    BY DEF Inv, TypeOK
  <2>2. l + f + 1 = L /\ l # 0
    BY <1>13, <1>14, <2>1, EmptySeq
  <2> QED BY <2>2
<1>16. Head(m) = M[1]
  <2>1. Head(m) = m[1] /\ 1 \in 1..l
    BY <1>14, <1>15, HeadTailProperties
  <2> QED BY <1>14, <2>1
<1>17. /\ pos \in [1..(N + 1) -> Int]
       /\ \A i \in 1..L : pos[n] + i \in 1..Len(w) => w[pos[n] + i] = M[i]
  BY <1>7, <1>8, <1>10, <1>11 DEF Carried
<1>18. ASSUME n \in 1..N
       PROVE  pos[n + 1] = pos[n] + L /\ pos[n + 1] <= Len(w)
  <2>1. Len(ms) - 1 = N /\ n + 1 \in 1..Len(ms)
    BY <1>7, <1>18
  <2> QED BY <1>8, <1>10, <1>11, <1>18, <2>1 DEF Carried
<1>19. AmidMessage(p, k, pos, M, n, l)
  BY <1>2, <1>3, <1>5, <1>8, <1>11, <1>12, <1>13, <1>14, <1>15, <1>16, <1>17,
     <1>18 DEF AmidMessage
<1>20. n \in Nat
  BY <1>9
<1>21. \E x : AmidMessage(p, k, x, M, n, l)
  BY <1>19, Zenon
<1> QED BY <1>13, <1>20, <1>21, Zenon

(* The count of segments, the blobs collected and those on the wire agree. *)
LEMMA AddsUp ==
  ASSUME Inv, NEW p \in Peer, NEW k \in Pipe, Stream(p, k), Delivered(p, k),
         step[p][k] = "cont"
  PROVE  /\ left[p][k] + 1 = Missing(p, k)
         /\ \A n \in 1..Len(wire[p][k]) :
              n <= Missing(p, k) => wire[p][k][n].id = Head(msgIn[p][k]).id
         /\ Len(wire[p][k]) < Missing(p, k) => Dead(Other(p), k)
<1>a. PICK M \in MsgOn(k), n \in Nat, l \in Nat :
        \E pos : AmidMessage(p, k, pos, M, n, l)
  BY Amid
<1>1. PICK pos : AmidMessage(p, k, pos, M, n, l)
  BY <1>a
<1>2. PICK N \in Nat : N = Len(sent[Other(p)][k])
  <2>1. sent[Other(p)][k] \in Seq(Seq(MsgBlob))
    BY OtherPeer DEF Inv, TypeOK
  <2> QED BY <2>1
<1>3. PICK w \in Seq(Blob) : w = wire[p][k]
  BY DEF Inv, TypeOK
<1>4. PICK lw \in Nat : lw = Len(w)
  BY LenProperties
<1>5. PICK L \in Nat \ {0} : L = Len(M)
  BY MsgOnBlobs
<1>6. PICK f \in Nat : f = left[p][k]
  BY DEF Inv, TypeOK
<1>7. /\ n \in 1..(N + 1) /\ l \in 1..L /\ l + f + 1 = L
      /\ Len(msgIn[p][k]) = l /\ Head(msgIn[p][k]) = M[1]
      /\ pos \in [1..(N + 1) -> Int] /\ pos[n] + l = 0
      /\ \A i \in 1..L : pos[n] + i \in 1..lw => w[pos[n] + i] = M[i]
      /\ n \in 1..N => pos[n + 1] = pos[n] + L /\ pos[n + 1] <= lw
      /\ pos[N + 1] = lw \/ Dead(Other(p), k)
  BY <1>1, <1>2, <1>3, <1>4, <1>5, <1>6 DEF AmidMessage
<1>8. M[1].segs = L - 1 /\ \A i \in 1..L : M[i].id = M[1].id
  BY <1>5, MsgOnBlobs
<1>9. Missing(p, k) = f + 1
  <2>1. L - 1 + 1 - l = f + 1
    BY <1>7, SMTT(30)
  <2>2. Missing(p, k) = L - 1 + 1 - l
    BY <1>7, <1>8 DEF Missing
  <2> QED BY <2>1, <2>2
<1>10. PICK a \in Int : a = pos[n] /\ a + l = 0
  BY <1>7
<1>11. ASSUME NEW x \in 1..lw, x <= f + 1
       PROVE  w[x].id = Head(msgIn[p][k]).id
  <2>1. l + x \in 1..L /\ a + (l + x) = x
    <3>1. x \in Nat /\ x >= 1 /\ x <= f + 1 /\ l \in Nat
      BY <1>11
    <3>2. l + x <= l + f + 1 /\ l + x >= 1
      BY <3>1
    <3>3. l + x <= L
      BY <1>7, <3>2
    <3> QED BY <1>10, <3>1, <3>2, <3>3
  <2>2. w[x] = M[l + x]
    BY <1>7, <1>10, <1>11, <2>1
  <2> QED BY <1>7, <1>8, <2>1, <2>2
<1>12. ASSUME lw < f + 1, pos[N + 1] = lw PROVE FALSE
  <2>1. n # N + 1
    BY <1>7, <1>10, <1>12
  <2>2. n \in 1..N
    BY <1>7, <2>1, UpTo
  <2>3. pos[n + 1] = a + L /\ pos[n + 1] <= lw
    BY <1>7, <1>10, <2>2
  <2>4. a + L = f + 1
    BY <1>7, <1>10
  <2> QED BY <1>12, <2>3, <2>4
<1> QED BY <1>3, <1>4, <1>6, <1>7, <1>9, <1>11, <1>12

(* The count a chain keeps, the blobs it has collected and those on their  *)
(* way agree on what is missing: a chain waits in the middle of a message  *)
(* only while the rest is coming, or was cut by a transport that failed.   *)
THEOREM SegmentsAddUpAlways == Spec => []SegmentsAddUp
<1>1. FlowInv => SegmentsAddUp
  BY AddsUp DEF FlowInv, StreamInv, SegmentsAddUp, Dead
<1> QED BY <1>1, FlowInit, FlowNext, PTL DEF Spec

-----------------------------------------------------------------------------
(* The pipes of whole messages that the chains implement.                  *)
PutOf   == [l \in Peer \X Pipe |-> sent[Other(l[1])][l[2]]]
TakenOf == [l \in Peer \X Pipe |-> got[l[1]][l[2]]]

LEMMA MapsPut ==
  ASSUME NEW p \in Peer, NEW k \in Pipe, NEW m \in MsgOn(k),
         sent'[p][k] = Append(sent[p][k], m),
         \A q \in Peer, j \in Pipe : q # p \/ j # k => sent'[q][j] = sent[q][j],
         UNCHANGED got
  PROVE  Promise!Next
<1>1. PICK o \in Peer : p = Other(o) /\ \A q \in Peer : Other(q) = p => q = o
  <2>1. Other(p) \in Peer /\ p = Other(Other(p))
        /\ \A q \in Peer : Other(q) = p => q = Other(p)
    BY OtherPeer
  <2> QED BY <2>1
<1>2. PICK x \in Peer \X Pipe : x = <<o, k>>
  OBVIOUS
<1>3. PutOf' = [PutOf EXCEPT ![x] = Append(@, m)]
  <2>1. PICK f : f = [PutOf EXCEPT ![x] = Append(@, m)]
    OBVIOUS
  <2>2. ASSUME NEW l \in Peer \X Pipe
        PROVE  sent'[Other(l[1])][l[2]] = f[l]
    <3>1. l[1] \in Peer /\ l[2] \in Pipe /\ l = <<l[1], l[2]>>
      OBVIOUS
    <3>2. Other(l[1]) \in Peer
      BY <3>1, OtherPeer
    <3>3. CASE l = x
      <4>1. Other(l[1]) = p /\ l[2] = k
        BY <1>1, <1>2, <3>3
      <4>2. PutOf[l] = sent[p][k]
        BY <4>1 DEF PutOf
      <4>3. f[l] = Append(PutOf[l], m)
        BY <2>1, <3>3 DEF PutOf
      <4> QED BY <4>1, <4>2, <4>3
    <3>4. CASE l # x
      <4>1. f[l] = PutOf[l]
        BY <2>1, <3>4 DEF PutOf
      <4>2. Other(l[1]) # p \/ l[2] # k
        BY <1>1, <1>2, <3>1, <3>4
      <4>3. sent'[Other(l[1])][l[2]] = sent[Other(l[1])][l[2]]
        BY <3>1, <3>2, <4>2
      <4> QED BY <4>1, <4>3 DEF PutOf
    <3> QED BY <3>3, <3>4
  <2>3. f = [l \in Peer \X Pipe |-> f[l]]
    BY <2>1 DEF PutOf
  <2> QED BY <2>1, <2>2, <2>3 DEF PutOf
<1>4. m \in Message
  BY DEF MsgOn, Message
<1>5. Promise!Put(x, m)
  BY <1>3 DEF Promise!Put, PutOf
<1> QED BY <1>4, <1>5 DEF Promise!Next

LEMMA MapsTake ==
  ASSUME NEW p \in Peer, NEW k \in Pipe, NEW m \in Seq(MsgBlob),
         got \in [Peer -> [Pipe -> Seq(Seq(MsgBlob))]],
         got' = [got EXCEPT ![p][k] = Append(@, m)],
         UNCHANGED sent, Delivered(p, k)'
  PROVE  Promise!Next
<1>1. PICK x \in Peer \X Pipe : x = <<p, k>>
  OBVIOUS
<1>2. PICK g \in Seq(Seq(MsgBlob)) : g = got[p][k]
  OBVIOUS
<1>3. PICK h \in Seq(Seq(MsgBlob)) : h = Append(g, m)
  BY AppendProperties
<1>4. PICK n \in Nat : n = Len(g)
  BY LenProperties
<1>5. Len(h) = n + 1 /\ h[n + 1] = m
  BY <1>3, <1>4, AppendProperties
<1>6. /\ got'[p][k] = h
      /\ \A q \in Peer, j \in Pipe : q # p \/ j # k => got'[q][j] = got[q][j]
  <2>1. got' = [got EXCEPT ![p][k] = h]
    BY <1>2, <1>3
  <2> QED BY <2>1, OneChanged, SMTT(40)
<1>7. PICK s : s = sent[Other(p)][k]
  OBVIOUS
<1>8. n + 1 <= Len(s) /\ m = s[n + 1]
  <2>1. Len(h) <= Len(s) /\ \A j \in 1..Len(h) : h[j] = s[j]
    BY <1>6, <1>7 DEF Delivered
  <2>2. n + 1 \in 1..(n + 1)
    OBVIOUS
  <2> QED BY <1>5, <2>1, <2>2
<1>9. PutOf[x] = s /\ TakenOf[x] = g
  BY <1>1, <1>2, <1>7 DEF PutOf, TakenOf
<1>10. n < Len(s)
  <2>1. PICK ls : ls = Len(s)
    OBVIOUS
  <2> QED BY <1>8
<1>11. TakenOf' = [TakenOf EXCEPT ![x] = Append(@, PutOf[x][Len(@) + 1])]
  <2>1. PICK f : f = [TakenOf EXCEPT ![x] = Append(@, PutOf[x][Len(@) + 1])]
    OBVIOUS
  <2>2. ASSUME NEW l \in Peer \X Pipe
        PROVE  got'[l[1]][l[2]] = f[l]
    <3>1. l[1] \in Peer /\ l[2] \in Pipe /\ l = <<l[1], l[2]>>
      OBVIOUS
    <3>2. CASE l = x
      <4>1. l[1] = p /\ l[2] = k
        BY <1>1, <3>2
      <4>2. f[l] = Append(TakenOf[x], PutOf[x][Len(TakenOf[x]) + 1])
        BY <2>1, <3>2 DEF TakenOf
      <4>3. f[l] = h
        BY <1>3, <1>4, <1>8, <1>9, <4>2
      <4> QED BY <1>6, <4>1, <4>3
    <3>3. CASE l # x
      <4>1. f[l] = TakenOf[l]
        BY <2>1, <3>3 DEF TakenOf
      <4>2. l[1] # p \/ l[2] # k
        BY <1>1, <3>1, <3>3
      <4>3. got'[l[1]][l[2]] = got[l[1]][l[2]]
        BY <1>6, <3>1, <4>2
      <4> QED BY <4>1, <4>3 DEF TakenOf
    <3> QED BY <3>2, <3>3
  <2>3. f = [l \in Peer \X Pipe |-> f[l]]
    BY <2>1 DEF TakenOf
  <2> QED BY <2>1, <2>2, <2>3 DEF TakenOf
<1>12. Len(TakenOf[x]) < Len(PutOf[x]) /\ UNCHANGED PutOf
  BY <1>4, <1>9, <1>10 DEF PutOf
<1>13. Promise!Take(x)
  BY <1>11, <1>12 DEF Promise!Take, PutOf, TakenOf
<1> QED BY <1>13 DEF Promise!Next

LEMMA MapsSend ==
  ASSUME Inv, NEW p \in Peer,
         \/ Inform(p)
         \/ \E h \in BOOLEAN, n \in 1..MaxSeg : Send(p, h, n)
  PROVE  Promise!Next
<1>1. ASSUME NEW k \in Pipe, NEW m \in MsgOn(k), UNCHANGED got,
             sent' = [sent EXCEPT ![p][k] = Append(@, m)]
      PROVE  Promise!Next
  <2>1. sent \in [Peer -> [Pipe -> Seq(Seq(MsgBlob))]]
    BY DEF Inv, TypeOK
  <2>2. PICK v \in Seq(Seq(MsgBlob)) : v = Append(sent[p][k], m)
    <3>1. m \in Seq(MsgBlob)
      BY MsgOnBlobs
    <3>2. PICK s \in Seq(Seq(MsgBlob)) : s = sent[p][k]
      BY <2>1
    <3>3. Append(s, m) \in Seq(Seq(MsgBlob))
      BY <3>1, AppendProperties
    <3> QED BY <3>2, <3>3
  <2>3. /\ sent'[p][k] = v
        /\ \A q \in Peer, j \in Pipe : q # p \/ j # k => sent'[q][j] = sent[q][j]
    <3>1. sent' = [sent EXCEPT ![p][k] = v]
      BY <1>1, <2>2
    <3> QED BY <2>1, <3>1, OneChanged
  <2> QED BY <1>1, <2>2, <2>3, MapsPut
<1>2. CASE Inform(p)
  <2>1. PICK k \in Pipe : k = PipeFor(FALSE)
    BY PipeForIsPipe
  <2>2. PICK m \in MsgOn(k) : m = Blobs(0, FALSE, 0)
    BY <2>1, MsgOfInform
  <2> QED BY <1>1, <1>2, <2>1, <2>2 DEF Inform
<1>3. ASSUME NEW h \in BOOLEAN, NEW n \in 1..MaxSeg, Send(p, h, n)
      PROVE  Promise!Next
  <2>1. PICK k \in Pipe : k = PipeFor(h)
    BY PipeForIsPipe
  <2>2. PICK m \in MsgOn(k) : m = Blobs(sndNext[p], h, n)
    BY <1>3, <2>1, MsgOfSend DEF Send, Sendable, Inv
  <2> QED BY <1>1, <1>3, <2>1, <2>2 DEF Send
<1> QED BY <1>2, <1>3

LEMMA MapsRead ==
  ASSUME Inv, StreamInv', NEW p \in Peer, NEW k \in Pipe,
         ReadLead(p, k) \/ ReadCont(p, k)
  PROVE  [Promise!Next]_Promise!vars
<1>1. wire[p][k] # <<>> /\ step[p][k] \in {"lead", "cont"} /\ UNCHANGED sent
  BY DEF ReadLead, ReadCont, Yields
<1>2. PICK b \in MsgBlob : b = Head(wire[p][k])
  <2>1. wire[p][k] \in Seq(MsgBlob)
    BY <1>1 DEF Inv, Chains, Framed
  <2> QED BY <1>1, <2>1
<1>3. PICK u \in Seq(MsgBlob) : u = msgIn[p][k]
  BY DEF Inv, TypeOK
<1>4. UNCHANGED got \/ \E m \in {<<b>>, Append(u, b)} : Whole(p, k, m)
  BY <1>2, <1>3 DEF ReadLead, ReadCont, Misfit, Part
<1>5. CASE UNCHANGED got
  BY <1>1, <1>5 DEF Promise!vars
<1>6. ASSUME NEW m \in {<<b>>, Append(u, b)}, Whole(p, k, m)
      PROVE  Promise!Next
  <2>1. m \in Seq(MsgBlob)
    <3>1. Append(u, b) \in Seq(MsgBlob) /\ <<b>> \in Seq(MsgBlob)
      BY AppendProperties
    <3> QED BY <3>1
  <2>2. got' = [got EXCEPT ![p][k] = Append(@, m)] /\ Delivered(p, k)'
    BY <1>6 DEF Whole, StreamInv
  <2>3. got \in [Peer -> [Pipe -> Seq(Seq(MsgBlob))]]
    BY DEF Inv, TypeOK
  <2> QED BY <1>1, <2>1, <2>2, <2>3, MapsTake
<1> QED BY <1>4, <1>5, <1>6

LEMMA MapsNext == FlowInv /\ FlowInv' /\ [Next]_vars => [Promise!Next]_Promise!vars
<1> SUFFICES ASSUME FlowInv, FlowInv', [Next]_vars
             PROVE  [Promise!Next]_Promise!vars
  OBVIOUS
<1>1. ASSUME UNCHANGED <<sent, got>> PROVE [Promise!Next]_Promise!vars
  BY <1>1 DEF Promise!vars
<1>2. CASE UNCHANGED vars
  BY <1>1, <1>2 DEF vars
<1>3. ASSUME NEW p \in Peer, UserStep(p) PROVE [Promise!Next]_Promise!vars
  <2>1. \/ UNCHANGED <<sent, got>>
        \/ Inform(p) \/ \E h \in BOOLEAN, n \in 1..MaxSeg : Send(p, h, n)
    BY <1>3 DEF UserStep, StartOps, StartAndPoll, SendMeetsNegError,
                SendAfterEnd, SendFails, EndSending
  <2> QED BY <1>1, <2>1, MapsSend DEF FlowInv
<1>4. ASSUME NEW p \in Peer, NEW k \in Pipe, ReadStep(p, k) \/ Break(p, k)
      PROVE  [Promise!Next]_Promise!vars
  <2>1. UNCHANGED <<sent, got>> \/ ReadLead(p, k) \/ ReadCont(p, k)
    BY <1>4 DEF ReadStep, Break, ReadNotice, ReadOnHosed, ReadFails
  <2> QED BY <1>1, <2>1, MapsRead DEF FlowInv
<1> QED BY <1>2, <1>3, <1>4 DEF Next

(* What the read chain of each pipe hands over are the messages put on it, *)
(* whole, in order and once each: Framing implements WholePipe, which is   *)
(* what StructChannel takes a pipe to be.                                  *)
THEOREM FramingImplementsWholePipe == Spec => ImplementsWholePipe
<1>1. Init => Promise!Init
  BY OtherPeer DEF Init, Promise!Init
<1> QED BY <1>1, FlowInit, FlowNext, MapsNext, PTL
        DEF Spec, ImplementsWholePipe, Promise!Spec

=============================================================================
