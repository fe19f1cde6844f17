--------------------------- MODULE Framing_proofs ---------------------------
(***************************************************************************)
(* Proofs, for every number of messages and segments, every pair of builds *)
(* and for one pipe or two, of what FramingProps states.                   *)
(***************************************************************************)
EXTENDS FramingProps, SequenceTheorems, TLAPS

Steps == {"off", "notice", "lead", "cont", "stop"}

(* The peers face each other.                                              *)
LEMMA OtherPeer == \A p \in Peer : Other(p) \in Peer /\ Other(Other(p)) = p
<1>1. \A p \in Peer : \E q \in Peer : q # p
  BY DEF Peer
<1> QED BY <1>1 DEF Other, Peer

LEMMA OtherTwo ==
  \A p \in Peer : \/ p = "cli" /\ Other(p) = "srv"
                  \/ p = "srv" /\ Other(p) = "cli"
<1>1. \A p \in Peer : \E q \in Peer : q # p
  BY DEF Peer
<1> QED BY <1>1 DEF Other, Peer

LEMMA PipeForIsPipe == ASSUME NEW h \in BOOLEAN PROVE PipeFor(h) \in Pipe
BY ConstantsAssumption DEF PipeFor, TwoPipes

(* The blobs of a message, and of a part of one.                           *)
LEMMA BlobsTyped ==
  ASSUME NEW id \in Nat, NEW h \in BOOLEAN, NEW n \in Nat
  PROVE  /\ Blobs(id, h, n) \in Seq(MsgBlob)
         /\ Len(Blobs(id, h, n)) = n + 1
<1> DEFINE tail == [i \in 1..n |-> Cont(id, i)]
           first == <<Lead(id, h, n)>>
<1>1. \A i \in 1..n : Cont(id, i) \in MsgBlob
  BY DEF Cont, MsgBlob
<1>2. tail \in Seq(MsgBlob) /\ Len(tail) = n
  BY <1>1
<1>3. Lead(id, h, n) \in MsgBlob
  BY DEF Lead, MsgBlob
<1>4. first \in Seq(MsgBlob) /\ Len(first) = 1
  BY <1>3
<1> HIDE DEF first, tail
<1>5. first \o tail \in Seq(MsgBlob) /\ Len(first \o tail) = 1 + n
  BY <1>2, <1>4, ConcatProperties
<1> QED BY <1>5 DEF Blobs, first, tail

(* Blobs of messages put behind what is on the wire.                       *)
LEMMA GrownWire ==
  ASSUME NEW s \in Seq(Blob), NEW m \in Seq(MsgBlob)
  PROVE  /\ s \o m \in Seq(Blob)
         /\ s \in Seq(MsgBlob) => s \o m \in Seq(MsgBlob)
         /\ s # <<>> /\ Tail(s) \in Seq(MsgBlob) =>
              /\ s \o m # <<>> /\ Head(s \o m) = Head(s)
              /\ Tail(s \o m) \in Seq(MsgBlob)
<1>1. m \in Seq(Blob)
  BY DEF Blob
<1>2. /\ s \o m \in Seq(Blob) /\ Len(s \o m) = Len(s) + Len(m)
      /\ \A i \in 1..Len(s) + Len(m) :
           (s \o m)[i] = IF i <= Len(s) THEN s[i] ELSE m[i - Len(s)]
  BY <1>1, ConcatProperties, Zenon
<1>3. s \in Seq(MsgBlob) => s \o m \in Seq(MsgBlob)
  BY ConcatProperties, Zenon
<1>4. ASSUME s # <<>>, Tail(s) \in Seq(MsgBlob)
      PROVE  /\ s \o m # <<>> /\ Head(s \o m) = Head(s)
             /\ Tail(s \o m) \in Seq(MsgBlob)
  <2> DEFINE t == s \o m
  <2>1. Len(s) \in Nat \ {0} /\ Len(m) \in Nat /\ Len(t) # 0
    BY <1>2, <1>4, EmptySeq
  <2>2. t # <<>> /\ Head(t) = t[1] /\ Head(s) = s[1] /\ t[1] = s[1]
    BY <1>2, <1>4, <2>1, HeadTailProperties
  <2>3. /\ Len(Tail(t)) = Len(t) - 1
        /\ \A i \in 1..Len(Tail(t)) : Tail(t)[i] = t[i + 1]
        /\ Tail(t) \in Seq(Blob)
    BY <1>2, <2>2, HeadTailProperties
  <2>4. /\ Len(Tail(s)) = Len(s) - 1
        /\ \A i \in 1..Len(Tail(s)) : Tail(s)[i] = s[i + 1]
    BY <1>4, HeadTailProperties
  <2> HIDE DEF t
  <2>5. \A i \in 1..Len(Tail(t)) : Tail(t)[i] \in MsgBlob
    <3> TAKE i \in 1..Len(Tail(t))
    <3>1. CASE i + 1 <= Len(s)
      <4>1. i \in 1..Len(Tail(s)) /\ Tail(t)[i] = Tail(s)[i]
        BY <1>2, <2>1, <2>3, <2>4, <3>1 DEF t
      <4> QED BY <1>4, <4>1
    <3>2. CASE i + 1 > Len(s)
      <4>1. i + 1 - Len(s) \in 1..Len(m) /\ Tail(t)[i] = m[i + 1 - Len(s)]
        BY <1>2, <2>1, <2>3, <3>2 DEF t
      <4> QED BY <4>1
    <3> QED BY <2>1, <3>1, <3>2
  <2>6. Tail(t) \in Seq(MsgBlob)
    <3> DEFINE u == Tail(t)
    <3>1. u \in [1..Len(u) -> Blob] /\ Len(u) \in Nat
      BY <2>3, LenProperties
    <3>2. \A i \in 1..Len(u) : u[i] \in MsgBlob
      BY <2>5
    <3> HIDE DEF u
    <3>3. u \in [1..Len(u) -> MsgBlob]
      BY <3>1, <3>2
    <3>4. u \in Seq(MsgBlob)
      BY <3>1, <3>3, SeqDef
    <3> QED BY <3>4 DEF u
  <2> QED BY <2>2, <2>6 DEF t
<1> QED BY <1>2, <1>3, <1>4

(* What is kept for every pipe of every peer, changed for one of them.     *)
LEMMA OneChanged ==
  ASSUME NEW S, NEW f \in [Peer -> [Pipe -> S]], NEW p \in Peer, NEW k \in Pipe,
         NEW v \in S
  PROVE  LET g == [f EXCEPT ![p][k] = v]
         IN  /\ g \in [Peer -> [Pipe -> S]] /\ g[p][k] = v
             /\ \A q \in Peer, j \in Pipe : q # p \/ j # k => g[q][j] = f[q][j]
<1> DEFINE r == [f[p] EXCEPT ![k] = v]
           g == [f EXCEPT ![p] = r]
<1>1. f[p] \in [Pipe -> S]
  OBVIOUS
<1>2. r \in [Pipe -> S] /\ r[k] = v /\ \A j \in Pipe : j # k => r[j] = f[p][j]
  BY <1>1
<1> HIDE DEF r
<1>3. g \in [Peer -> [Pipe -> S]] /\ g[p] = r
      /\ \A q \in Peer : q # p => g[q] = f[q]
  BY <1>2
<1>4. [f EXCEPT ![p][k] = v] = g
  BY DEF r
<1> HIDE DEF g
<1> QED BY <1>2, <1>3, <1>4

-----------------------------------------------------------------------------
(* The inductive invariant.  A chain runs only in a peer that is started   *)
(* and has sent its own notices.                                           *)
Starting(p, k) ==
  /\ step[p][k] # "off" => startedOps[p] /\ negErr[p] = "ok" /\ started[p]
  /\ got[p][k] # <<>> => step[p][k] # "off"

(* The first blob on a wire is the notice, every other one is a message's. *)
Framed(p, k) ==
  LET q == Other(p)
      s == wire[p][k]
  IN  /\ ~startedOps[q] => s = <<>> /\ step[p][k] \notin {"lead", "cont"}
      /\ step[p][k] \in {"off", "notice"} =>
           /\ s # <<>> => /\ Head(s) = Notice(build[q].max)
                          /\ Tail(s) \in Seq(MsgBlob)
           /\ startedOps[q] /\ negErr[q] = "ok" => s # <<>>
      /\ step[p][k] \in {"lead", "cont"} => s \in Seq(MsgBlob)

(* What p runs speaks the lower of the two newest versions.                *)
Compatible(p) == \A i \in {1, 2} : Speaks(p, i, Common(i))

(* What p has negotiated is that version.  The auxiliary protocol may yet  *)
(* prove to be too old; then the channel is hosed and p reads no message.  *)
Agreed(p) ==
  /\ negotiated[p] # Unknown => negotiated[p] = Common(1)
  /\ negotiated[p] # Unknown /\ err[p] = "ok" => Compatible(p)
  /\ \A k \in Pipe : step[p][k] \in {"lead", "cont"} \/ got[p][k] # <<>>
                       => negotiated[p] # Unknown /\ Compatible(p)

Chains == \A p \in Peer, k \in Pipe : Starting(p, k) /\ Framed(p, k)

Inv == TypeOK /\ Chains /\ \A p \in Peer : Agreed(p)

LEMMA InvInit == Init => Inv
<1> SUFFICES ASSUME Init PROVE Inv
  OBVIOUS
<1>1. TypeOK
  BY DEF Init, TypeOK, Unknown
<1>2. Chains
  BY OtherPeer DEF Init, Chains, Starting, Framed
<1>3. \A p \in Peer : Agreed(p)
  BY DEF Init, Agreed
<1> QED BY <1>1, <1>2, <1>3 DEF Inv

LEMMA BuildTyped ==
  ASSUME TypeOK, NEW p \in Peer
  PROVE  build[p].min \in Version /\ build[p].max \in Version
BY ConstantsAssumption DEF TypeOK

-----------------------------------------------------------------------------
(* A step that reads nothing and negotiates nothing leaves Agreed.         *)
LEMMA AgreedKept ==
  ASSUME \A p \in Peer : Agreed(p), UNCHANGED <<build, negotiated, got>>,
         \A p \in Peer : err'[p] = "ok" => err[p] = "ok",
         \A p \in Peer, k \in Pipe : step'[p][k] \in {"lead", "cont"}
                                       => step[p][k] \in {"lead", "cont"}
  PROVE  \A p \in Peer : Agreed(p)'
BY DEF Agreed, Compatible, Speaks, Common

LEMMA ErrorTyped ==
  ASSUME TypeOK, NEW p \in Peer, NEW e \in PipeErrors \cup Misfits,
         NEW how \in {"posted", "told"}, NewError(p, e, how)
  PROVE  /\ err' \in [Peer -> {"ok"} \cup PipeErrors \cup Misfits]
         /\ onErr' \in [Peer -> {"none", "posted", "told"}]
         /\ \A q \in Peer : err'[q] = "ok" => err[q] = "ok"
<1>1. e # "ok"
  BY DEF PipeErrors, Misfits
<1> HIDE DEF PipeErrors, Misfits
<1> QED BY <1>1 DEF NewError, TypeOK

Puts(p, k, m) == wire' = [wire EXCEPT ![Other(p)][k] = @ \o m]

(* A peer that has sent its notices puts blobs of messages on a wire.      *)
LEMMA ChainsSend ==
  ASSUME Inv, NEW p \in Peer, NEW k \in Pipe, NEW m \in Seq(MsgBlob),
         startedOps[p], negErr[p] = "ok",
         Puts(p, k, m),
         UNCHANGED <<ownVars, step, got>>
  PROVE  wire' \in [Peer -> [Pipe -> Seq(Blob)]] /\ Chains'
<1>1. PICK o \in Peer : o = Other(p) /\ Other(o) = p
  BY OtherPeer
<1>2. wire \in [Peer -> [Pipe -> Seq(Blob)]]
  BY DEF Inv, TypeOK
<1>3. PICK v \in Seq(Blob) : v = wire[o][k] \o m
  <2>1. wire[o][k] \in Seq(Blob)
    BY <1>2
  <2> QED BY <2>1, GrownWire
<1>4. wire' = [wire EXCEPT ![o][k] = v]
  BY <1>1, <1>3 DEF Puts
<1>5. /\ wire' \in [Peer -> [Pipe -> Seq(Blob)]]
      /\ wire'[o][k] = v
      /\ \A q \in Peer, j \in Pipe : q # o \/ j # k => wire'[q][j] = wire[q][j]
  BY <1>2, <1>4, OneChanged
<1>6. ASSUME NEW q \in Peer, NEW j \in Pipe PROVE Framed(q, j)'
  <2>1. Framed(q, j)
    BY DEF Inv, Chains
  <2>2. CASE q = o /\ j = k
    <3>1. wire'[q][j] = wire[q][j] \o m /\ wire[q][j] \in Seq(Blob)
      BY <1>2, <1>3, <1>5, <2>2
    <3>2. step[q][j] \in {"off", "notice"} => wire[q][j] # <<>>
      BY <1>1, <2>1, <2>2 DEF Framed
    <3>3. startedOps[Other(q)]
      BY <1>1, <2>2
    <3> QED BY <2>1, <3>1, <3>2, <3>3, GrownWire DEF Framed, ownVars
  <2>3. CASE ~(q = o /\ j = k)
    <3>1. wire'[q][j] = wire[q][j]
      BY <1>5, <2>3
    <3> QED BY <2>1, <3>1 DEF Framed, ownVars
  <2> QED BY <2>2, <2>3
<1>7. \A q \in Peer, j \in Pipe : Starting(q, j)'
  BY DEF Inv, Chains, Starting, ownVars
<1> QED BY <1>5, <1>6, <1>7 DEF Chains

(* A chain reads a blob, or fails to.                                      *)
LEMMA ChainsRead ==
  ASSUME Inv, NEW p \in Peer, NEW k \in Pipe, NEW to \in {"lead", "cont", "stop"},
         step[p][k] \in {"notice", "lead", "cont"}, Goes(p, k, to),
         \/ wire[p][k] # <<>> /\ Takes(p, k)
         \/ to = "stop" /\ UNCHANGED wire,
         \A q \in Peer, j \in Pipe : q # p \/ j # k => got'[q][j] = got[q][j],
         UNCHANGED ownVars
  PROVE  /\ wire' \in [Peer -> [Pipe -> Seq(Blob)]]
         /\ step' \in [Peer -> [Pipe -> Steps]]
         /\ Chains'
<1>1. /\ wire \in [Peer -> [Pipe -> Seq(Blob)]]
      /\ step \in [Peer -> [Pipe -> Steps]]
  BY DEF Inv, TypeOK, Steps
<1>2. to \in Steps /\ to # "off"
  BY DEF Steps
<1>3. /\ step' \in [Peer -> [Pipe -> Steps]] /\ step'[p][k] = to
      /\ \A q \in Peer, j \in Pipe : q # p \/ j # k => step'[q][j] = step[q][j]
  BY <1>1, <1>2, OneChanged DEF Goes
<1>4. wire[p][k] # <<>> => Tail(wire[p][k]) \in Seq(Blob)
  <2>1. wire[p][k] \in Seq(Blob)
    BY <1>1
  <2> QED BY <2>1
<1>5. ASSUME wire[p][k] # <<>>, Takes(p, k)
      PROVE  /\ wire' \in [Peer -> [Pipe -> Seq(Blob)]]
             /\ wire'[p][k] = Tail(wire[p][k])
             /\ \A q \in Peer, j \in Pipe : q # p \/ j # k
                  => wire'[q][j] = wire[q][j]
  <2>1. wire' = [wire EXCEPT ![p][k] = Tail(wire[p][k])]
    BY <1>5 DEF Takes
  <2> QED BY <1>1, <1>4, <1>5, <2>1, OneChanged
<1>6. /\ wire' \in [Peer -> [Pipe -> Seq(Blob)]]
      /\ \A q \in Peer, j \in Pipe : q # p \/ j # k => wire'[q][j] = wire[q][j]
  BY <1>1, <1>5
<1>7. \/ wire[p][k] # <<>> /\ wire'[p][k] = Tail(wire[p][k])
      \/ to = "stop" /\ wire'[p][k] = wire[p][k]
  BY <1>5
<1>8. Starting(p, k)' /\ Framed(p, k)'
  <2>1. Starting(p, k) /\ Framed(p, k)
    BY DEF Inv, Chains
  <2>2. Starting(p, k)'
    BY <1>2, <1>3, <2>1 DEF Starting, ownVars
  <2>3. CASE to = "stop"
    <3>1. ~startedOps[Other(p)] => wire[p][k] = <<>> /\ wire'[p][k] = <<>>
      BY <1>7, <2>1 DEF Framed
    <3> QED BY <1>3, <2>2, <2>3, <3>1 DEF Framed, ownVars
  <2>4. CASE to # "stop"
    <3>1. wire[p][k] # <<>> /\ wire'[p][k] = Tail(wire[p][k])
      BY <1>7, <2>4
    <3>2. Tail(wire[p][k]) \in Seq(MsgBlob)
      <4>1. CASE step[p][k] = "notice"
        BY <2>1, <3>1, <4>1 DEF Framed
      <4>2. CASE step[p][k] # "notice"
        <5>1. wire[p][k] \in Seq(MsgBlob)
          BY <2>1, <4>2 DEF Framed
        <5> QED BY <3>1, <5>1
      <4> QED BY <4>1, <4>2
    <3>3. startedOps[Other(p)]
      BY <2>1, <3>1 DEF Framed
    <3> QED BY <1>3, <2>2, <2>4, <3>1, <3>2, <3>3 DEF Framed, ownVars
  <2> QED BY <2>2, <2>3, <2>4
<1>9. ASSUME NEW q \in Peer, NEW j \in Pipe, q # p \/ j # k
      PROVE  Starting(q, j)' /\ Framed(q, j)'
  <2>1. step'[q][j] = step[q][j] /\ wire'[q][j] = wire[q][j]
        /\ got'[q][j] = got[q][j]
    BY <1>3, <1>6, <1>9
  <2> QED BY <2>1 DEF Inv, Chains, Starting, Framed, ownVars
<1> QED BY <1>3, <1>6, <1>8, <1>9 DEF Chains

-----------------------------------------------------------------------------
LEMMA InvStartOps ==
  ASSUME Inv, NEW p \in Peer, StartOps(p) PROVE Inv'
<1> DEFINE o == Other(p)
           n == Notice(build[p].max)
<1>1. o \in Peer /\ o # p /\ Other(o) = p
  BY OtherPeer DEF Other, Peer
<1>2. n \in Blob
  BY BuildTyped DEF Inv, Notice, Blob
<1>3. wire \in [Peer -> [Pipe -> Seq(Blob)]]
  BY DEF Inv, TypeOK
<1> HIDE DEF o, n
<1>4. wire' = [wire EXCEPT ![o] = [k \in Pipe |->
                IF k \in Noticed(p) THEN Append(wire[o][k], n) ELSE wire[o][k]]]
  BY <1>1, <1>3 DEF StartOps, o, n
<1>5. \A k \in Pipe : Append(wire[o][k], n) \in Seq(Blob)
  BY <1>1, <1>2, <1>3
<1>6. wire' \in [Peer -> [Pipe -> Seq(Blob)]]
  BY <1>1, <1>3, <1>4, <1>5
<1>7. TypeOK'
  BY <1>6
  DEF StartOps, Inv, TypeOK, errVars, readVars
<1>8. \A k \in Pipe : step[p][k] = "off" /\ got[p][k] = <<>>
  BY DEF StartOps, Inv, Chains, Starting
<1>9. ASSUME NEW q \in Peer, NEW k \in Pipe
      PROVE  Starting(q, k)' /\ Framed(q, k)'
  <2>1. Starting(q, k) /\ Framed(q, k)
    BY DEF Inv, Chains
  <2>2. UNCHANGED <<build, step, got, started>>
    BY DEF StartOps, readVars
  <2>3. /\ startedOps' = [startedOps EXCEPT ![p] = TRUE]
        /\ negErr' = [negErr EXCEPT ![p] = IF Noticed(p) = Pipe THEN "ok"
                                                                ELSE "SEND"]
        /\ startedOps \in [Peer -> BOOLEAN]
        /\ negErr \in [Peer -> {"ok", "SEND"}]
    BY DEF StartOps, Inv, TypeOK
  <2>4. Starting(q, k)'
    BY <1>8, <2>1, <2>2, <2>3 DEF Starting
  <2>5. CASE q = p
    <3>1. wire'[p][k] = wire[p][k] /\ startedOps'[o] = startedOps[o]
          /\ negErr'[o] = negErr[o]
      BY <1>1, <1>3, <1>4, <2>3
    <3> QED BY <2>1, <2>2, <2>4, <2>5, <3>1 DEF Framed, o
  <2>6. CASE q = o
    <3>1. wire[o][k] = <<>>
      BY <1>1, <2>1, <2>6 DEF Framed, StartOps
    <3>2. wire'[o][k] = IF k \in Noticed(p) THEN <<n>> ELSE <<>>
      <4>1. wire'[o][k] = IF k \in Noticed(p) THEN Append(wire[o][k], n)
                                               ELSE wire[o][k]
        BY <1>1, <1>3, <1>4
      <4> QED BY <3>1, <4>1
    <3>3. startedOps'[p] /\ (negErr'[p] = "ok" => k \in Noticed(p))
      BY <2>3
    <3>5. step'[o][k] = step[o][k] /\ build'[p] = build[p]
          /\ step[o][k] \notin {"lead", "cont"}
      BY <1>1, <2>1, <2>2, <2>6 DEF Framed, StartOps
    <3>4. /\ <<n>> # <<>> /\ Head(<<n>>) = n /\ Tail(<<n>>) = <<>>
          /\ <<>> \in Seq(MsgBlob)
      OBVIOUS
    <3> QED
      BY <1>1, <2>2, <2>4, <2>6, <3>2, <3>3, <3>4, <3>5 DEF Framed, n
  <2> QED BY <1>1, <2>5, <2>6 DEF Peer
<1>10. \A q \in Peer : Agreed(q)'
  BY AgreedKept DEF StartOps, Inv, errVars, readVars
<1> QED BY <1>7, <1>9, <1>10 DEF Inv, Chains

LEMMA InvStartAndPoll ==
  ASSUME Inv, NEW p \in Peer, StartAndPoll(p) PROVE Inv'
<1>1. UNCHANGED <<build, startedOps, negErr, negotiated, sndNext, left, msgIn,
                  wire, broken, ended, sent, got>>
      /\ started' = [started EXCEPT ![p] = TRUE] /\ startedOps[p]
  BY DEF StartAndPoll
<1>2. CASE UNCHANGED step /\ \E e \in PipeErrors : NewError(p, e, "posted")
  <2>1. TypeOK'
    BY <1>1, <1>2, ErrorTyped DEF Inv, TypeOK
  <2>2. Chains'
    BY <1>1, <1>2 DEF Inv, Chains, Starting, Framed
  <2>3. \A q \in Peer : Agreed(q)'
    BY <1>1, <1>2, ErrorTyped, AgreedKept DEF Inv
  <2> QED BY <2>1, <2>2, <2>3 DEF Inv
<1>3. CASE /\ negErr[p] = "ok" /\ UNCHANGED errVars
           /\ step' = [step EXCEPT ![p] = [k \in Pipe |-> "notice"]]
  <2>0. step \in [Peer -> [Pipe -> Steps]]
    BY DEF Inv, TypeOK, Steps
  <2>1. /\ step' \in [Peer -> [Pipe -> Steps]]
        /\ \A k \in Pipe : step'[p][k] = "notice"
        /\ \A q \in Peer \ {p} : step'[q] = step[q]
    BY <1>3, <2>0 DEF Steps
  <2>2. TypeOK'
    BY <1>1, <1>3, <2>1 DEF Inv, TypeOK, errVars, Steps
  <2>3. \A k \in Pipe : step[p][k] = "off" /\ got[p][k] = <<>>
    BY DEF StartAndPoll, Inv, Chains, Starting
  <2>4. ASSUME NEW q \in Peer, NEW k \in Pipe
        PROVE  Starting(q, k)' /\ Framed(q, k)'
    <3>1. Starting(q, k) /\ Framed(q, k)
      BY DEF Inv, Chains
    <3>2. Starting(q, k)'
      BY <1>1, <1>3, <2>1, <2>3, <3>1 DEF Starting, Inv, TypeOK
    <3>3. \/ step'[q][k] = step[q][k]
          \/ step'[q][k] = "notice" /\ step[q][k] = "off"
      BY <2>1, <2>3
    <3> QED BY <1>1, <3>1, <3>2, <3>3 DEF Framed
  <2>5. \A q \in Peer : Agreed(q)'
    BY <1>1, <1>3, <2>1, AgreedKept DEF Inv, errVars
  <2> QED BY <2>2, <2>4, <2>5 DEF Inv, Chains
<1>4. "ALLOC_FAILED" \in PipeErrors
      /\ (negErr[p] # "ok" => negErr[p] \in PipeErrors)
  BY DEF Inv, TypeOK, PipeErrors
<1> QED BY <1>2, <1>3, <1>4 DEF StartAndPoll

-----------------------------------------------------------------------------
LEMMA SpendTyped ==
  ASSUME TypeOK, NEW p \in Peer, Spend(p)
  PROVE  sndNext' \in [Peer -> Nat \ {0}]
BY DEF TypeOK, Spend

LEMMA SentTyped ==
  ASSUME TypeOK, NEW p \in Peer, NEW k \in Pipe, NEW m \in Seq(MsgBlob),
         sent' = [sent EXCEPT ![p][k] = Append(@, m)]
  PROVE  sent' \in [Peer -> [Pipe -> Seq(Seq(MsgBlob))]]
<1>1. sent \in [Peer -> [Pipe -> Seq(Seq(MsgBlob))]]
  BY DEF TypeOK
<1>2. Append(sent[p][k], m) \in Seq(Seq(MsgBlob))
  BY <1>1
<1> QED BY <1>1, <1>2, OneChanged

LEMMA InvSend ==
  ASSUME Inv, NEW p \in Peer, NEW h \in BOOLEAN, NEW n \in 1..MaxSeg,
         Send(p, h, n)
  PROVE  Inv'
<1>1. PICK k \in Pipe : k = PipeFor(h)
  BY PipeForIsPipe
<1>2. PICK m \in Seq(MsgBlob) : m = Blobs(sndNext[p], h, n)
  <2>1. n \in Nat /\ sndNext[p] \in Nat
    BY ConstantsAssumption DEF Inv, TypeOK
  <2> QED BY <2>1, BlobsTyped
<1>3. /\ startedOps[p] /\ negErr[p] = "ok" /\ Puts(p, k, m) /\ Spend(p)
      /\ sent' = [sent EXCEPT ![p][k] = Append(@, m)]
      /\ UNCHANGED <<ownVars, errVars, negotiated, readVars, broken, ended, got>>
  BY <1>1, <1>2 DEF Send, Sendable, Puts
<1>4. wire' \in [Peer -> [Pipe -> Seq(Blob)]] /\ Chains'
  BY <1>3, ChainsSend DEF readVars
<1>5. /\ sndNext' \in [Peer -> Nat \ {0}]
      /\ sent' \in [Peer -> [Pipe -> Seq(Seq(MsgBlob))]]
  BY <1>3, SpendTyped, SentTyped DEF Inv
<1>6. TypeOK'
  BY <1>3, <1>4, <1>5 DEF Inv, TypeOK, ownVars, errVars, readVars
<1>7. \A q \in Peer : Agreed(q)'
  BY <1>3, AgreedKept DEF Inv, ownVars, errVars, readVars
<1> QED BY <1>4, <1>6, <1>7 DEF Inv

LEMMA InvSendFails ==
  ASSUME Inv, NEW p \in Peer, NEW h \in BOOLEAN, NEW n \in 1..MaxSeg,
         NEW i \in 1..(n + 1), SendFails(p, h, n, i)
  PROVE  Inv'
<1>1. PICK k \in Pipe : k = PipeFor(h)
  BY PipeForIsPipe
<1>2. PICK m \in Seq(MsgBlob) : m = SubSeq(Blobs(sndNext[p], h, n), 1, i - 1)
  <2>1. n \in Nat /\ i \in 1..(n + 1) /\ sndNext[p] \in Nat
    BY ConstantsAssumption DEF Inv, TypeOK
  <2>2. PICK b \in Seq(MsgBlob) : b = Blobs(sndNext[p], h, n) /\ Len(b) = n + 1
    BY <2>1, BlobsTyped
  <2>3. SubSeq(b, 1, i - 1) \in Seq(MsgBlob)
    BY <2>1, <2>2
  <2> QED BY <2>2, <2>3
<1>3. /\ startedOps[p] /\ negErr[p] = "ok" /\ Puts(p, k, m) /\ Spend(p)
      /\ NewError(p, "SEND", "told")
      /\ UNCHANGED <<ownVars, negotiated, readVars, broken, ended, sent, got>>
  BY <1>1, <1>2 DEF SendFails, Sendable, Puts
<1>4. wire' \in [Peer -> [Pipe -> Seq(Blob)]] /\ Chains'
  BY <1>3, ChainsSend DEF readVars
<1>5. /\ sndNext' \in [Peer -> Nat \ {0}]
      /\ err' \in [Peer -> {"ok"} \cup PipeErrors \cup Misfits]
      /\ onErr' \in [Peer -> {"none", "posted", "told"}]
      /\ \A q \in Peer : err'[q] = "ok" => err[q] = "ok"
  <2>1. "SEND" \in PipeErrors
    BY DEF PipeErrors
  <2> QED BY <1>3, <2>1, SpendTyped, ErrorTyped DEF Inv
<1>6. TypeOK'
  BY <1>3, <1>4, <1>5 DEF Inv, TypeOK, ownVars, readVars
<1>7. \A q \in Peer : Agreed(q)'
  BY <1>3, <1>5, AgreedKept DEF Inv, ownVars, readVars
<1> QED BY <1>4, <1>6, <1>7 DEF Inv

LEMMA InvSendNot ==
  ASSUME Inv, NEW p \in Peer, SendMeetsNegError(p) \/ SendAfterEnd(p)
  PROVE  Inv'
<1>1. Spend(p) /\ UNCHANGED <<ownVars, negotiated, readVars, wire, broken,
                              ended, sent, got>>
  BY DEF SendMeetsNegError, SendAfterEnd
<1>2. /\ err' \in [Peer -> {"ok"} \cup PipeErrors \cup Misfits]
      /\ onErr' \in [Peer -> {"none", "posted", "told"}]
      /\ \A q \in Peer : err'[q] = "ok" => err[q] = "ok"
  <2>1. CASE SendAfterEnd(p)
    BY <2>1 DEF SendAfterEnd, errVars, Inv, TypeOK
  <2>2. CASE SendMeetsNegError(p)
    <3>1. negErr[p] \in PipeErrors /\ NewError(p, negErr[p], "told")
      BY <2>2 DEF SendMeetsNegError, Inv, TypeOK, PipeErrors
    <3> QED BY <3>1, ErrorTyped DEF Inv
  <2> QED BY <2>1, <2>2
<1>3. TypeOK'
  BY <1>1, <1>2, SpendTyped DEF Inv, TypeOK, ownVars, readVars
<1>4. Chains'
  BY <1>1 DEF Inv, Chains, Starting, Framed, ownVars, readVars
<1>5. \A q \in Peer : Agreed(q)'
  BY <1>1, <1>2, AgreedKept DEF Inv, ownVars, readVars
<1> QED BY <1>3, <1>4, <1>5 DEF Inv

LEMMA InvInform ==
  ASSUME Inv, NEW p \in Peer, Inform(p) PROVE Inv'
<1>1. PICK k \in Pipe : k = PipeFor(FALSE)
  BY PipeForIsPipe
<1>2. PICK m \in Seq(MsgBlob) : m = Blobs(0, FALSE, 0)
  BY BlobsTyped
<1>3. /\ Puts(p, k, m)
      /\ sent' = [sent EXCEPT ![p][k] = Append(@, m)]
      /\ UNCHANGED <<ownVars, errVars, negotiated, sndNext, readVars, broken,
                     ended, got>>
  BY <1>1, <1>2 DEF Inform, Puts
<1>4. startedOps[p] /\ negErr[p] = "ok"
  BY DEF Inform, Inv, Chains, Starting
<1>5. wire' \in [Peer -> [Pipe -> Seq(Blob)]] /\ Chains'
  BY <1>3, <1>4, ChainsSend DEF readVars
<1>6. TypeOK'
  BY <1>3, <1>5, SentTyped DEF Inv, TypeOK, ownVars, errVars, readVars
<1>7. \A q \in Peer : Agreed(q)'
  BY <1>3, AgreedKept DEF Inv, ownVars, errVars, readVars
<1> QED BY <1>5, <1>6, <1>7 DEF Inv

LEMMA InvLink ==
  ASSUME Inv, NEW p \in Peer, EndSending(p) \/ \E k \in Pipe : Break(p, k)
  PROVE  Inv'
<1>1. UNCHANGED <<ownVars, errVars, negotiated, sndNext, readVars, wire, sent,
                  got>>
  BY DEF EndSending, Break
<1>2. ended' \in [Peer -> BOOLEAN] /\ broken' \subseteq Peer \X Pipe
  <2>1. ended \in [Peer -> BOOLEAN] /\ broken \subseteq Peer \X Pipe
    BY DEF Inv, TypeOK
  <2>2. CASE EndSending(p)
    BY <2>1, <2>2 DEF EndSending
  <2>3. CASE \E k \in Pipe : Break(p, k)
    BY <2>1, <2>3 DEF Break
  <2> QED BY <2>2, <2>3
<1>3. TypeOK'
  BY <1>1, <1>2 DEF Inv, TypeOK, ownVars, errVars, readVars
<1>4. Chains'
  BY <1>1 DEF Inv, Chains, Starting, Framed, ownVars, readVars
<1>5. \A q \in Peer : Agreed(q)'
  BY <1>1, AgreedKept DEF Inv, ownVars, errVars, readVars
<1> QED BY <1>3, <1>4, <1>5 DEF Inv

-----------------------------------------------------------------------------
(* A chain that stops, having read a blob of no use or having failed.      *)
LEMMA InvStop ==
  ASSUME Inv, NEW p \in Peer, NEW k \in Pipe,
         step[p][k] \in {"notice", "lead", "cont"}, Stops(p, k),
         (wire[p][k] # <<>> /\ Takes(p, k)) \/ UNCHANGED wire,
         \/ UNCHANGED errVars
         \/ \E e \in PipeErrors \cup Misfits : NewError(p, e, "told"),
         UNCHANGED <<ownVars, negotiated, sndNext, broken, ended, sent, got>>
  PROVE  Inv'
<1>1. Goes(p, k, "stop") /\ UNCHANGED <<left, msgIn>>
  BY DEF Stops
<1>2. /\ wire' \in [Peer -> [Pipe -> Seq(Blob)]]
      /\ step' \in [Peer -> [Pipe -> Steps]]
      /\ Chains'
  BY <1>1, ChainsRead
<1>3. /\ err' \in [Peer -> {"ok"} \cup PipeErrors \cup Misfits]
      /\ onErr' \in [Peer -> {"none", "posted", "told"}]
      /\ \A q \in Peer : err'[q] = "ok" => err[q] = "ok"
  <2>1. CASE UNCHANGED errVars
    BY <2>1 DEF errVars, Inv, TypeOK
  <2> QED BY <2>1, ErrorTyped DEF Inv
<1>4. TypeOK'
  BY <1>1, <1>2, <1>3 DEF Inv, TypeOK, ownVars, Steps
<1>5. \A q \in Peer, j \in Pipe : step'[q][j] \in {step[q][j], "stop"}
  <2>1. step \in [Peer -> [Pipe -> Steps]] /\ "stop" \in Steps
    BY DEF Inv, TypeOK, Steps
  <2>2. \A q \in Peer, j \in Pipe : IF q = p /\ j = k THEN step'[q][j] = "stop"
                                    ELSE step'[q][j] = step[q][j]
    BY <1>1, <2>1, OneChanged DEF Goes
  <2> QED BY <2>2
<1>6. \A q \in Peer : Agreed(q)'
  BY <1>3, <1>5, AgreedKept DEF Inv, ownVars
<1> QED BY <1>2, <1>4, <1>6 DEF Inv

LEMMA InvReadNot ==
  ASSUME Inv, NEW p \in Peer, NEW k \in Pipe,
         ReadOnHosed(p, k) \/ ReadFails(p, k)
  PROVE  Inv'
<1>1. CASE ReadOnHosed(p, k)
  BY <1>1, InvStop DEF ReadOnHosed, Yields
<1>2. CASE ReadFails(p, k)
  <2>1. "RECEIVE" \in PipeErrors
    BY DEF PipeErrors
  <2>2. \/ UNCHANGED errVars
        \/ \E e \in PipeErrors \cup Misfits : NewError(p, e, "told")
    BY <1>2, <2>1 DEF ReadFails
  <2> QED BY <1>2, <2>2, InvStop DEF ReadFails
<1> QED BY <1>1, <1>2

(* What p negotiates is the lower of the two newest versions, if p speaks  *)
(* that one.                                                               *)
LEMMA NegotiatedIsSpoken ==
  ASSUME TypeOK, NEW p \in Peer, NEW i \in {1, 2}, NEW v \in Version,
         v = build[Other(p)].max, Negotiate(p, i, v) # Unknown
  PROVE  Negotiate(p, i, v) = Common(i) /\ Speaks(p, i, Common(i))
<1>1. \A q \in Peer : build[q].min[i] \in Nat /\ build[q].max[i] \in Nat
  BY BuildTyped DEF Version
<1>2. PICK a, b \in Nat : a = build[p].max[i] /\ b = v[i]
  BY <1>1, OtherPeer
<1>3. Common(i) = Lower(b, a)
  <2>1. \/ p = "cli" /\ Other(p) = "srv"
        \/ p = "srv" /\ Other(p) = "cli"
    BY OtherTwo
  <2>2. Lower(a, b) = Lower(b, a)
    BY DEF Lower
  <2> QED BY <1>2, <2>1, <2>2 DEF Common
<1>4. PICK c \in Nat : c = build[p].min[i]
  BY <1>1
<1>5. Negotiate(p, i, v) = Lower(b, a) /\ c <= Lower(b, a)
  <2>1. Lower(b, a) \in Nat
    BY DEF Lower
  <2> QED BY <1>2, <1>4, <2>1 DEF Negotiate
<1>6. Lower(b, a) <= a
  BY DEF Lower
<1> QED BY <1>2, <1>3, <1>4, <1>5, <1>6 DEF Speaks

LEMMA NegotiateTyped ==
  ASSUME TypeOK, NEW p \in Peer, NEW i \in {1, 2}, NEW v \in Version
  PROVE  Negotiate(p, i, v) \in Nat
<1>1. v[i] \in Nat /\ build[p].min[i] \in Nat /\ build[p].max[i] \in Nat
  BY BuildTyped DEF Version
<1> QED BY <1>1 DEF Negotiate, Lower, Unknown

LEMMA InvReadNotice ==
  ASSUME Inv, NEW p \in Peer, NEW k \in Pipe, ReadNotice(p, k)
  PROVE  Inv'
<1> DEFINE v == Head(wire[p][k]).ver
<1>1. /\ step[p][k] = "notice" /\ wire[p][k] # <<>> /\ Takes(p, k)
      /\ err[p] = "ok"
      /\ UNCHANGED <<ownVars, left, msgIn, sndNext, broken, ended, sent, got>>
  BY DEF ReadNotice, Yields
<1>2. v = build[Other(p)].max /\ v \in Version
  <2>1. Head(wire[p][k]) = Notice(build[Other(p)].max)
    BY <1>1 DEF Inv, Chains, Framed
  <2>2. build[Other(p)].max \in Version
    BY OtherPeer, BuildTyped DEF Inv
  <2> QED BY <2>1, <2>2 DEF Notice
<1>3. PICK to \in {"lead", "stop"} :
        /\ Goes(p, k, to)
        /\ \/ to = "lead" /\ negotiated[p] # Unknown
              /\ UNCHANGED <<negotiated, errVars>>
           \/ /\ negotiated[p] = Unknown
              /\ negotiated' = [negotiated EXCEPT ![p] = Negotiate(p, 1, v)]
              /\ \/ to = "stop" /\ NewError(p, "VERSION", "told")
                 \/ /\ to = "lead" /\ UNCHANGED errVars
                    /\ Unknown \notin {Negotiate(p, 1, v), Negotiate(p, 2, v)}
  BY DEF ReadNotice
<1> HIDE DEF v
<1>4. /\ wire' \in [Peer -> [Pipe -> Seq(Blob)]]
      /\ step' \in [Peer -> [Pipe -> Steps]]
      /\ Chains'
  BY <1>1, <1>3, ChainsRead
<1>5. negotiated' \in [Peer -> Nat]
      /\ \A q \in Peer : q # p => negotiated'[q] = negotiated[q]
  <2>1. Negotiate(p, 1, v) \in Nat
    BY <1>2, NegotiateTyped DEF Inv
  <2> QED BY <1>3, <2>1 DEF Inv, TypeOK
<1>6. /\ err' \in [Peer -> {"ok"} \cup PipeErrors \cup Misfits]
      /\ onErr' \in [Peer -> {"none", "posted", "told"}]
      /\ \A q \in Peer : err'[q] = "ok" => err[q] = "ok"
      /\ to = "stop" => err'[p] # "ok"
  <2>1. CASE UNCHANGED errVars /\ to = "lead"
    BY <2>1 DEF errVars, Inv, TypeOK
  <2>2. CASE NewError(p, "VERSION", "told")
    <3>1. "VERSION" \in PipeErrors
      BY DEF PipeErrors
    <3>2. err'[p] # "ok"
      BY <2>2 DEF NewError, Inv, TypeOK
    <3> QED BY <2>2, <3>1, <3>2, ErrorTyped DEF Inv
  <2> QED BY <1>3, <2>1, <2>2
<1>7. TypeOK'
  BY <1>1, <1>4, <1>5, <1>6 DEF Inv, TypeOK, ownVars, Steps
<1>8. /\ negotiated'[p] # Unknown => negotiated'[p] = Common(1)
      /\ to = "lead" => negotiated'[p] # Unknown /\ Compatible(p)
  <2>1. CASE to = "lead" /\ negotiated[p] # Unknown /\ negotiated' = negotiated
    BY <1>1, <2>1 DEF Inv, Agreed
  <2>2. CASE negotiated' = [negotiated EXCEPT ![p] = Negotiate(p, 1, v)]
    <3>1. negotiated'[p] = Negotiate(p, 1, v)
      BY <2>2 DEF Inv, TypeOK
    <3>2. negotiated'[p] # Unknown => negotiated'[p] = Common(1)
      BY <1>2, <3>1, NegotiatedIsSpoken DEF Inv
    <3>3. CASE Unknown \notin {Negotiate(p, 1, v), Negotiate(p, 2, v)}
      <4>1. Compatible(p)
        BY <1>2, <3>3, NegotiatedIsSpoken DEF Compatible, Inv
      <4> QED BY <3>1, <3>2, <3>3, <4>1
    <3>4. CASE to = "stop"
      BY <3>2, <3>4
    <3>5. CASE UNCHANGED <<negotiated, errVars>> /\ negotiated[p] # Unknown
      BY <1>1, <3>2, <3>5 DEF Inv, Agreed
    <3> QED BY <1>3, <3>3, <3>4, <3>5
  <2> QED BY <1>3, <2>1, <2>2
<1>9. \A q \in Peer, j \in Pipe : IF q = p /\ j = k THEN step'[q][j] = to
                                  ELSE step'[q][j] = step[q][j]
  <2>1. step \in [Peer -> [Pipe -> Steps]] /\ to \in Steps
    BY DEF Inv, TypeOK, Steps
  <2> QED BY <1>3, <2>1, OneChanged DEF Goes
<1>10. Common(1)' = Common(1) /\ \A q \in Peer : Compatible(q)' <=> Compatible(q)
  BY <1>1 DEF Compatible, Speaks, Common, ownVars
<1>11. ASSUME NEW q \in Peer PROVE Agreed(q)'
  <2>1. Agreed(q) /\ got' = got
    BY <1>1 DEF Inv
  <2>2. CASE q = p /\ to = "lead"
    BY <1>8, <1>10, <2>2 DEF Agreed
  <2>3. CASE q = p /\ to = "stop"
    <3>1. negotiated[p] = Unknown
      BY <1>3, <2>3
    <3>2. \A j \in Pipe : step'[p][j] \notin {"lead", "cont"} /\ got'[p][j] = <<>>
      BY <1>9, <2>1, <2>3, <3>1 DEF Agreed
    <3> QED BY <1>6, <1>8, <1>10, <2>3, <3>2 DEF Agreed
  <2>4. CASE q # p
    BY <1>5, <1>6, <1>9, <1>10, <2>1, <2>4 DEF Agreed
  <2> QED BY <2>2, <2>3, <2>4
<1> QED BY <1>4, <1>7, <1>11 DEF Inv

-----------------------------------------------------------------------------
(* A blob that fits: it makes a message whole, or is one more of its parts.*)
LEMMA InvBlob ==
  ASSUME Inv, NEW p \in Peer, NEW k \in Pipe, NEW m \in Seq(MsgBlob),
         NEW n \in Nat,
         step[p][k] \in {"lead", "cont"}, wire[p][k] # <<>>, Takes(p, k),
         (Whole(p, k, m) /\ UNCHANGED left) \/ Part(p, k, m, n),
         UNCHANGED <<ownVars, negotiated, sndNext, broken, ended, sent>>
  PROVE  Inv'
<1>1. PICK to \in {"lead", "cont", "stop"} :
        /\ Goes(p, k, to)
        /\ UNCHANGED errVars \/ NewError(p, "ALLOC_FAILED", "told")
  BY DEF Whole, Part, ReadOn
<1>2. /\ got' \in [Peer -> [Pipe -> Seq(Seq(MsgBlob))]]
      /\ \A q \in Peer, j \in Pipe : q # p \/ j # k => got'[q][j] = got[q][j]
  <2>1. got \in [Peer -> [Pipe -> Seq(Seq(MsgBlob))]]
    BY DEF Inv, TypeOK
  <2>2. Append(got[p][k], m) \in Seq(Seq(MsgBlob))
    BY <2>1
  <2>3. UNCHANGED got \/ got' = [got EXCEPT ![p][k] = Append(got[p][k], m)]
    BY DEF Whole, Part
  <2>4. CASE UNCHANGED got
    BY <2>1, <2>4
  <2>5. CASE got' = [got EXCEPT ![p][k] = Append(got[p][k], m)]
    BY <2>1, <2>2, <2>5, OneChanged
  <2> QED BY <2>3, <2>4, <2>5
<1>3. /\ wire' \in [Peer -> [Pipe -> Seq(Blob)]]
      /\ step' \in [Peer -> [Pipe -> Steps]]
      /\ Chains'
  BY <1>1, <1>2, ChainsRead
<1>4. msgIn' \in [Peer -> [Pipe -> Seq(MsgBlob)]]
  <2>1. msgIn \in [Peer -> [Pipe -> Seq(MsgBlob)]]
    BY DEF Inv, TypeOK
  <2>2. <<>> \in Seq(MsgBlob)
    OBVIOUS
  <2>3. \/ msgIn' = [msgIn EXCEPT ![p][k] = <<>>]
        \/ msgIn' = [msgIn EXCEPT ![p][k] = m]
    BY DEF Whole, Part
  <2>4. CASE msgIn' = [msgIn EXCEPT ![p][k] = <<>>]
    BY <2>1, <2>2, <2>4, OneChanged
  <2>5. CASE msgIn' = [msgIn EXCEPT ![p][k] = m]
    BY <2>1, <2>5, OneChanged
  <2> QED BY <2>3, <2>4, <2>5
<1>5. left' \in [Peer -> [Pipe -> Nat]]
  <2>1. left \in [Peer -> [Pipe -> Nat]]
    BY DEF Inv, TypeOK
  <2>2. UNCHANGED left \/ left' = [left EXCEPT ![p][k] = n]
    BY DEF Part
  <2>3. CASE left' = [left EXCEPT ![p][k] = n]
    BY <2>1, <2>3, OneChanged
  <2> QED BY <2>1, <2>2, <2>3
<1>6. /\ err' \in [Peer -> {"ok"} \cup PipeErrors \cup Misfits]
      /\ onErr' \in [Peer -> {"none", "posted", "told"}]
      /\ \A q \in Peer : err'[q] = "ok" => err[q] = "ok"
  <2>1. CASE UNCHANGED errVars
    BY <2>1 DEF errVars, Inv, TypeOK
  <2>2. "ALLOC_FAILED" \in PipeErrors
    BY DEF PipeErrors
  <2> QED BY <1>1, <2>1, <2>2, ErrorTyped DEF Inv
<1>7. TypeOK'
  BY <1>2, <1>3, <1>4, <1>5, <1>6 DEF Inv, TypeOK, ownVars, Steps
<1>8. ASSUME NEW q \in Peer PROVE Agreed(q)'
  <2>1. \A j \in Pipe : q # p \/ j # k => step'[q][j] = step[q][j]
    <3>1. step \in [Peer -> [Pipe -> Steps]] /\ to \in Steps
      BY DEF Inv, TypeOK, Steps
    <3> QED BY <1>1, <3>1, OneChanged DEF Goes
  <2>2. Agreed(q) /\ (Compatible(q)' <=> Compatible(q))
        /\ negotiated' = negotiated /\ Common(1)' = Common(1)
    BY DEF Inv, Compatible, Speaks, Common, ownVars
  <2>3. q = p => negotiated[q] # Unknown /\ Compatible(q)
    BY <2>2 DEF Agreed
  <2> QED BY <1>2, <1>6, <2>1, <2>2, <2>3 DEF Agreed
<1> QED BY <1>3, <1>7, <1>8 DEF Inv

LEMMA InvReadBlob ==
  ASSUME Inv, NEW p \in Peer, NEW k \in Pipe, ReadLead(p, k) \/ ReadCont(p, k)
  PROVE  Inv'
<1>1. step[p][k] \in {"lead", "cont"} /\ wire[p][k] # <<>> /\ Takes(p, k)
      /\ UNCHANGED <<ownVars, negotiated, sndNext, broken, ended, sent>>
  BY DEF ReadLead, ReadCont, Yields
<1>2. PICK b \in MsgBlob : b = Head(wire[p][k])
  <2>1. wire[p][k] \in Seq(MsgBlob)
    BY <1>1 DEF Inv, Chains, Framed
  <2> QED BY <1>1, <2>1
<1>3. ASSUME NEW e \in Misfits, Misfit(p, k, e) PROVE Inv'
  BY <1>1, <1>3, InvStop DEF Misfit
<1>4. CASE ReadLead(p, k)
  <2>1. CASE LeadError(k, b) # "ok"
    <3>1. LeadError(k, b) \in Misfits
      BY <2>1 DEF LeadError, Misfits
    <3> QED BY <1>2, <1>3, <1>4, <2>1, <3>1 DEF ReadLead
  <2>2. CASE LeadError(k, b) = "ok"
    <3>1. b.segs \in Nat /\ <<b>> \in Seq(MsgBlob)
      BY <2>2 DEF LeadError, MsgBlob
    <3>2. CASE b.segs = 0
      BY <1>1, <1>2, <1>4, <2>2, <3>1, <3>2, InvBlob DEF ReadLead
    <3>3. CASE b.segs # 0
      <4>1. b.segs - 1 \in Nat
        BY <3>1, <3>3
      <4>2. Part(p, k, <<b>>, b.segs - 1)
        BY <1>2, <1>4, <2>2, <3>3 DEF ReadLead
      <4> QED BY <1>1, <3>1, <4>1, <4>2, InvBlob
    <3> QED BY <3>2, <3>3
  <2> QED BY <2>1, <2>2
<1>5. CASE ReadCont(p, k)
  <2>1. PICK m \in Seq(MsgBlob) : m = Append(msgIn[p][k], b)
    <3>1. PICK s \in Seq(MsgBlob) : s = msgIn[p][k]
      BY DEF Inv, TypeOK
    <3>2. Append(s, b) \in Seq(MsgBlob)
      OBVIOUS
    <3> QED BY <3>1, <3>2
  <2>2. left[p][k] \in Nat
    BY DEF Inv, TypeOK
  <2>3. CASE ContError(b) # "ok"
    <3>1. ContError(b) \in Misfits
      BY <2>3 DEF ContError, Misfits
    <3> QED BY <1>2, <1>3, <1>5, <2>3, <3>1 DEF ReadCont
  <2>4. CASE ContError(b) = "ok" /\ left[p][k] = 0
    <3>1. Whole(p, k, m) /\ UNCHANGED left
      BY <1>2, <1>5, <2>1, <2>4 DEF ReadCont
    <3> QED BY <1>1, <2>2, <3>1, InvBlob
  <2>5. CASE ContError(b) = "ok" /\ left[p][k] # 0
    <3>1. Part(p, k, m, left[p][k] - 1)
      BY <1>2, <1>5, <2>1, <2>5 DEF ReadCont
    <3>2. left[p][k] - 1 \in Nat
      BY <2>2, <2>5
    <3> QED BY <1>1, <3>1, <3>2, InvBlob
  <2> QED BY <2>3, <2>4, <2>5
<1> QED BY <1>4, <1>5

-----------------------------------------------------------------------------
LEMMA InvNext == Inv /\ [Next]_vars => Inv'
<1> SUFFICES ASSUME Inv, [Next]_vars PROVE Inv'
  OBVIOUS
<1>1. CASE UNCHANGED vars
  <2>1. TypeOK'
    BY <1>1 DEF Inv, TypeOK, vars
  <2>2. Chains' /\ \A p \in Peer : Agreed(p)'
    BY <1>1
    DEF Inv, Chains, Starting, Framed, Agreed, Compatible, Speaks, Common, vars
  <2> QED BY <2>1, <2>2 DEF Inv
<1>2. ASSUME NEW p \in Peer, UserStep(p) PROVE Inv'
  BY <1>2, InvStartOps, InvStartAndPoll, InvSend, InvSendFails, InvSendNot,
     InvInform, InvLink
  DEF UserStep
<1>3. ASSUME NEW p \in Peer, NEW k \in Pipe, ReadStep(p, k) \/ Break(p, k)
      PROVE  Inv'
  BY <1>3, InvReadNotice, InvReadBlob, InvReadNot, InvLink DEF ReadStep
<1> QED BY <1>1, <1>2, <1>3 DEF Next

(* Every variable keeps its type: in particular what a chain takes for a   *)
(* lead or a continuation blob is one of a message, never a notice.        *)
THEOREM TypeCorrect == Spec => []TypeOK
<1>1. Inv => TypeOK
  BY DEF Inv
<1> QED BY <1>1, InvInit, InvNext, PTL DEF Spec

(* Whichever pipe's notice comes first, and whatever the two builds, a     *)
(* peer that looks at messages has settled on the lower of the two newest  *)
(* versions, which it speaks.                                              *)
THEOREM NegotiatedFirstAlways == Spec => []NegotiatedFirst
<1>1. Inv => NegotiatedFirst
  BY DEF Inv, Agreed, Compatible, LooksAtMsgs, NegotiatedFirst
<1> QED BY <1>1, InvInit, InvNext, PTL DEF Spec

(* Two peers that both look at messages have settled on the same version   *)
(* of the main protocol, and both speak the lower of the newest versions   *)
(* of either: builds that have no version in common never get that far.    *)
THEOREM NegotiatedAlike ==
  Spec => []((\A p \in Peer : LooksAtMsgs(p)) =>
               /\ negotiated["cli"] = negotiated["srv"]
               /\ \A i \in {1, 2} : \E v \in Nat :
                    \A p \in Peer : Speaks(p, i, v))
<1> DEFINE Alike == (\A p \in Peer : LooksAtMsgs(p)) =>
                      /\ negotiated["cli"] = negotiated["srv"]
                      /\ \A i \in {1, 2} : \E v \in Nat :
                           \A p \in Peer : Speaks(p, i, v)
<1>1. TypeOK /\ NegotiatedFirst => Alike
  <2> SUFFICES ASSUME TypeOK, NegotiatedFirst PROVE Alike
    OBVIOUS
  <2>1. \A i \in {1, 2} : Common(i) \in Nat
    BY BuildTyped DEF Common, Lower, Peer, Version
  <2> QED BY <2>1 DEF NegotiatedFirst, Peer
<1>2. Spec => []Alike
  <2> HIDE DEF Alike
  <2> QED BY <1>1, TypeCorrect, NegotiatedFirstAlways, PTL
<1> QED BY <1>2
=============================================================================
