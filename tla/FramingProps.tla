---------------------------- MODULE FramingProps ----------------------------
(***************************************************************************)
(* What the framing of messages and the protocol negotiation promise.      *)
(***************************************************************************)
EXTENDS Framing

PipeErrors == {"SEND", "RECEIVE", "VERSION", "ALLOC_FAILED"}
Misfits    == {"MISUSED_SCHEMA", "GOT_NO_HNDL", "GOT_HNDL"}
MsgBlob    == [kind : {"lead"}, id : Nat, hndl : BOOLEAN, segs : Nat]
                \cup [kind : {"cont"}, id : Nat, part : Nat]
Blob       == [kind : {"notice"}, ver : Version] \cup MsgBlob

(* Type invariant of every variable of Framing.                            *)
TypeOK ==
  /\ build \in Builds
  /\ startedOps \in [Peer -> BOOLEAN] /\ started \in [Peer -> BOOLEAN]
  /\ ended \in [Peer -> BOOLEAN]
  /\ negErr \in [Peer -> {"ok", "SEND"}]
  /\ err \in [Peer -> {"ok"} \cup PipeErrors \cup Misfits]
  /\ onErr \in [Peer -> {"none", "posted", "told"}]
  /\ negotiated \in [Peer -> Nat] /\ sndNext \in [Peer -> Nat \ {0}]
  /\ step \in [Peer -> [Pipe -> {"off", "notice", "lead", "cont", "stop"}]]
  /\ left \in [Peer -> [Pipe -> Nat]]
  /\ msgIn \in [Peer -> [Pipe -> Seq(MsgBlob)]]
  /\ wire \in [Peer -> [Pipe -> Seq(Blob)]]
  /\ broken \subseteq Peer \X Pipe
  /\ sent \in [Peer -> [Pipe -> Seq(Seq(MsgBlob))]]
  /\ got \in [Peer -> [Pipe -> Seq(Seq(MsgBlob))]]

(* A chain waits in the middle of a message only while the rest of it is   *)
(* on its way or will never come: m_n_segs_left_after_this_read, the blobs *)
(* collected and the blobs on the wire agree about what is missing.        *)
Missing(p, k) == Head(msgIn[p][k]).segs + 1 - Len(msgIn[p][k])

SegmentsAddUp ==
  \A p \in Peer : \A k \in Pipe : step[p][k] = "cont" =>
    /\ left[p][k] + 1 = Missing(p, k)
    /\ \A n \in 1..Len(wire[p][k]) :
         n <= Missing(p, k) => wire[p][k][n].id = Head(msgIn[p][k]).id
    /\ Len(wire[p][k]) < Missing(p, k)
         => err[Other(p)] # "ok" /\ <<Other(p), k>> \in broken

(* "No real messages are processed before protocol-negotiation phase       *)
(* passes", whichever pipe's notice wins: a peer that looks at messages    *)
(* has settled, for the main protocol, on the lower of the two newest      *)
(* versions, and itself speaks that version of either protocol.  The other *)
(* may not, and then finds out for itself; but two peers that both look at *)
(* messages have settled on the same versions, which both speak.           *)
Common(i) == Lower(build["cli"].max[i], build["srv"].max[i])
Speaks(p, i, v) == build[p].min[i] <= v /\ v <= build[p].max[i]
LooksAtMsgs(p) == \E k \in Pipe : step[p][k] \in {"lead", "cont"}
                                  \/ got[p][k] # <<>>

NegotiatedFirst ==
  \A p \in Peer : LooksAtMsgs(p) =>
    /\ negotiated[p] = Common(1)
    /\ \A i \in {1, 2} : Speaks(p, i, Common(i))

(* Peers that keep the protocol are never found to misbehave: no blob is   *)
(* taken for one of another kind, however the pipes race, a transport      *)
(* fails between two blobs of a message, or a chain stops.                 *)
NeverMisread == \A p \in Peer : err[p] \notin Misfits

(* A message comes out of a pipe whole, in order and once, its handle with *)
(* it, or not at all: the read chain of each pipe implements a pipe of     *)
(* whole messages.                                                         *)
Message == {Blobs(id, h, n) : id \in 0..(MaxMsg["cli"] + MaxMsg["srv"]),
                              h \in BOOLEAN, n \in 0..MaxSeg}
Promise ==
  INSTANCE WholePipe
    WITH Link <- Peer \X Pipe,
         put <- [l \in Peer \X Pipe |-> sent[Other(l[1])][l[2]]],
         taken <- [l \in Peer \X Pipe |-> got[l[1]][l[2]]]

ImplementsWholePipe == Promise!Spec

-----------------------------------------------------------------------------
(* Fairness: the user starts each peer, and its event loop reads what is   *)
(* readable.                                                               *)
Fairness ==
  \A p \in Peer : /\ WF_vars(StartOps(p)) /\ WF_vars(StartAndPoll(p))
                  /\ \A k \in Pipe : WF_vars(ReadStep(p, k))

FairSpec == Spec /\ Fairness

(* A user who has started the channel is told of the error that hoses it.  *)
EventuallyTold == \A p \in Peer : err[p] # "ok" ~> onErr[p] = "told"

=============================================================================
