------------------------------ MODULE Framing ------------------------------
(***************************************************************************)
(* What goes over each pipe of the owned channel: blobs.  Ahead of         *)
(* anything else each peer puts a protocol-negotiation notice on each of   *)
(* its out-pipes; then every structured message is one lead blob, with the *)
(* metadata, the handle if any and the count of the body's segments,       *)
(* followed by a continuation blob per segment.  Each in-pipe is read by a *)
(* chain of async reads of its own:                                        *)
(*   "off" -> "notice" -> "lead" <-> "cont", or "stop" for good.           *)
(* What becomes of a whole message is StructChannel's concern.             *)
(*                                                                         *)
(* A definition under a comment that begins with Mutation: is the next one *)
(* with a plausible bug, used by no specification.                         *)
(***************************************************************************)
EXTENDS Naturals, Sequences

CONSTANTS
  Pipe,      \* the pipes of the owned channel: "blobs", "handles" or both
  MaxMsg,    \* bounds the messages: MaxMsg[p] user messages of p
  MaxSeg,    \* bound on the segments of a message body
  Builds,    \* which builds the two peers may run together: each is known
             \* by the versions it speaks of the main and the auxiliary
             \* protocol, [min |-> <<1, 1>>, max |-> <<1, 1>>] being this one
  Breakable, \* the (peer, pipe) out-pipes whose transport may fail
  MayRefuse, \* TRUE: the Struct_reader may have no segment to offer
  MayEnd     \* the peers that may call async_end_sending()

Peer == {"cli", "srv"}

Version == (Nat \ {0}) \X (Nat \ {0})

ASSUME ConstantsAssumption ==
  /\ Pipe \in {{"blobs"}, {"handles"}, {"blobs", "handles"}}
  /\ MaxMsg \in [Peer -> Nat] /\ MaxSeg \in Nat \ {0}
  /\ Builds \subseteq [Peer -> [min : Version, max : Version]]
  /\ Breakable \subseteq Peer \X Pipe
  /\ MayRefuse \in BOOLEAN /\ MayEnd \subseteq Peer

VARIABLES
  build,      \* the build p runs
  startedOps, \* m_started_ops
  negErr,     \* m_proto_neg_err_code_or_ok
  started,    \* start_and_poll() was called: m_on_err_func is set
  err,        \* m_channel_err_code_or_ok
  onErr,      \* the error: "none", "posted" to m_sync_io_handlers, "told"
              \* to the user by the on-error handler or a call
  negotiated, \* m_protocol_negotiator.negotiated_proto_ver()
  sndNext,    \* m_snd_msg_next_id
  step,       \* step[p][k]: what p's chain on in-pipe k reads next
  left,       \* m_n_segs_left_after_this_read
  msgIn,      \* m_incomplete_msg: the blobs it has so far
  wire,       \* wire[p][k]: blobs on their way to p on pipe k
  broken,     \* the out-pipes whose transport has failed
  ended,      \* async_end_sending() was called
  sent,       \* history: sent[p][k], the messages p has put on k whole
  got         \* history: got[p][k], the messages p has put together from k

ownVars  == <<build, startedOps, negErr, started>>
errVars  == <<err, onErr>>
readVars == <<step, left, msgIn>>
vars == <<build, startedOps, negErr, started, err, onErr, negotiated, sndNext, step,
          left, msgIn, wire, broken, ended, sent, got>>

Other(p) == CHOOSE q \in Peer : q # p
TwoPipes == Pipe = {"blobs", "handles"}
Unknown  == 0

Notice(v)        == [kind |-> "notice", ver |-> v]
Lead(id, h, n)   == [kind |-> "lead", id |-> id, hndl |-> h, segs |-> n]
Cont(id, i)      == [kind |-> "cont", id |-> id, part |-> i]

(* The blobs of a message: the lead blob, then one per segment.            *)
Blobs(id, h, n) == <<Lead(id, h, n)>> \o [i \in 1..n |-> Cont(id, i)]

(* Mutation: what carries no handle takes the handles pipe too.            *)
PipeForHandles(h) == IF TwoPipes THEN "handles" ELSE CHOOSE k \in Pipe : TRUE

(* A message with a handle takes the handles pipe, any other the blobs     *)
(* pipe, if there are both.                                                *)
PipeFor(h) == IF TwoPipes THEN IF h THEN "handles" ELSE "blobs"
              ELSE CHOOSE k \in Pipe : TRUE

Init ==
  /\ build \in Builds
  /\ startedOps = [p \in Peer |-> FALSE]
  /\ negErr = [p \in Peer |-> "ok"]
  /\ started = [p \in Peer |-> FALSE]
  /\ err = [p \in Peer |-> "ok"]
  /\ onErr = [p \in Peer |-> "none"]
  /\ negotiated = [p \in Peer |-> Unknown]
  /\ sndNext = [p \in Peer |-> 1]
  /\ step = [p \in Peer |-> [k \in Pipe |-> "off"]]
  /\ left = [p \in Peer |-> [k \in Pipe |-> 0]]
  /\ msgIn = [p \in Peer |-> [k \in Pipe |-> <<>>]]
  /\ wire = [p \in Peer |-> [k \in Pipe |-> <<>>]]
  /\ broken = {}
  /\ ended = [p \in Peer |-> FALSE]
  /\ sent = [p \in Peer |-> [k \in Pipe |-> <<>>]]
  /\ got = [p \in Peer |-> [k \in Pipe |-> <<>>]]

-----------------------------------------------------------------------------
(* send_proto_neg() sends on the handles pipe first and stops at the first *)
(* failure.                                                                *)
Noticed(p) ==
  IF TwoPipes /\ <<p, "handles">> \in broken THEN {}
  ELSE {k \in Pipe : <<p, k>> \notin broken}

StartOps(p) ==
  /\ ~startedOps[p]
  /\ startedOps' = [startedOps EXCEPT ![p] = TRUE]
  /\ wire' = [wire EXCEPT ![Other(p)] = [k \in Pipe |->
                IF k \in Noticed(p) THEN Append(@[k], Notice(build[p].max))
                                    ELSE @[k]]]
  /\ negErr' = [negErr EXCEPT ![p] = IF Noticed(p) = Pipe THEN "ok" ELSE "SEND"]
  /\ UNCHANGED <<build, started, errVars, negotiated, sndNext, readVars,
                 broken, ended, sent, got>>

(* handle_new_error(); how tells whether handlers_poll() follows.          *)
NewError(p, e, how) ==
  /\ err' = [err EXCEPT ![p] = e]
  /\ onErr' = [onErr EXCEPT ![p] = how]

(* start_and_poll(): the error that send_proto_neg() met is posted, and so *)
(* is a reader's refusal; neither is polled.  Otherwise every chain begins.*)
StartAndPoll(p) ==
  /\ startedOps[p] /\ ~started[p] /\ err[p] = "ok"
  /\ started' = [started EXCEPT ![p] = TRUE]
  /\ \/ /\ negErr[p] # "ok"
        /\ NewError(p, negErr[p], "posted")
        /\ UNCHANGED step
     \/ /\ negErr[p] = "ok" /\ MayRefuse
        /\ NewError(p, "ALLOC_FAILED", "posted")
        /\ UNCHANGED step
     \/ /\ negErr[p] = "ok"
        /\ step' = [step EXCEPT ![p] = [k \in Pipe |-> "notice"]]
        /\ UNCHANGED errVars
  /\ UNCHANGED <<build, startedOps, negErr, negotiated, sndNext, left, msgIn,
                 wire, broken, ended, sent, got>>

-----------------------------------------------------------------------------
(* send() and async_request(), once send_impl() has its ID.                *)
Sendable(p, h) ==
  /\ startedOps[p] /\ err[p] = "ok" /\ sndNext[p] <= MaxMsg[p]
  /\ h => "handles" \in Pipe

Spend(p) == sndNext' = [sndNext EXCEPT ![p] = @ + 1]

Send(p, h, n) ==
  LET k == PipeFor(h)
      m == Blobs(sndNext[p], h, n)
  IN  /\ Sendable(p, h) /\ negErr[p] = "ok" /\ ~ended[p]
      /\ <<p, k>> \notin broken
      /\ Spend(p)
      /\ wire' = [wire EXCEPT ![Other(p)][k] = @ \o m]
      /\ sent' = [sent EXCEPT ![p][k] = Append(@, m)]
      /\ UNCHANGED <<ownVars, errVars, negotiated, readVars, broken, ended, got>>

(* The transport fails before blob i of the message.                       *)
SendFails(p, h, n, i) ==
  LET k == PipeFor(h)
      m == Blobs(sndNext[p], h, n)
  IN  /\ Sendable(p, h) /\ negErr[p] = "ok" /\ ~ended[p]
      /\ <<p, k>> \in broken
      /\ Spend(p)
      /\ NewError(p, "SEND", "told")
      /\ wire' = [wire EXCEPT ![Other(p)][k] = @ \o SubSeq(m, 1, i - 1)]
      /\ UNCHANGED <<ownVars, negotiated, readVars, broken, ended, sent, got>>

(* The first send reports what send_proto_neg() met.                       *)
SendMeetsNegError(p) ==
  /\ Sendable(p, FALSE) /\ negErr[p] # "ok"
  /\ Spend(p)
  /\ NewError(p, negErr[p], "told")
  /\ UNCHANGED <<ownVars, negotiated, readVars, wire, broken, ended, sent, got>>

(* After async_end_sending() a send is refused, its ID spent.              *)
SendAfterEnd(p) ==
  /\ Sendable(p, FALSE) /\ negErr[p] = "ok" /\ ended[p]
  /\ Spend(p)
  /\ UNCHANGED <<ownVars, errVars, negotiated, readVars, wire, broken, ended,
                 sent, got>>

(* An internal message: a lead blob alone.  p sends one when a message it  *)
(* got is an unexpected response.                                          *)
Inform(p) ==
  LET k == PipeFor(FALSE)
      m == Blobs(0, FALSE, 0)
  IN  /\ err[p] = "ok" /\ ~ended[p] /\ <<p, k>> \notin broken
      /\ \E j \in Pipe : got[p][j] # <<>>
      /\ Len(sent[p][k]) < MaxMsg[Other(p)]
      /\ wire' = [wire EXCEPT ![Other(p)][k] = @ \o m]
      /\ sent' = [sent EXCEPT ![p][k] = Append(@, m)]
      /\ UNCHANGED <<ownVars, errVars, negotiated, sndNext, readVars, broken,
                     ended, got>>

EndSending(p) ==
  /\ p \in MayEnd /\ startedOps[p] /\ ~ended[p]
  /\ ended' = [ended EXCEPT ![p] = TRUE]
  /\ UNCHANGED <<ownVars, errVars, negotiated, sndNext, readVars, wire, broken,
                 sent, got>>

Break(p, k) ==
  /\ <<p, k>> \in Breakable \ broken
  /\ broken' = broken \cup {<<p, k>>}
  /\ UNCHANGED <<ownVars, errVars, negotiated, sndNext, readVars, wire, ended,
                 sent, got>>

-----------------------------------------------------------------------------
(* Receiving.                                                              *)

Lower(a, b) == IF a < b THEN a ELSE b

(* compute_negotiated_proto_ver(): the lower of the two newest versions,   *)
(* Unknown if that is too old for p.                                       *)
Negotiate(p, i, v) ==
  LET n == Lower(v[i], build[p].max[i])
  IN  IF n < build[p].min[i] THEN Unknown ELSE n

(* A chain whose channel is hosed stops, whatever its read yields.         *)
Yields(p, k, what) == step[p][k] = what /\ wire[p][k] # <<>>
Takes(p, k) == wire' = [wire EXCEPT ![p][k] = Tail(@)]
Goes(p, k, to) == step' = [step EXCEPT ![p][k] = to]
Stops(p, k) == Goes(p, k, "stop") /\ UNCHANGED <<left, msgIn>>

ReadOnHosed(p, k) ==
  /\ \E what \in {"notice", "lead", "cont"} : Yields(p, k, what)
  /\ err[p] # "ok"
  /\ Takes(p, k) /\ Stops(p, k)
  /\ UNCHANGED <<ownVars, errVars, negotiated, sndNext, broken, ended, sent, got>>

(* Mutation: the auxiliary protocol is not looked at.                      *)
ReadNoticeMainOnly(p, k) ==
  LET v == Head(wire[p][k]).ver
  IN  /\ Yields(p, k, "notice") /\ err[p] = "ok"
      /\ Takes(p, k)
      /\ \/ /\ negotiated[p] # Unknown
            /\ Goes(p, k, "lead")
            /\ UNCHANGED <<negotiated, errVars>>
         \/ /\ negotiated[p] = Unknown
            /\ negotiated' = [negotiated EXCEPT ![p] = Negotiate(p, 1, v)]
            /\ IF Unknown = Negotiate(p, 1, v)
               THEN NewError(p, "VERSION", "told") /\ Goes(p, k, "stop")
               ELSE Goes(p, k, "lead") /\ UNCHANGED errVars
      /\ UNCHANGED <<ownVars, left, msgIn, sndNext, broken, ended, sent, got>>

(* The notice that comes first is used; the other one is taken to say the  *)
(* same.                                                                   *)
ReadNotice(p, k) ==
  LET v == Head(wire[p][k]).ver
  IN  /\ Yields(p, k, "notice") /\ err[p] = "ok"
      /\ Takes(p, k)
      /\ \/ /\ negotiated[p] # Unknown
            /\ Goes(p, k, "lead")
            /\ UNCHANGED <<negotiated, errVars>>
         \/ /\ negotiated[p] = Unknown
            /\ negotiated' = [negotiated EXCEPT ![p] = Negotiate(p, 1, v)]
            /\ IF Unknown \in {Negotiate(p, 1, v), Negotiate(p, 2, v)}
               THEN NewError(p, "VERSION", "told") /\ Goes(p, k, "stop")
               ELSE Goes(p, k, "lead") /\ UNCHANGED errVars
      /\ UNCHANGED <<ownVars, left, msgIn, sndNext, broken, ended, sent, got>>

(* The blob does not fit what the chain expects: "Other side misbehaved?"  *)
LeadError(k, b) ==
  IF b.kind # "lead" THEN "MISUSED_SCHEMA"
  ELSE IF TwoPipes /\ k = "handles" /\ ~b.hndl THEN "GOT_NO_HNDL" ELSE "ok"

ContError(b) == IF b.kind = "lead" /\ b.hndl THEN "GOT_HNDL" ELSE "ok"

Misfit(p, k, e) == NewError(p, e, "told") /\ Stops(p, k) /\ UNCHANGED got

(* After a blob the chain wants a segment for the next one.                *)
ReadOn(p, k, to) ==
  \/ Goes(p, k, to) /\ UNCHANGED errVars
  \/ MayRefuse /\ Goes(p, k, "stop") /\ NewError(p, "ALLOC_FAILED", "told")

(* A message is whole: it goes to rcv_struct_new_msg_in().                 *)
Whole(p, k, m) ==
  /\ got' = [got EXCEPT ![p][k] = Append(@, m)]
  /\ msgIn' = [msgIn EXCEPT ![p][k] = <<>>]
  /\ ReadOn(p, k, "lead")

(* More segments are to come, n after the next.                            *)
Part(p, k, m, n) ==
  /\ left' = [left EXCEPT ![p][k] = n]
  /\ msgIn' = [msgIn EXCEPT ![p][k] = m]
  /\ ReadOn(p, k, "cont")
  /\ UNCHANGED got

(* Mutation: a message without a body is not told apart.                   *)
ReadLeadAnyCount(p, k) ==
  LET b == Head(wire[p][k])
  IN  /\ Yields(p, k, "lead") /\ err[p] = "ok" /\ Takes(p, k)
      /\ IF LeadError(k, b) # "ok" THEN Misfit(p, k, LeadError(k, b))
         ELSE Part(p, k, <<b>>, b.segs - 1)
      /\ UNCHANGED <<ownVars, negotiated, sndNext, broken, ended, sent>>

(* Mutation: the count of segments takes in the lead blob.                 *)
ReadLeadOffByOne(p, k) ==
  LET b == Head(wire[p][k])
  IN  /\ Yields(p, k, "lead") /\ err[p] = "ok" /\ Takes(p, k)
      /\ IF LeadError(k, b) # "ok" THEN Misfit(p, k, LeadError(k, b))
         ELSE IF b.segs = 0 THEN Whole(p, k, <<b>>) /\ UNCHANGED left
         ELSE Part(p, k, <<b>>, b.segs)
      /\ UNCHANGED <<ownVars, negotiated, sndNext, broken, ended, sent>>

ReadLead(p, k) ==
  LET b == Head(wire[p][k])
  IN  /\ Yields(p, k, "lead") /\ err[p] = "ok" /\ Takes(p, k)
      /\ IF LeadError(k, b) # "ok" THEN Misfit(p, k, LeadError(k, b))
         ELSE IF b.segs = 0 THEN Whole(p, k, <<b>>) /\ UNCHANGED left
         ELSE Part(p, k, <<b>>, b.segs - 1)
      /\ UNCHANGED <<ownVars, negotiated, sndNext, broken, ended, sent>>

(* Mutation: the segment is not kept.                                      *)
ReadContDrops(p, k) ==
  LET b == Head(wire[p][k])
      m == msgIn[p][k]
  IN  /\ Yields(p, k, "cont") /\ err[p] = "ok" /\ Takes(p, k)
      /\ IF ContError(b) # "ok" THEN Misfit(p, k, ContError(b))
         ELSE IF left[p][k] = 0 THEN Whole(p, k, m) /\ UNCHANGED left
         ELSE Part(p, k, m, left[p][k] - 1)
      /\ UNCHANGED <<ownVars, negotiated, sndNext, broken, ended, sent>>

ReadCont(p, k) ==
  LET b == Head(wire[p][k])
      m == Append(msgIn[p][k], b)
  IN  /\ Yields(p, k, "cont") /\ err[p] = "ok" /\ Takes(p, k)
      /\ IF ContError(b) # "ok" THEN Misfit(p, k, ContError(b))
         ELSE IF left[p][k] = 0 THEN Whole(p, k, m) /\ UNCHANGED left
         ELSE Part(p, k, m, left[p][k] - 1)
      /\ UNCHANGED <<ownVars, negotiated, sndNext, broken, ended, sent>>

(* The read fails: the other peer's graceful-close is next, or the         *)
(* transport has failed.                                                   *)
ReadFails(p, k) ==
  /\ step[p][k] \in {"notice", "lead", "cont"}
  /\ \/ <<Other(p), k>> \in broken
     \/ ended[Other(p)] /\ wire[p][k] = <<>>
  /\ IF err[p] = "ok" THEN NewError(p, "RECEIVE", "told") ELSE UNCHANGED errVars
  /\ Stops(p, k)
  /\ UNCHANGED <<ownVars, negotiated, sndNext, wire, broken, ended, sent, got>>

-----------------------------------------------------------------------------
UserStep(p) ==
  \/ StartOps(p)
  \/ StartAndPoll(p)
  \/ SendMeetsNegError(p)
  \/ SendAfterEnd(p)
  \/ \E h \in BOOLEAN, n \in 1..MaxSeg :
       Send(p, h, n) \/ \E i \in 1..(n + 1) : SendFails(p, h, n, i)
  \/ Inform(p)
  \/ EndSending(p)

ReadStep(p, k) ==
  \/ ReadNotice(p, k)
  \/ ReadLead(p, k)
  \/ ReadCont(p, k)
  \/ ReadOnHosed(p, k)
  \/ ReadFails(p, k)

Next ==
  \E p \in Peer : UserStep(p) \/ \E k \in Pipe : ReadStep(p, k) \/ Break(p, k)

Spec == Init /\ [][Next]_vars

=============================================================================
