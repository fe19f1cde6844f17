---------------------------- MODULE MessageProps ----------------------------
(***************************************************************************)
(* What a user may rely on who fills, sends and reuses messages.           *)
(***************************************************************************)
EXTENDS Message

(* Type invariant of every variable of Message.                            *)
TypeOK ==
  /\ state \in [Obj -> {"none", "blank", "live"}]
  /\ segs \in [Obj -> Seq(Segment)] /\ leaf \in [Obj -> Nat]
  /\ hndl \in [Obj -> Fd \cup {Null}]
  /\ open \in [Fd -> Nat] /\ mine \subseteq Fd /\ nDesc \in Nat
  /\ wire \in Seq(Blob)
  /\ hosed \in BOOLEAN
  /\ incoming \in [left : Nat, sizes : Seq(Nat), hndl : Nat]
  /\ got \in Seq([sizes : Seq(Nat), hndl : Nat])
  /\ sent \in Seq([sizes : Seq(Nat), hndl : Nat])

(* "A given *this represents the message payload; it does not represent a  *)
(* particular send()t instance": what is received is what the message was  *)
(* when it was sent, in full and no more, though it had been sent before   *)
(* and has been changed, moved or destroyed since (emit_segment_blobs()).  *)
ReceivedAsSent == IsPrefix(got, sent)

(* Every blob fits the pipe it goes through, which is the handles pipe if  *)
(* the message bears a handle (heap_fixed_builder_config()).               *)
FitsThePipe ==
  \A i \in 1..Len(wire) :
    LET b == wire[i]
    IN  /\ b.size > 0
        /\ b.size <= (IF b.pipe = "blobs" THEN BlobMax ELSE MetaMax)

(* Only an object that is too large by itself makes a message that cannot  *)
(* be sent: the others share segments that can (allocateSegment()).        *)
OnlyLeavesAreTooBig ==
  \A m \in Obj :
    LeafTooBig([i \in 1..Len(segs[m]) |-> Emitted(segs[m][i])])
      <=> leaf[m] * WordSz > SegmentSz

(* Every open handle is held once, by the user or by one message, and what *)
(* a message holds is open: no leak, no handle given back twice, whatever  *)
(* is stored again, moved or destroyed (store_native_handle_or_null(),     *)
(* operator=, ~Msg_out()).                                                 *)
HandlesHeldOnce ==
  /\ \A m, n \in Obj : hndl[m] = hndl[n] /\ hndl[m] # Null => m = n
  /\ \A m \in Obj : hndl[m] \notin mine
  /\ {f \in Fd : open[f] # 0} = (mine \cup {hndl[m] : m \in Obj}) \ {Null}
=============================================================================
