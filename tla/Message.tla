------------------------------ MODULE Message ------------------------------
(***************************************************************************)
(* Out-messages and in-messages, serialized in the heap: Msg_out over      *)
(* Heap_fixed_builder, Msg_in over Heap_reader, and what send_core() and   *)
(* the read handlers of a channel do with them.  The user makes, fills,    *)
(* changes, moves, sends and destroys out-messages, in any order, also     *)
(* while copies of them are on their way.                                  *)
(*                                                                         *)
(* A serialization is a sequence of segments of words, and what capnp      *)
(* writes into it are objects of some words each, with what it needs to    *)
(* point to them. The words are not told apart: how many of a segment's    *)
(* are in use, and how many bytes its Blob says it has, is what the code   *)
(* keeps. What two pipes do to the order of messages is left to Framing    *)
(* and StructChannel.                                                      *)
(*                                                                         *)
(* A definition under a comment that begins with Mutation: is the next one *)
(* with a plausible bug.  No specification uses it.                        *)
(***************************************************************************)
EXTENDS Naturals, SequencesExt

CONSTANTS
  Obj,      \* Msg_out objects
  Null,     \* no native handle
  Fd,       \* the numbers the OS gives to native handles
  WordSz,   \* sizeof(word)
  BlobMax,  \* send_blob_max_size(), in bytes
  MetaMax,  \* send_meta_blob_max_size(), in bytes
  MaxLeaf,  \* bound on the words of one object
  MaxWords, \* bound on the words of one message
  MaxSend,  \* bound on the messages sent
  MaxDesc   \* bound on the handles the user opens

ASSUME ConstantsAssumption ==
  /\ Null \notin Fd
  /\ WordSz \in Nat \ {0} /\ BlobMax \in Nat /\ MetaMax \in Nat
  /\ WordSz <= BlobMax /\ WordSz <= MetaMax
  /\ MaxLeaf \in Nat /\ MaxWords \in Nat /\ MaxSend \in Nat /\ MaxDesc \in Nat

VARIABLES
  state,    \* an object is not there, is blank (moved-from), or is a message
  segs,     \* its segments, in the order of allocateSegment()
  leaf,     \* history: the words of its largest object
  hndl,     \* m_hndl_or_null
  open,     \* what each open handle of the process refers to
  mine,     \* the handles the user has not given away
  nDesc,    \* the handles opened so far
  wire,     \* the blobs on their way
  hosed,    \* m_channel_err_code_or_ok is truthy
  incoming, \* m_incomplete_msg, once its header is there, and how many
            \* segments are still to be read
  got,      \* the messages the receiver has had, in order
  sent      \* history: the messages sent, as they were at that time

msgVars == <<state, segs, leaf, hndl>>
fdVars  == <<open, mine, nDesc>>
netVars == <<wire, hosed, incoming, got, sent>>
vars == <<msgVars, fdVars, netVars>>

(* A segment: the words in use, its capacity in words, and the size() of   *)
(* the Blob that holds it, in bytes.                                       *)
Segment == [used : Nat, cap : Nat, size : Nat]

Unread == [left |-> 0, sizes |-> <<>>, hndl |-> 0]

(* A blob: the header of a message with n segments, or the next segment.   *)
(* A handle goes with the first, through the pipe they all take.           *)
Blob == [kind : {"lead", "cont"}, pipe : {"blobs", "handles"}, n : Nat,
         hndl : Nat, size : Nat]
PipeFor(h) == IF h = 0 THEN "blobs" ELSE "handles"
Lead(n, h) == [kind |-> "lead", pipe |-> PipeFor(h), n |-> n, hndl |-> h,
               size |-> WordSz]
Cont(size, h) == [kind |-> "cont", pipe |-> PipeFor(h), n |-> 0, hndl |-> 0,
                  size |-> size]

Init ==
  /\ state = [m \in Obj |-> "none"]
  /\ segs = [m \in Obj |-> <<>>] /\ leaf = [m \in Obj |-> 0]
  /\ hndl = [m \in Obj |-> Null]
  /\ open = [f \in Fd |-> 0] /\ mine = {} /\ nDesc = 0
  /\ wire = <<>> /\ hosed = FALSE /\ incoming = Unread /\ got = <<>>
  /\ sent = <<>>

(* Mutation: the limit of the blobs pipe is taken for both.                *)
SegmentSzBlobs == BlobMax

(* heap_fixed_builder_config(): any segment must fit through either pipe.  *)
SegmentSz == IF MetaMax < BlobMax THEN MetaMax ELSE BlobMax

-----------------------------------------------------------------------------
(* Heap_fixed_builder: growing and emitting.                               *)

(* Mutation: the size is rounded up to words.                              *)
NewSegmentRoundsUp(min) ==
  LET cap == IF min * WordSz > SegmentSz THEN min
             ELSE (SegmentSz + WordSz - 1) \div WordSz
  IN  [used |-> 0, cap |-> cap, size |-> cap * WordSz]

(* allocateSegment(): as many words as fit in SegmentSz bytes, or what one *)
(* object needs if that is more.                                           *)
NewSegment(min) ==
  LET cap == IF min > SegmentSz \div WordSz THEN min ELSE SegmentSz \div WordSz
  IN  [used |-> 0, cap |-> cap, size |-> cap * WordSz]

(* capnp puts an object of n words at the end of the last segment, if      *)
(* there is room, or asks for another.                                     *)
Grown(ss, n) ==
  LET fits == ss # <<>> /\ Last(ss).used + n <= Last(ss).cap
      tail == IF fits THEN Last(ss) ELSE NewSegment(n)
      full == [tail EXCEPT !.used = @ + n]
  IN  IF fits THEN Append(Front(ss), full) ELSE Append(ss, full)

(* Mutation: a Blob is sized when it is first emitted, and never again.    *)
EmittedOnce(s) == IF s.size = s.cap * WordSz
                  THEN [s EXCEPT !.size = s.used * WordSz] ELSE s

(* emit_segment_blobs() sizes each Blob to the words in use.               *)
Emitted(s) == [s EXCEPT !.size = s.used * WordSz]

(* emit_serialization() refuses a segment that is larger than agreed.      *)
LeafTooBig(ss) == \E i \in 1..Len(ss) : ss[i].size > SegmentSz

-----------------------------------------------------------------------------
(* Native handles.                                                         *)

(* The user gets one from the OS, which numbers it as it likes.            *)
Open(f) ==
  /\ open[f] = 0 /\ nDesc < MaxDesc
  /\ open' = [open EXCEPT ![f] = nDesc + 1] /\ nDesc' = nDesc + 1
  /\ mine' = mine \cup {f}
  /\ UNCHANGED <<msgVars, netVars>>

(* Giving h back to the OS; none is OK.                                    *)
Closed(h) == [f \in Fd |-> IF f = h THEN 0 ELSE open[f]]

(* Mutation: the handle in the message is given back whatever comes.       *)
StoreAlways(m, h) ==
  /\ state[m] = "live"
  /\ h \in mine \cup {Null, hndl[m]}
  /\ hndl' = [hndl EXCEPT ![m] = h]
  /\ open' = Closed(hndl[m])
  /\ mine' = mine \ {h}
  /\ UNCHANGED <<state, segs, leaf, nDesc, netVars>>

(* store_native_handle_or_null(h): h may be a copy of what is stored, or   *)
(* one that the user gives away.                                           *)
Store(m, h) ==
  /\ state[m] = "live"
  /\ h \in mine \cup {Null, hndl[m]}
  /\ hndl' = [hndl EXCEPT ![m] = h]
  /\ open' = IF h = hndl[m] THEN open ELSE Closed(hndl[m])
  /\ mine' = mine \ {h}
  /\ UNCHANGED <<state, segs, leaf, nDesc, netVars>>

-----------------------------------------------------------------------------
(* Msg_out objects.                                                        *)

(* The constructor roots a body of one word; create_msg(h) also stores h.  *)
Create(m, h) ==
  /\ state[m] = "none" /\ h \in mine \cup {Null}
  /\ state' = [state EXCEPT ![m] = "live"]
  /\ segs' = [segs EXCEPT ![m] = Grown(<<>>, 1)]
  /\ leaf' = [leaf EXCEPT ![m] = 1]
  /\ hndl' = [hndl EXCEPT ![m] = h]
  /\ mine' = mine \ {h}
  /\ UNCHANGED <<open, nDesc, netVars>>

Used(ss) == FoldLeft(LAMBDA n, s : n + s.used, 0, ss)

(* The user adds an object of n words through body_root().                 *)
Grow(m, n) ==
  /\ state[m] = "live" /\ Used(segs[m]) + n <= MaxWords
  /\ segs' = [segs EXCEPT ![m] = Grown(@, n)]
  /\ leaf' = [leaf EXCEPT ![m] = IF n > @ THEN n ELSE @]
  /\ UNCHANGED <<state, hndl, fdVars, netVars>>

(* Mutation: the handle is copied, not moved.                              *)
MoveCopies(dst, src) ==
  /\ state[src] = "live" /\ dst # src
  /\ state' = [state EXCEPT ![src] = "blank", ![dst] = "live"]
  /\ segs' = [segs EXCEPT ![src] = <<>>, ![dst] = segs[src]]
  /\ leaf' = [leaf EXCEPT ![src] = 0, ![dst] = leaf[src]]
  /\ open' = IF hndl[dst] = hndl[src] THEN open ELSE Closed(hndl[dst])
  /\ hndl' = [hndl EXCEPT ![dst] = hndl[src]]
  /\ UNCHANGED <<mine, nDesc, netVars>>

(* Move construction, when dst is not there, and assignment, which gives   *)
(* back what dst held.                                                     *)
Move(dst, src) ==
  /\ state[src] = "live" /\ dst # src
  /\ state' = [state EXCEPT ![src] = "blank", ![dst] = "live"]
  /\ segs' = [segs EXCEPT ![src] = <<>>, ![dst] = segs[src]]
  /\ leaf' = [leaf EXCEPT ![src] = 0, ![dst] = leaf[src]]
  /\ open' = IF hndl[dst] = hndl[src] THEN open ELSE Closed(hndl[dst])
  /\ hndl' = [hndl EXCEPT ![src] = Null, ![dst] = hndl[src]]
  /\ UNCHANGED <<mine, nDesc, netVars>>

(* The destructor gives the handle back.                                   *)
Destroy(m) ==
  /\ state[m] # "none"
  /\ state' = [state EXCEPT ![m] = "none"]
  /\ segs' = [segs EXCEPT ![m] = <<>>]
  /\ leaf' = [leaf EXCEPT ![m] = 0]
  /\ open' = Closed(hndl[m])
  /\ hndl' = [hndl EXCEPT ![m] = Null]
  /\ UNCHANGED <<mine, nDesc, netVars>>

-----------------------------------------------------------------------------
(* Sending and receiving.                                                  *)

Handle(m) == IF hndl[m] = Null THEN 0 ELSE open[hndl[m]]

(* send_core(): the header names the number of segments; each segment's    *)
(* bytes are copied to the transport.  A leaf that is too big hoses the    *)
(* channel and nothing is sent.                                            *)
Send(m) ==
  /\ state[m] = "live" /\ ~hosed /\ Len(sent) < MaxSend
  /\ LET ss == [i \in 1..Len(segs[m]) |-> Emitted(segs[m][i])]
     IN  /\ segs' = [segs EXCEPT ![m] = ss]
         /\ \/ LeafTooBig(ss) /\ hosed' = TRUE /\ UNCHANGED <<wire, sent>>
            \/ /\ ~LeafTooBig(ss)
               /\ wire' = Append(wire, Lead(Len(ss), Handle(m)))
                            \o [i \in 1..Len(ss) |-> Cont(ss[i].size, Handle(m))]
               /\ sent' = Append(sent,
                           [sizes |-> [i \in 1..Len(ss) |->
                                         segs[m][i].used * WordSz],
                            hndl |-> Handle(m)])
               /\ UNCHANGED hosed
  /\ UNCHANGED <<state, leaf, hndl, fdVars, incoming, got>>

(* Mutation: the first blob is counted as one of those that follow.        *)
ReadLeadCounted ==
  /\ wire # <<>> /\ Head(wire).kind = "lead"
  /\ incoming' = [left |-> Head(wire).n - 1, sizes |-> <<>>,
                  hndl |-> Head(wire).hndl]
  /\ wire' = Tail(wire)
  /\ UNCHANGED <<msgVars, fdVars, hosed, got, sent>>

(* The first blob of a message goes to m_mdt_reader, and deserialize_mdt() *)
(* says how many follow.                                                   *)
ReadLead ==
  /\ wire # <<>> /\ Head(wire).kind = "lead"
  /\ incoming' = [left |-> Head(wire).n, sizes |-> <<>>,
                  hndl |-> Head(wire).hndl]
  /\ wire' = Tail(wire)
  /\ UNCHANGED <<msgVars, fdVars, hosed, got, sent>>

(* The others go to m_body_reader; deserialize_body() after the last.      *)
ReadCont ==
  /\ wire # <<>> /\ Head(wire).kind = "cont"
  /\ wire' = Tail(wire)
  /\ LET sizes == Append(incoming.sizes, Head(wire).size)
     IN  IF incoming.left = 1
         THEN /\ got' = Append(got, [sizes |-> sizes, hndl |-> incoming.hndl])
              /\ incoming' = Unread
         ELSE /\ incoming' = [incoming EXCEPT !.left = @ - 1, !.sizes = sizes]
              /\ UNCHANGED got
  /\ UNCHANGED <<msgVars, fdVars, hosed, sent>>

-----------------------------------------------------------------------------
Next ==
  \/ \E f \in Fd : Open(f)
  \/ \E m \in Obj : \/ \E h \in Fd \cup {Null} : Create(m, h) \/ Store(m, h)
                    \/ \E n \in 1..MaxLeaf : Grow(m, n)
                    \/ \E src \in Obj : Move(m, src)
                    \/ Destroy(m) \/ Send(m)
  \/ ReadLead \/ ReadCont

Spec == Init /\ [][Next]_vars
=============================================================================
