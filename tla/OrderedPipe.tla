---------------------------- MODULE OrderedPipe ----------------------------
(***************************************************************************)
(* What struc::Channel promises its two users, whatever carries the        *)
(* messages: "a single full-duplex pipe capable of transmitting messages". *)
(* A message belongs to a class - the notifications of one kind, or the    *)
(* responses to one request - and a user is handed the messages of a class *)
(* in the order they were sent, each at most once, with no gap.  Classes   *)
(* may overtake each other: a message nobody expects yet waits.  A peer    *)
(* whose channel is hosed sends nothing any more.                          *)
(***************************************************************************)
EXTENDS Naturals, Sequences

CONSTANTS Peers,  \* the two ends
          Class   \* the classes of messages

VARIABLES sent,   \* sent[p]: the classes of the messages p sent, in order
          handed, \* handed[p]: which of the other peer's messages p was handed
          hosed   \* the peers whose channel is hosed

vars == <<sent, handed, hosed>>

Opposite(p) == CHOOSE q \in Peers : q # p

Init == /\ sent = [p \in Peers |-> <<>>]
        /\ handed = [p \in Peers |-> {}]
        /\ hosed = {}

Send(p, c) == /\ p \notin hosed
              /\ sent' = [sent EXCEPT ![p] = Append(@, c)]
              /\ UNCHANGED <<handed, hosed>>

(* A call may return several messages at once.                             *)
Hand(p, ids) ==
  LET in == sent[Opposite(p)]
  IN  /\ ids # {} /\ ids \cap handed[p] = {}
      /\ \A i \in ids : \A j \in 1..i :
           in[j] = in[i] => j \in handed[p] \cup ids
      /\ handed' = [handed EXCEPT ![p] = @ \cup ids]
      /\ UNCHANGED <<sent, hosed>>

Hose(p) == /\ p \notin hosed
           /\ hosed' = hosed \cup {p}
           /\ UNCHANGED <<sent, handed>>

Next == \E p \in Peers :
          \/ \E c \in Class : Send(p, c)
          \/ \E ids \in SUBSET (1..Len(sent[Opposite(p)])) : Hand(p, ids)
          \/ Hose(p)

Spec == Init /\ [][Next]_vars

=============================================================================
