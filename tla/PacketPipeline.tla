--------------------------- MODULE PacketPipeline ---------------------------
(***************************************************************************)
(* What the packet chain promises (packetchain.cc): however many threads    *)
(* capture and process, packets go through the chains as if by one thread,  *)
(* one at a time; the packets of a device in the order one capture thread   *)
(* saw them; and each is judged against the unique packets before it.       *)
(* PacketChain implements this specification.                              *)
(***************************************************************************)
EXTENDS Naturals, Sequences, SequencesExt, FiniteSets

CONSTANTS Packets, Producers, Feed, Frame, NoFrame, assignment_id,
          DedupeSize, NoPacket

VARIABLES
  offered,    \* packets with their capture threads
  refused,    \* those a full queue refused
  accepted,   \* those that will go through the chains
  log         \* those that went through the chains, as numbered and judged

vars == <<offered, refused, accepted, log>>

Init ==
  /\ offered = {p \in Packets : \E c \in Producers : p \in ToSet(Feed[c])}
  /\ refused = {} /\ accepted = {} /\ log = <<>>

\* Where the unique packets are in the log: a unique packet is its own
\* original, one without a frame has none. The recent ones are the last
\* DedupeSize of them.
Uniques == {i \in DOMAIN log : log[i].original = log[i].packet}
Recent ==
  {i \in Uniques : Cardinality({j \in Uniques : j > i}) < DedupeSize}

Verdict(p) ==
  LET Same == {i \in Recent : Frame[log[i].packet] = Frame[p]}
      u == log[CHOOSE i \in Same : TRUE]
  IN  IF Frame[p] = NoFrame
      THEN [packet |-> p, number |-> 0, original |-> NoPacket]
      ELSE IF Same = {}
      THEN [packet |-> p, number |-> 2 * Cardinality(Uniques) + 1,
            original |-> p]
      ELSE [packet |-> p, number |-> u.number + 1, original |-> u.packet]

\* Packet q of the same device was captured earlier, by the same thread.
Earlier(q, p) ==
  /\ assignment_id[q] = assignment_id[p] /\ assignment_id[p] # 0
  /\ \E c \in Producers : \E i, j \in DOMAIN Feed[c] :
       i < j /\ Feed[c][i] = q /\ Feed[c][j] = p

Refuse(p) ==
  /\ p \in offered
  /\ offered' = offered \ {p} /\ refused' = refused \cup {p}
  /\ UNCHANGED <<accepted, log>>

Accept(p) ==
  /\ p \in offered
  /\ offered' = offered \ {p} /\ accepted' = accepted \cup {p}
  /\ UNCHANGED <<refused, log>>

Process(p) ==
  /\ p \in accepted /\ \A q \in accepted : ~Earlier(q, p)
  /\ accepted' = accepted \ {p}
  /\ log' = Append(log, Verdict(p))
  /\ UNCHANGED <<offered, refused>>

Next == \E p \in Packets : Refuse(p) \/ Accept(p) \/ Process(p)

Spec == Init /\ [][Next]_vars
=============================================================================
