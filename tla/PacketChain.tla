---------------------------- MODULE PacketChain ----------------------------
(***************************************************************************)
(* The packet chain (packetchain.cc): capture threads hand packets to      *)
(* process_packet, which assigns each one to the queue of a processing     *)
(* thread or drops it; every processing thread runs                        *)
(* packet_queue_processor, which de-duplicates the packet against the list *)
(* of recent unique packets and runs the handler chains over it.           *)
(*                                                                         *)
(* The handler vectors and how they are replaced are in HandlerChain.tla.  *)
(* Packet content is reduced to the CRC of its frame (Frame) and the       *)
(* identifier derived from its MAC addresses (assignment_id).              *)
(***************************************************************************)
EXTENDS Integers, Sequences, SequencesExt, FiniteSets

CONSTANTS
  Packets,            \* the packets captured in a behaviour
  Producers,          \* the capture (IO) threads
  Feed,               \* [Producers -> Seq(Packets)], what each one captures
  Frame,              \* [Packets -> hash of the link frame, or NoFrame]
  NoFrame,            \* a packet without a usable data chunk
  assignment_id,      \* [Packets -> Nat], 0 when no dissector set one
  n_packet_threads,   \* number of processing threads
  packet_queue_drop,  \* packet_backlog_limit, 0 for no limit
  DedupeSize,         \* length of dedupe_list (1024 in the code)
  NoPacket,           \* the null packet: no original, and the wake-up item
  NoThread            \* an unlocked mutex

Threads == 0 .. (n_packet_threads - 1)

ASSUME ThreadAssumption ==
  /\ n_packet_threads \in Nat \ {0}
  /\ DedupeSize \in Nat \ {0}
  /\ packet_queue_drop \in Nat
  /\ IsFiniteSet(Producers)
  /\ NoThread \notin Threads

ASSUME PacketAssumption ==
  /\ NoPacket \notin Packets
  /\ Feed \in [Producers -> Seq(Packets)]
  /\ assignment_id \in [Packets -> Nat]
  /\ DOMAIN Frame = Packets

\* A packet is an object of its own: one thread makes it and hands it over
\* once.
ASSUME CaptureAssumption ==
  /\ \A p \in Packets : \E c \in Producers : p \in ToSet(Feed[c])
  /\ \A c, d \in Producers : \A i \in DOMAIN Feed[c], j \in DOMAIN Feed[d] :
       Feed[c][i] = Feed[d][j] => c = d /\ i = j

VARIABLES
  feed,              \* what each capture thread has still to hand over
  ppc,               \* capture threads: "idle" or "measured"
  target,            \* the processing thread picked, and
  qsize,             \* the size read from its queue, before the decision
  dropped,           \* packets refused because the queue was too long
  queue,             \* [Threads -> Seq(Packets \cup {NoPacket})]
  wpc, wpkt,         \* processing threads: where they are, and their packet
  pack_no_mutex,     \* its owner
  mutex,             \* [Packets -> owner of kis_packet::mutex]
  dedupe_list, dedupe_list_pos, unique_packet_no,
  packet_no, duplicate, original,   \* the fields of each packet
  done,              \* the order in which packets went through the chains
  spindown,          \* globalreg->spindown
  destroy            \* progress of ~packet_chain

producerVars == <<feed, ppc, target, qsize, dropped>>
dedupeVars   == <<dedupe_list, dedupe_list_pos, unique_packet_no,
                  packet_no, duplicate, original>>
stopVars     == <<spindown, destroy>>
vars == <<producerVars, queue, wpc, wpkt, pack_no_mutex, mutex, dedupeVars,
          done, stopVars>>

-----------------------------------------------------------------------------
\* packno_map: a list entry that was never written has hash 0 and no packet.
EmptyEntry == [hash |-> NoFrame, packno |-> 0, original_pkt |-> NoPacket]

Init ==
  /\ feed = Feed
  /\ ppc = [c \in Producers |-> "idle"]
  /\ target = [c \in Producers |-> 0]
  /\ qsize = [c \in Producers |-> 0]
  /\ dropped = {}
  /\ queue = [t \in Threads |-> <<>>]
  /\ wpc = [t \in Threads |-> "top"]
  /\ wpkt = [t \in Threads |-> NoPacket]
  /\ pack_no_mutex = NoThread
  /\ mutex = [p \in Packets |-> NoThread]
  /\ dedupe_list = [i \in 0 .. (DedupeSize - 1) |-> EmptyEntry]
  /\ dedupe_list_pos = 0
  /\ unique_packet_no = 1
  /\ packet_no = [p \in Packets |-> 0]
  /\ duplicate = [p \in Packets |-> FALSE]
  /\ original = [p \in Packets |-> NoPacket]
  /\ done = <<>>
  /\ spindown = FALSE
  /\ destroy = [pc |-> "alive", i |-> 0]

packetchain_shutdown == destroy.pc # "alive"

\* Nothing runs any more when a deleted queue was used.
Up == destroy.pc # "crashed"

-----------------------------------------------------------------------------
(* Capture threads: process_packet.                                        *)

\* The threads a packet may be assigned to: by assignment_id when there is
\* one, else with its original, else any (rand()).
ProcessingIds_Any(p) == Threads
ProcessingIds(p) ==
  IF assignment_id[p] # 0 THEN {assignment_id[p] % n_packet_threads}
  ELSE IF original[p] # NoPacket
       THEN {assignment_id[original[p]] % n_packet_threads}
       ELSE Threads

\* The thread whose queue the destructor has deleted, and its slot cleared.
Deleted(t) == destroy.pc # "alive" /\ t < destroy.i

\* Pick the thread and read size_approx() of its queue.
Measure(c) ==
  /\ ppc[c] = "idle"
  /\ feed[c] # <<>>
  /\ \E t \in ProcessingIds(Head(feed[c])) :
       /\ ~Deleted(t)
       /\ target' = [target EXCEPT ![c] = t]
       /\ qsize' = [qsize EXCEPT ![c] = Len(queue[t])]
  /\ ppc' = [ppc EXCEPT ![c] = "measured"]
  /\ UNCHANGED <<feed, dropped, queue, wpc, wpkt, pack_no_mutex, mutex,
                 dedupeVars, done, stopVars>>

TooLong_Never(n) == FALSE
TooLong(n) == packet_queue_drop # 0 /\ n > packet_queue_drop

\* The call is over, whatever became of the packet.
Return(c) ==
  /\ ppc' = [ppc EXCEPT ![c] = "idle"]
  /\ feed' = [feed EXCEPT ![c] = Tail(@)]
  /\ UNCHANGED <<target, qsize>>

Drop_NoReturn(c) ==
  /\ ppc[c] = "measured"
  /\ TooLong(qsize[c])
  /\ dropped' = dropped \cup {Head(feed[c])}
  /\ queue' = [queue EXCEPT ![target[c]] = Append(@, Head(feed[c]))]
  /\ Return(c)
  /\ UNCHANGED <<wpc, wpkt, pack_no_mutex, mutex, dedupeVars, done, stopVars>>
Drop(c) ==
  /\ ppc[c] = "measured"
  /\ TooLong(qsize[c])
  /\ dropped' = dropped \cup {Head(feed[c])}
  /\ Return(c)
  /\ UNCHANGED <<queue, wpc, wpkt, pack_no_mutex, mutex, dedupeVars, done,
                 stopVars>>

Enqueue(c) ==
  /\ ppc[c] = "measured"
  /\ ~TooLong(qsize[c])
  /\ ~Deleted(target[c])
  /\ queue' = [queue EXCEPT ![target[c]] = Append(@, Head(feed[c]))]
  /\ Return(c)
  /\ UNCHANGED <<dropped, wpc, wpkt, pack_no_mutex, mutex, dedupeVars, done,
                 stopVars>>

-----------------------------------------------------------------------------
(* Processing threads: packet_queue_processor.                             *)

Goto(t, from, to) ==
  /\ wpc[t] = from
  /\ wpc' = [wpc EXCEPT ![t] = to]

\* The condition of the while loop.
LoopTop(t) ==
  /\ Goto(t, "top", IF packetchain_shutdown \/ spindown THEN "exit"
                    ELSE "wait")
  /\ UNCHANGED <<producerVars, queue, wpkt, pack_no_mutex, mutex, dedupeVars,
                 done, stopVars>>

\* moodycamel's queue is FIFO for each producing thread, and makes no promise
\* on the order of items of different ones: an item is next when nothing
\* queued before it comes from the same thread.
ProducerOf(item) ==
  IF item = NoPacket THEN NoPacket
  ELSE CHOOSE c \in Producers : item \in ToSet(Feed[c])
IsNext(q, i) ==
  \A j \in 1 .. (i - 1) : ProducerOf(q[j]) # ProducerOf(q[i])
Without(q, i) == RemoveAt(q, i)

IsWakeUp_Unchecked(item) == FALSE
IsWakeUp(item) == item = NoPacket

\* wait_dequeue returns an item; a null one ends the thread.
Dequeue(t) ==
  /\ \E i \in DOMAIN queue[t] :
       /\ IsNext(queue[t], i)
       /\ queue' = [queue EXCEPT ![t] = Without(@, i)]
       /\ wpkt' = [wpkt EXCEPT ![t] = queue[t][i]]
       /\ Goto(t, "wait", IF IsWakeUp(queue[t][i]) THEN "exit" ELSE "lock")
  /\ UNCHANGED <<producerVars, pack_no_mutex, mutex, dedupeVars, done,
                 stopVars>>

\* packet->mutex.lock()
LockPacket(t) ==
  /\ Goto(t, "lock", "gate")
  /\ mutex[wpkt[t]] = NoThread
  /\ mutex' = [mutex EXCEPT ![wpkt[t]] = t]
  /\ UNCHANGED <<producerVars, queue, wpkt, pack_no_mutex, dedupeVars, done,
                 stopVars>>

\* "gating all hash comparisons"
LockPackNo(t) ==
  /\ Goto(t, "gate", "dedupe")
  /\ pack_no_mutex = NoThread
  /\ pack_no_mutex' = t
  /\ UNCHANGED <<producerVars, queue, wpkt, mutex, dedupeVars, done, stopVars>>

\* The scan of dedupe_list and, for a match, the copy of the original's
\* components under the original's own lock; the last match wins, there being
\* no break in the loop.
ScanRange == 0 .. (DedupeSize - 1)
Matches(p) == {i \in ScanRange : dedupe_list[i].hash = Frame[p]}

\* What later packets with the same frame will be numbered, and the next
\* number that is free: the counter is incremented again for the list entry.
EntryPackno(n) == n + 1
NextUnique(n) == n + 2

MarkDuplicate(t, i) ==
  LET p == wpkt[t] IN
  /\ mutex[dedupe_list[i].original_pkt] \in {NoThread, t}
  /\ duplicate' = [duplicate EXCEPT ![p] = TRUE]
  /\ packet_no' = [packet_no EXCEPT ![p] = dedupe_list[i].packno]
  /\ original' = [original EXCEPT ![p] = dedupe_list[i].original_pkt]
  /\ UNCHANGED <<dedupe_list, dedupe_list_pos, unique_packet_no>>

MarkUnique(t) ==
  LET p == wpkt[t] IN
  /\ packet_no' = [packet_no EXCEPT ![p] = unique_packet_no]
  /\ dedupe_list' = [dedupe_list EXCEPT ![dedupe_list_pos % DedupeSize] =
                       [hash |-> Frame[p],
                        packno |-> EntryPackno(unique_packet_no),
                        original_pkt |-> p]]
  /\ dedupe_list_pos' = dedupe_list_pos + 1
  /\ unique_packet_no' = NextUnique(unique_packet_no)
  /\ UNCHANGED <<duplicate, original>>

\* Both locks stay held until the chains have run.
HoldLocks_NoGate(t) == pack_no_mutex' = NoThread /\ UNCHANGED mutex
HoldLocks_None(t) ==
  /\ pack_no_mutex' = NoThread
  /\ mutex' = [mutex EXCEPT ![wpkt[t]] = NoThread]
HoldLocks(t) == UNCHANGED <<pack_no_mutex, mutex>>

Dedupe(t) ==
  /\ Goto(t, "dedupe", "chains")
  /\ \/ /\ Frame[wpkt[t]] = NoFrame
        /\ UNCHANGED dedupeVars
     \/ /\ Frame[wpkt[t]] # NoFrame
        /\ \E i \in Matches(wpkt[t]) :
             /\ \A j \in Matches(wpkt[t]) : j <= i
             /\ MarkDuplicate(t, i)
     \/ /\ Frame[wpkt[t]] # NoFrame
        /\ Matches(wpkt[t]) = {}
        /\ MarkUnique(t)
  /\ HoldLocks(t)
  /\ UNCHANGED <<producerVars, queue, wpkt, done, stopVars>>

UnlockPacket_Forgotten(t) == UNCHANGED mutex
UnlockPacket(t) == mutex' = [mutex EXCEPT ![wpkt[t]] = NoThread]

\* The six chains run, then packet->mutex.unlock(). A component inserted in a
\* duplicate is inserted in its original too, under the original's lock.
RunChains(t) ==
  /\ Goto(t, "chains", "finish")
  /\ duplicate[wpkt[t]] => mutex[original[wpkt[t]]] \in {NoThread, t}
  /\ done' = Append(done, wpkt[t])
  /\ UnlockPacket(t)
  /\ UNCHANGED <<producerVars, queue, wpkt, pack_no_mutex, dedupeVars,
                 stopVars>>

\* The end of the loop body: pack_no_mutex is released by its scope.
Finish(t) ==
  /\ Goto(t, "finish", "top")
  /\ pack_no_mutex' = NoThread
  /\ wpkt' = [wpkt EXCEPT ![t] = NoPacket]
  /\ UNCHANGED <<producerVars, queue, mutex, dedupeVars, done, stopVars>>

-----------------------------------------------------------------------------
(* Shutdown.                                                               *)

\* A signal sets globalreg->spindown.
Spindown ==
  /\ ~spindown
  /\ spindown' = TRUE
  /\ UNCHANGED <<producerVars, queue, wpc, wpkt, pack_no_mutex, mutex,
                 dedupeVars, done, destroy>>

Unchanged_Destroy ==
  UNCHANGED <<producerVars, wpc, wpkt, pack_no_mutex, mutex, dedupeVars,
              done, spindown>>

\* ~packet_chain, run by SpindownKismet: the flag, then thread by thread a
\* null item to wake it up, and a join.
BeginDestroy ==
  /\ spindown
  /\ destroy.pc = "alive"
  /\ destroy' = [pc |-> "send", i |-> 0]
  /\ Unchanged_Destroy /\ UNCHANGED queue

WakeUp_Forgotten(q) == q
WakeUp(q) == Append(q, NoPacket)

SendNull ==
  /\ destroy.pc = "send"
  /\ queue' = [queue EXCEPT ![destroy.i] = WakeUp(@)]
  /\ destroy' = [destroy EXCEPT !.pc = "join"]
  /\ Unchanged_Destroy

Join ==
  /\ destroy.pc = "join"
  /\ wpc[destroy.i] = "exit"
  /\ destroy' = [pc |-> IF destroy.i + 1 = n_packet_threads THEN "gone"
                        ELSE "send",
                 i |-> destroy.i + 1]
  /\ Unchanged_Destroy /\ UNCHANGED queue

\* process_packet takes the queue from the slot, to measure it and to append to
\* it, and does not test the slot: a call that finds the thread deleted uses a
\* null pointer, or memory that was freed, and brings the server down.
UseDeleted ==
  /\ Up
  /\ \E c \in Producers :
       \/ /\ ppc[c] = "idle" /\ feed[c] # <<>>
          /\ \E t \in ProcessingIds(Head(feed[c])) : Deleted(t)
       \/ /\ ppc[c] = "measured" /\ ~TooLong(qsize[c])
          /\ Deleted(target[c])
  /\ destroy' = [destroy EXCEPT !.pc = "crashed"]
  /\ Unchanged_Destroy /\ UNCHANGED queue

-----------------------------------------------------------------------------
ProducerStep(c) == Up /\ (Measure(c) \/ Drop(c) \/ Enqueue(c))

ThreadStep(t) ==
  /\ Up
  /\ \/ LoopTop(t) \/ Dequeue(t) \/ LockPacket(t) \/ LockPackNo(t)
     \/ Dedupe(t) \/ RunChains(t) \/ Finish(t)

Next ==
  \/ \E c \in Producers : ProducerStep(c)
  \/ \E t \in Threads : ThreadStep(t)
  \/ Spindown \/ BeginDestroy \/ SendNull \/ Join \/ UseDeleted

\* The operating system runs every thread that can run: the processing
\* threads, and the main thread once it is in the destructor. Nothing forces
\* a packet to arrive or a signal to be sent.
Fairness ==
  /\ \A t \in Threads : WF_vars(ThreadStep(t))
  /\ WF_vars(SendNull) /\ WF_vars(Join)

Spec == Init /\ [][Next]_vars
FairSpec == Spec /\ Fairness

-----------------------------------------------------------------------------
(* Properties.                                                             *)

Entry == [hash : {Frame[p] : p \in Packets} \cup {NoFrame},
          packno : Nat, original_pkt : Packets \cup {NoPacket}]

TypeOK ==
  /\ feed \in [Producers -> Seq(Packets)]
  /\ ppc \in [Producers -> {"idle", "measured"}]
  /\ target \in [Producers -> Threads]
  /\ qsize \in [Producers -> Nat]
  /\ dropped \subseteq Packets
  /\ queue \in [Threads -> Seq(Packets \cup {NoPacket})]
  /\ wpc \in [Threads -> {"top", "wait", "lock", "gate", "dedupe", "chains",
                          "finish", "exit"}]
  /\ wpkt \in [Threads -> Packets \cup {NoPacket}]
  /\ pack_no_mutex \in Threads \cup {NoThread}
  /\ mutex \in [Packets -> Threads \cup {NoThread}]
  /\ dedupe_list \in [0 .. (DedupeSize - 1) -> Entry]
  /\ dedupe_list_pos \in Nat
  /\ unique_packet_no \in Nat
  /\ packet_no \in [Packets -> Nat]
  /\ duplicate \in [Packets -> BOOLEAN]
  /\ original \in [Packets -> Packets \cup {NoPacket}]
  /\ done \in Seq(Packets)
  /\ spindown \in BOOLEAN
  /\ destroy \in [pc : {"alive", "send", "join", "gone", "crashed"}, i : Nat]

\* A call or an iteration that is under way has its packet.
HasPacket ==
  /\ \A c \in Producers : ppc[c] = "measured" => feed[c] # <<>>
  /\ \A t \in Threads :
       wpc[t] \in {"lock", "gate", "dedupe", "chains", "finish"}
         => wpkt[t] \in Packets

\* The variables have their types, and a call or an iteration that is under
\* way has a packet: the null item that ends a thread is never processed
\* (packetchain.cc:392).
TypeInv == TypeOK /\ HasPacket

InGate(t) == wpc[t] \in {"dedupe", "chains", "finish"}

\* The handler chains, whose handlers update shared trackers and read the
\* dedupe list, are never run by two processing threads at the same time:
\* pack_no_mutex, taken for the hash comparison, is kept until they are done
\* (packetchain.cc:457).
ChainsSerial ==
  \A t, u \in Threads : InGate(t) /\ InGate(u) => t = u

\* When a packet is recognised as a duplicate, its original has been through
\* every chain and is itself no duplicate, so the decoded components copied
\* from it are complete ("wait until everything is done being changed in the
\* packet before we can copy", packetchain.cc:470).
OriginalComplete ==
  \A p \in Packets : duplicate[p] =>
    /\ original[p] \in ToSet(done)
    /\ ~duplicate[original[p]]
    /\ Frame[original[p]] = Frame[p]

NullItems(t) ==
  IF \/ Deleted(t)
     \/ destroy.pc \in {"join", "crashed"} /\ t = destroy.i
  THEN 1 ELSE 0

\* packet_queue_drop is tested before the packet is queued and by all capture
\* threads at once, so a queue may exceed it, but by no more than one packet
\* for each capture thread (packetchain.cc:591-636).
QueueBound ==
  packet_queue_drop # 0 =>
    \A t \in Threads :
      Len(queue[t]) <= packet_queue_drop + Cardinality(Producers)
                         + NullItems(t)

\* Packets with one assignment_id that one capture thread hands over reach the
\* chains in the order of capture: the identifier fixes the thread, and the
\* queue keeps the order of one producer (packetchain.cc:581-589).
DeviceOrder ==
  \A c \in Producers : \A i, j \in DOMAIN Feed[c] :
    /\ i < j
    /\ assignment_id[Feed[c][i]] = assignment_id[Feed[c][j]]
    /\ assignment_id[Feed[c][i]] # 0
    => \A m, n \in DOMAIN done :
         done[m] = Feed[c][i] /\ done[n] = Feed[c][j] => m < n

\* The places a packet can be in, and whether it is in one.
Busy(t) == wpc[t] \in {"lock", "gate", "dedupe", "chains"}
Places ==
  ({"captured"} \X Producers) \cup ({"queued", "processed"} \X Threads)
    \cup ({"refused", "finished"} \X {NoThread})
At(p, x) ==
  \/ x[1] = "captured"  /\ p \in ToSet(feed[x[2]])
  \/ x[1] = "queued"    /\ p \in ToSet(queue[x[2]])
  \/ x[1] = "processed" /\ Busy(x[2]) /\ wpkt[x[2]] = p
  \/ x[1] = "refused"   /\ p \in dropped
  \/ x[1] = "finished"  /\ p \in ToSet(done)
NoRepeat(s) ==
  \A i, j \in DOMAIN s : s[i] = s[j] /\ s[i] # NoPacket => i = j

\* A packet is always in exactly one place: with its capture thread, refused,
\* queued, being processed, or processed, and there once; none is lost or run
\* twice between process_packet and the end of the chains.
PacketConserved ==
  /\ \A p \in Packets : \E x \in Places : {y \in Places : At(p, y)} = {x}
  /\ \A c \in Producers : NoRepeat(feed[c])
  /\ \A t \in Threads : NoRepeat(queue[t])
  /\ NoRepeat(done)

\* The pipeline that the threads, queues and locks implement.
LogEntry(p) ==
  [packet |-> p, number |-> packet_no[p],
   original |-> IF duplicate[p] THEN original[p]
                ELSE IF Frame[p] = NoFrame THEN NoPacket ELSE p]
Pipeline == INSTANCE PacketPipeline WITH
  offered  <- {p \in Packets : \E c \in Producers : p \in ToSet(feed[c])},
  refused  <- dropped,
  accepted <- {p \in Packets : \E t \in Threads :
                 p \in ToSet(queue[t]) \/ (Busy(t) /\ wpkt[t] = p)},
  log      <- [i \in DOMAIN done |-> LogEntry(done[i])]

\* Packets are processed as if by one thread: each goes through the chains at
\* once, numbered and judged unique or duplicate by those before it alone, the
\* packets of a device in order (process_packet, packet_queue_processor).
ImplementsPipeline == Pipeline!Spec

\* While Kismet is not shutting down every packet in a queue is processed.
QueuedIsProcessed ==
  \A p \in Packets :
    (\E t \in Threads : p \in ToSet(queue[t]))
      ~> (p \in ToSet(done) \/ spindown)

\* A destructor that runs when the capture threads have nothing left to hand
\* over ends: every processing thread is woken up, whatever it is doing and
\* whatever locks it waits for, and joined. One that runs while packets still
\* come ends too, unless a capture thread comes to a queue that is already
\* deleted, which ends the server (packetchain.cc:262-289, 591, 634).
CapturesOver == \A c \in Producers : feed[c] = <<>>
DestructorEnds ==
  /\ (destroy.pc = "send") ~> (destroy.pc = "gone" \/ ~Up)
  /\ (destroy.pc = "send" /\ CapturesOver) ~> (destroy.pc = "gone")
=============================================================================
