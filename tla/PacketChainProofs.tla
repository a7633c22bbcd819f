------------------------- MODULE PacketChainProofs -------------------------
(***************************************************************************)
(* Proofs about PacketChain for any number of capture and processing       *)
(* threads, any packets and any limits.                                    *)
(***************************************************************************)
EXTENDS PacketChain, FiniteSetTheorems, TLAPS

\* Dequeue removes one item: what is left are items of the queue, one fewer.
LEMMA WithoutShorter ==
  ASSUME NEW S, NEW q \in Seq(S), NEW i \in DOMAIN q
  PROVE  Without(q, i) \in Seq(S) /\ Len(Without(q, i)) = Len(q) - 1
  BY DEF Without, RemoveAt

\* The initial state has the right types.
LEMMA InitTyped == Init => TypeInv
<1> SUFFICES ASSUME Init PROVE TypeInv
  OBVIOUS
<1> USE ThreadAssumption, PacketAssumption
<1>1. EmptyEntry \in Entry
  BY DEF EmptyEntry, Entry
<1>2. dedupe_list \in [0 .. (DedupeSize - 1) -> Entry]
  BY <1>1 DEF Init
<1>3. feed \in [Producers -> Seq(Packets)] /\ dropped \subseteq Packets
  BY DEF Init
<1>4. /\ ppc \in [Producers -> {"idle", "measured"}]
      /\ target \in [Producers -> Threads]
      /\ qsize \in [Producers -> Nat]
  BY DEF Init, Threads
<1>5. queue \in [Threads -> Seq(Packets \cup {NoPacket})]
  BY DEF Init
<1>6. /\ wpc \in [Threads -> {"top", "wait", "lock", "gate", "dedupe",
                              "chains", "finish", "exit"}]
      /\ wpkt \in [Threads -> Packets \cup {NoPacket}]
      /\ pack_no_mutex \in Threads \cup {NoThread}
      /\ mutex \in [Packets -> Threads \cup {NoThread}]
  BY DEF Init
<1>7. /\ dedupe_list_pos \in Nat /\ unique_packet_no \in Nat
      /\ packet_no \in [Packets -> Nat]
      /\ original \in [Packets -> Packets \cup {NoPacket}]
      /\ done \in Seq(Packets)
  BY DEF Init
<1>7a. duplicate \in [Packets -> BOOLEAN] /\ spindown \in BOOLEAN
  BY DEF Init
<1>7b. destroy \in [pc : {"alive", "send", "join", "gone"}, i : Nat]
  BY DEF Init
<1>8. HasPacket
  BY DEF Init, HasPacket
<1>9. TypeOK
  BY <1>2, <1>3, <1>4, <1>5, <1>6, <1>7, <1>7a, <1>7b DEF TypeOK
<1> QED
  BY <1>8, <1>9 DEF TypeInv

\* A capture thread in process_packet changes its own fields, and appends its
\* packet to one queue at most.
LEMMA ProducerTyped ==
  ASSUME NEW c \in Producers, TypeInv, ProducerStep(c)
  PROVE  TypeInv'
<1> USE ThreadAssumption, PacketAssumption DEF TypeInv
<1>1. CASE Measure(c)
  <2>1. PICK t \in Threads :
          /\ target' = [target EXCEPT ![c] = t]
          /\ qsize' = [qsize EXCEPT ![c] = Len(queue[t])]
    <3>1. ProcessingIds(Head(feed[c])) \subseteq Threads
      <4>1. Head(feed[c]) \in Packets
        <5>1. feed[c] \in Seq(Packets) /\ feed[c] # <<>>
          BY <1>1 DEF Measure, TypeOK
        <5> QED BY <5>1
      <4>2. \A a \in Nat : a % n_packet_threads \in Threads
        BY DEF Threads
      <4>3. \A a \in Packets : assignment_id[a] \in Nat
        OBVIOUS
      <4>4. original \in [Packets -> Packets \cup {NoPacket}]
        BY DEF TypeOK
      <4> QED
        BY <4>1, <4>2, <4>3, <4>4 DEF ProcessingIds
    <3> QED BY <1>1, <3>1 DEF Measure
  <2>2. /\ target' \in [Producers -> Threads]
        /\ qsize' \in [Producers -> Nat]
        /\ ppc' \in [Producers -> {"idle", "measured"}]
    BY <1>1, <2>1 DEF Measure, TypeOK
  <2>3. TypeOK'
    BY <1>1, <2>2 DEF Measure, TypeOK, dedupeVars, stopVars
  <2>4. HasPacket'
    BY <1>1 DEF Measure, HasPacket, TypeOK
  <2> QED BY <2>3, <2>4
<1>2. ASSUME Return(c), ppc[c] = "measured"
      PROVE  /\ feed' \in [Producers -> Seq(Packets)]
             /\ ppc' \in [Producers -> {"idle", "measured"}]
             /\ target' = target /\ qsize' = qsize
             /\ \A d \in Producers : ppc'[d] = "measured" => feed'[d] # <<>>
  <2>1. Tail(feed[c]) \in Seq(Packets)
    BY <1>2 DEF TypeOK, HasPacket
  <2> QED BY <1>2, <2>1 DEF Return, TypeOK, HasPacket
<1>3. CASE Drop(c)
  <2>1. dropped' \subseteq Packets
    <3>1. feed[c] \in Seq(Packets) /\ feed[c] # <<>>
      BY <1>3 DEF Drop, TypeOK, HasPacket
    <3>2. Head(feed[c]) \in Packets
      BY <3>1
    <3> QED BY <1>3, <3>2 DEF Drop, TypeOK
  <2>2. TypeOK'
    BY <1>2, <1>3, <2>1 DEF Drop, TypeOK, dedupeVars, stopVars
  <2>3. HasPacket'
    BY <1>2, <1>3 DEF Drop, HasPacket
  <2> QED BY <2>2, <2>3
<1>4. CASE Enqueue(c)
  <2>1. queue' \in [Threads -> Seq(Packets \cup {NoPacket})]
    <3>1. feed[c] \in Seq(Packets) /\ feed[c] # <<>>
      BY <1>4 DEF Enqueue, TypeOK, HasPacket
    <3>2. Head(feed[c]) \in Packets \cup {NoPacket}
      BY <3>1
    <3>3. \A t \in Threads : queue[t] \in Seq(Packets \cup {NoPacket})
      BY DEF TypeOK
    <3>4. \A t \in Threads :
            Append(queue[t], Head(feed[c])) \in Seq(Packets \cup {NoPacket})
      BY <3>2, <3>3
    <3> QED BY <1>4, <3>4 DEF Enqueue, TypeOK
  <2>2. TypeOK'
    BY <1>2, <1>4, <2>1 DEF Enqueue, TypeOK, dedupeVars, stopVars
  <2>3. HasPacket'
    BY <1>2, <1>4 DEF Enqueue, HasPacket
  <2> QED BY <2>2, <2>3
<1> QED BY <1>1, <1>3, <1>4 DEF ProducerStep

\* The types of the parts of a step of a processing thread.
LEMMA ThreadTyped ==
  ASSUME NEW t \in Threads, TypeInv, ThreadStep(t)
  PROVE  TypeInv'
<1> USE ThreadAssumption, PacketAssumption DEF TypeInv
<1>1. CASE LoopTop(t)
  BY <1>1 DEF LoopTop, Goto, TypeOK, HasPacket, producerVars, dedupeVars,
              stopVars
<1>2. CASE Dequeue(t)
  <2>1. PICK i \in DOMAIN queue[t] :
          /\ queue' = [queue EXCEPT ![t] = Without(@, i)]
          /\ wpkt' = [wpkt EXCEPT ![t] = queue[t][i]]
          /\ wpc' = [wpc EXCEPT ![t] = IF IsWakeUp(queue[t][i]) THEN "exit"
                                       ELSE "lock"]
    BY <1>2 DEF Dequeue, Goto
  <2>2. /\ queue[t] \in Seq(Packets \cup {NoPacket})
        /\ queue[t][i] \in Packets \cup {NoPacket}
    BY <2>1 DEF TypeOK
  <2>3. /\ queue' \in [Threads -> Seq(Packets \cup {NoPacket})]
        /\ wpkt' \in [Threads -> Packets \cup {NoPacket}]
    BY <2>1, <2>2, WithoutShorter DEF TypeOK
  <2>4. TypeOK'
    BY <1>2, <2>1, <2>3 DEF Dequeue, TypeOK, producerVars, dedupeVars, stopVars
  <2>5. HasPacket'
    BY <1>2, <2>1, <2>2
       DEF Dequeue, IsWakeUp, TypeOK, HasPacket, producerVars
  <2> QED BY <2>4, <2>5
<1>3. CASE LockPacket(t)
  BY <1>3 DEF LockPacket, Goto, TypeOK, HasPacket, producerVars, dedupeVars,
              stopVars
<1>4. CASE LockPackNo(t)
  BY <1>4 DEF LockPackNo, Goto, TypeOK, HasPacket, producerVars, dedupeVars,
              stopVars
<1>5. CASE Dedupe(t)
  <2>1. wpkt[t] \in Packets
    BY <1>5 DEF Dedupe, Goto, HasPacket
  <2> DEFINE Numbers ==
               /\ dedupe_list \in [0 .. (DedupeSize - 1) -> Entry]
               /\ dedupe_list_pos \in Nat /\ unique_packet_no \in Nat
               /\ packet_no \in [Packets -> Nat]
             Marks ==
               /\ duplicate \in [Packets -> BOOLEAN]
               /\ original \in [Packets -> Packets \cup {NoPacket}]
  <2>2. Numbers' /\ Marks'
    <3>1. CASE UNCHANGED dedupeVars
      BY <3>1 DEF TypeOK, dedupeVars
    <3>2. ASSUME NEW i \in Matches(wpkt[t]), MarkDuplicate(t, i)
          PROVE  Numbers' /\ Marks'
      BY <2>1, <3>2 DEF MarkDuplicate, TypeOK, Matches, ScanRange, Entry
    <3>3. CASE MarkUnique(t)
      <4>1. [hash |-> Frame[wpkt[t]],
             packno |-> EntryPackno(unique_packet_no),
             original_pkt |-> wpkt[t]] \in Entry
        BY <2>1 DEF TypeOK, Entry, EntryPackno
      <4>2. dedupe_list' \in [0 .. (DedupeSize - 1) -> Entry]
        BY <3>3, <4>1 DEF MarkUnique, TypeOK
      <4>3. NextUnique(unique_packet_no) \in Nat /\ dedupe_list_pos + 1 \in Nat
        BY DEF TypeOK, NextUnique
      <4>4. dedupe_list_pos' \in Nat /\ unique_packet_no' \in Nat
        BY <3>3, <4>3 DEF MarkUnique
      <4>5. packet_no' \in [Packets -> Nat]
        BY <2>1, <3>3 DEF MarkUnique, TypeOK
      <4>6. /\ duplicate' \in [Packets -> BOOLEAN]
            /\ original' \in [Packets -> Packets \cup {NoPacket}]
        BY <3>3 DEF MarkUnique, TypeOK
      <4> QED
        BY <4>2, <4>4, <4>5, <4>6
    <3> QED BY <1>5, <3>1, <3>2, <3>3 DEF Dedupe
  <2>3. TypeOK'
    BY <1>5, <2>2 DEF Dedupe, Goto, HoldLocks, TypeOK, producerVars, stopVars
  <2>4. HasPacket'
    BY <1>5 DEF Dedupe, Goto, TypeOK, HasPacket, producerVars
  <2> QED BY <2>3, <2>4
<1>6. CASE RunChains(t)
  <2>1. done' \in Seq(Packets)
    BY <1>6 DEF RunChains, Goto, TypeOK, HasPacket
  <2>2. TypeOK'
    BY <1>6, <2>1 DEF RunChains, UnlockPacket, Goto, TypeOK, producerVars,
                      dedupeVars, stopVars
  <2>3. HasPacket'
    BY <1>6 DEF RunChains, Goto, TypeOK, HasPacket, producerVars
  <2> QED BY <2>2, <2>3
<1>7. CASE Finish(t)
  BY <1>7 DEF Finish, Goto, TypeOK, HasPacket, producerVars, dedupeVars,
              stopVars
<1> QED
  BY <1>1, <1>2, <1>3, <1>4, <1>5, <1>6, <1>7 DEF ThreadStep

\* The types of a step of the shutdown.
LEMMA StopTyped ==
  ASSUME TypeInv, Spindown \/ BeginDestroy \/ SendNull \/ Join \/ UseDeleted
  PROVE  TypeInv'
<1> USE ThreadAssumption, PacketAssumption DEF TypeInv
<1>1. CASE Spindown
  BY <1>1 DEF Spindown, TypeOK, HasPacket, producerVars, dedupeVars
<1>2. CASE BeginDestroy
  BY <1>2 DEF BeginDestroy, Unchanged_Destroy, TypeOK, HasPacket,
              producerVars, dedupeVars
<1>3. CASE SendNull
  <2>1. queue' \in [Threads -> Seq(Packets \cup {NoPacket})]
    <3>1. \A t \in Threads : queue[t] \in Seq(Packets \cup {NoPacket})
      BY DEF TypeOK
    <3>2. \A t \in Threads :
            WakeUp(queue[t]) \in Seq(Packets \cup {NoPacket})
      BY <3>1 DEF WakeUp
    <3> QED BY <1>3, <3>2 DEF SendNull, TypeOK
  <2> QED
    BY <1>3, <2>1 DEF SendNull, Unchanged_Destroy, TypeOK, HasPacket,
                      producerVars, dedupeVars
<1>4. CASE Join
  BY <1>4 DEF Join, Unchanged_Destroy, TypeOK, HasPacket, producerVars,
              dedupeVars
<1>5. CASE UseDeleted
  BY <1>5 DEF UseDeleted, Unchanged_Destroy, TypeOK, HasPacket, producerVars,
              dedupeVars
<1> QED BY <1>1, <1>2, <1>3, <1>4, <1>5

\* Whatever the capture threads, the processing threads and the destructor do,
\* the variables keep their types. TypeOK is not inductive alone:
\* Tail(feed[c]) and Append(done, wpkt[t]) have a type because the thread that
\* evaluates them has a packet, which is what HasPacket adds.
THEOREM TypeCorrect == Spec => []TypeInv
<1>1. TypeInv /\ [Next]_vars => TypeInv'
  <2> SUFFICES ASSUME TypeInv, [Next]_vars PROVE TypeInv'
    OBVIOUS
  <2>1. CASE UNCHANGED vars
    BY <2>1 DEF TypeInv, TypeOK, HasPacket, vars, producerVars, dedupeVars,
                stopVars
  <2> QED BY <2>1, ProducerTyped, ThreadTyped, StopTyped DEF Next
<1> QED BY <1>1, InitTyped, PTL DEF Spec

-----------------------------------------------------------------------------
\* A processing thread between the hash comparison and the end of the chains
\* owns pack_no_mutex.
GateOwned == \A t \in Threads : InGate(t) => pack_no_mutex = t

\* The thread that holds the gate is its owner: the mutex is taken with it and
\* released where the chains end.
LEMMA GateIsOwned == Spec => []GateOwned
<1>1. Init => GateOwned
  BY DEF Init, GateOwned, InGate
<1>2. TypeInv /\ GateOwned /\ [Next]_vars => GateOwned'
  <2> SUFFICES ASSUME TypeInv, GateOwned, [Next]_vars PROVE GateOwned'
    OBVIOUS
  <2> USE ThreadAssumption DEF TypeInv, TypeOK, GateOwned, InGate
  <2>1. ASSUME wpc' = wpc, pack_no_mutex' = pack_no_mutex PROVE GateOwned'
    BY <2>1
  <2>2. ASSUME NEW c \in Producers, ProducerStep(c) PROVE GateOwned'
    BY <2>1, <2>2 DEF ProducerStep, Measure, Drop, Enqueue
  <2>3. CASE Spindown \/ BeginDestroy \/ SendNull \/ Join \/ UseDeleted
    BY <2>1, <2>3 DEF Spindown, BeginDestroy, SendNull, Join, UseDeleted,
                   Unchanged_Destroy
  <2>4. ASSUME NEW t \in Threads, ThreadStep(t) PROVE GateOwned'
    <3>1. CASE LoopTop(t) \/ Dequeue(t) \/ LockPacket(t)
      BY <3>1 DEF LoopTop, Dequeue, LockPacket, Goto
    <3>2. CASE LockPackNo(t)
      BY <3>2 DEF LockPackNo, Goto
    <3>3. CASE Dedupe(t)
      BY <3>3 DEF Dedupe, Goto, HoldLocks
    <3>4. CASE RunChains(t)
      BY <3>4 DEF RunChains, Goto
    <3>5. CASE Finish(t)
      BY <3>5 DEF Finish, Goto
    <3> QED BY <2>4, <3>1, <3>2, <3>3, <3>4, <3>5 DEF ThreadStep
  <2>5. CASE UNCHANGED vars
    BY <2>1, <2>5 DEF vars
  <2> QED BY <2>2, <2>3, <2>4, <2>5 DEF Next
<1> QED BY <1>1, <1>2, TypeCorrect, PTL DEF Spec

\* The handler chains are serialised: no two processing threads are between
\* taking pack_no_mutex and releasing it.
THEOREM ChainsAreSerial == Spec => []ChainsSerial
<1>1. GateOwned => ChainsSerial
  BY DEF GateOwned, ChainsSerial
<1> QED BY <1>1, GateIsOwned, PTL

-----------------------------------------------------------------------------
\* The capture threads that have found room in the queue of t and have yet to
\* append their packet: the test and the append are not one step.
Pending(t) ==
  {c \in Producers :
     ppc[c] = "measured" /\ target[c] = t /\ ~TooLong(qsize[c])}

\* What is queued and what is about to be; QueueBound alone is not inductive,
\* since a thread that measured long ago appends to a queue others have
\* filled.
PendingBound ==
  packet_queue_drop # 0 =>
    \A t \in Threads :
      Len(queue[t]) + Cardinality(Pending(t))
        <= packet_queue_drop + Cardinality(Producers) + NullItems(t)

\* The capture threads that wait to append to one queue are some of them.
LEMMA PendingFinite ==
  ASSUME NEW t
  PROVE  /\ IsFiniteSet(Pending(t))
         /\ Cardinality(Pending(t)) \in Nat
         /\ Cardinality(Producers) \in Nat
         /\ Cardinality(Pending(t)) <= Cardinality(Producers)
<1>1. Pending(t) \subseteq Producers
  BY DEF Pending
<1> QED BY <1>1, FS_Subset, FS_CardinalityType, ThreadAssumption

\* The number of null items in a queue, as the destructor has sent them.
LEMMA NullItemsNat == ASSUME NEW t PROVE NullItems(t) \in {0, 1}
  BY DEF NullItems

\* A step of a capture thread: Measure may add its thread to Pending, but only
\* for a queue that is then no longer than the limit; Enqueue takes it out as
\* the queue grows.
LEMMA ProducerKeepsBound ==
  ASSUME NEW c \in Producers, TypeInv, PendingBound, ProducerStep(c)
  PROVE  PendingBound'
<1> SUFFICES ASSUME packet_queue_drop # 0, NEW t \in Threads
             PROVE  Len(queue'[t]) + Cardinality(Pending(t)')
                      <= packet_queue_drop + Cardinality(Producers)
                           + NullItems(t)'
  BY DEF PendingBound
<1>0. /\ packet_queue_drop \in Nat
      /\ \A u \in Threads : queue[u] \in Seq(Packets \cup {NoPacket})
      /\ DOMAIN queue = Threads
      /\ NullItems(t) \in {0, 1}
  BY ThreadAssumption, NullItemsNat DEF TypeInv, TypeOK
<1>t. /\ ppc \in [Producers -> {"idle", "measured"}]
      /\ target \in [Producers -> Threads]
      /\ qsize \in [Producers -> Nat]
  BY DEF TypeInv, TypeOK
<1>1. NullItems(t)' = NullItems(t)
  BY DEF ProducerStep, Measure, Drop, Enqueue, stopVars, NullItems, Deleted
<1>2. /\ Cardinality(Pending(t)) \in Nat /\ Cardinality(Producers) \in Nat
      /\ IsFiniteSet(Pending(t))
  BY PendingFinite
<1>3. Pending(t)' \subseteq Producers
  BY DEF Pending
<1>4. /\ Cardinality(Pending(t)') \in Nat
      /\ Cardinality(Pending(t)') <= Cardinality(Producers)
  BY <1>3, FS_Subset, FS_CardinalityType, ThreadAssumption
<1>5. Len(queue[t]) \in Nat
  BY <1>0
<1>6. Len(queue[t]) + Cardinality(Pending(t))
        <= packet_queue_drop + Cardinality(Producers) + NullItems(t)
  BY <1>0 DEF PendingBound
<1>7. CASE Measure(c)
  <2>1. queue' = queue
    BY <1>7 DEF Measure
  <2>2. CASE Pending(t)' \subseteq Pending(t)
    <3>1. Cardinality(Pending(t)') <= Cardinality(Pending(t))
      BY <2>2, <1>2, FS_Subset
    <3> QED
      BY <2>1, <3>1, <1>1, <1>2, <1>4, <1>5, <1>6, <1>0
  <2>3. CASE ~(Pending(t)' \subseteq Pending(t))
    <3>1. /\ target'[c] = t
          /\ ~TooLong(qsize'[c])
      BY <1>7, <1>t, <2>3 DEF Measure, Pending
    <3>2. qsize'[c] = Len(queue[t])
      BY <1>7, <1>t, <3>1 DEF Measure
    <3>3. Len(queue[t]) <= packet_queue_drop
      BY <3>1, <3>2, <1>5, <1>0 DEF TooLong
    <3> QED
      BY <2>1, <3>3, <1>1, <1>2, <1>4, <1>5, <1>0
  <2> QED BY <2>2, <2>3
<1>8. CASE Drop(c)
  <2>1. queue' = queue
    BY <1>8 DEF Drop
  <2>2. Pending(t)' \subseteq Pending(t)
    BY <1>8, <1>t DEF Drop, Return, Pending
  <2>3. Cardinality(Pending(t)') <= Cardinality(Pending(t))
    BY <2>2, <1>2, FS_Subset
  <2> QED
    BY <2>1, <2>3, <1>1, <1>2, <1>4, <1>5, <1>6, <1>0
<1>9. CASE Enqueue(c)
  <2>1. Pending(t)' = Pending(t) \ {c}
    BY <1>9, <1>t DEF Enqueue, Return, Pending
  <2>2. Cardinality(Pending(t)') =
          IF c \in Pending(t) THEN Cardinality(Pending(t)) - 1
          ELSE Cardinality(Pending(t))
    BY <2>1, <1>2, FS_RemoveElement
  <2>3. CASE target[c] = t
    <3>1. c \in Pending(t)
      BY <1>9, <2>3 DEF Enqueue, Pending
    <3>2. Len(queue'[t]) = Len(queue[t]) + 1
      BY <1>0, <1>9, <2>3 DEF Enqueue
    <3> QED
      BY <2>2, <3>1, <3>2, <1>1, <1>2, <1>4, <1>5, <1>6, <1>0
  <2>4. CASE target[c] # t
    <3>1. queue'[t] = queue[t]
      BY <1>0, <1>9, <2>4 DEF Enqueue
    <3>2. Cardinality(Pending(t)') <= Cardinality(Pending(t))
      BY <2>2, <1>2
    <3> QED
      BY <3>1, <3>2, <1>1, <1>2, <1>4, <1>5, <1>6, <1>0
  <2> QED BY <2>3, <2>4
<1> QED BY <1>7, <1>8, <1>9 DEF ProducerStep

\* No other step adds to a queue, except for the null item of the destructor,
\* which NullItems counts.
LEMMA OthersKeepBound ==
  ASSUME TypeInv, PendingBound,
         \/ \E t \in Threads : ThreadStep(t)
         \/ Spindown \/ BeginDestroy \/ SendNull \/ Join \/ UseDeleted
  PROVE  PendingBound'
<1> SUFFICES ASSUME packet_queue_drop # 0, NEW t \in Threads
             PROVE  Len(queue'[t]) + Cardinality(Pending(t)')
                      <= packet_queue_drop + Cardinality(Producers)
                           + NullItems(t)'
  BY DEF PendingBound
<1> USE ThreadAssumption DEF TypeInv, TypeOK
<1>1. Pending(t)' = Pending(t)
  BY DEF ThreadStep, LoopTop, Dequeue, LockPacket, LockPackNo, Dedupe,
         RunChains, Finish, Spindown, BeginDestroy, SendNull, Join,
         UseDeleted, Unchanged_Destroy, producerVars, Pending
<1>2. /\ Cardinality(Pending(t)) \in Nat /\ Cardinality(Producers) \in Nat
      /\ Len(queue[t]) \in Nat /\ queue[t] \in Seq(Packets \cup {NoPacket})
  BY PendingFinite
<1>3. Len(queue[t]) + Cardinality(Pending(t))
        <= packet_queue_drop + Cardinality(Producers) + NullItems(t)
  BY DEF PendingBound
<1>n. NullItems(t) \in {0, 1}
  BY NullItemsNat
<1>4. ASSUME Len(queue'[t]) \in Nat, Len(queue'[t]) <= Len(queue[t]),
             NullItems(t)' >= NullItems(t)
      PROVE  Len(queue'[t]) + Cardinality(Pending(t)')
               <= packet_queue_drop + Cardinality(Producers) + NullItems(t)'
  <2>1. NullItems(t) \in {0, 1} /\ NullItems(t)' \in {0, 1}
    BY NullItemsNat DEF NullItems
  <2> QED BY <1>1, <1>2, <1>3, <1>4, <2>1
<1>5. ASSUME NEW u \in Threads, ThreadStep(u)
      PROVE  Len(queue'[t]) \in Nat /\ Len(queue'[t]) <= Len(queue[t])
  <2>1. CASE Dequeue(u)
    <3>1. PICK i \in DOMAIN queue[u] :
            queue' = [queue EXCEPT ![u] = Without(@, i)]
      BY <2>1 DEF Dequeue
    <3>2. CASE u = t
      <4>1. Len(Without(queue[t], i)) = Len(queue[t]) - 1
        BY <3>1, <3>2, <1>2, WithoutShorter
      <4>2. Len(queue[t]) > 0
        BY <3>1, <3>2, <1>2
      <4> QED BY <3>1, <3>2, <4>1, <4>2, <1>2
    <3> QED BY <3>1, <3>2, <1>2
  <2>2. CASE ~Dequeue(u)
    BY <1>2, <1>5, <2>2 DEF ThreadStep, LoopTop, LockPacket, LockPackNo,
                            Dedupe, RunChains, Finish
  <2> QED BY <2>1, <2>2
<1>6. ASSUME NEW u \in Threads, ThreadStep(u)
      PROVE  NullItems(t)' >= NullItems(t)
  BY <1>6, NullItemsNat DEF ThreadStep, LoopTop, Dequeue, LockPacket,
       LockPackNo, Dedupe, RunChains, Finish, stopVars, NullItems, Deleted
<1>7. CASE Spindown
  BY <1>2, <1>4, <1>7, NullItemsNat DEF Spindown, NullItems, Deleted
<1>8. CASE BeginDestroy
  BY <1>2, <1>4, <1>8 DEF BeginDestroy, NullItems, Deleted, Threads
<1>9. CASE SendNull
  <2>1. CASE t = destroy.i
    <3>1. NullItems(t) = 0 /\ NullItems(t)' = 1
      BY <1>9, <2>1 DEF SendNull, NullItems, Deleted, Threads
    <3>2. Len(queue'[t]) = Len(queue[t]) + 1
      BY <1>2, <1>9, <2>1 DEF SendNull, WakeUp
    <3> QED BY <1>1, <1>2, <1>3, <3>1, <3>2
  <2>2. CASE t # destroy.i
    <3>1. queue'[t] = queue[t]
      BY <1>9, <2>2 DEF SendNull
    <3>2. NullItems(t)' = NullItems(t)
      BY <1>9, <2>2 DEF SendNull, NullItems, Deleted
    <3> QED BY <1>2, <1>4, <3>1, <3>2, NullItemsNat, <1>n
  <2> QED BY <2>1, <2>2
<1>10. CASE Join
  <2>1. NullItems(t)' >= NullItems(t)
    BY <1>10 DEF Join, NullItems, Deleted, Threads
  <2> QED BY <1>2, <1>4, <1>10, <2>1 DEF Join
<1>11. CASE UseDeleted
  <2>1. NullItems(t)' >= NullItems(t)
    <3>1. destroy'.pc = "crashed" /\ destroy'.i = destroy.i
      BY <1>11 DEF UseDeleted
    <3> QED BY <3>1 DEF NullItems, Deleted
  <2> QED BY <1>2, <1>4, <1>11, <2>1 DEF UseDeleted
<1> QED BY <1>4, <1>5, <1>6, <1>7, <1>8, <1>9, <1>10, <1>11

\* A processing queue never holds more than packet_queue_drop packets and one
\* for each capture thread, although test and append are not atomic.
THEOREM QueuesBounded == Spec => []QueueBound
<1>1. Init => PendingBound
  <2> SUFFICES ASSUME Init, NEW t \in Threads
               PROVE  Len(queue[t]) + Cardinality(Pending(t))
                        <= packet_queue_drop + Cardinality(Producers)
                             + NullItems(t)
    BY DEF PendingBound
  <2>1. Pending(t) = {} /\ queue[t] = <<>>
    BY DEF Init, Pending
  <2> QED
    BY <2>1, FS_EmptySet, PendingFinite, NullItemsNat, ThreadAssumption
<1>2. TypeInv /\ PendingBound /\ [Next]_vars => PendingBound'
  <2> SUFFICES ASSUME TypeInv, PendingBound, [Next]_vars
               PROVE  PendingBound'
    OBVIOUS
  <2>1. CASE UNCHANGED vars
    BY <2>1 DEF vars, producerVars, stopVars, PendingBound, Pending, NullItems,
                Deleted
  <2> QED BY <2>1, ProducerKeepsBound, OthersKeepBound DEF Next
<1>3. TypeInv /\ PendingBound => QueueBound
  <2> SUFFICES ASSUME TypeInv, PendingBound, packet_queue_drop # 0,
                      NEW t \in Threads
               PROVE  Len(queue[t]) <= packet_queue_drop
                        + Cardinality(Producers) + NullItems(t)
    BY DEF QueueBound
  <2>1. Len(queue[t]) \in Nat
    BY DEF TypeInv, TypeOK
  <2> QED
    BY <2>1, PendingFinite, NullItemsNat, ThreadAssumption DEF PendingBound
<1> QED BY <1>1, <1>2, <1>3, TypeCorrect, PTL DEF Spec

-----------------------------------------------------------------------------
(* Every packet in one place.                                              *)

\* The elements of a sequence that loses its head, or gains a last element.
LEMMA SequenceElements ==
  ASSUME NEW S, NEW s \in Seq(S)
  PROVE  /\ \A e : e \in ToSet(s) <=> \E i \in DOMAIN s : s[i] = e
         /\ \A e \in S : ToSet(Append(s, e)) = ToSet(s) \cup {e}
         /\ s # <<>> => Head(s) \in ToSet(s)
         /\ s # <<>> => ToSet(s) = {Head(s)} \cup ToSet(Tail(s))
<1>1. \A e : e \in ToSet(s) <=> \E i \in DOMAIN s : s[i] = e
  BY DEF ToSet
<1>2. ASSUME NEW e \in S PROVE ToSet(Append(s, e)) = ToSet(s) \cup {e}
  <2>1. /\ DOMAIN Append(s, e) = DOMAIN s \cup {Len(s) + 1}
        /\ Append(s, e)[Len(s) + 1] = e
        /\ \A i \in DOMAIN s : Append(s, e)[i] = s[i]
    OBVIOUS
  <2> QED BY <2>1 DEF ToSet
<1>3. ASSUME s # <<>>
      PROVE  Head(s) \in ToSet(s) /\ ToSet(s) = {Head(s)} \cup ToSet(Tail(s))
  <2>1. /\ 1 \in DOMAIN s /\ s[1] = Head(s)
        /\ \A i \in DOMAIN Tail(s) : i + 1 \in DOMAIN s /\ Tail(s)[i] = s[i + 1]
        /\ \A i \in DOMAIN s : i # 1 => i - 1 \in DOMAIN Tail(s)
                                        /\ Tail(s)[i - 1] = s[i]
    BY <1>3
  <2>2. ASSUME NEW e \in ToSet(s) PROVE e = Head(s) \/ e \in ToSet(Tail(s))
    BY <2>1 DEF ToSet
  <2>3. ASSUME NEW e \in ToSet(Tail(s)) PROVE e \in ToSet(s)
    BY <2>1 DEF ToSet
  <2>4. Head(s) \in ToSet(s)
    BY <2>1 DEF ToSet
  <2> QED BY <2>2, <2>3, <2>4
<1> QED BY <1>1, <1>2, <1>3

\* A sequence without repetitions stays one when it loses its head, which is
\* then not in it, or gains an element it does not have.
LEMMA NoRepeatTail ==
  ASSUME NEW S, NEW s \in Seq(S), s # <<>>, NoRepeat(s), Head(s) # NoPacket
  PROVE  NoRepeat(Tail(s)) /\ ToSet(Tail(s)) = ToSet(s) \ {Head(s)}
<1>1. /\ 1 \in DOMAIN s /\ s[1] = Head(s)
      /\ \A i \in DOMAIN Tail(s) : /\ i + 1 \in DOMAIN s /\ i + 1 # 1
                                   /\ Tail(s)[i] = s[i + 1]
      /\ \A i, j \in DOMAIN Tail(s) : i + 1 = j + 1 => i = j
  OBVIOUS
<1>2. NoRepeat(Tail(s))
  BY <1>1 DEF NoRepeat
<1>3. Head(s) \notin ToSet(Tail(s))
  BY <1>1 DEF NoRepeat, ToSet
<1> QED BY <1>2, <1>3, SequenceElements

\* A queue gains a packet it does not hold, or another wake-up, without a repeat.
LEMMA NoRepeatAppend ==
  ASSUME NEW S, NEW s \in Seq(S), NEW e \in S, NoRepeat(s),
         e \notin ToSet(s) \/ e = NoPacket
  PROVE  NoRepeat(Append(s, e))
<1>1. /\ DOMAIN Append(s, e) = DOMAIN s \cup {Len(s) + 1}
      /\ Append(s, e)[Len(s) + 1] = e
      /\ \A i \in DOMAIN s : Append(s, e)[i] = s[i]
  OBVIOUS
<1>2. e # NoPacket => \A i \in DOMAIN s : s[i] # e
  BY SequenceElements
<1> QED BY <1>1, <1>2 DEF NoRepeat

\* The items that are left in a queue, and where they were.
LEMMA WithoutItems ==
  ASSUME NEW S, NEW q \in Seq(S), NEW i \in DOMAIN q
  PROVE  /\ \A k \in DOMAIN Without(q, i) :
              Without(q, i)[k] = q[IF k < i THEN k ELSE k + 1]
              /\ (IF k < i THEN k ELSE k + 1) \in DOMAIN q \ {i}
         /\ \A k \in DOMAIN q \ {i} :
              (IF k < i THEN k ELSE k - 1) \in DOMAIN Without(q, i)
<1> DEFINE front == SubSeq(q, 1, i - 1)
           back == SubSeq(q, i + 1, Len(q))
<1>1. /\ i \in 1 .. Len(q) /\ Len(q) \in Nat /\ DOMAIN q = 1 .. Len(q)
      /\ front \in Seq(S) /\ Len(front) = i - 1
      /\ back \in Seq(S) /\ Len(back) = Len(q) - i
  OBVIOUS
<1>2. /\ \A k \in 1 .. (i - 1) : front[k] = q[k]
      /\ \A k \in 1 .. (Len(q) - i) : back[k] = q[k + i]
  OBVIOUS
<1>3. Without(q, i) = front \o back
  BY DEF Without, RemoveAt
<1> HIDE DEF front, back
<1>4. \A k \in 1 .. (Len(q) - 1) : Without(q, i)[k] =
        q[IF k < i THEN k ELSE k + 1]
  <2> SUFFICES ASSUME NEW k \in 1 .. (Len(q) - 1)
               PROVE  (front \o back)[k] = q[IF k < i THEN k ELSE k + 1]
    BY <1>3
  <2>1. CASE k < i
    <3>1. k \in 1 .. (i - 1) /\ k \in 1 .. (Len(front) + Len(back))
      BY <1>1, <2>1
    <3>2. (front \o back)[k] = front[k]
      BY <1>1, <3>1
    <3> QED BY <1>2, <2>1, <3>1, <3>2
  <2>2. CASE ~(k < i)
    <3>1. /\ k - (i - 1) \in 1 .. (Len(q) - i)
          /\ k \in 1 .. (Len(front) + Len(back)) /\ k > Len(front)
          /\ k - (i - 1) + i = k + 1
      BY <1>1, <2>2
    <3>2. (front \o back)[k] = back[k - Len(front)]
      BY <1>1, <3>1
    <3> QED BY <1>1, <1>2, <2>2, <3>1, <3>2
  <2> QED BY <2>1, <2>2
<1>5. DOMAIN Without(q, i) = 1 .. (Len(q) - 1)
  <2>1. \A s \in Seq(S) : DOMAIN s = 1 .. Len(s)
    OBVIOUS
  <2> QED BY <2>1, WithoutShorter, <1>1
<1> QED BY <1>1, <1>4, <1>5

\* try_dequeue takes every copy of the packet it returns: there was only one.
LEMMA NoRepeatWithout ==
  ASSUME NEW S, NEW q \in Seq(S), NEW i \in DOMAIN q, NoRepeat(q)
  PROVE  /\ NoRepeat(Without(q, i))
         /\ \A e : e # NoPacket =>
              (e \in ToSet(Without(q, i)) <=> e \in ToSet(q) /\ e # q[i])
<1> DEFINE w == Without(q, i)
           From(k) == IF k < i THEN k ELSE k + 1
           To(k) == IF k < i THEN k ELSE k - 1
<1>1. /\ \A k \in DOMAIN w : w[k] = q[From(k)] /\ From(k) \in DOMAIN q \ {i}
      /\ \A k \in DOMAIN q \ {i} : To(k) \in DOMAIN w
  BY WithoutItems
<1>2. w \in Seq(S) /\ DOMAIN w \subseteq Int /\ DOMAIN q \subseteq Int
  BY WithoutShorter
<1>3. /\ \A k, l \in DOMAIN w : From(k) = From(l) => k = l
      /\ \A k \in DOMAIN q \ {i} : From(To(k)) = k
  BY <1>2
<1> HIDE DEF w, From, To
<1>4. NoRepeat(w)
  BY <1>1, <1>3 DEF NoRepeat
<1>5. ASSUME NEW e, e # NoPacket
      PROVE  e \in ToSet(w) <=> e \in ToSet(q) /\ e # q[i]
  <2>1. ASSUME NEW k \in DOMAIN w, w[k] = e
        PROVE  e \in ToSet(q) /\ e # q[i]
    BY <1>1, <1>5, <2>1 DEF NoRepeat, ToSet
  <2>2. ASSUME NEW k \in DOMAIN q, q[k] = e, e # q[i]
        PROVE  e \in ToSet(w)
    <3>1. k \in DOMAIN q \ {i}
      BY <2>2
    <3>2. To(k) \in DOMAIN w /\ w[To(k)] = q[k]
      BY <3>1, <1>1, <1>3
    <3> QED BY <2>2, <3>2 DEF ToSet
  <2> QED BY <2>1, <2>2 DEF ToSet
<1> QED BY <1>4, <1>5 DEF w

\* Where a packet can be, and what it means to be there, before and after a
\* step.
Whole == \A p \in Packets : \E x \in Places : {y \in Places : At(p, y)} = {x}

\* The places, spelled out.
LEMMA PlaceKinds ==
  ASSUME NEW x \in Places
  PROVE  \/ \E c \in Producers : x = <<"captured", c>>
         \/ \E t \in Threads : x \in {<<"queued", t>>, <<"processed", t>>}
         \/ x \in {<<"refused", NoThread>>, <<"finished", NoThread>>}
  BY DEF Places

\* What each place is in terms of the variables,
LEMMA AtMeans ==
  ASSUME NEW p, NEW k
  PROVE  /\ At(p, <<"captured", k>>)  <=> p \in ToSet(feed[k])
         /\ At(p, <<"queued", k>>)    <=> p \in ToSet(queue[k])
         /\ At(p, <<"processed", k>>) <=> Busy(k) /\ wpkt[k] = p
         /\ At(p, <<"refused", k>>)   <=> p \in dropped
         /\ At(p, <<"finished", k>>)  <=> p \in ToSet(done)
  BY DEF At

\* and after a step.
LEMMA AtMeansNext ==
  ASSUME NEW p, NEW k
  PROVE  /\ At(p, <<"captured", k>>)'  <=> p \in ToSet(feed'[k])
         /\ At(p, <<"queued", k>>)'    <=> p \in ToSet(queue'[k])
         /\ At(p, <<"processed", k>>)' <=> Busy(k)' /\ wpkt'[k] = p
         /\ At(p, <<"refused", k>>)'   <=> p \in dropped'
         /\ At(p, <<"finished", k>>)'  <=> p \in ToSet(done')
  BY DEF At

\* A packet is in a place after a step as before it when the variable that
\* the place stands for says so.
LEMMA SamePlace ==
  ASSUME NEW p, NEW z \in Places,
         \A c \in Producers : z = <<"captured", c>> =>
           (p \in ToSet(feed'[c]) <=> p \in ToSet(feed[c])),
         \A t \in Threads : z = <<"queued", t>> =>
           (p \in ToSet(queue'[t]) <=> p \in ToSet(queue[t])),
         \A t \in Threads : z = <<"processed", t>> =>
           (Busy(t)' /\ wpkt'[t] = p <=> Busy(t) /\ wpkt[t] = p),
         z = <<"refused", NoThread>> => (p \in dropped' <=> p \in dropped),
         z = <<"finished", NoThread>> =>
           (p \in ToSet(done') <=> p \in ToSet(done))
  PROVE  At(p, z)' <=> At(p, z)
<1>1. CASE \E c \in Producers : z = <<"captured", c>>
  <2>1. PICK c \in Producers : z = <<"captured", c>>
    BY <1>1
  <2> QED BY <2>1, AtMeans, AtMeansNext
<1>2. CASE \E t \in Threads : z = <<"queued", t>>
  <2>1. PICK t \in Threads : z = <<"queued", t>>
    BY <1>2
  <2> QED BY <2>1, AtMeans, AtMeansNext
<1>3. CASE \E t \in Threads : z = <<"processed", t>>
  <2>1. PICK t \in Threads : z = <<"processed", t>>
    BY <1>3
  <2> QED BY <2>1, AtMeans, AtMeansNext
<1>4. CASE z = <<"refused", NoThread>>
  BY <1>4, AtMeans, AtMeansNext
<1>5. CASE z = <<"finished", NoThread>>
  BY <1>5, AtMeans, AtMeansNext
<1> QED BY <1>1, <1>2, <1>3, <1>4, <1>5, PlaceKinds

\* A step that moves one packet from x to y, and leaves the others where they
\* are, keeps every packet in one place.
LEMMA OneMoves ==
  ASSUME NEW p0 \in Packets, NEW x \in Places, NEW y \in Places,
         Whole, At(p0, x), ~At(p0, x)', At(p0, y)',
         \A p \in Packets, z \in Places :
           ~(p = p0 /\ z \in {x, y}) => (At(p, z)' <=> At(p, z))
  PROVE  Whole'
<1> SUFFICES ASSUME NEW p \in Packets
             PROVE  \E z \in Places : {w \in Places : At(p, w)'} = {z}
  BY DEF Whole, Places
<1>1. PICK z \in Places : {w \in Places : At(p, w)} = {z}
  BY DEF Whole
<1> HIDE DEF Places
<1>2. CASE p = p0
  <2>1. z = x
    BY <1>1, <1>2
  <2>2. \A w \in Places : At(p0, w)' <=> w = y
    BY <1>1, <1>2, <2>1
  <2> QED BY <1>2, <2>2
<1>3. CASE p # p0
  <2>1. \A w \in Places : At(p, w)' <=> At(p, w)
    BY <1>3
  <2> QED BY <1>1, <2>1
<1> QED BY <1>2, <1>3

\* A packet that is in two places is in one: the places are the same.
LEMMA OnePlace ==
  ASSUME Whole, NEW p \in Packets, NEW x \in Places, NEW y \in Places,
         At(p, x), At(p, y)
  PROVE  x = y
  BY DEF Whole

\* What that says of each pair of places.
LEMMA Apart ==
  ASSUME Whole, NEW p \in Packets
  PROVE  /\ \A c, d \in Producers :
              p \in ToSet(feed[c]) /\ p \in ToSet(feed[d]) => c = d
         /\ \A t, u \in Threads :
              p \in ToSet(queue[t]) /\ p \in ToSet(queue[u]) => t = u
         /\ \A t, u \in Threads :
              /\ Busy(t) /\ wpkt[t] = p /\ Busy(u) /\ wpkt[u] = p => t = u
              /\ ~(Busy(t) /\ wpkt[t] = p /\ p \in ToSet(queue[u]))
         /\ \A c \in Producers : p \in ToSet(feed[c]) =>
              /\ p \notin dropped /\ p \notin ToSet(done)
              /\ \A t \in Threads : /\ p \notin ToSet(queue[t])
                                    /\ ~(Busy(t) /\ wpkt[t] = p)
         /\ \A t \in Threads : p \in ToSet(queue[t]) \/ (Busy(t) /\ wpkt[t] = p) =>
              p \notin dropped /\ p \notin ToSet(done)
         /\ p \in dropped => p \notin ToSet(done)
<1>1. /\ \A c \in Producers : <<"captured", c>> \in Places
      /\ \A t \in Threads : /\ <<"queued", t>> \in Places
                            /\ <<"processed", t>> \in Places
      /\ <<"refused", NoThread>> \in Places
      /\ <<"finished", NoThread>> \in Places
  BY DEF Places
<1>2. PICK x \in Places : \A y \in Places : At(p, y) => y = x
  BY DEF Whole
<1>3. /\ \A c \in Producers : p \in ToSet(feed[c]) => x = <<"captured", c>>
      /\ \A t \in Threads : p \in ToSet(queue[t]) => x = <<"queued", t>>
      /\ \A t \in Threads : Busy(t) /\ wpkt[t] = p => x = <<"processed", t>>
      /\ p \in dropped => x = <<"refused", NoThread>>
      /\ p \in ToSet(done) => x = <<"finished", NoThread>>
  BY <1>1, <1>2, AtMeans
<1> QED BY <1>3

\* A call of process_packet takes the next packet from its capture thread.
LEMMA ReturnTakes ==
  ASSUME NEW c \in Producers, TypeInv, PacketConserved,
         ppc[c] = "measured", Return(c)
  PROVE  /\ feed[c] # <<>> /\ Head(feed[c]) \in Packets
         /\ Head(feed[c]) \in ToSet(feed[c])
         /\ feed' = [feed EXCEPT ![c] = Tail(@)]
         /\ ToSet(feed'[c]) = ToSet(feed[c]) \ {Head(feed[c])}
         /\ \A d \in Producers : d # c => feed'[d] = feed[d]
         /\ \A d \in Producers : NoRepeat(feed'[d])
<1>1. /\ DOMAIN feed = Producers /\ feed[c] \in Seq(Packets)
      /\ NoPacket \notin Packets
  BY PacketAssumption DEF TypeInv, TypeOK
<1>2. feed[c] # <<>> /\ feed' = [feed EXCEPT ![c] = Tail(@)]
  BY DEF TypeInv, HasPacket, Return
<1>3. Head(feed[c]) \in Packets /\ NoRepeat(feed[c])
  BY <1>1, <1>2 DEF PacketConserved
<1>4. /\ NoRepeat(Tail(feed[c]))
      /\ ToSet(Tail(feed[c])) = ToSet(feed[c]) \ {Head(feed[c])}
  BY <1>1, <1>2, <1>3, NoRepeatTail
<1>5. Head(feed[c]) \in ToSet(feed[c])
  BY <1>1, <1>2, SequenceElements
<1>6. /\ feed'[c] = Tail(feed[c])
      /\ \A d \in Producers : d # c => feed'[d] = feed[d]
  BY <1>1, <1>2
<1> QED BY <1>2, <1>3, <1>4, <1>5, <1>6 DEF PacketConserved

\* process_packet: Measure moves nothing, and the packet that Drop or Enqueue
\* takes from its capture thread goes to one other place.
LEMMA ProducerConserves ==
  ASSUME NEW c \in Producers, TypeInv, PacketConserved, ProducerStep(c)
  PROVE  PacketConserved'
<1>0. PICK p0 : p0 = Head(feed[c])
  OBVIOUS
<1>1. /\ DOMAIN feed = Producers /\ DOMAIN queue = Threads
      /\ \A d \in Producers : feed[d] \in Seq(Packets)
      /\ \A t \in Threads : queue[t] \in Seq(Packets \cup {NoPacket})
      /\ target \in [Producers -> Threads]
      /\ NoPacket \notin Packets
  BY PacketAssumption DEF TypeInv, TypeOK
<1>2. Whole
  BY DEF PacketConserved, Whole
<1>3. CASE Measure(c)
  BY <1>3 DEF Measure, PacketConserved, Places, At, Busy, NoRepeat
<1>4. ASSUME ppc[c] = "measured", Return(c)
      PROVE  /\ feed[c] # <<>> /\ p0 \in Packets /\ p0 \in ToSet(feed[c])
             /\ feed' = [feed EXCEPT ![c] = Tail(@)]
             /\ ToSet(feed'[c]) = ToSet(feed[c]) \ {p0}
             /\ \A d \in Producers : d # c => feed'[d] = feed[d]
             /\ \A d \in Producers : NoRepeat(feed'[d])
  BY <1>0, <1>4, ReturnTakes
<1> DEFINE x == <<"captured", c>>
<1>5. ASSUME Return(c), ppc[c] = "measured",
             NEW y \in Places, At(p0, y)', x # y,
             \A p \in Packets, z \in Places :
               (\A d \in Producers : z # <<"captured", d>>)
               /\ ~(p = p0 /\ z = y) => (At(p, z)' <=> At(p, z)),
             \A d \in Producers : y # <<"captured", d>>
      PROVE  Whole'
  <2>1. x \in Places
    BY DEF Places
  <2>2. At(p0, x) /\ ~At(p0, x)'
    BY <1>4, <1>5, AtMeans, AtMeansNext
  <2>3. ASSUME NEW p \in Packets, NEW z \in Places, ~(p = p0 /\ z \in {x, y})
        PROVE  At(p, z)' <=> At(p, z)
    <3>1. CASE \E d \in Producers : z = <<"captured", d>>
      <4>1. PICK d \in Producers : z = <<"captured", d>>
        BY <3>1
      <4>2. p \in ToSet(feed'[d]) <=> p \in ToSet(feed[d])
        BY <1>4, <1>5, <2>3, <4>1
      <4> QED BY <4>1, <4>2, AtMeans, AtMeansNext
    <3>2. CASE \A d \in Producers : z # <<"captured", d>>
      BY <1>5, <2>3, <3>2
    <3> QED BY <3>1, <3>2
  <2>4. p0 \in Packets
    BY <1>4, <1>5
  <2> HIDE DEF x
  <2> QED BY <1>2, <1>5, <2>1, <2>2, <2>3, <2>4, OneMoves
<1>6. CASE Drop(c)
  <2>1. ppc[c] = "measured" /\ Return(c) /\ dropped' = dropped \cup {p0}
        /\ queue' = queue /\ done' = done /\ wpc' = wpc /\ wpkt' = wpkt
    BY <1>0, <1>6 DEF Drop
  <2> DEFINE y == <<"refused", NoThread>>
  <2>2. y \in Places /\ x # y /\ \A d \in Producers : y # <<"captured", d>>
    BY DEF Places
  <2>3. At(p0, y)'
    BY <2>1, AtMeansNext
  <2>4. ASSUME NEW p \in Packets, NEW z \in Places,
               \A d \in Producers : z # <<"captured", d>>, ~(p = p0 /\ z = y)
        PROVE  At(p, z)' <=> At(p, z)
    <3>1. \A t \in Threads : Busy(t)' <=> Busy(t)
      BY <2>1 DEF Busy
    <3>2. p # p0 => (p \in dropped' <=> p \in dropped)
      BY <2>1
    <3> QED BY <2>1, <2>4, <3>1, <3>2, SamePlace
  <2> HIDE DEF y, x
  <2>5. Whole'
    BY <1>5, <2>1, <2>2, <2>3, <2>4
  <2> QED BY <1>4, <2>1, <2>5 DEF PacketConserved, Whole, NoRepeat
<1>7. CASE Enqueue(c)
  <2>0. PICK t0 : t0 = target[c]
    OBVIOUS
  <2> DEFINE y == <<"queued", t0>>
  <2>1. /\ ppc[c] = "measured" /\ Return(c)
        /\ queue' = [queue EXCEPT ![t0] = Append(@, p0)]
        /\ dropped' = dropped /\ done' = done /\ wpc' = wpc /\ wpkt' = wpkt
    BY <1>0, <2>0, <1>7 DEF Enqueue
  <2>2. t0 \in Threads /\ p0 \in Packets
    BY <1>1, <1>4, <2>0, <2>1
  <2>3. y \in Places /\ x # y /\ \A d \in Producers : y # <<"captured", d>>
    BY <2>2 DEF Places
  <2>4. /\ queue'[t0] = Append(queue[t0], p0)
        /\ \A t \in Threads : t # t0 => queue'[t] = queue[t]
        /\ queue[t0] \in Seq(Packets \cup {NoPacket})
    BY <1>1, <2>1, <2>2
  <2>5. ToSet(queue'[t0]) = ToSet(queue[t0]) \cup {p0}
    BY <2>2, <2>4, SequenceElements
  <2>6. At(p0, y)'
    BY <2>5, AtMeansNext
  <2>7. ASSUME NEW p \in Packets, NEW z \in Places,
               \A d \in Producers : z # <<"captured", d>>, ~(p = p0 /\ z = y)
        PROVE  At(p, z)' <=> At(p, z)
    <3>1. \A t \in Threads : Busy(t)' <=> Busy(t)
      BY <2>1 DEF Busy
    <3>2. ASSUME NEW t \in Threads, z = <<"queued", t>>
          PROVE  p \in ToSet(queue'[t]) <=> p \in ToSet(queue[t])
      BY <2>4, <2>5, <2>7, <3>2
    <3> HIDE DEF y
    <3> QED BY <2>1, <2>7, <3>1, <3>2, SamePlace
  <2>8. NoRepeat(queue'[t0])
    <3>1. p0 \notin ToSet(queue[t0])
      BY <1>2, <1>4, <2>1, <2>2, Apart
    <3>2. NoRepeat(queue[t0])
      BY <2>2 DEF PacketConserved
    <3> QED BY <2>2, <2>4, <3>1, <3>2, NoRepeatAppend
  <2> HIDE DEF y, x
  <2>9. Whole'
    BY <1>5, <2>1, <2>3, <2>6, <2>7
  <2>10. \A t \in Threads : NoRepeat(queue'[t])
    BY <2>4, <2>8 DEF PacketConserved
  <2>11. NoRepeat(done') /\ \A d \in Producers : NoRepeat(feed'[d])
    BY <1>4, <2>1 DEF PacketConserved
  <2> QED BY <2>9, <2>10, <2>11 DEF PacketConserved, Whole, NoRepeat
<1> QED BY <1>3, <1>6, <1>7 DEF ProducerStep

\* A step that moves no packet.
LEMMA NoneMoves ==
  ASSUME Whole, \A p \in Packets, z \in Places : At(p, z)' <=> At(p, z)
  PROVE  Whole'
<1> SUFFICES ASSUME NEW p \in Packets
             PROVE  \E z \in Places : {w \in Places : At(p, w)'} = {z}
  BY DEF Whole, Places
<1>1. PICK z \in Places : {w \in Places : At(p, w)} = {z}
  BY DEF Whole
<1>2. \A w \in Places : At(p, w)' <=> At(p, w)
  OBVIOUS
<1> HIDE DEF Places
<1> QED BY <1>1, <1>2

\* wait_dequeue takes one item from the queue of the thread: a packet, which
\* the thread then processes, or a null item, which is in no place.
LEMMA DequeueConserves ==
  ASSUME NEW t \in Threads, TypeInv, PacketConserved, Dequeue(t)
  PROVE  PacketConserved'
<1>1. PICK i \in DOMAIN queue[t] :
        /\ queue' = [queue EXCEPT ![t] = Without(@, i)]
        /\ wpkt' = [wpkt EXCEPT ![t] = queue[t][i]]
        /\ wpc[t] = "wait"
        /\ wpc' = [wpc EXCEPT ![t] = IF IsWakeUp(queue[t][i]) THEN "exit"
                                     ELSE "lock"]
  BY DEF Dequeue, Goto
<1>2. PICK e : e = queue[t][i]
  OBVIOUS
<1>3. /\ queue \in [Threads -> Seq(Packets \cup {NoPacket})]
      /\ DOMAIN wpc = Threads /\ DOMAIN wpkt = Threads
      /\ queue[t] \in Seq(Packets \cup {NoPacket})
      /\ e \in Packets \cup {NoPacket} /\ NoPacket \notin Packets
  BY <1>1, <1>2, PacketAssumption DEF TypeInv, TypeOK
<1>4. /\ Whole /\ NoRepeat(queue[t])
      /\ \A u \in Threads : NoRepeat(queue[u])
  BY DEF PacketConserved, Whole
<1>5. /\ queue'[t] = Without(queue[t], i) /\ wpkt'[t] = e
      /\ wpc'[t] = IF e = NoPacket THEN "exit" ELSE "lock"
      /\ \A u \in Threads : u # t => /\ queue'[u] = queue[u]
                                     /\ wpkt'[u] = wpkt[u] /\ wpc'[u] = wpc[u]
      /\ feed' = feed /\ dropped' = dropped /\ done' = done
  BY <1>1, <1>2, <1>3 DEF Dequeue, IsWakeUp, producerVars
<1>6. /\ NoRepeat(queue'[t])
      /\ \A p \in Packets : p \in ToSet(queue'[t]) <=>
                              p \in ToSet(queue[t]) /\ p # e
  <2>1. /\ NoRepeat(Without(queue[t], i))
        /\ \A p \in Packets :
             p \in ToSet(Without(queue[t], i)) <=>
               p \in ToSet(queue[t]) /\ p # queue[t][i]
    BY <1>1, <1>3, <1>4, NoRepeatWithout
  <2> QED BY <1>2, <1>5, <2>1
<1>7. \A u \in Threads : u # t => (Busy(u)' <=> Busy(u))
  BY <1>5 DEF Busy
<1>8. ~Busy(t) /\ (Busy(t)' <=> e # NoPacket)
  BY <1>1, <1>5 DEF Busy
<1>9. Whole'
  <2>1. CASE e = NoPacket
    <3>1. ASSUME NEW p \in Packets, NEW z \in Places
          PROVE  At(p, z)' <=> At(p, z)
      <4>1. \A u \in Threads : Busy(u)' /\ wpkt'[u] = p <=> Busy(u) /\ wpkt[u] = p
        BY <1>5, <1>7, <1>8, <2>1
      <4>2. \A u \in Threads : p \in ToSet(queue'[u]) <=> p \in ToSet(queue[u])
        BY <1>3, <1>5, <1>6, <2>1
      <4> QED BY <1>5, <4>1, <4>2, SamePlace
    <3> QED BY <1>4, <3>1, NoneMoves
  <2>2. CASE e # NoPacket
    <3> DEFINE x == <<"queued", t>>
               y == <<"processed", t>>
    <3>1. x \in Places /\ y \in Places /\ e \in Packets
      BY <1>3, <2>2 DEF Places
    <3>2. At(e, x) /\ ~At(e, x)' /\ At(e, y)'
      <4>1. e \in ToSet(queue[t])
        BY <1>1, <1>2, <1>3, SequenceElements
      <4>2. e \notin ToSet(queue'[t])
        BY <1>6, <3>1
      <4> QED
        BY <1>5, <1>8, <2>2, <4>1, <4>2, AtMeans, AtMeansNext
    <3>3. ASSUME NEW p \in Packets, NEW z \in Places, ~(p = e /\ z \in {x, y})
          PROVE  At(p, z)' <=> At(p, z)
      <4>1. ASSUME NEW u \in Threads, z = <<"processed", u>>
            PROVE  Busy(u)' /\ wpkt'[u] = p <=> Busy(u) /\ wpkt[u] = p
        <5>1. CASE u = t
          BY <1>5, <1>8, <3>3, <4>1, <5>1
        <5>2. CASE u # t
          BY <1>5, <1>7, <5>2
        <5> QED BY <5>1, <5>2
      <4>2. ASSUME NEW u \in Threads, z = <<"queued", u>>
            PROVE  p \in ToSet(queue'[u]) <=> p \in ToSet(queue[u])
        <5>1. CASE u = t
          BY <1>6, <3>3, <4>2, <5>1
        <5>2. CASE u # t
          BY <1>5, <5>2
        <5> QED BY <5>1, <5>2
      <4> HIDE DEF x, y
      <4> QED BY <1>5, <4>1, <4>2, SamePlace
    <3> HIDE DEF x, y
    <3> QED BY <1>4, <3>1, <3>2, <3>3, OneMoves
  <2> QED BY <2>1, <2>2
<1>10. \A u \in Threads : NoRepeat(queue'[u])
  BY <1>4, <1>5, <1>6
<1> QED
  BY <1>5, <1>9, <1>10 DEF PacketConserved, Whole, NoRepeat

\* The end of the chains is the end of the packet.
LEMMA RunChainsConserves ==
  ASSUME NEW t \in Threads, TypeInv, PacketConserved, RunChains(t)
  PROVE  PacketConserved'
<1>1. PICK e : e = wpkt[t]
  OBVIOUS
<1>2. /\ wpc[t] = "chains" /\ wpc' = [wpc EXCEPT ![t] = "finish"]
      /\ done' = Append(done, e)
      /\ feed' = feed /\ dropped' = dropped /\ queue' = queue /\ wpkt' = wpkt
  BY <1>1 DEF RunChains, Goto, producerVars
<1>3. e \in Packets /\ DOMAIN wpc = Threads /\ done \in Seq(Packets)
  BY <1>1, <1>2 DEF TypeInv, TypeOK, HasPacket
<1>4. /\ Busy(t) /\ ~Busy(t)'
      /\ \A u \in Threads : u # t => (Busy(u)' <=> Busy(u))
  BY <1>2, <1>3 DEF Busy
<1>5. Whole /\ NoRepeat(done)
  BY DEF PacketConserved, Whole
<1>6. ToSet(done') = ToSet(done) \cup {e}
  BY <1>2, <1>3, SequenceElements
<1> DEFINE x == <<"processed", t>>
           y == <<"finished", NoThread>>
<1>7. x \in Places /\ y \in Places
  BY DEF Places
<1>8. At(e, x) /\ ~At(e, x)' /\ At(e, y)'
  BY <1>1, <1>4, <1>6, AtMeans, AtMeansNext
<1>9. ASSUME NEW p \in Packets, NEW z \in Places, ~(p = e /\ z \in {x, y})
      PROVE  At(p, z)' <=> At(p, z)
  <2>1. ASSUME NEW u \in Threads, z = <<"processed", u>>
        PROVE  Busy(u)' /\ wpkt'[u] = p <=> Busy(u) /\ wpkt[u] = p
    BY <1>1, <1>2, <1>4, <1>9, <2>1
  <2>2. z = y => (p \in ToSet(done') <=> p \in ToSet(done))
    BY <1>6, <1>9
  <2> HIDE DEF x
  <2> QED BY <1>2, <2>1, <2>2, SamePlace
<1> HIDE DEF x, y
<1>10. Whole'
  BY <1>3, <1>5, <1>7, <1>8, <1>9, OneMoves
<1>11. NoRepeat(done')
  <2>1. e \notin ToSet(done)
    BY <1>1, <1>3, <1>4, <1>5, Apart
  <2> QED BY <1>2, <1>3, <1>5, <2>1, NoRepeatAppend
<1> QED
  BY <1>2, <1>10, <1>11 DEF PacketConserved, Whole, NoRepeat

\* The other steps of a processing thread, and of the shutdown, move nothing:
\* they leave the packets of every thread that is busy, and a queue gains a
\* null item at most.
LEMMA OthersConserve ==
  ASSUME TypeInv, PacketConserved,
         feed' = feed, dropped' = dropped, done' = done,
         \A t \in Threads : /\ Busy(t)' <=> Busy(t)
                            /\ Busy(t) => wpkt'[t] = wpkt[t]
                            /\ queue'[t] \in {queue[t], WakeUp(queue[t])}
  PROVE  PacketConserved'
<1>1. ASSUME NEW t \in Threads
      PROVE  /\ NoRepeat(queue'[t])
             /\ \A p \in Packets : p \in ToSet(queue'[t]) <=> p \in ToSet(queue[t])
  <2>1. /\ queue[t] \in Seq(Packets \cup {NoPacket}) /\ NoRepeat(queue[t])
        /\ NoPacket \notin Packets
    BY PacketAssumption DEF TypeInv, TypeOK, PacketConserved
  <2>2. /\ NoRepeat(WakeUp(queue[t]))
        /\ ToSet(WakeUp(queue[t])) = ToSet(queue[t]) \cup {NoPacket}
    BY <2>1, NoRepeatAppend, SequenceElements DEF WakeUp
  <2> QED BY <2>1, <2>2
<1>2. ASSUME NEW p \in Packets, NEW z \in Places PROVE At(p, z)' <=> At(p, z)
  BY <1>1, SamePlace
<1>3. Whole'
  BY <1>2, NoneMoves DEF PacketConserved, Whole
<1> QED BY <1>1, <1>3 DEF PacketConserved, Whole, NoRepeat

\* No step of a processing thread loses or copies a packet.
LEMMA ThreadConserves ==
  ASSUME NEW t \in Threads, TypeInv, PacketConserved, ThreadStep(t)
  PROVE  PacketConserved'
<1>1. DOMAIN wpc = Threads /\ DOMAIN wpkt = Threads
  BY DEF TypeInv, TypeOK
<1>2. CASE LoopTop(t)
  BY <1>1, <1>2, OthersConserve DEF LoopTop, Goto, Busy, producerVars
<1>3. CASE LockPacket(t)
  BY <1>1, <1>3, OthersConserve DEF LockPacket, Goto, Busy, producerVars
<1>4. CASE LockPackNo(t)
  BY <1>1, <1>4, OthersConserve DEF LockPackNo, Goto, Busy, producerVars
<1>5. CASE Dedupe(t)
  BY <1>1, <1>5, OthersConserve DEF Dedupe, Goto, Busy, producerVars
<1>6. CASE Finish(t)
  BY <1>1, <1>6, OthersConserve DEF Finish, Goto, Busy, producerVars
<1> QED
  BY <1>2, <1>3, <1>4, <1>5, <1>6, DequeueConserves, RunChainsConserves
     DEF ThreadStep

\* Every packet is in exactly one place, once, whatever the threads do: none is
\* lost, and none goes through the chains twice.
THEOREM PacketsConserved == Spec => []PacketConserved
<1>1. Init => PacketConserved
  <2> SUFFICES ASSUME Init PROVE PacketConserved
    OBVIOUS
  <2>1. /\ feed = Feed /\ dropped = {} /\ done = <<>>
        /\ \A t \in Threads : queue[t] = <<>> /\ ~Busy(t)
    BY DEF Init, Busy
  <2>2. ToSet(<<>>) = {} /\ NoRepeat(<<>>)
    BY DEF ToSet, NoRepeat
  <2>3. \A c \in Producers : NoRepeat(feed[c])
    BY <2>1, CaptureAssumption DEF NoRepeat
  <2>4. ASSUME NEW p \in Packets
        PROVE  \E x \in Places : {y \in Places : At(p, y)} = {x}
    <3>1. PICK c \in Producers : p \in ToSet(Feed[c])
      BY CaptureAssumption
    <3>2. ASSUME NEW d \in Producers, p \in ToSet(Feed[d]) PROVE d = c
      <4>1. /\ \E i \in DOMAIN Feed[c] : Feed[c][i] = p
            /\ \E i \in DOMAIN Feed[d] : Feed[d][i] = p
        BY <3>1, <3>2, SequenceElements, PacketAssumption
      <4> QED BY <4>1, CaptureAssumption
    <3> DEFINE x == <<"captured", c>>
    <3>3. x \in Places /\ At(p, x)
      BY <2>1, <3>1, AtMeans DEF Places
    <3>4. ASSUME NEW y \in Places, At(p, y) PROVE y = x
      <4>1. ASSUME NEW t \in Threads
            PROVE  y # <<"queued", t>> /\ y # <<"processed", t>>
        <5>1. p \notin ToSet(queue[t]) /\ ~Busy(t)
          BY <2>1, <2>2
        <5>2. ~At(p, <<"queued", t>>) /\ ~At(p, <<"processed", t>>)
          BY <5>1, AtMeans
        <5> QED BY <3>4, <5>2
      <4>2. y # <<"refused", NoThread>> /\ y # <<"finished", NoThread>>
        <5>1. p \notin dropped /\ p \notin ToSet(done)
          BY <2>1, <2>2
        <5>2. ~At(p, <<"refused", NoThread>>) /\ ~At(p, <<"finished", NoThread>>)
          BY <5>1, AtMeans
        <5> QED BY <3>4, <5>2
      <4>3. PICK d \in Producers : y = <<"captured", d>>
        BY <4>1, <4>2, PlaceKinds
      <4>4. p \in ToSet(Feed[d])
        BY <2>1, <3>4, <4>3, AtMeans
      <4> QED BY <3>2, <4>3, <4>4
    <3> HIDE DEF x
    <3> QED BY <3>3, <3>4
  <2> QED BY <2>1, <2>2, <2>3, <2>4 DEF PacketConserved
<1>2. TypeInv /\ PacketConserved /\ [Next]_vars => PacketConserved'
  <2> SUFFICES ASSUME TypeInv, PacketConserved, [Next]_vars
               PROVE  PacketConserved'
    OBVIOUS
  <2>1. CASE Spindown \/ BeginDestroy \/ SendNull \/ Join \/ UseDeleted
    <3>1. DOMAIN queue = Threads
      BY DEF TypeInv, TypeOK
    <3>2. CASE Spindown
      BY <3>2, OthersConserve DEF Spindown, Busy, producerVars
    <3>3. CASE BeginDestroy \/ Join \/ UseDeleted
      BY <3>3, OthersConserve DEF BeginDestroy, Join, UseDeleted,
                                  Unchanged_Destroy, Busy, producerVars
    <3>4. CASE SendNull
      BY <3>1, <3>4, OthersConserve DEF SendNull, Unchanged_Destroy, Busy,
                                        producerVars
    <3> QED BY <2>1, <3>2, <3>3, <3>4
  <2>2. CASE UNCHANGED vars
    BY <2>2, OthersConserve DEF vars, producerVars, Busy
  <2> QED BY <2>1, <2>2, ProducerConserves, ThreadConserves DEF Next
<1> QED BY <1>1, <1>2, TypeCorrect, PTL DEF Spec

-----------------------------------------------------------------------------
(* The order of a device.                                                  *)

\* What a capture thread still has is the end of what it was given.
FeedIsSuffix ==
  \A c \in Producers :
    /\ Len(feed[c]) <= Len(Feed[c])
    /\ \A i \in DOMAIN feed[c] :
         feed[c][i] = Feed[c][i + (Len(Feed[c]) - Len(feed[c]))]

\* The assignment id of a packet fixes the thread that it goes to.
Lane(p, t) == assignment_id[p] # 0 => t = assignment_id[p] % n_packet_threads
InLane ==
  /\ \A c \in Producers :
       ppc[c] = "measured" => Lane(Head(feed[c]), target[c])
  /\ \A t \in Threads : \A m \in DOMAIN queue[t] :
       queue[t][m] # NoPacket => Lane(queue[t][m], t)
  /\ \A t \in Threads : Busy(t) => Lane(wpkt[t], t)

\* q was captured after p, by the same thread, and belongs to its device.
Follows(q, p) ==
  /\ assignment_id[p] = assignment_id[q] /\ assignment_id[p] # 0
  /\ \E c \in Producers : \E i, j \in DOMAIN Feed[c] :
       i < j /\ Feed[c][i] = p /\ Feed[c][j] = q

\* q is not past p, wherever the two are.
Finished(p) == p \in ToSet(done)
Processed(p) == \E t \in Threads : Busy(t) /\ wpkt[t] = p
Queued(p) == \E t \in Threads : p \in ToSet(queue[t])
NotPast(p, q) ==
  /\ Queued(p) => ~Processed(q) /\ ~Finished(q)
  /\ Processed(p) => ~Finished(q)
  /\ \A t \in Threads : \A m, n \in DOMAIN queue[t] :
       queue[t][m] = p /\ queue[t][n] = q => m < n
  /\ \A m, n \in DOMAIN done : done[m] = p /\ done[n] = q => m < n
InOrder == \A p, q \in Packets : Follows(q, p) => NotPast(p, q)

\* FeedIsSuffix and InLane are what InOrder needs to be inductive.
OrderInv == FeedIsSuffix /\ InLane /\ InOrder

\* Packets that follow one another differ, have one capture thread and one
\* processing thread.
LEMMA FollowsFacts ==
  ASSUME NEW p \in Packets, NEW q \in Packets, Follows(q, p)
  PROVE  /\ p # q /\ ProducerOf(p) = ProducerOf(q)
         /\ \A t, u : Lane(p, t) /\ Lane(q, u) => t = u
<1>1. PICK c \in Producers : \E i, j \in DOMAIN Feed[c] :
         i < j /\ Feed[c][i] = p /\ Feed[c][j] = q
  BY DEF Follows
<1>2. PICK i, j \in DOMAIN Feed[c] : i < j /\ Feed[c][i] = p /\ Feed[c][j] = q
  BY <1>1
<1>3. Feed[c] \in Seq(Packets) /\ i # j
  BY <1>2, PacketAssumption
<1>4. p # q
  BY <1>2, <1>3, CaptureAssumption
<1>5. ASSUME NEW r \in {p, q}, NEW d \in Producers
      PROVE  r \in ToSet(Feed[d]) <=> d = c
  <2>1. Feed[d] \in Seq(Packets)
    BY PacketAssumption
  <2>2. r \in ToSet(Feed[c])
    BY <1>2, <1>3, SequenceElements
  <2>3. r \in ToSet(Feed[d]) => \E k \in DOMAIN Feed[d] : Feed[d][k] = r
    BY <2>1, SequenceElements
  <2> QED BY <1>2, <2>2, <2>3, CaptureAssumption
<1>6. ASSUME NEW r \in {p, q} PROVE ProducerOf(r) = c
  <2>1. r # NoPacket
    BY PacketAssumption
  <2>2. \A d \in Producers : r \in ToSet(Feed[d]) <=> d = c
    BY <1>5
  <2> QED BY <2>1, <2>2 DEF ProducerOf
<1> QED BY <1>4, <1>6 DEF Lane, Follows

\* The packets that follow the next packet of a capture thread are with it.
LEMMA FollowsCaptured ==
  ASSUME TypeInv, FeedIsSuffix, NEW c \in Producers, feed[c] # <<>>,
         NEW q \in Packets, Follows(q, Head(feed[c]))
  PROVE  q \in ToSet(feed[c])
<1>1. feed[c] \in Seq(Packets) /\ Feed[c] \in Seq(Packets)
  BY PacketAssumption DEF TypeInv, TypeOK
<1> DEFINE k == Len(Feed[c]) - Len(feed[c])
<1>2. /\ k \in Nat /\ 1 + k \in DOMAIN Feed[c]
      /\ 1 \in DOMAIN feed[c] /\ Head(feed[c]) = feed[c][1]
  <2>1. Len(feed[c]) <= Len(Feed[c])
    BY DEF FeedIsSuffix
  <2>2. /\ Len(feed[c]) \in Nat /\ Len(feed[c]) # 0 /\ Len(Feed[c]) \in Nat
        /\ DOMAIN feed[c] = 1 .. Len(feed[c])
        /\ DOMAIN Feed[c] = 1 .. Len(Feed[c])
        /\ Head(feed[c]) = feed[c][1]
    BY <1>1
  <2>3. k \in Nat /\ 1 + k \in 1 .. Len(Feed[c]) /\ 1 \in 1 .. Len(feed[c])
    <3>1. \A l, m \in Nat : l <= m /\ l # 0 =>
            m - l \in Nat /\ 1 + (m - l) \in 1 .. m /\ 1 \in 1 .. l
      OBVIOUS
    <3> QED BY <2>1, <2>2, <3>1
  <2> HIDE DEF k
  <2> QED BY <2>2, <2>3
<1>3. \A i \in DOMAIN feed[c] : feed[c][i] = Feed[c][i + k]
  BY DEF FeedIsSuffix
<1>4. Head(feed[c]) = Feed[c][1 + k]
  BY <1>2, <1>3
<1>5. PICK d \in Producers : \E i, j \in DOMAIN Feed[d] :
         i < j /\ Feed[d][i] = Head(feed[c]) /\ Feed[d][j] = q
  BY DEF Follows
<1>6. PICK i, j \in DOMAIN Feed[d] :
         i < j /\ Feed[d][i] = Head(feed[c]) /\ Feed[d][j] = q
  BY <1>5
<1>7. d = c /\ i = 1 + k
  <2>1. Feed[d][i] = Feed[c][1 + k]
    BY <1>4, <1>6
  <2> HIDE DEF k
  <2> QED BY <1>2, <2>1, CaptureAssumption
<1>8. j - k \in DOMAIN feed[c] /\ (j - k) + k = j
  <2>1. j \in 1 .. Len(Feed[c]) /\ Len(Feed[c]) = k + Len(feed[c])
    BY <1>1, <1>6, <1>7
  <2>2. Len(feed[c]) \in Nat /\ DOMAIN feed[c] = 1 .. Len(feed[c])
    BY <1>1
  <2>3. 1 + k < j
    BY <1>6, <1>7
  <2> HIDE DEF k
  <2> QED BY <1>2, <2>1, <2>2, <2>3
<1>9. feed[c][j - k] = q
  BY <1>3, <1>6, <1>7, <1>8
<1> QED BY <1>1, <1>8, <1>9, SequenceElements

\* What a capture thread still has stays the end of what it was given.
LEMMA SuffixKept ==
  ASSUME NEW c \in Producers, TypeInv, FeedIsSuffix, feed[c] # <<>>,
         feed' = [feed EXCEPT ![c] = Tail(@)]
  PROVE  FeedIsSuffix'
<1>1. /\ feed[c] \in Seq(Packets) /\ Feed[c] \in Seq(Packets)
      /\ DOMAIN feed = Producers
  BY PacketAssumption DEF TypeInv, TypeOK
<1>2. /\ Len(feed[c]) <= Len(Feed[c])
      /\ \A i \in DOMAIN feed[c] :
           feed[c][i] = Feed[c][i + (Len(Feed[c]) - Len(feed[c]))]
  BY DEF FeedIsSuffix
<1>3. feed'[c] = Tail(feed[c]) /\ \A d \in Producers : d # c => feed'[d] = feed[d]
  BY <1>1
<1>4. /\ Len(Tail(feed[c])) = Len(feed[c]) - 1
      /\ Len(feed[c]) \in Nat /\ Len(Feed[c]) \in Nat
      /\ \A i \in DOMAIN Tail(feed[c]) :
           i \in Int /\ i + 1 \in DOMAIN feed[c] /\ Tail(feed[c])[i] = feed[c][i + 1]
  BY <1>1
<1>5. Len(feed'[c]) <= Len(Feed[c])
  BY <1>2, <1>3, <1>4
<1>6. ASSUME NEW i \in DOMAIN feed'[c]
      PROVE  feed'[c][i] = Feed[c][i + (Len(Feed[c]) - Len(feed'[c]))]
  <2>1. /\ i \in Int /\ feed'[c][i] = feed[c][i + 1]
        /\ i + 1 \in DOMAIN feed[c]
    BY <1>3, <1>4
  <2>2. (i + 1) + (Len(Feed[c]) - Len(feed[c]))
          = i + (Len(Feed[c]) - Len(feed'[c]))
    <3>1. PICK l \in Nat : l = Len(feed[c])
      BY <1>4
    <3>2. PICK m \in Nat : m = Len(Feed[c])
      BY <1>4
    <3>3. Len(feed'[c]) = l - 1
      BY <1>3, <1>4, <3>1
    <3>4. (i + 1) + (m - l) = i + (m - (l - 1))
      BY <2>1
    <3> QED BY <3>1, <3>2, <3>3, <3>4
  <2> QED BY <1>2, <2>1, <2>2
<1>7. ASSUME NEW d \in Producers, d # c
      PROVE  /\ Len(feed'[d]) <= Len(Feed[d])
             /\ \A i \in DOMAIN feed'[d] :
                  feed'[d][i] = Feed[d][i + (Len(Feed[d]) - Len(feed'[d]))]
  BY <1>3, <1>7 DEF FeedIsSuffix
<1> QED BY <1>5, <1>6, <1>7 DEF FeedIsSuffix

\* The thread that Measure picks is the one of the packet.
LEMMA MeasureKeepsOrder ==
  ASSUME NEW c \in Producers, TypeInv, OrderInv, Measure(c)
  PROVE  OrderInv'
<1>1. /\ feed' = feed /\ queue' = queue /\ done' = done
      /\ wpc' = wpc /\ wpkt' = wpkt
      /\ ppc' = [ppc EXCEPT ![c] = "measured"]
  BY DEF Measure
<1>2. \A d \in Producers : d # c => ppc'[d] = ppc[d] /\ target'[d] = target[d]
  BY DEF Measure, TypeInv, TypeOK
<1>3. Lane(Head(feed[c]), target'[c])
  <2>1. PICK t \in ProcessingIds(Head(feed[c])) :
           target' = [target EXCEPT ![c] = t]
    BY DEF Measure
  <2>2. target'[c] = t
    BY <2>1 DEF TypeInv, TypeOK
  <2> QED BY <2>1, <2>2 DEF ProcessingIds, Lane
<1>4. FeedIsSuffix' /\ InOrder'
  BY <1>1 DEF OrderInv, FeedIsSuffix, InOrder, NotPast, Queued, Processed,
              Finished, Busy
<1>5. InLane'
  <2>1. \A d \in Producers :
          ppc'[d] = "measured" => Lane(Head(feed'[d]), target'[d])
    BY <1>1, <1>2, <1>3 DEF OrderInv, InLane
  <2>2. \A t \in Threads : \A m \in DOMAIN queue'[t] :
          queue'[t][m] # NoPacket => Lane(queue'[t][m], t)
    BY <1>1 DEF OrderInv, InLane
  <2>3. \A t \in Threads : Busy(t)' => Lane(wpkt'[t], t)
    BY <1>1 DEF OrderInv, InLane, Busy
  <2> QED BY <2>1, <2>2, <2>3 DEF InLane, Lane
<1> QED BY <1>4, <1>5 DEF OrderInv

\* A capture thread whose call returns, and the lanes of the others.
LEMMA ReturnKeepsLanes ==
  ASSUME NEW c \in Producers, TypeInv, OrderInv, Return(c),
         ppc[c] = "measured"
  PROVE  /\ FeedIsSuffix' /\ feed[c] # <<>> /\ Head(feed[c]) \in Packets
         /\ \A d \in Producers :
              ppc'[d] = "measured" => Lane(Head(feed'[d]), target'[d])
<1>1. /\ feed[c] # <<>> /\ feed[c] \in Seq(Packets)
      /\ feed' = [feed EXCEPT ![c] = Tail(@)] /\ target' = target
      /\ ppc' = [ppc EXCEPT ![c] = "idle"]
      /\ DOMAIN feed = Producers /\ DOMAIN ppc = Producers
  BY DEF TypeInv, TypeOK, HasPacket, Return
<1>2. FeedIsSuffix'
  BY <1>1, SuffixKept DEF OrderInv
<1>3. \A d \in Producers :
        ppc'[d] = "measured" => d # c /\ ppc[d] = "measured" /\ feed'[d] = feed[d]
  BY <1>1
<1> QED BY <1>1, <1>2, <1>3 DEF OrderInv, InLane

\* A refused packet leaves no gap anything depends on.
LEMMA DropKeepsOrder ==
  ASSUME NEW c \in Producers, TypeInv, OrderInv, Drop(c)
  PROVE  OrderInv'
<1>1. /\ ppc[c] = "measured" /\ Return(c)
      /\ queue' = queue /\ done' = done /\ wpc' = wpc /\ wpkt' = wpkt
  BY DEF Drop
<1>2. InOrder'
  BY <1>1 DEF OrderInv, InOrder, NotPast, Queued, Processed, Finished, Busy
<1>3. \A t \in Threads : \A m \in DOMAIN queue'[t] :
        queue'[t][m] # NoPacket => Lane(queue'[t][m], t)
  BY <1>1 DEF OrderInv, InLane
<1>4. \A t \in Threads : Busy(t)' => Lane(wpkt'[t], t)
  BY <1>1 DEF OrderInv, InLane, Busy
<1> QED BY <1>1, <1>2, <1>3, <1>4, ReturnKeepsLanes DEF OrderInv, InLane, Lane

\* A packet is appended behind those it follows, which are in no other queue.
LEMMA EnqueueKeepsOrder ==
  ASSUME NEW c \in Producers, TypeInv, PacketConserved, OrderInv, Enqueue(c)
  PROVE  OrderInv'
<1>1. PICK p0, t0 : p0 = Head(feed[c]) /\ t0 = target[c]
  OBVIOUS
<1>2. /\ ppc[c] = "measured" /\ Return(c)
      /\ queue' = [queue EXCEPT ![t0] = Append(@, p0)]
      /\ done' = done /\ wpc' = wpc /\ wpkt' = wpkt
  BY <1>1 DEF Enqueue
<1>3. /\ FeedIsSuffix' /\ feed[c] # <<>> /\ p0 \in Packets
      /\ \A d \in Producers :
           ppc'[d] = "measured" => Lane(Head(feed'[d]), target'[d])
  BY <1>1, <1>2, ReturnKeepsLanes
<1>4. /\ t0 \in Threads /\ DOMAIN queue = Threads
      /\ \A t \in Threads : queue[t] \in Seq(Packets \cup {NoPacket})
      /\ feed[c] \in Seq(Packets) /\ NoPacket \notin Packets
  BY <1>1, PacketAssumption DEF TypeInv, TypeOK
<1>5. Lane(p0, t0)
  BY <1>1, <1>2 DEF OrderInv, InLane
<1>6. /\ \A t \in Threads : t # t0 => queue'[t] = queue[t]
      /\ queue'[t0] = Append(queue[t0], p0)
      /\ DOMAIN queue'[t0] = DOMAIN queue[t0] \cup {Len(queue[t0]) + 1}
      /\ queue'[t0][Len(queue[t0]) + 1] = p0
      /\ \A m \in DOMAIN queue[t0] : m < Len(queue[t0]) + 1
                                     /\ queue'[t0][m] = queue[t0][m]
  BY <1>2, <1>4
<1>7. \A p : p # p0 =>
        /\ \A t \in Threads : p \in ToSet(queue'[t]) <=> p \in ToSet(queue[t])
        /\ Queued(p)' <=> Queued(p)
        /\ Processed(p)' <=> Processed(p)
        /\ Finished(p)' <=> Finished(p)
  <2>1. \A p : p # p0 => \A t \in Threads :
          p \in ToSet(queue'[t]) <=> p \in ToSet(queue[t])
    <3>1. ToSet(queue'[t0]) = ToSet(queue[t0]) \cup {p0}
      BY <1>3, <1>4, <1>6, SequenceElements
    <3> QED BY <1>6, <3>1
  <2> QED BY <2>1, <1>2 DEF Queued, Processed, Finished, Busy
<1>8. /\ Whole /\ p0 \in ToSet(feed[c])
      /\ ~Queued(p0) /\ ~Processed(p0) /\ ~Finished(p0)
      /\ ~Processed(p0)' /\ ~Finished(p0)'
  <2>1. Whole /\ p0 \in ToSet(feed[c])
    BY <1>1, <1>3, <1>4, SequenceElements DEF PacketConserved, Whole
  <2>2. ~Queued(p0) /\ ~Processed(p0) /\ ~Finished(p0)
    BY <1>3, <2>1, Apart DEF Queued, Processed, Finished
  <2> QED BY <1>2, <2>1, <2>2 DEF Processed, Finished, Busy
<1>9. ASSUME NEW p \in Packets, NEW q \in Packets, Follows(q, p)
      PROVE  NotPast(p, q)'
  <2>1. p # q /\ \A t, u : Lane(p, t) /\ Lane(q, u) => t = u
    BY <1>9, FollowsFacts
  <2>2. NotPast(p, q)
    BY <1>9 DEF OrderInv, InOrder
  <2>3. CASE p = p0
    <3>1. q \in ToSet(feed[c])
      BY <1>1, <1>3, <1>9, <2>3, FollowsCaptured DEF OrderInv
    <3>2. ~Queued(q) /\ ~Processed(q) /\ ~Finished(q)
      BY <1>8, <3>1, Apart DEF Queued, Processed, Finished
    <3>3. ~Queued(q)' /\ ~Processed(q)' /\ ~Finished(q)'
      BY <1>7, <2>1, <2>3, <3>2
    <3>4. /\ \A t \in Threads : \A n \in DOMAIN queue'[t] : queue'[t][n] # q
          /\ \A n \in DOMAIN done' : done'[n] # q
      BY <3>3 DEF Queued, Finished, ToSet
    <3> QED BY <3>3, <3>4 DEF NotPast
  <2>4. CASE q = p0
    <3>1. ~Processed(q)' /\ ~Finished(q)'
      BY <1>8, <2>4
    <3>2. ASSUME NEW t \in Threads, NEW m \in DOMAIN queue'[t],
                 NEW n \in DOMAIN queue'[t],
                 queue'[t][m] = p, queue'[t][n] = q
          PROVE  m < n
      <4>1. \A u \in Threads : \A k \in DOMAIN queue[u] : queue[u][k] # q
        BY <1>8, <2>4 DEF Queued, ToSet
      <4>2. t = t0 /\ n = Len(queue[t0]) + 1
        BY <1>6, <3>2, <4>1
      <4>3. m \in DOMAIN queue[t0]
        BY <1>6, <2>1, <2>4, <3>2, <4>2
      <4> QED BY <1>6, <4>2, <4>3
    <3>3. \A n \in DOMAIN done' : done'[n] # q
      BY <3>1 DEF Finished, ToSet
    <3> QED BY <3>1, <3>2, <3>3 DEF NotPast
  <2>5. CASE p # p0 /\ q # p0
    <3>1. ASSUME NEW t \in Threads, NEW m \in DOMAIN queue'[t],
                 NEW n \in DOMAIN queue'[t],
                 queue'[t][m] = p, queue'[t][n] = q
          PROVE  m < n
      <4>1. /\ m \in DOMAIN queue[t] /\ n \in DOMAIN queue[t]
            /\ queue[t][m] = p /\ queue[t][n] = q
        BY <1>6, <2>5, <3>1
      <4> QED BY <2>2, <4>1 DEF NotPast
    <3>2. \A m, n \in DOMAIN done' : done'[m] = p /\ done'[n] = q => m < n
      BY <1>2, <2>2 DEF NotPast
    <3> QED BY <1>7, <2>2, <2>5, <3>1, <3>2 DEF NotPast
  <2> QED BY <2>3, <2>4, <2>5
<1>10. InOrder'
  BY <1>9 DEF InOrder, Follows
<1>11. \A t \in Threads : \A m \in DOMAIN queue'[t] :
         queue'[t][m] # NoPacket => Lane(queue'[t][m], t)
  BY <1>5, <1>6 DEF OrderInv, InLane
<1>12. \A t \in Threads : Busy(t)' => Lane(wpkt'[t], t)
  BY <1>2 DEF OrderInv, InLane, Busy
<1> QED BY <1>3, <1>10, <1>11, <1>12 DEF OrderInv, InLane, Lane

\* A thread takes the first packet of those that follow one another.
LEMMA DequeueKeepsOrder ==
  ASSUME NEW t0 \in Threads, TypeInv, PacketConserved, OrderInv, Dequeue(t0)
  PROVE  OrderInv'
<1>1. PICK i \in DOMAIN queue[t0] :
        /\ IsNext(queue[t0], i)
        /\ queue' = [queue EXCEPT ![t0] = Without(@, i)]
        /\ wpkt' = [wpkt EXCEPT ![t0] = queue[t0][i]]
        /\ wpc[t0] = "wait"
        /\ wpc' = [wpc EXCEPT ![t0] = IF IsWakeUp(queue[t0][i]) THEN "exit"
                                      ELSE "lock"]
  BY DEF Dequeue, Goto
<1>2. PICK e : e = queue[t0][i]
  OBVIOUS
<1>3. /\ queue \in [Threads -> Seq(Packets \cup {NoPacket})]
      /\ DOMAIN wpc = Threads /\ DOMAIN wpkt = Threads
      /\ queue[t0] \in Seq(Packets \cup {NoPacket})
      /\ e \in Packets \cup {NoPacket} /\ NoPacket \notin Packets
      /\ \A u \in Threads : DOMAIN queue[u] \subseteq Int
  BY <1>1, <1>2, PacketAssumption DEF TypeInv, TypeOK
<1>4. /\ Whole /\ NoRepeat(queue[t0])
  BY DEF PacketConserved, Whole
<1>5. /\ queue'[t0] = Without(queue[t0], i) /\ wpkt'[t0] = e
      /\ wpc'[t0] = IF e = NoPacket THEN "exit" ELSE "lock"
      /\ \A u \in Threads : u # t0 => /\ queue'[u] = queue[u]
                                      /\ wpkt'[u] = wpkt[u] /\ wpc'[u] = wpc[u]
      /\ feed' = feed /\ dropped' = dropped /\ done' = done
      /\ ppc' = ppc /\ target' = target
  BY <1>1, <1>2, <1>3 DEF Dequeue, IsWakeUp, producerVars
<1> DEFINE From(k) == IF k < i THEN k ELSE k + 1
<1>6. \A k \in DOMAIN queue'[t0] : /\ From(k) \in DOMAIN queue[t0]
                                   /\ queue'[t0][k] = queue[t0][From(k)]
                                   /\ k \in Int
  <2>1. \A k \in DOMAIN Without(queue[t0], i) : k \in Int
    BY <1>1, <1>3, WithoutShorter
  <2> QED BY <1>1, <1>3, <1>5, <2>1, WithoutItems
<1>7. \A k, l \in Int : From(k) < From(l) => k < l
  BY <1>3
<1> HIDE DEF From
<1>8. \A p \in Packets : p \in ToSet(queue'[t0]) => p \in ToSet(queue[t0]) /\ p # e
  <2>1. \A p \in Packets : p \in ToSet(Without(queue[t0], i)) =>
          p \in ToSet(queue[t0]) /\ p # e
    BY <1>1, <1>2, <1>3, <1>4, NoRepeatWithout
  <2> QED BY <1>5, <2>1
<1>9. \A u \in Threads : u # t0 => (Busy(u)' <=> Busy(u))
  BY <1>5 DEF Busy
<1>10. /\ ~Busy(t0) /\ (Busy(t0)' <=> e # NoPacket)
  BY <1>1, <1>5 DEF Busy
<1>11. /\ e # NoPacket => Lane(e, t0) /\ e \in ToSet(queue[t0]) /\ Queued(e)
       /\ e # NoPacket => ~Processed(e) /\ ~Finished(e)
  <2>1. e \in ToSet(queue[t0]) /\ (e # NoPacket => Lane(e, t0))
    BY <1>1, <1>2, <1>3, SequenceElements DEF OrderInv, InLane
  <2>2. ASSUME e # NoPacket PROVE ~Processed(e) /\ ~Finished(e)
    <3>1. e \in Packets
      BY <1>3, <2>2
    <3>2. \A u \in Threads : ~(Busy(u) /\ wpkt[u] = e)
      BY <1>4, <2>1, <3>1, Apart
    <3>3. e \notin ToSet(done)
      BY <1>4, <2>1, <3>1, Apart
    <3> QED BY <3>2, <3>3 DEF Processed, Finished
  <2> QED BY <2>1, <2>2 DEF Queued
<1>12. \A p \in Packets :
         /\ Queued(p)' => Queued(p) /\ p # e
         /\ p # e => (Processed(p)' <=> Processed(p))
         /\ Finished(p)' <=> Finished(p)
  <2>1. ASSUME NEW p \in Packets, Queued(p)' PROVE Queued(p) /\ p # e
    <3>1. PICK u \in Threads : p \in ToSet(queue'[u])
      BY <2>1 DEF Queued
    <3>2. CASE u = t0
      BY <1>8, <3>1, <3>2 DEF Queued
    <3>3. CASE u # t0
      <4>1. p \in ToSet(queue[u])
        BY <1>5, <3>1, <3>3
      <4>2. p # e
        BY <1>3, <1>4, <1>11, <3>3, <4>1, Apart
      <4> QED BY <4>1, <4>2 DEF Queued
    <3> QED BY <3>2, <3>3
  <2>2. ASSUME NEW p \in Packets, p # e PROVE Processed(p)' <=> Processed(p)
    BY <1>5, <1>9, <1>10, <2>2 DEF Processed
  <2> QED BY <1>5, <2>1, <2>2 DEF Finished
<1>13. ASSUME NEW p \in Packets, NEW q \in Packets, Follows(q, p)
       PROVE  NotPast(p, q)'
  <2>1. p # q /\ \A t, u : Lane(p, t) /\ Lane(q, u) => t = u
    BY <1>13, FollowsFacts
  <2>2. NotPast(p, q)
    BY <1>13 DEF OrderInv, InOrder
  <2>3. \A m, n \in DOMAIN done' : done'[m] = p /\ done'[n] = q => m < n
    BY <1>5, <2>2 DEF NotPast
  <2>4. ASSUME NEW t \in Threads, NEW m \in DOMAIN queue'[t],
               NEW n \in DOMAIN queue'[t], queue'[t][m] = p, queue'[t][n] = q
        PROVE  m < n
    <3>1. CASE t = t0
      <4>1. From(m) < From(n)
        BY <1>6, <2>2, <2>4, <3>1 DEF NotPast
      <4> QED BY <1>6, <1>7, <2>4, <3>1, <4>1
    <3>2. CASE t # t0
      BY <1>5, <2>2, <2>4, <3>2 DEF NotPast
    <3> QED BY <3>1, <3>2
  <2>5. CASE p = e
    <3>1. ~Queued(p)' /\ ~Finished(q)'
      BY <1>3, <1>11, <1>12, <2>2, <2>5 DEF NotPast
    <3> QED BY <2>3, <2>4, <3>1 DEF NotPast
  <2>6. CASE q = e
    <3>1. ~Finished(q)'
      BY <1>3, <1>11, <1>12, <2>6
    <3>2. ~Queued(p)
      <4>1. SUFFICES ASSUME Queued(p) PROVE FALSE
        OBVIOUS
      <4>2. PICK u \in Threads : p \in ToSet(queue[u])
        BY <4>1 DEF Queued
      <4>3. PICK m \in DOMAIN queue[u] : queue[u][m] = p
        BY <4>2 DEF ToSet
      <4>4. u = t0
        BY <1>3, <1>11, <2>1, <2>6, <4>3 DEF OrderInv, InLane
      <4>5. m < i
        BY <1>1, <1>2, <2>2, <2>6, <4>3, <4>4 DEF NotPast
      <4>6. ProducerOf(queue[t0][m]) # ProducerOf(queue[t0][i])
        <5>1. m \in 1 .. (i - 1)
          BY <1>1, <1>3, <4>3, <4>4, <4>5
        <5> QED BY <1>1, <5>1 DEF IsNext
      <4> QED BY <1>2, <1>13, <2>6, <4>3, <4>4, <4>6, FollowsFacts
    <3> QED BY <1>12, <2>3, <2>4, <3>1, <3>2 DEF NotPast
  <2>7. CASE p # e /\ q # e
    BY <1>12, <2>2, <2>3, <2>4, <2>7 DEF NotPast
  <2> QED BY <2>5, <2>6, <2>7
<1>14. InOrder'
  BY <1>13 DEF InOrder, Follows
<1>15. \A t \in Threads : \A m \in DOMAIN queue'[t] :
         queue'[t][m] # NoPacket => Lane(queue'[t][m], t)
  BY <1>5, <1>6 DEF OrderInv, InLane
<1>16. \A t \in Threads : Busy(t)' => Lane(wpkt'[t], t)
  BY <1>5, <1>9, <1>10, <1>11 DEF OrderInv, InLane
<1>17. \A c \in Producers :
         ppc'[c] = "measured" => Lane(Head(feed'[c]), target'[c])
  BY <1>5 DEF OrderInv, InLane
<1>18. FeedIsSuffix'
  BY <1>5 DEF OrderInv, FeedIsSuffix
<1> QED BY <1>14, <1>15, <1>16, <1>17, <1>18 DEF OrderInv, InLane, Lane

\* A packet is processed after those it follows: they are in no queue, and the
\* one thread that could process them is processing it.
LEMMA RunChainsKeepsOrder ==
  ASSUME NEW t0 \in Threads, TypeInv, PacketConserved, OrderInv, RunChains(t0)
  PROVE  OrderInv'
<1>1. PICK e : e = wpkt[t0]
  OBVIOUS
<1>2. /\ wpc[t0] = "chains" /\ wpc' = [wpc EXCEPT ![t0] = "finish"]
      /\ done' = Append(done, e)
      /\ feed' = feed /\ queue' = queue /\ wpkt' = wpkt
      /\ ppc' = ppc /\ target' = target
  BY <1>1 DEF RunChains, Goto, producerVars
<1>3. e \in Packets /\ DOMAIN wpc = Threads /\ done \in Seq(Packets)
  BY <1>1, <1>2 DEF TypeInv, TypeOK, HasPacket
<1>4. /\ Busy(t0) /\ ~Busy(t0)'
      /\ \A u \in Threads : u # t0 => (Busy(u)' <=> Busy(u))
  BY <1>2, <1>3 DEF Busy
<1>5. /\ Whole /\ Processed(e) /\ Lane(e, t0)
  BY <1>1, <1>4 DEF PacketConserved, Whole, Processed, OrderInv, InLane
<1>6. \A m \in DOMAIN done : done[m] # e
  <2>1. e \notin ToSet(done)
    BY <1>1, <1>3, <1>4, <1>5, Apart
  <2> QED BY <2>1 DEF ToSet
<1>7. /\ DOMAIN done' = DOMAIN done \cup {Len(done) + 1}
      /\ done'[Len(done) + 1] = e
      /\ \A m \in DOMAIN done : m < Len(done) + 1 /\ done'[m] = done[m]
  BY <1>2, <1>3
<1>8. \A p \in Packets : /\ Queued(p)' <=> Queued(p)
                         /\ Processed(p)' => Processed(p) /\ p # e
                         /\ p # e => (Finished(p)' <=> Finished(p))
  <2>1. ASSUME NEW p \in Packets, Processed(p)' PROVE Processed(p) /\ p # e
    <3>1. PICK u \in Threads : Busy(u)' /\ wpkt'[u] = p
      BY <2>1 DEF Processed
    <3>2. u # t0 /\ Busy(u) /\ wpkt[u] = p
      BY <1>2, <1>4, <3>1
    <3> QED BY <1>1, <1>4, <1>5, <3>2, Apart DEF Processed
  <2>2. ToSet(done') = ToSet(done) \cup {e}
    BY <1>2, <1>3, SequenceElements
  <2> QED BY <1>2, <2>1, <2>2 DEF Queued, Finished
<1>9. ASSUME NEW p \in Packets, NEW q \in Packets, Follows(q, p)
      PROVE  NotPast(p, q)'
  <2>1. p # q /\ \A t, u : Lane(p, t) /\ Lane(q, u) => t = u
    BY <1>9, FollowsFacts
  <2>2. NotPast(p, q)
    BY <1>9 DEF OrderInv, InOrder
  <2>3. \A t \in Threads : \A m, n \in DOMAIN queue'[t] :
          queue'[t][m] = p /\ queue'[t][n] = q => m < n
    BY <1>2, <2>2 DEF NotPast
  <2>4. CASE p = e
    <3>1. ~Finished(q)
      BY <1>5, <2>2, <2>4 DEF NotPast
    <3>2. \A n \in DOMAIN done' : done'[n] # q
      BY <1>7, <2>1, <2>4, <3>1 DEF Finished, ToSet
    <3>3. ~Queued(p)'
      BY <1>1, <1>3, <1>4, <1>5, <1>8, <2>4, Apart DEF Queued
    <3>4. ~Processed(p)'
      BY <1>8, <2>4
    <3> QED BY <2>3, <3>2, <3>3, <3>4 DEF NotPast
  <2>5. CASE q = e
    <3>1. ~Queued(p)'
      BY <1>5, <1>8, <2>2, <2>5 DEF NotPast
    <3>2. ~Processed(p)'
      <4>1. ASSUME NEW u \in Threads, Busy(u), wpkt[u] = p PROVE FALSE
        <5>1. Lane(p, u)
          BY <4>1 DEF OrderInv, InLane
        <5> QED BY <1>1, <1>5, <2>1, <2>5, <4>1, <5>1
      <4> QED BY <1>8, <4>1 DEF Processed
    <3>3. \A m, n \in DOMAIN done' : done'[m] = p /\ done'[n] = q => m < n
      BY <1>6, <1>7, <2>1, <2>5
    <3> QED BY <2>3, <3>1, <3>2, <3>3 DEF NotPast
  <2>6. CASE p # e /\ q # e
    <3>1. \A m, n \in DOMAIN done' : done'[m] = p /\ done'[n] = q => m < n
      BY <1>7, <2>2, <2>6 DEF NotPast
    <3> QED BY <1>8, <2>2, <2>3, <2>6, <3>1 DEF NotPast
  <2> QED BY <2>4, <2>5, <2>6
<1>10. InOrder'
  BY <1>9 DEF InOrder, Follows
<1>11. \A t \in Threads : Busy(t)' => Lane(wpkt'[t], t)
  BY <1>2, <1>4 DEF OrderInv, InLane
<1>12. /\ \A t \in Threads : \A m \in DOMAIN queue'[t] :
            queue'[t][m] # NoPacket => Lane(queue'[t][m], t)
       /\ \A c \in Producers :
            ppc'[c] = "measured" => Lane(Head(feed'[c]), target'[c])
  BY <1>2 DEF OrderInv, InLane
<1>13. FeedIsSuffix'
  BY <1>2 DEF OrderInv, FeedIsSuffix
<1> QED BY <1>10, <1>11, <1>12, <1>13 DEF OrderInv, InLane, Lane

\* The steps that put no packet in a queue and take none from it.
LEMMA OthersKeepOrder ==
  ASSUME TypeInv, OrderInv,
         feed' = feed, ppc' = ppc, target' = target, done' = done,
         \A t \in Threads : /\ Busy(t)' <=> Busy(t)
                            /\ Busy(t) => wpkt'[t] = wpkt[t]
                            /\ queue'[t] \in {queue[t], WakeUp(queue[t])}
  PROVE  OrderInv'
<1>1. ASSUME NEW t \in Threads, NEW m \in DOMAIN queue'[t],
             queue'[t][m] # NoPacket
      PROVE  m \in DOMAIN queue[t] /\ queue'[t][m] = queue[t][m]
  <2>1. queue[t] \in Seq(Packets \cup {NoPacket})
    BY DEF TypeInv, TypeOK
  <2> QED BY <1>1, <2>1 DEF WakeUp
<1>2. ASSUME NEW p \in Packets
      PROVE  /\ Queued(p)' => Queued(p)
             /\ Processed(p)' <=> Processed(p)
             /\ Finished(p)' <=> Finished(p)
  <2>1. ASSUME NEW t \in Threads, p \in ToSet(queue'[t])
        PROVE  p \in ToSet(queue[t])
    BY <1>1, <2>1, PacketAssumption DEF ToSet
  <2> QED BY <2>1 DEF Queued, Processed, Finished
<1>3. ASSUME NEW p \in Packets, NEW q \in Packets, Follows(q, p)
      PROVE  NotPast(p, q)'
  <2>1. NotPast(p, q)
    BY <1>3 DEF OrderInv, InOrder
  <2>2. p # NoPacket /\ q # NoPacket
    BY PacketAssumption
  <2> QED BY <1>1, <1>2, <2>1, <2>2 DEF NotPast
<1>4. InOrder'
  BY <1>3 DEF InOrder, Follows
<1>5. /\ \A t \in Threads : \A m \in DOMAIN queue'[t] :
           queue'[t][m] # NoPacket => Lane(queue'[t][m], t)
      /\ \A t \in Threads : Busy(t)' => Lane(wpkt'[t], t)
      /\ \A c \in Producers :
           ppc'[c] = "measured" => Lane(Head(feed'[c]), target'[c])
  BY <1>1 DEF OrderInv, InLane
<1>6. FeedIsSuffix'
  BY DEF OrderInv, FeedIsSuffix
<1> QED BY <1>4, <1>5, <1>6 DEF OrderInv, InLane, Lane

\* Processing threads keep the order of each device's packets.
LEMMA ThreadKeepsOrder ==
  ASSUME NEW t \in Threads, TypeInv, PacketConserved, OrderInv, ThreadStep(t)
  PROVE  OrderInv'
<1>1. DOMAIN wpc = Threads /\ DOMAIN wpkt = Threads
  BY DEF TypeInv, TypeOK
<1>2. CASE LoopTop(t)
  BY <1>1, <1>2, OthersKeepOrder DEF LoopTop, Goto, Busy, producerVars
<1>3. CASE LockPacket(t)
  BY <1>1, <1>3, OthersKeepOrder DEF LockPacket, Goto, Busy, producerVars
<1>4. CASE LockPackNo(t)
  BY <1>1, <1>4, OthersKeepOrder DEF LockPackNo, Goto, Busy, producerVars
<1>5. CASE Dedupe(t)
  BY <1>1, <1>5, OthersKeepOrder DEF Dedupe, Goto, Busy, producerVars
<1>6. CASE Finish(t)
  BY <1>1, <1>6, OthersKeepOrder DEF Finish, Goto, Busy, producerVars
<1> QED
  BY <1>2, <1>3, <1>4, <1>5, <1>6, DequeueKeepsOrder, RunChainsKeepsOrder
     DEF ThreadStep

\* The order of a device as an invariant, for the theorems that need it.
LEMMA OrderIsKept == Spec => []OrderInv
<1>1. Init => OrderInv
  <2> SUFFICES ASSUME Init PROVE OrderInv
    OBVIOUS
  <2>1. /\ feed = Feed /\ done = <<>>
        /\ \A c \in Producers : ppc[c] = "idle"
        /\ \A t \in Threads : queue[t] = <<>> /\ ~Busy(t)
    BY DEF Init, Busy
  <2>2. FeedIsSuffix
    <3>1. \A c \in Producers : Feed[c] \in Seq(Packets)
      BY PacketAssumption
    <3>2. \A c \in Producers : /\ Len(Feed[c]) <= Len(Feed[c])
                               /\ Len(Feed[c]) - Len(Feed[c]) = 0
                               /\ \A i \in DOMAIN Feed[c] : i + 0 = i
      BY <3>1
    <3> QED BY <2>1, <3>2 DEF FeedIsSuffix
  <2>3. InLane
    BY <2>1 DEF InLane
  <2>4. InOrder
    BY <2>1 DEF InOrder, NotPast, Queued, Processed, Finished, ToSet
  <2> QED BY <2>2, <2>3, <2>4 DEF OrderInv
<1>2. TypeInv /\ PacketConserved /\ OrderInv /\ [Next]_vars => OrderInv'
  <2> SUFFICES ASSUME TypeInv, PacketConserved, OrderInv, [Next]_vars
               PROVE  OrderInv'
    OBVIOUS
  <2>1. ASSUME NEW c \in Producers, ProducerStep(c) PROVE OrderInv'
    BY <2>1, MeasureKeepsOrder, DropKeepsOrder, EnqueueKeepsOrder
       DEF ProducerStep
  <2>2. CASE Spindown
    BY <2>2, OthersKeepOrder DEF Spindown, Busy, producerVars
  <2>3. CASE BeginDestroy \/ Join \/ UseDeleted
    BY <2>3, OthersKeepOrder DEF BeginDestroy, Join, UseDeleted,
                                 Unchanged_Destroy, Busy, producerVars
  <2>4. CASE SendNull
    <3>1. DOMAIN queue = Threads
      BY DEF TypeInv, TypeOK
    <3> QED BY <2>4, <3>1, OthersKeepOrder
               DEF SendNull, Unchanged_Destroy, Busy, producerVars
  <2>5. CASE UNCHANGED vars
    BY <2>5, OthersKeepOrder DEF vars, producerVars, Busy
  <2> QED BY <2>1, <2>2, <2>3, <2>4, <2>5, ThreadKeepsOrder DEF Next
<1> QED BY <1>1, <1>2, TypeCorrect, PacketsConserved, PTL DEF Spec

\* Packets of one device that one capture thread hands over are processed in
\* the order of capture, for any number of threads: the lane and the queue
\* keep them in order, and one thread processes them.
THEOREM DevicesInOrder == Spec => []DeviceOrder
<1>1. OrderInv => DeviceOrder
  <2> SUFFICES ASSUME OrderInv,
                      NEW c \in Producers, NEW i \in DOMAIN Feed[c],
                      NEW j \in DOMAIN Feed[c], i < j,
                      assignment_id[Feed[c][i]] = assignment_id[Feed[c][j]],
                      assignment_id[Feed[c][i]] # 0,
                      NEW m \in DOMAIN done, NEW n \in DOMAIN done,
                      done[m] = Feed[c][i], done[n] = Feed[c][j]
               PROVE  m < n
    BY DEF DeviceOrder
  <2>1. Feed[c][i] \in Packets /\ Feed[c][j] \in Packets
    BY PacketAssumption
  <2>2. Follows(Feed[c][j], Feed[c][i])
    BY DEF Follows
  <2> QED BY <2>1, <2>2 DEF OrderInv, InOrder, NotPast
<1> QED BY <1>1, OrderIsKept, PTL

-----------------------------------------------------------------------------
(* De-duplication.                                                         *)

\* A packet that has been through the hash comparison.
Judged(p) ==
  \/ p \in ToSet(done)
  \/ \E t \in Threads : wpc[t] = "chains" /\ wpkt[t] = p

\* Only judged packets are duplicates, and an entry of the list stands for a
\* judged, unique packet with its hash. With GateOwned, which leaves no other
\* thread in its chains when a packet is compared, that packet is finished.
JudgedInv ==
  /\ \A p \in Packets : duplicate[p] => Judged(p)
  /\ \A i \in ScanRange : dedupe_list[i].hash # NoFrame =>
       LET o == dedupe_list[i].original_pkt
       IN  /\ o \in Packets /\ Frame[o] = dedupe_list[i].hash
           /\ ~duplicate[o] /\ Judged(o)
DedupeInv == JudgedInv /\ OriginalComplete

\* A packet stays judged: from the comparison to the end of its chains, and
\* for ever after.
LEMMA StaysJudged ==
  ASSUME TypeInv, [Next]_vars, NEW p, Judged(p)
  PROVE  Judged(p)'
<1>1. /\ DOMAIN wpc = Threads /\ done \in Seq(Packets)
      /\ wpkt \in [Threads -> Packets \cup {NoPacket}]
  BY DEF TypeInv, TypeOK
<1>2. ASSUME NEW t \in Threads, ThreadStep(t) PROVE Judged(p)'
  <2>1. CASE RunChains(t)
    <3>1. /\ done' = Append(done, wpkt[t]) /\ wpkt' = wpkt
          /\ wpc' = [wpc EXCEPT ![t] = "finish"] /\ wpkt[t] \in Packets
      BY <2>1 DEF RunChains, Goto, TypeInv, HasPacket
    <3>2. ToSet(done') = ToSet(done) \cup {wpkt[t]}
      BY <1>1, <3>1, SequenceElements
    <3>3. \A u \in Threads : u # t => wpc'[u] = wpc[u]
      BY <1>1, <3>1
    <3> QED BY <3>1, <3>2, <3>3 DEF Judged
  <2>2. CASE ~RunChains(t)
    <3>1. done' = done
      BY <1>2, <2>2 DEF ThreadStep, LoopTop, Dequeue, LockPacket, LockPackNo,
                        Dedupe, Finish
    <3>2. ASSUME NEW u \in Threads, wpc[u] = "chains"
          PROVE  wpc'[u] = "chains" /\ wpkt'[u] = wpkt[u]
      BY <1>1, <1>2, <2>2, <3>2
         DEF ThreadStep, LoopTop, Dequeue, LockPacket, LockPackNo, Dedupe,
             Finish, Goto
    <3> QED BY <3>1, <3>2 DEF Judged
  <2> QED BY <2>1, <2>2
<1>3. ASSUME UNCHANGED <<wpc, wpkt, done>> PROVE Judged(p)'
  BY <1>3 DEF Judged
<1>4. ASSUME NEW c \in Producers, ProducerStep(c) PROVE Judged(p)'
  BY <1>3, <1>4 DEF ProducerStep, Measure, Drop, Enqueue
<1>5. CASE Spindown \/ BeginDestroy \/ SendNull \/ Join \/ UseDeleted
  BY <1>3, <1>5 DEF Spindown, BeginDestroy, SendNull, Join, UseDeleted,
                   Unchanged_Destroy
<1>6. CASE UNCHANGED vars
  BY <1>3, <1>6 DEF vars
<1> QED BY <1>2, <1>4, <1>5, <1>6 DEF Next

\* The comparison: the packet is new, the originals in the list are finished.
LEMMA DedupeKeepsOriginals ==
  ASSUME NEW t \in Threads, TypeInv, PacketConserved, GateOwned, DedupeInv,
         Dedupe(t), [Next]_vars
  PROVE  DedupeInv'
<1>1. PICK e : e = wpkt[t]
  OBVIOUS
<1>2. /\ wpc[t] = "dedupe" /\ wpc' = [wpc EXCEPT ![t] = "chains"]
      /\ wpkt' = wpkt /\ done' = done
      /\ e \in Packets /\ NoPacket \notin Packets
      /\ DOMAIN wpc = Threads
      /\ duplicate \in [Packets -> BOOLEAN]
      /\ original \in [Packets -> Packets \cup {NoPacket}]
      /\ dedupe_list \in [ScanRange -> Entry]
  BY <1>1, PacketAssumption
     DEF Dedupe, Goto, TypeInv, TypeOK, HasPacket, ScanRange
<1>3. ~Judged(e) /\ Judged(e)'
  <2>1. Whole /\ Busy(t)
    BY <1>2 DEF PacketConserved, Whole, Busy
  <2>2. e \notin ToSet(done)
    BY <1>1, <1>2, <2>1, Apart
  <2>3. ASSUME NEW u \in Threads, wpc[u] = "chains" PROVE wpkt[u] # e
    BY <1>1, <1>2, <2>1, <2>3, Apart DEF Busy
  <2>4. wpc'[t] = "chains" /\ wpkt'[t] = e
    BY <1>1, <1>2
  <2> QED BY <2>2, <2>3, <2>4 DEF Judged
<1>4. \A o : Judged(o) => o \in ToSet(done)
  <2>1. ASSUME NEW u \in Threads PROVE wpc[u] # "chains"
    BY <1>2 DEF GateOwned, InGate
  <2> QED BY <2>1 DEF Judged
<1>5. \A o : Judged(o) => Judged(o)' /\ o # e
  BY <1>3, StaysJudged
<1>6. CASE UNCHANGED dedupeVars
  <2>1. duplicate' = duplicate /\ original' = original
        /\ dedupe_list' = dedupe_list
    BY <1>6 DEF dedupeVars
  <2>2. JudgedInv'
    BY <1>5, <2>1 DEF DedupeInv, JudgedInv, ScanRange
  <2>3. OriginalComplete'
    BY <1>2, <2>1 DEF DedupeInv, OriginalComplete
  <2> QED BY <2>2, <2>3 DEF DedupeInv
<1>7. ASSUME NEW i \in Matches(e), MarkDuplicate(t, i), Frame[e] # NoFrame
      PROVE  DedupeInv'
  <2>1. PICK o : o = dedupe_list[i].original_pkt
    OBVIOUS
  <2>2. /\ duplicate' = [duplicate EXCEPT ![e] = TRUE]
        /\ original' = [original EXCEPT ![e] = o]
        /\ dedupe_list' = dedupe_list
    BY <1>1, <1>7, <2>1 DEF MarkDuplicate
  <2>3. o \in Packets /\ Frame[o] = Frame[e] /\ ~duplicate[o] /\ Judged(o)
    BY <1>7, <2>1 DEF DedupeInv, JudgedInv, Matches
  <2>4. o # e /\ o \in ToSet(done)
    BY <1>4, <1>5, <2>3
  <2>5. /\ duplicate'[e] /\ original'[e] = o
        /\ \A p \in Packets : p # e => /\ duplicate'[p] = duplicate[p]
                                       /\ original'[p] = original[p]
    BY <1>2, <2>2
  <2>6. JudgedInv'
    <3>1. \A p \in Packets : duplicate'[p] => Judged(p)'
      BY <1>3, <1>5, <2>5 DEF DedupeInv, JudgedInv
    <3>2. \A k \in ScanRange : dedupe_list'[k].hash # NoFrame =>
            /\ dedupe_list'[k].original_pkt \in Packets
            /\ Frame[dedupe_list'[k].original_pkt] = dedupe_list'[k].hash
            /\ ~duplicate'[dedupe_list'[k].original_pkt]
            /\ Judged(dedupe_list[k].original_pkt)'
      <4> SUFFICES ASSUME NEW k \in ScanRange, dedupe_list[k].hash # NoFrame
                   PROVE  /\ dedupe_list[k].original_pkt \in Packets
                          /\ Frame[dedupe_list[k].original_pkt]
                               = dedupe_list[k].hash
                          /\ ~duplicate'[dedupe_list[k].original_pkt]
                          /\ Judged(dedupe_list[k].original_pkt)'
        BY <2>2
      <4>1. PICK r : r = dedupe_list[k].original_pkt
        OBVIOUS
      <4>2. r \in Packets /\ Frame[r] = dedupe_list[k].hash /\ ~duplicate[r]
            /\ Judged(r)
        BY <4>1 DEF DedupeInv, JudgedInv
      <4>3. r # e /\ Judged(r)'
        BY <1>5, <4>2
      <4>4. r = dedupe_list'[k].original_pkt
        BY <2>2, <4>1
      <4>5. Judged(dedupe_list[k].original_pkt)'
        BY <4>3, <4>4, <2>2 DEF Judged
      <4> QED BY <2>5, <4>1, <4>2, <4>3, <4>5
    <3> QED BY <3>1, <3>2 DEF JudgedInv, ScanRange
  <2>7. OriginalComplete'
    <3> SUFFICES ASSUME NEW p \in Packets, duplicate'[p]
                 PROVE  /\ original'[p] \in ToSet(done')
                        /\ ~duplicate'[original'[p]]
                        /\ Frame[original'[p]] = Frame[p]
      BY DEF OriginalComplete
    <3>1. CASE p = e
      BY <1>2, <2>3, <2>4, <2>5, <3>1
    <3>2. CASE p # e
      <4>1. /\ original[p] \in ToSet(done) /\ ~duplicate[original[p]]
            /\ Frame[original[p]] = Frame[p]
        BY <2>5, <3>2 DEF DedupeInv, OriginalComplete
      <4>2. original[p] \in Packets /\ original[p] # e
        BY <1>3, <4>1 DEF Judged, TypeInv, TypeOK, ToSet
      <4> QED BY <1>2, <2>5, <3>2, <4>1, <4>2
    <3> QED BY <3>1, <3>2
  <2> QED BY <2>6, <2>7 DEF DedupeInv
<1>8. ASSUME MarkUnique(t), Frame[e] # NoFrame PROVE DedupeInv'
  <2>1. PICK k : k = dedupe_list_pos % DedupeSize
    OBVIOUS
  <2>2. /\ duplicate' = duplicate /\ original' = original
        /\ \A i \in ScanRange : i # k => dedupe_list'[i] = dedupe_list[i]
        /\ k \in ScanRange => /\ dedupe_list'[k].hash = Frame[e]
                              /\ dedupe_list'[k].original_pkt = e
    BY <1>1, <1>2, <1>8, <2>1 DEF MarkUnique
  <2>3. ~duplicate[e]
    BY <1>2, <1>3 DEF DedupeInv, JudgedInv
  <2>4. ASSUME NEW i \in ScanRange, dedupe_list'[i].hash # NoFrame
        PROVE  /\ dedupe_list'[i].original_pkt \in Packets
               /\ Frame[dedupe_list'[i].original_pkt] = dedupe_list'[i].hash
               /\ ~duplicate'[dedupe_list'[i].original_pkt]
               /\ Judged(dedupe_list[i].original_pkt)'
    <3>1. PICK r : r = dedupe_list'[i].original_pkt
      OBVIOUS
    <3>2. CASE i = k
      <4>1. r = e /\ Frame[e] = dedupe_list'[i].hash
        BY <2>2, <2>4, <3>1, <3>2
      <4>2. ~duplicate'[r] /\ Judged(r)' /\ r \in Packets
        BY <1>2, <1>3, <2>2, <2>3, <4>1
      <4>3. Judged(dedupe_list[i].original_pkt)'
        BY <3>1, <4>2 DEF Judged
      <4> QED BY <3>1, <4>1, <4>2, <4>3
    <3>3. CASE i # k
      <4>1. dedupe_list'[i] = dedupe_list[i]
        BY <2>2, <3>3
      <4>2. /\ r \in Packets /\ Frame[r] = dedupe_list'[i].hash
            /\ ~duplicate[r] /\ Judged(r)
        BY <2>4, <3>1, <4>1 DEF DedupeInv, JudgedInv
      <4>3. Judged(r)' /\ ~duplicate'[r]
        BY <1>5, <2>2, <4>2
      <4>4. Judged(dedupe_list[i].original_pkt)'
        BY <3>1, <4>3 DEF Judged
      <4> QED BY <3>1, <4>2, <4>3, <4>4
    <3> QED BY <3>2, <3>3
  <2>5. \A p \in Packets : duplicate'[p] => Judged(p)'
    BY <1>5, <2>2 DEF DedupeInv, JudgedInv
  <2>6. JudgedInv'
    BY <2>4, <2>5 DEF JudgedInv, ScanRange
  <2>7. OriginalComplete'
    BY <1>2, <2>2 DEF DedupeInv, OriginalComplete
  <2> QED BY <2>6, <2>7 DEF DedupeInv
<1> QED BY <1>1, <1>6, <1>7, <1>8 DEF Dedupe

\* DedupeInv as an invariant, for the theorems that need it.
LEMMA DedupeIsKept == Spec => []DedupeInv
<1>1. Init => DedupeInv
  BY DEF Init, DedupeInv, JudgedInv, OriginalComplete, ScanRange, EmptyEntry
<1>2. /\ TypeInv /\ PacketConserved /\ GateOwned /\ DedupeInv
      /\ [Next]_vars
      => DedupeInv'
  <2> SUFFICES ASSUME TypeInv, PacketConserved, GateOwned, DedupeInv,
                      [Next]_vars
               PROVE  DedupeInv'
    OBVIOUS
  <2>1. ASSUME UNCHANGED dedupeVars, ToSet(done) \subseteq ToSet(done')
        PROVE  DedupeInv'
    <3>1. duplicate' = duplicate /\ original' = original
          /\ dedupe_list' = dedupe_list
      BY <2>1 DEF dedupeVars
    <3>2. \A o : Judged(o) => Judged(o)'
      BY StaysJudged
    <3>3. JudgedInv'
      BY <3>1, <3>2 DEF DedupeInv, JudgedInv, ScanRange
    <3>4. OriginalComplete'
      BY <2>1, <3>1 DEF DedupeInv, OriginalComplete
    <3> QED BY <3>3, <3>4 DEF DedupeInv
  <2>2. ASSUME NEW t \in Threads, ThreadStep(t) PROVE DedupeInv'
    <3>1. CASE Dedupe(t)
      BY <3>1, DedupeKeepsOriginals
    <3>2. CASE RunChains(t)
      <4>1. done \in Seq(Packets) /\ wpkt[t] \in Packets
        BY <3>2 DEF RunChains, Goto, TypeInv, TypeOK, HasPacket
      <4>2. ToSet(done') = ToSet(done) \cup {wpkt[t]}
        BY <3>2, <4>1, SequenceElements DEF RunChains
      <4> QED BY <2>1, <3>2, <4>2 DEF RunChains
    <3>3. CASE ~Dedupe(t) /\ ~RunChains(t)
      BY <2>1, <2>2, <3>3 DEF ThreadStep, LoopTop, Dequeue, LockPacket,
                              LockPackNo, Finish
    <3> QED BY <3>1, <3>2, <3>3
  <2>3. ASSUME NEW c \in Producers, ProducerStep(c) PROVE DedupeInv'
    BY <2>1, <2>3 DEF ProducerStep, Measure, Drop, Enqueue
  <2>4. CASE Spindown \/ BeginDestroy \/ SendNull \/ Join \/ UseDeleted
    BY <2>1, <2>4 DEF Spindown, BeginDestroy, SendNull, Join, UseDeleted,
                   Unchanged_Destroy
  <2>5. CASE UNCHANGED vars
    BY <2>1, <2>5 DEF vars
  <2> QED BY <2>2, <2>3, <2>4, <2>5 DEF Next
<1> QED
  BY <1>1, <1>2, TypeCorrect, PacketsConserved, GateIsOwned, PTL DEF Spec

\* A packet recognised as a duplicate copies the components of a packet that
\* is finished and unique, although the list does not say so.
THEOREM OriginalsComplete == Spec => []OriginalComplete
<1>1. DedupeInv => OriginalComplete
  BY DEF DedupeInv
<1> QED BY <1>1, DedupeIsKept, PTL

-----------------------------------------------------------------------------
(* The pipeline.                                                           *)

\* The slots of the ring.
LEMMA SlotFacts ==
  ASSUME NEW D \in Nat \ {0}
  PROVE  /\ \A k \in Nat : k % D \in 0 .. (D - 1)
         /\ \A k, l \in Nat : k < l /\ l < k + D => k % D # l % D
         /\ \A k \in Nat : (k + D) % D = k % D
<1>1. \A k \in Nat : k % D \in 0 .. (D - 1)
  OBVIOUS
<1>2. \A k \in Nat : \E q \in Int : k = D * q + (k % D)
  <2> TAKE k \in Nat
  <2>1. k = D * (k \div D) + (k % D) /\ k \div D \in Int
    OBVIOUS
  <2> QED BY <2>1
<1>3. ASSUME NEW a \in Int, a < D, 0 < a, NEW q \in Int, a = D * q PROVE FALSE
  <2>1. q >= 1 => D * q >= D
    OBVIOUS
  <2>2. q <= 0 => D * q <= 0
    OBVIOUS
  <2> QED BY <1>3, <2>1, <2>2
<1>4. \A k, l \in Nat : k < l /\ l < k + D => k % D # l % D
  <2> SUFFICES ASSUME NEW k \in Nat, NEW l \in Nat, k < l, l < k + D,
                      k % D = l % D
               PROVE  FALSE
    OBVIOUS
  <2>1. PICK q, r \in Int : k = D * q + (k % D) /\ l = D * r + (l % D)
    BY <1>2
  <2>2. l - k = D * (r - q)
    BY <2>1
  <2> QED BY <1>3, <2>2
<1>5. \A k \in Nat : (k + D) % D = k % D
  <2> SUFFICES ASSUME NEW k \in Nat PROVE (k + D) % D = k % D
    OBVIOUS
  <2>1. PICK m \in Nat : m = k + D
    OBVIOUS
  <2>2. PICK q, r \in Int : k = D * q + (k % D) /\ m = D * r + (m % D)
    BY <1>2
  <2>3. PICK a, b \in 0 .. (D - 1) : a = k % D /\ b = m % D
    BY <1>1
  <2>4. k = D * q + a /\ k + D = D * r + b
    BY <2>1, <2>2, <2>3
  <2>5. a - b = D * (r - q - 1) /\ b - a = D * (q + 1 - r)
    BY <2>4
  <2>6. ~(0 < a - b) /\ ~(0 < b - a)
    BY <1>3, <2>5
  <2> QED BY <2>1, <2>3, <2>6
<1> QED BY <1>1, <1>4, <1>5

\* Numbering a finite set without gaps counts it: the elements numbered above
\* l are the numbers above l.
LEMMA CountAbove ==
  ASSUME NEW U, IsFiniteSet(U), NEW n \in Nat, NEW f \in [U -> 0 .. (n - 1)],
         \A u, v \in U : f[u] = f[v] => u = v,
         \A k \in 0 .. (n - 1) : \E u \in U : f[u] = k,
         NEW l \in -1 .. (n - 1)
  PROVE  Cardinality({u \in U : f[u] > l}) = n - 1 - l
<1> DEFINE S == {u \in U : f[u] > l}
           T == (l + 1) .. (n - 1)
           g == [u \in S |-> f[u]]
<1>1. IsFiniteSet(S)
  BY FS_Subset
<1>2. \A u \in S : g[u] = f[u] /\ f[u] \in T
  OBVIOUS
<1>3. g \in [S -> T]
  BY <1>2
<1>4. \A k \in T : \E u \in S : f[u] = k
  <2> TAKE k \in T
  <2>1. k \in 0 .. (n - 1) /\ k > l
    OBVIOUS
  <2>2. PICK u \in U : f[u] = k
    BY <2>1
  <2> QED BY <2>1, <2>2
<1> HIDE DEF T
<1>5. g \in Bijection(S, T)
  BY <1>2, <1>3, <1>4 DEF Bijection, Injection, Surjection, IsInjective
<1>6. Cardinality(S) = Cardinality(T)
  <2> HIDE DEF g
  <2> QED BY <1>1, <1>5, FS_Bijection DEF ExistsBijection
<1>7. Cardinality(T) = n - 1 - l
  <2>1. l + 1 \in Int /\ n - 1 \in Int
    OBVIOUS
  <2>2. Cardinality((l + 1) .. (n - 1)) =
          IF l + 1 > n - 1 THEN 0 ELSE (n - 1) - (l + 1) + 1
    BY <2>1, FS_Interval
  <2> QED BY <2>2 DEF T
<1> QED BY <1>6, <1>7

\* The unique packets, and the numbers they get. The ring holds the last
\* DedupeSize of them.
Unique(p) == Judged(p) /\ ~duplicate[p] /\ Frame[p] # NoFrame
Ranks == 0 .. (dedupe_list_pos - 1)
Number(k) == 2 * k + 1
InRing(k) == k + DedupeSize >= dedupe_list_pos

NumberInv ==
  /\ unique_packet_no = Number(dedupe_list_pos)
  /\ \A p \in Packets :
       Frame[p] = NoFrame => ~duplicate[p] /\ packet_no[p] = 0
  /\ \A p \in Packets : Unique(p) => \E k \in Ranks : packet_no[p] = Number(k)
  /\ \A p, q \in Packets :
       Unique(p) /\ Unique(q) /\ packet_no[p] = packet_no[q] => p = q
  /\ \A k \in Ranks : \E p \in Packets : Unique(p) /\ packet_no[p] = Number(k)

\* Unique packets finish in the order of their numbers: the one that is in its
\* chains has the last.
NumbersInOrder ==
  /\ \A m, n \in DOMAIN done :
       m < n /\ Unique(done[m]) /\ Unique(done[n])
         => packet_no[done[m]] < packet_no[done[n]]
  /\ \A t \in Threads : wpc[t] = "chains" /\ Unique(wpkt[t])
       => packet_no[wpkt[t]] = Number(dedupe_list_pos - 1)

RingInv ==
  /\ \A k \in Ranks, p \in Packets :
       Unique(p) /\ packet_no[p] = Number(k) /\ InRing(k)
         => dedupe_list[k % DedupeSize] =
              [hash |-> Frame[p], packno |-> packet_no[p] + 1,
               original_pkt |-> p]
  /\ \A i \in ScanRange : dedupe_list[i].hash # NoFrame =>
       \E k \in Ranks : /\ InRing(k) /\ k % DedupeSize = i
                        /\ packet_no[dedupe_list[i].original_pkt] = Number(k)
  /\ \A i, j \in ScanRange :
       /\ dedupe_list[i].hash = dedupe_list[j].hash
       /\ dedupe_list[i].hash # NoFrame
       => i = j

\* What a packet will be in the log is decided when it is compared.
VerdictInv ==
  \A t \in Threads :
    wpc[t] = "chains" => LogEntry(wpkt[t]) = Pipeline!Verdict(wpkt[t])

PipelineInv == NumberInv /\ NumbersInOrder /\ RingInv /\ VerdictInv

\* Only the comparison judges a packet, and changes its number.
LEMMA OnlyDedupeJudges ==
  ASSUME TypeInv, [Next]_vars, \A t \in Threads : ~Dedupe(t)
  PROVE  /\ UNCHANGED dedupeVars
         /\ \A p : Judged(p)' <=> Judged(p)
         /\ \A t \in Threads : wpc'[t] = "chains" =>
              wpc[t] = "chains" /\ wpkt'[t] = wpkt[t]
         /\ done' = done \/ \E t \in Threads : RunChains(t)
<1>1. /\ DOMAIN wpc = Threads /\ DOMAIN wpkt = Threads /\ done \in Seq(Packets)
  BY DEF TypeInv, TypeOK
<1> DEFINE Keeps == \A t \in Threads : wpc'[t] = "chains" =>
                      wpc[t] = "chains" /\ wpkt'[t] = wpkt[t]
<1>2. ASSUME NEW t \in Threads, ThreadStep(t)
      PROVE  /\ UNCHANGED dedupeVars /\ Keeps
             /\ done' = done \/ RunChains(t)
             /\ \A p \in ToSet(done') : Judged(p)
  <2>1. CASE RunChains(t)
    <3>1. /\ UNCHANGED dedupeVars /\ wpkt' = wpkt
          /\ wpc' = [wpc EXCEPT ![t] = "finish"] /\ wpc[t] = "chains"
          /\ done' = Append(done, wpkt[t]) /\ wpkt[t] \in Packets
      BY <2>1 DEF RunChains, Goto, TypeInv, HasPacket
    <3>2. ToSet(done') = ToSet(done) \cup {wpkt[t]}
      BY <1>1, <3>1, SequenceElements
    <3> QED BY <1>1, <2>1, <3>1, <3>2 DEF Judged
  <2>2. CASE ~RunChains(t)
    <3>1. done' = done /\ UNCHANGED dedupeVars
      BY <1>2, <2>2 DEF ThreadStep, LoopTop, Dequeue, LockPacket, LockPackNo,
                        Finish
    <3>2. Keeps
      BY <1>1, <1>2, <2>2 DEF ThreadStep, LoopTop, Dequeue, LockPacket,
                              LockPackNo, Finish, Goto
    <3> QED BY <3>1, <3>2 DEF Judged
  <2> QED BY <2>1, <2>2
<1>3. CASE UNCHANGED <<dedupeVars, wpc, wpkt, done>>
  BY <1>3 DEF Judged
<1>4. CASE \E c \in Producers : ProducerStep(c)
  BY <1>3, <1>4 DEF ProducerStep, Measure, Drop, Enqueue
<1>5. CASE Spindown \/ BeginDestroy \/ SendNull \/ Join \/ UseDeleted
  BY <1>3, <1>5 DEF Spindown, BeginDestroy, SendNull, Join, UseDeleted,
                   Unchanged_Destroy
<1>6. CASE UNCHANGED vars
  BY <1>3, <1>6 DEF vars
<1>7. CASE \E t \in Threads : ThreadStep(t)
  <2>1. PICK t \in Threads : ThreadStep(t)
    BY <1>7
  <2>2. \A p : Judged(p)' => Judged(p)
    BY <1>2, <2>1 DEF Judged
  <2> QED BY <1>2, <2>1, <2>2, StaysJudged
<1> QED BY <1>4, <1>5, <1>6, <1>7 DEF Next

\* So the numbers and the ring stay right in every other step.
LEMMA OthersKeepNumbers ==
  ASSUME TypeInv, PacketConserved, GateOwned, JudgedInv,
         NumberInv, NumbersInOrder, RingInv,
         [Next]_vars, \A t \in Threads : ~Dedupe(t)
  PROVE  NumberInv' /\ NumbersInOrder' /\ RingInv'
<1>1. /\ UNCHANGED dedupeVars
      /\ \A p : Judged(p)' <=> Judged(p)
      /\ \A t \in Threads : wpc'[t] = "chains" =>
           wpc[t] = "chains" /\ wpkt'[t] = wpkt[t]
      /\ done' = done \/ \E t \in Threads : RunChains(t)
  BY OnlyDedupeJudges
<1>2. /\ packet_no' = packet_no /\ duplicate' = duplicate
      /\ dedupe_list' = dedupe_list /\ dedupe_list_pos' = dedupe_list_pos
      /\ unique_packet_no' = unique_packet_no
  BY <1>1 DEF dedupeVars
<1>3. \A p : Unique(p)' <=> Unique(p)
  BY <1>1, <1>2 DEF Unique
<1>4. NumberInv'
  BY <1>2, <1>3 DEF NumberInv, Ranks, Number
<1>5. RingInv'
  BY <1>2, <1>3 DEF RingInv, InRing, Ranks, Number, ScanRange
<1>6. \A t \in Threads : wpc'[t] = "chains" /\ Unique(wpkt[t])' =>
        packet_no'[wpkt'[t]] = Number(dedupe_list_pos' - 1)
  <2> SUFFICES ASSUME NEW t \in Threads, wpc'[t] = "chains", Unique(wpkt[t])'
               PROVE  packet_no'[wpkt'[t]] = Number(dedupe_list_pos' - 1)
    OBVIOUS
  <2>1. wpc[t] = "chains" /\ wpkt'[t] = wpkt[t]
    BY <1>1
  <2>2. PICK p : p = wpkt[t]
    OBVIOUS
  <2>3. Unique(p)'
    BY <2>1, <2>2 DEF Unique, Judged
  <2> QED BY <1>2, <1>3, <2>1, <2>2, <2>3 DEF NumbersInOrder
<1>7. \A m, n \in DOMAIN done' :
        m < n /\ Unique(done[m])' /\ Unique(done[n])'
          => packet_no'[done'[m]] < packet_no'[done'[n]]
  <2>1. CASE done' = done
    <3> SUFFICES ASSUME NEW m \in DOMAIN done, NEW n \in DOMAIN done, m < n,
                        Unique(done[m])', Unique(done[n])'
                 PROVE  packet_no[done[m]] < packet_no[done[n]]
      BY <1>2, <2>1
    <3>1. PICK p, q : p = done[m] /\ q = done[n]
      OBVIOUS
    <3>2. Unique(p)' /\ Unique(q)'
      BY <2>1, <3>1 DEF Unique, Judged
    <3> QED BY <1>3, <3>1, <3>2 DEF NumbersInOrder
  <2>2. ASSUME NEW t \in Threads, RunChains(t)
        PROVE  \A m, n \in DOMAIN done' :
                 m < n /\ Unique(done[m])' /\ Unique(done[n])'
                   => packet_no'[done'[m]] < packet_no'[done'[n]]
    <3>1. PICK e : e = wpkt[t]
      OBVIOUS
    <3>2. /\ wpc[t] = "chains" /\ done' = Append(done, e) /\ e \in Packets
          /\ done \in Seq(Packets)
      BY <2>2, <3>1 DEF RunChains, Goto, TypeInv, TypeOK, HasPacket
    <3>3. /\ DOMAIN done' = DOMAIN done \cup {Len(done) + 1}
          /\ done'[Len(done) + 1] = e
          /\ \A m \in DOMAIN done : /\ done'[m] = done[m] /\ m < Len(done) + 1
                                    /\ done[m] \in Packets
      BY <3>2
    <3> SUFFICES ASSUME NEW m \in DOMAIN done', NEW n \in DOMAIN done', m < n,
                        Unique(done[m])', Unique(done[n])'
                 PROVE  packet_no'[done'[m]] < packet_no'[done'[n]]
      OBVIOUS
    <3>4. PICK p, q : p = done'[m] /\ q = done'[n]
      OBVIOUS
    <3>5. Unique(p) /\ Unique(q)
      <4>1. Unique(p)' /\ Unique(q)'
        BY <3>4 DEF Unique, Judged
      <4> QED BY <1>3, <4>1
    <3>6. m \in DOMAIN done /\ done[m] = p
      BY <3>2, <3>3, <3>4
    <3>7. CASE n \in DOMAIN done
      BY <1>2, <3>3, <3>4, <3>5, <3>6, <3>7 DEF NumbersInOrder
    <3>8. CASE n = Len(done) + 1
      <4>1. q = e /\ packet_no[q] = Number(dedupe_list_pos - 1)
        BY <3>1, <3>2, <3>3, <3>4, <3>5, <3>8 DEF NumbersInOrder
      <4>2. p # q /\ p \in Packets /\ q \in Packets
        <5>1. Whole /\ Busy(t)
          BY <3>2 DEF PacketConserved, Whole, Busy
        <5>2. p \in ToSet(done)
          BY <3>6 DEF ToSet
        <5> QED BY <3>1, <3>2, <3>3, <3>6, <4>1, <5>1, <5>2, Apart
      <4>3. PICK k \in Ranks : packet_no[p] = Number(k)
        BY <3>5, <4>2 DEF NumberInv
      <4>4. packet_no[p] # packet_no[q]
        BY <3>5, <4>2 DEF NumberInv
      <4>5. k # dedupe_list_pos - 1 /\ dedupe_list_pos \in Nat
        BY <4>1, <4>3, <4>4 DEF TypeInv, TypeOK
      <4>6. k < dedupe_list_pos - 1
        BY <4>5 DEF Ranks
      <4>7. Number(k) < Number(dedupe_list_pos - 1)
        BY <4>5, <4>6 DEF Number, Ranks
      <4> QED BY <1>2, <3>4, <4>1, <4>3, <4>7
    <3> QED BY <3>3, <3>7, <3>8
  <2> QED BY <1>1, <2>1, <2>2
<1> QED BY <1>4, <1>5, <1>6, <1>7 DEF NumbersInOrder

\* The comparison judges one packet, at a time when all that are judged are
\* finished: no other thread is in its chains.
LEMMA DedupeJudges ==
  ASSUME NEW t \in Threads, TypeInv, PacketConserved, GateOwned, DedupeInv,
         Dedupe(t)
  PROVE  /\ wpkt[t] \in Packets /\ ~Judged(wpkt[t])
         /\ \A p : Judged(p)' <=> Judged(p) \/ p = wpkt[t]
         /\ \A p : Judged(p) <=> p \in ToSet(done)
         /\ \A u \in Threads : wpc'[u] = "chains" <=> u = t
         /\ done' = done /\ wpkt' = wpkt
<1>1. /\ wpc[t] = "dedupe" /\ wpc' = [wpc EXCEPT ![t] = "chains"]
      /\ wpkt' = wpkt /\ done' = done /\ wpkt[t] \in Packets
      /\ DOMAIN wpc = Threads
  BY DEF Dedupe, Goto, TypeInv, TypeOK, HasPacket
<1>2. \A u \in Threads : wpc[u] # "chains"
  BY <1>1 DEF GateOwned, InGate
<1>3. Whole /\ Busy(t)
  BY <1>1 DEF PacketConserved, Whole, Busy
<1>4. wpkt[t] \notin ToSet(done)
  BY <1>1, <1>3, Apart
<1>5. \A u \in Threads : wpc'[u] = "chains" <=> u = t
  BY <1>1, <1>2
<1>6. \A p : Judged(p) <=> p \in ToSet(done)
  BY <1>2 DEF Judged
<1>7. \A p : Judged(p)' <=> Judged(p) \/ p = wpkt[t]
  BY <1>1, <1>5, <1>6 DEF Judged
<1> QED BY <1>1, <1>4, <1>5, <1>6, <1>7

\* A packet that has no frame, or is a duplicate, gets no number of its own.
LEMMA NoNewUnique ==
  ASSUME NEW t \in Threads, TypeInv, PacketConserved, GateOwned, DedupeInv,
         NumberInv, NumbersInOrder, RingInv, Dedupe(t),
         \/ Frame[wpkt[t]] = NoFrame /\ UNCHANGED dedupeVars
         \/ /\ Frame[wpkt[t]] # NoFrame
            /\ \E i \in Matches(wpkt[t]) : MarkDuplicate(t, i)
  PROVE  NumberInv' /\ NumbersInOrder' /\ RingInv'
<1>1. PICK e : e = wpkt[t]
  OBVIOUS
<1>2. /\ e \in Packets /\ ~Judged(e)
      /\ \A p : Judged(p)' <=> Judged(p) \/ p = e
      /\ \A p : Judged(p) <=> p \in ToSet(done)
      /\ \A u \in Threads : wpc'[u] = "chains" <=> u = t
      /\ done' = done /\ wpkt' = wpkt
  BY <1>1, DedupeJudges
<1>3. /\ dedupe_list' = dedupe_list /\ dedupe_list_pos' = dedupe_list_pos
      /\ unique_packet_no' = unique_packet_no
      /\ \A p \in Packets : p # e => /\ packet_no'[p] = packet_no[p]
                                     /\ duplicate'[p] = duplicate[p]
      /\ Frame[e] = NoFrame \/ duplicate'[e]
      /\ Frame[e] = NoFrame => packet_no' = packet_no /\ duplicate' = duplicate
  BY <1>1, <1>2 DEF MarkDuplicate, TypeInv, TypeOK, dedupeVars
<1>4. \A p \in Packets : Unique(p)' <=> Unique(p) /\ p # e
  BY <1>2, <1>3 DEF Unique
<1>5. ~Unique(e) /\ ~Unique(e)'
  BY <1>2, <1>4 DEF Unique
<1>6. NumberInv'
  <2>1. unique_packet_no' = Number(dedupe_list_pos')
    BY <1>3 DEF NumberInv, Number
  <2>2. \A p \in Packets :
          Frame[p] = NoFrame => ~duplicate'[p] /\ packet_no'[p] = 0
    BY <1>3 DEF NumberInv
  <2>3. \A p \in Packets : Unique(p)' => \E k \in Ranks : packet_no'[p] = Number(k)
    BY <1>3, <1>4 DEF NumberInv
  <2>4. \A p, q \in Packets :
          Unique(p)' /\ Unique(q)' /\ packet_no'[p] = packet_no'[q] => p = q
    BY <1>3, <1>4 DEF NumberInv
  <2>5. \A k \in Ranks : \E p \in Packets : Unique(p)' /\ packet_no'[p] = Number(k)
    BY <1>3, <1>4, <1>5 DEF NumberInv
  <2>6. Ranks' = Ranks
    BY <1>3 DEF Ranks
  <2> QED BY <2>1, <2>2, <2>3, <2>4, <2>5, <2>6 DEF NumberInv, Number
<1>7. NumbersInOrder'
  <2>1. ASSUME NEW m \in DOMAIN done, NEW n \in DOMAIN done, m < n,
               Unique(done[m])', Unique(done[n])'
        PROVE  packet_no'[done'[m]] < packet_no'[done'[n]]
    <3>1. PICK p, q : p = done[m] /\ q = done[n]
      OBVIOUS
    <3>2. p \in Packets /\ q \in Packets
      BY <3>1 DEF TypeInv, TypeOK
    <3>3. Unique(p)' /\ Unique(q)'
      BY <1>2, <2>1, <3>1 DEF Unique, Judged
    <3>4. Unique(p) /\ Unique(q) /\ p # e /\ q # e
      BY <1>4, <3>2, <3>3
    <3>5. packet_no[p] < packet_no[q]
      BY <2>1, <3>1, <3>4 DEF NumbersInOrder
    <3> QED BY <1>2, <1>3, <3>1, <3>2, <3>4, <3>5
  <2>2. ASSUME NEW u \in Threads, wpc'[u] = "chains" PROVE ~Unique(wpkt[u])'
    <3>1. wpkt'[u] = e
      BY <1>1, <1>2, <2>2
    <3> QED BY <1>5, <3>1 DEF Unique, Judged
  <2>3. DOMAIN done' = DOMAIN done
    BY <1>2
  <2> QED BY <2>1, <2>2, <2>3 DEF NumbersInOrder
<1>8. RingInv'
  <2>1. Ranks' = Ranks /\ \A k : InRing(k)' <=> InRing(k)
    BY <1>3 DEF Ranks, InRing
  <2>2. \A k \in Ranks, p \in Packets :
          Unique(p)' /\ packet_no'[p] = Number(k) /\ InRing(k)
            => dedupe_list'[k % DedupeSize] =
                 [hash |-> Frame[p], packno |-> packet_no'[p] + 1,
                  original_pkt |-> p]
    BY <1>3, <1>4 DEF RingInv
  <2>3. ASSUME NEW i \in ScanRange, dedupe_list'[i].hash # NoFrame
        PROVE  \E k \in Ranks :
                 /\ InRing(k) /\ k % DedupeSize = i
                 /\ packet_no'[dedupe_list'[i].original_pkt] = Number(k)
    <3>1. PICK o : o = dedupe_list[i].original_pkt
      OBVIOUS
    <3>2. o \in Packets /\ o # e
      BY <1>2, <1>3, <2>3, <3>1 DEF DedupeInv, JudgedInv
    <3> QED BY <1>3, <2>3, <3>1, <3>2 DEF RingInv
  <2>4. \A i, j \in ScanRange :
          /\ dedupe_list'[i].hash = dedupe_list'[j].hash
          /\ dedupe_list'[i].hash # NoFrame
          => i = j
    BY <1>3 DEF RingInv
  <2> QED BY <2>1, <2>2, <2>3, <2>4 DEF RingInv, Number, ScanRange
<1> QED BY <1>6, <1>7, <1>8

\* A new unique packet gets the next number, and takes the slot of the one that
\* leaves the ring.
LEMMA NewUnique ==
  ASSUME NEW t \in Threads, TypeInv, PacketConserved, GateOwned, DedupeInv,
         NumberInv, NumbersInOrder, RingInv, Dedupe(t),
         Frame[wpkt[t]] # NoFrame, Matches(wpkt[t]) = {}, MarkUnique(t)
  PROVE  NumberInv' /\ NumbersInOrder' /\ RingInv'
<1>1. PICK e : e = wpkt[t]
  OBVIOUS
<1>2. PICK n : n = dedupe_list_pos
  OBVIOUS
<1>3. /\ e \in Packets /\ ~Judged(e)
      /\ \A p : Judged(p)' <=> Judged(p) \/ p = e
      /\ \A p : Judged(p) <=> p \in ToSet(done)
      /\ \A u \in Threads : wpc'[u] = "chains" <=> u = t
      /\ done' = done /\ wpkt' = wpkt
  BY <1>1, DedupeJudges
<1>4. /\ n \in Nat /\ DedupeSize \in Nat \ {0}
      /\ dedupe_list \in [ScanRange -> Entry]
      /\ packet_no \in [Packets -> Nat]
  BY <1>2, ThreadAssumption DEF TypeInv, TypeOK, ScanRange
<1>5. /\ duplicate' = duplicate
      /\ packet_no' = [packet_no EXCEPT ![e] = unique_packet_no]
      /\ dedupe_list' = [dedupe_list EXCEPT ![n % DedupeSize] =
                          [hash |-> Frame[e],
                           packno |-> EntryPackno(unique_packet_no),
                           original_pkt |-> e]]
      /\ dedupe_list_pos' = n + 1
      /\ unique_packet_no' = NextUnique(unique_packet_no)
  BY <1>1, <1>2 DEF MarkUnique
<1>6. unique_packet_no = Number(n) /\ Number(n) \in Nat
      /\ NextUnique(Number(n)) = Number(n + 1)
      /\ EntryPackno(Number(n)) = Number(n) + 1
  BY <1>2, <1>4 DEF NumberInv, Number, NextUnique, EntryPackno
<1>7. /\ packet_no'[e] = Number(n)
      /\ \A p \in Packets : p # e => packet_no'[p] = packet_no[p]
  BY <1>3, <1>4, <1>5, <1>6
<1>8. /\ Unique(e)' /\ ~Unique(e)
      /\ \A p \in Packets : Unique(p)' <=> Unique(p) \/ p = e
  BY <1>1, <1>3, <1>5 DEF Unique, DedupeInv, JudgedInv
<1>9. /\ Ranks = 0 .. (n - 1) /\ Ranks' = 0 .. n
      /\ Ranks' = Ranks \cup {n} /\ n \notin Ranks
      /\ \A k \in Ranks : k \in Nat /\ k < n /\ Number(k) # Number(n)
                          /\ Number(k) < Number(n)
  BY <1>2, <1>4, <1>5 DEF Ranks, Number
<1>10. NumberInv'
  <2>1. unique_packet_no' = Number(dedupe_list_pos')
    BY <1>5, <1>6
  <2>2. \A p \in Packets :
          Frame[p] = NoFrame => ~duplicate'[p] /\ packet_no'[p] = 0
    BY <1>1, <1>5, <1>7 DEF NumberInv
  <2>3. ASSUME NEW p \in Packets, Unique(p)'
        PROVE  \E k \in Ranks' : packet_no'[p] = Number(k)
    <3>1. CASE p = e
      BY <1>7, <1>9, <3>1
    <3>2. CASE p # e
      <4>1. PICK k \in Ranks : packet_no[p] = Number(k)
        BY <1>8, <2>3, <3>2 DEF NumberInv
      <4> QED BY <1>7, <1>9, <3>2, <4>1
    <3> QED BY <3>1, <3>2
  <2>4. ASSUME NEW p \in Packets, NEW q \in Packets, Unique(p)', Unique(q)',
               packet_no'[p] = packet_no'[q]
        PROVE  p = q
    <3>1. ASSUME NEW r \in Packets, r # e, Unique(r)'
          PROVE  packet_no'[r] # packet_no'[e]
      <4>1. PICK k \in Ranks : packet_no[r] = Number(k)
        BY <1>8, <3>1 DEF NumberInv
      <4> QED BY <1>7, <1>9, <3>1, <4>1
    <3>2. CASE p # e /\ q # e
      BY <1>7, <1>8, <2>4, <3>2 DEF NumberInv
    <3> QED BY <1>3, <2>4, <3>1, <3>2
  <2>5. ASSUME NEW k \in Ranks'
        PROVE  \E p \in Packets : Unique(p)' /\ packet_no'[p] = Number(k)
    <3>1. CASE k = n
      BY <1>3, <1>7, <1>8, <3>1
    <3>2. CASE k \in Ranks
      <4>1. PICK p \in Packets : Unique(p) /\ packet_no[p] = Number(k)
        BY <3>2 DEF NumberInv
      <4> QED BY <1>7, <1>8, <4>1
    <3> QED BY <1>9, <3>1, <3>2
  <2> QED BY <2>1, <2>2, <2>3, <2>4, <2>5 DEF NumberInv, Number
<1>11. NumbersInOrder'
  <2>1. ASSUME NEW i \in DOMAIN done, NEW j \in DOMAIN done, i < j,
               Unique(done[i])', Unique(done[j])'
        PROVE  packet_no'[done'[i]] < packet_no'[done'[j]]
    <3>1. PICK p, q : p = done[i] /\ q = done[j]
      OBVIOUS
    <3>2. p \in Packets /\ q \in Packets /\ p # e /\ q # e
      BY <1>3, <3>1 DEF TypeInv, TypeOK, ToSet
    <3>3. Unique(p)' /\ Unique(q)'
      BY <1>3, <2>1, <3>1 DEF Unique, Judged
    <3>4. packet_no[p] < packet_no[q]
      BY <1>8, <2>1, <3>1, <3>2, <3>3 DEF NumbersInOrder
    <3> QED BY <1>3, <1>7, <3>1, <3>2, <3>4
  <2>2. ASSUME NEW u \in Threads, wpc'[u] = "chains"
        PROVE  packet_no'[wpkt'[u]] = Number(dedupe_list_pos' - 1)
    <3>1. wpkt'[u] = e
      BY <1>1, <1>3, <2>2
    <3>2. (n + 1) - 1 = n
      BY <1>4
    <3> QED BY <1>5, <1>7, <3>1, <3>2
  <2>3. DOMAIN done' = DOMAIN done
    BY <1>3
  <2> QED BY <2>1, <2>2, <2>3 DEF NumbersInOrder, Number
<1> DEFINE s == n % DedupeSize
<1>12. /\ \A k \in Nat : k % DedupeSize \in ScanRange
       /\ \A k \in Nat : k < n /\ n < k + DedupeSize => k % DedupeSize # s
       /\ \A k \in Nat : k + DedupeSize = n => k % DedupeSize = s
  <2>1. \A k \in Nat : k % DedupeSize \in ScanRange
    BY <1>4, SlotFacts DEF ScanRange
  <2>2. \A k \in Nat : k < n /\ n < k + DedupeSize => k % DedupeSize # s
    BY <1>4, SlotFacts
  <2>3. \A k \in Nat : k + DedupeSize = n => k % DedupeSize = s
    BY <1>4, SlotFacts
  <2> QED BY <2>1, <2>2, <2>3
<1>13. /\ s \in ScanRange
       /\ dedupe_list'[s] = [hash |-> Frame[e], packno |-> Number(n) + 1,
                             original_pkt |-> e]
       /\ \A i \in ScanRange : i # s => dedupe_list'[i] = dedupe_list[i]
  BY <1>4, <1>5, <1>6, <1>12
<1>14. /\ \A k : InRing(k) <=> k + DedupeSize >= n
       /\ \A k : InRing(k)' <=> k + DedupeSize >= n + 1
  BY <1>2, <1>5 DEF InRing
<1>15. /\ \A k \in Ranks : InRing(k)' => InRing(k) /\ k % DedupeSize # s
       /\ \A k \in Ranks : InRing(k) /\ ~InRing(k)' => k % DedupeSize = s
       /\ InRing(n)'
  <2>1. \A k \in Ranks : InRing(k)' => InRing(k) /\ n < k + DedupeSize
    BY <1>4, <1>9, <1>14
  <2>2. \A k \in Ranks : InRing(k) /\ ~InRing(k)' => k + DedupeSize = n
    BY <1>4, <1>9, <1>14
  <2>3. InRing(n)'
    BY <1>4, <1>14
  <2> QED BY <1>9, <1>12, <2>1, <2>2, <2>3
<1> HIDE DEF s
<1>16. RingInv'
  <2>1. ASSUME NEW k \in Ranks', NEW p \in Packets, Unique(p)',
               packet_no'[p] = Number(k), InRing(k)'
        PROVE  dedupe_list'[k % DedupeSize] =
                 [hash |-> Frame[p], packno |-> packet_no'[p] + 1,
                  original_pkt |-> p]
    <3>1. CASE p = e
      <4>1. k = n
        BY <1>7, <1>9, <2>1, <3>1
      <4> QED BY <1>7, <1>13, <3>1, <4>1 DEF s
    <3>2. CASE p # e
      <4>1. Unique(p) /\ packet_no[p] = Number(k)
        BY <1>7, <1>8, <2>1, <3>2
      <4>2. k \in Ranks
        <5>1. PICK l \in Ranks : packet_no[p] = Number(l)
          BY <4>1 DEF NumberInv
        <5>2. k # n
          BY <1>9, <4>1, <5>1
        <5> QED BY <1>9, <5>2
      <4>3. dedupe_list[k % DedupeSize] =
              [hash |-> Frame[p], packno |-> packet_no[p] + 1,
               original_pkt |-> p]
        BY <1>15, <2>1, <4>1, <4>2 DEF RingInv
      <4>4. k % DedupeSize \in ScanRange /\ k % DedupeSize # s
        BY <1>9, <1>12, <1>15, <2>1, <4>2
      <4> QED BY <1>7, <1>13, <3>2, <4>3, <4>4
    <3> QED BY <3>1, <3>2
  <2>2. ASSUME NEW i \in ScanRange, dedupe_list'[i].hash # NoFrame
        PROVE  \E k \in Ranks' :
                 /\ InRing(k)' /\ k % DedupeSize = i
                 /\ packet_no'[dedupe_list'[i].original_pkt] = Number(k)
    <3>1. CASE i = s
      <4>1. dedupe_list'[i].original_pkt = e
        BY <1>13, <3>1
      <4> QED BY <1>7, <1>9, <1>15, <3>1, <4>1 DEF s
    <3>2. CASE i # s
      <4>1. PICK o : o = dedupe_list[i].original_pkt
        OBVIOUS
      <4>2. dedupe_list'[i] = dedupe_list[i]
        BY <1>13, <3>2
      <4>3. o \in Packets /\ o # e
        BY <1>3, <2>2, <4>1, <4>2 DEF DedupeInv, JudgedInv
      <4>4. PICK k \in Ranks : /\ InRing(k) /\ k % DedupeSize = i
                               /\ packet_no[o] = Number(k)
        BY <2>2, <4>1, <4>2 DEF RingInv
      <4>5. InRing(k)'
        BY <1>15, <3>2, <4>4
      <4> QED BY <1>7, <1>9, <4>1, <4>2, <4>3, <4>4, <4>5
    <3> QED BY <3>1, <3>2
  <2>3. ASSUME NEW i \in ScanRange, NEW j \in ScanRange,
               dedupe_list'[i].hash = dedupe_list'[j].hash,
               dedupe_list'[i].hash # NoFrame
        PROVE  i = j
    <3>1. \A k \in ScanRange : dedupe_list[k].hash # Frame[e]
      BY <1>1 DEF Matches
    <3>2. dedupe_list'[s].hash = Frame[e]
      BY <1>13
    <3>3. \A k \in ScanRange : k # s => dedupe_list'[k].hash = dedupe_list[k].hash
      BY <1>13
    <3>4. CASE i # s /\ j # s
      BY <2>3, <3>3, <3>4 DEF RingInv
    <3> QED BY <2>3, <3>1, <3>2, <3>3, <3>4
  <2> QED BY <2>1, <2>2, <2>3 DEF RingInv, Number, ScanRange
<1> QED BY <1>10, <1>11, <1>16

\* The pipeline counts and lists as this module does.
LEMMA PipelineOperators ==
  /\ \A S : Pipeline!Cardinality(S) = Cardinality(S)
  /\ \A s : Pipeline!ToSet(s) = ToSet(s)
<1>1. \A S : Pipeline!Cardinality(S) = Cardinality(S)
  BY Zenon DEF Pipeline!Cardinality, Cardinality
<1>2. \A s : Pipeline!ToSet(s) = ToSet(s)
  BY DEF Pipeline!ToSet, ToSet
<1> QED BY <1>1, <1>2

\* When no packet is in its chains the unique packets of the log are those that
\* are numbered, in the order of their numbers.
LEMMA RanksInLog ==
  ASSUME TypeInv, PacketConserved, DedupeInv, NumberInv, NumbersInOrder,
         \A p : Judged(p) <=> p \in ToSet(done)
  PROVE  /\ Pipeline!Uniques = {m \in DOMAIN done : Unique(done[m])}
         /\ Cardinality(Pipeline!Uniques) = dedupe_list_pos
         /\ \A m \in Pipeline!Uniques, k \in Ranks :
              packet_no[done[m]] = Number(k) =>
                Cardinality({j \in Pipeline!Uniques : j > m})
                  = dedupe_list_pos - 1 - k
<1> DEFINE U == {m \in DOMAIN done : Unique(done[m])}
           n == dedupe_list_pos
<1>1. /\ done \in Seq(Packets) /\ n \in Nat
      /\ \A m \in DOMAIN done : done[m] \in Packets /\ done[m] \in ToSet(done)
      /\ original \in [Packets -> Packets \cup {NoPacket}]
      /\ NoPacket \notin Packets
  BY PacketAssumption DEF TypeInv, TypeOK, ToSet
<1>2. Pipeline!Uniques = U
  <2>1. Pipeline!Uniques = {m \in DOMAIN done :
                              LogEntry(done[m]).original = LogEntry(done[m]).packet}
    BY DEF Pipeline!Uniques
  <2>2. ASSUME NEW p \in Packets, p \in ToSet(done)
        PROVE  LogEntry(p).original = LogEntry(p).packet <=> Unique(p)
    <3>1. CASE duplicate[p]
      <4>1. original[p] # p
        BY <3>1 DEF DedupeInv, OriginalComplete
      <4> QED BY <3>1, <4>1 DEF LogEntry, Unique
    <3>2. CASE ~duplicate[p]
      <4>1. p # NoPacket /\ Judged(p)
        BY <1>1, <2>2
      <4> QED BY <3>2, <4>1 DEF LogEntry, Unique
    <3> QED BY <3>1, <3>2
  <2> QED BY <1>1, <2>1, <2>2
<1> DEFINE f == [m \in U |-> CHOOSE k \in Ranks : packet_no[done[m]] = Number(k)]
<1>3. \A m \in U : f[m] \in Ranks /\ packet_no[done[m]] = Number(f[m])
  <2> TAKE m \in U
  <2>1. \E k \in Ranks : packet_no[done[m]] = Number(k)
    BY <1>1 DEF NumberInv
  <2> QED BY <2>1
<1>4. \A k, l \in Ranks : (Number(k) = Number(l) => k = l)
                          /\ (Number(k) < Number(l) => k < l)
  BY <1>1 DEF Ranks, Number
<1>5. IsFiniteSet(U)
  <2>1. IsFiniteSet(1 .. Len(done)) /\ U \subseteq 1 .. Len(done)
    BY <1>1, FS_Interval
  <2> QED BY <2>1, FS_Subset
<1>6. f \in [U -> 0 .. (n - 1)]
  BY <1>3 DEF Ranks
<1> HIDE DEF f
<1>7. \A u, v \in U : f[u] = f[v] => u = v
  <2> SUFFICES ASSUME NEW u \in U, NEW v \in U, f[u] = f[v] PROVE u = v
    OBVIOUS
  <2>1. done[u] = done[v]
    BY <1>1, <1>3 DEF NumberInv
  <2> QED BY <1>1, <2>1 DEF PacketConserved, NoRepeat
<1>8. \A k \in 0 .. (n - 1) : \E u \in U : f[u] = k
  <2> TAKE k \in 0 .. (n - 1)
  <2>1. PICK p \in Packets : Unique(p) /\ packet_no[p] = Number(k)
    BY DEF NumberInv, Ranks
  <2>2. p \in ToSet(done)
    BY <2>1 DEF Unique
  <2>3. PICK m \in DOMAIN done : done[m] = p
    BY <2>2 DEF ToSet
  <2>4. m \in U /\ Number(f[m]) = Number(k) /\ f[m] \in Ranks
    BY <1>3, <2>1, <2>3
  <2> QED BY <1>4, <2>4 DEF Ranks
<1>9. ASSUME NEW l \in -1 .. (n - 1)
      PROVE  Cardinality({u \in U : f[u] > l}) = n - 1 - l
  <2> HIDE DEF U, n
  <2>1. PICK V, g, c : V = U /\ g = f /\ c = n
    OBVIOUS
  <2>2. /\ IsFiniteSet(V) /\ c \in Nat /\ g \in [V -> 0 .. (c - 1)]
        /\ \A u, v \in V : g[u] = g[v] => u = v
        /\ \A k \in 0 .. (c - 1) : \E u \in V : g[u] = k
        /\ l \in -1 .. (c - 1)
    BY <1>1, <1>5, <1>6, <1>7, <1>8, <1>9, <2>1
  <2>3. Cardinality({u \in V : g[u] > l}) = c - 1 - l
    BY <2>2, CountAbove
  <2> QED BY <2>1, <2>3
<1>10. Cardinality(U) = n
  <2>1. {u \in U : f[u] > -1} = U
    BY <1>6
  <2>2. -1 \in -1 .. (n - 1) /\ n - 1 - (-1) = n
    BY <1>1
  <2> QED BY <1>9, <2>1, <2>2
<1>11. ASSUME NEW m \in U, NEW k \in Ranks, packet_no[done[m]] = Number(k)
       PROVE  Cardinality({j \in U : j > m}) = n - 1 - k
  <2>1. f[m] = k
    BY <1>3, <1>4, <1>11
  <2>2. \A i, j \in U : i < j => f[i] < f[j]
    BY <1>3, <1>4 DEF NumbersInOrder
  <2>3. \A j \in U : j > m <=> f[j] > k
    <3>1. \A i \in U : i \in Int /\ f[i] \in Int
      BY <1>1, <1>6
    <3> QED BY <1>7, <2>1, <2>2, <3>1
  <2>4. {j \in U : j > m} = {j \in U : f[j] > k}
    BY <2>3
  <2>5. k \in -1 .. (n - 1)
    BY <1>1 DEF Ranks
  <2> QED BY <1>9, <2>4, <2>5
<1> QED BY <1>2, <1>10, <1>11

\* The recent unique packets of the log are those in the ring.
LEMMA RecentInRing ==
  ASSUME TypeInv, PacketConserved, DedupeInv, NumberInv, NumbersInOrder,
         RingInv, \A p : Judged(p) <=> p \in ToSet(done)
  PROVE  /\ \A m \in Pipeline!Recent :
              /\ m \in DOMAIN done /\ Unique(done[m])
              /\ \E i \in ScanRange :
                   dedupe_list[i] =
                     [hash |-> Frame[done[m]],
                      packno |-> packet_no[done[m]] + 1,
                      original_pkt |-> done[m]]
         /\ \A i \in ScanRange : dedupe_list[i].hash # NoFrame =>
              \E m \in Pipeline!Recent :
                dedupe_list[i] = [hash |-> Frame[done[m]],
                                  packno |-> packet_no[done[m]] + 1,
                                  original_pkt |-> done[m]]
<1> DEFINE U == Pipeline!Uniques
<1>1. /\ U = {m \in DOMAIN done : Unique(done[m])}
      /\ \A m \in U, k \in Ranks : packet_no[done[m]] = Number(k) =>
           Cardinality({j \in U : j > m}) = dedupe_list_pos - 1 - k
  BY RanksInLog
<1>2. Pipeline!Recent = {m \in U : Cardinality({j \in U : j > m}) < DedupeSize}
  <2>1. \A S : Pipeline!Cardinality(S) = Cardinality(S)
    BY PipelineOperators
  <2> QED BY <2>1 DEF Pipeline!Recent
<1>3. /\ dedupe_list_pos \in Nat /\ DedupeSize \in Nat \ {0}
      /\ \A m \in DOMAIN done : done[m] \in Packets
  BY ThreadAssumption DEF TypeInv, TypeOK
<1> HIDE DEF U
<1>4. ASSUME NEW m \in U, NEW k \in Ranks, packet_no[done[m]] = Number(k)
      PROVE  m \in Pipeline!Recent <=> InRing(k)
  <2>1. Cardinality({j \in U : j > m}) = dedupe_list_pos - 1 - k
    BY <1>1, <1>4
  <2>2. dedupe_list_pos - 1 - k < DedupeSize <=> InRing(k)
    BY <1>3 DEF InRing, Ranks
  <2> QED BY <1>2, <2>1, <2>2
<1>5. ASSUME NEW m \in Pipeline!Recent
      PROVE  /\ m \in DOMAIN done /\ Unique(done[m])
             /\ \E i \in ScanRange :
                  dedupe_list[i] = [hash |-> Frame[done[m]],
                                    packno |-> packet_no[done[m]] + 1,
                                    original_pkt |-> done[m]]
  <2>1. m \in U /\ m \in DOMAIN done /\ Unique(done[m])
    BY <1>1, <1>2
  <2>2. PICK k \in Ranks : packet_no[done[m]] = Number(k)
    BY <1>3, <2>1 DEF NumberInv
  <2>3. InRing(k)
    BY <1>4, <2>1, <2>2
  <2>4. k % DedupeSize \in ScanRange
    BY <1>3, SlotFacts DEF Ranks, ScanRange
  <2> QED BY <1>3, <2>1, <2>2, <2>3, <2>4 DEF RingInv
<1>6. ASSUME NEW i \in ScanRange, dedupe_list[i].hash # NoFrame
      PROVE  \E m \in Pipeline!Recent :
               dedupe_list[i] = [hash |-> Frame[done[m]],
                                 packno |-> packet_no[done[m]] + 1,
                                 original_pkt |-> done[m]]
  <2>1. PICK o : o = dedupe_list[i].original_pkt
    OBVIOUS
  <2>2. /\ o \in Packets /\ Unique(o) /\ o \in ToSet(done)
    BY <1>6, <2>1 DEF DedupeInv, JudgedInv, Unique
  <2>3. PICK k \in Ranks : /\ InRing(k) /\ k % DedupeSize = i
                           /\ packet_no[o] = Number(k)
    BY <1>6, <2>1 DEF RingInv
  <2>4. PICK m \in DOMAIN done : done[m] = o
    BY <2>2 DEF ToSet
  <2>5. m \in Pipeline!Recent
    BY <1>1, <1>4, <2>2, <2>3, <2>4
  <2> QED BY <2>2, <2>3, <2>4, <2>5 DEF RingInv
<1> QED BY <1>5, <1>6

\* Finished packets keep what is written of them, so the log only grows.
LEMMA LogKept ==
  ASSUME TypeInv, PacketConserved, [Next]_vars, NEW p \in ToSet(done)
  PROVE  LogEntry(p)' = LogEntry(p)
<1>1. CASE \E t \in Threads : Dedupe(t)
  <2>1. PICK t \in Threads : Dedupe(t)
    BY <1>1
  <2>2. wpkt[t] # p
    <3>1. Whole /\ Busy(t) /\ wpkt[t] \in Packets
      BY <2>1 DEF PacketConserved, Whole, Busy, Dedupe, Goto, TypeInv, HasPacket
    <3> QED BY <3>1, Apart
  <2>3. p \in Packets
    BY DEF TypeInv, TypeOK, ToSet
  <2>4. /\ packet_no'[p] = packet_no[p] /\ duplicate'[p] = duplicate[p]
        /\ original'[p] = original[p]
    BY <2>1, <2>2, <2>3 DEF Dedupe, MarkDuplicate, MarkUnique, dedupeVars,
                            TypeInv, TypeOK
  <2> QED BY <2>4 DEF LogEntry
<1>2. CASE \A t \in Threads : ~Dedupe(t)
  BY <1>2, OnlyDedupeJudges DEF dedupeVars, LogEntry
<1> QED BY <1>1, <1>2

\* What the comparison says of a packet is what the log says of it.
LEMMA DedupeVerdict ==
  ASSUME NEW t \in Threads, TypeInv, PacketConserved, GateOwned, DedupeInv,
         NumberInv, NumbersInOrder, RingInv, Dedupe(t)
  PROVE  LogEntry(wpkt[t])' = Pipeline!Verdict(wpkt[t])
<1>1. PICK e : e = wpkt[t]
  OBVIOUS
<1>2. /\ e \in Packets /\ ~Judged(e) /\ wpkt' = wpkt
      /\ \A p : Judged(p) <=> p \in ToSet(done)
  BY <1>1, DedupeJudges
<1>t. /\ packet_no \in [Packets -> Nat] /\ duplicate \in [Packets -> BOOLEAN]
      /\ original \in [Packets -> Packets \cup {NoPacket}]
      /\ \A m \in DOMAIN done : done[m] \in Packets
  BY DEF TypeInv, TypeOK
<1>3. ~duplicate[e] /\ (Frame[e] = NoFrame => packet_no[e] = 0)
  BY <1>2 DEF DedupeInv, JudgedInv, NumberInv
<1> DEFINE log == [m \in DOMAIN done |-> LogEntry(done[m])]
           Same == {m \in Pipeline!Recent : Frame[log[m].packet] = Frame[e]}
           u == log[CHOOSE m \in Same : TRUE]
<1>4. Pipeline!Verdict(e) =
        IF Frame[e] = NoFrame
        THEN [packet |-> e, number |-> 0, original |-> NoPacket]
        ELSE IF Same = {}
        THEN [packet |-> e, number |-> 2 * Cardinality(Pipeline!Uniques) + 1,
              original |-> e]
        ELSE [packet |-> e, number |-> u.number + 1, original |-> u.packet]
  BY PipelineOperators DEF Pipeline!Verdict
<1> HIDE DEF u
<1>5. /\ \A m \in Pipeline!Recent :
           /\ m \in DOMAIN done /\ Unique(done[m])
           /\ \E i \in ScanRange :
                dedupe_list[i] = [hash |-> Frame[done[m]],
                                  packno |-> packet_no[done[m]] + 1,
                                  original_pkt |-> done[m]]
      /\ \A i \in ScanRange : dedupe_list[i].hash # NoFrame =>
           \E m \in Pipeline!Recent :
             dedupe_list[i] = [hash |-> Frame[done[m]],
                               packno |-> packet_no[done[m]] + 1,
                               original_pkt |-> done[m]]
  BY <1>2, RecentInRing
<1>6. \A m \in Same : /\ m \in Pipeline!Recent /\ m \in DOMAIN done
                      /\ log[m].packet = done[m]
                      /\ log[m].number = packet_no[done[m]]
                      /\ Frame[done[m]] = Frame[e]
  BY <1>5 DEF LogEntry
<1>7. \A m \in Pipeline!Recent : Frame[done[m]] = Frame[e] => m \in Same
  BY <1>5 DEF LogEntry
<1> HIDE DEF log, Same
<1>8. CASE Frame[e] = NoFrame
  <2>1. packet_no' = packet_no /\ duplicate' = duplicate
    BY <1>1, <1>8 DEF Dedupe, dedupeVars
  <2> QED BY <1>1, <1>2, <1>3, <1>4, <1>8, <2>1 DEF LogEntry
<1>9. ASSUME Frame[e] # NoFrame, NEW i \in Matches(e), MarkDuplicate(t, i)
      PROVE  LogEntry(e)' = Pipeline!Verdict(e)
  <2>1. /\ i \in ScanRange /\ dedupe_list[i].hash = Frame[e]
    BY <1>9 DEF Matches
  <2>2. PICK m \in Pipeline!Recent :
           dedupe_list[i] = [hash |-> Frame[done[m]],
                             packno |-> packet_no[done[m]] + 1,
                             original_pkt |-> done[m]]
    BY <1>5, <1>9, <2>1
  <2>3. m \in Same
    BY <1>7, <2>1, <2>2
  <2>4. ASSUME NEW l \in Same PROVE done[l] = done[m]
    <3>1. PICK j \in ScanRange :
             dedupe_list[j] = [hash |-> Frame[done[l]],
                               packno |-> packet_no[done[l]] + 1,
                               original_pkt |-> done[l]]
      BY <1>5, <1>6
    <3>2. dedupe_list[j].hash = dedupe_list[i].hash
      BY <1>6, <2>1, <3>1
    <3>3. j = i
      BY <1>9, <2>1, <3>2 DEF RingInv
    <3> QED BY <2>2, <3>1, <3>3
  <2>5. PICK o : o = done[m]
    OBVIOUS
  <2>6. u.packet = o /\ u.number = packet_no[o]
    <3>1. (CHOOSE l \in Same : TRUE) \in Same
      BY <2>3
    <3> QED BY <1>6, <2>4, <2>5, <3>1 DEF u
  <2>7. Pipeline!Verdict(e) =
          [packet |-> e, number |-> packet_no[o] + 1, original |-> o]
    BY <1>4, <1>9, <2>3, <2>6
  <2>8. /\ packet_no'[e] = packet_no[o] + 1 /\ duplicate'[e]
        /\ original'[e] = o
    BY <1>1, <1>2, <1>t, <1>9, <2>2, <2>5 DEF MarkDuplicate
  <2> QED BY <2>7, <2>8 DEF LogEntry
<1>10. ASSUME Frame[e] # NoFrame, Matches(e) = {}, MarkUnique(t)
       PROVE  LogEntry(e)' = Pipeline!Verdict(e)
  <2>1. Same = {}
    <3> SUFFICES ASSUME NEW m \in Same PROVE FALSE
      OBVIOUS
    <3>1. PICK i \in ScanRange :
             dedupe_list[i] = [hash |-> Frame[done[m]],
                               packno |-> packet_no[done[m]] + 1,
                               original_pkt |-> done[m]]
      BY <1>5, <1>6
    <3>2. i \in Matches(e)
      BY <1>6, <3>1 DEF Matches
    <3> QED BY <1>10, <3>2
  <2>2. Cardinality(Pipeline!Uniques) = dedupe_list_pos
    BY <1>2, RanksInLog
  <2>3. Pipeline!Verdict(e) =
          [packet |-> e, number |-> 2 * dedupe_list_pos + 1, original |-> e]
    BY <1>4, <1>10, <2>1, <2>2
  <2>4. packet_no'[e] = 2 * dedupe_list_pos + 1 /\ ~duplicate'[e]
    BY <1>1, <1>2, <1>t, <1>3, <1>10 DEF MarkUnique, NumberInv, Number
  <2> QED BY <1>10, <2>3, <2>4 DEF LogEntry
<1>11. LogEntry(e)' = Pipeline!Verdict(e)
  BY <1>1, <1>8, <1>9, <1>10 DEF Dedupe
<1> QED BY <1>1, <1>2, <1>11 DEF LogEntry

\* A verdict rests on the log alone.
LEMMA VerdictKept ==
  ASSUME TypeInv, PacketConserved, [Next]_vars, done' = done, NEW p
  PROVE  Pipeline!Verdict(p)' = Pipeline!Verdict(p)
<1> DEFINE log == [m \in DOMAIN done |-> LogEntry(done[m])]
<1>1. \A m \in DOMAIN done : LogEntry(done[m])' = LogEntry(done[m])
  <2> TAKE m \in DOMAIN done
  <2>1. PICK e : e = done[m]
    OBVIOUS
  <2>2. e \in ToSet(done)
    BY <2>1 DEF ToSet
  <2>3. LogEntry(e)' = LogEntry(e)
    BY <2>2, LogKept
  <2> QED BY <2>1, <2>3 DEF LogEntry
<1>2. log' = log
  BY <1>1
<1>3. Pipeline!Uniques' = Pipeline!Uniques
  BY <1>2 DEF Pipeline!Uniques
<1>4. Pipeline!Recent' = Pipeline!Recent
  BY <1>3 DEF Pipeline!Recent
<1> DEFINE S == {i \in Pipeline!Recent : Frame[log[i].packet] = Frame[p]}
           V == IF Frame[p] = NoFrame
                THEN [packet |-> p, number |-> 0, original |-> NoPacket]
                ELSE IF S = {}
                THEN [packet |-> p,
                      number |-> 2 * Pipeline!Cardinality(Pipeline!Uniques) + 1,
                      original |-> p]
                ELSE [packet |-> p,
                      number |-> log[CHOOSE i \in S : TRUE].number + 1,
                      original |-> log[CHOOSE i \in S : TRUE].packet]
<1>5. V = Pipeline!Verdict(p)
  BY Zenon DEF Pipeline!Verdict
<1>6. V' = Pipeline!Verdict(p)'
  BY Zenon DEF Pipeline!Verdict
<1>7. S' = S
  BY <1>2, <1>4
<1>8. V' = V
  <2> HIDE DEF S, log
  <2> QED BY <1>2, <1>3, <1>7
<1> HIDE DEF V
<1> QED BY <1>5, <1>6, <1>8

\* The inductive step of PipelineInv.
LEMMA PipelineStep ==
  ASSUME TypeInv, PacketConserved, GateOwned, DedupeInv, PipelineInv,
         [Next]_vars
  PROVE  PipelineInv'
<1> USE DEF PipelineInv
<1>1. ASSUME NEW t \in Threads, Dedupe(t) PROVE PipelineInv'
  <2>1. NumberInv' /\ NumbersInOrder' /\ RingInv'
    BY <1>1, NoNewUnique, NewUnique DEF Dedupe
  <2>2. /\ \A u \in Threads : wpc'[u] = "chains" <=> u = t
        /\ done' = done /\ wpkt' = wpkt
    BY <1>1, DedupeJudges
  <2>3. PICK e : e = wpkt[t]
    OBVIOUS
  <2>4. LogEntry(e)' = Pipeline!Verdict(e)
    <3>1. LogEntry(wpkt[t])' = Pipeline!Verdict(wpkt[t])
      BY <1>1, DedupeVerdict
    <3>2. LogEntry(e)' = LogEntry(wpkt[t])'
      BY <2>2, <2>3 DEF LogEntry
    <3> QED BY <2>3, <3>1, <3>2
  <2>5. LogEntry(e)' = Pipeline!Verdict(e)'
    BY <2>2, <2>4, VerdictKept
  <2>6. wpkt'[t] = e
    BY <2>2, <2>3
  <2>7. VerdictInv'
    <3> SUFFICES ASSUME NEW u \in Threads, wpc'[u] = "chains"
                 PROVE  LogEntry(wpkt[u])' = Pipeline!Verdict(wpkt[u])'
      BY DEF VerdictInv
    <3>1. u = t
      BY <2>2
    <3>2. wpkt'[u] = e
      BY <2>6, <3>1
    <3>3. LogEntry(wpkt[u])' = LogEntry(e)'
      BY <3>2 DEF LogEntry
    <3>4. Pipeline!Verdict(wpkt[u])' = Pipeline!Verdict(e)'
      BY <3>2 DEF Pipeline!Verdict
    <3> QED BY <2>5, <3>3, <3>4
  <2> QED BY <2>1, <2>7
<1>2. ASSUME \A t \in Threads : ~Dedupe(t) PROVE PipelineInv'
  <2>1. NumberInv' /\ NumbersInOrder' /\ RingInv'
    BY <1>2, OthersKeepNumbers DEF DedupeInv
  <2>2. /\ UNCHANGED dedupeVars
        /\ \A t \in Threads : wpc'[t] = "chains" =>
             wpc[t] = "chains" /\ wpkt'[t] = wpkt[t]
        /\ done' = done \/ \E t \in Threads : RunChains(t)
    BY <1>2, OnlyDedupeJudges
  <2>3. VerdictInv'
    <3> SUFFICES ASSUME NEW u \in Threads, wpc'[u] = "chains"
                 PROVE  LogEntry(wpkt[u])' = Pipeline!Verdict(wpkt[u])'
      BY DEF VerdictInv
    <3>1. wpc[u] = "chains" /\ wpkt'[u] = wpkt[u]
      BY <2>2
    <3>2. done' = done
      <4>1. ASSUME NEW t \in Threads, RunChains(t) PROVE FALSE
        <5>1. /\ wpc[t] = "chains" /\ wpc' = [wpc EXCEPT ![t] = "finish"]
              /\ DOMAIN wpc = Threads
          BY <4>1 DEF RunChains, Goto, TypeInv, TypeOK
        <5>2. u = t
          BY <3>1, <5>1 DEF GateOwned, InGate
        <5> QED BY <5>1, <5>2
      <4> QED BY <2>2, <4>1
    <3>3. PICK e : e = wpkt[u]
      OBVIOUS
    <3>4. LogEntry(e) = Pipeline!Verdict(e)
      BY <3>1, <3>3 DEF VerdictInv
    <3>5. LogEntry(e)' = LogEntry(e)
      BY <2>2 DEF LogEntry, dedupeVars
    <3>6. Pipeline!Verdict(e)' = Pipeline!Verdict(e)
      BY <3>2, VerdictKept
    <3>7. wpkt'[u] = e
      BY <3>1, <3>3
    <3>8. LogEntry(wpkt[u])' = LogEntry(e)'
      BY <3>7 DEF LogEntry
    <3>9. Pipeline!Verdict(wpkt[u])' = Pipeline!Verdict(e)'
      BY <3>7 DEF Pipeline!Verdict
    <3> QED BY <3>4, <3>5, <3>6, <3>8, <3>9
  <2> QED BY <2>1, <2>3
<1> QED BY <1>1, <1>2

\* Numbers, ring and verdicts are right in every reachable state.
LEMMA PipelineIsKept == Spec => []PipelineInv
<1>1. Init => PipelineInv
  <2> SUFFICES ASSUME Init PROVE PipelineInv
    OBVIOUS
  <2>1. /\ done = <<>> /\ dedupe_list_pos = 0 /\ unique_packet_no = 1
        /\ \A t \in Threads : wpc[t] = "top"
        /\ \A p \in Packets : packet_no[p] = 0 /\ ~duplicate[p]
        /\ \A i \in ScanRange : dedupe_list[i].hash = NoFrame
    BY DEF Init, EmptyEntry, ScanRange
  <2>2. /\ \A p : ~Unique(p)
        /\ Ranks = {}
    BY <2>1 DEF Unique, Judged, ToSet, Ranks
  <2>3. NumberInv
    BY <2>1, <2>2 DEF NumberInv, Number
  <2>4. NumbersInOrder
    BY <2>1, <2>2 DEF NumbersInOrder
  <2>5. RingInv
    BY <2>1, <2>2 DEF RingInv
  <2>6. VerdictInv
    BY <2>1 DEF VerdictInv
  <2> QED BY <2>3, <2>4, <2>5, <2>6 DEF PipelineInv
<1> QED
  BY <1>1, PipelineStep, TypeCorrect, PacketsConserved, GateIsOwned,
     DedupeIsKept, PTL DEF Spec

\* The variables of the pipeline, in terms of the packet chain.
Offered  == {p \in Packets : \E c \in Producers : p \in ToSet(feed[c])}
Accepted == {p \in Packets : Queued(p) \/ Processed(p)}
Log      == [i \in DOMAIN done |-> LogEntry(done[i])]

\* The actions of the pipeline under the refinement mapping.
LEMMA PipelineVars ==
  /\ Pipeline!vars = <<Offered, dropped, Accepted, Log>>
  /\ \A p : Pipeline!Refuse(p) <=>
       /\ p \in Offered /\ Offered' = Offered \ {p}
       /\ dropped' = dropped \cup {p}
       /\ Accepted' = Accepted /\ Log' = Log
  /\ \A p : Pipeline!Accept(p) <=>
       /\ p \in Offered /\ Offered' = Offered \ {p}
       /\ Accepted' = Accepted \cup {p}
       /\ dropped' = dropped /\ Log' = Log
  /\ \A p : Pipeline!Process(p) <=>
       /\ p \in Accepted /\ \A q \in Accepted : ~Pipeline!Earlier(q, p)
       /\ Accepted' = Accepted \ {p}
       /\ Log' = Append(Log, Pipeline!Verdict(p))
       /\ Offered' = Offered /\ dropped' = dropped
<1>1. Accepted = {p \in Packets : \E t \in Threads :
                    p \in ToSet(queue[t]) \/ (Busy(t) /\ wpkt[t] = p)}
  BY DEF Accepted, Queued, Processed
<1>2. Accepted' = {p \in Packets : \E t \in Threads :
                     p \in ToSet(queue[t]) \/ (Busy(t) /\ wpkt[t] = p)}'
  BY DEF Accepted, Queued, Processed
<1>3. Pipeline!vars = <<Offered, dropped, Accepted, Log>>
  BY <1>1 DEF Pipeline!vars, Offered, Log
<1>4. ASSUME NEW p
      PROVE  /\ Pipeline!Refuse(p) <=>
                  /\ p \in Offered /\ Offered' = Offered \ {p}
                  /\ dropped' = dropped \cup {p}
                  /\ Accepted' = Accepted /\ Log' = Log
             /\ Pipeline!Accept(p) <=>
                  /\ p \in Offered /\ Offered' = Offered \ {p}
                  /\ Accepted' = Accepted \cup {p}
                  /\ dropped' = dropped /\ Log' = Log
             /\ Pipeline!Process(p) <=>
                  /\ p \in Accepted
                  /\ \A q \in Accepted : ~Pipeline!Earlier(q, p)
                  /\ Accepted' = Accepted \ {p}
                  /\ Log' = Append(Log, Pipeline!Verdict(p))
                  /\ Offered' = Offered /\ dropped' = dropped
  <2>1. Pipeline!Refuse(p) <=>
          /\ p \in Offered /\ Offered' = Offered \ {p}
          /\ dropped' = dropped \cup {p}
          /\ Accepted' = Accepted /\ Log' = Log
    BY <1>1, <1>2 DEF Pipeline!Refuse, Offered, Log
  <2>2. Pipeline!Accept(p) <=>
          /\ p \in Offered /\ Offered' = Offered \ {p}
          /\ Accepted' = Accepted \cup {p}
          /\ dropped' = dropped /\ Log' = Log
    BY <1>1, <1>2 DEF Pipeline!Accept, Offered, Log
  <2>3. Pipeline!Process(p) <=>
          /\ p \in Accepted /\ \A q \in Accepted : ~Pipeline!Earlier(q, p)
          /\ Accepted' = Accepted \ {p}
          /\ Log' = Append(Log, Pipeline!Verdict(p))
          /\ Offered' = Offered /\ dropped' = dropped
    BY <1>1, <1>2 DEF Pipeline!Process, Offered, Log
  <2> QED BY <2>1, <2>2, <2>3
<1> QED BY <1>3, <1>4

\* A step that finishes no packet leaves the log as it is.
LEMMA LogUnchanged ==
  ASSUME TypeInv, PacketConserved, [Next]_vars, done' = done
  PROVE  Log' = Log
<1>1. \A m \in DOMAIN done : LogEntry(done[m])' = LogEntry(done[m])
  <2> TAKE m \in DOMAIN done
  <2>1. PICK e : e = done[m]
    OBVIOUS
  <2>2. e \in ToSet(done)
    BY <2>1 DEF ToSet
  <2>3. LogEntry(e)' = LogEntry(e)
    BY <2>2, LogKept
  <2> QED BY <2>1, <2>3 DEF LogEntry
<1> QED BY <1>1 DEF Log

\* A step that leaves the four alone is a stutter of the pipeline.
LEMMA PipelineStutters ==
  ASSUME Offered' = Offered, dropped' = dropped, Accepted' = Accepted,
         Log' = Log
  PROVE  UNCHANGED Pipeline!vars
<1>1. Accepted = {p \in Packets : \E t \in Threads :
                    p \in ToSet(queue[t]) \/ (Busy(t) /\ wpkt[t] = p)}
  BY DEF Accepted, Queued, Processed
<1>2. Accepted' = {p \in Packets : \E t \in Threads :
                     p \in ToSet(queue[t]) \/ (Busy(t) /\ wpkt[t] = p)}'
  BY DEF Accepted, Queued, Processed
<1> QED BY <1>1, <1>2 DEF Pipeline!vars, Offered, Log

\* process_packet offers its packet to the pipeline, which takes or refuses it.
LEMMA ProducerImplements ==
  ASSUME NEW c \in Producers, TypeInv, PacketConserved, [Next]_vars,
         ProducerStep(c)
  PROVE  Pipeline!Next \/ UNCHANGED Pipeline!vars
<1>1. PICK p0 : p0 = Head(feed[c])
  OBVIOUS
<1>2. Whole
  BY DEF PacketConserved, Whole
<1>3. CASE Measure(c)
  <2>1. /\ feed' = feed /\ dropped' = dropped /\ queue' = queue
        /\ wpc' = wpc /\ wpkt' = wpkt /\ done' = done
    BY <1>3 DEF Measure
  <2>2. Log' = Log
    BY <2>1, LogUnchanged
  <2>3. Offered' = Offered
    BY <2>1 DEF Offered
  <2>4. Accepted' = Accepted
    BY <2>1 DEF Accepted, Queued, Processed, Busy
  <2> QED BY <2>1, <2>2, <2>3, <2>4, PipelineStutters
<1>4. ASSUME ppc[c] = "measured", Return(c)
      PROVE  p0 \in Packets /\ p0 \in Offered /\ Offered' = Offered \ {p0}
  <2>1. /\ p0 \in Packets /\ p0 \in ToSet(feed[c])
        /\ ToSet(feed'[c]) = ToSet(feed[c]) \ {p0}
        /\ \A d \in Producers : d # c => feed'[d] = feed[d]
    BY <1>1, <1>4, ReturnTakes
  <2>2. \A d \in Producers : d # c => p0 \notin ToSet(feed[d])
    BY <1>2, <2>1, Apart
  <2>3. ASSUME NEW p \in Packets
        PROVE  p \in Offered' <=> p \in Offered /\ p # p0
    BY <2>1, <2>2 DEF Offered
  <2>4. Offered \subseteq Packets /\ Offered' \subseteq Packets
    BY DEF Offered
  <2> QED BY <2>1, <2>3, <2>4 DEF Offered
<1>5. CASE Drop(c)
  <2>1. /\ ppc[c] = "measured" /\ Return(c) /\ dropped' = dropped \cup {p0}
        /\ queue' = queue /\ done' = done /\ wpc' = wpc /\ wpkt' = wpkt
    BY <1>1, <1>5 DEF Drop
  <2>2. Accepted' = Accepted /\ Log' = Log
    BY <2>1, LogUnchanged DEF Accepted, Queued, Processed, Busy
  <2>3. Pipeline!Refuse(p0)
    BY <1>4, <2>1, <2>2, PipelineVars
  <2> QED BY <1>4, <2>1, <2>3 DEF Pipeline!Next
<1>6. CASE Enqueue(c)
  <2>1. PICK t0 : t0 = target[c]
    OBVIOUS
  <2>2. /\ ppc[c] = "measured" /\ Return(c)
        /\ queue' = [queue EXCEPT ![t0] = Append(@, p0)]
        /\ dropped' = dropped /\ done' = done /\ wpc' = wpc /\ wpkt' = wpkt
    BY <1>1, <1>6, <2>1 DEF Enqueue
  <2>3. /\ t0 \in Threads /\ DOMAIN queue = Threads
        /\ queue[t0] \in Seq(Packets \cup {NoPacket})
        /\ p0 \in Packets
    BY <1>4, <2>1, <2>2 DEF TypeInv, TypeOK
  <2>4. /\ queue'[t0] = Append(queue[t0], p0)
        /\ \A t \in Threads : t # t0 => queue'[t] = queue[t]
    BY <2>2, <2>3
  <2>5. ToSet(queue'[t0]) = ToSet(queue[t0]) \cup {p0}
    BY <2>3, <2>4, SequenceElements
  <2>6. \A p \in Packets : /\ Queued(p)' <=> Queued(p) \/ p = p0
                           /\ Processed(p)' <=> Processed(p)
    BY <2>2, <2>3, <2>4, <2>5 DEF Queued, Processed, Busy
  <2>7. Accepted' = Accepted \cup {p0}
    BY <2>3, <2>6 DEF Accepted
  <2>8. Pipeline!Accept(p0)
    BY <1>4, <2>2, <2>7, LogUnchanged, PipelineVars
  <2> QED BY <2>3, <2>8 DEF Pipeline!Next
<1> QED BY <1>3, <1>5, <1>6 DEF ProducerStep

\* Taking an item from a queue is no step of the pipeline.
LEMMA DequeueStutters ==
  ASSUME NEW t0 \in Threads, TypeInv, PacketConserved, [Next]_vars,
         Dequeue(t0)
  PROVE  UNCHANGED Pipeline!vars
<1>1. PICK i \in DOMAIN queue[t0] :
        /\ queue' = [queue EXCEPT ![t0] = Without(@, i)]
        /\ wpkt' = [wpkt EXCEPT ![t0] = queue[t0][i]]
        /\ wpc[t0] = "wait"
        /\ wpc' = [wpc EXCEPT ![t0] = IF IsWakeUp(queue[t0][i]) THEN "exit"
                                      ELSE "lock"]
  BY DEF Dequeue, Goto
<1>2. PICK e : e = queue[t0][i]
  OBVIOUS
<1>3. /\ queue \in [Threads -> Seq(Packets \cup {NoPacket})]
      /\ DOMAIN wpc = Threads /\ DOMAIN wpkt = Threads
      /\ queue[t0] \in Seq(Packets \cup {NoPacket})
      /\ e \in Packets \cup {NoPacket} /\ NoPacket \notin Packets
      /\ NoRepeat(queue[t0])
  BY <1>1, <1>2, PacketAssumption DEF TypeInv, TypeOK, PacketConserved
<1>4. /\ queue'[t0] = Without(queue[t0], i) /\ wpkt'[t0] = e
      /\ wpc'[t0] = IF e = NoPacket THEN "exit" ELSE "lock"
      /\ \A u \in Threads : u # t0 => /\ queue'[u] = queue[u]
                                      /\ wpkt'[u] = wpkt[u] /\ wpc'[u] = wpc[u]
      /\ feed' = feed /\ dropped' = dropped /\ done' = done
  BY <1>1, <1>2, <1>3 DEF Dequeue, IsWakeUp, producerVars
<1>5. \A p \in Packets : p \in ToSet(queue'[t0]) <=>
                           p \in ToSet(queue[t0]) /\ p # e
  <2>1. \A p \in Packets : p \in ToSet(Without(queue[t0], i)) <=>
                             p \in ToSet(queue[t0]) /\ p # queue[t0][i]
    BY <1>1, <1>3, NoRepeatWithout
  <2> QED BY <1>2, <1>4, <2>1
<1>6. e \in ToSet(queue[t0])
  BY <1>1, <1>2, <1>3, SequenceElements
<1>7. /\ \A u \in Threads : u # t0 => (Busy(u)' <=> Busy(u))
      /\ ~Busy(t0) /\ (Busy(t0)' <=> e # NoPacket)
  BY <1>1, <1>4 DEF Busy
<1>8. ASSUME NEW p \in Packets
      PROVE  Queued(p)' \/ Processed(p)' <=> Queued(p) \/ Processed(p)
  <2>1. CASE p = e
    <3>1. Processed(p)'
      BY <1>3, <1>4, <1>7, <2>1 DEF Processed
    <3>2. Queued(p)
      BY <1>6, <2>1 DEF Queued
    <3> QED BY <3>1, <3>2
  <2>2. CASE p # e
    <3>1. Queued(p)' <=> Queued(p)
      BY <1>4, <1>5, <2>2 DEF Queued
    <3>2. Processed(p)' <=> Processed(p)
      BY <1>4, <1>7, <2>2 DEF Processed
    <3> QED BY <3>1, <3>2
  <2> QED BY <2>1, <2>2
<1>9. Accepted' = Accepted /\ Offered' = Offered
  BY <1>4, <1>8 DEF Accepted, Offered
<1> QED BY <1>4, <1>9, LogUnchanged, PipelineStutters

\* The end of the chains is the step that processes the packet: those it
\* follows are through, and what the log says of it was decided when it was
\* compared.
LEMMA RunChainsImplements ==
  ASSUME NEW t0 \in Threads, TypeInv, PacketConserved, OrderInv, PipelineInv,
         [Next]_vars, RunChains(t0)
  PROVE  \E p \in Packets : Pipeline!Process(p)
<1>1. PICK e : e = wpkt[t0]
  OBVIOUS
<1>2. /\ wpc[t0] = "chains" /\ wpc' = [wpc EXCEPT ![t0] = "finish"]
      /\ done' = Append(done, e) /\ UNCHANGED dedupeVars
      /\ feed' = feed /\ dropped' = dropped /\ queue' = queue /\ wpkt' = wpkt
  BY <1>1 DEF RunChains, Goto, producerVars
<1>3. e \in Packets /\ DOMAIN wpc = Threads /\ done \in Seq(Packets)
  BY <1>1, <1>2 DEF TypeInv, TypeOK, HasPacket
<1>4. /\ Busy(t0) /\ ~Busy(t0)'
      /\ \A u \in Threads : u # t0 => (Busy(u)' <=> Busy(u))
  BY <1>2, <1>3 DEF Busy
<1>5. Whole /\ Processed(e) /\ Lane(e, t0)
  BY <1>1, <1>4 DEF PacketConserved, Whole, Processed, OrderInv, InLane
<1>6. \A u \in Threads : /\ Busy(u) /\ wpkt[u] = e => u = t0
                         /\ e \notin ToSet(queue[u])
  BY <1>1, <1>3, <1>4, <1>5, Apart
<1>7. e \in Accepted /\ Accepted' = Accepted \ {e}
  <2>1. \A p \in Packets : Queued(p)' \/ Processed(p)' <=>
                             (Queued(p) \/ Processed(p)) /\ p # e
    <3> TAKE p \in Packets
    <3>1. Queued(p)' <=> Queued(p)
      BY <1>2 DEF Queued
    <3>2. Processed(p)' <=> Processed(p) /\ p # e
      BY <1>1, <1>2, <1>4, <1>6 DEF Processed
    <3>3. Queued(p) => p # e
      BY <1>6 DEF Queued
    <3> QED BY <3>1, <3>2, <3>3
  <2> QED BY <1>3, <1>5, <2>1 DEF Accepted
<1>8. ASSUME NEW q \in Accepted, Pipeline!Earlier(q, e) PROVE FALSE
  <2>1. q \in Packets /\ (Queued(q) \/ Processed(q))
    BY DEF Accepted
  <2>2. Follows(e, q)
    BY <1>8 DEF Pipeline!Earlier, Follows
  <2>3. q # e /\ \A t, u : Lane(q, t) /\ Lane(e, u) => t = u
    BY <1>3, <2>1, <2>2, FollowsFacts
  <2>4. ~Queued(q)
    BY <1>3, <1>5, <2>1, <2>2 DEF OrderInv, InOrder, NotPast
  <2>5. PICK u \in Threads : Busy(u) /\ wpkt[u] = q
    BY <2>1, <2>4 DEF Processed
  <2>6. u = t0
    BY <1>5, <2>3, <2>5 DEF OrderInv, InLane
  <2> QED BY <1>1, <2>3, <2>5, <2>6
<1>9. Log' = Append(Log, Pipeline!Verdict(e))
  <2>1. LogEntry(e) = Pipeline!Verdict(e)
    BY <1>1, <1>2 DEF PipelineInv, VerdictInv
  <2>2. \A p : LogEntry(p)' = LogEntry(p)
    BY <1>2 DEF LogEntry, dedupeVars
  <2>3. /\ DOMAIN done = 1 .. Len(done) /\ Len(done) \in Nat
        /\ DOMAIN done' = 1 .. (Len(done) + 1)
        /\ done'[Len(done) + 1] = e
        /\ \A m \in 1 .. Len(done) : done'[m] = done[m]
    BY <1>2, <1>3
  <2>4. Log' = [m \in 1 .. (Len(done) + 1) |-> LogEntry(done'[m])]
    <3>1. \A m : LogEntry(done[m])' = LogEntry(done'[m])
      <4> TAKE m
      <4>1. PICK x : x = done'[m]
        OBVIOUS
      <4>2. LogEntry(done[m])' = LogEntry(x)'
        BY <4>1 DEF LogEntry
      <4> QED BY <2>2, <4>1, <4>2
    <3> QED BY <2>3, <3>1 DEF Log
  <2>5. Log = [m \in 1 .. Len(done) |-> LogEntry(done[m])]
    BY <2>3 DEF Log
  <2>6. Append(Log, LogEntry(e)) =
          [m \in 1 .. (Len(done) + 1) |->
             IF m = Len(done) + 1 THEN LogEntry(e) ELSE LogEntry(done[m])]
    <3>1. PICK l : l = LogEntry(e)
      OBVIOUS
    <3>2. PICK S : S = {LogEntry(done[m]) : m \in 1 .. Len(done)}
      OBVIOUS
    <3>3. Log \in Seq(S) /\ Len(Log) = Len(done)
      BY <2>3, <2>5, <3>2
    <3> HIDE DEF Log
    <3> QED BY <2>3, <2>5, <3>3
  <2>7. Log' = Append(Log, LogEntry(e))
    BY <2>3, <2>4, <2>6
  <2> QED BY <2>1, <2>7
<1>10. Offered' = Offered
  BY <1>2 DEF Offered
<1>11. Pipeline!Process(e)
  BY <1>2, <1>7, <1>8, <1>9, <1>10, PipelineVars
<1> QED BY <1>3, <1>11

\* The other steps move no packet into or out of the pipeline.
LEMMA OthersStutter ==
  ASSUME TypeInv, PacketConserved, [Next]_vars,
         feed' = feed, dropped' = dropped, done' = done,
         \A t \in Threads : /\ Busy(t)' <=> Busy(t)
                            /\ Busy(t) => wpkt'[t] = wpkt[t]
                            /\ queue'[t] \in {queue[t], WakeUp(queue[t])}
  PROVE  UNCHANGED Pipeline!vars
<1>1. \A t \in Threads, p \in Packets :
        p \in ToSet(queue'[t]) <=> p \in ToSet(queue[t])
  <2> TAKE t \in Threads
  <2>1. queue[t] \in Seq(Packets \cup {NoPacket}) /\ NoPacket \notin Packets
    BY PacketAssumption DEF TypeInv, TypeOK
  <2>2. ToSet(WakeUp(queue[t])) = ToSet(queue[t]) \cup {NoPacket}
    BY <2>1, SequenceElements DEF WakeUp
  <2> QED BY <2>1, <2>2
<1>2. Accepted' = Accepted
  BY <1>1 DEF Accepted, Queued, Processed
<1>3. Offered' = Offered
  BY DEF Offered
<1> QED BY <1>2, <1>3, LogUnchanged, PipelineStutters

\* The threads, the queues and the locks together behave as the pipeline does,
\* for any number of threads, any packets and any length of the list.
THEOREM ImplementsThePipeline == Spec => ImplementsPipeline
<1>1. Init => Pipeline!Init
  <2> SUFFICES ASSUME Init PROVE Pipeline!Init
    OBVIOUS
  <2>1. /\ feed = Feed /\ dropped = {} /\ done = <<>>
        /\ \A t \in Threads : queue[t] = <<>> /\ ~Busy(t)
    BY DEF Init, Busy
  <2>2. {p \in Packets : \E t \in Threads :
           p \in ToSet(queue[t]) \/ (Busy(t) /\ wpkt[t] = p)} = {}
    BY <2>1 DEF ToSet
  <2>3. [i \in DOMAIN done |-> LogEntry(done[i])] = <<>>
    BY <2>1
  <2>4. \A s : Pipeline!ToSet(s) = ToSet(s)
    BY PipelineOperators
  <2> QED BY <2>1, <2>2, <2>3, <2>4 DEF Pipeline!Init
<1>2. /\ TypeInv /\ PacketConserved /\ OrderInv /\ PipelineInv
      /\ [Next]_vars
      => [Pipeline!Next]_(Pipeline!vars)
  <2> SUFFICES ASSUME TypeInv, PacketConserved, OrderInv, PipelineInv,
                      [Next]_vars
               PROVE  Pipeline!Next \/ UNCHANGED Pipeline!vars
    OBVIOUS
  <2>1. ASSUME NEW c \in Producers, ProducerStep(c)
        PROVE  Pipeline!Next \/ UNCHANGED Pipeline!vars
    BY <2>1, ProducerImplements
  <2>2. ASSUME NEW t \in Threads, ThreadStep(t)
        PROVE  Pipeline!Next \/ UNCHANGED Pipeline!vars
    <3>1. DOMAIN wpc = Threads /\ DOMAIN wpkt = Threads
      BY DEF TypeInv, TypeOK
    <3>2. CASE LoopTop(t)
      BY <3>1, <3>2, OthersStutter DEF LoopTop, Goto, Busy, producerVars
    <3>3. CASE LockPacket(t)
      BY <3>1, <3>3, OthersStutter DEF LockPacket, Goto, Busy, producerVars
    <3>4. CASE LockPackNo(t)
      BY <3>1, <3>4, OthersStutter DEF LockPackNo, Goto, Busy, producerVars
    <3>5. CASE Dedupe(t)
      BY <3>1, <3>5, OthersStutter DEF Dedupe, Goto, Busy, producerVars
    <3>6. CASE Finish(t)
      BY <3>1, <3>6, OthersStutter DEF Finish, Goto, Busy, producerVars
    <3>7. CASE Dequeue(t)
      BY <3>7, DequeueStutters
    <3>8. CASE RunChains(t)
      BY <3>8, RunChainsImplements DEF Pipeline!Next
    <3> QED
      BY <2>2, <3>2, <3>3, <3>4, <3>5, <3>6, <3>7, <3>8 DEF ThreadStep
  <2>3. CASE Spindown
    BY <2>3, OthersStutter DEF Spindown, Busy, producerVars
  <2>4. CASE BeginDestroy \/ Join \/ UseDeleted
    BY <2>4, OthersStutter DEF BeginDestroy, Join, UseDeleted,
                               Unchanged_Destroy, Busy, producerVars
  <2>5. CASE SendNull
    <3>1. DOMAIN queue = Threads
      BY DEF TypeInv, TypeOK
    <3> QED BY <2>5, <3>1, OthersStutter
               DEF SendNull, Unchanged_Destroy, Busy, producerVars
  <2>6. CASE UNCHANGED vars
    BY <2>6, OthersStutter DEF vars, producerVars, Busy
  <2> QED BY <2>1, <2>2, <2>3, <2>4, <2>5, <2>6 DEF Next
<1> QED
  BY <1>1, <1>2, TypeCorrect, PacketsConserved, OrderIsKept, PipelineIsKept, PTL
     DEF Spec, ImplementsPipeline, Pipeline!Spec
=============================================================================
