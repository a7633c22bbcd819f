------------------------- MODULE DeviceTrackerProofs -------------------------
(***************************************************************************)
(* Proofs about DeviceTracker, for any keys, sources, limits and bounds.    *)
(***************************************************************************)
EXTENDS DeviceTracker, TLAPS, SequenceTheorems, FiniteSetTheorems

Devices == [key : Keys, last : 0 .. MaxTime, seen : SUBSET Sources]

Recorded ==
    /\ objects \in Seq(Devices) /\ Slots \subseteq 1 .. MaxObjects
    /\ removed \subseteq Slots /\ pending \subseteq Slots
    /\ views \subseteq Views /\ now \in 0 .. MaxTime /\ up \in BOOLEAN
    /\ tracked_map \in [Keys -> Slots \cup {0}]

Shown ==
    /\ presence \in [Views -> SUBSET Keys]
    /\ device_list \in [Views -> [1 .. MaxObjects -> Nat]]

\* The tables agree: the last two conjuncts of TypeOK.
Mapped ==
    /\ tracked_mac = Alive
    /\ \A k \in Keys : {i \in Alive : objects[i].key = k} =
                         IF tracked_map[k] = 0 THEN {} ELSE {tracked_map[k]}

\* The inductive invariant.  That a key has one live object is what keeps a
\* view that forgets the key of one from losing another.
IInv == Recorded /\ Shown /\ Mapped /\ AcceptedIsShown /\ PresenceIsListed

\* What TypeOK says of the tables follows from the invariant.
LEMMA IInvTyped == IInv => TypeOK
  BY DEF IInv, Recorded, Shown, Mapped, TypeOK, Devices

\* The slots of the vector are its first numbers, each with its device.
LEMMA SlotsOfObjects ==
    ASSUME objects \in Seq(Devices)
    PROVE  /\ Len(objects) \in Nat /\ Slots = 1 .. Len(objects)
           /\ objects \in [Slots -> Devices]
  BY LenProperties DEF Slots

\* The tracker starts without devices, with the view of all of them.
LEMMA InitIInv == Init => IInv
  <1> SUFFICES ASSUME Init PROVE IInv
    OBVIOUS
  <1>1. objects \in Seq(Devices) /\ Slots = {}
    BY EmptySeq DEF Init, Slots
  <1>2. Recorded
    BY <1>1, DeviceAssumption DEF Init, Recorded, Views
  <1>3. Shown
    BY DEF Init, Shown
  <1>4. Mapped
    BY <1>1 DEF Init, Mapped, Alive
  <1>5. AcceptedIsShown /\ PresenceIsListed
    BY <1>1 DEF Init, AcceptedIsShown, PresenceIsListed, Alive
  <1> QED BY <1>2, <1>3, <1>4, <1>5 DEF IInv

-----------------------------------------------------------------------------
(* The views, while the objects stay as they are. *)

\* new_device adds to a view's list and takes nothing from it.
LEMMA ListCounts ==
    ASSUME Shown, NEW v \in Views, NEW S
    PROVE  /\ List(v, S) \in [1 .. MaxObjects -> Nat]
           /\ \A i \in 1 .. MaxObjects : device_list[v][i] > 0 => List(v, S)[i] > 0
           /\ \A i \in (1 .. MaxObjects) \cap S : List(v, S)[i] > 0
  <1> DEFINE L == device_list[v]
  <1>1. L \in [1 .. MaxObjects -> Nat]
    BY DEF Shown
  <1>2. \A i \in 1 .. MaxObjects : List(v, S)[i] = L[i] + (IF i \in S THEN 1 ELSE 0)
    BY DEF List
  <1> HIDE DEF L
  <1>3. \A i \in 1 .. MaxObjects : List(v, S)[i] \in Nat
    BY <1>1, <1>2
  <1>4. List(v, S) = [i \in 1 .. MaxObjects |-> List(v, S)[i]]
    BY DEF List
  <1>5. List(v, S) \in [1 .. MaxObjects -> Nat]
    BY <1>3, <1>4
  <1>6. \A i \in 1 .. MaxObjects : L[i] > 0 => List(v, S)[i] > 0
    BY <1>1, <1>2
  <1>7. \A i \in (1 .. MaxObjects) \cap S : List(v, S)[i] > 0
    BY <1>1, <1>2
  <1> QED BY <1>5, <1>6, <1>7 DEF L

\* remove_device takes from a view's list only the slots it is given.
LEMMA UnlistCounts ==
    ASSUME Shown, NEW v \in Views, NEW S
    PROVE  /\ Unlist(v, S) \in [1 .. MaxObjects -> Nat]
           /\ \A i \in (1 .. MaxObjects) \ S : Unlist(v, S)[i] = device_list[v][i]
  <1> DEFINE L == device_list[v]
  <1>1. L \in [1 .. MaxObjects -> Nat]
    BY DEF Shown
  <1>2. \A i \in 1 .. MaxObjects :
          Unlist(v, S)[i] = IF i \in S /\ L[i] > 0 THEN L[i] - 1 ELSE L[i]
    BY DEF Unlist
  <1>3. Unlist(v, S) = [i \in 1 .. MaxObjects |-> Unlist(v, S)[i]]
    BY DEF Unlist
  <1> HIDE DEF L
  <1>4. \A i \in 1 .. MaxObjects : Unlist(v, S)[i] \in Nat
    BY <1>1, <1>2
  <1>5. \A i \in (1 .. MaxObjects) \ S : Unlist(v, S)[i] = L[i]
    BY <1>2
  <1> QED BY <1>3, <1>4, <1>5 DEF L

\* new_device: no view loses a key, those called accept theirs, and each key
\* still has an object in the list.
LEMMA NewDeviceShown ==
    ASSUME IInv, NEW V, NEW S \in SUBSET Slots, new_device(V, S), objects' = objects
    PROVE  /\ Shown' /\ PresenceIsListed'
           /\ \A v \in Views : presence[v] \subseteq presence'[v]
           /\ \A v \in V \cap Views, i \in S :
                Accepts(v, objects[i]) => objects[i].key \in presence'[v]
  <1> DEFINE N(v) == {i \in S : v \in V /\ Accepts(v, objects[i])
                                  /\ objects[i].key \notin presence[v]}
  <1>1. /\ device_list' = [v \in Views |-> List(v, N(v))]
        /\ presence' = [v \in Views |-> presence[v] \cup {objects[i].key : i \in N(v)}]
    BY DEF new_device
  <1>2. \A i \in Slots : objects[i].key \in Keys
    BY SlotsOfObjects DEF IInv, Recorded, Devices
  <1>3. Slots \subseteq 1 .. MaxObjects /\ Shown /\ PresenceIsListed /\ Slots' = Slots
    BY DEF IInv, Recorded, Slots
  <1>4. \A v \in Views : /\ presence'[v] = presence[v] \cup {objects[i].key : i \in N(v)}
                         /\ device_list'[v] = List(v, N(v))
    BY <1>1
  <1>5. \A v \in Views : N(v) \subseteq S
    OBVIOUS
  <1>6. \A v \in V \cap Views, i \in S :
          Accepts(v, objects[i]) => objects[i].key \in presence'[v]
    BY <1>4
  <1> HIDE DEF N
  <1>7. presence' \in [Views -> SUBSET Keys]
    BY <1>1, <1>2, <1>3, <1>5 DEF Shown
  <1>8. device_list' \in [Views -> [1 .. MaxObjects -> Nat]]
    BY <1>1, <1>3, ListCounts
  <1>9. ASSUME NEW v \in Views, NEW k \in presence'[v]
        PROVE  \E i \in Slots : objects[i].key = k /\ device_list'[v][i] > 0
    <2>1. CASE k \in presence[v]
      <3>1. PICK i \in Slots : objects[i].key = k /\ device_list[v][i] > 0
        BY <1>3, <2>1 DEF PresenceIsListed
      <3> QED BY <3>1, <1>3, <1>4, ListCounts
    <2>2. CASE \E i \in N(v) : k = objects[i].key
      <3>1. PICK i \in N(v) : k = objects[i].key
        BY <2>2
      <3>2. i \in Slots /\ i \in 1 .. MaxObjects
        BY <3>1, <1>3, <1>5
      <3>3. List(v, N(v))[i] > 0
        BY <3>1, <3>2, <1>3, ListCounts
      <3> QED BY <3>1, <3>2, <3>3, <1>4
    <2> QED BY <1>4, <1>9, <2>1, <2>2
  <1> QED BY <1>3, <1>4, <1>6, <1>7, <1>8, <1>9 DEF Shown, PresenceIsListed

\* remove_device: a view loses only the keys of the objects removed, and each
\* key left still has an object in the list.
LEMMA RemoveDeviceShown ==
    ASSUME IInv, NEW S \in SUBSET Slots, remove_device(S), objects' = objects
    PROVE  /\ Shown' /\ PresenceIsListed'
           /\ \A v \in Views : \A k \in presence[v] :
                (\A i \in S : objects[i].key # k) => k \in presence'[v]
  <1> DEFINE G(v) == {i \in S : v \in views /\ objects[i].key \in presence[v]}
  <1>1. /\ device_list' = [v \in Views |-> Unlist(v, G(v))]
        /\ presence' = [v \in Views |-> presence[v] \ {objects[i].key : i \in G(v)}]
    BY DEF remove_device
  <1>2. Slots \subseteq 1 .. MaxObjects /\ Shown /\ PresenceIsListed /\ Slots' = Slots
    BY DEF IInv, Recorded, Slots
  <1>3. \A v \in Views : /\ presence'[v] = presence[v] \ {objects[i].key : i \in G(v)}
                         /\ device_list'[v] = Unlist(v, G(v))
    BY <1>1
  <1>4. \A v \in Views : G(v) \subseteq S
    OBVIOUS
  <1> HIDE DEF G
  <1>5. presence' \in [Views -> SUBSET Keys]
    BY <1>1, <1>2 DEF Shown
  <1>6. device_list' \in [Views -> [1 .. MaxObjects -> Nat]]
    BY <1>1, <1>2, UnlistCounts
  <1>7. ASSUME NEW v \in Views, NEW k \in presence'[v]
        PROVE  \E i \in Slots : objects[i].key = k /\ device_list'[v][i] > 0
    <2>1. k \in presence[v] /\ \A i \in G(v) : objects[i].key # k
      BY <1>3, <1>7
    <2>2. PICK i \in Slots : objects[i].key = k /\ device_list[v][i] > 0
      BY <1>2, <2>1 DEF PresenceIsListed
    <2> QED BY <1>2, <1>3, <2>1, <2>2, UnlistCounts
  <1>8. \A v \in Views : \A k \in presence[v] :
          (\A i \in S : objects[i].key # k) => k \in presence'[v]
    BY <1>3, <1>4
  <1> QED BY <1>2, <1>5, <1>6, <1>7, <1>8 DEF Shown, PresenceIsListed

-----------------------------------------------------------------------------
(* A packet.  Slot i is the device's, new or old, and p its new record. *)

Slot(k) == IF tracked_map[k] = 0 THEN Len(objects) + 1 ELSE tracked_map[k]

\* update_common_device finds or makes the one live object of its key, and
\* only that object changes.
LEMMA UpdateRecords ==
    ASSUME IInv, NEW k \in Keys, NEW s \in Sources, NEW ts \in 0 .. now,
           NEW seenby \in BOOLEAN, Update(k, s, ts, seenby)
    PROVE  /\ Recorded' /\ Mapped'
           /\ Slots' = Slots \cup {Slot(k)} /\ objects'[Slot(k)].key = k
           /\ \A j \in Slots : objects'[j].key = objects[j].key
           /\ \A j \in Slots \ {Slot(k)} : objects'[j] = objects[j]
           /\ Slot(k) \in Slots /\ ~seenby => objects'[Slot(k)].seen = objects[Slot(k)].seen
           /\ Slot(k) \notin Slots => Slot(k) \in pending'
           /\ \A j \in Alive \ {Slot(k)} : objects[j].key # k
           /\ pending \subseteq pending' /\ views' = views /\ removed' = removed
           /\ IF seenby THEN update_device(Slot(k), objects'[Slot(k)]) ELSE UNCHANGED shown
  <1> DEFINE i == Slot(k)
             o == IF tracked_map[k] = 0 THEN [key |-> k, last |-> ts, seen |-> {}]
                                        ELSE objects[i]
             p == [o EXCEPT !.last = IF @ < ts THEN ts ELSE @,
                            !.seen = IF seenby THEN @ \cup {s} ELSE @]
  <1>1. /\ i <= MaxObjects
        /\ objects' = [j \in Slots \cup {i} |-> IF j = i THEN p ELSE objects[j]]
        /\ tracked_map' = [tracked_map EXCEPT ![k] = i]
        /\ tracked_mac' = tracked_mac \cup {i}
        /\ pending' = IF tracked_map[k] = 0 THEN pending \cup {i} ELSE pending
        /\ UNCHANGED <<removed, views, now, up>>
    BY DEF Update, Slot
  <1>2. /\ Len(objects) \in Nat /\ Slots = 1 .. Len(objects)
        /\ objects \in [Slots -> Devices]
    BY SlotsOfObjects DEF IInv, Recorded
  <1>3. Recorded /\ Mapped
    BY DEF IInv
  <1>4. tracked_map[k] \in Slots \cup {0} /\ 0 \notin Slots
    BY <1>2, <1>3 DEF Recorded
  <1>5. tracked_map[k] = 0 => i = Len(objects) + 1 /\ i \notin Slots /\
                              \A j \in Alive : objects[j].key # k
    BY <1>2, <1>3 DEF Mapped, Slot
  <1>6. tracked_map[k] # 0 => /\ i \in Alive /\ i \in Slots /\ objects[i].key = k
                              /\ \A j \in Alive : objects[j].key = k => j = i
    <2>1. CASE tracked_map[k] # 0
      <3>1. {j \in Alive : objects[j].key = k} = {i}
        BY <1>3, <2>1 DEF Mapped, Slot
      <3> QED BY <3>1 DEF Alive
    <2> QED BY <2>1
  <1>7. o \in Devices /\ o.key = k
    <2>1. CASE tracked_map[k] = 0
      <3>1. ts \in 0 .. MaxTime
        BY <1>3, DeviceAssumption DEF Recorded
      <3> QED BY <2>1, <3>1 DEF Devices
    <2>2. CASE tracked_map[k] # 0
      BY <1>2, <1>6, <2>2
    <2> QED BY <2>1, <2>2
  <1>8. p \in Devices /\ p.key = k /\ (~seenby => p.seen = o.seen)
    <2>1. ts \in 0 .. MaxTime
      BY <1>3, DeviceAssumption DEF Recorded
    <2> HIDE DEF o
    <2> QED BY <1>7, <2>1 DEF Devices
  <1>9. Slots' = Slots \cup {i}
    BY <1>1 DEF Slots
  <1>10. /\ objects'[i] = p
         /\ \A j \in Slots \ {i} : objects'[j] = objects[j]
    <2> HIDE DEF p, i
    <2> QED BY <1>1
  <1>11. objects' \in Seq(Devices) /\ Slots' \subseteq 1 .. MaxObjects
    <2>1. PICK n \in Nat : Slots' = 1 .. n
      BY <1>2, <1>4, <1>5, <1>6, <1>9
    <2>2. objects' \in [Slots' -> Devices]
      <3> HIDE DEF p, i
      <3> QED BY <1>1, <1>2, <1>8, <1>9
    <2>3. objects' \in Seq(Devices)
      BY <2>1, <2>2, SeqDef
    <2>4. i \in 1 .. MaxObjects
      BY <1>1, <1>2, <1>5, <1>6, DeviceAssumption
    <2> QED BY <1>3, <1>9, <2>3, <2>4 DEF Recorded
  <1>12. \A j \in Slots : objects'[j].key = objects[j].key
    BY <1>5, <1>6, <1>8, <1>10
  <1>13. tracked_map' \in [Keys -> Slots' \cup {0}] /\ tracked_map'[k] = i
    BY <1>1, <1>3, <1>9 DEF Recorded
  <1>14. Recorded'
    BY <1>1, <1>3, <1>9, <1>11, <1>13, DeviceAssumption DEF Recorded, Views
  <1>15. i \notin removed
    BY <1>3, <1>5, <1>6 DEF Recorded, Alive
  <1>16. Alive' = Alive \cup {i}
    BY <1>1, <1>9, <1>15 DEF Alive
  <1>17. /\ objects'[i].key = k /\ i \in Alive'
         /\ \A j \in Alive : objects'[j].key = objects[j].key
         /\ \A j \in Alive \ {i} : objects[j].key # k
         /\ i \in Alive => objects[i].key = k
    BY <1>5, <1>6, <1>8, <1>10, <1>12, <1>16 DEF Alive
  <1>18. \A m \in Keys : {j \in Alive' : objects'[j].key = m} =
                           IF tracked_map'[m] = 0 THEN {} ELSE {tracked_map'[m]}
    <2> TAKE m \in Keys
    <2>1. CASE m = k
      <3>1. {j \in Alive' : objects'[j].key = k} = {i}
        <4> HIDE DEF i, p
        <4> QED BY <1>16, <1>17
      <3>2. i # 0
        BY <1>2, <1>4, <1>5, <1>6
      <3> QED BY <1>13, <2>1, <3>1, <3>2
    <2>2. CASE m # k
      <3>1. {j \in Alive' : objects'[j].key = m} = {j \in Alive : objects[j].key = m}
        <4> HIDE DEF i, p
        <4> QED BY <1>16, <1>17, <2>2
      <3>2. tracked_map'[m] = tracked_map[m]
        BY <1>1, <1>3, <2>2 DEF Recorded
      <3> QED BY <1>3, <3>1, <3>2 DEF Mapped
    <2> QED BY <2>1, <2>2
  <1>19. Mapped'
    BY <1>1, <1>3, <1>16, <1>18 DEF Mapped
  <1>20. i \in Slots /\ ~seenby => objects'[i].seen = objects[i].seen
    BY <1>5, <1>8, <1>10
  <1>21. i \notin Slots => i \in pending'
    BY <1>1, <1>6
  <1>22. IF seenby THEN update_device(i, objects'[i]) ELSE UNCHANGED shown
    <2>1. IF seenby THEN update_device(i, p) ELSE UNCHANGED shown
      BY DEF Update, Slot
    <2> HIDE DEF p, i
    <2> QED BY <1>10, <2>1
  <1> QED BY <1>1, <1>5, <1>6, <1>8, <1>9, <1>10, <1>12, <1>14, <1>19, <1>20, <1>21, <1>22

\* update_device: the views that accept the device show it, and those that drop
\* its key keep no other.
LEMMA UpdateShown ==
    ASSUME IInv, NEW k \in Keys, NEW s \in Sources, NEW ts \in 0 .. now,
           NEW seenby \in BOOLEAN, Update(k, s, ts, seenby)
    PROVE  Shown' /\ PresenceIsListed' /\ AcceptedIsShown'
  <1> DEFINE i == Slot(k)
             o == objects'[i]
             In  == {v \in views : Accepts(v, o) /\ o.key \notin presence[v]}
             Out == {v \in views : ~Accepts(v, o) /\ o.key \in presence[v]}
  <1>1. /\ Slots' = Slots \cup {i} /\ o.key = k
        /\ \A j \in Slots : objects'[j].key = objects[j].key
        /\ \A j \in Slots \ {i} : objects'[j] = objects[j]
        /\ i \in Slots /\ ~seenby => o.seen = objects[i].seen
        /\ i \notin Slots => i \in pending'
        /\ \A j \in Alive \ {i} : objects[j].key # k
        /\ pending \subseteq pending' /\ views' = views /\ removed' = removed
        /\ Slots' \subseteq 1 .. MaxObjects
    BY UpdateRecords DEF Recorded
  <1>2. IF seenby THEN update_device(i, o) ELSE UNCHANGED shown
    BY UpdateRecords
  <1>3. /\ Shown /\ AcceptedIsShown /\ PresenceIsListed
        /\ removed \subseteq Slots /\ views \subseteq Views
    BY DEF IInv, Recorded
  <1>4. \A j \in Alive' \ pending' : j \in Alive \ pending
    BY <1>1 DEF Alive
  <1>5. CASE ~seenby
    <2>1. presence' = presence /\ device_list' = device_list
      BY <1>2, <1>5 DEF shown
    <2>2. \A j \in Slots : objects'[j].seen = objects[j].seen
      BY <1>1, <1>5
    <2>3. Shown'
      BY <1>3, <2>1 DEF Shown, Views
    <2>4. PresenceIsListed'
      BY <1>1, <1>3, <2>1 DEF PresenceIsListed, Views
    <2>5. AcceptedIsShown'
      BY <1>1, <1>3, <1>4, <2>1, <2>2 DEF AcceptedIsShown, Accepts, Alive
    <2> QED BY <2>3, <2>4, <2>5
  <1>6. CASE seenby
    <2>1. /\ device_list' = [v \in Views |-> IF v \in In  THEN List(v, {i})
                                        ELSE IF v \in Out THEN Unlist(v, {i})
                                        ELSE device_list[v]]
          /\ presence' = [v \in Views |-> IF v \in In  THEN presence[v] \cup {o.key}
                                     ELSE IF v \in Out THEN presence[v] \ {o.key}
                                     ELSE presence[v]]
      BY <1>2, <1>6 DEF update_device
    <2>2. \A v \in In : v \in Views /\ v \notin Out
      BY <1>3
    <2>3. /\ \A v \in In : presence'[v] = presence[v] \cup {k} /\ device_list'[v] = List(v, {i})
          /\ \A v \in Out : presence'[v] = presence[v] \ {k} /\ device_list'[v] = Unlist(v, {i})
          /\ \A v \in Views \ (In \cup Out) :
               presence'[v] = presence[v] /\ device_list'[v] = device_list[v]
      <3> HIDE DEF In, Out, o
      <3>1. Out \subseteq Views
        BY <1>3 DEF Out
      <3> QED BY <1>1, <2>1, <2>2, <3>1
    <2>4. /\ \A v \in In : Accepts(v, o)
          /\ \A v \in Out : ~Accepts(v, o)
          /\ \A v \in views : Accepts(v, o) => k \in presence'[v]
      BY <1>1, <1>3, <2>3
    <2> HIDE DEF In, Out, o
    <2>5. Shown'
      <3>1. presence' \in [Views -> SUBSET Keys]
        BY <1>1, <1>3, <2>1 DEF Shown
      <3>2. device_list' \in [Views -> [1 .. MaxObjects -> Nat]]
        BY <1>3, <2>1, ListCounts, UnlistCounts DEF Shown
      <3> QED BY <3>1, <3>2 DEF Shown
    <2>6. ASSUME NEW v \in Views, NEW m \in presence'[v]
          PROVE  \E j \in Slots' : objects'[j].key = m /\ device_list'[v][j] > 0
      <3>1. CASE m \in presence[v] /\ ~(v \in Out)
        <4>1. PICK j \in Slots : objects[j].key = m /\ device_list[v][j] > 0
          BY <1>3, <3>1 DEF PresenceIsListed
        <4>2. device_list'[v][j] > 0
          BY <1>1, <1>3, <2>3, <3>1, <4>1, ListCounts
        <4> QED BY <1>1, <4>1, <4>2
      <3>2. CASE m \in presence[v] /\ v \in Out
        <4>1. PICK j \in Slots : objects[j].key = m /\ device_list[v][j] > 0
          BY <1>3, <3>2 DEF PresenceIsListed
        <4>2. m # k
          BY <2>3, <2>6, <3>2
        <4>3. j # i
          BY <1>1, <4>1, <4>2 DEF o
        <4> QED BY <1>1, <1>3, <2>3, <3>2, <4>1, <4>3, UnlistCounts
      <3>3. CASE m \notin presence[v]
        <4>1. v \in In /\ m = k
          BY <2>3, <2>6, <3>3
        <4> QED BY <1>1, <1>3, <2>3, <4>1, ListCounts DEF o
      <3> QED BY <3>1, <3>2, <3>3
    <2>7. PresenceIsListed'
      BY <2>6 DEF PresenceIsListed, Views
    <2>8. ASSUME NEW v \in views, NEW j \in Alive \ pending, Accepts(v, objects'[j])
          PROVE  objects'[j].key \in presence'[v]
      <3>1. j \in Slots /\ v \in Views
        BY <1>3 DEF Alive
      <3>2. CASE j = i
        BY <1>1, <2>4, <2>8, <3>2 DEF o
      <3>3. CASE j # i
        <4>1. objects[j].key \in presence[v] /\ objects[j].key # k
          BY <1>1, <1>3, <2>8, <3>1, <3>3 DEF AcceptedIsShown
        <4> QED BY <1>1, <2>3, <3>1, <4>1
      <3> QED BY <3>2, <3>3
    <2>9. AcceptedIsShown'
      BY <1>1, <1>4, <2>8 DEF AcceptedIsShown, Accepts
    <2> QED BY <2>5, <2>7, <2>9
  <1> QED BY <1>5, <1>6

-----------------------------------------------------------------------------
(* The event thread. *)

\* What leaves objects and tables as they are keeps them in agreement.
LEMMA SameRecords ==
    ASSUME IInv, UNCHANGED records, pending' \subseteq pending,
           views' \subseteq Views, now' \in 0 .. MaxTime, up' \in BOOLEAN
    PROVE  /\ Recorded' /\ Mapped' /\ objects' = objects
           /\ Slots' = Slots /\ Alive' = Alive
  <1>1. /\ objects' = objects /\ removed' = removed
        /\ tracked_map' = tracked_map /\ tracked_mac' = tracked_mac
    BY DEF records
  <1>2. Slots' = Slots /\ Alive' = Alive
    BY <1>1 DEF Slots, Alive
  <1>3. Recorded'
    BY <1>1, <1>2 DEF IInv, Recorded, Views
  <1>4. Mapped'
    BY <1>1, <1>2 DEF IInv, Mapped
  <1> QED BY <1>1, <1>2, <1>3, <1>4

\* handle_new_device_event lists the device it was called for, if it is alive,
\* and a view loses nothing.
LEMMA NewDeviceIInv ==
    ASSUME IInv, NEW i \in pending, NewDevice(i)
    PROVE  IInv'
  <1>1. /\ UNCHANGED records /\ pending' = pending \ {i} /\ new_device(views, {i})
        /\ views' = views /\ now' = now /\ up' = up
    BY DEF NewDevice
  <1>2. /\ Recorded /\ AcceptedIsShown /\ i \in Slots
        /\ views \subseteq Views
    BY DEF IInv, Recorded
  <1>3. /\ Recorded' /\ Mapped' /\ objects' = objects
        /\ Slots' = Slots /\ Alive' = Alive
    BY <1>1, <1>2, SameRecords DEF Recorded
  <1>4. /\ Shown' /\ PresenceIsListed'
        /\ \A v \in Views : presence[v] \subseteq presence'[v]
        /\ \A v \in views : Accepts(v, objects[i]) => objects[i].key \in presence'[v]
    BY <1>1, <1>2, <1>3, NewDeviceShown
  <1>5. ASSUME NEW v \in views, NEW j \in Alive \ (pending \ {i}),
               Accepts(v, objects[j])
        PROVE  objects[j].key \in presence'[v]
    BY <1>2, <1>4, <1>5 DEF AcceptedIsShown
  <1>6. AcceptedIsShown'
    BY <1>1, <1>3, <1>5 DEF AcceptedIsShown, Accepts
  <1> QED BY <1>3, <1>4, <1>6 DEF IInv

\* add_view fills the new view with all it accepts, and leaves the others.
LEMMA NewDatasourceIInv ==
    ASSUME IInv, NEW s \in Sources, NewDatasource(s)
    PROVE  IInv'
  <1>1. UNCHANGED records /\ pending' = pending /\ now' = now
    BY DEF NewDatasource
  <1>2. Recorded /\ Shown /\ AcceptedIsShown /\ PresenceIsListed /\ views \subseteq Views
    BY DEF IInv, Recorded
  <1>3. CASE removed = {}
    <2>1. new_device({s}, Slots) /\ views' = views \cup {s} /\ up' = up
      BY <1>3 DEF NewDatasource
    <2>2. /\ Recorded' /\ Mapped' /\ objects' = objects
          /\ Slots' = Slots /\ Alive' = Alive
      BY <1>1, <1>2, <2>1, SameRecords DEF Recorded, Views
    <2>3. /\ Shown' /\ PresenceIsListed'
          /\ \A v \in Views : presence[v] \subseteq presence'[v]
          /\ \A i \in Slots : Accepts(s, objects[i]) => objects[i].key \in presence'[s]
      BY <2>1, <2>2, NewDeviceShown DEF Views
    <2>4. ASSUME NEW v \in views \cup {s}, NEW j \in Alive \ pending,
                 Accepts(v, objects[j])
          PROVE  objects[j].key \in presence'[v]
      BY <1>2, <2>3, <2>4 DEF AcceptedIsShown, Alive
    <2>5. AcceptedIsShown'
      BY <1>1, <2>1, <2>2, <2>4 DEF AcceptedIsShown, Accepts
    <2> QED BY <2>2, <2>3, <2>5 DEF IInv
  <1>4. CASE removed # {}
    <2>1. up' = FALSE /\ views' = views /\ presence' = presence /\ device_list' = device_list
      BY <1>4 DEF NewDatasource, shown
    <2>2. /\ Recorded' /\ Mapped' /\ objects' = objects
          /\ Slots' = Slots /\ Alive' = Alive
      BY <1>1, <1>2, <2>1, SameRecords DEF Recorded
    <2>3. Shown' /\ PresenceIsListed' /\ AcceptedIsShown'
      BY <1>1, <1>2, <2>1, <2>2
         DEF Shown, PresenceIsListed, AcceptedIsShown, Accepts, Views
    <2> QED BY <2>2, <2>3 DEF IInv
  <1> QED BY <1>3, <1>4

-----------------------------------------------------------------------------
(* The timer thread. *)

\* The timers take live objects out of all tables at once; an object that
\* stays alive shares its key with none that goes.
LEMMA ForgetRecords ==
    ASSUME IInv, NEW S \in SUBSET Alive, Forget(S)
    PROVE  /\ Recorded' /\ Mapped' /\ objects' = objects /\ Slots' = Slots
           /\ Alive' = Alive \ S /\ pending' = pending /\ views' = views
           /\ \A i \in Alive', j \in S : objects[i].key # objects[j].key
  <1>1. /\ tracked_map' = [k \in Keys |-> IF \E i \in S : objects[i].key = k
                                            THEN 0 ELSE tracked_map[k]]
        /\ tracked_mac' = tracked_mac \ S
        /\ removed' = removed \cup S
        /\ objects' = objects /\ pending' = pending /\ views' = views
        /\ now' = now /\ up' = up
    BY DEF Forget
  <1>2. Recorded /\ Mapped
    BY DEF IInv
  <1>3. Slots' = Slots /\ Alive' = Alive \ S
    BY <1>1 DEF Slots, Alive
  <1>4. Recorded'
    <2>1. tracked_map' \in [Keys -> Slots \cup {0}] /\ removed' \subseteq Slots
      BY <1>1, <1>2 DEF Recorded, Alive
    <2> QED BY <1>1, <1>2, <1>3, <2>1 DEF Recorded, Views
  <1>5. \A i \in Slots : objects[i].key \in Keys
    BY <1>2, SlotsOfObjects DEF Recorded, Devices
  <1>6. ASSUME NEW k \in Keys, NEW i \in Alive, NEW j \in Alive,
               objects[i].key = k, objects[j].key = k
        PROVE  i = j
    <2>1. i \in {n \in Alive : objects[n].key = k} /\ j \in {n \in Alive : objects[n].key = k}
      BY <1>6
    <2> QED BY <1>2, <2>1 DEF Mapped
  <1>7. \A i \in Alive', j \in S : objects[i].key # objects[j].key
    BY <1>3, <1>5, <1>6 DEF Alive
  <1>8. ASSUME NEW k \in Keys
        PROVE  {i \in Alive' : objects'[i].key = k} =
                 IF tracked_map'[k] = 0 THEN {} ELSE {tracked_map'[k]}
    <2>1. CASE \E j \in S : objects[j].key = k
      <3>1. tracked_map'[k] = 0
        BY <1>1, <2>1
      <3> QED BY <1>1, <1>7, <2>1, <3>1
    <2>2. CASE \A j \in S : objects[j].key # k
      <3>1. tracked_map'[k] = tracked_map[k]
        BY <1>1, <2>2
      <3>2. {i \in Alive' : objects'[i].key = k} = {i \in Alive : objects[i].key = k}
        BY <1>1, <1>3, <2>2
      <3> QED BY <1>2, <3>1, <3>2 DEF Mapped
    <2> QED BY <2>1, <2>2
  <1>9. Mapped'
    BY <1>1, <1>2, <1>3, <1>8 DEF Mapped
  <1> QED BY <1>1, <1>3, <1>4, <1>7, <1>9

\* The idle timer takes a device out of the views with its object, and no
\* other device.
LEMMA IdleTimerIInv ==
    ASSUME IInv, IdleTimer
    PROVE  IInv'
  <1> DEFINE S == {i \in Alive : now - objects[i].last > Expiration}
  <1>1. Forget(S) /\ remove_device(S) /\ S \in SUBSET Alive
    BY DEF IdleTimer
  <1> HIDE DEF S
  <1>2. /\ Recorded' /\ Mapped' /\ objects' = objects /\ Slots' = Slots
        /\ Alive' = Alive \ S /\ pending' = pending /\ views' = views
        /\ \A i \in Alive', j \in S : objects[i].key # objects[j].key
    BY <1>1, ForgetRecords
  <1>3. /\ Shown' /\ PresenceIsListed'
        /\ \A v \in Views : \A k \in presence[v] :
             (\A i \in S : objects[i].key # k) => k \in presence'[v]
    BY <1>1, <1>2, RemoveDeviceShown DEF Alive
  <1>4. AcceptedIsShown /\ views \subseteq Views
    BY DEF IInv, Recorded
  <1>5. ASSUME NEW v \in views, NEW i \in Alive' \ pending, Accepts(v, objects[i])
        PROVE  objects[i].key \in presence'[v]
    <2>1. objects[i].key \in presence[v] /\ v \in Views
      BY <1>2, <1>4, <1>5 DEF AcceptedIsShown
    <2> QED BY <1>2, <1>3, <2>1
  <1>6. AcceptedIsShown'
    BY <1>2, <1>5 DEF AcceptedIsShown, Accepts
  <1> QED BY <1>2, <1>3, <1>6 DEF IInv

\* The purge leaves the views as they are: what they list may be dead, but no
\* key of theirs is without an object.
LEMMA MaxTimerIInv ==
    ASSUME IInv, MaxTimer
    PROVE  IInv'
  <1>1. presence' = presence /\ device_list' = device_list
    BY DEF MaxTimer, shown
  <1>2. PICK S \in SUBSET Slots :
          IF S \cap removed = {}
            THEN Forget(S)
            ELSE up' = FALSE /\ UNCHANGED <<records, pending, views, now>>
    BY DEF MaxTimer
  <1>3. Recorded /\ Shown /\ AcceptedIsShown /\ PresenceIsListed
    BY DEF IInv
  <1>4. /\ Recorded' /\ Mapped' /\ objects' = objects /\ Slots' = Slots
        /\ Alive' \subseteq Alive /\ pending' = pending /\ views' = views
    <2>1. CASE S \cap removed = {}
      <3>1. S \in SUBSET Alive
        BY <2>1 DEF Alive
      <3> QED BY <1>2, <2>1, <3>1, ForgetRecords
    <2>2. CASE S \cap removed # {}
      BY <1>2, <1>3, <2>2, SameRecords DEF Recorded
    <2> QED BY <2>1, <2>2
  <1>5. Shown' /\ PresenceIsListed' /\ AcceptedIsShown'
    BY <1>1, <1>3, <1>4 DEF Shown, PresenceIsListed, AcceptedIsShown, Accepts, Views
  <1> QED BY <1>4, <1>5 DEF IInv

-----------------------------------------------------------------------------
(* The theorems. *)

\* Every step keeps the tables and the views in agreement.
LEMMA NextIInv == IInv /\ [Next]_vars => IInv'
  <1> SUFFICES ASSUME IInv, [Next]_vars PROVE IInv'
    OBVIOUS
  <1>1. ASSUME NEW k \in Keys, NEW s \in Sources, NEW ts \in 0 .. now,
               NEW seenby \in BOOLEAN, Update(k, s, ts, seenby)
        PROVE  IInv'
    BY <1>1, UpdateRecords, UpdateShown DEF IInv
  <1>2. ASSUME NEW i \in pending, NewDevice(i) PROVE IInv'
    BY <1>2, NewDeviceIInv
  <1>3. ASSUME NEW s \in Sources, NewDatasource(s) PROVE IInv'
    BY <1>3, NewDatasourceIInv
  <1>4. ASSUME IdleTimer PROVE IInv'
    BY <1>4, IdleTimerIInv
  <1>5. ASSUME MaxTimer PROVE IInv'
    BY <1>5, MaxTimerIInv
  <1>6. CASE Tick \/ UNCHANGED vars
    <2>1. /\ UNCHANGED records /\ pending' = pending /\ views' = views /\ up' = up
          /\ presence' = presence /\ device_list' = device_list /\ now' \in 0 .. MaxTime
      <3>1. now \in 0 .. MaxTime /\ MaxTime \in Nat
        BY DeviceAssumption DEF IInv, Recorded
      <3> QED BY <1>6, <3>1 DEF Tick, vars, shown, records
    <2>2. Recorded /\ Shown /\ AcceptedIsShown /\ PresenceIsListed
      BY DEF IInv
    <2>3. /\ Recorded' /\ Mapped' /\ objects' = objects
          /\ Slots' = Slots /\ Alive' = Alive
      BY <2>1, <2>2, SameRecords DEF Recorded
    <2>4. Shown' /\ PresenceIsListed' /\ AcceptedIsShown'
      BY <2>1, <2>2, <2>3 DEF Shown, PresenceIsListed, AcceptedIsShown, Accepts, Views
    <2> QED BY <2>3, <2>4 DEF IInv
  <1> QED BY <1>1, <1>2, <1>3, <1>4, <1>5, <1>6 DEF Next

\* The invariant holds in every reachable state.
LEMMA AlwaysIInv == Spec => []IInv
  BY InitIInv, NextIInv, PTL DEF Spec

\* The map of the keys, the multimap of addresses and the vector hold the same
\* devices (update_common_device, timetracker_event).
THEOREM TypeCorrect == Spec => []TypeOK
  BY AlwaysIInv, IInvTyped, PTL

\* A device whose event was delivered is in each view that accepts it,
\* whichever of packet, event, new source and purge came first.
THEOREM AcceptedAreShown == Spec => []AcceptedIsShown
  <1>1. IInv => AcceptedIsShown
    BY DEF IInv
  <1> QED BY AlwaysIInv, <1>1, PTL

\* A view that holds a key back as present does list an object of that key
\* (device_tracker_view::new_device, update_device, remove_device).
THEOREM PresencesAreListed == Spec => []PresenceIsListed
  <1>1. IInv => PresenceIsListed
    BY DEF IInv
  <1> QED BY AlwaysIInv, <1>1, PTL

\* After the purge no more than tracker_max_devices devices are alive, or a null
\* slot has ended the server (timetracker_event).
THEOREM LimitIsHeld == Spec => LimitHeld
  <1>1. ASSUME IInv, MaxTimer, up' # FALSE
        PROVE  Cardinality(DOMAIN objects' \ removed') <= MaxDevices
    <2>1. PICK S \in SUBSET Slots : /\ Cardinality(S) = Len(objects) - MaxDevices
                                    /\ Forget(S)
      BY <1>1 DEF MaxTimer
    <2>2. Len(objects) \in Nat /\ Slots = 1 .. Len(objects)
      BY <1>1, SlotsOfObjects DEF IInv, Recorded
    <2>3. IsFiniteSet(Slots) /\ Cardinality(Slots) = Len(objects)
      <3>1. \A n \in Nat : IsFiniteSet(1 .. n) /\ Cardinality(1 .. n) = n
        BY FS_Interval
      <3> QED BY <2>2, <3>1
    <2>4. /\ IsFiniteSet(Slots \ S)
          /\ Cardinality(Slots \ S) = Cardinality(Slots) - Cardinality(Slots \cap S)
      BY <2>3, FS_Difference
    <2>5. Slots \cap S = S
      OBVIOUS
    <2>6. Cardinality(Slots \ S) = MaxDevices
      <3>1. Cardinality(Slots \ S) = Len(objects) - (Len(objects) - MaxDevices)
        BY <2>1, <2>3, <2>4, <2>5
      <3> QED BY <2>2, <3>1, DeviceAssumption
    <2>7. DOMAIN objects' \ removed' \subseteq Slots \ S
      BY <2>1 DEF Forget, Slots
    <2> QED BY <2>4, <2>6, <2>7, FS_Subset
  <1>2. IInv /\ [Next]_vars =>
          [MaxTimer => (~up' \/ Cardinality(DOMAIN objects' \ removed') <= MaxDevices)]_vars
    <2> SUFFICES ASSUME IInv, MaxTimer
                 PROVE  ~up' \/ Cardinality(DOMAIN objects' \ removed') <= MaxDevices
      OBVIOUS
    <2>1. CASE up' = FALSE
      BY <2>1
    <2>2. CASE up' # FALSE
      BY <1>1, <2>2
    <2> QED BY <2>1, <2>2
  <1> QED BY AlwaysIInv, <1>2, PTL DEF Spec, LimitHeld
=============================================================================
