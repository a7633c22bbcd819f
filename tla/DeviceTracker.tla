---------------------------- MODULE DeviceTracker ----------------------------
(***************************************************************************)
(* The devices that packets make known and the views that list them         *)
(* (devicetracker.cc, devicetracker_view.cc).  A device is known by its key; *)
(* the object made for it lives in a slot of immutable_tracked_vec, which    *)
(* is its number and is only ever set to null.  Packet threads create and    *)
(* update devices, two timers remove them - the idle ones, and those above   *)
(* tracker_max_devices -, and the event thread puts new ones in the views.   *)
(* All of it runs under devicelist_mutex, but a device may be removed         *)
(* between its packet and its NEW_DEVICE event.                               *)
(*                                                                         *)
(* There is the view of all devices and one per data source, of the devices *)
(* it has seen; it is added when the source is first merged, and never       *)
(* removed.  A read of a null slot ends the server.                          *)
(*                                                                         *)
(* Left out: what a device records, access points and other views, and the   *)
(* packet threshold of the idle timer (tracker_device_packets 0).            *)
(***************************************************************************)
EXTENDS Naturals, Sequences, FiniteSets

CONSTANTS
    Keys,           \* device keys
    Sources,        \* data sources, whose packets name them
    AllView,
    MaxDevices,     \* tracker_max_devices, 0 for none
    Expiration,     \* tracker_device_timeout
    MaxObjects, MaxTime     \* bounds of the runs

ASSUME DeviceAssumption ==
    /\ AllView \notin Sources
    /\ {MaxDevices, Expiration, MaxObjects, MaxTime} \subseteq Nat

VARIABLES
    objects,        \* every device object made, by slot
    removed,        \* slots set to null
    tracked_map,    \* slot of the device of each key, or 0
    tracked_mac,    \* slots in tracked_mac_multimap
    pending,        \* slots whose NEW_DEVICE event is not delivered
    views,          \* views added
    device_list,    \* of each view: how often it lists each slot
    presence,       \* of each view: keys in device_presence_map
    now,
    up              \* no null slot has been read

records == <<objects, removed, tracked_map, tracked_mac>>
shown   == <<device_list, presence>>
vars    == <<records, pending, views, shown, now, up>>

Views == Sources \cup {AllView}
Slots == DOMAIN objects
Alive == Slots \ removed

Init ==
    /\ objects = << >> /\ removed = {} /\ tracked_mac = {}
    /\ tracked_map = [k \in Keys |-> 0]
    /\ pending = {}
    /\ views = {AllView}
    /\ device_list = [v \in Views |-> [i \in 1 .. MaxObjects |-> 0]]
    /\ presence = [v \in Views |-> {}]
    /\ now = 0 /\ up = TRUE

\* The callbacks new_cb and update_cb of the views.
Accepts(v, o) == v = AllView \/ v \in o.seen

List(v, S)   == [i \in 1 .. MaxObjects |-> device_list[v][i] + (IF i \in S THEN 1 ELSE 0)]
Unlist(v, S) == [i \in 1 .. MaxObjects |->
                   IF i \in S /\ device_list[v][i] > 0 THEN device_list[v][i] - 1
                                                       ELSE device_list[v][i]]

\* device_tracker_view::new_device of the views in V, for the slots in S.
new_device(V, S) ==
    LET New(v) == {i \in S : v \in V /\ Accepts(v, objects[i])
                                     /\ objects[i].key \notin presence[v]} IN
    /\ device_list' = [v \in Views |-> List(v, New(v))]
    /\ presence' = [v \in Views |-> presence[v] \cup {objects[i].key : i \in New(v)}]

\* device_tracker_view::update_device of all views, for object o in slot i.
\* A view that does not accept it forgets its key, also if it was listed for
\* an earlier object of that key.
update_device(i, o) ==
    LET In  == {v \in views : Accepts(v, o) /\ o.key \notin presence[v]}
        Out == {v \in views : ~Accepts(v, o) /\ o.key \in presence[v]} IN
    /\ device_list' = [v \in Views |-> IF v \in In  THEN List(v, {i})
                                  ELSE IF v \in Out THEN Unlist(v, {i})
                                  ELSE device_list[v]]
    /\ presence' = [v \in Views |-> IF v \in In  THEN presence[v] \cup {o.key}
                               ELSE IF v \in Out THEN presence[v] \ {o.key}
                               ELSE presence[v]]

\* Mutant: the list forgets the device and the presence map does not.
remove_device_Present(S) ==
    LET Gone(v) == {i \in S : v \in views /\ objects[i].key \in presence[v]} IN
    /\ device_list' = [v \in Views |-> Unlist(v, Gone(v))]
    /\ presence' = presence

\* device_tracker_view::remove_device of all views, for the slots in S.
remove_device(S) ==
    LET Gone(v) == {i \in S : v \in views /\ objects[i].key \in presence[v]} IN
    /\ device_list' = [v \in Views |-> Unlist(v, Gone(v))]
    /\ presence' = [v \in Views |-> presence[v] \ {objects[i].key : i \in Gone(v)}]

-----------------------------------------------------------------------------
(* Packet threads. *)

\* update_common_device of a packet of source s and capture time ts, which of
\* a replayed file is in the past.  Some phys do not ask for UCD_UPDATE_SEENBY.
Update(k, s, ts, seenby) ==
    LET i == IF tracked_map[k] = 0 THEN Len(objects) + 1 ELSE tracked_map[k]
        o == IF tracked_map[k] = 0 THEN [key |-> k, last |-> ts, seen |-> {}] ELSE objects[i]
        p == [o EXCEPT !.last = IF @ < ts THEN ts ELSE @,
                       !.seen = IF seenby THEN @ \cup {s} ELSE @] IN
    /\ up /\ i <= MaxObjects
    /\ objects' = [j \in Slots \cup {i} |-> IF j = i THEN p ELSE objects[j]]
    /\ tracked_map' = [tracked_map EXCEPT ![k] = i]
    /\ tracked_mac' = tracked_mac \cup {i}
    /\ pending' = IF tracked_map[k] = 0 THEN pending \cup {i} ELSE pending
    /\ IF seenby THEN update_device(i, p) ELSE UNCHANGED shown
    /\ UNCHANGED <<removed, views, now, up>>

-----------------------------------------------------------------------------
(* The event thread. *)

\* NEW_DEVICE: the object may have been removed meanwhile.
NewDevice(i) ==
    /\ up /\ i \in pending
    /\ pending' = pending \ {i}
    /\ new_device(views, {i})
    /\ UNCHANGED <<records, views, now, up>>

\* Mutant: the view starts empty.
NewDatasource_Empty(s) ==
    /\ up /\ s \in Sources \ views
    /\ views' = views \cup {s}
    /\ UNCHANGED <<records, pending, shown, now, up>>

\* NEW_DATASOURCE: add_view gives the new view every slot of the vector.
NewDatasource(s) ==
    /\ up /\ s \in Sources \ views
    /\ IF removed = {}
         THEN new_device({s}, Slots) /\ views' = views \cup {s} /\ UNCHANGED up
         ELSE up' = FALSE /\ UNCHANGED <<views, shown>>
    /\ UNCHANGED <<records, pending, now>>

-----------------------------------------------------------------------------
(* The timer thread. *)

\* Mutant: the multimap keeps the devices.
Forget_KeepMac(S) ==
    /\ tracked_map' = [k \in Keys |-> IF \E i \in S : objects[i].key = k THEN 0
                                                                       ELSE tracked_map[k]]
    /\ removed' = removed \cup S
    /\ UNCHANGED <<objects, tracked_mac, pending, views, now, up>>

\* Mutant: the vector keeps the devices.
Forget_KeepSlot(S) ==
    /\ tracked_map' = [k \in Keys |-> IF \E i \in S : objects[i].key = k THEN 0
                                                                       ELSE tracked_map[k]]
    /\ tracked_mac' = tracked_mac \ S
    /\ UNCHANGED <<objects, removed, pending, views, now, up>>

Forget(S) ==
    /\ tracked_map' = [k \in Keys |-> IF \E i \in S : objects[i].key = k THEN 0
                                                                       ELSE tracked_map[k]]
    /\ tracked_mac' = tracked_mac \ S
    /\ removed' = removed \cup S
    /\ UNCHANGED <<objects, pending, views, now, up>>

IdleTimer ==
    LET Idle == {i \in Alive : now - objects[i].last > Expiration} IN
    /\ up /\ Idle # {}
    /\ Forget(Idle)
    /\ remove_device(Idle)

\* devicetracker_sort_lastseen, and stable_sort.
Before(i, j) == \/ objects[i].last < objects[j].last
                \/ objects[i].last = objects[j].last /\ i < j

\* All slots are sorted by the time they were last seen, and those after the
\* first MaxDevices dropped.  The comparison says of null that it comes before
\* and after everything: with a null slot the order is undefined.
MaxTimer ==
    /\ up /\ MaxDevices > 0 /\ Cardinality(Alive) > MaxDevices
    /\ \E S \in SUBSET Slots :
         /\ Cardinality(S) = Len(objects) - MaxDevices
         /\ removed = {} => \A i \in S, j \in Slots \ S : Before(j, i)
         /\ IF S \cap removed = {}
              THEN Forget(S)
              ELSE up' = FALSE /\ UNCHANGED <<records, pending, views, now>>
    /\ UNCHANGED shown

Tick ==
    /\ up /\ now < MaxTime
    /\ now' = now + 1
    /\ UNCHANGED <<records, pending, views, shown, up>>

Next ==
    \/ \E k \in Keys, s \in Sources, ts \in 0 .. now, seenby \in BOOLEAN :
         Update(k, s, ts, seenby)
    \/ \E i \in pending : NewDevice(i)
    \/ \E s \in Sources : NewDatasource(s)
    \/ IdleTimer \/ MaxTimer \/ Tick

Spec == Init /\ [][Next]_vars

-----------------------------------------------------------------------------
(* Properties. *)

\* The type invariant: the map of the keys, the multimap of addresses and the
\* vector hold the same devices, each in the slot that is its number.
TypeOK ==
    /\ objects \in Seq([key : Keys, last : 0 .. MaxTime, seen : SUBSET Sources])
    /\ removed \subseteq Slots /\ pending \subseteq Slots
    /\ views \subseteq Views /\ now \in 0 .. MaxTime /\ up \in BOOLEAN
    /\ presence \in [Views -> SUBSET Keys]
    /\ tracked_mac = Alive
    /\ \A k \in Keys : {i \in Alive : objects[i].key = k} =
                         IF tracked_map[k] = 0 THEN {} ELSE {tracked_map[k]}

\* kismet_memory.conf:52: after the timer ran there are at most
\* tracker_max_devices devices, however many slots are null.
LimitHeld ==
    [][MaxTimer => (~up' \/ Cardinality(DOMAIN objects' \ removed') <= MaxDevices)]_vars

\* A tracked device is in each view that accepts it once its event was
\* delivered, whichever of packet, event and new source came first; what is
\* listed may be an earlier object of its key.
AcceptedIsShown ==
    \A v \in views, i \in Alive \ pending :
      Accepts(v, objects[i]) => objects[i].key \in presence[v]

\* A view says of no key that it lists it when it does not: a device is never
\* kept out of a view by a key that nothing in the list has.
PresenceIsListed ==
    \A v \in Views : \A k \in presence[v] :
      \E i \in Slots : objects[i].key = k /\ device_list[v][i] > 0

\* kismet_memory.conf:52-53: "If this is reached, older devices will be
\* purged": the timer drops no device that was seen after one it keeps
\* (timetracker_event, devicetracker_sort_lastseen).
PurgesOlder ==
    [][MaxTimer /\ up' =>
         \A i \in removed' \ removed, j \in Slots \ removed' :
           objects[i].last <= objects[j].last]_vars

=============================================================================
