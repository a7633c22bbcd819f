------------------------- MODULE TimeTrackerProofs -------------------------
(***************************************************************************)
(* Proofs about TimeTracker for any timers, clock readings and number of   *)
(* worker slots: callbacks are serial, trigger times are right, a one-shot *)
(* timer runs at most twice, and the list and the map hold the same timers.*)
(***************************************************************************)
EXTENDS TimeTracker, FiniteSetTheorems, TLAPS

S == SERVER_TIMESLICES_SEC

-----------------------------------------------------------------------------
(* Arithmetic.                                                             *)

\* A second is a whole number of timeslices.
LEMMA SliceFacts ==
  /\ S \in Nat /\ S > 0 /\ SliceUsec \in Nat /\ S * SliceUsec = 1000000
<1>1. S \in Nat /\ S > 0 /\ 1000000 % S = 0
  <2>1. S \in Nat \ {0} /\ 1000000 % S = 0
    BY SliceAssumption, SMT DEF SliceAssumption, S
  <2> QED
    BY <2>1, SMT
<1>2. 1000000 = S * (1000000 \div S) + (1000000 % S) /\ 1000000 \div S \in Nat
  BY SMT, <1>1
<1>3. SliceUsec = 1000000 \div S
  BY SMT DEF SliceUsec, S
<1> QED
  BY SMT, <1>1, <1>2, <1>3

\* A number of timeslices as seconds and the rest.
LEMMA SplitSlices ==
  ASSUME NEW n \in Nat
  PROVE  /\ n \div S \in Nat /\ n % S \in Nat /\ n % S < S
         /\ n = S * (n \div S) + (n % S)
BY SMT, SliceFacts

\* A remainder of timeslices is less than a second.
LEMMA Product ==
  ASSUME NEW s \in Nat, NEW u \in Nat, NEW q \in Nat, NEW r \in Nat, r < s, s * u = 1000000
  PROVE  /\ (s * q + r) * u = q * 1000000 + r * u
         /\ r * u \in Nat /\ r * u <= 1000000
<1>1. (s * q + r) * u = q * (s * u) + r * u
  BY SMT
<1>2. r * u <= s * u /\ r * u \in Nat
  BY SMT
<1> QED
  BY SMT, <1>1, <1>2

\* The remainder of a time that is carried.
LEMMA CarryFacts ==
  ASSUME NEW x \in Nat, x >= 999999, x < 2000000
  PROVE  (x = 999999 /\ x % 1000000 = 999999) \/ x % 1000000 = x - 1000000
BY SMT

\* A trigger time is n timeslices later, or a second more.
LEMMA TriggerFacts ==
  ASSUME NEW tv \in TimeVal, NEW n \in Nat
  PROVE  /\ Trigger(tv, n).tv_usec < 1000000
         /\ Usec(Trigger(tv, n)) \in
              (Usec(tv) + n * SliceUsec) .. (Usec(tv) + n * SliceUsec + 1000000)
<1> DEFINE a == tv.tv_sec
           b == tv.tv_usec
           q == n \div S
           p == (n % S) * SliceUsec
           raw == [tv_sec |-> a + q, tv_usec |-> b + p]
<1>1. a \in Nat /\ b \in Nat /\ b <= 999999
  BY SMT DEF TimeVal
<1>2. /\ q \in Nat /\ p \in Nat /\ p <= 1000000
      /\ n * SliceUsec = q * 1000000 + p
  <2>1. /\ q \in Nat /\ n % S \in Nat /\ n % S < S /\ n = S * q + (n % S)
    BY SMT, SplitSlices
  <2>2. (S * q + (n % S)) * SliceUsec = q * 1000000 + p /\ p \in Nat /\ p <= 1000000
    BY SMT, <2>1, SliceFacts, Product
  <2> QED
    BY SMT, <2>1, <2>2
<1>3. Trigger(tv, n) = Carry(raw)
  BY SMT DEF Trigger, S
<1>4. Usec(tv) = a * 1000000 + b
  BY SMT DEF Usec
<1> HIDE DEF a, b, q, p
<1>5. CASE b + p < 999999
  <2>1. Carry(raw) = raw /\ raw.tv_usec = b + p /\ raw.tv_sec = a + q
    BY SMT, <1>1, <1>2, <1>5 DEF Carry
  <2>2. Usec(raw) = (a + q) * 1000000 + (b + p)
    BY SMT, <2>1 DEF Usec
  <2> QED
    BY SMT, <1>1, <1>2, <1>3, <1>4, <1>5, <2>1, <2>2
<1>6. CASE b + p >= 999999
  <2> DEFINE t == [tv_sec |-> a + q + 1, tv_usec |-> (b + p) % 1000000]
  <2>1. Carry(raw) = t
    BY SMT, <1>1, <1>2, <1>6 DEF Carry
  <2>2. /\ t.tv_sec = a + q + 1 /\ t.tv_usec = (b + p) % 1000000
        /\ Usec(t) = (a + q + 1) * 1000000 + ((b + p) % 1000000)
    BY SMT DEF Usec
  <2>3. \/ b + p = 999999 /\ (b + p) % 1000000 = 999999
        \/ (b + p) % 1000000 = b + p - 1000000
    BY SMT, <1>1, <1>2, <1>6, CarryFacts
  <2> HIDE DEF t
  <2> QED
    BY SMT, <1>1, <1>2, <1>3, <1>4, <1>6, <2>1, <2>2, <2>3
<1> QED
  BY SMT, <1>1, <1>2, <1>5, <1>6

-----------------------------------------------------------------------------
(* The invariant.                                                          *)

\* Only the first slot is ever used, and what was registered is scheduled.
Times ==
  /\ now \in 1 .. Len(Clock)
  /\ schedule_tm \in [Timers -> TimeVal] /\ DOMAIN trigger_tm = Timers
  /\ \A t \in Timers \ unused : trigger_tm[t] = Trigger(schedule_tm[t], Timeslices[t])
FirstSlot ==
  /\ DOMAIN worker = Slots
  /\ \A s \in Slots \ {0} : worker[s].pc = "done"

\* The clock has readings and the first slot exists.
LEMMA ConstantFacts ==
  /\ Clock \in Seq(TimeVal) /\ 1 \in 1 .. Len(Clock)
  /\ \A i \in 1 .. Len(Clock) : Clock[i] \in TimeVal
  /\ 0 \in Slots
  /\ \A t \in Timers : Timeslices[t] \in Nat
<1>1. Clock \in Seq(TimeVal) /\ Clock # <<>> /\ 0 \in Slots
  BY SMT, TimeAssumption DEF TimeAssumption
<1>2. 1 \in 1 .. Len(Clock) /\ \A i \in 1 .. Len(Clock) : Clock[i] \in TimeVal
  BY SMT, <1>1
<1>3. \A t \in Timers : Timeslices[t] \in Nat
  BY SMT, TimeAssumption DEF TimeAssumption
<1> QED
  BY <1>1, <1>2, <1>3

\* The invariant holds at the start,
LEMMA InitInv == Init => Times /\ FirstSlot
BY ConstantFacts, SMT DEF Init, Times, FirstSlot

\* A timer is scheduled: when it is registered, or again after it ran.
LEMMA ScheduleTimes ==
  ASSUME Times, NEW t, Schedule(t), unused' \in {unused, unused \ {t}}, UNCHANGED now
  PROVE  Times'
<1>1. Clock[now] \in TimeVal
  BY ConstantFacts, SMT DEF Times
<1>2. /\ schedule_tm' = [schedule_tm EXCEPT ![t] = Clock[now]]
      /\ trigger_tm' = [trigger_tm EXCEPT ![t] = Trigger(Clock[now], Timeslices[t])]
  BY SMT DEF Schedule
<1>3. schedule_tm' \in [Timers -> TimeVal] /\ DOMAIN trigger_tm' = Timers
  <2>1. schedule_tm' \in [Timers -> TimeVal]
    <3>1. schedule_tm \in [Timers -> TimeVal]
      BY DEF Times
    <3> QED
      BY <1>1, <1>2, <3>1
  <2>2. DOMAIN trigger_tm' = Timers
    <3>1. DOMAIN trigger_tm = Timers
      BY DEF Times
    <3> QED
      BY <1>2, <3>1
  <2> QED
    BY <2>1, <2>2
<1>4. ASSUME NEW u \in Timers \ unused'
      PROVE  trigger_tm'[u] = Trigger(schedule_tm'[u], Timeslices[u])
  <2>1. CASE u = t
    BY SMT, <1>2, <2>1 DEF Times
  <2>2. CASE u # t
    BY SMT, <1>2, <2>2 DEF Times
  <2> QED
    BY <2>1, <2>2
<1> QED
  BY SMT, <1>3, <1>4 DEF Times

\* is kept by every step,
LEMMA NextInv == Times /\ FirstSlot /\ [Next]_vars => (Times /\ FirstSlot)'
<1> SUFFICES ASSUME Times, FirstSlot, [Next]_vars PROVE (Times /\ FirstSlot)'
  OBVIOUS
<1>1. ASSUME NEW t \in Timers, register_timer(t) PROVE (Times /\ FirstSlot)'
  BY <1>1, ScheduleTimes, SMT DEF register_timer, FirstSlot
<1>2. ASSUME UNCHANGED <<now, unused, timeVars>> PROVE Times'
  BY <1>2, SMT DEF Times, timeVars
<1>3. ASSUME UNCHANGED worker PROVE FirstSlot'
  BY <1>3, SMT DEF FirstSlot
<1>4. ASSUME NEW t \in Timers, remove_timer(t) PROVE UNCHANGED <<now, unused, timeVars, worker>>
  BY <1>4, SMT DEF remove_timer, mapVars
<1>5. CASE Pass \/ Scan \/ Sweep \/ Exit \/ Spindown \/ UNCHANGED vars
  <2>1. UNCHANGED <<now, unused, timeVars, worker>>
    BY <1>5, SMT DEF Pass, Scan, Sweep, Exit, Spindown, vars, mapVars, timeVars
  <2> QED
    BY <1>2, <1>3, <2>1
<1>6. CASE Launch
  <2>1. UNCHANGED <<now, unused, timeVars>>
    BY <1>6, SMT DEF Launch, mapVars
  <2>2. FirstSlot'
    BY <1>6, ConstantFacts, SMT DEF Launch, FirstSlot, UsableSlot
  <2> QED
    BY <1>2, <2>1, <2>2
<1>7. ASSUME NEW s \in Slots, Return(s) PROVE (Times /\ FirstSlot)'
  <2>1. UNCHANGED <<now, unused, timeVars>>
    BY <1>7, SMT DEF Return, mapVars
  <2>2. s = 0
    BY <1>7, SMT DEF Return, FirstSlot
  <2>3. \/ worker' = [worker EXCEPT ![s].pc = "reschedule"]
        \/ worker' = [worker EXCEPT ![s].pc = "done"]
    BY <1>7, SMT DEF Return
  <2>4. FirstSlot'
    BY <2>2, <2>3, SMT DEF FirstSlot
  <2> QED
    BY <1>2, <2>1, <2>4
<1>8. ASSUME NEW s \in Slots, Reschedule(s) PROVE (Times /\ FirstSlot)'
  <2>1. Schedule(worker[s].evt) /\ UNCHANGED <<now, unused>>
    BY <1>8, SMT DEF Reschedule, mapVars
  <2>2. Times'
    BY <2>1, ScheduleTimes
  <2>3. s = 0
    BY <1>8, SMT DEF Reschedule, FirstSlot
  <2>4. worker' = [worker EXCEPT ![s].pc = "done"]
    BY <1>8, SMT DEF Reschedule
  <2>5. FirstSlot'
    BY <2>3, <2>4, SMT DEF FirstSlot
  <2> QED
    BY <2>2, <2>5
<1>9. CASE Tick
  <2>1. Times'
    BY <1>9, ConstantFacts, SMT DEF Tick, Times, timeVars, mapVars
  <2> QED
    BY <1>3, <1>9, <2>1 DEF Tick
<1> QED
  BY <1>1, <1>2, <1>3, <1>4, <1>5, <1>6, <1>7, <1>8, <1>9 DEF Next, Dispatcher, Worker

\* and so holds of every behaviour.
LEMMA Invariant == Spec => [](Times /\ FirstSlot)
BY InitInv, NextInv, PTL DEF Spec

-----------------------------------------------------------------------------
(* The theorems.                                                           *)

\* However many worker threads time_workers has, time_dispatcher only ever
\* starts one callback at a time (timetracker.cc:156-159).
THEOREM SerialCallbacks == Spec => []CallbacksSerial
<1>1. Times /\ FirstSlot => CallbacksSerial
  <2> SUFFICES ASSUME FirstSlot PROVE CallbacksSerial
    OBVIOUS
  <2>1. Running \subseteq {0}
    BY DEF FirstSlot, Running
  <2>2. Running = {} \/ Running = {0}
    BY <2>1
  <2>3. Cardinality({}) = 0 /\ Cardinality({0}) = 1
    BY FS_EmptySet, FS_Singleton
  <2> QED
    BY <2>2, <2>3, SMT DEF CallbacksSerial
<1> QED
  BY <1>1, Invariant, PTL

\* register_timer and the rescheduling of a callback's thread compute trigger
\* times that are not early, at most a second late and below a second in their
\* microseconds, from any reading of the clock and any number of timeslices.
THEOREM TriggersInTime == Spec => []TriggerInTime
<1>1. Times /\ FirstSlot => TriggerInTime
  <2> SUFFICES ASSUME Times, NEW t \in Timers \ unused
               PROVE  /\ trigger_tm[t].tv_usec < 1000000
                      /\ Usec(trigger_tm[t]) \in
                           (Usec(schedule_tm[t]) + Timeslices[t] * SliceUsec) ..
                             (Usec(schedule_tm[t]) + Timeslices[t] * SliceUsec + 1000000)
    BY SMT DEF TriggerInTime
  <2>1. schedule_tm[t] \in TimeVal /\ Timeslices[t] \in Nat
    BY SMT, ConstantFacts DEF Times
  <2>2. trigger_tm[t] = Trigger(schedule_tm[t], Timeslices[t])
    BY SMT DEF Times
  <2> QED
    BY SMT, <2>1, <2>2, TriggerFacts
<1> QED
  BY <1>1, Invariant, PTL

-----------------------------------------------------------------------------
(***************************************************************************)
(* How often a one-shot timer runs. The lists hold timers of the map, each *)
(* once, and the copy is only walked during a pass; a one-shot timer that  *)
(* was started is running, waits for the sweep, or has left the map. A     *)
(* second start joins the first run, so the sweep of its own pass finds    *)
(* the timer among those to be removed.                                    *)
(***************************************************************************)
NoRepeat(s) == \A i, j \in DOMAIN s : s[i] = s[j] => i = j
ListOf(s, set) == s \in Seq(set) /\ NoRepeat(s)
Lists ==
  /\ timer_map \subseteq Timers \ unused /\ IsFiniteSet(timer_map)
  /\ ListOf(sorted_timers, timer_map) /\ ListOf(action_timers, timer_map)
  /\ dpc \notin {"scan", "launch"} => action_timers = <<>>
  /\ dpc = "launch" => action_timers # <<>>

StartedOnce(t) ==
  \/ t \notin timer_map
  \/ t \in removed_timer_ids
  \/ worker[0].pc = "run" /\ worker[0].evt = t
StartedTwice(t) ==
  \/ t \notin timer_map
  \/ /\ t \in removed_timer_ids /\ t \notin ToSet(action_timers)
     /\ dpc \in {"scan", "launch", "sweep"}
Starts ==
  /\ starts \in [Timers -> 0 .. 3]
  /\ \A t \in Timers : starts[t] > 0 => t \notin unused
  /\ \A t \in OneShots : /\ starts[t] <= 2
                         /\ starts[t] = 1 => StartedOnce(t)
                         /\ starts[t] = 2 => StartedTwice(t)

\* A list of some timers is a list of more.
LEMMA LargerMap ==
  ASSUME NEW set, NEW more, set \subseteq more, NEW s, ListOf(s, set)
  PROVE  ListOf(s, more)
  BY DEF ListOf

\* The rest of a list lacks its head.
LEMMA RestOfList ==
  ASSUME NEW set, NEW s, ListOf(s, set), s # <<>>
  PROVE  /\ ListOf(Tail(s), set) /\ Head(s) \in set
         /\ ToSet(Tail(s)) = ToSet(s) \ {Head(s)}
<1>1. /\ s \in Seq(set) /\ Len(s) \in Nat /\ Len(s) > 0 /\ Head(s) = s[1]
      /\ DOMAIN s = 1 .. Len(s) /\ Tail(s) \in Seq(set)
      /\ DOMAIN Tail(s) = 1 .. (Len(s) - 1)
      /\ \A i \in 1 .. (Len(s) - 1) : Tail(s)[i] = s[i + 1]
  BY DEF ListOf
<1>2. \A i, j \in DOMAIN s : s[i] = s[j] => i = j
  BY DEF ListOf, NoRepeat
<1>3. NoRepeat(Tail(s))
  BY <1>1, <1>2 DEF NoRepeat
<1>4. \A x : x \in ToSet(s) <=> \E i \in 1 .. Len(s) : s[i] = x
  BY <1>1 DEF ToSet
<1>5. \A x : x \in ToSet(Tail(s)) <=> \E i \in 2 .. Len(s) : s[i] = x
  <2>1. \A x : x \in ToSet(Tail(s)) <=>
                 \E i \in 1 .. (Len(s) - 1) : Tail(s)[i] = x
    BY <1>1 DEF ToSet
  <2>2. \A i \in 2 .. Len(s) : i - 1 \in 1 .. (Len(s) - 1) /\ Tail(s)[i - 1] = s[i]
    BY <1>1
  <2>3. \A i \in 1 .. (Len(s) - 1) : i + 1 \in 2 .. Len(s) /\ Tail(s)[i] = s[i + 1]
    BY <1>1
  <2> QED BY <2>1, <2>2, <2>3
<1>6. \A x : x \in ToSet(Tail(s)) <=> x \in ToSet(s) /\ x # s[1]
  BY <1>1, <1>2, <1>4, <1>5
<1> QED BY <1>1, <1>3, <1>6 DEF ListOf

\* Sorting keeps the timers.
LEMMA SortedList ==
  ASSUME Lists, NEW s \in SortedOrders
  PROVE  ListOf(s, timer_map)
<1>1. CASE timer_sort_required
  <2>1. s \in SetToSeqs(timer_map)
    BY <1>1 DEF SortedOrders
  <2>2. Cardinality(timer_map) \in Nat
    BY FS_CardinalityType DEF Lists
  <2>3. /\ s \in [1 .. Cardinality(timer_map) -> timer_map]
        /\ \A i, j \in 1 .. Cardinality(timer_map) : i # j => s[i] # s[j]
    BY <2>1 DEF SetToSeqs
  <2> QED BY <2>2, <2>3 DEF ListOf, NoRepeat
<1>2. CASE ~timer_sort_required
  BY <1>2 DEF SortedOrders, Lists
<1> QED BY <1>1, <1>2

\* The sweep leaves a list of the timers that stay.
LEMMA SweptList ==
  ASSUME Lists, Sweep
  PROVE  ListOf(sorted_timers', timer_map')
<1> DEFINE kept == {i \in DOMAIN sorted_timers :
                      sorted_timers[i] \notin removed_timer_ids}
<1>1. PICK place \in SetToSeqs(kept) :
        sorted_timers' = [k \in DOMAIN place |-> sorted_timers[place[k]]]
  BY DEF Sweep
<1>2. /\ sorted_timers \in Seq(timer_map) /\ DOMAIN sorted_timers = 1 .. Len(sorted_timers)
      /\ \A i, j \in DOMAIN sorted_timers :
           sorted_timers[i] = sorted_timers[j] => i = j
      /\ \A i \in DOMAIN sorted_timers : sorted_timers[i] \in timer_map
      /\ timer_map' = timer_map \ removed_timer_ids
  BY DEF Lists, ListOf, NoRepeat, Sweep
<1>3. Cardinality(kept) \in Nat
  <2>1. Len(sorted_timers) \in Nat
    BY <1>2
  <2>2. IsFiniteSet(1 .. Len(sorted_timers)) /\ kept \subseteq 1 .. Len(sorted_timers)
    BY <1>2, <2>1, FS_Interval
  <2> QED BY <2>2, FS_Subset, FS_CardinalityType
<1>4. /\ place \in [1 .. Cardinality(kept) -> kept]
      /\ \A i, j \in 1 .. Cardinality(kept) : i # j => place[i] # place[j]
  BY <1>1 DEF SetToSeqs
<1>5. \A i \in kept : i \in DOMAIN sorted_timers /\ sorted_timers[i] \in timer_map'
  BY <1>2
<1> HIDE DEF kept
<1>6. DOMAIN place = 1 .. Cardinality(kept)
  BY <1>4
<1>7. sorted_timers' \in Seq(timer_map')
  <2>1. \A k \in 1 .. Cardinality(kept) : sorted_timers[place[k]] \in timer_map'
    BY <1>4, <1>5
  <2> QED BY <1>1, <1>3, <1>6, <2>1
<1>8. NoRepeat(sorted_timers')
  <2>1. /\ DOMAIN sorted_timers' = 1 .. Cardinality(kept)
        /\ \A k \in 1 .. Cardinality(kept) :
             sorted_timers'[k] = sorted_timers[place[k]] /\ place[k] \in kept
    BY <1>1, <1>4, <1>6
  <2> QED BY <1>2, <1>4, <1>5, <2>1 DEF NoRepeat
<1> QED BY <1>7, <1>8 DEF ListOf

\* Registration adds a timer that is in neither list.
LEMMA RegisteredList ==
  ASSUME Lists, NEW t \in Timers, register_timer(t)
  PROVE  ListOf(sorted_timers', timer_map')
<1>1. /\ timer_map' = timer_map \cup {t} /\ sorted_timers' = Append(sorted_timers, t)
      /\ t \notin timer_map
  BY DEF register_timer, Lists
<1>2. PICK s : s = sorted_timers
  OBVIOUS
<1>3. s \in Seq(timer_map) /\ \A i, j \in DOMAIN s : s[i] = s[j] => i = j
  BY <1>2 DEF Lists, ListOf, NoRepeat
<1>4. s \in Seq(timer_map') /\ t \in timer_map'
  BY <1>1, <1>3
<1>5. /\ Append(s, t) \in Seq(timer_map')
      /\ DOMAIN s = 1 .. Len(s) /\ Len(s) \in Nat
      /\ DOMAIN Append(s, t) = 1 .. (Len(s) + 1)
      /\ Append(s, t)[Len(s) + 1] = t
      /\ \A i \in 1 .. Len(s) : Append(s, t)[i] = s[i] /\ s[i] \in timer_map
  BY <1>3, <1>4
<1>6. NoRepeat(Append(s, t))
  <2> SUFFICES ASSUME NEW i \in 1 .. (Len(s) + 1), NEW j \in 1 .. (Len(s) + 1),
                      Append(s, t)[i] = Append(s, t)[j]
               PROVE  i = j
    BY <1>5 DEF NoRepeat
  <2>1. /\ i \in 1 .. Len(s) \/ i = Len(s) + 1
        /\ j \in 1 .. Len(s) \/ j = Len(s) + 1
    BY <1>5
  <2> QED BY <1>1, <1>3, <1>5, <2>1
<1> QED BY <1>1, <1>2, <1>5, <1>6 DEF ListOf

\* A step that leaves the map and the lists alone.
LEMMA ListsAlone ==
  ASSUME Lists, UNCHANGED <<unused, timer_map, sorted_timers, dpc, action_timers>>
  PROVE  Lists'
  BY DEF Lists, ListOf, NoRepeat

\* The dispatcher and the registration keep the lists as they should be.
LEMMA ListsKept ==
  ASSUME Lists, [Next]_vars
  PROVE  Lists'
<1>1. ASSUME NEW t \in Timers, register_timer(t) PROVE Lists'
  <2>1. /\ timer_map' = timer_map \cup {t} /\ unused' = unused \ {t} /\ t \in unused
        /\ dpc' = dpc /\ action_timers' = action_timers
    BY <1>1 DEF register_timer, passVars
  <2>2. timer_map' \subseteq Timers \ unused' /\ IsFiniteSet(timer_map')
    BY <2>1, FS_AddElement DEF Lists
  <2>3. ListOf(sorted_timers', timer_map')
    BY <1>1, RegisteredList
  <2>4. ListOf(action_timers, timer_map')
    BY <2>1, LargerMap DEF Lists
  <2> QED BY <2>1, <2>2, <2>3, <2>4 DEF Lists, ListOf, NoRepeat
<1>2. CASE Pass
  <2>1. PICK s \in SortedOrders : sorted_timers' = s /\ action_timers' = s
    BY <1>2 DEF Pass
  <2>2. ListOf(s, timer_map)
    BY SortedList
  <2>3. dpc' = "scan" /\ timer_map' = timer_map /\ unused' = unused
    BY <1>2 DEF Pass
  <2> QED BY <2>1, <2>2, <2>3 DEF Lists, ListOf, NoRepeat
<1>3. CASE Scan
  <2>1. UNCHANGED <<unused, timer_map, sorted_timers>>
    BY <1>3 DEF Scan, mapVars
  <2>2. \/ action_timers = <<>> /\ action_timers' = <<>> /\ dpc' = "sweep"
        \/ action_timers' = <<>> /\ dpc' = "sweep"
        \/ action_timers # <<>> /\ action_timers' = Tail(action_timers) /\ dpc' = "scan"
        \/ action_timers # <<>> /\ action_timers' = action_timers /\ dpc' = "launch"
    BY <1>3 DEF Scan, NextTimer
  <2>3. ListOf(<<>>, timer_map)
    BY DEF ListOf, NoRepeat
  <2>4. action_timers # <<>> => ListOf(Tail(action_timers), timer_map)
    BY RestOfList DEF Lists
  <2>5. ListOf(action_timers', timer_map)
    BY <2>2, <2>3, <2>4 DEF Lists
  <2> QED BY <2>1, <2>2, <2>5 DEF Lists, ListOf, NoRepeat
<1>4. CASE Launch
  <2>1. /\ UNCHANGED <<unused, timer_map, sorted_timers>> /\ dpc' = "scan"
        /\ action_timers' = Tail(action_timers) /\ action_timers # <<>>
    BY <1>4 DEF Launch, mapVars, NextTimer, Lists
  <2>2. ListOf(action_timers', timer_map)
    BY <2>1, RestOfList DEF Lists
  <2> QED BY <2>1, <2>2 DEF Lists, ListOf, NoRepeat
<1>5. CASE Sweep
  <2>1. /\ dpc = "sweep" /\ dpc' = "sleep" /\ unused' = unused
        /\ timer_map' = timer_map \ removed_timer_ids
        /\ action_timers' = action_timers
    BY <1>5 DEF Sweep
  <2>2. ListOf(sorted_timers', timer_map')
    BY <1>5, SweptList
  <2>3. timer_map' \subseteq Timers \ unused /\ IsFiniteSet(timer_map')
    BY <2>1, FS_Subset DEF Lists
  <2>4. action_timers = <<>>
    BY <2>1 DEF Lists
  <2>5. action_timers' = <<>> /\ ListOf(<<>>, timer_map')
    BY <2>1, <2>4 DEF ListOf, NoRepeat
  <2> QED BY <2>1, <2>2, <2>3, <2>5 DEF Lists, ListOf, NoRepeat
<1>6. CASE Exit
  BY <1>6 DEF Exit, mapVars, Lists, ListOf, NoRepeat
<1>7. ASSUME NEW t \in Timers, remove_timer(t) PROVE Lists'
  BY <1>7, ListsAlone DEF remove_timer, mapVars, passVars
<1>8. ASSUME NEW s \in Slots, Worker(s) PROVE Lists'
  BY <1>8, ListsAlone DEF Worker, Return, Reschedule, mapVars, passVars
<1>9. CASE Tick \/ Spindown \/ UNCHANGED vars
  BY <1>9, ListsAlone DEF Tick, Spindown, vars, mapVars, passVars
<1> QED
  BY <1>1, <1>2, <1>3, <1>4, <1>5, <1>6, <1>7, <1>8, <1>9 DEF Next, Dispatcher

\* A one-shot timer that is launched was not started, or was and is to be
\* removed: its first run has been joined.
LEMMA LaunchStarts ==
  ASSUME Lists, FirstSlot, Starts, Launch
  PROVE  Starts'
<1>1. PICK c : c = Current
  OBVIOUS
<1>2. /\ action_timers # <<>> /\ c = Head(action_timers)
      /\ dpc = "launch" /\ dpc' = "scan" /\ worker[0].pc = "done"
      /\ worker' = [worker EXCEPT ![0] = [pc |-> "run", evt |-> c]]
      /\ starts' = [starts EXCEPT ![c] = Bump(@)]
      /\ action_timers' = Tail(action_timers)
      /\ timer_map' = timer_map /\ unused' = unused
      /\ removed_timer_ids' = removed_timer_ids
  BY <1>1 DEF Launch, Lists, Current, NextTimer, UsableSlot, mapVars
<1>3. /\ c \in timer_map /\ c \in Timers /\ c \in ToSet(action_timers)
      /\ ToSet(action_timers') = ToSet(action_timers) \ {c}
  <2>1. action_timers \in Seq(timer_map)
    BY DEF Lists, ListOf
  <2>2. c \in timer_map /\ ToSet(action_timers') = ToSet(action_timers) \ {c}
    BY <1>2, RestOfList DEF Lists
  <2>3. 1 \in DOMAIN action_timers /\ c = action_timers[1]
    BY <1>2, <2>1
  <2> QED BY <2>2, <2>3 DEF Lists, ToSet
<1>4. /\ worker'[0].pc = "run" /\ worker'[0].evt = c
  BY <1>2, ConstantFacts DEF FirstSlot
<1>5. /\ \A t \in Timers : starts[t] \in 0 .. 3
      /\ starts' \in [Timers -> 0 .. 3]
      /\ starts'[c] = IF starts[c] < 3 THEN starts[c] + 1 ELSE starts[c]
      /\ \A t \in Timers : t # c => starts'[t] = starts[t]
  BY <1>2, <1>3 DEF Starts, Bump
<1>6. \A t \in Timers : starts'[t] > 0 => t \notin unused'
  <2>1. c \notin unused
    BY <1>3 DEF Lists
  <2> QED BY <1>2, <1>5, <2>1 DEF Starts
<1>7. ASSUME NEW t \in OneShots
      PROVE  /\ starts'[t] <= 2
             /\ starts'[t] = 1 => StartedOnce(t)'
             /\ starts'[t] = 2 => StartedTwice(t)'
  <2>1. t \in Timers
    BY TimeAssumption DEF TimeAssumption
  <2>2. CASE t = c
    <3>1. starts[t] # 2
      BY <1>2, <1>3, <2>2 DEF Starts, StartedTwice
    <3>2. starts[t] \in 0 .. 1
      BY <1>5, <2>1, <3>1 DEF Starts
    <3>3. starts[t] = 1 => t \in removed_timer_ids
      BY <1>2, <1>3, <2>2 DEF Starts, StartedOnce
    <3>4. StartedOnce(t)'
      BY <1>4, <2>2 DEF StartedOnce
    <3>5. starts[t] = 1 => StartedTwice(t)'
      BY <1>2, <1>3, <2>2, <3>3 DEF StartedTwice
    <3>6. starts'[t] = starts[t] + 1
      BY <1>5, <2>2, <3>2
    <3> QED BY <3>2, <3>4, <3>5, <3>6
  <2>3. CASE t # c
    <3>1. starts'[t] = starts[t]
      BY <1>5, <2>1, <2>3
    <3>2. StartedOnce(t) => StartedOnce(t)'
      BY <1>2 DEF StartedOnce
    <3>3. StartedTwice(t) => StartedTwice(t)'
      BY <1>2, <1>3 DEF StartedTwice
    <3> QED BY <3>1, <3>2, <3>3 DEF Starts
  <2> QED BY <2>2, <2>3
<1> QED BY <1>5, <1>6, <1>7 DEF Starts

\* Other steps start nothing, and keep what is said of the timers started.
LEMMA OthersStart ==
  ASSUME Starts, starts' = starts, unused' \subseteq unused,
         \A t \in OneShots : StartedOnce(t) => StartedOnce(t)',
         \A t \in OneShots : StartedTwice(t) => StartedTwice(t)'
  PROVE  Starts'
  BY DEF Starts

\* The same of a registration: the timer was not started.
LEMMA RegisterStarts ==
  ASSUME Lists, Starts, NEW u \in Timers, register_timer(u)
  PROVE  Starts'
<1>1. /\ starts' = starts /\ unused' = unused \ {u} /\ u \in unused
      /\ timer_map' = timer_map \cup {u}
      /\ UNCHANGED <<removed_timer_ids, worker, dpc, action_timers>>
  BY DEF register_timer, passVars
<1>2. \A t \in OneShots : t # u =>
        /\ StartedOnce(t) => StartedOnce(t)'
        /\ StartedTwice(t) => StartedTwice(t)'
  BY <1>1 DEF StartedOnce, StartedTwice
<1>3. starts[u] = 0
  BY <1>1 DEF Starts
<1> QED BY <1>1, <1>2, <1>3 DEF Starts

\* Every step keeps the count of starts within what was said of it.
LEMMA StartsKept ==
  ASSUME Lists, FirstSlot, Starts, [Next]_vars
  PROVE  Starts'
<1>1. ASSUME NEW t \in Timers, register_timer(t) PROVE Starts'
  BY <1>1, RegisterStarts
<1>2. ASSUME NEW t \in Timers, remove_timer(t) PROVE Starts'
  <2>1. /\ UNCHANGED <<starts, unused, timer_map, worker, dpc, action_timers>>
        /\ removed_timer_ids \subseteq removed_timer_ids'
    BY <1>2 DEF remove_timer, mapVars, passVars
  <2> QED BY <2>1, OthersStart DEF StartedOnce, StartedTwice
<1>3. CASE Pass
  <2>1. /\ UNCHANGED <<starts, unused, timer_map, worker, removed_timer_ids>>
        /\ dpc = "sleep"
    BY <1>3 DEF Pass
  <2> QED BY <2>1, OthersStart DEF StartedOnce, StartedTwice
<1>4. CASE Scan
  <2>1. /\ UNCHANGED <<starts, unused, timer_map, worker>>
        /\ removed_timer_ids \subseteq removed_timer_ids'
        /\ dpc' \in {"scan", "launch", "sweep"}
    BY <1>4 DEF Scan, mapVars
  <2>2. ToSet(action_timers') \subseteq ToSet(action_timers)
    <3>1. \/ action_timers' = action_timers \/ action_timers' = <<>>
          \/ action_timers # <<>> /\ action_timers' = Tail(action_timers)
      BY <1>4 DEF Scan, NextTimer
    <3>2. action_timers # <<>> =>
            ToSet(Tail(action_timers)) \subseteq ToSet(action_timers)
      BY RestOfList DEF Lists
    <3>3. ToSet(<<>>) = {}
      BY DEF ToSet
    <3> QED BY <3>1, <3>2, <3>3
  <2> QED BY <2>1, <2>2, OthersStart DEF StartedOnce, StartedTwice
<1>5. CASE Launch
  BY <1>5, LaunchStarts
<1>6. CASE Sweep
  <2>1. /\ UNCHANGED <<starts, unused, worker>>
        /\ timer_map' = timer_map \ removed_timer_ids
    BY <1>6 DEF Sweep
  <2> QED BY <2>1, OthersStart DEF StartedOnce, StartedTwice
<1>7. CASE Exit
  <2>1. /\ UNCHANGED <<starts, unused, timer_map, worker, removed_timer_ids>>
        /\ dpc = "sleep"
    BY <1>7 DEF Exit, mapVars
  <2> QED BY <2>1, OthersStart DEF StartedOnce, StartedTwice
<1>8. ASSUME NEW s \in Slots, Return(s) PROVE Starts'
  <2>1. UNCHANGED <<starts, unused, timer_map, dpc, action_timers>>
    BY <1>8 DEF Return, mapVars, passVars
  <2>2. s = 0
    BY <1>8 DEF Return, FirstSlot
  <2>3. \/ worker[0].evt \notin OneShots /\ removed_timer_ids' = removed_timer_ids
        \/ removed_timer_ids' = removed_timer_ids \cup {worker[0].evt}
    BY <1>8, <2>2 DEF Return
  <2>4. \A t \in OneShots : StartedOnce(t) => StartedOnce(t)'
    BY <2>1, <2>3 DEF StartedOnce
  <2>5. \A t \in OneShots : StartedTwice(t) => StartedTwice(t)'
    BY <2>1, <2>3 DEF StartedTwice
  <2> QED BY <2>1, <2>4, <2>5, OthersStart
<1>9. ASSUME NEW s \in Slots, Reschedule(s) PROVE Starts'
  <2>1. UNCHANGED <<starts, unused, timer_map, dpc, action_timers, removed_timer_ids>>
    BY <1>9 DEF Reschedule, mapVars, passVars
  <2>2. s = 0 /\ worker[0].pc # "run"
    BY <1>9 DEF Reschedule, FirstSlot
  <2> QED BY <2>1, <2>2, OthersStart DEF StartedOnce, StartedTwice
<1>10. CASE Tick \/ Spindown \/ UNCHANGED vars
  <2>1. UNCHANGED <<starts, unused, timer_map, dpc, action_timers,
                    removed_timer_ids, worker>>
    BY <1>10 DEF Tick, Spindown, vars, mapVars, passVars
  <2> QED BY <2>1, OthersStart DEF StartedOnce, StartedTwice
<1> QED
  BY <1>1, <1>2, <1>3, <1>4, <1>5, <1>6, <1>7, <1>8, <1>9, <1>10
     DEF Next, Dispatcher, Worker

\* A timer that does not recur is started at most twice, whenever its callback
\* returns: a run that outlasts its pass is started once more, and no run is
\* started after the sweep that follows (timetracker.cc:159, 192-194).
THEOREM OneShotsAtMostTwice == Spec => []OneShotAtMostTwice
<1>1. Init => Lists /\ Starts
  <2> SUFFICES ASSUME Init PROVE Lists /\ Starts
    OBVIOUS
  <2>1. Lists
    <3>1. ListOf(<<>>, {}) /\ IsFiniteSet({})
      BY FS_EmptySet DEF ListOf, NoRepeat
    <3> QED BY <3>1 DEF Init, Lists
  <2>2. \A t \in OneShots : t \in Timers
    BY TimeAssumption DEF TimeAssumption
  <2>3. starts \in [Timers -> 0 .. 3] /\ \A t \in Timers : starts[t] = 0
    BY DEF Init
  <2> QED BY <2>1, <2>2, <2>3 DEF Starts
<1>2. Lists /\ Starts /\ FirstSlot /\ [Next]_vars => (Lists /\ Starts)'
  BY ListsKept, StartsKept
<1>3. Starts => OneShotAtMostTwice
  BY DEF Starts, OneShotAtMostTwice
<1> QED BY <1>1, <1>2, <1>3, Invariant, PTL DEF Spec

-----------------------------------------------------------------------------
(***************************************************************************)
(* The types. The list has every timer of the map: a sort arranges all of  *)
(* them, and a sweep drops from both what is to be removed.                *)
(***************************************************************************)
AllListed == ToSet(sorted_timers) = timer_map

\* A thread that has not ended has a timer, which it may remove.
Threads ==
  /\ worker \in [Slots -> [pc : {"run", "reschedule", "done"}, evt : Timers \cup {NoTimer}]]
  /\ \A s \in Slots : worker[s].pc # "done" => worker[s].evt \in Timers
  /\ removed_timer_ids \subseteq Timers

Readings ==
  /\ cur_tm \in ToSet(Clock) /\ schedule_tm \in [Timers -> ToSet(Clock)]
  /\ timer_sort_required \in BOOLEAN /\ spindown \in BOOLEAN
  /\ timer_cancelled \in [Timers -> BOOLEAN]
  /\ dpc \in {"sleep", "scan", "launch", "sweep", "exited"}

Counts == starts \in [Timers -> 0 .. 3]

TypeInv == Lists /\ AllListed /\ Threads /\ Readings /\ Counts

\* An arrangement of a finite set has all its elements.
LEMMA AllArranged ==
  ASSUME NEW T, IsFiniteSet(T), NEW f \in SetToSeqs(T)
  PROVE  \A x \in T : \E k \in DOMAIN f : f[k] = x
<1> DEFINE D == 1 .. Cardinality(T)
<1>1. f \in [D -> T] /\ \A i, j \in D : i # j => f[i] # f[j]
  BY DEF SetToSeqs
<1>2. Cardinality(T) \in Nat
  BY FS_CardinalityType
<1>3. Cardinality(D) = Cardinality(T)
  BY <1>2, FS_Interval
<1> HIDE DEF D
<1>4. f \in Injection(D, T)
  BY <1>1 DEF Injection, IsInjective
<1>5. f \in Surjection(D, T)
  BY <1>3, <1>4, FS_Injection
<1> QED BY <1>1, <1>5 DEF Surjection

\* A list that is sorted again keeps all timers.
LEMMA SortedAll ==
  ASSUME Lists, AllListed, NEW s \in SortedOrders
  PROVE  ToSet(s) = timer_map
<1>1. CASE timer_sort_required
  <2>1. s \in SetToSeqs(timer_map) /\ IsFiniteSet(timer_map)
    BY <1>1 DEF SortedOrders, Lists
  <2>2. \A x \in timer_map : \E k \in DOMAIN s : s[k] = x
    BY <2>1, AllArranged
  <2>3. \A k \in DOMAIN s : s[k] \in timer_map
    BY SortedList DEF ListOf
  <2> QED BY <2>2, <2>3 DEF ToSet
<1>2. CASE ~timer_sort_required
  BY <1>2 DEF SortedOrders, AllListed
<1> QED BY <1>1, <1>2

\* A sweep drops the same timers from the list and the map.
LEMMA SweptAll ==
  ASSUME Lists, AllListed, Sweep
  PROVE  AllListed'
<1> DEFINE kept == {i \in DOMAIN sorted_timers :
                      sorted_timers[i] \notin removed_timer_ids}
<1>1. PICK place \in SetToSeqs(kept) :
        sorted_timers' = [k \in DOMAIN place |-> sorted_timers[place[k]]]
  BY DEF Sweep
<1>2. timer_map' = timer_map \ removed_timer_ids
  BY DEF Sweep
<1>3. IsFiniteSet(kept)
  <2>1. DOMAIN sorted_timers = 1 .. Len(sorted_timers) /\ Len(sorted_timers) \in Nat
    BY DEF Lists, ListOf
  <2>2. IsFiniteSet(1 .. Len(sorted_timers)) /\ kept \subseteq 1 .. Len(sorted_timers)
    BY <2>1, FS_Interval
  <2> QED BY <2>2, FS_Subset
<1>4. \A i \in kept : i \in DOMAIN sorted_timers /\ sorted_timers[i] \notin removed_timer_ids
  OBVIOUS
<1>5. \A x \in timer_map' : \E i \in kept : sorted_timers[i] = x
  BY <1>2 DEF AllListed, ToSet
<1> HIDE DEF kept
<1>6. /\ \A i \in kept : \E k \in DOMAIN place : place[k] = i
  BY <1>3, AllArranged
<1>7. \A x \in timer_map' : \E k \in DOMAIN sorted_timers' : sorted_timers'[k] = x
  BY <1>1, <1>5, <1>6
<1>8. \A k \in DOMAIN sorted_timers' : sorted_timers'[k] \in timer_map'
  BY SweptList DEF ListOf
<1> QED BY <1>7, <1>8 DEF AllListed, ToSet

\* Every step keeps the list and the map the same.
LEMMA AllListedKept ==
  ASSUME Lists, AllListed, [Next]_vars
  PROVE  AllListed'
<1>1. ASSUME NEW t \in Timers, register_timer(t) PROVE AllListed'
  <2>1. timer_map' = timer_map \cup {t} /\ sorted_timers' = Append(sorted_timers, t)
    BY <1>1 DEF register_timer
  <2>2. PICK s : s = sorted_timers
    OBVIOUS
  <2>3. s \in Seq(timer_map) /\ ToSet(s) = timer_map
    BY <2>2 DEF Lists, ListOf, AllListed
  <2>4. /\ DOMAIN s = 1 .. Len(s) /\ Len(s) \in Nat
        /\ DOMAIN Append(s, t) = 1 .. (Len(s) + 1)
        /\ Append(s, t)[Len(s) + 1] = t
        /\ \A i \in 1 .. Len(s) : Append(s, t)[i] = s[i]
    BY <2>3
  <2>5. \A x : x \in ToSet(Append(s, t)) <=> x \in ToSet(s) \/ x = t
    <3>1. \A i \in 1 .. (Len(s) + 1) : i \in 1 .. Len(s) \/ i = Len(s) + 1
      BY <2>4
    <3>2. \A i \in 1 .. Len(s) : i \in 1 .. (Len(s) + 1)
      BY <2>4
    <3>3. Len(s) + 1 \in 1 .. (Len(s) + 1)
      BY <2>4
    <3>4. \A x : x \in ToSet(s) <=> \E i \in 1 .. Len(s) : s[i] = x
      BY <2>4 DEF ToSet
    <3>5. \A x : x \in ToSet(Append(s, t)) <=>
                   \E i \in 1 .. (Len(s) + 1) : Append(s, t)[i] = x
      BY <2>4 DEF ToSet
    <3> QED BY <2>4, <3>1, <3>2, <3>3, <3>4, <3>5
  <2> QED BY <2>1, <2>2, <2>3, <2>5 DEF AllListed
<1>2. CASE Pass
  <2>1. PICK s \in SortedOrders : sorted_timers' = s
    BY <1>2 DEF Pass
  <2> QED BY <1>2, <2>1, SortedAll DEF Pass, AllListed
<1>3. CASE Sweep
  BY <1>3, SweptAll
<1>4. ASSUME UNCHANGED <<timer_map, sorted_timers>> PROVE AllListed'
  BY <1>4 DEF AllListed
<1>5. ASSUME NEW t \in Timers, remove_timer(t) PROVE AllListed'
  BY <1>4, <1>5 DEF remove_timer, mapVars
<1>6. CASE Scan \/ Launch \/ Exit
  BY <1>4, <1>6 DEF Scan, Launch, Exit, mapVars
<1>7. ASSUME NEW s \in Slots, Worker(s) PROVE AllListed'
  BY <1>4, <1>7 DEF Worker, Return, Reschedule, mapVars
<1>8. CASE Tick \/ Spindown \/ UNCHANGED vars
  BY <1>4, <1>8 DEF Tick, Spindown, vars, mapVars
<1> QED
  BY <1>1, <1>2, <1>3, <1>5, <1>6, <1>7, <1>8 DEF Next, Dispatcher

\* A thread is started for a timer of the map, and removes none but its own.
LEMMA ThreadsKept ==
  ASSUME Lists, Threads, [Next]_vars
  PROVE  Threads'
<1>1. ASSUME UNCHANGED worker, removed_timer_ids' \subseteq Timers PROVE Threads'
  BY <1>1 DEF Threads
<1>2. ASSUME action_timers # <<>> PROVE Current \in Timers
  BY <1>2, RestOfList DEF Lists, Current
<1>3. ASSUME NEW t \in Timers, register_timer(t) \/ remove_timer(t) PROVE Threads'
  BY <1>1, <1>3 DEF register_timer, remove_timer, Threads
<1>4. CASE Pass \/ Sweep \/ Exit
  BY <1>1, <1>4 DEF Pass, Sweep, Exit, Threads
<1>5. CASE Scan
  <2>1. removed_timer_ids' \subseteq Timers /\ UNCHANGED worker
    BY <1>2, <1>5 DEF Scan, Threads
  <2> QED BY <1>1, <2>1
<1>6. CASE Launch
  <2>1. /\ Current \in Timers /\ worker' = [worker EXCEPT ![0] = [pc |-> "run", evt |-> Current]]
        /\ UNCHANGED removed_timer_ids
    BY <1>2, <1>6 DEF Launch, Lists, UsableSlot
  <2> QED BY <2>1, ConstantFacts DEF Threads
<1>7. ASSUME NEW s \in Slots, Return(s) PROVE Threads'
  <2>1. PICK p \in {"reschedule", "done"} : worker' = [worker EXCEPT ![s].pc = p]
    BY <1>7 DEF Return
  <2>2. worker[s].evt \in Timers /\ removed_timer_ids' \subseteq removed_timer_ids \cup {worker[s].evt}
    BY <1>7 DEF Return, Threads
  <2> QED BY <2>1, <2>2 DEF Threads
<1>8. ASSUME NEW s \in Slots, Reschedule(s) PROVE Threads'
  <2>1. worker' = [worker EXCEPT ![s].pc = "done"] /\ UNCHANGED removed_timer_ids
    BY <1>8 DEF Reschedule
  <2> QED BY <2>1 DEF Threads
<1>9. CASE Tick \/ Spindown \/ UNCHANGED vars
  BY <1>1, <1>9 DEF Tick, Spindown, vars, Threads
<1> QED
  BY <1>3, <1>4, <1>5, <1>6, <1>7, <1>8, <1>9 DEF Next, Dispatcher, Worker

\* Times are read off the clock.
LEMMA ReadingsKept ==
  ASSUME Times, Readings, [Next]_vars
  PROVE  Readings'
<1>1. Clock[now] \in ToSet(Clock)
  BY ConstantFacts DEF Times, ToSet
<1>2. ASSUME NEW t, Schedule(t) PROVE schedule_tm' \in [Timers -> ToSet(Clock)]
  BY <1>1, <1>2 DEF Schedule, Readings
<1>3. ASSUME NEW t \in Timers, register_timer(t) \/ remove_timer(t) PROVE Readings'
  <2>1. schedule_tm' \in [Timers -> ToSet(Clock)]
    BY <1>2, <1>3 DEF register_timer, remove_timer, timeVars, Readings
  <2>2. timer_cancelled' \in [Timers -> BOOLEAN] /\ timer_sort_required' \in BOOLEAN
    BY <1>3 DEF register_timer, remove_timer, Readings
  <2> QED BY <1>3, <2>1, <2>2 DEF register_timer, remove_timer, Readings, passVars
<1>4. CASE Pass
  BY <1>1, <1>4 DEF Pass, Readings, timeVars
<1>5. CASE Scan \/ Launch \/ Sweep \/ Exit
  <2>1. dpc' \in {"sleep", "scan", "launch", "sweep", "exited"}
    BY <1>5 DEF Scan, Launch, Sweep, Exit, Readings
  <2>2. UNCHANGED <<cur_tm, schedule_tm, timer_sort_required, spindown, timer_cancelled>>
    BY <1>5 DEF Scan, Launch, Sweep, Exit, timeVars
  <2> QED BY <2>1, <2>2 DEF Readings
<1>6. ASSUME NEW s \in Slots, Return(s) PROVE Readings'
  BY <1>6 DEF Return, Readings, timeVars, passVars
<1>7. ASSUME NEW s \in Slots, Reschedule(s) PROVE Readings'
  <2>1. schedule_tm' \in [Timers -> ToSet(Clock)] /\ timer_sort_required' \in BOOLEAN
    BY <1>2, <1>7 DEF Reschedule
  <2> QED BY <1>7, <2>1 DEF Reschedule, Readings, passVars
<1>8. CASE Tick \/ Spindown \/ UNCHANGED vars
  BY <1>8 DEF Tick, Spindown, vars, Readings, timeVars, passVars
<1> QED
  BY <1>3, <1>4, <1>5, <1>6, <1>7, <1>8 DEF Next, Dispatcher, Worker

\* A callback is counted up to 3.
LEMMA CountsKept ==
  ASSUME Counts, [Next]_vars
  PROVE  Counts'
<1>1. CASE Launch
  <2>1. starts' = [starts EXCEPT ![Current] = Bump(@)]
    BY <1>1 DEF Launch
  <2>2. \A n \in 0 .. 3 : Bump(n) \in 0 .. 3
    BY DEF Bump
  <2> QED BY <2>1, <2>2 DEF Counts
<1>2. CASE starts' = starts
  BY <1>2 DEF Counts
<1> QED
  BY <1>1, <1>2 DEF Next, Dispatcher, Worker, register_timer, remove_timer, Pass, Scan,
                    Sweep, Exit, Return, Reschedule, Tick, Spindown, vars

\* The type invariant of the timers: timer_map and sorted_timers always hold
\* the same timers, each once, although one is sorted and copied by the
\* dispatcher, both are added to by any thread, and the sweep takes timers out
\* of each on its own (timetracker.cc:122, 211-222, 262-263).
THEOREM TypeCorrect == Spec => []TypeOK
<1>1. Init => TypeInv
  <2> SUFFICES ASSUME Init PROVE TypeInv
    OBVIOUS
  <2>1. Lists /\ AllListed
    <3>1. ListOf(<<>>, {}) /\ IsFiniteSet({}) /\ ToSet(<<>>) = {}
      BY FS_EmptySet DEF ListOf, NoRepeat, ToSet
    <3> QED BY <3>1 DEF Init, Lists, AllListed
  <2>2. Threads
    BY DEF Init, Threads
  <2>3. Clock[1] \in ToSet(Clock)
    BY ConstantFacts DEF ToSet
  <2>4. Readings
    BY <2>3 DEF Init, Readings
  <2>5. Counts
    BY DEF Init, Counts
  <2> QED BY <2>1, <2>2, <2>4, <2>5 DEF TypeInv
<1>2. TypeInv /\ Times /\ [Next]_vars => TypeInv'
  BY ListsKept, AllListedKept, ThreadsKept, ReadingsKept, CountsKept DEF TypeInv
<1>3. TypeInv /\ Times => TypeOK
  <2> SUFFICES ASSUME TypeInv, Times PROVE TypeOK
    OBVIOUS
  <2>1. now \in DOMAIN Clock
    BY ConstantFacts DEF Times
  <2>2. IsInjective(sorted_timers) /\ action_timers \in Seq(Timers)
    BY DEF TypeInv, Lists, ListOf, NoRepeat, IsInjective
  <2> QED
    BY <2>1, <2>2 DEF TypeOK, TypeInv, Lists, AllListed, Threads, Readings, Counts
<1> QED BY <1>1, <1>2, <1>3, Invariant, PTL DEF Spec

=============================================================================
