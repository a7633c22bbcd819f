---------------------------- MODULE TimeTracker ----------------------------
(***************************************************************************)
(* The timers (timetracker.cc): register_timer, remove_timer, the          *)
(* dispatcher thread that makes a pass ten times a second, and the threads *)
(* it starts for the callbacks, with the arithmetic of trigger times.      *)
(***************************************************************************)
EXTENDS Integers, Sequences, SequencesExt, FiniteSets

CONSTANTS
  Timers,            \* timer ids, each registered at most once
  OneShots,          \* those registered with in_recurring = 0
  Timeslices,        \* after how many timeslices each is due
  Slots,             \* time_workers
  Clock,             \* the readings of gettimeofday, in order
  SERVER_TIMESLICES_SEC,
  NoTimer

\* What gettimeofday can say.
TimeVal == [tv_sec : Nat, tv_usec : {u \in Nat : u < 1000000}]

ASSUME TimeAssumption ==
  /\ OneShots \subseteq Timers
  /\ Timers \subseteq DOMAIN Timeslices
  /\ \A t \in Timers : Timeslices[t] \in Nat \ {0}
  /\ Slots = 0 .. Cardinality(Slots) - 1 /\ 0 \in Slots
  /\ Clock \in Seq(TimeVal) /\ Clock # <<>>
  /\ NoTimer \notin Timers

\* 10 (config.h.in:331): a timeslice is a whole number of microseconds.
ASSUME SliceAssumption ==
  SERVER_TIMESLICES_SEC \in Nat \ {0} /\ 1000000 % SERVER_TIMESLICES_SEC = 0

VARIABLES
  now,                 \* the present reading
  unused,              \* timers not registered yet
  timer_map, sorted_timers, timer_sort_required, removed_timer_ids,
  schedule_tm, trigger_tm, timer_cancelled,     \* of the timer_events
  dpc, cur_tm, action_timers,        \* the dispatcher thread
  worker,              \* per slot: [pc, evt]
  spindown,
  starts               \* times each callback was started (up to 3)

vars == <<now, unused, timer_map, sorted_timers, timer_sort_required,
          removed_timer_ids, schedule_tm, trigger_tm, timer_cancelled, dpc, cur_tm,
          action_timers, worker, spindown, starts>>
timeVars == <<schedule_tm, trigger_tm>>
mapVars == <<unused, timer_map, sorted_timers>>
passVars == <<dpc, cur_tm, action_timers>>

Init ==
  /\ now = 1
  /\ unused = Timers
  /\ timer_map = {} /\ sorted_timers = <<>>
  /\ timer_sort_required = TRUE
  /\ removed_timer_ids = {}
  /\ schedule_tm = [t \in Timers |-> Clock[1]]
  /\ trigger_tm = [t \in Timers |-> Clock[1]]
  /\ timer_cancelled = [t \in Timers |-> FALSE]
  /\ dpc = "sleep" /\ cur_tm = Clock[1] /\ action_timers = <<>>
  /\ worker = [s \in Slots |-> [pc |-> "done", evt |-> NoTimer]]
  /\ spindown = FALSE
  /\ starts = [t \in Timers |-> 0]

\* A thread that reschedules its timer holds time_mutex.
TimeMutexFree == \A s \in Slots : worker[s].pc # "reschedule"

-----------------------------------------------------------------------------
(* Any thread, a callback included.                                        *)

SliceUsec == 1000000 \div SERVER_TIMESLICES_SEC

\* A microsecond part that reaches a second is carried.
Carry_Lost(tv) == IF tv.tv_usec >= 999999
                  THEN [tv EXCEPT !.tv_usec = @ % 1000000] ELSE tv
Carry(tv) == IF tv.tv_usec >= 999999
             THEN [tv_sec |-> tv.tv_sec + 1, tv_usec |-> tv.tv_usec % 1000000]
             ELSE tv

Trigger(tv, n) ==
  Carry([tv_sec  |-> tv.tv_sec + n \div SERVER_TIMESLICES_SEC,
         tv_usec |-> tv.tv_usec + (n % SERVER_TIMESLICES_SEC) * SliceUsec])

Schedule(t) ==
  /\ schedule_tm' = [schedule_tm EXCEPT ![t] = Clock[now]]
  /\ trigger_tm' = [trigger_tm EXCEPT ![t] = Trigger(Clock[now], Timeslices[t])]

register_timer(t) ==
  /\ TimeMutexFree
  /\ t \in unused /\ unused' = unused \ {t}
  /\ timer_map' = timer_map \cup {t}
  /\ sorted_timers' = Append(sorted_timers, t)
  /\ Schedule(t)
  /\ timer_sort_required' = TRUE
  /\ UNCHANGED <<now, removed_timer_ids, timer_cancelled, passVars, worker,
                 spindown, starts>>

remove_timer_FlagOnly(t) ==
  /\ TimeMutexFree
  /\ t \in timer_map
  /\ timer_cancelled' = [timer_cancelled EXCEPT ![t] = TRUE]
  /\ UNCHANGED <<now, mapVars, timer_sort_required, timeVars, passVars,
                 removed_timer_ids, worker, spindown, starts>>
remove_timer(t) ==
  /\ TimeMutexFree
  /\ t \in timer_map
  /\ timer_cancelled' = [timer_cancelled EXCEPT ![t] = TRUE]
  /\ removed_timer_ids' = removed_timer_ids \cup {t}
  /\ UNCHANGED <<now, mapVars, timer_sort_required, timeVars, passVars,
                 worker, spindown, starts>>

-----------------------------------------------------------------------------
(* time_dispatcher.                                                        *)

\* Times are compared field by field.
Before(a, b) == \/ a.tv_sec < b.tv_sec
                \/ a.tv_sec = b.tv_sec /\ a.tv_usec < b.tv_usec

\* std::sort by trigger_tm; timers due at the same time come in any order.
SortedOrders ==
  IF timer_sort_required
  THEN {s \in SetToSeqs(timer_map) :
          \A i, j \in DOMAIN s :
            i < j => ~Before(trigger_tm[s[j]], trigger_tm[s[i]])}
  ELSE {sorted_timers}

\* A pass begins: the time is read, the timers are sorted and copied.
Pass ==
  /\ dpc = "sleep" /\ ~spindown /\ TimeMutexFree
  /\ cur_tm' = Clock[now]
  /\ \E s \in SortedOrders : sorted_timers' = s /\ action_timers' = s
  /\ timer_sort_required' = FALSE
  /\ dpc' = "scan"
  /\ UNCHANGED <<now, unused, timer_map, removed_timer_ids, timeVars,
                 timer_cancelled, worker, spindown, starts>>

Current == Head(action_timers)
NextTimer == action_timers' = Tail(action_timers)

\* What comparing cur_tm with trigger_tm may yield: trigger_tm is read without
\* time_mutex, and half of it may have been written by a thread that
\* reschedules the timer.
DueNow ==
  {~Before(cur_tm, trigger_tm[Current])}
    \cup (IF \E s \in Slots : worker[s] = [pc |-> "reschedule", evt |-> Current]
          THEN BOOLEAN ELSE {})

\* The next timer of the copy: cancelled, in the future (the rest is left for
\* the next pass), or to be launched.
Scan ==
  /\ dpc = "scan"
  /\ \/ /\ action_timers = <<>>
        /\ dpc' = "sweep"
        /\ UNCHANGED <<action_timers, removed_timer_ids>>
     \/ /\ action_timers # <<>> /\ timer_cancelled[Current]
        /\ removed_timer_ids' = removed_timer_ids \cup {Current}
        /\ NextTimer
        /\ UNCHANGED dpc
     \/ /\ action_timers # <<>> /\ ~timer_cancelled[Current]
        /\ \E due \in DueNow :
             IF due THEN dpc' = "launch" /\ UNCHANGED action_timers
                    ELSE dpc' = "sweep" /\ action_timers' = <<>>
        /\ UNCHANGED removed_timer_ids
  /\ UNCHANGED <<now, mapVars, timer_sort_required, timeVars,
                 timer_cancelled, cur_tm, worker, spindown, starts>>

Bump(n) == IF n < 3 THEN n + 1 ELSE n

\* Every slot holds a thread that was not joined yet, so the first slot is
\* joinable() whether or not its thread has ended, and is always chosen.
UsableSlot_Idle ==
  IF \E s \in Slots : worker[s].pc = "done"
  THEN CHOOSE s \in Slots : worker[s].pc = "done" ELSE 0
UsableSlot == 0

\* join() returns when the callback has, and the next one is started.
Launch ==
  /\ dpc = "launch"
  /\ worker[UsableSlot].pc = "done"
  /\ worker' = [worker EXCEPT ![UsableSlot] = [pc |-> "run", evt |-> Current]]
  /\ starts' = [starts EXCEPT ![Current] = Bump(@)]
  /\ NextTimer
  /\ dpc' = "scan"
  /\ UNCHANGED <<now, mapVars, timer_sort_required, removed_timer_ids,
                 timeVars, timer_cancelled, cur_tm, spindown>>

\* The end of a pass, under both mutexes: the list loses the removed timers
\* and keeps its order.
Sweep_Forget ==
  /\ dpc = "sweep" /\ TimeMutexFree
  /\ removed_timer_ids' = {}
  /\ dpc' = "sleep"
  /\ UNCHANGED <<now, unused, timer_sort_required, timeVars, sorted_timers, timer_map,
                 timer_cancelled, cur_tm, action_timers, worker, spindown,
                 starts>>
Sweep ==
  /\ dpc = "sweep" /\ TimeMutexFree
  /\ timer_map' = timer_map \ removed_timer_ids
  /\ LET kept == {i \in DOMAIN sorted_timers :
                    sorted_timers[i] \notin removed_timer_ids}
     IN  \E place \in SetToSeqs(kept) :
           /\ \A k, l \in DOMAIN place : k < l => place[k] < place[l]
           /\ sorted_timers' = [k \in DOMAIN place |-> sorted_timers[place[k]]]
  /\ removed_timer_ids' = {}
  /\ dpc' = "sleep"
  /\ UNCHANGED <<now, unused, timer_sort_required, timeVars,
                 timer_cancelled, cur_tm, action_timers, worker, spindown,
                 starts>>

Exit ==
  /\ dpc = "sleep" /\ spindown
  /\ dpc' = "exited"
  /\ UNCHANGED <<now, mapVars, timer_sort_required, removed_timer_ids,
                 timeVars, timer_cancelled, cur_tm, action_timers, worker,
                 spindown, starts>>

-----------------------------------------------------------------------------
(* The thread of a callback.                                               *)

\* The callback returns: above zero asks for another round, which only a
\* recurring timer gets.
Return(s) ==
  /\ worker[s].pc = "run"
  /\ \/ /\ worker[s].evt \notin OneShots
        /\ TimeMutexFree
        /\ worker' = [worker EXCEPT ![s].pc = "reschedule"]
        /\ UNCHANGED removed_timer_ids
     \/ /\ worker' = [worker EXCEPT ![s].pc = "done"]
        /\ removed_timer_ids' = removed_timer_ids \cup {worker[s].evt}
  /\ UNCHANGED <<now, mapVars, timer_sort_required, timeVars,
                 timer_cancelled, passVars, spindown, starts>>

\* The trigger time has been written, and time_mutex is released.
Reschedule_NoSort(s) ==
  /\ worker[s].pc = "reschedule"
  /\ Schedule(worker[s].evt)
  /\ worker' = [worker EXCEPT ![s].pc = "done"]
  /\ UNCHANGED <<now, mapVars, removed_timer_ids, timer_cancelled, passVars,
                 spindown, starts, timer_sort_required>>
Reschedule(s) ==
  /\ worker[s].pc = "reschedule"
  /\ Schedule(worker[s].evt)
  /\ timer_sort_required' = TRUE
  /\ worker' = [worker EXCEPT ![s].pc = "done"]
  /\ UNCHANGED <<now, mapVars, removed_timer_ids, timer_cancelled, passVars,
                 spindown, starts>>

-----------------------------------------------------------------------------
Tick ==
  /\ now < Len(Clock) /\ now' = now + 1
  /\ UNCHANGED <<mapVars, timer_sort_required, removed_timer_ids, timeVars,
                 timer_cancelled, passVars, worker, spindown, starts>>

Spindown ==
  /\ ~spindown /\ spindown' = TRUE
  /\ UNCHANGED <<now, mapVars, timer_sort_required, removed_timer_ids,
                 timeVars, timer_cancelled, passVars, worker, starts>>

Dispatcher == Pass \/ Scan \/ Launch \/ Sweep \/ Exit
Worker(s) == Return(s) \/ Reschedule(s)

Next ==
  \/ \E t \in Timers : register_timer(t) \/ remove_timer(t)
  \/ Dispatcher
  \/ \E s \in Slots : Worker(s)
  \/ Tick \/ Spindown

\* The dispatcher runs, it gets time_mutex, and callbacks return.
Fairness ==
  /\ WF_vars(Dispatcher) /\ SF_vars(Pass) /\ SF_vars(Sweep)
  /\ \A s \in Slots : WF_vars(Worker(s))

Spec == Init /\ [][Next]_vars
FairSpec == Spec /\ Fairness

-----------------------------------------------------------------------------
Running == {s \in Slots : worker[s].pc # "done"}

\* The variables have their types; the map and the list hold the same timers,
\* each once, when both are only changed under time_mutex.
TypeOK ==
  /\ now \in DOMAIN Clock /\ cur_tm \in ToSet(Clock)
  /\ timer_map \subseteq Timers \ unused
  /\ ToSet(sorted_timers) = timer_map /\ IsInjective(sorted_timers)
  /\ removed_timer_ids \subseteq Timers
  /\ timer_sort_required \in BOOLEAN /\ spindown \in BOOLEAN
  /\ schedule_tm \in [Timers -> ToSet(Clock)]
  /\ timer_cancelled \in [Timers -> BOOLEAN]
  /\ dpc \in {"sleep", "scan", "launch", "sweep", "exited"}
  /\ action_timers \in Seq(Timers)
  /\ dpc = "launch" => action_timers # <<>>
  /\ worker \in [Slots -> [pc : {"run", "reschedule", "done"},
                           evt : Timers \cup {NoTimer}]]
  /\ starts \in [Timers -> 0 .. 3]

\* Callbacks never run at the same time, however many worker threads there
\* are: the scan for a joinable thread finds the running one and joins it
\* (timetracker.cc:156-159).
CallbacksSerial == Cardinality(Running) <= 1

\* A timer that does not recur runs at most twice (timetracker.cc:192-194:
\* it is removed at the end of the pass after the one that started it).
OneShotAtMostTwice == \A t \in OneShots : starts[t] <= 2

Usec(tv) == tv.tv_sec * 1000000 + tv.tv_usec

\* The trigger time is never before the timeslices have passed, and at most a
\* second after, and its microseconds stay below a second, as a comparison
\* field by field requires: although the carry is tested against 999999 and
\* taken from 1000000, for every clock reading.
TriggerInTime ==
  \A t \in Timers \ unused :
    LET wanted == Usec(schedule_tm[t]) + Timeslices[t] * SliceUsec IN
    /\ trigger_tm[t].tv_usec < 1000000
    /\ Usec(trigger_tm[t]) \in wanted .. wanted + 1000000

\* A timer that is due runs or is cancelled, although a pass stops at the
\* first timer it reads as being in the future, even one that was rescheduled
\* after the list was sorted.
DueRuns ==
  \A t \in Timers :
    (t \in timer_map /\ ~Before(Clock[now], trigger_tm[t]))
      ~> (starts[t] > 0 \/ timer_cancelled[t] \/ spindown)

\* A removed timer leaves the map and the list, and one that does not recur
\* leaves them after it ran.
RemovedIsSwept ==
  \A t \in Timers :
    (t \in timer_map /\ (timer_cancelled[t] \/ (t \in OneShots /\ starts[t] > 0)))
      ~> (t \notin timer_map \/ spindown)
=============================================================================
