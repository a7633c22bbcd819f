-------------------------- MODULE DatasourceTracker ---------------------------
(***************************************************************************)
(* How datasource_tracker finds the driver of a source and lists the        *)
(* interfaces (datasourcetracker.cc).  A probe request asks the tools of     *)
(* all drivers at once whether they know the source; a list request asks    *)
(* each for its interfaces.  A request owns a map of the tools it waits     *)
(* for, ends when it is cancelled - on the first success, when the map is   *)
(* empty, or by a timer - and calls the tracker back once.  The tracker     *)
(* keeps finished requests for a cleanup timer to purge.                    *)
(*                                                                         *)
(* Threads: the one that starts the request, which holds the request's      *)
(* lock while it launches the tools; the strand of each tool; the timer     *)
(* thread.  A tool is a source of the Datasource module in probing or       *)
(* listing mode: it answers at most once, maybe never, and at once when it  *)
(* cannot be launched.                                                      *)
(*                                                                         *)
(* Left out: opening the source that a probe found, which is Datasource's.  *)
(* The timer of a list that is cancelled before it has one is number 0, as  *)
(* C++20 initializes it, and names no timer.                                 *)
(***************************************************************************)
EXTENDS Naturals, Sequences, FiniteSets

CONSTANTS
    Drivers,    \* drivers that are not masked
    Probes,     \* probe requests
    Lists,      \* list requests
    NoDriver

ASSUME TrackerAssumption == Probes \cap Lists = {} /\ NoDriver \notin Drivers

Requests == Probes \cup Lists
Deadline == NoDriver        \* the one timer of a list

VARIABLES
    capable,            \* drivers the request builds a tool for
    todo,               \* of these, the ones it has not launched
    launching,          \* where the starting thread is; it holds the lock
    ipc_map,            \* ipc_probe_map or ipc_list_map
    tool,               \* how far the report of each tool is
    timers,             \* registered timers, by driver
    firing,             \* what the timer thread is at: {}, or a request and step
    cancelled,
    cancel_at,          \* how far the one cancel() that goes on is
    source_builder,     \* driver the probe found
    won,                \* history: the first success a live probe took
    listed,             \* drivers in listed_sources
    answers,            \* history: what the request's callback was given
    tracked,            \* probing_map and listing_map
    complete,           \* requests that wait for the purge
    cleanup             \* completion_cleanup_id is set

starting == <<capable, todo, launching>>
tracker  == <<tracked, complete, cleanup>>
found    == <<source_builder, won, listed>>
vars     == <<starting, tracker, found, ipc_map, tool, timers, firing, cancelled,
              cancel_at, answers>>

Init ==
    /\ capable = [q \in Requests |-> {}] /\ todo = capable
    /\ launching = [q \in Requests |-> "idle"]
    /\ ipc_map = [q \in Requests |-> {}]
    /\ tool = [q \in Requests |-> [d \in Drivers |-> "idle"]]
    /\ timers = [q \in Requests |-> {}] /\ firing = {}
    /\ cancelled = [q \in Requests |-> FALSE]
    /\ cancel_at = [q \in Requests |-> "idle"]
    /\ source_builder = [q \in Requests |-> NoDriver] /\ won = source_builder
    /\ listed = [q \in Requests |-> {}]
    /\ answers = [q \in Requests |-> << >>]
    /\ tracked = {} /\ complete = {} /\ cleanup = FALSE

Put(f, q, v) == [f EXCEPT ![q] = v]

Cancelling(q) == cancel_at[q] \in {"call", "end", "sweep"}

\* A list is cancelled inside complete_list or list_sources, which keep its
\* lock; the strand that cancels a probe lets go of the lock for the callback.
LockFree(q) == launching[q] # "launch" /\ ~(q \in Lists /\ Cancelling(q))

\* Mutant: cancelled is not tested.
Cancel_Again(q, m, t) ==
    /\ cancelled' = Put(cancelled, q, TRUE)
    /\ timers' = Put(timers, q, {})
    /\ cancel_at' = Put(cancel_at, q, IF q \in Lists /\ m # {} THEN "done" ELSE "call")
    /\ ipc_map' = Put(ipc_map, q, IF q \in Lists THEN {} ELSE m)

\* cancel() up to the callback, with m for the map and t for the timers.  A
\* list calls back only when it waits for no tool.
Cancel(q, m, t) ==
    IF cancelled[q]
      THEN /\ ipc_map' = Put(ipc_map, q, m) /\ timers' = Put(timers, q, t)
           /\ UNCHANGED <<cancelled, cancel_at>>
      ELSE /\ cancelled' = Put(cancelled, q, TRUE)
           /\ timers' = Put(timers, q, {})
           /\ cancel_at' = Put(cancel_at, q, IF q \in Lists /\ m # {} THEN "done" ELSE "call")
           /\ ipc_map' = Put(ipc_map, q, IF q \in Lists THEN {} ELSE m)

\* A report that leaves m of the map, taken with the lock held all the way.
Settle(q, m, t) ==
    IF m = {} THEN Cancel(q, m, t)
              ELSE /\ ipc_map' = Put(ipc_map, q, m) /\ timers' = Put(timers, q, t)
                   /\ UNCHANGED <<cancelled, cancel_at>>

-----------------------------------------------------------------------------
(* The thread that starts the request. *)

\* A probe builds all its tools before it launches one; a list does both
\* tool by tool.
Begin(q) ==
    /\ launching[q] = "idle"
    /\ \E S \in SUBSET Drivers :
         /\ capable' = Put(capable, q, S)
         /\ todo' = Put(todo, q, S)
         /\ ipc_map' = Put(ipc_map, q, IF q \in Probes THEN S ELSE {})
    /\ launching' = Put(launching, q, "launch")
    /\ tracked' = tracked \cup {q}
    /\ UNCHANGED <<complete, cleanup, found, tool, timers, firing, cancelled, cancel_at,
                   answers>>

Take(q, d) ==
    /\ launching[q] = "launch" /\ d \in todo[q] /\ ~Cancelling(q)
    /\ todo' = Put(todo, q, todo[q] \ {d})
    /\ UNCHANGED <<capable, launching, tracker, source_builder, won, firing, answers>>

\* Mutant: a probe registers no timers.
LaunchTool_NoTimer(q, d) ==
    /\ Take(q, d)
    /\ tool' = [tool EXCEPT ![q][d] = "asked"]
    /\ ipc_map' = Put(ipc_map, q, ipc_map[q] \cup {d})
    /\ UNCHANGED <<timers, listed, cancelled, cancel_at>>

LaunchTool(q, d) ==
    /\ Take(q, d)
    /\ tool' = [tool EXCEPT ![q][d] = "asked"]
    /\ ipc_map' = Put(ipc_map, q, ipc_map[q] \cup {d})
    /\ timers' = IF q \in Probes THEN Put(timers, q, timers[q] \cup {d}) ELSE timers
    /\ UNCHANGED <<listed, cancelled, cancel_at>>

\* The tool is not installed or cannot be launched: it reports inside the
\* loop.  The timer the probe has just registered is removed at once.
LaunchFails(q, d) ==
    /\ Take(q, d)
    /\ tool' = [tool EXCEPT ![q][d] = "over"]
    /\ IF cancelled[q]
         THEN /\ ipc_map' = Put(ipc_map, q, ipc_map[q] \cup {d})
              /\ UNCHANGED <<timers, cancelled, cancel_at>>
         ELSE Settle(q, ipc_map[q] \ {d}, timers[q])
    /\ UNCHANGED listed

\* The loop is over.  A list then registers its timer, cancelled or not.
Launched(q) ==
    LET t == IF q \in Lists THEN {Deadline} ELSE timers[q] IN
    /\ launching[q] = "launch" /\ todo[q] = {} /\ ~Cancelling(q)
    /\ IF capable[q] = {} /\ ~cancelled[q]
         THEN Cancel(q, {}, t) /\ UNCHANGED launching
         ELSE /\ launching' = Put(launching, q, "done")
              /\ timers' = Put(timers, q, t)
              /\ UNCHANGED <<ipc_map, cancelled, cancel_at>>
    /\ UNCHANGED <<capable, todo, tracker, found, tool, firing, answers>>

-----------------------------------------------------------------------------
(* Reports of the tools. *)

\* A report to a probe first removes the tool's timer and tests cancelled,
\* both without the probe's lock.
ProbeReport(q, d, success) ==
    /\ q \in Probes /\ tool[q][d] = "asked"
    /\ timers' = Put(timers, q, timers[q] \ {d})
    /\ tool' = [tool EXCEPT ![q][d] = IF cancelled[q] THEN "over"
                                      ELSE IF success THEN "yes" ELSE "no"]
    /\ UNCHANGED <<starting, tracker, found, ipc_map, firing, cancelled, cancel_at, answers>>

\* Mutant: the tool is erased before its driver is read.
Complete_Erased(q, d) ==
    /\ tool[q][d] \in {"yes", "no"} /\ LockFree(q)
    /\ IF tool[q][d] = "yes"
         THEN won' = IF cancelled[q] \/ won[q] # NoDriver THEN won ELSE Put(won, q, d)
         ELSE UNCHANGED won
    /\ ipc_map' = Put(ipc_map, q, ipc_map[q] \ {d})
    /\ tool' = [tool EXCEPT ![q][d] =
                  IF tool[q][d] = "yes" \/ ipc_map'[q] = {} THEN "cancel" ELSE "over"]
    /\ UNCHANGED <<starting, tracker, source_builder, listed, timers, firing, cancelled,
                   cancel_at, answers>>

\* The rest of the report, under the lock; cancelled is not tested again.  The
\* lock is free between it and the cancel() it calls for.
Complete(q, d) ==
    /\ tool[q][d] \in {"yes", "no"} /\ LockFree(q)
    /\ IF d \in ipc_map[q] /\ tool[q][d] = "yes"
         THEN /\ source_builder' = Put(source_builder, q, d)
              /\ won' = IF cancelled[q] \/ won[q] # NoDriver THEN won ELSE Put(won, q, d)
         ELSE UNCHANGED <<source_builder, won>>
    /\ ipc_map' = Put(ipc_map, q, ipc_map[q] \ {d})
    /\ tool' = [tool EXCEPT ![q][d] =
                  IF tool[q][d] = "yes" \/ ipc_map'[q] = {} THEN "cancel" ELSE "over"]
    /\ UNCHANGED <<starting, tracker, listed, timers, firing, cancelled, cancel_at, answers>>

StrandCancels(q, d) ==
    /\ tool[q][d] = "cancel" /\ LockFree(q)
    /\ tool' = [tool EXCEPT ![q][d] = "over"]
    /\ Cancel(q, ipc_map[q], timers[q])
    /\ UNCHANGED <<starting, tracker, found, firing, answers>>

\* A report to a list, under the list's lock to the end.
ListReport(q, d) ==
    /\ q \in Lists /\ tool[q][d] = "asked" /\ LockFree(q)
    /\ tool' = [tool EXCEPT ![q][d] = "over"]
    /\ IF cancelled[q]
         THEN UNCHANGED <<listed, ipc_map, timers, cancelled, cancel_at>>
         ELSE /\ listed' = Put(listed, q, listed[q] \cup {d})
              /\ Settle(q, ipc_map[q] \ {d}, timers[q])
    /\ UNCHANGED <<starting, tracker, source_builder, won, firing, answers>>

-----------------------------------------------------------------------------
(* The rest of cancel(), and the tracker's callbacks. *)

\* The callback of a probe first moves the request to the completed ones and
\* then opens the source; that of a list answers first.
Call(q) ==
    /\ cancel_at[q] = "call"
    /\ cancel_at' = Put(cancel_at, q, "end")
    /\ answers' = Put(answers, q,
          Append(answers[q], IF q \in Probes THEN source_builder[q] ELSE listed[q]))
    /\ complete' = IF q \in tracked \cap Probes THEN complete \cup {q} ELSE complete
    /\ UNCHANGED <<starting, tracked, cleanup, found, ipc_map, tool, timers, firing, cancelled>>

\* Mutant: no cleanup is scheduled.
CallEnds_NoCleanup(q) ==
    /\ cancel_at[q] = "end"
    /\ cancel_at' = Put(cancel_at, q, "sweep")
    /\ complete' = IF q \in tracked \cap Lists THEN complete \cup {q} ELSE complete
    /\ tracked' = tracked \ {q}
    /\ UNCHANGED <<starting, cleanup, found, ipc_map, tool, timers, firing, cancelled, answers>>

CallEnds(q) ==
    /\ cancel_at[q] = "end"
    /\ cancel_at' = Put(cancel_at, q, "sweep")
    /\ complete' = IF q \in tracked \cap Lists THEN complete \cup {q} ELSE complete
    /\ tracked' = tracked \ {q}
    /\ cleanup' = (cleanup \/ q \in tracked)
    /\ UNCHANGED <<starting, found, ipc_map, tool, timers, firing, cancelled, answers>>

\* The lock again: the sources that remain are closed.
Sweep(q) ==
    /\ cancel_at[q] = "sweep"
    /\ cancel_at' = Put(cancel_at, q, "done")
    /\ ipc_map' = Put(ipc_map, q, {})
    /\ firing' = firing \ {<<q, "cancel">>}
    /\ UNCHANGED <<starting, tracker, found, tool, timers, cancelled, answers>>

-----------------------------------------------------------------------------
(* The timer thread. *)

Timeout(q) ==
    /\ firing = {}
    /\ \E x \in timers[q] : timers' = Put(timers, q, timers[q] \ {x})
    /\ firing' = {<<q, "lock">>}
    /\ UNCHANGED <<starting, tracker, found, ipc_map, tool, cancelled, cancel_at, answers>>

TimerCancels(q) ==
    /\ <<q, "lock">> \in firing /\ LockFree(q)
    /\ Cancel(q, ipc_map[q], timers[q])
    /\ firing' = IF cancel_at'[q] = "call" /\ ~cancelled[q] THEN {<<q, "cancel">>} ELSE {}
    /\ UNCHANGED <<starting, tracker, found, tool, answers>>

Cleanup ==
    /\ firing = {} /\ cleanup
    /\ cleanup' = FALSE /\ complete' = {}
    /\ UNCHANGED <<starting, tracked, found, ipc_map, tool, timers, firing, cancelled,
                   cancel_at, answers>>

-----------------------------------------------------------------------------
Threads ==
    \/ Cleanup
    \/ \E q \in Requests :
         \/ Launched(q) \/ Call(q) \/ CallEnds(q) \/ Sweep(q)
         \/ Timeout(q) \/ TimerCancels(q)
         \/ \E d \in Drivers : LaunchTool(q, d) \/ LaunchFails(q, d)
                                 \/ Complete(q, d) \/ StrandCancels(q, d)

Tools == \E q \in Requests, d \in Drivers :
           \/ \E success \in BOOLEAN : ProbeReport(q, d, success)
           \/ ListReport(q, d)

Next == Threads \/ Tools \/ \E q \in Requests : Begin(q)

\* Threads run and timers expire.  A tool may never report.
Fairness ==
    /\ WF_vars(Cleanup)
    /\ \A q \in Requests :
         /\ WF_vars(Launched(q)) /\ WF_vars(Call(q)) /\ WF_vars(CallEnds(q))
         /\ WF_vars(Sweep(q)) /\ WF_vars(Timeout(q)) /\ WF_vars(TimerCancels(q))
         /\ \A d \in Drivers : /\ WF_vars(LaunchTool(q, d) \/ LaunchFails(q, d))
                               /\ WF_vars(Complete(q, d)) /\ WF_vars(StrandCancels(q, d))

Spec     == Init /\ [][Next]_vars
FairSpec == Spec /\ Fairness

-----------------------------------------------------------------------------
(* Properties. *)

\* The type invariant.  A live request waits exactly for the tools that it has
\* still to hear of, a live probe has a timer for each that has not reported,
\* and a request stays in the tracker's maps until its callback is through.
TypeOK ==
    /\ cancelled \in [Requests -> BOOLEAN]
    /\ tracked \subseteq Requests /\ complete \subseteq Requests
    /\ tool \in [Requests -> [Drivers -> {"idle", "asked", "yes", "no", "cancel", "over"}]]
    /\ \A q \in Requests :
         LET Open == {d \in Drivers : tool[q][d] \in {"asked", "yes", "no"}} IN
         /\ cancelled[q] = (cancel_at[q] # "idle")
         /\ ~cancelled[q] =>
              ipc_map[q] = Open \cup (IF q \in Probes THEN todo[q] ELSE {})
         /\ q \in Probes /\ ~cancelled[q] =>
              {d \in Drivers : tool[q][d] = "asked"} \ timers[q]
                \subseteq (IF \E s \in firing : s[1] = q THEN Drivers ELSE {})
         /\ launching[q] # "idle" /\ cancel_at[q] \notin {"sweep", "done"} => q \in tracked

\* A request calls back at most once (cancel, datasourcetracker.cc:58 and 239),
\* whatever the order of reports, launch failures and timers.
AnsweredOnce == \A q \in Requests : Len(answers[q]) <= 1

\* The opener of a source is always told what the probe found: a tool that
\* never reports is given up by its timer (datasourcetracker.cc:189-196).
ProbeIsAnswered ==
    \A q \in Probes : (launching[q] = "launch") ~> (answers[q] # << >>)

\* A probe that took a success before it was cancelled does not tell its
\* opener that there is no driver (complete_probe and cancel, which drop the
\* lock between the two).
SuccessCounts ==
    \A q \in Probes : won[q] # NoDriver /\ answers[q] # << >> => answers[q][1] # NoDriver

\* A completed request is purged by the cleanup timer, also one that completes
\* while a cleanup is pending or runs (schedule_cleanup).
CompletedIsPurged == \A q \in Requests : (q \in complete) ~> (q \notin complete)

=============================================================================
