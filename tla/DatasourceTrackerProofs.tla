----------------------- MODULE DatasourceTrackerProofs ------------------------
(***************************************************************************)
(* Proofs about the requests of the datasource tracker, for any number of   *)
(* drivers and requests, and about the streams it opens for live captures   *)
(* and the pcapng log shares with it, for any hashes, limits and lengths.   *)
(* What makes a request answer once is that cancelled is set under the lock *)
(* with the step that leads to the callback: cancel_at leaves "idle" once.   *)
(* What makes a file readable is that the stream numbers interfaces as they  *)
(* come and forgets the numbers with the buffer it leaves.                  *)
(***************************************************************************)
EXTENDS DatasourceTracker, PcapngStream, FiniteSetTheorems, SequenceTheorems, TLAPS

-----------------------------------------------------------------------------
(***************************************************************************)
(* Requests (DatasourceTracker).                                           *)
(***************************************************************************)

Steps == {"idle", "call", "end", "sweep", "done"}

\* The inductive invariant.  Nothing is answered before the callback; a live
\* probe that took a success has a builder, and so has the answer.
IInv ==
    /\ cancelled \in [Requests -> BOOLEAN]
    /\ cancel_at \in [Requests -> Steps]
    /\ answers = [q \in Requests |-> answers[q]]
    /\ source_builder \in [Requests -> Drivers \cup {NoDriver}]
    /\ won \in [Requests -> Drivers \cup {NoDriver}]
    /\ \A q \in Requests :
         /\ cancelled[q] = (cancel_at[q] # "idle")
         /\ answers[q] = << >> \/ \E x : answers[q] = <<x>>
         /\ cancel_at[q] \in {"idle", "call"} => answers[q] = << >>
         /\ won[q] # NoDriver => source_builder[q] # NoDriver
         /\ q \in Probes /\ won[q] # NoDriver /\ answers[q] # << >> =>
              answers[q][1] # NoDriver

\* cancel() sets cancelled and moves cancel_at on together, or does neither.
LEMMA CancelSteps ==
    ASSUME IInv, NEW q \in Requests, NEW m, NEW t, Cancel(q, m, t)
    PROVE  /\ cancelled' \in [Requests -> BOOLEAN]
           /\ cancel_at' \in [Requests -> Steps]
           /\ \A r \in Requests :
                /\ cancelled'[r] = (cancel_at'[r] # "idle")
                /\ cancel_at'[r] \in {"idle", "call"} => cancel_at[r] \in {"idle", "call"}
  <1>1. /\ cancelled \in [Requests -> BOOLEAN] /\ cancel_at \in [Requests -> Steps]
        /\ \A r \in Requests : cancelled[r] = (cancel_at[r] # "idle")
    BY DEF IInv
  <1>2. CASE cancelled[q]
    BY <1>1, <1>2 DEF Cancel
  <1>3. CASE ~cancelled[q]
    <2>1. PICK x \in {"done", "call"} : cancel_at' = [cancel_at EXCEPT ![q] = x]
      BY <1>3 DEF Cancel, Put
    <2>2. cancelled' = [cancelled EXCEPT ![q] = TRUE]
      BY <1>3 DEF Cancel, Put
    <2>3. cancelled' \in [Requests -> BOOLEAN] /\ cancel_at' \in [Requests -> Steps]
      BY <1>1, <2>1, <2>2 DEF Steps
    <2>4. cancel_at[q] = "idle"
      BY <1>1, <1>3
    <2>5. ASSUME NEW r \in Requests
          PROVE  /\ cancelled'[r] = (cancel_at'[r] # "idle")
                 /\ cancel_at'[r] \in {"idle", "call"} => cancel_at[r] \in {"idle", "call"}
      <3>1. CASE r = q
        BY <1>1, <2>1, <2>2, <2>4, <3>1
      <3>2. CASE r # q
        BY <1>1, <2>1, <2>2, <3>2
      <3> QED
        BY <3>1, <3>2
    <2> QED
      BY <2>3, <2>5
  <1> QED
    BY <1>2, <1>3

LEMMA SettleSteps ==
    ASSUME IInv, NEW q \in Requests, NEW m, NEW t, Settle(q, m, t)
    PROVE  /\ cancelled' \in [Requests -> BOOLEAN]
           /\ cancel_at' \in [Requests -> Steps]
           /\ \A r \in Requests :
                /\ cancelled'[r] = (cancel_at'[r] # "idle")
                /\ cancel_at'[r] \in {"idle", "call"} => cancel_at[r] \in {"idle", "call"}
  <1>1. CASE m = {}
    BY <1>1, CancelSteps DEF Settle
  <1>2. CASE m # {}
    BY <1>2 DEF Settle, IInv
  <1> QED BY <1>1, <1>2

\* Steps of cancel_at that neither answer nor touch what was found.
LEMMA QuietStep ==
    ASSUME IInv, UNCHANGED <<answers, source_builder, won>>,
           cancelled' \in [Requests -> BOOLEAN], cancel_at' \in [Requests -> Steps],
           \A r \in Requests :
             /\ cancelled'[r] = (cancel_at'[r] # "idle")
             /\ cancel_at'[r] \in {"idle", "call"} => cancel_at[r] \in {"idle", "call"}
    PROVE  IInv'
  BY DEF IInv

LEMMA InitIInv == Init => IInv
  BY TrackerAssumption DEF Init, IInv, Steps

LEMMA NextIInv == IInv /\ [Next]_vars => IInv'
  <1> SUFFICES ASSUME IInv, [Next]_vars PROVE IInv'
    OBVIOUS
  <1>1. ASSUME UNCHANGED <<answers, source_builder, won, cancelled, cancel_at>> PROVE IInv'
    BY <1>1 DEF IInv
  <1>2. CASE UNCHANGED vars
    BY <1>1, <1>2 DEF vars, found
  <1>3. CASE Cleanup
    BY <1>1, <1>3 DEF Cleanup, found
  <1>4. ASSUME NEW q \in Requests, Launched(q) PROVE IInv'
    <2>1. CASE Cancel(q, {}, IF q \in Lists THEN {Deadline} ELSE timers[q])
      BY <1>4, <2>1, CancelSteps, QuietStep DEF Launched, found
    <2>2. CASE UNCHANGED <<cancelled, cancel_at>>
      BY <1>1, <1>4, <2>2 DEF Launched, found
    <2> QED BY <1>4, <2>1, <2>2 DEF Launched
  <1>5. ASSUME NEW q \in Requests, Call(q) PROVE IInv'
    <2>1. cancelled' = cancelled /\ source_builder' = source_builder /\ won' = won
      BY <1>5 DEF Call, found
    <2>2. /\ cancel_at[q] = "call" /\ cancel_at' \in [Requests -> Steps]
          /\ cancel_at'[q] = "end"
          /\ \A r \in Requests \ {q} : cancel_at'[r] = cancel_at[r]
      BY <1>5 DEF Call, Put, IInv, Steps
    <2> DEFINE x == IF q \in Probes THEN source_builder[q] ELSE listed[q]
    <2>3. /\ answers' = [r \in Requests |-> answers'[r]]
          /\ \A r \in Requests \ {q} : answers'[r] = answers[r]
          /\ answers'[q] = Append(answers[q], x)
      BY <1>5 DEF Call, Put, IInv
    <2>4. answers[q] = << >>
      BY <2>2 DEF IInv
    <2>5. answers'[q] = <<x>>
      BY <2>3, <2>4
    <2>6. q \in Probes /\ won[q] # NoDriver => answers'[q][1] # NoDriver
      BY <2>5 DEF IInv
    <2> HIDE DEF x
    <2>7. \A r \in Requests :
            /\ cancelled'[r] = (cancel_at'[r] # "idle")
            /\ answers'[r] = << >> \/ \E y : answers'[r] = <<y>>
            /\ cancel_at'[r] \in {"idle", "call"} => answers'[r] = << >>
      <3> TAKE r \in Requests
      <3>1. CASE r = q
        BY <2>1, <2>2, <2>5, <3>1 DEF IInv
      <3>2. CASE r # q
        BY <2>1, <2>2, <2>3, <3>2 DEF IInv
      <3> QED BY <3>1, <3>2
    <2> QED BY <2>1, <2>2, <2>3, <2>6, <2>7 DEF IInv
  <1>6. ASSUME NEW q \in Requests, CallEnds(q) \/ Sweep(q) PROVE IInv'
    <2>1. /\ cancel_at' \in [Requests -> Steps] /\ cancelled' = cancelled
          /\ \A r \in Requests :
               /\ cancel_at[r] = "idle" <=> cancel_at'[r] = "idle"
               /\ cancel_at'[r] \in {"idle", "call"} => cancel_at[r] \in {"idle", "call"}
      BY <1>6 DEF CallEnds, Sweep, Put, IInv, Steps
    <2>2. UNCHANGED <<answers, source_builder, won>>
      BY <1>6 DEF CallEnds, Sweep, found
    <2>3. \A r \in Requests : cancelled'[r] = (cancel_at'[r] # "idle")
      BY <2>1 DEF IInv
    <2>4. cancelled' \in [Requests -> BOOLEAN]
      BY <2>1 DEF IInv
    <2> QED BY <2>1, <2>2, <2>3, <2>4, QuietStep
  <1>7. ASSUME NEW q \in Requests, Timeout(q) PROVE IInv'
    BY <1>1, <1>7 DEF Timeout, found
  <1>8. ASSUME NEW q \in Requests, TimerCancels(q) PROVE IInv'
    BY <1>8, CancelSteps, QuietStep DEF TimerCancels, found
  <1>9. ASSUME NEW q \in Requests, NEW d \in Drivers, LaunchTool(q, d) PROVE IInv'
    BY <1>1, <1>9 DEF LaunchTool, Take
  <1>10. ASSUME NEW q \in Requests, NEW d \in Drivers, LaunchFails(q, d) PROVE IInv'
    <2>1. CASE cancelled[q]
      BY <1>1, <1>10, <2>1 DEF LaunchFails, Take
    <2>2. CASE ~cancelled[q]
      BY <1>10, <2>2, SettleSteps, QuietStep DEF LaunchFails, Take
    <2> QED BY <2>1, <2>2
  <1>11. ASSUME NEW q \in Requests, NEW d \in Drivers, Complete(q, d) PROVE IInv'
    <2>1. UNCHANGED <<answers, cancelled, cancel_at>>
      BY <1>11 DEF Complete
    <2>2. CASE UNCHANGED <<source_builder, won>>
      BY <1>1, <2>1, <2>2
    <2>3. CASE /\ source_builder' = Put(source_builder, q, d)
               /\ won' = IF cancelled[q] \/ won[q] # NoDriver THEN won ELSE Put(won, q, d)
      <3>1. d # NoDriver
        BY TrackerAssumption
      <3>2. /\ source_builder' \in [Requests -> Drivers \cup {NoDriver}]
            /\ won' \in [Requests -> Drivers \cup {NoDriver}]
        BY <2>3 DEF Put, IInv
      <3>3. \A r \in Requests : won'[r] # NoDriver => source_builder'[r] # NoDriver
        BY <2>3, <3>1 DEF Put, IInv
      <3>4. \A r \in Requests : answers[r] # << >> => won'[r] = won[r]
        BY <2>3 DEF Put, IInv
      <3> QED BY <2>1, <3>2, <3>3, <3>4 DEF IInv
    <2> QED BY <1>11, <2>2, <2>3 DEF Complete
  <1>12. ASSUME NEW q \in Requests, NEW d \in Drivers, StrandCancels(q, d) PROVE IInv'
    BY <1>12, CancelSteps, QuietStep DEF StrandCancels, found
  <1>13. ASSUME NEW q \in Requests, NEW d \in Drivers, NEW s, ProbeReport(q, d, s) PROVE IInv'
    BY <1>1, <1>13 DEF ProbeReport, found
  <1>14. ASSUME NEW q \in Requests, NEW d \in Drivers, ListReport(q, d) PROVE IInv'
    <2>1. CASE cancelled[q]
      BY <1>1, <1>14, <2>1 DEF ListReport
    <2>2. CASE ~cancelled[q]
      BY <1>14, <2>2, SettleSteps, QuietStep DEF ListReport
    <2> QED BY <2>1, <2>2
  <1>15. ASSUME NEW q \in Requests, Begin(q) PROVE IInv'
    BY <1>1, <1>15 DEF Begin, found
  <1> QED
    BY <1>2, <1>3, <1>4, <1>5, <1>6, <1>7, <1>8, <1>9, <1>10, <1>11, <1>12, <1>13,
       <1>14, <1>15 DEF Next, Threads, Tools

\* A request calls back at most once (cancel, datasourcetracker.cc:58 and 239),
\* for any number of drivers, requests, reports and timers.
THEOREM RequestsAnswerOnce == Spec => []AnsweredOnce
  <1>1. IInv => AnsweredOnce
    <2> SUFFICES ASSUME IInv, NEW q \in Requests PROVE Len(answers[q]) <= 1
      BY DEF AnsweredOnce
    <2>1. CASE answers[q] = << >>
      BY <2>1
    <2>2. ASSUME NEW x, answers[q] = <<x>> PROVE Len(answers[q]) <= 1
      <3>1. Len(<<x>>) = 1
        OBVIOUS
      <3> QED BY <2>2, <3>1
    <2> QED BY <2>1, <2>2 DEF IInv
  <1> QED BY <1>1, InitIInv, NextIInv, PTL DEF Spec

\* A probe that took a success before it was cancelled never tells its opener
\* that there is no driver, although complete_probe drops the lock before it
\* cancels (datasourcetracker.cc:131).
THEOREM SuccessesCount == Spec => []SuccessCounts
  <1>1. IInv => SuccessCounts
    BY DEF IInv, SuccessCounts, Requests
  <1> QED BY <1>1, InitIInv, NextIInv, PTL DEF Spec

-----------------------------------------------------------------------------
(***************************************************************************)
(* What a request waits for (the types of DatasourceTracker).              *)
(***************************************************************************)

ToolSteps == {"idle", "asked", "yes", "no", "cancel", "over"}
Timed == Drivers \cup {NoDriver}
Awaited(q) == {d \in Drivers : tool[q][d] \in {"asked", "yes", "no"}}
AtTimer(q) == \E s \in firing : s[1] = q

\* Each table has its type, and the timer thread is at one request.
Tables ==
  /\ cancelled \in [Requests -> BOOLEAN] /\ cancel_at \in [Requests -> Steps]
  /\ todo \in [Requests -> SUBSET Drivers]
  /\ launching \in [Requests -> {"idle", "launch", "done"}]
  /\ ipc_map \in [Requests -> SUBSET Drivers]
  /\ timers \in [Requests -> SUBSET Timed]
  /\ tool \in [Requests -> [Drivers -> ToolSteps]]
  /\ tracked \subseteq Requests /\ complete \subseteq Requests
  /\ firing = {} \/ \E q \in Requests, s \in {"lock", "cancel"} : firing = {<<q, s>>}

\* What the tables say of one request: nothing is there before it begins, a
\* tool it has still to launch has done nothing, its map holds the tools that
\* owe a report, and each of these has a timer or the timer thread is at it.
Agrees(q) ==
  /\ launching[q] = "idle" =>
       /\ todo[q] = {} /\ timers[q] = {} /\ ~cancelled[q] /\ ~AtTimer(q)
       /\ \A d \in Drivers : tool[q][d] = "idle"
  /\ \A d \in todo[q] : tool[q][d] = "idle"
  /\ ~cancelled[q] => ipc_map[q] = Awaited(q) \cup (IF q \in Probes THEN todo[q] ELSE {})
  /\ q \in Probes /\ ~cancelled[q] /\ ~AtTimer(q) =>
       \A d \in Drivers : tool[q][d] = "asked" => d \in timers[q]
  /\ launching[q] # "idle" /\ cancel_at[q] \notin {"sweep", "done"} => q \in tracked

WaitInv == IInv /\ Tables /\ \A q \in Requests : Agrees(q)

\* A step leaves a request alone.
LeftAlone(r) ==
  /\ tool'[r] = tool[r] /\ todo'[r] = todo[r] /\ launching'[r] = launching[r]
  /\ ipc_map'[r] = ipc_map[r] /\ timers'[r] = timers[r]
  /\ cancelled'[r] = cancelled[r] /\ cancel_at'[r] = cancel_at[r]
  /\ (r \in tracked) = (r \in tracked') /\ AtTimer(r) = AtTimer(r)'

\* A request that is left alone agrees as before.
LEMMA LeftAgrees ==
  ASSUME NEW r \in Requests, Agrees(r), LeftAlone(r)
  PROVE  Agrees(r)'
<1>1. Awaited(r)' = Awaited(r)
  BY DEF LeftAlone, Awaited
<1> QED BY <1>1 DEF Agrees, LeftAlone

\* So a step need only look at the request it is about.
LEMMA OneAgrees ==
  ASSUME WaitInv, IInv', Tables', NEW q \in Requests, Agrees(q)',
         \A r \in Requests \ {q} : LeftAlone(r)
  PROVE  WaitInv'
<1>1. \A r \in Requests : Agrees(r)'
  <2> TAKE r \in Requests
  <2>1. CASE r = q
    BY <2>1
  <2>2. CASE r # q
    BY <2>2, LeftAgrees DEF WaitInv
  <2> QED BY <2>1, <2>2
<1> QED BY <1>1 DEF WaitInv

\* A cancelled request owes little.
LEMMA CancelledAgrees ==
  ASSUME NEW q \in Requests, cancelled'[q], launching'[q] # "idle",
         \A d \in todo'[q] : tool'[q][d] = "idle",
         cancel_at'[q] \notin {"sweep", "done"} => q \in tracked'
  PROVE  Agrees(q)'
BY DEF Agrees

\* cancel() marks its request, and touches no other.
LEMMA CancelMarks ==
  ASSUME WaitInv, NEW q \in Requests, NEW m \in SUBSET Drivers, NEW t \in SUBSET Timed,
         Cancel(q, m, t)
  PROVE  /\ cancelled' \in [Requests -> BOOLEAN] /\ cancel_at' \in [Requests -> Steps]
         /\ ipc_map' \in [Requests -> SUBSET Drivers] /\ timers' \in [Requests -> SUBSET Timed]
         /\ cancelled'[q]
         /\ cancel_at'[q] \notin {"sweep", "done"} => cancel_at[q] \notin {"sweep", "done"}
         /\ \A r \in Requests \ {q} :
              /\ cancelled'[r] = cancelled[r] /\ cancel_at'[r] = cancel_at[r]
              /\ ipc_map'[r] = ipc_map[r] /\ timers'[r] = timers[r]
<1>1. /\ cancelled \in [Requests -> BOOLEAN] /\ cancel_at \in [Requests -> Steps]
      /\ ipc_map \in [Requests -> SUBSET Drivers] /\ timers \in [Requests -> SUBSET Timed]
      /\ ~cancelled[q] => cancel_at[q] = "idle"
  BY DEF WaitInv, Tables, IInv
<1>2. CASE cancelled[q]
  BY <1>1, <1>2 DEF Cancel, Put
<1>3. CASE ~cancelled[q]
  <2>1. PICK a \in {"done", "call"} : cancel_at' = [cancel_at EXCEPT ![q] = a]
    BY <1>3 DEF Cancel, Put
  <2>2. PICK n \in SUBSET Drivers : ipc_map' = [ipc_map EXCEPT ![q] = n]
    BY <1>3 DEF Cancel, Put
  <2>3. cancelled' = [cancelled EXCEPT ![q] = TRUE] /\ timers' = [timers EXCEPT ![q] = {}]
    BY <1>3 DEF Cancel, Put
  <2> QED BY <1>1, <1>3, <2>1, <2>2, <2>3 DEF Steps
<1> QED BY <1>2, <1>3

\* A report whose request is cancelled with it, or goes on waiting.
LEMMA SettleMarks ==
  ASSUME WaitInv, NEW q \in Requests, NEW m \in SUBSET Drivers, NEW t \in SUBSET Timed,
         Settle(q, m, t)
  PROVE  /\ cancelled' \in [Requests -> BOOLEAN] /\ cancel_at' \in [Requests -> Steps]
         /\ ipc_map' \in [Requests -> SUBSET Drivers] /\ timers' \in [Requests -> SUBSET Timed]
         /\ \/ cancelled'[q]
            \/ /\ ipc_map'[q] = m /\ timers'[q] = t
               /\ cancelled' = cancelled /\ cancel_at' = cancel_at
         /\ cancel_at'[q] \notin {"sweep", "done"} => cancel_at[q] \notin {"sweep", "done"}
         /\ \A r \in Requests \ {q} :
              /\ cancelled'[r] = cancelled[r] /\ cancel_at'[r] = cancel_at[r]
              /\ ipc_map'[r] = ipc_map[r] /\ timers'[r] = timers[r]
<1>1. CASE m = {}
  BY <1>1, CancelMarks DEF Settle
<1>2. CASE m # {}
  <2>1. /\ ipc_map' = [ipc_map EXCEPT ![q] = m] /\ timers' = [timers EXCEPT ![q] = t]
        /\ cancelled' = cancelled /\ cancel_at' = cancel_at
    BY <1>2 DEF Settle, Put
  <2> QED BY <2>1 DEF WaitInv, Tables
<1> QED BY <1>1, <1>2

\* Nothing has begun.
LEMMA WaitInitially == Init => WaitInv
<1> SUFFICES ASSUME Init PROVE WaitInv
  OBVIOUS
<1>1. Tables
  BY DEF Init, Tables, Steps, ToolSteps
<1>2. ASSUME NEW q \in Requests PROVE Agrees(q)
  BY DEF Init, Agrees, Awaited, AtTimer
<1> QED BY <1>1, <1>2, InitIInv DEF WaitInv

\* Launching.
LEMMA LaunchWaits ==
  ASSUME WaitInv, IInv', NEW q \in Requests,
         \/ Begin(q) \/ Launched(q)
         \/ \E d \in Drivers : LaunchTool(q, d) \/ LaunchFails(q, d)
  PROVE  WaitInv'
<1>i. Tables /\ Agrees(q) /\ (cancelled[q] = (cancel_at[q] # "idle"))
  BY DEF WaitInv, IInv
<1>1. CASE Begin(q)
  <2>1. PICK S \in SUBSET Drivers :
          /\ todo' = Put(todo, q, S)
          /\ ipc_map' = Put(ipc_map, q, IF q \in Probes THEN S ELSE {})
    BY <1>1 DEF Begin
  <2>2. /\ launching[q] = "idle" /\ launching' = Put(launching, q, "launch")
        /\ tracked' = tracked \cup {q}
        /\ UNCHANGED <<complete, tool, timers, firing, cancelled, cancel_at>>
    BY <1>1 DEF Begin
  <2>3. Tables'
    BY <1>i, <2>1, <2>2 DEF Tables, Put
  <2>4. todo'[q] = S /\ ipc_map'[q] = IF q \in Probes THEN S ELSE {}
    BY <1>i, <2>1 DEF Tables, Put
  <2>5. Awaited(q)' = {}
    BY <1>i, <2>2 DEF Awaited, Agrees
  <2>6. Agrees(q)'
    BY <1>i, <2>2, <2>4, <2>5 DEF Agrees, Tables, Put
  <2>7. \A r \in Requests \ {q} : LeftAlone(r)
    BY <1>i, <2>1, <2>2 DEF Tables, LeftAlone, Put, AtTimer
  <2> QED BY <2>3, <2>6, <2>7, OneAgrees
<1>2. CASE Launched(q)
  <2> DEFINE t == IF q \in Lists THEN {Deadline} ELSE timers[q]
  <2>1. /\ launching[q] = "launch" /\ todo[q] = {}
        /\ UNCHANGED <<todo, tracked, complete, tool, firing>>
    BY <1>2 DEF Launched, tracker
  <2>2. t \in SUBSET Timed
    BY <1>i DEF Tables, Timed, Deadline
  <2>3. CASE Cancel(q, {}, t) /\ UNCHANGED launching
    <3>1. /\ cancelled' \in [Requests -> BOOLEAN] /\ cancel_at' \in [Requests -> Steps]
          /\ ipc_map' \in [Requests -> SUBSET Drivers] /\ timers' \in [Requests -> SUBSET Timed]
          /\ cancelled'[q]
          /\ cancel_at'[q] \notin {"sweep", "done"} => cancel_at[q] \notin {"sweep", "done"}
          /\ \A r \in Requests \ {q} :
               /\ cancelled'[r] = cancelled[r] /\ cancel_at'[r] = cancel_at[r]
               /\ ipc_map'[r] = ipc_map[r] /\ timers'[r] = timers[r]
      BY <2>2, <2>3, CancelMarks
    <3>2. Tables'
      BY <1>i, <2>1, <2>3, <3>1 DEF Tables
    <3>3. Agrees(q)'
      BY <1>i, <2>1, <2>3, <3>1, CancelledAgrees DEF Agrees
    <3>4. \A r \in Requests \ {q} : LeftAlone(r)
      BY <2>1, <2>3, <3>1 DEF LeftAlone, AtTimer
    <3> QED BY <3>2, <3>3, <3>4, OneAgrees
  <2>4. CASE /\ launching' = Put(launching, q, "done") /\ timers' = Put(timers, q, t)
             /\ UNCHANGED <<ipc_map, cancelled, cancel_at>>
    <3>1. Tables'
      BY <1>i, <2>1, <2>2, <2>4 DEF Tables, Put
    <3>2. Awaited(q)' = Awaited(q) /\ AtTimer(q)' = AtTimer(q)
      BY <2>1 DEF Awaited, AtTimer
    <3>3. timers'[q] = t /\ (q \in Probes => t = timers[q]) /\ launching'[q] = "done"
      BY <1>i, <2>4, TrackerAssumption DEF Tables, Put
    <3>4. Agrees(q)'
      BY <1>i, <2>1, <2>4, <3>2, <3>3 DEF Agrees
    <3>5. \A r \in Requests \ {q} : LeftAlone(r)
      BY <1>i, <2>1, <2>4 DEF Tables, LeftAlone, Put, AtTimer
    <3> QED BY <3>1, <3>4, <3>5, OneAgrees
  <2> QED BY <1>2, <2>3, <2>4 DEF Launched
<1>3. ASSUME NEW d \in Drivers, LaunchTool(q, d) PROVE WaitInv'
  <2>1. /\ launching[q] = "launch" /\ d \in todo[q]
        /\ todo' = Put(todo, q, todo[q] \ {d}) /\ tool' = [tool EXCEPT ![q][d] = "asked"]
        /\ ipc_map' = Put(ipc_map, q, ipc_map[q] \cup {d})
        /\ timers' = IF q \in Probes THEN Put(timers, q, timers[q] \cup {d}) ELSE timers
        /\ UNCHANGED <<launching, tracked, complete, firing, cancelled, cancel_at>>
    BY <1>3 DEF LaunchTool, Take, tracker
  <2>2. Tables'
    BY <1>i, <2>1 DEF Tables, Put, ToolSteps, Timed
  <2>3. /\ todo'[q] = todo[q] \ {d} /\ ipc_map'[q] = ipc_map[q] \cup {d}
        /\ tool'[q][d] = "asked" /\ \A e \in Drivers \ {d} : tool'[q][e] = tool[q][e]
        /\ timers[q] \subseteq timers'[q] /\ (q \in Probes => d \in timers'[q])
    BY <1>i, <2>1 DEF Tables, Put
  <2>4. Awaited(q)' = Awaited(q) \cup {d}
    BY <2>3 DEF Awaited
  <2>5. \A e \in todo'[q] : tool'[q][e] = "idle"
    BY <1>i, <2>3 DEF Agrees, Tables
  <2>6. ~cancelled'[q] => ipc_map'[q] = Awaited(q)' \cup (IF q \in Probes THEN todo'[q] ELSE {})
    BY <1>i, <2>1, <2>3, <2>4 DEF Agrees
  <2>7. AtTimer(q)' = AtTimer(q)
    BY <2>1 DEF AtTimer
  <2>8. q \in Probes /\ ~cancelled'[q] /\ ~AtTimer(q)' =>
          \A e \in Drivers : tool'[q][e] = "asked" => e \in timers'[q]
    BY <1>i, <2>1, <2>3, <2>7 DEF Agrees
  <2>9. Agrees(q)'
    BY <1>i, <2>1, <2>5, <2>6, <2>8 DEF Agrees
  <2>10. \A r \in Requests \ {q} : LeftAlone(r)
    BY <1>i, <2>1 DEF Tables, LeftAlone, Put, AtTimer
  <2> QED BY <2>2, <2>9, <2>10, OneAgrees
<1>4. ASSUME NEW d \in Drivers, LaunchFails(q, d) PROVE WaitInv'
  <2>1. /\ launching[q] = "launch" /\ d \in todo[q]
        /\ todo' = Put(todo, q, todo[q] \ {d}) /\ tool' = [tool EXCEPT ![q][d] = "over"]
        /\ UNCHANGED <<launching, tracked, complete, firing>>
    BY <1>4 DEF LaunchFails, Take, tracker
  <2>2. /\ todo' \in [Requests -> SUBSET Drivers] /\ tool' \in [Requests -> [Drivers -> ToolSteps]]
        /\ todo'[q] = todo[q] \ {d} /\ tool'[q][d] = "over"
        /\ \A e \in Drivers \ {d} : tool'[q][e] = tool[q][e]
        /\ \A r \in Requests \ {q} : todo'[r] = todo[r] /\ tool'[r] = tool[r]
    BY <1>i, <2>1 DEF Tables, Put, ToolSteps
  <2>3. \A e \in todo'[q] : tool'[q][e] = "idle"
    BY <1>i, <2>2 DEF Agrees, Tables
  <2>4. CASE cancelled[q]
    <3>1. ipc_map' = Put(ipc_map, q, ipc_map[q] \cup {d}) /\ UNCHANGED <<timers, cancelled, cancel_at>>
      BY <1>4, <2>4 DEF LaunchFails
    <3>2. Tables'
      BY <1>i, <2>1, <2>2, <3>1 DEF Tables, Put
    <3>3. Agrees(q)'
      BY <1>i, <2>1, <2>3, <2>4, <3>1 DEF Agrees
    <3>4. \A r \in Requests \ {q} : LeftAlone(r)
      BY <1>i, <2>1, <2>2, <3>1 DEF Tables, LeftAlone, Put, AtTimer
    <3> QED BY <3>2, <3>3, <3>4, OneAgrees
  <2>5. CASE ~cancelled[q]
    <3> DEFINE m == ipc_map[q] \ {d}
    <3>1. Settle(q, m, timers[q]) /\ m \in SUBSET Drivers /\ timers[q] \in SUBSET Timed
      BY <1>i, <1>4, <2>5 DEF LaunchFails, Tables
    <3> HIDE DEF m
    <3>2. /\ cancelled' \in [Requests -> BOOLEAN] /\ cancel_at' \in [Requests -> Steps]
          /\ ipc_map' \in [Requests -> SUBSET Drivers] /\ timers' \in [Requests -> SUBSET Timed]
          /\ \/ cancelled'[q]
             \/ /\ ipc_map'[q] = m /\ timers'[q] = timers[q]
                /\ cancelled' = cancelled /\ cancel_at' = cancel_at
          /\ cancel_at'[q] \notin {"sweep", "done"} => cancel_at[q] \notin {"sweep", "done"}
          /\ \A r \in Requests \ {q} :
               /\ cancelled'[r] = cancelled[r] /\ cancel_at'[r] = cancel_at[r]
               /\ ipc_map'[r] = ipc_map[r] /\ timers'[r] = timers[r]
      BY <3>1, SettleMarks
    <3>3. Tables'
      <4>1. UNCHANGED <<launching, tracked, complete, firing>>
        BY <2>1
      <4> QED BY <1>i, <2>2, <3>2, <4>1 DEF Tables
    <3>4. ASSUME cancelled'[q] PROVE Agrees(q)'
      BY <1>i, <2>1, <2>3, <3>2, <3>4, CancelledAgrees DEF Agrees
    <3>5. ASSUME ipc_map'[q] = m, timers'[q] = timers[q], UNCHANGED <<cancelled, cancel_at>>
          PROVE  Agrees(q)'
      <4>1. tool[q][d] = "idle" /\ Awaited(q)' = Awaited(q) /\ d \notin Awaited(q)
        BY <1>i, <2>1, <2>2 DEF Agrees, Awaited
      <4>2. ipc_map'[q] = Awaited(q)' \cup (IF q \in Probes THEN todo'[q] ELSE {})
        BY <1>i, <2>2, <2>5, <3>5, <4>1 DEF Agrees, m
      <4>3. AtTimer(q)' = AtTimer(q)
        BY <2>1 DEF AtTimer
      <4>4. q \in Probes /\ ~AtTimer(q)' =>
              \A e \in Drivers : tool'[q][e] = "asked" => e \in timers'[q]
        BY <1>i, <2>2, <2>5, <3>5, <4>3 DEF Agrees
      <4> QED BY <1>i, <2>1, <2>3, <3>5, <4>2, <4>4 DEF Agrees
    <3>6. Agrees(q)'
      BY <3>2, <3>4, <3>5
    <3>7. \A r \in Requests \ {q} : LeftAlone(r)
      BY <2>1, <2>2, <3>2 DEF LeftAlone, AtTimer
    <3> QED BY <3>3, <3>6, <3>7, OneAgrees
  <2> QED BY <2>4, <2>5
<1> QED BY <1>1, <1>2, <1>3, <1>4

\* A report to a probe, up to the lock.
LEMMA ProbeReportWaits ==
  ASSUME WaitInv, IInv', NEW q \in Requests, NEW d \in Drivers, NEW success \in BOOLEAN,
         ProbeReport(q, d, success)
  PROVE  WaitInv'
<1>i. Tables /\ Agrees(q)
  BY DEF WaitInv
<1>1. PICK a \in {"over", "yes", "no"} :
        /\ tool' = [tool EXCEPT ![q][d] = a] /\ (~cancelled[q] => a # "over")
  BY DEF ProbeReport
<1>2. /\ q \in Probes /\ tool[q][d] = "asked" /\ timers' = Put(timers, q, timers[q] \ {d})
      /\ UNCHANGED <<todo, launching, tracked, complete, ipc_map, firing, cancelled, cancel_at>>
  BY DEF ProbeReport, starting, tracker
<1>3. Tables'
  BY <1>i, <1>1, <1>2 DEF Tables, Put, ToolSteps
<1>4. /\ timers'[q] = timers[q] \ {d} /\ tool'[q][d] = a
      /\ \A e \in Drivers \ {d} : tool'[q][e] = tool[q][e]
  BY <1>i, <1>1, <1>2 DEF Tables, Put
<1>5. ~cancelled[q] => Awaited(q)' = Awaited(q)
  BY <1>1, <1>2, <1>4 DEF Awaited
<1>6. AtTimer(q)' = AtTimer(q)
  BY <1>2 DEF AtTimer
<1>7. \A e \in todo'[q] : tool'[q][e] = "idle"
  BY <1>i, <1>2, <1>4 DEF Agrees, Tables
<1>8. ~cancelled'[q] /\ ~AtTimer(q)' =>
        \A e \in Drivers : tool'[q][e] = "asked" => e \in timers'[q]
  BY <1>i, <1>1, <1>2, <1>4, <1>6 DEF Agrees
<1>9. Agrees(q)'
  BY <1>i, <1>2, <1>5, <1>7, <1>8 DEF Agrees
<1>10. \A r \in Requests \ {q} : LeftAlone(r)
  BY <1>i, <1>1, <1>2 DEF Tables, LeftAlone, Put, AtTimer
<1> QED BY <1>3, <1>9, <1>10, OneAgrees

\* The rest of a report to a probe.
LEMMA CompleteWaits ==
  ASSUME WaitInv, IInv', NEW q \in Requests, NEW d \in Drivers, Complete(q, d)
  PROVE  WaitInv'
<1>i. Tables /\ Agrees(q)
  BY DEF WaitInv
<1>1. PICK a \in {"cancel", "over"} : tool' = [tool EXCEPT ![q][d] = a]
  BY DEF Complete
<1>2. /\ tool[q][d] \in {"yes", "no"} /\ ipc_map' = Put(ipc_map, q, ipc_map[q] \ {d})
      /\ UNCHANGED <<todo, launching, tracked, complete, timers, firing, cancelled, cancel_at>>
  BY DEF Complete, starting, tracker
<1>3. Tables'
  BY <1>i, <1>1, <1>2 DEF Tables, Put, ToolSteps
<1>4. /\ ipc_map'[q] = ipc_map[q] \ {d} /\ tool'[q][d] = a /\ d \notin todo[q]
      /\ \A e \in Drivers \ {d} : tool'[q][e] = tool[q][e]
  BY <1>i, <1>1, <1>2 DEF Tables, Put, Agrees
<1>5. Awaited(q)' = Awaited(q) \ {d}
  BY <1>4 DEF Awaited
<1>6. AtTimer(q)' = AtTimer(q)
  BY <1>2 DEF AtTimer
<1>7. \A e \in todo'[q] : tool'[q][e] = "idle"
  BY <1>i, <1>2, <1>4 DEF Agrees, Tables
<1>8. q \in Probes /\ ~cancelled'[q] /\ ~AtTimer(q)' =>
        \A e \in Drivers : tool'[q][e] = "asked" => e \in timers'[q]
  BY <1>i, <1>1, <1>2, <1>4, <1>6 DEF Agrees
<1>9. ~cancelled'[q] => ipc_map'[q] = Awaited(q)' \cup (IF q \in Probes THEN todo'[q] ELSE {})
  BY <1>i, <1>2, <1>4, <1>5 DEF Agrees
<1>10. Agrees(q)'
  BY <1>i, <1>2, <1>7, <1>8, <1>9 DEF Agrees
<1>11. \A r \in Requests \ {q} : LeftAlone(r)
  BY <1>i, <1>1, <1>2 DEF Tables, LeftAlone, Put, AtTimer
<1> QED BY <1>3, <1>10, <1>11, OneAgrees

\* A request has begun when a tool of it has done something or it is
\* cancelled.
LEMMA HasBegun ==
  ASSUME WaitInv, NEW q \in Requests,
         cancelled[q] \/ AtTimer(q) \/ timers[q] # {} \/ \E d \in Drivers : tool[q][d] # "idle"
  PROVE  launching[q] # "idle"
BY DEF WaitInv, Agrees

\* The cancel() a report calls for.
LEMMA StrandWaits ==
  ASSUME WaitInv, IInv', NEW q \in Requests, NEW d \in Drivers, StrandCancels(q, d)
  PROVE  WaitInv'
<1>i. Tables /\ Agrees(q) /\ ipc_map[q] \in SUBSET Drivers /\ timers[q] \in SUBSET Timed
  BY DEF WaitInv, Tables
<1>1. /\ tool[q][d] = "cancel" /\ tool' = [tool EXCEPT ![q][d] = "over"]
      /\ Cancel(q, ipc_map[q], timers[q])
      /\ UNCHANGED <<todo, launching, tracked, complete, firing>>
  BY DEF StrandCancels, starting, tracker
<1>2. /\ cancelled' \in [Requests -> BOOLEAN] /\ cancel_at' \in [Requests -> Steps]
      /\ ipc_map' \in [Requests -> SUBSET Drivers] /\ timers' \in [Requests -> SUBSET Timed]
      /\ cancelled'[q]
      /\ cancel_at'[q] \notin {"sweep", "done"} => cancel_at[q] \notin {"sweep", "done"}
      /\ \A r \in Requests \ {q} :
           /\ cancelled'[r] = cancelled[r] /\ cancel_at'[r] = cancel_at[r]
           /\ ipc_map'[r] = ipc_map[r] /\ timers'[r] = timers[r]
  BY <1>i, <1>1, CancelMarks
<1>3. Tables'
  BY <1>i, <1>1, <1>2 DEF Tables, ToolSteps
<1>4. launching[q] # "idle" /\ \A e \in todo[q] : tool'[q][e] = "idle"
  BY <1>i, <1>1, HasBegun DEF Agrees, Tables
<1>5. Agrees(q)'
  BY <1>i, <1>1, <1>2, <1>4, CancelledAgrees DEF Agrees
<1>6. \A r \in Requests \ {q} : LeftAlone(r)
  BY <1>i, <1>1, <1>2 DEF Tables, LeftAlone, AtTimer
<1> QED BY <1>3, <1>5, <1>6, OneAgrees

\* A report to a list.
LEMMA ListReportWaits ==
  ASSUME WaitInv, IInv', NEW q \in Requests, NEW d \in Drivers, ListReport(q, d)
  PROVE  WaitInv'
<1>i. Tables /\ Agrees(q)
  BY DEF WaitInv
<1>1. /\ q \in Lists /\ tool[q][d] = "asked" /\ tool' = [tool EXCEPT ![q][d] = "over"]
      /\ UNCHANGED <<todo, launching, tracked, complete, firing>>
  BY DEF ListReport, starting, tracker
<1>2. /\ tool' \in [Requests -> [Drivers -> ToolSteps]] /\ tool'[q][d] = "over"
      /\ \A e \in Drivers \ {d} : tool'[q][e] = tool[q][e]
      /\ \A r \in Requests \ {q} : tool'[r] = tool[r]
  BY <1>i, <1>1 DEF Tables, ToolSteps
<1>3. launching[q] # "idle" /\ \A e \in todo'[q] : tool'[q][e] = "idle"
  BY <1>i, <1>1, <1>2, HasBegun DEF Agrees, Tables
<1>4. CASE cancelled[q]
  <2>1. UNCHANGED <<ipc_map, timers, cancelled, cancel_at>>
    BY <1>4 DEF ListReport
  <2>2. Tables'
    BY <1>i, <1>1, <1>2, <2>1 DEF Tables
  <2>3. Agrees(q)'
    BY <1>i, <1>1, <1>3, <1>4, <2>1, CancelledAgrees DEF Agrees
  <2>4. \A r \in Requests \ {q} : LeftAlone(r)
    BY <1>1, <1>2, <2>1 DEF LeftAlone, AtTimer
  <2> QED BY <2>2, <2>3, <2>4, OneAgrees
<1>5. CASE ~cancelled[q]
  <2> DEFINE m == ipc_map[q] \ {d}
  <2>1. Settle(q, m, timers[q]) /\ m \in SUBSET Drivers /\ timers[q] \in SUBSET Timed
    BY <1>i, <1>5 DEF ListReport, Tables
  <2> HIDE DEF m
  <2>2. /\ cancelled' \in [Requests -> BOOLEAN] /\ cancel_at' \in [Requests -> Steps]
        /\ ipc_map' \in [Requests -> SUBSET Drivers] /\ timers' \in [Requests -> SUBSET Timed]
        /\ \/ cancelled'[q]
           \/ /\ ipc_map'[q] = m /\ timers'[q] = timers[q]
              /\ cancelled' = cancelled /\ cancel_at' = cancel_at
        /\ cancel_at'[q] \notin {"sweep", "done"} => cancel_at[q] \notin {"sweep", "done"}
        /\ \A r \in Requests \ {q} :
             /\ cancelled'[r] = cancelled[r] /\ cancel_at'[r] = cancel_at[r]
             /\ ipc_map'[r] = ipc_map[r] /\ timers'[r] = timers[r]
    BY <2>1, SettleMarks
  <2>3. Tables'
    BY <1>i, <1>1, <1>2, <2>2 DEF Tables
  <2>4. ASSUME cancelled'[q] PROVE Agrees(q)'
    BY <1>i, <1>1, <1>3, <2>2, <2>4, CancelledAgrees DEF Agrees
  <2>5. ASSUME ipc_map'[q] = m, UNCHANGED <<cancelled, cancel_at>> PROVE Agrees(q)'
    <3>1. Awaited(q)' = Awaited(q) \ {d} /\ d \notin todo[q]
      BY <1>i, <1>1, <1>2 DEF Awaited, Agrees
    <3>2. q \notin Probes
      BY <1>1, TrackerAssumption
    <3>3. ipc_map'[q] = Awaited(q)'
      BY <1>i, <1>5, <2>5, <3>1, <3>2 DEF Agrees, m
    <3> QED BY <1>i, <1>1, <1>3, <2>5, <3>2, <3>3 DEF Agrees
  <2>6. Agrees(q)'
    BY <2>2, <2>4, <2>5
  <2>7. \A r \in Requests \ {q} : LeftAlone(r)
    BY <1>1, <1>2, <2>2 DEF LeftAlone, AtTimer
  <2> QED BY <2>3, <2>6, <2>7, OneAgrees
<1> QED BY <1>4, <1>5

\* The rest of cancel().
LEMMA CallWaits ==
  ASSUME WaitInv, IInv', NEW q \in Requests, Call(q) \/ CallEnds(q) \/ Sweep(q)
  PROVE  WaitInv'
<1>i. Tables /\ Agrees(q) /\ (cancelled[q] = (cancel_at[q] # "idle"))
  BY DEF WaitInv, IInv
<1>1. UNCHANGED <<todo, launching, tool, timers, cancelled>>
  BY DEF Call, CallEnds, Sweep, starting
<1>2. cancelled[q]
  BY <1>i DEF Call, CallEnds, Sweep
<1>3. launching[q] # "idle"
  BY <1>2, HasBegun
<1>4. CASE Call(q)
  <2>1. /\ cancel_at[q] = "call" /\ cancel_at' = Put(cancel_at, q, "end")
        /\ complete' = IF q \in tracked \cap Probes THEN complete \cup {q} ELSE complete
        /\ UNCHANGED <<tracked, ipc_map, firing>>
    BY <1>4 DEF Call
  <2>2. Tables'
    BY <1>i, <1>1, <2>1 DEF Tables, Put, Steps
  <2>3. Agrees(q)'
    BY <1>i, <1>1, <1>2, <1>3, <2>1, CancelledAgrees DEF Agrees
  <2>4. \A r \in Requests \ {q} : LeftAlone(r)
    BY <1>i, <1>1, <2>1 DEF Tables, LeftAlone, Put, AtTimer
  <2> QED BY <2>2, <2>3, <2>4, OneAgrees
<1>5. CASE CallEnds(q)
  <2>1. /\ cancel_at' = Put(cancel_at, q, "sweep") /\ tracked' = tracked \ {q}
        /\ complete' = IF q \in tracked \cap Lists THEN complete \cup {q} ELSE complete
        /\ UNCHANGED <<ipc_map, firing>>
    BY <1>5 DEF CallEnds
  <2>2. Tables' /\ cancel_at'[q] = "sweep"
    BY <1>i, <1>1, <2>1 DEF Tables, Put, Steps
  <2>3. Agrees(q)'
    BY <1>i, <1>1, <1>2, <1>3, <2>2, CancelledAgrees DEF Agrees
  <2>4. \A r \in Requests \ {q} : LeftAlone(r)
    BY <1>i, <1>1, <2>1 DEF Tables, LeftAlone, Put, AtTimer
  <2> QED BY <2>2, <2>3, <2>4, OneAgrees
<1>6. CASE Sweep(q)
  <2>1. /\ cancel_at' = Put(cancel_at, q, "done") /\ ipc_map' = Put(ipc_map, q, {})
        /\ firing' = firing \ {<<q, "cancel">>} /\ UNCHANGED <<tracked, complete>>
    BY <1>6 DEF Sweep, tracker
  <2>2. firing' = firing \/ firing' = {}
    BY <1>i, <2>1 DEF Tables
  <2>3. Tables' /\ cancel_at'[q] = "done"
    BY <1>i, <1>1, <2>1, <2>2 DEF Tables, Put, Steps
  <2>4. Agrees(q)'
    BY <1>i, <1>1, <1>2, <1>3, <2>3, CancelledAgrees DEF Agrees
  <2>5. \A r \in Requests \ {q} : AtTimer(r)' = AtTimer(r)
    BY <2>1 DEF AtTimer
  <2>6. \A r \in Requests \ {q} : LeftAlone(r)
    BY <1>i, <1>1, <2>1, <2>5 DEF Tables, LeftAlone, Put
  <2> QED BY <2>3, <2>4, <2>6, OneAgrees
<1> QED BY <1>4, <1>5, <1>6

\* The timer thread.
LEMMA TimerWaits ==
  ASSUME WaitInv, IInv', NEW q \in Requests, Timeout(q) \/ TimerCancels(q)
  PROVE  WaitInv'
<1>i. Tables /\ Agrees(q) /\ (cancelled[q] = (cancel_at[q] # "idle"))
  BY DEF WaitInv, IInv
<1>1. UNCHANGED <<todo, launching, tool, tracked, complete>>
  BY DEF Timeout, TimerCancels, starting, tracker
<1>2. CASE Timeout(q)
  <2>1. PICK x \in timers[q] : timers' = Put(timers, q, timers[q] \ {x})
    BY <1>2 DEF Timeout
  <2>2. firing = {} /\ firing' = {<<q, "lock">>} /\ UNCHANGED <<ipc_map, cancelled, cancel_at>>
    BY <1>2 DEF Timeout
  <2>3. Tables'
    BY <1>i, <1>1, <2>1, <2>2 DEF Tables, Put
  <2>4. launching[q] # "idle"
    BY <2>1, HasBegun
  <2>5. AtTimer(q)' /\ Awaited(q)' = Awaited(q)
    BY <1>1, <2>2 DEF AtTimer, Awaited
  <2>6. Agrees(q)'
    BY <1>i, <1>1, <2>2, <2>4, <2>5 DEF Agrees
  <2>7. \A r \in Requests \ {q} : LeftAlone(r)
    BY <1>i, <1>1, <2>1, <2>2 DEF Tables, LeftAlone, Put, AtTimer
  <2> QED BY <2>3, <2>6, <2>7, OneAgrees
<1>3. CASE TimerCancels(q)
  <2>1. ipc_map[q] \in SUBSET Drivers /\ timers[q] \in SUBSET Timed
    BY <1>i DEF Tables
  <2>2. <<q, "lock">> \in firing /\ Cancel(q, ipc_map[q], timers[q])
    BY <1>3 DEF TimerCancels
  <2>3. /\ cancelled' \in [Requests -> BOOLEAN] /\ cancel_at' \in [Requests -> Steps]
        /\ ipc_map' \in [Requests -> SUBSET Drivers] /\ timers' \in [Requests -> SUBSET Timed]
        /\ cancelled'[q]
        /\ cancel_at'[q] \notin {"sweep", "done"} => cancel_at[q] \notin {"sweep", "done"}
        /\ \A r \in Requests \ {q} :
             /\ cancelled'[r] = cancelled[r] /\ cancel_at'[r] = cancel_at[r]
             /\ ipc_map'[r] = ipc_map[r] /\ timers'[r] = timers[r]
    BY <2>1, <2>2, CancelMarks
  <2>4. firing = {<<q, "lock">>} /\ (firing' = {<<q, "cancel">>} \/ firing' = {})
    BY <1>i, <1>3, <2>2 DEF Tables, TimerCancels
  <2>5. Tables'
    BY <1>i, <1>1, <2>3, <2>4 DEF Tables
  <2>6. launching[q] # "idle"
    BY <2>4, HasBegun DEF AtTimer
  <2>7. Agrees(q)'
    BY <1>i, <1>1, <2>3, <2>6, CancelledAgrees DEF Agrees
  <2>8. \A r \in Requests \ {q} : LeftAlone(r)
    BY <1>1, <2>3, <2>4 DEF LeftAlone, AtTimer
  <2> QED BY <2>5, <2>7, <2>8, OneAgrees
<1> QED BY <1>2, <1>3

\* A step that no request is about.
LEMMA OthersWait ==
  ASSUME WaitInv, IInv', Cleanup \/ UNCHANGED vars
  PROVE  WaitInv'
<1>1. /\ complete' = {} \/ complete' = complete
      /\ UNCHANGED <<todo, launching, tool, tracked, ipc_map, timers, firing, cancelled, cancel_at>>
  BY DEF Cleanup, vars, starting, tracker
<1>2. Tables'
  BY <1>1 DEF WaitInv, Tables
<1>3. ASSUME NEW q \in Requests PROVE Agrees(q)'
  BY <1>1, LeftAgrees DEF WaitInv, LeftAlone, AtTimer
<1> QED BY <1>2, <1>3 DEF WaitInv

\* Every step keeps it.
LEMMA WaitNext == WaitInv /\ [Next]_vars => WaitInv'
<1> SUFFICES ASSUME WaitInv, [Next]_vars PROVE WaitInv'
  OBVIOUS
<1>i. IInv'
  BY NextIInv DEF WaitInv
<1>1. ASSUME NEW q \in Requests, Begin(q) \/ Launched(q) PROVE WaitInv'
  BY <1>i, <1>1, LaunchWaits
<1>2. ASSUME NEW q \in Requests, NEW d \in Drivers, LaunchTool(q, d) \/ LaunchFails(q, d)
      PROVE  WaitInv'
  BY <1>i, <1>2, LaunchWaits
<1>3. ASSUME NEW q \in Requests, NEW d \in Drivers, Complete(q, d) \/ StrandCancels(q, d)
      PROVE  WaitInv'
  BY <1>i, <1>3, CompleteWaits, StrandWaits
<1>4. ASSUME NEW q \in Requests, Call(q) \/ CallEnds(q) \/ Sweep(q) \/ Timeout(q) \/ TimerCancels(q)
      PROVE  WaitInv'
  BY <1>i, <1>4, CallWaits, TimerWaits
<1>5. CASE Tools
  BY <1>i, <1>5, ProbeReportWaits, ListReportWaits DEF Tools
<1>6. CASE Cleanup \/ UNCHANGED vars
  BY <1>i, <1>6, OthersWait
<1> QED BY <1>1, <1>2, <1>3, <1>4, <1>5, <1>6 DEF Next, Threads

\* The type invariant of the tracker (probe_source, list_interfaces and
\* cancel, datasourcetracker.cc): a live request waits for exactly the tools
\* that still owe it a report, every tool a live probe has asked has a timer
\* that can still end it or the timer thread is about to, and a request stays
\* in the tracker's maps until its callback is through.
THEOREM RequestTypeCorrect == Spec => []TypeOK
<1>1. WaitInv => TypeOK
  <2> SUFFICES ASSUME WaitInv PROVE TypeOK
    OBVIOUS
  <2>1. ASSUME NEW q \in Requests
        PROVE  /\ cancelled[q] = (cancel_at[q] # "idle")
               /\ ~cancelled[q] =>
                    ipc_map[q] = Awaited(q) \cup (IF q \in Probes THEN todo[q] ELSE {})
               /\ q \in Probes /\ ~cancelled[q] =>
                    {d \in Drivers : tool[q][d] = "asked"} \ timers[q]
                      \subseteq (IF \E s \in firing : s[1] = q THEN Drivers ELSE {})
               /\ launching[q] # "idle" /\ cancel_at[q] \notin {"sweep", "done"} => q \in tracked
    <3>1. Agrees(q) /\ (cancelled[q] = (cancel_at[q] # "idle"))
      BY DEF WaitInv, IInv
    <3>2. CASE AtTimer(q)
      BY <3>1, <3>2 DEF Agrees, AtTimer
    <3>3. CASE ~AtTimer(q)
      BY <3>1, <3>3 DEF Agrees, AtTimer
    <3> QED BY <3>2, <3>3
  <2> QED BY <2>1 DEF TypeOK, WaitInv, Tables, ToolSteps, Awaited
<1> QED BY <1>1, WaitInitially, WaitNext, PTL DEF Spec

-----------------------------------------------------------------------------
(***************************************************************************)
(* Files. A file is a sequence of blocks; it grows at its end.             *)
(***************************************************************************)
Files == Seq(Blocks)

\* The blocks before place j of a file that describe an interface.
IdbsBefore(f, j) == {k \in 1 .. j - 1 : f[k].type = "idb"}

\* Appending to a file.
LEMMA Grown ==
  ASSUME NEW f \in Files, NEW x \in Blocks
  PROVE  /\ Append(f, x) \in Files /\ Len(f) \in Nat
         /\ DOMAIN f = 1 .. Len(f) /\ DOMAIN Append(f, x) = 1 .. Len(f) + 1
         /\ \A i \in 1 .. Len(f) : Append(f, x)[i] = f[i]
         /\ Append(f, x)[Len(f) + 1] = x /\ Len(Append(f, x)) = Len(f) + 1
BY DEF Files

\* The number of interfaces described before a place.
LEMMA Numbered ==
  ASSUME NEW f, NEW j \in Nat
  PROVE  /\ IsFiniteSet(IdbsBefore(f, j)) /\ Cardinality(IdbsBefore(f, j)) \in Nat
<1>1. IsFiniteSet(1 .. j - 1)
  BY FS_Interval
<1> QED BY <1>1, FS_Subset, FS_CardinalityType DEF IdbsBefore

\* One more block leaves the numbers of the interfaces before it.
LEMMA NumbersStay ==
  ASSUME NEW f \in Files, NEW x \in Blocks, NEW j \in 1 .. Len(f) + 1
  PROVE  IdbsBefore(Append(f, x), j) = IdbsBefore(f, j)
<1>1. \A k \in 1 .. j - 1 : Append(f, x)[k] = f[k]
  BY Grown
<1> QED BY <1>1 DEF IdbsBefore

\* The interfaces of a file with one more block.
LEMMA NumberGrows ==
  ASSUME NEW f \in Files, NEW x \in Blocks
  PROVE  Cardinality(IdbsBefore(Append(f, x), Len(f) + 2)) =
           Cardinality(IdbsBefore(f, Len(f) + 1)) + (IF x.type = "idb" THEN 1 ELSE 0)
<1> DEFINE n == Len(f)
           old == IdbsBefore(f, n + 1)
           new == IdbsBefore(Append(f, x), n + 2)
<1>1. n \in Nat /\ IsFiniteSet(old)
  BY Grown, Numbered
<1>2. CASE x.type = "idb"
  <2>1. new = old \cup {n + 1} /\ n + 1 \notin old
    BY <1>1, <1>2, Grown DEF IdbsBefore
  <2> HIDE DEF old, new, n
  <2>2. Cardinality(new) = Cardinality(old) + 1
    BY <1>1, <2>1, FS_AddElement
  <2> QED BY <1>2, <2>2 DEF old, new, n
<1>3. CASE x.type # "idb"
  <2>1. new = old
    BY <1>1, <1>3, Grown DEF IdbsBefore
  <2>2. Cardinality(old) \in Nat
    BY <1>1, FS_CardinalityType
  <2> HIDE DEF old, new, n
  <2>3. Cardinality(new) = Cardinality(old) + 0
    BY <2>1, <2>2
  <2> QED BY <1>3, <2>3 DEF old, new, n
<1> QED BY <1>2, <1>3

\* A description, by the number of interfaces before it.
LEMMA DescribesByNumber ==
  ASSUME NEW f, NEW i, NEW id, NEW intf
  PROVE  Describes(f, i, id, intf) <=>
           \E j \in 1 .. i - 1 : /\ f[j].type = "idb" /\ f[j].intf = intf
                                 /\ Cardinality(IdbsBefore(f, j)) = id
BY DEF Describes, IdbsBefore

\* What is described stays described.
LEMMA DescriptionStays ==
  ASSUME NEW f \in Files, NEW x \in Blocks, NEW i \in 1 .. Len(f) + 1, NEW id, NEW intf
  PROVE  /\ Describes(Append(f, x), i, id, intf) <=> Describes(f, i, id, intf)
         /\ Describes(f, i, id, intf) => Describes(Append(f, x), Len(f) + 2, id, intf)
<1>1. /\ \A j \in 1 .. i - 1 : j \in 1 .. Len(f) /\ j \in 1 .. Len(f) + 1
      /\ 1 .. i - 1 \subseteq 1 .. (Len(f) + 2) - 1
  BY Grown
<1>2. \A j \in 1 .. i - 1 : /\ Append(f, x)[j] = f[j]
                            /\ IdbsBefore(Append(f, x), j) = IdbsBefore(f, j)
  BY <1>1, Grown, NumbersStay
<1>3. Describes(Append(f, x), i, id, intf) <=> Describes(f, i, id, intf)
  BY <1>2, DescribesByNumber
<1>4. Describes(f, i, id, intf) => Describes(Append(f, x), Len(f) + 2, id, intf)
  BY <1>1, <1>2, DescribesByNumber
<1> QED BY <1>3, <1>4

\* A new description has the next number.
LEMMA NewDescription ==
  ASSUME NEW f \in Files, NEW x \in Blocks, x.type = "idb"
  PROVE  Describes(Append(f, x), Len(f) + 2, Cardinality(IdbsBefore(f, Len(f) + 1)), x.intf)
<1>1. /\ Len(f) + 1 \in 1 .. (Len(f) + 2) - 1 /\ Append(f, x)[Len(f) + 1] = x
      /\ Len(f) + 1 \in 1 .. Len(f) + 1
  BY Grown
<1>2. IdbsBefore(Append(f, x), Len(f) + 1) = IdbsBefore(f, Len(f) + 1)
  BY <1>1, NumbersStay
<1> QED BY <1>1, <1>2, DescribesByNumber

\* A file stays readable when the block put after it is right for its end.
LEMMA GrownReadable ==
  ASSUME NEW f \in Files, NEW x \in Blocks, FileReadable(f),
         x.type = "shb" <=> f = <<>>,
         x.type = "epb" /\ ~x.short => Names(f, Len(f) + 1, x.id, x.intf)
  PROVE  FileReadable(Append(f, x))
<1> DEFINE g == Append(f, x)
<1> SUFFICES ASSUME NEW i \in 1 .. Len(f) + 1
             PROVE  /\ g[i].type = "shb" <=> i = 1
                    /\ g[i].type = "epb" /\ ~g[i].short =>
                         Names(g, i, g[i].id, g[i].intf)
  BY Grown DEF FileReadable
<1>1. CASE i \in 1 .. Len(f)
  <2>1. g[i] = f[i] /\ i \in DOMAIN f /\ i \in 1 .. Len(f) + 1
    BY <1>1, Grown
  <2>2. /\ f[i].type = "shb" <=> i = 1
        /\ f[i].type = "epb" /\ ~f[i].short => Names(f, i, f[i].id, f[i].intf)
    BY <2>1 DEF FileReadable
  <2> HIDE DEF g
  <2>3. \A id, intf : Names(f, i, id, intf) => Names(g, i, id, intf)
    BY <2>1, DescriptionStays DEF g, Names
  <2> QED BY <2>1, <2>2, <2>3
<1>2. CASE i = Len(f) + 1
  <2>1. g[i] = x /\ Len(f) \in Nat /\ (f = <<>> <=> Len(f) = 0)
    BY <1>2, Grown DEF Files
  <2>2. x.type = "shb" <=> i = 1
    BY <1>2, <2>1
  <2>3. Len(f) + 1 \in 1 .. Len(f) + 1
    BY <2>1
  <2> HIDE DEF g
  <2>4. \A id, intf : Names(f, i, id, intf) => Names(g, i, id, intf)
    BY <1>2, <2>3, DescriptionStays DEF g, Names
  <2> QED BY <1>2, <2>1, <2>2, <2>4
<1>3. i \in 1 .. Len(f) \/ i = Len(f) + 1
  BY Grown
<1> QED BY <1>1, <1>2, <1>3

\* The beginning of a readable file is readable: what is written of a stream
\* so far can be read at any time.
LEMMA BeginningReadable ==
  ASSUME NEW f \in Files, NEW q \in Files, FileReadable(f \o q)
  PROVE  FileReadable(f)
<1> DEFINE g == f \o q
<1>1. \A j \in 1 .. Len(f) : g[j] = f[j] /\ j \in DOMAIN g
  BY DEF Files
<1> SUFFICES ASSUME NEW i \in 1 .. Len(f)
             PROVE  /\ f[i].type = "shb" <=> i = 1
                    /\ f[i].type = "epb" /\ ~f[i].short =>
                         Names(f, i, f[i].id, f[i].intf)
  BY DEF FileReadable, Files
<1>2. /\ g[i].type = "shb" <=> i = 1
      /\ g[i].type = "epb" /\ ~g[i].short => Names(g, i, g[i].id, g[i].intf)
  BY <1>1 DEF FileReadable
<1>3. Len(f) \in Nat
  BY DEF Files
<1> HIDE DEF g
<1>4. \A j \in 1 .. i - 1 : g[j] = f[j] /\ IdbsBefore(g, j) = IdbsBefore(f, j)
  BY <1>1, <1>3 DEF IdbsBefore
<1>5. \A id, intf : Describes(g, i, id, intf) => Describes(f, i, id, intf)
  BY <1>4, DescribesByNumber
<1>6. \A id, intf : Names(g, i, id, intf) => Names(f, i, id, intf)
  BY <1>5 DEF Names
<1> QED BY <1>1, <1>2, <1>6

\* A block that moves from a buffer to a file leaves the two together as they
\* were; one put into the buffer comes after them.
LEMMA MovesAndGrows ==
  ASSUME NEW f \in Files, NEW q \in Files
  PROVE  /\ q # <<>> => /\ Append(f, Head(q)) \o Tail(q) = f \o q
                        /\ Head(q) \in Blocks /\ Tail(q) \in Files
         /\ \A x \in Blocks : f \o Append(q, x) = Append(f \o q, x) /\ Append(q, x) \in Files
         /\ f \o q \in Files /\ <<>> \o q = q /\ f \o <<>> = f
<1>1. ASSUME q # <<>>
      PROVE  /\ Append(f, Head(q)) \o Tail(q) = f \o q
             /\ Head(q) \in Blocks /\ Tail(q) \in Files
  <2>1. Head(q) \in Blocks /\ Tail(q) \in Files /\ Len(Tail(q)) = Len(q) - 1 /\ Len(q) \in Nat \ {0}
    BY <1>1 DEF Files
  <2>2. q = <<Head(q)>> \o Tail(q)
    BY <1>1, HeadTailProperties, ConcatProperties, SeqEqual DEF Files
  <2>3. Append(f, Head(q)) = f \o <<Head(q)>>
    BY <2>1, AppendIsConcat DEF Files
  <2>4. (f \o <<Head(q)>>) \o Tail(q) = f \o (<<Head(q)>> \o Tail(q))
    BY <2>1, ConcatAssociative DEF Files
  <2> QED BY <2>1, <2>2, <2>3, <2>4
<1>2. ASSUME NEW x \in Blocks
      PROVE  f \o Append(q, x) = Append(f \o q, x) /\ Append(q, x) \in Files
  BY DEF Files
<1>3. f \o q \in Files /\ <<>> \o q = q /\ f \o <<>> = f
  BY ConcatEmptySeq DEF Files
<1> QED BY <1>1, <1>2, <1>3

-----------------------------------------------------------------------------
(***************************************************************************)
(* The invariant of a stream. The reader is at the buffer of the last file *)
(* but while it goes over to the next; the old file gets what is left in   *)
(* the old buffer. Only the log goes over to another file.                 *)
(***************************************************************************)
Aligned ==
  /\ Len(bufs) \in {Len(files), Len(files) + 1}
  /\ reader \in {"head", "wait", "rotate", "flush"} =>
       Len(bufs) = Len(files) /\ buffer = Len(bufs)
  /\ reader = "open" => Len(bufs) = Len(files) + 1 /\ buffer = Len(files)
  /\ reader = "flush" => Len(bufs) >= 2
  /\ kind # "log" =>
       /\ Len(bufs) = 1 /\ reader \in {"head", "wait", "end", "terminated"}
       /\ reader = "end" => ~bufs[1].run

\* A packet under way is of an interface, and only so many interfaces are known.
Apart == {"start", "idle", "end"}
Typed == /\ StreamTypeOK /\ IsFiniteSet(DOMAIN datasource_id_map)
         /\ writer.pc \in Apart \/ writer.intf \in Interfaces

\* Only an export stalls.
WriterRuns == kind # "export" => writer.pc \in {"start", "idle", "idb", "epb", "end"}

\* A client whose connection fails is not sent a block that was consumed, and
\* nothing after it. Otherwise a file and what is left for it make a whole.
GoesOn == kind = "log" \/ reader \notin {"end", "terminated"}
WholesReadable == \A n \in DOMAIN bufs : FileReadable(Whole(n))
Legible ==
  kind # "export" =>
    /\ \A n \in DOMAIN files : FileReadable(files[n])
    /\ GoesOn => WholesReadable

\* While the stream can put blocks, its map names interfaces of the file it
\* puts them into, each by the number it has there and under its hash; what a
\* packet under way names has the hash of its interface.
Ended(f, id, intf) == Describes(f, Len(f) + 1, id, intf)
EndNames(f, id, intf) == Names(f, Len(f) + 1, id, intf)
Maps(f, w, map) ==
  /\ w.pc = "start" => f = <<>>
  /\ f = <<>> => w.pc \in {"start", "end"}
  /\ Cardinality(DOMAIN map) = Cardinality(IdbsBefore(f, Len(f) + 1))
  /\ \A i \in DOMAIN map : \E s \in Interfaces : Index[s] = i /\ Ended(f, map[i], s)
  /\ w.pc = "epb" /\ ~w.short => EndNames(f, w.id, w.intf)
  /\ w.pc = "idb" => Index[w.intf] \notin DOMAIN map
MapAgrees ==
  kind # "export" /\ bufs[chainbuf].run =>
    Maps(Whole(chainbuf), writer, datasource_id_map)

StreamInv == Typed /\ Aligned /\ WriterRuns /\ Legible /\ MapAgrees

-----------------------------------------------------------------------------
(***************************************************************************)
(* Types.                                                                  *)
(***************************************************************************)
\* Source numbers and hashes are naturals; interfaces may share either.
LEMMA Constants ==
  /\ \A s \in Interfaces : Number[s] \in Nat /\ Index[s] \in Nat
  /\ \A type \in BlockTypes : SizeOf[type] \in Nat
  /\ Kinds \subseteq {"log", "web", "export"} /\ MaxFiles \in Nat
BY StreamAssumption

\* A buffer that is replaced by another leaves the rest in place.
LEMMA Replaced ==
  ASSUME NEW s \in Seq(Buffers), NEW n \in 1 .. Len(s), NEW b \in Buffers
  PROVE  /\ [s EXCEPT ![n] = b] \in Seq(Buffers) /\ Len([s EXCEPT ![n] = b]) = Len(s)
         /\ Len(s) \in Nat /\ DOMAIN s = 1 .. Len(s) /\ s[n] \in Buffers
         /\ [s EXCEPT ![n] = b][n] = b
         /\ \A m \in 1 .. Len(s) : m # n => [s EXCEPT ![n] = b][m] = s[m]
<1>1. Len(s) \in Nat /\ DOMAIN s = 1 .. Len(s) /\ s[n] \in Buffers /\ \A m \in 1 .. Len(s) : s[m] \in Buffers
  BY ElementOfSeq, LenProperties
<1>2. [s EXCEPT ![n] = b] \in [1 .. Len(s) -> Buffers]
  BY <1>1
<1>3. [s EXCEPT ![n] = b] \in Seq(Buffers) /\ Len([s EXCEPT ![n] = b]) = Len(s)
  BY ExceptSeq, <1>1
<1> QED BY <1>1, <1>3

\* What the operations of the buffer make of it.
LEMMA BufferOps ==
  ASSUME NEW b \in Buffers, NEW x \in Blocks
  PROVE  /\ put_data(b, x) \in Buffers /\ cancel(b) \in Buffers
         /\ [b EXCEPT !.waiting = TRUE] \in Buffers
         /\ [b EXCEPT !.write_waiting = TRUE] \in Buffers
         /\ [b EXCEPT !.live = FALSE] \in Buffers
         /\ b.q # <<>> => Head(b.q) \in Blocks /\ consume(b) \in Buffers
<1>1. /\ b.q \in Seq(Blocks) /\ b.run \in BOOLEAN /\ b.waiting \in BOOLEAN
      /\ b.write_waiting \in BOOLEAN /\ b.live \in BOOLEAN
      /\ b = [q |-> b.q, run |-> b.run, waiting |-> b.waiting,
              write_waiting |-> b.write_waiting, live |-> b.live]
  BY DEF Buffers
<1>2. Append(b.q, x) \in Seq(Blocks)
  BY <1>1
<1>3. put_data(b, x) \in Buffers
  BY <1>1, <1>2 DEF put_data, Buffers
<1>4. cancel(b) \in Buffers
  BY <1>1 DEF cancel, Buffers
<1>5. b.q # <<>> => Head(b.q) \in Blocks /\ Tail(b.q) \in Seq(Blocks)
  BY <1>1
<1>6. b.q # <<>> => consume(b) \in Buffers
  BY <1>1, <1>5 DEF consume, Buffers
<1> QED BY <1>1, <1>3, <1>4, <1>5, <1>6 DEF Buffers

\* Blocks that the stream makes.
LEMMA BlocksMade ==
  /\ Shb \in Blocks /\ NewBuffer \in Buffers /\ put_data(NewBuffer, Shb) \in Buffers
  /\ \A type \in BlockTypes, intf \in Interfaces \cup {""}, num \in Nat, id \in Nat,
        short \in BOOLEAN : Block(type, intf, num, id, short) \in Blocks
<1>1. \A type \in BlockTypes, intf \in Interfaces \cup {""}, num \in Nat, id \in Nat,
         short \in BOOLEAN : Block(type, intf, num, id, short) \in Blocks
  BY DEF Block, Blocks
<1>2. Shb \in Blocks
  BY <1>1 DEF Shb, BlockTypes
<1>3. <<>> \in Seq(Blocks)
  OBVIOUS
<1>4. NewBuffer \in Buffers
  BY <1>3 DEF NewBuffer, Buffers
<1> QED BY <1>1, <1>2, <1>4, BufferOps

\* The stream begins with one buffer and one empty file.
LEMMA StreamInitTyped == StreamInit => Typed
<1> SUFFICES ASSUME StreamInit PROVE Typed
  OBVIOUS
<1>1. bufs \in Seq(Buffers) /\ Len(bufs) = 1 /\ files \in Seq(Seq(Blocks)) /\ files # <<>>
  <2>1. \A S, x : x \in S => <<x>> \in Seq(S) /\ Len(<<x>>) = 1 /\ <<x>> # <<>>
    OBVIOUS
  <2>2. <<>> \in Seq(Blocks)
    OBVIOUS
  <2> QED BY <2>1, <2>2, BlocksMade DEF StreamInit
<1>2. Len(bufs) = 1
  BY <1>1
<1>3. chainbuf = 1 /\ buffer = 1 /\ log_size = 0 /\ closer = [pc |-> "none", target |-> 1]
  BY DEF StreamInit
<1>4. DOMAIN datasource_id_map = {} /\ datasource_id_map \in [DOMAIN datasource_id_map -> Nat]
  BY DEF StreamInit
<1>5. /\ writer \in [pc : WriterAt, intf : Interfaces \cup {""}, num : Nat, id : Nat, short : BOOLEAN]
      /\ kind \in Kinds /\ chainbuf = 1 /\ buffer = 1 /\ reader = "head" /\ log_size = 0
      /\ failed = FALSE /\ writer.pc = "start"
  BY DEF StreamInit, WriterAt
<1>6. closer \in [pc : {"none", "cancel", "join", "closed"}, target : 1 .. Len(bufs)]
  BY <1>2, <1>3
<1>7. IsFiniteSet(DOMAIN datasource_id_map)
  BY <1>4, FS_EmptySet
<1>8. DOMAIN datasource_id_map \subseteq {Index[s] : s \in Interfaces}
  BY <1>4
<1>9. chainbuf = Len(bufs) /\ buffer \in 1 .. Len(bufs) /\ log_size \in Nat
  BY <1>2, <1>3
<1> QED BY <1>1, <1>4, <1>5, <1>6, <1>7, <1>8, <1>9 DEF Typed, Apart, StreamTypeOK, ReaderAt

\* What the types say of a state, for the steps below.
TypedMap == datasource_id_map \in [DOMAIN datasource_id_map -> Nat]
            /\ DOMAIN datasource_id_map \subseteq {Index[s] : s \in Interfaces}
            /\ IsFiniteSet(DOMAIN datasource_id_map)
TypedWriter == /\ writer \in [pc : WriterAt, intf : Interfaces \cup {""}, num : Nat, id : Nat,
                              short : BOOLEAN]
               /\ writer.pc \in Apart \/ writer.intf \in Interfaces
TypedFiles == files \in Seq(Seq(Blocks)) /\ files # <<>>
TypedReader == reader \in ReaderAt /\ log_size \in Nat
TypedCloser == closer \in [pc : {"none", "cancel", "join", "closed"}, target : Nat]
               /\ closer.target \in 1 .. Len(bufs)
TypedBufs == /\ bufs \in Seq(Buffers) /\ Len(bufs) \in Nat /\ chainbuf = Len(bufs)
             /\ buffer \in 1 .. Len(bufs)

\* The parts are the whole, before a step and after it.
LEMMA TypesParts ==
  Typed <=>
    /\ TypedMap /\ TypedWriter /\ TypedFiles /\ TypedReader /\ TypedCloser /\ TypedBufs
    /\ kind \in Kinds /\ failed \in BOOLEAN
<1>1. TypedCloser /\ TypedBufs =>
        closer \in [pc : {"none", "cancel", "join", "closed"}, target : 1 .. Len(bufs)]
  BY DEF TypedCloser, TypedBufs
<1>2. closer \in [pc : {"none", "cancel", "join", "closed"}, target : 1 .. Len(bufs)]
        => TypedCloser
  BY DEF TypedCloser
<1>3. bufs \in Seq(Buffers) => Len(bufs) \in Nat
  OBVIOUS
<1> QED BY <1>1, <1>2, <1>3
  DEF Typed, StreamTypeOK, TypedMap, TypedWriter, TypedFiles, TypedReader, TypedBufs

\* The types hold after a step when their parts do.
LEMMA TypedAfter ==
  ASSUME TypedMap', TypedWriter', TypedFiles', TypedReader', TypedCloser', TypedBufs',
         kind' \in Kinds, failed' \in BOOLEAN
  PROVE  Typed'
<1>1. closer' \in [pc : {"none", "cancel", "join", "closed"}, target : 1 .. Len(bufs')]
  BY DEF TypedCloser, TypedBufs
<1> QED BY <1>1
  DEF Typed, StreamTypeOK, TypedMap, TypedWriter, TypedFiles, TypedReader, TypedBufs

\* What the parts say of the buffers in use.
LEMMA TypesHere ==
  ASSUME TypedBufs, TypedWriter
  PROVE  /\ chainbuf \in 1 .. Len(bufs) /\ bufs[chainbuf] \in Buffers
         /\ buffer \in 1 .. Len(bufs) /\ bufs[buffer] \in Buffers
         /\ Len(bufs) \in Nat /\ writer.num \in Nat /\ writer.id \in Nat
         /\ writer.pc \in WriterAt /\ writer.intf \in Interfaces \cup {""}
         /\ writer.short \in BOOLEAN
<1>1. chainbuf \in 1 .. Len(bufs) /\ buffer \in 1 .. Len(bufs) /\ Len(bufs) \in Nat
  BY DEF TypedBufs
<1>2. bufs \in Seq(Buffers)
  BY DEF TypedBufs
<1>3. bufs[chainbuf] \in Buffers /\ bufs[buffer] \in Buffers
  BY <1>1, <1>2, ElementOfSeq
<1>4. writer \in [pc : WriterAt, intf : Interfaces \cup {""}, num : Nat, id : Nat, short : BOOLEAN]
  BY DEF TypedWriter
<1> QED BY <1>1, <1>3, <1>4

\* One buffer changes in place.
LEMMA BufsStayTyped ==
  ASSUME TypedBufs, TypedCloser, NEW n \in 1 .. Len(bufs), NEW b \in Buffers,
         bufs' = [bufs EXCEPT ![n] = b], UNCHANGED chainbuf, buffer' \in 1 .. Len(bufs),
         closer' \in [pc : {"none", "cancel", "join", "closed"}, target : Nat],
         closer'.target = closer.target
  PROVE  TypedBufs' /\ TypedCloser' /\ Len(bufs') = Len(bufs)
<1>1. bufs' \in Seq(Buffers) /\ Len(bufs') = Len(bufs)
  BY Replaced DEF TypedBufs
<1> QED BY <1>1 DEF TypedBufs, TypedCloser

\* The writer's record after a step of it.
LEMMA WriterStaysTyped ==
  ASSUME TypedWriter, NEW pc \in WriterAt,
         pc \in Apart \/ pc = writer.pc \/ writer.pc \notin Apart,
         \/ writer' = writer
         \/ writer' = [writer EXCEPT !.pc = pc]
         \/ writer' = [writer EXCEPT !.pc = pc, !.short = TRUE]
         \/ \E id \in Nat : writer' = [writer EXCEPT !.pc = pc, !.id = id]
  PROVE  TypedWriter'
BY DEF TypedWriter

\* One file grows.
LEMMA FileStaysTyped ==
  ASSUME TypedFiles, NEW n \in 1 .. Len(files), NEW x \in Blocks,
         files' = [files EXCEPT ![n] = Append(@, x)]
  PROVE  /\ TypedFiles' /\ Len(files') = Len(files) /\ Len(files) \in Nat
         /\ DOMAIN files = 1 .. Len(files) /\ DOMAIN files' = DOMAIN files
         /\ \A m \in 1 .. Len(files) : files[m] \in Files
         /\ files'[n] = Append(files[n], x)
         /\ \A m \in 1 .. Len(files) : m # n => files'[m] = files[m]
<1>1. /\ Len(files) \in Nat /\ DOMAIN files = 1 .. Len(files)
      /\ \A m \in 1 .. Len(files) : files[m] \in Seq(Blocks)
  BY ElementOfSeq, LenProperties DEF TypedFiles
<1>2. Append(files[n], x) \in Seq(Blocks)
  BY <1>1
<1>3. /\ files' = [files EXCEPT ![n] = Append(files[n], x)]
      /\ files' \in Seq(Seq(Blocks)) /\ Len(files') = Len(files)
  BY <1>1, <1>2, ExceptSeq DEF TypedFiles
<1>4. Len(files) # 0
  BY DEF TypedFiles
<1>5. DOMAIN files' = DOMAIN files /\ files' # <<>>
  BY <1>1, <1>3, <1>4
<1> QED BY <1>1, <1>3, <1>5 DEF TypedFiles, Files

\* A put leaves the types, whichever block it puts.
LEMMA PutTyped ==
  ASSUME Typed, NEW x \in Blocks, PutBlock(x), UNCHANGED <<chainbuf, buffer, closer>>
  PROVE  TypedBufs' /\ TypedCloser' /\ Len(bufs') = Len(bufs)
<1>1. TypedBufs /\ TypedCloser
  BY TypesParts
<1>2. chainbuf \in 1 .. Len(bufs)
  BY <1>1 DEF TypedBufs
<1>3. bufs[chainbuf] \in Buffers /\ bufs' = [bufs EXCEPT ![chainbuf] = put_data(bufs[chainbuf], x)]
  BY <1>1, <1>2, ElementOfSeq DEF PutBlock, TypedBufs
<1>4. put_data(bufs[chainbuf], x) \in Buffers
  BY <1>3, BufferOps
<1> QED BY <1>1, <1>2, <1>3, <1>4, BufsStayTyped DEF TypedBufs, TypedCloser

\* The writer keeps the types.
LEMMA WriterTyped ==
  ASSUME Typed, Writer \/ \E s \in Interfaces : handle_packet(s)
  PROVE  Typed'
<1>t. /\ TypedMap /\ TypedWriter /\ TypedFiles /\ TypedReader /\ TypedCloser /\ TypedBufs
      /\ kind \in Kinds /\ failed \in BOOLEAN
  BY TypesParts
<1>b. Shb \in Blocks /\ chainbuf \in 1 .. Len(bufs) /\ bufs[chainbuf] \in Buffers
  BY <1>t, BlocksMade, TypesHere
<1>s. ASSUME UNCHANGED readVars PROVE TypedFiles' /\ TypedReader'
  BY <1>t, <1>s DEF readVars, TypedFiles, TypedReader
<1>u. ASSUME UNCHANGED datasource_id_map PROVE TypedMap'
  BY <1>t, <1>u DEF TypedMap
<1>v. ASSUME UNCHANGED bufVars, UNCHANGED closer PROVE TypedBufs' /\ TypedCloser'
  BY <1>t, <1>v DEF bufVars, TypedBufs, TypedCloser
<1>w. ASSUME UNCHANGED <<kind, failed>>, TypedMap', TypedWriter', TypedFiles', TypedReader',
             TypedCloser', TypedBufs'
      PROVE  Typed'
  <2>1. kind' \in Kinds /\ failed' \in BOOLEAN
    BY <1>t, <1>w
  <2> QED BY <1>w, <2>1, TypedAfter
<1>1. CASE start_stream
  <2>1. TypedBufs' /\ TypedCloser'
    BY <1>1, <1>b, PutTyped DEF start_stream
  <2>2. TypedWriter'
    BY <1>1, <1>t, WriterStaysTyped DEF start_stream, WriterAt, Apart
  <2> QED BY <1>1, <2>1, <2>2, <1>s, <1>u, <1>w DEF start_stream
<1>2. ASSUME NEW s \in Interfaces, handle_packet(s) PROVE Typed'
  <2> DEFINE known == Key(s) \in DOMAIN datasource_id_map
  <2>1. /\ writer' = [pc |-> IF known THEN "epb" ELSE "idb", intf |-> s,
                      num |-> writer.num + 1, short |-> FALSE,
                      id |-> IF known THEN datasource_id_map[Key(s)] ELSE 0]
    BY <1>2 DEF handle_packet
  <2>2. known => datasource_id_map[Key(s)] \in Nat
    BY <1>t DEF TypedMap
  <2>3. writer.num + 1 \in Nat
    <3>1. writer.num \in Nat
      BY <1>t, TypesHere
    <3> QED BY <3>1
  <2>4. TypedWriter'
    BY <2>1, <2>2, <2>3 DEF TypedWriter, WriterAt, Apart
  <2> QED BY <1>2, <2>4, <1>s, <1>u, <1>v, <1>w DEF handle_packet
<1>3. CASE pcapng_make_idb
  <2> DEFINE logid == Cardinality(DOMAIN datasource_id_map)
             x == Block("idb", writer.intf, 0, logid, FALSE)
             key == Index[writer.intf]
  <2>1. logid \in Nat /\ x \in Blocks /\ writer.intf \in Interfaces
    <3>1. logid \in Nat
      BY <1>t, FS_CardinalityType DEF TypedMap
    <3>2. writer.intf \in Interfaces
      BY <1>t, <1>3 DEF TypedWriter, pcapng_make_idb, Apart
    <3> QED BY <3>1, <3>2, BlocksMade DEF BlockTypes
  <2>2. TypedWriter'
    <3>1. \/ writer' = [writer EXCEPT !.pc = "epb", !.id = logid]
          \/ writer' = [writer EXCEPT !.pc = "epb", !.short = TRUE]
      BY <1>3 DEF pcapng_make_idb
    <3>2. writer.pc \notin Apart
      BY <1>3 DEF pcapng_make_idb, Apart
    <3> QED BY <1>t, <2>1, <3>1, <3>2, WriterStaysTyped DEF WriterAt
  <2>3. TypedBufs' /\ TypedCloser' /\ TypedMap'
    <3>1. CASE Room("idb")
      <4>1. /\ PutBlock(x)
            /\ datasource_id_map' = [i \in DOMAIN datasource_id_map \cup {key} |->
                  IF i = key THEN logid ELSE datasource_id_map[i]]
        BY <1>3, <3>1 DEF pcapng_make_idb
      <4>2. /\ DOMAIN datasource_id_map' = DOMAIN datasource_id_map \cup {key}
            /\ datasource_id_map' \in [DOMAIN datasource_id_map \cup {key} -> Nat]
        BY <4>1, <2>1, <1>t DEF TypedMap
      <4>3. IsFiniteSet(DOMAIN datasource_id_map \cup {key})
        BY <1>t, FS_AddElement DEF TypedMap
      <4>4. key \in {Index[s] : s \in Interfaces}
        BY <2>1
      <4> HIDE DEF key, x, logid
      <4>5. TypedMap'
        BY <1>t, <4>2, <4>3, <4>4 DEF TypedMap
      <4> QED BY <1>3, <2>1, <4>1, <4>5, PutTyped DEF pcapng_make_idb
    <3>2. CASE ~Room("idb")
      BY <1>3, <3>2, <1>u, <1>v DEF pcapng_make_idb, bufVars
    <3> QED BY <3>1, <3>2
  <2> QED BY <1>3, <2>2, <2>3, <1>s, <1>w DEF pcapng_make_idb
<1>4. CASE pcapng_write_packet
  <2> DEFINE x == Block("epb", writer.intf, writer.num, writer.id, writer.short)
  <2>1. x \in Blocks
    BY <1>t, BlocksMade DEF TypedWriter, BlockTypes
  <2>2. TypedWriter'
    BY <1>4, <1>t, WriterStaysTyped DEF pcapng_write_packet, WriterAt, Apart
  <2>3. TypedBufs' /\ TypedCloser'
    <3>1. CASE PutBlock(x)
      BY <1>4, <2>1, <3>1, PutTyped DEF pcapng_write_packet
    <3>2. CASE UNCHANGED bufs
      BY <1>4, <3>2, <1>v DEF pcapng_write_packet, bufVars
    <3> QED BY <1>4, <3>1, <3>2 DEF pcapng_write_packet
  <2> QED BY <1>4, <2>2, <2>3, <1>s, <1>u, <1>w DEF pcapng_write_packet
<1>5. CASE Stall
  <2>1. PICK pc \in {"wait idb", "wait epb"} : writer' = [writer EXCEPT !.pc = pc]
    BY <1>5 DEF Stall
  <2>2. writer.pc \notin Apart
    BY <1>5 DEF Stall, Apart, BlockTypes
  <2>3. TypedWriter'
    BY <1>t, <2>1, <2>2, WriterStaysTyped DEF WriterAt
  <2> QED BY <1>5, <2>3, <1>s, <1>u, <1>v, <1>w DEF Stall
<1>6. CASE wait_write
  <2>1. PICK pc \in {"threw", "idb", "epb", "blocked idb", "blocked epb"} :
          writer' = [writer EXCEPT !.pc = pc]
    BY <1>6 DEF wait_write, Retry
  <2>2. writer.pc \notin Apart
    BY <1>6 DEF wait_write, Apart
  <2>3. TypedWriter'
    BY <1>t, <2>1, <2>2, WriterStaysTyped DEF WriterAt
  <2>4. TypedBufs' /\ TypedCloser'
    <3>1. CASE bufs[chainbuf].run
      <4>1. bufs' = [bufs EXCEPT ![chainbuf] = [bufs[chainbuf] EXCEPT !.write_waiting = TRUE]]
        BY <1>6, <3>1 DEF wait_write
      <4>2. [bufs[chainbuf] EXCEPT !.write_waiting = TRUE] \in Buffers
        BY <1>b, BufferOps
      <4> QED BY <1>6, <1>t, <1>b, <4>1, <4>2, BufsStayTyped
            DEF wait_write, TypedBufs, TypedCloser
    <3>2. CASE ~bufs[chainbuf].run
      BY <1>6, <3>2, <1>v DEF wait_write, bufVars
    <3> QED BY <3>1, <3>2
  <2> QED BY <1>6, <2>3, <2>4, <1>s, <1>u, <1>w DEF wait_write
<1>7. CASE EndExport
  <2>1. TypedWriter'
    BY <1>7, <1>t, WriterStaysTyped DEF EndExport, WriterAt, Apart
  <2>2. TypedBufs' /\ TypedCloser'
    <3>1. bufs' = [bufs EXCEPT ![chainbuf] = cancel(bufs[chainbuf])]
      BY <1>7 DEF EndExport
    <3>2. cancel(bufs[chainbuf]) \in Buffers
      BY <1>b, BufferOps
    <3> QED BY <1>7, <1>t, <1>b, <3>1, <3>2, BufsStayTyped
          DEF EndExport, TypedBufs, TypedCloser
  <2> QED BY <1>7, <2>1, <2>2, <1>s, <1>u, <1>w DEF EndExport
<1> QED BY <1>1, <1>2, <1>3, <1>4, <1>5, <1>6, <1>7 DEF Writer

\* Whoever replaces one buffer, and nothing else of what the types say.
LEMMA ReplaceTyped ==
  ASSUME Typed, NEW n \in 1 .. Len(bufs), NEW b \in Buffers,
         bufs' = [bufs EXCEPT ![n] = b], UNCHANGED <<chainbuf, buffer>>,
         closer' \in [pc : {"none", "cancel", "join", "closed"}, target : Nat],
         closer'.target = closer.target
  PROVE  TypedBufs' /\ TypedCloser' /\ Len(bufs') = Len(bufs)
<1>1. TypedBufs /\ TypedCloser
  BY TypesParts
<1> QED BY <1>1, BufsStayTyped DEF TypedBufs

\* A writer that was let go on goes on where it was.
LEMMA ReleasedTyped == ASSUME Typed, writer' = Released PROVE TypedWriter'
<1>1. TypedWriter
  BY TypesParts
<1>2. PICK pc \in WriterAt : /\ writer' = [writer EXCEPT !.pc = pc]
                             /\ pc = writer.pc \/ writer.pc \notin Apart
  <2>1. writer.pc \in WriterAt
    BY <1>1 DEF TypedWriter
  <2>2. Released = [writer EXCEPT !.pc = IF writer.pc \in {"blocked idb", "blocked epb"}
                                         THEN Retry(writer.pc) ELSE writer.pc]
    BY DEF Released
  <2>3. CASE writer.pc \in {"blocked idb", "blocked epb"}
    BY <2>2, <2>3 DEF Retry, WriterAt, Apart
  <2>4. CASE writer.pc \notin {"blocked idb", "blocked epb"}
    BY <2>1, <2>2, <2>4
  <2> QED BY <2>3, <2>4
<1> QED BY <1>1, <1>2, WriterStaysTyped

\* A server that goes down.
LEMMA DownTyped == ASSUME Typed, GoesDown PROVE TypedWriter' /\ reader' \in ReaderAt /\ failed' \in BOOLEAN
                     /\ closer' \in [pc : {"none", "cancel", "join", "closed"}, target : Nat]
                     /\ closer'.target = closer.target
<1>1. TypedWriter /\ TypedCloser
  BY TypesParts
<1>2. TypedWriter'
  BY <1>1, WriterStaysTyped DEF GoesDown, WriterAt, Apart
<1> QED BY <1>1, <1>2 DEF GoesDown, ReaderAt, TypedCloser

\* The reader keeps the types: it moves blocks between buffers that there are.
LEMMA ReaderTyped ==
  ASSUME Typed, Aligned, Reader
  PROVE  Typed'
<1>t. /\ TypedMap /\ TypedWriter /\ TypedFiles /\ TypedReader /\ TypedCloser /\ TypedBufs
      /\ kind \in Kinds /\ failed \in BOOLEAN
  BY TypesParts
<1>b. /\ Shb \in Blocks /\ buffer \in 1 .. Len(bufs) /\ bufs[buffer] \in Buffers
      /\ Len(bufs) \in Nat /\ Len(files) \in Nat /\ Len(files) # 0
      /\ closer \in [pc : {"none", "cancel", "join", "closed"}, target : Nat]
      /\ closer.target \in 1 .. Len(bufs)
  <2>1. Len(files) \in Nat /\ Len(files) # 0
    BY <1>t DEF TypedFiles
  <2>2. /\ closer \in [pc : {"none", "cancel", "join", "closed"}, target : Nat]
        /\ closer.target \in 1 .. Len(bufs)
    BY <1>t DEF TypedCloser
  <2> QED BY <1>t, <2>1, <2>2, BlocksMade, TypesHere
<1>m. ASSUME UNCHANGED datasource_id_map PROVE TypedMap'
  BY <1>t, <1>m DEF TypedMap
<1>w. ASSUME UNCHANGED writer PROVE TypedWriter'
  BY <1>t, <1>w DEF TypedWriter
<1>f. ASSUME UNCHANGED files PROVE TypedFiles'
  BY <1>t, <1>f DEF TypedFiles
<1>r. ASSUME UNCHANGED log_size, reader' \in ReaderAt PROVE TypedReader'
  BY <1>t, <1>r DEF TypedReader
<1>v. ASSUME UNCHANGED <<bufs, chainbuf, buffer, closer>> PROVE TypedBufs' /\ TypedCloser'
  BY <1>t, <1>v DEF TypedBufs, TypedCloser
<1>c. ASSUME NEW n \in 1 .. Len(bufs), NEW b \in Buffers, bufs' = [bufs EXCEPT ![n] = b],
             UNCHANGED <<chainbuf, buffer, closer>>
      PROVE  TypedBufs' /\ TypedCloser' /\ Len(bufs') = Len(bufs)
  BY <1>b, <1>c, ReplaceTyped
<1>z. ASSUME TypedMap', TypedWriter', TypedFiles', TypedReader', TypedCloser', TypedBufs',
             kind' = kind, failed' \in {TRUE, failed}
      PROVE  Typed'
  <2>1. kind' \in Kinds /\ failed' \in BOOLEAN
    BY <1>t, <1>z
  <2> QED BY <1>z, <2>1, TypedAfter
<1>1. CASE wait
  <2>1. /\ bufs' = [bufs EXCEPT ![buffer] = [bufs[buffer] EXCEPT !.waiting = TRUE]]
        /\ [bufs[buffer] EXCEPT !.waiting = TRUE] \in Buffers
    BY <1>1, <1>b, BufferOps DEF wait
  <2> QED BY <1>1, <1>b, <2>1, <1>m, <1>w, <1>f, <1>r, <1>c, <1>z DEF wait, writeVars, ReaderAt
<1>2. CASE Wake
  BY <1>2, <1>m, <1>w, <1>f, <1>r, <1>v, <1>z DEF Wake, bufVars, writeVars, ReaderAt
<1>3. CASE WriteBlock
  <2> DEFINE b == bufs[buffer]
  <2>1. b.q # <<>> /\ Head(b.q) \in Blocks /\ consume(b) \in Buffers
    BY <1>3, <1>b, BufferOps DEF WriteBlock
  <2>2. /\ writer' = Released /\ bufs' = [bufs EXCEPT ![buffer] = consume(b)]
        /\ files' = [files EXCEPT ![Len(files)] = Append(@, Head(b.q))]
        /\ log_size' \in {0, log_size + SizeOf[Head(b.q).type]} /\ reader' \in {"rotate", "head"}
        /\ UNCHANGED <<kind, chainbuf, buffer, datasource_id_map, closer, failed>>
    BY <1>3 DEF WriteBlock, Writes
  <2>3. TypedFiles'
    <3>1. Len(files) \in 1 .. Len(files)
      BY <1>b
    <3> HIDE DEF b
    <3> QED BY <1>t, <2>1, <2>2, <3>1, FileStaysTyped
  <2>4. TypedReader'
    <3>1. SizeOf[Head(b.q).type] \in Nat
      BY <2>1, Constants DEF Blocks
    <3>2. log_size \in Nat
      BY <1>t DEF TypedReader
    <3>3. log_size + SizeOf[Head(b.q).type] \in Nat
      BY <3>1, <3>2
    <3>4. log_size' \in Nat
      BY <2>2, <3>3
    <3>5. reader' \in ReaderAt
      BY <2>2 DEF ReaderAt
    <3> QED BY <3>4, <3>5 DEF TypedReader
  <2> HIDE DEF b
  <2> QED BY <1>b, <2>1, <2>2, <2>3, <2>4, <1>m, <1>c, <1>z, ReleasedTyped
<1>4. CASE WriteFails
  <2>1. CASE kind = "log"
    BY <1>4, <2>1, <1>m, <1>w, <1>f, <1>r, <1>v, <1>z DEF WriteFails, ReaderAt
  <2>2. CASE kind # "log"
    <3>1. PICK b \in Buffers : bufs' = [bufs EXCEPT ![1] = b]
      <4>1. 1 \in 1 .. Len(bufs) /\ buffer = 1
        <5>1. Len(bufs) = 1
          BY <2>2 DEF Aligned
        <5> QED BY <1>b, <5>1
      <4>2. bufs[1].q # <<>> /\ bufs[1] \in Buffers
        BY <1>4, <1>b, <4>1 DEF WriteFails
      <4>3. consume(bufs[1]) \in Buffers /\ cancel(bufs[1]) \in Buffers
        BY <1>b, <4>2, BufferOps
      <4>4. cancel(consume(bufs[1])) \in Buffers
        BY <1>b, <4>3, BufferOps
      <4> QED BY <1>4, <2>2, <4>3, <4>4 DEF WriteFails
    <3>2. 1 \in 1 .. Len(bufs)
      BY <1>b
    <3>3. TypedWriter'
      BY <1>4, <2>2, <1>w, ReleasedTyped DEF WriteFails
    <3>4. /\ reader' = "end" /\ failed' = TRUE
          /\ UNCHANGED <<kind, chainbuf, buffer, datasource_id_map, files, log_size, closer>>
      BY <1>4, <2>2 DEF WriteFails
    <3> QED BY <3>1, <3>2, <3>3, <3>4, <1>m, <1>f, <1>r, <1>c, <1>z DEF ReaderAt
  <2> QED BY <2>1, <2>2
<1>5. CASE Leave
  BY <1>5, <1>m, <1>w, <1>f, <1>r, <1>v, <1>z DEF Leave, bufVars, writeVars, ReaderAt
<1>6. CASE restart_stream
  <2>1. /\ bufs' = Append(bufs, put_data(NewBuffer, Shb)) /\ chainbuf' = Len(bufs) + 1
        /\ datasource_id_map' = [i \in {} |-> 0] /\ reader' = "open"
        /\ UNCHANGED <<kind, buffer, writer, files, log_size, closer, failed>>
    BY <1>6 DEF restart_stream
  <2>2. bufs' \in Seq(Buffers) /\ Len(bufs') = Len(bufs) + 1
    BY <1>t, <2>1, BlocksMade, AppendProperties DEF TypedBufs
  <2>3. TypedBufs' /\ TypedCloser'
    BY <1>b, <2>1, <2>2 DEF TypedBufs, TypedCloser
  <2>4. DOMAIN datasource_id_map' = {} /\ datasource_id_map' \in [{} -> Nat]
    BY <2>1
  <2>5. TypedMap'
    BY <2>4, FS_EmptySet DEF TypedMap
  <2> QED BY <2>1, <2>3, <2>5, <1>w, <1>f, <1>r, <1>z DEF ReaderAt
<1>7. CASE OpenNext
  <2>1. TypedBufs' /\ TypedCloser'
    <3>1. UNCHANGED <<bufs, chainbuf, closer>> /\ buffer' = chainbuf
      BY <1>7 DEF OpenNext
    <3>2. chainbuf \in 1 .. Len(bufs)
      BY <1>t, TypesHere
    <3> QED BY <1>t, <3>1, <3>2 DEF TypedBufs, TypedCloser
  <2>2. TypedFiles'
    <3>1. CASE files' = Append(files, <<>>)
      <4>1. <<>> \in Seq(Blocks)
        OBVIOUS
      <4> QED BY <1>t, <3>1, <4>1, AppendProperties DEF TypedFiles
    <3>2. CASE files' = files
      BY <3>2, <1>f
    <3> QED BY <1>7, <3>1, <3>2 DEF OpenNext
  <2> QED BY <1>7, <2>1, <2>2, <1>m, <1>w, <1>r, <1>z DEF OpenNext, writeVars, ReaderAt
<1>8. CASE FlushBlock
  <2> DEFINE old == bufs[buffer - 1]
  <2>1. /\ reader = "flush" /\ buffer - 1 \in 1 .. Len(bufs) /\ Len(files) - 1 \in 1 .. Len(files)
    <3>1. reader = "flush"
      BY <1>8 DEF FlushBlock
    <3>2. Len(bufs) >= 2 /\ Len(bufs) = Len(files) /\ buffer = Len(bufs)
      BY <3>1 DEF Aligned
    <3> QED BY <1>b, <3>1, <3>2
  <2>2. old \in Buffers
    BY <1>t, <2>1, ElementOfSeq DEF TypedBufs
  <2>3. old.q # <<>> /\ Head(old.q) \in Blocks /\ consume(old) \in Buffers
    BY <1>8, <1>b, <2>2, BufferOps DEF FlushBlock
  <2>4. CASE /\ Writes(Len(files) - 1, old) /\ bufs' = [bufs EXCEPT ![buffer - 1] = consume(old)]
             /\ UNCHANGED <<reader, failed>>
    <3>1. files' = [files EXCEPT ![Len(files) - 1] = Append(@, Head(old.q))]
      BY <2>4 DEF Writes
    <3>2. TypedFiles'
      BY <1>t, <2>1, <2>3, <3>1, FileStaysTyped
    <3>3. reader' \in ReaderAt
      BY <2>1, <2>4 DEF ReaderAt
    <3> HIDE DEF old
    <3> QED BY <1>8, <2>1, <2>3, <2>4, <3>2, <3>3, <1>m, <1>w, <1>r, <1>c, <1>z
          DEF FlushBlock, writeVars
  <2>5. CASE reader' = "close self" /\ failed' = TRUE /\ UNCHANGED <<files, bufs>>
    BY <1>8, <2>5, <1>m, <1>w, <1>f, <1>r, <1>v, <1>z DEF FlushBlock, writeVars, ReaderAt
  <2> QED BY <1>8, <2>4, <2>5 DEF FlushBlock
<1>9. CASE EndRotation
  <2>1. buffer - 1 \in 1 .. Len(bufs)
    BY <1>9, <1>b DEF EndRotation, Aligned
  <2>2. bufs[buffer - 1] \in Buffers
    BY <1>t, <2>1, ElementOfSeq DEF TypedBufs
  <2>3. /\ bufs' = [bufs EXCEPT ![buffer - 1] = [bufs[buffer - 1] EXCEPT !.live = FALSE]]
        /\ [bufs[buffer - 1] EXCEPT !.live = FALSE] \in Buffers
    BY <1>9, <1>b, <2>2, BufferOps DEF EndRotation
  <2> QED BY <1>9, <2>1, <2>3, <1>m, <1>w, <1>f, <1>r, <1>c, <1>z
        DEF EndRotation, writeVars, ReaderAt
<1>10. CASE CloseSelf
  <2>1. /\ TypedWriter' /\ reader' \in ReaderAt /\ failed' = TRUE
        /\ closer' \in [pc : {"none", "cancel", "join", "closed"}, target : Nat]
        /\ closer'.target = closer.target
        /\ UNCHANGED <<kind, bufs, chainbuf, buffer, datasource_id_map, files, log_size>>
    BY <1>10, DownTyped DEF CloseSelf, GoesDown, bufVars
  <2>2. TypedBufs' /\ TypedCloser'
    BY <1>t, <1>b, <2>1 DEF TypedBufs, TypedCloser
  <2> QED BY <2>1, <2>2, <1>m, <1>f, <1>r, <1>z
<1> QED BY <1>1, <1>2, <1>3, <1>4, <1>5, <1>6, <1>7, <1>8, <1>9, <1>10 DEF Reader

\* A closer keeps the types.
LEMMA CloserTyped ==
  ASSUME Typed, Close \/ Closer
  PROVE  Typed'
<1>t. /\ TypedMap /\ TypedWriter /\ TypedFiles /\ TypedReader /\ TypedCloser /\ TypedBufs
      /\ kind \in Kinds /\ failed \in BOOLEAN
  BY TypesParts
<1>c. /\ closer \in [pc : {"none", "cancel", "join", "closed"}, target : Nat]
      /\ closer.target \in 1 .. Len(bufs)
  BY <1>t DEF TypedCloser
<1>m. ASSUME UNCHANGED <<kind, datasource_id_map, files, log_size>>, TypedWriter',
             reader' \in ReaderAt, failed' \in BOOLEAN, TypedBufs', TypedCloser'
      PROVE  Typed'
  <2>1. kind' \in Kinds /\ TypedMap' /\ TypedFiles' /\ TypedReader'
    BY <1>t, <1>m DEF TypedMap, TypedFiles, TypedReader
  <2> QED BY <1>m, <2>1, TypedAfter
<1>w. reader \in ReaderAt /\ (UNCHANGED writer => TypedWriter')
  BY <1>t DEF TypedReader, TypedWriter
<1>v. ASSUME UNCHANGED bufVars,
             closer' \in [pc : {"none", "cancel", "join", "closed"}, target : Nat],
             closer'.target \in 1 .. Len(bufs)
      PROVE  TypedBufs' /\ TypedCloser'
  BY <1>t, <1>v DEF TypedBufs, TypedCloser, bufVars
<1>1. CASE Close
  <2>1. buffer \in 1 .. Len(bufs) /\ buffer \in Nat
    BY <1>t DEF TypedBufs
  <2>2. /\ closer' \in [pc : {"none", "cancel", "join", "closed"}, target : Nat]
        /\ closer'.target \in 1 .. Len(bufs)
    BY <1>1, <2>1 DEF Close
  <2> QED BY <1>1, <2>2, <1>t, <1>m, <1>w, <1>v DEF Close, writeVars, readVars
<1>2. CASE CancelBuffer
  <2> DEFINE b == bufs[closer.target]
  <2>1. b \in Buffers
    BY <1>t, <1>c, ElementOfSeq DEF TypedBufs
  <2>2. cancel(b) \in Buffers
    <3>1. Shb \in Blocks
      BY BlocksMade
    <3> QED BY <2>1, <3>1, BufferOps
  <2>3. CASE /\ bufs' = IF b.live THEN [bufs EXCEPT ![closer.target] = cancel(b)] ELSE bufs
             /\ closer' = [closer EXCEPT !.pc = "join"]
             /\ UNCHANGED <<reader, failed, writer>>
    <3>1. /\ closer' \in [pc : {"none", "cancel", "join", "closed"}, target : Nat]
          /\ closer'.target = closer.target
      BY <1>c, <2>3
    <3>2. UNCHANGED <<chainbuf, buffer, kind, datasource_id_map, files, log_size>>
      BY <1>2 DEF CancelBuffer
    <3> HIDE DEF b
    <3>3. TypedBufs' /\ TypedCloser'
      <4>1. CASE b.live
        BY <1>c, <2>2, <2>3, <3>1, <3>2, <4>1, ReplaceTyped
      <4>2. CASE ~b.live
        BY <1>c, <2>3, <3>1, <3>2, <4>2, <1>v DEF bufVars
      <4> QED BY <4>1, <4>2
    <3> QED BY <2>3, <3>2, <3>3, <1>t, <1>m, <1>w
  <2>4. CASE GoesDown /\ UNCHANGED bufs
    <3>1. /\ TypedWriter' /\ reader' \in ReaderAt /\ failed' \in BOOLEAN
          /\ closer' \in [pc : {"none", "cancel", "join", "closed"}, target : Nat]
          /\ closer'.target = closer.target
          /\ UNCHANGED <<kind, bufs, chainbuf, buffer, datasource_id_map, files, log_size>>
      BY <1>2, <2>4, DownTyped DEF CancelBuffer
    <3> QED BY <1>c, <3>1, <1>m, <1>v DEF bufVars
  <2> QED BY <1>2, <2>3, <2>4 DEF CancelBuffer
<1>3. CASE Join
  <2>1. /\ closer' \in [pc : {"none", "cancel", "join", "closed"}, target : Nat]
        /\ closer'.target = closer.target
    BY <1>3, <1>c DEF Join
  <2>2. TypedWriter'
    BY <1>3, <1>t, WriterStaysTyped DEF Join, WriterAt, Apart
  <2> QED BY <1>3, <1>c, <2>1, <2>2, <1>t, <1>m, <1>w, <1>v DEF Join, readVars
<1> QED BY <1>1, <1>2, <1>3 DEF Closer

-----------------------------------------------------------------------------
(***************************************************************************)
(* What a step does to the buffers and files: nothing but to stop buffers; *)
(* put a block; move one from a buffer to its file; open a buffer or a     *)
(* file. The whole of a file is changed only by a put.                     *)
(***************************************************************************)
SameData ==
  /\ Len(bufs') = Len(bufs) /\ files' = files
  /\ \A n \in 1 .. Len(bufs) : /\ bufs'[n].q = bufs[n].q
                               /\ bufs'[n].run => bufs[n].run
Puts(x) ==
  /\ Len(bufs') = Len(bufs) /\ files' = files
  /\ \A n \in 1 .. Len(bufs) :
       /\ bufs'[n].run = bufs[n].run
       /\ bufs'[n].q = IF n = chainbuf /\ bufs[n].run THEN Append(bufs[n].q, x)
                       ELSE bufs[n].q
Moves(n) ==
  /\ n \in 1 .. Len(bufs) /\ n \in DOMAIN files /\ bufs[n].q # <<>>
  /\ Len(bufs') = Len(bufs) /\ DOMAIN files' = DOMAIN files /\ Len(files') = Len(files)
  /\ \A m \in 1 .. Len(bufs) : bufs'[m].run = bufs[m].run
  /\ bufs'[n].q = Tail(bufs[n].q) /\ files'[n] = Append(files[n], Head(bufs[n].q))
  /\ \A m \in 1 .. Len(bufs) : m # n => bufs'[m].q = bufs[m].q
  /\ \A m \in DOMAIN files : m # n => files'[m] = files[m]

\* The buffers and files of a typed state.
LEMMA TypedData ==
  ASSUME Typed
  PROVE  /\ Len(bufs) \in Nat /\ bufs \in Seq(Buffers) /\ DOMAIN bufs = 1 .. Len(bufs)
         /\ Len(bufs) > 0 /\ chainbuf = Len(bufs) /\ chainbuf \in 1 .. Len(bufs)
         /\ buffer \in 1 .. Len(bufs)
         /\ Len(files) \in Nat /\ Len(files) > 0 /\ DOMAIN files = 1 .. Len(files)
         /\ \A n \in 1 .. Len(bufs) : bufs[n] \in Buffers /\ bufs[n].q \in Files
         /\ \A n \in DOMAIN files : files[n] \in Files
         /\ \A n \in 1 .. Len(bufs) : Whole(n) \in Files
<1>1. TypedBufs /\ TypedFiles /\ TypedWriter
  BY TypesParts
<1>2. /\ Len(bufs) \in Nat /\ bufs \in Seq(Buffers) /\ DOMAIN bufs = 1 .. Len(bufs)
      /\ chainbuf = Len(bufs) /\ buffer \in 1 .. Len(bufs)
  BY <1>1 DEF TypedBufs
<1>3. Len(bufs) > 0 /\ chainbuf \in 1 .. Len(bufs)
  BY <1>2
<1>4. /\ Len(files) \in Nat /\ Len(files) > 0 /\ DOMAIN files = 1 .. Len(files)
      /\ \A n \in DOMAIN files : files[n] \in Files
  <2>1. files \in Seq(Seq(Blocks)) /\ files # <<>>
    BY <1>1 DEF TypedFiles
  <2> QED BY <2>1, ElementOfSeq, LenProperties, EmptySeq DEF Files
<1>5. \A n \in 1 .. Len(bufs) : bufs[n] \in Buffers
  BY <1>2, ElementOfSeq
<1>6. \A n \in 1 .. Len(bufs) : bufs[n].q \in Files
  BY <1>5 DEF Buffers, Files
<1>7. <<>> \in Files
  BY DEF Files
<1>8. ASSUME NEW n \in 1 .. Len(bufs) PROVE Whole(n) \in Files
  BY <1>4, <1>6, <1>7, MovesAndGrows DEF Whole
<1> QED BY <1>2, <1>3, <1>4, <1>5, <1>6, <1>8

\* One buffer gets flags, or none does.
LEMMA FlagEffect ==
  ASSUME Typed, NEW n \in 1 .. Len(bufs), NEW b \in Buffers, b.q = bufs[n].q,
         b.run => bufs[n].run, bufs' = [bufs EXCEPT ![n] = b], UNCHANGED files
  PROVE  SameData
BY TypedData, Replaced DEF SameData

\* No data changes where no buffer and no file does.
LEMMA NoEffect == ASSUME UNCHANGED <<bufs, files>> PROVE SameData
BY DEF SameData

\* put_data appends to a buffer that is not stopped.
LEMMA PutEffect ==
  ASSUME Typed, NEW x \in Blocks, PutBlock(x), UNCHANGED files
  PROVE  Puts(x)
<1>1. bufs[chainbuf] \in Buffers /\ chainbuf \in 1 .. Len(bufs)
  BY TypedData
<1>2. bufs' = [bufs EXCEPT ![chainbuf] = put_data(bufs[chainbuf], x)]
  BY DEF PutBlock
<1>3. /\ put_data(bufs[chainbuf], x) \in Buffers
      /\ put_data(bufs[chainbuf], x).run = bufs[chainbuf].run
      /\ put_data(bufs[chainbuf], x).q =
           IF bufs[chainbuf].run THEN Append(bufs[chainbuf].q, x) ELSE bufs[chainbuf].q
  <2>1. put_data(bufs[chainbuf], x) \in Buffers
    BY <1>1, BufferOps
  <2> QED BY <1>1, <2>1 DEF put_data, Buffers
<1>4. /\ Len(bufs') = Len(bufs) /\ bufs'[chainbuf] = put_data(bufs[chainbuf], x)
      /\ \A m \in 1 .. Len(bufs) : m # chainbuf => bufs'[m] = bufs[m]
  BY <1>1, <1>2, <1>3, TypedData, Replaced
<1> QED BY <1>3, <1>4 DEF Puts

\* consume, with the file the block goes to.
LEMMA MoveEffect ==
  ASSUME Typed, NEW n \in 1 .. Len(bufs), n \in DOMAIN files, bufs[n].q # <<>>,
         Writes(n, bufs[n]), bufs' = [bufs EXCEPT ![n] = consume(bufs[n])]
  PROVE  Moves(n)
<1>1. /\ bufs[n] \in Buffers /\ DOMAIN files = 1 .. Len(files) /\ TypedFiles
      /\ bufs \in Seq(Buffers)
  BY TypedData, TypesParts
<1>2. Shb \in Blocks
  BY BlocksMade
<1>3. Head(bufs[n].q) \in Blocks /\ consume(bufs[n]) \in Buffers
  BY <1>1, <1>2, BufferOps
<1>4. consume(bufs[n]).q = Tail(bufs[n].q) /\ consume(bufs[n]).run = bufs[n].run
  BY <1>1 DEF consume, Buffers
<1>5. /\ Len(bufs') = Len(bufs) /\ bufs'[n] = consume(bufs[n])
      /\ \A m \in 1 .. Len(bufs) : m # n => bufs'[m] = bufs[m]
  BY <1>1, <1>3, Replaced
<1>6. files' = [files EXCEPT ![n] = Append(@, Head(bufs[n].q))]
  BY DEF Writes
<1>7. /\ Len(files') = Len(files) /\ DOMAIN files' = DOMAIN files
      /\ files'[n] = Append(files[n], Head(bufs[n].q))
      /\ \A m \in 1 .. Len(files) : m # n => files'[m] = files[m]
  BY <1>1, <1>3, <1>6, FileStaysTyped
<1> QED BY <1>1, <1>4, <1>5, <1>7 DEF Moves

\* The two ends of a buffer: what a reader's write does.
LEMMA WriteBlockMoves ==
  ASSUME Typed, Aligned, WriteBlock
  PROVE  Moves(buffer) /\ buffer = Len(files) /\ buffer = Len(bufs)
<1>1. reader = "head" /\ bufs[buffer].q # <<>> /\ Writes(Len(files), bufs[buffer])
      /\ bufs' = [bufs EXCEPT ![buffer] = consume(bufs[buffer])]
  BY DEF WriteBlock
<1>2. buffer = Len(bufs) /\ Len(bufs) = Len(files)
  BY <1>1 DEF Aligned
<1>3. buffer \in 1 .. Len(bufs) /\ buffer \in DOMAIN files
  BY <1>2, TypedData
<1> QED BY <1>1, <1>2, <1>3, MoveEffect

\* And the write of a block the old buffer still holds, or its failure.
LEMMA FlushBlockMoves ==
  ASSUME Typed, Aligned, FlushBlock
  PROVE  /\ buffer - 1 \in 1 .. Len(bufs) /\ buffer = Len(files) /\ buffer = Len(bufs)
         /\ \/ Moves(buffer - 1) /\ UNCHANGED <<reader, failed>>
            \/ SameData /\ reader' = "close self" /\ failed' = TRUE
<1>1. reader = "flush" /\ bufs[buffer - 1].q # <<>>
  BY DEF FlushBlock
<1>2. buffer = Len(bufs) /\ Len(bufs) = Len(files) /\ Len(bufs) >= 2
  BY <1>1 DEF Aligned
<1>3. buffer - 1 \in 1 .. Len(bufs) /\ buffer - 1 \in DOMAIN files
  BY <1>2, TypedData
<1>4. CASE /\ Writes(Len(files) - 1, bufs[buffer - 1]) /\ UNCHANGED <<reader, failed>>
           /\ bufs' = [bufs EXCEPT ![buffer - 1] = consume(bufs[buffer - 1])]
  <2>1. Writes(buffer - 1, bufs[buffer - 1])
    BY <1>2, <1>4
  <2>2. Moves(buffer - 1)
    BY <1>1, <1>3, <1>4, <2>1, MoveEffect
  <2> QED BY <1>2, <1>3, <1>4, <2>2
<1>5. CASE reader' = "close self" /\ failed' = TRUE /\ UNCHANGED <<files, bufs>>
  BY <1>2, <1>3, <1>5, NoEffect
<1>6. \/ /\ Writes(Len(files) - 1, bufs[buffer - 1]) /\ UNCHANGED <<reader, failed>>
         /\ bufs' = [bufs EXCEPT ![buffer - 1] = consume(bufs[buffer - 1])]
      \/ reader' = "close self" /\ failed' = TRUE /\ UNCHANGED <<files, bufs>>
  BY DEF FlushBlock
<1> QED BY <1>4, <1>5, <1>6

\* Moving a block, or setting a flag, leaves the wholes as they were.
LEMMA WholesStay ==
  ASSUME Typed, SameData \/ \E n : Moves(n)
  PROVE  \A m \in 1 .. Len(bufs) : Whole(m)' = Whole(m)
<1>1. CASE SameData
  BY <1>1 DEF SameData, Whole
<1>2. ASSUME NEW n, Moves(n), NEW m \in 1 .. Len(bufs) PROVE Whole(m)' = Whole(m)
  <2>1. CASE m = n
    <3>1. /\ files[n] \in Files /\ bufs[n].q \in Files /\ bufs[n].q # <<>>
          /\ n \in DOMAIN files /\ n \in DOMAIN files'
          /\ files'[n] = Append(files[n], Head(bufs[n].q)) /\ bufs'[n].q = Tail(bufs[n].q)
      BY <1>2, TypedData DEF Moves
    <3>2. Append(files[n], Head(bufs[n].q)) \o Tail(bufs[n].q) = files[n] \o bufs[n].q
      BY <3>1, MovesAndGrows
    <3> QED BY <2>1, <3>1, <3>2 DEF Whole
  <2>2. CASE m # n
    BY <1>2, <2>2 DEF Moves, Whole
  <2> QED BY <2>1, <2>2
<1> QED BY <1>1, <1>2

\* Only a put changes a whole, and only that of the buffer put into.
LEMMA WholeGrows ==
  ASSUME Typed, NEW x \in Blocks, Puts(x),
         UNCHANGED chainbuf
  PROVE  /\ \A m \in 1 .. Len(bufs) : m # chainbuf => Whole(m)' = Whole(m)
         /\ Whole(chainbuf)' = IF bufs[chainbuf].run THEN Append(Whole(chainbuf), x)
                               ELSE Whole(chainbuf)
<1>1. ASSUME NEW m \in 1 .. Len(bufs), m # chainbuf PROVE Whole(m)' = Whole(m)
  BY <1>1 DEF Puts, Whole
<1>2. PICK f \in Files : f = IF chainbuf \in DOMAIN files THEN files[chainbuf] ELSE <<>>
  <2>1. <<>> \in Files
    BY DEF Files
  <2> QED BY <2>1, TypedData
<1>3. chainbuf \in 1 .. Len(bufs) /\ bufs[chainbuf].q \in Files
  BY TypedData
<1>4. Whole(chainbuf) = f \o bufs[chainbuf].q /\ Whole(chainbuf)' = f \o bufs'[chainbuf].q
  BY <1>2 DEF Whole, Puts
<1>5. CASE bufs[chainbuf].run
  <2>1. bufs'[chainbuf].q = Append(bufs[chainbuf].q, x)
    BY <1>3, <1>5 DEF Puts
  <2>2. f \o Append(bufs[chainbuf].q, x) = Append(f \o bufs[chainbuf].q, x)
    BY <1>3, MovesAndGrows
  <2> QED BY <1>1, <1>4, <1>5, <2>1, <2>2
<1>6. CASE ~bufs[chainbuf].run
  <2>1. bufs'[chainbuf].q = bufs[chainbuf].q
    BY <1>3, <1>6 DEF Puts
  <2> QED BY <1>1, <1>4, <1>6, <2>1
<1> QED BY <1>1, <1>5, <1>6

-----------------------------------------------------------------------------
(***************************************************************************)
(* Steps keep the buffers aligned with the files.                          *)
(***************************************************************************)
\* Flags of a buffer, and of one that is canceled.
LEMMA FlagOps ==
  ASSUME NEW b \in Buffers
  PROVE  /\ cancel(b) \in Buffers /\ cancel(b).q = b.q /\ ~cancel(b).run
         /\ [b EXCEPT !.waiting = TRUE] \in Buffers
         /\ [b EXCEPT !.waiting = TRUE].q = b.q /\ [b EXCEPT !.waiting = TRUE].run = b.run
         /\ [b EXCEPT !.write_waiting = TRUE] \in Buffers
         /\ [b EXCEPT !.write_waiting = TRUE].q = b.q
         /\ [b EXCEPT !.write_waiting = TRUE].run = b.run
         /\ [b EXCEPT !.live = FALSE] \in Buffers
         /\ [b EXCEPT !.live = FALSE].q = b.q /\ [b EXCEPT !.live = FALSE].run = b.run
<1>1. Shb \in Blocks
  BY BlocksMade
<1>2. /\ cancel(b) \in Buffers /\ [b EXCEPT !.waiting = TRUE] \in Buffers
      /\ [b EXCEPT !.write_waiting = TRUE] \in Buffers /\ [b EXCEPT !.live = FALSE] \in Buffers
  BY <1>1, BufferOps
<1> QED BY <1>2 DEF cancel, Buffers

\* The blocks a writer may put.
PutsNow(x) ==
  \/ start_stream /\ x = Shb
  \/ /\ pcapng_make_idb /\ Room("idb")
     /\ x = Block("idb", writer.intf, 0, Cardinality(DOMAIN datasource_id_map), FALSE)
  \/ /\ pcapng_write_packet /\ Room("epb")
     /\ x = Block("epb", writer.intf, writer.num, writer.id, writer.short)

\* A writer puts a block, or only sets flags.
LEMMA WriterEffects ==
  ASSUME Typed, Writer \/ \E s \in Interfaces : handle_packet(s)
  PROVE  /\ UNCHANGED <<kind, chainbuf, buffer, reader, files, log_size, closer, failed>>
         /\ \/ SameData
            \/ \E x \in Blocks : Puts(x) /\ PutsNow(x)
<1>t. /\ chainbuf \in 1 .. Len(bufs) /\ bufs[chainbuf] \in Buffers /\ Shb \in Blocks
      /\ TypedWriter /\ TypedMap
  BY TypedData, BlocksMade, TypesParts
<1>u. UNCHANGED <<kind, chainbuf, buffer, reader, files, log_size, closer, failed>>
  BY DEF Writer, handle_packet, start_stream, pcapng_make_idb, pcapng_write_packet, Stall,
         wait_write, EndExport, bufVars, readVars
<1>f. ASSUME NEW b \in Buffers, b.q = bufs[chainbuf].q, b.run => bufs[chainbuf].run,
             bufs' = [bufs EXCEPT ![chainbuf] = b]
      PROVE  SameData
  BY <1>f, <1>t, <1>u, FlagEffect
<1>p. ASSUME NEW x \in Blocks, PutBlock(x) PROVE Puts(x)
  BY <1>p, <1>u, PutEffect
<1>1. CASE start_stream
  <2>1. PutBlock(Shb)
    BY <1>1 DEF start_stream
  <2> QED BY <1>1, <2>1, <1>t, <1>u, <1>p DEF PutsNow
<1>2. ASSUME NEW s \in Interfaces, handle_packet(s) PROVE SameData
  BY <1>2, <1>u, NoEffect DEF handle_packet, bufVars
<1>3. CASE pcapng_make_idb
  <2> DEFINE x == Block("idb", writer.intf, 0, Cardinality(DOMAIN datasource_id_map), FALSE)
  <2>1. CASE Room("idb")
    <3>1. Cardinality(DOMAIN datasource_id_map) \in Nat /\ writer.intf \in Interfaces \cup {""}
      BY <1>t, FS_CardinalityType, TypesHere, TypesParts DEF TypedMap
    <3>2. x \in Blocks
      BY <3>1, BlocksMade DEF BlockTypes
    <3>3. PutBlock(x)
      BY <1>3, <2>1 DEF pcapng_make_idb
    <3>4. PutsNow(x)
      BY <1>3, <2>1 DEF PutsNow
    <3> HIDE DEF x
    <3> QED BY <3>2, <3>3, <3>4, <1>u, <1>p
  <2>2. CASE ~Room("idb")
    BY <1>3, <2>2, <1>u, NoEffect DEF pcapng_make_idb
  <2> QED BY <2>1, <2>2
<1>4. CASE pcapng_write_packet
  <2> DEFINE x == Block("epb", writer.intf, writer.num, writer.id, writer.short)
  <2>1. CASE Room("epb")
    <3>1. x \in Blocks
      BY <1>t, BlocksMade, TypesHere, TypesParts DEF BlockTypes
    <3>2. PutBlock(x)
      BY <1>4, <2>1 DEF pcapng_write_packet
    <3>3. PutsNow(x)
      BY <1>4, <2>1 DEF PutsNow
    <3> HIDE DEF x
    <3> QED BY <3>1, <3>2, <3>3, <1>u, <1>p
  <2>2. CASE ~Room("epb")
    BY <1>4, <2>2, <1>u, NoEffect DEF pcapng_write_packet
  <2> QED BY <2>1, <2>2
<1>5. CASE Stall
  BY <1>5, <1>u, NoEffect DEF Stall, bufVars
<1>6. CASE wait_write
  <2>1. CASE bufs[chainbuf].run
    <3>1. bufs' = [bufs EXCEPT ![chainbuf] = [bufs[chainbuf] EXCEPT !.write_waiting = TRUE]]
      BY <1>6, <2>1 DEF wait_write
    <3> QED BY <1>t, <1>u, <1>f, <3>1, FlagOps
  <2>2. CASE ~bufs[chainbuf].run
    BY <1>6, <2>2, <1>u, NoEffect DEF wait_write
  <2> QED BY <2>1, <2>2
<1>7. CASE EndExport
  <2>1. bufs' = [bufs EXCEPT ![chainbuf] = cancel(bufs[chainbuf])]
    BY <1>7 DEF EndExport
  <2> QED BY <1>t, <1>u, <1>f, <2>1, FlagOps
<1> QED BY <1>u, <1>1, <1>2, <1>3, <1>4, <1>5, <1>6, <1>7 DEF Writer

\* A closer only stops a buffer.
LEMMA CloserEffects ==
  ASSUME Typed, Close \/ Closer
  PROVE  /\ UNCHANGED <<kind, chainbuf, buffer, files>> /\ SameData
         /\ reader' \in {reader, "terminated"}
<1>u. UNCHANGED <<kind, chainbuf, buffer, files>> /\ reader' \in {reader, "terminated"}
  BY DEF Close, Closer, CancelBuffer, Join, GoesDown, bufVars, readVars
<1>1. CASE UNCHANGED bufs
  BY <1>u, <1>1, NoEffect
<1>2. CASE bufs' = [bufs EXCEPT ![closer.target] = cancel(bufs[closer.target])]
  <2>1. closer.target \in 1 .. Len(bufs)
    BY TypesParts DEF TypedCloser
  <2> QED BY <1>u, <1>2, <2>1, TypedData, FlagOps, FlagEffect
<1> QED BY <1>u, <1>1, <1>2 DEF Close, Closer, CancelBuffer, Join, bufVars

\* A reader that puts a flag or leaves. What else it does moves a block, opens a
\* buffer or a file, or fails.
ReaderFlags == wait \/ Wake \/ Leave \/ EndRotation \/ CloseSelf

\* Such a reader changes no data.
LEMMA ReaderFlagEffects ==
  ASSUME Typed, Aligned, ReaderFlags
  PROVE  SameData /\ UNCHANGED <<kind, chainbuf, buffer, files>>
<1>u. UNCHANGED <<kind, chainbuf, buffer, files>>
  BY DEF ReaderFlags, wait, Wake, Leave, EndRotation, CloseSelf, bufVars
<1>1. CASE wait
  <2>1. bufs' = [bufs EXCEPT ![buffer] = [bufs[buffer] EXCEPT !.waiting = TRUE]]
    BY <1>1 DEF wait
  <2> QED BY <1>u, <2>1, TypedData, FlagOps, FlagEffect
<1>2. CASE EndRotation
  <2>1. /\ reader = "flush"
        /\ bufs' = [bufs EXCEPT ![buffer - 1] = [bufs[buffer - 1] EXCEPT !.live = FALSE]]
    BY <1>2 DEF EndRotation
  <2>2. Len(bufs) >= 2 /\ buffer = Len(bufs)
    BY <2>1 DEF Aligned
  <2>3. buffer - 1 \in 1 .. Len(bufs)
    BY <2>2, TypedData
  <2> QED BY <1>u, <2>1, <2>3, TypedData, FlagOps, FlagEffect
<1>3. CASE Wake \/ Leave \/ CloseSelf
  BY <1>u, <1>3, NoEffect DEF Wake, Leave, CloseSelf, bufVars
<1> QED BY <1>u, <1>1, <1>2, <1>3 DEF ReaderFlags

\* The steps of the log over to the next file, and what a client's failure does.
LEMMA RestartEffect ==
  ASSUME Typed, Aligned, restart_stream
  PROVE  /\ Len(files) = Len(bufs) /\ Len(bufs') = Len(bufs) + 1 /\ chainbuf' = Len(bufs) + 1
         /\ UNCHANGED <<kind, buffer, writer, files>> /\ reader = "rotate" /\ reader' = "open"
         /\ writer.pc = "idle" /\ datasource_id_map' = [i \in {} |-> 0]
         /\ \A n \in 1 .. Len(bufs) : bufs'[n] = bufs[n] /\ Whole(n)' = Whole(n)
         /\ bufs'[chainbuf'].q = <<Shb>> /\ Whole(chainbuf)' = <<Shb>>
<1>1. /\ bufs' = Append(bufs, put_data(NewBuffer, Shb)) /\ chainbuf' = Len(bufs) + 1
      /\ UNCHANGED <<kind, buffer, writer, files>> /\ reader = "rotate" /\ reader' = "open"
      /\ writer.pc = "idle" /\ datasource_id_map' = [i \in {} |-> 0]
  BY DEF restart_stream
<1>2. Len(files) = Len(bufs)
  BY <1>1 DEF Aligned
<1>3. /\ Len(bufs') = Len(bufs) + 1 /\ \A n \in 1 .. Len(bufs) : bufs'[n] = bufs[n]
      /\ bufs'[Len(bufs) + 1] = put_data(NewBuffer, Shb)
  <2>1. \A S, s, x : s \in Seq(S) /\ x \in S =>
          /\ Len(Append(s, x)) = Len(s) + 1 /\ Append(s, x)[Len(s) + 1] = x
          /\ \A n \in 1 .. Len(s) : Append(s, x)[n] = s[n]
    BY AppendProperties
  <2>2. bufs \in Seq(Buffers) /\ put_data(NewBuffer, Shb) \in Buffers
    BY BlocksMade, TypedData
  <2> QED BY <1>1, <2>1, <2>2
<1>4. put_data(NewBuffer, Shb).q = <<Shb>>
  BY DEF put_data, NewBuffer
<1>5. \A n \in 1 .. Len(bufs) : Whole(n)' = Whole(n)
  BY <1>1, <1>3 DEF Whole
<1>6. Whole(chainbuf)' = <<Shb>>
  <2>1. Len(bufs) + 1 \notin DOMAIN files /\ Len(bufs) \in Nat
    BY <1>2, TypedData
  <2>2. <<Shb>> \in Files
    <3>1. \A S, x : x \in S => <<x>> \in Seq(S)
      OBVIOUS
    <3> QED BY <3>1, BlocksMade DEF Files
  <2>3. <<>> \o <<Shb>> = <<Shb>>
    BY <2>2, MovesAndGrows
  <2> QED BY <1>1, <1>3, <1>4, <2>1, <2>3 DEF Whole
<1> QED BY <1>1, <1>2, <1>3, <1>4, <1>5, <1>6

\* The next file is opened, empty, or the log gives up.
LEMMA OpenEffect ==
  ASSUME Typed, Aligned, OpenNext
  PROVE  /\ UNCHANGED <<kind, bufs, chainbuf, writer, datasource_id_map>>
         /\ buffer' = Len(bufs) /\ Len(bufs) = Len(files) + 1 /\ kind = "log"
         /\ \A n \in 1 .. Len(bufs) : Whole(n)' = Whole(n)
         /\ \/ /\ reader' = "flush" /\ files' = Append(files, <<>>) /\ UNCHANGED failed
               /\ Len(files') = Len(bufs) /\ files'[Len(bufs)] = <<>>
               /\ \A n \in DOMAIN files : files'[n] = files[n]
            \/ reader' = "close self" /\ failed' = TRUE /\ UNCHANGED files
<1>1. /\ UNCHANGED <<kind, bufs, chainbuf, writer, datasource_id_map>> /\ buffer' = chainbuf
      /\ reader = "open"
      /\ \/ reader' = "flush" /\ files' = Append(files, <<>>) /\ UNCHANGED failed
         \/ reader' = "close self" /\ failed' = TRUE /\ UNCHANGED files
  BY DEF OpenNext, writeVars
<1>2. Len(bufs) = Len(files) + 1 /\ kind = "log"
  BY <1>1 DEF Aligned
<1>d. Len(files) \in Nat /\ DOMAIN files = 1 .. Len(files) /\ chainbuf = Len(bufs)
  BY TypedData
<1>3. CASE files' = Append(files, <<>>)
  <2>1. <<>> \in Seq(Blocks) /\ files \in Seq(Seq(Blocks))
    BY TypesParts DEF TypedFiles
  <2>2. /\ Len(files') = Len(bufs) /\ files'[Len(bufs)] = <<>>
        /\ \A n \in DOMAIN files : files'[n] = files[n]
        /\ DOMAIN files' = 1 .. Len(bufs)
    BY <1>2, <1>3, <1>d, <2>1, AppendProperties
  <2>3. ASSUME NEW n \in 1 .. Len(bufs) PROVE Whole(n)' = Whole(n)
    <3>1. CASE n \in DOMAIN files
      BY <1>1, <1>d, <2>2, <3>1 DEF Whole
    <3>2. CASE n = Len(bufs)
      BY <1>1, <1>2, <1>d, <2>2, <3>2 DEF Whole
    <3> QED BY <1>2, <1>d, <3>1, <3>2
  <2> QED BY <1>1, <1>2, <1>3, <1>d, <2>2, <2>3
<1>4. CASE reader' = "close self" /\ UNCHANGED files
  BY <1>1, <1>2, <1>4, <1>d DEF Whole
<1> QED BY <1>1, <1>3, <1>4

\* A write that fails: the log keeps the block, a session stops its stream.
LEMMA FailEffect ==
  ASSUME Typed, Aligned, WriteFails
  PROVE  /\ UNCHANGED <<kind, chainbuf, buffer, files, datasource_id_map, closer>> /\ failed' = TRUE
         /\ Len(bufs') = Len(bufs)
         /\ \/ kind = "log" /\ UNCHANGED <<bufs, writer>> /\ reader' = "close self"
            \/ /\ kind # "log" /\ Len(bufs) = 1 /\ reader' = "end" /\ ~bufs'[1].run
<1>1. /\ UNCHANGED <<kind, chainbuf, buffer, files, datasource_id_map, closer>> /\ failed' = TRUE
      /\ reader = "head" /\ bufs[buffer].q # <<>>
  BY DEF WriteFails
<1>2. CASE kind = "log"
  BY <1>1, <1>2 DEF WriteFails
<1>3. CASE kind # "log"
  <2>1. Len(bufs) = 1
    BY <1>3 DEF Aligned
  <2>2. buffer = 1 /\ 1 \in 1 .. Len(bufs) /\ bufs[1] \in Buffers /\ bufs \in Seq(Buffers)
    BY <2>1, TypedData
  <2>3. Shb \in Blocks /\ bufs[1].q # <<>>
    BY <1>1, <2>2, BlocksMade
  <2>4. consume(bufs[1]) \in Buffers
    BY <2>2, <2>3, BufferOps
  <2>5. /\ cancel(bufs[1]) \in Buffers /\ ~cancel(bufs[1]).run
        /\ cancel(consume(bufs[1])) \in Buffers /\ ~cancel(consume(bufs[1])).run
    BY <2>2, <2>4, FlagOps
  <2>6. PICK b \in Buffers : bufs' = [bufs EXCEPT ![1] = b] /\ ~b.run
    BY <1>3, <2>5 DEF WriteFails
  <2>7. Len(bufs') = Len(bufs) /\ bufs'[1] = b
    BY <2>2, <2>6, Replaced
  <2> QED BY <1>1, <1>3, <2>1, <2>6, <2>7 DEF WriteFails
<1> QED BY <1>2, <1>3

\* The writer goes on to the phases of its use.
LEMMA WriterRunsOn ==
  ASSUME Typed, Aligned, WriterRuns, StreamNext \/ UNCHANGED streamVars
  PROVE  WriterRuns'
<1> SUFFICES ASSUME kind' # "export"
             PROVE  writer'.pc \in {"start", "idle", "idb", "epb", "end"}
  BY DEF WriterRuns
<1>1. kind' = kind
  BY DEF StreamNext, Writer, Reader, Close, Closer, handle_packet, start_stream,
         pcapng_make_idb, pcapng_write_packet, Stall, wait_write, EndExport, wait, Wake,
         WriteBlock, WriteFails, Leave, restart_stream, OpenNext, FlushBlock, EndRotation,
         CloseSelf, CancelBuffer, Join, streamVars
<1>2. writer.pc \in {"start", "idle", "idb", "epb", "end"} /\ kind # "export"
  BY <1>1 DEF WriterRuns
<1>t. TypedWriter
  BY TypesParts
<1>3. CASE UNCHANGED writer
  BY <1>2, <1>3
<1>4. CASE writer' = Released
  <2>1. writer' = [writer EXCEPT !.pc = writer.pc]
    BY <1>2, <1>4 DEF Released
  <2> QED BY <1>2, <1>t, <2>1 DEF TypedWriter
<1>5. CASE \E pc \in {"idle", "end", "epb"} :
             \/ writer' = [writer EXCEPT !.pc = pc]
             \/ writer' = [writer EXCEPT !.pc = pc, !.short = TRUE]
             \/ \E id : writer' = [writer EXCEPT !.pc = pc, !.id = id]
  BY <1>5, <1>t DEF TypedWriter
<1>6. ASSUME NEW s \in Interfaces, handle_packet(s) PROVE writer'.pc \in {"idb", "epb"}
  BY <1>6 DEF handle_packet
<1>7. CASE Writer
  <2>1. ~Stall /\ ~wait_write /\ ~EndExport
    BY <1>2 DEF Stall, Stalls, wait_write, EndExport
  <2> QED BY <1>5, <1>7, <2>1 DEF Writer, start_stream, pcapng_make_idb, pcapng_write_packet
<1>8. CASE Reader
  BY <1>3, <1>4, <1>5, <1>8 DEF Reader, wait, Wake, WriteBlock, WriteFails, Leave,
     restart_stream, OpenNext, FlushBlock, EndRotation, CloseSelf, GoesDown, writeVars
<1>9. CASE Close \/ Closer
  BY <1>3, <1>5, <1>9 DEF Close, Closer, CancelBuffer, Join, GoesDown, writeVars
<1> QED BY <1>3, <1>6, <1>7, <1>8, <1>9 DEF StreamNext, streamVars, writeVars

\* Buffers and files stay aligned.
LEMMA AlignedOn ==
  ASSUME Typed, Aligned, StreamNext \/ UNCHANGED streamVars
  PROVE  Aligned'
<1>d. Len(bufs) \in Nat /\ Len(files) \in Nat /\ Len(bufs) > 0 /\ chainbuf = Len(bufs)
  BY TypedData
<1>1. ASSUME UNCHANGED <<kind, buffer, files>>, Len(bufs') = Len(bufs),
             Len(bufs) = 1 => (bufs'[1].run => bufs[1].run),
             reader' \in {reader, "terminated"}
      PROVE  Aligned'
  BY <1>1, <1>d DEF Aligned
<1>s. ASSUME SameData PROVE Len(bufs') = Len(bufs) /\ (Len(bufs) = 1 => (bufs'[1].run => bufs[1].run))
  BY <1>s, <1>d DEF SameData
<1>2. CASE UNCHANGED streamVars
  BY <1>1, <1>2 DEF streamVars, bufVars, readVars
<1>3. CASE Writer \/ \E s \in Interfaces : handle_packet(s)
  <2>1. /\ UNCHANGED <<kind, buffer, reader, files>>
        /\ SameData \/ \E x \in Blocks : Puts(x)
    BY <1>3, WriterEffects
  <2>2. ASSUME NEW x, Puts(x) PROVE Len(bufs') = Len(bufs) /\ (Len(bufs) = 1 => (bufs'[1].run => bufs[1].run))
    BY <1>d, <2>2 DEF Puts
  <2> QED BY <1>1, <1>s, <2>1, <2>2
<1>4. CASE Close \/ Closer
  BY <1>1, <1>4, <1>s, CloserEffects
<1>5. CASE wait \/ Wake \/ Leave \/ EndRotation \/ CloseSelf
  <2>1. SameData /\ UNCHANGED <<kind, chainbuf, buffer, files>>
    BY <1>5, ReaderFlagEffects DEF ReaderFlags
  <2>2. Len(bufs') = Len(bufs) /\ (Len(bufs) = 1 => (bufs'[1].run => bufs[1].run))
    BY <1>s, <2>1
  <2>3. CASE CloseSelf
    BY <1>1, <2>1, <2>2, <2>3 DEF CloseSelf, GoesDown
  <2>4. CASE wait
    BY <2>1, <2>2, <2>4, <1>d DEF wait, Aligned
  <2>5. CASE Wake
    BY <2>1, <2>2, <2>5, <1>d DEF Wake, Aligned
  <2>6. CASE EndRotation
    BY <2>1, <2>2, <2>6, <1>d DEF EndRotation, Aligned
  <2>7. CASE Leave
    <3>1. reader = "head" /\ reader' = "end" /\ ~bufs[buffer].run
      BY <2>7 DEF Leave
    <3>2. Len(bufs) = Len(files) /\ buffer = Len(bufs)
      BY <3>1 DEF Aligned
    <3> QED BY <2>1, <2>2, <3>1, <3>2, <1>d DEF Aligned
  <2> QED BY <1>5, <2>3, <2>4, <2>5, <2>6, <2>7
<1>6. CASE WriteBlock
  <2>1. Moves(buffer) /\ buffer = Len(files) /\ buffer = Len(bufs)
    BY <1>6, WriteBlockMoves
  <2>2. UNCHANGED <<kind, buffer>> /\ reader' \in {"rotate", "head"} /\ (reader' = "rotate" => kind = "log")
    BY <1>6 DEF WriteBlock
  <2> QED BY <1>d, <2>1, <2>2 DEF Moves, Aligned
<1>7. CASE WriteFails
  <2>1. /\ UNCHANGED <<kind, chainbuf, buffer, files>> /\ Len(bufs') = Len(bufs)
        /\ \/ kind = "log" /\ reader' = "close self"
           \/ kind # "log" /\ Len(bufs) = 1 /\ reader' = "end" /\ ~bufs'[1].run
    BY <1>7, FailEffect
  <2> QED BY <1>d, <2>1 DEF Aligned
<1>8. CASE restart_stream
  <2>1. /\ Len(files) = Len(bufs) /\ Len(bufs') = Len(bufs) + 1
        /\ UNCHANGED <<kind, buffer, files>> /\ reader = "rotate" /\ reader' = "open"
    BY <1>8, RestartEffect
  <2>2. kind = "log" /\ buffer = Len(bufs)
    BY <2>1 DEF Aligned
  <2> QED BY <1>d, <2>1, <2>2 DEF Aligned
<1>9. CASE OpenNext
  <2>1. /\ UNCHANGED <<kind, bufs>> /\ buffer' = Len(bufs) /\ Len(bufs) = Len(files) + 1 /\ kind = "log"
        /\ \/ reader' = "flush" /\ Len(files') = Len(bufs)
           \/ reader' = "close self" /\ UNCHANGED files
    BY <1>9, OpenEffect
  <2>2. Len(files) > 0 /\ Len(bufs') = Len(bufs) /\ kind' = "log"
    BY <2>1, TypedData
  <2>3. CASE reader' = "flush" /\ Len(files') = Len(bufs)
    BY <1>d, <2>1, <2>2, <2>3 DEF Aligned
  <2>4. CASE reader' = "close self" /\ UNCHANGED files
    BY <1>d, <2>1, <2>2, <2>4 DEF Aligned
  <2> QED BY <2>1, <2>3, <2>4
<1>10. CASE FlushBlock
  <2>1. /\ buffer = Len(files) /\ buffer = Len(bufs)
        /\ \/ Moves(buffer - 1) /\ UNCHANGED reader
           \/ SameData /\ reader' = "close self"
    BY <1>10, FlushBlockMoves
  <2>2. UNCHANGED <<kind, buffer>> /\ reader = "flush"
    BY <1>10 DEF FlushBlock
  <2>3. kind = "log" /\ Len(bufs) >= 2
    BY <2>2 DEF Aligned
  <2>4. Len(bufs') = Len(bufs) /\ Len(files') = Len(files)
    BY <2>1 DEF Moves, SameData
  <2> QED BY <1>d, <2>1, <2>2, <2>3, <2>4 DEF Aligned
<1> QED BY <1>2, <1>3, <1>4, <1>5, <1>6, <1>7, <1>8, <1>9, <1>10 DEF StreamNext, Reader

-----------------------------------------------------------------------------
(***************************************************************************)
(* The map of the stream agrees with the file its blocks go to.            *)
(***************************************************************************)
\* A file with one more block: what its end describes.
LEMMA EndGrows ==
  ASSUME NEW f \in Files, NEW x \in Blocks
  PROVE  /\ Append(f, x) \in Files /\ Append(f, x) # <<>>
         /\ \A id, intf : Ended(f, id, intf) => Ended(Append(f, x), id, intf)
         /\ Cardinality(IdbsBefore(Append(f, x), Len(Append(f, x)) + 1)) =
              Cardinality(IdbsBefore(f, Len(f) + 1)) + (IF x.type = "idb" THEN 1 ELSE 0)
         /\ x.type = "idb" =>
              Ended(Append(f, x), Cardinality(IdbsBefore(f, Len(f) + 1)), x.intf)
<1>1. /\ Append(f, x) \in Files /\ Len(f) \in Nat /\ Len(Append(f, x)) = Len(f) + 1
      /\ Len(Append(f, x)) + 1 = Len(f) + 2 /\ Len(f) + 1 \in 1 .. Len(f) + 1
  BY Grown
<1>2. Append(f, x) # <<>>
  BY <1>1
<1>3. \A id, intf : Ended(f, id, intf) => Ended(Append(f, x), id, intf)
  BY <1>1, DescriptionStays DEF Ended
<1>4. Cardinality(IdbsBefore(Append(f, x), Len(f) + 2)) =
        Cardinality(IdbsBefore(f, Len(f) + 1)) + (IF x.type = "idb" THEN 1 ELSE 0)
  BY NumberGrows
<1>5. x.type = "idb" => Ended(Append(f, x), Cardinality(IdbsBefore(f, Len(f) + 1)), x.intf)
  BY <1>1, NewDescription DEF Ended
<1> QED BY <1>1, <1>2, <1>3, <1>4, <1>5

\* A new section, with no interface in it.
LEMMA NewSection ==
  /\ <<Shb>> \in Files /\ <<Shb>> # <<>> /\ FileReadable(<<Shb>>)
  /\ Cardinality(IdbsBefore(<<Shb>>, Len(<<Shb>>) + 1)) = 0
<1>1. <<Shb>> \in Files /\ <<Shb>> # <<>> /\ Len(<<Shb>>) = 1 /\ DOMAIN <<Shb>> = {1}
  <2>1. \A S, x : x \in S => <<x>> \in Seq(S) /\ Len(<<x>>) = 1 /\ <<x>> # <<>>
    OBVIOUS
  <2>2. <<Shb>> \in Files /\ Len(<<Shb>>) = 1 /\ <<Shb>> # <<>>
    BY <2>1, BlocksMade DEF Files
  <2>3. \A f \in Files : DOMAIN f = 1 .. Len(f)
    BY DEF Files
  <2>4. 1 .. 1 = {1}
    OBVIOUS
  <2> QED BY <2>2, <2>3, <2>4
<1>2. <<Shb>>[1].type = "shb"
  BY DEF Shb, Block
<1>3. FileReadable(<<Shb>>)
  BY <1>1, <1>2 DEF FileReadable
<1>4. IdbsBefore(<<Shb>>, Len(<<Shb>>) + 1) = {}
  BY <1>1, <1>2 DEF IdbsBefore
<1> QED BY <1>1, <1>3, <1>4, FS_EmptySet

\* The block put by a writer is right for the end of a file that its map
\* agrees with, and the map still agrees with the file it makes.
LEMMA PutAgrees ==
  ASSUME Typed, kind # "export", NEW f \in Files, NEW x \in Blocks, PutsNow(x),
         Maps(f, writer, datasource_id_map)
  PROVE  /\ Maps(Append(f, x), writer', datasource_id_map')
         /\ x.type = "shb" <=> f = <<>>
         /\ x.type = "epb" /\ ~x.short => EndNames(f, x.id, x.intf)
<1> DEFINE g == Append(f, x)
           N(h) == Cardinality(IdbsBefore(h, Len(h) + 1))
<1>t. TypedWriter /\ TypedMap
  BY TypesParts
<1>g. /\ g # <<>> /\ \A id, intf : Ended(f, id, intf) => Ended(g, id, intf)
      /\ N(g) = N(f) + (IF x.type = "idb" THEN 1 ELSE 0)
      /\ x.type = "idb" => Ended(g, N(f), x.intf)
  BY EndGrows
<1>m. /\ Cardinality(DOMAIN datasource_id_map) = N(f) /\ N(f) \in Nat
      /\ \A i \in DOMAIN datasource_id_map : \E s \in Interfaces :
           Index[s] = i /\ Ended(f, datasource_id_map[i], s)
  <2>1. Len(f) + 1 \in Nat
    BY Grown
  <2> QED BY <2>1, Numbered DEF Maps
<1> HIDE DEF g, N
<1>1. CASE start_stream /\ x = Shb
  <2>1. writer.pc = "start" /\ writer'.pc = "idle" /\ UNCHANGED datasource_id_map
    BY <1>1, <1>t DEF start_stream, TypedWriter
  <2>2. x.type = "shb" /\ f = <<>>
    BY <1>1, <2>1 DEF Shb, Block, Maps
  <2>3. N(g) = N(f)
    BY <1>g, <1>m, <2>2
  <2>4. Maps(g, writer', datasource_id_map')
    BY <1>g, <1>m, <2>1, <2>3 DEF Maps, N
  <2> QED BY <2>2, <2>4 DEF g
<1>2. CASE /\ pcapng_make_idb /\ Room("idb")
           /\ x = Block("idb", writer.intf, 0, Cardinality(DOMAIN datasource_id_map), FALSE)
  <2>1. /\ writer.pc = "idb" /\ writer.intf \in Interfaces /\ Index[writer.intf] \notin DOMAIN datasource_id_map
        /\ writer' = [writer EXCEPT !.pc = "epb", !.id = N(f)]
        /\ datasource_id_map' = [i \in DOMAIN datasource_id_map \cup {Index[writer.intf]} |->
              IF i = Index[writer.intf] THEN N(f) ELSE datasource_id_map[i]]
    BY <1>2, <1>t, <1>m DEF pcapng_make_idb, TypedWriter, Apart, Maps
  <2>2. writer'.pc = "epb" /\ writer'.id = N(f) /\ writer'.intf = writer.intf
    BY <2>1, <1>t DEF TypedWriter
  <2>3. x.type = "idb" /\ x.intf = writer.intf /\ f # <<>>
    BY <1>2, <2>1 DEF Block, Maps
  <2>4. N(g) = N(f) + 1 /\ Ended(g, N(f), writer.intf)
    BY <1>g, <2>3
  <2>5. Cardinality(DOMAIN datasource_id_map') = N(f) + 1
    <3>1. DOMAIN datasource_id_map' = DOMAIN datasource_id_map \cup {Index[writer.intf]}
      BY <2>1
    <3> QED BY <1>m, <1>t, <2>1, <3>1, FS_AddElement DEF TypedMap
  <2>6. \A i \in DOMAIN datasource_id_map' : \E s \in Interfaces :
          Index[s] = i /\ Ended(g, datasource_id_map'[i], s)
    <3> SUFFICES ASSUME NEW i \in DOMAIN datasource_id_map'
                 PROVE  \E s \in Interfaces : Index[s] = i /\ Ended(g, datasource_id_map'[i], s)
      OBVIOUS
    <3>1. CASE i = Index[writer.intf]
      BY <2>1, <2>4, <3>1
    <3>2. CASE i # Index[writer.intf]
      BY <1>g, <1>m, <2>1, <3>2
    <3> QED BY <3>1, <3>2
  <2>7. EndNames(g, writer'.id, writer'.intf)
    BY <2>1, <2>2, <2>4 DEF EndNames, Names, Alike, Ended
  <2>8. Maps(g, writer', datasource_id_map')
    BY <1>g, <2>2, <2>4, <2>5, <2>6, <2>7 DEF Maps, N
  <2> QED BY <2>3, <2>8 DEF g
<1>3. CASE /\ pcapng_write_packet /\ Room("epb")
           /\ x = Block("epb", writer.intf, writer.num, writer.id, writer.short)
  <2>1. writer.pc = "epb" /\ writer'.pc = "idle" /\ UNCHANGED datasource_id_map
    BY <1>3, <1>t DEF pcapng_write_packet, TypedWriter
  <2>2. x.type = "epb" /\ f # <<>> /\ (~x.short => EndNames(f, x.id, x.intf))
    BY <1>3, <2>1 DEF Block, Maps
  <2>3. N(g) = N(f)
    BY <1>g, <1>m, <2>2
  <2>4. Maps(g, writer', datasource_id_map')
    BY <1>g, <1>m, <2>1, <2>3 DEF Maps, N
  <2> QED BY <2>2, <2>4 DEF g
<1> QED BY <1>1, <1>2, <1>3 DEF PutsNow, g

\* A writer that puts nothing: it begins a packet, or there is no room.
LEMMA NoPutAgrees ==
  ASSUME Typed, WriterRuns, kind # "export", NEW f \in Files, Maps(f, writer, datasource_id_map),
         \/ \E s \in Interfaces : handle_packet(s)
         \/ Writer /\ ~\E x \in Blocks : PutsNow(x)
  PROVE  Maps(f, writer', datasource_id_map')
<1>t. TypedWriter
  BY TypesParts
<1>1. ASSUME NEW s \in Interfaces, handle_packet(s) PROVE Maps(f, writer', datasource_id_map')
  <2> DEFINE known == Index[s] \in DOMAIN datasource_id_map
  <2>1. /\ writer.pc = "idle" /\ UNCHANGED datasource_id_map
        /\ writer'.pc = IF known THEN "epb" ELSE "idb"
        /\ writer'.intf = s /\ (known => writer'.id = datasource_id_map[Index[s]])
    BY <1>1 DEF handle_packet, Key
  <2>2. known => EndNames(f, datasource_id_map[Index[s]], s)
    BY DEF Maps, EndNames, Names, Alike, Ended
  <2> QED BY <2>1, <2>2 DEF Maps
<1>2. ASSUME Writer, ~\E x \in Blocks : PutsNow(x) PROVE Maps(f, writer', datasource_id_map')
  <2>1. ~start_stream /\ (pcapng_make_idb => ~Room("idb")) /\ (pcapng_write_packet => ~Room("epb"))
    <3>1. /\ Shb \in Blocks
          /\ Block("idb", writer.intf, 0, Cardinality(DOMAIN datasource_id_map), FALSE) \in Blocks
          /\ Block("epb", writer.intf, writer.num, writer.id, writer.short) \in Blocks
      <4>1. TypedMap
        BY TypesParts
      <4>2. /\ Cardinality(DOMAIN datasource_id_map) \in Nat /\ writer.intf \in Interfaces \cup {""}
            /\ writer.num \in Nat /\ writer.id \in Nat /\ writer.short \in BOOLEAN
        BY <1>t, <4>1, FS_CardinalityType DEF TypedMap, TypedWriter
      <4> QED BY <4>2, BlocksMade DEF BlockTypes
    <3> QED BY <1>2, <3>1 DEF PutsNow
  <2>2. ~Stall /\ ~wait_write /\ ~EndExport
    BY DEF WriterRuns, Stall, Stalls, wait_write, EndExport
  <2>3. CASE pcapng_make_idb
    <3>1. /\ UNCHANGED datasource_id_map /\ writer.pc = "idb" /\ writer'.pc = "epb" /\ writer'.short
      BY <1>t, <2>1, <2>3 DEF pcapng_make_idb, TypedWriter
    <3> QED BY <3>1 DEF Maps
  <2>4. CASE pcapng_write_packet
    <3>1. /\ UNCHANGED datasource_id_map /\ writer.pc = "epb" /\ writer'.pc = "idle"
      BY <1>t, <2>4 DEF pcapng_write_packet, TypedWriter
    <3> QED BY <3>1 DEF Maps
  <2> QED BY <1>2, <2>1, <2>2, <2>3, <2>4 DEF Writer
<1> QED BY <1>1, <1>2

-----------------------------------------------------------------------------
(***************************************************************************)
(* Steps keep files readable and the map right.                            *)
(***************************************************************************)
\* The whole of the file that is being put into, where it is not changed.
LEMMA SameWhole ==
  ASSUME Typed, UNCHANGED chainbuf,
         \A n \in 1 .. Len(bufs) : Whole(n)' = Whole(n)
  PROVE  Whole(chainbuf)' = Whole(chainbuf)
<1>1. PICK n \in 1 .. Len(bufs) : n = chainbuf
  BY TypedData
<1>2. Whole(chainbuf)' = Whole(n)'
  BY <1>1 DEF Whole
<1> QED BY <1>1, <1>2

\* A step that changes no whole, no map, and at most ends the writer.
LEMMA QuietMap ==
  ASSUME Typed, MapAgrees, UNCHANGED <<kind, chainbuf, datasource_id_map>>,
         \A n \in 1 .. Len(bufs) : Whole(n)' = Whole(n) /\ (bufs'[n].run => bufs[n].run),
         UNCHANGED writer \/ writer' = [writer EXCEPT !.pc = "end"]
  PROVE  MapAgrees'
<1>1. chainbuf \in 1 .. Len(bufs) /\ TypedWriter
  BY TypedData, TypesParts
<1>2. Whole(chainbuf)' = Whole(chainbuf) /\ (bufs'[chainbuf].run => bufs[chainbuf].run)
  BY <1>1, SameWhole
<1>3. Maps(Whole(chainbuf), writer, datasource_id_map) =>
        Maps(Whole(chainbuf), writer', datasource_id_map)
  BY <1>1 DEF Maps, TypedWriter
<1> QED BY <1>2, <1>3 DEF MapAgrees

\* What is in the files begins the wholes.
LEMMA FilesBeginWholes ==
  ASSUME Typed', Aligned', WholesReadable'
  PROVE  \A n \in DOMAIN files' : FileReadable(files'[n])
<1>1. /\ files' \in Seq(Files) /\ bufs' \in Seq(Buffers)
      /\ Len(bufs') \in {Len(files'), Len(files') + 1}
  BY DEF Typed, StreamTypeOK, Aligned, Files
<1>2. ASSUME NEW n \in DOMAIN files' PROVE FileReadable(files'[n])
  <2>1. n \in DOMAIN bufs' /\ files'[n] \in Files /\ bufs'[n] \in Buffers
    BY <1>1, <1>2
  <2>2. bufs'[n].q \in Files
    BY <2>1 DEF Buffers, Files
  <2>3. FileReadable(files'[n] \o bufs'[n].q)
    BY <1>2, <2>1 DEF WholesReadable, Whole
  <2> QED BY <2>1, <2>2, <2>3, BeginningReadable
<1> QED BY <1>2

\* A step that changes no whole keeps the files readable.
LEMMA QuietFiles ==
  ASSUME Typed, Typed', Aligned', Legible, UNCHANGED kind, Len(bufs') = Len(bufs),
         \A n \in 1 .. Len(bufs) : Whole(n)' = Whole(n),
         UNCHANGED files \/ GoesOn', GoesOn' => GoesOn
  PROVE  Legible'
<1> SUFFICES ASSUME kind # "export" PROVE Legible'
  BY DEF Legible
<1>1. ASSUME GoesOn' PROVE WholesReadable'
  <2>1. WholesReadable
    BY <1>1 DEF Legible
  <2>2. DOMAIN bufs = 1 .. Len(bufs) /\ DOMAIN bufs' = 1 .. Len(bufs)
    BY TypedData
  <2>3. ASSUME NEW n \in DOMAIN bufs' PROVE FileReadable(Whole(n))'
    BY <2>1, <2>2, <2>3 DEF WholesReadable
  <2> QED BY <2>3 DEF WholesReadable
<1>2. CASE GoesOn'
  BY <1>1, <1>2, FilesBeginWholes DEF Legible
<1>3. CASE ~GoesOn'
  BY <1>3 DEF Legible
<1> QED BY <1>2, <1>3

\* A writer's step: the block it puts is right for the file.
LEMMA WriterLegible ==
  ASSUME StreamInv, Typed', Aligned', Writer \/ \E s \in Interfaces : handle_packet(s)
  PROVE  Legible' /\ MapAgrees'
<1>i. Typed /\ Aligned /\ WriterRuns /\ Legible /\ MapAgrees
  BY DEF StreamInv
<1>u. /\ UNCHANGED <<kind, chainbuf, reader, files>>
      /\ \/ SameData
         \/ \E x \in Blocks : Puts(x) /\ PutsNow(x)
  BY <1>i, WriterEffects
<1> SUFFICES ASSUME kind # "export" PROVE Legible' /\ MapAgrees'
  BY <1>u DEF Legible, MapAgrees
<1>c. /\ chainbuf \in 1 .. Len(bufs) /\ DOMAIN bufs = 1 .. Len(bufs)
      /\ Whole(chainbuf) \in Files
  BY <1>i, TypedData
<1>m. bufs[chainbuf].run => Maps(Whole(chainbuf), writer, datasource_id_map)
  BY <1>i DEF MapAgrees
<1>g. GoesOn' => GoesOn
  BY <1>u DEF GoesOn
<1>1. ASSUME NEW x \in Blocks, Puts(x), PutsNow(x) PROVE Legible' /\ MapAgrees'
  <2>1. /\ \A m \in 1 .. Len(bufs) : m # chainbuf => Whole(m)' = Whole(m)
        /\ Whole(chainbuf)' = IF bufs[chainbuf].run THEN Append(Whole(chainbuf), x)
                              ELSE Whole(chainbuf)
        /\ Len(bufs') = Len(bufs) /\ bufs'[chainbuf].run = bufs[chainbuf].run
    BY <1>1, <1>c, <1>i, <1>u, WholeGrows DEF Puts
  <2>2. bufs[chainbuf].run =>
          /\ Maps(Append(Whole(chainbuf), x), writer', datasource_id_map')
          /\ x.type = "shb" <=> Whole(chainbuf) = <<>>
          /\ x.type = "epb" /\ ~x.short => EndNames(Whole(chainbuf), x.id, x.intf)
    BY <1>1, <1>c, <1>m, <1>i, PutAgrees
  <2>3. MapAgrees'
    BY <1>u, <2>1, <2>2 DEF MapAgrees
  <2>4. ASSUME GoesOn' PROVE WholesReadable'
    <3>1. WholesReadable
      BY <1>g, <1>i, <2>4 DEF Legible
    <3>2. bufs[chainbuf].run => FileReadable(Append(Whole(chainbuf), x))
      BY <1>1, <1>c, <2>2, <3>1, GrownReadable DEF WholesReadable, EndNames
    <3>3. FileReadable(Whole(chainbuf)')
      BY <1>c, <2>1, <3>1, <3>2 DEF WholesReadable
    <3>4. DOMAIN bufs' = 1 .. Len(bufs)
      <4>1. bufs' \in Seq(Buffers)
        BY DEF Typed, StreamTypeOK
      <4> QED BY <2>1, <4>1
    <3>5. ASSUME NEW n \in 1 .. Len(bufs) PROVE FileReadable(Whole(n)')
      <4>1. CASE n = chainbuf
        <5>1. Whole(chainbuf)' = Whole(n)'
          BY <1>u, <4>1 DEF Whole
        <5> QED BY <3>3, <5>1
      <4>2. CASE n # chainbuf
        BY <1>c, <2>1, <3>1, <4>2 DEF WholesReadable
      <4> QED BY <4>1, <4>2
    <3> QED BY <3>4, <3>5 DEF WholesReadable
  <2>5. \A n \in DOMAIN files' : FileReadable(files'[n])
    BY <1>u, <1>i DEF Legible
  <2> QED BY <2>3, <2>4, <2>5 DEF Legible
<1>2. ASSUME SameData, ~\E x \in Blocks : Puts(x) /\ PutsNow(x) PROVE Legible' /\ MapAgrees'
  <2>1. \A n \in 1 .. Len(bufs) : Whole(n)' = Whole(n) /\ (bufs'[n].run => bufs[n].run)
    BY <1>2, <1>i, WholesStay DEF SameData
  <2>2. Legible'
    BY <1>2, <1>g, <1>i, <1>u, <2>1, QuietFiles DEF SameData
  <2>3. Whole(chainbuf)' = Whole(chainbuf)
    BY <1>i, <1>u, <2>1, SameWhole
  <2>4. bufs'[chainbuf].run => bufs[chainbuf].run
    BY <1>c, <2>1
  <2>5. ~\E x \in Blocks : PutsNow(x)
    <3>1. ASSUME NEW x \in Blocks, PutsNow(x) PROVE Puts(x)
      <4>1. PutBlock(x)
        BY <3>1 DEF PutsNow, start_stream, pcapng_make_idb, pcapng_write_packet
      <4> QED BY <1>i, <1>u, <4>1, PutEffect
    <3> QED BY <1>2, <3>1
  <2>6. bufs[chainbuf].run => Maps(Whole(chainbuf), writer', datasource_id_map')
    BY <1>c, <1>i, <1>m, <2>5, NoPutAgrees
  <2>7. MapAgrees'
    BY <1>u, <2>3, <2>4, <2>6 DEF MapAgrees
  <2> QED BY <2>2, <2>7
<1> QED BY <1>u, <1>1, <1>2

\* A step of the reader or of a closer that changes no whole.
LEMMA QuietReader ==
  ASSUME StreamInv, Typed', Aligned', UNCHANGED <<kind, chainbuf, datasource_id_map>>,
         SameData \/ \E n : Moves(n), UNCHANGED files \/ reader \in {"head", "flush"},
         UNCHANGED files \/ UNCHANGED reader \/ reader' \in {"head", "rotate"},
         reader \in {"end", "terminated"} => reader' \in {"end", "terminated"},
         UNCHANGED writer \/ writer' = [writer EXCEPT !.pc = "end"]
  PROVE  Legible' /\ MapAgrees'
<1>i. Typed /\ Aligned /\ WriterRuns /\ Legible /\ MapAgrees
  BY DEF StreamInv
<1>1. /\ \A n \in 1 .. Len(bufs) : Whole(n)' = Whole(n) /\ (bufs'[n].run => bufs[n].run)
      /\ Len(bufs') = Len(bufs)
  BY <1>i, WholesStay DEF SameData, Moves
<1>2. (UNCHANGED files \/ GoesOn') /\ (GoesOn' => GoesOn)
  BY DEF GoesOn
<1> QED BY <1>1, <1>2, <1>i, QuietFiles, QuietMap

\* The reader's steps: a rotation begins a section in a new buffer, with no interface
\* known, and a file is opened for it before anything is written of it.
LEMMA ReaderLegible ==
  ASSUME StreamInv, Typed', Aligned', Reader
  PROVE  Legible' /\ MapAgrees'
<1>i. Typed /\ Aligned /\ WriterRuns /\ Legible /\ MapAgrees
  BY DEF StreamInv
<1>1. CASE ReaderFlags
  <2>1. SameData /\ UNCHANGED <<kind, chainbuf, buffer, files>>
    BY <1>1, <1>i, ReaderFlagEffects
  <2>2. /\ UNCHANGED datasource_id_map /\ reader \notin {"end", "terminated"}
        /\ UNCHANGED writer \/ writer' = [writer EXCEPT !.pc = "end"]
    BY <1>1 DEF ReaderFlags, wait, Wake, Leave, EndRotation, CloseSelf, GoesDown, writeVars
  <2> QED BY <2>1, <2>2, QuietReader
<1>2. CASE WriteBlock
  <2>1. Moves(buffer)
    BY <1>2, <1>i, WriteBlockMoves
  <2>2. /\ UNCHANGED <<kind, chainbuf, datasource_id_map>> /\ reader = "head"
        /\ reader' \in {"head", "rotate"} /\ writer' = Released
    BY <1>2 DEF WriteBlock
  <2>3. CASE kind # "export"
    <3>1. writer.pc \notin {"blocked idb", "blocked epb"} /\ TypedWriter
      BY <1>i, <2>3, TypesParts DEF WriterRuns
    <3>2. UNCHANGED writer
      BY <2>2, <3>1 DEF Released, TypedWriter
    <3> QED BY <2>1, <2>2, <3>2, QuietReader
  <2>4. CASE kind = "export"
    BY <2>2, <2>4 DEF Legible, MapAgrees
  <2> QED BY <2>3, <2>4
<1>3. CASE WriteFails
  <2>1. /\ UNCHANGED <<kind, chainbuf, files, datasource_id_map>> /\ Len(bufs') = Len(bufs)
        /\ \/ kind = "log" /\ UNCHANGED <<bufs, writer>> /\ reader' = "close self"
           \/ /\ kind # "log" /\ Len(bufs) = 1 /\ reader' = "end" /\ ~bufs'[1].run
    BY <1>3, <1>i, FailEffect
  <2>2. reader = "head"
    BY <1>3 DEF WriteFails
  <2>3. CASE kind = "log" /\ UNCHANGED <<bufs, writer>> /\ reader' = "close self"
    BY <2>1, <2>2, <2>3, NoEffect, QuietReader
  <2>4. CASE kind # "log" /\ Len(bufs) = 1 /\ reader' = "end" /\ ~bufs'[1].run
    <3>1. chainbuf' = 1
      BY <1>i, <2>1, <2>4, TypedData
    <3> QED BY <1>i, <2>1, <2>4, <3>1 DEF Legible, MapAgrees, GoesOn
  <2> QED BY <2>1, <2>3, <2>4
<1>4. CASE restart_stream
  <2>1. /\ Len(files) = Len(bufs) /\ Len(bufs') = Len(bufs) + 1 /\ chainbuf' = Len(bufs) + 1
        /\ UNCHANGED <<kind, buffer, writer, files>> /\ reader = "rotate" /\ reader' = "open"
        /\ writer.pc = "idle" /\ datasource_id_map' = [i \in {} |-> 0]
        /\ \A n \in 1 .. Len(bufs) : bufs'[n] = bufs[n] /\ Whole(n)' = Whole(n)
        /\ Whole(chainbuf)' = <<Shb>>
    BY <1>4, <1>i, RestartEffect
  <2>2. Maps(<<Shb>>, writer', datasource_id_map')
    BY <2>1, NewSection, FS_EmptySet DEF Maps
  <2>3. kind = "log"
    BY <1>i, <2>1 DEF Aligned
  <2>4. kind # "export" /\ WholesReadable
    BY <1>i, <2>3 DEF Legible, GoesOn
  <2>5. WholesReadable'
    <3>1. DOMAIN bufs = 1 .. Len(bufs) /\ Len(bufs) \in Nat
      BY <1>i, TypedData
    <3>2. DOMAIN bufs' = 1 .. Len(bufs) + 1
      <4>1. bufs' \in Seq(Buffers)
        BY DEF Typed, StreamTypeOK
      <4> QED BY <2>1, <4>1
    <3>3. ASSUME NEW n \in 1 .. Len(bufs) + 1 PROVE FileReadable(Whole(n)')
      <4>1. CASE n \in 1 .. Len(bufs)
        BY <2>1, <2>4, <3>1, <4>1 DEF WholesReadable
      <4>2. CASE n = Len(bufs) + 1
        <5>1. Whole(n)' = Whole(chainbuf)'
          BY <2>1, <4>2 DEF Whole
        <5> QED BY <2>1, <5>1, NewSection
      <4> QED BY <3>1, <4>1, <4>2
    <3> QED BY <3>2, <3>3 DEF WholesReadable
  <2> QED BY <2>1, <2>2, <2>5, FilesBeginWholes DEF Legible, MapAgrees
<1>5. CASE OpenNext
  <2>1. /\ UNCHANGED <<kind, bufs, chainbuf, writer, datasource_id_map>> /\ kind = "log"
        /\ \A n \in 1 .. Len(bufs) : Whole(n)' = Whole(n)
    BY <1>5, <1>i, OpenEffect
  <2>2. Legible'
    BY <1>i, <2>1, QuietFiles DEF GoesOn
  <2>3. MapAgrees'
    BY <1>i, <2>1, QuietMap
  <2> QED BY <2>2, <2>3
<1>6. CASE FlushBlock
  <2>1. \/ Moves(buffer - 1) /\ UNCHANGED reader
        \/ SameData /\ reader' = "close self"
    BY <1>6, <1>i, FlushBlockMoves
  <2>2. UNCHANGED <<kind, chainbuf, datasource_id_map, writer>> /\ reader = "flush"
    BY <1>6 DEF FlushBlock, writeVars
  <2> QED BY <2>1, <2>2, QuietReader DEF SameData
<1> QED BY <1>1, <1>2, <1>3, <1>4, <1>5, <1>6 DEF Reader, ReaderFlags

\* A closer moves nothing.
LEMMA CloserLegible ==
  ASSUME StreamInv, Typed', Aligned', Close \/ Closer
  PROVE  Legible' /\ MapAgrees'
<1>1. SameData /\ UNCHANGED <<kind, chainbuf, files>> /\ reader' \in {reader, "terminated"}
  BY CloserEffects DEF StreamInv
<1>2. /\ UNCHANGED datasource_id_map
      /\ UNCHANGED writer \/ writer' = [writer EXCEPT !.pc = "end"]
  BY DEF Close, Closer, CancelBuffer, Join, GoesDown, writeVars
<1> QED BY <1>1, <1>2, QuietReader

\* The invariant of the stream holds at first, and every step keeps it.
LEMMA StreamInitInv == StreamInit => StreamInv
<1> SUFFICES ASSUME StreamInit PROVE StreamInv
  OBVIOUS
<1>1. Typed
  BY StreamInitTyped
<1>2. /\ Len(bufs) = 1 /\ bufs[1] = NewBuffer /\ Len(files) = 1 /\ files[1] = <<>>
      /\ DOMAIN bufs = {1} /\ DOMAIN files = {1} /\ chainbuf = 1 /\ buffer = 1 /\ reader = "head"
      /\ writer.pc = "start" /\ datasource_id_map = [i \in {} |-> 0]
  <2>1. \A x : /\ Len(<<x>>) = 1 /\ <<x>>[1] = x /\ DOMAIN <<x>> = {1}
    OBVIOUS
  <2> QED BY <2>1 DEF StreamInit
<1>3. Aligned
  BY <1>2 DEF Aligned, NewBuffer
<1>4. WriterRuns
  BY <1>2 DEF WriterRuns
<1>5. Whole(1) = <<>> /\ FileReadable(<<>>)
  <2>1. <<>> \in Files /\ NewBuffer.q = <<>> /\ DOMAIN <<>> = {}
    BY DEF Files, NewBuffer
  <2>2. <<>> \o <<>> = <<>>
    BY <2>1, MovesAndGrows
  <2> QED BY <1>2, <2>1, <2>2 DEF Whole, FileReadable
<1>6. Legible
  BY <1>2, <1>5 DEF Legible, WholesReadable
<1>7. Maps(<<>>, writer, datasource_id_map)
  <2>1. IdbsBefore(<<>>, Len(<<>>) + 1) = {}
    BY DEF IdbsBefore
  <2> QED BY <1>2, <2>1 DEF Maps
<1>8. MapAgrees
  BY <1>2, <1>5, <1>7 DEF MapAgrees
<1> QED BY <1>1, <1>3, <1>4, <1>6, <1>8 DEF StreamInv

\* Each part of the invariant needs others: readable wholes need the map, the map
\* needs the writer's phases, and what moves is where the buffers are aligned.
LEMMA StreamNextInv == StreamInv /\ [StreamNext]_streamVars => StreamInv'
<1> SUFFICES ASSUME StreamInv, StreamNext \/ UNCHANGED streamVars PROVE StreamInv'
  OBVIOUS
<1>i. Typed /\ Aligned /\ WriterRuns /\ Legible /\ MapAgrees
  BY DEF StreamInv
<1>1. Aligned' /\ WriterRuns'
  BY <1>i, AlignedOn, WriterRunsOn
<1>2. CASE UNCHANGED streamVars
  <2>1. UNCHANGED <<kind, bufs, chainbuf, buffer, datasource_id_map, writer, reader, files,
                    log_size, closer, failed>>
    BY <1>2 DEF streamVars, bufVars, writeVars, readVars
  <2>2. Typed'
    BY <1>i, <2>1 DEF Typed, StreamTypeOK
  <2>3. Legible'
    BY <1>i, <2>1 DEF Legible, WholesReadable, GoesOn, Whole
  <2>4. MapAgrees'
    BY <1>i, <2>1 DEF MapAgrees, Whole
  <2> QED BY <1>1, <2>2, <2>3, <2>4 DEF StreamInv
<1>3. CASE Writer \/ \E s \in Interfaces : handle_packet(s)
  BY <1>1, <1>3, <1>i, WriterTyped, WriterLegible DEF StreamInv
<1>4. CASE Reader
  BY <1>1, <1>4, <1>i, ReaderTyped, ReaderLegible DEF StreamInv
<1>5. CASE Close \/ Closer
  BY <1>1, <1>5, <1>i, CloserTyped, CloserLegible DEF StreamInv
<1> QED BY <1>2, <1>3, <1>4, <1>5 DEF StreamNext

\* So it always holds.
LEMMA StreamAlways == StreamSpec => []StreamInv
BY StreamInitInv, StreamNextInv, PTL DEF StreamSpec

\* A stream's state has its types: buffer, chainbuf and target name buffers there are.
THEOREM StreamTypeCorrect == StreamSpec => []StreamTypeOK
<1>1. StreamInv => StreamTypeOK
  BY DEF StreamInv, Typed
<1> QED BY <1>1, StreamAlways, PTL

\* Every file of the log, and what a client was sent, can be read by itself at any
\* time: rotate_log starts the new file with a section header and forgets the numbers
\* of the old one's interfaces, under the mutex that the writer holds for a packet.
\* Nothing is assumed of the hash: a packet names an interface of its file that has
\* the hash of its own (lookup and insertion use the same one, make_idb 263-318).
THEOREM FilesAreReadable == StreamSpec => []FilesReadable
<1>1. StreamInv => FilesReadable
  BY DEF StreamInv, Legible, FilesReadable
<1> QED BY <1>1, StreamAlways, PTL

\* So a packet whose interface shares its hash with no other names its own: what a
\* collision mixes up is only the interfaces that collide.
THEOREM OwnInterfaceNamed ==
  StreamSpec => [](kind \in {"log", "web"} =>
    \A n \in DOMAIN files : \A i \in DOMAIN files[n] :
      LET x == files[n][i]
      IN x.type = "epb" /\ ~x.short /\ Alike(x.intf) = {x.intf} =>
           Describes(files[n], i, x.id, x.intf))
<1>1. FilesReadable => (kind \in {"log", "web"} =>
        \A n \in DOMAIN files : \A i \in DOMAIN files[n] :
          LET x == files[n][i]
          IN x.type = "epb" /\ ~x.short /\ Alike(x.intf) = {x.intf} =>
               Describes(files[n], i, x.id, x.intf))
  BY DEF FilesReadable, FileReadable, Names
<1> QED BY <1>1, FilesAreReadable, PTL

-----------------------------------------------------------------------------
(***************************************************************************)
(* The order of packets. A packet of a stream has a place: a file and an   *)
(* index. InOrder lists the numbers of a set of packets by their places.   *)
(***************************************************************************)
Placed(P) ==
  /\ IsFiniteSet(P) /\ P \subseteq Nat \X Nat \X Nat
  /\ \A o, p \in P : o[1] = p[1] /\ o[2] = p[2] => o = p
Before(P, p) == {o \in P : Earlier(o, p)}
AtRank(P, k) == CHOOSE p \in P : Cardinality(Before(P, p)) = k - 1

\* A list by rank.
LEMMA ListedByRank ==
  ASSUME NEW P
  PROVE  InOrder(P) = [k \in 1 .. Cardinality(P) |-> AtRank(P, k)[3]]
BY DEF InOrder, AtRank, Before

\* A packet that comes before another has fewer before it.
LEMMA PlaceGrows ==
  ASSUME NEW P, Placed(P), NEW o \in P, NEW p \in P
  PROVE  /\ Cardinality(Before(P, o)) \in 0 .. Cardinality(P) - 1
         /\ Cardinality(Before(P, o)) = Cardinality(Before(P, p)) => o = p
<1>1. ASSUME NEW x \in P
      PROVE  /\ x[1] \in Nat /\ x[2] \in Nat /\ x \notin Before(P, x)
             /\ Before(P, x) \subseteq P
             /\ IsFiniteSet(Before(P, x)) /\ Cardinality(Before(P, x)) \in Nat
  <2>1. x[1] \in Nat /\ x[2] \in Nat
    BY DEF Placed
  <2>2. x \notin Before(P, x) /\ Before(P, x) \subseteq P
    BY <2>1 DEF Before, Earlier
  <2> QED BY <2>1, <2>2, FS_Subset, FS_CardinalityType DEF Placed
<1>2. ASSUME NEW x \in P, NEW y \in P, Earlier(x, y)
      PROVE  Cardinality(Before(P, x)) < Cardinality(Before(P, y))
  <2>1. \A z \in P : Earlier(z, x) => Earlier(z, y)
    BY <1>1, <1>2 DEF Earlier
  <2>2. /\ Before(P, x) \subseteq Before(P, y) /\ x \in Before(P, y)
        /\ x \notin Before(P, x)
    BY <1>1, <1>2, <2>1 DEF Before
  <2>3. /\ Cardinality(Before(P, x)) <= Cardinality(Before(P, y))
        /\ Cardinality(Before(P, x)) # Cardinality(Before(P, y))
    BY <1>1, <2>2, FS_Subset
  <2> QED BY <1>1, <2>3
<1>3. Cardinality(Before(P, o)) < Cardinality(P) /\ Cardinality(P) \in Nat
  <2>1. Before(P, o) \subseteq P /\ Before(P, o) # P /\ IsFiniteSet(P)
    BY <1>1 DEF Placed
  <2>2. /\ Cardinality(Before(P, o)) <= Cardinality(P)
        /\ Cardinality(Before(P, o)) # Cardinality(P) /\ Cardinality(P) \in Nat
    BY <2>1, FS_Subset, FS_CardinalityType
  <2> QED BY <1>1, <2>2
<1>4. o = p \/ Earlier(o, p) \/ Earlier(p, o)
  BY <1>1 DEF Placed, Earlier
<1> QED BY <1>1, <1>2, <1>3, <1>4

\* Each rank is that of one packet.
LEMMA PlaceTaken ==
  ASSUME NEW P, Placed(P), NEW k \in 1 .. Cardinality(P)
  PROVE  /\ AtRank(P, k) \in P /\ Cardinality(Before(P, AtRank(P, k))) = k - 1
         /\ \A p \in P : Cardinality(Before(P, p)) = k - 1 => AtRank(P, k) = p
<1> DEFINE R == 0 .. Cardinality(P) - 1
           f == [p \in P |-> Cardinality(Before(P, p))]
<1>1. IsFiniteSet(P) /\ Cardinality(P) \in Nat
  BY FS_CardinalityType DEF Placed
<1>2. IsFiniteSet(R) /\ Cardinality(R) = Cardinality(P)
  <2>1. ASSUME NEW n \in Nat PROVE IsFiniteSet(0 .. n - 1) /\ Cardinality(0 .. n - 1) = n
    BY <2>1, FS_Interval
  <2> QED BY <1>1, <2>1
<1>3. f \in Injection(P, R)
  <2>1. f \in [P -> R]
    BY PlaceGrows
  <2>2. \A x, y \in P : f[x] = f[y] => x = y
    BY PlaceGrows
  <2> QED BY <2>1, <2>2 DEF Injection, IsInjective
<1>4. f \in Surjection(P, R)
  BY <1>2, <1>3, FS_Injection
<1>5. k - 1 \in R
  BY <1>1
<1>6. PICK p \in P : Cardinality(Before(P, p)) = k - 1
  BY <1>4, <1>5 DEF Surjection
<1>7. AtRank(P, k) \in P /\ Cardinality(Before(P, AtRank(P, k))) = k - 1
  BY <1>6 DEF AtRank
<1> QED BY <1>7, PlaceGrows

\* The list of a set.
LEMMA ListTyped ==
  ASSUME NEW P, Placed(P)
  PROVE  /\ InOrder(P) \in Seq(Nat) /\ Len(InOrder(P)) = Cardinality(P)
         /\ Cardinality(P) \in Nat /\ DOMAIN InOrder(P) = 1 .. Cardinality(P)
         /\ \A k \in 1 .. Cardinality(P) : InOrder(P)[k] = AtRank(P, k)[3]
<1>1. Cardinality(P) \in Nat
  BY FS_CardinalityType DEF Placed
<1>2. \A k \in 1 .. Cardinality(P) : AtRank(P, k)[3] \in Nat
  BY PlaceTaken DEF Placed
<1> QED BY <1>1, <1>2, ListedByRank

\* The earliest packets of a set are the first it lists.
Begins(L, P) == L \subseteq P /\ \A p \in L : \A o \in P : Earlier(o, p) => o \in L

\* So the list of the earliest begins the list of all.
LEMMA FirstListed ==
  ASSUME NEW P, Placed(P), NEW L, Begins(L, P)
  PROVE  /\ Placed(L) /\ Cardinality(L) <= Cardinality(P)
         /\ \A k \in 1 .. Cardinality(L) : InOrder(L)[k] = InOrder(P)[k]
         /\ InOrder(L) = SubSeq(InOrder(P), 1, Cardinality(L))
<1>1. Placed(L) /\ Cardinality(L) <= Cardinality(P)
  BY FS_Subset DEF Begins, Placed
<1>2. Cardinality(P) \in Nat /\ Cardinality(L) \in Nat
  BY <1>1, ListTyped
<1>3. ASSUME NEW k \in 1 .. Cardinality(L) PROVE InOrder(L)[k] = InOrder(P)[k]
  <2>1. k \in 1 .. Cardinality(P)
    BY <1>1, <1>2
  <2>2. AtRank(L, k) \in L /\ Cardinality(Before(L, AtRank(L, k))) = k - 1
    BY <1>1, PlaceTaken
  <2>3. Before(L, AtRank(L, k)) = Before(P, AtRank(L, k))
    BY <2>2 DEF Begins, Before
  <2>4. AtRank(P, k) = AtRank(L, k)
    BY <2>1, <2>2, <2>3, PlaceTaken DEF Begins
  <2> QED BY <1>1, <2>1, <2>4, ListTyped
<1>4. InOrder(L) = SubSeq(InOrder(P), 1, Cardinality(L))
  <2>1. /\ InOrder(L) \in Seq(Nat) /\ Len(InOrder(L)) = Cardinality(L)
        /\ InOrder(P) \in Seq(Nat) /\ Len(InOrder(P)) = Cardinality(P)
    BY <1>1, ListTyped
  <2>2. /\ SubSeq(InOrder(P), 1, Cardinality(L)) \in Seq(Nat)
        /\ Len(SubSeq(InOrder(P), 1, Cardinality(L))) = Cardinality(L)
        /\ \A k \in 1 .. Cardinality(L) :
             SubSeq(InOrder(P), 1, Cardinality(L))[k] = InOrder(P)[k]
    BY <1>1, <1>2, <2>1
  <2> QED BY <1>3, <2>1, <2>2, SeqEqual
<1> QED BY <1>1, <1>3, <1>4

\* A packet put after all others is listed last.
LEMMA LastListed ==
  ASSUME NEW P, Placed(P), NEW x \in Nat \X Nat \X Nat, \A p \in P : Earlier(p, x)
  PROVE  InOrder(P \cup {x}) = Append(InOrder(P), x[3])
<1> DEFINE Q == P \cup {x}
<1>a. x \notin P
  BY DEF Earlier
<1>b. Placed(Q)
  <2>1. \A p \in P : ~(p[1] = x[1] /\ p[2] = x[2])
    BY DEF Placed, Earlier
  <2> QED BY <2>1, FS_AddElement DEF Placed
<1>1. Begins(P, Q)
  <2>1. \A p \in P : ~Earlier(x, p)
    BY DEF Placed, Earlier
  <2> QED BY <2>1 DEF Begins
<1>2. \A k \in 1 .. Cardinality(P) : InOrder(P)[k] = InOrder(Q)[k]
  BY <1>1, <1>b, FirstListed
<1>3. Cardinality(Q) = Cardinality(P) + 1 /\ Cardinality(P) \in Nat
  BY <1>a, FS_AddElement, FS_CardinalityType DEF Placed
<1>4. Before(Q, x) = P
  <2>1. ~Earlier(x, x)
    BY DEF Placed, Earlier
  <2> QED BY <2>1 DEF Before
<1>5. AtRank(Q, Cardinality(P) + 1) = x
  BY <1>3, <1>4, <1>b, PlaceTaken
<1>6. /\ InOrder(P) \in Seq(Nat) /\ Len(InOrder(P)) = Cardinality(P)
      /\ InOrder(Q) \in Seq(Nat) /\ Len(InOrder(Q)) = Cardinality(P) + 1
      /\ InOrder(Q)[Cardinality(P) + 1] = x[3] /\ x[3] \in Nat
  <2>1. Cardinality(P) + 1 \in 1 .. Cardinality(Q) /\ x[3] \in Nat
    BY <1>3
  <2>2. Len(InOrder(Q)) = Cardinality(P) + 1 /\ InOrder(Q) \in Seq(Nat)
    BY <1>3, <1>b, ListTyped
  <2>3. InOrder(Q)[Cardinality(P) + 1] = x[3]
    BY <1>5, <1>b, <2>1, ListTyped
  <2> QED BY <2>1, <2>2, <2>3, ListTyped
<1>7. /\ Append(InOrder(P), x[3]) \in Seq(Nat)
      /\ Len(Append(InOrder(P), x[3])) = Cardinality(P) + 1
      /\ Append(InOrder(P), x[3])[Cardinality(P) + 1] = x[3]
      /\ \A k \in 1 .. Cardinality(P) : Append(InOrder(P), x[3])[k] = InOrder(P)[k]
  BY <1>6
<1>8. \A k \in 1 .. Cardinality(P) + 1 : InOrder(Q)[k] = Append(InOrder(P), x[3])[k]
  <2>1. \A k \in 1 .. Cardinality(P) + 1 : k = Cardinality(P) + 1 \/ k \in 1 .. Cardinality(P)
    BY <1>3
  <2> QED BY <1>2, <1>6, <1>7, <2>1
<1>9. InOrder(Q) = Append(InOrder(P), x[3])
  BY <1>6, <1>7, <1>8, SeqEqual
<1> QED BY <1>9

\* The next of the earliest is the next listed.
LEMMA NextListed ==
  ASSUME NEW P, Placed(P), NEW L, NEW x, x \notin L, Begins(L, P), Begins(L \cup {x}, P)
  PROVE  /\ Len(InOrder(L)) < Len(InOrder(P))
         /\ InOrder(L \cup {x}) = Append(InOrder(L), InOrder(P)[Len(InOrder(L)) + 1])
<1>1. /\ Placed(L) /\ Placed(L \cup {x})
      /\ Cardinality(L \cup {x}) <= Cardinality(P)
      /\ \A k \in 1 .. Cardinality(L) : InOrder(L)[k] = InOrder(P)[k]
      /\ \A k \in 1 .. Cardinality(L \cup {x}) : InOrder(L \cup {x})[k] = InOrder(P)[k]
  BY FirstListed
<1>2. Cardinality(L \cup {x}) = Cardinality(L) + 1 /\ Cardinality(L) \in Nat
  BY <1>1, FS_AddElement, FS_CardinalityType DEF Placed
<1> DEFINE n == Cardinality(L)
           y == InOrder(P)[n + 1]
<1>3. /\ InOrder(L) \in Seq(Nat) /\ Len(InOrder(L)) = n
      /\ InOrder(L \cup {x}) \in Seq(Nat) /\ Len(InOrder(L \cup {x})) = n + 1
      /\ InOrder(P) \in Seq(Nat) /\ Len(InOrder(P)) = Cardinality(P) /\ Cardinality(P) \in Nat
  BY <1>1, <1>2, ListTyped
<1>4. n + 1 \in 1 .. Len(InOrder(P)) /\ y \in Nat
  BY <1>1, <1>2, <1>3
<1>5. /\ Append(InOrder(L), y) \in Seq(Nat) /\ Len(Append(InOrder(L), y)) = n + 1
      /\ Append(InOrder(L), y)[n + 1] = y
      /\ \A k \in 1 .. n : Append(InOrder(L), y)[k] = InOrder(L)[k]
  BY <1>2, <1>3, <1>4
<1>6. \A k \in 1 .. n + 1 : InOrder(L \cup {x})[k] = Append(InOrder(L), y)[k]
  <2>1. \A k \in 1 .. n + 1 : k = n + 1 \/ k \in 1 .. n
    BY <1>2
  <2> QED BY <1>1, <1>2, <1>5, <2>1
<1>7. InOrder(L \cup {x}) = Append(InOrder(L), y)
  BY <1>3, <1>5, <1>6, SeqEqual
<1>8. n < Cardinality(P)
  BY <1>1, <1>2, <1>3
<1> HIDE DEF n
<1> QED BY <1>3, <1>7, <1>8

-----------------------------------------------------------------------------
(***************************************************************************)
(* The packets of the files and of the stream.                             *)
(***************************************************************************)
\* A packet of a file and its place.
LEMMA PacketPlaces ==
  ASSUME NEW n, NEW f, NEW p
  PROVE  p \in PacketsOf(n, f) <=>
           \E i \in DOMAIN f : f[i].type = "epb" /\ p = <<n, i, f[i].num>>
BY DEF PacketsOf

\* One more block is one more packet, at the end, or none.
LEMMA PacketsGrow ==
  ASSUME NEW n, NEW f \in Files, NEW x \in Blocks
  PROVE  PacketsOf(n, Append(f, x)) =
           PacketsOf(n, f) \cup (IF x.type = "epb" THEN {<<n, Len(f) + 1, x.num>>} ELSE {})
<1>1. /\ DOMAIN f = 1 .. Len(f) /\ DOMAIN Append(f, x) = 1 .. Len(f) + 1 /\ Len(f) \in Nat
      /\ \A i \in 1 .. Len(f) : Append(f, x)[i] = f[i]
      /\ Append(f, x)[Len(f) + 1] = x
      /\ \A i \in 1 .. Len(f) + 1 : i \in 1 .. Len(f) \/ i = Len(f) + 1
      /\ 1 .. Len(f) \subseteq 1 .. Len(f) + 1 /\ Len(f) + 1 \in 1 .. Len(f) + 1
  BY Grown
<1> DEFINE last == IF x.type = "epb" THEN {<<n, Len(f) + 1, x.num>>} ELSE {}
<1>2. ASSUME NEW p PROVE p \in PacketsOf(n, Append(f, x)) <=> p \in PacketsOf(n, f) \cup last
  <2>1. p \in PacketsOf(n, Append(f, x)) <=>
          \/ \E i \in 1 .. Len(f) : f[i].type = "epb" /\ p = <<n, i, f[i].num>>
          \/ x.type = "epb" /\ p = <<n, Len(f) + 1, x.num>>
    <3> DEFINE g == Append(f, x)
    <3>1. /\ \A i \in 1 .. Len(f) : g[i] = f[i]
          /\ g[Len(f) + 1] = x /\ DOMAIN g = 1 .. Len(f) + 1
      BY <1>1
    <3> HIDE DEF g
    <3>2. p \in PacketsOf(n, g) <=> \E i \in 1 .. Len(f) + 1 : g[i].type = "epb" /\ p = <<n, i, g[i].num>>
      BY <3>1, PacketPlaces
    <3>3. (\E i \in 1 .. Len(f) + 1 : g[i].type = "epb" /\ p = <<n, i, g[i].num>>) <=>
             \/ \E i \in 1 .. Len(f) : g[i].type = "epb" /\ p = <<n, i, g[i].num>>
             \/ g[Len(f) + 1].type = "epb" /\ p = <<n, Len(f) + 1, g[Len(f) + 1].num>>
      BY <1>1
    <3>4. (\E i \in 1 .. Len(f) : g[i].type = "epb" /\ p = <<n, i, g[i].num>>) <=>
             \E i \in 1 .. Len(f) : f[i].type = "epb" /\ p = <<n, i, f[i].num>>
      BY <3>1
    <3> QED BY <3>1, <3>2, <3>3, <3>4 DEF g
  <2>2. p \in PacketsOf(n, f) <=>
          \E i \in 1 .. Len(f) : f[i].type = "epb" /\ p = <<n, i, f[i].num>>
    BY <1>1, PacketPlaces
  <2> QED BY <2>1, <2>2
<1> QED BY <1>2

\* The places of a file, and of what begins it.
LEMMA PacketsTyped ==
  ASSUME NEW n \in Nat, NEW f \in Files
  PROVE  /\ \A p \in PacketsOf(n, f) : p \in Nat \X Nat \X Nat /\ p[1] = n /\ p[2] \in 1 .. Len(f)
         /\ \A o, p \in PacketsOf(n, f) : o[2] = p[2] => o = p
         /\ f = <<>> => PacketsOf(n, f) = {}
<1>1. DOMAIN f = 1 .. Len(f) /\ Len(f) \in Nat /\ \A i \in 1 .. Len(f) : f[i].num \in Nat
  <2>1. DOMAIN f = 1 .. Len(f) /\ Len(f) \in Nat /\ \A i \in 1 .. Len(f) : f[i] \in Blocks
    BY DEF Files
  <2> QED BY <2>1 DEF Blocks
<1>2. \A p \in PacketsOf(n, f) : p \in Nat \X Nat \X Nat /\ p[1] = n /\ p[2] \in 1 .. Len(f)
  BY <1>1, PacketPlaces
<1>3. \A o, p \in PacketsOf(n, f) : o[2] = p[2] => o = p
  BY PacketPlaces
<1>4. f = <<>> => PacketsOf(n, f) = {}
  BY <1>1, PacketPlaces
<1> QED BY <1>2, <1>3, <1>4

\* What begins a file has the packets of the file at its places.
LEMMA PacketsBegin ==
  ASSUME NEW n, NEW f \in Files, NEW q \in Files
  PROVE  /\ PacketsOf(n, f) \subseteq PacketsOf(n, f \o q)
         /\ \A p \in PacketsOf(n, f \o q) : p[2] \in 1 .. Len(f) => p \in PacketsOf(n, f)
<1> DEFINE g == f \o q
<1>1. /\ DOMAIN f = 1 .. Len(f) /\ 1 .. Len(f) \subseteq DOMAIN g
      /\ \A i \in 1 .. Len(f) : g[i] = f[i]
  BY DEF Files
<1> HIDE DEF g
<1>2. ASSUME NEW p \in PacketsOf(n, f) PROVE p \in PacketsOf(n, g)
  <2>1. PICK i \in 1 .. Len(f) : f[i].type = "epb" /\ p = <<n, i, f[i].num>>
    BY <1>1, PacketPlaces
  <2> QED BY <1>1, <2>1, PacketPlaces
<1>3. ASSUME NEW p \in PacketsOf(n, g), p[2] \in 1 .. Len(f) PROVE p \in PacketsOf(n, f)
  <2>1. PICK i \in DOMAIN g : g[i].type = "epb" /\ p = <<n, i, g[i].num>>
    BY PacketPlaces
  <2>2. i \in 1 .. Len(f)
    BY <1>3, <2>1
  <2> QED BY <1>1, <2>1, <2>2, PacketPlaces
<1> QED BY <1>2, <1>3 DEF g

\* Which packets are in the files and the stream.
LEMMA InWritten ==
  ASSUME NEW p
  PROVE  p \in Written <=> \E n \in DOMAIN files : p \in PacketsOf(n, files[n])
BY DEF Written

\* And which are in the stream.
LEMMA InStreamed ==
  ASSUME NEW p
  PROVE  p \in Streamed <=> \E n \in DOMAIN bufs : p \in PacketsOf(n, Whole(n))
BY DEF Streamed

\* What the files of a typed state hold has places, and each place one packet.
LEMMA StreamPlaced ==
  ASSUME Typed, IsFiniteSet(Streamed)
  PROVE  Placed(Streamed)
<1>1. \A n \in DOMAIN bufs : n \in Nat /\ Whole(n) \in Files
  BY TypedData
<1>2. Streamed \subseteq Nat \X Nat \X Nat
  BY <1>1, InStreamed, PacketsTyped
<1>3. ASSUME NEW o \in Streamed, NEW p \in Streamed, o[1] = p[1], o[2] = p[2]
      PROVE  o = p
  <2>1. PICK m \in DOMAIN bufs : o \in PacketsOf(m, Whole(m))
    BY InStreamed
  <2>2. PICK n \in DOMAIN bufs : p \in PacketsOf(n, Whole(n))
    BY InStreamed
  <2>3. m = n
    BY <1>1, <1>3, <2>1, <2>2, PacketsTyped
  <2> QED BY <1>1, <1>3, <2>1, <2>2, <2>3, PacketsTyped
<1> QED BY <1>2, <1>3 DEF Placed

\* While nothing failed, the buffers of the files before the last are empty but
\* for the one that is being emptied, before anything is in the last file.
Drained ==
  /\ \A m \in 1 .. Len(files) - 1 : bufs[m].q = <<>> \/ (m = Len(files) - 1 /\ reader = "flush")
  /\ reader = "flush" => files[Len(files)] = <<>>

\* Then the files hold the earliest packets of the stream.
LEMMA WrittenBegins ==
  ASSUME Typed, Aligned, Drained
  PROVE  Begins(Written, Streamed)
<1>d. /\ DOMAIN bufs = 1 .. Len(bufs) /\ DOMAIN files = 1 .. Len(files) /\ Len(files) \in Nat
      /\ Len(bufs) \in Nat /\ DOMAIN files \subseteq DOMAIN bufs
      /\ \A n \in DOMAIN files : files[n] \in Files /\ bufs[n].q \in Files /\ n \in Nat
      /\ \A n \in DOMAIN bufs : n \in Nat /\ Whole(n) \in Files
  <2>1. Len(files) \in Nat /\ Len(bufs) \in Nat
    BY TypedData
  <2>2. Len(files) <= Len(bufs)
    BY <2>1 DEF Aligned
  <2>3. 1 .. Len(files) \subseteq 1 .. Len(bufs)
    BY <2>1, <2>2
  <2> QED BY <2>1, <2>3, TypedData
<1>w. \A n \in DOMAIN files : Whole(n) = files[n] \o bufs[n].q
  BY DEF Whole
<1>1. Written \subseteq Streamed
  <2> SUFFICES ASSUME NEW p \in Written PROVE p \in Streamed
    OBVIOUS
  <2>1. PICK n \in DOMAIN files : p \in PacketsOf(n, files[n])
    BY InWritten
  <2>2. p \in PacketsOf(n, Whole(n))
    BY <1>d, <1>w, <2>1, PacketsBegin
  <2> QED BY <1>d, <2>2, InStreamed
<1>2. ASSUME NEW p \in Written, NEW o \in Streamed, Earlier(o, p)
      PROVE  o \in Written
  <2>1. PICK n \in DOMAIN files : p \in PacketsOf(n, files[n])
    BY InWritten
  <2>2. PICK m \in DOMAIN bufs : o \in PacketsOf(m, Whole(m))
    BY InStreamed
  <2>3. /\ p[1] = n /\ p[2] \in 1 .. Len(files[n]) /\ files[n] # <<>>
        /\ o[1] = m /\ o[2] \in 1 .. Len(Whole(m))
    BY <1>d, <2>1, <2>2, PacketsTyped
  <2>4. m < n \/ (m = n /\ o[2] < p[2])
    BY <1>2, <2>3 DEF Earlier
  <2>5. m \in DOMAIN files
    BY <1>d, <2>4
  <2>6. CASE m = n /\ o[2] < p[2]
    <3>1. Len(files[n]) \in Nat /\ Len(Whole(m)) \in Nat
      BY <1>d DEF Files
    <3>2. o[2] \in 1 .. Len(files[m])
      BY <2>3, <2>6, <3>1
    <3>3. o \in PacketsOf(m, files[m])
      BY <1>d, <1>w, <2>2, <2>5, <3>2, PacketsBegin
    <3> QED BY <2>5, <3>3, InWritten
  <2>7. CASE m < n
    <3>1. bufs[m].q = <<>>
      <4>1. m \in 1 .. Len(files) - 1
        BY <1>d, <2>5, <2>7
      <4>2. m = Len(files) - 1 => n = Len(files)
        BY <1>d, <2>7
      <4> QED BY <2>3, <4>1, <4>2 DEF Drained
    <3>2. Whole(m) = files[m]
      <4>1. files[m] \o <<>> = files[m]
        BY <1>d, <2>5, MovesAndGrows
      <4> QED BY <1>w, <2>5, <3>1, <4>1
    <3> QED BY <2>2, <2>5, <3>2, InWritten
  <2> QED BY <2>4, <2>6, <2>7
<1> QED BY <1>1, <1>2 DEF Begins

-----------------------------------------------------------------------------
(***************************************************************************)
(* What a step does to the packets written and streamed.                   *)
(***************************************************************************)
\* What is written changes with the files only.
LEMMA WrittenStays == ASSUME UNCHANGED files PROVE Written' = Written
BY DEF Written

\* The stream keeps its packets where the wholes do.
LEMMA StreamedStays ==
  ASSUME Typed, Typed', Len(bufs') = Len(bufs),
         \A n \in 1 .. Len(bufs) : Whole(n)' = Whole(n)
  PROVE  Streamed' = Streamed
<1>1. DOMAIN bufs = 1 .. Len(bufs) /\ DOMAIN bufs' = 1 .. Len(bufs)
  <2>1. bufs' \in Seq(Buffers)
    BY DEF Typed, StreamTypeOK
  <2> QED BY <2>1, TypedData
<1>2. ASSUME NEW p PROVE p \in Streamed' <=> p \in Streamed
  <2>1. p \in Streamed' <=> \E n \in DOMAIN bufs' : p \in PacketsOf(n, Whole(n)')
    BY DEF Streamed
  <2> QED BY <1>1, <2>1, InStreamed
<1> QED BY <1>2

\* A block put is one more packet of the stream, after the others, or none.
LEMMA PutStreams ==
  ASSUME Typed, Typed', NEW x \in Blocks, Puts(x), UNCHANGED chainbuf
  PROVE  /\ Written' = Written
         /\ Streamed' = Streamed \cup
              (IF x.type = "epb" /\ bufs[chainbuf].run
               THEN {<<chainbuf, Len(Whole(chainbuf)) + 1, x.num>>} ELSE {})
<1> DEFINE new == IF x.type = "epb" /\ bufs[chainbuf].run
                  THEN {<<chainbuf, Len(Whole(chainbuf)) + 1, x.num>>} ELSE {}
<1>1. /\ DOMAIN bufs = 1 .. Len(bufs) /\ DOMAIN bufs' = 1 .. Len(bufs)
      /\ chainbuf \in 1 .. Len(bufs) /\ Whole(chainbuf) \in Files
  <2>1. bufs' \in Seq(Buffers)
    BY DEF Typed, StreamTypeOK
  <2> QED BY <2>1, TypedData DEF Puts
<1>2. /\ \A m \in 1 .. Len(bufs) : m # chainbuf => Whole(m)' = Whole(m)
      /\ Whole(chainbuf)' = IF bufs[chainbuf].run THEN Append(Whole(chainbuf), x)
                            ELSE Whole(chainbuf)
  BY WholeGrows
<1>3. PacketsOf(chainbuf, Whole(chainbuf)') = PacketsOf(chainbuf, Whole(chainbuf)) \cup new
  BY <1>1, <1>2, PacketsGrow
<1>4. ASSUME NEW p PROVE p \in Streamed' <=> p \in Streamed \cup new
  <2>1. p \in Streamed' <=> \E n \in DOMAIN bufs' : p \in PacketsOf(n, Whole(n)')
    BY DEF Streamed
  <2>2. \A n \in 1 .. Len(bufs) : n = chainbuf => Whole(n)' = Whole(chainbuf)'
    BY DEF Whole
  <2>3. \A n \in 1 .. Len(bufs) :
          p \in PacketsOf(n, Whole(n)') <=>
            p \in PacketsOf(n, Whole(n)) \/ (n = chainbuf /\ p \in new)
    BY <1>2, <1>3, <2>2
  <2> HIDE DEF new
  <2>4. p \in Streamed' <=>
          (\E n \in 1 .. Len(bufs) : p \in PacketsOf(n, Whole(n))) \/ p \in new
    BY <1>1, <2>1, <2>3
  <2> QED BY <1>1, <2>4, InStreamed
<1>5. Written' = Written
  BY WrittenStays DEF Puts
<1> QED BY <1>4, <1>5

\* A block that is moved is one more packet of a file, or none.
LEMMA MoveWrites ==
  ASSUME Typed, Typed', NEW n, Moves(n)
  PROVE  /\ Streamed' = Streamed
         /\ Written' = Written \cup
              (IF Head(bufs[n].q).type = "epb"
               THEN {<<n, Len(files[n]) + 1, Head(bufs[n].q).num>>} ELSE {})
<1> DEFINE x == Head(bufs[n].q)
           new == IF x.type = "epb" THEN {<<n, Len(files[n]) + 1, x.num>>} ELSE {}
<1>1. /\ n \in DOMAIN files /\ n \in 1 .. Len(bufs) /\ bufs[n].q # <<>> /\ DOMAIN files' = DOMAIN files
      /\ files'[n] = Append(files[n], x)
      /\ \A m \in DOMAIN files : m # n => files'[m] = files[m]
      /\ files[n] \in Files /\ bufs[n].q \in Files /\ Len(bufs') = Len(bufs)
  BY TypedData DEF Moves
<1>2. x \in Blocks
  BY <1>1, MovesAndGrows
<1> HIDE DEF x
<1>3. PacketsOf(n, files'[n]) = PacketsOf(n, files[n]) \cup new
  BY <1>1, <1>2, PacketsGrow
<1>4. ASSUME NEW p PROVE p \in Written' <=> p \in Written \cup new
  <2>1. p \in Written' <=> \E m \in DOMAIN files' : p \in PacketsOf(m, files'[m])
    BY DEF Written
  <2> HIDE DEF new
  <2>2. p \in Written' <=> (\E m \in DOMAIN files : p \in PacketsOf(m, files[m])) \/ p \in new
    BY <1>1, <1>3, <2>1
  <2> QED BY <2>2, InWritten
<1>5. Streamed' = Streamed
  BY <1>1, WholesStay, StreamedStays
<1> QED BY <1>4, <1>5 DEF x

\* A new buffer and a new file bring no packet.
LEMMA RestartStreams ==
  ASSUME Typed, Typed', Aligned, restart_stream
  PROVE  Written' = Written /\ Streamed' = Streamed
<1>1. /\ Len(bufs') = Len(bufs) + 1 /\ chainbuf' = Len(bufs) + 1 /\ UNCHANGED files
      /\ \A n \in 1 .. Len(bufs) : Whole(n)' = Whole(n)
      /\ Whole(chainbuf)' = <<Shb>>
  BY RestartEffect
<1>2. /\ DOMAIN bufs = 1 .. Len(bufs) /\ DOMAIN bufs' = 1 .. Len(bufs) + 1
      /\ Len(bufs) \in Nat
  <2>1. bufs' \in Seq(Buffers)
    BY DEF Typed, StreamTypeOK
  <2> QED BY <1>1, <2>1, TypedData
<1>3. PacketsOf(Len(bufs) + 1, <<Shb>>) = {}
  <2> DEFINE f == <<Shb>>
  <2>1. DOMAIN f = {1} /\ f[1] = Shb
    OBVIOUS
  <2>2. Shb.type # "epb"
    BY DEF Shb, Block
  <2> HIDE DEF f
  <2>3. PacketsOf(Len(bufs) + 1, f) = {}
    BY <2>1, <2>2, PacketPlaces
  <2> QED BY <2>3 DEF f
<1>4. ASSUME NEW p PROVE p \in Streamed' <=> p \in Streamed
  <2>1. p \in Streamed' <=> \E n \in DOMAIN bufs' : p \in PacketsOf(n, Whole(n)')
    BY DEF Streamed
  <2>2. \A n \in 1 .. Len(bufs) + 1 : n = Len(bufs) + 1 => Whole(n)' = <<Shb>>
    BY <1>1 DEF Whole
  <2>3. \A n \in 1 .. Len(bufs) + 1 : n \in 1 .. Len(bufs) \/ n = Len(bufs) + 1
    BY <1>2
  <2>4. p \in Streamed' <=> \E n \in 1 .. Len(bufs) : p \in PacketsOf(n, Whole(n))
    BY <1>1, <1>2, <1>3, <2>1, <2>2, <2>3
  <2> QED BY <1>2, <2>4, InStreamed
<1> QED BY <1>1, <1>4, WrittenStays

\* A file that is opened is empty.
LEMMA OpenStreams ==
  ASSUME Typed, Typed', Aligned, OpenNext
  PROVE  Written' = Written /\ Streamed' = Streamed
<1>1. /\ UNCHANGED bufs /\ Len(bufs) = Len(files) + 1
      /\ \A n \in 1 .. Len(bufs) : Whole(n)' = Whole(n)
      /\ \/ /\ Len(files') = Len(bufs) /\ files'[Len(bufs)] = <<>>
            /\ \A n \in DOMAIN files : files'[n] = files[n]
         \/ UNCHANGED files
  BY OpenEffect
<1>2. Streamed' = Streamed
  BY <1>1, StreamedStays
<1>3. CASE UNCHANGED files
  BY <1>2, <1>3, WrittenStays
<1>4. CASE /\ Len(files') = Len(bufs) /\ files'[Len(bufs)] = <<>>
           /\ \A n \in DOMAIN files : files'[n] = files[n]
  <2>1. DOMAIN files = 1 .. Len(files) /\ DOMAIN files' = 1 .. Len(files) + 1 /\ Len(files) \in Nat
    <3>1. files' \in Seq(Seq(Blocks))
      BY DEF Typed, StreamTypeOK
    <3> QED BY <1>1, <1>4, <3>1, TypedData
  <2>2. PacketsOf(Len(bufs), <<>>) = {}
    <3>1. DOMAIN <<>> = {}
      OBVIOUS
    <3> QED BY <3>1, PacketPlaces
  <2>3. ASSUME NEW p PROVE p \in Written' <=> p \in Written
    <3>1. p \in Written' <=> \E n \in DOMAIN files' : p \in PacketsOf(n, files'[n])
      BY DEF Written
    <3>2. \A n \in 1 .. Len(files) + 1 : n \in 1 .. Len(files) \/ n = Len(bufs)
      BY <1>1, <2>1
    <3>3. p \in Written' <=> \E n \in 1 .. Len(files) : p \in PacketsOf(n, files[n])
      BY <1>1, <1>4, <2>1, <2>2, <3>1, <3>2
    <3> QED BY <2>1, <3>3, InWritten
  <2> QED BY <1>2, <2>3
<1> QED BY <1>1, <1>3, <1>4

-----------------------------------------------------------------------------
(***************************************************************************)
(* The invariant of the refinement.                                        *)
(***************************************************************************)
\* Packets under way have a number.
Counted == /\ writer.num \in 0 .. MaxPackets
           /\ writer.pc \notin Apart => writer.num >= 1

\* After a failure no more is written.
Stopped == failed => reader \in {"close self", "end", "terminated"}

StreamLogInv == Counted /\ Stopped /\ (~failed => Drained /\ IsFiniteSet(Streamed))

\* Packets are numbered up to the bound.
LEMMA CountedOn ==
  ASSUME Typed, Counted, StreamNext
  PROVE  Counted'
<1>t. TypedWriter
  BY TypesParts
<1>m. MaxPackets \in Nat
  BY StreamAssumption
<1>1. ASSUME NEW s \in Interfaces, handle_packet(s) PROVE Counted'
  <2>1. writer.num < MaxPackets /\ writer'.num = writer.num + 1
    BY <1>1 DEF handle_packet
  <2>2. writer.num \in 0 .. MaxPackets
    BY DEF Counted
  <2>3. ASSUME NEW n \in 0 .. MaxPackets, n < MaxPackets
        PROVE  n + 1 \in 0 .. MaxPackets /\ n + 1 >= 1
    BY <1>m, <2>3
  <2> QED BY <2>1, <2>2, <2>3 DEF Counted
<1>2. ASSUME writer'.num = writer.num, writer'.pc \in Apart \/ writer.pc \notin Apart
      PROVE  Counted'
  BY <1>2 DEF Counted
<1>3. CASE UNCHANGED writer
  BY <1>2, <1>3
<1>4. CASE \E pc : /\ pc \in Apart \/ writer.pc \notin Apart
                   /\ \/ writer' = [writer EXCEPT !.pc = pc]
                      \/ writer' = [writer EXCEPT !.pc = pc, !.short = TRUE]
                      \/ \E id : writer' = [writer EXCEPT !.pc = pc, !.id = id]
  BY <1>2, <1>4, <1>t DEF TypedWriter
<1>5. CASE Writer
  BY <1>4, <1>5 DEF Writer, start_stream, pcapng_make_idb, pcapng_write_packet, Stall,
     wait_write, EndExport, Apart, BlockTypes
<1>6. CASE writer' = Released
  <2>1. writer.pc \in {"blocked idb", "blocked epb"} \/ UNCHANGED writer
    BY <1>6, <1>t DEF Released, TypedWriter
  <2> QED BY <1>3, <1>4, <1>6, <2>1 DEF Released, Apart
<1>7. CASE Reader
  BY <1>3, <1>4, <1>6, <1>7 DEF Reader, wait, Wake, WriteBlock, WriteFails, Leave,
     restart_stream, OpenNext, FlushBlock, EndRotation, CloseSelf, GoesDown, writeVars, Apart
<1>8. CASE Close \/ Closer
  BY <1>3, <1>4, <1>8 DEF Close, Closer, CancelBuffer, Join, GoesDown, writeVars, Apart
<1> QED BY <1>1, <1>5, <1>7, <1>8 DEF StreamNext

\* A reader that failed never writes again.
LEMMA StoppedOn ==
  ASSUME Typed, Stopped, StreamNext
  PROVE  Stopped'
<1>1. CASE Writer \/ \E s \in Interfaces : handle_packet(s)
  BY <1>1, WriterEffects DEF Stopped
<1>2. CASE Reader
  BY <1>2 DEF Reader, wait, Wake, WriteBlock, WriteFails, Leave, restart_stream, OpenNext,
     FlushBlock, EndRotation, CloseSelf, GoesDown, Stopped
<1>3. CASE Close \/ Closer
  BY <1>3 DEF Close, Closer, CancelBuffer, Join, GoesDown, Stopped, readVars
<1> QED BY <1>1, <1>2, <1>3 DEF StreamNext

\* A file is begun only when nothing is left for the ones before it.
LEMMA DrainedOn ==
  ASSUME StreamInv, Drained, StreamNext, ~failed'
  PROVE  Drained'
<1>i. Typed /\ Aligned /\ WriterRuns
  BY DEF StreamInv
<1>d. /\ Len(bufs) \in Nat /\ Len(files) \in Nat /\ Len(files) > 0 /\ chainbuf = Len(bufs)
      /\ DOMAIN files = 1 .. Len(files)
  BY <1>i, TypedData
<1>e. Len(bufs) \in {Len(files), Len(files) + 1}
  BY <1>i DEF Aligned
<1>q. /\ \A m \in 1 .. Len(files) - 1 : m \in 1 .. Len(bufs) /\ m # chainbuf /\ m # Len(files)
      /\ \A m \in 1 .. (Len(files) + 1) - 1 : m \in 1 .. Len(files) - 1 \/ m = Len(files)
      /\ (Len(files) + 1) - 1 = Len(files)
      /\ Len(files) # Len(files) - 1 /\ Len(files) \in 1 .. Len(files)
  <2>1. ASSUME NEW n \in Nat, NEW b \in Nat, n > 0, b \in {n, n + 1}
        PROVE  /\ \A m \in 1 .. n - 1 : m \in 1 .. b /\ m # b /\ m # n
               /\ \A m \in 1 .. (n + 1) - 1 : m \in 1 .. n - 1 \/ m = n
               /\ (n + 1) - 1 = n /\ n # n - 1 /\ n \in 1 .. n
    BY <2>1
  <2> QED BY <1>d, <1>e, <2>1
<1>1. ASSUME UNCHANGED <<files, reader>>, \A m \in 1 .. Len(files) - 1 : bufs'[m].q = bufs[m].q
      PROVE  Drained'
  BY <1>1 DEF Drained
<1>2. CASE Writer \/ \E s \in Interfaces : handle_packet(s)
  <2>1. UNCHANGED <<files, reader>> /\ (SameData \/ \E x \in Blocks : Puts(x))
    BY <1>2, <1>i, WriterEffects
  <2>2. \A m \in 1 .. Len(files) - 1 : bufs'[m].q = bufs[m].q
    BY <1>q, <2>1 DEF SameData, Puts
  <2> QED BY <1>1, <2>1, <2>2
<1>3. CASE Close \/ Closer
  <2>1. SameData /\ UNCHANGED files
    BY <1>3, <1>i, CloserEffects
  <2>2. UNCHANGED reader
    BY <1>3 DEF Close, Closer, CancelBuffer, Join, GoesDown, readVars
  <2> QED BY <1>1, <1>q, <2>1, <2>2 DEF SameData
<1>4. CASE wait \/ Wake \/ Leave
  <2>1. SameData /\ UNCHANGED files /\ reader # "flush" /\ reader' # "flush"
    BY <1>4, <1>i, ReaderFlagEffects DEF ReaderFlags, wait, Wake, Leave
  <2> QED BY <1>q, <2>1 DEF SameData, Drained
<1>5. CASE EndRotation
  <2>1. SameData /\ UNCHANGED files
    BY <1>5, <1>i, ReaderFlagEffects DEF ReaderFlags
  <2>2. reader = "flush" /\ bufs[buffer - 1].q = <<>> /\ reader' = "head"
    BY <1>5 DEF EndRotation
  <2>3. buffer = Len(files)
    BY <1>i, <2>2 DEF Aligned
  <2> QED BY <1>q, <2>1, <2>2, <2>3 DEF SameData, Drained
<1>6. CASE WriteBlock
  <2>1. Moves(buffer) /\ buffer = Len(files)
    BY <1>6, <1>i, WriteBlockMoves
  <2>2. reader # "flush" /\ reader' # "flush"
    BY <1>6 DEF WriteBlock
  <2> QED BY <1>d, <1>q, <2>1, <2>2 DEF Moves, Drained
<1>7. CASE restart_stream
  <2>1. /\ UNCHANGED files /\ reader # "flush" /\ reader' # "flush"
        /\ \A n \in 1 .. Len(bufs) : bufs'[n] = bufs[n]
    BY <1>7, <1>i, RestartEffect
  <2> QED BY <1>q, <2>1 DEF Drained
<1>8. CASE OpenNext
  <2>1. /\ UNCHANGED bufs /\ reader' = "flush" /\ Len(files') = Len(bufs)
        /\ Len(bufs) = Len(files) + 1 /\ files'[Len(bufs)] = <<>>
    BY <1>8, <1>i, OpenEffect
  <2>2. reader # "flush"
    BY <1>8 DEF OpenNext
  <2>3. \A m \in 1 .. Len(files') - 1 : m \in 1 .. Len(files) - 1 \/ m = Len(files') - 1
    BY <1>q, <2>1
  <2> QED BY <2>1, <2>2, <2>3 DEF Drained
<1>9. CASE FlushBlock
  <2>1. /\ buffer - 1 \in 1 .. Len(bufs) /\ buffer = Len(files)
        /\ Moves(buffer - 1) /\ UNCHANGED reader
    BY <1>9, <1>i, FlushBlockMoves
  <2>2. reader = "flush"
    BY <1>9 DEF FlushBlock
  <2>3. Len(files') = Len(files) /\ files'[Len(files)] = files[Len(files)]
    <3>1. Len(files) \in DOMAIN files /\ Len(files) # buffer - 1
      BY <1>d, <1>q, <2>1
    <3> QED BY <2>1, <3>1 DEF Moves
  <2>4. \A m \in 1 .. Len(files) - 1 : m # buffer - 1 => bufs'[m].q = bufs[m].q
    BY <1>q, <2>1 DEF Moves
  <2> QED BY <2>1, <2>2, <2>3, <2>4 DEF Drained
<1>10. CASE WriteFails \/ CloseSelf
  BY <1>10 DEF WriteFails, CloseSelf, GoesDown
<1> QED BY <1>2, <1>3, <1>4, <1>5, <1>6, <1>7, <1>8, <1>9, <1>10 DEF StreamNext, Reader

\* At first there is no packet anywhere.
LEMMA StreamLogInit == StreamInit => StreamLogInv /\ Written = {} /\ Streamed = {}
<1> SUFFICES ASSUME StreamInit PROVE StreamLogInv /\ Written = {} /\ Streamed = {}
  OBVIOUS
<1>1. /\ Len(bufs) = 1 /\ bufs[1] = NewBuffer /\ Len(files) = 1 /\ files[1] = <<>>
      /\ DOMAIN bufs = {1} /\ DOMAIN files = {1} /\ reader = "head" /\ failed = FALSE
  <2>1. \A x : /\ Len(<<x>>) = 1 /\ <<x>>[1] = x /\ DOMAIN <<x>> = {1}
    OBVIOUS
  <2> QED BY <2>1 DEF StreamInit
<1>2. PacketsOf(1, <<>>) = {} /\ Whole(1) = <<>>
  <2>1. DOMAIN <<>> = {} /\ <<>> \in Files /\ NewBuffer.q = <<>>
    BY DEF Files, NewBuffer
  <2>2. <<>> \o <<>> = <<>>
    BY <2>1, MovesAndGrows
  <2> QED BY <1>1, <2>1, <2>2, PacketPlaces DEF Whole
<1>3. Written = {} /\ Streamed = {}
  BY <1>1, <1>2 DEF Written, Streamed
<1>4. Counted
  <2>1. writer.num = 0 /\ writer.pc = "start" /\ MaxPackets \in Nat
    BY StreamAssumption DEF StreamInit
  <2> QED BY <2>1 DEF Counted, Apart
<1>5. Drained
  BY <1>1 DEF Drained
<1> QED BY <1>1, <1>3, <1>4, <1>5, FS_EmptySet DEF StreamLogInv, Stopped

-----------------------------------------------------------------------------
(***************************************************************************)
(* The stream is a log of packets.                                         *)
(***************************************************************************)
\* A step that no packet takes part in.
LEMMA LogStutters ==
  ASSUME UNCHANGED <<Written, Streamed, failed>>
  PROVE  UNCHANGED Log!vars
BY DEF Log!vars, InFiles, InStream, InOrder

\* A failure gives up what is not written.
LEMMA LogFails ==
  ASSUME Typed, StreamLogInv, UNCHANGED Written, failed' = TRUE,
         ~failed => Begins(Written, Streamed)
  PROVE  Log!Next \/ UNCHANGED Log!vars
<1>1. InFiles' = InFiles
  BY DEF InFiles, InOrder
<1>2. CASE failed
  <2>1. failed = TRUE
    BY <1>2 DEF Typed, StreamTypeOK
  <2> QED BY <1>1, <2>1 DEF Log!vars
<1>3. CASE ~failed
  <2>1. Placed(Streamed)
    BY <1>3, StreamPlaced DEF StreamLogInv
  <2>2. /\ InFiles = SubSeq(InStream, 1, Cardinality(Written))
        /\ Cardinality(Written) <= Cardinality(Streamed) /\ Placed(Written)
    BY <1>3, <2>1, FirstListed DEF InFiles, InStream
  <2>3. /\ Len(InFiles) = Cardinality(Written) /\ Len(InStream) = Cardinality(Streamed)
        /\ Cardinality(Written) \in Nat /\ Cardinality(Streamed) \in Nat
    BY <2>1, <2>2, ListTyped DEF InFiles, InStream
  <2>4. /\ Len(InFiles) \in Len(InFiles) .. Len(InStream)
        /\ InFiles' = SubSeq(InStream, 1, Len(InFiles))
    BY <1>1, <2>2, <2>3
  <2>5. Log!Fail
    BY <1>1, <1>3, <2>4 DEF Log!Fail
  <2> QED BY <2>5 DEF Log!Next
<1> QED BY <1>2, <1>3

\* A packet that is put is accepted.
LEMMA LogAccepts ==
  ASSUME Typed, Typed', StreamLogInv, NEW x \in Blocks, Puts(x), PutsNow(x),
         UNCHANGED <<chainbuf, failed>>
  PROVE  Log!Next \/ UNCHANGED Log!vars
<1> DEFINE p == <<chainbuf, Len(Whole(chainbuf)) + 1, x.num>>
<1>1. /\ Written' = Written
      /\ Streamed' = Streamed \cup
           (IF x.type = "epb" /\ bufs[chainbuf].run THEN {p} ELSE {})
  BY PutStreams
<1>2. CASE ~(x.type = "epb" /\ bufs[chainbuf].run)
  <2>1. Streamed' = Streamed
    BY <1>1, <1>2
  <2> QED BY <1>1, <2>1, LogStutters
<1>3. CASE failed
  <2>1. InFiles' = InFiles
    BY <1>1 DEF InFiles, InOrder
  <2> QED BY <1>3, <2>1 DEF Log!vars
<1>4. CASE x.type = "epb" /\ bufs[chainbuf].run /\ ~failed
  <2>1. x.num = writer.num /\ writer.pc = "epb"
    <3>1. /\ Shb.type # "epb"
          /\ Block("idb", writer.intf, 0, Cardinality(DOMAIN datasource_id_map), FALSE).type # "epb"
          /\ Block("epb", writer.intf, writer.num, writer.id, writer.short).num = writer.num
      BY DEF Shb, Block
    <3>2. pcapng_write_packet /\ x = Block("epb", writer.intf, writer.num, writer.id, writer.short)
      BY <1>4, <3>1 DEF PutsNow
    <3> QED BY <3>1, <3>2 DEF pcapng_write_packet
  <2>2. x.num \in 1 .. MaxPackets /\ x.num \in Nat
    <3>1. MaxPackets \in Nat
      BY StreamAssumption
    <3> QED BY <2>1, <3>1 DEF StreamLogInv, Counted, Apart
  <2>3. /\ chainbuf \in Nat /\ Whole(chainbuf) \in Files /\ Len(Whole(chainbuf)) \in Nat
        /\ DOMAIN bufs = 1 .. chainbuf
        /\ \A n \in DOMAIN bufs : n \in Nat /\ Whole(n) \in Files
    <3>1. Whole(chainbuf) \in Files
      BY TypedData
    <3>2. Len(Whole(chainbuf)) \in Nat
      BY <3>1 DEF Files
    <3> QED BY <3>1, <3>2, TypedData
  <2>4. ASSUME NEW o \in Streamed PROVE Earlier(o, p)
    <3>1. PICK n \in DOMAIN bufs : o \in PacketsOf(n, Whole(n))
      BY InStreamed
    <3>2. o[1] = n /\ o[2] \in 1 .. Len(Whole(n)) /\ n <= chainbuf
      BY <2>3, <3>1, PacketsTyped
    <3>3. p[1] = chainbuf /\ p[2] = Len(Whole(chainbuf)) + 1
      OBVIOUS
    <3>4. CASE n = chainbuf
      <4>1. o[2] < p[2] /\ o[1] = p[1]
        BY <2>3, <3>2, <3>3, <3>4
      <4> QED BY <4>1 DEF Earlier
    <3>5. CASE n # chainbuf
      <4>1. o[1] < p[1]
        BY <2>3, <3>2, <3>3, <3>5
      <4> QED BY <4>1 DEF Earlier
    <3> QED BY <3>4, <3>5
  <2>5. p \in Nat \X Nat \X Nat
    BY <2>2, <2>3
  <2> HIDE DEF p
  <2>6. Placed(Streamed)
    BY <1>4, StreamPlaced DEF StreamLogInv
  <2>7. InOrder(Streamed \cup {p}) = Append(InOrder(Streamed), p[3])
    BY <2>4, <2>5, <2>6, LastListed
  <2>8. InStream' = Append(InStream, x.num)
    <3>1. Streamed' = Streamed \cup {p}
      BY <1>1, <1>4
    <3>2. p[3] = x.num
      BY DEF p
    <3> QED BY <2>7, <3>1, <3>2 DEF InStream, InOrder
  <2>9. InFiles' = InFiles
    BY <1>1 DEF InFiles, InOrder
  <2>10. Log!Accept
    BY <1>4, <2>2, <2>8, <2>9 DEF Log!Accept
  <2> QED BY <2>10 DEF Log!Next
<1> QED BY <1>2, <1>3, <1>4

\* A packet that is moved to a file is the next one written.
LEMMA LogWrites ==
  ASSUME Typed, Typed', StreamLogInv, NEW n, Moves(n), ~failed, UNCHANGED failed,
         Begins(Written, Streamed), Begins(Written, Streamed)'
  PROVE  Log!Next \/ UNCHANGED Log!vars
<1> DEFINE x == Head(bufs[n].q)
           p == <<n, Len(files[n]) + 1, x.num>>
<1>1. /\ Streamed' = Streamed
      /\ Written' = Written \cup (IF x.type = "epb" THEN {p} ELSE {})
  BY MoveWrites
<1>2. CASE x.type # "epb"
  <2>1. Written' = Written
    BY <1>1, <1>2
  <2> QED BY <1>1, <2>1, LogStutters
<1>3. CASE x.type = "epb"
  <2>1. Written' = Written \cup {p}
    BY <1>1, <1>3
  <2>2. p \notin Written
    <3> SUFFICES ASSUME p \in Written PROVE FALSE
      OBVIOUS
    <3>1. PICK m \in DOMAIN files : p \in PacketsOf(m, files[m])
      BY InWritten
    <3>2. /\ \A k \in DOMAIN files : k \in Nat /\ files[k] \in Files
          /\ n \in DOMAIN files
      BY TypedData DEF Moves
    <3>3. p[1] = m /\ p[2] \in 1 .. Len(files[m])
      BY <3>1, <3>2, PacketsTyped
    <3>4. p[1] = n /\ p[2] = Len(files[n]) + 1
      OBVIOUS
    <3>5. Len(files[n]) \in Nat
      BY <3>2 DEF Files
    <3> QED BY <3>3, <3>4, <3>5
  <2> HIDE DEF p
  <2>3. Placed(Streamed)
    BY StreamPlaced DEF StreamLogInv
  <2>4. Begins(Written \cup {p}, Streamed)
    BY <1>1, <2>1 DEF Begins
  <2>5. /\ Len(InFiles) < Len(InStream)
        /\ InOrder(Written \cup {p}) = Append(InFiles, InStream[Len(InFiles) + 1])
    BY <2>2, <2>3, <2>4, NextListed DEF InFiles, InStream
  <2>6. InFiles' = Append(InFiles, InStream[Len(InFiles) + 1]) /\ InStream' = InStream
    <3>1. InFiles' = InOrder(Written \cup {p})
      BY <2>1 DEF InFiles, InOrder
    <3>2. InStream' = InStream
      BY <1>1 DEF InStream, InOrder
    <3> QED BY <2>5, <3>1, <3>2
  <2>7. Log!Write
    BY <2>5, <2>6 DEF Log!Write
  <2> QED BY <2>7 DEF Log!Next
<1> QED BY <1>2, <1>3

\* Every step of the stream, its buffers and its files.
LEMMA StreamStepsLog ==
  ASSUME StreamInv, StreamLogInv, Typed', StreamNext \/ UNCHANGED streamVars,
         ~failed => Begins(Written, Streamed),
         ~failed' => Begins(Written, Streamed)'
  PROVE  Log!Next \/ UNCHANGED Log!vars
<1>i. Typed /\ Aligned /\ WriterRuns /\ Stopped
  BY DEF StreamInv, StreamLogInv
<1>s. ASSUME SameData, UNCHANGED failed PROVE UNCHANGED Log!vars
  <2>1. /\ \A n \in 1 .. Len(bufs) : Whole(n)' = Whole(n)
        /\ Len(bufs') = Len(bufs) /\ UNCHANGED files
    BY <1>s, <1>i, WholesStay DEF SameData
  <2> QED BY <1>s, <1>i, <2>1, WrittenStays, StreamedStays, LogStutters
<1>f. ASSUME UNCHANGED files, failed' = TRUE PROVE Log!Next \/ UNCHANGED Log!vars
  BY <1>f, <1>i, WrittenStays, LogFails
<1>m. ASSUME NEW n, Moves(n), UNCHANGED failed, reader \in {"head", "flush"}
      PROVE  Log!Next \/ UNCHANGED Log!vars
  BY <1>m, <1>i, LogWrites DEF Stopped
<1>1. CASE UNCHANGED streamVars
  BY <1>1, <1>s, NoEffect DEF streamVars, bufVars, readVars
<1>2. CASE Writer \/ \E s \in Interfaces : handle_packet(s)
  BY <1>2, <1>i, <1>s, WriterEffects, LogAccepts
<1>3. CASE Close \/ Closer
  <2>1. SameData /\ UNCHANGED files
    BY <1>3, <1>i, CloserEffects
  <2>2. UNCHANGED failed \/ failed' = TRUE
    BY <1>3 DEF Close, Closer, CancelBuffer, Join, GoesDown
  <2> QED BY <1>s, <1>f, <2>1, <2>2
<1>4. CASE ReaderFlags
  <2>1. SameData /\ UNCHANGED files
    BY <1>4, <1>i, ReaderFlagEffects
  <2>2. UNCHANGED failed \/ failed' = TRUE
    BY <1>4 DEF ReaderFlags, wait, Wake, Leave, EndRotation, CloseSelf, GoesDown
  <2> QED BY <1>s, <1>f, <2>1, <2>2
<1>5. CASE WriteBlock
  <2>1. Moves(buffer)
    BY <1>5, <1>i, WriteBlockMoves
  <2>2. UNCHANGED failed /\ reader = "head"
    BY <1>5 DEF WriteBlock
  <2> QED BY <1>m, <2>1, <2>2
<1>6. CASE WriteFails
  BY <1>6, <1>f, <1>i, FailEffect
<1>7. CASE restart_stream
  <2>1. UNCHANGED failed
    BY <1>7 DEF restart_stream
  <2> QED BY <1>7, <1>i, <2>1, RestartStreams, LogStutters
<1>8. CASE OpenNext
  <2>1. UNCHANGED failed \/ (failed' = TRUE /\ UNCHANGED files)
    BY <1>8 DEF OpenNext
  <2> QED BY <1>8, <1>f, <1>i, <2>1, OpenStreams, LogStutters
<1>9. CASE FlushBlock
  <2>1. \/ Moves(buffer - 1) /\ UNCHANGED failed
        \/ SameData /\ failed' = TRUE
    BY <1>9, <1>i, FlushBlockMoves
  <2>2. reader = "flush"
    BY <1>9 DEF FlushBlock
  <2> QED BY <1>f, <1>m, <2>1, <2>2 DEF SameData
<1> QED BY <1>1, <1>2, <1>3, <1>4, <1>5, <1>6, <1>7, <1>8, <1>9
        DEF StreamNext, Reader, ReaderFlags

\* The invariant goes on with the other.
LEMMA StreamLogNext ==
  StreamInv /\ StreamLogInv /\ StreamInv' /\ [StreamNext]_streamVars => StreamLogInv'
<1> SUFFICES ASSUME StreamInv, StreamLogInv, StreamInv', StreamNext \/ UNCHANGED streamVars
             PROVE  StreamLogInv'
  OBVIOUS
<1>i. Typed /\ Aligned /\ Typed' /\ Counted /\ Stopped
  BY DEF StreamInv, StreamLogInv
<1>1. CASE UNCHANGED streamVars
  <2>1. UNCHANGED <<bufs, writer, reader, files, failed>>
    BY <1>1 DEF streamVars, bufVars, writeVars, readVars
  <2>2. Streamed' = Streamed
    BY <2>1 DEF Streamed, Whole
  <2> QED BY <2>1, <2>2 DEF StreamLogInv, Counted, Stopped, Drained
<1>2. CASE StreamNext
  <2>1. Counted' /\ Stopped'
    BY <1>2, <1>i, CountedOn, StoppedOn
  <2>d. ~failed' => ~failed
    <3>1. failed => failed'
      <4>1. failed = TRUE \/ failed = FALSE
        BY <1>i DEF Typed, StreamTypeOK
      <4> QED BY <1>2, <4>1 DEF StreamNext, Writer, Reader, Close, Closer, handle_packet, start_stream,
           pcapng_make_idb, pcapng_write_packet, Stall, wait_write, EndExport, wait, Wake,
           WriteBlock, WriteFails, Leave, restart_stream, OpenNext, FlushBlock, EndRotation,
           CloseSelf, GoesDown, CancelBuffer, Join
    <3> QED BY <3>1
  <2>2. ~failed' => Drained'
    BY <1>2, <2>d, DrainedOn DEF StreamLogInv
  <2>3. ASSUME ~failed' PROVE Streamed' = Streamed \/ \E p : Streamed' = Streamed \cup {p}
    <3>s. ASSUME SameData \/ \E n : Moves(n) PROVE Streamed' = Streamed
      BY <3>s, <1>i, WholesStay, StreamedStays DEF SameData, Moves
    <3>1. CASE Writer \/ \E s \in Interfaces : handle_packet(s)
      <4>1. UNCHANGED chainbuf /\ (SameData \/ \E x \in Blocks : Puts(x))
        BY <3>1, <1>i, WriterEffects
      <4>2. ASSUME NEW x \in Blocks, Puts(x)
            PROVE  Streamed' = Streamed \/ \E p : Streamed' = Streamed \cup {p}
        BY <4>1, <4>2, <1>i, PutStreams
      <4> QED BY <3>s, <4>1, <4>2
    <3>2. CASE Close \/ Closer
      BY <3>2, <3>s, <1>i, CloserEffects
    <3>3. CASE ReaderFlags
      BY <3>3, <3>s, <1>i, ReaderFlagEffects
    <3>4. CASE WriteBlock
      BY <3>4, <3>s, <1>i, WriteBlockMoves
    <3>5. CASE FlushBlock
      BY <3>5, <3>s, <1>i, FlushBlockMoves
    <3>6. CASE restart_stream
      BY <3>6, <1>i, RestartStreams
    <3>7. CASE OpenNext
      BY <3>7, <1>i, OpenStreams
    <3>8. CASE WriteFails
      BY <2>3, <3>8 DEF WriteFails
    <3> QED BY <1>2, <3>1, <3>2, <3>3, <3>4, <3>5, <3>6, <3>7, <3>8
            DEF StreamNext, Reader, ReaderFlags
  <2>4. ~failed' => IsFiniteSet(Streamed)'
    BY <2>d, <2>3, FS_AddElement DEF StreamLogInv
  <2> QED BY <2>1, <2>2, <2>4 DEF StreamLogInv
<1> QED BY <1>1, <1>2

\* The files and buffers of a stream are, through failures, restarts and rotations,
\* a log of the packets it was given: accepted and written once each and in order.
THEOREM StreamRefinesLog == StreamSpec => Log!Init /\ [][Log!Next]_(Log!vars)
<1>1. StreamInit => Log!Init
  <2>1. StreamInit => failed = FALSE /\ InOrder({}) = <<>>
    <3>1. Placed({}) /\ Cardinality({}) = 0
      BY FS_EmptySet DEF Placed
    <3>2. InOrder({}) \in Seq(Nat) /\ Len(InOrder({})) = 0
      BY <3>1, ListTyped
    <3>3. InOrder({}) = <<>>
      BY <3>2, EmptySeq
    <3> QED BY <3>3 DEF StreamInit
  <2> QED BY <2>1, StreamLogInit DEF Log!Init, InFiles, InStream
<1>2. StreamInv /\ StreamLogInv => Typed /\ (~failed => Begins(Written, Streamed))
  BY WrittenBegins DEF StreamInv, StreamLogInv
<1>3. /\ StreamInv /\ StreamLogInv /\ [StreamNext]_streamVars
      /\ Typed' /\ (~failed => Begins(Written, Streamed))
      /\ (~failed => Begins(Written, Streamed))'
      => [Log!Next]_(Log!vars)
  BY StreamStepsLog
<1>4. StreamSpec => []StreamLogInv
  BY StreamLogInit, StreamLogNext, StreamAlways, PTL DEF StreamSpec
<1> QED BY <1>1, <1>2, <1>3, <1>4, StreamAlways, PTL DEF StreamSpec

=============================================================================
