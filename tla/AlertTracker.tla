--------------------------- MODULE AlertTracker ---------------------------
(***************************************************************************)
(* The alert tracker (alertracker.cc): alerts are defined and activated by *)
(* name, raised by packet threads, timers and web sessions within a rate   *)
(* and a burst limit, kept in a backlog, and read back by web clients that *)
(* ask for what is newer than the time stamp of their last answer.         *)
(* Every critical section of alert_mutex is one step.  raise_alert lets go *)
(* of it between the check of the limits and the count.                    *)
(***************************************************************************)
EXTENDS Integers, Sequences, FiniteSets, Functions

CONSTANTS
  Alerts,            \* headers
  Raisers,           \* threads that raise alerts
  Clients,           \* web clients that poll the backlog
  Limits,            \* limits an alert may be defined with
  DefaultLimit,      \* 10/min, 1/sec
  FromFile,          \* alert lines of the configuration: header -> limits
  NumBacklog,        \* alertbacklog
  TicksPerSec,       \* resolution of gettimeofday
  Start,             \* the time of the start, later than any unit
  MaxTime, MaxSent,  \* bounds: last tick, alerts raised
  NoAlert

ASSUME AlertAssumption ==
  /\ Limits \subseteq [rate : Nat, unit : Nat \ {0},
                       burst : Nat, burst_unit : Nat \ {0}]
  /\ DefaultLimit \in Limits /\ DefaultLimit.burst_unit <= DefaultLimit.unit
  /\ FromFile \in UNION {[D -> Limits] : D \in SUBSET Alerts}
  /\ NumBacklog \in Nat /\ TicksPerSec \in Nat \ {0}
  /\ Start \in Nat /\ MaxTime \in Nat /\ MaxSent \in Nat
  /\ NoAlert \notin Alerts

VARIABLES
  now,
  alert_conf_map,    \* header -> limits
  alert_ref_map,     \* the registered headers
  sent,              \* per alert: [burst, total], the counters
  time_last,         \* per alert
  alert_backlog,     \* numbers of the alerts kept, oldest first
  raiser,            \* per raiser: [pc, alert, tm, reg]
  poll,              \* per client: the time stamp of the answer in the making
  since,             \* per client: that of its last answer
  \* histories, read by the properties only
  alone,             \* per raiser: no check of its alert since its own
  counted,           \* the alerts the limits let through: [alert, at, alone]
  published,         \* the time stamp of each alert put on the event bus
  listed,            \* per client: the numbers of the alerts it was given
  late               \* <<client, number>>: published when the client had an
                     \* answer stamped no earlier than the alert

defVars == <<alert_conf_map, alert_ref_map>>
countVars == <<sent, time_last>>
clientVars == <<poll, since, listed>>
pubVars == <<alert_backlog, published, late>>
raiseVars == <<raiser, alone, counted>>
vars == <<now, defVars, countVars, clientVars, pubVars, raiseVars>>

Raiser(step, a, t) == [pc |-> step, alert |-> a, tm |-> t, reg |-> 0]
Idle == Raiser("idle", NoAlert, 0)
NotPolling == -1

Init ==
  /\ now = Start
  /\ alert_conf_map = FromFile
  /\ alert_ref_map = {}
  /\ sent = [a \in Alerts |-> [burst |-> 0, total |-> 0]]
  /\ time_last = [a \in Alerts |-> 0]
  /\ alert_backlog = <<>> /\ published = <<>> /\ late = {}
  /\ counted = <<>>
  /\ raiser = [r \in Raisers |-> Idle]
  /\ alone = [r \in Raisers |-> TRUE]
  /\ poll = [c \in Clients |-> NotPolling]
  /\ since = [c \in Clients |-> 0]
  /\ listed = [c \in Clients |-> {}]

\* The wall clock.  It is read in microseconds and compared in seconds.
Tick == /\ now < MaxTime /\ now' = now + 1
        /\ UNCHANGED <<defVars, countVars, clientVars, pubVars, raiseVars>>

Seconds(t) == t - (t % TicksPerSec)

-----------------------------------------------------------------------------
(* Definitions                                                             *)

\* The endpoint that defines an alert does this first.
define_alert(a, l) ==
  /\ a \notin DOMAIN alert_conf_map
  /\ alert_conf_map' = [x \in DOMAIN alert_conf_map \cup {a} |->
                          IF x = a THEN l ELSE alert_conf_map[x]]
  /\ UNCHANGED <<now, alert_ref_map, countVars, clientVars, pubVars, raiseVars>>

\* An alert nobody configured gets the default limits.  register_alert refuses
\* a second registration and a burst unit above the unit of the rate.
activate_configured_alert(a) ==
  LET limit == IF a \in DOMAIN alert_conf_map THEN alert_conf_map[a]
               ELSE DefaultLimit
  IN /\ alert_conf_map' = [x \in DOMAIN alert_conf_map \cup {a} |->
                             IF x = a THEN limit ELSE alert_conf_map[x]]
     /\ a \notin alert_ref_map
     /\ limit.burst_unit <= limit.unit
     /\ alert_ref_map' = alert_ref_map \cup {a}
     /\ UNCHANGED <<now, countVars, clientVars, pubVars, raiseVars>>

-----------------------------------------------------------------------------
(* Raising                                                                 *)

IdleFor(a, secs) == time_last[a] < Seconds(now) - secs * TicksPerSec

\* check_times: what it leaves in the counters, and its verdict.
CountsAfterCheck_BurstIdle(a) ==
  IF IdleFor(a, alert_conf_map[a].burst_unit)
  THEN [burst |-> 0, total |-> 0] ELSE sent[a]
CountsAfterCheck(a) ==
  IF alert_conf_map[a].rate = 0 THEN sent[a]
  ELSE IF IdleFor(a, alert_conf_map[a].unit) THEN [burst |-> 0, total |-> 0]
  ELSE IF IdleFor(a, alert_conf_map[a].burst_unit) THEN [sent[a] EXCEPT !.burst = 0]
  ELSE sent[a]

Allowed(a) ==
  /\ alert_conf_map[a].rate # 0
  /\ \/ IdleFor(a, alert_conf_map[a].unit)
     \/ /\ CountsAfterCheck(a).burst < alert_conf_map[a].burst
        /\ CountsAfterCheck(a).total < alert_conf_map[a].rate

\* Raises of a between the check and the count.
Counting == {"stamp", "load", "burst", "total", "last"}
InFlight(a) == {r \in Raisers : raiser[r].alert = a /\ raiser[r].pc \in Counting}

\* check_times may reset what a raise in flight has counted.
check_times(a) == sent' = [sent EXCEPT ![a] = CountsAfterCheck(a)]
Overlap(R) == alone' = [r \in Raisers |-> alone[r] /\ r \notin R]

\* Callers test the limits first, to save making the text of an alert.
potential_alert(a) ==
  /\ a \in alert_ref_map
  /\ check_times(a)
  /\ Overlap(InFlight(a))
  /\ UNCHANGED <<now, defVars, time_last, clientVars, pubVars, raiser, counted>>

MaySend == Len(published) + Cardinality({r \in Raisers : raiser[r].pc # "idle"})
             < MaxSent

raise_alert(r, a) ==
  /\ raiser[r].pc = "idle" /\ MaySend /\ a \in alert_ref_map
  /\ check_times(a)
  /\ IF Allowed(a)
     THEN /\ raiser' = [raiser EXCEPT ![r] = Raiser("stamp", a, 0)]
          /\ Overlap(IF InFlight(a) = {} THEN {} ELSE InFlight(a) \cup {r})
     ELSE Overlap(InFlight(a)) /\ UNCHANGED raiser
  /\ UNCHANGED <<now, defVars, time_last, clientVars, pubVars, counted>>

Stamp(r) ==
  /\ raiser[r].pc = "stamp"
  /\ raiser' = [raiser EXCEPT ![r].pc = "load", ![r].tm = now]
  /\ UNCHANGED <<now, defVars, countVars, clientVars, pubVars, alone, counted>>

\* inc_burst_sent and inc_total_sent each read and write without the mutex.
LoadBurst(r) ==
  /\ raiser[r].pc = "load"
  /\ raiser' = [raiser EXCEPT ![r].pc = "burst",
                             ![r].reg = sent[raiser[r].alert].burst]
  /\ UNCHANGED <<now, defVars, countVars, clientVars, pubVars, alone, counted>>

StoreBurst(r) ==
  LET a == raiser[r].alert
  IN /\ raiser[r].pc = "burst"
     /\ sent' = [sent EXCEPT ![a].burst = raiser[r].reg + 1]
     /\ raiser' = [raiser EXCEPT ![r].pc = "total", ![r].reg = sent[a].total]
     /\ UNCHANGED <<now, defVars, time_last, clientVars, pubVars, alone, counted>>

StoreTotal(r) ==
  LET a == raiser[r].alert
  IN /\ raiser[r].pc = "total"
     /\ sent' = [sent EXCEPT ![a].total = raiser[r].reg + 1]
     /\ raiser' = [raiser EXCEPT ![r].pc = "last", ![r].reg = 0]
     /\ UNCHANGED <<now, defVars, time_last, clientVars, pubVars, alone, counted>>

SetTimeLast(r) ==
  /\ raiser[r].pc = "last"
  /\ raiser' = [raiser EXCEPT ![r].pc = "push"]
  /\ time_last' = [time_last EXCEPT ![raiser[r].alert] = raiser[r].tm]
  /\ counted' = Append(counted, [alert |-> raiser[r].alert, at |-> raiser[r].tm,
                                 alone |-> alone[r]])
  /\ alone' = [alone EXCEPT ![r] = TRUE]
  /\ UNCHANGED <<now, defVars, sent, clientVars, pubVars>>

\* A one-shot alert has no limits.
raise_one_shot(r) ==
  /\ raiser[r].pc = "idle" /\ MaySend
  /\ raiser' = [raiser EXCEPT ![r] = Raiser("push", NoAlert, now)]
  /\ UNCHANGED <<now, defVars, countVars, clientVars, pubVars, alone, counted>>

\* Onto the backlog, whose oldest goes when it is too long, and the event bus.
Publish(r) ==
  LET new == Append(alert_backlog, Len(published) + 1)
  IN /\ raiser[r].pc = "push"
     /\ alert_backlog' = IF Len(new) > NumBacklog THEN Tail(new) ELSE new
     /\ published' = Append(published, raiser[r].tm)
     /\ late' = late \cup {<<c, Len(published) + 1>> :
                             c \in {x \in Clients : raiser[r].tm <= since[x]}}
     /\ raiser' = [raiser EXCEPT ![r] = Idle]
     /\ UNCHANGED <<now, defVars, countVars, clientVars, alone, counted>>

-----------------------------------------------------------------------------
(* last_alerts_endpoint: the answer is stamped first and filled under the  *)
(* mutex.                                                                  *)

StampAnswer_Forget(c) ==
  /\ poll[c] = NotPolling
  /\ poll' = [poll EXCEPT ![c] = now] /\ since' = [since EXCEPT ![c] = now]
  /\ UNCHANGED <<now, defVars, countVars, pubVars, raiseVars, listed>>
StampAnswer(c) ==
  /\ poll[c] = NotPolling
  /\ poll' = [poll EXCEPT ![c] = now]
  /\ UNCHANGED <<now, defVars, countVars, pubVars, raiseVars, since, listed>>

Newer(c) == {i \in Range(alert_backlog) : since[c] < published[i]}

FillAnswer(c) ==
  /\ poll[c] # NotPolling
  /\ listed' = [listed EXCEPT ![c] = @ \cup Newer(c)]
  /\ since' = [since EXCEPT ![c] = poll[c]]
  /\ poll' = [poll EXCEPT ![c] = NotPolling]
  /\ UNCHANGED <<now, defVars, countVars, pubVars, raiseVars>>

-----------------------------------------------------------------------------
Define == \E a \in Alerts : \/ \E l \in Limits : define_alert(a, l)
                            \/ activate_configured_alert(a)
Raise == \/ \E a \in Alerts : potential_alert(a) \/ \E r \in Raisers : raise_alert(r, a)
         \/ \E r \in Raisers : \/ raise_one_shot(r) \/ Stamp(r) \/ LoadBurst(r)
                               \/ StoreBurst(r) \/ StoreTotal(r)
                               \/ SetTimeLast(r) \/ Publish(r)
Ask == \E c \in Clients : StampAnswer(c) \/ FillAnswer(c)

Next == Tick \/ Define \/ Raise \/ Ask
Spec == Init /\ [][Next]_vars

-----------------------------------------------------------------------------
(* Properties                                                              *)

TypeOK ==
  /\ now \in Nat
  /\ alert_conf_map \in UNION {[D -> Limits] : D \in SUBSET Alerts}
  /\ alert_ref_map \subseteq DOMAIN alert_conf_map
  /\ sent \in [Alerts -> [burst : Nat, total : Nat]]
  /\ time_last \in [Alerts -> Nat]
  /\ alert_backlog \in Seq(Nat \ {0})
  /\ \A i \in DOMAIN alert_backlog : alert_backlog[i] \in 1 .. Len(published)
  /\ counted \in Seq([alert : Alerts, at : Nat, alone : BOOLEAN])
  /\ published \in Seq(Nat)
  /\ raiser \in [Raisers -> [pc : Counting \cup {"idle", "push"},
                             alert : Alerts \cup {NoAlert}, tm : Nat, reg : Nat]]
  /\ alone \in [Raisers -> BOOLEAN]
  /\ poll \in [Clients -> Nat \cup {NotPolling}]
  /\ since \in [Clients -> Nat]
  /\ listed \in [Clients -> SUBSET (Nat \ {0})]
  /\ late \subseteq Clients \X (Nat \ {0})

\* The alerts of a counted in the secs seconds that end with the i-th.
Window(a, i, secs) ==
  {j \in DOMAIN counted :
     /\ counted[j].alert = a
     /\ counted[i].at - secs * TicksPerSec < counted[j].at
     /\ counted[j].at <= counted[i].at}

Disturbed(W) == \E j \in W : ~counted[j].alone

\* The limits of an alert hold over every window of time, not only over those
\* check_times begins: no more than rate alerts within a unit and burst within
\* a burst unit.  Only raises that overlapped another check of the same alert,
\* as they are counted after the mutex is released, exceed them.  After an idle
\* unit one alert is let through even when the burst limit is 0.
RateHeld(i) ==
  LET a == counted[i].alert
      W == Window(a, i, alert_conf_map[a].unit)
  IN Cardinality(W) <= alert_conf_map[a].rate \/ Disturbed(W)

BurstHeld(i) ==
  LET a == counted[i].alert
      W == Window(a, i, alert_conf_map[a].burst_unit)
  IN \/ Cardinality(W) <= alert_conf_map[a].burst
     \/ Cardinality(W) = 1
     \/ Disturbed(W)

LimitsHeld == \A i \in DOMAIN counted : RateHeld(i) /\ BurstHeld(i)

\* A client that asks again with the stamp of its last answer is given every
\* alert: one it can no longer be given, because it is not newer than that
\* stamp, it already has, unless the alert had left the backlog or was put on
\* it after an answer whose stamp is no older than the alert's.
FollowerMissesNone ==
  \A c \in Clients : \A i \in DOMAIN published :
    published[i] <= since[c] =>
      i \in listed[c] \/ <<c, i>> \in late \/ i \notin Range(alert_backlog)

=============================================================================
