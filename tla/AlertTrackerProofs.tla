------------------------ MODULE AlertTrackerProofs ------------------------
(***************************************************************************)
(* Proofs about AlertTracker for any alerts, limits, raisers, clients and  *)
(* times: followers miss no alert, and the limits hold over every window.  *)
(***************************************************************************)
EXTENDS AlertTracker, FiniteSetTheorems, TLAPS

-----------------------------------------------------------------------------
(* The inductive invariant of the limits.                                  *)

\* The alerts of a in C after x whose raise met no other check, and those of
\* them in the window of a length that ends at t.
Recent(C, a, x) == {j \in DOMAIN C : C[j].alert = a /\ C[j].alone /\ x < C[j].at}
AloneIn(C, a, t, length) == {j \in Recent(C, a, t - length) : C[j].at <= t}

Unit(l) == l.unit * TicksPerSec
BurstUnit(l) == l.burst_unit * TicksPerSec

Registered ==
  /\ \A a \in alert_ref_map : alert_conf_map[a].burst_unit <= alert_conf_map[a].unit
  /\ \A j \in DOMAIN counted : counted[j].alert \in alert_ref_map
  /\ \A r \in Raisers : raiser[r].pc \in Counting => raiser[r].alert \in alert_ref_map

Stamped(r) == raiser[r].pc \in Counting \ {"stamp"}

\* An undisturbed alert is no newer than what its alert was last counted at,
\* and than any raise under way.
Ordered ==
  /\ \A r \in Raisers : raiser[r].tm <= now
  /\ \A j \in DOMAIN counted :
       /\ counted[j].at <= now
       /\ counted[j].alone =>
            /\ counted[j].at <= time_last[counted[j].alert]
            /\ \A r \in Raisers :
                 Stamped(r) /\ raiser[r].alert = counted[j].alert
                   => counted[j].at <= raiser[r].tm

\* Of two raises of an alert under way neither is undisturbed.
Apart ==
  \A r, q \in Raisers :
    /\ r # q /\ raiser[r].alert = raiser[q].alert
    /\ raiser[r].pc \in Counting /\ raiser[q].pc \in Counting
    => ~alone[r] /\ ~alone[q]

\* The counters, and what a raise has read of them, lose no undisturbed alert.
Covered(a) ==
  LET T == Cardinality(Recent(counted, a, now - Unit(alert_conf_map[a])))
      B == Cardinality(Recent(counted, a, now - BurstUnit(alert_conf_map[a])))
  IN /\ T <= sent[a].total
     /\ B <= sent[a].burst
     /\ \A r \in Raisers :
          raiser[r].alert = a =>
            /\ raiser[r].pc = "total" => T <= raiser[r].reg
            /\ raiser[r].pc = "burst" => B <= raiser[r].reg
            /\ alone[r] /\ raiser[r].pc = "last" => T + 1 <= sent[a].total
            /\ alone[r] /\ raiser[r].pc \in {"total", "last"} => B + 1 <= sent[a].burst

\* An undisturbed raise of a, at x, has room within the limits.
RoomAt(a, x) ==
  LET l == alert_conf_map[a]
  IN /\ Cardinality(Recent(counted, a, x - Unit(l))) + 1 <= l.rate
     /\ \/ Cardinality(Recent(counted, a, x - BurstUnit(l))) + 1 <= l.burst
        \/ Recent(counted, a, x - BurstUnit(l)) = {}

HasRoom(r) ==
  alone[r] /\ raiser[r].pc \in Counting =>
    RoomAt(raiser[r].alert, IF raiser[r].pc = "stamp" THEN now ELSE raiser[r].tm)

Held(i) ==
  counted[i].alone =>
    LET l == alert_conf_map[counted[i].alert]
        In(length) == Cardinality(AloneIn(counted, counted[i].alert, counted[i].at, length))
    IN /\ In(Unit(l)) <= l.rate
       /\ In(BurstUnit(l)) <= l.burst \/ In(BurstUnit(l)) = 1

LimitsInv ==
  /\ Registered /\ Ordered /\ Apart
  /\ \A a \in alert_ref_map : Covered(a)
  /\ \A r \in Raisers : HasRoom(r)
  /\ \A i \in DOMAIN counted : Held(i)


-----------------------------------------------------------------------------
(* Types.                                                                  *)

\* What is published keeps its numbers and gains the next one.
LEMMA AppendStamp ==
  ASSUME NEW S, NEW s \in Seq(S), NEW x \in S
  PROVE  /\ Append(s, x) \in Seq(S) /\ Len(Append(s, x)) = Len(s) + 1
         /\ DOMAIN Append(s, x) = 1 .. (Len(s) + 1)
         /\ \A i \in 1 .. Len(s) : Append(s, x)[i] = s[i]
         /\ Append(s, x)[Len(s) + 1] = x
  OBVIOUS

\* What define_alert and activate_configured_alert make of the table of limits.
LEMMA ConfExtended ==
  ASSUME TypeOK, NEW a \in Alerts, NEW l \in Limits,
         alert_conf_map' = [x \in DOMAIN alert_conf_map \cup {a} |->
                              IF x = a THEN l ELSE alert_conf_map[x]]
  PROVE  /\ alert_conf_map' \in UNION {[D -> Limits] : D \in SUBSET Alerts}
         /\ DOMAIN alert_conf_map' = DOMAIN alert_conf_map \cup {a}
         /\ alert_conf_map'[a] = l
         /\ \A x \in DOMAIN alert_conf_map : x # a => alert_conf_map'[x] = alert_conf_map[x]
<1>1. PICK D \in SUBSET Alerts : alert_conf_map \in [D -> Limits]
  BY DEF TypeOK
<1>2. DOMAIN alert_conf_map = D
  BY <1>1
<1>3. alert_conf_map' \in [D \cup {a} -> Limits] /\ D \cup {a} \in SUBSET Alerts
  BY <1>1, <1>2
<1>4. alert_conf_map' \in UNION {[E -> Limits] : E \in SUBSET Alerts}
  BY <1>3
<1>5. /\ DOMAIN alert_conf_map' = DOMAIN alert_conf_map \cup {a}
      /\ alert_conf_map'[a] = l
      /\ \A x \in DOMAIN alert_conf_map : x # a => alert_conf_map'[x] = alert_conf_map[x]
  OBVIOUS
<1> QED
  BY <1>4, <1>5

\* The limits of a known alert are limits, and their parts are numbers.
LEMMA ConfTyped ==
  ASSUME TypeOK, NEW a \in DOMAIN alert_conf_map
  PROVE  /\ a \in Alerts /\ alert_conf_map[a] \in Limits
         /\ alert_conf_map[a].rate \in Nat /\ alert_conf_map[a].burst \in Nat
         /\ alert_conf_map[a].unit \in Nat \ {0}
         /\ alert_conf_map[a].burst_unit \in Nat \ {0}
<1>1. PICK D \in SUBSET Alerts : alert_conf_map \in [D -> Limits]
  BY DEF TypeOK
<1>2. a \in Alerts /\ alert_conf_map[a] \in Limits
  BY <1>1
<1> QED
  BY <1>2, AlertAssumption

\* check_times leaves counters.
LEMMA CheckTyped ==
  ASSUME TypeOK, NEW a \in Alerts, check_times(a)
  PROVE  sent' \in [Alerts -> [burst : Nat, total : Nat]]
<1>1. CountsAfterCheck(a) \in [burst : Nat, total : Nat]
  <2>1. sent[a] \in [burst : Nat, total : Nat]
    BY DEF TypeOK
  <2>2. [sent[a] EXCEPT !.burst = 0] \in [burst : Nat, total : Nat]
    BY <2>1
  <2>3. [burst |-> 0, total |-> 0] \in [burst : Nat, total : Nat]
    OBVIOUS
  <2> QED
    BY <2>1, <2>2, <2>3, Zenon DEF CountsAfterCheck
<1> QED
  BY <1>1 DEF check_times, TypeOK

\* The initial state has the types.
LEMMA InitTyped == Init => TypeOK
<1> SUFFICES ASSUME Init PROVE TypeOK
  OBVIOUS
<1>1. alert_conf_map \in UNION {[D -> Limits] : D \in SUBSET Alerts}
  BY AlertAssumption DEF Init
<1>2. /\ raiser \in [Raisers -> [pc : Counting \cup {"idle", "push"},
                                 alert : Alerts \cup {NoAlert}, tm : Nat, reg : Nat]]
      /\ alone \in [Raisers -> BOOLEAN]
  BY DEF Init, Idle, Raiser, Counting
<1>3. /\ poll \in [Clients -> Nat \cup {NotPolling}] /\ since \in [Clients -> Nat]
      /\ listed \in [Clients -> SUBSET (Nat \ {0})] /\ late = {}
  BY DEF Init
<1>4. /\ sent \in [Alerts -> [burst : Nat, total : Nat]] /\ time_last \in [Alerts -> Nat]
      /\ alert_backlog = << >> /\ published = << >> /\ counted = << >>
      /\ now \in Nat /\ alert_ref_map = {}
  BY AlertAssumption DEF Init
<1> QED
  BY <1>1, <1>2, <1>3, <1>4 DEF TypeOK

\* A raise under way is of an alert.
RaisesAlert == \A r \in Raisers : raiser[r].pc \in Counting => raiser[r].alert \in Alerts

\* What is known of a raiser.
Flight == [pc : Counting \cup {"idle", "push"}, alert : Alerts \cup {NoAlert},
           tm : Nat, reg : Nat]

\* A raiser goes on, with an alert if it is to count one.
LEMMA RaiserMoved ==
  ASSUME raiser \in [Raisers -> Flight], RaisesAlert, NEW r \in Raisers, NEW f \in Flight,
         raiser' = [raiser EXCEPT ![r] = f], f.pc \in Counting => f.alert \in Alerts
  PROVE  raiser' \in [Raisers -> Flight] /\ RaisesAlert'
<1>1. raiser'[r] = f /\ \A q \in Raisers : q # r => raiser'[q] = raiser[q]
  OBVIOUS
<1>2. raiser' \in [Raisers -> Flight]
  OBVIOUS
<1> QED
  BY <1>1, <1>2 DEF RaisesAlert

\* Every step keeps the types.
LEMMA StepTyped == TypeOK /\ RaisesAlert /\ [Next]_vars => TypeOK' /\ RaisesAlert'
<1> SUFFICES ASSUME TypeOK, RaisesAlert, [Next]_vars PROVE TypeOK' /\ RaisesAlert'
  OBVIOUS
<1> USE AlertAssumption
<1>a. /\ now \in Nat /\ raiser \in [Raisers -> Flight]
      /\ alone \in [Raisers -> BOOLEAN]
      /\ sent \in [Alerts -> [burst : Nat, total : Nat]]
  BY DEF TypeOK, Flight
<1>b. \A R : (Overlap(R) => alone' \in [Raisers -> BOOLEAN])
  BY <1>a DEF Overlap
<1>1. CASE Tick
  <2>1. now' \in Nat /\ UNCHANGED <<defVars, countVars, clientVars, pubVars, raiseVars>>
    BY <1>a, <1>1 DEF Tick
  <2> QED
    BY <2>1 DEF TypeOK, RaisesAlert, defVars, countVars, clientVars, pubVars, raiseVars
<1>2. ASSUME NEW a \in Alerts, NEW l \in Limits, define_alert(a, l) PROVE TypeOK' /\ RaisesAlert'
  <2>1. /\ alert_conf_map' \in UNION {[D -> Limits] : D \in SUBSET Alerts}
        /\ DOMAIN alert_conf_map' = DOMAIN alert_conf_map \cup {a}
    <3>1. alert_conf_map' = [x \in DOMAIN alert_conf_map \cup {a} |->
                               IF x = a THEN l ELSE alert_conf_map[x]]
      BY <1>2 DEF define_alert
    <3> QED
      BY <3>1, ConfExtended
  <2> QED
    BY <1>2, <2>1 DEF define_alert, TypeOK, RaisesAlert, countVars, clientVars, pubVars, raiseVars
<1>3. ASSUME NEW a \in Alerts, activate_configured_alert(a) PROVE TypeOK' /\ RaisesAlert'
  <2> DEFINE l == IF a \in DOMAIN alert_conf_map THEN alert_conf_map[a] ELSE DefaultLimit
  <2>1. l \in Limits
    BY ConfTyped
  <2>2. /\ alert_conf_map' \in UNION {[D -> Limits] : D \in SUBSET Alerts}
        /\ DOMAIN alert_conf_map' = DOMAIN alert_conf_map \cup {a}
    <3>1. alert_conf_map' = [x \in DOMAIN alert_conf_map \cup {a} |->
                               IF x = a THEN l ELSE alert_conf_map[x]]
      BY <1>3 DEF activate_configured_alert
    <3> HIDE DEF l
    <3> QED
      BY <2>1, <3>1, ConfExtended
  <2>3. alert_ref_map' \subseteq DOMAIN alert_conf_map'
    BY <1>3, <2>2 DEF activate_configured_alert, TypeOK
  <2> QED
    BY <1>3, <2>2, <2>3 DEF activate_configured_alert, TypeOK, RaisesAlert, countVars, clientVars,
                            pubVars, raiseVars
<1>4. ASSUME NEW a \in Alerts, potential_alert(a) PROVE TypeOK' /\ RaisesAlert'
  <2>1. /\ sent' \in [Alerts -> [burst : Nat, total : Nat]]
        /\ alone' \in [Raisers -> BOOLEAN]
    BY <1>4, <1>b, CheckTyped DEF potential_alert
  <2> QED
    BY <1>4, <2>1 DEF potential_alert, TypeOK, RaisesAlert, defVars, clientVars, pubVars
<1>5. ASSUME NEW r \in Raisers, NEW a \in Alerts, raise_alert(r, a)
      PROVE  TypeOK' /\ RaisesAlert'
  <2>1. /\ sent' \in [Alerts -> [burst : Nat, total : Nat]]
        /\ alone' \in [Raisers -> BOOLEAN]
    BY <1>5, <1>b, CheckTyped DEF raise_alert
  <2>2. raiser' \in [Raisers -> Flight] /\ RaisesAlert'
    <3>1. CASE Allowed(a)
      <4>1. raiser' = [raiser EXCEPT ![r] = [pc |-> "stamp", alert |-> a, tm |-> 0, reg |-> 0]]
        BY <1>5, <3>1 DEF raise_alert, Raiser
      <4>2. [pc |-> "stamp", alert |-> a, tm |-> 0, reg |-> 0] \in Flight
        BY DEF Flight, Counting
      <4> QED
        BY <1>a, <4>1, <4>2, RaiserMoved
    <3>2. CASE ~Allowed(a)
      BY <1>5, <1>a, <3>2 DEF raise_alert, RaisesAlert
    <3> QED
      BY <3>1, <3>2
  <2> QED
    BY <1>5, <2>1, <2>2 DEF raise_alert, TypeOK, Flight, defVars, clientVars, pubVars
<1>6. ASSUME NEW r \in Raisers, Stamp(r) \/ LoadBurst(r) PROVE TypeOK' /\ RaisesAlert'
  <2>1. raiser' \in [Raisers -> Flight] /\ RaisesAlert'
    <3>1. raiser[r] \in Flight /\ raiser[r].alert \in Alerts
      BY <1>6, <1>a DEF Stamp, LoadBurst, RaisesAlert, Counting
    <3>2. CASE Stamp(r)
      <4> DEFINE f == [raiser[r] EXCEPT !.pc = "load", !.tm = now]
      <4>1. f \in Flight /\ f.alert \in Alerts
        BY <1>a, <3>1 DEF Flight, Counting
      <4>2. raiser' = [raiser EXCEPT ![r] = f]
        BY <1>a, <3>2 DEF Stamp
      <4> QED
        BY <1>a, <4>1, <4>2, RaiserMoved
    <3>3. CASE LoadBurst(r)
      <4> DEFINE f == [raiser[r] EXCEPT !.pc = "burst", !.reg = sent[raiser[r].alert].burst]
      <4>1. sent[raiser[r].alert].burst \in Nat
        BY <1>a, <3>1
      <4>2. f \in Flight /\ f.alert \in Alerts
        BY <3>1, <4>1 DEF Flight, Counting
      <4>3. raiser' = [raiser EXCEPT ![r] = f]
        BY <1>a, <3>3 DEF LoadBurst
      <4> QED
        BY <1>a, <4>2, <4>3, RaiserMoved
    <3> QED
      BY <1>6, <3>2, <3>3
  <2> QED
    BY <1>6, <2>1 DEF Stamp, LoadBurst, TypeOK, Flight, defVars, countVars, clientVars, pubVars
<1>7. ASSUME NEW r \in Raisers, StoreBurst(r) \/ StoreTotal(r) PROVE TypeOK' /\ RaisesAlert'
  <2>1. raiser[r].alert \in Alerts /\ raiser[r].reg \in Nat
    BY <1>7, <1>a DEF StoreBurst, StoreTotal, Counting, RaisesAlert, Flight
  <2>2. sent' \in [Alerts -> [burst : Nat, total : Nat]]
    <3>1. CASE StoreBurst(r)
      BY <1>a, <2>1, <3>1 DEF StoreBurst
    <3>2. CASE StoreTotal(r)
      BY <1>a, <2>1, <3>2 DEF StoreTotal
    <3> QED
      BY <1>7, <3>1, <3>2
  <2>3. raiser' \in [Raisers -> Flight] /\ RaisesAlert'
    <3>1. sent[raiser[r].alert].total \in Nat /\ raiser[r] \in Flight
      BY <1>a, <2>1
    <3>2. CASE StoreBurst(r)
      <4> DEFINE f == [raiser[r] EXCEPT !.pc = "total", !.reg = sent[raiser[r].alert].total]
      <4>1. f \in Flight /\ f.alert \in Alerts
        BY <2>1, <3>1 DEF Flight, Counting
      <4>2. raiser' = [raiser EXCEPT ![r] = f]
        BY <1>a, <3>2 DEF StoreBurst
      <4> QED
        BY <1>a, <4>1, <4>2, RaiserMoved
    <3>3. CASE StoreTotal(r)
      <4> DEFINE f == [raiser[r] EXCEPT !.pc = "last", !.reg = 0]
      <4>1. f \in Flight /\ f.alert \in Alerts
        BY <2>1, <3>1 DEF Flight, Counting
      <4>2. raiser' = [raiser EXCEPT ![r] = f]
        BY <1>a, <3>3 DEF StoreTotal
      <4> QED
        BY <1>a, <4>1, <4>2, RaiserMoved
    <3> QED
      BY <1>7, <3>2, <3>3
  <2> QED
    BY <1>7, <2>2, <2>3 DEF StoreBurst, StoreTotal, TypeOK, Flight, defVars, clientVars, pubVars
<1>8. ASSUME NEW r \in Raisers, SetTimeLast(r) PROVE TypeOK' /\ RaisesAlert'
  <2>1. /\ raiser[r].alert \in Alerts /\ raiser[r].tm \in Nat /\ alone[r] \in BOOLEAN
        /\ raiser[r] \in Flight
    <3>1. raiser[r] \in Flight /\ alone[r] \in BOOLEAN /\ raiser[r].alert \in Alerts
      BY <1>8, <1>a DEF SetTimeLast, Counting, RaisesAlert
    <3> QED
      BY <3>1 DEF Flight
  <2>2. counted' \in Seq([alert : Alerts, at : Nat, alone : BOOLEAN])
    BY <1>8, <2>1 DEF SetTimeLast, TypeOK
  <2>3. raiser' \in [Raisers -> Flight] /\ RaisesAlert' /\ alone' \in [Raisers -> BOOLEAN]
    <3> DEFINE f == [raiser[r] EXCEPT !.pc = "push"]
    <3>1. f \in Flight /\ f.pc \notin Counting
      BY <2>1 DEF Flight, Counting
    <3>2. raiser' = [raiser EXCEPT ![r] = f] /\ alone' = [alone EXCEPT ![r] = TRUE]
      BY <1>8 DEF SetTimeLast
    <3>3. alone' \in [Raisers -> BOOLEAN]
      BY <1>a, <3>2
    <3> QED
      BY <1>a, <3>1, <3>2, <3>3, RaiserMoved
  <2>4. time_last' \in [Alerts -> Nat]
    BY <1>8, <2>1 DEF SetTimeLast, TypeOK
  <2> QED
    BY <1>8, <2>2, <2>3, <2>4 DEF SetTimeLast, TypeOK, Flight, defVars, clientVars, pubVars
<1>9. ASSUME NEW r \in Raisers, raise_one_shot(r) PROVE TypeOK' /\ RaisesAlert'
  <2>1. raiser' \in [Raisers -> Flight] /\ RaisesAlert'
    <3>1. raiser' = [raiser EXCEPT ![r] = [pc |-> "push", alert |-> NoAlert, tm |-> now, reg |-> 0]]
      BY <1>9 DEF raise_one_shot, Raiser
    <3> DEFINE f == [pc |-> "push", alert |-> NoAlert, tm |-> now, reg |-> 0]
    <3>2. f \in Flight /\ f.pc \notin Counting
      BY <1>a DEF Flight, Counting
    <3> QED
      BY <1>a, <3>1, <3>2, RaiserMoved
  <2> QED
    BY <1>9, <2>1 DEF raise_one_shot, TypeOK, Flight, defVars, countVars, clientVars, pubVars
<1>10. ASSUME NEW r \in Raisers, Publish(r) PROVE TypeOK' /\ RaisesAlert'
  <2>1. raiser' \in [Raisers -> Flight] /\ RaisesAlert'
    <3>1. raiser' = [raiser EXCEPT ![r] = Idle]
      BY <1>10 DEF Publish
    <3>2. Idle \in Flight /\ Idle.pc \notin Counting
      BY DEF Flight, Counting, Idle, Raiser
    <3> QED
      BY <1>a, <3>1, <3>2, RaiserMoved
  <2>2. published' \in Seq(Nat) /\ Len(published') = Len(published) + 1
    <3>1. raiser[r].tm \in Nat /\ published \in Seq(Nat)
      BY <1>a DEF Flight, TypeOK
    <3> QED
      BY <1>10, <3>1 DEF Publish
  <2>3. /\ alert_backlog' \in Seq(Nat \ {0})
        /\ \A i \in DOMAIN alert_backlog' : alert_backlog'[i] \in 1 .. Len(published')
    <3> DEFINE new == Append(alert_backlog, Len(published) + 1)
    <3>1. /\ new \in Seq(Nat \ {0}) /\ new # << >>
          /\ \A i \in DOMAIN new : new[i] \in 1 .. Len(published')
      <4>1. /\ alert_backlog \in Seq(Nat \ {0}) /\ Len(published) \in Nat
            /\ \A i \in DOMAIN alert_backlog : alert_backlog[i] \in 1 .. Len(published)
            /\ DOMAIN alert_backlog = 1 .. Len(alert_backlog)
        BY DEF TypeOK
      <4>2. Len(published) + 1 \in Nat \ {0}
        BY <4>1
      <4>3. /\ new \in Seq(Nat \ {0}) /\ Len(new) = Len(alert_backlog) + 1
            /\ DOMAIN new = 1 .. (Len(alert_backlog) + 1)
            /\ \A i \in 1 .. Len(alert_backlog) : new[i] = alert_backlog[i]
            /\ new[Len(alert_backlog) + 1] = Len(published) + 1
        BY <4>1, <4>2, AppendStamp
      <4> HIDE DEF new
      <4>4. Len(alert_backlog) \in Nat
        BY <4>1
      <4>5. new # << >>
        BY <4>3, <4>4
      <4>6. ASSUME NEW i \in DOMAIN new PROVE new[i] \in 1 .. Len(published')
        <5>1. CASE i \in 1 .. Len(alert_backlog)
          BY <2>2, <4>1, <4>3, <5>1
        <5>2. CASE i = Len(alert_backlog) + 1
          BY <2>2, <4>1, <4>3, <5>2
        <5> QED
          BY <4>3, <4>4, <4>6, <5>1, <5>2
      <4> QED
        BY <4>3, <4>5, <4>6
    <3>2. /\ Tail(new) \in Seq(Nat \ {0})
          /\ \A i \in DOMAIN Tail(new) : Tail(new)[i] \in 1 .. Len(published')
      <4> HIDE DEF new
      <4>1. /\ Tail(new) \in Seq(Nat \ {0}) /\ DOMAIN Tail(new) = 1 .. (Len(new) - 1)
            /\ \A i \in DOMAIN Tail(new) : Tail(new)[i] = new[i + 1] /\ i + 1 \in DOMAIN new
        BY <3>1
      <4> QED
        BY <3>1, <4>1
    <3> QED
      BY <1>10, <3>1, <3>2 DEF Publish
  <2>4. late' \subseteq Clients \X (Nat \ {0})
    BY <1>10 DEF Publish, TypeOK
  <2> QED
    BY <1>10, <2>1, <2>2, <2>3, <2>4 DEF Publish, TypeOK, Flight, defVars, countVars, clientVars
<1>11. ASSUME NEW c \in Clients, StampAnswer(c) \/ FillAnswer(c) PROVE TypeOK' /\ RaisesAlert'
  <2>1. Newer(c) \subseteq Nat \ {0}
    BY DEF Newer, Range, TypeOK
  <2>2. poll' \in [Clients -> Nat \cup {NotPolling}]
    BY <1>11, <1>a DEF StampAnswer, FillAnswer, TypeOK
  <2>3. since' \in [Clients -> Nat]
    BY <1>11 DEF StampAnswer, FillAnswer, TypeOK
  <2>4. listed' \in [Clients -> SUBSET (Nat \ {0})]
    <3>1. listed[c] \cup Newer(c) \in SUBSET (Nat \ {0})
      BY <2>1 DEF TypeOK
    <3>2. listed' = listed \/ listed' = [listed EXCEPT ![c] = listed[c] \cup Newer(c)]
      BY <1>11 DEF StampAnswer, FillAnswer
    <3> QED
      BY <3>1, <3>2 DEF TypeOK
  <2> QED
    BY <1>11, <2>2, <2>3, <2>4 DEF StampAnswer, FillAnswer, TypeOK, RaisesAlert, defVars,
                                   countVars, pubVars, raiseVars
<1>12. CASE UNCHANGED vars
  BY <1>12 DEF vars, TypeOK, RaisesAlert, defVars, countVars, clientVars, pubVars, raiseVars
<1> QED
  BY <1>1, <1>2, <1>3, <1>4, <1>5, <1>6, <1>7, <1>8, <1>9, <1>10, <1>11, <1>12
     DEF Next, Define, Raise, Ask

\* TypeOK, for any alerts, raisers and clients: the state of the alert tracker
\* keeps its types, and the backlog numbers only alerts that were published.
THEOREM TypeCorrect == Spec => [](TypeOK /\ RaisesAlert)
<1>1. Init => TypeOK /\ RaisesAlert
  BY InitTyped DEF Init, RaisesAlert, Idle, Raiser, Counting
<1> QED
  BY <1>1, StepTyped, PTL DEF Spec

-----------------------------------------------------------------------------
(* Followers.                                                              *)

\* Publishing puts nothing but the new alert onto the backlog.
LEMMA BacklogGrowth ==
  ASSUME TypeOK, NEW r \in Raisers, Publish(r),
         NEW i \in 1 .. Len(published), i \in Range(alert_backlog')
  PROVE  i \in Range(alert_backlog)
<1> DEFINE new == Append(alert_backlog, Len(published) + 1)
<1>1. /\ alert_backlog \in Seq(Nat \ {0}) /\ Len(alert_backlog) \in Nat
      /\ Len(published) \in Nat /\ DOMAIN alert_backlog = 1 .. Len(alert_backlog)
  BY DEF TypeOK
<1>2. Len(published) + 1 \in Nat \ {0}
  BY <1>1
<1>3. /\ new \in Seq(Nat \ {0}) /\ Len(new) = Len(alert_backlog) + 1
      /\ DOMAIN new = 1 .. (Len(alert_backlog) + 1)
      /\ \A k \in 1 .. Len(alert_backlog) : new[k] = alert_backlog[k]
      /\ new[Len(alert_backlog) + 1] = Len(published) + 1
  BY <1>1, <1>2, AppendStamp
<1>4. alert_backlog' = Tail(new) \/ alert_backlog' = new
  BY DEF Publish
<1> HIDE DEF new
<1>5. PICK k \in DOMAIN alert_backlog' : alert_backlog'[k] = i
  BY DEF Range
<1>6. PICK m \in DOMAIN new : new[m] = i
  <2>1. CASE alert_backlog' = Tail(new)
    <3>1. k + 1 \in DOMAIN new /\ Tail(new)[k] = new[k + 1]
      BY <1>3, <1>5, <2>1
    <3> QED
      BY <1>5, <2>1, <3>1
  <2>2. CASE alert_backlog' = new
    BY <1>5, <2>2
  <2> QED
    BY <1>4, <2>1, <2>2
<1>7. m # Len(alert_backlog) + 1
  BY <1>1, <1>3, <1>6
<1>8. m \in DOMAIN alert_backlog /\ alert_backlog[m] = i
  BY <1>1, <1>3, <1>6, <1>7
<1> QED
  BY <1>8 DEF Range

\* Every step keeps what followers are promised.
LEMMA StepFollowed ==
  TypeOK /\ FollowerMissesNone /\ [Next]_vars => FollowerMissesNone'
<1> SUFFICES ASSUME TypeOK, FollowerMissesNone, [Next]_vars PROVE FollowerMissesNone'
  OBVIOUS
<1>1. ASSUME UNCHANGED <<published, since, listed, late, alert_backlog>>
      PROVE  FollowerMissesNone'
  BY <1>1 DEF FollowerMissesNone
<1>2. ASSUME NEW c \in Clients, FillAnswer(c) PROVE FollowerMissesNone'
  <2>1. /\ UNCHANGED <<published, late, alert_backlog>>
        /\ since' = [since EXCEPT ![c] = poll[c]]
        /\ listed' = [listed EXCEPT ![c] = listed[c] \cup Newer(c)]
    BY <1>2 DEF FillAnswer, pubVars
  <2>2. SUFFICES ASSUME NEW d \in Clients, NEW i \in DOMAIN published,
                        published[i] <= since'[d], i \in Range(alert_backlog),
                        <<d, i>> \notin late
                 PROVE  i \in listed'[d]
    BY <2>1 DEF FollowerMissesNone
  <2>3. since \in [Clients -> Nat] /\ listed \in [Clients -> SUBSET (Nat \ {0})]
        /\ published[i] \in Nat
    BY DEF TypeOK
  <2>4. CASE published[i] <= since[d]
    BY <2>1, <2>2, <2>3, <2>4 DEF FollowerMissesNone
  <2>5. CASE ~ (published[i] <= since[d])
    <3>1. d = c
      BY <2>1, <2>2, <2>3, <2>5
    <3>2. since[c] < published[i]
      BY <2>3, <2>5, <3>1
    <3>3. i \in Newer(c)
      BY <2>2, <3>2 DEF Newer
    <3> QED
      BY <2>1, <2>3, <3>1, <3>3
  <2> QED
    BY <2>4, <2>5
<1>3. ASSUME NEW r \in Raisers, Publish(r) PROVE FollowerMissesNone'
  <2> DEFINE n == Len(published)
  <2>1. raiser[r].tm \in Nat /\ published \in Seq(Nat) /\ n \in Nat /\ DOMAIN published = 1 .. n
    BY DEF TypeOK
  <2>2. /\ published' = Append(published, raiser[r].tm)
        /\ UNCHANGED <<since, listed>>
        /\ late' = late \cup {<<c, n + 1>> : c \in {x \in Clients : raiser[r].tm <= since[x]}}
    BY <1>3 DEF Publish, clientVars
  <2>3. /\ DOMAIN published' = 1 .. (n + 1) /\ published'[n + 1] = raiser[r].tm
        /\ \A i \in 1 .. n : published'[i] = published[i]
    BY <2>1, <2>2, AppendStamp
  <2>4. SUFFICES ASSUME NEW d \in Clients, NEW i \in DOMAIN published',
                        published'[i] <= since[d]
                 PROVE  i \in listed[d] \/ <<d, i>> \in late' \/ i \notin Range(alert_backlog')
    BY <2>2 DEF FollowerMissesNone
  <2>5. CASE i = n + 1
    BY <2>2, <2>3, <2>4, <2>5
  <2>6. CASE i \in 1 .. n
    <3>1. i \in listed[d] \/ <<d, i>> \in late \/ i \notin Range(alert_backlog)
      BY <2>1, <2>3, <2>4, <2>6 DEF FollowerMissesNone
    <3>2. i \in Range(alert_backlog') => i \in Range(alert_backlog)
      BY <1>3, <2>6, BacklogGrowth
    <3> QED
      BY <2>2, <3>1, <3>2
  <2> QED
    BY <2>1, <2>3, <2>4, <2>5, <2>6
<1>4. \/ UNCHANGED <<published, since, listed, late, alert_backlog>>
      \/ \E c \in Clients : FillAnswer(c)
      \/ \E r \in Raisers : Publish(r)
  <2>1. Tick \/ Define => UNCHANGED <<published, since, listed, late, alert_backlog>>
    BY DEF Tick, Define, define_alert, activate_configured_alert, clientVars, pubVars
  <2>2. \A r \in Raisers : \/ raise_one_shot(r) \/ Stamp(r) \/ LoadBurst(r) \/ StoreBurst(r)
                           \/ StoreTotal(r) \/ SetTimeLast(r)
                           => UNCHANGED <<published, since, listed, late, alert_backlog>>
    BY DEF raise_one_shot, Stamp, LoadBurst, StoreBurst, StoreTotal, SetTimeLast, clientVars,
           pubVars
  <2>3. \A a \in Alerts : potential_alert(a) \/ (\E r \in Raisers : raise_alert(r, a))
                           => UNCHANGED <<published, since, listed, late, alert_backlog>>
    BY DEF potential_alert, raise_alert, clientVars, pubVars
  <2>4. \A c \in Clients : StampAnswer(c)
                           => UNCHANGED <<published, since, listed, late, alert_backlog>>
    BY DEF StampAnswer, pubVars
  <2>5. UNCHANGED vars => UNCHANGED <<published, since, listed, late, alert_backlog>>
    BY DEF vars, clientVars, pubVars
  <2> QED
    BY <2>1, <2>2, <2>3, <2>4, <2>5 DEF Next, Raise, Ask
<1> QED
  BY <1>1, <1>2, <1>3, <1>4

\* FollowerMissesNone, for any number of clients, raisers and alerts and any
\* backlog: a web client that follows the alerts by the stamp of its last
\* answer was given each alert that is still on the backlog and that its stamp
\* covers, unless it was published after an answer stamped no earlier.
THEOREM FollowersMissNone == Spec => []FollowerMissesNone
<1>1. Init => FollowerMissesNone
  BY DEF Init, FollowerMissesNone
<1> QED
  BY <1>1, TypeCorrect, StepFollowed, PTL DEF Spec

-----------------------------------------------------------------------------
(* Windows.                                                                *)

Count == [alert : Alerts, at : Nat, alone : BOOLEAN]

\* Windows are finite.
LEMMA RecentFinite ==
  ASSUME NEW C \in Seq(Count), NEW a, NEW x
  PROVE  IsFiniteSet(Recent(C, a, x)) /\ Cardinality(Recent(C, a, x)) \in Nat
<1>1. IsFiniteSet(1 .. Len(C)) /\ DOMAIN C = 1 .. Len(C)
  BY FS_Interval
<1>2. Recent(C, a, x) \subseteq 1 .. Len(C)
  BY <1>1 DEF Recent
<1> QED
  BY <1>1, <1>2, FS_Subset, FS_CardinalityType

\* A window that begins later is smaller.
LEMMA RecentShrinks ==
  ASSUME NEW C \in Seq(Count), NEW a, NEW x \in Int, NEW y \in Int, x <= y
  PROVE  /\ Recent(C, a, y) \subseteq Recent(C, a, x)
         /\ Cardinality(Recent(C, a, y)) <= Cardinality(Recent(C, a, x))
<1>1. ASSUME NEW j \in DOMAIN C PROVE C[j].at \in Nat
  <2>1. C[j] \in Count
    OBVIOUS
  <2> QED
    BY <2>1 DEF Count
<1>2. Recent(C, a, y) \subseteq Recent(C, a, x)
  BY <1>1 DEF Recent
<1> QED
  BY <1>2, RecentFinite, FS_Subset

\* What one more alert adds to the windows.
LEMMA RecentAppend ==
  ASSUME NEW C \in Seq(Count), NEW e \in Count, NEW a, NEW x \in Int
  PROVE  LET D == Append(C, e)
         IN /\ Recent(D, a, x) \subseteq Recent(C, a, x) \cup {Len(C) + 1}
            /\ Cardinality(Recent(D, a, x)) <= Cardinality(Recent(C, a, x)) + 1
            /\ ~e.alone \/ e.alert # a => Recent(D, a, x) = Recent(C, a, x)
<1> DEFINE D == Append(C, e)
<1>1. /\ D \in Seq(Count) /\ Len(D) = Len(C) + 1 /\ DOMAIN D = 1 .. (Len(C) + 1)
      /\ \A j \in 1 .. Len(C) : D[j] = C[j]
      /\ D[Len(C) + 1] = e
  BY AppendStamp
<1>2. Len(C) \in Nat /\ DOMAIN C = 1 .. Len(C)
  OBVIOUS
<1> HIDE DEF D
<1>3. Recent(D, a, x) \subseteq Recent(C, a, x) \cup {Len(C) + 1}
  BY <1>1, <1>2 DEF Recent
<1>4. ~e.alone \/ e.alert # a => Recent(D, a, x) = Recent(C, a, x)
  BY <1>1, <1>2 DEF Recent
<1>5. Cardinality(Recent(D, a, x)) <= Cardinality(Recent(C, a, x)) + 1
  <2>1. /\ IsFiniteSet(Recent(C, a, x) \cup {Len(C) + 1})
        /\ Cardinality(Recent(C, a, x) \cup {Len(C) + 1}) <= Cardinality(Recent(C, a, x)) + 1
    <3> DEFINE S == Recent(C, a, x)
    <3>1. IsFiniteSet(S) /\ Cardinality(S) \in Nat
      BY RecentFinite
    <3> HIDE DEF S
    <3>2. /\ IsFiniteSet(S \cup {Len(C) + 1})
          /\ Cardinality(S \cup {Len(C) + 1})
               = IF Len(C) + 1 \in S THEN Cardinality(S) ELSE Cardinality(S) + 1
      BY <3>1, FS_AddElement
    <3>3. Cardinality(S \cup {Len(C) + 1}) <= Cardinality(S) + 1
      BY <3>1, <3>2
    <3> QED
      BY <3>2, <3>3 DEF S
  <2>2. Cardinality(Recent(D, a, x)) <= Cardinality(Recent(C, a, x) \cup {Len(C) + 1})
    BY <1>3, <2>1, FS_Subset
  <2> QED
    BY <1>1, <2>1, <2>2, RecentFinite, FS_CardinalityType
<1> QED
  BY <1>3, <1>4, <1>5 DEF D

\* The same for the windows that end: one that held nothing holds just the new one.
LEMMA AloneInAppend ==
  ASSUME NEW C \in Seq(Count), NEW e \in Count, NEW a, NEW t \in Nat, NEW u \in Nat \ {0}
  PROVE  LET D == Append(C, e)
         IN /\ ~e.alone \/ e.alert # a \/ t < e.at => AloneIn(D, a, t, u) = AloneIn(C, a, t, u)
            /\ Cardinality(AloneIn(D, a, t, u)) <= Cardinality(Recent(C, a, t - u)) + 1
            /\ e.alone /\ e.alert = a /\ e.at = t /\ Recent(C, a, t - u) = {}
                 => Cardinality(AloneIn(D, a, t, u)) = 1
<1> DEFINE D == Append(C, e)
<1>1. /\ D \in Seq(Count) /\ Len(D) = Len(C) + 1 /\ DOMAIN D = 1 .. (Len(C) + 1)
      /\ \A j \in 1 .. Len(C) : D[j] = C[j]
      /\ D[Len(C) + 1] = e
  BY AppendStamp
<1>2. /\ Len(C) \in Nat /\ DOMAIN C = 1 .. Len(C) /\ e.at \in Nat
      /\ t - u \in Int /\ t - u < t
  BY DEF Count
<1>3. /\ Recent(D, a, t - u) \subseteq Recent(C, a, t - u) \cup {Len(C) + 1}
      /\ Cardinality(Recent(D, a, t - u)) <= Cardinality(Recent(C, a, t - u)) + 1
  BY <1>2, RecentAppend
<1>4. IsFiniteSet(Recent(D, a, t - u)) /\ Cardinality(Recent(D, a, t - u)) \in Nat
  BY <1>1, RecentFinite
<1>5. Cardinality(Recent(C, a, t - u)) \in Nat
  BY RecentFinite
<1> HIDE DEF D
<1>6. AloneIn(D, a, t, u) \subseteq Recent(D, a, t - u)
  BY DEF AloneIn
<1>7. /\ Cardinality(AloneIn(D, a, t, u)) <= Cardinality(Recent(D, a, t - u))
      /\ Cardinality(AloneIn(D, a, t, u)) \in Nat
  BY <1>4, <1>6, FS_Subset, FS_CardinalityType
<1>8. Cardinality(AloneIn(D, a, t, u)) <= Cardinality(Recent(C, a, t - u)) + 1
  BY <1>3, <1>4, <1>5, <1>7
<1>9. ~e.alone \/ e.alert # a \/ t < e.at => AloneIn(D, a, t, u) = AloneIn(C, a, t, u)
  BY <1>1, <1>2 DEF AloneIn, Recent
<1>10. ASSUME e.alone, e.alert = a, e.at = t, Recent(C, a, t - u) = {}
       PROVE  Cardinality(AloneIn(D, a, t, u)) = 1
  <2>1. Len(C) + 1 \in Recent(D, a, t - u)
    BY <1>1, <1>2, <1>10 DEF Recent
  <2>2. AloneIn(D, a, t, u) = {Len(C) + 1}
    BY <1>1, <1>2, <1>3, <1>10, <2>1 DEF AloneIn
  <2> QED
    BY <2>2, FS_Singleton
<1> QED
  BY <1>8, <1>9, <1>10 DEF D

-----------------------------------------------------------------------------
(* The inductive invariant.                                                *)

\* The limits of a registered alert, and its counters, are numbers.
LEMMA UnitsTyped ==
  ASSUME TypeOK, Registered, NEW a \in alert_ref_map
  PROVE  LET l == alert_conf_map[a]
         IN /\ a \in Alerts /\ l.rate \in Nat /\ l.burst \in Nat
            /\ Unit(l) \in Nat \ {0} /\ BurstUnit(l) \in Nat \ {0}
            /\ BurstUnit(l) <= Unit(l)
            /\ sent[a].burst \in Nat /\ sent[a].total \in Nat /\ time_last[a] \in Nat
<1> DEFINE l == alert_conf_map[a]
<1>1. a \in DOMAIN alert_conf_map
  BY DEF TypeOK
<1>2. /\ a \in Alerts /\ l.rate \in Nat /\ l.burst \in Nat
      /\ l.unit \in Nat \ {0} /\ l.burst_unit \in Nat \ {0}
  BY <1>1, ConfTyped
<1>3. l.burst_unit <= l.unit
  BY DEF Registered
<1>4. TicksPerSec \in Nat \ {0}
  BY AlertAssumption
<1>5. sent[a].burst \in Nat /\ sent[a].total \in Nat /\ time_last[a] \in Nat
  BY <1>2 DEF TypeOK
<1>6. \A m, n, d \in Nat \ {0} : /\ m * d \in Nat \ {0}
                                 /\ m <= n => m * d <= n * d
  OBVIOUS
<1>7. Unit(l) \in Nat \ {0} /\ BurstUnit(l) \in Nat \ {0} /\ BurstUnit(l) <= Unit(l)
  <2> HIDE DEF l
  <2> QED
    BY <1>2, <1>3, <1>4, <1>6 DEF Unit, BurstUnit
<1> QED
  BY <1>2, <1>5, <1>7

\* An alert that was idle for a time has nothing undisturbed within it.
LEMMA IdleEmpty ==
  ASSUME TypeOK, Ordered, NEW a \in Alerts, NEW u \in Nat, time_last[a] < Seconds(now) - u
  PROVE  \A v \in Nat : v <= u => /\ Recent(counted, a, now - v) = {}
                                  /\ Cardinality(Recent(counted, a, now - v)) = 0
<1>1. /\ now \in Nat /\ time_last[a] \in Nat /\ counted \in Seq(Count)
      /\ TicksPerSec \in Nat \ {0}
  BY AlertAssumption DEF TypeOK, Count
<1>2. Seconds(now) \in Int /\ Seconds(now) <= now
  BY <1>1 DEF Seconds
<1>3. ASSUME NEW v \in Nat, v <= u PROVE Recent(counted, a, now - v) = {}
  <2>1. ASSUME NEW j \in Recent(counted, a, now - v) PROVE FALSE
    <3>1. /\ j \in DOMAIN counted /\ counted[j].alert = a /\ counted[j].alone
          /\ now - v < counted[j].at
      BY <2>1 DEF Recent
    <3>2. counted[j] \in Count
      BY <1>1, <3>1
    <3>3. counted[j].at \in Nat
      BY <3>2 DEF Count
    <3>4. counted[j].at <= time_last[a]
      BY <3>1 DEF Ordered
    <3> QED
      BY <1>1, <1>2, <1>3, <3>1, <3>3, <3>4
  <2> QED
    BY <2>1
<1> QED
  BY <1>3, FS_EmptySet

\* The check of the limits forgets no undisturbed alert, and lets a raise
\* through only where there is room for it.
LEMMA CheckCovers ==
  ASSUME TypeOK, LimitsInv, NEW a \in alert_ref_map, check_times(a)
  PROVE  LET l == alert_conf_map[a]
         IN /\ Cardinality(Recent(counted, a, now - Unit(l))) <= sent'[a].total
            /\ Cardinality(Recent(counted, a, now - BurstUnit(l))) <= sent'[a].burst
            /\ Allowed(a) => RoomAt(a, now)
            /\ \A b \in Alerts : b # a => sent'[b] = sent[b]
<1> DEFINE l == alert_conf_map[a]
           T == Cardinality(Recent(counted, a, now - Unit(l)))
           B == Cardinality(Recent(counted, a, now - BurstUnit(l)))
<1>1. /\ a \in Alerts /\ l.rate \in Nat /\ l.burst \in Nat
      /\ Unit(l) \in Nat /\ BurstUnit(l) \in Nat
      /\ BurstUnit(l) <= Unit(l)
      /\ sent[a].burst \in Nat /\ sent[a].total \in Nat
      /\ sent \in [Alerts -> [burst : Nat, total : Nat]]
  BY UnitsTyped DEF LimitsInv, TypeOK
<1>2. T <= sent[a].total /\ B <= sent[a].burst
  BY DEF LimitsInv, Covered
<1>3. sent'[a] = CountsAfterCheck(a) /\ \A b \in Alerts : b # a => sent'[b] = sent[b]
  BY <1>1 DEF check_times
<1>4. IdleFor(a, l.unit) => T = 0 /\ B = 0 /\ Recent(counted, a, now - BurstUnit(l)) = {}
  <2>1. IdleFor(a, l.unit) => time_last[a] < Seconds(now) - Unit(l)
    BY DEF IdleFor, Unit
  <2> QED
    BY <1>1, <2>1, IdleEmpty DEF LimitsInv
<1>5. IdleFor(a, l.burst_unit) => B = 0
  <2>1. IdleFor(a, l.burst_unit) => time_last[a] < Seconds(now) - BurstUnit(l)
    BY DEF IdleFor, BurstUnit
  <2> QED
    BY <1>1, <2>1, IdleEmpty DEF LimitsInv
<1>6. counted \in Seq(Count)
  BY DEF TypeOK, Count
<1>7. T \in Nat /\ B \in Nat
  BY <1>6, RecentFinite
<1> HIDE DEF T, B
<1>8. T <= CountsAfterCheck(a).total /\ B <= CountsAfterCheck(a).burst
  <2>1. CASE l.rate = 0
    BY <1>2, <2>1 DEF CountsAfterCheck
  <2>2. CASE l.rate # 0 /\ IdleFor(a, l.unit)
    BY <1>4, <2>2 DEF CountsAfterCheck
  <2>3. CASE l.rate # 0 /\ ~IdleFor(a, l.unit) /\ IdleFor(a, l.burst_unit)
    <3>1. CountsAfterCheck(a) = [sent[a] EXCEPT !.burst = 0]
      BY <2>3 DEF CountsAfterCheck
    <3>2. sent[a] \in [burst : Nat, total : Nat]
      BY <1>1
    <3>3. CountsAfterCheck(a).burst = 0 /\ CountsAfterCheck(a).total = sent[a].total
      BY <3>1, <3>2
    <3> QED
      BY <1>2, <1>5, <2>3, <3>3
  <2>4. CASE l.rate # 0 /\ ~IdleFor(a, l.unit) /\ ~IdleFor(a, l.burst_unit)
    BY <1>2, <2>4 DEF CountsAfterCheck
  <2> QED
    BY <2>1, <2>2, <2>3, <2>4
<1>9. ASSUME Allowed(a) PROVE RoomAt(a, now)
  <2>1. l.rate # 0
    BY <1>9 DEF Allowed
  <2>2. CASE IdleFor(a, l.unit)
    <3>1. T + 1 <= l.rate
      BY <1>1, <1>4, <2>1, <2>2
    <3> QED
      BY <1>4, <2>2, <3>1 DEF RoomAt, T
  <2>3. CASE /\ CountsAfterCheck(a).burst < l.burst
             /\ CountsAfterCheck(a).total < l.rate
    <3>1. CountsAfterCheck(a) \in [burst : Nat, total : Nat]
      BY <1>1 DEF CountsAfterCheck
    <3>2. CountsAfterCheck(a).burst \in Nat /\ CountsAfterCheck(a).total \in Nat
      BY <3>1
    <3>3. T + 1 <= l.rate /\ B + 1 <= l.burst
      BY <1>1, <1>7, <1>8, <2>3, <3>2
    <3> QED
      BY <3>3 DEF RoomAt, T, B
  <2> QED
    BY <1>9, <2>2, <2>3 DEF Allowed
<1> QED
  BY <1>3, <1>8, <1>9 DEF T, B

\* Steps of the clients and of the backlog.
LEMMA QuietHolds ==
  ASSUME LimitsInv, UNCHANGED <<now, defVars, countVars, raiseVars>>
  PROVE  LimitsInv'
BY DEF LimitsInv, Registered, Ordered, Stamped, Apart, Covered, HasRoom, RoomAt, Held, defVars,
       countVars, raiseVars

\* Time only empties the windows.
LEMMA TickHolds ==
  ASSUME TypeOK, LimitsInv, Tick
  PROVE  LimitsInv'
<1>1. /\ now' = now + 1 /\ now \in Nat /\ counted \in Seq(Count)
      /\ UNCHANGED <<alert_conf_map, alert_ref_map, sent, time_last, raiser, alone, counted>>
  BY DEF Tick, defVars, countVars, raiseVars, TypeOK, Count
<1>2. \A r \in Raisers : raiser[r].tm \in Nat
  BY DEF TypeOK
<1>3. ASSUME NEW j \in DOMAIN counted PROVE counted[j].at \in Nat
  <2>1. counted[j] \in Count
    BY <1>1
  <2> QED
    BY <2>1 DEF Count
<1>4. Registered' /\ Apart' /\ \A i \in DOMAIN counted' : Held(i)'
  BY <1>1 DEF LimitsInv, Registered, Apart, Held
<1>5. Ordered'
  BY <1>1, <1>2, <1>3 DEF LimitsInv, Ordered, Stamped
<1>6. ASSUME NEW a \in alert_ref_map
      PROVE  /\ Covered(a)'
             /\ RoomAt(a, now) => RoomAt(a, now')
  <2> DEFINE l == alert_conf_map[a]
             T == Cardinality(Recent(counted, a, now - Unit(l)))
             B == Cardinality(Recent(counted, a, now - BurstUnit(l)))
             T1 == Cardinality(Recent(counted, a, now' - Unit(l)))
             B1 == Cardinality(Recent(counted, a, now' - BurstUnit(l)))
  <2>1. /\ l.rate \in Nat /\ l.burst \in Nat /\ Unit(l) \in Nat /\ BurstUnit(l) \in Nat
        /\ sent[a].burst \in Nat /\ sent[a].total \in Nat
    BY UnitsTyped DEF LimitsInv
  <2>2. /\ T1 <= T /\ B1 <= B
        /\ Recent(counted, a, now' - BurstUnit(l)) \subseteq Recent(counted, a, now - BurstUnit(l))
    <3>1. \A u \in Nat : now - u \in Int /\ now' - u \in Int /\ now - u <= now' - u
      BY <1>1
    <3> QED
      BY <1>1, <2>1, <3>1, RecentShrinks
  <2>3. T \in Nat /\ B \in Nat /\ T1 \in Nat /\ B1 \in Nat
    BY <1>1, RecentFinite
  <2>4. Covered(a)'
    <3>1. /\ T <= sent[a].total /\ B <= sent[a].burst
          /\ \A r \in Raisers :
               raiser[r].alert = a =>
                 /\ raiser[r].pc = "total" => T <= raiser[r].reg
                 /\ raiser[r].pc = "burst" => B <= raiser[r].reg
                 /\ alone[r] /\ raiser[r].pc = "last" => T + 1 <= sent[a].total
                 /\ alone[r] /\ raiser[r].pc \in {"total", "last"} => B + 1 <= sent[a].burst
      BY DEF LimitsInv, Covered
    <3>2. \A r \in Raisers : raiser[r].reg \in Nat
      BY DEF TypeOK
    <3> HIDE DEF T, B, T1, B1
    <3>3. /\ T1 <= sent[a].total /\ B1 <= sent[a].burst
          /\ \A r \in Raisers :
               raiser[r].alert = a =>
                 /\ raiser[r].pc = "total" => T1 <= raiser[r].reg
                 /\ raiser[r].pc = "burst" => B1 <= raiser[r].reg
                 /\ alone[r] /\ raiser[r].pc = "last" => T1 + 1 <= sent[a].total
                 /\ alone[r] /\ raiser[r].pc \in {"total", "last"} => B1 + 1 <= sent[a].burst
      BY <2>1, <2>2, <2>3, <3>1, <3>2
    <3> QED
      BY <1>1, <3>3 DEF Covered, T1, B1
  <2>5. RoomAt(a, now) => RoomAt(a, now')
    <3>1. RoomAt(a, now) <=> /\ T + 1 <= l.rate
                             /\ B + 1 <= l.burst \/ Recent(counted, a, now - BurstUnit(l)) = {}
      BY DEF RoomAt
    <3>2. RoomAt(a, now') <=>
            /\ T1 + 1 <= l.rate
            /\ B1 + 1 <= l.burst \/ Recent(counted, a, now' - BurstUnit(l)) = {}
      BY DEF RoomAt
    <3> HIDE DEF T, B, T1, B1
    <3> QED
      BY <2>1, <2>2, <2>3, <3>1, <3>2
  <2> QED
    BY <2>4, <2>5
<1>7. ASSUME NEW r \in Raisers PROVE HasRoom(r)'
  <2> DEFINE a == raiser[r].alert
             x == IF raiser[r].pc = "stamp" THEN now ELSE raiser[r].tm
  <2>1. SUFFICES ASSUME alone[r], raiser[r].pc \in Counting
                 PROVE  RoomAt(a, IF raiser[r].pc = "stamp" THEN now' ELSE raiser[r].tm)
    BY <1>1 DEF HasRoom, RoomAt
  <2>2. a \in alert_ref_map
    BY <2>1 DEF LimitsInv, Registered
  <2>3. RoomAt(a, x)
    BY <2>1 DEF LimitsInv, HasRoom
  <2> QED
    BY <1>6, <2>2, <2>3
<1> QED
  BY <1>1, <1>4, <1>5, <1>6, <1>7 DEF LimitsInv

\* A definition or an activation leaves the limits of the registered alerts.
LEMMA DefineHolds ==
  ASSUME TypeOK, LimitsInv, NEW a \in Alerts,
         UNCHANGED <<now, countVars, raiseVars>>,
         \A b \in alert_ref_map : alert_conf_map'[b] = alert_conf_map[b],
         \/ alert_ref_map' = alert_ref_map
         \/ /\ alert_ref_map' = alert_ref_map \cup {a} /\ a \notin alert_ref_map
            /\ alert_conf_map'[a].burst_unit <= alert_conf_map'[a].unit
  PROVE  LimitsInv'
<1>1. UNCHANGED <<now, sent, time_last, raiser, alone, counted>>
  BY DEF countVars, raiseVars
<1>2. alert_ref_map \subseteq alert_ref_map'
  OBVIOUS
<1>3. Registered'
  BY <1>1, <1>2 DEF LimitsInv, Registered
<1>4. Ordered' /\ Apart'
  BY <1>1 DEF LimitsInv, Ordered, Stamped, Apart
<1>5. ASSUME NEW b \in alert_ref_map PROVE Covered(b)'
  BY <1>1, <1>5 DEF LimitsInv, Covered
<1>6. ASSUME a \notin alert_ref_map, a \in alert_ref_map' PROVE Covered(a)'
  <2>1. \A x : Recent(counted, a, x) = {}
    BY <1>6 DEF LimitsInv, Registered, Recent
  <2>2. \A x : Cardinality(Recent(counted, a, x)) = 0
    BY <2>1, FS_EmptySet
  <2>3. sent[a].burst \in Nat /\ sent[a].total \in Nat /\ \A r \in Raisers : raiser[r].reg \in Nat
    BY DEF TypeOK
  <2>4. \A r \in Raisers : raiser[r].alert = a => raiser[r].pc \notin Counting
    BY <1>6 DEF LimitsInv, Registered
  <2> QED
    BY <1>1, <2>2, <2>3, <2>4 DEF Covered, Counting
<1>7. ASSUME NEW r \in Raisers PROVE HasRoom(r)'
  <2>1. raiser[r].pc \in Counting => raiser[r].alert \in alert_ref_map
    BY DEF LimitsInv, Registered
  <2> QED
    BY <1>1, <2>1 DEF LimitsInv, HasRoom, RoomAt
<1>8. ASSUME NEW i \in DOMAIN counted PROVE Held(i)'
  <2>1. counted[i].alert \in alert_ref_map
    BY DEF LimitsInv, Registered
  <2> QED
    BY <1>1, <2>1 DEF LimitsInv, Held
<1> QED
  BY <1>1, <1>3, <1>4, <1>5, <1>6, <1>7, <1>8 DEF LimitsInv

\* A check that lets nothing through disturbs the raises under way.
LEMMA CheckHolds ==
  ASSUME TypeOK, LimitsInv, NEW a \in alert_ref_map, check_times(a), Overlap(InFlight(a)),
         UNCHANGED <<now, defVars, time_last, raiser, counted>>
  PROVE  LimitsInv'
<1>1. /\ UNCHANGED <<now, alert_conf_map, alert_ref_map, time_last, raiser, counted>>
      /\ alert_ref_map \subseteq Alerts
  BY UnitsTyped DEF defVars, LimitsInv
<1>2. \A r \in Raisers : /\ alone'[r] => alone[r]
                         /\ raiser[r].alert = a /\ raiser[r].pc \in Counting => ~alone'[r]
  BY DEF Overlap, InFlight
<1>3. Registered' /\ Ordered'
  BY <1>1 DEF LimitsInv, Registered, Ordered, Stamped
<1>4. Apart'
  BY <1>1, <1>2 DEF LimitsInv, Apart
<1>5. ASSUME NEW b \in alert_ref_map, b # a PROVE Covered(b)'
  <2>1. sent'[b] = sent[b]
    BY <1>1, <1>5, CheckCovers
  <2> QED
    BY <1>1, <1>2, <2>1 DEF LimitsInv, Covered
<1>6. Covered(a)'
  <2>1. /\ Cardinality(Recent(counted, a, now - Unit(alert_conf_map[a]))) <= sent'[a].total
        /\ Cardinality(Recent(counted, a, now - BurstUnit(alert_conf_map[a]))) <= sent'[a].burst
    BY CheckCovers
  <2> QED
    BY <1>1, <1>2, <2>1 DEF LimitsInv, Covered, Counting
<1>7. (\A r \in Raisers : HasRoom(r)') /\ (\A i \in DOMAIN counted : Held(i)')
  BY <1>1, <1>2 DEF LimitsInv, HasRoom, RoomAt, Held
<1> QED
  BY <1>1, <1>3, <1>4, <1>5, <1>6, <1>7 DEF LimitsInv

\* A raise that is let through found room and nobody else under way.
LEMMA RaiseHolds ==
  ASSUME TypeOK, LimitsInv, NEW r \in Raisers, NEW a \in Alerts, raise_alert(r, a)
  PROVE  LimitsInv'
<1>1. /\ UNCHANGED <<now, alert_conf_map, alert_ref_map, time_last, counted>>
      /\ a \in alert_ref_map /\ check_times(a) /\ raiser[r].pc = "idle"
  BY DEF raise_alert, defVars
<1>2. CASE ~Allowed(a)
  <2>1. Overlap(InFlight(a)) /\ UNCHANGED <<now, defVars, time_last, raiser, counted>>
    BY <1>2 DEF raise_alert
  <2> QED
    BY <1>1, <2>1, CheckHolds
<1>3. CASE Allowed(a)
  <2>1. /\ raiser' = [raiser EXCEPT ![r] = [pc |-> "stamp", alert |-> a, tm |-> 0, reg |-> 0]]
        /\ Overlap(IF InFlight(a) = {} THEN {} ELSE InFlight(a) \cup {r})
    BY <1>3 DEF raise_alert, Raiser
  <2>2. /\ DOMAIN raiser = Raisers /\ now \in Nat
    BY DEF TypeOK
  <2>3. /\ raiser'[r].pc = "stamp" /\ raiser'[r].alert = a /\ raiser'[r].tm = 0
        /\ \A q \in Raisers : q # r => raiser'[q] = raiser[q]
    BY <2>1, <2>2
  <2>4. \A q \in Raisers : /\ alone'[q] => alone[q]
                           /\ q \in InFlight(a) => ~alone'[q]
                           /\ InFlight(a) # {} => ~alone'[r]
    BY <2>1 DEF Overlap
  <2>5. \A q \in Raisers : raiser[q].alert = a /\ raiser[q].pc \in Counting => q \in InFlight(a)
    BY DEF InFlight
  <2>6. Registered'
    BY <1>1, <2>3 DEF LimitsInv, Registered
  <2>7. Ordered'
    BY <1>1, <2>2, <2>3 DEF LimitsInv, Ordered, Stamped
  <2>8. Apart'
    <3> SUFFICES ASSUME NEW p \in Raisers, NEW q \in Raisers, p # q,
                        raiser'[p].alert = raiser'[q].alert,
                        raiser'[p].pc \in Counting, raiser'[q].pc \in Counting
                 PROVE  ~alone'[p] /\ ~alone'[q]
      BY DEF Apart
    <3>1. CASE p # r /\ q # r
      BY <2>3, <2>4, <3>1 DEF LimitsInv, Apart
    <3>2. CASE p = r
      BY <2>3, <2>4, <2>5, <3>2
    <3>3. CASE q = r
      BY <2>3, <2>4, <2>5, <3>3
    <3> QED
      BY <3>1, <3>2, <3>3
  <2>9. ASSUME NEW b \in alert_ref_map PROVE Covered(b)'
    <3> DEFINE T == Cardinality(Recent(counted, b, now - Unit(alert_conf_map[b])))
               B == Cardinality(Recent(counted, b, now - BurstUnit(alert_conf_map[b])))
    <3>1. T <= sent'[b].total /\ B <= sent'[b].burst
      <4>1. CASE b = a
        BY <1>1, <4>1, CheckCovers
      <4>2. CASE b # a
        <5>1. sent'[b] = sent[b]
          BY <1>1, <4>2, CheckCovers, UnitsTyped DEF LimitsInv
        <5> QED
          BY <5>1 DEF LimitsInv, Covered
      <4> QED
        BY <4>1, <4>2
    <3>2. ASSUME NEW q \in Raisers, raiser'[q].alert = b
          PROVE  /\ raiser'[q].pc = "total" => T <= raiser'[q].reg
                 /\ raiser'[q].pc = "burst" => B <= raiser'[q].reg
                 /\ alone'[q] /\ raiser'[q].pc = "last" => T + 1 <= sent'[b].total
                 /\ alone'[q] /\ raiser'[q].pc \in {"total", "last"} => B + 1 <= sent'[b].burst
      <4>1. CASE q = r
        BY <2>3, <4>1
      <4>2. CASE q # r
        <5>1. raiser'[q] = raiser[q] /\ raiser[q].alert = b
          BY <2>3, <3>2, <4>2
        <5>2. /\ raiser[q].pc = "total" => T <= raiser[q].reg
              /\ raiser[q].pc = "burst" => B <= raiser[q].reg
              /\ alone[q] /\ raiser[q].pc = "last" => T + 1 <= sent[b].total
              /\ alone[q] /\ raiser[q].pc \in {"total", "last"} => B + 1 <= sent[b].burst
          BY <5>1 DEF LimitsInv, Covered
        <5>3. CASE b = a
          BY <2>4, <2>5, <5>1, <5>2, <5>3 DEF Counting
        <5>4. CASE b # a
          <6>1. sent'[b] = sent[b]
            BY <1>1, <5>4, CheckCovers, UnitsTyped DEF LimitsInv
          <6> QED
            BY <2>4, <5>1, <5>2, <6>1
        <5> QED
          BY <5>3, <5>4
      <4> QED
        BY <4>1, <4>2
    <3> QED
      BY <1>1, <3>1, <3>2 DEF Covered
  <2>10. ASSUME NEW q \in Raisers PROVE HasRoom(q)'
    <3>1. CASE q = r
      <4>1. RoomAt(a, now)
        BY <1>1, <1>3, CheckCovers
      <4> QED
        BY <1>1, <2>3, <3>1, <4>1 DEF HasRoom, RoomAt
    <3>2. CASE q # r
      BY <1>1, <2>3, <2>4, <3>2 DEF LimitsInv, HasRoom, RoomAt
    <3> QED
      BY <3>1, <3>2
  <2>11. \A i \in DOMAIN counted : Held(i)'
    BY <1>1 DEF LimitsInv, Held
  <2> QED
    BY <1>1, <2>6, <2>7, <2>8, <2>9, <2>10, <2>11 DEF LimitsInv
<1> QED
  BY <1>2, <1>3

\* The steps of a raise that leave the counters.
LEMMA MoveHolds ==
  ASSUME TypeOK, LimitsInv, NEW r \in Raisers,
         Stamp(r) \/ LoadBurst(r) \/ raise_one_shot(r) \/ Publish(r)
  PROVE  LimitsInv'
<1>1. /\ UNCHANGED <<now, alert_conf_map, alert_ref_map, sent, time_last, alone, counted>>
      /\ now \in Nat /\ DOMAIN raiser = Raisers
  BY DEF Stamp, LoadBurst, raise_one_shot, Publish, defVars, countVars, TypeOK
<1>2. /\ \A q \in Raisers : q # r => raiser'[q] = raiser[q]
      /\ \/ /\ raiser[r].pc = "stamp" /\ raiser'[r].pc = "load"
            /\ raiser'[r].alert = raiser[r].alert /\ raiser'[r].tm = now
         \/ /\ raiser[r].pc = "load" /\ raiser'[r].pc = "burst"
            /\ raiser'[r].alert = raiser[r].alert /\ raiser'[r].tm = raiser[r].tm
            /\ raiser'[r].reg = sent[raiser[r].alert].burst
         \/ raiser'[r].pc \in {"push", "idle"} /\ raiser'[r].tm <= now
  <2>1. CASE Stamp(r)
    BY <1>1, <2>1 DEF Stamp
  <2>2. CASE LoadBurst(r)
    BY <1>1, <2>2 DEF LoadBurst
  <2>3. CASE raise_one_shot(r)
    BY <1>1, <2>3 DEF raise_one_shot, Raiser
  <2>4. CASE Publish(r)
    BY <1>1, <2>4 DEF Publish, Idle, Raiser
  <2> QED
    BY <2>1, <2>2, <2>3, <2>4
<1>3. Registered'
  BY <1>1, <1>2 DEF LimitsInv, Registered, Counting
<1>4. Ordered'
  BY <1>1, <1>2 DEF LimitsInv, Ordered, Stamped, Counting
<1>5. Apart'
  BY <1>1, <1>2 DEF LimitsInv, Apart, Counting
<1>6. ASSUME NEW a \in alert_ref_map PROVE Covered(a)'
  BY <1>1, <1>2 DEF LimitsInv, Covered
<1>7. ASSUME NEW q \in Raisers PROVE HasRoom(q)'
  <2>1. CASE q # r
    BY <1>1, <1>2, <2>1 DEF LimitsInv, HasRoom, RoomAt
  <2>2. CASE q = r
    <3>1. alone[r] /\ raiser[r].pc \in Counting =>
            RoomAt(raiser[r].alert, IF raiser[r].pc = "stamp" THEN now ELSE raiser[r].tm)
      BY DEF LimitsInv, HasRoom
    <3> QED
      BY <1>1, <1>2, <2>2, <3>1 DEF HasRoom, RoomAt, Counting
  <2> QED
    BY <2>1, <2>2
<1>8. \A i \in DOMAIN counted : Held(i)'
  BY <1>1 DEF LimitsInv, Held
<1> QED
  BY <1>1, <1>3, <1>4, <1>5, <1>6, <1>7, <1>8 DEF LimitsInv

\* The two stores write more than any undisturbed alert needs.
LEMMA StoreHolds ==
  ASSUME TypeOK, LimitsInv, NEW r \in Raisers, StoreBurst(r) \/ StoreTotal(r)
  PROVE  LimitsInv'
<1>a. PICK a : a = raiser[r].alert
  OBVIOUS
<1> DEFINE l == alert_conf_map[a]
           T == Cardinality(Recent(counted, a, now - Unit(l)))
           B == Cardinality(Recent(counted, a, now - BurstUnit(l)))
<1>1. /\ UNCHANGED <<now, alert_conf_map, alert_ref_map, time_last, alone, counted>>
      /\ raiser[r].pc \in {"burst", "total"} /\ DOMAIN raiser = Raisers
  BY DEF StoreBurst, StoreTotal, defVars, TypeOK
<1>2. /\ a \in alert_ref_map /\ a \in Alerts
      /\ sent \in [Alerts -> [burst : Nat, total : Nat]]
      /\ \A q \in Raisers : raiser[q].reg \in Nat
  BY <1>a, <1>1, UnitsTyped DEF LimitsInv, Registered, Counting, TypeOK
<1>3. T \in Nat /\ B \in Nat
  <2>1. counted \in Seq(Count)
    BY DEF TypeOK, Count
  <2> QED
    BY <2>1, RecentFinite
<1>4. /\ T <= sent[a].total /\ B <= sent[a].burst
      /\ \A q \in Raisers :
           raiser[q].alert = a =>
             /\ raiser[q].pc = "total" => T <= raiser[q].reg
             /\ raiser[q].pc = "burst" => B <= raiser[q].reg
             /\ alone[q] /\ raiser[q].pc = "last" => T + 1 <= sent[a].total
             /\ alone[q] /\ raiser[q].pc \in {"total", "last"} => B + 1 <= sent[a].burst
  BY <1>2 DEF LimitsInv, Covered
<1>5. /\ \A q \in Raisers : q # r => raiser'[q] = raiser[q]
      /\ raiser'[r].alert = a /\ raiser'[r].tm = raiser[r].tm
      /\ \A b \in Alerts : b # a => sent'[b] = sent[b]
      /\ \/ /\ raiser[r].pc = "burst" /\ raiser'[r].pc = "total"
            /\ raiser'[r].reg = sent[a].total
            /\ sent'[a].burst = raiser[r].reg + 1 /\ sent'[a].total = sent[a].total
         \/ /\ raiser[r].pc = "total" /\ raiser'[r].pc = "last"
            /\ sent'[a].total = raiser[r].reg + 1 /\ sent'[a].burst = sent[a].burst
  <2>1. CASE StoreBurst(r)
    BY <1>a, <1>1, <1>2, <2>1 DEF StoreBurst
  <2>2. CASE StoreTotal(r)
    BY <1>a, <1>1, <1>2, <2>2 DEF StoreTotal
  <2> QED
    BY <2>1, <2>2
<1>6. /\ raiser'[r].pc \in Counting \ {"stamp"} /\ raiser[r].pc \in Counting \ {"stamp"}
  BY <1>5 DEF Counting
<1>7. Registered' /\ Ordered'
  BY <1>a, <1>1, <1>5, <1>6 DEF LimitsInv, Registered, Ordered, Stamped
<1>8. Apart'
  BY <1>a, <1>1, <1>5, <1>6 DEF LimitsInv, Apart
<1>9. ASSUME NEW b \in alert_ref_map, b # a PROVE Covered(b)'
  <2>1. b \in Alerts
    BY UnitsTyped DEF LimitsInv
  <2>2. sent'[b] = sent[b]
    BY <1>5, <1>9, <2>1
  <2>3. \A q \in Raisers : raiser'[q].alert = b => raiser'[q] = raiser[q]
    BY <1>5, <1>9
  <2> QED
    BY <1>1, <2>2, <2>3 DEF LimitsInv, Covered
<1>10. Covered(a)'
  <2> HIDE DEF T, B, l
  <2>1. T <= sent'[a].total /\ B <= sent'[a].burst
    BY <1>a, <1>2, <1>3, <1>4, <1>5
  <2>2. ASSUME NEW q \in Raisers, raiser'[q].alert = a
        PROVE  /\ raiser'[q].pc = "total" => T <= raiser'[q].reg
               /\ raiser'[q].pc = "burst" => B <= raiser'[q].reg
               /\ alone[q] /\ raiser'[q].pc = "last" => T + 1 <= sent'[a].total
               /\ alone[q] /\ raiser'[q].pc \in {"total", "last"} => B + 1 <= sent'[a].burst
    <3>1. CASE q = r
      BY <1>a, <1>2, <1>3, <1>4, <1>5, <3>1
    <3>2. CASE q # r
      <4>1. raiser'[q] = raiser[q] /\ raiser[q].alert = a
        BY <1>5, <2>2, <3>2
      <4>2. raiser[q].pc \in Counting => ~alone[q]
        BY <1>a, <1>6, <3>2, <4>1 DEF LimitsInv, Apart
      <4> QED
        BY <1>4, <4>1, <4>2 DEF Counting
    <3> QED
      BY <3>1, <3>2
  <2> QED
    BY <1>1, <2>1, <2>2 DEF Covered, T, B, l
<1>11. ASSUME NEW q \in Raisers PROVE HasRoom(q)'
  <2>1. CASE q # r
    BY <1>1, <1>5, <2>1 DEF LimitsInv, HasRoom, RoomAt
  <2>2. CASE q = r
    <3>1. alone[r] => RoomAt(a, raiser[r].tm)
      BY <1>a, <1>6 DEF LimitsInv, HasRoom
    <3> QED
      BY <1>1, <1>5, <1>6, <2>2, <3>1 DEF HasRoom, RoomAt
  <2> QED
    BY <2>1, <2>2
<1>12. \A i \in DOMAIN counted : Held(i)'
  BY <1>1 DEF LimitsInv, Held
<1> QED
  BY <1>1, <1>7, <1>8, <1>9, <1>10, <1>11, <1>12 DEF LimitsInv

\* An alert that is counted fits the windows it ends.
LEMMA CountHolds ==
  ASSUME TypeOK, LimitsInv, NEW r \in Raisers, SetTimeLast(r)
  PROVE  LimitsInv'
<1> DEFINE a == raiser[r].alert
           t == raiser[r].tm
           e == [alert |-> a, at |-> t, alone |-> alone[r]]
           n == Len(counted)
<1>1. /\ UNCHANGED <<now, alert_conf_map, alert_ref_map, sent>>
      /\ raiser[r].pc = "last" /\ DOMAIN raiser = Raisers
      /\ counted' = Append(counted, e)
      /\ raiser' = [raiser EXCEPT ![r].pc = "push"]
      /\ time_last' = [time_last EXCEPT ![a] = t]
      /\ alone' = [alone EXCEPT ![r] = TRUE]
  BY DEF SetTimeLast, defVars, TypeOK
<1>2. /\ a \in alert_ref_map /\ a \in Alerts /\ t \in Nat /\ now \in Nat
      /\ time_last \in [Alerts -> Nat] /\ alone \in [Raisers -> BOOLEAN]
      /\ counted \in Seq(Count)
  BY <1>1, UnitsTyped DEF LimitsInv, Registered, Counting, TypeOK, Count
<1>3. e \in Count
  BY <1>2 DEF Count
<1>4. /\ n \in Nat /\ DOMAIN counted = 1 .. n /\ DOMAIN counted' = 1 .. (n + 1)
      /\ \A i \in 1 .. n : counted'[i] = counted[i]
      /\ counted'[n + 1] = e
  BY <1>1, <1>2, <1>3, AppendStamp
<1>5. /\ \A q \in Raisers : q # r => raiser'[q] = raiser[q] /\ alone'[q] = alone[q]
      /\ raiser'[r].pc = "push" /\ raiser'[r].alert = a /\ raiser'[r].tm = t
      /\ time_last'[a] = t /\ \A b \in Alerts : b # a => time_last'[b] = time_last[b]
  BY <1>1, <1>2
<1>6. /\ e.alert = a /\ e.at = t /\ e.alone = alone[r]
      /\ \A i \in DOMAIN counted : counted[i].alert \in Alerts /\ counted[i].at \in Nat
  <2>1. \A i \in DOMAIN counted : counted[i] \in Count
    BY <1>2
  <2> QED
    BY <2>1 DEF Count
<1>7. ASSUME alone[r], NEW q \in Raisers, q # r, raiser[q].alert = a PROVE raiser[q].pc \notin Counting
  BY <1>1, <1>7 DEF LimitsInv, Apart, Counting
<1>8. t <= now
  BY DEF LimitsInv, Ordered
<1>9. ASSUME NEW j \in DOMAIN counted, counted[j].alone, counted[j].alert = a
      PROVE  counted[j].at <= t
  BY <1>1, <1>9 DEF LimitsInv, Ordered, Stamped, Counting
<1> HIDE DEF e, n, a, t
<1>10. Registered'
  BY <1>1, <1>2, <1>4, <1>5, <1>6 DEF LimitsInv, Registered, Counting
<1>11. Ordered'
  <2>1. \A q \in Raisers : raiser'[q].tm <= now
    BY <1>5, <1>8 DEF LimitsInv, Ordered
  <2>2. ASSUME NEW j \in 1 .. n
        PROVE  /\ counted[j].at <= now
               /\ counted[j].alone =>
                    /\ counted[j].at <= time_last'[counted[j].alert]
                    /\ \A q \in Raisers :
                         /\ raiser'[q].pc \in Counting \ {"stamp"}
                         /\ raiser'[q].alert = counted[j].alert
                         => counted[j].at <= raiser'[q].tm
    <3>1. /\ counted[j].at <= now
          /\ counted[j].alone =>
               /\ counted[j].at <= time_last[counted[j].alert]
               /\ \A q \in Raisers :
                    raiser[q].pc \in Counting \ {"stamp"} /\ raiser[q].alert = counted[j].alert
                    => counted[j].at <= raiser[q].tm
      BY <1>4 DEF LimitsInv, Ordered, Stamped
    <3>2. raiser'[r].pc \notin Counting
      BY <1>5 DEF Counting
    <3> QED
      BY <1>4, <1>5, <1>6, <1>9, <3>1, <3>2
  <2>3. /\ e.at <= now
        /\ e.alone => /\ e.at <= time_last'[e.alert]
                      /\ \A q \in Raisers :
                           /\ raiser'[q].pc \in Counting \ {"stamp"} /\ raiser'[q].alert = e.alert
                           => e.at <= raiser'[q].tm
    <3>1. raiser'[r].pc \notin Counting
      BY <1>5 DEF Counting
    <3> QED
      BY <1>2, <1>5, <1>6, <1>7, <1>8, <3>1
  <2> QED
    BY <1>1, <1>4, <2>1, <2>2, <2>3 DEF Ordered, Stamped
<1>12. Apart'
  BY <1>5 DEF LimitsInv, Apart, Counting
<1>13. ASSUME NEW b, NEW x \in Int
       PROVE  /\ Cardinality(Recent(counted', b, x)) <= Cardinality(Recent(counted, b, x)) + 1
              /\ ~alone[r] \/ b # a => Recent(counted', b, x) = Recent(counted, b, x)
              /\ Cardinality(Recent(counted', b, x)) \in Nat
              /\ Cardinality(Recent(counted, b, x)) \in Nat
  <2>1. counted' \in Seq(Count)
    BY <1>1, <1>2, <1>3, AppendStamp
  <2> QED
    BY <1>1, <1>2, <1>3, <1>6, <2>1, RecentAppend, RecentFinite
<1>14. ASSUME NEW b \in alert_ref_map PROVE Covered(b)'
  <2> DEFINE l == alert_conf_map[b]
             T == Cardinality(Recent(counted, b, now - Unit(l)))
             B == Cardinality(Recent(counted, b, now - BurstUnit(l)))
             T1 == Cardinality(Recent(counted', b, now - Unit(l)))
             B1 == Cardinality(Recent(counted', b, now - BurstUnit(l)))
  <2>1. /\ T <= sent[b].total /\ B <= sent[b].burst
        /\ \A q \in Raisers :
             raiser[q].alert = b =>
               /\ raiser[q].pc = "total" => T <= raiser[q].reg
               /\ raiser[q].pc = "burst" => B <= raiser[q].reg
               /\ alone[q] /\ raiser[q].pc = "last" => T + 1 <= sent[b].total
               /\ alone[q] /\ raiser[q].pc \in {"total", "last"} => B + 1 <= sent[b].burst
    BY DEF LimitsInv, Covered
  <2>2. now - Unit(l) \in Int /\ now - BurstUnit(l) \in Int
    BY <1>2, UnitsTyped DEF LimitsInv
  <2>3. /\ T1 <= T + 1 /\ B1 <= B + 1 /\ T \in Nat /\ B \in Nat /\ T1 \in Nat /\ B1 \in Nat
        /\ ~alone[r] \/ b # a => T1 = T /\ B1 = B
    BY <1>13, <2>2
  <2>4. sent[b].total \in Nat /\ sent[b].burst \in Nat
    BY UnitsTyped DEF LimitsInv
  <2> HIDE DEF T, B, T1, B1, l
  <2>5. T1 <= sent[b].total /\ B1 <= sent[b].burst
    <3>1. CASE ~alone[r] \/ b # a
      BY <2>1, <2>3, <3>1
    <3>2. CASE alone[r] /\ b = a
      <4>1. T + 1 <= sent[b].total /\ B + 1 <= sent[b].burst
        BY <1>1, <2>1, <3>2 DEF a
      <4> QED
        BY <2>3, <2>4, <4>1
    <3> QED
      BY <3>1, <3>2
  <2>6. ASSUME NEW q \in Raisers, raiser'[q].alert = b
        PROVE  /\ raiser'[q].pc = "total" => T1 <= raiser'[q].reg
               /\ raiser'[q].pc = "burst" => B1 <= raiser'[q].reg
               /\ alone'[q] /\ raiser'[q].pc = "last" => T1 + 1 <= sent[b].total
               /\ alone'[q] /\ raiser'[q].pc \in {"total", "last"} => B1 + 1 <= sent[b].burst
    <3>1. CASE q = r
      BY <1>5, <3>1
    <3>2. CASE q # r
      <4>1. raiser'[q] = raiser[q] /\ alone'[q] = alone[q] /\ raiser[q].alert = b
        BY <1>5, <2>6, <3>2
      <4>2. CASE ~alone[r] \/ b # a
        BY <2>1, <2>3, <4>1, <4>2
      <4>3. CASE alone[r] /\ b = a
        BY <1>7, <3>2, <4>1, <4>3 DEF Counting
      <4> QED
        BY <4>2, <4>3
    <3> QED
      BY <3>1, <3>2
  <2> QED
    BY <1>1, <2>5, <2>6 DEF Covered, T1, B1, l
<1>15. ASSUME NEW q \in Raisers PROVE HasRoom(q)'
  <2>1. CASE q = r
    BY <1>5, <2>1 DEF HasRoom, Counting
  <2>2. CASE q # r
    <3> DEFINE b == raiser[q].alert
               x == IF raiser[q].pc = "stamp" THEN now ELSE raiser[q].tm
               l == alert_conf_map[b]
    <3>1. SUFFICES ASSUME alone[q], raiser[q].pc \in Counting PROVE RoomAt(b, x)'
      BY <1>1, <1>5, <2>2 DEF HasRoom
    <3>2. b \in alert_ref_map /\ RoomAt(b, x)
      BY <3>1 DEF LimitsInv, Registered, HasRoom
    <3>3. ~alone[r] \/ b # a
      BY <1>7, <2>2, <3>1
    <3>4. x \in Int
      BY <1>2 DEF TypeOK
    <3>5. x - Unit(l) \in Int /\ x - BurstUnit(l) \in Int
      BY <3>2, <3>4, UnitsTyped DEF LimitsInv
    <3>6. /\ Recent(counted', b, x - Unit(l)) = Recent(counted, b, x - Unit(l))
          /\ Recent(counted', b, x - BurstUnit(l)) = Recent(counted, b, x - BurstUnit(l))
      BY <1>13, <3>3, <3>5
    <3>7. b' = b /\ x' = x /\ l' = l
      BY <1>1, <1>5, <2>2
    <3> HIDE DEF b, x
    <3> QED
      BY <1>1, <3>2, <3>6, <3>7 DEF RoomAt
  <2> QED
    BY <2>1, <2>2
<1>16. ASSUME alone[r] PROVE RoomAt(a, t)
  BY <1>1, <1>16 DEF LimitsInv, HasRoom, Counting, a, t
<1>17. ASSUME NEW i \in DOMAIN counted' PROVE Held(i)'
  <2> DEFINE b == counted'[i].alert
             l == alert_conf_map[b]
             at == counted'[i].at
             In(length) == Cardinality(AloneIn(counted', b, at, length))
  <2>1. SUFFICES ASSUME counted'[i].alone
                 PROVE  /\ In(Unit(l)) <= l.rate
                        /\ In(BurstUnit(l)) <= l.burst \/ In(BurstUnit(l)) = 1
    BY <1>1 DEF Held
  <2>2. b \in alert_ref_map /\ at \in Nat
    BY <1>1, <1>2, <1>4, <1>6, <1>10 DEF Registered
  <2>3. /\ l.rate \in Nat /\ l.burst \in Nat /\ Unit(l) \in Nat \ {0} /\ BurstUnit(l) \in Nat \ {0}
    BY <2>2, UnitsTyped DEF LimitsInv
  <2>4. CASE ~alone[r] \/ a # b \/ at < t
    <3>1. i \in DOMAIN counted /\ counted'[i] = counted[i]
      BY <1>4, <1>6, <2>1, <2>2, <2>4
    <3>2. \A u \in Nat \ {0} : AloneIn(counted', b, at, u) = AloneIn(counted, b, at, u)
      BY <1>1, <1>2, <1>3, <1>6, <2>2, <2>4, AloneInAppend
    <3>3. counted[i].alone /\ b = counted[i].alert /\ at = counted[i].at
      BY <2>1, <3>1
    <3>4. /\ Cardinality(AloneIn(counted, b, at, Unit(l))) <= l.rate
          /\ \/ Cardinality(AloneIn(counted, b, at, BurstUnit(l))) <= l.burst
             \/ Cardinality(AloneIn(counted, b, at, BurstUnit(l))) = 1
      BY <3>1, <3>3 DEF LimitsInv, Held
    <3> QED
      BY <2>3, <3>2, <3>4
  <2>5. CASE alone[r] /\ a = b /\ ~ (at < t)
    <3>1. at = t
      <4>1. CASE i = n + 1
        BY <1>4, <1>6, <4>1
      <4>2. CASE i # n + 1
        <5>1. i \in DOMAIN counted /\ counted'[i] = counted[i]
          BY <1>4, <4>2
        <5>2. at <= t
          BY <1>9, <2>1, <2>5, <5>1
        <5> QED
          BY <1>2, <2>2, <2>5, <5>2
      <4> QED
        BY <4>1, <4>2
    <3> DEFINE R == Recent(counted, a, t - Unit(l))
               S == Recent(counted, a, t - BurstUnit(l))
    <3>2. Cardinality(R) + 1 <= l.rate /\ (Cardinality(S) + 1 <= l.burst \/ S = {})
      BY <1>16, <2>5 DEF RoomAt
    <3>3. /\ In(Unit(l)) <= Cardinality(R) + 1 /\ In(BurstUnit(l)) <= Cardinality(S) + 1
          /\ S = {} => In(BurstUnit(l)) = 1
      <4>1. ASSUME NEW u \in Nat \ {0}
            PROVE  /\ Cardinality(AloneIn(counted', a, t, u))
                        <= Cardinality(Recent(counted, a, t - u)) + 1
                   /\ Recent(counted, a, t - u) = {}
                        => Cardinality(AloneIn(counted', a, t, u)) = 1
        <5>1. /\ Cardinality(AloneIn(Append(counted, e), a, t, u))
                   <= Cardinality(Recent(counted, a, t - u)) + 1
              /\ e.alone /\ e.alert = a /\ e.at = t /\ Recent(counted, a, t - u) = {}
                   => Cardinality(AloneIn(Append(counted, e), a, t, u)) = 1
          BY <1>2, <1>3, AloneInAppend
        <5>2. e.alone /\ e.alert = a /\ e.at = t
          BY <1>6, <2>5
        <5> QED
          BY <1>1, <5>1, <5>2
      <4>2. \A u : In(u) = Cardinality(AloneIn(counted', a, t, u))
        BY <2>5, <3>1
      <4> HIDE DEF In
      <4> QED
        BY <2>3, <4>1, <4>2
    <3>4. Cardinality(R) \in Nat /\ Cardinality(S) \in Nat
      BY <1>2, RecentFinite
    <3>5. In(Unit(l)) \in Nat /\ In(BurstUnit(l)) \in Nat
      <4>1. counted' \in Seq(Count)
        BY <1>1, <1>2, <1>3, AppendStamp
      <4>2. ASSUME NEW u PROVE In(u) \in Nat
        <5>1. IsFiniteSet(Recent(counted', b, at - u))
          BY <4>1, RecentFinite
        <5>2. AloneIn(counted', b, at, u) \subseteq Recent(counted', b, at - u)
          BY DEF AloneIn
        <5> QED
          BY <5>1, <5>2, FS_Subset, FS_CardinalityType
      <4> QED
        BY <4>2
    <3> HIDE DEF In, R, S
    <3> QED
      BY <2>3, <3>2, <3>3, <3>4, <3>5
  <2> QED
    BY <2>4, <2>5
<1> QED
  BY <1>1, <1>10, <1>11, <1>12, <1>14, <1>15, <1>17 DEF LimitsInv

\* Every step keeps the inductive invariant.
LEMMA StepHolds == TypeOK /\ LimitsInv /\ [Next]_vars => LimitsInv'
<1> SUFFICES ASSUME TypeOK, LimitsInv, [Next]_vars PROVE LimitsInv'
  OBVIOUS
<1>1. CASE Tick
  BY <1>1, TickHolds
<1>2. ASSUME NEW a \in Alerts, NEW l \in Limits, define_alert(a, l) PROVE LimitsInv'
  <2>1. alert_conf_map' = [x \in DOMAIN alert_conf_map \cup {a} |->
                             IF x = a THEN l ELSE alert_conf_map[x]]
    BY <1>2 DEF define_alert
  <2>2. \A x \in DOMAIN alert_conf_map : x # a => alert_conf_map'[x] = alert_conf_map[x]
    BY <2>1, ConfExtended
  <2>3. /\ alert_ref_map \subseteq DOMAIN alert_conf_map /\ a \notin DOMAIN alert_conf_map
        /\ UNCHANGED <<now, countVars, raiseVars, alert_ref_map>>
    BY <1>2 DEF define_alert, TypeOK
  <2> QED
    BY <2>2, <2>3, DefineHolds
<1>3. ASSUME NEW a \in Alerts, activate_configured_alert(a) PROVE LimitsInv'
  <2> DEFINE l == IF a \in DOMAIN alert_conf_map THEN alert_conf_map[a] ELSE DefaultLimit
  <2>1. l \in Limits
    BY ConfTyped, AlertAssumption
  <2>2. /\ alert_conf_map' = [x \in DOMAIN alert_conf_map \cup {a} |->
                                IF x = a THEN l ELSE alert_conf_map[x]]
        /\ a \notin alert_ref_map /\ alert_ref_map' = alert_ref_map \cup {a}
        /\ l.burst_unit <= l.unit
        /\ UNCHANGED <<now, countVars, raiseVars>>
    BY <1>3 DEF activate_configured_alert
  <2> HIDE DEF l
  <2>3. /\ \A x \in DOMAIN alert_conf_map : x # a => alert_conf_map'[x] = alert_conf_map[x]
        /\ alert_conf_map'[a] = l
    BY <2>1, <2>2, ConfExtended
  <2>4. alert_ref_map \subseteq DOMAIN alert_conf_map
    BY DEF TypeOK
  <2> QED
    BY <2>2, <2>3, <2>4, DefineHolds
<1>4. ASSUME NEW a \in Alerts, potential_alert(a) PROVE LimitsInv'
  BY <1>4, CheckHolds DEF potential_alert
<1>5. ASSUME NEW r \in Raisers, NEW a \in Alerts, raise_alert(r, a) PROVE LimitsInv'
  BY <1>5, RaiseHolds
<1>6. ASSUME NEW r \in Raisers, Stamp(r) \/ LoadBurst(r) \/ raise_one_shot(r) \/ Publish(r)
      PROVE  LimitsInv'
  BY <1>6, MoveHolds
<1>7. ASSUME NEW r \in Raisers, StoreBurst(r) \/ StoreTotal(r) PROVE LimitsInv'
  BY <1>7, StoreHolds
<1>8. ASSUME NEW r \in Raisers, SetTimeLast(r) PROVE LimitsInv'
  BY <1>8, CountHolds
<1>9. ASSUME NEW c \in Clients, StampAnswer(c) \/ FillAnswer(c) PROVE LimitsInv'
  BY <1>9, QuietHolds DEF StampAnswer, FillAnswer
<1>10. CASE UNCHANGED vars
  BY <1>10, QuietHolds DEF vars
<1> QED
  BY <1>1, <1>2, <1>3, <1>4, <1>5, <1>6, <1>7, <1>8, <1>9, <1>10 DEF Next, Define, Raise, Ask

\* The windows of LimitsHeld hold what the inductive invariant counts.
LEMMA InvGivesLimits == TypeOK /\ LimitsInv => LimitsHeld
<1> SUFFICES ASSUME TypeOK, LimitsInv, NEW i \in DOMAIN counted PROVE RateHeld(i) /\ BurstHeld(i)
  BY DEF LimitsHeld
<1> DEFINE a == counted[i].alert
           t == counted[i].at
           l == alert_conf_map[a]
<1>0. counted \in Seq(Count)
  BY DEF TypeOK, Count
<1>1. \A j \in DOMAIN counted : counted[j] \in Count
  BY <1>0
<1>2. \A j \in DOMAIN counted : counted[j].at \in Nat /\ counted[j].alone \in BOOLEAN
  BY <1>1 DEF Count
<1>3. a \in alert_ref_map
  BY DEF LimitsInv, Registered
<1>4. Unit(l) \in Nat \ {0} /\ BurstUnit(l) \in Nat \ {0}
  BY <1>3, UnitsTyped DEF LimitsInv
<1>5. ASSUME NEW secs, secs * TicksPerSec \in Nat \ {0}, ~Disturbed(Window(a, i, secs))
      PROVE  counted[i].alone /\ Window(a, i, secs) = AloneIn(counted, a, t, secs * TicksPerSec)
  <2> DEFINE u == secs * TicksPerSec
  <2>1. i \in Window(a, i, secs)
    BY <1>2, <1>5 DEF Window
  <2>2. \A j \in Window(a, i, secs) : counted[j].alone
    BY <1>5 DEF Disturbed
  <2>3. Window(a, i, secs) = AloneIn(counted, a, t, u)
    BY <2>2 DEF Window, AloneIn, Recent
  <2> QED
    BY <2>1, <2>2, <2>3
<1>6. RateHeld(i)
  <2>1. CASE ~Disturbed(Window(a, i, l.unit))
    <3>1. /\ counted[i].alone
          /\ Window(a, i, l.unit) = AloneIn(counted, a, t, Unit(l))
      BY <1>4, <1>5, <2>1 DEF Unit
    <3>2. Cardinality(AloneIn(counted, a, t, Unit(l))) <= l.rate
      BY <3>1 DEF LimitsInv, Held
    <3> QED
      BY <3>1, <3>2 DEF RateHeld
  <2> QED
    BY <2>1 DEF RateHeld
<1>7. BurstHeld(i)
  <2>1. CASE ~Disturbed(Window(a, i, l.burst_unit))
    <3>1. /\ counted[i].alone
          /\ Window(a, i, l.burst_unit) = AloneIn(counted, a, t, BurstUnit(l))
      BY <1>4, <1>5, <2>1 DEF BurstUnit
    <3>2. \/ Cardinality(AloneIn(counted, a, t, BurstUnit(l))) <= l.burst
          \/ Cardinality(AloneIn(counted, a, t, BurstUnit(l))) = 1
      BY <3>1 DEF LimitsInv, Held
    <3> QED
      BY <3>1, <3>2 DEF BurstHeld
  <2> QED
    BY <2>1 DEF BurstHeld
<1> QED
  BY <1>6, <1>7

\* Nothing is counted in the initial state.
LEMMA InitHolds == Init => LimitsInv
<1> SUFFICES ASSUME Init PROVE LimitsInv
  OBVIOUS
<1>1. /\ counted = << >> /\ alert_ref_map = {} /\ now = Start /\ Start \in Nat
      /\ raiser = [r \in Raisers |-> [pc |-> "idle", alert |-> NoAlert, tm |-> 0, reg |-> 0]]
  BY AlertAssumption DEF Init, Idle, Raiser
<1>2. \A r \in Raisers : raiser[r].pc \notin Counting /\ raiser[r].tm <= now
  BY <1>1 DEF Counting
<1> QED
  BY <1>1, <1>2 DEF LimitsInv, Registered, Ordered, Apart, HasRoom

\* LimitsHeld, for any alerts, limits, raisers and times: over every window of
\* time the rate and the burst limit of an alert hold, but for the raises that
\* overlapped another check of the same alert.
THEOREM LimitsHold == Spec => []LimitsHeld
<1>1. Init => TypeOK /\ RaisesAlert /\ LimitsInv
  BY InitHolds, InitTyped DEF Init, RaisesAlert, Idle, Raiser, Counting
<1>2. TypeOK /\ RaisesAlert /\ LimitsInv /\ [Next]_vars => TypeOK' /\ RaisesAlert' /\ LimitsInv'
  BY StepTyped, StepHolds
<1> QED
  BY <1>1, <1>2, InvGivesLimits, PTL DEF Spec

=============================================================================
