------------------------------ MODULE EventBus ------------------------------
(***************************************************************************)
(* The event bus (eventbus.cc, eventbus.h) with the conditional_locker it  *)
(* waits on (util.h): publish, the dispatcher thread, register_listener    *)
(* and remove_listener. The mutex of the queue, the mutex of the listener  *)
(* tables and the one inside event_cl are separate, and the steps between  *)
(* them are separate actions. Callbacks run on the dispatcher thread with  *)
(* no lock held: a callback that registers, removes or publishes is one    *)
(* more owner or publisher between two steps of the dispatcher.            *)
(***************************************************************************)
EXTENDS Integers, Sequences, SequencesExt, FiniteSets

CONSTANTS
  Events, ChannelOf,  \* eventbus_event and its event_id
  Publishers, Feed,   \* what each thread publishes, in order
  Timer,              \* {the timer that publishes PACKETCHAIN_STATS each
                      \* second (packetchain.cc:167)}, or {}
  Tick, TickChannel,  \* its event
  MaxTicks,           \* bound on the ticks queued while the dispatcher runs
  ChannelLists,       \* what listeners subscribe to
  MaxListeners,       \* bound on next_cbl_id
  All,                \* the channel "*"
  NoEvent, Nobody

Channels == {ChannelOf[e] : e \in Events} \cup {TickChannel, All}
Ids == 1 .. MaxListeners
Threads == Publishers \cup Timer

ASSUME EventBusAssumption ==
  /\ Feed \in [Publishers -> Seq(Events)]
  /\ Tick \notin Events /\ NoEvent \notin Events \cup {Tick}
  /\ MaxListeners \in Nat /\ MaxTicks \in Nat
  /\ ChannelLists \subseteq Seq(Channels)
  /\ \A cs \in ChannelLists : IsInjective(cs) /\ cs # <<>>
  \* "*" is asked for alone, by web sockets, and is no event's channel.
  /\ \A cs \in ChannelLists : All \in ToSet(cs) => ToSet(cs) = {All}
  /\ TickChannel # All /\ \A e \in Events : ChannelOf[e] # All
  \* An event is an object of its own.
  /\ \A p, q \in Publishers : \A i \in DOMAIN Feed[p], j \in DOMAIN Feed[q] :
       Feed[p][i] = Feed[q][j] => p = q /\ i = j
  /\ Publishers \cap Timer = {} /\ Nobody \notin Threads

VARIABLES
  mutex,              \* who holds the mutex of event_queue
  event_queue,
  locked,             \* event_cl
  spindown,
  dpc, event, workvec,      \* the dispatcher thread and its locals
  ppc, feed,                \* the publishing threads
  callback_table, callback_id_table, next_cbl_id,
  subscribed,         \* the channels each listener asked for and kept
  published,          \* the events in the order of publish
  owed, called        \* per listener: what it should be, and was, called with

vars == <<mutex, event_queue, locked, spindown, dpc, event, workvec, ppc, feed,
          callback_table, callback_id_table, next_cbl_id, subscribed,
          published, owed, called>>
tableVars == <<callback_table, callback_id_table, next_cbl_id, subscribed>>
publishVars == <<ppc, feed, published>>
callVars == <<owed, called>>

Init ==
  /\ mutex = Nobody
  /\ event_queue = <<>>
  /\ locked = TRUE
  /\ spindown = FALSE
  /\ dpc = "check" /\ event = NoEvent /\ workvec = <<>>
  /\ ppc = [p \in Threads |-> "idle"]
  /\ feed = Feed
  /\ callback_table = [c \in Channels |-> <<>>]
  /\ callback_id_table = [l \in Ids |-> <<>>]
  /\ next_cbl_id = 1
  /\ subscribed = [l \in Ids |-> {}]
  /\ published = <<>>
  /\ owed = [l \in Ids |-> <<>>]
  /\ called = [l \in Ids |-> <<>>]

Channel(e) == IF e = Tick THEN TickChannel ELSE ChannelOf[e]

-----------------------------------------------------------------------------
(* publish: push and unlock event_cl under the mutex of the queue.         *)

Ticks == Len(SelectSeq(event_queue, LAMBDA e : e = Tick))

\* The timer finds the dispatcher waiting after MaxTicks ticks at most.
HasNext(p) ==
  IF p \in Timer
  THEN Ticks < MaxTicks \/ (Ticks = MaxTicks /\ dpc = "block" /\ locked)
  ELSE feed[p] # <<>>

Push(p) ==
  /\ ppc[p] = "idle" /\ mutex = Nobody /\ ~spindown
  /\ HasNext(p)
  /\ mutex' = p
  /\ ppc' = [ppc EXCEPT ![p] = "unlock"]
  /\ IF p \in Timer
     THEN event_queue' = Append(event_queue, Tick)
          /\ UNCHANGED <<feed, published>>
     ELSE /\ event_queue' = Append(event_queue, Head(feed[p]))
          /\ published' = Append(published, Head(feed[p]))
          /\ feed' = [feed EXCEPT ![p] = Tail(@)]
  /\ UNCHANGED <<locked, spindown, dpc, event, workvec, tableVars, callVars>>

\* event_cl.unlock(1), at the end of publish.
Unlock_IfFirst(p) ==
  /\ ppc[p] = "unlock"
  /\ locked' = (locked /\ Len(event_queue) # 1)
  /\ mutex' = Nobody
  /\ ppc' = [ppc EXCEPT ![p] = "idle"]
  /\ UNCHANGED <<event_queue, spindown, dpc, event, workvec, feed, published,
                 tableVars, callVars>>
Unlock(p) ==
  /\ ppc[p] = "unlock"
  /\ locked' = FALSE
  /\ mutex' = Nobody
  /\ ppc' = [ppc EXCEPT ![p] = "idle"]
  /\ UNCHANGED <<event_queue, spindown, dpc, event, workvec, feed, published,
                 tableVars, callVars>>

-----------------------------------------------------------------------------
(* register_listener and remove_listener, under handler_mutex.             *)

register_listener(channels) ==
  /\ next_cbl_id \in Ids
  /\ callback_table' = [c \in Channels |->
                          IF c \in ToSet(channels)
                          THEN Append(callback_table[c], next_cbl_id)
                          ELSE callback_table[c]]
  /\ callback_id_table' = [callback_id_table EXCEPT ![next_cbl_id] = channels]
  /\ subscribed' = [subscribed EXCEPT ![next_cbl_id] = ToSet(channels)]
  /\ next_cbl_id' = next_cbl_id + 1
  /\ UNCHANGED <<mutex, event_queue, locked, spindown, dpc, event, workvec,
                 publishVars, callVars>>

\* The channels the erase loop goes through.
ChannelsOf_First(l) == {Head(callback_id_table[l])}
ChannelsOf(l) == ToSet(callback_id_table[l])

remove_listener(l) ==
  /\ callback_id_table[l] # <<>>
  /\ callback_table' = [c \in Channels |->
                          IF c \in ChannelsOf(l)
                          THEN RemoveFirst(callback_table[c], l)
                          ELSE callback_table[c]]
  /\ callback_id_table' = [callback_id_table EXCEPT ![l] = <<>>]
  /\ subscribed' = [subscribed EXCEPT ![l] = {}]
  /\ UNCHANGED <<next_cbl_id, mutex, event_queue, locked, spindown, dpc, event,
                 workvec, publishVars, callVars>>

-----------------------------------------------------------------------------
(* event_queue_dispatcher.                                                 *)

\* The condition of the loop.
Check ==
  /\ dpc = "check"
  /\ dpc' = IF spindown THEN "exited" ELSE "pop"
  /\ UNCHANGED <<mutex, event_queue, locked, spindown, event, workvec,
                 publishVars, tableVars, callVars>>

HasEvent == event_queue # <<>>

Pop_Last ==
  /\ dpc = "pop" /\ mutex = Nobody
  /\ IF HasEvent
     THEN /\ event' = Last(event_queue)
          /\ event_queue' = Front(event_queue)
          /\ dpc' = "take"
     ELSE UNCHANGED <<event, event_queue>> /\ dpc' = "reset"
  /\ UNCHANGED <<mutex, locked, spindown, workvec, publishVars, tableVars,
                 callVars>>
Pop ==
  /\ dpc = "pop" /\ mutex = Nobody
  /\ IF HasEvent
     THEN /\ event' = IF event_queue = <<>> THEN NoEvent ELSE Head(event_queue)
          /\ event_queue' = IF event_queue = <<>> THEN <<>> ELSE Tail(event_queue)
          /\ dpc' = "take"
     ELSE UNCHANGED <<event, event_queue>> /\ dpc' = "reset"
  /\ UNCHANGED <<mutex, locked, spindown, workvec, publishVars, tableVars,
                 callVars>>

\* The listeners of the event's channel, then those of every channel.
Listeners_FirstOnly(e) ==
  IF callback_table[Channel(e)] # <<>> THEN callback_table[Channel(e)]
  ELSE callback_table[All]
Listeners(e) == callback_table[Channel(e)] \o callback_table[All]

Wanted(l, e) == {Channel(e), All} \cap subscribed[l] # {}

\* They are copied under handler_mutex.
Take ==
  /\ dpc = "take"
  /\ workvec' = Listeners(event)
  /\ dpc' = IF Listeners(event) = <<>> THEN "check" ELSE "deliver"
  /\ event' = IF Listeners(event) = <<>> THEN NoEvent ELSE event
  /\ owed' = [l \in Ids |-> IF event # Tick /\ Wanted(l, event)
                            THEN Append(owed[l], event) ELSE owed[l]]
  /\ UNCHANGED <<mutex, event_queue, locked, spindown, called, publishVars,
                 tableVars>>

\* One callback, without any lock.
Deliver ==
  /\ dpc = "deliver"
  /\ called' = IF event = Tick THEN called
               ELSE [called EXCEPT ![Head(workvec)] = Append(@, event)]
  /\ workvec' = Tail(workvec)
  /\ dpc' = IF Len(workvec) = 1 THEN "check" ELSE "deliver"
  /\ event' = IF Len(workvec) = 1 THEN NoEvent ELSE event
  /\ UNCHANGED <<mutex, event_queue, locked, spindown, owed, publishVars,
                 tableVars>>

\* event_cl.lock(), after the queue was found empty and its mutex released.
Reset ==
  /\ dpc = "reset"
  /\ locked' = TRUE
  /\ dpc' = "block"
  /\ UNCHANGED <<mutex, event_queue, spindown, event, workvec, publishVars,
                 tableVars, callVars>>

\* event_cl.block_until() returns.
Block ==
  /\ dpc = "block" /\ ~locked
  /\ dpc' = "check"
  /\ UNCHANGED <<mutex, event_queue, locked, spindown, event, workvec,
                 publishVars, tableVars, callVars>>

-----------------------------------------------------------------------------
Spindown ==
  /\ ~spindown /\ spindown' = TRUE
  /\ UNCHANGED <<mutex, event_queue, locked, dpc, event, workvec, publishVars,
                 tableVars, callVars>>

Dispatcher == Check \/ Pop \/ Take \/ Deliver \/ Reset \/ Block

Next ==
  \/ \E p \in Threads : Push(p) \/ Unlock(p)
  \/ \E cs \in ChannelLists : register_listener(cs)
  \/ \E l \in Ids : remove_listener(l)
  \/ Dispatcher
  \/ Spindown

\* Every thread runs, the queue mutex is granted to a thread that keeps asking
\* for it, and the timer keeps firing.
Fairness ==
  /\ WF_vars(Dispatcher) /\ SF_vars(Pop)
  /\ \A p \in Threads : WF_vars(Unlock(p))
  /\ \A p \in Timer : SF_vars(Push(p))

Spec == Init /\ [][Next]_vars
FairSpec == Spec /\ Fairness

-----------------------------------------------------------------------------
\* The variables have their types, and the dispatcher handles an event exactly
\* when it took one from the queue (eventbus.cc:157-163).
TypeOK ==
  /\ mutex \in Threads \cup {Nobody}
  /\ event_queue \in Seq(Events \cup {Tick})
  /\ locked \in BOOLEAN /\ spindown \in BOOLEAN
  /\ dpc \in {"check", "pop", "take", "deliver", "reset", "block", "exited"}
  /\ event \in Events \cup {Tick, NoEvent}
  /\ event # NoEvent <=> dpc \in {"take", "deliver"}
  /\ workvec \in Seq(Ids)
  /\ ppc \in [Threads -> {"idle", "unlock"}]
  /\ callback_table \in [Channels -> Seq(Ids)]
  /\ callback_id_table \in [Ids -> ChannelLists \cup {<<>>}]
  /\ next_cbl_id \in 1 .. MaxListeners + 1
  /\ called \in [Ids -> Seq(Events)] /\ owed \in [Ids -> Seq(Events)]

\* A listener stands once in the vector of every channel it subscribed to and
\* in no other: removing it leaves no callback behind whose owner is gone
\* (register_listener, remove_listener).
TablesAgree ==
  \A c \in Channels :
    /\ ToSet(callback_table[c]) = {l \in Ids : c \in subscribed[l]}
    /\ IsInjective(callback_table[c])

\* A listener is called once for every event that the dispatcher took while it
\* was subscribed to the event's channel or to "*", in that order, and for no
\* other event, whatever is registered and removed meanwhile.
CalledAsOwed ==
  \A l \in Ids :
    called[l] \o (IF l \in ToSet(workvec) /\ event # Tick
                  THEN <<event>> ELSE <<>>) = owed[l]

\* A listener sees events in the order in which they were published, by
\* whichever threads.
PublishOrder ==
  \A l \in Ids : \A i, j \in DOMAIN called[l] : \A m, n \in DOMAIN published :
    /\ called[l][i] = published[m] /\ called[l][j] = published[n] /\ i < j
    => m < n

Pending(e) == e \in ToSet(event_queue) \/ event = e

\* Every published event is dispatched to all its listeners, unless Kismet is
\* shutting down: with the statistics event of every second, not later than
\* the first tick that finds the dispatcher waiting.
PublishedIsDispatched == \A e \in Events : Pending(e) ~> (~Pending(e) \/ spindown)
=============================================================================
