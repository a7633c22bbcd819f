--------------------------- MODULE EventBusProofs ---------------------------
(***************************************************************************)
(* Proofs about EventBus for any publishers, events, channels and          *)
(* listeners: the listener tables agree, a listener is called with what it *)
(* was owed, and in the order of publication.                              *)
(***************************************************************************)
EXTENDS EventBus, TLAPS

-----------------------------------------------------------------------------
(* Sequences.                                                              *)

\* Appending an element.
LEMMA AppendFacts ==
  ASSUME NEW S, NEW s \in Seq(S), NEW x \in S
  PROVE  /\ Append(s, x) \in Seq(S) /\ DOMAIN Append(s, x) = 1 .. (Len(s) + 1)
         /\ \A i \in 1 .. Len(s) : Append(s, x)[i] = s[i]
         /\ Append(s, x)[Len(s) + 1] = x
         /\ ToSet(Append(s, x)) = ToSet(s) \cup {x}
         /\ IsInjective(s) /\ x \notin ToSet(s) => IsInjective(Append(s, x))
<1> DEFINE t == Append(s, x)
<1>1. /\ t \in Seq(S) /\ DOMAIN t = 1 .. (Len(s) + 1) /\ DOMAIN s = 1 .. Len(s)
      /\ \A i \in 1 .. Len(s) : t[i] = s[i]
      /\ t[Len(s) + 1] = x /\ Len(s) \in Nat
  OBVIOUS
<1> HIDE DEF t
<1>2. ToSet(t) = ToSet(s) \cup {x}
  BY <1>1 DEF ToSet
<1>3. ASSUME IsInjective(s), x \notin ToSet(s) PROVE IsInjective(t)
  BY <1>1, <1>3 DEF IsInjective, ToSet
<1> QED
  BY <1>1, <1>2, <1>3 DEF t

\* Taking the first element off.
LEMMA TailFacts ==
  ASSUME NEW S, NEW s \in Seq(S), s # << >>
  PROVE  /\ Head(s) \in S /\ Head(s) = s[1] /\ 1 \in DOMAIN s
         /\ Tail(s) \in Seq(S) /\ Len(Tail(s)) = Len(s) - 1
         /\ \A i \in DOMAIN Tail(s) : i + 1 \in DOMAIN s /\ Tail(s)[i] = s[i + 1]
         /\ DOMAIN Tail(s) = 1 .. (Len(s) - 1)
         /\ ToSet(s) = ToSet(Tail(s)) \cup {Head(s)}
         /\ IsInjective(s) => IsInjective(Tail(s)) /\ Head(s) \notin ToSet(Tail(s))
<1> DEFINE t == Tail(s)
<1>1. /\ Head(s) \in S /\ Head(s) = s[1] /\ Len(s) \in Nat \ {0}
      /\ DOMAIN s = 1 .. Len(s)
      /\ t \in Seq(S) /\ DOMAIN t = 1 .. (Len(s) - 1) /\ Len(t) = Len(s) - 1
      /\ \A i \in DOMAIN t : i + 1 \in DOMAIN s /\ t[i] = s[i + 1]
  OBVIOUS
<1> HIDE DEF t
<1>2. ToSet(s) = ToSet(t) \cup {Head(s)}
  <2>1. ASSUME NEW i \in DOMAIN s PROVE s[i] \in ToSet(t) \cup {Head(s)}
    <3>1. CASE i = 1
      BY <1>1, <3>1
    <3>2. CASE i # 1
      <4>1. i - 1 \in DOMAIN t /\ t[i - 1] = s[i]
        BY <1>1, <3>2
      <4> QED
        BY <4>1 DEF ToSet
    <3> QED
      BY <3>1, <3>2
  <2>2. ASSUME NEW i \in DOMAIN t PROVE t[i] \in ToSet(s)
    BY <1>1 DEF ToSet
  <2>3. Head(s) \in ToSet(s)
    BY <1>1 DEF ToSet
  <2> QED
    BY <2>1, <2>2, <2>3 DEF ToSet
<1>3. ASSUME IsInjective(s) PROVE IsInjective(t) /\ Head(s) \notin ToSet(t)
  BY <1>1, <1>3 DEF IsInjective, ToSet
<1> QED
  BY <1>1, <1>2, <1>3 DEF t

\* A sequence is empty when its length is 0.
LEMMA EmptyLen ==
  ASSUME NEW S, NEW t \in Seq(S)
  PROVE  t = <<>> <=> Len(t) = 0
OBVIOUS

\* One sequence after the other.
LEMMA ConcatFacts ==
  ASSUME NEW S, NEW s \in Seq(S), NEW t \in Seq(S)
  PROVE  /\ s \o t \in Seq(S)
         /\ ToSet(s \o t) = ToSet(s) \cup ToSet(t)
         /\ IsInjective(s) /\ IsInjective(t) /\ ToSet(s) \cap ToSet(t) = {}
              => IsInjective(s \o t)
<1> DEFINE u == s \o t
<1>1. /\ u \in Seq(S) /\ DOMAIN u = 1 .. (Len(s) + Len(t))
      /\ DOMAIN s = 1 .. Len(s) /\ DOMAIN t = 1 .. Len(t)
      /\ Len(s) \in Nat /\ Len(t) \in Nat
      /\ \A i \in 1 .. Len(s) : u[i] = s[i]
      /\ \A i \in 1 .. Len(t) : u[Len(s) + i] = t[i]
  OBVIOUS
<1> HIDE DEF u
<1>2. \A i \in DOMAIN u : \/ i \in DOMAIN s /\ u[i] = s[i]
                          \/ i - Len(s) \in DOMAIN t /\ u[i] = t[i - Len(s)] /\ i \notin DOMAIN s
  BY <1>1
<1>3. ToSet(u) = ToSet(s) \cup ToSet(t)
  <2>1. ToSet(u) \subseteq ToSet(s) \cup ToSet(t)
    BY <1>2 DEF ToSet
  <2>2. \A i \in DOMAIN s : i \in DOMAIN u /\ u[i] = s[i]
    BY <1>1
  <2>3. \A i \in DOMAIN t : Len(s) + i \in DOMAIN u /\ u[Len(s) + i] = t[i]
    BY <1>1
  <2> QED
    BY <2>1, <2>2, <2>3 DEF ToSet
<1>4. ASSUME IsInjective(s), IsInjective(t), ToSet(s) \cap ToSet(t) = {} PROVE IsInjective(u)
  <2> SUFFICES ASSUME NEW i \in DOMAIN u, NEW j \in DOMAIN u, u[i] = u[j] PROVE i = j
    BY DEF IsInjective
  <2>1. CASE i \in DOMAIN s /\ j \in DOMAIN s
    BY <1>2, <1>4, <2>1 DEF IsInjective
  <2>2. CASE i \notin DOMAIN s /\ j \notin DOMAIN s
    <3>1. i - Len(s) = j - Len(s)
      BY <1>2, <1>4, <2>2 DEF IsInjective
    <3> QED
      BY <1>1, <3>1
  <2>3. CASE (i \in DOMAIN s) # (j \in DOMAIN s)
    <3>1. \A k \in DOMAIN s : s[k] \in ToSet(s)
      BY DEF ToSet
    <3>2. \A k \in DOMAIN t : t[k] \in ToSet(t)
      BY DEF ToSet
    <3>3. CASE i \in DOMAIN s /\ j \notin DOMAIN s
      BY <1>2, <1>4, <3>1, <3>2, <3>3
    <3>4. CASE i \notin DOMAIN s /\ j \in DOMAIN s
      BY <1>2, <1>4, <3>1, <3>2, <3>4
    <3> QED
      BY <2>3, <3>3, <3>4
  <2> QED
    BY <2>1, <2>2, <2>3
<1> QED
  BY <1>1, <1>3, <1>4 DEF u

\* The erase of remove_listener: where an element stands once it is gone.
LEMMA RemoveFacts ==
  ASSUME NEW S, NEW s \in Seq(S), NEW x, IsInjective(s)
  PROVE  /\ RemoveFirst(s, x) \in Seq(S) /\ IsInjective(RemoveFirst(s, x))
         /\ ToSet(RemoveFirst(s, x)) = ToSet(s) \ {x}
<1>1. CASE ~ \E i \in 1 .. Len(s) : s[i] = x
  <2>1. RemoveFirst(s, x) = s
    BY <1>1 DEF RemoveFirst
  <2>2. DOMAIN s = 1 .. Len(s)
    OBVIOUS
  <2>3. x \notin ToSet(s)
    BY <1>1, <2>2 DEF ToSet
  <2> QED
    BY <2>1, <2>3
<1>2. CASE \E i \in 1 .. Len(s) : s[i] = x
  <2>1. PICK k \in 1 .. Len(s) : s[k] = x
    BY <1>2
  <2>2. {i \in 1 .. Len(s) : s[i] = x} = {k}
    BY <2>1 DEF IsInjective
  <2>3. RemoveFirst(s, x) = SubSeq(s, 1, k - 1) \o SubSeq(s, k + 1, Len(s))
    <3>1. Min({k}) = k
      BY DEF Min
    <3> QED
      BY <1>2, <2>2, <3>1 DEF RemoveFirst, RemoveAt, SelectInSeq
  <2> DEFINE a == SubSeq(s, 1, k - 1)
             b == SubSeq(s, k + 1, Len(s))
  <2>4. /\ a \in Seq(S) /\ DOMAIN a = 1 .. (k - 1) /\ \A i \in 1 .. (k - 1) : a[i] = s[i]
        /\ DOMAIN s = 1 .. Len(s) /\ Len(s) \in Nat
    OBVIOUS
  <2>5. /\ b \in Seq(S) /\ DOMAIN b = 1 .. (Len(s) - k)
        /\ \A i \in 1 .. (Len(s) - k) : b[i] = s[k + i]
    OBVIOUS
  <2> HIDE DEF a, b
  <2>6. ASSUME NEW y PROVE y \in ToSet(a) <=> \E i \in DOMAIN s : i < k /\ s[i] = y
    <3>1. DOMAIN a = {i \in DOMAIN s : i < k}
      BY <2>4
    <3> QED
      BY <2>4, <3>1 DEF ToSet
  <2>7. ASSUME NEW y PROVE y \in ToSet(b) <=> \E i \in DOMAIN s : k < i /\ s[i] = y
    <3>1. ASSUME NEW i \in DOMAIN b PROVE k + i \in DOMAIN s /\ k < k + i /\ s[k + i] = b[i]
      BY <2>4, <2>5
    <3>2. ASSUME NEW i \in DOMAIN s, k < i PROVE i - k \in DOMAIN b /\ b[i - k] = s[i]
      BY <2>4, <2>5, <3>2
    <3>3. y \in ToSet(b) => \E i \in DOMAIN s : k < i /\ s[i] = y
      BY <3>1 DEF ToSet
    <3>4. (\E i \in DOMAIN s : k < i /\ s[i] = y) => y \in ToSet(b)
      BY <3>2 DEF ToSet
    <3> QED
      BY <3>3, <3>4
  <2>9. ToSet(a) \cup ToSet(b) = ToSet(s) \ {x} /\ ToSet(a) \cap ToSet(b) = {}
    <3>1. \A y : y \in ToSet(s) <=> \E i \in DOMAIN s : s[i] = y
      BY DEF ToSet
    <3>2. \A i \in DOMAIN s : i \in Nat /\ (s[i] = x <=> i = k)
      BY <2>1, <2>4 DEF IsInjective
    <3>3. ASSUME NEW y \in ToSet(a), y \in ToSet(b) PROVE FALSE
      <4>1. PICK i \in DOMAIN s : i < k /\ s[i] = y
        BY <2>6
      <4>2. PICK j \in DOMAIN s : k < j /\ s[j] = y
        BY <2>7, <3>3
      <4>3. i = j
        BY <4>1, <4>2 DEF IsInjective
      <4> QED
        BY <3>2, <4>1, <4>2, <4>3
    <3>4. ASSUME NEW y PROVE y \in ToSet(a) \cup ToSet(b) <=> y \in ToSet(s) \ {x}
      BY <2>4, <2>6, <2>7, <3>1, <3>2
    <3> QED
      BY <3>3, <3>4
  <2>8. IsInjective(a) /\ IsInjective(b)
    <3>1. IsInjective(a)
      BY <2>4 DEF IsInjective
    <3>2. ASSUME NEW i \in DOMAIN b, NEW j \in DOMAIN b, b[i] = b[j] PROVE i = j
      <4>1. /\ i \in 1 .. (Len(s) - k) /\ j \in 1 .. (Len(s) - k)
            /\ s[k + i] = s[k + j]
        BY <2>5, <3>2
      <4>1a. k + i \in DOMAIN s /\ k + j \in DOMAIN s
        BY <2>4, <4>1
      <4>2. k + i = k + j
        BY <4>1, <4>1a DEF IsInjective
      <4> QED
        BY <2>5, <4>2
    <3> QED
      BY <3>1, <3>2 DEF IsInjective
  <2>10. RemoveFirst(s, x) = a \o b
    BY <2>3 DEF a, b
  <2> QED
    BY <2>4, <2>5, <2>8, <2>9, <2>10, ConcatFacts
<1> QED
  BY <1>1, <1>2



-----------------------------------------------------------------------------
(* Types.                                                                  *)

\* The types, with those of the variables that only record, and the vector of
\* callbacks filled exactly while it is worked through.
Types ==
  /\ TypeOK
  /\ feed \in [Publishers -> Seq(Events)]
  /\ published \in Seq(Events)
  /\ subscribed \in [Ids -> SUBSET Channels]
  /\ workvec # <<>> <=> dpc = "deliver"

\* The channels of an event and of a list are channels.
LEMMA ChannelFacts ==
  /\ \A e \in Events \cup {Tick} : Channel(e) \in Channels /\ Channel(e) # All
  /\ All \in Channels
  /\ \A cs \in ChannelLists : cs \in Seq(Channels) /\ ToSet(cs) \subseteq Channels
<1>1. \A e \in Events \cup {Tick} : Channel(e) \in Channels /\ Channel(e) # All
  BY EventBusAssumption DEF EventBusAssumption, Channel, Channels
<1>2. ASSUME NEW cs \in Seq(Channels) PROVE ToSet(cs) \subseteq Channels
  BY DEF ToSet
<1>3. All \in Channels
  BY DEF Channels
<1> QED
  BY <1>1, <1>2, <1>3, EventBusAssumption DEF EventBusAssumption

LEMMA InitTypes == Init => Types
<1> SUFFICES ASSUME Init PROVE Types
  OBVIOUS
<1>1. /\ MaxListeners \in Nat /\ Feed \in [Publishers -> Seq(Events)]
      /\ 1 \in 1 .. MaxListeners + 1
  BY EventBusAssumption DEF EventBusAssumption
<1>2. \A S : <<>> \in Seq(S)
  OBVIOUS
<1>3. /\ mutex \in Threads \cup {Nobody} /\ event_queue \in Seq(Events \cup {Tick})
      /\ locked \in BOOLEAN /\ spindown \in BOOLEAN
      /\ ppc \in [Threads -> {"idle", "unlock"}]
      /\ next_cbl_id \in 1 .. MaxListeners + 1
      /\ feed \in [Publishers -> Seq(Events)] /\ published \in Seq(Events)
  BY <1>1, <1>2 DEF Init
<1>4. /\ callback_table \in [Channels -> Seq(Ids)]
      /\ callback_id_table \in [Ids -> ChannelLists \cup {<<>>}]
      /\ called \in [Ids -> Seq(Events)] /\ owed \in [Ids -> Seq(Events)]
      /\ subscribed \in [Ids -> SUBSET Channels]
  BY <1>2 DEF Init
<1>5. /\ dpc \in {"check", "pop", "take", "deliver", "reset", "block", "exited"}
      /\ event \in Events \cup {Tick, NoEvent}
      /\ event # NoEvent <=> dpc \in {"take", "deliver"}
      /\ workvec \in Seq(Ids) /\ (workvec # <<>> <=> dpc = "deliver")
  BY <1>2 DEF Init
<1> QED
  BY <1>3, <1>4, <1>5 DEF Types, TypeOK

\* The listeners that Take copies.
LEMMA ListenersType ==
  ASSUME Types, NEW e \in Events \cup {Tick}
  PROVE  Listeners(e) \in Seq(Ids)
<1>1. callback_table[Channel(e)] \in Seq(Ids) /\ callback_table[All] \in Seq(Ids)
  BY ChannelFacts DEF Types, TypeOK
<1> QED
  BY <1>1, ConcatFacts DEF Listeners

LEMMA NextTypes == Types /\ TablesAgree /\ [Next]_vars => Types'
<1> SUFFICES ASSUME Types, TablesAgree, [Next]_vars PROVE Types'
  OBVIOUS
<1> USE DEF Types, TypeOK
<1>0. Tick \notin Events /\ NoEvent \notin Events \cup {Tick} /\ MaxListeners \in Nat
  BY EventBusAssumption DEF EventBusAssumption
<1>1. ASSUME NEW p \in Threads, Push(p) PROVE Types'
  <2>1. event_queue' \in Seq(Events \cup {Tick}) /\ published' \in Seq(Events)
        /\ feed' \in [Publishers -> Seq(Events)]
    <3>0. \A x \in Events \cup {Tick} : Append(event_queue, x) \in Seq(Events \cup {Tick})
      BY AppendFacts
    <3>1. CASE p \in Timer
      BY <1>1, <3>0, <3>1 DEF Push
    <3>2. CASE p \notin Timer
      <4>1. p \in Publishers /\ feed[p] \in Seq(Events) /\ feed[p] # <<>>
        BY <1>1, <3>2 DEF Push, HasNext, Threads
      <4>2. Head(feed[p]) \in Events /\ Tail(feed[p]) \in Seq(Events)
        BY <4>1
      <4>3. Append(published, Head(feed[p])) \in Seq(Events)
        BY <4>2, AppendFacts
      <4>4. /\ event_queue' = Append(event_queue, Head(feed[p]))
            /\ published' = Append(published, Head(feed[p]))
            /\ feed' = [feed EXCEPT ![p] = Tail(feed[p])]
        BY <1>1, <3>2 DEF Push
      <4> QED
        BY <3>0, <4>1, <4>2, <4>3, <4>4
    <3> QED
      BY <3>1, <3>2
  <2>2. /\ mutex' = p /\ ppc' = [ppc EXCEPT ![p] = "unlock"]
        /\ UNCHANGED <<locked, spindown, dpc, event, workvec, tableVars, callVars>>
    BY <1>1 DEF Push
  <2> QED
    BY <2>1, <2>2 DEF tableVars, callVars
<1>2. ASSUME NEW p \in Threads, Unlock(p) PROVE Types'
  <2>1. locked' \in BOOLEAN /\ ppc' \in [Threads -> {"idle", "unlock"}]
    BY <1>2 DEF Unlock
  <2> QED
    BY <1>2, <2>1 DEF Unlock, tableVars, callVars
<1>3. ASSUME NEW cs \in ChannelLists, register_listener(cs) PROVE Types'
  <2>1. next_cbl_id \in Ids /\ next_cbl_id + 1 \in 1 .. MaxListeners + 1
    BY <1>0, <1>3 DEF register_listener, Ids
  <2>2. callback_table' \in [Channels -> Seq(Ids)]
    <3>1. \A c \in Channels : Append(callback_table[c], next_cbl_id) \in Seq(Ids)
      BY <2>1
    <3> QED
      BY <1>3, <3>1 DEF register_listener
  <2>3. subscribed' \in [Ids -> SUBSET Channels]
    BY <1>3, <2>1, ChannelFacts DEF register_listener
  <2>4. callback_id_table' \in [Ids -> ChannelLists \cup {<<>>}]
    BY <1>3, <2>1 DEF register_listener
  <2>5. next_cbl_id' \in 1 .. MaxListeners + 1
    BY <1>3, <2>1 DEF register_listener
  <2> QED
    BY <1>3, <2>2, <2>3, <2>4, <2>5 DEF register_listener, publishVars, callVars
<1>4. ASSUME Check PROVE Types'
  <2>1. dpc' \in {"exited", "pop"} /\ dpc = "check"
    BY <1>4 DEF Check
  <2> QED
    BY <1>4, <2>1 DEF Check, publishVars, tableVars, callVars
<1>5. ASSUME Pop PROVE Types'
  <2>1. CASE event_queue # <<>>
    <3>1. /\ event' = Head(event_queue) /\ event_queue' = Tail(event_queue)
          /\ dpc' = "take" /\ dpc = "pop"
      BY <1>5, <2>1 DEF Pop, HasEvent
    <3>2. event' \in Events \cup {Tick} /\ event_queue' \in Seq(Events \cup {Tick})
      BY <2>1, <3>1
    <3> QED
      BY <1>0, <1>5, <3>1, <3>2 DEF Pop, publishVars, tableVars, callVars
  <2>2. CASE event_queue = <<>>
    <3>1. UNCHANGED <<event, event_queue>> /\ dpc' = "reset" /\ dpc = "pop"
      BY <1>5, <2>2 DEF Pop, HasEvent
    <3> QED
      BY <1>5, <3>1 DEF Pop, publishVars, tableVars, callVars
  <2> QED
    BY <2>1, <2>2
<1>6. ASSUME Take PROVE Types'
  <2>1. event \in Events \cup {Tick} /\ dpc = "take" /\ event # NoEvent
    BY <1>6 DEF Take
  <2>2. Listeners(event) \in Seq(Ids)
    BY <2>1, ListenersType
  <2>3. owed' \in [Ids -> Seq(Events)]
    <3>1. \A l \in Ids : event # Tick => Append(owed[l], event) \in Seq(Events)
      BY <2>1
    <3> QED
      BY <1>6, <3>1 DEF Take
  <2>4. /\ workvec' = Listeners(event)
        /\ dpc' = IF workvec' = <<>> THEN "check" ELSE "deliver"
        /\ event' = IF workvec' = <<>> THEN NoEvent ELSE event
        /\ UNCHANGED <<mutex, event_queue, locked, spindown, called, publishVars, tableVars>>
    BY <1>6 DEF Take
  <2>5. workvec' \in Seq(Ids) /\ event' \in Events \cup {Tick, NoEvent}
    BY <2>1, <2>2, <2>4
  <2>6. event' # NoEvent <=> dpc' \in {"take", "deliver"}
    BY <2>1, <2>4
  <2>7. workvec' # <<>> <=> dpc' = "deliver"
    BY <2>4
  <2>8. dpc' \in {"check", "deliver"}
    BY <2>4
  <2> QED
    BY <2>3, <2>4, <2>5, <2>6, <2>7, <2>8 DEF publishVars, tableVars
<1>7. ASSUME Deliver PROVE Types'
  <2>1. /\ event \in Events \cup {Tick} /\ dpc = "deliver" /\ event # NoEvent
        /\ workvec # <<>> /\ workvec \in Seq(Ids)
    BY <1>7 DEF Deliver
  <2>2. Head(workvec) \in Ids /\ Tail(workvec) \in Seq(Ids)
        /\ (Len(workvec) = 1 <=> Tail(workvec) = <<>>)
    <3>1. Head(workvec) \in Ids /\ Tail(workvec) \in Seq(Ids)
          /\ Len(Tail(workvec)) = Len(workvec) - 1 /\ Len(workvec) \in Nat
      BY <2>1, TailFacts
    <3>2. Tail(workvec) = <<>> <=> Len(Tail(workvec)) = 0
      BY <3>1, EmptyLen
    <3>3. ASSUME NEW m \in Nat, NEW n \in Int, n = m - 1 PROVE m = 1 <=> n = 0
      BY <3>3
    <3>4. Len(workvec) = 1 <=> Len(Tail(workvec)) = 0
      BY <3>1, <3>3
    <3> QED
      BY <3>1, <3>2, <3>4
  <2>3. called' \in [Ids -> Seq(Events)]
    <3>1. event # Tick => Append(called[Head(workvec)], event) \in Seq(Events)
      BY <2>1, <2>2
    <3> QED
      BY <1>7, <2>2, <3>1 DEF Deliver
  <2>4. /\ workvec' = Tail(workvec)
        /\ dpc' = IF workvec' = <<>> THEN "check" ELSE "deliver"
        /\ event' = IF workvec' = <<>> THEN NoEvent ELSE event
        /\ UNCHANGED <<mutex, event_queue, locked, spindown, owed, publishVars, tableVars>>
    BY <1>7, <2>2 DEF Deliver
  <2>5. workvec' \in Seq(Ids) /\ event' \in Events \cup {Tick, NoEvent}
    BY <2>1, <2>2, <2>4
  <2>6. event' # NoEvent <=> dpc' \in {"take", "deliver"}
    BY <2>1, <2>4
  <2>7. (workvec' # <<>> <=> dpc' = "deliver") /\ dpc' \in {"check", "deliver"}
    BY <2>4
  <2> QED
    BY <2>3, <2>4, <2>5, <2>6, <2>7 DEF publishVars, tableVars
<1>8. ASSUME Reset \/ Block \/ Spindown PROVE Types'
  <2>1. /\ locked' \in BOOLEAN /\ spindown' \in BOOLEAN
        /\ \/ dpc' = dpc
           \/ dpc \in {"reset", "block"} /\ dpc' \in {"block", "check"}
        /\ UNCHANGED <<mutex, event_queue, event, workvec, publishVars, tableVars, callVars>>
    BY <1>8 DEF Reset, Block, Spindown
  <2> QED
    BY <2>1 DEF publishVars, tableVars, callVars
<1>9. ASSUME NEW l \in Ids, remove_listener(l) PROVE Types'
  <2>1. /\ callback_id_table' = [callback_id_table EXCEPT ![l] = <<>>]
        /\ subscribed' = [subscribed EXCEPT ![l] = {}]
        /\ UNCHANGED <<next_cbl_id, mutex, event_queue, locked, spindown, dpc,
                       event, workvec, publishVars, callVars>>
    BY <1>9 DEF remove_listener
  <2>2. callback_table' \in [Channels -> Seq(Ids)]
    <3>1. \A c \in Channels : RemoveFirst(callback_table[c], l) \in Seq(Ids)
      BY RemoveFacts DEF TablesAgree
    <3> QED
      BY <1>9, <3>1 DEF remove_listener
  <2> QED
    BY <2>1, <2>2 DEF publishVars, callVars
<1>10. ASSUME UNCHANGED vars PROVE Types'
  BY <1>10 DEF vars, tableVars
<1> QED
  BY <1>1, <1>2, <1>3, <1>4, <1>5, <1>6, <1>7, <1>8, <1>9, <1>10 DEF Next, Dispatcher
-----------------------------------------------------------------------------
(* The listener tables.                                                    *)

\* The ids not given out stand nowhere, the channels of a listener are the
\* ones it is erased from, and who listens to "*" listens to nothing else.
Tables ==
  /\ TablesAgree
  /\ \A l \in Ids : ToSet(callback_id_table[l]) = subscribed[l]
  /\ \A l \in Ids : l >= next_cbl_id => subscribed[l] = {}
  /\ \A l \in Ids : All \in subscribed[l] => subscribed[l] = {All}

\* The empty sequence holds nothing.
LEMMA EmptyFacts == ToSet(<<>>) = {} /\ IsInjective(<<>>)
<1>1. DOMAIN <<>> = {}
  OBVIOUS
<1> QED
  BY <1>1 DEF ToSet, IsInjective

LEMMA InitTables == Init => Tables
<1> SUFFICES ASSUME Init PROVE Tables
  OBVIOUS
<1>1. TablesAgree
  BY EmptyFacts DEF Init, TablesAgree
<1> QED
  BY <1>1, EmptyFacts DEF Init, Tables

LEMMA NextTables == Types /\ Tables /\ [Next]_vars => Tables'
<1> SUFFICES ASSUME Types, Tables, [Next]_vars PROVE Tables'
  OBVIOUS
<1>0. /\ callback_table \in [Channels -> Seq(Ids)]
      /\ subscribed \in [Ids -> SUBSET Channels]
      /\ callback_id_table \in [Ids -> ChannelLists \cup {<<>>}]
      /\ next_cbl_id \in Nat /\ Ids \subseteq Nat
  BY DEF Types, TypeOK, Ids
<1>1. ASSUME NEW cs \in ChannelLists, register_listener(cs) PROVE Tables'
  <2> DEFINE n == next_cbl_id
  <2>1. /\ n \in Ids /\ n' = n + 1 /\ subscribed[n] = {}
        /\ callback_table' = [c \in Channels |->
                                IF c \in ToSet(cs) THEN Append(callback_table[c], n)
                                ELSE callback_table[c]]
        /\ callback_id_table' = [callback_id_table EXCEPT ![n] = cs]
        /\ subscribed' = [subscribed EXCEPT ![n] = ToSet(cs)]
    BY <1>0, <1>1 DEF register_listener, Tables
  <2>2. ToSet(cs) \subseteq Channels /\ (All \in ToSet(cs) => ToSet(cs) = {All})
    BY ChannelFacts, EventBusAssumption DEF EventBusAssumption
  <2> HIDE DEF n
  <2>3. ASSUME NEW c \in Channels
        PROVE  /\ ToSet(callback_table'[c]) = {l \in Ids : c \in subscribed'[l]}
               /\ IsInjective(callback_table'[c])
    <3> DEFINE s == callback_table[c]
    <3>1. /\ s \in Seq(Ids) /\ ToSet(s) = {l \in Ids : c \in subscribed[l]}
          /\ IsInjective(s) /\ n \notin ToSet(s)
      BY <1>0, <2>1 DEF Tables, TablesAgree
    <3>2. CASE c \in ToSet(cs)
      <4>1. callback_table'[c] = Append(s, n)
        BY <2>1, <3>2
      <4>2. ToSet(Append(s, n)) = ToSet(s) \cup {n} /\ IsInjective(Append(s, n))
        BY <2>1, <3>1, AppendFacts
      <4>3. {l \in Ids : c \in subscribed'[l]} = {l \in Ids : c \in subscribed[l]} \cup {n}
        BY <1>0, <2>1, <3>2
      <4> QED
        BY <3>1, <4>1, <4>2, <4>3
    <3>3. CASE c \notin ToSet(cs)
      <4>1. callback_table'[c] = s
        BY <2>1, <3>3
      <4>2. {l \in Ids : c \in subscribed'[l]} = {l \in Ids : c \in subscribed[l]}
        BY <1>0, <2>1, <3>3
      <4> QED
        BY <3>1, <4>1, <4>2
    <3> QED
      BY <3>2, <3>3
  <2>4. \A l \in Ids : ToSet(callback_id_table'[l]) = subscribed'[l]
    BY <1>0, <2>1 DEF Tables
  <2>5. ASSUME NEW l \in Ids, l >= n' PROVE subscribed'[l] = {}
    <3>1. n \in Nat /\ l \in Nat
      BY <1>0 DEF n
    <3>2. l # n /\ l >= n
      BY <2>1, <2>5, <3>1
    <3> QED
      BY <1>0, <2>1, <3>2 DEF Tables, n
  <2>6. \A l \in Ids : All \in subscribed'[l] => subscribed'[l] = {All}
    BY <1>0, <2>1, <2>2 DEF Tables
  <2>7. TablesAgree'
    BY <2>3 DEF TablesAgree
  <2> QED
    BY <2>4, <2>5, <2>6, <2>7 DEF Tables, n
<1>2. ASSUME NEW k \in Ids, remove_listener(k) PROVE Tables'
  <2>1. /\ callback_table' = [c \in Channels |->
                                IF c \in subscribed[k] THEN RemoveFirst(callback_table[c], k)
                                ELSE callback_table[c]]
        /\ callback_id_table' = [callback_id_table EXCEPT ![k] = <<>>]
        /\ subscribed' = [subscribed EXCEPT ![k] = {}]
        /\ next_cbl_id' = next_cbl_id
    BY <1>2 DEF remove_listener, Tables, ChannelsOf
  <2>2. ASSUME NEW c \in Channels
        PROVE  /\ ToSet(callback_table'[c]) = {l \in Ids : c \in subscribed'[l]}
               /\ IsInjective(callback_table'[c])
    <3> DEFINE s == callback_table[c]
    <3>1. /\ s \in Seq(Ids) /\ ToSet(s) = {l \in Ids : c \in subscribed[l]}
          /\ IsInjective(s)
      BY <1>0 DEF Tables, TablesAgree
    <3>2. {l \in Ids : c \in subscribed'[l]} = ToSet(s) \ {k}
      BY <1>0, <2>1, <3>1
    <3>3. CASE c \in subscribed[k]
      <4>1. callback_table'[c] = RemoveFirst(s, k)
        BY <2>1, <3>3
      <4>2. ToSet(RemoveFirst(s, k)) = ToSet(s) \ {k} /\ IsInjective(RemoveFirst(s, k))
        BY <3>1, RemoveFacts
      <4> QED
        BY <3>2, <4>1, <4>2
    <3>4. CASE c \notin subscribed[k]
      <4>1. callback_table'[c] = s /\ k \notin ToSet(s)
        BY <2>1, <3>1, <3>4
      <4> QED
        BY <3>1, <3>2, <4>1
    <3> QED
      BY <3>3, <3>4
  <2>3. TablesAgree'
    BY <2>2 DEF TablesAgree
  <2>4. \A l \in Ids : ToSet(callback_id_table'[l]) = subscribed'[l]
    BY <1>0, <2>1, EmptyFacts DEF Tables
  <2>5. \A l \in Ids : /\ l >= next_cbl_id' => subscribed'[l] = {}
                       /\ All \in subscribed'[l] => subscribed'[l] = {All}
    BY <1>0, <2>1 DEF Tables
  <2> QED
    BY <2>3, <2>4, <2>5 DEF Tables
<1>3. ASSUME UNCHANGED tableVars PROVE Tables'
  BY <1>3 DEF tableVars, Tables, TablesAgree
<1>4. ASSUME NEW p \in Threads, Push(p) \/ Unlock(p) PROVE UNCHANGED tableVars
  BY <1>4 DEF Push, Unlock
<1>5. ASSUME Dispatcher \/ Spindown \/ UNCHANGED vars PROVE UNCHANGED tableVars
  BY <1>5 DEF Dispatcher, Check, Pop, Take, Deliver, Reset, Block, Spindown, vars, tableVars
<1> QED
  BY <1>1, <1>2, <1>3, <1>4, <1>5 DEF Next
-----------------------------------------------------------------------------
(* Callbacks.                                                              *)

\* The copy that is worked through names nobody twice.
Owing == CalledAsOwed /\ IsInjective(workvec)

\* What the dispatcher copies: everybody who wants the event, once.
LEMMA ListenersWant ==
  ASSUME Types, Tables, NEW e \in Events \cup {Tick}
  PROVE  /\ IsInjective(Listeners(e))
         /\ ToSet(Listeners(e)) = {l \in Ids : Wanted(l, e)}
<1> DEFINE s == callback_table[Channel(e)]
           t == callback_table[All]
<1>1. /\ Channel(e) \in Channels /\ All \in Channels /\ Channel(e) # All
      /\ s \in Seq(Ids) /\ t \in Seq(Ids)
  BY ChannelFacts DEF Types, TypeOK
<1>2. /\ ToSet(s) = {l \in Ids : Channel(e) \in subscribed[l]}
      /\ ToSet(t) = {l \in Ids : All \in subscribed[l]}
      /\ IsInjective(s) /\ IsInjective(t)
  BY <1>1 DEF Tables, TablesAgree
<1>3. ToSet(s) \cap ToSet(t) = {}
  BY <1>1, <1>2 DEF Tables
<1>4. IsInjective(s \o t) /\ ToSet(s \o t) = ToSet(s) \cup ToSet(t)
  BY <1>1, <1>2, <1>3, ConcatFacts
<1>5. Listeners(e) = s \o t
  BY DEF Listeners
<1> QED
  BY <1>2, <1>4, <1>5 DEF Wanted

LEMMA InitOwing == Init => Owing
<1> SUFFICES ASSUME Init PROVE Owing
  OBVIOUS
<1>1. \A l \in Ids : called[l] = <<>> /\ owed[l] = <<>> /\ l \notin ToSet(workvec)
  BY EmptyFacts DEF Init
<1>2. <<>> \o <<>> = <<>>
  OBVIOUS
<1> QED
  BY <1>1, <1>2, EmptyFacts DEF Init, Owing, CalledAsOwed

LEMMA NextOwing == Types /\ Tables /\ Owing /\ [Next]_vars => Owing'
<1> SUFFICES ASSUME Types, Tables, Owing, [Next]_vars PROVE Owing'
  OBVIOUS
<1>0. /\ event \in Events \cup {Tick, NoEvent} /\ workvec \in Seq(Ids)
      /\ called \in [Ids -> Seq(Events)] /\ owed \in [Ids -> Seq(Events)]
      /\ (event # NoEvent <=> dpc \in {"take", "deliver"})
      /\ (workvec # <<>> <=> dpc = "deliver")
  BY DEF Types, TypeOK
<1>1. ASSUME Take PROVE Owing'
  <2>1. event \in Events \cup {Tick} /\ workvec = <<>>
    BY <1>0, <1>1 DEF Take
  <2> DEFINE w == Listeners(event)
  <2>2. /\ workvec' = w /\ called' = called
        /\ event' = IF w = <<>> THEN NoEvent ELSE event
        /\ owed' = [l \in Ids |-> IF event # Tick /\ Wanted(l, event)
                                  THEN Append(owed[l], event) ELSE owed[l]]
    BY <1>1 DEF Take
  <2>3. IsInjective(w) /\ ToSet(w) = {l \in Ids : Wanted(l, event)}
    BY <2>1, ListenersWant
  <2>4. \A l \in Ids : called[l] = owed[l] /\ called[l] \in Seq(Events)
    <3>1. \A l \in Ids : l \notin ToSet(workvec)
      BY <2>1, EmptyFacts
    <3>2. \A s \in Seq(Events) : s \o <<>> = s
      OBVIOUS
    <3> QED
      BY <1>0, <3>1, <3>2 DEF Owing, CalledAsOwed
  <2> HIDE DEF w
  <2>5. ASSUME NEW l \in Ids
        PROVE  called'[l] \o (IF l \in ToSet(workvec') /\ event' # Tick
                              THEN <<event'>> ELSE <<>>) = owed'[l]
    <3>1. CASE Wanted(l, event) /\ event # Tick
      <4>1. l \in ToSet(w) /\ w # <<>>
        BY <2>3, <3>1, EmptyFacts
      <4>2. event' = event /\ owed'[l] = Append(owed[l], event)
        BY <2>2, <3>1, <4>1
      <4>3. called[l] \o <<event>> = Append(called[l], event)
        BY <2>4
      <4> QED
        BY <2>2, <2>4, <3>1, <4>1, <4>2, <4>3
    <3>2. CASE ~ (Wanted(l, event) /\ event # Tick)
      <4>1. owed'[l] = owed[l]
        BY <2>2, <3>2
      <4>2. ~ (l \in ToSet(w) /\ event' # Tick)
        <5>1. l \in ToSet(w) => w # <<>> /\ event' = event
          BY <2>2, EmptyFacts
        <5> QED
          BY <2>3, <3>2, <5>1
      <4>3. called[l] \o <<>> = called[l]
        BY <2>4
      <4> QED
        BY <2>2, <2>4, <4>1, <4>2, <4>3
    <3> QED
      BY <3>1, <3>2
  <2> QED
    BY <2>2, <2>3, <2>5 DEF Owing, CalledAsOwed
<1>2. ASSUME Deliver PROVE Owing'
  <2>1. event \in Events \cup {Tick} /\ workvec # <<>>
    BY <1>0, <1>2 DEF Deliver
  <2> DEFINE h == Head(workvec)
             w == Tail(workvec)
  <2>2. /\ workvec' = w /\ owed' = owed
        /\ called' = IF event = Tick THEN called
                     ELSE [called EXCEPT ![h] = Append(@, event)]
        /\ event' = IF Len(workvec) = 1 THEN NoEvent ELSE event
    BY <1>2 DEF Deliver
  <2>3. /\ h \in Ids /\ w \in Seq(Ids) /\ ToSet(workvec) = ToSet(w) \cup {h}
        /\ IsInjective(w) /\ h \notin ToSet(w) /\ Len(w) = Len(workvec) - 1
    BY <1>0, <2>1, TailFacts DEF Owing
  <2> HIDE DEF h, w
  <2>4. Len(workvec) = 1 => ToSet(w) = {}
    <3>1. w = <<>> <=> Len(w) = 0
      BY <2>3, EmptyLen
    <3>2. Len(workvec) = 1 => Len(w) = 0
      BY <2>3
    <3> QED
      BY <3>1, <3>2, EmptyFacts
  <2>5. ASSUME NEW l \in Ids
        PROVE  called'[l] \o (IF l \in ToSet(workvec') /\ event' # Tick
                              THEN <<event'>> ELSE <<>>) = owed'[l]
    <3>1. called[l] \o (IF l \in ToSet(workvec) /\ event # Tick
                        THEN <<event>> ELSE <<>>) = owed[l]
      BY DEF Owing, CalledAsOwed
    <3>2. l \in ToSet(w) => event' = event
      BY <2>2, <2>4
    <3>3. CASE event = Tick
      <4>1. ~ (l \in ToSet(w) /\ event' # Tick)
        BY <3>2, <3>3
      <4> QED
        BY <2>2, <3>1, <3>3, <4>1
    <3>4. CASE event # Tick /\ l = h
      <4>1. called'[l] = Append(called[l], event) /\ called[l] \in Seq(Events)
        BY <1>0, <2>1, <2>2, <3>4
      <4>2. called[l] \o <<event>> = Append(called[l], event)
        BY <4>1, <2>1, <3>4
      <4>3. Append(called[l], event) \in Seq(Events)
        BY <4>1, <2>1, <3>4, AppendFacts
      <4>4. \A s \in Seq(Events) : s \o <<>> = s
        OBVIOUS
      <4>5. l \in ToSet(workvec) /\ l \notin ToSet(workvec')
        BY <2>2, <2>3, <3>4
      <4>6. called[l] \o <<event>> = owed'[l]
        BY <2>2, <3>1, <3>4, <4>5
      <4> QED
        BY <4>1, <4>2, <4>3, <4>4, <4>5, <4>6
    <3>5. CASE event # Tick /\ l # h
      <4>1. called'[l] = called[l] /\ (l \in ToSet(workvec) <=> l \in ToSet(w))
        BY <1>0, <2>2, <2>3, <3>5
      <4> QED
        BY <2>2, <3>1, <3>2, <3>5, <4>1
    <3> QED
      BY <3>3, <3>4, <3>5
  <2> QED
    BY <2>2, <2>3, <2>5 DEF Owing, CalledAsOwed
<1>3. ASSUME Pop PROVE Owing'
  <2>1. workvec = <<>> /\ UNCHANGED <<workvec, called, owed>>
    BY <1>0, <1>3 DEF Pop, callVars
  <2>2. \A l \in Ids : l \notin ToSet(workvec) /\ l \notin ToSet(workvec')
    BY <2>1, EmptyFacts
  <2> QED
    BY <2>1, <2>2 DEF Owing, CalledAsOwed
<1>4. ASSUME UNCHANGED <<event, workvec, callVars>> PROVE Owing'
  BY <1>4 DEF callVars, Owing, CalledAsOwed
<1>5. ASSUME NEW p \in Threads, Push(p) \/ Unlock(p)
      PROVE  UNCHANGED <<event, workvec, callVars>>
  BY <1>5 DEF Push, Unlock
<1>6. ASSUME Check \/ Reset \/ Block \/ Spindown \/ UNCHANGED vars
      PROVE  UNCHANGED <<event, workvec, callVars>>
  BY <1>6 DEF Check, Reset, Block, Spindown, vars, callVars
<1>7. ASSUME NEW cs, register_listener(cs) PROVE UNCHANGED <<event, workvec, callVars>>
  BY <1>7 DEF register_listener
<1>8. ASSUME NEW l, remove_listener(l) PROVE UNCHANGED <<event, workvec, callVars>>
  BY <1>8 DEF remove_listener
<1> QED
  BY <1>1, <1>2, <1>3, <1>4, <1>5, <1>6, <1>7, <1>8 DEF Next, Dispatcher
-----------------------------------------------------------------------------
(* The order of publication.                                               *)

\* Published one before the other.
Before(pub, x, y) ==
  \E m, n \in DOMAIN pub : pub[m] = x /\ pub[n] = y /\ m < n

\* The events of one set all before those of the other, and those of a
\* sequence one before the next.
AllBefore(pub, A, B) ==
  \A x \in A \cap Events, y \in B \cap Events : Before(pub, x, y)
Sorted(pub, s) ==
  \A i, j \in DOMAIN s :
    i < j /\ s[i] \in Events /\ s[j] \in Events => Before(pub, s[i], s[j])

\* What is published stands before what is published next.
LEMMA PublishFacts ==
  ASSUME NEW pub \in Seq(Events), NEW z \in Events
  PROVE  /\ \A x, y : Before(pub, x, y) => Before(Append(pub, z), x, y)
         /\ \A x \in ToSet(pub) : Before(Append(pub, z), x, z)
<1> DEFINE q == Append(pub, z)
<1>1. /\ DOMAIN q = 1 .. (Len(pub) + 1) /\ DOMAIN pub = 1 .. Len(pub) /\ Len(pub) \in Nat
      /\ \A i \in 1 .. Len(pub) : q[i] = pub[i]
      /\ q[Len(pub) + 1] = z
  BY AppendFacts
<1> HIDE DEF q
<1>2. ASSUME NEW x, NEW y, Before(pub, x, y) PROVE Before(q, x, y)
  <2>1. PICK m, n \in DOMAIN pub : pub[m] = x /\ pub[n] = y /\ m < n
    BY <1>2 DEF Before
  <2>2. m \in DOMAIN q /\ n \in DOMAIN q /\ q[m] = x /\ q[n] = y
    BY <1>1, <2>1
  <2> QED
    BY <2>1, <2>2 DEF Before
<1>3. ASSUME NEW x \in ToSet(pub) PROVE Before(q, x, z)
  <2>1. PICK m \in DOMAIN pub : pub[m] = x
    BY DEF ToSet
  <2>2. m \in DOMAIN q /\ Len(pub) + 1 \in DOMAIN q /\ m < Len(pub) + 1 /\ q[m] = x
    BY <1>1, <2>1
  <2> QED
    BY <1>1, <2>2 DEF Before
<1> QED
  BY <1>2, <1>3 DEF q

\* A sorted sequence that grows by something later, and one that loses its head.
LEMMA SortedAppend ==
  ASSUME NEW pub, NEW S, NEW s \in Seq(S), NEW x \in S,
         Sorted(pub, s), AllBefore(pub, ToSet(s), {x})
  PROVE  Sorted(pub, Append(s, x))
<1> DEFINE t == Append(s, x)
<1>1. /\ DOMAIN t = 1 .. (Len(s) + 1) /\ DOMAIN s = 1 .. Len(s) /\ Len(s) \in Nat
      /\ \A i \in 1 .. Len(s) : t[i] = s[i]
      /\ t[Len(s) + 1] = x
  BY AppendFacts
<1> HIDE DEF t
<1>2. SUFFICES ASSUME NEW i \in DOMAIN t, NEW j \in DOMAIN t, i < j,
                      t[i] \in Events, t[j] \in Events
               PROVE  Before(pub, t[i], t[j])
  BY DEF Sorted, t
<1>3. i \in DOMAIN s /\ t[i] = s[i]
  BY <1>1, <1>2
<1>4. CASE j \in DOMAIN s
  BY <1>1, <1>2, <1>3, <1>4 DEF Sorted
<1>5. CASE j \notin DOMAIN s
  <2>1. t[j] = x
    BY <1>1, <1>5
  <2>2. s[i] \in ToSet(s)
    BY <1>3 DEF ToSet
  <2> QED
    BY <1>2, <1>3, <2>1, <2>2 DEF AllBefore
<1> QED
  BY <1>4, <1>5

LEMMA SortedTail ==
  ASSUME NEW pub, NEW S, NEW s \in Seq(S), s # <<>>, Sorted(pub, s)
  PROVE  Sorted(pub, Tail(s)) /\ AllBefore(pub, {Head(s)}, ToSet(Tail(s)))
<1> DEFINE t == Tail(s)
           h == Head(s)
<1>1. /\ h = s[1] /\ 1 \in DOMAIN s /\ DOMAIN t = 1 .. (Len(s) - 1) /\ Len(s) \in Nat
      /\ \A i \in DOMAIN t : i + 1 \in DOMAIN s /\ t[i] = s[i + 1]
  BY TailFacts
<1> HIDE DEF t, h
<1>2. Sorted(pub, t)
  <2> SUFFICES ASSUME NEW i \in DOMAIN t, NEW j \in DOMAIN t, i < j,
                      t[i] \in Events, t[j] \in Events
               PROVE  Before(pub, t[i], t[j])
    BY DEF Sorted
  <2>1. i + 1 < j + 1
    BY <1>1
  <2> QED
    BY <1>1, <2>1 DEF Sorted
<1>3. AllBefore(pub, {h}, ToSet(t))
  <2> SUFFICES ASSUME NEW y \in ToSet(t), y \in Events, h \in Events PROVE Before(pub, h, y)
    BY DEF AllBefore
  <2>1. PICK i \in DOMAIN t : t[i] = y
    BY DEF ToSet
  <2>2. 1 < i + 1 /\ i + 1 \in DOMAIN s /\ s[i + 1] = y
    BY <1>1, <2>1
  <2> QED
    BY <1>1, <2>2 DEF Sorted
<1> QED
  BY <1>2, <1>3 DEF t, h

\* What is still to be published is new, everything further on is published,
\* and called, the event in hand and the queue stand in the order of
\* publication.
Fresh ==
  /\ IsInjective(published)
  /\ \A p \in Publishers : \A i \in DOMAIN feed[p] : feed[p][i] \notin ToSet(published)
  /\ \A p, q \in Publishers : \A i \in DOMAIN feed[p], j \in DOMAIN feed[q] :
       feed[p][i] = feed[q][j] => p = q /\ i = j
Known ==
  /\ ToSet(event_queue) \subseteq ToSet(published) \cup {Tick}
  /\ event \in ToSet(published) \cup {Tick, NoEvent}
  /\ \A l \in Ids : ToSet(called[l]) \subseteq ToSet(published)
Ordered ==
  /\ Sorted(published, event_queue)
  /\ AllBefore(published, {event}, ToSet(event_queue))
  /\ \A l \in Ids :
       /\ Sorted(published, called[l])
       /\ AllBefore(published, ToSet(called[l]), ToSet(event_queue))
       /\ dpc = "take" \/ l \in ToSet(workvec)
            => AllBefore(published, ToSet(called[l]), {event})

LEMMA InitOrder == Init => Fresh /\ Known /\ Ordered
<1> SUFFICES ASSUME Init PROVE Fresh /\ Known /\ Ordered
  OBVIOUS
<1>1. Fresh
  <2>1. published = <<>> /\ feed = Feed
    BY DEF Init
  <2> QED
    BY <2>1, EmptyFacts, EventBusAssumption DEF Fresh, EventBusAssumption
<1>2. /\ event_queue = <<>> /\ event = NoEvent /\ \A l \in Ids : called[l] = <<>>
  BY DEF Init
<1>3. Known
  BY <1>2, EmptyFacts DEF Known
<1>4. \A pub : Sorted(pub, <<>>)
  BY DEF Sorted
<1>5. \A pub, A : AllBefore(pub, A, {}) /\ AllBefore(pub, {}, A)
  BY DEF AllBefore
<1>6. Ordered
  BY <1>2, <1>4, <1>5, EmptyFacts DEF Ordered
<1> QED
  BY <1>1, <1>3, <1>6
\* Publishing leaves the order as it is and adds one last event to it.
LEMMA OrderGrows ==
  ASSUME NEW pub \in Seq(Events), NEW z \in Events
  PROVE  /\ \A A, B : AllBefore(pub, A, B) => AllBefore(Append(pub, z), A, B)
         /\ \A s : Sorted(pub, s) => Sorted(Append(pub, z), s)
         /\ \A A : A \cap Events \subseteq ToSet(pub) => AllBefore(Append(pub, z), A, {z})
BY PublishFacts DEF AllBefore, Sorted

LEMMA PushOrder ==
  ASSUME Types, Fresh, Known, Ordered, NEW p \in Threads, Push(p)
  PROVE  (Fresh /\ Known /\ Ordered)'
<1>0. /\ event_queue \in Seq(Events \cup {Tick}) /\ published \in Seq(Events)
      /\ feed \in [Publishers -> Seq(Events)] /\ called \in [Ids -> Seq(Events)]
      /\ Tick \notin Events /\ NoEvent \notin Events
  BY EventBusAssumption DEF Types, TypeOK, EventBusAssumption
<1>1. UNCHANGED <<dpc, event, workvec, called>>
  BY DEF Push, callVars
<1>2. CASE p \in Timer
  <2>1. event_queue' = Append(event_queue, Tick) /\ UNCHANGED <<feed, published>>
    BY <1>2 DEF Push
  <2>2. Fresh'
    BY <2>1 DEF Fresh
  <2>3. ToSet(event_queue') = ToSet(event_queue) \cup {Tick}
    BY <1>0, <2>1, AppendFacts
  <2>4. Known'
    BY <1>1, <2>1, <2>3 DEF Known
  <2>5. /\ \A pub, A : AllBefore(pub, A, {Tick})
        /\ \A pub, A, B : AllBefore(pub, A, B) => AllBefore(pub, A, B \cup {Tick})
    BY <1>0 DEF AllBefore
  <2>6. Sorted(published, event_queue')
    BY <1>0, <2>1, <2>5, SortedAppend DEF Ordered
  <2>7. /\ AllBefore(published, {event}, ToSet(event_queue'))
        /\ \A l \in Ids : AllBefore(published, ToSet(called[l]), ToSet(event_queue'))
    BY <2>3, <2>5 DEF Ordered
  <2>8. Ordered'
    BY <1>1, <2>1, <2>6, <2>7 DEF Ordered
  <2> QED
    BY <2>2, <2>4, <2>8
<1>3. CASE p \notin Timer
  <2> DEFINE z == Head(feed[p])
             pub == Append(published, z)
  <2>1. /\ p \in Publishers /\ feed[p] # <<>> /\ event_queue' = Append(event_queue, z)
        /\ published' = pub /\ feed' = [feed EXCEPT ![p] = Tail(feed[p])]
    BY <1>3 DEF Push, HasNext, Threads
  <2>2. /\ z \in Events /\ 1 \in DOMAIN feed[p] /\ z = feed[p][1]
        /\ DOMAIN Tail(feed[p]) \subseteq Nat \ {0}
        /\ \A i \in DOMAIN Tail(feed[p]) : i + 1 \in DOMAIN feed[p] /\ Tail(feed[p])[i] = feed[p][i + 1]
    <3>1. feed[p] \in Seq(Events)
      BY <1>0, <2>1
    <3>2. DOMAIN Tail(feed[p]) = 1 .. (Len(feed[p]) - 1)
      BY <2>1, <3>1, TailFacts
    <3> QED
      BY <2>1, <3>1, <3>2, TailFacts
  <2>3. z \notin ToSet(published)
    BY <2>1, <2>2 DEF Fresh
  <2>4. ToSet(pub) = ToSet(published) \cup {z} /\ IsInjective(pub)
    BY <1>0, <2>2, <2>3, AppendFacts DEF Fresh
  <2>5. ToSet(event_queue') = ToSet(event_queue) \cup {z}
    BY <1>0, <2>1, <2>2, AppendFacts
  <2>6. /\ \A A, B : AllBefore(published, A, B) => AllBefore(pub, A, B)
        /\ \A s : Sorted(published, s) => Sorted(pub, s)
        /\ \A A : A \cap Events \subseteq ToSet(published) => AllBefore(pub, A, {z})
    BY <1>0, <2>2, OrderGrows
  <2> HIDE DEF z, pub
  <2>7. Fresh'
    <3>1. ASSUME NEW q \in Publishers, NEW i \in DOMAIN feed'[q]
          PROVE  \E k \in DOMAIN feed[q] : /\ feed'[q][i] = feed[q][k]
                                           /\ q = p => i \in Nat \ {0} /\ k = i + 1
                                           /\ q # p => k = i
      BY <1>0, <2>1, <2>2
    <3>2. ASSUME NEW q \in Publishers, NEW i \in DOMAIN feed'[q]
          PROVE  feed'[q][i] \notin ToSet(published')
      <4>1. PICK k \in DOMAIN feed[q] : /\ feed'[q][i] = feed[q][k]
                                        /\ q = p => i \in Nat \ {0} /\ k = i + 1
                                        /\ q # p => k = i
        BY <3>1
      <4>2. ~ (q = p /\ k = 1)
        BY <4>1
      <4>3. feed[q][k] # z
        BY <2>1, <2>2, <4>2 DEF Fresh
      <4> QED
        BY <2>1, <2>4, <4>1, <4>3 DEF Fresh
    <3>3. ASSUME NEW q \in Publishers, NEW r \in Publishers, NEW i \in DOMAIN feed'[q],
                 NEW j \in DOMAIN feed'[r], feed'[q][i] = feed'[r][j]
          PROVE  q = r /\ i = j
      <4>1. PICK k \in DOMAIN feed[q] : /\ feed'[q][i] = feed[q][k]
                                        /\ q = p => i \in Nat \ {0} /\ k = i + 1
                                        /\ q # p => k = i
        BY <3>1
      <4>2. PICK m \in DOMAIN feed[r] : /\ feed'[r][j] = feed[r][m]
                                        /\ r = p => j \in Nat \ {0} /\ m = j + 1
                                        /\ r # p => m = j
        BY <3>1
      <4>3. q = r /\ k = m
        <5>1. feed[q][k] = feed[r][m]
          BY <3>3, <4>1, <4>2
        <5> QED
          BY <5>1 DEF Fresh
      <4> QED
        BY <4>1, <4>2, <4>3
    <3> QED
      BY <2>1, <2>4, <3>2, <3>3 DEF Fresh
  <2>8. Known'
    BY <1>1, <2>1, <2>4, <2>5 DEF Known
  <2>9. /\ AllBefore(pub, ToSet(event_queue), {z}) /\ AllBefore(pub, {event}, {z})
        /\ \A l \in Ids : AllBefore(pub, ToSet(called[l]), {z})
    BY <1>0, <2>6 DEF Known
  <2>10. Sorted(pub, event_queue')
    <3>1. Sorted(pub, event_queue)
      BY <2>6 DEF Ordered
    <3>2. event_queue \in Seq(Events \cup {Tick}) /\ z \in Events \cup {Tick}
      BY <1>0, <2>2
    <3> QED
      BY <2>1, <2>9, <3>1, <3>2, SortedAppend
  <2>11. \A q, A, B, C : AllBefore(q, A, B) /\ AllBefore(q, A, C) => AllBefore(q, A, B \cup C)
    BY DEF AllBefore
  <2>12. /\ AllBefore(pub, {event}, ToSet(event_queue'))
         /\ \A l \in Ids : AllBefore(pub, ToSet(called[l]), ToSet(event_queue'))
    BY <2>5, <2>6, <2>9, <2>11 DEF Ordered
  <2>13. Ordered'
    BY <1>1, <2>1, <2>6, <2>10, <2>12 DEF Ordered
  <2> QED
    BY <2>7, <2>8, <2>13
<1> QED
  BY <1>2, <1>3

LEMMA PopOrder ==
  ASSUME Types, Fresh, Known, Ordered, Pop
  PROVE  (Fresh /\ Known /\ Ordered)'
<1>0. /\ event_queue \in Seq(Events \cup {Tick}) /\ dpc = "pop" /\ workvec = <<>>
      /\ UNCHANGED <<workvec, called, feed, published>>
  BY DEF Types, TypeOK, Pop, publishVars, callVars
<1>1. Fresh'
  BY <1>0 DEF Fresh
<1>2. CASE event_queue # <<>>
  <2> DEFINE h == Head(event_queue)
             q == Tail(event_queue)
  <2>1. event' = h /\ event_queue' = q /\ dpc' = "take"
    BY <1>2 DEF Pop, HasEvent
  <2>2. ToSet(event_queue) = ToSet(q) \cup {h}
    BY <1>0, <1>2, TailFacts
  <2>3. Sorted(published, q) /\ AllBefore(published, {h}, ToSet(q))
    BY <1>0, <1>2, SortedTail DEF Ordered
  <2> HIDE DEF h, q
  <2>4. Known'
    BY <1>0, <2>1, <2>2 DEF Known
  <2>5. \A A, B, C : AllBefore(published, A, B) /\ C \subseteq B => AllBefore(published, A, C)
    BY DEF AllBefore
  <2>6. \A l \in Ids : /\ AllBefore(published, ToSet(called[l]), ToSet(q))
                       /\ AllBefore(published, ToSet(called[l]), {h})
    BY <2>2, <2>5 DEF Ordered
  <2>7. Ordered'
    BY <1>0, <2>1, <2>3, <2>6 DEF Ordered
  <2> QED
    BY <1>1, <2>4, <2>7
<1>3. CASE event_queue = <<>>
  <2>1. UNCHANGED <<event, event_queue>> /\ dpc' = "reset"
    BY <1>3 DEF Pop, HasEvent
  <2>2. Known'
    BY <1>0, <2>1 DEF Known
  <2>3. Ordered'
    BY <1>0, <2>1 DEF Ordered
  <2> QED
    BY <1>1, <2>2, <2>3
<1> QED
  BY <1>2, <1>3
LEMMA TakeOrder ==
  ASSUME Types, Tables, Fresh, Known, Ordered, Take
  PROVE  (Fresh /\ Known /\ Ordered)'
<1>0. /\ dpc = "take" /\ dpc' \in {"check", "deliver"} /\ event' \in {event, NoEvent}
      /\ UNCHANGED <<event_queue, called, feed, published>>
      /\ NoEvent \notin Events
  BY EventBusAssumption DEF Take, publishVars, EventBusAssumption
<1>1. Fresh'
  BY <1>0 DEF Fresh
<1>2. Known'
  BY <1>0 DEF Known
<1>3. \A A, B : AllBefore(published, A, {NoEvent}) /\ AllBefore(published, {NoEvent}, B)
  BY <1>0 DEF AllBefore
<1>4. AllBefore(published, {event'}, ToSet(event_queue))
  BY <1>0, <1>3 DEF Ordered
<1>5. \A l \in Ids : AllBefore(published, ToSet(called[l]), {event'})
  BY <1>0, <1>3 DEF Ordered
<1>6. Ordered'
  BY <1>0, <1>4, <1>5 DEF Ordered
<1> QED
  BY <1>1, <1>2, <1>6

LEMMA DeliverOrder ==
  ASSUME Types, Owing, Fresh, Known, Ordered, Deliver
  PROVE  (Fresh /\ Known /\ Ordered)'
<1> DEFINE h == Head(workvec)
           w == Tail(workvec)
<1>0. /\ event \in Events \cup {Tick} /\ workvec # <<>> /\ workvec \in Seq(Ids)
      /\ called \in [Ids -> Seq(Events)] /\ published \in Seq(Events)
      /\ dpc' \in {"check", "deliver"} /\ event' \in {event, NoEvent} /\ workvec' = w
      /\ UNCHANGED <<event_queue, feed, published>>
      /\ NoEvent \notin Events /\ Tick \notin Events
  BY EventBusAssumption DEF Types, TypeOK, Deliver, publishVars, EventBusAssumption
<1>1. h \in Ids /\ ToSet(workvec) = ToSet(w) \cup {h} /\ h \notin ToSet(w)
  BY <1>0, TailFacts DEF Owing
<1>2. called' = IF event = Tick THEN called
                ELSE [called EXCEPT ![h] = Append(called[h], event)]
  BY DEF Deliver
<1> HIDE DEF h, w
<1>3. Fresh'
  BY <1>0 DEF Fresh
<1>4. /\ \A A, B : AllBefore(published, A, {NoEvent}) /\ AllBefore(published, {NoEvent}, B)
      /\ \A A, B, C : AllBefore(published, A, C) /\ AllBefore(published, B, C)
                        => AllBefore(published, A \cup B, C)
  BY <1>0 DEF AllBefore
<1>5. AllBefore(published, {event'}, ToSet(event_queue))
  BY <1>0, <1>4 DEF Ordered
<1>6. ASSUME NEW l \in Ids
      PROVE  /\ ToSet(called'[l]) \subseteq ToSet(published)
             /\ Sorted(published, called'[l])
             /\ AllBefore(published, ToSet(called'[l]), ToSet(event_queue))
             /\ l \in ToSet(w) => AllBefore(published, ToSet(called'[l]), {event'})
  <2>1. CASE l = h /\ event # Tick
    <3>1. called'[l] = Append(called[l], event) /\ event \in Events
      BY <1>0, <1>2, <2>1
    <3>2. ToSet(called'[l]) = ToSet(called[l]) \cup {event}
      BY <1>0, <3>1, AppendFacts
    <3>3. event \in ToSet(published)
      BY <1>0, <3>1 DEF Known
    <3>4. AllBefore(published, ToSet(called[l]), {event})
      BY <1>1, <2>1 DEF Ordered
    <3>5. Sorted(published, called'[l])
      BY <1>0, <3>1, <3>4, SortedAppend DEF Ordered
    <3>6. AllBefore(published, ToSet(called'[l]), ToSet(event_queue))
      BY <1>4, <3>2 DEF Ordered
    <3> QED
      BY <1>1, <2>1, <3>2, <3>3, <3>5, <3>6 DEF Known
  <2>2. CASE ~ (l = h /\ event # Tick)
    <3>1. called'[l] = called[l]
      BY <1>0, <1>1, <1>2, <2>2
    <3>2. l \in ToSet(w) => AllBefore(published, ToSet(called[l]), {event'})
      BY <1>0, <1>1, <1>4 DEF Ordered
    <3> QED
      BY <3>1, <3>2 DEF Known, Ordered
  <2> QED
    BY <2>1, <2>2
<1>7. Known'
  BY <1>0, <1>6 DEF Known
<1>8. Ordered'
  BY <1>0, <1>5, <1>6 DEF Ordered
<1> QED
  BY <1>3, <1>7, <1>8

LEMMA NextOrder ==
  Types /\ Tables /\ Owing /\ Fresh /\ Known /\ Ordered /\ [Next]_vars
    => (Fresh /\ Known /\ Ordered)'
<1> SUFFICES ASSUME Types, Tables, Owing, Fresh, Known, Ordered, [Next]_vars
             PROVE  (Fresh /\ Known /\ Ordered)'
  OBVIOUS
<1> DEFINE orderVars == <<event_queue, event, workvec, called, feed, published>>
<1>1. ASSUME UNCHANGED orderVars, dpc' # "take" \/ dpc = "take"
      PROVE  (Fresh /\ Known /\ Ordered)'
  <2>1. Fresh' /\ Known'
    BY <1>1 DEF Fresh, Known
  <2>2. Ordered'
    BY <1>1 DEF Ordered
  <2> QED
    BY <2>1, <2>2
<1>2. ASSUME NEW p \in Threads, Unlock(p) PROVE UNCHANGED orderVars /\ dpc' = dpc
  BY <1>2 DEF Unlock, callVars
<1>3. ASSUME Check \/ Reset \/ Block \/ Spindown \/ UNCHANGED vars
      PROVE  UNCHANGED orderVars /\ (dpc' # "take" \/ dpc = "take")
  BY <1>3 DEF Check, Reset, Block, Spindown, vars, publishVars, callVars
<1>4. ASSUME NEW cs, register_listener(cs) PROVE UNCHANGED orderVars /\ dpc' = dpc
  BY <1>4 DEF register_listener, publishVars, callVars
<1>5. ASSUME NEW l, remove_listener(l) PROVE UNCHANGED orderVars /\ dpc' = dpc
  BY <1>5 DEF remove_listener, publishVars, callVars
<1> HIDE DEF orderVars
<1> QED
  BY <1>1, <1>2, <1>3, <1>4, <1>5, PushOrder, PopOrder, TakeOrder, DeliverOrder
  DEF Next, Dispatcher

\* What the order says of a listener's calls.
LEMMA OrderedCalls == Types /\ Fresh /\ Ordered => PublishOrder
<1> SUFFICES ASSUME Types, Fresh, Ordered,
                    NEW l \in Ids, NEW i \in DOMAIN called[l], NEW j \in DOMAIN called[l],
                    NEW m \in DOMAIN published, NEW n \in DOMAIN published,
                    called[l][i] = published[m], called[l][j] = published[n], i < j
             PROVE  m < n
  BY DEF PublishOrder
<1>1. called[l] \in Seq(Events)
  BY DEF Types, TypeOK
<1>2. called[l][i] \in Events /\ called[l][j] \in Events
  BY <1>1
<1>3. PICK a, b \in DOMAIN published :
        published[a] = called[l][i] /\ published[b] = called[l][j] /\ a < b
  BY <1>2 DEF Ordered, Sorted, Before
<1>4. a = m /\ b = n
  BY <1>3 DEF Fresh, IsInjective
<1> QED
  BY <1>3, <1>4

-----------------------------------------------------------------------------
(* The theorems.                                                           *)

\* The inductive invariant.
Inv == Types /\ Tables /\ Owing /\ Fresh /\ Known /\ Ordered

LEMMA Invariant == Spec => []Inv
<1>1. Init => Inv
  BY InitTypes, InitTables, InitOwing, InitOrder DEF Inv
<1>2. Inv /\ [Next]_vars => Inv'
  <2>1. Tables => TablesAgree
    BY DEF Tables
  <2> QED
    BY <2>1, NextTypes, NextTables, NextOwing, NextOrder DEF Inv
<1> QED
  BY <1>1, <1>2, PTL DEF Spec

\* The types of the event bus's state hold for any publishers, listeners and
\* channels (eventbus.h:60-160).
THEOREM TypeCorrect == Spec => []TypeOK
<1>1. Inv => TypeOK
  BY DEF Inv, Types
<1> QED
  BY <1>1, Invariant, PTL

\* However many listeners register, are called and remove themselves, the
\* vectors of register_listener and remove_listener hold each of them once
\* for every channel it still listens to.
THEOREM TablesHold == Spec => []TablesAgree
<1>1. Inv => TablesAgree
  BY DEF Inv, Tables
<1> QED
  BY <1>1, Invariant, PTL

\* event_queue_dispatcher calls a listener exactly for what it listened to
\* when the event was taken, whoever comes and goes during the callbacks.
THEOREM CallsOwed == Spec => []CalledAsOwed
<1>1. Inv => CalledAsOwed
  BY DEF Inv, Owing
<1> QED
  BY <1>1, Invariant, PTL

\* Whatever threads publish, every listener is called in the order in which
\* publish queued the events.
THEOREM CallsInOrder == Spec => []PublishOrder
<1>1. Inv => PublishOrder
  BY OrderedCalls DEF Inv
<1> QED
  BY <1>1, Invariant, PTL

=============================================================================
