---------------------------- MODULE HandlerChain ----------------------------
(***************************************************************************)
(* One chain of packet handlers (packetchain.cc): register_int_handler and *)
(* the two remove_handler functions edit a copy of the vector, and the     *)
(* thread that is about to run the chain replaces the vector by the copy.  *)
(* The seven chains are alike. CHAINPOS_POSTCAP is run by the capture      *)
(* threads without a gate, the others by processing threads that hold      *)
(* pack_no_mutex while they iterate (Gated).                               *)
(***************************************************************************)
EXTENDS Integers, Sequences, SequencesExt, FiniteSets

CONSTANTS
  Runners,          \* the threads that run this chain
  Gated,            \* whether they hold pack_no_mutex while they do
  Callbacks,        \* handler functions
  SharedCallbacks,  \* those registered for several connections at once
                    \* (phy_adsb.cc:319), which are removed by id
  Priorities,
  MaxHandlers,      \* bound on next_handlerid
  NoRunner

ASSUME HandlerAssumption ==
  /\ Gated \in BOOLEAN
  /\ SharedCallbacks \subseteq Callbacks
  /\ Priorities \subseteq Int
  /\ MaxHandlers \in Nat
  /\ NoRunner \notin Runners

VARIABLES
  chain, chain_new, chain_update,   \* the vector, its copy, copy in use
  next_handlerid,
  rpc,          \* "idle", "ready" (past the sync block), "run"
  next,         \* the index a loop has come to
  stale,        \* the loops under which the vector was replaced
  called,       \* ids called for the current packet, in order
  gate,         \* owner of pack_no_mutex
  live,         \* ids registered and not removed
  installed,    \* live, as the last sync block found it
  due           \* installed, as each runner's loop found it when it began

vars == <<chain, chain_new, chain_update, next_handlerid, rpc, next,
          stale, called, gate, live,
          installed, due>>
editVars == <<chain_new, chain_update, next_handlerid, live>>
runVars == <<chain, rpc, next, stale, called, gate, installed, due>>

Link == [id : 1 .. MaxHandlers, priority : Priorities, callback : Callbacks]

Init ==
  /\ chain = <<>> /\ chain_new = <<>> /\ chain_update = FALSE
  /\ next_handlerid = 1
  /\ rpc = [r \in Runners |-> "idle"]
  /\ next = [r \in Runners |-> 1] /\ stale = {}
  /\ called = [r \in Runners |-> <<>>]
  /\ gate = NoRunner
  /\ live = {} /\ installed = {}
  /\ due = [r \in Runners |-> {}]

Ids(s) == {s[i].id : i \in DOMAIN s}

-----------------------------------------------------------------------------
(* Registration, under packetchain_mutex.                                  *)

\* The copy to edit: the vector itself unless a copy is pending already.
Edited_Stale == chain
Edited == IF chain_update THEN chain_new ELSE chain

\* The chain as the next packet will find it.
Effective == IF chain_update THEN chain_new ELSE chain

\* The elements of s at the indices of preceding, which maps each index to
\* those that come before it, in that order.
Arranged(s, preceding) ==
  LET At(k) == CHOOSE i \in DOMAIN preceding :
                 Cardinality(preceding[i]) = k - 1
  IN  [k \in 1 .. Cardinality(DOMAIN preceding) |-> s[At(k)]]

\* stable_sort by priority.
SortsBefore(s, i, j) ==
  \/ s[i].priority < s[j].priority
  \/ s[i].priority = s[j].priority /\ i < j
StableSort_None(s) == s
StableSort(s) ==
  Arranged(s, [i \in DOMAIN s |-> {j \in DOMAIN s : SortsBefore(s, j, i)}])

register_int_handler(cb, prio) ==
  /\ next_handlerid <= MaxHandlers
  /\ cb \in SharedCallbacks
       \/ \A i \in DOMAIN Effective : Effective[i].callback # cb
  /\ chain_update' = TRUE
  /\ chain_new' = StableSort(Append(Edited,
                    [id |-> next_handlerid, priority |-> prio,
                     callback |-> cb]))
  /\ next_handlerid' = next_handlerid + 1
  /\ live' = live \cup {next_handlerid}
  /\ UNCHANGED runVars

\* The loop erases element x and goes on with x + 1, so the element after an
\* erased one is never compared: of neighbours that match, every other one
\* goes.
Erased(s, ids, i) ==
  \E first \in 1 .. i :
    /\ \A j \in first .. i : s[j].id \in ids
    /\ first = 1 \/ s[first - 1].id \notin ids
    /\ (i - first) % 2 = 0
EraseMatching(s, ids) ==
  LET kept == {i \in DOMAIN s : ~Erased(s, ids, i)}
  IN  Arranged(s, [i \in kept |-> {j \in kept : j < i}])

\* The links of a callback function.
IdsOf(cb) == {Effective[i].id : i \in {j \in DOMAIN Effective :
                                         Effective[j].callback = cb}}

remove_handler(ids) ==
  /\ chain_update' = TRUE
  /\ chain_new' = EraseMatching(Edited, ids)
  /\ live' = live \ ids
  /\ UNCHANGED <<next_handlerid, runVars>>

remove_handler_id(id) == remove_handler({id})
remove_handler_cb(cb) == remove_handler(IdsOf(cb))

-----------------------------------------------------------------------------
(* Running the chain for one packet.                                       *)

\* The sync block, under packetchain_mutex.
Sync_KeepFlag(r) ==
  /\ rpc[r] = "idle"
  /\ rpc' = [rpc EXCEPT ![r] = "ready"]
  /\ installed' = live
  /\ IF chain_update
     THEN chain' = chain_new /\ chain_new' = <<>>
          /\ stale' = {q \in Runners : rpc[q] = "run"}
     ELSE UNCHANGED <<chain, chain_new, stale>>
  /\ UNCHANGED <<chain_update, next_handlerid, live, next, called, gate, due>>
Sync(r) ==
  /\ rpc[r] = "idle"
  /\ rpc' = [rpc EXCEPT ![r] = "ready"]
  /\ installed' = live
  /\ IF chain_update
     THEN /\ chain' = chain_new
          /\ chain_new' = <<>>
          /\ chain_update' = FALSE
          /\ stale' = {q \in Runners : rpc[q] = "run"}
     ELSE UNCHANGED <<chain, chain_new, chain_update, stale>>
  /\ UNCHANGED <<next_handlerid, live, next, called, gate, due>>

\* The loop over the vector, unlocked, begins.
Begin(r) ==
  /\ rpc[r] = "ready"
  /\ Gated => gate = NoRunner
  /\ gate' = IF Gated THEN r ELSE gate
  /\ rpc' = [rpc EXCEPT ![r] = "run"]
  /\ due' = [due EXCEPT ![r] = installed]
  /\ UNCHANGED <<chain, next, stale, called, installed, editVars>>

Call(r) ==
  /\ rpc[r] = "run" /\ r \notin stale
  /\ next[r] <= Len(chain)
  /\ called' = [called EXCEPT ![r] = Append(@, chain[next[r]].id)]
  /\ next' = [next EXCEPT ![r] = @ + 1]
  /\ UNCHANGED <<chain, rpc, stale, gate, installed, due, editVars>>

\* The loop ends. After the vector was replaced under it, its iterators point
\* into freed or overwritten storage: it may have called anything and may end
\* at any time.
End(r) ==
  /\ rpc[r] = "run"
  /\ r \in stale \/ next[r] > Len(chain)
  /\ rpc' = [rpc EXCEPT ![r] = "idle"]
  /\ gate' = IF Gated THEN NoRunner ELSE gate
  /\ next' = [next EXCEPT ![r] = 1]
  /\ called' = [called EXCEPT ![r] = <<>>]
  /\ due' = [due EXCEPT ![r] = {}]
  /\ stale' = stale \ {r}
  /\ UNCHANGED <<chain, installed, editVars>>

-----------------------------------------------------------------------------
Register == \E cb \in Callbacks, prio \in Priorities :
              register_int_handler(cb, prio)
RemoveId == \E id \in live : remove_handler_id(id)
\* An owner removes what it registered.
RemoveCb == \E cb \in Callbacks \ SharedCallbacks :
              /\ \E i \in DOMAIN Effective : Effective[i].callback = cb
              /\ remove_handler_cb(cb)

Next ==
  \/ Register \/ RemoveId \/ RemoveCb
  \/ \E r \in Runners :
       Sync(r) \/ Begin(r) \/ Call(r) \/ End(r)

Spec == Init /\ [][Next]_vars

-----------------------------------------------------------------------------
TypeOK ==
  /\ chain \in Seq(Link) /\ chain_new \in Seq(Link)
  /\ chain_update \in BOOLEAN
  /\ next_handlerid \in 1 .. (MaxHandlers + 1)
  /\ rpc \in [Runners -> {"idle", "ready", "run"}]
  /\ next \in [Runners -> 1 .. MaxHandlers + 1] /\ stale \subseteq Runners
  /\ called \in [Runners -> Seq(1 .. MaxHandlers)]
  /\ gate \in Runners \cup {NoRunner}
  /\ live \subseteq 1 .. MaxHandlers /\ installed \subseteq 1 .. MaxHandlers
  /\ due \in [Runners -> SUBSET (1 .. MaxHandlers)]

\* The chain the next packet will meet holds exactly the handlers that were
\* registered and not removed since, through any number of edits and
\* replacements: no edit is lost with a copy, none is applied to a stale one
\* (packetchain.cc:640-952).
EditsApplied == Ids(Effective) = live /\ Len(Effective) = Cardinality(live)

\* Handlers run by ascending priority, and in the order of registration where
\* it is equal (stable_sort, packetchain.cc:671).
PriorityOrder ==
  \A i, j \in DOMAIN Effective :
    i < j => \/ Effective[i].priority < Effective[j].priority
             \/ /\ Effective[i].priority = Effective[j].priority
                /\ Effective[i].id < Effective[j].id

\* A packet whose loop was not disturbed has been shown to every handler that
\* was registered at the last sync block before the loop, once, and to no
\* handler whose removal had returned by then.
PacketSeesDue ==
  \A r \in Runners :
    rpc[r] = "run" /\ r \notin stale /\ next[r] > Len(chain)
      => /\ ToSet(called[r]) = due[r]
         /\ Len(called[r]) = Cardinality(due[r])
=============================================================================
