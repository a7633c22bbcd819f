# Kismet in TLA+

TLA+ models of the core of the Kismet server (`src/kismet`), model-checked with
TLC and, for the results under *Proofs*, proved with TLAPS. File names below are
relative to `src/kismet`. `src/README.md` describes Python export clients that
are not in the tree; everything here is about the C++ server.

## The system

Kismet is one multi-threaded server process and a set of capture tools, each a
process of its own.

* IO threads run an asio event loop. On it a data source (`kis_datasource`)
  talks to its capture tool over pipes or a socket (`kis_external_interface`),
  decodes its reports, and hands packets to `packet_chain::process_packet`.
* Packet threads take packets from their queues, recognise duplicates, dissect
  them, and update the trackers through packet handlers.
* A timer thread (`time_tracker::time_dispatcher`) starts timer callbacks.
* An event thread (`event_bus::event_queue_dispatcher`) calls listeners.
* Web sessions (`kis_net_beast_httpd`) call into all of these and may wait for
  an asynchronous command.
* A signal thread sets `spindown`; the main thread then shuts down.

### Inventory

| component | state | operations | interacts with | hard | correct when |
|---|---|---|---|---|---|
| packet chain (`packetchain.cc`) | queue per thread, dedupe ring, packet counter, 7 handler vectors and their pending copies | process_packet, packet_queue_processor, register/remove_handler, destructor | called by sources, calls every tracker | several producers and consumers, locks kept across chains, vectors replaced under readers | packets are processed once, in device order, as if by one thread; duplicates copy finished originals; queues are bounded; registrations take effect; shutdown ends once nothing is captured any more |
| event bus (`eventbus.cc`) | queue, wake-up lock, listener tables | publish, register/remove_listener, dispatcher | everyone | wake-up between check and wait, tables changed while events are delivered | listeners see what they asked for, once, in order, eventually |
| timers (`timetracker.cc`) | timer map, sorted list, removals, worker threads | register/remove_timer, dispatcher, callback threads | everyone | removal and rescheduling against a running pass, time arithmetic | due timers run, removed ones go away, callbacks do not overlap |
| source (`kis_datasource.cc`, `kis_external.cc`, `ipctracker_v2.cc`) | command map, connection, flags, retry timer, deferred open | open, configure, disable, reports, errors, close, timeouts, reaper | capture tool, timers, packet chain, web | reports, timers, errors and closes race for one command; connections are replaced | each command is answered once; dead tools are closed |
| datasource tracker (`datasourcetracker.cc`) | sources, probe and list requests | probe, list, open, merge, remote connections | sources, timers, web | several tools asked at once, failures while launching | a request answers once, a success counts, requests are purged |
| device tracker (`devicetracker.cc`, `devicetracker_view.cc`) | devices by key, by address and by slot; views | update_common_device, idle and limit timers, views | packet handlers, events, timers | removal between packet and event, three tables and many views | tables agree, views show what they should, the limit holds |
| alert tracker (`alertracker.cc`) | definitions with rate and burst counters, backlog | define, raise, one-shot | packet handlers | limits tested and counted under different holds of the lock; answers stamped before they are filled | the limits hold over every window of time; a client that polls misses no alert |
| buffers and streams (`future_chainbuf.h`, `streamtracker.cc`, `pcapng_stream_futurebuf.h`) | chunks, waits of both sides, interface numbers | write, consume, wait, cancel, complete, restart | packet handlers, log threads, web sessions | a reader and a writer that wait for each other; a stream that starts again on a new buffer | no block lost or repeated, every file readable alone, a close ends |
| logs (`logtracker.cc`, `kis_pcapnglogfile.cc`, `kis_databaselogfile.cc`) | files, the log's thread | open, rotate, close, export | packet chain, streams, web | rotation against a close, errors on the log's own thread | files hold what was captured, in order |
| web server, GPS, message bus, channel tracker, system monitor, plugins, configuration, filters | tables, files | mostly I/O and lookups | event bus, timers | reconnects | - |
| radio protocols and dissectors (`phy_*`, `kis_dlt_*`) | what is known of a device | packet handlers | packet chain, device tracker | parsing | - |
| tracked elements, entry tracker, registry | typed data, names, globals | set, get, serialise | everyone | lifetime | - |
| capture framework and tools (`capture_*`) | two ring buffers, spindown, ping watchdog, capture and hop threads | main loop, dispatch of commands, cf_send_data, waits for room | sources, over pipes | a loop, a capture thread and a server that fall silent or leave at any step | commands are answered, frames reach the server once and in order, nobody waits for ever |

`PROJECT.json` lists every component with its sources and status. boost, fmt,
nlohmann, jwt-cpp, moodycamel, mpack, protobuf, kaitai and the web interface's
files are third-party or generated.

## Modules

### PacketChain, PacketPipeline, MCPacketChain, PacketChainProofs

`PacketChain` models `process_packet` (as two steps, the queue's length being
read before the packet is queued), `packet_queue_processor` with one step per
lock, the dedupe scan, the chains and the unlocks, and `~packet_chain`. A capture
thread that comes to a queue the destructor has deleted, to measure it or to append
to it, brings the server down (`UseDeleted`): nothing runs after that.
Variables have the names of the code; `feed` is what each capture thread will
hand over, `done` the order in which packets went through the chains. A frame is
reduced to its CRC; the handlers of the chains are one step. The queue is
moodycamel's: FIFO for each producer, no order between producers.

`PacketPipeline` is what this promises: a sequential machine that takes an
accepted packet, judges it against the unique packets before it, numbers it and
logs it. `PacketChain!ImplementsPipeline` states the refinement; its mapping
turns queues and busy threads into the set of accepted packets, and `done` with
the packets' fields into the log. `PacketConserved` names the places a packet can
be in (with a capture thread, queued, processed by a thread, refused, finished)
and says that each packet is in exactly one, and there once.

### HandlerChain, HandlerChainProofs

One handler vector: `register_int_handler`, `remove_handler` by id and by
callback (with the code's loop, which skips the element after an erased one),
the sync block and the unlocked loop. `Gated` says whether the runners hold
`pack_no_mutex`, as all chains but the post-capture chain do. Callers keep to
what the repository does: a callback is registered once, unless it is one of the
shared ones that are removed by id. Sorting and erasing are defined by rank: the
k-th element of the result is the one with k - 1 elements before it. This is what
`stable_sort` and the erase loop compute, without a recursive definition.

### EventBus, MCEventBus, EventBusProofs

publish, the dispatcher, registration, and `conditional_locker`, with its three
mutexes apart. `owed` and `called` are history. `Timer` publishes the statistics
event that `packet_chain` publishes every second (packetchain.cc:167). The events
a behaviour publishes are told apart, and a listener that asks for "*" asks for
nothing else, as all callers of the repository do.

### TimeTracker, MCTimeTracker, TimeTrackerProofs

Registration and removal, the pass with its sorted copy, `joinable` worker
slots, callback threads that reschedule or end, and the arithmetic of trigger
times. The sweep leaves the list of the timers that stay, in their order.
Where a trigger time is read while it is written, both outcomes of the
comparison are possible.

### Datasource, DatasourceProofs

One local source: commands with their 30 second timers, the strand of each
connection (every launch has one), the timer thread with retries, expiries and
the reaper, and web sessions that open, tune and disable. `trigger_error`,
`handle_error`, `handle_source_error`, `cancel_all_commands` and the two closes
are steps of a job of one thread; what holds `ext_mutex` throughout is one step.
A close posted to a strand acts on whichever connection there is when it runs.

### DatasourceTracker, DatasourceTrackerProofs

Probe and list requests: the loop that launches tools, the reports, the timers,
`cancel()` in its parts (the mark under the lock, the callback without it, the
final sweep), and the tracker's cleanup of completed requests. The module of
proofs also holds those about the streams.

### DeviceTracker, DeviceTrackerProofs

Devices by key, by address and by slot, updates by packets, the NEW_DEVICE and
NEW_DATASOURCE events, the two purge timers, and the views of all devices and of
each source. Reading a null slot sets `up` to FALSE: the server has ended.

### AlertTracker, MCAlertTracker, AlertTrackerProofs

Definition and activation of alerts, `potential_alert`, and `raise_alert` in the
steps its locks leave: the check of the limits, the time stamp, the two counters
(each a read and a write without the mutex), `time_last`, the backlog. A wall
clock in ticks; the code compares whole seconds. Clients of
`last_alerts_endpoint` ask again with the stamp of their last answer, which is
taken before the mutex is. `counted`, `published`, `alone`, `listed` and `late`
are histories.

### PcapngStream, PacketLog, MCPcapngStream

A pcapng stream in its three uses: the pcapng log with its thread and rotation,
a live capture of a web session, and an export of the kismetdb log. An interface is
what the code describes in a file, a source with a link type; `Number` is that of
its source and `Index` its hash, of which nothing is assumed: interfaces may share
it, as they may in the code. `MCPcapngStream` computes it as the code does. A block
is one unit of the buffer. The stream's writer holds `pcap_mutex` while it is busy;
the reader is the log's thread or the session's loop; the closer is `close_log`
or `stop_stream`. A buffer that rotation deleted may be cancelled in vain or end
the server. `PacketLog` is what both this and `CaptureTool` promise: packets are
accepted in order and logged once, in that order.
`PcapngStream!ImplementsLog` and `CaptureTool!FramesDelivered` are the
refinements. The stream's mapping gives each packet a place (the file it is in
or will be in, and the index there) and lists packets in the order of their
places, which covers the files, the old buffer during a rotation and the buffer
at once; the tool's takes what the server has and will get, pongs aside.

The proofs about the stream are in `DatasourceTrackerProofs`, which extends both
modules, as the tracker opens a stream for each live capture of a source; hence
the names `StreamInit`, `StreamNext` and so on.

### CaptureTool

One capture tool: the main loop of `capture_framework.c` from check to check,
its two ring buffers in frames, the server at the other end of two bounded
pipes, `spindown`, and the capture thread with `cf_send_data` and
`cf_handler_wait_ringbuffer`. Reads handle one frame each, as
`cf_handle_rb_rx_data` does; what finds no room is dropped in silence. The proofs
about it are in `DatasourceProofs`, with those of the other end of its pipes.

### Types

`TypeOK` of each module (`TypeInv` of `PacketChain`, `StreamTypeOK`, `ToolTypeOK`) is
its type invariant. All of them are proved, so most runs spend their time on other
invariants; it can be added to any `INVARIANTS` line.

## Runs

| run | question | distinct states |
|---|---|---|
| `packet_chain` | Are chains serial, originals complete, order right, queues bounded, packets conserved; do queued packets get processed; does the destructor end, or a capture thread use a queue it deleted; is it the pipeline? | 219,211 |
| `handler_chain` | Are edits applied once, in priority order, and does a packet see what was due? | 78,663 |
| `event_bus` | Do tables agree, calls match, order hold, events get dispatched? | 53,734 |
| `timers` | Are callbacks serial, trigger times right, due timers run, removed ones swept? | 90,726 |
| `datasource` | Is each command answered once, and each sent one answered; is a dead tool closed? | 453,656 |
| `datasource_answer` | Is an open always answered? *Violated.* | 4,441 |
| `datasource_tracker` | Does a request answer once, a success count, a probe end, a completed request get purged? | 158,423 |
| `device_tracker` | Do tables and views agree, is the limit kept? | 151,016 |
| `device_purge` | Are older devices purged? *Violated.* | 169 |
| `alert_tracker` | Do the limits hold over every window, and does a client that polls miss nothing? | 5,322,512 |
| `pcapng_stream` | Can every file be read alone, does a close end, is it a log of the packets? | 116,488 |
| `capture_tool` | Are commands answered, is a waiting capture woken, are frames delivered? | 662,306 |

Every property of a passing run has a mutant in `PROJECT.json`: an operator next
to the one it mutates, named `<definition>_<what is wrong>`, with which the
property fails.

### Bounds, and why they are enough

* `packet_chain`: two producers, two threads, four packets. Packets p1 and p2
  are one device; p4 repeats the frame of p1; p3 has none. A dedupe list of one
  entry wraps with the second unique packet, so p4 is a duplicate or unique by
  the order of processing. A backlog limit of one is exceeded by two producers
  that saw room together.
* `handler_chain`: three registrations, two priorities, one callback that may be
  registered twice, two ungated runners. Three handlers are the fewest with an
  element after an erased one and one left. The ids bound the run.
* `event_bus`: two publishers with an event each on different channels, two
  listeners out of three kinds of subscription, and at most one queued tick.
* `timers`: one timer of each kind; clock readings around a second's end, chosen
  so that the sum of microseconds meets 999999 and 1000000.
* `datasource`: one session, two opens, one configure command and two launches
  that succeed. With two launches a close can meet a connection it was not meant
  for. The tool of the last launch does not exit by itself, as there would be no
  room left for the retry that follows.
* `datasource_tracker`: a probe and a list over the same two drivers: the fewest
  with a second report between a success and its cancel.
* `device_tracker`: two keys and three objects, so that a device comes back
  under a new object while its old one is still listed; a limit of one; packets
  may carry a time in the past, as those of a replayed file do.
* `alert_tracker`: one alert (alerts share nothing but the mutex and the
  backlog), two raisers, the fewest that overlap, and three alerts, one more than
  the default rate; units of one to three ticks, so that windows begin and end
  within the run; a backlog of one, so that alerts leave it. Limits of every
  kind are defined, one that `register_alert` refuses among them.
* `pcapng_stream`: three interfaces: two of one source with different link types,
  and one of another source whose hash is that of the first, by the code's formula
  (`MCIndex`). So an interface number can be wrong, and hashes collide in a file.
  Three packets and a buffer of four blocks, so that it fills; a size of three
  blocks and three files, so that a rotation can follow a rotation.
* `capture_tool`: two commands and two data frames, ring buffers of two frames
  and pipes of two and one, so that both sides meet a full buffer.

`CHECK_DEADLOCK FALSE` is set where a run ends: threads that have exited, feeds
that are used up, a tool that has left its loop, or a server that has ended.
`alert_tracker` needs no such line: a client can always ask.

### Fairness, and why the code justifies it

Threads of the server that can run do run (weak fairness of each processing,
dispatcher, strand and timer step). A mutex is granted to a thread that keeps
asking for it (strong fairness of the steps that take one others take again and
again: `Pop`, `Pass`, `Sweep`). Callbacks return. The once-a-second statistics
timer keeps firing (`Push` of `Timer`). Nothing is assumed of users, of radio
traffic, of signals or of capture tools: a tool may never report, and a packet
may never come.

`PcapngStream`: the stream's writer, its reader and a close once begun go on;
nobody need close. `CaptureTool`: the main loop and the capture thread are
scheduled; a server that is up sends its pings, which are seconds apart, and
takes what the tool writes; the 15 seconds of the ping watchdog pass (`SF` of
`PingTimeout`, which the loop tests at its top whenever it comes round). A server
may fall silent or leave at any step.

## Proofs

For every value of the constants that meets the modules' assumptions:

* `PacketChainProofs!TypeCorrect`: `TypeInv`, by an induction split into the
  capture threads, the processing threads and shutdown. It holds the typing and
  that a call or an iteration under way has its packet, without which `Head` of
  a feed or `mutex[wpkt[t]]` would mean nothing.
* `PacketChainProofs!ChainsAreSerial`: strengthened with "a thread between
  `dedupe` and `finish` owns `pack_no_mutex`", for any number of threads.
* `PacketChainProofs!QueuesBounded`: a queue's length plus the capture threads
  that measured it short and have not yet queued never exceeds the limit plus
  the number of capture threads (and the destructor's null). The sum is what is
  inductive; the bound alone is not, as a thread that has measured may add to a
  queue at its limit.
* `PacketChainProofs!PacketsConserved`: `PacketConserved` is inductive with the
  types. Its parts need each other: a packet leaves one place for the next
  (`OneMoves`, and a lemma for each step that moves one), and it leaves the first
  only if no sequence holds it twice, which is why the property also forbids a
  repeat in a feed, a queue or `done`. The packets a capture thread hands over are
  distinct objects (`CaptureAssumption`).
* `PacketChainProofs!DevicesInOrder`: `OrderInv` says that what a capture thread
  still holds is the end of what it captured; that a packet with an assignment
  id is only in the queue, or with the thread, of its id (`InLane`); and that a
  packet that follows another of its device is never further on (`NotPast`), be it
  in the feed, in the queue (behind it), in the thread or finished.
* `PacketChainProofs!OriginalsComplete`: what was judged is what is in the gate or
  through it, and every entry of the dedupe list names a packet that was judged
  (`JudgedInv`). As the gate has one owner, all of these but the owner's own packet
  are through the chains.
* `PacketChainProofs!ImplementsThePipeline`: every step is a step of
  `PacketPipeline` or leaves its variables alone; the step that takes a packet
  from the pipeline is the end of its chains. By then its number and original have
  been written by an earlier step, so the proof needs that they still are what the
  pipeline would decide: `NumberInv` and `NumbersInOrder` (each unique packet has the
  number of its rank, no rank is left out or used twice, and unique packets finish
  in that order), `RingInv` (the list holds the last `DedupeSize` unique packets, at their rank modulo its
  length) and `VerdictInv` (the entry for the packet in the gate is the verdict of
  the pipeline on the log so far), besides the order of devices. Serial chains
  are what keeps a verdict true until it is logged.
* `HandlerChainProofs!AllEditsApplied`, `!OrderedByPriority`: a chain is `WellFormed`
  when its ids are its own and below the next one, it is sorted, and it holds a
  callback that is not shared once. Registration and removal keep this (lemmas
  `Registers`, `Removes`) by what a list arranged by rank holds (`RankTaken`,
  `ArrangedElements`). That the erase loop skips an element never matters, since
  a removal meets one link at most (`RemovesOne`).
* `HandlerChainProofs!PacketsSeeDue`: `RunInv` says that the vector holds what the
  last sync block found registered, and that a loop whose vector is in place has
  called its ids up to the index it has come to. `!TypeCorrect` follows: no loop's
  index passes the ids there are, which is what its bound on `next` says.
* `DatasourceTrackerProofs!RequestsAnswerOnce`, `!SuccessesCount`: `IInv` ties
  `cancelled` to `cancel_at`, says that nothing is answered before the callback,
  and that a success recorded by a live probe has stored its builder.
  `answers` alone is not inductive: that `Call` is taken once is a fact about
  `cancel_at`, which `cancel()` moves from `idle` only once.
* `DatasourceTrackerProofs!RequestTypeCorrect`, the type invariant: `WaitInv` adds
  to it `IInv`, the types of the tables, that a request which has not begun has
  nothing in them, that a tool still to be launched has done nothing, and that
  the timer thread is at one request at a time. The last is what lets a timeout
  take the timer of a silent tool: until its `cancel()` no other can start. A
  step concerns one request, so each lemma shows that one and `OneAgrees` the rest.

* `DeviceTrackerProofs!TypeCorrect`, `!AcceptedAreShown`, `!PresencesAreListed`:
  `IInv` joins the tables, the typing of the views and both view properties. It
  is needed as a whole: a view that forgets the key of one object loses no other
  live device only because the tables leave a key one live object, and a purge
  that does not tell the views is harmless to these properties only because
  they allow an earlier object of the key in the list.
* `DeviceTrackerProofs!LimitIsHeld`: the purge drops all but `MaxDevices` slots,
  so whatever slots were null before, no more devices are left alive.

* `AlertTrackerProofs!FollowersMissNone`: `FollowerMissesNone` is inductive with
  the types. An answer takes `since` from its stamp to the next only after it
  listed what is newer; a publish adds its own number to the backlog and no old
  one.
* `AlertTrackerProofs!LimitsHold`: that a sliding window never holds more than
  the limit although `check_times` only keeps two counters that it resets when
  the alert was idle. `LimitsInv` says that the counters, and whatever a raise
  has read of them to write back, are at least the number of undisturbed alerts
  of the window that ends now (`Covered`); that those are no newer than
  `time_last` and than any raise under way (`Ordered`), so that idle means the
  window is empty; that two raises of an alert under way are never undisturbed
  (`Apart`); and that an undisturbed raise has room left in the window it will
  be stamped into (`HasRoom`). None of these holds by itself: without `Apart` a
  store could undo another's, without `Ordered` a reset could forget an alert.

* `EventBusProofs!TypeCorrect`, `!TablesHold`, `!CallsOwed`, `!CallsInOrder`:
  `Tables` says where an id may stand: in the vector of each channel it listens
  to, once, and nowhere if it was never given out or was removed; the erase of
  `remove_listener` keeps this only because a vector holds an id once. `Owing`
  follows the copy of the callbacks: what is owed is what was called and what is
  still in the copy. `Ordered` says that calls, the event in hand and the queue
  stand in the order of publication, and `Fresh` and `Known` that what is still to
  be published is none of them; order alone is not inductive, as an event that
  came twice would be before itself.
* `DatasourceProofs!CallbacksOnce`: `Good` says that a request waits in one place
  at most (`command_ack_map`, `deferred_event`, or the session that launches), and
  that its callback was not called while it waits. A report, an expiry, an error
  and a close all find it there, and the first to do so takes it away; only
  "nobody has it in two places" makes that enough.
* `DatasourceProofs!SourceTypeCorrect`, the type invariant, in three parts next to
  `Good`. `RetryTimers`: the error timers are finitely many, so there is a number
  for the next (`FreeNumber`); there is no bound on them, as a re-open that finds
  no tool forgets the number of a timer that is still registered. `Link`: what the
  tool owes was asked for, and a close forgets it with the connection. `Work`: a
  strand has neither a job nor a posted close before its launch; without the
  posted ones this is not inductive.
* `TimeTrackerProofs!SerialCallbacks`: of any number of worker slots only the
  first is ever used, as it is joined before the next callback starts.
* `TimeTrackerProofs!TriggersInTime`: for any clock and number of timeslices, given
  that a second is a whole number of timeslices of whole microseconds
  (`SliceAssumption`, config.h.in:331). Stored times are what `Trigger` computes
  from the stored start; the rest is arithmetic, with the carry at 999999 that
  makes a timer up to a second late.
* `TimeTrackerProofs!OneShotsAtMostTwice`: `Lists` says that the sorted list and the
  copy a pass walks hold timers of the map, each once, and that the copy is empty
  outside a pass; `Starts` that a one-shot timer started once is running, waits to
  be swept or has left the map, and that one started twice is out of the copy and
  is swept by the end of the pass, or has left. The bound alone is not inductive:
  what stops a third start is that the second one joined the first run, which had
  by then put the timer among those to be removed.
* `TimeTrackerProofs!TypeCorrect`: beyond `Lists`, that the sorted list has every
  timer of the map (`AllListed`). A sort arranges a finite set, and an arrangement
  without repetition has all of it (`AllArranged`); the sweep keeps the same
  timers in both.

* `DatasourceTrackerProofs!FilesAreReadable`: `StreamInv` is a statement about
  every file and buffer together. `Legible` says of each file, followed by what is
  still in its buffer (`Whole`), what the property says of the file; `MapAgrees` that
  the stream's map holds as many numbers as the current file and buffer describe
  interfaces, each that of one with the hash it is kept under; and
  `Aligned` which buffer belongs to which file while the reader rotates. The map
  knows interfaces by their hash, so all of this is up to the hash (`Alike`): a
  packet names an interface of its file that has the hash of its own. No property
  of the hash is used; `!OwnInterfaceNamed` draws the consequence that a packet whose
  interface shares its hash with no other names its own. The file
  alone is not inductive: that a packet's interface is described before it is
  decided when the stream puts the block, long before a thread writes it, perhaps
  across a rotation. A restart that kept the map would break `MapAgrees` at once and
  the property only when the next packet is written.
* `DatasourceTrackerProofs!StreamTypeCorrect` follows from it.
* `DatasourceTrackerProofs!StreamRefinesLog`, the safety half of `ImplementsLog`: a
  step of the stream adds one packet with the last place, which lengthens what is
  accepted; a write moves the first place that was not written; a rotation moves
  none. `StreamLogInv` says why a write is that of the first one: while nothing
  failed, buffers before the reader's are drained, but for the one a rotation is
  emptying, which it does before it writes from the next. The lemmas on `InOrder`
  (`PlaceTaken`, `FirstListed`, `LastListed`, `NextListed`) say that each rank is
  that of one place, and that a set's earliest members come first in its list.
* `DatasourceProofs!ToolRefinesLog`, the safety half of `FramesDelivered`: `ToolInv`
  adds to the types (`!ToolTypeCorrect`) that a loop that leaves has nothing buffered
  and no capture thread that could still queue, or has failed. That is what makes
  the exit lose nothing: it is inspected one step before the loop leaves, with
  `spindown` copied before, and the capture thread runs in between. `NoPongsJoins`
  (pongs are left out of two queues as of each) carries a frame from the ring
  buffer through the pipe to the server without disturbing the order.

The assumptions on constants are the `ASSUME`s of the component modules,
which TLC evaluates on the runs.

Only model-checked: the progress properties (`~>` under fairness), which are out of
the prover's reach, and for the same reason the half of `ImplementsLog` and
`FramesDelivered` that is fairness: that what was accepted is written in the end.
Every safety property a passing run checks is proved. The two runs that end in a
violation prove nothing.

## What the code does otherwise

Shown by a run (see `findings` in `PROJECT.json`):

* An open whose launch fails, or which is closed before the first pong, never
  calls back (kis_datasource.cc:336); the web session waits for ever.
* Above `tracker_max_devices` the newest devices go (devicetracker.cc:1551).

Met while reading, and modelled as they are, without a run of their own:

* packetchain.cc:403, against the comment at 439: the handler vectors are replaced
  under a loop, since several threads run the post-capture chain, and processing
  threads run their sync block without `pack_no_mutex`. `HandlerChain` is checked
  with `Gated` FALSE, as the post-capture chain is run.
* `timetracker.cc:159`: a timer that does not recur may run twice, as whether it is
  due is decided before the dispatcher joins its running callback; not three
  times (`OneShotAtMostTwice`).
* `datasourcetracker.cc:334`: a list whose first tool cannot be launched answers at
  once with what it has.
* `eventbus.cc:204-208`: a publish between the check of the queue and
  `event_cl.lock()` loses its wake-up. The event waits for the next publish; the
  statistics event bounds the delay, and with it `PublishedIsDispatched` holds.
* `eventbus.h:143` wants removal blocked while events are dispatched; the
  dispatcher copies the callbacks and calls them without a lock, so one may be
  called after `remove_listener` returned.
* `packetchain.cc:497-499`: the counter is incremented again for the list entry:
  duplicates carry the number after their original's.
* `packetchain.cc:591, 634`: `process_packet` takes the queue from its slot without a
  test, while the destructor deletes threads, clears their slots (282-283) and then
  frees the array (286). A capture that goes on meanwhile brings the server down, so
  `DestructorEnds` promises an end only when nothing is captured any more, and else an
  end or that crash.
* `timetracker.cc:186, 424`: microseconds are carried at 999999.
  `timetracker.cc:151`: the guard against a full set of workers subtracts the
  present from the past and never fires, but slots are never found busy anyway.
  `timetracker.h:134`: a removed timer whose callback is about to be started
  still runs.
* `kis_datasource.cc:329`: a manual open removes the error timer but keeps its
  number, against the comment at 3620; the next error registers no retry.
  `kis_datasource.cc:3680`: a retry that fails to launch is the last one, and
  several retry timers can exist. A close posted for an old connection closes a new
  one and can leave the source running without a connection, which open_source
  then refuses. `kis_datasource.h:549` says 5 seconds and waits 30;
  `disable_source` (kis_datasource.h:324) does not stop an open in progress.
* `ipctracker_v2.cc:112`: the callback found for an exit at shutdown is assigned
  to a variable that shadows the one called, so it is never called.
* `datasourcetracker.cc:236-260`: a list that times out calls nobody back.
  `datasourcetracker.h:94`: the answer may be the second success, when it comes
  between the lock's release and the cancel; `datasourcetracker.h:97` says 5
  seconds and the timer is 10. A second source with the UUID of another is
  closed but stays in the vector (datasourcetracker.cc:1541-1552), and closing an
  unknown UUID closes the last source (1278-1287).
* Device tracker: null slots are dereferenced by a later purge and by
  `add_view`; the purge above the limit does not tell the views; a device that
  was removed before its NEW_DEVICE event is listed for good.
  `AcceptedIsShown` and `PresenceIsListed` allow an earlier object of a key in a
  view's list, and `LimitHeld` a server that a null slot ended.
* Alerts: an alert that is raised again before it was idle for a unit stays silent
  once its counter reached the rate, since only an idle unit resets it
  (alertracker.cc:296); after an idle unit one alert passes whatever the burst
  limit; concurrent raises exceed the limits and lose counts (378), and `LimitsHeld` is about
  raises that no other overlaps. An alert that is stamped before a client's answer
  and put on the backlog after it is missed by that client; `FollowerMissesNone`
  leaves it out.
* Streams: `future_chainbuf.h:405` throws the second time an export finds the
  buffer full, as `write_waiting_` is never cleared, and the client gets part of
  the packets; a `consume` between the test and the wait, or a cancel, wakes no
  writer. The export looks interfaces up under the number of a source and keeps
  them under a hash (kis_databaselogfile.cc:1635), so that it may describe them
  again for each packet. With no room for the description of an interface the
  packet follows under interface 0 (pcapng_stream_futurebuf.h:303); `FilesReadable`
  leaves those out. Interfaces are told apart by `number ^ (dlt << 1)` (263-265,
  316-318), which is not one to one: source 1 with link type 195 and source 7 with 192
  have the same, and packets of whichever comes second are logged under the
  interface of the first, with its link type. `FilesReadable` asks only for an
  interface with the hash of the packet's. The thread of a log
  that fails to write closes the log itself
  and joins itself, and a close that meets a rotation may cancel the deleted
  buffer or wait for ever (kis_pcapnglogfile.cc:200); `CloseEnds` leaves those out.
* Capture tools: a frame that finds the ring buffer full is dropped, answers to
  commands too (capture_framework.c:3145); `cf_handler_wait_ringbuffer` waits with
  a mutex it does not hold (1424); an interrupted write throws away all that is
  buffered (2990); a tool that leaves while it captures loses frames. Not modelled:
  a new hop list keeps the failures of the old one (636-704, 1501-1520); the
  shuffle looks for a spacing that does not divide the number of channels, and
  finds none that visits all of them for some numbers, 14 among them (682-696); the
  loop over helper processes in `cf_handler_shutdown` does not advance (601-620).
* `globalregistry.cc:128-134, 186-190`: the registry keeps a pointer to every
  global besides the list that shutdown clears, so the destructors of the packet
  chain, the event bus and the timers do not run in `kismet_server`. The
  destructor of the packet chain is modelled for what it promises, and where it
  would not keep it.

## Not modelled, and why

* Parsing and data (radio protocols, dissectors, link types, tracked elements,
  filters, configuration, checksums): their control is a sequence of tests on
  input, and a model would repeat them.
* I/O with little state of its own: the message bus (a call of the event bus),
  GPS receivers, the system monitor, plugins, the source drivers, most of the web
  server. What web sessions do to a component is an action of that component's
  module; the loop that sends a stream to a client is `PcapngStream`'s reader.
* Start and shutdown order, the object pools and reference counts.
* Of modelled components: remote sources, websockets and the older protobuf
  protocol, which share the command map and the closes of the modelled local one;
  the kismetdb tables, the PPI and CSV logs; the channel hopper, helper processes
  and reconnecting of capture tools; device records and their web endpoints.
* Of steps that are modelled: a ping that waits behind a backlog of commands until
  the watchdog fires (an exit, which the tool's properties allow at any time); a
  `select` that is interrupted (capture_framework.c:2735-2744) and falls through to a
  write with the descriptor sets as they were; between the store of an alert's
  burst counter and the load of its total, and between the assignment of a log's
  next buffer and the opening of its file, no other step is taken.
* Vendored and generated code.

The share of the repository's lines under the map stays small, because most of its
lines are vendored headers, protocol parsers, driver tables and web files.

## Plan

Done: the packet chain first, since every packet crosses it, then the services
all parts rely on (events, timers), then sources, requests and devices, then
alerts, streams with the logs, and the capture tools.

Next:

1. Remote sources in `Datasource` and `merge_source` in `DatasourceTracker`; an
   abstract command service that `Datasource` implements, with `CaptureTool` as
   the other end of its pipes.
2. The channel hopper of the capture tools, and the reconnecting of GPS clients.
