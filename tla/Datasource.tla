------------------------------ MODULE Datasource ------------------------------
(***************************************************************************)
(* A local capture source: kis_datasource over kis_external_interface      *)
(* (kis_datasource.cc, kis_external.cc).  The source runs a capture tool    *)
(* as a child process and talks to it over pipes.  Commands are            *)
(* asynchronous: a command is put in command_ack_map with a callback and a *)
(* 30 second timer, and ends by the tool's report, by the timer, or by an  *)
(* error or close that cancels all commands.                               *)
(*                                                                         *)
(* The threads are the strand of each connection (1..MaxGen: every launch  *)
(* makes an io object with a strand of its own), the timer thread (0), and *)
(* the web sessions that open, tune and disable the source and wait for    *)
(* the callback.  ext_mutex is recursive; an action is what one thread     *)
(* does between two unlocks.  Messages in the pipes are not kept: a report *)
(* is taken any time after it was asked for.                               *)
(*                                                                         *)
(* Left out: probing and listing (DatasourceTracker), remote sources, the  *)
(* keepalive ping timer, and what a report carries besides its code.       *)
(***************************************************************************)
EXTENDS Naturals, Sequences, FiniteSets

CONSTANTS
    Callers,    \* web sessions
    MaxOpen,    \* bound on the opens that get as far as a launch
    MaxConf,    \* bound on the configure commands sent
    MaxGen      \* bound on the launches of the capture tool that succeed; the
                \* tool of the last one does not exit by itself

ASSUME DatasourceAssumption == MaxOpen \in Nat /\ MaxConf \in Nat /\ MaxGen \in Nat

Timer   == 0                    \* the timer thread; strand g is thread g
Threads == 0..MaxGen
Ping    == 0                    \* the discovery ping among the requests

VARIABLES
    running, retry,             \* source flags; the error flag is only shown
    errTimer,                   \* error_timer_id, 0 when none
    timers,                     \* error timers that are registered
    io,                         \* io_: "none", "open", or "stopped" at its end
    gen,                        \* the launch io_ belongs to
    cancelled,
    asked,                      \* what the tool has not answered yet
    deferred_event,             \* the open that the next pong sends, or 0
    command_ack_map,            \* commands waiting for a report
    req,                        \* all requests: kind, requester, callbacks made
    rest,                       \* where each web session is
    job,                        \* what each thread is doing
    posted,                     \* closes posted to each strand
    reaped                      \* the launch whose exit was collected, or 0

flags  == <<running, retry>>
retryv == <<errTimer, timers>>
conn   == <<io, gen, cancelled, asked>>
cmds   == <<command_ack_map, req>>
procs  == <<rest, job, posted, reaped>>
vars   == <<flags, retryv, conn, deferred_event, cmds, procs>>

Idle == [at |-> "idle", req |-> 0]     \* of a thread or a session

Init ==
    /\ running = FALSE /\ retry = TRUE
    /\ errTimer = 0 /\ timers = {}
    /\ io = "none" /\ gen = 0 /\ cancelled = FALSE /\ asked = {}
    /\ deferred_event = 0
    /\ command_ack_map = {} /\ req = << >>
    /\ rest = [c \in Callers |-> Idle]
    /\ job = [t \in Threads |-> Idle]
    /\ posted = [t \in Threads |-> 0]
    /\ reaped = 0

Room(kind) ==
    Cardinality({r \in DOMAIN req : req[r].kind = kind})
        < (IF kind = "open" THEN MaxOpen ELSE MaxConf)
New == Len(req) + 1

Request(kind, by) == [kind |-> kind, by |-> by, calls |-> 0]

\* req after the callbacks of the requests in rs have been called.
Answer(rq, rs) ==
    [r \in DOMAIN rq |-> IF r \in rs THEN [rq[r] EXCEPT !.calls = @ + 1] ELSE rq[r]]

\* send_packet_v3 refuses to send on a cancelled or stopped connection, and
\* the callback is made at once; such a request, and the open of a tool that
\* is not installed, leave nothing behind and are not recorded in req.
CanSend == ~cancelled /\ io = "open"

-----------------------------------------------------------------------------
(* Errors and closing. *)

\* handle_source_error registers the timer that will re-open the source,
\* unless it thinks there is one.  Numbers nobody holds are used again.
ScheduleRetry ==
    IF retry /\ errTimer = 0
      THEN LET i == CHOOSE n \in 1..(Cardinality(timers) + 1) : n \notin timers IN
             errTimer' = i /\ timers' = timers \cup {i}
      ELSE UNCHANGED retryv

CancelAll == req' = Answer(req, command_ack_map) /\ command_ack_map' = {}

\* close_external_impl when the caller keeps ext_mutex.
CloseHeld ==
    /\ running' = FALSE
    /\ CancelAll
    /\ cancelled' = TRUE
    /\ io' = "none"
    /\ asked' = {}

Goto(t, at) == job' = [job EXCEPT ![t].at = at]

\* trigger_error tests and sets `cancelled' in two steps.
TriggerTest(t) ==
    /\ job[t].at = "trigger"
    /\ IF cancelled THEN job' = [job EXCEPT ![t] = Idle] ELSE Goto(t, "mark")
    /\ UNCHANGED <<flags, retryv, conn, deferred_event, cmds, rest, posted, reaped>>

TriggerMark(t) ==
    /\ job[t].at = "mark"
    /\ cancelled' = TRUE
    /\ Goto(t, "error")
    /\ UNCHANGED <<flags, retryv, io, gen, asked, deferred_event, cmds, rest, posted, reaped>>

handle_error(t) ==
    /\ job[t].at = "error"
    /\ running' = FALSE
    /\ Goto(t, "source_error")
    /\ UNCHANGED <<retry, retryv, conn, deferred_event, cmds, rest, posted, reaped>>

handle_source_error(t) ==
    /\ job[t].at = "source_error"
    /\ running' = FALSE
    /\ ScheduleRetry
    /\ Goto(t, "cancel")
    /\ UNCHANGED <<retry, conn, deferred_event, cmds, rest, posted, reaped>>

\* close_external works at once on the connection's strand or without a
\* connection, and posts to the strand otherwise.
Direct(t) == io = "none" \/ t = gen
Post      == posted' = [posted EXCEPT ![gen] = @ + 1]

\* cancel_all_commands and the close in handle_error, which holds ext_mutex.
\* The loop drops the lock for every command.  What a command meets there it
\* meets before this step, and the read of a key that is gone by then only
\* changes which command is next.
cancel_all_commands(t) ==
    /\ job[t].at = "cancel"
    /\ Goto(t, "close")
    /\ IF Direct(t)
         THEN CloseHeld /\ UNCHANGED <<retry, gen, posted>>
         ELSE CancelAll /\ Post /\ UNCHANGED <<flags, conn>>
    /\ UNCHANGED <<retryv, deferred_event, rest, reaped>>

\* The second call, in trigger_error.
close_external(t) ==
    /\ job[t].at = "close"
    /\ IF Direct(t)
         THEN Goto(t, "impl") /\ UNCHANGED posted
         ELSE job' = [job EXCEPT ![t] = Idle] /\ Post
    /\ UNCHANGED <<flags, retryv, conn, deferred_event, cmds, rest, reaped>>

\* close_external_impl acts on the connection there is, whichever it was
\* posted for.
close_external_impl(t) ==
    /\ job[t].at = "impl"
    /\ running' = FALSE
    /\ CancelAll
    /\ Goto(t, "base")
    /\ UNCHANGED <<retry, retryv, conn, deferred_event, rest, posted, reaped>>

CloseBase(t) ==
    /\ job[t].at = "base"
    /\ cancelled' = TRUE /\ io' = "none" /\ asked' = {}
    /\ job' = [job EXCEPT ![t] = Idle]
    /\ UNCHANGED <<flags, retryv, gen, deferred_event, cmds, rest, posted, reaped>>

RunPosted(g) ==
    /\ posted[g] > 0 /\ job[g] = Idle
    /\ posted' = [posted EXCEPT ![g] = @ - 1]
    /\ job' = [job EXCEPT ![g].at = "impl"]
    /\ UNCHANGED <<flags, retryv, conn, deferred_event, cmds, rest, reaped>>

JobStep(t) ==
    \/ TriggerTest(t) \/ TriggerMark(t)
    \/ handle_error(t) \/ handle_source_error(t)
    \/ cancel_all_commands(t)
    \/ close_external(t) \/ close_external_impl(t) \/ CloseBase(t)

-----------------------------------------------------------------------------
(* The strand of the connection: what the tool sends. *)

OnStrand(g) == g = gen /\ io = "open" /\ job[g] = Idle

\* send_open_source_v3 and send_configure_v3 register the command after it
\* is sent; ext_mutex keeps the report waiting.
Send(r) ==
    /\ command_ack_map' = command_ack_map \cup {r}
    /\ asked' = (asked \ {Ping}) \cup {r}

\* The tool's answer to the discovery ping runs the deferred open.
Pong(g) ==
    /\ OnStrand(g) /\ Ping \in asked
    /\ IF deferred_event = 0
         THEN /\ asked' = asked \ {Ping}
              /\ UNCHANGED <<running, deferred_event, cmds>>
         ELSE /\ running' = TRUE
              /\ deferred_event' = 0
              /\ IF CanSend
                   THEN Send(deferred_event) /\ UNCHANGED req
                   ELSE /\ asked' = asked \ {Ping}
                        /\ req' = Answer(req, {deferred_event})
                        /\ UNCHANGED command_ack_map
    /\ UNCHANGED <<retry, retryv, io, gen, cancelled, procs>>

\* The callback of a re-open by the error timer sets the channel again.
Retune(r) == req[r].by = "retry" /\ Room("configure")

\* Mutant: the callback is found before the command is looked for.
Report_NoLookup(g, r) ==
    /\ OnStrand(g) /\ r \in asked /\ r # Ping
    /\ IF req[r].kind = "open" THEN running' = TRUE ELSE UNCHANGED running
    /\ asked' = asked \ {r}
    /\ command_ack_map' = command_ack_map \ {r}
    /\ req' = Answer(req, {r})
    /\ UNCHANGED <<retry, retryv, io, gen, cancelled, deferred_event, procs>>

\* What a report of success says of the source is recorded first.
OpenReport(r)      == req[r].kind = "open" /\ running' = TRUE
ConfigureReport(r) == req[r].kind = "configure" /\ UNCHANGED running

Report(g, r) ==
    /\ OnStrand(g) /\ r \in asked /\ r # Ping
    /\ OpenReport(r) \/ ConfigureReport(r)
    /\ IF r \notin command_ack_map
         THEN asked' = asked \ {r} /\ UNCHANGED cmds
         ELSE LET answered == Answer(req, {r})
              IN  \/ /\ Retune(r) /\ CanSend
                     /\ req' = Append(answered, Request("configure", "source"))
                     /\ command_ack_map' = (command_ack_map \ {r}) \cup {New}
                     /\ asked' = (asked \ {r}) \cup {New}
                  \/ /\ ~(Retune(r) /\ CanSend)
                     /\ req' = answered
                     /\ command_ack_map' = command_ack_map \ {r}
                     /\ asked' = asked \ {r}
    /\ UNCHANGED <<retry, retryv, io, gen, cancelled, deferred_event, procs>>

\* A report of failure is an error of the source, handled under ext_mutex;
\* the command's own callback was then made by cancel_all_commands.
ReportFailure(g, r) ==
    /\ OnStrand(g) /\ r \in asked /\ r # Ping
    /\ IF cancelled
         THEN /\ asked' = asked \ {r}
              /\ command_ack_map' = command_ack_map \ {r}
              /\ req' = Answer(req, {r} \cap command_ack_map)
              /\ UNCHANGED <<running, retryv, io, cancelled>>
         ELSE ScheduleRetry /\ CloseHeld
    /\ UNCHANGED <<retry, gen, deferred_event, procs>>

\* The tool's end of the pipes closes: the io object stops itself first.
Eof(g) ==
    /\ OnStrand(g) /\ g < MaxGen
    /\ io' = "stopped" /\ asked' = {}
    /\ Goto(g, "trigger")
    /\ UNCHANGED <<flags, retryv, gen, cancelled, deferred_event, cmds, rest, posted, reaped>>

-----------------------------------------------------------------------------
(* The timer thread, which runs one callback at a time. *)

\* A timer that is taken to be run is no longer stopped by remove_timer.
StartRetry ==
    /\ job[Timer] = Idle
    /\ \E i \in timers : timers' = timers \ {i}
    /\ Goto(Timer, "retry")
    /\ UNCHANGED <<flags, errTimer, conn, deferred_event, cmds, rest, posted, reaped>>

\* Mutant: only opens get a timer.
StartExpire_Open(r) ==
    /\ job[Timer] = Idle /\ r \in command_ack_map /\ req[r].kind = "open"
    /\ job' = [job EXCEPT ![Timer] = [at |-> "expire", req |-> r]]
    /\ UNCHANGED <<flags, retryv, conn, deferred_event, cmds, rest, posted, reaped>>

StartExpire(r) ==
    /\ job[Timer] = Idle /\ r \in command_ack_map
    /\ job' = [job EXCEPT ![Timer] = [at |-> "expire", req |-> r]]
    /\ UNCHANGED <<flags, retryv, conn, deferred_event, cmds, rest, posted, reaped>>

\* dead_ipc_reaper_event collects the exit of a tool that is still tracked.
StartReap ==
    /\ job[Timer] = Idle /\ io = "open" /\ gen < MaxGen /\ reaped # gen
    /\ reaped' = gen
    /\ Goto(Timer, "trigger")
    /\ UNCHANGED <<flags, retryv, conn, deferred_event, cmds, rest, posted>>

\* cancel_command by the 30 second timer.  When the command ended since the
\* timer was taken the callback reads its freed sequence number, which may
\* be any command's.
Expire ==
    /\ job[Timer].at = "expire"
    /\ LET r == job[Timer].req
       IN  \/ /\ r \in command_ack_map
              /\ command_ack_map' = command_ack_map \ {r}
              /\ req' = Answer(req, {r})
           \/ /\ r \notin command_ack_map
              /\ \E c \in command_ack_map :
                   command_ack_map' = command_ack_map \ {c} /\ req' = Answer(req, {c})
           \/ r \notin command_ack_map /\ UNCHANGED cmds
    /\ job' = [job EXCEPT ![Timer] = Idle]
    /\ UNCHANGED <<flags, retryv, conn, deferred_event, rest, posted, reaped>>

\* Mutant: run_ipc leaves the connection cancelled.
LaunchOk_Cancelled ==
    /\ gen < MaxGen
    /\ gen' = gen + 1
    /\ io' = "open" /\ UNCHANGED cancelled

\* launch_ipc, by open_interface.
LaunchOk ==
    /\ gen < MaxGen
    /\ gen' = gen + 1
    /\ io' = "open" /\ cancelled' = FALSE

LaunchFails == cancelled' = TRUE /\ io' = "none" /\ UNCHANGED gen

\* The error timer re-opens the source under ext_mutex, and forgets the
\* timer whatever became of it.
RetryOpen ==
    /\ job[Timer].at = "retry" /\ retry /\ Room("open")
    /\ errTimer' = 0
    /\ job' = [job EXCEPT ![Timer] = Idle]
    /\ \/ UNCHANGED <<timers, conn, deferred_event, req>>              \* tool not installed
       \/ /\ req' = Append(req, Request("open", "retry"))
          /\ timers' = timers \ {errTimer}
          /\ \/ LaunchFails /\ asked' = {} /\ UNCHANGED deferred_event
             \/ /\ LaunchOk /\ asked' = {Ping}
                /\ deferred_event' = New
    /\ UNCHANGED <<flags, command_ack_map, rest, posted, reaped>>

\* Retries are off, or MaxOpen is reached and the model's timer gives up.
RetryNot ==
    /\ job[Timer].at = "retry" /\ ~(retry /\ Room("open"))
    /\ job' = [job EXCEPT ![Timer] = Idle]
    /\ UNCHANGED <<flags, retryv, conn, deferred_event, cmds, rest, posted, reaped>>

-----------------------------------------------------------------------------
(* Web sessions. *)

\* open_interface for a session, which sets `retry' from the definition, and
\* removes the error timer but keeps its number.
OpenSource(c) ==
    /\ rest[c] = Idle /\ ~running /\ Room("open")
    /\ retry' = TRUE
    /\ \/ UNCHANGED <<timers, rest, req>>                     \* tool not installed
       \/ /\ req' = Append(req, Request("open", c))
          /\ timers' = timers \ {errTimer}
          /\ rest' = [rest EXCEPT ![c] = [at |-> "launch", req |-> New]]
    /\ UNCHANGED <<running, errTimer, conn, deferred_event, command_ack_map,
                   job, posted, reaped>>

\* The tool is launched with ext_mutex dropped; a failure just returns.
Launch(c) ==
    /\ rest[c].at = "launch"
    /\ asked' = {}
    /\ \/ LaunchOk /\ rest' = [rest EXCEPT ![c].at = "defer"]
       \/ LaunchFails /\ rest' = [rest EXCEPT ![c].at = "wait"]
    /\ UNCHANGED <<flags, retryv, deferred_event, cmds, job, posted, reaped>>

Defer(c) ==
    /\ rest[c].at = "defer"
    /\ deferred_event' = rest[c].req
    /\ asked' = IF CanSend THEN asked \cup {Ping} ELSE asked
    /\ rest' = [rest EXCEPT ![c].at = "wait"]
    /\ UNCHANGED <<flags, retryv, io, gen, cancelled, cmds, job, posted, reaped>>

SendConfigure(by) ==
    /\ Room("configure") /\ CanSend
    /\ req' = Append(req, Request("configure", by))
    /\ command_ack_map' = command_ack_map \cup {New}
    /\ asked' = asked \cup {New}

SetChannel(c) ==
    /\ rest[c] = Idle
    /\ SendConfigure(c)
    /\ rest' = [rest EXCEPT ![c] = [at |-> "wait", req |-> New]]
    /\ UNCHANGED <<flags, retryv, io, gen, cancelled, deferred_event, job, posted, reaped>>

\* The session's callback has been called.
Return(c) ==
    /\ rest[c].at = "wait" /\ req[rest[c].req].calls > 0
    /\ rest' = [rest EXCEPT ![c] = Idle]
    /\ UNCHANGED <<flags, retryv, conn, deferred_event, cmds, job, posted, reaped>>

\* Bound: a source is not disabled again before it is opened, or while a
\* close is posted.
disable_source ==
    /\ retry /\ posted[gen] = 0
    /\ retry' = FALSE
    /\ timers' = timers \ {errTimer} /\ errTimer' = 0
    /\ IF io = "none"
         THEN CloseHeld /\ UNCHANGED posted
         ELSE running' = FALSE /\ Post /\ UNCHANGED <<cmds, io, cancelled, asked>>
    /\ UNCHANGED <<gen, deferred_event, rest, job, reaped>>

-----------------------------------------------------------------------------
Strand(g) == Pong(g) \/ (\E r \in asked : Report(g, r) \/ ReportFailure(g, r)) \/ Eof(g)
TimerStart == StartRetry \/ \E r \in command_ack_map : StartExpire(r)
TimerRun   == Expire \/ RetryOpen \/ RetryNot
Session(c) == Launch(c) \/ Defer(c) \/ Return(c)

Next ==
    \/ \E t \in Threads : JobStep(t) \/ RunPosted(t)
    \/ \E g \in 1..MaxGen : Strand(g)
    \/ TimerStart \/ StartReap \/ TimerRun
    \/ \E c \in Callers : Session(c) \/ OpenSource(c) \/ SetChannel(c)
    \/ disable_source

Spec == Init /\ [][Next]_vars

\* Threads run, and an idle timer thread takes a timer that is due; the
\* tool and the users of the web server owe nothing.
FairSpec ==
    /\ Spec
    /\ WF_vars(JobStep(Timer) \/ TimerRun) /\ WF_vars(TimerStart)
    /\ \A g \in 1..MaxGen : WF_vars(JobStep(g) \/ RunPosted(g))
    /\ \A c \in Callers : WF_vars(Session(c))

-----------------------------------------------------------------------------
(* Properties. *)

Active(c) == rest[c].at # "idle"

\* A command that waits in command_ack_map, or for the pong, has had no
\* callback, and the two do not overlap; a strand works only for launches
\* that happened.
TypeOK ==
    /\ errTimer \in Nat /\ timers \subseteq Nat \ {0}
    /\ io \in {"none", "open", "stopped"} /\ gen \in 0..MaxGen
    /\ command_ack_map \subseteq DOMAIN req
    /\ deferred_event \in {0} \cup (DOMAIN req \ command_ack_map)
    /\ asked \subseteq {Ping} \cup DOMAIN req
    /\ \A r \in command_ack_map \cup ({deferred_event} \ {0}) : req[r].calls = 0
    /\ \A t \in Threads : job[t] # Idle => t <= gen
    /\ io = "none" => asked = {}

\* Every callback given with a command is made at most once, whichever of
\* report, timeout, error and close come together: the web session's promise
\* can be set only once, and its frame is gone after that.
AnsweredOnce == \A r \in DOMAIN req : req[r].calls <= 1

\* A command that was sent gets its callback, by the timer if by nothing
\* else.
SentIsAnswered ==
    \A r \in 1..(MaxOpen + MaxConf) : (r \in command_ack_map) ~> (r \in DOMAIN req /\ req[r].calls > 0)

\* The connection of a tool that was found to be dead is closed.
DeadIsClosed ==
    \A g \in 1..MaxGen : (reaped = g /\ gen = g /\ io # "none") ~> (io = "none" \/ gen # g)

\* What kis_datasource.h says of the callback of an open: it is called on
\* completion of the command.
OpenIsAnswered ==
    \A c \in Callers : (rest[c].at # "idle") ~> (rest[c].at = "idle")

=============================================================================
