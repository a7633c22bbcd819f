---------------------------- MODULE CaptureTool ----------------------------
(***************************************************************************)
(* A capture tool (capture_framework.c), the process a data source of the  *)
(* server talks to: the main loop moves frames between two pipes and two   *)
(* ring buffers (simple_ringbuf_c.c) and handles the server's commands;    *)
(* the capture thread queues a data frame per packet and waits while the   *)
(* ring buffer is full.  The server is external: it sends commands, pings  *)
(* while it lives and takes what the tool writes.                          *)
(* Bytes are abstracted to frames: a ring buffer or a pipe holds a number  *)
(* of them.                                                                *)
(***************************************************************************)
EXTENDS Naturals, Sequences, FiniteSets, Functions

CONSTANTS
  InSize, OutSize,   \* of the ring buffers
  InPipe, OutPipe,   \* sizes of the pipes
  MaxCommands, MaxData   \* bounds

ASSUME CaptureAssumption ==
  {InSize, OutSize, InPipe, OutPipe, MaxCommands, MaxData} \subseteq Nat \ {0}

VARIABLES
  server,        \* "up", "silent" (it no longer pings) or "closed"
  commands,      \* commands sent
  inpipe, in_ringbuf,     \* frames to the tool, oldest first
  out_ringbuf, outpipe,   \* frames to the server
  main,          \* the main loop: [pc, spin, read, write]
  spindown,
  capture,       \* the capture thread
  captured,      \* packets it has queued
  \* histories, read by the properties only
  received,      \* frames the server got, pongs aside
  answered,      \* commands answered, or whose answer found no room
  failed         \* a write was interrupted, the server left, the loop ended with
                 \* -1 or cut a capture short

inVars == <<inpipe, in_ringbuf>>
outVars == <<out_ringbuf, outpipe, received>>
threadVars == <<capture, captured>>
toolVars == <<server, commands, inVars, outVars, main, spindown, threadVars, answered, failed>>

Frame(type, n) == [type |-> type, n |-> n]
PingFrame == Frame("ping", 0)
PongFrame == Frame("pong", 0)

\* The frames of q that are no pongs, in their order.
NoPongs(q) ==
  LET kept == {i \in DOMAIN q : q[i] # PongFrame}
      At(k) == CHOOSE i \in kept : Cardinality(kept \cap 1 .. i) = k
  IN [k \in 1 .. Cardinality(kept) |-> q[At(k)]]

Top == [pc |-> "check", spin |-> FALSE, read |-> FALSE, write |-> FALSE]

ToolInit ==
  /\ server = "up" /\ commands = 0
  /\ inpipe = <<>> /\ in_ringbuf = <<>>
  /\ out_ringbuf = <<>> /\ outpipe = <<>> /\ received = <<>>
  /\ main = Top
  /\ spindown = FALSE
  /\ capture = "off" /\ captured = 0
  /\ answered = {} /\ failed = FALSE

-----------------------------------------------------------------------------
(* The server                                                              *)

SendFrame(f) == /\ server = "up" /\ Len(inpipe) < InPipe
           /\ inpipe' = Append(inpipe, f)
           /\ UNCHANGED <<server, in_ringbuf, outVars, main, spindown, threadVars,
                          answered, failed>>

\* Pings are seconds apart: none meets an unread one, or keeps the loop reading.
SendPing ==
  PingFrame \notin Range(inpipe) /\ main.pc # "read" /\ SendFrame(PingFrame) /\ UNCHANGED commands

SendCommand ==
  /\ commands < MaxCommands /\ commands' = commands + 1
  /\ \E type \in {"list", "open", "config"} : SendFrame(Frame(type, commands + 1))

ServerLeaves ==
  /\ server = "up" /\ server' \in {"silent", "closed"}
  /\ failed' = (failed \/ server' = "closed")
  /\ UNCHANGED <<commands, inVars, outVars, main, spindown, threadVars, answered>>

TakeFrame ==
  /\ server # "closed" /\ outpipe # <<>> /\ outpipe' = Tail(outpipe)
  /\ received' = received \o NoPongs(<<Head(outpipe)>>)
  /\ UNCHANGED <<server, commands, inVars, out_ringbuf, main, spindown, threadVars,
                 answered, failed>>

-----------------------------------------------------------------------------
(* The main loop                                                           *)

OutRoom == Len(out_ringbuf) < OutSize

\* cf_prep_rb_packet and cf_commit_rb_packet: with no room nothing is queued.
Queue(f) == out_ringbuf' = IF OutRoom THEN Append(out_ringbuf, f) ELSE out_ringbuf

\* Once the loop is left the capture thread is canceled, and what is buffered
\* is lost.
Exit(ok) ==
  /\ main' = [Top EXCEPT !.pc = "exit"]
  /\ capture' = "off" /\ out_ringbuf' = <<>>
  /\ failed' = (failed \/ ~ok)
  /\ UNCHANGED <<server, commands, inVars, outpipe, received, spindown, captured, answered>>

Expired_Spinning == spindown

\* No ping was handled for 15 seconds: the server sends none, or none is read
\* because the tool spins down.
Expired == server = "silent" \/ spindown

PingTimeout == main.pc = "check" /\ Expired /\ Exit(FALSE)

Check ==
  /\ main.pc = "check"
  /\ main' = [main EXCEPT !.pc = "inspect", !.spin = spindown]
  /\ UNCHANGED <<server, commands, inVars, outVars, spindown, threadVars, answered, failed>>

Inspect_Unflushed ==
  /\ main.pc = "inspect"
  /\ main' = [main EXCEPT !.pc = IF main.spin THEN "leave" ELSE "select",
                          !.read = ~main.spin, !.write = out_ringbuf # <<>>]
  /\ failed' = (failed \/ (main.spin /\ capture \in {"send", "full", "wait"}))
  /\ UNCHANGED <<server, commands, inVars, outVars, spindown, threadVars, answered>>

\* A tool that spins down only writes, and leaves once there is nothing to write.
Inspect ==
  LET pending == out_ringbuf # <<>>
      done == main.spin /\ ~pending
  IN /\ main.pc = "inspect"
     /\ main' = [main EXCEPT !.pc = IF done THEN "leave" ELSE "select",
                             !.read = ~main.spin, !.write = pending]
     /\ failed' = (failed \/ (done /\ capture \in {"send", "full", "wait"}))
     /\ UNCHANGED <<server, commands, inVars, outVars, spindown, threadVars, answered>>

LeaveLoop == main.pc = "leave" /\ Exit(TRUE)

select ==
  LET readable == main.read /\ (inpipe # <<>> \/ server = "closed")
      writable == main.write /\ (Len(outpipe) < OutPipe \/ server = "closed")
  IN /\ main.pc = "select"
     /\ main' = IF readable \/ writable
                THEN [main EXCEPT !.pc = IF readable THEN "read" ELSE "write",
                                  !.read = readable, !.write = writable]
                ELSE Top
     /\ UNCHANGED <<server, commands, inVars, outVars, spindown, threadVars, answered, failed>>

\* cf_dispatch_rx_content.  A listing always spins the tool down, and so does
\* a command that fails; an open that does not starts the capture thread.
Dispatch(f) ==
  \E ok \in BOOLEAN :
    /\ Queue(IF f = PingFrame THEN PongFrame ELSE Frame("answer", f.n))
    /\ answered' = answered \cup {f.n}
    /\ spindown' = (spindown \/ f.type = "list" \/ (f # PingFrame /\ ~ok))
    /\ capture' = IF f.type = "open" /\ ok /\ capture = "off"
                  THEN "send" ELSE capture

\* A read takes what is there and handles one frame of what is buffered.
HandleOne(q) == Dispatch(Head(q)) /\ in_ringbuf' = Tail(q)

Read ==
  \E k \in 1 .. Len(inpipe) :
    /\ main.pc = "read" /\ Len(in_ringbuf) + k <= InSize
    /\ inpipe' = SubSeq(inpipe, k + 1, Len(inpipe))
    /\ HandleOne(in_ringbuf \o SubSeq(inpipe, 1, k))
    /\ UNCHANGED <<server, commands, outpipe, received, main, captured, failed>>

\* Nothing more to read; there is room, as a frame of what was read is gone.
EndRead ==
  /\ main.pc = "read" /\ inpipe = <<>> /\ server # "closed"
  /\ main' = IF main.write THEN [main EXCEPT !.pc = "write"] ELSE Top
  /\ UNCHANGED <<server, commands, inVars, outVars, spindown, threadVars, answered, failed>>

ReadClosed ==
  /\ main.pc = "read" /\ inpipe = <<>> /\ server = "closed" /\ Exit(FALSE)

Broadcast_None == UNCHANGED capture

\* Whoever waits for room is woken; a broadcast before the wait is lost.
Broadcast == capture' = IF capture = "wait" THEN "send" ELSE capture

Write ==
  \E k \in 1 .. Len(out_ringbuf) :
    /\ main.pc = "write" /\ server # "closed" /\ Len(outpipe) + k <= OutPipe
    /\ outpipe' = outpipe \o SubSeq(out_ringbuf, 1, k)
    /\ out_ringbuf' = SubSeq(out_ringbuf, k + 1, Len(out_ringbuf))
    /\ Broadcast
    /\ main' = Top
    /\ UNCHANGED <<server, commands, inVars, received, spindown, captured, answered, failed>>

\* An interrupted write returns -1, and as many bytes are taken for written
\* as a size_t can count: all there are.
WriteInterrupted ==
  /\ main.pc = "write" /\ server # "closed"
  /\ out_ringbuf' = <<>> /\ failed' = TRUE
  /\ Broadcast
  /\ main' = Top
  /\ UNCHANGED <<server, commands, inVars, outpipe, received, spindown, captured, answered>>

WriteClosed == main.pc = "write" /\ server = "closed" /\ Exit(FALSE)

MainLoop == \/ Check \/ Inspect \/ LeaveLoop \/ select \/ Read \/ EndRead \/ ReadClosed
            \/ Write \/ WriteInterrupted \/ WriteClosed

-----------------------------------------------------------------------------
(* The capture thread                                                      *)

cf_send_data ==
  /\ capture = "send" /\ captured < MaxData
  /\ Queue(Frame("data", captured + 1))
  /\ captured' = IF OutRoom THEN captured + 1 ELSE captured
  /\ capture' = IF OutRoom THEN "send" ELSE "full"
  /\ UNCHANGED <<server, commands, inVars, outpipe, received, main, spindown, answered, failed>>

cf_handler_wait_ringbuffer ==
  /\ capture = "full" /\ capture' = "wait"
  /\ UNCHANGED <<server, commands, inVars, outVars, main, spindown, captured, answered, failed>>

\* The capture callback returns, at any time or never.
EndCapture ==
  /\ capture = "send" /\ capture' = "ended" /\ spindown' = TRUE
  /\ UNCHANGED <<server, commands, inVars, outVars, main, captured, answered, failed>>

Capture == cf_send_data \/ cf_handler_wait_ringbuffer

-----------------------------------------------------------------------------
ToolNext == \/ SendPing \/ SendCommand \/ ServerLeaves \/ TakeFrame
        \/ MainLoop \/ PingTimeout \/ Capture \/ EndCapture

\* Threads are scheduled, a server that lives pings and takes what it is sent,
\* and time passes.
ToolFairness == /\ WF_toolVars(MainLoop) /\ SF_toolVars(PingTimeout) /\ WF_toolVars(Capture)
            /\ WF_toolVars(SendPing) /\ WF_toolVars(TakeFrame)
ToolSpec == ToolInit /\ [][ToolNext]_toolVars /\ ToolFairness

-----------------------------------------------------------------------------
(* Properties                                                              *)

\* Frames to the tool, and those of its frames the server waits for.
Requests == {Frame(type, c) : type \in {"list", "open", "config"}, c \in 1 .. MaxCommands}
Reports == {Frame("answer", c) : c \in 1 .. MaxCommands}
             \cup {Frame("data", p) : p \in 1 .. MaxData}

MainAt == {"check", "inspect", "select", "read", "write", "leave", "exit"}

ToolTypeOK ==
  /\ server \in {"up", "silent", "closed"} /\ commands \in 0 .. MaxCommands
  /\ inpipe \in Seq(Requests \cup {PingFrame}) /\ Len(inpipe) <= InPipe
  /\ in_ringbuf \in Seq(Requests \cup {PingFrame}) /\ Len(in_ringbuf) <= InSize
  /\ out_ringbuf \in Seq(Reports \cup {PongFrame}) /\ Len(out_ringbuf) <= OutSize
  /\ outpipe \in Seq(Reports \cup {PongFrame}) /\ Len(outpipe) <= OutPipe
  /\ received \in Seq(Reports)
  /\ main \in [pc : MainAt, spin : BOOLEAN, read : BOOLEAN, write : BOOLEAN]
  /\ spindown \in BOOLEAN /\ failed \in BOOLEAN
  /\ capture \in {"off", "send", "full", "wait", "ended"} /\ captured \in 0 .. MaxData
  /\ answered \subseteq 0 .. MaxCommands

\* Every command of the server is answered, unless its answer finds no room, or
\* the tool ends: a burst leaves commands in the ring buffer, and each ping that
\* is read brings one more of them out.
CommandsAnswered ==
  \A c \in 1 .. MaxCommands : (commands >= c) ~> (c \in answered \/ main.pc = "exit")

\* A capture thread that waits for room goes on, even if it missed the wake-up
\* of the write that made it.
WaiterWakes == (capture = "wait") ~> (capture # "wait")

\* What is queued reaches the server once and in order, a tool that spins down
\* included: only an interrupted write, a server that leaves, an end with an
\* error or one that cuts a capture short loses any.
Stream == INSTANCE PacketLog WITH
            Packets <- Reports,
            logged <- received,
            accepted <- IF server = "closed" THEN received
                        ELSE received \o NoPongs(outpipe \o out_ringbuf)

FramesDelivered == Stream!Spec

=============================================================================
