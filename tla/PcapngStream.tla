--------------------------- MODULE PcapngStream ---------------------------
(***************************************************************************)
(* A pcapng stream (pcapng_stream_futurebuf.h) and the buffer between its  *)
(* two ends (future_chainbuf.h), in the three uses the server has for it:  *)
(*   "log"     the pcapng log: packet threads put blocks into the buffer   *)
(*             and the thread of the log (kis_pcapnglogfile.cc) writes     *)
(*             them to a file, and to the next file past a size;           *)
(*   "web"     the live captures of datasourcetracker.cc: the thread of    *)
(*             the http connection sends the blocks to a client;           *)
(*   "export"  the captures read from the kismetdb log                     *)
(*             (kis_databaselogfile.cc): one thread puts the rows of the   *)
(*             database and stalls while the buffer is full.               *)
(* put_data and cancel are one step with the sync that ends them: a reader *)
(* that finds data or a stopped buffer before the sync does not wait, and  *)
(* one the late sync wakes for nothing waits again.                        *)
(***************************************************************************)
EXTENDS Integers, Sequences, FiniteSets, SequencesExt

CONSTANTS
  Kinds,           \* the uses to check, of "log", "web" and "export"
  Interfaces,      \* what a file tells apart: a source with a link type
  Number, Index,   \* of each, the number of its source, and its hash
  SizeOf,          \* bytes of a block of each type
  max_backlog,     \* bytes the buffer may hold
  max_size,        \* bytes of a log file, 0 for no limit
  MaxPackets, MaxFiles   \* bounds

BlockTypes == {"shb", "idb", "epb"}

ASSUME StreamAssumption ==
  /\ Kinds \subseteq {"log", "web", "export"}
  /\ Number \in [Interfaces -> Nat] /\ Index \in [Interfaces -> Nat]
  /\ SizeOf \in [BlockTypes -> Nat \ {0}]
  /\ max_backlog \in Nat /\ SizeOf["shb"] < max_backlog /\ max_size \in Nat
  /\ MaxPackets \in Nat /\ MaxFiles \in Nat \ {0}

VARIABLES
  kind,
  bufs,      \* every future_chainbuf made: [q, run, waiting, write_waiting, live]
  chainbuf,  \* the one the stream puts into
  buffer,    \* the one the reader and the closer know
  datasource_id_map,   \* hash of an interface -> its number in the file
  writer,    \* [pc, intf, num, id, short]; busy, it has pcap_mutex
  reader,    \* what the thread that empties the buffer does
  files,     \* what is in each file, or was sent to the client
  log_size,
  closer,    \* [pc, target]: a closed log, session or stream
  failed     \* a write or an open failed, or the server is gone

bufVars == <<bufs, chainbuf, buffer>>
writeVars == <<datasource_id_map, writer>>
readVars == <<reader, files, log_size>>
streamVars == <<kind, bufVars, writeVars, readVars, closer, failed>>

Block(type, intf, num, id, short) ==
  [type |-> type, intf |-> intf, num |-> num, id |-> id, short |-> short]
Shb == Block("shb", "", 0, 0, FALSE)

NewBuffer == [q |-> <<>>, run |-> TRUE, waiting |-> FALSE,
              write_waiting |-> FALSE, live |-> TRUE]
Bytes(b) == FoldSeq(LAMBDA x, n : n + SizeOf[x.type], 0, b.q)

put_data(b, block) ==
  IF b.run THEN [b EXCEPT !.q = Append(@, block), !.waiting = FALSE] ELSE b
cancel_NoSync(b) == [b EXCEPT !.run = FALSE]
cancel(b) == [b EXCEPT !.run = FALSE, !.waiting = FALSE]
consume(b) == [b EXCEPT !.q = Tail(@)]

StreamInit ==
  /\ kind \in Kinds
  /\ bufs = <<NewBuffer>> /\ chainbuf = 1 /\ buffer = 1
  /\ datasource_id_map = [i \in {} |-> 0]
  /\ writer = [pc |-> "start", intf |-> "", num |-> 0, id |-> 0, short |-> FALSE]
  /\ reader = "head" /\ files = <<<<>>>> /\ log_size = 0
  /\ closer = [pc |-> "none", target |-> 1]
  /\ failed = FALSE

-----------------------------------------------------------------------------
(* The writer                                                              *)

PutBlock(block) == bufs' = [bufs EXCEPT ![chainbuf] = put_data(@, block)]

\* block_until: a stream that may not stall wants a byte more.
Room(type) ==
  LET n == Bytes(bufs[chainbuf]) + SizeOf[type]
  IN IF kind = "export" THEN n <= max_backlog ELSE n < max_backlog
Stalls(type) == kind = "export" /\ ~Room(type) /\ bufs[chainbuf].run

start_stream ==
  /\ writer.pc = "start"
  /\ PutBlock(Shb)
  /\ writer' = [writer EXCEPT !.pc = "idle"]
  /\ UNCHANGED <<kind, chainbuf, buffer, datasource_id_map, readVars, closer, failed>>

\* The number of an interface in the file is looked up under its hash, which
\* others may share: number ^ (link type << 1) does not tell source 1 with type
\* 195 from source 7 with 192.  The export looks under the source's number.
Key(s) == IF kind = "export" THEN Number[s] ELSE Index[s]

handle_packet(s) ==
  /\ writer.pc = "idle" /\ writer.num < MaxPackets
  /\ LET known == Key(s) \in DOMAIN datasource_id_map
     IN writer' = [pc |-> IF known THEN "epb" ELSE "idb", intf |-> s,
                   num |-> writer.num + 1, short |-> FALSE,
                   id |-> IF known THEN datasource_id_map[Key(s)] ELSE 0]
  /\ UNCHANGED <<kind, bufVars, datasource_id_map, readVars, closer, failed>>

\* The next number is the size of the map; with no room it stays 0, nothing
\* is put, and the packet follows nonetheless.
pcapng_make_idb ==
  LET s == writer.intf
      logid == Cardinality(DOMAIN datasource_id_map)
  IN /\ writer.pc = "idb" /\ ~Stalls("idb")
     /\ IF Room("idb")
        THEN /\ PutBlock(Block("idb", s, 0, logid, FALSE))
             /\ datasource_id_map' =
                  [i \in DOMAIN datasource_id_map \cup {Index[s]} |->
                     IF i = Index[s] THEN logid ELSE datasource_id_map[i]]
             /\ writer' = [writer EXCEPT !.pc = "epb", !.id = logid]
        ELSE /\ writer' = [writer EXCEPT !.pc = "epb", !.short = TRUE]
             /\ UNCHANGED <<bufs, datasource_id_map>>
     /\ UNCHANGED <<kind, chainbuf, buffer, readVars, closer, failed>>

pcapng_write_packet ==
  /\ writer.pc = "epb" /\ ~Stalls("epb")
  /\ IF Room("epb")
     THEN PutBlock(Block("epb", writer.intf, writer.num, writer.id, writer.short))
     ELSE UNCHANGED bufs
  /\ writer' = [writer EXCEPT !.pc = "idle"]
  /\ UNCHANGED <<kind, chainbuf, buffer, datasource_id_map, readVars, closer, failed>>

\* A full buffer: the writer goes to wait for consume.  The size was read
\* before, and write_waiting_ is never cleared: the second time throws.
Stall ==
  /\ writer.pc \in BlockTypes /\ Stalls(writer.pc)
  /\ writer' = [writer EXCEPT !.pc = IF @ = "idb" THEN "wait idb" ELSE "wait epb"]
  /\ UNCHANGED <<kind, bufVars, datasource_id_map, readVars, closer, failed>>

Retry(pc) == CASE pc \in {"wait idb", "blocked idb"} -> "idb"
               [] pc \in {"wait epb", "blocked epb"} -> "epb"
               [] OTHER -> pc

wait_write ==
  LET b == bufs[chainbuf]
  IN /\ writer.pc \in {"wait idb", "wait epb"}
     /\ writer' = [writer EXCEPT !.pc =
          IF b.write_waiting THEN "threw"
          ELSE IF ~b.run THEN Retry(@)
          ELSE IF @ = "wait idb" THEN "blocked idb" ELSE "blocked epb"]
     /\ bufs' = IF b.run THEN [bufs EXCEPT ![chainbuf].write_waiting = TRUE] ELSE bufs
     /\ UNCHANGED <<kind, chainbuf, buffer, datasource_id_map, readVars, closer, failed>>

\* The last row, or an exception the session catches: the buffer is complete.
EndExport ==
  /\ kind = "export"
  /\ \/ writer.pc = "threw"
     \/ writer.pc = "idle" /\ writer.num = MaxPackets
  /\ bufs' = [bufs EXCEPT ![chainbuf] = cancel(@)]
  /\ writer' = [writer EXCEPT !.pc = "end"]
  /\ UNCHANGED <<kind, chainbuf, buffer, datasource_id_map, readVars, closer, failed>>

Writer == \/ start_stream \/ pcapng_make_idb \/ pcapng_write_packet
          \/ Stall \/ wait_write \/ EndExport

-----------------------------------------------------------------------------
(* The reader                                                              *)

\* consume lets a writer that waits for room go on.
Released == [writer EXCEPT !.pc =
               IF @ \in {"blocked idb", "blocked epb"} THEN Retry(@) ELSE @]
Writes(f, b) == files' = [files EXCEPT ![f] = Append(@, Head(b.q))]

wait ==
  /\ reader = "head" /\ bufs[buffer].q = <<>> /\ bufs[buffer].run
  /\ reader' = "wait"
  /\ bufs' = [bufs EXCEPT ![buffer].waiting = TRUE]
  /\ UNCHANGED <<kind, chainbuf, buffer, writeVars, files, log_size, closer, failed>>

Wake ==
  /\ reader = "wait" /\ ~bufs[buffer].waiting
  /\ reader' = "head"
  /\ UNCHANGED <<kind, bufVars, writeVars, files, log_size, closer, failed>>

WriteBlock ==
  LET b == bufs[buffer]
      size == log_size + SizeOf[Head(b.q).type]
      full == kind = "log" /\ max_size # 0 /\ size >= max_size /\ Len(files) < MaxFiles
  IN /\ reader = "head" /\ b.q # <<>>
     /\ Writes(Len(files), b)
     /\ bufs' = [bufs EXCEPT ![buffer] = consume(b)]
     /\ writer' = Released
     /\ log_size' = IF full THEN 0 ELSE IF kind = "log" THEN size ELSE 0
     /\ reader' = IF full THEN "rotate" ELSE "head"
     /\ UNCHANGED <<kind, chainbuf, buffer, datasource_id_map, closer, failed>>

\* The log closes itself; the session of a client stops the stream, before it
\* consumed anything when the http header could not be sent.
WriteFails ==
  /\ reader = "head" /\ bufs[buffer].q # <<>>
  /\ failed' = TRUE
  /\ IF kind = "log"
     THEN reader' = "close self" /\ UNCHANGED <<bufs, writer>>
     ELSE /\ reader' = "end"
          /\ \/ /\ files[1] = <<>>
                /\ bufs' = [bufs EXCEPT ![1] = cancel(@)] /\ UNCHANGED writer
             \/ /\ bufs' = [bufs EXCEPT ![1] = cancel(consume(@))]
                /\ writer' = Released
  /\ UNCHANGED <<kind, chainbuf, buffer, datasource_id_map, files, log_size, closer>>

Leave_Undrained ==
  /\ reader = "head" /\ ~bufs[buffer].run
  /\ reader' = "end"
  /\ UNCHANGED <<kind, bufVars, writeVars, files, log_size, closer, failed>>
Leave ==
  /\ reader = "head" /\ bufs[buffer].q = <<>> /\ ~bufs[buffer].run
  /\ reader' = "end"
  /\ UNCHANGED <<kind, bufVars, writeVars, files, log_size, closer, failed>>

\* rotate_log: the stream starts again on a new buffer, a new file is opened,
\* and what the old buffer still holds goes to the old file.
restart_stream_KeepsIds ==
  /\ reader = "rotate" /\ writer.pc = "idle"
  /\ bufs' = Append(bufs, put_data(NewBuffer, Shb))
  /\ chainbuf' = Len(bufs) + 1
  /\ UNCHANGED datasource_id_map
  /\ reader' = "open"
  /\ UNCHANGED <<kind, buffer, writer, files, log_size, closer, failed>>
restart_stream ==
  /\ reader = "rotate" /\ writer.pc = "idle"
  /\ bufs' = Append(bufs, put_data(NewBuffer, Shb))
  /\ chainbuf' = Len(bufs) + 1
  /\ datasource_id_map' = [i \in {} |-> 0]
  /\ reader' = "open"
  /\ UNCHANGED <<kind, buffer, writer, files, log_size, closer, failed>>

OpenNext ==
  /\ reader = "open"
  /\ buffer' = chainbuf
  /\ \/ /\ reader' = "flush" /\ files' = Append(files, <<>>)
        /\ UNCHANGED failed
     \/ /\ reader' = "close self" /\ failed' = TRUE
        /\ UNCHANGED files
  /\ UNCHANGED <<kind, bufs, chainbuf, writeVars, log_size, closer>>

FlushBlock ==
  LET old == bufs[buffer - 1]
  IN /\ reader = "flush" /\ old.q # <<>>
     /\ \/ /\ Writes(Len(files) - 1, old)
           /\ bufs' = [bufs EXCEPT ![buffer - 1] = consume(old)]
           /\ UNCHANGED <<reader, failed>>
        \/ /\ reader' = "close self" /\ failed' = TRUE
           /\ UNCHANGED <<files, bufs>>
     /\ UNCHANGED <<kind, chainbuf, buffer, writeVars, log_size, closer>>

EndRotation ==
  /\ reader = "flush" /\ bufs[buffer - 1].q = <<>>
  /\ bufs' = [bufs EXCEPT ![buffer - 1].live = FALSE]
  /\ reader' = "head"
  /\ UNCHANGED <<kind, chainbuf, buffer, writeVars, files, log_size, closer, failed>>

\* close_log on the thread of the log joins that thread, which ends the
\* server; a closer that has log_mutex meanwhile joins it for ever.
GoesDown == /\ reader' = "terminated" /\ failed' = TRUE
            /\ writer' = [writer EXCEPT !.pc = "end"]
            /\ closer' = [closer EXCEPT !.pc = "closed"]

CloseSelf ==
  /\ reader = "close self" /\ closer.pc = "none"
  /\ GoesDown
  /\ UNCHANGED <<kind, bufVars, datasource_id_map, files, log_size>>

Reader == \/ wait \/ Wake \/ WriteBlock \/ WriteFails \/ Leave
          \/ restart_stream \/ OpenNext \/ FlushBlock \/ EndRotation \/ CloseSelf

-----------------------------------------------------------------------------
(* The closer: close_log, or stop_stream of a web stream.  It has the      *)
(* buffer's address before it cancels the buffer.                          *)

Close ==
  /\ closer.pc = "none" /\ (kind = "log" => writer.pc # "start")
  /\ closer' = [pc |-> "cancel", target |-> buffer]
  /\ UNCHANGED <<kind, bufVars, writeVars, readVars, failed>>

\* A buffer that a rotation deleted in between may be cancelled in vain or
\* bring the server down.
CancelBuffer ==
  LET b == bufs[closer.target]
  IN /\ closer.pc = "cancel"
     /\ \/ /\ bufs' = IF b.live THEN [bufs EXCEPT ![closer.target] = cancel(b)] ELSE bufs
           /\ closer' = [closer EXCEPT !.pc = "join"]
           /\ UNCHANGED <<reader, failed, writer>>
        \/ /\ ~b.live /\ GoesDown
           /\ UNCHANGED bufs
     /\ UNCHANGED <<kind, chainbuf, buffer, datasource_id_map, files, log_size>>

\* The log waits for its thread, a live stream for its packet handler.
Join ==
  /\ closer.pc = "join"
  /\ kind = "log" => reader = "end"
  /\ kind = "web" => writer.pc \in {"idle", "end"}
  /\ closer' = [closer EXCEPT !.pc = "closed"]
  /\ writer' = IF kind = "web" THEN [writer EXCEPT !.pc = "end"] ELSE writer
  /\ UNCHANGED <<kind, bufVars, datasource_id_map, readVars, failed>>

Closer == CancelBuffer \/ Join

-----------------------------------------------------------------------------
StreamNext == (\E s \in Interfaces : handle_packet(s)) \/ Writer \/ Reader \/ Close \/ Closer

\* Threads are scheduled: a packet once begun is finished, the reader goes on
\* and a close goes on.  No packet need come and nobody need close.
StreamFairness == WF_streamVars(Writer) /\ WF_streamVars(Reader) /\ WF_streamVars(Closer)
StreamSpec == StreamInit /\ [][StreamNext]_streamVars /\ StreamFairness

-----------------------------------------------------------------------------
(* Properties                                                              *)

Blocks == [type : BlockTypes, intf : Interfaces \cup {""}, num : Nat, id : Nat,
           short : BOOLEAN]
Buffers == [q : Seq(Blocks), run : BOOLEAN, waiting : BOOLEAN,
            write_waiting : BOOLEAN, live : BOOLEAN]
WriterAt == {"start", "idle", "idb", "epb", "wait idb", "wait epb", "blocked idb",
             "blocked epb", "threw", "end"}
ReaderAt == {"head", "wait", "rotate", "open", "flush", "close self", "end", "terminated"}

StreamTypeOK ==
  /\ kind \in Kinds
  /\ bufs \in Seq(Buffers) /\ files \in Seq(Seq(Blocks)) /\ files # <<>>
  /\ chainbuf = Len(bufs) /\ buffer \in 1 .. Len(bufs)
  /\ datasource_id_map \in [DOMAIN datasource_id_map -> Nat]
  /\ DOMAIN datasource_id_map \subseteq {Index[s] : s \in Interfaces}
  /\ writer \in [pc : WriterAt, intf : Interfaces \cup {""}, num : Nat, id : Nat,
                 short : BOOLEAN]
  /\ reader \in ReaderAt /\ log_size \in Nat
  /\ closer \in [pc : {"none", "cancel", "join", "closed"}, target : 1 .. Len(bufs)]
  /\ failed \in BOOLEAN

\* Before place i of file f, the block of the interface with this number is
\* there, and it is that of intf: interfaces are numbered as they come.
Describes(f, i, id, intf) ==
  \E j \in 1 .. i - 1 :
    /\ f[j].type = "idb" /\ f[j].intf = intf
    /\ Cardinality({k \in 1 .. j - 1 : f[k].type = "idb"}) = id

\* The interfaces with the hash of this one: itself, and those it collides with.
Alike(intf) == {s \in Interfaces : Index[s] = Index[intf]}
Names(f, i, id, intf) == \E s \in Alike(intf) : Describes(f, i, id, s)

\* A file, or what a client is sent, stands on its own: it begins with a
\* section header, once, and every packet in it names an interface that the
\* same file describes before it and that has the hash of the packet's: its own
\* if no other has that hash, else perhaps another's (make_idb, line 263).  Only
\* packets that came while the buffer had no room for the interface may not.
FileReadable(f) ==
  \A i \in DOMAIN f :
    /\ f[i].type = "shb" <=> i = 1
    /\ f[i].type = "epb" /\ ~f[i].short => Names(f, i, f[i].id, f[i].intf)

FilesReadable == kind \in {"log", "web"} => \A n \in DOMAIN files : FileReadable(files[n])

\* A close that found the buffer the log is still using ends, the files
\* written to the last block: the reader is woken, drains the buffer and
\* leaves.  A rotation between or after the two makes it wait for ever.
CloseEnds == closer.pc # "none" ~> closer.pc = "closed" \/ failed \/ buffer # closer.target

\* What has gone or will go to file n, unless a write fails.
Whole(n) == (IF n \in DOMAIN files THEN files[n] ELSE <<>>) \o bufs[n].q

\* The packets of file n, each with its place: file, index, number.
PacketsOf(n, f) == {<<n, i, f[i].num>> : i \in {j \in DOMAIN f : f[j].type = "epb"}}

\* The numbers of packets in the order of their places.
Earlier(o, p) == o[1] < p[1] \/ (o[1] = p[1] /\ o[2] < p[2])
InOrder(packets) ==
  LET At(k) == CHOOSE p \in packets :
                 Cardinality({o \in packets : Earlier(o, p)}) = k - 1
  IN [k \in 1 .. Cardinality(packets) |-> At(k)[3]]

\* Packets reach the files in the order they were put into the buffers, each
\* once, across the rotations and the close, and every one of them does unless
\* a write fails.
Written == UNION {PacketsOf(n, files[n]) : n \in DOMAIN files}
Streamed == UNION {PacketsOf(n, Whole(n)) : n \in DOMAIN bufs}
InFiles == InOrder(Written)
InStream == InOrder(Streamed)

Log == INSTANCE PacketLog WITH
         Packets <- 1 .. MaxPackets, logged <- InFiles,
         accepted <- IF failed THEN InFiles ELSE InStream

ImplementsLog == Log!Spec

=============================================================================
