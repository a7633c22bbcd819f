-------------------------- MODULE DatasourceProofs --------------------------
(***************************************************************************)
(* Proofs about both ends of a source's pipes: Datasource, for any web     *)
(* sessions and any number of opens, commands and launches (no callback is *)
(* made twice), and the capture tool (CaptureTool), for buffers and pipes  *)
(* of any size (what it queues reaches the server once and in order).      *)
(***************************************************************************)
EXTENDS Datasource, CaptureTool, FiniteSetTheorems, SequenceTheorems, TLAPS

-----------------------------------------------------------------------------
(* The source.                                                             *)

Reqs == [kind : {"open", "configure"}, by : Callers \cup {"retry", "source"}, calls : Nat]

\* A session that is launching a tool keeps its request to itself.
Holds(rs, c) == rs[c].at \in {"launch", "defer"}

\* The requests rq, of which those in cam wait for a report, d waits for the
\* pong, and others for the session that made them. A request waits in one
\* place, and while it waits it has had no callback.
Good(rq, cam, d, rs) ==
  /\ rq \in Seq(Reqs)
  /\ rs \in [Callers -> [at : {"idle", "launch", "defer", "wait"}, req : Nat]]
  /\ cam \subseteq DOMAIN rq
  /\ d \in {0} \cup (DOMAIN rq \ cam)
  /\ \A r \in DOMAIN rq : rq[r].calls <= 1
  /\ \A r \in cam \cup ({d} \ {0}) : rq[r].calls = 0
  /\ \A c \in Callers :
       Holds(rs, c) => /\ rs[c].req \in DOMAIN rq \ (cam \cup {d})
                       /\ rq[rs[c].req].calls = 0
  /\ \A b, c \in Callers :
       Holds(rs, b) /\ Holds(rs, c) /\ rs[b].req = rs[c].req => b = c

-----------------------------------------------------------------------------
(* Requests.                                                               *)

\* Callbacks are counted by numbers.
LEMMA ReqFacts ==
  ASSUME NEW rq \in Seq(Reqs)
  PROVE  \A r \in DOMAIN rq : rq[r].calls \in Nat
<1>1. \A r \in DOMAIN rq : rq[r] \in Reqs
  OBVIOUS
<1> QED
  BY <1>1 DEF Reqs

\* A callback is counted, and nothing else changes.
LEMMA AnswerFacts ==
  ASSUME NEW rq \in Seq(Reqs), NEW rs \in SUBSET (DOMAIN rq)
  PROVE  /\ Answer(rq, rs) \in Seq(Reqs) /\ DOMAIN Answer(rq, rs) = DOMAIN rq
         /\ Len(Answer(rq, rs)) = Len(rq)
         /\ \A r \in DOMAIN rq :
              Answer(rq, rs)[r].calls = IF r \in rs THEN rq[r].calls + 1 ELSE rq[r].calls
<1>1. DOMAIN rq = 1 .. Len(rq) /\ Len(rq) \in Nat /\ \A r \in DOMAIN rq : rq[r] \in Reqs
  OBVIOUS
<1> DEFINE a == Answer(rq, rs)
<1>2. a = [r \in 1 .. Len(rq) |-> IF r \in rs THEN [rq[r] EXCEPT !.calls = @ + 1] ELSE rq[r]]
  BY <1>1 DEF Answer
<1>3. ASSUME NEW r \in DOMAIN rq
      PROVE  /\ [rq[r] EXCEPT !.calls = @ + 1] \in Reqs
             /\ [rq[r] EXCEPT !.calls = @ + 1].calls = rq[r].calls + 1
  BY <1>1 DEF Reqs
<1> HIDE DEF a
<1>4. \A r \in 1 .. Len(rq) : a[r] \in Reqs
  BY <1>1, <1>2, <1>3
<1>5. a \in Seq(Reqs) /\ DOMAIN a = 1 .. Len(rq) /\ Len(a) = Len(rq)
  BY <1>1, <1>2, <1>4
<1>6. \A r \in DOMAIN rq : a[r].calls = IF r \in rs THEN rq[r].calls + 1 ELSE rq[r].calls
  BY <1>1, <1>2, <1>3
<1> QED
  BY <1>1, <1>5, <1>6 DEF a

\* A new request is the last.
LEMMA AppendFacts ==
  ASSUME NEW rq \in Seq(Reqs), NEW q \in Reqs
  PROVE  /\ Append(rq, q) \in Seq(Reqs)
         /\ DOMAIN Append(rq, q) = DOMAIN rq \cup {Len(rq) + 1}
         /\ Len(rq) + 1 \in Nat /\ Len(rq) + 1 \notin DOMAIN rq /\ Len(rq) + 1 # 0
         /\ \A r \in DOMAIN rq : Append(rq, q)[r] = rq[r]
         /\ Append(rq, q)[Len(rq) + 1] = q
<1>1. DOMAIN rq = 1 .. Len(rq) /\ Len(rq) \in Nat
  OBVIOUS
<1>2. DOMAIN Append(rq, q) = 1 .. (Len(rq) + 1)
  OBVIOUS
<1> QED
  BY <1>1, <1>2

\* Commands that are answered leave the map.
LEMMA AnswerGood ==
  ASSUME NEW rq, NEW cam, NEW d, NEW rs, Good(rq, cam, d, rs), NEW A \in SUBSET cam
  PROVE  Good(Answer(rq, A), cam \ A, d, rs)
<1>1. rq \in Seq(Reqs) /\ A \subseteq DOMAIN rq
  BY DEF Good
<1>2. \A r \in DOMAIN rq : rq[r].calls \in Nat
  BY <1>1, ReqFacts
<1> DEFINE a == Answer(rq, A)
<1>3. /\ a \in Seq(Reqs) /\ DOMAIN a = DOMAIN rq
      /\ \A r \in DOMAIN rq : a[r].calls = IF r \in A THEN rq[r].calls + 1 ELSE rq[r].calls
  BY <1>1, AnswerFacts
<1> HIDE DEF a
<1>4. \A r \in DOMAIN a : a[r].calls <= 1
  BY <1>2, <1>3 DEF Good
<1>5. \A r \in (cam \ A) \cup ({d} \ {0}) : a[r].calls = 0
  BY <1>1, <1>3 DEF Good
<1>6. \A c \in Callers :
        Holds(rs, c) => /\ rs[c].req \in DOMAIN a \ ((cam \ A) \cup {d})
                        /\ a[rs[c].req].calls = 0
  BY <1>1, <1>3 DEF Good
<1>7. Good(a, cam \ A, d, rs)
  BY <1>3, <1>4, <1>5, <1>6 DEF Good
<1> QED
  BY <1>7 DEF a

\* The deferred open is answered because it cannot be sent.
LEMMA AnswerDeferred ==
  ASSUME NEW rq, NEW cam, NEW d, NEW rs, Good(rq, cam, d, rs), d # 0
  PROVE  Good(Answer(rq, {d}), cam, 0, rs)
<1>1. rq \in Seq(Reqs) /\ {d} \subseteq DOMAIN rq /\ d \notin cam
  BY DEF Good
<1>2. \A r \in DOMAIN rq : rq[r].calls \in Nat
  BY <1>1, ReqFacts
<1> DEFINE a == Answer(rq, {d})
<1>3. /\ a \in Seq(Reqs) /\ DOMAIN a = DOMAIN rq
      /\ \A r \in DOMAIN rq : a[r].calls = IF r \in {d} THEN rq[r].calls + 1 ELSE rq[r].calls
  BY <1>1, AnswerFacts
<1> HIDE DEF a
<1>0. 0 \notin DOMAIN rq
  BY <1>1
<1>4. \A r \in DOMAIN a : a[r].calls <= 1
  BY <1>2, <1>3 DEF Good
<1>5. \A r \in cam \cup ({0} \ {0}) : a[r].calls = 0
  BY <1>1, <1>3 DEF Good
<1>6. \A c \in Callers :
        Holds(rs, c) => /\ rs[c].req \in DOMAIN a \ (cam \cup {0})
                        /\ a[rs[c].req].calls = 0
  BY <1>0, <1>1, <1>3 DEF Good
<1>7. Good(a, cam, 0, rs)
  BY <1>3, <1>4, <1>5, <1>6 DEF Good
<1> QED
  BY <1>7 DEF a

\* The deferred open is sent.
LEMMA SendGood ==
  ASSUME NEW rq, NEW cam, NEW d, NEW rs, Good(rq, cam, d, rs), d # 0
  PROVE  Good(rq, cam \cup {d}, 0, rs)
<1>1. 0 \notin DOMAIN rq
  BY DEF Good
<1> QED
  BY <1>1 DEF Good

\* A new request: sent, waiting for the pong, or kept by its session.
LEMMA NewGood ==
  ASSUME NEW rq, NEW cam, NEW d, NEW rs, Good(rq, cam, d, rs),
         NEW q \in Reqs, q.calls = 0
  PROVE  /\ Good(Append(rq, q), cam, d, rs)
         /\ Good(Append(rq, q), cam \cup {Len(rq) + 1}, d, rs)
         /\ Good(Append(rq, q), cam, Len(rq) + 1, rs)
         /\ \A c \in Callers :
              Good(Append(rq, q), cam, d,
                   [rs EXCEPT ![c] = [at |-> "launch", req |-> Len(rq) + 1]])
<1> DEFINE a == Append(rq, q)
           n == Len(rq) + 1
<1>1. /\ rq \in Seq(Reqs) /\ a \in Seq(Reqs) /\ DOMAIN a = DOMAIN rq \cup {n}
      /\ n \in Nat /\ n \notin DOMAIN rq /\ n # 0 /\ 0 \notin DOMAIN rq
      /\ \A r \in DOMAIN rq : a[r] = rq[r]
      /\ a[n] = q
  BY AppendFacts DEF Good
<1> HIDE DEF a, n
<1>2. \A r \in DOMAIN a : a[r].calls <= 1
  BY <1>1 DEF Good
<1>3. Good(a, cam, d, rs)
  BY <1>1, <1>2 DEF Good
<1>4. Good(a, cam \cup {n}, d, rs)
  BY <1>1, <1>2 DEF Good
<1>5. Good(a, cam, n, rs)
  BY <1>1, <1>2 DEF Good
<1>6. ASSUME NEW c \in Callers
      PROVE  Good(a, cam, d, [rs EXCEPT ![c] = [at |-> "launch", req |-> n]])
  <2> DEFINE s == [rs EXCEPT ![c] = [at |-> "launch", req |-> n]]
  <2>1. /\ s \in [Callers -> [at : {"idle", "launch", "defer", "wait"}, req : Nat]]
        /\ s[c].req = n /\ \A b \in Callers : b # c => s[b] = rs[b]
    BY <1>1 DEF Good
  <2> HIDE DEF s
  <2>2. ASSUME NEW b \in Callers, Holds(s, b)
        PROVE  /\ s[b].req \in DOMAIN a \ (cam \cup {d}) /\ a[s[b].req].calls = 0
               /\ b # c => s[b].req # n
    <3>1. CASE b = c
      BY <1>1, <2>1, <3>1 DEF Good
    <3>2. CASE b # c
      <4>1. s[b] = rs[b] /\ Holds(rs, b)
        BY <2>1, <2>2, <3>2 DEF Holds
      <4> QED
        BY <1>1, <4>1 DEF Good
    <3> QED
      BY <3>1, <3>2
  <2>3. ASSUME NEW b \in Callers, NEW e \in Callers, Holds(s, b), Holds(s, e), s[b].req = s[e].req
        PROVE  b = e
    <3>1. CASE b # c /\ e # c
      BY <2>1, <2>3, <3>1 DEF Good, Holds
    <3>2. CASE b = c \/ e = c
      BY <2>1, <2>2, <2>3, <3>2
    <3> QED
      BY <3>1, <3>2
  <2>4. Good(a, cam, d, s)
    BY <1>1, <1>2, <2>1, <2>2, <2>3 DEF Good
  <2> QED
    BY <2>4 DEF s
<1> QED
  BY <1>3, <1>4, <1>5, <1>6 DEF a, n

\* A session that goes on, to another step that holds its request or to none.
LEMMA SessionGood ==
  ASSUME NEW rq, NEW cam, NEW d, NEW rs, Good(rq, cam, d, rs), NEW c \in Callers,
         NEW s \in [at : {"idle", "launch", "defer", "wait"}, req : Nat],
         s.at \in {"launch", "defer"} => Holds(rs, c) /\ s.req = rs[c].req
  PROVE  Good(rq, cam, d, [rs EXCEPT ![c] = s])
<1> DEFINE t == [rs EXCEPT ![c] = s]
<1>1. /\ t \in [Callers -> [at : {"idle", "launch", "defer", "wait"}, req : Nat]]
      /\ t[c] = s /\ \A b \in Callers : b # c => t[b] = rs[b]
  BY DEF Good
<1> HIDE DEF t
<1>2. \A b \in Callers : Holds(t, b) => Holds(rs, b) /\ t[b].req = rs[b].req
  BY <1>1 DEF Holds
<1>3. Good(rq, cam, d, t)
  BY <1>1, <1>2 DEF Good
<1> QED
  BY <1>3 DEF t

\* A session's open is left to the pong, in the place of one that was.
LEMMA DeferGood ==
  ASSUME NEW rq, NEW cam, NEW d, NEW rs, Good(rq, cam, d, rs), NEW c \in Callers,
         Holds(rs, c),
         NEW s \in [at : {"idle", "launch", "defer", "wait"}, req : Nat], s.at = "wait"
  PROVE  Good(rq, cam, rs[c].req, [rs EXCEPT ![c] = s])
<1> DEFINE t == [rs EXCEPT ![c] = s]
<1>1. /\ t \in [Callers -> [at : {"idle", "launch", "defer", "wait"}, req : Nat]]
      /\ t[c] = s /\ \A b \in Callers : b # c => t[b] = rs[b]
  BY DEF Good
<1> HIDE DEF t
<1>2. \A b \in Callers : Holds(t, b) => b # c /\ Holds(rs, b) /\ t[b].req = rs[b].req
  BY <1>1 DEF Holds
<1>3. /\ rs[c].req \in DOMAIN rq \ cam /\ rq[rs[c].req].calls = 0
  BY DEF Good
<1>4. \A b \in Callers : Holds(t, b) => /\ t[b].req # rs[c].req
                                        /\ t[b].req \in DOMAIN rq \ cam
                                        /\ rq[t[b].req].calls = 0
  BY <1>2 DEF Good
<1>5. \A b, e \in Callers : Holds(t, b) /\ Holds(t, e) /\ t[b].req = t[e].req => b = e
  BY <1>2 DEF Good
<1>6. Good(rq, cam, rs[c].req, t)
  BY <1>1, <1>3, <1>4, <1>5 DEF Good
<1> QED
  BY <1>6 DEF t

-----------------------------------------------------------------------------
(* The invariant.                                                          *)

Inv == Good(req, command_ack_map, deferred_event, rest)

\* At the start there is no request.
LEMMA InitInv == Init => Inv
<1> SUFFICES ASSUME Init PROVE Inv
  OBVIOUS
<1>1. /\ req = <<>> /\ command_ack_map = {} /\ deferred_event = 0
      /\ rest = [c \in Callers |-> [at |-> "idle", req |-> 0]]
  BY DEF Init, Idle
<1>2. <<>> \in Seq(Reqs) /\ DOMAIN <<>> = {}
  OBVIOUS
<1>3. \A c \in Callers : ~Holds(rest, c)
  BY <1>1 DEF Holds
<1> QED
  BY <1>1, <1>2, <1>3 DEF Inv, Good

\* Cancelling every command.
LEMMA CancelInv ==
  ASSUME Inv, CancelAll, UNCHANGED <<deferred_event, rest>>
  PROVE  Inv'
<1>1. /\ req' = Answer(req, command_ack_map) /\ command_ack_map' = {}
      /\ command_ack_map \ command_ack_map = {}
  BY DEF CancelAll
<1>2. Good(Answer(req, command_ack_map), command_ack_map \ command_ack_map, deferred_event, rest)
  BY AnswerGood DEF Inv
<1> QED
  BY <1>1, <1>2 DEF Inv

\* Nothing happened to requests.
LEMMA QuietInv ==
  ASSUME Inv, UNCHANGED <<deferred_event, rest, cmds>>
  PROVE  Inv'
BY DEF Inv, cmds

\* The steps of a thread's job: what they cancel was waiting.
LEMMA JobInv ==
  ASSUME Inv, NEW t \in Threads, JobStep(t) \/ RunPosted(t)
  PROVE  Inv'
<1>1. CASE TriggerTest(t) \/ TriggerMark(t) \/ handle_error(t) \/ handle_source_error(t)
  BY <1>1, QuietInv DEF TriggerTest, TriggerMark, handle_error, handle_source_error
<1>2. CASE close_external(t) \/ CloseBase(t) \/ RunPosted(t)
  BY <1>2, QuietInv DEF close_external, CloseBase, RunPosted
<1>3. CASE cancel_all_commands(t)
  BY <1>3, CancelInv DEF cancel_all_commands, CloseHeld
<1>4. CASE close_external_impl(t)
  BY <1>4, CancelInv DEF close_external_impl
<1> QED
  BY <1>1, <1>2, <1>3, <1>4 DEF JobStep

\* One command ends.
LEMMA EndOneInv ==
  ASSUME Inv, NEW r \in command_ack_map, req' = Answer(req, {r}),
         command_ack_map' = command_ack_map \ {r}, UNCHANGED <<deferred_event, rest>>
  PROVE  Inv'
<1>1. Good(Answer(req, {r}), command_ack_map \ {r}, deferred_event, rest)
  BY AnswerGood DEF Inv
<1> QED
  BY <1>1 DEF Inv

\* What the tool sends.
LEMMA StrandInv ==
  ASSUME Inv, NEW g \in 1 .. MaxGen, Strand(g)
  PROVE  Inv'
<1>1. CASE Pong(g)
  <2>1. rest' = rest
    BY <1>1 DEF Pong, procs
  <2>2. CASE deferred_event = 0
    BY <1>1, <2>1, <2>2, QuietInv DEF Pong
  <2>3. CASE deferred_event # 0 /\ CanSend
    <3>1. /\ deferred_event' = 0 /\ req' = req
          /\ command_ack_map' = command_ack_map \cup {deferred_event}
      BY <1>1, <2>3 DEF Pong, Send
    <3> QED
      BY <2>1, <2>3, <3>1, SendGood DEF Inv
  <2>4. CASE deferred_event # 0 /\ ~CanSend
    <3>1. /\ deferred_event' = 0 /\ req' = Answer(req, {deferred_event})
          /\ UNCHANGED command_ack_map
      BY <1>1, <2>4 DEF Pong
    <3> QED
      BY <2>1, <2>4, <3>1, AnswerDeferred DEF Inv
  <2> QED
    BY <2>2, <2>3, <2>4
<1>2. ASSUME NEW r \in asked, Report(g, r) PROVE Inv'
  <2>1. UNCHANGED <<deferred_event, rest>>
    BY <1>2 DEF Report, procs
  <2>2. CASE r \notin command_ack_map
    BY <1>2, <2>1, <2>2, QuietInv DEF Report
  <2>3. CASE r \in command_ack_map /\ req' = Answer(req, {r}) /\ command_ack_map' = command_ack_map \ {r}
    BY <2>1, <2>3, EndOneInv
  <2>4. CASE /\ r \in command_ack_map
             /\ req' = Append(Answer(req, {r}), Request("configure", "source"))
             /\ command_ack_map' = (command_ack_map \ {r}) \cup {New}
    <3> DEFINE a == Answer(req, {r})
    <3>1. Good(a, command_ack_map \ {r}, deferred_event, rest)
      BY <2>4, AnswerGood DEF Inv
    <3>2. Request("configure", "source") \in Reqs /\ Request("configure", "source").calls = 0
      BY DEF Request, Reqs
    <3>3. New = Len(a) + 1
      <4>1. req \in Seq(Reqs) /\ {r} \subseteq DOMAIN req
        BY <2>4 DEF Inv, Good
      <4> QED
        BY <4>1, AnswerFacts DEF New
    <3> HIDE DEF a
    <3>4. Good(Append(a, Request("configure", "source")),
               (command_ack_map \ {r}) \cup {Len(a) + 1}, deferred_event, rest)
      BY <3>1, <3>2, NewGood
    <3> QED
      BY <2>1, <2>4, <3>3, <3>4 DEF Inv, a
  <2> QED
    BY <1>2, <2>2, <2>3, <2>4 DEF Report
<1>3. ASSUME NEW r \in asked, ReportFailure(g, r) PROVE Inv'
  <2>1. UNCHANGED <<deferred_event, rest>>
    BY <1>3 DEF ReportFailure, procs
  <2>2. CASE cancelled
    <3>1. /\ command_ack_map' = command_ack_map \ {r}
          /\ req' = Answer(req, {r} \cap command_ack_map)
      BY <1>3, <2>2 DEF ReportFailure
    <3>2. command_ack_map \ {r} = command_ack_map \ ({r} \cap command_ack_map)
      OBVIOUS
    <3>3. Good(Answer(req, {r} \cap command_ack_map),
               command_ack_map \ ({r} \cap command_ack_map), deferred_event, rest)
      BY AnswerGood DEF Inv
    <3> QED
      BY <2>1, <3>1, <3>2, <3>3 DEF Inv
  <2>3. CASE ~cancelled
    BY <1>3, <2>1, <2>3, CancelInv DEF ReportFailure, CloseHeld
  <2> QED
    BY <2>2, <2>3
<1>4. CASE Eof(g)
  BY <1>4, QuietInv DEF Eof
<1> QED
  BY <1>1, <1>2, <1>3, <1>4 DEF Strand

\* The timer thread.
LEMMA TimerInv ==
  ASSUME Inv, TimerStart \/ StartReap \/ TimerRun
  PROVE  Inv'
<1>1. CASE TimerStart \/ StartReap \/ RetryNot
  BY <1>1, QuietInv DEF TimerStart, StartRetry, StartExpire, StartReap, RetryNot
<1>2. CASE Expire
  <2>1. UNCHANGED <<deferred_event, rest>>
    BY <1>2 DEF Expire
  <2>2. \/ \E c \in command_ack_map :
             command_ack_map' = command_ack_map \ {c} /\ req' = Answer(req, {c})
        \/ UNCHANGED cmds
    BY <1>2 DEF Expire
  <2> QED
    BY <2>1, <2>2, EndOneInv, QuietInv
<1>3. CASE RetryOpen
  <2>1. UNCHANGED <<command_ack_map, rest>>
    BY <1>3 DEF RetryOpen
  <2>2. CASE UNCHANGED <<deferred_event, req>>
    BY <2>1, <2>2, QuietInv DEF cmds
  <2>3. CASE req' = Append(req, Request("open", "retry")) /\ deferred_event' \in {deferred_event, New}
    <3>1. Request("open", "retry") \in Reqs /\ Request("open", "retry").calls = 0
      BY DEF Request, Reqs
    <3> QED
      BY <2>1, <2>3, <3>1, NewGood DEF Inv, New
  <2> QED
    BY <1>3, <2>2, <2>3 DEF RetryOpen
<1> QED
  BY <1>1, <1>2, <1>3 DEF TimerRun

\* Web sessions.
LEMMA SessionInv ==
  ASSUME Inv, NEW c \in Callers, Session(c) \/ OpenSource(c) \/ SetChannel(c)
  PROVE  Inv'
<1> DEFINE States == [at : {"idle", "launch", "defer", "wait"}, req : Nat]
<1>0. rest \in [Callers -> States] /\ rest[c] \in States
  BY DEF Inv, Good
<1>1. ASSUME NEW p \in {"defer", "wait"}
      PROVE  /\ [rest[c] EXCEPT !.at = p] \in States
             /\ [rest[c] EXCEPT !.at = p].at = p
             /\ [rest[c] EXCEPT !.at = p].req = rest[c].req
  BY <1>0
<1>2. CASE Launch(c)
  <2>1. PICK p \in {"defer", "wait"} : rest' = [rest EXCEPT ![c] = [rest[c] EXCEPT !.at = p]]
    BY <1>2 DEF Launch
  <2>2. Holds(rest, c) /\ UNCHANGED <<deferred_event, command_ack_map, req>>
    BY <1>2 DEF Launch, Holds, cmds
  <2>3. Good(req, command_ack_map, deferred_event, [rest EXCEPT ![c] = [rest[c] EXCEPT !.at = p]])
    BY <1>1, <2>2, SessionGood DEF Inv
  <2> QED
    BY <2>1, <2>2, <2>3 DEF Inv
<1>3. CASE Defer(c)
  <2>1. /\ Holds(rest, c) /\ deferred_event' = rest[c].req
        /\ rest' = [rest EXCEPT ![c] = [rest[c] EXCEPT !.at = "wait"]]
        /\ UNCHANGED <<command_ack_map, req>>
    BY <1>3 DEF Defer, Holds, cmds
  <2>2. Good(req, command_ack_map, rest[c].req, [rest EXCEPT ![c] = [rest[c] EXCEPT !.at = "wait"]])
    BY <1>1, <2>1, DeferGood DEF Inv
  <2> QED
    BY <2>1, <2>2 DEF Inv
<1>4. CASE Return(c)
  <2>1. rest' = [rest EXCEPT ![c] = Idle] /\ UNCHANGED <<deferred_event, command_ack_map, req>>
    BY <1>4 DEF Return, cmds
  <2>2. Idle \in States /\ Idle.at = "idle"
    BY DEF Idle
  <2>3. Good(req, command_ack_map, deferred_event, [rest EXCEPT ![c] = Idle])
    BY <2>2, SessionGood DEF Inv
  <2> QED
    BY <2>1, <2>3 DEF Inv
<1>5. CASE OpenSource(c)
  <2>1. UNCHANGED <<deferred_event, command_ack_map>>
    BY <1>5 DEF OpenSource
  <2>2. CASE UNCHANGED <<rest, req>>
    BY <2>1, <2>2, QuietInv DEF cmds
  <2>3. CASE /\ req' = Append(req, Request("open", c))
             /\ rest' = [rest EXCEPT ![c] = [at |-> "launch", req |-> New]]
    <3>1. Request("open", c) \in Reqs /\ Request("open", c).calls = 0
      BY DEF Request, Reqs
    <3> QED
      BY <2>1, <2>3, <3>1, NewGood DEF Inv, New
  <2> QED
    BY <1>5, <2>2, <2>3 DEF OpenSource
<1>6. CASE SetChannel(c)
  <2>1. /\ req' = Append(req, Request("configure", c))
        /\ command_ack_map' = command_ack_map \cup {New}
        /\ rest' = [rest EXCEPT ![c] = [at |-> "wait", req |-> New]]
        /\ UNCHANGED deferred_event
    BY <1>6 DEF SetChannel, SendConfigure
  <2>2. Request("configure", c) \in Reqs /\ Request("configure", c).calls = 0
    BY DEF Request, Reqs
  <2>3. Good(req', command_ack_map', deferred_event, rest)
    BY <2>1, <2>2, NewGood DEF Inv, New
  <2>4. [at |-> "wait", req |-> New] \in States
    <3>1. New \in Nat
      BY DEF New, Inv, Good
    <3> QED
      BY <3>1
  <2>5. Good(req', command_ack_map', deferred_event,
             [rest EXCEPT ![c] = [at |-> "wait", req |-> New]])
    BY <2>3, <2>4, SessionGood
  <2> QED
    BY <2>1, <2>5 DEF Inv
<1> QED
  BY <1>2, <1>3, <1>4, <1>5, <1>6 DEF Session

\* A web session that disables the source cancels what waits.
LEMMA DisableInv ==
  ASSUME Inv, disable_source
  PROVE  Inv'
<1>1. UNCHANGED <<deferred_event, rest>>
  BY DEF disable_source
<1>2. CASE io = "none"
  BY <1>1, <1>2, CancelInv DEF disable_source, CloseHeld
<1>3. CASE io # "none"
  BY <1>1, <1>3, QuietInv DEF disable_source
<1> QED
  BY <1>2, <1>3

\* The invariant holds in every state.
LEMMA Invariant == Spec => []Inv
<1>1. Inv /\ [Next]_vars => Inv'
  <2> SUFFICES ASSUME Inv, [Next]_vars PROVE Inv'
    OBVIOUS
  <2>1. CASE UNCHANGED vars
    BY <2>1, QuietInv DEF vars, procs
  <2>2. CASE Next
    BY <2>2, JobInv, StrandInv, TimerInv, SessionInv, DisableInv DEF Next
  <2> QED
    BY <2>1, <2>2
<1> QED
  BY <1>1, InitInv, PTL DEF Spec

-----------------------------------------------------------------------------
\* No callback of a command or an open is made twice: it is the report's, the
\* timer's, the error's or the close's, whatever connections, launches and
\* sessions there are (kis_datasource.cc, cancel_command, cancel_all_commands
\* and the reports).
THEOREM CallbacksOnce == Spec => []AnsweredOnce
<1>1. Inv => AnsweredOnce
  BY DEF Inv, Good, AnsweredOnce
<1> QED
  BY <1>1, Invariant, PTL

-----------------------------------------------------------------------------
(***************************************************************************)
(* The types of the source. Timers, the connection and the threads are     *)
(* kept apart: a step that has to do with one seldom has with another.     *)
(***************************************************************************)
RetryTimers == errTimer \in Nat /\ timers \subseteq Nat \ {0} /\ IsFiniteSet(timers)

\* The tool owes answers only to what was sent, and while it is connected.
Link ==
  /\ io \in {"none", "open", "stopped"} /\ asked \subseteq {Ping} \cup DOMAIN req
  /\ io = "none" => asked = {}

\* A strand has work, or a close that was posted to it, only after its launch.
Jobs == [at : {"idle", "trigger", "mark", "error", "source_error", "cancel", "close",
               "impl", "base", "retry", "expire"}, req : Nat]
Work ==
  /\ gen \in 0 .. MaxGen /\ job \in [Threads -> Jobs] /\ posted \in [Threads -> Nat]
  /\ \A t \in Threads : t <= gen \/ (job[t] = Idle /\ posted[t] = 0)

\* There is always a number that no timer has.
LEMMA FreeNumber ==
  ASSUME NEW T, IsFiniteSet(T)
  PROVE  \E n \in 1 .. (Cardinality(T) + 1) : n \notin T
<1> DEFINE k == Cardinality(T) + 1
<1>1. Cardinality(T) \in Nat
  BY FS_CardinalityType
<1>2. k \in Nat /\ k > Cardinality(T)
  BY <1>1
<1> HIDE DEF k
<1>3. IsFiniteSet(1 .. k) /\ Cardinality(1 .. k) = k
  BY <1>2, FS_Interval
<1>4. ~(1 .. k \subseteq T)
  BY <1>1, <1>2, <1>3, FS_Subset
<1> QED BY <1>4 DEF k

\* A timer that is registered gets such a number.
LEMMA RetryScheduled ==
  ASSUME RetryTimers, ScheduleRetry
  PROVE  RetryTimers'
<1>1. CASE retry /\ errTimer = 0
  <2> DEFINE i == CHOOSE n \in 1 .. (Cardinality(timers) + 1) : n \notin timers
  <2>1. errTimer' = i /\ timers' = timers \cup {i}
    BY <1>1 DEF ScheduleRetry
  <2>2. i \in 1 .. (Cardinality(timers) + 1)
    BY FreeNumber DEF RetryTimers
  <2>3. Cardinality(timers) \in Nat
    BY FS_CardinalityType DEF RetryTimers
  <2> HIDE DEF i
  <2>4. IsFiniteSet(timers \cup {i})
    BY FS_AddElement DEF RetryTimers
  <2> QED BY <2>1, <2>2, <2>3, <2>4 DEF RetryTimers
<1>2. CASE ~(retry /\ errTimer = 0)
  BY <1>2 DEF ScheduleRetry, retryv, RetryTimers
<1> QED BY <1>1, <1>2

\* Every other step only takes timers away.
LEMMA RetryTimersKept ==
  ASSUME RetryTimers, [Next]_vars
  PROVE  RetryTimers'
<1>1. ASSUME timers' \subseteq timers, errTimer' \in {0, errTimer} PROVE RetryTimers'
  <2>1. IsFiniteSet(timers')
    BY <1>1, FS_Subset DEF RetryTimers
  <2> QED BY <1>1, <2>1 DEF RetryTimers
<1>2. ASSUME UNCHANGED retryv PROVE RetryTimers'
  BY <1>1, <1>2 DEF retryv
<1>3. ASSUME NEW t \in Threads, JobStep(t) \/ RunPosted(t) PROVE RetryTimers'
  <2>1. CASE handle_source_error(t)
    BY <2>1, RetryScheduled DEF handle_source_error
  <2> QED
    BY <1>2, <1>3, <2>1 DEF JobStep, TriggerTest, TriggerMark, handle_error,
       cancel_all_commands, close_external, close_external_impl, CloseBase, RunPosted
<1>4. ASSUME NEW g \in 1 .. MaxGen, Strand(g) PROVE RetryTimers'
  <2>1. ASSUME NEW r \in asked, ReportFailure(g, r) PROVE RetryTimers'
    <3>1. CASE cancelled
      BY <1>2, <2>1, <3>1 DEF ReportFailure
    <3>2. CASE ~cancelled
      BY <2>1, <3>2, RetryScheduled DEF ReportFailure
    <3> QED BY <3>1, <3>2
  <2> QED BY <1>2, <1>4, <2>1 DEF Strand, Pong, Report, Eof
<1>5. CASE TimerStart \/ StartReap \/ TimerRun
  <2>1. CASE StartRetry \/ RetryOpen
    BY <1>1, <2>1 DEF StartRetry, RetryOpen
  <2> QED
    BY <1>2, <1>5, <2>1 DEF TimerStart, TimerRun, StartExpire, StartReap, Expire, RetryNot
<1>6. ASSUME NEW c \in Callers, Session(c) \/ OpenSource(c) \/ SetChannel(c) PROVE RetryTimers'
  <2>1. CASE OpenSource(c)
    BY <1>1, <2>1 DEF OpenSource
  <2> QED BY <1>2, <1>6, <2>1 DEF Session, Launch, Defer, Return, SetChannel
<1>7. CASE disable_source
  BY <1>1, <1>7 DEF disable_source
<1>8. CASE UNCHANGED vars
  BY <1>2, <1>8 DEF vars
<1> QED BY <1>3, <1>4, <1>5, <1>6, <1>7, <1>8 DEF Next

\* A callback adds no request and takes none, and a new one is the next.
LEMMA AnswerDomain ==
  ASSUME NEW rq, NEW A
  PROVE  DOMAIN Answer(rq, A) = DOMAIN rq
BY DEF Answer

\* A request that was made stays.
LEMMA NewRequest ==
  ASSUME Inv, NEW kind \in {"open", "configure"}, NEW by \in Callers \cup {"retry", "source"},
         NEW A \in SUBSET (DOMAIN req),
         req' = Append(Answer(req, A), Request(kind, by)) \/ req' = Append(req, Request(kind, by))
  PROVE  DOMAIN req' = DOMAIN req \cup {New}
<1>1. req \in Seq(Reqs)
  BY DEF Inv, Good
<1>2. Request(kind, by) \in Reqs
  BY DEF Request, Reqs
<1>3. /\ Answer(req, A) \in Seq(Reqs) /\ Len(Answer(req, A)) = Len(req)
      /\ DOMAIN Answer(req, A) = DOMAIN req
  BY <1>1, AnswerFacts
<1> QED BY <1>1, <1>2, <1>3, AppendFacts DEF New

\* No step takes a request away.
LEMMA RequestsStay ==
  ASSUME Inv, [Next]_vars
  PROVE  DOMAIN req \subseteq DOMAIN req'
<1>1. ASSUME UNCHANGED req PROVE DOMAIN req \subseteq DOMAIN req'
  BY <1>1
<1>2. ASSUME CancelAll PROVE DOMAIN req \subseteq DOMAIN req'
  BY <1>2, AnswerDomain DEF CancelAll
<1>3. ASSUME NEW t \in Threads, JobStep(t) \/ RunPosted(t) PROVE DOMAIN req \subseteq DOMAIN req'
  <2>1. CASE cancel_all_commands(t) \/ close_external_impl(t)
    BY <1>2, <2>1 DEF cancel_all_commands, close_external_impl, CloseHeld
  <2> QED
    BY <1>1, <1>3, <2>1 DEF JobStep, TriggerTest, TriggerMark, handle_error,
       handle_source_error, close_external, CloseBase, RunPosted, cmds
<1>4. ASSUME NEW g \in 1 .. MaxGen, Strand(g) PROVE DOMAIN req \subseteq DOMAIN req'
  <2>1. CASE Pong(g)
    BY <1>1, <2>1, AnswerDomain DEF Pong, cmds
  <2>2. ASSUME NEW r \in asked, Report(g, r) PROVE DOMAIN req \subseteq DOMAIN req'
    <3>1. command_ack_map \subseteq DOMAIN req
      BY DEF Inv, Good
    <3>2. \/ UNCHANGED req \/ req' = Answer(req, {r})
          \/ r \in command_ack_map /\ req' = Append(Answer(req, {r}), Request("configure", "source"))
      BY <2>2 DEF Report, cmds
    <3> QED BY <3>1, <3>2, AnswerDomain, NewRequest
  <2>3. ASSUME NEW r \in asked, ReportFailure(g, r) PROVE DOMAIN req \subseteq DOMAIN req'
    BY <1>2, <2>3, AnswerDomain DEF ReportFailure, CloseHeld
  <2>4. CASE Eof(g)
    BY <1>1, <2>4 DEF Eof, cmds
  <2> QED BY <1>4, <2>1, <2>2, <2>3, <2>4 DEF Strand
<1>5. CASE TimerStart \/ StartReap \/ TimerRun
  <2>1. CASE RetryOpen
    <3>1. UNCHANGED req \/ req' = Append(req, Request("open", "retry"))
      BY <2>1 DEF RetryOpen
    <3> QED BY <3>1, NewRequest
  <2>2. CASE Expire
    BY <1>1, <2>2, AnswerDomain DEF Expire, cmds
  <2> QED
    BY <1>1, <1>5, <2>1, <2>2
       DEF TimerStart, TimerRun, StartRetry, StartExpire, StartReap, RetryNot, cmds
<1>6. ASSUME NEW c \in Callers, Session(c) \/ OpenSource(c) \/ SetChannel(c)
      PROVE  DOMAIN req \subseteq DOMAIN req'
  <2>1. CASE OpenSource(c)
    <3>1. UNCHANGED req \/ req' = Append(req, Request("open", c))
      BY <2>1 DEF OpenSource
    <3> QED BY <3>1, NewRequest
  <2>2. CASE SetChannel(c)
    <3>1. req' = Append(req, Request("configure", c))
      BY <2>2 DEF SetChannel, SendConfigure
    <3> QED BY <3>1, NewRequest
  <2> QED BY <1>1, <1>6, <2>1, <2>2 DEF Session, Launch, Defer, Return, cmds
<1>7. CASE disable_source
  BY <1>1, <1>2, <1>7 DEF disable_source, CloseHeld, cmds
<1>8. CASE UNCHANGED vars
  BY <1>1, <1>8 DEF vars, cmds
<1> QED BY <1>3, <1>4, <1>5, <1>6, <1>7, <1>8 DEF Next

\* A close and a failed launch forget what was asked; only a connection that
\* is open is asked for more.
LEMMA LinkKept ==
  ASSUME Inv, Link, [Next]_vars
  PROVE  Link'
<1>s. DOMAIN req \subseteq DOMAIN req'
  BY RequestsStay
<1>1. ASSUME io' \in {"none", "open", "stopped"}, asked' = {} PROVE Link'
  BY <1>1 DEF Link
<1>2. ASSUME io' = io, asked' \subseteq asked PROVE Link'
  BY <1>s, <1>2 DEF Link
<1>3. ASSUME io = "open", io' = io, NEW x \in {Ping} \cup DOMAIN req',
             asked' \subseteq asked \cup {x}
      PROVE  Link'
  BY <1>s, <1>3 DEF Link
<1>4. ASSUME CloseHeld PROVE Link'
  BY <1>1, <1>4 DEF CloseHeld
<1>5. ASSUME UNCHANGED <<io, asked>> PROVE Link'
  BY <1>2, <1>5
<1>6. ASSUME NEW t \in Threads, JobStep(t) \/ RunPosted(t) PROVE Link'
  <2>1. CASE cancel_all_commands(t)
    BY <1>4, <1>5, <2>1 DEF cancel_all_commands, conn
  <2>2. CASE CloseBase(t)
    BY <1>1, <2>2 DEF CloseBase
  <2> QED
    BY <1>5, <1>6, <2>1, <2>2 DEF JobStep, TriggerTest, TriggerMark, handle_error,
       handle_source_error, close_external, close_external_impl, RunPosted, conn
<1>7. ASSUME NEW g \in 1 .. MaxGen, Strand(g) PROVE Link'
  <2>1. CASE Pong(g)
    <3>1. io' = io /\ io = "open"
      BY <2>1 DEF Pong, OnStrand
    <3>2. CASE asked' = asked \ {Ping}
      BY <1>2, <3>1, <3>2
    <3>3. CASE deferred_event # 0 /\ asked' = (asked \ {Ping}) \cup {deferred_event}
      <4>1. deferred_event \in DOMAIN req'
        BY <1>s, <3>3 DEF Inv, Good
      <4>2. asked' \subseteq asked \cup {deferred_event}
        BY <3>3
      <4> QED BY <1>3, <3>1, <4>1, <4>2
    <3> QED BY <2>1, <3>2, <3>3 DEF Pong, Send
  <2>2. ASSUME NEW r \in asked, Report(g, r) PROVE Link'
    <3>1. io' = io /\ io = "open"
      BY <2>2 DEF Report, OnStrand
    <3>2. CASE asked' = asked \ {r}
      BY <1>2, <3>1, <3>2
    <3>3. CASE /\ r \in command_ack_map
               /\ req' = Append(Answer(req, {r}), Request("configure", "source"))
               /\ asked' = (asked \ {r}) \cup {New}
      <4>1. {r} \in SUBSET (DOMAIN req)
        BY <3>3 DEF Inv, Good
      <4>2. New \in DOMAIN req'
        BY <3>3, <4>1, NewRequest
      <4>3. asked' \subseteq asked \cup {New}
        BY <3>3
      <4> QED BY <1>3, <3>1, <4>2, <4>3
    <3> QED BY <2>2, <3>2, <3>3 DEF Report
  <2>3. ASSUME NEW r \in asked, ReportFailure(g, r) PROVE Link'
    <3>1. CASE cancelled
      BY <1>2, <2>3, <3>1 DEF ReportFailure
    <3>2. CASE ~cancelled
      BY <1>4, <2>3, <3>2 DEF ReportFailure
    <3> QED BY <3>1, <3>2
  <2>4. CASE Eof(g)
    BY <1>1, <2>4 DEF Eof
  <2> QED BY <1>7, <2>1, <2>2, <2>3, <2>4 DEF Strand
<1>8. CASE TimerStart \/ StartReap \/ TimerRun
  <2>1. CASE RetryOpen
    <3>1. \/ UNCHANGED <<io, asked>>
          \/ io' = "none" /\ asked' = {}
          \/ io' = "open" /\ asked' = {Ping}
      BY <2>1 DEF RetryOpen, LaunchFails, LaunchOk, conn
    <3> QED BY <1>1, <1>5, <3>1 DEF Link
  <2> QED
    BY <1>5, <1>8, <2>1
       DEF TimerStart, TimerRun, StartRetry, StartExpire, StartReap, Expire, RetryNot, conn
<1>9. ASSUME NEW c \in Callers, Session(c) \/ OpenSource(c) \/ SetChannel(c) PROVE Link'
  <2>1. CASE Launch(c)
    BY <1>1, <2>1 DEF Launch, LaunchOk, LaunchFails
  <2>2. CASE Defer(c)
    <3>1. io' = io
      BY <2>2 DEF Defer
    <3>2. CASE io = "open"
      <4>1. asked' \subseteq asked \cup {Ping}
        BY <2>2 DEF Defer
      <4> QED BY <1>3, <3>1, <3>2, <4>1
    <3>3. CASE io # "open"
      BY <1>2, <2>2, <3>1, <3>3 DEF Defer, CanSend
    <3> QED BY <3>2, <3>3
  <2>3. CASE SetChannel(c)
    <3>1. /\ io = "open" /\ io' = io /\ asked' = asked \cup {New}
          /\ req' = Append(req, Request("configure", c))
      BY <2>3 DEF SetChannel, SendConfigure, CanSend
    <3>2. New \in DOMAIN req'
      BY <3>1, NewRequest
    <3> QED BY <1>3, <3>1, <3>2
  <2> QED BY <1>5, <1>9, <2>1, <2>2, <2>3 DEF Session, Return, OpenSource, conn
<1>10. CASE disable_source
  BY <1>4, <1>5, <1>10 DEF disable_source
<1>11. CASE UNCHANGED vars
  BY <1>5, <1>11 DEF vars, conn
<1> QED BY <1>6, <1>7, <1>8, <1>9, <1>10, <1>11 DEF Next

\* A close is posted to the strand of the connection, which was launched.
LEMMA PostedTo ==
  ASSUME Work, Post \/ UNCHANGED posted
  PROVE  posted' \in [Threads -> Nat] /\ \A t \in Threads : t <= gen \/ posted'[t] = posted[t]
<1>1. gen \in Threads /\ gen \in Nat
  BY DatasourceAssumption DEF Work, Threads
<1>2. CASE Post
  <2>1. posted' = [posted EXCEPT ![gen] = posted[gen] + 1]
    BY <1>2 DEF Post
  <2>2. posted' \in [Threads -> Nat] /\ \A t \in Threads : t # gen => posted'[t] = posted[t]
    BY <1>1, <2>1 DEF Work
  <2> QED BY <1>1, <2>2
<1>3. CASE UNCHANGED posted
  BY <1>3 DEF Work
<1> QED BY <1>2, <1>3

\* A thread that goes on with its job, or starts one.
LEMMA GoesOn ==
  ASSUME Work, NEW t \in Threads, t <= gen, NEW j \in Jobs, job' = [job EXCEPT ![t] = j],
         UNCHANGED gen, Post \/ UNCHANGED posted
  PROVE  Work'
<1>1. posted' \in [Threads -> Nat] /\ \A u \in Threads : u <= gen \/ posted'[u] = posted[u]
  BY PostedTo
<1>2. job' \in [Threads -> Jobs] /\ \A u \in Threads : u # t => job'[u] = job[u]
  BY DEF Work
<1> QED BY <1>1, <1>2 DEF Work

\* A launch is the next, and leaves the threads alone.
LEMMA NextLaunch ==
  ASSUME Work, gen' = gen \/ (gen < MaxGen /\ gen' = gen + 1), UNCHANGED <<job, posted>>
  PROVE  Work'
BY DatasourceAssumption DEF Work, Threads

\* A thread that is not idle was launched, or is the timer thread; moving on
\* is a change to its job.
LEMMA AtWork ==
  ASSUME Work, NEW t \in Threads, job[t] # Idle
  PROVE  /\ t <= gen /\ Idle \in Jobs
         /\ \A p \in {"mark", "error", "source_error", "cancel", "close", "impl", "base"} :
              /\ [job[t] EXCEPT !.at = p] \in Jobs
              /\ Goto(t, p) => job' = [job EXCEPT ![t] = [job[t] EXCEPT !.at = p]]
BY DEF Work, Jobs, Idle, Goto

\* Every step leaves the threads with work of their own.
LEMMA WorkKept ==
  ASSUME Inv, Work, [Next]_vars
  PROVE  Work'
<1>i. Idle \in Jobs /\ Idle.at = "idle"
  BY DEF Idle, Jobs
<1>0. Timer \in Threads /\ Timer <= gen
  BY DatasourceAssumption DEF Work, Timer, Threads
<1>1. ASSUME UNCHANGED <<gen, job, posted>> PROVE Work'
  BY <1>1 DEF Work
<1>2. ASSUME NEW t \in Threads, JobStep(t) PROVE Work'
  <2>1. job[t] # Idle
    BY <1>i, <1>2 DEF JobStep, TriggerTest, TriggerMark, handle_error, handle_source_error,
       cancel_all_commands, close_external, close_external_impl, CloseBase
  <2>2. /\ t <= gen
        /\ \A p \in {"mark", "error", "source_error", "cancel", "close", "impl", "base"} :
             /\ [job[t] EXCEPT !.at = p] \in Jobs
             /\ Goto(t, p) => job' = [job EXCEPT ![t] = [job[t] EXCEPT !.at = p]]
    BY <2>1, AtWork
  <2>3. /\ \/ job' = [job EXCEPT ![t] = Idle]
           \/ \E p \in {"mark", "error", "source_error", "cancel", "close", "impl", "base"} :
                Goto(t, p)
        /\ UNCHANGED gen /\ (Post \/ UNCHANGED posted)
    <3>1. CASE TriggerTest(t) \/ TriggerMark(t) \/ handle_error(t) \/ handle_source_error(t)
      BY <3>1 DEF TriggerTest, TriggerMark, handle_error, handle_source_error, conn
    <3>2. CASE cancel_all_commands(t) \/ close_external(t)
      BY <3>2 DEF cancel_all_commands, close_external, conn
    <3>3. CASE close_external_impl(t) \/ CloseBase(t)
      BY <3>3 DEF close_external_impl, CloseBase, conn
    <3> QED BY <1>2, <3>1, <3>2, <3>3 DEF JobStep
  <2>4. CASE job' = [job EXCEPT ![t] = Idle]
    BY <1>i, <2>2, <2>3, <2>4, GoesOn
  <2>5. ASSUME NEW p \in {"mark", "error", "source_error", "cancel", "close", "impl", "base"},
               Goto(t, p)
        PROVE  Work'
    BY <2>2, <2>3, <2>5, GoesOn
  <2> QED BY <2>3, <2>4, <2>5
<1>3. ASSUME NEW t \in Threads, RunPosted(t) PROVE Work'
  <2>1. /\ posted[t] > 0 /\ posted' = [posted EXCEPT ![t] = posted[t] - 1]
        /\ job' = [job EXCEPT ![t] = [job[t] EXCEPT !.at = "impl"]] /\ UNCHANGED gen
    BY <1>3 DEF RunPosted, conn
  <2>2. t <= gen /\ posted[t] \in Nat /\ [job[t] EXCEPT !.at = "impl"] \in Jobs
    BY <2>1 DEF Work, Jobs
  <2>3. posted[t] - 1 \in Nat
    BY <2>1, <2>2
  <2>4. /\ job' \in [Threads -> Jobs] /\ posted' \in [Threads -> Nat]
        /\ \A u \in Threads : u # t => job'[u] = job[u] /\ posted'[u] = posted[u]
    BY <2>1, <2>2, <2>3 DEF Work
  <2> QED BY <2>1, <2>2, <2>4 DEF Work
<1>4. ASSUME NEW g \in 1 .. MaxGen, Strand(g) PROVE Work'
  <2>1. CASE Eof(g)
    <3>1. /\ g \in Threads /\ g = gen /\ UNCHANGED <<gen, posted>>
          /\ job' = [job EXCEPT ![g] = [job[g] EXCEPT !.at = "trigger"]]
      BY <2>1, DatasourceAssumption DEF Eof, OnStrand, Goto, Threads
    <3>2. [job[g] EXCEPT !.at = "trigger"] \in Jobs /\ g <= gen
      BY <3>1 DEF Work, Jobs
    <3> QED BY <3>1, <3>2, GoesOn
  <2> QED BY <1>1, <1>4, <2>1 DEF Strand, Pong, Report, ReportFailure, procs
<1>5. CASE TimerStart \/ StartReap \/ TimerRun
  <2>1. ASSUME NEW j \in Jobs, job' = [job EXCEPT ![Timer] = j], UNCHANGED <<gen, posted>>
        PROVE  Work'
    BY <1>0, <2>1, GoesOn
  <2>2. ASSUME NEW p \in {"retry", "trigger"}, Goto(Timer, p), UNCHANGED <<gen, posted>>
        PROVE  Work'
    <3>1. [job[Timer] EXCEPT !.at = p] \in Jobs
      BY <1>0 DEF Work, Jobs
    <3> QED BY <2>1, <2>2, <3>1 DEF Goto
  <2>3. CASE StartRetry \/ StartReap
    BY <2>2, <2>3 DEF StartRetry, StartReap, conn
  <2>4. ASSUME NEW r \in command_ack_map, StartExpire(r) PROVE Work'
    <3>1. r \in Nat
      BY DEF Inv, Good
    <3>2. [at |-> "expire", req |-> r] \in Jobs
      BY <3>1 DEF Jobs
    <3> QED BY <2>1, <2>4, <3>2 DEF StartExpire, conn
  <2>5. CASE Expire \/ RetryNot
    BY <1>i, <2>1, <2>5 DEF Expire, RetryNot, conn
  <2>6. CASE RetryOpen
    <3>1. /\ job' = [job EXCEPT ![Timer] = Idle] /\ UNCHANGED posted
          /\ gen' = gen \/ (gen < MaxGen /\ gen' = gen + 1)
      BY <2>6 DEF RetryOpen, LaunchOk, LaunchFails, conn
    <3>2. job' \in [Threads -> Jobs] /\ \A t \in Threads : t # Timer => job'[t] = job[t]
      BY <1>i, <3>1 DEF Work
    <3> QED BY <1>0, <3>1, <3>2, DatasourceAssumption DEF Work, Threads
  <2> QED BY <1>5, <2>3, <2>4, <2>5, <2>6 DEF TimerStart, TimerRun
<1>6. ASSUME NEW c \in Callers, Session(c) \/ OpenSource(c) \/ SetChannel(c) PROVE Work'
  <2>1. CASE Launch(c)
    BY <2>1, NextLaunch DEF Launch, LaunchOk, LaunchFails
  <2> QED BY <1>1, <1>6, <2>1 DEF Session, Defer, Return, OpenSource, SetChannel, conn
<1>7. CASE disable_source
  <2>1. UNCHANGED <<gen, job>> /\ (Post \/ UNCHANGED posted)
    BY <1>7 DEF disable_source
  <2>2. posted' \in [Threads -> Nat] /\ \A t \in Threads : t <= gen \/ posted'[t] = posted[t]
    BY <2>1, PostedTo
  <2> QED BY <2>1, <2>2 DEF Work
<1>8. CASE UNCHANGED vars
  BY <1>1, <1>8 DEF vars, conn, procs
<1> QED BY <1>2, <1>3, <1>4, <1>5, <1>6, <1>7, <1>8 DEF Next

\* The type invariant of a source: a command waits for its report or for the
\* pong, never for both, and has then had no callback; the tool owes answers
\* only to requests there are, and none once the connection is closed; and no
\* strand works before its launch, although closes are posted to it by other
\* threads (kis_datasource.cc and kis_external.cc, close_external).
THEOREM SourceTypeCorrect == Spec => []TypeOK
<1>1. Init => RetryTimers /\ Link /\ Work
  <2> SUFFICES ASSUME Init PROVE RetryTimers /\ Link /\ Work
    OBVIOUS
  <2>1. RetryTimers
    BY FS_EmptySet DEF Init, RetryTimers
  <2>2. Link
    BY DEF Init, Link
  <2>3. Idle \in Jobs
    BY DEF Idle, Jobs
  <2>4. Work
    BY <2>3, DatasourceAssumption DEF Init, Work, Threads
  <2> QED BY <2>1, <2>2, <2>4
<1>2. Inv /\ RetryTimers /\ Link /\ Work /\ [Next]_vars => (RetryTimers /\ Link /\ Work)'
  BY RetryTimersKept, LinkKept, WorkKept
<1>3. Inv /\ RetryTimers /\ Link /\ Work => TypeOK
  <2> SUFFICES ASSUME Inv, RetryTimers, Link, Work PROVE TypeOK
    OBVIOUS
  <2>1. \A t \in Threads : job[t] # Idle => t <= gen
    BY DEF Work
  <2> QED BY <2>1 DEF TypeOK, Inv, Good, RetryTimers, Link, Work
<1> QED BY <1>1, <1>2, <1>3, Invariant, PTL DEF Spec

-----------------------------------------------------------------------------
(* The capture tool: sequences without pongs.                              *)

\* The places of the frames of q that are no pongs, how many of them are no
\* later than i, and the k-th.
Kept(q) == {i \in DOMAIN q : q[i] # PongFrame}
UpTo(K, i) == Cardinality(K \cap (1 .. i))
Nth(K, k) == CHOOSE i \in K : UpTo(K, i) = k

\* Among finitely many places each has a rank of its own, and later ones a
\* higher one.
LEMMA RanksGrow ==
  ASSUME NEW n \in Nat, NEW K \in SUBSET (1 .. n)
  PROVE  /\ IsFiniteSet(K) /\ Cardinality(K) \in Nat
         /\ \A i \in Nat : UpTo(K, i) \in 0 .. Cardinality(K)
         /\ \A i \in K : UpTo(K, i) \in 1 .. Cardinality(K)
         /\ \A i \in Nat : \A j \in K : i < j => UpTo(K, i) < UpTo(K, j)
<1>1. IsFiniteSet(1 .. n)
  BY FS_Interval
<1>2. IsFiniteSet(K) /\ Cardinality(K) \in Nat
  BY <1>1, FS_Subset, FS_CardinalityType
<1>3. ASSUME NEW i \in Nat
      PROVE  IsFiniteSet(K \cap (1 .. i)) /\ UpTo(K, i) \in 0 .. Cardinality(K)
  <2>1. K \cap (1 .. i) \in SUBSET K
    OBVIOUS
  <2>2. IsFiniteSet(K \cap (1 .. i)) /\ Cardinality(K \cap (1 .. i)) <= Cardinality(K)
    BY <1>2, <2>1, FS_Subset
  <2> QED BY <1>2, <2>2, FS_CardinalityType DEF UpTo
<1>4. ASSUME NEW i \in Nat, NEW j \in K, i < j
      PROVE  UpTo(K, i) < UpTo(K, j)
  <2>1. j \in Nat /\ j \in K \cap (1 .. j) /\ j \notin K \cap (1 .. i)
    BY <1>4
  <2>2. K \cap (1 .. i) \in SUBSET (K \cap (1 .. j))
    BY <1>4, <2>1
  <2>3. /\ Cardinality(K \cap (1 .. i)) <= Cardinality(K \cap (1 .. j))
        /\ Cardinality(K \cap (1 .. i)) # Cardinality(K \cap (1 .. j))
    BY <1>3, <2>1, <2>2, FS_Subset
  <2>4. UpTo(K, i) \in 0 .. Cardinality(K) /\ UpTo(K, j) \in 0 .. Cardinality(K)
    BY <1>3, <2>1
  <2> QED BY <1>2, <2>3, <2>4 DEF UpTo
<1>5. UpTo(K, 0) = 0
  <2>1. K \cap (1 .. 0) = {}
    OBVIOUS
  <2> QED BY <2>1, FS_EmptySet DEF UpTo
<1>6. \A i \in K : UpTo(K, i) \in 1 .. Cardinality(K)
  <2> TAKE i \in K
  <2>1. i \in Nat /\ 0 < i
    OBVIOUS
  <2>2. UpTo(K, i) \in 0 .. Cardinality(K) /\ 0 < UpTo(K, i)
    BY <1>3, <1>4, <1>5, <2>1
  <2> QED BY <1>2, <2>2
<1> QED BY <1>2, <1>3, <1>4, <1>6

\* Each rank is that of one place.
LEMMA RankTaken ==
  ASSUME NEW n \in Nat, NEW K \in SUBSET (1 .. n), NEW k \in 1 .. Cardinality(K)
  PROVE  /\ Nth(K, k) \in K /\ UpTo(K, Nth(K, k)) = k
         /\ \A i \in K : UpTo(K, i) = k => Nth(K, k) = i
<1> DEFINE R == 1 .. Cardinality(K)
           f == [i \in K |-> UpTo(K, i)]
<1>1. IsFiniteSet(K) /\ Cardinality(K) \in Nat
  BY RanksGrow
<1>2. IsFiniteSet(R) /\ Cardinality(R) = Cardinality(K)
  <2>1. ASSUME NEW m \in Nat PROVE IsFiniteSet(1 .. m) /\ Cardinality(1 .. m) = m
    BY <2>1, FS_Interval
  <2> QED BY <1>1, <2>1
<1>3. \A i, j \in K : UpTo(K, i) = UpTo(K, j) => i = j
  <2> SUFFICES ASSUME NEW i \in K, NEW j \in K, UpTo(K, i) = UpTo(K, j), i # j
               PROVE  FALSE
    OBVIOUS
  <2>1. i \in Nat /\ j \in Nat
    OBVIOUS
  <2>2. i < j \/ j < i
    BY <2>1
  <2>3. UpTo(K, i) \in Nat /\ UpTo(K, j) \in Nat
    <3>1. UpTo(K, i) \in 0 .. Cardinality(K) /\ UpTo(K, j) \in 0 .. Cardinality(K)
      BY <2>1, RanksGrow
    <3> QED BY <1>1, <3>1
  <2>4. UpTo(K, i) < UpTo(K, j) \/ UpTo(K, j) < UpTo(K, i)
    BY <2>1, <2>2, RanksGrow
  <2> QED BY <2>3, <2>4
<1>4. f \in Injection(K, R)
  <2>1. f \in [K -> R]
    BY RanksGrow
  <2> QED BY <1>3, <2>1 DEF Injection, IsInjective
<1>5. f \in Surjection(K, R)
  BY <1>2, <1>4, FS_Injection
<1>6. PICK i \in K : UpTo(K, i) = k
  BY <1>5 DEF Surjection
<1>7. Nth(K, k) \in K /\ UpTo(K, Nth(K, k)) = k
  BY <1>6 DEF Nth
<1> QED BY <1>3, <1>7

\* What NoPongs lists.
LEMMA NoPongsTyped ==
  ASSUME NEW F, NEW q \in Seq(F)
  PROVE  /\ Kept(q) \in SUBSET (1 .. Len(q)) /\ Len(q) \in Nat
         /\ Cardinality(Kept(q)) \in Nat
         /\ NoPongs(q) \in Seq(F \ {PongFrame}) /\ NoPongs(q) \in Seq(F)
         /\ Len(NoPongs(q)) = Cardinality(Kept(q))
         /\ \A k \in 1 .. Len(NoPongs(q)) : NoPongs(q)[k] = q[Nth(Kept(q), k)]
<1> DEFINE c == Cardinality(Kept(q))
<1>1. /\ Len(q) \in Nat /\ DOMAIN q = 1 .. Len(q) /\ \A i \in 1 .. Len(q) : q[i] \in F
  OBVIOUS
<1>2. Kept(q) \in SUBSET (1 .. Len(q)) /\ \A i \in Kept(q) : q[i] # PongFrame
  BY <1>1 DEF Kept
<1>3. c \in Nat
  BY <1>1, <1>2, RanksGrow
<1>4. NoPongs(q) = [k \in 1 .. c |-> q[Nth(Kept(q), k)]]
  BY DEF NoPongs, Kept, Nth, UpTo
<1>5. \A k \in 1 .. c : Nth(Kept(q), k) \in Kept(q)
  BY <1>1, <1>2, RankTaken
<1>6. \A k \in 1 .. c : q[Nth(Kept(q), k)] \in F \ {PongFrame}
  BY <1>1, <1>2, <1>5
<1> HIDE DEF c
<1>7. NoPongs(q) \in Seq(F \ {PongFrame}) /\ Len(NoPongs(q)) = c
  BY <1>3, <1>4, <1>6
<1>8. NoPongs(q) \in Seq(F)
  BY <1>7, SeqMonotonic
<1> QED BY <1>1, <1>2, <1>3, <1>4, <1>7, <1>8 DEF c

\* Places moved by n.
Moved(S, n) == {n + j : j \in S}

\* They are as many as before.
LEMMA MovedCount ==
  ASSUME NEW n \in Nat, NEW m \in Nat, NEW S \in SUBSET (1 .. m)
  PROVE  /\ IsFiniteSet(S) /\ IsFiniteSet(Moved(S, n))
         /\ Cardinality(Moved(S, n)) = Cardinality(S) /\ Cardinality(S) \in Nat
<1> DEFINE f == [j \in S |-> n + j]
<1>1. IsFiniteSet(S) /\ Cardinality(S) \in Nat
  BY RanksGrow
<1>2. f \in [S -> Moved(S, n)]
  BY DEF Moved
<1>3. \A i, j \in S : f[i] = f[j] => i = j
  <2>1. \A i \in S : i \in Nat
    OBVIOUS
  <2> QED BY <2>1
<1>4. \A t \in Moved(S, n) : \E j \in S : f[j] = t
  BY DEF Moved
<1>5. f \in Bijection(S, Moved(S, n))
  BY <1>2, <1>3, <1>4 DEF Bijection, Injection, IsInjective, Surjection
<1>6. ExistsBijection(S, Moved(S, n))
  BY <1>5 DEF ExistsBijection
<1> QED BY <1>1, <1>6, FS_Bijection

\* The places kept of two queues, one after the other.
LEMMA KeptJoins ==
  ASSUME NEW F, NEW a \in Seq(F), NEW b \in Seq(F)
  PROVE  Kept(a \o b) = Kept(a) \cup Moved(Kept(b), Len(a))
<1> DEFINE n == Len(a)
           q == a \o b
<1>1. /\ n \in Nat /\ Len(b) \in Nat /\ DOMAIN a = 1 .. n /\ DOMAIN b = 1 .. Len(b)
      /\ DOMAIN q = 1 .. n + Len(b)
      /\ \A i \in 1 .. n : q[i] = a[i]
      /\ \A j \in 1 .. Len(b) : q[n + j] = b[j]
  OBVIOUS
<1> HIDE DEF n, q
<1>2. ASSUME NEW i \in Kept(q) PROVE i \in Kept(a) \cup Moved(Kept(b), n)
  <2>1. i \in 1 .. n + Len(b) /\ q[i] # PongFrame
    BY <1>1 DEF Kept
  <2>2. CASE i \in 1 .. n
    BY <1>1, <2>1, <2>2 DEF Kept
  <2>3. CASE i \notin 1 .. n
    <3>1. i - n \in 1 .. Len(b) /\ i = n + (i - n)
      BY <1>1, <2>1, <2>3
    <3>2. b[i - n] # PongFrame
      BY <1>1, <2>1, <3>1
    <3> QED BY <1>1, <3>1, <3>2 DEF Kept, Moved
  <2> QED BY <2>2, <2>3
<1>3. ASSUME NEW i \in Kept(a) PROVE i \in Kept(q)
  <2>1. i \in 1 .. n /\ a[i] # PongFrame
    BY <1>1 DEF Kept
  <2>2. i \in 1 .. n + Len(b)
    BY <1>1, <2>1
  <2> QED BY <1>1, <2>1, <2>2 DEF Kept
<1>4. ASSUME NEW i \in Moved(Kept(b), n) PROVE i \in Kept(q)
  <2>1. PICK j \in 1 .. Len(b) : i = n + j /\ b[j] # PongFrame
    BY <1>1 DEF Kept, Moved
  <2>2. i \in 1 .. n + Len(b)
    BY <1>1, <2>1
  <2> QED BY <1>1, <2>1, <2>2 DEF Kept
<1> QED BY <1>2, <1>3, <1>4 DEF n, q

\* The ranks in the first queue stay; those in the second follow them.
LEMMA RanksJoin ==
  ASSUME NEW n \in Nat, NEW m \in Nat, NEW A \in SUBSET (1 .. n), NEW B \in SUBSET (1 .. m)
  PROVE  /\ \A i \in A : UpTo(A \cup Moved(B, n), i) = UpTo(A, i)
         /\ \A j \in 1 .. m : UpTo(A \cup Moved(B, n), n + j) = Cardinality(A) + UpTo(B, j)
         /\ Cardinality(A \cup Moved(B, n)) = Cardinality(A) + Cardinality(B)
<1> DEFINE K == A \cup Moved(B, n)
<1>1. ASSUME NEW j \in Moved(B, n) PROVE j \in Nat /\ n < j
  BY DEF Moved
<1>2. \A i \in A : i \in Nat /\ 1 <= i /\ i <= n
  OBVIOUS
<1>3. ASSUME NEW i \in A PROVE UpTo(K, i) = UpTo(A, i)
  <2>1. K \cap (1 .. i) = A \cap (1 .. i)
    BY <1>1, <1>2
  <2> QED BY <2>1 DEF UpTo
<1>4. ASSUME NEW C \in SUBSET B
      PROVE  Cardinality(A \cup Moved(C, n)) = Cardinality(A) + Cardinality(C)
  <2>1. C \in SUBSET (1 .. m) /\ Moved(C, n) \subseteq Moved(B, n)
    BY DEF Moved
  <2>2. IsFiniteSet(A) /\ Cardinality(A) \in Nat
    BY RanksGrow
  <2>3. /\ IsFiniteSet(Moved(C, n)) /\ Cardinality(Moved(C, n)) = Cardinality(C)
        /\ Cardinality(C) \in Nat
    BY <2>1, MovedCount
  <2>4. A \cap Moved(C, n) = {}
    BY <1>1, <1>2, <2>1
  <2>5. Cardinality(A \cup Moved(C, n)) =
          Cardinality(A) + Cardinality(Moved(C, n)) - Cardinality(A \cap Moved(C, n))
    BY <2>2, <2>3, FS_Union
  <2>6. Cardinality(A \cap Moved(C, n)) = 0
    BY <2>4, FS_EmptySet
  <2> QED BY <2>2, <2>3, <2>5, <2>6
<1>5. ASSUME NEW j \in 1 .. m PROVE UpTo(K, n + j) = Cardinality(A) + UpTo(B, j)
  <2>1. K \cap (1 .. n + j) = A \cup Moved(B \cap (1 .. j), n)
    <3>1. A \subseteq 1 .. n + j
      BY <1>2
    <3>2. Moved(B, n) \cap (1 .. n + j) = Moved(B \cap (1 .. j), n)
      <4>1. \A k \in B : k \in Nat /\ 1 <= k
        OBVIOUS
      <4>2. \A k \in B : n + k \in 1 .. n + j <=> k \in 1 .. j
        BY <4>1
      <4> QED BY <4>2 DEF Moved
    <3> QED BY <3>1, <3>2
  <2>2. B \cap (1 .. j) \in SUBSET B
    OBVIOUS
  <2> QED BY <1>4, <2>1, <2>2 DEF UpTo
<1> QED BY <1>3, <1>4, <1>5

\* Pongs are left out of two queues as of each.
LEMMA NoPongsJoins ==
  ASSUME NEW F, NEW a \in Seq(F), NEW b \in Seq(F)
  PROVE  NoPongs(a \o b) = NoPongs(a) \o NoPongs(b)
<1> DEFINE A == Kept(a)
           B == Kept(b)
           K == Kept(a \o b)
           n == Len(a)
           x == NoPongs(a)
           y == NoPongs(b)
           z == NoPongs(a \o b)
<1>1. a \o b \in Seq(F)
  OBVIOUS
<1>2. /\ A \in SUBSET (1 .. n) /\ n \in Nat /\ Len(x) = Cardinality(A)
      /\ x \in Seq(F) /\ \A k \in 1 .. Len(x) : x[k] = a[Nth(A, k)]
  BY NoPongsTyped
<1>3. /\ B \in SUBSET (1 .. Len(b)) /\ Len(b) \in Nat /\ Len(y) = Cardinality(B)
      /\ y \in Seq(F) /\ \A k \in 1 .. Len(y) : y[k] = b[Nth(B, k)]
  BY NoPongsTyped
<1>4. /\ K \in SUBSET (1 .. Len(a \o b)) /\ Len(a \o b) \in Nat /\ Len(z) = Cardinality(K)
      /\ z \in Seq(F) /\ \A k \in 1 .. Len(z) : z[k] = (a \o b)[Nth(K, k)]
  BY <1>1, NoPongsTyped
<1>5. K = A \cup Moved(B, n)
  BY KeptJoins
<1>6. /\ \A i \in 1 .. n : (a \o b)[i] = a[i]
      /\ \A j \in 1 .. Len(b) : (a \o b)[n + j] = b[j]
  OBVIOUS
<1> DEFINE q == a \o b
<1> HIDE DEF A, B, K, n, x, y, z, q
<1>7. /\ \A i \in A : UpTo(K, i) = UpTo(A, i)
      /\ \A j \in 1 .. Len(b) : UpTo(K, n + j) = Cardinality(A) + UpTo(B, j)
      /\ Cardinality(K) = Cardinality(A) + Cardinality(B)
  <2>1. /\ \A i \in A : UpTo(A \cup Moved(B, n), i) = UpTo(A, i)
        /\ \A j \in 1 .. Len(b) : UpTo(A \cup Moved(B, n), n + j) = Cardinality(A) + UpTo(B, j)
        /\ Cardinality(A \cup Moved(B, n)) = Cardinality(A) + Cardinality(B)
    <3>1. n \in Nat /\ A \in SUBSET (1 .. n)
      BY <1>2
    <3>2. Len(b) \in Nat /\ B \in SUBSET (1 .. Len(b))
      BY <1>3
    <3> QED BY <3>1, <3>2, RanksJoin
  <2> QED BY <1>5, <2>1
<1>8. Len(x) \in Nat /\ Len(y) \in Nat /\ Len(z) = Len(x) + Len(y)
  BY <1>2, <1>3, <1>4, <1>7
<1>9. ASSUME NEW k \in 1 .. Len(x) PROVE z[k] = x[k]
  <2>1. Nth(A, k) \in A /\ UpTo(A, Nth(A, k)) = k
    BY <1>2, RankTaken
  <2>2. Nth(A, k) \in K /\ UpTo(K, Nth(A, k)) = k
    BY <1>5, <1>7, <2>1
  <2>3. k \in 1 .. Len(z)
    BY <1>8
  <2>4. Nth(K, k) = Nth(A, k)
    BY <1>4, <2>2, <2>3, RankTaken
  <2> QED BY <1>2, <1>4, <1>6, <1>9, <2>1, <2>3, <2>4
<1>10. ASSUME NEW k \in 1 .. Len(y) PROVE z[Len(x) + k] = y[k]
  <2> DEFINE j == Nth(B, k)
  <2>1. j \in B /\ UpTo(B, j) = k
    BY <1>3, RankTaken
  <2>2. j \in 1 .. Len(b)
    BY <1>3, <2>1
  <2>3. n + j \in K /\ UpTo(K, n + j) = Len(x) + k
    BY <1>2, <1>5, <1>7, <2>1, <2>2 DEF Moved
  <2>4. Len(x) + k \in 1 .. Len(z)
    BY <1>8
  <2>5. Nth(K, Len(x) + k) = n + j
    BY <1>4, <2>3, <2>4, RankTaken
  <2> QED BY <1>3, <1>4, <1>6, <2>2, <2>4, <2>5
<1>11. /\ x \o y \in Seq(F) /\ Len(x \o y) = Len(z)
       /\ \A k \in 1 .. Len(x) : (x \o y)[k] = x[k]
       /\ \A k \in 1 .. Len(y) : (x \o y)[Len(x) + k] = y[k]
  <2>1. /\ x \o y \in Seq(F) /\ Len(x \o y) = Len(x) + Len(y)
        /\ \A k \in 1 .. Len(x) + Len(y) :
             (x \o y)[k] = IF k <= Len(x) THEN x[k] ELSE y[k - Len(x)]
    BY <1>2, <1>3, ConcatProperties
  <2>2. \A k \in 1 .. Len(x) : k \in 1 .. Len(x) + Len(y) /\ k <= Len(x)
    BY <1>8
  <2>3. \A k \in 1 .. Len(y) : /\ Len(x) + k \in 1 .. Len(x) + Len(y)
                               /\ ~(Len(x) + k <= Len(x)) /\ Len(x) + k - Len(x) = k
    BY <1>8
  <2> QED BY <1>8, <2>1, <2>2, <2>3
<1>12. ASSUME NEW k \in 1 .. Len(z) PROVE z[k] = (x \o y)[k]
  <2>1. CASE k \in 1 .. Len(x)
    BY <1>9, <1>11, <2>1
  <2>2. CASE k \notin 1 .. Len(x)
    <3>1. k - Len(x) \in 1 .. Len(y) /\ k = Len(x) + (k - Len(x))
      BY <1>8, <2>2
    <3> QED BY <1>10, <1>11, <3>1
  <2> QED BY <2>1, <2>2
<1>13. z = x \o y
  BY <1>4, <1>11, <1>12, SeqEqual
<1> QED BY <1>13 DEF x, y, z

\* A single frame, and none.
LEMMA NoPongsFew ==
  ASSUME NEW F, NEW f \in F
  PROVE  /\ NoPongs(<< >>) = << >>
         /\ NoPongs(<<f>>) = IF f = PongFrame THEN << >> ELSE <<f>>
<1>1. Kept(<< >>) = {} /\ << >> \in Seq(F)
  BY DEF Kept
<1>2. NoPongs(<< >>) = << >>
  <2>1. NoPongs(<< >>) \in Seq(F) /\ Len(NoPongs(<< >>)) = 0
    BY <1>1, NoPongsTyped, FS_EmptySet
  <2> QED BY <2>1
<1> DEFINE q == <<f>>
           K == Kept(q)
           r == NoPongs(q)
<1>3. q \in Seq(F) /\ Len(q) = 1 /\ DOMAIN q = {1} /\ q[1] = f
  OBVIOUS
<1> HIDE DEF q
<1>4. /\ r \in Seq(F) /\ Len(r) = Cardinality(K)
      /\ \A k \in 1 .. Len(r) : r[k] = q[Nth(K, k)]
  BY <1>3, NoPongsTyped
<1>5. CASE f = PongFrame
  <2>1. K = {}
    BY <1>3, <1>5 DEF Kept
  <2>2. Len(r) = 0
    BY <1>4, <2>1, FS_EmptySet
  <2>3. r = << >>
    BY <1>4, <2>2
  <2> QED BY <1>2, <1>5, <2>3 DEF q
<1>6. CASE f # PongFrame
  <2>1. K = {1}
    BY <1>3, <1>6 DEF Kept
  <2>2. Cardinality(K) = 1
    BY <2>1, FS_Singleton
  <2>3. Nth(K, 1) = 1
    <3>1. K \in SUBSET (1 .. 1) /\ 1 \in 1 .. Cardinality(K)
      BY <2>1, <2>2
    <3>2. Nth(K, 1) \in K
      BY <3>1, RankTaken
    <3> QED BY <2>1, <3>2
  <2>4. r[1] = f
    BY <1>3, <1>4, <2>2, <2>3
  <2> HIDE DEF r, K
  <2>5. r = <<f>>
    <3>1. Len(r) = 1 /\ r \in Seq(F)
      BY <1>4, <2>2
    <3> QED BY <2>4, <3>1
  <2> QED BY <1>2, <1>6, <2>5 DEF q, r
<1> QED BY <1>5, <1>6

-----------------------------------------------------------------------------
(* The capture tool: types, and its inductive invariant.                   *)

\* The inductive invariant.  A loop that leaves without having failed has
\* nothing buffered, and no capture thread that could still queue.
ToolInv ==
  /\ ToolTypeOK
  /\ main.pc = "leave" => failed \/ (out_ringbuf = << >> /\ capture \in {"off", "ended"})
  /\ server = "closed" => failed

ToServer == Reports \cup {PongFrame}
ToTool == Requests \cup {PingFrame}

\* The sizes of buffers and pipes.
LEMMA ToolConstants ==
  /\ InSize \in Nat /\ OutSize \in Nat /\ InPipe \in Nat /\ OutPipe \in Nat
  /\ MaxCommands \in Nat /\ MaxData \in Nat
  /\ \A n : n \in {InSize, OutSize, InPipe, OutPipe} => n > 0
BY CaptureAssumption

\* What frames are: a request has a command's number, and its answer is a
\* report; pings and pongs are neither.
LEMMA FrameFacts ==
  /\ \A f \in ToTool : f.n \in 0 .. MaxCommands
  /\ \A f \in Requests : f # PingFrame /\ Frame("answer", f.n) \in Reports
  /\ PongFrame \notin Reports
  /\ \A n \in 1 .. MaxData : Frame("data", n) \in Reports
  /\ \A n \in 1 .. MaxCommands, t \in {"list", "open", "config"} : Frame(t, n) \in Requests
<1>1. \A n \in 1 .. MaxCommands : n \in 0 .. MaxCommands /\ 0 \in 0 .. MaxCommands
  BY ToolConstants
<1>2. 0 \in 0 .. MaxCommands
  BY ToolConstants
<1>3. \A f \in ToTool : f.n \in 0 .. MaxCommands
  BY <1>1, <1>2 DEF ToTool, Requests, PingFrame, Frame
<1>4. \A f \in Requests : f # PingFrame /\ Frame("answer", f.n) \in Reports
  BY DEF Requests, Reports, PingFrame, Frame
<1>5. PongFrame \notin Reports
  BY DEF Reports, PongFrame, Frame
<1> QED BY <1>3, <1>4, <1>5 DEF Reports, Requests

\* One more frame, the first one gone, and parts of a queue.
LEMMA QueueFacts ==
  ASSUME NEW F, NEW q \in Seq(F)
  PROVE  /\ Len(q) \in Nat
         /\ \A f \in F : Append(q, f) \in Seq(F) /\ Len(Append(q, f)) = Len(q) + 1
         /\ q # << >> => /\ Head(q) \in F /\ Tail(q) \in Seq(F)
                         /\ Len(Tail(q)) = Len(q) - 1 /\ q = <<Head(q)>> \o Tail(q)
         /\ \A k \in 1 .. Len(q) :
              /\ SubSeq(q, 1, k) \in Seq(F) /\ Len(SubSeq(q, 1, k)) = k
              /\ SubSeq(q, k + 1, Len(q)) \in Seq(F)
              /\ Len(SubSeq(q, k + 1, Len(q))) = Len(q) - k
              /\ q = SubSeq(q, 1, k) \o SubSeq(q, k + 1, Len(q))
<1>1. Len(q) \in Nat
  OBVIOUS
<1>2. \A f \in F : Append(q, f) \in Seq(F) /\ Len(Append(q, f)) = Len(q) + 1
  OBVIOUS
<1>3. ASSUME q # << >>
      PROVE  /\ Head(q) \in F /\ Tail(q) \in Seq(F)
             /\ Len(Tail(q)) = Len(q) - 1 /\ q = <<Head(q)>> \o Tail(q)
  <2>1. Len(q) > 0 /\ Head(q) = q[1] /\ q[1] \in F
    BY <1>3
  <2>2. /\ Tail(q) \in Seq(F) /\ Len(Tail(q)) = Len(q) - 1
        /\ \A i \in 1 .. Len(q) - 1 : Tail(q)[i] = q[i + 1]
    BY <1>3
  <2> DEFINE t == Tail(q)
             h == Head(q)
             r == <<h>> \o t
  <2> HIDE DEF t, h
  <2>3. r \in Seq(F) /\ Len(r) = Len(q)
    BY <1>1, <2>1, <2>2 DEF t, h
  <2>4. ASSUME NEW i \in 1 .. Len(q) PROVE r[i] = q[i]
    <3>1. CASE i = 1
      BY <2>1, <2>2, <3>1 DEF t, h
    <3>2. CASE i # 1
      <4>1. i - 1 \in 1 .. Len(t) /\ i - 1 + 1 = i
        BY <1>1, <2>2, <3>2 DEF t
      <4>2. r[i] = t[i - 1]
        BY <3>2, <4>1, <2>2 DEF t
      <4> QED BY <2>2, <4>1, <4>2 DEF t
    <3> QED BY <3>1, <3>2
  <2> HIDE DEF r
  <2>5. r = q
    BY <2>3, <2>4, SeqEqual
  <2> QED BY <2>1, <2>2, <2>5 DEF t, h, r
<1>4. ASSUME NEW k \in 1 .. Len(q)
      PROVE  /\ SubSeq(q, 1, k) \in Seq(F) /\ Len(SubSeq(q, 1, k)) = k
             /\ SubSeq(q, k + 1, Len(q)) \in Seq(F)
             /\ Len(SubSeq(q, k + 1, Len(q))) = Len(q) - k
             /\ q = SubSeq(q, 1, k) \o SubSeq(q, k + 1, Len(q))
  <2> DEFINE a == SubSeq(q, 1, k)
             b == SubSeq(q, k + 1, Len(q))
  <2>1. a \in Seq(F) /\ Len(a) = k /\ \A i \in 1 .. k : a[i] = q[i]
    OBVIOUS
  <2>2. b \in Seq(F) /\ Len(b) = Len(q) - k /\ \A i \in 1 .. Len(q) - k : b[i] = q[k + i]
    OBVIOUS
  <2> HIDE DEF a, b
  <2>3. /\ a \o b \in Seq(F) /\ Len(a \o b) = Len(q)
        /\ \A i \in 1 .. Len(q) : (a \o b)[i] = IF i <= k THEN a[i] ELSE b[i - k]
    <3>1. k \in Nat /\ k <= Len(q) /\ Len(a) + Len(b) = Len(q)
      BY <1>1, <2>1, <2>2
    <3>2. /\ a \o b \in Seq(F) /\ Len(a \o b) = Len(a) + Len(b)
          /\ \A i \in 1 .. Len(a) + Len(b) :
               (a \o b)[i] = IF i <= Len(a) THEN a[i] ELSE b[i - Len(a)]
      BY <2>1, <2>2, ConcatProperties
    <3> QED BY <2>1, <3>1, <3>2
  <2>4. ASSUME NEW i \in 1 .. Len(q) PROVE (a \o b)[i] = q[i]
    <3>1. CASE i <= k
      BY <2>1, <2>3, <3>1
    <3>2. CASE ~(i <= k)
      <4>1. i - k \in 1 .. Len(q) - k /\ k + (i - k) = i
        BY <1>1, <3>2
      <4> QED BY <2>2, <2>3, <3>2, <4>1
    <3> QED BY <3>1, <3>2
  <2>5. a \o b = q
    BY <2>3, <2>4, SeqEqual
  <2> QED BY <2>1, <2>2, <2>5 DEF a, b
<1> QED BY <1>1, <1>2, <1>3, <1>4

\* A tool starts with nothing buffered.
LEMMA ToolInitially == ToolInit => ToolInv
<1> SUFFICES ASSUME ToolInit PROVE ToolInv
  OBVIOUS
<1>1. /\ commands \in 0 .. MaxCommands /\ captured \in 0 .. MaxData
      /\ 0 <= InPipe /\ 0 <= InSize /\ 0 <= OutSize /\ 0 <= OutPipe
  BY ToolConstants DEF ToolInit
<1>2. /\ << >> \in Seq(Requests \cup {PingFrame}) /\ << >> \in Seq(Reports \cup {PongFrame})
      /\ << >> \in Seq(Reports) /\ Len(<< >>) = 0
  OBVIOUS
<1>3. main \in [pc : MainAt, spin : BOOLEAN, read : BOOLEAN, write : BOOLEAN] /\ main.pc # "leave"
  BY DEF ToolInit, Top, MainAt
<1>4. ToolTypeOK
  BY <1>1, <1>2, <1>3 DEF ToolInit, ToolTypeOK
<1> QED BY <1>3, <1>4 DEF ToolInit, ToolInv

\* A frame queued, or dropped for want of room.
LEMMA QueueTyped ==
  ASSUME ToolTypeOK, NEW f \in ToServer, Queue(f)
  PROVE  out_ringbuf' \in Seq(ToServer) /\ Len(out_ringbuf') <= OutSize
<1>1. out_ringbuf \in Seq(ToServer) /\ Len(out_ringbuf) <= OutSize
  BY DEF ToolTypeOK, ToServer
<1>2. CASE OutRoom
  BY <1>1, <1>2, QueueFacts, ToolConstants DEF Queue, OutRoom
<1>3. CASE ~OutRoom
  BY <1>1, <1>3 DEF Queue
<1> QED BY <1>2, <1>3

\* The end of the loop.
LEMMA ExitKeeps ==
  ASSUME ToolInv, NEW ok \in BOOLEAN, Exit(ok)
  PROVE  ToolInv'
<1>1. main' \in [pc : MainAt, spin : BOOLEAN, read : BOOLEAN, write : BOOLEAN]
      /\ main'.pc # "leave"
  BY DEF Exit, Top, MainAt
<1>2. out_ringbuf' \in Seq(ToServer) /\ Len(out_ringbuf') <= OutSize
  BY ToolConstants DEF Exit
<1>3. failed' \in BOOLEAN /\ (failed => failed')
  BY DEF ToolInv, ToolTypeOK, Exit
<1>4. ToolTypeOK'
  BY <1>1, <1>2, <1>3 DEF ToolInv, ToolTypeOK, ToServer, Exit, inVars
<1> QED BY <1>1, <1>3, <1>4 DEF ToolInv, Exit

\* The server's steps.
LEMMA ServerKeeps ==
  ASSUME ToolInv, SendPing \/ SendCommand \/ ServerLeaves \/ TakeFrame
  PROVE  ToolInv'
<1>1. ASSUME NEW f \in ToTool, SendFrame(f)
      PROVE  inpipe' \in Seq(ToTool) /\ Len(inpipe') <= InPipe
  <2>1. inpipe \in Seq(ToTool) /\ inpipe' = Append(inpipe, f) /\ Len(inpipe) < InPipe
    BY <1>1 DEF ToolInv, ToolTypeOK, ToTool, SendFrame
  <2> QED BY <2>1, QueueFacts, ToolConstants
<1>2. CASE SendPing
  <2>1. PingFrame \in ToTool /\ SendFrame(PingFrame)
    BY <1>2 DEF ToTool, SendPing
  <2>2. inpipe' \in Seq(ToTool) /\ Len(inpipe') <= InPipe
    BY <1>1, <2>1
  <2> QED BY <1>2, <2>2 DEF ToolInv, ToolTypeOK, SendPing, SendFrame, ToTool, outVars, threadVars
<1>3. CASE SendCommand
  <2>1. PICK type \in {"list", "open", "config"} : SendFrame(Frame(type, commands + 1))
    BY <1>3 DEF SendCommand
  <2>2. commands + 1 \in 1 .. MaxCommands /\ commands' \in 0 .. MaxCommands
    BY <1>3, ToolConstants DEF ToolInv, ToolTypeOK, SendCommand
  <2>3. Frame(type, commands + 1) \in ToTool
    BY <2>2, FrameFacts DEF ToTool
  <2>4. inpipe' \in Seq(ToTool) /\ Len(inpipe') <= InPipe
    BY <1>1, <2>1, <2>3
  <2> QED BY <2>1, <2>2, <2>4 DEF ToolInv, ToolTypeOK, SendFrame, ToTool, outVars, threadVars
<1>4. CASE ServerLeaves
  BY <1>4 DEF ToolInv, ToolTypeOK, ServerLeaves, inVars, outVars, threadVars
<1>5. CASE TakeFrame
  <2>1. outpipe \in Seq(ToServer) /\ outpipe # << >> /\ outpipe' = Tail(outpipe)
    BY <1>5 DEF ToolInv, ToolTypeOK, TakeFrame, ToServer
  <2>2. Head(outpipe) \in ToServer /\ outpipe' \in Seq(ToServer) /\ Len(outpipe') <= OutPipe
    BY <2>1, QueueFacts, ToolConstants DEF ToolInv, ToolTypeOK
  <2>3. NoPongs(<<Head(outpipe)>>) \in Seq(Reports)
    <3>1. <<Head(outpipe)>> \in Seq(ToServer)
      BY <2>2
    <3>2. ToServer \ {PongFrame} \subseteq Reports
      BY DEF ToServer
    <3>3. NoPongs(<<Head(outpipe)>>) \in Seq(ToServer \ {PongFrame})
      BY <3>1, NoPongsTyped
    <3> QED BY <3>2, <3>3, SeqMonotonic
  <2>4. received' \in Seq(Reports)
    BY <1>5, <2>3, ConcatProperties DEF ToolInv, ToolTypeOK, TakeFrame
  <2> QED BY <1>5, <2>2, <2>4 DEF ToolInv, ToolTypeOK, TakeFrame, ToServer, inVars, threadVars
<1> QED BY <1>2, <1>3, <1>4, <1>5

\* The loop before it reads or writes, and when it ends.
LEMMA LoopKeeps ==
  ASSUME ToolInv,
         Check \/ Inspect \/ LeaveLoop \/ select \/ EndRead \/ ReadClosed \/ WriteClosed
           \/ PingTimeout
  PROVE  ToolInv'
<1> DEFINE Mains == [pc : MainAt, spin : BOOLEAN, read : BOOLEAN, write : BOOLEAN]
<1>1. main \in Mains /\ spindown \in BOOLEAN /\ Top \in Mains /\ Top.pc = "check"
  BY DEF ToolInv, ToolTypeOK, Top, MainAt
<1>2. CASE Check
  <2>1. main' \in Mains /\ main'.pc # "leave"
    BY <1>1, <1>2 DEF Check, MainAt
  <2> QED BY <1>2, <2>1 DEF ToolInv, ToolTypeOK, Check, inVars, outVars, threadVars
<1>3. CASE Inspect
  <2> DEFINE pending == out_ringbuf # << >>
             done == main.spin /\ ~pending
  <2>1. /\ main' = [main EXCEPT !.pc = IF done THEN "leave" ELSE "select",
                                !.read = ~main.spin, !.write = pending]
        /\ failed' = (failed \/ (done /\ capture \in {"send", "full", "wait"}))
        /\ UNCHANGED <<server, commands, inVars, outVars, spindown, threadVars, answered>>
    BY <1>3 DEF Inspect
  <2>2. main' \in Mains /\ (main'.pc = "leave" => done)
    BY <1>1, <2>1 DEF MainAt
  <2>3. failed' \in BOOLEAN /\ (failed => failed')
    BY <2>1 DEF ToolInv, ToolTypeOK
  <2>4. main'.pc = "leave" =>
          failed' \/ (out_ringbuf' = << >> /\ capture' \in {"off", "ended"})
    BY <2>1, <2>2 DEF ToolInv, ToolTypeOK, outVars, threadVars
  <2> QED BY <2>1, <2>2, <2>3, <2>4 DEF ToolInv, ToolTypeOK, inVars, outVars, threadVars
<1>4. CASE select
  <2>1. main' \in Mains /\ main'.pc # "leave"
    BY <1>1, <1>4 DEF select, MainAt
  <2> QED BY <1>4, <2>1 DEF ToolInv, ToolTypeOK, select, inVars, outVars, threadVars
<1>5. CASE EndRead
  <2>1. main' \in Mains /\ main'.pc # "leave"
    BY <1>1, <1>5 DEF EndRead, MainAt
  <2> QED BY <1>5, <2>1 DEF ToolInv, ToolTypeOK, EndRead, inVars, outVars, threadVars
<1>6. CASE LeaveLoop \/ ReadClosed \/ WriteClosed \/ PingTimeout
  BY <1>6, ExitKeeps DEF LeaveLoop, ReadClosed, WriteClosed, PingTimeout
<1> QED BY <1>2, <1>3, <1>4, <1>5, <1>6

\* Commands that are read: one of what is buffered is handled.
LEMMA ReadKeeps ==
  ASSUME ToolInv, Read
  PROVE  ToolInv'
<1>1. PICK k \in 1 .. Len(inpipe) :
        /\ main.pc = "read" /\ Len(in_ringbuf) + k <= InSize
        /\ inpipe' = SubSeq(inpipe, k + 1, Len(inpipe))
        /\ HandleOne(in_ringbuf \o SubSeq(inpipe, 1, k))
        /\ UNCHANGED <<server, commands, outpipe, received, main, captured, failed>>
  BY DEF Read
<1> DEFINE q == in_ringbuf \o SubSeq(inpipe, 1, k)
<1>2. /\ inpipe \in Seq(ToTool) /\ in_ringbuf \in Seq(ToTool)
      /\ Len(inpipe) <= InPipe /\ Len(in_ringbuf) \in Nat /\ Len(inpipe) \in Nat
  BY DEF ToolInv, ToolTypeOK, ToTool
<1>3. inpipe' \in Seq(ToTool) /\ Len(inpipe') <= InPipe
  <2>1. inpipe' \in Seq(ToTool) /\ Len(inpipe') = Len(inpipe) - k
    BY <1>1, <1>2, QueueFacts
  <2> QED BY <1>1, <1>2, <2>1, ToolConstants
<1>4. q \in Seq(ToTool) /\ Len(q) = Len(in_ringbuf) + k
  <2>1. SubSeq(inpipe, 1, k) \in Seq(ToTool) /\ Len(SubSeq(inpipe, 1, k)) = k
    BY <1>2, QueueFacts
  <2> QED BY <1>2, <2>1, ConcatProperties
<1>5. HandleOne(q)
  BY <1>1
<1> HIDE DEF q
<1>6. q # << >> /\ Len(q) <= InSize
  BY <1>1, <1>2, <1>4
<1>7. Head(q) \in ToTool /\ in_ringbuf' \in Seq(ToTool) /\ Len(in_ringbuf') <= InSize
  <2>1. in_ringbuf' = Tail(q)
    BY <1>5 DEF HandleOne
  <2>2. Head(q) \in ToTool /\ Tail(q) \in Seq(ToTool) /\ Len(Tail(q)) = Len(q) - 1
    BY <1>4, <1>6, QueueFacts
  <2> QED BY <1>2, <1>4, <1>6, <2>1, <2>2, ToolConstants
<1>8. PICK ok \in BOOLEAN :
        /\ Queue(IF Head(q) = PingFrame THEN PongFrame ELSE Frame("answer", Head(q).n))
        /\ answered' = answered \cup {Head(q).n}
        /\ spindown' = (spindown \/ Head(q).type = "list" \/ (Head(q) # PingFrame /\ ~ok))
        /\ capture' = IF Head(q).type = "open" /\ ok /\ capture = "off"
                      THEN "send" ELSE capture
  BY <1>5 DEF HandleOne, Dispatch
<1>9. (IF Head(q) = PingFrame THEN PongFrame ELSE Frame("answer", Head(q).n)) \in ToServer
  BY <1>7, FrameFacts DEF ToServer, ToTool
<1>10. out_ringbuf' \in Seq(ToServer) /\ Len(out_ringbuf') <= OutSize
  BY <1>8, <1>9, QueueTyped DEF ToolInv
<1>11. Head(q).n \in 0 .. MaxCommands
  BY <1>7, FrameFacts
<1>12. /\ answered' \subseteq 0 .. MaxCommands /\ spindown' \in BOOLEAN
       /\ capture' \in {"off", "send", "full", "wait", "ended"}
  BY <1>8, <1>11 DEF ToolInv, ToolTypeOK
<1> QED BY <1>1, <1>3, <1>7, <1>10, <1>12 DEF ToolInv, ToolTypeOK, ToTool, ToServer

\* Frames that are written go from the ring buffer to the pipe.
LEMMA WriteKeeps ==
  ASSUME ToolInv, Write \/ WriteInterrupted
  PROVE  ToolInv'
<1>1. /\ out_ringbuf \in Seq(ToServer) /\ Len(out_ringbuf) <= OutSize
      /\ outpipe \in Seq(ToServer) /\ Len(out_ringbuf) \in Nat
  BY DEF ToolInv, ToolTypeOK, ToServer
<1>2. main' = Top => /\ main' \in [pc : MainAt, spin : BOOLEAN, read : BOOLEAN, write : BOOLEAN]
                     /\ main'.pc # "leave"
  BY DEF Top, MainAt
<1>3. Broadcast => capture' \in {"off", "send", "full", "wait", "ended"}
  BY DEF Broadcast, ToolInv, ToolTypeOK
<1>4. CASE Write
  <2>1. PICK k \in 1 .. Len(out_ringbuf) :
          /\ Len(outpipe) + k <= OutPipe
          /\ outpipe' = outpipe \o SubSeq(out_ringbuf, 1, k)
          /\ out_ringbuf' = SubSeq(out_ringbuf, k + 1, Len(out_ringbuf))
          /\ Broadcast /\ main' = Top
          /\ UNCHANGED <<server, commands, inVars, received, spindown, captured, answered, failed>>
    BY <1>4 DEF Write
  <2>2. /\ SubSeq(out_ringbuf, 1, k) \in Seq(ToServer) /\ Len(SubSeq(out_ringbuf, 1, k)) = k
        /\ out_ringbuf' \in Seq(ToServer) /\ Len(out_ringbuf') = Len(out_ringbuf) - k
    BY <1>1, <2>1, QueueFacts
  <2>3. outpipe' \in Seq(ToServer) /\ Len(outpipe') = Len(outpipe) + k
    BY <1>1, <2>1, <2>2, ConcatProperties
  <2>4. Len(out_ringbuf') <= OutSize
    BY <1>1, <2>2, ToolConstants
  <2> QED BY <1>2, <1>3, <2>1, <2>2, <2>3, <2>4 DEF ToolInv, ToolTypeOK, ToServer, inVars
<1>5. CASE WriteInterrupted
  <2>1. out_ringbuf' \in Seq(ToServer) /\ Len(out_ringbuf') <= OutSize
    BY <1>5, ToolConstants DEF WriteInterrupted
  <2> QED BY <1>2, <1>3, <1>5, <2>1 DEF ToolInv, ToolTypeOK, ToServer, WriteInterrupted, inVars
<1> QED BY <1>4, <1>5

\* The capture thread.
LEMMA CaptureKeeps ==
  ASSUME ToolInv, Capture \/ EndCapture
  PROVE  ToolInv'
<1>1. CASE cf_send_data
  <2>1. captured + 1 \in 1 .. MaxData /\ captured' \in 0 .. MaxData
    BY <1>1, ToolConstants DEF cf_send_data, ToolInv, ToolTypeOK
  <2>2. Frame("data", captured + 1) \in ToServer
    BY <2>1, FrameFacts DEF ToServer
  <2>3. out_ringbuf' \in Seq(ToServer) /\ Len(out_ringbuf') <= OutSize
    BY <1>1, <2>2, QueueTyped DEF cf_send_data, ToolInv
  <2> QED BY <1>1, <2>1, <2>3 DEF ToolInv, ToolTypeOK, ToServer, cf_send_data, inVars
<1>2. CASE cf_handler_wait_ringbuffer
  BY <1>2 DEF ToolInv, ToolTypeOK, cf_handler_wait_ringbuffer, inVars, outVars
<1>3. CASE EndCapture
  BY <1>3 DEF ToolInv, ToolTypeOK, EndCapture, inVars, outVars
<1> QED BY <1>1, <1>2, <1>3 DEF Capture

\* The invariant is inductive.
LEMMA ToolKeeps == ToolInv /\ [ToolNext]_toolVars => ToolInv'
<1> SUFFICES ASSUME ToolInv, [ToolNext]_toolVars PROVE ToolInv'
  OBVIOUS
<1>1. CASE UNCHANGED toolVars
  BY <1>1 DEF ToolInv, ToolTypeOK, toolVars, inVars, outVars, threadVars
<1>2. CASE ToolNext
  BY <1>2, ServerKeeps, LoopKeeps, ReadKeeps, WriteKeeps, CaptureKeeps DEF ToolNext, MainLoop
<1> QED BY <1>1, <1>2

\* Frames are what they are taken for, and the ring buffers and the pipes never
\* hold more than their size: cf_prep_rb_packet refuses what does not fit
\* (capture_framework.c:3145) and the loop reads and writes what there is room for.
THEOREM ToolTypeCorrect == ToolSpec => []ToolTypeOK
<1>1. ToolInv => ToolTypeOK
  BY DEF ToolInv
<1> QED BY <1>1, ToolInitially, ToolKeeps, PTL DEF ToolSpec

-----------------------------------------------------------------------------
(* The capture tool: it is a log of its reports.                           *)

\* What the server has or will be sent, pongs aside.
Due == IF server = "closed" THEN received ELSE received \o NoPongs(outpipe \o out_ringbuf)

\* It is what was received, then what is in the pipe, then what is buffered.
LEMMA DueTyped ==
  ASSUME ToolTypeOK
  PROVE  /\ out_ringbuf \in Seq(ToServer) /\ outpipe \in Seq(ToServer)
         /\ received \in Seq(Reports)
         /\ NoPongs(outpipe) \in Seq(Reports) /\ NoPongs(out_ringbuf) \in Seq(Reports)
         /\ server # "closed" => Due = received \o (NoPongs(outpipe) \o NoPongs(out_ringbuf))
         /\ Due \in Seq(Reports)
<1>1. /\ out_ringbuf \in Seq(ToServer) /\ outpipe \in Seq(ToServer)
      /\ received \in Seq(Reports)
  BY DEF ToolTypeOK, ToServer
<1>2. ToServer \ {PongFrame} \subseteq Reports
  BY DEF ToServer
<1>3. NoPongs(outpipe) \in Seq(Reports) /\ NoPongs(out_ringbuf) \in Seq(Reports)
  <2>1. /\ NoPongs(outpipe) \in Seq(ToServer \ {PongFrame})
        /\ NoPongs(out_ringbuf) \in Seq(ToServer \ {PongFrame})
    BY <1>1, NoPongsTyped
  <2> QED BY <1>2, <2>1, SeqMonotonic
<1>4. NoPongs(outpipe \o out_ringbuf) = NoPongs(outpipe) \o NoPongs(out_ringbuf)
  BY <1>1, NoPongsJoins
<1>5. received \o (NoPongs(outpipe) \o NoPongs(out_ringbuf)) \in Seq(Reports)
  BY <1>1, <1>3, ConcatProperties
<1> QED BY <1>1, <1>3, <1>4, <1>5 DEF Due

\* The part of a sequence before another.
LEMMA BeginsWhole ==
  ASSUME NEW R, NEW x \in Seq(R), NEW y \in Seq(R)
  PROVE  /\ SubSeq(x, 1, Len(x)) = x /\ Len(x) \in Nat
         /\ SubSeq(x \o y, 1, Len(x)) = x /\ Len(x) <= Len(x \o y) /\ Len(x \o y) \in Nat
<1>1. /\ Len(x) \in Nat /\ Len(y) \in Nat /\ x \o y \in Seq(R)
      /\ Len(x \o y) = Len(x) + Len(y)
      /\ \A i \in 1 .. Len(x) : (x \o y)[i] = x[i]
  OBVIOUS
<1>2. ASSUME NEW z \in Seq(R), Len(x) <= Len(z), \A i \in 1 .. Len(x) : z[i] = x[i]
      PROVE  SubSeq(z, 1, Len(x)) = x
  <2> DEFINE s == SubSeq(z, 1, Len(x))
  <2>1. s \in Seq(R) /\ Len(s) = Len(x) /\ \A i \in 1 .. Len(x) : s[i] = z[i]
    BY <1>1, <1>2
  <2> HIDE DEF s
  <2>2. s = x
    BY <1>2, <2>1, SeqEqual
  <2> QED BY <2>2 DEF s
<1> QED BY <1>1, <1>2

\* d is x with a part of what follows x in e.
Extends(d, x, e) == \E n \in Len(x) .. Len(e) : d = SubSeq(e, 1, n)

\* So do the sequences that a failure can leave.
LEMMA Beginnings ==
  ASSUME NEW R, NEW x \in Seq(R), NEW y \in Seq(R), NEW z \in Seq(R),
         NEW d, d = x \/ d = x \o y \/ d = x \o (y \o z)
  PROVE  Extends(d, x, x \o (y \o z))
<1>1. x \o y \in Seq(R) /\ y \o z \in Seq(R) /\ x \o (y \o z) \in Seq(R)
  BY ConcatProperties
<1>2. (x \o y) \o z = x \o (y \o z)
  BY ConcatAssociative
<1> DEFINE a == x \o y
           b == y \o z
           e == x \o b
<1>3. /\ Len(x) \in Nat /\ Len(x) <= Len(e) /\ SubSeq(e, 1, Len(x)) = x
      /\ Len(x) <= Len(a) /\ Len(e) \in Nat
  BY <1>1, BeginsWhole
<1>4. Len(a) \in Nat /\ Len(a) <= Len(e) /\ SubSeq(e, 1, Len(a)) = a
  <2>1. a \o z = e
    BY <1>2
  <2>2. a \in Seq(R)
    BY <1>1
  <2> HIDE DEF a, e
  <2> QED BY <2>1, <2>2, BeginsWhole
<1>5. SubSeq(e, 1, Len(e)) = e
  BY <1>1, BeginsWhole
<1>6. d = x \/ d = a \/ d = e
  OBVIOUS
<1> HIDE DEF a, b, e
<1>7. \E n \in Len(x) .. Len(e) : d = SubSeq(e, 1, n)
  <2>1. /\ Len(x) \in Len(x) .. Len(e) /\ Len(a) \in Len(x) .. Len(e)
        /\ Len(e) \in Len(x) .. Len(e)
    BY <1>3, <1>4
  <2> QED BY <1>3, <1>4, <1>5, <1>6, <2>1
<1> QED BY <1>7 DEF b, e, Extends

\* A step that changes nothing of what is due, received or failed.
LEMMA ToolStutters ==
  ASSUME UNCHANGED <<received, failed>>, Due' = Due
  PROVE  UNCHANGED Stream!vars
BY DEF Stream!vars, Due

\* A failure leaves what was received, or what is also in the pipe, or all.
LEMMA ToolFails ==
  ASSUME ToolTypeOK, failed' = TRUE, received' = received,
         \/ Due' = Due
         \/ Due' = received
         \/ server # "closed" /\ Due' = received \o NoPongs(outpipe)
  PROVE  Stream!Fail
<1> DEFINE po == NoPongs(outpipe)
           pr == NoPongs(out_ringbuf)
<1>1. /\ received \in Seq(Reports) /\ po \in Seq(Reports) /\ pr \in Seq(Reports)
      /\ server # "closed" => Due = received \o (po \o pr)
      /\ server = "closed" => Due = received
  BY DueTyped DEF Due
<1> HIDE DEF po, pr
<1>2. ASSUME NEW d, d = Due \/ d = received \/ (server # "closed" /\ d = received \o po)
      PROVE  Extends(d, received, Due)
  <2>1. CASE server # "closed"
    <3>1. d = received \/ d = received \o po \/ d = received \o (po \o pr)
      BY <1>1, <1>2, <2>1
    <3>2. Extends(d, received, received \o (po \o pr))
      BY <1>1, <3>1, Beginnings
    <3> QED BY <1>1, <2>1, <3>2
  <2>2. CASE server = "closed"
    <3>1. d = received /\ Due = received
      BY <1>1, <1>2, <2>2
    <3>2. Len(received) \in Len(received) .. Len(received) /\ SubSeq(received, 1, Len(received)) = received
      BY <1>1, BeginsWhole
    <3> QED BY <3>1, <3>2 DEF Extends
  <2> QED BY <2>1, <2>2
<1>3. Extends(Due', received, Due)
  BY <1>2 DEF po
<1> QED BY <1>3 DEF Stream!Fail, Due, Extends

\* What is queued is one report more, or a pong, or finds no room.
LEMMA ToolAccepts ==
  ASSUME ToolInv, NEW f \in ToServer, Queue(f),
         UNCHANGED <<server, received, outpipe, failed>>
  PROVE  Stream!Next \/ UNCHANGED Stream!vars
<1>1. CASE server = "closed" \/ out_ringbuf' = out_ringbuf
  <2>1. Due' = Due
    BY <1>1 DEF Due
  <2> QED BY <2>1, ToolStutters
<1>2. CASE server # "closed" /\ out_ringbuf' = Append(out_ringbuf, f)
  <2> DEFINE po == NoPongs(outpipe)
             pr == NoPongs(out_ringbuf)
             g == NoPongs(<<f>>)
  <2>1. /\ out_ringbuf \in Seq(ToServer) /\ outpipe \in Seq(ToServer)
        /\ received \in Seq(Reports) /\ po \in Seq(Reports) /\ pr \in Seq(Reports)
        /\ Due = received \o (po \o pr)
    BY <1>2, DueTyped DEF ToolInv
  <2>2. <<f>> \in Seq(ToServer) /\ out_ringbuf' = out_ringbuf \o <<f>>
    BY <1>2, <2>1
  <2>3. Due' = received \o (po \o (pr \o g))
    <3>1. out_ringbuf \o <<f>> \in Seq(ToServer)
      BY <2>1, <2>2, ConcatProperties
    <3>2. NoPongs(out_ringbuf \o <<f>>) = pr \o g
      BY <2>1, <2>2, NoPongsJoins
    <3>3. NoPongs(outpipe \o (out_ringbuf \o <<f>>)) = po \o NoPongs(out_ringbuf \o <<f>>)
      BY <2>1, <3>1, NoPongsJoins
    <3> QED BY <1>2, <2>2, <3>2, <3>3 DEF Due
  <2>4. g = IF f = PongFrame THEN << >> ELSE <<f>>
    BY NoPongsFew
  <2> HIDE DEF po, pr, g
  <2>5. CASE f = PongFrame
    <3>1. Due' = Due
      BY <2>1, <2>3, <2>4, <2>5, ConcatEmptySeq
    <3> QED BY <3>1, ToolStutters
  <2>6. CASE f # PongFrame
    <3>1. f \in Reports /\ <<f>> \in Seq(Reports)
      BY <2>6 DEF ToServer
    <3>2. po \o pr \in Seq(Reports) /\ Due \in Seq(Reports)
      BY <2>1, ConcatProperties
    <3>3. Due' = Due \o <<f>>
      <4>1. g = <<f>>
        BY <2>4, <2>6
      <4>2. po \o (pr \o <<f>>) = (po \o pr) \o <<f>>
        BY <2>1, <3>1, ConcatAssociative
      <4>3. received \o ((po \o pr) \o <<f>>) = (received \o (po \o pr)) \o <<f>>
        <5> DEFINE p == po \o pr
        <5>1. p \in Seq(Reports)
          BY <3>2
        <5> HIDE DEF p
        <5>2. received \o (p \o <<f>>) = (received \o p) \o <<f>>
          BY <2>1, <3>1, <5>1, ConcatAssociative
        <5> QED BY <5>2 DEF p
      <4> QED BY <2>1, <2>3, <4>1, <4>2, <4>3
    <3>5. Due' = Append(Due, f)
      BY <3>1, <3>2, <3>3
    <3>6. Stream!Accept
      BY <3>1, <3>5 DEF Stream!Accept, Due
    <3> QED BY <3>6 DEF Stream!Next
  <2> QED BY <2>5, <2>6
<1> QED BY <1>1, <1>2 DEF Queue

\* The server takes the next report, or a pong.
LEMMA ToolDelivers ==
  ASSUME ToolInv, TakeFrame
  PROVE  Stream!Next \/ UNCHANGED Stream!vars
<1> DEFINE h == Head(outpipe)
           t == Tail(outpipe)
           g == NoPongs(<<h>>)
           pt == NoPongs(t)
           pr == NoPongs(out_ringbuf)
<1>1. /\ server # "closed" /\ server' = server /\ failed' = failed
      /\ outpipe # << >> /\ outpipe' = t /\ out_ringbuf' = out_ringbuf
      /\ received' = received \o g
  BY DEF TakeFrame
<1>2. /\ out_ringbuf \in Seq(ToServer) /\ outpipe \in Seq(ToServer)
      /\ received \in Seq(Reports) /\ pr \in Seq(Reports)
      /\ Due = received \o (NoPongs(outpipe) \o pr)
  BY <1>1, DueTyped DEF ToolInv
<1>3. /\ h \in ToServer /\ t \in Seq(ToServer) /\ outpipe = <<h>> \o t /\ <<h>> \in Seq(ToServer)
  BY <1>1, <1>2, QueueFacts
<1>4. g = IF h = PongFrame THEN << >> ELSE <<h>>
  BY <1>3, NoPongsFew
<1> HIDE DEF h, t
<1>5. NoPongs(outpipe) = g \o pt
  BY <1>3, NoPongsJoins
<1>6. /\ g \in Seq(Reports) /\ pt \in Seq(Reports)
  <2>1. ToServer \ {PongFrame} \subseteq Reports
    BY DEF ToServer
  <2>2. g \in Seq(ToServer \ {PongFrame}) /\ pt \in Seq(ToServer \ {PongFrame})
    BY <1>3, NoPongsTyped
  <2> QED BY <2>1, <2>2, SeqMonotonic
<1>7. Due' = (received \o g) \o (pt \o pr)
  <2>1. NoPongs(t \o out_ringbuf) = pt \o pr
    BY <1>2, <1>3, NoPongsJoins
  <2> QED BY <1>1, <2>1 DEF Due
<1> HIDE DEF g, pt, pr
<1>8. pt \o pr \in Seq(Reports) /\ (g \o pt) \o pr = g \o (pt \o pr)
  <2>1. g \in Seq(Reports) /\ pt \in Seq(Reports) /\ pr \in Seq(Reports)
    BY <1>2, <1>6
  <2> QED BY <2>1, ConcatAssociative, ConcatProperties
<1>9. Due' = Due
  <2>1. (received \o g) \o (pt \o pr) = received \o (g \o (pt \o pr))
    <3> DEFINE p == pt \o pr
    <3>1. p \in Seq(Reports)
      BY <1>8
    <3> HIDE DEF p
    <3>2. received \in Seq(Reports) /\ g \in Seq(Reports)
      BY <1>2, <1>6
    <3>3. (received \o g) \o p = received \o (g \o p)
      BY <3>1, <3>2, ConcatAssociative
    <3> QED BY <3>3 DEF p
  <2> QED BY <1>2, <1>5, <1>7, <1>8, <2>1
<1>10. CASE h = PongFrame
  <2>1. received' = received
    BY <1>1, <1>2, <1>4, <1>10, ConcatEmptySeq
  <2> QED BY <1>1, <1>9, <2>1, ToolStutters
<1>11. CASE h # PongFrame
  <2> DEFINE left == pt \o pr
  <2>1. g = <<h>> /\ h \in Reports
    BY <1>3, <1>4, <1>11 DEF ToServer
  <2>2. received' = Append(received, h)
    BY <1>1, <1>2, <2>1
  <2>3. Due = (received \o <<h>>) \o left /\ left \in Seq(Reports)
    BY <1>7, <1>8, <1>9, <2>1
  <2> HIDE DEF left
  <2>4. Len(received) < Len(Due) /\ Due[Len(received) + 1] = h
    <3>1. ASSUME NEW x \in Seq(Reports), NEW p \in Reports, NEW y \in Seq(Reports)
          PROVE  /\ Len(x) < Len((x \o <<p>>) \o y)
                 /\ ((x \o <<p>>) \o y)[Len(x) + 1] = p
      <4>1. /\ x \o <<p>> \in Seq(Reports) /\ Len(x \o <<p>>) = Len(x) + 1
            /\ (x \o <<p>>)[Len(x) + 1] = p /\ Len(x) \in Nat /\ Len(y) \in Nat
        OBVIOUS
      <4> DEFINE z == x \o <<p>>
      <4> HIDE DEF z
      <4>2. z \in Seq(Reports) /\ Len(z) = Len(x) + 1 /\ z[Len(x) + 1] = p
        BY <4>1 DEF z
      <4>3. /\ Len(z \o y) = Len(z) + Len(y)
            /\ \A i \in 1 .. Len(z) + Len(y) :
                 (z \o y)[i] = IF i <= Len(z) THEN z[i] ELSE y[i - Len(z)]
        BY <4>2, ConcatProperties
      <4>4. Len(x) + 1 \in 1 .. Len(z) + Len(y) /\ Len(x) + 1 <= Len(z)
        BY <4>1, <4>2
      <4>5. Len(x) < Len(z \o y) /\ (z \o y)[Len(x) + 1] = p
        BY <4>1, <4>2, <4>3, <4>4
      <4> QED BY <4>5 DEF z
    <3> QED BY <1>2, <2>1, <2>3, <3>1
  <2>5. Stream!Write
    BY <1>1, <1>9, <2>2, <2>4 DEF Stream!Write, Due
  <2> QED BY <2>5 DEF Stream!Next
<1> QED BY <1>10, <1>11

\* What the end of the loop throws away was there to lose only if it failed.
LEMMA ToolExits ==
  ASSUME ToolInv, NEW ok \in BOOLEAN, Exit(ok), ok => main.pc = "leave"
  PROVE  Stream!Next \/ UNCHANGED Stream!vars
<1>1. /\ out_ringbuf' = << >> /\ failed' = (failed \/ ~ok)
      /\ UNCHANGED <<server, outpipe, received>>
  BY DEF Exit
<1>2. outpipe \in Seq(ToServer) /\ outpipe \o << >> = outpipe
  BY ConcatEmptySeq, DueTyped DEF ToolInv
<1>3. CASE failed'
  <2>1. failed' = TRUE
    BY <1>1, <1>3 DEF ToolInv, ToolTypeOK
  <2>2. Due' = IF server = "closed" THEN received ELSE received \o NoPongs(outpipe)
    BY <1>1, <1>2 DEF Due
  <2>3. Stream!Fail
    BY <1>1, <2>1, <2>2, ToolFails DEF ToolInv
  <2> QED BY <2>3 DEF Stream!Next
<1>4. CASE ~failed'
  <2>1. out_ringbuf = << >> /\ failed' = failed
    BY <1>1, <1>4 DEF ToolInv, ToolTypeOK
  <2>2. Due' = Due
    BY <1>1, <2>1 DEF Due
  <2> QED BY <1>1, <2>1, <2>2, ToolStutters
<1> QED BY <1>3, <1>4

\* Frames that are written stay due, in their order; an interrupted write loses
\* what is buffered.
LEMMA ToolWrites ==
  ASSUME ToolInv, Write \/ WriteInterrupted
  PROVE  Stream!Next \/ UNCHANGED Stream!vars
<1>1. out_ringbuf \in Seq(ToServer) /\ outpipe \in Seq(ToServer)
  BY DueTyped DEF ToolInv
<1>2. CASE Write
  <2>1. PICK k \in 1 .. Len(out_ringbuf) :
          /\ outpipe' = outpipe \o SubSeq(out_ringbuf, 1, k)
          /\ out_ringbuf' = SubSeq(out_ringbuf, k + 1, Len(out_ringbuf))
          /\ UNCHANGED <<server, received, failed>>
    BY <1>2 DEF Write
  <2> DEFINE a == SubSeq(out_ringbuf, 1, k)
             b == SubSeq(out_ringbuf, k + 1, Len(out_ringbuf))
  <2>2. a \in Seq(ToServer) /\ b \in Seq(ToServer) /\ out_ringbuf = a \o b
    BY <1>1, QueueFacts
  <2>3. outpipe' = outpipe \o a /\ out_ringbuf' = b
    BY <2>1
  <2> HIDE DEF a, b
  <2>4. (outpipe \o a) \o b = outpipe \o (a \o b)
    BY <1>1, <2>2, ConcatAssociative
  <2>5. outpipe' \o out_ringbuf' = outpipe \o out_ringbuf
    BY <2>2, <2>3, <2>4
  <2>6. Due' = Due
    BY <2>1, <2>5 DEF Due
  <2> QED BY <2>1, <2>6, ToolStutters
<1>3. CASE WriteInterrupted
  <2>1. /\ server # "closed" /\ out_ringbuf' = << >> /\ failed' = TRUE
        /\ UNCHANGED <<server, outpipe, received>>
    BY <1>3 DEF WriteInterrupted
  <2>2. Due' = received \o NoPongs(outpipe)
    BY <1>1, <2>1, ConcatEmptySeq DEF Due
  <2>3. Stream!Fail
    BY <2>1, <2>2, ToolFails DEF ToolInv
  <2> QED BY <2>3 DEF Stream!Next
<1> QED BY <1>2, <1>3

\* A command handled, or a packet captured, queues one frame.
LEMMA ToolQueues ==
  ASSUME ToolInv, Read \/ cf_send_data
  PROVE  Stream!Next \/ UNCHANGED Stream!vars
<1>1. CASE Read
  <2>1. PICK k \in 1 .. Len(inpipe) :
          /\ Len(in_ringbuf) + k <= InSize
          /\ HandleOne(in_ringbuf \o SubSeq(inpipe, 1, k))
          /\ UNCHANGED <<server, outpipe, received, failed>>
    BY <1>1 DEF Read
  <2> DEFINE q == in_ringbuf \o SubSeq(inpipe, 1, k)
  <2>2. q \in Seq(ToTool) /\ q # << >>
    <3>1. inpipe \in Seq(ToTool) /\ in_ringbuf \in Seq(ToTool) /\ Len(in_ringbuf) \in Nat
      BY DEF ToolInv, ToolTypeOK, ToTool
    <3>2. SubSeq(inpipe, 1, k) \in Seq(ToTool) /\ Len(SubSeq(inpipe, 1, k)) = k
      BY <3>1, QueueFacts
    <3>3. q \in Seq(ToTool) /\ Len(q) = Len(in_ringbuf) + k
      BY <3>1, <3>2, ConcatProperties
    <3> HIDE DEF q
    <3> QED BY <3>1, <3>3
  <2>3. HandleOne(q)
    BY <2>1
  <2> HIDE DEF q
  <2>4. Queue(IF Head(q) = PingFrame THEN PongFrame ELSE Frame("answer", Head(q).n))
    BY <2>3 DEF HandleOne, Dispatch
  <2>5. Head(q) \in ToTool
    BY <2>2, QueueFacts
  <2>6. (IF Head(q) = PingFrame THEN PongFrame ELSE Frame("answer", Head(q).n)) \in ToServer
    BY <2>5, FrameFacts DEF ToServer, ToTool
  <2> QED BY <2>1, <2>4, <2>6, ToolAccepts
<1>2. CASE cf_send_data
  <2>1. captured + 1 \in 1 .. MaxData
    BY <1>2, ToolConstants DEF cf_send_data, ToolInv, ToolTypeOK
  <2>2. Frame("data", captured + 1) \in ToServer
    BY <2>1, FrameFacts DEF ToServer
  <2> QED BY <1>2, <2>2, ToolAccepts DEF cf_send_data
<1> QED BY <1>1, <1>2

\* Every step is one of the log's, or none.
LEMMA ToolImplements ==
  ASSUME ToolInv, [ToolNext]_toolVars
  PROVE  Stream!Next \/ UNCHANGED Stream!vars
<1>1. CASE \/ UNCHANGED toolVars \/ SendPing \/ SendCommand \/ Check \/ select \/ EndRead
           \/ cf_handler_wait_ringbuffer \/ EndCapture
  <2>1. UNCHANGED <<server, received, outpipe, out_ringbuf, failed>>
    BY <1>1 DEF toolVars, SendPing, SendCommand, SendFrame, Check, select, EndRead,
                cf_handler_wait_ringbuffer, EndCapture, outVars
  <2>2. Due' = Due
    BY <2>1 DEF Due
  <2> QED BY <2>1, <2>2, ToolStutters
<1>2. CASE Inspect
  <2>1. /\ UNCHANGED <<server, received, outpipe, out_ringbuf>>
        /\ failed' = failed \/ failed' = TRUE
    BY <1>2 DEF Inspect, outVars, ToolInv, ToolTypeOK
  <2>2. Due' = Due
    BY <2>1 DEF Due
  <2>3. failed' = TRUE => Stream!Fail
    BY <2>1, <2>2, ToolFails DEF ToolInv
  <2> QED BY <2>1, <2>2, <2>3, ToolStutters DEF Stream!Next
<1>3. CASE ServerLeaves
  <2>1. /\ server = "up" /\ server' \in {"silent", "closed"}
        /\ failed' = (failed \/ server' = "closed")
        /\ UNCHANGED <<received, outpipe, out_ringbuf>>
    BY <1>3 DEF ServerLeaves, outVars
  <2>2. CASE server' = "silent"
    <3>1. Due' = Due /\ failed' = failed
      BY <2>1, <2>2 DEF Due, ToolInv, ToolTypeOK
    <3> QED BY <2>1, <3>1, ToolStutters
  <2>3. CASE server' = "closed"
    <3>1. Due' = received /\ failed' = TRUE
      BY <2>1, <2>3 DEF Due
    <3>2. Stream!Fail
      BY <2>1, <3>1, ToolFails DEF ToolInv
    <3> QED BY <3>2 DEF Stream!Next
  <2> QED BY <2>1, <2>2, <2>3
<1>4. CASE LeaveLoop
  BY <1>4, ToolExits DEF LeaveLoop
<1>5. CASE ReadClosed \/ WriteClosed \/ PingTimeout
  BY <1>5, ToolExits DEF ReadClosed, WriteClosed, PingTimeout
<1> QED BY <1>1, <1>2, <1>3, <1>4, <1>5, ToolDelivers, ToolWrites, ToolQueues
        DEF ToolNext, MainLoop, Capture

\* What the tool queues reaches the server once and in order, as PacketLog has
\* it: a step of the loop, of the capture thread (cf_send_data) or of the server
\* queues one report, delivers the next one, or fails.  In particular a tool that
\* spins down writes all that is buffered before it leaves (capture_framework.c:2724).
THEOREM ToolRefinesLog == ToolSpec => Stream!Init /\ [][Stream!Next]_(Stream!vars)
<1>1. ToolInit => Stream!Init
  <2> SUFFICES ASSUME ToolInit PROVE Stream!Init
    OBVIOUS
  <2>1. NoPongs(<< >>) = << >>
    BY NoPongsFew
  <2>2. << >> \o NoPongs(<< >> \o << >>) = << >>
    BY <2>1, ConcatEmptySeq, EmptySeq
  <2> QED BY <2>2 DEF ToolInit, Stream!Init
<1>2. ToolInv /\ [ToolNext]_toolVars => [Stream!Next]_(Stream!vars)
  BY ToolImplements
<1> QED BY <1>1, <1>2, ToolInitially, ToolKeeps, PTL DEF ToolSpec

=============================================================================
