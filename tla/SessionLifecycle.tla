-------------------------- MODULE SessionLifecycle --------------------------
(***************************************************************************)
(* The goroutines of one `codexnomad` session and how it ends: run (main), *)
(* the relay client with its two loops, the inbound handler, the file      *)
(* poller and the goroutine that interrupts the agent when the context is  *)
(* cancelled.  What the handler and the poller compute is DaemonSession's  *)
(* subject; here only where each can wait matters.                         *)
(*                                                                         *)
(* run executes once: the relay client dials once and is never restarted.  *)
(* The network, the agent and the phones are not scheduled fairly.         *)
(***************************************************************************)
EXTENDS Integers, Sequences

CONSTANTS
  InCap,     \* capacity of inbound (256 in the code)
  OutCap,    \* capacity of outbound (256 in the code)
  MaxFrames, \* bound: frames the relay delivers
  MaxEvents  \* bound: events the terminal and the poller send

ASSUME LifecycleAssumption ==
  /\ InCap \in Nat \ {0} /\ OutCap \in Nat \ {0}
  /\ MaxFrames \in Nat /\ MaxEvents \in Nat

VARIABLES
  os,        \* the build: "unix" or "windows"
  require,   \* cfg.RequireRelay
  main,      \* the point run has reached
  cancelled, \* the context is cancelled
  relay,     \* the point client.Run has reached
  conn,      \* the websocket: "none", "up" or "down"
  reader,    \* readLoop: "off", "reading", "holding" a frame, "done"
  writer,    \* writeLoop: "off", "on", "done"
  agent,     \* the process: "none", "running", "exited"
  open,      \* what terminal.Start has opened or changed and not yet undone
  signalled, \* it was interrupted because the context was cancelled
  handler,   \* handleInbound: "off", "waiting", "writing" to the PTY, "done"
  poller,    \* files.Poll: "off", "on", "done"
  paired,    \* the sender has a peer
  inbound,   \* frames in the inbound channel
  outbound,  \* the outbound channel: "event" and "exit"
  received, taken, \* frames readLoop accepted, frames the handler took
  events,    \* events produced so far
  exit       \* history: what became of process_exit

link == <<relay, conn, reader, writer>>
queues == <<inbound, outbound, received, taken>>
tail == <<paired, events, exit, open>>
config == <<require, os>>
vars == <<config, main, cancelled, link, agent, signalled, handler, poller,
          queues, tail>>

-----------------------------------------------------------------------------
(* run *)

StartRelay ==
  /\ main = "start"
  /\ main' = "setup"
  /\ relay' = "dialing"
  /\ UNCHANGED <<config, cancelled, conn, reader, writer, agent, signalled,
                 handler, poller, queues, tail>>

Pipes == {"inRead", "inWrite", "outRead", "outWrite"}

\* The call of the Windows Start that is next, by what the ones before it opened.
NextCall ==
  IF "inRead" \notin open THEN "input"
  ELSE IF "outRead" \notin open THEN "output"
  ELSE IF "console" \notin open THEN "console"
  ELSE IF "attr" \notin open THEN "attr" ELSE "process"

Opens == [input |-> {"inRead", "inWrite"}, output |-> {"outRead", "outWrite"},
          console |-> {"console"}, attr |-> {"attr"}]

\* Mutant of Closes: a process that cannot be created leaves the console open.
ClosesPipes ==
  [input |-> {}, output |-> {"inRead", "inWrite"}, console |-> Pipes,
   attr |-> Pipes \cup {"console"}, process |-> Pipes \cup {"attr"}]

\* What Start closes when a call fails; the attribute list by a defer.
Closes ==
  [input |-> {}, output |-> {"inRead", "inWrite"}, console |-> Pipes,
   attr |-> Pipes \cup {"console"}, process |-> Pipes \cup {"console", "attr"}]

\* No agent binary, no QR code, a registration that fails although the relay is
\* required, or no terminal: run returns and its deferred cancel runs.
SetupFails ==
  /\ main = "setup"
  /\ main' = "returned"
  /\ open' = open \ Closes[NextCall]
  /\ cancelled' = TRUE
  /\ UNCHANGED <<config, link, agent, signalled, handler, poller, queues, paired,
                 events, exit>>

OpenTerminal ==
  /\ main = "setup" /\ os = "windows" /\ NextCall # "process"
  /\ open' = open \cup Opens[NextCall]
  /\ UNCHANGED <<config, main, cancelled, link, agent, signalled, handler, poller,
                 queues, paired, events, exit>>

\* The process runs: Windows closes the ends it does not use, Unix may have put the
\* terminal of codexnomad itself into raw mode.
Started ==
  \/ /\ os = "windows" /\ NextCall = "process"
     /\ open' = (open \ {"inRead", "outWrite", "attr"}) \cup {"process", "thread"}
  \/ os = "unix" /\ open' \in {{"tty"}, {"tty", "raw"}}

\* Nothing between the relay's start and terminal.Start looks at the context, so
\* an agent is started even when the relay has already failed.
Launch ==
  /\ main = "setup"
  /\ main' = "wait"
  /\ Started
  /\ agent' = "running"
  /\ handler' = "waiting"
  /\ poller' = "on"
  /\ UNCHANGED <<config, cancelled, link, signalled, queues, paired, events, exit>>

\* Wait undoes what Start left.
WaitCloses == {"inWrite", "outRead", "console", "thread", "process", "tty", "raw"}

\* queue(): a full channel loses the message.
Queue(ev) ==
  outbound' = IF Len(outbound) < OutCap THEN Append(outbound, ev) ELSE outbound

\* proc.Wait returns and process_exit is sent, to a paired phone only.
SendExit ==
  /\ main = "wait" /\ agent = "exited"
  /\ main' = "sent"
  /\ IF paired THEN Queue("exit") ELSE UNCHANGED outbound
  /\ open' = open \ WaitCloses
  /\ exit' = IF paired /\ Len(outbound) < OutCap THEN "queued" ELSE "lost"
  /\ UNCHANGED <<config, cancelled, link, agent, signalled, handler, poller,
                 inbound, received, taken, paired, events>>

CancelAll ==
  /\ main = "sent"
  /\ main' = "drain"
  /\ cancelled' = TRUE
  /\ UNCHANGED <<config, link, agent, signalled, handler, poller, queues, tail>>

\* The relay client has returned or 500 ms have passed: nothing else is awaited.
Return ==
  /\ main = "drain"
  /\ main' = "returned"
  /\ UNCHANGED <<config, cancelled, link, agent, signalled, handler, poller,
                 queues, tail>>

Main == StartRelay \/ SetupFails \/ OpenTerminal \/ Launch \/ SendExit \/ CancelAll \/ Return

-----------------------------------------------------------------------------
(* relay.Client.Run and its loops *)

\* Mutant of Disconnect: a relay that fails before the agent runs is only logged.
DisconnectAfterLaunch ==
  cancelled' = (cancelled \/ (require /\ main = "wait"))

\* The goroutine around client.Run: a required relay that is gone cancels all.
Disconnect == cancelled' = (cancelled \/ require)

\* Dial or the hello fails, or the dial sees the cancelled context.
DialFails ==
  /\ relay = "dialing"
  /\ relay' = "returned"
  /\ Disconnect
  /\ UNCHANGED <<config, main, conn, reader, writer, agent, signalled, handler,
                 poller, queues, tail>>

\* Dial and daemon_hello succeed; both loops start.
DialSucceeds ==
  /\ relay = "dialing" /\ ~cancelled
  /\ relay' = "linked"
  /\ conn' = "up"
  /\ reader' = "reading"
  /\ writer' = "on"
  /\ UNCHANGED <<config, main, cancelled, agent, signalled, handler, poller,
                 queues, tail>>

\* Run returns when a loop has ended or the context is cancelled, and closes the
\* connection.
RelayReturns ==
  /\ relay = "linked"
  /\ cancelled \/ reader = "done" \/ writer = "done"
  /\ relay' = "returned"
  /\ conn' = "down"
  /\ Disconnect
  /\ UNCHANGED <<config, main, reader, writer, agent, signalled, handler, poller,
                 queues, tail>>

\* The relay, the network or the host drops the connection.
LinkBreaks ==
  /\ conn = "up"
  /\ conn' = "down"
  /\ UNCHANGED <<config, main, cancelled, relay, reader, writer, agent, signalled,
                 handler, poller, queues, tail>>

\* A frame of this session arrives.
FrameArrives ==
  /\ reader = "reading" /\ conn = "up" /\ ~cancelled
  /\ received < MaxFrames
  /\ received' = received + 1
  /\ reader' = "holding"
  /\ UNCHANGED <<config, main, cancelled, relay, conn, writer, agent, signalled,
                 handler, poller, inbound, outbound, taken, tail>>

\* Mutant of ReaderDelivers: a full inbound channel loses the frame.
ReaderDrops ==
  /\ reader = "holding"
  /\ inbound' = IF inbound < InCap THEN inbound + 1 ELSE inbound
  /\ reader' = "reading"
  /\ UNCHANGED <<config, main, cancelled, relay, conn, writer, agent, signalled,
                 handler, poller, outbound, received, taken, tail>>

\* readLoop waits for room in inbound: the handler slows the relay down.
ReaderDelivers ==
  /\ reader = "holding" /\ inbound < InCap
  /\ inbound' = inbound + 1
  /\ reader' = "reading"
  /\ UNCHANGED <<config, main, cancelled, relay, conn, writer, agent, signalled,
                 handler, poller, outbound, received, taken, tail>>

\* Mutant of ReaderEnds: the send into inbound does not watch the context.
ReaderEndsReading ==
  /\ reader = "reading" /\ (cancelled \/ conn = "down")
  /\ reader' = "done"
  /\ UNCHANGED <<config, main, cancelled, relay, conn, writer, agent, signalled,
                 handler, poller, queues, tail>>

\* Read fails, or the context is cancelled while readLoop waits for room.
ReaderEnds ==
  /\ \/ reader = "reading" /\ (cancelled \/ conn = "down")
     \/ reader = "holding" /\ cancelled
  /\ reader' = "done"
  /\ UNCHANGED <<config, main, cancelled, relay, conn, writer, agent, signalled,
                 handler, poller, queues, tail>>

\* writeLoop takes a message; on a dead connection the message is lost and the
\* loop ends.
WriterTakes ==
  /\ writer = "on" /\ outbound # <<>>
  /\ outbound' = Tail(outbound)
  /\ writer' = IF conn = "up" THEN "on" ELSE "done"
  /\ exit' = IF Head(outbound) = "exit"
               THEN (IF conn = "up" THEN "written" ELSE "lost")
               ELSE exit
  /\ UNCHANGED <<config, main, cancelled, relay, conn, reader, agent, signalled,
                 handler, poller, inbound, received, taken, paired, events, open>>

\* The context is cancelled, with or without messages left, or the ping of an
\* idle connection fails.
WriterEnds ==
  /\ writer = "on" /\ (cancelled \/ conn = "down")
  /\ writer' = "done"
  /\ UNCHANGED <<config, main, cancelled, relay, conn, reader, agent, signalled,
                 handler, poller, queues, tail>>

-----------------------------------------------------------------------------
(* handleInbound, files.Poll, the agent *)

\* A frame pairs the phone, writes to the PTY, or is done with at once.
HandlerTakes ==
  /\ handler = "waiting" /\ inbound > 0
  /\ inbound' = inbound - 1
  /\ taken' = taken + 1
  /\ \/ paired' = TRUE /\ handler' = "waiting"
     \/ paired /\ handler' = "writing" /\ UNCHANGED paired
     \/ handler' = "waiting" /\ UNCHANGED paired
  /\ UNCHANGED <<config, main, cancelled, link, agent, signalled, poller,
                 outbound, received, events, exit, open>>

\* The agent reads its input, which it may never do ...
AgentReads ==
  /\ handler = "writing" /\ agent = "running"
  /\ handler' = "waiting"
  /\ UNCHANGED <<config, main, cancelled, link, agent, signalled, poller, queues, tail>>

\* ... or is gone, and the write fails.
WriteFails ==
  /\ handler = "writing" /\ agent = "exited"
  /\ handler' = "waiting"
  /\ UNCHANGED <<config, main, cancelled, link, agent, signalled, poller, queues, tail>>

HandlerEnds ==
  /\ handler = "waiting" /\ cancelled
  /\ handler' = "done"
  /\ UNCHANGED <<config, main, cancelled, link, agent, signalled, poller, queues, tail>>

\* The terminal callback and the poller send events while the agent runs; the
\* callback may still read output after the exit.
Produce ==
  /\ agent # "none" /\ events < MaxEvents
  /\ events' = events + 1
  /\ IF paired THEN Queue("event") ELSE UNCHANGED outbound
  /\ UNCHANGED <<config, main, cancelled, link, agent, signalled, handler, poller,
                 inbound, received, taken, paired, exit, open>>

PollerEnds ==
  /\ poller = "on" /\ cancelled
  /\ poller' = "done"
  /\ UNCHANGED <<config, main, cancelled, link, agent, signalled, handler, queues, tail>>

\* Mutant of Terminate: Windows asks the agent, as Unix does.
TerminateAsks == UNCHANGED agent

\* TerminateProcess ends the agent, a Unix signal only asks it to.  After Wait the
\* handle is closed and the call fails, as the signal to a reaped process does.
Terminate == agent' = IF "process" \in open THEN "exited" ELSE agent

\* The goroutine of terminal.Start that waits for the context.
Interrupt ==
  /\ agent # "none" /\ cancelled /\ ~signalled
  /\ signalled' = TRUE
  /\ Terminate
  /\ UNCHANGED <<config, main, cancelled, link, handler, poller, queues, tail>>

\* The agent ends by itself, or because it was interrupted; it need not.
AgentExits ==
  /\ agent = "running"
  /\ agent' = "exited"
  /\ UNCHANGED <<config, main, cancelled, link, signalled, handler, poller, queues, tail>>

-----------------------------------------------------------------------------
Init ==
  /\ require \in BOOLEAN /\ os \in {"unix", "windows"} /\ open = {}
  /\ main = "start" /\ relay = "off" /\ conn = "none"
  /\ reader = "off" /\ writer = "off" /\ agent = "none"
  /\ handler = "off" /\ poller = "off"
  /\ cancelled = FALSE /\ signalled = FALSE /\ paired = FALSE
  /\ inbound = 0 /\ outbound = <<>>
  /\ received = 0 /\ taken = 0 /\ events = 0
  /\ exit = "unsent"

Reader == ReaderDelivers \/ ReaderEnds
Writer == WriterTakes \/ WriterEnds
Handler == HandlerTakes \/ WriteFails \/ HandlerEnds

Next ==
  \/ Main \/ Reader \/ Writer \/ Handler
  \/ DialFails \/ DialSucceeds \/ RelayReturns \/ LinkBreaks \/ FrameArrives
  \/ AgentReads \/ Produce \/ PollerEnds \/ Interrupt \/ AgentExits

Spec == Init /\ [][Next]_vars

\* Every goroutine runs; a dial ends at the latest when the context is cancelled.
GoroutinesRun ==
  /\ WF_vars(Main) /\ WF_vars(RelayReturns) /\ WF_vars(cancelled /\ DialFails)
  /\ WF_vars(Reader) /\ WF_vars(Writer) /\ WF_vars(Handler)
  /\ WF_vars(PollerEnds) /\ WF_vars(Interrupt)

FairSpec == Spec /\ GoroutinesRun

-----------------------------------------------------------------------------
(* Properties *)

\* Types; the channels of run keep their capacities.
TypeOK ==
  /\ require \in BOOLEAN /\ os \in {"unix", "windows"} /\ cancelled \in BOOLEAN
  /\ open \subseteq Pipes \cup {"attr"} \cup WaitCloses
  /\ signalled \in BOOLEAN /\ paired \in BOOLEAN
  /\ main \in {"start", "setup", "wait", "sent", "drain", "returned"}
  /\ relay \in {"off", "dialing", "linked", "returned"}
  /\ conn \in {"none", "up", "down"}
  /\ reader \in {"off", "reading", "holding", "done"}
  /\ writer \in {"off", "on", "done"}
  /\ agent \in {"none", "running", "exited"}
  /\ handler \in {"off", "waiting", "writing", "done"}
  /\ poller \in {"off", "on", "done"}
  /\ inbound \in 0..InCap
  /\ outbound \in Seq({"event", "exit"}) /\ Len(outbound) <= OutCap
  /\ received \in 0..MaxFrames /\ taken \in 0..MaxFrames
  /\ events \in 0..MaxEvents
  /\ exit \in {"unsent", "queued", "written", "lost"}

\* A frame the relay delivered is handled, waits in inbound or is in readLoop's
\* hand: however slow the agent reads its input, only the end of readLoop loses
\* one (readLoop blocks where queue() would drop).
FramesAreKept ==
  received - (taken + inbound) \in
    CASE reader = "holding" -> {1} [] reader = "done" -> {0, 1} [] OTHER -> {0}

\* When the agent exits, run returns and every goroutine of the session ends,
\* although process_exit may find a full channel and the relay not answer (run
\* waits for neither for long), readLoop may wait for room that no handler will
\* make, and the handler for an agent that no longer reads.
GoroutinesEnd ==
  agent = "exited" ~>
    /\ main = "returned" /\ relay = "returned"
    /\ reader \in {"off", "done"} /\ writer \in {"off", "done"}
    /\ handler = "done" /\ poller = "done"

\* A session that requires its relay does not outlive it: the agent is interrupted
\* even when the relay failed before the agent was started, and on Windows, where that
\* ends it, the session returns (run, terminal.Start).
RelayLossEndsSession ==
  require /\ relay = "returned" ~>
    main = "returned" \/ (os = "unix" /\ signalled)

\* When run has returned, nothing of the terminal is left behind: no handle, whichever
\* call of Start failed, and no terminal in raw mode (Start, Wait).
HandlesReleased == main = "returned" => open = {}
=============================================================================
