----------------------- MODULE SessionLifecycleProofs -----------------------
(***************************************************************************)
(* Theorems about SessionLifecycle, for every capacity of its channels and *)
(* every number of frames and events: its types, that no frame of the      *)
(* relay is lost before readLoop ends, that run leaves nothing of the      *)
(* terminal behind on either build, and that its goroutines never wait for *)
(* one another.                                                            *)
(***************************************************************************)
EXTENDS SessionLifecycle, TLAPS

-----------------------------------------------------------------------------
(* Types and frames *)

\* The loops start with the link.
LoopsStartLinked ==
  /\ main = "start" => relay = "off"
  /\ relay \in {"off", "dialing"} => reader = "off"

\* FramesAreKept needs that a reader which is dialled for holds nothing, and gives
\* taken its bound.
FramesInv == TypeOK /\ FramesAreKept /\ LoopsStartLinked

LEMMA FramesAtFirst == Init => FramesInv
<1> SUFFICES ASSUME Init PROVE FramesInv
  OBVIOUS
<1>1. TypeOK
  <2>1. outbound \in Seq({"event", "exit"}) /\ Len(outbound) = 0
    BY DEF Init
  <2>2. inbound \in 0..InCap /\ Len(outbound) <= OutCap
    BY <2>1, LifecycleAssumption DEF Init
  <2>3. received \in 0..MaxFrames /\ taken \in 0..MaxFrames /\ events \in 0..MaxEvents
    BY LifecycleAssumption DEF Init
  <2>4. open \subseteq Pipes \cup {"attr"} \cup WaitCloses
    BY DEF Init
  <2> QED BY <2>1, <2>2, <2>3, <2>4 DEF Init, TypeOK
<1>2. FramesAreKept
  BY DEF Init, FramesAreKept
<1> QED BY <1>1, <1>2 DEF Init, FramesInv, LoopsStartLinked

\* queue() keeps the channel a channel.
LEMMA QueueKeepsChannel ==
  ASSUME outbound \in Seq({"event", "exit"}), Len(outbound) <= OutCap,
         NEW ev \in {"event", "exit"}, Queue(ev)
  PROVE  outbound' \in Seq({"event", "exit"}) /\ Len(outbound') <= OutCap
<1>1. CASE Len(outbound) < OutCap
  BY <1>1, LifecycleAssumption DEF Queue
<1>2. CASE ~(Len(outbound) < OutCap)
  BY <1>2 DEF Queue
<1> QED BY <1>1, <1>2

\* What Start opens is something Start knows.
LEMMA OpensKnown ==
  ASSUME open \subseteq Pipes \cup {"attr"} \cup WaitCloses, NextCall # "process"
  PROVE  Opens[NextCall] \subseteq Pipes \cup {"attr"} \cup WaitCloses
<1>1. NextCall \in {"input", "output", "console", "attr"}
  BY DEF NextCall
<1>2. CASE NextCall = "input"
  BY <1>2 DEF Opens, Pipes
<1>3. CASE NextCall = "output"
  BY <1>3 DEF Opens, Pipes
<1>4. CASE NextCall = "console"
  BY <1>4 DEF Opens, WaitCloses
<1>5. CASE NextCall = "attr"
  BY <1>5 DEF Opens
<1> QED BY <1>1, <1>2, <1>3, <1>4, <1>5

LEMMA FramesKept == FramesInv /\ [Next]_vars => FramesInv'
<1> SUFFICES ASSUME FramesInv, [Next]_vars PROVE FramesInv'
  OBVIOUS
<1> USE LifecycleAssumption
<1>1. CASE StartRelay
  BY <1>1 DEF FramesInv, TypeOK, FramesAreKept, LoopsStartLinked, StartRelay, config, queues, tail
<1>2. CASE SetupFails
  BY <1>2 DEF FramesInv, TypeOK, FramesAreKept, LoopsStartLinked, SetupFails, config, link, queues
<1>3. CASE OpenTerminal
  <2>1. open' \subseteq Pipes \cup {"attr"} \cup WaitCloses
    BY <1>3, OpensKnown DEF OpenTerminal, FramesInv, TypeOK
  <2> QED BY <1>3, <2>1 DEF FramesInv, TypeOK, FramesAreKept, LoopsStartLinked, OpenTerminal, config, link, queues
<1>4. CASE Launch
  <2>1. open' \subseteq Pipes \cup {"attr"} \cup WaitCloses
    BY <1>4 DEF Launch, Started, FramesInv, TypeOK, WaitCloses
  <2> QED BY <1>4, <2>1 DEF FramesInv, TypeOK, FramesAreKept, LoopsStartLinked, Launch, config, link, queues
<1>5. CASE SendExit
  <2>1. outbound' \in Seq({"event", "exit"}) /\ Len(outbound') <= OutCap
    BY <1>5, QueueKeepsChannel DEF SendExit, FramesInv, TypeOK
  <2>2. exit' \in {"queued", "lost"}
    BY <1>5 DEF SendExit
  <2> QED BY <1>5, <2>1, <2>2 DEF FramesInv, TypeOK, FramesAreKept, LoopsStartLinked, SendExit, config, link
<1>6. CASE CancelAll \/ Return
  <2>1. main \in {"sent", "drain"} /\ main' \in {"drain", "returned"} /\ cancelled' \in BOOLEAN
        /\ UNCHANGED <<config, link, agent, signalled, handler, poller, queues, tail>>
    BY <1>6 DEF CancelAll, Return, FramesInv, TypeOK
  <2> QED BY <2>1 DEF FramesInv, TypeOK, FramesAreKept, LoopsStartLinked, config, link, queues, tail
<1>7. CASE DialFails
  BY <1>7 DEF FramesInv, TypeOK, FramesAreKept, LoopsStartLinked, DialFails, Disconnect, config, queues, tail
<1>8. CASE DialSucceeds
  BY <1>8 DEF FramesInv, TypeOK, FramesAreKept, LoopsStartLinked, DialSucceeds, config, queues, tail
<1>9. CASE RelayReturns
  BY <1>9 DEF FramesInv, TypeOK, FramesAreKept, LoopsStartLinked, RelayReturns, Disconnect, config, queues, tail
<1>10. CASE LinkBreaks
  BY <1>10 DEF FramesInv, TypeOK, FramesAreKept, LoopsStartLinked, LinkBreaks, config, queues, tail
<1>11. CASE FrameArrives
  BY <1>11 DEF FramesInv, TypeOK, FramesAreKept, LoopsStartLinked, FrameArrives, config, tail
<1>12. CASE ReaderDelivers
  BY <1>12 DEF FramesInv, TypeOK, FramesAreKept, LoopsStartLinked, ReaderDelivers, config, tail
<1>13. CASE ReaderEnds
  BY <1>13 DEF FramesInv, TypeOK, FramesAreKept, LoopsStartLinked, ReaderEnds, config, queues, tail
<1>14. CASE WriterTakes
  <2>1. outbound' \in Seq({"event", "exit"}) /\ Len(outbound') <= OutCap
    BY <1>14 DEF WriterTakes, FramesInv, TypeOK
  <2>2. exit' \in {"written", "lost", exit}
    BY <1>14 DEF WriterTakes
  <2> QED BY <1>14, <2>1, <2>2 DEF FramesInv, TypeOK, FramesAreKept, LoopsStartLinked, WriterTakes, config
<1>15. CASE WriterEnds
  BY <1>15 DEF FramesInv, TypeOK, FramesAreKept, LoopsStartLinked, WriterEnds, config, queues, tail
<1>16. CASE HandlerTakes
  <2>1. taken + inbound <= received
    BY DEF FramesInv, TypeOK, FramesAreKept
  <2>2. inbound' = inbound - 1 /\ taken' = taken + 1 /\ inbound' \in 0..InCap /\ taken' \in 0..MaxFrames
    BY <1>16, <2>1 DEF HandlerTakes, FramesInv, TypeOK
  <2>3. handler' \in {"waiting", "writing"} /\ paired' \in BOOLEAN
    BY <1>16 DEF HandlerTakes, FramesInv, TypeOK
  <2>4. UNCHANGED <<config, main, cancelled, link, agent, signalled, poller, outbound, received,
                    events, exit, open>>
    BY <1>16 DEF HandlerTakes
  <2>5. TypeOK'
    BY <2>2, <2>3, <2>4 DEF FramesInv, TypeOK, config, link
  <2>6. received' - (taken' + inbound') = received - (taken + inbound)
    BY <2>2, <2>4 DEF FramesInv, TypeOK
  <2>7. FramesAreKept' /\ LoopsStartLinked'
    BY <2>4, <2>6 DEF FramesInv, FramesAreKept, LoopsStartLinked, link
  <2> QED BY <2>5, <2>7 DEF FramesInv
<1>17. CASE WriteFails \/ AgentReads \/ HandlerEnds
  BY <1>17 DEF FramesInv, TypeOK, FramesAreKept, LoopsStartLinked, WriteFails, AgentReads, HandlerEnds,
               config, link, queues, tail
<1>18. CASE Produce
  <2>1. outbound' \in Seq({"event", "exit"}) /\ Len(outbound') <= OutCap
    BY <1>18, QueueKeepsChannel DEF Produce, FramesInv, TypeOK
  <2> QED BY <1>18, <2>1 DEF FramesInv, TypeOK, FramesAreKept, LoopsStartLinked, Produce, config, link
<1>19. CASE PollerEnds \/ AgentExits
  BY <1>19 DEF FramesInv, TypeOK, FramesAreKept, LoopsStartLinked, PollerEnds, AgentExits,
               config, link, queues, tail
<1>20. CASE Interrupt
  BY <1>20 DEF FramesInv, TypeOK, FramesAreKept, LoopsStartLinked, Interrupt, Terminate,
               config, link, queues, tail
<1>21. CASE UNCHANGED vars
  BY <1>21 DEF FramesInv, TypeOK, FramesAreKept, LoopsStartLinked, vars, config, link, queues, tail
<1> QED BY <1>1, <1>2, <1>3, <1>4, <1>5, <1>6, <1>7, <1>8, <1>9, <1>10, <1>11, <1>12, <1>13, <1>14,
           <1>15, <1>16, <1>17, <1>18, <1>19, <1>20, <1>21 DEF Next, Main, Reader, Writer, Handler

\* The channels of run keep their capacities, and every goroutine is at one of its
\* points (run, relay.Client, handleInbound).
THEOREM LifecycleTypeCorrect == Spec => []TypeOK
<1>1. FramesInv => TypeOK
  BY DEF FramesInv
<1> QED BY <1>1, FramesAtFirst, FramesKept, PTL DEF Spec

\* Whatever the agent reads and whenever the link breaks, a frame that readLoop has
\* accepted is handled or still waits until readLoop ends (FramesAreKept).
THEOREM FramesAreKeptAlways == Spec => []FramesAreKept
<1>1. FramesInv => FramesAreKept
  BY DEF FramesInv
<1> QED BY <1>1, FramesAtFirst, FramesKept, PTL DEF Spec

-----------------------------------------------------------------------------
(* The terminal *)

\* What the calls of Start that have succeeded leave open.
OpenedSoFar ==
  {{}, {"inRead", "inWrite"}, Pipes, Pipes \cup {"console"}, Pipes \cup {"console", "attr"}}

\* HandlesReleased needs to know what is open before: while run sets up, what some
\* calls of Start have opened; while it waits, only what Wait undoes.
HandlesInv ==
  /\ main = "start" => open = {}
  /\ main = "setup" => open \in OpenedSoFar
  /\ main = "wait" => open \subseteq WaitCloses
  /\ main \in {"sent", "drain", "returned"} => open = {}

LEMMA HandlesAtFirst == Init => HandlesInv
  BY DEF Init, HandlesInv

\* The next call, for each of them.
LEMMA NextCallIs ==
  ASSUME open \in OpenedSoFar
  PROVE  /\ open = {} => NextCall = "input"
         /\ open = {"inRead", "inWrite"} => NextCall = "output"
         /\ open = Pipes => NextCall = "console"
         /\ open = Pipes \cup {"console"} => NextCall = "attr"
         /\ open = Pipes \cup {"console", "attr"} => NextCall = "process"
<1>1. CASE "inRead" \notin open
  <2>1. NextCall = "input"
    BY <1>1 DEF NextCall
  <2>2. open = {}
    BY <1>1 DEF OpenedSoFar, Pipes
  <2> QED BY <2>1, <2>2 DEF Pipes
<1>2. CASE "inRead" \in open /\ "outRead" \notin open
  <2>1. NextCall = "output"
    BY <1>2 DEF NextCall
  <2>2. open # {} /\ open # Pipes /\ open # Pipes \cup {"console"}
        /\ open # Pipes \cup {"console", "attr"}
    BY <1>2 DEF Pipes
  <2> QED BY <2>1, <2>2
<1>3. CASE "inRead" \in open /\ "outRead" \in open /\ "console" \notin open
  <2>1. NextCall = "console"
    BY <1>3 DEF NextCall
  <2>2. open # {} /\ open # {"inRead", "inWrite"} /\ open # Pipes \cup {"console"}
        /\ open # Pipes \cup {"console", "attr"}
    BY <1>3 DEF Pipes
  <2> QED BY <2>1, <2>2
<1>4. CASE {"inRead", "outRead", "console"} \subseteq open /\ "attr" \notin open
  <2>1. NextCall = "attr"
    BY <1>4 DEF NextCall
  <2>2. open # {} /\ open # {"inRead", "inWrite"} /\ open # Pipes
        /\ open # Pipes \cup {"console", "attr"}
    BY <1>4 DEF Pipes
  <2> QED BY <2>1, <2>2
<1>5. CASE {"inRead", "outRead", "console", "attr"} \subseteq open
  <2>1. NextCall = "process"
    BY <1>5 DEF NextCall
  <2>2. open # {} /\ open # {"inRead", "inWrite"} /\ open # Pipes
        /\ open # Pipes \cup {"console"}
    BY <1>5 DEF Pipes
  <2> QED BY <2>1, <2>2
<1> QED BY <1>1, <1>2, <1>3, <1>4, <1>5

\* A call of Start that fails closes all that the calls before it opened.
LEMMA FailureCloses ==
  ASSUME open \in OpenedSoFar PROVE open \ Closes[NextCall] = {}
<1>1. CASE open = {}
  BY <1>1
<1>2. CASE open = {"inRead", "inWrite"}
  <2>1. NextCall = "output"
    BY <1>2, NextCallIs
  <2> QED BY <1>2, <2>1 DEF Closes
<1>3. CASE open = Pipes
  <2>1. NextCall = "console"
    BY <1>3, NextCallIs
  <2> QED BY <1>3, <2>1 DEF Closes
<1>4. CASE open = Pipes \cup {"console"}
  <2>1. NextCall = "attr"
    BY <1>4, NextCallIs
  <2> QED BY <1>4, <2>1 DEF Closes
<1>5. CASE open = Pipes \cup {"console", "attr"}
  <2>1. NextCall = "process"
    BY <1>5, NextCallIs
  <2> QED BY <1>5, <2>1 DEF Closes
<1> QED BY <1>1, <1>2, <1>3, <1>4, <1>5 DEF OpenedSoFar

\* The calls open one thing after the other.
LEMMA CallOpens ==
  ASSUME open \in OpenedSoFar, NextCall # "process"
  PROVE  open \cup Opens[NextCall] \in OpenedSoFar
<1>1. CASE open = {}
  <2>1. NextCall = "input"
    BY <1>1, NextCallIs
  <2> QED BY <1>1, <2>1 DEF Opens, OpenedSoFar
<1>2. CASE open = {"inRead", "inWrite"}
  <2>1. NextCall = "output"
    BY <1>2, NextCallIs
  <2> QED BY <1>2, <2>1 DEF Opens, OpenedSoFar, Pipes
<1>3. CASE open = Pipes
  <2>1. NextCall = "console"
    BY <1>3, NextCallIs
  <2> QED BY <1>3, <2>1 DEF Opens, OpenedSoFar
<1>4. CASE open = Pipes \cup {"console"}
  <2>1. NextCall = "attr"
    BY <1>4, NextCallIs
  <2>2. open \cup Opens[NextCall] = Pipes \cup {"console", "attr"}
    BY <1>4, <2>1 DEF Opens
  <2> QED BY <2>2 DEF OpenedSoFar
<1>5. CASE open = Pipes \cup {"console", "attr"}
  BY <1>5, NextCallIs
<1> QED BY <1>1, <1>2, <1>3, <1>4, <1>5 DEF OpenedSoFar

LEMMA HandlesKept == HandlesInv /\ [Next]_vars => HandlesInv'
<1> SUFFICES ASSUME HandlesInv, [Next]_vars PROVE HandlesInv'
  OBVIOUS
<1>1. CASE StartRelay
  BY <1>1 DEF HandlesInv, StartRelay, tail, OpenedSoFar
<1>2. CASE SetupFails
  BY <1>2, FailureCloses DEF HandlesInv, SetupFails
<1>3. CASE OpenTerminal
  BY <1>3, CallOpens DEF HandlesInv, OpenTerminal
<1>4. CASE Launch
  <2>1. open \in OpenedSoFar /\ main' = "wait"
    BY <1>4 DEF HandlesInv, Launch
  <2>2. open' \subseteq WaitCloses
    BY <1>4, <2>1 DEF Launch, Started, OpenedSoFar, Pipes, WaitCloses
  <2> QED BY <2>1, <2>2 DEF HandlesInv
<1>5. CASE SendExit
  BY <1>5 DEF HandlesInv, SendExit
<1>6. CASE CancelAll \/ Return
  BY <1>6 DEF HandlesInv, CancelAll, Return, tail
<1>7. CASE DialFails \/ DialSucceeds \/ RelayReturns \/ LinkBreaks \/ FrameArrives
  BY <1>7 DEF HandlesInv, DialFails, DialSucceeds, RelayReturns, LinkBreaks, FrameArrives, tail
<1>8. CASE Reader \/ Writer \/ Handler
  BY <1>8 DEF HandlesInv, Reader, ReaderDelivers, ReaderEnds, Writer, WriterTakes, WriterEnds,
              Handler, HandlerTakes, WriteFails, HandlerEnds, tail
<1>9. CASE AgentReads \/ Produce \/ PollerEnds \/ Interrupt \/ AgentExits
  BY <1>9 DEF HandlesInv, AgentReads, Produce, PollerEnds, Interrupt, AgentExits, tail
<1>10. CASE UNCHANGED vars
  BY <1>10 DEF HandlesInv, vars, tail
<1> QED BY <1>1, <1>2, <1>3, <1>4, <1>5, <1>6, <1>7, <1>8, <1>9, <1>10 DEF Next, Main

\* Whichever call of Start fails, and however the session ends, run returns with no
\* handle open and no terminal in raw mode (HandlesReleased).
THEOREM HandlesReleasedAlways == Spec => []HandlesReleased
<1>1. HandlesInv => HandlesReleased
  BY DEF HandlesInv, HandlesReleased
<1> QED BY <1>1, HandlesAtFirst, HandlesKept, PTL DEF Spec
-----------------------------------------------------------------------------
(* Nobody waits for ever *)

\* No goroutine of run can go on: the guards of the actions in GoroutinesRun.
AllWait ==
  /\ (main = "wait" /\ agent # "exited") \/ main = "returned"
  /\ relay = "dialing" => ~cancelled
  /\ relay = "linked" => ~cancelled /\ reader # "done" /\ writer # "done"
  /\ reader = "reading" => ~cancelled /\ conn # "down"
  /\ reader = "holding" => ~cancelled /\ inbound >= InCap
  /\ writer = "on" => ~cancelled /\ conn # "down" /\ outbound = <<>>
  /\ handler = "waiting" => ~cancelled /\ inbound = 0
  /\ handler = "writing" => agent # "exited"
  /\ poller = "on" => ~cancelled
  /\ agent # "none" /\ cancelled => signalled

\* GoroutinesEnd and RelayLossEndsSession, of a state in which all wait.
NobodyIsLeft ==
  AllWait =>
    /\ agent = "exited" =>
         /\ main = "returned" /\ relay = "returned"
         /\ reader \in {"off", "done"} /\ writer \in {"off", "done"}
         /\ handler = "done" /\ poller = "done"
    /\ require /\ relay = "returned" => main = "returned" \/ (os = "unix" /\ signalled)

\* What ends run has cancelled the context, what runs beside the agent was started with
\* it, and on Windows the interrupt of a waiting run has ended the agent.
EndsInv ==
  /\ main \in {"drain", "returned"} \/ (require /\ relay = "returned") => cancelled
  /\ main = "start" <=> relay = "off"
  /\ main \in {"wait", "sent", "drain"} => agent # "none"
  /\ agent # "none" => main \notin {"start", "setup"} /\ handler # "off" /\ poller # "off"
  /\ main = "wait" /\ os = "windows" => "process" \in open /\ (signalled => agent = "exited")
  /\ signalled => agent # "none"

LEMMA EndsAtFirst == Init => EndsInv
  BY DEF Init, EndsInv

LEMMA EndsKept == TypeOK /\ EndsInv /\ [Next]_vars => EndsInv'
<1> SUFFICES ASSUME TypeOK, EndsInv, [Next]_vars PROVE EndsInv'
  OBVIOUS
<1> USE DEF TypeOK, EndsInv
<1>1. CASE StartRelay \/ SetupFails
  BY <1>1 DEF StartRelay, SetupFails, link, queues, tail, config
<1>2. CASE OpenTerminal \/ Launch
  BY <1>2 DEF OpenTerminal, Launch, Started, link, queues, tail, config
<1>3. CASE SendExit \/ CancelAll \/ Return
  BY <1>3 DEF SendExit, CancelAll, Return, link, queues, tail, config
<1>4. CASE DialFails \/ DialSucceeds \/ RelayReturns \/ LinkBreaks
  BY <1>4 DEF DialFails, DialSucceeds, RelayReturns, LinkBreaks, Disconnect, queues, tail, config
<1>5. CASE FrameArrives \/ ReaderDelivers \/ ReaderEnds
  BY <1>5 DEF FrameArrives, ReaderDelivers, ReaderEnds, queues, tail, config
<1>6. CASE WriterTakes \/ WriterEnds
  BY <1>6 DEF WriterTakes, WriterEnds, queues, tail, config
<1>7. CASE HandlerTakes
  BY <1>7 DEF HandlerTakes, link, config
<1>8. CASE AgentReads \/ WriteFails \/ HandlerEnds
  BY <1>8 DEF AgentReads, WriteFails, HandlerEnds, link, queues, tail, config
<1>9. CASE Produce \/ PollerEnds
  BY <1>9 DEF Produce, PollerEnds, link, queues, tail, config
<1>10. CASE Interrupt
  BY <1>10 DEF Interrupt, Terminate, link, queues, tail, config
<1>11. CASE AgentExits
  BY <1>11 DEF AgentExits, link, queues, tail, config
<1>12. CASE UNCHANGED vars
  BY <1>12 DEF vars, link, queues, tail, config
<1> QED
  BY <1>1, <1>2, <1>3, <1>4, <1>5, <1>6, <1>7, <1>8, <1>9, <1>10, <1>11, <1>12
  DEF Next, Main, Reader, Writer, Handler

LEMMA NobodyLeft == TypeOK /\ EndsInv => NobodyIsLeft
<1> SUFFICES ASSUME TypeOK, EndsInv, AllWait PROVE NobodyIsLeft
  BY DEF NobodyIsLeft
<1> USE DEF TypeOK, EndsInv, AllWait
<1>1. ASSUME agent = "exited"
      PROVE  /\ main = "returned" /\ relay = "returned"
             /\ reader \in {"off", "done"} /\ writer \in {"off", "done"}
             /\ handler = "done" /\ poller = "done"
  <2>1. main = "returned" /\ cancelled
    BY <1>1
  <2> QED BY <1>1, <2>1
<1>2. ASSUME require, relay = "returned", main # "returned"
      PROVE  os = "unix" /\ signalled
  <2>1. main = "wait" /\ cancelled /\ agent \notin {"none", "exited"}
    BY <1>2
  <2> QED BY <2>1
<1> QED BY <1>1, <1>2 DEF NobodyIsLeft

\* There is no state in which the goroutines wait for one another: when none can go on
\* after the agent's exit all have ended, and when a required relay is gone run has
\* returned or a Unix agent ignores its signal.  That is what is safety in GoroutinesEnd
\* and RelayLossEndsSession (run, readLoop, handleInbound, terminal.Start).
THEOREM NobodyIsLeftAlways == Spec => []NobodyIsLeft
<1>1. TypeOK /\ [Next]_vars /\ EndsInv => EndsInv'
  BY EndsKept
<1> QED BY <1>1, EndsAtFirst, NobodyLeft, LifecycleTypeCorrect, PTL DEF Spec
=============================================================================
