----------------------------- MODULE PhoneLink ------------------------------
(***************************************************************************)
(* The phone's link to one session: RelayService with its socket, its      *)
(* CryptoService and the stored sequence number, and the part of           *)
(* SessionController that connects, reconnects, sends and ends.            *)
(*                                                                         *)
(* Dart runs one macrotask at a time, so a method is cut only where it     *)
(* awaits the platform: the close of a socket, the secure storage, the     *)
(* HTTP request for a ticket.  The ciphers are pure Dart and the events    *)
(* are delivered in microtasks: both belong to the step that starts them.  *)
(* The secure storage executes its calls one after the other in the order  *)
(* they were made; the process may be killed at any point.                 *)
(***************************************************************************)
EXTENDS Integers, Sequences

CONSTANTS
  MaxConnects, \* bound: calls of RelayService.connect
  MaxSeq,      \* bound: sequence numbers of commands
  MaxAttempts, \* attempts to reconnect without the user (4 in the code)
  None         \* null

ASSUME PhoneAssumption ==
  /\ MaxConnects \in Nat \ {0} /\ MaxAttempts \in Nat \ {0}
  /\ MaxSeq \in Nat
  /\ None \notin Nat

Connects == 1 .. MaxConnects  \* the calls, and the sockets they open

VARIABLES
  status,   \* LiveSessionState.status
  ended,    \* _sessionEndedByUser
  timer,    \* _autoReconnectTimer is set
  attempt,  \* _autoReconnectAttempt
  paired,   \* LiveSessionState.pairing is set
  last,     \* _lastPairing is set
  channel,  \* _channel: None or the call that opened it
  pairing,  \* _pairing is set
  seq,      \* _crypto: None or its _seq
  sock,     \* the socket of each call
  pc,       \* the await each call of connect is suspended at
  byTimer,  \* the running calls that the timer made
  waits,    \* the socket whose close the call awaits
  ending,   \* the socket whose close end() awaits, or None
  stored,   \* the sequence number in the secure storage
  ops,      \* calls of the secure storage that have not been executed
  begun,    \* calls of connect so far
  wire,     \* history: the sequence numbers sent until calls overlap, in order
  overlapped, \* history: connect began during connect or end, or end in connect
  browsed   \* history: "disconnected" is shown because a stored chat was opened

shows == <<status, browsed>>
reconnection == <<timer, attempt>>
target == <<paired, last>>
controller == <<shows, ended, reconnection, target>>
calls == <<pc, byTimer, waits, begun>>
storage == <<stored, ops>>
vars == <<controller, channel, pairing, seq, sock, calls, ending, storage,
          wire, overlapped>>

Alive == {"opening", "open"}
Running == {"closing", "resuming", "seed", "sequence", "ticket"}

TypeOK ==
  /\ status \in {"idle", "connecting", "ready", "disconnected", "ended",
                 "error"}
  /\ ended \in BOOLEAN /\ timer \in BOOLEAN /\ attempt \in 0 .. MaxAttempts
  /\ paired \in BOOLEAN /\ last \in BOOLEAN
  /\ channel \in Connects \cup {None} /\ pairing \in BOOLEAN
  /\ seq \in 0 .. MaxSeq \cup {None}
  /\ sock \in [Connects -> Alive \cup {"unused", "closing", "closed"}]
  /\ pc \in [Connects -> Running \cup {"none"}]
  /\ byTimer \subseteq Connects
  /\ waits \in [Connects -> Connects \cup {None}]
  /\ ending \in Connects \cup {None}
  /\ stored \in 0 .. MaxSeq
  /\ ops \in Seq([call : {"save", "seed", "sequence"},
                  by : Nat, value : 0 .. MaxSeq])
  /\ begun \in 0 .. MaxConnects
  /\ wire \in Seq(1 .. MaxSeq)
  /\ overlapped \in BOOLEAN /\ browsed \in BOOLEAN

Init ==
  /\ status = "idle" /\ ended = FALSE /\ timer = FALSE /\ attempt = 0
  /\ paired = FALSE /\ last \in BOOLEAN
  /\ channel = None /\ pairing = FALSE /\ seq = None
  /\ sock = [c \in Connects |-> "unused"]
  /\ pc = [c \in Connects |-> "none"]
  /\ byTimer = {}
  /\ waits = [c \in Connects |-> None]
  /\ ending = None
  /\ stored = 0 /\ ops = <<>>
  /\ begun = 0
  /\ wire = <<>> /\ overlapped = FALSE /\ browsed = FALSE

-----------------------------------------------------------------------------
(* SessionController: the automatic reconnection *)

Show(s) == status' = s /\ browsed' = FALSE

ResetAutoReconnect == timer' = FALSE /\ attempt' = 0

ScheduleAutoReconnect ==
  /\ timer' = (timer \/ (~ended /\ (paired \/ last) /\ attempt < MaxAttempts))
  /\ attempt' = attempt

-----------------------------------------------------------------------------
(* RelayService *)

Current == channel # None /\ sock[channel] \in Alive

\* Mutant of CloseSocket: the socket is only forgotten.
CloseSocketLeaks == channel' = None /\ UNCHANGED sock

\* _closeSocket up to its await; it waits only if the socket is still alive.
CloseSocket ==
  /\ channel' = None
  /\ sock' = IF Current THEN [sock EXCEPT ![channel] = "closing"] ELSE sock

CanResume == seq # None /\ pairing

\* A read of the secure storage for call c.
Read(call, c) == [call |-> call, by |-> c, value |-> 0]

\* connect after _closeSocket, up to its next await.
Prepare(c, resume) ==
  /\ pairing' = TRUE
  /\ pc' = [pc EXCEPT ![c] = IF resume THEN "ticket" ELSE "seed"]
  /\ ops' = IF resume THEN ops ELSE Append(ops, Read("seed", c))

Connect(c) ==
  /\ c = begun + 1
  /\ begun' = c
  /\ overlapped' = (\/ overlapped
                    \/ ending # None
                    \/ \E d \in Connects : pc[d] \in Running)
  /\ wire' = IF overlapped' THEN <<>> ELSE wire
  /\ CloseSocket
  /\ \/ /\ Current
        /\ waits' = [waits EXCEPT ![c] = channel]
        /\ pc' = [pc EXCEPT ![c] = IF CanResume THEN "resuming" ELSE "closing"]
        /\ UNCHANGED <<pairing, ops>>
     \/ /\ ~Current
        /\ Prepare(c, CanResume)
        /\ UNCHANGED waits
  /\ UNCHANGED <<seq, ending, stored>>

\* The catch clauses around connect.
ConnectThrows(c) ==
  /\ pc' = [pc EXCEPT ![c] = "none"]
  /\ byTimer' = byTimer \ {c}
  /\ UNCHANGED <<ended, target>>
  /\ \/ /\ c \notin byTimer
        /\ Show("error")
        /\ UNCHANGED reconnection
     \/ /\ c \in byTimer
        /\ Show("disconnected")
        /\ ScheduleAutoReconnect

\* connect resumes when the old socket is closed.  A crypto to be reused may be
\* gone by now: `_crypto!` throws.
SocketWasClosed(c) ==
  /\ pc[c] \in {"closing", "resuming"}
  /\ sock[waits[c]] = "closed"
  /\ waits' = [waits EXCEPT ![c] = None]
  /\ \/ /\ pc[c] = "resuming" /\ seq = None
        /\ ConnectThrows(c)
        /\ pairing' = TRUE
        /\ UNCHANGED ops
     \/ /\ pc[c] = "closing" \/ seq # None
        /\ Prepare(c, pc[c] = "resuming")
        /\ UNCHANGED <<controller, byTimer>>
  /\ UNCHANGED <<channel, seq, sock, begun, ending, stored, wire,
                 overlapped>>

\* The request for a ticket has an answer, of whatever status: the socket is
\* opened and mobile_hello written into it.  end() may have removed the crypto.
\* connectFromPairing then sets _lastPairing, the other callers do not.
TicketReturns(c) ==
  /\ pc[c] = "ticket"
  /\ channel' = c
  /\ sock' = [sock EXCEPT ![c] = "opening"]
  /\ \/ /\ seq # None
        /\ pc' = [pc EXCEPT ![c] = "none"]
        /\ byTimer' = byTimer \ {c}
        /\ Show("connecting")
        /\ last' \in {last, last \/ c \notin byTimer}
        /\ UNCHANGED <<ended, reconnection, paired>>
     \/ /\ seq = None
        /\ ConnectThrows(c)
  /\ UNCHANGED <<pairing, seq, waits, begun, ending, storage, wire,
                 overlapped>>

TicketFails(c) ==
  /\ pc[c] = "ticket"
  /\ ConnectThrows(c)
  /\ UNCHANGED <<channel, pairing, seq, sock, waits, begun, ending,
                 storage, wire, overlapped>>

-----------------------------------------------------------------------------
(* SessionController: the user *)

\* connectFromPairing and reconnectLastPairing.
UserConnects(c) ==
  /\ ended' = FALSE
  /\ ResetAutoReconnect
  /\ Show("connecting")
  /\ paired' = TRUE
  /\ Connect(c)
  /\ UNCHANGED <<last, byTimer>>

TimerFires(c) ==
  /\ timer
  /\ timer' = FALSE
  /\ status = "disconnected"
  /\ attempt' = attempt + 1
  /\ Show("connecting")
  /\ Connect(c)
  /\ byTimer' = byTimer \cup {c}
  /\ UNCHANGED <<ended, target>>

TimerFiresLate ==
  /\ timer /\ status # "disconnected"
  /\ timer' = FALSE
  /\ UNCHANGED <<shows, ended, attempt, target, channel, pairing, seq, sock, calls,
                 ending, storage, wire, overlapped>>

\* openHistory shows a stored chat in place of the session: disconnected if it is one
\* of the session paired last, ended if not, whatever the socket and the timer do.
OpenHistory ==
  /\ \/ last /\ status' = "disconnected" /\ browsed' = TRUE /\ paired' = TRUE
     \/ Show("ended") /\ paired' = FALSE
  /\ UNCHANGED <<ended, reconnection, last, channel, pairing, seq, sock, calls, ending,
                 storage, wire, overlapped>>

\* end: _relay.close() resumes when the socket is closed.
End ==
  /\ begun > 0
  /\ ending = None \/ ~Current
  /\ ended' = TRUE
  /\ ResetAutoReconnect
  /\ CloseSocket
  /\ overlapped' = (overlapped \/ \E d \in Connects : pc[d] \in Running)
  /\ wire' = IF overlapped' THEN <<>> ELSE wire
  /\ \/ /\ Current
        /\ ending' = channel
        /\ UNCHANGED <<shows, seq, pairing>>
     \/ /\ ~Current
        /\ Show("ended") /\ seq' = None /\ pairing' = FALSE
        /\ UNCHANGED ending
  /\ UNCHANGED <<target, calls, storage>>

EndReturns ==
  /\ ending # None
  /\ sock[ending] = "closed"
  /\ ending' = None
  /\ Show("ended") /\ seq' = None /\ pairing' = FALSE
  /\ UNCHANGED <<ended, reconnection, target, channel, sock, calls, storage, wire,
                 overlapped>>

-----------------------------------------------------------------------------
(* Commands *)

\* sendCommand up to the save.  n commands of one macrotask take n numbers
\* before the first of them reads `crypto.sequence` to save it.
\* Bound: numbers are followed until calls overlap, since none is compared after that
\* and a save only holds up the calls of the storage behind it, which may wait anyway.
Seal(n) ==
  \/ /\ ~overlapped /\ seq + n <= MaxSeq
     /\ seq' = seq + n
     /\ ops' = ops \o [i \in 1 .. n |->
                         [call |-> "save", by |-> seq + i, value |-> seq + n]]
  \/ /\ overlapped
     /\ UNCHANGED <<seq, ops>>

\* sendText: the screens let the user write while the session is ready.
SendText ==
  /\ status = "ready"
  /\ \/ /\ CanResume
        /\ Seal(1)
        /\ UNCHANGED shows
     \/ /\ ~CanResume
        /\ Show("error")
        /\ UNCHANGED <<seq, ops>>
  /\ UNCHANGED <<ended, reconnection, target, channel, pairing, sock, calls, ending,
                 stored, wire, overlapped>>

\* sendCommand after the save: the frame goes into the socket there is now, and
\* is dropped without an error if there is none.
SaveReturns ==
  /\ ops # <<>> /\ Head(ops).call = "save"
  /\ stored' = Head(ops).value
  /\ ops' = Tail(ops)
  /\ wire' = IF Current /\ ~overlapped
             THEN Append(wire, Head(ops).by) ELSE wire
  /\ UNCHANGED <<controller, channel, pairing, seq, sock, calls, ending,
                 overlapped>>

\* connect of a new crypto: loadOrCreateBoxSeed, then loadSequence and create.
SeedReturns ==
  /\ ops # <<>> /\ Head(ops).call = "seed"
  /\ LET c == Head(ops).by IN
     /\ pc' = [pc EXCEPT ![c] = "sequence"]
     /\ ops' = Append(Tail(ops), Read("sequence", c))
  /\ UNCHANGED <<controller, channel, pairing, seq, sock, byTimer, waits,
                 begun, ending, stored, wire, overlapped>>

\* Mutant of SequenceReturns: the crypto starts at 0 whatever was stored.
SequenceForgotten ==
  /\ ops # <<>> /\ Head(ops).call = "sequence"
  /\ seq' = 0
  /\ pc' = [pc EXCEPT ![Head(ops).by] = "ticket"]
  /\ ops' = Tail(ops)
  /\ UNCHANGED <<controller, channel, pairing, sock, byTimer, waits, begun,
                 ending, stored, wire, overlapped>>

SequenceReturns ==
  /\ ops # <<>> /\ Head(ops).call = "sequence"
  /\ seq' = stored
  /\ pc' = [pc EXCEPT ![Head(ops).by] = "ticket"]
  /\ ops' = Tail(ops)
  /\ UNCHANGED <<controller, channel, pairing, sock, byTimer, waits, begun,
                 ending, stored, wire, overlapped>>

-----------------------------------------------------------------------------
(* Frames of the daemon; a closing socket still delivers. *)

Delivers(c) == sock[c] \in {"open", "closing"}

EventChangesNothingElse ==
  UNCHANGED <<paired, channel, pairing, sock, calls, ending, stored, wire, overlapped>>

\* daemon_ready: session_ready.
DaemonReady(c) ==
  /\ Delivers(c)
  /\ ended' = FALSE
  /\ ResetAutoReconnect
  /\ Show("ready")
  /\ UNCHANGED <<seq, ops, last>>
  /\ EventChangesNothingElse

\* session_started asks for the files and, if a launch prompt is queued, sends
\* it as well.
SessionStarted(c) ==
  /\ Delivers(c) /\ seq # None
  /\ ended' = FALSE
  /\ ResetAutoReconnect
  /\ \/ /\ pairing
        /\ Show("ready")
        /\ \E n \in {1, 2} : Seal(n)
     \/ /\ ~pairing
        /\ \E s \in {"ready", "error"} : Show(s)
        /\ UNCHANGED <<seq, ops>>
  /\ UNCHANGED last
  /\ EventChangesNothingElse

\* permission_requested.
PermissionRequested(c) ==
  /\ Delivers(c) /\ seq # None
  /\ Show("ready")
  /\ UNCHANGED <<ended, reconnection, last, seq, ops>>
  /\ EventChangesNothingElse

\* process_exit.
ProcessExit(c) ==
  /\ Delivers(c) /\ seq # None
  /\ ended' = TRUE
  /\ ResetAutoReconnect
  /\ Show("ended")
  /\ UNCHANGED <<seq, ops, last>>
  /\ EventChangesNothingElse

\* pairing_expired.
PairingExpired(c) ==
  /\ Delivers(c)
  /\ ended' = FALSE
  /\ ResetAutoReconnect
  /\ last' = FALSE
  /\ Show("error")
  /\ UNCHANGED <<seq, ops>>
  /\ EventChangesNothingElse

\* An error event: an error of the daemon, a refused phone, a frame that does
\* not open.
ErrorEvent(c) ==
  /\ Delivers(c)
  /\ ~ended
  /\ ResetAutoReconnect
  /\ Show("error")
  /\ UNCHANGED <<ended, seq, ops, last>>
  /\ EventChangesNothingElse

-----------------------------------------------------------------------------
(* The network *)

SocketOpens(c) ==
  /\ sock[c] = "opening"
  /\ sock' = [sock EXCEPT ![c] = "open"]
  /\ UNCHANGED <<controller, channel, pairing, seq, calls, ending, storage,
                 wire, overlapped>>

\* Mutant of SocketEnds: no reconnection is scheduled.
SocketEndsForGood(c) ==
  /\ sock[c] \in Alive
  /\ sock' = [sock EXCEPT ![c] = "closed"]
  /\ \/ /\ channel = c
        /\ Show(IF ended THEN "ended" ELSE "disconnected")
        /\ UNCHANGED <<ended, reconnection, target>>
     \/ /\ channel # c
        /\ UNCHANGED controller
  /\ UNCHANGED <<channel, pairing, seq, calls, ending, storage, wire,
                 overlapped>>

\* onError and onDone, and the disconnect event.
SocketEnds(c) ==
  /\ sock[c] \in Alive
  /\ sock' = [sock EXCEPT ![c] = "closed"]
  /\ \/ /\ channel = c
        /\ Show(IF ended THEN "ended" ELSE "disconnected")
        /\ UNCHANGED <<ended, target>>
        /\ ScheduleAutoReconnect
     \/ /\ channel # c
        /\ UNCHANGED controller
  /\ UNCHANGED <<channel, pairing, seq, calls, ending, storage,
                 wire, overlapped>>

\* Mutant of SocketCloses: onDone does not compare the channel.
SocketClosesLoudly(c) ==
  /\ sock[c] = "closing"
  /\ sock' = [sock EXCEPT ![c] = "closed"]
  /\ Show(IF ended THEN "ended" ELSE "disconnected")
  /\ UNCHANGED <<ended, target>>
  /\ ScheduleAutoReconnect
  /\ UNCHANGED <<channel, pairing, seq, calls, ending, storage, wire,
                 overlapped>>

\* The close handshake ends; onDone finds another channel and is silent.
SocketCloses(c) ==
  /\ sock[c] = "closing"
  /\ sock' = [sock EXCEPT ![c] = "closed"]
  /\ UNCHANGED <<controller, channel, pairing, seq, calls, ending, storage,
                 wire, overlapped>>

\* The process is killed and started again; the storage keeps what it executed, which
\* may or may not be the last change of the pairing.
Killed ==
  /\ begun > 0
  /\ Show("idle") /\ ended' = FALSE /\ ResetAutoReconnect
  /\ paired' = FALSE /\ last' \in BOOLEAN
  /\ channel' = None /\ pairing' = FALSE /\ seq' = None
  /\ sock' = [c \in Connects |-> IF c <= begun THEN "closed" ELSE sock[c]]
  /\ pc' = [c \in Connects |-> "none"]
  /\ waits' = [c \in Connects |-> None]
  /\ ending' = None /\ ops' = <<>>
  /\ byTimer' = {}
  /\ UNCHANGED <<begun, stored, wire, overlapped>>

-----------------------------------------------------------------------------
(* The specification *)

\* What the phone itself does next.
PhoneSteps ==
  \/ \E c \in Connects : TimerFires(c) \/ SocketWasClosed(c)
  \/ TimerFiresLate \/ EndReturns
  \/ SaveReturns \/ SeedReturns \/ SequenceReturns

DaemonFrames ==
  \E c \in Connects :
    \/ DaemonReady(c) \/ SessionStarted(c) \/ PermissionRequested(c)
    \/ ProcessExit(c) \/ PairingExpired(c) \/ ErrorEvent(c)

Network ==
  \E c \in Connects :
    \/ TicketReturns(c) \/ TicketFails(c)
    \/ SocketOpens(c) \/ SocketEnds(c) \/ SocketCloses(c)

User ==
  (\E c \in Connects : UserConnects(c)) \/ SendText \/ OpenHistory \/ End \/ Killed

Next == PhoneSteps \/ DaemonFrames \/ Network \/ User

Spec == Init /\ [][Next]_vars

\* A timer that is due fires.  The network, the storage, the daemon and the
\* user may keep the phone waiting for ever.
FairSpec == Spec /\ WF_vars(\E c \in Connects : TimerFires(c))

-----------------------------------------------------------------------------
(* Properties *)

\* The daemon takes a command only if its number is higher than all before it.
\* Unless connects or ends have overlapped, the phone numbers its commands so,
\* across reconnections and restarts of the app.
CommandsFresh ==
  overlapped \/ \A i, j \in DOMAIN wire : i < j => wire[i] < wire[j]

\* Unless connects or ends have overlapped, the phone keeps no socket but the
\* current one, and has the keys for that one: it neither reads a frame twice
\* nor listens on after end().
NoOrphanSocket ==
  overlapped \/ \A c \in Connects :
                  sock[c] \in Alive => channel = c /\ CanResume

\* The phone shows "disconnected", and may reconnect by itself, only while it
\* has no socket that works and no connect is under way, unless it shows a chat of the
\* history, which says so whatever the link is; the end of a socket that is being
\* replaced is not taken for the end of the link.
DisconnectedIsTrue ==
  status = "disconnected" =>
    \/ overlapped \/ browsed
    \/ ~Current /\ \A c \in Connects : pc[c] \notin Running

\* What the phone holds and shows of its link is what the link is: both of the above
\* (connect, _closeSocket, the disconnect event, openHistory).
LinkIsExact == NoOrphanSocket /\ DisconnectedIsTrue

\* A link that was lost is dialled again or shown otherwise, unless the user or the
\* daemon ended the session, the attempts are used up, there is no pairing to dial, or
\* the user has opened a chat of the history (_scheduleAutoReconnect).
ReconnectHappens ==
  status = "disconnected"
    ~> \/ status # "disconnected" \/ ended \/ attempt = MaxAttempts
       \/ browsed \/ ~(paired \/ last)
       \/ begun = MaxConnects

=============================================================================
