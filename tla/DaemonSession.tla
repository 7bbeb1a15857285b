--------------------------- MODULE DaemonSession ---------------------------
(***************************************************************************)
(* One live session of the daemon: the secureSender that seals events for  *)
(* the paired phone, the bounded outbound queue in front of the relay      *)
(* socket, the handleInbound goroutine that admits phones and executes     *)
(* their commands, and the authorized-devices file it consults.            *)
(*                                                                         *)
(* Goroutines that interleave here:                                        *)
(*   - handleInbound, one step per mutex region, queue push or registry    *)
(*     call (pc names the point it has reached);                           *)
(*   - the event producers (terminal callback, files.Poll, run itself);    *)
(*   - the relay client's writeLoop and readLoop;                          *)
(*   - other processes that edit the registry file (`devices revoke`,      *)
(*     other sessions), and the clock that ends the pairing window.        *)
(*                                                                         *)
(* The registry is read and written atomically here; DeviceRegistry opens  *)
(* up the load/save pair.  Payloads are abstracted to event numbers.       *)
(***************************************************************************)
EXTENDS Naturals, Sequences

CONSTANTS
  Devices,     \* device ids phones present
  Keys,        \* public keys ParsePublicKey accepts
  Commands,    \* the kinds of command phones send
  BadKey,      \* a public key ParsePublicKey refuses
  None,        \* an absent device id or key (the empty string)
  BufferCap,   \* events kept until a phone pairs        (128 in the code)
  QueueCap,    \* capacity of the outbound channel       (256 in the code)
  InboundCap,  \* capacity of the inbound channel        (256 in the code)
  MaxEvents,   \* bound: events the producers send
  MaxFrames,   \* bound: frames the relay delivers
  MaxSeq       \* bound: sequence numbers phones use

\* The cases of handleCiphertext's switch: "answer" stands for approve and
\* reject, "query" for interrupt and the file, folder, tools and ping commands.
CommandKinds == {"stdin", "answer", "query", "git", "unsupported"}

ASSUME ConstantsAssumption ==
  /\ Commands \subseteq CommandKinds
  /\ BufferCap \in Nat \ {0}
  /\ QueueCap \in Nat \ {0}
  /\ InboundCap \in Nat \ {0}
  /\ MaxEvents \in Nat
  /\ MaxFrames \in Nat
  /\ MaxSeq \in Nat
  /\ None \notin Keys \cup Devices \cup {BadKey}
  /\ BadKey \notin Keys

VARIABLES
  registry,  \* authorized-devices.json: the key of each device, or None
  expired,   \* time.Now().After(expires)
  link,      \* "up" while relay.Client.Run is in its select, "down" after
  hasPeer, peerKey, peerDev, seq, lastRecv, buffer,  \* the secureSender
  inbound,   \* chan relay.WireMessage filled by readLoop
  outbound,  \* chan relay.WireMessage drained by writeLoop
  pc, msg, left, \* handleInbound: the point reached, its frame, replies left
  produced,  \* events the producers have handed to Send
  received,  \* frames readLoop has delivered
  wroteSeq, wroteEv, \* history: last seq and event number writeLoop wrote
  epoch,     \* history: how many times the peer key changed
  executed,  \* history: commands that were opened and run, in order
  known,     \* history: pairs that have been in the registry
  afterRevoke \* history: commands a device ran since it was last revoked

peer == <<hasPeer, peerKey, peerDev, lastRecv>>
sender == <<peer, seq, buffer>>
handler == <<pc, msg, left>>
wrote == <<wroteSeq, wroteEv>>
history == <<wrote, epoch, executed, known, afterRevoke>>
vars == <<registry, expired, link, sender, inbound, outbound, handler, produced,
          received, history>>

-----------------------------------------------------------------------------
(* Frames *)

Hello == [type : {"mobile_hello"}, dev : Devices \cup {None},
          key : Keys \cup {BadKey}]

\* A ciphertext frame: `key` is the key whose holder sealed it, so it opens
\* exactly when that key is the peer's.
Command == [type : {"ciphertext"}, key : Keys, seq : 1..MaxSeq,
            cmd : Commands]

\* Any other type, "pong" included.
Other == [type : {"other"}]

InFrame == Hello \cup Command \cup Other

NoFrame == [type |-> "none"]

ControlTypes == {"device_identity_required", "pairing_expired",
                 "device_authorization_failed", "daemon_ready"}

OutFrame == [type : ControlTypes \cup {"ciphertext"}, to : Keys \cup {None},
             seq : Nat, ev : Nat]

Control(t) == [type |-> t, to |-> None, seq |-> 0, ev |-> 0]

-----------------------------------------------------------------------------
(* secureSender and the outbound queue *)

\* queue(): a non-blocking channel send; a frame that finds it full is lost.
Queue(q, frame) == IF Len(q) < QueueCap THEN Append(q, frame) ELSE q

\* sendLocked(): the sequence number is consumed whether or not the frame is
\* sealed (`ok`) and whether or not it finds room in the queue.
SendLocked(ev, ok) ==
  /\ seq' = seq + 1
  /\ outbound' = IF ok
                   THEN Queue(outbound, [type |-> "ciphertext", to |-> peerKey,
                                         seq |-> seq + 1, ev |-> ev])
                   ELSE outbound
  /\ UNCHANGED peer

\* Mutant of Newest: the wrong end is kept.
NewestKeepsOldest(s, n) == IF Len(s) > n THEN SubSeq(s, 1, n) ELSE s

\* The last n elements of a sequence.
Newest(s, n) == IF Len(s) > n THEN SubSeq(s, Len(s) - n + 1, Len(s)) ELSE s

\* Send(typ, data, bufferUntilPaired = true) by a producer.
SendBuffered(ev) ==
  IF hasPeer
    THEN /\ \E ok \in BOOLEAN : SendLocked(ev, ok)
         /\ UNCHANGED buffer
    ELSE /\ buffer' = Newest(Append(buffer, ev), BufferCap)
         /\ UNCHANGED <<peer, seq, outbound>>

\* Send(typ, data, bufferUntilPaired = false): replies, session_ready, error.
SendDirect ==
  /\ IF hasPeer
       THEN \E ok \in BOOLEAN : SendLocked(0, ok)
       ELSE UNCHANGED <<peer, seq, outbound>>
  /\ UNCHANGED buffer

\* Mutant of NewWindow: every hello reopens the receive window.
NewWindowAlways(key) == TRUE

\* SetPeer reopens the receive window only for a first peer or another key.
NewWindow(key) == ~hasPeer \/ peerKey # key

\* Mutant of InstallPeer: the send counter starts again with each hello.
InstallPeerResetsSeq(key, dev) ==
  /\ lastRecv' = IF NewWindow(key) THEN 0 ELSE lastRecv
  /\ peerKey' = key /\ peerDev' = dev /\ hasPeer' = TRUE
  /\ seq' = 0

\* The fields SetPeer assigns before it flushes the buffer.
InstallPeer(key, dev) ==
  /\ lastRecv' = IF NewWindow(key) THEN 0 ELSE lastRecv
  /\ peerKey' = key
  /\ peerDev' = dev
  /\ hasPeer' = TRUE
  /\ UNCHANGED seq

\* Mutant of IsAuthorized: answered from what was ever read, not from the file.
IsAuthorizedCached(dev, key, readable) == <<dev, key>> \in known

\* deviceRegistry.IsAuthorized: load() may fail (`readable`), and then nobody is.
IsAuthorized(dev, key, readable) ==
  /\ readable
  /\ dev # None /\ key # None
  /\ registry[dev] = key

\* A hello is refused when the pairing window is over and the device unknown.
MayPair(knownDevice) == ~expired \/ knownDevice

-----------------------------------------------------------------------------
(* handleInbound *)

\* The handler stays at the same frame, goes on with another, or is done.
Goto(point) == pc' = point /\ UNCHANGED <<msg, left>>
Start(point, m) == pc' = point /\ msg' = m /\ left' = 0
SendReplies(n) == pc' = "reply" /\ left' = n /\ UNCHANGED msg
Done == Start("idle", NoFrame)

\* The channel receive and, for a hello, the checks up to the registry write.
ReceiveHello ==
  /\ pc = "idle"
  /\ inbound # <<>> /\ Head(inbound).type = "mobile_hello"
  /\ inbound' = Tail(inbound)
  /\ LET m == Head(inbound) IN
     \/ /\ m.dev = None
        /\ outbound' = Queue(outbound, Control("device_identity_required"))
        /\ Done
     \/ /\ m.dev # None
        /\ \E readable \in BOOLEAN :
             LET knownDevice == IsAuthorized(m.dev, m.key, readable) IN
             \/ /\ ~MayPair(knownDevice)
                /\ outbound' = Queue(outbound, Control("pairing_expired"))
                /\ Done
             \/ /\ MayPair(knownDevice)
                /\ m.key = BadKey
                /\ Done
                /\ UNCHANGED outbound
             \/ /\ MayPair(knownDevice)
                /\ m.key # BadKey
                /\ Start(IF knownDevice THEN "touch" ELSE "authorize", m)
                /\ UNCHANGED outbound
  /\ UNCHANGED <<registry, expired, link, sender, produced, received, history>>

\* devices.Authorize: replaces the key stored for the device id, or adds it.
Authorize ==
  /\ pc = "authorize"
  /\ registry' = [registry EXCEPT ![msg.dev] = msg.key]
  /\ known' = known \cup {<<msg.dev, msg.key>>}
  /\ afterRevoke' = [afterRevoke EXCEPT ![msg.dev] = 0]
  /\ Goto("setpeer")
  /\ UNCHANGED <<expired, link, sender, inbound, outbound, produced, received,
                 wrote, epoch, executed>>

\* Mutant of AuthorizeFails: the handler goes on after the error.
AuthorizeFailsContinues ==
  /\ pc = "authorize"
  /\ outbound' = Queue(outbound, Control("device_authorization_failed"))
  /\ Goto("setpeer")
  /\ UNCHANGED <<registry, expired, link, sender, inbound, produced, received,
                 history>>

\* devices.Authorize returns an error (the file cannot be read or written).
AuthorizeFails ==
  /\ pc = "authorize"
  /\ outbound' = Queue(outbound, Control("device_authorization_failed"))
  /\ Done
  /\ UNCHANGED <<registry, expired, link, sender, inbound, produced, received,
                 history>>

\* devices.Touch only updates the time of last use, and an error is ignored.
Touch ==
  /\ pc = "touch"
  /\ Goto("setpeer")
  /\ UNCHANGED <<registry, expired, link, sender, inbound, outbound, produced,
                 received, history>>

\* SetPeer takes the mutex, installs the peer and starts the flush.
SetPeer ==
  /\ pc = "setpeer"
  /\ InstallPeer(msg.key, msg.dev)
  /\ epoch' = IF hasPeer /\ peerKey = msg.key THEN epoch ELSE epoch + 1
  /\ Goto("flush")
  /\ UNCHANGED <<registry, expired, link, buffer, inbound, outbound, produced,
                 received, wrote, executed, known, afterRevoke>>

\* One iteration of SetPeer's loop; the mutex is held, writeLoop is not stopped.
FlushOne ==
  /\ pc = "flush"
  /\ buffer # <<>>
  /\ buffer' = Tail(buffer)
  /\ \E ok \in BOOLEAN : SendLocked(Head(buffer), ok)
  /\ UNCHANGED <<registry, expired, link, inbound, handler, produced, received,
                 history>>

\* SetPeer releases the mutex.
FlushDone ==
  /\ pc = "flush"
  /\ buffer = <<>>
  /\ Goto("ready")
  /\ UNCHANGED <<registry, expired, link, sender, inbound, outbound, produced,
                 received, history>>

\* Mutant of DaemonReady: a channel send that waits for room.
DaemonReadyBlocks ==
  /\ pc = "ready"
  /\ Len(outbound) < QueueCap
  /\ outbound' = Append(outbound, Control("daemon_ready"))
  /\ SendReplies(1)
  /\ UNCHANGED <<registry, expired, link, sender, inbound, produced, received,
                 history>>

DaemonReady ==
  /\ pc = "ready"
  /\ outbound' = Queue(outbound, Control("daemon_ready"))
  /\ SendReplies(1)  \* session_ready
  /\ UNCHANGED <<registry, expired, link, sender, inbound, produced, received,
                 history>>

\* handleCiphertext up to the authorization check of the current peer.
ReceiveCommand ==
  /\ pc = "idle"
  /\ inbound # <<>> /\ Head(inbound).type = "ciphertext"
  /\ inbound' = Tail(inbound)
  /\ \E readable \in BOOLEAN :
       IF hasPeer /\ IsAuthorized(peerDev, peerKey, readable)
         THEN Start("open", Head(inbound))
         ELSE pc' = "reply" /\ msg' = NoFrame /\ left' = 1  \* error
  /\ UNCHANGED <<registry, expired, link, sender, outbound, produced, received,
                 history>>

\* secureSender.Open refuses what the peer did not seal and what it has seen.
Opens(m) == m.key = peerKey /\ m.seq > lastRecv

OpenFails ==
  /\ pc = "open"
  /\ ~Opens(msg)
  /\ SendReplies(1)  \* error
  /\ UNCHANGED <<registry, expired, link, sender, inbound, outbound, produced,
                 received, history>>

\* The commands that wait for something outside the daemon, without a timeout:
\* for the agent to read its PTY (proc.Write), or for git, a remote or a hook
\* (runGitCommand).
WaitsOutside == {"stdin", "answer", "git"}

\* How many events the switch of handleCiphertext sends for a command.
Replies(cmd) ==
  CASE cmd = "stdin"       -> {0, 1}       \* nothing, or an error
    [] cmd = "answer"      -> {1}          \* permission_resolved, or an error
    [] cmd = "query"       -> {1}          \* the result, or an error
    [] cmd = "git"         -> {1, 2, 3}    \* result, tools, snapshot
    [] cmd = "unsupported" -> {1}          \* an error

\* Open succeeds, moves the window and the switch takes up the command.
Execute ==
  /\ pc = "open"
  /\ Opens(msg)
  /\ lastRecv' = msg.seq
  /\ IF msg.cmd \in WaitsOutside
       THEN Goto("run")
       ELSE \E n \in Replies(msg.cmd) : SendReplies(n)
  /\ executed' = Append(executed, [epoch |-> epoch, seq |-> msg.seq])
  /\ afterRevoke' = IF registry[peerDev] = peerKey
                      THEN afterRevoke
                      ELSE [afterRevoke EXCEPT ![peerDev] = @ + 1]
  /\ UNCHANGED <<registry, expired, link, hasPeer, peerKey, peerDev, seq, buffer,
                 inbound, outbound, produced, received, wrote, epoch, known>>

\* The write to the PTY, or git, returns, with an error or without.
CommandReturns ==
  /\ pc = "run"
  /\ \E n \in Replies(msg.cmd) : SendReplies(n)
  /\ UNCHANGED <<registry, expired, link, sender, inbound, outbound, produced,
                 received, history>>

\* One Send(..., false) of the handler.
Reply ==
  /\ pc = "reply"
  /\ left > 0
  /\ SendDirect
  /\ left' = left - 1
  /\ UNCHANGED <<registry, expired, link, inbound, pc, msg, produced, received,
                 history>>

HandlerReturns ==
  /\ pc = "reply"
  /\ left = 0
  /\ Done
  /\ UNCHANGED <<registry, expired, link, sender, inbound, outbound, produced,
                 received, history>>

\* Frames of every other type are logged at most.
IgnoreFrame ==
  /\ pc = "idle"
  /\ inbound # <<>> /\ Head(inbound).type = "other"
  /\ inbound' = Tail(inbound)
  /\ UNCHANGED <<registry, expired, link, sender, outbound, handler, produced,
                 received, history>>

\* The steps the handler takes by itself.
HandlerRuns ==
  \/ IgnoreFrame
  \/ ReceiveHello \/ Authorize \/ AuthorizeFails \/ Touch \/ SetPeer
  \/ FlushOne \/ FlushDone \/ DaemonReady
  \/ ReceiveCommand \/ OpenFails \/ Execute \/ Reply \/ HandlerReturns

Handler == HandlerRuns \/ CommandReturns

-----------------------------------------------------------------------------
(* The other goroutines and processes *)

\* Mutant of Produce: SetPeer does not hold the mutex while it flushes.
ProduceUnlocked ==
  /\ produced < MaxEvents
  /\ produced' = produced + 1
  /\ SendBuffered(produced + 1)
  /\ UNCHANGED <<registry, expired, link, inbound, handler, received, history>>

\* A producer's Send; it waits while SetPeer holds the mutex.
Produce ==
  /\ produced < MaxEvents
  /\ pc # "flush"
  /\ produced' = produced + 1
  /\ SendBuffered(produced + 1)
  /\ UNCHANGED <<registry, expired, link, inbound, handler, received, history>>

\* readLoop: frames of this session in any order, repeated or not.
ReadLoop(frame) ==
  /\ link = "up"
  /\ received < MaxFrames
  /\ Len(inbound) < InboundCap
  /\ inbound' = Append(inbound, frame)
  /\ received' = received + 1
  /\ UNCHANGED <<registry, expired, link, sender, outbound, handler,
                 produced, history>>

WriteLoop ==
  /\ link = "up"
  /\ outbound # <<>>
  /\ outbound' = Tail(outbound)
  /\ LET f == Head(outbound) IN
     IF f.type = "ciphertext"
       THEN /\ wroteSeq' = f.seq
            /\ wroteEv' = IF f.ev = 0 THEN wroteEv ELSE f.ev
       ELSE UNCHANGED wrote
  /\ UNCHANGED <<registry, expired, link, sender, inbound, handler, produced,
                 received, epoch, executed, known, afterRevoke>>

\* relay.Client.Run returns on the first read or write error and is not rerun.
RelayDisconnects ==
  /\ link = "up"
  /\ link' = "down"
  /\ UNCHANGED <<registry, expired, sender, inbound, outbound, handler, produced,
                 received, history>>

PairingExpires ==
  /\ ~expired
  /\ expired' = TRUE
  /\ UNCHANGED <<registry, link, sender, inbound, outbound, handler, produced,
                 received, history>>

\* `codexnomad devices revoke`, run by another process.
Revoke(dev) ==
  /\ registry[dev] # None
  /\ registry' = [registry EXCEPT ![dev] = None]
  /\ afterRevoke' = [afterRevoke EXCEPT ![dev] = 0]
  /\ UNCHANGED <<expired, link, sender, inbound, outbound, handler, produced,
                 received, wrote, epoch, executed, known>>

\* Another session of the same machine pairs a phone: same file, same code.
OtherSessionAuthorizes(dev, key) ==
  /\ registry[dev] # key
  /\ registry' = [registry EXCEPT ![dev] = key]
  /\ known' = known \cup {<<dev, key>>}
  /\ afterRevoke' = [afterRevoke EXCEPT ![dev] = 0]
  /\ UNCHANGED <<expired, link, sender, inbound, outbound, handler, produced,
                 received, wrote, epoch, executed>>

-----------------------------------------------------------------------------
\* The registry outlives sessions: it may already hold devices.
Init ==
  /\ registry \in [Devices -> Keys \cup {None}]
  /\ expired = FALSE
  /\ link = "up"
  /\ hasPeer = FALSE /\ peerKey = None /\ peerDev = None
  /\ seq = 0 /\ lastRecv = 0 /\ buffer = <<>>
  /\ inbound = <<>>
  /\ outbound = <<>>
  /\ pc = "idle" /\ msg = NoFrame /\ left = 0
  /\ produced = 0
  /\ received = 0
  /\ wroteSeq = 0 /\ wroteEv = 0
  /\ epoch = 0
  /\ executed = <<>>
  /\ known = {<<d, registry[d]>> : d \in {e \in Devices : registry[e] # None}}
  /\ afterRevoke = [d \in Devices |-> 0]

Environment ==
  \/ \E frame \in InFrame : ReadLoop(frame)
  \/ RelayDisconnects
  \/ PairingExpires
  \/ \E dev \in Devices : Revoke(dev)
  \/ \E dev \in Devices, key \in Keys : OtherSessionAuthorizes(dev, key)

Next == Handler \/ Produce \/ WriteLoop \/ Environment

Spec == Init /\ [][Next]_vars

\* The Go scheduler runs the handler goroutine; nothing else is assumed, so a
\* write to the PTY and a git command may never return.
FairSpec == Spec /\ WF_vars(HandlerRuns)

-----------------------------------------------------------------------------
(* Properties *)

Points == {"idle", "authorize", "touch", "setpeer", "flush", "ready", "open",
           "run", "reply"}

SenderType ==
  /\ hasPeer \in BOOLEAN
  /\ peerKey \in Keys \cup {None} /\ peerDev \in Devices \cup {None}
  /\ hasPeer => peerKey \in Keys /\ peerDev \in Devices
  /\ seq \in Nat /\ lastRecv \in Nat
  /\ buffer \in Seq(Nat) /\ Len(buffer) <= BufferCap

ChannelsType ==
  /\ inbound \in Seq(InFrame) /\ Len(inbound) <= InboundCap
  /\ outbound \in Seq(OutFrame) /\ Len(outbound) <= QueueCap

HandlerType ==
  /\ pc \in Points /\ left \in 0..3
  /\ msg \in InFrame \cup {NoFrame}
  /\ pc \in {"authorize", "touch", "setpeer"} =>
       msg \in Hello /\ msg.dev \in Devices /\ msg.key \in Keys
  /\ pc \in {"open", "run"} => msg \in Command /\ hasPeer
  /\ pc = "flush" => hasPeer

RegistryType ==
  /\ registry \in [Devices -> Keys \cup {None}]
  /\ known \subseteq Devices \X Keys
  /\ afterRevoke \in [Devices -> Nat]

RestType ==
  /\ expired \in BOOLEAN /\ link \in {"up", "down"}
  /\ produced \in 0..MaxEvents /\ received \in 0..MaxFrames
  /\ wroteSeq \in Nat /\ wroteEv \in Nat
  /\ epoch \in Nat
  /\ executed \in Seq([epoch : Nat, seq : Nat])

\* Every variable has its type, a handler past the checks holds a frame they
\* accepted, a peer is a device with a parseable key, and no queue exceeds its
\* capacity (session.go: secureSender, handleInbound, the two channels).
TypeOK == SenderType /\ ChannelsType /\ HandlerType /\ RegistryType /\ RestType

Sealed(i) == outbound[i].type = "ciphertext"
Numbered(i) == Sealed(i) /\ outbound[i].ev > 0

\* Sealed frames reach the relay with strictly increasing sequence numbers,
\* whatever was dropped, buffered, or sealed for an earlier phone: the phone's
\* receive window never meets a number twice (secureSender.sendLocked, queue).
SealedInOrder ==
  /\ wroteSeq <= seq
  /\ \A i \in DOMAIN outbound : Sealed(i) =>
       wroteSeq < outbound[i].seq /\ outbound[i].seq <= seq
  /\ \A i, j \in DOMAIN outbound : i < j /\ Sealed(i) /\ Sealed(j) =>
       outbound[i].seq < outbound[j].seq

\* Producer events keep the order of their Send calls through the pairing
\* buffer, its flush and the queue, although a producer may call Send at any
\* moment of SetPeer; none is written twice (secureSender.Send, SetPeer).
EventsInOrder ==
  /\ \A i \in DOMAIN outbound : Numbered(i) =>
       wroteEv < outbound[i].ev /\ outbound[i].ev <= produced
  /\ \A i, j \in DOMAIN outbound : i < j /\ Numbered(i) /\ Numbered(j) =>
       outbound[i].ev < outbound[j].ev
  /\ \A k \in DOMAIN buffer :
       /\ wroteEv < buffer[k] /\ buffer[k] <= produced
       /\ \A i \in DOMAIN outbound : Numbered(i) =>
            outbound[i].ev < buffer[k]
  /\ \A k, l \in DOMAIN buffer : k < l =>
       buffer[k] < buffer[l]

\* Until a phone pairs, the buffer is exactly the newest BufferCap events: what
\* the overflow discards is always the oldest (secureSender.Send).
BufferHoldsNewest ==
  ~hasPeer =>
    /\ Len(buffer) = IF produced < BufferCap THEN produced ELSE BufferCap
    /\ \A i \in DOMAIN buffer :
         buffer[i] = produced - Len(buffer) + i

\* Events are sealed only for a key that the registry has held for the device:
\* a hello that is refused, or whose registry write fails, never makes a peer,
\* whatever other processes do to the file meanwhile (handleInbound).
SealedForKnownDevice ==
  /\ hasPeer => <<peerDev, peerKey>> \in known
  /\ \A i \in DOMAIN outbound : Sealed(i) =>
       \E d \in Devices : <<d, outbound[i].to>> \in known

\* Commands of one peer run at most once and in sequence order, although the
\* relay may repeat or reorder frames and the phone may send mobile_hello again
\* at any moment (secureSender.Open, SetPeer).
CommandsOnceInOrder ==
  \A i, j \in DOMAIN executed :
    i < j /\ executed[i].epoch = executed[j].epoch =>
      executed[i].seq < executed[j].seq

\* Revoking a device stops its commands: at most the one that had already
\* passed the check when the registry changed still runs (handleCiphertext).
RevokeStopsCommands == \A d \in Devices : afterRevoke[d] <= 1

\* The handler comes back to its receive and readLoop is not stuck behind a
\* full channel, even when the relay link is gone and the outbound queue full
\* between two replies: queue() never blocks.  The one place where the handler
\* may stay for ever is a command that waits for the agent or for git; as long as
\* it returns from each of those, all this is so (handleInbound, queue, proc.Write,
\* runGitCommand).
HandlerProgress ==
  []<>(pc # "run") =>
    /\ pc # "idle" ~> pc = "idle"
    /\ Len(inbound) = InboundCap ~> Len(inbound) < InboundCap
=============================================================================
