------------------------------ MODULE RelayHub ------------------------------
(***************************************************************************)
(* The relay's hub: one reader and one writer goroutine per websocket, the *)
(* map from session ids to the sockets registered for them, and the        *)
(* bounded queue of each socket.  A frame read from one socket is pushed,  *)
(* without waiting, to every other socket of the same session.             *)
(*                                                                         *)
(* The map is guarded by a read-write lock: forwards share it, so pushes   *)
(* of different readers interleave; register and unregister exclude them.  *)
(* A socket without a ticket is bound to the session its first frame names.*)
(* Frames that are not JSON or name no session are dropped at once and are *)
(* not steps here; payloads are abstracted to a number per sender.         *)
(***************************************************************************)
EXTENDS Naturals, Sequences

CONSTANTS
  Clients,    \* websocket connections
  Sids,       \* session ids
  Roles,      \* the roles sockets claim ("daemon", "mobile")
  NoSid,      \* a socket that is not bound yet
  NoRole,     \* an empty role
  SendCap,    \* capacity of client.send (256 in the code)
  MaxFrames   \* bound: frames read from each socket

ASSUME HubAssumption ==
  /\ SendCap \in Nat \ {0}
  /\ MaxFrames \in Nat
  /\ NoSid \notin Sids
  /\ NoRole \notin Roles

VARIABLES
  pc,        \* the point Handle has reached for each socket
  sid, role, \* client.sessionID, client.role
  sessions,  \* Hub.sessions
  send,      \* client.send
  frame,     \* the frame the reader is working on
  todo,      \* peers its forward has still to visit
  writing,   \* whether the writer goroutine still takes frames
  reads,     \* frames read from each socket
  got        \* history: the last number each socket got from each sender

vars == <<pc, sid, role, sessions, send, frame, todo, writing, reads, got>>
binding == <<sid, role>>

Frame == [kind : {"ping", "data"}, from : Clients, n : 1..MaxFrames,
          sid : Sids, role : Roles \cup {NoRole}]
Pong(c) == [kind |-> "pong", sid |-> sid[c]]
NoFrame == [kind |-> "none"]
Queued == Frame \cup [kind : {"pong"}, sid : Sids]

Points == {"new", "register", "read", "dispatch", "forward", "unregister",
           "closed"}

\* The write lock is free when no forward holds the read lock.
WriteLock == \A c \in Clients : pc[c] # "forward"

\* Mutant of Push: the send waits for room.
PushWaits(p, f) == Len(send[p]) < SendCap /\ send' = [send EXCEPT ![p] = Append(@, f)]

\* The non-blocking channel send: a full queue loses the frame.
Push(p, f) ==
  send' = IF Len(send[p]) < SendCap THEN [send EXCEPT ![p] = Append(@, f)] ELSE send

-----------------------------------------------------------------------------
(* Handle and readLoop *)

\* A valid ticket binds the socket to its session and role before any frame.
AcceptTicket(c, s, r) ==
  /\ pc[c] = "new"
  /\ sid' = [sid EXCEPT ![c] = s]
  /\ role' = [role EXCEPT ![c] = r]
  /\ pc' = [pc EXCEPT ![c] = "register"]
  /\ UNCHANGED <<sessions, send, frame, todo, writing, reads, got>>

\* A socket admitted with the shared token alone binds itself later.
AcceptBare(c) ==
  /\ pc[c] = "new"
  /\ pc' = [pc EXCEPT ![c] = "read"]
  /\ UNCHANGED <<binding, sessions, send, frame, todo, writing, reads, got>>

Members(s) == IF s \in DOMAIN sessions THEN sessions[s] ELSE {}

\* sessions with members M for session s; an empty set has no entry.
SetMembers(s, M) ==
  [t \in (IF M = {} THEN DOMAIN sessions \ {s} ELSE DOMAIN sessions \cup {s}) |->
     IF t = s THEN M ELSE sessions[t]]

Register(c) ==
  /\ pc[c] = "register"
  /\ WriteLock
  /\ sessions' = SetMembers(sid[c], Members(sid[c]) \cup {c})
  /\ pc' = [pc EXCEPT ![c] = IF frame[c] = NoFrame THEN "read" ELSE "dispatch"]
  /\ UNCHANGED <<binding, send, frame, todo, writing, reads, got>>

\* Mutant of Bind: the session of a socket follows the frames it sends.
BindAlways(c, f) ==
  /\ sid' = [sid EXCEPT ![c] = f.sid]
  /\ role' = [role EXCEPT ![c] = f.role]
  /\ pc' = [pc EXCEPT ![c] = IF sid[c] = NoSid THEN "register" ELSE "dispatch"]

\* The first frame of an unbound socket names its session and role for good.
Bind(c, f) ==
  IF sid[c] = NoSid
    THEN /\ sid' = [sid EXCEPT ![c] = f.sid]
         /\ role' = [role EXCEPT ![c] = f.role]
         /\ pc' = [pc EXCEPT ![c] = "register"]
    ELSE /\ pc' = [pc EXCEPT ![c] = "dispatch"]
         /\ UNCHANGED binding

ReadFrame(c, kind, s, r) ==
  /\ pc[c] = "read"
  /\ reads[c] < MaxFrames
  /\ reads' = [reads EXCEPT ![c] = @ + 1]
  /\ LET f == [kind |-> kind, from |-> c, n |-> reads[c] + 1, sid |-> s, role |-> r]
     IN frame' = [frame EXCEPT ![c] = f] /\ Bind(c, f)
  /\ UNCHANGED <<sessions, send, todo, writing, got>>

\* The frame names the socket's session, and its role if it names one.
Accepted(c) ==
  /\ frame[c].sid = sid[c]
  /\ role[c] = NoRole \/ frame[c].role \in {NoRole, role[c]}

\* readLoop goes back to Read.
NextRead(c) ==
  /\ pc' = [pc EXCEPT ![c] = "read"]
  /\ frame' = [frame EXCEPT ![c] = NoFrame]
  /\ UNCHANGED <<binding, sessions, writing, reads, got>>

Refuse(c) ==
  /\ pc[c] = "dispatch" /\ ~Accepted(c)
  /\ NextRead(c)
  /\ UNCHANGED <<send, todo>>

AnswerPing(c) ==
  /\ pc[c] = "dispatch" /\ Accepted(c) /\ frame[c].kind = "ping"
  /\ Push(c, Pong(c))
  /\ NextRead(c)
  /\ UNCHANGED todo

\* forward: takes the read lock and visits the other sockets in any order.
StartForward(c) ==
  /\ pc[c] = "dispatch" /\ Accepted(c) /\ frame[c].kind = "data"
  /\ pc' = [pc EXCEPT ![c] = "forward"]
  /\ todo' = [todo EXCEPT ![c] = Members(sid[c]) \ {c}]
  /\ UNCHANGED <<binding, sessions, send, frame, writing, reads, got>>

ForwardTo(c, p) ==
  /\ pc[c] = "forward" /\ p \in todo[c]
  /\ Push(p, frame[c])
  /\ todo' = [todo EXCEPT ![c] = @ \ {p}]
  /\ UNCHANGED <<pc, binding, sessions, frame, writing, reads, got>>

EndForward(c) ==
  /\ pc[c] = "forward" /\ todo[c] = {}
  /\ NextRead(c)
  /\ UNCHANGED <<send, todo>>

\* Read fails: the peer is gone.  close() unregisters a bound socket.
ReadFails(c) ==
  /\ pc[c] = "read"
  /\ pc' = [pc EXCEPT ![c] = IF sid[c] = NoSid THEN "closed" ELSE "unregister"]
  /\ writing' = [writing EXCEPT ![c] = FALSE]
  /\ UNCHANGED <<binding, sessions, send, frame, todo, reads, got>>

\* Mutant of Unregister: the entry of the session is left when it is empty.
UnregisterLeavesEntry(c) ==
  /\ pc[c] = "unregister" /\ WriteLock
  /\ sessions' = [sessions EXCEPT ![sid[c]] = @ \ {c}]
  /\ pc' = [pc EXCEPT ![c] = "closed"]
  /\ UNCHANGED <<binding, send, frame, todo, writing, reads, got>>

Unregister(c) ==
  /\ pc[c] = "unregister"
  /\ WriteLock
  /\ sessions' = SetMembers(sid[c], Members(sid[c]) \ {c})
  /\ pc' = [pc EXCEPT ![c] = "closed"]
  /\ UNCHANGED <<binding, send, frame, todo, writing, reads, got>>

Reader(c) ==
  \/ Register(c) \/ Refuse(c) \/ AnswerPing(c) \/ StartForward(c)
  \/ (\E p \in Clients : ForwardTo(c, p)) \/ EndForward(c) \/ Unregister(c)

-----------------------------------------------------------------------------
(* writeLoop *)

\* Mutant of Write: frames leave the queue from the wrong end.
WriteLast(c) ==
  /\ writing[c] /\ send[c] # <<>>
  /\ send' = [send EXCEPT ![c] = SubSeq(@, 1, Len(@) - 1)]
  /\ LET f == send[c][Len(send[c])] IN
     got' = IF f.kind = "pong" THEN got ELSE [got EXCEPT ![c][f.from] = f.n]
  /\ UNCHANGED <<pc, binding, sessions, frame, todo, writing, reads>>

Write(c) ==
  /\ writing[c] /\ send[c] # <<>>
  /\ send' = [send EXCEPT ![c] = Tail(@)]
  /\ LET f == Head(send[c]) IN
     got' = IF f.kind = "pong" THEN got ELSE [got EXCEPT ![c][f.from] = f.n]
  /\ UNCHANGED <<pc, binding, sessions, frame, todo, writing, reads>>

\* The writer leaves its loop on a failed write, or waits for ever for the pong
\* of a peer that has vanished; the socket stays registered until Read fails.
WriterStops(c) ==
  /\ writing[c]
  /\ writing' = [writing EXCEPT ![c] = FALSE]
  /\ UNCHANGED <<pc, binding, sessions, send, frame, todo, reads, got>>

-----------------------------------------------------------------------------
Init ==
  /\ pc = [c \in Clients |-> "new"]
  /\ sid = [c \in Clients |-> NoSid]
  /\ role = [c \in Clients |-> NoRole]
  /\ sessions = [s \in {} |-> {}]
  /\ send = [c \in Clients |-> <<>>]
  /\ frame = [c \in Clients |-> NoFrame]
  /\ todo = [c \in Clients |-> {}]
  /\ writing = [c \in Clients |-> TRUE]
  /\ reads = [c \in Clients |-> 0]
  /\ got = [c \in Clients |-> [d \in Clients |-> 0]]

Next == \E c \in Clients :
  \/ AcceptBare(c)
  \/ \E s \in Sids, r \in Roles : AcceptTicket(c, s, r)
  \/ \E kind \in {"ping", "data"}, s \in Sids, r \in Roles \cup {NoRole} :
       ReadFrame(c, kind, s, r)
  \/ ReadFails(c)
  \/ Reader(c)
  \/ Write(c)
  \/ WriterStops(c)

Spec == Init /\ [][Next]_vars

\* Only the goroutines of the readers are scheduled fairly: nothing is assumed
\* of the peers, of the network or of the writers.  Each forward ends, and
\* sync.RWMutex lets no new reader pass a waiting Lock, so a waiting register or
\* unregister is not overtaken for ever.
FairSpec == Spec /\ \A c \in Clients : WF_vars(Reader(c))

-----------------------------------------------------------------------------
(* Properties *)

Bound(c) == sid[c] # NoSid

\* Every variable has its type; a reader past Read holds a frame, a frame in a
\* queue is whole, and no queue exceeds its capacity (hub.go: client, Hub).
TypeOK ==
  /\ pc \in [Clients -> Points]
  /\ sid \in [Clients -> Sids \cup {NoSid}]
  /\ role \in [Clients -> Roles \cup {NoRole}]
  /\ DOMAIN sessions \subseteq Sids
  /\ \A s \in DOMAIN sessions : sessions[s] \subseteq Clients
  /\ send \in [Clients -> Seq(Queued)]
  /\ \A c \in Clients :
       /\ Len(send[c]) <= SendCap
       /\ pc[c] = "new" => ~Bound(c)
       /\ pc[c] \in {"dispatch", "forward"} => frame[c] \in Frame /\ Bound(c)
       /\ pc[c] \in {"register", "unregister"} => Bound(c)
  /\ frame \in [Clients -> Frame \cup {NoFrame}]
  /\ todo \in [Clients -> SUBSET Clients]
  /\ writing \in [Clients -> BOOLEAN]
  /\ reads \in [Clients -> 0..MaxFrames]
  /\ got \in [Clients -> [Clients -> 0..MaxFrames]]

Registered(s) ==
  {c \in Clients :
     sid[c] = s /\ pc[c] \in {"read", "dispatch", "forward", "unregister"}}

\* A socket is in the map, under its own session and no other, exactly from its
\* registration to its removal, and no session keeps an empty entry: a closed
\* socket gets no more frames and leaves nothing behind (register, unregister).
MapIsExact ==
  \A s \in Sids :
    /\ Members(s) = Registered(s)
    /\ s \in DOMAIN sessions => sessions[s] # {}

\* A frame reaches only sockets of the session its sender is bound to, and never
\* the sender itself, although sockets bind themselves, come and go while
\* forwards are under way (forward, readLoop).
SessionsAreIsolated ==
  \A p \in Clients : \A i \in DOMAIN send[p] :
    LET f == send[p][i] IN
      f.kind # "pong" => f.sid = sid[p] /\ sid[f.from] = sid[p] /\ f.from # p

\* What a socket gets from one sender comes in the order the sender sent it,
\* each frame at most once; gaps are frames a full queue lost (forward, send).
FifoPerSender ==
  \A p, c \in Clients :
    /\ \A i \in DOMAIN send[p] :
         send[p][i].kind = "data" /\ send[p][i].from = c => got[p][c] < send[p][i].n
    /\ \A i, j \in DOMAIN send[p] :
         /\ i < j
         /\ send[p][i].kind = "data" /\ send[p][i].from = c
         /\ send[p][j].kind = "data" /\ send[p][j].from = c
         => send[p][i].n < send[p][j].n

\* A peer that stops reading holds up nobody: every frame is passed on or dropped
\* and every socket whose peer is gone leaves the map (forward never waits on a
\* channel while it holds the lock).
HubProgress ==
  \A c \in Clients :
    (pc[c] \in {"register", "dispatch", "forward", "unregister"})
      ~> (pc[c] \in {"read", "closed"})
=============================================================================
