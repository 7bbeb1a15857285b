-------------------------- MODULE PhoneLinkProofs --------------------------
(***************************************************************************)
(* Theorems about PhoneLink, for any number of calls, numbers and          *)
(* attempts: its types, that the socket and the status the phone holds are *)
(* those of its link, that the numbers of its commands rise, and that a    *)
(* phone which lost its link has set the timer that brings it back.        *)
(***************************************************************************)
EXTENDS PhoneLink, TLAPS

-----------------------------------------------------------------------------
(* Types *)

\* What TypeOK rests on: a call that has not begun has no socket, the timer is set
\* while attempts are left, and every save carries a number.
CallsInOrder == \A c \in Connects : c > begun => sock[c] = "unused" /\ pc[c] = "none"
TimerHasAttempts == timer => attempt < MaxAttempts
SavesAreNumbered ==
  \A i \in DOMAIN ops : ops[i].call = "save" => ops[i].by \in 1 .. MaxSeq

TypeInv == TypeOK /\ CallsInOrder /\ TimerHasAttempts /\ SavesAreNumbered

Ops == [call : {"save", "seed", "sequence"}, by : Nat, value : 0 .. MaxSeq]

LEMMA TypesAtFirst == Init => TypeInv
<1> SUFFICES ASSUME Init PROVE TypeInv
  OBVIOUS
<1>1. ops = <<>> /\ wire = <<>> /\ stored \in 0 .. MaxSeq /\ begun \in 0 .. MaxConnects /\ attempt \in 0 .. MaxAttempts
  BY PhoneAssumption DEF Init
<1>2. ops \in Seq(Ops) /\ wire \in Seq(1 .. MaxSeq)
  BY <1>1
<1>3. sock \in [Connects -> Alive \cup {"unused", "closing", "closed"}]
      /\ pc \in [Connects -> Running \cup {"none"}] /\ waits \in [Connects -> Connects \cup {None}]
  BY DEF Init
<1>4. TypeOK
  BY <1>1, <1>2, <1>3 DEF Init, TypeOK, Ops
<1>5. CallsInOrder
  BY DEF Init, CallsInOrder
<1>6. TimerHasAttempts /\ SavesAreNumbered
  BY <1>1 DEF Init, TimerHasAttempts, SavesAreNumbered
<1> QED BY <1>4, <1>5, <1>6 DEF TypeInv

LEMMA ScheduleTypes ==
  ASSUME TypeInv, ScheduleAutoReconnect
  PROVE  timer' \in BOOLEAN /\ attempt' = attempt /\ TimerHasAttempts'
  BY DEF TypeInv, TypeOK, TimerHasAttempts, ScheduleAutoReconnect

\* A read of the storage keeps the queue a queue of calls.
LEMMA ReadTypes ==
  ASSUME NEW s \in Seq(Ops), \A i \in DOMAIN s : s[i].call = "save" => s[i].by \in 1 .. MaxSeq,
         NEW call \in {"seed", "sequence"}, NEW c \in Nat
  PROVE  /\ Append(s, Read(call, c)) \in Seq(Ops)
         /\ \A i \in DOMAIN Append(s, Read(call, c)) :
              Append(s, Read(call, c))[i].call = "save" => Append(s, Read(call, c))[i].by \in 1 .. MaxSeq
<1>1. Read(call, c) \in Ops /\ Read(call, c).call # "save"
  BY PhoneAssumption DEF Read, Ops
<1>2. Append(s, Read(call, c)) \in Seq(Ops)
  BY <1>1
<1>3. ASSUME NEW i \in DOMAIN Append(s, Read(call, c))
      PROVE  (i \in DOMAIN s /\ Append(s, Read(call, c))[i] = s[i]) \/ Append(s, Read(call, c))[i] = Read(call, c)
  BY <1>1, <1>3
<1> QED BY <1>1, <1>2, <1>3

\* So do the saves of a Seal.
LEMMA SealTypes ==
  ASSUME TypeInv, NEW n \in {1, 2}, seq # None, Seal(n)
  PROVE  /\ seq' # None /\ seq' \in 0 .. MaxSeq /\ ops' \in Seq(Ops) /\ SavesAreNumbered'
         /\ \A i \in DOMAIN ops' : (i \in DOMAIN ops /\ ops'[i] = ops[i]) \/ ops'[i].call = "save"
<1> DEFINE saves == [i \in 1 .. n |-> [call |-> "save", by |-> seq + i, value |-> seq + n]]
<1>0. seq \in 0 .. MaxSeq /\ ops \in Seq(Ops) /\ MaxSeq \in Nat
  BY PhoneAssumption DEF TypeInv, TypeOK, Ops
<1>a. CASE UNCHANGED <<seq, ops>>
  BY <1>0, <1>a DEF TypeInv, SavesAreNumbered
<1>b. CASE seq + n <= MaxSeq /\ seq' = seq + n /\ ops' = ops \o saves
  <2>1. \A i \in 1 .. n : /\ seq + i \in 1 .. MaxSeq /\ saves[i] \in Ops
                          /\ saves[i].call = "save" /\ saves[i].by \in 1 .. MaxSeq
    BY <1>0, <1>b DEF Ops
  <2>2. saves \in Seq(Ops) /\ Len(saves) = n
    BY <2>1
  <2> HIDE DEF saves
  <2>3. ops' \in Seq(Ops) /\ Len(ops') = Len(ops) + n
    BY <1>0, <1>b, <2>2
  <2>4. \A i \in DOMAIN ops' :
          \/ i \in DOMAIN ops /\ ops'[i] = ops[i]
          \/ i - Len(ops) \in 1 .. n /\ ops'[i] = saves[i - Len(ops)]
    BY <1>0, <1>b, <2>2, <2>3
  <2>5. SavesAreNumbered'
    BY <2>1, <2>4 DEF TypeInv, SavesAreNumbered
  <2>6. \A i \in DOMAIN ops' : (i \in DOMAIN ops /\ ops'[i] = ops[i]) \/ ops'[i].call = "save"
    BY <2>1, <2>4
  <2>7. seq' # None /\ seq' \in 0 .. MaxSeq
    BY <1>0, <1>b, PhoneAssumption
  <2> QED BY <2>3, <2>5, <2>6, <2>7
<1> QED BY <1>a, <1>b DEF Seal

\* What is left of the queue when its head has been executed.
LEMMA TailTypes ==
  ASSUME TypeInv, ops # <<>>
  PROVE  /\ Head(ops) \in Ops /\ Tail(ops) \in Seq(Ops) /\ 1 \in DOMAIN ops /\ Head(ops) = ops[1]
         /\ Len(Tail(ops)) = Len(ops) - 1
         /\ \A i \in DOMAIN Tail(ops) : i + 1 \in DOMAIN ops /\ Tail(ops)[i] = ops[i + 1]
<1>1. ops \in Seq(Ops)
  BY DEF TypeInv, TypeOK, Ops
<1> QED BY <1>1

LEMMA CloseSocketTypes ==
  ASSUME TypeInv, CloseSocket
  PROVE  /\ channel' = None
         /\ sock' \in [Connects -> Alive \cup {"unused", "closing", "closed"}]
         /\ \A c \in Connects : sock[c] = "unused" => sock'[c] = "unused"
         /\ Current => sock'[channel] = "closing" /\ channel \in Connects
         /\ \A c \in Connects : ~(Current /\ c = channel) => sock'[c] = sock[c]
  BY DEF TypeInv, TypeOK, CloseSocket, Current, Alive

LEMMA ConnectTypes ==
  ASSUME TypeInv, NEW c \in Connects, Connect(c),
         Show("connecting"), paired' \in BOOLEAN, last' \in BOOLEAN,
         ended' \in BOOLEAN, timer' \in BOOLEAN, attempt' \in 0 .. MaxAttempts,
         TimerHasAttempts', byTimer' \subseteq Connects
  PROVE  TypeInv'
<1>1. begun' = begun + 1 /\ c = begun' /\ begun' \in 0 .. MaxConnects
  BY PhoneAssumption DEF Connect, Connects, TypeInv, TypeOK
<1>2. CloseSocket /\ UNCHANGED <<seq, ending, stored>> /\ overlapped' \in BOOLEAN
  BY DEF Connect
<1>w. wire' \in Seq(1 .. MaxSeq)
  <2>1. wire \in Seq(1 .. MaxSeq) /\ <<>> \in Seq(1 .. MaxSeq)
    BY DEF TypeInv, TypeOK
  <2>2. wire' = wire \/ wire' = <<>>
    BY Zenon DEF Connect
  <2> QED BY <2>1, <2>2
<1>3. \E point \in Running : pc' = [pc EXCEPT ![c] = point]
  BY DEF Connect, Prepare, Running
<1>4. pc' \in [Connects -> Running \cup {"none"}] /\ \A d \in Connects : d # c => pc'[d] = pc[d]
  BY <1>3 DEF TypeInv, TypeOK
<1>5. pairing' \in BOOLEAN /\ waits' \in [Connects -> Connects \cup {None}]
  <2>1. CASE Current
    BY <2>1 DEF Connect, TypeInv, TypeOK, Current
  <2>2. CASE ~Current
    BY <2>2 DEF Connect, TypeInv, TypeOK, Prepare
  <2> QED BY <2>1, <2>2
<1>6. ops' = ops \/ ops' = Append(ops, Read("seed", c))
  BY DEF Connect, Prepare
<1>7. ops' \in Seq(Ops) /\ SavesAreNumbered'
  <2>1. ops \in Seq(Ops) /\ c \in Nat
    BY DEF TypeInv, TypeOK, Ops, Connects
  <2>2. CASE ops' = ops
    BY <2>1, <2>2 DEF TypeInv, SavesAreNumbered
  <2>3. CASE ops' = Append(ops, Read("seed", c))
    BY <2>1, <2>3, ReadTypes DEF TypeInv, SavesAreNumbered
  <2> QED BY <1>6, <2>2, <2>3
<1>8. CallsInOrder'
  <2> SUFFICES ASSUME NEW d \in Connects, d > begun' PROVE sock'[d] = "unused" /\ pc'[d] = "none"
    BY DEF CallsInOrder
  <2>1. d # c /\ d > begun
    BY <1>1 DEF Connects, TypeInv, TypeOK
  <2> QED BY <1>2, <1>4, <2>1, CloseSocketTypes DEF TypeInv, CallsInOrder
<1>9. TypeOK'
  BY <1>1, <1>2, <1>w, <1>4, <1>5, <1>7, CloseSocketTypes DEF Show, TypeInv, TypeOK, Ops
<1> QED BY <1>7, <1>8, <1>9 DEF TypeInv

\* Steps that change nothing but the status and the timer.
LEMMA StatusTypes ==
  ASSUME TypeInv, EventChangesNothingElse, UNCHANGED <<seq, ops>>, ended' \in BOOLEAN,
         last' \in BOOLEAN, browsed' \in BOOLEAN,
         status' \in {"idle", "connecting", "ready", "disconnected", "ended", "error"},
         ResetAutoReconnect \/ UNCHANGED reconnection
  PROVE  TypeInv'
<1>1. timer' \in BOOLEAN /\ attempt' \in 0 .. MaxAttempts /\ TimerHasAttempts'
  <2>1. CASE ResetAutoReconnect
    <3>1. timer' = FALSE /\ attempt' = 0
      BY <2>1 DEF ResetAutoReconnect
    <3>2. attempt' \in 0 .. MaxAttempts
      BY <3>1, PhoneAssumption
    <3> QED BY <3>1, <3>2 DEF TimerHasAttempts
  <2>2. CASE UNCHANGED reconnection
    BY <2>2 DEF reconnection, TypeInv, TypeOK, TimerHasAttempts
  <2> QED BY <2>1, <2>2
<1>2. TypeOK'
  BY <1>1 DEF EventChangesNothingElse, calls, TypeInv, TypeOK
<1>3. CallsInOrder' /\ SavesAreNumbered'
  BY DEF EventChangesNothingElse, calls, TypeInv, CallsInOrder, SavesAreNumbered
<1> QED BY <1>1, <1>2, <1>3 DEF TypeInv

\* The storage reads for calls that have begun.
ReadsHaveBegun ==
  \A i \in DOMAIN ops : ops[i].call # "save" => ops[i].by <= begun

LEMMA TypesKept == TypeInv /\ ReadsHaveBegun /\ [Next]_vars => TypeInv'
<1> SUFFICES ASSUME TypeInv, ReadsHaveBegun, [Next]_vars PROVE TypeInv'
  OBVIOUS
<1>1. ASSUME NEW c \in Connects, UserConnects(c) PROVE TypeInv'
  <2>1. timer' = FALSE /\ attempt' = 0 /\ TimerHasAttempts' /\ attempt' \in 0 .. MaxAttempts
    BY <1>1, PhoneAssumption DEF UserConnects, ResetAutoReconnect, TimerHasAttempts
  <2> QED BY <1>1, <2>1, ConnectTypes DEF UserConnects, TypeInv, TypeOK
<1>2. ASSUME NEW c \in Connects, TimerFires(c) PROVE TypeInv'
  <2>1. timer' = FALSE /\ TimerHasAttempts' /\ attempt' \in 0 .. MaxAttempts
    BY <1>2, PhoneAssumption DEF TimerFires, TimerHasAttempts, TypeInv, TypeOK
  <2>3. UNCHANGED <<ended, paired, last>>
    BY <1>2 DEF TimerFires, target
  <2>2. byTimer' \subseteq Connects
    BY <1>2 DEF TimerFires, TypeInv, TypeOK
  <2> QED BY <1>2, <2>1, <2>2, <2>3, ConnectTypes DEF TimerFires, TypeInv, TypeOK
<1>3. ASSUME NEW c \in Connects, SocketWasClosed(c) PROVE TypeInv'
  <2>1. c <= begun
    BY <1>3 DEF SocketWasClosed, TypeInv, CallsInOrder, TypeOK, Connects
  <2>2. waits' \in [Connects -> Connects \cup {None}]
    BY <1>3 DEF SocketWasClosed, TypeInv, TypeOK
  <2>3. CASE ConnectThrows(c) /\ pairing' = TRUE /\ UNCHANGED ops
    <3>1. timer' \in BOOLEAN /\ attempt' \in 0 .. MaxAttempts /\ TimerHasAttempts'
      BY <2>3, ScheduleTypes DEF ConnectThrows, reconnection, TypeInv, TypeOK, TimerHasAttempts
    <3>2. status' \in {"error", "disconnected"} /\ byTimer' \subseteq Connects /\ browsed' = FALSE
          /\ UNCHANGED <<ended, paired, last>>
      BY <2>3 DEF ConnectThrows, Show, target, TypeInv, TypeOK
    <3>3. pc' = [pc EXCEPT ![c] = "none"]
      BY <2>3 DEF ConnectThrows
    <3>4. TypeOK'
      BY <1>3, <2>2, <2>3, <3>1, <3>2, <3>3 DEF SocketWasClosed, TypeInv, TypeOK
    <3>5. CallsInOrder' /\ SavesAreNumbered'
      BY <1>3, <2>3, <3>3 DEF SocketWasClosed, TypeInv, TypeOK, CallsInOrder, SavesAreNumbered
    <3> QED BY <3>1, <3>4, <3>5 DEF TypeInv
  <2>4. CASE Prepare(c, pc[c] = "resuming") /\ UNCHANGED <<controller, byTimer>>
    <3>1. \E point \in {"ticket", "seed"} : pc' = [pc EXCEPT ![c] = point]
      BY <2>4 DEF Prepare
    <3>2. pc' \in [Connects -> Running \cup {"none"}] /\ CallsInOrder'
      BY <1>3, <2>1, <3>1 DEF SocketWasClosed, TypeInv, TypeOK, CallsInOrder, Running
    <3>3. ops' \in Seq(Ops) /\ SavesAreNumbered'
      <4>1. ops \in Seq(Ops) /\ c \in Nat
        BY DEF TypeInv, TypeOK, Ops, Connects
      <4>2. CASE ops' = ops
        BY <4>1, <4>2 DEF TypeInv, SavesAreNumbered
      <4>3. CASE ops' = Append(ops, Read("seed", c))
        BY <4>1, <4>3, ReadTypes DEF TypeInv, SavesAreNumbered
      <4> QED BY <2>4, <4>2, <4>3 DEF Prepare
    <3>4. TypeOK'
      BY <1>3, <2>2, <2>4, <3>2, <3>3 DEF SocketWasClosed, Prepare, controller, shows, reconnection, target, TypeInv, TypeOK, Ops
    <3>5. TimerHasAttempts'
      BY <2>4 DEF controller, reconnection, TypeInv, TimerHasAttempts
    <3> QED BY <3>2, <3>3, <3>4, <3>5 DEF TypeInv
  <2> QED BY <1>3, <2>3, <2>4 DEF SocketWasClosed
<1>4. ASSUME NEW c \in Connects, TicketReturns(c) \/ TicketFails(c) PROVE TypeInv'
  <2>1. pc[c] = "ticket" /\ c <= begun
    BY <1>4 DEF TicketReturns, TicketFails, TypeInv, CallsInOrder, TypeOK, Connects
  <2>2. channel' \in Connects \cup {None} /\ sock' \in [Connects -> Alive \cup {"unused", "closing", "closed"}]
        /\ \A d \in Connects : d # c => sock'[d] = sock[d]
    BY <1>4 DEF TicketReturns, TicketFails, TypeInv, TypeOK, Alive
  <2>3. UNCHANGED <<pairing, seq, waits, begun, ending, storage, wire, overlapped>>
        /\ pc' = [pc EXCEPT ![c] = "none"] /\ byTimer' = byTimer \ {c} /\ UNCHANGED ended
    BY <1>4 DEF TicketReturns, TicketFails, ConnectThrows
  <2>4. timer' \in BOOLEAN /\ attempt' \in 0 .. MaxAttempts /\ TimerHasAttempts'
        /\ status' \in {"connecting", "error", "disconnected"} /\ browsed' = FALSE
        /\ paired' = paired
    <3>1. CASE ConnectThrows(c)
      BY <3>1, ScheduleTypes DEF ConnectThrows, Show, reconnection, target, TypeInv, TypeOK, TimerHasAttempts
    <3>2. CASE Show("connecting") /\ UNCHANGED <<ended, reconnection, paired>>
      BY <3>2 DEF Show, reconnection, TypeInv, TypeOK, TimerHasAttempts
    <3> QED BY <1>4, <3>1, <3>2 DEF TicketReturns, TicketFails
  <2>7. last' \in BOOLEAN
    <3>1. CASE ConnectThrows(c)
      BY <3>1 DEF ConnectThrows, target, TypeInv, TypeOK
    <3>2. CASE last' \in {last, last \/ c \notin byTimer}
      BY <3>2, Zenon DEF TypeInv, TypeOK
    <3> QED BY <1>4, <3>1, <3>2 DEF TicketReturns, TicketFails
  <2>5. TypeOK'
    BY <2>2, <2>3, <2>4, <2>7 DEF storage, TypeInv, TypeOK
  <2>6. CallsInOrder' /\ SavesAreNumbered'
    BY <2>1, <2>2, <2>3 DEF storage, TypeInv, TypeOK, CallsInOrder, SavesAreNumbered
  <2> QED BY <2>4, <2>5, <2>6 DEF TypeInv
<1>5. CASE TimerFiresLate
  <2>1. timer' = FALSE /\ UNCHANGED <<shows, ended, attempt, target, channel, pairing, seq, sock, calls,
                                     ending, storage, wire, overlapped>>
    BY <1>5 DEF TimerFiresLate
  <2>4. timer' \in BOOLEAN /\ attempt' \in 0 .. MaxAttempts
    BY <2>1 DEF TypeInv, TypeOK
  <2>5. UNCHANGED <<status, ended, attempt, paired, last, channel, pairing, seq, sock, pc, byTimer, waits,
                    ending, stored, ops, begun, wire, overlapped, browsed>>
    BY <2>1 DEF shows, target, calls, storage
  <2>2. TypeOK'
    BY <2>4, <2>5 DEF TypeInv, TypeOK
  <2>3. CallsInOrder' /\ SavesAreNumbered'
    BY <2>5 DEF TypeInv, CallsInOrder, SavesAreNumbered
  <2> QED BY <2>1, <2>2, <2>3 DEF TypeInv, TimerHasAttempts
<1>18. CASE OpenHistory
  BY <1>18 DEF OpenHistory, Show, reconnection, calls, storage, TypeInv, TypeOK, CallsInOrder, TimerHasAttempts,
               SavesAreNumbered
<1>6. CASE End
  <2>1. CloseSocket /\ timer' = FALSE /\ attempt' = 0 /\ UNCHANGED <<calls, storage, target>>
    BY <1>6 DEF End, ResetAutoReconnect
  <2>6. wire' \in Seq(1 .. MaxSeq)
    <3>1. wire \in Seq(1 .. MaxSeq) /\ <<>> \in Seq(1 .. MaxSeq)
      BY DEF TypeInv, TypeOK
    <3>2. wire' = wire \/ wire' = <<>>
      BY <1>6, Zenon DEF End
    <3> QED BY <3>1, <3>2
  <2>2. ending' \in Connects \cup {None} /\ status' \in {status, "ended"} /\ seq' \in {seq, None}
        /\ pairing' \in {pairing, FALSE} /\ ended' \in BOOLEAN /\ overlapped' \in BOOLEAN
        /\ browsed' \in BOOLEAN
    BY <1>6 DEF End, Current, Show, shows, TypeInv, TypeOK
  <2>5. attempt' \in 0 .. MaxAttempts /\ channel' = None
        /\ sock' \in [Connects -> Alive \cup {"unused", "closing", "closed"}]
    BY <2>1, CloseSocketTypes, PhoneAssumption
  <2>3. TypeOK'
    BY <2>1, <2>2, <2>5, <2>6 DEF calls, storage, target, TypeInv, TypeOK
  <2>4. CallsInOrder' /\ SavesAreNumbered' /\ TimerHasAttempts'
    BY <2>1, CloseSocketTypes DEF calls, storage, TypeInv, CallsInOrder, SavesAreNumbered, TimerHasAttempts
  <2> QED BY <2>3, <2>4 DEF TypeInv
<1>7. CASE EndReturns
  BY <1>7 DEF EndReturns, Show, reconnection, target, calls, storage, TypeInv, TypeOK, CallsInOrder,
              TimerHasAttempts, SavesAreNumbered
<1>8. CASE SendText
  <2>1. CASE CanResume /\ Seal(1) /\ UNCHANGED shows
    <3>1. seq' \in 0 .. MaxSeq /\ ops' \in Seq(Ops) /\ SavesAreNumbered'
      BY <2>1, SealTypes DEF CanResume
    <3> QED BY <1>8, <2>1, <3>1
        DEF SendText, shows, reconnection, target, calls, TypeInv, TypeOK, CallsInOrder, TimerHasAttempts, Ops
  <2>2. CASE Show("error") /\ UNCHANGED <<seq, ops>>
    BY <1>8, <2>2 DEF SendText, Show, reconnection, target, calls, TypeInv, TypeOK, CallsInOrder,
                      TimerHasAttempts, SavesAreNumbered
  <2> QED BY <1>8, <2>1, <2>2 DEF SendText
<1>9. CASE SaveReturns
  <2>1. ops' = Tail(ops) /\ stored' = Head(ops).value /\ ops # <<>>
        /\ Head(ops).by \in 1 .. MaxSeq /\ stored' \in 0 .. MaxSeq
    BY <1>9, TailTypes DEF SaveReturns, TypeInv, SavesAreNumbered, Ops
  <2>2. wire' \in Seq(1 .. MaxSeq)
    <3>1. wire \in Seq(1 .. MaxSeq)
      BY DEF TypeInv, TypeOK
    <3>2. Append(wire, Head(ops).by) \in Seq(1 .. MaxSeq)
      BY <2>1, <3>1
    <3> QED BY <1>9, <3>1, <3>2 DEF SaveReturns
  <2>3. ops' \in Seq(Ops) /\ SavesAreNumbered'
    BY <2>1, TailTypes DEF TypeInv, SavesAreNumbered
  <2> QED BY <1>9, <2>1, <2>2, <2>3
      DEF SaveReturns, controller, shows, reconnection, target, calls, TypeInv, TypeOK, CallsInOrder, TimerHasAttempts, Ops
<1>10. CASE SeedReturns
  <2> DEFINE c == Head(ops).by
  <2>1. ops # <<>> /\ c \in Nat /\ pc' = [pc EXCEPT ![c] = "sequence"]
        /\ ops' = Append(Tail(ops), Read("sequence", c))
    BY <1>10, TailTypes DEF SeedReturns, Ops
  <2>2. Tail(ops) \in Seq(Ops) /\ \A i \in DOMAIN Tail(ops) : Tail(ops)[i].call = "save" => Tail(ops)[i].by \in 1 .. MaxSeq
    BY <2>1, TailTypes DEF TypeInv, SavesAreNumbered
  <2>3. ops' \in Seq(Ops) /\ SavesAreNumbered'
    BY <2>1, <2>2, ReadTypes DEF SavesAreNumbered
  <2>4. pc' \in [Connects -> Running \cup {"none"}]
    BY <2>1 DEF TypeInv, TypeOK, Running
  <2>6. c <= begun
    BY <1>10, <2>1, TailTypes DEF SeedReturns, ReadsHaveBegun, c
  <2>5. CallsInOrder'
    BY <1>10, <2>1, <2>6 DEF SeedReturns, TypeInv, TypeOK, CallsInOrder, Connects
  <2> QED BY <1>10, <2>3, <2>4, <2>5 DEF SeedReturns, controller, shows, reconnection, target, TypeInv, TypeOK, TimerHasAttempts, Ops
<1>11. CASE SequenceReturns
  <2>1. ops' = Tail(ops) /\ ops # <<>> /\ seq' = stored /\ pc' = [pc EXCEPT ![Head(ops).by] = "ticket"]
    BY <1>11 DEF SequenceReturns
  <2>2. ops' \in Seq(Ops) /\ SavesAreNumbered'
    BY <2>1, TailTypes DEF TypeInv, SavesAreNumbered
  <2>3. pc' \in [Connects -> Running \cup {"none"}]
    BY <2>1 DEF TypeInv, TypeOK, Running
  <2>5. Head(ops).by \in Nat /\ Head(ops).by <= begun
    BY <1>11, <2>1, TailTypes DEF SequenceReturns, ReadsHaveBegun, Ops
  <2>4. CallsInOrder'
    BY <1>11, <2>1, <2>5 DEF SequenceReturns, TypeInv, TypeOK, CallsInOrder, Connects
  <2> QED BY <1>11, <2>1, <2>2, <2>3, <2>4 DEF SequenceReturns, controller, shows, reconnection, target, TypeInv, TypeOK, TimerHasAttempts, Ops
<1>12. ASSUME NEW c \in Connects, \/ DaemonReady(c) \/ PermissionRequested(c) \/ ProcessExit(c)
                                 \/ PairingExpired(c) \/ ErrorEvent(c)
       PROVE TypeInv'
  BY <1>12, StatusTypes DEF DaemonReady, PermissionRequested, ProcessExit, PairingExpired, ErrorEvent, Show,
                            TypeInv, TypeOK
<1>13. ASSUME NEW c \in Connects, SessionStarted(c) PROVE TypeInv'
  <2>1. CASE \E n \in {1, 2} : Seal(n)
    <3>1. seq' \in 0 .. MaxSeq /\ ops' \in Seq(Ops) /\ SavesAreNumbered'
      BY <1>13, <2>1, SealTypes DEF SessionStarted
    <3>2. timer' = FALSE /\ attempt' = 0 /\ status' \in {"ready", "error"} /\ ended' = FALSE
          /\ browsed' = FALSE /\ last' = last
      BY <1>13 DEF SessionStarted, Show, ResetAutoReconnect
    <3>3. attempt' \in 0 .. MaxAttempts
      BY <3>2, PhoneAssumption
    <3> QED BY <1>13, <3>1, <3>2, <3>3
        DEF SessionStarted, EventChangesNothingElse, calls, TypeInv, TypeOK, CallsInOrder, TimerHasAttempts, Ops
  <2>2. CASE UNCHANGED <<seq, ops>>
    BY <1>13, <2>2, StatusTypes DEF SessionStarted, Show, TypeInv, TypeOK
  <2> QED BY <1>13, <2>1, <2>2 DEF SessionStarted
<1>14. ASSUME NEW c \in Connects, SocketOpens(c) \/ SocketCloses(c) PROVE TypeInv'
  BY <1>14 DEF SocketOpens, SocketCloses, controller, shows, reconnection, target, calls, storage, TypeInv, TypeOK, CallsInOrder,
               TimerHasAttempts, SavesAreNumbered, Alive
<1>15. ASSUME NEW c \in Connects, SocketEnds(c) PROVE TypeInv'
  <2>1. sock' = [sock EXCEPT ![c] = "closed"] /\ sock[c] # "unused"
        /\ UNCHANGED <<channel, pairing, seq, calls, ending, storage, wire, overlapped>>
    BY <1>15 DEF SocketEnds, Alive
  <2>2. timer' \in BOOLEAN /\ attempt' \in 0 .. MaxAttempts /\ TimerHasAttempts' /\ ended' = ended
        /\ status' \in {status, "ended", "disconnected"} /\ browsed' \in BOOLEAN
        /\ UNCHANGED <<paired, last>>
    <3>1. CASE Show(IF ended THEN "ended" ELSE "disconnected") /\ UNCHANGED <<ended, target>>
               /\ ScheduleAutoReconnect
      BY <3>1, ScheduleTypes DEF Show, target, TypeInv, TypeOK
    <3>2. CASE UNCHANGED controller
      BY <3>2 DEF controller, shows, reconnection, target, TypeInv, TypeOK, TimerHasAttempts
    <3> QED BY <1>15, <3>1, <3>2 DEF SocketEnds
  <2>3. TypeOK'
    BY <2>1, <2>2 DEF calls, storage, TypeInv, TypeOK
  <2>4. CallsInOrder' /\ SavesAreNumbered'
    BY <2>1 DEF calls, storage, TypeInv, TypeOK, CallsInOrder, SavesAreNumbered
  <2> QED BY <2>2, <2>3, <2>4 DEF TypeInv
<1>16. CASE Killed
  <2>1. timer' = FALSE /\ attempt' \in 0 .. MaxAttempts
    BY <1>16, PhoneAssumption DEF Killed, ResetAutoReconnect
  <2>2. CallsInOrder'
    BY <1>16 DEF Killed, TypeInv, TypeOK, CallsInOrder, Connects
  <2>3. ops' \in Seq(Ops) /\ SavesAreNumbered'
    BY <1>16 DEF Killed, SavesAreNumbered
  <2> QED BY <1>16, <2>1, <2>2, <2>3 DEF Killed, Show, TypeInv, TypeOK, TimerHasAttempts, Ops
<1>17. CASE UNCHANGED vars
  BY <1>17 DEF vars, controller, shows, reconnection, target, calls, storage, TypeInv, TypeOK, CallsInOrder, TimerHasAttempts, SavesAreNumbered
<1> QED BY <1>1, <1>2, <1>3, <1>4, <1>5, <1>6, <1>7, <1>8, <1>9, <1>10, <1>11, <1>12, <1>13, <1>14,
           <1>15, <1>16, <1>17, <1>18 DEF Next, PhoneSteps, DaemonFrames, Network, User

LEMMA ReadsAtFirst == Init => ReadsHaveBegun
  BY DEF Init, ReadsHaveBegun

\* What an Append adds.
LEMMA Appended ==
  ASSUME NEW S, NEW s \in Seq(S), NEW e \in S
  PROVE  \A i \in DOMAIN Append(s, e) :
           (i \in DOMAIN s /\ Append(s, e)[i] = s[i]) \/ (i = Len(s) + 1 /\ Append(s, e)[i] = e)
  OBVIOUS

\* A read of call c, added at the end.
LEMMA ReadAppended ==
  ASSUME NEW s \in Seq(Ops), NEW call \in {"seed", "sequence"}, NEW c \in Nat
  PROVE  /\ Read(call, c).call = call /\ Read(call, c).by = c
         /\ \A i \in DOMAIN Append(s, Read(call, c)) :
              \/ i \in DOMAIN s /\ Append(s, Read(call, c))[i] = s[i]
              \/ i = Len(s) + 1 /\ Append(s, Read(call, c))[i] = Read(call, c)
<1>1. Read(call, c) \in Ops /\ Read(call, c).call = call /\ Read(call, c).by = c
  BY PhoneAssumption DEF Read, Ops
<1> QED BY <1>1, Appended

\* Every waiting call of the storage is one of its three operations.
LEMMA OpsAreCalls ==
  ASSUME TypeInv
  PROVE  \A i \in DOMAIN ops : ops[i].call \in {"save", "seed", "sequence"} /\ ops[i].by \in Nat
<1>1. ops \in Seq(Ops)
  BY DEF TypeInv, TypeOK, Ops
<1>2. \A i \in DOMAIN ops : ops[i] \in Ops
  BY <1>1
<1> QED BY <1>2 DEF Ops

LEMMA ReadsKept == TypeInv /\ ReadsHaveBegun /\ [Next]_vars => ReadsHaveBegun'
<1> SUFFICES ASSUME TypeInv, ReadsHaveBegun, [Next]_vars PROVE ReadsHaveBegun'
  OBVIOUS
<1>1. ops \in Seq(Ops) /\ begun \in Nat
  BY DEF TypeInv, TypeOK, Ops
<1>2. ASSUME NEW c \in Connects, Connect(c) PROVE ReadsHaveBegun'
  <2>1. begun' = begun + 1 /\ c = begun' /\ c \in Nat
    BY <1>2 DEF Connect, Connects
  <2>4. ASSUME NEW i \in DOMAIN ops, ops[i].call # "save" PROVE ops[i].by <= begun'
    <3>1. ops[i].by \in Nat /\ ops[i].by <= begun
      BY <2>4, OpsAreCalls DEF ReadsHaveBegun
    <3> QED BY <1>1, <2>1, <3>1
  <2>2. CASE UNCHANGED ops
    BY <2>2, <2>4 DEF ReadsHaveBegun
  <2>3. CASE ops' = Append(ops, Read("seed", c))
    BY <1>1, <2>1, <2>3, <2>4, ReadAppended DEF ReadsHaveBegun
  <2> QED BY <1>2, <2>2, <2>3 DEF Connect, Prepare
<1>3. ASSUME NEW c \in Connects, SocketWasClosed(c) PROVE ReadsHaveBegun'
  <2>1. c <= begun /\ c \in Nat /\ begun' = begun
    BY <1>3 DEF SocketWasClosed, TypeInv, CallsInOrder, TypeOK, Connects
  <2>2. CASE UNCHANGED ops
    BY <2>1, <2>2 DEF ReadsHaveBegun
  <2>3. CASE ops' = Append(ops, Read("seed", c))
    BY <1>1, <2>1, <2>3, ReadAppended DEF ReadsHaveBegun
  <2> QED BY <1>3, <2>2, <2>3 DEF SocketWasClosed, Prepare
<1>4. CASE SaveReturns \/ SequenceReturns
  <2>1. ops' = Tail(ops) /\ ops # <<>> /\ begun' = begun
    BY <1>4 DEF SaveReturns, SequenceReturns, calls
  <2> QED BY <2>1, TailTypes DEF ReadsHaveBegun
<1>5. CASE SeedReturns
  <2>1. ops # <<>> /\ begun' = begun /\ ops' = Append(Tail(ops), Read("sequence", Head(ops).by))
        /\ Head(ops).by \in Nat /\ Head(ops).by <= begun
    BY <1>5, TailTypes DEF SeedReturns, ReadsHaveBegun, Ops
  <2>2. \A i \in DOMAIN Tail(ops) : Tail(ops)[i].call # "save" => Tail(ops)[i].by <= begun
    BY <2>1, TailTypes DEF ReadsHaveBegun
  <2> QED BY <2>1, <2>2, TailTypes, ReadAppended DEF ReadsHaveBegun
<1>6. ASSUME NEW n \in {1, 2}, seq # None, Seal(n), begun' = begun PROVE ReadsHaveBegun'
  BY <1>6, SealTypes DEF ReadsHaveBegun
<1>7. CASE SendText
  <2>1. CanResume => seq # None
    BY DEF CanResume
  <2>2. CASE UNCHANGED ops
    BY <1>7, <2>2 DEF SendText, calls, ReadsHaveBegun
  <2>3. begun' = begun
    BY <1>7 DEF SendText, calls
  <2> QED BY <1>6, <1>7, <2>1, <2>2, <2>3 DEF SendText
<1>8. ASSUME NEW c \in Connects, SessionStarted(c) PROVE ReadsHaveBegun'
  <2>1. begun' = begun /\ seq # None
    BY <1>8 DEF SessionStarted, EventChangesNothingElse, calls
  <2>2. CASE UNCHANGED ops
    BY <2>1, <2>2 DEF ReadsHaveBegun
  <2> QED BY <1>6, <1>8, <2>1, <2>2 DEF SessionStarted
<1>9. CASE Killed
  BY <1>9 DEF Killed, ReadsHaveBegun
<1>10. CASE UNCHANGED <<ops, begun>>
  BY <1>10 DEF ReadsHaveBegun
<1>11. ASSUME NEW c \in Connects,
              \/ TicketReturns(c) \/ TicketFails(c) \/ SocketOpens(c) \/ SocketEnds(c) \/ SocketCloses(c)
              \/ DaemonReady(c) \/ PermissionRequested(c) \/ ProcessExit(c) \/ PairingExpired(c) \/ ErrorEvent(c)
       PROVE UNCHANGED <<ops, begun>>
  BY <1>11 DEF TicketReturns, TicketFails, SocketOpens, SocketEnds, SocketCloses, DaemonReady, PermissionRequested,
               ProcessExit, PairingExpired, ErrorEvent, EventChangesNothingElse, calls, storage
<1>12. TimerFiresLate \/ EndReturns \/ End \/ OpenHistory \/ UNCHANGED vars => UNCHANGED <<ops, begun>>
  BY DEF TimerFiresLate, EndReturns, End, OpenHistory, vars, calls, storage
<1> QED BY <1>2, <1>3, <1>4, <1>5, <1>7, <1>8, <1>9, <1>10, <1>11, <1>12
        DEF Next, PhoneSteps, DaemonFrames, Network, User, UserConnects, TimerFires

\* Types; the storage is asked in order, and the timer is set only while attempts are
\* left (SessionController, RelayService).
THEOREM LinkTypeCorrect == Spec => []TypeOK
<1>1. TypeInv => TypeOK
  BY DEF TypeInv
<1> QED BY <1>1, TypesAtFirst, TypesKept, ReadsAtFirst, ReadsKept, PTL DEF Spec

-----------------------------------------------------------------------------
(* The link *)

\* One call of connect at a time: what it has left behind, what it awaits and what the
\* phone holds meanwhile.
OneCall == \A c, d \in Connects : pc[c] \in Running /\ pc[d] \in Running => c = d
CallHoldsNothing ==
  \A c \in Connects : pc[c] \in Running => channel = None /\ ending = None /\ (status = "disconnected" => browsed)
CallHasKeys ==
  \A c \in Connects : (pc[c] \in {"seed", "sequence"} => pairing) /\ (pc[c] \in {"ticket", "resuming"} => CanResume)
ReadsAreAwaited ==
  /\ \A i \in DOMAIN ops : ops[i].call # "save" => ops[i].by \in Connects /\ pc[ops[i].by] = ops[i].call
  /\ \A i, j \in DOMAIN ops : ops[i].call # "save" /\ ops[j].call # "save" => i = j
EndHoldsNothing == ending # None => channel = None
AliveIsCurrent == \A c \in Connects : sock[c] \in Alive => channel = c /\ CanResume
LostIsShown == status = "disconnected" => browsed \/ ~Current

\* LinkIsExact needs to know, at every await, what the call will find when it resumes.
Link ==
  /\ OneCall /\ CallHoldsNothing /\ CallHasKeys /\ ReadsAreAwaited
  /\ EndHoldsNothing /\ AliveIsCurrent /\ LostIsShown
LinkInv == overlapped \/ Link

LEMMA LinkAtFirst == Init => LinkInv
  BY PhoneAssumption
  DEF Init, LinkInv, Link, OneCall, CallHoldsNothing, CallHasKeys, ReadsAreAwaited, EndHoldsNothing,
      AliveIsCurrent, LostIsShown, Running, Alive

\* An overlap is never forgotten.
LEMMA OverlapStays == [Next]_vars /\ ~overlapped' => ~overlapped
  BY DEF Next, PhoneSteps, DaemonFrames, Network, User, UserConnects, TimerFires, Connect, SocketWasClosed,
         TicketReturns, TicketFails, TimerFiresLate, OpenHistory, End, EndReturns, SendText, SaveReturns, SeedReturns,
         SequenceReturns, DaemonReady, SessionStarted, PermissionRequested, ProcessExit, PairingExpired,
         ErrorEvent, EventChangesNothingElse, SocketOpens, SocketEnds, SocketCloses, Killed, vars

\* A connect that overlaps nothing finds, and leaves, no socket that is alive.
LEMMA ConnectKeepsLink ==
  ASSUME TypeInv, Link, ~overlapped', NEW c \in Connects, Connect(c), Show("connecting")
  PROVE  Link'
<1>1. ending = None /\ \A d \in Connects : pc[d] \notin Running
  BY DEF Connect
<1>2. CloseSocket /\ UNCHANGED <<seq, ending>>
  BY DEF Connect
<1>3. channel' = None /\ \A d \in Connects : sock'[d] \notin Alive
  <2>1. \A d \in Connects : sock[d] \in Alive => Current /\ d = channel
    BY PhoneAssumption DEF Link, AliveIsCurrent, Current, Connects
  <2>2. \A d \in Connects : ~(Current /\ d = channel) => sock'[d] = sock[d]
    BY <1>2, CloseSocketTypes
  <2>3. Current => sock'[channel] \notin Alive
    BY <1>2, CloseSocketTypes DEF Alive
  <2> QED BY <1>2, <2>1, <2>2, <2>3, CloseSocketTypes
<1>4. pc[c] = "none" /\ \A d \in Connects : pc[d] = "none"
  BY <1>1 DEF TypeInv, TypeOK
<1>5. \A i \in DOMAIN ops : ops[i].call = "save"
  <2>1. \A i \in DOMAIN ops : ops[i].call # "save" => ops[i].call \in Running
    BY OpsAreCalls DEF Running
  <2> QED BY <1>1, <2>1 DEF Link, ReadsAreAwaited
<1>6. ops \in Seq(Ops) /\ c \in Nat
  BY DEF TypeInv, TypeOK, Ops, Connects
<1>7. \/ pc' = [pc EXCEPT ![c] = "closing"] /\ UNCHANGED <<ops, pairing>>
      \/ pc' = [pc EXCEPT ![c] = "resuming"] /\ CanResume /\ UNCHANGED <<ops, pairing>>
      \/ pc' = [pc EXCEPT ![c] = "ticket"] /\ CanResume /\ UNCHANGED ops /\ pairing' = TRUE
      \/ pc' = [pc EXCEPT ![c] = "seed"] /\ ops' = Append(ops, Read("seed", c)) /\ pairing' = TRUE
  BY DEF Connect, Prepare
<1>8. \A d \in Connects : d # c => pc'[d] = "none"
  BY <1>4, <1>7 DEF TypeInv, TypeOK
<1>9. OneCall' /\ CallHoldsNothing' /\ EndHoldsNothing' /\ AliveIsCurrent' /\ LostIsShown'
  BY <1>1, <1>2, <1>3, <1>8 DEF Show, OneCall, CallHoldsNothing, EndHoldsNothing, AliveIsCurrent, LostIsShown, Running
<1>10. CallHasKeys'
  BY <1>2, <1>4, <1>7, <1>8 DEF CallHasKeys, CanResume, TypeInv, TypeOK
<1>11. ReadsAreAwaited'
  <2>1. CASE ops' = ops
    BY <1>5, <2>1 DEF ReadsAreAwaited
  <2>2. CASE pc' = [pc EXCEPT ![c] = "seed"] /\ ops' = Append(ops, Read("seed", c))
    <3>1. pc'[c] = "seed"
      BY <2>2 DEF TypeInv, TypeOK
    <3> QED BY <1>5, <1>6, <2>2, <3>1, ReadAppended DEF ReadsAreAwaited
  <2> QED BY <1>7, <2>1, <2>2
<1> QED BY <1>9, <1>10, <1>11 DEF Link

\* A step that leaves the calls, the keys and the queue of reads as they are.
LEMMA LinkFrame ==
  ASSUME Link, UNCHANGED <<pc, ending, channel>>, CanResume => CanResume', pairing => pairing',
         status' = "disconnected" =>
           \/ browsed' \/ (status = "disconnected" /\ ~browsed)
           \/ ~Current' /\ \A c \in Connects : pc[c] \notin Running,
         \A c \in Connects : sock'[c] \in Alive => sock[c] \in Alive,
         ReadsAreAwaited', Current' => Current
  PROVE  Link'
  BY DEF Link, OneCall, CallHoldsNothing, CallHasKeys, EndHoldsNothing, AliveIsCurrent, LostIsShown

LEMMA LinkKept == TypeInv /\ LinkInv /\ [Next]_vars => LinkInv'
<1> SUFFICES ASSUME TypeInv, Link, [Next]_vars, ~overlapped' PROVE Link'
  BY OverlapStays DEF LinkInv
<1>1. ASSUME NEW c \in Connects, UserConnects(c) \/ TimerFires(c) PROVE Link'
  BY <1>1, ConnectKeepsLink DEF UserConnects, TimerFires
<1>2. ASSUME NEW c \in Connects, SocketWasClosed(c) PROVE Link'
  <2>1. pc[c] \in Running /\ channel = None /\ ending = None /\ (status = "disconnected" => browsed)
    BY <1>2 DEF SocketWasClosed, Link, CallHoldsNothing, Running
  <2>2. \A d \in Connects : d # c => pc[d] = "none"
    BY <2>1 DEF Link, OneCall, TypeInv, TypeOK
  <2>3. Prepare(c, pc[c] = "resuming") /\ UNCHANGED <<controller, byTimer, channel, seq, sock, ending>>
    BY <1>2 DEF SocketWasClosed, Link, CallHasKeys, CanResume
  <2>4. \A i \in DOMAIN ops : ops[i].call = "save"
    <3>1. \A i \in DOMAIN ops : ops[i].call # "save" => ops[i].call \in {"seed", "sequence"}
      BY OpsAreCalls
    <3>2. pc[c] \notin {"seed", "sequence"}
      BY <1>2 DEF SocketWasClosed
    <3> QED BY <2>2, <3>1, <3>2 DEF Link, ReadsAreAwaited
  <2>5. \/ pc' = [pc EXCEPT ![c] = "ticket"] /\ UNCHANGED ops /\ CanResume'
        \/ pc' = [pc EXCEPT ![c] = "seed"] /\ ops' = Append(ops, Read("seed", c))
    BY <1>2, <2>3 DEF SocketWasClosed, Prepare, Link, CallHasKeys, CanResume
  <2>6. \A d \in Connects : d # c => pc'[d] = "none"
    BY <2>2, <2>5 DEF TypeInv, TypeOK
  <2>7. OneCall' /\ CallHoldsNothing' /\ EndHoldsNothing' /\ AliveIsCurrent' /\ LostIsShown'
    BY <2>1, <2>3, <2>6, PhoneAssumption
    DEF OneCall, CallHoldsNothing, EndHoldsNothing, AliveIsCurrent, LostIsShown, Running, controller, shows, Link, Current, Connects
  <2>8. CallHasKeys' /\ ReadsAreAwaited'
    <3>1. ops \in Seq(Ops) /\ c \in Nat /\ pairing' = TRUE
      BY <2>3 DEF TypeInv, TypeOK, Ops, Connects, Prepare
    <3>2. CASE pc' = [pc EXCEPT ![c] = "ticket"] /\ UNCHANGED ops /\ CanResume'
      BY <2>4, <2>6, <3>1, <3>2 DEF CallHasKeys, ReadsAreAwaited, TypeInv, TypeOK
    <3>3. CASE pc' = [pc EXCEPT ![c] = "seed"] /\ ops' = Append(ops, Read("seed", c))
      <4>1. pc'[c] = "seed"
        BY <3>3 DEF TypeInv, TypeOK
      <4> QED BY <2>4, <2>6, <3>1, <3>3, <4>1, ReadAppended DEF CallHasKeys, ReadsAreAwaited
    <3> QED BY <2>5, <3>2, <3>3
  <2> QED BY <2>7, <2>8 DEF Link
<1>3. ASSUME NEW c \in Connects, TicketReturns(c) \/ TicketFails(c) PROVE Link'
  <2>1. pc[c] = "ticket" /\ channel = None /\ ending = None /\ CanResume
    BY <1>3 DEF TicketReturns, TicketFails, Link, CallHoldsNothing, CallHasKeys, Running
  <2>2. \A d \in Connects : d # c => pc[d] = "none"
    BY <2>1 DEF Link, OneCall, TypeInv, TypeOK, Running
  <2>3. pc' = [pc EXCEPT ![c] = "none"] /\ UNCHANGED <<pairing, seq, ending, ops>>
    BY <1>3 DEF TicketReturns, TicketFails, ConnectThrows, storage
  <2>4. \A d \in Connects : pc'[d] = "none"
    BY <2>2, <2>3 DEF TypeInv, TypeOK
  <2>5. \A d \in Connects : sock[d] \notin Alive
    BY <2>1, PhoneAssumption DEF Link, AliveIsCurrent, Connects
  <2>6. \A i \in DOMAIN ops : ops[i].call = "save"
    <3>1. \A i \in DOMAIN ops : ops[i].call # "save" => ops[i].call \in {"seed", "sequence"}
      BY OpsAreCalls
    <3> QED BY <2>1, <2>2, <3>1 DEF Link, ReadsAreAwaited
  <2>7. OneCall' /\ CallHoldsNothing' /\ EndHoldsNothing' /\ CallHasKeys' /\ ReadsAreAwaited'
    BY <2>1, <2>3, <2>4, <2>6 DEF OneCall, CallHoldsNothing, EndHoldsNothing, CallHasKeys, ReadsAreAwaited, Running
  <2>8. AliveIsCurrent' /\ LostIsShown'
    <3>1. CASE TicketReturns(c)
      <4>1. channel' = c /\ sock' = [sock EXCEPT ![c] = "opening"] /\ status' = "connecting"
        BY <2>1, <3>1 DEF TicketReturns, Show, CanResume
      <4>2. \A d \in Connects : sock'[d] \in Alive => d = c
        BY <2>5, <4>1 DEF TypeInv, TypeOK
      <4> QED BY <2>1, <2>3, <4>1, <4>2 DEF AliveIsCurrent, LostIsShown, CanResume
    <3>2. CASE TicketFails(c)
      BY <2>1, <2>5, <3>2 DEF TicketFails, AliveIsCurrent, LostIsShown, Current
    <3> QED BY <1>3, <3>1, <3>2
  <2> QED BY <2>7, <2>8 DEF Link
<1>4. CASE TimerFiresLate
  BY <1>4, LinkFrame DEF TimerFiresLate, shows, calls, storage, CanResume, Current, Link, ReadsAreAwaited
<1>17. CASE OpenHistory
  BY <1>17, LinkFrame DEF OpenHistory, Show, calls, storage, CanResume, Current, Link, ReadsAreAwaited
<1>5. CASE End
  <2>1. \A d \in Connects : pc[d] \notin Running
    BY <1>5 DEF End
  <2>2. CloseSocket /\ UNCHANGED <<pc, ops>>
    BY <1>5 DEF End, calls, storage
  <2>3. channel' = None /\ \A d \in Connects : sock'[d] \notin Alive
    <3>1. \A d \in Connects : sock[d] \in Alive => Current /\ d = channel
      BY PhoneAssumption DEF Link, AliveIsCurrent, Current, Connects
    <3>2. \A d \in Connects : ~(Current /\ d = channel) => sock'[d] = sock[d]
      BY <2>2, CloseSocketTypes
    <3>3. Current => sock'[channel] \notin Alive
      BY <2>2, CloseSocketTypes DEF Alive
    <3> QED BY <2>2, <3>1, <3>2, <3>3, CloseSocketTypes
  <2>4. OneCall' /\ CallHoldsNothing' /\ CallHasKeys'
    BY <2>1, <2>2 DEF OneCall, CallHoldsNothing, CallHasKeys, Running
  <2>5. EndHoldsNothing' /\ AliveIsCurrent' /\ LostIsShown'
    BY <2>3 DEF EndHoldsNothing, AliveIsCurrent, LostIsShown, Current
  <2>6. ReadsAreAwaited'
    BY <2>2 DEF Link, ReadsAreAwaited
  <2> QED BY <2>4, <2>5, <2>6 DEF Link
<1>6. CASE EndReturns
  <2>1. ending # None /\ ending' = None /\ channel = None /\ status' = "ended"
        /\ UNCHANGED <<channel, sock, pc, ops>>
    BY <1>6 DEF EndReturns, Show, Link, EndHoldsNothing, calls, storage
  <2>2. \A d \in Connects : pc[d] \notin Running /\ sock[d] \notin Alive
    BY <2>1, PhoneAssumption DEF Link, CallHoldsNothing, AliveIsCurrent, Connects
  <2> QED BY <2>1, <2>2 DEF Link, OneCall, CallHoldsNothing, CallHasKeys, ReadsAreAwaited, EndHoldsNothing,
                            AliveIsCurrent, LostIsShown, Running
<1>7. ASSUME NEW n \in {1, 2}, seq # None, Seal(n), pairing' = pairing,
             UNCHANGED <<pc, ending, channel, sock>>, status' # "disconnected" \/ UNCHANGED shows
      PROVE Link'
  <2>1. seq' # None
    BY <1>7, SealTypes
  <2>2. ReadsAreAwaited'
    BY <1>7, SealTypes DEF Link, ReadsAreAwaited
  <2> QED BY <1>7, <2>1, <2>2, LinkFrame DEF CanResume, Current, shows
<1>8. CASE SendText
  <2>1. UNCHANGED <<pc, ending, channel, sock, pairing>> /\ status = "ready"
    BY <1>8 DEF SendText, calls
  <2>2. CASE CanResume /\ Seal(1) /\ UNCHANGED shows
    BY <1>7, <2>1, <2>2 DEF CanResume
  <2>3. CASE Show("error") /\ UNCHANGED <<seq, ops>>
    BY <2>1, <2>3, LinkFrame DEF Show, CanResume, Current, Link, ReadsAreAwaited
  <2> QED BY <1>8, <2>2, <2>3 DEF SendText
<1>9. CASE SaveReturns
  <2>1. ops # <<>> /\ ops' = Tail(ops)
        /\ UNCHANGED <<pc, ending, channel, sock, pairing, seq, status, browsed>>
    BY <1>9 DEF SaveReturns, calls, controller, shows
  <2>2. ReadsAreAwaited'
    <3>1. \A i \in DOMAIN ops' : i \in Nat /\ i + 1 \in DOMAIN ops /\ ops'[i] = ops[i + 1]
      BY <2>1, TailTypes
    <3> QED BY <2>1, <3>1 DEF Link, ReadsAreAwaited
  <2> QED BY <2>1, <2>2, LinkFrame DEF CanResume, Current
<1>10. CASE SeedReturns \/ SequenceReturns
  <2> DEFINE c == Head(ops).by
             next == IF Head(ops).call = "seed" THEN "sequence" ELSE "ticket"
  <2>1. ops # <<>> /\ Head(ops).call \in {"seed", "sequence"} /\ pc' = [pc EXCEPT ![c] = next]
        /\ UNCHANGED <<ending, channel, sock, pairing, status, browsed>>
    BY <1>10 DEF SeedReturns, SequenceReturns, controller, shows
  <2>2. c \in Connects /\ pc[c] = Head(ops).call
    BY <2>1, TailTypes DEF Link, ReadsAreAwaited
  <2>3. pairing /\ channel = None /\ ending = None /\ (status = "disconnected" => browsed)
    BY <2>1, <2>2 DEF Link, CallHasKeys, CallHoldsNothing, Running
  <2>4. \A d \in Connects : d # c => pc[d] = "none" /\ pc'[d] = "none"
    BY <2>1, <2>2 DEF Link, OneCall, TypeInv, TypeOK, Running
  <2>5. \A i \in DOMAIN Tail(ops) : Tail(ops)[i].call = "save"
    <3>1. \A i \in DOMAIN Tail(ops) : i \in Nat /\ i + 1 \in DOMAIN ops /\ i + 1 # 1 /\ Tail(ops)[i] = ops[i + 1]
      BY <2>1, TailTypes
    <3> QED BY <2>1, <3>1, TailTypes DEF Link, ReadsAreAwaited
  <2>6. pc'[c] = next
    BY <2>1, <2>2 DEF TypeInv, TypeOK
  <2>7. \A d \in Connects : sock[d] \notin Alive
    BY <2>3, PhoneAssumption DEF Link, AliveIsCurrent, Connects
  <2>8. OneCall' /\ CallHoldsNothing' /\ EndHoldsNothing' /\ AliveIsCurrent' /\ LostIsShown'
    BY <2>1, <2>3, <2>4, <2>7 DEF OneCall, CallHoldsNothing, EndHoldsNothing, AliveIsCurrent, LostIsShown, Running
  <2>9. CASE SeedReturns
    <3>1. ops' = Append(Tail(ops), Read("sequence", c)) /\ next = "sequence" /\ seq' = seq
      BY <2>9 DEF SeedReturns
    <3>2. CallHasKeys'
      BY <2>1, <2>3, <2>4, <2>6, <3>1 DEF CallHasKeys
    <3>3. Tail(ops) \in Seq(Ops) /\ c \in Nat
      BY <2>1, <2>2, TailTypes DEF Connects
    <3> HIDE DEF c, next
    <3>4. ReadsAreAwaited'
      BY <2>2, <2>5, <2>6, <3>1, <3>3, ReadAppended DEF ReadsAreAwaited
    <3> QED BY <2>8, <3>2, <3>4 DEF Link
  <2>10. CASE SequenceReturns
    <3>1. ops' = Tail(ops) /\ next = "ticket" /\ seq' # None
      BY <2>10, PhoneAssumption DEF SequenceReturns, TypeInv, TypeOK
    <3>2. CallHasKeys' /\ ReadsAreAwaited'
      BY <2>1, <2>3, <2>4, <2>5, <2>6, <3>1 DEF CallHasKeys, ReadsAreAwaited, CanResume
    <3> QED BY <2>8, <3>2 DEF Link
  <2> QED BY <1>10, <2>9, <2>10
<1>11. ASSUME NEW c \in Connects, \/ DaemonReady(c) \/ PermissionRequested(c) \/ ProcessExit(c)
                                 \/ PairingExpired(c) \/ ErrorEvent(c)
       PROVE Link'
  <2>1. UNCHANGED <<pc, ending, channel, sock, pairing, seq, ops>> /\ status' # "disconnected"
    BY <1>11 DEF DaemonReady, PermissionRequested, ProcessExit, PairingExpired, ErrorEvent, Show,
                 EventChangesNothingElse, calls
  <2> QED BY <2>1, LinkFrame DEF CanResume, Current, Link, ReadsAreAwaited
<1>12. ASSUME NEW c \in Connects, SessionStarted(c) PROVE Link'
  <2>1. UNCHANGED <<pc, ending, channel, sock, pairing>> /\ status' # "disconnected" /\ seq # None
    BY <1>12 DEF SessionStarted, Show, EventChangesNothingElse, calls
  <2>2. CASE UNCHANGED <<seq, ops>>
    BY <2>1, <2>2, LinkFrame DEF CanResume, Current, Link, ReadsAreAwaited
  <2> QED BY <1>7, <1>12, <2>1, <2>2 DEF SessionStarted
<1>13. ASSUME NEW c \in Connects, SocketOpens(c) \/ SocketCloses(c) PROVE Link'
  <2>1. UNCHANGED <<pc, ending, channel, pairing, seq, ops, status, browsed>>
        /\ \A d \in Connects : sock'[d] \in Alive => sock[d] \in Alive
    BY <1>13 DEF SocketOpens, SocketCloses, calls, controller, shows, storage, Alive, TypeInv, TypeOK
  <2>2. Current' => Current
    BY <2>1 DEF Current, TypeInv, TypeOK
  <2> QED BY <2>1, <2>2, LinkFrame DEF CanResume, Link, ReadsAreAwaited
<1>14. ASSUME NEW c \in Connects, SocketEnds(c) PROVE Link'
  <2>1. UNCHANGED <<pc, ending, channel, pairing, seq, ops>> /\ sock' = [sock EXCEPT ![c] = "closed"] /\ channel = c
    BY <1>14 DEF SocketEnds, calls, storage, Link, AliveIsCurrent
  <2>2. ~Current' /\ \A d \in Connects : pc[d] \notin Running
    BY <2>1, PhoneAssumption DEF Current, Alive, TypeInv, TypeOK, Link, CallHoldsNothing, Connects
  <2>3. \A d \in Connects : sock'[d] \in Alive => sock[d] \in Alive
    BY <2>1 DEF TypeInv, TypeOK, Alive
  <2> QED BY <2>1, <2>2, <2>3, LinkFrame DEF CanResume, Link, ReadsAreAwaited
<1>15. CASE Killed
  <2>1. channel' = None /\ ending' = None /\ ops' = <<>> /\ status' = "idle"
        /\ \A d \in Connects : pc'[d] = "none"
    BY <1>15 DEF Killed, Show
  <2>2. \A d \in Connects : sock'[d] \notin Alive
    BY <1>15 DEF Killed, TypeInv, TypeOK, CallsInOrder, Connects, Alive
  <2> QED BY <2>1, <2>2 DEF Link, OneCall, CallHoldsNothing, CallHasKeys, ReadsAreAwaited, EndHoldsNothing,
                            AliveIsCurrent, LostIsShown, Running
<1>16. CASE UNCHANGED vars
  <2>1. UNCHANGED <<pc, ending, channel, sock, pairing, seq, ops, status, browsed>>
    BY <1>16 DEF vars, controller, shows, calls, storage
  <2> QED BY <2>1, LinkFrame DEF CanResume, Current, Link, ReadsAreAwaited
<1> QED BY <1>1, <1>2, <1>3, <1>4, <1>5, <1>6, <1>8, <1>9, <1>10, <1>11, <1>12, <1>13, <1>14, <1>15, <1>16, <1>17
        DEF Next, PhoneSteps, DaemonFrames, Network, User

\* Unless calls overlap, the phone has no socket but the one it holds and shows a lost
\* link only when it has none or a stored chat was opened, whatever it awaits and whenever
\* it is killed (LinkIsExact).
THEOREM LinkIsExactAlways == Spec => []LinkIsExact
<1>1. TypeInv /\ LinkInv => LinkIsExact
  BY DEF LinkInv, Link, LinkIsExact, NoOrphanSocket, DisconnectedIsTrue, AliveIsCurrent, LostIsShown, CallHoldsNothing
<1> QED BY <1>1, TypesAtFirst, TypesKept, ReadsAtFirst, ReadsKept, LinkAtFirst, LinkKept, PTL DEF Spec

-----------------------------------------------------------------------------
(* The numbers of the commands *)

Save(k) == ops[k].call = "save"

\* What was sent is stored; what waits to be stored is above what was sent, rises, and
\* is at most the counter, and no save waits behind a read.
WireRises == \A i, j \in DOMAIN wire : i < j => wire[i] < wire[j]
WireIsStored == \A i \in DOMAIN wire : wire[i] <= stored
SavesFollow ==
  \A k \in DOMAIN ops : Save(k) =>
    /\ \A i \in DOMAIN wire : wire[i] < ops[k].by
    /\ ops[k].by <= ops[k].value /\ stored <= ops[k].value
    /\ seq # None => ops[k].value <= seq
SavesRise ==
  \A k, l \in DOMAIN ops : k < l /\ Save(l) =>
    Save(k) /\ ops[k].by < ops[l].by /\ ops[k].value <= ops[l].value
CounterCovers == seq # None => stored <= seq /\ pairing
NoCounterWhileReading ==
  \A c \in Connects : pc[c] \in {"closing", "seed", "sequence"} => seq = None

\* A phone that is killed goes on from the stored number: CommandsFresh needs the order
\* of the storage, not only of the counter.
Fresh ==
  /\ WireRises /\ WireIsStored /\ SavesFollow /\ SavesRise /\ CounterCovers
  /\ NoCounterWhileReading
FreshInv == overlapped \/ Fresh

LEMMA FreshAtFirst == Init => FreshInv
  BY PhoneAssumption
  DEF Init, FreshInv, Fresh, WireRises, WireIsStored, SavesFollow, SavesRise, CounterCovers,
      NoCounterWhileReading

\* The numbers are numbers.
LEMMA OpsNumbers ==
  ASSUME TypeInv
  PROVE  /\ ops \in Seq(Ops) /\ stored \in Nat /\ seq \in Nat \cup {None}
         /\ DOMAIN ops = 1 .. Len(ops) /\ Len(ops) \in Nat
         /\ \A i \in DOMAIN ops : ops[i].by \in Nat /\ ops[i].value \in Nat
         /\ \A i \in DOMAIN wire : wire[i] \in Nat
<1>1. /\ ops \in Seq(Ops) /\ stored \in Nat /\ seq \in Nat \cup {None} /\ wire \in Seq(1 .. MaxSeq)
      /\ MaxSeq \in Nat
  BY PhoneAssumption DEF TypeInv, TypeOK, Ops
<1>2. \A i \in DOMAIN ops : ops[i] \in Ops
  BY <1>1
<1>3. \A i \in DOMAIN ops : ops[i].by \in Nat /\ ops[i].value \in Nat
  BY <1>1, <1>2 DEF Ops
<1>4. \A i \in DOMAIN wire : wire[i] \in 1 .. MaxSeq
  BY <1>1
<1> QED BY <1>1, <1>3, <1>4

\* A step that leaves the storage alone, and the counter unless it is dropped.
LEMMA FreshFrame ==
  ASSUME Fresh, UNCHANGED <<wire, stored, ops>>, seq' = None \/ (seq' = seq /\ (pairing => pairing')),
         NoCounterWhileReading'
  PROVE  Fresh'
<1>1. WireRises' /\ WireIsStored' /\ SavesRise'
  BY DEF Fresh, WireRises, WireIsStored, SavesRise, Save
<1>2. SavesFollow' /\ CounterCovers'
  BY DEF Fresh, SavesFollow, CounterCovers, Save
<1> QED BY <1>1, <1>2 DEF Fresh

\* A read may wait behind everything.
LEMMA FreshRead ==
  ASSUME TypeInv, Fresh, NEW call \in {"seed", "sequence"}, NEW c \in Nat,
         ops' = Append(ops, Read(call, c)),
         UNCHANGED <<wire, stored, seq>>, pairing => pairing', NoCounterWhileReading'
  PROVE  Fresh'
<1>1. /\ Read(call, c).call # "save"
      /\ \A i \in DOMAIN ops' :
           \/ i \in DOMAIN ops /\ ops'[i] = ops[i]
           \/ i = Len(ops) + 1 /\ ops'[i] = Read(call, c)
  BY ReadAppended, OpsNumbers
<1>2. \A i \in DOMAIN ops' : ops'[i].call = "save" => i \in DOMAIN ops /\ ops'[i] = ops[i]
  BY <1>1
<1>3. ASSUME NEW k \in DOMAIN ops', NEW l \in DOMAIN ops', k < l, ops'[l].call = "save"
      PROVE  k \in DOMAIN ops /\ ops'[k] = ops[k]
  BY <1>1, <1>2, <1>3, OpsNumbers
<1>4. SavesRise'
  BY <1>2, <1>3 DEF Fresh, SavesRise, Save
<1>5. SavesFollow'
  BY <1>2 DEF Fresh, SavesFollow, Save
<1> QED BY <1>4, <1>5 DEF Fresh, WireRises, WireIsStored, CounterCovers

\* The numbers of a Seal are above every number before.
LEMMA FreshSeal ==
  ASSUME TypeInv, Link, Fresh, ~overlapped, NEW n \in {1, 2}, seq # None, Seal(n),
         UNCHANGED <<wire, stored, pairing, pc>>
  PROVE  Fresh'
<1> DEFINE saves == [i \in 1 .. n |-> [call |-> "save", by |-> seq + i, value |-> seq + n]]
<1>1. /\ ops \in Seq(Ops) /\ stored \in Nat /\ seq \in Nat
      /\ DOMAIN ops = 1 .. Len(ops) /\ Len(ops) \in Nat
      /\ \A i \in DOMAIN ops : ops[i].by \in Nat /\ ops[i].value \in Nat
      /\ \A i \in DOMAIN wire : wire[i] \in Nat
  BY OpsNumbers
<1>2. ops' = ops \o saves /\ seq' = seq + n /\ seq + n <= MaxSeq
  BY DEF Seal
<1>3. \A i \in 1 .. n : /\ saves[i].call = "save" /\ saves[i].by = seq + i
                        /\ saves[i].value = seq + n
  OBVIOUS
<1>4. saves \in Seq(Ops) /\ Len(saves) = n
  <2>1. \A i \in 1 .. n : saves[i] \in Ops
    BY <1>1, <1>2, PhoneAssumption DEF Ops
  <2> QED BY <2>1
<1> HIDE DEF saves
<1>5. /\ DOMAIN ops' = 1 .. (Len(ops) + n)
      /\ \A i \in DOMAIN ops' :
           \/ i \in DOMAIN ops /\ ops'[i] = ops[i]
           \/ /\ i > Len(ops) /\ i - Len(ops) \in 1 .. n
              /\ ops'[i] = saves[i - Len(ops)]
  BY <1>1, <1>2, <1>4
<1>6. \A k \in DOMAIN ops : Save(k) /\ ops[k].value <= seq /\ ops[k].by <= seq
  <2>1. SUFFICES ASSUME NEW k \in DOMAIN ops PROVE Save(k)
    BY <1>1 DEF Fresh, SavesFollow
  <2>2. SUFFICES ASSUME ~Save(k) PROVE FALSE
    OBVIOUS
  <2>3. ops[k].by \in Connects /\ pc[ops[k].by] \in {"seed", "sequence"}
    BY <2>2, OpsAreCalls DEF Link, ReadsAreAwaited, Save
  <2> QED BY <2>3 DEF Fresh, NoCounterWhileReading
<1>7. \A i \in DOMAIN wire : wire[i] <= seq
  BY <1>1 DEF Fresh, WireIsStored, CounterCovers
<1>8. ASSUME NEW k \in DOMAIN ops', k \notin DOMAIN ops
      PROVE  /\ ops'[k].call = "save" /\ ops'[k].by = seq + (k - Len(ops))
             /\ k > Len(ops) /\ k - Len(ops) \in 1 .. n /\ ops'[k].value = seq + n
  BY <1>3, <1>5, <1>8
<1>9. \A k \in DOMAIN ops : k \in DOMAIN ops' /\ ops'[k] = ops[k]
  BY <1>1, <1>5
<1>10. SavesFollow'
  <2>1. SUFFICES ASSUME NEW k \in DOMAIN ops'
                 PROVE  /\ \A i \in DOMAIN wire : wire[i] < ops'[k].by
                        /\ ops'[k].by <= ops'[k].value /\ stored <= ops'[k].value
                        /\ ops'[k].value <= seq'
    BY DEF SavesFollow, Save
  <2>2. CASE k \in DOMAIN ops
    <3>1. /\ \A i \in DOMAIN wire : wire[i] < ops[k].by
          /\ ops[k].by <= ops[k].value /\ stored <= ops[k].value /\ ops[k].value <= seq
      BY <1>6, <2>2 DEF Fresh, SavesFollow
    <3> QED BY <1>1, <1>2, <1>9, <2>2, <3>1
  <2>3. CASE k \notin DOMAIN ops
    <3>1. stored <= seq
      BY DEF Fresh, CounterCovers
    <3> QED BY <1>1, <1>2, <1>7, <1>8, <2>3, <3>1
  <2> QED BY <2>2, <2>3
<1>11. SavesRise'
  <2>1. SUFFICES ASSUME NEW k \in DOMAIN ops', NEW l \in DOMAIN ops', k < l
                 PROVE  /\ ops'[k].call = "save" /\ ops'[k].by < ops'[l].by
                        /\ ops'[k].value <= ops'[l].value
    BY DEF SavesRise, Save
  <2>2. CASE l \in DOMAIN ops
    <3>1. k \in DOMAIN ops
      BY <1>1, <1>5, <2>1, <2>2
    <3> QED BY <1>6, <1>9, <2>1, <2>2, <3>1 DEF Fresh, SavesRise, Save
  <2>3. CASE l \notin DOMAIN ops /\ k \in DOMAIN ops
    BY <1>1, <1>6, <1>8, <1>9, <2>3 DEF Save
  <2>4. CASE l \notin DOMAIN ops /\ k \notin DOMAIN ops
    BY <1>1, <1>5, <1>8, <2>1, <2>4
  <2> QED BY <1>1, <2>2, <2>3, <2>4
<1>12. CounterCovers' /\ NoCounterWhileReading'
  <2>1. stored <= seq /\ pairing
    BY DEF Fresh, CounterCovers
  <2>2. \A c \in Connects : pc[c] \notin {"closing", "seed", "sequence"}
    BY DEF Fresh, NoCounterWhileReading
  <2> QED BY <1>1, <1>2, <2>1, <2>2 DEF CounterCovers, NoCounterWhileReading
<1> QED BY <1>10, <1>11, <1>12 DEF Fresh, WireRises, WireIsStored

\* The head of the queue is a save: it becomes the stored number, and is sent or dropped.
LEMMA FreshSave ==
  ASSUME TypeInv, Fresh, SaveReturns
  PROVE  Fresh'
<1>1. /\ ops # <<>> /\ ops' = Tail(ops) /\ Head(ops).call = "save" /\ stored' = Head(ops).value
      /\ UNCHANGED <<seq, pairing, pc>>
      /\ wire' = wire \/ wire' = Append(wire, Head(ops).by)
  BY DEF SaveReturns, calls
<1>2. /\ 1 \in DOMAIN ops /\ Head(ops) = ops[1]
      /\ \A i \in DOMAIN ops' : /\ i \in Nat /\ i + 1 \in DOMAIN ops /\ 1 < i + 1
                                /\ ops'[i] = ops[i + 1]
  BY <1>1, TailTypes, OpsNumbers
<1>3. /\ stored \in Nat /\ seq \in Nat \cup {None} /\ ops[1].by \in Nat /\ ops[1].value \in Nat
      /\ \A i \in DOMAIN wire : wire[i] \in Nat
  BY <1>2, OpsNumbers
<1>4. /\ \A i \in DOMAIN wire : wire[i] < ops[1].by /\ wire[i] <= ops[1].value
      /\ ops[1].by <= ops[1].value
      /\ seq # None => ops[1].value <= seq
  BY <1>1, <1>2, <1>3 DEF Fresh, SavesFollow, Save
<1>5. wire \in Seq(Nat)
  BY PhoneAssumption DEF TypeInv, TypeOK
<1>6. \A i \in DOMAIN wire' :
        \/ i \in DOMAIN wire /\ wire'[i] = wire[i]
        \/ i = Len(wire) + 1 /\ wire'[i] = ops[1].by
  <2>1. CASE wire' = wire
    BY <2>1
  <2>2. CASE wire' = Append(wire, ops[1].by)
    BY <1>3, <1>5, <2>2, Appended
  <2> QED BY <1>1, <1>2, <2>1, <2>2
<1>7. WireRises'
  <2>1. SUFFICES ASSUME NEW i \in DOMAIN wire', NEW j \in DOMAIN wire', i < j
                 PROVE  wire'[i] < wire'[j]
    BY DEF WireRises
  <2>2. DOMAIN wire = 1 .. Len(wire) /\ Len(wire) \in Nat
    BY <1>5
  <2>3. i \in DOMAIN wire /\ wire'[i] = wire[i]
    BY <1>6, <2>1, <2>2
  <2>4. CASE j \in DOMAIN wire /\ wire'[j] = wire[j]
    BY <2>1, <2>3, <2>4 DEF Fresh, WireRises
  <2>5. CASE j = Len(wire) + 1 /\ wire'[j] = ops[1].by
    BY <1>4, <2>3, <2>5
  <2> QED BY <1>6, <2>4, <2>5
<1>8. WireIsStored'
  BY <1>1, <1>2, <1>4, <1>6 DEF WireIsStored
<1>9. \A k, l \in DOMAIN ops' : k < l => k + 1 < l + 1
  BY <1>2
<1>10. SavesRise'
  BY <1>2, <1>9 DEF Fresh, SavesRise, Save
<1>11. SavesFollow'
  <2>1. SUFFICES ASSUME NEW k \in DOMAIN ops', ops'[k].call = "save"
                 PROVE  /\ \A i \in DOMAIN wire' : wire'[i] < ops'[k].by
                        /\ ops'[k].by <= ops'[k].value /\ stored' <= ops'[k].value
                        /\ seq # None => ops'[k].value <= seq
    BY <1>1 DEF SavesFollow, Save
  <2>2. /\ \A i \in DOMAIN wire : wire[i] < ops'[k].by
        /\ ops'[k].by <= ops'[k].value
        /\ seq # None => ops'[k].value <= seq
    BY <1>2, <2>1 DEF Fresh, SavesFollow, Save
  <2>3. ops[1].by < ops'[k].by /\ ops[1].value <= ops'[k].value
    BY <1>2, <2>1 DEF Fresh, SavesRise, Save
  <2> QED BY <1>1, <1>2, <1>6, <2>2, <2>3
<1>12. CounterCovers' /\ NoCounterWhileReading'
  BY <1>1, <1>2, <1>4 DEF Fresh, CounterCovers, NoCounterWhileReading
<1> QED BY <1>7, <1>8, <1>10, <1>11, <1>12 DEF Fresh

\* The queue without its head, when that was a read: nothing else waits.
LEMMA ReadWasLast ==
  ASSUME TypeInv, Link, Fresh, ops # <<>>, Head(ops).call # "save"
  PROVE  Tail(ops) = <<>> /\ Head(ops).by \in Connects /\ pc[Head(ops).by] = Head(ops).call
<1>1. 1 \in DOMAIN ops /\ Head(ops) = ops[1] /\ ~Save(1)
  BY TailTypes DEF Save
<1>2. \A k \in DOMAIN ops : k = 1
  <2>1. SUFFICES ASSUME NEW k \in DOMAIN ops, k # 1 PROVE FALSE
    OBVIOUS
  <2>2. 1 < k
    BY <2>1, OpsNumbers
  <2>3. ~Save(k)
    BY <1>1, <2>2 DEF Fresh, SavesRise
  <2> QED BY <1>1, <2>1, <2>3 DEF Link, ReadsAreAwaited, Save
<1>3. Len(ops) = 1
  BY <1>1, <1>2, OpsNumbers
<1>4. Tail(ops) = <<>>
  BY <1>3, OpsNumbers
<1> QED BY <1>1, <1>4 DEF Link, ReadsAreAwaited, Save

LEMMA FreshKept == TypeInv /\ LinkInv /\ FreshInv /\ [Next]_vars => FreshInv'
<1> SUFFICES ASSUME TypeInv, Link, Fresh, [Next]_vars, ~overlapped, ~overlapped' PROVE Fresh'
  BY OverlapStays DEF LinkInv, FreshInv
<1>0. pc \in [Connects -> Running \cup {"none"}]
  BY DEF TypeInv, TypeOK
<1>1. ASSUME NEW c \in Connects, Connect(c) PROVE Fresh'
  <2>1. c \in Nat /\ UNCHANGED <<seq, wire, stored>> /\ (pairing => pairing')
    BY <1>1 DEF Connect, Connects, Prepare
  <2>2. \/ pc' = [pc EXCEPT ![c] = "closing"] /\ ~CanResume /\ UNCHANGED ops
        \/ pc' = [pc EXCEPT ![c] = "resuming"] /\ UNCHANGED ops
        \/ pc' = [pc EXCEPT ![c] = "ticket"] /\ UNCHANGED ops
        \/ pc' = [pc EXCEPT ![c] = "seed"] /\ ~CanResume /\ ops' = Append(ops, Read("seed", c))
    BY <1>1 DEF Connect, Prepare
  <2>3. ~CanResume => seq = None
    BY DEF Fresh, CounterCovers, CanResume
  <2>4. NoCounterWhileReading'
    BY <1>0, <2>1, <2>2, <2>3 DEF Fresh, NoCounterWhileReading
  <2>5. CASE UNCHANGED ops
    BY <2>1, <2>4, <2>5, FreshFrame
  <2>6. CASE ops' = Append(ops, Read("seed", c))
    BY <2>1, <2>4, <2>6, FreshRead
  <2> QED BY <2>2, <2>5, <2>6
<1>2. ASSUME NEW c \in Connects, SocketWasClosed(c) PROVE Fresh'
  <2>1. c \in Nat /\ UNCHANGED <<seq, wire, stored>> /\ Prepare(c, pc[c] = "resuming")
        /\ pc[c] \in {"closing", "resuming"}
    BY <1>2 DEF SocketWasClosed, Link, CallHasKeys, CanResume, Connects
  <2>2. \/ pc' = [pc EXCEPT ![c] = "ticket"] /\ UNCHANGED ops
        \/ /\ pc[c] = "closing" /\ pc' = [pc EXCEPT ![c] = "seed"]
           /\ ops' = Append(ops, Read("seed", c))
    BY <2>1 DEF Prepare
  <2>3. NoCounterWhileReading' /\ pairing' = TRUE
    BY <1>0, <2>1, <2>2 DEF Fresh, NoCounterWhileReading, Prepare
  <2>4. CASE UNCHANGED ops
    BY <2>1, <2>3, <2>4, FreshFrame
  <2>5. CASE ops' = Append(ops, Read("seed", c))
    BY <2>1, <2>3, <2>5, FreshRead
  <2> QED BY <2>2, <2>4, <2>5
<1>3. ASSUME UNCHANGED <<wire, stored, ops>>, seq' = None \/ UNCHANGED <<seq, pairing>>,
             \A c \in Connects : pc'[c] \in {pc[c], "none"}
      PROVE  Fresh'
  <2>1. NoCounterWhileReading'
    BY <1>3 DEF Fresh, NoCounterWhileReading
  <2> QED BY <1>3, <2>1, FreshFrame
<1>4. ASSUME NEW c \in Connects, TicketReturns(c) \/ TicketFails(c) PROVE Fresh'
  <2>1. pc' = [pc EXCEPT ![c] = "none"] /\ UNCHANGED <<wire, stored, ops, seq, pairing>>
    BY <1>4 DEF TicketReturns, TicketFails, ConnectThrows, storage
  <2> QED BY <1>0, <1>3, <2>1
<1>5. CASE TimerFiresLate \/ OpenHistory \/ End \/ EndReturns
  BY <1>3, <1>5 DEF TimerFiresLate, OpenHistory, End, EndReturns, calls, storage
<1>6. CASE SendText
  <2>1. CASE CanResume /\ Seal(1)
    BY <1>6, <2>1, FreshSeal DEF SendText, CanResume, calls
  <2>2. CASE UNCHANGED <<seq, ops>>
    BY <1>3, <1>6, <2>2 DEF SendText, calls
  <2> QED BY <1>6, <2>1, <2>2 DEF SendText
<1>7. CASE SaveReturns
  BY <1>7, FreshSave
<1>8. CASE SeedReturns
  <2> DEFINE c == Head(ops).by
  <2>1. /\ ops # <<>> /\ Head(ops).call = "seed" /\ pc' = [pc EXCEPT ![c] = "sequence"]
        /\ ops' = Append(Tail(ops), Read("sequence", c))
        /\ UNCHANGED <<wire, stored, seq, pairing>>
    BY <1>8 DEF SeedReturns
  <2>2. Tail(ops) = <<>> /\ c \in Connects /\ pc[c] = "seed" /\ seq = None
    BY <2>1, ReadWasLast DEF Fresh, NoCounterWhileReading
  <2>3. \A i \in DOMAIN ops' : ops'[i].call # "save"
    <3>1. <<>> \in Seq(Ops) /\ DOMAIN <<>> = {} /\ c \in Nat
      BY <2>2 DEF Connects
    <3>2. ops' = Append(<<>>, Read("sequence", c)) /\ Read("sequence", c).call = "sequence"
      BY <2>1, <2>2 DEF Read
    <3> HIDE DEF c
    <3>3. \A i \in DOMAIN Append(<<>>, Read("sequence", c)) :
            Append(<<>>, Read("sequence", c))[i] = Read("sequence", c)
      <4> DEFINE r == Read("sequence", c)
      <4>1. \A i \in DOMAIN Append(<<>>, r) :
              i \in DOMAIN <<>> \/ Append(<<>>, r)[i] = r
        BY <3>1, ReadAppended
      <4> HIDE DEF r
      <4>2. \A i \in DOMAIN Append(<<>>, r) : Append(<<>>, r)[i] = r
        BY <3>1, <4>1
      <4> QED BY <4>2 DEF r
    <3> QED BY <3>2, <3>3
  <2>4. SavesFollow' /\ SavesRise'
    BY <2>3 DEF SavesFollow, SavesRise, Save
  <2>5. CounterCovers' /\ NoCounterWhileReading' /\ WireRises' /\ WireIsStored'
    BY <2>1, <2>2 DEF Fresh, CounterCovers, NoCounterWhileReading, WireRises, WireIsStored
  <2> QED BY <2>4, <2>5 DEF Fresh
<1>9. CASE SequenceReturns
  <2> DEFINE c == Head(ops).by
  <2>1. /\ ops # <<>> /\ Head(ops).call = "sequence" /\ pc' = [pc EXCEPT ![c] = "ticket"]
        /\ ops' = Tail(ops) /\ seq' = stored
        /\ UNCHANGED <<wire, stored, pairing>>
    BY <1>9 DEF SequenceReturns
  <2>2. Tail(ops) = <<>> /\ c \in Connects /\ pc[c] = "sequence"
    BY <2>1, ReadWasLast
  <2>3. \A d \in Connects : d # c => pc[d] = "none"
    BY <1>0, <2>2 DEF Link, OneCall, Running
  <2>4. pairing
    BY <2>2 DEF Link, CallHasKeys
  <2>5. SavesFollow' /\ SavesRise'
    BY <2>1, <2>2 DEF SavesFollow, SavesRise
  <2>6. CounterCovers' /\ NoCounterWhileReading' /\ WireRises' /\ WireIsStored'
    BY <1>0, <2>1, <2>2, <2>3, <2>4, OpsNumbers
    DEF Fresh, CounterCovers, NoCounterWhileReading, WireRises, WireIsStored
  <2> QED BY <2>5, <2>6 DEF Fresh
<1>10. ASSUME NEW c \in Connects,
              \/ DaemonReady(c) \/ PermissionRequested(c) \/ ProcessExit(c) \/ PairingExpired(c)
              \/ ErrorEvent(c) \/ SocketOpens(c) \/ SocketEnds(c) \/ SocketCloses(c)
       PROVE Fresh'
  BY <1>3, <1>10 DEF DaemonReady, PermissionRequested, ProcessExit, PairingExpired, ErrorEvent,
     EventChangesNothingElse, SocketOpens, SocketEnds, SocketCloses, calls, storage
<1>11. ASSUME NEW c \in Connects, SessionStarted(c) PROVE Fresh'
  <2>1. UNCHANGED <<wire, stored, pairing, pc>> /\ seq # None
    BY <1>11 DEF SessionStarted, EventChangesNothingElse, calls
  <2>2. CASE UNCHANGED <<seq, ops>>
    BY <1>3, <2>1, <2>2
  <2>3. CASE \E n \in {1, 2} : Seal(n)
    BY <2>1, <2>3, FreshSeal
  <2> QED BY <1>11, <2>2, <2>3 DEF SessionStarted
<1>12. CASE Killed
  <2>1. /\ seq' = None /\ ops' = <<>> /\ UNCHANGED <<wire, stored>>
    BY <1>12 DEF Killed
  <2> QED BY <2>1 DEF Fresh, WireRises, WireIsStored, SavesFollow, SavesRise, CounterCovers,
             NoCounterWhileReading
<1>13. CASE UNCHANGED vars
  BY <1>3, <1>13 DEF vars, calls, storage
<1> QED BY <1>1, <1>2, <1>4, <1>5, <1>6, <1>7, <1>8, <1>9, <1>10, <1>11, <1>12, <1>13
        DEF Next, PhoneSteps, DaemonFrames, Network, User, UserConnects, TimerFires

\* The numbers the phone sends rise, across reconnections and restarts of the app, as long
\* as no two calls overlap (sendCommand, saveSequence, connect).
THEOREM CommandsFreshAlways == Spec => []CommandsFresh
<1>1. FreshInv => CommandsFresh
  BY DEF FreshInv, Fresh, WireRises, CommandsFresh
<1> QED BY <1>1, TypesAtFirst, TypesKept, ReadsAtFirst, ReadsKept, LinkAtFirst, LinkKept,
           FreshAtFirst, FreshKept, PTL DEF Spec
-----------------------------------------------------------------------------
(* The automatic reconnection *)

\* A phone that has lost its link has its timer set, unless the session was ended, the
\* attempts are used up, there is no pairing to dial, or it shows "disconnected" for a
\* stored chat (ScheduleAutoReconnect, TimerFires, OpenHistory): nothing else takes away
\* the timer and leaves it disconnected.  ReconnectHappens adds that the timer fires.
DisconnectedHasTimer ==
  status = "disconnected" =>
    timer \/ ended \/ attempt = MaxAttempts \/ browsed \/ ~(paired \/ last)

LEMMA TimerKept == TypeInv /\ DisconnectedHasTimer /\ [Next]_vars => DisconnectedHasTimer'
<1> SUFFICES ASSUME TypeInv, DisconnectedHasTimer, [Next]_vars PROVE DisconnectedHasTimer'
  OBVIOUS
<1>s. ASSUME ScheduleAutoReconnect, UNCHANGED <<ended, target>> PROVE DisconnectedHasTimer'
  <2>1. attempt' = attempt /\ (attempt < MaxAttempts \/ attempt = MaxAttempts)
    BY <1>s, PhoneAssumption DEF ScheduleAutoReconnect, TypeInv, TypeOK
  <2>2. ~ended /\ (paired \/ last) /\ attempt < MaxAttempts => timer'
    BY <1>s, Zenon DEF ScheduleAutoReconnect
  <2> QED BY <1>s, <2>1, <2>2 DEF DisconnectedHasTimer, target
<1>r. ASSUME status' # "disconnected" PROVE DisconnectedHasTimer'
  BY <1>r DEF DisconnectedHasTimer
<1>c. ASSUME UNCHANGED controller PROVE DisconnectedHasTimer'
  BY <1>c DEF DisconnectedHasTimer, controller, shows, reconnection, target
<1>1. ASSUME NEW c \in Connects, UserConnects(c) \/ TimerFires(c) PROVE DisconnectedHasTimer'
  BY <1>1, <1>r DEF UserConnects, TimerFires, Show
<1>2. ASSUME NEW c \in Connects, ConnectThrows(c) PROVE DisconnectedHasTimer'
  BY <1>2, <1>r, <1>s DEF ConnectThrows, Show
<1>3. ASSUME NEW c \in Connects, SocketWasClosed(c) PROVE DisconnectedHasTimer'
  BY <1>2, <1>3, <1>c DEF SocketWasClosed
<1>4. ASSUME NEW c \in Connects, TicketReturns(c) \/ TicketFails(c) PROVE DisconnectedHasTimer'
  BY <1>2, <1>4, <1>r DEF TicketReturns, TicketFails, Show
<1>5. CASE TimerFiresLate
  BY <1>5, <1>r DEF TimerFiresLate, shows
<1>14. CASE OpenHistory
  BY <1>14, <1>r DEF OpenHistory, Show, DisconnectedHasTimer
<1>6. CASE End
  <2>1. ended'
    BY <1>6 DEF End
  <2> QED BY <2>1 DEF DisconnectedHasTimer
<1>7. CASE EndReturns \/ Killed
  BY <1>7, <1>r DEF EndReturns, Killed, Show
<1>8. CASE SendText
  BY <1>8, <1>r DEF SendText, Show, shows
<1>9. CASE SaveReturns \/ SeedReturns \/ SequenceReturns
  BY <1>9, <1>c DEF SaveReturns, SeedReturns, SequenceReturns
<1>10. ASSUME NEW c \in Connects,
              \/ DaemonReady(c) \/ SessionStarted(c) \/ PermissionRequested(c)
              \/ ProcessExit(c) \/ PairingExpired(c) \/ ErrorEvent(c)
       PROVE DisconnectedHasTimer'
  BY <1>10, <1>r DEF DaemonReady, SessionStarted, PermissionRequested, ProcessExit, PairingExpired,
     ErrorEvent, Show
<1>11. ASSUME NEW c \in Connects, SocketOpens(c) \/ SocketCloses(c) PROVE DisconnectedHasTimer'
  BY <1>11, <1>c DEF SocketOpens, SocketCloses
<1>12. ASSUME NEW c \in Connects, SocketEnds(c) PROVE DisconnectedHasTimer'
  BY <1>12, <1>c, <1>s DEF SocketEnds
<1>13. CASE UNCHANGED vars
  BY <1>13, <1>c DEF vars
<1> QED BY <1>1, <1>3, <1>4, <1>5, <1>6, <1>7, <1>8, <1>9, <1>10, <1>11, <1>12, <1>13, <1>14
        DEF Next, PhoneSteps, DaemonFrames, Network, User

\* A phone that lost its link has set the timer to come back, even when calls have
\* overlapped, unless one of the conditions of DisconnectedHasTimer holds (_handleEvent,
\* _scheduleAutoReconnect, openHistory).
THEOREM DisconnectedHasTimerAlways == Spec => []DisconnectedHasTimer
<1>1. Init => DisconnectedHasTimer
  BY DEF Init, DisconnectedHasTimer
<1> QED BY <1>1, TypesAtFirst, TypesKept, ReadsAtFirst, ReadsKept, TimerKept, PTL DEF Spec
=============================================================================
