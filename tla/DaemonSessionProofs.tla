------------------------ MODULE DaemonSessionProofs ------------------------
(***************************************************************************)
(* Theorems about DaemonSession for every set of devices and keys, every   *)
(* capacity and every bound.                                               *)
(***************************************************************************)
EXTENDS DaemonSession, SequenceTheorems, TLAPS

-----------------------------------------------------------------------------
(* What the operators of the model return *)

\* queue() keeps a queue of frames within its capacity.
LEMMA QueueType ==
  ASSUME NEW q \in Seq(OutFrame), NEW f \in OutFrame, Len(q) <= QueueCap
  PROVE  Queue(q, f) \in Seq(OutFrame) /\ Len(Queue(q, f)) <= QueueCap
  BY ConstantsAssumption DEF ConstantsAssumption, Queue

\* Control frames are frames of the outbound queue.
LEMMA ControlType ==
  ASSUME NEW t \in ControlTypes
  PROVE  Control(t) \in OutFrame
  BY DEF Control, OutFrame

\* The pairing buffer never holds more than n events, and only events it was given.
LEMMA NewestType ==
  ASSUME NEW s \in Seq(Nat), NEW n \in Nat \ {0}
  PROVE  Newest(s, n) \in Seq(Nat) /\ Len(Newest(s, n)) <= n
<1>1. CASE Len(s) > n
  <2>1. SubSeq(s, Len(s) - n + 1, Len(s)) \in Seq(Nat)
    BY <1>1
  <2>2. Len(SubSeq(s, Len(s) - n + 1, Len(s))) = n
    BY <1>1
  <2>. QED  BY <1>1, <2>1, <2>2 DEF Newest
<1>2. CASE ~(Len(s) > n)
  BY <1>2 DEF Newest
<1>. QED  BY <1>1, <1>2

\* sendLocked keeps the types of the counter and of the queue.
LEMMA SendLockedType ==
  ASSUME TypeOK, hasPeer, NEW ev \in Nat, NEW ok \in BOOLEAN, SendLocked(ev, ok)
  PROVE  /\ seq' \in Nat
         /\ outbound' \in Seq(OutFrame) /\ Len(outbound') <= QueueCap
<1>1. [type |-> "ciphertext", to |-> peerKey, seq |-> seq + 1, ev |-> ev]
        \in OutFrame
  BY DEF OutFrame, TypeOK, SenderType
<1>. QED  BY <1>1, QueueType DEF SendLocked, TypeOK, SenderType, ChannelsType

\* A frame taken from the inbound channel is a frame readLoop accepted.
LEMMA InboundHead ==
  ASSUME TypeOK, inbound # <<>>
  PROVE  /\ Head(inbound) \in InFrame
         /\ Tail(inbound) \in Seq(InFrame)
         /\ Len(Tail(inbound)) <= InboundCap
  BY ConstantsAssumption DEF ConstantsAssumption, TypeOK, ChannelsType

-----------------------------------------------------------------------------
(* Type correctness *)

LEMMA TypeInit == Init => TypeOK
<1> SUFFICES ASSUME Init PROVE TypeOK
  OBVIOUS
<1> USE ConstantsAssumption DEF ConstantsAssumption, Init
<1>1. SenderType
  <2>1. buffer \in Seq(Nat) /\ Len(buffer) <= BufferCap
    OBVIOUS
  <2>2. hasPeer \in BOOLEAN /\ (hasPeer => peerKey \in Keys /\ peerDev \in Devices)
    BY Zenon
  <2>. QED  BY <2>1, <2>2 DEF SenderType
<1>2. ChannelsType
  BY DEF ChannelsType
<1>3. HandlerType
  BY DEF HandlerType, Points
<1>4. RegistryType
  BY DEF RegistryType
<1>5. RestType
  <2>1. expired \in BOOLEAN
    BY Zenon
  <2>2. executed \in Seq([epoch : Nat, seq : Nat])
    OBVIOUS
  <2>. QED  BY <2>1, <2>2 DEF RestType
<1>. QED  BY <1>1, <1>2, <1>3, <1>4, <1>5 DEF TypeOK

LEMMA TypeNext == TypeOK /\ [Next]_vars => TypeOK'
<1> SUFFICES ASSUME TypeOK, [Next]_vars PROVE TypeOK'
  OBVIOUS
<1> USE ConstantsAssumption DEF ConstantsAssumption, TypeOK, Goto, Start,
        SendReplies, Done, history, sender, peer, handler, wrote
<1>1. CASE ReceiveHello
  <2>1. SenderType'
    BY <1>1, InboundHead, QueueType, ControlType DEF ReceiveHello, SenderType
  <2>2. ChannelsType'
    BY <1>1, InboundHead, QueueType, ControlType DEF ReceiveHello, ChannelsType, ControlTypes
  <2>3. HandlerType'
    BY <1>1, InboundHead, QueueType, ControlType DEF ReceiveHello, HandlerType, Points, InFrame, Hello, Command, Other
  <2>4. RegistryType'
    BY <1>1, InboundHead, QueueType, ControlType DEF ReceiveHello, RegistryType
  <2>5. RestType'
    BY <1>1, InboundHead, QueueType, ControlType DEF ReceiveHello, RestType
  <2>. QED  BY <2>1, <2>2, <2>3, <2>4, <2>5
<1>2. CASE IgnoreFrame
  <2>1. SenderType'
    BY <1>2, InboundHead DEF IgnoreFrame, SenderType
  <2>2. ChannelsType'
    BY <1>2, InboundHead DEF IgnoreFrame, ChannelsType
  <2>3. HandlerType'
    BY <1>2, InboundHead DEF IgnoreFrame, HandlerType
  <2>4. RegistryType'
    BY <1>2, InboundHead DEF IgnoreFrame, RegistryType
  <2>5. RestType'
    BY <1>2, InboundHead DEF IgnoreFrame, RestType
  <2>. QED  BY <2>1, <2>2, <2>3, <2>4, <2>5
<1>3. CASE Authorize
  <2>1. SenderType'
    BY <1>3 DEF Authorize, SenderType
  <2>2. ChannelsType'
    BY <1>3 DEF Authorize, ChannelsType
  <2>3. HandlerType'
    BY <1>3 DEF Authorize, HandlerType, Points
  <2>4. RegistryType'
    <3>1. msg.dev \in Devices /\ msg.key \in Keys
      BY <1>3 DEF Authorize, HandlerType
    <3>. QED  BY <1>3, <3>1 DEF Authorize, RegistryType
  <2>5. RestType'
    BY <1>3 DEF Authorize, RestType
  <2>. QED  BY <2>1, <2>2, <2>3, <2>4, <2>5
<1>4. CASE AuthorizeFails
  <2>1. SenderType'
    BY <1>4, QueueType, ControlType DEF AuthorizeFails, SenderType
  <2>2. ChannelsType'
    BY <1>4, QueueType, ControlType DEF AuthorizeFails, ChannelsType, ControlTypes
  <2>3. HandlerType'
    BY <1>4, QueueType, ControlType DEF AuthorizeFails, HandlerType, Points
  <2>4. RegistryType'
    BY <1>4, QueueType, ControlType DEF AuthorizeFails, RegistryType
  <2>5. RestType'
    BY <1>4, QueueType, ControlType DEF AuthorizeFails, RestType
  <2>. QED  BY <2>1, <2>2, <2>3, <2>4, <2>5
<1>5. CASE Touch
  <2>1. SenderType'
    BY <1>5 DEF Touch, SenderType
  <2>2. ChannelsType'
    BY <1>5 DEF Touch, ChannelsType
  <2>3. HandlerType'
    BY <1>5 DEF Touch, HandlerType, Points
  <2>4. RegistryType'
    BY <1>5 DEF Touch, RegistryType
  <2>5. RestType'
    BY <1>5 DEF Touch, RestType
  <2>. QED  BY <2>1, <2>2, <2>3, <2>4, <2>5
<1>6. CASE SetPeer
  <2>1. SenderType'
    BY <1>6 DEF SetPeer, SenderType, InstallPeer, HandlerType
  <2>2. ChannelsType'
    BY <1>6 DEF SetPeer, ChannelsType
  <2>3. HandlerType'
    BY <1>6 DEF SetPeer, HandlerType, Points, InstallPeer
  <2>4. RegistryType'
    BY <1>6 DEF SetPeer, RegistryType
  <2>5. RestType'
    BY <1>6 DEF SetPeer, RestType
  <2>. QED  BY <2>1, <2>2, <2>3, <2>4, <2>5
<1>7. CASE FlushOne
  <2>1. SenderType'
    BY <1>7, SendLockedType DEF FlushOne, SenderType, SendLocked, HandlerType
  <2>2. ChannelsType'
    <3>1. hasPeer /\ Head(buffer) \in Nat
      BY <1>7 DEF FlushOne, HandlerType, SenderType
    <3>2. PICK ok \in BOOLEAN : SendLocked(Head(buffer), ok)
      BY <1>7 DEF FlushOne
    <3>3. outbound' \in Seq(OutFrame) /\ Len(outbound') <= QueueCap
      BY <3>1, <3>2, SendLockedType
    <3>. QED  BY <1>7, <3>3 DEF FlushOne, ChannelsType
  <2>3. HandlerType'
    BY <1>7, SendLockedType DEF FlushOne, HandlerType, SendLocked
  <2>4. RegistryType'
    BY <1>7, SendLockedType DEF FlushOne, RegistryType
  <2>5. RestType'
    BY <1>7, SendLockedType DEF FlushOne, RestType
  <2>. QED  BY <2>1, <2>2, <2>3, <2>4, <2>5
<1>8. CASE FlushDone
  <2>1. SenderType'
    BY <1>8 DEF FlushDone, SenderType
  <2>2. ChannelsType'
    BY <1>8 DEF FlushDone, ChannelsType
  <2>3. HandlerType'
    BY <1>8 DEF FlushDone, HandlerType, Points
  <2>4. RegistryType'
    BY <1>8 DEF FlushDone, RegistryType
  <2>5. RestType'
    BY <1>8 DEF FlushDone, RestType
  <2>. QED  BY <2>1, <2>2, <2>3, <2>4, <2>5
<1>9. CASE DaemonReady
  <2>1. SenderType'
    BY <1>9, QueueType, ControlType DEF DaemonReady, SenderType
  <2>2. ChannelsType'
    BY <1>9, QueueType, ControlType DEF DaemonReady, ChannelsType, ControlTypes
  <2>3. HandlerType'
    BY <1>9, QueueType, ControlType DEF DaemonReady, HandlerType, Points
  <2>4. RegistryType'
    BY <1>9, QueueType, ControlType DEF DaemonReady, RegistryType
  <2>5. RestType'
    BY <1>9, QueueType, ControlType DEF DaemonReady, RestType
  <2>. QED  BY <2>1, <2>2, <2>3, <2>4, <2>5
<1>10. CASE ReceiveCommand
  <2>1. SenderType'
    BY <1>10, InboundHead DEF ReceiveCommand, SenderType
  <2>2. ChannelsType'
    BY <1>10, InboundHead DEF ReceiveCommand, ChannelsType
  <2>3. HandlerType'
    BY <1>10, InboundHead DEF ReceiveCommand, HandlerType, Points, InFrame, Hello, Command, Other
  <2>4. RegistryType'
    BY <1>10, InboundHead DEF ReceiveCommand, RegistryType
  <2>5. RestType'
    BY <1>10, InboundHead DEF ReceiveCommand, RestType
  <2>. QED  BY <2>1, <2>2, <2>3, <2>4, <2>5
<1>11. CASE OpenFails
  <2>1. SenderType'
    BY <1>11 DEF OpenFails, SenderType
  <2>2. ChannelsType'
    BY <1>11 DEF OpenFails, ChannelsType
  <2>3. HandlerType'
    BY <1>11 DEF OpenFails, HandlerType, Points
  <2>4. RegistryType'
    BY <1>11 DEF OpenFails, RegistryType
  <2>5. RestType'
    BY <1>11 DEF OpenFails, RestType
  <2>. QED  BY <2>1, <2>2, <2>3, <2>4, <2>5
<1>12. CASE Execute
  <2>1. SenderType'
    BY <1>12 DEF Execute, SenderType, HandlerType, Command
  <2>2. ChannelsType'
    BY <1>12 DEF Execute, ChannelsType
  <2>3. HandlerType'
    BY <1>12 DEF Execute, HandlerType, Points, Replies, Command, CommandKinds
  <2>4. RegistryType'
    BY <1>12 DEF Execute, RegistryType, HandlerType, SenderType
  <2>5. RestType'
    BY <1>12 DEF Execute, RestType, HandlerType, Command
  <2>. QED  BY <2>1, <2>2, <2>3, <2>4, <2>5
<1>13. CASE Reply
  <2>1. SenderType'
    BY <1>13, SendLockedType DEF Reply, SenderType, SendDirect, SendLocked
  <2>2. ChannelsType'
    BY <1>13, SendLockedType DEF Reply, ChannelsType, SendDirect
  <2>3. HandlerType'
    BY <1>13, SendLockedType DEF Reply, HandlerType, SendDirect, SendLocked
  <2>4. RegistryType'
    BY <1>13, SendLockedType DEF Reply, RegistryType
  <2>5. RestType'
    BY <1>13, SendLockedType DEF Reply, RestType
  <2>. QED  BY <2>1, <2>2, <2>3, <2>4, <2>5
<1>14. CASE HandlerReturns
  <2>1. SenderType'
    BY <1>14 DEF HandlerReturns, SenderType
  <2>2. ChannelsType'
    BY <1>14 DEF HandlerReturns, ChannelsType
  <2>3. HandlerType'
    BY <1>14 DEF HandlerReturns, HandlerType, Points
  <2>4. RegistryType'
    BY <1>14 DEF HandlerReturns, RegistryType
  <2>5. RestType'
    BY <1>14 DEF HandlerReturns, RestType
  <2>. QED  BY <2>1, <2>2, <2>3, <2>4, <2>5
<1>23. CASE CommandReturns
  <2>1. SenderType'
    BY <1>23 DEF CommandReturns, SenderType
  <2>2. ChannelsType'
    BY <1>23 DEF CommandReturns, ChannelsType
  <2>3. HandlerType'
    BY <1>23 DEF CommandReturns, HandlerType, Points, Replies, InFrame, Command, CommandKinds
  <2>4. RegistryType'
    BY <1>23 DEF CommandReturns, RegistryType
  <2>5. RestType'
    BY <1>23 DEF CommandReturns, RestType
  <2>. QED  BY <2>1, <2>2, <2>3, <2>4, <2>5
<1>15. CASE Produce
  <2>1. SenderType'
    <3>1. CASE hasPeer
      <4>1. UNCHANGED <<peer, buffer>> /\ seq' = seq + 1
        BY <1>15, <3>1 DEF Produce, SendBuffered, SendLocked
      <4>2. UNCHANGED <<hasPeer, peerKey, peerDev, lastRecv, buffer>>
        BY <4>1
      <4>. QED  BY <4>1, <4>2 DEF SenderType
    <3>2. CASE ~hasPeer
      <4>1. Append(buffer, produced + 1) \in Seq(Nat)
        BY DEF SenderType, RestType
      <4>2. buffer' \in Seq(Nat) /\ Len(buffer') <= BufferCap
        BY <1>15, <3>2, <4>1, NewestType DEF Produce, SendBuffered
      <4>3. UNCHANGED <<hasPeer, peerKey, peerDev, lastRecv, seq>>
        BY <1>15, <3>2 DEF Produce, SendBuffered
      <4>. QED  BY <4>2, <4>3 DEF SenderType
    <3>. QED  BY <3>1, <3>2
  <2>2. ChannelsType'
    BY <1>15, SendLockedType, NewestType DEF Produce, ChannelsType, SendBuffered, RestType
  <2>3. HandlerType'
    BY <1>15, SendLockedType, NewestType DEF Produce, HandlerType, SendBuffered, SendLocked
  <2>4. RegistryType'
    BY <1>15, SendLockedType, NewestType DEF Produce, RegistryType
  <2>5. RestType'
    BY <1>15, SendLockedType, NewestType DEF Produce, RestType
  <2>. QED  BY <2>1, <2>2, <2>3, <2>4, <2>5
<1>16. CASE WriteLoop
  <2>1. SenderType'
    BY <1>16 DEF WriteLoop, SenderType
  <2>2. ChannelsType'
    BY <1>16 DEF WriteLoop, ChannelsType
  <2>3. HandlerType'
    BY <1>16 DEF WriteLoop, HandlerType
  <2>4. RegistryType'
    BY <1>16 DEF WriteLoop, RegistryType
  <2>5. RestType'
    <3>1. Head(outbound) \in OutFrame
      BY <1>16 DEF WriteLoop, ChannelsType
    <3>2. Head(outbound).seq \in Nat /\ Head(outbound).ev \in Nat
      BY <3>1 DEF OutFrame
    <3>3. wroteSeq' \in Nat /\ wroteEv' \in Nat
      BY <1>16, <3>2 DEF WriteLoop, RestType
    <3>. QED  BY <1>16, <3>3 DEF WriteLoop, RestType
  <2>. QED  BY <2>1, <2>2, <2>3, <2>4, <2>5
<1>17. CASE \E frame \in InFrame : ReadLoop(frame)
  <2>1. SenderType'
    BY <1>17 DEF ReadLoop, SenderType
  <2>2. ChannelsType'
    BY <1>17 DEF ReadLoop, ChannelsType
  <2>3. HandlerType'
    BY <1>17 DEF ReadLoop, HandlerType
  <2>4. RegistryType'
    BY <1>17 DEF ReadLoop, RegistryType
  <2>5. RestType'
    BY <1>17 DEF ReadLoop, RestType
  <2>. QED  BY <2>1, <2>2, <2>3, <2>4, <2>5
<1>18. CASE RelayDisconnects
  <2>1. SenderType'
    BY <1>18 DEF RelayDisconnects, SenderType
  <2>2. ChannelsType'
    BY <1>18 DEF RelayDisconnects, ChannelsType
  <2>3. HandlerType'
    BY <1>18 DEF RelayDisconnects, HandlerType
  <2>4. RegistryType'
    BY <1>18 DEF RelayDisconnects, RegistryType
  <2>5. RestType'
    BY <1>18 DEF RelayDisconnects, RestType
  <2>. QED  BY <2>1, <2>2, <2>3, <2>4, <2>5
<1>19. CASE PairingExpires
  <2>1. SenderType'
    BY <1>19 DEF PairingExpires, SenderType
  <2>2. ChannelsType'
    BY <1>19 DEF PairingExpires, ChannelsType
  <2>3. HandlerType'
    BY <1>19 DEF PairingExpires, HandlerType
  <2>4. RegistryType'
    BY <1>19 DEF PairingExpires, RegistryType
  <2>5. RestType'
    BY <1>19 DEF PairingExpires, RestType
  <2>. QED  BY <2>1, <2>2, <2>3, <2>4, <2>5
<1>20. CASE \E dev \in Devices : Revoke(dev)
  <2>1. SenderType'
    BY <1>20 DEF Revoke, SenderType
  <2>2. ChannelsType'
    BY <1>20 DEF Revoke, ChannelsType
  <2>3. HandlerType'
    BY <1>20 DEF Revoke, HandlerType
  <2>4. RegistryType'
    BY <1>20 DEF Revoke, RegistryType
  <2>5. RestType'
    BY <1>20 DEF Revoke, RestType
  <2>. QED  BY <2>1, <2>2, <2>3, <2>4, <2>5
<1>21. CASE \E dev \in Devices, key \in Keys : OtherSessionAuthorizes(dev, key)
  <2>1. SenderType'
    BY <1>21 DEF OtherSessionAuthorizes, SenderType
  <2>2. ChannelsType'
    BY <1>21 DEF OtherSessionAuthorizes, ChannelsType
  <2>3. HandlerType'
    BY <1>21 DEF OtherSessionAuthorizes, HandlerType
  <2>4. RegistryType'
    BY <1>21 DEF OtherSessionAuthorizes, RegistryType
  <2>5. RestType'
    BY <1>21 DEF OtherSessionAuthorizes, RestType
  <2>. QED  BY <2>1, <2>2, <2>3, <2>4, <2>5
<1>22. CASE UNCHANGED vars
  <2>1. SenderType'
    BY <1>22 DEF vars, SenderType
  <2>2. ChannelsType'
    BY <1>22 DEF vars, ChannelsType
  <2>3. HandlerType'
    BY <1>22 DEF vars, HandlerType, Points
  <2>4. RegistryType'
    BY <1>22 DEF vars, RegistryType
  <2>5. RestType'
    BY <1>22 DEF vars, RestType
  <2>. QED  BY <2>1, <2>2, <2>3, <2>4, <2>5
<1>. QED
  BY <1>1, <1>2, <1>3, <1>4, <1>5, <1>6, <1>7, <1>8, <1>9, <1>10, <1>11, <1>12, <1>13, <1>14, <1>15, <1>16, <1>17, <1>18, <1>19, <1>20, <1>21, <1>22, <1>23
     DEF Next, Handler, HandlerRuns, Environment

\* Type correctness of the session for every instance: queues and buffer keep
\* within their capacities, and the handler never reaches a registry write or
\* SetPeer with a frame the checks should have refused.
THEOREM TypeCorrect == Spec => []TypeOK
  BY TypeInit, TypeNext, PTL DEF Spec

-----------------------------------------------------------------------------
(* The order of sealed frames *)

\* Each element of the queue after a push was there before or is the pushed one.
LEMMA QueueElements ==
  ASSUME NEW q \in Seq(OutFrame), NEW f \in OutFrame,
         NEW i \in DOMAIN Queue(q, f)
  PROVE  \/ i \in DOMAIN q /\ Queue(q, f)[i] = q[i]
         \/ i = Len(q) + 1 /\ Queue(q, f)[i] = f
  BY DEF Queue

\* The numbers in the queue are natural numbers.
LEMMA QueuedNumbers ==
  ASSUME outbound \in Seq(OutFrame), NEW i \in DOMAIN outbound
  PROVE  outbound[i].seq \in Nat /\ outbound[i].ev \in Nat
<1>1. outbound[i] \in OutFrame
  OBVIOUS
<1>. QED  BY <1>1 DEF OutFrame

\* Pushing a control frame leaves the sealed frames as they were.
LEMMA ControlKeepsSealedOrder ==
  ASSUME TypeOK, SealedInOrder, NEW t \in ControlTypes,
         outbound' = Queue(outbound, Control(t)), UNCHANGED <<seq, wroteSeq>>
  PROVE  SealedInOrder'
<1>1. Control(t) \in OutFrame /\ Control(t).type # "ciphertext"
  BY ControlType DEF Control, ControlTypes
<1>2. outbound \in Seq(OutFrame)
  BY DEF TypeOK, ChannelsType
<1>3. ASSUME NEW i \in DOMAIN outbound', Sealed(i)'
      PROVE  i \in DOMAIN outbound /\ outbound'[i] = outbound[i] /\ Sealed(i)
  BY <1>1, <1>2, <1>3, QueueElements DEF Sealed
<1>. QED  BY <1>3 DEF SealedInOrder

\* sendLocked uses a number above every number queued or written before.
LEMMA SendKeepsSealedOrder ==
  ASSUME TypeOK, SealedInOrder, hasPeer, NEW ev \in Nat, NEW ok \in BOOLEAN,
         SendLocked(ev, ok), UNCHANGED wroteSeq
  PROVE  SealedInOrder'
<1> DEFINE f == [type |-> "ciphertext", to |-> peerKey, seq |-> seq + 1, ev |-> ev]
<1>1. f \in OutFrame
  BY DEF OutFrame, TypeOK, SenderType
<1>2. outbound \in Seq(OutFrame) /\ seq \in Nat /\ wroteSeq \in Nat
  BY DEF TypeOK, ChannelsType, SenderType, RestType
<1>3. seq' = seq + 1 /\ wroteSeq' = wroteSeq
  BY DEF SendLocked
<1>4. ASSUME NEW i \in DOMAIN outbound'
      PROVE  \/ i \in DOMAIN outbound /\ outbound'[i] = outbound[i]
             \/ i = Len(outbound) + 1 /\ outbound'[i] = f
  BY <1>1, <1>2, <1>4, QueueElements DEF SendLocked
<1>5. \A i \in DOMAIN outbound : outbound[i].seq \in Nat
  BY <1>2, QueuedNumbers
<1>6. f.seq = seq + 1
  OBVIOUS
<1>7. DOMAIN outbound = 1..Len(outbound) /\ Len(outbound) \in Nat
  BY <1>2
<1> HIDE DEF f
<1>8. ASSUME NEW i \in DOMAIN outbound', Sealed(i)'
      PROVE  wroteSeq' < outbound'[i].seq /\ outbound'[i].seq <= seq'
  BY <1>2, <1>3, <1>4, <1>5, <1>6, <1>8 DEF SealedInOrder, Sealed
<1>9. ASSUME NEW i \in DOMAIN outbound', NEW j \in DOMAIN outbound', i < j,
             Sealed(i)', Sealed(j)'
      PROVE  outbound'[i].seq < outbound'[j].seq
  <2>1. i \in DOMAIN outbound /\ outbound'[i] = outbound[i]
    <3>1. CASE j \in DOMAIN outbound
      BY <1>4, <1>7, <1>9, <3>1
    <3>2. CASE j = Len(outbound) + 1
      BY <1>4, <1>7, <1>9, <3>2
    <3>. QED  BY <1>4, <3>1, <3>2
  <2>2. Sealed(i) /\ outbound[i].seq <= seq
    BY <1>9, <2>1 DEF Sealed, SealedInOrder
  <2>3. CASE j \in DOMAIN outbound /\ outbound'[j] = outbound[j]
    BY <1>9, <2>1, <2>2, <2>3 DEF Sealed, SealedInOrder
  <2>4. CASE j = Len(outbound) + 1 /\ outbound'[j] = f
    BY <1>2, <1>5, <1>6, <2>1, <2>2, <2>4
  <2>. QED  BY <1>4, <2>3, <2>4
<1>. QED  BY <1>2, <1>3, <1>8, <1>9 DEF SealedInOrder

\* Writing the head leaves numbers that are all above the one written.
LEMMA WriteKeepsSealedOrder ==
  ASSUME TypeOK, SealedInOrder, WriteLoop
  PROVE  SealedInOrder'
<1>1. /\ outbound \in Seq(OutFrame) /\ outbound # <<>> /\ outbound' = Tail(outbound)
      /\ seq' = seq /\ seq \in Nat /\ wroteSeq \in Nat
  BY DEF TypeOK, ChannelsType, SenderType, RestType, WriteLoop, sender
<1>2. /\ 1 \in DOMAIN outbound /\ Head(outbound) = outbound[1]
      /\ DOMAIN outbound' \subseteq Nat
      /\ \A i \in DOMAIN outbound' :
           i + 1 \in DOMAIN outbound /\ 1 < i + 1 /\ outbound'[i] = outbound[i + 1]
  BY <1>1
<1>3. \A i \in DOMAIN outbound : outbound[i].seq \in Nat
  BY <1>1, QueuedNumbers
<1>4. CASE Sealed(1)
  <2>1. wroteSeq' = outbound[1].seq
    BY <1>2, <1>4 DEF WriteLoop, Sealed
  <2>. QED  BY <1>1, <1>2, <1>3, <1>4, <2>1 DEF SealedInOrder, Sealed
<1>5. CASE ~Sealed(1)
  <2>1. wroteSeq' = wroteSeq
    BY <1>2, <1>5 DEF WriteLoop, Sealed, wrote
  <2>. QED  BY <1>1, <1>2, <1>3, <2>1 DEF SealedInOrder, Sealed
<1>. QED  BY <1>4, <1>5

LEMMA SealedOrderNext ==
  ASSUME TypeOK, SealedInOrder, [Next]_vars
  PROVE  SealedInOrder'
<1> USE DEF history, sender, peer, handler, wrote
<1>1. ASSUME UNCHANGED <<seq, outbound, wroteSeq>> PROVE SealedInOrder'
  BY <1>1 DEF SealedInOrder, Sealed
<1>2. CASE ReceiveHello
  <2>1. CASE UNCHANGED outbound
    BY <1>1, <1>2, <2>1 DEF ReceiveHello
  <2>2. CASE \E t \in ControlTypes : outbound' = Queue(outbound, Control(t))
    BY <1>2, <2>2, ControlKeepsSealedOrder DEF ReceiveHello
  <2>. QED  BY <1>2, <2>1, <2>2 DEF ReceiveHello, ControlTypes
<1>3. CASE IgnoreFrame \/ Authorize \/ Touch \/ SetPeer \/ FlushDone
           \/ ReceiveCommand \/ OpenFails \/ Execute \/ CommandReturns \/ HandlerReturns
  BY <1>1, <1>3 DEF IgnoreFrame, Authorize, Touch, SetPeer, InstallPeer, FlushDone,
     ReceiveCommand, OpenFails, Execute, CommandReturns, HandlerReturns
<1>4. CASE AuthorizeFails
  BY <1>4, ControlKeepsSealedOrder DEF AuthorizeFails, ControlTypes
<1>5. CASE DaemonReady
  BY <1>5, ControlKeepsSealedOrder DEF DaemonReady, ControlTypes
<1>6. CASE FlushOne
  <2>1. hasPeer /\ Head(buffer) \in Nat
    BY <1>6 DEF FlushOne, TypeOK, HandlerType, SenderType
  <2>. QED  BY <1>6, <2>1, SendKeepsSealedOrder DEF FlushOne
<1>7. CASE Reply
  <2>1. CASE hasPeer
    BY <1>7, <2>1, SendKeepsSealedOrder DEF Reply, SendDirect
  <2>2. CASE ~hasPeer
    BY <1>1, <1>7, <2>2 DEF Reply, SendDirect
  <2>. QED  BY <2>1, <2>2
<1>8. CASE Produce
  <2>1. CASE hasPeer
    <3>1. produced + 1 \in Nat
      BY ConstantsAssumption DEF ConstantsAssumption, TypeOK, RestType
    <3>. QED  BY <1>8, <2>1, <3>1, SendKeepsSealedOrder DEF Produce, SendBuffered
  <2>2. CASE ~hasPeer
    BY <1>1, <1>8, <2>2 DEF Produce, SendBuffered
  <2>. QED  BY <2>1, <2>2
<1>9. CASE WriteLoop
  BY <1>9, WriteKeepsSealedOrder
<1>10. CASE Environment
  BY <1>1, <1>10 DEF Environment, ReadLoop, RelayDisconnects, PairingExpires, Revoke,
     OtherSessionAuthorizes
<1>11. CASE UNCHANGED vars
  BY <1>1, <1>11 DEF vars
<1>. QED
  BY <1>2, <1>3, <1>4, <1>5, <1>6, <1>7, <1>8, <1>9, <1>10, <1>11 DEF Next, Handler, HandlerRuns

\* For every number of phones, events and frames and every capacity, sealed
\* frames are written to the relay with strictly increasing sequence numbers.
THEOREM SealedInOrderAlways == Spec => []SealedInOrder
<1>1. Init => SealedInOrder
  BY DEF Init, SealedInOrder
<1>2. TypeOK /\ SealedInOrder /\ [Next]_vars => SealedInOrder'
  BY SealedOrderNext
<1>. QED  BY <1>1, <1>2, TypeCorrect, PTL DEF Spec

-----------------------------------------------------------------------------
(* Who events are sealed for *)

\* A hello that has passed the checks presents a pair the registry has held,
\* and so does every entry of the registry.
PairsAreKnown ==
  /\ \A d \in Devices : registry[d] # None => <<d, registry[d]>> \in known
  /\ pc \in {"touch", "setpeer"} => <<msg.dev, msg.key>> \in known

KnownInv == TypeOK /\ PairsAreKnown /\ SealedForKnownDevice

\* Pairs are never forgotten, so the queue may keep what it has.
LEMMA KnownKeeps ==
  ASSUME KnownInv, known \subseteq known', UNCHANGED <<hasPeer, peerKey, peerDev, outbound>>
  PROVE  SealedForKnownDevice'
<1>1. \A i \in DOMAIN outbound : Sealed(i) =>
        \E d \in Devices : <<d, outbound[i].to>> \in known
  BY DEF KnownInv, SealedForKnownDevice
<1>2. hasPeer => <<peerDev, peerKey>> \in known
  BY DEF KnownInv, SealedForKnownDevice
<1>. QED  BY <1>1, <1>2 DEF SealedForKnownDevice, Sealed

\* A pushed frame is a control frame, or sealed for the present peer.
LEMMA PushForKnown ==
  ASSUME KnownInv, NEW f \in OutFrame, outbound' = Queue(outbound, f),
         f.type = "ciphertext" => hasPeer /\ f.to = peerKey,
         UNCHANGED <<hasPeer, peerKey, peerDev, known>>
  PROVE  SealedForKnownDevice'
<1>1. outbound \in Seq(OutFrame)
  BY DEF KnownInv, TypeOK, ChannelsType
<1>2. /\ hasPeer => <<peerDev, peerKey>> \in known /\ peerDev \in Devices
      /\ \A i \in DOMAIN outbound : outbound[i].type = "ciphertext" =>
           \E d \in Devices : <<d, outbound[i].to>> \in known
  BY DEF KnownInv, SealedForKnownDevice, Sealed, TypeOK, SenderType
<1>3. SUFFICES ASSUME NEW i \in DOMAIN outbound', outbound'[i].type = "ciphertext"
               PROVE  \E d \in Devices : <<d, outbound'[i].to>> \in known
  BY <1>2 DEF SealedForKnownDevice, Sealed
<1>4. CASE i \in DOMAIN outbound /\ outbound'[i] = outbound[i]
  BY <1>2, <1>3, <1>4
<1>5. CASE outbound'[i] = f
  BY <1>2, <1>3, <1>5
<1>. QED  BY <1>1, <1>3, <1>4, <1>5, QueueElements

LEMMA ControlForKnown ==
  ASSUME KnownInv, NEW t \in ControlTypes, outbound' = Queue(outbound, Control(t)),
         UNCHANGED <<hasPeer, peerKey, peerDev, known>>
  PROVE  SealedForKnownDevice'
<1>1. Control(t) \in OutFrame /\ Control(t).type # "ciphertext"
  BY ControlType DEF Control, ControlTypes
<1>. QED  BY <1>1, PushForKnown

LEMMA SendForKnown ==
  ASSUME KnownInv, hasPeer, NEW ev \in Nat, NEW ok \in BOOLEAN, SendLocked(ev, ok),
         UNCHANGED known
  PROVE  SealedForKnownDevice'
<1> DEFINE f == [type |-> "ciphertext", to |-> peerKey, seq |-> seq + 1, ev |-> ev]
<1>1. f \in OutFrame /\ f.to = peerKey
  BY DEF OutFrame, KnownInv, TypeOK, SenderType
<1>2. UNCHANGED <<hasPeer, peerKey, peerDev>>
  BY DEF SendLocked, peer
<1>3. CASE ok
  <2>1. outbound' = Queue(outbound, f)
    BY <1>3 DEF SendLocked
  <2> HIDE DEF f
  <2>. QED  BY <1>1, <1>2, <2>1, PushForKnown
<1>4. CASE ~ok
  BY <1>2, <1>4, KnownKeeps DEF SendLocked
<1>. QED  BY <1>3, <1>4

LEMMA KnownNext ==
  ASSUME KnownInv, [Next]_vars
  PROVE  PairsAreKnown' /\ SealedForKnownDevice'
<1> USE DEF history, sender, peer, handler, wrote, Goto, Start, Done, SendReplies
<1>0. TypeOK /\ PairsAreKnown
  BY DEF KnownInv
<1>1. ASSUME UNCHANGED <<registry, known>>,
             pc' \notin {"touch", "setpeer"} \/ UNCHANGED <<pc, msg>>
      PROVE  PairsAreKnown'
  BY <1>0, <1>1 DEF PairsAreKnown
<1>2. CASE ReceiveHello
  <2>1. SealedForKnownDevice'
    <3>1. CASE UNCHANGED outbound
      BY <1>2, <3>1, KnownKeeps DEF ReceiveHello
    <3>2. CASE \E t \in ControlTypes : outbound' = Queue(outbound, Control(t))
      BY <1>2, <3>2, ControlForKnown DEF ReceiveHello
    <3>. QED  BY <1>2, <3>1, <3>2 DEF ReceiveHello, ControlTypes
  <2>2. PairsAreKnown'
    <3>1. UNCHANGED <<registry, known>> /\ Head(inbound) \in InFrame
          /\ Head(inbound).type = "mobile_hello"
      BY <1>0, <1>2, InboundHead DEF ReceiveHello
    <3>2. Head(inbound).dev \in Devices \cup {None}
      BY <3>1 DEF InFrame, Hello, Command, Other
    <3>3. CASE pc' \notin {"touch", "setpeer"}
      BY <1>1, <3>1, <3>3
    <3>4. CASE pc' = "touch" /\ msg' = Head(inbound) /\ Head(inbound).dev # None
               /\ registry[Head(inbound).dev] = Head(inbound).key /\ Head(inbound).key # None
      BY <1>0, <3>1, <3>2, <3>4 DEF PairsAreKnown
    <3>. QED  BY <1>2, <3>3, <3>4 DEF ReceiveHello, IsAuthorized
  <2>. QED  BY <2>1, <2>2
<1>3. CASE Authorize
  <2>1. msg.dev \in Devices /\ msg.key \in Keys
    BY <1>0, <1>3 DEF Authorize, TypeOK, HandlerType
  <2>2. PairsAreKnown'
    BY <1>0, <1>3, <2>1 DEF Authorize, PairsAreKnown, TypeOK, RegistryType
  <2>. QED  BY <1>3, <2>2, KnownKeeps DEF Authorize
<1>4. CASE AuthorizeFails
  BY <1>1, <1>4, ControlForKnown DEF AuthorizeFails, ControlTypes
<1>5. CASE Touch
  <2>1. PairsAreKnown'
    BY <1>0, <1>5 DEF Touch, PairsAreKnown
  <2>. QED  BY <1>5, <2>1, KnownKeeps DEF Touch
<1>6. CASE SetPeer
  <2>1. /\ peerKey' = msg.key /\ peerDev' = msg.dev
        /\ UNCHANGED <<outbound, known>>
    BY <1>6 DEF SetPeer, InstallPeer
  <2>2. <<peerDev', peerKey'>> \in known
    BY <1>0, <1>6, <2>1 DEF SetPeer, PairsAreKnown
  <2>3. SealedForKnownDevice'
    BY <2>1, <2>2 DEF KnownInv, SealedForKnownDevice, Sealed
  <2>. QED  BY <1>1, <1>6, <2>3 DEF SetPeer
<1>7. CASE IgnoreFrame \/ FlushDone \/ ReceiveCommand \/ OpenFails \/ Execute
           \/ CommandReturns \/ HandlerReturns
  <2>1. UNCHANGED <<hasPeer, peerKey, peerDev, outbound, known, registry>>
    BY <1>7 DEF IgnoreFrame, FlushDone, ReceiveCommand, OpenFails, Execute, CommandReturns, HandlerReturns
  <2>2. pc' \notin {"touch", "setpeer"} \/ UNCHANGED <<pc, msg>>
    BY <1>7 DEF IgnoreFrame, FlushDone, ReceiveCommand, OpenFails, Execute, CommandReturns, HandlerReturns
  <2>. QED  BY <1>1, <2>1, <2>2, KnownKeeps
<1>8. CASE DaemonReady
  BY <1>1, <1>8, ControlForKnown DEF DaemonReady, ControlTypes
<1>9. CASE FlushOne
  <2>1. hasPeer /\ Head(buffer) \in Nat
    BY <1>0, <1>9 DEF FlushOne, TypeOK, HandlerType, SenderType
  <2>. QED  BY <1>1, <1>9, <2>1, SendForKnown DEF FlushOne
<1>10. CASE Reply
  <2>1. PairsAreKnown'
    BY <1>1, <1>10 DEF Reply
  <2>2. CASE hasPeer
    BY <1>10, <2>1, <2>2, SendForKnown DEF Reply, SendDirect
  <2>3. CASE ~hasPeer
    BY <1>10, <2>1, <2>3, KnownKeeps DEF Reply, SendDirect
  <2>. QED  BY <2>2, <2>3
<1>11. CASE Produce
  <2>1. PairsAreKnown'
    BY <1>1, <1>11 DEF Produce
  <2>2. CASE hasPeer
    <3>1. produced + 1 \in Nat
      BY <1>0, ConstantsAssumption DEF ConstantsAssumption, TypeOK, RestType
    <3>. QED  BY <1>11, <2>1, <2>2, <3>1, SendForKnown DEF Produce, SendBuffered
  <2>3. CASE ~hasPeer
    BY <1>11, <2>1, <2>3, KnownKeeps DEF Produce, SendBuffered
  <2>. QED  BY <2>2, <2>3
<1>12. CASE WriteLoop
  <2>1. /\ outbound \in Seq(OutFrame) /\ outbound # <<>> /\ outbound' = Tail(outbound)
        /\ UNCHANGED <<hasPeer, peerKey, peerDev, known>>
    BY <1>0, <1>12 DEF WriteLoop, TypeOK, ChannelsType
  <2>2. \A i \in DOMAIN outbound' :
          i + 1 \in DOMAIN outbound /\ outbound'[i] = outbound[i + 1]
    BY <2>1
  <2>3. SealedForKnownDevice'
    BY <2>1, <2>2 DEF KnownInv, SealedForKnownDevice, Sealed
  <2>. QED  BY <1>1, <1>12, <2>3 DEF WriteLoop
<1>13. CASE (\E frame \in InFrame : ReadLoop(frame)) \/ RelayDisconnects \/ PairingExpires
            \/ UNCHANGED vars
  <2>1. UNCHANGED <<hasPeer, peerKey, peerDev, outbound, known, registry, pc, msg>>
    BY <1>13 DEF ReadLoop, RelayDisconnects, PairingExpires, vars
  <2>. QED  BY <1>1, <2>1, KnownKeeps
<1>14. ASSUME NEW dev \in Devices, Revoke(dev)
       PROVE  PairsAreKnown' /\ SealedForKnownDevice'
  <2>1. PairsAreKnown'
    BY <1>0, <1>14 DEF Revoke, PairsAreKnown, TypeOK, RegistryType
  <2>. QED  BY <1>14, <2>1, KnownKeeps DEF Revoke
<1>15. ASSUME NEW dev \in Devices, NEW key \in Keys, OtherSessionAuthorizes(dev, key)
       PROVE  PairsAreKnown' /\ SealedForKnownDevice'
  <2>1. PairsAreKnown'
    BY <1>0, <1>15 DEF OtherSessionAuthorizes, PairsAreKnown, TypeOK, RegistryType
  <2>. QED  BY <1>15, <2>1, KnownKeeps DEF OtherSessionAuthorizes
<1>. QED
  BY <1>2, <1>3, <1>4, <1>5, <1>6, <1>7, <1>8, <1>9, <1>10, <1>11, <1>12, <1>13, <1>14,
     <1>15 DEF Next, Handler, HandlerRuns, Environment

\* No event is ever sealed for a key the registry has not held for a device.
THEOREM SealedForKnownDeviceAlways == Spec => []SealedForKnownDevice
<1>1. Init => PairsAreKnown /\ SealedForKnownDevice
  <2>1. Init => PairsAreKnown
    BY DEF Init, PairsAreKnown
  <2>2. Init => ~hasPeer /\ outbound = <<>>
    BY Zenon DEF Init
  <2>. QED  BY <2>1, <2>2 DEF SealedForKnownDevice
<1>2. TypeOK /\ PairsAreKnown /\ SealedForKnownDevice /\ [Next]_vars
        => PairsAreKnown' /\ SealedForKnownDevice'
  BY KnownNext DEF KnownInv
<1>. QED  BY <1>1, <1>2, TypeCorrect, PTL DEF Spec

-----------------------------------------------------------------------------
(* The order of commands *)

\* The receive window covers what has run since the peer key last changed.
WindowCovers ==
  \A i \in DOMAIN executed :
    /\ executed[i].epoch <= epoch
    /\ executed[i].epoch = epoch => executed[i].seq <= lastRecv /\ hasPeer

CommandsInv == TypeOK /\ WindowCovers /\ CommandsOnceInOrder

LEMMA CommandsNext ==
  ASSUME CommandsInv, [Next]_vars
  PROVE  WindowCovers' /\ CommandsOnceInOrder'
<1> USE DEF history, sender, peer, handler, wrote, Goto, Start, Done, SendReplies
<1>0. /\ TypeOK /\ WindowCovers /\ CommandsOnceInOrder
      /\ executed \in Seq([epoch : Nat, seq : Nat]) /\ epoch \in Nat /\ lastRecv \in Nat
  BY DEF CommandsInv, TypeOK, RestType, SenderType
<1>1. \A i \in DOMAIN executed : executed[i].epoch \in Nat /\ executed[i].seq \in Nat
  <2>1. SUFFICES ASSUME NEW i \in DOMAIN executed
                 PROVE  executed[i].epoch \in Nat /\ executed[i].seq \in Nat
    OBVIOUS
  <2>2. executed \in Seq([epoch : Nat, seq : Nat]) /\ i \in 1..Len(executed)
    BY <1>0
  <2>3. executed[i] \in [epoch : Nat, seq : Nat]
    BY <2>2, ElementOfSeq
  <2>. QED  BY <2>3
<1>2. ASSUME UNCHANGED <<executed, epoch, lastRecv, hasPeer>>
      PROVE  WindowCovers' /\ CommandsOnceInOrder'
  BY <1>0, <1>2 DEF WindowCovers, CommandsOnceInOrder
<1>3. CASE Execute
  <2> DEFINE e == [epoch |-> epoch, seq |-> msg.seq]
  <2>1. /\ hasPeer /\ UNCHANGED <<hasPeer, epoch>>
        /\ lastRecv' = msg.seq /\ msg.seq > lastRecv /\ msg.seq \in Nat
        /\ executed' = Append(executed, e)
    BY <1>0, <1>3 DEF Execute, Opens, TypeOK, HandlerType, Command
  <2>2. e.epoch = epoch /\ e.seq = msg.seq
    OBVIOUS
  <2> HIDE DEF e
  <2>3. /\ DOMAIN executed = 1..Len(executed) /\ Len(executed) \in Nat
        /\ DOMAIN executed' = 1..(Len(executed) + 1)
        /\ \A i \in DOMAIN executed : executed'[i] = executed[i]
        /\ executed'[Len(executed) + 1] = e
    BY <1>0, <2>1
  <2>4. WindowCovers'
    BY <1>0, <1>1, <2>1, <2>2, <2>3 DEF WindowCovers
  <2>5. CommandsOnceInOrder'
    <3>1. SUFFICES ASSUME NEW i \in DOMAIN executed', NEW j \in DOMAIN executed',
                          i < j, executed'[i].epoch = executed'[j].epoch
                   PROVE  executed'[i].seq < executed'[j].seq
      BY DEF CommandsOnceInOrder
    <3>2. i \in DOMAIN executed /\ executed'[i] = executed[i]
      BY <2>3, <3>1
    <3>3. CASE j \in DOMAIN executed
      BY <1>0, <2>3, <3>1, <3>2, <3>3 DEF CommandsOnceInOrder
    <3>4. CASE j = Len(executed) + 1
      BY <1>0, <1>1, <2>1, <2>2, <2>3, <3>1, <3>2, <3>4 DEF WindowCovers
    <3>. QED  BY <2>3, <3>3, <3>4
  <2>. QED  BY <2>4, <2>5
<1>4. CASE SetPeer
  <2>1. /\ UNCHANGED executed /\ hasPeer' = TRUE
        /\ \/ hasPeer /\ UNCHANGED <<epoch, lastRecv>>
           \/ epoch' = epoch + 1
    BY <1>4 DEF SetPeer, InstallPeer, NewWindow
  <2>2. CommandsOnceInOrder'
    BY <1>0, <2>1 DEF CommandsOnceInOrder
  <2>3. WindowCovers'
    BY <1>0, <1>1, <2>1 DEF WindowCovers
  <2>. QED  BY <2>2, <2>3
<1>5. CASE ReceiveHello \/ IgnoreFrame \/ Authorize \/ AuthorizeFails \/ Touch \/ FlushDone
           \/ DaemonReady \/ ReceiveCommand \/ OpenFails \/ CommandReturns \/ HandlerReturns
  BY <1>2, <1>5 DEF ReceiveHello, IgnoreFrame, Authorize, AuthorizeFails, Touch, FlushDone,
     DaemonReady, ReceiveCommand, OpenFails, CommandReturns, HandlerReturns
<1>6. CASE FlushOne \/ Reply \/ Produce
  BY <1>2, <1>6 DEF FlushOne, Reply, Produce, SendDirect, SendBuffered, SendLocked
<1>7. CASE WriteLoop \/ Environment \/ UNCHANGED vars
  BY <1>2, <1>7 DEF WriteLoop, Environment, ReadLoop, RelayDisconnects, PairingExpires,
     Revoke, OtherSessionAuthorizes, vars
<1>. QED  BY <1>3, <1>4, <1>5, <1>6, <1>7 DEF Next, Handler, HandlerRuns

\* However the relay repeats and reorders frames, the commands sealed by one key
\* run at most once and in the order of their numbers.
THEOREM CommandsOnceInOrderAlways == Spec => []CommandsOnceInOrder
<1>1. Init => WindowCovers /\ CommandsOnceInOrder
  BY DEF Init, WindowCovers, CommandsOnceInOrder
<1>2. TypeOK /\ WindowCovers /\ CommandsOnceInOrder /\ [Next]_vars
        => WindowCovers' /\ CommandsOnceInOrder'
  BY CommandsNext DEF CommandsInv
<1>. QED  BY <1>1, <1>2, TypeCorrect, PTL DEF Spec

-----------------------------------------------------------------------------
(* Revocation *)

\* A command past its check belongs to a device that is still authorized, or
\* that has run nothing since its entry changed.
CheckedIsFresh ==
  pc = "open" => registry[peerDev] = peerKey \/ afterRevoke[peerDev] = 0

RevokeInv == TypeOK /\ CheckedIsFresh /\ RevokeStopsCommands

LEMMA RevokeNext ==
  ASSUME RevokeInv, [Next]_vars
  PROVE  CheckedIsFresh' /\ RevokeStopsCommands'
<1> USE DEF history, sender, peer, handler, wrote, Goto, Start, Done, SendReplies
<1>0. /\ TypeOK /\ CheckedIsFresh /\ RevokeStopsCommands
      /\ registry \in [Devices -> Keys \cup {None}] /\ afterRevoke \in [Devices -> Nat]
  BY DEF RevokeInv, TypeOK, RegistryType
<1>1. ASSUME UNCHANGED afterRevoke, pc' # "open" \/ UNCHANGED <<pc, registry, peer>>
      PROVE  CheckedIsFresh' /\ RevokeStopsCommands'
  BY <1>0, <1>1 DEF CheckedIsFresh, RevokeStopsCommands
<1>2. CASE ReceiveCommand
  <2>1. UNCHANGED <<afterRevoke, registry, peer>>
    BY <1>2 DEF ReceiveCommand
  <2>2. CASE pc' = "open"
    <3>1. registry[peerDev] = peerKey
      BY <1>2, <2>2 DEF ReceiveCommand, IsAuthorized
    <3>. QED  BY <1>0, <2>1, <3>1 DEF CheckedIsFresh, RevokeStopsCommands
  <2>. QED  BY <1>1, <2>1, <2>2
<1>3. CASE Execute
  <2>1. pc = "open" /\ pc' # "open"
    BY <1>3 DEF Execute
  <2>2. CASE registry[peerDev] = peerKey
    BY <1>1, <1>3, <2>1, <2>2 DEF Execute
  <2>3. CASE registry[peerDev] # peerKey
    <3>1. /\ afterRevoke[peerDev] = 0
          /\ afterRevoke' = [afterRevoke EXCEPT ![peerDev] = @ + 1]
      BY <1>0, <1>3, <2>1, <2>3 DEF Execute, CheckedIsFresh
    <3>2. RevokeStopsCommands'
      BY <1>0, <3>1 DEF RevokeStopsCommands
    <3>. QED  BY <2>1, <3>2 DEF CheckedIsFresh
  <2>. QED  BY <2>2, <2>3
<1>4. ASSUME NEW d \in Devices, afterRevoke' = [afterRevoke EXCEPT ![d] = 0],
             \E k \in Keys \cup {None} : registry' = [registry EXCEPT ![d] = k],
             pc' # "open" \/ UNCHANGED <<pc, peer>>
      PROVE  CheckedIsFresh' /\ RevokeStopsCommands'
  <2>1. RevokeStopsCommands'
    BY <1>0, <1>4 DEF RevokeStopsCommands
  <2>2. ASSUME pc = "open" PROVE peerDev \in Devices
    BY <1>0, <2>2 DEF TypeOK, HandlerType, SenderType
  <2>3. CheckedIsFresh'
    BY <1>0, <1>4, <2>2 DEF CheckedIsFresh
  <2>. QED  BY <2>1, <2>3
<1>5. CASE Authorize
  <2>1. msg.dev \in Devices /\ msg.key \in Keys
    BY <1>0, <1>5 DEF Authorize, TypeOK, HandlerType
  <2>. QED  BY <1>4, <1>5, <2>1 DEF Authorize
<1>6. CASE \E dev \in Devices : Revoke(dev)
  BY <1>4, <1>6 DEF Revoke
<1>7. CASE \E dev \in Devices, key \in Keys : OtherSessionAuthorizes(dev, key)
  BY <1>4, <1>7 DEF OtherSessionAuthorizes
<1>8. CASE ReceiveHello \/ AuthorizeFails \/ Touch \/ SetPeer \/ FlushDone \/ DaemonReady
           \/ OpenFails \/ CommandReturns \/ HandlerReturns
  BY <1>1, <1>8 DEF ReceiveHello, AuthorizeFails, Touch, SetPeer, FlushDone, DaemonReady,
     OpenFails, CommandReturns, HandlerReturns
<1>9. CASE IgnoreFrame \/ FlushOne \/ Reply
  BY <1>1, <1>9 DEF IgnoreFrame, FlushOne, Reply
<1>10. CASE Produce
  BY <1>1, <1>10 DEF Produce, SendBuffered, SendLocked
<1>11. CASE WriteLoop \/ (\E frame \in InFrame : ReadLoop(frame)) \/ RelayDisconnects
            \/ PairingExpires \/ UNCHANGED vars
  BY <1>1, <1>11 DEF WriteLoop, ReadLoop, RelayDisconnects, PairingExpires, vars
<1>. QED  BY <1>2, <1>3, <1>5, <1>6, <1>7, <1>8, <1>9, <1>10, <1>11
     DEF Next, Handler, HandlerRuns, Environment

\* After a revocation at most the command that had passed its check still runs.
THEOREM RevokeStopsCommandsAlways == Spec => []RevokeStopsCommands
<1>1. Init => CheckedIsFresh /\ RevokeStopsCommands
  BY DEF Init, CheckedIsFresh, RevokeStopsCommands
<1>2. TypeOK /\ CheckedIsFresh /\ RevokeStopsCommands /\ [Next]_vars
        => CheckedIsFresh' /\ RevokeStopsCommands'
  BY RevokeNext DEF RevokeInv
<1>. QED  BY <1>1, <1>2, TypeCorrect, PTL DEF Spec

-----------------------------------------------------------------------------
(* The pairing buffer *)

\* Cutting a sequence to its newest n elements keeps the end, in order.
LEMMA NewestElements ==
  ASSUME NEW s \in Seq(Nat), NEW n \in Nat \ {0}
  PROVE  /\ Newest(s, n) \in Seq(Nat)
         /\ Len(Newest(s, n)) = IF Len(s) > n THEN n ELSE Len(s)
         /\ \A i \in DOMAIN Newest(s, n) :
              /\ i + Len(s) - Len(Newest(s, n)) \in DOMAIN s
              /\ Newest(s, n)[i] = s[i + Len(s) - Len(Newest(s, n))]
<1>1. CASE Len(s) > n
  <2>1. /\ SubSeq(s, Len(s) - n + 1, Len(s)) \in Seq(Nat)
        /\ Len(SubSeq(s, Len(s) - n + 1, Len(s))) = n
        /\ \A i \in 1..n : SubSeq(s, Len(s) - n + 1, Len(s))[i] = s[Len(s) - n + i]
    BY <1>1
  <2>2. Newest(s, n) = SubSeq(s, Len(s) - n + 1, Len(s))
    BY <1>1 DEF Newest
  <2>3. \A i \in 1..n : Len(s) - n + i = i + Len(s) - n /\ i + Len(s) - n \in 1..Len(s)
    BY <1>1
  <2>4. Newest(s, n) \in Seq(Nat) /\ Len(Newest(s, n)) = n /\ DOMAIN Newest(s, n) = 1..n
    BY <2>1, <2>2
  <2>5. ASSUME NEW i \in 1..n
        PROVE  i + Len(s) - n \in DOMAIN s /\ Newest(s, n)[i] = s[i + Len(s) - n]
    <3>1. Newest(s, n)[i] = s[Len(s) - n + i]
      BY <2>1, <2>2
    <3>. QED  BY <2>3, <3>1
  <2>. QED  BY <1>1, <2>4, <2>5
<1>2. CASE ~(Len(s) > n)
  BY <1>2 DEF Newest
<1>. QED  BY <1>1, <1>2

LEMMA BufferNext ==
  ASSUME TypeOK, BufferHoldsNewest, [Next]_vars
  PROVE  BufferHoldsNewest'
<1> USE DEF history, sender, peer, handler, wrote
<1>0. buffer \in Seq(Nat) /\ produced \in Nat /\ BufferCap \in Nat \ {0}
  BY ConstantsAssumption DEF ConstantsAssumption, TypeOK, SenderType, RestType
<1>1. ASSUME hasPeer' \/ UNCHANGED <<hasPeer, buffer, produced>>
      PROVE  BufferHoldsNewest'
  BY <1>1 DEF BufferHoldsNewest
<1>2. CASE Produce
  <2>1. CASE hasPeer
    BY <1>1, <1>2, <2>1 DEF Produce, SendBuffered, SendLocked
  <2>2. CASE ~hasPeer
    <3> DEFINE b == Append(buffer, produced + 1)
    <3>1. /\ buffer' = Newest(b, BufferCap) /\ produced' = produced + 1
          /\ ~hasPeer'
      BY <1>2, <2>2 DEF Produce, SendBuffered
    <3>2. /\ b \in Seq(Nat) /\ Len(b) = Len(buffer) + 1 /\ DOMAIN b = 1..(Len(buffer) + 1)
          /\ \A i \in 1..Len(buffer) : b[i] = buffer[i]
          /\ b[Len(buffer) + 1] = produced + 1
      BY <1>0
    <3>3. /\ Len(buffer) = IF produced < BufferCap THEN produced ELSE BufferCap
          /\ \A i \in DOMAIN buffer : buffer[i] = produced - Len(buffer) + i
      BY <2>2 DEF BufferHoldsNewest
    <3>4. ASSUME NEW i \in DOMAIN b PROVE b[i] = produced - Len(buffer) + i
      <4>1. Len(buffer) \in Nat /\ DOMAIN buffer = 1..Len(buffer)
        BY <1>0
      <4>2. CASE i = Len(buffer) + 1
        BY <1>0, <3>2, <4>1, <4>2
      <4>3. CASE i \in 1..Len(buffer)
        BY <3>2, <3>3, <4>1, <4>3
      <4>. QED  BY <3>2, <4>1, <4>2, <4>3
    <3> HIDE DEF b
    <3>5. /\ buffer' \in Seq(Nat)
          /\ Len(buffer') = IF Len(b) > BufferCap THEN BufferCap ELSE Len(b)
          /\ \A i \in DOMAIN buffer' :
               /\ i + Len(b) - Len(buffer') \in DOMAIN b
               /\ buffer'[i] = b[i + Len(b) - Len(buffer')]
      BY <1>0, <3>1, <3>2, NewestElements
    <3>6. Len(buffer') = IF produced' < BufferCap THEN produced' ELSE BufferCap
      BY <1>0, <3>1, <3>2, <3>3, <3>5
    <3>7. ASSUME NEW i \in DOMAIN buffer'
          PROVE  buffer'[i] = produced' - Len(buffer') + i
      <4>1. i \in Nat /\ Len(buffer') \in Nat /\ Len(buffer) \in Nat
        BY <1>0, <3>5
      <4>2. buffer'[i] = produced - Len(buffer) + (i + Len(b) - Len(buffer'))
        BY <3>4, <3>5
      <4>. QED  BY <1>0, <3>1, <3>2, <4>1, <4>2
    <3>. QED  BY <3>6, <3>7 DEF BufferHoldsNewest
  <2>. QED  BY <2>1, <2>2
<1>3. CASE FlushOne
  BY <1>1, <1>3 DEF FlushOne, SendLocked, TypeOK, HandlerType
<1>4. CASE SetPeer
  BY <1>1, <1>4 DEF SetPeer, InstallPeer
<1>5. CASE Reply
  BY <1>1, <1>5 DEF Reply, SendDirect, SendLocked
<1>6. CASE ReceiveHello \/ IgnoreFrame \/ Authorize \/ AuthorizeFails \/ Touch \/ FlushDone
           \/ DaemonReady \/ ReceiveCommand \/ OpenFails \/ Execute \/ CommandReturns \/ HandlerReturns
  BY <1>1, <1>6 DEF ReceiveHello, IgnoreFrame, Authorize, AuthorizeFails, Touch, FlushDone,
     DaemonReady, ReceiveCommand, OpenFails, Execute, CommandReturns, HandlerReturns
<1>7. CASE WriteLoop \/ Environment \/ UNCHANGED vars
  BY <1>1, <1>7 DEF WriteLoop, Environment, ReadLoop, RelayDisconnects, PairingExpires,
     Revoke, OtherSessionAuthorizes, vars
<1>. QED  BY <1>2, <1>3, <1>4, <1>5, <1>6, <1>7 DEF Next, Handler, HandlerRuns

\* For every capacity, the buffer of an unpaired session is exactly the newest
\* events.
THEOREM BufferHoldsNewestAlways == Spec => []BufferHoldsNewest
<1>1. Init => BufferHoldsNewest
  BY ConstantsAssumption DEF ConstantsAssumption, Init, BufferHoldsNewest
<1>2. TypeOK /\ BufferHoldsNewest /\ [Next]_vars => BufferHoldsNewest'
  BY BufferNext
<1>. QED  BY <1>1, <1>2, TypeCorrect, PTL DEF Spec

-----------------------------------------------------------------------------
(* The order of events *)

\* Once SetPeer has flushed the buffer it stays empty: a paired session puts
\* events straight into the queue, behind the ones it held back.
BufferIsFlushed ==
  /\ hasPeer /\ pc # "flush" => buffer = <<>>
  /\ wroteEv <= produced

EventsInv == TypeOK /\ BufferIsFlushed /\ EventsInOrder

\* Pushing a frame without a number leaves the numbered ones as they were.
LEMMA UnnumberedKeepsEvents ==
  ASSUME EventsInv, NEW f \in OutFrame, f.type # "ciphertext" \/ f.ev = 0,
         outbound' = Queue(outbound, f), UNCHANGED <<buffer, produced, wroteEv>>
  PROVE  EventsInOrder'
<1>1. outbound \in Seq(OutFrame)
  BY DEF EventsInv, TypeOK, ChannelsType
<1>2. ASSUME NEW i \in DOMAIN outbound', Numbered(i)'
      PROVE  i \in DOMAIN outbound /\ outbound'[i] = outbound[i] /\ Numbered(i)
  BY <1>1, <1>2, QueueElements DEF Numbered, Sealed
<1>. QED  BY <1>2 DEF EventsInv, EventsInOrder

\* A number above every number queued or written may be pushed, when the rest
\* of the buffer is above it.
LEMMA NumberedKeepsEvents ==
  ASSUME EventsInv, NEW f \in OutFrame, outbound' = Queue(outbound, f),
         wroteEv < f.ev, f.ev <= produced', UNCHANGED wroteEv, produced <= produced',
         produced' \in Nat,
         \A i \in DOMAIN outbound : Numbered(i) => outbound[i].ev < f.ev,
         \A k \in DOMAIN buffer' :
           /\ f.ev < buffer'[k] /\ buffer'[k] <= produced' /\ buffer'[k] \in Nat
           /\ \A l \in DOMAIN buffer' : k < l => buffer'[k] < buffer'[l]
  PROVE  EventsInOrder'
<1>1. outbound \in Seq(OutFrame) /\ produced \in Nat /\ wroteEv \in Nat
  BY ConstantsAssumption DEF ConstantsAssumption, EventsInv, TypeOK, ChannelsType, RestType
<1>2. \A i \in DOMAIN outbound : outbound[i].ev \in Nat
  BY <1>1, QueuedNumbers
<1>3. f.ev \in Nat
  BY DEF OutFrame
<1>4. DOMAIN outbound = 1..Len(outbound) /\ Len(outbound) \in Nat
  BY <1>1
<1>5. ASSUME NEW i \in DOMAIN outbound'
      PROVE  \/ i \in DOMAIN outbound /\ outbound'[i] = outbound[i]
             \/ i = Len(outbound) + 1 /\ outbound'[i] = f
  BY <1>1, <1>5, QueueElements
<1>6. ASSUME NEW i \in DOMAIN outbound', Numbered(i)'
      PROVE  /\ wroteEv' < outbound'[i].ev /\ outbound'[i].ev <= f.ev
             /\ outbound'[i].ev \in Nat
  BY <1>1, <1>2, <1>3, <1>5, <1>6 DEF EventsInv, EventsInOrder, Numbered, Sealed
<1>7. ASSUME NEW i \in DOMAIN outbound', NEW j \in DOMAIN outbound', i < j,
             Numbered(i)', Numbered(j)'
      PROVE  outbound'[i].ev < outbound'[j].ev
  <2>1. i \in DOMAIN outbound /\ outbound'[i] = outbound[i]
    <3>1. CASE j \in DOMAIN outbound
      BY <1>4, <1>5, <1>7, <3>1
    <3>2. CASE j = Len(outbound) + 1
      BY <1>4, <1>5, <1>7, <3>2
    <3>. QED  BY <1>5, <3>1, <3>2
  <2>2. Numbered(i)
    BY <1>7, <2>1 DEF Numbered, Sealed
  <2>3. CASE j \in DOMAIN outbound /\ outbound'[j] = outbound[j]
    BY <1>7, <2>1, <2>2, <2>3 DEF Numbered, Sealed, EventsInv, EventsInOrder
  <2>4. CASE j = Len(outbound) + 1 /\ outbound'[j] = f
    BY <2>1, <2>2, <2>4
  <2>. QED  BY <1>5, <2>3, <2>4
<1>8. \A i \in DOMAIN outbound' : Numbered(i)' =>
        wroteEv' < outbound'[i].ev /\ outbound'[i].ev <= produced'
  BY <1>3, <1>6
<1>9. \A k \in DOMAIN buffer' :
        /\ wroteEv' < buffer'[k] /\ buffer'[k] <= produced'
        /\ \A i \in DOMAIN outbound' : Numbered(i)' => outbound'[i].ev < buffer'[k]
  BY <1>1, <1>3, <1>6
<1>. QED  BY <1>7, <1>8, <1>9 DEF EventsInOrder

LEMMA EventsAfterProduce ==
  ASSUME EventsInv, Produce
  PROVE  BufferIsFlushed' /\ EventsInOrder'
<1> USE DEF history, sender, peer, handler, wrote
<1>0. /\ buffer \in Seq(Nat) /\ produced \in Nat /\ wroteEv \in Nat
      /\ outbound \in Seq(OutFrame) /\ BufferCap \in Nat \ {0}
  BY ConstantsAssumption
     DEF ConstantsAssumption, EventsInv, TypeOK, SenderType, ChannelsType, RestType
<1>1. pc # "flush" /\ produced' = produced + 1 /\ UNCHANGED <<pc, wroteEv>>
  BY DEF Produce
<1>2. \A i \in DOMAIN outbound : outbound[i].ev \in Nat
  BY <1>0, QueuedNumbers
<1>3. \A k \in DOMAIN buffer : buffer[k] \in Nat
  BY <1>0
<1>4. CASE hasPeer
  <2>1. buffer = <<>> /\ UNCHANGED <<buffer, hasPeer>>
    BY <1>1, <1>4 DEF Produce, SendBuffered, SendLocked, EventsInv, BufferIsFlushed
  <2>2. BufferIsFlushed'
    BY <1>0, <1>1, <2>1 DEF EventsInv, BufferIsFlushed
  <2>3. CASE UNCHANGED outbound
    BY <1>0, <1>1, <1>2, <2>1, <2>2, <2>3 DEF EventsInv, EventsInOrder, Numbered, Sealed
  <2>4. CASE outbound' = Queue(outbound, [type |-> "ciphertext", to |-> peerKey,
                                          seq |-> seq + 1, ev |-> produced + 1])
    <3> DEFINE f == [type |-> "ciphertext", to |-> peerKey, seq |-> seq + 1,
                     ev |-> produced + 1]
    <3>1. f \in OutFrame /\ f.ev = produced + 1 /\ outbound' = Queue(outbound, f)
      BY <1>0, <2>4 DEF OutFrame, EventsInv, TypeOK, SenderType
    <3> HIDE DEF f
    <3>2. wroteEv < f.ev /\ f.ev <= produced' /\ produced <= produced' /\ produced' \in Nat
      BY <1>0, <1>1, <3>1 DEF EventsInv, BufferIsFlushed
    <3>3. \A i \in DOMAIN outbound : Numbered(i) => outbound[i].ev < f.ev
      BY <1>0, <1>2, <3>1 DEF EventsInv, EventsInOrder
    <3>4. DOMAIN buffer' = {}
      BY <2>1
    <3>. QED  BY <1>1, <2>2, <3>1, <3>2, <3>3, <3>4, NumberedKeepsEvents
  <2>. QED  BY <1>1, <1>4, <2>3, <2>4 DEF Produce, SendBuffered, SendLocked
<1>5. CASE ~hasPeer
  <2> DEFINE b == Append(buffer, produced + 1)
  <2>1. buffer' = Newest(b, BufferCap) /\ UNCHANGED <<hasPeer, outbound>>
    BY <1>5 DEF Produce, SendBuffered
  <2>2. /\ b \in Seq(Nat) /\ Len(b) = Len(buffer) + 1 /\ DOMAIN b = 1..(Len(buffer) + 1)
        /\ DOMAIN buffer = 1..Len(buffer) /\ Len(buffer) \in Nat
        /\ \A i \in 1..Len(buffer) : b[i] = buffer[i]
        /\ b[Len(buffer) + 1] = produced + 1
    BY <1>0
  <2> HIDE DEF b
  <2>3. \A k \in DOMAIN b : wroteEv < b[k] /\ b[k] <= produced' /\ b[k] \in Nat
    <3>1. wroteEv <= produced /\ produced \in Nat /\ produced' = produced + 1
      BY <1>0, <1>1 DEF EventsInv, BufferIsFlushed
    <3>2. \A k \in 1..Len(buffer) : wroteEv < buffer[k] /\ buffer[k] <= produced
      BY <2>2 DEF EventsInv, EventsInOrder
    <3>3. ASSUME NEW k \in DOMAIN b PROVE wroteEv < b[k] /\ b[k] <= produced' /\ b[k] \in Nat
      <4>1. CASE k \in 1..Len(buffer)
        BY <1>0, <1>3, <2>2, <3>1, <3>2, <4>1
      <4>2. CASE k = Len(buffer) + 1
        BY <1>0, <2>2, <3>1, <4>2
      <4>. QED  BY <2>2, <4>1, <4>2
    <3>. QED  BY <3>3
  <2>4. ASSUME NEW k \in DOMAIN b, NEW l \in DOMAIN b, k < l PROVE b[k] < b[l]
    <3>1. k \in 1..Len(buffer) /\ b[k] = buffer[k] /\ buffer[k] <= produced
      BY <2>2, <2>4 DEF EventsInv, EventsInOrder
    <3>2. CASE l \in 1..Len(buffer)
      BY <2>2, <2>4, <3>1, <3>2 DEF EventsInv, EventsInOrder
    <3>3. CASE l = Len(buffer) + 1
      BY <1>0, <1>3, <2>2, <3>1, <3>3
    <3>. QED  BY <2>2, <3>2, <3>3
  <2>5. ASSUME NEW k \in DOMAIN b, NEW i \in DOMAIN outbound, Numbered(i)
        PROVE  outbound[i].ev < b[k]
    <3>1. CASE k \in 1..Len(buffer)
      BY <2>2, <2>5, <3>1 DEF EventsInv, EventsInOrder
    <3>2. CASE k = Len(buffer) + 1
      BY <1>0, <1>2, <2>2, <2>5, <3>2 DEF EventsInv, EventsInOrder
    <3>. QED  BY <2>2, <3>1, <3>2
  <2> DEFINE at(k) == k + Len(b) - Len(buffer')
  <2>6. /\ buffer' \in Seq(Nat) /\ Len(buffer') \in Nat /\ DOMAIN buffer' = 1..Len(buffer')
        /\ \A k \in DOMAIN buffer' : at(k) \in DOMAIN b /\ buffer'[k] = b[at(k)]
    <3>1. BufferCap \in Nat \ {0}
      BY <1>0
    <3>2. /\ buffer' \in Seq(Nat)
          /\ \A k \in DOMAIN buffer' : at(k) \in DOMAIN b /\ buffer'[k] = b[at(k)]
      BY <2>1, <2>2, <3>1, NewestElements
    <3>. QED  BY <3>2
  <2>7. \A k, l \in DOMAIN buffer' : k < l => at(k) < at(l)
    BY <2>2, <2>6
  <2> HIDE DEF at
  <2>8. \A k \in DOMAIN buffer' :
          /\ wroteEv' < buffer'[k] /\ buffer'[k] <= produced'
          /\ \A i \in DOMAIN outbound' : Numbered(i)' => outbound'[i].ev < buffer'[k]
    BY <1>1, <2>1, <2>3, <2>5, <2>6 DEF Numbered, Sealed
  <2>9. \A k, l \in DOMAIN buffer' : k < l => buffer'[k] < buffer'[l]
    BY <2>4, <2>6, <2>7
  <2>10. /\ \A i \in DOMAIN outbound' : Numbered(i)' =>
              wroteEv' < outbound'[i].ev /\ outbound'[i].ev <= produced'
         /\ \A i, j \in DOMAIN outbound' : i < j /\ Numbered(i)' /\ Numbered(j)' =>
              outbound'[i].ev < outbound'[j].ev
    BY <1>0, <1>1, <1>2, <2>1 DEF EventsInv, EventsInOrder, Numbered, Sealed
  <2>11. EventsInOrder'
    BY <2>8, <2>9, <2>10 DEF EventsInOrder
  <2>12. BufferIsFlushed'
    BY <1>0, <1>1, <1>5, <2>1 DEF EventsInv, BufferIsFlushed
  <2>. QED  BY <2>11, <2>12
<1>. QED  BY <1>4, <1>5

LEMMA EventsAfterFlush ==
  ASSUME EventsInv, FlushOne
  PROVE  BufferIsFlushed' /\ EventsInOrder'
<1> USE DEF history, sender, peer, handler, wrote
<1>0. /\ buffer \in Seq(Nat) /\ produced \in Nat /\ wroteEv \in Nat
      /\ outbound \in Seq(OutFrame) /\ hasPeer
  BY ConstantsAssumption
     DEF ConstantsAssumption, EventsInv, TypeOK, SenderType, ChannelsType, RestType,
         HandlerType, FlushOne
<1>1. /\ pc = "flush" /\ buffer # <<>> /\ buffer' = Tail(buffer)
      /\ UNCHANGED <<pc, produced, wroteEv>>
  BY DEF FlushOne
<1>2. /\ 1 \in DOMAIN buffer /\ Head(buffer) = buffer[1] /\ Head(buffer) \in Nat
      /\ DOMAIN buffer \subseteq Nat /\ DOMAIN buffer' \subseteq Nat
      /\ \A k \in DOMAIN buffer' :
           k + 1 \in DOMAIN buffer /\ 1 < k + 1 /\ buffer'[k] = buffer[k + 1]
  BY <1>0, <1>1
<1>3. \A k \in DOMAIN buffer : buffer[k] \in Nat
  BY <1>0
<1>4. BufferIsFlushed'
  BY <1>0, <1>1 DEF EventsInv, BufferIsFlushed
<1>5. \A k \in DOMAIN buffer' :
        /\ wroteEv < buffer'[k] /\ Head(buffer) < buffer'[k] /\ buffer'[k] <= produced
        /\ buffer'[k] \in Nat
        /\ \A l \in DOMAIN buffer' : k < l => buffer'[k] < buffer'[l]
        /\ \A i \in DOMAIN outbound : Numbered(i) => outbound[i].ev < buffer'[k]
  BY <1>2, <1>3 DEF EventsInv, EventsInOrder
<1>6. CASE UNCHANGED outbound
  BY <1>1, <1>4, <1>5, <1>6 DEF EventsInv, EventsInOrder, Numbered, Sealed
<1>7. CASE outbound' = Queue(outbound, [type |-> "ciphertext", to |-> peerKey,
                                        seq |-> seq + 1, ev |-> Head(buffer)])
  <2> DEFINE f == [type |-> "ciphertext", to |-> peerKey, seq |-> seq + 1,
                   ev |-> Head(buffer)]
  <2>1. f \in OutFrame /\ f.ev = Head(buffer) /\ outbound' = Queue(outbound, f)
    BY <1>2, <1>7 DEF OutFrame, EventsInv, TypeOK, SenderType
  <2> HIDE DEF f
  <2>2. /\ wroteEv < f.ev /\ f.ev <= produced
        /\ \A i \in DOMAIN outbound : Numbered(i) => outbound[i].ev < f.ev
    BY <1>2, <2>1 DEF EventsInv, EventsInOrder
  <2>3. \A k \in DOMAIN buffer' :
          /\ f.ev < buffer'[k] /\ buffer'[k] <= produced' /\ buffer'[k] \in Nat
          /\ \A l \in DOMAIN buffer' : k < l => buffer'[k] < buffer'[l]
    BY <1>1, <1>5, <2>1
  <2>4. produced <= produced' /\ produced' \in Nat /\ f.ev <= produced'
    BY <1>0, <1>1, <2>2
  <2>. QED  BY <1>1, <1>4, <2>1, <2>2, <2>3, <2>4, NumberedKeepsEvents
<1>. QED  BY <1>6, <1>7 DEF FlushOne, SendLocked

LEMMA EventsAfterWrite ==
  ASSUME EventsInv, WriteLoop
  PROVE  BufferIsFlushed' /\ EventsInOrder'
<1> USE DEF history, sender, peer, handler, wrote
<1>1. /\ outbound \in Seq(OutFrame) /\ outbound # <<>> /\ outbound' = Tail(outbound)
      /\ UNCHANGED <<hasPeer, pc, buffer, produced>>
      /\ produced \in Nat /\ wroteEv \in Nat /\ buffer \in Seq(Nat)
  BY ConstantsAssumption
     DEF ConstantsAssumption, EventsInv, TypeOK, ChannelsType, SenderType, RestType, WriteLoop
<1>2. /\ 1 \in DOMAIN outbound /\ Head(outbound) = outbound[1]
      /\ DOMAIN outbound' \subseteq Nat
      /\ \A i \in DOMAIN outbound' :
           i + 1 \in DOMAIN outbound /\ 1 < i + 1 /\ outbound'[i] = outbound[i + 1]
  BY <1>1
<1>3. \A i \in DOMAIN outbound : outbound[i].ev \in Nat
  BY <1>1, QueuedNumbers
<1>4. \A i \in DOMAIN outbound' : Numbered(i)' => Numbered(i + 1)
  BY <1>2 DEF Numbered, Sealed
<1>5. \A k \in DOMAIN buffer : buffer[k] \in Nat
  BY <1>1
<1>6. CASE Numbered(1)
  <2>1. wroteEv' = outbound[1].ev /\ outbound[1].ev <= produced
    BY <1>2, <1>6 DEF WriteLoop, Numbered, Sealed, EventsInv, EventsInOrder
  <2>. QED  BY <1>1, <1>2, <1>3, <1>4, <1>5, <1>6, <2>1
            DEF EventsInv, EventsInOrder, BufferIsFlushed
<1>7. CASE ~Numbered(1)
  <2>1. wroteEv' = wroteEv
    BY <1>2, <1>3, <1>7 DEF WriteLoop, Numbered, Sealed
  <2>. QED  BY <1>1, <1>2, <1>3, <1>4, <2>1 DEF EventsInv, EventsInOrder, BufferIsFlushed
<1>. QED  BY <1>6, <1>7

LEMMA EventsNext ==
  ASSUME EventsInv, [Next]_vars
  PROVE  BufferIsFlushed' /\ EventsInOrder'
<1> USE DEF history, sender, peer, handler, wrote, Goto, Start, Done, SendReplies
<1>0. TypeOK /\ BufferIsFlushed /\ EventsInOrder
  BY DEF EventsInv
<1>1. ASSUME UNCHANGED <<hasPeer, buffer, produced, wroteEv>>, pc # "flush"
      PROVE  BufferIsFlushed'
  BY <1>0, <1>1 DEF BufferIsFlushed
<1>2. ASSUME UNCHANGED <<outbound, buffer, produced, wroteEv>>
      PROVE  EventsInOrder'
  BY <1>0, <1>2 DEF EventsInOrder, Numbered, Sealed
<1>3. ASSUME NEW t \in ControlTypes, outbound' = Queue(outbound, Control(t)),
             UNCHANGED <<buffer, produced, wroteEv>>
      PROVE  EventsInOrder'
  <2>1. Control(t) \in OutFrame /\ Control(t).type # "ciphertext"
    BY ControlType DEF Control, ControlTypes
  <2>. QED  BY <1>3, <2>1, UnnumberedKeepsEvents
<1>4. CASE ReceiveHello
  <2>1. BufferIsFlushed'
    BY <1>1, <1>4 DEF ReceiveHello
  <2>2. CASE UNCHANGED outbound
    BY <1>2, <1>4, <2>1, <2>2 DEF ReceiveHello
  <2>3. CASE \E t \in ControlTypes : outbound' = Queue(outbound, Control(t))
    BY <1>3, <1>4, <2>1, <2>3 DEF ReceiveHello
  <2>. QED  BY <1>4, <2>2, <2>3 DEF ReceiveHello, ControlTypes
<1>5. CASE AuthorizeFails \/ DaemonReady
  BY <1>1, <1>3, <1>5 DEF AuthorizeFails, DaemonReady, ControlTypes
<1>6. CASE IgnoreFrame \/ Authorize \/ Touch \/ ReceiveCommand \/ OpenFails \/ Execute
           \/ CommandReturns \/ HandlerReturns
  BY <1>1, <1>2, <1>6 DEF IgnoreFrame, Authorize, Touch, ReceiveCommand, OpenFails, Execute,
     CommandReturns, HandlerReturns
<1>7. CASE SetPeer
  <2>1. BufferIsFlushed'
    BY <1>0, <1>7 DEF SetPeer, BufferIsFlushed
  <2>. QED  BY <1>2, <1>7, <2>1 DEF SetPeer
<1>8. CASE FlushOne
  BY <1>8, EventsAfterFlush
<1>9. CASE FlushDone
  <2>1. BufferIsFlushed'
    BY <1>0, <1>9 DEF FlushDone, BufferIsFlushed
  <2>. QED  BY <1>2, <1>9, <2>1 DEF FlushDone
<1>10. CASE Reply
  <2>1. BufferIsFlushed'
    BY <1>1, <1>10 DEF Reply, SendDirect, SendLocked
  <2>2. CASE UNCHANGED outbound
    BY <1>2, <1>10, <2>1, <2>2 DEF Reply, SendDirect
  <2>3. CASE hasPeer /\ outbound' = Queue(outbound, [type |-> "ciphertext", to |-> peerKey,
                                                     seq |-> seq + 1, ev |-> 0])
    <3> DEFINE f == [type |-> "ciphertext", to |-> peerKey, seq |-> seq + 1, ev |-> 0]
    <3>1. f \in OutFrame /\ f.ev = 0 /\ outbound' = Queue(outbound, f)
      BY <1>0, <2>3 DEF OutFrame, TypeOK, SenderType
    <3> HIDE DEF f
    <3>. QED  BY <1>10, <2>1, <3>1, UnnumberedKeepsEvents DEF Reply, SendDirect
  <2>. QED  BY <1>10, <2>2, <2>3 DEF Reply, SendDirect, SendLocked
<1>11. CASE Produce
  BY <1>11, EventsAfterProduce
<1>12. CASE WriteLoop
  BY <1>12, EventsAfterWrite
<1>13. CASE Environment \/ UNCHANGED vars
  <2>1. UNCHANGED <<hasPeer, outbound, buffer, produced, wroteEv, pc>>
    BY <1>13 DEF Environment, ReadLoop, RelayDisconnects, PairingExpires, Revoke,
       OtherSessionAuthorizes, vars
  <2>. QED  BY <1>0, <1>2, <2>1 DEF BufferIsFlushed
<1>. QED
  BY <1>4, <1>5, <1>6, <1>7, <1>8, <1>9, <1>10, <1>11, <1>12, <1>13 DEF Next, Handler, HandlerRuns

\* Producer events are written in the order of their Send calls, each at most
\* once, through every overflow, flush and change of the phone.
THEOREM EventsInOrderAlways == Spec => []EventsInOrder
<1>1. Init => BufferIsFlushed /\ EventsInOrder
  BY DEF Init, BufferIsFlushed, EventsInOrder
<1>2. TypeOK /\ BufferIsFlushed /\ EventsInOrder /\ [Next]_vars
        => BufferIsFlushed' /\ EventsInOrder'
  BY EventsNext DEF EventsInv
<1>. QED  BY <1>1, <1>2, TypeCorrect, PTL DEF Spec
-----------------------------------------------------------------------------
(* The registry as an abstract one *)

\* DaemonSession takes the registry file for one that is never torn; any value that is
\* no map of keys will do for the torn one.
Registry == INSTANCE AtomicRegistry
              WITH content <- registry,
                   Torn <- CHOOSE t : t \notin [Devices -> Keys \cup {None}]

LEMMA RegistryIsWhole ==
  ASSUME TypeOK
  PROVE  registry # CHOOSE t : t \notin [Devices -> Keys \cup {None}]
<1>1. \E t : t \notin [Devices -> Keys \cup {None}]
  BY NoSetContainsEverything
<1>. QED  BY <1>1 DEF TypeOK, RegistryType

LEMMA RegistryStep ==
  ASSUME TypeOK, [Next]_vars
  PROVE  [Registry!Next]_registry
<1> DEFINE torn == CHOOSE t : t \notin [Devices -> Keys \cup {None}]
<1>0. registry # torn
  BY RegistryIsWhole
<1> HIDE DEF torn
<1>1. CASE Authorize
  <2>1. msg.dev \in Devices /\ msg.key \in Keys
    BY <1>1 DEF Authorize, TypeOK, HandlerType
  <2>2. registry' = [registry EXCEPT ![msg.dev] = msg.key]
    BY <1>1 DEF Authorize
  <2>. QED  BY <1>0, <2>1, <2>2 DEF Registry!Next, Registry!Authorize, torn
<1>2. ASSUME NEW dev \in Devices, Revoke(dev) PROVE [Registry!Next]_registry
  BY <1>0, <1>2 DEF Revoke, Registry!Next, Registry!Revoke, torn
<1>3. ASSUME NEW dev \in Devices, NEW key \in Keys, OtherSessionAuthorizes(dev, key)
      PROVE [Registry!Next]_registry
  BY <1>0, <1>3 DEF OtherSessionAuthorizes, Registry!Next, Registry!Authorize, torn
<1>4. CASE UNCHANGED registry
  BY <1>4
<1>5. \/ UNCHANGED registry \/ Authorize \/ (\E dev \in Devices : Revoke(dev))
      \/ (\E dev \in Devices, key \in Keys : OtherSessionAuthorizes(dev, key))
  BY DEF Next, Handler, HandlerRuns, Environment, vars, ReceiveHello, IgnoreFrame, AuthorizeFails, Touch, SetPeer,
         FlushOne, FlushDone, DaemonReady, ReceiveCommand, OpenFails, Execute, Reply, CommandReturns, HandlerReturns,
         Produce, WriteLoop, ReadLoop, RelayDisconnects, PairingExpires
<1>. QED  BY <1>1, <1>2, <1>3, <1>4, <1>5

\* The handler, `devices revoke` and the other sessions change the registry only as the
\* abstract one allows, which DeviceRegistry implements: one entry at a time, to a key
\* that passed the checks of a hello or to nothing (handleInbound, devices.go).
THEOREM UsesAtomicRegistry == Spec => Registry!Spec
<1>1. Init => Registry!Init
  BY DEF Init, Registry!Init
<1>2. TypeOK /\ [Next]_vars => [Registry!Next]_registry
  BY RegistryStep
<1>. QED  BY <1>1, <1>2, TypeCorrect, PTL DEF Spec, Registry!Spec
-----------------------------------------------------------------------------
(* The handler comes to an end of each frame *)

\* At most so many steps of the handler are left of its frame: a hello has the whole
\* buffer before it, a git command three replies.
StepsLeft ==
  CASE pc = "idle"   -> 0
    [] pc = "reply"  -> left + 1
    [] pc = "run"    -> 5
    [] pc = "open"   -> 6
    [] pc = "ready"  -> 3
    [] pc = "flush"  -> 4 + Len(buffer)
    [] pc = "setpeer" -> 5 + BufferCap
    [] OTHER         -> 6 + BufferCap

\* Each step of the handler leaves fewer, and nobody else adds any: not the producers,
\* who fill the buffer only before SetPeer has the mutex, nor queue or link.
FrameComesToAnEnd ==
  [][pc # "idle" => StepsLeft' <= StepsLeft /\ (Handler => StepsLeft' < StepsLeft)]_vars

LEMMA StepsLeftAt ==
  ASSUME TypeOK
  PROVE  /\ StepsLeft \in Nat /\ BufferCap \in Nat /\ Len(buffer) \in 0..BufferCap /\ left \in 0..3
         /\ pc = "idle" => StepsLeft = 0
         /\ pc = "reply" => StepsLeft = left + 1
         /\ pc = "run" => StepsLeft = 5
         /\ pc = "open" => StepsLeft = 6
         /\ pc = "ready" => StepsLeft = 3
         /\ pc = "flush" => StepsLeft = 4 + Len(buffer)
         /\ pc = "setpeer" => StepsLeft = 5 + BufferCap
         /\ pc \in {"authorize", "touch"} => StepsLeft = 6 + BufferCap
<1>1. BufferCap \in Nat /\ Len(buffer) \in 0..BufferCap /\ left \in 0..3
  BY ConstantsAssumption, LenProperties DEF ConstantsAssumption, TypeOK, SenderType, HandlerType
<1>. QED  BY <1>1 DEF StepsLeft, TypeOK, HandlerType, Points

LEMMA StepsLeftAfter ==
  ASSUME TypeOK'
  PROVE  /\ StepsLeft' \in Nat /\ BufferCap \in Nat /\ Len(buffer') \in 0..BufferCap /\ left' \in 0..3
         /\ pc' = "idle" => StepsLeft' = 0
         /\ pc' = "reply" => StepsLeft' = left' + 1
         /\ pc' = "run" => StepsLeft' = 5
         /\ pc' = "open" => StepsLeft' = 6
         /\ pc' = "ready" => StepsLeft' = 3
         /\ pc' = "flush" => StepsLeft' = 4 + Len(buffer')
         /\ pc' = "setpeer" => StepsLeft' = 5 + BufferCap
<1>1. BufferCap \in Nat /\ Len(buffer') \in 0..BufferCap /\ left' \in 0..3
  BY ConstantsAssumption, LenProperties DEF ConstantsAssumption, TypeOK, SenderType, HandlerType
<1>. QED  BY <1>1 DEF StepsLeft, TypeOK, HandlerType, Points

LEMMA HandlerStepsDown ==
  ASSUME TypeOK, TypeOK', pc # "idle", Handler
  PROVE  StepsLeft' < StepsLeft
<1>0. /\ pc \in Points \ {"idle"}
      /\ Len(buffer) \in 0..BufferCap /\ Len(buffer') \in 0..BufferCap /\ BufferCap \in Nat
      /\ left \in 0..3 /\ left' \in 0..3
  BY StepsLeftAt, StepsLeftAfter DEF TypeOK, HandlerType
<1>1. CASE Authorize \/ AuthorizeFails \/ Touch
  BY <1>0, <1>1, StepsLeftAt, StepsLeftAfter DEF Authorize, AuthorizeFails, Touch, Goto, Done, Start
<1>2. CASE SetPeer
  BY <1>0, <1>2, StepsLeftAt, StepsLeftAfter DEF SetPeer, Goto
<1>3. CASE FlushOne
  <2>1. pc = "flush" /\ pc' = "flush" /\ buffer # <<>> /\ buffer' = Tail(buffer)
    BY <1>3 DEF FlushOne, handler
  <2>2. Len(buffer') = Len(buffer) - 1
    BY <2>1, HeadTailProperties DEF TypeOK, SenderType
  <2>. QED  BY <1>0, <2>1, <2>2, StepsLeftAt, StepsLeftAfter
<1>4. CASE FlushDone \/ DaemonReady
  BY <1>0, <1>4, StepsLeftAt, StepsLeftAfter DEF FlushDone, DaemonReady, Goto, SendReplies
<1>5. CASE OpenFails
  BY <1>0, <1>5, StepsLeftAt, StepsLeftAfter DEF OpenFails, SendReplies
<1>6. CASE Execute
  <2>1. pc = "open" /\ pc' \in {"run", "reply"}
    BY <1>6 DEF Execute, Goto, SendReplies
  <2>2. StepsLeft = 6
    BY <2>1, StepsLeftAt
  <2>3. StepsLeft' \in 0..5
    BY <1>0, <2>1, StepsLeftAfter
  <2>. QED  BY <2>2, <2>3
<1>7. CASE Reply
  BY <1>0, <1>7, StepsLeftAt, StepsLeftAfter DEF Reply
<1>8. CASE HandlerReturns
  BY <1>0, <1>8, StepsLeftAt, StepsLeftAfter DEF HandlerReturns, Done, Start
<1>10. CASE CommandReturns
  BY <1>0, <1>10, StepsLeftAt, StepsLeftAfter DEF CommandReturns, SendReplies
<1>9. ~(IgnoreFrame \/ ReceiveHello \/ ReceiveCommand)
  BY DEF IgnoreFrame, ReceiveHello, ReceiveCommand
<1>. QED  BY <1>1, <1>2, <1>3, <1>4, <1>5, <1>6, <1>7, <1>8, <1>9, <1>10 DEF Handler, HandlerRuns

LEMMA OthersAddNoStep ==
  ASSUME TypeOK, pc # "idle", Produce \/ WriteLoop \/ Environment \/ UNCHANGED vars
  PROVE  StepsLeft' = StepsLeft
<1>1. UNCHANGED <<pc, left>> /\ (pc = "flush" => UNCHANGED buffer)
  BY DEF Produce, WriteLoop, Environment, ReadLoop, RelayDisconnects, PairingExpires, Revoke,
         OtherSessionAuthorizes, vars, handler, sender
<1>. QED  BY <1>1 DEF StepsLeft

\* A frame that the handler has taken is finished in at most BufferCap + 6 of its steps,
\* however fast the producers are and whether or not the link is there: what HandlerProgress
\* rests on besides the scheduler (handleInbound, SetPeer, handleCiphertext).
THEOREM FrameComesToAnEndAlways == Spec => FrameComesToAnEnd
<1>1. TypeOK /\ TypeOK' /\ [Next]_vars
        => [pc # "idle" => StepsLeft' <= StepsLeft /\ (Handler => StepsLeft' < StepsLeft)]_vars
  <2> SUFFICES ASSUME TypeOK, TypeOK', [Next]_vars, pc # "idle"
               PROVE  StepsLeft' <= StepsLeft /\ (Handler => StepsLeft' < StepsLeft)
    OBVIOUS
  <2>1. StepsLeft \in Nat
    BY StepsLeftAt
  <2>2. StepsLeft' \in Nat
    BY StepsLeftAfter
  <2>3. CASE Handler
    BY <2>1, <2>2, <2>3, HandlerStepsDown
  <2>4. CASE ~Handler
    BY <2>1, <2>4, OthersAddNoStep DEF Next
  <2>. QED  BY <2>3, <2>4
<1>. QED  BY <1>1, TypeCorrect, PTL DEF Spec, FrameComesToAnEnd
=============================================================================
