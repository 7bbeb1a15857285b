--------------------------- MODULE RelayHubProofs ---------------------------
(***************************************************************************)
(* Theorems about RelayHub for every number of sockets, sessions and       *)
(* frames and every queue capacity.                                        *)
(***************************************************************************)
EXTENDS RelayHub, SequenceTheorems, TLAPS

-----------------------------------------------------------------------------
(* Type correctness *)

LEMMA PushType ==
  ASSUME TypeOK, NEW p \in Clients, NEW f \in Queued, Push(p, f)
  PROVE  /\ send' \in [Clients -> Seq(Queued)]
         /\ \A c \in Clients : Len(send'[c]) <= SendCap
<1>1. send[p] \in Seq(Queued) /\ Append(send[p], f) \in Seq(Queued)
  BY DEF TypeOK
<1>2. CASE Len(send[p]) < SendCap
  <2>1. send' = [send EXCEPT ![p] = Append(send[p], f)]
    BY <1>2 DEF Push
  <2>2. Len(Append(send[p], f)) <= SendCap
    BY <1>1, <1>2, HubAssumption DEF HubAssumption
  <2>. QED  BY <1>1, <2>1, <2>2 DEF TypeOK
<1>3. CASE ~(Len(send[p]) < SendCap)
  BY <1>3 DEF Push, TypeOK
<1>. QED  BY <1>2, <1>3

LEMMA SetMembersDomain ==
  ASSUME TypeOK, NEW s \in Sids, NEW M \in SUBSET Clients,
         sessions' = SetMembers(s, M)
  PROVE  /\ DOMAIN sessions' \subseteq Sids
         /\ \A t \in DOMAIN sessions' : sessions'[t] \subseteq Clients
  BY DEF SetMembers, TypeOK

\* The part of TypeOK about one socket's point and binding.
PointOK ==
  \A c \in Clients :
    /\ pc[c] = "new" => ~Bound(c)
    /\ pc[c] \in {"dispatch", "forward"} => frame[c] \in Frame /\ Bound(c)
    /\ pc[c] \in {"register", "unregister"} => Bound(c)

LEMMA TypeNext ==
  ASSUME TypeOK, [Next]_vars
  PROVE  TypeOK'
<1> USE HubAssumption DEF HubAssumption, binding
<1>1. ASSUME NEW c \in Clients, AcceptBare(c) PROVE TypeOK'
  BY <1>1 DEF AcceptBare, TypeOK, Points, Bound
<1>2. ASSUME NEW c \in Clients, NEW s \in Sids, NEW r \in Roles, AcceptTicket(c, s, r)
      PROVE  TypeOK'
  BY <1>2 DEF AcceptTicket, TypeOK, Points, Bound
<1>3. ASSUME NEW c \in Clients, NEW kind \in {"ping", "data"}, NEW s \in Sids,
             NEW r \in Roles \cup {NoRole}, ReadFrame(c, kind, s, r)
      PROVE  TypeOK'
  <2> DEFINE f == [kind |-> kind, from |-> c, n |-> reads[c] + 1, sid |-> s, role |-> r]
  <2>1. reads[c] + 1 \in 1..MaxFrames /\ reads' \in [Clients -> 0..MaxFrames]
    BY <1>3 DEF ReadFrame, TypeOK
  <2>2. f \in Frame
    BY <2>1 DEF Frame
  <2>3. frame' = [frame EXCEPT ![c] = f] /\ Bind(c, f) /\ f.sid = s /\ f.role = r
    BY <1>3 DEF ReadFrame
  <2> HIDE DEF f
  <2>4. frame' \in [Clients -> Frame \cup {NoFrame}]
    BY <2>2, <2>3 DEF TypeOK
  <2>5. /\ sid' \in [Clients -> Sids \cup {NoSid}]
        /\ role' \in [Clients -> Roles \cup {NoRole}]
        /\ pc' \in [Clients -> Points]
    BY <2>3 DEF Bind, TypeOK, Points
  <2>6. PointOK'
    BY <1>3, <2>2, <2>3 DEF ReadFrame, Bind, TypeOK, PointOK, Bound
  <2>. QED  BY <1>3, <2>1, <2>4, <2>5, <2>6 DEF ReadFrame, TypeOK, PointOK, Bound
<1>4. ASSUME NEW c \in Clients, ReadFails(c) PROVE TypeOK'
  BY <1>4 DEF ReadFails, TypeOK, Points, Bound
<1>5. ASSUME NEW c \in Clients, Register(c) PROVE TypeOK'
  <2>1. sid[c] \in Sids /\ Members(sid[c]) \cup {c} \in SUBSET Clients
    BY <1>5 DEF Register, TypeOK, Bound, Members
  <2>2. /\ DOMAIN sessions' \subseteq Sids
        /\ \A t \in DOMAIN sessions' : sessions'[t] \subseteq Clients
    BY <1>5, <2>1, SetMembersDomain DEF Register
  <2>3. pc' \in [Clients -> Points]
    BY <1>5 DEF Register, TypeOK, Points
  <2>4. PointOK'
    BY <1>5 DEF Register, TypeOK, PointOK, Bound
  <2>. QED  BY <1>5, <2>2, <2>3, <2>4 DEF Register, TypeOK, PointOK, Bound
<1>6. ASSUME NEW c \in Clients, Unregister(c) PROVE TypeOK'
  <2>1. sid[c] \in Sids /\ Members(sid[c]) \ {c} \in SUBSET Clients
    BY <1>6 DEF Unregister, TypeOK, Bound, Members
  <2>2. /\ DOMAIN sessions' \subseteq Sids
        /\ \A t \in DOMAIN sessions' : sessions'[t] \subseteq Clients
    BY <1>6, <2>1, SetMembersDomain DEF Unregister
  <2>. QED  BY <1>6, <2>2 DEF Unregister, TypeOK, Points, Bound
<1>7. ASSUME NEW c \in Clients, NextRead(c), UNCHANGED todo,
             send' \in [Clients -> Seq(Queued)],
             \A d \in Clients : Len(send'[d]) <= SendCap
      PROVE  TypeOK'
  BY <1>7 DEF NextRead, TypeOK, Points, Bound
<1>8. ASSUME NEW c \in Clients, Refuse(c) PROVE TypeOK'
  BY <1>7, <1>8 DEF Refuse, TypeOK
<1>9. ASSUME NEW c \in Clients, AnswerPing(c) PROVE TypeOK'
  <2>1. Pong(c) \in Queued
    BY <1>9 DEF AnswerPing, Pong, Queued, TypeOK, Bound
  <2>2. /\ send' \in [Clients -> Seq(Queued)]
        /\ \A d \in Clients : Len(send'[d]) <= SendCap
    BY <1>9, <2>1, PushType DEF AnswerPing
  <2>. QED  BY <1>7, <1>9, <2>2 DEF AnswerPing
<1>10. ASSUME NEW c \in Clients, StartForward(c) PROVE TypeOK'
  <2>1. Members(sid[c]) \ {c} \subseteq Clients
    BY DEF Members, TypeOK
  <2>2. todo' \in [Clients -> SUBSET Clients] /\ pc' \in [Clients -> Points]
    BY <1>10, <2>1 DEF StartForward, TypeOK, Points
  <2>3. PointOK'
    BY <1>10 DEF StartForward, TypeOK, PointOK, Bound
  <2>. QED  BY <1>10, <2>2, <2>3 DEF StartForward, TypeOK, PointOK, Bound
<1>11. ASSUME NEW c \in Clients, NEW p \in Clients, ForwardTo(c, p) PROVE TypeOK'
  <2>1. frame[c] \in Queued
    BY <1>11 DEF ForwardTo, TypeOK, Queued
  <2>2. /\ send' \in [Clients -> Seq(Queued)]
        /\ \A d \in Clients : Len(send'[d]) <= SendCap
    BY <1>11, <2>1, PushType DEF ForwardTo
  <2>3. todo' \in [Clients -> SUBSET Clients]
    BY <1>11 DEF ForwardTo, TypeOK
  <2>. QED  BY <1>11, <2>2, <2>3 DEF ForwardTo, TypeOK, Bound
<1>12. ASSUME NEW c \in Clients, EndForward(c) PROVE TypeOK'
  BY <1>7, <1>12 DEF EndForward, TypeOK
<1>13. ASSUME NEW c \in Clients, Write(c) PROVE TypeOK'
  <2>1. send[c] \in Seq(Queued) /\ send[c] # <<>>
    BY <1>13 DEF Write, TypeOK
  <2>2. /\ Tail(send[c]) \in Seq(Queued) /\ Head(send[c]) \in Queued
        /\ Len(Tail(send[c])) <= Len(send[c])
    BY <2>1
  <2>3. /\ send' \in [Clients -> Seq(Queued)]
        /\ \A d \in Clients : Len(send'[d]) <= SendCap
    BY <1>13, <2>1, <2>2 DEF Write, TypeOK
  <2>4. got' \in [Clients -> [Clients -> 0..MaxFrames]]
    <3>1. CASE Head(send[c]).kind = "pong"
      BY <1>13, <3>1 DEF Write, TypeOK
    <3>2. CASE Head(send[c]).kind # "pong"
      <4>1. Head(send[c]) \in Frame
        BY <2>2, <3>2 DEF Queued
      <4>2. Head(send[c]).from \in Clients /\ Head(send[c]).n \in 0..MaxFrames
        BY <4>1 DEF Frame
      <4>. QED  BY <1>13, <3>2, <4>2 DEF Write, TypeOK
    <3>. QED  BY <3>1, <3>2
  <2>. QED  BY <1>13, <2>3, <2>4 DEF Write, TypeOK, Bound
<1>14. ASSUME NEW c \in Clients, WriterStops(c) PROVE TypeOK'
  BY <1>14 DEF WriterStops, TypeOK, Bound
<1>15. CASE UNCHANGED vars
  BY <1>15 DEF vars, TypeOK, Bound
<1>. QED  BY <1>1, <1>2, <1>3, <1>4, <1>5, <1>6, <1>8, <1>9, <1>10, <1>11, <1>12,
     <1>13, <1>14, <1>15 DEF Next, Reader

\* Queues keep their capacity and readers hold the frames their point requires.
THEOREM HubTypeCorrect == Spec => []TypeOK
<1>1. Init => TypeOK
  BY HubAssumption DEF HubAssumption, Init, TypeOK, Points, Bound
<1>2. TypeOK /\ [Next]_vars => TypeOK'
  BY TypeNext
<1>. QED  BY <1>1, <1>2, PTL DEF Spec

-----------------------------------------------------------------------------
(* The map *)

LEMMA SetMembersMembers ==
  ASSUME NEW s, NEW M, sessions' = SetMembers(s, M)
  PROVE  /\ Members(s)' = M
         /\ \A t : t # s => Members(t)' = Members(t)
  BY DEF SetMembers, Members

LEMMA SetMembersNonEmpty ==
  ASSUME NEW s, NEW M, sessions' = SetMembers(s, M),
         \A t \in DOMAIN sessions : sessions[t] # {}
  PROVE  \A t \in DOMAIN sessions' : sessions'[t] # {}
  BY DEF SetMembers

\* A step that leaves the map alone keeps it exact when no socket enters or
\* leaves the points between registration and removal.
LEMMA MapUnchanged ==
  ASSUME MapIsExact, UNCHANGED sessions,
         \A s \in Sids : Registered(s)' = Registered(s)
  PROVE  MapIsExact'
  BY DEF MapIsExact, Members

LEMMA MapNext ==
  ASSUME TypeOK, MapIsExact, [Next]_vars
  PROVE  MapIsExact'
<1> USE HubAssumption DEF HubAssumption, binding
<1>1. ASSUME NEW c \in Clients, AcceptBare(c) PROVE MapIsExact'
  <2>1. \A s \in Sids : Registered(s)' = Registered(s)
    BY <1>1 DEF AcceptBare, TypeOK, Registered, Bound
  <2>. QED  BY <1>1, <2>1, MapUnchanged DEF AcceptBare
<1>2. ASSUME NEW c \in Clients, NEW s \in Sids, NEW r \in Roles, AcceptTicket(c, s, r)
      PROVE  MapIsExact'
  <2>1. \A t \in Sids : Registered(t)' = Registered(t)
    BY <1>2 DEF AcceptTicket, TypeOK, Registered, Bound
  <2>. QED  BY <1>2, <2>1, MapUnchanged DEF AcceptTicket
<1>3. ASSUME NEW c \in Clients, NEW kind \in {"ping", "data"}, NEW s \in Sids,
             NEW r \in Roles \cup {NoRole}, ReadFrame(c, kind, s, r)
      PROVE  MapIsExact'
  <2> DEFINE f == [kind |-> kind, from |-> c, n |-> reads[c] + 1, sid |-> s, role |-> r]
  <2>1. Bind(c, f) /\ f.sid = s /\ pc[c] = "read" /\ UNCHANGED sessions
    BY <1>3 DEF ReadFrame
  <2> HIDE DEF f
  <2>2. \A t \in Sids : Registered(t)' = Registered(t)
    BY <2>1 DEF Bind, TypeOK, Registered
  <2>. QED  BY <2>1, <2>2, MapUnchanged
<1>4. ASSUME NEW c \in Clients, ReadFails(c) PROVE MapIsExact'
  <2>1. \A s \in Sids : Registered(s)' = Registered(s)
    BY <1>4 DEF ReadFails, TypeOK, Registered
  <2>. QED  BY <1>4, <2>1, MapUnchanged DEF ReadFails
<1>5. ASSUME NEW c \in Clients, Register(c) PROVE MapIsExact'
  <2>1. /\ sessions' = SetMembers(sid[c], Members(sid[c]) \cup {c})
        /\ sid[c] \in Sids
    BY <1>5 DEF Register, TypeOK, Bound
  <2>2. \A s \in Sids : Registered(s)' = IF s = sid[c] THEN Registered(s) \cup {c}
                                                     ELSE Registered(s)
    BY <1>5 DEF Register, TypeOK, Registered
  <2>3. \A s \in Sids : Members(s)' = IF s = sid[c] THEN Members(s) \cup {c}
                                                  ELSE Members(s)
    BY <2>1, SetMembersMembers
  <2>4. \A s \in DOMAIN sessions' : sessions'[s] # {}
    BY <2>1, SetMembersNonEmpty DEF MapIsExact, TypeOK
  <2>. QED  BY <2>2, <2>3, <2>4 DEF MapIsExact
<1>6. ASSUME NEW c \in Clients, Unregister(c) PROVE MapIsExact'
  <2>1. /\ sessions' = SetMembers(sid[c], Members(sid[c]) \ {c})
        /\ sid[c] \in Sids
    BY <1>6 DEF Unregister, TypeOK, Bound
  <2>2. \A s \in Sids : Registered(s)' = IF s = sid[c] THEN Registered(s) \ {c}
                                                     ELSE Registered(s)
    BY <1>6 DEF Unregister, TypeOK, Registered
  <2>3. \A s \in Sids : Members(s)' = IF s = sid[c] THEN Members(s) \ {c}
                                                  ELSE Members(s)
    BY <2>1, SetMembersMembers
  <2>4. \A s \in DOMAIN sessions' : sessions'[s] # {}
    BY <2>1, SetMembersNonEmpty DEF MapIsExact, TypeOK
  <2>. QED  BY <2>2, <2>3, <2>4 DEF MapIsExact
<1>7. ASSUME NEW c \in Clients, NextRead(c), pc[c] \in {"dispatch", "forward"}
      PROVE  MapIsExact'
  <2>1. \A s \in Sids : Registered(s)' = Registered(s)
    BY <1>7 DEF NextRead, TypeOK, Registered
  <2>. QED  BY <1>7, <2>1, MapUnchanged DEF NextRead
<1>8. ASSUME NEW c \in Clients, Refuse(c) \/ AnswerPing(c) \/ EndForward(c)
      PROVE  MapIsExact'
  BY <1>7, <1>8 DEF Refuse, AnswerPing, EndForward
<1>9. ASSUME NEW c \in Clients, StartForward(c) PROVE MapIsExact'
  <2>1. \A s \in Sids : Registered(s)' = Registered(s)
    BY <1>9 DEF StartForward, TypeOK, Registered
  <2>. QED  BY <1>9, <2>1, MapUnchanged DEF StartForward
<1>10. ASSUME UNCHANGED <<pc, sid, sessions>> PROVE MapIsExact'
  BY <1>10 DEF MapIsExact, Members, Registered
<1>11. ASSUME NEW c \in Clients, Write(c) \/ WriterStops(c) \/ \E p \in Clients : ForwardTo(c, p)
       PROVE  UNCHANGED <<pc, sid, sessions>>
  BY <1>11 DEF Write, WriterStops, ForwardTo
<1>. QED  BY <1>1, <1>2, <1>3, <1>4, <1>5, <1>6, <1>8, <1>9, <1>10, <1>11
     DEF Next, Reader, vars

\* The map holds exactly the sockets that are registered, and no empty entry.
THEOREM MapIsExactAlways == Spec => []MapIsExact
<1>1. Init => MapIsExact
  BY HubAssumption DEF HubAssumption, Init, MapIsExact, Members, Registered
<1>2. TypeOK /\ MapIsExact /\ [Next]_vars => MapIsExact'
  BY MapNext
<1>. QED  BY <1>1, <1>2, HubTypeCorrect, PTL DEF Spec

-----------------------------------------------------------------------------
(* Isolation *)

\* f may be in the queue of p.
MayHold(p, f) ==
  f.kind # "pong" => f.sid = sid[p] /\ sid[f.from] = sid[p] /\ f.from # p

\* What a reader holds between Read and the end of its forward: its own frame,
\* of its own session, and peers of that session to visit.
ReaderHolds ==
  \A c \in Clients :
    /\ frame[c] \in Frame => frame[c].from = c
    /\ pc[c] = "forward" =>
         /\ frame[c].sid = sid[c]
         /\ \A p \in todo[c] : p # c /\ sid[p] = sid[c]

IsolationInv == TypeOK /\ MapIsExact /\ ReaderHolds /\ SessionsAreIsolated

\* A push adds at most f at the end of one queue.
LEMMA PushKeeps ==
  ASSUME IsolationInv, NEW p \in Clients, NEW f \in Queued, Push(p, f), MayHold(p, f)
  PROVE  \A q \in Clients : \A i \in DOMAIN send'[q] : MayHold(q, send'[q][i])
<1>1. /\ send[p] \in Seq(Queued)
      /\ \A q \in Clients : \A i \in DOMAIN send[q] : MayHold(q, send[q][i])
  BY DEF IsolationInv, TypeOK, SessionsAreIsolated, MayHold
<1>2. CASE Len(send[p]) < SendCap
  <2>1. send' = [send EXCEPT ![p] = Append(send[p], f)]
    BY <1>2 DEF Push
  <2>2. SUFFICES ASSUME NEW q \in Clients, NEW i \in DOMAIN send'[q]
                 PROVE  MayHold(q, send'[q][i])
    OBVIOUS
  <2>3. CASE q = p
    <3>1. send'[q] = Append(send[p], f)
      BY <2>1, <2>3 DEF IsolationInv, TypeOK
    <3>2. \/ i \in DOMAIN send[p] /\ send'[q][i] = send[p][i]
          \/ send'[q][i] = f
      BY <1>1, <2>2, <3>1
    <3>. QED  BY <1>1, <2>3, <3>2
  <2>4. CASE q # p
    <3>1. send'[q] = send[q]
      BY <2>1, <2>4 DEF IsolationInv, TypeOK
    <3>. QED  BY <1>1, <2>2, <3>1
  <2>. QED  BY <2>3, <2>4
<1>3. CASE ~(Len(send[p]) < SendCap)
  BY <1>1, <1>3 DEF Push
<1>. QED  BY <1>2, <1>3

\* Isolation depends on the queues and on the sessions of the sockets only.
LEMMA IsolatedAfter ==
  ASSUME UNCHANGED sid,
         \A q \in Clients : \A i \in DOMAIN send'[q] : MayHold(q, send'[q][i])
  PROVE  SessionsAreIsolated'
  BY DEF SessionsAreIsolated, MayHold

\* A socket that changes its session had none: no frame came from it or is in
\* its queue, and no forward has it to visit.
LEMMA BindingKeeps ==
  ASSUME IsolationInv, NEW c \in Clients, NEW s \in Sids,
         sid[c] = NoSid, sid' = [sid EXCEPT ![c] = s], UNCHANGED send
  PROVE  SessionsAreIsolated'
<1> SUFFICES ASSUME NEW p \in Clients, NEW i \in DOMAIN send[p],
                    send[p][i].kind # "pong"
             PROVE  LET f == send[p][i] IN
                      f.sid = sid'[p] /\ sid'[f.from] = sid'[p] /\ f.from # p
  BY DEF SessionsAreIsolated
<1>1. send[p][i] \in Queued
  BY DEF IsolationInv, TypeOK
<1>2. send[p][i] \in Frame
  BY <1>1 DEF Queued
<1>3. send[p][i].sid \in Sids /\ send[p][i].from \in Clients
  BY <1>2 DEF Frame
<1>4. /\ send[p][i].sid = sid[p]
      /\ sid[send[p][i].from] = sid[p]
      /\ send[p][i].from # p
  BY DEF IsolationInv, SessionsAreIsolated
<1>. QED  BY <1>3, <1>4, HubAssumption DEF HubAssumption, IsolationInv, TypeOK

LEMMA IsolationNext ==
  ASSUME IsolationInv, [Next]_vars
  PROVE  ReaderHolds' /\ SessionsAreIsolated'
<1> USE HubAssumption DEF HubAssumption, binding
<1>0. TypeOK /\ MapIsExact /\ ReaderHolds /\ SessionsAreIsolated
  BY DEF IsolationInv
<1>1. ASSUME NEW c \in Clients, AcceptBare(c) PROVE ReaderHolds' /\ SessionsAreIsolated'
  BY <1>0, <1>1 DEF AcceptBare, ReaderHolds, SessionsAreIsolated, TypeOK
<1>2. ASSUME NEW c \in Clients, NEW s \in Sids, NEW r \in Roles, AcceptTicket(c, s, r)
      PROVE  ReaderHolds' /\ SessionsAreIsolated'
  <2>1. sid[c] = NoSid /\ sid' = [sid EXCEPT ![c] = s] /\ UNCHANGED send
    BY <1>0, <1>2 DEF AcceptTicket, TypeOK, Bound
  <2>2. ReaderHolds'
    BY <1>0, <1>2, <2>1 DEF AcceptTicket, ReaderHolds, TypeOK, Bound
  <2>. QED  BY <2>1, <2>2, BindingKeeps
<1>3. ASSUME NEW c \in Clients, NEW kind \in {"ping", "data"}, NEW s \in Sids,
             NEW r \in Roles \cup {NoRole}, ReadFrame(c, kind, s, r)
      PROVE  ReaderHolds' /\ SessionsAreIsolated'
  <2> DEFINE f == [kind |-> kind, from |-> c, n |-> reads[c] + 1, sid |-> s, role |-> r]
  <2>1. /\ frame' = [frame EXCEPT ![c] = f]
        /\ Bind(c, f)
        /\ f.from = c /\ f.sid = s
        /\ UNCHANGED <<send, todo>>
    BY <1>3 DEF ReadFrame
  <2> HIDE DEF f
  <2>2. CASE sid[c] = NoSid
    <3>1. sid' = [sid EXCEPT ![c] = s] /\ pc' = [pc EXCEPT ![c] = "register"]
      BY <2>1, <2>2 DEF Bind
    <3>2. ReaderHolds'
      BY <1>0, <2>1, <2>2, <3>1 DEF ReaderHolds, TypeOK, Bound
    <3>. QED  BY <2>1, <2>2, <3>1, <3>2, BindingKeeps
  <2>3. CASE sid[c] # NoSid
    <3>1. UNCHANGED sid /\ pc' = [pc EXCEPT ![c] = "dispatch"]
      BY <2>1, <2>3 DEF Bind
    <3>. QED  BY <1>0, <2>1, <3>1 DEF ReaderHolds, SessionsAreIsolated, TypeOK
  <2>. QED  BY <2>2, <2>3
<1>4. ASSUME NEW c \in Clients, ReadFails(c) \/ Register(c) \/ Unregister(c)
      PROVE  ReaderHolds' /\ SessionsAreIsolated'
  <2>1. /\ UNCHANGED <<sid, send, frame, todo>>
        /\ \A d \in Clients : pc'[d] = "forward" => pc[d] = "forward"
    BY <1>0, <1>4 DEF ReadFails, Register, Unregister, TypeOK
  <2>. QED  BY <1>0, <2>1 DEF ReaderHolds, SessionsAreIsolated
<1>5. ASSUME NEW c \in Clients, NextRead(c), UNCHANGED todo
      PROVE  ReaderHolds'
  <2>1. \A d \in Clients : frame'[d] \in Frame => frame'[d] = frame[d]
    BY <1>0, <1>5 DEF NextRead, TypeOK, Frame, NoFrame
  <2>2. \A d \in Clients : pc'[d] = "forward" => pc[d] = "forward" /\ frame'[d] = frame[d]
    BY <1>0, <1>5 DEF NextRead, TypeOK
  <2>. QED  BY <1>0, <1>5, <2>1, <2>2 DEF ReaderHolds, NextRead
<1>6. ASSUME NEW c \in Clients, Refuse(c) \/ EndForward(c)
      PROVE  ReaderHolds' /\ SessionsAreIsolated'
  BY <1>0, <1>5, <1>6 DEF Refuse, EndForward, NextRead, SessionsAreIsolated
<1>7. ASSUME NEW c \in Clients, AnswerPing(c) PROVE ReaderHolds' /\ SessionsAreIsolated'
  <2>1. Pong(c) \in Queued /\ MayHold(c, Pong(c))
    BY <1>0, <1>7 DEF AnswerPing, Pong, Queued, TypeOK, Bound, MayHold
  <2>2. SessionsAreIsolated'
    BY <1>7, <2>1, PushKeeps, IsolatedAfter DEF AnswerPing, NextRead
  <2>. QED  BY <1>5, <1>7, <2>2 DEF AnswerPing
<1>8. ASSUME NEW c \in Clients, StartForward(c) PROVE ReaderHolds' /\ SessionsAreIsolated'
  <2>1. sid[c] \in Sids /\ frame[c].sid = sid[c]
    BY <1>0, <1>8 DEF StartForward, Accepted, TypeOK, Bound
  <2>2. \A p \in Members(sid[c]) \ {c} : p # c /\ sid[p] = sid[c]
    BY <1>0, <2>1 DEF MapIsExact, Registered
  <2>. QED  BY <1>0, <1>8, <2>1, <2>2
            DEF StartForward, ReaderHolds, SessionsAreIsolated, TypeOK
<1>9. ASSUME NEW c \in Clients, NEW p \in Clients, ForwardTo(c, p)
      PROVE  ReaderHolds' /\ SessionsAreIsolated'
  <2>1. frame[c] \in Frame /\ frame[c] \in Queued
    BY <1>0, <1>9 DEF ForwardTo, TypeOK, Queued
  <2>2. MayHold(p, frame[c])
    BY <1>0, <1>9, <2>1 DEF ForwardTo, ReaderHolds, MayHold
  <2>3. SessionsAreIsolated'
    BY <1>9, <2>1, <2>2, PushKeeps, IsolatedAfter DEF ForwardTo
  <2>4. ReaderHolds'
    BY <1>0, <1>9 DEF ForwardTo, ReaderHolds, TypeOK
  <2>. QED  BY <2>3, <2>4
<1>10. ASSUME NEW c \in Clients, Write(c) PROVE ReaderHolds' /\ SessionsAreIsolated'
  <2>1. send[c] \in Seq(Queued) /\ send[c] # <<>>
    BY <1>0, <1>10 DEF Write, TypeOK
  <2>2. \A i \in DOMAIN Tail(send[c]) :
          i + 1 \in DOMAIN send[c] /\ Tail(send[c])[i] = send[c][i + 1]
    BY <2>1
  <2>3. \A q \in Clients : \A i \in DOMAIN send'[q] : MayHold(q, send'[q][i])
    BY <1>0, <1>10, <2>2 DEF Write, TypeOK, SessionsAreIsolated, MayHold
  <2>. QED  BY <1>0, <1>10, <2>3, IsolatedAfter DEF Write, ReaderHolds
<1>11. CASE UNCHANGED <<pc, sid, send, frame, todo>>
  BY <1>0, <1>11 DEF ReaderHolds, SessionsAreIsolated
<1>12. ASSUME NEW c \in Clients, WriterStops(c)
       PROVE  UNCHANGED <<pc, sid, send, frame, todo>>
  BY <1>12 DEF WriterStops
<1>. QED  BY <1>1, <1>2, <1>3, <1>4, <1>6, <1>7, <1>8, <1>9, <1>10, <1>11, <1>12
     DEF Next, Reader, vars

\* No frame is ever queued outside the session of its sender.
THEOREM SessionsAreIsolatedAlways == Spec => []SessionsAreIsolated
<1>1. Init => ReaderHolds /\ SessionsAreIsolated
  <2>1. \A c \in Clients : Init => frame[c] \notin Frame
    BY DEF Init, Frame, NoFrame
  <2>. QED  BY <2>1 DEF Init, ReaderHolds, SessionsAreIsolated
<1>2. TypeOK /\ MapIsExact /\ ReaderHolds /\ SessionsAreIsolated /\ [Next]_vars
        => ReaderHolds' /\ SessionsAreIsolated'
  BY IsolationNext DEF IsolationInv
<1>. QED  BY <1>1, <1>2, HubTypeCorrect, MapIsExactAlways, PTL DEF Spec

-----------------------------------------------------------------------------
(* Order *)

DataFrom(f, c) == f.kind = "data" /\ f.from = c

\* Everything p has got, or has waiting, from c was read before frame n.
Below(p, c, n) ==
  /\ got[p][c] < n
  /\ \A i \in DOMAIN send[p] : DataFrom(send[p][i], c) => send[p][i].n < n

\* A reader counts its frames, and its frame is above all that its sender has
\* passed on before, for every peer that may still be given it.
FramesAreFresh ==
  \A c \in Clients :
    /\ \A p \in Clients : Below(p, c, reads[c] + 1)
    /\ frame[c] \in Frame =>
         /\ frame[c].from = c
         /\ frame[c].n <= reads[c]
         /\ \A p \in Clients :
              pc[c] # "forward" \/ p \in todo[c] => Below(p, c, frame[c].n)
    /\ pc[c] = "forward" => frame[c].kind = "data"

\* Queues hold data and answers to pings.
NoPingQueued == \A p \in Clients : \A i \in DOMAIN send[p] : send[p][i].kind # "ping"

FifoInv == TypeOK /\ NoPingQueued /\ FramesAreFresh /\ FifoPerSender

\* What a push does to the queue of p, and to no other.
LEMMA PushElements ==
  ASSUME TypeOK, NEW p \in Clients, NEW f \in Queued, Push(p, f)
  PROVE  /\ \A q \in Clients : q # p => send'[q] = send[q]
         /\ DOMAIN send[p] = 1..Len(send[p]) /\ Len(send[p]) \in Nat
         /\ \A i \in DOMAIN send'[p] :
              \/ i \in DOMAIN send[p] /\ send'[p][i] = send[p][i]
              \/ i = Len(send[p]) + 1 /\ send'[p][i] = f
<1>1. send[p] \in Seq(Queued)
  BY DEF TypeOK
<1>2. CASE Len(send[p]) < SendCap
  <2>1. send' = [send EXCEPT ![p] = Append(send[p], f)]
    BY <1>2 DEF Push
  <2>2. send'[p] = Append(send[p], f) /\ \A q \in Clients : q # p => send'[q] = send[q]
    BY <2>1 DEF TypeOK
  <2>. QED  BY <1>1, <2>2
<1>3. CASE ~(Len(send[p]) < SendCap)
  BY <1>1, <1>3 DEF Push
<1>. QED  BY <1>2, <1>3

\* Data that waits in a queue or was got carries numbers.
LEMMA DataNumbers ==
  ASSUME TypeOK
  PROVE  /\ \A p, c \in Clients : got[p][c] \in Nat
         /\ \A p \in Clients : \A i \in DOMAIN send[p] :
              send[p][i].kind # "pong" =>
                send[p][i].n \in Nat /\ send[p][i].from \in Clients
<1>1. ASSUME NEW p \in Clients, NEW c \in Clients PROVE got[p][c] \in Nat
  <2>1. got[p] \in [Clients -> 0..MaxFrames]
    BY DEF TypeOK
  <2>. QED  BY <2>1, HubAssumption DEF HubAssumption
<1>2. SUFFICES ASSUME NEW p \in Clients, NEW i \in DOMAIN send[p], send[p][i].kind # "pong"
               PROVE  send[p][i].n \in Nat /\ send[p][i].from \in Clients
  BY <1>1
<1>3. send[p][i] \in Queued
  BY DEF TypeOK
<1>4. send[p][i] \in Frame
  BY <1>2, <1>3 DEF Queued
<1>. QED  BY <1>4, HubAssumption DEF HubAssumption, Frame

\* A step that changes neither queues nor what was got keeps the order.
LEMMA FifoUnchanged ==
  ASSUME FifoInv, UNCHANGED <<send, got>>
  PROVE  NoPingQueued' /\ FifoPerSender'
  BY DEF FifoInv, NoPingQueued, FifoPerSender

LEMMA FifoAfterReadFrame ==
  ASSUME FifoInv, NEW c \in Clients, NEW kind \in {"ping", "data"}, NEW s \in Sids,
         NEW r \in Roles \cup {NoRole}, ReadFrame(c, kind, s, r)
  PROVE  FramesAreFresh'
<1> USE DEF binding
<1> DEFINE f == [kind |-> kind, from |-> c, n |-> reads[c] + 1, sid |-> s, role |-> r]
<1>1. /\ frame' = [frame EXCEPT ![c] = f] /\ reads' = [reads EXCEPT ![c] = @ + 1]
      /\ f.from = c /\ f.n = reads[c] + 1
      /\ UNCHANGED <<send, got, todo>>
  BY DEF ReadFrame
<1>2. \A d \in Clients : pc'[d] = "forward" => d # c /\ pc[d] = "forward"
  BY DEF ReadFrame, Bind, FifoInv, TypeOK
<1>3. \A d \in Clients : d # c => pc'[d] = pc[d]
  BY DEF ReadFrame, Bind, FifoInv, TypeOK
<1> HIDE DEF f
<1>4. \A p, d \in Clients : \A n : Below(p, d, n)' = Below(p, d, n)
  BY <1>1 DEF Below
<1>5. reads[c] \in Nat /\ reads'[c] = reads[c] + 1 /\ frame'[c] = f
      /\ \A d \in Clients : d # c => frame'[d] = frame[d] /\ reads'[d] = reads[d]
  BY <1>1, HubAssumption DEF HubAssumption, FifoInv, TypeOK
<1>6. \A p \in Clients : Below(p, c, reads[c] + 1) /\ Below(p, c, reads'[c] + 1)
  <2>1. SUFFICES ASSUME NEW p \in Clients, Below(p, c, reads[c] + 1)
                 PROVE  Below(p, c, reads[c] + 2)
    BY <1>5 DEF FifoInv, FramesAreFresh
  <2>2. \A i \in DOMAIN send[p] : DataFrom(send[p][i], c) => send[p][i].n \in Nat
    BY DataNumbers DEF FifoInv, DataFrom
  <2>. QED  BY <1>5, <2>1, <2>2, DataNumbers DEF FifoInv, Below
<1>. QED  BY <1>1, <1>2, <1>3, <1>4, <1>5, <1>6 DEF FifoInv, FramesAreFresh

\* The order after a push to p, when what is pushed may follow what is there.
LEMMA FifoAfterPush ==
  ASSUME FifoInv, NEW p \in Clients, NEW f \in Queued, Push(p, f), UNCHANGED got,
         f.kind = "pong" \/ (f \in Frame /\ f.kind = "data" /\ Below(p, f.from, f.n))
  PROVE  NoPingQueued' /\ FifoPerSender'
<1>1. /\ \A q \in Clients : q # p => send'[q] = send[q]
      /\ DOMAIN send[p] = 1..Len(send[p]) /\ Len(send[p]) \in Nat
      /\ \A i \in DOMAIN send'[p] :
           \/ i \in DOMAIN send[p] /\ send'[p][i] = send[p][i]
           \/ i = Len(send[p]) + 1 /\ send'[p][i] = f
  BY PushElements DEF FifoInv
<1>2. NoPingQueued'
  BY <1>1 DEF FifoInv, NoPingQueued
<1>3. ASSUME NEW q \in Clients, NEW c \in Clients, NEW i \in DOMAIN send'[q],
             DataFrom(send'[q][i], c)
      PROVE  got[q][c] < send'[q][i].n
  <2>1. CASE q # p \/ (i \in DOMAIN send[p] /\ send'[p][i] = send[p][i])
    BY <1>1, <1>3, <2>1 DEF FifoInv, FifoPerSender, DataFrom
  <2>2. CASE q = p /\ send'[p][i] = f
    BY <1>3, <2>2 DEF DataFrom, Below
  <2>. QED  BY <1>1, <2>1, <2>2
<1>4. ASSUME NEW q \in Clients, NEW c \in Clients, NEW i \in DOMAIN send'[q],
             NEW j \in DOMAIN send'[q], i < j,
             DataFrom(send'[q][i], c), DataFrom(send'[q][j], c)
      PROVE  send'[q][i].n < send'[q][j].n
  <2>1. CASE q # p
    BY <1>1, <1>4, <2>1 DEF FifoInv, FifoPerSender, DataFrom
  <2>2. CASE q = p
    <3>1. i \in DOMAIN send[p] /\ send'[p][i] = send[p][i]
      <4>1. j \in 1..(Len(send[p]) + 1)
        BY <1>1, <2>2
      <4>2. i # Len(send[p]) + 1
        BY <1>1, <1>4, <4>1
      <4>. QED  BY <1>1, <2>2, <4>2
    <3>2. CASE j \in DOMAIN send[p] /\ send'[p][j] = send[p][j]
      BY <1>4, <2>2, <3>1, <3>2 DEF FifoInv, FifoPerSender, DataFrom
    <3>3. CASE send'[p][j] = f
      BY <1>4, <2>2, <3>1, <3>3 DEF DataFrom, Below
    <3>. QED  BY <1>1, <2>2, <3>2, <3>3
  <2>. QED  BY <2>1, <2>2
<1>5. FifoPerSender'
  BY <1>3, <1>4 DEF FifoPerSender, DataFrom
<1>. QED  BY <1>2, <1>5

\* An answer to a ping is no data, so bounds on data stay.
LEMMA BelowAfterPong ==
  ASSUME FifoInv, NEW c \in Clients, NEW f \in Queued, f.kind = "pong", Push(c, f),
         UNCHANGED got
  PROVE  \A p, d \in Clients : \A n : Below(p, d, n) => Below(p, d, n)'
<1>1. \A p \in Clients : \A i \in DOMAIN send'[p] :
        \/ i \in DOMAIN send[p] /\ send'[p][i] = send[p][i]
        \/ send'[p][i] = f
  BY PushElements DEF FifoInv
<1>. QED  BY <1>1 DEF Below, DataFrom

LEMMA FifoAfterForward ==
  ASSUME FifoInv, NEW c \in Clients, NEW p \in Clients, ForwardTo(c, p)
  PROVE  NoPingQueued' /\ FramesAreFresh' /\ FifoPerSender'
<1> USE DEF binding
<1>1. /\ pc[c] = "forward" /\ p \in todo[c] /\ Push(p, frame[c])
      /\ todo' = [todo EXCEPT ![c] = @ \ {p}]
      /\ UNCHANGED <<pc, frame, reads, got>>
  BY DEF ForwardTo
<1> DEFINE f == frame[c]
<1>2. /\ f \in Frame /\ f \in Queued /\ f.kind = "data" /\ f.from = c
      /\ f.n \in Nat /\ f.n <= reads[c] /\ Below(p, c, f.n)
  <2>1. f \in Frame
    BY <1>1 DEF FifoInv, TypeOK
  <2>2. f.n \in Nat
    BY <2>1, HubAssumption DEF HubAssumption, Frame
  <2>. QED  BY <1>1, <2>1, <2>2 DEF FifoInv, FramesAreFresh, Queued
<1>3. NoPingQueued' /\ FifoPerSender'
  BY <1>1, <1>2, FifoAfterPush
<1>4. /\ \A q \in Clients : q # p => send'[q] = send[q]
      /\ \A i \in DOMAIN send'[p] :
           \/ i \in DOMAIN send[p] /\ send'[p][i] = send[p][i]
           \/ send'[p][i] = f
  BY <1>1, <1>2, PushElements DEF FifoInv
<1>5. \A q, d \in Clients : \A n : (q # p \/ d # c) /\ Below(q, d, n) => Below(q, d, n)'
  BY <1>1, <1>2, <1>4 DEF Below, DataFrom
<1>6. reads[c] \in Nat
  BY HubAssumption DEF HubAssumption, FifoInv, TypeOK
<1>7. \A n \in Nat : f.n < n /\ Below(p, c, n) => Below(p, c, n)'
  BY <1>1, <1>2, <1>4 DEF Below, DataFrom
<1>8. FramesAreFresh'
  <2>1. \A d, q \in Clients : Below(q, d, reads[d] + 1)'
    <3>1. \A d, q \in Clients : Below(q, d, reads[d] + 1)
      BY DEF FifoInv, FramesAreFresh
    <3>2. Below(p, c, reads[c] + 1)'
      <4>1. f.n < reads[c] + 1 /\ reads[c] + 1 \in Nat /\ reads'[c] = reads[c]
        BY <1>1, <1>2, <1>6
      <4>. QED  BY <1>1, <1>7, <3>1, <4>1 DEF Below
    <3>3. SUFFICES ASSUME NEW d \in Clients, NEW q \in Clients, q # p \/ d # c
                   PROVE  Below(q, d, reads[d] + 1)'
      BY <3>2
    <3>. QED  BY <1>1, <1>5, <3>1, <3>3 DEF Below
  <2>2. ASSUME NEW d \in Clients, NEW q \in Clients, frame'[d] \in Frame,
               pc'[d] # "forward" \/ q \in todo'[d]
        PROVE  Below(q, d, frame[d].n)'
    <3>1. /\ pc[d] # "forward" \/ q \in todo[d]
          /\ q # p \/ d # c
      BY <1>1, <2>2 DEF FifoInv, TypeOK
    <3>2. Below(q, d, frame[d].n)
      BY <1>1, <2>2, <3>1 DEF FifoInv, FramesAreFresh
    <3>. QED  BY <1>1, <1>5, <3>1, <3>2 DEF Below
  <2>3. \A d \in Clients : frame'[d] \in Frame =>
          frame'[d].from = d /\ frame'[d].n <= reads'[d]
    BY <1>1 DEF FifoInv, FramesAreFresh
  <2>4. \A d \in Clients : pc'[d] = "forward" => frame'[d].kind = "data"
    BY <1>1 DEF FifoInv, FramesAreFresh
  <2>. QED  BY <2>1, <2>2, <2>3, <2>4 DEF FramesAreFresh
<1>. QED  BY <1>3, <1>8

LEMMA FifoAfterWrite ==
  ASSUME FifoInv, NEW c \in Clients, Write(c)
  PROVE  NoPingQueued' /\ FramesAreFresh' /\ FifoPerSender'
<1> USE DEF binding
<1>1. /\ send[c] \in Seq(Queued) /\ send[c] # <<>>
      /\ send' = [send EXCEPT ![c] = Tail(@)]
      /\ UNCHANGED <<pc, frame, todo, reads>>
  BY DEF Write, FifoInv, TypeOK
<1> DEFINE f == Head(send[c])
<1>2. /\ 1 \in DOMAIN send[c] /\ f = send[c][1] /\ DOMAIN send[c] \subseteq Nat
      /\ DOMAIN Tail(send[c]) \subseteq Nat
      /\ \A i \in DOMAIN Tail(send[c]) :
           i + 1 \in DOMAIN send[c] /\ 1 < i + 1 /\ Tail(send[c])[i] = send[c][i + 1]
  BY <1>1
<1>3. send'[c] = Tail(send[c]) /\ \A q \in Clients : q # c => send'[q] = send[q]
  BY <1>1 DEF FifoInv, TypeOK
<1>4. \/ f.kind = "pong" /\ UNCHANGED got
      \/ /\ f.kind = "data" /\ f.from \in Clients /\ f.n \in Nat
         /\ got' = [got EXCEPT ![c][f.from] = f.n]
  <2>1. f.kind # "ping"
    BY <1>2 DEF FifoInv, NoPingQueued
  <2>2. f \in Queued
    BY <1>1
  <2>3. CASE f \in Frame
    BY <2>1, <2>3, HubAssumption DEF HubAssumption, Frame, Write
  <2>4. CASE f.kind = "pong"
    BY <2>4 DEF Write
  <2>. QED  BY <2>2, <2>3, <2>4 DEF Queued
<1> HIDE DEF f
<1>5. \A q, d \in Clients :
        got'[q][d] = IF q = c /\ f.kind = "data" /\ d = f.from THEN f.n ELSE got[q][d]
  <2>1. /\ got \in [Clients -> [Clients -> 0..MaxFrames]]
        /\ \A q \in Clients : got[q] \in [Clients -> 0..MaxFrames]
    BY DEF FifoInv, TypeOK
  <2>2. CASE f.kind = "pong" /\ UNCHANGED got
    BY <2>2
  <2>3. CASE f.kind = "data" /\ f.from \in Clients
             /\ got' = [got EXCEPT ![c][f.from] = f.n]
    BY <2>1, <2>3
  <2>. QED  BY <1>4, <2>2, <2>3
<1>6. \A q \in Clients : \A i \in DOMAIN send'[q] :
        \E k \in DOMAIN send[q] : send'[q][i] = send[q][k]
  BY <1>2, <1>3
<1>6b. NoPingQueued'
  BY <1>6 DEF FifoInv, NoPingQueued
<1>7. ASSUME NEW q \in Clients, NEW d \in Clients, NEW n, Below(q, d, n)
      PROVE  Below(q, d, n)'
  <2>1. \A i \in DOMAIN send'[q] : DataFrom(send'[q][i], d) => send'[q][i].n < n
    BY <1>6, <1>7 DEF Below
  <2>2. got'[q][d] < n
    <3>1. CASE q = c /\ f.kind = "data" /\ d = f.from
      BY <1>2, <1>5, <1>7, <3>1 DEF Below, DataFrom
    <3>2. CASE ~(q = c /\ f.kind = "data" /\ d = f.from)
      BY <1>5, <1>7, <3>2 DEF Below
    <3>. QED  BY <3>1, <3>2
  <2>. QED  BY <2>1, <2>2 DEF Below, DataFrom
<1>8. FramesAreFresh'
  <2>1. \A d, q \in Clients : Below(q, d, reads[d] + 1)'
    BY <1>1, <1>7 DEF FifoInv, FramesAreFresh, Below
  <2>2. ASSUME NEW d \in Clients, NEW q \in Clients, frame'[d] \in Frame,
               pc'[d] # "forward" \/ q \in todo'[d]
        PROVE  Below(q, d, frame[d].n)'
    <3>1. Below(q, d, frame[d].n)
      BY <1>1, <2>2 DEF FifoInv, FramesAreFresh
    <3>. QED  BY <1>1, <1>7, <3>1 DEF Below
  <2>3. \A d \in Clients : /\ frame'[d] \in Frame =>
                                frame'[d].from = d /\ frame'[d].n <= reads'[d]
                           /\ pc'[d] = "forward" => frame'[d].kind = "data"
    BY <1>1 DEF FifoInv, FramesAreFresh
  <2>. QED  BY <2>1, <2>2, <2>3 DEF FramesAreFresh
<1>9. FifoPerSender'
  <2>1. ASSUME NEW q \in Clients, NEW d \in Clients, NEW i \in DOMAIN send'[q],
               DataFrom(send'[q][i], d)
        PROVE  got'[q][d] < send'[q][i].n
    <3>1. CASE q # c
      BY <1>3, <1>5, <2>1, <3>1 DEF FifoInv, FifoPerSender, DataFrom
    <3>2. CASE q = c
      <4>1. i + 1 \in DOMAIN send[c] /\ 1 < i + 1 /\ DataFrom(send[c][i + 1], d)
            /\ send'[q][i] = send[c][i + 1]
        BY <1>2, <1>3, <2>1, <3>2
      <4>2. CASE f.kind = "data" /\ d = f.from
        BY <1>2, <1>5, <3>2, <4>1, <4>2 DEF FifoInv, FifoPerSender, DataFrom
      <4>3. CASE ~(f.kind = "data" /\ d = f.from)
        BY <1>5, <3>2, <4>1, <4>3 DEF FifoInv, FifoPerSender, DataFrom
      <4>. QED  BY <4>2, <4>3
    <3>. QED  BY <3>1, <3>2
  <2>2. ASSUME NEW q \in Clients, NEW d \in Clients, NEW i \in DOMAIN send'[q],
               NEW j \in DOMAIN send'[q], i < j,
               DataFrom(send'[q][i], d), DataFrom(send'[q][j], d)
        PROVE  send'[q][i].n < send'[q][j].n
    <3>1. CASE q # c
      BY <1>3, <2>2, <3>1 DEF FifoInv, FifoPerSender, DataFrom
    <3>2. CASE q = c
      <4>1. i \in DOMAIN Tail(send[c]) /\ j \in DOMAIN Tail(send[c]) /\ i \in Nat /\ j \in Nat
        BY <1>2, <1>3, <2>2, <3>2
      <4>2. /\ i + 1 \in DOMAIN send[c] /\ j + 1 \in DOMAIN send[c]
            /\ Tail(send[c])[i] = send[c][i + 1] /\ Tail(send[c])[j] = send[c][j + 1]
        BY <1>2, <4>1
      <4>3. send'[q] = Tail(send[c]) /\ i + 1 < j + 1
        BY <1>3, <2>2, <3>2, <4>1
      <4>4. DataFrom(send[c][i + 1], d) /\ DataFrom(send[c][j + 1], d)
        BY <2>2, <4>2, <4>3
      <4>5. send[c][i + 1].n < send[c][j + 1].n
        BY <4>2, <4>3, <4>4 DEF FifoInv, FifoPerSender, DataFrom
      <4>. QED  BY <4>2, <4>3, <4>5
    <3>. QED  BY <3>1, <3>2
  <2>. QED  BY <2>1, <2>2 DEF FifoPerSender, DataFrom
<1>. QED  BY <1>6b, <1>8, <1>9

LEMMA FifoNext ==
  ASSUME FifoInv, [Next]_vars
  PROVE  NoPingQueued' /\ FramesAreFresh' /\ FifoPerSender'
<1> USE DEF binding
<1>0. TypeOK /\ FramesAreFresh
  BY DEF FifoInv
\* A step that adds nothing to what readers hold or peers have.
<1>1. ASSUME \A p, d \in Clients : \A n : Below(p, d, n) => Below(p, d, n)',
             UNCHANGED reads,
             \A d \in Clients : frame'[d] \in Frame =>
               frame'[d] = frame[d] /\ (pc[d] = "forward" => pc'[d] = "forward"),
             \A d \in Clients : pc'[d] = "forward" =>
               \/ pc[d] = "forward" /\ todo'[d] = todo[d] /\ frame'[d] = frame[d]
               \/ pc[d] # "forward" /\ frame'[d].kind = "data"
      PROVE  FramesAreFresh'
  <2>1. \A d, q \in Clients : Below(q, d, reads[d] + 1)'
    BY <1>0, <1>1 DEF FramesAreFresh, Below
  <2>2. ASSUME NEW d \in Clients, NEW q \in Clients, frame'[d] \in Frame,
               pc'[d] # "forward" \/ q \in todo'[d]
        PROVE  Below(q, d, frame[d].n)' /\ frame'[d] = frame[d]
    <3>1. Below(q, d, frame[d].n) /\ frame'[d] = frame[d]
      BY <1>0, <1>1, <2>2 DEF FramesAreFresh
    <3>. QED  BY <1>1, <3>1 DEF Below
  <2>3. \A d \in Clients : /\ frame'[d] \in Frame =>
                                frame'[d].from = d /\ frame'[d].n <= reads'[d]
                           /\ pc'[d] = "forward" => frame'[d].kind = "data"
    BY <1>0, <1>1 DEF FramesAreFresh
  <2>. QED  BY <2>1, <2>2, <2>3 DEF FramesAreFresh
<1>2. ASSUME UNCHANGED <<send, got>>
      PROVE  /\ \A p, d \in Clients : \A n : Below(p, d, n) => Below(p, d, n)'
             /\ NoPingQueued' /\ FifoPerSender'
  BY <1>2, FifoUnchanged DEF Below
<1>3. ASSUME NEW c \in Clients,
             \/ AcceptBare(c)
             \/ \E s \in Sids, r \in Roles : AcceptTicket(c, s, r)
             \/ ReadFails(c) \/ Register(c) \/ Unregister(c) \/ WriterStops(c)
      PROVE  NoPingQueued' /\ FramesAreFresh' /\ FifoPerSender'
  <2>1. UNCHANGED <<send, got, reads, frame, todo>>
    BY <1>3 DEF AcceptBare, AcceptTicket, ReadFails, Register, Unregister, WriterStops
  <2>2. \A d \in Clients : pc'[d] = "forward" <=> pc[d] = "forward"
    BY <1>0, <1>3
       DEF AcceptBare, AcceptTicket, ReadFails, Register, Unregister, WriterStops, TypeOK
  <2>. QED  BY <1>1, <1>2, <2>1, <2>2
<1>4. ASSUME NEW c \in Clients, NextRead(c), UNCHANGED todo
      PROVE  /\ UNCHANGED <<reads, got>>
             /\ \A d \in Clients : frame'[d] \in Frame =>
                  frame'[d] = frame[d] /\ (pc[d] = "forward" => pc'[d] = "forward")
             /\ \A d \in Clients : pc'[d] = "forward" =>
                  pc[d] = "forward" /\ todo'[d] = todo[d] /\ frame'[d] = frame[d]
  <2>1. NoFrame \notin Frame
    BY DEF NoFrame, Frame
  <2>2. UNCHANGED <<reads, got>> /\ frame'[c] = NoFrame /\ pc'[c] = "read"
        /\ \A d \in Clients : d # c => frame'[d] = frame[d] /\ pc'[d] = pc[d]
    BY <1>0, <1>4 DEF NextRead, TypeOK
  <2>. QED  BY <1>4, <2>1, <2>2
<1>5. ASSUME NEW c \in Clients, Refuse(c) \/ EndForward(c)
      PROVE  NoPingQueued' /\ FramesAreFresh' /\ FifoPerSender'
  <2>1. NextRead(c) /\ UNCHANGED <<send, todo>>
    BY <1>5 DEF Refuse, EndForward
  <2>. QED  BY <1>1, <1>2, <1>4, <2>1
<1>6. ASSUME NEW c \in Clients, AnswerPing(c)
      PROVE  NoPingQueued' /\ FramesAreFresh' /\ FifoPerSender'
  <2>1. NextRead(c) /\ UNCHANGED todo /\ Push(c, Pong(c))
    BY <1>6 DEF AnswerPing
  <2>2. Pong(c) \in Queued /\ Pong(c).kind = "pong"
    BY <1>0, <1>6 DEF AnswerPing, Pong, Queued, TypeOK, Bound
  <2>3. UNCHANGED got
    BY <1>4, <2>1
  <2>4. NoPingQueued' /\ FifoPerSender'
    BY <2>1, <2>2, <2>3, FifoAfterPush
  <2>5. \A p, d \in Clients : \A n : Below(p, d, n) => Below(p, d, n)'
    BY <2>1, <2>2, <2>3, BelowAfterPong
  <2>. QED  BY <1>1, <1>4, <2>1, <2>4, <2>5
<1>7. ASSUME NEW c \in Clients, StartForward(c)
      PROVE  NoPingQueued' /\ FramesAreFresh' /\ FifoPerSender'
  <2>1. UNCHANGED <<send, got, reads, frame>>
    BY <1>7 DEF StartForward
  <2>2. /\ pc[c] = "dispatch" /\ pc'[c] = "forward" /\ frame'[c].kind = "data"
        /\ \A d \in Clients : d # c => pc'[d] = pc[d] /\ todo'[d] = todo[d]
    BY <1>0, <1>7 DEF StartForward, TypeOK
  <2>. QED  BY <1>1, <1>2, <2>1, <2>2
<1>8. ASSUME NEW c \in Clients, NEW kind \in {"ping", "data"}, NEW s \in Sids,
             NEW r \in Roles \cup {NoRole}, ReadFrame(c, kind, s, r)
      PROVE  NoPingQueued' /\ FramesAreFresh' /\ FifoPerSender'
  <2>1. UNCHANGED <<send, got>>
    BY <1>8 DEF ReadFrame
  <2>. QED  BY <1>2, <1>8, <2>1, FifoAfterReadFrame
<1>9. CASE UNCHANGED vars
  BY <1>1, <1>2, <1>9 DEF vars
<1>. QED
  BY <1>3, <1>5, <1>6, <1>7, <1>8, <1>9, FifoAfterForward, FifoAfterWrite
     DEF Next, Reader

\* What one socket sends reaches each peer in order and at most once, for every
\* number of sockets, whatever the queues drop.
THEOREM FifoPerSenderAlways == Spec => []FifoPerSender
<1>1. Init => NoPingQueued /\ FramesAreFresh /\ FifoPerSender
  <2>1. SUFFICES ASSUME Init PROVE NoPingQueued /\ FramesAreFresh /\ FifoPerSender
    OBVIOUS
  <2>2. \A c \in Clients : /\ frame[c] \notin Frame /\ send[c] = <<>> /\ reads[c] = 0
                           /\ pc[c] # "forward"
                           /\ \A d \in Clients : got[c][d] = 0
    BY <2>1 DEF Init, Frame, NoFrame
  <2>. QED  BY <2>2 DEF NoPingQueued, FramesAreFresh, FifoPerSender, Below
<1>2. TypeOK /\ NoPingQueued /\ FramesAreFresh /\ FifoPerSender /\ [Next]_vars
        => NoPingQueued' /\ FramesAreFresh' /\ FifoPerSender'
  BY FifoNext DEF FifoInv
<1>. QED  BY <1>1, <1>2, HubTypeCorrect, PTL DEF Spec
=============================================================================
