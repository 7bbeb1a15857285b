-------------------------- MODULE LocalHostProofs --------------------------
(***************************************************************************)
(* LocalHost and RelayGate for any number of processes, launches and       *)
(* minutes: types, the quota, the machine id, the files of the service and *)
(* its supervisor.                                                         *)
(***************************************************************************)
EXTENDS LocalHost, TLAPS

-----------------------------------------------------------------------------
(* The limiter *)

\* What makes the quota inductive: nobody was let through in a minute to come, and
\* in the minute of the window no more than Limiter.counts says.
QuotaInv ==
  ~setBack => \A ip \in Ips :
    /\ \A m \in Minutes : m > window => admitted[ip][m] = 0
    /\ admitted[ip][window] <= counts[ip]
    /\ \A m \in Minutes : admitted[ip][m] <= Limit

\* A call that is counted keeps the limiter's types.
LEMMA CountTypes ==
  ASSUME NEW c \in Callers, GateTypeOK, Count(c)
  PROVE  GateTypeOK'
<1>1. call[c] \in Calls
  BY DEF GateTypeOK, Count
<1>2. CountsFor(c) \in [Ips -> Nat]
  BY DEF GateTypeOK, CountsFor
<1>3. counts' \in [Ips -> Nat] /\ window' \in Minutes
  BY <1>1, <1>2 DEF GateTypeOK, Count, Calls
<1>4. admitted' \in [Ips -> [Minutes -> Nat]]
  <2> DEFINE ip == call[c].ip  now == call[c].now
  <2>1. ip \in Ips /\ now \in Minutes
    BY <1>1 DEF Calls
  <2>2. admitted' = admitted \/ admitted' = [admitted EXCEPT ![ip][now] = @ + 1]
    BY DEF Count
  <2>3. admitted \in [Ips -> [Minutes -> Nat]]
    BY DEF GateTypeOK
  <2>4. [admitted[ip] EXCEPT ![now] = @ + 1] \in [Minutes -> Nat]
    BY <2>1, <2>3
  <2> QED BY <2>1, <2>2, <2>3, <2>4
<1> QED BY <1>1, <1>3, <1>4 DEF GateTypeOK, Count

\* The other steps of the limiter do too.
LEMMA GateTypes ==
  GateTypeOK /\ (MinutePasses \/ (\E c \in Callers : Stamp(c))) => GateTypeOK'
<1> SUFFICES ASSUME GateTypeOK, MinutePasses \/ (\E c \in Callers : Stamp(c)) PROVE GateTypeOK'
  OBVIOUS
<1> USE GateAssumption DEF GateTypeOK, Minutes
<1>1. CASE MinutePasses
  BY <1>1 DEF MinutePasses
<1>2. ASSUME NEW c \in Callers, Stamp(c) PROVE GateTypeOK'
  BY <1>2 DEF Stamp, ClientIP, Calls
<1> QED BY <1>1, <1>2

\* A call that is counted keeps the quota.
LEMMA CountQuota ==
  ASSUME NEW c \in Callers, GateTypeOK, QuotaInv, Count(c)
  PROVE  QuotaInv'
<1> DEFINE ip == call[c].ip  now == call[c].now
<1>1. ip \in Ips /\ now \in Minutes /\ window \in Minutes /\ Limit \in Nat /\ Limit >= 1
  BY GateAssumption DEF GateTypeOK, Count, Calls
<1> SUFFICES ASSUME ~setBack', NEW i \in Ips
             PROVE  /\ \A m \in Minutes : m > window' => admitted'[i][m] = 0
                    /\ admitted'[i][window'] <= counts'[i]
                    /\ \A m \in Minutes : admitted'[i][m] <= Limit
  BY DEF QuotaInv
<1>2. ~setBack /\ now >= window /\ window' = now
  <2>1. setBack' = (setBack \/ now < window) /\ window' = now
    BY DEF Count
  <2>2. setBack \in BOOLEAN /\ setBack' \in BOOLEAN
    BY CountTypes DEF GateTypeOK
  <2>3. ~setBack /\ ~(now < window)
    BY <2>1, <2>2
  <2> QED BY <2>1, <2>3, <1>1 DEF Minutes
<1>3. /\ \A m \in Minutes : m > window => admitted[i][m] = 0
      /\ admitted[i][window] <= counts[i]
      /\ \A m \in Minutes : admitted[i][m] <= Limit
      /\ \A m \in Minutes : admitted[i][m] \in Nat
      /\ counts[i] \in Nat
  BY <1>2 DEF QuotaInv, GateTypeOK
<1>4. CountsFor(c)[i] \in Nat /\ admitted[i][now] <= CountsFor(c)[i]
  <2>1. CASE window = now
    BY <2>1, <1>3 DEF CountsFor
  <2>2. CASE window # now
    BY <2>2, <1>1, <1>2, <1>3 DEF CountsFor, Minutes
  <2> QED BY <2>1, <2>2
<1>5. counts'[i] = IF i = ip THEN CountsFor(c)[i] + 1 ELSE CountsFor(c)[i]
  BY DEF Count, CountsFor, GateTypeOK
<1>6. \A m \in Minutes :
        admitted'[i][m] = IF Allows(c) /\ i = ip /\ m = now THEN admitted[i][m] + 1 ELSE admitted[i][m]
  BY <1>1 DEF Count, GateTypeOK
<1>7. Allows(c) /\ i = ip => admitted[i][now] + 1 <= Limit
  BY <1>1, <1>3, <1>4 DEF Allows
<1>8. \A m \in Minutes : m > window' => admitted'[i][m] = 0
  BY <1>1, <1>2, <1>3, <1>6 DEF Minutes
<1>9. admitted'[i][window'] <= counts'[i]
  BY <1>1, <1>2, <1>3, <1>4, <1>5, <1>6
<1>10. \A m \in Minutes : admitted'[i][m] <= Limit
  BY <1>1, <1>3, <1>6, <1>7
<1> QED BY <1>8, <1>9, <1>10

-----------------------------------------------------------------------------
(* Types *)

\* Every step keeps the types.
LEMMA TypesKept == TypeOK /\ [Next]_vars => TypeOK'
<1> SUFFICES ASSUME TypeOK, [Next]_vars PROVE TypeOK'
  OBVIOUS
<1> USE HostAssumption, NoCallAssumption
  DEF TypeOK, files, control, history, gateVars, To, At, Roles
<1>e. ASSUME NEW p \in Procs, Exit(p), UNCHANGED files \/ (UNCHANGED <<machineId, statusFile>> /\ pidFile' = None) PROVE TypeOK'
  BY <1>e DEF Exit, End, GateTypeOK, Restarts
<1>k. ASSUME NEW p \in Procs, NEW ps \in SUBSET Procs, Killed(p, ps), faults' \in 0..MaxFaults
      PROVE TypeOK'
  BY <1>k DEF Killed, End, GateTypeOK, Restarts
<1>g. UNCHANGED gateVars => GateTypeOK'
  BY DEF GateTypeOK
<1>b. ASSUME NEW p \in Procs, NEW r \in Roles, Launch(p, r) \/ (Supervise(p) /\ r = "start")
      PROVE TypeOK'
  <2>1. CASE Launch(p, r)
    BY <2>1, <1>g DEF Launch, Begin
  <2>2. CASE Supervise(p)
    BY <2>2, <1>g DEF Supervise, Begin
  <2> QED BY <1>b, <2>1, <2>2
<1>1. ASSUME NEW p \in Procs, Load(p) PROVE TypeOK'
  <2>1. CASE LoadMachineID(p)
    <3>1. pc' \in [Procs -> {"idle", "load", "mint", "mintWrite", "run", "pid", "write",
               "wrote", "serving", "stop", "stopped", "remove", "kill", "call", "live",
               "ready", "failed", "installed"}]
      BY <2>1 DEF LoadMachineID
    <3>2. id' \in [Procs -> 0..minted]
      BY <2>1 DEF LoadMachineID
    <3>3. raced' = raced \/ raced' = TRUE \/ raced' = FALSE
      BY <2>1, Zenon DEF LoadMachineID
    <3> QED BY <2>1, <3>1, <3>2, <3>3, <1>g DEF LoadMachineID
  <2>2. CASE OpenMachineID(p)
    BY <2>2, <1>g DEF OpenMachineID
  <2>3. CASE WriteMachineID(p)
    BY <2>3, <1>g DEF WriteMachineID
  <2> QED BY <1>1, <2>1, <2>2, <2>3 DEF Load
<1>2. ASSUME NEW p \in Procs, Start(p) PROVE TypeOK'
  <2>1. CASE RemovePID(p)
    BY <2>1, <1>e DEF RemovePID
  <2>2. CASE OpenPID(p)
    BY <2>2, <1>g DEF OpenPID
  <2>3. CASE WritePID(p)
    BY <2>3, <1>g DEF WritePID
  <2>4. CASE OpenStatus(p)
    BY <2>4, <1>g DEF OpenStatus
  <2>5. CASE WriteRunning(p)
    BY <2>5, <1>g DEF WriteRunning
  <2>6. CASE WriteStopped(p)
    BY <2>6, <1>g DEF WriteStopped
  <2> QED BY <1>2, <2>1, <2>2, <2>3, <2>4, <2>5, <2>6 DEF Start
<1>3. ASSUME NEW p \in Procs, StopFindsNothing(p) \/ Leave(p) \/ SessionEnds(p) PROVE TypeOK'
  BY <1>3, <1>e DEF StopFindsNothing, Leave, SessionEnds
<1>4. ASSUME NEW p \in Procs, ReadPID(p) \/ Install(p) \/ Tick(p) \/ Signal(p) PROVE TypeOK'
  <2>1. CASE ReadPID(p)
    BY <2>1, <1>g DEF ReadPID
  <2>2. CASE Install(p)
    BY <2>2, <1>g DEF Install, InstallSystemdUser, InstallLaunchd, InstallWindowsTask, InstallAs
  <2>3. CASE Tick(p)
    BY <2>3, <1>g DEF Tick
  <2>4. CASE Signal(p)
    BY <2>4, <1>g DEF Signal
  <2> QED BY <1>4, <2>1, <2>2, <2>3, <2>4
<1>5. ASSUME NEW p \in Procs, Stop(p) PROVE TypeOK'
  <2>1. CASE Exit(p) /\ UNCHANGED files
    BY <2>1, <1>e
  <2>2. CASE pc[target[p]] # "idle" /\ Killed(target[p], {p}) /\ UNCHANGED faults
    <3>1. CASE target[p] \in Procs
      BY <2>2, <3>1, <1>k
    <3>2. CASE target[p] = None
      <4>1. GateTypeOK'
        BY <2>2, <3>2 DEF Killed, GateTypeOK
      <4> QED BY <2>2, <3>2, <4>1 DEF Killed, End, Restarts
    <3> QED BY <3>1, <3>2
  <2> QED BY <1>5, <2>1, <2>2 DEF Stop
<1>6. ASSUME NEW p \in Procs, CallRelay(p) PROVE TypeOK'
  <2>1. GateTypeOK'
    BY <1>6, GateTypes DEF CallRelay
  <2> QED BY <1>6, <2>1 DEF CallRelay
<1>7. ASSUME NEW p \in Procs, Doctor(p) \/ Session(p) PROVE TypeOK'
  <2>1. GateTypeOK'
    BY <1>7, CountTypes DEF Doctor, Session
  <2>2. CASE Doctor(p)
    BY <2>1, <2>2 DEF Doctor
  <2>3. CASE Session(p)
    BY <2>1, <2>3 DEF Session
  <2> QED BY <1>7, <2>2, <2>3
<1>8. ASSUME NEW p \in Procs, Die(p) PROVE TypeOK'
  BY <1>8, <1>k DEF Die
<1>9. CASE Clock
  <2>1. GateTypeOK'
    BY <1>9, GateTypes DEF Clock
  <2> QED BY <1>9, <2>1 DEF Clock
<1>10. CASE UNCHANGED vars
  BY <1>10 DEF vars, GateTypeOK
<1> QED
  BY <1>b, <1>1, <1>2, <1>3, <1>4, <1>5, <1>6, <1>7, <1>8, <1>9, <1>10 DEF Next, Command

\* The types hold at first.
LEMMA TypesAtFirst == Init => TypeOK
<1> SUFFICES ASSUME Init PROVE TypeOK
  OBVIOUS
<1>1. GateTypeOK
  <2>1. 0 \in Minutes /\ 1 \in Minutes
    BY GateAssumption DEF Minutes
  <2>2. [m \in Minutes |-> 0] \in [Minutes -> Nat]
    OBVIOUS
  <2> QED BY <2>1, <2>2 DEF Init, GateInit, GateTypeOK
<1>2. pc \in [Procs -> {"idle"}] /\ role \in [Procs -> {"none"}] /\ id \in [Procs -> {0}]
      /\ target \in [Procs -> {None}]
  BY DEF Init
<1>3. machineId \in 0..minted /\ minted \in Nat /\ launches \in 0..MaxLaunches
      /\ faults \in 0..MaxFaults /\ id \in [Procs -> 0..minted]
  BY <1>2, HostAssumption DEF Init
<1> QED BY <1>1, <1>2, <1>3 DEF Init, TypeOK, Roles

\* Every variable of the host and of the limiter keeps its type (TypeOK).
THEOREM HostTypeCorrect == Spec => []TypeOK
<1> QED BY TypesAtFirst, TypesKept, PTL DEF Spec

-----------------------------------------------------------------------------
(* The quota *)

\* Only Count touches what the quota is about.
LEMMA LimiterSteps ==
  [Next]_vars => UNCHANGED <<window, counts, admitted, setBack>> \/ \E c \in Callers : Count(c)
<1> SUFFICES ASSUME [Next]_vars
             PROVE  UNCHANGED <<window, counts, admitted, setBack>> \/ \E c \in Callers : Count(c)
  OBVIOUS
<1> USE DEF gateVars
<1>1. ASSUME NEW p \in Procs, NEW r \in Roles, Launch(p, r)
      PROVE  UNCHANGED <<window, counts, admitted, setBack>>
  BY <1>1 DEF Launch, Begin
<1>2. ASSUME NEW p \in Procs, Supervise(p) \/ Load(p) \/ Tick(p) \/ Signal(p)
      PROVE  UNCHANGED <<window, counts, admitted, setBack>>
  BY <1>2 DEF Supervise, Begin, Load, LoadMachineID, OpenMachineID, WriteMachineID, Tick, Signal
<1>3. ASSUME NEW p \in Procs, Start(p)
      PROVE  UNCHANGED <<window, counts, admitted, setBack>>
  BY <1>3 DEF Start, OpenPID, WritePID, OpenStatus, WriteRunning, WriteStopped, RemovePID, Exit
<1>4. ASSUME NEW p \in Procs,
             StopFindsNothing(p) \/ ReadPID(p) \/ Install(p) \/ Leave(p) \/ SessionEnds(p)
      PROVE  UNCHANGED <<window, counts, admitted, setBack>>
  BY <1>4 DEF StopFindsNothing, ReadPID, Install, Leave, SessionEnds, Exit,
  InstallSystemdUser, InstallLaunchd, InstallWindowsTask, InstallAs
<1>5. ASSUME NEW p \in Procs, Stop(p) \/ CallRelay(p) \/ Die(p)
      PROVE  UNCHANGED <<window, counts, admitted, setBack>>
  BY <1>5 DEF Stop, Exit, Killed, CallRelay, Stamp, Die
<1>6. ASSUME NEW p \in Procs, Doctor(p) \/ Session(p) PROVE Count(p)
  BY <1>6 DEF Doctor, Session
<1>7. CASE Clock
  BY <1>7 DEF Clock, MinutePasses
<1>8. CASE UNCHANGED vars
  BY <1>8 DEF vars
<1> QED
  BY <1>1, <1>2, <1>3, <1>4, <1>5, <1>6, <1>7, <1>8, HostAssumption DEF Next, Command

\* The limiter holds its quota for any limit, and any number of addresses, callers
\* and minutes (QuotaHolds).
THEOREM QuotaHoldsAlways == Spec => []QuotaHolds
<1>1. Init => QuotaInv
  <2> SUFFICES ASSUME Init, NEW ip \in Ips
               PROVE  /\ \A m \in Minutes : admitted[ip][m] = 0
                      /\ admitted[ip][window] = 0 /\ counts[ip] = 0 /\ Limit \in Nat
    BY DEF QuotaInv
  <2> QED BY GateAssumption DEF Init, GateInit, Minutes
<1>2. TypeOK /\ QuotaInv /\ [Next]_vars => QuotaInv'
  <2> SUFFICES ASSUME TypeOK, QuotaInv, [Next]_vars PROVE QuotaInv'
    OBVIOUS
  <2>1. CASE UNCHANGED <<window, counts, admitted, setBack>>
    BY <2>1 DEF QuotaInv
  <2>2. ASSUME NEW c \in Callers, Count(c) PROVE QuotaInv'
    BY <2>2, CountQuota DEF TypeOK
  <2> QED BY <2>1, <2>2, LimiterSteps
<1>3. QuotaInv => QuotaHolds
  BY DEF QuotaInv, QuotaHolds
<1> QED BY <1>1, <1>2, <1>3, TypesAtFirst, TypesKept, PTL DEF Spec

-----------------------------------------------------------------------------
(* The machine id *)

Mints(p) == pc[p] \in {"mint", "mintWrite"}

\* One process at most mints, and only while there is no id for another to hold.
IdInv ==
  ~raced =>
    /\ \A p \in Procs : id[p] # 0 => id[p] = machineId
    /\ \A p \in Procs : Mints(p) => machineId = 0
    /\ \A p, q \in Procs : Mints(p) /\ Mints(q) => p = q

\* Steps after config.Load neither mint nor touch the id.
LEMMA IdFrame ==
  ASSUME IdInv, UNCHANGED <<machineId, raced>>,
         \A p \in Procs : (id'[p] = id[p] \/ id'[p] = 0) /\ (Mints(p)' => Mints(p))
  PROVE  IdInv'
  BY DEF IdInv

\* What a process that ends, or moves to another step, leaves of the ids.
LEMMA EndIds ==
  ASSUME TypeOK, NEW ps, End(ps)
  PROVE  \A p \in Procs : (id'[p] = id[p] \/ id'[p] = 0) /\ (Mints(p)' => Mints(p))
  BY DEF End, Mints, TypeOK

LEMMA ToIds ==
  ASSUME TypeOK, NEW q \in Procs, NEW step, step \notin {"mint", "mintWrite"}, To(q, step)
  PROVE  \A p \in Procs : Mints(p)' => Mints(p)
  BY DEF To, Mints, TypeOK

\* Every step keeps IdInv.
LEMMA IdsKept == TypeOK /\ IdInv /\ [Next]_vars => IdInv'
<1> SUFFICES ASSUME TypeOK, IdInv, [Next]_vars PROVE IdInv'
  OBVIOUS
<1> USE DEF files, control, history, At
<1>e. ASSUME NEW ps, End(ps), UNCHANGED <<machineId, raced>> PROVE IdInv'
  BY <1>e, EndIds, IdFrame
<1>t. ASSUME NEW q \in Procs, NEW step, step \notin {"mint", "mintWrite"}, To(q, step),
             UNCHANGED <<machineId, raced, id>>
      PROVE  IdInv'
  BY <1>t, ToIds, IdFrame
<1>1. ASSUME NEW p \in Procs, NEW r \in Roles, Launch(p, r) PROVE IdInv'
  BY <1>1, <1>t DEF Launch, Begin
<1>2. ASSUME NEW p \in Procs, Supervise(p) PROVE IdInv'
  BY <1>2, <1>t DEF Supervise, Begin
<1>3. ASSUME NEW p \in Procs, LoadMachineID(p) PROVE IdInv'
  <2>1. CASE machineId # 0
    <3>1. pc' = [pc EXCEPT ![p] = "run"] /\ id' = [id EXCEPT ![p] = machineId]
          /\ UNCHANGED <<machineId, raced>>
      BY <1>3, <2>1 DEF LoadMachineID, To
    <3>2. \A q \in Procs : Mints(q)' => Mints(q)
      BY <3>1 DEF Mints, TypeOK
    <3>3. \A q \in Procs : id'[q] = id[q] \/ id'[q] = machineId
      BY <3>1 DEF TypeOK
    <3> QED BY <3>1, <3>2, <3>3 DEF IdInv
  <2>2. CASE machineId = 0
    <3>1. pc' = [pc EXCEPT ![p] = "mint"] /\ UNCHANGED <<machineId, id>>
      BY <1>3, <2>2 DEF LoadMachineID, To
    <3>2. raced' = (raced \/ \E q \in Procs : Mints(q))
      BY <1>3, <2>2, Zenon DEF LoadMachineID, Mints
    <3>3. \A q \in Procs : Mints(q)' => Mints(q) \/ q = p
      BY <3>1 DEF Mints, TypeOK
    <3>4. CASE \E q \in Procs : Mints(q)
      BY <3>2, <3>4, Zenon DEF IdInv
    <3>5. CASE ~\E q \in Procs : Mints(q)
      <4>1. ~raced' => ~raced
        BY <3>2, Zenon
      <4> QED BY <3>1, <3>3, <3>5, <4>1, <2>2 DEF IdInv
    <3> QED BY <3>4, <3>5
  <2> QED BY <2>1, <2>2
<1>4. ASSUME NEW p \in Procs, OpenMachineID(p) PROVE IdInv'
  <2>1. Mints(p) /\ machineId' = 0 /\ UNCHANGED <<id, raced>> /\ pc' = [pc EXCEPT ![p] = "mintWrite"]
    BY <1>4 DEF OpenMachineID, Mints, To
  <2>2. \A q \in Procs : Mints(q)' => Mints(q)
    BY <2>1 DEF Mints, TypeOK
  <2> QED BY <2>1, <2>2 DEF IdInv
<1>5. ASSUME NEW p \in Procs, WriteMachineID(p) PROVE IdInv'
  <2>1. /\ Mints(p) /\ machineId' = minted + 1 /\ UNCHANGED raced
        /\ id' = [id EXCEPT ![p] = minted + 1] /\ pc' = [pc EXCEPT ![p] = "run"]
    BY <1>5 DEF WriteMachineID, Mints, To
  <2>2. \A q \in Procs : Mints(q)' => Mints(q) /\ q # p
    BY <2>1 DEF Mints, TypeOK
  <2>3. \A q \in Procs : id'[q] = IF q = p THEN minted + 1 ELSE id[q]
    BY <2>1 DEF TypeOK
  <2> QED BY <2>1, <2>2, <2>3 DEF IdInv
<1>6. ASSUME NEW p \in Procs, OpenPID(p) \/ WritePID(p) PROVE IdInv'
  BY <1>6, <1>t DEF OpenPID, WritePID
<1>7. ASSUME NEW p \in Procs, OpenStatus(p) \/ WriteRunning(p) \/ WriteStopped(p) PROVE IdInv'
  BY <1>7, <1>t DEF OpenStatus, WriteRunning, WriteStopped
<1>8. ASSUME NEW p \in Procs, RemovePID(p) PROVE IdInv'
  BY <1>8, <1>e DEF RemovePID, Exit
<1>9. ASSUME NEW p \in Procs, StopFindsNothing(p) \/ Leave(p) \/ SessionEnds(p) PROVE IdInv'
  BY <1>9, <1>e DEF StopFindsNothing, Leave, SessionEnds, Exit
<1>10. ASSUME NEW p \in Procs, ReadPID(p) \/ Install(p) \/ Tick(p) \/ Signal(p) PROVE IdInv'
  BY <1>10, <1>t DEF ReadPID, Install, Tick, Signal, InstallSystemdUser, InstallLaunchd,
  InstallWindowsTask, InstallAs
<1>11. ASSUME NEW p \in Procs, Stop(p) \/ Die(p) PROVE IdInv'
  BY <1>11, <1>e DEF Stop, Die, Killed, Exit
<1>12. ASSUME NEW p \in Procs, CallRelay(p) PROVE IdInv'
  BY <1>12, <1>t DEF CallRelay
<1>13. ASSUME NEW p \in Procs, Doctor(p) \/ Session(p) PROVE IdInv'
  <2>1. \E step \in {"ready", "failed", "live"} : To(p, step)
    BY <1>13 DEF Doctor, Session
  <2> QED BY <1>13, <1>t, <2>1 DEF Doctor, Session
<1>14. CASE Clock \/ UNCHANGED vars
  BY <1>14 DEF Clock, vars, IdInv, Mints
<1> QED
  BY <1>1, <1>2, <1>3, <1>4, <1>5, <1>6, <1>7, <1>8, <1>9, <1>10, <1>11, <1>12, <1>13, <1>14
  DEF Next, Command, Load, Start

\* All processes of the machine hold the id in the file (MachineIdAgrees).
THEOREM MachineIdAgreesAlways == Spec => []MachineIdAgrees
<1>1. Init => IdInv
  BY DEF Init, IdInv, Mints
<1>2. IdInv => MachineIdAgrees
  BY DEF IdInv, MachineIdAgrees
<1> QED BY <1>1, <1>2, IdsKept, TypesAtFirst, TypesKept, PTL DEF Spec

-----------------------------------------------------------------------------
(* The files of the service *)

Stopped(p) == role[p] = "start" /\ pc[p] \in {"stopped", "remove"}

\* One service owns the files; each file names it, or is stale, or names nobody.
ServiceInv ==
  ~overlapped =>
    /\ \A p, q \in Procs : Owns(p) /\ Owns(q) => p = q
    /\ \A p \in Procs : Serves(p) => pidFile = p
    /\ \A p \in Procs : Stopped(p) => statusFile = None
    /\ "status" \notin stale /\ statusFile # None => Serves(statusFile)
    /\ "pid" \notin stale /\ pidFile # None => Serves(pidFile)
    /\ \A p \in Procs : target[p] # None /\ p \notin doubt => Serves(target[p])

shared == <<pidFile, statusFile, overlapped, stale>>

\* A step by which nobody becomes or ceases to be the service.
LEMMA ServiceFrame ==
  ASSUME TypeOK, ServiceInv, UNCHANGED <<shared, target, doubt>>,
         \A p \in Procs : (Owns(p)' <=> Owns(p)) /\ (Serves(p)' <=> Serves(p)) /\ (Stopped(p)' => Stopped(p))
  PROVE  ServiceInv'
  BY HostAssumption DEF ServiceInv, shared, TypeOK

LEMMA ToService ==
  ASSUME TypeOK, ServiceInv, NEW q \in Procs, NEW step, To(q, step), ~Owns(q),
         role[q] # "start" \/ step \in {"mint", "mintWrite", "run"},
         UNCHANGED <<shared, target, doubt, role>>
  PROVE  ServiceInv'
<1>1. \A p \in Procs : pc'[p] = (IF p = q THEN step ELSE pc[p]) /\ role'[p] = role[p]
  BY DEF To, TypeOK
<1>2. \A p \in Procs : (Owns(p)' <=> Owns(p)) /\ (Serves(p)' <=> Serves(p)) /\ (Stopped(p)' => Stopped(p))
  BY <1>1 DEF Owns, Serves, Stopped
<1> QED BY <1>2, ServiceFrame

\* Processes end: the rest keep what they are.
LEMMA EndFacts ==
  ASSUME TypeOK, NEW ps, End(ps)
  PROVE  /\ \A p \in Procs : Owns(p)' <=> (Owns(p) /\ p \notin ps)
         /\ \A p \in Procs : Serves(p)' <=> (Serves(p) /\ p \notin ps)
         /\ \A p \in Procs : Stopped(p)' => Stopped(p)
         /\ \A p \in Procs : target'[p] # None /\ p \notin doubt'
              => target'[p] = target[p] /\ p \notin doubt /\ target[p] \notin ps
<1>1. \A p \in Procs : /\ pc'[p] = IF p \in ps THEN "idle" ELSE pc[p]
                       /\ role'[p] = IF p \in ps THEN "none" ELSE role[p]
                       /\ target'[p] = IF p \in ps THEN None ELSE target[p]
  BY DEF End
<1>2. doubt' = (doubt \cup {p \in Procs : target[p] \in ps}) \ ps
  BY DEF End
<1> QED BY <1>1, <1>2 DEF Owns, Serves, Stopped

LEMMA EndOthers ==
  ASSUME TypeOK, ServiceInv, NEW ps, End(ps), UNCHANGED shared, \A p \in ps \cap Procs : ~Owns(p)
  PROVE  ServiceInv'
<1>1. \A p \in Procs : (Owns(p)' <=> Owns(p)) /\ (Serves(p)' <=> Serves(p)) /\ (Stopped(p)' => Stopped(p))
  BY EndFacts DEF Serves
<1> QED BY <1>1, EndFacts, HostAssumption DEF ServiceInv, shared, TypeOK

LEMMA EndKilled ==
  ASSUME TypeOK, ServiceInv, NEW ps, End(ps), UNCHANGED <<pidFile, statusFile, overlapped>>,
         stale' = {"pid", "status"}
  PROVE  ServiceInv'
<1>1. \A p \in Procs : (Owns(p)' => Owns(p)) /\ (Serves(p)' => Serves(p)) /\ (Stopped(p)' => Stopped(p))
  BY EndFacts
<1>2. ASSUME NEW p \in Procs, ~overlapped, target'[p] # None, p \notin doubt'
      PROVE  Serves(target[p])'
  <2>1. target'[p] = target[p] /\ p \notin doubt /\ target[p] \notin ps
    BY <1>2, EndFacts
  <2>2. target[p] \in Procs /\ Serves(target[p])
    BY <1>2, <2>1 DEF ServiceInv, TypeOK
  <2>3. PICK t \in Procs : t = target[p]
    BY <2>2
  <2>4. Serves(t)'
    BY <2>1, <2>2, <2>3, EndFacts
  <2>5. target'[p] = t /\ t' = t
    BY <2>1, <2>3
  <2> QED BY <2>4, <2>5
<1> QED BY <1>1, <1>2 DEF ServiceInv

LEMMA KilledService ==
  ASSUME TypeOK, ServiceInv, NEW t \in Procs, NEW ps, Killed(t, ps), \A p \in ps \cap Procs : ~Owns(p)
  PROVE  ServiceInv'
<1>1. End(ps \cup {t}) /\ UNCHANGED <<pidFile, statusFile, overlapped>>
      /\ stale' = IF Owns(t) THEN {"pid", "status"} ELSE stale
  BY DEF Killed, files
<1>2. CASE Owns(t)
  BY <1>1, <1>2, EndKilled
<1>3. CASE ~Owns(t)
  BY <1>1, <1>3, EndOthers DEF shared
<1> QED BY <1>2, <1>3

\* What the service's own steps do to who is the service.
LEMMA OwnerStep ==
  ASSUME TypeOK, NEW q \in Procs, role[q] = "start", NEW step, To(q, step), UNCHANGED role,
         step \in {"pid", "write", "wrote", "serving", "stop", "stopped", "remove"}
  PROVE  /\ \A p \in Procs : Owns(p)' <=> (Owns(p) \/ p = q)
         /\ \A p \in Procs : Serves(p)' <=> (IF p = q THEN step # "pid" ELSE Serves(p))
         /\ \A p \in Procs : Stopped(p)' <=> (IF p = q THEN step \in {"stopped", "remove"} ELSE Stopped(p))
<1>1. \A p \in Procs : pc'[p] = (IF p = q THEN step ELSE pc[p]) /\ role'[p] = role[p]
  BY DEF To, TypeOK
<1> QED BY <1>1 DEF Owns, Serves, Stopped

\* Every step keeps ServiceInv.
LEMMA ServiceKept == TypeOK /\ ServiceInv /\ [Next]_vars => ServiceInv'
<1> SUFFICES ASSUME TypeOK, ServiceInv, [Next]_vars PROVE ServiceInv'
  OBVIOUS
<1> USE DEF files, control, history, shared
<1>1. ASSUME NEW p \in Procs, NEW r \in Roles, Begin(p, r) PROVE ServiceInv'
  <2>1. \A q \in Procs : /\ pc'[q] = (IF q = p THEN "load" ELSE pc[q])
                         /\ role'[q] = (IF q = p THEN r ELSE role[q])
    BY <1>1 DEF Begin, To, TypeOK
  <2>2. \A q \in Procs : (Owns(q)' <=> Owns(q)) /\ (Serves(q)' <=> Serves(q)) /\ (Stopped(q)' => Stopped(q))
    BY <1>1, <2>1 DEF Begin, Owns, Serves, Stopped
  <2> QED BY <1>1, <2>2, ServiceFrame DEF Begin
<1>2. ASSUME NEW p \in Procs, (\E r \in Roles : Launch(p, r)) \/ Supervise(p) PROVE ServiceInv'
  BY <1>1, <1>2 DEF Launch, Supervise, Roles
<1>3. ASSUME NEW p \in Procs, Load(p) PROVE ServiceInv'
  <2>1. ~Owns(p) /\ UNCHANGED <<shared, target, doubt, role>>
    BY <1>3 DEF Load, LoadMachineID, OpenMachineID, WriteMachineID, Owns
  <2>2. \E step \in {"mint", "mintWrite", "run"} : To(p, step)
    BY <1>3 DEF Load, LoadMachineID, OpenMachineID, WriteMachineID
  <2> QED BY <2>1, <2>2, ToService
<1>4. ASSUME NEW p \in Procs, OpenPID(p) PROVE ServiceInv'
  <2>1. /\ role[p] = "start" /\ To(p, "pid") /\ pidFile' = None
        /\ UNCHANGED <<role, statusFile, stale, target, doubt>> /\ ~Owns(p) /\ ~Stopped(p)
    BY <1>4 DEF OpenPID, At, Owns, Stopped
  <2>2. overlapped' = (overlapped \/ \E q \in Procs : Owns(q))
    BY <1>4, Zenon DEF OpenPID
  <2>3. ~overlapped' => ~overlapped /\ \A q \in Procs : ~Owns(q) /\ ~Serves(q)
    BY <2>2, Zenon DEF Serves
  <2>4. ~overlapped' => \A q \in Procs : ~(target[q] # None /\ q \notin doubt)
    BY <2>3 DEF ServiceInv, TypeOK
  <2>5. ~overlapped' /\ "status" \notin stale => statusFile = None
    BY <2>3 DEF ServiceInv, TypeOK
  <2> QED BY <2>1, <2>3, <2>4, <2>5, OwnerStep DEF ServiceInv
<1>5. ASSUME NEW p \in Procs, WritePID(p) PROVE ServiceInv'
  <2>1. /\ role[p] = "start" /\ To(p, "write") /\ pidFile' = p /\ stale' = stale \ {"pid"}
        /\ UNCHANGED <<role, statusFile, overlapped, target, doubt>> /\ Owns(p) /\ ~Serves(p)
    BY <1>5 DEF WritePID, At, Owns, Serves
  <2>2. \A q \in Procs : ~overlapped /\ Serves(q) => FALSE
    BY <2>1 DEF ServiceInv, Serves
  <2> QED BY <2>1, <2>2, OwnerStep, HostAssumption DEF ServiceInv, TypeOK
<1>6. ASSUME NEW p \in Procs, OpenStatus(p) PROVE ServiceInv'
  <2>1. \E step \in {"wrote", "stopped"} : To(p, step)
    BY <1>6 DEF OpenStatus
  <2>2. /\ role[p] = "start" /\ statusFile' = None /\ Serves(p)
        /\ UNCHANGED <<role, pidFile, stale, overlapped, target, doubt>>
    BY <1>6 DEF OpenStatus, Owns, Serves
  <2>3. \A q \in Procs : (Owns(q)' <=> Owns(q)) /\ (Serves(q)' <=> Serves(q))
    BY <2>1, <2>2, OwnerStep DEF Serves
  <2> QED BY <2>2, <2>3, HostAssumption DEF ServiceInv, TypeOK
<1>7. ASSUME NEW p \in Procs, WriteRunning(p) PROVE ServiceInv'
  <2>1. /\ role[p] = "start" /\ To(p, "serving") /\ statusFile' = p /\ stale' = stale \ {"status"}
        /\ UNCHANGED <<role, pidFile, overlapped, target, doubt>> /\ Serves(p) /\ Owns(p)
    BY <1>7 DEF WriteRunning, At, Owns, Serves
  <2>2. \A q \in Procs : (Owns(q)' <=> Owns(q)) /\ (Serves(q)' <=> Serves(q))
    BY <2>1, OwnerStep
  <2>3. ~overlapped => \A q \in Procs : ~Stopped(q)'
    <3>1. \A q \in Procs : ~overlapped /\ Stopped(q) => q = p
      BY <2>1 DEF ServiceInv, Stopped, Owns
    <3> QED BY <2>1, <3>1, OwnerStep
  <2> QED BY <2>1, <2>2, <2>3, HostAssumption DEF ServiceInv, TypeOK
<1>8. ASSUME NEW p \in Procs, WriteStopped(p) PROVE ServiceInv'
  <2>1. /\ role[p] = "start" /\ To(p, "remove") /\ statusFile' = None
        /\ UNCHANGED <<role, pidFile, stale, overlapped, target, doubt>> /\ Serves(p) /\ Owns(p)
    BY <1>8 DEF WriteStopped, At, Owns, Serves
  <2>2. \A q \in Procs : (Owns(q)' <=> Owns(q)) /\ (Serves(q)' <=> Serves(q))
    BY <2>1, OwnerStep
  <2> QED BY <2>1, <2>2, HostAssumption DEF ServiceInv, TypeOK
<1>9. ASSUME NEW p \in Procs, RemovePID(p) PROVE ServiceInv'
  <2>1. /\ End({p}) /\ pidFile' = None /\ UNCHANGED <<statusFile, stale, overlapped>>
        /\ Owns(p) /\ Stopped(p)
    BY <1>9 DEF RemovePID, Exit, At, Owns, Stopped
  <2>2. ~overlapped => statusFile = None /\ \A q \in Procs : ~Owns(q)' /\ ~Serves(q)'
    BY <2>1, EndFacts DEF ServiceInv, Serves
  <2>3. ~overlapped => \A q \in Procs : ~(target'[q] # None /\ q \notin doubt')
    <3> SUFFICES ASSUME ~overlapped, NEW q \in Procs, target'[q] # None, q \notin doubt' PROVE FALSE
      OBVIOUS
    <3>1. target[q] # None /\ target[q] \in Procs /\ q \notin doubt /\ target[q] # p
      BY <2>1, EndFacts DEF TypeOK
    <3>2. Serves(target[q])
      BY <3>1 DEF ServiceInv
    <3> QED BY <2>1, <3>1, <3>2 DEF ServiceInv, Serves
  <2> QED BY <2>1, <2>2, <2>3 DEF ServiceInv
<1>10. ASSUME NEW p \in Procs, StopFindsNothing(p) \/ Leave(p) \/ SessionEnds(p) PROVE ServiceInv'
  BY <1>10, EndOthers DEF StopFindsNothing, Leave, SessionEnds, Exit, At, Owns
<1>11. ASSUME NEW p \in Procs, ReadPID(p) PROVE ServiceInv'
  <2>1. /\ role[p] = "stop" /\ To(p, "kill") /\ pidFile # None
        /\ target' = [target EXCEPT ![p] = pidFile]
        /\ doubt' = IF "pid" \in stale THEN doubt \cup {p} ELSE doubt
        /\ UNCHANGED <<role, pidFile, statusFile, stale, overlapped>>
    BY <1>11 DEF ReadPID, At
  <2>2. \A q \in Procs : (Owns(q)' <=> Owns(q)) /\ (Serves(q)' <=> Serves(q)) /\ (Stopped(q)' <=> Stopped(q))
    <3>1. \A q \in Procs : pc'[q] = (IF q = p THEN "kill" ELSE pc[q]) /\ role'[q] = role[q]
      BY <2>1 DEF To, TypeOK
    <3> QED BY <2>1, <3>1 DEF Owns, Serves, Stopped
  <2>3. \A q \in Procs : target'[q] = IF q = p THEN pidFile ELSE target[q]
    BY <2>1 DEF TypeOK
  <2>4. \A q \in Procs : ~overlapped /\ target'[q] # None /\ q \notin doubt'
          => target'[q] \in Procs /\ Serves(target'[q])
    BY <2>1, <2>3 DEF ServiceInv, TypeOK
  <2>6. ASSUME NEW q \in Procs, ~overlapped, target'[q] # None, q \notin doubt'
        PROVE  Serves(target[q])'
    <3>1. PICK t \in Procs : t = target'[q] /\ Serves(t)
      BY <2>4, <2>6
    <3>2. Serves(t)'
      BY <2>2, <3>1
    <3> QED BY <3>1, <3>2
  <2> QED BY <2>1, <2>2, <2>6, HostAssumption DEF ServiceInv, TypeOK
<1>12. ASSUME NEW p \in Procs, Install(p) \/ CallRelay(p) PROVE ServiceInv'
  <2>1. ~Owns(p) /\ role[p] # "start" /\ UNCHANGED <<shared, target, doubt, role>>
    BY <1>12 DEF Install, CallRelay, At, Owns, InstallSystemdUser, InstallLaunchd,
         InstallWindowsTask, InstallAs
  <2>2. To(p, "installed") \/ To(p, "call")
    BY <1>12 DEF Install, CallRelay
  <2> QED BY <2>1, <2>2, ToService
<1>13. ASSUME NEW p \in Procs, Doctor(p) \/ Session(p) PROVE ServiceInv'
  <2>1. ~Owns(p) /\ role[p] # "start" /\ UNCHANGED <<shared, target, doubt, role>>
    BY <1>13 DEF Doctor, Session, At, Owns
  <2>2. \E step \in {"ready", "failed", "live"} : To(p, step)
    BY <1>13 DEF Doctor, Session
  <2> QED BY <2>1, <2>2, ToService
<1>14. ASSUME NEW p \in Procs, Tick(p) \/ Signal(p) PROVE ServiceInv'
  <2>1. \E step \in {"write", "stop"} : To(p, step)
    BY <1>14 DEF Tick, Signal
  <2>2. role[p] = "start" /\ Serves(p) /\ UNCHANGED <<shared, target, doubt, role>>
    BY <1>14 DEF Tick, Signal, At, Owns, Serves
  <2>3. \A q \in Procs : (Owns(q)' <=> Owns(q)) /\ (Serves(q)' <=> Serves(q)) /\ (Stopped(q)' => Stopped(q))
    BY <2>1, <2>2, OwnerStep DEF Serves
  <2> QED BY <2>2, <2>3, ServiceFrame
<1>15. ASSUME NEW p \in Procs, Stop(p) PROVE ServiceInv'
  <2>1. ~Owns(p)
    BY <1>15 DEF Stop, At, Owns
  <2>2. CASE Exit(p) /\ UNCHANGED files
    BY <2>1, <2>2, EndOthers DEF Exit
  <2>3. CASE Killed(target[p], {p})
    <3>1. CASE target[p] \in Procs
      BY <2>1, <2>3, <3>1, KilledService
    <3>2. CASE target[p] = None
      <4>1. End({p} \cup {None}) /\ UNCHANGED <<pidFile, statusFile, overlapped>>
            /\ (stale' = stale \/ stale' = {"pid", "status"})
        BY <2>3, <3>2 DEF Killed
      <4> QED BY <2>1, <4>1, EndOthers, EndKilled, HostAssumption
    <3> QED BY <3>1, <3>2 DEF TypeOK
  <2> QED BY <1>15, <2>2, <2>3 DEF Stop
<1>16. ASSUME NEW p \in Procs, Die(p) PROVE ServiceInv'
  BY <1>16, KilledService DEF Die
<1>17. CASE Clock \/ UNCHANGED vars
  BY <1>17 DEF Clock, vars, ServiceInv, Owns, Serves, Stopped
<1>18. ASSUME NEW p \in Procs, Start(p) PROVE ServiceInv'
  BY <1>4, <1>5, <1>6, <1>7, <1>8, <1>9, <1>18 DEF Start
<1>19. ASSUME NEW p \in Procs, Command(p) PROVE ServiceInv'
  BY <1>3, <1>10, <1>11, <1>12, <1>13, <1>15, <1>18, <1>19 DEF Command
<1> QED BY <1>2, <1>10, <1>14, <1>16, <1>17, <1>19 DEF Next

LEMMA ServiceAtFirst == Init => ServiceInv
  BY DEF Init, ServiceInv, Owns, Serves, Stopped

\* daemon.pid names the service that runs (PidFileNamesService).
THEOREM PidFileNamesServiceAlways == Spec => []PidFileNamesService
<1>1. ServiceInv => PidFileNamesService
  BY DEF ServiceInv, PidFileNamesService
<1> QED BY <1>1, ServiceAtFirst, ServiceKept, TypesAtFirst, TypesKept, PTL DEF Spec

\* daemon.status says running for a service that runs (StatusIsTrue).
THEOREM StatusIsTrueAlways == Spec => []StatusIsTrue
<1>1. ServiceInv => StatusIsTrue
  BY DEF ServiceInv, StatusIsTrue
<1> QED BY <1>1, ServiceAtFirst, ServiceKept, TypesAtFirst, TypesKept, PTL DEF Spec

\* stop kills the service and nothing else (StopHitsService).
THEOREM StopHitsServiceAlways == Spec => []StopHitsService
<1>1. ServiceInv => StopHitsService
  BY DEF ServiceInv, StopHitsService
<1> QED BY <1>1, ServiceAtFirst, ServiceKept, TypesAtFirst, TypesKept, PTL DEF Spec

\* The files agree with the service that runs (HostFilesAreTrue).
THEOREM HostFilesAreTrueAlways == Spec => []HostFilesAreTrue
<1>1. ServiceInv => HostFilesAreTrue
  BY DEF ServiceInv, HostFilesAreTrue, PidFileNamesService, StatusIsTrue
<1> QED BY <1>1, ServiceAtFirst, ServiceKept, TypesAtFirst, TypesKept, PTL DEF Spec

-----------------------------------------------------------------------------
(* The installed service *)

\* The supervisor has launched p, and p has not ended.
Runs(p) == p \in Procs /\ role[p] = "start" /\ pc[p] # "idle"

\* An installed service is running or about to, or the supervisor is to launch it and has a
\* pid to launch it with (installSystemdUser, installLaunchd; End).  This is what
\* ServiceComesBack asks of the files and the supervisor; the rest is their scheduling.
ServiceIsKept ==
  supervisor = "always" =>
    \/ Runs(supervised)
    \/ due /\ \E p \in Procs : pc[p] = "idle"

\* What the supervisor launched has not ended, it launches one at a time, and a pid is left.
SupervisorInv ==
  /\ supervised # None => Runs(supervised)
  /\ due => supervised = None
  /\ supervisor = "always" => Procs # {} /\ (due \/ supervised # None)
  /\ supervised = None => Procs = {} \/ \E p \in Procs : pc[p] = "idle"

\* A step of a process that neither ends nor is launched.
LEMMA SupervisorFrame ==
  ASSUME TypeOK, SupervisorInv, NEW q \in Procs, NEW step, To(q, step), pc[q] # "idle", step # "idle",
         UNCHANGED <<role, supervised, supervisor, due>>
  PROVE  SupervisorInv'
<1>1. \A p \in Procs : /\ role'[p] = role[p]
                       /\ pc'[p] = "idle" <=> pc[p] = "idle"
  BY DEF To, TypeOK
<1>2. Runs(supervised)' <=> Runs(supervised)
  BY <1>1 DEF Runs
<1> QED BY <1>1, <1>2 DEF SupervisorInv

\* Processes end: the supervisor starts its own again, and their pids are free.
LEMMA SupervisorAfterEnd ==
  ASSUME TypeOK, SupervisorInv, NEW ps, End(ps), UNCHANGED supervisor
  PROVE  SupervisorInv'
<1>1. \A p \in Procs : /\ pc'[p] = IF p \in ps THEN "idle" ELSE pc[p]
                       /\ role'[p] = IF p \in ps THEN "none" ELSE role[p]
  BY DEF End
<1>2. /\ supervised' = IF supervised \in ps THEN None ELSE supervised
      /\ due' <=> (due \/ (supervised \in ps /\ supervisor = "always"))
  BY DEF End, Restarts
<1>3. CASE supervised \notin ps
  <2>1. supervised' = supervised /\ due' = due
    BY <1>2, <1>3 DEF End, Restarts, TypeOK
  <2>2. Runs(supervised) => Runs(supervised)'
    BY <1>1, <1>3, <2>1 DEF Runs
  <2>3. \A p \in Procs : pc[p] = "idle" => pc'[p] = "idle"
    BY <1>1
  <2> QED BY <2>1, <2>2, <2>3 DEF SupervisorInv
<1>4. CASE supervised \in ps /\ supervised # None
  <2>1. supervised' = None /\ supervised \in Procs /\ pc'[supervised] = "idle"
    BY <1>1, <1>2, <1>4 DEF SupervisorInv, Runs
  <2>2. supervisor' = "always" => due' /\ Procs # {}
    BY <1>2, <1>4 DEF SupervisorInv
  <2> QED BY <2>1, <2>2 DEF SupervisorInv
<1>5. CASE supervised = None /\ supervised \in ps
  <2>1. supervised' = None /\ (due => due') /\ (supervisor' = "always" => due')
    BY <1>2, <1>5
  <2>2. \A p \in Procs : pc[p] = "idle" => pc'[p] = "idle"
    BY <1>1
  <2> QED BY <1>5, <2>1, <2>2 DEF SupervisorInv
<1> QED BY <1>3, <1>4, <1>5

\* Every step keeps SupervisorInv.
LEMMA SupervisorKept == TypeOK /\ SupervisorInv /\ [Next]_vars => SupervisorInv'
<1> SUFFICES ASSUME TypeOK, SupervisorInv, [Next]_vars PROVE SupervisorInv'
  OBVIOUS
<1> USE DEF files, control, history
<1>1. ASSUME NEW p \in Procs, NEW r \in Roles, Launch(p, r) PROVE SupervisorInv'
  <2>1. /\ \A q \in Procs : /\ pc'[q] = (IF q = p THEN "load" ELSE pc[q])
                            /\ role'[q] = (IF q = p THEN r ELSE role[q])
        /\ pc[p] = "idle" /\ UNCHANGED <<supervised, supervisor, due>>
    BY <1>1 DEF Launch, Begin, To, TypeOK
  <2>2. \E q \in Procs \ {p} : pc[q] = "idle"
    BY <1>1 DEF Launch
  <2>3. Runs(supervised) => Runs(supervised)'
    BY <2>1 DEF Runs
  <2> QED BY <2>1, <2>2, <2>3 DEF SupervisorInv
<1>2. ASSUME NEW p \in Procs, Supervise(p) PROVE SupervisorInv'
  <2>1. pc'[p] = "load" /\ role'[p] = "start" /\ supervised' = p /\ due' = FALSE
    BY <1>2 DEF Supervise, Begin, To, TypeOK
  <2>2. p # None
    BY HostAssumption
  <2> QED BY <2>1, <2>2 DEF SupervisorInv, Runs
<1>3. ASSUME NEW ps, End(ps), UNCHANGED supervisor PROVE SupervisorInv'
  BY <1>3, SupervisorAfterEnd
<1>4. ASSUME NEW p \in Procs, Stop(p) PROVE SupervisorInv'
  BY <1>3, <1>4 DEF Stop, Exit, Killed
<1>5. ASSUME NEW p \in Procs, StopFindsNothing(p) \/ RemovePID(p) \/ Leave(p) \/ SessionEnds(p) \/ Die(p)
      PROVE  SupervisorInv'
  BY <1>3, <1>5 DEF StopFindsNothing, RemovePID, Leave, SessionEnds, Die, Exit, Killed
<1>6. ASSUME NEW p \in Procs, NEW step, To(p, step), pc[p] # "idle", step # "idle",
             UNCHANGED <<role, supervised, supervisor, due>>
      PROVE  SupervisorInv'
  BY <1>6, SupervisorFrame
<1>7. ASSUME NEW p \in Procs, Load(p) PROVE SupervisorInv'
  BY <1>6, <1>7 DEF Load, LoadMachineID, OpenMachineID, WriteMachineID
<1>8. ASSUME NEW p \in Procs, OpenPID(p) \/ WritePID(p) \/ WriteRunning(p) \/ WriteStopped(p)
      PROVE  SupervisorInv'
  BY <1>6, <1>8 DEF OpenPID, WritePID, WriteRunning, WriteStopped, At
<1>9. ASSUME NEW p \in Procs, OpenStatus(p) PROVE SupervisorInv'
  <2>1. PICK step \in {"wrote", "stopped"} : To(p, step)
    BY <1>9 DEF OpenStatus
  <2> QED BY <1>6, <1>9, <2>1 DEF OpenStatus
<1>10. ASSUME NEW p \in Procs, Tick(p) \/ Signal(p) \/ ReadPID(p) \/ CallRelay(p) PROVE SupervisorInv'
  BY <1>6, <1>10 DEF Tick, Signal, ReadPID, CallRelay, At
<1>11. ASSUME NEW p \in Procs, Doctor(p) PROVE SupervisorInv'
  <2>1. \E step \in {"ready", "failed"} : To(p, step)
    BY <1>11 DEF Doctor
  <2>2. pc[p] # "idle" /\ UNCHANGED <<role, supervised, supervisor, due>>
    BY <1>11 DEF Doctor, At
  <2> QED BY <1>6, <2>1, <2>2
<1>12. ASSUME NEW p \in Procs, Session(p) PROVE SupervisorInv'
  <2>1. \E step \in {"live", "failed"} : To(p, step)
    BY <1>12 DEF Session
  <2>2. pc[p] # "idle" /\ UNCHANGED <<role, supervised, supervisor, due>>
    BY <1>12 DEF Session, At
  <2> QED BY <1>6, <2>1, <2>2
<1>13. ASSUME NEW p \in Procs, Install(p) PROVE SupervisorInv'
  <2>1. /\ pc'[p] = "installed" /\ pc[p] # "idle" /\ UNCHANGED <<role, supervised>>
        /\ \A q \in Procs : q # p => pc'[q] = pc[q]
        /\ due' <=> supervised = None
    BY <1>13 DEF Install, InstallSystemdUser, InstallLaunchd, InstallWindowsTask, InstallAs, To, At, TypeOK
  <2>2. \A q \in Procs : pc'[q] = "idle" <=> pc[q] = "idle"
    BY <2>1
  <2>3. Runs(supervised)' <=> Runs(supervised)
    BY <2>1, <2>2 DEF Runs
  <2> QED BY <2>1, <2>2, <2>3 DEF SupervisorInv
<1>14. CASE Clock
  BY <1>14 DEF Clock, SupervisorInv, Runs
<1>15. CASE UNCHANGED vars
  BY <1>15 DEF vars, SupervisorInv, Runs
<1> QED BY <1>1, <1>2, <1>4, <1>5, <1>7, <1>8, <1>9, <1>10, <1>11, <1>12, <1>13, <1>14, <1>15
        DEF Next, Command, Start

\* A service that was installed with a supervisor runs or is about to be launched, in every
\* state: whatever kills, signals, stops and installs lie behind it (End, InstallAs).
THEOREM ServiceIsKeptAlways == Spec => []ServiceIsKept
<1>1. Init => SupervisorInv
  BY DEF Init, SupervisorInv
<1>2. TypeOK /\ SupervisorInv => ServiceIsKept
  BY HostAssumption DEF SupervisorInv, ServiceIsKept, Runs
<1> QED BY <1>1, <1>2, TypesAtFirst, TypesKept, SupervisorKept, PTL DEF Spec
=============================================================================
