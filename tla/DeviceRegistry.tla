--------------------------- MODULE DeviceRegistry ---------------------------
(***************************************************************************)
(* The authorized-devices file as the processes of one machine use it:     *)
(* daemon sessions (Authorize, Touch) and the `devices revoke` command     *)
(* (Revoke).  Every operation loads the file, edits its copy and writes    *)
(* the copy back with os.WriteFile, which truncates before it writes.      *)
(* Nothing locks the file, and a process may be killed at any point.       *)
(*                                                                         *)
(* A missing file reads as no devices.  A truncated or half overwritten    *)
(* file does not parse: an operation that loads it returns an error and    *)
(* changes nothing, so those operations are not steps here.                *)
(***************************************************************************)
EXTENDS Naturals

CONSTANTS
  Devices,   \* device ids
  Keys,      \* public keys
  None,      \* no key: the device is not in the file
  Torn,      \* the file does not parse
  Sessions,  \* daemon sessions, each with one handler goroutine
  Tools,     \* `codexnomad devices revoke` processes
  Crashes    \* whether processes are killed in this instance

Procs == Sessions \cup Tools
Content == [Devices -> Keys \cup {None}]

ASSUME RegistryAssumption ==
  /\ None \notin Keys
  /\ Torn \notin Content
  /\ Crashes \in BOOLEAN

VARIABLES
  file,     \* the content of authorized-devices.json, or Torn
  pc,       \* "idle", "loaded" or "truncated", for each process
  op,       \* the operation of the process and its device
  loaded,   \* the content the process read
  edited,   \* the content it is going to write
  overlapped, \* history: processes whose operation overlaps another one
  final     \* history: devices revoked while no stale copy was in flight, not paired since

vars == <<file, pc, op, loaded, edited, overlapped, final>>
copies == <<op, loaded, edited, overlapped>>

Empty == [d \in Devices |-> None]
NoOp == [kind |-> "none", dev |-> None]

InFlight(p) == pc[p] # "idle"

-----------------------------------------------------------------------------
\* The operations in progress together with the one that p begins.
Begin(p) ==
  LET others == {q \in Procs : InFlight(q)} IN
  overlapped' = IF others = {} THEN overlapped ELSE overlapped \cup others \cup {p}

\* Mutant of Load: a file that does not parse is taken for an empty one.
LoadTornAsEmpty(p, kind, d, new) ==
  /\ pc[p] = "idle"
  /\ Begin(p)
  /\ LET content == IF file = Torn THEN Empty ELSE file IN
     /\ loaded' = [loaded EXCEPT ![p] = content]
     /\ edited' = [edited EXCEPT ![p] = [content EXCEPT ![d] = new]]
  /\ pc' = [pc EXCEPT ![p] = "loaded"]
  /\ op' = [op EXCEPT ![p] = [kind |-> kind, dev |-> d]]
  /\ UNCHANGED file

\* load(), then the edit of the operation.
Load(p, kind, d, new) ==
  /\ pc[p] = "idle"
  /\ Begin(p)
  /\ file # Torn
  /\ pc' = [pc EXCEPT ![p] = "loaded"]
  /\ op' = [op EXCEPT ![p] = [kind |-> kind, dev |-> d]]
  /\ loaded' = [loaded EXCEPT ![p] = file]
  /\ edited' = [edited EXCEPT ![p] = [file EXCEPT ![d] = new]]
  /\ UNCHANGED file

Present(d) == file # Torn /\ file[d] # None

\* Authorize puts the key in place of the one stored for the device, or adds it.
Authorize(p, d, k) ==
  /\ Load(p, "authorize", d, k)
  /\ final' = final \ {d}

\* Touch rewrites the whole file to record the time of last use.
Touch(p, d) ==
  /\ Present(d)
  /\ Load(p, "touch", d, file[d])
  /\ UNCHANGED final

\* Mutant of Revoke: the loop keeps the device it should skip.
RevokeKeeps(p, d) ==
  /\ Present(d)
  /\ Load(p, "revoke", d, file[d])
  /\ UNCHANGED final

Revoke(p, d) ==
  /\ Present(d)
  /\ Load(p, "revoke", d, None)
  /\ UNCHANGED final

\* save(): os.WriteFile opens the file with O_TRUNC ...
Truncate(p) ==
  /\ pc[p] = "loaded"
  /\ pc' = [pc EXCEPT ![p] = "truncated"]
  /\ file' = Torn
  /\ UNCHANGED <<copies, final>>

\* ... and writes from its own offset 0.  When another process has written since
\* the truncation, its content is overwritten in place and, if it is longer,
\* leaves its tail behind.
Overwrites(p) ==
  IF file \in {Torn, edited[p]} THEN {edited[p]} ELSE {edited[p], Torn}

\* Another process holds a copy in which the device is still present, or is
\* pairing that device again.
StaleCopy(p, d) == \E q \in Procs \ {p} : InFlight(q) /\ edited[q][d] # None

Return(p) ==
  /\ pc' = [pc EXCEPT ![p] = "idle"]
  /\ op' = [op EXCEPT ![p] = NoOp]
  /\ overlapped' = overlapped \ {p}
  /\ loaded' = [loaded EXCEPT ![p] = Empty]
  /\ edited' = [edited EXCEPT ![p] = Empty]

Save(p) ==
  /\ pc[p] = "truncated"
  /\ file' \in Overwrites(p)
  /\ Return(p)
  /\ LET d == op[p].dev IN
     IF op[p].kind = "revoke"
       THEN final' = IF StaleCopy(p, d) THEN final ELSE final \cup {d}
       ELSE UNCHANGED final

\* The process is killed; what it had truncated stays truncated.
Crash(p) ==
  /\ Crashes
  /\ InFlight(p)
  /\ Return(p)
  /\ UNCHANGED <<file, final>>

-----------------------------------------------------------------------------
Init ==
  /\ file \in Content
  /\ pc = [p \in Procs |-> "idle"]
  /\ op = [p \in Procs |-> NoOp]
  /\ loaded = [p \in Procs |-> Empty]
  /\ edited = [p \in Procs |-> Empty]
  /\ overlapped = {} /\ final = {}

Next ==
  \/ \E p \in Sessions, d \in Devices :
       Touch(p, d) \/ \E k \in Keys : Authorize(p, d, k)
  \/ \E p \in Tools, d \in Devices : Revoke(p, d)
  \/ \E p \in Procs : Truncate(p) \/ Save(p) \/ Crash(p)

Spec == Init /\ [][Next]_vars

-----------------------------------------------------------------------------
(* Properties *)

EditsOne(p) == \A d \in Devices \ {op[p].dev} : edited[p][d] = loaded[p][d]

\* The file and every copy hold one key or none for each device, and what a
\* process is going to write differs from what it read only in the entry of the
\* device its operation is about (Authorize, Touch, Revoke).
TypeOK ==
  /\ file \in Content \cup {Torn}
  /\ pc \in [Procs -> {"idle", "loaded", "truncated"}]
  /\ op \in [Procs -> [kind : {"none", "authorize", "touch", "revoke"},
                       dev : Devices \cup {None}]]
  /\ \A p \in Procs : InFlight(p) => op[p].dev \in Devices /\ EditsOne(p)
  /\ loaded \in [Procs -> Content]
  /\ edited \in [Procs -> Content]
  /\ overlapped \subseteq Procs
  /\ final \subseteq Devices

Absent(d) == file = Torn \/ file[d] = None

\* A revocation that returned while no other process held a copy with the device
\* is final: whatever the sessions and tools do, crashes included, the device
\* stays out of the file until someone pairs it again (Revoke, save).
RevokeIsFinal == \A d \in final : Absent(d)

-----------------------------------------------------------------------------
(* The atomic registry that DaemonSession uses *)

\* While its only writer is between truncation and write, the registry is still
\* what that writer loaded.
Settled ==
  IF \E p \in Procs : pc[p] = "truncated"
    THEN loaded[CHOOSE p \in Procs : pc[p] = "truncated"]
    ELSE file

Registry == INSTANCE AtomicRegistry WITH content <- Settled

\* Operations that do not overlap are atomic: each changes one device's entry or
\* nothing, and a registry that a killed process has left unreadable stays so
\* (devices.go: load refuses a file that does not parse).
IsAtomic ==
  /\ Registry!Init
  /\ [][overlapped = {} /\ overlapped' = {}
          => Registry!Next \/ UNCHANGED Settled]_vars
=============================================================================
