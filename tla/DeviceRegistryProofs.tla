------------------------ MODULE DeviceRegistryProofs ------------------------
(***************************************************************************)
(* Theorems about DeviceRegistry for every number of devices, keys,        *)
(* sessions and tools, with and without crashes.                           *)
(***************************************************************************)
EXTENDS DeviceRegistry, TLAPS

\* What makes RevokeIsFinal inductive: no copy in flight brings the device back.
NoCopyRestores ==
  \A d \in final : \A p \in Procs : InFlight(p) => edited[p][d] = None

-----------------------------------------------------------------------------
LEMMA EmptyIsContent == Empty \in Content
  BY DEF Empty, Content

LEMMA EditedIsContent ==
  ASSUME NEW c \in Content, NEW d \in Devices, NEW k \in Keys \cup {None}
  PROVE  [c EXCEPT ![d] = k] \in Content
  BY DEF Content

\* A process that has loaded the file holds contents and a device.
LEMMA LoadType ==
  ASSUME TypeOK, NEW p \in Procs, NEW kind \in {"authorize", "touch", "revoke"},
         NEW d \in Devices, NEW k \in Keys \cup {None}, Load(p, kind, d, k),
         final' \subseteq Devices
  PROVE  TypeOK'
<1>1. file \in Content
  BY DEF Load, TypeOK
<1>2. [file EXCEPT ![d] = k] \in Content
  BY <1>1, EditedIsContent
<1>3. /\ loaded' \in [Procs -> Content] /\ edited' \in [Procs -> Content]
      /\ file' \in Content \cup {Torn}
  BY <1>1, <1>2 DEF Load, TypeOK
<1>4. /\ pc' \in [Procs -> {"idle", "loaded", "truncated"}]
      /\ op' \in [Procs -> [kind : {"none", "authorize", "touch", "revoke"},
                           dev : Devices \cup {None}]]
  BY DEF Load, TypeOK
<1>5. ASSUME NEW q \in Procs, InFlight(q)' PROVE op'[q].dev \in Devices /\ EditsOne(q)'
  <2>1. CASE q = p
    <3>1. /\ op'[q] = [kind |-> kind, dev |-> d] /\ loaded'[q] = file
          /\ edited'[q] = [file EXCEPT ![d] = k]
      BY <2>1 DEF Load, TypeOK
    <3>. QED  BY <1>1, <3>1 DEF EditsOne, Content
  <2>2. CASE q # p
    <3>1. InFlight(q) /\ op'[q] = op[q] /\ loaded'[q] = loaded[q] /\ edited'[q] = edited[q]
      BY <1>5, <2>2 DEF Load, TypeOK, InFlight
    <3>. QED  BY <3>1 DEF TypeOK, EditsOne
  <2>. QED  BY <2>1, <2>2
<1>6. overlapped' \subseteq Procs
  BY DEF Load, Begin, TypeOK
<1>. QED  BY <1>3, <1>4, <1>5, <1>6 DEF TypeOK

\* A process that returns is idle and holds nothing.
LEMMA ReturnType ==
  ASSUME TypeOK, NEW p \in Procs, Return(p), file' \in Content \cup {Torn},
         final' \subseteq Devices
  PROVE  TypeOK'
<1>1. pc' \in [Procs -> {"idle", "loaded", "truncated"}]
  BY DEF Return, TypeOK
<1>2. op' \in [Procs -> [kind : {"none", "authorize", "touch", "revoke"},
                        dev : Devices \cup {None}]]
  BY DEF Return, TypeOK, NoOp
<1>3. loaded' \in [Procs -> Content] /\ edited' \in [Procs -> Content]
  BY EmptyIsContent DEF Return, TypeOK
<1>4. ASSUME NEW q \in Procs, InFlight(q)' PROVE op'[q].dev \in Devices /\ EditsOne(q)'
  <2>1. q # p /\ InFlight(q)
    BY <1>4 DEF Return, TypeOK, InFlight
  <2>2. op'[q] = op[q] /\ loaded'[q] = loaded[q] /\ edited'[q] = edited[q]
    BY <2>1 DEF Return, TypeOK
  <2>. QED  BY <2>1, <2>2 DEF TypeOK, EditsOne
<1>5. overlapped' \subseteq Procs
  BY DEF Return, TypeOK
<1>. QED  BY <1>1, <1>2, <1>3, <1>4, <1>5 DEF TypeOK

LEMMA TypeNext ==
  ASSUME TypeOK, [Next]_vars
  PROVE  TypeOK'
<1>1. ASSUME NEW p \in Sessions, NEW d \in Devices, Touch(p, d) PROVE TypeOK'
  <2>1. file[d] \in Keys \cup {None}
    BY <1>1 DEF Touch, Present, TypeOK, Content
  <2>. QED  BY <1>1, <2>1, LoadType DEF Touch, Procs, TypeOK
<1>2. ASSUME NEW p \in Sessions, NEW d \in Devices, NEW k \in Keys, Authorize(p, d, k)
      PROVE  TypeOK'
  BY <1>2, LoadType DEF Authorize, Procs, TypeOK
<1>3. ASSUME NEW p \in Tools, NEW d \in Devices, Revoke(p, d) PROVE TypeOK'
  BY <1>3, LoadType DEF Revoke, Procs, TypeOK
<1>4. ASSUME NEW p \in Procs, Truncate(p) PROVE TypeOK'
  <2>1. \A q \in Procs : InFlight(q)' => InFlight(q)
    BY <1>4 DEF Truncate, InFlight, TypeOK
  <2>2. UNCHANGED <<op, loaded, edited, overlapped, final>>
    BY <1>4 DEF Truncate, copies
  <2>3. pc' \in [Procs -> {"idle", "loaded", "truncated"}] /\ file' = Torn
    BY <1>4 DEF Truncate, TypeOK
  <2>. QED  BY <2>1, <2>2, <2>3 DEF TypeOK, EditsOne
<1>5. ASSUME NEW p \in Procs, Save(p) PROVE TypeOK'
  <2>1. file' \in Content \cup {Torn}
    BY <1>5 DEF Save, Overwrites, TypeOK
  <2>2. op[p].dev \in Devices
    BY <1>5 DEF Save, InFlight, TypeOK
  <2>3. final' \subseteq Devices
    BY <1>5, <2>2 DEF Save, TypeOK
  <2>4. Return(p)
    BY <1>5 DEF Save
  <2>. QED  BY <2>1, <2>3, <2>4, ReturnType
<1>6. ASSUME NEW p \in Procs, Crash(p) PROVE TypeOK'
  BY <1>6, ReturnType DEF Crash, TypeOK
<1>7. CASE UNCHANGED vars
  BY <1>7 DEF vars, TypeOK, InFlight, EditsOne
<1>. QED  BY <1>1, <1>2, <1>3, <1>4, <1>5, <1>6, <1>7 DEF Next

\* Whatever the number of processes, files and copies keep their types.
THEOREM RegistryTypeCorrect == Spec => []TypeOK
<1>1. Init => TypeOK
  BY EmptyIsContent DEF Init, TypeOK, NoOp, InFlight
<1>2. TypeOK /\ [Next]_vars => TypeOK'
  BY TypeNext
<1>. QED  BY <1>1, <1>2, PTL DEF Spec

-----------------------------------------------------------------------------
FinalInv == RevokeIsFinal /\ NoCopyRestores

\* Loading copies the absence of a finally revoked device, unless the operation
\* pairs that device and so ends the claim.
LEMMA LoadKeepsFinal ==
  ASSUME TypeOK, FinalInv, NEW p \in Procs, NEW kind, NEW d \in Devices, NEW k,
         Load(p, kind, d, k), final' \subseteq final, d \in final' => k = None
  PROVE  FinalInv'
<1>1. RevokeIsFinal'
  BY DEF FinalInv, RevokeIsFinal, Absent, Load
<1>2. ASSUME NEW e \in final', NEW q \in Procs, InFlight(q)' PROVE edited'[q][e] = None
  <2>1. CASE q = p
    <3>1. edited'[q] = [file EXCEPT ![d] = k] /\ file \in Content
      BY <2>1 DEF Load, TypeOK
    <3>2. file[e] = None /\ e \in Devices
      BY <1>2 DEF FinalInv, RevokeIsFinal, Absent, Load, TypeOK
    <3>. QED  BY <1>2, <3>1, <3>2 DEF Content
  <2>2. CASE q # p
    <3>1. edited'[q] = edited[q] /\ InFlight(q)
      BY <1>2, <2>2 DEF Load, TypeOK, InFlight
    <3>. QED  BY <1>2, <3>1 DEF FinalInv, NoCopyRestores
  <2>. QED  BY <2>1, <2>2
<1>. QED  BY <1>1, <1>2 DEF FinalInv, NoCopyRestores

LEMMA SaveKeepsFinal ==
  ASSUME TypeOK, FinalInv, NEW p \in Procs, Save(p), p \in Tools \cup Sessions,
         op[p].kind = "revoke" => edited[p][op[p].dev] = None
  PROVE  FinalInv'
<1>1. /\ InFlight(p) /\ edited[p] \in Content /\ op[p].dev \in Devices
      /\ file' \in {edited[p], Torn}
  BY DEF Save, InFlight, TypeOK, Overwrites
<1>2. ASSUME NEW e \in final' PROVE edited[p][e] = None
  BY <1>1, <1>2 DEF Save, FinalInv, NoCopyRestores
<1>3. RevokeIsFinal'
  BY <1>1, <1>2 DEF RevokeIsFinal, Absent
<1>4. ASSUME NEW e \in final', NEW q \in Procs, InFlight(q)' PROVE edited'[q][e] = None
  <2>1. q # p /\ InFlight(q) /\ edited'[q] = edited[q]
    BY <1>4 DEF Save, Return, InFlight, TypeOK
  <2>2. CASE e \in final
    BY <2>1, <2>2 DEF FinalInv, NoCopyRestores
  <2>3. CASE e \notin final
    BY <1>4, <2>1, <2>3 DEF Save, StaleCopy
  <2>. QED  BY <2>1, <2>2, <2>3
<1>. QED  BY <1>3, <1>4 DEF FinalInv, NoCopyRestores

\* A revocation in flight writes a content without the device.
RevokeEdits ==
  \A p \in Procs : InFlight(p) /\ op[p].kind = "revoke" => edited[p][op[p].dev] = None

LEMMA RevokeEditsNext ==
  ASSUME TypeOK, RevokeEdits, [Next]_vars
  PROVE  RevokeEdits'
<1> SUFFICES ASSUME NEW q \in Procs, InFlight(q)', op'[q].kind = "revoke"
             PROVE  edited'[q][op'[q].dev] = None
  BY DEF RevokeEdits
<1>1. ASSUME NEW p \in Procs, NEW kind, NEW d \in Devices, NEW k, Load(p, kind, d, k),
             kind = "revoke" => k = None
      PROVE  edited'[q][op'[q].dev] = None
  <2>1. CASE q = p
    <3>1. edited'[q] = [file EXCEPT ![d] = k] /\ file \in Content /\ op'[q].dev = d
          /\ kind = "revoke"
      BY <1>1, <2>1 DEF Load, TypeOK
    <3>. QED  BY <1>1, <3>1 DEF Content
  <2>2. CASE q # p
    BY <1>1, <2>2 DEF Load, RevokeEdits, InFlight, TypeOK
  <2>. QED  BY <2>1, <2>2
<1>2. ASSUME NEW p \in Sessions, NEW d \in Devices, Touch(p, d)
      PROVE  edited'[q][op'[q].dev] = None
  <2>1. Load(p, "touch", d, file[d]) /\ p \in Procs
    BY <1>2 DEF Touch, Procs
  <2>. QED  BY <1>1, <2>1
<1>3. ASSUME NEW p \in Sessions, NEW d \in Devices, NEW k \in Keys, Authorize(p, d, k)
      PROVE  edited'[q][op'[q].dev] = None
  <2>1. Load(p, "authorize", d, k) /\ p \in Procs
    BY <1>3 DEF Authorize, Procs
  <2>. QED  BY <1>1, <2>1
<1>4. ASSUME NEW p \in Tools, NEW d \in Devices, Revoke(p, d)
      PROVE  edited'[q][op'[q].dev] = None
  <2>1. Load(p, "revoke", d, None) /\ p \in Procs
    BY <1>4 DEF Revoke, Procs
  <2>. QED  BY <1>1, <2>1
<1>5. ASSUME NEW p \in Procs, Truncate(p) PROVE edited'[q][op'[q].dev] = None
  BY <1>5 DEF Truncate, copies, RevokeEdits, InFlight, TypeOK
<1>6. ASSUME NEW p \in Procs, Return(p) PROVE edited'[q][op'[q].dev] = None
  BY <1>6 DEF Return, RevokeEdits, InFlight, TypeOK
<1>7. CASE UNCHANGED vars
  BY <1>7 DEF vars, RevokeEdits, InFlight
<1>. QED  BY <1>2, <1>3, <1>4, <1>5, <1>6, <1>7 DEF Next, Save, Crash

LEMMA FinalNext ==
  ASSUME TypeOK, RevokeEdits, FinalInv, [Next]_vars
  PROVE  FinalInv'
<1>1. ASSUME NEW p \in Sessions, NEW d \in Devices, Touch(p, d) PROVE FinalInv'
  <2>1. Load(p, "touch", d, file[d]) /\ p \in Procs /\ final' = final
    BY <1>1 DEF Touch, Procs
  <2>2. d \notin final
    BY <1>1 DEF Touch, Present, FinalInv, RevokeIsFinal, Absent
  <2>. QED  BY <2>1, <2>2, LoadKeepsFinal
<1>2. ASSUME NEW p \in Sessions, NEW d \in Devices, NEW k \in Keys, Authorize(p, d, k)
      PROVE  FinalInv'
  <2>1. Load(p, "authorize", d, k) /\ p \in Procs /\ final' = final \ {d}
    BY <1>2 DEF Authorize, Procs
  <2>. QED  BY <2>1, LoadKeepsFinal
<1>3. ASSUME NEW p \in Tools, NEW d \in Devices, Revoke(p, d) PROVE FinalInv'
  <2>1. Load(p, "revoke", d, None) /\ p \in Procs /\ final' = final
    BY <1>3 DEF Revoke, Procs
  <2>. QED  BY <2>1, LoadKeepsFinal
<1>4. ASSUME NEW p \in Procs, Truncate(p) PROVE FinalInv'
  <2>1. RevokeIsFinal'
    BY <1>4 DEF Truncate, FinalInv, RevokeIsFinal, Absent
  <2>2. NoCopyRestores'
    BY <1>4 DEF Truncate, copies, FinalInv, NoCopyRestores, InFlight, TypeOK
  <2>. QED  BY <2>1, <2>2 DEF FinalInv
<1>5. ASSUME NEW p \in Procs, Save(p) PROVE FinalInv'
  <2>1. op[p].kind = "revoke" => edited[p][op[p].dev] = None
    BY <1>5 DEF Save, RevokeEdits, InFlight
  <2>. QED  BY <1>5, <2>1, SaveKeepsFinal DEF Procs
<1>6. ASSUME NEW p \in Procs, Crash(p) PROVE FinalInv'
  <2>1. RevokeIsFinal'
    BY <1>6 DEF Crash, FinalInv, RevokeIsFinal, Absent
  <2>2. NoCopyRestores'
    BY <1>6 DEF Crash, Return, FinalInv, NoCopyRestores, InFlight, TypeOK
  <2>. QED  BY <2>1, <2>2 DEF FinalInv
<1>7. CASE UNCHANGED vars
  BY <1>7 DEF vars, FinalInv, RevokeIsFinal, Absent, NoCopyRestores, InFlight
<1>. QED  BY <1>1, <1>2, <1>3, <1>4, <1>5, <1>6, <1>7 DEF Next

\* A revocation that no stale copy overlapped is final for any number of sessions
\* and tools that read, edit, truncate, write and are killed in any order.
THEOREM RevokeIsFinalAlways == Spec => []RevokeIsFinal
<1>1. Init => RevokeEdits /\ FinalInv
  BY DEF Init, RevokeEdits, FinalInv, RevokeIsFinal, NoCopyRestores, InFlight
<1>2. TypeOK /\ RevokeEdits /\ FinalInv /\ [Next]_vars => (RevokeEdits /\ FinalInv)'
  BY RevokeEditsNext, FinalNext
<1>3. FinalInv => RevokeIsFinal
  BY DEF FinalInv
<1>. QED  BY <1>1, <1>2, <1>3, RegistryTypeCorrect, PTL DEF Spec

-----------------------------------------------------------------------------
(* The refinement *)

\* Processes in flight together have overlapped, and nobody else has.
OverlapsAreKnown ==
  /\ \A p \in overlapped : InFlight(p)
  /\ \A p, q \in Procs : InFlight(p) /\ InFlight(q) /\ p # q => p \in overlapped

\* The file is as a process that is alone left it.
AloneSeesFile ==
  \A p \in Procs \ overlapped :
    /\ pc[p] = "loaded" => file = loaded[p]
    /\ pc[p] = "truncated" => file = Torn

\* What an operation in flight will write is what it read with its edit.
EditIsOperation ==
  \A p \in Procs : InFlight(p) =>
    LET d == op[p].dev IN
    \/ edited[p] = loaded[p]
    \/ \E k \in Keys : edited[p] = [loaded[p] EXCEPT ![d] = k]
    \/ /\ loaded[p][d] # None
       /\ edited[p] = [loaded[p] EXCEPT ![d] = None]

AtomicInv == OverlapsAreKnown /\ AloneSeesFile /\ EditIsOperation

LEMMA LoadKeepsAtomic ==
  ASSUME TypeOK, AtomicInv, NEW p \in Procs, NEW kind, NEW d \in Devices, NEW k,
         Load(p, kind, d, k),
         k \in Keys \cup {file[d]} \/ (file[d] # None /\ k = None)
  PROVE  AtomicInv'
<1>. DEFINE others == {q \in Procs : InFlight(q)}
<1>1. /\ pc' = [pc EXCEPT ![p] = "loaded"] /\ file' = file /\ file \in Content
      /\ \A q \in Procs : InFlight(q)' <=> q = p \/ InFlight(q)
  BY DEF Load, InFlight, TypeOK
<1>2. OverlapsAreKnown'
  <2>1. CASE others = {}
    <3>1. overlapped' = overlapped /\ overlapped = {}
      BY <2>1 DEF Load, Begin, AtomicInv, OverlapsAreKnown, TypeOK
    <3>. QED  BY <1>1, <2>1, <3>1 DEF OverlapsAreKnown
  <2>2. CASE others # {}
    <3>1. overlapped' = overlapped \cup others \cup {p}
      BY <2>2 DEF Load, Begin
    <3>2. \A q \in overlapped' : q \in Procs /\ (q = p \/ InFlight(q))
      BY <3>1 DEF AtomicInv, OverlapsAreKnown, TypeOK
    <3>. QED  BY <1>1, <3>1, <3>2 DEF OverlapsAreKnown
  <2>. QED  BY <2>1, <2>2
<1>3. AloneSeesFile'
  <2> SUFFICES ASSUME NEW q \in Procs, q \notin overlapped'
               PROVE  /\ pc'[q] = "loaded" => file' = loaded'[q]
                      /\ pc'[q] = "truncated" => file' = Torn
    BY DEF AloneSeesFile
  <2>1. CASE q = p
    BY <1>1, <2>1 DEF Load, TypeOK
  <2>2. CASE q # p
    <3>1. ~InFlight(q)
      BY <1>2, <1>1, <2>2 DEF OverlapsAreKnown
    <3>. QED  BY <1>1, <2>2, <3>1 DEF InFlight, TypeOK
  <2>. QED  BY <2>1, <2>2
<1>4. EditIsOperation'
  <2> SUFFICES ASSUME NEW q \in Procs, InFlight(q)'
               PROVE  \/ edited'[q] = loaded'[q]
                      \/ \E k2 \in Keys : edited'[q] = [loaded'[q] EXCEPT ![op'[q].dev] = k2]
                      \/ /\ loaded'[q][op'[q].dev] # None
                         /\ edited'[q] = [loaded'[q] EXCEPT ![op'[q].dev] = None]
    BY DEF EditIsOperation
  <2>1. CASE q = p
    <3>1. loaded'[q] = file /\ edited'[q] = [file EXCEPT ![d] = k] /\ op'[q].dev = d
      BY <2>1 DEF Load, TypeOK
    <3>2. file[d] = k => [file EXCEPT ![d] = k] = file
      BY <1>1 DEF Content
    <3>. QED  BY <3>1, <3>2
  <2>2. CASE q # p
    BY <1>1, <2>2 DEF Load, TypeOK, AtomicInv, EditIsOperation
  <2>. QED  BY <2>1, <2>2
<1>. QED  BY <1>2, <1>3, <1>4 DEF AtomicInv

LEMMA ReturnKeepsAtomic ==
  ASSUME TypeOK, AtomicInv, NEW p \in Procs, InFlight(p), Return(p)
  PROVE  AtomicInv'
<1>1. \A q \in Procs : InFlight(q)' <=> q # p /\ InFlight(q)
  BY DEF Return, InFlight, TypeOK
<1>2. overlapped' = overlapped \ {p}
  BY DEF Return
<1>3. OverlapsAreKnown'
  BY <1>1, <1>2 DEF AtomicInv, OverlapsAreKnown, TypeOK
<1>4. \A q \in Procs \ overlapped' : ~InFlight(q)'
  BY <1>1, <1>2 DEF AtomicInv, OverlapsAreKnown
<1>5. AloneSeesFile'
  BY <1>4 DEF AloneSeesFile, InFlight
<1>6. EditIsOperation'
  BY <1>1 DEF Return, TypeOK, AtomicInv, EditIsOperation
<1>. QED  BY <1>3, <1>5, <1>6 DEF AtomicInv

LEMMA TruncateKeepsAtomic ==
  ASSUME TypeOK, AtomicInv, NEW p \in Procs, Truncate(p)
  PROVE  AtomicInv'
<1>1. /\ pc' = [pc EXCEPT ![p] = "truncated"] /\ file' = Torn
      /\ UNCHANGED <<op, loaded, edited, overlapped>>
      /\ \A q \in Procs : InFlight(q)' <=> InFlight(q)
  BY DEF Truncate, copies, InFlight, TypeOK
<1>2. OverlapsAreKnown'
  BY <1>1 DEF AtomicInv, OverlapsAreKnown, TypeOK
<1>3. \A q \in Procs \ overlapped : q # p => ~InFlight(q)
  BY DEF AtomicInv, OverlapsAreKnown, Truncate, InFlight
<1>4. AloneSeesFile'
  BY <1>1, <1>3 DEF AloneSeesFile, InFlight, TypeOK
<1>5. EditIsOperation'
  BY <1>1 DEF AtomicInv, EditIsOperation
<1>. QED  BY <1>2, <1>4, <1>5 DEF AtomicInv

LEMMA AtomicNext ==
  ASSUME TypeOK, AtomicInv, [Next]_vars
  PROVE  AtomicInv'
<1>1. ASSUME NEW p \in Sessions, NEW d \in Devices, Touch(p, d) PROVE AtomicInv'
  <2>1. Load(p, "touch", d, file[d]) /\ p \in Procs
    BY <1>1 DEF Touch, Procs
  <2>. QED  BY <2>1, LoadKeepsAtomic
<1>2. ASSUME NEW p \in Sessions, NEW d \in Devices, NEW k \in Keys, Authorize(p, d, k)
      PROVE  AtomicInv'
  <2>1. Load(p, "authorize", d, k) /\ p \in Procs
    BY <1>2 DEF Authorize, Procs
  <2>. QED  BY <1>2, <2>1, LoadKeepsAtomic
<1>3. ASSUME NEW p \in Tools, NEW d \in Devices, Revoke(p, d) PROVE AtomicInv'
  BY <1>3, LoadKeepsAtomic DEF Revoke, Present, Procs
<1>4. ASSUME NEW p \in Procs, Truncate(p) PROVE AtomicInv'
  BY <1>4, TruncateKeepsAtomic
<1>5. ASSUME NEW p \in Procs, Save(p) \/ Crash(p) PROVE AtomicInv'
  BY <1>5, ReturnKeepsAtomic DEF Save, Crash, InFlight
<1>6. CASE UNCHANGED vars
  BY <1>6 DEF vars, AtomicInv, OverlapsAreKnown, AloneSeesFile, EditIsOperation, InFlight
<1>. QED  BY <1>1, <1>2, <1>3, <1>4, <1>5, <1>6 DEF Next

\* A step of operations that do not overlap is a step of the atomic registry or
\* leaves it as it was.
LEMMA StepIsAtomic ==
  ASSUME TypeOK, AtomicInv, Next, overlapped = {}, overlapped' = {}
  PROVE  Registry!Next \/ UNCHANGED Settled
<1>1. \A p, q \in Procs : InFlight(p) /\ InFlight(q) => p = q
  BY DEF AtomicInv, OverlapsAreKnown
<1>2. ASSUME NEW p \in Procs, NEW kind, NEW d, NEW k, Load(p, kind, d, k)
      PROVE  UNCHANGED Settled
  <2>1. {q \in Procs : InFlight(q)} = {}
    BY <1>2 DEF Load, Begin
  <2>2. \A q \in Procs : pc[q] # "truncated" /\ pc'[q] # "truncated"
    BY <1>2, <2>1 DEF Load, InFlight, TypeOK
  <2>. QED  BY <1>2, <2>2 DEF Settled, Load
<1>3. ASSUME NEW p \in Procs, Truncate(p) PROVE UNCHANGED Settled
  <2>1. \A q \in Procs : pc[q] # "truncated"
    BY <1>1, <1>3 DEF Truncate, InFlight
  <2>2. file = loaded[p] /\ loaded' = loaded
    BY <1>3 DEF Truncate, copies, AtomicInv, AloneSeesFile
  <2>3. \A q \in Procs : pc'[q] = "truncated" <=> q = p
    BY <1>3, <2>1 DEF Truncate, TypeOK
  <2>4. Settled' = loaded'[p]
    BY <2>3 DEF Settled
  <2>. QED  BY <2>1, <2>2, <2>4 DEF Settled
<1>4. ASSUME NEW p \in Procs, InFlight(p), Return(p)
      PROVE  /\ Settled' = file'
             /\ pc[p] = "truncated" => Settled = loaded[p] /\ file = Torn
             /\ pc[p] # "truncated" => Settled = file
  <2>1. \A q \in Procs : q # p => ~InFlight(q)
    BY <1>1, <1>4
  <2>2. \A q \in Procs : pc'[q] # "truncated"
    BY <1>4, <2>1 DEF Return, InFlight, TypeOK
  <2>3. \A q \in Procs : pc[q] = "truncated" => q = p
    BY <2>1 DEF InFlight
  <2>4. Settled' = file'
    BY <2>2 DEF Settled
  <2>5. ASSUME pc[p] = "truncated" PROVE Settled = loaded[p] /\ file = Torn
    BY <2>3, <2>5 DEF Settled, AtomicInv, AloneSeesFile
  <2>6. ASSUME pc[p] # "truncated" PROVE Settled = file
    BY <2>3, <2>6 DEF Settled
  <2>. QED  BY <2>4, <2>5, <2>6
<1>5. ASSUME NEW p \in Procs, Save(p) PROVE Registry!Next \/ UNCHANGED Settled
  <2>1. /\ InFlight(p) /\ Return(p) /\ pc[p] = "truncated"
        /\ loaded[p] \in Content /\ op[p].dev \in Devices
    BY <1>5 DEF Save, InFlight, TypeOK
  <2>2. Settled = loaded[p] /\ Settled' = edited[p] /\ Settled # Torn
    BY <1>4, <1>5, <2>1, RegistryAssumption DEF Save, Overwrites
  <2>3. \/ edited[p] = loaded[p]
        \/ \E k \in Keys : edited[p] = [loaded[p] EXCEPT ![op[p].dev] = k]
        \/ /\ loaded[p][op[p].dev] # None
           /\ edited[p] = [loaded[p] EXCEPT ![op[p].dev] = None]
    BY <2>1 DEF AtomicInv, EditIsOperation
  <2>. QED  BY <2>1, <2>2, <2>3 DEF Registry!Next, Registry!Authorize, Registry!Revoke
<1>6. ASSUME NEW p \in Procs, Crash(p) PROVE Registry!Next \/ UNCHANGED Settled
  BY <1>4, <1>6 DEF Crash, Registry!Next, Registry!Break
<1>. QED
  BY <1>2, <1>3, <1>5, <1>6 DEF Next, Touch, Authorize, Revoke, Procs

\* Operations that do not overlap implement the atomic registry, for any number
\* of sessions, tools and devices and with processes killed at any point.
THEOREM IsAtomicAlways == Spec => IsAtomic
<1>1. Init => Registry!Init
  BY DEF Init, Settled, Registry!Init, Content
<1>2. Init => AtomicInv
  BY DEF Init, AtomicInv, OverlapsAreKnown, AloneSeesFile, EditIsOperation, InFlight
<1>3. TypeOK /\ AtomicInv /\ [Next]_vars => AtomicInv'
  BY AtomicNext
<1>4. TypeOK /\ AtomicInv /\ [Next]_vars
        => [overlapped = {} /\ overlapped' = {} => Registry!Next \/ UNCHANGED Settled]_vars
  BY StepIsAtomic
<1>. QED  BY <1>1, <1>2, <1>3, <1>4, RegistryTypeCorrect, PTL DEF Spec, IsAtomic
=============================================================================
