------------------------- MODULE LiveSessionProofs -------------------------
(***************************************************************************)
(* Theorems about what the live session screen of the phone shows: the     *)
(* cards of PermissionFlow, the files and the editor of WorkspaceFiles,    *)
(* the git card and the list of changes of WorkspaceTools and the log of   *)
(* PreviewProxy, for any prompts, files, requests and capacities; and the  *)
(* lemmas about Filtering that they rest on.                               *)
(***************************************************************************)
EXTENDS WorkspaceFiles, PermissionFlow, PreviewProxy, WorkspaceTools,
        WellFoundedInduction, SequenceTheorems, TLAPS

-----------------------------------------------------------------------------
(* Filtering *)

\* Every set of natural numbers has a least element.
LEMMA LeastNat ==
  ASSUME NEW S \in SUBSET Nat, S # {}
  PROVE  \E n \in S : \A m \in S : n <= m
<1>1. IsWellFoundedOn(OpToRel(<, Nat), Nat)
  BY NatLessThanWellFounded
<1>2. PICK n \in S : \A m \in S : ~ (<<m, n>> \in OpToRel(<, Nat))
  BY <1>1, WFMin
<1>3. OpToRel(<, Nat) = {p \in Nat \X Nat : p[1] < p[2]}
  BY DEF OpToRel
<1>4. \A m \in S : <<m, n>> \notin {p \in Nat \X Nat : p[1] < p[2]}
  BY <1>2, <1>3
<1>5. ASSUME NEW m \in S, ~(n <= m) PROVE FALSE
  <2>1. m \in Nat /\ n \in Nat /\ m < n
    BY <1>5
  <2>2. <<m, n>> \in Nat \X Nat /\ <<m, n>>[1] < <<m, n>>[2]
    BY <2>1
  <2>. QED  BY <1>4, <2>2
<1>. QED  BY <1>5

\* Induction, for a set of natural numbers.
LEMMA Induction ==
  ASSUME NEW P \in SUBSET Nat, 0 \in P, \A n \in P : n + 1 \in P
  PROVE  P = Nat
<1> SUFFICES ASSUME Nat \ P # {} PROVE FALSE
  OBVIOUS
<1>1. PICK n \in Nat \ P : \A m \in Nat \ P : n <= m
  BY LeastNat
<1>2. n # 0 /\ n - 1 \in Nat /\ n - 1 \in P
  BY <1>1
<1>. QED  BY <1>1, <1>2

\* What is kept of the first 0, 1, ..., n elements.
Builds(s, D, f, n) ==
  f[0] = << >> /\ \A i \in 1 .. n : f[i] = KeepUnless(D, f[i - 1], s[i])

KeptBy(s, D, f) ==
  [n \in 0 .. Len(s) |->
     IF n = 0 THEN << >> ELSE KeepUnless(D, f[n - 1], s[n])]

LEMMA StepType ==
  ASSUME NEW S, NEW s \in Seq(S), NEW D, NEW w \in Seq(S), NEW n \in 1 .. Len(s)
  PROVE  KeepUnless(D, w, s[n]) \in Seq(S)
<1>1. s[n] \in S
  BY ElementOfSeq
<1>. QED  BY <1>1 DEF KeepUnless

LEMMA KeptExists ==
  ASSUME NEW S, NEW s \in Seq(S), NEW D
  PROVE  \E f : f = KeptBy(s, D, f)
<1>. DEFINE Q == {n \in Nat : n <= Len(s) => \E f \in [0 .. n -> Seq(S)] : Builds(s, D, f, n)}
<1>1. Len(s) \in Nat
  OBVIOUS
<1>2. 0 \in Q
  <2>1. [i \in 0 .. 0 |-> << >>] \in [0 .. 0 -> Seq(S)]
    OBVIOUS
  <2>2. Builds(s, D, [i \in 0 .. 0 |-> << >>], 0)
    BY DEF Builds
  <2>. QED  BY <2>1, <2>2
<1>3. ASSUME NEW n \in Q PROVE n + 1 \in Q
  <2>1. n \in Nat /\ n + 1 \in Nat /\ (n <= Len(s) => \E f \in [0 .. n -> Seq(S)] : Builds(s, D, f, n))
    OBVIOUS
  <2>2. ASSUME n + 1 <= Len(s)
        PROVE  \E g \in [0 .. n + 1 -> Seq(S)] : Builds(s, D, g, n + 1)
    <3>1. PICK f \in [0 .. n -> Seq(S)] : Builds(s, D, f, n)
      BY <1>1, <2>1, <2>2
    <3>. DEFINE g == [i \in 0 .. n + 1 |-> IF i = n + 1 THEN KeepUnless(D, f[n], s[n + 1]) ELSE f[i]]
    <3>2. f[n] \in Seq(S) /\ n + 1 \in 1 .. Len(s)
      BY <1>1, <2>1, <2>2
    <3>3. KeepUnless(D, f[n], s[n + 1]) \in Seq(S)
      BY <3>2, StepType
    <3>4. g \in [0 .. n + 1 -> Seq(S)]
      BY <3>3, <2>1
    <3>5. g[0] = << >>
      BY <3>1, <2>1 DEF Builds
    <3>6. ASSUME NEW i \in 1 .. n + 1 PROVE g[i] = KeepUnless(D, g[i - 1], s[i])
      <4>1. i - 1 \in 0 .. n /\ g[i - 1] = f[i - 1]
        BY <2>1
      <4>2. CASE i = n + 1
        BY <2>1, <4>1, <4>2
      <4>3. CASE i # n + 1
        <5>1. i \in 1 .. n /\ g[i] = f[i]
          BY <2>1, <4>3
        <5>. QED  BY <3>1, <4>1, <5>1 DEF Builds
      <4>. QED  BY <4>2, <4>3
    <3>7. Builds(s, D, g, n + 1)
      BY <3>5, <3>6 DEF Builds
    <3>. QED  BY <3>4, <3>7
  <2>. QED  BY <2>1, <2>2
<1>4. Len(s) \in Q
  <2>1. Q \in SUBSET Nat
    OBVIOUS
  <2>. HIDE DEF Q
  <2>. QED  BY <1>1, <1>2, <1>3, <2>1, Induction
<1>5. PICK f \in [0 .. Len(s) -> Seq(S)] : Builds(s, D, f, Len(s))
  BY <1>1, <1>4
<1>6. ASSUME NEW n \in 0 .. Len(s) PROVE f[n] = KeptBy(s, D, f)[n]
  <2>1. CASE n = 0
    BY <1>5, <2>1 DEF KeptBy, Builds
  <2>2. CASE n # 0
    <3>1. n \in 1 .. Len(s)
      BY <1>1, <2>2
    <3>. QED  BY <1>5, <2>2, <3>1 DEF KeptBy, Builds
  <2>. QED  BY <2>1, <2>2
<1>7. DOMAIN KeptBy(s, D, f) = 0 .. Len(s) /\ DOMAIN f = 0 .. Len(s)
  BY DEF KeptBy
<1>8. f = KeptBy(s, D, f)
  BY <1>6, <1>7 DEF KeptBy
<1>. QED  BY <1>8

LEMMA ExcludingIsBuilt ==
  ASSUME NEW S, NEW s \in Seq(S), NEW D
  PROVE  \E f : Builds(s, D, f, Len(s)) /\ Excluding(s, D) = f[Len(s)]
<1>. DEFINE f == CHOOSE f : f = KeptBy(s, D, f)
<1>1. f = KeptBy(s, D, f)
  BY KeptExists
<1>2. Excluding(s, D) = f[Len(s)]
  BY DEF Excluding, KeptBy
<1>3. Builds(s, D, f, Len(s))
  <2>. HIDE DEF f
  <2>1. Len(s) \in Nat
    OBVIOUS
  <2>2. \A n \in 0 .. Len(s) : f[n] = KeptBy(s, D, f)[n]
    BY <1>1
  <2>3. f[0] = << >>
    BY <2>1, <2>2 DEF KeptBy
  <2>4. ASSUME NEW n \in 1 .. Len(s) PROVE f[n] = KeepUnless(D, f[n - 1], s[n])
    <3>1. n \in 0 .. Len(s) /\ n # 0
      BY <2>1
    <3>. QED  BY <2>2, <3>1 DEF KeptBy
  <2>. QED  BY <2>3, <2>4 DEF Builds
<1>. QED  BY <1>2, <1>3

\* w has the elements of the first n that are not in D, each once and in order:
\* at says from which position it comes.
Embeds(s, D, w, n) ==
  /\ Len(w) <= n
  /\ \E at \in [1 .. Len(w) -> 1 .. n] :
       /\ \A i, j \in 1 .. Len(w) : i < j => at[i] < at[j]
       /\ \A i \in 1 .. Len(w) : w[i] = s[at[i]] /\ w[i] \notin D
       /\ \A k \in 1 .. n : s[k] \notin D => \E i \in 1 .. Len(w) : at[i] = k

LEMMA StepEmbeds ==
  ASSUME NEW S, NEW s \in Seq(S), NEW D, NEW w \in Seq(S), NEW n \in 0 .. Len(s) - 1,
         Embeds(s, D, w, n)
  PROVE  Embeds(s, D, KeepUnless(D, w, s[n + 1]), n + 1)
<1>1. Len(s) \in Nat /\ n \in Nat /\ n + 1 \in 1 .. Len(s) /\ Len(w) \in Nat
  OBVIOUS
<1>2. PICK at \in [1 .. Len(w) -> 1 .. n] :
        /\ \A i, j \in 1 .. Len(w) : i < j => at[i] < at[j]
        /\ \A i \in 1 .. Len(w) : w[i] = s[at[i]] /\ w[i] \notin D
        /\ \A k \in 1 .. n : s[k] \notin D => \E i \in 1 .. Len(w) : at[i] = k
  BY DEF Embeds
<1>3. Len(w) <= n
  BY DEF Embeds
<1>4. CASE s[n + 1] \in D
  <2>1. at \in [1 .. Len(w) -> 1 .. n + 1]
    BY <1>1
  <2>2. \A k \in 1 .. n + 1 : s[k] \notin D => k \in 1 .. n
    BY <1>1, <1>4
  <2>3. KeepUnless(D, w, s[n + 1]) = w
    BY <1>4 DEF KeepUnless
  <2>4. /\ \A i, j \in 1 .. Len(w) : i < j => at[i] < at[j]
        /\ \A i \in 1 .. Len(w) : w[i] = s[at[i]] /\ w[i] \notin D
        /\ \A k \in 1 .. n + 1 : s[k] \notin D => \E i \in 1 .. Len(w) : at[i] = k
    BY <1>2, <2>2
  <2>5. Embeds(s, D, w, n + 1)
    <3>1. Len(w) <= n + 1
      BY <1>1, <1>3
    <3>. QED  BY <2>1, <2>4, <3>1 DEF Embeds
  <2>. QED  BY <2>3, <2>5
<1>5. CASE s[n + 1] \notin D
  <2>. DEFINE v == Append(w, s[n + 1])
              to == [i \in 1 .. Len(w) + 1 |-> IF i = Len(w) + 1 THEN n + 1 ELSE at[i]]
  <2>1. s[n + 1] \in S
    BY <1>1, ElementOfSeq
  <2>2. /\ Len(v) = Len(w) + 1
        /\ \A i \in 1 .. Len(w) : v[i] = w[i]
        /\ v[Len(w) + 1] = s[n + 1]
    BY <2>1
  <2>. HIDE DEF v
  <2>3. to \in [1 .. Len(w) + 1 -> 1 .. n + 1]
    BY <1>1
  <2>4. ASSUME NEW i \in 1 .. Len(w) PROVE at[i] \in 1 .. n /\ to[i] = at[i]
    <3>1. Len(w) \in Nat /\ i \in 1 .. Len(w) + 1 /\ i # Len(w) + 1
      BY <1>1
    <3>2. at[i] \in 1 .. n
      BY <1>1
    <3>. QED  BY <3>1, <3>2
  <2>5. to[Len(w) + 1] = n + 1
    BY <1>1
  <2>. HIDE DEF to
  <2>6. ASSUME NEW i \in 1 .. Len(w) + 1, NEW j \in 1 .. Len(w) + 1, i < j
        PROVE  to[i] < to[j]
    <3>1. i \in 1 .. Len(w) /\ at[i] \in Int /\ at[i] < n + 1 /\ to[i] = at[i]
      BY <1>1, <2>4, <2>6
    <3>2. CASE j = Len(w) + 1
      BY <2>5, <3>1, <3>2
    <3>3. CASE j # Len(w) + 1
      <4>1. j \in 1 .. Len(w)
        BY <1>1, <3>3
      <4>. QED  BY <1>2, <2>4, <2>6, <3>1, <4>1
    <3>. QED  BY <3>2, <3>3
  <2>7. ASSUME NEW i \in 1 .. Len(w) + 1 PROVE v[i] = s[to[i]] /\ v[i] \notin D
    <3>1. CASE i = Len(w) + 1
      BY <1>5, <2>2, <2>5, <3>1
    <3>2. CASE i # Len(w) + 1
      <4>1. i \in 1 .. Len(w)
        BY <1>1, <3>2
      <4>. QED  BY <1>2, <2>2, <2>4, <4>1
    <3>. QED  BY <3>1, <3>2
  <2>8. ASSUME NEW k \in 1 .. n + 1, s[k] \notin D
        PROVE  \E i \in 1 .. Len(w) + 1 : to[i] = k
    <3>1. CASE k = n + 1
      BY <1>1, <2>5, <3>1
    <3>2. CASE k # n + 1
      <4>1. k \in 1 .. n
        BY <1>1, <3>2
      <4>2. PICK i \in 1 .. Len(w) : at[i] = k
        BY <1>2, <2>8, <4>1
      <4>. QED  BY <1>1, <2>4, <4>2
    <3>. QED  BY <3>1, <3>2
  <2>9. KeepUnless(D, w, s[n + 1]) = v
    BY <1>5 DEF KeepUnless, v
  <2>10. /\ to \in [1 .. Len(v) -> 1 .. n + 1]
         /\ \A i, j \in 1 .. Len(v) : i < j => to[i] < to[j]
         /\ \A i \in 1 .. Len(v) : v[i] = s[to[i]] /\ v[i] \notin D
         /\ \A k \in 1 .. n + 1 : s[k] \notin D => \E i \in 1 .. Len(v) : to[i] = k
    BY <2>2, <2>3, <2>6, <2>7, <2>8
  <2>11. Embeds(s, D, v, n + 1)
    <3>1. Len(v) <= n + 1
      BY <1>1, <1>3, <2>2
    <3>. QED  BY <2>10, <3>1 DEF Embeds
  <2>. QED  BY <2>9, <2>11
<1>. QED  BY <1>4, <1>5

\* Excluding keeps exactly the elements that are not in D, in their order.
LEMMA ExcludingEmbeds ==
  ASSUME NEW S, NEW s \in Seq(S), NEW D
  PROVE  /\ Excluding(s, D) \in Seq(S)
         /\ Embeds(s, D, Excluding(s, D), Len(s))
<1>1. Len(s) \in Nat
  OBVIOUS
<1>2. PICK f : Builds(s, D, f, Len(s)) /\ Excluding(s, D) = f[Len(s)]
  BY ExcludingIsBuilt
<1>. DEFINE Q == {n \in Nat : n <= Len(s) => f[n] \in Seq(S) /\ Embeds(s, D, f[n], n)}
<1>3. 0 \in Q
  <2>1. f[0] = << >>
    BY <1>2 DEF Builds
  <2>2. << >> \in Seq(S) /\ 1 .. 0 = {} /\ Len(<< >>) = 0
    OBVIOUS
  <2>3. [i \in 1 .. 0 |-> i] \in [1 .. 0 -> 1 .. 0]
    BY <2>2
  <2>4. Embeds(s, D, << >>, 0)
    <3>1. Len(<< >>) <= 0
      BY <2>2
    <3>. QED  BY <2>2, <2>3, <3>1 DEF Embeds
  <2>. QED  BY <2>1, <2>2, <2>4
<1>4. ASSUME NEW n \in Q PROVE n + 1 \in Q
  <2>1. n \in Nat /\ (n <= Len(s) => f[n] \in Seq(S) /\ Embeds(s, D, f[n], n))
    OBVIOUS
  <2>2. ASSUME n + 1 <= Len(s) PROVE f[n + 1] \in Seq(S) /\ Embeds(s, D, f[n + 1], n + 1)
    <3>1. n \in 0 .. Len(s) - 1 /\ n + 1 \in 1 .. Len(s) /\ n <= Len(s) /\ (n + 1) - 1 = n
      BY <1>1, <2>1, <2>2
    <3>2. f[n + 1] = KeepUnless(D, f[n], s[n + 1])
      BY <1>2, <3>1 DEF Builds
    <3>. QED  BY <2>1, <3>1, <3>2, StepType, StepEmbeds
  <2>. QED  BY <2>1, <2>2
<1>5. Q \in SUBSET Nat
  OBVIOUS
<1>6. Len(s) \in Q
  <2>. HIDE DEF Q
  <2>. QED  BY <1>1, <1>3, <1>4, <1>5, Induction
<1>. QED  BY <1>1, <1>2, <1>6

-----------------------------------------------------------------------------
(* The types of PermissionFlow *)

\* The cards that commands and resolutions name; only an interrupt names none.
Named == IF interrupted THEN seen \cup {NoPrompt} ELSE seen

CardReplies == [kind : {"resolved", "error"}, id : Named]

CardEvents == [kind : {"requested"}, id : seen] \cup CardReplies

CardCommands ==
  [action : {"decide"}, id : seen]
    \cup (IF interrupted THEN [action : {"interrupt"}, id : {NoPrompt}] ELSE {})

InboxItems == seen \cup {Notice, Diff}

\* Nothing names a card whose prompt has not been on the screen.
FlowTypeOK ==
  /\ seen \subseteq Prompts
  /\ fresh \in BOOLEAN /\ interrupted \in BOOLEAN /\ recent \in BOOLEAN
  /\ screen \in seen \cup {NoPrompt}
  /\ input \in Seq(Named \cup {Keyboard})
  /\ window \in Seq(seen \cup {Plain}) /\ Len(window) <= WindowLines
  /\ lastID \in seen \cup {NoPrompt}
  /\ events \in Seq(CardEvents) /\ commands \in Seq(CardCommands)
  /\ handling \in {<< >>} \cup {<<c>> : c \in CardCommands}
  /\ resolving \in {<< >>} \cup {<<r>> : r \in CardReplies}
  /\ inbox \in Seq(InboxItems) /\ Len(inbox) <= InboxCap
  /\ lines \in 0 .. MaxLines /\ decisions \in 0 .. MaxDecisions
  /\ items \in 0 .. MaxItems /\ newer \in 0 .. InboxCap /\ failed \subseteq Named

LEMMA ExcludingElements ==
  ASSUME NEW S, NEW s \in Seq(S), NEW D
  PROVE  LET w == Excluding(s, D) IN
         /\ w \in Seq(S) /\ Len(w) \in Nat /\ Len(w) <= Len(s) /\ DOMAIN w = 1 .. Len(w)
         /\ \A i \in DOMAIN w : w[i] \in S /\ w[i] \notin D
         /\ \A k \in DOMAIN s : s[k] \notin D => \E i \in DOMAIN w : w[i] = s[k]
<1>. DEFINE w == Excluding(s, D)
<1>1. w \in Seq(S) /\ Embeds(s, D, w, Len(s))
  BY ExcludingEmbeds
<1>. HIDE DEF w
<1>2. Len(w) \in Nat /\ DOMAIN w = 1 .. Len(w) /\ DOMAIN s = 1 .. Len(s) /\ Len(w) <= Len(s)
  BY <1>1, LenProperties DEF Embeds
<1>3. PICK at \in [1 .. Len(w) -> 1 .. Len(s)] :
        /\ \A i \in 1 .. Len(w) : w[i] = s[at[i]] /\ w[i] \notin D
        /\ \A k \in 1 .. Len(s) : s[k] \notin D => \E i \in 1 .. Len(w) : at[i] = k
  BY <1>1 DEF Embeds
<1>4. \A i \in DOMAIN w : w[i] \in S /\ w[i] \notin D
  BY <1>1, <1>2, <1>3, ElementOfSeq
<1>5. ASSUME NEW k \in DOMAIN s, s[k] \notin D PROVE \E i \in DOMAIN w : w[i] = s[k]
  <2>1. PICK i \in 1 .. Len(w) : at[i] = k
    BY <1>2, <1>3, <1>5
  <2>. QED  BY <1>2, <1>3, <2>1
<1>. QED  BY <1>1, <1>2, <1>4, <1>5 DEF w

\* An element that is kept comes no later than before.
LEMMA ExcludingMovesUp ==
  ASSUME NEW S, NEW s \in Seq(S), NEW D, NEW k \in DOMAIN s, s[k] \notin D
  PROVE  \E i \in DOMAIN Excluding(s, D) : i <= k /\ Excluding(s, D)[i] = s[k]
<1>. DEFINE w == Excluding(s, D)
<1>1. w \in Seq(S) /\ Embeds(s, D, w, Len(s))
  BY ExcludingEmbeds
<1>. HIDE DEF w
<1>2. Len(w) \in Nat /\ DOMAIN w = 1 .. Len(w) /\ DOMAIN s = 1 .. Len(s) /\ Len(s) \in Nat
  BY <1>1, LenProperties
<1>3. PICK at \in [1 .. Len(w) -> 1 .. Len(s)] :
        /\ \A i, j \in 1 .. Len(w) : i < j => at[i] < at[j]
        /\ \A i \in 1 .. Len(w) : w[i] = s[at[i]] /\ w[i] \notin D
        /\ \A n \in 1 .. Len(s) : s[n] \notin D => \E i \in 1 .. Len(w) : at[i] = n
  BY <1>1 DEF Embeds
<1>4. PICK i \in 1 .. Len(w) : at[i] = k
  BY <1>2, <1>3
<1>. DEFINE Q == {n \in Nat : n \in 1 .. Len(w) => n <= at[n]}
<1>5. 0 \in Q /\ Q \in SUBSET Nat
  OBVIOUS
<1>6. ASSUME NEW n \in Q PROVE n + 1 \in Q
  <2>1. SUFFICES ASSUME n + 1 \in 1 .. Len(w) PROVE n + 1 <= at[n + 1]
    OBVIOUS
  <2>2. at[n + 1] \in Nat \ {0}
    <3>1. at[n + 1] \in 1 .. Len(s)
      BY <1>3, <2>1
    <3>. QED  BY <3>1
  <2>3. CASE n = 0
    BY <2>2, <2>3
  <2>4. CASE n # 0
    <3>1. n \in 1 .. Len(w) /\ n < n + 1
      BY <1>2, <2>1, <2>4
    <3>2. n <= at[n]
      BY <3>1
    <3>3. at[n] < at[n + 1]
      BY <1>3, <2>1, <3>1
    <3>4. at[n] \in Nat
      BY <1>2, <1>3, <3>1
    <3>. QED  BY <2>2, <3>2, <3>3, <3>4
  <2>. QED  BY <2>3, <2>4
<1>7. i \in Q
  <2>. HIDE DEF Q
  <2>1. i \in Nat
    OBVIOUS
  <2>. QED  BY <1>5, <1>6, <2>1, Induction
<1>8. i <= k
  BY <1>4, <1>7
<1>9. w[i] = s[k]
  BY <1>3, <1>4
<1>. QED  BY <1>2, <1>8, <1>9 DEF w

\* The detector finds the newest line that is not plain output.
LEMMA DetailType ==
  ASSUME NEW S, S \subseteq Prompts, NEW w \in Seq(S \cup {Plain}), LooksLikePermission(w)
  PROVE  Detail(w) \in S
<1>. DEFINE v == Excluding(w, {Plain})
<1>1. /\ v \in Seq(S \cup {Plain}) /\ Len(v) \in Nat /\ DOMAIN v = 1 .. Len(v)
      /\ \A i \in DOMAIN v : v[i] \in S \cup {Plain} /\ v[i] \notin {Plain}
      /\ \A k \in DOMAIN w : w[k] \notin {Plain} => \E i \in DOMAIN v : v[i] = w[k]
  BY ExcludingElements
<1>. HIDE DEF v
<1>2. PICK k \in DOMAIN w : w[k] \in Prompts
  BY DEF LooksLikePermission
<1>3. PICK i \in DOMAIN v : v[i] = w[k]
  BY <1>1, <1>2, PermissionAssumption
<1>4. Len(v) \in DOMAIN v
  BY <1>1, <1>3
<1>. QED  BY <1>1, <1>4 DEF Detail, Last, v

LEMMA DetailOfLast ==
  ASSUME NEW S, NEW w \in Seq(S), w # << >>, w[Len(w)] # Plain
  PROVE  Detail(w) = w[Len(w)]
<1>. DEFINE v == Excluding(w, {Plain})
<1>1. v \in Seq(S) /\ Embeds(w, {Plain}, v, Len(w))
  BY ExcludingEmbeds
<1>. HIDE DEF v
<1>2. Len(v) \in Nat /\ Len(w) \in Nat /\ Len(w) \in 1 .. Len(w)
  BY <1>1, LenProperties, EmptySeq
<1>3. PICK at \in [1 .. Len(v) -> 1 .. Len(w)] :
        /\ \A i, j \in 1 .. Len(v) : i < j => at[i] < at[j]
        /\ \A i \in 1 .. Len(v) : v[i] = w[at[i]] /\ v[i] \notin {Plain}
        /\ \A k \in 1 .. Len(w) : w[k] \notin {Plain} => \E i \in 1 .. Len(v) : at[i] = k
  BY <1>1 DEF Embeds
<1>4. PICK i \in 1 .. Len(v) : at[i] = Len(w)
  BY <1>2, <1>3
<1>5. i = Len(v)
  <2>. SUFFICES ASSUME i # Len(v) PROVE FALSE
    OBVIOUS
  <2>1. Len(v) \in 1 .. Len(v) /\ i < Len(v)
    BY <1>2, <1>4
  <2>2. Len(w) < at[Len(v)] /\ at[Len(v)] \in 1 .. Len(w)
    BY <1>3, <1>4, <2>1
  <2>. QED  BY <1>2, <2>2
<1>6. v[Len(v)] = w[Len(w)]
  BY <1>3, <1>4, <1>5
<1>. QED  BY <1>6 DEF Detail, Last, v

LEMMA NewestType ==
  ASSUME NEW S, NEW w \in Seq(S), w # << >>
  PROVE  /\ Newest(w) \in Seq(S) /\ Newest(w) # << >> /\ Len(Newest(w)) <= WindowLines
         /\ Newest(w)[Len(Newest(w))] = w[Len(w)]
<1>1. WindowLines \in Nat \ {0} /\ Len(w) \in Nat /\ Len(w) # 0
  BY PermissionAssumption, LenProperties, EmptySeq
<1>2. CASE Len(w) > WindowLines
  <2>. DEFINE m == Len(w) - WindowLines + 1
  <2>1. m \in Int /\ m <= Len(w) /\ \A i \in m .. Len(w) : w[i] \in S
    BY <1>1, <1>2, ElementOfSeq
  <2>. HIDE DEF m
  <2>2. /\ SubSeq(w, m, Len(w)) \in Seq(S) /\ Len(SubSeq(w, m, Len(w))) = Len(w) - m + 1
        /\ \A i \in 1 .. Len(w) - m + 1 : SubSeq(w, m, Len(w))[i] = w[m + i - 1]
    BY <1>1, <2>1, SubSeqProperties
  <2>3. Newest(w) = SubSeq(w, m, Len(w)) /\ Len(w) - m + 1 = WindowLines
    BY <1>1, <1>2 DEF Newest, m
  <2>. HIDE DEF Newest
  <2>4. Newest(w) \in Seq(S) /\ Len(Newest(w)) = WindowLines
    BY <2>2, <2>3
  <2>5. Newest(w)[WindowLines] = w[m + WindowLines - 1] /\ m + WindowLines - 1 = Len(w)
    BY <1>1, <2>1, <2>2, <2>3 DEF m
  <2>6. Newest(w) # << >> /\ Len(Newest(w)) <= WindowLines
    BY <1>1, <2>4
  <2>. QED  BY <2>4, <2>5, <2>6
<1>3. CASE ~(Len(w) > WindowLines)
  BY <1>1, <1>3 DEF Newest
<1>. QED  BY <1>2, <1>3

LEMMA PushInboxType ==
  ASSUME NEW S, inbox \in Seq(S), NEW id \in S
  PROVE  /\ PushInbox(id) \in Seq(S) /\ Len(PushInbox(id)) <= InboxCap
         /\ 1 \in DOMAIN PushInbox(id) /\ PushInbox(id)[1] = id
         /\ \A x \in S \ {id} : \A k \in DOMAIN inbox :
              inbox[k] = x /\ k < InboxCap
                => \E i \in DOMAIN PushInbox(id) : i <= k + 1 /\ PushInbox(id)[i] = x
<1>. DEFINE D == {id} \ {Notice}
            w == Excluding(inbox, D)
            cards == <<id>> \o w
<1>1. w \in Seq(S) /\ Len(w) \in Nat /\ DOMAIN w = 1 .. Len(w) /\ DOMAIN inbox = 1 .. Len(inbox)
  BY ExcludingElements, LenProperties
<1>2. ASSUME NEW x \in S \ {id}, NEW k \in DOMAIN inbox, inbox[k] = x
      PROVE  \E i \in DOMAIN w : i <= k /\ w[i] = x
  BY <1>2, ExcludingMovesUp
<1>. HIDE DEF w
<1>3. <<id>> \in Seq(S) /\ Len(<<id>>) = 1 /\ <<id>>[1] = id
  OBVIOUS
<1>4. /\ cards \in Seq(S) /\ Len(cards) = Len(w) + 1 /\ cards[1] = id
      /\ DOMAIN cards = 1 .. Len(w) + 1
      /\ \A i \in 1 .. Len(w) : cards[i + 1] = w[i]
  <2>1. cards \in Seq(S) /\ Len(cards) = Len(w) + 1 /\ cards[1] = id
    BY <1>1, <1>3, ConcatProperties
  <2>2. DOMAIN cards = 1 .. Len(w) + 1
    BY <2>1, LenProperties
  <2>3. ASSUME NEW i \in 1 .. Len(w) PROVE cards[i + 1] = w[i]
    <3>1. i + 1 \in 1 .. Len(<<id>>) + Len(w) /\ i + 1 > Len(<<id>>) /\ i + 1 - Len(<<id>>) = i
      BY <1>1, <1>3
    <3>. QED  BY <1>1, <1>3, <3>1, ConcatProperties
  <2>. QED  BY <2>1, <2>2, <2>3
<1>5. PushInbox(id) = IF Len(cards) > InboxCap THEN SubSeq(cards, 1, InboxCap) ELSE cards
  BY DEF PushInbox, w
<1>. HIDE DEF cards
<1>6. InboxCap \in Nat \ {0}
  BY PermissionAssumption
<1>7. /\ PushInbox(id) \in Seq(S) /\ Len(PushInbox(id)) <= InboxCap
      /\ 1 \in DOMAIN PushInbox(id)
      /\ DOMAIN PushInbox(id) \subseteq DOMAIN cards
      /\ \A i \in DOMAIN cards : i <= InboxCap => i \in DOMAIN PushInbox(id)
      /\ \A i \in DOMAIN PushInbox(id) : PushInbox(id)[i] = cards[i]
  <2>1. CASE Len(cards) > InboxCap
    <3>1. \A i \in 1 .. InboxCap : cards[i] \in S
      BY <1>1, <1>4, <1>6, <2>1, ElementOfSeq
    <3>2. /\ SubSeq(cards, 1, InboxCap) \in Seq(S)
          /\ Len(SubSeq(cards, 1, InboxCap)) = InboxCap - 1 + 1
          /\ \A i \in 1 .. InboxCap - 1 + 1 : SubSeq(cards, 1, InboxCap)[i] = cards[1 + i - 1]
      BY <1>6, <3>1, SubSeqProperties
    <3>3. /\ PushInbox(id) \in Seq(S) /\ Len(PushInbox(id)) = InboxCap
          /\ \A i \in 1 .. InboxCap : PushInbox(id)[i] = cards[i]
      BY <1>5, <1>6, <2>1, <3>2
    <3>4. DOMAIN PushInbox(id) = 1 .. InboxCap
      BY <3>3, LenProperties
    <3>. QED  BY <1>1, <1>4, <1>6, <2>1, <3>3, <3>4
  <2>2. CASE ~(Len(cards) > InboxCap)
    BY <1>1, <1>4, <1>5, <1>6, <2>2
  <2>. QED  BY <2>1, <2>2
<1>8. ASSUME NEW x \in S \ {id}, NEW k \in DOMAIN inbox, inbox[k] = x, k < InboxCap
      PROVE  \E i \in DOMAIN PushInbox(id) : i <= k + 1 /\ PushInbox(id)[i] = x
  <2>1. PICK i \in 1 .. Len(w) : i <= k /\ w[i] = x
    BY <1>1, <1>2, <1>8
  <2>2. i + 1 \in DOMAIN cards /\ i + 1 <= InboxCap /\ i + 1 <= k + 1 /\ cards[i + 1] = x
    BY <1>1, <1>4, <1>6, <1>8, <2>1
  <2>. QED  BY <1>7, <2>2
<1>. QED  BY <1>4, <1>7, <1>8

LEMMA PushType ==
  ASSUME FlowTypeOK, NEW id \in InboxItems, Push(id)
  PROVE  /\ inbox' \in Seq(InboxItems) /\ Len(inbox') <= InboxCap
         /\ newer' \in 0 .. InboxCap
<1>1. inbox' \in Seq(InboxItems) /\ Len(inbox') <= InboxCap
  BY PushInboxType DEF Push, FlowTypeOK
<1>2. newer' \in 0 .. InboxCap
  BY PermissionAssumption DEF Push, FlowTypeOK
<1>. QED  BY <1>1, <1>2

LEMMA RemoveType ==
  ASSUME FlowTypeOK, NEW id, RemoveResolved(id)
  PROVE  inbox' \in Seq(InboxItems) /\ Len(inbox') <= InboxCap
<1>1. inbox \in Seq(InboxItems) /\ Len(inbox) <= InboxCap /\ Len(inbox) \in Nat /\ InboxCap \in Nat
  BY LenProperties, PermissionAssumption DEF FlowTypeOK
<1>2. CASE inbox' = Excluding(inbox, {id})
  <2>1. Excluding(inbox, {id}) \in Seq(InboxItems) /\ Len(Excluding(inbox, {id})) \in Nat
        /\ Len(Excluding(inbox, {id})) <= Len(inbox)
    BY <1>1, ExcludingElements
  <2>. QED  BY <1>1, <1>2, <2>1
<1>3. ASSUME NEW i \in DOMAIN inbox, inbox' = RemoveAt(inbox, i)
      PROVE  inbox' \in Seq(InboxItems) /\ Len(inbox') <= InboxCap
  <2>1. i \in 1 .. Len(inbox) /\ \A j \in 1 .. Len(inbox) : inbox[j] \in InboxItems
    BY <1>1, ElementOfSeq
  <2>. DEFINE u == SubSeq(inbox, 1, i - 1)
              v == SubSeq(inbox, i + 1, Len(inbox))
  <2>2. /\ u \in Seq(InboxItems) /\ Len(u) = i - 1
        /\ v \in Seq(InboxItems) /\ Len(v) = Len(inbox) - i
    BY <1>1, <2>1, SubSeqProperties
  <2>3. inbox' = u \o v
    BY <1>3 DEF RemoveAt
  <2>. HIDE DEF u, v
  <2>4. inbox' \in Seq(InboxItems) /\ Len(inbox') = Len(u) + Len(v)
    BY <2>2, <2>3, ConcatProperties
  <2>. QED  BY <1>1, <2>1, <2>2, <2>4
<1>. QED  BY <1>1, <1>2, <1>3 DEF RemoveResolved

\* What was named before can be named afterwards.
LEMMA NamesGrow ==
  ASSUME seen \subseteq seen', interrupted => interrupted'
  PROVE  /\ Named \subseteq Named' /\ CardReplies \subseteq CardReplies'
         /\ CardEvents \subseteq CardEvents' /\ CardCommands \subseteq CardCommands'
         /\ InboxItems \subseteq InboxItems'
BY DEF Named, CardReplies, CardEvents, CardCommands, InboxItems

LEMMA SeqOfMore ==
  ASSUME NEW S, NEW T, S \subseteq T, NEW s \in Seq(S)
  PROVE  s \in Seq(T)
<1>1. s \in [1 .. Len(s) -> T] /\ Len(s) \in Nat
  BY ElementOfSeq, LenProperties
<1>. QED  BY <1>1

\* A line of the agent names at most a card of its own.
LEMMA ShowsType ==
  ASSUME FlowTypeOK, NEW line \in Prompts \cup {Plain}, Shows(line),
         fresh' \in BOOLEAN, screen' \in seen' \cup {NoPrompt}, newer' \in 0 .. InboxCap
  PROVE  FlowTypeOK'
<1>. DEFINE w == Append(window, line)
<1>1. seen' = seen \cup ({line} \cap Prompts) /\ seen' \subseteq Prompts /\ interrupted' = interrupted
  BY DEF Shows, FlowTypeOK
<1>2. /\ Named \subseteq Named' /\ CardEvents \subseteq CardEvents'
      /\ CardCommands \subseteq CardCommands' /\ CardReplies \subseteq CardReplies'
      /\ InboxItems \subseteq InboxItems'
  BY <1>1, NamesGrow
<1>3. w \in Seq(seen' \cup {Plain}) /\ w # << >>
  <2>1. window \in Seq(seen' \cup {Plain})
    BY <1>1, SeqOfMore DEF FlowTypeOK
  <2>2. line \in seen' \cup {Plain}
    BY <1>1
  <2>. QED  BY <2>1, <2>2, AppendProperties
<1>4. window' = Newest(w) /\ window' \in Seq(seen' \cup {Plain}) /\ Len(window') <= WindowLines
  BY <1>3, NewestType DEF Shows, Observe
<1>. HIDE DEF w
<1>5. events \in Seq(CardEvents')
  BY <1>2, SeqOfMore DEF FlowTypeOK
<1>6. lastID' \in seen' \cup {NoPrompt} /\ recent' \in BOOLEAN /\ events' \in Seq(CardEvents')
  <2>1. CASE UNCHANGED <<lastID, recent, events>>
    BY <1>1, <1>5, <2>1 DEF FlowTypeOK
  <2>2. CASE /\ LooksLikePermission(window') /\ lastID' = Detail(window') /\ recent' = TRUE
             /\ events' = Append(events, Requested(Detail(window')))
    <3>1. Detail(window') \in seen'
      BY <1>1, <1>4, <2>2, DetailType
    <3>2. Requested(Detail(window')) \in CardEvents'
      BY <3>1 DEF Requested, CardEvents
    <3>. QED  BY <1>5, <2>2, <3>1, <3>2, AppendProperties
  <2>. QED  BY <1>4, <2>1, <2>2 DEF Shows, Observe, w
<1>7. /\ input' \in Seq(Named' \cup {Keyboard}') /\ commands' \in Seq(CardCommands')
      /\ inbox' \in Seq(InboxItems') /\ Len(inbox') <= InboxCap
  <2>1. UNCHANGED <<input, commands, inbox>>
    BY DEF Shows
  <2>2. Named \cup {Keyboard} \subseteq Named' \cup {Keyboard}'
    BY <1>2 DEF Keyboard
  <2>3. input \in Seq(Named' \cup {Keyboard}') /\ commands \in Seq(CardCommands')
        /\ inbox \in Seq(InboxItems')
    BY <1>1, <1>2, <2>2, SeqOfMore DEF FlowTypeOK
  <2>. QED  BY <2>1, <2>3 DEF FlowTypeOK
<1>8. /\ resolving' \in {<< >>} \cup {<<r>> : r \in CardReplies'}
      /\ handling' \in {<< >>} \cup {<<c>> : c \in CardCommands'}
      /\ failed' \subseteq Named'
  <2>1. UNCHANGED <<resolving, handling, failed>>
    BY DEF Shows, daemon
  <2>. QED  BY <1>2, <2>1 DEF FlowTypeOK
<1>9. lines' \in 0 .. MaxLines /\ decisions' \in 0 .. MaxDecisions /\ items' \in 0 .. MaxItems
  BY PermissionAssumption DEF Shows, FlowTypeOK
<1>. QED  BY <1>1, <1>4, <1>6, <1>7, <1>8, <1>9 DEF FlowTypeOK

LEMMA ReceiveType ==
  ASSUME FlowTypeOK, ReceiveEvent
  PROVE  /\ events' \in Seq(CardEvents) /\ inbox' \in Seq(InboxItems) /\ Len(inbox') <= InboxCap
         /\ newer' \in 0 .. InboxCap /\ failed' \subseteq Named
<1>. DEFINE e == Head(events)
<1>1. events \in Seq(CardEvents) /\ events # << >> /\ events' = Tail(events)
  BY DEF FlowTypeOK, ReceiveEvent
<1>2. e \in CardEvents /\ events' \in Seq(CardEvents)
  BY <1>1, HeadTailProperties
<1>3. \/ e.kind = "requested" /\ Push(e.id) /\ UNCHANGED failed
      \/ e.kind = "resolved" /\ RemoveResolved(e.id) /\ UNCHANGED <<newer, failed>>
      \/ e.kind = "error" /\ Push(Notice) /\ failed' = failed \cup {e.id}
  BY DEF ReceiveEvent
<1>. HIDE DEF e
<1>4. CASE e.kind = "requested" /\ Push(e.id) /\ UNCHANGED failed
  <2>1. e.id \in InboxItems
    BY <1>2, <1>4 DEF CardEvents, CardReplies, InboxItems
  <2>. QED  BY <1>2, <1>4, <2>1, PushType DEF FlowTypeOK
<1>5. CASE e.kind = "resolved" /\ RemoveResolved(e.id) /\ UNCHANGED <<newer, failed>>
  BY <1>2, <1>5, RemoveType DEF FlowTypeOK
<1>6. CASE e.kind = "error" /\ Push(Notice) /\ failed' = failed \cup {e.id}
  <2>1. e.id \in Named /\ Notice \in InboxItems
    BY <1>2, <1>6 DEF CardEvents, CardReplies, InboxItems
  <2>. QED  BY <1>2, <1>6, <2>1, PushType DEF FlowTypeOK
<1>. QED  BY <1>3, <1>4, <1>5, <1>6

\* The command the handler has taken is carried out or fails.
LEMMA HandleType ==
  ASSUME FlowTypeOK, WriteDecision \/ Interrupt \/ (\E a : CommandFails(a))
  PROVE  FlowTypeOK'
<1>1. PICK c \in CardCommands : handling = <<c>>
  BY DEF WriteDecision, Interrupt, CommandFails, Handles, FlowTypeOK
<1>2. c.id \in Named
  BY <1>1 DEF CardCommands, Named
<1>3. /\ UNCHANGED <<detector, events, commands, attention, decisions, printing>>
      /\ input' = Append(input, c.id) \/ input' = input
      /\ screen' = screen \/ screen' = NoPrompt
      /\ handling' = << >>
      /\ resolving' = <<Resolved(c.id)>> \/ resolving' = <<Failed(c.id)>>
  BY <1>1 DEF WriteDecision, Interrupt, CommandFails, terminal
<1>4. Resolved(c.id) \in CardReplies /\ Failed(c.id) \in CardReplies
  BY <1>2 DEF CardReplies, Resolved, Failed
<1>5. input' \in Seq(Named \cup {Keyboard})
  <2>1. input \in Seq(Named \cup {Keyboard}) /\ c.id \in Named \cup {Keyboard}
    BY <1>2 DEF FlowTypeOK
  <2>. QED  BY <1>3, <2>1, AppendProperties
<1>6. /\ Named' = Named /\ CardEvents' = CardEvents /\ CardCommands' = CardCommands
      /\ CardReplies' = CardReplies /\ InboxItems' = InboxItems
  BY <1>3 DEF Named, CardEvents, CardCommands, CardReplies, InboxItems, printing
<1>7. resolving' \in {<< >>} \cup {<<r>> : r \in CardReplies}
  BY <1>3, <1>4
<1>8. /\ screen' \in seen \cup {NoPrompt} /\ Keyboard' = Keyboard
      /\ handling' \in {<< >>} \cup {<<r>> : r \in CardCommands}
  BY <1>3 DEF FlowTypeOK, Keyboard
<1>. QED  BY <1>3, <1>5, <1>6, <1>7, <1>8 DEF FlowTypeOK, detector, attention, printing

LEMMA FlowTypeNext ==
  ASSUME FlowTypeOK, [FlowNext]_flow
  PROVE  FlowTypeOK'
<1>. USE DEF terminal, detector, printing, daemon, attention
<1>1. ASSUME UNCHANGED <<seen, interrupted>>
      PROVE  /\ Named' = Named /\ CardEvents' = CardEvents /\ CardCommands' = CardCommands
             /\ CardReplies' = CardReplies /\ InboxItems' = InboxItems /\ Keyboard' = Keyboard
  BY <1>1 DEF Named, CardEvents, CardCommands, CardReplies, InboxItems, Keyboard
<1>2. CASE TwoMinutesPass
  BY <1>1, <1>2 DEF TwoMinutesPass, FlowTypeOK
<1>3. CASE TakeAnswer \/ ReadOther
  <2>1. input' \in Seq(Named \cup {Keyboard})
    BY <1>3, HeadTailProperties DEF TakeAnswer, ReadOther, FlowTypeOK
  <2>2. UNCHANGED <<seen, interrupted>>
    BY <1>3 DEF TakeAnswer, ReadOther
  <2>3. screen' \in seen \cup {NoPrompt}
    BY <1>3 DEF TakeAnswer, ReadOther, FlowTypeOK
  <2>. QED  BY <1>1, <1>3, <2>1, <2>2, <2>3 DEF TakeAnswer, ReadOther, FlowTypeOK
<1>4. CASE Type
  <2>1. input' \in Seq(Named \cup {Keyboard})
    BY <1>4, AppendProperties DEF Type, FlowTypeOK
  <2>2. decisions' \in 0 .. MaxDecisions
    BY <1>4, PermissionAssumption DEF Type, FlowTypeOK
  <2>. QED  BY <1>1, <1>4, <2>1, <2>2 DEF Type, FlowTypeOK
<1>5. ASSUME NEW p \in Prompts, Ask(p) PROVE FlowTypeOK'
  <2>1. 0 \in 0 .. InboxCap
    BY PermissionAssumption
  <2>2. fresh' \in BOOLEAN
    BY <1>5, Zenon DEF Ask
  <2>3. screen' \in seen' \cup {NoPrompt}
    BY <1>5 DEF Ask, Shows
  <2>. QED  BY <1>5, <2>1, <2>2, <2>3, ShowsType DEF Ask
<1>6. ASSUME NEW l \in Prompts \cup {Plain}, Output(l) PROVE FlowTypeOK'
  BY <1>6, ShowsType DEF Output, Shows, FlowTypeOK
<1>7. CASE WriteDecision \/ Interrupt \/ (\E a : CommandFails(a))
  BY <1>7, HandleType
<1>8. CASE SendResolved
  <2>1. PICK r \in CardReplies : resolving = <<r>>
    BY <1>8 DEF SendResolved, FlowTypeOK
  <2>2. Head(resolving) \in CardEvents
    BY <2>1 DEF CardEvents
  <2>3. events' \in Seq(CardEvents)
    BY <1>8, <2>2, AppendProperties DEF SendResolved, FlowTypeOK
  <2>. QED  BY <1>1, <1>8, <2>3 DEF SendResolved, FlowTypeOK
<1>9. CASE ReceiveEvent
  <2>1. /\ UNCHANGED <<terminal, detector, commands, daemon, items, decisions, printing>>
        /\ events' \in Seq(CardEvents) /\ inbox' \in Seq(InboxItems) /\ Len(inbox') <= InboxCap
        /\ newer' \in 0 .. InboxCap /\ failed' \subseteq Named
    BY <1>9, ReceiveType DEF ReceiveEvent
  <2>. QED  BY <1>1, <2>1 DEF FlowTypeOK
<1>10. ASSUME NEW p \in Prompts, TapCard(p) PROVE FlowTypeOK'
  <2>1. p \in seen
    BY <1>10, ElementOfSeq, LenProperties, PermissionAssumption DEF TapCard, InboxItems, FlowTypeOK
  <2>2. [action |-> "decide", id |-> p] \in CardCommands
    BY <2>1 DEF CardCommands
  <2>3. commands' \in Seq(CardCommands)
    BY <1>10, <2>2, AppendProperties DEF TapCard, SendCommand, FlowTypeOK
  <2>4. decisions' \in 0 .. MaxDecisions
    BY <1>10, PermissionAssumption DEF TapCard, SendCommand, FlowTypeOK
  <2>. QED  BY <1>1, <1>10, <2>3, <2>4 DEF TapCard, SendCommand, FlowTypeOK
<1>11. CASE TapInterrupt
  <2>1. /\ interrupted' = TRUE /\ decisions' = decisions + 1 /\ decisions < MaxDecisions
        /\ commands' = Append(commands, [action |-> "interrupt", id |-> NoPrompt])
        /\ failed' \subseteq failed
        /\ UNCHANGED <<terminal, detector, events, daemon, inbox, items, newer, lines, seen, fresh>>
    BY <1>11 DEF TapInterrupt, SendCommand
  <2>2. /\ Named \subseteq Named' /\ CardEvents \subseteq CardEvents'
        /\ CardCommands \subseteq CardCommands' /\ CardReplies \subseteq CardReplies'
        /\ InboxItems' = InboxItems
    BY <2>1, NamesGrow DEF InboxItems
  <2>3. [action |-> "interrupt", id |-> NoPrompt] \in CardCommands'
    BY <2>1 DEF CardCommands
  <2>4. commands \in Seq(CardCommands') /\ events \in Seq(CardEvents')
    BY <2>2, SeqOfMore DEF FlowTypeOK
  <2>5. input \in Seq(Named' \cup {Keyboard}')
    <3>1. Named \cup {Keyboard} \subseteq Named' \cup {Keyboard}'
      BY <2>2 DEF Keyboard
    <3>. QED  BY <3>1, SeqOfMore DEF FlowTypeOK
  <2>6. commands' \in Seq(CardCommands')
    BY <2>1, <2>3, <2>4, AppendProperties
  <2>7. decisions' \in 0 .. MaxDecisions
    BY <2>1, PermissionAssumption DEF FlowTypeOK
  <2>8. /\ handling \in {<< >>} \cup {<<c>> : c \in CardCommands'}
        /\ resolving \in {<< >>} \cup {<<r>> : r \in CardReplies'}
        /\ failed' \subseteq Named'
    BY <2>1, <2>2 DEF FlowTypeOK
  <2>. QED  BY <2>1, <2>2, <2>4, <2>5, <2>6, <2>7, <2>8 DEF FlowTypeOK
<1>12. CASE UNCHANGED flow
  BY <1>1, <1>12 DEF flow, FlowTypeOK
<1>13. CASE TakeCommand
  <2>1. commands \in Seq(CardCommands) /\ commands # << >> /\ commands' = Tail(commands)
    BY <1>13 DEF TakeCommand, FlowTypeOK
  <2>2. Head(commands) \in CardCommands /\ commands' \in Seq(CardCommands)
    BY <2>1, HeadTailProperties
  <2>. QED  BY <1>1, <1>13, <2>2 DEF TakeCommand, FlowTypeOK
<1>14. ASSUME NEW item \in {Notice, Diff}, OtherItem(item) PROVE FlowTypeOK'
  <2>1. inbox' \in Seq(InboxItems) /\ Len(inbox') <= InboxCap /\ newer' \in 0 .. InboxCap
    BY <1>14, PushType DEF OtherItem, InboxItems
  <2>2. items' \in 0 .. MaxItems
    BY <1>14, PermissionAssumption DEF OtherItem, FlowTypeOK
  <2>. QED  BY <1>1, <1>14, <2>1, <2>2 DEF OtherItem, FlowTypeOK
<1>. QED
  BY <1>2, <1>3, <1>4, <1>5, <1>6, <1>7, <1>8, <1>9, <1>10, <1>11, <1>12, <1>13, <1>14
     DEF FlowNext, Handler

-----------------------------------------------------------------------------
(* A prompt has its card *)

\* The agent waits on a prompt that was not there before, and no decision on it, nor
\* a line from the keyboard, has reached the terminal.
Unanswered == fresh /\ ~interrupted /\ screen # NoPrompt /\ input = << >>

\* Its card is still where the items pushed since have moved it, or they are as many
\* as the inbox holds.
CardThere ==
  newer = InboxCap \/ \E i \in DOMAIN inbox : i <= newer + 1 /\ inbox[i] = screen

NoRequestAfter(k) == \A i \in DOMAIN events : i > k => events[i].kind # "requested"

\* Its card is in the inbox or on the way, and nothing behind it takes it away.
CardOnItsWay ==
  Unanswered =>
    /\ resolving # <<Resolved(screen)>>
    /\ \A i \in DOMAIN events : events[i] # Resolved(screen)
    /\ \/ \E k \in DOMAIN events : events[k] = Requested(screen) /\ NoRequestAfter(k)
       \/ CardThere /\ NoRequestAfter(0)

\* Another item moves the card of the prompt down by one at most.
LEMMA PushMovesCard ==
  ASSUME FlowTypeOK, NEW id \in InboxItems \ {screen}, Push(id), CardThere,
         screen # NoPrompt, UNCHANGED screen
  PROVE  CardThere'
<1>1. /\ newer \in 0 .. InboxCap /\ InboxCap \in Nat \ {0}
      /\ newer' = IF newer < InboxCap THEN newer + 1 ELSE newer
      /\ inbox \in Seq(InboxItems) /\ inbox' = PushInbox(id)
      /\ screen \in InboxItems /\ InboxCap' = InboxCap
  BY PermissionAssumption DEF FlowTypeOK, Push, InboxItems
<1>2. CASE newer' = InboxCap
  BY <1>1, <1>2 DEF CardThere
<1>3. CASE newer' # InboxCap
  <2>1. newer' = newer + 1 /\ newer + 1 < InboxCap
    BY <1>1, <1>3
  <2>2. PICK k \in DOMAIN inbox : k <= newer + 1 /\ inbox[k] = screen
    BY <1>1, <2>1 DEF CardThere
  <2>3. k < InboxCap /\ k \in Int
    BY <1>1, <2>1, <2>2, LenProperties
  <2>4. PICK i \in DOMAIN PushInbox(id) : i <= k + 1 /\ PushInbox(id)[i] = screen
    BY <1>1, <2>2, <2>3, PushInboxType
  <2>5. PushInbox(id) \in Seq(InboxItems)
    BY <1>1, PushInboxType
  <2>6. i \in Int /\ i <= newer' + 1
    BY <1>1, <2>1, <2>2, <2>3, <2>4, <2>5, LenProperties
  <2>. QED  BY <1>1, <2>4, <2>6 DEF CardThere
<1>. QED  BY <1>2, <1>3

LEMMA AskShowsCard ==
  ASSUME FlowTypeOK, NEW p \in Prompts, Ask(p)
  PROVE  CardOnItsWay'
<1>. SUFFICES ASSUME fresh', ~interrupted' PROVE CardOnItsWay'
  BY DEF CardOnItsWay, Unanswered
<1>. DEFINE w == Append(window, p)
<1>1. /\ p \notin seen /\ p # Plain /\ screen' = p /\ ~interrupted
      /\ UNCHANGED <<resolving, inbox>>
  BY PermissionAssumption DEF Ask, Shows, daemon
<1>2. window \in Seq(Prompts \cup {Plain})
  BY SeqOfMore DEF FlowTypeOK
<1>3. /\ w \in Seq(Prompts \cup {Plain}) /\ w # << >> /\ w[Len(w)] = p
  BY <1>2, AppendProperties, EmptySeq
<1>4. window' = Newest(w)
  BY DEF Ask, Shows, Observe
<1>. HIDE DEF w
<1>5. /\ window' \in Seq(Prompts \cup {Plain}) /\ window' # << >> /\ window'[Len(window')] = p
  BY <1>3, <1>4, NewestType
<1>6. Detail(window') = p
  BY <1>1, <1>5, DetailOfLast
<1>7. LooksLikePermission(window')
  <2>1. Len(window') \in DOMAIN window'
    BY <1>5, LenProperties, EmptySeq
  <2>. QED  BY <1>5, <2>1 DEF LooksLikePermission
<1>8. lastID # p
  BY <1>1, PermissionAssumption DEF FlowTypeOK
<1>9. events' = Append(events, Requested(p))
  BY <1>4, <1>6, <1>7, <1>8 DEF Ask, Shows, Observe, w
<1>10. /\ events \in Seq(CardEvents) /\ DOMAIN events = 1 .. Len(events) /\ Len(events) \in Nat
       /\ DOMAIN events' = 1 .. Len(events) + 1
       /\ \A i \in 1 .. Len(events) : events'[i] = events[i] /\ events[i] \in CardEvents
       /\ events'[Len(events) + 1] = Requested(p)
  BY <1>9, AppendProperties, LenProperties, ElementOfSeq DEF FlowTypeOK
<1>11. \A i \in 1 .. Len(events) : events[i].id # p
  BY <1>1, <1>10 DEF CardEvents, CardReplies, Named
<1>12. resolving' # <<Resolved(p)>>
  <2>1. CASE resolving = << >>
    BY <1>1, <2>1
  <2>2. ASSUME NEW e \in CardReplies, resolving = <<e>> PROVE resolving' # <<Resolved(p)>>
    <3>1. e.id # p /\ Resolved(p).id = p
      BY <1>1, <2>2 DEF CardReplies, Named, Resolved
    <3>. QED  BY <1>1, <2>2, <3>1
  <2>. QED  BY <1>1, <2>1, <2>2 DEF FlowTypeOK
<1>13. \A i \in DOMAIN events' : events'[i] # Resolved(p)
  BY <1>10, <1>11 DEF Requested, Resolved
<1>14. Len(events) + 1 \in DOMAIN events' /\ \A i \in DOMAIN events' : ~(i > Len(events) + 1)
  BY <1>10
<1>. QED  BY <1>1, <1>10, <1>12, <1>13, <1>14 DEF CardOnItsWay, NoRequestAfter, Requested, Resolved

LEMMA ResolutionSparesCard ==
  ASSUME FlowTypeOK, CardOnItsWay, SendResolved
  PROVE  CardOnItsWay'
<1>. SUFFICES ASSUME Unanswered' PROVE CardOnItsWay'
  BY DEF CardOnItsWay
<1>1. Unanswered /\ UNCHANGED <<screen, inbox, newer>> /\ resolving' = << >>
  BY DEF SendResolved, Unanswered, terminal, printing, attention
<1>2. PICK e \in CardReplies : resolving = <<e>>
  BY DEF SendResolved, FlowTypeOK
<1>3. e # Resolved(screen) /\ e.kind # "requested"
  BY <1>1, <1>2 DEF CardOnItsWay, CardReplies
<1>4. events' = Append(events, e) /\ events \in Seq(CardEvents) /\ e \in CardEvents
  BY <1>2 DEF SendResolved, FlowTypeOK, CardEvents
<1>5. /\ DOMAIN events = 1 .. Len(events) /\ Len(events) \in Nat
      /\ DOMAIN events' = 1 .. Len(events) + 1
      /\ \A i \in 1 .. Len(events) : events'[i] = events[i]
      /\ events'[Len(events) + 1] = e
  BY <1>4, AppendProperties, LenProperties
<1>7. Resolved(screen)' = Resolved(screen) /\ Requested(screen)' = Requested(screen)
  BY <1>1 DEF Resolved, Requested
<1>8. \A i \in DOMAIN events' : events'[i] # Resolved(screen)
  BY <1>1, <1>3, <1>5 DEF CardOnItsWay
<1>9. ASSUME NEW k, NoRequestAfter(k) PROVE NoRequestAfter(k)'
  BY <1>3, <1>5, <1>9 DEF NoRequestAfter
<1>10. CASE \E k \in DOMAIN events : events[k] = Requested(screen) /\ NoRequestAfter(k)
  <2>1. PICK k \in DOMAIN events : events[k] = Requested(screen) /\ NoRequestAfter(k)
    BY <1>10
  <2>2. k \in DOMAIN events' /\ events'[k] = Requested(screen) /\ NoRequestAfter(k)'
    BY <1>5, <1>9, <2>1
  <2>. QED  BY <1>1, <1>7, <1>8, <2>2 DEF CardOnItsWay
<1>11. CASE CardThere /\ NoRequestAfter(0)
  <2>1. CardThere' /\ NoRequestAfter(0)'
    BY <1>1, <1>9, <1>11 DEF CardThere
  <2>. QED  BY <1>1, <1>7, <1>8, <2>1 DEF CardOnItsWay
<1>. QED  BY <1>1, <1>10, <1>11 DEF CardOnItsWay

LEMMA ReceptionSparesCard ==
  ASSUME FlowTypeOK, CardOnItsWay, ReceiveEvent
  PROVE  CardOnItsWay'
<1>. SUFFICES ASSUME Unanswered' PROVE CardOnItsWay'
  BY DEF CardOnItsWay
<1>. DEFINE e == Head(events)
<1>1. Unanswered /\ UNCHANGED <<screen, resolving>> /\ screen # NoPrompt
  BY DEF ReceiveEvent, Unanswered, terminal, printing, daemon
<1>2. events \in Seq(CardEvents) /\ events # << >> /\ events' = Tail(events)
  BY DEF ReceiveEvent, FlowTypeOK
<1>3. /\ Len(events) \in Nat \ {0} /\ DOMAIN events = 1 .. Len(events)
      /\ DOMAIN events' = 1 .. Len(events) - 1
      /\ \A i \in 1 .. Len(events) - 1 : events'[i] = events[i + 1]
      /\ e = events[1] /\ e \in CardEvents
  BY <1>2, HeadTailProperties, LenProperties, EmptySeq
<1>4. \/ e.kind = "requested" /\ Push(e.id)
      \/ e.kind = "resolved" /\ RemoveResolved(e.id) /\ UNCHANGED newer
      \/ e.kind = "error" /\ Push(Notice)
  BY DEF ReceiveEvent
<1>. HIDE DEF e
<1>5. Resolved(screen)' = Resolved(screen) /\ Requested(screen)' = Requested(screen)
  BY <1>1 DEF Resolved, Requested
<1>6. /\ resolving' # <<Resolved(screen)>>
      /\ \A i \in DOMAIN events' : events'[i] # Resolved(screen)
  <2>1. \A i \in DOMAIN events' : i + 1 \in DOMAIN events /\ events'[i] = events[i + 1]
    BY <1>3
  <2>. QED  BY <1>1, <2>1 DEF CardOnItsWay
<1>7. ASSUME NEW k \in Nat, NoRequestAfter(k)
      PROVE  NoRequestAfter(k - 1)' /\ (k = 0 => NoRequestAfter(0)')
  <2>1. ASSUME NEW i \in DOMAIN events', i > k - 1 PROVE events'[i].kind # "requested"
    <3>1. i \in Nat /\ i + 1 \in DOMAIN events /\ i + 1 > k /\ events'[i] = events[i + 1]
      BY <1>3, <2>1
    <3>. QED  BY <1>7, <3>1 DEF NoRequestAfter
  <2>2. k = 0 => NoRequestAfter(0)'
    <3>1. k = 0 => \A i \in DOMAIN events' : i > k - 1
      BY <1>3
    <3>. QED  BY <2>1, <3>1 DEF NoRequestAfter
  <2>. QED  BY <2>1, <2>2 DEF NoRequestAfter
<1>8. screen \in seen /\ screen \in InboxItems /\ screen # Notice
  BY <1>1, PermissionAssumption DEF FlowTypeOK, InboxItems
<1>9. CASE \E k \in DOMAIN events : events[k] = Requested(screen) /\ NoRequestAfter(k)
  <2>1. PICK k \in DOMAIN events : events[k] = Requested(screen) /\ NoRequestAfter(k)
    BY <1>9
  <2>2. NoRequestAfter(k - 1)' /\ k \in Nat
    BY <1>3, <1>7, <2>1
  <2>3. CASE k = 1
    <3>1. e = Requested(screen)
      BY <1>3, <2>1, <2>3
    <3>2. Push(screen)
      BY <1>4, <3>1 DEF Requested
    <3>3. inbox' = PushInbox(screen) /\ newer' = 0 /\ inbox \in Seq(InboxItems)
      BY <3>2 DEF Push, FlowTypeOK
    <3>4. 1 \in DOMAIN inbox' /\ inbox'[1] = screen
      BY <1>8, <3>3, PushInboxType
    <3>5. CardThere'
      BY <1>1, <3>3, <3>4 DEF CardThere
    <3>. QED  BY <1>1, <1>5, <1>6, <2>2, <2>3, <3>5 DEF CardOnItsWay
  <2>4. CASE k # 1
    <3>1. k - 1 \in DOMAIN events' /\ events'[k - 1] = Requested(screen)
      BY <1>3, <2>1, <2>4
    <3>. QED  BY <1>1, <1>5, <1>6, <2>2, <3>1 DEF CardOnItsWay
  <2>. QED  BY <2>3, <2>4
<1>10. CASE CardThere /\ NoRequestAfter(0)
  <2>1. e.kind # "requested" /\ e # Resolved(screen)
    BY <1>1, <1>3, <1>10 DEF CardOnItsWay, NoRequestAfter
  <2>2. NoRequestAfter(0)'
    BY <1>7, <1>10
  <2>3. CASE e.kind = "error" /\ Push(Notice)
    <3>1. CardThere'
      BY <1>1, <1>8, <1>10, <2>3, PushMovesCard DEF InboxItems
    <3>. QED  BY <1>1, <1>5, <1>6, <2>2, <3>1 DEF CardOnItsWay
  <2>4. CASE e.kind = "resolved" /\ RemoveResolved(e.id) /\ UNCHANGED newer
    <3>1. e.id \in seen /\ e.id # screen
      BY <1>1, <1>3, <2>1, <2>4 DEF CardEvents, CardReplies, Named, Unanswered, Resolved
    <3>2. inbox' = Excluding(inbox, {e.id})
      BY <2>4, <3>1, PermissionAssumption DEF RemoveResolved, FlowTypeOK
    <3>3. CASE newer = InboxCap
      <4>1. CardThere'
        BY <2>4, <3>3 DEF CardThere
      <4>. QED  BY <1>1, <1>5, <1>6, <2>2, <4>1 DEF CardOnItsWay
    <3>4. ASSUME NEW k \in DOMAIN inbox, k <= newer + 1, inbox[k] = screen PROVE CardThere'
      <4>1. inbox \in Seq(InboxItems) /\ inbox[k] \notin {e.id} /\ newer \in Nat
        BY <3>1, <3>4, PermissionAssumption DEF FlowTypeOK
      <4>2. PICK i \in DOMAIN Excluding(inbox, {e.id}) :
              i <= k /\ Excluding(inbox, {e.id})[i] = inbox[k]
        BY <4>1, ExcludingMovesUp
      <4>3. Excluding(inbox, {e.id}) \in Seq(InboxItems)
        BY <4>1, ExcludingElements
      <4>4. i \in Int /\ k \in Int /\ i <= newer + 1
        BY <3>4, <4>1, <4>2, <4>3, LenProperties
      <4>. QED  BY <1>1, <2>4, <3>2, <3>4, <4>2, <4>4 DEF CardThere
    <3>5. CardThere'
      BY <1>10, <2>4, <3>3, <3>4 DEF CardThere
    <3>. QED  BY <1>1, <1>5, <1>6, <2>2, <3>5 DEF CardOnItsWay
  <2>. QED  BY <1>4, <2>1, <2>3, <2>4
<1>. QED  BY <1>1, <1>9, <1>10 DEF CardOnItsWay

LEMMA ItemSparesCard ==
  ASSUME FlowTypeOK, CardOnItsWay, NEW item \in {Notice, Diff}, OtherItem(item)
  PROVE  CardOnItsWay'
<1>. SUFFICES ASSUME Unanswered' PROVE CardOnItsWay'
  BY DEF CardOnItsWay
<1>1. Unanswered /\ UNCHANGED <<screen, resolving, events>> /\ screen # NoPrompt /\ Push(item)
  BY DEF OtherItem, Unanswered, terminal, printing, daemon
<1>2. item \in InboxItems \ {screen}
  BY <1>1, PermissionAssumption DEF InboxItems, FlowTypeOK
<1>3. CardThere => CardThere'
  BY <1>1, <1>2, PushMovesCard
<1>4. \A k : NoRequestAfter(k) => NoRequestAfter(k)'
  BY <1>1 DEF NoRequestAfter
<1>5. Resolved(screen)' = Resolved(screen) /\ Requested(screen)' = Requested(screen)
  BY <1>1 DEF Resolved, Requested
<1>. QED  BY <1>1, <1>3, <1>4, <1>5 DEF CardOnItsWay

LEMMA CardNext ==
  ASSUME FlowTypeOK, CardOnItsWay, [FlowNext]_flow
  PROVE  CardOnItsWay'
<1>. USE DEF terminal, printing, daemon, attention
<1>1. ASSUME UNCHANGED <<screen, input, events, resolving, inbox, newer, fresh, interrupted>>
      PROVE  CardOnItsWay'
  BY <1>1 DEF CardOnItsWay, CardThere, NoRequestAfter, Unanswered, Resolved, Requested
<1>2. ASSUME ~Unanswered' PROVE CardOnItsWay'
  BY <1>2 DEF CardOnItsWay
<1>3. TakeAnswer \/ ReadOther \/ Interrupt \/ TapInterrupt => ~Unanswered'
  BY DEF TakeAnswer, ReadOther, Interrupt, TapInterrupt, Unanswered
<1>4. Type \/ WriteDecision => ~Unanswered'
  <2>1. ASSUME NEW id, input' = Append(input, id) PROVE input' # << >>
    BY <2>1, AppendProperties DEF FlowTypeOK
  <2>. QED  BY <2>1 DEF Type, WriteDecision, Unanswered
<1>5. ASSUME NEW l, Output(l) PROVE ~Unanswered'
  BY <1>5 DEF Output, Unanswered
<1>6. TwoMinutesPass \/ TakeCommand \/ (\E p \in Prompts : TapCard(p)) \/ UNCHANGED flow
        => UNCHANGED <<screen, input, events, resolving, inbox, newer, fresh, interrupted>>
  BY DEF TwoMinutesPass, TakeCommand, TapCard, SendCommand, flow
<1>7. ASSUME NEW a, CommandFails(a) PROVE CardOnItsWay'
  <2>1. /\ UNCHANGED <<screen, input, events, inbox, newer, fresh, interrupted>>
        /\ resolving' # <<Resolved(screen)>>
    BY <1>7 DEF CommandFails, Failed, Resolved
  <2>. QED  BY <2>1 DEF CardOnItsWay, CardThere, NoRequestAfter, Unanswered, Resolved, Requested
<1>. QED
  BY <1>1, <1>2, <1>3, <1>4, <1>5, <1>6, <1>7, AskShowsCard, ResolutionSparesCard,
     ReceptionSparesCard, ItemSparesCard DEF FlowNext, Handler

\* A prompt that the agent waits on for the first time has its card when nothing is
\* under way, for any prompts, window, inbox and number of decisions, stale ones and
\* failing ones included, unless an interrupt was sent that names no card or as many
\* newer items as the inbox holds have come.
THEOREM PromptHasCardAlways == FlowSpec => []PromptHasCard
<1>. DEFINE Inv == FlowTypeOK /\ CardOnItsWay
<1>1. FlowInit => Inv
  <2>. SUFFICES ASSUME FlowInit PROVE Inv
    OBVIOUS
  <2>1. \A S : << >> \in Seq(S)
    OBVIOUS
  <2>2. Len(<< >>) <= WindowLines /\ Len(<< >>) <= InboxCap /\ 0 \in 0 .. MaxLines /\ 0 \in 0 .. MaxDecisions
        /\ 0 \in 0 .. MaxItems /\ 0 \in 0 .. InboxCap
    BY PermissionAssumption
  <2>3. FlowTypeOK
    BY <2>1, <2>2 DEF FlowInit, FlowTypeOK
  <2>4. CardOnItsWay
    BY DEF FlowInit, CardOnItsWay, Unanswered
  <2>. QED  BY <2>3, <2>4
<1>2. Inv /\ [FlowNext]_flow => Inv'
  BY FlowTypeNext, CardNext
<1>3. Inv => PromptHasCard
  BY DEF CardOnItsWay, CardThere, Unanswered, PromptHasCard
<1>. QED  BY <1>1, <1>2, <1>3, PTL DEF FlowSpec

-----------------------------------------------------------------------------
(* Ring *)

\* The entries of a ring are the last ones of what was written to it.
LEMMA RingEntries ==
  ASSUME NEW S, NEW s \in Seq(S)
  PROVE  /\ Ring(s) \in Seq(S)
         /\ Len(Ring(s)) = IF Len(s) > LogCap THEN LogCap ELSE Len(s)
         /\ \A i \in 1 .. Len(Ring(s)) : Ring(s)[i] = s[i + Len(s) - Len(Ring(s))]
<1>1. LogCap \in Nat \ {0}
  BY PreviewAssumption
<1>2. CASE Len(s) > LogCap
  <2>1. Ring(s) = SubSeq(s, Len(s) - LogCap + 1, Len(s))
    BY <1>2 DEF Ring
  <2> QED BY <1>1, <1>2, <2>1
<1>3. CASE ~(Len(s) > LogCap)
  <2>1. Ring(s) = SubSeq(s, 1, Len(s))
    BY <1>3 DEF Ring
  <2>2. SubSeq(s, 1, Len(s)) = s
    BY SubSeqFull
  <2>3. Len(s) \in Nat /\ \A i \in 1 .. Len(s) : i + Len(s) - Len(s) = i
    OBVIOUS
  <2> QED BY <1>3, <2>1, <2>2, <2>3
<1> QED BY <1>2, <1>3

\* An entry added to a ring and cut is the ring of all that was written.
LEMMA RingOfRing ==
  ASSUME NEW S, NEW s \in Seq(S), NEW e \in S
  PROVE  Ring(Append(Ring(s), e)) = Ring(Append(s, e))
<1> DEFINE r == Ring(s)
           a == Append(r, e)
           b == Append(s, e)
<1>1. LogCap \in Nat \ {0}
  BY PreviewAssumption
<1>2. /\ r \in Seq(S) /\ Len(r) = IF Len(s) > LogCap THEN LogCap ELSE Len(s)
      /\ \A i \in 1 .. Len(r) : r[i] = s[i + Len(s) - Len(r)]
  BY RingEntries
<1> HIDE DEF r
<1>3. /\ a \in Seq(S) /\ Len(a) = Len(r) + 1
      /\ \A i \in 1 .. Len(a) : a[i] = IF i = Len(a) THEN e ELSE r[i]
  BY <1>2
<1>4. /\ b \in Seq(S) /\ Len(b) = Len(s) + 1
      /\ \A i \in 1 .. Len(b) : b[i] = IF i = Len(b) THEN e ELSE s[i]
  OBVIOUS
<1> HIDE DEF a, b
<1>5. /\ Ring(a) \in Seq(S) /\ Len(Ring(a)) = IF Len(a) > LogCap THEN LogCap ELSE Len(a)
      /\ \A i \in 1 .. Len(Ring(a)) : Ring(a)[i] = a[i + Len(a) - Len(Ring(a))]
  BY <1>3, RingEntries
<1>6. /\ Ring(b) \in Seq(S) /\ Len(Ring(b)) = IF Len(b) > LogCap THEN LogCap ELSE Len(b)
      /\ \A i \in 1 .. Len(Ring(b)) : Ring(b)[i] = b[i + Len(b) - Len(Ring(b))]
  BY <1>4, RingEntries
<1>7. Len(s) \in Nat /\ Len(Ring(a)) = Len(Ring(b))
  BY <1>1, <1>2, <1>3, <1>4, <1>5, <1>6
<1>8. ASSUME NEW i \in 1 .. Len(Ring(a)) PROVE Ring(a)[i] = Ring(b)[i]
  <2>1. PICK m \in Nat, n \in Nat, l \in Nat :
          /\ m = Len(Ring(a)) /\ n = Len(r) /\ l = Len(s)
          /\ m = Len(Ring(b)) /\ Len(a) = n + 1 /\ Len(b) = l + 1
    BY <1>2, <1>3, <1>4, <1>5, <1>7
  <2>2. m <= n + 1 /\ m <= l + 1 /\ n <= l /\ i \in 1 .. m
    BY <1>1, <1>2, <1>4, <1>5, <1>6, <2>1
  <2>3. Ring(a)[i] = a[i + n + 1 - m] /\ Ring(b)[i] = b[i + l + 1 - m]
    <3>1. i + Len(a) - Len(Ring(a)) = i + n + 1 - m /\ i + Len(b) - Len(Ring(b)) = i + l + 1 - m
      BY <2>1, <2>2
    <3> QED BY <1>5, <1>6, <1>7, <3>1
  <2>4. CASE i = m
    <3>1. i + n + 1 - m = n + 1 /\ i + l + 1 - m = l + 1
      BY <2>1, <2>4
    <3>2. a[n + 1] = e /\ b[l + 1] = e
      BY <1>3, <1>4, <2>1
    <3> QED BY <2>3, <3>1, <3>2
  <2>5. CASE i # m
    <3>1. i + n + 1 - m \in 1 .. n /\ i + l + 1 - m \in 1 .. l
      BY <2>2, <2>5
    <3>2. a[i + n + 1 - m] = r[i + n + 1 - m] /\ b[i + l + 1 - m] = s[i + l + 1 - m]
      <4>1. /\ i + n + 1 - m \in 1 .. Len(a) /\ i + n + 1 - m # Len(a)
            /\ i + l + 1 - m \in 1 .. Len(b) /\ i + l + 1 - m # Len(b)
        BY <2>1, <3>1
      <4> QED BY <1>3, <1>4, <4>1
    <3>3. r[i + n + 1 - m] = s[i + l + 1 - m]
      <4>1. (i + n + 1 - m) + l - n = i + l + 1 - m
        BY <2>1, <2>2
      <4> QED BY <1>2, <2>1, <3>1, <4>1
    <3> QED BY <2>3, <3>2, <3>3
  <2> QED BY <2>4, <2>5
<1>9. Ring(a) = Ring(b)
  BY <1>5, <1>6, <1>7, <1>8, SeqEqual
<1> QED BY <1>9 DEF a, b, r

-----------------------------------------------------------------------------
(* The log *)

LogInv == ended \in Seq(Requests) /\ requests = Ring(ended)

\* The log of the preview holds the newest requests that ended by themselves, in the
\* order they ended and each once, for any number of entries (handle, recordRequest).
THEOREM LogHoldsNewestAlways == PreviewSpec => []LogHoldsNewest
<1>1. PreviewInit => LogInv
  <2> SUFFICES ASSUME PreviewInit PROVE LogInv
    OBVIOUS
  <2>1. ended = <<>> /\ requests = <<>> /\ ended \in Seq(Requests)
    BY DEF PreviewInit
  <2>2. Ring(<<>>) = <<>>
    BY PreviewAssumption DEF Ring
  <2> QED BY <2>1, <2>2 DEF LogInv
<1>2. LogInv /\ [PreviewNext]_preview => LogInv'
  <2> SUFFICES ASSUME LogInv, [PreviewNext]_preview PROVE LogInv'
    OBVIOUS
  <2>1. ASSUME NEW r \in Requests, RecordRequest(r), ended' = Append(ended, r) PROVE LogInv'
    <3>1. ended' \in Seq(Requests)
      BY <2>1 DEF LogInv
    <3>2. requests' = Ring(Append(ended, r))
      BY <2>1, RingOfRing DEF LogInv, RecordRequest
    <3> QED BY <2>1, <3>1, <3>2 DEF LogInv
  <2>2. CASE UNCHANGED <<requests, ended>>
    BY <2>2 DEF LogInv
  <2>3. ASSUME NEW r \in Requests, Refuse(r) PROVE LogInv'
    BY <2>1, <2>3 DEF Refuse
  <2>4. ASSUME NEW r \in Requests, Forward(r) \/ BreaksOff(r) PROVE LogInv'
    BY <2>2, <2>4 DEF Forward, BreaksOff
  <2>5. ASSUME NEW r \in Requests, Unavailable(r) PROVE LogInv'
    BY <2>1, <2>5 DEF Unavailable
  <2>6. ASSUME NEW r \in Requests, Served(r) PROVE LogInv'
    BY <2>1, <2>2, <2>6 DEF Served
  <2>7. CASE UNCHANGED preview
    BY <2>2, <2>7 DEF preview
  <2> QED BY <2>3, <2>4, <2>5, <2>6, <2>7 DEF PreviewNext
<1>3. LogInv => LogHoldsNewest
  BY DEF LogInv, LogHoldsNewest, Ring
<1> QED BY <1>1, <1>2, <1>3, PTL DEF PreviewSpec

-----------------------------------------------------------------------------
(* Tabs *)

UniquePaths(s) == \A i, j \in 1 .. Len(s) : s[i].path = s[j].path => i = j

\* Without takes the tabs of p and leaves the others as they are.
LEMMA WithoutTabs ==
  ASSUME tabs \in Seq(CodeFile), NEW p \in Paths
  PROVE  LET w == Without(p) IN
         /\ w \in Seq(CodeFile) /\ Len(w) <= Len(tabs)
         /\ \A i \in 1 .. Len(w) :
              w[i].path # p /\ \E k \in 1 .. Len(tabs) : w[i] = tabs[k]
         /\ \A k \in 1 .. Len(tabs) :
              tabs[k].path # p => \E i \in 1 .. Len(w) : w[i] = tabs[k]
         /\ UniquePaths(tabs) => UniquePaths(w)
<1>. DEFINE w == Excluding(tabs, OfPath(p))
<1>1. w \in Seq(CodeFile) /\ Embeds(tabs, OfPath(p), w, Len(tabs))
  BY ExcludingEmbeds
<1>. HIDE DEF w
<1>2. PICK at \in [1 .. Len(w) -> 1 .. Len(tabs)] :
        /\ \A i, j \in 1 .. Len(w) : i < j => at[i] < at[j]
        /\ \A i \in 1 .. Len(w) : w[i] = tabs[at[i]] /\ w[i] \notin OfPath(p)
        /\ \A k \in 1 .. Len(tabs) : tabs[k] \notin OfPath(p) => \E i \in 1 .. Len(w) : at[i] = k
  BY <1>1 DEF Embeds
<1>3. \A f \in CodeFile : f \in OfPath(p) <=> f.path = p
  BY DEF CodeFile, OfPath
<1>4. ASSUME NEW i \in 1 .. Len(w)
      PROVE  w[i].path # p /\ \E k \in 1 .. Len(tabs) : w[i] = tabs[k]
  <2>1. w[i] \in CodeFile
    BY <1>1, ElementOfSeq
  <2>. QED  BY <1>2, <1>3, <2>1
<1>5. ASSUME NEW k \in 1 .. Len(tabs), tabs[k].path # p
      PROVE  \E i \in 1 .. Len(w) : w[i] = tabs[k]
  <2>1. tabs[k] \in CodeFile
    BY ElementOfSeq
  <2>2. PICK i \in 1 .. Len(w) : at[i] = k
    BY <1>2, <1>3, <1>5, <2>1
  <2>. QED  BY <1>2, <2>2
<1>6. ASSUME UniquePaths(tabs), NEW i \in 1 .. Len(w), NEW j \in 1 .. Len(w),
             w[i].path = w[j].path
      PROVE  i = j
  <2>1. at[i] = at[j]
    BY <1>2, <1>6 DEF UniquePaths
  <2>2. at[i] \in Int /\ at[j] \in Int /\ i \in Int /\ j \in Int
    OBVIOUS
  <2>. QED  BY <1>2, <2>1, <2>2
<1>7. Len(w) <= Len(tabs)
  BY <1>1 DEF Embeds
<1>. QED  BY <1>1, <1>4, <1>5, <1>6, <1>7 DEF UniquePaths, Without, w

\* The first tab of an open file is one of its tabs.
LEMMA FirstTabOfPath ==
  ASSUME tabs \in Seq(CodeFile), NEW p \in Paths, IsOpen(p)
  PROVE  FirstTab(p).path = p /\ \E k \in 1 .. Len(tabs) : FirstTab(p) = tabs[k]
<1>. DEFINE D == CodeFile \ OfPath(p)
            w == Excluding(tabs, D)
<1>1. w \in Seq(CodeFile) /\ Embeds(tabs, D, w, Len(tabs))
  BY ExcludingEmbeds
<1>. HIDE DEF w
<1>2. PICK at \in [1 .. Len(w) -> 1 .. Len(tabs)] :
        /\ \A i \in 1 .. Len(w) : w[i] = tabs[at[i]] /\ w[i] \notin D
        /\ \A k \in 1 .. Len(tabs) : tabs[k] \notin D => \E i \in 1 .. Len(w) : at[i] = k
  BY <1>1 DEF Embeds
<1>3. PICK k \in 1 .. Len(tabs) : tabs[k].path = p
  BY DEF IsOpen
<1>4. tabs[k] \in OfPath(p)
  <2>1. tabs[k] \in CodeFile
    BY ElementOfSeq
  <2>. QED  BY <1>3, <2>1 DEF CodeFile, OfPath
<1>5. 1 \in 1 .. Len(w) /\ w # << >> /\ Head(w) = w[1]
  BY <1>1, <1>2, <1>4
<1>6. w[1] \in CodeFile
  BY <1>1, <1>5, ElementOfSeq
<1>7. w[1].path = p
  BY <1>2, <1>5, <1>6 DEF CodeFile, OfPath
<1>. QED  BY <1>2, <1>5, <1>7 DEF FirstTab, w

-----------------------------------------------------------------------------
(* Types of WorkspaceFiles *)

\* The editor has a text whenever it has a file to show.
EditorHasText == pane = "editor" /\ active # None => code # None /\ code.path = active.path

FilesInv == TypeOK /\ EditorHasText

\* Rebuilding the screen shows the active file, with the edits if it is the same.
LEMMA RebuildType ==
  ASSUME NEW c \in Code \cup {None}, active' \in CodeFile \cup {None}, Rebuild(c)
  PROVE  code' \in Code \cup {None} /\ EditorHasText'
<1>1. CASE pane' = "editor"
  <2>1. code' = Synced(active', c)
    BY <1>1 DEF Rebuild
  <2>2. CASE active' = None
    BY <2>1, <2>2 DEF Synced, EditorHasText
  <2>3. CASE active' # None
    <3>1. active' \in CodeFile
      BY <2>3
    <3>2. CASE c # None /\ c.path = active'.path
      <4>1. c \in Code /\ [c EXCEPT !.base = active'.text, !.text = active'.text] \in Code
        BY <3>1, <3>2 DEF Code, CodeFile
      <4>2. code' \in {c, [c EXCEPT !.base = active'.text, !.text = active'.text]}
        BY <2>1, <2>3, <3>2 DEF Synced
      <4>3. code'.path = active'.path
        BY <3>2, <4>1, <4>2 DEF Code
      <4>. QED  BY <4>1, <4>2, <4>3, ConstantsAssumption DEF EditorHasText
    <3>3. CASE ~(c # None /\ c.path = active'.path)
      <4>1. code' = [path |-> active'.path, base |-> active'.text, text |-> active'.text]
        BY <2>1, <2>3, <3>3 DEF Synced
      <4>2. code' \in Code /\ code'.path = active'.path
        BY <3>1, <4>1 DEF Code, CodeFile
      <4>. QED  BY <4>2, ConstantsAssumption DEF EditorHasText
    <3>. QED  BY <3>2, <3>3
  <2>. QED  BY <2>2, <2>3
<1>2. CASE pane' # "editor"
  BY <1>2 DEF Rebuild, EditorHasText
<1>. QED  BY <1>1, <1>2

LEMMA ActiveWithoutType ==
  ASSUME TypeOK, NEW p \in Paths
  PROVE  ActiveWithout(p) \in CodeFile \cup {None}
<1>1. Without(p) \in Seq(CodeFile)
  BY WithoutTabs DEF TypeOK
<1>2. Without(p) # << >> => Last(Without(p)) \in CodeFile
  BY <1>1, ElementOfSeq DEF Last
<1>. QED  BY <1>2 DEF ActiveWithout, TypeOK

LEMMA SendType ==
  ASSUME TypeOK, NEW cs \in Seq(Command), Send(cs)
  PROVE  toDaemon' \in Seq(Command) /\ UNCHANGED <<faults, link>>
<1>1. toDaemon \o cs \in Seq(Command)
  BY ConcatProperties DEF TypeOK
<1>. QED  BY <1>1 DEF Send, TypeOK

LEMMA SendAndOpenType ==
  ASSUME TypeOK, NEW cs \in Seq(Command), NEW p \in Paths, SendAndOpen(cs, p)
  PROVE  /\ toDaemon' \in Seq(Command) /\ UNCHANGED <<faults, link>>
         /\ opening' \in Paths \cup {None} /\ missed' \subseteq Paths
<1>1. toDaemon' \in Seq(Command) /\ UNCHANGED <<faults, link>>
  BY SendType DEF SendAndOpen
<1>. QED  BY <1>1 DEF SendAndOpen, TypeOK

\* What is left of the frames under way has their types.
LEMMA LossType ==
  ASSUME TypeOK, FramesAreLost
  PROVE  toDaemon' \in Seq(Command) /\ toPhone' \in Seq(Event) /\ missed' \subseteq Paths
<1>1. PICK n \in 0 .. Len(toDaemon), m \in 0 .. Len(toPhone) :
        /\ toDaemon' = SubSeq(toDaemon, 1, n) /\ toPhone' = SubSeq(toPhone, 1, m)
        /\ missed' = missed
             \cup {p \in Paths : \E i \in n + 1 .. Len(toDaemon) : toDaemon[i] = Read(p)}
             \cup {p \in Paths : \E i \in m + 1 .. Len(toPhone) :
                      toPhone[i].type = "file_content" /\ toPhone[i].path = p}
  BY DEF FramesAreLost
<1>2. /\ \A i \in 1 .. n : toDaemon[i] \in Command
      /\ \A i \in 1 .. m : toPhone[i] \in Event
  BY ElementOfSeq DEF TypeOK
<1>3. SubSeq(toDaemon, 1, n) \in Seq(Command)
  BY <1>2, SubSeqProperties DEF TypeOK
<1>4. SubSeq(toPhone, 1, m) \in Seq(Event)
  BY <1>2, SubSeqProperties DEF TypeOK
<1>. QED  BY <1>1, <1>3, <1>4 DEF TypeOK

LEMMA FaultType ==
  ASSUME TypeOK, Fault
  PROVE  faults' \in Nat /\ faults' + agentSteps <= MaxFaults
BY ConstantsAssumption DEF Fault, TypeOK

\* A step that leaves the computer alone.
LEMMA PhoneType ==
  ASSUME FilesInv, UNCHANGED <<daemonVars, histories>>,
         toDaemon' \in Seq(Command), toPhone' \in Seq(Event),
         link' \in {"up", "down", "closed"}, missed' \subseteq Paths,
         opening' \in Paths \cup {None},
         faults' \in Nat, faults' + agentSteps <= MaxFaults,
         taps' \in 0 .. MaxCommands, edits' \in 0 .. MaxEdits,
         tabs' \in Seq(CodeFile), Len(tabs') <= TabCap,
         active' \in CodeFile \cup {None}, pane' \in {"files", "editor", "home"},
         code' \in Code \cup {None}, EditorHasText'
  PROVE  FilesInv'
BY DEF FilesInv, TypeOK, daemonVars, histories

\* A new session has no files.
LEMMA ReplaceSessionType ==
  ASSUME FilesInv, ReplaceSession,
         toDaemon' \in Seq(Command), toPhone' \in Seq(Event),
         link' \in {"up", "down", "closed"}, missed' \subseteq Paths
  PROVE  FilesInv'
<1>1. TypeOK /\ faults' \in Nat /\ faults' + agentSteps <= MaxFaults
  BY FaultType DEF ReplaceSession, FilesInv
<1>2. code' \in Code \cup {None} /\ EditorHasText'
  BY <1>1, RebuildType DEF ReplaceSession, TypeOK
<1>3. << >> \in Seq(CodeFile) /\ Len(<< >>) = 0
  OBVIOUS
<1>4. tabs' \in Seq(CodeFile) /\ Len(tabs') <= TabCap
  BY <1>3, ConstantsAssumption DEF ReplaceSession
<1>5. active' = None /\ opening' = None /\ pane' \in {"files", "editor", "home"}
  BY <1>1 DEF ReplaceSession, TypeOK
<1>. QED  BY <1>1, <1>2, <1>4, <1>5, PhoneType DEF ReplaceSession, counters, TypeOK

LEMMA UserType ==
  ASSUME FilesInv, User
  PROVE  FilesInv'
<1>. USE DEF counters
<1>0. TypeOK /\ (taps' = taps + 1 /\ taps < MaxCommands => taps' \in 0 .. MaxCommands)
      /\ (edits' = edits + 1 /\ edits < MaxEdits => edits' \in 0 .. MaxEdits)
  BY ConstantsAssumption DEF FilesInv, TypeOK
<1>1. CASE SelectFiles
  <2>1. code' = None /\ pane' = "files" /\ EditorHasText'
    BY <1>1 DEF SelectFiles, EditorHasText
  <2>. QED  BY <1>1, <2>1, PhoneType DEF SelectFiles, FilesInv, TypeOK
<1>2. CASE SelectEditor
  <2>1. code' \in Code \cup {None} /\ EditorHasText'
    BY <1>2, RebuildType DEF SelectEditor, FilesInv, TypeOK
  <2>. QED  BY <1>2, <2>1, PhoneType DEF SelectEditor, FilesInv, TypeOK
<1>3. CASE Revert
  <2>1. code \in Code /\ code' = [code EXCEPT !.text = code.base]
    BY <1>3 DEF Revert, Dirty, FilesInv, TypeOK
  <2>2. code' \in Code /\ code'.path = code.path
    BY <2>1 DEF Code
  <2>3. EditorHasText'
    BY <1>3, <2>2, ConstantsAssumption DEF Revert, EditorHasText, FilesInv
  <2>. QED  BY <1>3, <2>2, <2>3, PhoneType DEF Revert, FilesInv, TypeOK
<1>4. CASE SaveFile
  <2>1. code \in Code /\ active \in CodeFile
    BY <1>4 DEF SaveFile, Visible, Dirty, FilesInv, TypeOK
  <2>2. [code EXCEPT !.base = code.text] \in Code
    BY <2>1 DEF Code
  <2>3. [op |-> "write", path |-> active.path, text |-> code.text] \in Command
    BY <2>1 DEF Command, Code, CodeFile
  <2>4. code' \in Code \cup {None} /\ EditorHasText'
    BY <1>4, <2>2, RebuildType DEF SaveFile, FilesInv, TypeOK
  <2>5. toDaemon' \in Seq(Command) /\ UNCHANGED <<faults, link>>
    <3>1. << [op |-> "write", path |-> active.path, text |-> code.text] >> \in Seq(Command)
      BY <2>3
    <3>. QED  BY <1>0, <1>4, <3>1, SendType DEF SaveFile
  <2>. QED  BY <1>0, <1>4, <2>4, <2>5, PhoneType DEF SaveFile, Tap, FilesInv, TypeOK
<1>5. ASSUME NEW p \in Paths, OpenFromBrowser(p) \/ SwitchTab(p) PROVE FilesInv'
  <2>1. SwitchOpenFile(p)
    BY <1>5 DEF OpenFromBrowser, SwitchTab
  <2>2. active' \in CodeFile \cup {None} /\ opening' \in Paths \cup {None}
        /\ toDaemon' \in Seq(Command) /\ taps' \in 0 .. MaxCommands
        /\ missed' \subseteq Paths /\ UNCHANGED <<faults, link>>
    <3>1. CASE /\ IsOpen(p)
               /\ active' = FirstTab(p) /\ opening' = None
               /\ UNCHANGED <<toDaemon, faults, link, taps, missed>>
      <4>1. PICK k \in 1 .. Len(tabs) : FirstTab(p) = tabs[k]
        BY <1>0, <3>1, FirstTabOfPath DEF TypeOK
      <4>2. tabs[k] \in CodeFile
        BY <1>0, <4>1, ElementOfSeq DEF TypeOK
      <4>. QED  BY <1>0, <3>1, <4>1, <4>2 DEF TypeOK
    <3>2. CASE Tap /\ SendAndOpen(<<Read(p)>>, p) /\ UNCHANGED active
      <4>1. <<Read(p)>> \in Seq(Command)
        BY DEF Read, Command
      <4>. QED  BY <1>0, <3>2, <4>1, SendAndOpenType DEF Tap, TypeOK
    <3>. QED  BY <2>1, <3>1, <3>2 DEF SwitchOpenFile
  <2>3. code' \in Code \cup {None} /\ EditorHasText'
    BY <2>1, <2>2, <1>0, RebuildType DEF SwitchOpenFile, TypeOK
  <2>. QED  BY <1>0, <2>1, <2>2, <2>3, PhoneType DEF SwitchOpenFile, TypeOK
<1>6. ASSUME NEW p \in Paths, CloseOpenFile(p) PROVE FilesInv'
  <2>1. tabs' \in Seq(CodeFile) /\ Len(tabs') <= TabCap
    BY <1>0, <1>6, WithoutTabs, ConstantsAssumption DEF CloseOpenFile, TypeOK
  <2>2. active' \in CodeFile \cup {None}
    BY <1>0, <1>6, ActiveWithoutType DEF CloseOpenFile
  <2>3. code' \in Code \cup {None} /\ EditorHasText'
    BY <1>0, <1>6, <2>2, RebuildType DEF CloseOpenFile, TypeOK
  <2>. QED  BY <1>0, <1>6, <2>1, <2>2, <2>3, PhoneType DEF CloseOpenFile, TypeOK
<1>7. ASSUME NEW p \in Paths, DeleteFile(p) PROVE FilesInv'
  <2>1. << [op |-> "delete", path |-> p] >> \in Seq(Command)
    BY DEF Command
  <2>2. toDaemon' \in Seq(Command) /\ UNCHANGED <<faults, link>>
    BY <1>0, <1>7, <2>1, SendType DEF DeleteFile
  <2>3. EditorHasText'
    BY <1>7 DEF DeleteFile, EditorHasText, FilesInv
  <2>. QED  BY <1>0, <1>7, <2>2, <2>3, PhoneType DEF DeleteFile, Tap, TypeOK
<1>8. ASSUME NEW p \in Paths, NEW t \in Texts, CreateFile(p, t) PROVE FilesInv'
  <2>1. <<[op |-> "write", path |-> p, text |-> t], Read(p)>> \in Seq(Command)
    <3>1. [op |-> "write", path |-> p, text |-> t] \in Command /\ Read(p) \in Command
      BY DEF Command, Read
    <3>. QED  BY <3>1
  <2>2. code' \in Code \cup {None} /\ EditorHasText'
    BY <1>0, <1>8, RebuildType DEF CreateFile, TypeOK
  <2>. QED  BY <1>0, <1>8, <2>1, <2>2, SendAndOpenType, PhoneType DEF CreateFile, Tap, TypeOK
<1>9. ASSUME NEW p \in Paths, NEW q \in Paths, RenameFile(p, q) PROVE FilesInv'
  <2>1. <<[op |-> "rename", from |-> p, to |-> q], Read(q)>> \in Seq(Command)
    <3>1. [op |-> "rename", from |-> p, to |-> q] \in Command /\ Read(q) \in Command
      BY DEF Command, Read
    <3>. QED  BY <3>1
  <2>2. code' \in Code \cup {None} /\ EditorHasText'
    BY <1>0, <1>9, RebuildType DEF RenameFile, TypeOK
  <2>. QED  BY <1>0, <1>9, <2>1, <2>2, SendAndOpenType, PhoneType DEF RenameFile, Tap, TypeOK
<1>10. ASSUME NEW t \in Texts, EditText(t) PROVE FilesInv'
  <2>1. code \in Code /\ code' = [code EXCEPT !.text = t]
    BY <1>0, <1>10 DEF EditText, Visible, FilesInv, EditorHasText, TypeOK
  <2>2. code' \in Code /\ code'.path = code.path
    BY <2>1 DEF Code
  <2>3. EditorHasText'
    BY <1>10, <2>2, ConstantsAssumption DEF EditText, EditorHasText, FilesInv
  <2>. QED  BY <1>0, <1>10, <2>2, <2>3, PhoneType DEF EditText, TypeOK
<1>11. CASE End
  <2>1. toDaemon' \in Seq(Command) /\ toPhone' \in Seq(Event) /\ missed' \subseteq Paths
    BY <1>0, <1>11, LossType DEF End
  <2>2. faults' \in Nat /\ faults' + agentSteps <= MaxFaults
    BY <1>0, <1>11, FaultType DEF End
  <2>3. EditorHasText' /\ link' = "closed" /\ pane' = "home" /\ code' = None
    BY <1>11 DEF End, EditorHasText
  <2>. QED  BY <1>0, <1>11, <2>1, <2>2, <2>3, PhoneType DEF End, TypeOK
<1>12. CASE Reconnect
  <2>1. toDaemon' \in Seq(Command) /\ toPhone' \in Seq(Event) /\ missed' \subseteq Paths
    BY <1>0, <1>12, LossType DEF Reconnect
  <2>. QED  BY <1>12, <2>1, ReplaceSessionType DEF Reconnect
<1>13. CASE OpenHistory
  BY <1>0, <1>13, ReplaceSessionType DEF OpenHistory, TypeOK
<1>. QED
  BY <1>1, <1>2, <1>3, <1>4, <1>5, <1>6, <1>7, <1>8, <1>9, <1>10, <1>11, <1>12, <1>13 DEF User

\* The link goes and comes.
LEMMA LinkType ==
  ASSUME FilesInv, LinkLost \/ LinkReturns
  PROVE  FilesInv'
<1>0. TypeOK
  BY DEF FilesInv
<1>1. code' \in Code \cup {None} /\ EditorHasText' /\ active' \in CodeFile \cup {None}
  BY <1>0, RebuildType DEF LinkLost, LinkReturns, TypeOK
<1>2. CASE LinkLost
  <2>1. toDaemon' \in Seq(Command) /\ toPhone' \in Seq(Event) /\ missed' \subseteq Paths
    BY <1>0, <1>2, LossType DEF LinkLost
  <2>2. faults' \in Nat /\ faults' + agentSteps <= MaxFaults
    BY <1>0, <1>2, FaultType DEF LinkLost
  <2>. QED  BY <1>0, <1>1, <1>2, <2>1, <2>2, PhoneType DEF LinkLost, TypeOK, counters
<1>3. CASE LinkReturns
  BY <1>0, <1>1, <1>3, PhoneType DEF LinkReturns, TypeOK, counters
<1>. QED  BY <1>2, <1>3

LEMMA HandleCommandType ==
  ASSUME FilesInv, HandleCommand
  PROVE  FilesInv'
<1>. DEFINE c == Head(toDaemon)
<1>1. c \in Command /\ toDaemon' \in Seq(Command)
  BY DEF HandleCommand, FilesInv, TypeOK
<1>2. \/ c.op = "read" /\ c.path \in Paths /\ DoRead(c.path)
      \/ c.op = "write" /\ c.path \in Paths /\ c.text \in Texts /\ DoWrite(c.path, c.text)
      \/ c.op = "delete" /\ c.path \in Paths /\ DoDelete(c.path)
      \/ c.op = "rename" /\ c.from \in Paths /\ c.to \in Paths /\ DoRename(c.from, c.to)
  BY <1>1 DEF HandleCommand, Command
<1>. HIDE DEF c
<1>3. ASSUME NEW e \in Event, Answer(e) PROVE toPhone' \in Seq(Event)
  <2>1. toPhone' = Append(toPhone, e) \/ toPhone' = toPhone
    BY <1>3 DEF Answer
  <2>2. toPhone \in Seq(Event)
    BY DEF FilesInv, TypeOK
  <2>3. Append(toPhone, e) \in Seq(Event)
    BY <1>3, <2>2, AppendProperties
  <2>. QED  BY <2>1, <2>2, <2>3
<1>4. [type |-> "error"] \in Event
  BY DEF Event
<1>. DEFINE HasTypes == /\ disk' \in [Paths -> Texts \cup {None}]
                        /\ past' \in [Paths -> SUBSET Texts]
                        /\ misnamed' \subseteq Paths /\ missed' \subseteq Paths
                        /\ toPhone' \in Seq(Event)
<1>5. HasTypes
  <2>1. ASSUME NEW p \in Paths, DoRead(p) PROVE HasTypes
    <3>1. disk[p] # None => [type |-> "file_content", path |-> p, text |-> disk[p]] \in Event
      BY DEF Event, FilesInv, TypeOK
    <3>. QED  BY <1>3, <1>4, <2>1, <3>1 DEF DoRead, Error, FilesInv, TypeOK
  <2>2. ASSUME NEW p \in Paths, NEW t \in Texts, DoWrite(p, t) PROVE HasTypes
    <3>1. [type |-> "file_saved", path |-> p] \in Event
      BY DEF Event
    <3>2. toPhone' \in Seq(Event)
      BY <1>3, <1>4, <2>2, <3>1 DEF DoWrite, Error
    <3>3. disk' \in [Paths -> Texts \cup {None}] /\ past' \in [Paths -> SUBSET Texts]
      <4>1. disk \in [Paths -> Texts \cup {None}] /\ past \in [Paths -> SUBSET Texts]
        BY DEF FilesInv, TypeOK
      <4>2. CASE UNCHANGED <<disk, past>>
        BY <4>1, <4>2
      <4>3. CASE disk' = [disk EXCEPT ![p] = t] /\ past' = [past EXCEPT ![p] = @ \cup {t}]
        BY <2>2, <4>1, <4>3
      <4>. QED  BY <2>2, <4>2, <4>3 DEF DoWrite
    <3>4. misnamed' \subseteq Paths /\ missed' \subseteq Paths
      BY <2>2 DEF DoWrite, FilesInv, TypeOK
    <3>. QED  BY <3>2, <3>3, <3>4
  <2>3. ASSUME NEW p \in Paths, DoDelete(p) PROVE HasTypes
    <3>1. [type |-> "file_deleted", path |-> p] \in Event
      BY DEF Event
    <3>. QED  BY <1>3, <1>4, <2>3, <3>1 DEF DoDelete, Error, FilesInv, TypeOK
  <2>4. ASSUME NEW p \in Paths, NEW q \in Paths, DoRename(p, q) PROVE HasTypes
    <3>1. [type |-> "file_renamed", from |-> p, to |-> q] \in Event
      BY DEF Event
    <3>2. disk[p] \in Texts \cup {None} /\ past[p] \subseteq Texts
      BY DEF FilesInv, TypeOK
    <3>. QED  BY <1>3, <1>4, <2>4, <3>1, <3>2 DEF DoRename, Error, FilesInv, TypeOK
  <2>. QED  BY <1>2, <2>1, <2>2, <2>3, <2>4
<1>. QED
  BY <1>1, <1>5 DEF HandleCommand, FilesInv, TypeOK, EditorHasText, counters, histories

LEMMA AgentType ==
  ASSUME FilesInv, NEW p \in Paths, NEW t \in Texts \cup {None}, AgentChanges(p, t)
  PROVE  FilesInv'
<1>1. disk' \in [Paths -> Texts \cup {None}]
  BY DEF AgentChanges, FilesInv, TypeOK
<1>2. past' \in [Paths -> SUBSET Texts]
  BY DEF AgentChanges, FilesInv, TypeOK
<1>3. agentSteps' \in Nat /\ faults' + agentSteps' <= MaxFaults
  BY ConstantsAssumption DEF AgentChanges, FilesInv, TypeOK
<1>. QED
  BY <1>1, <1>2, <1>3 DEF AgentChanges, FilesInv, TypeOK, EditorHasText, counters, histories

\* A content that arrives has its text.
LEMMA ContentType ==
  ASSUME NEW e \in Event, e.type = "file_content"
  PROVE  /\ e.path \in Paths /\ Decode[e.text] \in Texts
         /\ [path |-> e.path, text |-> Decode[e.text]] \in CodeFile
<1>1. e.path \in Paths /\ e.text \in Texts
  BY DEF Event
<1>2. Decode[e.text] \in Texts
  BY <1>1, ConstantsAssumption
<1>. QED  BY <1>1, <1>2 DEF CodeFile

\* What an event leaves of the tabs and the active file.
LEMMA EventTabsType ==
  ASSUME TypeOK, NEW e \in Event,
         \/ e.type = "file_content" /\ FileContent(e)
         \/ e.type = "file_saved" /\ FileSaved(e)
         \/ e.type = "file_deleted" /\ FileDeleted(e)
         \/ e.type = "file_renamed" /\ FileRenamed(e)
         \/ e.type = "error" /\ ErrorEvent
  PROVE  /\ tabs' \in Seq(CodeFile) /\ Len(tabs') <= TabCap
         /\ active' \in CodeFile \cup {None} /\ opening' \in Paths \cup {None}
         /\ mixed' \in BOOLEAN /\ collided' \in BOOLEAN
<1>0. DOMAIN tabs = 1 .. Len(tabs) /\ Len(tabs) \in Nat /\ \A i \in 1 .. Len(tabs) : tabs[i] \in CodeFile
  BY ElementOfSeq, LenProperties DEF TypeOK
<1>1. CASE e.type = "file_content" /\ FileContent(e)
  <2>. DEFINE file == [path |-> e.path, text |-> Decode[e.text]]
              all == Append(Without(e.path), file)
              first == IF Len(all) > TabCap THEN 2 ELSE 1
  <2>1. e.path \in Paths /\ file \in CodeFile
    BY <1>1, ContentType
  <2>2. /\ Without(e.path) \in Seq(CodeFile) /\ Len(Without(e.path)) <= TabCap
        /\ Len(Without(e.path)) \in Nat
    BY <1>0, <2>1, WithoutTabs, LenProperties, ConstantsAssumption DEF TypeOK
  <2>3. all \in Seq(CodeFile) /\ Len(all) \in Nat /\ Len(all) <= TabCap + 1
    BY <2>1, <2>2, ConstantsAssumption
  <2>4. tabs' = SubSeq(all, first, Len(all)) /\ active' = file /\ opening' = None /\ UNCHANGED histories
    BY <1>1 DEF FileContent
  <2>. HIDE DEF all
  <2>5. first \in Int /\ \A i \in first .. Len(all) : all[i] \in CodeFile
    BY <2>3, ElementOfSeq
  <2>6. tabs' \in Seq(CodeFile) /\ Len(tabs') = IF first <= Len(all) THEN Len(all) - first + 1 ELSE 0
    BY <2>3, <2>4, <2>5, SubSeqProperties
  <2>7. Len(tabs') <= TabCap
    BY <2>3, <2>6, ConstantsAssumption
  <2>. QED  BY <2>1, <2>4, <2>6, <2>7 DEF TypeOK, histories
<1>2. CASE e.type = "file_saved" /\ FileSaved(e)
  <2>. DEFINE new(i) == IF tabs[i].path = e.path
                        THEN [tabs[i] EXCEPT !.text = IF active = None THEN @ ELSE active.text]
                        ELSE tabs[i]
  <2>1. \A i \in 1 .. Len(tabs) : new(i) \in CodeFile
    BY <1>0 DEF TypeOK, CodeFile
  <2>2. tabs' = [i \in 1 .. Len(tabs) |-> new(i)]
    BY <1>0, <1>2 DEF FileSaved
  <2>. HIDE DEF new
  <2>3. tabs' \in Seq(CodeFile) /\ Len(tabs') = Len(tabs)
    BY <1>0, <2>1, <2>2
  <2>. QED  BY <1>2, <2>3 DEF FileSaved, TypeOK
<1>3. CASE e.type = "file_deleted" /\ FileDeleted(e)
  <2>1. e.path \in Paths
    BY <1>3 DEF Event
  <2>2. /\ tabs' \in Seq(CodeFile) /\ Len(tabs') \in Nat /\ Len(tabs') <= Len(tabs)
        /\ active' \in CodeFile \cup {None}
    BY <1>3, <2>1, WithoutTabs, ActiveWithoutType, LenProperties DEF FileDeleted, TypeOK
  <2>. QED  BY <1>0, <1>3, <2>2, ConstantsAssumption DEF FileDeleted, TypeOK, histories
<1>4. CASE e.type = "file_renamed" /\ FileRenamed(e)
  <2>1. e.to \in Paths
    BY <1>4 DEF Event
  <2>2. \A f \in CodeFile \cup {None} : Renamed(f, e) \in CodeFile \cup {None}
    BY <2>1 DEF Renamed, CodeFile
  <2>3. \A f \in CodeFile : Renamed(f, e) \in CodeFile
    BY <2>1 DEF Renamed, CodeFile
  <2>4. tabs' = [i \in 1 .. Len(tabs) |-> Renamed(tabs[i], e)]
    BY <1>0, <1>4 DEF FileRenamed
  <2>5. tabs' \in Seq(CodeFile) /\ Len(tabs') = Len(tabs)
    BY <1>0, <2>3, <2>4
  <2>. QED  BY <1>4, <2>2, <2>5 DEF FileRenamed, TypeOK
<1>5. CASE e.type = "error" /\ ErrorEvent
  BY <1>5 DEF ErrorEvent, TypeOK, histories
<1>. QED  BY <1>1, <1>2, <1>3, <1>4, <1>5

LEMMA HandleEventType ==
  ASSUME FilesInv, HandleEvent
  PROVE  FilesInv'
<1>. DEFINE e == Head(toPhone)
<1>1. e \in Event /\ toPhone' \in Seq(Event)
  BY DEF HandleEvent, FilesInv, TypeOK
<1>2. \/ e.type = "file_content" /\ FileContent(e)
      \/ e.type = "file_saved" /\ FileSaved(e)
      \/ e.type = "file_deleted" /\ FileDeleted(e)
      \/ e.type = "file_renamed" /\ FileRenamed(e)
      \/ e.type = "error" /\ ErrorEvent
  BY DEF HandleEvent
<1>. HIDE DEF e
<1>3. /\ tabs' \in Seq(CodeFile) /\ Len(tabs') <= TabCap
      /\ active' \in CodeFile \cup {None} /\ opening' \in Paths \cup {None}
      /\ mixed' \in BOOLEAN /\ collided' \in BOOLEAN
  BY <1>1, <1>2, EventTabsType DEF FilesInv
<1>4. code' \in Code \cup {None} /\ EditorHasText'
  BY <1>3, RebuildType DEF HandleEvent, FilesInv, TypeOK
<1>. QED
  BY <1>1, <1>3, <1>4 DEF HandleEvent, FilesInv, TypeOK, daemonVars, counters

LEMMA FilesNext ==
  ASSUME FilesInv, [Next]_vars
  PROVE  FilesInv'
<1>1. CASE OtherEvent
  <2>1. code' \in Code \cup {None} /\ EditorHasText'
    BY <1>1, RebuildType DEF OtherEvent, FilesInv, TypeOK
  <2>. QED  BY <1>1, <2>1, PhoneType DEF OtherEvent, FilesInv, TypeOK, counters
<1>2. CASE UNCHANGED vars
  BY <1>2 DEF vars, FilesInv, TypeOK, EditorHasText, daemonVars, counters, histories
<1>. QED
  BY <1>1, <1>2, UserType, HandleCommandType, HandleEventType, LinkType, AgentType DEF Next

\* Whatever the user, the agent and the daemon do, at most TabCap files are open
\* and everything shown and under way has its type.
THEOREM FilesTypeCorrect == Spec => []TypeOK
<1>1. Init => FilesInv
  <2>. SUFFICES ASSUME Init PROVE FilesInv
    OBVIOUS
  <2>1. disk \in [Paths -> Texts \cup {None}]
    BY ConstantsAssumption DEF Init
  <2>2. past \in [Paths -> SUBSET Texts]
    BY <2>1 DEF Init
  <2>3. << >> \in Seq(Command) /\ << >> \in Seq(Event) /\ << >> \in Seq(CodeFile) /\ Len(<< >>) = 0
    OBVIOUS
  <2>4. /\ 0 \in 0 .. MaxCommands /\ 0 \in 0 .. MaxEdits /\ 0 + 0 <= MaxFaults /\ 0 <= TabCap
    BY ConstantsAssumption
  <2>5. /\ tabs \in Seq(CodeFile) /\ Len(tabs) <= TabCap
        /\ toDaemon \in Seq(Command) /\ toPhone \in Seq(Event)
    BY <2>3, <2>4 DEF Init
  <2>6. /\ taps \in 0 .. MaxCommands /\ edits \in 0 .. MaxEdits
        /\ faults \in Nat /\ agentSteps \in Nat /\ faults + agentSteps <= MaxFaults
    BY <2>4 DEF Init
  <2>7. EditorHasText
    BY DEF Init, EditorHasText
  <2>. QED  BY <2>1, <2>2, <2>5, <2>6, <2>7 DEF Init, FilesInv, TypeOK
<1>2. FilesInv /\ [Next]_vars => FilesInv'
  BY FilesNext
<1>3. FilesInv => TypeOK
  BY DEF FilesInv
<1>. QED  BY <1>1, <1>2, <1>3, PTL DEF Spec

-----------------------------------------------------------------------------
(* The editor's file has a tab and its spinner an answer to wait for *)

LEMMA ClosedTabsAreConsistent ==
  ASSUME TypeOK, TabsAreConsistent, NEW p \in Paths,
         tabs' = Without(p), active' = ActiveWithout(p), collided' = collided
  PROVE  TabsAreConsistent'
<1>. DEFINE w == Without(p)
<1>1. /\ w \in Seq(CodeFile)
      /\ \A k \in 1 .. Len(tabs) : tabs[k].path # p => \E i \in 1 .. Len(w) : w[i] = tabs[k]
      /\ UniquePaths(tabs) => UniquePaths(w)
  BY WithoutTabs DEF TypeOK
<1>2. DOMAIN tabs = 1 .. Len(tabs) /\ DOMAIN w = 1 .. Len(w) /\ Len(w) \in Nat
  BY <1>1, LenProperties DEF TypeOK
<1>3. active' = None \/ \E i \in 1 .. Len(w) : w[i] = active'
  <2>1. CASE active # None /\ active.path = p
    <3>1. w # << >> => Len(w) \in 1 .. Len(w) /\ active' = w[Len(w)]
      BY <1>1, <1>2, <2>1 DEF ActiveWithout, Last
    <3>. QED  BY <2>1, <3>1 DEF ActiveWithout
  <2>2. CASE active # None /\ active.path # p
    <3>1. PICK k \in 1 .. Len(tabs) : tabs[k] = active
      BY <1>2, <2>2 DEF TabsAreConsistent
    <3>. QED  BY <1>1, <2>2, <3>1 DEF ActiveWithout
  <2>. QED  BY <2>1, <2>2 DEF ActiveWithout
<1>4. collided' \/ UniquePaths(w)
  BY <1>1, <1>2 DEF TabsAreConsistent, UniquePaths
<1>. QED  BY <1>2, <1>3, <1>4 DEF TabsAreConsistent, UniquePaths

LEMMA ContentIsConsistent ==
  ASSUME TypeOK, TabsAreConsistent, NEW e \in Event, e.type = "file_content", FileContent(e)
  PROVE  TabsAreConsistent'
<1>. DEFINE file == [path |-> e.path, text |-> Decode[e.text]]
            w == Without(e.path)
            all == Append(w, file)
            first == IF Len(all) > TabCap THEN 2 ELSE 1
<1>1. e.path \in Paths /\ file \in CodeFile /\ file.path = e.path
  BY ContentType
<1>2. /\ w \in Seq(CodeFile) /\ Len(w) <= Len(tabs) /\ Len(tabs) <= TabCap
      /\ \A i \in 1 .. Len(w) : w[i].path # e.path
      /\ UniquePaths(tabs) => UniquePaths(w)
      /\ Len(w) \in Nat /\ Len(tabs) \in Nat /\ DOMAIN tabs = 1 .. Len(tabs)
  BY <1>1, WithoutTabs, LenProperties DEF TypeOK
<1>. HIDE DEF w
<1>3. /\ all \in Seq(CodeFile) /\ Len(all) = Len(w) + 1
      /\ \A i \in 1 .. Len(w) : all[i] = w[i]
      /\ all[Len(all)] = file
  BY <1>1, <1>2
<1>4. /\ tabs' = SubSeq(all, first, Len(all)) /\ active' = file /\ collided' = collided
  BY DEF FileContent, w, histories
<1>. HIDE DEF all, file
<1>5. first \in {1, 2} /\ first <= Len(all) /\ \A i \in first .. Len(all) : all[i] \in CodeFile
  BY <1>2, <1>3, ElementOfSeq, ConstantsAssumption
<1>. HIDE DEF first
<1>6. /\ tabs' \in Seq(CodeFile) /\ Len(tabs') = Len(all) - first + 1
      /\ \A i \in 1 .. Len(all) - first + 1 : tabs'[i] = all[first + i - 1]
  BY <1>3, <1>4, <1>5, SubSeqProperties
<1>7. DOMAIN tabs' = 1 .. Len(tabs') /\ Len(tabs') \in 1 .. Len(tabs')
  BY <1>2, <1>3, <1>5, <1>6, LenProperties
<1>8. tabs'[Len(tabs')] = active'
  BY <1>2, <1>3, <1>4, <1>5, <1>6, <1>7
<1>9. ASSUME ~collided, NEW i \in 1 .. Len(tabs'), NEW j \in 1 .. Len(tabs'),
             tabs'[i].path = tabs'[j].path
      PROVE  i = j
  <2>. DEFINE k == first + i - 1
              l == first + j - 1
  <2>1. k \in 1 .. Len(w) + 1 /\ l \in 1 .. Len(w) + 1 /\ tabs'[i] = all[k] /\ tabs'[j] = all[l]
    BY <1>2, <1>3, <1>5, <1>6
  <2>2. UniquePaths(w)
    BY <1>2, <1>9 DEF TabsAreConsistent, UniquePaths
  <2>3. k \in 1 .. Len(w) \/ k = Len(w) + 1
    BY <1>2, <2>1
  <2>4. l \in 1 .. Len(w) \/ l = Len(w) + 1
    BY <1>2, <2>1
  <2>5. k = l
    <3>. HIDE DEF k, l
    <3>. QED  BY <1>1, <1>2, <1>3, <1>9, <2>1, <2>2, <2>3, <2>4 DEF UniquePaths
  <2>. QED  BY <1>5, <2>5
<1>. QED  BY <1>4, <1>7, <1>8, <1>9 DEF TabsAreConsistent

LEMMA SavedIsConsistent ==
  ASSUME TypeOK, TabsAreConsistent, NEW e, FileSaved(e)
  PROVE  TabsAreConsistent'
<1>1. DOMAIN tabs = 1 .. Len(tabs) /\ \A i \in 1 .. Len(tabs) : tabs[i] \in CodeFile
  BY ElementOfSeq, LenProperties DEF TypeOK
<1>2. /\ active' = active /\ collided' = collided /\ DOMAIN tabs' = DOMAIN tabs
      /\ \A i \in DOMAIN tabs :
           tabs'[i] = IF tabs[i].path = e.path
                      THEN [tabs[i] EXCEPT !.text = IF active = None THEN @ ELSE active.text]
                      ELSE tabs[i]
  BY DEF FileSaved
<1>3. \A i \in DOMAIN tabs : tabs'[i].path = tabs[i].path
  BY <1>1, <1>2 DEF CodeFile
<1>4. ASSUME NEW i \in DOMAIN tabs, tabs[i] = active, active # None PROVE tabs'[i] = active
  <2>1. tabs[i] \in CodeFile
    BY <1>1
  <2>. QED  BY <1>2, <1>4, <2>1 DEF CodeFile
<1>. QED  BY <1>2, <1>3, <1>4 DEF TabsAreConsistent

LEMMA RenamedIsConsistent ==
  ASSUME TypeOK, TabsAreConsistent, NEW e, FileRenamed(e)
  PROVE  TabsAreConsistent'
<1>1. DOMAIN tabs = 1 .. Len(tabs) /\ \A i \in 1 .. Len(tabs) : tabs[i] \in CodeFile
  BY ElementOfSeq, LenProperties DEF TypeOK
<1>2. /\ active' = Renamed(active, e) /\ DOMAIN tabs' = DOMAIN tabs
      /\ \A i \in DOMAIN tabs : tabs'[i] = Renamed(tabs[i], e)
      /\ collided' = (collided \/ (IsOpen(e.from) /\ IsOpen(e.to)))
  BY DEF FileRenamed
<1>3. active' = None \/ \E i \in DOMAIN tabs' : tabs'[i] = active'
  <2>1. CASE active = None
    BY <1>2, <2>1 DEF Renamed
  <2>2. CASE active # None
    BY <1>2, <2>2 DEF TabsAreConsistent
  <2>. QED  BY <2>1, <2>2
<1>4. ASSUME ~collided', NEW i \in DOMAIN tabs, NEW j \in DOMAIN tabs,
             tabs'[i].path = tabs'[j].path
      PROVE  i = j
  <2>1. tabs[i] # None /\ tabs[j] # None
    BY <1>1, ConstantsAssumption
  <2>2. \A k \in {i, j} :
          tabs'[k].path = IF tabs[k].path = e.from THEN e.to ELSE tabs[k].path
    <3>1. tabs[i] \in CodeFile /\ tabs[j] \in CodeFile
      BY <1>1
    <3>. QED  BY <1>2, <2>1, <3>1 DEF Renamed, CodeFile
  <2>3. tabs[i].path = tabs[j].path => i = j
    BY <1>2, <1>4 DEF TabsAreConsistent
  <2>. QED  BY <1>2, <1>4, <2>2, <2>3 DEF IsOpen
<1>. QED  BY <1>2, <1>3, <1>4 DEF TabsAreConsistent

LEMMA TabsNext ==
  ASSUME TypeOK, TabsAreConsistent, [Next]_vars
  PROVE  TabsAreConsistent'
<1>. DEFINE Same == UNCHANGED <<tabs, active, collided>>
<1>1. ASSUME Same PROVE TabsAreConsistent'
  BY <1>1 DEF TabsAreConsistent
<1>2. ASSUME NEW p \in Paths, OpenFromBrowser(p) \/ SwitchTab(p) PROVE TabsAreConsistent'
  <2>1. SwitchOpenFile(p)
    BY <1>2 DEF OpenFromBrowser, SwitchTab
  <2>2. tabs' = tabs /\ collided' = collided
        /\ (active' = active \/ (IsOpen(p) /\ active' = FirstTab(p)))
    BY <2>1 DEF SwitchOpenFile, histories
  <2>3. DOMAIN tabs = 1 .. Len(tabs)
    BY LenProperties DEF TypeOK
  <2>4. IsOpen(p) => \E k \in DOMAIN tabs : FirstTab(p) = tabs[k]
    BY <2>3, FirstTabOfPath DEF TypeOK
  <2>. QED  BY <2>2, <2>4 DEF TabsAreConsistent
<1>3. ASSUME NEW p \in Paths, CloseOpenFile(p) PROVE TabsAreConsistent'
  BY <1>3, ClosedTabsAreConsistent DEF CloseOpenFile, histories
<1>4. CASE HandleEvent
  <2>. DEFINE e == Head(toPhone)
  <2>1. e \in Event
    BY <1>4 DEF HandleEvent, TypeOK
  <2>2. \/ e.type = "file_content" /\ FileContent(e)
        \/ FileSaved(e)
        \/ e.type = "file_deleted" /\ FileDeleted(e)
        \/ FileRenamed(e)
        \/ ErrorEvent
    BY <1>4 DEF HandleEvent
  <2>. HIDE DEF e
  <2>3. ASSUME e.type = "file_deleted", FileDeleted(e) PROVE TabsAreConsistent'
    <3>1. e.path \in Paths
      BY <2>1, <2>3 DEF Event
    <3>. QED  BY <2>3, <3>1, ClosedTabsAreConsistent DEF FileDeleted, histories
  <2>4. ASSUME ErrorEvent PROVE TabsAreConsistent'
    BY <1>1, <2>4 DEF ErrorEvent, histories
  <2>. QED
    BY <2>1, <2>2, <2>3, <2>4, ContentIsConsistent, SavedIsConsistent, RenamedIsConsistent
<1>5. ASSUME User PROVE TabsAreConsistent'
  <2>1. \/ Same \/ ReplaceSession
        \/ \E p \in Paths : OpenFromBrowser(p) \/ SwitchTab(p) \/ CloseOpenFile(p)
    BY <1>5 DEF User, SelectFiles, SelectEditor, Revert, SaveFile, DeleteFile, CreateFile,
                RenameFile, EditText, End, Reconnect, OpenHistory, histories
  <2>2. ASSUME ReplaceSession PROVE TabsAreConsistent'
    BY <2>2 DEF ReplaceSession, TabsAreConsistent
  <2>. QED  BY <1>1, <1>2, <1>3, <2>1, <2>2
<1>6. HandleCommand \/ OtherEvent \/ LinkLost \/ LinkReturns \/ UNCHANGED vars => Same
  BY DEF HandleCommand, OtherEvent, LinkLost, LinkReturns, vars, histories
<1>7. ASSUME NEW p \in Paths, NEW t \in Texts \cup {None}, AgentChanges(p, t) PROVE Same
  BY <1>7 DEF AgentChanges, histories
<1>. QED  BY <1>1, <1>4, <1>5, <1>6, <1>7 DEF Next

LEMMA SendKeeps ==
  ASSUME TypeOK, NEW cs \in Seq(Command), Send(cs)
  PROVE  /\ \A c : Contains(toDaemon, c) => Contains(toDaemon', c)
         /\ link = "up" /\ cs # << >> => Contains(toDaemon', cs[Len(cs)])
<1>1. CASE link = "up"
  <2>1. toDaemon' = toDaemon \o cs /\ toDaemon \in Seq(Command)
    BY <1>1 DEF Send, TypeOK
  <2>2. /\ Len(toDaemon') = Len(toDaemon) + Len(cs)
        /\ Len(toDaemon) \in Nat /\ Len(cs) \in Nat
        /\ \A i \in 1 .. Len(toDaemon) : toDaemon'[i] = toDaemon[i]
        /\ \A i \in 1 .. Len(cs) : toDaemon'[Len(toDaemon) + i] = cs[i]
    <3>. HIDE DEF Send
    <3>. QED  BY <2>1, ConcatProperties, LenProperties
  <2>3. ASSUME NEW c, Contains(toDaemon, c) PROVE Contains(toDaemon', c)
    <3>1. PICK i \in 1 .. Len(toDaemon) : toDaemon[i] = c
      BY <2>3 DEF Contains
    <3>2. i \in 1 .. Len(toDaemon') /\ toDaemon'[i] = c
      BY <2>2, <3>1
    <3>. QED  BY <3>2 DEF Contains
  <2>4. ASSUME cs # << >> PROVE Contains(toDaemon', cs[Len(cs)])
    <3>1. Len(cs) \in 1 .. Len(cs)
      BY <2>2, <2>4, EmptySeq
    <3>2. Len(toDaemon) + Len(cs) \in 1 .. Len(toDaemon')
          /\ toDaemon'[Len(toDaemon) + Len(cs)] = cs[Len(cs)]
      BY <2>2, <3>1
    <3>. QED  BY <3>2 DEF Contains
  <2>. QED  BY <2>3, <2>4
<1>2. CASE link # "up"
  BY <1>2 DEF Send
<1>. QED  BY <1>1, <1>2

LEMMA SendKeepsAwaited ==
  ASSUME TypeOK, OpeningIsAwaited, NEW cs \in Seq(Command), Send(cs),
         UNCHANGED <<opening, toPhone, missed>>
  PROVE  OpeningIsAwaited'
<1>1. Contains(toDaemon, Read(opening)) => Contains(toDaemon', Read(opening))
  BY SendKeeps
<1>2. Read(opening)' = Read(opening)
  BY DEF Read
<1>. QED  BY <1>1, <1>2 DEF OpeningIsAwaited

LEMMA SendAndOpenIsAwaited ==
  ASSUME TypeOK, NEW cs \in Seq(Command), NEW p \in Paths, cs # << >>, cs[Len(cs)] = Read(p),
         SendAndOpen(cs, p)
  PROVE  OpeningIsAwaited'
<1>1. CASE link = "up"
  <2>1. opening' = p /\ Contains(toDaemon', Read(p))
    BY <1>1, SendKeeps DEF SendAndOpen
  <2>2. Read(opening)' = Read(p)
    BY <2>1 DEF Read
  <2>. QED  BY <2>1, <2>2 DEF OpeningIsAwaited
<1>2. CASE link = "down"
  BY <1>2 DEF SendAndOpen, OpeningIsAwaited
<1>3. CASE link = "closed"
  BY <1>3 DEF SendAndOpen, OpeningIsAwaited
<1>. QED  BY <1>1, <1>2, <1>3 DEF TypeOK

\* What is lost of the awaited is known as missed.
LEMMA LossKeepsAwaited ==
  ASSUME TypeOK, OpeningIsAwaited, FramesAreLost, opening' = opening
  PROVE  OpeningIsAwaited'
<1>. SUFFICES ASSUME opening # None PROVE OpeningIsAwaited'
  BY DEF OpeningIsAwaited
<1>1. PICK n \in 0 .. Len(toDaemon), m \in 0 .. Len(toPhone) :
        /\ toDaemon' = SubSeq(toDaemon, 1, n) /\ toPhone' = SubSeq(toPhone, 1, m)
        /\ missed' = missed
             \cup {p \in Paths : \E i \in n + 1 .. Len(toDaemon) : toDaemon[i] = Read(p)}
             \cup {p \in Paths : \E i \in m + 1 .. Len(toPhone) :
                      toPhone[i].type = "file_content" /\ toPhone[i].path = p}
  BY DEF FramesAreLost
<1>2. /\ toDaemon \in Seq(Command) /\ toPhone \in Seq(Event) /\ opening \in Paths
      /\ Len(toDaemon) \in Nat /\ Len(toPhone) \in Nat /\ DOMAIN toPhone = 1 .. Len(toPhone)
  BY LenProperties DEF TypeOK
<1>3. Read(opening)' = Read(opening)
  BY DEF Read
<1>4. CASE Contains(toDaemon, Read(opening))
  <2>1. PICK i \in 1 .. Len(toDaemon) : toDaemon[i] = Read(opening)
    BY <1>4 DEF Contains
  <2>2. CASE i <= n
    <3>1. \A k \in 1 .. n : toDaemon[k] \in Command
      BY <1>2, ElementOfSeq
    <3>2. Len(toDaemon') = n /\ toDaemon'[i] = toDaemon[i]
      <4>1. Len(toDaemon') = IF 1 <= n THEN n - 1 + 1 ELSE 0
        BY <1>1, <1>2, <3>1, SubSeqProperties
      <4>2. \A k \in 1 .. n - 1 + 1 : toDaemon'[k] = toDaemon[1 + k - 1]
        BY <1>1, <1>2, <3>1, SubSeqProperties
      <4>. QED  BY <2>1, <2>2, <4>1, <4>2
    <3>3. Contains(toDaemon', Read(opening))
      BY <2>1, <2>2, <3>2 DEF Contains
    <3>. QED  BY <1>3, <3>3 DEF OpeningIsAwaited
  <2>3. CASE ~(i <= n)
    <3>1. i \in n + 1 .. Len(toDaemon)
      BY <1>2, <2>1, <2>3
    <3>. QED  BY <1>1, <1>2, <2>1, <3>1 DEF OpeningIsAwaited
  <2>. QED  BY <2>2, <2>3
<1>5. ASSUME NEW i \in DOMAIN toPhone, toPhone[i].type = "file_content", toPhone[i].path = opening
      PROVE  OpeningIsAwaited'
  <2>1. i \in 1 .. Len(toPhone)
    BY <1>2
  <2>2. CASE i <= m
    <3>1. \A k \in 1 .. m : toPhone[k] \in Event
      BY <1>2, ElementOfSeq
    <3>2. DOMAIN toPhone' = 1 .. m /\ toPhone'[i] = toPhone[i]
      <4>1. toPhone' \in Seq(Event) /\ Len(toPhone') = IF 1 <= m THEN m - 1 + 1 ELSE 0
        BY <1>1, <1>2, <3>1, SubSeqProperties
      <4>2. \A k \in 1 .. m - 1 + 1 : toPhone'[k] = toPhone[1 + k - 1]
        BY <1>1, <1>2, <3>1, SubSeqProperties
      <4>3. DOMAIN toPhone' = 1 .. Len(toPhone')
        BY <4>1, LenProperties
      <4>. QED  BY <2>1, <2>2, <4>1, <4>2, <4>3
    <3>3. i \in DOMAIN toPhone'
      BY <2>1, <2>2, <3>2
    <3>. QED  BY <1>5, <3>2, <3>3 DEF OpeningIsAwaited
  <2>3. CASE ~(i <= m)
    <3>1. i \in m + 1 .. Len(toPhone)
      BY <1>2, <2>1, <2>3
    <3>. QED  BY <1>1, <1>2, <1>5, <3>1 DEF OpeningIsAwaited
  <2>. QED  BY <2>2, <2>3
<1>6. CASE opening \in missed
  BY <1>1, <1>6 DEF OpeningIsAwaited
<1>. QED  BY <1>4, <1>5, <1>6 DEF OpeningIsAwaited

LEMMA CommandKeepsAwaited ==
  ASSUME TypeOK, OpeningIsAwaited, HandleCommand, opening # None
  PROVE  OpeningIsAwaited'
<1>. DEFINE c == Head(toDaemon)
<1>1. /\ toDaemon # << >> /\ toDaemon' = Tail(toDaemon) /\ opening' = opening
      /\ toDaemon \in Seq(Command) /\ toPhone \in Seq(Event)
      /\ opening \in Paths
  BY DEF HandleCommand, TypeOK
<1>2. Read(opening)' = Read(opening)
  BY <1>1 DEF Read
<1>3. /\ missed \subseteq missed' /\ \E e : Answer(e)
  BY DEF HandleCommand, DoRead, DoWrite, DoDelete, DoRename, Error
<1>4. ASSUME NEW i \in DOMAIN toPhone
      PROVE  i \in DOMAIN toPhone' /\ toPhone'[i] = toPhone[i]
  <2>1. toPhone' = toPhone \/ \E e : toPhone' = Append(toPhone, e)
    BY <1>3 DEF Answer
  <2>2. DOMAIN toPhone = 1 .. Len(toPhone) /\ Len(toPhone) \in Nat
    BY <1>1, LenProperties
  <2>3. ASSUME NEW e, toPhone' = Append(toPhone, e)
        PROVE  i \in DOMAIN toPhone' /\ toPhone'[i] = toPhone[i]
    <3>1. DOMAIN toPhone' = 1 .. Len(toPhone) + 1 /\ \A k \in 1 .. Len(toPhone) : toPhone'[k] = toPhone[k]
      BY <1>1, <2>3, AppendProperties, LenProperties
    <3>. QED  BY <1>4, <2>2, <3>1
  <2>. QED  BY <1>4, <2>1, <2>3
<1>5. CASE \E i \in DOMAIN toPhone : toPhone[i].type = "file_content" /\ toPhone[i].path = opening
  BY <1>1, <1>4, <1>5 DEF OpeningIsAwaited
<1>6. CASE opening \in missed
  BY <1>1, <1>3, <1>6 DEF OpeningIsAwaited
<1>7. CASE Contains(toDaemon, Read(opening))
  <2>1. PICK i \in 1 .. Len(toDaemon) : toDaemon[i] = Read(opening)
    BY <1>7 DEF Contains
  <2>2. CASE i = 1
    <3>1. c = Read(opening)
      BY <1>1, <2>1, <2>2
    <3>2. DoRead(opening)
      BY <3>1 DEF HandleCommand, Read
    <3>. DEFINE e == [type |-> "file_content", path |-> opening, text |-> disk[opening]]
    <3>3. CASE opening \in missed'
      BY <1>1, <3>3 DEF OpeningIsAwaited
    <3>4. CASE opening \notin missed'
      <4>1. toPhone' = Append(toPhone, e)
        BY <3>2, <3>4 DEF DoRead, Answer
      <4>2. Len(toPhone) + 1 \in DOMAIN toPhone' /\ toPhone'[Len(toPhone) + 1] = e
        <5>. HIDE DEF e
        <5>. QED  BY <1>1, <4>1, AppendProperties, LenProperties
      <4>3. e.type = "file_content" /\ e.path = opening'
        BY <1>1
      <4>. HIDE DEF e
      <4>. QED  BY <4>2, <4>3 DEF OpeningIsAwaited
    <3>. QED  BY <3>3, <3>4
  <2>3. CASE i # 1
    <3>1. i - 1 \in 1 .. Len(toDaemon') /\ toDaemon'[i - 1] = Read(opening)
      BY <1>1, <2>1, <2>3
    <3>2. Contains(toDaemon', Read(opening))
      BY <3>1 DEF Contains
    <3>. QED  BY <1>2, <3>2 DEF OpeningIsAwaited
  <2>. QED  BY <2>2, <2>3
<1>. QED  BY <1>5, <1>6, <1>7 DEF OpeningIsAwaited

LEMMA EventKeepsAwaited ==
  ASSUME TypeOK, OpeningIsAwaited, HandleEvent
  PROVE  OpeningIsAwaited'
<1>. DEFINE e == Head(toPhone)
<1>1. /\ toPhone # << >> /\ toPhone' = Tail(toPhone) /\ toPhone \in Seq(Event)
      /\ UNCHANGED <<toDaemon, missed>>
  BY DEF HandleEvent, TypeOK
<1>2. CASE e.type = "file_content"
  <2>1. opening' = None
    BY <1>2 DEF HandleEvent, FileContent
  <2>. QED  BY <2>1 DEF OpeningIsAwaited
<1>3. CASE e.type # "file_content"
  <2>1. opening' = opening
    BY <1>3 DEF HandleEvent, FileSaved, FileDeleted, FileRenamed, ErrorEvent, histories
  <2>2. Read(opening)' = Read(opening)
    BY <2>1 DEF Read
  <2>3. ASSUME NEW i \in DOMAIN toPhone, toPhone[i].type = "file_content", toPhone[i].path = opening
        PROVE  \E k \in DOMAIN toPhone' :
                 toPhone'[k].type = "file_content" /\ toPhone'[k].path = opening
    <3>1. i \in 1 .. Len(toPhone) /\ i # 1 /\ DOMAIN toPhone' = 1 .. Len(toPhone) - 1
      BY <1>1, <1>3, <2>3, LenProperties, HeadTailProperties
    <3>2. i - 1 \in DOMAIN toPhone' /\ toPhone'[i - 1] = toPhone[i]
      BY <1>1, <3>1
    <3>. QED  BY <2>3, <3>2
  <2>. QED  BY <1>1, <2>1, <2>2, <2>3 DEF OpeningIsAwaited
<1>. QED  BY <1>2, <1>3

LEMMA AwaitedNext ==
  ASSUME TypeOK, OpeningIsAwaited, [Next]_vars
  PROVE  OpeningIsAwaited'
<1>1. ASSUME UNCHANGED <<opening, toDaemon, toPhone, missed>> PROVE OpeningIsAwaited'
  <2>1. Read(opening)' = Read(opening) /\ (Contains(toDaemon, Read(opening)))' = Contains(toDaemon, Read(opening))
    BY <1>1 DEF Read, Contains
  <2>. QED  BY <1>1, <2>1 DEF OpeningIsAwaited
<1>2. ASSUME User PROVE OpeningIsAwaited'
  <2>1. CASE SaveFile
    <3>1. code \in Code /\ active \in CodeFile
      BY <2>1 DEF SaveFile, Visible, Dirty, TypeOK
    <3>2. [op |-> "write", path |-> active.path, text |-> code.text] \in Command
      BY <3>1 DEF Command, Code, CodeFile
    <3>3. << [op |-> "write", path |-> active.path, text |-> code.text] >> \in Seq(Command)
      BY <3>2
    <3>. QED  BY <2>1, <3>3, SendKeepsAwaited DEF SaveFile
  <2>2. ASSUME NEW p \in Paths, OpenFromBrowser(p) \/ SwitchTab(p) PROVE OpeningIsAwaited'
    <3>1. SwitchOpenFile(p)
      BY <2>2 DEF OpenFromBrowser, SwitchTab
    <3>2. <<Read(p)>> \in Seq(Command) /\ <<Read(p)>> # << >> /\ <<Read(p)>>[Len(<<Read(p)>>)] = Read(p)
      BY DEF Read, Command
    <3>3. opening' = None \/ SendAndOpen(<<Read(p)>>, p)
      BY <3>1 DEF SwitchOpenFile
    <3>4. opening' = None => OpeningIsAwaited'
      BY DEF OpeningIsAwaited
    <3>. QED  BY <3>2, <3>3, <3>4, SendAndOpenIsAwaited
  <2>3. ASSUME NEW p \in Paths, DeleteFile(p) PROVE OpeningIsAwaited'
    <3>1. << [op |-> "delete", path |-> p] >> \in Seq(Command)
      BY DEF Command
    <3>. QED  BY <2>3, <3>1, SendKeepsAwaited DEF DeleteFile
  <2>4. ASSUME NEW p \in Paths, NEW t \in Texts, CreateFile(p, t) PROVE OpeningIsAwaited'
    <3>. DEFINE cs == <<[op |-> "write", path |-> p, text |-> t], Read(p)>>
    <3>1. [op |-> "write", path |-> p, text |-> t] \in Command /\ Read(p) \in Command
      BY DEF Command, Read
    <3>2. cs \in Seq(Command) /\ cs # << >> /\ cs[Len(cs)] = Read(p)
      BY <3>1
    <3>3. SendAndOpen(cs, p)
      BY <2>4 DEF CreateFile
    <3>. HIDE DEF cs
    <3>. QED  BY <3>2, <3>3, SendAndOpenIsAwaited
  <2>5. ASSUME NEW p \in Paths, NEW q \in Paths, RenameFile(p, q) PROVE OpeningIsAwaited'
    <3>. DEFINE cs == <<[op |-> "rename", from |-> p, to |-> q], Read(q)>>
    <3>1. [op |-> "rename", from |-> p, to |-> q] \in Command /\ Read(q) \in Command
      BY DEF Command, Read
    <3>2. cs \in Seq(Command) /\ cs # << >> /\ cs[Len(cs)] = Read(q)
      BY <3>1
    <3>3. SendAndOpen(cs, q)
      BY <2>5 DEF RenameFile
    <3>. HIDE DEF cs
    <3>. QED  BY <3>2, <3>3, SendAndOpenIsAwaited
  <2>6. \/ UNCHANGED <<opening, toDaemon, toPhone, missed>>
        \/ SaveFile
        \/ \E p \in Paths : OpenFromBrowser(p) \/ SwitchTab(p) \/ DeleteFile(p)
        \/ \E p \in Paths, t \in Texts : CreateFile(p, t)
        \/ \E p, q \in Paths : RenameFile(p, q)
        \/ End \/ Reconnect \/ OpenHistory
    BY <1>2 DEF User, SelectFiles, SelectEditor, Revert, CloseOpenFile, EditText
  <2>7. ASSUME End PROVE OpeningIsAwaited'
    BY <2>7, LossKeepsAwaited DEF End
  <2>8. ASSUME Reconnect \/ OpenHistory PROVE OpeningIsAwaited'
    BY <2>8 DEF Reconnect, OpenHistory, ReplaceSession, OpeningIsAwaited
  <2>. QED  BY <1>1, <2>1, <2>2, <2>3, <2>4, <2>5, <2>6, <2>7, <2>8
<1>3. CASE HandleCommand
  <2>1. opening' = opening
    BY <1>3 DEF HandleCommand
  <2>. QED  BY <1>3, <2>1, CommandKeepsAwaited DEF OpeningIsAwaited
<1>4. OtherEvent \/ LinkReturns \/ UNCHANGED vars
        => UNCHANGED <<opening, toDaemon, toPhone, missed>>
  BY DEF OtherEvent, LinkReturns, vars
<1>5. ASSUME NEW p \in Paths, NEW t \in Texts \cup {None}, AgentChanges(p, t)
      PROVE  UNCHANGED <<opening, toDaemon, toPhone, missed>>
  BY <1>5 DEF AgentChanges
<1>6. CASE LinkLost
  BY <1>6, LossKeepsAwaited DEF LinkLost
<1>. QED  BY <1>1, <1>2, <1>3, <1>4, <1>5, <1>6, EventKeepsAwaited DEF Next

\* Whatever order answers, closings, deletions, renames, losses of the link and new
\* sessions come in, and for any files and any number of tabs: the file in the editor
\* has its tab, no file has two tabs unless renamed onto an open one, and a spinner has
\* an answer to wait for unless the reading failed or was lost.
THEOREM EditorIsConsistentAlways == Spec => []EditorIsConsistent
<1>1. Init => EditorIsConsistent
  BY DEF Init, EditorIsConsistent, TabsAreConsistent, OpeningIsAwaited
<1>2. TypeOK /\ EditorIsConsistent /\ [Next]_vars => EditorIsConsistent'
  BY TabsNext, AwaitedNext DEF EditorIsConsistent
<1>. QED  BY <1>1, <1>2, FilesTypeCorrect, PTL DEF Spec

-----------------------------------------------------------------------------
(* Tabs show what their files have contained *)

\* What a tab of each file may show by now.
Showable == [p \in Paths |-> TextsOf(p)]

LEMMA ShowableType ==
  ASSUME past \in [Paths -> SUBSET Texts]
  PROVE  /\ Showable \in [Paths -> SUBSET Texts]
         /\ \A p \in Paths : Showable[p] = TextsOf(p)
<1>1. \A p \in Paths : TextsOf(p) \subseteq Texts
  BY ConstantsAssumption DEF TextsOf
<1>. QED  BY <1>1 DEF Showable

\* It never becomes less.
LEMMA ShowableGrows ==
  ASSUME past \in [Paths -> SUBSET Texts], past' \in [Paths -> SUBSET Texts],
         \A p \in Paths : past[p] \subseteq past'[p], misnamed \subseteq misnamed'
  PROVE  /\ Showable' \in [Paths -> SUBSET Texts]
         /\ \A p \in Paths : Showable[p] \subseteq Showable'[p]
         /\ \A p \in Paths : p \in misnamed' => Showable'[p] = Texts
         /\ \A p \in Paths, t \in Texts : t \in past'[p] => Decode[t] \in Showable'[p]
         /\ \A p, q \in Paths :
              past[p] \subseteq past'[q] /\ (p \in misnamed => q \in misnamed')
              => Showable[p] \subseteq Showable'[q]
<1>. DEFINE S(p) == IF p \in misnamed THEN Texts ELSE {Decode[t] : t \in past[p]}
            T(p) == IF p \in misnamed' THEN Texts ELSE {Decode[t] : t \in past'[p]}
<1>1. /\ \A p \in Paths : Showable[p] = S(p)
      /\ Showable' = [p \in Paths |-> T(p)]
  BY DEF Showable, TextsOf
<1>2. \A p \in Paths : S(p) \subseteq Texts /\ T(p) \subseteq Texts
  BY ConstantsAssumption
<1>3. \A p, q \in Paths :
        past[p] \subseteq past'[q] /\ (p \in misnamed => q \in misnamed') => S(p) \subseteq T(q)
  BY <1>2
<1>4. \A p \in Paths : p \in misnamed' => T(p) = Texts
  OBVIOUS
<1>5. \A p \in Paths, t \in Texts : t \in past'[p] => Decode[t] \in T(p)
  BY ConstantsAssumption
<1>. HIDE DEF S, T
<1>. QED  BY <1>1, <1>2, <1>3, <1>4, <1>5

\* What the daemon's answer e says is so when what the files might show until then
\* was that in new; old holds that until the answer before.
Fits(e, old, new) ==
  /\ \A p \in Paths : old[p] \subseteq new[p]
  /\ e.type = "file_content" => Decode[e.text] \in new[e.path]
  /\ e.type = "file_renamed" => old[e.from] \subseteq new[e.to]

\* h[0] are the texts the phone has been told of by the answers it has handled,
\* h[k] those that the first k answers under way will have told of.
Told(h) ==
  /\ ~mixed => \A i \in DOMAIN tabs : tabs[i].text \in h[0][tabs[i].path]
  /\ \A k \in 1 .. Len(toPhone) : Fits(toPhone[k], h[k - 1], h[k])
  /\ \A k \in 0 .. Len(toPhone), p \in Paths : h[k][p] \subseteq Showable[p]

Accounts == [Nat -> [Paths -> SUBSET Texts]]

\* The tabs alone are not inductive: an answer under way may name a content, or a
\* rename, from before other changes.
HonestInv ==
  /\ \A p \in Paths : disk[p] \in past[p] \cup {None}
  /\ \E h \in Accounts : Told(h)

\* A step that neither answers nor handles an answer, and opens no tab; the last
\* answers may be lost.
LEMMA ToldIsKept ==
  ASSUME TypeOK, NEW h, Told(h),
         \A i \in DOMAIN tabs' : \E k \in DOMAIN tabs : tabs'[i] = tabs[k],
         mixed' = mixed,
         NEW n \in 0 .. Len(toPhone), Len(toPhone') = n,
         \A k \in 1 .. n : toPhone'[k] = toPhone[k],
         \A p \in Paths : Showable[p] \subseteq Showable'[p]
  PROVE  Told(h)'
<1>0. Len(toPhone) \in Nat
  BY LenProperties DEF TypeOK
<1>1. ~mixed => \A i \in DOMAIN tabs' : tabs'[i].text \in h[0][tabs'[i].path]
  BY DEF Told
<1>2. \A k \in 1 .. n : Fits(toPhone'[k], h[k - 1], h[k])
  <2>1. \A k \in 1 .. n : k \in 1 .. Len(toPhone)
    BY <1>0
  <2>. QED  BY <2>1 DEF Told
<1>3. \A k \in 0 .. n, p \in Paths : h[k][p] \subseteq Showable'[p]
  <2>1. \A k \in 0 .. n : k \in 0 .. Len(toPhone)
    BY <1>0
  <2>. QED  BY <2>1 DEF Told
<1>. QED  BY <1>1, <1>2, <1>3 DEF Told, Fits

\* An answer of the daemon tells of all there has been so far.
LEMMA AnswerIsTold ==
  ASSUME TypeOK, Showable' \in [Paths -> SUBSET Texts], NEW h \in Accounts, Told(h),
         UNCHANGED <<tabs, mixed>>, NEW e, toPhone' = Append(toPhone, e),
         Fits(e, Showable, Showable'), e.type = "file_renamed" => e.from \in Paths
  PROVE  \E g \in Accounts : Told(g)'
<1>. DEFINE n == Len(toPhone)
<1>1. /\ n \in Nat /\ Len(toPhone') = n + 1
      /\ \A k \in 1 .. n : toPhone'[k] = toPhone[k]
      /\ toPhone'[n + 1] = e
  BY AppendProperties, LenProperties DEF TypeOK
<1>2. PICK g \in Accounts : (\A k \in 0 .. n : g[k] = h[k]) /\ g[n + 1] = Showable'
  <2>. DEFINE f == [k \in Nat |-> IF k <= n THEN h[k] ELSE Showable']
  <2>1. f \in Accounts
    BY DEF Accounts
  <2>2. (\A k \in 0 .. n : f[k] = h[k]) /\ f[n + 1] = Showable'
    BY <1>1
  <2>. QED  BY <2>1, <2>2
<1>3. \A k \in 0 .. n : g[k] = h[k]
  BY <1>2
<1>4. g[n + 1] = Showable'
  BY <1>2
<1>. HIDE DEF n
<1>5. \A p \in Paths : Showable[p] \subseteq Showable'[p]
  BY DEF Fits
<1>6. \A k \in 0 .. n, p \in Paths : h[k][p] \subseteq Showable[p]
  BY DEF Told, n
<1>7. \A k \in 1 .. n : Fits(toPhone[k], h[k - 1], h[k])
  BY DEF Told, n
<1>8. ASSUME NEW k \in 1 .. n + 1 PROVE Fits(toPhone'[k], g[k - 1], g[k])
  <2>1. CASE k = n + 1
    <3>1. g[k - 1] = h[n] /\ g[k] = Showable' /\ toPhone'[k] = e
      BY <1>1, <1>3, <1>4, <2>1
    <3>2. \A p \in Paths : h[n][p] \subseteq Showable[p]
      BY <1>1, <1>6
    <3>. QED  BY <1>5, <3>1, <3>2 DEF Fits
  <2>2. CASE k # n + 1
    <3>1. k \in 1 .. n /\ k - 1 \in 0 .. n /\ k \in 0 .. n
      BY <1>1, <2>2
    <3>2. g[k - 1] = h[k - 1] /\ g[k] = h[k] /\ toPhone'[k] = toPhone[k]
      BY <1>1, <1>3, <3>1
    <3>. QED  BY <1>7, <3>1, <3>2
  <2>. QED  BY <2>1, <2>2
<1>9. ASSUME NEW k \in 0 .. n + 1, NEW p \in Paths PROVE g[k][p] \subseteq Showable'[p]
  <2>1. CASE k = n + 1
    BY <1>4, <2>1
  <2>2. CASE k # n + 1
    <3>1. k \in 0 .. n
      BY <1>1, <2>2
    <3>. QED  BY <1>3, <1>5, <1>6, <3>1
  <2>. QED  BY <2>1, <2>2
<1>10. ~mixed' => \A i \in DOMAIN tabs' : tabs'[i].text \in g[0][tabs'[i].path]
  <2>1. g[0] = h[0]
    BY <1>1, <1>3
  <2>. QED  BY <2>1 DEF Told
<1>11. /\ \A k \in 1 .. Len(toPhone') : Fits(toPhone'[k], g[k - 1], g[k])
       /\ \A k \in 0 .. Len(toPhone'), p \in Paths : g[k][p] \subseteq Showable'[p]
  BY <1>1, <1>8, <1>9
<1>12. Told(g)'
  BY <1>10, <1>11 DEF Told, Fits
<1>. QED  BY <1>2, <1>12

LEMMA WithoutFromTabs ==
  ASSUME TypeOK, NEW p \in Paths
  PROVE  LET w == Without(p) IN
         /\ w \in Seq(CodeFile) /\ Len(w) \in Nat /\ DOMAIN w = 1 .. Len(w)
         /\ \A i \in DOMAIN w : \E k \in DOMAIN tabs : w[i] = tabs[k]
<1>. DEFINE w == Without(p)
<1>1. tabs \in Seq(CodeFile) /\ DOMAIN tabs = 1 .. Len(tabs)
  BY LenProperties DEF TypeOK
<1>2. w \in Seq(CodeFile) /\ \A i \in 1 .. Len(w) : \E k \in 1 .. Len(tabs) : w[i] = tabs[k]
  BY <1>1, WithoutTabs
<1>. HIDE DEF w
<1>3. Len(w) \in Nat /\ DOMAIN w = 1 .. Len(w)
  BY <1>2, LenProperties
<1>4. w \in Seq(CodeFile) /\ \A i \in DOMAIN w : \E k \in DOMAIN tabs : w[i] = tabs[k]
  BY <1>1, <1>2, <1>3
<1>. QED  BY <1>3, <1>4 DEF w

\* What the phone does with an answer: the tabs show what it has now been told of.
LEMMA EventIsTold ==
  ASSUME TypeOK, TabsAreConsistent, NEW old \in [Paths -> SUBSET Texts], NEW new, NEW e \in Event,
         Fits(e, old, new), ~mixed',
         ~mixed => \A i \in DOMAIN tabs : tabs[i].text \in old[tabs[i].path],
         \/ e.type = "file_content" /\ FileContent(e)
         \/ e.type = "file_saved" /\ FileSaved(e)
         \/ e.type = "file_deleted" /\ FileDeleted(e)
         \/ e.type = "file_renamed" /\ FileRenamed(e)
         \/ e.type = "error" /\ ErrorEvent
  PROVE  \A i \in DOMAIN tabs' : tabs'[i].text \in new[tabs'[i].path]
<1>1. ~mixed
  BY DEF FileContent, FileSaved, FileDeleted, FileRenamed, ErrorEvent, histories
<1>2. /\ DOMAIN tabs = 1 .. Len(tabs) /\ Len(tabs) \in Nat
      /\ \A i \in 1 .. Len(tabs) : tabs[i] \in CodeFile
  BY ElementOfSeq, LenProperties DEF TypeOK
<1>3. ASSUME NEW i \in DOMAIN tabs PROVE tabs[i].text \in new[tabs[i].path]
  <2>1. tabs[i].path \in Paths /\ tabs[i].text \in old[tabs[i].path]
    BY <1>1, <1>2 DEF CodeFile
  <2>. QED  BY <2>1 DEF Fits
<1>4. ASSUME e.type = "file_content", FileContent(e), NEW i \in DOMAIN tabs'
      PROVE  tabs'[i].text \in new[tabs'[i].path]
  <2>. DEFINE file == [path |-> e.path, text |-> Decode[e.text]]
              w == Without(e.path)
              all == Append(w, file)
              first == IF Len(all) > TabCap THEN 2 ELSE 1
  <2>1. e.path \in Paths /\ file \in CodeFile /\ file.text \in new[file.path]
    BY <1>4, ContentType DEF Fits
  <2>2. /\ w \in Seq(CodeFile) /\ Len(w) \in Nat
        /\ \A k \in 1 .. Len(w) : \E l \in DOMAIN tabs : w[k] = tabs[l]
    BY <2>1, WithoutFromTabs
  <2>. HIDE DEF w, file
  <2>3. /\ all \in Seq(CodeFile) /\ Len(all) = Len(w) + 1
        /\ \A k \in 1 .. Len(w) : all[k] = w[k]
        /\ all[Len(w) + 1] = file
    BY <2>1, <2>2
  <2>4. tabs' = SubSeq(all, first, Len(all))
    BY <1>4 DEF FileContent, w, file
  <2>. HIDE DEF all
  <2>5. first \in {1, 2} /\ \A k \in first .. Len(all) : all[k] \in CodeFile
    BY <2>3, ElementOfSeq
  <2>. HIDE DEF first
  <2>6. /\ tabs' \in Seq(CodeFile)
        /\ Len(tabs') = IF first <= Len(all) THEN Len(all) - first + 1 ELSE 0
        /\ \A k \in 1 .. Len(all) - first + 1 : tabs'[k] = all[first + k - 1]
    BY <2>2, <2>3, <2>4, <2>5, SubSeqProperties
  <2>7. i \in 1 .. Len(tabs') /\ Len(all) \in Nat
    BY <1>4, <2>2, <2>3, <2>6, LenProperties
  <2>8. first + i - 1 \in 1 .. Len(w) + 1 /\ tabs'[i] = all[first + i - 1]
    BY <2>2, <2>3, <2>5, <2>6, <2>7
  <2>9. CASE first + i - 1 = Len(w) + 1
    BY <2>1, <2>3, <2>8, <2>9
  <2>10. CASE first + i - 1 # Len(w) + 1
    <3>1. first + i - 1 \in 1 .. Len(w)
      BY <2>2, <2>8, <2>10
    <3>2. PICK l \in DOMAIN tabs : tabs'[i] = tabs[l]
      BY <2>2, <2>3, <2>8, <3>1
    <3>. QED  BY <1>3, <3>2
  <2>. QED  BY <2>9, <2>10
<1>5. ASSUME FileSaved(e), NEW i \in DOMAIN tabs'
      PROVE  tabs'[i].text \in new[tabs'[i].path]
  <2>1. /\ i \in DOMAIN tabs
        /\ tabs'[i] = IF tabs[i].path = e.path
                      THEN [tabs[i] EXCEPT !.text = IF active = None THEN @ ELSE active.text]
                      ELSE tabs[i]
    BY <1>5 DEF FileSaved
  <2>2. CASE tabs[i].path = e.path /\ active # None
    <3>1. active.path = e.path
      BY <1>5, <2>1, <2>2 DEF FileSaved, IsOpen
    <3>2. PICK j \in DOMAIN tabs : tabs[j] = active
      BY <2>2 DEF TabsAreConsistent
    <3>3. active.text \in new[e.path]
      BY <1>3, <3>1, <3>2
    <3>4. tabs'[i].text = active.text /\ tabs'[i].path = e.path
      <4>1. tabs[i] \in CodeFile
        BY <1>2, <2>1
      <4>. QED  BY <2>1, <2>2, <4>1 DEF CodeFile
    <3>. QED  BY <3>3, <3>4
  <2>3. CASE tabs[i].path # e.path \/ active = None
    <3>1. tabs'[i].text = tabs[i].text /\ tabs'[i].path = tabs[i].path
      <4>1. tabs[i] \in CodeFile
        BY <1>2, <2>1
      <4>. QED  BY <2>1, <2>3, <4>1 DEF CodeFile
    <3>. QED  BY <1>3, <2>1, <3>1
  <2>. QED  BY <2>2, <2>3
<1>6. ASSUME e.type = "file_deleted", FileDeleted(e), NEW i \in DOMAIN tabs'
      PROVE  tabs'[i].text \in new[tabs'[i].path]
  <2>1. e.path \in Paths
    BY <1>6 DEF Event
  <2>2. tabs' = Without(e.path)
    BY <1>6 DEF FileDeleted
  <2>3. PICK l \in DOMAIN tabs : tabs'[i] = tabs[l]
    BY <1>6, <2>1, <2>2, WithoutFromTabs
  <2>. QED  BY <1>3, <2>3
<1>7. ASSUME e.type = "file_renamed", FileRenamed(e), NEW i \in DOMAIN tabs'
      PROVE  tabs'[i].text \in new[tabs'[i].path]
  <2>1. i \in DOMAIN tabs /\ tabs'[i] = Renamed(tabs[i], e)
    BY <1>7 DEF FileRenamed
  <2>2. tabs[i] \in CodeFile /\ tabs[i].text \in old[tabs[i].path]
    BY <1>1, <1>2, <2>1
  <2>3. CASE tabs[i].path = e.from
    <3>1. tabs'[i].text = tabs[i].text /\ tabs'[i].path = e.to
      BY <2>1, <2>2, <2>3, ConstantsAssumption DEF Renamed, CodeFile
    <3>. QED  BY <1>7, <2>2, <2>3, <3>1 DEF Fits
  <2>4. CASE tabs[i].path # e.from
    BY <1>3, <2>1, <2>4 DEF Renamed
  <2>. QED  BY <2>3, <2>4
<1>8. ASSUME ErrorEvent, NEW i \in DOMAIN tabs'
      PROVE  tabs'[i].text \in new[tabs'[i].path]
  BY <1>3, <1>8 DEF ErrorEvent
<1>. QED  BY <1>4, <1>5, <1>6, <1>7, <1>8

LEMMA HandleEventIsTold ==
  ASSUME TypeOK, TabsAreConsistent, HandleEvent, NEW h \in Accounts, Told(h)
  PROVE  \E g \in Accounts : Told(g)'
<1>. DEFINE n == Len(toPhone)
            e == Head(toPhone)
            g == [k \in Nat |-> h[k + 1]]
<1>1. /\ n \in Nat /\ n # 0 /\ e = toPhone[1] /\ e \in Event
      /\ Len(toPhone') = n - 1
      /\ \A k \in 1 .. n - 1 : toPhone'[k] = toPhone[k + 1]
      /\ Showable' = Showable
  <2>1. toPhone # << >> /\ toPhone' = Tail(toPhone) /\ toPhone \in Seq(Event) /\ Showable' = Showable
    BY DEF HandleEvent, TypeOK, daemonVars, Showable, TextsOf
  <2>. QED  BY <2>1, HeadTailProperties, EmptySeq, LenProperties
<1>2. \/ e.type = "file_content" /\ FileContent(e)
      \/ e.type = "file_saved" /\ FileSaved(e)
      \/ e.type = "file_deleted" /\ FileDeleted(e)
      \/ e.type = "file_renamed" /\ FileRenamed(e)
      \/ e.type = "error" /\ ErrorEvent
  BY DEF HandleEvent
<1>3. g \in Accounts /\ \A k \in Nat : g[k] = h[k + 1]
  BY DEF Accounts
<1>. HIDE DEF n, e, g
<1>4. \A k \in 1 .. n : Fits(toPhone[k], h[k - 1], h[k])
  BY DEF Told, n
<1>5. \A k \in 0 .. n, p \in Paths : h[k][p] \subseteq Showable[p]
  BY DEF Told, n
<1>6. h[0] \in [Paths -> SUBSET Texts] /\ Fits(e, h[0], h[1])
  BY <1>1, <1>4 DEF Accounts
<1>7. ~mixed => \A i \in DOMAIN tabs : tabs[i].text \in h[0][tabs[i].path]
  BY DEF Told
<1>8. ~mixed' => \A i \in DOMAIN tabs' : tabs'[i].text \in h[1][tabs'[i].path]
  BY <1>1, <1>2, <1>6, <1>7, EventIsTold
<1>9. g[0] = h[1]
  BY <1>3
<1>10. ASSUME NEW k \in 1 .. n - 1 PROVE Fits(toPhone'[k], g[k - 1], g[k])
  <2>1. k + 1 \in 1 .. n /\ toPhone'[k] = toPhone[k + 1]
    BY <1>1
  <2>2. k \in Nat /\ k - 1 \in Nat /\ (k - 1) + 1 = (k + 1) - 1
    BY <1>1
  <2>3. g[k - 1] = h[(k + 1) - 1] /\ g[k] = h[k + 1]
    BY <1>3, <2>2
  <2>. QED  BY <1>4, <2>1, <2>3
<1>11. ASSUME NEW k \in 0 .. n - 1, NEW p \in Paths PROVE g[k][p] \subseteq Showable'[p]
  <2>1. k \in Nat /\ k + 1 \in 0 .. n
    BY <1>1
  <2>. QED  BY <1>1, <1>3, <1>5, <2>1
<1>12. /\ \A k \in 1 .. Len(toPhone') : Fits(toPhone'[k], g[k - 1], g[k])
       /\ \A k \in 0 .. Len(toPhone'), p \in Paths : g[k][p] \subseteq Showable'[p]
  BY <1>1, <1>10, <1>11
<1>13. Told(g)'
  BY <1>8, <1>9, <1>12 DEF Told, Fits
<1>. QED  BY <1>3, <1>13

LEMMA HandleCommandIsTold ==
  ASSUME TypeOK, TypeOK', HonestInv, HandleCommand
  PROVE  HonestInv'
<1>. DEFINE c == Head(toDaemon)
            Outcome(e) == /\ toPhone' = Append(toPhone, e) \/ toPhone' = toPhone
                          /\ Fits(e, Showable, Showable')
                          /\ e.type = "file_renamed" => e.from \in Paths
                          /\ \A p \in Paths : disk'[p] \in past'[p] \cup {None}
<1>1. c \in Command
  BY DEF HandleCommand, TypeOK
<1>2. \/ c.op = "read" /\ c.path \in Paths /\ DoRead(c.path)
      \/ c.op = "write" /\ c.path \in Paths /\ c.text \in Texts /\ DoWrite(c.path, c.text)
      \/ c.op = "delete" /\ c.path \in Paths /\ DoDelete(c.path)
      \/ c.op = "rename" /\ c.from \in Paths /\ c.to \in Paths /\ DoRename(c.from, c.to)
  BY <1>1 DEF HandleCommand, Command
<1>. HIDE DEF c
<1>3. /\ disk \in [Paths -> Texts \cup {None}] /\ past \in [Paths -> SUBSET Texts]
      /\ \A p \in Paths : disk[p] \in past[p] \cup {None}
      /\ past' \in [Paths -> SUBSET Texts]
  BY DEF TypeOK, HonestInv
<1>4. \A p \in Paths : past[p] \subseteq past'[p]
  BY <1>2, <1>3 DEF DoRead, DoWrite, DoDelete, DoRename
<1>5. misnamed \subseteq misnamed'
  BY <1>2 DEF DoRead, DoWrite, DoDelete, DoRename
<1>6. /\ Showable' \in [Paths -> SUBSET Texts]
      /\ \A p \in Paths : Showable[p] \subseteq Showable'[p]
      /\ \A p \in Paths : p \in misnamed' => Showable'[p] = Texts
      /\ \A p \in Paths, t \in Texts : t \in past'[p] => Decode[t] \in Showable'[p]
      /\ \A p, q \in Paths :
           past[p] \subseteq past'[q] /\ (p \in misnamed => q \in misnamed')
           => Showable[p] \subseteq Showable'[q]
  BY <1>3, <1>4, <1>5, ShowableGrows
<1>7. ASSUME NEW e, Answer(e) PROVE toPhone' = Append(toPhone, e) \/ toPhone' = toPhone
  BY <1>7 DEF Answer
<1>8. ASSUME Error, UNCHANGED <<disk, past>> PROVE \E e : Outcome(e)
  <2>1. Outcome([type |-> "error"])
    BY <1>3, <1>6, <1>7, <1>8 DEF Error, Fits
  <2>. QED  BY <2>1
<1>9. ASSUME NEW p \in Paths, DoRead(p) PROVE \E e : Outcome(e)
  <2>1. CASE disk[p] # None /\ Answer([type |-> "file_content", path |-> p, text |-> disk[p]])
    <3>. DEFINE e == [type |-> "file_content", path |-> p, text |-> disk[p]]
    <3>1. disk[p] \in Texts /\ disk[p] \in past'[p] /\ UNCHANGED <<disk, past>>
      BY <1>3, <1>9, <2>1 DEF DoRead
    <3>2. Fits(e, Showable, Showable')
      BY <1>6, <3>1 DEF Fits
    <3>3. Outcome(e)
      BY <1>3, <1>7, <2>1, <3>1, <3>2
    <3>. QED  BY <3>3
  <2>. QED  BY <1>8, <1>9, <2>1 DEF DoRead
<1>10. ASSUME NEW p \in Paths, NEW t \in Texts, DoWrite(p, t) PROVE \E e : Outcome(e)
  <2>1. CASE Error /\ UNCHANGED <<disk, past>>
    BY <1>8, <2>1
  <2>2. CASE /\ disk' = [disk EXCEPT ![p] = t]
             /\ past' = [past EXCEPT ![p] = @ \cup {t}]
             /\ Answer([type |-> "file_saved", path |-> p])
    <3>1. Outcome([type |-> "file_saved", path |-> p])
      BY <1>3, <1>6, <1>7, <2>2 DEF Fits
    <3>. QED  BY <3>1
  <2>. QED  BY <1>10, <2>1, <2>2 DEF DoWrite
<1>11. ASSUME NEW p \in Paths, DoDelete(p) PROVE \E e : Outcome(e)
  <2>1. CASE Error /\ UNCHANGED disk
    BY <1>8, <1>11, <2>1 DEF DoDelete
  <2>2. CASE /\ disk' = [disk EXCEPT ![p] = None]
             /\ Answer([type |-> "file_deleted", path |-> p])
    <3>1. Outcome([type |-> "file_deleted", path |-> p])
      BY <1>3, <1>6, <1>7, <1>11, <2>2 DEF DoDelete, Fits
    <3>. QED  BY <3>1
  <2>. QED  BY <1>11, <2>1, <2>2 DEF DoDelete
<1>12. ASSUME NEW p \in Paths, NEW q \in Paths, DoRename(p, q) PROVE \E e : Outcome(e)
  <2>. DEFINE e == [type |-> "file_renamed", from |-> p, to |-> q]
  <2>1. CASE Error /\ UNCHANGED <<disk, past>>
    BY <1>8, <2>1
  <2>2. CASE /\ disk' = [disk EXCEPT ![p] = None, ![q] = disk[p]]
             /\ past' = [past EXCEPT ![q] = @ \cup past[p]]
             /\ misnamed' = IF p \in misnamed THEN misnamed \cup {q} ELSE misnamed
             /\ Answer(e)
    <3>1. \A r \in Paths : past'[r] = IF r = q THEN past[q] \cup past[p] ELSE past[r]
      BY <1>3, <2>2
    <3>2. \A r \in Paths : disk'[r] \in {disk[r], None} \/ (r = q /\ disk'[r] = disk[p])
      BY <1>3, <2>2
    <3>3. \A r \in Paths : disk'[r] \in past'[r] \cup {None}
      BY <1>3, <3>1, <3>2
    <3>4. past[p] \subseteq past'[q] /\ (p \in misnamed => q \in misnamed')
      BY <2>2, <3>1
    <3>5. Showable[p] \subseteq Showable'[q]
      BY <1>6, <3>4
    <3>6. Fits(e, Showable, Showable')
      BY <1>6, <3>5 DEF Fits
    <3>7. Outcome(e)
      BY <1>7, <2>2, <3>3, <3>6
    <3>. QED  BY <3>7
  <2>3. CASE /\ misnamed' = misnamed \cup {q}
             /\ Answer(e)
             /\ UNCHANGED <<disk, past>>
    <3>1. Showable[p] \subseteq Texts /\ Showable'[q] = Texts
      BY <1>3, <1>6, <2>3, ShowableType
    <3>2. Fits(e, Showable, Showable')
      BY <1>6, <3>1 DEF Fits
    <3>3. Outcome(e)
      BY <1>3, <1>7, <2>3, <3>2
    <3>. QED  BY <3>3
  <2>. QED  BY <1>12, <2>1, <2>2, <2>3 DEF DoRename
<1>13. PICK e : Outcome(e)
  BY <1>2, <1>9, <1>10, <1>11, <1>12
<1>14. PICK h \in Accounts : Told(h)
  BY DEF HonestInv
<1>15. UNCHANGED <<tabs, mixed>>
  BY DEF HandleCommand, histories
<1>16. \E g \in Accounts : Told(g)'
  <2>1. CASE toPhone' = Append(toPhone, e)
    BY <1>6, <1>13, <1>14, <1>15, <2>1, AnswerIsTold
  <2>2. CASE toPhone' = toPhone
    <3>1. Len(toPhone) \in 0 .. Len(toPhone)
      BY LenProperties DEF TypeOK
    <3>2. Told(h)'
      BY <1>6, <1>14, <1>15, <2>2, <3>1, ToldIsKept
    <3>. QED  BY <1>14, <3>2
  <2>. QED  BY <1>13, <2>1, <2>2
<1>. QED  BY <1>13, <1>16 DEF HonestInv

LEMMA HonestNext ==
  ASSUME TypeOK, TypeOK', TabsAreConsistent, HonestInv, [Next]_vars
  PROVE  HonestInv'
<1>. DEFINE Shrinks == \A i \in DOMAIN tabs' : \E k \in DOMAIN tabs : tabs'[i] = tabs[k]
            Truncated == \E n \in 0 .. Len(toPhone) :
                           Len(toPhone') = n /\ \A k \in 1 .. n : toPhone'[k] = toPhone[k]
<1>1. PICK h \in Accounts : Told(h)
  BY DEF HonestInv
<1>0. /\ toPhone' = toPhone => Truncated
      /\ FramesAreLost => Truncated
  <2>1. toPhone \in Seq(Event) /\ Len(toPhone) \in Nat
    BY LenProperties DEF TypeOK
  <2>2. ASSUME FramesAreLost PROVE Truncated
    <3>1. PICK n \in 0 .. Len(toPhone) : toPhone' = SubSeq(toPhone, 1, n)
      BY <2>2 DEF FramesAreLost
    <3>2. n \in Nat /\ \A i \in 1 .. n : toPhone[i] \in Event
      BY <2>1, ElementOfSeq
    <3>3. Len(toPhone') = IF 1 <= n THEN n - 1 + 1 ELSE 0
      BY <2>1, <3>1, <3>2, SubSeqProperties
    <3>4. \A k \in 1 .. n - 1 + 1 : toPhone'[k] = toPhone[1 + k - 1]
      BY <2>1, <3>1, <3>2, SubSeqProperties
    <3>. QED  BY <3>2, <3>3, <3>4
  <2>. QED  BY <2>1, <2>2
<1>2. ASSUME UNCHANGED daemonVars, Truncated, mixed' = mixed, Shrinks
      PROVE  HonestInv'
  <2>1. \A p \in Paths : Showable'[p] = Showable[p]
    BY <1>2 DEF daemonVars, Showable, TextsOf
  <2>2. Told(h)'
    BY <1>1, <1>2, <2>1, ToldIsKept
  <2>. QED  BY <1>1, <1>2, <2>2 DEF HonestInv, daemonVars
<1>3. ASSUME UNCHANGED <<daemonVars, mixed, tabs>>, Truncated PROVE HonestInv'
  BY <1>2, <1>3
<1>4. ASSUME User PROVE HonestInv'
  <2>1. ASSUME NEW p \in Paths, CloseOpenFile(p) PROVE HonestInv'
    <3>1. Shrinks
      BY <2>1, WithoutFromTabs DEF CloseOpenFile
    <3>. QED  BY <1>0, <1>2, <2>1, <3>1 DEF CloseOpenFile, histories
  <2>2. ASSUME Reconnect \/ OpenHistory PROVE HonestInv'
    <3>1. Shrinks /\ UNCHANGED daemonVars /\ mixed' = mixed
      BY <2>2 DEF Reconnect, OpenHistory, ReplaceSession, histories
    <3>. QED  BY <1>0, <1>2, <2>2, <3>1 DEF Reconnect, OpenHistory
  <2>3. \/ UNCHANGED <<daemonVars, toPhone, mixed, tabs>>
        \/ UNCHANGED <<daemonVars, mixed, tabs>> /\ FramesAreLost
        \/ Reconnect \/ OpenHistory
        \/ \E p \in Paths : CloseOpenFile(p)
    BY <1>4 DEF User, SelectFiles, SelectEditor, Revert, SaveFile, OpenFromBrowser, SwitchTab,
                SwitchOpenFile, DeleteFile, CreateFile, RenameFile, EditText, End, histories
  <2>. QED  BY <1>0, <1>3, <2>1, <2>2, <2>3
<1>5. CASE HandleCommand
  BY <1>5, HandleCommandIsTold
<1>6. CASE HandleEvent
  <2>1. \E g \in Accounts : Told(g)'
    BY <1>1, <1>6, HandleEventIsTold
  <2>. QED  BY <1>6, <2>1 DEF HandleEvent, daemonVars, HonestInv
<1>7. ASSUME NEW p \in Paths, NEW t \in Texts \cup {None}, AgentChanges(p, t)
      PROVE  HonestInv'
  <2>1. \A q \in Paths : past[q] \subseteq past'[q]
    BY <1>7 DEF AgentChanges, TypeOK
  <2>2. \A q \in Paths : disk'[q] \in past'[q] \cup {None}
    BY <1>7 DEF AgentChanges, TypeOK, HonestInv
  <2>3. \A q \in Paths : Showable[q] \subseteq Showable'[q]
    BY <1>7, <2>1, ShowableGrows DEF AgentChanges, TypeOK
  <2>4. Told(h)'
    BY <1>0, <1>1, <1>7, <2>3, ToldIsKept DEF AgentChanges, histories
  <2>. QED  BY <1>1, <2>2, <2>4 DEF HonestInv
<1>8. OtherEvent \/ LinkReturns \/ UNCHANGED vars
        => UNCHANGED <<daemonVars, toPhone, mixed, tabs>>
  BY DEF OtherEvent, LinkReturns, vars, daemonVars, histories
<1>9. LinkLost => UNCHANGED <<daemonVars, mixed, tabs>> /\ FramesAreLost
  BY DEF LinkLost, histories
<1>. QED  BY <1>0, <1>9, <1>3, <1>4, <1>5, <1>6, <1>7, <1>8 DEF Next

\* Until a save is confirmed while another file is active, every tab shows a content
\* that its file has had, decoded, unless a rename to its name was confirmed but not done,
\* for any files and texts and any number of commands, answers, losses and changes of
\* the agent under way.
THEOREM TabsAreHonestAlways == Spec => []TabsAreHonest
<1>1. Init => HonestInv
  <2>. SUFFICES ASSUME Init PROVE HonestInv
    OBVIOUS
  <2>1. disk \in [Paths -> Texts \cup {None}] /\ past \in [Paths -> SUBSET Texts]
        /\ \A p \in Paths : disk[p] \in past[p] \cup {None}
    BY ConstantsAssumption DEF Init
  <2>. DEFINE h == [k \in Nat |-> Showable]
  <2>2. h \in Accounts /\ h[0] = Showable
    BY <2>1, ShowableType DEF Accounts
  <2>. HIDE DEF h
  <2>3. Len(toPhone) = 0 /\ DOMAIN tabs = {} /\ 1 .. 0 = {} /\ 0 .. 0 = {0}
    BY DEF Init
  <2>4. Told(h)
    BY <2>2, <2>3 DEF Told
  <2>. QED  BY <2>1, <2>2, <2>4 DEF HonestInv
<1>2. TypeOK /\ TypeOK' /\ EditorIsConsistent /\ HonestInv /\ [Next]_vars => HonestInv'
  BY HonestNext DEF EditorIsConsistent
<1>3. TypeOK /\ HonestInv => TabsAreHonest
  <2>. SUFFICES ASSUME TypeOK, HonestInv, ~mixed, NEW i \in DOMAIN tabs
                PROVE  tabs[i].text \in TextsOf(tabs[i].path)
    BY DEF TabsAreHonest
  <2>1. PICK h \in Accounts : Told(h)
    BY DEF HonestInv
  <2>2. tabs[i] \in CodeFile
    BY ElementOfSeq, LenProperties DEF TypeOK
  <2>3. tabs[i].path \in Paths /\ 0 \in 0 .. Len(toPhone)
    BY <2>2, LenProperties DEF CodeFile, TypeOK
  <2>4. Showable[tabs[i].path] = TextsOf(tabs[i].path)
    BY <2>3, ShowableType DEF TypeOK
  <2>. QED  BY <2>1, <2>3, <2>4 DEF Told
<1>. QED  BY <1>1, <1>2, <1>3, FilesTypeCorrect, EditorIsConsistentAlways, PTL DEF Spec

-----------------------------------------------------------------------------
(* The editor *)

\* The widget has its state only while its pane is shown.
StateNeedsPane == code # None => pane = "editor"

LEMMA StateNeedsPaneNext ==
  ASSUME StateNeedsPane, [Next]_vars
  PROVE  StateNeedsPane'
<1>1. ASSUME NEW c, Rebuild(c) PROVE StateNeedsPane'
  BY <1>1 DEF Rebuild, StateNeedsPane
<1>2. ASSUME UNCHANGED <<pane, code>> PROVE StateNeedsPane'
  BY <1>2 DEF StateNeedsPane
<1>3. ASSUME User PROVE StateNeedsPane'
  <2>1. CASE SelectFiles
    BY <2>1 DEF SelectFiles, StateNeedsPane
  <2>2. CASE SelectEditor
    BY <1>1, <2>2 DEF SelectEditor
  <2>3. CASE Revert
    BY <2>3 DEF Revert, Visible, StateNeedsPane
  <2>4. CASE SaveFile
    BY <1>1, <2>4 DEF SaveFile
  <2>5. ASSUME NEW p \in Paths, OpenFromBrowser(p) \/ SwitchTab(p) PROVE StateNeedsPane'
    BY <1>1, <2>5 DEF OpenFromBrowser, SwitchTab, SwitchOpenFile
  <2>6. ASSUME NEW p \in Paths, CloseOpenFile(p) PROVE StateNeedsPane'
    BY <1>1, <2>6 DEF CloseOpenFile
  <2>7. ASSUME NEW p \in Paths, DeleteFile(p) PROVE StateNeedsPane'
    BY <1>2, <2>7 DEF DeleteFile
  <2>8. ASSUME NEW p \in Paths, NEW t \in Texts, CreateFile(p, t) PROVE StateNeedsPane'
    BY <1>1, <2>8 DEF CreateFile
  <2>9. ASSUME NEW p \in Paths, NEW q \in Paths, RenameFile(p, q) PROVE StateNeedsPane'
    BY <1>1, <2>9 DEF RenameFile
  <2>10. ASSUME NEW t \in Texts, EditText(t) PROVE StateNeedsPane'
    BY <2>10 DEF EditText, Visible, StateNeedsPane
  <2>11. CASE End
    BY <2>11 DEF End, StateNeedsPane
  <2>12. CASE Reconnect \/ OpenHistory
    BY <1>1, <2>12 DEF Reconnect, OpenHistory, ReplaceSession
  <2>. QED
    BY <1>3, <2>1, <2>2, <2>3, <2>4, <2>5, <2>6, <2>7, <2>8, <2>9, <2>10, <2>11, <2>12 DEF User
<1>4. CASE HandleCommand
  BY <1>2, <1>4 DEF HandleCommand
<1>5. CASE HandleEvent
  BY <1>1, <1>5 DEF HandleEvent
<1>6. CASE OtherEvent
  BY <1>1, <1>6 DEF OtherEvent
<1>7. ASSUME NEW p \in Paths, NEW t \in Texts \cup {None}, AgentChanges(p, t)
      PROVE  StateNeedsPane'
  BY <1>2, <1>7 DEF AgentChanges
<1>8. CASE UNCHANGED vars
  BY <1>2, <1>8 DEF vars
<1>9. CASE LinkLost \/ LinkReturns
  BY <1>1, <1>9 DEF LinkLost, LinkReturns
<1>. QED  BY <1>3, <1>4, <1>5, <1>6, <1>7, <1>8, <1>9 DEF Next

\* No event of the daemon replaces unsaved edits while their file stays the active
\* one, for any files, texts and commands under way (_syncController).
THEOREM EventsSpareEditsAlways == Spec => EventsSpareEdits
<1>1. Init => StateNeedsPane
  BY DEF Init, StateNeedsPane
<1>2. StateNeedsPane /\ [Next]_vars => StateNeedsPane'
  BY StateNeedsPaneNext
<1>3. ASSUME StateNeedsPane, HandleEvent, Dirty(code), active # None,
             code.path = active.path, active' # None, active'.path = active.path
      PROVE  code' = code
  <2>1. pane' = "editor" /\ code' = Synced(active', code)
    BY <1>3 DEF HandleEvent, Rebuild, Dirty, StateNeedsPane
  <2>. QED  BY <1>3, <2>1 DEF Synced, Dirty
<1>4. StateNeedsPane /\ [Next]_vars
        => [HandleEvent /\ Dirty(code) /\ active # None /\ code.path = active.path
              /\ active' # None /\ active'.path = active.path
            => code' = code]_vars
  BY <1>3
<1>. QED  BY <1>1, <1>2, <1>4, PTL DEF Spec, EventsSpareEdits
-----------------------------------------------------------------------------
(* The types of WorkspaceTools *)

States == {"none", "untracked", "both", "modified", "staged"}
Lists == [Tree -> States \cup {"tracked"}]
Patches == SUBSET (Tree \X {"unstaged", "staged"})
PhoneCommands == GitActions \cup {"file_list", "workspace_tools"}
Reports ==
  [kind : {"list"}, data : Lists] \cup [kind : {"diff"}, data : Patches]
    \cup [kind : {"result"}, data : GitActions] \cup [kind : {"tools"}, data : {{}}]

TreeType ==
  /\ head \in [Tree -> Nat] /\ index \in [Tree -> Nat] /\ work \in [Tree -> Nat]
  /\ changes \in Nat

PollerType ==
  /\ last \in [Tree -> {<<>>} \cup (States \X Nat)]
  /\ polled \subseteq Tree \X States
  /\ poller \in {"tick", "diff", "cached"} /\ patch \in Patches

CommandType ==
  /\ toHandler \in Seq(PhoneCommands) /\ sent \in Nat
  /\ handler \in {"idle", "tools", "status", "ls"} \cup GitActions
  /\ statuses \in [Tree -> States]

OutboundType == outbound \in Seq(Reports) /\ Len(outbound) <= OutCap

CardsType ==
  /\ list \in Lists /\ diff \in Patches
  /\ busy \in BOOLEAN /\ lost \in BOOLEAN /\ freed \in BOOLEAN

SocketType == socket \in {"up", "down", "closed"} /\ breaks \in Nat /\ stale \in BOOLEAN

ToolsTypeOK ==
  TreeType /\ PollerType /\ CommandType /\ OutboundType /\ CardsType /\ SocketType

\* git status gives each path one of its states.
LEMMA SnapshotType == GitSnapshot \in [Tree -> States] /\ GitSnapshot \in Lists
  BY DEF GitSnapshot, Status, States, Lists

LEMMA ProjectType ==
  ASSUME NEW read \in [Tree -> States]
  PROVE  ProjectSnapshot(read) \in Lists
  BY DEF ProjectSnapshot, Lists

LEMMA FingerprintType ==
  ASSUME TreeType
  PROVE  Fingerprint(GitSnapshot) \in [Tree -> {<<>>} \cup (States \X Nat)]
  BY SnapshotType DEF Fingerprint, TreeType

LEMMA ChangesType == Changes(GitSnapshot) \subseteq Tree \X States
  BY SnapshotType DEF Changes

LEMMA GitType ==
  ASSUME TreeType, NEW action \in GitActions, RunGit(action)
  PROVE  head' \in [Tree -> Nat] /\ index' \in [Tree -> Nat] /\ work' \in [Tree -> Nat]
<1>1. changes + 2 \in Nat
  BY DEF TreeType
<1>2. CASE action \in {"pull", "checkout"}
  <2>1. PICK p \in Committed :
             /\ head' = [head EXCEPT ![p] = changes + 2]
             /\ index' = [index EXCEPT ![p] = changes + 2]
             /\ work' = [work EXCEPT ![p] = changes + 2]
    BY <1>2 DEF RunGit
  <2> QED BY <1>1, <2>1 DEF TreeType
<1>3. CASE action \notin {"pull", "checkout"}
  BY <1>3 DEF RunGit, TreeType, git
<1> QED BY <1>2, <1>3

\* queue() keeps the channel within its capacity.
LEMMA ReportQueued ==
  ASSUME OutboundType, NEW e \in Reports, Queue(e)
  PROVE  outbound' \in Seq(Reports) /\ Len(outbound') <= OutCap
<1>1. CASE HasRoom
  <2>1. outbound' = Append(outbound, e)
    BY <1>1 DEF Queue
  <2>2. outbound' \in Seq(Reports) /\ Len(outbound') = Len(outbound) + 1
    BY <2>1 DEF OutboundType
  <2> QED BY <1>1, <2>2, ToolsAssumption DEF HasRoom, OutboundType, ToolsAssumption
<1>2. CASE ~HasRoom
  BY <1>2 DEF Queue, OutboundType
<1> QED BY <1>1, <1>2

\* A report leaves the queue.
LEMMA ReportTaken ==
  ASSUME OutboundType, outbound # <<>>, outbound' = Tail(outbound)
  PROVE  outbound' \in Seq(Reports) /\ Len(outbound') <= OutCap /\ Head(outbound) \in Reports
<1>1. /\ Head(outbound) \in Reports /\ Tail(outbound) \in Seq(Reports)
      /\ Len(Tail(outbound)) = Len(outbound) - 1
  BY HeadTailProperties DEF OutboundType
<1>2. Len(outbound) \in Nat /\ OutCap \in Nat
  BY ToolsAssumption DEF OutboundType, ToolsAssumption
<1> QED BY <1>1, <1>2 DEF OutboundType

\* The handler takes one command.
LEMMA CommandTaken ==
  ASSUME CommandType, NEW cmd, NEW step, Take(cmd, step)
  PROVE  toHandler' \in Seq(PhoneCommands)
<1>1. toHandler # <<>> /\ toHandler' = Tail(toHandler)
  BY DEF Take
<1> QED BY <1>1, HeadTailProperties DEF CommandType

\* The oldest commands are left.
LEMMA CommandsLost ==
  ASSUME CommandType, CommandsAreLost
  PROVE  /\ toHandler' \in Seq(PhoneCommands)
         /\ DOMAIN toHandler' \subseteq DOMAIN toHandler
         /\ \A i \in DOMAIN toHandler' : toHandler'[i] = toHandler[i]
<1>1. PICK n \in 0 .. Len(toHandler) : toHandler' = SubSeq(toHandler, 1, n)
  BY DEF CommandsAreLost
<1>2. toHandler \in Seq(PhoneCommands) /\ Len(toHandler) \in Nat
  BY DEF CommandType
<1>3. /\ SubSeq(toHandler, 1, n) \in Seq(PhoneCommands)
      /\ Len(SubSeq(toHandler, 1, n)) = n
      /\ \A i \in 1 .. n : SubSeq(toHandler, 1, n)[i] = toHandler[i]
  BY <1>2
<1>4. DOMAIN toHandler = 1 .. Len(toHandler) /\ DOMAIN toHandler' = 1 .. n
  BY <1>1, <1>2, <1>3, LenProperties
<1> QED BY <1>1, <1>2, <1>3, <1>4

LEMMA FreedType ==
  ASSUME NEW early, CardIsFreed(early)
  PROVE  busy' \in BOOLEAN /\ lost' \in BOOLEAN /\ freed' \in BOOLEAN
  BY Zenon DEF CardIsFreed

LEMMA MovesType ==
  ASSUME CardsType, NEW gone, ActionMoves(gone)
  PROVE  busy' \in BOOLEAN /\ lost' \in BOOLEAN /\ freed' \in BOOLEAN
  BY Zenon DEF CardsType, ActionMoves

LEMMA ToolsTypeInit == ToolsInit => ToolsTypeOK
<1> SUFFICES ASSUME ToolsInit PROVE ToolsTypeOK
  OBVIOUS
<1> USE DEF ToolsInit
<1>1. TreeType
  BY DEF TreeType
<1>2. PollerType
  BY DEF PollerType, Patches
<1>3. CommandType
  BY DEF CommandType, States
<1>4. OutboundType
  <2>1. outbound \in Seq(Reports) /\ Len(outbound) = 0
    OBVIOUS
  <2>2. 0 <= OutCap
    BY ToolsAssumption DEF ToolsAssumption
  <2> QED BY <2>1, <2>2 DEF OutboundType
<1>5. CardsType
  BY DEF CardsType, Lists, Patches, States
<1>6. SocketType
  BY DEF SocketType
<1> QED BY <1>1, <1>2, <1>3, <1>4, <1>5, <1>6 DEF ToolsTypeOK

LEMMA ToolsTypeNext == ToolsTypeOK /\ [ToolsNext]_tools => ToolsTypeOK'
<1> SUFFICES ASSUME ToolsTypeOK, [ToolsNext]_tools PROVE ToolsTypeOK'
  OBVIOUS
<1>t. TreeType /\ PollerType /\ CommandType /\ OutboundType /\ CardsType /\ SocketType
  BY DEF ToolsTypeOK
<1>g. UNCHANGED <<git, changes>> => TreeType'
  BY <1>t DEF TreeType, git
<1>p. UNCHANGED poll => PollerType'
  BY <1>t DEF PollerType, poll
<1>c. UNCHANGED command => CommandType'
  BY <1>t DEF CommandType, command
<1>o. UNCHANGED outbound => OutboundType'
  BY <1>t DEF OutboundType
<1>v. UNCHANGED <<list, diff, card>> => CardsType'
  BY <1>t DEF CardsType, card
<1>s. UNCHANGED <<socket, breaks>> /\ stale' \in BOOLEAN => SocketType'
  BY <1>t DEF SocketType
<1>b. UNCHANGED stale => stale' \in BOOLEAN
  BY <1>t DEF SocketType
<1>1. CASE Emit
  <2>1. Report("list", GitSnapshot) \in Reports
    BY SnapshotType DEF Report, Reports
  <2>2. OutboundType'
    BY <1>1, <1>t, <2>1, ReportQueued DEF Emit, OutboundType
  <2>3. PollerType'
    BY <1>1, <1>t, FingerprintType, ChangesType DEF Emit, PollerType
  <2>4. stale' \in BOOLEAN
    BY <1>1, Zenon DEF Emit
  <2>5. UNCHANGED <<git, changes, command, list, diff, card, socket, breaks>>
    BY <1>1 DEF Emit, counts
  <2> QED BY <1>g, <1>c, <1>v, <1>s, <2>2, <2>3, <2>4, <2>5 DEF ToolsTypeOK
<1>2. CASE DiffFiles
  <2>1. Unstaged \in Patches
    BY DEF Unstaged, Patches
  <2>2. PollerType'
    BY <1>2, <1>t, <2>1 DEF DiffFiles, PollerType
  <2>3. UNCHANGED <<git, changes, command, list, diff, card, outbound, socket, breaks, stale>>
    BY <1>2 DEF DiffFiles, counts
  <2> QED BY <1>g, <1>c, <1>v, <1>s, <1>o, <1>b, <2>2, <2>3 DEF ToolsTypeOK
<1>3. CASE DiffIndex
  <2>1. patch \cup Staged \in Patches
    BY <1>t DEF Staged, Patches, PollerType
  <2>2. Report("diff", patch \cup Staged) \in Reports
    BY <2>1 DEF Report, Reports
  <2>3. OutboundType'
    BY <1>3, <1>t, <2>2, ReportQueued DEF DiffIndex, OutboundType
  <2>4. PollerType'
    BY <1>3, <1>t DEF DiffIndex, PollerType, Patches
  <2>5. UNCHANGED <<git, changes, command, list, diff, card, socket, breaks, stale>>
    BY <1>3 DEF DiffIndex, counts
  <2> QED BY <1>g, <1>c, <1>v, <1>s, <1>b, <2>3, <2>4, <2>5 DEF ToolsTypeOK
<1>4. CASE FileList \/ GitAction
  <2>1. PICK cmd \in PhoneCommands, step \in {"status"} \cup GitActions : Take(cmd, step)
    BY <1>4 DEF FileList, GitAction, PhoneCommands
  <2>2. UNCHANGED <<git, changes, poll, statuses, sent, list, diff, card, outbound, socket, breaks, stale>>
    BY <1>4 DEF FileList, GitAction, counts
  <2>3. CommandType'
    BY <1>t, <2>1, <2>2, CommandTaken DEF Take, CommandType
  <2> QED BY <1>g, <1>p, <1>v, <1>s, <1>o, <1>b, <2>2, <2>3 DEF ToolsTypeOK
<1>5. CASE GitEnds
  <2>1. /\ handler \in GitActions
        /\ RunGit(handler) \/ UNCHANGED git
        /\ handler' \in {"tools", "idle"}
        /\ Queue(Report("result", handler))
        /\ ActionMoves(~HasRoom)
    BY <1>5 DEF GitEnds
  <2>2. UNCHANGED <<changes, poll, toHandler, statuses, sent, list, diff, socket, breaks, stale>>
    BY <1>5 DEF GitEnds, counts
  <2>3. TreeType'
    BY <1>t, <1>g, <2>1, <2>2, GitType DEF TreeType
  <2>4. CommandType'
    BY <1>t, <2>1, <2>2 DEF CommandType
  <2>5. Report("result", handler) \in Reports
    BY <2>1 DEF Report, Reports
  <2>6. OutboundType'
    BY <1>t, <2>1, <2>5, ReportQueued DEF OutboundType
  <2>7. CardsType'
    BY <1>t, <2>1, <2>2, MovesType DEF CardsType
  <2> QED BY <1>p, <1>s, <1>b, <2>2, <2>3, <2>4, <2>6, <2>7 DEF ToolsTypeOK
<1>6. CASE WorkspaceTools
  <2>1. Report("tools", {}) \in Reports
    BY DEF Report, Reports
  <2>2. OutboundType'
    BY <1>6, <1>t, <2>1, ReportQueued DEF WorkspaceTools, OutboundType
  <2>3. CommandType'
    BY <1>6, <1>t, CommandTaken DEF WorkspaceTools, Take, CommandType
  <2>4. UNCHANGED <<git, changes, poll, list, diff, card, socket, breaks, stale>>
    BY <1>6 DEF WorkspaceTools, counts
  <2> QED BY <1>g, <1>p, <1>v, <1>s, <1>b, <2>2, <2>3, <2>4 DEF ToolsTypeOK
<1>7. CASE ReadStatus
  <2>1. CommandType'
    BY <1>7, <1>t, SnapshotType DEF ReadStatus, CommandType
  <2>2. UNCHANGED <<git, changes, poll, list, diff, card, outbound, socket, breaks, stale>>
    BY <1>7 DEF ReadStatus, counts
  <2> QED BY <1>g, <1>p, <1>v, <1>s, <1>o, <1>b, <2>1, <2>2 DEF ToolsTypeOK
<1>8. CASE ReadPaths
  <2>1. Report("list", ProjectSnapshot(statuses)) \in Reports
    BY <1>t, ProjectType DEF Report, Reports, CommandType
  <2>2. OutboundType'
    BY <1>8, <1>t, <2>1, ReportQueued DEF ReadPaths, OutboundType
  <2>3. CommandType'
    BY <1>8, <1>t DEF ReadPaths, CommandType, States
  <2>4. stale' = (Changes(statuses) # polled) \/ stale' = stale
    BY <1>8 DEF ReadPaths
  <2>5. stale' \in BOOLEAN
    BY <1>b, <2>4
  <2>6. UNCHANGED <<git, changes, poll, list, diff, card, socket, breaks>>
    BY <1>8 DEF ReadPaths, counts
  <2> QED BY <1>g, <1>p, <1>v, <1>s, <2>2, <2>3, <2>5, <2>6 DEF ToolsTypeOK
<1>9. ASSUME NEW cmd \in PhoneCommands, NEW arrives \in Arrives, PhoneSends(cmd, arrives),
             busy' \in BOOLEAN, lost' \in BOOLEAN, freed' \in BOOLEAN
      PROVE ToolsTypeOK'
  <2>1. toHandler' = toHandler \/ toHandler' = Append(toHandler, cmd)
    BY <1>9 DEF PhoneSends
  <2>2. toHandler' \in Seq(PhoneCommands)
    BY <1>t, <1>9, <2>1, AppendProperties DEF CommandType
  <2>3. sent' \in Nat
    BY <1>t, <1>9 DEF PhoneSends, CommandType
  <2>4. UNCHANGED <<git, changes, poll, handler, statuses, list, diff, outbound, socket, breaks, stale>>
    BY <1>9 DEF PhoneSends, counts
  <2>5. CommandType'
    BY <1>t, <2>2, <2>3, <2>4 DEF CommandType
  <2>6. CardsType'
    BY <1>t, <1>9, <2>4 DEF CardsType
  <2> QED BY <1>g, <1>p, <1>s, <1>o, <1>b, <2>4, <2>5, <2>6 DEF ToolsTypeOK
<1>10. CASE RequestFiles \/ RequestWorkspaceTools
  <2>1. PICK cmd \in PhoneCommands, arrives \in Arrives : PhoneSends(cmd, arrives) /\ UNCHANGED card
    BY <1>10 DEF RequestFiles, RequestWorkspaceTools, PhoneCommands
  <2>2. busy' \in BOOLEAN /\ lost' \in BOOLEAN /\ freed' \in BOOLEAN
    BY <1>t, <2>1 DEF card, CardsType
  <2> QED BY <1>9, <2>1, <2>2
<1>11. CASE RunGitAction
  <2>1. PICK action \in GitActions, arrives \in Arrives :
             /\ busy' = (socket # "closed") /\ lost' = (socket # "closed" /\ ~arrives)
             /\ PhoneSends(action, arrives) /\ UNCHANGED freed
    BY <1>11 DEF RunGitAction
  <2>2. busy' \in BOOLEAN /\ lost' \in BOOLEAN /\ freed' \in BOOLEAN
    BY <1>t, <2>1, Zenon DEF CardsType
  <2> QED BY <1>9, <2>1, <2>2 DEF PhoneCommands
<1>12. CASE FileSnapshot
  <2>1. outbound # <<>> /\ outbound' = Tail(outbound) /\ Head(outbound).kind = "list"
    BY <1>12 DEF FileSnapshot, Receive
  <2>2. Head(outbound).data \in Lists
    BY <1>t, <2>1, ReportTaken DEF Reports
  <2>3. OutboundType'
    BY <1>t, <2>1, ReportTaken DEF OutboundType
  <2>4. UNCHANGED <<git, changes, poll, command, diff, card, socket, breaks, stale>>
    BY <1>12 DEF FileSnapshot, counts
  <2>5. CardsType'
    BY <1>12, <1>t, <2>2, <2>4 DEF FileSnapshot, CardsType, card
  <2> QED BY <1>g, <1>p, <1>c, <1>s, <1>b, <2>3, <2>4, <2>5 DEF ToolsTypeOK
<1>13. CASE DiffReady
  <2>1. outbound # <<>> /\ outbound' = Tail(outbound) /\ Head(outbound).kind = "diff"
    BY <1>13 DEF DiffReady, Receive
  <2>2. Head(outbound).data \in Patches
    BY <1>t, <2>1, ReportTaken DEF Reports
  <2>3. OutboundType'
    BY <1>t, <2>1, ReportTaken DEF OutboundType
  <2>4. UNCHANGED <<git, changes, poll, command, list, card, socket, breaks, stale>>
    BY <1>13 DEF DiffReady, counts
  <2>5. CardsType'
    BY <1>13, <1>t, <2>2, <2>4 DEF DiffReady, CardsType, card
  <2> QED BY <1>g, <1>p, <1>c, <1>s, <1>b, <2>3, <2>4, <2>5 DEF ToolsTypeOK
<1>14. CASE GitActionResult \/ ToolsReady \/ LoseReport
  <2>1. outbound # <<>> /\ outbound' = Tail(outbound)
    BY <1>14 DEF GitActionResult, ToolsReady, LoseReport, Receive
  <2>2. OutboundType'
    BY <1>t, <2>1, ReportTaken DEF OutboundType
  <2>3. UNCHANGED <<git, changes, poll, command, list, diff, socket, breaks>>
    BY <1>14 DEF GitActionResult, ToolsReady, LoseReport, counts
  <2>4. CardsType'
    <3>1. CardIsFreed(FALSE) \/ UNCHANGED card \/ ActionMoves(Head(outbound).kind = "result")
      BY <1>14 DEF GitActionResult, ToolsReady, LoseReport
    <3>2. busy' \in BOOLEAN /\ lost' \in BOOLEAN /\ freed' \in BOOLEAN
      BY <1>t, <3>1, FreedType, MovesType DEF card, CardsType
    <3> QED BY <1>t, <2>3, <3>2 DEF CardsType
  <2>5. \/ UNCHANGED stale
        \/ stale' = (stale \/ (Head(outbound).kind = "list" /\ ~HasList(Tail(outbound))))
    BY <1>14 DEF GitActionResult, ToolsReady, LoseReport
  <2>6. stale' \in BOOLEAN
    BY <1>b, <2>5, Zenon
  <2> QED BY <1>g, <1>p, <1>c, <1>s, <2>2, <2>3, <2>4, <2>6 DEF ToolsTypeOK
<1>15. CASE SocketReturns
  <2>1. UNCHANGED <<git, changes, poll, command, list, diff, card, outbound>>
    BY <1>15 DEF SocketReturns, counts
  <2>2. SocketType'
    BY <1>15, <1>t DEF SocketReturns, counts, SocketType
  <2> QED BY <1>g, <1>p, <1>c, <1>v, <1>o, <2>1, <2>2 DEF ToolsTypeOK
<1>16. CASE SessionEvent \/ SocketLost \/ Leave \/ NewSession \/ ShowHistory
  <2>1. UNCHANGED <<git, changes, poll, outbound>> /\ breaks' = breaks + 1 /\ CardIsFreed(TRUE)
    BY <1>16 DEF SessionEvent, SocketLost, Leave, NewSession, ShowHistory, StartOver, Break
  <2>2. UNCHANGED command \/ CommandsAreLost
    <3>1. CASE SessionEvent
      BY <3>1 DEF SessionEvent
    <3>2. CASE ShowHistory
      BY <3>2 DEF ShowHistory
    <3>3. CASE SocketLost
      BY <3>3 DEF SocketLost
    <3>4. CASE Leave
      BY <3>4 DEF Leave
    <3>5. CASE NewSession
      BY <3>5 DEF NewSession
    <3> QED BY <1>16, <3>1, <3>2, <3>3, <3>4, <3>5
  <2>3. CommandType'
    BY <1>t, <1>c, <2>2, CommandsLost DEF CommandsAreLost, CommandType
  <2>4. socket' \in {"up", "down", "closed"}
    BY <1>16, <1>t DEF SessionEvent, SocketLost, Leave, NewSession, ShowHistory, SocketType
  <2>5. UNCHANGED stale \/ stale' = (stale \/ ~HasList(outbound))
    BY <1>16 DEF SessionEvent, SocketLost, Leave, NewSession, ShowHistory, StartOver
  <2>6. stale' \in BOOLEAN
    BY <1>b, <2>5, Zenon
  <2>7. SocketType'
    BY <1>t, <2>1, <2>4, <2>6 DEF SocketType
  <2>8. UNCHANGED <<list, diff>> \/ (list' = [p \in Tree |-> "none"] /\ diff' = {})
    BY <1>16 DEF SessionEvent, SocketLost, Leave, NewSession, ShowHistory, StartOver
  <2>9. list' \in Lists /\ diff' \in Patches
    BY <1>t, <2>8 DEF CardsType, Lists, Patches, States
  <2>10. CardsType'
    BY <2>1, <2>9, FreedType DEF CardsType
  <2> QED BY <1>g, <1>p, <1>o, <2>1, <2>3, <2>7, <2>10 DEF ToolsTypeOK
<1>17. ASSUME NEW p \in Tree, Edit(p) PROVE ToolsTypeOK'
  <2>1. TreeType'
    BY <1>17, <1>t DEF Edit, TreeType
  <2>2. UNCHANGED <<poll, command, list, diff, card, outbound, socket, breaks, stale>>
    BY <1>17 DEF Edit
  <2> QED BY <1>p, <1>c, <1>v, <1>o, <1>s, <1>b, <2>1, <2>2 DEF ToolsTypeOK
<1>18. ASSUME NEW action \in GitActions, GitElsewhere(action) PROVE ToolsTypeOK'
  <2>1. TreeType'
    BY <1>18, <1>t, GitType DEF GitElsewhere, TreeType
  <2>2. UNCHANGED <<poll, command, list, diff, card, outbound, socket, breaks, stale>>
    BY <1>18 DEF GitElsewhere
  <2> QED BY <1>p, <1>c, <1>v, <1>o, <1>s, <1>b, <2>1, <2>2 DEF ToolsTypeOK
<1>19. CASE UNCHANGED tools
  <2>1. UNCHANGED <<git, changes, poll, command, list, diff, card, outbound, socket, breaks, stale>>
    BY <1>19 DEF tools, counts
  <2> QED BY <1>g, <1>p, <1>c, <1>v, <1>o, <1>s, <1>b, <2>1 DEF ToolsTypeOK
<1> QED
  BY <1>1, <1>2, <1>3, <1>4, <1>5, <1>6, <1>7, <1>8, <1>10, <1>11, <1>12, <1>13, <1>14, <1>15,
     <1>16, <1>17, <1>18, <1>19
  DEF ToolsNext, Poll, ToolsHandler, Deliver, Session

\* The types of WorkspaceTools: the outbound queue keeps its capacity, and whatever the
\* agent does between two calls of git, a path of a list has one state (queue, parseStatus).
THEOREM ToolsTypeCorrect == ToolsSpec => []ToolsTypeOK
  BY ToolsTypeInit, ToolsTypeNext, PTL DEF ToolsSpec

-----------------------------------------------------------------------------
(* The git card *)

\* The positions of a sequence at which there is a member of S.
At(s, S) == {i \in DOMAIN s : s[i] \in S}

LEMMA AtAppend ==
  ASSUME NEW T, NEW s \in Seq(T), NEW x \in T, NEW S
  PROVE  At(Append(s, x), S) = At(s, S) \cup (IF x \in S THEN {Len(s) + 1} ELSE {})
<1> DEFINE t == Append(s, x)
<1>1. /\ Len(s) \in Nat /\ DOMAIN s = 1..Len(s) /\ DOMAIN t = 1..(Len(s) + 1)
      /\ (\A i \in 1..Len(s) : t[i] = s[i]) /\ t[Len(s) + 1] = x
  BY AppendProperties, LenProperties
<1>2. 1..(Len(s) + 1) = 1..Len(s) \cup {Len(s) + 1}
  BY <1>1
<1> HIDE DEF t
<1>3. At(t, S) = {i \in 1..Len(s) : t[i] \in S} \cup {i \in {Len(s) + 1} : t[i] \in S}
  BY <1>1, <1>2 DEF At
<1>4. At(s, S) = {i \in 1..Len(s) : t[i] \in S}
  BY <1>1 DEF At
<1>5. {i \in {Len(s) + 1} : t[i] \in S} = IF x \in S THEN {Len(s) + 1} ELSE {}
  BY <1>1
<1> QED BY <1>3, <1>4, <1>5 DEF t

LEMMA AtTail ==
  ASSUME NEW T, NEW s \in Seq(T), s # <<>>, NEW S
  PROVE  /\ At(s, S) = {} => Head(s) \notin S /\ At(Tail(s), S) = {}
         /\ Head(s) \notin S /\ At(Tail(s), S) = {} => At(s, S) = {}
         /\ \A i : At(s, S) = {i} => At(Tail(s), S) = (IF Head(s) \in S THEN {} ELSE {i - 1})
<1>1. /\ Len(s) \in Nat \ {0} /\ DOMAIN s = 1..Len(s) /\ Head(s) = s[1]
      /\ DOMAIN Tail(s) = 1..(Len(s) - 1)
      /\ \A j \in 1..(Len(s) - 1) : Tail(s)[j] = s[j + 1]
  BY HeadTailProperties, LenProperties, EmptySeq
<1>2. \A j : j \in At(Tail(s), S) <=> j \in 1..(Len(s) - 1) /\ j + 1 \in At(s, S)
  BY <1>1 DEF At
<1>3. Head(s) \in S <=> 1 \in At(s, S)
  BY <1>1 DEF At
<1>4. At(s, S) = {} => Head(s) \notin S /\ At(Tail(s), S) = {}
  BY <1>2, <1>3
<1>5. ASSUME NEW i, At(s, S) = {i}
      PROVE  At(Tail(s), S) = (IF Head(s) \in S THEN {} ELSE {i - 1})
  <2>1. i \in 1..Len(s)
    BY <1>1, <1>5 DEF At
  <2>2. CASE Head(s) \in S
    <3>1. i = 1
      BY <1>3, <1>5, <2>2
    <3>2. ASSUME NEW j \in At(Tail(s), S) PROVE FALSE
      BY <1>2, <1>5, <3>1, <3>2
    <3> QED BY <2>2, <3>2
  <2>3. CASE Head(s) \notin S
    <3>1. i # 1
      BY <1>3, <1>5, <2>3
    <3>2. i - 1 \in At(Tail(s), S)
      BY <1>1, <1>2, <1>5, <2>1, <3>1
    <3>3. ASSUME NEW j \in At(Tail(s), S) PROVE j = i - 1
      BY <1>2, <1>5, <2>1
    <3> QED BY <2>3, <3>2, <3>3
  <2> QED BY <2>2, <2>3
<1>6. ASSUME Head(s) \notin S, At(Tail(s), S) = {}, NEW j \in At(s, S) PROVE FALSE
  <2>1. j \in 1..Len(s) /\ j # 1
    BY <1>1, <1>3, <1>6 DEF At
  <2>2. j - 1 \in 1..(Len(s) - 1) /\ (j - 1) + 1 = j
    BY <1>1, <2>1
  <2>3. j - 1 \in At(Tail(s), S)
    BY <1>2, <1>6, <2>2
  <2> QED BY <1>6, <2>3
<1> QED BY <1>4, <1>5, <1>6

ResultReports == [kind : {"result"}, data : GitActions]
Asked == At(toHandler, GitActions)
Running == handler \in GitActions
Answered == At(outbound, ResultReports)

\* No git action is under way.
Quiet == Asked = {} /\ ~Running /\ Answered = {}

\* Exactly one is: asked, running or answered.
One ==
  \/ (\E i : Asked = {i}) /\ ~Running /\ Answered = {}
  \/ Asked = {} /\ Running /\ Answered = {}
  \/ Asked = {} /\ ~Running /\ \E i : Answered = {i}

\* GitCardIsExact, said of the two channels and of the handler.
CardInv ==
  /\ busy /\ ~lost => ~Quiet
  /\ ~freed => IF busy /\ ~lost THEN One ELSE Quiet

ToolsInv == ToolsTypeOK /\ CardInv

LEMMA UnderwayIs ==
  OutboundType =>
    Underway = {<<"command", i>> : i \in Asked}
                 \cup {<<"git", h>> : h \in {handler} \cap GitActions}
                 \cup {<<"result", i>> : i \in Answered}
<1> SUFFICES ASSUME OutboundType
             PROVE  Underway = {<<"command", i>> : i \in Asked}
                                 \cup {<<"git", h>> : h \in {handler} \cap GitActions}
                                 \cup {<<"result", i>> : i \in Answered}
  OBVIOUS
<1>1. Asked = {j \in DOMAIN toHandler : toHandler[j] \in GitActions}
  BY DEF Asked, At
<1>2. Answered = {j \in DOMAIN outbound : outbound[j].kind = "result"}
  <2>1. \A j \in DOMAIN outbound : outbound[j] \in Reports
    BY ElementOfSeq, LenProperties DEF OutboundType
  <2>2. \A r \in Reports : r \in ResultReports <=> r.kind = "result"
    BY DEF Reports, ResultReports
  <2> QED BY <2>1, <2>2 DEF Answered, At
<1> QED BY <1>1, <1>2 DEF Underway

\* Quiet says of the channels what Underway = {} says of them together.
LEMMA QuietIs == OutboundType => (Underway = {} <=> Quiet)
<1> SUFFICES ASSUME OutboundType PROVE Underway = {} <=> Quiet
  OBVIOUS
<1>1. Running <=> {handler} \cap GitActions # {}
  BY DEF Running
<1>2. CASE Underway = {}
  <2>1. \A i \in Asked : <<"command", i>> \in Underway
    BY UnderwayIs
  <2>2. \A h \in {handler} \cap GitActions : <<"git", h>> \in Underway
    BY UnderwayIs
  <2>3. \A i \in Answered : <<"result", i>> \in Underway
    BY UnderwayIs
  <2> QED BY <1>1, <1>2, <2>1, <2>2, <2>3 DEF Quiet
<1>3. CASE Quiet
  BY <1>1, <1>3, UnderwayIs DEF Quiet
<1> QED BY <1>2, <1>3

LEMMA QuietIsNext == (OutboundType => (Underway = {} <=> Quiet))'
  BY QuietIs, PTL

LEMMA OneIs == OutboundType /\ One => \E u \in Underway : Underway = {u}
<1> SUFFICES ASSUME OutboundType, One PROVE \E u \in Underway : Underway = {u}
  OBVIOUS
<1>1. CASE (\E i : Asked = {i}) /\ ~Running /\ Answered = {}
  <2>1. PICK i : Asked = {i}
    BY <1>1
  <2>2. Underway = {<<"command", i>>}
    BY <1>1, <2>1, UnderwayIs DEF Running
  <2> QED BY <2>2
<1>2. CASE Asked = {} /\ Running /\ Answered = {}
  <2>1. Underway = {<<"git", handler>>}
    BY <1>2, UnderwayIs DEF Running
  <2> QED BY <2>1
<1>3. CASE Asked = {} /\ ~Running /\ \E i : Answered = {i}
  <2>1. PICK i : Answered = {i}
    BY <1>3
  <2>2. Underway = {<<"result", i>>}
    BY <1>3, <2>1, UnderwayIs DEF Running
  <2> QED BY <2>2
<1> QED BY <1>1, <1>2, <1>3 DEF One

LEMMA CardIsExact == ToolsInv => GitCardIsExact
<1> SUFFICES ASSUME ToolsInv PROVE GitCardIsExact
  OBVIOUS
<1>1. OutboundType /\ CardInv
  BY DEF ToolsInv, ToolsTypeOK
<1> QED BY <1>1, QuietIs, OneIs DEF CardInv, GitCardIsExact

LEMMA CardAtFirst == ToolsInit => CardInv
  BY DEF ToolsInit, CardInv, Quiet, Running, Asked, Answered, At, GitActions

\* What is queued is a result, lost or not, or leaves the results as they are.
LEMMA AnswersQueued ==
  ASSUME OutboundType, NEW e \in Reports, Queue(e)
  PROVE  /\ e.kind # "result" => UNCHANGED Answered
         /\ e.kind = "result" =>
              Answered' = IF HasRoom THEN Answered \cup {Len(outbound) + 1} ELSE Answered
<1>1. e \in ResultReports <=> e.kind = "result"
  BY DEF Reports, ResultReports
<1>2. At(Append(outbound, e), ResultReports)
        = Answered \cup (IF e \in ResultReports THEN {Len(outbound) + 1} ELSE {})
  BY AtAppend DEF OutboundType, Answered
<1>3. outbound' = IF HasRoom THEN Append(outbound, e) ELSE outbound
  BY DEF Queue
<1>4. Answered' = At(outbound', ResultReports)
  BY DEF Answered, ResultReports, GitActions
<1>5. CASE HasRoom
  BY <1>1, <1>2, <1>3, <1>4, <1>5
<1>6. CASE ~HasRoom
  BY <1>3, <1>4, <1>6 DEF Answered
<1> QED BY <1>5, <1>6

\* A report leaves the queue: the only result, or another event.
LEMMA AnswersTaken ==
  ASSUME OutboundType, outbound # <<>>, outbound' = Tail(outbound)
  PROVE  /\ Head(outbound).kind # "result" =>
              /\ Answered' = {} <=> Answered = {}
              /\ \A k : Answered = {k} => Answered' = {k - 1}
         /\ Head(outbound).kind = "result" =>
              Answered # {} /\ \A k : Answered = {k} => Answered' = {}
<1>1. outbound \in Seq(Reports)
  BY DEF OutboundType
<1>2. Head(outbound) \in ResultReports <=> Head(outbound).kind = "result"
  BY ReportTaken DEF Reports, ResultReports
<1>3. Answered' = At(Tail(outbound), ResultReports)
  BY DEF Answered, At, ResultReports, GitActions
<1> QED BY <1>1, <1>2, <1>3, AtTail DEF Answered

\* A command leaves for the handler: the only git action, or another command.
LEMMA CommandsTaken ==
  ASSUME CommandType, NEW cmd, NEW step, Take(cmd, step)
  PROVE  /\ cmd \notin GitActions =>
              /\ Asked' = {} <=> Asked = {}
              /\ \A k : Asked = {k} => Asked' = {k - 1}
         /\ cmd \in GitActions => Asked # {} /\ \A k : Asked = {k} => Asked' = {}
<1>1. /\ toHandler \in Seq(PhoneCommands) /\ toHandler # <<>> /\ Head(toHandler) = cmd
      /\ toHandler' = Tail(toHandler)
  BY DEF Take, CommandType
<1>2. Asked' = At(Tail(toHandler), GitActions)
  BY <1>1 DEF Asked, At, GitActions
<1> QED BY <1>1, <1>2, AtTail DEF Asked

LEMMA OneIsNotQuiet == One => ~Quiet
  BY DEF One, Quiet

\* A step that leaves the card alone, and does not change whether and how many git
\* actions are under way.
LEMMA SameShape ==
  ASSUME CardInv, UNCHANGED <<busy, lost, freed>>, Quiet' <=> Quiet, One => One'
  PROVE  CardInv'
  BY DEF CardInv

\* A git action moves on, or its result is gone.
LEMMA ShapeMoves ==
  ASSUME CardInv, OutboundType', NEW gone \in BOOLEAN, ActionMoves(gone),
         ~gone => (Quiet' <=> Quiet) /\ (One => One'),
         gone => ~Quiet /\ (One => Quiet')
  PROVE  CardInv'
<1>1. /\ lost' <=> lost \/ (gone /\ busy /\ Quiet')
      /\ freed' <=> freed /\ ~Quiet'
      /\ busy' <=> busy
  BY QuietIsNext DEF ActionMoves
<1> QED BY <1>1 DEF CardInv

\* The card is freed: by a result, or by another event, which leaves none under way that
\* was not there.
LEMMA ShapeFreed ==
  ASSUME CardInv, OutboundType', NEW early \in BOOLEAN, CardIsFreed(early),
         early => (Quiet => Quiet'),
         ~early => ~Quiet /\ (One => Quiet')
  PROVE  CardInv'
<1>1. ~busy' /\ (freed' <=> (freed \/ (early /\ busy)) /\ ~Quiet')
  BY QuietIsNext DEF CardIsFreed
<1> QED BY <1>1 DEF CardInv

LEMMA CardKept == ToolsInv /\ ToolsTypeOK' /\ [ToolsNext]_tools => CardInv'
<1> SUFFICES ASSUME ToolsInv, ToolsTypeOK', [ToolsNext]_tools PROVE CardInv'
  OBVIOUS
<1>t. CommandType /\ OutboundType /\ OutboundType' /\ CardInv /\ PollerType /\ CardsType
  BY DEF ToolsInv, ToolsTypeOK
<1>0. ASSUME UNCHANGED <<busy, lost, freed, Asked, Answered>>, Running' <=> Running PROVE CardInv'
  BY <1>t, <1>0, SameShape DEF Quiet, One
<1>a. UNCHANGED toHandler => UNCHANGED Asked
  BY DEF Asked, At, GitActions
<1>b. UNCHANGED outbound => UNCHANGED Answered
  BY DEF Answered, At, ResultReports, GitActions
<1>h. UNCHANGED handler => (Running' <=> Running)
  BY DEF Running, GitActions
<1>n. ~Running' <=> handler' \notin GitActions
  BY DEF Running, GitActions
<1>1. CASE Emit
  <2>1. Report("list", GitSnapshot) \in Reports /\ Report("list", GitSnapshot).kind # "result"
    BY SnapshotType DEF Report, Reports
  <2>2. UNCHANGED Answered
    BY <1>1, <1>t, <2>1, AnswersQueued DEF Emit
  <2>3. UNCHANGED <<busy, lost, freed, toHandler, handler>>
    BY <1>1 DEF Emit, command, card
  <2> QED BY <1>0, <1>a, <1>h, <2>2, <2>3
<1>2. CASE DiffFiles
  <2>1. UNCHANGED <<busy, lost, freed, toHandler, handler, outbound>>
    BY <1>2 DEF DiffFiles, command, card
  <2> QED BY <1>0, <1>a, <1>b, <1>h, <2>1
<1>3. CASE DiffIndex
  <2>1. /\ Report("diff", patch \cup Staged) \in Reports
        /\ Report("diff", patch \cup Staged).kind # "result"
    BY <1>t DEF Report, Reports, Staged, Patches, PollerType
  <2>2. UNCHANGED Answered
    BY <1>3, <1>b, <1>t, <2>1, AnswersQueued DEF DiffIndex
  <2>3. UNCHANGED <<busy, lost, freed, toHandler, handler>>
    BY <1>3 DEF DiffIndex, command, card
  <2> QED BY <1>0, <1>a, <1>h, <2>2, <2>3
<1>4. ASSUME NEW cmd, NEW step, Take(cmd, step), cmd \notin GitActions, step \notin GitActions,
             UNCHANGED <<busy, lost, freed, Answered>>
      PROVE CardInv'
  <2>1. ~Running /\ ~Running'
    BY <1>4, <1>n DEF Take, Running, GitActions
  <2>2. /\ Asked' = {} <=> Asked = {}
        /\ \A k : Asked = {k} => Asked' = {k - 1}
    BY <1>4, <1>t, CommandsTaken
  <2> QED BY <1>4, <1>t, <2>1, <2>2, SameShape DEF Quiet, One
<1>5. CASE FileList
  <2>1. Take("file_list", "status") /\ UNCHANGED <<busy, lost, freed, outbound>>
    BY <1>5 DEF FileList, card
  <2> QED BY <1>4, <1>b, <2>1 DEF GitActions
<1>6. CASE WorkspaceTools
  <2>1. Report("tools", {}) \in Reports /\ Report("tools", {}).kind # "result"
    BY DEF Report, Reports
  <2>2. UNCHANGED <<busy, lost, freed, Answered>>
    BY <1>6, <1>t, <2>1, AnswersQueued DEF WorkspaceTools, card
  <2>3. CASE handler = "tools" /\ handler' = "status" /\ UNCHANGED toHandler
    BY <1>0, <1>a, <1>n, <2>2, <2>3 DEF Running, GitActions
  <2>4. CASE Take("workspace_tools", "idle")
    BY <1>4, <2>2, <2>4 DEF GitActions
  <2> QED BY <1>6, <2>3, <2>4 DEF WorkspaceTools
<1>7. CASE GitAction
  <2>1. PICK action \in GitActions : Take(action, action)
    BY <1>7 DEF GitAction
  <2>2. UNCHANGED <<busy, lost, freed, Answered>>
    BY <1>7, <1>b DEF GitAction, card
  <2>3. Asked # {} /\ (\A k : Asked = {k} => Asked' = {})
    BY <1>t, <2>1, CommandsTaken
  <2>4. ~Running /\ Running'
    BY <1>n, <2>1 DEF Take, Running, GitActions
  <2> QED BY <1>t, <2>2, <2>3, <2>4, SameShape DEF Quiet, One
<1>8. CASE GitEnds
  <2>1. Running /\ ~Running' /\ UNCHANGED Asked
    BY <1>8, <1>a, <1>n DEF GitEnds, Running, GitActions
  <2>2. /\ Report("result", handler) \in Reports
        /\ Report("result", handler).kind = "result"
    BY <1>8 DEF GitEnds, Report, Reports
  <2>3. Answered' = IF HasRoom THEN Answered \cup {Len(outbound) + 1} ELSE Answered
    BY <1>8, <1>t, <2>2, AnswersQueued DEF GitEnds
  <2>4. ActionMoves(~HasRoom)
    BY <1>8 DEF GitEnds
  <2>5. HasRoom => ~Quiet' /\ ~Quiet /\ (One => One')
    BY <2>1, <2>3 DEF Quiet, One
  <2>6. ~HasRoom => ~Quiet /\ (One => Quiet')
    BY <2>1, <2>3 DEF Quiet, One
  <2> QED BY <1>t, <2>4, <2>5, <2>6, ShapeMoves
<1>9. CASE ReadStatus
  <2>1. UNCHANGED <<busy, lost, freed, toHandler, outbound>>
    BY <1>9 DEF ReadStatus, card
  <2>2. ~Running /\ ~Running'
    BY <1>9, <1>n DEF ReadStatus, Running, GitActions
  <2> QED BY <1>0, <1>a, <1>b, <2>1, <2>2
<1>10. CASE ReadPaths
  <2>1. /\ Report("list", ProjectSnapshot(statuses)) \in Reports
        /\ Report("list", ProjectSnapshot(statuses)).kind # "result"
    BY <1>t, ProjectType DEF Report, Reports, CommandType
  <2>2. UNCHANGED Answered
    BY <1>10, <1>t, <2>1, AnswersQueued DEF ReadPaths
  <2>3. UNCHANGED <<busy, lost, freed, toHandler>>
    BY <1>10 DEF ReadPaths, card
  <2>4. ~Running /\ ~Running'
    BY <1>10, <1>n DEF ReadPaths, Running, GitActions
  <2> QED BY <1>0, <1>a, <2>2, <2>3, <2>4
<1>11. ASSUME NEW cmd \in PhoneCommands, NEW arrives \in Arrives, PhoneSends(cmd, arrives)
       PROVE  /\ Asked' = IF arrives /\ cmd \in GitActions THEN Asked \cup {Len(toHandler) + 1}
                            ELSE Asked
              /\ UNCHANGED Answered /\ (Running' <=> Running)
  <2>1. toHandler' = IF arrives THEN Append(toHandler, cmd) ELSE toHandler
    BY <1>11 DEF PhoneSends
  <2>2. Asked' = At(toHandler', GitActions)
    BY DEF Asked, At, GitActions
  <2>3. At(Append(toHandler, cmd), GitActions)
          = Asked \cup (IF cmd \in GitActions THEN {Len(toHandler) + 1} ELSE {})
    BY <1>t, AtAppend DEF Asked, CommandType
  <2>4. Asked' = IF arrives /\ cmd \in GitActions THEN Asked \cup {Len(toHandler) + 1} ELSE Asked
    BY <2>1, <2>2, <2>3 DEF Asked
  <2> QED BY <1>11, <1>b, <1>h, <2>4 DEF PhoneSends
<1>12. CASE RequestFiles \/ RequestWorkspaceTools
  <2>1. PICK cmd \in {"file_list", "workspace_tools"}, arrives \in Arrives :
               PhoneSends(cmd, arrives) /\ UNCHANGED card
    BY <1>12 DEF RequestFiles, RequestWorkspaceTools
  <2>2. UNCHANGED <<Asked, Answered>> /\ (Running' <=> Running)
    BY <1>11, <2>1 DEF PhoneCommands, GitActions
  <2> QED BY <1>0, <2>1, <2>2 DEF card
<1>13. CASE RunGitAction
  <2>1. PICK action \in GitActions, arrives \in Arrives :
             /\ ~busy
             /\ busy' = (socket # "closed") /\ lost' = (socket # "closed" /\ ~arrives)
             /\ PhoneSends(action, arrives) /\ UNCHANGED freed
    BY <1>13 DEF RunGitAction
  <2>2. /\ Asked' = IF arrives THEN Asked \cup {Len(toHandler) + 1} ELSE Asked
        /\ UNCHANGED Answered /\ (Running' <=> Running)
    BY <1>11, <2>1 DEF PhoneCommands
  <2>3. ~freed => Quiet
    BY <1>t, <2>1 DEF CardInv
  <2>4. CASE arrives
    <3>1. Asked' # {}
      BY <2>2, <2>4
    <3>2. busy' /\ ~lost'
      BY <2>1, <2>4 DEF Arrives
    <3>3. ~freed => One'
      BY <2>2, <2>3, <2>4 DEF One, Quiet
    <3>4. ~Quiet'
      BY <3>1 DEF Quiet
    <3> QED BY <2>1, <3>2, <3>3, <3>4 DEF CardInv
  <2>5. CASE ~arrives
    <3>1. ~freed => Quiet'
      BY <2>2, <2>3, <2>5 DEF Quiet
    <3>2. busy' => lost'
      BY <2>1, <2>5
    <3> QED BY <2>1, <3>1, <3>2 DEF CardInv
  <2> QED BY <2>4, <2>5
<1>14. CASE FileSnapshot \/ DiffReady \/ ToolsReady
  <2>1. outbound # <<>> /\ outbound' = Tail(outbound) /\ Head(outbound).kind # "result"
    BY <1>14 DEF FileSnapshot, DiffReady, ToolsReady, Receive
  <2>2. UNCHANGED <<busy, lost, freed, toHandler, handler>>
    BY <1>14 DEF FileSnapshot, DiffReady, ToolsReady, command, card
  <2>3. /\ Answered' = {} <=> Answered = {}
        /\ \A k : Answered = {k} => Answered' = {k - 1}
    BY <1>t, <2>1, AnswersTaken
  <2>4. UNCHANGED Asked /\ (Running' <=> Running)
    BY <1>a, <1>h, <2>2
  <2> QED BY <1>t, <2>2, <2>3, <2>4, SameShape DEF Quiet, One
<1>15. CASE GitActionResult
  <2>1. /\ outbound # <<>> /\ outbound' = Tail(outbound) /\ Head(outbound).kind = "result"
        /\ CardIsFreed(FALSE) /\ UNCHANGED <<toHandler, handler>>
    BY <1>15 DEF GitActionResult, Receive, command
  <2>2. Answered # {} /\ (\A k : Answered = {k} => Answered' = {})
    BY <1>t, <2>1, AnswersTaken
  <2>3. ~Quiet /\ (One => Quiet')
    BY <1>a, <1>h, <2>1, <2>2 DEF Quiet, One
  <2> QED BY <1>t, <2>1, <2>3, ShapeFreed
<1>16. CASE LoseReport
  <2>1. /\ outbound # <<>> /\ outbound' = Tail(outbound)
        /\ ActionMoves(Head(outbound).kind = "result") /\ UNCHANGED <<toHandler, handler>>
    BY <1>16 DEF LoseReport, command
  <2>2. UNCHANGED Asked /\ (Running' <=> Running)
    BY <1>a, <1>h, <2>1
  <2>3. Head(outbound).kind # "result" => (Quiet' <=> Quiet) /\ (One => One')
    BY <1>t, <2>1, <2>2, AnswersTaken DEF Quiet, One
  <2>4. Head(outbound).kind = "result" => ~Quiet /\ (One => Quiet')
    BY <1>t, <2>1, <2>2, AnswersTaken DEF Quiet, One
  <2> QED BY <1>t, <2>1, <2>3, <2>4, ShapeMoves
<1>17. CASE SocketReturns
  <2>1. UNCHANGED <<busy, lost, freed, toHandler, handler, outbound>>
    BY <1>17 DEF SocketReturns, command, card
  <2> QED BY <1>0, <1>a, <1>b, <1>h, <2>1
<1>18. ASSUME CardIsFreed(TRUE), UNCHANGED outbound, UNCHANGED command \/ CommandsAreLost
       PROVE  CardInv'
  <2>1. UNCHANGED handler
    BY <1>18 DEF command, CommandsAreLost
  <2>2. DOMAIN toHandler' \subseteq DOMAIN toHandler
          /\ \A i \in DOMAIN toHandler' : toHandler'[i] = toHandler[i]
    BY <1>t, <1>18, CommandsLost DEF command
  <2>3. Asked = {} => Asked' = {}
    BY <2>2 DEF Asked, At, GitActions
  <2>4. Quiet => Quiet'
    BY <1>b, <1>h, <1>18, <2>1, <2>3 DEF Quiet
  <2> QED BY <1>t, <1>18, <2>4, ShapeFreed
<1>19. CASE SessionEvent
  BY <1>18, <1>19 DEF SessionEvent
<1>20. CASE SocketLost
  BY <1>18, <1>20 DEF SocketLost
<1>21. CASE Leave
  BY <1>18, <1>21 DEF Leave
<1>22. CASE NewSession
  BY <1>18, <1>22 DEF NewSession, StartOver
<1>23. CASE ShowHistory
  BY <1>18, <1>23 DEF ShowHistory, StartOver
<1>24. ASSUME NEW p \in Tree, Edit(p) PROVE CardInv'
  <2>1. UNCHANGED <<busy, lost, freed, toHandler, handler, outbound>>
    BY <1>24 DEF Edit, command, card
  <2> QED BY <1>0, <1>a, <1>b, <1>h, <2>1
<1>25. ASSUME NEW action \in GitActions, GitElsewhere(action) PROVE CardInv'
  <2>1. UNCHANGED <<busy, lost, freed, toHandler, handler, outbound>>
    BY <1>25 DEF GitElsewhere, command, card
  <2> QED BY <1>0, <1>a, <1>b, <1>h, <2>1
<1>26. CASE UNCHANGED tools
  <2>1. UNCHANGED <<busy, lost, freed, toHandler, handler, outbound>>
    BY <1>26 DEF tools, command, card
  <2> QED BY <1>0, <1>a, <1>b, <1>h, <2>1
<1> QED
  BY <1>1, <1>2, <1>3, <1>5, <1>6, <1>7, <1>8, <1>9, <1>10, <1>12, <1>13, <1>14, <1>15, <1>16,
     <1>17, <1>19, <1>20, <1>21, <1>22, <1>23, <1>24, <1>25, <1>26
  DEF ToolsNext, Poll, ToolsHandler, Deliver, Session

\* A busy git card has its action to wait for, unless one was lost, and until an error, a
\* lost socket or another session frees it early it is the card of exactly one action
\* (runGitAction, handleCiphertext, git_action_result, error, disconnect, openHistory).
THEOREM GitCardIsExactAlways == ToolsSpec => []GitCardIsExact
<1>1. ToolsInit => ToolsInv
  BY ToolsTypeInit, CardAtFirst DEF ToolsInv
<1>2. ToolsInv /\ [ToolsNext]_tools => ToolsInv'
  BY ToolsTypeNext, CardKept DEF ToolsInv
<1> QED BY <1>1, <1>2, CardIsExact, PTL DEF ToolsSpec

-----------------------------------------------------------------------------
(* The poller and the phone's list *)

\* The fingerprint of a tree tells what of it is on the list.
ListOfLast == polled = {<<p, last[p][1]>> : p \in {q \in Tree : last[q] # <<>>}}

LEMMA FingerprintTells ==
  ASSUME NEW l, l = Fingerprint(GitSnapshot)
  PROVE  Changes(GitSnapshot) = {<<p, l[p][1]>> : p \in {q \in Tree : l[q] # <<>>}}
<1>1. ASSUME NEW p \in Tree
      PROVE  /\ GitSnapshot[p] \notin {"none", "tracked"} <=> l[p] # <<>>
             /\ l[p] # <<>> => l[p][1] = GitSnapshot[p]
  <2>1. GitSnapshot[p] \in States
    BY SnapshotType
  <2>2. l[p] = IF GitSnapshot[p] = "none" THEN <<>> ELSE <<GitSnapshot[p], work[p]>>
    BY DEF Fingerprint
  <2> QED BY <2>1, <2>2 DEF States
<1> QED BY <1>1 DEF Changes

LEMMA ListOfLastKept == ListOfLast /\ [ToolsNext]_tools => ListOfLast'
<1> SUFFICES ASSUME ListOfLast, [ToolsNext]_tools PROVE ListOfLast'
  OBVIOUS
<1>1. CASE Emit
  <2>1. last' = Fingerprint(GitSnapshot) /\ polled' = Changes(GitSnapshot)
    BY <1>1 DEF Emit
  <2> QED BY <2>1, FingerprintTells DEF ListOfLast, Tree
<1>2. CASE UNCHANGED <<last, polled>>
  BY <1>2 DEF ListOfLast, Tree
<1>3. Emit \/ UNCHANGED <<last, polled>>
  <2>1. DiffFiles \/ DiffIndex \/ ToolsHandler \/ GitEnds => UNCHANGED <<last, polled>>
    BY DEF DiffFiles, DiffIndex, ToolsHandler, FileList, GitAction, GitEnds, WorkspaceTools, ReadStatus,
           ReadPaths, poll
  <2>2. Deliver => UNCHANGED <<last, polled>>
    BY DEF Deliver, FileSnapshot, DiffReady, GitActionResult, ToolsReady, LoseReport, poll
  <2>3. Session => UNCHANGED <<last, polled>>
    BY DEF Session, SessionEvent, SocketLost, SocketReturns, Leave, NewSession, ShowHistory, StartOver, poll
  <2>4. RequestFiles \/ RequestWorkspaceTools \/ RunGitAction => UNCHANGED <<last, polled>>
    BY DEF RequestFiles, RequestWorkspaceTools, RunGitAction, PhoneSends, poll
  <2>5. /\ \A p \in Tree : Edit(p) => UNCHANGED <<last, polled>>
        /\ \A action \in GitActions : GitElsewhere(action) => UNCHANGED <<last, polled>>
    BY DEF Edit, GitElsewhere, poll
  <2> QED BY <2>1, <2>2, <2>3, <2>4, <2>5 DEF ToolsNext, Poll, tools, poll
<1> QED BY <1>1, <1>2, <1>3

\* The newest list, the last one on its way or else the one that is shown, has the
\* changes c.
NewestHas(s, l, c) ==
  IF HasList(s)
    THEN \E i \in DOMAIN s : /\ s[i].kind = "list" /\ Changes(s[i].data) = c
                             /\ \A j \in DOMAIN s : j > i => s[j].kind # "list"
    ELSE Changes(l) = c

\* A list at the end of the queue is the newest, another event changes nothing.
LEMMA NewestAppend ==
  ASSUME NEW s \in Seq(Reports), NEW e \in Reports, NEW l, NEW c
  PROVE  /\ e.kind = "list" => NewestHas(Append(s, e), l, Changes(e.data))
         /\ e.kind # "list" /\ NewestHas(s, l, c) => NewestHas(Append(s, e), l, c)
<1> DEFINE t == Append(s, e)
<1>1. /\ Len(s) \in Nat /\ DOMAIN s = 1..Len(s) /\ DOMAIN t = 1..(Len(s) + 1)
      /\ (\A i \in 1..Len(s) : t[i] = s[i]) /\ t[Len(s) + 1] = e
  BY AppendProperties, LenProperties
<1> HIDE DEF t
<1>2. ASSUME e.kind = "list" PROVE NewestHas(t, l, Changes(e.data))
  <2>1. /\ Len(s) + 1 \in DOMAIN t /\ t[Len(s) + 1] = e
        /\ \A j \in DOMAIN t : ~(j > Len(s) + 1)
    BY <1>1
  <2> QED BY <1>2, <2>1 DEF NewestHas, HasList
<1>3. ASSUME e.kind # "list", NewestHas(s, l, c) PROVE NewestHas(t, l, c)
  <2>1. CASE HasList(s)
    <3>1. PICK i \in DOMAIN s : /\ s[i].kind = "list" /\ Changes(s[i].data) = c
                                /\ \A j \in DOMAIN s : j > i => s[j].kind # "list"
      BY <1>3, <2>1 DEF NewestHas
    <3>2. i \in DOMAIN t /\ t[i] = s[i]
      BY <1>1
    <3>3. ASSUME NEW j \in DOMAIN t, j > i PROVE t[j].kind # "list"
      <4>1. j \in 1..Len(s) \/ j = Len(s) + 1
        BY <1>1
      <4> QED BY <1>1, <1>3, <3>1, <3>3, <4>1
    <3>4. HasList(t)
      BY <3>1, <3>2 DEF HasList
    <3> QED BY <3>1, <3>2, <3>3, <3>4 DEF NewestHas
  <2>2. CASE ~HasList(s)
    <3>1. ~HasList(t)
      <4>1. \A j \in DOMAIN t : j \in DOMAIN s \/ j = Len(s) + 1
        BY <1>1
      <4> QED BY <1>1, <1>3, <2>2, <4>1 DEF HasList
    <3> QED BY <1>3, <2>2, <3>1 DEF NewestHas
  <2> QED BY <2>1, <2>2
<1> QED BY <1>2, <1>3 DEF t

\* The first event leaves the queue: a list is shown, or anything goes if there is a newer
\* one.
LEMMA NewestTail ==
  ASSUME NEW s \in Seq(Reports), s # <<>>, NEW l, NEW c, NewestHas(s, l, c)
  PROVE  /\ Head(s).kind = "list" => NewestHas(Tail(s), Head(s).data, c)
         /\ Head(s).kind # "list" => NewestHas(Tail(s), l, c)
         /\ HasList(Tail(s)) => \A m : NewestHas(Tail(s), m, c)
<1> DEFINE t == Tail(s)
<1>1. /\ Len(s) \in Nat \ {0} /\ DOMAIN s = 1..Len(s) /\ Head(s) = s[1]
      /\ DOMAIN t = 1..(Len(s) - 1)
      /\ \A j \in 1..(Len(s) - 1) : t[j] = s[j + 1]
  BY HeadTailProperties, LenProperties, EmptySeq
<1> HIDE DEF t
<1>2. HasList(s) <=> Head(s).kind = "list" \/ HasList(t)
  <2>1. HasList(t) => HasList(s)
    <3>1. \A j \in DOMAIN t : j + 1 \in DOMAIN s /\ t[j] = s[j + 1]
      BY <1>1
    <3> QED BY <3>1 DEF HasList
  <2>2. Head(s).kind = "list" => HasList(s)
    <3>1. 1 \in DOMAIN s
      BY <1>1
    <3> QED BY <1>1, <3>1 DEF HasList
  <2>3. HasList(s) => Head(s).kind = "list" \/ HasList(t)
    <3>1. \A j \in DOMAIN s : j = 1 \/ (j - 1 \in DOMAIN t /\ t[j - 1] = s[j])
      BY <1>1
    <3> QED BY <1>1, <3>1 DEF HasList
  <2> QED BY <2>1, <2>2, <2>3
<1>3. ASSUME HasList(t), NEW m PROVE NewestHas(t, m, c)
  <2>1. PICK i \in DOMAIN s : /\ s[i].kind = "list" /\ Changes(s[i].data) = c
                              /\ \A j \in DOMAIN s : j > i => s[j].kind # "list"
    BY <1>2, <1>3 DEF NewestHas
  <2>2. PICK k \in DOMAIN t : t[k].kind = "list"
    BY <1>3 DEF HasList
  <2>3. k + 1 \in DOMAIN s /\ s[k + 1].kind = "list" /\ k >= 1
    BY <1>1, <2>2
  <2>4. ~(k + 1 > i)
    BY <2>1, <2>3
  <2>5. i - 1 \in DOMAIN t /\ t[i - 1] = s[i]
    BY <1>1, <2>2, <2>3, <2>4
  <2>6. ASSUME NEW j \in DOMAIN t, j > i - 1 PROVE t[j].kind # "list"
    <3>1. j + 1 \in DOMAIN s /\ t[j] = s[j + 1] /\ j + 1 > i
      BY <1>1, <2>6
    <3> QED BY <2>1, <3>1
  <2> QED BY <1>3, <2>1, <2>5, <2>6 DEF NewestHas
<1>4. ASSUME Head(s).kind = "list", ~HasList(t) PROVE Changes(Head(s).data) = c
  <2>1. PICK i \in DOMAIN s : s[i].kind = "list" /\ Changes(s[i].data) = c
    BY <1>2, <1>4 DEF NewestHas
  <2>2. i = 1
    <3>1. i = 1 \/ (i - 1 \in DOMAIN t /\ t[i - 1] = s[i])
      BY <1>1
    <3> QED BY <1>4, <2>1, <3>1 DEF HasList
  <2> QED BY <1>1, <2>1, <2>2
<1>5. ASSUME Head(s).kind # "list", ~HasList(t) PROVE Changes(l) = c
  BY <1>2, <1>5 DEF NewestHas
<1> QED BY <1>3, <1>4, <1>5 DEF NewestHas, t

\* As long as nothing made it stale, the newest list is the poller's last.
NewestIsPolled == ~stale => NewestHas(outbound, list, polled)

\* What ProjectSnapshot adds to the statuses it has read are files without changes.
LEMMA ProjectChanges ==
  ASSUME NEW read \in [Tree -> States]
  PROVE  Changes(ProjectSnapshot(read)) = Changes(read)
  BY DEF Changes, ProjectSnapshot, States

LEMMA NewestAtFirst == ToolsInit => NewestIsPolled
  BY DEF ToolsInit, NewestIsPolled, NewestHas, HasList, Changes

LEMMA NewestKept == ToolsTypeOK /\ NewestIsPolled /\ [ToolsNext]_tools => NewestIsPolled'
<1> SUFFICES ASSUME ToolsTypeOK, NewestIsPolled, [ToolsNext]_tools PROVE NewestIsPolled'
  OBVIOUS
<1>t. CommandType /\ OutboundType /\ PollerType /\ outbound \in Seq(Reports)
  BY DEF ToolsTypeOK, OutboundType
<1>0. ASSUME UNCHANGED <<outbound, list, polled, stale>> PROVE NewestIsPolled'
  BY <1>0 DEF NewestIsPolled, NewestHas, HasList, Changes, Tree
<1>q. ASSUME NEW e \in Reports, Queue(e), e.kind # "list", UNCHANGED <<list, polled, stale>>
      PROVE  NewestIsPolled'
  <2>1. CASE HasRoom
    <3>1. outbound' = Append(outbound, e)
      BY <1>q, <2>1 DEF Queue
    <3>2. ~stale => NewestHas(Append(outbound, e), list, polled)
      BY <1>t, <1>q, NewestAppend DEF NewestIsPolled
    <3>3. NewestIsPolled' <=> (~stale' => NewestHas(outbound', list', polled'))
      BY DEF NewestIsPolled, NewestHas, HasList, Changes, Tree
    <3> QED BY <1>q, <3>1, <3>2, <3>3
  <2>2. CASE ~HasRoom
    BY <1>0, <1>q, <2>2 DEF Queue
  <2> QED BY <2>1, <2>2
<1>r. ASSUME outbound # <<>>, outbound' = Tail(outbound), Head(outbound).kind # "list",
             UNCHANGED <<list, polled, stale>>
      PROVE  NewestIsPolled'
  <2>1. ~stale => NewestHas(Tail(outbound), list, polled)
    BY <1>t, <1>r, NewestTail DEF NewestIsPolled
  <2>2. NewestIsPolled' <=> (~stale' => NewestHas(outbound', list', polled'))
    BY DEF NewestIsPolled, NewestHas, HasList, Changes, Tree
  <2> QED BY <1>r, <2>1, <2>2
<1>d. NewestIsPolled' <=> (~stale' => NewestHas(outbound', list', polled'))
  BY DEF NewestIsPolled, NewestHas, HasList, Changes, Tree
<1>1. CASE Emit
  <2>1. CASE HasRoom
    <3>1. outbound' = Append(outbound, Report("list", GitSnapshot)) /\ polled' = Changes(GitSnapshot)
      BY <1>1, <2>1 DEF Emit, Queue
    <3>2. /\ Report("list", GitSnapshot) \in Reports
          /\ Report("list", GitSnapshot).kind = "list" /\ Report("list", GitSnapshot).data = GitSnapshot
      BY SnapshotType DEF Report, Reports
    <3>3. NewestHas(Append(outbound, Report("list", GitSnapshot)), list', Changes(GitSnapshot))
      BY <1>t, <3>2, NewestAppend
    <3> QED BY <1>d, <3>1, <3>3
  <2>2. CASE ~HasRoom
    BY <1>1, <1>d, <2>2 DEF Emit
  <2> QED BY <2>1, <2>2
<1>2. CASE DiffFiles
  BY <1>0, <1>2 DEF DiffFiles
<1>3. CASE DiffIndex
  <2>1. /\ Report("diff", patch \cup Staged) \in Reports
        /\ Report("diff", patch \cup Staged).kind # "list"
    BY <1>t DEF Report, Reports, Staged, Patches, PollerType
  <2>2. UNCHANGED outbound \/ Queue(Report("diff", patch \cup Staged))
    BY <1>3 DEF DiffIndex
  <2>3. UNCHANGED <<list, polled, stale>>
    BY <1>3 DEF DiffIndex
  <2> QED BY <1>0, <1>q, <2>1, <2>2, <2>3
<1>4. CASE FileList \/ GitAction \/ ReadStatus
  BY <1>0, <1>4 DEF FileList, GitAction, ReadStatus, poll
<1>5. CASE GitEnds
  <2>1. /\ Report("result", handler) \in Reports
        /\ Report("result", handler).kind # "list"
    BY <1>5 DEF GitEnds, Report, Reports
  <2>2. Queue(Report("result", handler)) /\ UNCHANGED <<list, polled, stale>>
    BY <1>5 DEF GitEnds, poll
  <2> QED BY <1>q, <2>1, <2>2
<1>6. CASE WorkspaceTools
  <2>1. Report("tools", {}) \in Reports /\ Report("tools", {}).kind # "list"
    BY DEF Report, Reports
  <2>2. Queue(Report("tools", {})) /\ UNCHANGED <<list, polled, stale>>
    BY <1>6 DEF WorkspaceTools, poll
  <2> QED BY <1>q, <2>1, <2>2
<1>7. CASE ReadPaths
  <2>1. CASE HasRoom
    <3> DEFINE read == ProjectSnapshot(statuses)
    <3>1. /\ outbound' = Append(outbound, Report("list", read)) /\ UNCHANGED <<list, polled>>
          /\ stale' = (Changes(statuses) # polled)
      BY <1>7, <2>1 DEF ReadPaths, Queue, poll
    <3>2. /\ Report("list", read) \in Reports
          /\ Report("list", read).kind = "list" /\ Report("list", read).data = read
      BY <1>t, ProjectType DEF Report, Reports, CommandType
    <3>3. NewestHas(Append(outbound, Report("list", read)), list, Changes(read))
      BY <1>t, <3>2, NewestAppend
    <3>4. Changes(read) = Changes(statuses)
      BY <1>t, ProjectChanges DEF CommandType
    <3> HIDE DEF read
    <3> QED BY <1>d, <3>1, <3>3, <3>4
  <2>2. CASE ~HasRoom
    BY <1>0, <1>7, <2>2 DEF ReadPaths, Queue, poll
  <2> QED BY <2>1, <2>2
<1>8. CASE FileSnapshot
  <2>1. /\ outbound # <<>> /\ outbound' = Tail(outbound) /\ Head(outbound).kind = "list"
        /\ list' = Head(outbound).data /\ UNCHANGED <<polled, stale>>
    BY <1>8 DEF FileSnapshot, Receive, poll
  <2>2. ~stale => NewestHas(Tail(outbound), Head(outbound).data, polled)
    BY <1>t, <2>1, NewestTail DEF NewestIsPolled
  <2> QED BY <1>d, <2>1, <2>2
<1>9. CASE DiffReady \/ GitActionResult \/ ToolsReady
  <2>1. /\ outbound # <<>> /\ outbound' = Tail(outbound) /\ Head(outbound).kind # "list"
        /\ UNCHANGED <<list, polled, stale>>
    BY <1>9 DEF DiffReady, GitActionResult, ToolsReady, Receive, poll
  <2> QED BY <1>r, <2>1
<1>10. CASE LoseReport
  <2>1. /\ outbound # <<>> /\ outbound' = Tail(outbound) /\ UNCHANGED <<list, polled>>
        /\ stale' <=> stale \/ (Head(outbound).kind = "list" /\ ~HasList(Tail(outbound)))
    BY <1>10 DEF LoseReport, poll
  <2>2. ~stale' => NewestHas(Tail(outbound), list, polled)
    BY <1>t, <2>1, NewestTail DEF NewestIsPolled
  <2> QED BY <1>d, <2>1, <2>2
<1>11. CASE SessionEvent \/ SocketLost \/ SocketReturns \/ Leave
  <2>1. CASE SessionEvent
    BY <1>0, <2>1 DEF SessionEvent, poll
  <2>2. CASE SocketLost
    BY <1>0, <2>2 DEF SocketLost, poll
  <2>3. CASE SocketReturns
    BY <1>0, <2>3 DEF SocketReturns, poll
  <2>4. CASE Leave
    BY <1>0, <2>4 DEF Leave, poll
  <2> QED BY <1>11, <2>1, <2>2, <2>3, <2>4
<1>12. CASE NewSession \/ ShowHistory
  <2>1. UNCHANGED <<outbound, polled>> /\ (stale' <=> stale \/ ~HasList(outbound))
    BY <1>12 DEF NewSession, ShowHistory, StartOver, poll
  <2>2. ~stale' => NewestHas(outbound, list', polled)
    BY <2>1 DEF NewestIsPolled, NewestHas
  <2> QED BY <1>d, <2>1, <2>2
<1>13. CASE RequestFiles \/ RequestWorkspaceTools \/ RunGitAction
  <2>1. UNCHANGED <<outbound, list, polled, stale>>
    BY <1>13 DEF RequestFiles, RequestWorkspaceTools, RunGitAction, PhoneSends, poll
  <2> QED BY <1>0, <2>1
<1>14. ASSUME NEW p \in Tree, Edit(p) PROVE NewestIsPolled'
  BY <1>0, <1>14 DEF Edit, poll
<1>15. ASSUME NEW action \in GitActions, GitElsewhere(action) PROVE NewestIsPolled'
  BY <1>0, <1>15 DEF GitElsewhere, poll
<1>16. CASE UNCHANGED tools
  BY <1>0, <1>16 DEF tools, poll
<1> QED
  BY <1>1, <1>2, <1>3, <1>4, <1>5, <1>6, <1>7, <1>8, <1>9, <1>10, <1>11, <1>12, <1>13, <1>14, <1>15, <1>16
  DEF ToolsNext, Poll, ToolsHandler, Deliver, Session

\* With no list on its way and a tree in which the poller sees no change, the phone lists
\* the changes as they are, however many edits, git actions, losses and sessions lie
\* behind, unless the newest list was lost or another was queued after the poller's last
\* (files.Poll, fingerprint, ProjectSnapshot, file_snapshot).
ListAtRest ==
  ~stale /\ ~HasList(outbound) /\ Fingerprint(GitSnapshot) = last
    => Changes(list) = Changes(GitSnapshot)

\* ListAtRest is the half of ListCatchesUp that needs no fairness (files.Poll).
THEOREM ListAtRestAlways == ToolsSpec => []ListAtRest
<1> DEFINE Inv == ToolsTypeOK /\ ListOfLast /\ NewestIsPolled
<1>1. ToolsInit => Inv
  <2>1. ToolsInit => ListOfLast
    BY DEF ToolsInit, ListOfLast
  <2> QED BY <2>1, ToolsTypeInit, NewestAtFirst
<1>2. Inv /\ [ToolsNext]_tools => Inv'
  BY ToolsTypeNext, ListOfLastKept, NewestKept
<1>3. Inv => ListAtRest
  <2>1. Fingerprint(GitSnapshot) = last /\ ListOfLast => polled = Changes(GitSnapshot)
    BY FingerprintTells DEF ListOfLast
  <2>2. NewestIsPolled /\ ~stale /\ ~HasList(outbound) => Changes(list) = polled
    BY DEF NewestIsPolled, NewestHas
  <2> QED BY <2>1, <2>2 DEF ListAtRest
<1> HIDE DEF Inv
<1> QED BY <1>1, <1>2, <1>3, PTL DEF ToolsSpec
=============================================================================
