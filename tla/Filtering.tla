------------------------------ MODULE Filtering ------------------------------
(***************************************************************************)
(* Lists from which elements are removed, as Dart's `where` and the        *)
(* loops of the daemon do it, by recursion over the length of the list.    *)
(***************************************************************************)
EXTENDS Naturals, Sequences

KeepUnless(D, kept, e) == IF e \in D THEN kept ELSE Append(kept, e)

\* The elements of s that are not in D, in their order.
Excluding(s, D) ==
  LET kept[n \in 0 .. Len(s)] ==   \* of the first n elements
        IF n = 0 THEN << >> ELSE KeepUnless(D, kept[n - 1], s[n])
  IN kept[Len(s)]
=============================================================================
