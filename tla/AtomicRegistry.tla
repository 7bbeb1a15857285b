--------------------------- MODULE AtomicRegistry ---------------------------
(***************************************************************************)
(* What the device registry promises to its users: a map from devices to   *)
(* keys whose entries change one at a time, which becomes unreadable for   *)
(* good when a process is killed in the middle of a save.                  *)
(***************************************************************************)
CONSTANTS Devices, Keys, None, Torn

VARIABLE content

Init == content \in [Devices -> Keys \cup {None}]

Authorize(d, k) == content # Torn /\ content' = [content EXCEPT ![d] = k]

Revoke(d) ==
  /\ content # Torn /\ content[d] # None
  /\ content' = [content EXCEPT ![d] = None]

Break == content' = Torn

Next ==
  \/ \E d \in Devices, k \in Keys : Authorize(d, k)
  \/ \E d \in Devices : Revoke(d)
  \/ Break

Spec == Init /\ [][Next]_content
=============================================================================
