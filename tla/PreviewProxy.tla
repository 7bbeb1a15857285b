---------------------------- MODULE PreviewProxy ----------------------------
(***************************************************************************)
(* The preview proxy of a session and the log of its requests, which       *)
(* workspaceTools shows on the phone.  handle runs in a goroutine of the   *)
(* HTTP server for each request; recordRequest locks the log.              *)
(***************************************************************************)
EXTENDS Integers, Sequences

CONSTANTS
  Requests,   \* requests to the proxy
  LogCap      \* entries of its log (40 in the code)

ASSUME PreviewAssumption == LogCap \in Nat \ {0}

VARIABLES
  request,   \* per request: where handle is
  requests,  \* previewProxy.requests
  ended      \* history: the requests that ended by themselves, in order

preview == <<request, requests, ended>>

-----------------------------------------------------------------------------
(* previewProxy.handle *)

\* Mutant of Ring: the log keeps the oldest entries.
RingKeepsOldest(s) == SubSeq(s, 1, IF Len(s) > LogCap THEN LogCap ELSE Len(s))

Ring(s) == SubSeq(s, IF Len(s) > LogCap THEN Len(s) - LogCap + 1 ELSE 1, Len(s))

\* Under the lock of the proxy.
RecordRequest(r) == requests' = Ring(Append(requests, r))

\* A path that is no preview path, or has the wrong token, is refused and recorded.
Refuse(r) ==
  /\ request[r] = "new"
  /\ request' = [request EXCEPT ![r] = "done"]
  /\ RecordRequest(r)
  /\ ended' = Append(ended, r)

Forward(r) ==
  /\ request[r] = "new"
  /\ request' = [request EXCEPT ![r] = "open"]
  /\ UNCHANGED <<requests, ended>>

\* The target does not answer: ErrorHandler records the request and sets `logged`.
Unavailable(r) ==
  /\ request[r] = "open"
  /\ request' = [request EXCEPT ![r] = "logged"]
  /\ RecordRequest(r)
  /\ ended' = Append(ended, r)

\* Mutant of Served: handle does not look at `logged`.
ServedAgain(r) ==
  /\ request[r] \in {"open", "logged"}
  /\ request' = [request EXCEPT ![r] = "done"]
  /\ RecordRequest(r)
  /\ ended' = IF request[r] = "logged" THEN ended ELSE Append(ended, r)

\* ServeHTTP returns; a request that was logged is not recorded again.
Served(r) ==
  /\ request[r] \in {"open", "logged"}
  /\ request' = [request EXCEPT ![r] = "done"]
  /\ IF request[r] = "logged" THEN UNCHANGED <<requests, ended>>
       ELSE RecordRequest(r) /\ ended' = Append(ended, r)

\* The target breaks off after its headers: the reverse proxy panics through handle,
\* and nothing is recorded.
BreaksOff(r) ==
  /\ request[r] = "open"
  /\ request' = [request EXCEPT ![r] = "done"]
  /\ UNCHANGED <<requests, ended>>

-----------------------------------------------------------------------------
PreviewInit == request = [r \in Requests |-> "new"] /\ requests = <<>> /\ ended = <<>>

PreviewNext ==
  \E r \in Requests : Refuse(r) \/ Forward(r) \/ Unavailable(r) \/ Served(r) \/ BreaksOff(r)

PreviewSpec == PreviewInit /\ [][PreviewNext]_preview

-----------------------------------------------------------------------------
(* Property *)

\* The log of the preview holds the newest requests that ended by themselves, in the
\* order they ended and each once, whatever the target does (handle, recordRequest).
LogHoldsNewest ==
  requests = SubSeq(ended, IF Len(ended) > LogCap THEN Len(ended) - LogCap + 1 ELSE 1, Len(ended))
=============================================================================
