----------------------------- MODULE RelayGate -----------------------------
(***************************************************************************)
(* The limiter every request to the relay service passes                   *)
(* (httpapi.securityHeaders, ratelimit.Limiter): calls per address and     *)
(* minute.  Allow reads the clock before it takes the lock, so calls are   *)
(* counted in another order than they are stamped.                         *)
(***************************************************************************)
EXTENDS Naturals

CONSTANTS
  Callers,   \* requests in flight at a time
  Ips,       \* the addresses ClientIP finds for them
  Limit,     \* calls an address has per minute
  MaxMinute, \* bound: minutes that pass
  NoCall

ASSUME GateAssumption == Limit \in Nat \ {0} /\ MaxMinute \in Nat \ {0}

Minutes == 0..MaxMinute
Calls == [ip : Ips, now : Minutes]

ASSUME NoCallAssumption == NoCall \notin Calls

VARIABLES
  minute,   \* the wall clock
  window,   \* Limiter.window; the zero time before the first call
  counts,   \* Limiter.counts; 0 for an address that is not in the map
  call,     \* per caller: the address and minute its request carries
  admitted, \* history: calls let through, per address and minute stamped
  setBack   \* history: a call moved the window to an earlier minute

gateVars == <<minute, window, counts, call, admitted, setBack>>

-----------------------------------------------------------------------------

GateInit ==
  /\ minute = 1 /\ window = 0 /\ setBack = FALSE
  /\ counts = [ip \in Ips |-> 0]
  /\ call = [c \in Callers |-> NoCall]
  /\ admitted = [ip \in Ips |-> [m \in Minutes |-> 0]]

MinutePasses ==
  /\ minute < MaxMinute
  /\ minute' = minute + 1
  /\ UNCHANGED <<window, counts, call, admitted, setBack>>

\* ClientIP: the header a proxy sets, or the address of the connection.
ClientIP(c) == \E ip \in Ips : call' = [call EXCEPT ![c] = [ip |-> ip, now |-> minute]]

\* A request arrives and is stamped, before the lock.
Stamp(c) ==
  /\ call[c] = NoCall
  /\ ClientIP(c)
  /\ UNCHANGED <<minute, window, counts, admitted, setBack>>

\* The counts a call finds: a call of another minute, later or earlier, drops them.
CountsFor(c) == IF window = call[c].now THEN counts ELSE [ip \in Ips |-> 0]

\* Mutant of Allows: one call too many.
AllowsOneMore(c) == CountsFor(c)[call[c].ip] <= Limit

Allows(c) == CountsFor(c)[call[c].ip] + 1 <= Limit

\* Allow under the lock.  securityHeaders answers 429 or passes the request on.
Count(c) ==
  LET ip == call[c].ip now == call[c].now
  IN /\ call[c] # NoCall
     /\ window' = now
     /\ counts' = [CountsFor(c) EXCEPT ![ip] = @ + 1]
     /\ admitted' = IF Allows(c) THEN [admitted EXCEPT ![ip][now] = @ + 1] ELSE admitted
     /\ setBack' = (setBack \/ now < window)
     /\ call' = [call EXCEPT ![c] = NoCall]
     /\ UNCHANGED minute

-----------------------------------------------------------------------------
(* Properties *)

GateTypeOK ==
  /\ minute \in Minutes /\ window \in Minutes /\ setBack \in BOOLEAN
  /\ counts \in [Ips -> Nat] /\ call \in [Callers -> Calls \cup {NoCall}]
  /\ admitted \in [Ips -> [Minutes -> Nat]]

\* No address gets more calls through than its limit in one minute, as long as
\* no call that was stamped before the minute changed takes the lock after one of
\* the new minute: such a call sets the window back and forgets the counts, once
\* for itself and once for the next call (Limiter.Allow).
QuotaHolds ==
  ~setBack => \A ip \in Ips, m \in Minutes : admitted[ip][m] <= Limit
=============================================================================
