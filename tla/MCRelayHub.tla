----------------------------- MODULE MCRelayHub -----------------------------
\* Instances of RelayHub for TLC.
EXTENDS RelayHub, TLC

\* Sockets and session ids are interchangeable.
Symmetric == Permutations(Clients) \cup Permutations(Sids)
=============================================================================
