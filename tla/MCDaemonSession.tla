-------------------------- MODULE MCDaemonSession --------------------------
\* Instances of DaemonSession for TLC.
EXTENDS DaemonSession, TLC

\* Devices are interchangeable, and so are keys: no definition names one.
Symmetric == Permutations(Devices) \cup Permutations(Keys)
=============================================================================
