-------------------------- MODULE MCDeviceRegistry --------------------------
\* Instances of DeviceRegistry for TLC.
EXTENDS DeviceRegistry, TLC

\* Devices, keys, sessions and tools are interchangeable.
Symmetric ==
  Permutations(Devices) \cup Permutations(Keys)
  \cup Permutations(Sessions) \cup Permutations(Tools)
=============================================================================
