---------------------------- MODULE MCLocalHost ----------------------------
\* Instances of LocalHost for TLC.
EXTENDS LocalHost
=============================================================================
