------------------------- MODULE MCSessionLifecycle -------------------------
\* Instances of SessionLifecycle for TLC; its constants are numbers given in the
\* configurations.
EXTENDS SessionLifecycle
=============================================================================
