------------------------ MODULE MCCloudProvisioning ------------------------
\* Instances of CloudProvisioning and CloudNode for TLC.
EXTENDS CloudProvisioning, CloudNode

\* The two share no variable and no property speaks of both, so each moves only while
\* the other has not.
MCInit == Init /\ NodeInit

MCNext ==
  \/ Next /\ server = "none" /\ UNCHANGED nodeVars
  \/ NodeNext /\ (\A r \in Requests : pc[r] = "idle") /\ events = 0 /\ UNCHANGED vars

MCSpec == MCInit /\ [][MCNext]_<<vars, nodeVars>> /\ Fairness /\ NodeRuns
=============================================================================
