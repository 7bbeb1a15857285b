-------------------------- MODULE MCWorkspaceTools --------------------------
\* Instances of WorkspaceTools and PreviewProxy for TLC.
EXTENDS WorkspaceTools, PreviewProxy

\* They share no variable and no property speaks of both, so each moves only while the
\* other has not.
MCInit == ToolsInit /\ PreviewInit
MCNext ==
  \/ ToolsNext /\ requests = <<>> /\ (\A r \in Requests : request[r] = "new") /\ UNCHANGED preview
  \/ PreviewNext /\ changes = 0 /\ sent = 0 /\ breaks = 0 /\ UNCHANGED tools

MCSpec == MCInit /\ [][MCNext]_<<tools, preview>> /\ ToolsRun
=============================================================================
