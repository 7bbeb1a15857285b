-------------------------- MODULE MCWorkspaceFiles --------------------------
\* Instance of WorkspaceFiles for TLC; the values are in the .cfg files.
EXTENDS WorkspaceFiles

CONSTANTS
  Alike,    \* paths that differ in the case of letters only
  Raw,      \* a content that is not UTF-8, or None
  Replaced  \* the text shown for it

MCFold == [p \in Paths |-> IF p \in Alike THEN CHOOSE q \in Alike : TRUE ELSE p]
MCDecode == [t \in Texts |-> IF t = Raw THEN Replaced ELSE t]

Symmetric == Permutations(Alike)
=============================================================================
