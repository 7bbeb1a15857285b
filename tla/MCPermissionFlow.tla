-------------------------- MODULE MCPermissionFlow --------------------------
\* Instances of PermissionFlow for TLC.
EXTENDS PermissionFlow, TLC

\* Prompts are interchangeable.
Symmetric == Permutations(Prompts)
=============================================================================
