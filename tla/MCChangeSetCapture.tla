-------------------------- MODULE MCChangeSetCapture --------------------------
(***************************************************************************)
(* Two write tasks whose ChangeSets do not both fit into the quota.         *)
(***************************************************************************)
EXTENDS ChangeSetCapture

MCParts == <<"patch", "preimage">>
MCSize == [n \in Names |-> 1]

================================================================================
