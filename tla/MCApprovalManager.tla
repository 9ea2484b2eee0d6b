-------------------------- MODULE MCApprovalManager --------------------------
(***************************************************************************)
(* Small instances of ApprovalManager.  The actions a chat call and an MCP *)
(* call ask approval for differ (Request.Source is part of the hash).      *)
(***************************************************************************)
EXTENDS ApprovalManager

CONSTANTS chatAction, mcpAction

MCActionOf == [i \in Items |-> IF i \in Calls THEN chatAction ELSE mcpAction]
=============================================================================
