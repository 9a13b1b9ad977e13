---------------------------- MODULE MCAgentFaults ----------------------------
(***************************************************************************)
(* The small agent of MCAgentLoop on a gate whose runs may break off; its  *)
(* queries may get different scopes, one of them too small for a policy    *)
(* that orders two actions.                                                *)
(***************************************************************************)
EXTENDS AgentFaults, MCAgentLoop

FaultScopes == {Mail, {"send_email"}}
==============================================================================
