----------------------------- MODULE MCTenancy -----------------------------
(* One permission bit: what two declarations share of it.                  *)
EXTENDS Tenancy

MCPerm == {"read"}
MCFocus == AllFocus
=============================================================================
