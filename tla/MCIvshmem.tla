------------------------------ MODULE MCIvshmem ------------------------------
(* The host proxy with small bounds: one or two slots of vms[], two qemus, *)
(* rings of one message, one context request id and one app id.           *)
EXTENDS Ivshmem

MCCtxReqs == {1}
MCApps == {1}
=============================================================================
