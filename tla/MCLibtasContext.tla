--------------------------- MODULE MCLibtasContext ---------------------------
(* Instances of LibtasContext for TLC.                                     *)
EXTENDS LibtasContext

(* parity only makes every poll a visible step for the fairness of the    *)
(* liveness runs; no other variable depends on it, so runs that check     *)
(* invariants only identify states that differ in parity alone.           *)
SafetyView == <<kout, arx, atx, ctx, conn, kern, fp, fpq, evs, rxFrom, aborted, txTotal>>
====
