------------------------------- MODULE MCPayments -------------------------------
(* Payments on small instances. *)
EXTENDS Payments, TLC

(* The handlers and the gateway's payments are interchangeable; its refund  *)
(* ids are given out in one order already.                                  *)
IdSymmetry == Permutations(Request) \cup Permutations(GatewayPayment)

(* No handler reads the audit log, and of the properties of the run that    *)
(* takes this view only the type invariant mentions it.                     *)
WithoutAudit == <<payments, refunds, amountPaid, depositHeld, captured, decided, seen, req>>
================================================================================
