---------------------------- MODULE MCSupervisor ----------------------------
(* Supervisor on small instances. *)
EXTENDS Supervisor

AnyOptional == SUBSET Services
BothPolicies == {"fail-fast", "isolate"}
=============================================================================
