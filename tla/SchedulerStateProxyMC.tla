------------------------- MODULE SchedulerStateProxyMC -------------------------
(***************************************************************************)
(* An instance of SchedulerStateProxy: with a framework id to assign both  *)
(* the driver's thread and the thread of the POSTs write the state.        *)
(***************************************************************************)
EXTENDS SchedulerStateProxy

OneId == {"f1"}
===============================================================================
