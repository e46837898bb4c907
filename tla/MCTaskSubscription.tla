------------------------ MODULE MCTaskSubscription ------------------------
(* The instance of TaskSubscription that TLC checks: TaskSubscription.cfg.
   Its liveness properties rule out symmetry. *)
EXTENDS TaskSubscription
=============================================================================
