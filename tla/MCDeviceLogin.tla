--------------------------- MODULE MCDeviceLogin ----------------------------
(* The drawer's login alone: one login, two visits or a failure and a restart. *)
EXTENDS DeviceLogin

MCBudgets == {[sessions |-> 1, opens |-> 2, fails |-> 0, restarts |-> 0],
              [sessions |-> 1, opens |-> 1, fails |-> 1, restarts |-> 1]}
=============================================================================
