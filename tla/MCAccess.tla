------------------------------ MODULE MCAccess ------------------------------
(* The owner and one more user, who may have two tabs.                      *)
EXTENDS Access
=============================================================================
