--------------------------- MODULE MCControlPlane ---------------------------
(* One app: the flags of two apps never meet, except in the global scope.   *)
EXTENDS ControlPlane

CONSTANT app
MCApps == {app}
=============================================================================
