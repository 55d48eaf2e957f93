--------------------------- MODULE MCSshDualPort ---------------------------
(***************************************************************************)
(* SshDualPort for TLC. DeployForm.tsx asks for a new port of 1024 or       *)
(* more; nothing asks for one that differs from the current port.          *)
(***************************************************************************)
EXTENDS SshDualPort

CONSTANTS p22, p1, p2

Moves == {f \in Ports \X {p1, p2} : f[1] # f[2]}
AnyForm == Ports \X {p1, p2}
=============================================================================
