------------------------------- MODULE MCAudit -------------------------------
(* Three jobs: one flushes, one waits for it, one records meanwhile.          *)
EXTENDS ControlPlane

CONSTANTS j1, j2, j3
ThreeJobs == {j1, j2, j3}
=============================================================================
