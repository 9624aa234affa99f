----------------------------- MODULE MCPlatform -----------------------------
(* Platform with fewer faults than attempts, so that the last attempt finds  *)
(* a hub that behaves; three faults leave a tunnel behind, end the session   *)
(* that came up beside it, and end the old tunnel.  One is enough for a hub   *)
(* that is not found.                                                        *)
EXTENDS Platform
=============================================================================
