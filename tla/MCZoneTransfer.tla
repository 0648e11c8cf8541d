--------------------------- MODULE MCZoneTransfer ---------------------------
(* ZoneTransfer on small instances.                                        *)
EXTENDS ZoneTransfer
=============================================================================
