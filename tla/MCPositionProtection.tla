------------------------ MODULE MCPositionProtection ------------------------
(* Protection of two positions; the bounds are in the .cfg files.            *)
EXTENDS PositionProtection
=============================================================================
