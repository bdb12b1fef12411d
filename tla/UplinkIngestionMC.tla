------------------------- MODULE UplinkIngestionMC -------------------------
(* Small instances of UplinkIngestion for TLC. *)
EXTENDS UplinkIngestion, TLC

CONSTANTS d1, d2, t1, t2

\* d1 belongs to t1 but is heard by a gateway of t2; nobody owns d2.
OneOwned ==
    [l \in Lookup |-> d1 :> (IF l = "gateway" THEN t2 ELSE t1) @@ d2 :> None]
=============================================================================
