--------------------------- MODULE MCLoadProfile ---------------------------
(***************************************************************************)
(* LoadProfile with rings of a few records.                                *)
(***************************************************************************)
EXTENDS LoadProfile

MCSize == [p \in Profiles |-> IF p = "LPAVG" THEN 3 ELSE 2]
MCGap == [p \in Profiles |-> 2]
MCUnit == [p \in Profiles |-> IF p = "LPAVG" THEN 2 ELSE 1]
=============================================================================
