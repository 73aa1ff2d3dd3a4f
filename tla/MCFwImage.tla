----------------------------- MODULE MCFwImage -----------------------------
(***************************************************************************)
(* FwImage with a system image that fills a page and a half, a metering    *)
(* image with a corrupt block, a modem image and one of no part, which is  *)
(* refused.                                                                *)
(***************************************************************************)
EXTENDS FwImage

CONSTANTS sys, bad, met, mdm, none, old

MCPart == [i \in Images \cup {none} |->
             CASE i = sys -> "SYS" [] i = met -> "METER"
               [] i = mdm -> "MDM" [] i \in {bad, none} -> "NONE"]
MCSize == [i \in Images |-> CASE i = sys -> 3 [] i = met -> 2 [] OTHER -> 1]
MCCorrupt == {<<met, 1>>}
MCStray == {<<met, 0>>}
=============================================================================
