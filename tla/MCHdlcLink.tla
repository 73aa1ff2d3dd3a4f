----------------------------- MODULE MCHdlcLink -----------------------------
(***************************************************************************)
(* HdlcLink with a request of one frame answered in three and a request of *)
(* three frames or more answered in one.  A unit of data is a number,      *)
(* different for every place it may have.                                  *)
(***************************************************************************)
EXTENDS HdlcLink

CONSTANTS c1, none, junk

Short == <<1>>
Long == <<11, 12, 13, 14, 15>>

MCRequests == {Short, Long}
MCReplyOf(apdu) == IF apdu = Short THEN <<21, 22, 23, 24, 25>> ELSE <<31>>
MCAnswers(apdu, r) == r = MCReplyOf(apdu)
MCReplies == {<<21, 22, 23, 24, 25>>, <<31>>}

MCData == {1} \cup 11..15 \cup 21..25 \cup {31, 41}

(* A frame for another meter of the bus. *)
Passing == [BlankFrame EXCEPT !.type = "I", !.mine = FALSE, !.llc = TRUE,
                               !.info = <<41>>]
MCNoise == {Passing}
(* The first of several frames for another meter. *)
SegmentedNoise == {[Passing EXCEPT !.seg = TRUE]}
MCPushes == {<<41>>}

(* The hypotheses under which HdlcLink keeps its promise. *)
ASSUME HypothesesHold ==
    Noise = MCNoise => CleanBus /\ NvWorks /\ DataFits
=============================================================================
