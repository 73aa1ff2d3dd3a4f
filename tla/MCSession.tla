----------------------------- MODULE MCSession ------------------------------
(***************************************************************************)
(* Session with clients of every kind that the arbitration tells apart,    *)
(* and a frame for another meter.  What may wait behind the SNRM of the    *)
(* private client: the frame that this client sends next, which comes from *)
(* its own medium or has changed over, and the SNRM of another client.     *)
(***************************************************************************)
EXTENDS Session

FrameOf(c, x) == [client |-> c, ctl |-> x]

MCFrames ==
    {FrameOf(c, x) : c \in {"PRIVATE", "SEC_UTILITY", "SEC_SITE"},
                     x \in {"SNRM", "DISC", "I"}}
    \cup {FrameOf("UTILITY", "SNRM"), FrameOf(NoClient, "I")}

MCBehind ==
    {<<FrameOf("PRIVATE", "SNRM"), f>> :
       f \in {FrameOf("PRIVATE", "I"), FrameOf("SEC_UTILITY", "SNRM")}}
=============================================================================
