------------------------------- MODULE MCHdlc -------------------------------
(***************************************************************************)
(* Hdlc under any order of frames from two clients, conforming or not.     *)
(***************************************************************************)
EXTENDS Hdlc

CONSTANTS c1, c2, d, x, none

MCClients == {c1, c2}

Base == [type |-> "UI", seg |-> FALSE, ns |-> 0, nr |-> 0, poll |-> TRUE,
         client |-> c1, mine |-> TRUE, llc |-> TRUE,
         nego |-> [ok |-> TRUE, max |-> 1], info |-> <<>>]

Infos ==
    {[Base EXCEPT !.type = "I", !.seg = s, !.ns = n, !.nr = m, !.info = <<d>>] :
        s \in BOOLEAN, n \in 0..1, m \in 0..1}

Polls == {[Base EXCEPT !.type = "RR", !.nr = n, !.seg = FALSE] : n \in 0..2}

Oddities ==
    {[Base EXCEPT !.mine = FALSE, !.seg = TRUE],
     [Base EXCEPT !.type = "BAD"],
     [Base EXCEPT !.type = "I", !.llc = FALSE, !.info = <<d>>],
     [Base EXCEPT !.type = "I", !.poll = FALSE, !.info = <<d>>],
     [Base EXCEPT !.type = "I", !.client = c2, !.info = <<d>>]}

Setup ==
    {[Base EXCEPT !.type = "SNRM"],
     [Base EXCEPT !.type = "SNRM", !.client = c2, !.nego.max = 3]}
    \cup {[Base EXCEPT !.type = "SNRM", !.client = c2, !.nego.ok = FALSE],
          [Base EXCEPT !.type = "DISC", !.client = c2]}

MCFrames == Infos \cup Polls \cup Oddities \cup Setup

MCReplies == {<<d>>, <<d, d>>, <<d, d, d, d>>}
MCAnswers(apdu, r) == Len(apdu) < 3
MCPushes == {<<d>>}
=============================================================================
