------------------------------ MODULE Exchange ------------------------------
(***************************************************************************)
(* What the data link promises to a client: its requests are executed by   *)
(* the meter whole, one at a time and at most once each, and an answer is  *)
(* the whole answer to the request that was asked.  A client may abandon a *)
(* request; then it cannot know whether it was executed.                   *)
(***************************************************************************)
EXTENDS Sequences

CONSTANTS
    Apdus,      \* the requests a client may issue
    NoApdu,     \* no request is under way
    ReplyOf(_)  \* what the application answers to a request

VARIABLES
    asked,      \* the request under way, or NoApdu
    executed,   \* what the meter has executed since it was issued
    answer      \* the last answer the client got

exchangeVars == <<asked, executed, answer>>

Init == asked = NoApdu /\ executed = <<>> /\ answer = <<>>

Issue ==
    /\ asked = NoApdu
    /\ asked' \in Apdus
    /\ executed' = <<>>
    /\ UNCHANGED answer

Execute ==
    /\ asked # NoApdu /\ executed = <<>>
    /\ executed' = <<asked>>
    /\ UNCHANGED <<asked, answer>>

Complete ==
    /\ asked # NoApdu /\ executed = <<asked>>
    /\ answer' = ReplyOf(asked)
    /\ asked' = NoApdu
    /\ UNCHANGED executed

Abandon ==
    /\ asked # NoApdu
    /\ asked' = NoApdu
    /\ UNCHANGED <<executed, answer>>

Next == Issue \/ Execute \/ Complete \/ Abandon

Spec == Init /\ [][Next]_exchangeVars
=============================================================================
