------------------------------ MODULE HdlcLink ------------------------------
(***************************************************************************)
(* The data link of the meter (Hdlc) with a conforming client at the other *)
(* end of a medium that loses frames and keeps them in order.  The client  *)
(* is not in this repository: it is a window-one HDLC client, which sends  *)
(* a request in one or more I frames, waits for the acknowledgement of     *)
(* each, polls for the rest of a segmented answer with RR, and repeats a   *)
(* frame whenever it likes while the answer is outstanding.  It begins a   *)
(* connection only on a silent medium.                                     *)
(***************************************************************************)
EXTENDS Hdlc

CONSTANTS
    Requests,     \* the APDUs the client may ask with
    NoRequest,
    SegmentLengths,\* how many units it may put into one frame
    ReplyOf(_),   \* what the application answers to an APDU
    TheClient,    \* the address of the client
    ClientMaxInfo,\* the information field length it proposes
    Noise,        \* frames other stations of the bus send
    Capacity,     \* bound: frames under way in each direction
    MaxStops      \* bound: dl_stop_force, amr_init and restarts

ASSUME HdlcLinkAssumption ==
    /\ TheClient \in Clients
    /\ Requests \subseteq Seq(Data) \ {<<>>}
    /\ NoRequest \notin Requests
    /\ SegmentLengths \subseteq Nat \ {0}
    /\ \A r \in Requests :
          /\ ReplyOf(r) \in Replies
          /\ \A x \in Replies : Answers(r, x) <=> x = ReplyOf(r)
    \* two stations of a bus do not have the same address
    /\ Noise \subseteq InFrame
    /\ \A f \in Noise : ~f.mine
    /\ ClientMaxInfo \in 1..MaxInfo
    /\ Capacity \in Nat /\ MaxStops \in Nat

VARIABLES
    peer,         \* the client's connection: "off", "connecting" or "on"
    c_vs,         \* its V(S)
    c_vr,         \* its V(R)
    request,      \* the request under way, or NoRequest
    acked,        \* how many of its units the meter has acknowledged
    out,          \* the frame whose answer is outstanding, or NoFrame
    collected,    \* the segments of the answer received so far
    answer,       \* the last whole answer
    up,           \* frames under way to the meter
    down,         \* frames under way to the client
    executed,     \* history: APDUs passed to the application since the issue
    disturbed,    \* history: another station or a push spoke since the issue
    stops         \* how often the meter dropped the connection by itself

clientVars == <<peer, c_vs, c_vr, request, acked, out, collected, answer>>
mediumVars == <<up, down>>
histVars == <<executed, disturbed, stops>>
linkAllVars == <<vars, clientVars, mediumVars, histVars>>

LinkInit ==
    /\ Init
    /\ peer = "off" /\ c_vs = 0 /\ c_vr = 0
    /\ request = NoRequest /\ acked = 0 /\ out = NoFrame
    /\ collected = <<>> /\ answer = <<>>
    /\ up = <<>> /\ down = <<>>
    /\ executed = <<>> /\ disturbed = FALSE /\ stops = 0

-----------------------------------------------------------------------------
(* The client. *)

BlankFrame ==
    [type |-> "SNRM", seg |-> FALSE, ns |-> 0, nr |-> 0, poll |-> TRUE,
     client |-> TheClient, mine |-> TRUE, llc |-> FALSE,
     nego |-> [ok |-> TRUE, max |-> ClientMaxInfo], info |-> <<>>]

(* At most n units of the request r, of which a have been acknowledged. *)
(* The first segment starts with the LLC header.                        *)
Segment(r, a, n, vs, vr) ==
    LET last == SmallerOf(a + n, Len(r))
    IN  [BlankFrame EXCEPT !.type = "I", !.seg = last < Len(r), !.ns = vs,
                           !.nr = vr, !.llc = a = 0,
                           !.info = SubSeq(r, a + 1, last)]

Poll(vr) == [BlankFrame EXCEPT !.type = "RR", !.nr = vr]

Silent == up = <<>> /\ down = <<>>

Send(f) == Len(up) < Capacity /\ out' = f /\ up' = Append(up, f)

Connect ==
    /\ peer = "off" /\ Silent
    /\ peer' = "connecting"
    /\ Send(BlankFrame)
    /\ UNCHANGED <<c_vs, c_vr, request, acked, collected, answer, down,
                   vars, histVars>>

Issue(r) ==
    /\ peer = "on" /\ request = NoRequest
    /\ request' = r /\ acked' = 0 /\ collected' = <<>>
    /\ \E n \in SegmentLengths : Send(Segment(r, 0, n, c_vs, c_vr))
    /\ executed' = <<>> /\ disturbed' = FALSE
    /\ UNCHANGED <<peer, c_vs, c_vr, answer, down, vars, stops>>

Retransmit ==
    /\ out # NoFrame
    /\ peer = "connecting" => Silent
    /\ Send(out)
    /\ UNCHANGED <<peer, c_vs, c_vr, request, acked, collected, answer, down,
                   vars, histVars>>

GiveUp ==
    /\ peer # "off" /\ Silent
    /\ peer' = "off" /\ request' = NoRequest /\ acked' = 0
    /\ out' = NoFrame /\ collected' = <<>>
    /\ UNCHANGED <<c_vs, c_vr, answer, mediumVars, vars, histVars>>

Connected(f) ==
    /\ peer = "connecting" /\ f.type = "UA"
    /\ peer' = "on" /\ c_vs' = 0 /\ c_vr' = 0
    /\ out' = NoFrame
    /\ UNCHANGED <<request, acked, collected, answer, up>>

SegmentAcknowledged(f) ==
    /\ peer = "on" /\ out.type = "I" /\ out.seg
    /\ f.type = "RR" /\ f.nr = Succ(c_vs)
    /\ c_vs' = Succ(c_vs)
    /\ acked' = acked + Len(out.info)
    /\ \E n \in SegmentLengths :
          Send(Segment(request, acked', n, Succ(c_vs), c_vr))
    /\ UNCHANGED <<peer, c_vr, request, collected, answer>>

(* The I frame that acknowledges the last segment, or answers a poll. *)
Answered(f) ==
    /\ peer = "on" /\ out # NoFrame /\ f.type = "I" /\ f.ns = c_vr
    /\ \/ out.type = "I" /\ ~out.seg /\ f.nr = Succ(c_vs)
       \/ out.type = "RR" /\ f.nr = c_vs
    /\ c_vs' = f.nr /\ c_vr' = Succ(c_vr)
    /\ acked' = 0
    /\ \/ /\ f.seg
          /\ collected' = collected \o f.info
          /\ Send(Poll(Succ(c_vr)))
          /\ UNCHANGED <<request, answer>>
       \/ /\ ~f.seg
          /\ answer' = collected \o f.info
          /\ collected' = <<>> /\ request' = NoRequest /\ out' = NoFrame
          /\ UNCHANGED up
    /\ UNCHANGED peer

(* Any other frame is a repetition and is ignored. *)
Expected(f) ==
    \/ peer = "connecting" /\ f.type = "UA"
    \/ /\ peer = "on" /\ out.type = "I" /\ out.seg
       /\ f.type = "RR" /\ f.nr = Succ(c_vs)
    \/ /\ peer = "on" /\ f.type = "I" /\ f.ns = c_vr
       /\ \/ out.type = "I" /\ ~out.seg /\ f.nr = Succ(c_vs)
          \/ out.type = "RR" /\ f.nr = c_vs

ClientRcv ==
    /\ down # <<>>
    /\ down' = Tail(down)
    /\ LET f == Head(down)
       IN  \/ Connected(f) \/ SegmentAcknowledged(f) \/ Answered(f)
           \/ ~Expected(f) /\ UNCHANGED <<clientVars, up>>
    /\ UNCHANGED <<vars, histVars>>

-----------------------------------------------------------------------------
(* The meter. What it sends is lost when the medium is full. *)

Transmitted ==
    down' = IF wire' # NoFrame /\ Len(down) < Capacity
            THEN Append(down, wire') ELSE down

(* The APDU an accepted I frame gives to the application, if any. *)
Given(f) ==
    CASE SegState(f) = "NONE" /\ f.llc -> <<f.info>>
      [] SegState(f) = "LAST"          -> <<Reassembled(f)>>
      [] OTHER                         -> <<>>

MeterRcv ==
    /\ up # <<>>
    /\ up' = Tail(up)
    /\ LET f == Head(up)
       IN  \/ RcvInfo(f) /\ executed' = executed \o Given(f)
           \/ RcvSupervisory(f) /\ UNCHANGED executed
    /\ Transmitted
    /\ UNCHANGED <<clientVars, disturbed, stops>>

(* A frame of another station. *)
MeterHears(f) ==
    /\ RcvFrame(f)
    /\ Transmitted
    /\ disturbed' = TRUE
    /\ UNCHANGED <<clientVars, up, executed, stops>>

MeterIdle ==
    /\ amr_tx # NoFrame
    /\ AmrProcIdle
    /\ Transmitted
    /\ UNCHANGED <<clientVars, up, histVars>>

MeterPushes(p) ==
    /\ amr_tx = NoFrame
    /\ PushDataNoti(p)
    /\ disturbed' = TRUE
    /\ UNCHANGED <<clientVars, mediumVars, executed, stops>>

MeterStops ==
    /\ stops < MaxStops
    /\ stops' = stops + 1
    /\ StopForce \/ AmrInit \/ Restart
    /\ UNCHANGED <<clientVars, mediumVars, executed, disturbed>>

(* The medium loses a frame, or the meter does while it takes key input. *)
Lose ==
    /\ \/ up # <<>> /\ up' = Tail(up) /\ UNCHANGED down
       \/ down # <<>> /\ down' = Tail(down) /\ UNCHANGED up
    /\ UNCHANGED <<vars, clientVars, histVars>>

LinkNext ==
    \/ Connect \/ Retransmit \/ GiveUp \/ ClientRcv
    \/ \E r \in Requests : Issue(r)
    \/ MeterRcv \/ MeterIdle \/ MeterStops
    \/ \E f \in Noise : MeterHears(f)
    \/ \E p \in Pushes : MeterPushes(p)
    \/ Lose

LinkSpec == LinkInit /\ [][LinkNext]_linkAllVars

(***************************************************************************)
(* The meter task polls the ports for ever and takes key input for a       *)
(* bounded time only, so of the frames that reach it again and again one   *)
(* is handled.  The client repeats a frame as long as it has no answer.    *)
(***************************************************************************)
LinkFairness ==
    /\ SF_linkAllVars(MeterRcv)
    /\ SF_linkAllVars(ClientRcv)
    /\ WF_linkAllVars(Retransmit)

FairLinkSpec == LinkSpec /\ LinkFairness

-----------------------------------------------------------------------------
(* What the data link needs to keep its promise, besides a conforming      *)
(* client: no segmented frame for another station passes on its bus, the   *)
(* NV memory works, and requests and answers fit into the segment buffer.  *)
CleanBus == \A f \in Noise : ~f.seg
NvWorks == NvOutcomes = {TRUE}
DataFits ==
    \A r \in Requests :
        /\ Len(r) <= SegFrameSize
        /\ Len(ReplyOf(r)) <= SegFrameSize + ClientMaxInfo

(* The requests of a client with this data link are those of Exchange: the *)
(* meter executes each whole and at most once, however often its frames    *)
(* are lost or repeated, and the answer is the one to that request.        *)
Promise == INSTANCE Exchange WITH
    Apdus <- Requests, NoApdu <- NoRequest, asked <- request

ImplementsExchange == Promise!Spec

(* While both ends are connected the meter expects the client's next frame *)
(* or has just taken it, and in the same way for what it sends: at most    *)
(* one frame separates the two ends in either direction.                   *)
NumbersInStep ==
    peer = "on" /\ dl_conn_state = "NRM" =>
        /\ dl_seq_Rto \in {c_vs, Succ(c_vs)}
        /\ dl_seq_Sto \in {c_vr, Succ(c_vr)}
        /\ dl_seq_Rto = Succ(c_vs) => out # NoFrame
        /\ dl_seq_Sto = Succ(c_vr) => request # NoRequest

(* The meter rejects no frame of a conforming client: FRMR ends in the     *)
(* client dropping the connection.                                         *)
NeverRejected == wire # NoFrame => wire.type # "FRMR"

(* What the application is given while a request is under way is that      *)
(* request and nothing else.  It follows from ImplementsExchange, and is   *)
(* stated apart for the bus on which segments of other meters' requests    *)
(* pass: the data of an unsegmented frame is what follows its LLC header,  *)
(* whatever passed before it.                                              *)
ExecutedIsAsked ==
    request # NoRequest => executed \in {<<>>, <<request>>}

(* Once the connection stands, a request gets its answer unless the client *)
(* gives up, the meter drops the connection, or somebody else speaks since *)
(* the issue: a frame of another meter may make the meter drop the last    *)
(* segment of a request for ever.                                          *)
RequestAnswered ==
    (request # NoRequest)
        ~> (\/ request = NoRequest
            \/ dl_conn_state = "NDM"
            \/ disturbed)
=============================================================================
