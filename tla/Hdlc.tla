-------------------------------- MODULE Hdlc --------------------------------
(***************************************************************************)
(* The HDLC data link of the meter: dlms/dl.c, together with the receive   *)
(* and transmit halves of amr_proc (dlms/comm.c, dlms/phy.c) between which *)
(* it runs.  Everything happens in the meter task, one amr_proc call at a  *)
(* time: at most one frame is parsed and handled, then the frame queued by *)
(* amr_set_send_frame, if any, leaves on the wire.  Between two calls the  *)
(* same task may queue a push notification.                                *)
(*                                                                         *)
(* A variable that stands for a C variable carries its name.  Lengths and  *)
(* offsets are counted in units of application data, one unit being an     *)
(* element of Data.  The application layer is the operator ReplyTo, the    *)
(* answers it may give to an APDU (none: it drops the APDU).               *)
(***************************************************************************)
EXTENDS Integers, Sequences

CONSTANTS
    Clients,      \* client addresses
    NoClient,     \* the address register before the first frame
    Data,         \* the units application data is made of
    Junk,         \* what the NV memory holds behind the segment buffer
    Frames,       \* the frames that may reach the data link
    Pushes,       \* the push notifications the application may issue
    Replies,      \* the APDUs the application may answer with
    Answers(_, _),\* Answers(apdu, r): r is an answer the application may give
    MaxInfo,      \* MAX_INFORMATION_FIELD_LENGTH_FOR_KEPCO
    SegFrameSize, \* TX_SEG_FRAME_SIZE
    BuffSize,     \* GLOBAL_BUFF_SIZE
    NvOutcomes    \* what nv_read and nv_write may return

NoFrame == [type |-> "none"]

Unit == Data \cup {Junk}

(* What the application may answer to an APDU; nothing when it drops it. *)
ReplyTo(apdu) == {r \in Replies : Answers(apdu, r)}

Nego == [ok : BOOLEAN, max : Nat]

(***************************************************************************)
(* A received frame.  mine: the destination address is accepted by         *)
(* dl_addr_parse.  UI stands for the unnumbered frames and the RNR that    *)
(* pass dl_control_check and that no handler looks at, BAD for a control   *)
(* byte the check refuses.  nego is what dl_nego_hdlc_param makes of the   *)
(* parameters of an SNRM: accepted or not, and the length proposed.        *)
(***************************************************************************)
InFrame ==
    [type : {"I", "RR", "SNRM", "DISC", "UI", "BAD"}, seg : BOOLEAN,
     ns : 0..7, nr : 0..7, poll : BOOLEAN, client : Clients, mine : BOOLEAN,
     llc : BOOLEAN, nego : Nego, info : Seq(Data)]

(* A frame the meter builds. "torn": see Overlay. *)
OutFrame ==
    [type : {"I", "RR", "UA", "DM", "FRMR", "UI", "torn"}, seg : BOOLEAN,
     ns : 0..7, nr : 0..7, client : Clients, info : Seq(Unit)]

ASSUME HdlcAssumption ==
    /\ Frames \subseteq InFrame
    /\ MaxInfo \in Nat /\ SegFrameSize \in Nat /\ BuffSize \in Nat
    \* nv.h: "should be smaller than GLOBAL_BUFF_SIZE"
    /\ SegFrameSize < BuffSize
    /\ MaxInfo <= BuffSize
    /\ NvOutcomes \subseteq BOOLEAN
    /\ Junk \notin Data
    /\ NoClient \notin Clients
    /\ Pushes \subseteq Seq(Data)
    /\ Replies \subseteq Seq(Data)
    /\ \A r \in Replies : Len(r) <= BuffSize

VARIABLES
    dl_conn_state,        \* DL_NDM_STATE or DL_NRM_STATE
    dl_conn_client_addr,  \* the peer the next frame is sent to
    dl_seg_prev,          \* the segment bit of the previous frame
    dl_poll_final,        \* the poll bit of the last frame parsed to the end
    dl_seq_Sto,           \* V(S), sequence number of the next I frame sent
    dl_seq_Rto,           \* V(R), sequence number expected next
    dl_seq_Sfrom,         \* N(S) of the last I frame, or 0xFF
    dl_tx_max_info,       \* longest information field the client takes
    dl_seg_frame_len,     \* length of the response tail kept in seg_frame
    dl_seg_frame_offs,    \* read offset of that tail, or length reassembled
    dl_seg_frame_over,    \* a write did not fit since the connection began
    seg_frame,            \* I_TX_SEG_FRAME, the segment buffer in NV memory
    tx_ext,               \* gst_dl_tx_hdlc_ext: last I or RR frame built
    rx_ext,               \* gst_dl_rx_hdlc_ext: last I or RR frame accepted
    amr_tx,               \* the push frame waiting for amr_send_frame
    wire                  \* the frame the last amr_proc call put on the wire

linkVars == <<dl_conn_state, dl_tx_max_info>>
seqVars == <<dl_seq_Sto, dl_seq_Rto, dl_seq_Sfrom>>
segVars == <<dl_seg_frame_len, dl_seg_frame_offs, dl_seg_frame_over, seg_frame>>
extVars == <<tx_ext, rx_ext>>
parseVars == <<dl_conn_client_addr, dl_seg_prev, dl_poll_final>>
vars == <<linkVars, seqVars, segVars, extVars, parseVars, amr_tx, wire>>

-----------------------------------------------------------------------------
(* Sequence numbers live in three bits of the control byte. *)
Succ(n) == (n + 1) % 8
Pred(n) == (n + 7) % 8

SmallerOf(a, b) == IF a < b THEN a ELSE b

(* amr_init, dl_init and the zeroed memory of a cold start. *)
Init ==
    /\ dl_conn_state = "NDM"
    /\ dl_conn_client_addr = NoClient
    /\ dl_seg_prev = FALSE
    /\ dl_poll_final = FALSE
    /\ dl_seq_Sto = 0 /\ dl_seq_Rto = 0 /\ dl_seq_Sfrom = 0
    /\ dl_tx_max_info = 0
    /\ dl_seg_frame_len = 0 /\ dl_seg_frame_offs = 0
    /\ dl_seg_frame_over = FALSE
    /\ seg_frame = [i \in 1..SegFrameSize |-> Junk]
    /\ tx_ext = NoFrame /\ rx_ext = NoFrame
    /\ amr_tx = NoFrame /\ wire = NoFrame

-----------------------------------------------------------------------------
(* dl_addr_parse. SNRM and DISC are taken from any client; in NRM the other *)
(* frames must come from the connected one.                                 *)
AnyClient(f) == f.type \in {"SNRM", "DISC"} \/ dl_conn_state = "NDM"

Addressed(f) == f.mine /\ (AnyClient(f) \/ f.client = dl_conn_client_addr)

SegState(f) ==
    IF dl_seg_prev
    THEN IF f.seg THEN "MID" ELSE "LAST"
    ELSE IF f.seg THEN "FIRST" ELSE "NONE"

(* What dl_frame_parse records of a frame it passes on. *)
FrameParse(f) ==
    /\ Addressed(f)
    /\ dl_conn_client_addr' = f.client
    /\ dl_poll_final' = f.poll

(***************************************************************************)
(* dl_frame_tx followed by the amr_send_frame of the same amr_proc call.   *)
(* The frame is built in tx_buff and queued only when the poll bit was     *)
(* set.  A push frame still waiting is built in the same tx_buff: it is    *)
(* replaced by the new frame, or, if that one was not polled for,          *)
(* overwritten and sent with its old length.                               *)
(***************************************************************************)
Overlay(f) == IF Len(f.info) = Len(amr_tx.info)
              THEN f ELSE [f EXCEPT !.type = "torn"]

Emit(f) ==
    /\ wire' = CASE dl_poll_final'                       -> f
                 [] ~dl_poll_final' /\ amr_tx = NoFrame  -> NoFrame
                 [] ~dl_poll_final' /\ amr_tx # NoFrame  -> Overlay(f)
    /\ amr_tx' = NoFrame

EmitNothing == wire' = amr_tx /\ amr_tx' = NoFrame

Answer(f, type, seg, ns, nr, info) ==
    [type |-> type, seg |-> seg, ns |-> ns, nr |-> nr,
     client |-> f.client, info |-> info]

(* UA, DM, FRMR: nothing is kept for retransmission. *)
SendUnnumbered(f, type) == Emit(Answer(f, type, FALSE, 0, 0, <<>>))

(* Fault: the frame is copied for retransmission before V(R) moves. *)
SendRR_CopiedEarly(f, sfrom) ==
    /\ dl_seq_Rto' = Succ(sfrom)
    /\ dl_seq_Sto' = dl_seq_Sto
    /\ tx_ext' = Answer(f, "RR", FALSE, 0, dl_seq_Rto, <<>>)
    /\ Emit(Answer(f, "RR", FALSE, 0, Succ(sfrom), <<>>))

(* dl_send_RR: V(R) is recomputed from sfrom, the RR becomes the frame kept. *)
SendRR(f, sfrom) ==
    LET r == Answer(f, "RR", FALSE, 0, Succ(sfrom), <<>>)
    IN  /\ dl_seq_Rto' = Succ(sfrom)
        /\ dl_seq_Sto' = dl_seq_Sto
        /\ tx_ext' = r
        /\ Emit(r)

(* Fault: V(S) does not move. *)
SendInfo_NoCount(f, sfrom, seg, info) ==
    LET i == Answer(f, "I", seg, dl_seq_Sto, Succ(sfrom), info)
    IN  /\ dl_seq_Rto' = Succ(sfrom)
        /\ dl_seq_Sto' = dl_seq_Sto
        /\ tx_ext' = i
        /\ Emit(i)

(* dl_send_info_frame with the numbers of dl_make_ctrl_seq. *)
SendInfo(f, sfrom, seg, info) ==
    LET i == Answer(f, "I", seg, dl_seq_Sto, Succ(sfrom), info)
    IN  /\ dl_seq_Rto' = Succ(sfrom)
        /\ dl_seq_Sto' = Succ(dl_seq_Sto)
        /\ tx_ext' = i
        /\ Emit(i)

(* Fault: a repeated frame is dropped. *)
Replay_Dropped(f) == EmitNothing

(* dl_frame_tx_for_hdlc_dup: the kept frame is sent again, whatever the   *)
(* poll bit, when the received frame repeats the last accepted one.       *)
Replay(f) ==
    IF tx_ext # NoFrame /\ f = rx_ext
    THEN wire' = tx_ext /\ amr_tx' = NoFrame
    ELSE EmitNothing

-----------------------------------------------------------------------------
(* The segment buffer: one area for requests being reassembled and for the *)
(* tail of a response being sent, and one offset for both.                 *)
Fits(offs, d) == offs + Len(d) <= SegFrameSize

Written(offs, d) ==
    [i \in 1..SegFrameSize |-> IF offs < i /\ i <= offs + Len(d)
                               THEN d[i - offs] ELSE seg_frame[i]]

Stored(offs, len) ==
    [i \in 1..len |-> IF offs + i <= SegFrameSize
                      THEN seg_frame[offs + i] ELSE Junk]

(* dl_seg_frame_write; ok is what nv_write returns when it is called. *)
SegFrameWrite(offs, d, ok) ==
    /\ seg_frame' = IF Fits(offs, d) /\ ok THEN Written(offs, d) ELSE seg_frame
    /\ dl_seg_frame_over' = (dl_seg_frame_over \/ ~Fits(offs, d))

-----------------------------------------------------------------------------
(* dl_send_appl_msg: what does not fit into the first frame is kept. *)
SendAppl(f, resp, offs) ==
    IF Len(resp) > dl_tx_max_info
    THEN LET tail == SubSeq(resp, dl_tx_max_info + 1, Len(resp))
         IN  /\ dl_seg_frame_offs' = 0
             /\ dl_seg_frame_len' = Len(tail)
             /\ \E ok \in NvOutcomes : SegFrameWrite(0, tail, ok)
             /\ SendInfo(f, f.ns, TRUE, SubSeq(resp, 1, dl_tx_max_info))
    ELSE /\ dl_seg_frame_offs' = offs
         /\ dl_seg_frame_len' = 0
         /\ UNCHANGED <<dl_seg_frame_over, seg_frame>>
         /\ SendInfo(f, f.ns, FALSE, resp)

(* appl_msg_data_ind: the application answers, or drops the message. *)
ApplMsgDataInd(f, apdu, offs) ==
    \/ \E resp \in ReplyTo(apdu) : SendAppl(f, resp, offs)
    \/ /\ ReplyTo(apdu) = {}
       /\ dl_seg_frame_offs' = offs
       /\ UNCHANGED <<dl_seg_frame_len, dl_seg_frame_over, seg_frame, tx_ext,
                      dl_seq_Sto, dl_seq_Rto>>
       /\ EmitNothing

(* Fault: the length is not compared with global_buff. *)
Reassembled_Unbounded(f) == Stored(0, dl_seg_frame_offs) \o f.info

(* The APDU a last segment completes; the segment is left out when the *)
(* whole would exceed global_buff.                                     *)
Reassembled(f) ==
    LET head == Stored(0, dl_seg_frame_offs)
    IN  IF dl_seg_frame_offs + Len(f.info) <= BuffSize
        THEN head \o f.info ELSE head

(* dl_appl_msg_proc. *)
ApplMsgProc(f) ==
    \/ /\ SegState(f) \in {"NONE", "FIRST"} /\ ~f.llc
       /\ UNCHANGED <<segVars, tx_ext, dl_seq_Sto, dl_seq_Rto>>
       /\ EmitNothing
    \/ /\ SegState(f) = "NONE" /\ f.llc
       /\ ApplMsgDataInd(f, f.info, dl_seg_frame_offs)
    \/ /\ SegState(f) = "FIRST" /\ f.llc
       /\ \E ok \in NvOutcomes :
             /\ SegFrameWrite(0, f.info, ok)
             /\ dl_seg_frame_offs' =
                   IF Fits(0, f.info) /\ ok THEN Len(f.info) ELSE 0
       /\ UNCHANGED dl_seg_frame_len
       /\ SendRR(f, f.ns)
    \/ /\ SegState(f) = "MID"
       /\ \E ok \in NvOutcomes :
             /\ SegFrameWrite(dl_seg_frame_offs, f.info, ok)
             /\ dl_seg_frame_offs' =
                   IF Fits(dl_seg_frame_offs, f.info) /\ ok
                   THEN dl_seg_frame_offs + Len(f.info)
                   ELSE dl_seg_frame_offs
       /\ UNCHANGED dl_seg_frame_len
       /\ SendRR(f, f.ns)
    \/ /\ SegState(f) = "LAST"
       /\ \E ok \in NvOutcomes :
             \/ /\ ok
                /\ ApplMsgDataInd(f, Reassembled(f), Len(Reassembled(f)))
             \/ /\ ~ok
                /\ UNCHANGED <<segVars, tx_ext, dl_seq_Sto, dl_seq_Rto>>
                /\ EmitNothing

-----------------------------------------------------------------------------
(* Frames that are dropped. *)

(* dl_frame_parse fails on the address, after set_seg_status. *)
RcvForeign(f) ==
    /\ ~Addressed(f)
    /\ dl_seg_prev' = f.seg
    /\ EmitNothing
    /\ UNCHANGED <<linkVars, seqVars, segVars, extVars, dl_conn_client_addr,
                   dl_poll_final>>

(* dl_control_proc: the control byte is unknown, or names a frame that the *)
(* current state has no handler for.                                       *)
RcvUnhandled(f) ==
    /\ FrameParse(f)
    /\ dl_seg_prev' = f.seg
    /\ \/ f.type = "BAD" /\ SendUnnumbered(f, "FRMR")
       \/ /\ \/ f.type = "UI"
             \/ f.type \in {"I", "RR"} /\ dl_conn_state = "NDM"
          /\ EmitNothing
    /\ UNCHANGED <<linkVars, seqVars, segVars, extVars>>

-----------------------------------------------------------------------------
(* Connection and disconnection. *)

(* Fault: the kept frames survive the connection. *)
Stop_KeepsFrames == dl_conn_state' = "NDM" /\ UNCHANGED extVars

(* dl_stop. *)
Stop == dl_conn_state' = "NDM" /\ tx_ext' = NoFrame /\ rx_ext' = NoFrame

(* Fault: the length the client proposes is taken as it is. *)
NegoHdlcParam_Unbounded(f) == dl_tx_max_info' = f.nego.max

(* dl_nego_hdlc_param: there is an upper bound for the length, and no lower. *)
NegoHdlcParam(f) == dl_tx_max_info' = SmallerOf(f.nego.max, MaxInfo)

(* Fault: dl_var_init forgets the response tail. *)
RcvSnrm_KeepsTail(f) ==
    /\ FrameParse(f)
    /\ f.type = "SNRM" /\ f.nego.ok
    /\ NegoHdlcParam(f)
    /\ dl_conn_state' = "NRM"
    /\ tx_ext' = NoFrame /\ rx_ext' = NoFrame
    /\ dl_seg_prev' = FALSE
    /\ dl_seg_frame_over' = FALSE
    /\ dl_seq_Rto' = 0 /\ dl_seq_Sto' = 0
    /\ SendUnnumbered(f, "UA")
    /\ UNCHANGED <<dl_seq_Sfrom, dl_seg_frame_len, dl_seg_frame_offs, seg_frame>>

(* An acceptable SNRM: dl_snrm_frame_proc, after dl_stop if connected. *)
RcvSnrm(f) ==
    /\ FrameParse(f)
    /\ f.type = "SNRM" /\ f.nego.ok
    /\ NegoHdlcParam(f)
    /\ dl_conn_state' = "NRM"
    /\ IF dl_conn_state = "NRM" THEN tx_ext' = NoFrame /\ rx_ext' = NoFrame
                                ELSE UNCHANGED extVars
    /\ dl_seg_prev' = FALSE
    /\ dl_seg_frame_over' = FALSE
    /\ dl_seg_frame_len' = 0
    /\ dl_seq_Rto' = 0 /\ dl_seq_Sto' = 0
    /\ SendUnnumbered(f, "UA")
    /\ UNCHANGED <<dl_seq_Sfrom, dl_seg_frame_offs, seg_frame>>

(* An SNRM whose parameters are refused ends the connection there was. *)
RcvSnrmRefused(f) ==
    /\ FrameParse(f)
    /\ f.type = "SNRM" /\ ~f.nego.ok
    /\ NegoHdlcParam(f)
    /\ dl_seg_prev' = f.seg
    /\ IF dl_conn_state = "NRM" THEN Stop
                                ELSE UNCHANGED <<dl_conn_state, extVars>>
    /\ SendUnnumbered(f, "DM")
    /\ UNCHANGED <<seqVars, segVars>>

RcvDisc(f) ==
    /\ FrameParse(f)
    /\ f.type = "DISC"
    /\ dl_seg_prev' = f.seg
    /\ \/ dl_conn_state = "NRM" /\ Stop /\ SendUnnumbered(f, "UA")
       \/ /\ dl_conn_state = "NDM" /\ UNCHANGED <<dl_conn_state, extVars>>
          /\ SendUnnumbered(f, "DM")
    /\ UNCHANGED <<dl_tx_max_info, seqVars, segVars>>

-----------------------------------------------------------------------------
(* Numbered frames in NRM: dl_ctrl_in_nrm_state. *)
RcvNumbered(f, type) ==
    /\ FrameParse(f)
    /\ f.type = type
    /\ dl_conn_state = "NRM"
    /\ dl_seg_prev' = f.seg
    /\ UNCHANGED linkVars

(* Fault: a frame seen before is handled again. *)
RcvInfo_Again(f) ==
    /\ RcvNumbered(f, "I")
    /\ \/ f.ns = dl_seq_Rto /\ f.nr = dl_seq_Sto
       \/ f.ns = Pred(dl_seq_Rto) /\ f.nr = Pred(dl_seq_Sto)
    /\ dl_seq_Sfrom' = f.ns
    /\ rx_ext' = f
    /\ ApplMsgProc(f)

(* The expected I frame. *)
RcvInfo(f) ==
    /\ RcvNumbered(f, "I")
    /\ f.ns = dl_seq_Rto /\ f.nr = dl_seq_Sto
    /\ dl_seq_Sfrom' = f.ns
    /\ rx_ext' = f
    /\ ApplMsgProc(f)

(* An I frame seen before, or one that acknowledges less than was sent. *)
RcvInfoRepeated(f) ==
    /\ RcvNumbered(f, "I")
    /\ \/ f.ns = Pred(dl_seq_Rto)
       \/ f.ns = dl_seq_Rto /\ f.nr = Pred(dl_seq_Sto)
    /\ dl_seq_Sfrom' = f.ns
    /\ Replay(f)
    /\ UNCHANGED <<dl_seq_Sto, dl_seq_Rto, segVars, extVars>>

(* An I frame out of the window: answered by the V(R) that is expected. *)
RcvInfoUnexpected(f) ==
    /\ RcvNumbered(f, "I")
    /\ f.ns \notin {dl_seq_Rto, Pred(dl_seq_Rto)}
    /\ dl_seq_Sfrom' = Pred(dl_seq_Rto)
    /\ SendRR(f, Pred(dl_seq_Rto))
    /\ UNCHANGED <<segVars, rx_ext>>

(* The expected I frame with an acknowledgement that makes no sense. *)
RcvInfoRejected(f) ==
    /\ RcvNumbered(f, "I")
    /\ f.ns = dl_seq_Rto /\ f.nr \notin {dl_seq_Sto, Pred(dl_seq_Sto)}
    /\ dl_seq_Sfrom' = f.ns
    /\ SendUnnumbered(f, "FRMR")
    /\ UNCHANGED <<dl_seq_Sto, dl_seq_Rto, segVars, extVars>>

(* dl_RR_msg_proc: the next part of the response, if any is left. *)
TailLeft == dl_seg_frame_len # 0 /\ dl_seg_frame_len > dl_seg_frame_offs

RcvRR(f) ==
    /\ RcvNumbered(f, "RR")
    /\ f.nr = dl_seq_Sto
    /\ rx_ext' = f
    /\ LET left == dl_seg_frame_len - dl_seg_frame_offs
           len  == SmallerOf(left, dl_tx_max_info)
       IN  \/ /\ TailLeft /\ TRUE \in NvOutcomes
              /\ SendInfo(f, dl_seq_Sfrom, left > dl_tx_max_info,
                          Stored(dl_seg_frame_offs, len))
              /\ dl_seg_frame_offs' = dl_seg_frame_offs + len
              /\ UNCHANGED dl_seq_Sfrom
           \/ /\ TailLeft /\ FALSE \in NvOutcomes
              /\ SendRR(f, dl_seq_Sfrom)
              /\ UNCHANGED <<dl_seg_frame_offs, dl_seq_Sfrom>>
           \/ /\ ~TailLeft
              /\ dl_seq_Sfrom' = 255
              /\ SendRR(f, 255)
              /\ UNCHANGED dl_seg_frame_offs
    /\ UNCHANGED <<dl_seg_frame_len, dl_seg_frame_over, seg_frame>>

RcvRRRepeated(f) ==
    /\ RcvNumbered(f, "RR")
    /\ f.nr = Pred(dl_seq_Sto)
    /\ Replay(f)
    /\ UNCHANGED <<seqVars, segVars, extVars>>

(* Fault: a poll seen before is rejected. *)
RcvRRRejected_Strict(f) ==
    /\ RcvNumbered(f, "RR")
    /\ f.nr # dl_seq_Sto
    /\ SendUnnumbered(f, "FRMR")
    /\ UNCHANGED <<seqVars, segVars, extVars>>

RcvRRRejected(f) ==
    /\ RcvNumbered(f, "RR")
    /\ f.nr \notin {dl_seq_Sto, Pred(dl_seq_Sto)}
    /\ SendUnnumbered(f, "FRMR")
    /\ UNCHANGED <<seqVars, segVars, extVars>>

(* A frame that gives the application no message. *)
RcvSupervisory(f) ==
    \/ RcvForeign(f)      \/ RcvUnhandled(f)
    \/ RcvSnrm(f)         \/ RcvSnrmRefused(f)    \/ RcvDisc(f)
    \/ RcvInfoRepeated(f) \/ RcvInfoUnexpected(f) \/ RcvInfoRejected(f)
    \/ RcvRR(f)           \/ RcvRRRepeated(f)     \/ RcvRRRejected(f)

(* One amr_proc call that finds a complete frame. *)
RcvFrame(f) == RcvInfo(f) \/ RcvSupervisory(f)

-----------------------------------------------------------------------------
(* One amr_proc call that finds none, or drops the one it finds because the *)
(* display takes key input.                                                 *)
AmrProcIdle ==
    /\ EmitNothing
    /\ UNCHANGED <<linkVars, seqVars, segVars, extVars, parseVars>>

(* dl_send_appl_push_datanoti_msg: too long a message is dropped, and so is *)
(* one that follows a frame without the poll bit.                           *)
PushDataNoti(info) ==
    /\ dl_conn_state = "NRM"
    /\ Len(info) <= dl_tx_max_info
    /\ dl_poll_final
    /\ amr_tx' = [type |-> "UI", seg |-> FALSE, ns |-> 0, nr |-> 0,
                  client |-> dl_conn_client_addr, info |-> info]
    /\ wire' = NoFrame
    /\ UNCHANGED <<linkVars, seqVars, segVars, extVars, parseVars>>

(* dl_stop_force: the association timer or the reset key. *)
StopForce ==
    /\ Stop
    /\ wire' = NoFrame
    /\ UNCHANGED <<dl_tx_max_info, seqVars, segVars, parseVars, amr_tx>>

(* amr_init on the running meter, called by the display. *)
AmrInit ==
    /\ Stop
    /\ amr_tx' = NoFrame /\ wire' = NoFrame
    /\ UNCHANGED <<dl_tx_max_info, seqVars, segVars, parseVars>>

(* A restart clears the RAM and leaves the NV memory as it was. *)
Restart ==
    /\ Stop
    /\ dl_conn_client_addr' = NoClient
    /\ dl_seg_prev' = FALSE /\ dl_poll_final' = FALSE
    /\ dl_seq_Sto' = 0 /\ dl_seq_Rto' = 0 /\ dl_seq_Sfrom' = 0
    /\ dl_tx_max_info' = 0
    /\ dl_seg_frame_len' = 0 /\ dl_seg_frame_offs' = 0
    /\ dl_seg_frame_over' = FALSE
    /\ amr_tx' = NoFrame /\ wire' = NoFrame
    /\ UNCHANGED seg_frame

Next ==
    \/ \E f \in Frames : RcvFrame(f)
    \/ \E p \in Pushes : PushDataNoti(p)
    \/ AmrProcIdle
    \/ StopForce
    \/ AmrInit
    \/ Restart

Spec == Init /\ [][Next]_vars

-----------------------------------------------------------------------------
TypeOK ==
    /\ dl_conn_state \in {"NDM", "NRM"}
    /\ dl_conn_client_addr \in Clients \cup {NoClient}
    /\ dl_seg_prev \in BOOLEAN /\ dl_poll_final \in BOOLEAN
    /\ dl_seq_Sto \in 0..7 /\ dl_seq_Rto \in 0..7
    /\ dl_seq_Sfrom \in 0..7 \cup {255}
    /\ dl_tx_max_info \in 0..MaxInfo
    /\ dl_seg_frame_len \in Nat /\ dl_seg_frame_offs \in Nat
    /\ dl_seg_frame_over \in BOOLEAN
    /\ seg_frame \in [1..SegFrameSize -> Unit]
    /\ tx_ext \in OutFrame \cup {NoFrame}
    /\ rx_ext \in InFrame \cup {NoFrame}
    /\ amr_tx \in OutFrame \cup {NoFrame}
    /\ wire \in OutFrame \cup {NoFrame}

(* The frame kept for retransmission always carries the present V(R), and  *)
(* an I frame the number before V(S): sending it again, however often,     *)
(* tells the client nothing but the present state of the link.             *)
KeptFrameIsCurrent ==
    tx_ext # NoFrame =>
        /\ tx_ext.nr = dl_seq_Rto
        /\ tx_ext.type = "I" => tx_ext.ns = Pred(dl_seq_Sto)

(* What is kept for retransmission belongs to the client now connected:    *)
(* SNRM and DISC overwrite dl_conn_client_addr before they are accepted,   *)
(* and no client is ever sent what was built for another.                  *)
KeptFramesBelongToClient ==
    /\ tx_ext # NoFrame => tx_ext.client = dl_conn_client_addr
    /\ rx_ext # NoFrame => rx_ext.client = dl_conn_client_addr
    /\ dl_conn_state = "NDM" => tx_ext = NoFrame /\ rx_ext = NoFrame

(* dl_seg_frame_offs never leaves global_buff, whatever the order in which *)
(* segments, polls and responses share it: the copies of dl_appl_msg_proc  *)
(* and dl_RR_msg_proc stay inside the buffer.                              *)
SegOffsetInBuffer ==
    /\ dl_seg_frame_offs <= BuffSize
    /\ dl_seg_frame_len <= BuffSize

(* A connection changes hands only through a new SNRM: the new client      *)
(* finds fresh sequence numbers and nothing of its predecessor's response. *)
HandOverIsFresh ==
    [][ /\ dl_conn_state' = "NRM"
        /\ dl_conn_client_addr' # dl_conn_client_addr
        => /\ dl_seq_Sto' = 0 /\ dl_seq_Rto' = 0
           /\ tx_ext' = NoFrame /\ rx_ext' = NoFrame
           /\ dl_seg_frame_len' = 0 ]_vars
=============================================================================
