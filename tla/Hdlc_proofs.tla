---------------------------- MODULE Hdlc_proofs -----------------------------
(***************************************************************************)
(* Proofs about Hdlc, for every set of frames, every set of answers and    *)
(* every size of the buffers.                                              *)
(***************************************************************************)
EXTENDS Hdlc, TLAPS

USE DEF NoFrame

-----------------------------------------------------------------------------
(* Arithmetic of the three-bit sequence numbers. *)
LEMMA SuccPred ==
    ASSUME NEW n \in 0..7
    PROVE  Succ(n) \in 0..7 /\ Pred(n) \in 0..7 /\ Pred(Succ(n)) = n
BY DEF Succ, Pred

(* 0xFF stands for "nothing received yet": its successor is zero. *)
LEMMA SuccNone ==
    ASSUME NEW n \in 0..7 \cup {255}
    PROVE  Succ(n) \in 0..7
BY DEF Succ

(* The parts of a received frame. *)
LEMMA InFrameFields ==
    ASSUME NEW f \in InFrame
    PROVE  /\ f.seg \in BOOLEAN /\ f.ns \in 0..7 /\ f.nr \in 0..7
           /\ f.poll \in BOOLEAN /\ f.client \in Clients
           /\ f.nego.max \in Nat /\ f.info \in Seq(Data)
<1>1. f.nego \in Nego
  BY DEF InFrame
<1>2. f.nego.max \in Nat
  BY <1>1 DEF Nego
<1> QED
  BY <1>2 DEF InFrame

LEMMA EmptyInfo == <<>> \in Seq(Unit)
OBVIOUS

(* What reaches the wire, whichever of the frames in tx_buff it is. *)
LEMMA EmitType ==
    ASSUME NEW r \in OutFrame, amr_tx \in OutFrame \cup {NoFrame},
           dl_poll_final' \in BOOLEAN, Emit(r)
    PROVE  wire' \in OutFrame \cup {NoFrame} /\ amr_tx' = NoFrame
<1>1. Overlay(r) \in OutFrame
  BY DEF Overlay, OutFrame
<1> QED
  BY <1>1 DEF Emit

LEMMA EmitNothingType ==
    ASSUME amr_tx \in OutFrame \cup {NoFrame}, EmitNothing
    PROVE  wire' \in OutFrame \cup {NoFrame} /\ amr_tx' = NoFrame
BY DEF EmitNothing

-----------------------------------------------------------------------------
(* The segment buffer. *)

(* Writing data leaves the buffer a buffer. *)
LEMMA WrittenType ==
    ASSUME seg_frame \in [1..SegFrameSize -> Unit],
           NEW offs \in Nat, NEW d \in Seq(Data)
    PROVE  Written(offs, d) \in [1..SegFrameSize -> Unit]
<1>1. ASSUME NEW i \in 1..SegFrameSize, offs < i, i <= offs + Len(d)
      PROVE  d[i - offs] \in Unit
  <2>1. i - offs \in 1..Len(d)
    BY <1>1, HdlcAssumption
  <2> QED
    BY <2>1 DEF Unit
<1>2. ASSUME NEW i \in 1..SegFrameSize
      PROVE  (IF offs < i /\ i <= offs + Len(d)
              THEN d[i - offs] ELSE seg_frame[i]) \in Unit
  BY <1>1
<1> QED
  BY <1>2 DEF Written

(* Reading gives as many units as were asked for. *)
LEMMA StoredType ==
    ASSUME seg_frame \in [1..SegFrameSize -> Unit],
           NEW offs \in Nat, NEW len \in Nat
    PROVE  Stored(offs, len) \in Seq(Unit) /\ Len(Stored(offs, len)) = len
<1>1. ASSUME NEW i \in 1..len
      PROVE  (IF offs + i <= SegFrameSize
              THEN seg_frame[offs + i] ELSE Junk) \in Unit
  BY HdlcAssumption DEF Unit
<1> QED
  BY <1>1 DEF Stored

(* An APDU put together from segments never exceeds global_buff. *)
LEMMA ReassembledType ==
    ASSUME seg_frame \in [1..SegFrameSize -> Unit], NEW f \in InFrame,
           dl_seg_frame_offs \in Nat, dl_seg_frame_offs <= BuffSize
    PROVE  /\ Reassembled(f) \in Seq(Unit)
           /\ Len(Reassembled(f)) \in Nat
           /\ Len(Reassembled(f)) <= BuffSize
<1>1. /\ Stored(0, dl_seg_frame_offs) \in Seq(Unit)
      /\ Len(Stored(0, dl_seg_frame_offs)) = dl_seg_frame_offs
  BY StoredType
<1>2. f.info \in Seq(Unit)
  BY InFrameFields DEF Unit
<1>3. \A s \in Seq(Unit), t \in Seq(Unit) :
         s \o t \in Seq(Unit) /\ Len(s \o t) = Len(s) + Len(t)
  OBVIOUS
<1>4. /\ Stored(0, dl_seg_frame_offs) \o f.info \in Seq(Unit)
      /\ Len(Stored(0, dl_seg_frame_offs) \o f.info)
            = dl_seg_frame_offs + Len(f.info)
  BY <1>1, <1>2, <1>3
<1>5. Len(f.info) \in Nat
  BY <1>2
<1> QED
  BY <1>1, <1>4, <1>5 DEF Reassembled

-----------------------------------------------------------------------------
(***************************************************************************)
(* The inductive invariant, in the three parts that the actions disturb    *)
(* separately.  That the kept frame is current and that kept frames belong *)
(* to the client need each other: an SNRM taken in NDM renumbers the link  *)
(* and leaves the kept frames alone, which is harmless only because there  *)
(* are none.                                                               *)
(***************************************************************************)

(* The segment buffer. *)
SegInv ==
    /\ dl_seg_frame_len \in Nat /\ dl_seg_frame_offs \in Nat
    /\ dl_seg_frame_over \in BOOLEAN
    /\ seg_frame \in [1..SegFrameSize -> Unit]
    /\ SegOffsetInBuffer

(* What is sent and kept. *)
SendInv ==
    /\ dl_seq_Sto \in 0..7 /\ dl_seq_Rto \in 0..7
    /\ tx_ext \in OutFrame \cup {NoFrame}
    /\ amr_tx \in OutFrame \cup {NoFrame}
    /\ wire \in OutFrame \cup {NoFrame}
    /\ tx_ext # NoFrame => tx_ext.client = dl_conn_client_addr
    /\ KeptFrameIsCurrent

(* The connection, and what was received last. *)
ConnInv ==
    /\ dl_conn_state \in {"NDM", "NRM"}
    /\ dl_conn_client_addr \in Clients \cup {NoClient}
    /\ dl_seg_prev \in BOOLEAN /\ dl_poll_final \in BOOLEAN
    /\ dl_seq_Sfrom \in 0..7 \cup {255}
    /\ dl_tx_max_info \in 0..MaxInfo
    /\ rx_ext \in InFrame \cup {NoFrame}
    /\ rx_ext # NoFrame => rx_ext.client = dl_conn_client_addr
    /\ dl_conn_state = "NDM" => tx_ext = NoFrame /\ rx_ext = NoFrame
    /\ dl_conn_state = "NRM" => dl_conn_client_addr \in Clients

IInv == SegInv /\ SendInv /\ ConnInv

LEMMA IInvImplies ==
    IInv => TypeOK /\ KeptFrameIsCurrent /\ KeptFramesBelongToClient
                   /\ SegOffsetInBuffer
BY DEF IInv, SegInv, SendInv, ConnInv, TypeOK, KeptFramesBelongToClient

(* What is known of a frame that was parsed to its end. *)
LEMMA FrameParseType ==
    ASSUME NEW f \in InFrame, FrameParse(f)
    PROVE  /\ dl_conn_client_addr' = f.client
           /\ dl_conn_client_addr' \in Clients
           /\ dl_poll_final' \in BOOLEAN
BY InFrameFields DEF FrameParse

(* An RR sent: V(R) is the number it carries. *)
LEMMA SendRRInv ==
    ASSUME IInv, NEW f \in InFrame, FrameParse(f),
           NEW sfrom \in 0..7 \cup {255}, SendRR(f, sfrom)
    PROVE  SendInv'
<1> DEFINE r == Answer(f, "RR", FALSE, 0, Succ(sfrom), <<>>)
<1>1. Succ(sfrom) \in 0..7 /\ dl_seq_Sto \in 0..7
  BY SuccNone DEF IInv, SegInv, SendInv, ConnInv
<1>2. r \in OutFrame
  BY <1>1, InFrameFields, EmptyInfo DEF Answer, OutFrame
<1>3. r.nr = Succ(sfrom) /\ r.type = "RR" /\ r.client = dl_conn_client_addr'
  BY DEF Answer, FrameParse
<1>4. /\ tx_ext' = r /\ Emit(r)
      /\ dl_seq_Rto' = Succ(sfrom) /\ dl_seq_Sto' = dl_seq_Sto
  BY DEF SendRR
<1> HIDE DEF r
<1>5. wire' \in OutFrame \cup {NoFrame} /\ amr_tx' = NoFrame
  BY <1>2, <1>4, FrameParseType, EmitType DEF IInv, SegInv, SendInv, ConnInv
<1> QED
  BY <1>1, <1>2, <1>3, <1>4, <1>5 DEF SendInv, KeptFrameIsCurrent

(* An I frame sent: it carries V(R), and V(S) moves past its number. *)
LEMMA SendInfoInv ==
    ASSUME IInv, NEW f \in InFrame, FrameParse(f),
           NEW sfrom \in 0..7 \cup {255}, NEW seg \in BOOLEAN,
           NEW info \in Seq(Unit), SendInfo(f, sfrom, seg, info)
    PROVE  SendInv'
<1> DEFINE r == Answer(f, "I", seg, dl_seq_Sto, Succ(sfrom), info)
<1>1. dl_seq_Sto \in 0..7
  BY DEF IInv, SegInv, SendInv, ConnInv
<1>2. Succ(sfrom) \in 0..7 /\ Succ(dl_seq_Sto) \in 0..7
      /\ Pred(Succ(dl_seq_Sto)) = dl_seq_Sto
  BY <1>1, SuccNone, SuccPred
<1>3. r \in OutFrame
  BY <1>1, <1>2, InFrameFields DEF Answer, OutFrame
<1>4. r.nr = Succ(sfrom) /\ r.ns = dl_seq_Sto /\ r.client = dl_conn_client_addr'
  BY DEF Answer, FrameParse
<1>5. /\ tx_ext' = r /\ Emit(r)
      /\ dl_seq_Rto' = Succ(sfrom) /\ dl_seq_Sto' = Succ(dl_seq_Sto)
  BY DEF SendInfo
<1> HIDE DEF r
<1>6. wire' \in OutFrame \cup {NoFrame} /\ amr_tx' = NoFrame
  BY <1>3, <1>5, FrameParseType, EmitType DEF IInv, SegInv, SendInv, ConnInv
<1> QED
  BY <1>1, <1>2, <1>3, <1>4, <1>5, <1>6 DEF SendInv, KeptFrameIsCurrent

(* Nothing built: what was kept stays what it was. *)
LEMMA EmitNothingInv ==
    ASSUME IInv, EmitNothing,
           UNCHANGED <<tx_ext, dl_seq_Sto, dl_seq_Rto, dl_conn_client_addr>>
    PROVE  SendInv'
<1>1. wire' \in OutFrame \cup {NoFrame} /\ amr_tx' = NoFrame
  BY EmitNothingType DEF IInv, SegInv, SendInv, ConnInv
<1> QED
  BY <1>1 DEF IInv, SendInv, KeptFrameIsCurrent

-----------------------------------------------------------------------------
(* A write leaves the flag a flag and the buffer a buffer. *)
LEMMA SegFrameWriteType ==
    ASSUME IInv, NEW offs \in Nat, NEW d \in Seq(Data), NEW ok \in BOOLEAN,
           SegFrameWrite(offs, d, ok)
    PROVE  /\ dl_seg_frame_over' \in BOOLEAN
           /\ seg_frame' \in [1..SegFrameSize -> Unit]
<1>1. seg_frame \in [1..SegFrameSize -> Unit] /\ dl_seg_frame_over \in BOOLEAN
  BY DEF IInv, SegInv, SendInv, ConnInv
<1>2. Written(offs, d) \in [1..SegFrameSize -> Unit]
  BY <1>1, WrittenType
<1>3. Fits(offs, d) \in BOOLEAN
  BY DEF Fits
<1> QED
  BY <1>1, <1>2, <1>3 DEF SegFrameWrite

(* An answer handed to the data link: its tail fits global_buff. *)
LEMMA SendApplInv ==
    ASSUME IInv, NEW f \in InFrame, NEW resp \in Replies,
           FrameParse(f),
           NEW offs \in Nat, offs <= BuffSize, SendAppl(f, resp, offs)
    PROVE  SegInv' /\ SendInv'
<1> DEFINE max == dl_tx_max_info
<1> DEFINE tail == SubSeq(resp, max + 1, Len(resp))
<1>1. /\ resp \in Seq(Data) /\ Len(resp) \in Nat /\ Len(resp) <= BuffSize
      /\ BuffSize \in Nat
  BY HdlcAssumption
<1>2. max \in Nat
  BY HdlcAssumption DEF IInv, SegInv, SendInv, ConnInv
<1>3. f.ns \in 0..7 \cup {255}
  BY InFrameFields
<1>4. CASE Len(resp) > max
  <2>1. tail \in Seq(Data) /\ Len(tail) = Len(resp) - max
    BY <1>1, <1>2, <1>4
  <2>2. SubSeq(resp, 1, max) \in Seq(Unit)
    BY <1>1, <1>2, <1>4 DEF Unit
  <2>3. /\ dl_seg_frame_offs' = 0 /\ dl_seg_frame_len' = Len(tail)
        /\ \E ok \in NvOutcomes : SegFrameWrite(0, tail, ok)
        /\ SendInfo(f, f.ns, TRUE, SubSeq(resp, 1, max))
    BY <1>4 DEF SendAppl
  <2>4. SendInv'
    BY <1>3, <2>2, <2>3, SendInfoInv
  <2>5. PICK ok \in NvOutcomes : SegFrameWrite(0, tail, ok)
    BY <2>3
  <2>6. /\ dl_seg_frame_over' \in BOOLEAN
        /\ seg_frame' \in [1..SegFrameSize -> Unit]
    <3>1. ok \in BOOLEAN
      BY HdlcAssumption
    <3> QED
      BY <2>1, <2>5, <3>1, SegFrameWriteType
  <2> QED
    BY <1>1, <1>2, <1>4, <2>1, <2>3, <2>4, <2>6 DEF SegInv, SegOffsetInBuffer
<1>5. CASE ~(Len(resp) > max)
  <2>1. resp \in Seq(Unit)
    BY <1>1 DEF Unit
  <2>2. /\ dl_seg_frame_offs' = offs /\ dl_seg_frame_len' = 0
        /\ UNCHANGED <<dl_seg_frame_over, seg_frame>>
        /\ SendInfo(f, f.ns, FALSE, resp)
    BY <1>5 DEF SendAppl
  <2>3. SendInv'
    BY <1>3, <2>1, <2>2, SendInfoInv
  <2> QED
    BY <1>1, <2>2, <2>3 DEF IInv, SegInv, SegOffsetInBuffer
<1> QED
  BY <1>4, <1>5

(* What the application makes of an APDU. *)
LEMMA ApplMsgDataIndInv ==
    ASSUME IInv, NEW f \in InFrame, NEW apdu, FrameParse(f),
           dl_conn_client_addr' = dl_conn_client_addr,
           NEW offs \in Nat, offs <= BuffSize, ApplMsgDataInd(f, apdu, offs)
    PROVE  SegInv' /\ SendInv'
<1>1. CASE \E resp \in ReplyTo(apdu) : SendAppl(f, resp, offs)
  <2>1. PICK resp \in ReplyTo(apdu) : SendAppl(f, resp, offs)
    BY <1>1
  <2>2. resp \in Replies
    BY DEF ReplyTo
  <2> QED
    BY <2>1, <2>2, SendApplInv
<1>2. CASE /\ dl_seg_frame_offs' = offs
           /\ UNCHANGED <<dl_seg_frame_len, dl_seg_frame_over, seg_frame,
                          tx_ext, dl_seq_Sto, dl_seq_Rto>>
           /\ EmitNothing
  <2>1. SendInv'
    BY <1>2, EmitNothingInv
  <2>2. SegInv'
    BY <1>2 DEF IInv, SegInv, SegOffsetInBuffer
  <2> QED
    BY <2>1, <2>2
<1> QED
  BY <1>1, <1>2 DEF ApplMsgDataInd

(* dl_appl_msg_proc, by the place of the segment in its message. *)
LEMMA ApplMsgProcInv ==
    ASSUME IInv, NEW f \in InFrame, FrameParse(f),
           dl_conn_client_addr' = dl_conn_client_addr, ApplMsgProc(f)
    PROVE  SegInv' /\ SendInv'
<1>0. /\ dl_seg_frame_offs \in Nat /\ dl_seg_frame_offs <= BuffSize
      /\ BuffSize \in Nat /\ SegFrameSize \in Nat /\ SegFrameSize < BuffSize
      /\ f.info \in Seq(Data) /\ Len(f.info) \in Nat
      /\ f.ns \in 0..7 \cup {255}
  BY InFrameFields, HdlcAssumption DEF IInv, SegInv, SegOffsetInBuffer
<1>1. CASE /\ UNCHANGED <<segVars, tx_ext, dl_seq_Sto, dl_seq_Rto>>
           /\ EmitNothing
  <2>1. SendInv'
    BY <1>1, EmitNothingInv
  <2>2. SegInv'
    BY <1>1 DEF IInv, SegInv, SegOffsetInBuffer, segVars
  <2> QED
    BY <2>1, <2>2
<1>2. CASE ApplMsgDataInd(f, f.info, dl_seg_frame_offs)
  BY <1>0, <1>2, ApplMsgDataIndInv
<1>3. ASSUME NEW ok \in NvOutcomes, NEW offs \in {0, dl_seg_frame_offs},
             SegFrameWrite(offs, f.info, ok),
             dl_seg_frame_offs' = IF Fits(offs, f.info) /\ ok
                                  THEN offs + Len(f.info) ELSE offs,
             UNCHANGED dl_seg_frame_len, SendRR(f, f.ns)
      PROVE  SegInv' /\ SendInv'
  <2>1. ok \in BOOLEAN /\ offs \in Nat /\ offs <= BuffSize
    BY <1>0, HdlcAssumption
  <2>2. /\ dl_seg_frame_over' \in BOOLEAN
        /\ seg_frame' \in [1..SegFrameSize -> Unit]
    BY <1>0, <1>3, <2>1, SegFrameWriteType
  <2>3. dl_seg_frame_offs' \in Nat /\ dl_seg_frame_offs' <= BuffSize
    BY <1>0, <1>3, <2>1 DEF Fits
  <2>4. SendInv'
    BY <1>0, <1>3, SendRRInv
  <2> QED
    BY <1>3, <2>2, <2>3, <2>4 DEF IInv, SegInv, SegOffsetInBuffer
<1>4. CASE ApplMsgDataInd(f, Reassembled(f), Len(Reassembled(f)))
  <2>1. Len(Reassembled(f)) \in Nat /\ Len(Reassembled(f)) <= BuffSize
    BY <1>0, ReassembledType DEF IInv, SegInv
  <2> QED
    BY <1>4, <2>1, ApplMsgDataIndInv
<1>5. CASE /\ \E ok \in NvOutcomes :
                 /\ SegFrameWrite(0, f.info, ok)
                 /\ dl_seg_frame_offs' =
                       IF Fits(0, f.info) /\ ok THEN Len(f.info) ELSE 0
           /\ UNCHANGED dl_seg_frame_len
           /\ SendRR(f, f.ns)
  <2>1. PICK ok \in NvOutcomes :
          /\ SegFrameWrite(0, f.info, ok)
          /\ dl_seg_frame_offs' =
                IF Fits(0, f.info) /\ ok THEN Len(f.info) ELSE 0
    BY <1>5
  <2>2. 0 + Len(f.info) = Len(f.info)
    BY <1>0
  <2> QED
    BY <1>3, <1>5, <2>1, <2>2
<1>6. CASE /\ \E ok \in NvOutcomes :
                 /\ SegFrameWrite(dl_seg_frame_offs, f.info, ok)
                 /\ dl_seg_frame_offs' =
                       IF Fits(dl_seg_frame_offs, f.info) /\ ok
                       THEN dl_seg_frame_offs + Len(f.info)
                       ELSE dl_seg_frame_offs
           /\ UNCHANGED dl_seg_frame_len
           /\ SendRR(f, f.ns)
  BY <1>3, <1>6
<1> QED
  BY <1>1, <1>2, <1>4, <1>5, <1>6 DEF ApplMsgProc

-----------------------------------------------------------------------------
(* The actions, one lemma each. *)

(* UA, DM and FRMR: nothing is kept. *)
LEMMA SendUnnumberedInv ==
    ASSUME IInv, NEW f \in InFrame, FrameParse(f),
           NEW type \in {"UA", "DM", "FRMR"}, SendUnnumbered(f, type)
    PROVE  wire' \in OutFrame \cup {NoFrame} /\ amr_tx' = NoFrame
<1> DEFINE r == Answer(f, type, FALSE, 0, 0, <<>>)
<1>1. r \in OutFrame
  BY InFrameFields, EmptyInfo DEF Answer, OutFrame
<1>2. Emit(r)
  BY DEF SendUnnumbered
<1> HIDE DEF r
<1> QED
  BY <1>1, <1>2, FrameParseType, EmitType DEF IInv, SendInv

(* A numbered frame comes from the connected client. *)
LEMMA RcvNumberedType ==
    ASSUME IInv, NEW f \in InFrame, NEW type \in {"I", "RR"},
           RcvNumbered(f, type)
    PROVE  /\ FrameParse(f) /\ UNCHANGED linkVars
           /\ dl_conn_state = "NRM" /\ f.client = dl_conn_client_addr
           /\ dl_conn_client_addr' = dl_conn_client_addr
           /\ dl_seg_prev' \in BOOLEAN /\ dl_poll_final' \in BOOLEAN
           /\ f \in InFrame /\ f.ns \in 0..7 /\ f.nr \in 0..7
BY InFrameFields
   DEF RcvNumbered, FrameParse, Addressed, AnyClient

(* What is left to show of the connection when a numbered frame was taken. *)
LEMMA ConnInvNumbered ==
    ASSUME IInv, NEW f \in InFrame, NEW type \in {"I", "RR"},
           RcvNumbered(f, type), rx_ext' = f \/ UNCHANGED rx_ext,
           dl_seq_Sfrom' \in 0..7 \cup {255}
    PROVE  ConnInv'
<1>1. dl_conn_state' = "NRM" /\ dl_tx_max_info' = dl_tx_max_info
  BY RcvNumberedType DEF linkVars
<1> QED
  BY <1>1, RcvNumberedType DEF IInv, ConnInv

LEMMA SegInvUnchanged ==
    ASSUME IInv, UNCHANGED segVars
    PROVE  SegInv'
BY DEF IInv, SegInv, SegOffsetInBuffer, segVars

(* dl_var_init and a restart clear the length and the overflow flag. *)
LEMMA SegInvCleared ==
    ASSUME IInv, dl_seg_frame_len' = 0, dl_seg_frame_over' = FALSE,
           UNCHANGED seg_frame,
           dl_seg_frame_offs' \in Nat, dl_seg_frame_offs' <= BuffSize
    PROVE  SegInv'
<1>1. 0 \in Nat /\ 0 <= BuffSize
  BY HdlcAssumption
<1>2. SegOffsetInBuffer'
  BY <1>1 DEF SegOffsetInBuffer
<1>3. dl_seg_frame_over' \in BOOLEAN
  OBVIOUS
<1>4. seg_frame' \in [1..SegFrameSize -> Unit]
  BY DEF IInv, SegInv
<1> QED
  BY <1>1, <1>2, <1>3, <1>4 DEF SegInv

LEMMA RcvForeignInv ==
    ASSUME IInv, NEW f \in InFrame, RcvForeign(f)
    PROVE  IInv'
<1> USE DEF RcvForeign
<1>1. SegInv'
  BY SegInvUnchanged
<1>2. SendInv'
  BY EmitNothingInv DEF extVars, seqVars
<1>3. ConnInv'
  BY InFrameFields DEF IInv, ConnInv, linkVars, seqVars, extVars
<1> QED
  BY <1>1, <1>2, <1>3 DEF IInv

LEMMA RcvUnhandledInv ==
    ASSUME IInv, NEW f \in InFrame, RcvUnhandled(f)
    PROVE  IInv'
<1> USE DEF RcvUnhandled
<1>1. SegInv'
  BY SegInvUnchanged
<1>2. /\ dl_conn_client_addr' \in Clients /\ dl_poll_final' \in BOOLEAN
      /\ dl_seg_prev' \in BOOLEAN
  BY FrameParseType, InFrameFields
<1>3. dl_conn_state = "NRM" => dl_conn_client_addr' = dl_conn_client_addr
  BY DEF FrameParse, Addressed, AnyClient
<1>4. wire' \in OutFrame \cup {NoFrame} /\ amr_tx' = NoFrame
  BY SendUnnumberedInv, EmitNothingType DEF IInv, SendInv
<1>5. SendInv'
  BY <1>3, <1>4
     DEF IInv, SendInv, ConnInv, KeptFrameIsCurrent, extVars, seqVars
<1>6. ConnInv'
  BY <1>2, <1>3 DEF IInv, ConnInv, linkVars, seqVars, extVars
<1> QED
  BY <1>1, <1>5, <1>6 DEF IInv

(* Whatever length the client proposes, MaxInfo bounds what is used. *)
LEMMA NegoType ==
    ASSUME NEW f \in InFrame, NegoHdlcParam(f)
    PROVE  dl_tx_max_info' \in 0..MaxInfo
BY InFrameFields, HdlcAssumption DEF NegoHdlcParam, SmallerOf

LEMMA RcvSnrmInv ==
    ASSUME IInv, NEW f \in InFrame, RcvSnrm(f)
    PROVE  IInv'
<1> USE DEF RcvSnrm
<1>1. SegInv'
  BY SegInvCleared DEF IInv, SegInv, SegOffsetInBuffer
<1>2. tx_ext' = NoFrame /\ rx_ext' = NoFrame
  BY DEF IInv, ConnInv, extVars
<1>3. wire' \in OutFrame \cup {NoFrame} /\ amr_tx' = NoFrame
  BY SendUnnumberedInv
<1>4. SendInv'
  BY <1>2, <1>3 DEF SendInv, KeptFrameIsCurrent
<1>5. ConnInv'
  BY <1>2, FrameParseType, NegoType DEF IInv, ConnInv
<1> QED
  BY <1>1, <1>4, <1>5 DEF IInv

LEMMA RcvSnrmRefusedInv ==
    ASSUME IInv, NEW f \in InFrame, RcvSnrmRefused(f)
    PROVE  IInv'
<1> USE DEF RcvSnrmRefused
<1>1. SegInv'
  BY SegInvUnchanged
<1>2. tx_ext' = NoFrame /\ rx_ext' = NoFrame /\ dl_conn_state' = "NDM"
  BY DEF IInv, ConnInv, extVars, Stop
<1>3. wire' \in OutFrame \cup {NoFrame} /\ amr_tx' = NoFrame
  BY SendUnnumberedInv
<1>4. SendInv'
  BY <1>2, <1>3 DEF IInv, SendInv, KeptFrameIsCurrent, seqVars
<1>5. ConnInv'
  BY <1>2, FrameParseType, InFrameFields, NegoType DEF IInv, ConnInv, seqVars
<1> QED
  BY <1>1, <1>4, <1>5 DEF IInv

LEMMA RcvDiscInv ==
    ASSUME IInv, NEW f \in InFrame, RcvDisc(f)
    PROVE  IInv'
<1> USE DEF RcvDisc
<1>1. SegInv'
  BY SegInvUnchanged
<1>2. tx_ext' = NoFrame /\ rx_ext' = NoFrame /\ dl_conn_state' = "NDM"
  BY DEF IInv, ConnInv, extVars, Stop
<1>3. wire' \in OutFrame \cup {NoFrame} /\ amr_tx' = NoFrame
  BY SendUnnumberedInv
<1>4. SendInv'
  BY <1>2, <1>3 DEF IInv, SendInv, KeptFrameIsCurrent, seqVars
<1>5. ConnInv'
  BY <1>2, FrameParseType, InFrameFields DEF IInv, ConnInv, seqVars
<1> QED
  BY <1>1, <1>4, <1>5 DEF IInv

LEMMA RcvInfoInv ==
    ASSUME IInv, NEW f \in InFrame, RcvInfo(f)
    PROVE  IInv'
<1> USE DEF RcvInfo
<1>1. SegInv' /\ SendInv'
  BY RcvNumberedType, ApplMsgProcInv
<1>2. ConnInv'
  BY RcvNumberedType, ConnInvNumbered
<1> QED
  BY <1>1, <1>2 DEF IInv

(* The frame sent again is the one kept, or nothing. *)
LEMMA ReplayInv ==
    ASSUME IInv, NEW f \in InFrame, Replay(f),
           UNCHANGED <<extVars, dl_seq_Sto, dl_seq_Rto, dl_conn_client_addr>>
    PROVE  SendInv'
<1>1. wire' \in OutFrame \cup {NoFrame} /\ amr_tx' = NoFrame
  BY EmitNothingType DEF IInv, SendInv, Replay
<1> QED
  BY <1>1 DEF IInv, SendInv, KeptFrameIsCurrent, extVars

LEMMA RcvInfoRepeatedInv ==
    ASSUME IInv, NEW f \in InFrame, RcvInfoRepeated(f)
    PROVE  IInv'
<1> USE DEF RcvInfoRepeated
<1>1. SegInv'
  BY SegInvUnchanged
<1>2. SendInv'
  BY RcvNumberedType, ReplayInv
<1>3. ConnInv'
  BY RcvNumberedType, ConnInvNumbered DEF extVars
<1> QED
  BY <1>1, <1>2, <1>3 DEF IInv

LEMMA RcvInfoUnexpectedInv ==
    ASSUME IInv, NEW f \in InFrame, RcvInfoUnexpected(f)
    PROVE  IInv'
<1> USE DEF RcvInfoUnexpected
<1>1. SegInv'
  BY SegInvUnchanged
<1>2. Pred(dl_seq_Rto) \in 0..7 \cup {255}
  BY SuccPred DEF IInv, SendInv
<1>3. SendInv'
  BY <1>2, RcvNumberedType, SendRRInv
<1>4. ConnInv'
  BY <1>2, ConnInvNumbered
<1> QED
  BY <1>1, <1>3, <1>4 DEF IInv

(* An FRMR leaves the numbers and the kept frames alone. *)
LEMMA RejectedInv ==
    ASSUME IInv, NEW f \in InFrame, NEW type \in {"I", "RR"},
           RcvNumbered(f, type), SendUnnumbered(f, "FRMR"),
           UNCHANGED <<dl_seq_Sto, dl_seq_Rto, extVars>>
    PROVE  SendInv'
<1>1. wire' \in OutFrame \cup {NoFrame} /\ amr_tx' = NoFrame
  BY RcvNumberedType, SendUnnumberedInv
<1> QED
  BY <1>1, RcvNumberedType DEF IInv, SendInv, KeptFrameIsCurrent, extVars

LEMMA RcvInfoRejectedInv ==
    ASSUME IInv, NEW f \in InFrame, RcvInfoRejected(f)
    PROVE  IInv'
<1> USE DEF RcvInfoRejected
<1>1. SegInv'
  BY SegInvUnchanged
<1>2. SendInv'
  BY RejectedInv
<1>3. ConnInv'
  BY RcvNumberedType, ConnInvNumbered DEF extVars
<1> QED
  BY <1>1, <1>2, <1>3 DEF IInv

LEMMA RcvRRInv ==
    ASSUME IInv, NEW f \in InFrame, RcvRR(f)
    PROVE  IInv'
<1> DEFINE left == dl_seg_frame_len - dl_seg_frame_offs
           len  == SmallerOf(left, dl_tx_max_info)
<1>0. /\ RcvNumbered(f, "RR") /\ FrameParse(f)
      /\ rx_ext' = f /\ dl_conn_client_addr' = dl_conn_client_addr
      /\ UNCHANGED <<dl_seg_frame_len, dl_seg_frame_over, seg_frame>>
  BY RcvNumberedType DEF RcvRR
<1>1. /\ dl_seg_frame_len \in Nat /\ dl_seg_frame_offs \in Nat
      /\ dl_seg_frame_len <= BuffSize /\ BuffSize \in Nat
      /\ dl_tx_max_info \in Nat /\ dl_seq_Sfrom \in 0..7 \cup {255}
      /\ seg_frame \in [1..SegFrameSize -> Unit]
  BY HdlcAssumption DEF IInv, SegInv, ConnInv, SegOffsetInBuffer
<1>2. CASE /\ TailLeft
           /\ SendInfo(f, dl_seq_Sfrom, left > dl_tx_max_info,
                       Stored(dl_seg_frame_offs, len))
           /\ dl_seg_frame_offs' = dl_seg_frame_offs + len
           /\ UNCHANGED dl_seq_Sfrom
  <2>1. len \in Nat /\ len <= left
    BY <1>1, <1>2 DEF SmallerOf, TailLeft
  <2>2. Stored(dl_seg_frame_offs, len) \in Seq(Unit)
    BY <1>1, <2>1, StoredType
  <2>3. SendInv'
    <3> DEFINE seg == left > dl_tx_max_info
    <3>1. seg \in BOOLEAN
      OBVIOUS
    <3>2. SendInfo(f, dl_seq_Sfrom, seg, Stored(dl_seg_frame_offs, len))
      BY <1>2
    <3> HIDE DEF seg
    <3> QED
      BY <1>0, <1>1, <2>2, <3>1, <3>2, SendInfoInv
  <2>4. SegInv'
    BY <1>0, <1>1, <1>2, <2>1 DEF IInv, SegInv, SegOffsetInBuffer
  <2>5. ConnInv'
    BY <1>0, <1>1, <1>2, ConnInvNumbered
  <2> QED
    BY <2>3, <2>4, <2>5 DEF IInv
<1>3. ASSUME NEW sfrom \in {dl_seq_Sfrom, 255}, SendRR(f, sfrom),
             dl_seq_Sfrom' = sfrom, UNCHANGED dl_seg_frame_offs
      PROVE  IInv'
  <2>1. SendInv'
    BY <1>0, <1>1, <1>3, SendRRInv
  <2>2. SegInv'
    BY <1>0, <1>3, SegInvUnchanged DEF segVars
  <2>3. ConnInv'
    BY <1>0, <1>1, <1>3, ConnInvNumbered
  <2> QED
    BY <2>1, <2>2, <2>3 DEF IInv
<1>4. CASE /\ SendRR(f, dl_seq_Sfrom)
           /\ UNCHANGED <<dl_seg_frame_offs, dl_seq_Sfrom>>
  BY <1>3, <1>4
<1>5. CASE /\ dl_seq_Sfrom' = 255 /\ SendRR(f, 255)
           /\ UNCHANGED dl_seg_frame_offs
  BY <1>3, <1>5
<1> QED
  BY <1>2, <1>4, <1>5 DEF RcvRR

LEMMA RcvRRRepeatedInv ==
    ASSUME IInv, NEW f \in InFrame, RcvRRRepeated(f)
    PROVE  IInv'
<1> USE DEF RcvRRRepeated
<1>1. SegInv'
  BY SegInvUnchanged
<1>2. SendInv'
  BY RcvNumberedType, ReplayInv DEF seqVars
<1>3. ConnInv'
  BY ConnInvNumbered DEF IInv, ConnInv, seqVars, extVars
<1> QED
  BY <1>1, <1>2, <1>3 DEF IInv

LEMMA RcvRRRejectedInv ==
    ASSUME IInv, NEW f \in InFrame, RcvRRRejected(f)
    PROVE  IInv'
<1> USE DEF RcvRRRejected
<1>1. SegInv'
  BY SegInvUnchanged
<1>2. SendInv'
  BY RejectedInv DEF seqVars
<1>3. ConnInv'
  BY ConnInvNumbered DEF IInv, ConnInv, seqVars, extVars
<1> QED
  BY <1>1, <1>2, <1>3 DEF IInv

LEMMA AmrProcIdleInv ==
    ASSUME IInv, AmrProcIdle
    PROVE  IInv'
<1> USE DEF AmrProcIdle
<1>1. SegInv'
  BY SegInvUnchanged
<1>2. SendInv'
  BY EmitNothingInv DEF extVars, seqVars, parseVars
<1>3. ConnInv'
  BY DEF IInv, ConnInv, linkVars, seqVars, extVars, parseVars
<1> QED
  BY <1>1, <1>2, <1>3 DEF IInv

(* A push goes to the connected client: NRM has one. *)
LEMMA PushDataNotiInv ==
    ASSUME IInv, NEW p \in Pushes, PushDataNoti(p)
    PROVE  IInv'
<1> USE DEF PushDataNoti
<1>1. SegInv'
  BY SegInvUnchanged
<1>2. p \in Seq(Unit)
  BY HdlcAssumption DEF Unit
<1>3. amr_tx' \in OutFrame /\ wire' = NoFrame
  BY <1>2 DEF OutFrame, IInv, ConnInv
<1>4. SendInv'
  BY <1>3
     DEF IInv, SendInv, KeptFrameIsCurrent, extVars, seqVars, parseVars
<1>5. ConnInv'
  BY DEF IInv, ConnInv, linkVars, seqVars, extVars, parseVars
<1> QED
  BY <1>1, <1>4, <1>5 DEF IInv

(* What StopForce, AmrInit and Restart have in common. *)
LEMMA StopInv ==
    ASSUME IInv, Stop, wire' = NoFrame, amr_tx' \in {amr_tx, NoFrame},
           \/ UNCHANGED <<dl_seq_Sto, dl_seq_Rto, dl_seq_Sfrom>>
           \/ dl_seq_Sto' = 0 /\ dl_seq_Rto' = 0 /\ dl_seq_Sfrom' = 0,
           \/ UNCHANGED <<parseVars, dl_tx_max_info>>
           \/ /\ dl_conn_client_addr' = NoClient
              /\ dl_seg_prev' = FALSE /\ dl_poll_final' = FALSE
              /\ dl_tx_max_info' = 0
    PROVE  SendInv' /\ ConnInv'
<1>1. SendInv'
  BY DEF IInv, SendInv, KeptFrameIsCurrent, Stop
<1>2. dl_tx_max_info' \in 0..MaxInfo
  BY HdlcAssumption DEF IInv, ConnInv
<1>3. dl_seg_prev' \in BOOLEAN /\ dl_poll_final' \in BOOLEAN
  BY DEF IInv, ConnInv, parseVars
<1>4. /\ dl_conn_client_addr' \in Clients \cup {NoClient}
      /\ dl_seq_Sfrom' \in 0..7 \cup {255}
  BY DEF IInv, ConnInv, parseVars
<1>5. ConnInv'
  BY <1>2, <1>3, <1>4 DEF ConnInv, Stop
<1> QED
  BY <1>1, <1>5

LEMMA StopForceInv ==
    ASSUME IInv, StopForce
    PROVE  IInv'
BY StopInv, SegInvUnchanged DEF StopForce, IInv, seqVars

LEMMA AmrInitInv ==
    ASSUME IInv, AmrInit
    PROVE  IInv'
BY StopInv, SegInvUnchanged DEF AmrInit, IInv, seqVars

LEMMA RestartInv ==
    ASSUME IInv, Restart
    PROVE  IInv'
<1>1. SegInv'
  <2>1. 0 \in Nat /\ 0 <= BuffSize
    BY HdlcAssumption
  <2> QED
    BY <2>1, SegInvCleared DEF Restart
<1>2. SendInv' /\ ConnInv'
  BY StopInv DEF Restart
<1> QED
  BY <1>1, <1>2 DEF IInv

-----------------------------------------------------------------------------
(* The three facts that make IInv an invariant. *)
LEMMA InitIInv == Init => IInv
<1> SUFFICES ASSUME Init PROVE IInv
  OBVIOUS
<1> USE DEF Init
<1>1. SegInv
  <2>1. 0 <= BuffSize
    BY HdlcAssumption
  <2>2. seg_frame \in [1..SegFrameSize -> Unit]
    BY DEF Unit
  <2> QED
    BY <2>1, <2>2 DEF SegInv, SegOffsetInBuffer
<1>2. SendInv
  BY DEF SendInv, KeptFrameIsCurrent
<1>3. ConnInv
  <2>1. dl_tx_max_info \in 0..MaxInfo
    BY HdlcAssumption
  <2>2. dl_seg_prev \in BOOLEAN /\ dl_poll_final \in BOOLEAN
    OBVIOUS
  <2>3. /\ dl_conn_state = "NDM" /\ dl_conn_client_addr = NoClient
        /\ dl_seq_Sfrom \in 0..7 \cup {255}
        /\ tx_ext = NoFrame /\ rx_ext = NoFrame
    OBVIOUS
  <2> QED
    BY ONLY <2>1, <2>2, <2>3 DEF ConnInv
<1> QED
  BY <1>1, <1>2, <1>3 DEF IInv

(* Any frame at all, from the client or from another station. *)
LEMMA RcvFrameIInv ==
    ASSUME IInv, NEW f \in InFrame, RcvFrame(f)
    PROVE  IInv'
<1>1. CASE RcvInfo(f)
  BY <1>1, RcvInfoInv
<1>2. CASE RcvForeign(f)
  BY <1>2, RcvForeignInv
<1>3. CASE RcvUnhandled(f)
  BY <1>3, RcvUnhandledInv
<1>4. CASE RcvSnrm(f)
  BY <1>4, RcvSnrmInv
<1>5. CASE RcvSnrmRefused(f)
  BY <1>5, RcvSnrmRefusedInv
<1>6. CASE RcvDisc(f)
  BY <1>6, RcvDiscInv
<1>7. CASE RcvInfoRepeated(f)
  BY <1>7, RcvInfoRepeatedInv
<1>8. CASE RcvInfoUnexpected(f)
  BY <1>8, RcvInfoUnexpectedInv
<1>9. CASE RcvInfoRejected(f)
  BY <1>9, RcvInfoRejectedInv
<1>10. CASE RcvRR(f)
  BY <1>10, RcvRRInv
<1>11. CASE RcvRRRepeated(f)
  BY <1>11, RcvRRRepeatedInv
<1>12. CASE RcvRRRejected(f)
  BY <1>12, RcvRRRejectedInv
<1> QED
  BY <1>1, <1>2, <1>3, <1>4, <1>5, <1>6, <1>7, <1>8, <1>9, <1>10,
     <1>11, <1>12 DEF RcvFrame, RcvSupervisory

LEMMA NextIInv == IInv /\ [Next]_vars => IInv'
<1> SUFFICES ASSUME IInv, [Next]_vars PROVE IInv'
  OBVIOUS
<1>1. ASSUME NEW f \in Frames, RcvFrame(f) PROVE IInv'
  BY <1>1, RcvFrameIInv, HdlcAssumption
<1>2. ASSUME NEW p \in Pushes, PushDataNoti(p) PROVE IInv'
  BY <1>2, PushDataNotiInv
<1>3. CASE AmrProcIdle
  BY <1>3, AmrProcIdleInv
<1>4. CASE StopForce
  BY <1>4, StopForceInv
<1>5. CASE AmrInit
  BY <1>5, AmrInitInv
<1>6. CASE Restart
  BY <1>6, RestartInv
<1>7. CASE UNCHANGED vars
  BY <1>7
     DEF IInv, SegInv, SendInv, ConnInv, SegOffsetInBuffer, KeptFrameIsCurrent,
         vars, linkVars, seqVars, segVars, extVars, parseVars
<1> QED
  BY <1>1, <1>2, <1>3, <1>4, <1>5, <1>6, <1>7 DEF Next

LEMMA SpecIInv == Spec => []IInv
BY InitIInv, NextIInv, PTL DEF Spec

-----------------------------------------------------------------------------
(* Every variable keeps its type: numbers stay in three bits (V(R) after a *)
(* poll too, where the code starts from 0xFF), the negotiated length stays *)
(* below its maximum and every frame on the wire is well formed.           *)
THEOREM TypeCorrect == Spec => []TypeOK
BY SpecIInv, IInvImplies, PTL

(* dl_frame_tx_for_hdlc_dup never sends an outdated frame. *)
THEOREM KeptFrameCurrent == Spec => []KeptFrameIsCurrent
BY SpecIInv, IInvImplies, PTL

(* dl_frame_tx_for_hdlc_dup never sends a client a frame of another one. *)
THEOREM KeptFramesOfClient == Spec => []KeptFramesBelongToClient
BY SpecIInv, IInvImplies, PTL

(* dl_appl_msg_proc and dl_RR_msg_proc never read or write behind the end  *)
(* of global_buff.                                                         *)
THEOREM SegOffsetBounded == Spec => []SegOffsetInBuffer
BY SpecIInv, IInvImplies, PTL

(* A connection that has changed hands is a new one. *)
HandedOver ==
    dl_conn_state' = "NRM" /\ dl_conn_client_addr' # dl_conn_client_addr
    => /\ dl_seq_Sto' = 0 /\ dl_seq_Rto' = 0
       /\ tx_ext' = NoFrame /\ rx_ext' = NoFrame
       /\ dl_seg_frame_len' = 0

LEMMA RcvFrameHandedOver ==
    ASSUME IInv, NEW f \in InFrame, RcvFrame(f)
    PROVE  HandedOver
<1> USE DEF HandedOver
<1>1. CASE RcvSnrm(f)
  BY <1>1 DEF RcvSnrm, IInv, ConnInv, extVars
<1>2. CASE RcvForeign(f)
  BY <1>2 DEF RcvForeign
<1>3. CASE RcvUnhandled(f)
  BY <1>3 DEF RcvUnhandled, FrameParse, Addressed, AnyClient, linkVars
<1>4. CASE RcvSnrmRefused(f) \/ RcvDisc(f)
  BY <1>4 DEF RcvSnrmRefused, RcvDisc, Stop, IInv, ConnInv
<1>5. ASSUME NEW type \in {"I", "RR"}, RcvNumbered(f, type) PROVE HandedOver
  BY <1>5, RcvNumberedType
<1>6. CASE RcvInfo(f) \/ RcvInfoRepeated(f) \/ RcvInfoUnexpected(f)
           \/ RcvInfoRejected(f) \/ RcvRR(f) \/ RcvRRRepeated(f)
           \/ RcvRRRejected(f)
  BY <1>5, <1>6 DEF RcvInfo, RcvInfoRepeated, RcvInfoUnexpected,
     RcvInfoRejected, RcvRR, RcvRRRepeated, RcvRRRejected
<1> QED
  BY <1>1, <1>2, <1>3, <1>4, <1>6 DEF RcvFrame, RcvSupervisory

LEMMA PushHandedOver ==
    ASSUME NEW p, PushDataNoti(p)
    PROVE  HandedOver
BY DEF PushDataNoti, parseVars, HandedOver

LEMMA OtherHandedOver ==
    AmrProcIdle \/ StopForce \/ AmrInit \/ Restart \/ UNCHANGED vars
    => HandedOver
BY DEF AmrProcIdle, StopForce, AmrInit, Restart, Stop, vars, parseVars,
       HandedOver

(* A connection changes hands only by an SNRM that leaves no trace of the  *)
(* previous one.                                                           *)
THEOREM HandOver == Spec => HandOverIsFresh
<1>1. IInv /\ [Next]_vars => [HandedOver]_vars
  BY RcvFrameHandedOver, PushHandedOver, OtherHandedOver, HdlcAssumption
     DEF Next
<1> QED
  BY <1>1, SpecIInv, PTL DEF Spec, HandOverIsFresh, HandedOver
=============================================================================
