----------------------- MODULE HdlcLinkPromise_proofs ------------------------
(***************************************************************************)
(* The proof that HdlcLink implements Exchange.                            *)
(***************************************************************************)
EXTENDS HdlcLink_proofs, SequenceTheorems

USE DEF NoFrame

-----------------------------------------------------------------------------
(***************************************************************************)
(* Then the data: on a bus on which no segmented frame of other stations   *)
(* passes, with an NV memory that works, and for requests and answers that *)
(* fit, the request is executed whole and at most once, and the answer is  *)
(* the one to it.  The invariant follows the data through the segment      *)
(* buffer: what of the request the meter has stored, and what of the       *)
(* answer is left there for the client's next poll.                        *)
(***************************************************************************)
Promising == CleanBus /\ NvWorks /\ DataFits

(* The frame f is the request r, or a part of it, behind a units. *)
CutOf(f, r, a) ==
    LET upto == a + Len(f.info)
    IN  /\ 0 < Len(f.info) /\ upto <= Len(r)
        /\ f.info = SubSeq(r, a + 1, upto)
        /\ f.seg <=> upto < Len(r)
        /\ f.llc <=> a = 0

(* A poll for the rest of the answer. *)
Polling ==
    /\ executed = <<request>>
    /\ Len(collected) < Len(ReplyOf(request))
    /\ collected = SubSeq(ReplyOf(request), 1, Len(collected))

ClientData ==
    /\ collected \in Seq(Unit)
    /\ peer = "on" /\ out.type = "I" =>
          CutOf(out, request, acked) /\ collected = <<>>
    /\ peer = "on" /\ out.type = "RR" => Polling

(* The next part of the answer. *)
GoodReply(f) ==
    LET n == Len(collected) + Len(f.info)
        r == ReplyOf(request)
    IN  /\ executed = <<request>>
        /\ n <= Len(r) /\ (f.seg <=> n < Len(r))
        /\ collected \o f.info = SubSeq(r, 1, n)

DownData ==
    peer = "on" => \A i \in 1..Len(down) :
        Fresh(down[i]) /\ down[i].type = "I" => GoodReply(down[i])

(* The segment buffer holds the first n units of the request. *)
Holds(n) ==
    /\ dl_seg_frame_offs = n
    /\ \A i \in 1..n : seg_frame[i] = request[i]

(* The segment buffer holds the answer R behind its first n units. *)
RestOf(R, n) ==
    /\ dl_seg_frame_len = dl_seg_frame_offs + (Len(R) - n)
    /\ dl_seg_frame_len <= SegFrameSize
    /\ \A i \in 1..(Len(R) - n) : seg_frame[dl_seg_frame_offs + i] = R[n + i]

Rest(n) == RestOf(ReplyOf(request), n)

AwaitingData ==
    /\ out.type = "I" => executed = <<>> /\ (acked > 0 => Holds(acked))
    /\ out.type = "RR" => Rest(Len(collected))

AcceptedData ==
    IF tx_ext.type = "I"
    THEN /\ GoodReply(tx_ext)
         /\ tx_ext.seg => Rest(Len(collected) + Len(tx_ext.info))
    ELSE executed = <<>> /\ Holds(acked + Len(out.info))

MeterData ==
    peer = "on" /\ dl_conn_state = "NRM" =>
        IF Taken THEN AcceptedData ELSE AwaitingData

(* The client has a segment under way besides the one outstanding, and the *)
(* meter is in the middle of a message, only in the middle of a request.   *)
UpSegs ==
    peer = "on" => \A i \in 1..Len(up) :
        up[i].seg /\ up[i] # out => out.type = "I" /\ acked > 0

MeterSeg ==
    peer = "on" /\ dl_conn_state = "NRM" /\ dl_seg_prev =>
        out.type = "I" /\ IF Taken THEN out.seg ELSE acked > 0

NewSeg ==
    peer = "connecting" => \A i \in 1..Len(down) :
        down[i].type = "UA" /\ dl_conn_state = "NRM" => ~dl_seg_prev

SegData == UpSegs /\ MeterSeg /\ NewSeg

Follows == ClientData /\ DownData /\ MeterData /\ SegData

DataInv == LinkInv /\ Follows

-----------------------------------------------------------------------------
(* Promise!Next as one formula. *)
Keeps == request' = request /\ executed' = executed /\ answer' = answer

Mapped == [Promise!Next]_(Promise!exchangeVars)

LEMMA Stutters == Keeps => Mapped
BY DEF Keeps, Mapped, Promise!exchangeVars

-----------------------------------------------------------------------------
(* Pieces of sequences. *)

(* A request is a sequence of units, and so is its answer. *)
LEMMA RequestType ==
    ASSUME NEW r \in Requests
    PROVE  /\ r \in Seq(Unit) /\ r \in Seq(Data)
           /\ r # NoRequest /\ Len(r) \in Nat /\ Len(r) > 0
           /\ ReplyOf(r) \in Replies /\ ReplyTo(r) = {ReplyOf(r)}
           /\ ReplyOf(r) \in Seq(Unit) /\ ReplyOf(r) \in Seq(Data)
           /\ Len(ReplyOf(r)) \in Nat
<1>1. Data \subseteq Unit
  BY DEF Unit
<1>2. r \in Seq(Data) /\ r # <<>> /\ r # NoRequest
  BY HdlcLinkAssumption
<1>3. ReplyOf(r) \in Replies /\ ReplyTo(r) = {ReplyOf(r)}
  BY HdlcLinkAssumption DEF ReplyTo
<1>4. ReplyOf(r) \in Seq(Data)
  BY <1>3, HdlcAssumption
<1>5. \A s \in Seq(Data) :
         s \in Seq(Unit) /\ Len(s) \in Nat /\ (s # <<>> => Len(s) > 0)
  BY <1>1, SeqMonotonic, LenProperties, EmptySeq
<1> QED
  BY <1>2, <1>3, <1>4, <1>5

(* What a segment of a sequence is. *)
LEMMA Slice ==
    ASSUME NEW S, NEW s \in Seq(S), NEW a \in Nat, NEW b \in Nat,
           a <= b, b <= Len(s)
    PROVE  /\ SubSeq(s, a + 1, b) \in Seq(S)
           /\ Len(SubSeq(s, a + 1, b)) = b - a
           /\ \A i \in 1..(b - a) : SubSeq(s, a + 1, b)[i] = s[a + i]
<1>1. Len(s) \in Nat /\ \A i \in 1..Len(s) : s[i] \in S
  BY LenProperties, ElementOfSeq
<1>2. \A i \in (a + 1)..b : s[i] \in S
  BY <1>1
<1>3. /\ SubSeq(s, a + 1, b) \in Seq(S)
      /\ Len(SubSeq(s, a + 1, b)) = IF a + 1 <= b THEN b - (a + 1) + 1 ELSE 0
      /\ \A i \in 1..(b - (a + 1) + 1) :
            SubSeq(s, a + 1, b)[i] = s[(a + 1) + i - 1]
  BY <1>2, SubSeqProperties
<1> QED
  BY <1>3

(* The first units of a sequence. *)
LEMMA Prefix ==
    ASSUME NEW S, NEW s \in Seq(S), NEW b \in Nat, b <= Len(s)
    PROVE  /\ SubSeq(s, 1, b) \in Seq(S) /\ Len(SubSeq(s, 1, b)) = b
           /\ \A i \in 1..b : SubSeq(s, 1, b)[i] = s[i]
<1>1. /\ SubSeq(s, 0 + 1, b) \in Seq(S) /\ Len(SubSeq(s, 0 + 1, b)) = b - 0
      /\ \A i \in 1..(b - 0) : SubSeq(s, 0 + 1, b)[i] = s[0 + i]
  BY Slice
<1> QED
  BY <1>1

(* A prefix continued. *)
LEMMA Prolonged ==
    ASSUME NEW S, NEW s \in Seq(S), NEW t \in Seq(S), NEW a \in Nat,
           a + Len(t) <= Len(s),
           \A i \in 1..Len(t) : t[i] = s[a + i]
    PROVE  SubSeq(s, 1, a) \o t = SubSeq(s, 1, a + Len(t))
<1>1. Len(s) \in Nat /\ Len(t) \in Nat
  BY LenProperties
<1>2. /\ SubSeq(s, 1, a) \in Seq(S) /\ Len(SubSeq(s, 1, a)) = a
      /\ \A i \in 1..a : SubSeq(s, 1, a)[i] = s[i]
  BY <1>1, Prefix
<1> DEFINE p == SubSeq(s, 1, a)
           b == a + Len(t)
           q == SubSeq(s, 1, b)
<1>3. q \in Seq(S) /\ Len(q) = b /\ \A i \in 1..b : q[i] = s[i]
  BY <1>1, Prefix
<1> HIDE DEF p, q
<1>4. p \in Seq(S) /\ Len(p) = a /\ \A i \in 1..a : p[i] = s[i]
  BY <1>2 DEF p
<1>5. /\ p \o t \in Seq(S) /\ Len(p \o t) = b
      /\ \A i \in 1..b : (p \o t)[i] = IF i <= a THEN p[i] ELSE t[i - a]
  BY <1>4, ConcatProperties
<1>6. ASSUME NEW i \in 1..b
      PROVE  (p \o t)[i] = q[i]
  <2>1. CASE i <= a
    BY <1>3, <1>4, <1>5, <2>1
  <2>2. CASE ~(i <= a)
    <3>1. i - a \in 1..Len(t) /\ a + (i - a) = i
      BY <1>1, <2>2
    <3>2. t[i - a] = s[a + (i - a)]
      BY <3>1
    <3> QED
      BY <1>3, <1>5, <2>2, <3>1, <3>2
  <2> QED
    BY <2>1, <2>2
<1>7. p \o t = q
  BY <1>3, <1>5, <1>6, SeqEqual
<1> QED
  BY <1>7 DEF p, q

LEMMA SegmentCuts ==
    ASSUME NEW r \in Requests, NEW a \in Nat, a < Len(r),
           NEW n \in SegmentLengths, NEW vs, NEW vr
    PROVE  CutOf(Segment(r, a, n, vs, vr), r, a)
<1> DEFINE last == SmallerOf(a + n, Len(r))
           g == Segment(r, a, n, vs, vr)
<1>1. r \in Seq(Data) /\ Len(r) \in Nat /\ n \in Nat \ {0}
  BY RequestType, HdlcLinkAssumption
<1>2. last \in Nat /\ a < last /\ last <= Len(r)
  BY <1>1 DEF SmallerOf
<1>3. /\ g.info = SubSeq(r, a + 1, last)
      /\ (g.seg <=> last < Len(r)) /\ (g.llc <=> a = 0)
  BY DEF Segment, BlankFrame
<1> HIDE DEF last, g
<1>4. Len(g.info) = last - a
  BY <1>1, <1>2, <1>3, Slice
<1>5. a + Len(g.info) = last
  BY <1>2, <1>4
<1>6. CutOf(g, r, a)
  BY <1>2, <1>3, <1>4, <1>5 DEF CutOf
<1> QED
  BY <1>6 DEF g

-----------------------------------------------------------------------------
(* Steps of the client. *)
LEMMA ConnectData ==
    ASSUME DataInv, Connect
    PROVE  Follows' /\ Mapped
<1>1. Keeps
  BY DEF Connect, histVars, Keeps
<1>2. peer' = "connecting" /\ down' = <<>> /\ UNCHANGED collected
  BY DEF Connect, Silent
<1>3. Follows'
  BY <1>2
     DEF DataInv, Follows, ClientData, DownData, MeterData, SegData, UpSegs,
         MeterSeg, NewSeg
<1> QED
  BY <1>1, <1>3, Stutters

LEMMA GiveUpData ==
    ASSUME DataInv, GiveUp
    PROVE  Follows' /\ Mapped
<1>1. /\ peer' = "off" /\ collected' = <<>> /\ request' = NoRequest
      /\ UNCHANGED <<executed, answer>>
  BY DEF GiveUp, histVars
<1>2. Follows'
  BY <1>1
     DEF Follows, ClientData, DownData, MeterData, SegData, UpSegs, MeterSeg,
         NewSeg
<1>3. Promise!Abandon \/ Keeps
  BY <1>1 DEF Promise!Abandon, Keeps
<1> QED
  BY <1>2, <1>3, Stutters DEF Mapped, Promise!Next

LEMMA IssueData ==
    ASSUME DataInv, NEW r \in Requests, Issue(r)
    PROVE  Follows' /\ Mapped
<1>1. PICK n \in SegmentLengths : Send(Segment(r, 0, n, c_vs, c_vr))
  BY DEF Issue
<1> DEFINE s == Segment(r, 0, n, c_vs, c_vr)
<1> HIDE DEF s
<1>2. s \in InFrame /\ s.type = "I" /\ s.ns = c_vs
  <2>1. c_vs \in 0..7 /\ c_vr \in 0..7 /\ 0 \in Nat
    BY DEF DataInv, LinkInv, ClientTypes
  <2>2. s \in InFrame /\ InfoPolls(s, c_vs, c_vr)
    BY <2>1, SegmentType DEF s
  <2> QED
    BY <2>2 DEF InfoPolls
<1>3. CutOf(s, r, 0)
  BY RequestType, SegmentCuts DEF s
<1>4. /\ peer = "on" /\ request = NoRequest /\ request' = r
      /\ out' = s /\ up' = Append(up, s) /\ acked' = 0 /\ collected' = <<>>
      /\ executed' = <<>>
      /\ UNCHANGED <<peer, c_vs, c_vr, down, vars, answer>>
  BY <1>1 DEF Issue, Send, s
<1>5. \A i \in 1..Len(down') : ~Fresh(down[i])'
  BY <1>2, <1>4, IssueDown DEF DataInv
<1>6. ClientData' /\ DownData'
  BY <1>2, <1>3, <1>4, <1>5 DEF ClientData, DownData
<1>7. out = NoFrame /\ \A i \in 1..Len(up) : Old(up[i])
  BY <1>4, NothingOutstanding DEF DataInv
<1>8. MeterData'
  <2>1. dl_conn_state = "NRM" => ~Taken'
    <3>1. dl_conn_state = "NRM" => dl_seq_Rto = c_vs
      BY <1>4, <1>7 DEF DataInv, LinkInv, InStep, Taken, Awaiting
    <3> QED
      BY <1>2, <1>4, <3>1, Numbers
         DEF Taken, DataInv, LinkInv, ClientTypes, vars, seqVars
  <2> QED
    BY <1>2, <1>4, <2>1 DEF MeterData, AwaitingData, vars, linkVars
<1>9. SegData'
  <2>1. \A i \in 1..Len(up) : ~up[i].seg
    BY <1>4, <1>7 DEF DataInv, Follows, SegData, UpSegs, MeterSeg, NewSeg, Old
  <2>2. dl_conn_state = "NRM" => ~dl_seg_prev
    BY <1>4, <1>7 DEF DataInv, Follows, SegData, UpSegs, MeterSeg, NewSeg
  <2>3. /\ Len(up) \in Nat /\ Len(up') = Len(up) + 1
        /\ up'[Len(up) + 1] = s /\ \A i \in 1..Len(up) : up'[i] = up[i]
    BY <1>2, <1>4, AppendOf DEF DataInv, LinkInv, ClientTypes
  <2>4. \A i \in 1..Len(up') : up'[i].seg => up'[i] = s
    BY <2>1, <2>3
  <2> QED
    BY <1>4, <2>2, <2>4
       DEF SegData, UpSegs, MeterSeg, NewSeg, vars, linkVars, parseVars
<1>10. Promise!Issue
  BY <1>4 DEF Promise!Issue
<1> QED
  BY <1>6, <1>8, <1>9, <1>10 DEF Follows, Mapped, Promise!Next

LEMMA RetransmitData ==
    ASSUME DataInv, Retransmit
    PROVE  Follows' /\ Mapped
<1>1. /\ out # NoFrame /\ up' = Append(up, out)
      /\ UNCHANGED <<peer, c_vs, c_vr, request, acked, out, collected, down,
                     vars, executed>>
      /\ Keeps
  BY DEF Retransmit, Send, histVars, Keeps
<1>2. /\ Len(up) \in Nat /\ Len(up') = Len(up) + 1
      /\ up'[Len(up) + 1] = out /\ \A i \in 1..Len(up) : up'[i] = up[i]
  BY <1>1, AppendOf DEF DataInv, LinkInv, ClientTypes
<1>3. ClientData' /\ DownData'
  BY <1>1 DEF DataInv, Follows, ClientData, Polling, DownData, Fresh, GoodReply
<1>4. MeterData'
  BY <1>1
     DEF DataInv, Follows, MeterData, Taken, AcceptedData, AwaitingData,
         GoodReply, Holds, Rest, RestOf, vars, linkVars, seqVars, segVars,
         extVars
<1>5. SegData'
  BY <1>1, <1>2
     DEF DataInv, Follows, SegData, UpSegs, MeterSeg, NewSeg, Taken, vars,
         linkVars, seqVars, parseVars
<1> QED
  BY <1>1, <1>3, <1>4, <1>5, Stutters DEF Follows

(* A frame lost, and a frame the client ignores. *)
LEMMA DropData ==
    ASSUME DataInv, UNCHANGED <<vars, clientVars, executed>>,
           \/ up # <<>> /\ up' = Tail(up) /\ UNCHANGED down
           \/ down # <<>> /\ down' = Tail(down) /\ UNCHANGED up
    PROVE  Follows' /\ Mapped
<1>1. /\ UNCHANGED <<peer, c_vs, c_vr, request, acked, out, collected,
                     vars, executed>>
      /\ Keeps
  BY DEF clientVars, Keeps
<1>2. /\ \A i \in 1..Len(up') : \E j \in 1..Len(up) : up'[i] = up[j]
      /\ \A i \in 1..Len(down') : \E j \in 1..Len(down) : down'[i] = down[j]
  <2>1. up \in Seq(InFrame) /\ down \in Seq(OutFrame)
    BY DEF DataInv, LinkInv, ClientTypes
  <2>2. CASE up # <<>> /\ up' = Tail(up) /\ UNCHANGED down
    <3>1. \A i \in 1..Len(up') : i + 1 \in 1..Len(up) /\ up'[i] = up[i + 1]
      BY <2>1, <2>2, TailOf
    <3> QED
      BY <2>2, <3>1
  <2>3. CASE down # <<>> /\ down' = Tail(down) /\ UNCHANGED up
    <3>1. \A i \in 1..Len(down') :
             i + 1 \in 1..Len(down) /\ down'[i] = down[i + 1]
      BY <2>1, <2>3, TailOf
    <3> QED
      BY <2>3, <3>1
  <2> QED
    BY <2>2, <2>3
<1>3. ClientData' /\ DownData'
  BY <1>1, <1>2
     DEF DataInv, Follows, ClientData, Polling, DownData, Fresh, GoodReply
<1>4. MeterData'
  BY <1>1
     DEF DataInv, Follows, MeterData, Taken, AcceptedData, AwaitingData,
         GoodReply, Holds, Rest, RestOf, vars, linkVars, seqVars, segVars,
         extVars
<1>5. UpSegs'
  BY <1>1, <1>2 DEF DataInv, Follows, SegData, UpSegs
<1>6. MeterSeg'
  BY <1>1
     DEF DataInv, Follows, SegData, MeterSeg, Taken, vars, linkVars, seqVars,
         parseVars
<1>7. NewSeg'
  BY <1>1, <1>2
     DEF DataInv, Follows, SegData, NewSeg, vars, linkVars, parseVars
<1> QED
  BY <1>1, <1>3, <1>4, <1>5, <1>6, <1>7, Stutters DEF Follows, SegData

LEMMA ConnectedData ==
    ASSUME DataInv, down # <<>>, down' = Tail(down), Connected(Head(down)),
           UNCHANGED <<vars, histVars>>
    PROVE  Follows' /\ Mapped
<1>1. 1 \in 1..Len(down) /\ Head(down) = down[1]
  BY TailOf DEF DataInv, LinkInv, ClientTypes
<1>2. /\ peer = "connecting" /\ down[1].type = "UA"
      /\ peer' = "on" /\ out' = NoFrame /\ up' = up
      /\ UNCHANGED <<request, collected, answer>>
  BY <1>1 DEF Connected
<1>3. up = <<>>
  BY <1>1, <1>2 DEF DataInv, LinkInv, ConnectInv
<1>4. dl_conn_state = "NRM" => ~dl_seg_prev
  BY <1>1, <1>2 DEF DataInv, Follows, SegData, NewSeg
<1>5. ClientData' /\ DownData'
  BY <1>2 DEF DataInv, Follows, ClientData, DownData, Fresh
<1>6. MeterData'
  BY <1>2 DEF MeterData, Taken, AwaitingData
<1>7. SegData'
  BY <1>2, <1>3, <1>4
     DEF SegData, UpSegs, MeterSeg, NewSeg, vars, linkVars, parseVars
<1>8. Keeps
  BY <1>2 DEF Keeps, histVars
<1> QED
  BY <1>5, <1>6, <1>7, <1>8, Stutters DEF Follows

LEMMA SegmentAcknowledgedData ==
    ASSUME DataInv, down # <<>>, down' = Tail(down),
           SegmentAcknowledged(Head(down)), UNCHANGED <<vars, histVars>>
    PROVE  Follows' /\ Mapped
<1>1. /\ peer = "on" /\ out.type = "I" /\ out.seg
      /\ Fresh(down[1]) /\ down[1].type = "RR"
      /\ request \in Requests /\ acked + Len(out.info) \in Nat
      /\ acked' = acked + Len(out.info)
      /\ UNCHANGED <<request, collected, answer>>
  BY SegmentAcknowledgedGoesOn DEF DataInv
<1> DEFINE a == acked + Len(out.info)
<1>2. PICK n \in SegmentLengths :
         GoesOn(down[1], Segment(request, a, n, Succ(c_vs), c_vr))
  BY SegmentAcknowledgedGoesOn DEF DataInv
<1> DEFINE g == Segment(request, a, n, Succ(c_vs), c_vr)
<1>3. CutOf(out, request, acked) /\ collected = <<>>
  BY <1>1 DEF DataInv, Follows, ClientData
<1> HIDE DEF a, g
<1>4. a \in Nat /\ 0 < a /\ a < Len(request)
  BY <1>1, <1>3 DEF a, CutOf, DataInv, LinkInv, ClientTypes
<1>5. CutOf(g, request, a)
  BY <1>1, <1>4, SegmentCuts DEF g
<1>6. g.type = "I"
  BY DEF g, Segment, BlankFrame
<1>7. GoesOn(down[1], g)
  BY <1>2 DEF g
<1>8. /\ peer' = "on" /\ out' = g /\ acked' = a /\ g # NoFrame
      /\ Len(up) \in Nat /\ Len(up') = Len(up) + 1 /\ up'[Len(up) + 1] = g
      /\ \A i \in 1..Len(down') : ~Fresh(down[i])'
      /\ dl_conn_state = "NRM" =>
            Accepted /\ tx_ext = down[1] /\ Taken /\ ~Taken'
  BY <1>1, <1>6, <1>7, GoesOnFacts DEF a, DataInv
<1>9. ClientData'
  BY <1>1, <1>3, <1>5, <1>6, <1>8 DEF DataInv, Follows, ClientData
<1>10. DownData'
  BY <1>8 DEF DownData
<1>11. MeterData'
  <2>1. dl_conn_state = "NRM" => executed = <<>> /\ Holds(a)
    BY <1>1, <1>8 DEF DataInv, Follows, MeterData, AcceptedData, a
  <2>2. dl_conn_state = "NRM" => AwaitingData'
    BY <1>1, <1>6, <1>8, <2>1
       DEF AwaitingData, Holds, vars, segVars, histVars
  <2> QED
    BY <1>8, <2>2 DEF MeterData, vars, linkVars
<1>12. SegData'
  BY <1>4, <1>6, <1>8
     DEF SegData, UpSegs, MeterSeg, NewSeg, vars, linkVars
<1>13. Keeps
  BY <1>1 DEF Keeps, histVars
<1> QED
  BY <1>9, <1>10, <1>11, <1>12, <1>13, Stutters DEF Follows

LEMMA AnsweredData ==
    ASSUME DataInv, down # <<>>, down' = Tail(down),
           Answered(Head(down)), UNCHANGED <<vars, histVars>>
    PROVE  Follows' /\ Mapped
<1> DEFINE f == down[1]
           n == Len(collected) + Len(f.info)
           r == ReplyOf(request)
<1>1. 1 \in 1..Len(down) /\ f \in OutFrame
  BY TailOf DEF DataInv, LinkInv, ClientTypes
<1>2. /\ peer = "on" /\ Fresh(f) /\ f.type = "I"
      /\ \/ /\ f.seg /\ GoesOn(f, Poll(Succ(c_vr)))
            /\ collected' = collected \o f.info
            /\ UNCHANGED <<request, answer>>
         \/ /\ ~f.seg /\ GoesOn(f, NoFrame)
            /\ answer' = collected \o f.info /\ collected' = <<>>
            /\ request' = NoRequest
  BY AnsweredGoesOn DEF DataInv
<1>3. GoodReply(f)
  BY <1>1, <1>2 DEF DataInv, Follows, DownData
<1>4. /\ executed = <<request>> /\ n <= Len(r) /\ (f.seg <=> n < Len(r))
      /\ collected \o f.info = SubSeq(r, 1, n)
  BY <1>3 DEF GoodReply
<1>5. /\ collected \in Seq(Unit) /\ f.info \in Seq(Unit)
      /\ collected \o f.info \in Seq(Unit) /\ n \in Nat
      /\ Len(collected \o f.info) = n
  BY <1>1, ConcatProperties, LenProperties
     DEF DataInv, Follows, ClientData, OutFrame
<1>6. /\ request # NoRequest /\ request \in Requests
      /\ \A j \in 1..Len(up) : up[j] = out
  BY <1>1, <1>2, FreshReceived DEF DataInv
<1>7. r \in Seq(Unit) /\ Len(r) \in Nat
  BY <1>6, RequestType
<1>8. ~out.seg
  BY <1>2, <1>6 DEF Fresh, DataInv, LinkInv, OutInv
<1> HIDE DEF f, n, r
<1>9. ASSUME NEW g, GoesOn(f, g),
             g = NoFrame \/ (g.type = "RR" /\ ~g.seg)
      PROVE  DownData' /\ SegData' /\ peer' = "on" /\ out' = g
             /\ (dl_conn_state = "NRM" =>
                    Accepted /\ tx_ext = f /\ Taken /\ ~Taken')
  <2>1. /\ peer' = "on" /\ out' = g
        /\ \/ g = NoFrame /\ up' = up
           \/ /\ Len(up) \in Nat /\ Len(up') = Len(up) + 1
              /\ up'[Len(up) + 1] = g /\ \A i \in 1..Len(up) : up'[i] = up[i]
        /\ \A i \in 1..Len(down') : ~Fresh(down[i])'
        /\ dl_conn_state = "NRM" =>
              Accepted /\ tx_ext = f /\ Taken /\ ~Taken'
    BY <1>2, <1>9, GoesOnFacts DEF DataInv, f
  <2>2. DownData'
    BY <2>1 DEF DownData
  <2>3. UpSegs'
    BY <1>6, <1>8, <1>9, <2>1 DEF UpSegs
  <2>4. dl_conn_state = "NRM" => ~dl_seg_prev
    BY <1>2, <1>8, <2>1 DEF DataInv, Follows, SegData, MeterSeg
  <2>5. MeterSeg' /\ NewSeg'
    BY <2>1, <2>4 DEF MeterSeg, NewSeg, vars, linkVars, parseVars
  <2> QED
    BY <2>1, <2>2, <2>3, <2>5 DEF SegData
<1>10. CASE /\ f.seg /\ GoesOn(f, Poll(Succ(c_vr)))
            /\ collected' = collected \o f.info
            /\ UNCHANGED <<request, answer>>
  <2> DEFINE g == Poll(Succ(c_vr))
  <2>1. g.type = "RR" /\ ~g.seg
    BY DEF Poll, BlankFrame
  <2> HIDE DEF g
  <2>2. /\ DownData' /\ SegData' /\ peer' = "on" /\ out' = g
        /\ (dl_conn_state = "NRM" =>
               Accepted /\ tx_ext = f /\ Taken /\ ~Taken')
    BY <1>9, <1>10, <2>1 DEF g
  <2>3. /\ executed' = <<request>> /\ Len(collected') = n /\ n < Len(r)
        /\ collected' = SubSeq(r, 1, n) /\ r = ReplyOf(request')
        /\ collected' \in Seq(Unit)
    BY <1>4, <1>5, <1>10 DEF histVars, r
  <2>4. ClientData'
    BY <1>10, <2>1, <2>2, <2>3 DEF ClientData, Polling
  <2>5. MeterData'
    <3>1. dl_conn_state = "NRM" => Rest(n)
      BY <1>2, <1>10, <2>2
         DEF DataInv, Follows, MeterData, AcceptedData, n
    <3>2. dl_conn_state = "NRM" => AwaitingData'
      BY <1>10, <2>1, <2>2, <2>3, <3>1
         DEF AwaitingData, Rest, RestOf, vars, segVars
    <3> QED
      BY <2>2, <3>2 DEF MeterData, vars, linkVars
  <2>6. Keeps
    BY <1>10 DEF Keeps, histVars
  <2> QED
    BY <2>2, <2>4, <2>5, <2>6, Stutters DEF Follows
<1>11. CASE /\ ~f.seg /\ GoesOn(f, NoFrame)
            /\ answer' = collected \o f.info /\ collected' = <<>>
            /\ request' = NoRequest
  <2> DEFINE g == NoFrame
  <2>0. g = NoFrame /\ GoesOn(f, g)
    BY <1>11
  <2> HIDE DEF g
  <2>1. /\ DownData' /\ SegData' /\ peer' = "on" /\ out' = NoFrame
    BY <1>9, <2>0
  <2>2. ClientData' /\ MeterData'
    BY <1>11, <2>1 DEF ClientData, MeterData, Taken, AwaitingData
  <2>3. answer' = r
    <3>1. n = Len(r)
      BY <1>4, <1>5, <1>7, <1>11
    <3>2. SubSeq(r, 1, Len(r)) = r
      BY <1>7, SubSeqFull
    <3> QED
      BY <1>4, <1>11, <3>1, <3>2
  <2>4. Promise!Complete
    BY <1>4, <1>6, <1>11, <2>3 DEF Promise!Complete, r, histVars
  <2> QED
    BY <2>1, <2>2, <2>4 DEF Follows, Mapped, Promise!Next
<1> QED
  BY <1>2, <1>10, <1>11

LEMMA ClientRcvData ==
    ASSUME DataInv, ClientRcv
    PROVE  Follows' /\ Mapped
<1>1. down # <<>> /\ down' = Tail(down) /\ UNCHANGED <<vars, histVars>>
  BY DEF ClientRcv
<1>2. CASE Connected(Head(down))
  BY <1>1, <1>2, ConnectedData
<1>3. CASE SegmentAcknowledged(Head(down))
  BY <1>1, <1>3, SegmentAcknowledgedData
<1>4. CASE Answered(Head(down))
  BY <1>1, <1>4, AnsweredData
<1>5. CASE UNCHANGED <<clientVars, up>>
  BY <1>1, <1>5, DropData DEF histVars
<1> QED
  BY <1>2, <1>3, <1>4, <1>5 DEF ClientRcv

-----------------------------------------------------------------------------
(* Steps of the meter. *)

(* What the client finds on the medium after the meter spoke. *)
LEMMA UnderWay ==
    ASSUME LinkInv, NEW w \in OutFrame \cup {NoFrame}, wire' = w, Transmitted
    PROVE  \A i \in 1..Len(down') :
              \/ \E j \in 1..Len(down) : down'[i] = down[j]
              \/ w # NoFrame /\ down'[i] = w
<1>1. down \in Seq(OutFrame)
  BY DEF LinkInv, ClientTypes
<1>2. CASE down' = down
  BY <1>2
<1>3. CASE w # NoFrame /\ down' = Append(down, w)
  <2>1. /\ Len(down') = Len(down) + 1 /\ Len(down) \in Nat
        /\ down'[Len(down) + 1] = w
        /\ \A i \in 1..Len(down) : down'[i] = down[i]
    BY <1>1, <1>3, AppendOf
  <2> QED
    BY <1>3, <2>1
<1> QED
  BY <1>2, <1>3 DEF Transmitted

(* The meter sends what was waiting, and does no more. *)
LEMMA QuietData ==
    ASSUME DataInv, UNCHANGED <<clientVars, up, executed>>,
           UNCHANGED <<linkVars, seqVars, segVars, extVars>>,
           dl_seg_prev' => dl_seg_prev,
           (EmitNothing /\ Transmitted) \/ UNCHANGED down
    PROVE  Follows' /\ Mapped
<1>1. /\ UNCHANGED <<peer, c_vs, c_vr, request, acked, out, collected,
                     executed, up>>
      /\ Keeps
  BY DEF clientVars, Keeps
<1>2. \A i \in 1..Len(down') :
         \/ \E j \in 1..Len(down) : down'[i] = down[j]
         \/ down'[i].type = "UI"
  <2>1. CASE EmitNothing /\ Transmitted
    BY <2>1, PushOut, UnderWay DEF DataInv, EmitNothing
  <2>2. CASE UNCHANGED down
    BY <2>2
  <2> QED
    BY <2>1, <2>2
<1>3. ClientData' /\ DownData'
  BY <1>1, <1>2
     DEF DataInv, Follows, ClientData, Polling, DownData, Fresh, GoodReply
<1>4. MeterData'
  BY <1>1
     DEF DataInv, Follows, MeterData, Taken, AcceptedData, AwaitingData,
         GoodReply, Holds, Rest, RestOf, linkVars, seqVars, segVars, extVars
<1>5. UpSegs'
  BY <1>1 DEF DataInv, Follows, SegData, UpSegs
<1>6. MeterSeg'
  BY <1>1 DEF DataInv, Follows, SegData, MeterSeg, Taken, linkVars, seqVars
<1>7. NewSeg'
  BY <1>1, <1>2 DEF DataInv, Follows, SegData, NewSeg, linkVars
<1> QED
  BY <1>1, <1>3, <1>4, <1>5, <1>6, <1>7, Stutters DEF Follows, SegData

LEMMA MeterIdleData ==
    ASSUME DataInv, MeterIdle
    PROVE  Follows' /\ Mapped
BY QuietData DEF MeterIdle, AmrProcIdle, parseVars, histVars

LEMMA MeterHearsData ==
    ASSUME DataInv, Promising, NEW f \in Noise, MeterHears(f)
    PROVE  Follows' /\ Mapped
<1>1. RcvForeign(f)
  BY HearsForeign
<1>2. ~f.seg
  BY DEF Promising, CleanBus
<1> QED
  BY <1>1, <1>2, QuietData DEF MeterHears, RcvForeign

LEMMA MeterPushesData ==
    ASSUME DataInv, NEW p \in Pushes, MeterPushes(p)
    PROVE  Follows' /\ Mapped
BY QuietData DEF MeterPushes, PushDataNoti, parseVars, mediumVars

LEMMA MeterStopsData ==
    ASSUME DataInv, MeterStops
    PROVE  Follows' /\ Mapped
<1>1. /\ dl_conn_state' = "NDM"
      /\ UNCHANGED <<clientVars, mediumVars, executed>>
  BY DEF MeterStops, StopForce, AmrInit, Restart, Stop
<1>2. ClientData' /\ DownData'
  BY <1>1
     DEF DataInv, Follows, ClientData, Polling, DownData, Fresh, GoodReply,
         clientVars, mediumVars
<1>3. MeterData' /\ MeterSeg' /\ NewSeg'
  BY <1>1 DEF MeterData, MeterSeg, NewSeg
<1>4. UpSegs'
  BY <1>1 DEF DataInv, Follows, SegData, UpSegs, clientVars, mediumVars
<1>5. Keeps
  BY <1>1 DEF Keeps, clientVars
<1> QED
  BY <1>2, <1>3, <1>4, <1>5, Stutters DEF Follows, SegData

(* A frame leaves the medium towards the meter. *)
LEMMA UpSegsTail ==
    ASSUME DataInv, UNCHANGED clientVars, up # <<>>, up' = Tail(up)
    PROVE  UpSegs'
<1>1. up \in Seq(InFrame)
  BY DEF DataInv, LinkInv, ClientTypes
<1>2. \A i \in 1..Len(up') : i + 1 \in 1..Len(up) /\ up'[i] = up[i + 1]
  BY <1>1, TailOf
<1> QED
  BY <1>2 DEF DataInv, Follows, SegData, UpSegs, clientVars

LEMMA RcvConnectingData ==
    ASSUME DataInv, MeterRcv, peer = "connecting"
    PROVE  Follows' /\ Mapped
<1>1. up[1] = BlankFrame /\ up' = <<>> /\ RcvSnrm(up[1])
  BY HeardConnecting DEF DataInv
<1>2. /\ UNCHANGED <<clientVars, executed>>
  <2>1. Head(up) = up[1]
    BY HeadOfUp DEF DataInv
  <2>2. ~RcvInfo(up[1])
    BY <1>1 DEF RcvInfo, RcvNumbered, BlankFrame
  <2> QED
    BY <2>1, <2>2 DEF MeterRcv
<1>3. ~dl_seg_prev' /\ peer' = "connecting" /\ UNCHANGED collected
  BY <1>1, <1>2 DEF RcvSnrm, clientVars
<1>4. Follows'
  BY <1>3
     DEF DataInv, Follows, ClientData, DownData, MeterData, SegData, UpSegs,
         MeterSeg, NewSeg
<1>5. Keeps
  BY <1>2 DEF Keeps, clientVars
<1> QED
  BY <1>4, <1>5, Stutters

LEMMA RcvDroppedData ==
    ASSUME DataInv, MeterRcv, peer = "on", dl_conn_state = "NDM"
    PROVE  Follows' /\ Mapped
<1>1. /\ RcvUnhandled(up[1]) /\ wire' = amr_tx /\ dl_conn_state' = "NDM"
  BY HeardDropped DEF DataInv
<1>2. /\ UNCHANGED <<clientVars, executed>> /\ up # <<>> /\ up' = Tail(up)
      /\ Transmitted
  <2>1. Head(up) = up[1]
    BY HeadOfUp DEF DataInv
  <2>2. ~RcvInfo(up[1])
    BY DEF RcvInfo, RcvNumbered
  <2> QED
    BY <2>1, <2>2 DEF MeterRcv
<1>3. \A i \in 1..Len(down') :
         \/ \E j \in 1..Len(down) : down'[i] = down[j]
         \/ down'[i].type = "UI"
  BY <1>1, <1>2, PushOut, UnderWay DEF DataInv
<1>4. /\ UNCHANGED <<peer, c_vs, c_vr, request, acked, out, collected,
                     executed>>
      /\ Keeps
  BY <1>2 DEF clientVars, Keeps
<1>5. ClientData' /\ DownData'
  BY <1>3, <1>4
     DEF DataInv, Follows, ClientData, Polling, DownData, Fresh, GoodReply
<1>6. MeterData' /\ MeterSeg' /\ NewSeg'
  BY <1>1 DEF MeterData, MeterSeg, NewSeg
<1>7. UpSegs'
  BY <1>2, UpSegsTail
<1> QED
  BY <1>4, <1>5, <1>6, <1>7, Stutters DEF Follows, SegData

(* The frames of a client in step: repeated, or the one the meter waits for. *)
LEMMA HeardInStep ==
    ASSUME LinkInv, MeterRcv, peer = "on", dl_conn_state = "NRM",
           NEW f, f = up[1]
    PROVE  /\ f \in InFrame /\ f.poll
           /\ \/ /\ \/ RcvInfoRepeated(f) /\ f.ns = Pred(dl_seq_Rto)
                    \/ RcvRRRepeated(f)
                 /\ UNCHANGED executed
              \/ /\ f = out /\ ~Taken /\ Awaiting
                 /\ \/ RcvInfo(f) /\ executed' = executed \o Given(f)
                    \/ RcvRR(f) /\ UNCHANGED executed
<1>1. /\ f \in InFrame /\ RcvFrame(f) /\ 1 \in 1..Len(up) /\ Head(up) = f
      /\ IInv
  BY HeadOfUp
<1>2. f.type \in Numbered /\ Polls(f) /\ f.poll
  BY <1>1 DEF LinkInv, UpInv, Polls
<1>3. Addressed(f)
  BY <1>1, <1>2, NotForeign DEF LinkInv, InStep
<1>4. \/ RcvInfo(f) /\ executed' = executed \o Given(f)
      \/ /\ \/ RcvInfoRepeated(f) \/ RcvInfoUnexpected(f) \/ RcvInfoRejected(f)
            \/ RcvRR(f) \/ RcvRRRepeated(f) \/ RcvRRRejected(f)
         /\ UNCHANGED executed
  BY <1>1, <1>2, <1>3
     DEF MeterRcv, RcvSupervisory, RcvForeign, RcvUnhandled, RcvSnrm,
         RcvSnrmRefused, RcvDisc, Numbered
<1>5. \/ f.type = "I" /\ f.ns = Pred(dl_seq_Rto)
      \/ f.type = "RR" /\ f.nr = Pred(dl_seq_Sto)
      \/ /\ f = out /\ ~Taken /\ Awaiting
         /\ f.type = "I" /\ f.ns = dl_seq_Rto /\ f.nr = dl_seq_Sto
      \/ /\ f = out /\ ~Taken /\ Awaiting
         /\ f.type = "RR" /\ f.nr = dl_seq_Sto
  BY <1>1, NumbersOfFrame
<1>6. /\ Pred(dl_seq_Rto) # dl_seq_Rto /\ Pred(dl_seq_Sto) # dl_seq_Sto
  BY <1>1, Numbers DEF IInv, SendInv
<1> QED
  BY <1>1, <1>2, <1>4, <1>5, <1>6
     DEF RcvInfo, RcvInfoRepeated, RcvInfoUnexpected, RcvInfoRejected,
         RcvRR, RcvRRRepeated, RcvRRRejected, RcvNumbered

(* A repeated frame is answered by what was sent before. *)
LEMMA RcvRepeatedData ==
    ASSUME DataInv, MeterRcv, peer = "on", dl_conn_state = "NRM",
           NEW f, f = up[1],
           \/ RcvInfoRepeated(f) /\ f.ns = Pred(dl_seq_Rto)
           \/ RcvRRRepeated(f),
           UNCHANGED executed
    PROVE  Follows' /\ Mapped
<1>1. /\ up # <<>> /\ up' = Tail(up) /\ 1 \in 1..Len(up) /\ Transmitted
      /\ UNCHANGED clientVars /\ IInv
  BY HeadOfUp DEF DataInv, LinkInv, MeterInv
<1>2. /\ UNCHANGED <<dl_seq_Sto, dl_seq_Rto, segVars, tx_ext, linkVars>>
      /\ wire' = amr_tx \/ wire' = tx_ext
      /\ dl_seg_prev' = f.seg /\ f.type \in {"I", "RR"}
  BY DEF RcvInfoRepeated, RcvRRRepeated, RcvNumbered, Replay, EmitNothing,
         seqVars, extVars
<1>3. /\ UNCHANGED <<peer, c_vs, c_vr, request, acked, out, collected,
                     executed>>
      /\ Keeps
  BY <1>1 DEF clientVars, Keeps
<1>4. IF Taken THEN Accepted /\ AcceptedData ELSE Awaiting
  BY DEF DataInv, LinkInv, InStep, Follows, MeterData
<1>5. tx_ext # NoFrame /\ Fresh(tx_ext) => Taken
  <2>1. Pred(c_vr) # c_vr /\ Succ(c_vs) # c_vs
    BY Numbers DEF DataInv, LinkInv, ClientTypes
  <2> QED
    BY <1>4, <2>1 DEF Awaiting, Fresh, Late
<1>6. \A i \in 1..Len(down') :
         \/ \E j \in 1..Len(down) : down'[i] = down[j]
         \/ down'[i].type = "UI"
         \/ tx_ext # NoFrame /\ down'[i] = tx_ext
  <2>1. CASE wire' = amr_tx
    BY <1>1, <2>1, PushOut, UnderWay DEF DataInv
  <2>2. CASE wire' = tx_ext
    BY <1>1, <2>2, UnderWay DEF DataInv, IInv, SendInv
  <2> QED
    BY <1>2, <2>1, <2>2
<1>7. ClientData'
  BY <1>3 DEF DataInv, Follows, ClientData, Polling
<1>8. DownData'
  <2>1. Taken /\ tx_ext.type = "I" => GoodReply(tx_ext)
    BY <1>4 DEF AcceptedData
  <2> QED
    BY <1>3, <1>5, <1>6, <2>1
       DEF DataInv, Follows, DownData, Fresh, GoodReply
<1>9. MeterData'
  BY <1>2, <1>3
     DEF DataInv, Follows, MeterData, Taken, AcceptedData, AwaitingData,
         GoodReply, Holds, Rest, RestOf, linkVars, segVars
<1>10. MeterSeg'
  <2>1. Taken' <=> Taken
    BY <1>2, <1>3 DEF Taken
  <2>2. f.seg /\ f # out => out.type = "I" /\ acked > 0 /\ ~Taken
    BY <1>1, <1>4 DEF Accepted, DataInv, Follows, SegData, UpSegs
  <2>3. f.seg /\ f = out => out.type = "I" /\ Taken
    <3> SUFFICES ASSUME f.seg, f = out PROVE out.type = "I" /\ Taken
      OBVIOUS
    <3>1. out.type = "I" /\ out.ns = c_vs
      BY <1>2 DEF DataInv, LinkInv, OutInv
    <3>2. out.ns = Pred(dl_seq_Rto)
      BY <3>1 DEF RcvRRRepeated, RcvNumbered
    <3>3. Pred(c_vs) # c_vs
      BY Numbers DEF DataInv, LinkInv, ClientTypes
    <3> QED
      BY <1>4, <3>1, <3>2, <3>3 DEF Awaiting
  <2> QED
    BY <1>2, <1>3, <2>1, <2>2, <2>3 DEF MeterSeg
<1>11. UpSegs' /\ NewSeg'
  BY <1>1, <1>3, UpSegsTail DEF NewSeg
<1> QED
  BY <1>3, <1>7, <1>8, <1>9, <1>10, <1>11, Stutters DEF Follows, SegData

-----------------------------------------------------------------------------
(* The segment buffer. *)

(* A write that fits, to an NV memory that works. *)
LEMMA WriteStores ==
    ASSUME IInv, NvWorks, NEW offs \in Nat, NEW d \in Seq(Data),
           offs + Len(d) <= SegFrameSize,
           NEW ok \in NvOutcomes, SegFrameWrite(offs, d, ok)
    PROVE  /\ ok /\ Fits(offs, d)
           /\ \A i \in 1..Len(d) : seg_frame'[offs + i] = d[i]
           /\ \A i \in 1..offs : seg_frame'[i] = seg_frame[i]
<1>1. ok /\ Fits(offs, d)
  BY DEF NvWorks, Fits
<1>2. seg_frame' = Written(offs, d)
  BY <1>1 DEF SegFrameWrite
<1>3. Len(d) \in Nat /\ SegFrameSize \in Nat
  BY LenProperties, HdlcAssumption
<1>4. ASSUME NEW i \in 1..SegFrameSize
      PROVE  seg_frame'[i] = IF offs < i /\ i <= offs + Len(d)
                             THEN d[i - offs] ELSE seg_frame[i]
  BY <1>2 DEF Written
<1>5. ASSUME NEW i \in 1..Len(d)
      PROVE  seg_frame'[offs + i] = d[i]
  <2>1. /\ offs + i \in 1..SegFrameSize
        /\ offs < offs + i /\ offs + i <= offs + Len(d)
        /\ (offs + i) - offs = i
    BY <1>3
  <2> QED
    BY <1>4, <2>1
<1>6. ASSUME NEW i \in 1..offs
      PROVE  seg_frame'[i] = seg_frame[i]
  BY <1>3, <1>4
<1> QED
  BY <1>1, <1>5, <1>6

(* What is read back. *)
LEMMA StoredIs ==
    ASSUME IInv, NEW offs \in Nat, NEW len \in Nat, offs + len <= SegFrameSize
    PROVE  /\ Stored(offs, len) \in Seq(Unit) /\ Len(Stored(offs, len)) = len
           /\ \A i \in 1..len : Stored(offs, len)[i] = seg_frame[offs + i]
<1>1. Stored(offs, len) \in Seq(Unit) /\ Len(Stored(offs, len)) = len
  BY StoredType DEF IInv, SegInv
<1>2. ASSUME NEW i \in 1..len
      PROVE  Stored(offs, len)[i] = seg_frame[offs + i]
  <2>1. offs + i <= SegFrameSize
    BY HdlcAssumption
  <2> QED
    BY <2>1 DEF Stored
<1> QED
  BY <1>1, <1>2

(* The first part of the answer R was sent, and the rest is stored. *)
Answering(R) ==
    LET n == Len(tx_ext.info)
    IN  /\ n <= Len(R) /\ (tx_ext.seg <=> n < Len(R))
        /\ tx_ext.info = SubSeq(R, 1, n)
        /\ tx_ext.seg => RestOf(R, n)

LEMMA SendApplData ==
    ASSUME IInv, Promising, dl_tx_max_info = ClientMaxInfo,
           NEW f \in InFrame, FrameParse(f), f.poll,
           NEW r \in Requests, NEW offs, SendAppl(f, ReplyOf(r), offs)
    PROVE  /\ tx_ext'.type = "I" /\ wire' = tx_ext'
           /\ Answering(ReplyOf(r))'
<1> DEFINE R == ReplyOf(r)
           max == ClientMaxInfo
<1>1. /\ R \in Seq(Unit) /\ R \in Seq(Data) /\ Len(R) \in Nat /\ max \in Nat
      /\ Len(R) <= SegFrameSize + max /\ SegFrameSize \in Nat
  BY RequestType, HdlcLinkAssumption, HdlcAssumption DEF Promising, DataFits
<1>2. SendAppl(f, R, offs)
  OBVIOUS
<1> HIDE DEF R, max
<1>3. CASE Len(R) > max
  <2> DEFINE tail == SubSeq(R, max + 1, Len(R))
             head == SubSeq(R, 1, max)
  <2>1. PICK ok \in NvOutcomes : SegFrameWrite(0, tail, ok)
    BY <1>2, <1>3 DEF SendAppl, max
  <2>2. /\ dl_seg_frame_offs' = 0 /\ dl_seg_frame_len' = Len(tail)
        /\ SendInfo(f, f.ns, TRUE, head)
    BY <1>2, <1>3 DEF SendAppl, max
  <2>3. /\ tail \in Seq(Data) /\ Len(tail) = Len(R) - max
        /\ \A i \in 1..(Len(R) - max) : tail[i] = R[max + i]
    <3>1. R \in Seq(Data) /\ max \in Nat /\ Len(R) \in Nat
          /\ max <= Len(R) /\ Len(R) <= Len(R)
      BY <1>1, <1>3
    <3> HIDE DEF tail
    <3>2. \A b \in Nat : max <= b /\ b <= Len(R) =>
             /\ SubSeq(R, max + 1, b) \in Seq(Data)
             /\ Len(SubSeq(R, max + 1, b)) = b - max
             /\ \A i \in 1..(b - max) :
                   SubSeq(R, max + 1, b)[i] = R[max + i]
      BY <3>1, Slice
    <3> QED
      BY <3>1, <3>2 DEF tail
  <2>4. head \in Seq(Unit) /\ Len(head) = max
    BY <1>1, <1>3, Prefix
  <2>5. /\ tx_ext'.type = "I" /\ wire' = tx_ext'
        /\ tx_ext'.seg = TRUE /\ tx_ext'.info = head
    BY <2>2, SendInfoEffect
  <2> HIDE DEF tail, head
  <2>6. 0 + Len(tail) <= SegFrameSize
    BY <1>1, <1>3, <2>3
  <2>7. \A i \in 1..Len(tail) : seg_frame'[0 + i] = tail[i]
    BY <2>1, <2>3, <2>6, WriteStores DEF Promising
  <2>8. RestOf(R, max)'
    BY <1>1, <1>3, <2>2, <2>3, <2>6, <2>7 DEF RestOf
  <2>9. Answering(R)'
    BY <1>1, <1>3, <2>4, <2>5, <2>8 DEF Answering, head
  <2> QED
    BY <2>5, <2>9 DEF R
<1>4. CASE ~(Len(R) > max)
  <2>1. SendInfo(f, f.ns, FALSE, R)
    BY <1>2, <1>4 DEF SendAppl, max
  <2>2. /\ tx_ext'.type = "I" /\ wire' = tx_ext'
        /\ tx_ext'.seg = FALSE /\ tx_ext'.info = R
    BY <2>1, SendInfoEffect
  <2>3. Answering(R)'
    BY <1>1, <2>2, SubSeqFull DEF Answering
  <2> QED
    BY <2>2, <2>3 DEF R
<1> QED
  BY <1>3, <1>4

(* The application answers a request in its one way. *)
LEMMA OneReply ==
    ASSUME NEW f, NEW r \in Requests, NEW offs, ApplMsgDataInd(f, r, offs)
    PROVE  SendAppl(f, ReplyOf(r), offs)
BY RequestType DEF ApplMsgDataInd

-----------------------------------------------------------------------------
(* The frame the meter waits for. *)
LEMMA TakesData ==
    ASSUME DataInv, MeterRcv, peer = "on", dl_conn_state = "NRM",
           ~Taken, Awaiting, UNCHANGED linkVars,
           executed' = executed \/ out.type = "I",
           wire' = tx_ext', tx_ext' # NoFrame, Taken', AcceptedData',
           dl_seg_prev' => out.type = "I" /\ out.seg
    PROVE  Follows'
<1>1. /\ up # <<>> /\ up' = Tail(up) /\ Transmitted /\ UNCHANGED clientVars
      /\ IInv'
  BY HeadOfUp DEF DataInv, LinkInv, MeterInv
<1>2. /\ UNCHANGED <<peer, c_vs, c_vr, request, acked, out, collected,
                     dl_conn_state>>
  BY <1>1 DEF clientVars, linkVars
<1>3. ClientData'
  BY <1>2 DEF DataInv, Follows, ClientData, Polling
<1>4. DownData'
  <2>1. tx_ext' \in OutFrame
    BY <1>1 DEF IInv, SendInv
  <2>2. \A i \in 1..Len(down') :
           \/ \E j \in 1..Len(down) : down'[i] = down[j]
           \/ down'[i] = tx_ext'
    BY <1>1, <2>1, UnderWay DEF DataInv
  <2>3. \A j \in 1..Len(down) : ~Fresh(down[j])
    BY DEF Awaiting
  <2>4. tx_ext'.type = "I" => GoodReply(tx_ext)'
    BY DEF AcceptedData
  <2>5. ASSUME NEW i \in 1..Len(down'), Fresh(down[i])', down'[i].type = "I"
        PROVE  GoodReply(down[i])'
    <3>1. down'[i] = tx_ext'
      BY <1>2, <2>2, <2>3, <2>5 DEF Fresh
    <3> QED
      BY <2>4, <2>5, <3>1 DEF GoodReply
  <2> QED
    BY <2>5 DEF DownData
<1>5. MeterData' /\ MeterSeg' /\ NewSeg'
  BY <1>2 DEF MeterData, MeterSeg, NewSeg
<1>6. UpSegs'
  BY <1>1, UpSegsTail
<1> QED
  BY <1>3, <1>4, <1>5, <1>6 DEF Follows, SegData

(* A segment is dropped, stored behind what is stored, or completes the *)
(* request.                                                             *)
LEMMA InfoOutcome ==
    ASSUME IInv, Promising, NEW r \in Requests, NEW a \in Nat,
           NEW f \in InFrame, CutOf(f, r, a), ApplMsgProc(f),
           dl_seg_prev => a > 0,
           a > 0 => /\ dl_seg_frame_offs = a
                    /\ \A i \in 1..a : seg_frame[i] = r[i]
    PROVE  \/ /\ a > 0 /\ Given(f) = <<>>
              /\ UNCHANGED <<segVars, tx_ext, dl_seq_Sto, dl_seq_Rto>>
              /\ EmitNothing
           \/ /\ f.seg /\ Given(f) = <<>> /\ SendRR(f, f.ns)
              /\ dl_seg_frame_offs' = a + Len(f.info)
              /\ \A i \in 1..(a + Len(f.info)) : seg_frame'[i] = r[i]
           \/ /\ ~f.seg /\ Given(f) = <<r>>
              /\ \E offs : SendAppl(f, ReplyOf(r), offs)
<1> DEFINE b == a + Len(f.info)
<1>1. /\ 0 < Len(f.info) /\ b <= Len(r) /\ f.info = SubSeq(r, a + 1, b)
      /\ (f.seg <=> b < Len(r)) /\ (f.llc <=> a = 0)
  BY DEF CutOf
<1>2. /\ r \in Seq(Unit) /\ Len(r) \in Nat /\ Len(r) <= SegFrameSize
      /\ f.info \in Seq(Data) /\ f.info \in Seq(Unit) /\ Len(f.info) \in Nat
      /\ b \in Nat
  <2>1. f.info \in Seq(Data)
    BY InFrameFields
  <2>2. Data \subseteq Unit
    BY DEF Unit
  <2>3. f.info \in Seq(Unit) /\ Len(f.info) \in Nat
    BY <2>1, <2>2, SeqMonotonic, LenProperties
  <2> QED
    BY <2>1, <2>3, RequestType DEF Promising, DataFits
<1>3. \A i \in 1..Len(f.info) : f.info[i] = r[a + i]
  <2>1. \A i \in 1..(b - a) : SubSeq(r, a + 1, b)[i] = r[a + i]
    BY <1>1, <1>2, Slice
  <2> QED
    BY <1>1, <1>2, <2>1
<1>4. dl_seg_prev \in BOOLEAN /\ f.seg \in BOOLEAN /\ f.llc \in BOOLEAN
  BY InFrameFields DEF IInv, ConnInv, InFrame
<1> HIDE DEF b
<1>5. ASSUME NEW ok \in NvOutcomes, SegFrameWrite(a, f.info, ok)
      PROVE  /\ ok /\ Fits(a, f.info)
             /\ \A i \in 1..b : seg_frame'[i] = r[i]
  <2>1. a + Len(f.info) <= SegFrameSize
    BY <1>1, <1>2, HdlcAssumption DEF b
  <2>2. /\ ok /\ Fits(a, f.info)
        /\ \A i \in 1..Len(f.info) : seg_frame'[a + i] = f.info[i]
        /\ \A i \in 1..a : seg_frame'[i] = seg_frame[i]
    BY <1>2, <1>5, <2>1, WriteStores DEF Promising
  <2>3. ASSUME NEW i \in 1..b
        PROVE  seg_frame'[i] = r[i]
    <3>1. CASE i <= a
      <4>1. i \in 1..a /\ a > 0
        BY <3>1
      <4> QED
        BY <2>2, <4>1
    <3>2. CASE ~(i <= a)
      <4>1. i - a \in 1..Len(f.info) /\ a + (i - a) = i
        BY <1>2, <3>2 DEF b
      <4>2. seg_frame'[a + (i - a)] = f.info[i - a]
        BY <2>2, <4>1
      <4>3. f.info[i - a] = r[a + (i - a)]
        BY <1>3, <4>1
      <4> QED
        BY <4>1, <4>2, <4>3
    <3> QED
      BY <3>1, <3>2
  <2> QED
    BY <2>2, <2>3
<1>6. CASE ~dl_seg_prev /\ a = 0 /\ f.seg
  <2>1. SegState(f) = "FIRST" /\ f.llc
    BY <1>1, <1>6 DEF SegState
  <2>2. /\ \E ok \in NvOutcomes :
              /\ SegFrameWrite(0, f.info, ok)
              /\ dl_seg_frame_offs' =
                    IF Fits(0, f.info) /\ ok THEN Len(f.info) ELSE 0
        /\ SendRR(f, f.ns)
    BY <2>1 DEF ApplMsgProc
  <2>3. Given(f) = <<>>
    BY <2>1 DEF Given
  <2> QED
    BY <1>2, <1>5, <1>6, <2>2, <2>3 DEF b
<1>7. CASE ~dl_seg_prev /\ a = 0 /\ ~f.seg
  <2>1. SegState(f) = "NONE" /\ f.llc
    BY <1>1, <1>7 DEF SegState
  <2>2. b = Len(r) /\ a + 1 = 1
    BY <1>1, <1>2, <1>7
  <2>3. f.info = r
    BY <1>1, <1>2, <2>2, SubSeqFull
  <2>4. ApplMsgDataInd(f, r, dl_seg_frame_offs)
    BY <2>1, <2>3 DEF ApplMsgProc
  <2>5. Given(f) = <<r>>
    BY <2>1, <2>3 DEF Given
  <2> QED
    BY <1>7, <2>4, <2>5, OneReply
<1>8. CASE ~dl_seg_prev /\ a > 0
  <2>1. SegState(f) \in {"NONE", "FIRST"} /\ ~f.llc
    BY <1>1, <1>8 DEF SegState
  <2>2. /\ UNCHANGED <<segVars, tx_ext, dl_seq_Sto, dl_seq_Rto>>
        /\ EmitNothing
    BY <2>1 DEF ApplMsgProc
  <2>3. Given(f) = <<>>
    BY <2>1 DEF Given
  <2> QED
    BY <1>8, <2>2, <2>3
<1>9. CASE dl_seg_prev /\ f.seg
  <2>1. SegState(f) = "MID" /\ dl_seg_frame_offs = a
    BY <1>9 DEF SegState
  <2>2. /\ \E ok \in NvOutcomes :
              /\ SegFrameWrite(a, f.info, ok)
              /\ dl_seg_frame_offs' =
                    IF Fits(a, f.info) /\ ok THEN a + Len(f.info) ELSE a
        /\ SendRR(f, f.ns)
    BY <2>1 DEF ApplMsgProc
  <2>3. Given(f) = <<>>
    BY <2>1 DEF Given
  <2> QED
    BY <1>5, <1>9, <2>2, <2>3 DEF b
<1>10. CASE dl_seg_prev /\ ~f.seg
  <2>1. SegState(f) = "LAST" /\ dl_seg_frame_offs = a /\ a > 0
    BY <1>10 DEF SegState
  <2>2. b = Len(r)
    BY <1>1, <1>2, <1>10
  <2>3. Reassembled(f) = r
    <3>1. /\ Stored(0, a) \in Seq(Unit) /\ Len(Stored(0, a)) = a
          /\ \A i \in 1..a : Stored(0, a)[i] = seg_frame[0 + i]
      <4>1. 0 \in Nat /\ 0 + a <= SegFrameSize
        BY <1>1, <1>2, HdlcAssumption DEF b
      <4> QED
        BY <4>1, StoredIs
    <3>2. Stored(0, a) = SubSeq(r, 1, a)
      <4>1. /\ SubSeq(r, 1, a) \in Seq(Unit) /\ Len(SubSeq(r, 1, a)) = a
            /\ \A i \in 1..a : SubSeq(r, 1, a)[i] = r[i]
        BY <1>1, <1>2, Prefix DEF b
      <4>2. \A i \in 1..a : Stored(0, a)[i] = SubSeq(r, 1, a)[i]
        BY <2>1, <3>1, <4>1
      <4> QED
        BY <3>1, <4>1, <4>2, SeqEqual
    <3>3. SubSeq(r, 1, a) \o f.info = SubSeq(r, 1, b)
      <4>1. b = a + Len(f.info) /\ a + Len(f.info) <= Len(r)
        BY <1>1 DEF b
      <4> QED
        BY <1>2, <1>3, <4>1, Prolonged
    <3>4. Stored(0, a) \o f.info = r
      BY <1>2, <2>2, <3>2, <3>3, SubSeqFull
    <3>5. a + Len(f.info) <= BuffSize
      BY <1>1, <1>2, HdlcAssumption DEF b
    <3> QED
      BY <2>1, <3>4, <3>5 DEF Reassembled
  <2>4. \E offs : ApplMsgDataInd(f, r, offs)
    BY <2>1, <2>3 DEF ApplMsgProc, Promising, NvWorks
  <2>5. Given(f) = <<r>>
    BY <2>1, <2>3 DEF Given
  <2> QED
    BY <1>10, <2>4, <2>5, OneReply
<1> QED
  BY <1>4, <1>6, <1>7, <1>8, <1>9, <1>10

LEMMA RcvInfoData ==
    ASSUME DataInv, Promising, MeterRcv, peer = "on", dl_conn_state = "NRM",
           NEW f, f = up[1], f = out, ~Taken, Awaiting,
           RcvInfo(f), executed' = executed \o Given(f)
    PROVE  Follows' /\ Mapped
<1>1. /\ f \in InFrame /\ f.poll
      /\ Transmitted /\ UNCHANGED clientVars /\ IInv /\ IInv'
      /\ up # <<>> /\ up' = Tail(up)
  BY HeadOfUp, HeardInStep DEF DataInv, LinkInv, MeterInv
<1>2. /\ f.type = "I" /\ FrameParse(f) /\ UNCHANGED linkVars
      /\ f.ns = dl_seq_Rto /\ dl_seg_prev' = f.seg /\ ApplMsgProc(f)
  BY DEF RcvInfo, RcvNumbered
<1>3. /\ UNCHANGED <<peer, c_vs, c_vr, request, acked, out, collected, answer>>
      /\ UNCHANGED dl_conn_state
  BY <1>1, <1>2 DEF clientVars, linkVars
<1>4. /\ request \in Requests /\ request # NoRequest /\ acked \in Nat
      /\ dl_tx_max_info = ClientMaxInfo
      /\ f.ns = c_vs /\ dl_seq_Rto = c_vs
  <2>1. out # NoFrame
    BY <1>2
  <2> QED
    BY <1>2, <2>1 DEF DataInv, LinkInv, ClientTypes, OutInv, InStep, Awaiting
<1>5. CutOf(f, request, acked) /\ collected = <<>>
  BY <1>2 DEF DataInv, Follows, ClientData
<1>6. executed = <<>> /\ (acked > 0 => Holds(acked))
  BY <1>2 DEF DataInv, Follows, MeterData, AwaitingData
<1>7. dl_seg_prev => acked > 0
  BY DEF DataInv, Follows, SegData, MeterSeg
<1>8. \/ /\ acked > 0 /\ Given(f) = <<>>
         /\ UNCHANGED <<segVars, tx_ext, dl_seq_Sto, dl_seq_Rto>>
         /\ EmitNothing
      \/ /\ f.seg /\ Given(f) = <<>> /\ SendRR(f, f.ns)
         /\ dl_seg_frame_offs' = acked + Len(f.info)
         /\ \A i \in 1..(acked + Len(f.info)) : seg_frame'[i] = request[i]
      \/ /\ ~f.seg /\ Given(f) = <<request>>
         /\ \E offs : SendAppl(f, ReplyOf(request), offs)
  <2>1. acked > 0 => /\ dl_seg_frame_offs = acked
                     /\ \A i \in 1..acked : seg_frame[i] = request[i]
    BY <1>6 DEF Holds
  <2> QED
    BY <1>1, <1>2, <1>4, <1>5, <1>7, <2>1, InfoOutcome
<1>9. executed' = Given(f)
  BY <1>6, <1>8
<1>10. CASE /\ acked > 0 /\ Given(f) = <<>>
            /\ UNCHANGED <<segVars, tx_ext, dl_seq_Sto, dl_seq_Rto>>
            /\ EmitNothing
  <2>1. UNCHANGED executed
    BY <1>6, <1>9, <1>10
  <2>2. \A i \in 1..Len(down') :
           \/ \E j \in 1..Len(down) : down'[i] = down[j]
           \/ down'[i].type = "UI"
    BY <1>1, <1>10, PushOut, UnderWay DEF DataInv, EmitNothing
  <2>3. ClientData' /\ DownData'
    BY <1>3, <2>1, <2>2
       DEF DataInv, Follows, ClientData, Polling, DownData, Fresh, GoodReply
  <2>4. ~Taken'
    BY <1>3, <1>10 DEF Taken
  <2>5. MeterData'
    BY <1>3, <1>10, <2>1, <2>4
       DEF DataInv, Follows, MeterData, AwaitingData, Holds, Rest, RestOf,
           segVars
  <2>6. MeterSeg' /\ NewSeg'
    BY <1>2, <1>3, <1>10, <2>4 DEF MeterSeg, NewSeg
  <2>7. UpSegs' /\ Keeps
    BY <1>1, <1>3, <2>1, UpSegsTail DEF Keeps
  <2> QED
    BY <2>3, <2>5, <2>6, <2>7, Stutters DEF Follows, SegData
<1>11. CASE /\ f.seg /\ Given(f) = <<>> /\ SendRR(f, f.ns)
            /\ dl_seg_frame_offs' = acked + Len(f.info)
            /\ \A i \in 1..(acked + Len(f.info)) : seg_frame'[i] = request[i]
  <2>1. /\ dl_seq_Rto' = Succ(c_vs) /\ tx_ext'.type = "RR" /\ wire' = tx_ext'
    BY <1>1, <1>2, <1>4, <1>11, SendRREffect
  <2>2. UNCHANGED executed
    BY <1>6, <1>9, <1>11
  <2>3. Taken'
    BY <1>2, <1>3, <2>1 DEF Taken
  <2>4. AcceptedData'
    BY <1>3, <1>6, <1>11, <2>1, <2>2 DEF AcceptedData, Holds
  <2>5. Follows'
    BY <1>2, <1>11, <2>1, <2>2, <2>3, <2>4, TakesData
  <2>6. Keeps
    BY <1>3, <2>2 DEF Keeps
  <2> QED
    BY <2>5, <2>6, Stutters
<1>12. CASE /\ ~f.seg /\ Given(f) = <<request>>
            /\ \E offs : SendAppl(f, ReplyOf(request), offs)
  <2>1. PICK r \in Requests : r = request
    BY <1>4
  <2>2. PICK offs : SendAppl(f, ReplyOf(r), offs)
    BY <1>12, <2>1
  <2>3. /\ tx_ext'.type = "I" /\ wire' = tx_ext'
        /\ Answering(ReplyOf(r))'
    BY <1>1, <1>2, <1>4, <2>2, SendApplData
  <2>4. dl_seq_Rto' = Succ(c_vs)
    BY <1>1, <1>2, <1>4, <2>1, <2>2, RequestType, SendApplEffect
  <2>5. executed' = <<request>> /\ request' = r
    BY <1>3, <1>9, <1>12, <2>1
  <2>6. Taken'
    BY <1>2, <1>3, <2>4 DEF Taken
  <2>7. tx_ext'.info \in Seq(Unit) /\ Len(tx_ext'.info) \in Nat
    <3>1. tx_ext' \in OutFrame
      BY <1>1, <2>3 DEF IInv, SendInv
    <3> QED
      BY <3>1, LenProperties DEF OutFrame
  <2>8. PICK n \in Nat : n = Len(tx_ext'.info)
    BY <2>7
  <2>9. /\ collected' = <<>> /\ Len(<<>>) + n = n
        /\ <<>> \o tx_ext'.info = tx_ext'.info
    BY <1>3, <1>5, <2>7, ConcatEmptySeq
  <2>10. /\ n <= Len(ReplyOf(r)) /\ (tx_ext'.seg <=> n < Len(ReplyOf(r)))
         /\ tx_ext'.info = SubSeq(ReplyOf(r), 1, n)
         /\ (tx_ext'.seg => RestOf(ReplyOf(r), n)')
    BY <2>3, <2>8 DEF Answering
  <2>11. GoodReply(tx_ext)'
    BY <2>1, <2>5, <2>8, <2>9, <2>10 DEF GoodReply
  <2>12. (tx_ext.seg => Rest(Len(collected) + Len(tx_ext.info)))'
    BY <2>1, <2>5, <2>8, <2>9, <2>10 DEF Rest
  <2>13. AcceptedData'
    BY <2>3, <2>11, <2>12 DEF AcceptedData
  <2>14. Follows'
    BY <1>2, <1>12, <2>3, <2>6, <2>13, TakesData
  <2>15. Promise!Execute
    BY <1>3, <1>4, <1>6, <2>5 DEF Promise!Execute
  <2> QED
    BY <2>14, <2>15 DEF Mapped, Promise!Next
<1> QED
  BY <1>8, <1>10, <1>11, <1>12

(* A poll is answered by the next part of what is left. *)
LEMMA RcvRRData ==
    ASSUME DataInv, Promising, MeterRcv, peer = "on", dl_conn_state = "NRM",
           NEW f, f = up[1], f = out, ~Taken, Awaiting,
           RcvRR(f), UNCHANGED executed
    PROVE  Follows' /\ Mapped
<1>1. f \in InFrame /\ f.poll /\ UNCHANGED clientVars /\ IInv /\ IInv'
  BY HeadOfUp, HeardInStep DEF DataInv, LinkInv, MeterInv
<1>2. /\ f.type = "RR" /\ FrameParse(f) /\ UNCHANGED linkVars
      /\ f.nr = dl_seq_Sto /\ dl_seg_prev' = f.seg
      /\ UNCHANGED <<dl_seg_frame_len, seg_frame>>
  BY DEF RcvRR, RcvNumbered
<1>3. /\ UNCHANGED <<peer, c_vs, c_vr, request, acked, out, collected, answer>>
  BY <1>1 DEF clientVars
<1>4. /\ request \in Requests
      /\ dl_tx_max_info = ClientMaxInfo
      /\ ~f.seg /\ TailLeft /\ dl_seq_Sto = c_vr
  <2>1. out # NoFrame
    BY <1>2
  <2> QED
    BY <1>2, <2>1
       DEF DataInv, LinkInv, ClientTypes, OutInv, InStep, Awaiting, MayContinue
<1> DEFINE R == ReplyOf(request)
           c == Len(collected)
           left == dl_seg_frame_len - dl_seg_frame_offs
           len == SmallerOf(left, ClientMaxInfo)
           info == Stored(dl_seg_frame_offs, len)
<1>5. /\ executed = <<request>> /\ c < Len(R)
      /\ collected = SubSeq(R, 1, c) /\ collected \in Seq(Unit)
  BY <1>2 DEF DataInv, Follows, ClientData, Polling
<1>6. /\ c \in Nat /\ R \in Seq(Unit) /\ Len(R) \in Nat
      /\ dl_seg_frame_offs \in Nat /\ dl_seg_frame_len \in Nat
      /\ ClientMaxInfo \in Nat /\ ClientMaxInfo > 0 /\ SegFrameSize \in Nat
  <2>1. c \in Nat
    BY <1>5, LenProperties
  <2>2. R \in Seq(Unit) /\ Len(R) \in Nat
    BY <1>4, RequestType
  <2> QED
    BY <1>1, <2>1, <2>2, HdlcLinkAssumption, HdlcAssumption DEF IInv, SegInv
<1>7. /\ left = Len(R) - c /\ dl_seg_frame_len <= SegFrameSize
      /\ \A i \in 1..left : seg_frame[dl_seg_frame_offs + i] = R[c + i]
  <2>1. RestOf(R, c)
    BY <1>2 DEF DataInv, Follows, MeterData, AwaitingData, Rest
  <2> QED
    BY <1>6, <2>1 DEF RestOf
<1>8. /\ SendInfo(f, dl_seq_Sfrom, left > ClientMaxInfo, info)
      /\ dl_seg_frame_offs' = dl_seg_frame_offs + len
  BY <1>4 DEF RcvRR, Promising, NvWorks
<1>9. /\ tx_ext'.type = "I" /\ tx_ext'.seg = (left > ClientMaxInfo)
      /\ tx_ext'.info = info /\ wire' = tx_ext'
      /\ dl_seq_Sto' = Succ(c_vr)
  BY <1>1, <1>2, <1>4, <1>8, SendInfoEffect
<1> HIDE DEF left, len, info, R, c
<1>10. /\ len \in Nat /\ len <= left /\ len <= ClientMaxInfo
       /\ len = left \/ len = ClientMaxInfo
  BY <1>5, <1>6, <1>7 DEF SmallerOf, len
<1>11. /\ info \in Seq(Unit) /\ Len(info) = len
       /\ \A i \in 1..len : info[i] = seg_frame[dl_seg_frame_offs + i]
  <2>1. dl_seg_frame_offs + len <= SegFrameSize
    BY <1>6, <1>7, <1>10 DEF left
  <2> QED
    BY <1>1, <1>6, <1>10, <2>1, StoredIs DEF info
<1>12. /\ c + Len(info) <= Len(R)
       /\ c + Len(info) = c + len /\ left = Len(R) - c
       /\ Len(R) - (c + len) = left - len
  <2>1. left = Len(R) - c /\ Len(info) = len
    BY <1>7, <1>11
  <2> QED
    BY <1>6, <1>10, <2>1
<1>13. \A i \in 1..Len(info) : info[i] = R[c + i]
  <2> SUFFICES ASSUME NEW i \in 1..Len(info) PROVE info[i] = R[c + i]
    OBVIOUS
  <2>1. i \in 1..len
    BY <1>11
  <2>2. i \in 1..left
    BY <1>6, <1>10, <1>12, <2>1
  <2> QED
    BY <1>7, <1>11, <2>1, <2>2
<1>14. collected \o info = SubSeq(R, 1, c + Len(info))
  <2>1. info \in Seq(Unit)
    BY <1>11
  <2> QED
    BY <1>5, <1>6, <1>12, <1>13, <2>1, Prolonged
<1>15. tx_ext'.seg <=> c + Len(info) < Len(R)
  <2>1. left > ClientMaxInfo <=> c + len < Len(R)
    BY <1>6, <1>10, <1>12
  <2> QED
    BY <1>9, <1>12, <2>1
<1>16. GoodReply(tx_ext)'
  BY <1>3, <1>5, <1>9, <1>12, <1>14, <1>15 DEF GoodReply, R, c
<1>17. PICK n \in Nat : n = c + Len(info)
  BY <1>6, <1>10, <1>11
<1>18. PICK r \in Requests : r = request
  BY <1>4
<1>19. RestOf(ReplyOf(r), n)'
  <2>1. /\ dl_seg_frame_len' = dl_seg_frame_offs' + (Len(R) - n)
        /\ dl_seg_frame_len' <= SegFrameSize
    <3>1. dl_seg_frame_len = dl_seg_frame_offs + left
      BY <1>6 DEF left
    <3>2. /\ dl_seg_frame_len <= SegFrameSize
          /\ dl_seg_frame_offs' = dl_seg_frame_offs + len
      BY <1>7, <1>8
    <3> QED
      BY <1>2, <1>6, <1>10, <1>12, <1>17, <3>1, <3>2
  <2>2. ASSUME NEW i \in 1..(Len(R) - n)
        PROVE  seg_frame'[dl_seg_frame_offs' + i] = R[n + i]
    <3>1. /\ len + i \in 1..left
          /\ dl_seg_frame_offs + (len + i) = dl_seg_frame_offs' + i
          /\ c + (len + i) = n + i
      <4>1. dl_seg_frame_offs' = dl_seg_frame_offs + len
        BY <1>8
      <4> QED
        BY <1>6, <1>10, <1>12, <1>17, <4>1
    <3>2. seg_frame[dl_seg_frame_offs + (len + i)] = R[c + (len + i)]
      BY <1>7, <3>1
    <3> QED
      BY <1>2, <3>1, <3>2
  <2>3. R = ReplyOf(r)
    BY <1>18 DEF R
  <2> QED
    BY <2>1, <2>2, <2>3 DEF RestOf
<1>20. AcceptedData'
  <2>1. Len(collected') + Len(tx_ext'.info) = n /\ request' = r
    BY <1>3, <1>9, <1>17, <1>18 DEF c
  <2>2. Rest(Len(collected) + Len(tx_ext.info))'
    BY <1>19, <2>1 DEF Rest
  <2> QED
    BY <1>9, <1>16, <2>2 DEF AcceptedData
<1>21. Taken'
  BY <1>2, <1>3, <1>9 DEF Taken
<1>22. Follows'
  BY <1>2, <1>4, <1>9, <1>20, <1>21, TakesData
<1>23. Keeps
  BY <1>3 DEF Keeps
<1> QED
  BY <1>22, <1>23, Stutters

LEMMA MeterRcvData ==
    ASSUME DataInv, Promising, MeterRcv
    PROVE  Follows' /\ Mapped
<1>1. peer \in {"connecting", "on"} /\ dl_conn_state \in {"NDM", "NRM"}
  <2>1. up # <<>>
    BY DEF MeterRcv
  <2> QED
    BY <2>1
       DEF DataInv, LinkInv, UpInv, ClientTypes, MeterInv, IInv, ConnInv
<1>2. CASE peer = "connecting"
  BY <1>2, RcvConnectingData
<1>3. CASE peer = "on" /\ dl_conn_state = "NDM"
  BY <1>3, RcvDroppedData
<1>4. CASE peer = "on" /\ dl_conn_state = "NRM"
  <2> DEFINE f == up[1]
  <2> HIDE DEF f
  <2>1. \/ /\ \/ RcvInfoRepeated(f) /\ f.ns = Pred(dl_seq_Rto)
              \/ RcvRRRepeated(f)
           /\ UNCHANGED executed
        \/ /\ f = out /\ ~Taken /\ Awaiting
           /\ \/ RcvInfo(f) /\ executed' = executed \o Given(f)
              \/ RcvRR(f) /\ UNCHANGED executed
    BY <1>4, HeardInStep DEF DataInv, f
  <2>2. f = up[1]
    BY DEF f
  <2> QED
    BY <1>4, <2>1, <2>2, RcvRepeatedData, RcvInfoData, RcvRRData
<1> QED
  BY <1>1, <1>2, <1>3, <1>4

-----------------------------------------------------------------------------
(* At the start nothing is connected and nothing under way. *)
LEMMA InitDataInv == LinkInit => DataInv
<1> SUFFICES ASSUME LinkInit PROVE DataInv
  OBVIOUS
<1>1. LinkInv
  BY InitLinkInv
<1>2. peer = "off" /\ collected = <<>>
  BY DEF LinkInit
<1>3. ClientData /\ DownData /\ MeterData
  BY <1>2, EmptySeq DEF ClientData, DownData, MeterData
<1>4. SegData
  BY <1>2 DEF SegData, UpSegs, MeterSeg, NewSeg
<1> QED
  BY <1>1, <1>3, <1>4 DEF DataInv, Follows

(* A step of neither keeps everything. *)
LEMMA StutterData ==
    ASSUME DataInv, UNCHANGED linkAllVars
    PROVE  Follows' /\ Mapped
<1>1. /\ UNCHANGED <<clientVars, up, down, executed>>
      /\ UNCHANGED <<linkVars, seqVars, segVars, extVars, parseVars>>
  BY DEF linkAllVars, mediumVars, histVars, vars
<1> QED
  BY <1>1, QuietData DEF parseVars

(* Each step of the link is a step of the promise, or none of it. *)
LEMMA NextData ==
    Promising /\ DataInv /\ [LinkNext]_linkAllVars => DataInv' /\ Mapped
<1> SUFFICES ASSUME Promising, DataInv, [LinkNext]_linkAllVars
             PROVE  Follows' /\ Mapped
  BY NextLinkInv DEF DataInv
<1>1. CASE Connect
  BY <1>1, ConnectData
<1>2. CASE Retransmit
  BY <1>2, RetransmitData
<1>3. CASE GiveUp
  BY <1>3, GiveUpData
<1>4. CASE ClientRcv
  BY <1>4, ClientRcvData
<1>5. ASSUME NEW r \in Requests, Issue(r) PROVE Follows' /\ Mapped
  BY <1>5, IssueData
<1>6. CASE MeterRcv
  BY <1>6, MeterRcvData
<1>7. CASE MeterIdle
  BY <1>7, MeterIdleData
<1>8. CASE MeterStops
  BY <1>8, MeterStopsData
<1>9. ASSUME NEW f \in Noise, MeterHears(f) PROVE Follows' /\ Mapped
  BY <1>9, MeterHearsData
<1>10. ASSUME NEW p \in Pushes, MeterPushes(p) PROVE Follows' /\ Mapped
  BY <1>10, MeterPushesData
<1>11. CASE Lose
  <2>1. UNCHANGED <<vars, clientVars, executed>>
    BY <1>11 DEF Lose, histVars
  <2> QED
    BY <1>11, <2>1, DropData DEF Lose
<1>12. CASE UNCHANGED linkAllVars
  BY <1>12, StutterData
<1> QED
  BY <1>1, <1>2, <1>3, <1>4, <1>5, <1>6, <1>7, <1>8, <1>9, <1>10, <1>11,
     <1>12 DEF LinkNext

(* The data link implements Exchange: whatever the medium loses, however   *)
(* often the client repeats a frame, whenever the meter drops the          *)
(* connection and whatever it pushes, a request is executed whole and at   *)
(* most once before it is answered, and the answer the client puts         *)
(* together is the whole answer to it.                                     *)
THEOREM LinkKeepsPromise ==
    ASSUME Promising
    PROVE  LinkSpec => ImplementsExchange
<1>1. LinkInit => Promise!Init
  BY DEF LinkInit, Promise!Init
<1>2. DataInv /\ [LinkNext]_linkAllVars =>
         DataInv' /\ [Promise!Next]_(Promise!exchangeVars)
  BY NextData DEF Mapped
<1> QED
  BY <1>1, <1>2, InitDataInv, PTL
     DEF LinkSpec, ImplementsExchange, Promise!Spec

(* So what the application is given while a request is under way is that   *)
(* request, once: what goes wrong where a segment for another meter passes *)
(* needs that segment.                                                     *)
THEOREM ExecutesWhatIsAsked ==
    ASSUME Promising
    PROVE  LinkSpec => []ExecutedIsAsked
<1>1. Promise!Init => ExecutedIsAsked
  BY DEF Promise!Init, ExecutedIsAsked
<1>2. ExecutedIsAsked /\ [Promise!Next]_(Promise!exchangeVars)
         => ExecutedIsAsked'
  BY DEF ExecutedIsAsked, Promise!Next, Promise!exchangeVars, Promise!Issue,
         Promise!Execute, Promise!Complete, Promise!Abandon
<1>3. LinkSpec => Promise!Spec
  BY LinkKeepsPromise DEF ImplementsExchange
<1> QED
  BY <1>1, <1>2, <1>3, PTL DEF Promise!Spec
=============================================================================
