-------------------------- MODULE HdlcLink_proofs ---------------------------
(***************************************************************************)
(* Proofs about HdlcLink, for every set of requests and answers, every way *)
(* to cut a request into segments, every medium capacity, and every number *)
(* of connections the meter drops.                                         *)
(***************************************************************************)
EXTENDS HdlcLink, Hdlc_proofs

USE DEF NoFrame

-----------------------------------------------------------------------------
(***************************************************************************)
(* First the numbers.  The invariant says what each frame under way is,    *)
(* seen from the client: a frame to the meter is the one outstanding or an *)
(* older one, a frame to the client answers the one outstanding (Fresh),   *)
(* repeats an older answer (Late), or carries no number (Other).           *)
(***************************************************************************)
Numbered == {"I", "RR"}

(* A frame of the client that asks for an answer. *)
Polls(f) == f.mine /\ f.poll /\ f.client = TheClient

Fresh(f) ==
    \/ /\ out.type = "I" /\ out.seg
       /\ f.type = "RR" /\ f.nr = Succ(c_vs)
    \/ /\ out.type = "I" /\ ~out.seg
       /\ f.type = "I" /\ f.ns = c_vr /\ f.nr = Succ(c_vs)
    \/ /\ out.type = "RR"
       /\ f.type = "I" /\ f.ns = c_vr /\ f.nr = c_vs

Late(f) ==
    \/ f.type = "RR" /\ f.nr = c_vs
    \/ f.type = "I" /\ f.ns = Pred(c_vr)

Other(f) == f.type \in {"UA", "DM", "UI"}

Old(f) ==
    \/ f.type = "I" /\ f.ns = Pred(c_vs)
    \/ f.type = "RR" /\ f.nr = Pred(c_vr)

(* The meter has accepted the frame outstanding. *)
Taken ==
    \/ out.type = "I" /\ dl_seq_Rto = Succ(c_vs)
    \/ out.type = "RR" /\ dl_seq_Sto = Succ(c_vr)

(* Beside what Hdlc_proofs shows of the meter alone. *)
MeterInv ==
    /\ IInv
    /\ tx_ext # NoFrame => tx_ext.type \in Numbered
    /\ amr_tx # NoFrame => amr_tx.type = "UI"

ClientTypes ==
    /\ peer \in {"off", "connecting", "on"}
    /\ c_vs \in 0..7 /\ c_vr \in 0..7
    /\ acked \in Nat
    /\ request \in Requests \cup {NoRequest}
    /\ out \in InFrame \cup {NoFrame}
    /\ up \in Seq(InFrame)
    /\ down \in Seq(OutFrame)

(* The frame outstanding, by the state of the connection. *)
OutInv ==
    /\ peer = "off" => out = NoFrame /\ request = NoRequest
    /\ peer = "connecting" => out = BlankFrame /\ request = NoRequest
    /\ peer = "on" => (out = NoFrame <=> request = NoRequest)
    /\ peer = "on" /\ out # NoFrame =>
          /\ out.type \in Numbered /\ Polls(out) /\ out.nr = c_vr
          /\ out.type = "I" => out.ns = c_vs
          /\ out.type = "RR" => ~out.seg

UpInv ==
    /\ peer = "off" => up = <<>>
    /\ peer = "connecting" =>
          Len(up) <= 1 /\ \A i \in 1..Len(up) : up[i] = BlankFrame
    /\ peer = "on" => \A i \in 1..Len(up) :
          /\ up[i].type \in Numbered /\ Polls(up[i])
          /\ up[i] = out \/ Old(up[i])
          /\ up[i] = out => \A j \in i..Len(up) : up[j] = out

DownInv ==
    /\ peer # "on" => \A i \in 1..Len(down) : Other(down[i])
    /\ peer = "on" => \A i \in 1..Len(down) :
          /\ Fresh(down[i]) \/ Late(down[i]) \/ Other(down[i])
          /\ Fresh(down[i]) =>
                /\ \A j \in i..Len(down) : ~Late(down[j])
                /\ \A j \in 1..Len(up) : up[j] = out

(* The answer to the SNRM finds a new connection. *)
FreshConnection ==
    /\ dl_conn_client_addr = TheClient
    /\ dl_tx_max_info = ClientMaxInfo
    /\ dl_seq_Rto = 0 /\ dl_seq_Sto = 0 /\ tx_ext = NoFrame

ConnectInv ==
    peer = "connecting" => \A i \in 1..Len(down) :
        down[i].type = "UA" =>
            up = <<>> /\ (dl_conn_state = "NRM" => FreshConnection)

(* A response tail is left, and a poll continues it with the right number. *)
MayContinue == TailLeft /\ dl_seq_Sfrom = Pred(dl_seq_Rto)

Awaiting ==
    /\ dl_seq_Rto = c_vs /\ dl_seq_Sto = c_vr
    /\ tx_ext = NoFrame \/ Late(tx_ext)
    /\ \A i \in 1..Len(down) : ~Fresh(down[i])
    /\ out.type = "RR" => MayContinue

Accepted ==
    /\ Fresh(tx_ext)
    /\ dl_seq_Rto = tx_ext.nr
    /\ dl_seq_Sto = IF tx_ext.type = "I" THEN Succ(c_vr) ELSE c_vr
    /\ \A i \in 1..Len(up) : up[i] = out
    /\ \A i \in 1..Len(down) : Fresh(down[i]) => down[i] = tx_ext
    /\ tx_ext.type = "I" /\ tx_ext.seg => MayContinue

InStep ==
    peer = "on" /\ dl_conn_state = "NRM" =>
        /\ dl_conn_client_addr = TheClient
        /\ dl_tx_max_info = ClientMaxInfo
        /\ IF Taken THEN Accepted ELSE Awaiting

LinkInv ==
    /\ MeterInv /\ ClientTypes
    /\ OutInv /\ UpInv /\ DownInv /\ ConnectInv /\ InStep
    /\ NeverRejected

-----------------------------------------------------------------------------
(* Arithmetic of the sequence numbers, and the ends of a sequence. *)
LEMMA Numbers ==
    ASSUME NEW n \in 0..7
    PROVE  /\ Succ(n) \in 0..7 /\ Pred(n) \in 0..7
           /\ Pred(Succ(n)) = n /\ Succ(Pred(n)) = n
           /\ Succ(n) # n /\ Pred(n) # n /\ Succ(n) # Pred(n)
BY DEF Succ, Pred

LEMMA TailOf ==
    ASSUME NEW S, NEW s \in Seq(S), s # <<>>
    PROVE  /\ Len(s) \in Nat /\ 1 \in 1..Len(s)
           /\ Head(s) = s[1] /\ Head(s) \in S
           /\ Tail(s) \in Seq(S)
           /\ \A i \in 1..Len(Tail(s)) :
                 i + 1 \in 1..Len(s) /\ Tail(s)[i] = s[i + 1]
OBVIOUS

LEMMA AppendOf ==
    ASSUME NEW S, NEW s \in Seq(S), NEW x \in S
    PROVE  /\ Append(s, x) \in Seq(S)
           /\ Len(Append(s, x)) = Len(s) + 1 /\ Len(s) \in Nat
           /\ Append(s, x)[Len(s) + 1] = x
           /\ \A i \in 1..Len(s) : Append(s, x)[i] = s[i]
OBVIOUS

(* The frames the client builds. *)
LEMMA BlankFrameType ==
    BlankFrame \in InFrame /\ BlankFrame.type = "SNRM" /\ Polls(BlankFrame)
<1>1. ClientMaxInfo \in Nat
  BY HdlcLinkAssumption
<1> QED
  BY <1>1, HdlcLinkAssumption DEF BlankFrame, InFrame, Nego, Polls

InfoPolls(f, vs, vr) ==
    Polls(f) /\ f.type = "I" /\ f.ns = vs /\ f.nr = vr

LEMMA SegmentType ==
    ASSUME NEW r \in Requests, NEW a \in Nat, NEW n \in SegmentLengths,
           NEW vs \in 0..7, NEW vr \in 0..7
    PROVE  /\ Segment(r, a, n, vs, vr) \in InFrame
           /\ InfoPolls(Segment(r, a, n, vs, vr), vs, vr)
<1>1. r \in Seq(Data) /\ n \in Nat \ {0}
  BY HdlcLinkAssumption
<1>2. SmallerOf(a + n, Len(r)) \in Nat /\ SmallerOf(a + n, Len(r)) <= Len(r)
  BY <1>1 DEF SmallerOf
<1>3. SubSeq(r, a + 1, SmallerOf(a + n, Len(r))) \in Seq(Data)
  BY <1>1, <1>2
<1>4. (SmallerOf(a + n, Len(r)) < Len(r)) \in BOOLEAN /\ (a = 0) \in BOOLEAN
  OBVIOUS
<1>5. ASSUME NEW s \in Seq(Data), NEW seg \in BOOLEAN, NEW llc \in BOOLEAN
      PROVE  LET f == [BlankFrame EXCEPT
                          !.type = "I", !.seg = seg, !.ns = vs,
                          !.nr = vr, !.llc = llc, !.info = s]
             IN  f \in InFrame /\ InfoPolls(f, vs, vr)
  <2> DEFINE f == [BlankFrame EXCEPT
                      !.type = "I", !.seg = seg, !.ns = vs,
                      !.nr = vr, !.llc = llc, !.info = s]
  <2>1. f \in InFrame
    BY BlankFrameType DEF InFrame
  <2>2. InfoPolls(f, vs, vr)
    BY DEF BlankFrame, Polls, InfoPolls
  <2> QED
    BY <2>1, <2>2
<1> QED
  BY <1>3, <1>4, <1>5 DEF Segment

LEMMA PollType ==
    ASSUME NEW vr \in 0..7
    PROVE  /\ Poll(vr) \in InFrame /\ Polls(Poll(vr))
           /\ Poll(vr).type = "RR" /\ Poll(vr).nr = vr /\ ~Poll(vr).seg
BY BlankFrameType DEF Poll, BlankFrame, InFrame, Polls

-----------------------------------------------------------------------------
(* Steps of the client.  The meter is left alone. *)
LEMMA MeterUnchanged ==
    ASSUME LinkInv, UNCHANGED vars
    PROVE  MeterInv' /\ NeverRejected'
<1>1. IInv'
  BY NextIInv DEF LinkInv, MeterInv
<1> QED
  BY <1>1
     DEF LinkInv, MeterInv, NeverRejected, vars, linkVars, extVars

LEMMA ConnectStep ==
    ASSUME LinkInv, Connect
    PROVE  LinkInv'
<1> USE DEF LinkInv, Connect, Send, Silent
<1>1. MeterInv' /\ NeverRejected'
  BY MeterUnchanged
<1>2. up' = <<BlankFrame>> /\ down' = <<>> /\ out' = BlankFrame
  OBVIOUS
<1>3. ClientTypes'
  BY <1>2, BlankFrameType DEF ClientTypes
<1>4. OutInv'
  BY DEF OutInv
<1>5. UpInv'
  BY <1>2 DEF UpInv
<1>6. DownInv' /\ ConnectInv'
  BY <1>2 DEF DownInv, ConnectInv
<1>7. InStep'
  BY DEF InStep
<1> QED
  BY ONLY <1>1, <1>3, <1>4, <1>5, <1>6, <1>7 DEF LinkInv

LEMMA GiveUpStep ==
    ASSUME LinkInv, GiveUp
    PROVE  LinkInv'
<1> USE DEF LinkInv, GiveUp, Silent, mediumVars
<1>1. MeterInv' /\ NeverRejected'
  BY MeterUnchanged
<1>2. ClientTypes'
  BY DEF ClientTypes
<1>3. OutInv' /\ UpInv' /\ DownInv' /\ ConnectInv' /\ InStep'
  BY DEF OutInv, UpInv, DownInv, ConnectInv, InStep
<1> QED
  BY <1>1, <1>2, <1>3

(* No frame asks for an answer when no request is under way. *)
LEMMA NothingOutstanding ==
    ASSUME LinkInv, peer = "on", request = NoRequest
    PROVE  /\ out = NoFrame
           /\ ~Taken /\ \A f : ~Fresh(f)
           /\ \A i \in 1..Len(up) : Old(up[i])
BY DEF LinkInv, OutInv, UpInv, Taken, Fresh, Numbered

(* No answer to the new request is under way yet. *)
LEMMA IssueDown ==
    ASSUME LinkInv, peer = "on", request = NoRequest,
           UNCHANGED <<c_vs, c_vr, down>>,
           out'.type = "I"
    PROVE  \A i \in 1..Len(down) :
             /\ ~Fresh(down[i])'
             /\ Late(down[i])' \/ Other(down[i])'
<1>1. \A i \in 1..Len(down) : Late(down[i]) \/ Other(down[i])
  BY NothingOutstanding DEF LinkInv, DownInv
<1> QED
  BY <1>1, Numbers DEF Late, Other, Fresh, LinkInv, ClientTypes

LEMMA IssueStep ==
    ASSUME LinkInv, NEW r \in Requests, Issue(r)
    PROVE  LinkInv'
<1>1. PICK n \in SegmentLengths : Send(Segment(r, 0, n, c_vs, c_vr))
  BY DEF Issue
<1> DEFINE s == Segment(r, 0, n, c_vs, c_vr)
<1> HIDE DEF s
<1>2. /\ s \in InFrame /\ Polls(s)
      /\ s.type = "I" /\ s.ns = c_vs /\ s.nr = c_vr
  <2>1. c_vs \in 0..7 /\ c_vr \in 0..7 /\ 0 \in Nat
    BY DEF LinkInv, ClientTypes
  <2>2. s \in InFrame /\ InfoPolls(s, c_vs, c_vr)
    BY <2>1, SegmentType DEF s
  <2> QED
    BY <2>2 DEF InfoPolls
<1>3. /\ peer = "on" /\ request = NoRequest /\ request' = r
      /\ out' = s /\ up' = Append(up, s)
      /\ UNCHANGED <<peer, c_vs, c_vr, down, vars>>
  BY <1>1 DEF Issue, Send, s
<1>4. /\ MeterInv' /\ NeverRejected'
  BY <1>3, MeterUnchanged
<1>5. /\ up' \in Seq(InFrame) /\ Len(up') = Len(up) + 1 /\ Len(up) \in Nat
      /\ up'[Len(up) + 1] = s /\ \A i \in 1..Len(up) : up'[i] = up[i]
  BY <1>2, <1>3, AppendOf DEF LinkInv, ClientTypes
<1>6. ClientTypes'
  BY <1>2, <1>3, <1>5 DEF LinkInv, ClientTypes, Issue
<1>7. OutInv'
  BY <1>2, <1>3, HdlcLinkAssumption DEF OutInv, Numbered, Polls
<1>8. UpInv'
  <2>1. \A i \in 1..Len(up) : Old(up[i]) /\ up[i] # s
    BY <1>2, NothingOutstanding, <1>3, Numbers
       DEF Old, LinkInv, ClientTypes
  <2> QED
    BY <1>2, <1>3, <1>5, <2>1 DEF LinkInv, UpInv, Old, Numbered, Polls
<1>9. \A i \in 1..Len(down) :
        /\ ~Fresh(down[i])'
        /\ Late(down[i])' \/ Other(down[i])'
  BY <1>2, <1>3, IssueDown
<1>10. DownInv' /\ ConnectInv'
  BY <1>3, <1>9 DEF DownInv, ConnectInv
<1>11. InStep'
  <2>1. dl_conn_state = "NRM" =>
           /\ dl_conn_client_addr = TheClient
           /\ dl_tx_max_info = ClientMaxInfo
           /\ Awaiting
    BY <1>3, NothingOutstanding DEF LinkInv, InStep
  <2>2. dl_conn_state = "NRM" => ~Taken'
    BY <1>2, <1>3, <2>1, Numbers
       DEF Taken, Awaiting, LinkInv, ClientTypes, vars, seqVars
  <2>3. dl_conn_state = "NRM" => Awaiting'
    BY <1>2, <1>3, <1>9, <2>1
       DEF Awaiting, Late, vars, seqVars, extVars
  <2> QED
    BY <1>3, <2>1, <2>2, <2>3 DEF InStep, vars, linkVars, parseVars
<1> QED
  BY <1>4, <1>6, <1>7, <1>8, <1>10, <1>11 DEF LinkInv

LEMMA RetransmitStep ==
    ASSUME LinkInv, Retransmit
    PROVE  LinkInv'
<1>1. /\ out # NoFrame /\ up' = Append(up, out)
      /\ UNCHANGED <<peer, c_vs, c_vr, request, acked, out, down, vars>>
  BY DEF Retransmit, Send
<1>2. MeterInv' /\ NeverRejected'
  BY <1>1, MeterUnchanged
<1>3. /\ up' \in Seq(InFrame) /\ Len(up') = Len(up) + 1 /\ Len(up) \in Nat
      /\ up'[Len(up) + 1] = out /\ \A i \in 1..Len(up) : up'[i] = up[i]
  BY <1>1, AppendOf DEF LinkInv, ClientTypes
<1>4. ClientTypes'
  BY <1>1, <1>3 DEF LinkInv, ClientTypes
<1>5. OutInv'
  BY <1>1 DEF LinkInv, OutInv, Polls
<1>6. peer = "connecting" => up = <<>> /\ down = <<>> /\ out = BlankFrame
  BY DEF Retransmit, Silent, LinkInv, OutInv
<1>7. UpInv'
  <2>1. CASE peer = "connecting"
    BY <1>1, <1>3, <1>6, <2>1 DEF UpInv
  <2>2. CASE peer = "on"
    BY <1>1, <1>3, <2>2 DEF LinkInv, OutInv, UpInv, Old, Polls
  <2>3. CASE peer = "off"
    BY <1>1, <2>3 DEF LinkInv, OutInv
  <2> QED
    BY <2>1, <2>2, <2>3 DEF LinkInv, ClientTypes
<1>8. DownInv'
  BY <1>1, <1>3 DEF LinkInv, DownInv, Fresh, Late, Other
<1>9. ConnectInv'
  BY <1>1, <1>6 DEF ConnectInv
<1>10. InStep'
  BY <1>1, <1>3
     DEF LinkInv, InStep, Taken, Accepted, Awaiting, Fresh, Late, MayContinue,
         TailLeft, vars, linkVars, seqVars, segVars, extVars, parseVars
<1> QED
  BY <1>2, <1>4, <1>5, <1>7, <1>8, <1>9, <1>10 DEF LinkInv

(* A frame lost, and a frame the client ignores. *)
LEMMA DropUpStep ==
    ASSUME LinkInv, up # <<>>, up' = Tail(up),
           UNCHANGED <<vars, clientVars, down>>
    PROVE  LinkInv'
<1>1. /\ up' \in Seq(InFrame) /\ Len(up) \in Nat /\ Len(up') = Len(up) - 1
      /\ \A i \in 1..Len(up') : i + 1 \in 1..Len(up) /\ up'[i] = up[i + 1]
  BY TailOf DEF LinkInv, ClientTypes
<1>2. MeterInv' /\ NeverRejected'
  BY MeterUnchanged
<1>3. UNCHANGED <<peer, c_vs, c_vr, request, acked, out>>
  BY DEF clientVars
<1>4. ClientTypes' /\ OutInv'
  BY <1>1, <1>3 DEF LinkInv, ClientTypes, OutInv, Polls
<1>5. UpInv'
  BY <1>1, <1>3 DEF LinkInv, ClientTypes, UpInv, Old, Polls
<1>6. DownInv'
  BY <1>1, <1>3 DEF LinkInv, DownInv, Fresh, Late, Other
<1>7. ConnectInv'
  BY <1>1, <1>3
     DEF LinkInv, ConnectInv, FreshConnection, vars, linkVars, seqVars,
         extVars, parseVars
<1>8. InStep'
  BY <1>1, <1>3
     DEF LinkInv, InStep, Taken, Accepted, Awaiting, Fresh, Late, MayContinue,
         TailLeft, vars, linkVars, seqVars, segVars, extVars, parseVars
<1> QED
  BY <1>2, <1>4, <1>5, <1>6, <1>7, <1>8 DEF LinkInv

LEMMA DropDownStep ==
    ASSUME LinkInv, down # <<>>, down' = Tail(down),
           UNCHANGED <<vars, clientVars, up>>
    PROVE  LinkInv'
<1>1. /\ down' \in Seq(OutFrame) /\ Len(down) \in Nat
      /\ Len(down') = Len(down) - 1
      /\ \A i \in 1..Len(down') :
            i + 1 \in 1..Len(down) /\ down'[i] = down[i + 1]
  BY TailOf DEF LinkInv, ClientTypes
<1>2. MeterInv' /\ NeverRejected'
  BY MeterUnchanged
<1>3. UNCHANGED <<peer, c_vs, c_vr, request, acked, out>>
  BY DEF clientVars
<1>4. ClientTypes' /\ OutInv'
  BY <1>1, <1>3 DEF LinkInv, ClientTypes, OutInv, Polls
<1>5. UpInv'
  BY <1>1, <1>3 DEF LinkInv, ClientTypes, UpInv, Old, Polls
<1>6. DownInv'
  BY <1>1, <1>3 DEF LinkInv, DownInv, Fresh, Late, Other
<1>7. ConnectInv'
  BY <1>1, <1>3
     DEF LinkInv, ConnectInv, FreshConnection, vars, linkVars, seqVars,
         extVars, parseVars
<1>8. InStep'
  BY <1>1, <1>3
     DEF LinkInv, InStep, Taken, Accepted, Awaiting, Fresh, Late, MayContinue,
         TailLeft, vars, linkVars, seqVars, segVars, extVars, parseVars
<1> QED
  BY <1>2, <1>4, <1>5, <1>6, <1>7, <1>8 DEF LinkInv

LEMMA ConnectedStep ==
    ASSUME LinkInv, down # <<>>, down' = Tail(down), Connected(Head(down)),
           UNCHANGED vars
    PROVE  LinkInv'
<1>1. /\ down' \in Seq(OutFrame) /\ Len(down) \in Nat
      /\ Len(down') = Len(down) - 1 /\ 1 \in 1..Len(down)
      /\ Head(down) = down[1]
      /\ \A i \in 1..Len(down') :
            i + 1 \in 1..Len(down) /\ down'[i] = down[i + 1]
  BY TailOf DEF LinkInv, ClientTypes
<1>2. MeterInv' /\ NeverRejected'
  BY MeterUnchanged
<1>3. /\ peer = "connecting" /\ down[1].type = "UA"
      /\ peer' = "on" /\ c_vs' = 0 /\ c_vr' = 0 /\ out' = NoFrame
      /\ UNCHANGED <<request, acked, up>>
  BY <1>1 DEF Connected
<1>4. up = <<>> /\ (dl_conn_state = "NRM" => FreshConnection)
  BY <1>1, <1>3 DEF LinkInv, ConnectInv
<1>5. ClientTypes' /\ OutInv' /\ UpInv' /\ ConnectInv'
  BY <1>1, <1>3, <1>4
     DEF LinkInv, ClientTypes, OutInv, UpInv, ConnectInv
<1>6. \A i \in 1..Len(down') : Other(down[i + 1]) /\ ~Fresh(down[i])'
  BY <1>1, <1>3 DEF LinkInv, DownInv, Other, Fresh
<1>7. DownInv'
  BY <1>1, <1>3, <1>6 DEF DownInv, Other
<1>8. InStep'
  BY <1>3, <1>4, <1>6
     DEF InStep, Taken, Awaiting, FreshConnection, vars, linkVars, seqVars,
         extVars, parseVars
<1> QED
  BY <1>2, <1>5, <1>7, <1>8 DEF LinkInv

(* What the answer to the frame outstanding tells of the meter. *)
LEMMA FreshReceived ==
    ASSUME LinkInv, peer = "on", down # <<>>, Fresh(down[1])
    PROVE  /\ out # NoFrame /\ request # NoRequest /\ request \in Requests
           /\ \A j \in 1..Len(up) : up[j] = out
           /\ \A i \in 1..Len(down) : Fresh(down[i]) \/ Other(down[i])
           /\ dl_conn_state = "NRM" =>
                 /\ dl_conn_client_addr = TheClient
                 /\ dl_tx_max_info = ClientMaxInfo
                 /\ Accepted /\ tx_ext = down[1]
<1>1. 1 \in 1..Len(down)
  BY TailOf DEF LinkInv, ClientTypes
<1>2. out # NoFrame /\ request # NoRequest /\ request \in Requests
  BY DEF Fresh, LinkInv, OutInv, ClientTypes
<1>3. \A j \in 1..Len(up) : up[j] = out
  BY <1>1 DEF LinkInv, DownInv
<1>4. \A i \in 1..Len(down) : Fresh(down[i]) \/ Other(down[i])
  BY <1>1 DEF LinkInv, DownInv
<1>5. dl_conn_state = "NRM" => Taken
  BY <1>1 DEF LinkInv, InStep, Awaiting
<1> QED
  BY <1>1, <1>2, <1>3, <1>4, <1>5 DEF LinkInv, InStep, Accepted

(* The client goes on after an answer: g is its next frame, or none. *)
GoesOn(f, g) ==
    /\ c_vs' = f.nr /\ c_vr' = (IF f.type = "I" THEN Succ(c_vr) ELSE c_vr)
    /\ acked' \in Nat /\ out' = g /\ UNCHANGED peer
    /\ \/ g = NoFrame /\ request' = NoRequest /\ UNCHANGED up
       \/ /\ g \in InFrame /\ Polls(g) /\ UNCHANGED request
          /\ up' = Append(up, g) /\ g.nr = c_vr'
          /\ \/ g.type = "I" /\ g.ns = c_vs'
             \/ g.type = "RR" /\ ~g.seg /\ f.type = "I" /\ f.seg

LEMMA GoesOnFacts ==
    ASSUME LinkInv, peer = "on", down # <<>>, down' = Tail(down),
           Fresh(down[1]), UNCHANGED vars, NEW g, GoesOn(down[1], g)
    PROVE  /\ down' \in Seq(OutFrame) /\ Len(down) \in Nat
           /\ \A i \in 1..Len(down') :
                 i + 1 \in 1..Len(down) /\ down'[i] = down[i + 1]
           /\ down[1] \in OutFrame
           /\ c_vs' \in 0..7 /\ c_vr' \in 0..7 /\ peer' = "on" /\ out' = g
           /\ c_vs' = down[1].nr
           /\ c_vr' = IF down[1].type = "I" THEN Succ(c_vr) ELSE c_vr
           /\ \/ g = NoFrame /\ up' = up
              \/ /\ g \in InFrame /\ Polls(g)
                 /\ up' \in Seq(InFrame) /\ Len(up) \in Nat
                 /\ Len(up') = Len(up) + 1
                 /\ up'[Len(up) + 1] = g
                 /\ \A i \in 1..Len(up) : up'[i] = up[i]
                 /\ g.nr = c_vr' /\ g.type \in Numbered
                 /\ g.type = "I" => g.ns = c_vs'
                 /\ g.type = "RR" => ~g.seg /\ down[1].type = "I" /\ down[1].seg
           /\ \A i \in 1..Len(down') :
                 ~Fresh(down[i])' /\ (Late(down[i])' \/ Other(down[i])')
           /\ dl_conn_state = "NRM" =>
                 /\ dl_conn_client_addr = TheClient
                 /\ dl_tx_max_info = ClientMaxInfo
                 /\ Accepted /\ tx_ext = down[1]
                 /\ dl_seq_Rto = c_vs' /\ dl_seq_Sto = c_vr'
                 /\ Taken /\ ~Taken'
<1>1. /\ down' \in Seq(OutFrame) /\ Len(down) \in Nat
      /\ Len(down') = Len(down) - 1 /\ 1 \in 1..Len(down)
      /\ \A i \in 1..Len(down') :
            i + 1 \in 1..Len(down) /\ down'[i] = down[i + 1]
  BY TailOf DEF LinkInv, ClientTypes
<1> DEFINE f == down[1]
<1>3. f \in OutFrame /\ Fresh(f)
  BY <1>1 DEF LinkInv, ClientTypes
<1> HIDE DEF f
<1>4. /\ c_vs' \in 0..7 /\ c_vr' \in 0..7 /\ peer' = "on"
      /\ c_vs' = f.nr /\ out' = g
      /\ c_vr' = IF f.type = "I" THEN Succ(c_vr) ELSE c_vr
  BY <1>3, Numbers DEF f, GoesOn, OutFrame, LinkInv, ClientTypes
<1>5. \/ g = NoFrame /\ up' = up
      \/ /\ g \in InFrame /\ Polls(g)
         /\ up' \in Seq(InFrame) /\ Len(up) \in Nat /\ Len(up') = Len(up) + 1
         /\ up'[Len(up) + 1] = g /\ \A i \in 1..Len(up) : up'[i] = up[i]
         /\ g.nr = c_vr' /\ g.type \in Numbered
         /\ g.type = "I" => g.ns = c_vs'
         /\ g.type = "RR" => ~g.seg /\ f.type = "I" /\ f.seg
  <2>1. up \in Seq(InFrame)
    BY DEF LinkInv, ClientTypes
  <2>2. g \in InFrame =>
          /\ Append(up, g) \in Seq(InFrame) /\ Len(up) \in Nat
          /\ Len(Append(up, g)) = Len(up) + 1
          /\ Append(up, g)[Len(up) + 1] = g
          /\ \A i \in 1..Len(up) : Append(up, g)[i] = up[i]
    BY <2>1, AppendOf
  <2> QED
    BY <2>2 DEF GoesOn, Numbered, f
<1>10. \A i \in 1..Len(down') :
         ~Fresh(down[i])' /\ (Late(down[i])' \/ Other(down[i])')
  <2>1. \A i \in 1..Len(down) : Fresh(down[i]) \/ Other(down[i])
    BY FreshReceived
  <2>2. /\ Succ(c_vs) # c_vs /\ Succ(c_vr) # c_vr
        /\ Pred(Succ(c_vr)) = c_vr
    BY Numbers DEF LinkInv, ClientTypes
  <2>3. Succ(c_vs') # c_vs' /\ Pred(c_vr') # c_vr'
    BY <1>4, Numbers
  <2>4. out' = g
    BY DEF GoesOn
  <2>5. ASSUME NEW i \in 1..Len(down)
        PROVE  \/ Other(down[i])
               \/ down[i].type = "RR" /\ down[i].nr = c_vs'
               \/ down[i].type = "I" /\ down[i].ns = Pred(c_vr')
    BY <1>3, <1>4, <2>1, <2>2 DEF Fresh
  <2>6. ASSUME NEW i \in 1..Len(down')
        PROVE  Late(down[i])' \/ Other(down[i])'
    BY <1>1, <2>5 DEF Late, Other
  <2>7. ASSUME NEW i \in 1..Len(down')
        PROVE  ~Fresh(down[i])'
    <3>1. g.type = "RR" => f.type = "I"
      BY <1>5
    <3> QED
      BY <2>3, <2>6, <3>1, <1>3, <1>4, <2>4
         DEF Fresh, Late, Other
  <2> QED
    BY <2>6, <2>7
<1>12. ASSUME dl_conn_state = "NRM"
       PROVE  /\ dl_conn_client_addr = TheClient
              /\ dl_tx_max_info = ClientMaxInfo
              /\ Accepted /\ tx_ext = f
              /\ dl_seq_Rto = c_vs' /\ dl_seq_Sto = c_vr'
              /\ Taken /\ ~Taken'
  <2>1. /\ dl_conn_client_addr = TheClient
        /\ dl_tx_max_info = ClientMaxInfo
        /\ Accepted /\ tx_ext = f
    BY <1>12, FreshReceived DEF f
  <2>2. UNCHANGED <<dl_seq_Rto, dl_seq_Sto>>
    BY DEF vars, seqVars
  <2>3. dl_seq_Rto = c_vs' /\ dl_seq_Sto = c_vr'
    BY <1>4, <2>1 DEF Accepted
  <2>4. out' = g /\ Succ(c_vs') # c_vs' /\ Succ(c_vr') # c_vr'
    BY <1>4, Numbers DEF GoesOn
  <2>5. ~Taken'
    BY <2>2, <2>3, <2>4 DEF Taken
  <2>6. Taken
    BY <1>3, <1>4, <2>1, <2>3 DEF Accepted, Fresh, Taken
  <2> QED
    BY <2>1, <2>3, <2>5, <2>6
<1> QED
  BY <1>1, <1>3, <1>4, <1>5, <1>10, <1>12 DEF f

LEMMA GoesOnStep ==
    ASSUME LinkInv, peer = "on", down # <<>>, down' = Tail(down),
           Fresh(down[1]), UNCHANGED vars, NEW g, GoesOn(down[1], g)
    PROVE  LinkInv'
<1> DEFINE f == down[1]
<1> HIDE DEF f
<1>1. /\ down' \in Seq(OutFrame) /\ Len(down) \in Nat
      /\ \A i \in 1..Len(down') :
            i + 1 \in 1..Len(down) /\ down'[i] = down[i + 1]
  BY GoesOnFacts
<1>2. MeterInv' /\ NeverRejected'
  BY MeterUnchanged
<1>3. f \in OutFrame /\ Fresh(f)
  BY GoesOnFacts DEF f
<1>4. /\ c_vs' \in 0..7 /\ c_vr' \in 0..7 /\ peer' = "on" /\ out' = g
      /\ c_vs' = f.nr
      /\ c_vr' = IF f.type = "I" THEN Succ(c_vr) ELSE c_vr
  BY GoesOnFacts DEF f
<1>5. \/ g = NoFrame /\ up' = up
      \/ /\ g \in InFrame /\ Polls(g)
         /\ up' \in Seq(InFrame) /\ Len(up) \in Nat /\ Len(up') = Len(up) + 1
         /\ up'[Len(up) + 1] = g /\ \A i \in 1..Len(up) : up'[i] = up[i]
         /\ g.nr = c_vr' /\ g.type \in Numbered
         /\ g.type = "I" => g.ns = c_vs'
         /\ g.type = "RR" => ~g.seg /\ f.type = "I" /\ f.seg
  BY GoesOnFacts DEF f
<1>6. ClientTypes'
  BY <1>1, <1>4, <1>5 DEF GoesOn, LinkInv, ClientTypes
<1>7. OutInv'
  BY <1>4, <1>5, FreshReceived DEF GoesOn, OutInv, Polls
<1>8. \A j \in 1..Len(up) :
        /\ up[j].type \in Numbered /\ Polls(up[j])
        /\ \/ up[j].type = "I" /\ up[j].ns = Pred(c_vs')
           \/ up[j].type = "RR" /\ up[j].nr = Pred(c_vr')
  <2>1. /\ out.type \in Numbered /\ Polls(out) /\ out.nr = c_vr
        /\ out.type = "I" => out.ns = c_vs
    BY FreshReceived DEF LinkInv, OutInv
  <2>2. \/ out.type = "I" /\ out.ns = Pred(c_vs')
        \/ out.type = "RR" /\ out.nr = Pred(c_vr')
    BY <1>3, <1>4, <2>1, Numbers
       DEF Fresh, LinkInv, ClientTypes, Numbered
  <2>3. \A j \in 1..Len(up) : up[j] = out
    BY FreshReceived
  <2> QED
    BY <2>1, <2>2, <2>3
<1>9. UpInv'
  <2>1. CASE g = NoFrame /\ up' = up
    BY <1>4, <1>8, <2>1 DEF GoesOn, UpInv, Old, Polls, Numbered
  <2>2. CASE g # NoFrame
    <3>1. \A j \in 1..Len(up) : up[j] # g
      <4>1. Pred(c_vs') # c_vs' /\ Pred(c_vr') # c_vr'
        BY <1>4, Numbers
      <4> QED
        BY <1>5, <1>8, <2>2, <4>1 DEF Numbered
    <3>2. out' = g
      BY DEF GoesOn
    <3>3. ASSUME NEW i \in 1..Len(up')
          PROVE  \/ i = Len(up) + 1 /\ up'[i] = g
                 \/ i \in 1..Len(up) /\ up'[i] = up[i]
      BY <1>5, <2>2
    <3>4. ASSUME NEW i \in 1..Len(up')
          PROVE  /\ up'[i].type \in Numbered /\ Polls(up'[i])
                 /\ \/ up'[i] = g
                    \/ up'[i].type = "I" /\ up'[i].ns = Pred(c_vs')
                    \/ up'[i].type = "RR" /\ up'[i].nr = Pred(c_vr')
                 /\ up'[i] = g => i = Len(up) + 1
      BY <1>5, <1>8, <2>2, <3>1, <3>3
    <3>5. ASSUME NEW i \in 1..Len(up'), up'[i] = g, NEW j \in i..Len(up')
          PROVE  up'[j] = g
      BY <1>5, <2>2, <3>4, <3>5
    <3> QED
      BY ONLY <1>4, <3>2, <3>4, <3>5 DEF UpInv, Old, Polls
  <2> QED
    BY <1>5, <2>1, <2>2 DEF Numbered
<1>10. \A i \in 1..Len(down') :
         ~Fresh(down[i])' /\ (Late(down[i])' \/ Other(down[i])')
  BY GoesOnFacts
<1>11. DownInv' /\ ConnectInv'
  BY <1>1, <1>4, <1>10 DEF DownInv, ConnectInv, Late, Other
<1>12. InStep'
  <2> SUFFICES ASSUME dl_conn_state = "NRM"
               PROVE  InStep'
    BY DEF InStep, vars, linkVars
  <2>1. /\ dl_conn_client_addr = TheClient
        /\ dl_tx_max_info = ClientMaxInfo
        /\ Accepted /\ tx_ext = f
        /\ dl_seq_Rto = c_vs' /\ dl_seq_Sto = c_vr' /\ ~Taken'
    BY GoesOnFacts DEF f
  <2>2. UNCHANGED <<dl_conn_client_addr, dl_tx_max_info, dl_seq_Rto, dl_seq_Sto,
                    dl_seq_Sfrom, dl_seg_frame_len, dl_seg_frame_offs, tx_ext>>
    BY DEF vars, linkVars, seqVars, segVars, extVars, parseVars
  <2>3. Late(tx_ext)'
    <3>1. Pred(Succ(c_vr)) = c_vr
      BY Numbers DEF LinkInv, ClientTypes
    <3> QED
      BY <1>3, <1>4, <2>1, <2>2, <3>1 DEF Fresh, Late
  <2>4. g.type = "RR" => MayContinue'
    BY <1>5, <2>1, <2>2 DEF Accepted, MayContinue, TailLeft
  <2>5. Awaiting'
    BY <1>4, <1>10, <2>1, <2>2, <2>3, <2>4 DEF Awaiting
  <2> QED
    BY <2>1, <2>2, <2>5 DEF InStep
<1> QED
  BY <1>2, <1>6, <1>7, <1>9, <1>11, <1>12 DEF LinkInv

(* The next segment follows the one acknowledged. *)
LEMMA SegmentAcknowledgedGoesOn ==
    ASSUME LinkInv, down # <<>>, SegmentAcknowledged(Head(down))
    PROVE  /\ peer = "on" /\ out.type = "I" /\ out.seg
           /\ Fresh(down[1]) /\ down[1].type = "RR"
           /\ request \in Requests /\ acked + Len(out.info) \in Nat
           /\ acked' = acked + Len(out.info)
           /\ UNCHANGED <<request, collected, answer>>
           /\ \E n \in SegmentLengths :
                 GoesOn(down[1], Segment(request, acked + Len(out.info), n,
                                         Succ(c_vs), c_vr))
<1>1. Head(down) = down[1] /\ down[1] \in OutFrame
  BY TailOf DEF LinkInv, ClientTypes
<1> DEFINE f == down[1]
           a == acked + Len(out.info)
<1> HIDE DEF f, a
<1>2. /\ peer = "on" /\ out.type = "I" /\ out.seg
      /\ f.type = "RR" /\ f.nr = Succ(c_vs) /\ c_vs' = Succ(c_vs)
      /\ acked' = a /\ UNCHANGED <<peer, c_vr, request>>
  BY <1>1 DEF SegmentAcknowledged, f, a
<1>3. PICK n \in SegmentLengths : Send(Segment(request, a, n, Succ(c_vs), c_vr))
  BY DEF SegmentAcknowledged, a
<1>4. Fresh(f)
  BY <1>2 DEF Fresh
<1>5. request \in Requests /\ a \in Nat
  <2>1. request \in Requests /\ out # NoFrame
    BY <1>2, <1>4, FreshReceived DEF f
  <2>2. out.info \in Seq(Data) /\ acked \in Nat
    BY <2>1 DEF LinkInv, ClientTypes, InFrame
  <2> QED
    BY <2>1, <2>2 DEF a
<1>6. c_vs \in 0..7 /\ c_vr \in 0..7 /\ Succ(c_vs) \in 0..7
  BY Numbers DEF LinkInv, ClientTypes
<1> DEFINE g == Segment(request, a, n, Succ(c_vs), c_vr)
<1> HIDE DEF g
<1>7. g \in InFrame /\ InfoPolls(g, Succ(c_vs), c_vr)
  BY <1>5, <1>6, SegmentType DEF g
<1>8. out' = g /\ up' = Append(up, g)
  BY <1>3 DEF Send, g
<1>9. GoesOn(f, g)
  BY <1>2, <1>5, <1>7, <1>8 DEF GoesOn, InfoPolls
<1>10. UNCHANGED <<collected, answer>>
  BY DEF SegmentAcknowledged
<1> QED
  BY <1>2, <1>4, <1>5, <1>9, <1>10 DEF f, g, a

(* A poll follows a part of the answer, and nothing the end of it. *)
LEMMA AnsweredGoesOn ==
    ASSUME LinkInv, down # <<>>, Answered(Head(down))
    PROVE  /\ peer = "on" /\ Fresh(down[1]) /\ down[1].type = "I"
           /\ \/ /\ down[1].seg /\ GoesOn(down[1], Poll(Succ(c_vr)))
                 /\ collected' = collected \o down[1].info
                 /\ UNCHANGED <<request, answer>>
              \/ /\ ~down[1].seg /\ GoesOn(down[1], NoFrame)
                 /\ answer' = collected \o down[1].info /\ collected' = <<>>
                 /\ request' = NoRequest
<1>1. Head(down) = down[1]
  BY TailOf DEF LinkInv, ClientTypes
<1> DEFINE f == down[1]
<1> HIDE DEF f
<1>2. /\ peer = "on" /\ f.type = "I" /\ f.ns = c_vr
      /\ \/ out.type = "I" /\ ~out.seg /\ f.nr = Succ(c_vs)
         \/ out.type = "RR" /\ f.nr = c_vs
      /\ c_vs' = f.nr /\ c_vr' = Succ(c_vr) /\ acked' = 0
      /\ UNCHANGED peer
  BY <1>1 DEF Answered, f
<1>3. \/ /\ f.seg /\ Send(Poll(Succ(c_vr)))
         /\ collected' = collected \o f.info /\ UNCHANGED <<request, answer>>
      \/ /\ ~f.seg /\ request' = NoRequest /\ out' = NoFrame /\ UNCHANGED up
         /\ answer' = collected \o f.info /\ collected' = <<>>
  BY <1>1 DEF Answered, f
<1>4. Fresh(f)
  BY <1>2 DEF Fresh
<1>5. CASE /\ f.seg /\ Send(Poll(Succ(c_vr)))
           /\ collected' = collected \o f.info /\ UNCHANGED <<request, answer>>
  <2> DEFINE g == Poll(Succ(c_vr))
  <2> HIDE DEF g
  <2>1. Succ(c_vr) \in 0..7
    BY Numbers DEF LinkInv, ClientTypes
  <2>2. /\ g \in InFrame /\ Polls(g)
        /\ g.type = "RR" /\ g.nr = Succ(c_vr) /\ ~g.seg
    BY <2>1, PollType DEF g
  <2>3. GoesOn(f, g)
    BY <1>2, <1>5, <2>2 DEF GoesOn, Send, g
  <2> QED
    BY <1>2, <1>4, <1>5, <2>3 DEF f, g
<1>6. CASE /\ ~f.seg /\ request' = NoRequest /\ out' = NoFrame /\ UNCHANGED up
           /\ answer' = collected \o f.info /\ collected' = <<>>
  <2>1. GoesOn(f, NoFrame)
    BY <1>2, <1>6 DEF GoesOn
  <2> QED
    BY <1>2, <1>4, <1>6, <2>1 DEF f
<1> QED
  BY <1>3, <1>5, <1>6

LEMMA ClientRcvStep ==
    ASSUME LinkInv, ClientRcv
    PROVE  LinkInv'
<1>1. down # <<>> /\ down' = Tail(down) /\ UNCHANGED vars
  BY DEF ClientRcv
<1>2. CASE Connected(Head(down))
  BY <1>1, <1>2, ConnectedStep
<1>3. CASE SegmentAcknowledged(Head(down))
  BY <1>1, <1>3, SegmentAcknowledgedGoesOn, GoesOnStep
<1>4. CASE Answered(Head(down))
  BY <1>1, <1>4, AnsweredGoesOn, GoesOnStep
<1>5. CASE UNCHANGED <<clientVars, up>>
  BY <1>1, <1>5, DropDownStep
<1> QED
  BY <1>2, <1>3, <1>4, <1>5 DEF ClientRcv

-----------------------------------------------------------------------------
(* What the meter makes of a frame, seen from outside: it sends a new frame *)
(* and keeps it, or keeps what it had.                                      *)
LEMMA EmitPolled ==
    ASSUME NEW f \in InFrame, FrameParse(f), f.poll, NEW r, Emit(r)
    PROVE  wire' = r /\ amr_tx' = NoFrame
BY DEF FrameParse, Emit

(* An RR sent. *)
LEMMA SendRREffect ==
    ASSUME NEW f \in InFrame, FrameParse(f), f.poll, NEW n, SendRR(f, n)
    PROVE  /\ dl_seq_Rto' = Succ(n) /\ dl_seq_Sto' = dl_seq_Sto
           /\ tx_ext'.type = "RR" /\ tx_ext'.nr = Succ(n)
           /\ wire' = tx_ext' /\ amr_tx' = NoFrame
BY EmitPolled DEF SendRR, Answer

(* An I frame sent. *)
LEMMA SendInfoEffect ==
    ASSUME NEW f \in InFrame, FrameParse(f), f.poll, NEW n, NEW seg, NEW info,
           SendInfo(f, n, seg, info)
    PROVE  /\ dl_seq_Rto' = Succ(n) /\ dl_seq_Sto' = Succ(dl_seq_Sto)
           /\ tx_ext'.type = "I" /\ tx_ext'.nr = Succ(n)
           /\ tx_ext'.ns = dl_seq_Sto /\ tx_ext'.seg = seg
           /\ tx_ext'.info = info
           /\ wire' = tx_ext' /\ amr_tx' = NoFrame
BY EmitPolled DEF SendInfo, Answer

(* An answer, in one frame or as the first of several. *)
LEMMA SendApplEffect ==
    ASSUME IInv, NEW f \in InFrame, FrameParse(f), f.poll,
           NEW resp \in Replies, NEW offs, SendAppl(f, resp, offs)
    PROVE  /\ dl_seq_Rto' = Succ(f.ns) /\ dl_seq_Sto' = Succ(dl_seq_Sto)
           /\ tx_ext'.type = "I" /\ tx_ext'.nr = Succ(f.ns)
           /\ tx_ext'.ns = dl_seq_Sto
           /\ wire' = tx_ext' /\ amr_tx' = NoFrame
           /\ tx_ext'.seg => TailLeft'
<1>1. dl_tx_max_info \in Nat
  BY HdlcAssumption DEF IInv, ConnInv
<1>2. resp \in Seq(Data)
  BY HdlcAssumption
<1>3. CASE Len(resp) > dl_tx_max_info
  <2> DEFINE tail == SubSeq(resp, dl_tx_max_info + 1, Len(resp))
             head == SubSeq(resp, 1, dl_tx_max_info)
  <2>1. Len(tail) = Len(resp) - dl_tx_max_info /\ Len(tail) \in Nat
    BY <1>1, <1>2, <1>3
  <2>2. dl_seg_frame_offs' = 0 /\ dl_seg_frame_len' = Len(tail)
    BY <1>3 DEF SendAppl
  <2>3. SendInfo(f, f.ns, TRUE, head)
    BY <1>3 DEF SendAppl
  <2>4. TailLeft'
    BY <1>1, <1>2, <1>3, <2>1, <2>2 DEF TailLeft
  <2> QED
    BY <2>3, <2>4, SendInfoEffect
<1>4. CASE ~(Len(resp) > dl_tx_max_info)
  <2>1. SendInfo(f, f.ns, FALSE, resp)
    BY <1>4 DEF SendAppl
  <2> QED
    BY <2>1, SendInfoEffect
<1> QED
  BY <1>3, <1>4

(* The message goes to the application, which answers or drops it. *)
LEMMA ApplMsgDataIndEffect ==
    ASSUME IInv, NEW f \in InFrame, FrameParse(f), f.poll,
           NEW apdu, NEW offs, ApplMsgDataInd(f, apdu, offs)
    PROVE  /\ amr_tx' = NoFrame
           /\ \/ /\ UNCHANGED <<dl_seq_Rto, dl_seq_Sto, tx_ext>>
                 /\ wire' = amr_tx
              \/ /\ dl_seq_Rto' = Succ(f.ns) /\ dl_seq_Sto' = Succ(dl_seq_Sto)
                 /\ tx_ext'.type = "I" /\ tx_ext'.nr = Succ(f.ns)
                 /\ tx_ext'.ns = dl_seq_Sto
                 /\ wire' = tx_ext'
                 /\ tx_ext'.seg => TailLeft'
<1>1. ASSUME NEW resp \in ReplyTo(apdu), SendAppl(f, resp, offs)
      PROVE  /\ dl_seq_Rto' = Succ(f.ns) /\ dl_seq_Sto' = Succ(dl_seq_Sto)
             /\ tx_ext'.type = "I" /\ tx_ext'.nr = Succ(f.ns)
             /\ tx_ext'.ns = dl_seq_Sto
             /\ wire' = tx_ext' /\ amr_tx' = NoFrame
             /\ tx_ext'.seg => TailLeft'
  <2>1. resp \in Replies
    BY DEF ReplyTo
  <2> QED
    BY <1>1, <2>1, SendApplEffect
<1> QED
  BY <1>1 DEF ApplMsgDataInd, EmitNothing

(* The expected I frame: dropped, acknowledged as one of several segments, *)
(* or answered.                                                            *)
LEMMA RcvInfoEffect ==
    ASSUME IInv, NEW f \in InFrame, RcvInfo(f), f.poll
    PROVE  /\ dl_conn_client_addr' = f.client /\ UNCHANGED linkVars
           /\ amr_tx' = NoFrame /\ dl_seq_Sfrom' = f.ns
           /\ \/ /\ UNCHANGED <<dl_seq_Rto, dl_seq_Sto, tx_ext>>
                 /\ wire' = amr_tx
              \/ /\ f.seg
                 /\ dl_seq_Rto' = Succ(f.ns) /\ dl_seq_Sto' = dl_seq_Sto
                 /\ tx_ext'.type = "RR" /\ tx_ext'.nr = Succ(f.ns)
                 /\ wire' = tx_ext'
              \/ /\ ~f.seg
                 /\ dl_seq_Rto' = Succ(f.ns) /\ dl_seq_Sto' = Succ(dl_seq_Sto)
                 /\ tx_ext'.type = "I" /\ tx_ext'.nr = Succ(f.ns)
                 /\ tx_ext'.ns = dl_seq_Sto
                 /\ wire' = tx_ext'
                 /\ tx_ext'.seg => TailLeft'
<1>1. /\ FrameParse(f) /\ UNCHANGED linkVars
      /\ dl_conn_client_addr' = f.client /\ dl_seq_Sfrom' = f.ns
      /\ ApplMsgProc(f)
  BY DEF RcvInfo, RcvNumbered, FrameParse
<1>2. f.seg \in BOOLEAN /\ dl_seg_prev \in BOOLEAN
  BY InFrameFields DEF IInv, ConnInv
<1>3. CASE UNCHANGED <<segVars, tx_ext, dl_seq_Sto, dl_seq_Rto>> /\ EmitNothing
  BY <1>1, <1>3 DEF EmitNothing
<1>4. CASE SendRR(f, f.ns) /\ f.seg
  BY <1>1, <1>4, SendRREffect
<1>5. ASSUME NEW apdu, NEW offs, ApplMsgDataInd(f, apdu, offs), ~f.seg
      PROVE  /\ amr_tx' = NoFrame
             /\ \/ /\ UNCHANGED <<dl_seq_Rto, dl_seq_Sto, tx_ext>>
                   /\ wire' = amr_tx
                \/ /\ dl_seq_Rto' = Succ(f.ns) /\ dl_seq_Sto' = Succ(dl_seq_Sto)
                   /\ tx_ext'.type = "I" /\ tx_ext'.nr = Succ(f.ns)
                   /\ tx_ext'.ns = dl_seq_Sto
                   /\ wire' = tx_ext'
                   /\ tx_ext'.seg => TailLeft'
  BY <1>1, <1>5, ApplMsgDataIndEffect
<1>6. \/ UNCHANGED <<segVars, tx_ext, dl_seq_Sto, dl_seq_Rto>> /\ EmitNothing
      \/ SendRR(f, f.ns) /\ f.seg
      \/ ~f.seg /\ \E apdu, offs : ApplMsgDataInd(f, apdu, offs)
  BY <1>1, <1>2 DEF ApplMsgProc, SegState
<1> QED
  BY <1>1, <1>3, <1>4, <1>5, <1>6

(* A frame of the client is one the meter has seen, or the one it expects. *)
LEMMA NumbersOfFrame ==
    ASSUME LinkInv, peer = "on", dl_conn_state = "NRM",
           NEW i \in 1..Len(up)
    PROVE  \/ up[i].type = "I" /\ up[i].ns = Pred(dl_seq_Rto)
           \/ up[i].type = "RR" /\ up[i].nr = Pred(dl_seq_Sto)
           \/ /\ up[i] = out /\ ~Taken /\ Awaiting
              /\ up[i].type = "I"
              /\ up[i].ns = dl_seq_Rto /\ up[i].nr = dl_seq_Sto
           \/ /\ up[i] = out /\ ~Taken /\ Awaiting
              /\ up[i].type = "RR" /\ up[i].nr = dl_seq_Sto
<1>1. /\ up[i].type \in Numbered
      /\ up[i] = out \/ Old(up[i])
  BY DEF LinkInv, UpInv
<1>2. IF Taken THEN Accepted ELSE Awaiting
  BY DEF LinkInv, InStep
<1>3. CASE Taken
  <2>1. Accepted /\ up[i] = out
    BY <1>2, <1>3 DEF Accepted
  <2>2. out # NoFrame
    BY <1>1, <2>1 DEF Numbered
  <2>3. /\ out.type \in Numbered /\ out.nr = c_vr
        /\ out.type = "I" => out.ns = c_vs
    BY <2>2 DEF LinkInv, OutInv
  <2>4. Pred(Succ(c_vs)) = c_vs /\ Pred(Succ(c_vr)) = c_vr
    BY Numbers DEF LinkInv, ClientTypes
  <2> QED
    BY <1>3, <2>1, <2>3, <2>4 DEF Taken
<1>4. CASE ~Taken /\ Old(up[i])
  BY <1>2, <1>4 DEF Old, Awaiting
<1>5. CASE ~Taken /\ up[i] = out
  <2>1. out # NoFrame
    BY <1>1, <1>5 DEF Numbered
  <2> QED
    BY <1>1, <1>2, <1>5, <2>1 DEF LinkInv, OutInv, Awaiting, Numbered
<1> QED
  BY <1>1, <1>3, <1>4, <1>5

(* The three things a frame of the client does to a meter in step with it. *)
Stays ==
    /\ UNCHANGED <<dl_seq_Rto, dl_seq_Sto, tx_ext>>
    /\ wire' \in {amr_tx, tx_ext}
    /\ \/ /\ UNCHANGED <<dl_seg_frame_len, dl_seg_frame_offs>>
          /\ dl_seq_Sfrom' \in {dl_seq_Sfrom, Pred(dl_seq_Rto)}
       \/ out.type = "I" /\ ~Taken

Nacks ==
    /\ out.type = "RR" /\ ~Taken
    /\ UNCHANGED <<dl_seq_Rto, dl_seq_Sto, dl_seq_Sfrom, dl_seg_frame_len,
                   dl_seg_frame_offs>>
    /\ tx_ext'.type = "RR" /\ tx_ext'.nr = c_vs
    /\ wire' = tx_ext'

Takes(f) ==
    /\ ~Taken /\ Awaiting /\ f = out
    /\ wire' = tx_ext'
    /\ dl_seq_Rto' = tx_ext'.nr
    /\ \/ /\ out.type = "I" /\ out.seg
          /\ tx_ext'.type = "RR" /\ tx_ext'.nr = Succ(c_vs)
          /\ dl_seq_Sto' = c_vr
       \/ /\ out.type = "I" /\ ~out.seg
          /\ tx_ext'.type = "I" /\ tx_ext'.ns = c_vr
          /\ tx_ext'.nr = Succ(c_vs) /\ dl_seq_Sto' = Succ(c_vr)
          /\ tx_ext'.seg => MayContinue'
       \/ /\ out.type = "RR"
          /\ tx_ext'.type = "I" /\ tx_ext'.ns = c_vr
          /\ tx_ext'.nr = c_vs /\ dl_seq_Sto' = Succ(c_vr)
          /\ tx_ext'.seg => MayContinue'

(* An I frame of the client. *)
LEMMA InfoInStep ==
    ASSUME LinkInv, peer = "on", dl_conn_state = "NRM",
           NEW i \in 1..Len(up), NEW f \in InFrame, f = up[i],
           RcvInfo(f) \/ RcvInfoRepeated(f) \/ RcvInfoUnexpected(f)
                      \/ RcvInfoRejected(f)
    PROVE  /\ dl_conn_client_addr' = TheClient /\ UNCHANGED linkVars
           /\ amr_tx' = NoFrame
           /\ Stays \/ Takes(f)
<1>1. /\ f.type = "I" /\ f.poll /\ f.client = TheClient
      /\ UNCHANGED linkVars /\ dl_conn_client_addr' = TheClient
      /\ FrameParse(f)
  BY DEF LinkInv, UpInv, Polls, RcvInfo, RcvInfoRepeated, RcvInfoUnexpected,
         RcvInfoRejected, RcvNumbered, FrameParse
<1>2. IInv /\ dl_seq_Rto \in 0..7 /\ dl_seq_Sto \in 0..7
  BY DEF LinkInv, MeterInv, IInv, SendInv
<1>3. CASE f.ns = Pred(dl_seq_Rto)
  <2>1. RcvInfoRepeated(f)
    BY <1>2, <1>3, Numbers DEF RcvInfo, RcvInfoUnexpected, RcvInfoRejected
  <2> QED
    BY <1>1, <1>3, <2>1
       DEF RcvInfoRepeated, Replay, EmitNothing, Stays, segVars, extVars
<1>4. CASE /\ f = out /\ ~Taken /\ Awaiting
           /\ f.ns = dl_seq_Rto /\ f.nr = dl_seq_Sto
  <2>1. RcvInfo(f)
    BY <1>2, <1>4, Numbers
       DEF RcvInfoRepeated, RcvInfoUnexpected, RcvInfoRejected
  <2>2. /\ amr_tx' = NoFrame /\ dl_seq_Sfrom' = f.ns
        /\ \/ /\ UNCHANGED <<dl_seq_Rto, dl_seq_Sto, tx_ext>>
              /\ wire' = amr_tx
           \/ /\ f.seg
              /\ dl_seq_Rto' = Succ(f.ns) /\ dl_seq_Sto' = dl_seq_Sto
              /\ tx_ext'.type = "RR" /\ tx_ext'.nr = Succ(f.ns)
              /\ wire' = tx_ext'
           \/ /\ ~f.seg
              /\ dl_seq_Rto' = Succ(f.ns) /\ dl_seq_Sto' = Succ(dl_seq_Sto)
              /\ tx_ext'.type = "I" /\ tx_ext'.nr = Succ(f.ns)
              /\ tx_ext'.ns = dl_seq_Sto
              /\ wire' = tx_ext'
              /\ tx_ext'.seg => TailLeft'
    BY <1>1, <1>2, <2>1, RcvInfoEffect
  <2>3. Pred(Succ(f.ns)) = f.ns
    BY <1>2, <1>4, Numbers
  <2>4. f.ns = c_vs /\ f.nr = c_vr
    BY <1>4 DEF Awaiting
  <2> QED
    BY <1>1, <1>4, <2>2, <2>3, <2>4
       DEF Stays, Takes, MayContinue, Awaiting
<1>5. \/ f.ns = Pred(dl_seq_Rto)
      \/ /\ f = out /\ ~Taken /\ Awaiting
         /\ f.ns = dl_seq_Rto /\ f.nr = dl_seq_Sto
  BY <1>1, NumbersOfFrame
<1> QED
  BY <1>1, <1>3, <1>4, <1>5

(* A poll of the client. *)
LEMMA PollInStep ==
    ASSUME LinkInv, peer = "on", dl_conn_state = "NRM",
           NEW i \in 1..Len(up), NEW f \in InFrame, f = up[i],
           RcvRR(f) \/ RcvRRRepeated(f) \/ RcvRRRejected(f)
    PROVE  /\ dl_conn_client_addr' = TheClient /\ UNCHANGED linkVars
           /\ amr_tx' = NoFrame
           /\ Stays \/ Nacks \/ Takes(f)
<1>1. /\ f.type = "RR" /\ f.poll /\ f.client = TheClient
      /\ UNCHANGED linkVars /\ dl_conn_client_addr' = TheClient
      /\ FrameParse(f)
  BY DEF LinkInv, UpInv, Polls, RcvRR, RcvRRRepeated, RcvRRRejected,
         RcvNumbered, FrameParse
<1>2. IInv /\ dl_seq_Rto \in 0..7 /\ dl_seq_Sto \in 0..7
  BY DEF LinkInv, MeterInv, IInv, SendInv
<1>3. CASE f.nr = Pred(dl_seq_Sto)
  <2>1. RcvRRRepeated(f)
    BY <1>2, <1>3, Numbers DEF RcvRR, RcvRRRejected
  <2> QED
    BY <1>1, <1>3, <2>1
       DEF RcvRRRepeated, Replay, EmitNothing, Stays, segVars, seqVars, extVars
<1>4. CASE f = out /\ ~Taken /\ Awaiting /\ f.nr = dl_seq_Sto
  <2>1. RcvRR(f)
    BY <1>2, <1>4, Numbers DEF RcvRRRepeated, RcvRRRejected
  <2>2. /\ MayContinue /\ dl_seq_Rto = c_vs /\ dl_seq_Sto = c_vr
    BY <1>1, <1>4 DEF Awaiting
  <2>3. Succ(dl_seq_Sfrom) = c_vs
    BY <1>2, <2>2, Numbers DEF MayContinue
  <2> DEFINE left == dl_seg_frame_len - dl_seg_frame_offs
             len  == SmallerOf(left, dl_tx_max_info)
  <2>4. CASE /\ SendInfo(f, dl_seq_Sfrom, left > dl_tx_max_info,
                         Stored(dl_seg_frame_offs, len))
             /\ dl_seg_frame_offs' = dl_seg_frame_offs + len
             /\ UNCHANGED dl_seq_Sfrom
    <3>1. /\ dl_seq_Rto' = c_vs /\ dl_seq_Sto' = Succ(c_vr)
          /\ tx_ext'.type = "I" /\ tx_ext'.nr = c_vs
          /\ tx_ext'.ns = c_vr /\ tx_ext'.seg = (left > dl_tx_max_info)
          /\ wire' = tx_ext' /\ amr_tx' = NoFrame
      BY <1>1, <2>2, <2>3, <2>4, SendInfoEffect
    <3>2. tx_ext'.seg => MayContinue'
      <4>1. UNCHANGED dl_seg_frame_len
        BY <2>1 DEF RcvRR
      <4>2. /\ dl_seg_frame_len \in Nat /\ dl_seg_frame_offs \in Nat
            /\ dl_tx_max_info \in Nat
        BY <1>2, HdlcAssumption DEF IInv, SegInv, ConnInv
      <4>3. left > dl_tx_max_info =>
              /\ dl_seg_frame_len' > dl_seg_frame_offs'
              /\ dl_seg_frame_len' # 0
        BY <2>4, <4>1, <4>2 DEF SmallerOf
      <4>4. dl_seq_Sfrom' = Pred(dl_seq_Rto')
        BY <2>2, <2>4, <3>1 DEF MayContinue
      <4> QED
        BY <3>1, <4>3, <4>4 DEF MayContinue, TailLeft
    <3> QED
      BY <1>1, <1>4, <3>1, <3>2 DEF Takes
  <2>5. CASE /\ SendRR(f, dl_seq_Sfrom)
             /\ UNCHANGED <<dl_seg_frame_offs, dl_seq_Sfrom>>
    <3>1. UNCHANGED dl_seg_frame_len
      BY <2>1 DEF RcvRR
    <3> QED
      BY <1>1, <1>4, <2>2, <2>3, <2>5, <3>1, SendRREffect DEF Nacks
  <2> QED
    BY <1>1, <2>1, <2>2, <2>4, <2>5 DEF RcvRR, MayContinue
<1>5. \/ f.nr = Pred(dl_seq_Sto)
      \/ f = out /\ ~Taken /\ Awaiting /\ f.nr = dl_seq_Sto
  BY <1>1, NumbersOfFrame
<1> QED
  BY <1>1, <1>3, <1>4, <1>5

-----------------------------------------------------------------------------
(* Steps of the meter.  The client is left alone; what the meter says is   *)
(* appended to what is under way, or lost.                                 *)
Says(w) ==
    \/ w = NoFrame
    \/ Other(w)
    \/ /\ peer = "on" /\ Fresh(w)
       /\ \A j \in 1..Len(up) : up[j] = out
    \/ /\ peer = "on" /\ Late(w)
       /\ \A i \in 1..Len(down) : ~Fresh(down[i])

LEMMA Transmits ==
    ASSUME LinkInv, UNCHANGED clientVars, Transmitted,
           up' = up \/ (up # <<>> /\ up' = Tail(up)),
           NEW w \in OutFrame \cup {NoFrame}, wire' = w, Says(w)
    PROVE  /\ ClientTypes' /\ OutInv' /\ UpInv' /\ DownInv'
           /\ \A i \in 1..Len(down') :
                 \/ i \in 1..Len(down) /\ down'[i] = down[i]
                 \/ down'[i] = w /\ w # NoFrame
           /\ (\A j \in 1..Len(up) : up[j] = out)
              => \A j \in 1..Len(up') : up'[j] = out
<1>1. UNCHANGED <<peer, c_vs, c_vr, request, acked, out>>
  BY DEF clientVars
<1>2. up \in Seq(InFrame) /\ down \in Seq(OutFrame)
  BY DEF LinkInv, ClientTypes
<1>3. /\ up' \in Seq(InFrame)
      /\ Len(up') <= Len(up)
      /\ Len(up) \in Nat /\ Len(up') \in Nat
      /\ \/ \A i \in 1..Len(up') : i \in 1..Len(up) /\ up'[i] = up[i]
         \/ \A i \in 1..Len(up') : i + 1 \in 1..Len(up) /\ up'[i] = up[i + 1]
  <2>1. CASE up' = up
    <3>1. Len(up) \in Nat /\ Len(up) <= Len(up)
      BY <1>2
    <3>2. \A i \in 1..Len(up') : i \in 1..Len(up) /\ up'[i] = up[i]
      BY <2>1
    <3> QED
      BY <1>2, <2>1, <3>1, <3>2
  <2>2. CASE up # <<>> /\ up' = Tail(up)
    BY <1>2, <2>2, TailOf
  <2> QED
    BY <2>1, <2>2
<1>4. /\ down' \in Seq(OutFrame)
      /\ Len(down) \in Nat
      /\ \/ down' = down
         \/ /\ w # NoFrame /\ Len(down') = Len(down) + 1
            /\ down'[Len(down) + 1] = w
            /\ \A i \in 1..Len(down) : down'[i] = down[i]
  <2>1. CASE down' = down
    BY <1>2, <2>1
  <2>2. CASE w # NoFrame /\ down' = Append(down, w)
    BY <1>2, <2>2, AppendOf
  <2> QED
    BY <2>1, <2>2 DEF Transmitted
<1>5. ClientTypes' /\ OutInv'
  BY <1>1, <1>3, <1>4 DEF LinkInv, ClientTypes, OutInv, Polls
<1>6. UpInv'
  <2>1. (peer = "off" => up = <<>>) /\ (up = <<>> => up' = <<>>)
    BY <1>2, <1>3 DEF LinkInv, UpInv
  <2>2. peer = "connecting" =>
          Len(up') <= 1 /\ \A i \in 1..Len(up') : up'[i] = BlankFrame
    BY <1>3 DEF LinkInv, UpInv
  <2>3. ASSUME peer = "on", NEW i \in 1..Len(up')
        PROVE  /\ up'[i].type \in Numbered /\ Polls(up'[i])
               /\ up'[i] = out \/ Old(up'[i])
               /\ up'[i] = out => \A j \in i..Len(up') : up'[j] = out
    <3>1. CASE \A k \in 1..Len(up') : k \in 1..Len(up) /\ up'[k] = up[k]
      <4>1. /\ i \in 1..Len(up) /\ up'[i] = up[i]
            /\ \A j \in i..Len(up') : j \in i..Len(up) /\ up'[j] = up[j]
        BY <1>3, <2>3, <3>1
      <4>2. /\ up[i].type \in Numbered /\ Polls(up[i])
            /\ up[i] = out \/ Old(up[i])
            /\ up[i] = out => \A j \in i..Len(up) : up[j] = out
        BY <2>3, <4>1 DEF LinkInv, UpInv
      <4> QED
        BY <4>1, <4>2
    <3>2. CASE \A k \in 1..Len(up') :
                  k + 1 \in 1..Len(up) /\ up'[k] = up[k + 1]
      <4>1. /\ up[i + 1].type \in Numbered /\ Polls(up[i + 1])
            /\ up[i + 1] = out \/ Old(up[i + 1])
            /\ up[i + 1] = out => \A j \in (i + 1)..Len(up) : up[j] = out
        BY <2>3, <3>2 DEF LinkInv, UpInv
      <4>2. up'[i] = up[i + 1]
        BY <3>2
      <4>3. ASSUME NEW j \in i..Len(up')
            PROVE  up'[j] = up[j + 1] /\ j + 1 \in (i + 1)..Len(up)
        <5>1. j \in 1..Len(up')
          BY <1>3
        <5>2. j + 1 \in 1..Len(up) /\ up'[j] = up[j + 1]
          BY <3>2, <5>1
        <5> QED
          BY <1>3, <5>2
      <4> QED
        BY ONLY <4>1, <4>2, <4>3
    <3> QED
      BY <1>3, <3>1, <3>2
  <2> QED
    BY <1>1, <2>1, <2>2, <2>3 DEF UpInv, Old, Polls
<1>7. \A i \in 1..Len(down') :
         \/ i \in 1..Len(down) /\ down'[i] = down[i]
         \/ i = Len(down) + 1 /\ down'[i] = w /\ w # NoFrame
  BY <1>4
<1>8. (\A j \in 1..Len(up) : up[j] = out)
      => \A j \in 1..Len(up') : up'[j] = out
  BY <1>3
<1>9. DownInv'
  <2>1. peer # "on" => \A i \in 1..Len(down') : Other(down'[i])
    BY <1>7 DEF Says, LinkInv, DownInv
  <2>2. ASSUME peer = "on", NEW i \in 1..Len(down')
        PROVE  /\ Fresh(down'[i]) \/ Late(down'[i]) \/ Other(down'[i])
               /\ Fresh(down'[i]) =>
                     /\ \A j \in i..Len(down') : ~Late(down'[j])
                     /\ \A j \in 1..Len(up) : up[j] = out
    <3>1. CASE i \in 1..Len(down) /\ down'[i] = down[i]
      <4>1. ASSUME Fresh(down[i]), NEW j \in i..Len(down')
            PROVE  ~Late(down'[j])
        <5>1. j \in 1..Len(down')
          BY <1>4
        <5>2. CASE j \in 1..Len(down) /\ down'[j] = down[j]
          <6>1. j \in i..Len(down)
            BY <1>4, <3>1, <4>1, <5>2
          <6> QED
            BY <2>2, <3>1, <4>1, <5>2, <6>1 DEF LinkInv, DownInv
        <5>3. CASE down'[j] = w /\ w # NoFrame
          <6>1. Fresh(w) \/ Other(w)
            BY <3>1, <4>1, <5>3 DEF Says
          <6>2. Pred(c_vr) # c_vr /\ Succ(c_vs) # c_vs
            BY Numbers DEF LinkInv, ClientTypes
          <6> QED
            BY <5>3, <6>1, <6>2 DEF Fresh, Late, Other
        <5> QED
          BY <1>7, <5>1, <5>2, <5>3
      <4> QED
        BY <2>2, <3>1, <4>1 DEF LinkInv, DownInv
    <3>2. CASE i = Len(down) + 1 /\ down'[i] = w /\ w # NoFrame
      <4>1. Fresh(w) \/ Late(w) \/ Other(w)
        BY <3>2 DEF Says
      <4>2. ASSUME Fresh(w)
            PROVE  ~Late(w) /\ \A j \in 1..Len(up) : up[j] = out
        <5>1. Pred(c_vr) # c_vr /\ Succ(c_vs) # c_vs
          BY Numbers DEF LinkInv, ClientTypes
        <5>2. ~Late(w) /\ ~Other(w)
          BY <4>2, <5>1 DEF Fresh, Late, Other
        <5> QED
          BY <3>2, <5>2 DEF Says
      <4>3. \A j \in i..Len(down') : j = i
        BY <1>4, <3>2
      <4> QED
        BY <3>2, <4>1, <4>2, <4>3
    <3> QED
      BY <1>7, <3>1, <3>2
  <2> QED
    BY <1>1, <1>8, <2>1, <2>2 DEF DownInv, Fresh, Late, Other
<1> QED
  BY <1>5, <1>6, <1>7, <1>8, <1>9

(* The meter sends no more than a push that was waiting. *)
LEMMA PushOut ==
    ASSUME LinkInv
    PROVE  amr_tx \in OutFrame \cup {NoFrame} /\ Says(amr_tx)
           /\ (amr_tx # NoFrame => amr_tx.type = "UI")
BY DEF LinkInv, MeterInv, IInv, SendInv, Says, Other

LEMMA QuietStep ==
    ASSUME LinkInv, UNCHANGED clientVars, Transmitted, UNCHANGED up,
           UNCHANGED <<linkVars, seqVars, segVars, extVars,
                       dl_conn_client_addr>>,
           EmitNothing, IInv'
    PROVE  LinkInv'
<1>1. wire' = amr_tx /\ amr_tx' = NoFrame
  BY DEF EmitNothing
<1>2. /\ ClientTypes' /\ OutInv' /\ UpInv' /\ DownInv'
      /\ \A i \in 1..Len(down') :
            \/ i \in 1..Len(down) /\ down'[i] = down[i]
            \/ down'[i] = amr_tx /\ amr_tx # NoFrame
  BY <1>1, PushOut, Transmits
<1>3. UNCHANGED <<peer, c_vs, c_vr, request, acked, out>>
  BY DEF clientVars
<1>4. MeterInv' /\ NeverRejected'
  BY <1>1, PushOut DEF LinkInv, MeterInv, NeverRejected, extVars
<1>5. ConnectInv'
  BY <1>2, <1>3, PushOut
     DEF LinkInv, ConnectInv, FreshConnection, linkVars, seqVars, extVars
<1>6. InStep'
  <2>1. \A i \in 1..Len(down') :
           Fresh(down'[i]) => i \in 1..Len(down) /\ down'[i] = down[i]
    BY <1>2, PushOut DEF Fresh
  <2> QED
    BY <1>3, <2>1
       DEF LinkInv, InStep, Taken, Accepted, Awaiting, Fresh, Late,
           MayContinue, TailLeft, linkVars, seqVars, segVars, extVars
<1> QED
  BY <1>2, <1>4, <1>5, <1>6 DEF LinkInv

LEMMA MeterIdleStep ==
    ASSUME LinkInv, MeterIdle
    PROVE  LinkInv'
<1>1. IInv'
  BY AmrProcIdleInv DEF LinkInv, MeterInv, MeterIdle
<1> QED
  BY <1>1, QuietStep DEF MeterIdle, AmrProcIdle, parseVars

(* A frame for another station is dropped. *)
LEMMA HearsForeign ==
    ASSUME NEW f \in Noise, MeterHears(f)
    PROVE  f \in InFrame /\ RcvForeign(f)
<1>1. f \in InFrame /\ ~f.mine
  BY HdlcLinkAssumption
<1>2. ~FrameParse(f)
  BY <1>1 DEF FrameParse, Addressed
<1> QED
  BY <1>1, <1>2
     DEF MeterHears, RcvFrame, RcvSupervisory, RcvUnhandled, RcvSnrm,
         RcvSnrmRefused, RcvDisc, RcvInfo, RcvInfoRepeated, RcvInfoUnexpected,
         RcvInfoRejected, RcvRR, RcvRRRepeated, RcvRRRejected, RcvNumbered

LEMMA MeterHearsStep ==
    ASSUME LinkInv, NEW f \in Noise, MeterHears(f)
    PROVE  LinkInv'
<1>1. f \in InFrame /\ RcvForeign(f)
  BY HearsForeign
<1>2. IInv'
  BY <1>1, RcvFrameIInv DEF LinkInv, MeterInv, MeterHears
<1> QED
  BY <1>1, <1>2, QuietStep DEF MeterHears, RcvForeign

(* Nothing is sent and nothing under way moves. *)
LEMMA SilentStep ==
    ASSUME LinkInv, UNCHANGED <<clientVars, mediumVars>>
    PROVE  ClientTypes' /\ OutInv' /\ UpInv' /\ DownInv'
BY DEF LinkInv, ClientTypes, OutInv, UpInv, DownInv, Polls, Old, Fresh, Late,
       Other, clientVars, mediumVars

LEMMA MeterPushesStep ==
    ASSUME LinkInv, NEW p \in Pushes, MeterPushes(p)
    PROVE  LinkInv'
<1>1. IInv'
  BY PushDataNotiInv DEF LinkInv, MeterInv, MeterPushes
<1>2. ClientTypes' /\ OutInv' /\ UpInv' /\ DownInv'
  BY SilentStep DEF MeterPushes
<1>3. /\ UNCHANGED <<linkVars, seqVars, segVars, extVars, parseVars>>
      /\ amr_tx'.type = "UI" /\ wire' = NoFrame
      /\ UNCHANGED <<clientVars, mediumVars>>
  BY DEF MeterPushes, PushDataNoti
<1>4. MeterInv' /\ NeverRejected'
  BY <1>1, <1>3 DEF LinkInv, MeterInv, NeverRejected, extVars
<1>5. ConnectInv' /\ InStep'
  BY <1>3
     DEF LinkInv, ConnectInv, FreshConnection, InStep, Taken, Accepted,
         Awaiting, Fresh, Late, MayContinue, TailLeft, linkVars, seqVars,
         segVars, extVars, parseVars, clientVars, mediumVars
<1> QED
  BY <1>2, <1>4, <1>5 DEF LinkInv

LEMMA MeterStopsStep ==
    ASSUME LinkInv, MeterStops
    PROVE  LinkInv'
<1>1. IInv'
  BY StopForceInv, AmrInitInv, RestartInv DEF LinkInv, MeterInv, MeterStops
<1>2. /\ dl_conn_state' = "NDM" /\ tx_ext' = NoFrame /\ wire' = NoFrame
      /\ amr_tx' \in {amr_tx, NoFrame}
      /\ UNCHANGED <<clientVars, mediumVars>>
  BY DEF MeterStops, StopForce, AmrInit, Restart, Stop
<1>3. ClientTypes' /\ OutInv' /\ UpInv' /\ DownInv'
  BY <1>2, SilentStep
<1>4. MeterInv' /\ NeverRejected'
  BY <1>1, <1>2 DEF LinkInv, MeterInv, NeverRejected
<1>5. ConnectInv' /\ InStep'
  BY <1>2 DEF LinkInv, ConnectInv, InStep, clientVars, mediumVars
<1> QED
  BY <1>3, <1>4, <1>5 DEF LinkInv

(* The meter takes the frame at the head of the medium. *)
LEMMA HeadOfUp ==
    ASSUME LinkInv, MeterRcv
    PROVE  /\ 1 \in 1..Len(up) /\ Head(up) = up[1] /\ up[1] \in InFrame
           /\ up # <<>> /\ up' = Tail(up)
           /\ RcvFrame(up[1]) /\ Transmitted
           /\ UNCHANGED clientVars
           /\ IInv /\ IInv'
<1>1. up # <<>> /\ up \in Seq(InFrame)
  BY DEF MeterRcv, LinkInv, ClientTypes
<1>2. 1 \in 1..Len(up) /\ Head(up) = up[1] /\ up[1] \in InFrame
  BY <1>1, TailOf
<1>3. RcvFrame(up[1])
  BY <1>2 DEF MeterRcv, RcvFrame
<1>4. IInv /\ IInv'
  BY <1>2, <1>3, RcvFrameIInv DEF LinkInv, MeterInv
<1> QED
  BY <1>1, <1>2, <1>3, <1>4 DEF MeterRcv

(* A frame of the client is never dropped for its address: it is another's *)
(* only for a meter that is connected to another client.                   *)
LEMMA NotForeign ==
    ASSUME NEW f \in InFrame, Polls(f),
           \/ f.type = "SNRM" \/ dl_conn_state = "NDM"
           \/ dl_conn_client_addr = TheClient
    PROVE  Addressed(f)
BY DEF Polls, Addressed, AnyClient

(* The SNRM of the client is accepted. *)
LEMMA HeardConnecting ==
    ASSUME LinkInv, MeterRcv, peer = "connecting"
    PROVE  up[1] = BlankFrame /\ up' = <<>> /\ RcvSnrm(up[1])
<1> DEFINE f == up[1]
<1> HIDE DEF f
<1>1. /\ f \in InFrame /\ up # <<>> /\ up' = Tail(up)
      /\ RcvFrame(f) /\ Transmitted /\ UNCHANGED clientVars
      /\ IInv /\ IInv'
  BY HeadOfUp DEF f
<1>2. f = BlankFrame /\ up' = <<>>
  <2>1. Len(up) <= 1 /\ f = BlankFrame
    BY HeadOfUp DEF LinkInv, UpInv, f
  <2> QED
    BY <1>1, <2>1 DEF LinkInv, ClientTypes
<1>3. /\ f.type = "SNRM" /\ Polls(f) /\ f.poll /\ f.client = TheClient
      /\ f.nego.ok /\ f.nego.max = ClientMaxInfo
  BY <1>2 DEF BlankFrame, Polls
<1>4. RcvSnrm(f)
  <2>1. Addressed(f)
    BY <1>1, <1>3, NotForeign
  <2> QED
    BY <1>1, <1>3, <2>1
       DEF RcvFrame, RcvSupervisory, RcvForeign, RcvUnhandled, RcvSnrmRefused,
           RcvDisc, RcvInfo, RcvInfoRepeated, RcvInfoUnexpected,
           RcvInfoRejected, RcvRR, RcvRRRepeated, RcvRRRejected, RcvNumbered
<1> QED
  BY <1>2, <1>4 DEF f

LEMMA MeterRcvConnecting ==
    ASSUME LinkInv, MeterRcv, peer = "connecting"
    PROVE  LinkInv'
<1> DEFINE f == up[1]
<1> HIDE DEF f
<1>1. /\ f \in InFrame /\ up # <<>> /\ up' = Tail(up)
      /\ RcvFrame(f) /\ Transmitted /\ UNCHANGED clientVars
      /\ IInv /\ IInv'
  BY HeadOfUp DEF f
<1>2. f = BlankFrame /\ up' = <<>>
  BY HeardConnecting DEF f
<1>3. /\ f.type = "SNRM" /\ f.poll /\ f.client = TheClient
      /\ f.nego.ok /\ f.nego.max = ClientMaxInfo
  BY <1>2 DEF BlankFrame
<1>4. RcvSnrm(f)
  BY HeardConnecting DEF f
<1>5. wire'.type = "UA" /\ amr_tx' = NoFrame
  <2>1. FrameParse(f) /\ Emit(Answer(f, "UA", FALSE, 0, 0, <<>>))
    BY <1>4 DEF RcvSnrm, SendUnnumbered
  <2> QED
    BY <1>1, <1>3, <2>1, EmitPolled DEF Answer
<1>6. FreshConnection'
  <2>1. dl_tx_max_info' = ClientMaxInfo
    BY <1>3, <1>4, HdlcLinkAssumption, HdlcAssumption
       DEF RcvSnrm, NegoHdlcParam, SmallerOf
  <2>2. tx_ext' = NoFrame
    BY <1>1, <1>4 DEF RcvSnrm, IInv, ConnInv, extVars
  <2> QED
    BY <1>3, <1>4, <2>1, <2>2 DEF FreshConnection, RcvSnrm, FrameParse
<1>7. MeterInv' /\ NeverRejected'
  BY <1>1, <1>5, <1>6 DEF MeterInv, NeverRejected, FreshConnection
<1>8. wire' \in OutFrame \cup {NoFrame} /\ Says(wire')
  BY <1>1, <1>5 DEF IInv, SendInv, Says, Other
<1>9. ClientTypes' /\ OutInv' /\ UpInv' /\ DownInv'
  BY <1>1, <1>8, Transmits
<1>10. ConnectInv' /\ InStep'
  BY <1>1, <1>2, <1>6 DEF ConnectInv, InStep, clientVars
<1> QED
  BY <1>7, <1>9, <1>10 DEF LinkInv

(* A meter that has dropped the connection says nothing. *)
LEMMA HeardDropped ==
    ASSUME LinkInv, MeterRcv, peer = "on", dl_conn_state = "NDM"
    PROVE  /\ up[1].type \in Numbered /\ RcvUnhandled(up[1])
           /\ wire' = amr_tx /\ amr_tx' = NoFrame
           /\ UNCHANGED <<dl_conn_state, tx_ext>>
<1> DEFINE f == up[1]
<1> HIDE DEF f
<1>1. /\ f \in InFrame /\ up # <<>> /\ up' = Tail(up)
      /\ RcvFrame(f) /\ Transmitted /\ UNCHANGED clientVars
      /\ IInv /\ IInv'
  BY HeadOfUp DEF f
<1>2. f.type \in Numbered /\ Polls(f)
  BY HeadOfUp DEF LinkInv, UpInv, f
<1>3. RcvUnhandled(f)
  <2>1. Addressed(f)
    BY <1>1, <1>2, NotForeign
  <2> QED
    BY <1>1, <1>2, <2>1
       DEF RcvFrame, RcvSupervisory, RcvForeign, RcvSnrm, RcvSnrmRefused,
           RcvDisc, RcvInfo, RcvInfoRepeated, RcvInfoUnexpected, Numbered,
           RcvInfoRejected, RcvRR, RcvRRRepeated, RcvRRRejected, RcvNumbered
<1>4. /\ wire' = amr_tx /\ amr_tx' = NoFrame
      /\ UNCHANGED <<dl_conn_state, tx_ext>>
  BY <1>2, <1>3
     DEF RcvUnhandled, EmitNothing, Numbered, linkVars, extVars
<1> QED
  BY <1>2, <1>3, <1>4 DEF f

LEMMA MeterRcvDropped ==
    ASSUME LinkInv, MeterRcv, peer = "on", dl_conn_state = "NDM"
    PROVE  LinkInv'
<1>1. /\ up # <<>> /\ up' = Tail(up)
      /\ Transmitted /\ UNCHANGED clientVars
      /\ IInv /\ IInv'
  BY HeadOfUp
<1>2. /\ wire' = amr_tx /\ amr_tx' = NoFrame
      /\ UNCHANGED <<dl_conn_state, tx_ext>>
  BY HeardDropped
<1>3. MeterInv' /\ NeverRejected'
  BY <1>1, <1>2, PushOut DEF LinkInv, MeterInv, NeverRejected
<1>4. ClientTypes' /\ OutInv' /\ UpInv' /\ DownInv'
  BY <1>1, <1>2, PushOut, Transmits
<1>5. ConnectInv' /\ InStep'
  BY <1>1, <1>2 DEF ConnectInv, InStep, clientVars
<1> QED
  BY <1>3, <1>4, <1>5 DEF LinkInv

(* What a frame of the client does to a meter in step with it. *)
LEMMA FrameInStep ==
    ASSUME LinkInv, MeterRcv, peer = "on", dl_conn_state = "NRM"
    PROVE  /\ dl_conn_client_addr' = TheClient /\ UNCHANGED linkVars
           /\ amr_tx' = NoFrame
           /\ Stays \/ Nacks \/ Takes(up[1])
<1> DEFINE f == up[1]
<1> HIDE DEF f
<1>1. f \in InFrame /\ RcvFrame(f) /\ 1 \in 1..Len(up) /\ f = up[1]
  BY HeadOfUp DEF f
<1>2. f.type \in Numbered /\ Polls(f)
  BY <1>1 DEF LinkInv, UpInv
<1>3. Addressed(f)
  BY <1>1, <1>2, NotForeign DEF LinkInv, InStep
<1>4. \/ RcvInfo(f) \/ RcvInfoRepeated(f) \/ RcvInfoUnexpected(f)
                    \/ RcvInfoRejected(f)
      \/ RcvRR(f) \/ RcvRRRepeated(f) \/ RcvRRRejected(f)
  BY <1>1, <1>2, <1>3
     DEF RcvFrame, RcvSupervisory, RcvForeign, RcvUnhandled, RcvSnrm,
         RcvSnrmRefused, RcvDisc, Numbered
<1> QED
  BY <1>1, <1>4, InfoInStep, PollInStep

LEMMA MeterRcvInStep ==
    ASSUME LinkInv, MeterRcv, peer = "on", dl_conn_state = "NRM"
    PROVE  LinkInv'
<1>1. /\ up # <<>> /\ up' = Tail(up) /\ up[1] \in InFrame
      /\ 1 \in 1..Len(up) /\ Transmitted /\ UNCHANGED clientVars
      /\ IInv /\ IInv'
  BY HeadOfUp
<1>2. UNCHANGED <<peer, c_vs, c_vr, request, acked, out>>
  BY <1>1 DEF clientVars
<1>3. /\ dl_conn_client_addr' = TheClient
      /\ UNCHANGED <<dl_conn_state, dl_tx_max_info>>
      /\ amr_tx' = NoFrame
      /\ Stays \/ Nacks \/ Takes(up[1])
  BY FrameInStep DEF linkVars
<1>4. /\ dl_tx_max_info = ClientMaxInfo
      /\ IF Taken THEN Accepted ELSE Awaiting
  BY DEF LinkInv, InStep
<1>5. wire' \in OutFrame \cup {NoFrame}
  BY <1>1 DEF IInv, SendInv
<1>6. /\ Succ(c_vs) # c_vs /\ Succ(c_vr) # c_vr /\ Pred(c_vr) # c_vr
      /\ c_vs \in 0..7 /\ c_vr \in 0..7
  BY Numbers DEF LinkInv, ClientTypes
<1>7. ASSUME Says(wire')
      PROVE  /\ ClientTypes' /\ OutInv' /\ UpInv' /\ DownInv'
             /\ \A i \in 1..Len(down') :
                   \/ i \in 1..Len(down) /\ down'[i] = down[i]
                   \/ down'[i] = wire' /\ wire' # NoFrame
             /\ (\A j \in 1..Len(up) : up[j] = out)
                => \A j \in 1..Len(up') : up'[j] = out
  BY <1>1, <1>5, <1>7, Transmits
<1>8. ASSUME Says(wire'), InStep',
             tx_ext' # NoFrame => tx_ext'.type \in Numbered,
             wire' # NoFrame => wire'.type # "FRMR"
      PROVE  LinkInv'
  <2>1. MeterInv' /\ NeverRejected'
    BY <1>1, <1>3, <1>8 DEF MeterInv, NeverRejected
  <2>2. ConnectInv'
    BY <1>2 DEF ConnectInv
  <2> QED
    BY <1>7, <1>8, <2>1, <2>2 DEF LinkInv
<1>9. CASE Stays
  <2>1. /\ UNCHANGED <<dl_seq_Rto, dl_seq_Sto, tx_ext>>
        /\ wire' = amr_tx \/ wire' = tx_ext
    BY <1>9 DEF Stays
  <2>2. tx_ext # NoFrame =>
          /\ tx_ext.type \in Numbered
          /\ IF Taken THEN Fresh(tx_ext) ELSE Late(tx_ext)
    BY <1>4 DEF LinkInv, MeterInv, Accepted, Awaiting
  <2>3. Says(wire')
    <3>1. CASE wire' = amr_tx
      BY <3>1, PushOut
    <3>2. CASE wire' = tx_ext
      BY <1>4, <2>2, <3>2 DEF Says, Accepted, Awaiting
    <3> QED
      BY <2>1, <3>1, <3>2
  <2>4. wire' # NoFrame => wire'.type # "FRMR"
    BY <2>1, <2>2, PushOut DEF Numbered
  <2>5. Taken' <=> Taken
    BY <1>2, <2>1 DEF Taken
  <2>6. CASE Taken
    <3>1. Accepted /\ out # NoFrame
      BY <1>4, <2>6 DEF Taken
    <3>2. \A i \in 1..Len(down') : Fresh(down'[i]) => down'[i] = tx_ext
      BY <1>7, <2>1, <2>3, <3>1, PushOut DEF Accepted, Fresh
    <3>3. tx_ext.type = "I" /\ tx_ext.seg => MayContinue'
      BY <1>9, <2>1, <2>6, <3>1 DEF Accepted, Stays, MayContinue, TailLeft
    <3>4. Accepted'
      BY <1>2, <1>7, <2>1, <2>3, <3>1, <3>2, <3>3 DEF Accepted, Fresh
    <3> QED
      BY <1>3, <1>4, <1>8, <2>1, <2>2, <2>3, <2>4, <2>5, <2>6, <3>4 DEF InStep
  <2>7. CASE ~Taken
    <3>1. Awaiting
      BY <1>4, <2>7
    <3>2. \A i \in 1..Len(down') : ~Fresh(down'[i])
      <4>1. wire' # NoFrame => ~Fresh(wire')
        BY <1>6, <2>1, <2>2, <2>7, PushOut DEF Fresh, Late
      <4> QED
        BY <1>7, <2>3, <3>1, <4>1 DEF Awaiting
    <3>3. out.type = "RR" => MayContinue'
      BY <1>9, <2>1, <3>1 DEF Awaiting, Stays, MayContinue, TailLeft
    <3>4. Awaiting'
      BY <1>2, <2>1, <3>1, <3>2, <3>3 DEF Awaiting, Fresh, Late
    <3> QED
      BY <1>3, <1>4, <1>8, <2>1, <2>2, <2>3, <2>4, <2>5, <2>7, <3>4 DEF InStep
  <2> QED
    BY <2>6, <2>7
<1>10. CASE Nacks
  <2>1. Awaiting /\ out.type = "RR"
    BY <1>4, <1>10 DEF Nacks
  <2>2. Late(tx_ext') /\ ~Fresh(tx_ext') /\ wire' = tx_ext'
    BY <1>6, <1>10 DEF Nacks, Late, Fresh
  <2>3. Says(wire')
    BY <2>1, <2>2 DEF Says, Awaiting
  <2>4. \A i \in 1..Len(down') : ~Fresh(down'[i])
    BY <1>7, <2>1, <2>2, <2>3 DEF Awaiting
  <2>5. ~Taken'
    BY <1>2, <1>10 DEF Nacks, Taken
  <2>6. Awaiting'
    BY <1>2, <1>10, <2>1, <2>2, <2>4
       DEF Nacks, Awaiting, Fresh, Late, MayContinue, TailLeft
  <2> QED
    BY <1>3, <1>4, <1>8, <1>10, <2>2, <2>3, <2>5, <2>6
       DEF InStep, Nacks, Numbered
<1>11. CASE Takes(up[1])
  <2>1. Awaiting /\ ~Taken /\ up[1] = out /\ wire' = tx_ext'
    BY <1>11 DEF Takes
  <2>2. Fresh(tx_ext') /\ tx_ext'.type \in Numbered
    BY <1>11 DEF Takes, Fresh, Numbered
  <2>3. \A j \in 1..Len(up) : up[j] = out
    <3>1. \A j \in 1..Len(up) : up[j] = out
      BY <1>1, <2>1 DEF LinkInv, UpInv
    <3> QED
      BY <3>1
  <2>4. Says(wire')
    BY <2>1, <2>2, <2>3 DEF Says
  <2>5. \A i \in 1..Len(down') : Fresh(down'[i]) => down'[i] = tx_ext'
    BY <1>7, <2>1, <2>4 DEF Awaiting
  <2>6. Taken'
    BY <1>2, <1>11 DEF Takes, Taken
  <2>7. Accepted'
    BY <1>2, <1>7, <1>11, <2>2, <2>3, <2>4, <2>5 DEF Takes, Accepted, Fresh
  <2> QED
    BY <1>3, <1>4, <1>8, <2>1, <2>2, <2>4, <2>6, <2>7 DEF InStep, Numbered
<1> QED
  BY <1>3, <1>9, <1>10, <1>11

LEMMA MeterRcvStep ==
    ASSUME LinkInv, MeterRcv
    PROVE  LinkInv'
<1>1. peer # "off"
  <2>1. up # <<>>
    BY DEF MeterRcv
  <2> QED
    BY <2>1 DEF LinkInv, UpInv
<1>2. peer \in {"connecting", "on"} /\ dl_conn_state \in {"NDM", "NRM"}
  BY <1>1 DEF LinkInv, ClientTypes, MeterInv, IInv, ConnInv
<1> QED
  BY <1>2, MeterRcvConnecting, MeterRcvDropped, MeterRcvInStep

-----------------------------------------------------------------------------
(* The three facts that make LinkInv an invariant. *)
LEMMA InitLinkInv == LinkInit => LinkInv
<1> SUFFICES ASSUME LinkInit PROVE LinkInv
  OBVIOUS
<1> USE DEF LinkInit
<1>1. IInv
  BY InitIInv
<1>2. MeterInv /\ NeverRejected
  BY <1>1 DEF MeterInv, NeverRejected, Init
<1>3. ClientTypes
  BY DEF ClientTypes
<1>4. OutInv /\ UpInv /\ DownInv /\ ConnectInv /\ InStep
  BY DEF OutInv, UpInv, DownInv, ConnectInv, InStep
<1> QED
  BY <1>2, <1>3, <1>4 DEF LinkInv

LEMMA NextLinkInv == LinkInv /\ [LinkNext]_linkAllVars => LinkInv'
<1> SUFFICES ASSUME LinkInv, [LinkNext]_linkAllVars PROVE LinkInv'
  OBVIOUS
<1>1. CASE Connect
  BY <1>1, ConnectStep
<1>2. CASE Retransmit
  BY <1>2, RetransmitStep
<1>3. CASE GiveUp
  BY <1>3, GiveUpStep
<1>4. CASE ClientRcv
  BY <1>4, ClientRcvStep
<1>5. ASSUME NEW r \in Requests, Issue(r) PROVE LinkInv'
  BY <1>5, IssueStep
<1>6. CASE MeterRcv
  BY <1>6, MeterRcvStep
<1>7. CASE MeterIdle
  BY <1>7, MeterIdleStep
<1>8. CASE MeterStops
  BY <1>8, MeterStopsStep
<1>9. ASSUME NEW f \in Noise, MeterHears(f) PROVE LinkInv'
  BY <1>9, MeterHearsStep
<1>10. ASSUME NEW p \in Pushes, MeterPushes(p) PROVE LinkInv'
  BY <1>10, MeterPushesStep
<1>11. CASE Lose
  BY <1>11, DropUpStep, DropDownStep DEF Lose
<1>12. CASE UNCHANGED linkAllVars
  <2>1. UNCHANGED <<clientVars, mediumVars>> /\ UNCHANGED vars
    BY <1>12 DEF linkAllVars
  <2>2. ClientTypes' /\ OutInv' /\ UpInv' /\ DownInv'
    BY <2>1, SilentStep
  <2>3. MeterInv' /\ NeverRejected'
    BY <2>1, MeterUnchanged
  <2>4. ConnectInv' /\ InStep'
    BY <2>1
       DEF LinkInv, ConnectInv, FreshConnection, InStep, Taken, Accepted,
           Awaiting, Fresh, Late, MayContinue, TailLeft, linkVars, seqVars,
           segVars, extVars, parseVars, clientVars, mediumVars, vars
  <2> QED
    BY <2>2, <2>3, <2>4 DEF LinkInv
<1> QED
  BY <1>1, <1>2, <1>3, <1>4, <1>5, <1>6, <1>7, <1>8, <1>9, <1>10, <1>11,
     <1>12 DEF LinkNext

LEMMA SpecLinkInv == LinkSpec => []LinkInv
BY InitLinkInv, NextLinkInv, PTL DEF LinkSpec

-----------------------------------------------------------------------------
(* Whatever is lost, repeated or pushed, whatever other stations send and  *)
(* whichever NV accesses fail: at most one frame separates the meter from  *)
(* a conforming client, in either direction.                               *)
THEOREM LinkInStep == LinkSpec => []NumbersInStep
<1>1. LinkInv => NumbersInStep
  <2> SUFFICES ASSUME LinkInv, peer = "on", dl_conn_state = "NRM"
               PROVE  NumbersInStep
    BY DEF NumbersInStep
  <2>1. /\ Succ(c_vs) # c_vs /\ Succ(c_vr) # c_vr
    BY Numbers DEF LinkInv, ClientTypes
  <2>2. IF Taken THEN Accepted ELSE Awaiting
    BY DEF LinkInv, InStep
  <2>3. CASE Taken
    <3>1. Accepted /\ out # NoFrame /\ request # NoRequest
      BY <2>2, <2>3 DEF Taken, LinkInv, OutInv
    <3> QED
      BY <3>1 DEF Accepted, Fresh, NumbersInStep
  <2>4. CASE ~Taken
    BY <2>1, <2>2, <2>4 DEF Awaiting, NumbersInStep
  <2> QED
    BY <2>3, <2>4
<1> QED
  BY <1>1, SpecLinkInv, PTL

(* No frame of a conforming client is ever rejected. *)
THEOREM LinkNeverRejects == LinkSpec => []NeverRejected
<1>1. LinkInv => NeverRejected
  BY DEF LinkInv
<1> QED
  BY <1>1, SpecLinkInv, PTL

(* The invariants of the meter alone, whose runs take arbitrary frames,    *)
(* hold with this client and on this bus as well.                          *)
THEOREM LinkMeterSafe ==
    LinkSpec => [](/\ TypeOK /\ KeptFrameIsCurrent
                   /\ KeptFramesBelongToClient /\ SegOffsetInBuffer)
<1>1. LinkInv => /\ TypeOK /\ KeptFrameIsCurrent
                 /\ KeptFramesBelongToClient /\ SegOffsetInBuffer
  BY IInvImplies DEF LinkInv, MeterInv
<1> QED
  BY <1>1, SpecLinkInv, PTL
=============================================================================
