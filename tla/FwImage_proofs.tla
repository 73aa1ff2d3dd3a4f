--------------------------- MODULE FwImage_proofs ---------------------------
(***************************************************************************)
(* Proofs about FwImage, for every set of images and every size of the     *)
(* page, of the images and of the area they are written to.                *)
(***************************************************************************)
EXTENDS FwImage, TLAPS

-----------------------------------------------------------------------------
(***************************************************************************)
(* The inductive invariant.  The first three parts are the types; the      *)
(* fourth says that the counters count the blocks received and when they   *)
(* are all there, the fifth that the hash under way is over these blocks.  *)
(***************************************************************************)

(* The control data of the object and the history. *)
ControlType ==
    /\ int_status_bits \subseteq {"ACTI_INIT", "NAME", "LAST_TRFR", "HASH_GEN"}
    /\ transfer_status \in {"NOT_INITIATED", "INITIATED", "VERIFY_SUCCESSFUL",
                            "VERIFY_FAILED"}
    /\ name \in Images \cup {NoImage}
    /\ image_size \in Nat /\ image_rcv_size \in Nat /\ blk_number \in Nat
    /\ fw_type \in Parts /\ update_go \in BOOLEAN
    /\ fwup_fsm \in {"NONE", "UP", "UP_OP"}
    /\ appl_resp_result \in {"OK", "DATA_NG", "OTHER", "VERIFY_FAILED"}
    /\ begun \in BOOLEAN /\ received \in Seq(Block)

(* The hash and the integrity check. *)
HashType ==
    /\ hash \in Seq(Block)
    /\ hash_ctx \in [busy : BOOLEAN, seq : Seq(Block)]
    /\ linebuf \in Block \cup {Old}
    /\ eof_found \in BOOLEAN /\ chk_sum_err \in BOOLEAN

(* The page buffer and the flash. *)
StoreType ==
    /\ flash_addr \in Nat /\ flash_page_size \in {0, PageBlocks}
    /\ rcv_len \in 0..PageBlocks - 1
    /\ sub_img \in [0..PageBlocks - 1 -> Block \cup {Old}]
    /\ flash \in [0..FlashBlocks - 1 -> Block \cup {Old}]
    /\ intact \in BOOLEAN

(* LAST_TRFR outlives an initiation, but the count does not. *)
CountInv ==
    /\ image_rcv_size = Len(received) /\ blk_number = Len(received)
    /\ image_rcv_size <= image_size
    /\ "LAST_TRFR" \in int_status_bits =>
          image_rcv_size = 0 \/ image_rcv_size = image_size

HashInv ==
    begun /\ Part[name] = "SYS" /\ received # <<>>
          /\ image_rcv_size < image_size
    => hash_ctx.busy /\ hash_ctx.seq = received

IInv == ControlType /\ HashType /\ StoreType /\ CountInv /\ HashInv

-----------------------------------------------------------------------------
(* A block is an image and a number less than its size. *)
LEMMA BlockFields ==
    ASSUME NEW b \in Block
    PROVE  b[1] \in Images /\ b[2] \in Nat
BY FwImageAssumption DEF Block

LEMMA InitIInv == Init => IInv
<1> SUFFICES ASSUME Init PROVE IInv
  OBVIOUS
<1>0. <<>> \in Seq(Block) /\ Len(<<>>) = 0
  OBVIOUS
<1>1. ControlType
  BY <1>0 DEF Init, ConInit, ControlType, Parts
<1>2. HashType
  BY <1>0 DEF Init, ConInit, HashType, NoHash
<1>3. StoreType
  BY FwImageAssumption DEF Init, ConInit, StoreType
<1>4. CountInv /\ HashInv
  BY DEF Init, ConInit, CountInv, HashInv
<1> QED
  BY <1>1, <1>2, <1>3, <1>4 DEF IInv

(* The flash stays a flash, whether or not a write takes effect. *)
LEMMA FlashWriteType ==
    ASSUME StoreType, NEW addr \in Nat, NEW n \in Nat,
           NEW data \in [0..n -> Block \cup {Old}], FlashWrite(addr, data)
    PROVE  /\ flash' \in [0..FlashBlocks - 1 -> Block \cup {Old}]
           /\ intact' \in BOOLEAN
BY FwImageAssumption DEF FlashWrite, StoreType

LEMMA BuffUpdateType ==
    ASSUME StoreType, NEW b \in Block, NEW last \in BOOLEAN,
           BuffUpdate(b, last)
    PROVE  StoreType'
<1> DEFINE page == [sub_img EXCEPT ![rcv_len] = b]
<1>1. /\ page \in [0..PageBlocks - 1 -> Block \cup {Old}]
      /\ PageBlocks - 1 \in Nat /\ rcv_len \in Nat
  BY FwImageAssumption DEF StoreType
<1>2. [i \in 0..rcv_len |-> page[i]] \in [0..rcv_len -> Block \cup {Old}]
  BY <1>1 DEF StoreType
<1>3. sub_img' = page /\ flash_page_size' = flash_page_size
  BY DEF BuffUpdate
<1> HIDE DEF page
<1>4. CASE /\ rcv_len + 1 >= flash_page_size
           /\ FlashWrite(flash_addr, [i \in 0..rcv_len |-> page[i]])
           /\ rcv_len' = 0
           /\ flash_addr' = flash_addr + flash_page_size
  <2>1. /\ flash' \in [0..FlashBlocks - 1 -> Block \cup {Old}]
        /\ intact' \in BOOLEAN
    BY <1>1, <1>2, <1>4, FlashWriteType DEF StoreType
  <2> QED
    BY <1>1, <1>3, <1>4, <2>1, FwImageAssumption DEF StoreType
<1>5. CASE /\ FlashWrite(flash_addr, page)
           /\ rcv_len' = 0 /\ flash_addr' = flash_addr
  <2>1. /\ flash' \in [0..FlashBlocks - 1 -> Block \cup {Old}]
        /\ intact' \in BOOLEAN
    BY <1>1, <1>5, FlashWriteType DEF StoreType
  <2> QED
    BY <1>1, <1>3, <1>5, <2>1, FwImageAssumption DEF StoreType
<1>6. CASE /\ ~(rcv_len + 1 >= flash_page_size)
           /\ rcv_len' = rcv_len + 1
           /\ UNCHANGED <<flash_addr, flash, intact>>
  BY <1>1, <1>3, <1>6, FwImageAssumption DEF StoreType
<1> QED
  BY <1>4, <1>5, <1>6 DEF BuffUpdate, page

LEMMA MeterUpdateType ==
    ASSUME StoreType, NEW b \in Block, MeterUpdate(b)
    PROVE  StoreType'
<1>1. [i \in {0} |-> b] \in [0..0 -> Block \cup {Old}]
  OBVIOUS
<1>2. /\ flash' \in [0..FlashBlocks - 1 -> Block \cup {Old}]
      /\ intact' \in BOOLEAN
  BY <1>1, FlashWriteType DEF MeterUpdate, StoreType
<1> QED
  BY <1>2 DEF MeterUpdate, StoreType

-----------------------------------------------------------------------------
(* What a counted block does to the hash and the counters. *)

LEMMA HashBlockType ==
    ASSUME HashType, NEW b \in Block, NEW last \in BOOLEAN,
           HashBlock(b, last)
    PROVE  /\ hash' \in Seq(Block)
           /\ hash_ctx' \in [busy : BOOLEAN, seq : Seq(Block)]
<1>1. /\ hash_ctx.seq \in Seq(Block) /\ <<b>> \in Seq(Block)
      /\ Append(hash_ctx.seq, b) \in Seq(Block)
      /\ NoHash \in [busy : BOOLEAN, seq : Seq(Block)]
  BY DEF HashType, NoHash
<1>2. CASE hash' = Append(hash_ctx.seq, b) /\ hash_ctx' = NoHash
  BY <1>1, <1>2
<1>3. CASE hash' = hash /\ hash_ctx' = hash_ctx
  BY <1>3 DEF HashType
<1>4. CASE /\ hash' = hash
           /\ hash_ctx' = [busy |-> TRUE,
                           seq |-> IF blk_number = 0 THEN <<b>>
                                   ELSE Append(hash_ctx.seq, b)]
  BY <1>1, <1>4 DEF HashType
<1> QED
  BY <1>2, <1>3, <1>4 DEF HashBlock

LEMMA CheckBlockType ==
    ASSUME HashType, NEW b \in Block, NEW last \in BOOLEAN,
           CheckBlock(b, last)
    PROVE  /\ linebuf' \in Block \cup {Old}
           /\ eof_found' \in BOOLEAN /\ chk_sum_err' \in BOOLEAN
<1>1. Checks(b, Old) \in BOOLEAN /\ Checks(b, linebuf) \in BOOLEAN
  BY DEF Checks
<1>2. IsEof(b) \in BOOLEAN
  BY DEF IsEof
<1> HIDE DEF Checks, IsEof
<1> QED
  BY <1>1, <1>2 DEF CheckBlock, HashType, HashEnds

(* A counted block keeps the counters in step with what is received. *)
LEMMA CountKeeps ==
    ASSUME IInv, NEW b \in Block, blk_number = b[2],
           image_rcv_size < image_size, Count(b),
           fwup_fsm' \in {"NONE", "UP", "UP_OP"}
    PROVE  ControlType' /\ HashType' /\ CountInv' /\ HashInv'
<1> DEFINE last == image_rcv_size + 1 >= image_size
<1>1. last \in BOOLEAN /\ b[2] \in Nat
  BY BlockFields
<1>2. /\ received' \in Seq(Block) /\ received' = Append(received, b)
      /\ Len(received') = Len(received) + 1
  BY DEF Count, IInv, ControlType
<1>3. ControlType'
  BY <1>1, <1>2 DEF Count, IInv, ControlType, infoVars, goVars
<1>4. HashType'
  BY <1>1, HashBlockType, CheckBlockType DEF Count, IInv, HashType
<1>5. CountInv'
  BY <1>2 DEF Count, IInv, CountInv, ControlType, infoVars
<1>6. HashInv'
  <2> SUFFICES ASSUME begun, Part[name] = "SYS", ~last
               PROVE  hash_ctx'.busy /\ hash_ctx'.seq = received'
    BY DEF HashInv, Count, infoVars, IInv, ControlType
  <2>1. ~HashEnds(last) /\ ~Meter
    BY DEF HashEnds, Meter
  <2>2. CASE blk_number = 0
    <3>1. HashTakes
      BY <2>1, <2>2 DEF HashTakes, HashStarts
    <3>2. received \in Seq(Block) /\ Len(received) = 0
      BY <2>2 DEF IInv, CountInv, ControlType
    <3>3. received = <<>>
      BY <3>2
    <3> QED
      BY <1>2, <2>1, <2>2, <3>1, <3>3 DEF Count, HashBlock
  <2>3. CASE blk_number # 0
    <3>1. hash_ctx.busy /\ hash_ctx.seq = received
      BY <2>3 DEF IInv, CountInv, HashInv
    <3>2. HashTakes
      BY <2>3, <3>1 DEF HashTakes
    <3> QED
      BY <1>2, <2>1, <2>3, <3>1, <3>2 DEF Count, HashBlock
  <2> QED
    BY <2>2, <2>3
<1> QED
  BY <1>3, <1>4, <1>5, <1>6

LEMMA BlockTakenKeeps ==
    ASSUME IInv, NEW b \in Block, BlockTaken(b)
    PROVE  IInv'
<1>1. /\ blk_number = b[2] /\ image_rcv_size < image_size /\ Count(b)
      /\ fwup_fsm' = "UP"
  BY DEF BlockTaken, BlockInTurn, BlockTransfer
<1>2. ControlType' /\ HashType' /\ CountInv' /\ HashInv'
  BY <1>1, CountKeeps
<1>3. StoreType'
  <2> DEFINE last == image_rcv_size + 1 >= image_size
  <2>0. last \in BOOLEAN /\ StoreType
    BY DEF IInv
  <2> HIDE DEF last
  <2>1. CASE BuffUpdate(b, last)
    BY <2>0, <2>1, BuffUpdateType
  <2>2. CASE MeterUpdate(b)
    BY <2>2, MeterUpdateType DEF IInv
  <2>3. CASE UNCHANGED storeVars
    BY <2>0, <2>3 DEF StoreType, storeVars, pageVars
  <2> QED
    BY <2>1, <2>2, <2>3 DEF BlockTaken, last
<1> QED
  BY <1>2, <1>3 DEF IInv

-----------------------------------------------------------------------------
(* The other actions. *)

(* The requests that change no more than the state and the result. *)
LEMMA ResultKeeps ==
    ASSUME IInv,
           transfer_status' \in {"NOT_INITIATED", "INITIATED",
                                 "VERIFY_SUCCESSFUL", "VERIFY_FAILED"},
           appl_resp_result' \in {"OK", "DATA_NG", "OTHER", "VERIFY_FAILED"},
           fwup_fsm' \in {"NONE", "UP", "UP_OP"}, fw_type' \in Parts,
           update_go' \in BOOLEAN,
           UNCHANGED <<name, image_size, countVars, hashVars, storeVars,
                       histVars>>,
           int_status_bits' \in {int_status_bits,
                                 int_status_bits \ {"LAST_TRFR"}}
    PROVE  IInv'
<1> USE DEF countVars, hashVars, storeVars, pageVars, histVars
<1>1. ControlType'
  BY DEF IInv, ControlType
<1>2. HashType' /\ StoreType'
  BY DEF IInv, HashType, StoreType
<1>3. CountInv' /\ HashInv'
  BY DEF IInv, CountInv, HashInv
<1> QED
  BY <1>1, <1>2, <1>3 DEF IInv

LEMMA InitiateKeeps ==
    ASSUME IInv, NEW i \in Images, Initiate(i)
    PROVE  IInv'
<1>0. <<>> \in Seq(Block) /\ Len(<<>>) = 0
  OBVIOUS
<1>1. ControlType'
  <2>1. /\ fw_type' \in Parts /\ begun' \in BOOLEAN
        /\ appl_resp_result' \in {"OK", "DATA_NG"}
    <3>1. Part[i] \in Parts
      BY FwImageAssumption
    <3> QED
      BY <3>1 DEF Initiate, IInv, ControlType
  <2> QED
    BY <1>0, <2>1, FwImageAssumption DEF Initiate, IInv, ControlType
<1>2. HashType'
  BY DEF Initiate, IInv, HashType
<1>3. StoreType'
  <2>1. intact' \in BOOLEAN /\ flash' = flash /\ StoreType
    BY DEF Initiate, IInv, StoreType
  <2>2. CASE i \in Valid
    BY <2>1, <2>2, FwImageAssumption
       DEF Initiate, ActInitProcess, StoreType, pageVars
  <2>3. CASE i \notin Valid
    BY <2>1, <2>3 DEF Initiate, StoreType, pageVars
  <2> QED
    BY <2>2, <2>3
<1>4. CountInv' /\ HashInv'
  BY <1>0, FwImageAssumption DEF Initiate, CountInv, HashInv
<1> QED
  BY <1>1, <1>2, <1>3, <1>4 DEF IInv

LEMMA InitiateMalformedKeeps ==
    ASSUME IInv, NEW i \in Images, InitiateMalformed(i)
    PROVE  IInv'
<1> USE DEF InitiateMalformed, countVars, hashVars, storeVars, pageVars, goVars
<1>1. ControlType'
  BY DEF IInv, ControlType
<1>2. HashType' /\ StoreType'
  BY DEF IInv, HashType, StoreType
<1>3. CountInv' /\ HashInv'
  BY DEF IInv, CountInv, HashInv
<1> QED
  BY <1>1, <1>2, <1>3 DEF IInv

LEMMA BlockMethodKeeps ==
    ASSUME IInv, NEW b \in Block, BlockMethod(b)
    PROVE  IInv'
<1> USE DEF infoVars, goVars
<1>1. CASE BlockOutOfTurn(b)
  BY <1>1, ResultKeeps DEF BlockOutOfTurn, BlockTransfer, IInv, ControlType
<1>2. CASE BlockIgnored(b)
  BY <1>2, ResultKeeps
     DEF BlockIgnored, BlockInTurn, BlockTransfer, BlockNotCounted, IInv,
         ControlType
<1>3. CASE BlockFailed(b)
  BY <1>3, ResultKeeps
     DEF BlockFailed, BlockInTurn, BlockTransfer, BlockNotCounted, IInv,
         ControlType
<1>4. CASE BlockTaken(b)
  BY <1>4, BlockTakenKeeps
<1> QED
  BY <1>1, <1>2, <1>3, <1>4 DEF BlockMethod

LEMMA StartAgainKeeps ==
    ASSUME IInv, StartAgain,
           flash' \in {flash, [a \in 0..FlashBlocks - 1 |-> Old]}
    PROVE  IInv'
<1>0. <<>> \in Seq(Block) /\ Len(<<>>) = 0
  OBVIOUS
<1>1. ControlType'
  BY <1>0 DEF StartAgain, ControlType, Parts
<1>2. HashType'
  BY <1>0 DEF StartAgain, HashType, NoHash
<1>3. StoreType'
  BY FwImageAssumption DEF StartAgain, StoreType, IInv
<1>4. CountInv' /\ HashInv'
  BY <1>0 DEF StartAgain, CountInv, HashInv
<1> QED
  BY <1>1, <1>2, <1>3, <1>4 DEF IInv

LEMMA NextIInv == IInv /\ [Next]_vars => IInv'
<1> SUFFICES ASSUME IInv, [Next]_vars PROVE IInv'
  OBVIOUS
<1> USE DEF infoVars, goVars
<1>1. CASE InitiateRefused \/ BlockRefused \/ ActivateRefused
  BY <1>1, ResultKeeps
     DEF InitiateRefused, BlockRefused, ActivateRefused, Refused, IInv,
         ControlType
<1>2. CASE \E i \in Images : Initiate(i)
  BY <1>2, InitiateKeeps
<1>3. CASE \E i \in CutShort : InitiateMalformed(i)
  BY <1>3, InitiateMalformedKeeps, FwImageAssumption
<1>4. CASE \E b \in Block : BlockMethod(b)
  BY <1>4, BlockMethodKeeps
<1>5. CASE VerifyMethod
  <2>1. /\ transfer_status' \in {"VERIFY_SUCCESSFUL", "VERIFY_FAILED"}
        /\ appl_resp_result' \in {"OK", "OTHER", "VERIFY_FAILED"}
        /\ UNCHANGED <<int_status_bits, name, image_size, countVars,
                       hashVars, storeVars, goVars, fwup_fsm, histVars>>
    BY <1>5 DEF VerifyMethod, Verified
  <2> QED
    BY <2>1, ResultKeeps DEF IInv, ControlType
<1>6. CASE Activate
  BY <1>6, ResultKeeps, FwImageAssumption DEF Activate, IInv, ControlType
<1>7. CASE ImageUpdateGoProc
  <2>1. CASE /\ StartAgain
             /\ flash' \in {flash, [a \in 0..FlashBlocks - 1 |-> Old]}
    BY <2>1, StartAgainKeeps
  <2>2. CASE ~StartAgain /\ fw_type # "SYS"
    BY <1>7, <2>2, ResultKeeps DEF ImageUpdateGoProc, IInv, ControlType
  <2> QED
    BY <1>7, <2>1, <2>2, ResultKeeps DEF ImageUpdateGoProc, IInv, ControlType
<1>8. CASE ResetKey
  BY <1>8, ResultKeeps DEF ResetKey, IInv, ControlType
<1>9. CASE Restart
  BY <1>9, StartAgainKeeps DEF Restart
<1>10. CASE UNCHANGED vars
  BY <1>10, ResultKeeps DEF vars, IInv, ControlType
<1> QED
  BY <1>1, <1>2, <1>3, <1>4, <1>5, <1>6, <1>7, <1>8, <1>9, <1>10 DEF Next

LEMMA SpecIInv == Spec => []IInv
BY InitIInv, NextIInv, PTL DEF Spec

-----------------------------------------------------------------------------
(* In every run of the download every variable has its type; the index     *)
(* into the page buffer, above all, stays in the buffer.                   *)
THEOREM TypeCorrect == Spec => []TypeOK
<1>1. IInv => TypeOK
  BY DEF IInv, ControlType, HashType, StoreType, TypeOK
<1> QED
  BY <1>1, SpecIInv, PTL

(* image_verify calls a system image good only when all of it was received *)
(* since its initiation: a stale LAST_TRFR finds the count at zero, and no *)
(* image has the length zero.                                              *)
THEOREM VerifiedReceived == Spec => VerifiedSysIsReceived
<1> DEFINE A == /\ transfer_status # "VERIFY_SUCCESSFUL"
                /\ transfer_status' = "VERIFY_SUCCESSFUL"
                /\ Part[name] = "SYS"
                => Len(received) = image_size /\ CheckSysFwCrc(image_size)
<1>1. IInv /\ [Next]_vars => A
  <2> SUFFICES ASSUME IInv, [Next]_vars,
                      transfer_status # "VERIFY_SUCCESSFUL",
                      transfer_status' = "VERIFY_SUCCESSFUL",
                      Part[name] = "SYS"
               PROVE  Len(received) = image_size /\ CheckSysFwCrc(image_size)
    OBVIOUS
  <2>1. VerifyMethod
    BY DEF Next, vars, infoVars, InitiateRefused, Refused, Initiate,
           InitiateMalformed, BlockRefused, BlockMethod, BlockOutOfTurn,
           BlockIgnored, BlockFailed, BlockNotCounted, BlockTaken, Count,
           ActivateRefused, Activate, ImageUpdateGoProc, StartAgain, ResetKey,
           Restart
  <2>2. ActivNverifyIsReady /\ CheckSysFwCrc(image_rcv_size)
    BY <2>1 DEF VerifyMethod, Verified
  <2>3. image_rcv_size # 0
    BY <2>2, FwImageAssumption DEF CheckSysFwCrc
  <2>4. image_rcv_size = image_size /\ image_rcv_size = Len(received)
    BY <2>2, <2>3 DEF ActivNverifyIsReady, IInv, CountInv
  <2> QED
    BY <2>2, <2>4
<1> HIDE DEF A
<1>2. Spec => [][A]_vars
  BY <1>1, SpecIInv, PTL DEF Spec
<1> QED
  BY <1>2 DEF VerifiedSysIsReceived, A

(* From the activation to the timer nothing a client can ask for changes   *)
(* what was activated.                                                     *)
THEOREM ActivatedFrozen == Spec => ActivatedIsFrozen
<1> DEFINE A == fwup_fsm = "UP_OP" /\ update_go /\ update_go'
                => UNCHANGED <<name, image_size, countVars, hash, storeVars,
                               int_status_bits, fw_type>>
<1>1. [Next]_vars => A
  <2> SUFFICES ASSUME [Next]_vars, fwup_fsm = "UP_OP", update_go, update_go'
               PROVE  UNCHANGED <<name, image_size, countVars, hash, storeVars,
                                  int_status_bits, fw_type>>
    OBVIOUS
  <2>1. CASE InitiateRefused \/ BlockRefused \/ ActivateRefused
    BY <2>1 DEF InitiateRefused, BlockRefused, ActivateRefused, Refused,
                infoVars, goVars, hashVars
  <2>2. CASE VerifyMethod
    BY <2>2 DEF VerifyMethod, Verified, goVars, hashVars
  <2>3. CASE ResetKey \/ UNCHANGED vars
    BY <2>3 DEF ResetKey, vars, infoVars, goVars, hashVars
  <2> QED
    BY <2>1, <2>2, <2>3
       DEF Next, Initiate, InitiateMalformed, BlockMethod, BlockOutOfTurn,
           BlockIgnored, BlockFailed, BlockTaken, BlockInTurn, BlockTransfer,
           Activate, ImageUpdateGoProc, StartAgain, Restart
<1> HIDE DEF A
<1>2. Spec => [][A]_vars
  BY <1>1, PTL DEF Spec
<1> QED
  BY <1>2 DEF ActivatedIsFrozen, A

(* The hash of a system image is that of the blocks of its own download.   *)
THEOREM SysHashCovers == Spec => SysHashCoversDownload
<1> DEFINE A == hash' # hash /\ hash' # <<>> /\ begun /\ Part[name] = "SYS"
                => hash' = received'
<1>1. IInv /\ [Next]_vars => A
  <2> SUFFICES ASSUME IInv, [Next]_vars, hash' # hash, hash' # <<>>, begun,
                      Part[name] = "SYS"
               PROVE  hash' = received'
    OBVIOUS
  <2>1. PICK b \in Block : BlockTaken(b)
    BY DEF Next, vars, hashVars, InitiateRefused, Refused, Initiate,
           InitiateMalformed, BlockRefused, BlockMethod, BlockOutOfTurn,
           BlockIgnored, BlockFailed, BlockNotCounted, VerifyMethod, Verified,
           ActivateRefused, Activate, ImageUpdateGoProc, StartAgain, ResetKey,
           Restart
  <2> DEFINE last == image_rcv_size + 1 >= image_size
  <2>2. /\ HashBlock(b, last) /\ received' = Append(received, b)
        /\ image_rcv_size < image_size
    BY <2>1 DEF BlockTaken, Count
  <2>3. HashEnds(last) /\ hash' = Append(hash_ctx.seq, b)
    BY <2>2 DEF HashBlock
  <2>4. hash_ctx.seq = received
    BY <2>2, <2>3 DEF HashEnds, IInv, CountInv, HashInv
  <2> QED
    BY <2>2, <2>3, <2>4
<1> HIDE DEF A
<1>2. Spec => [][A]_vars
  BY <1>1, SpecIInv, PTL DEF Spec
<1> QED
  BY <1>2 DEF SysHashCoversDownload, A

-----------------------------------------------------------------------------
(***************************************************************************)
(* When every write takes effect, the blocks counted are where they        *)
(* belong.  The address and the fill of the page buffer add up to the      *)
(* count until the last block, so a page is written where its first block  *)
(* belongs, and no write touches a block already written.                  *)
(***************************************************************************)

InPage == flash_addr + rcv_len = Len(received)

StoreInv ==
    begun =>
       /\ Part[name] # "NONE"
       /\ Part[name] = "SYS" => /\ flash_page_size = PageBlocks
                                /\ image_rcv_size < image_size => InPage
       /\ Part[name] = "METER" => flash_addr = Len(received)
       /\ ReceivedIsStored

(* A write that fails moves the fill and the address like any other. *)
LEMMA SysBlockFailed ==
    ASSUME IInv, StoreInv, NEW b \in Block, begun, Part[name] = "SYS",
           image_rcv_size < image_size, Count(b), ~intact',
           BuffUpdate(b, image_rcv_size + 1 >= image_size)
    PROVE  StoreInv'
<1>1. /\ received \in Seq(Block) /\ flash_addr \in Nat
      /\ rcv_len \in 0..PageBlocks - 1 /\ PageBlocks \in Nat \ {0}
      /\ image_rcv_size \in Nat /\ image_size \in Nat
  BY FwImageAssumption DEF IInv, ControlType, StoreType
<1>2. flash_page_size = PageBlocks /\ flash_addr + rcv_len = Len(received)
  BY DEF StoreInv, InPage
<1>3. /\ begun' = begun /\ name' = name /\ image_size' = image_size
      /\ image_rcv_size' = image_rcv_size + 1
      /\ Len(received') = Len(received) + 1
  BY <1>1 DEF Count, infoVars
<1>4. flash_page_size' = PageBlocks
  BY <1>2 DEF BuffUpdate
<1>5. image_rcv_size' < image_size' => InPage'
  BY <1>1, <1>2, <1>3 DEF BuffUpdate, InPage
<1> QED
  BY <1>3, <1>4, <1>5 DEF StoreInv, ReceivedIsStored

(* A block of a system image. *)
LEMMA SysBlockStored ==
    ASSUME IInv, StoreInv, NEW b \in Block, Room, intact',
           begun, Part[name] = "SYS", image_rcv_size < image_size, Count(b),
           BuffUpdate(b, image_rcv_size + 1 >= image_size)
    PROVE  StoreInv'
<1> DEFINE A == flash_addr
           n == Len(received)
           page == [sub_img EXCEPT ![rcv_len] = b]
<1>1. /\ received \in Seq(Block) /\ A \in Nat /\ n \in Nat
      /\ rcv_len \in 0..PageBlocks - 1 /\ PageBlocks \in Nat \ {0}
      /\ sub_img \in [0..PageBlocks - 1 -> Block \cup {Old}]
      /\ image_rcv_size = n /\ image_size \in Nat /\ n < image_size
  BY FwImageAssumption DEF IInv, ControlType, StoreType, CountInv
<1>2. flash_page_size = PageBlocks /\ A + rcv_len = n
  BY DEF StoreInv, InPage
<1>3. FlashBlocks \in Nat /\ A + PageBlocks <= FlashBlocks
  BY FwImageAssumption DEF Room
<1>4. /\ begun' = begun /\ name' = name /\ image_size' = image_size
      /\ image_rcv_size' = n + 1
      /\ received' = Append(received, b) /\ Len(received') = n + 1
  BY <1>1 DEF Count, infoVars
<1>5. /\ sub_img' = page /\ flash_page_size' = PageBlocks
      /\ DOMAIN page = 0..PageBlocks - 1
  BY <1>1, <1>2 DEF BuffUpdate
<1>6. \A k \in 1..n : received'[k] = received[k]
  BY <1>1, <1>4
<1>7. received'[n + 1] = b
  BY <1>1, <1>4
<1>0. intact
  BY DEF BuffUpdate, FlashWrite
<1>8. \A k \in 1..n : /\ k <= A => flash[k - 1] = received[k]
                      /\ k > A => sub_img[k - 1 - A] = received[k]
  <2>1. ReceivedIsStored /\ Part[name] = "SYS" /\ image_rcv_size < image_size
    BY DEF StoreInv
  <2> QED
    BY <1>0, <1>1, <2>1 DEF ReceivedIsStored
<1>9. \A k \in 1..n + 1 : k <= A => flash[k - 1] = received'[k]
  BY <1>1, <1>2, <1>6, <1>8
<1>10. \A k \in 1..n + 1 : k > A => /\ page[k - 1 - A] = received'[k]
                                  /\ k - 1 - A \in 0..rcv_len
  <2> SUFFICES ASSUME NEW k \in 1..n + 1, k > A
               PROVE  /\ page[k - 1 - A] = received'[k]
                      /\ k - 1 - A \in 0..rcv_len
    OBVIOUS
  <2>1. CASE k = n + 1
    BY <1>1, <1>2, <1>7, <2>1
  <2>2. CASE k # n + 1
    <3>1. k \in 1..n /\ k - 1 - A \in 0..rcv_len - 1
      BY <1>1, <1>2, <2>2
    <3>2. page[k - 1 - A] = sub_img[k - 1 - A]
      BY <1>1, <3>1
    <3> QED
      BY <1>1, <1>6, <1>8, <3>1, <3>2
  <2> QED
    BY <2>1, <2>2
<1>11. \A k \in 1..n + 1 : k - 1 \in 0..FlashBlocks - 1
  BY <1>1, <1>2, <1>3
<1> HIDE DEF page
<1>12. CASE /\ rcv_len + 1 >= flash_page_size
           /\ FlashWrite(A, [i \in 0..rcv_len |-> page[i]])
           /\ rcv_len' = 0 /\ flash_addr' = A + flash_page_size
  <2>1. flash_addr' = n + 1
    BY <1>1, <1>2, <1>12
  <2>2. \A k \in 1..n + 1 : flash'[k - 1] = received'[k]
    <3> TAKE k \in 1..n + 1
    <3>1. flash' = [a \in 0..FlashBlocks - 1 |->
                      IF a - A \in 0..rcv_len THEN page[a - A] ELSE flash[a]]
      BY <1>12 DEF FlashWrite
    <3>2. flash'[k - 1] = IF k - 1 - A \in 0..rcv_len THEN page[k - 1 - A]
                                                      ELSE flash[k - 1]
      BY <1>11, <3>1
    <3> QED
      BY <1>1, <1>9, <1>10, <3>2
  <2> QED
    BY <1>1, <1>4, <1>5, <1>12, <2>1, <2>2
       DEF StoreInv, InPage, ReceivedIsStored
<1>13. CASE /\ image_rcv_size + 1 >= image_size /\ FlashWrite(A, page)
            /\ rcv_len' = 0 /\ flash_addr' = A
  <2>1. \A k \in 1..n + 1 : flash'[k - 1] = received'[k]
    <3> TAKE k \in 1..n + 1
    <3>1. flash' = [a \in 0..FlashBlocks - 1 |->
                      IF a - A \in 0..PageBlocks - 1 THEN page[a - A]
                                                     ELSE flash[a]]
      BY <1>5, <1>13 DEF FlashWrite
    <3>2. flash'[k - 1] = IF k - 1 - A \in 0..PageBlocks - 1
                          THEN page[k - 1 - A] ELSE flash[k - 1]
      BY <1>11, <3>1
    <3> QED
      BY <1>1, <1>9, <1>10, <3>2
  <2>2. ~(image_rcv_size' < image_size')
    BY <1>1, <1>4, <1>13
  <2> QED
    BY <1>1, <1>4, <1>5, <2>1, <2>2 DEF StoreInv, ReceivedIsStored
<1>14. CASE /\ rcv_len' = rcv_len + 1
            /\ UNCHANGED <<flash_addr, flash, intact>>
            /\ image_rcv_size + 1 < image_size
  BY <1>1, <1>2, <1>4, <1>5, <1>9, <1>10, <1>14
     DEF StoreInv, InPage, ReceivedIsStored
<1>15. ~(image_rcv_size + 1 >= image_size) => image_rcv_size + 1 < image_size
  BY <1>1
<1> QED
  BY <1>12, <1>13, <1>14, <1>15, Zenon DEF BuffUpdate, page

(* A block of a metering image. *)
LEMMA MeterBlockStored ==
    ASSUME IInv, StoreInv, NEW b \in Block, Room,
           begun, Part[name] = "METER", Count(b), MeterUpdate(b)
    PROVE  StoreInv'
<1> DEFINE n == Len(received)
<1>1. received \in Seq(Block) /\ n \in Nat /\ flash_addr = n
  BY DEF IInv, ControlType, StoreInv
<1>2. FlashBlocks \in Nat /\ n + 1 <= FlashBlocks
  BY <1>1, FwImageAssumption DEF Room
<1>3. /\ begun' = begun /\ name' = name /\ received' = Append(received, b)
      /\ Len(received') = n + 1 /\ flash_addr' = n + 1
  BY <1>1 DEF Count, infoVars, MeterUpdate
<1>4. intact' => \A k \in 1..n + 1 : flash'[k - 1] = received'[k]
  <2> SUFFICES ASSUME intact', NEW k \in 1..n + 1
               PROVE  flash'[k - 1] = received'[k]
    OBVIOUS
  <2>0. /\ intact
        /\ flash' = [a \in 0..FlashBlocks - 1 |->
                       IF a - n \in {0} THEN b ELSE flash[a]]
    BY <1>1 DEF MeterUpdate, FlashWrite
  <2>1. flash'[k - 1] = IF k - 1 - n \in {0} THEN b ELSE flash[k - 1]
    BY <1>1, <1>2, <2>0
  <2>2. k <= n => flash[k - 1] = received[k]
    <3>1. ReceivedIsStored
      BY DEF StoreInv
    <3> QED
      BY <1>1, <2>0, <3>1 DEF ReceivedIsStored
  <2> QED
    BY <1>1, <1>3, <2>1, <2>2
<1> QED
  BY <1>3, <1>4 DEF StoreInv, ReceivedIsStored

LEMMA NextStoreInv == IInv /\ StoreInv /\ [Next]_vars => StoreInv'
<1> SUFFICES ASSUME IInv, StoreInv, [Next]_vars PROVE StoreInv'
  OBVIOUS
<1>1. ASSUME UNCHANGED <<name, image_size, countVars, storeVars, histVars>>
      PROVE  StoreInv'
  BY <1>1 DEF StoreInv, ReceivedIsStored, InPage, countVars, storeVars,
              pageVars, histVars
<1>2. ASSUME ~begun' PROVE StoreInv'
  BY <1>2 DEF StoreInv
<1> USE DEF infoVars, goVars
<1>3. CASE \E i \in Images : Initiate(i)
  <2>1. PICK i \in Images : Initiate(i)
    BY <1>3
  <2>2. CASE i \in Valid
    <3>1. /\ received' = <<>> /\ Len(received') = 0 /\ name' = i
          /\ Part[i] # "NONE" /\ ActInitProcess(i)
      BY <2>1, <2>2, FwImageAssumption DEF Initiate
    <3>2. /\ Part[i] = "SYS" => /\ flash_page_size' = PageBlocks
                                /\ flash_addr' = 0 /\ rcv_len' = 0
          /\ Part[i] = "METER" => flash_addr' = 0
      BY <3>1 DEF ActInitProcess
    <3> QED
      BY <3>1, <3>2 DEF StoreInv, InPage, ReceivedIsStored
  <2> QED
    BY <1>2, <2>1, <2>2 DEF Initiate
<1>4. CASE \E b \in Block : BlockMethod(b)
  <2>1. PICK b \in Block : BlockMethod(b)
    BY <1>4
  <2>2. CASE BlockTaken(b)
    <3>1. Count(b) /\ image_rcv_size < image_size /\ Room
      BY <2>1, <2>2 DEF BlockTaken, BlockMethod
    <3>2. CASE ~begun
      BY <1>2, <3>1, <3>2 DEF Count
    <3>3. CASE begun /\ Part[name] = "SYS"
      BY <2>2, <3>1, <3>3, SysBlockStored, SysBlockFailed DEF BlockTaken
    <3>4. CASE begun /\ Part[name] = "METER"
      BY <2>2, <3>1, <3>4, MeterBlockStored DEF BlockTaken
    <3>5. CASE begun /\ Part[name] = "MDM"
      BY <3>1, <3>5 DEF StoreInv, ReceivedIsStored, Count
    <3> QED
      BY <2>2, <3>2, <3>3, <3>4, <3>5 DEF BlockTaken
  <2> QED
    BY <1>1, <2>1, <2>2
       DEF BlockMethod, BlockOutOfTurn, BlockIgnored, BlockFailed,
           BlockNotCounted
<1>5. CASE StartAgain \/ \E i \in CutShort : InitiateMalformed(i)
  BY <1>2, <1>5 DEF StartAgain, InitiateMalformed
<1>6. CASE InitiateRefused \/ BlockRefused \/ ActivateRefused
  BY <1>1, <1>6 DEF InitiateRefused, BlockRefused, ActivateRefused, Refused
<1>7. CASE VerifyMethod \/ Activate \/ ResetKey \/ UNCHANGED vars
  BY <1>1, <1>7 DEF VerifyMethod, Verified, Activate, ResetKey, vars
<1>8. CASE ImageUpdateGoProc
  BY <1>1, <1>5, <1>8 DEF ImageUpdateGoProc
<1> QED
  BY <1>3, <1>4, <1>5, <1>6, <1>7, <1>8 DEF Next, Restart

(* As long as the writes of a download succeed, every block counted is in   *)
(* the flash at its place or still in the page buffer.                     *)
THEOREM ReceivedStored == Spec => []ReceivedIsStored
<1>1. Init => StoreInv
  BY DEF Init, ConInit, StoreInv
<1>2. StoreInv => ReceivedIsStored
  BY DEF StoreInv, ReceivedIsStored
<1>3. IInv /\ StoreInv /\ [Next]_vars => StoreInv'
  BY NextStoreInv
<1> QED
  BY <1>1, <1>2, <1>3, SpecIInv, PTL DEF Spec
=============================================================================
