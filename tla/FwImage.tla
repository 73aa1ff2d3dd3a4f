------------------------------ MODULE FwImage ------------------------------
(***************************************************************************)
(* Firmware download: the four methods of the DLMS image transfer object   *)
(* for firmware (ob_fwimage_transfer_cmd in dlms/act_req.c), the download  *)
(* state, page buffer and hash behind them (dlms/amg_imagetransfer.c) and  *)
(* the timer that runs the activated image (dsm_image_update_go_proc).     *)
(* All of it runs in the meter task; what interleaves are the requests of  *)
(* the client, the timer, the reset key and restarts.                      *)
(*                                                                         *)
(* Sizes and addresses are counted in transfer blocks, a block being       *)
(* <<image, number>>.  The system image and the metering image are written *)
(* to the same flash area; the modem images go to the modem at once.       *)
(***************************************************************************)
EXTENDS Integers, Sequences

CONSTANTS
    Images,        \* the images a client may have
    NoImage,       \* the cleared name
    Part,          \* the part an image is for, by its name
    Size,          \* its length
    Valid,         \* the images whose name dsm_fw_is_valid accepts
    CutShort,      \* images whose initiation may come with a malformed size
    Stray,         \* blocks a client may send under another image's name
    Corrupt,       \* the metering blocks with a wrong Intel-HEX checksum
    Old,           \* what memory holds that no download has written
    PageBlocks,    \* blocks in a flash page: 2048 / 512
    FlashBlocks,   \* bound: blocks in the download area
    MaxHashed,     \* bound: blocks in one hash
    WriteOutcomes, \* whether a flash write takes effect
    ModemOutcomes  \* whether the modem takes a block, or has the same hash

Parts == {"SYS", "METER", "MDM", "NONE"}
Block == UNION {{i} \X (0..Size[i] - 1) : i \in Images}

ASSUME FwImageAssumption ==
    /\ NoImage \notin Images
    /\ Part \in [Images \cup {NoImage} -> Parts]
    /\ Part[NoImage] = "NONE"
    /\ Size \in [Images -> Nat \ {0}]
    /\ Valid \subseteq {i \in Images : Part[i] # "NONE"}
    /\ CutShort \subseteq Images
    /\ Stray \subseteq Block /\ Corrupt \subseteq Block
    /\ Old \notin Images \X Nat
    /\ PageBlocks \in Nat \ {0}
    /\ FlashBlocks \in Nat /\ MaxHashed \in Nat
    /\ WriteOutcomes \subseteq BOOLEAN /\ WriteOutcomes # {}
    /\ ModemOutcomes \subseteq BOOLEAN

VARIABLES
    \* gst_fw_image_dlinfo
    int_status_bits, transfer_status, name, image_size, image_rcv_size,
    blk_number, hash, flash_addr, fw_type,
    \* gst_sub_fw_info and gst_sub_fw_img
    flash_page_size, rcv_len, sub_img,
    flash,                 \* the download area
    hash_ctx,              \* the hash under way in the crypto library
    linebuf,               \* g_linebuf: the block verify_packets saw last
    eof_found,             \* g_eof_found
    chk_sum_err,           \* g_meter_fw_chk_sum_err
    fwup_fsm,              \* g_imgtrfr_fwup_fsm
    update_go,             \* MT_SW_GENERAL_TO__IMG_UPDATE_GO
    appl_resp_result,      \* the result of the last method
    \* history
    begun,                 \* the present download was initiated in order
    intact,                \* its flash writes have all taken effect
    received               \* the blocks counted since the initiation

infoVars == <<transfer_status, name, image_size>>
countVars == <<image_rcv_size, blk_number>>
hashVars == <<hash, hash_ctx, linebuf, eof_found, chk_sum_err>>
pageVars == <<flash_addr, flash_page_size, rcv_len, sub_img>>
storeVars == <<pageVars, flash, intact>>
goVars == <<fw_type, update_go>>
histVars == <<begun, received>>
vars == <<int_status_bits, infoVars, countVars, hashVars, storeVars, goVars,
          fwup_fsm, appl_resp_result, histVars>>

NoHash == [busy |-> FALSE, seq |-> <<>>]

(* dsm_imgtrfr_con_init and the zeroed memory of a start. *)
ConInit ==
    /\ int_status_bits = {} /\ transfer_status = "NOT_INITIATED"
    /\ name = NoImage /\ image_size = 0 /\ image_rcv_size = 0
    /\ blk_number = 0 /\ hash = <<>> /\ flash_addr = 0 /\ fw_type = "SYS"
    /\ flash_page_size = 0 /\ rcv_len = 0
    /\ sub_img = [i \in 0..PageBlocks - 1 |-> Old]
    /\ hash_ctx = NoHash /\ linebuf = Old
    /\ eof_found = FALSE /\ chk_sum_err = FALSE
    /\ fwup_fsm = "NONE" /\ update_go = FALSE
    /\ appl_resp_result = "OK"
    /\ begun = FALSE /\ intact = TRUE /\ received = <<>>

Init ==
    /\ ConInit
    /\ flash = [a \in 0..FlashBlocks - 1 |-> Old]

-----------------------------------------------------------------------------
(* The flash. A write that fails leaves the area as it was. *)
FlashWrite(addr, data) ==
    \E ok \in WriteOutcomes :
       /\ flash' = IF ok
                   THEN [a \in 0..FlashBlocks - 1 |->
                           IF a - addr \in DOMAIN data THEN data[a - addr]
                                                       ELSE flash[a]]
                   ELSE flash
       /\ intact' = (intact /\ ok)

(* Fault: a full page is noticed one block late. *)
BuffUpdate_FullLate(b, last) ==
    LET page == [sub_img EXCEPT ![rcv_len] = b]
    IN  /\ sub_img' = page
        /\ UNCHANGED flash_page_size
        /\ \/ /\ rcv_len + 1 > flash_page_size \/ last
              /\ FlashWrite(flash_addr, page)
              /\ rcv_len' = 0
              /\ flash_addr' = flash_addr + flash_page_size
           \/ /\ rcv_len + 1 <= flash_page_size /\ ~last
              /\ rcv_len' = rcv_len + 1
              /\ UNCHANGED <<flash_addr, flash, intact>>

(***************************************************************************)
(* dsm_imgtrfr_fw_subimage_buff_update, and for the last block, if it does *)
(* not fill the page, dsm_imgtrfr_fw_subimage_buff_update_force: the page  *)
(* is written as it is and the address does not move.                      *)
(***************************************************************************)
BuffUpdate(b, last) ==
    LET page == [sub_img EXCEPT ![rcv_len] = b]
        full == rcv_len + 1 >= flash_page_size
    IN  /\ sub_img' = page
        /\ UNCHANGED flash_page_size
        /\ \/ /\ full
              /\ FlashWrite(flash_addr, [i \in 0..rcv_len |-> page[i]])
              /\ rcv_len' = 0
              /\ flash_addr' = flash_addr + flash_page_size
           \/ /\ ~full /\ last
              /\ FlashWrite(flash_addr, page)
              /\ rcv_len' = 0
              /\ UNCHANGED flash_addr
           \/ /\ ~full /\ ~last
              /\ rcv_len' = rcv_len + 1
              /\ UNCHANGED <<flash_addr, flash, intact>>

(* The metering image is written block by block. *)
MeterUpdate(b) ==
    /\ FlashWrite(flash_addr, [i \in {0} |-> b])
    /\ flash_addr' = flash_addr + 1
    /\ UNCHANGED <<flash_page_size, rcv_len, sub_img>>

-----------------------------------------------------------------------------
(* verify_packets: a line of Intel-HEX goes on from one block to the next, *)
(* so a block checks only after its predecessor, and the first one only on *)
(* an empty line buffer.                                                   *)
Checks(b, line) ==
    /\ b \notin Corrupt
    /\ \/ b[2] = 0 /\ line = Old
       \/ b[2] > 0 /\ line = <<b[1], b[2] - 1>>

IsEof(b) == b \notin Corrupt /\ b[2] = Size[b[1]] - 1

(***************************************************************************)
(* dsm_imgtrfr_fwimage_hash. The hash context outlives a download that is  *)
(* abandoned; to start the hash of a system or a modem image finishes it   *)
(* first, to start that of a metering image fails.                         *)
(***************************************************************************)
Meter == Part[name] = "METER"

(* Fault: no image finishes the hash of an abandoned download. *)
HashStarts_Fails == ~hash_ctx.busy

HashStarts == IF Meter THEN ~hash_ctx.busy ELSE TRUE

HashTakes == IF blk_number = 0 THEN HashStarts ELSE hash_ctx.busy

HashEnds(last) == last /\ blk_number # 0 /\ hash_ctx.busy

HashBlock(b, last) ==
    \/ /\ HashEnds(last)
       /\ hash' = Append(hash_ctx.seq, b)
       /\ hash_ctx' = NoHash
    \/ /\ HashTakes /\ ~HashEnds(last)
       /\ hash_ctx' = [busy |-> TRUE,
                       seq |-> IF blk_number = 0 THEN <<b>>
                               ELSE Append(hash_ctx.seq, b)]
       /\ UNCHANGED hash
    \/ ~HashTakes /\ UNCHANGED <<hash, hash_ctx>>

(* The integrity check of a metering image, skipped when hashing failed. *)
CheckBlock(b, last) ==
    LET line == IF blk_number = 0 THEN Old ELSE linebuf
        err  == blk_number # 0 /\ chk_sum_err
        eof  == blk_number # 0 /\ eof_found
    IN  \/ /\ Meter /\ HashTakes
           /\ linebuf' = b
           /\ eof_found' = (eof \/ IsEof(b))
           /\ chk_sum_err' = \/ err \/ ~Checks(b, line)
                             \/ HashEnds(last) /\ ~eof_found'
        \/ /\ Meter /\ ~HashTakes
           /\ linebuf' = line /\ eof_found' = eof /\ chk_sum_err' = err
        \/ /\ ~Meter
           /\ UNCHANGED <<linebuf, eof_found, chk_sum_err>>

(* What every block taken does: it is counted and hashed. *)
Count(b) ==
    LET last == image_rcv_size + 1 >= image_size
    IN  /\ image_rcv_size' = image_rcv_size + 1
        /\ blk_number' = b[2] + 1
        /\ int_status_bits' =
              (int_status_bits \ {"LAST_TRFR"})
                 \cup (IF last THEN {"LAST_TRFR"} ELSE {})
                 \cup (IF HashEnds(last) THEN {"HASH_GEN"} ELSE {})
        /\ HashBlock(b, last)
        /\ CheckBlock(b, last)
        /\ received' = Append(received, b)
        /\ appl_resp_result' = "OK"
        /\ UNCHANGED <<infoVars, goVars, begun>>

-----------------------------------------------------------------------------
(* Method 1, image_transfer_initiate. *)

Refused ==
    /\ appl_resp_result' = "DATA_NG"
    /\ UNCHANGED <<int_status_bits, infoVars, countVars, hashVars, storeVars,
                   goVars, fwup_fsm, histVars>>

InitiateRefused == fwup_fsm = "UP_OP" /\ Refused

(* Fault: the page buffer is not emptied. *)
ActInitProcess_KeepsPage(i) ==
    /\ flash_addr' = IF Part[i] = "MDM" THEN flash_addr ELSE 0
    /\ flash_page_size' = IF Part[i] = "SYS" THEN PageBlocks ELSE flash_page_size
    /\ UNCHANGED <<rcv_len, sub_img>>

(* dsm_imgtrfr_fwimage_act_init_process, for an accepted name. *)
ActInitProcess(i) ==
    \/ /\ Part[i] = "SYS"
       /\ flash_addr' = 0 /\ flash_page_size' = PageBlocks /\ rcv_len' = 0
       /\ UNCHANGED sub_img
    \/ /\ Part[i] = "METER"
       /\ flash_addr' = 0
       /\ UNCHANGED <<flash_page_size, rcv_len, sub_img>>
    \/ /\ Part[i] = "MDM"
       /\ UNCHANGED pageVars

Initiate(i) ==
    /\ fwup_fsm # "UP_OP"
    /\ name' = i /\ image_size' = Size[i]
    /\ transfer_status' = "INITIATED"
    /\ blk_number' = 0 /\ image_rcv_size' = 0
    /\ int_status_bits' = int_status_bits \cup {"ACTI_INIT", "NAME"}
    /\ chk_sum_err' = (chk_sum_err /\ Part[i] # "METER")
    /\ \/ /\ i \in Valid
          /\ fw_type' = Part[i] /\ ActInitProcess(i)
          /\ appl_resp_result' = "OK"
          /\ begun' = TRUE /\ intact' = TRUE
       \/ /\ i \notin Valid
          /\ UNCHANGED <<fw_type, pageVars>>
          /\ appl_resp_result' = "DATA_NG"
          /\ begun' = FALSE /\ UNCHANGED intact
    /\ received' = <<>>
    /\ UNCHANGED <<hash, hash_ctx, linebuf, eof_found, flash, update_go,
                   fwup_fsm>>

(* A request whose size field is malformed has set the name by then. *)
InitiateMalformed(i) ==
    /\ fwup_fsm # "UP_OP"
    /\ name' = i
    /\ appl_resp_result' = "DATA_NG"
    /\ begun' = FALSE
    /\ UNCHANGED <<int_status_bits, transfer_status, image_size, countVars,
                   hashVars, storeVars, goVars, fwup_fsm, received>>

-----------------------------------------------------------------------------
(* Method 2, image_block_transfer, of the block b under its own number. *)

BlockRefused ==
    /\ fwup_fsm = "UP_OP" \/ "ACTI_INIT" \notin int_status_bits
    /\ Refused

(* Fault: a block is taken while the activated image waits to be run. *)
BlockTransfer_AnyTime == "ACTI_INIT" \in int_status_bits /\ fwup_fsm' = "UP"

BlockTransfer ==
    /\ fwup_fsm # "UP_OP" /\ "ACTI_INIT" \in int_status_bits
    /\ fwup_fsm' = "UP"

BlockOutOfTurn(b) ==
    /\ BlockTransfer
    /\ blk_number # b[2]
    /\ appl_resp_result' = "DATA_NG"
    /\ UNCHANGED <<int_status_bits, infoVars, countVars, hashVars, storeVars,
                   goVars, histVars>>

BlockInTurn(b) == BlockTransfer /\ blk_number = b[2]

BlockNotCounted ==
    /\ int_status_bits' = int_status_bits \ {"LAST_TRFR"}
    /\ UNCHANGED <<infoVars, countVars, hashVars, storeVars, goVars, histVars>>

(* Not counted: one too many, or for a part there is not. *)
BlockIgnored(b) ==
    /\ BlockInTurn(b)
    /\ image_rcv_size >= image_size \/ Part[name] = "NONE"
    /\ BlockNotCounted
    /\ appl_resp_result' = "OK"

(* Not counted: the first block of a system image without its mark, and a *)
(* block the modem has not taken in ATCMD_RETRY_MAX_COUNT tries.          *)
BlockFailed(b) ==
    /\ BlockInTurn(b)
    /\ image_rcv_size < image_size
    /\ \/ Part[name] = "SYS" /\ b[2] = 0 /\ Part[b[1]] # "SYS"
       \/ Part[name] = "MDM" /\ FALSE \in ModemOutcomes
    /\ BlockNotCounted
    /\ appl_resp_result' = "DATA_NG"

BlockTaken(b) ==
    /\ BlockInTurn(b)
    /\ image_rcv_size < image_size
    /\ \/ /\ Part[name] = "SYS" /\ (b[2] = 0 => Part[b[1]] = "SYS")
          /\ BuffUpdate(b, image_rcv_size + 1 >= image_size)
       \/ Part[name] = "METER" /\ MeterUpdate(b)
       \/ Part[name] = "MDM" /\ TRUE \in ModemOutcomes /\ UNCHANGED storeVars
    /\ Count(b)

(* A client sends the blocks of the image it has initiated, or a stray one. *)
Sent(b) == b[1] = name \/ b \in Stray

(* Bounds: the area and the hash have room for the block. *)
Room == flash_addr + PageBlocks <= FlashBlocks /\ Len(hash_ctx.seq) < MaxHashed

BlockMethod(b) ==
    /\ Sent(b) /\ Room
    /\ BlockOutOfTurn(b) \/ BlockIgnored(b) \/ BlockFailed(b) \/ BlockTaken(b)

-----------------------------------------------------------------------------
(* Methods 3 and 4, image_verify and image_activate. *)

ActivNverifyIsReady ==
    {"ACTI_INIT", "LAST_TRFR", "HASH_GEN"} \subseteq int_status_bits

(* Fault: the length that was announced is checked, not the one received. *)
CheckSysFwCrc_Announced(size) ==
    \E i \in Images :
       /\ Part[i] = "SYS" /\ image_size = Size[i]
       /\ \A n \in 0..image_size - 1 : n < FlashBlocks /\ flash[n] = <<i, n>>

(* check_sys_fw_crc: size blocks of flash are the whole of a system image. *)
CheckSysFwCrc(size) ==
    \E i \in Images :
       /\ Part[i] = "SYS" /\ size = Size[i]
       /\ \A n \in 0..size - 1 : n < FlashBlocks /\ flash[n] = <<i, n>>

Verified(status, result) ==
    /\ transfer_status' = status
    /\ appl_resp_result' = result
    /\ UNCHANGED <<int_status_bits, name, image_size, countVars, hashVars,
                   storeVars, goVars, fwup_fsm, histVars>>

VerifyMethod ==
    \/ ~ActivNverifyIsReady /\ Verified("VERIFY_FAILED", "VERIFY_FAILED")
    \/ /\ ActivNverifyIsReady
       /\ \/ /\ \/ Part[name] = "SYS" /\ CheckSysFwCrc(image_rcv_size)
                \/ Part[name] = "METER" /\ ~chk_sum_err
                \/ Part[name] = "MDM" /\ TRUE \in ModemOutcomes
                \/ Part[name] = "NONE"
             /\ Verified("VERIFY_SUCCESSFUL", "OK")
          \/ /\ \/ Part[name] = "SYS" /\ ~CheckSysFwCrc(image_rcv_size)
                \/ Part[name] = "METER" /\ chk_sum_err
                \/ Part[name] = "MDM" /\ FALSE \in ModemOutcomes
             /\ Verified("VERIFY_FAILED", "OTHER")

ActivateRefused ==
    /\ fwup_fsm = "UP_OP" \/ ~ActivNverifyIsReady
    /\ Refused

Activate ==
    /\ fwup_fsm # "UP_OP" /\ ActivNverifyIsReady
    /\ fwup_fsm' = "UP_OP"
    /\ fw_type' = Part[name]
    /\ update_go' = TRUE
    /\ appl_resp_result' = "OK"
    /\ UNCHANGED <<int_status_bits, infoVars, countVars, hashVars, storeVars,
                   histVars>>

-----------------------------------------------------------------------------
(* A start of the meter: the download state is not restored. *)
StartAgain ==
    /\ int_status_bits' = {} /\ transfer_status' = "NOT_INITIATED"
    /\ name' = NoImage /\ image_size' = 0 /\ image_rcv_size' = 0
    /\ blk_number' = 0 /\ hash' = <<>> /\ flash_addr' = 0 /\ fw_type' = "SYS"
    /\ flash_page_size' = 0 /\ rcv_len' = 0
    /\ sub_img' = [i \in 0..PageBlocks - 1 |-> Old]
    /\ hash_ctx' = NoHash /\ linebuf' = Old
    /\ eof_found' = FALSE /\ chk_sum_err' = FALSE
    /\ fwup_fsm' = "NONE" /\ update_go' = FALSE
    /\ appl_resp_result' = "OK"
    /\ begun' = FALSE /\ intact' = TRUE /\ received' = <<>>

Restart == StartAgain /\ UNCHANGED flash

(***************************************************************************)
(* dsm_image_update_go_proc: the loader swaps the banks of the flash and   *)
(* starts the meter; the other parts are updated from the running meter.   *)
(* What it records of the image in NV memory nothing here reads.           *)
(***************************************************************************)
ImageUpdateGoProc ==
    /\ update_go
    /\ \/ /\ fw_type = "SYS"
          /\ StartAgain
          /\ flash' \in {flash, [a \in 0..FlashBlocks - 1 |-> Old]}
       \/ /\ fw_type # "SYS"
          /\ update_go' = FALSE /\ fwup_fsm' = "NONE"
          /\ UNCHANGED <<int_status_bits, infoVars, countVars, hashVars,
                         storeVars, fw_type, appl_resp_result, histVars>>

(* The reset key, or two hours without an association. *)
ResetKey ==
    /\ fwup_fsm' = "NONE"
    /\ UNCHANGED <<int_status_bits, infoVars, countVars, hashVars, storeVars,
                   goVars, appl_resp_result, histVars>>

Next ==
    \/ InitiateRefused
    \/ \E i \in Images : Initiate(i)
    \/ \E i \in CutShort : InitiateMalformed(i)
    \/ BlockRefused
    \/ \E b \in Block : BlockMethod(b)
    \/ VerifyMethod
    \/ ActivateRefused \/ Activate
    \/ ImageUpdateGoProc
    \/ ResetKey
    \/ Restart

Spec == Init /\ [][Next]_vars

-----------------------------------------------------------------------------
TypeOK ==
    /\ int_status_bits \subseteq {"ACTI_INIT", "NAME", "LAST_TRFR", "HASH_GEN"}
    /\ transfer_status \in {"NOT_INITIATED", "INITIATED", "VERIFY_SUCCESSFUL",
                            "VERIFY_FAILED"}
    /\ name \in Images \cup {NoImage}
    /\ image_size \in Nat /\ image_rcv_size \in Nat /\ blk_number \in Nat
    /\ hash \in Seq(Block)
    /\ hash_ctx \in [busy : BOOLEAN, seq : Seq(Block)]
    /\ linebuf \in Block \cup {Old}
    /\ eof_found \in BOOLEAN /\ chk_sum_err \in BOOLEAN
    /\ flash_addr \in Nat /\ flash_page_size \in {0, PageBlocks}
    /\ rcv_len \in 0..PageBlocks - 1
    /\ sub_img \in [0..PageBlocks - 1 -> Block \cup {Old}]
    /\ flash \in [0..FlashBlocks - 1 -> Block \cup {Old}]
    /\ fw_type \in Parts /\ update_go \in BOOLEAN
    /\ fwup_fsm \in {"NONE", "UP", "UP_OP"}
    /\ appl_resp_result \in {"OK", "DATA_NG", "OTHER", "VERIFY_FAILED"}
    /\ begun \in BOOLEAN /\ intact \in BOOLEAN /\ received \in Seq(Block)

(* As long as the writes succeed, every block counted is in the flash at   *)
(* its place or, for a system image that is not complete, in the page      *)
(* buffer: fills, writes and addresses of the two paths keep in step over  *)
(* downloads that are abandoned, begun anew or of the other part.          *)
ReceivedIsStored ==
    begun /\ intact =>
       \A k \in 1..Len(received) :
          \/ /\ Part[name] = "SYS"
             /\ \/ image_rcv_size < image_size /\ k > flash_addr
                \/ flash[k - 1] = received[k]
             /\ image_rcv_size < image_size /\ k > flash_addr =>
                   sub_img[k - 1 - flash_addr] = received[k]
          \/ Part[name] = "METER" /\ flash[k - 1] = received[k]
          \/ Part[name] = "MDM"

(* image_verify calls a system image good only when all of it has been     *)
(* received since it was initiated and the flash holds a whole image of    *)
(* that length, though LAST_TRFR and HASH_GEN survive an initiation.       *)
VerifiedSysIsReceived ==
    [][ /\ transfer_status # "VERIFY_SUCCESSFUL"
        /\ transfer_status' = "VERIFY_SUCCESSFUL"
        /\ Part[name] = "SYS"
        => Len(received) = image_size /\ CheckSysFwCrc(image_size) ]_vars

(* From the activation to the timer that runs it, no request of a client   *)
(* changes what was activated.                                             *)
ActivatedIsFrozen ==
    [][ fwup_fsm = "UP_OP" /\ update_go /\ update_go'
        => UNCHANGED <<name, image_size, countVars, hash, storeVars,
                       int_status_bits, fw_type>> ]_vars

(* The hash of a system image covers exactly the blocks of its download,   *)
(* whatever download was abandoned before.                                 *)
SysHashCoversDownload ==
    [][ hash' # hash /\ hash' # <<>> /\ begun /\ Part[name] = "SYS"
        => hash' = received' ]_vars

(* amg_imagetransfer.c:1244 says of the flash write of a block that true   *)
(* is returned when it succeeded: a block of a metering image that counts  *)
(* as written would then be in the flash.                                  *)
MeterBlocksAreWritten ==
    begun /\ Part[name] = "METER" =>
       \A k \in 1..Len(received) : flash[k - 1] = received[k]

(* amg_imagetransfer.c:1285 names the download that is stopped and begun   *)
(* again as a case to be handled: a metering image received whole and      *)
(* intact passes its integrity check then, too.                            *)
IntactMeterImageChecks ==
    /\ begun /\ Part[name] = "METER" /\ received # <<>>
    /\ \A k \in 1..Len(received) :
          received[k] = <<name, k - 1>> /\ received[k] \notin Corrupt
    => ~chk_sum_err
=============================================================================
