---------------------------- MODULE LoadProfile ----------------------------
(***************************************************************************)
(* The load profiles: LP (records of an interval, 65 days), LPAVG (average *)
(* voltages, three days) and LPRT (real-time records).  Each is a ring     *)
(* that is filled from its end, with a gap behind the records a client may *)
(* read, and a counter of the records ever saved.  The rings of LP and     *)
(* LPAVG are in the EEPROM, written at every record; the counters are in   *)
(* the RAM and saved now and then, at a power failure and before the meter *)
(* restarts for new firmware.  The RAM does not survive a restart: nothing *)
(* keeps the start-up code from clearing it, so the check sums that        *)
(* whm_op_restore and mt_accm_restore look at never match, and the counter *)
(* falls back to what was saved.  A client reads a profile in blocks, by a *)
(* cursor that all profiles share.                                         *)
(*                                                                         *)
(* The profiles meet only in that cursor, so one of them, chosen at the    *)
(* start, is looked at, and the GET of another takes the cursor away.      *)
(***************************************************************************)
EXTENDS Integers

CONSTANTS
    Profiles,   \* some of "LP", "LPAVG", "LPRT"
    Size,       \* LP_SIZE, LPAVG_SIZE, LPRT_SIZE: records a client may read
    Gap,        \* LP_BUF_GAP (LP and LPAVG), LPRT_BUF_GAP
    Unit,       \* BLOCK_LP_UNIT_BOTH ...: records in a block
    LenMod,     \* 2^16: getresp_LP_len is a uint16_t
    Entries,    \* the values of from_entry and to_entry in a request
    MaxUnsaved, \* bound on the records saved between two savings of the
                \*   counter, which is saved every 15 minutes at least
    MaxIndex,   \* bound on the records saved
    MaxLosses   \* bound on the restarts and clearings that drop records

ASSUME ProfileAssumption ==
    /\ Profiles \subseteq {"LP", "LPAVG", "LPRT"}
    /\ Size \in [Profiles -> Nat \ {0}]
    /\ Gap \in [Profiles -> Nat \ {0}]
    /\ Unit \in [Profiles -> Nat \ {0}]
    /\ LenMod \in Nat \ {0}
    /\ \A p \in Profiles : Size[p] < LenMod
    /\ Entries \subseteq Nat
    /\ MaxUnsaved \in Nat \ {0}
    /\ \A p \in Profiles \ {"LPRT"} : MaxUnsaved <= Gap[p]
    /\ MaxIndex \in Nat /\ MaxLosses \in Nat

VARIABLES
    profile,   \* the profile looked at
    index,     \* LP_index, lpavg_v_index or lprt__index: in RAM
    kept,      \* the same in the EEPROM, in whm_op or mt_accm
    ring,      \* I_LP_DATA, I_LPAVG_DATA (EEPROM) or I_LPRT_DATA (RAM)
    cleared,   \* the header of the EEPROM asks for initialisation
    sag_flag,  \* I_SAG_FLAG: the state was saved at a power failure
    bootflag,  \* I_BOOT_AFTER_SWRST: restarted for new firmware
    run,       \* "on", or starting: "boot", "saged" (MT_SAGED is set)
    ac,        \* the mains as IS_AC_ON and the delay after an update show it
    ac_high,   \* m_ac_power: the mains was on when last looked at
    getresp_LP_index, \* the cursor: the next record to send
    getresp_LP_len,   \* records still to send, 0 without a transfer
    \* History: what was saved, asked for and sent
    hist,      \* the generation of each record that counts
    gen,       \* generation: counts the restarts that dropped records
    asked,     \* the request of the transfer, NoRequest without one
    block,     \* the block sent in this step: which record is where in
               \*   the transfer
    off,       \* the mains was off when last looked at
    seen       \* the counter when it was first seen to be off

ringVars == <<index, ring, hist>>
nvVars == <<kept, cleared, sag_flag, bootflag>>
powerVars == <<run, ac, ac_high, off, seen>>
cursorVars == <<getresp_LP_index, getresp_LP_len, asked>>
vars == <<profile, ringVars, nvVars, powerVars, cursorVars, gen, block>>

Buf == Size[profile] + Gap[profile]
Ram == profile = "LPRT"

(* A record is its number and generation: the values measured do not       *)
(* matter.                                                                 *)
Record == (0 .. MaxIndex) \X (0 .. MaxLosses + 1)
Blank == <<0, 0>>
NoBlock == [j \in {} |-> Blank]

Least(m, n) == IF m <= n THEN m ELSE n
Most(m, n) == IF m >= n THEN m ELSE n

(* Fault: only as many places as a client may read are used.               *)
Slot_NoGap(k) == Buf - 1 - (k % Size[profile])

(* Record k of the profile is at this place, from the end on.              *)
Slot(k) == Buf - 1 - (k % Buf)

Requests == [n : 0 .. MaxIndex, kind : {"all", "range"},
             from : Nat, to : Nat, sent : Nat]
NoRequest == [n |-> 0, kind |-> "none", from |-> 0, to |-> 0, sent |-> 0]

Init ==
    /\ profile \in Profiles
    /\ index = 0 /\ kept = 0
    /\ ring = [s \in 0 .. Buf - 1 |-> Blank]
    /\ cleared = FALSE /\ sag_flag = FALSE /\ bootflag = FALSE
    /\ run = "on" /\ ac = TRUE /\ ac_high = TRUE
    /\ getresp_LP_index = 0 /\ getresp_LP_len = 0
    /\ hist = [k \in 0 .. MaxIndex |-> 0]
    /\ gen = 1 /\ asked = NoRequest /\ block = NoBlock
    /\ off = FALSE /\ seen = 0

-----------------------------------------------------------------------------
(* Saving records. *)

(* Bound: a record that is saved now can be read again, whatever restart   *)
(* there is before the counter is saved.                                   *)
Room == index < MaxIndex /\ (Ram \/ index - kept < MaxUnsaved)

(* lp_record_write and what follows it: the record, then the counter.      *)
Write ==
    /\ Room
    /\ ring' = [ring EXCEPT ![Slot(index)] = <<index, gen>>]
    /\ index' = index + 1
    /\ hist' = [hist EXCEPT ![index] = gen]

(* LP_save, LPavg_save and LPrt_save at the end of an interval.            *)
Save ==
    /\ run = "on"
    /\ Write
    /\ block' = NoBlock
    /\ UNCHANGED <<profile, nvVars, powerVars, cursorVars, gen>>

(* whm_op_save and mt_accm_save, every 15 minutes and by the keys.         *)
Backup ==
    /\ run = "on"
    /\ kept' = index
    /\ block' = NoBlock
    /\ UNCHANGED <<profile, ringVars, cleared, sag_flag, bootflag, powerVars,
                   cursorVars, gen>>

-----------------------------------------------------------------------------
(* Power failures and restarts. *)

(* The mains fails or comes back, at any time.                             *)
Mains ==
    /\ ac' = ~ac
    /\ block' = NoBlock
    /\ UNCHANGED <<profile, ringVars, nvVars, run, ac_high, off, seen,
                   cursorVars, gen>>

(* Fault: a power failure is looked out for once only.                     *)
Rearmed_Never == ac /\ ac_high

(* ac_power_polling_check: the next failure of the mains is a new one.     *)
Rearmed == ac

(* sag_detect_proc, up to the time that the supply fails too: the state is *)
(* saved when the mains is off for the first time since it was on, by      *)
(* whm_data_save_sag.  While the supply holds the meter goes on.           *)
SagDetect ==
    /\ run = "on"
    /\ ac_high' = Rearmed
    /\ IF ~ac /\ ac_high
       THEN kept' = index /\ sag_flag' = TRUE
       ELSE UNCHANGED <<kept, sag_flag>>
    /\ off' = ~ac
    /\ seen' = IF ~ac /\ ~off THEN index ELSE seen
    /\ block' = NoBlock
    /\ UNCHANGED <<profile, ringVars, cleared, bootflag, run, ac, cursorVars,
                   gen>>

(* Records from n on count no longer.                                      *)
DropFrom(n) ==
    /\ index' = n
    /\ hist' = [k \in 0 .. MaxIndex |-> IF k < n THEN hist[k] ELSE 0]
    /\ gen' = IF n < index THEN gen + 1 ELSE gen
    /\ gen' <= MaxLosses + 1

NoTransfer ==
    /\ getresp_LP_index' = 0 /\ getresp_LP_len' = 0
    /\ asked' = NoRequest

(* The meter starts again with counter n and flag s in the EEPROM:         *)
(* mt_data_restore with whm_op_restore and mt_accm_restore, or nv_clear    *)
(* (which leaves the profiles and bootflag) and the default state.         *)
Boot(n, s, c) ==
    /\ IF c THEN kept' = 0 /\ sag_flag' = FALSE
            ELSE kept' = n /\ sag_flag' = s
    /\ cleared' = FALSE
    /\ DropFrom(IF c \/ Ram THEN 0 ELSE n)
    /\ ring' = IF Ram THEN [t \in 0 .. Buf - 1 |-> Blank] ELSE ring
    /\ run' = IF s /\ ~c THEN "saged" ELSE "boot"
    /\ ac_high' = TRUE /\ off' = FALSE
    /\ seen' = IF c \/ Ram THEN 0 ELSE seen
    /\ NoTransfer
    /\ block' = NoBlock
    /\ UNCHANGED <<profile, ac>>

(* A restart at any time: the supply fails, or a reset.                    *)
Restart ==
    /\ Boot(kept, sag_flag, cleared)
    /\ UNCHANGED bootflag

(* dsm_imgtrfr_fwimage_act_run_process for the firmware of the meter.      *)
FirmwareRestart ==
    /\ run = "on"
    /\ bootflag' = TRUE
    /\ Boot(index, TRUE, cleared)

(* pwr_rtn_proc, the last of the start: after a power failure a record is  *)
(* made of the interval it ended, unless the meter restarted for new       *)
(* firmware.  LPavg_save makes none when nothing was measured, and         *)
(* LPrt_save never has anything measured at that time.                     *)
PowerReturn ==
    /\ run # "on" /\ run' = "on"
    /\ IF run = "saged"
       THEN /\ sag_flag' = FALSE /\ bootflag' = FALSE
            /\ \/ ~bootflag /\ ~Ram /\ Write
               \/ (bootflag \/ profile # "LP") /\ UNCHANGED ringVars
       ELSE UNCHANGED <<sag_flag, bootflag, ringVars>>
    /\ block' = NoBlock
    /\ UNCHANGED <<profile, kept, cleared, ac, ac_high, off, seen,
                   cursorVars, gen>>

(* whm_clear_all: the header asks for initialisation, LP_index begins      *)
(* anew (lp_clear) and the meter restarts, or goes on when the additional  *)
(* part of a factory reset has failed.                                     *)
Clear ==
    /\ run = "on"
    /\ UNCHANGED bootflag
    /\ \/ Boot(0, FALSE, TRUE)
       \/ /\ cleared' = TRUE
          /\ IF profile = "LP"
             THEN DropFrom(0) /\ seen' = 0
             ELSE UNCHANGED <<index, hist, gen, seen>>
          /\ asked' = NoRequest
          /\ block' = NoBlock
          /\ UNCHANGED <<profile, ring, kept, sag_flag, run, ac, ac_high,
                         off, getresp_LP_index, getresp_LP_len>>

-----------------------------------------------------------------------------
(* Reading a profile. *)

(* The place of the ring d places after that of record k, from the         *)
(* beginning again behind the end: LP_read, lpavg_record_read and          *)
(* lprt_record_read.                                                       *)
After(k, d) == (Slot(k) + d) % Buf

(* Fault: the last block is as long as the others.                         *)
Reclen_Full(n) == Unit[profile]

(* The records of a block.                                                 *)
Reclen(n) == Least(n, Unit[profile])

(* fill_lp_record, fill_lpavg_record and fill_lprt_record: of the n        *)
(* records from k down those of a block are sent and the cursor moves.     *)
(* Below record 0 the counter of the code wraps; what is read there is not *)
(* stated.                                                                 *)
SendBlock(k, n, a) ==
    /\ block' = [j \in a.sent .. a.sent + Reclen(n) - 1 |->
                    ring[After(k, j - a.sent)]]
    /\ getresp_LP_index' = k - Reclen(n)
    /\ getresp_LP_len' = n - Reclen(n)
    /\ asked' = IF a = NoRequest THEN a
                ELSE [a EXCEPT !.sent = @ + Reclen(n)]

Asked(kind, f, t) ==
    [n |-> index, kind |-> kind, from |-> f, to |-> t, sent |-> 0]

Empty == NoTransfer /\ block' = NoBlock

Respond(k, n, a) == IF n = 0 THEN Empty ELSE SendBlock(k, n, a)

(* The whole profile, without selective access.                            *)
Get ==
    /\ run = "on"
    /\ IF index = 0
       THEN Empty
       ELSE Respond(index - 1, Least(index, Size[profile]),
                    Asked("all", 1, Least(index, Size[profile])))
    /\ UNCHANGED <<profile, ringVars, nvVars, powerVars, gen>>

(* The last entry of a range: none or one behind the last is the last.     *)
Clamped(t, last) == IF t = 0 \/ t > last THEN last ELSE t

(* Fault: the newest entry is left out.                                    *)
Overlapped_Short == (index - 1) % Size["LP"]

(* t32 of ob_load_profile: the entries since the profile was last full.    *)
Overlapped == ((index - 1) % Size["LP"]) + 1

(* ob_load_profile: entry e is at the place e of a profile of LP_SIZE that *)
(* is written over from its beginning when it is full.                     *)
LpRange(f, t) ==
    LET last == Least(index, Size["LP"])
        to == Clamped(t, last)
        k == IF index <= Size["LP"] THEN to - 1
             ELSE IF to <= Overlapped THEN index - Overlapped + to - 1
             ELSE index - Overlapped - 1 - (Size["LP"] - to)
    IN  IF f = 0 \/ f > last THEN Empty
        ELSE IF index <= Size["LP"] /\ t > index
        THEN Respond(index - 1, 1, Asked("range", index, index))
        ELSE IF to < f THEN Empty
        ELSE Respond(k, to - f + 1, Asked("range", f, to))

(* ob_realtime_p_load_profile: entry 1 is the newest.                      *)
LprtRange(f, t) ==
    LET last == Least(index, Size["LPRT"])
        to == Clamped(t, last)
    IN  IF f = 0 \/ f > last \/ to < f THEN Empty
        ELSE Respond(index - f, to - f + 1, Asked("range", f, to))

(* ob_lpavg: entry 1 is the newest; to_entry is not looked at.             *)
LpavgRange(f, t) ==
    LET last == Least(index, Size["LPAVG"])
        len == IF t = 0 THEN last ELSE (t - f + 1) % LenMod
    IN  IF f = 0 \/ f > last THEN Empty
        ELSE Respond(index - f, len, Asked("range", f, t))

GetRange ==
    /\ run = "on" /\ index > 0
    /\ \E f, t \in Entries :
          \/ profile = "LP" /\ LpRange(f, t)
          \/ profile = "LPRT" /\ LprtRange(f, t)
          \/ profile = "LPAVG" /\ LpavgRange(f, t)
    /\ UNCHANGED <<profile, ringVars, nvVars, powerVars, gen>>

(* approc_get_req_block with the number of the block that is due.          *)
NextBlock ==
    /\ run = "on" /\ getresp_LP_len > 0
    /\ SendBlock(getresp_LP_index, getresp_LP_len, asked)
    /\ UNCHANGED <<profile, ringVars, nvVars, powerVars, gen>>

(* Another profile is read: it takes the cursor.                           *)
GetOther ==
    /\ run = "on" /\ getresp_LP_len > 0
    /\ Empty
    /\ UNCHANGED <<profile, ringVars, nvVars, powerVars, gen>>

Next ==
    \/ Save \/ Backup \/ Mains \/ SagDetect
    \/ Restart \/ FirmwareRestart \/ PowerReturn \/ Clear
    \/ Get \/ GetRange \/ NextBlock \/ GetOther

Spec == Init /\ [][Next]_vars

-----------------------------------------------------------------------------
(* Properties. *)

(* Type invariant: the counter, the flags and the cursor are of their      *)
(* types, and a transfer is one that was asked for or was cut off by a     *)
(* clearing.                                                               *)
TypeOK ==
    /\ profile \in Profiles
    /\ index \in 0 .. MaxIndex /\ kept \in 0 .. MaxIndex
    /\ ring \in [0 .. Buf - 1 -> Record]
    /\ cleared \in BOOLEAN /\ sag_flag \in BOOLEAN /\ bootflag \in BOOLEAN
    /\ run \in {"on", "boot", "saged"}
    /\ ac \in BOOLEAN /\ ac_high \in BOOLEAN
    /\ getresp_LP_index \in Int /\ getresp_LP_len \in 0 .. LenMod - 1
    /\ hist \in [0 .. MaxIndex -> 0 .. MaxLosses + 1]
    /\ gen \in 1 .. MaxLosses + 1
    /\ asked \in Requests \cup {NoRequest}
    /\ off \in BOOLEAN /\ seen \in 0 .. MaxIndex

(* The newest records, as many as the profile holds, are in the ring as    *)
(* they were saved last, whatever restarts took the counter back and       *)
(* whatever was saved in the places behind it.                             *)
WindowHeld ==
    \A k \in Most(0, index - Size[profile]) .. index - 1 :
        ring[Slot(k)] = <<k, hist[k]>>

(* Record k is the one that is due j-th for request a.                     *)
IsDue(a, j, k) ==
    /\ k \in Most(0, a.n - Size[profile]) .. a.n - 1
    /\ \/ a.kind = "all" /\ k = a.n - 1 - j
       \/ /\ a.kind = "range" /\ profile = "LP"
          /\ k % Size["LP"] = a.to - 1 - j
       \/ a.kind = "range" /\ profile # "LP" /\ k = a.n - a.from - j

(* A range of LP whose first entry has been written over since the profile *)
(* was last full, and whose last has not.                                  *)
Straddles(a) ==
    /\ profile = "LP" /\ a.kind = "range" /\ a.n > Size["LP"]
    /\ LET t32 == ((a.n - 1) % Size["LP"]) + 1 IN a.from <= t32 /\ t32 < a.to

(* A range of LPAVG that ends behind the profile or before it begins.      *)
Unlimited(a) ==
    /\ profile = "LPAVG" /\ a.kind = "range"
    /\ a.to \notin a.from .. Least(a.n, Size["LPAVG"])

(* Every record of a block is the one due at its place of the transfer, in *)
(* the order of the entries and as it was saved, as long as no more have   *)
(* been saved since the request than the gap holds.                        *)
BlockIsDue ==
    asked # NoRequest /\ ~Straddles(asked) /\ ~Unlimited(asked)
        /\ index - asked.n <= Gap[profile]
    => \A j \in DOMAIN block :
          \E k \in 0 .. index - 1 :
             IsDue(asked, j, k) /\ block[j] = <<k, hist[k]>>

(* What was saved before the mains was first seen to be off is not lost by *)
(* a restart, however often the mains comes and goes and whatever is saved *)
(* while the supply still holds.                                           *)
SagKeepsRecords == index >= seen

(* What the profile gives is of its newest records, as many as it is       *)
(* defined to hold: the records of 65 days (lp.h:50), which LP_SIZE        *)
(* counts.  The code does not hold to it for a range that straddles the    *)
(* newest record of a profile written over.                                *)
ProfileIsNewest ==
    asked # NoRequest => \A j \in DOMAIN block :
        \E k \in Most(0, asked.n - Size[profile]) .. index - 1 :
            block[j] = <<k, hist[k]>>
=============================================================================
