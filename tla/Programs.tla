------------------------------ MODULE Programs ------------------------------
(***************************************************************************)
(* The tariff programs of the meter (app/program.c, app/nv.c,              *)
(* dlms/act_req.c, dlms/set_req.c, dlms/amg_imagetransfer.c).              *)
(*                                                                         *)
(* The tables of a program lie in one of three areas of the EEPROM.  The   *)
(* configuration says which area is of the active program and which of the *)
(* reserved one; new tables are written to a third, the download area,     *)
(* and a program is put into force by making its area the active one.      *)
(* Holidays have area indices of their own, for a program without holidays *)
(* keeps those of the program before it.                                   *)
(*                                                                         *)
(* Tables arrive by SETs after the command PGM_DL, or in a TOU image; they *)
(* are put into force by the activation of the image, or reserved and put  *)
(* into force when their time comes, which may be any turn.  The keys      *)
(* replace the active program by a default one.  A turn of the meter task  *)
(* goes from the reserved program (whm_proc) to one request (amr_proc),    *)
(* the keys, and the saving of the configuration that has changed          *)
(* (foreground).  The meter may be reset at any step between these.        *)
(*                                                                         *)
(* The season, week and day tables are one value, the calendar.  Some      *)
(* program is always active: the first start installs the default one in   *)
(* area 0 and nothing takes PROG_CURR_BIT away.  What is read back from    *)
(* the EEPROM is what was written; a read or a write may fail.             *)
(***************************************************************************)
EXTENDS Naturals

CONSTANTS
    Calendars,         \* contents of the season, week and day tables
    Days,              \* contents of the holiday table
    DefaultCalendar,   \* what the keys and the first start install
    DefaultDays

ASSUME ProgramsAssumption ==
    DefaultCalendar \in Calendars /\ DefaultDays \in Days

NUM_PGM_AREA == 3
Areas == 0 .. (NUM_PGM_AREA - 1)

VARIABLES
    turn,          \* what the meter task does next
    mt_conf,       \* which areas are in use, in RAM
    nv_conf,       \* I_MT_CONFIG, its copy in the EEPROM
    calendar,      \* the calendar in each area
    days,          \* the holidays in each area
    prog_dl_idx,   \* the download area of calendars
    hol_dl_idx,    \* and of holidays
    set_bits,      \* prog_dl.set_bits: what the download has brought
    fut_own_days,  \* SETBITS_HOLIDAYS in I_FUT_PROG_DL
    progdl,        \* act_is_progdl_cmd()
    image,         \* the transfer of a TOU image
    \* history
    fresh,         \* the download area is of no program since it was chosen
    exposed,       \* an order of events the code does not guard against
    was,           \* the tables as they were put into force or reserved
    nv_was         \* the same when the configuration was saved

confVars == <<mt_conf, nv_conf>>
tableVars == <<calendar, days>>
dlVars == <<prog_dl_idx, hol_dl_idx, set_bits, progdl>>
vars == <<turn, confVars, tableVars, dlVars, fut_own_days, image,
          fresh, exposed, was, nv_was>>

Conf == [fut : BOOLEAN,      \* prog_fut_is_available
         curhol : BOOLEAN,   \* prog_hol_available
         futhol : BOOLEAN,   \* futprog_hol_available
         aprog : Areas, pprog : Areas, ahol : Areas, phol : Areas]

(* HOLIDAYS: SETBITS_HOLIDAYS.  RESERVABLE: the name, the time and the     *)
(* display items, without which nothing is reserved.                       *)
Bits == {"HOLIDAYS", "RESERVABLE"}

(* What was put into force and what was reserved; own: the reserved        *)
(* program has holidays of its own.                                        *)
Tables == [active : Calendars, days : Days,
           reserved : Calendars, own : BOOLEAN, owndays : Days]

-----------------------------------------------------------------------------
(* The download area: set_prog_dl_idx, set_hol_dl_idx. *)

(* Fault: the reserved program is forgotten. *)
ProgsInUse_ActiveOnly(c) == {c.aprog}

ProgsInUse(c) == {c.aprog} \cup {p \in {c.pprog} : c.fut}
DaysInUse(c) == {h \in {c.ahol} : c.curhol}
                \cup {h \in {c.phol} : c.fut /\ c.futhol}

(* Fault: area 0 is never used for a download. *)
FirstFree_NotZero(used) ==
    CHOOSE i \in 1 .. NUM_PGM_AREA :
        i \notin used /\ \A j \in 1 .. 2 : j < i => j \in used

(* The lowest index not in use.  It would be NUM_PGM_AREA were all in use. *)
FirstFree(used) ==
    CHOOSE i \in 0 .. NUM_PGM_AREA :
        i \notin used /\ \A j \in Areas : j < i => j \in used

ChooseDownloadArea(c) ==
    /\ prog_dl_idx' = FirstFree(ProgsInUse(c))
    /\ hol_dl_idx' = FirstFree(DaysInUse(c))
    /\ fresh' = TRUE

KeepDownloadArea == UNCHANGED <<prog_dl_idx, hol_dl_idx>>

(* The download area is used: it is written, or given to a program.  Only  *)
(* a new choice of the area makes sure that it is of no program.           *)
UseDownloadArea == exposed' = (exposed \/ ~fresh)
GiveDownloadArea == UseDownloadArea /\ fresh' = FALSE

InitConf == [fut |-> FALSE, curhol |-> TRUE, futhol |-> FALSE,
             aprog |-> 0, pprog |-> 0, ahol |-> 0, phol |-> 0]

(* After the first start: mt_conf_default, dsm_touimage_default. *)
Init ==
    /\ turn = "program"
    /\ mt_conf = InitConf /\ nv_conf = InitConf
    /\ calendar = [a \in Areas |-> DefaultCalendar]
    /\ days = [a \in Areas |-> DefaultDays]
    /\ prog_dl_idx = 1 /\ hol_dl_idx = 1
    /\ set_bits = {} /\ fut_own_days = FALSE /\ progdl = FALSE
    /\ image = "none"
    /\ fresh = TRUE /\ exposed = FALSE
    /\ was = [active |-> DefaultCalendar, days |-> DefaultDays,
              reserved |-> DefaultCalendar, own |-> FALSE,
              owndays |-> DefaultDays]
    /\ nv_was = was

-----------------------------------------------------------------------------
(* Putting a program into force, reserving one, dropping the reserved one. *)

(* prog_cur_work_proc for the program in area a, with holidays of its own  *)
(* in area h if own is true, else with those in force.                     *)
InForce(c, a, own, h) ==
    [c EXCEPT !.aprog = a,
              !.ahol = IF own THEN h ELSE @,
              !.curhol = own \/ @]

(* prog_fut_dl_proc.  A program reserved without holidays shares those in  *)
(* force, if there are any.                                                *)
Reserved(c, own) ==
    [c EXCEPT !.fut = TRUE,
              !.pprog = prog_dl_idx,
              !.phol = IF own THEN hol_dl_idx
                       ELSE IF c.curhol THEN c.ahol ELSE @,
              !.futhol = own \/ c.curhol]

(* prog_fut_delete *)
Dropped(c) == [c EXCEPT !.fut = FALSE, !.futhol = FALSE]

(* No program is reserved any more. *)
Forgotten(t) == [t EXCEPT !.reserved = DefaultCalendar, !.own = FALSE,
                          !.owndays = DefaultDays]

(* Both procedures leave SETBITS_HOLIDAYS in the bits they were given when *)
(* the holidays in force were taken over.                                  *)
BitsAfter(bits, c) ==
    bits \cup {b \in {"HOLIDAYS"} : c.curhol}

(* prog_fut_mon, prog_fut_work_proc: the time of the reserved program has  *)
(* come.                                                                   *)
TakeEffect ==
    /\ mt_conf.fut
    /\ mt_conf' = Dropped(InForce(mt_conf, mt_conf.pprog, fut_own_days,
                                  mt_conf.phol))
    /\ was' = Forgotten([was EXCEPT
                            !.active = was.reserved,
                            !.days = IF was.own THEN was.owndays ELSE @])

(* I_FUT_PROG_DL cannot be read: the program is dropped all the same, and  *)
(* its area may be written while the saved configuration still has it.     *)
Unreadable ==
    /\ mt_conf.fut
    /\ mt_conf' = Dropped(mt_conf)
    /\ exposed' = TRUE
    /\ was' = Forgotten(was)

ProgramProc ==
    /\ turn = "program" /\ turn' = "amr"
    /\ \/ TakeEffect /\ UNCHANGED exposed
       \/ Unreadable
       \/ UNCHANGED <<mt_conf, was, exposed>>
    /\ UNCHANGED <<nv_conf, tableVars, dlVars, fut_own_days, image, fresh,
                   nv_was>>

-----------------------------------------------------------------------------
(* Requests of a client: turn 1 of amr_proc. *)

(* DEVICE_CMD_INIT, DEVICE_CMD_CURPGM_READ and DEVICE_CMD_FUTPGM_READ. *)
OtherCommand ==
    /\ progdl' = FALSE
    /\ KeepDownloadArea
    /\ UNCHANGED <<mt_conf, tableVars, set_bits, fut_own_days, image, fresh,
                   exposed, was>>

(* A new association: appl_var_init. *)
Associate ==
    /\ set_bits' = {} /\ progdl' = FALSE
    /\ KeepDownloadArea
    /\ UNCHANGED <<mt_conf, tableVars, fut_own_days, image, fresh, exposed,
                   was>>

(* Fault: the calendar is copied before the area is chosen. *)
ProgramDownload_CopiesFirst ==
    /\ ChooseDownloadArea(mt_conf)
    /\ set_bits' = {} /\ progdl' = TRUE
    /\ calendar' = [calendar EXCEPT ![prog_dl_idx] = calendar[mt_conf.aprog]]
    /\ UNCHANGED <<mt_conf, days, fut_own_days, image, exposed, was>>

(* DEVICE_CMD_PGM_DL, ob_dev_cmd.  The calendar in force is copied to the  *)
(* new download area, so that what is not set stays as it is.  Copying is  *)
(* left out for tables the program in force does not have.                 *)
ProgramDownload ==
    /\ ChooseDownloadArea(mt_conf)
    /\ set_bits' = {} /\ progdl' = TRUE
    /\ \/ calendar' = [calendar EXCEPT ![prog_dl_idx'] =
                                           calendar[mt_conf.aprog]]
       \/ UNCHANGED calendar
    /\ UNCHANGED <<mt_conf, days, fut_own_days, image, exposed, was>>

(* obset_tou_cal, attributes 3 to 5 and 7 to 9: whether or not a download  *)
(* was asked for, the tables go to the download area.                      *)
SetCalendar(c) ==
    /\ calendar' = [calendar EXCEPT ![prog_dl_idx] = c]
    /\ UseDownloadArea
    /\ UNCHANGED <<mt_conf, days, dlVars, fut_own_days, image, fresh, was>>

(* obset_holidays.  The bit is set with the last block. *)
SetDays(d, last) ==
    /\ days' = [days EXCEPT ![hol_dl_idx] = d]
    /\ set_bits' = set_bits \cup {b \in {"HOLIDAYS"} : last}
    /\ UseDownloadArea
    /\ KeepDownloadArea
    /\ UNCHANGED <<mt_conf, calendar, progdl, fut_own_days, image, fresh,
                   was>>

(* The name, the time and the display items of a program to be reserved. *)
SetOther ==
    /\ progdl
    /\ set_bits' = set_bits \cup {"RESERVABLE"}
    /\ KeepDownloadArea
    /\ UNCHANGED <<mt_conf, tableVars, progdl, fut_own_days, image, fresh,
                   exposed, was>>

(* prog_fut_dl_proc with the download's bits, and what it leaves of them.  *)
(* The bits go to the EEPROM before holidays are taken over.               *)
Reserve(bits, cal, d) ==
    LET own == "HOLIDAYS" \in bits
    IN  /\ mt_conf' = Reserved(mt_conf, own)
        /\ fut_own_days' = own
        /\ set_bits' = BitsAfter(bits, mt_conf)
        /\ was' = [was EXCEPT !.reserved = cal[prog_dl_idx], !.own = own,
                              !.owndays = IF own THEN d[hol_dl_idx]
                                                    ELSE DefaultDays]
        /\ GiveDownloadArea

(* DEVICE_CMD_FUTPGM_WORK.  Refused when a bit is missing, when the check  *)
(* sum over the SETs is wrong or when reactive energy is being selected,   *)
(* which changes nothing here.                                             *)
FutureWork ==
    /\ "RESERVABLE" \in set_bits
    /\ Reserve(set_bits, calendar, days)
    /\ progdl' = FALSE
    /\ KeepDownloadArea
    /\ UNCHANGED <<tableVars, image>>

(* DEVICE_CMD_FUTPGM_DEL *)
FutureDelete ==
    /\ mt_conf' = Dropped(mt_conf)
    /\ progdl' = FALSE
    /\ was' = Forgotten(was)
    /\ KeepDownloadArea
    /\ UNCHANGED <<tableVars, set_bits, fut_own_days, image, fresh, exposed>>

(* A special day is inserted or deleted: edit_holidays, always of the      *)
(* program in force.  The edit is one of every program that has these      *)
(* holidays, also of those the saved configuration speaks of.              *)
Edited(t, c, d) ==
    [t EXCEPT !.days = IF c.ahol = mt_conf.ahol THEN d ELSE @,
              !.owndays = IF t.own /\ c.phol = mt_conf.ahol THEN d ELSE @]

EditDays(d) ==
    /\ mt_conf.curhol
    /\ days' = [days EXCEPT ![mt_conf.ahol] = d]
    /\ was' = Edited(was, mt_conf, d)
    /\ nv_was' = Edited(nv_was, nv_conf, d)
    /\ UNCHANGED <<mt_conf, calendar, dlVars, fut_own_days, image, fresh,
                   exposed>>

(* image_transfer_initiate.  The status bits of an image that has been     *)
(* received stay set.                                                      *)
Initiate ==
    /\ image' = IF image = "none" THEN "initiated" ELSE image
    /\ ChooseDownloadArea(mt_conf)
    /\ set_bits' = {} /\ progdl' = TRUE
    /\ UNCHANGED <<mt_conf, tableVars, fut_own_days, exposed, was>>

(* image_block_transfer.  The image is ready when its announced size has   *)
(* been received; one more block makes it not ready again.                 *)
ReceiveBlock ==
    /\ image # "none"
    /\ image' \in {"initiated", "ready"}
    /\ UNCHANGED <<mt_conf, tableVars, dlVars, fut_own_days, fresh, exposed,
                   was>>

(* The calendar c and, if it has any, the holidays d of an image go to the *)
(* download area, and bits is what the download has brought then.  The     *)
(* time of a reserved program is only taken if a download was asked for.   *)
Unpack(c, d, bits) ==
    /\ calendar' = [calendar EXCEPT ![prog_dl_idx] = c]
    /\ \/ /\ "HOLIDAYS" \in bits
          /\ days' = [days EXCEPT ![hol_dl_idx] = d]
       \/ "HOLIDAYS" \in set_bits /\ UNCHANGED days
       \/ "HOLIDAYS" \notin bits /\ UNCHANGED days
    /\ set_bits \subseteq bits
    /\ "RESERVABLE" \in bits \ set_bits => progdl

(* image_activate of an image that is not ready. *)
ActivateNotReady ==
    /\ progdl' = FALSE
    /\ KeepDownloadArea
    /\ UNCHANGED <<mt_conf, tableVars, set_bits, fut_own_days, image, fresh,
                   exposed, was>>

(* image_activate of an image that is malformed, or whose tables cannot be *)
(* written.  Its holidays are written while it is parsed, so that some may *)
(* be there and not their bit.                                             *)
ActivateFails(c, d) ==
    /\ image = "ready"
    /\ calendar' = [calendar EXCEPT ![prog_dl_idx] = c]
    /\ days' = [days EXCEPT ![hol_dl_idx] = d]
    /\ \E bits \in SUBSET Bits :
          /\ set_bits \subseteq bits
          /\ "RESERVABLE" \in bits \ set_bits => progdl
          /\ set_bits' = bits
    /\ UseDownloadArea
    /\ progdl' = FALSE
    /\ KeepDownloadArea
    /\ UNCHANGED <<mt_conf, fut_own_days, image, fresh, was>>

(* prog_cur_dl_proc with the download's bits. *)
PutInForce(bits) ==
    LET own == "HOLIDAYS" \in bits
    IN  /\ mt_conf' = InForce(mt_conf, prog_dl_idx, own, hol_dl_idx)
        /\ set_bits' = BitsAfter(bits, mt_conf)
        /\ was' = [was EXCEPT !.active = calendar'[prog_dl_idx],
                              !.days = IF own THEN days'[hol_dl_idx] ELSE @]
        /\ GiveDownloadArea
        /\ UNCHANGED fut_own_days

(* image_activate of an image of a current or a reserved program.  Whether *)
(* the latter was reserved is not looked at.                               *)
Activate(c, d) ==
    /\ image = "ready"
    /\ \E bits \in SUBSET Bits :
          /\ Unpack(c, d, bits)
          /\ \/ PutInForce(bits)
             \/ Reserve(bits, calendar', days')
             \/ /\ UseDownloadArea
                /\ set_bits' = bits
                /\ UNCHANGED <<mt_conf, fut_own_days, fresh, was>>
    /\ image' = "none"
    /\ progdl' = FALSE
    /\ KeepDownloadArea

Command ==
    \/ OtherCommand \/ Associate \/ ProgramDownload \/ SetOther
    \/ FutureWork \/ FutureDelete
    \/ Initiate \/ ReceiveBlock \/ ActivateNotReady
    \/ \E c \in Calendars : SetCalendar(c)
    \/ \E d \in Days, last \in BOOLEAN : SetDays(d, last)
    \/ \E c \in Calendars, d \in Days : Activate(c, d) \/ ActivateFails(c, d)

Request ==
    /\ turn = "amr" /\ turn' = "keys"
    /\ UNCHANGED nv_conf
    /\ \/ Command /\ UNCHANGED nv_was
       \/ \E d \in Days : EditDays(d)

-----------------------------------------------------------------------------
(* The keys. *)

(* Another kind of tariff is chosen: dsm_touimage_default writes the       *)
(* default tables to the download area as it stands and puts them into     *)
(* force.                                                                  *)
ChangeRateKind ==
    /\ calendar' = [calendar EXCEPT ![prog_dl_idx] = DefaultCalendar]
    /\ days' = [days EXCEPT ![hol_dl_idx] = DefaultDays]
    /\ mt_conf' = InForce(Dropped(mt_conf), prog_dl_idx, TRUE, hol_dl_idx)
    /\ set_bits' = set_bits \cup {"HOLIDAYS"}
    /\ was' = Forgotten([was EXCEPT !.active = DefaultCalendar,
                                    !.days = DefaultDays])
    /\ GiveDownloadArea
    /\ KeepDownloadArea
    /\ UNCHANGED progdl

(* Rates and hours are entered by the keys: prog_cur_tou_delete and        *)
(* prog_fut_delete.                                                        *)
EnterTou ==
    /\ mt_conf' = [Dropped(mt_conf) EXCEPT !.curhol = FALSE]
    /\ was' = Forgotten(was)
    /\ UNCHANGED <<tableVars, dlVars, fresh, exposed>>

Keys ==
    /\ turn = "keys" /\ turn' = "save"
    /\ \/ ChangeRateKind
       \/ EnterTou
       \/ UNCHANGED <<mt_conf, tableVars, dlVars, fresh, exposed, was>>
    /\ UNCHANGED <<nv_conf, fut_own_days, image, nv_was>>

-----------------------------------------------------------------------------
(* Saving and restoring the configuration. *)

(* Fault: the change is not seen. *)
Save_Misses ==
    /\ turn = "save" /\ turn' = "program"
    /\ UNCHANGED <<confVars, tableVars, dlVars, fut_own_days, image, fresh,
                   exposed, was, nv_was>>

(* mt_conf_backup_check: the configuration is saved when its check sum is  *)
(* no longer the one of the last saving.                                   *)
Save ==
    /\ turn = "save" /\ turn' = "program"
    /\ nv_conf' = mt_conf /\ nv_was' = was
    /\ UNCHANGED <<mt_conf, tableVars, dlVars, fut_own_days, image, fresh,
                   exposed, was>>

(* Fault: the download area is not chosen anew. *)
Restart_NoChoice ==
    /\ turn' = "program"
    /\ mt_conf' = nv_conf
    /\ prog_dl_idx' = 0 /\ hol_dl_idx' = 0 /\ fresh' = TRUE
    /\ set_bits' = {} /\ progdl' = FALSE
    /\ was' = nv_was
    /\ UNCHANGED <<nv_conf, tableVars, fut_own_days, image, exposed, nv_was>>

(* The meter starts again: mt_conf_restore and the choice of the download  *)
(* area.  The state of an image is in the EEPROM as it was, except that a  *)
(* block too many is forgotten.                                            *)
Restart ==
    /\ turn' = "program"
    /\ mt_conf' = nv_conf
    /\ ChooseDownloadArea(nv_conf)
    /\ set_bits' = {} /\ progdl' = FALSE
    /\ image' \in {image} \cup {i \in {"ready"} : image = "initiated"}
    /\ was' = [nv_was EXCEPT !.active = calendar[nv_conf.aprog],
                             !.days = days[nv_conf.ahol]]
    /\ exposed' = (exposed \/ (nv_conf.fut /\ fut_own_days # nv_was.own))
    /\ nv_was' = was'
    /\ UNCHANGED <<nv_conf, tableVars, fut_own_days>>

Next == ProgramProc \/ Request \/ Keys \/ Save \/ Restart

Spec == Init /\ [][Next]_vars

-----------------------------------------------------------------------------
(* Properties. *)

(* Type invariant: the indices are those of areas; in particular there is  *)
(* always a free area to download to.                                      *)
TypeOK ==
    /\ turn \in {"program", "amr", "keys", "save"}
    /\ mt_conf \in Conf /\ nv_conf \in Conf
    /\ calendar \in [Areas -> Calendars]
    /\ days \in [Areas -> Days]
    /\ prog_dl_idx \in Areas /\ hol_dl_idx \in Areas
    /\ set_bits \subseteq Bits
    /\ fut_own_days \in BOOLEAN /\ progdl \in BOOLEAN
    /\ image \in {"none", "initiated", "ready"}
    /\ fresh \in BOOLEAN /\ exposed \in BOOLEAN
    /\ was \in Tables /\ nv_was \in Tables

(* From the time the download area is chosen until it is given to a        *)
(* program, it is not an area of the active or of the reserved program,    *)
(* whatever comes into force, is dropped or is restored meanwhile.         *)
DownloadAreaFree ==
    fresh => /\ prog_dl_idx \notin ProgsInUse(mt_conf)
             /\ ~exposed => hol_dl_idx \notin DaysInUse(mt_conf)

(* The tables of the program in force are those it was put into force      *)
(* with, or was given since by an edit: no download, abandoned or failed,  *)
(* writes over them.                                                       *)
ActiveAsActivated ==
    ~exposed => /\ calendar[mt_conf.aprog] = was.active
                /\ mt_conf.curhol => days[mt_conf.ahol] = was.days

(* What comes into force is what was reserved, however many downloads are  *)
(* begun between and whatever restarts there are.                          *)
ReservedAsReserved ==
    ~exposed /\ mt_conf.fut =>
        /\ calendar[mt_conf.pprog] = was.reserved
        /\ fut_own_days = was.own
        /\ was.own => days[mt_conf.phol] = was.owndays

(* After a restart the program in force is one that was in force or was    *)
(* reserved before it, and never one that was only half written.           *)
SurvivesReset ==
    [][Restart /\ ~exposed' =>
         /\ calendar[nv_conf.aprog] \in
                {nv_was.active, nv_was.reserved, was.active}
         /\ nv_conf.curhol =>
                days[nv_conf.ahol] \in {nv_was.days, was.days}]_vars
=============================================================================
