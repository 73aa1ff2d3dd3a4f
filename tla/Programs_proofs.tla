--------------------------- MODULE Programs_proofs ---------------------------
(***************************************************************************)
(* Proofs about Programs, for any contents of the tables.                  *)
(***************************************************************************)
EXTENDS Programs, TLAPS

(* How the configuration in RAM differs from the saved one: in a turn that *)
(* has not come to the requests, at most by a reserved program that has    *)
(* taken effect.                                                           *)
Saved ==
    /\ turn = "program" => mt_conf = nv_conf /\ was = nv_was
    /\ turn = "amr" /\ ~exposed =>
          /\ \/ mt_conf.aprog = nv_conf.aprog
             \/ nv_conf.fut /\ mt_conf.aprog = nv_conf.pprog
          /\ nv_conf.fut =>
                /\ nv_conf.pprog \in ProgsInUse(mt_conf)
                /\ nv_was.own => nv_conf.phol \in DaysInUse(mt_conf)

(* A program reserved with holidays of its own has them. *)
OwnHolidays ==
    ~exposed => /\ mt_conf.fut /\ was.own => mt_conf.futhol
                /\ nv_conf.fut /\ nv_was.own => nv_conf.futhol

(* The download area and the programs of the saved configuration: it is    *)
(* never of the reserved one, and may be of the active one only when       *)
(* chosen after that was replaced in this turn.                            *)
NvFree ==
    ~exposed /\ fresh =>
        /\ nv_conf.fut =>
              /\ prog_dl_idx # nv_conf.pprog
              /\ nv_was.own => hol_dl_idx # nv_conf.phol
        /\ turn \in {"program", "amr"} =>
              /\ prog_dl_idx # nv_conf.aprog
              /\ nv_conf.curhol => hol_dl_idx # nv_conf.ahol

(* The tables of the programs of the saved configuration. *)
NvReserved ==
    ~exposed /\ nv_conf.fut =>
        /\ calendar[nv_conf.pprog] = nv_was.reserved
        /\ nv_was.own => days[nv_conf.phol] = nv_was.owndays

NvActive ==
    ~exposed =>
        /\ turn \in {"program", "amr"} =>
              calendar[nv_conf.aprog] = nv_was.active
        /\ turn = "keys" =>
              calendar[nv_conf.aprog] \in {nv_was.active, nv_was.reserved}
        /\ turn = "save" =>
              calendar[nv_conf.aprog] \in
                  {nv_was.active, nv_was.reserved, was.active}

NvDays ==
    ~exposed /\ nv_conf.curhol =>
        /\ turn # "save" => days[nv_conf.ahol] = nv_was.days
        /\ turn = "save" => days[nv_conf.ahol] \in {nv_was.days, was.days}

IInv ==
    /\ TypeOK /\ DownloadAreaFree /\ ActiveAsActivated /\ ReservedAsReserved
    /\ Saved /\ OwnHolidays /\ NvFree /\ NvReserved /\ NvActive /\ NvDays

-----------------------------------------------------------------------------
(* The download area. *)

(* Of three areas, one is left when at most two are in use. *)
LEMMA FirstFreeIsFree ==
    ASSUME NEW a \in Areas, NEW b \in Areas, NEW used, used \subseteq {a, b}
    PROVE  FirstFree(used) \in Areas /\ FirstFree(used) \notin used
<1> DEFINE P(i) == i \notin used /\ \A j \in Areas : j < i => j \in used
<1>1. \E i \in 0 .. NUM_PGM_AREA : P(i)
    <2>1. CASE 0 \notin used
        <3>1. P(0)
            BY <2>1 DEF Areas, NUM_PGM_AREA
        <3> QED BY <3>1 DEF NUM_PGM_AREA
    <2>2. CASE 0 \in used /\ 1 \notin used
        <3>1. P(1)
            BY <2>2 DEF Areas, NUM_PGM_AREA
        <3> QED BY <3>1 DEF NUM_PGM_AREA
    <2>3. CASE 0 \in used /\ 1 \in used
        <3>1. P(2)
            BY <2>3 DEF Areas, NUM_PGM_AREA
        <3> QED BY <3>1 DEF NUM_PGM_AREA
    <2> QED BY <2>1, <2>2, <2>3
<1>2. FirstFree(used) \in 0 .. NUM_PGM_AREA /\ P(FirstFree(used))
    BY <1>1 DEF FirstFree
<1>3. FirstFree(used) # NUM_PGM_AREA
    <2> SUFFICES ASSUME FirstFree(used) = NUM_PGM_AREA PROVE FALSE
        OBVIOUS
    <2>1. 0 \in used /\ 1 \in used /\ 2 \in used
        BY <1>2 DEF Areas, NUM_PGM_AREA
    <2> QED BY <2>1
<1> QED BY <1>2, <1>3 DEF Areas, NUM_PGM_AREA

LEMMA Chosen ==
    ASSUME NEW c \in Conf, ChooseDownloadArea(c)
    PROVE  /\ prog_dl_idx' \in Areas /\ hol_dl_idx' \in Areas
           /\ prog_dl_idx' \notin ProgsInUse(c)
           /\ hol_dl_idx' \notin DaysInUse(c)
<1>1. /\ c.aprog \in Areas /\ c.pprog \in Areas
      /\ c.ahol \in Areas /\ c.phol \in Areas
    BY DEF Conf
<1>2. ProgsInUse(c) \subseteq {c.aprog, c.pprog}
    BY DEF ProgsInUse
<1>3. DaysInUse(c) \subseteq {c.ahol, c.phol}
    BY DEF DaysInUse
<1>4. prog_dl_idx' = FirstFree(ProgsInUse(c))
    BY DEF ChooseDownloadArea
<1>5. hol_dl_idx' = FirstFree(DaysInUse(c))
    BY DEF ChooseDownloadArea
<1>6. FirstFree(ProgsInUse(c)) \in Areas
      /\ FirstFree(ProgsInUse(c)) \notin ProgsInUse(c)
    BY <1>1, <1>2, FirstFreeIsFree
<1>7. FirstFree(DaysInUse(c)) \in Areas
      /\ FirstFree(DaysInUse(c)) \notin DaysInUse(c)
    BY <1>1, <1>3, FirstFreeIsFree
<1> QED BY <1>4, <1>5, <1>6, <1>7

(* What the procedures make of a configuration is one. *)
LEMMA ConfType ==
    ASSUME NEW c \in Conf, NEW a \in Areas, NEW h \in Areas,
           NEW own \in BOOLEAN, prog_dl_idx \in Areas, hol_dl_idx \in Areas
    PROVE  /\ InForce(c, a, own, h) \in Conf
           /\ Reserved(c, own) \in Conf
           /\ Dropped(c) \in Conf
           /\ [Dropped(c) EXCEPT !.curhol = FALSE] \in Conf
BY DEF Conf, InForce, Reserved, Dropped

LEMMA TablesType ==
    ASSUME NEW t \in Tables, NEW c \in Calendars, NEW d \in Days,
           NEW own \in BOOLEAN
    PROVE  /\ Forgotten(t) \in Tables
           /\ [t EXCEPT !.active = c, !.days = d] \in Tables
           /\ [t EXCEPT !.reserved = c, !.own = own, !.owndays = d] \in Tables
BY ProgramsAssumption DEF Tables, Forgotten

-----------------------------------------------------------------------------
(* Type correctness. *)

LEMMA InitType == Init => TypeOK
<1> SUFFICES ASSUME Init PROVE TypeOK
    OBVIOUS
<1>1. InitConf \in Conf
    BY DEF InitConf, Conf, Areas, NUM_PGM_AREA
<1>2. was \in Tables
    BY ProgramsAssumption DEF Init, Tables
<1>3. calendar \in [Areas -> Calendars] /\ days \in [Areas -> Days]
    BY ProgramsAssumption DEF Init
<1>4. prog_dl_idx \in Areas /\ hol_dl_idx \in Areas
    BY DEF Init, Areas, NUM_PGM_AREA
<1> QED BY <1>1, <1>2, <1>3, <1>4 DEF Init, TypeOK

LEMMA ProgramProcType == TypeOK /\ ProgramProc => TypeOK'
<1> SUFFICES ASSUME TypeOK, ProgramProc PROVE TypeOK'
    OBVIOUS
<1>1. mt_conf' \in Conf
    <2>1. /\ InForce(mt_conf, mt_conf.pprog, fut_own_days, mt_conf.phol)
                \in Conf
          /\ Dropped(mt_conf) \in Conf
        <3>1. mt_conf.pprog \in Areas /\ mt_conf.phol \in Areas
            BY DEF TypeOK, Conf
        <3> QED BY <3>1, ConfType DEF TypeOK
    <2>2. Dropped(InForce(mt_conf, mt_conf.pprog, fut_own_days,
                          mt_conf.phol)) \in Conf
        BY <2>1 DEF Conf, Dropped
    <2> QED BY <2>1, <2>2 DEF ProgramProc, TakeEffect, Unreadable, TypeOK
<1>2. was' \in Tables
    <2>1. Forgotten([was EXCEPT
              !.active = was.reserved,
              !.days = IF was.own THEN was.owndays ELSE @]) \in Tables
        BY ProgramsAssumption DEF TypeOK, Tables, Forgotten
    <2>2. Forgotten(was) \in Tables
        BY ProgramsAssumption DEF TypeOK, Tables, Forgotten
    <2> QED BY <2>1, <2>2 DEF ProgramProc, TakeEffect, Unreadable, TypeOK
<1>3. exposed' \in BOOLEAN
    BY DEF ProgramProc, Unreadable, TypeOK
<1> QED BY <1>1, <1>2, <1>3 DEF ProgramProc, TypeOK, tableVars, dlVars

(* What all commands leave alone or write to the tables. *)
LEMMA UsedType ==
    ASSUME TypeOK, UseDownloadArea
    PROVE  exposed' \in BOOLEAN /\ (~exposed' => ~exposed /\ fresh)
BY DEF TypeOK, UseDownloadArea

LEMMA GivenType ==
    ASSUME TypeOK, GiveDownloadArea
    PROVE  /\ exposed' \in BOOLEAN /\ fresh' \in BOOLEAN /\ ~fresh'
           /\ ~exposed' => ~exposed /\ fresh
BY UsedType DEF GiveDownloadArea

LEMMA ReserveType ==
    ASSUME TypeOK, NEW bits \in SUBSET Bits, NEW cal \in [Areas -> Calendars],
           NEW d \in [Areas -> Days], Reserve(bits, cal, d)
    PROVE  /\ mt_conf' \in Conf /\ fut_own_days' \in BOOLEAN
           /\ set_bits' \subseteq Bits /\ was' \in Tables
           /\ exposed' \in BOOLEAN /\ fresh' \in BOOLEAN
<1> DEFINE own == "HOLIDAYS" \in bits
<1>1. own \in BOOLEAN
    OBVIOUS
<1>2. Reserved(mt_conf, own) \in Conf
    <2>1. 0 \in Areas
        BY DEF Areas, NUM_PGM_AREA
    <2> HIDE DEF own
    <2> QED BY <1>1, <2>1, ConfType DEF TypeOK
<1>3. [was EXCEPT !.reserved = cal[prog_dl_idx], !.own = own,
                  !.owndays = IF own THEN d[hol_dl_idx]
                                     ELSE DefaultDays] \in Tables
    <2> HIDE DEF own
    <2>1. cal[prog_dl_idx] \in Calendars
        BY DEF TypeOK
    <2>2. (IF own THEN d[hol_dl_idx] ELSE DefaultDays) \in Days
        BY ProgramsAssumption DEF TypeOK
    <2> QED BY <1>1, <2>1, <2>2 DEF TypeOK, Tables
<1>4. BitsAfter(bits, mt_conf) \subseteq Bits
    BY DEF BitsAfter, Bits
<1> QED BY <1>1, <1>2, <1>3, <1>4, GivenType DEF Reserve

LEMMA PutInForceType ==
    ASSUME TypeOK, NEW bits \in SUBSET Bits, PutInForce(bits),
           calendar' \in [Areas -> Calendars], days' \in [Areas -> Days]
    PROVE  /\ mt_conf' \in Conf /\ fut_own_days' \in BOOLEAN
           /\ set_bits' \subseteq Bits /\ was' \in Tables
           /\ exposed' \in BOOLEAN /\ fresh' \in BOOLEAN
<1> DEFINE own == "HOLIDAYS" \in bits
<1>1. own \in BOOLEAN
    OBVIOUS
<1>2. InForce(mt_conf, prog_dl_idx, own, hol_dl_idx) \in Conf
    <2> HIDE DEF own
    <2> QED BY <1>1, ConfType DEF TypeOK
<1>3. [was EXCEPT !.active = calendar'[prog_dl_idx],
                  !.days = IF own THEN days'[hol_dl_idx] ELSE @] \in Tables
    <2> HIDE DEF own
    <2>1. calendar'[prog_dl_idx] \in Calendars /\ days'[hol_dl_idx] \in Days
        BY DEF TypeOK
    <2> QED BY <1>1, <2>1 DEF TypeOK, Tables
<1>4. BitsAfter(bits, mt_conf) \subseteq Bits
    BY DEF BitsAfter, Bits
<1>5. fut_own_days' \in BOOLEAN
    BY DEF PutInForce, TypeOK
<1> QED BY <1>1, <1>2, <1>3, <1>4, <1>5, GivenType DEF PutInForce

LEMMA CommandType ==
    ASSUME TypeOK, Command
    PROVE  /\ mt_conf' \in Conf
           /\ calendar' \in [Areas -> Calendars] /\ days' \in [Areas -> Days]
           /\ prog_dl_idx' \in Areas /\ hol_dl_idx' \in Areas
           /\ set_bits' \subseteq Bits
           /\ fut_own_days' \in BOOLEAN /\ progdl' \in BOOLEAN
           /\ image' \in {"none", "initiated", "ready"}
           /\ fresh' \in BOOLEAN /\ exposed' \in BOOLEAN
           /\ was' \in Tables
<1> DEFINE Goal ==
        /\ mt_conf' \in Conf
        /\ calendar' \in [Areas -> Calendars] /\ days' \in [Areas -> Days]
        /\ prog_dl_idx' \in Areas /\ hol_dl_idx' \in Areas
        /\ set_bits' \subseteq Bits
        /\ fut_own_days' \in BOOLEAN /\ progdl' \in BOOLEAN
        /\ image' \in {"none", "initiated", "ready"}
        /\ fresh' \in BOOLEAN /\ exposed' \in BOOLEAN
        /\ was' \in Tables
<1>a. "HOLIDAYS" \in Bits /\ "RESERVABLE" \in Bits
    BY DEF Bits
<1>1. CASE OtherCommand
    BY <1>1 DEF OtherCommand, KeepDownloadArea, TypeOK, tableVars
<1>2. CASE Associate
    BY <1>2 DEF Associate, KeepDownloadArea, TypeOK, tableVars
<1>3. CASE ProgramDownload
    <2>1. prog_dl_idx' \in Areas /\ hol_dl_idx' \in Areas
        BY <1>3, Chosen DEF ProgramDownload, TypeOK
    <2>2. calendar' \in [Areas -> Calendars]
        <3>1. calendar[mt_conf.aprog] \in Calendars
            BY DEF TypeOK, Conf
        <3> QED BY <1>3, <3>1 DEF ProgramDownload, TypeOK
    <2>3. fresh' \in BOOLEAN
        BY <1>3 DEF ProgramDownload, ChooseDownloadArea
    <2> QED BY <1>3, <2>1, <2>2, <2>3 DEF ProgramDownload, TypeOK
<1>4. CASE SetOther
    BY <1>4, <1>a DEF SetOther, KeepDownloadArea, TypeOK, tableVars
<1>5. CASE FutureWork
    <2>1. Reserve(set_bits, calendar, days)
        BY <1>5 DEF FutureWork
    <2>2. /\ mt_conf' \in Conf /\ fut_own_days' \in BOOLEAN
          /\ set_bits' \subseteq Bits /\ was' \in Tables
          /\ exposed' \in BOOLEAN /\ fresh' \in BOOLEAN
        BY <2>1, ReserveType DEF TypeOK
    <2> QED
        BY <1>5, <2>2 DEF FutureWork, KeepDownloadArea, TypeOK, tableVars
<1>6. CASE FutureDelete
    <2>1. mt_conf' \in Conf
        BY <1>6 DEF FutureDelete, Dropped, Conf, TypeOK
    <2>2. was' \in Tables
        BY <1>6, ProgramsAssumption DEF FutureDelete, Forgotten, Tables, TypeOK
    <2> QED BY <1>6, <2>1, <2>2
            DEF FutureDelete, KeepDownloadArea, TypeOK, tableVars
<1>7. CASE Initiate
    <2>1. prog_dl_idx' \in Areas /\ hol_dl_idx' \in Areas
        BY <1>7, Chosen DEF Initiate, TypeOK
    <2>2. fresh' \in BOOLEAN
        BY <1>7 DEF Initiate, ChooseDownloadArea
    <2> QED BY <1>7, <2>1, <2>2 DEF Initiate, TypeOK, tableVars
<1>8. CASE ReceiveBlock
    BY <1>8 DEF ReceiveBlock, TypeOK, tableVars, dlVars
<1>9. CASE ActivateNotReady
    BY <1>9 DEF ActivateNotReady, KeepDownloadArea, TypeOK, tableVars
<1>10. CASE \E c \in Calendars : SetCalendar(c)
    <2>1. exposed' \in BOOLEAN
        BY <1>10, UsedType DEF SetCalendar
    <2> QED BY <1>10, <2>1 DEF SetCalendar, TypeOK, dlVars
<1>11. CASE \E d \in Days, last \in BOOLEAN : SetDays(d, last)
    <2>1. exposed' \in BOOLEAN
        BY <1>11, UsedType DEF SetDays
    <2> QED BY <1>11, <1>a, <2>1 DEF SetDays, KeepDownloadArea, TypeOK
<1>12. CASE \E c \in Calendars, d \in Days : Activate(c, d)
    <2> PICK c \in Calendars, d \in Days : Activate(c, d)
        BY <1>12
    <2> PICK bits \in SUBSET Bits :
            /\ Unpack(c, d, bits)
            /\ \/ PutInForce(bits)
               \/ Reserve(bits, calendar', days')
               \/ /\ UseDownloadArea
                  /\ set_bits' = bits
                  /\ UNCHANGED <<mt_conf, fut_own_days, fresh, was>>
        BY DEF Activate
    <2>1. calendar' \in [Areas -> Calendars] /\ days' \in [Areas -> Days]
        BY DEF Unpack, TypeOK
    <2>2. /\ mt_conf' \in Conf /\ fut_own_days' \in BOOLEAN
          /\ set_bits' \subseteq Bits /\ was' \in Tables
          /\ exposed' \in BOOLEAN /\ fresh' \in BOOLEAN
        <3>1. CASE PutInForce(bits)
            BY <3>1, <2>1, PutInForceType
        <3>2. CASE Reserve(bits, calendar', days')
            BY <3>2, <2>1, ReserveType
        <3>3. CASE /\ UseDownloadArea
                   /\ set_bits' = bits
                   /\ UNCHANGED <<mt_conf, fut_own_days, fresh, was>>
            BY <3>3, UsedType DEF TypeOK
        <3> QED BY <3>1, <3>2, <3>3
    <2>3. /\ image' = "none" /\ progdl' = FALSE
          /\ prog_dl_idx' = prog_dl_idx /\ hol_dl_idx' = hol_dl_idx
        BY DEF Activate, KeepDownloadArea
    <2> QED BY <2>1, <2>2, <2>3 DEF TypeOK
<1>13. CASE \E c \in Calendars, d \in Days : ActivateFails(c, d)
    <2> PICK c \in Calendars, d \in Days : ActivateFails(c, d)
        BY <1>13
    <2>1. exposed' \in BOOLEAN
        BY UsedType DEF ActivateFails
    <2> QED BY <2>1 DEF ActivateFails, KeepDownloadArea, TypeOK
<1> QED
    BY <1>1, <1>2, <1>3, <1>4, <1>5, <1>6, <1>7, <1>8, <1>9, <1>10, <1>11,
       <1>12, <1>13 DEF Command

LEMMA RequestType == TypeOK /\ Request => TypeOK'
<1> SUFFICES ASSUME TypeOK, Request PROVE TypeOK'
    OBVIOUS
<1>1. turn' = "keys" /\ nv_conf' \in Conf
    BY DEF Request, TypeOK
<1>2. CASE Command /\ UNCHANGED nv_was
    <2>1. nv_was' \in Tables
        BY <1>2 DEF TypeOK
    <2> HIDE DEF Command
    <2> QED BY <1>1, <1>2, <2>1, CommandType DEF TypeOK
<1>3. CASE \E d \in Days : EditDays(d)
    <2> PICK d \in Days : EditDays(d)
        BY <1>3
    <2>1. was' \in Tables /\ nv_was' \in Tables
        BY DEF EditDays, Edited, Tables, TypeOK
    <2>2. days' \in [Areas -> Days]
        BY DEF EditDays, TypeOK
    <2> QED BY <1>1, <2>1, <2>2 DEF EditDays, TypeOK, dlVars
<1> QED BY <1>2, <1>3 DEF Request

LEMMA KeysType == TypeOK /\ Keys => TypeOK'
<1> SUFFICES ASSUME TypeOK, Keys PROVE TypeOK'
    OBVIOUS
<1>0. /\ turn' = "save" /\ nv_conf' \in Conf /\ nv_was' \in Tables
      /\ fut_own_days' \in BOOLEAN
      /\ image' \in {"none", "initiated", "ready"}
    BY DEF Keys, TypeOK
<1>1. CASE ChangeRateKind
    <2>1. mt_conf' \in Conf
        <3>1. Dropped(mt_conf) \in Conf
            BY DEF Dropped, Conf, TypeOK
        <3>2. InForce(Dropped(mt_conf), prog_dl_idx, TRUE, hol_dl_idx) \in Conf
            BY <3>1, ConfType DEF TypeOK
        <3> QED BY <1>1, <3>2 DEF ChangeRateKind
    <2>2. was' \in Tables
        BY <1>1, ProgramsAssumption DEF ChangeRateKind, Forgotten, Tables,
           TypeOK
    <2>3. exposed' \in BOOLEAN /\ fresh' \in BOOLEAN
        BY <1>1, GivenType DEF ChangeRateKind
    <2>4. calendar' \in [Areas -> Calendars] /\ days' \in [Areas -> Days]
        BY <1>1, ProgramsAssumption DEF ChangeRateKind, TypeOK
    <2>5. set_bits' \subseteq Bits
        BY <1>1 DEF ChangeRateKind, TypeOK, Bits
    <2> QED BY <1>0, <1>1, <2>1, <2>2, <2>3, <2>4, <2>5
            DEF ChangeRateKind, KeepDownloadArea, TypeOK
<1>2. CASE EnterTou
    <2>1. mt_conf' \in Conf
        BY <1>2 DEF EnterTou, Dropped, Conf, TypeOK
    <2>2. was' \in Tables
        BY <1>2, ProgramsAssumption DEF EnterTou, Forgotten, Tables, TypeOK
    <2> QED BY <1>0, <1>2, <2>1, <2>2 DEF EnterTou, TypeOK, tableVars, dlVars
<1>3. CASE UNCHANGED <<mt_conf, tableVars, dlVars, fresh, exposed, was>>
    BY <1>0, <1>3 DEF TypeOK, tableVars, dlVars
<1> QED BY <1>1, <1>2, <1>3 DEF Keys

LEMMA SaveType == TypeOK /\ Save => TypeOK'
BY DEF Save, TypeOK, tableVars, dlVars

LEMMA RestartType == TypeOK /\ Restart => TypeOK'
<1> SUFFICES ASSUME TypeOK, Restart PROVE TypeOK'
    OBVIOUS
<1>1. prog_dl_idx' \in Areas /\ hol_dl_idx' \in Areas /\ fresh'
    BY Chosen DEF Restart, ChooseDownloadArea, TypeOK
<1>2. was' \in Tables
    <2>1. calendar[nv_conf.aprog] \in Calendars /\ days[nv_conf.ahol] \in Days
        BY DEF TypeOK, Conf
    <2> QED BY <2>1 DEF Restart, Tables, TypeOK
<1>3. exposed' \in BOOLEAN
    BY DEF Restart, TypeOK
<1>4. fresh' \in BOOLEAN
    BY DEF Restart, ChooseDownloadArea
<1> QED BY <1>1, <1>2, <1>3, <1>4 DEF Restart, TypeOK, tableVars

LEMMA TypeStep == TypeOK /\ [Next]_vars => TypeOK'
<1> SUFFICES ASSUME TypeOK, [Next]_vars PROVE TypeOK'
    OBVIOUS
<1>1. CASE UNCHANGED vars
    BY <1>1 DEF vars, confVars, tableVars, dlVars, TypeOK
<1> QED BY <1>1, ProgramProcType, RequestType, KeysType, SaveType, RestartType
        DEF Next

-----------------------------------------------------------------------------
(* The tables stay those of their programs. *)

LEMMA InitInv == Init => IInv
<1> SUFFICES ASSUME Init PROVE IInv
    OBVIOUS
<1>1. TypeOK
    BY InitType
<1> QED
    BY <1>1 DEF Init, InitConf, IInv, DownloadAreaFree, ActiveAsActivated,
       ReservedAsReserved, Saved, OwnHolidays, NvFree, NvReserved, NvActive,
       NvDays, ProgsInUse, DaysInUse, Areas, NUM_PGM_AREA

LEMMA ProgramProcInv == IInv /\ ProgramProc => IInv'
<1> SUFFICES ASSUME IInv, ProgramProc PROVE IInv'
    OBVIOUS
<1>0. TypeOK'
    BY ProgramProcType DEF IInv
<1>t. TypeOK
    BY DEF IInv
<1>1. CASE TakeEffect /\ UNCHANGED exposed
    <2>a. /\ mt_conf.fut /\ mt_conf = nv_conf /\ was = nv_was
          /\ mt_conf \in Conf /\ was \in Tables
          /\ turn = "program" /\ turn' = "amr"
        BY <1>1, <1>t DEF TakeEffect, ProgramProc, IInv, Saved, TypeOK
    <2>b. /\ mt_conf'.fut = FALSE /\ mt_conf'.futhol = FALSE
          /\ mt_conf'.aprog = mt_conf.pprog
          /\ mt_conf'.ahol = IF fut_own_days THEN mt_conf.phol
                                             ELSE mt_conf.ahol
          /\ mt_conf'.curhol = (fut_own_days \/ mt_conf.curhol)
        <3>1. fut_own_days \in BOOLEAN
            BY <1>t DEF TypeOK
        <3> QED BY <1>1, <2>a, <3>1 DEF TakeEffect, InForce, Dropped, Conf
    <2>c. /\ was'.active = was.reserved
          /\ was'.days = IF was.own THEN was.owndays ELSE was.days
          /\ was'.own = FALSE
        BY <1>1, <2>a DEF TakeEffect, Forgotten, Tables
    <2>d. UNCHANGED <<nv_conf, calendar, days, prog_dl_idx, hol_dl_idx,
                      fut_own_days, fresh, exposed, nv_was>>
        BY <1>1 DEF ProgramProc, tableVars, dlVars
    <2>e. ~exposed => fut_own_days = was.own
        BY <2>a DEF IInv, ReservedAsReserved
    <2>1. DownloadAreaFree'
        <3>1. fresh => prog_dl_idx # mt_conf.pprog
            BY <2>a DEF IInv, DownloadAreaFree, ProgsInUse
        <3>2. fresh /\ ~exposed /\ mt_conf.curhol => hol_dl_idx # mt_conf.ahol
            BY <2>a DEF IInv, DownloadAreaFree, DaysInUse
        <3>3. fresh /\ ~exposed /\ was.own => hol_dl_idx # mt_conf.phol
            BY <2>a DEF IInv, DownloadAreaFree, DaysInUse, OwnHolidays
        <3> QED BY <2>b, <2>d, <2>e, <3>1, <3>2, <3>3
                DEF DownloadAreaFree, ProgsInUse, DaysInUse
    <2>2. ActiveAsActivated'
        <3>1. ~exposed => calendar[mt_conf.pprog] = was.reserved
            BY <2>a DEF IInv, ReservedAsReserved
        <3>2. ~exposed /\ was.own => days[mt_conf.phol] = was.owndays
            BY <2>a DEF IInv, ReservedAsReserved
        <3>3. ~exposed /\ mt_conf.curhol => days[mt_conf.ahol] = was.days
            BY DEF IInv, ActiveAsActivated
        <3> QED BY <2>b, <2>c, <2>d, <2>e, <3>1, <3>2, <3>3
                DEF ActiveAsActivated
    <2>3. ReservedAsReserved'
        BY <2>b DEF ReservedAsReserved
    <2>4. Saved'
        <3>1. /\ nv_conf'.fut /\ mt_conf'.aprog = nv_conf'.pprog
              /\ nv_conf'.pprog \in ProgsInUse(mt_conf')
            BY <2>a, <2>b, <2>d DEF ProgsInUse
        <3>2. ~exposed /\ nv_was.own => nv_conf.phol \in DaysInUse(mt_conf')
            BY <2>a, <2>b, <2>e DEF DaysInUse
        <3>3. ~exposed' /\ nv_was'.own => nv_conf'.phol \in DaysInUse(mt_conf')
            BY <2>d, <3>2
        <3> QED BY <2>a, <3>1, <3>3 DEF Saved, ProgsInUse, DaysInUse
    <2>5. OwnHolidays'
        BY <2>b, <2>d DEF OwnHolidays, IInv
    <2>6. NvFree' /\ NvReserved' /\ NvActive' /\ NvDays'
        BY <2>a, <2>d DEF NvFree, NvReserved, NvActive, NvDays, IInv
    <2> QED BY <1>0, <2>1, <2>2, <2>3, <2>4, <2>5, <2>6 DEF IInv
<1>2. CASE Unreadable
    <2>1. /\ exposed' /\ mt_conf' = Dropped(mt_conf) /\ turn' = "amr"
          /\ UNCHANGED <<prog_dl_idx, hol_dl_idx, fresh>>
        BY <1>2 DEF Unreadable, ProgramProc, dlVars
    <2>2. /\ mt_conf'.aprog = mt_conf.aprog /\ ~mt_conf'.fut
        BY <2>1, <1>t DEF Dropped, TypeOK, Conf
    <2>3. DownloadAreaFree'
        BY <2>1, <2>2 DEF IInv, DownloadAreaFree, ProgsInUse
    <2> QED BY <1>0, <2>1, <2>3 DEF IInv, ActiveAsActivated,
            ReservedAsReserved, Saved, OwnHolidays, NvFree, NvReserved,
            NvActive, NvDays
<1>3. CASE UNCHANGED <<mt_conf, was, exposed>>
    <2>1. /\ turn = "program" /\ turn' = "amr"
          /\ mt_conf = nv_conf /\ was = nv_was
          /\ UNCHANGED <<mt_conf, was, exposed, nv_conf, calendar, days,
                         prog_dl_idx, hol_dl_idx, fut_own_days, fresh, nv_was>>
        BY <1>3 DEF ProgramProc, IInv, Saved, tableVars, dlVars
    <2>2. Saved'
        BY <2>1 DEF Saved, ProgsInUse, DaysInUse, IInv, OwnHolidays
    <2> QED BY <1>0, <2>1, <2>2 DEF IInv, DownloadAreaFree, ProgsInUse,
            DaysInUse, ActiveAsActivated, ReservedAsReserved, OwnHolidays,
            NvFree, NvReserved, NvActive, NvDays
<1> QED BY <1>1, <1>2, <1>3 DEF ProgramProc

(* A command that keeps the download area writes at most to that area, and *)
(* counts as exposed when it does so and the area was not free.            *)
Written ==
    /\ \A a \in Areas : a # prog_dl_idx => calendar'[a] = calendar[a]
    /\ \A a \in Areas : a # hol_dl_idx => days'[a] = days[a]
    /\ ~exposed' => ~exposed /\ (fresh \/ UNCHANGED <<calendar, days>>)
    /\ fresh' \in BOOLEAN /\ (fresh' => fresh)
    /\ UNCHANGED <<prog_dl_idx, hol_dl_idx>>

CommandTurn ==
    /\ turn = "amr" /\ turn' = "keys"
    /\ UNCHANGED <<nv_conf, nv_was>>

CommandInv ==
    DownloadAreaFree /\ ActiveAsActivated /\ ReservedAsReserved /\ OwnHolidays

LEMMA SavedKept ==
    ASSUME IInv, CommandTurn, Written
    PROVE  Saved' /\ NvFree' /\ NvReserved' /\ NvActive' /\ NvDays'
<1>t. TypeOK
    BY DEF IInv
<1>c. /\ nv_conf.aprog \in Areas /\ nv_conf.pprog \in Areas
      /\ nv_conf.ahol \in Areas /\ nv_conf.phol \in Areas
    BY <1>t DEF TypeOK, Conf
<1>1. Saved'
    BY DEF Saved, CommandTurn
<1>2. NvFree'
    BY DEF NvFree, IInv, CommandTurn, Written
<1>3. ~exposed' =>
        /\ nv_conf.fut =>
              /\ calendar'[nv_conf.pprog] = calendar[nv_conf.pprog]
              /\ nv_was.own => days'[nv_conf.phol] = days[nv_conf.phol]
        /\ calendar'[nv_conf.aprog] = calendar[nv_conf.aprog]
        /\ nv_conf.curhol => days'[nv_conf.ahol] = days[nv_conf.ahol]
    BY <1>c DEF NvFree, IInv, CommandTurn, Written
<1>4. NvReserved'
    BY <1>3 DEF NvReserved, IInv, CommandTurn, Written
<1>5. NvActive'
    BY <1>3 DEF NvActive, IInv, CommandTurn, Written
<1>6. NvDays'
    BY <1>3 DEF NvDays, IInv, CommandTurn, Written
<1> QED BY <1>1, <1>2, <1>4, <1>5, <1>6

(* The tables of the active and of the reserved program are not touched. *)
LEMMA WrittenElsewhere ==
    ASSUME IInv, Written, ~exposed'
    PROVE  /\ calendar'[mt_conf.aprog] = calendar[mt_conf.aprog]
           /\ mt_conf.fut =>
                calendar'[mt_conf.pprog] = calendar[mt_conf.pprog]
           /\ mt_conf.curhol => days'[mt_conf.ahol] = days[mt_conf.ahol]
           /\ mt_conf.fut /\ mt_conf.futhol =>
                days'[mt_conf.phol] = days[mt_conf.phol]
<1>1. /\ mt_conf.aprog \in Areas /\ mt_conf.pprog \in Areas
      /\ mt_conf.ahol \in Areas /\ mt_conf.phol \in Areas
    BY DEF IInv, TypeOK, Conf
<1>2. CASE fresh
    BY <1>1, <1>2 DEF IInv, DownloadAreaFree, ProgsInUse, DaysInUse, Written
<1>3. CASE ~fresh
    BY <1>3 DEF Written
<1> QED BY <1>2, <1>3

LEMMA WriteInv ==
    ASSUME IInv, Written,
           UNCHANGED <<mt_conf, was, fut_own_days, nv_conf, nv_was>>
    PROVE  CommandInv'
<1>1. DownloadAreaFree'
    <2>1. ProgsInUse(mt_conf') = ProgsInUse(mt_conf)
          /\ DaysInUse(mt_conf') = DaysInUse(mt_conf)
        OBVIOUS
    <2>2. fresh' => /\ fresh
                    /\ prog_dl_idx' \notin ProgsInUse(mt_conf)
                    /\ ~exposed' => hol_dl_idx' \notin DaysInUse(mt_conf)
        BY DEF DownloadAreaFree, IInv, Written
    <2> QED BY <2>1, <2>2 DEF DownloadAreaFree
<1>2. ActiveAsActivated'
    BY WrittenElsewhere DEF ActiveAsActivated, IInv, Written
<1>3. ReservedAsReserved'
    BY WrittenElsewhere DEF ReservedAsReserved, OwnHolidays, IInv, Written
<1>4. OwnHolidays'
    BY DEF OwnHolidays, IInv, Written
<1> QED BY <1>1, <1>2, <1>3, <1>4 DEF CommandInv

LEMMA ReserveInv ==
    ASSUME IInv, Written, UNCHANGED <<nv_conf, nv_was>>,
           NEW bits \in SUBSET Bits, Reserve(bits, calendar', days')
    PROVE  CommandInv'
<1> DEFINE own == "HOLIDAYS" \in bits
<1>o. own \in BOOLEAN
    OBVIOUS
<1>t. TypeOK
    BY DEF IInv
<1>1. /\ mt_conf' = Reserved(mt_conf, own) /\ fut_own_days' = own
      /\ was' = [was EXCEPT !.reserved = calendar'[prog_dl_idx], !.own = own,
                            !.owndays = IF own THEN days'[hol_dl_idx]
                                               ELSE DefaultDays]
      /\ ~fresh' /\ (~exposed' => ~exposed /\ fresh)
    BY <1>t, GivenType DEF Reserve
<1> HIDE DEF own
<1>2. /\ mt_conf'.aprog = mt_conf.aprog /\ mt_conf'.ahol = mt_conf.ahol
      /\ mt_conf'.curhol = mt_conf.curhol /\ mt_conf'.fut
      /\ mt_conf'.pprog = prog_dl_idx /\ (own => mt_conf'.phol = hol_dl_idx)
      /\ (own => mt_conf'.futhol)
    BY <1>o, <1>1, <1>t DEF Reserved, Conf, TypeOK
<1>3. /\ was'.active = was.active /\ was'.days = was.days
      /\ was'.reserved = calendar'[prog_dl_idx] /\ was'.own = own
      /\ own => was'.owndays = days'[hol_dl_idx]
    BY <1>o, <1>1, <1>t DEF Tables, TypeOK
<1>4. DownloadAreaFree'
    BY <1>1 DEF DownloadAreaFree
<1>5. ActiveAsActivated'
    BY <1>1, <1>2, <1>3, WrittenElsewhere DEF ActiveAsActivated, IInv
<1>6. ReservedAsReserved'
    BY <1>1, <1>2, <1>3 DEF ReservedAsReserved
<1>7. OwnHolidays'
    BY <1>1, <1>2, <1>3 DEF OwnHolidays, IInv
<1> QED BY <1>4, <1>5, <1>6, <1>7 DEF CommandInv

LEMMA PutInForceInv ==
    ASSUME IInv, Written, UNCHANGED <<nv_conf, nv_was>>,
           NEW bits \in SUBSET Bits, PutInForce(bits)
    PROVE  CommandInv'
<1> DEFINE own == "HOLIDAYS" \in bits
<1>o. own \in BOOLEAN
    OBVIOUS
<1>t. TypeOK
    BY DEF IInv
<1>1. /\ mt_conf' = InForce(mt_conf, prog_dl_idx, own, hol_dl_idx)
      /\ was' = [was EXCEPT !.active = calendar'[prog_dl_idx],
                            !.days = IF own THEN days'[hol_dl_idx] ELSE @]
      /\ ~fresh' /\ (~exposed' => ~exposed /\ fresh)
      /\ UNCHANGED fut_own_days
    BY <1>t, GivenType DEF PutInForce
<1> HIDE DEF own
<1>2. /\ mt_conf'.aprog = prog_dl_idx
      /\ mt_conf'.ahol = IF own THEN hol_dl_idx ELSE mt_conf.ahol
      /\ mt_conf'.curhol = (own \/ mt_conf.curhol)
      /\ mt_conf'.fut = mt_conf.fut /\ mt_conf'.futhol = mt_conf.futhol
      /\ mt_conf'.pprog = mt_conf.pprog /\ mt_conf'.phol = mt_conf.phol
    BY <1>o, <1>1, <1>t DEF InForce, Conf, TypeOK
<1>3. /\ was'.active = calendar'[prog_dl_idx]
      /\ was'.days = IF own THEN days'[hol_dl_idx] ELSE was.days
      /\ was'.reserved = was.reserved /\ was'.own = was.own
      /\ was'.owndays = was.owndays
    BY <1>o, <1>1, <1>t DEF Tables, TypeOK
<1>4. DownloadAreaFree'
    BY <1>1 DEF DownloadAreaFree
<1>5. ActiveAsActivated'
    BY <1>1, <1>2, <1>3, WrittenElsewhere DEF ActiveAsActivated, IInv
<1>6. ReservedAsReserved'
    BY <1>1, <1>2, <1>3, WrittenElsewhere
       DEF ReservedAsReserved, OwnHolidays, IInv
<1>7. OwnHolidays'
    BY <1>1, <1>2, <1>3 DEF OwnHolidays, IInv
<1> QED BY <1>4, <1>5, <1>6, <1>7 DEF CommandInv

(* A download is begun: the calendar in force is copied to an area that is *)
(* of no program, or nothing is written.  The area may be the one of the   *)
(* program whose place the reserved one has taken in this turn.            *)
LEMMA ChooseInv ==
    ASSUME IInv, CommandTurn, ChooseDownloadArea(mt_conf),
           \/ calendar' = [calendar EXCEPT ![prog_dl_idx'] =
                                               calendar[mt_conf.aprog]]
           \/ UNCHANGED calendar,
           UNCHANGED <<mt_conf, days, fut_own_days, exposed, was>>
    PROVE  /\ CommandInv'
           /\ Saved' /\ NvFree' /\ NvReserved' /\ NvActive' /\ NvDays'
<1>t. TypeOK
    BY DEF IInv
<1>1. /\ prog_dl_idx' \in Areas /\ hol_dl_idx' \in Areas
      /\ prog_dl_idx' \notin ProgsInUse(mt_conf)
      /\ hol_dl_idx' \notin DaysInUse(mt_conf)
    BY <1>t, Chosen DEF TypeOK
<1>2. /\ mt_conf.aprog \in Areas /\ mt_conf.pprog \in Areas
      /\ nv_conf.aprog \in Areas /\ nv_conf.pprog \in Areas
    BY <1>t DEF TypeOK, Conf
<1>3. \A a \in Areas :
        \/ calendar'[a] = calendar[a]
        \/ a = prog_dl_idx' /\ calendar'[a] = calendar[mt_conf.aprog]
    BY <1>t DEF TypeOK
<1>4. /\ calendar'[mt_conf.aprog] = calendar[mt_conf.aprog]
      /\ mt_conf.fut => calendar'[mt_conf.pprog] = calendar[mt_conf.pprog]
    BY <1>1, <1>2, <1>3 DEF ProgsInUse
<1>5. DownloadAreaFree'
    <2>1. ProgsInUse(mt_conf') = ProgsInUse(mt_conf)
          /\ DaysInUse(mt_conf') = DaysInUse(mt_conf)
        OBVIOUS
    <2> QED BY <1>1, <2>1 DEF DownloadAreaFree
<1>6. ActiveAsActivated' /\ ReservedAsReserved' /\ OwnHolidays'
    BY <1>4 DEF ActiveAsActivated, ReservedAsReserved, OwnHolidays, IInv,
       CommandTurn
<1>7. CommandInv'
    BY <1>5, <1>6 DEF CommandInv
<1>8. Saved'
    BY DEF Saved, CommandTurn
<1>9. ~exposed /\ nv_conf.fut =>
        /\ nv_conf.pprog \in ProgsInUse(mt_conf)
        /\ nv_was.own => nv_conf.phol \in DaysInUse(mt_conf)
    BY DEF IInv, Saved, CommandTurn
<1>10. NvFree'
    BY <1>1, <1>9 DEF NvFree, CommandTurn
<1>11. NvReserved'
    <2>1. ~exposed /\ nv_conf.fut =>
                calendar'[nv_conf.pprog] = calendar[nv_conf.pprog]
        BY <1>1, <1>2, <1>3, <1>9
    <2> QED BY <2>1 DEF NvReserved, IInv, CommandTurn
<1>12. NvActive'
    <2> SUFFICES ASSUME ~exposed
                 PROVE  calendar'[nv_conf.aprog] \in
                            {nv_was.active, nv_was.reserved}
        BY DEF NvActive, CommandTurn
    <2>1. calendar[nv_conf.aprog] = nv_was.active
        BY DEF IInv, NvActive, CommandTurn
    <2>2. CASE calendar'[nv_conf.aprog] = calendar[nv_conf.aprog]
        BY <2>1, <2>2
    <2>3. CASE /\ nv_conf.aprog = prog_dl_idx'
               /\ calendar'[nv_conf.aprog] = calendar[mt_conf.aprog]
        <3>1. mt_conf.aprog # nv_conf.aprog
            BY <1>1, <2>3 DEF ProgsInUse
        <3>2. nv_conf.fut /\ mt_conf.aprog = nv_conf.pprog
            BY <3>1 DEF IInv, Saved, CommandTurn
        <3>3. calendar[nv_conf.pprog] = nv_was.reserved
            BY <3>2 DEF IInv, NvReserved
        <3> QED BY <2>3, <3>2, <3>3
    <2> QED BY <1>2, <1>3, <2>2, <2>3
<1>13. NvDays'
    BY DEF NvDays, IInv, CommandTurn
<1> QED BY <1>7, <1>8, <1>10, <1>11, <1>12, <1>13

LEMMA FutureDeleteInv ==
    ASSUME IInv, CommandTurn, FutureDelete
    PROVE  CommandInv'
<1>t. TypeOK
    BY DEF IInv
<1>1. /\ mt_conf'.aprog = mt_conf.aprog /\ mt_conf'.ahol = mt_conf.ahol
      /\ mt_conf'.curhol = mt_conf.curhol /\ ~mt_conf'.fut
    BY <1>t DEF FutureDelete, Dropped, TypeOK, Conf
<1>2. was'.active = was.active /\ was'.days = was.days /\ ~was'.own
    BY <1>t DEF FutureDelete, Forgotten, TypeOK, Tables
<1>3. UNCHANGED <<calendar, days, prog_dl_idx, hol_dl_idx, fresh, exposed>>
    BY DEF FutureDelete, KeepDownloadArea, tableVars
<1>4. DownloadAreaFree'
    BY <1>1, <1>3 DEF DownloadAreaFree, ProgsInUse, DaysInUse, IInv
<1>5. ActiveAsActivated'
    BY <1>1, <1>2, <1>3 DEF ActiveAsActivated, IInv
<1>6. ReservedAsReserved' /\ OwnHolidays'
    BY <1>1, <1>3 DEF ReservedAsReserved, OwnHolidays, IInv, CommandTurn
<1> QED BY <1>4, <1>5, <1>6 DEF CommandInv

LEMMA ActivateInv ==
    ASSUME IInv, CommandTurn, NEW c \in Calendars, NEW d \in Days,
           Activate(c, d)
    PROVE  Written /\ CommandInv'
<1>t. TypeOK
    BY DEF IInv
<1> PICK bits \in SUBSET Bits :
        /\ Unpack(c, d, bits)
        /\ \/ PutInForce(bits)
           \/ Reserve(bits, calendar', days')
           \/ /\ UseDownloadArea
              /\ set_bits' = bits
              /\ UNCHANGED <<mt_conf, fut_own_days, fresh, was>>
    BY DEF Activate
<1>1. /\ \A a \in Areas : a # prog_dl_idx => calendar'[a] = calendar[a]
      /\ \A a \in Areas : a # hol_dl_idx => days'[a] = days[a]
    BY <1>t DEF Unpack, TypeOK
<1>2. UNCHANGED <<prog_dl_idx, hol_dl_idx>>
    BY DEF Activate, KeepDownloadArea
<1>3. UNCHANGED <<nv_conf, nv_was>>
    BY DEF CommandTurn
<1>4. CASE PutInForce(bits)
    <2>1. fresh' \in BOOLEAN /\ ~fresh' /\ (~exposed' => ~exposed /\ fresh)
        BY <1>t, <1>4, GivenType DEF PutInForce
    <2>2. Written
        BY <1>1, <1>2, <2>1 DEF Written
    <2> QED BY <1>3, <1>4, <2>2, PutInForceInv
<1>5. CASE Reserve(bits, calendar', days')
    <2>1. fresh' \in BOOLEAN /\ ~fresh' /\ (~exposed' => ~exposed /\ fresh)
        BY <1>t, <1>5, GivenType DEF Reserve
    <2>2. Written
        BY <1>1, <1>2, <2>1 DEF Written
    <2> QED BY <1>3, <1>5, <2>2, ReserveInv
<1>6. CASE /\ UseDownloadArea
           /\ set_bits' = bits
           /\ UNCHANGED <<mt_conf, fut_own_days, fresh, was>>
    <2>1. ~exposed' => ~exposed /\ fresh
        BY <1>t, <1>6, UsedType
    <2>2. fresh' \in BOOLEAN /\ (fresh' => fresh)
        BY <1>t, <1>6 DEF TypeOK
    <2>3. Written
        BY <1>1, <1>2, <2>1, <2>2 DEF Written
    <2> QED BY <1>3, <1>6, <2>3, WriteInv
<1> QED BY <1>4, <1>5, <1>6

LEMMA CommandKeepsInv ==
    ASSUME IInv, CommandTurn, Command
    PROVE  /\ CommandInv'
           /\ Saved' /\ NvFree' /\ NvReserved' /\ NvActive' /\ NvDays'
<1>t. TypeOK
    BY DEF IInv
<1>n. UNCHANGED <<nv_conf, nv_was>>
    BY DEF CommandTurn
<1>1. CASE \/ OtherCommand \/ Associate \/ SetOther \/ ReceiveBlock
           \/ ActivateNotReady
    <2>1. UNCHANGED <<mt_conf, was, fut_own_days, calendar, days, fresh,
                      exposed, prog_dl_idx, hol_dl_idx>>
        BY <1>1 DEF OtherCommand, Associate, SetOther, ReceiveBlock,
           ActivateNotReady, KeepDownloadArea, tableVars, dlVars
    <2>2. Written
        BY <1>t, <2>1 DEF Written, TypeOK
    <2> QED BY <1>n, <2>1, <2>2, WriteInv, SavedKept
<1>2. CASE ProgramDownload
    BY <1>2, ChooseInv DEF ProgramDownload
<1>3. CASE Initiate
    BY <1>3, ChooseInv DEF Initiate, tableVars
<1>4. CASE FutureDelete
    <2>1. Written
        BY <1>t, <1>4 DEF FutureDelete, KeepDownloadArea, tableVars, Written,
           TypeOK
    <2> QED BY <1>4, <2>1, FutureDeleteInv, SavedKept
<1>5. CASE FutureWork
    <2>1. /\ Reserve(set_bits, calendar, days)
          /\ UNCHANGED <<calendar, days, prog_dl_idx, hol_dl_idx>>
        BY <1>5 DEF FutureWork, KeepDownloadArea, tableVars
    <2>2. Reserve(set_bits, calendar', days')
        BY <2>1
    <2>3. fresh' \in BOOLEAN /\ ~fresh' /\ (~exposed' => ~exposed /\ fresh)
        BY <1>t, <2>1, GivenType DEF Reserve
    <2>4. Written
        BY <2>1, <2>3 DEF Written
    <2>5. set_bits \in SUBSET Bits
        BY <1>t DEF TypeOK
    <2> QED BY <1>n, <2>2, <2>4, <2>5, ReserveInv, SavedKept
<1>6. CASE \/ \E c \in Calendars : SetCalendar(c)
           \/ \E d \in Days, last \in BOOLEAN : SetDays(d, last)
           \/ \E c \in Calendars, d \in Days : ActivateFails(c, d)
    <2>1. /\ \A a \in Areas : a # prog_dl_idx => calendar'[a] = calendar[a]
          /\ \A a \in Areas : a # hol_dl_idx => days'[a] = days[a]
          /\ UNCHANGED <<mt_conf, was, fut_own_days, fresh, prog_dl_idx,
                         hol_dl_idx>>
          /\ UseDownloadArea
        <3>1. CASE \E c \in Calendars : SetCalendar(c)
            BY <1>t, <3>1 DEF SetCalendar, dlVars, TypeOK
        <3>2. CASE \E d \in Days, last \in BOOLEAN : SetDays(d, last)
            BY <1>t, <3>2 DEF SetDays, KeepDownloadArea, TypeOK
        <3>3. CASE \E c \in Calendars, d \in Days : ActivateFails(c, d)
            BY <1>t, <3>3 DEF ActivateFails, KeepDownloadArea, TypeOK
        <3> QED BY <1>6, <3>1, <3>2, <3>3
    <2>2. ~exposed' => ~exposed /\ fresh
        BY <1>t, <2>1, UsedType
    <2>3. fresh' \in BOOLEAN /\ (fresh' => fresh)
        BY <1>t, <2>1 DEF TypeOK
    <2>4. Written
        BY <2>1, <2>2, <2>3 DEF Written
    <2> QED BY <1>n, <2>1, <2>4, WriteInv, SavedKept
<1>7. CASE \E c \in Calendars, d \in Days : Activate(c, d)
    BY <1>7, ActivateInv, SavedKept
<1> QED BY <1>1, <1>2, <1>3, <1>4, <1>5, <1>6, <1>7 DEF Command

(* Holidays in force are edited in place, for all programs that share them. *)
LEMMA EditDaysInv ==
    ASSUME IInv, turn = "amr", turn' = "keys", UNCHANGED nv_conf,
           NEW d \in Days, EditDays(d)
    PROVE  /\ CommandInv'
           /\ Saved' /\ NvFree' /\ NvReserved' /\ NvActive' /\ NvDays'
<1>t. TypeOK
    BY DEF IInv
<1>1. /\ mt_conf.ahol \in Areas /\ mt_conf.phol \in Areas
      /\ nv_conf.ahol \in Areas /\ nv_conf.phol \in Areas
    BY <1>t DEF TypeOK, Conf
<1>2. \A a \in Areas : days'[a] = IF a = mt_conf.ahol THEN d ELSE days[a]
    BY <1>t, <1>1 DEF EditDays, TypeOK
<1>3. UNCHANGED <<mt_conf, calendar, prog_dl_idx, hol_dl_idx, fut_own_days,
                  fresh, exposed>>
    BY DEF EditDays, dlVars
<1>4. \A t \in Tables : \A c \in Conf :
        /\ Edited(t, c, d).active = t.active
        /\ Edited(t, c, d).reserved = t.reserved
        /\ Edited(t, c, d).own = t.own
        /\ Edited(t, c, d).days =
                IF c.ahol = mt_conf.ahol THEN d ELSE t.days
        /\ Edited(t, c, d).owndays =
                IF t.own /\ c.phol = mt_conf.ahol THEN d ELSE t.owndays
    BY DEF Edited, Tables
<1>5. /\ was'.active = was.active /\ was'.reserved = was.reserved
      /\ was'.own = was.own /\ was'.days = d
      /\ was'.owndays = IF was.own /\ mt_conf.phol = mt_conf.ahol
                        THEN d ELSE was.owndays
    BY <1>t, <1>4 DEF EditDays, TypeOK
<1>6. /\ nv_was'.active = nv_was.active /\ nv_was'.reserved = nv_was.reserved
      /\ nv_was'.own = nv_was.own
      /\ nv_was'.days = IF nv_conf.ahol = mt_conf.ahol THEN d ELSE nv_was.days
      /\ nv_was'.owndays = IF nv_was.own /\ nv_conf.phol = mt_conf.ahol
                           THEN d ELSE nv_was.owndays
    BY <1>t, <1>4 DEF EditDays, TypeOK
<1>7. DownloadAreaFree'
    BY <1>3 DEF DownloadAreaFree, ProgsInUse, DaysInUse, IInv
<1>8. ActiveAsActivated'
    BY <1>1, <1>2, <1>3, <1>5 DEF ActiveAsActivated, IInv
<1>9. ReservedAsReserved'
    BY <1>1, <1>2, <1>3, <1>5 DEF ReservedAsReserved, IInv
<1>10. OwnHolidays'
    BY <1>3, <1>5, <1>6 DEF OwnHolidays, IInv
<1>11. Saved'
    BY DEF Saved
<1>12. NvFree'
    BY <1>3, <1>6 DEF NvFree, IInv
<1>13. NvReserved'
    BY <1>1, <1>2, <1>3, <1>6 DEF NvReserved, IInv
<1>14. NvActive'
    BY <1>3, <1>6 DEF NvActive, IInv
<1>15. NvDays'
    BY <1>1, <1>2, <1>3, <1>6 DEF NvDays, IInv
<1> QED BY <1>7, <1>8, <1>9, <1>10, <1>11, <1>12, <1>13, <1>14, <1>15
        DEF CommandInv

LEMMA RequestInv == IInv /\ Request => IInv'
<1> SUFFICES ASSUME IInv, Request PROVE IInv'
    OBVIOUS
<1>0. TypeOK'
    BY RequestType DEF IInv
<1>1. CASE Command /\ UNCHANGED nv_was
    <2>1. CommandTurn
        BY <1>1 DEF Request, CommandTurn
    <2>2. /\ CommandInv'
          /\ Saved' /\ NvFree' /\ NvReserved' /\ NvActive' /\ NvDays'
        BY <1>1, <2>1, CommandKeepsInv
    <2> QED BY <1>0, <2>2 DEF IInv, CommandInv
<1>2. CASE \E d \in Days : EditDays(d)
    <2>1. /\ CommandInv'
          /\ Saved' /\ NvFree' /\ NvReserved' /\ NvActive' /\ NvDays'
        BY <1>2, EditDaysInv DEF Request
    <2> QED BY <1>0, <2>1 DEF IInv, CommandInv
<1> QED BY <1>1, <1>2 DEF Request

LEMMA ChangeRateKindInv ==
    ASSUME IInv, turn = "keys", turn' = "save",
           UNCHANGED <<nv_conf, nv_was, fut_own_days>>, ChangeRateKind
    PROVE  /\ CommandInv'
           /\ Saved' /\ NvFree' /\ NvReserved' /\ NvActive' /\ NvDays'
<1>t. TypeOK
    BY DEF IInv
<1>1. /\ nv_conf.aprog \in Areas /\ nv_conf.pprog \in Areas
      /\ nv_conf.ahol \in Areas /\ nv_conf.phol \in Areas
      /\ prog_dl_idx \in Areas /\ hol_dl_idx \in Areas
    BY <1>t DEF TypeOK, Conf
<1>2. /\ \A a \in Areas : calendar'[a] = IF a = prog_dl_idx
                                         THEN DefaultCalendar ELSE calendar[a]
      /\ \A a \in Areas : days'[a] = IF a = hol_dl_idx
                                     THEN DefaultDays ELSE days[a]
    BY <1>t DEF ChangeRateKind, TypeOK
<1>3. ~fresh' /\ (~exposed' => ~exposed /\ fresh)
    BY <1>t, GivenType DEF ChangeRateKind
<1>4. /\ mt_conf'.aprog = prog_dl_idx /\ mt_conf'.ahol = hol_dl_idx
      /\ ~mt_conf'.fut
    BY <1>t DEF ChangeRateKind, InForce, Dropped, TypeOK, Conf
<1>5. /\ was'.active = DefaultCalendar /\ was'.days = DefaultDays
    BY <1>t DEF ChangeRateKind, Forgotten, TypeOK, Tables
<1>6. DownloadAreaFree' /\ NvFree'
    BY <1>3 DEF DownloadAreaFree, NvFree
<1>7. ActiveAsActivated'
    BY <1>1, <1>2, <1>4, <1>5 DEF ActiveAsActivated
<1>8. ReservedAsReserved' /\ OwnHolidays'
    BY <1>3, <1>4 DEF ReservedAsReserved, OwnHolidays, IInv
<1>9. Saved'
    BY DEF Saved
<1>10. NvReserved'
    BY <1>1, <1>2, <1>3 DEF NvReserved, NvFree, IInv
<1>11. NvActive'
    BY <1>1, <1>2, <1>3, <1>5 DEF NvActive, IInv
<1>12. NvDays'
    BY <1>1, <1>2, <1>3, <1>5 DEF NvDays, IInv
<1> QED BY <1>6, <1>7, <1>8, <1>9, <1>10, <1>11, <1>12 DEF CommandInv

LEMMA KeysInv == IInv /\ Keys => IInv'
<1> SUFFICES ASSUME IInv, Keys PROVE IInv'
    OBVIOUS
<1>0. TypeOK'
    BY KeysType DEF IInv
<1>t. TypeOK
    BY DEF IInv
<1>n. /\ turn = "keys" /\ turn' = "save"
      /\ UNCHANGED <<nv_conf, nv_was, fut_own_days>>
    BY DEF Keys
<1>1. CASE ChangeRateKind
    BY <1>0, <1>1, <1>n, ChangeRateKindInv DEF IInv, CommandInv
<1>2. CASE EnterTou
    <2>1. /\ mt_conf'.aprog = mt_conf.aprog /\ ~mt_conf'.curhol
          /\ ~mt_conf'.fut
        BY <1>t, <1>2 DEF EnterTou, Dropped, TypeOK, Conf
    <2>2. was'.active = was.active /\ was'.days = was.days
        BY <1>t, <1>2 DEF EnterTou, Forgotten, TypeOK, Tables
    <2>3. UNCHANGED <<calendar, days, prog_dl_idx, hol_dl_idx, fresh, exposed>>
        BY <1>2 DEF EnterTou, tableVars, dlVars
    <2>4. DownloadAreaFree' /\ ActiveAsActivated' /\ ReservedAsReserved'
        BY <2>1, <2>2, <2>3 DEF DownloadAreaFree, ProgsInUse, DaysInUse,
           ActiveAsActivated, ReservedAsReserved, IInv
    <2>5. OwnHolidays' /\ Saved' /\ NvFree' /\ NvReserved' /\ NvActive'
          /\ NvDays'
        BY <1>n, <2>1, <2>2, <2>3 DEF OwnHolidays, Saved, NvFree, NvReserved,
           NvActive, NvDays, IInv
    <2> QED BY <1>0, <2>4, <2>5 DEF IInv
<1>3. CASE UNCHANGED <<mt_conf, tableVars, dlVars, fresh, exposed, was>>
    <2>1. UNCHANGED <<mt_conf, calendar, days, prog_dl_idx, hol_dl_idx, fresh,
                      exposed, was>>
        BY <1>3 DEF tableVars, dlVars
    <2>2. DownloadAreaFree' /\ ActiveAsActivated' /\ ReservedAsReserved'
        BY <1>n, <2>1 DEF DownloadAreaFree, ProgsInUse, DaysInUse,
           ActiveAsActivated, ReservedAsReserved, IInv
    <2>3. OwnHolidays' /\ Saved' /\ NvFree' /\ NvReserved' /\ NvActive'
          /\ NvDays'
        BY <1>n, <2>1 DEF OwnHolidays, Saved, NvFree, NvReserved, NvActive,
           NvDays, IInv
    <2> QED BY <1>0, <2>2, <2>3 DEF IInv
<1> QED BY <1>1, <1>2, <1>3 DEF Keys

LEMMA SaveInv == IInv /\ Save => IInv'
<1> SUFFICES ASSUME IInv, Save PROVE IInv'
    OBVIOUS
<1>0. TypeOK'
    BY SaveType DEF IInv
<1>1. /\ turn' = "program" /\ nv_conf' = mt_conf /\ nv_was' = was
      /\ UNCHANGED <<mt_conf, calendar, days, prog_dl_idx, hol_dl_idx,
                     fut_own_days, fresh, exposed, was>>
    BY DEF Save, tableVars, dlVars
<1>2. DownloadAreaFree' /\ ActiveAsActivated' /\ ReservedAsReserved'
    BY <1>1 DEF DownloadAreaFree, ProgsInUse, DaysInUse, ActiveAsActivated,
       ReservedAsReserved, IInv
<1>3. OwnHolidays' /\ Saved'
    BY <1>1 DEF OwnHolidays, Saved, IInv
<1>4. NvFree'
    BY <1>1 DEF NvFree, DownloadAreaFree, OwnHolidays, ProgsInUse, DaysInUse,
       IInv
<1>5. NvReserved' /\ NvActive' /\ NvDays'
    BY <1>1 DEF NvReserved, NvActive, NvDays, ActiveAsActivated,
       ReservedAsReserved, IInv
<1> QED BY <1>0, <1>2, <1>3, <1>4, <1>5 DEF IInv

LEMMA RestartInv == IInv /\ Restart => IInv'
<1> SUFFICES ASSUME IInv, Restart PROVE IInv'
    OBVIOUS
<1>0. TypeOK'
    BY RestartType DEF IInv
<1>t. TypeOK
    BY DEF IInv
<1>1. /\ turn' = "program" /\ mt_conf' = nv_conf /\ nv_was' = was'
      /\ UNCHANGED <<nv_conf, calendar, days, fut_own_days>>
      /\ ~exposed' => /\ ~exposed
                      /\ nv_conf.fut => fut_own_days = nv_was.own
    BY <1>t DEF Restart, tableVars, TypeOK
<1>2. /\ was'.active = calendar[nv_conf.aprog]
      /\ was'.days = days[nv_conf.ahol]
      /\ was'.reserved = nv_was.reserved /\ was'.own = nv_was.own
      /\ was'.owndays = nv_was.owndays
    BY <1>t DEF Restart, TypeOK, Tables
<1>3. /\ prog_dl_idx' \notin ProgsInUse(nv_conf)
      /\ hol_dl_idx' \notin DaysInUse(nv_conf)
    BY <1>t, Chosen DEF Restart, TypeOK
<1>4. DownloadAreaFree'
    BY <1>1, <1>3 DEF DownloadAreaFree
<1>5. ActiveAsActivated' /\ OwnHolidays' /\ Saved'
    BY <1>1, <1>2 DEF ActiveAsActivated, OwnHolidays, Saved, IInv
<1>6. ReservedAsReserved' /\ NvReserved'
    BY <1>1, <1>2 DEF ReservedAsReserved, NvReserved, IInv
<1>7. NvFree'
    BY <1>1, <1>2, <1>3 DEF NvFree, ProgsInUse, DaysInUse, OwnHolidays, IInv
<1>8. NvActive' /\ NvDays'
    BY <1>1, <1>2 DEF NvActive, NvDays
<1> QED BY <1>0, <1>4, <1>5, <1>6, <1>7, <1>8 DEF IInv

LEMMA StutterInv == IInv /\ UNCHANGED vars => IInv'
<1> SUFFICES ASSUME IInv, UNCHANGED vars PROVE IInv'
    OBVIOUS
<1>1. TypeOK'
    BY TypeStep DEF IInv
<1> QED BY <1>1 DEF vars, confVars, tableVars, dlVars, IInv,
        DownloadAreaFree, ProgsInUse, DaysInUse, ActiveAsActivated,
        ReservedAsReserved, Saved, OwnHolidays, NvFree, NvReserved, NvActive,
        NvDays

LEMMA InductiveInv == Spec => []IInv
<1>1. Init => IInv
    BY InitInv
<1>2. IInv /\ [Next]_vars => IInv'
    BY ProgramProcInv, RequestInv, KeysInv, SaveInv, RestartInv, StutterInv
       DEF Next
<1> QED BY <1>1, <1>2, PTL DEF Spec

-----------------------------------------------------------------------------
(* Every index is that of an area: whatever is active and reserved, one    *)
(* area is left to download to (set_prog_dl_idx, set_hol_dl_idx).          *)
THEOREM TypeCorrect == Spec => []TypeOK
<1>1. IInv => TypeOK
    BY DEF IInv
<1> QED BY <1>1, InductiveInv, PTL

(* A download area that was chosen stays free until it is given away.      *)
THEOREM DownloadIsFree == Spec => []DownloadAreaFree
<1>1. IInv => DownloadAreaFree
    BY DEF IInv
<1> QED BY <1>1, InductiveInv, PTL

(* The program in force works with the tables it was put into force with.  *)
THEOREM ActiveKept == Spec => []ActiveAsActivated
<1>1. IInv => ActiveAsActivated
    BY DEF IInv
<1> QED BY <1>1, InductiveInv, PTL

(* The reserved program keeps the tables it was reserved with.             *)
THEOREM ReservedKept == Spec => []ReservedAsReserved
<1>1. IInv => ReservedAsReserved
    BY DEF IInv
<1> QED BY <1>1, InductiveInv, PTL

(* A reset at any step brings back a program that was whole.               *)
THEOREM ResetSurvived == Spec => SurvivesReset
<1> DEFINE Whole ==
        /\ calendar[nv_conf.aprog] \in
               {nv_was.active, nv_was.reserved, was.active}
        /\ nv_conf.curhol => days[nv_conf.ahol] \in {nv_was.days, was.days}
<1>1. IInv /\ [Next]_vars => [Restart /\ ~exposed' => Whole]_vars
    <2> SUFFICES ASSUME IInv, Restart, ~exposed' PROVE Whole
        OBVIOUS
    <2>1. TypeOK
        BY DEF IInv
    <2>2. ~exposed
        BY <2>1 DEF Restart, TypeOK
    <2>3. turn \in {"program", "amr", "keys", "save"}
        BY <2>1 DEF TypeOK
    <2>4. calendar[nv_conf.aprog] \in
              {nv_was.active, nv_was.reserved, was.active}
        BY <2>2, <2>3 DEF IInv, NvActive
    <2>5. nv_conf.curhol => days[nv_conf.ahol] \in {nv_was.days, was.days}
        BY <2>2, <2>3 DEF IInv, NvDays
    <2> QED BY <2>4, <2>5
<1> QED BY <1>1, InductiveInv, PTL DEF Spec, SurvivesReset
=============================================================================
