------------------------------- MODULE Session ------------------------------
(***************************************************************************)
(* Who talks to the meter: the arbitration between the media               *)
(* (amg_media_mnt.c), the reception of their frames by the loop of the     *)
(* meter task (amg_meter_main.c), the data link as far as it connects and  *)
(* disconnects (dlms/dl.c), the association (dlms/appl.c, dlms/act_req.c), *)
(* the timers that end a session, and the clearing of the meter, which is  *)
(* put off until the answer is sent (dlms/comm.c).                         *)
(*                                                                         *)
(* All media share one data link.  A turn of the loop serves the timers,   *)
(* then the media in the order of Ports, hands at most one frame to the    *)
(* data link (amr_proc), then the keys, and last sends what waits on the   *)
(* ports.  A frame is admitted on what the session is when it arrives, and *)
(* handled when its turn comes; others may be admitted in between, and the *)
(* answer goes to the medium of the frame that was admitted last.          *)
(*                                                                         *)
(* Outcomes that hang on the content of a frame (the parameters of an      *)
(* SNRM, an AARQ, a signature, a decryption, sequence numbers: see Hdlc)   *)
(* are choices.  A client uses the server address of its kind.             *)
(***************************************************************************)
EXTENDS Naturals, Sequences

CONSTANTS
    Frames,           \* the frames that may arrive
    Media,            \* the media that carry frames
    MaxRx,            \* bound: frames waiting in the ring of received bytes
    Behind,           \* bound: <<f, g>> when g may wait behind f
    FactoryOutcomes   \* what factory_addtional_reset may return

Saps == {"PUBLIC", "UTILITY", "PRIVATE", "COMM485", "SEC_UTILITY", "SEC_SITE"}

NoClient == "NONE"
Others == "OTHERS"

(* A frame of a client, or one for another meter, that is of no client. "I" *)
(* stands for all that is neither SNRM nor DISC.                            *)
Frame == [client : Saps, ctl : {"SNRM", "DISC", "I"}]
         \cup {[client |-> NoClient, ctl |-> "I"]}

ASSUME SessionAssumption ==
    /\ Frames \subseteq Frame
    /\ Media \subseteq {"RS485", "SUN", "EXT"}
    /\ MaxRx \in Nat /\ Behind \subseteq Frames \X Frames
    /\ FactoryOutcomes \subseteq BOOLEAN

VARIABLES
    turn,                  \* how far the turn of the loop has come
    g_en_run_media_HDLC,   \* the medium answers are sent on
    rx,                    \* the frames in rx_buf
    wire,                  \* bytes wait to be sent on RS485
    dl_conn_state, dl_conn_client_addr,
    appl_sap, appl_conn_state,
    act_devcmd,            \* the device command executed last
    mt_init_delay,         \* mt_init_delay_until_txcomplete
    sap_is_utility,        \* sap_is_utility_when_mt_init
    lab_clear_pending,     \* lab_eeprom_clear_pending
    reset_to,              \* MT_SW_GENERAL_two_TO, for a reset of the meter
    asso_to,               \* MT_SW_TIMER_ASSO_TO runs
    asso_4_485_to,         \* MT_SW_TIMER_ASSO_4_485_TO runs
    \* history
    from,                  \* the media the frames in rx have come from
    home,                  \* the medium the SNRM of the client has come from
    crossed,               \* frames of other media were behind that SNRM
    asked,                 \* who has asked for the meter to be cleared
    failed,                \* the clearing asked for last has failed
    cleared                \* the clearing that restarts the meter

linkVars == <<dl_conn_state, dl_conn_client_addr>>
applVars == <<appl_sap, appl_conn_state>>
clearVars == <<mt_init_delay, sap_is_utility, lab_clear_pending>>
timerVars == <<reset_to, asso_to, asso_4_485_to>>
homeVars == <<home, crossed>>
histVars == <<homeVars, asked, failed, cleared>>
portVars == <<g_en_run_media_HDLC, rx, from, wire>>
vars == <<turn, portVars, linkVars, applVars, act_devcmd, clearVars,
          timerVars, histVars>>

(* appl_conn_state *)
IDLE == 0
ASSOCIATED == 1
CROSS_AUTH == 2
KEY_AGREEMENT == 3
ENC_SIGN == 4

(* The turn of the loop: the timers, the ports, amr_proc and the keys,     *)
(* then the flush. A meter that is down restarts.                          *)
Timers == 0
Ports == <<"RS485", "SUN", "EXT">>
Keys == 4
Down == 5
PortOf(m) == CHOOSE p \in DOMAIN Ports : Ports[p] = m

Secure(c) == c \in {"SEC_UTILITY", "SEC_SITE"}
Management(c) == c \in {"PUBLIC", "UTILITY"}

Init ==
    /\ turn = Timers
    /\ g_en_run_media_HDLC = "NONE" /\ rx = <<>> /\ from = <<>>
    /\ wire = FALSE
    /\ dl_conn_state = "NDM" /\ dl_conn_client_addr = NoClient
    /\ appl_sap = "PUBLIC" /\ appl_conn_state = IDLE
    /\ act_devcmd = "NULL"
    /\ mt_init_delay = FALSE /\ sap_is_utility = FALSE
    /\ lab_clear_pending = FALSE
    /\ reset_to = FALSE /\ asso_to = FALSE /\ asso_4_485_to = FALSE
    /\ home = "NONE" /\ crossed = FALSE
    /\ asked = NoClient /\ failed = FALSE /\ cleared = "NO"

-----------------------------------------------------------------------------
(* Arbitration: dsm_media_if_return_proc. *)

Busy == appl_conn_state > ASSOCIATED \/ dl_conn_state = "NRM"

(* What a session of the secure utility client lets in from a medium that  *)
(* is not its own.                                                         *)
Preferred(m, f) ==
    \/ m = "RS485" /\ (f.client = "SEC_UTILITY" \/ Management(f.client))
    \/ m = "EXT" /\ f.client = "SEC_UTILITY" /\ g_en_run_media_HDLC # "RS485"

(* Fault: only the start of a session from another medium is refused. *)
Returned_SnrmOnly(m, f) ==
    Busy /\ ~Secure(appl_sap) /\ m # g_en_run_media_HDLC /\ f.ctl = "SNRM"

Returned(m, f) ==
    /\ Busy
    /\ CASE appl_sap = "SEC_SITE" ->
              \/ f.client = "SEC_UTILITY"
              \/ m # g_en_run_media_HDLC /\ Management(f.client)
         [] appl_sap = "SEC_UTILITY" /\ m # g_en_run_media_HDLC ->
              IF f.client = "SEC_SITE" THEN f.ctl = "SNRM"
              ELSE ~Preferred(m, f)
         [] OTHER -> m # g_en_run_media_HDLC

(* dsm_media_DM_check_DM_send *)
AnsweredDM(f) ==
    appl_sap = "SEC_SITE" /\ f.client = "SEC_UTILITY" /\ f.ctl # "I"

Arrives(m) == turn <= PortOf(m) /\ turn' = PortOf(m)

Reject(m, f) ==
    /\ Arrives(m)
    /\ Returned(m, f)
    /\ wire' = (wire \/ (m = "RS485" /\ AnsweredDM(f)))
    /\ UNCHANGED <<g_en_run_media_HDLC, rx, from, linkVars, applVars,
                   act_devcmd, clearVars, timerVars, histVars>>

(* A DISC on RS485 starts the timers anew, whoever is connected. *)
StartsTimers(m, f) ==
    m = "RS485" /\ f.ctl = "DISC" /\ (Secure(f.client) \/ Management(f.client))

Admit(m, f) ==
    /\ Arrives(m)
    /\ ~Returned(m, f)
    /\ Len(rx) < MaxRx /\ \A i \in DOMAIN rx : <<rx[i], f>> \in Behind
    /\ rx' = Append(rx, f) /\ from' = Append(from, m)
    /\ g_en_run_media_HDLC' = m
    /\ asso_to' = (asso_to \/ StartsTimers(m, f))
    /\ asso_4_485_to' = (asso_4_485_to \/ (StartsTimers(m, f)
                                           /\ f.client = "SEC_SITE"))
    /\ UNCHANGED <<wire, linkVars, applVars, act_devcmd, clearVars, reset_to,
                   histVars>>

-----------------------------------------------------------------------------
(* The data link. *)

(* Whatever is sent goes to the medium of the moment. *)
Answer == wire' = (wire \/ g_en_run_media_HDLC = "RS485")

(* Fault: any disconnect makes a clearing due. *)
Due_Always(reason, snrm) == reason /\ (appl_conn_state >= ASSOCIATED \/ snrm)

(* appl_disc_ind: a clearing that has been asked for becomes due. *)
Due(reason, snrm) ==
    /\ reason /\ (appl_conn_state >= ASSOCIATED \/ snrm)
    /\ act_devcmd = "INIT"

(* Fault: only an orderly disconnect ends the association. *)
Disconnect_Orderly(reason, snrm) ==
    /\ UNCHANGED <<mt_init_delay, sap_is_utility>>
    /\ appl_conn_state' = IF reason THEN IDLE ELSE appl_conn_state

Disconnect(reason, snrm) ==
    /\ mt_init_delay' = (mt_init_delay \/ Due(reason, snrm))
    /\ sap_is_utility' = IF Due(reason, snrm)
                         THEN Secure(appl_sap) \/ Management(appl_sap)
                         ELSE sap_is_utility
    /\ appl_conn_state' = IDLE

(* appl_conn_ind *)
Connect(c) ==
    /\ dl_conn_state' = "NRM"
    /\ appl_sap' = c /\ appl_conn_state' = IDLE
    /\ home' = Head(from)
    /\ crossed' = (\E i \in DOMAIN from : from[i] # home')
    /\ asked' = IF asked \in {NoClient, c} THEN asked ELSE Others

Unconnected == home' = "NONE" /\ crossed' = FALSE

(* amr_proc takes the first frame from the ring. *)
Takes(f) ==
    /\ rx # <<>> /\ f = Head(rx)
    /\ rx' = Tail(rx) /\ from' = Tail(from)

Proceeds == turn < Keys /\ turn' = Keys

LinkUnchanged == UNCHANGED <<g_en_run_media_HDLC, lab_clear_pending,
                             act_devcmd, timerVars, failed, cleared>>

Idle ==
    /\ Proceeds /\ rx = <<>>
    /\ UNCHANGED <<portVars, linkVars, applVars, act_devcmd, clearVars,
                   timerVars, histVars>>

(* dl_addr_parse *)
Accepted(f) ==
    /\ f.client # NoClient
    /\ f.ctl = "I" /\ dl_conn_state = "NRM" => f.client = dl_conn_client_addr

(* Frames of another meter or another client, and all frames while values  *)
(* are entered at the keys; also a frame that reached the port right       *)
(* behind another, whose first bytes phy_ser_in forgot with those.         *)
Drop(f) ==
    /\ Proceeds /\ Takes(f)
    /\ UNCHANGED <<wire, linkVars, applVars, homeVars, asked, mt_init_delay,
                   sap_is_utility>>
    /\ LinkUnchanged

(* What is neither SNRM nor DISC when nothing is connected. *)
Ignore(f) ==
    /\ Proceeds /\ Takes(f) /\ Accepted(f)
    /\ f.ctl = "I" /\ dl_conn_state = "NDM"
    /\ dl_conn_client_addr' = f.client
    /\ Answer \/ UNCHANGED wire
    /\ UNCHANGED <<dl_conn_state, applVars, homeVars, asked, mt_init_delay,
                   sap_is_utility>>
    /\ LinkUnchanged

SnrmAccepted(f) ==
    /\ Proceeds /\ Takes(f) /\ Accepted(f)
    /\ f.ctl = "SNRM"
    /\ dl_conn_client_addr' = f.client
    /\ IF dl_conn_state = "NRM"
       THEN /\ Disconnect(TRUE, TRUE)
            /\ Connect(f.client)
       ELSE /\ Connect(f.client)
            /\ UNCHANGED <<mt_init_delay, sap_is_utility>>
    /\ Answer
    /\ LinkUnchanged

SnrmRefused(f) ==
    /\ Proceeds /\ Takes(f) /\ Accepted(f)
    /\ f.ctl = "SNRM"
    /\ dl_conn_client_addr' = f.client
    /\ dl_conn_state' = "NDM" /\ Unconnected
    /\ IF dl_conn_state = "NRM"
       THEN Disconnect(FALSE, FALSE)
       ELSE UNCHANGED <<appl_conn_state, mt_init_delay, sap_is_utility>>
    /\ Answer
    /\ UNCHANGED <<appl_sap, asked>>
    /\ LinkUnchanged

Disc(f) ==
    /\ Proceeds /\ Takes(f) /\ Accepted(f)
    /\ f.ctl = "DISC"
    /\ dl_conn_client_addr' = f.client
    /\ dl_conn_state' = "NDM" /\ Unconnected
    /\ IF dl_conn_state = "NRM"
       THEN Disconnect(TRUE, FALSE)
       ELSE UNCHANGED <<appl_conn_state, mt_init_delay, sap_is_utility>>
    /\ Answer
    /\ UNCHANGED <<appl_sap, asked>>
    /\ LinkUnchanged

-----------------------------------------------------------------------------
(* The application layer: appl_msg_data_ind. *)

Request(f) ==
    /\ Proceeds /\ Takes(f) /\ Accepted(f)
    /\ f.ctl = "I" /\ dl_conn_state = "NRM"
    /\ UNCHANGED <<g_en_run_media_HDLC, linkVars, appl_sap, mt_init_delay,
                   sap_is_utility, homeVars, cleared>>

(* Frames that do not get through to the application layer, an AARQ that   *)
(* is refused, and what is not an ACTION before keys are agreed on.        *)
NoEffect(f) ==
    /\ Request(f)
    /\ Answer \/ UNCHANGED wire
    /\ UNCHANGED <<appl_conn_state, act_devcmd, lab_clear_pending, timerVars,
                   asked, failed>>

(* An AARQ that is accepted. *)
Associate(f) ==
    /\ Request(f) /\ Answer
    /\ appl_conn_state = IDLE
    /\ appl_conn_state' = ASSOCIATED
    /\ act_devcmd' = "NULL"
    /\ UNCHANGED <<lab_clear_pending, timerVars, asked, failed>>

(* What an ACTION may do: nothing that matters here, an authentication, a  *)
(* key agreement, or a device command (ob_dev_cmd).                        *)
Clearing == {"INIT", "LAB"}
Commands == Clearing \cup {"OTHER"}
Effects == {"NONE", "HLS", "KEY"} \cup Commands

Permitted(e) ==
    CASE e = "KEY" -> Secure(appl_sap)
      [] e = "LAB" -> appl_sap = "PRIVATE"
      [] e \in {"INIT", "OTHER"} -> Secure(appl_sap) \/ appl_sap = "PRIVATE"
      [] OTHER -> TRUE

(* Fault: only the clearing of the LAB is put off by the timer. *)
StartsReset_LabOnly == reset_to' = (reset_to \/ act_devcmd' = "LAB")

(* The answer to any ACTION starts the timer when a clearing is under way. *)
StartsReset == reset_to' = (reset_to \/ act_devcmd' \in Clearing)

(* s: the state of the association when the ACTION is executed. *)
Act(e, s) ==
    /\ Permitted(e)
    /\ appl_conn_state' = CASE e = "HLS" -> CROSS_AUTH
                            [] e = "KEY" -> KEY_AGREEMENT
                            [] OTHER -> s
    /\ act_devcmd' = IF e \in Commands THEN e ELSE act_devcmd
    /\ lab_clear_pending' = (lab_clear_pending \/ e = "LAB")
    /\ StartsReset
    /\ asked' = IF e # "INIT" THEN asked
                ELSE IF asked \in {NoClient, appl_sap} THEN appl_sap
                ELSE Others
    /\ failed' = (failed /\ e \notin Clearing)

(* A secure association before its keys are agreed on. *)
ServeAuthentication(f) ==
    /\ Request(f) /\ Answer
    /\ Secure(appl_sap) /\ appl_conn_state \in {ASSOCIATED, CROSS_AUTH}
    /\ \E e \in Effects : Act(e, appl_conn_state)
    /\ UNCHANGED <<asso_to, asso_4_485_to>>

(* Fault: every ciphered request takes the association a state further. *)
Ciphered_EveryTime(ciphered) ==
    IF Secure(appl_sap) /\ ciphered THEN appl_conn_state + 1
    ELSE appl_conn_state

(* The first ciphered request ends the key agreement. *)
Ciphered(ciphered) ==
    IF Secure(appl_sap) /\ appl_conn_state = KEY_AGREEMENT /\ ciphered
    THEN ENC_SIGN ELSE appl_conn_state

(* Fault: the timer of site sessions is started by a DISC only. *)
StartsSession_AssoOnly(f) ==
    asso_to' = TRUE /\ UNCHANGED asso_4_485_to

StartsSession(f) ==
    /\ asso_to' = TRUE
    /\ asso_4_485_to' = (asso_4_485_to \/ appl_sap = "SEC_SITE")

(* Any other request. It is executed when it can be deciphered. *)
Serve(f) ==
    /\ Request(f)
    /\ IF Secure(appl_sap) THEN appl_conn_state >= KEY_AGREEMENT
       ELSE appl_conn_state # IDLE
    /\ StartsSession(f)
    /\ \E ciphered \in BOOLEAN :
         \/ /\ Answer
            /\ Secure(appl_sap) => ciphered
            /\ \E e \in Effects : Act(e, Ciphered(ciphered))
         \/ /\ Answer \/ UNCHANGED wire
            /\ appl_conn_state' = Ciphered(ciphered)
            /\ UNCHANGED <<act_devcmd, lab_clear_pending, reset_to, asked,
                           failed>>

-----------------------------------------------------------------------------
(* The end of the turn. *)

(* amr_disc_ind_end_proc: a clearing that is due is carried out. The meter *)
(* then restarts, unless whm_clear_all failed.                             *)
GoesDown(what) ==
    /\ turn' = Down /\ cleared' = what
    /\ UNCHANGED <<mt_init_delay, lab_clear_pending, failed>>

EndProc(delay, utility) ==
    \/ /\ delay
       /\ GoesDown(IF utility THEN "COMM" ELSE "FACTORY")
    \/ /\ delay /\ ~utility
       /\ TRUE \in FactoryOutcomes
       /\ mt_init_delay' = FALSE /\ failed' = TRUE
       /\ IF lab_clear_pending
          THEN turn' = Down /\ cleared' = "LAB"
          ELSE turn' = Timers /\ UNCHANGED cleared
       /\ UNCHANGED lab_clear_pending
    \/ /\ ~delay /\ lab_clear_pending
       /\ GoesDown("LAB")
    \/ /\ ~delay /\ ~lab_clear_pending
       /\ turn' = Timers
       /\ UNCHANGED <<mt_init_delay, lab_clear_pending, failed, cleared>>

(* dsm_all_uart_q_flush *)
Flush ==
    /\ turn = Keys
    /\ wire' = FALSE
    /\ IF wire
       THEN EndProc(mt_init_delay, sap_is_utility)
       ELSE /\ turn' = Timers
            /\ UNCHANGED <<mt_init_delay, lab_clear_pending, failed, cleared>>
    /\ UNCHANGED <<g_en_run_media_HDLC, rx, from, linkVars, applVars,
                   act_devcmd, sap_is_utility, timerVars, homeVars, asked>>

(* goto_loader_S, NVIC_SystemReset *)
Restart ==
    /\ turn = Down
    /\ turn' = Timers
    /\ g_en_run_media_HDLC' = "NONE" /\ rx' = <<>> /\ from' = <<>>
    /\ wire' = FALSE
    /\ dl_conn_state' = "NDM" /\ dl_conn_client_addr' = NoClient
    /\ appl_sap' = "PUBLIC" /\ appl_conn_state' = IDLE
    /\ act_devcmd' = "NULL"
    /\ mt_init_delay' = FALSE /\ sap_is_utility' = FALSE
    /\ lab_clear_pending' = FALSE
    /\ reset_to' = FALSE /\ asso_to' = FALSE /\ asso_4_485_to' = FALSE
    /\ Unconnected
    /\ asked' = NoClient /\ failed' = FALSE /\ cleared' = "NO"

-----------------------------------------------------------------------------
(* Timers and keys. *)

(* dl_stop_force *)
Stop ==
    /\ dl_conn_state' = "NDM" /\ Unconnected
    /\ Disconnect(FALSE, FALSE)
    /\ UNCHANGED <<dl_conn_client_addr, appl_sap, asked, failed, cleared>>

(* R_CALL opens the RS485 port anew and empties the ring. *)
R_CALL ==
    /\ Stop
    /\ rx' = <<>> /\ from' = <<>> /\ wire' = FALSE
    /\ UNCHANGED <<g_en_run_media_HDLC, act_devcmd, lab_clear_pending,
                   reset_to, asso_4_485_to>>

AssoTimeout ==
    /\ turn = Timers
    /\ asso_to /\ asso_to' = FALSE
    /\ R_CALL
    /\ UNCHANGED turn

KeyPressed ==
    /\ turn = Keys
    /\ R_CALL
    /\ UNCHANGED <<turn, asso_to>>

SiteTimeout ==
    /\ turn = Timers
    /\ asso_4_485_to /\ asso_4_485_to' = FALSE
    /\ Stop
    /\ UNCHANGED <<turn, portVars, act_devcmd, lab_clear_pending, reset_to,
                   asso_to>>

(* dsm_meter_reset_timer_proc. The kind of clearing is that of the client  *)
(* of the moment.                                                          *)
ResetTimeout ==
    /\ turn = Timers
    /\ reset_to /\ reset_to' = FALSE
    /\ sap_is_utility' = IF act_devcmd = "INIT"
                         THEN Secure(appl_sap) \/ Management(appl_sap)
                         ELSE sap_is_utility
    /\ IF act_devcmd \in Clearing
       THEN EndProc(mt_init_delay \/ act_devcmd = "INIT", sap_is_utility')
       ELSE UNCHANGED <<turn, mt_init_delay, lab_clear_pending, failed,
                        cleared>>
    /\ UNCHANGED <<portVars, linkVars, applVars, act_devcmd, asso_to,
                   asso_4_485_to, homeVars, asked>>

-----------------------------------------------------------------------------
Receives == \E m \in Media, f \in Frames : Reject(m, f) \/ Admit(m, f)

amr_proc ==
    \/ Idle
    \/ \E f \in Frames :
         \/ Drop(f) \/ Ignore(f)
         \/ SnrmAccepted(f) \/ SnrmRefused(f) \/ Disc(f)
         \/ NoEffect(f) \/ Associate(f)
         \/ ServeAuthentication(f) \/ Serve(f)

TimesOut == AssoTimeout \/ SiteTimeout \/ ResetTimeout

Next == Receives \/ amr_proc \/ KeyPressed \/ Flush \/ Restart \/ TimesOut

Spec == Init /\ [][Next]_vars

(* The loop turns and serves an expired timer first; a client need not     *)
(* send anything.                                                          *)
FairSpec ==
    /\ Spec
    /\ WF_vars(amr_proc) /\ WF_vars(Flush) /\ WF_vars(Restart)
    /\ SF_vars(ResetTimeout)

-----------------------------------------------------------------------------
(* Properties. *)

(* Every variable keeps its type: in particular the state of an            *)
(* association never leaves the five that appl.c names.                    *)
TypeOK ==
    /\ turn \in Timers..Down
    /\ g_en_run_media_HDLC \in Media \cup {"NONE"}
    /\ rx \in Seq(Frames) /\ Len(rx) <= MaxRx /\ wire \in BOOLEAN
    /\ dl_conn_state \in {"NDM", "NRM"}
    /\ dl_conn_client_addr \in Saps \cup {NoClient}
    /\ appl_sap \in Saps
    /\ appl_conn_state \in IDLE..ENC_SIGN
    /\ act_devcmd \in Commands \cup {"NULL"}
    /\ mt_init_delay \in BOOLEAN /\ sap_is_utility \in BOOLEAN
    /\ lab_clear_pending \in BOOLEAN
    /\ reset_to \in BOOLEAN /\ asso_to \in BOOLEAN /\ asso_4_485_to \in BOOLEAN
    /\ from \in Seq(Media) /\ Len(from) = Len(rx)
    /\ home \in Media \cup {"NONE"} /\ crossed \in BOOLEAN
    /\ asked \in Saps \cup {NoClient, Others} /\ failed \in BOOLEAN
    /\ cleared \in {"NO", "COMM", "FACTORY", "LAB"}

(* An association is never left over: it stands only while the data link   *)
(* is connected, and is that of the client the link takes frames from,     *)
(* whichever of SNRM, DISC, timers, keys and restarts came in between.     *)
AssociationOfClient ==
    appl_conn_state # IDLE =>
        dl_conn_state = "NRM" /\ appl_sap = dl_conn_client_addr

(* A secure session that has reached its ciphered state ends without the   *)
(* client: the timer of associations runs, and for the site client that of *)
(* its own too, even when one of them has stopped another session.         *)
SessionIsTimed ==
    appl_conn_state = ENC_SIGN =>
        asso_to /\ (appl_sap = "SEC_SITE" => asso_4_485_to)

(* The clearing that c asks for. *)
KindFor(c) == IF c = "PRIVATE" THEN "FACTORY" ELSE "COMM"

(* A clearing put off to a later transmission or to the reset timer was    *)
(* asked for, and while only one client has been there since it was, it is *)
(* of that client's kind: the factory reset for the private client alone.  *)
ClearingOfAsker ==
    cleared \in {"COMM", "FACTORY"} =>
        asked # NoClient /\ (asked # Others => cleared = KindFor(asked))

(* The session of a client without security is answered on the medium its  *)
(* SNRM has come from, and hears no other, unless a frame of another       *)
(* medium was behind that SNRM already: such a frame was admitted while    *)
(* nothing was connected, took the answers away with it, and is still to   *)
(* be handled.  Nothing that arrives later crosses the session.            *)
UnsecuredStays ==
    dl_conn_state = "NRM" /\ ~Secure(appl_sap) /\ ~crossed =>
        /\ g_en_run_media_HDLC = home
        /\ \A i \in DOMAIN from : from[i] = home

(* A clearing that has been asked for is carried out, fails or is replaced *)
(* by another command, although the client never comes back.               *)
ClearingEnds == act_devcmd \in Clearing ~> (act_devcmd \notin Clearing \/ failed)
=============================================================================
