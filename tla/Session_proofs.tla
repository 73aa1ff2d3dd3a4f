--------------------------- MODULE Session_proofs ---------------------------
(***************************************************************************)
(* Proofs about Session, for every set of frames, every set of media and   *)
(* every number of frames waiting to be handled.                           *)
(***************************************************************************)
EXTENDS Session, TLAPS

-----------------------------------------------------------------------------
(***************************************************************************)
(* The inductive invariant: the types, and what each property needs of the *)
(* link and of the clearing that has been asked for.                       *)
(***************************************************************************)

(* The association is that of the link; there is none without a link. *)
LinkOfClient ==
    /\ dl_conn_state = "NDM" => appl_conn_state = IDLE
    /\ dl_conn_state = "NRM" => appl_sap = dl_conn_client_addr

(* While one client alone has connected since it asked, it is the one of   *)
(* the association, and the kind kept for a clearing that is due is its    *)
(* own.                                                                    *)
AskerKnown ==
    /\ asked \in Saps =>
          asked = appl_sap /\ (Secure(asked) \/ asked = "PRIVATE")
    /\ act_devcmd = "INIT" => asked # NoClient
    /\ mt_init_delay =>
          /\ asked # NoClient
          /\ asked \in Saps => sap_is_utility = (asked # "PRIVATE")

(* Of the frames that wait, the one admitted last has set the medium of the *)
(* answers.                                                                *)
LastSets == from # <<>> => from[Len(from)] = g_en_run_media_HDLC

IInv ==
    /\ TypeOK
    /\ LastSets
    /\ LinkOfClient
    /\ SessionIsTimed
    /\ AskerKnown
    /\ ClearingOfAsker
    /\ UnsecuredStays

-----------------------------------------------------------------------------
(* The initial state. *)
LEMMA InitInv == Init => IInv
<1> SUFFICES ASSUME Init PROVE IInv
  OBVIOUS
<1>1. TypeOK
  <2>1. /\ rx \in Seq(Frames) /\ Len(rx) <= MaxRx
        /\ from \in Seq(Media) /\ Len(from) = Len(rx)
    BY SessionAssumption DEF Init
  <2>2. /\ mt_init_delay \in BOOLEAN /\ sap_is_utility \in BOOLEAN
        /\ lab_clear_pending \in BOOLEAN /\ reset_to \in BOOLEAN
        /\ asso_to \in BOOLEAN /\ asso_4_485_to \in BOOLEAN
        /\ failed \in BOOLEAN /\ wire \in BOOLEAN /\ crossed \in BOOLEAN
    BY DEF Init
  <2>. QED
    BY <2>1, <2>2 DEF Init, TypeOK, Saps, Timers, Down, Commands, Clearing,
                      IDLE, ENC_SIGN, NoClient
<1>2. LastSets /\ LinkOfClient /\ SessionIsTimed /\ AskerKnown
      /\ ClearingOfAsker /\ UnsecuredStays
  BY DEF Init, LastSets, LinkOfClient, SessionIsTimed, AskerKnown,
         ClearingOfAsker, UnsecuredStays, Saps, IDLE, ENC_SIGN, NoClient
<1>. QED BY <1>1, <1>2 DEF IInv

-----------------------------------------------------------------------------
(* One lemma per action. *)

(* A frame that is refused moves nothing but the turn. *)
LEMMA RejectInv ==
    ASSUME IInv, NEW m \in Media, NEW f \in Frames, Reject(m, f)
    PROVE  IInv'
<1>. USE SessionAssumption DEF IInv, Reject, linkVars, applVars, clearVars,
                                timerVars, histVars, homeVars
<1>1. TypeOK'
  BY DEF TypeOK, Arrives, PortOf, Ports, Timers, Down, Commands, Clearing
<1>2. LinkOfClient' /\ SessionIsTimed'
  BY DEF LinkOfClient, SessionIsTimed
<1>3. AskerKnown' /\ ClearingOfAsker'
  BY DEF AskerKnown, ClearingOfAsker
<1>4. LastSets' /\ UnsecuredStays'
  BY DEF LastSets, UnsecuredStays
<1>. QED BY <1>1, <1>2, <1>3, <1>4

(* A frame that is admitted is answered on its medium; the session of a    *)
(* client without security lets in those of its own medium alone.          *)
LEMMA AdmitInv ==
    ASSUME IInv, NEW m \in Media, NEW f \in Frames, Admit(m, f)
    PROVE  IInv'
<1>. USE SessionAssumption DEF IInv, Admit, linkVars, applVars, clearVars,
                                histVars, homeVars
<1>1. TypeOK'
  <2>1. /\ rx' \in Seq(Frames) /\ Len(rx') <= MaxRx
        /\ from' \in Seq(Media) /\ Len(from') = Len(rx')
    BY DEF TypeOK
  <2>2. asso_to' \in BOOLEAN /\ asso_4_485_to' \in BOOLEAN
    BY DEF TypeOK
  <2>3. turn' \in Timers..Down
    BY DEF TypeOK, Arrives, PortOf, Ports, Timers, Down
  <2>. QED BY <2>1, <2>2, <2>3 DEF TypeOK, Commands, Clearing
<1>2. LinkOfClient' /\ SessionIsTimed'
  BY DEF LinkOfClient, SessionIsTimed
<1>3. AskerKnown' /\ ClearingOfAsker'
  BY DEF AskerKnown, ClearingOfAsker
<1>4. LastSets'
  BY DEF TypeOK, LastSets
<1>5. UnsecuredStays'
  <2>. SUFFICES ASSUME dl_conn_state = "NRM", ~Secure(appl_sap), ~crossed
                PROVE  /\ m = home
                       /\ \A i \in DOMAIN from' : from'[i] = home
    BY DEF UnsecuredStays
  <2>1. g_en_run_media_HDLC = home /\ \A i \in DOMAIN from : from[i] = home
    BY DEF UnsecuredStays
  <2>2. m = home
    BY <2>1 DEF Returned, Busy, Secure
  <2>. QED BY <2>1, <2>2 DEF TypeOK
<1>. QED BY <1>1, <1>2, <1>3, <1>4, <1>5

(* A turn without a frame. *)
LEMMA IdleInv ==
    ASSUME IInv, Idle
    PROVE  IInv'
<1>. USE SessionAssumption DEF IInv, Idle, portVars, linkVars, applVars,
                                clearVars, timerVars, histVars, homeVars
<1>1. TypeOK'
  BY DEF TypeOK, Proceeds, Timers, Down, Keys, Commands, Clearing
<1>2. LinkOfClient' /\ SessionIsTimed'
  BY DEF LinkOfClient, SessionIsTimed
<1>3. AskerKnown' /\ ClearingOfAsker'
  BY DEF AskerKnown, ClearingOfAsker
<1>4. LastSets' /\ UnsecuredStays'
  BY DEF LastSets, UnsecuredStays
<1>. QED BY <1>1, <1>2, <1>3, <1>4

-----------------------------------------------------------------------------
(* What the data link does with the frame it takes. *)
LEMMA TakesType ==
    ASSUME TypeOK, NEW f \in Frames, Takes(f)
    PROVE  /\ rx' \in Seq(Frames) /\ Len(rx') <= MaxRx
           /\ from' \in Seq(Media) /\ Len(from') = Len(rx')
           /\ from # <<>>
           /\ \A i \in DOMAIN from' : i + 1 \in DOMAIN from
                                       /\ from'[i] = from[i + 1]
BY SessionAssumption DEF TypeOK, Takes

(* The frames behind it keep their media, and the last is the last still. *)
LEMMA TakesLast ==
    ASSUME IInv, NEW f \in Frames, Takes(f), UNCHANGED g_en_run_media_HDLC
    PROVE  LastSets'
<1>1. from \in Seq(Media) /\ from' \in Seq(Media) /\ from' = Tail(from)
      /\ from # <<>>
  BY TakesType DEF IInv, TypeOK, Takes
<1>2. from' # <<>> => from'[Len(from')] = from[Len(from)]
  BY <1>1
<1>. QED BY <1>1, <1>2 DEF IInv, LastSets

LEMMA TakesFrom ==
    ASSUME IInv, NEW f \in Frames, Takes(f),
           UNCHANGED <<g_en_run_media_HDLC, dl_conn_state, appl_sap, homeVars>>
    PROVE  LastSets' /\ UnsecuredStays'
BY TakesType, TakesLast DEF IInv, UnsecuredStays, homeVars

LEMMA ProceedsType == Proceeds => turn' \in Timers..Down
BY DEF Proceeds, Timers, Down, Keys

LEMMA DropInv ==
    ASSUME IInv, NEW f \in Frames, Drop(f)
    PROVE  IInv'
<1>. USE DEF IInv, Drop, LinkUnchanged, linkVars, applVars, timerVars, homeVars
<1>1. TypeOK'
  BY TakesType, ProceedsType DEF TypeOK, Commands, Clearing
<1>2. LinkOfClient' /\ SessionIsTimed'
  BY DEF LinkOfClient, SessionIsTimed
<1>3. AskerKnown' /\ ClearingOfAsker'
  BY DEF AskerKnown, ClearingOfAsker
<1>4. LastSets' /\ UnsecuredStays'
  BY TakesFrom
<1>. QED BY <1>1, <1>2, <1>3, <1>4

(* The address of a frame that gets through is that of a client. *)
LEMMA AcceptedClient ==
    ASSUME NEW f \in Frames, Accepted(f)
    PROVE  f.client \in Saps
BY SessionAssumption DEF Accepted, Frame

LEMMA AnswerType ==
    ASSUME wire \in BOOLEAN, Answer \/ UNCHANGED wire
    PROVE  wire' \in BOOLEAN
BY DEF Answer

LEMMA IgnoreInv ==
    ASSUME IInv, NEW f \in Frames, Ignore(f)
    PROVE  IInv'
<1>. USE DEF IInv, Ignore, LinkUnchanged, applVars, timerVars, homeVars
<1>1. TypeOK'
  BY TakesType, ProceedsType, AcceptedClient, AnswerType
     DEF TypeOK, Commands, Clearing
<1>2. LinkOfClient' /\ SessionIsTimed'
  BY DEF LinkOfClient, SessionIsTimed
<1>3. AskerKnown' /\ ClearingOfAsker'
  BY DEF AskerKnown, ClearingOfAsker
<1>4. LastSets' /\ UnsecuredStays'
  BY TakesFrom
<1>. QED BY <1>1, <1>2, <1>3, <1>4

(* The end of an association: a clearing that has been asked for becomes   *)
(* due with the kind of the client, which is the asker's as long as it was *)
(* the only one.                                                           *)
LEMMA DisconnectInv ==
    ASSUME IInv, NEW reason \in BOOLEAN, NEW snrm \in BOOLEAN,
           Disconnect(reason, snrm)
    PROVE  /\ mt_init_delay' \in BOOLEAN /\ sap_is_utility' \in BOOLEAN
           /\ appl_conn_state' = IDLE
           /\ mt_init_delay' =>
                 /\ asked # NoClient
                 /\ asked \in Saps => sap_is_utility' = (asked # "PRIVATE")
<1>1. mt_init_delay' \in BOOLEAN /\ sap_is_utility' \in BOOLEAN
  BY DEF IInv, TypeOK, Disconnect
<1>2. CASE Due(reason, snrm)
  <2>1. asked # NoClient
    BY <1>2 DEF IInv, AskerKnown, Due
  <2>2. sap_is_utility' = (Secure(appl_sap) \/ Management(appl_sap))
    BY <1>2 DEF Disconnect
  <2>3. ASSUME asked \in Saps
        PROVE  sap_is_utility' = (asked # "PRIVATE")
    BY <2>2, <2>3 DEF IInv, AskerKnown, Secure, Management
  <2>. QED BY <1>1, <2>1, <2>3 DEF Disconnect
<1>3. CASE ~Due(reason, snrm)
  BY <1>1, <1>3 DEF IInv, TypeOK, AskerKnown, Disconnect
<1>. QED BY <1>2, <1>3

(* A client that connects is the only one since the asker, or is not. *)
LEMMA ConnectInv ==
    ASSUME IInv, NEW c \in Saps, Connect(c)
    PROVE  /\ asked' \in Saps \cup {NoClient, Others}
           /\ asked' = NoClient <=> asked = NoClient
           /\ asked' \in Saps =>
                 asked' = asked /\ asked' = appl_sap'
                 /\ (Secure(asked') \/ asked' = "PRIVATE")
<1>1. NoClient \notin Saps /\ Others \notin Saps /\ NoClient # Others
  BY DEF NoClient, Others, Saps
<1>2. asked \in Saps \cup {NoClient, Others}
  BY DEF IInv, TypeOK
<1>3. \/ asked \in {NoClient, c} /\ asked' = asked
      \/ asked \notin {NoClient, c} /\ asked' = Others
  BY <1>1, <1>2 DEF Connect
<1>. QED BY <1>1, <1>2, <1>3 DEF IInv, AskerKnown, Connect, Secure

(* When no frame of another medium was behind the SNRM, the answers go to  *)
(* where it came from.                                                     *)
LEMMA ConnectHome ==
    ASSUME IInv, NEW f \in Frames, Takes(f), NEW c \in Saps, Connect(c),
           UNCHANGED g_en_run_media_HDLC
    PROVE  home' \in Media /\ crossed' \in BOOLEAN /\ UnsecuredStays'
<1>1. from \in Seq(Media) /\ from # <<>>
  BY TakesType DEF IInv, TypeOK
<1>2. home' = Head(from) /\ crossed' = \E i \in DOMAIN from : from[i] # home'
  BY DEF Connect
<1>3. home' \in Media /\ crossed' \in BOOLEAN
  BY <1>1, <1>2
<1>4. ASSUME ~crossed'
      PROVE  /\ g_en_run_media_HDLC = home'
             /\ \A i \in DOMAIN from' : from'[i] = home'
  <2>1. \A i \in DOMAIN from : from[i] = home'
    BY <1>2, <1>4
  <2>2. from[Len(from)] = g_en_run_media_HDLC
    BY <1>1 DEF IInv, LastSets
  <2>3. Len(from) \in DOMAIN from
    BY <1>1
  <2>. QED BY <2>1, <2>2, <2>3, TakesType DEF IInv
<1>. QED BY <1>3, <1>4 DEF UnsecuredStays

LEMMA SnrmAcceptedInv ==
    ASSUME IInv, NEW f \in Frames, SnrmAccepted(f)
    PROVE  IInv'
<1>. USE DEF SnrmAccepted, LinkUnchanged, timerVars
<1>1. f.client \in Saps /\ Connect(f.client) /\ f.client # NoClient
  BY AcceptedClient DEF Accepted
<1>2. /\ mt_init_delay' \in BOOLEAN /\ sap_is_utility' \in BOOLEAN
      /\ mt_init_delay' =>
            /\ asked # NoClient
            /\ asked \in Saps => sap_is_utility' = (asked # "PRIVATE")
  <2>1. CASE dl_conn_state = "NRM"
    BY <2>1, DisconnectInv
  <2>2. CASE dl_conn_state # "NRM"
    BY <2>2 DEF IInv, TypeOK, AskerKnown
  <2>. QED BY <2>1, <2>2
<1>3. TypeOK'
  <2>1. wire' \in BOOLEAN
    BY AnswerType DEF IInv, TypeOK
  <2>2. dl_conn_state' = "NRM" /\ appl_conn_state' = IDLE
        /\ appl_sap' = f.client
    BY <1>1 DEF Connect
  <2>. QED
    BY <1>1, <1>2, <2>1, <2>2, TakesType, ProceedsType, ConnectInv, ConnectHome
       DEF IInv, TypeOK, IDLE, ENC_SIGN
<1>4. LinkOfClient' /\ SessionIsTimed'
  BY <1>1 DEF LinkOfClient, SessionIsTimed, Connect, IDLE, ENC_SIGN
<1>5. AskerKnown' /\ ClearingOfAsker'
  BY <1>1, <1>2, ConnectInv
     DEF IInv, TypeOK, AskerKnown, ClearingOfAsker, Secure
<1>6. LastSets' /\ UnsecuredStays'
  BY <1>1, TakesLast, ConnectHome
<1>. QED BY <1>3, <1>4, <1>5, <1>6 DEF IInv

(* What a disconnect leaves is the same after a refused SNRM, a DISC and a *)
(* forced stop.                                                            *)
LEMMA DownInv ==
    ASSUME IInv, TypeOK', LastSets',
           UNCHANGED <<appl_sap, asked, act_devcmd, cleared>>,
           dl_conn_state' = "NDM", appl_conn_state' = IDLE,
           mt_init_delay' =>
              /\ asked # NoClient
              /\ asked \in Saps => sap_is_utility' = (asked # "PRIVATE")
    PROVE  IInv'
<1>1. LinkOfClient' /\ SessionIsTimed' /\ UnsecuredStays'
  BY DEF LinkOfClient, SessionIsTimed, UnsecuredStays, IDLE, ENC_SIGN
<1>2. AskerKnown' /\ ClearingOfAsker'
  BY DEF IInv, AskerKnown, ClearingOfAsker, Secure
<1>. QED BY <1>1, <1>2 DEF IInv

LEMMA SnrmRefusedInv ==
    ASSUME IInv, NEW f \in Frames, SnrmRefused(f)
    PROVE  IInv'
<1>. USE DEF SnrmRefused, LinkUnchanged, timerVars
<1>1. /\ mt_init_delay' \in BOOLEAN /\ sap_is_utility' \in BOOLEAN
      /\ appl_conn_state' = IDLE
      /\ mt_init_delay' =>
            /\ asked # NoClient
            /\ asked \in Saps => sap_is_utility' = (asked # "PRIVATE")
  <2>1. CASE dl_conn_state = "NRM"
    BY <2>1, DisconnectInv
  <2>2. CASE dl_conn_state # "NRM"
    BY <2>2 DEF IInv, TypeOK, AskerKnown, LinkOfClient
  <2>. QED BY <2>1, <2>2
<1>2. TypeOK'
  <2>1. home' = "NONE" /\ crossed' \in BOOLEAN
    BY DEF Unconnected
  <2>. QED
    BY <1>1, <2>1, TakesType, ProceedsType, AcceptedClient, AnswerType
       DEF IInv, TypeOK, IDLE, ENC_SIGN
<1>. QED BY <1>1, <1>2, TakesLast, DownInv

LEMMA DiscInv ==
    ASSUME IInv, NEW f \in Frames, Disc(f)
    PROVE  IInv'
<1>. USE DEF Disc, LinkUnchanged, timerVars
<1>1. /\ mt_init_delay' \in BOOLEAN /\ sap_is_utility' \in BOOLEAN
      /\ appl_conn_state' = IDLE
      /\ mt_init_delay' =>
            /\ asked # NoClient
            /\ asked \in Saps => sap_is_utility' = (asked # "PRIVATE")
  <2>1. CASE dl_conn_state = "NRM"
    BY <2>1, DisconnectInv
  <2>2. CASE dl_conn_state # "NRM"
    BY <2>2 DEF IInv, TypeOK, AskerKnown, LinkOfClient
  <2>. QED BY <2>1, <2>2
<1>2. TypeOK'
  <2>1. home' = "NONE" /\ crossed' \in BOOLEAN
    BY DEF Unconnected
  <2>. QED
    BY <1>1, <2>1, TakesType, ProceedsType, AcceptedClient, AnswerType
       DEF IInv, TypeOK, IDLE, ENC_SIGN
<1>. QED BY <1>1, <1>2, TakesLast, DownInv

-----------------------------------------------------------------------------
(* The application layer. The frame is one of the client connected. *)

(* What all requests have in common. *)
LEMMA RequestInv ==
    ASSUME IInv, NEW f \in Frames, Request(f)
    PROVE  /\ turn' \in Timers..Down
           /\ rx' \in Seq(Frames) /\ Len(rx') <= MaxRx
           /\ from' \in Seq(Media) /\ Len(from') = Len(rx')
           /\ dl_conn_state = "NRM"
           /\ LastSets' /\ UnsecuredStays'
BY TakesType, TakesFrom, ProceedsType DEF IInv, Request, linkVars

(* What does not touch the clearing keeps what is known of its asker. *)
LEMMA NoEffectInv ==
    ASSUME IInv, NEW f \in Frames, NoEffect(f)
    PROVE  IInv'
<1>. USE DEF IInv, NoEffect, Request, linkVars, timerVars, homeVars
<1>1. TypeOK'
  BY RequestInv, AnswerType DEF TypeOK, Commands, Clearing
<1>2. LinkOfClient' /\ SessionIsTimed'
  BY DEF LinkOfClient, SessionIsTimed
<1>3. AskerKnown' /\ ClearingOfAsker'
  BY DEF AskerKnown, ClearingOfAsker
<1>4. LastSets' /\ UnsecuredStays'
  BY RequestInv
<1>. QED BY <1>1, <1>2, <1>3, <1>4

LEMMA AssociateInv ==
    ASSUME IInv, NEW f \in Frames, Associate(f)
    PROVE  IInv'
<1>. USE DEF IInv, Associate, Request, linkVars, timerVars, homeVars
<1>1. TypeOK'
  BY RequestInv, AnswerType DEF TypeOK, IDLE, ASSOCIATED, ENC_SIGN
<1>2. LinkOfClient' /\ SessionIsTimed'
  BY DEF LinkOfClient, SessionIsTimed, ASSOCIATED, ENC_SIGN
<1>3. AskerKnown' /\ ClearingOfAsker'
  BY DEF AskerKnown, ClearingOfAsker
<1>4. LastSets' /\ UnsecuredStays'
  BY RequestInv
<1>. QED BY <1>1, <1>2, <1>3, <1>4

(* An ACTION that asks for the meter to be cleared comes from a client that *)
(* may ask for it.                                                         *)
LEMMA ActType ==
    ASSUME IInv, NEW e \in Effects, NEW s \in IDLE..ENC_SIGN, Act(e, s)
    PROVE  /\ appl_conn_state' \in {CROSS_AUTH, KEY_AGREEMENT, s}
           /\ act_devcmd' \in Commands \cup {"NULL"}
           /\ lab_clear_pending' \in BOOLEAN /\ reset_to' \in BOOLEAN
           /\ failed' \in BOOLEAN
           /\ asked' \in Saps \cup {NoClient, Others}
<1>1. act_devcmd' \in Commands \cup {"NULL"}
  BY DEF IInv, TypeOK, Act
<1>2. lab_clear_pending' \in BOOLEAN /\ failed' \in BOOLEAN
  BY DEF IInv, TypeOK, Act
<1>3. reset_to' \in BOOLEAN
  BY DEF IInv, TypeOK, Act, StartsReset
<1>4. asked' \in Saps \cup {NoClient, Others}
  BY DEF IInv, TypeOK, Act
<1>5. appl_conn_state' \in {CROSS_AUTH, KEY_AGREEMENT, s}
  BY DEF Act
<1>. QED BY <1>1, <1>2, <1>3, <1>4, <1>5

LEMMA ActInv ==
    ASSUME IInv, NEW e \in Effects, NEW s \in IDLE..ENC_SIGN, Act(e, s),
           UNCHANGED <<appl_sap, mt_init_delay, sap_is_utility, cleared>>
    PROVE  AskerKnown' /\ ClearingOfAsker'
<1>1. CASE e = "INIT"
  <2>1. Secure(appl_sap) \/ appl_sap = "PRIVATE"
    BY <1>1 DEF Act, Permitted
  <2>2. NoClient \notin Saps /\ Others \notin Saps /\ NoClient # Others
    BY DEF NoClient, Others, Saps
  <2>3. asked' = appl_sap \/ asked' = Others
    BY <1>1 DEF Act
  <2>4. asked' # NoClient
    BY <2>2, <2>3 DEF IInv, TypeOK
  <2>5. asked' # Others => asked \in {NoClient, appl_sap}
    BY <1>1, <2>2 DEF Act
  <2>6. asked' \in Saps => asked' = appl_sap
    BY <2>2, <2>3
  <2>7. asked' \in Saps /\ mt_init_delay => asked' = asked
    BY <2>2, <2>5, <2>6 DEF IInv, AskerKnown
  <2>8. AskerKnown'
    BY <2>1, <2>4, <2>6, <2>7 DEF IInv, AskerKnown, Secure
  <2>9. ClearingOfAsker'
    BY <2>3, <2>4, <2>5 DEF IInv, ClearingOfAsker
  <2>. QED BY <2>8, <2>9
<1>2. CASE e # "INIT"
  <2>1. asked' = asked /\ (act_devcmd' = "INIT" => act_devcmd = "INIT")
    BY <1>2 DEF Act
  <2>. QED BY <2>1 DEF IInv, AskerKnown, ClearingOfAsker, Secure
<1>. QED BY <1>1, <1>2

LEMMA ServeAuthenticationInv ==
    ASSUME IInv, NEW f \in Frames, ServeAuthentication(f)
    PROVE  IInv'
<1>. USE DEF ServeAuthentication, Request, linkVars, homeVars
<1>1. PICK e \in Effects : Act(e, appl_conn_state)
  OBVIOUS
<1>2. appl_conn_state \in {ASSOCIATED, CROSS_AUTH}
      /\ appl_conn_state \in IDLE..ENC_SIGN
  BY DEF IInv, TypeOK
<1>3. TypeOK'
  BY <1>1, <1>2, ActType, RequestInv, AnswerType
     DEF IInv, TypeOK, IDLE, ENC_SIGN, CROSS_AUTH, KEY_AGREEMENT
<1>4. LinkOfClient' /\ SessionIsTimed'
  BY <1>1, <1>2, ActType, RequestInv
     DEF IInv, LinkOfClient, SessionIsTimed, ASSOCIATED, CROSS_AUTH,
         KEY_AGREEMENT, ENC_SIGN
<1>5. AskerKnown' /\ ClearingOfAsker'
  BY <1>1, <1>2, ActInv
<1>6. LastSets' /\ UnsecuredStays'
  BY RequestInv
<1>. QED BY <1>3, <1>4, <1>5, <1>6 DEF IInv

LEMMA ServeInv ==
    ASSUME IInv, NEW f \in Frames, Serve(f)
    PROVE  IInv'
<1>. USE DEF Serve, Request, linkVars, homeVars
<1>1. PICK ciphered \in BOOLEAN :
         \/ /\ Answer
            /\ Secure(appl_sap) => ciphered
            /\ \E e \in Effects : Act(e, Ciphered(ciphered))
         \/ /\ Answer \/ UNCHANGED wire
            /\ appl_conn_state' = Ciphered(ciphered)
            /\ UNCHANGED <<act_devcmd, lab_clear_pending, reset_to, asked,
                           failed>>
  OBVIOUS
<1>2. Ciphered(ciphered) \in IDLE..ENC_SIGN
  BY DEF IInv, TypeOK, Ciphered, IDLE, ENC_SIGN
<1>3. StartsSession(f)
  OBVIOUS
<1>4. asso_to' = TRUE /\ asso_4_485_to' \in BOOLEAN
      /\ (appl_sap = "SEC_SITE" => asso_4_485_to')
  BY <1>3 DEF IInv, TypeOK, StartsSession
<1>5. wire' \in BOOLEAN
  BY <1>1, AnswerType DEF IInv, TypeOK
<1>6. /\ turn' \in Timers..Down
      /\ rx' \in Seq(Frames) /\ Len(rx') <= MaxRx
      /\ from' \in Seq(Media) /\ Len(from') = Len(rx')
      /\ dl_conn_state = "NRM"
      /\ LastSets' /\ UnsecuredStays'
  BY RequestInv
<1>7. LinkOfClient' /\ SessionIsTimed'
  BY <1>4, <1>6 DEF IInv, LinkOfClient, SessionIsTimed
<1>8. CASE \E e \in Effects : Act(e, Ciphered(ciphered))
  <2>1. PICK e \in Effects : Act(e, Ciphered(ciphered))
    BY <1>8
  <2>2. TypeOK'
    BY <1>2, <1>4, <1>5, <1>6, <2>1, ActType
       DEF IInv, TypeOK, IDLE, ENC_SIGN, CROSS_AUTH, KEY_AGREEMENT
  <2>3. AskerKnown' /\ ClearingOfAsker'
    BY <1>2, <2>1, ActInv
  <2>. QED BY <1>6, <1>7, <2>2, <2>3 DEF IInv
<1>9. CASE /\ appl_conn_state' = Ciphered(ciphered)
           /\ UNCHANGED <<act_devcmd, lab_clear_pending, reset_to, asked,
                          failed>>
  <2>1. TypeOK'
    BY <1>2, <1>4, <1>5, <1>6, <1>9 DEF IInv, TypeOK, Commands, Clearing
  <2>2. AskerKnown' /\ ClearingOfAsker'
    BY <1>9 DEF IInv, AskerKnown, ClearingOfAsker, Secure
  <2>. QED BY <1>6, <1>7, <2>1, <2>2 DEF IInv
<1>. QED BY <1>1, <1>8, <1>9

-----------------------------------------------------------------------------
(* The end of the turn, the timers and the keys. *)

(* A clearing that is carried out is of the kind of the one who asked, when *)
(* that is the kind kept for it.                                           *)
LEMMA EndProcInv ==
    ASSUME IInv, NEW delay \in BOOLEAN, NEW utility \in BOOLEAN,
           EndProc(delay, utility),
           delay => /\ asked # NoClient
                    /\ asked \in Saps => utility = (asked # "PRIVATE"),
           UNCHANGED asked
    PROVE  /\ turn' \in {turn, Timers, Down}
           /\ mt_init_delay' \in {mt_init_delay, FALSE}
           /\ lab_clear_pending' = lab_clear_pending
           /\ failed' \in BOOLEAN
           /\ cleared' \in {"NO", "COMM", "FACTORY", "LAB"}
           /\ ClearingOfAsker'
<1>1. /\ turn' \in {turn, Timers, Down}
      /\ mt_init_delay' \in {mt_init_delay, FALSE}
      /\ lab_clear_pending' = lab_clear_pending
      /\ failed' \in BOOLEAN
  BY DEF IInv, TypeOK, EndProc, GoesDown
<1>2. \/ delay /\ cleared' = IF utility THEN "COMM" ELSE "FACTORY"
      \/ cleared' = "LAB"
      \/ cleared' = cleared
  BY DEF EndProc, GoesDown
<1>3. cleared' \in {"NO", "COMM", "FACTORY", "LAB"}
  BY <1>2 DEF IInv, TypeOK
<1>4. ClearingOfAsker'
  <2>1. CASE delay /\ cleared' = IF utility THEN "COMM" ELSE "FACTORY"
    <3>1. asked' \in Saps \cup {Others}
      BY <2>1 DEF IInv, TypeOK
    <3>. QED BY <2>1, <3>1 DEF ClearingOfAsker, KindFor
  <2>2. CASE cleared' = "LAB"
    BY <2>2 DEF ClearingOfAsker
  <2>3. CASE cleared' = cleared
    BY <2>3 DEF IInv, ClearingOfAsker
  <2>. QED BY <1>2, <2>1, <2>2, <2>3
<1>. QED BY <1>1, <1>3, <1>4

LEMMA FlushInv ==
    ASSUME IInv, Flush
    PROVE  IInv'
<1>. USE DEF Flush, linkVars, applVars, timerVars, homeVars
<1>1. /\ turn' \in {turn, Timers, Down}
      /\ mt_init_delay' \in BOOLEAN /\ (mt_init_delay' => mt_init_delay)
      /\ lab_clear_pending' = lab_clear_pending
      /\ failed' \in BOOLEAN
      /\ cleared' \in {"NO", "COMM", "FACTORY", "LAB"}
      /\ ClearingOfAsker'
  <2>1. CASE wire
    <3>1. mt_init_delay =>
             /\ asked # NoClient
             /\ asked \in Saps => sap_is_utility = (asked # "PRIVATE")
      BY DEF IInv, AskerKnown
    <3>2. mt_init_delay \in BOOLEAN /\ sap_is_utility \in BOOLEAN
      BY DEF IInv, TypeOK
    <3>. QED BY <2>1, <3>1, <3>2, EndProcInv DEF IInv, TypeOK
  <2>2. CASE ~wire
    BY <2>2 DEF IInv, TypeOK, ClearingOfAsker
  <2>. QED BY <2>1, <2>2
<1>2. TypeOK'
  <2>1. turn' \in Timers..Down
    BY <1>1 DEF IInv, TypeOK, Timers, Down
  <2>2. wire' \in BOOLEAN
    OBVIOUS
  <2>. QED BY <1>1, <2>1, <2>2 DEF IInv, TypeOK, Commands, Clearing
<1>3. LastSets' /\ LinkOfClient' /\ SessionIsTimed' /\ UnsecuredStays'
  BY DEF IInv, LastSets, LinkOfClient, SessionIsTimed, UnsecuredStays
<1>4. AskerKnown'
  BY <1>1 DEF IInv, AskerKnown, Secure
<1>. QED BY <1>1, <1>2, <1>3, <1>4 DEF IInv

LEMMA RestartInv ==
    ASSUME IInv, Restart
    PROVE  IInv'
<1>. USE DEF Restart, Unconnected
<1>1. TypeOK'
  <2>1. /\ rx' \in Seq(Frames) /\ Len(rx') <= MaxRx
        /\ from' \in Seq(Media) /\ Len(from') = Len(rx')
    BY SessionAssumption
  <2>2. /\ mt_init_delay' \in BOOLEAN /\ sap_is_utility' \in BOOLEAN
        /\ lab_clear_pending' \in BOOLEAN /\ reset_to' \in BOOLEAN
        /\ asso_to' \in BOOLEAN /\ asso_4_485_to' \in BOOLEAN
        /\ failed' \in BOOLEAN /\ wire' \in BOOLEAN /\ crossed' \in BOOLEAN
    OBVIOUS
  <2>. QED
    BY <2>1, <2>2 DEF TypeOK, Saps, Timers, Down, Commands, Clearing, IDLE,
                      ENC_SIGN, NoClient
<1>2. LastSets' /\ LinkOfClient' /\ SessionIsTimed' /\ AskerKnown'
      /\ ClearingOfAsker' /\ UnsecuredStays'
  BY DEF LastSets, LinkOfClient, SessionIsTimed, AskerKnown, ClearingOfAsker,
         UnsecuredStays, Saps, IDLE, ENC_SIGN, NoClient
<1>. QED BY <1>1, <1>2 DEF IInv

(* A forced stop makes no clearing due. *)
LEMMA StopInv ==
    ASSUME IInv, Stop
    PROVE  /\ mt_init_delay' \in BOOLEAN /\ sap_is_utility' \in BOOLEAN
           /\ dl_conn_state' = "NDM" /\ appl_conn_state' = IDLE
           /\ home' = "NONE" /\ crossed' \in BOOLEAN
           /\ UNCHANGED <<dl_conn_client_addr, appl_sap, asked, failed,
                          cleared>>
           /\ mt_init_delay' =>
                 /\ asked # NoClient
                 /\ asked \in Saps => sap_is_utility' = (asked # "PRIVATE")
BY DisconnectInv DEF Stop, Unconnected

LEMMA AssoTimeoutInv ==
    ASSUME IInv, AssoTimeout
    PROVE  IInv'
<1>. USE DEF AssoTimeout, R_CALL
<1>1. /\ rx' \in Seq(Frames) /\ Len(rx') <= MaxRx
      /\ from' \in Seq(Media) /\ Len(from') = Len(rx')
  BY SessionAssumption
<1>2. wire' \in BOOLEAN /\ asso_to' \in BOOLEAN
  OBVIOUS
<1>3. TypeOK'
  BY <1>1, <1>2, StopInv DEF IInv, TypeOK, IDLE, ENC_SIGN, Commands, Clearing
<1>4. LastSets'
  BY DEF LastSets
<1>. QED BY <1>3, <1>4, StopInv, DownInv

LEMMA KeyPressedInv ==
    ASSUME IInv, KeyPressed
    PROVE  IInv'
<1>. USE DEF KeyPressed, R_CALL
<1>1. /\ rx' \in Seq(Frames) /\ Len(rx') <= MaxRx
      /\ from' \in Seq(Media) /\ Len(from') = Len(rx')
  BY SessionAssumption
<1>2. wire' \in BOOLEAN
  OBVIOUS
<1>3. TypeOK'
  BY <1>1, <1>2, StopInv DEF IInv, TypeOK, IDLE, ENC_SIGN, Commands, Clearing
<1>4. LastSets'
  BY DEF LastSets
<1>. QED BY <1>3, <1>4, StopInv, DownInv

LEMMA SiteTimeoutInv ==
    ASSUME IInv, SiteTimeout
    PROVE  IInv'
<1>. USE DEF SiteTimeout, portVars
<1>1. asso_4_485_to' \in BOOLEAN
  OBVIOUS
<1>2. TypeOK'
  BY <1>1, StopInv DEF IInv, TypeOK, IDLE, ENC_SIGN, Commands, Clearing
<1>3. LastSets'
  BY DEF IInv, LastSets
<1>. QED BY <1>2, <1>3, StopInv, DownInv

LEMMA ResetTimeoutInv ==
    ASSUME IInv, ResetTimeout
    PROVE  IInv'
<1>. USE DEF ResetTimeout, portVars, linkVars, applVars, homeVars
<1>1. sap_is_utility' \in BOOLEAN /\ reset_to' \in BOOLEAN
  BY DEF IInv, TypeOK
<1>2. mt_init_delay \/ act_devcmd = "INIT" =>
         /\ asked # NoClient
         /\ asked \in Saps => sap_is_utility' = (asked # "PRIVATE")
  <2>1. CASE act_devcmd = "INIT"
    <3>1. sap_is_utility' = (Secure(appl_sap) \/ Management(appl_sap))
      BY <2>1
    <3>2. asked # NoClient
      BY <2>1 DEF IInv, AskerKnown
    <3>3. ASSUME asked \in Saps
          PROVE  sap_is_utility' = (asked # "PRIVATE")
      BY <3>1, <3>3 DEF IInv, AskerKnown, Secure, Management
    <3>. QED BY <3>2, <3>3
  <2>2. CASE act_devcmd # "INIT"
    BY <2>2 DEF IInv, TypeOK, AskerKnown
  <2>. QED BY <2>1, <2>2
<1>3. /\ turn' \in {turn, Timers, Down}
      /\ mt_init_delay' \in BOOLEAN
      /\ mt_init_delay' => mt_init_delay
      /\ lab_clear_pending' = lab_clear_pending
      /\ failed' \in BOOLEAN
      /\ cleared' \in {"NO", "COMM", "FACTORY", "LAB"}
      /\ ClearingOfAsker'
  <2>1. CASE act_devcmd \in Clearing
    <3>1. PICK delay \in BOOLEAN :
             delay <=> mt_init_delay \/ act_devcmd = "INIT"
      BY DEF IInv, TypeOK
    <3>. QED BY <1>1, <1>2, <2>1, <3>1, EndProcInv DEF IInv, TypeOK
  <2>2. CASE act_devcmd \notin Clearing
    BY <2>2 DEF IInv, TypeOK, ClearingOfAsker
  <2>. QED BY <2>1, <2>2
<1>4. TypeOK'
  <2>1. /\ UNCHANGED <<g_en_run_media_HDLC, rx, from, wire, dl_conn_state,
                       dl_conn_client_addr, appl_sap, appl_conn_state,
                       act_devcmd, asso_to, asso_4_485_to, home, crossed,
                       asked>>
    OBVIOUS
  <2>2. turn' \in Timers..Down
    BY <1>3 DEF IInv, TypeOK, Timers, Down
  <2>. HIDE DEF ResetTimeout
  <2>. QED BY <1>1, <1>3, <2>1, <2>2 DEF IInv, TypeOK
<1>5. LastSets' /\ LinkOfClient' /\ SessionIsTimed' /\ UnsecuredStays'
  BY DEF IInv, LastSets, LinkOfClient, SessionIsTimed, UnsecuredStays
<1>6. AskerKnown'
  <2>1. UNCHANGED <<appl_sap, act_devcmd, asked>>
    OBVIOUS
  <2>. HIDE DEF ResetTimeout
  <2>. QED BY <1>2, <1>3, <2>1 DEF IInv, AskerKnown, Secure
<1>. QED BY <1>3, <1>4, <1>5, <1>6 DEF IInv

-----------------------------------------------------------------------------
(* Every step keeps the invariant. *)
LEMMA StepInv == IInv /\ [Next]_vars => IInv'
<1> SUFFICES ASSUME IInv, [Next]_vars PROVE IInv'
  OBVIOUS
<1>1. CASE Receives
  BY <1>1, RejectInv, AdmitInv DEF Receives
<1>2. CASE amr_proc
  BY <1>2, IdleInv, DropInv, IgnoreInv, SnrmAcceptedInv, SnrmRefusedInv,
     DiscInv, NoEffectInv, AssociateInv, ServeAuthenticationInv, ServeInv
     DEF amr_proc
<1>3. CASE KeyPressed \/ Flush \/ Restart
  BY <1>3, KeyPressedInv, FlushInv, RestartInv
<1>4. CASE TimesOut
  BY <1>4, AssoTimeoutInv, SiteTimeoutInv, ResetTimeoutInv DEF TimesOut
<1>5. CASE UNCHANGED vars
  <2>. USE <1>5 DEF IInv, vars, portVars, linkVars, applVars, clearVars,
                    timerVars, histVars, homeVars
  <2>1. TypeOK'
    BY DEF TypeOK, Commands, Clearing
  <2>2. LastSets' /\ LinkOfClient' /\ SessionIsTimed' /\ UnsecuredStays'
    BY DEF LastSets, LinkOfClient, SessionIsTimed, UnsecuredStays
  <2>3. AskerKnown' /\ ClearingOfAsker'
    BY DEF AskerKnown, ClearingOfAsker
  <2>. QED BY <2>1, <2>2, <2>3
<1>. QED BY <1>1, <1>2, <1>3, <1>4, <1>5 DEF Next

LEMMA Invariance == Spec => []IInv
BY InitInv, StepInv, PTL DEF Spec

-----------------------------------------------------------------------------
(***************************************************************************)
(* The theorems.                                                           *)
(***************************************************************************)

(* Every variable keeps its type, for all frames and media. *)
THEOREM TypeCorrect == Spec => []TypeOK
<1>1. IInv => TypeOK
  BY DEF IInv
<1>. QED BY <1>1, Invariance, PTL

(* No association stands without the link of its client (dl.c, appl.c). *)
THEOREM AssociationOfItsClient == Spec => []AssociationOfClient
<1>1. IInv => AssociationOfClient
  BY DEF IInv, TypeOK, LinkOfClient, AssociationOfClient
<1>. QED BY <1>1, Invariance, PTL

(* Every ciphered session has the timer that ends it (appl.c). *)
THEOREM SessionTimed == Spec => []SessionIsTimed
<1>1. IInv => SessionIsTimed
  BY DEF IInv
<1>. QED BY <1>1, Invariance, PTL

(* A clearing is carried out only when asked for, and as it was asked for   *)
(* when no other client has come in between (comm.c, appl.c).              *)
THEOREM ClearingAsked == Spec => []ClearingOfAsker
<1>1. IInv => ClearingOfAsker
  BY DEF IInv
<1>. QED BY <1>1, Invariance, PTL

(* A session without security is answered where its SNRM has come from,    *)
(* and hears no other medium, whatever arrives and however many frames     *)
(* wait, unless a frame of another medium was behind that SNRM             *)
(* (amg_media_mnt.c, amg_meter_main.c).                                    *)
THEOREM UnsecuredStay == Spec => []UnsecuredStays
<1>1. IInv => UnsecuredStays
  BY DEF IInv
<1>. QED BY <1>1, Invariance, PTL
=============================================================================
