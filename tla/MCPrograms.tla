----------------------------- MODULE MCPrograms -----------------------------
(***************************************************************************)
(* Tariff programs with two calendars and two holiday tables: the default  *)
(* one and one that was downloaded.                                        *)
(***************************************************************************)
EXTENDS Programs

(* What follows an order of events that the code does not guard against is *)
(* not looked at any further: exposed stays TRUE.  Calendars and holidays  *)
(* lie in different areas, so one kind at a time is other than by default. *)
Bounds ==
    /\ ~exposed
    /\ \/ \A a \in Areas : calendar[a] = DefaultCalendar
       \/ \A a \in Areas : days[a] = DefaultDays

(* The indices of a reserved program mean nothing while there is none.     *)
Live(c) == [c EXCEPT !.pprog = IF c.fut THEN @ ELSE 0,
                     !.phol = IF c.futhol THEN @ ELSE 0]

View == <<turn, Live(mt_conf), Live(nv_conf), tableVars, dlVars, image,
          fut_own_days /\ (mt_conf.fut \/ nv_conf.fut),
          fresh, exposed, was, nv_was>>
=============================================================================
