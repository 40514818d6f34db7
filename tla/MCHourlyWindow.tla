--------------------------- MODULE MCHourlyWindow ---------------------------
(***************************************************************************)
(* Instances of HourlyWindow for TLC.                                      *)
(***************************************************************************)
EXTENDS HourlyWindow

CONSTANTS r0, r1, r2

(* One row in the first hour and two in the second, around which the clock *)
(* is changed.                                                             *)
RowHours == [r \in Rows |-> IF r = r0 THEN 0 ELSE 1]

Fixed      == [local |-> [h \in Hours |-> h], read |-> [h \in Hours |-> h]]
Forward(s) == [Fixed EXCEPT !.local = [h \in Hours |-> IF h <= s THEN h ELSE h + 1]]

(* Hours s and s + 1 show the same local hour, read as hour t.             *)
Back(s, t) == [local |-> [h \in Hours |-> IF h <= s THEN h ELSE h - 1],
               read  |-> [h \in Hours |-> IF h \in {s, s + 1} THEN t ELSE h]]

(* Fixed offset; an hour left out; an hour repeated, west of Greenwich.    *)
CommonZones == {Fixed, Forward(1), Back(1, 1)}

(* An hour repeated, east of Greenwich.                                    *)
EasternZones == {Back(1, 2)}

(* Which of these zones the proof that no row is lost is about.            *)
ASSUME SteadyChecked == /\ \A z \in CommonZones : Steady(z)
                        /\ \A z \in EasternZones : ~Steady(z)
=============================================================================
