----------------------------- MODULE HourlyCopy -----------------------------
(***************************************************************************)
(* What hourly-window mode promises for one table: the windows are copied  *)
(* in the order of their hours, each by one append at most, which has every*)
(* row of the window that was there in time; once an append may or may not *)
(* have happened, nothing is copied any more until an operator has looked. *)
(* Nothing is said of clocks, time zones, files or saves: HourlyWindow     *)
(* implements this.                                                        *)
(***************************************************************************)
EXTENDS Integers

CONSTANTS Rows,     \* rows that may turn up in the source table
          HourOf    \* the hour of each row

VARIABLES source,   \* the rows in the source table
          timely,   \* those that came before their window was copied
          target,   \* copies of each row in the target table
          cursor,   \* the first hour not yet copied
          end,      \* the end of the window being copied, or the cursor
          phase     \* how far its copy is: "none", "importing", "imported" or "unknown"

vars == <<source, timely, target, cursor, end, phase>>

Init == /\ source = {} /\ timely = {}
        /\ target = [r \in Rows |-> 0]
        /\ cursor \in Int
        /\ end = cursor
        /\ phase = "none"

(* A row of the window at hand, or of an earlier one, comes too late.      *)
Arrive(r) == /\ r \notin source
             /\ source' = source \cup {r}
             /\ \/ timely' = timely
                \/ HourOf[r] >= end /\ timely' = timely \cup {r}
             /\ UNCHANGED <<target, cursor, end, phase>>

Begin == /\ phase = "none"
         /\ phase' = "importing"
         /\ end' \in Int /\ end' > cursor
         /\ UNCHANGED <<source, timely, target, cursor>>

In(rows) == {r \in rows : cursor <= HourOf[r] /\ HourOf[r] < end}

(* The rows appended are rows of the window, the timely ones among them;   *)
(* the answer may be lost.                                                 *)
Append(rows) == /\ phase = "importing"
                /\ In(timely) \subseteq rows /\ rows \subseteq In(source)
                /\ target' = [r \in Rows |-> target[r] + (IF r \in rows THEN 1 ELSE 0)]
                /\ phase' \in {"imported", "unknown"}
                /\ UNCHANGED <<source, timely, cursor, end>>

LoseTrack == /\ phase \in {"importing", "imported"}
             /\ phase' = "unknown"
             /\ UNCHANGED <<source, timely, target, cursor, end>>

Pass == /\ phase = "imported"
        /\ phase' = "none"
        /\ cursor' = end
        /\ UNCHANGED <<source, timely, target, end>>

(* A window without rows needs no copy.                                    *)
PassEmpty == /\ phase = "none"
             /\ cursor' \in Int /\ cursor' > cursor
             /\ \A r \in source : ~(cursor <= HourOf[r] /\ HourOf[r] < cursor')
             /\ end' = cursor'
             /\ UNCHANGED <<source, timely, target, phase>>

Next == \/ \E r \in Rows : Arrive(r)
        \/ Begin \/ (\E rows \in SUBSET Rows : Append(rows)) \/ LoseTrack \/ Pass \/ PassEmpty

Spec == Init /\ [][Next]_vars
=============================================================================
