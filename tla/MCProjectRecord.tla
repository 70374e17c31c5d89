-------------------------- MODULE MCProjectRecord ---------------------------
(* Small instances of ProjectRecord for TLC. *)
EXTENDS ProjectRecord

(* One command of each kind, a limit Validate accepts and one it does not, a
   milestone without a date and with one that is none. *)
MCCommands ==
  [op : {"pause", "resume", "unlimit"}] \cup [op : {"limit"}, to : Limits]
  \cup [op : {"milestone"}, id : Milestones \ Slips, due : {"undated", "misdated"}]
  \cup [op : {"drop"}, id : Milestones]

MCLimits == {-1, 1}

R(paused, at, limit, sound) ==
  [paused |-> paused, at |-> at, limit |-> limit,
   due |-> [m \in Milestones |-> <<>>], sound |-> sound]

Declares(r, m, due) == [r EXCEPT !.due[m] = due]

(* What an editor leaves: a good record, a pause without its time, a stale
   paused_at, a limit below zero, a fault in another key, a milestone that is
   declared twice, one whose id is none. *)
MCHandmade ==
  {R(TRUE, "time", 1, TRUE), R(TRUE, "none", NoLimit, TRUE),
   R(FALSE, "time", NoLimit, TRUE), R(FALSE, "text", NoLimit, TRUE),
   R(FALSE, "none", -1, TRUE), R(TRUE, "time", NoLimit, FALSE)}
  \cup {Declares(R(FALSE, "none", NoLimit, TRUE), m,
                 IF m \in Slips THEN <<"undated">> ELSE <<"undated", "dated">>) :
          m \in Milestones}
=============================================================================
