-------------------------- MODULE MCReminderEngine --------------------------
(***************************************************************************)
(* Instances of ReminderEngine: the source's own leads for one worker that *)
(* keeps up, and leads in the same order, closer together, for the runs in *)
(* which workers overlap and time may stand still or jump.                 *)
(***************************************************************************)
EXTENDS ReminderEngine

CONSTANTS r1, r2, w1, w2

\* In half-hours: 24, 6 and 1 hours.
SourceLead == [s \in Stages |-> CASE s = "h24" -> 48 [] s = "h6" -> 12 [] s = "h1" -> 2]

CloseLead == [s \in Stages |-> CASE s = "h24" -> 5 [] s = "h6" -> 3 [] s = "h1" -> 1]
=============================================================================
