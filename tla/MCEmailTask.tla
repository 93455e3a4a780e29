----------------------------- MODULE MCEmailTask -----------------------------
(***************************************************************************)
(* Small instances of EmailTask.  The verdicts are chosen so that every    *)
(* branch after the classification is taken: silent, alert without a       *)
(* reminder for each reason there is, alert with a reminder.               *)
(***************************************************************************)
EXTENDS EmailTask

CONSTANTS t1, u1, u2, m1, m2

MCMailboxOf == [t \in Tasks |-> m1]

Verdict(p, c, d) == [placement |-> p, category |-> c, deadline |-> d]

MCVerdicts ==
    {Verdict(FALSE, "none", "none"),
     Verdict(TRUE, "Opportunity", "past"),
     Verdict(TRUE, "Interview", "future"),
     Verdict(TRUE, "Offer", "future")}
=============================================================================
