---------------------------- MODULE EmailOutcome ----------------------------
(***************************************************************************)
(* What the background worker promises about one accepted Gmail event,     *)
(* apart from how it keeps the promise.  An accepted e-mail is pending     *)
(* while it still has attempts left; it is settled once, for good:         *)
(*                                                                         *)
(*   notified   an alert went out to the student (delivered or not)        *)
(*   dismissed  the e-mail was understood and does not concern the student *)
(*   givenup    every one of the MaxRetries + 1 attempts failed            *)
(*   lost       the worker or the broker dropped it in between             *)
(*                                                                         *)
(* An e-mail that has produced an alert is never tried again: that is what *)
(* keeps a student from being alerted once per retry.                      *)
(***************************************************************************)
EXTENDS Naturals

CONSTANTS Tasks,       \* the accepted events
          MaxRetries   \* retries after the first attempt, a natural number

VARIABLES outcome,     \* what became of each event
          tries        \* retries used by each event

outcomeVars == <<outcome, tries>>

Settled == {"notified", "dismissed", "givenup", "lost"}

OutcomeInit ==
    /\ outcome = [t \in Tasks |-> "none"]
    /\ tries = [t \in Tasks |-> 0]

Accept(t) ==
    /\ outcome[t] = "none"
    /\ outcome' = [outcome EXCEPT ![t] = "pending"]
    /\ UNCHANGED tries

TryAgain(t) ==
    /\ outcome[t] = "pending"
    /\ tries[t] < MaxRetries
    /\ tries' = [tries EXCEPT ![t] = @ + 1]
    /\ UNCHANGED outcome

Settle(t, result) ==
    /\ outcome[t] = "pending"
    /\ result = "givenup" => tries[t] = MaxRetries
    /\ outcome' = [outcome EXCEPT ![t] = result]
    /\ UNCHANGED tries

OutcomeNext ==
    \E t \in Tasks :
        \/ Accept(t)
        \/ TryAgain(t)
        \/ \E result \in Settled : Settle(t, result)

OutcomeSpec ==
    /\ OutcomeInit
    /\ [][OutcomeNext]_outcomeVars
    /\ \A t \in Tasks : WF_outcomeVars(\E result \in Settled : Settle(t, result))
=============================================================================
