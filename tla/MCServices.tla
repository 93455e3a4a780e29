----------------------------- MODULE MCServices ------------------------------
(***************************************************************************)
(* What the program uses of services with limits of their own: the bucket  *)
(* of requests to the AI, and the watches on the mailboxes.  They share no *)
(* state, so a behaviour is one of the two, named by `part`; the other     *)
(* rests.                                                                  *)
(***************************************************************************)
EXTENDS TokenBucket, WatchRenewal

CONSTANTS c1, c2, u1, m1, m2

VARIABLE part

servicesVars == <<part, vars, watchVars>>

\* The mailboxes are alike: m1 is the one linked first.
ServicesInit ==
    /\ part \in {"bucket", "watches"}
    /\ Init
    /\ WatchInit
    /\ \A u \in Subscribers : row[u] # NoRow => part = "watches" /\ row[u].mail = m1

ServicesNext ==
    /\ UNCHANGED part
    /\ \/ part = "bucket" /\ Next /\ UNCHANGED watchVars
       \/ part = "watches" /\ WatchNext /\ UNCHANGED vars

\* Nothing of the bucket has to happen.
ServicesSpec ==
    /\ ServicesInit /\ [][ServicesNext]_servicesVars
    /\ part = "watches" => WatchFairness
=============================================================================
