---------------------------- MODULE JobDelivery ----------------------------
(***************************************************************************)
(* What the background queue promises of a job, with every command of a    *)
(* claim reduced to the one instant at which it takes effect.              *)
(*                                                                         *)
(* Jobs are handed out in the order they were published, each to one       *)
(* worker at a time, and stay with the queue until a worker acknowledges   *)
(* them.  A job may be handed out again, and it is only given up when its  *)
(* record is gone or the stream has outgrown MaxLen.                       *)
(***************************************************************************)
EXTENDS Integers

CONSTANTS
    Workers,   \* consumers of the group
    Entries,   \* the jobs, numbered in the order of their publication
    MaxLen     \* BACKGROUND_QUEUE_STREAM_MAXLEN, 0 for no trimming

VARIABLES
    place,     \* place[n] is where job n is; a worker means in its PEL
    vanished   \* the jobs whose record has been gone at some time

Places == {"unpublished", "waiting", "done", "gone"} \cup Workers

WaitingJobs == {n \in Entries : place[n] = "waiting"}
Taken == {n \in Entries : place[n] \in Workers}

Published == {n \in Entries : place[n] # "unpublished"}

\* MaxLen jobs were published after job n, when those in P were.
Outgrown(n, P) == MaxLen > 0 /\ n + MaxLen \in P

-----------------------------------------------------------------------------
JInit ==
    /\ place = [n \in Entries |-> "unpublished"]
    /\ vanished = {}

\* The jobs in S move to p, others stay.
Move(S, p) == place' = [n \in Entries |-> IF n \in S THEN p ELSE place[n]]

\* Job n joins the end, and the oldest jobs may be trimmed.
Publish(n) ==
    /\ n \notin Published /\ \A m \in Entries : m < n => m \in Published
    /\ \E S \in SUBSET WaitingJobs :
          /\ \A m \in S : Outgrown(m, Published \cup {n})
          /\ place' = [m \in Entries |-> IF m = n THEN "waiting"
                                         ELSE IF m \in S THEN "gone" ELSE place[m]]

\* Worker w gets the oldest waiting jobs.
HandOut(w) ==
    \E S \in SUBSET WaitingJobs :
        /\ \A n \in S, m \in WaitingJobs : m < n => m \in S
        /\ Move(S, w)

\* Worker w takes over jobs of other workers, or of its own past.  Those
\* that were trimmed meanwhile are given up.
TakeOver(w) ==
    \E S \in SUBSET Taken, D \in SUBSET Taken :
        /\ \A n \in D : Outgrown(n, Published)
        /\ place' = [n \in Entries |-> IF n \in D THEN "gone"
                                       ELSE IF n \in S THEN w ELSE place[n]]

Acknowledge(n) == n \in Taken /\ Move({n}, "done")

\* A job without a record is acknowledged by the claim that finds it.
GiveUp(n) == n \in Taken \cap vanished /\ Move({n}, "gone")

\* A record goes away: jobs stay where they are.
Vanish == UNCHANGED place

JNext ==
    /\ vanished \subseteq vanished'
    /\ \/ \E n \in Entries : Publish(n) \/ Acknowledge(n) \/ GiveUp(n)
       \/ \E w \in Workers : HandOut(w) \/ TakeOver(w)
       \/ Vanish

JSpec == JInit /\ [][JNext]_<<place, vanished>>
=============================================================================
