------------------------------ MODULE JobLanes ------------------------------
(***************************************************************************)
(* What the job registry promises about order (cmd/eserved/jobs): each     *)
(* flavor has a lane; jobs are taken from it one at a time, in the order   *)
(* they were accepted, and none is accepted twice. Channels, goroutines,   *)
(* states and cancels are in JobQueue, which implements this.              *)
(***************************************************************************)
EXTENDS Naturals, Sequences

CONSTANTS
    Jobs, Flavors,
    Capacity,   \* jobs that may wait in a lane
    Nothing     \* not a job

VARIABLES
    lane,      \* the jobs that wait, per flavor
    hand,      \* the job that was taken
    working,   \* flavors whose job in hand is being worked on
    taken      \* jobs that were accepted, or can be no more

laneVars == <<lane, hand, working, taken>>

LanesTypeOK ==
    /\ lane \in [Flavors -> Seq(Jobs)]
    /\ \A f \in Flavors : Len(lane[f]) <= Capacity
    /\ hand \in [Flavors -> Jobs \cup {Nothing}]
    /\ working \subseteq {f \in Flavors : hand[f] # Nothing}
    /\ taken \subseteq Jobs

Init ==
    /\ lane = [f \in Flavors |-> <<>>]
    /\ hand = [f \in Flavors |-> Nothing]
    /\ working = {} /\ taken = {}

\* JobRegistry.Start returns the job.
Accept(j, f) ==
    /\ j \notin taken
    /\ Len(lane[f]) < Capacity
    /\ lane' = [lane EXCEPT ![f] = Append(@, j)]
    /\ taken' = taken \cup {j}
    /\ UNCHANGED <<hand, working>>

Take(f) ==
    /\ hand[f] = Nothing /\ lane[f] # <<>>
    /\ hand' = [hand EXCEPT ![f] = Head(lane[f])]
    /\ lane' = [lane EXCEPT ![f] = Tail(@)]
    /\ UNCHANGED <<working, taken>>

Work(f) ==
    /\ hand[f] # Nothing /\ f \notin working
    /\ working' = working \cup {f}
    /\ UNCHANGED <<lane, hand, taken>>

\* The work is over, or was not wanted any more.
Release(f) ==
    /\ hand[f] # Nothing
    /\ hand' = [hand EXCEPT ![f] = Nothing]
    /\ working' = working \ {f}
    /\ UNCHANGED <<lane, taken>>

\* Everything is lost; jobs Start had in its hands are accepted no more.
Restart ==
    /\ lane' = [f \in Flavors |-> <<>>]
    /\ hand' = [f \in Flavors |-> Nothing]
    /\ working' = {}
    /\ taken \subseteq taken' /\ taken' \subseteq Jobs

Next ==
    \/ \E j \in Jobs, f \in Flavors : Accept(j, f)
    \/ \E f \in Flavors : Take(f) \/ Work(f) \/ Release(f)
    \/ Restart

Spec == Init /\ [][Next]_laneVars
=============================================================================
