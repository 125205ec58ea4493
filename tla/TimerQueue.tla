----------------------------- MODULE TimerQueue -----------------------------
(***************************************************************************)
(* What a timer container promises to the program that drives it: timers   *)
(* with absolute deadlines, and a tick() that calls back every timer whose *)
(* deadline has come when it starts, earlier deadlines first, and no other.*)
(* sort_timer_lst and time_heap are to implement it.                       *)
(***************************************************************************)
EXTENDS Naturals

CONSTANTS Timers,  \* the timers
          NULL     \* no deadline; no tick() under way

VARIABLES now,       \* time(NULL)
          deadline,  \* the deadline of every timer that waits
          cur        \* the time tick() read when it started, or NULL

queueVars == <<now, deadline, cur>>

QueueInit ==
    /\ now \in Nat
    /\ deadline \in [Timers -> Nat \cup {NULL}]
    /\ cur = NULL

Time ==
    /\ now' = now + 1
    /\ UNCHANGED <<deadline, cur>>

\* A timer is added, or its deadline is changed, outside of tick().
Schedule(t) ==
    /\ cur = NULL
    /\ deadline'[t] \in Nat /\ deadline'[t] >= now
    /\ deadline' = [deadline EXCEPT ![t] = deadline'[t]]
    /\ UNCHANGED <<now, cur>>

Cancel(t) ==
    /\ cur = NULL
    /\ deadline' = [deadline EXCEPT ![t] = NULL]
    /\ UNCHANGED <<now, cur>>

TickBegin ==
    /\ cur = NULL
    /\ cur' = now
    /\ UNCHANGED <<now, deadline>>

Waiting == {t \in Timers : deadline[t] # NULL}

\* The callback of one timer: it is due, and none has an earlier deadline.
Fire(t) ==
    /\ cur # NULL /\ t \in Waiting
    /\ deadline[t] <= cur
    /\ \A u \in Waiting : deadline[t] <= deadline[u]
    /\ deadline' = [deadline EXCEPT ![t] = NULL]
    /\ UNCHANGED <<now, cur>>

\* tick() returns: nothing that is due is left.
TickEnd ==
    /\ cur # NULL
    /\ \A t \in Waiting : deadline[t] > cur
    /\ cur' = NULL
    /\ UNCHANGED <<now, deadline>>

QueueNext ==
    \/ Time \/ TickBegin \/ TickEnd
    \/ \E t \in Timers : Schedule(t) \/ Cancel(t) \/ Fire(t)

QueueSpec == QueueInit /\ [][QueueNext]_queueVars
=============================================================================
