------------------------------ MODULE TimeWheel ------------------------------
(***************************************************************************)
(* wheel_timer.h: time_wheel, N slots that tick() visits in turn, each the *)
(* head of an unordered doubly linked list of timers, and for every timer  *)
(* the number of rounds that still pass it by.                             *)
(*                                                                         *)
(* Timers are addresses: a deleted one may be allocated again, and keeps   *)
(* its pointers and its slot until then (rotation is reset).  The loop of  *)
(* tick() is a step per iteration.  Nothing else is called meanwhile: no   *)
(* program of the repository uses the wheel, so no callback does it.       *)
(*                                                                         *)
(* The code keeps no deadline.  left is one, kept beside it: the number of *)
(* tick() calls that are still to come before the one that is to call the  *)
(* timer back, counted by the wheel's clock and not by rounds and slots.   *)
(***************************************************************************)
EXTENDS Integers

CONSTANTS Timers,    \* addresses of tw_timer objects
          NULL,      \* the null pointer
          Timeouts,  \* the arguments of add_timer
          N,         \* the number of slots
          SI         \* the interval between two ticks

ASSUME WheelAssumption ==
    /\ N \in Nat \ {0} /\ SI \in Nat \ {0}
    /\ Timeouts \subseteq Int
    /\ NULL \notin Timers

VARIABLES allocated,   \* the timers that are allocated
          rotation,    \* rotation of every timer
          time_slot,   \* time_slot of every timer
          slots,       \* the head of each slot's list, or NULL
          prev, next,  \* prev and next of every timer
          cur_slot,    \* the slot the next tick() visits
          ticking,     \* TRUE inside tick()
          tmp,         \* tmp of the tick() under way
          left,        \* tick() calls before the one that is due
          fired        \* the timers called back by the last step

wheelVars == <<allocated, rotation, time_slot, slots, prev, next, cur_slot,
               ticking, tmp, left, fired>>

Slots == 0 .. N - 1

Pointer == Timers \cup {NULL}

WheelInit ==
    /\ allocated = {}
    /\ rotation = [t \in Timers |-> 0]
    /\ time_slot = [t \in Timers |-> 0]
    /\ slots = [s \in Slots |-> NULL]
    /\ prev = [t \in Timers |-> NULL]
    /\ next = [t \in Timers |-> NULL]
    /\ cur_slot = 0
    /\ ticking = FALSE
    /\ tmp = NULL
    /\ left = [t \in Timers |-> 0]
    /\ fired = {}

\* After how many ticks a timeout is over; less than an interval counts as one.
Ticks(timeout) == IF timeout < SI THEN 1 ELSE timeout \div SI

\* Slip: a whole number of rounds is taken to end one round earlier.
RoundsShort(ticks) == (ticks - 1) \div N

Rounds(ticks) == ticks \div N

\* timer->prev = p, where there is a timer.
SetPrev(timer, p) ==
    prev' = [t \in Timers |-> IF t = timer THEN p ELSE prev[t]]

\* add_timer: a new timer becomes the head of its slot.  A negative timeout
\* adds nothing.
AddTimer(t, timeout) ==
    LET ticks == Ticks(timeout)
        ts == (cur_slot + (ticks % N)) % N
        h == slots[ts]
    IN  /\ ~ticking /\ t \notin allocated /\ timeout >= 0
        /\ allocated' = allocated \cup {t}
        /\ rotation' = [rotation EXCEPT ![t] = Rounds(ticks)]
        /\ time_slot' = [time_slot EXCEPT ![t] = ts]
        /\ slots' = [slots EXCEPT ![ts] = t]
        /\ next' = [next EXCEPT ![t] = h]
        /\ prev' = [u \in Timers |-> IF u = t THEN NULL
                                     ELSE IF u = h THEN t ELSE prev[u]]
        /\ left' = [left EXCEPT ![t] = ticks]
        /\ fired' = {}
        /\ UNCHANGED <<cur_slot, ticking, tmp>>

\* Slip: the successor keeps pointing back to the timer that leaves.
UnlinkOneWay(t, s) ==
    /\ IF t = slots[s]
       THEN slots' = [slots EXCEPT ![s] = next[t]] /\ UNCHANGED next
       ELSE next' = [next EXCEPT ![prev[t]] = next[t]] /\ UNCHANGED slots
    /\ UNCHANGED prev

\* Timer t leaves the list of slot s, as its head or from behind another.
Unlink(t, s) ==
    IF t = slots[s]
    THEN /\ slots' = [slots EXCEPT ![s] = next[t]]
         /\ SetPrev(next[t], NULL)
         /\ UNCHANGED next
    ELSE /\ next' = [next EXCEPT ![prev[t]] = next[t]]
         /\ SetPrev(next[t], prev[t])
         /\ UNCHANGED slots

DelTimer(t) ==
    /\ ~ticking /\ t \in allocated
    /\ Unlink(t, time_slot[t])
    /\ allocated' = allocated \ {t}
    /\ rotation' = [rotation EXCEPT ![t] = 0]
    /\ left' = [left EXCEPT ![t] = 0]
    /\ fired' = {}
    /\ UNCHANGED <<time_slot, cur_slot, ticking, tmp>>

-----------------------------------------------------------------------------
(* tick()                                                                  *)

TickBegin ==
    /\ ~ticking
    /\ ticking' = TRUE
    /\ tmp' = slots[cur_slot]
    /\ fired' = {}
    /\ UNCHANGED <<allocated, rotation, time_slot, slots, prev, next, cur_slot,
                   left>>

\* The timer has a round less to wait.
TickPass ==
    /\ ticking /\ tmp # NULL
    /\ rotation[tmp] > 0
    /\ rotation' = [rotation EXCEPT ![tmp] = @ - 1]
    /\ tmp' = next[tmp]
    /\ fired' = {}
    /\ UNCHANGED <<allocated, time_slot, slots, prev, next, cur_slot, ticking,
                   left>>

\* Slip: the loop goes on from the successor, which it has not looked at.
TickFireSkips ==
    /\ ticking /\ tmp # NULL
    /\ rotation[tmp] <= 0
    /\ fired' = {tmp}
    /\ Unlink(tmp, cur_slot)
    /\ allocated' = allocated \ {tmp}
    /\ tmp' = IF next[tmp] = NULL THEN NULL ELSE next[next[tmp]]
    /\ UNCHANGED <<rotation, time_slot, cur_slot, ticking, left>>

\* The timer is called back, unlinked and deleted, and the loop goes on from
\* its successor.
TickFire ==
    /\ ticking /\ tmp # NULL
    /\ rotation[tmp] <= 0
    /\ fired' = {tmp}
    /\ Unlink(tmp, cur_slot)
    /\ allocated' = allocated \ {tmp}
    /\ tmp' = next[tmp]
    /\ UNCHANGED <<rotation, time_slot, cur_slot, ticking, left>>

Turn(s) == (s + 1) % N

\* The end of the list: the wheel turns.
TickEnd ==
    /\ ticking /\ tmp = NULL
    /\ ticking' = FALSE
    /\ cur_slot' = Turn(cur_slot)
    /\ left' = [t \in Timers |-> IF t \in allocated THEN left[t] - 1 ELSE left[t]]
    /\ fired' = {}
    /\ UNCHANGED <<allocated, rotation, time_slot, slots, prev, next, tmp>>

WheelNext ==
    \/ \E t \in Timers, timeout \in Timeouts : AddTimer(t, timeout)
    \/ \E t \in Timers : DelTimer(t)
    \/ TickBegin \/ TickPass \/ TickFire \/ TickEnd

WheelSpec == WheelInit /\ [][WheelNext]_wheelVars

-----------------------------------------------------------------------------
(* Properties                                                              *)

\* Types of the variables.
TypeOK ==
    /\ allocated \subseteq Timers
    /\ rotation \in [Timers -> Nat]
    /\ time_slot \in [Timers -> Slots]
    /\ slots \in [Slots -> Pointer]
    /\ prev \in [Timers -> Pointer]
    /\ next \in [Timers -> Pointer]
    /\ cur_slot \in Slots
    /\ ticking \in BOOLEAN
    /\ tmp \in Pointer
    /\ left \in [Timers -> Int]
    /\ fired \subseteq Timers

\* From t, prev and next lead to neighbours in its slot that lead back, or
\* end; only the head, which is where del_timer and tick() expect it, has no
\* predecessor.
Neighbours(t) ==
    /\ prev[t] = NULL <=> t = slots[time_slot[t]]
    /\ prev[t] # NULL =>
          /\ prev[t] \in allocated
          /\ time_slot[prev[t]] = time_slot[t]
          /\ next[prev[t]] = t
    /\ next[t] # NULL =>
          /\ next[t] \in allocated
          /\ time_slot[next[t]] = time_slot[t]
          /\ prev[next[t]] = t

\* Every allocated timer is in the list of the slot it names, where del_timer
\* looks for its head and neighbours however the wheel has turned and they have
\* come and gone (wheel_timer.h:103-122), and no pointer of a list, nor the one
\* tick() goes on from (142-163), leads to a deleted timer.  No timers follow
\* each other in a circle: from each of them prev leads back to the head.
LinkedWhereItSays ==
    /\ \A s \in Slots :
          slots[s] # NULL => slots[s] \in allocated /\ time_slot[slots[s]] = s
    /\ \A t \in allocated : Neighbours(t)
    /\ \A S \in SUBSET allocated : S # {} => \E t \in S : prev[t] \notin S
    /\ ticking /\ tmp # NULL => tmp \in allocated /\ time_slot[tmp] = cur_slot

\* How many ticks from now the wheel visits slot s.
Distance(s) == IF s >= cur_slot THEN s - cur_slot ELSE s + N - cur_slot

\* Between two calls, rounds and slots together count down to the deadline, also
\* for timers added at the current slot for whole rounds, while the wheel turns
\* over and while tick() deletes neighbours it is walking over.
RotationCounts ==
    ~ticking =>
      \A t \in allocated : N * rotation[t] + Distance(time_slot[t]) = left[t]

\* A timer is called back by the tick() that follows the number of ticks its
\* timeout stands for: never before, and never passed by.
Punctual ==
    /\ \A t \in fired : left[t] = 0
    /\ \A t \in allocated : left[t] >= 0
=============================================================================
