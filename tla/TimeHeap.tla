------------------------------ MODULE TimeHeap ------------------------------
(***************************************************************************)
(* min_heap_timer.h: time_heap, a binary heap of timers in an array that   *)
(* doubles when it is full.  del_timer only clears the callback; the timer *)
(* stays in the heap until its time comes.                                 *)
(*                                                                         *)
(* The loops of the second constructor, of tick(), which reads the time    *)
(* once, before the callbacks, and of the two percolations are a step per  *)
(* iteration.  A deleted timer's expire is reset.                          *)
(***************************************************************************)
EXTENDS Integers, FiniteSets

CONSTANTS Timers,    \* addresses of heap_timer objects
          NULL,      \* the null pointer
          Delays,    \* the delays the program asks for
          Capacity,  \* the capacity the heap is constructed with
          MaxTime    \* bound: the last value of time(NULL)

VARIABLES now,        \* time(NULL)
          live,       \* the timers that are allocated
          cancelled,  \* those whose cb_func is NULL
          expire,     \* expire of every timer
          array,      \* the heap array
          capacity,   \* its size
          cur_size,   \* how much of it is used
          build,      \* i of the second constructor's loop, -1 when it is over
          moving,     \* the percolation under way: its direction, the timer
                      \* that moves and the hole it may go into; or NULL
          cur         \* cur of the tick() under way, or NULL

vars == <<now, live, cancelled, expire, array, capacity, cur_size, build,
          moving, cur>>

\* Both constructors: an array of the capacity asked for, with the timers of
\* init_array in it, of which the first constructor has none.
Init ==
    /\ now = 0 /\ cur = NULL /\ moving = NULL /\ cancelled = {}
    /\ capacity = Capacity
    /\ cur_size \in 0 .. Capacity
    /\ live \in SUBSET Timers
    /\ \E order \in [0 .. cur_size - 1 -> live], x \in [live -> Delays] :
          /\ \A t \in live : \E i \in 0 .. cur_size - 1 : order[i] = t
          /\ \A i, j \in 0 .. cur_size - 1 : order[i] = order[j] => i = j
          /\ array = [i \in 0 .. Capacity - 1 |->
                         IF i < cur_size THEN order[i] ELSE NULL]
          /\ expire = [t \in Timers |-> IF t \in live THEN x[t] ELSE 0]
    /\ build = IF cur_size = 0 THEN -1 ELSE (cur_size - 1) \div 2

-----------------------------------------------------------------------------
(* Percolation *)

Move(dir, t, hole) == [dir |-> dir, timer |-> t, hole |-> hole]

\* percolate_down(hole) begins, in array a.
PercolateDown(a, hole) == moving' = Move("down", a[hole], hole)

\* Slip: the right child is never looked at.
ChildLeft(hole) == 2 * hole + 1

\* The child of hole that expires first.
Child(hole) ==
    LET left == 2 * hole + 1
    IN  IF left < cur_size - 1 /\ expire[array[left + 1]] < expire[array[left]]
        THEN left + 1 ELSE left

\* One iteration: the child moves up into the hole, or the loop ends and the
\* timer goes there.
Sink ==
    /\ moving # NULL /\ moving.dir = "down"
    /\ LET t == moving.timer
           hole == moving.hole
           child == Child(hole)
       IN  IF 2 * hole + 1 <= cur_size - 1 /\ expire[array[child]] < expire[t]
           THEN /\ array' = [array EXCEPT ![hole] = array[child]]
                /\ moving' = Move("down", t, child)
           ELSE /\ array' = [array EXCEPT ![hole] = t]
                /\ moving' = NULL
    /\ UNCHANGED <<now, live, cancelled, expire, capacity, cur_size, build, cur>>

\* One iteration of the loop of add_timer, in the same way towards the top.
Rise ==
    /\ moving # NULL /\ moving.dir = "up"
    /\ LET t == moving.timer
           hole == moving.hole
           parent == (hole - 1) \div 2
       IN  IF hole > 0 /\ expire[array[parent]] > expire[t]
           THEN /\ array' = [array EXCEPT ![hole] = array[parent]]
                /\ moving' = Move("up", t, parent)
           ELSE /\ array' = [array EXCEPT ![hole] = t]
                /\ moving' = NULL
    /\ UNCHANGED <<now, live, cancelled, expire, capacity, cur_size, build, cur>>

\* One iteration of the loop of the second constructor.
Heapify ==
    /\ build >= 0 /\ moving = NULL
    /\ PercolateDown(array, build)
    /\ build' = build - 1
    /\ UNCHANGED <<now, live, cancelled, expire, array, capacity, cur_size, cur>>

-----------------------------------------------------------------------------

\* The program calls nothing while a call is under way.
Ready == build < 0 /\ moving = NULL /\ cur = NULL

Advance ==
    /\ now < MaxTime
    /\ now' = now + 1
    /\ UNCHANGED <<live, cancelled, expire, array, capacity, cur_size, build,
                   moving, cur>>

resize ==
    /\ capacity' = 2 * capacity
    /\ array' = [i \in 0 .. 2 * capacity - 1 |->
                    IF i < cur_size THEN array[i] ELSE NULL]

\* new heap_timer(d), and add_timer up to its loop.
AddTimer(t, d) ==
    /\ Ready /\ t \notin live
    /\ live' = live \cup {t}
    /\ expire' = [expire EXCEPT ![t] = now + d]
    /\ IF cur_size >= capacity THEN resize ELSE UNCHANGED <<array, capacity>>
    /\ cur_size' = cur_size + 1
    /\ moving' = Move("up", t, cur_size)
    /\ UNCHANGED <<now, cancelled, build, cur>>

\* del_timer: the timer stays where it is, without a callback.
DelTimer(t) ==
    /\ Ready /\ t \in live
    /\ cancelled' = cancelled \cup {t}
    /\ UNCHANGED <<now, live, expire, array, capacity, cur_size, build, moving,
                   cur>>

\* pop_timer on a heap that is not empty: the top is deleted, the last entry
\* takes its place and sinks.
Pop ==
    LET t == array[0]
    IN  /\ cur_size > 0
        /\ live' = live \ {t}
        /\ cancelled' = cancelled \ {t}
        /\ expire' = [expire EXCEPT ![t] = 0]
        /\ cur_size' = cur_size - 1
        /\ array' = [array EXCEPT ![0] = array[cur_size - 1]]
        /\ PercolateDown(array', 0)
        /\ UNCHANGED <<now, capacity, build, cur>>

\* The program pops the top itself.
PopTimer == Ready /\ Pop

\* tick() reads the time.
TickBegin ==
    /\ Ready
    /\ cur' = now
    /\ UNCHANGED <<now, live, cancelled, expire, array, capacity, cur_size,
                   build, moving>>

TopIsDue == cur_size > 0 /\ expire[array[0]] <= cur

\* The top is due: its callback, if it still has one, and pop_timer.
TickFire ==
    /\ cur # NULL /\ moving = NULL /\ TopIsDue
    /\ Pop

\* Slip: a timer without a callback ends the loop.
TickEndAtCancelled ==
    /\ cur # NULL /\ moving = NULL /\ (TopIsDue => array[0] \in cancelled)
    /\ cur' = NULL
    /\ UNCHANGED <<now, live, cancelled, expire, array, capacity, cur_size,
                   build, moving>>

\* The heap is empty, or its top is not due yet.
TickEnd ==
    /\ cur # NULL /\ moving = NULL /\ ~TopIsDue
    /\ cur' = NULL
    /\ UNCHANGED <<now, live, cancelled, expire, array, capacity, cur_size,
                   build, moving>>

Next ==
    \/ Advance
    \/ Heapify \/ Sink \/ Rise
    \/ \E t \in Timers : DelTimer(t) \/ \E d \in Delays : AddTimer(t, d)
    \/ PopTimer \/ TickBegin \/ TickFire \/ TickEnd

Spec == Init /\ [][Next]_vars

-----------------------------------------------------------------------------
(* Properties                                                              *)

\* The timer at place i: while a timer moves it counts as being in the hole.
At(i) == IF moving # NULL /\ moving.hole = i THEN moving.timer ELSE array[i]

\* The used part of the array holds every allocated timer once and none that
\* was deleted, at every iteration of the two percolations, and once they are
\* over no timer expires before the one above it (min_heap_timer.h:178).
HeapOrdered ==
    /\ {At(i) : i \in 0 .. cur_size - 1} = live
    /\ \A i, j \in 0 .. cur_size - 1 : At(i) = At(j) => i = j
    /\ build < 0 /\ moving = NULL =>
          \A i \in 1 .. cur_size - 1 :
              expire[array[(i - 1) \div 2]] <= expire[array[i]]

Queue == INSTANCE TimerQueue WITH
            deadline <- [t \in Timers |-> IF t \in live \ cancelled
                                          THEN expire[t] ELSE NULL]
=============================================================================
