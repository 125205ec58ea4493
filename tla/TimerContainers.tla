--------------------------- MODULE TimerContainers --------------------------
(***************************************************************************)
(* The three timer containers a program chooses from, called in any order: *)
(* the list (list_timer.h) and the heap (min_heap_timer.h), which promise  *)
(* what TimerQueue says, and the wheel (wheel_timer.h), which counts ticks *)
(* instead of reading the time and shares no state with them: Timers and   *)
(* the other names of TimeWheel are the wheel's.                           *)
(***************************************************************************)
EXTENDS Integers, TimeWheel

CONSTANTS ListTimers, HeapTimers,    \* addresses of timers
          ListDelays, HeapDelays,    \* the delays the program asks for
          Capacity,                  \* the capacity the heap is built with
          ListMaxTime, HeapMaxTime   \* bound: the last value of time(NULL)

ASSUME TimerContainersAssumption ==
    /\ NULL \notin ListTimers \cup HeapTimers \cup Nat
    /\ NULL \notin [timer : ListTimers, prev : ListTimers]
    /\ NULL \notin [dir : {"up", "down"}, timer : HeapTimers, hole : Nat]
    /\ ListDelays \subseteq Nat /\ HeapDelays \subseteq Nat
    /\ Capacity \in Nat \ {0}
    /\ ListMaxTime \in Nat /\ HeapMaxTime \in Nat

VARIABLES container,                   \* "list", "heap" or "wheel": what is used
          now, live, expire, cur,      \* the clock, the timers and tick()
          lst, adding,                 \* the list
          cancelled, array, capacity, cur_size, build, moving   \* the heap

listVars == <<lst, adding>>

heapVars == <<cancelled, array, capacity, cur_size, build, moving>>

clockVars == <<now, live, expire, cur>>

vars == <<container, now, live, expire, cur, listVars, heapVars, wheelVars>>

L == INSTANCE SortTimerList WITH
        Timers <- ListTimers, Delays <- ListDelays, MaxTime <- ListMaxTime

H == INSTANCE TimeHeap WITH
        Timers <- HeapTimers, Delays <- HeapDelays, MaxTime <- HeapMaxTime

NoList == lst = NULL /\ adding = NULL

NoHeap ==
    /\ cancelled = {} /\ array = <<>> /\ capacity = 0 /\ cur_size = 0
    /\ build = -1 /\ moving = NULL

Init ==
    /\ \/ container = "list" /\ L!Init /\ NoHeap
       \/ container = "heap" /\ H!Init /\ NoList
       \/ /\ container = "wheel" /\ NoList /\ NoHeap
          /\ now = 0 /\ live = {} /\ expire = <<>> /\ cur = NULL
    /\ WheelInit

ListStep ==
    /\ container = "list" /\ L!Next
    /\ UNCHANGED <<container, heapVars, wheelVars>>

HeapStep ==
    /\ container = "heap" /\ H!Next
    /\ UNCHANGED <<container, listVars, wheelVars>>

WheelStep ==
    /\ container = "wheel" /\ WheelNext
    /\ UNCHANGED <<container, clockVars, listVars, heapVars>>

Next == ListStep \/ HeapStep \/ WheelStep

Spec == Init /\ [][Next]_vars

-----------------------------------------------------------------------------
(* Properties                                                              *)

\* The list is ascending and well linked; see SortTimerList.
WellLinked == container = "list" => L!WellLinked

\* The heap is in order and holds what is allocated; see TimeHeap.
HeapOrdered == container = "heap" => H!HeapOrdered

\* tick() calls back exactly the timers that are due, earliest first, however
\* the list came to be: sort_timer_lst implements TimerQueue.
ListImplements ==
    /\ container = "list" => L!Queue!QueueInit
    /\ [][container = "list" => L!Queue!QueueNext]_(L!Queue!queueVars)

\* tick() calls back exactly the timers that are due and were not deleted,
\* earliest first: time_heap, lazy deletion included, implements TimerQueue.
HeapImplements ==
    /\ container = "heap" => H!Queue!QueueInit
    /\ [][container = "heap" => H!Queue!QueueNext]_(H!Queue!queueVars)
=============================================================================
