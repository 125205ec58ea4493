--------------------------- MODULE SortTimerList ---------------------------
(***************************************************************************)
(* list_timer.h: sort_timer_lst, an ascending doubly linked list of timers *)
(* that the program itself has allocated and keeps pointers to.            *)
(*                                                                         *)
(* Timers are addresses: a deleted one may be allocated again, and its     *)
(* fields keep what they held until then.  The loops of tick(), which      *)
(* reads the time once, before the callbacks, and of the private add_timer *)
(* are a step per iteration.                                               *)
(***************************************************************************)
EXTENDS Naturals

CONSTANTS Timers,   \* addresses of util_timer objects
          NULL,     \* the null pointer
          Delays,   \* how far ahead of time(NULL) the program sets expire
          MaxTime   \* bound: the last value of time(NULL)

VARIABLES now,     \* time(NULL)
          live,    \* the timers that are allocated
          lst,     \* head and tail, and prev and next of every timer
          expire,  \* expire of every timer
          adding,  \* timer and prev of the private add_timer under way, or NULL
          cur      \* cur of the tick() under way, or NULL

vars == <<now, live, lst, expire, adding, cur>>

Init ==
    /\ now = 0
    /\ live = {}
    /\ lst = [head |-> NULL, tail |-> NULL,
              prev |-> [t \in Timers |-> NULL], next |-> [t \in Timers |-> NULL]]
    /\ expire = [t \in Timers |-> 0]
    /\ adding = NULL /\ cur = NULL

Advance ==
    /\ now < MaxTime
    /\ now' = now + 1
    /\ UNCHANGED <<live, lst, expire, adding, cur>>

\* The program calls nothing while a call is under way.
Ready == adding = NULL /\ cur = NULL

\* new util_timer, its expire, and add_timer.
AddTimer(t, d) ==
    LET x == [expire EXCEPT ![t] = now + d]
        l == [lst EXCEPT !.prev[t] = NULL, !.next[t] = NULL]
    IN  /\ Ready /\ t \notin live
        /\ live' = live \cup {t}
        /\ expire' = x
        /\ \/ /\ l.head = NULL
              /\ lst' = [l EXCEPT !.head = t, !.tail = t]
              /\ UNCHANGED adding
           \/ /\ l.head # NULL /\ x[t] < x[l.head]
              /\ lst' = [l EXCEPT !.next[t] = l.head, !.prev[l.head] = t,
                                  !.head = t]
              /\ UNCHANGED adding
           \/ /\ l.head # NULL /\ x[t] >= x[l.head]
              /\ lst' = l
              /\ adding' = [timer |-> t, prev |-> l.head]
        /\ UNCHANGED <<now, cur>>

\* The program postpones expire and calls adjust_timer: a timer that has to
\* move is taken out and goes into the part of the list behind its successor.
AdjustTimer(t, d) ==
    LET x == [expire EXCEPT ![t] = now + d]
        n == lst.next[t]
        p == lst.prev[t]
    IN  /\ Ready /\ t \in live
        /\ now + d >= expire[t]
        /\ expire' = x
        /\ IF n = NULL \/ x[t] < x[n] THEN UNCHANGED <<lst, adding>>
           ELSE /\ lst' = IF t = lst.head
                          THEN [lst EXCEPT !.head = n, !.prev[n] = NULL,
                                           !.next[t] = NULL]
                          ELSE [lst EXCEPT !.next[p] = n, !.prev[n] = p]
                /\ adding' = [timer |-> t, prev |-> n]
        /\ UNCHANGED <<now, live, cur>>

\* The loop of the private add_timer goes past a timer that is not later.
AddWalk ==
    /\ adding # NULL
    /\ LET n == lst.next[adding.prev]
       IN  /\ n # NULL /\ expire[adding.timer] >= expire[n]
           /\ adding' = [adding EXCEPT !.prev = n]
    /\ UNCHANGED <<now, live, lst, expire, cur>>

\* Slip: a timer appended to the list does not become its tail.
AddLinkNoTail ==
    /\ adding # NULL
    /\ LET t == adding.timer
           p == adding.prev
           n == lst.next[p]
       IN  /\ n # NULL => expire[t] < expire[n]
           /\ lst' = [lst EXCEPT
                         !.next = [@ EXCEPT ![p] = t, ![t] = n],
                         !.prev = [u \in Timers |-> IF u = t THEN p
                                                    ELSE IF u = n THEN t ELSE @[u]]]
    /\ adding' = NULL
    /\ UNCHANGED <<now, live, expire, cur>>

\* It has met a later timer, or the end of the list, and links in its own.
AddLink ==
    /\ adding # NULL
    /\ LET t == adding.timer
           p == adding.prev
           n == lst.next[p]
       IN  /\ n # NULL => expire[t] < expire[n]
           /\ lst' = [lst EXCEPT
                         !.tail = IF n = NULL THEN t ELSE @,
                         !.next = [@ EXCEPT ![p] = t, ![t] = n],
                         !.prev = [u \in Timers |-> IF u = t THEN p
                                                    ELSE IF u = n THEN t ELSE @[u]]]
    /\ adding' = NULL
    /\ UNCHANGED <<now, live, expire, cur>>

\* del_timer: the only node, the head, the tail, or one between two others.
DelTimer(t) ==
    LET n == lst.next[t]
        p == lst.prev[t]
    IN  /\ Ready /\ t \in live
        /\ lst' = IF t = lst.head /\ t = lst.tail
                  THEN [lst EXCEPT !.head = NULL, !.tail = NULL]
                  ELSE IF t = lst.head
                       THEN [lst EXCEPT !.head = n, !.prev[n] = NULL]
                  ELSE IF t = lst.tail
                       THEN [lst EXCEPT !.tail = p, !.next[p] = NULL]
                  ELSE [lst EXCEPT !.next[p] = n, !.prev[n] = p]
        /\ live' = live \ {t}
        /\ UNCHANGED <<now, expire, adding, cur>>

\* tick() with a timer in the list reads the time.
TickBegin ==
    /\ Ready /\ lst.head # NULL
    /\ cur' = now
    /\ UNCHANGED <<now, live, lst, expire, adding>>

\* The head has expired: its callback, and it is unlinked and deleted.  tail
\* keeps pointing to the last timer when that is the one deleted.
TickFire ==
    LET h == lst.head
        n == lst.next[h]
    IN  /\ cur # NULL /\ h # NULL
        /\ cur >= expire[h]
        /\ lst' = [lst EXCEPT !.head = n,
                              !.prev = [u \in Timers |-> IF u = n THEN NULL
                                                         ELSE @[u]]]
        /\ live' = live \ {h}
        /\ UNCHANGED <<now, expire, adding, cur>>

\* Slip: one timer is handled per tick().
TickEndEarly ==
    /\ cur # NULL
    /\ cur' = NULL
    /\ UNCHANGED <<now, live, lst, expire, adding>>

\* The list is empty, or its head is not due yet.
TickEnd ==
    /\ cur # NULL
    /\ lst.head # NULL => cur < expire[lst.head]
    /\ cur' = NULL
    /\ UNCHANGED <<now, live, lst, expire, adding>>

Next ==
    \/ Advance
    \/ \E t \in Timers : DelTimer(t)
    \/ \E t \in Timers, d \in Delays : AddTimer(t, d) \/ AdjustTimer(t, d)
    \/ AddWalk \/ AddLink
    \/ TickBegin \/ TickFire \/ TickEnd

Spec == Init /\ [][Next]_vars

-----------------------------------------------------------------------------
(* Properties                                                              *)

\* list_timer.h:39, an ascending doubly linked list with head and tail, whatever
\* was added, moved, deleted and expired before: prev undoes next, no pointer
\* of the list leads to a deleted timer or to one that is still to be linked
\* in, and expire never descends.  Only an empty list has a tail that dangles.
WellLinked ==
    LET Linked == live \ (IF adding = NULL THEN {} ELSE {adding.timer}) IN
    /\ lst.head = NULL <=> Linked = {}
    /\ Linked # {} => lst.head \in Linked /\ lst.tail \in Linked
    /\ \A t \in Linked :
          /\ lst.prev[t] = NULL <=> t = lst.head
          /\ lst.next[t] = NULL <=> t = lst.tail
          /\ lst.next[t] # NULL =>
                /\ lst.next[t] \in Linked
                /\ lst.prev[lst.next[t]] = t
                /\ expire[t] <= expire[lst.next[t]]

Queue == INSTANCE TimerQueue WITH
            deadline <- [t \in Timers |-> IF t \in live THEN expire[t] ELSE NULL]
=============================================================================
