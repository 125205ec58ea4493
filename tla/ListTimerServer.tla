-------------------------- MODULE ListTimerServer --------------------------
(***************************************************************************)
(* list_timer.cpp: an epoll server that closes idle connections.  Signals  *)
(* reach its loop through a pipe (a unified event source), SIGALRM comes   *)
(* every TIMESLOT, every connection has a timer in timer_lst.              *)
(*                                                                         *)
(* All descriptors are edge triggered: an arrival makes a descriptor       *)
(* ready, epoll_wait takes the readiness away, and what a handler does not *)
(* read is not announced again.  timer_lst is used as TimerQueue describes *)
(* it; expire is kept as the time that is left, so that the clock needs no *)
(* bound.  epoll_wait's EINTR changes nothing and is left out.             *)
(***************************************************************************)
EXTENDS Naturals, Sequences, FiniteSets

CONSTANTS MaxFds,    \* bound: connections open or waiting at a time
          Timers,    \* addresses of util_timer objects
          NULL,      \* the null pointer
          TIMESLOT,  \* seconds between two ticks
          MaxRx      \* bound: receive buffers full of unread data

ASSUME ServerAssumption ==
    /\ MaxFds \in Nat \ {0} /\ TIMESLOT \in Nat \ {0} /\ MaxRx \in Nat \ {0}
    /\ NULL \notin Timers /\ NULL \notin 0 .. TIMESLOT

VARIABLES backlog,      \* connections waiting in listenfd's queue
          rx,           \* unread data of a connection, in reads of 63 bytes
          fin,          \* connections whose peer has closed or reset
          open,         \* the descriptors of accepted connections
          ready,        \* descriptors that epoll has news of
          users,        \* users[fd].timer
          live,         \* the timers in timer_lst
          expire,       \* the time each timer has left
          user_data,    \* the descriptor each timer closes
          alarm,        \* the time until SIGALRM, or NULL
          pipe,         \* the signals in pipefd, oldest first
          timeout,      \* timeout
          stop_server,  \* stop_server
          terminated,   \* SIGTERM has been sent
          pc,           \* "wait" in epoll_wait, "loop" over events, "stopped"
          events        \* the events still to be handled in this round

net == <<backlog, rx, fin>>
timers == <<users, live, expire, user_data>>
signals == <<alarm, pipe, terminated>>
flags == <<timeout, stop_server>>
vars == <<net, open, ready, timers, signals, flags, pc, events>>

Fds == 1 .. MaxFds
listenfd == MaxFds + 1
pipefd == MaxFds + 2
Idle == 3 * TIMESLOT

Init ==
    /\ backlog = 0 /\ rx = [f \in Fds |-> 0] /\ fin = {}
    /\ open = {} /\ ready = {}
    /\ users = [f \in Fds |-> NULL] /\ live = {}
    /\ expire = [t \in Timers |-> 0] /\ user_data = [t \in Timers |-> 1]
    /\ alarm = TIMESLOT /\ pipe = <<>> /\ terminated = FALSE
    /\ timeout = FALSE /\ stop_server = FALSE
    /\ pc = "wait" /\ events = {}

Running == pc # "stopped"

-----------------------------------------------------------------------------
(* Clients, clock and signals.                                             *)

Connect ==
    /\ Running /\ backlog + Cardinality(open) < MaxFds
    /\ backlog' = backlog + 1
    /\ ready' = ready \cup {listenfd}
    /\ UNCHANGED <<rx, fin, open, timers, signals, flags, pc, events>>

ClientData(f) ==
    /\ Running /\ f \in open \ fin /\ rx[f] < MaxRx
    /\ rx' = [rx EXCEPT ![f] = @ + 1]
    /\ ready' = ready \cup {f}
    /\ UNCHANGED <<backlog, fin, open, timers, signals, flags, pc, events>>

\* The peer closes, after its data, or resets the connection and its data.
ClientClose(f) ==
    /\ Running /\ f \in open \ fin
    /\ fin' = fin \cup {f}
    /\ rx' \in {rx, [rx EXCEPT ![f] = 0]}
    /\ ready' = ready \cup {f}
    /\ UNCHANGED <<backlog, open, timers, signals, flags, pc, events>>

\* A second passes.
Time ==
    /\ Running
    /\ expire' = [t \in Timers |-> IF expire[t] > 0 THEN expire[t] - 1 ELSE 0]
    /\ alarm' = IF alarm \in {NULL, 0} THEN alarm ELSE alarm - 1
    /\ UNCHANGED <<net, open, ready, users, live, user_data, pipe, terminated,
                   flags, pc, events>>

\* sig_handler writes the signal's number to the pipe.
Signal(sig) ==
    /\ Running
    /\ pipe' = Append(pipe, sig)
    /\ ready' = ready \cup {pipefd}
    /\ UNCHANGED <<net, open, timers, flags, pc, events>>

SigAlrm ==
    /\ alarm = 0
    /\ alarm' = NULL
    /\ Signal("SIGALRM")
    /\ UNCHANGED terminated

SigTerm ==
    /\ ~terminated
    /\ terminated' = TRUE
    /\ Signal("SIGTERM")
    /\ UNCHANGED alarm

-----------------------------------------------------------------------------
(* The loop of main.                                                       *)

Readable(f) ==
    CASE f = listenfd -> backlog > 0
      [] f = pipefd -> pipe # <<>>
      [] OTHER -> rx[f] > 0 \/ f \in fin

\* epoll_wait returns the news and forgets it.
EpollWait ==
    LET news == {f \in ready : Readable(f)}
    IN  /\ pc = "wait" /\ news # {}
        /\ events' = news
        /\ ready' = {}
        /\ pc' = "loop"
        /\ UNCHANGED <<net, open, timers, signals, flags>>

Lowest(S) == CHOOSE f \in S : \A g \in S : f <= g

\* accept takes one connection, on the lowest free descriptor, and a new timer
\* is bound to it.
Accept ==
    LET connfd == Lowest(Fds \ open)
    IN  /\ pc = "loop" /\ listenfd \in events
        /\ backlog' = backlog - 1
        /\ open' = open \cup {connfd}
        /\ \E t \in Timers \ live :
              /\ users' = [users EXCEPT ![connfd] = t]
              /\ live' = live \cup {t}
              /\ expire' = [expire EXCEPT ![t] = Idle]
              /\ user_data' = [user_data EXCEPT ![t] = connfd]
        /\ events' = events \ {listenfd}
        /\ UNCHANGED <<rx, fin, ready, signals, flags, pc>>

\* Slip: only the first signal that was read is looked at.
HandleFirstSignal ==
    /\ pc = "loop" /\ pipefd \in events
    /\ timeout' = (timeout \/ Head(pipe) = "SIGALRM")
    /\ stop_server' = (stop_server \/ Head(pipe) = "SIGTERM")
    /\ pipe' = <<>>
    /\ events' = events \ {pipefd}
    /\ UNCHANGED <<net, open, ready, timers, alarm, terminated, pc>>

\* Slip: one signal is read for each event.
HandleOneSignal ==
    /\ pc = "loop" /\ pipefd \in events
    /\ timeout' = (timeout \/ Head(pipe) = "SIGALRM")
    /\ stop_server' = (stop_server \/ Head(pipe) = "SIGTERM")
    /\ pipe' = Tail(pipe)
    /\ events' = events \ {pipefd}
    /\ UNCHANGED <<net, open, ready, timers, alarm, terminated, pc>>

Received(sig) == \E i \in 1 .. Len(pipe) : pipe[i] = sig

\* The signals that have come are read and noted.
HandleSignals ==
    /\ pc = "loop" /\ pipefd \in events
    /\ timeout' = (timeout \/ Received("SIGALRM"))
    /\ stop_server' = (stop_server \/ Received("SIGTERM"))
    /\ pipe' = <<>>
    /\ events' = events \ {pipefd}
    /\ UNCHANGED <<net, open, ready, timers, alarm, terminated, pc>>

\* cb_func closes the descriptors F, which epoll then forgets: epoll_ctl works
\* on the global epollfd, which is not the one in use, and fails.  What was not
\* read is gone.
Close(F) ==
    /\ open' = open \ F
    /\ ready' = ready \ F
    /\ fin' = fin \ F
    /\ rx' = [f \in Fds |-> IF f \in F THEN 0 ELSE rx[f]]
    /\ UNCHANGED backlog

\* delete, of timers whose memory nobody is to read again.
Delete(T) ==
    /\ live' = live \ T
    /\ expire' = [t \in Timers |-> IF t \in T THEN 0 ELSE expire[t]]
    /\ UNCHANGED <<users, user_data>>

\* recv returns up to 63 bytes: the timer is postponed.
HandleData(f) ==
    /\ pc = "loop" /\ f \in events \cap Fds /\ rx[f] > 0
    /\ rx' = [rx EXCEPT ![f] = @ - 1]
    /\ expire' = [expire EXCEPT ![users[f]] = Idle]
    /\ events' = events \ {f}
    /\ UNCHANGED <<backlog, fin, open, ready, users, live, user_data, signals,
                   flags, pc>>

\* Slip: the connection is closed and its timer is left in the list.
HandleCloseNoDel(f) ==
    /\ pc = "loop" /\ f \in events \cap Fds /\ rx[f] = 0
    /\ Close({f})
    /\ events' = events \ {f}
    /\ UNCHANGED <<timers, signals, flags, pc>>

\* recv returns 0 or an error: cb_func and del_timer.
HandleClose(f) ==
    /\ pc = "loop" /\ f \in events \cap Fds /\ rx[f] = 0
    /\ Close({f})
    /\ Delete({users[f]})
    /\ events' = events \ {f}
    /\ UNCHANGED <<signals, flags, pc>>

\* timer_lst.tick()
Tick ==
    LET due == {t \in live : expire[t] = 0}
    IN  /\ Close({user_data[t] : t \in due})
        /\ Delete(due)

EndOfRound == pc' = IF stop_server THEN "stopped" ELSE "wait"

\* Slip: timers are handled as soon as the signal is read.
TimerHandlerAtOnce ==
    /\ pc = "loop" /\ timeout
    /\ Tick
    /\ alarm' = TIMESLOT
    /\ timeout' = FALSE
    /\ pc' = IF events # {} THEN pc ELSE IF stop_server THEN "stopped" ELSE "wait"
    /\ UNCHANGED <<pipe, terminated, stop_server, events>>

\* Slip: no new alarm when the list has run empty.
TimerHandlerLazy ==
    /\ pc = "loop" /\ events = {} /\ timeout
    /\ Tick
    /\ alarm' = IF live' = {} THEN NULL ELSE TIMESLOT
    /\ timeout' = FALSE
    /\ EndOfRound
    /\ UNCHANGED <<pipe, terminated, stop_server, events>>

\* The round is over and a SIGALRM has come: timer_handler ticks and sets the
\* next alarm.
TimerHandler ==
    /\ pc = "loop" /\ events = {} /\ timeout
    /\ Tick
    /\ alarm' = TIMESLOT
    /\ timeout' = FALSE
    /\ EndOfRound
    /\ UNCHANGED <<pipe, terminated, stop_server, events>>

NoTimeout ==
    /\ pc = "loop" /\ events = {} /\ ~timeout
    /\ EndOfRound
    /\ UNCHANGED <<net, open, ready, timers, signals, flags, events>>

-----------------------------------------------------------------------------

Main ==
    \/ EpollWait \/ Accept \/ HandleSignals \/ TimerHandler \/ NoTimeout
    \/ \E f \in Fds : HandleData(f) \/ HandleClose(f)

Next ==
    \/ Connect \/ Time \/ SigAlrm \/ SigTerm \/ Main
    \/ \E f \in Fds : ClientData(f) \/ ClientClose(f)

Spec == Init /\ [][Next]_vars

\* The process runs, time passes and an alarm that has run out is delivered.
\* Clients, and whoever might send SIGTERM, need not do anything.
FairSpec == Spec /\ WF_vars(Main) /\ WF_vars(Time) /\ WF_vars(SigAlrm)

-----------------------------------------------------------------------------
(* Properties                                                              *)

\* Types; no timer is set further ahead than three time slots.
TypeOK ==
    /\ backlog \in Nat /\ rx \in [Fds -> Nat] /\ fin \subseteq Fds
    /\ open \subseteq Fds
    /\ ready \subseteq Fds \cup {listenfd, pipefd}
    /\ users \in [Fds -> Timers \cup {NULL}]
    /\ live \subseteq Timers
    /\ expire \in [Timers -> 0 .. Idle] /\ user_data \in [Timers -> Fds]
    /\ alarm \in 0 .. TIMESLOT \cup {NULL}
    /\ pipe \in Seq({"SIGALRM", "SIGTERM"})
    /\ timeout \in BOOLEAN /\ stop_server \in BOOLEAN /\ terminated \in BOOLEAN
    /\ pc \in {"wait", "loop", "stopped"}
    /\ events \subseteq Fds \cup {listenfd, pipefd}

\* Connections and timers are paired: users[fd].timer of an open connection is
\* a timer of the list that closes that connection, and the list holds no
\* other, although both descriptors and addresses are used again.
OneTimerPerConnection ==
    /\ \A f \in open : users[f] \in live /\ user_data[users[f]] = f
    /\ \A t \in live : user_data[t] \in open /\ users[user_data[t]] = t

\* No event of a round is handled for a descriptor that was closed in it, by
\* its own handler or by a timer: list_timer.cpp:170 puts the timers off to the
\* end of the round, and an fd that accept hands out again has no old event.
EventsAreFresh ==
    \A f \in events \cap Fds : f \in open /\ (rx[f] > 0 \/ f \in fin)

\* 1 if p holds.
Count(p) == IF p THEN 1 ELSE 0

\* Where SIGALRM stands in a pipe.
Alarms(p) == {k \in 1 .. Len(p) : p[k] = "SIGALRM"}

\* list_timer.cpp:63, one alarm causes one SIGALRM: while the server runs,
\* exactly one of a set alarm, a SIGALRM in the pipe and a noted timeout exists,
\* so that ticks neither stop nor multiply.
Heartbeat ==
    Running =>
        Count(alarm # NULL) + Count(timeout) + Cardinality(Alarms(pipe)) = 1

\* Edge triggering never hides a signal: whatever is in the pipe when the loop
\* goes to epoll_wait is news to it.
SignalsAnnounced == pc = "wait" /\ pipe # <<>> => pipefd \in ready

\* A connection stays open only as long as its client keeps sending; even one
\* whose end of stream went unseen behind unread data is closed by its timer.
SilentClosed ==
    \A f \in Fds : \/ []<>(f \notin open) \/ <>(pc = "stopped")
                   \/ []<><<ClientData(f)>>_vars

\* SIGTERM ends the loop, whatever else is going on.
StopsOnTerm == terminated ~> pc = "stopped"
=============================================================================
