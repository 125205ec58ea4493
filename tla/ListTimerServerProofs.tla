----------------------- MODULE ListTimerServerProofs -----------------------
(***************************************************************************)
(* Proofs about ListTimerServer, for any number of descriptors and timers: *)
(* timers and connections are paired, no event of a round is stale, signals*)
(* in the pipe are announced, and the heartbeat neither stops nor doubles. *)
(***************************************************************************)
EXTENDS ListTimerServer, FiniteSetTheorems, WellFoundedInduction, TLAPS

-----------------------------------------------------------------------------
(* The inductive invariant                                                 *)

\* The connections that wait find a descriptor, and accept() finds them.
Room ==
    /\ backlog + Cardinality(open) <= MaxFds
    /\ listenfd \in events => backlog > 0

\* epoll knows open descriptors only, and a round's events are still news.
Fresh ==
    /\ ready \cap Fds \subseteq open
    /\ EventsAreFresh
    /\ events # {} => pc = "loop"

\* A signal in the pipe is news to epoll or an event of the round.
Announced == pipe # <<>> => pipefd \in ready \/ pipefd \in events

\* The beat is in exactly one place: the alarm, the pipe or the flag.
Beat ==
    Running =>
        \/ alarm # NULL /\ ~timeout /\ Alarms(pipe) = {}
        \/ alarm = NULL /\ timeout /\ Alarms(pipe) = {}
        \/ alarm = NULL /\ ~timeout /\ \E k \in Nat : Alarms(pipe) = {k}

Inv ==
    /\ TypeOK /\ Room /\ OneTimerPerConnection /\ Fresh /\ Announced /\ Beat

-----------------------------------------------------------------------------
(* Finite sets of descriptors                                              *)

LEMMA FdsAreNumbers ==
    /\ Fds \subseteq Nat /\ MaxFds \in Nat
    /\ listenfd \notin Fds /\ pipefd \notin Fds /\ listenfd # pipefd
    /\ \A f \in Fds : f # listenfd /\ f # pipefd
BY ServerAssumption DEF Fds, listenfd, pipefd

LEMMA FiniteFds ==
    ASSUME NEW S, S \subseteq Fds
    PROVE  /\ IsFiniteSet(S) /\ Cardinality(S) \in Nat
           /\ Cardinality(S) <= MaxFds
           /\ Cardinality(S) = MaxFds => S = Fds
<1>1. MaxFds \in Nat /\ MaxFds >= 1
  BY ServerAssumption
<1>2. IsFiniteSet(Fds) /\ Cardinality(Fds) = MaxFds
  BY <1>1, FS_Interval DEF Fds
<1>3. /\ IsFiniteSet(S) /\ Cardinality(S) <= Cardinality(Fds)
      /\ Cardinality(S) = Cardinality(Fds) => S = Fds
  BY <1>2, FS_Subset
<1>4. Cardinality(S) \in Nat
  BY <1>3, FS_CardinalityType
<1> QED
  BY <1>2, <1>3, <1>4

\* Every set of numbers that is not empty has a least element.
LEMMA Least ==
    ASSUME NEW S, S \subseteq Nat, S # {}
    PROVE  \E n \in S : \A m \in S : n <= m
<1> DEFINE R == OpToRel(<, Nat)
<1>1. IsWellFoundedOn(R, Nat)
  BY NatLessThanWellFounded
<1>2. PICK x \in S : \A y \in S : ~(<<y, x>> \in R)
  <2> HIDE DEF R
  <2> QED
    BY <1>1, WFMin
<1>3. \A y \in S : y < x => <<y, x>> \in R
  BY DEF OpToRel
<1>4. \A y \in S : x \in Nat /\ y \in Nat /\ ~(y < x)
  BY <1>2, <1>3, Zenon
<1> HIDE DEF R
<1> QED
  BY <1>4

\* The descriptor accept() returns is free.
LEMMA LowestIsFree ==
    ASSUME NEW S, S \subseteq Fds, S # {}
    PROVE  Lowest(S) \in S
<1>1. \E f \in S : \A g \in S : f <= g
  BY Least, FdsAreNumbers
<1> QED
  BY <1>1 DEF Lowest

\* accept() has a connection to take and a descriptor for it.
LEMMA AcceptRoom ==
    ASSUME TypeOK, Room, Accept
    PROVE  /\ Lowest(Fds \ open) \in Fds \ open
           /\ backlog \in Nat \ {0}
<1>1. backlog \in Nat /\ backlog > 0 /\ open \subseteq Fds
  BY DEF TypeOK, Room, Accept
<1>2. MaxFds \in Nat /\ Cardinality(open) \in Nat
  BY <1>1, FiniteFds, FdsAreNumbers
<1>3. Cardinality(open) < MaxFds
  BY <1>1, <1>2 DEF Room
<1>4. Cardinality(Fds) = MaxFds
  BY FS_Interval, <1>2 DEF Fds
<1>5. Fds \ open # {}
  BY <1>1, <1>2, <1>3, <1>4, SMTT(60)
<1> QED
  BY <1>1, <1>5, LowestIsFree

-----------------------------------------------------------------------------
(* Types                                                                   *)

LEMMA InitType == Init => TypeOK
<1> SUFFICES ASSUME Init PROVE TypeOK
  OBVIOUS
<1>1. 1 \in Fds /\ 0 \in 0 .. Idle /\ TIMESLOT \in 0 .. TIMESLOT
  BY ServerAssumption DEF Fds, Idle
<1>2. pipe \in Seq({"SIGALRM", "SIGTERM"})
  BY DEF Init
<1> QED
  BY <1>1, <1>2 DEF Init, TypeOK

LEMMA NextType == TypeOK /\ Room /\ [Next]_vars => TypeOK'
<1> SUFFICES ASSUME TypeOK, Room, [Next]_vars PROVE TypeOK'
  OBVIOUS
<1> USE ServerAssumption, FdsAreNumbers DEF TypeOK
<1>0. Idle \in Nat /\ Idle \in 0 .. Idle
  BY DEF Idle
<1>1. CASE Connect
  <2>1. /\ backlog' = backlog + 1 /\ ready' = ready \cup {listenfd}
        /\ UNCHANGED <<rx, fin, open, timers, signals, flags, pc, events>>
    BY <1>1, Zenon DEF Connect
  <2>2. backlog' \in Nat
    BY <2>1
  <2>3. ready' \subseteq Fds \cup {listenfd, pipefd}
    BY <2>1
  <2> QED
    BY <2>1, <2>2, <2>3, Zenon DEF timers, signals, flags
<1>2. CASE \E f \in Fds : ClientData(f) \/ ClientClose(f)
  <2>1. PICK f \in Fds : ClientData(f) \/ ClientClose(f)
    BY <1>2
  <2>2. fin' \subseteq Fds
    BY <2>1 DEF ClientData, ClientClose
  <2>5. rx' \in [Fds -> Nat]
    <3>1. \/ rx' = [rx EXCEPT ![f] = rx[f] + 1] \/ rx' = rx
          \/ rx' = [rx EXCEPT ![f] = 0]
      BY <2>1 DEF ClientData, ClientClose
    <3> QED
      BY <3>1
  <2>3. ready' \subseteq Fds \cup {listenfd, pipefd}
    BY <2>1 DEF ClientData, ClientClose
  <2>4. UNCHANGED <<backlog, open, timers, signals, flags, pc, events>>
    BY <2>1, Zenon DEF ClientData, ClientClose
  <2> QED
    BY <2>2, <2>3, <2>4, <2>5 DEF timers, signals, flags
<1>3. CASE Time
  <2>1. expire' \in [Timers -> 0 .. Idle]
    BY <1>0, <1>3 DEF Time
  <2>2. alarm' \in 0 .. TIMESLOT \cup {NULL}
    BY <1>3 DEF Time
  <2> QED
    BY <1>3, <2>1, <2>2 DEF Time, net, flags
<1>4. CASE SigAlrm
  <2>1. pipe' \in Seq({"SIGALRM", "SIGTERM"})
    BY <1>4 DEF SigAlrm, Signal
  <2>2. ready' \subseteq Fds \cup {listenfd, pipefd}
    BY <1>4 DEF SigAlrm, Signal
  <2>3. /\ alarm' \in {alarm, NULL} /\ terminated' \in {terminated, TRUE}
        /\ UNCHANGED <<net, open, timers, flags, pc, events>>
    BY <1>4, Zenon DEF SigAlrm, Signal
  <2> QED
    BY <2>1, <2>2, <2>3 DEF net, timers, flags
<1>5. CASE SigTerm
  <2>1. pipe' \in Seq({"SIGALRM", "SIGTERM"})
    BY <1>5 DEF SigTerm, Signal
  <2>2. ready' \subseteq Fds \cup {listenfd, pipefd}
    BY <1>5 DEF SigTerm, Signal
  <2>3. /\ alarm' \in {alarm, NULL} /\ terminated' \in {terminated, TRUE}
        /\ UNCHANGED <<net, open, timers, flags, pc, events>>
    BY <1>5, Zenon DEF SigTerm, Signal
  <2> QED
    BY <2>1, <2>2, <2>3 DEF net, timers, flags
<1>6. CASE EpollWait
  BY <1>6 DEF EpollWait, net, timers, signals, flags
<1>7. CASE Accept
  <2>1. Lowest(Fds \ open) \in Fds /\ backlog - 1 \in Nat
    BY <1>7, AcceptRoom
  <2>2. PICK t \in Timers \ live :
              /\ users' = [users EXCEPT ![Lowest(Fds \ open)] = t]
              /\ live' = live \cup {t}
              /\ expire' = [expire EXCEPT ![t] = Idle]
              /\ user_data' = [user_data EXCEPT ![t] = Lowest(Fds \ open)]
    BY <1>7 DEF Accept
  <2>3. /\ users' \in [Fds -> Timers \cup {NULL}] /\ live' \subseteq Timers
        /\ expire' \in [Timers -> 0 .. Idle] /\ user_data' \in [Timers -> Fds]
    BY <1>0, <2>1, <2>2
  <2>4. /\ backlog' = backlog - 1 /\ open' = open \cup {Lowest(Fds \ open)}
        /\ events' = events \ {listenfd}
        /\ UNCHANGED <<rx, fin, ready, signals, flags, pc>>
    BY <1>7, Zenon DEF Accept
  <2> QED
    BY <2>1, <2>3, <2>4 DEF signals, flags
<1>8. CASE HandleSignals
  BY <1>8 DEF HandleSignals, Received, net, timers
<1>9. CASE \E f \in Fds : HandleData(f)
  <2>1. PICK f \in Fds : HandleData(f)
    BY <1>9
  <2>2. rx' \in [Fds -> Nat]
    BY <2>1 DEF HandleData
  <2>3. expire' \in [Timers -> 0 .. Idle]
    BY <1>0, <2>1 DEF HandleData
  <2>4. /\ events' = events \ {f}
        /\ UNCHANGED <<backlog, fin, open, ready, users, live, user_data,
                       signals, flags, pc>>
    BY <2>1, Zenon DEF HandleData
  <2> QED
    BY <2>2, <2>3, <2>4 DEF signals, flags
<1>10. CASE \E f \in Fds : HandleClose(f)
  BY <1>0, <1>10 DEF HandleClose, Close, Delete, signals, flags
<1>11. CASE TimerHandler
  <2>1. /\ rx' \in [Fds -> Nat] /\ open' \subseteq open
        /\ ready' \subseteq ready /\ fin' \subseteq fin
    BY <1>11 DEF TimerHandler, Tick, Close
  <2>2. live' \subseteq live /\ expire' \in [Timers -> 0 .. Idle]
    BY <1>0, <1>11 DEF TimerHandler, Tick, Delete
  <2>3. /\ UNCHANGED <<backlog, users, user_data, pipe, terminated, stop_server,
                       events>>
        /\ alarm' = TIMESLOT /\ timeout' = FALSE
    BY <1>11, Zenon DEF TimerHandler, Tick, Close, Delete
  <2>5. alarm' \in 0 .. TIMESLOT
    BY <2>3
  <2>4. pc' \in {"wait", "stopped"}
    BY <1>11 DEF TimerHandler, EndOfRound
  <2> QED
    BY <2>1, <2>2, <2>3, <2>4, <2>5
<1>12. CASE NoTimeout
  BY <1>12 DEF NoTimeout, EndOfRound, net, timers, signals, flags
<1>13. CASE UNCHANGED vars
  BY <1>13 DEF vars, net, timers, signals, flags
<1> QED
  BY <1>1, <1>2, <1>3, <1>4, <1>5, <1>6, <1>7, <1>8, <1>9, <1>10, <1>11, <1>12,
     <1>13 DEF Next, Main

-----------------------------------------------------------------------------
(* Room                                                                    *)

LEMMA InitRoom == Init => Room
<1> SUFFICES ASSUME Init PROVE Room
  OBVIOUS
<1>1. backlog = 0 /\ open = {} /\ events = {}
  BY DEF Init
<1>2. Cardinality(open) = 0
  BY <1>1, FS_EmptySet
<1> QED
  BY <1>1, <1>2, ServerAssumption DEF Room

LEMMA NextRoom == TypeOK /\ Room /\ [Next]_vars => Room'
<1> SUFFICES ASSUME TypeOK, Room, [Next]_vars PROVE Room'
  OBVIOUS
<1>0. /\ backlog \in Nat /\ open \subseteq Fds /\ MaxFds \in Nat
      /\ IsFiniteSet(open) /\ Cardinality(open) \in Nat
  BY FiniteFds, FdsAreNumbers DEF TypeOK
<1>1. ASSUME backlog' = backlog, open' \subseteq open,
             listenfd \in events' => backlog > 0
      PROVE  Room'
  <2>1. /\ Cardinality(open') <= Cardinality(open)
        /\ Cardinality(open') \in Nat
    BY <1>0, <1>1, FS_Subset, FS_CardinalityType
  <2> QED
    BY <1>0, <1>1, <2>1 DEF Room, listenfd
<1>2. CASE Connect
  <2>1. /\ backlog + Cardinality(open) < MaxFds /\ backlog' = backlog + 1
        /\ open' = open /\ events' = events
    BY <1>2 DEF Connect
  <2> QED
    BY <1>0, <2>1 DEF Room
<1>3. CASE Accept
  <2> DEFINE c == Lowest(Fds \ open)
  <2>1. c \in Fds \ open /\ backlog \in Nat \ {0}
    BY <1>3, AcceptRoom
  <2>2. /\ backlog' = backlog - 1 /\ open' = open \cup {c}
        /\ listenfd \notin events'
    BY <1>3 DEF Accept
  <2> HIDE DEF c
  <2>3. Cardinality(open') = Cardinality(open) + 1
    BY <1>0, <2>1, <2>2, FS_AddElement
  <2>4. backlog' + Cardinality(open') <= MaxFds
    BY <1>0, <2>1, <2>2, <2>3 DEF Room
  <2> QED
    BY <2>2, <2>4 DEF Room, listenfd
<1>4. CASE EpollWait
  <2>1. /\ events' = {f \in ready : Readable(f)}
        /\ UNCHANGED <<backlog, open>>
    BY <1>4 DEF EpollWait, net
  <2>2. Readable(listenfd) => backlog > 0
    BY FdsAreNumbers DEF Readable
  <2> QED
    BY <1>1, <2>1, <2>2
<1>5. CASE HandleSignals \/ \E f \in Fds : HandleData(f) \/ HandleClose(f)
  <2>1. /\ backlog' = backlog /\ open' \subseteq open
        /\ events' \subseteq events
    BY <1>5 DEF HandleSignals, HandleData, HandleClose, Close, net
  <2> QED
    BY <1>1, <2>1 DEF Room
<1>6. CASE \/ TimerHandler \/ NoTimeout \/ Time \/ SigAlrm \/ SigTerm
           \/ \E f \in Fds : ClientData(f) \/ ClientClose(f)
           \/ UNCHANGED vars
  <2>1. backlog' = backlog /\ open' \subseteq open /\ events' = events
    BY <1>6
    DEF TimerHandler, Tick, Close, NoTimeout, Time, SigAlrm, SigTerm, Signal,
        ClientData, ClientClose, vars, net
  <2> QED
    BY <1>1, <2>1 DEF Room
<1> QED
  BY <1>2, <1>3, <1>4, <1>5, <1>6 DEF Next, Main

-----------------------------------------------------------------------------
(* Connections and timers                                                  *)

LEMMA InitPaired == Init => OneTimerPerConnection
BY DEF Init, OneTimerPerConnection

LEMMA NextPaired ==
    TypeOK /\ Room /\ Fresh /\ OneTimerPerConnection /\ [Next]_vars
      => OneTimerPerConnection'
<1> SUFFICES ASSUME TypeOK, Room, Fresh, OneTimerPerConnection, [Next]_vars
             PROVE  OneTimerPerConnection'
  OBVIOUS
<1>0. /\ open \subseteq Fds /\ users \in [Fds -> Timers \cup {NULL}]
      /\ live \subseteq Timers /\ user_data \in [Timers -> Fds]
  BY DEF TypeOK
\* All that is closed and deleted are pairs.
<1>1. ASSUME NEW F, NEW T, open' = open \ F, live' = live \ T,
             UNCHANGED <<users, user_data>>,
             \A f \in open : f \in F <=> users[f] \in T
      PROVE  OneTimerPerConnection'
  BY <1>0, <1>1 DEF OneTimerPerConnection
<1>2. CASE Accept
  <2> DEFINE c == Lowest(Fds \ open)
  <2>1. c \in Fds \ open
    BY <1>2, AcceptRoom
  <2>2. PICK t \in Timers \ live :
              /\ users' = [users EXCEPT ![c] = t]
              /\ live' = live \cup {t}
              /\ user_data' = [user_data EXCEPT ![t] = c]
    BY <1>2 DEF Accept
  <2>3. open' = open \cup {c}
    BY <1>2 DEF Accept
  <2> HIDE DEF c
  <2> QED
    BY <1>0, <2>1, <2>2, <2>3 DEF OneTimerPerConnection
<1>3. ASSUME NEW f \in Fds, HandleClose(f) PROVE OneTimerPerConnection'
  <2>1. /\ open' = open \ {f} /\ live' = live \ {users[f]}
        /\ UNCHANGED <<users, user_data>> /\ f \in open
    BY <1>3 DEF HandleClose, Close, Delete, Fresh, EventsAreFresh
  <2>2. \A g \in open : g \in {f} <=> users[g] \in {users[f]}
    BY <1>0, <2>1 DEF OneTimerPerConnection
  <2> QED
    BY <1>1, <2>1, <2>2
<1>4. CASE TimerHandler
  <2> DEFINE due == {t \in live : expire[t] = 0}
             F == {user_data[t] : t \in due}
  <2>1. /\ open' = open \ F /\ live' = live \ due
        /\ UNCHANGED <<users, user_data>>
    BY <1>4 DEF TimerHandler, Tick, Close, Delete
  <2>2. \A f \in open : f \in F <=> users[f] \in due
    BY <1>0 DEF OneTimerPerConnection
  <2> HIDE DEF due, F
  <2> QED
    BY <1>1, <2>1, <2>2
<1>5. CASE \/ Connect \/ Time \/ SigAlrm \/ SigTerm \/ EpollWait
           \/ HandleSignals \/ NoTimeout \/ UNCHANGED vars
           \/ \E f \in Fds : ClientData(f) \/ ClientClose(f) \/ HandleData(f)
  <2>1. UNCHANGED <<open, live, users, user_data>>
    BY <1>5
    DEF Connect, Time, SigAlrm, SigTerm, Signal, EpollWait, HandleSignals,
        NoTimeout, vars, ClientData, ClientClose, HandleData, timers
  <2> QED
    BY <2>1 DEF OneTimerPerConnection
<1> QED
  BY <1>2, <1>3, <1>4, <1>5 DEF Next, Main

-----------------------------------------------------------------------------
(* Events                                                                  *)

LEMMA InitFresh == Init => Fresh
BY DEF Init, Fresh, EventsAreFresh

LEMMA NextFresh == TypeOK /\ Fresh /\ [Next]_vars => Fresh'
<1> SUFFICES ASSUME TypeOK, Fresh, [Next]_vars PROVE Fresh'
  OBVIOUS
<1>0. rx \in [Fds -> Nat] /\ open \subseteq Fds
  BY DEF TypeOK
<1> USE FdsAreNumbers DEF Fresh, EventsAreFresh
<1>1. CASE Connect \/ SigAlrm \/ SigTerm
  <2>1. /\ ready' \subseteq ready \cup {listenfd, pipefd}
        /\ UNCHANGED <<rx, fin, open, pc, events>>
    BY <1>1 DEF Connect, SigAlrm, SigTerm, Signal, net
  <2> QED
    BY <2>1
<1>2. ASSUME NEW f \in Fds, ClientData(f) PROVE Fresh'
  <2>1. /\ f \in open /\ rx' = [rx EXCEPT ![f] = rx[f] + 1]
        /\ ready' = ready \cup {f}
        /\ UNCHANGED <<fin, open, pc, events>>
    BY <1>2 DEF ClientData
  <2>2. \A g \in Fds : rx'[g] = rx[g] \/ rx'[g] > 0
    BY <1>0, <2>1
  <2> QED
    BY <2>1, <2>2, Zenon
<1>3. ASSUME NEW f \in Fds, ClientClose(f) PROVE Fresh'
  <2>1. /\ f \in open /\ fin' = fin \cup {f} /\ ready' = ready \cup {f}
        /\ rx' \in {rx, [rx EXCEPT ![f] = 0]}
        /\ UNCHANGED <<open, pc, events>>
    BY <1>3, Zenon DEF ClientClose
  <2>2. \A g \in Fds : rx'[g] = rx[g] \/ g \in fin'
    BY <1>0, <2>1
  <2> QED
    BY <2>1, <2>2, Zenon
<1>4. CASE EpollWait
  BY <1>0, <1>4 DEF EpollWait, Readable, net
<1>5. CASE Accept
  <2>1. /\ open \subseteq open' /\ events' \subseteq events
        /\ UNCHANGED <<rx, fin, ready, pc>>
    BY <1>5 DEF Accept
  <2> QED
    BY <2>1
<1>6. CASE HandleSignals
  BY <1>6 DEF HandleSignals, net
<1>7. ASSUME NEW f \in Fds, HandleData(f) PROVE Fresh'
  <2>1. /\ rx' = [rx EXCEPT ![f] = rx[f] - 1] /\ events' = events \ {f}
        /\ UNCHANGED <<fin, open, ready, pc>>
    BY <1>7 DEF HandleData
  <2>2. \A g \in Fds : g # f => rx'[g] = rx[g]
    BY <1>0, <2>1
  <2> QED
    BY <2>1, <2>2, Zenon
<1>8. ASSUME NEW f \in Fds, HandleClose(f) PROVE Fresh'
  <2>1. /\ open' = open \ {f} /\ ready' = ready \ {f} /\ fin' = fin \ {f}
        /\ rx' = [g \in Fds |-> IF g \in {f} THEN 0 ELSE rx[g]]
        /\ events' = events \ {f} /\ pc' = pc
    BY <1>8 DEF HandleClose, Close
  <2> QED
    BY <1>0, <2>1
<1>9. CASE TimerHandler
  <2>1. PICK F : open' = open \ F /\ ready' = ready \ F
    BY <1>9 DEF TimerHandler, Tick, Close
  <2>2. events' = {}
    BY <1>9 DEF TimerHandler
  <2> QED
    BY <2>1, <2>2
<1>10. CASE NoTimeout \/ Time \/ UNCHANGED vars
  <2>1. UNCHANGED <<ready, open, rx, fin, events>>
    BY <1>10 DEF NoTimeout, Time, vars, net
  <2>2. pc' = pc \/ events = {}
    BY <1>10 DEF NoTimeout, Time, vars
  <2> QED
    BY <2>1, <2>2
<1> QED
  BY <1>1, <1>2, <1>3, <1>4, <1>5, <1>6, <1>7, <1>8, <1>9, <1>10
  DEF Next, Main

-----------------------------------------------------------------------------
(* Signals                                                                 *)

LEMMA InitAnnounced == Init => Announced
BY DEF Init, Announced

LEMMA NextAnnounced == TypeOK /\ Fresh /\ Announced /\ [Next]_vars => Announced'
<1> SUFFICES ASSUME TypeOK, Fresh, Announced, [Next]_vars PROVE Announced'
  OBVIOUS
<1>1. CASE SigAlrm \/ SigTerm
  BY <1>1 DEF SigAlrm, SigTerm, Signal, Announced
<1>2. CASE EpollWait
  <2>1. /\ events' = {f \in ready : Readable(f)} /\ pipe' = pipe
        /\ events = {}
    BY <1>2 DEF EpollWait, signals, Fresh
  <2>2. pipe # <<>> => Readable(pipefd)
    BY FdsAreNumbers DEF Readable
  <2> QED
    BY <2>1, <2>2 DEF Announced
<1>3. CASE HandleSignals
  BY <1>3 DEF HandleSignals, Announced
<1>4. CASE Connect \/ Accept
           \/ \E f \in Fds : ClientData(f) \/ ClientClose(f) \/ HandleData(f)
  <2>1. /\ pipe' = pipe
        /\ pipefd \in ready => pipefd \in ready'
        /\ pipefd \in events => pipefd \in events'
    BY <1>4, FdsAreNumbers
    DEF Connect, Accept, ClientData, ClientClose, HandleData, signals
  <2> QED
    BY <2>1 DEF Announced
<1>5. ASSUME NEW f \in Fds, HandleClose(f) PROVE Announced'
  BY <1>5, FdsAreNumbers DEF HandleClose, Close, signals, Announced
<1>6. CASE TimerHandler
  <2> DEFINE F == {user_data[t] : t \in {t \in live : expire[t] = 0}}
  <2>1. ready' = ready \ F /\ UNCHANGED <<pipe, events>>
    BY <1>6 DEF TimerHandler, Tick, Close
  <2>2. F \subseteq Fds
    BY DEF TypeOK
  <2> HIDE DEF F
  <2> QED
    BY <2>1, <2>2, FdsAreNumbers DEF Announced
<1>7. CASE NoTimeout \/ Time \/ UNCHANGED vars
  <2>1. UNCHANGED <<pipe, ready, events>>
    BY <1>7 DEF NoTimeout, Time, vars, signals
  <2> QED
    BY <2>1 DEF Announced
<1> QED
  BY <1>1, <1>2, <1>3, <1>4, <1>5, <1>6, <1>7 DEF Next, Main

LEMMA AlarmsOfAppend ==
    ASSUME NEW p \in Seq({"SIGALRM", "SIGTERM"}),
           NEW sig \in {"SIGALRM", "SIGTERM"}
    PROVE  Alarms(Append(p, sig)) =
              Alarms(p) \cup (IF sig = "SIGALRM" THEN {Len(p) + 1} ELSE {})
BY DEF Alarms

LEMMA InitBeat == Init => Beat
<1> SUFFICES ASSUME Init PROVE Beat
  OBVIOUS
<1>1. alarm = TIMESLOT /\ pipe = <<>> /\ ~timeout
  BY DEF Init
<1>2. TIMESLOT # NULL
  BY ServerAssumption
<1>3. Alarms(<<>>) = {}
  BY DEF Alarms
<1> QED
  BY <1>1, <1>2, <1>3 DEF Beat

LEMMA NextBeat == TypeOK /\ Beat /\ [Next]_vars => Beat'
<1> SUFFICES ASSUME TypeOK, Beat, [Next]_vars PROVE Beat'
  OBVIOUS
<1>0. /\ alarm \in 0 .. TIMESLOT \cup {NULL} /\ timeout \in BOOLEAN
      /\ pipe \in Seq({"SIGALRM", "SIGTERM"})
  BY DEF TypeOK
<1>1. TIMESLOT \in Nat /\ NULL \notin 0 .. TIMESLOT
  BY ServerAssumption
<1>2. CASE Time
  <2>1. /\ alarm' = IF alarm \in {NULL, 0} THEN alarm ELSE alarm - 1
        /\ UNCHANGED <<pipe, timeout, pc>>
    BY <1>2 DEF Time, flags
  <2>2. alarm' = NULL <=> alarm = NULL
    BY <1>0, <1>1, <2>1
  <2> QED
    BY <2>1, <2>2 DEF Beat, Running
<1>3. CASE SigAlrm
  <2>1. /\ alarm = 0 /\ alarm' = NULL /\ pipe' = Append(pipe, "SIGALRM")
        /\ UNCHANGED <<timeout, pc>> /\ Running
    BY <1>3 DEF SigAlrm, Signal, flags
  <2>2. ~timeout /\ Alarms(pipe) = {}
    BY <1>1, <2>1 DEF Beat
  <2>3. Alarms(pipe') = {Len(pipe) + 1} /\ Len(pipe) + 1 \in Nat
    BY <1>0, <2>1, <2>2, AlarmsOfAppend
  <2> QED
    BY <2>1, <2>2, <2>3, Zenon DEF Beat
<1>4. CASE SigTerm
  <2>1. /\ pipe' = Append(pipe, "SIGTERM") /\ UNCHANGED <<alarm, timeout, pc>>
    BY <1>4 DEF SigTerm, Signal, flags
  <2>2. Alarms(pipe') = Alarms(pipe)
    BY <1>0, <2>1, AlarmsOfAppend
  <2> QED
    BY <2>1, <2>2, Zenon DEF Beat, Running
<1>5. CASE HandleSignals
  <2>1. /\ timeout' = (timeout \/ Received("SIGALRM")) /\ pipe' = <<>>
        /\ UNCHANGED <<alarm, pc>> /\ Running
    BY <1>5 DEF HandleSignals, Running
  <2>2. Received("SIGALRM") <=> Alarms(pipe) # {}
    BY DEF Received, Alarms
  <2>3. Alarms(pipe') = {}
    BY <2>1 DEF Alarms
  <2>4. /\ alarm # NULL => ~timeout /\ Alarms(pipe) = {}
        /\ alarm = NULL => timeout \/ Alarms(pipe) # {}
    BY <2>1, Zenon DEF Beat
  <2>5. timeout' <=> alarm = NULL
    BY <1>0, <2>1, <2>2, <2>4, Zenon
  <2> QED
    BY <2>1, <2>3, <2>5, Zenon DEF Beat
<1>6. CASE TimerHandler
  <2>1. alarm' = TIMESLOT /\ ~timeout' /\ timeout /\ pipe' = pipe /\ Running
    BY <1>6 DEF TimerHandler, Running
  <2>2. Alarms(pipe) = {}
    BY <2>1, Zenon DEF Beat
  <2>3. TIMESLOT # NULL
    BY <1>1
  <2> QED
    BY <2>1, <2>2, <2>3, Zenon DEF Beat
<1>7. CASE NoTimeout
  <2>1. UNCHANGED <<alarm, timeout, pipe>> /\ Running
    BY <1>7 DEF NoTimeout, signals, flags, Running
  <2> QED
    BY <2>1, Zenon DEF Beat
<1>8. CASE \/ Connect \/ Accept \/ EpollWait \/ UNCHANGED vars
           \/ \E f \in Fds : \/ ClientData(f) \/ ClientClose(f)
                             \/ HandleData(f) \/ HandleClose(f)
  <2>1. UNCHANGED <<alarm, timeout, pipe>> /\ (Running' => Running)
    BY <1>8
    DEF Connect, Accept, EpollWait, vars, ClientData, ClientClose, HandleData,
        HandleClose, signals, flags, Running
  <2> QED
    BY <2>1, Zenon DEF Beat
<1> QED
  BY <1>2, <1>3, <1>4, <1>5, <1>6, <1>7, <1>8 DEF Next, Main

-----------------------------------------------------------------------------
(* Theorems                                                                *)

LEMMA Invariant == Spec => []Inv
<1>1. Init => Inv
  BY InitType, InitRoom, InitPaired, InitFresh, InitAnnounced, InitBeat DEF Inv
<1>2. Inv /\ [Next]_vars => Inv'
  BY NextType, NextRoom, NextPaired, NextFresh, NextAnnounced, NextBeat DEF Inv
<1> QED
  BY <1>1, <1>2, PTL DEF Spec

\* Types: in particular accept() always has a connection to take, a counter of
\* which never falls below zero.
THEOREM TypeCorrect == Spec => []TypeOK
<1>1. Inv => TypeOK
  BY DEF Inv
<1> QED
  BY <1>1, Invariant, PTL

\* list_timer.cpp: however descriptors and timer addresses are used again,
\* every open connection has its own timer in the list and every timer of the
\* list closes the connection it was made for.
THEOREM TimersPaired == Spec => []OneTimerPerConnection
<1>1. Inv => OneTimerPerConnection
  BY DEF Inv
<1> QED
  BY <1>1, Invariant, PTL

\* list_timer.cpp:170: no event of a round is handled for a descriptor that the
\* round has closed or handed out again.
THEOREM NoStaleEvents == Spec => []EventsAreFresh
<1>1. Inv => EventsAreFresh
  BY DEF Inv, Fresh
<1> QED
  BY <1>1, Invariant, PTL

\* The pipe of sig_handler: no signal waits unannounced while the loop is in
\* epoll_wait, though the pipe is edge triggered.
THEOREM NoHiddenSignal == Spec => []SignalsAnnounced
<1>1. Inv => SignalsAnnounced
  BY DEF Inv, Fresh, Announced, SignalsAnnounced
<1> QED
  BY <1>1, Invariant, PTL

\* list_timer.cpp:63: exactly one of a set alarm, a SIGALRM in the pipe and a
\* noted timeout exists as long as the server runs.
THEOREM OneHeartbeat == Spec => []Heartbeat
<1>1. Inv => Heartbeat
  <2> SUFFICES ASSUME Inv, Running PROVE Heartbeat
    BY DEF Heartbeat
  <2>1. Alarms(pipe) = {} => Cardinality(Alarms(pipe)) = 0
    BY FS_EmptySet
  <2>2. \A k : Alarms(pipe) = {k} => Cardinality(Alarms(pipe)) = 1
    BY FS_Singleton
  <2>3. \/ alarm # NULL /\ ~timeout /\ Cardinality(Alarms(pipe)) = 0
        \/ alarm = NULL /\ timeout /\ Cardinality(Alarms(pipe)) = 0
        \/ alarm = NULL /\ ~timeout /\ Cardinality(Alarms(pipe)) = 1
    BY <2>1, <2>2, Zenon DEF Inv, Beat
  <2>4. /\ Count(TRUE) = 1 /\ Count(FALSE) = 0
    BY DEF Count
  <2> QED
    BY <2>3, <2>4 DEF Heartbeat, Count
<1> QED
  BY <1>1, Invariant, PTL
=============================================================================
