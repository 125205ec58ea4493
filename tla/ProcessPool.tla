---------------------------- MODULE ProcessPool ----------------------------
(***************************************************************************)
(* processpool<T> of half_sync_half_async.h.  The parent listens and tells *)
(* its children in turn, through a socketpair each, to accept a            *)
(* connection; it reaps the children that end and passes SIGTERM on.       *)
(* Every process is an epoll loop to which signals come through a pipe.    *)
(*                                                                         *)
(* All descriptors are edge triggered: an arrival makes a descriptor       *)
(* ready, epoll_wait takes the readiness away, and what a handler does not *)
(* read is not announced again.  EINTR changes nothing and is left out, as *)
(* is what T does with a connection.                                       *)
(***************************************************************************)
EXTENDS Integers, Sequences, FiniteSets, FiniteSetsExt

CONSTANTS N,           \* m_process_number
          PipeCap,     \* notifications that fit into a child's socketpair
          EarlyDeath,  \* may a child die before the parent handles SIGCHLD?
          MaxConns,    \* bound: connections that arrive
          MaxCrashes   \* bound: children that die of their own

ASSUME PoolAssumption ==
    /\ N \in Nat \ {0} /\ PipeCap \in Nat \ {0} /\ EarlyDeath \in BOOLEAN
    /\ MaxConns \in Nat /\ MaxCrashes \in Nat

Children == 0 .. N - 1

VARIABLES backlog,      \* connections waiting in m_listenfd's queue
          arrived,      \* connections so far
          crashes,      \* crashes so far
          terminated,   \* SIGTERM or SIGINT has been sent
          chld,         \* SIGCHLD is pending for the parent
          ppc,          \* parent: "setup", "wait", "loop", "stopped"
          pool,         \* parent: children whose m_pid is not -1
          counter,      \* parent: sub_process_counter
          pready,       \* parent: descriptors epoll has news of
          pevents,      \* parent: events still to be handled in this round
          psig,         \* parent: the signal pipe, oldest first
          signals,      \* parent: signals read and not yet handled
          m_stop,       \* parent: m_stop
          cstate,       \* child: "starting", "wait", "loop", "dead", "reaped"
          cpipe,        \* child: unread notifications in its socketpair
          cready,       \* child: descriptors epoll has news of
          cevents,      \* child: events still to be handled in this round
          csig,         \* child: SIGTERM or SIGINT is in its signal pipe
          cstop         \* child: its m_stop

input == <<arrived, crashes, terminated>>
parent == <<ppc, pool, counter, pready, pevents, psig, signals, m_stop>>
child == <<cstate, cpipe, cready, cevents, csig, cstop>>
vars == <<backlog, input, chld, parent, child>>

\* The constructor has forked the children.
Init ==
    /\ backlog = 0 /\ arrived = 0 /\ crashes = 0
    /\ terminated = FALSE /\ chld = FALSE
    /\ ppc = "setup" /\ pool = Children /\ counter = 0
    /\ pready = {} /\ pevents = <<>> /\ psig = <<>> /\ signals = <<>>
    /\ m_stop = FALSE
    /\ cstate = [i \in Children |-> "starting"]
    /\ cpipe = [i \in Children |-> 0]
    /\ cready = [i \in Children |-> {}] /\ cevents = [i \in Children |-> {}]
    /\ csig = [i \in Children |-> FALSE] /\ cstop = [i \in Children |-> FALSE]

Up(i) == cstate[i] \in {"wait", "loop"}

Dead(i) == cstate[i] \in {"dead", "reaped"}

-----------------------------------------------------------------------------
(* Clients, crashes and signals.                                           *)

Connect ==
    /\ ppc # "stopped" /\ arrived < MaxConns
    /\ arrived' = arrived + 1
    /\ backlog' = backlog + 1
    /\ pready' = IF ppc = "setup" THEN pready ELSE pready \cup {"listen"}
    /\ UNCHANGED <<crashes, terminated, chld, ppc, pool, counter, pevents,
                   psig, signals, m_stop, child>>

\* A child ends, and its descriptors with it.  SIGCHLD is ignored as long as
\* the parent has not called addsig.
Die(i) ==
    /\ cstate' = [cstate EXCEPT ![i] = "dead"]
    /\ cpipe' = [cpipe EXCEPT ![i] = 0]
    /\ cready' = [cready EXCEPT ![i] = {}]
    /\ cevents' = [cevents EXCEPT ![i] = {}]
    /\ csig' = [csig EXCEPT ![i] = FALSE]
    /\ cstop' = [cstop EXCEPT ![i] = FALSE]
    /\ chld' = (chld \/ ppc # "setup")

Crash(i) ==
    /\ ~Dead(i) /\ crashes < MaxCrashes
    /\ EarlyDeath \/ ppc # "setup"
    /\ crashes' = crashes + 1
    /\ Die(i)
    /\ UNCHANGED <<backlog, arrived, terminated, parent>>

\* SIGTERM or SIGINT to the children S.  One that has not called addsig yet
\* dies of it, sig_handler of the others writes it to their signal pipe.
Kill(S) ==
    LET killed == {i \in S : cstate[i] = "starting"}
        told == {i \in S : Up(i)}
    IN  /\ cstate' = [i \in Children |->
                        IF i \in killed THEN "dead" ELSE cstate[i]]
        /\ cpipe' = [i \in Children |-> IF i \in killed THEN 0 ELSE cpipe[i]]
        /\ csig' = [i \in Children |-> csig[i] \/ i \in told]
        /\ cready' = [i \in Children |->
                        IF i \in told THEN cready[i] \cup {"sig"} ELSE cready[i]]
        /\ chld' = (chld \/ killed # {})
        /\ UNCHANGED <<cevents, cstop>>

\* The parent is told to end: alone, or with its children when the signal comes
\* from the terminal.
Terminate ==
    /\ ppc \in {"wait", "loop"} /\ ~terminated
    /\ terminated' = TRUE
    /\ psig' = Append(psig, "SIGTERM")
    /\ pready' = pready \cup {"sig"}
    /\ Kill({}) \/ Kill(Children)
    /\ UNCHANGED <<backlog, arrived, crashes, ppc, pool, counter, pevents,
                   signals, m_stop>>

\* sig_handler of the parent; deaths in the meantime share one SIGCHLD.
SigChld ==
    /\ chld /\ ppc # "stopped"
    /\ chld' = FALSE
    /\ psig' = Append(psig, "SIGCHLD")
    /\ pready' = pready \cup {"sig"}
    /\ UNCHANGED <<backlog, input, ppc, pool, counter, pevents, signals,
                   m_stop, child>>

-----------------------------------------------------------------------------
(* run_parent                                                              *)

\* setup_sig_pipe, and m_listenfd is added with what is there already.
ParentSetup ==
    /\ ppc = "setup"
    /\ ppc' = "wait"
    /\ pready' = IF backlog > 0 THEN {"listen"} ELSE {}
    /\ UNCHANGED <<backlog, input, chld, pool, counter, pevents, psig, signals,
                   m_stop, child>>

ParentReadable(f) == IF f = "listen" THEN backlog > 0 ELSE psig # <<>>

\* The sequences in which the elements of S can be listed.
Orders(S) == {s \in [1 .. Cardinality(S) -> S] : {s[k] : k \in DOMAIN s} = S}

\* epoll_wait returns the news, in some order, and forgets it.
ParentWait ==
    LET news == {f \in pready : ParentReadable(f)}
    IN  /\ ppc = "wait" /\ news # {}
        /\ ppc' = "loop"
        /\ pevents' \in Orders(news)
        /\ pready' = {}
        /\ UNCHANGED <<backlog, input, chld, pool, counter, psig, signals,
                       m_stop, child>>

Handling(f) ==
    ppc = "loop" /\ signals = <<>> /\ pevents # <<>> /\ Head(pevents) = f

\* The first child from sub_process_counter on that has not been joined.
RoundRobin ==
    LET At(k) == (counter + k) % N
    IN  At(Min({k \in Children : At(k) \in pool}))

\* A notification is sent to child i: it blocks on a full socketpair, and is
\* lost on a child that has died.
Send(i) ==
    /\ Dead(i) \/ cpipe[i] < PipeCap
    /\ cpipe' = IF Dead(i) THEN cpipe ELSE [cpipe EXCEPT ![i] = @ + 1]
    /\ cready' = IF Up(i) THEN [cready EXCEPT ![i] = @ \cup {"pipe"}] ELSE cready

\* Slip: sub_process_counter is not wrapped around.
ForwardNoWrap ==
    /\ Handling("listen") /\ pool # {}
    /\ Send(RoundRobin)
    /\ counter' = RoundRobin + 1
    /\ pevents' = Tail(pevents)
    /\ UNCHANGED <<backlog, input, chld, ppc, pool, pready, psig, signals,
                   m_stop, cstate, cevents, csig, cstop>>

\* Slip: all children are told, the first to come accepts.
ForwardToAll ==
    /\ Handling("listen") /\ pool # {}
    /\ \A i \in pool : Up(i) /\ cpipe[i] < PipeCap
    /\ cpipe' = [i \in Children |-> IF i \in pool THEN cpipe[i] + 1 ELSE cpipe[i]]
    /\ cready' = [i \in Children |->
                    IF i \in pool THEN cready[i] \cup {"pipe"} ELSE cready[i]]
    /\ pevents' = Tail(pevents)
    /\ UNCHANGED <<backlog, input, chld, ppc, pool, counter, pready, psig,
                   signals, m_stop, cstate, cevents, csig, cstop>>

\* News of m_listenfd, however many connections: one notification.
Forward ==
    /\ Handling("listen") /\ pool # {}
    /\ Send(RoundRobin)
    /\ counter' = (RoundRobin + 1) % N
    /\ pevents' = Tail(pevents)
    /\ UNCHANGED <<backlog, input, chld, ppc, pool, pready, psig, signals,
                   m_stop, cstate, cevents, csig, cstop>>

\* Nobody to tell: stop, and leave the loop over the events.
NobodyLeft ==
    /\ Handling("listen") /\ pool = {}
    /\ m_stop' = TRUE
    /\ pevents' = <<>>
    /\ UNCHANGED <<backlog, input, chld, ppc, pool, counter, pready, psig,
                   signals, child>>

RecvSignals ==
    /\ Handling("sig")
    /\ signals' = psig
    /\ psig' = <<>>
    /\ pevents' = Tail(pevents)
    /\ UNCHANGED <<backlog, input, chld, ppc, pool, counter, pready, m_stop,
                   child>>

\* Slip: one waitpid for each SIGCHLD.
HandleChldOnce ==
    LET ended == {i \in Children : cstate[i] = "dead"}
        joined == IF ended = {} THEN {} ELSE {Min(ended)}
    IN  /\ signals # <<>> /\ Head(signals) = "SIGCHLD"
        /\ cstate' = [i \in Children |->
                        IF i \in joined THEN "reaped" ELSE cstate[i]]
        /\ pool' = pool \ joined
        /\ m_stop' = (pool' = {})
        /\ signals' = Tail(signals)
        /\ UNCHANGED <<backlog, input, chld, ppc, counter, pready, pevents,
                       psig, cpipe, cready, cevents, csig, cstop>>

\* Slip: the parent looks for children that are left before it joins any.
HandleChldCheckFirst ==
    LET ended == {i \in Children : cstate[i] = "dead"}
    IN  /\ signals # <<>> /\ Head(signals) = "SIGCHLD"
        /\ cstate' = [i \in Children |->
                        IF i \in ended THEN "reaped" ELSE cstate[i]]
        /\ pool' = pool \ ended
        /\ m_stop' = (pool = {})
        /\ signals' = Tail(signals)
        /\ UNCHANGED <<backlog, input, chld, ppc, counter, pready, pevents,
                       psig, cpipe, cready, cevents, csig, cstop>>

\* waitpid for every child that has ended, then stop if none is left.
HandleChld ==
    LET ended == {i \in Children : cstate[i] = "dead"}
    IN  /\ signals # <<>> /\ Head(signals) = "SIGCHLD"
        /\ cstate' = [i \in Children |->
                        IF i \in ended THEN "reaped" ELSE cstate[i]]
        /\ pool' = pool \ ended
        /\ m_stop' = (pool' = {})
        /\ signals' = Tail(signals)
        /\ UNCHANGED <<backlog, input, chld, ppc, counter, pready, pevents,
                       psig, cpipe, cready, cevents, csig, cstop>>

\* Slip: the parent stops at once, as its children do.
HandleTermStop ==
    /\ signals # <<>> /\ Head(signals) = "SIGTERM"
    /\ Kill(pool)
    /\ m_stop' = TRUE
    /\ signals' = Tail(signals)
    /\ UNCHANGED <<backlog, input, ppc, pool, counter, pready, pevents, psig>>

\* Slip: the loop over the children starts at 1.
HandleTermFromOne ==
    /\ signals # <<>> /\ Head(signals) = "SIGTERM"
    /\ Kill(pool \ {0})
    /\ signals' = Tail(signals)
    /\ UNCHANGED <<backlog, input, ppc, pool, counter, pready, pevents, psig,
                   m_stop>>

\* All children that have not been joined are killed.
HandleTerm ==
    /\ signals # <<>> /\ Head(signals) = "SIGTERM"
    /\ Kill(pool)
    /\ signals' = Tail(signals)
    /\ UNCHANGED <<backlog, input, ppc, pool, counter, pready, pevents, psig,
                   m_stop>>

ParentEndOfRound ==
    /\ ppc = "loop" /\ pevents = <<>> /\ signals = <<>>
    /\ ppc' = IF m_stop THEN "stopped" ELSE "wait"
    /\ UNCHANGED <<backlog, input, chld, pool, counter, pready, pevents, psig,
                   signals, m_stop, child>>

-----------------------------------------------------------------------------
(* run_child                                                               *)

\* setup_sig_pipe, and the pipe is added with what is there already.
ChildSetup(i) ==
    /\ cstate[i] = "starting"
    /\ cstate' = [cstate EXCEPT ![i] = "wait"]
    /\ cready' = [cready EXCEPT ![i] = IF cpipe[i] > 0 THEN {"pipe"} ELSE {}]
    /\ UNCHANGED <<backlog, input, chld, parent, cpipe, cevents, csig, cstop>>

ChildReadable(i, f) == IF f = "pipe" THEN cpipe[i] > 0 ELSE csig[i]

ChildWait(i) ==
    LET news == {f \in cready[i] : ChildReadable(i, f)}
    IN  /\ cstate[i] = "wait" /\ news # {}
        /\ cstate' = [cstate EXCEPT ![i] = "loop"]
        /\ cevents' = [cevents EXCEPT ![i] = news]
        /\ cready' = [cready EXCEPT ![i] = {}]
        /\ UNCHANGED <<backlog, input, chld, parent, cpipe, csig, cstop>>

\* One notification is read, one connection accepted.  m_listenfd does not
\* block: accept fails if no connection is left.
ChildAccept(i) ==
    /\ cstate[i] = "loop" /\ "pipe" \in cevents[i]
    /\ cpipe' = [cpipe EXCEPT ![i] = @ - 1]
    /\ backlog' = IF backlog > 0 THEN backlog - 1 ELSE 0
    /\ cevents' = [cevents EXCEPT ![i] = @ \ {"pipe"}]
    /\ UNCHANGED <<input, chld, parent, cstate, cready, csig, cstop>>

ChildSignals(i) ==
    /\ cstate[i] = "loop" /\ "sig" \in cevents[i]
    /\ csig' = [csig EXCEPT ![i] = FALSE]
    /\ cstop' = [cstop EXCEPT ![i] = TRUE]
    /\ cevents' = [cevents EXCEPT ![i] = @ \ {"sig"}]
    /\ UNCHANGED <<backlog, input, chld, parent, cstate, cpipe, cready>>

\* The round is over: the child waits again, or run_child returns and it exits.
ChildEndOfRound(i) ==
    /\ cstate[i] = "loop" /\ cevents[i] = {}
    /\ \/ /\ cstop[i]
          /\ Die(i)
       \/ /\ ~cstop[i]
          /\ cstate' = [cstate EXCEPT ![i] = "wait"]
          /\ UNCHANGED <<chld, cpipe, cready, cevents, csig, cstop>>
    /\ UNCHANGED <<backlog, input, parent>>

-----------------------------------------------------------------------------

Parent ==
    \/ ParentSetup \/ ParentWait \/ Forward \/ NobodyLeft
    \/ RecvSignals \/ HandleChld \/ HandleTerm \/ ParentEndOfRound

Child(i) ==
    \/ ChildSetup(i) \/ ChildWait(i) \/ ChildAccept(i)
    \/ ChildSignals(i) \/ ChildEndOfRound(i)

Next ==
    \/ Connect \/ Terminate \/ SigChld \/ Parent
    \/ \E i \in Children : Crash(i) \/ Child(i)

Spec == Init /\ [][Next]_vars

\* Every process is scheduled and a pending signal is delivered.  Clients,
\* crashes and whoever might send SIGTERM need not do anything.
FairSpec ==
    /\ Spec
    /\ WF_vars(Parent) /\ WF_vars(SigChld)
    /\ \A i \in Children : WF_vars(Child(i))

-----------------------------------------------------------------------------
(* Properties                                                              *)

\* Types; only a running parent has events or signals to handle.
TypeOK ==
    /\ backlog \in 0 .. MaxConns /\ arrived \in 0 .. MaxConns
    /\ crashes \in 0 .. MaxCrashes
    /\ terminated \in BOOLEAN /\ chld \in BOOLEAN
    /\ ppc \in {"setup", "wait", "loop", "stopped"}
    /\ pool \subseteq Children /\ counter \in Children
    /\ pready \subseteq {"listen", "sig"}
    /\ pevents \in Seq({"listen", "sig"})
    /\ psig \in Seq({"SIGCHLD", "SIGTERM"})
    /\ signals \in Seq({"SIGCHLD", "SIGTERM"})
    /\ pevents # <<>> \/ signals # <<>> => ppc = "loop"
    /\ m_stop \in BOOLEAN
    /\ cstate \in [Children -> {"starting", "wait", "loop", "dead", "reaped"}]
    /\ cpipe \in [Children -> 0 .. PipeCap]
    /\ cready \in [Children -> SUBSET {"pipe", "sig"}]
    /\ cevents \in [Children -> SUBSET {"pipe", "sig"}]
    /\ csig \in [Children -> BOOLEAN] /\ cstop \in [Children -> BOOLEAN]

\* The notifications in the socketpairs, the p[i] of child i numbered from 1.
Unread(p) == {n \in Children \X (1 .. PipeCap) : n[2] <= p[n[1]]}

\* Where m_listenfd stands in a sequence of events.
Listed(s) == {k \in 1 .. Len(s) : s[k] = "listen"}

\* Events of m_listenfd that have not become a notification yet.
Unsent ==
    (IF "listen" \in pready THEN 1 ELSE 0) + Cardinality(Listed(pevents))

\* accept of half_sync_half_async.h:213 finds a connection whenever a child is
\* told of one: children race for the shared listening socket, but never are
\* more notifications on their way than connections wait.
ToldOnlyOfConnections == Cardinality(Unread(cpipe)) + Unsent <= backlog

\* A child that has ended and was not joined is never forgotten, although
\* SIGCHLDs merge: one is pending, in the pipe or about to be handled.
NoLostChild ==
    \A i \in Children : cstate[i] = "dead" =>
        \/ chld
        \/ \E k \in DOMAIN psig : psig[k] = "SIGCHLD"
        \/ \E k \in DOMAIN signals : signals[k] = "SIGCHLD"

\* The parent outlives its children: it leaves its loop, by SIGCHLD or because
\* it finds nobody to tell of a connection, only when all are joined.
NoOrphans == ppc = "stopped" => \A i \in Children : cstate[i] = "reaped"

\* half_sync_half_async.h:372, on a termination signal the parent kills its
\* children and waits until they have ended; then it ends too.
ShutdownCompletes == terminated ~> ppc = "stopped"

\* half_sync_half_async.h:358, when all children have ended the parent ends.
ExitsWithChildren == (\A i \in Children : Dead(i)) ~> ppc = "stopped"

\* half_sync_half_async.h:305, a connection that arrives is assigned to a
\* child: none waits in the queue forever.
AllAccepted == []<>(backlog = 0 \/ ppc = "stopped")
=============================================================================
