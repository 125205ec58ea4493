-------------------------- MODULE MemcachedServer --------------------------
(***************************************************************************)
(* memcached/server: the connections, the session map and the sharded item *)
(* table of MemcachedServer, used by the I/O threads of a muduo TcpServer. *)
(*                                                                         *)
(* Every connection is pinned to one I/O loop (a thread), and a loop runs  *)
(* one callback at a time: onConnection, or Session::onMessage on the      *)
(* requests that one read of the socket delivered.  Callbacks of different *)
(* loops interleave; they meet at mutex_ (the session map) and at the      *)
(* mutex of a shard (its ItemMap).  How a request is cut out of the byte   *)
(* stream is the subject of module MemcachedSession; here requests are     *)
(* whole.                                                                  *)
(***************************************************************************)
EXTENDS Naturals, Sequences

CONSTANTS Conns,        \* the connections, by TcpConnection::name()
          Threads,      \* the I/O loops
          LoopOf,       \* the loop of each connection (TcpServer, round robin)
          Keys, Vals,   \* item keys; flag, exptime and data taken together
          DanglingKeys, \* keys whose characters go with the temporary that held them
          Junk,         \* what a dead std::string spells; no client's key
          Hash,         \* Item::hash() of a key
          kShards,      \* the number of shards
          MaxRequests,  \* bound: requests a client sends, per connection
          None          \* no item, no owner, no argument

ASSUME ServerAssumption ==
    /\ kShards \in Nat \ {0}
    /\ Hash \in [Keys -> Nat]
    /\ LoopOf \in [Conns -> Threads]
    /\ MaxRequests \in [Conns -> Nat]
    /\ Junk \in Keys
    /\ DanglingKeys \subseteq Keys \ {Junk}
    /\ None \notin Keys \cup Vals \cup Threads \cup Conns
    /\ None \notin [key : Keys, value : Vals]

VARIABLES connState,  \* TcpConnection::state_ of every connection
          sessions,   \* the keys of sessions_: connections with a Session
          mutex,      \* the thread in a section of mutex_, or None
          items,      \* shards_[s].items
          lock,       \* the thread that holds shards_[s].mutex, or None
          task,       \* what each loop is doing
          sent,       \* the requests the client has written, per connection
          taken,      \* how many of them the server has read
          replies,    \* what the server has written, per connection
          alive       \* FALSE once the process has died

vars == <<connState, sessions, mutex, items, lock, task, sent, taken, replies,
          alive>>

Shards == 0 .. kShards - 1
Item == [key : Keys, value : Vals]

Set(k, v) == [cmd |-> "set", key |-> k, value |-> v]
Get(k) == [cmd |-> "get", key |-> k, value |-> None]
Quit == [cmd |-> "quit", key |-> None, value |-> None]
ClientKeys == Keys \ {Junk}
Request == {Set(k, v) : k \in ClientKeys, v \in Vals}
             \cup {Get(k) : k \in ClientKeys} \cup {Quit}

Stored(k) == [kind |-> "STORED", key |-> k, value |-> None]
Value(k, v) == [kind |-> "VALUE", key |-> k, value |-> v]
Reply == {Stored(k) : k \in Keys} \cup {Value(k, v) : k \in Keys, v \in Vals}

\* Where a loop stands in its callback.
PC == {"idle", "up", "upInsert", "down", "downErase",
       "dispatch", "lock", "find", "insert", "reply"}

\* A loop at pc serves conn: the requests of its batch are still to be handled,
\* the first with a call of the store for key, which found an item or None.
At(pc, conn, batch, key, found) ==
    [pc |-> pc, conn |-> conn, batch |-> batch, key |-> key, found |-> found]

Idle == At("idle", None, <<>>, None, None)

Init ==
    /\ connState = [c \in Conns |-> "none"]
    /\ sessions = {}
    /\ mutex = None
    /\ items = [s \in Shards |-> {}]
    /\ lock = [s \in Shards |-> None]
    /\ task = [t \in Threads |-> Idle]
    /\ sent = [c \in Conns |-> <<>>]
    /\ taken = [c \in Conns |-> 0]
    /\ replies = [c \in Conns |-> <<>>]
    /\ alive = TRUE

-----------------------------------------------------------------------------
(* The client.                                                             *)

\* A client writes its next request; it does not wait for earlier replies.
ClientSend(c, r) ==
    /\ alive /\ connState[c] # "disconnected"
    /\ Len(sent[c]) < MaxRequests[c]
    /\ sent' = [sent EXCEPT ![c] = Append(@, r)]
    /\ UNCHANGED <<connState, sessions, mutex, items, lock, task, taken,
                   replies, alive>>

-----------------------------------------------------------------------------
(* onConnection                                                            *)

\* shards_[x->hash() % kShards]
ShardOf(k) == Hash[k] % kShards

Goto(t, pc) ==
    task' = [task EXCEPT ![t] = At(pc, @.conn, @.batch, @.key, @.found)]

\* The loop establishes the connection and enters onConnection: the Session is
\* constructed and has installed its message callback before mutex_ is locked.
ConnectionUp(t, c) ==
    /\ alive /\ task[t].pc = "idle" /\ LoopOf[c] = t
    /\ connState[c] = "none"
    /\ connState' = [connState EXCEPT ![c] = "connected"]
    /\ task' = [task EXCEPT ![t] = At("up", c, <<>>, None, None)]
    /\ UNCHANGED <<sessions, mutex, items, lock, sent, taken, replies, alive>>

\* The peer has closed, or reset, the connection: the loop enters onConnection.
\* A reset loses what the loop has not read.
ConnectionDown(t, c) ==
    /\ alive /\ task[t].pc = "idle" /\ LoopOf[c] = t
    /\ connState[c] \in {"connected", "disconnecting"}
    /\ connState' = [connState EXCEPT ![c] = "disconnected"]
    /\ task' = [task EXCEPT ![t] = At("down", c, <<>>, None, None)]
    /\ UNCHANGED <<sessions, mutex, items, lock, sent, taken, replies, alive>>

\* MutexLockGuard lock(mutex_), in either branch.
SessionsLock(t) ==
    /\ alive /\ task[t].pc \in {"up", "down"}
    /\ mutex = None
    /\ mutex' = t
    /\ Goto(t, IF task[t].pc = "up" THEN "upInsert" ELSE "downErase")
    /\ UNCHANGED <<connState, sessions, items, lock, sent, taken, replies,
                   alive>>

\* sessions_[conn->name()] = session, and the guard unlocks.
SessionsInsert(t) ==
    /\ alive /\ task[t].pc = "upInsert"
    /\ sessions' = sessions \cup {task[t].conn}
    /\ mutex' = None
    /\ task' = [task EXCEPT ![t] = Idle]
    /\ UNCHANGED <<connState, items, lock, sent, taken, replies, alive>>

\* sessions_.erase(conn->name()): the Session is destroyed; the guard unlocks.
SessionsErase(t) ==
    /\ alive /\ task[t].pc = "downErase"
    /\ sessions' = sessions \ {task[t].conn}
    /\ mutex' = None
    /\ task' = [task EXCEPT ![t] = Idle]
    /\ UNCHANGED <<connState, items, lock, sent, taken, replies, alive>>

-----------------------------------------------------------------------------
(* Session::onMessage, storeItem and getItem                               *)

\* Slip: connections are not pinned, any idle loop may run the callback.
MessageAnyLoop(t, c) ==
    /\ alive /\ task[t].pc = "idle"
    /\ connState[c] \in {"connected", "disconnecting"}
    /\ \E n \in taken[c] + 1 .. Len(sent[c]) :
          /\ task' = [task EXCEPT ![t] =
                         At("dispatch", c, SubSeq(sent[c], taken[c] + 1, n),
                            None, None)]
          /\ taken' = [taken EXCEPT ![c] = n]
    /\ UNCHANGED <<connState, sessions, mutex, items, lock, sent, replies,
                   alive>>

\* The loop reads some of the waiting requests and calls onMessage, bound to
\* the raw pointer of the connection's Session.
Message(t, c) ==
    /\ alive /\ task[t].pc = "idle" /\ LoopOf[c] = t
    /\ connState[c] \in {"connected", "disconnecting"}
    /\ \E n \in taken[c] + 1 .. Len(sent[c]) :
          /\ task' = [task EXCEPT ![t] =
                         At("dispatch", c, SubSeq(sent[c], taken[c] + 1, n),
                            None, None)]
          /\ taken' = [taken EXCEPT ![c] = n]
    /\ UNCHANGED <<connState, sessions, mutex, items, lock, sent, replies,
                   alive>>

Req(t) == Head(task[t].batch)

\* doGet's StringPiece points into the temporary that as_string() returned,
\* which is gone, whatever the key.  Its characters were on the heap, or in the
\* string itself on the stack: the build decides for which keys they are still
\* there to be read.
Spelling(k) == IF k \in DanglingKeys THEN {k, Junk} ELSE {k}

\* A set goes to the store with the key saved in curKey_, a get with what its
\* StringPiece spells.
DispatchStore(t) ==
    /\ alive /\ task[t].pc = "dispatch" /\ task[t].batch # <<>>
    /\ \/ /\ Req(t).cmd = "set"
          /\ task' = [task EXCEPT ![t] = At("lock", @.conn, @.batch,
                                            Req(t).key, None)]
       \/ /\ Req(t).cmd = "get"
          /\ \E k \in Spelling(Req(t).key) :
                task' = [task EXCEPT ![t] = At("lock", @.conn, @.batch, k,
                                               None)]
    /\ UNCHANGED <<connState, sessions, mutex, items, lock, sent, taken,
                   replies, alive>>

\* quit: conn_->shutdown(), and the loop in onMessage goes on to what follows.
DispatchQuit(t) ==
    /\ alive /\ task[t].pc = "dispatch" /\ task[t].batch # <<>>
    /\ Req(t).cmd = "quit"
    /\ connState' = [connState EXCEPT ![task[t].conn] =
                        IF @ = "connected" THEN "disconnecting" ELSE @]
    /\ task' = [task EXCEPT ![t] = At("dispatch", @.conn, Tail(@.batch), None,
                                      None)]
    /\ UNCHANGED <<sessions, mutex, items, lock, sent, taken, replies, alive>>

\* Nothing is left in the buffer: onMessage returns to the loop.
MessageDone(t) ==
    /\ alive /\ task[t].pc = "dispatch" /\ task[t].batch = <<>>
    /\ task' = [task EXCEPT ![t] = Idle]
    /\ UNCHANGED <<connState, sessions, mutex, items, lock, sent, taken,
                   replies, alive>>

\* Slip: the section is entered whether or not another thread is in it.
ShardLockNoWait(t) ==
    /\ alive /\ task[t].pc = "lock"
    /\ lock' = [lock EXCEPT ![ShardOf(task[t].key)] = t]
    /\ Goto(t, "find")
    /\ UNCHANGED <<connState, sessions, mutex, items, sent, taken, replies,
                   alive>>

\* Slip: a getItem that meets a locked shard gives up with a null item.
ShardLockTry(t) ==
    /\ alive /\ task[t].pc = "lock"
    /\ \/ /\ lock[ShardOf(task[t].key)] = None
          /\ lock' = [lock EXCEPT ![ShardOf(task[t].key)] = t]
          /\ Goto(t, "find")
       \/ /\ lock[ShardOf(task[t].key)] # None /\ Req(t).cmd = "get"
          /\ Goto(t, "reply")
          /\ UNCHANGED lock
    /\ UNCHANGED <<connState, sessions, mutex, items, sent, taken, replies,
                   alive>>

\* MutexLockGuard lockGuard(shards_[hash % kShards].mutex)
ShardLock(t) ==
    /\ alive /\ task[t].pc = "lock"
    /\ lock[ShardOf(task[t].key)] = None
    /\ lock' = [lock EXCEPT ![ShardOf(task[t].key)] = t]
    /\ Goto(t, "find")
    /\ UNCHANGED <<connState, sessions, mutex, items, sent, taken, replies,
                   alive>>

\* Slip: elements are compared by their hash alone.
MatchByHash(k) == {i \in items[ShardOf(k)] : Hash[i.key] = Hash[k]}

\* An element of the shard with an Equal key, if there is one.
Match(k) == {i \in items[ShardOf(k)] : i.key = k}

\* Slip: the guard ends with the lookup, before the element is linked.
FindUnlocksEarly(t) ==
    LET k == task[t].key IN
    /\ alive /\ task[t].pc = "find"
    /\ \E f \in IF Match(k) = {} THEN {None} ELSE Match(k) :
          task' = [task EXCEPT ![t] =
                      At(IF Req(t).cmd = "get" \/ f # None THEN "reply"
                         ELSE "insert", @.conn, @.batch, k, f)]
    /\ lock' = [lock EXCEPT ![ShardOf(k)] = None]
    /\ UNCHANGED <<connState, sessions, mutex, items, sent, taken, replies,
                   alive>>

\* Slip: the early return of a get that finds its key leaves the mutex locked.
FindKeepsLock(t) ==
    LET k == task[t].key IN
    /\ alive /\ task[t].pc = "find"
    /\ \E f \in IF Match(k) = {} THEN {None} ELSE Match(k) :
          LET over == Req(t).cmd = "get" \/ f # None IN
          /\ task' = [task EXCEPT ![t] = At(IF over THEN "reply" ELSE "insert",
                                            @.conn, @.batch, k, f)]
          /\ lock' = IF over /\ (Req(t).cmd = "set" \/ f = None)
                     THEN [lock EXCEPT ![ShardOf(k)] = None] ELSE lock
    /\ UNCHANGED <<connState, sessions, mutex, items, sent, taken, replies,
                   alive>>

\* items.find(key), and the lookup insert starts with.  getItem, and an insert
\* that meets an equal element, are over: the guard unlocks.
Find(t) ==
    LET k == task[t].key IN
    /\ alive /\ task[t].pc = "find"
    /\ \E f \in IF Match(k) = {} THEN {None} ELSE Match(k) :
          LET over == Req(t).cmd = "get" \/ f # None IN
          /\ task' = [task EXCEPT ![t] = At(IF over THEN "reply" ELSE "insert",
                                            @.conn, @.batch, k, f)]
          /\ lock' = IF over THEN [lock EXCEPT ![ShardOf(k)] = None] ELSE lock
    /\ UNCHANGED <<connState, sessions, mutex, items, sent, taken, replies,
                   alive>>

\* insert links the new element; the guard unlocks.
Insert(t) ==
    LET k == task[t].key IN
    /\ alive /\ task[t].pc = "insert"
    /\ items' = [items EXCEPT ![ShardOf(k)] =
                    @ \cup {[key |-> k, value |-> Req(t).value]}]
    /\ lock' = [lock EXCEPT ![ShardOf(k)] = None]
    /\ Goto(t, "reply")
    /\ UNCHANGED <<connState, sessions, mutex, sent, taken, replies, alive>>

\* conn_->send drops what is sent after shutdown().
Send(c, r) ==
    replies' = IF connState[c] = "connected"
               THEN [replies EXCEPT ![c] = Append(@, r)] ELSE replies

\* Slip: a get of a key that is not there is answered with an empty VALUE.
AnswerNull(t) ==
    /\ alive /\ task[t].pc = "reply"
    /\ \/ Req(t).cmd = "set" /\ Send(task[t].conn, Stored(Req(t).key))
       \/ /\ Req(t).cmd = "get"
          /\ Send(task[t].conn,
                  Value(Req(t).key, IF task[t].found = None THEN None
                                    ELSE task[t].found.value))
    /\ task' = [task EXCEPT ![t] = At("dispatch", @.conn, Tail(@.batch), None,
                                      None)]
    /\ UNCHANGED <<connState, sessions, mutex, items, lock, sent, taken, alive>>

\* doGet or the value branch of onMessage answers, and onMessage goes on.
Answer(t) ==
    /\ alive /\ task[t].pc = "reply"
    /\ \/ Req(t).cmd = "set" /\ Send(task[t].conn, Stored(Req(t).key))
       \/ /\ Req(t).cmd = "get" /\ task[t].found # None
          /\ \E k \in Spelling(Req(t).key) :
                Send(task[t].conn, Value(k, task[t].found.value))
    /\ task' = [task EXCEPT ![t] = At("dispatch", @.conn, Tail(@.batch), None,
                                      None)]
    /\ UNCHANGED <<connState, sessions, mutex, items, lock, sent, taken, alive>>

\* doGet calls item->flag() on the null pointer of a key that is not there.
NullItem(t) ==
    /\ alive /\ task[t].pc = "reply"
    /\ Req(t).cmd = "get" /\ task[t].found = None
    /\ alive' = FALSE
    /\ UNCHANGED <<connState, sessions, mutex, items, lock, task, sent, taken,
                   replies>>

-----------------------------------------------------------------------------

\* What the loop t does once poll() or a callback gives it something to do.
ThreadStep(t) ==
    \/ \E c \in Conns : ConnectionUp(t, c) \/ Message(t, c)
    \/ SessionsLock(t) \/ SessionsInsert(t) \/ SessionsErase(t)
    \/ DispatchStore(t) \/ DispatchQuit(t) \/ MessageDone(t)
    \/ ShardLock(t) \/ Find(t) \/ Insert(t) \/ Answer(t) \/ NullItem(t)

Next ==
    \/ \E c \in Conns, r \in Request : ClientSend(c, r)
    \/ \E t \in Threads, c \in Conns : ConnectionDown(t, c)
    \/ \E t \in Threads : ThreadStep(t)

Spec == Init /\ [][Next]_vars

\* The operating system runs every I/O thread; clients need not do anything.
FairSpec == Spec /\ \A t \in Threads : WF_vars(ThreadStep(t))

-----------------------------------------------------------------------------
(* Properties                                                              *)

InSection(t) == task[t].pc \in {"find", "insert"}

\* Types of the variables, and of what a loop keeps between two steps.
TypeOK ==
    /\ connState \in [Conns -> {"none", "connected", "disconnecting",
                                "disconnected"}]
    /\ sessions \subseteq Conns
    /\ mutex \in Threads \cup {None}
    /\ items \in [Shards -> SUBSET Item]
    /\ lock \in [Shards -> Threads \cup {None}]
    /\ task \in [Threads -> [pc : PC, conn : Conns \cup {None},
                              batch : Seq(Request), key : Keys \cup {None},
                              found : Item \cup {None}]]
    /\ sent \in [Conns -> Seq(Request)]
    /\ taken \in [Conns -> Nat]
    /\ replies \in [Conns -> Seq(Reply)]
    /\ alive \in BOOLEAN

\* storeItem's find-then-link is atomic for all threads: a key has one item in
\* the whole table, and it sits in the shard getItem looks in.
KeyUnique ==
    \A s \in Shards : \A i \in items[s] :
        /\ ShardOf(i.key) = s
        /\ \A j \in items[s] : j.key = i.key => j = i

\* Pipelined requests are answered one by one and in order, a get only with a
\* value that some client sent for that very key (session.cpp: the loop of
\* onMessage, and quit after which nothing more is written).
RepliesAnswerRequests ==
    \A c \in Conns : \A i \in 1 .. Len(replies[c]) :
        /\ i <= Len(sent[c])
        /\ replies[c][i].kind = IF sent[c][i].cmd = "set" THEN "STORED"
                                                         ELSE "VALUE"
        /\ sent[c][i].cmd = "get" =>
              \E d \in Conns : \E j \in 1 .. Len(sent[d]) :
                  sent[d][j] = Set(sent[c][i].key, replies[c][i].value)

\* A client that was told STORED finds its key: whatever other threads do to
\* the shard in between, its own later get never meets the null item that
\* ends the process (session.cpp:233), for the keys that do not dangle.
ReadYourWrites ==
    \A t \in Threads :
        task[t].pc = "reply" /\ Req(t).cmd = "get" /\ task[t].found = None
          => \/ Req(t).key \in DanglingKeys
             \/ \A i \in 1 .. Len(replies[task[t].conn]) :
                   replies[task[t].conn][i] # Stored(Req(t).key)

\* onMessage is bound to the Session's raw pointer ("?weak ptr?"): no loop runs
\* it for a connection whose Session is gone; and the two assertions on the
\* session map in onConnection hold whenever they are reached.
SessionLifetime ==
    \A t \in Threads :
        /\ task[t].pc = "upInsert" => task[t].conn \notin sessions
        /\ task[t].pc = "downErase" => task[t].conn \in sessions
        /\ task[t].pc \in {"dispatch", "lock", "find", "insert", "reply"}
              => task[t].conn \in sessions

\* The sharded, locked table is one table whose calls take effect at once.
tableOf ==
    [k \in Keys |-> IF Match(k) = {} THEN None
                    ELSE (CHOOSE i \in Match(k) : TRUE).value]

resultOf(t) ==
    IF Req(t).cmd = "get" /\ task[t].found # None THEN task[t].found.value
    ELSE None

callOf ==
    [t \in Threads |->
        IF task[t].pc \in {"lock", "find", "insert", "reply"}
        THEN [status |-> IF task[t].pc = "reply" THEN "done" ELSE "called",
              cmd |-> Req(t).cmd, key |-> task[t].key, value |-> Req(t).value,
              result |-> resultOf(t)]
        ELSE [status |-> "idle", cmd |-> None, key |-> None, value |-> None,
              result |-> None]]

Table == INSTANCE ItemTable WITH Callers <- Threads, table <- tableOf,
                                 call <- callOf

\* Every storeItem and getItem of every thread takes effect at one instant
\* between its call and its return, as on the single table of ItemTable.
Linearizable == Table!TableSpec

\* Requests that wait on a connection are all taken and their batch finished,
\* unless the peer resets it or a get kills the process: no loop waits for ever
\* on a mutex.
AllServed ==
    \A c \in Conns :
        connState[c] = "connected" /\ taken[c] < Len(sent[c])
          ~> \/ ~alive \/ connState[c] = "disconnected"
             \/ taken[c] = Len(sent[c]) /\ task[LoopOf[c]].pc = "idle"

\* memcached_server.cpp:42 "if exist before, it will be replaced": once a
\* storeItem is over, its item is the one in the table.
StoreReplaces ==
    [][\A t \in Threads :
          InSection(t) /\ task'[t].pc = "reply" /\ Req(t).cmd = "set"
            => [key |-> task[t].key, value |-> Req(t).value]
                  \in items'[ShardOf(task[t].key)]]_vars
=============================================================================
