----------------------- MODULE MemcachedServerProofs -----------------------
(***************************************************************************)
(* Proofs about MemcachedServer, for any number of connections, threads,   *)
(* keys and shards.                                                        *)
(***************************************************************************)
EXTENDS MemcachedServer, TLAPS

-----------------------------------------------------------------------------
(* Facts about requests, replies and shards                                *)

\* What a request is made of, by its command.
LEMMA RequestFields ==
    ASSUME NEW r \in Request
    PROVE  /\ r.cmd \in {"set", "get", "quit"}
           /\ r.cmd = "set" => r.key \in ClientKeys /\ r.value \in Vals
           /\ r.cmd = "get" => r.key \in ClientKeys /\ r.value = None
BY DEF Request, Set, Get, Quit

\* A key falls into one of the shards.
LEMMA ShardOfType ==
    ASSUME NEW k \in Keys
    PROVE  ShardOf(k) \in Shards
<1>1. Hash[k] \in Nat /\ kShards \in Nat \ {0}
  BY ServerAssumption
<1>2. Hash[k] % kShards \in 0 .. kShards - 1
  BY <1>1
<1> QED
  BY <1>2 DEF ShardOf, Shards

\* What a dead std::string spells is a key.
LEMMA SpellingType ==
    ASSUME NEW k \in ClientKeys
    PROVE  Spelling(k) \subseteq Keys
BY ServerAssumption DEF Spelling, ClientKeys

\* The head and the tail of a batch that is not empty.
LEMMA BatchHeadTail ==
    ASSUME NEW b \in Seq(Request), b # <<>>
    PROVE  Head(b) \in Request /\ Tail(b) \in Seq(Request)
OBVIOUS

\* A busy loop serves one of its own connections.
PinnedInv ==
    \A t \in Threads :
        task[t].pc # "idle" =>
            task[t].conn \in Conns /\ LoopOf[task[t].conn] = t

\* What a loop in a store call has in its hands.
CallInv ==
    \A t \in Threads :
        task[t].pc \in {"lock", "find", "insert", "reply"} =>
            /\ task[t].batch # <<>>
            /\ task[t].key \in Keys
            /\ Req(t).cmd \in {"set", "get"}
            /\ Req(t).cmd = "set" => task[t].key = Req(t).key
            /\ Req(t).cmd = "get" => task[t].key \in Spelling(Req(t).key)
            /\ task[t].pc = "insert" => Req(t).cmd = "set"

TypeInv == TypeOK /\ PinnedInv /\ CallInv

Task == [pc : PC, conn : Conns \cup {None}, batch : Seq(Request),
         key : Keys \cup {None}, found : Item \cup {None}]

LEMMA InitType == Init => TypeInv
<1> SUFFICES ASSUME Init PROVE TypeInv
  OBVIOUS
<1>1. Idle \in Task
  BY DEF Idle, At, Task, PC
<1>2. TypeOK
  BY <1>1 DEF Init, TypeOK, Task
<1>3. PinnedInv /\ CallInv
  BY DEF Init, PinnedInv, CallInv, Idle, At
<1> QED
  BY <1>2, <1>3 DEF TypeInv

\* Every step keeps the types, and what a store call has in its hands.
LEMMA NextType == TypeInv /\ [Next]_vars => TypeInv'
<1> SUFFICES ASSUME TypeInv, [Next]_vars PROVE TypeInv'
  OBVIOUS
<1> USE DEF TypeInv, At
<1>1. task \in [Threads -> Task]
  BY DEF TypeOK, Task
<1>2. ASSUME NEW c \in Conns, NEW r \in Request, ClientSend(c, r)
      PROVE  TypeInv'
  <2>1. sent' \in [Conns -> Seq(Request)]
    BY <1>2 DEF ClientSend, TypeOK
  <2>2. TypeOK'
    BY <1>2, <2>1 DEF ClientSend, TypeOK
  <2> QED
    BY <1>2, <2>2 DEF ClientSend, PinnedInv, CallInv, Req
<1>3. ASSUME NEW t \in Threads, NEW c \in Conns,
             ConnectionUp(t, c) \/ ConnectionDown(t, c)
      PROVE  TypeInv'
  <2>1. \E p \in {"up", "down"} :
           task' = [task EXCEPT ![t] = At(p, c, <<>>, None, None)]
    BY <1>3 DEF ConnectionUp, ConnectionDown
  <2>2. connState' \in [Conns -> {"none", "connected", "disconnecting",
                                  "disconnected"}]
    BY <1>3 DEF ConnectionUp, ConnectionDown, TypeOK
  <2>3. task' \in [Threads -> Task]
    BY <1>1, <2>1 DEF Task, PC
  <2>4. TypeOK'
    BY <1>3, <2>2, <2>3 DEF ConnectionUp, ConnectionDown, TypeOK, Task
  <2>5. LoopOf[c] = t
    BY <1>3 DEF ConnectionUp, ConnectionDown
  <2>6. PinnedInv' /\ CallInv'
    BY <1>1, <2>1, <2>5 DEF PinnedInv, CallInv, Req, Task
  <2> QED
    BY <2>4, <2>6
<1>4. ASSUME NEW t \in Threads, SessionsLock(t) PROVE TypeInv'
  <2>1. task' \in [Threads -> Task]
    BY <1>1, <1>4 DEF SessionsLock, Goto, Task, PC
  <2>2. TypeOK'
    BY <1>4, <2>1 DEF SessionsLock, TypeOK, Task
  <2>3. PinnedInv' /\ CallInv'
    BY <1>1, <1>4 DEF SessionsLock, Goto, PinnedInv, CallInv, Req, Task
  <2> QED
    BY <2>2, <2>3
<1>5. ASSUME NEW t \in Threads,
             SessionsInsert(t) \/ SessionsErase(t) \/ MessageDone(t)
      PROVE  TypeInv'
  <2>1. task' = [task EXCEPT ![t] = Idle]
    BY <1>5 DEF SessionsInsert, SessionsErase, MessageDone
  <2>2. Idle \in Task
    BY DEF Idle, At, Task, PC
  <2>3. task' \in [Threads -> Task]
    BY <1>1, <2>1, <2>2
  <2>4. sessions' \subseteq Conns
    BY <1>5 DEF SessionsInsert, SessionsErase, MessageDone, TypeOK, PinnedInv
  <2>5. TypeOK'
    BY <1>5, <2>3, <2>4
    DEF SessionsInsert, SessionsErase, MessageDone, TypeOK, Task
  <2>6. PinnedInv' /\ CallInv'
    BY <1>1, <2>1 DEF PinnedInv, CallInv, Req, Task, Idle, At
  <2> QED
    BY <2>5, <2>6
<1>6. ASSUME NEW t \in Threads, NEW c \in Conns, Message(t, c)
      PROVE  TypeInv'
  <2>1. PICK n \in taken[c] + 1 .. Len(sent[c]) :
           /\ task' = [task EXCEPT ![t] =
                          At("dispatch", c, SubSeq(sent[c], taken[c] + 1, n),
                             None, None)]
           /\ taken' = [taken EXCEPT ![c] = n]
    BY <1>6 DEF Message
  <2>2. SubSeq(sent[c], taken[c] + 1, n) \in Seq(Request) /\ n \in Nat
    BY DEF TypeOK
  <2>3. task' \in [Threads -> Task]
    BY <1>1, <2>1, <2>2 DEF Task, PC
  <2>4. TypeOK'
    BY <1>6, <2>1, <2>2, <2>3 DEF Message, TypeOK, Task
  <2>5. PinnedInv' /\ CallInv'
    BY <1>1, <1>6, <2>1 DEF Message, PinnedInv, CallInv, Req, Task
  <2> QED
    BY <2>4, <2>5
<1>7. ASSUME NEW t \in Threads, DispatchStore(t) PROVE TypeInv'
  <2>1. Req(t) \in Request
    BY <1>1, <1>7, BatchHeadTail DEF DispatchStore, Req, Task
  <2>2. PICK k \in Keys :
           /\ task' = [task EXCEPT ![t] = At("lock", @.conn, @.batch, k, None)]
           /\ Req(t).cmd \in {"set", "get"}
           /\ Req(t).cmd = "set" => k = Req(t).key
           /\ Req(t).cmd = "get" => k \in Spelling(Req(t).key)
    BY <1>7, <2>1, RequestFields, SpellingType DEF DispatchStore, ClientKeys
  <2>3. task' \in [Threads -> Task]
    BY <1>1, <2>2 DEF Task, PC
  <2>4. TypeOK'
    BY <1>7, <2>3 DEF DispatchStore, TypeOK, Task
  <2>5. PinnedInv' /\ CallInv'
    BY <1>1, <1>7, <2>2 DEF DispatchStore, PinnedInv, CallInv, Req, Task
  <2> QED
    BY <2>4, <2>5
<1>8. ASSUME NEW t \in Threads, DispatchQuit(t) PROVE TypeInv'
  <2>1. Tail(task[t].batch) \in Seq(Request)
    BY <1>1, <1>8, BatchHeadTail DEF DispatchQuit, Task
  <2>2. /\ task' \in [Threads -> Task]
        /\ connState' \in [Conns -> {"none", "connected", "disconnecting",
                                      "disconnected"}]
    BY <1>1, <1>8, <2>1 DEF DispatchQuit, TypeOK, Task, PC
  <2>3. TypeOK'
    BY <1>8, <2>2 DEF DispatchQuit, TypeOK, Task
  <2>4. PinnedInv' /\ CallInv'
    BY <1>1, <1>8 DEF DispatchQuit, PinnedInv, CallInv, Req, Task
  <2> QED
    BY <2>3, <2>4
<1>9. ASSUME NEW t \in Threads, ShardLock(t) PROVE TypeInv'
  <2>1. task' \in [Threads -> Task]
    BY <1>1, <1>9 DEF ShardLock, Goto, Task, PC
  <2>2. TypeOK'
    BY <1>9, <2>1 DEF ShardLock, TypeOK, Task
  <2>3. PinnedInv' /\ CallInv'
    BY <1>1, <1>9 DEF ShardLock, Goto, PinnedInv, CallInv, Req, Task
  <2> QED
    BY <2>2, <2>3
<1>10. ASSUME NEW t \in Threads, Find(t) PROVE TypeInv'
  <2>1. PICK f \in Item \cup {None} :
           LET over == Req(t).cmd = "get" \/ f # None IN
           /\ task' = [task EXCEPT ![t] = At(IF over THEN "reply" ELSE "insert",
                                             @.conn, @.batch, task[t].key, f)]
           /\ lock' = IF over THEN [lock EXCEPT ![ShardOf(task[t].key)] = None]
                      ELSE lock
    <3>1. task[t].key \in Keys /\ task[t].pc = "find"
      BY <1>10 DEF Find, CallInv
    <3>2. Match(task[t].key) \subseteq Item
      BY <3>1, ShardOfType DEF Match, TypeOK
    <3> QED
      BY <1>10, <3>2 DEF Find
  <2>2. task' \in [Threads -> Task]
    BY <1>1, <2>1 DEF Task, PC
  <2>3. TypeOK'
    BY <1>10, <2>1, <2>2 DEF Find, TypeOK, Task
  <2>4. PinnedInv' /\ CallInv'
    BY <1>1, <1>10, <2>1 DEF Find, PinnedInv, CallInv, Req, Task
  <2> QED
    BY <2>3, <2>4
<1>11. ASSUME NEW t \in Threads, Insert(t) PROVE TypeInv'
  <2>1. task' \in [Threads -> Task]
    BY <1>1, <1>11 DEF Insert, Goto, Task, PC
  <2>2. [key |-> task[t].key, value |-> Req(t).value] \in Item
    BY <1>1, <1>11, BatchHeadTail, RequestFields DEF Insert, CallInv, Req, Item, Task
  <2>3. items' \in [Shards -> SUBSET Item]
    BY <1>11, <2>2 DEF Insert, TypeOK
  <2>4. TypeOK'
    BY <1>11, <2>1, <2>3 DEF Insert, TypeOK, Task
  <2>5. PinnedInv' /\ CallInv'
    BY <1>1, <1>11 DEF Insert, Goto, PinnedInv, CallInv, Req, Task
  <2> QED
    BY <2>4, <2>5
<1>12. ASSUME NEW t \in Threads, Answer(t) PROVE TypeInv'
  <2>1. /\ task[t].batch # <<>> /\ Tail(task[t].batch) \in Seq(Request)
        /\ Req(t) \in Request /\ task[t].conn \in Conns
    BY <1>1, <1>12, BatchHeadTail DEF Answer, CallInv, PinnedInv, Req, Task
  <2>2. task' \in [Threads -> Task]
    BY <1>1, <1>12, <2>1 DEF Answer, Task, PC
  <2>3. \E r \in Reply : Send(task[t].conn, r)
    <3>1. CASE Req(t).cmd = "set"
      BY <1>12, <2>1, <3>1, RequestFields DEF Answer, Reply, ClientKeys
    <3>2. CASE Req(t).cmd = "get"
      <4>1. PICK k \in Spelling(Req(t).key) :
               Send(task[t].conn, Value(k, task[t].found.value))
        BY <1>12, <3>2 DEF Answer
      <4>2. k \in Keys
        BY <2>1, <3>2, RequestFields, SpellingType
      <4>3. task[t].found.value \in Vals
        BY <1>1, <1>12, <3>2 DEF Answer, Task, Item
      <4> QED
        BY <4>1, <4>2, <4>3 DEF Reply
    <3> QED
      BY <1>12, <3>1, <3>2 DEF Answer
  <2>4. replies' \in [Conns -> Seq(Reply)]
    BY <2>1, <2>3 DEF Send, TypeOK
  <2>5. TypeOK'
    BY <1>12, <2>2, <2>4 DEF Answer, TypeOK, Task
  <2>6. PinnedInv' /\ CallInv'
    BY <1>1, <1>12 DEF Answer, PinnedInv, CallInv, Req, Task
  <2> QED
    BY <2>5, <2>6
<1>13. ASSUME NEW t \in Threads, NullItem(t) PROVE TypeInv'
  BY <1>13 DEF NullItem, TypeOK, PinnedInv, CallInv, Req
<1>14. CASE UNCHANGED vars
  BY <1>14 DEF vars, TypeOK, PinnedInv, CallInv, Req
<1> QED
  BY <1>2, <1>3, <1>4, <1>5, <1>6, <1>7, <1>8, <1>9, <1>10, <1>11, <1>12,
     <1>13, <1>14 DEF Next, ThreadStep

-----------------------------------------------------------------------------

\* The types hold in every reachable state, for any constants.
THEOREM TypeCorrect == Spec => []TypeOK
<1>1. TypeInv => TypeOK
  BY DEF TypeInv
<1> QED
  BY <1>1, InitType, NextType, PTL DEF Spec

-----------------------------------------------------------------------------
(* One item per key.  KeyUnique alone is not inductive: the step that links *)
(* an item relies on the lookup of an earlier step still being right.  It   *)
(* is, because the thread has held the shard's mutex since (LockInv), so    *)
(* that no other thread has linked anything there (FreshInv).               *)

\* A thread in the section of a shard is the one that holds its mutex.
LockInv == \A t \in Threads : InSection(t) => lock[ShardOf(task[t].key)] = t

\* The lookup of an insert is not stale when the item is linked.
FreshInv == \A t \in Threads : task[t].pc = "insert" => Match(task[t].key) = {}

SectionInv == LockInv /\ FreshInv /\ KeyUnique

StoreInv == TypeInv /\ SectionInv

\* The next state, for a step outside of the store.
LEMMA StoreElsewhere ==
    ASSUME StoreInv, UNCHANGED <<items, lock>>,
           \A u \in Threads : InSection(u)' =>
               task'[u].pc = task[u].pc /\ task'[u].key = task[u].key
    PROVE  SectionInv'
<1> USE DEF StoreInv, SectionInv, InSection
<1>1. LockInv'
  BY DEF LockInv
<1>2. FreshInv'
  BY DEF FreshInv, Match
<1>3. KeyUnique'
  BY DEF KeyUnique
<1> QED
  BY <1>1, <1>2, <1>3

LEMMA InitStore == Init => StoreInv
<1> SUFFICES ASSUME Init PROVE StoreInv
  OBVIOUS
<1>1. LockInv /\ FreshInv
  BY DEF Init, LockInv, FreshInv, InSection, Idle, At
<1>2. KeyUnique
  BY DEF Init, KeyUnique
<1> QED
  BY <1>1, <1>2, InitType DEF StoreInv, SectionInv

LEMMA NextStore == StoreInv /\ [Next]_vars => StoreInv'
<1> SUFFICES ASSUME StoreInv, [Next]_vars PROVE StoreInv'
  OBVIOUS
<1> USE DEF At
<1>1. TypeInv'
  BY NextType DEF StoreInv
<1>2. task \in [Threads -> Task]
  BY DEF StoreInv, SectionInv, TypeInv, TypeOK, Task
<1>3. ASSUME NEW c \in Conns, NEW r \in Request, ClientSend(c, r)
      PROVE  SectionInv'
  BY <1>3, StoreElsewhere DEF ClientSend, InSection
<1>4. ASSUME NEW t \in Threads, NEW c \in Conns,
             ConnectionUp(t, c) \/ ConnectionDown(t, c) \/ Message(t, c)
      PROVE  SectionInv'
  <2>1. \A u \in Threads : u # t => task'[u] = task[u]
    BY <1>2, <1>4 DEF ConnectionUp, ConnectionDown, Message
  <2>2. task'[t].pc \in {"up", "down", "dispatch"}
    BY <1>2, <1>4 DEF ConnectionUp, ConnectionDown, Message
  <2>3. UNCHANGED <<items, lock>>
    BY <1>4 DEF ConnectionUp, ConnectionDown, Message
  <2> QED
    BY <2>1, <2>2, <2>3, StoreElsewhere DEF InSection
<1>5. ASSUME NEW t \in Threads,
             SessionsLock(t) \/ SessionsInsert(t) \/ SessionsErase(t) \/ MessageDone(t)
      PROVE  SectionInv'
  <2>1. \A u \in Threads : u # t => task'[u] = task[u]
    BY <1>2, <1>5 DEF SessionsLock, Goto, SessionsInsert, SessionsErase, MessageDone
  <2>2. task'[t].pc \in {"upInsert", "downErase", "idle"}
    BY <1>2, <1>5
    DEF SessionsLock, Goto, SessionsInsert, SessionsErase, MessageDone, Idle
  <2>3. UNCHANGED <<items, lock>>
    BY <1>5 DEF SessionsLock, SessionsInsert, SessionsErase, MessageDone
  <2> QED
    BY <2>1, <2>2, <2>3, StoreElsewhere DEF InSection
<1>6. ASSUME NEW t \in Threads,
             DispatchStore(t) \/ DispatchQuit(t) \/ Answer(t)
      PROVE  SectionInv'
  <2>1. \A u \in Threads : u # t => task'[u] = task[u]
    BY <1>2, <1>6 DEF DispatchStore, DispatchQuit, Answer
  <2>2. task'[t].pc \in {"lock", "dispatch"}
    BY <1>2, <1>6 DEF DispatchStore, DispatchQuit, Answer
  <2>3. UNCHANGED <<items, lock>>
    BY <1>6 DEF DispatchStore, DispatchQuit, Answer
  <2> QED
    BY <2>1, <2>2, <2>3, StoreElsewhere DEF InSection
<1>7. ASSUME NEW t \in Threads, ShardLock(t)
      PROVE  SectionInv'
  <2> DEFINE s == ShardOf(task[t].key)
  <2>1. s \in Shards /\ lock \in [Shards -> Threads \cup {None}]
    BY <1>7, ShardOfType DEF ShardLock, StoreInv, TypeInv, TypeOK, CallInv
  <2>2. /\ lock[s] = None /\ lock' = [lock EXCEPT ![s] = t]
        /\ items' = items
        /\ task'[t].pc = "find" /\ task'[t].key = task[t].key
        /\ \A u \in Threads : u # t => task'[u] = task[u]
    BY <1>2, <1>7 DEF ShardLock, Goto
  <2>3. \A u \in Threads : InSection(u) => ShardOf(task[u].key) \in Shards
    BY ShardOfType DEF InSection, StoreInv, TypeInv, CallInv
  <2>4. LockInv'
    <3> SUFFICES ASSUME NEW u \in Threads, InSection(u)'
                 PROVE  lock'[ShardOf(task'[u].key)] = u
      BY DEF LockInv
    <3>1. CASE u = t
      BY <2>1, <2>2, <3>1
    <3>2. CASE u # t
      <4>1. task'[u] = task[u] /\ InSection(u)
        BY <2>2, <3>2 DEF InSection
      <4>2. lock[ShardOf(task[u].key)] = u /\ u # None
        BY <4>1, ServerAssumption DEF StoreInv, SectionInv, LockInv
      <4>3. ShardOf(task[u].key) \in Shards \ {s}
        BY <2>2, <2>3, <4>1, <4>2
      <4> QED
        BY <2>1, <2>2, <4>1, <4>2, <4>3
    <3> QED
      BY <3>1, <3>2
  <2>5. FreshInv'
    BY <2>2 DEF FreshInv, StoreInv, SectionInv, Match
  <2>6. KeyUnique'
    BY <2>2 DEF KeyUnique, StoreInv, SectionInv
  <2> QED
    BY <2>4, <2>5, <2>6 DEF SectionInv
<1>8. ASSUME NEW t \in Threads, Find(t)
      PROVE  SectionInv'
  <2> DEFINE k == task[t].key
             s == ShardOf(k)
  <2>1. /\ k \in Keys /\ s \in Shards /\ lock[s] = t /\ task[t].pc = "find"
        /\ lock \in [Shards -> Threads \cup {None}]
        /\ items' = items
    BY <1>8, ShardOfType
    DEF Find, StoreInv, SectionInv, TypeInv, TypeOK, CallInv, LockInv, InSection
  <2>2. PICK f \in IF Match(k) = {} THEN {None} ELSE Match(k) :
           LET over == Req(t).cmd = "get" \/ f # None IN
           /\ task' = [task EXCEPT ![t] = At(IF over THEN "reply" ELSE "insert",
                                             @.conn, @.batch, k, f)]
           /\ lock' = IF over THEN [lock EXCEPT ![s] = None] ELSE lock
    BY <1>8 DEF Find
  <2>3. /\ \A u \in Threads : u # t => task'[u] = task[u]
        /\ task'[t].key = k
        /\ \/ task'[t].pc = "reply" /\ lock' = [lock EXCEPT ![s] = None]
           \/ task'[t].pc = "insert" /\ lock' = lock /\ f = None
    BY <1>2, <2>2
  <2>4. f = None => Match(k) = {}
    <3>1. None \notin items[s]
      BY <2>1, ServerAssumption DEF StoreInv, SectionInv, TypeInv, TypeOK, Item
    <3> QED
      BY <2>2, <3>1 DEF Match
  <2>5. \A u \in Threads : InSection(u) /\ u # t => lock[ShardOf(task[u].key)] = u
    BY DEF StoreInv, SectionInv, LockInv
  <2>6. LockInv'
    BY <2>1, <2>3, <2>5, ShardOfType
    DEF InSection, LockInv, StoreInv, SectionInv, TypeInv, CallInv
  <2>7. FreshInv'
    BY <2>1, <2>3, <2>4 DEF FreshInv, StoreInv, SectionInv, Match
  <2>8. KeyUnique'
    BY <2>1 DEF KeyUnique, StoreInv, SectionInv
  <2> QED
    BY <2>6, <2>7, <2>8 DEF SectionInv
<1>9. ASSUME NEW t \in Threads, Insert(t)
      PROVE  SectionInv'
  <2> DEFINE k == task[t].key
             s == ShardOf(k)
             new == [key |-> k, value |-> Req(t).value]
  <2>1. /\ k \in Keys /\ s \in Shards /\ lock[s] = t /\ Match(k) = {}
        /\ lock \in [Shards -> Threads \cup {None}]
        /\ items \in [Shards -> SUBSET Item]
    BY <1>9, ShardOfType
    DEF Insert, StoreInv, SectionInv, TypeInv, TypeOK, CallInv, LockInv, FreshInv, InSection
  <2>2. /\ items' = [items EXCEPT ![s] = @ \cup {new}]
        /\ lock' = [lock EXCEPT ![s] = None]
        /\ task'[t].pc = "reply"
        /\ \A u \in Threads : u # t => task'[u] = task[u]
    BY <1>2, <1>9 DEF Insert, Goto
  <2>3. \A u \in Threads : InSection(u) /\ u # t =>
           ShardOf(task[u].key) \in Shards \ {s}
    BY <2>1, ShardOfType DEF StoreInv, SectionInv, TypeInv, CallInv, LockInv, InSection
  <2>4. LockInv'
    BY <2>1, <2>2, <2>3 DEF StoreInv, SectionInv, LockInv, InSection
  <2>5. FreshInv'
    BY <2>1, <2>2, <2>3 DEF StoreInv, SectionInv, FreshInv, InSection, Match
  <2>6. KeyUnique'
    BY <2>1, <2>2 DEF StoreInv, SectionInv, KeyUnique, Match
  <2> QED
    BY <2>4, <2>5, <2>6 DEF SectionInv
<1>10. ASSUME NEW t \in Threads, NullItem(t)
       PROVE  SectionInv'
  BY <1>10, StoreElsewhere DEF NullItem, InSection
<1>11. ASSUME UNCHANGED vars PROVE SectionInv'
  <2>1. UNCHANGED <<items, lock, task>>
    BY <1>11 DEF vars
  <2> QED
    BY <2>1, StoreElsewhere DEF InSection
<1>12. SectionInv'
  BY <1>3, <1>4, <1>5, <1>6, <1>7, <1>8, <1>9, <1>10, <1>11
  DEF Next, ThreadStep
<1> QED
  BY <1>1, <1>12 DEF StoreInv

\* storeItem never leaves two items of one key in the table, nor an item in a
\* shard where getItem does not look, whatever the threads do.
THEOREM UniqueKeys == Spec => []KeyUnique
<1>1. StoreInv => KeyUnique
  BY DEF StoreInv, SectionInv
<1> QED
  BY <1>1, InitStore, NextStore, PTL DEF Spec

-----------------------------------------------------------------------------
(* A client finds what it was told is stored.  An acknowledged key is in    *)
(* the table (AckInv), so the lookup of a later get finds it; and between   *)
(* the lookup and the answer no other loop writes on that connection.       *)

AckInv ==
    /\ \A c \in Conns : \A i \in 1 .. Len(replies[c]) :
          replies[c][i].kind = "STORED" => Match(replies[c][i].key) # {}
    /\ \A t \in Threads :
          task[t].pc = "reply" /\ Req(t).cmd = "set" => Match(task[t].key) # {}
    /\ ReadYourWrites

ReadInv == StoreInv /\ AckInv

\* The next state, for a step that neither stores, looks up nor answers.
LEMMA AckElsewhere ==
    ASSUME AckInv, UNCHANGED <<items, replies>>,
           \A u \in Threads : task'[u].pc = "reply" => task'[u] = task[u]
    PROVE  AckInv'
BY DEF AckInv, ReadYourWrites, Match, Req

LEMMA InitRead == Init => ReadInv
<1> SUFFICES ASSUME Init PROVE AckInv
  BY InitStore DEF ReadInv
<1> QED
  BY DEF Init, AckInv, ReadYourWrites, Idle, At

LEMMA NextRead == ReadInv /\ [Next]_vars => ReadInv'
<1> SUFFICES ASSUME ReadInv, [Next]_vars PROVE AckInv'
  BY NextStore DEF ReadInv
<1> USE DEF At
<1>1. task \in [Threads -> Task]
  BY DEF ReadInv, StoreInv, TypeInv, TypeOK, Task
<1>2. ASSUME NEW c \in Conns, NEW r \in Request, ClientSend(c, r)
      PROVE  AckInv'
  BY <1>2, AckElsewhere DEF ClientSend, ReadInv
<1>3. ASSUME NEW t \in Threads, NEW c \in Conns,
             ConnectionUp(t, c) \/ ConnectionDown(t, c) \/ Message(t, c)
      PROVE  AckInv'
  <2>1. /\ \A u \in Threads : u # t => task'[u] = task[u]
        /\ task'[t].pc \in {"up", "down", "dispatch"}
    BY <1>1, <1>3 DEF ConnectionUp, ConnectionDown, Message
  <2>2. UNCHANGED <<items, replies>>
    BY <1>3 DEF ConnectionUp, ConnectionDown, Message
  <2> QED
    BY <2>1, <2>2, AckElsewhere DEF ReadInv
<1>4. ASSUME NEW t \in Threads,
             SessionsLock(t) \/ SessionsInsert(t) \/ SessionsErase(t) \/ MessageDone(t)
      PROVE  AckInv'
  <2>1. \A u \in Threads : u # t => task'[u] = task[u]
    BY <1>1, <1>4 DEF SessionsLock, Goto, SessionsInsert, SessionsErase, MessageDone
  <2>2. task'[t].pc \in {"upInsert", "downErase", "idle"}
    BY <1>1, <1>4
    DEF SessionsLock, Goto, SessionsInsert, SessionsErase, MessageDone, Idle
  <2>3. UNCHANGED <<items, replies>>
    BY <1>4 DEF SessionsLock, SessionsInsert, SessionsErase, MessageDone
  <2> QED
    BY <2>1, <2>2, <2>3, AckElsewhere DEF ReadInv
<1>5. ASSUME NEW t \in Threads,
             DispatchStore(t) \/ DispatchQuit(t) \/ ShardLock(t)
      PROVE  AckInv'
  <2>1. /\ \A u \in Threads : u # t => task'[u] = task[u]
        /\ task'[t].pc \in {"lock", "dispatch", "find"}
    BY <1>1, <1>5 DEF DispatchStore, DispatchQuit, ShardLock, Goto
  <2>2. UNCHANGED <<items, replies>>
    BY <1>5 DEF DispatchStore, DispatchQuit, ShardLock
  <2> QED
    BY <2>1, <2>2, AckElsewhere DEF ReadInv
<1>6. ASSUME NEW t \in Threads, Find(t) PROVE AckInv'
  <2> DEFINE k == task[t].key
  <2>1. /\ k \in Keys /\ task[t].conn \in Conns
        /\ Req(t).cmd \in {"set", "get"}
        /\ Req(t).cmd = "get" => k \in Spelling(Req(t).key)
        /\ UNCHANGED <<items, replies>>
    BY <1>6 DEF Find, ReadInv, StoreInv, TypeInv, CallInv, PinnedInv
  <2>2. PICK f \in IF Match(k) = {} THEN {None} ELSE Match(k) :
           task' = [task EXCEPT ![t] =
                       At(IF Req(t).cmd = "get" \/ f # None THEN "reply"
                          ELSE "insert", @.conn, @.batch, k, f)]
    BY <1>6 DEF Find
  <2>3. /\ \A u \in Threads : u # t => task'[u] = task[u]
        /\ task'[t].conn = task[t].conn /\ task'[t].batch = task[t].batch
        /\ task'[t].key = k /\ task'[t].found = f
        /\ task'[t].pc = "reply" => Req(t).cmd = "get" \/ f # None
    BY <1>1, <2>2
  <2>4. Match(k) = {} <=> f = None
    <3>1. None \notin items[ShardOf(k)]
      BY <2>1, ShardOfType, ServerAssumption
      DEF ReadInv, StoreInv, TypeInv, TypeOK, Item
    <3> QED
      BY <2>2, <3>1 DEF Match
  <2>5. ASSUME Req(t).cmd = "get", f = None, Req(t).key \notin DanglingKeys,
               NEW i \in 1 .. Len(replies[task[t].conn])
        PROVE  replies[task[t].conn][i] # Stored(Req(t).key)
    <3>1. Match(Req(t).key) = {}
      BY <2>1, <2>4, <2>5 DEF Spelling
    <3> QED
      BY <2>1, <2>5, <3>1 DEF ReadInv, AckInv, Stored
  <2>6. Req(t)' = Req(t) /\ \A u \in Threads : u # t => Req(u)' = Req(u)
    BY <2>3 DEF Req
  <2>7. \A u \in Threads :
           task'[u].pc = "reply" /\ Req(u)'.cmd = "set" => Match(task'[u].key) # {}
    BY <2>3, <2>4, <2>6 DEF ReadInv, AckInv
  <2>8. ReadYourWrites'
    <3> SUFFICES ASSUME NEW u \in Threads, task'[u].pc = "reply",
                        Req(u)'.cmd = "get", task'[u].found = None
                 PROVE  \/ Req(u)'.key \in DanglingKeys
                        \/ \A i \in 1 .. Len(replies'[task'[u].conn]) :
                              replies'[task'[u].conn][i] # Stored(Req(u)'.key)
      BY DEF ReadYourWrites
    <3>1. CASE u = t
      BY <2>1, <2>3, <2>5, <2>6, <3>1
    <3>2. CASE u # t
      BY <2>1, <2>3, <2>6, <3>2 DEF ReadInv, AckInv, ReadYourWrites
    <3> QED
      BY <3>1, <3>2
  <2> QED
    BY <2>1, <2>7, <2>8 DEF ReadInv, AckInv, Match
<1>7. ASSUME NEW t \in Threads, Insert(t) PROVE AckInv'
  <2> DEFINE k == task[t].key
             s == ShardOf(k)
  <2>1. /\ k \in Keys /\ s \in Shards /\ items \in [Shards -> SUBSET Item]
        /\ replies' = replies /\ Req(t).cmd = "set"
    BY <1>7, ShardOfType
    DEF Insert, ReadInv, StoreInv, TypeInv, TypeOK, CallInv
  <2>2. /\ items' = [items EXCEPT ![s] = @ \cup {[key |-> k, value |-> Req(t).value]}]
        /\ \A u \in Threads : u # t => task'[u] = task[u]
        /\ task'[t].key = k /\ task'[t].batch = task[t].batch
    BY <1>1, <1>7 DEF Insert, Goto
  <2>3. \A q \in Keys : Match(q) # {} => Match(q)' # {}
    BY <2>1, <2>2, ShardOfType DEF Match
  <2>4. ASSUME NEW q \in Keys, q = k PROVE Match(q)' # {}
    <3>1. [key |-> q, value |-> Req(t).value] \in items'[ShardOf(q)]
      BY <2>1, <2>2, <2>4
    <3> QED
      BY <3>1 DEF Match
  <2>5. Req(t)' = Req(t) /\ \A u \in Threads : u # t => Req(u)' = Req(u)
    BY <2>2 DEF Req
  <2>6. \A c \in Conns : \A i \in 1 .. Len(replies[c]) : replies[c][i].key \in Keys
    <3>1. \A r \in Reply : r.key \in Keys
      BY DEF Reply, Stored, Value
    <3> QED
      BY <3>1 DEF ReadInv, StoreInv, TypeInv, TypeOK
  <2>7. \A c \in Conns : \A i \in 1 .. Len(replies'[c]) :
           replies'[c][i].kind = "STORED" => Match(replies[c][i].key)' # {}
    BY <2>1, <2>3, <2>6 DEF ReadInv, AckInv
  <2>8. \A u \in Threads :
           task'[u].pc = "reply" /\ Req(u)'.cmd = "set" => Match(task[u].key)' # {}
    <3> SUFFICES ASSUME NEW u \in Threads, task'[u].pc = "reply",
                        Req(u)'.cmd = "set"
                 PROVE  Match(task[u].key)' # {}
      OBVIOUS
    <3>1. CASE u = t
      BY <2>1, <2>2, <2>4, <3>1
    <3>2. CASE u # t
      <4>1. task[u].key \in Keys /\ Match(task[u].key) # {} /\ task'[u] = task[u]
        BY <2>2, <2>5, <3>2 DEF ReadInv, AckInv, StoreInv, TypeInv, CallInv
      <4> QED
        BY <2>3, <4>1
    <3> QED
      BY <3>1, <3>2
  <2>9. ReadYourWrites'
    BY <2>1, <2>2, <2>5 DEF ReadInv, AckInv, ReadYourWrites
  <2> QED
    BY <2>1, <2>2, <2>7, <2>8, <2>9 DEF AckInv, Match
<1>8. ASSUME NEW t \in Threads, Answer(t) PROVE AckInv'
  <2> DEFINE d == task[t].conn
  <2>1. /\ d \in Conns /\ LoopOf[d] = t /\ items' = items
        /\ replies \in [Conns -> Seq(Reply)]
        /\ Req(t).cmd = "set" => task[t].key = Req(t).key
        /\ Req(t).cmd \in {"set", "get"}
    BY <1>8 DEF Answer, ReadInv, StoreInv, TypeInv, TypeOK, CallInv, PinnedInv
  <2>2. /\ \A u \in Threads : u # t => task'[u] = task[u]
        /\ task'[t].pc = "dispatch"
    BY <1>1, <1>8 DEF Answer
  <2>3. PICK r :
           /\ Send(d, r)
           /\ r.kind = "STORED" => r.key = task[t].key /\ Req(t).cmd = "set"
    <3>1. CASE Req(t).cmd = "set"
      BY <1>8, <2>1, <3>1 DEF Answer, Stored
    <3>2. CASE Req(t).cmd = "get"
      <4>1. PICK k \in Spelling(Req(t).key) : Send(d, Value(k, task[t].found.value))
        BY <1>8, <3>2 DEF Answer
      <4>2. Value(k, task[t].found.value).kind # "STORED"
        BY DEF Value
      <4> QED
        BY <4>1, <4>2
    <3> QED
      BY <2>1, <3>1, <3>2
  <2>4. \A c \in Conns : c # d => replies'[c] = replies[c]
    BY <2>1, <2>3 DEF Send
  <2>5. \A i \in 1 .. Len(replies'[d]) :
           \/ i \in 1 .. Len(replies[d]) /\ replies'[d][i] = replies[d][i]
           \/ replies'[d][i] = r
    BY <2>1, <2>3 DEF Send
  <2>6. r.kind = "STORED" => Match(r.key) # {}
    BY <1>8, <2>3 DEF Answer, ReadInv, AckInv
  <2>7. \A c \in Conns : \A i \in 1 .. Len(replies'[c]) :
           replies'[c][i].kind = "STORED" => Match(replies'[c][i].key) # {}
    BY <2>4, <2>5, <2>6 DEF ReadInv, AckInv
  <2>8. \A u \in Threads : u # t /\ task[u].pc = "reply" => task[u].conn \in Conns \ {d}
    BY <2>1 DEF ReadInv, StoreInv, TypeInv, PinnedInv
  <2>9. \A u \in Threads : u # t => Req(u)' = Req(u)
    BY <2>2 DEF Req
  <2>10. ReadYourWrites'
    BY <2>2, <2>4, <2>8, <2>9 DEF ReadInv, AckInv, ReadYourWrites
  <2>11. \A u \in Threads :
            task'[u].pc = "reply" /\ Req(u)'.cmd = "set" => Match(task'[u].key) # {}
    BY <2>2, <2>9 DEF ReadInv, AckInv
  <2> QED
    BY <2>1, <2>7, <2>10, <2>11 DEF AckInv, Match
<1>9. ASSUME NEW t \in Threads, NullItem(t) PROVE AckInv'
  BY <1>9, AckElsewhere DEF NullItem, ReadInv
<1>10. CASE UNCHANGED vars
  <2>1. UNCHANGED <<items, replies, task>>
    BY <1>10 DEF vars
  <2> QED
    BY <2>1, AckElsewhere DEF ReadInv
<1> QED
  BY <1>2, <1>3, <1>4, <1>5, <1>6, <1>7, <1>8, <1>9, <1>10 DEF Next, ThreadStep

\* No interleaving of the threads makes a get lose a key that its own client
\* was told is stored, so such a get never ends the process.
THEOREM OwnWritesAreRead == Spec => []ReadYourWrites
<1>1. ReadInv => ReadYourWrites
  BY DEF ReadInv, AckInv
<1> QED
  BY <1>1, InitRead, NextRead, PTL DEF Spec

-----------------------------------------------------------------------------
(* The session map.  A connection's callbacks run one after the other on   *)
(* its loop, so whether its Session is in the map follows from the state   *)
(* of the connection and from what that loop is doing.                     *)

Up(c) == task[LoopOf[c]].conn = c /\ task[LoopOf[c]].pc \in {"up", "upInsert"}
Down(c) == task[LoopOf[c]].conn = c /\ task[LoopOf[c]].pc \in {"down", "downErase"}
Open(c) == connState[c] \in {"connected", "disconnecting"}

MapInv ==
    /\ \A c \in Conns :
          /\ Up(c) => Open(c) /\ c \notin sessions
          /\ Down(c) => connState[c] = "disconnected" /\ c \in sessions
          /\ connState[c] = "none" => c \notin sessions
          /\ Open(c) /\ ~Up(c) => c \in sessions
    /\ \A t \in Threads :
          task[t].pc \in {"dispatch", "lock", "find", "insert", "reply"}
            => Open(task[t].conn)

SessionInv == TypeInv /\ MapInv

LEMMA InitSession == Init => SessionInv
<1> SUFFICES ASSUME Init PROVE MapInv
  BY InitType DEF SessionInv
<1> QED
  BY ServerAssumption DEF Init, MapInv, Up, Down, Open, Idle, At

LEMMA NextSession == SessionInv /\ [Next]_vars => SessionInv'
<1> SUFFICES ASSUME SessionInv, [Next]_vars PROVE MapInv'
  BY NextType DEF SessionInv
<1> USE DEF At, Up, Down, Open
<1>1. /\ task \in [Threads -> Task] /\ MapInv /\ PinnedInv
      /\ connState \in [Conns -> {"none", "connected", "disconnecting", "disconnected"}]
      /\ \A c \in Conns : LoopOf[c] \in Threads
  BY ServerAssumption DEF SessionInv, TypeInv, TypeOK, Task
<1>2. ASSUME NEW c \in Conns, NEW r \in Request, ClientSend(c, r)
      PROVE  MapInv'
  BY <1>1, <1>2 DEF ClientSend, MapInv
<1>3. ASSUME NEW t \in Threads, NEW c \in Conns, ConnectionUp(t, c)
      PROVE  MapInv'
  BY <1>1, <1>3 DEF ConnectionUp, MapInv, PinnedInv
<1>4. ASSUME NEW t \in Threads, NEW c \in Conns, ConnectionDown(t, c)
      PROVE  MapInv'
  BY <1>1, <1>4 DEF ConnectionDown, MapInv, PinnedInv
<1>5. ASSUME NEW t \in Threads, NEW c \in Conns, Message(t, c)
      PROVE  MapInv'
  BY <1>1, <1>5 DEF Message, MapInv, PinnedInv
<1>6. ASSUME NEW t \in Threads, SessionsLock(t) PROVE MapInv'
  BY <1>1, <1>6 DEF SessionsLock, Goto, MapInv, PinnedInv
<1>7. ASSUME NEW t \in Threads, SessionsInsert(t) PROVE MapInv'
  BY <1>1, <1>7 DEF SessionsInsert, Idle, MapInv, PinnedInv
<1>8. ASSUME NEW t \in Threads, SessionsErase(t) PROVE MapInv'
  BY <1>1, <1>8 DEF SessionsErase, Idle, MapInv, PinnedInv
<1>9. ASSUME NEW t \in Threads, MessageDone(t) PROVE MapInv'
  BY <1>1, <1>9 DEF MessageDone, Idle, MapInv, PinnedInv
<1>10. ASSUME NEW t \in Threads, DispatchQuit(t) PROVE MapInv'
  BY <1>1, <1>10 DEF DispatchQuit, MapInv, PinnedInv
<1>11. ASSUME NEW t \in Threads,
              DispatchStore(t) \/ ShardLock(t) \/ Find(t) \/ Insert(t)
                \/ Answer(t) \/ NullItem(t)
       PROVE  MapInv'
  <2>1. /\ \A u \in Threads : u # t => task'[u] = task[u]
        /\ task'[t].conn = task[t].conn
        /\ task[t].pc \in {"dispatch", "lock", "find", "insert", "reply"}
        /\ task'[t].pc \in {"dispatch", "lock", "find", "insert", "reply"}
    BY <1>1, <1>11
    DEF DispatchStore, ShardLock, Find, Insert, Answer, NullItem, Goto
  <2>2. UNCHANGED <<connState, sessions>>
    BY <1>11 DEF DispatchStore, ShardLock, Find, Insert, Answer, NullItem
  <2> QED
    BY <1>1, <2>1, <2>2 DEF MapInv
<1>12. CASE UNCHANGED vars
  BY <1>1, <1>12 DEF vars, MapInv
<1> QED
  BY <1>2, <1>3, <1>4, <1>5, <1>6, <1>7, <1>8, <1>9, <1>10, <1>11, <1>12
  DEF Next, ThreadStep

\* The raw Session pointer in the message callback is never used after the
\* Session is gone, and the assertions of onConnection hold.
THEOREM SessionsAreAlive == Spec => []SessionLifetime
<1>1. SessionInv => SessionLifetime
  BY DEF SessionInv, TypeInv, PinnedInv, MapInv, SessionLifetime, Up, Down, Open
<1> QED
  BY <1>1, InitSession, NextSession, PTL DEF Spec

-----------------------------------------------------------------------------
(* Pipelined requests are answered in order.  Three facts have to be known: *)
(* the requests a loop has in its hands are the last ones it has taken, and *)
(* as long as the connection is not shut down all earlier ones have their   *)
(* reply (OrderInv); and what the store holds or has found was sent by a    *)
(* client for that key (OriginInv).                                         *)

\* The requests of c that its loop has taken and not finished.
Pending(c) ==
    IF /\ task[LoopOf[c]].conn = c
       /\ task[LoopOf[c]].pc \in {"dispatch", "lock", "find", "insert", "reply"}
    THEN task[LoopOf[c]].batch ELSE <<>>

\* n of the requests s are taken, the last of them are pending in b, and in
\* state st the others have q replies.
InOrder(s, n, b, q, st) ==
    /\ n <= Len(s) /\ Len(b) <= n
    /\ \A k \in 1 .. Len(b) : b[k] = s[n - Len(b) + k]
    /\ st = "none" => b = <<>>
    /\ st \in {"none", "connected"} => q = n - Len(b)

OrderInv ==
    \A c \in Conns :
        InOrder(sent[c], taken[c], Pending(c), Len(replies[c]), connState[c])

\* Some client has sent a set of item i.
Asked(i) ==
    \E d \in Conns : \E j \in 1 .. Len(sent[d]) : sent[d][j] = Set(i.key, i.value)

OriginInv ==
    /\ \A s \in Shards : \A i \in items[s] : Asked(i)
    /\ \A t \in Threads : task[t].found # None =>
          Asked(task[t].found) /\ task[t].found.key = task[t].key

AnswerInv == TypeInv /\ OrderInv /\ OriginInv /\ RepliesAnswerRequests

LEMMA InOrderSend ==
    ASSUME NEW s \in Seq(Request), NEW n \in Nat, NEW b \in Seq(Request),
           NEW q, NEW st, NEW r \in Request, InOrder(s, n, b, q, st)
    PROVE  InOrder(Append(s, r), n, b, q, st)
<1>1. /\ Len(s) \in Nat /\ Len(b) \in Nat /\ Len(Append(s, r)) = Len(s) + 1
      /\ \A k \in 1 .. Len(s) : Append(s, r)[k] = s[k]
  OBVIOUS
<1>2. n <= Len(s) /\ Len(b) <= n
  BY DEF InOrder
<1>3. \A k \in 1 .. Len(b) : n - Len(b) + k \in 1 .. Len(s)
  BY <1>1, <1>2
<1>4. \A k \in 1 .. Len(b) : b[k] = Append(s, r)[n - Len(b) + k]
  BY <1>1, <1>3, Zenon DEF InOrder
<1>5. n <= Len(Append(s, r))
  BY <1>1, <1>2
<1> QED
  BY <1>4, <1>5, Zenon DEF InOrder

LEMMA InOrderTake ==
    ASSUME NEW s \in Seq(Request), NEW n \in Nat, NEW q, NEW st, st # "none",
           NEW m \in n + 1 .. Len(s), InOrder(s, n, <<>>, q, st)
    PROVE  InOrder(s, m, SubSeq(s, n + 1, m), q, st)
<1>1. /\ Len(SubSeq(s, n + 1, m)) = m - n /\ m \in Nat /\ Len(s) \in Nat
      /\ \A k \in 1 .. m - n : SubSeq(s, n + 1, m)[k] = s[n + k]
  BY SMTT(60)
<1>2. m - (m - n) = n
  BY <1>1
<1>3. st = "connected" => q = n
  BY DEF InOrder
<1> QED
  BY <1>1, <1>2, <1>3 DEF InOrder

LEMMA InOrderTail ==
    ASSUME NEW s \in Seq(Request), NEW n \in Nat, NEW b \in Seq(Request),
           b # <<>>, NEW q \in Nat, NEW st, InOrder(s, n, b, q, st)
    PROVE  /\ Head(b) = s[n - Len(b) + 1] /\ n - Len(b) + 1 \in 1 .. Len(s)
           /\ st = "connected" =>
                 q = n - Len(b) /\ InOrder(s, n, Tail(b), q + 1, st)
           /\ st # "connected" => InOrder(s, n, Tail(b), q, st)
           /\ InOrder(s, n, Tail(b), q, "disconnecting")
<1>1. /\ Len(b) \in Nat /\ Len(b) > 0 /\ Len(Tail(b)) = Len(b) - 1
      /\ \A k \in 1 .. Len(b) - 1 : Tail(b)[k] = b[k + 1]
      /\ Head(b) = b[1] /\ Len(s) \in Nat
  OBVIOUS
<1>2. /\ n <= Len(s) /\ Len(b) <= n /\ st # "none"
      /\ st = "connected" => q = n - Len(b)
  BY DEF InOrder
<1>3. \A k \in 1 .. Len(b) - 1 :
         k + 1 \in 1 .. Len(b) /\ n - Len(b) + (k + 1) = n - (Len(b) - 1) + k
  BY <1>1, <1>2
<1>4. \A k \in 1 .. Len(b) - 1 : Tail(b)[k] = s[n - (Len(b) - 1) + k]
  BY <1>1, <1>3, Zenon DEF InOrder
<1>5. /\ Len(Tail(b)) <= n
      /\ \A k \in 1 .. Len(Tail(b)) : Tail(b)[k] = s[n - Len(Tail(b)) + k]
  <2>1. Len(Tail(b)) <= n
    BY <1>1, <1>2
  <2>2. Len(Tail(b)) = Len(b) - 1
    BY <1>1
  <2> QED
    BY <1>4, <2>1, <2>2, Zenon
<1>6. 1 \in 1 .. Len(b) /\ n - Len(b) + 1 \in 1 .. Len(s)
  BY <1>1, <1>2
<1>7. Head(b) = s[n - Len(b) + 1]
  BY <1>1, <1>6, Zenon DEF InOrder
<1>8. st = "connected" => q + 1 = n - Len(Tail(b))
  BY <1>1, <1>2
<1>9. st = "connected" => InOrder(s, n, Tail(b), q + 1, st)
  BY <1>2, <1>5, <1>8, Zenon DEF InOrder
<1>10. st # "connected" => InOrder(s, n, Tail(b), q, st)
  BY <1>2, <1>5 DEF InOrder
<1>11. InOrder(s, n, Tail(b), q, "disconnecting")
  BY <1>2, <1>5 DEF InOrder
<1> QED
  BY <1>2, <1>6, <1>7, <1>9, <1>10, <1>11

\* What the state of a connection may become without harm.
LEMMA InOrderState ==
    ASSUME NEW s, NEW n, NEW b, NEW q, NEW st, NEW su, InOrder(s, n, b, q, st),
           \/ su = st \/ su \in {"disconnecting", "disconnected"}
           \/ st = "none" /\ su = "connected"
    PROVE  InOrder(s, n, b, q, su)
BY DEF InOrder

LEMMA InOrderEmpty ==
    ASSUME NEW st
    PROVE  InOrder(<<>>, 0, <<>>, Len(<<>>), st)
<1>1. Len(<<>>) = 0
  OBVIOUS
<1>2. \A k \in 1 .. 0 : FALSE
  OBVIOUS
<1>3. 0 <= 0 /\ 0 = 0 - 0
  OBVIOUS
<1> QED
  BY <1>1, <1>2, <1>3, Zenon DEF InOrder

LEMMA InitAnswer == Init => AnswerInv
<1> SUFFICES ASSUME Init PROVE OrderInv /\ OriginInv /\ RepliesAnswerRequests
  BY InitType DEF AnswerInv
<1>1. ASSUME NEW c \in Conns
      PROVE  InOrder(sent[c], taken[c], Pending(c), Len(replies[c]), connState[c])
  <2>1. /\ sent[c] = <<>> /\ taken[c] = 0 /\ replies[c] = <<>>
        /\ task[LoopOf[c]].pc = "idle"
    BY ServerAssumption DEF Init, Idle, At
  <2>2. Pending(c) = <<>>
    BY <2>1 DEF Pending
  <2>3. InOrder(<<>>, 0, <<>>, Len(<<>>), connState[c])
    BY InOrderEmpty
  <2> QED
    BY <2>1, <2>2, <2>3, Zenon
<1>2. OriginInv
  BY DEF Init, OriginInv, Idle, At
<1>3. RepliesAnswerRequests
  BY DEF Init, RepliesAnswerRequests
<1> QED
  BY <1>1, <1>2, <1>3 DEF OrderInv

\* Requests stay where they are in the stream.
LEMMA SentGrows ==
    ASSUME TypeInv, [Next]_vars, NEW c \in Conns
    PROVE  /\ Len(sent[c]) \in Nat /\ Len(sent'[c]) \in Nat
           /\ Len(sent[c]) <= Len(sent'[c])
           /\ \A j \in 1 .. Len(sent[c]) : sent'[c][j] = sent[c][j]
<1>1. sent \in [Conns -> Seq(Request)]
  BY DEF TypeInv, TypeOK
<1>2. ASSUME NEW d \in Conns, NEW r \in Request, ClientSend(d, r)
      PROVE  sent'[c] = sent[c] \/ sent'[c] = Append(sent[c], r)
  BY <1>1, <1>2 DEF ClientSend
<1>3. \/ sent' = sent \/ \E d \in Conns, r \in Request : ClientSend(d, r)
  BY DEF Next, ThreadStep, vars, ConnectionUp, ConnectionDown, Message,
         SessionsLock, SessionsInsert, SessionsErase, DispatchStore,
         DispatchQuit, MessageDone, ShardLock, Find, Insert, Answer, NullItem
<1>4. sent'[c] = sent[c] \/ \E r \in Request : sent'[c] = Append(sent[c], r)
  BY <1>2, <1>3, Zenon
<1>5. PICK s \in Seq(Request) : s = sent[c]
  BY <1>1
<1>6. /\ Len(s) \in Nat
      /\ \A r \in Request : /\ Len(Append(s, r)) = Len(s) + 1
                            /\ \A j \in 1 .. Len(s) : Append(s, r)[j] = s[j]
  OBVIOUS
<1>7. CASE sent'[c] = s
  BY <1>5, <1>6, <1>7
<1>8. ASSUME NEW r \in Request, sent'[c] = Append(s, r)
      PROVE  /\ Len(sent'[c]) \in Nat /\ Len(s) <= Len(sent'[c])
             /\ \A j \in 1 .. Len(s) : sent'[c][j] = s[j]
  <2>1. Len(sent'[c]) = Len(s) + 1
    BY <1>6, <1>8, Zenon
  <2> QED
    BY <1>6, <1>8, <2>1
<1> QED
  BY <1>4, <1>5, <1>6, <1>7, <1>8

LEMMA AskedStays ==
    ASSUME TypeInv, [Next]_vars, NEW i, Asked(i)
    PROVE  Asked(i)'
<1>0. PICK d \in Conns :
         \E j \in 1 .. Len(sent[d]) : sent[d][j] = Set(i.key, i.value)
  BY DEF Asked
<1>1. PICK j \in 1 .. Len(sent[d]) : sent[d][j] = Set(i.key, i.value)
  BY <1>0
<1>2. j \in 1 .. Len(sent'[d]) /\ sent'[d][j] = sent[d][j]
  BY <1>1, SentGrows
<1> QED
  BY <1>1, <1>2, Zenon DEF Asked

\* A step of loop t leaves the pending requests of the others alone.
LEMMA PendingElsewhere ==
    ASSUME TypeInv, NEW t \in Threads, NEW c \in Conns, NEW d \in Conns, c # d,
           \A u \in Threads : u # t => task'[u] = task[u],
           task[t].pc = "idle" \/ task[t].conn = c,
           task'[t].pc = "idle" \/ task'[t].conn = c
    PROVE  Pending(d)' = Pending(d)
<1>1. LoopOf[d] \in Threads
  BY ServerAssumption
<1> QED
  BY <1>1 DEF Pending

LEMMA NextOrder == TypeInv /\ OrderInv /\ [Next]_vars => OrderInv'
<1> SUFFICES ASSUME TypeInv, OrderInv, [Next]_vars,
                    NEW d \in Conns
             PROVE  InOrder(sent[d], taken[d], Pending(d), Len(replies[d]),
                            connState[d])'
  BY DEF OrderInv
<1> USE DEF At
<1>1. /\ task \in [Threads -> Task] /\ LoopOf[d] \in Threads
      /\ sent \in [Conns -> Seq(Request)] /\ taken \in [Conns -> Nat]
      /\ replies \in [Conns -> Seq(Reply)] /\ PinnedInv
      /\ connState \in [Conns -> {"none", "connected", "disconnecting",
                                    "disconnected"}]
  BY ServerAssumption DEF TypeInv, TypeOK, Task
<1>2. PICK s \in Seq(Request), n \in Nat, b \in Seq(Request), q \in Nat :
         /\ s = sent[d] /\ n = taken[d] /\ b = Pending(d)
         /\ q = Len(replies[d])
         /\ InOrder(s, n, b, q, connState[d])
  <2>1. Pending(d) \in Seq(Request)
    BY <1>1 DEF Pending, Task
  <2>2. Len(replies[d]) \in Nat
    BY <1>1
  <2>3. InOrder(sent[d], taken[d], Pending(d), Len(replies[d]), connState[d])
    BY DEF OrderInv
  <2> QED
    BY <1>1, <2>1, <2>2, <2>3
\* The pending requests stay, and so does the rest but for the state.
<1>3. ASSUME UNCHANGED <<sent, taken, replies>>, Pending(d)' = Pending(d),
             \/ connState'[d] = connState[d]
             \/ connState'[d] \in {"disconnecting", "disconnected"}
             \/ connState[d] = "none" /\ connState'[d] = "connected"
      PROVE  InOrder(sent[d], taken[d], Pending(d), Len(replies[d]),
                     connState[d])'
  BY <1>2, <1>3, InOrderState
<1>4. ASSUME NEW c \in Conns, NEW r \in Request, ClientSend(c, r)
      PROVE  InOrder(sent[d], taken[d], Pending(d), Len(replies[d]),
                     connState[d])'
  <2>1. /\ UNCHANGED <<taken, replies, connState>> /\ Pending(d)' = Pending(d)
        /\ sent'[d] = sent[d] \/ sent'[d] = Append(sent[d], r)
    BY <1>1, <1>4 DEF ClientSend, Pending
  <2> QED
    BY <1>2, <2>1, InOrderSend
<1>5. ASSUME NEW t \in Threads, NEW c \in Conns,
             ConnectionUp(t, c) \/ ConnectionDown(t, c)
      PROVE  InOrder(sent[d], taken[d], Pending(d), Len(replies[d]),
                     connState[d])'
  <2>1. /\ UNCHANGED <<sent, taken, replies>>
        /\ \/ connState'[d] = connState[d]
           \/ connState'[d] = "disconnected"
           \/ connState[d] = "none" /\ connState'[d] = "connected"
    BY <1>1, <1>5 DEF ConnectionUp, ConnectionDown
  <2>2. Pending(d)' = Pending(d)
    <3>1. /\ \A u \in Threads : u # t => task'[u] = task[u]
          /\ task[t].pc = "idle" /\ task'[t].pc \in {"up", "down"}
      BY <1>1, <1>5 DEF ConnectionUp, ConnectionDown
    <3> QED
      BY <1>1, <3>1 DEF Pending
  <2> QED
    BY <1>3, <2>1, <2>2
<1>6. ASSUME NEW t \in Threads,
             \/ SessionsLock(t) \/ SessionsInsert(t) \/ SessionsErase(t)
             \/ DispatchStore(t) \/ MessageDone(t) \/ ShardLock(t) \/ Find(t)
             \/ Insert(t) \/ NullItem(t)
      PROVE  InOrder(sent[d], taken[d], Pending(d), Len(replies[d]),
                     connState[d])'
  <2>1. UNCHANGED <<sent, taken, replies, connState>>
    BY <1>6 DEF SessionsLock, SessionsInsert, SessionsErase, DispatchStore,
                MessageDone, ShardLock, Find, Insert, NullItem
  <2>2. Pending(d)' = Pending(d)
    <3>1. CASE SessionsLock(t) \/ SessionsInsert(t) \/ SessionsErase(t)
      <4>1. /\ \A u \in Threads : u # t => task'[u] = task[u]
            /\ task[t].pc \in {"up", "down", "upInsert", "downErase"}
            /\ task'[t].pc \in {"idle", "upInsert", "downErase"}
        BY <1>1, <3>1
        DEF SessionsLock, SessionsInsert, SessionsErase, Goto, Idle
      <4> QED
        BY <1>1, <4>1 DEF Pending
    <3>2. CASE MessageDone(t)
      BY <1>1, <3>2 DEF MessageDone, Idle, Pending
    <3>3. CASE DispatchStore(t) \/ ShardLock(t) \/ Find(t) \/ Insert(t)
               \/ NullItem(t)
      <4>1. /\ \A u \in Threads : u # t => task'[u] = task[u]
            /\ task'[t].conn = task[t].conn /\ task'[t].batch = task[t].batch
            /\ task[t].pc \in {"dispatch", "lock", "find", "insert", "reply"}
            /\ task'[t].pc \in {"dispatch", "lock", "find", "insert", "reply"}
        BY <1>1, <3>3
        DEF DispatchStore, ShardLock, Find, Insert, NullItem, Goto
      <4> QED
        BY <1>1, <4>1 DEF Pending
    <3> QED
      BY <1>6, <3>1, <3>2, <3>3
  <2> QED
    BY <1>3, <2>1, <2>2
<1>7. ASSUME NEW t \in Threads, NEW c \in Conns, Message(t, c)
      PROVE  InOrder(sent[d], taken[d], Pending(d), Len(replies[d]),
                     connState[d])'
  <2>1. PICK m \in taken[c] + 1 .. Len(sent[c]) :
           /\ task' = [task EXCEPT ![t] =
                          At("dispatch", c, SubSeq(sent[c], taken[c] + 1, m),
                             None, None)]
           /\ taken' = [taken EXCEPT ![c] = m]
    BY <1>7 DEF Message
  <2>2. /\ UNCHANGED <<sent, replies, connState>> /\ LoopOf[c] = t
        /\ task[t].pc = "idle" /\ connState[c] # "none"
    BY <1>7 DEF Message
  <2>3. CASE c # d
    <3>1. taken'[d] = taken[d]
      BY <1>1, <2>1, <2>3
    <3>2. Pending(d)' = Pending(d)
      BY <1>1, <2>1, <2>2, <2>3, PendingElsewhere
    <3> QED
      BY <1>2, <2>2, <3>1, <3>2
  <2>4. CASE c = d
    <3>1. taken'[d] = m /\ m \in n + 1 .. Len(s)
      BY <1>1, <1>2, <2>1, <2>4
    <3>2. Pending(d) = <<>>
      BY <2>2, <2>4 DEF Pending
    <3>3. Pending(d)' = SubSeq(s, n + 1, m)
      BY <1>1, <1>2, <2>1, <2>2, <2>4 DEF Pending
    <3>4. InOrder(s, m, SubSeq(s, n + 1, m), q, connState[d])
      BY <1>2, <2>2, <2>4, <3>1, <3>2, InOrderTake
    <3> QED
      BY <1>2, <2>2, <3>1, <3>3, <3>4
  <2> QED
    BY <2>3, <2>4
<1>8. ASSUME NEW t \in Threads, DispatchQuit(t) \/ Answer(t)
      PROVE  InOrder(sent[d], taken[d], Pending(d), Len(replies[d]),
                     connState[d])'
  <2> DEFINE c == task[t].conn
  <2>1. /\ c \in Conns /\ LoopOf[c] = t /\ task[t].batch # <<>>
        /\ task[t].pc \in {"dispatch", "reply"} /\ UNCHANGED <<sent, taken>>
        /\ \A u \in Threads : u # t => task'[u] = task[u]
        /\ task'[t].conn = c /\ task'[t].batch = Tail(task[t].batch)
        /\ task'[t].pc = "dispatch"
    <3>1. /\ task[t].batch # <<>> /\ task[t].pc \in {"dispatch", "reply"}
          /\ UNCHANGED <<sent, taken>>
          /\ task' = [task EXCEPT ![t] = At("dispatch", @.conn, Tail(@.batch),
                                            None, None)]
      BY <1>8 DEF DispatchQuit, Answer, TypeInv, CallInv
    <3>2. c \in Conns /\ LoopOf[c] = t
      BY <1>1, <3>1 DEF PinnedInv
    <3> QED
      BY <1>1, <3>1, <3>2
  <2>2. CASE c # d
    <3>1. Pending(d)' = Pending(d)
      BY <2>1, <2>2, PendingElsewhere
    <3>2. replies'[d] = replies[d] /\ connState'[d] = connState[d]
      BY <1>1, <1>8, <2>2 DEF DispatchQuit, Answer, Send
    <3> QED
      BY <1>2, <2>1, <3>1, <3>2
  <2>3. CASE c = d
    <3>1. b = task[t].batch /\ b # <<>> /\ Pending(d)' = Tail(b)
      BY <1>2, <2>1, <2>3 DEF Pending
    <3>2. CASE DispatchQuit(t)
      <4>1. replies' = replies /\ connState'[d] = IF connState[d] = "connected"
                                                  THEN "disconnecting"
                                                  ELSE connState[d]
        BY <1>1, <2>3, <3>2 DEF DispatchQuit
      <4>2. InOrder(s, n, Tail(b), q, connState'[d])
        BY <1>2, <3>1, <4>1, InOrderTail, SMTT(60)
      <4> QED
        BY <1>2, <2>1, <3>1, <4>1, <4>2
    <3>3. CASE Answer(t)
      <4>1. connState' = connState /\ \E r : Send(d, r)
        BY <2>3, <3>3 DEF Answer
      <4>2. Len(replies'[d]) = IF connState[d] = "connected" THEN q + 1 ELSE q
        BY <1>1, <1>2, <4>1 DEF Send
      <4>3. InOrder(s, n, Tail(b), Len(replies'[d]), connState[d])
        BY <1>2, <3>1, <4>2, InOrderTail, SMTT(60)
      <4> QED
        BY <1>2, <2>1, <3>1, <4>1, <4>3
    <3> QED
      BY <1>8, <3>2, <3>3
  <2> QED
    BY <2>2, <2>3
<1>9. CASE UNCHANGED vars
  BY <1>2, <1>9 DEF vars, Pending
<1> QED
  BY <1>4, <1>5, <1>6, <1>7, <1>8, <1>9 DEF Next, ThreadStep

\* The request a loop is serving is in its client's stream, and while the
\* connection is not shut down it is the first one without a reply.
LEMMA ServedRequest ==
    ASSUME TypeInv, OrderInv, NEW t \in Threads,
           task[t].pc \in {"lock", "find", "insert", "reply"}
    PROVE  /\ task[t].conn \in Conns /\ Req(t) \in Request
           /\ Len(replies[task[t].conn]) \in Nat
           /\ \E j \in 1 .. Len(sent[task[t].conn]) :
                 /\ sent[task[t].conn][j] = Req(t)
                 /\ connState[task[t].conn] = "connected" =>
                       j = Len(replies[task[t].conn]) + 1
<1>1. PICK c \in Conns : c = task[t].conn /\ LoopOf[c] = t
  BY DEF TypeInv, PinnedInv
<1>2. PICK s \in Seq(Request), n \in Nat, b \in Seq(Request), q \in Nat :
         /\ s = sent[c] /\ n = taken[c] /\ b = task[t].batch
         /\ q = Len(replies[c]) /\ b # <<>>
  <2>1. Len(replies[c]) \in Nat
    BY DEF TypeInv, TypeOK
  <2> QED
    BY <2>1 DEF TypeInv, TypeOK, CallInv
<1>3. Pending(c) = b
  BY <1>1, <1>2 DEF Pending
<1>4. InOrder(s, n, b, q, connState[c])
  BY <1>2, <1>3 DEF OrderInv
<1>5. /\ Head(b) = s[n - Len(b) + 1] /\ n - Len(b) + 1 \in 1 .. Len(s)
      /\ connState[c] = "connected" => q = n - Len(b)
  <2>1. b # <<>>
    BY <1>2
  <2>2. Head(b) = s[n - Len(b) + 1]
    BY <1>4, <2>1, InOrderTail
  <2>3. n - Len(b) + 1 \in 1 .. Len(s)
    BY <1>4, <2>1, InOrderTail
  <2>4. connState[c] = "connected" => q = n - Len(b)
    BY <1>4 DEF InOrder
  <2> QED
    BY <2>2, <2>3, <2>4
<1>6. Head(b) \in Request /\ Req(t) = Head(b)
  BY <1>2, BatchHeadTail DEF Req
<1>7. connState[c] = "connected" => n - Len(b) + 1 = q + 1
  BY <1>5
<1> QED
  BY <1>1, <1>2, <1>5, <1>6, <1>7, Zenon

LEMMA NextOrigin == TypeInv /\ OrderInv /\ OriginInv /\ [Next]_vars => OriginInv'
<1> SUFFICES ASSUME TypeInv, OrderInv, OriginInv, [Next]_vars PROVE OriginInv'
  OBVIOUS
<1> USE DEF At
<1>1. /\ task \in [Threads -> Task] /\ items \in [Shards -> SUBSET Item]
      /\ \A i : Asked(i) => Asked(i)'
  BY AskedStays DEF TypeInv, TypeOK, Task
\* Nothing new in the table, and nothing new found.
<1>2. ASSUME items' = items,
             \A u \in Threads : \/ task'[u].found = None
                                \/ /\ task'[u].found = task[u].found
                                   /\ task'[u].key = task[u].key
      PROVE  OriginInv'
  <2>1. \A s \in Shards : \A i \in items'[s] : Asked(i)'
    BY <1>1, <1>2 DEF OriginInv
  <2>2. ASSUME NEW u \in Threads, task'[u].found # None
        PROVE  Asked(task[u].found)' /\ task'[u].found.key = task'[u].key
    BY <1>1, <1>2, <2>2 DEF OriginInv
  <2> QED
    BY <2>1, <2>2 DEF OriginInv
<1>3. ASSUME NEW c \in Conns, NEW r \in Request, ClientSend(c, r)
      PROVE  OriginInv'
  BY <1>2, <1>3 DEF ClientSend
<1>4. ASSUME NEW t \in Threads, NEW c \in Conns,
             ConnectionUp(t, c) \/ ConnectionDown(t, c) \/ Message(t, c)
      PROVE  OriginInv'
  <2>1. /\ items' = items /\ task'[t].found = None
        /\ \A u \in Threads : u # t => task'[u] = task[u]
    BY <1>1, <1>4 DEF ConnectionUp, ConnectionDown, Message
  <2> QED
    BY <1>2, <2>1
<1>5. ASSUME NEW t \in Threads,
             \/ SessionsInsert(t) \/ SessionsErase(t) \/ MessageDone(t)
             \/ DispatchStore(t) \/ DispatchQuit(t) \/ Answer(t)
      PROVE  OriginInv'
  <2>1. /\ items' = items /\ task'[t].found = None
        /\ \A u \in Threads : u # t => task'[u] = task[u]
    BY <1>1, <1>5
    DEF SessionsInsert, SessionsErase, MessageDone, DispatchStore,
        DispatchQuit, Answer, Idle
  <2> QED
    BY <1>2, <2>1
<1>6. ASSUME NEW t \in Threads,
             SessionsLock(t) \/ ShardLock(t) \/ NullItem(t)
      PROVE  OriginInv'
  <2>1. /\ items' = items /\ task'[t].found = task[t].found
        /\ task'[t].key = task[t].key
        /\ \A u \in Threads : u # t => task'[u] = task[u]
    BY <1>1, <1>6 DEF SessionsLock, ShardLock, NullItem, Goto
  <2> QED
    BY <1>2, <2>1
<1>7. ASSUME NEW t \in Threads, Find(t) PROVE OriginInv'
  <2> DEFINE k == task[t].key
  <2>1. PICK f \in IF Match(k) = {} THEN {None} ELSE Match(k) :
           task' = [task EXCEPT ![t] =
                       At(IF Req(t).cmd = "get" \/ f # None THEN "reply"
                          ELSE "insert", @.conn, @.batch, k, f)]
    BY <1>7 DEF Find
  <2>2. /\ items' = items /\ task'[t].found = f /\ task'[t].key = k
        /\ \A u \in Threads : u # t => task'[u] = task[u]
    BY <1>1, <1>7, <2>1 DEF Find
  <2>3. k \in Keys /\ ShardOf(k) \in Shards
    BY <1>7, ShardOfType DEF Find, TypeInv, CallInv
  <2>4. f # None => Asked(f) /\ f.key = k
    BY <2>1, <2>3 DEF Match, OriginInv
  <2>5. \A u \in Threads : task'[u].found # None =>
           Asked(task'[u].found) /\ task'[u].found.key = task'[u].key
    BY <2>2, <2>4 DEF OriginInv
  <2>6. \A u \in Threads : task'[u].found # None => Asked(task[u].found)'
    BY <1>1, <2>2, <2>5
  <2> QED
    BY <1>1, <2>2, <2>5, <2>6 DEF OriginInv
<1>8. ASSUME NEW t \in Threads, Insert(t) PROVE OriginInv'
  <2> DEFINE i == [key |-> task[t].key, value |-> Req(t).value]
  <2>1. /\ task'[t].found = task[t].found /\ task'[t].key = task[t].key
        /\ \A u \in Threads : u # t => task'[u] = task[u]
    BY <1>1, <1>8 DEF Insert, Goto
  <2>2. \A s \in Shards : items'[s] = items[s] \/ items'[s] = items[s] \cup {i}
    BY <1>1, <1>8 DEF Insert
  <2>3. Asked(i)
    <3>1. /\ task[t].pc = "insert" /\ Req(t).cmd = "set"
          /\ task[t].key = Req(t).key
      BY <1>8 DEF Insert, TypeInv, CallInv
    <3>2. Req(t) = Set(i.key, i.value)
      <4>1. Req(t) \in Request
        BY <3>1, ServedRequest
      <4> QED
        BY <3>1, <4>1 DEF Request, Set, Get, Quit
    <3>3. task[t].conn \in Conns
      BY <3>1, ServedRequest
    <3>4. \E j \in 1 .. Len(sent[task[t].conn]) : sent[task[t].conn][j] = Req(t)
      BY <3>1, ServedRequest
    <3> QED
      BY <3>2, <3>3, <3>4, Zenon DEF Asked
  <2>4. \A s \in Shards : \A j \in items'[s] : Asked(j)'
    BY <1>1, <2>2, <2>3 DEF OriginInv
  <2>5. \A u \in Threads : task'[u].found # None =>
           Asked(task[u].found)' /\ task'[u].found.key = task'[u].key
    BY <1>1, <2>1 DEF OriginInv
  <2> QED
    BY <2>4, <2>5 DEF OriginInv
<1>9. CASE UNCHANGED vars
  BY <1>2, <1>9 DEF vars
<1> QED
  BY <1>3, <1>4, <1>5, <1>6, <1>7, <1>8, <1>9 DEF Next, ThreadStep

\* Reply r answers request q: of the right kind, and to a get with what a
\* client has sent for that key.
Answers(r, q) ==
    /\ r.kind = IF q.cmd = "set" THEN "STORED" ELSE "VALUE"
    /\ q.cmd = "get" => Asked([key |-> q.key, value |-> r.value])

LEMMA AnswersAll ==
    RepliesAnswerRequests <=>
        \A c \in Conns : \A i \in 1 .. Len(replies[c]) :
            i <= Len(sent[c]) /\ Answers(replies[c][i], sent[c][i])
BY Zenon DEF RepliesAnswerRequests, Answers, Asked

LEMMA AnswersStay ==
    ASSUME TypeInv, [Next]_vars, NEW r, NEW q, Answers(r, q)
    PROVE  Answers(r, q)'
<1>1. q.cmd = "get" => Asked([key |-> q.key, value |-> r.value])'
  BY AskedStays DEF Answers
<1> QED
  BY <1>1 DEF Answers

LEMMA NextAnswers == AnswerInv /\ [Next]_vars => RepliesAnswerRequests'
<1> SUFFICES ASSUME AnswerInv, [Next]_vars, NEW c \in Conns,
                    NEW i \in 1 .. Len(replies'[c])
             PROVE  /\ i <= Len(sent'[c])
                    /\ Answers(replies[c][i], sent[c][i])'
  BY Zenon DEF RepliesAnswerRequests, Answers, Asked
<1>1. /\ TypeInv /\ OrderInv /\ OriginInv /\ RepliesAnswerRequests
      /\ replies \in [Conns -> Seq(Reply)] /\ Len(replies[c]) \in Nat
      /\ Len(sent[c]) \in Nat /\ Len(sent'[c]) \in Nat
      /\ Len(sent[c]) <= Len(sent'[c])
      /\ \A j \in 1 .. Len(sent[c]) : sent'[c][j] = sent[c][j]
  <2>1. TypeInv /\ OrderInv /\ OriginInv /\ RepliesAnswerRequests
    BY DEF AnswerInv
  <2>2. replies \in [Conns -> Seq(Reply)] /\ Len(replies[c]) \in Nat
    BY <2>1 DEF TypeInv, TypeOK
  <2> QED
    BY <2>1, <2>2, SentGrows
\* It is enough to find the request that the reply answered when it was there
\* or was written.
<1>2. ASSUME NEW j \in 1 .. Len(sent[c]), j = i,
             NEW r, r = replies'[c][i], Answers(r, sent[c][j])
      PROVE  /\ i <= Len(sent'[c])
             /\ Answers(replies[c][i], sent[c][i])'
  <2>1. i <= Len(sent'[c])
    BY <1>1, <1>2
  <2>2. PICK q : q = sent[c][j]
    OBVIOUS
  <2>3. sent'[c][i] = q
    BY <1>1, <1>2, <2>2
  <2>4. Answers(r, q)'
    BY <1>1, <1>2, <2>2, AnswersStay
  <2> QED
    BY <1>2, <2>1, <2>3, <2>4 DEF Answers
<1>3. CASE i \in 1 .. Len(replies[c]) /\ replies'[c][i] = replies[c][i]
  <2>1. i <= Len(sent[c]) /\ Answers(replies[c][i], sent[c][i])
    BY <1>1, <1>3, AnswersAll
  <2>2. i \in 1 .. Len(sent[c])
    BY <1>1, <1>3, <2>1
  <2> QED
    BY <1>2, <1>3, <2>1, <2>2
<1>4. ASSUME NEW t \in Threads, Answer(t)
      PROVE  /\ i <= Len(sent'[c])
             /\ Answers(replies[c][i], sent[c][i])'
  <2>1. /\ task[t].pc = "reply" /\ Req(t).cmd \in {"set", "get"}
        /\ Req(t).cmd = "get" => task[t].key \in Spelling(Req(t).key)
        /\ task[t].conn \in Conns
    BY <1>1, <1>4 DEF Answer, TypeInv, CallInv, PinnedInv
  <2>2. PICK r : Send(task[t].conn, r) /\ Answers(r, Req(t))
    <3>1. CASE Req(t).cmd = "set"
      BY <1>4, <3>1 DEF Answer, Answers, Stored
    <3>2. CASE Req(t).cmd = "get"
      <4>1. PICK k \in Spelling(Req(t).key) :
               Send(task[t].conn, Value(k, task[t].found.value))
        BY <1>4, <3>2 DEF Answer
      <4>2. Asked(task[t].found) /\ task[t].found.key = task[t].key
        BY <1>1, <1>4, <3>2 DEF Answer, OriginInv
      <4>3. task[t].found.key \in ClientKeys
        <5>1. PICK d \in Conns : \E j \in 1 .. Len(sent[d]) :
                 sent[d][j] = Set(task[t].found.key, task[t].found.value)
          BY <4>2 DEF Asked
        <5>2. Set(task[t].found.key, task[t].found.value) \in Request
          BY <1>1, <5>1 DEF TypeInv, TypeOK
        <5> QED
          BY <5>2, RequestFields DEF Set
      <4>4. task[t].key = Req(t).key
        BY <2>1, <3>2, <4>2, <4>3 DEF Spelling, ClientKeys
      <4>5. Answers(Value(k, task[t].found.value), Req(t))
        <5>1. Asked([key |-> Req(t).key, value |-> task[t].found.value])
          BY <4>2, <4>4 DEF Asked
        <5> QED
          BY <3>2, <5>1 DEF Answers, Value
      <4> QED
        BY <4>1, <4>5
    <3> QED
      BY <2>1, <3>1, <3>2
  <2>3. CASE task[t].conn = c /\ connState[c] = "connected"
    <3>1. replies'[c] = Append(replies[c], r)
      BY <1>1, <2>2, <2>3 DEF Send
    <3>2. \/ i \in 1 .. Len(replies[c]) /\ replies'[c][i] = replies[c][i]
          \/ i = Len(replies[c]) + 1 /\ replies'[c][i] = r
      BY <1>1, <3>1
    <3>3. CASE i = Len(replies[c]) + 1 /\ replies'[c][i] = r
      <4>1. PICK j \in 1 .. Len(sent[c]) : sent[c][j] = Req(t) /\ j = i
        BY <1>1, <2>1, <2>3, <3>3, ServedRequest
      <4> QED
        BY <1>2, <2>2, <3>3, <4>1
    <3> QED
      BY <1>3, <3>2, <3>3
  <2>4. CASE task[t].conn # c \/ connState[c] # "connected"
    <3>1. replies'[c] = replies[c]
      BY <1>1, <2>1, <2>2, <2>4 DEF Send
    <3> QED
      BY <1>3, <3>1
  <2> QED
    BY <2>3, <2>4
<1>5. replies' = replies \/ \E t \in Threads : Answer(t)
  BY DEF Next, ThreadStep, vars, ClientSend, ConnectionUp, ConnectionDown,
         Message, SessionsLock, SessionsInsert, SessionsErase, DispatchStore,
         DispatchQuit, MessageDone, ShardLock, Find, Insert, NullItem
<1> QED
  BY <1>3, <1>4, <1>5

\* A client that pipelines its requests gets their replies in that order: the
\* loop of onMessage drops, repeats and mixes up none of them, whatever the
\* other threads do, and what a get returns was sent for that key.
THEOREM PipelinedReplies == Spec => []RepliesAnswerRequests
<1>1. Init => AnswerInv
  BY InitAnswer
<1>2. AnswerInv /\ [Next]_vars => AnswerInv'
  BY NextType, NextOrder, NextOrigin, NextAnswers DEF AnswerInv
<1>3. AnswerInv => RepliesAnswerRequests
  BY DEF AnswerInv
<1> QED
  BY <1>1, <1>2, <1>3, PTL DEF Spec

-----------------------------------------------------------------------------
(* The sharded, locked item table implements the single table of ItemTable. *)
(* getItem takes effect at its lookup; storeItem at its lookup when it      *)
(* meets an equal item, else when the item is linked.                       *)

\* A call that is not over has found nothing.
FoundInv ==
    \A t \in Threads :
        task[t].pc \in {"lock", "find", "insert"} => task[t].found = None

TableInv == StoreInv /\ FoundInv

LEMMA InitTable == Init => TableInv
BY InitStore DEF TableInv, FoundInv, Init, Idle, At

\* Only Find changes what a call has found, and then it is over or found none.
LEMMA NextTable == TableInv /\ [Next]_vars => TableInv'
<1> SUFFICES ASSUME TableInv, [Next]_vars PROVE FoundInv'
  BY NextStore DEF TableInv
<1> USE DEF At
<1>1. task \in [Threads -> Task] /\ FoundInv
  BY DEF TableInv, StoreInv, TypeInv, TypeOK, Task
<1>2. ASSUME NEW t \in Threads, NEW c \in Conns,
             ConnectionUp(t, c) \/ ConnectionDown(t, c) \/ Message(t, c)
      PROVE  FoundInv'
  <2>1. /\ \A u \in Threads : u # t => task'[u] = task[u]
        /\ task'[t].pc \in {"up", "down", "dispatch"}
    BY <1>1, <1>2 DEF ConnectionUp, ConnectionDown, Message
  <2> QED
    BY <1>1, <2>1 DEF FoundInv
<1>3. ASSUME NEW t \in Threads,
             \/ SessionsLock(t) \/ SessionsInsert(t) \/ SessionsErase(t)
             \/ DispatchStore(t) \/ DispatchQuit(t) \/ MessageDone(t)
             \/ ShardLock(t) \/ Insert(t) \/ Answer(t)
      PROVE  FoundInv'
  <2>1. /\ \A u \in Threads : u # t => task'[u] = task[u]
        /\ task'[t].pc \in {"lock", "find", "insert"} => task'[t].found = None
    BY <1>1, <1>3
    DEF SessionsLock, SessionsInsert, SessionsErase, DispatchStore, DispatchQuit,
        MessageDone, ShardLock, Insert, Answer, Goto, Idle, FoundInv
  <2> QED
    BY <1>1, <2>1 DEF FoundInv
<1>4. ASSUME NEW t \in Threads, Find(t) PROVE FoundInv'
  BY <1>1, <1>4 DEF Find, FoundInv
<1>5. ASSUME UNCHANGED task PROVE FoundInv'
  BY <1>1, <1>5 DEF FoundInv
<1> QED
  BY <1>2, <1>3, <1>4, <1>5
  DEF Next, ThreadStep, vars, ClientSend, NullItem

-----------------------------------------------------------------------------
(* The refinement mapping                                                  *)

\* What the table holds for a key.
LEMMA TableEntry ==
    ASSUME StoreInv, NEW k \in Keys
    PROVE  /\ Match(k) = {} => tableOf[k] = None
           /\ \A i \in Match(k) : tableOf[k] = i.value /\ i.value # None
<1>1. \A i \in Match(k) : Match(k) = {i} /\ i \in Item
  BY ShardOfType
  DEF StoreInv, SectionInv, KeyUnique, TypeInv, TypeOK, Match
<1>2. \A i \in Item : i.value # None
  BY ServerAssumption DEF Item
<1> QED
  BY <1>1, <1>2 DEF tableOf

\* A step that leaves the items alone and keeps every call as it is.
LEMMA Stutter ==
    ASSUME items' = items,
           \A u \in Threads :
              \/ task'[u] = task[u]
              \/ /\ task[u].pc \notin {"lock", "find", "insert", "reply"}
                 /\ task'[u].pc \notin {"lock", "find", "insert", "reply"}
              \/ /\ task[u].pc \in {"lock", "find", "insert"}
                 /\ task'[u].pc \in {"lock", "find", "insert"}
                 /\ task'[u].batch = task[u].batch /\ task'[u].key = task[u].key
                 /\ task'[u].found = task[u].found
    PROVE  UNCHANGED Table!tableVars
<1>1. tableOf' = tableOf
  BY DEF tableOf, Match
<1>2. ASSUME NEW u \in Threads PROVE callOf'[u] = callOf[u]
  BY DEF callOf, resultOf, Req
<1>3. callOf' = callOf
  BY <1>2 DEF callOf
<1> QED
  BY <1>1, <1>3 DEF Table!tableVars

\* The call of a thread, and that a step of t leaves the others' alone.
LEMMA CallEntry ==
    ASSUME NEW t \in Threads, NEW new,
           \A u \in Threads : u # t => task'[u] = task[u],
           callOf'[t] = new
    PROVE  callOf' = [callOf EXCEPT ![t] = new]
<1>1. ASSUME NEW u \in Threads, u # t PROVE callOf'[u] = callOf[u]
  BY <1>1 DEF callOf, resultOf, Req
<1>2. /\ callOf' = [u \in Threads |-> callOf'[u]]
      /\ callOf = [u \in Threads |-> callOf[u]]
  BY DEF callOf
<1> QED
  BY <1>1, <1>2

LEMMA InitMapped == Init => Table!TableInit
<1> SUFFICES ASSUME Init PROVE Table!TableInit
  OBVIOUS
<1>1. tableOf = [k \in Keys |-> None]
  <2>1. \A k \in Keys : Match(k) = {}
    BY ShardOfType DEF Init, Match
  <2> QED
    BY <2>1 DEF tableOf
<1>2. callOf = [t \in Threads |-> Table!NoCall]
  BY DEF Init, callOf, Idle, At, Table!NoCall, Table!CallOf
<1> QED
  BY <1>1, <1>2 DEF Table!TableInit

LEMMA NextMapped ==
    TableInv /\ [Next]_vars => [Table!TableNext]_Table!tableVars
<1> SUFFICES ASSUME TableInv, [Next]_vars
             PROVE  [Table!TableNext]_Table!tableVars
  OBVIOUS
<1> USE DEF At
<1>1. /\ task \in [Threads -> Task] /\ FoundInv /\ CallInv
      /\ items \in [Shards -> SUBSET Item]
  BY DEF TableInv, StoreInv, TypeInv, TypeOK, Task
<1>2. ASSUME NEW t \in Threads, NEW c \in Conns,
             ConnectionUp(t, c) \/ ConnectionDown(t, c) \/ Message(t, c)
      PROVE  UNCHANGED Table!tableVars
  <2>1. /\ \A u \in Threads : u # t => task'[u] = task[u]
        /\ task[t].pc = "idle" /\ task'[t].pc \in {"up", "down", "dispatch"}
    BY <1>1, <1>2 DEF ConnectionUp, ConnectionDown, Message
  <2>2. items' = items
    BY <1>2 DEF ConnectionUp, ConnectionDown, Message
  <2> QED
    BY <2>1, <2>2, Stutter
<1>3. ASSUME NEW t \in Threads,
             \/ SessionsLock(t) \/ SessionsInsert(t) \/ SessionsErase(t)
             \/ DispatchQuit(t) \/ MessageDone(t)
      PROVE  UNCHANGED Table!tableVars
  <2>1. /\ \A u \in Threads : u # t => task'[u] = task[u]
        /\ task[t].pc \notin {"lock", "find", "insert", "reply"}
        /\ task'[t].pc \notin {"lock", "find", "insert", "reply"}
    BY <1>1, <1>3
    DEF SessionsLock, SessionsInsert, SessionsErase, DispatchQuit, MessageDone,
        Goto, Idle
  <2>2. items' = items
    BY <1>3
    DEF SessionsLock, SessionsInsert, SessionsErase, DispatchQuit, MessageDone
  <2> QED
    BY <2>1, <2>2, Stutter
<1>4. ASSUME NEW t \in Threads, ShardLock(t) PROVE UNCHANGED Table!tableVars
  <2>1. /\ \A u \in Threads : u # t => task'[u] = task[u]
        /\ task[t].pc = "lock" /\ task'[t].pc = "find"
        /\ task'[t].batch = task[t].batch /\ task'[t].key = task[t].key
        /\ task'[t].found = task[t].found
        /\ items' = items
    BY <1>1, <1>4 DEF ShardLock, Goto
  <2> QED
    BY <2>1, Stutter
<1>5. ASSUME NEW t \in Threads, DispatchStore(t) PROVE Table!TableNext
  <2>1. Req(t) \in Request /\ task[t].pc = "dispatch" /\ items' = items
    BY <1>1, <1>5, BatchHeadTail DEF DispatchStore, Req, Task
  <2>2. PICK k \in Keys :
           /\ task' = [task EXCEPT ![t] = At("lock", @.conn, @.batch, k, None)]
           /\ Req(t).cmd \in {"set", "get"}
    BY <1>5, <2>1, RequestFields, SpellingType DEF DispatchStore, ClientKeys
  <2>3. /\ \A u \in Threads : u # t => task'[u] = task[u]
        /\ task'[t].pc = "lock" /\ task'[t].key = k /\ task'[t].found = None
        /\ Req(t)' = Req(t)
    BY <1>1, <2>2 DEF Req
  <2>4. callOf'[t] = Table!CallOf("called", Req(t).cmd, k, Req(t).value, None)
    BY <2>3 DEF callOf, resultOf, Table!CallOf
  <2>5. callOf' = [callOf EXCEPT ![t] =
                      Table!CallOf("called", Req(t).cmd, k, Req(t).value, None)]
    BY <2>3, <2>4, CallEntry
  <2>6. callOf[t].status = "idle"
    BY <2>1 DEF callOf
  <2>7. tableOf' = tableOf
    BY <2>1 DEF tableOf, Match
  <2>8. Table!Call(t, Req(t).cmd, k, Req(t).value)
    BY <2>5, <2>6, <2>7 DEF Table!Call
  <2>9. \/ Req(t).cmd = "set" /\ Req(t).value \in Vals
        \/ Req(t).cmd = "get" /\ Req(t).value = None
    BY <2>1, <2>2, RequestFields
  <2> QED
    BY <2>8, <2>9 DEF Table!TableNext
<1>6. ASSUME NEW t \in Threads, Find(t)
      PROVE  Table!TableNext \/ UNCHANGED Table!tableVars
  <2> DEFINE k == task[t].key
  <2>1. /\ k \in Keys /\ task[t].pc = "find" /\ items' = items
        /\ task[t].found = None
        /\ Req(t).cmd \in {"set", "get"}
    BY <1>1, <1>6 DEF Find, CallInv, FoundInv
  <2>2. PICK f \in IF Match(k) = {} THEN {None} ELSE Match(k) :
           task' = [task EXCEPT ![t] =
                       At(IF Req(t).cmd = "get" \/ f # None THEN "reply"
                          ELSE "insert", @.conn, @.batch, k, f)]
    BY <1>6 DEF Find
  <2>3. /\ \A u \in Threads : u # t => task'[u] = task[u]
        /\ task'[t].key = k /\ task'[t].found = f /\ task'[t].batch = task[t].batch
        /\ task'[t].pc = IF Req(t).cmd = "get" \/ f # None THEN "reply"
                         ELSE "insert"
        /\ Req(t)' = Req(t)
    BY <1>1, <2>2 DEF Req
  <2>4. /\ f = None => tableOf[k] = None
        /\ f # None => tableOf[k] = f.value /\ tableOf[k] # None
    <3>1. None \notin items[ShardOf(k)]
      BY <1>1, <2>1, ShardOfType, ServerAssumption DEF Item
    <3> QED
      BY <2>1, <2>2, <3>1, TableEntry DEF TableInv, Match
  <2>5. callOf[t] = Table!CallOf("called", Req(t).cmd, k, Req(t).value, None)
    BY <2>1 DEF callOf, resultOf, Table!CallOf
  <2>6. tableOf' = tableOf /\ callOf \in [Threads -> {callOf[u] : u \in Threads}]
    BY <2>1 DEF tableOf, Match, callOf
  <2>7. CASE Req(t).cmd = "get"
    <3>1. callOf'[t] = Table!CallOf("done", "get", k, Req(t).value, tableOf[k])
      BY <2>3, <2>4, <2>7 DEF callOf, resultOf, Table!CallOf
    <3>2. callOf' = [callOf EXCEPT ![t] =
                        Table!CallOf("done", "get", k, Req(t).value, tableOf[k])]
      BY <2>3, <3>1, CallEntry
    <3>3. Table!DoGet(t)
      BY <2>5, <2>6, <2>7, <3>2 DEF Table!DoGet, Table!CallOf
    <3> QED
      BY <3>3 DEF Table!TableNext
  <2>8. CASE Req(t).cmd = "set" /\ f # None
    <3>1. callOf'[t] = Table!CallOf("done", "set", k, Req(t).value, None)
      BY <2>3, <2>8 DEF callOf, resultOf, Table!CallOf
    <3>2. callOf' = [callOf EXCEPT ![t] =
                        Table!CallOf("done", "set", k, Req(t).value, None)]
      BY <2>3, <3>1, CallEntry
    <3>3. tableOf = [tableOf EXCEPT ![k] = IF @ = None THEN Req(t).value ELSE @]
      <4>1. tableOf = [q \in Keys |-> tableOf[q]]
        BY DEF tableOf
      <4> QED
        BY <2>1, <2>4, <2>8, <4>1
    <3>4. Table!DoStore(t)
      BY <2>5, <2>6, <2>8, <3>2, <3>3 DEF Table!DoStore, Table!CallOf
    <3> QED
      BY <3>4 DEF Table!TableNext
  <2>9. CASE Req(t).cmd = "set" /\ f = None
    BY <2>1, <2>3, <2>9, Stutter
  <2> QED
    BY <2>1, <2>7, <2>8, <2>9
<1>7. ASSUME NEW t \in Threads, Insert(t) PROVE Table!TableNext
  <2> DEFINE k == task[t].key
             s == ShardOf(k)
             v == Req(t).value
  <2>1. /\ k \in Keys /\ s \in Shards /\ task[t].pc = "insert"
        /\ task[t].found = None /\ Req(t).cmd = "set" /\ Match(k) = {}
    BY <1>1, <1>7, ShardOfType
    DEF Insert, CallInv, FoundInv, TableInv, StoreInv, SectionInv, FreshInv
  <2>2. /\ items' = [items EXCEPT ![s] = @ \cup {[key |-> k, value |-> v]}]
        /\ \A u \in Threads : u # t => task'[u] = task[u]
        /\ task'[t].pc = "reply" /\ task'[t].key = k
        /\ task'[t].found = None /\ Req(t)' = Req(t)
    BY <1>1, <1>7, <2>1 DEF Insert, Goto, Req
  <2>3. ASSUME NEW q \in Keys
        PROVE  Match(q)' = IF q = k THEN {[key |-> k, value |-> v]} ELSE Match(q)
    BY <1>1, <2>1, <2>2, ShardOfType DEF Match
  <2>4. tableOf[k] = None
    BY <2>1, TableEntry DEF TableInv
  <2>5. tableOf' = [tableOf EXCEPT ![k] = v]
    <3>1. ASSUME NEW q \in Keys
          PROVE  tableOf'[q] = IF q = k THEN v ELSE tableOf[q]
      <4>1. CASE q = k
        <5>1. Match(q)' = {[key |-> k, value |-> v]}
          BY <2>3, <4>1
        <5>2. (CHOOSE i \in Match(q)' : TRUE) = [key |-> k, value |-> v]
          BY <5>1
        <5> QED
          BY <4>1, <5>1, <5>2 DEF tableOf
      <4>2. CASE q # k
        <5>1. Match(q)' = Match(q)
          BY <2>3, <4>2
        <5> QED
          BY <4>2, <5>1 DEF tableOf
      <4> QED
        BY <4>1, <4>2
    <3>2. /\ tableOf' = [q \in Keys |-> tableOf'[q]]
          /\ tableOf = [q \in Keys |-> tableOf[q]]
      BY DEF tableOf
    <3> QED
      BY <3>1, <3>2
  <2>6. callOf[t] = Table!CallOf("called", "set", k, v, None)
    BY <2>1 DEF callOf, resultOf, Table!CallOf
  <2>7. callOf'[t] = Table!CallOf("done", "set", k, v, None)
    BY <2>1, <2>2 DEF callOf, resultOf, Table!CallOf
  <2>8. callOf' = [callOf EXCEPT ![t] = Table!CallOf("done", "set", k, v, None)]
    BY <2>2, <2>7, CallEntry
  <2>9. Table!DoStore(t)
    <3>1. /\ callOf[t].status = "called" /\ callOf[t].cmd = "set"
          /\ callOf[t].key = k /\ callOf[t].value = v
      BY <2>6 DEF Table!CallOf
    <3>2. tableOf' = [tableOf EXCEPT ![callOf[t].key] =
                         IF @ = None THEN callOf[t].value ELSE @]
      BY <2>4, <2>5, <3>1
    <3> QED
      BY <2>8, <3>1, <3>2 DEF Table!DoStore
  <2> QED
    BY <2>9 DEF Table!TableNext
<1>8. ASSUME NEW t \in Threads, Answer(t) PROVE Table!TableNext
  <2>1. /\ \A u \in Threads : u # t => task'[u] = task[u]
        /\ task[t].pc = "reply" /\ task'[t].pc = "dispatch" /\ items' = items
    BY <1>1, <1>8 DEF Answer
  <2>2. callOf'[t] = Table!NoCall /\ callOf[t].status = "done"
    BY <2>1 DEF callOf, Table!NoCall, Table!CallOf
  <2>3. callOf' = [callOf EXCEPT ![t] = Table!NoCall]
    BY <2>1, <2>2, CallEntry
  <2>4. tableOf' = tableOf
    BY <2>1 DEF tableOf, Match
  <2>5. Table!Return(t)
    BY <2>2, <2>3, <2>4 DEF Table!Return
  <2> QED
    BY <2>5 DEF Table!TableNext
<1>9. ASSUME UNCHANGED <<items, task>> PROVE UNCHANGED Table!tableVars
  BY <1>9, Stutter
<1> QED
  BY <1>2, <1>3, <1>4, <1>5, <1>6, <1>7, <1>8, <1>9
  DEF Next, ThreadStep, vars, ClientSend, NullItem

\* Every call of the store takes effect at one instant between its call and its
\* return, on a table that keeps the first item stored for a key.
THEOREM StoreIsLinearizable == Spec => Linearizable
<1>1. TableInv /\ [Next]_vars => TableInv'
  BY NextTable
<1> QED
  BY InitTable, InitMapped, NextMapped, <1>1, PTL
  DEF Spec, Linearizable, Table!TableSpec
=============================================================================
