# Verification of linux_socket_test

The repository is a collection of small network programs in C++ (and some
Python): a memcached server on muduo, timer containers and an epoll server that
uses one, a process pool, buffers, an HTTP parser, relays and benchmarks. This
directory holds TLA+ modules for the parts that carry logic of their own, TLC
configurations that check them on small instances, and TLAPS proofs.

    tlc -config MCMemcachedServer.cfg MCMemcachedServer      # one run
    tlapm MemcachedServerProofs.tla                          # one proof module

`PROJECT.json` lists components, runs, the code lines behind every definition,
the hazards the properties are for, and the theorems.

## Inventory

| component | state | operations | what is hard | what makes it correct | modules |
|---|---|---|---|---|---|
| memcached server (`memcached/server/memcached_server.*`, `item.h`) | session map under `mutex_`; 4096 shards, each an `unordered_set` of items under its own mutex | `onConnection`, `storeItem`, `getItem` | several I/O loops; raw `this` in a callback; a null item ends the process | the store is linearizable, a key has one item, sessions outlive callbacks, acknowledged keys are found, no loop waits for ever | `MemcachedServer`, `ItemTable` |
| memcached session (`session.*`) | receive state, saved search pointer, the set under way; the connection's Buffer | `onMessage`, `doRequestCommand`, `doUpdate`, `doGet`, `storeData` | the stream is cut anywhere; the Buffer moves; refused sets; int conversion | what is done depends on the bytes and not on the cuts; values are opaque | `MemcachedSession` |
| timer list (`list_timer.h`) | doubly linked list, ascending by `expire` | `add_timer`, `adjust_timer`, `del_timer`, `tick` | pointers, four cases of deletion, stale tail | `tick` calls back exactly what is due | `SortTimerList`, `TimerQueue` |
| timer heap (`min_heap_timer.h`) | array, size, capacity | constructors, `add_timer`, `del_timer` (lazy), `pop_timer`, `tick` | percolation, doubling, cancelled timers on top | the same | `TimeHeap`, `TimerQueue` |
| timer wheel (`wheel_timer.h`) | N doubly linked lists, the current slot, rotation and slot per timer | `add_timer`, `del_timer`, `tick` | pointers to neighbours, deletion while `tick` walks the list, modular arithmetic, whole rounds | no pointer leads to a deleted timer, each timer fires at its tick | `TimeWheel` |
| idle-closing server (`list_timer.cpp`) | connections, `users[]`, timers, signal pipe, alarm, flags | the loop of `main`, `sig_handler`, `timer_handler`, `cb_func` | edge triggering, signals at any moment, reuse of descriptors and addresses | no dangling timer, ticks never stop, silent connections go, SIGTERM stops | `ListTimerServer` |
| process pool (`half_sync_half_async.h`) | per process: pid, pipe, signal pipe, stop flag; round robin counter | constructor, `run_parent`, `run_child`, `sig_handler` | processes, signals, edge triggering, notifications merged or lost | shutdown completes, children are reaped, a child told to accept finds a connection | `ProcessPool` |
| tbuf (`tbuf/tbuf.h`) | a vector, read and write index | `append`, `readfd`, `retrieve`, `read_int32` | sliding, growing, the reset of the indices, `readv` into two buffers | it is a queue of bytes, no assertion fails | `Tbuf`, `ByteQueue`, `Buffers` |
| circular buffer (`circular_buffer/`) | a ring, two indices and a counter | `push_str`, `readfd`, `retrieve`, `read_int32`, by `push` and `pop` | full against empty, wrapping, unrolling into a larger array | the same | `CircularBuffer`, `ByteQueue`, `Buffers` |
| ttcp (`ttcp/`) | client: loop counter, partial buffer; servers: state, input, frames read | `client_send`, `server_receive`; `server_read_cb`, `client_read_cb`, `sigint_cb` | partial reads and writes, sockets smaller than a frame, clients that vanish, refused options | the ends stay in step, a normal client never ends the server, transfers complete | `Ttcp` |
| http (`http/`) | parse state, request | `parse_request`, `reset`, response building | requests cut anywhere, bodies, several requests in one read | the same request however it is cut | `HttpContext` |
| procmon (`procmon/procmon.cpp`) | HTTP contexts, the last sample, a chart of fixed size | `on_connection`, `on_message`, `on_request`, `tick` | closing or keeping the connection, a process that ends and whose pid is reused | replies in order, a waiting client is answered, CPU time counted once | `Procmon` |
| rot13 servers, netcat, sender, chargen | buffers, cursors, registrations | event callbacks | partial writes, end of stream | bytes are relayed in order | not modelled |
| demonstrations | none of their own | - | - | - | not modelled (one system call each) |

Interactions: `MemcachedServer` and `Session` call each other (a session asks
its owner for the table, the owner owns the sessions); loops share the session
map and the shards. `list_timer.cpp` owns `timer_lst`, whose timers call back
into it; a signal handler talks to the loop through a pipe. The pool's parent
talks to its children through socketpairs and signals and hears of their ends by
SIGCHLD; all share one listening socket. ttcp's event driven server keeps its
input in a `Tbuf`; procmon and the HTTP demonstration put an `HttpContext` on
every muduo connection.

## Modules

**ItemTable** is the abstract specification of the item store: a table on which
every `storeItem` and `getItem` takes effect at one instant between call and
return. `storeItem` is insert-if-absent, which is what `unordered_set::insert`
does.

**MemcachedServer** has connections pinned to I/O loops. A loop runs one
callback at a time; `task[t]` says where it stands. Up and down of a connection
take `mutex_` (`ConnectionUp`, `SessionsLock`, `SessionsInsert`; likewise down).
`Message` reads any number of the waiting requests, and each goes through
`DispatchStore` (or `DispatchQuit`), `ShardLock`, `Find`, `Insert`, `Answer`.
The lookup and the linking of a new element are separate steps under the lock,
so that a missing lock shows. `NullItem` is the dereference of the null pointer
that `getItem` returns for a missing key: the process dies. `doGet` keeps a
`StringPiece` to a dead temporary, which is undefined for every key, long or
short; `DanglingKeys`, any set of keys, are those whose characters the build does
not happen to keep, and for them the lookup and the reply may see the key or
`Junk`. The theorems hold for every such set, all keys included. muduo
(loops, `shutdown`, `send` that drops after `shutdown`) is external.

**MemcachedSession** models one session over a stream of units: CR, LF, a piece
of data, or the text of a command line. `Read` hands any number of units to the
muduo Buffer, which appends in place, moves its content to the front or grows;
`curSearchPos` remembers the storage it points into. `onMessage` is one step per
iteration of its loop, one action per command and outcome. Lengths go through
`ToInt`, the cast of 64 bits to `int`. `Reference` is what `ChunkingIrrelevant`
compares the session with: one pass over all the units received, request by
request, with neither a buffer nor a saved position.

**TimerQueue** is what a timer container promises: `tick` reads the time, then
calls back every timer that was due, earliest first, and returns when none is
left. **SortTimerList** (pointers `prev`, `next`, `head`, `tail` over reusable
addresses) and **TimeHeap** (array, doubling, lazy deletion) implement it. Every
loop of the two is one step per iteration: that of `tick`, whose time is read
once; the walk of the private `add_timer` (`AddWalk`, `AddLink`; `adding` holds
its `timer` and `prev`); the percolations (`Sink`, `Rise`; `moving` holds the
timer that moves and the `hole`), and the loop of the second constructor
(`Heapify`, with its counter `build`). While a timer moves its old place and the
hole hold copies; `At(i)` counts it in the hole. Nothing but the clock moves
between the iterations.
**TimeWheel** has the N doubly linked lists of `time_wheel` (`slots` holds the
heads; `prev`, `next`). `add_timer` links a timer at the head of its slot;
`Unlink` has the two cases, head or not, in which `del_timer` and `tick` take one
out; `tick` is `TickBegin`, one `TickPass` or `TickFire` per iteration, after
which `tmp` goes on from the successor, and `TickEnd`, which turns the wheel. A
deleted timer keeps its pointers and its slot, as freed memory does, until it is
allocated again. The wheel keeps no deadline; `left`, counted beside the code's
state, is the number of ticks before the one that is to fire the timer.
**TimerContainers** is a program that uses one of the three; no program of the
repository uses the wheel, so no callback calls it from within `tick`.

**ListTimerServer** is `main` of list_timer.cpp. `ready` is epoll's edge
triggered readiness: set by an arrival, taken by `EpollWait`, not set again by
what a handler leaves unread. Timers are used as `TimerQueue` describes them;
`expire` is the time left, which makes the state space finite without a bound on
the clock. `cb_func` calls `epoll_ctl` on the global `epollfd` (0), not on the
local one of `main`; the call fails and `close` does the work.

**ProcessPool** is `processpool<T>`. The constructor has forked the children
(`Init`); parent (`ppc`, events in the order `epoll_wait` returned them, signals
read and not yet handled) and children (`cstate`, sets of events) run their
loops side by side. `pool` is the set of children whose `m_pid` is not -1, which
lags behind `cstate`. A death sets `chld`, one pending SIGCHLD for any number of
them; a child killed before its `addsig` dies at once, later ones read the
signal from their pipe. `Send` waits on a full socketpair and is lost on a dead
child. What T does with a connection is external; `Child` assumes that it
returns. SIGTERM to the parent before its own `addsig`, and a parent killed by
SIGKILL, are not modelled.

**ByteQueue** is what an input buffer promises: bytes come out in the order they
went in, and an integer is read from the oldest. **Tbuf** is the class of that
name: `append` is one step with its slide, its growth and its two assertions;
`readfd` fills the free end first and hands what landed in the extra buffer to
`append`. **CircularBuffer** takes one step per iteration of the loops of
`push_str`, `read_int32` and `retrieve` (`push`, `pop`), with the assertion that
follows each; `Grow` has the code's two ways to enlarge. **Buffers** gives both
the same calls, with the preconditions their assertions state. The queue of
Tbuf is `buf` between the indices; that of CircularBuffer is `Pending`, in which
`push_str` and `retrieve` take effect when they are called and `read_int32` when
it returns.

**Ttcp** has the blocking client (`client_send`, one step per `write` of
`write_n` and per `read` of `read_n`) and both servers; `mode` says which one
runs. A socket holds `Cap` bytes and moves any part of what it is offered. The
blocking server accepts one client, closes the listening socket (which resets
whoever still waits there) and ends after the last frame. The event driven one
has `server_read_cb` (accept), `client_read_cb` (`Readfd`, then one step per
iteration of its loop) and `sigint_cb`. An assertion, `exit(1)` or SIGPIPE sets
`server` to "failed". `ExpectFrame` writes as much of the acknowledgement as the
socket takes and forgets the rest, as the code does. A number is carried by its
bytes (`htonl`), so that bytes taken at the wrong offset do not decode.

**HttpContext** is `parse_request`, one step per iteration, over units: CR, LF, a
byte of a body, or the text of a line. `Number` is what `lexical_cast` makes of
the header values it accepts; any other counts as 0. **Procmon** extends it with the
connection (`Segment` calls `on_message`, which answers at most one request and
leaves the rest in the buffer), the decision to close, and `tick`, which samples
a process that may burn CPU, end, and be replaced under the same pid. The muduo
connection (no `send` after `shutdown`) is external. The same `on_message` is in
http/tests/http_nonblock_simple.cpp. A script is what a client sends and what it
expects: `Reasonable` says that a body is as long as the last Content-Length
announces, and which status and which fate of the connection a request deserves.

Operators whose comment starts with "Slip" are mistakes a programmer could make
in the definition that follows them. They are in no specification; each shows
that a property notices the mistake.

## Runs

| run | instance | shows |
|---|---|---|
| `server` | 2 loops, 2 connections with 2 and 1 requests, 2 colliding keys (one dangling) and Junk, 2 values, 2 shards | the seven properties of the server, with `Linearizable` as a refinement and `AllServed` as liveness |
| `server_replace` | the same | violated: `memcached_server.cpp:42` says an item that exists is replaced; it is kept |
| `session` | 3 requests out of 14 (values that hold line ends and command texts, refused and wrapping lengths), Buffer of 8, `int` of 3 bits | the session depends on the bytes only, provided no read ends inside the CRLF of a line and none overruns the Buffer while a position is saved |
| `session_split` | reads may end inside a CRLF | violated: a whole line stays in the buffer (`session.cpp:34` "consumer all buffer") |
| `session_overrun` | reads may overrun the Buffer while a position is saved | violated: the search from the saved position and a search of the whole buffer find different line ends (`session.h:126` says the position is there to reduce time complexity) |
| `timers` | list: 4 addresses, clock to 2, delays 0, 2; heap: 5 addresses, capacity 3 that doubles, any initial array, clock to 1, delays 0, 1, 3; wheel: 3 addresses, 3 slots, interval 2, timeouts from refused to more than two rounds, no bound on the ticks | links and order of the list, heap order, both refinements of `TimerQueue`; links of the wheel's slots, the countdown of rounds, punctuality |
| `list_server` | 2 descriptors, 2 addresses, reads of up to two buffers, `TIMESLOT` 1 | pairing of connections and timers, heartbeat, liveness; no bound on time |
| `pool` | parent, 2 children, 3 connections, socketpairs of 2, 2 crashes, SIGTERM to the parent or SIGINT to all | notifications never outnumber connections, no dead child is forgotten, no orphan, shutdown completes, the parent ends with its children |
| `pool_burst` | the same without crashes | violated: connections that arrive together share one notification (`half_sync_half_async.h:305` says each is assigned to a child) |
| `buffers` | arrays of 3 cells, an extra buffer of 3, pieces of 0 to 3 bytes, integers of 2, at most 4 unread bytes | both buffers implement `ByteQueue`, and no assertion fails unless an empty string is appended to a Tbuf that is full |
| `ttcp` | 2 clients, sockets of 3 bytes, integers of 2, options accepted by both servers, by the blocking one only and by neither, crashes, SIGINT | the two ends stay in step byte for byte, the server dies only of a killed or refused client, transfers complete |
| `procmon` | 4 scripts of 3 or 4 requests cut in every way, pipelining or not, 2 units of CPU time, a chart of 2 | replies in order and as deserved, a waiting client is answered, CPU time counted once |

Bounds. Two loops on one shard with colliding keys produce every interleaving of
two store calls; a third loop repeats them. Three requests let a request follow
one that was refused and one that ran into it; the Buffer of 8 units is
overrun, moved and refilled by them. Four list timers are enough for a node with
neighbours on both sides to move past another, and delays of 0 and 2 with a clock
that runs to 2 give expiries that tie and that differ by one and by two; five heap timers give a node with
two children below a node with two children, and the doubling. Three slots tell
"the current", "the next" and "the last" apart, timeouts of a whole number of
rounds occur, and three timers in one slot give a head, a last one and one with
two neighbours. Two descriptors and two addresses allow every exchange of the two. With
two children and two crashes SIGCHLDs merge, one or both children are gone when
a connection comes, and a socketpair of 2 fills up once the other child is dead.
Arrays of 3 cells with 4 unread bytes slide, wrap, unroll and grow, and grow
again from a wrapped state; `MaxBuffered` bounds only what the program leaves
unread. A ttcp socket of 3 bytes holds neither a session message nor the larger
frame, so every transfer is cut; `MaxLength` 2 is met, and exceeded by one. The
scripts put a body, a bad request, an unknown page and a closing request in front
of another request. `Capacity` of the heap is at least 1: a capacity of 0 doubles to 0.

Fairness. `FairSpec` of the server assumes only that each I/O thread runs; of
the idle-closing server that the process runs, time passes and a signal that was
raised is delivered; of the pool that the parent and every child run and that a
pending SIGCHLD is delivered. No client of these is assumed to do anything. `Spec`
of ttcp assumes that every client process runs and that the server serves each
socket that stays readable (libev is level triggered); nobody has to crash or to
send SIGINT. Deadlock is not checked where clients may simply stop (all runs but
`buffers` and `procmon`).

Environment of `session`: `SplitCRLF` and `Overruns` are the two kinds of read
that make the saved search position wrong. A program can get both. The passing
run excludes them and shows that nothing else goes wrong; `session_split` admits
the first and `session_overrun` the second.

The clock of `timers` does not step back: `adjust_timer` says that it only
handles postponement. With a clock that steps back list_timer.cpp would call it
for a shorter time and the list would no longer be ascending.

## Proofs

`MemcachedServerProofs` (any number of connections, loops, keys, shards, any
hash function; from `ServerAssumption`):

- `TypeCorrect`;
- `UniqueKeys`. Inductive invariant: the shard's mutex is held exactly by the
  loop inside the section for a key of that shard, a loop about to insert has
  seen no item of its key, and every item is in its key's shard;
- `OwnWritesAreRead`. On top of it: a key acknowledged with STORED on a
  connection is in the table, items are never removed, and a loop that has
  looked up a key that does not dangle with no result has no acknowledgement of it;
- `PipelinedReplies`. `OrderInv` ties three pieces of state together for every
  connection: the batch a loop still works on is the tail of what was taken from
  the socket, and the replies so far are as many as the requests before it.
  `OriginInv` says that every item in the table, and every item a loop has
  found, was sent in some set, and that what was found has the key asked for;
- `SessionsAreAlive`. A busy loop serves a connection pinned to it, a connection
  is in the session map exactly between the two sections of `mutex_`, and both
  callbacks of a connection run on the same loop;
- `StoreIsLinearizable`, the refinement of `ItemTable` under the mapping
  `tableOf`, `callOf`. `Find` of a get or of an existing key, and `Insert`, are
  the instants of effect; it needs `UniqueKeys`' invariant to know that the
  element found is the entry.

`ProcessPoolProofs` (any number of children, connections and crashes, from
`PoolAssumption`): `PoolTypes`, with `Counted` (an event of a socketpair has
something to read) and the fact that the round robin search reaches every child;
`ParentOutlivesChildren`, with `PoolIsUnjoined` (`m_pid` knows exactly the
children not joined, `m_stop` implies that there is none); and, under
`~EarlyDeath`, `DeadChildrenAreNoticed`, with `QuietSetup` (no child has been
told to stop while the parent still sets up). `ChildrenToldOfConnections` is a
conservation law: the connections that wait are at least as many as the
notifications in the socketpairs and the parent's events of the listening socket
that have not become one yet; an event of a round does not come twice. The notifications of all children are counted as the
cardinality of a set of (child, place) pairs, so that the library's theorems on
finite sets take the place of an induction over a sum.

`ListTimerServerProofs` (any number of descriptors and timer addresses, any
`TIMESLOT`, from `ServerAssumption`): `TimersPaired`, `NoStaleEvents`,
`NoHiddenSignal`, `OneHeartbeat`. The four invariants hold each other up and are
proved together: events are fresh because only an open descriptor can be ready
(`Fresh`), a freed descriptor has no timer left because timers are paired, and a
SIGALRM in the pipe is what keeps the beat while no alarm is set (`Beat`:
exactly one of alarm, pipe and flag). `Room` (connections that wait and open
ones fit the descriptors) makes `accept` find one. That there is a lowest free
descriptor needs `Least`, a set of numbers has a least element, from
the well-foundedness of `<`.

`TimerContainersProofs` (any timers, delays, initial array and capacity, from
`TimerContainersAssumption`):

- `ListIsWellLinked`. That `prev` undoes `next` and that `expire` does not
  descend is not inductive: a ring of timers beside the list would satisfy it,
  and a deletion through the head would then miss them. The invariant gives
  every linked timer a rank (`Chain`): `next` is the timer of the next rank, the
  head has the lowest and the tail the highest. `ChainHead`, `ChainInsert`,
  `ChainRemove` and `ChainPostpone` say what the pointer assignments do to a
  chain; `Walk` that the walk of `add_timer` has passed no later timer;
- `HeapIsOrdered`. With the moving timer counted in the hole, an iteration of
  either percolation exchanges two places (`Exchanged`), so the places hold every
  timer once throughout. The order may fail only next to the hole, and the
  timers above and below the hole respect each other across it (`HeapBut`);
  behind place `build` of the constructor's loop all is in order;
- `ListImplementsQueue`, `HeapImplementsQueue`. Every step is a step of
  `TimerQueue` or changes none of its variables. The head expires first because
  ranks order it; the top because the least place that contradicted it would have
  a parent (`TopIsLeast`). The percolations, and the removal of a timer that
  `del_timer` had marked, are stuttering.

`TimerContainersProofs` also has the wheel (any number of slots and any
interval, from `WheelAssumption`): `WheelTypes`, `TimersAreLinked`, `RotationsCountDown`,
`WheelIsPunctual`. `LinkedWhereItSays` is inductive: neighbours point at each
other and name the same slot, only a head has no predecessor, and no set of
timers is closed under `prev`, which a ring beside the list would be.
`N * rotation + distance = left` holds between two ticks only. Inside a tick the
timers `tmp` has passed have lost their round already, so `Counted` says it
of two sets: the timers `Behind` it, a part of the current list that begins at
the head and ends where `tmp` is, and the rest (`Ahead`). At the end of the list
the whole slot is behind (`AllBehind`, from the absence of circles), and the turn
of the wheel makes the distance jump from 0 to N - 1, which the round lost pays
for.

`BuffersProofs` (any initial size, any size of the extra
buffer, any set of strings, any number of unread bytes, from
`BuffersAssumption`):

- `TbufImplementsQueue`. The invariant `TbufInv` says that the indices lie in the
  array; `AppendAdds` follows `append` through slide, growth or neither, cell by
  cell, and serves `readfd` too, which calls it on an array it has half filled.
- `CircularBufferImplementsQueue`. `RingOK`: the cell to write is the one
  `readable_bytes_` behind `read_idx_`, modulo the size, and one cell is free;
  `CallOK`: what the call under way has left to push fits into the free cells,
  what it has left to pop is there, and the bytes of an integer read so far and
  the ones to come make a whole one. `RingPush`, `RingPop` and `RingGrow` say
  what the code does to the contents.
- `NoAssertionFails`, from both invariants. `AppendString` has one precondition
  that tbuf.h does not state: an empty string is not appended to an array that is
  written to its last cell. `UnappendableFails` shows that it is needed.

`TtcpProofs` (any number of clients, any options, size of integers and of
sockets that take an ack, both servers; from `TtcpAssumption`): `EndsInStep` and
`ServerOutlivesClients`. The invariant (`Sound`) has one equation per connection
in place of counters: the server's input, the bytes in the socket and what the
client has left to write are, joined, what the server takes next (`Flow`); while
the client waits for an ack, the bytes it has read of it, the ones on their way
and the ones the server has left to write are the ack. A frame in the server's
input is thus whole only while its client waits for the ack (`FrameWhole`), so
that the socket towards it is empty and takes the ack in one write. Nobody finds
a normal client gone, because a served client that is done announced no
frame (`SoundDone`), and because the event driven server closes a connection only
after the last ack (`ClosedLast`): its clients fail only when it has ended. Every
step is first a lemma about one connection (`SoundWrite`, `SoundFrame`, ...),
then about the specification (`WriteKeeps`, `ExpectFrameKeeps`, ...). `InStep`
follows by counting the bytes of the equations.

`MemcachedSessionProofs` (any requests and values, Buffer size, width of `int`
and length limit, from the assumptions of `MemcachedSession`). The theorems
assume `~SplitCRLF` and `~Overruns`, without which TLC refutes them:

- `AllBufferConsumed`. `PosInBuffer`: the saved position
  lies in the buffer, no line ends before it, and between two callbacks it is
  the end of the buffer. That is inductive only with `WholeLineEnds`: a CR whose
  LF has not arrived is left in the buffer only inside an incomplete value;
- `ProtocolServed`. `Follows`: there are a stream `st` of everything written and
  places `p` in it where the requests end, and buffer and wire are what comes
  after the end of as many requests as were logged, or after the line of the
  next set. The stream is a witness, so that nothing is computed about it;
- `CutsDoNotMatter`. `Parsed`: the session has done what a chain of steps of the
  reference does on the units received (`Chain`) and stands where the chain ends
  or behind the line of a set there. A step the reference has taken is the same
  on every longer stream; when `onMessage` returns no further step is possible.

`ProcmonProofs` (any clients that announce what they send, any cuts, any chart;
from `NumberAssumption` and `ProcmonAssumption`):

- `RepliesDeserved`, `WaitingAnswered`. `Talk`: while the connection is kept, the
  parser stands in the request after as many as were answered (`Place`: at its
  line, at header `h`, in its body, or behind it), the buffer holds the stream
  from there to what has arrived (`Holds`), the half-filled request has what the
  headers so far say (`Said`), and a client that waits has not sent more than
  this request, nor all of it once the server is idle (`Waiting`). `EncodeFacts`
  and `StreamFacts` say where the units of a request lie in the stream;
  `UnitLine`, `EmptyLine` that the search for CR LF finds the lines of the
  request, and finds none before one is complete;
- `NothingCountedTwice`. `Sampled`: the samples in the chart and the CPU time
  since the last one are together at most what was used.

`FlattenSeq`, `Total` and `Reference` are recursive functions. What they are is
shown without an induction theorem: the set of places at which they could be
something else would have a least number (`LeastNumber`, `NoLeast`).

Only model-checked: liveness (`AllServed`, `SilentClosed`, `StopsOnTerm`,
`ShutdownCompletes`, `ExitsWithChildren`, `Completes`), which is out of TLAPS's
reach. Every other property of the passing runs is also a theorem.

A timer of the wheel is called back by the `tick()` that follows `ticks`
complete ones, that is by call number `ticks + 1` after `add_timer`.

## Plan

Done: memcached server and session, the three timer containers, the idle-closing
server, the process pool, both buffers, ttcp, the HTTP parser and procmon's
server; every safety property and refinement is proved. Next: the line buffer of
the low-level rot13 server.

## Findings without a run

With `EarlyDeath = TRUE` a child may die between the fork in the constructor and
the parent's `addsig(SIGCHLD)`. That SIGCHLD is ignored: TLC then finds
`NoLostChild` and `ExitsWithChildren` violated, against the comment at
half_sync_half_async.h:358; if no child is left, SIGTERM does not end the parent
either. The runs and the theorem set `EarlyDeath` to `FALSE`.

The length of a set is cut to an `int` before it is compared with the limit
(session.h:81): 2^32 + 1 bytes are announced, 1 is accepted, and the rest of the
value is taken for commands. The `session` run has such a length; its reference
wraps it too, so what it shows is that this, too, does not depend on the cuts.

`Tbuf::append` of an empty string fails the assertion at tbuf.h:60 when the array
is full to its last cell (`UnappendableFails`).

`doGet` (session.cpp:221) keeps a `StringPiece` to a dead temporary; the model
chooses what a key of `DanglingKeys` then reads (itself or `Junk`).

A header line without a colon ends the headers whatever it holds
(http_context.cpp:106, whose comment at line 115 says "empty line"). The `procmon` run
sends such a request (`Unended`).

## Not modelled

- The rot13 servers. The low-level one asserts (low_level_rot13_server.cpp:154)
  that a flushed buffer is empty, which a partial line behind a complete one
  refutes, and stops storing at MAX_LINE; the simple one leaves its buffering to
  libevent's bufferevent.
- netcat, sender and chargen: relays and generators of a few lines around muduo
  or around `read` and `write` loops.
- What procmon's pages and its chart show (file formats, drawing); the CGI
  demonstration of http.
- The demonstrations (one system call each), option parsing and socket set-up,
  whose failures end in assertions, and the destructors of the containers, which
  run at exit.
- A negative Content-Length (fails an assertion of `HttpContext`), negative ttcp
  options.
- `accept` without a free descriptor in list_timer.cpp (the result -1 is used as
  an index, which has no defined effect), a clock that steps back
  (list_timer.h:86), and a heap of capacity 0 (doubling gives 0).

`ListTimerServer` does model that of two clients behind one edge of the listening
socket (list_timer.cpp:133) only one is accepted; nothing in the repository says
otherwise of that server, so no run asks. `pool_burst` shows the same of the pool.
