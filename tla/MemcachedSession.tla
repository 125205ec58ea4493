-------------------------- MODULE MemcachedSession --------------------------
(***************************************************************************)
(* memcached/server/session.cpp: how one Session cuts requests out of the  *)
(* bytes of its connection.                                                *)
(*                                                                         *)
(* The stream is a sequence of units: CR, LF, a piece of plain data, or    *)
(* the text of a command line (a record, without its CRLF).  A read of the *)
(* socket delivers any number of units to the muduo Buffer and onMessage   *)
(* loops over them.  Unit boundaries are the only places where a read may  *)
(* end that the code can tell apart: a line cut elsewhere is a line whose  *)
(* CRLF has not come.  A unit counts as one byte.                          *)
(*                                                                         *)
(* curSearchPos_ is a raw pointer into the Buffer's storage and is kept    *)
(* from one onMessage to the next, while the Buffer may move its bytes.    *)
(***************************************************************************)
EXTENDS Integers, Sequences, FiniteSets

CONSTANTS Keys,          \* item keys
          Data,          \* units of plain data
          CR, LF,        \* the two units of a line end
          NULL,          \* the null pointer; no key
          Fused,         \* a key with a line end in it; nobody stores it
          Requests,      \* what a client may write: [line, data] records
          MaxRequests,   \* bound: requests written in a behaviour
          Present,       \* keys that other sessions have stored before
          InitialSize,   \* the storage of a fresh Buffer (kInitialSize)
          IntMax,        \* the largest int
          kMaxValueLen,  \* 1024 * 1024: longer values are refused
          SplitCRLF,     \* a read may end between the CR and the LF of a line
          Overruns       \* a read may overrun the Buffer with a position saved

\* A command line: a key (NULL if the line ends before one), and the declared
\* length that strtoull has read.  ok is FALSE for a set whose other fields
\* doUpdate rejects (a key of more than 250 characters, a field missing, not a
\* number or negative).
Text == [cmd : {"set", "get", "quit"}, key : Keys \cup {NULL}, len : Nat,
         ok : BOOLEAN]
Unit == Text \cup Data \cup {CR, LF}

ASSUME SessionAssumption ==
    /\ Requests \subseteq [line : Text, data : Seq(Unit)]
    /\ MaxRequests \in Nat /\ InitialSize \in Nat \ {0}
    /\ IntMax \in Nat /\ kMaxValueLen \in Nat
    /\ SplitCRLF \in BOOLEAN /\ Overruns \in BOOLEAN
    /\ Present \subseteq Keys /\ {NULL, Fused} \cap Keys = {}
    /\ NULL \notin Nat /\ NULL \notin [gen : Nat, idx : Nat]
    /\ CR # LF /\ CR \notin Data \cup Text /\ LF \notin Data \cup Text

VARIABLES wire,          \* units the client has written and nobody has read
          written,       \* the requests the client has written
          received,      \* every unit read from the socket so far
          buf,           \* the connection's input Buffer
          running,       \* TRUE inside onMessage
          receiveState,  \* receiveState_
          curSearchPos,  \* curSearchPos_: NULL or [gen, idx]
          curKey,        \* curKey_
          curValueLen,   \* curValueLen_
          items,         \* the keys in the owner's table
          down,          \* conn_->shutdown() was called
          log,           \* what the session did, in order
          alive          \* FALSE once the process has died

vars == <<wire, written, received, buf, running, receiveState, curSearchPos,
          curKey, curValueLen, items, down, log, alive>>

Init ==
    /\ wire = <<>> /\ written = <<>> /\ received = <<>>
    /\ buf = [gen |-> 0, rd |-> 0, size |-> InitialSize, data |-> <<>>]
    /\ running = FALSE
    /\ receiveState = "kReadCommandLine"
    /\ curSearchPos = NULL
    /\ curKey = NULL
    /\ curValueLen = 0
    /\ items = Present
    /\ down = FALSE
    /\ log = <<>>
    /\ alive = TRUE

-----------------------------------------------------------------------------
(* The client: a request is a line and, for a set, the value and its CRLF. *)

CRLF == <<CR, LF>>

Encode(r) ==
    <<r.line>> \o CRLF \o (IF r.line.cmd = "set" THEN r.data \o CRLF ELSE <<>>)

ClientWrite(r) ==
    /\ alive /\ Len(written) < MaxRequests
    /\ wire' = wire \o Encode(r)
    /\ written' = Append(written, r)
    /\ UNCHANGED <<received, buf, running, receiveState, curSearchPos, curKey,
                   curValueLen, items, down, log, alive>>

-----------------------------------------------------------------------------
(* muduo::net::Buffer.  data is what is readable, rd where it starts in    *)
(* storage number gen, of size units; the prepend area is left out.        *)

Readable == Len(buf.data)
WriterIndex == buf.rd + Readable
Writable == buf.size - WriterIndex

\* readFd: what does not fit the writable units is appended from a second
\* buffer; makeSpace then moves the readable units to the front, or grows the
\* vector, which may or may not change its storage.
ReadFd(units) ==
    LET n == Len(units)
        over == n - Writable
        all == buf.data \o units
    IN  IF over <= 0 THEN {[buf EXCEPT !.data = all]}
        ELSE IF over <= buf.rd
             THEN {[buf EXCEPT !.data = all, !.rd = 0]}
             ELSE {[buf EXCEPT !.data = all, !.size = buf.rd + Len(all),
                               !.gen = g] : g \in {buf.gen, buf.gen + 1}}

\* retrieveUntil(peek() + n)
Retrieve(n) ==
    IF n < Readable
    THEN [buf EXCEPT !.rd = @ + n, !.data = SubSeq(@, n + 1, Len(@))]
    ELSE [buf EXCEPT !.rd = 0, !.data = <<>>]

\* The offsets from peek() of the line ends at or after offset i.
LineEnds(i) ==
    {j \in i .. Readable - 2 : buf.data[j + 1] = CR /\ buf.data[j + 2] = LF}

Least(S) == IF S = {} THEN {NULL} ELSE {CHOOSE i \in S : \A j \in S : i <= j}

\* findCRLF(curSearchPos_): defined when the pointer points into the readable
\* units (or at their end) of the storage it was taken from; otherwise the
\* search runs over memory that is not the Buffer's, and may end anywhere.
SearchFrom(p) ==
    IF p.gen = buf.gen /\ p.idx \in buf.rd .. WriterIndex
    THEN Least(LineEnds(p.idx - buf.rd))
    ELSE LineEnds(0) \cup {NULL}

\* What findCRLF may return in onMessage.
FindCRLF ==
    IF curSearchPos # NULL THEN SearchFrom(curSearchPos) ELSE Least(LineEnds(0))

-----------------------------------------------------------------------------
(* Session::onMessage                                                      *)

\* Where a read may end.  Without SplitCRLF it never ends inside a CRLF, save
\* inside the value that onMessage is waiting for; without Overruns it stays
\* within the writable units while a search position is saved.
MayEnd(n) ==
    /\ ~SplitCRLF /\ n < Len(wire) /\ wire[n] = CR /\ wire[n + 1] = LF
         => receiveState = "kReadValue" /\ Readable + n < curValueLen + 2
    /\ ~Overruns /\ curSearchPos # NULL => n <= Writable

\* The loop reads the socket and calls onMessage.
Read ==
    /\ alive /\ ~running
    /\ \E n \in 1 .. Len(wire) :
          /\ MayEnd(n)
          /\ buf' \in ReadFd(SubSeq(wire, 1, n))
          /\ received' = received \o SubSeq(wire, 1, n)
          /\ wire' = SubSeq(wire, n + 1, Len(wire))
    /\ running' = TRUE
    /\ UNCHANGED <<written, receiveState, curSearchPos, curKey, curValueLen,
                   items, down, log, alive>>

\* No line end: remember how far the search came, and return.
NoLine ==
    /\ alive /\ running /\ receiveState = "kReadCommandLine"
    /\ NULL \in FindCRLF
    /\ curSearchPos' = [gen |-> buf.gen, idx |-> WriterIndex]
    /\ running' = FALSE
    /\ UNCHANGED <<wire, written, received, buf, receiveState, curKey,
                   curValueLen, items, down, log, alive>>

\* static_cast<int> of what strtoull read: modulo the number of values of an int.
ToInt(x) ==
    LET m == x % (2 * (IntMax + 1))
    IN  IF m <= IntMax THEN m ELSE m - 2 * (IntMax + 1)

\* The tokens of a line.  What follows a text on the same line, a line end that
\* was missed included, ends up in its last token: a bare command is then none,
\* a set has a field that is no number, a get asks for a key nobody has.
Parse(line) ==
    IF line = <<>> \/ Head(line) \notin Text THEN [cmd |-> "unknown"]
    ELSE IF Len(line) = 1 THEN Head(line)
    ELSE IF Head(line).key = NULL THEN [cmd |-> "unknown"]
    ELSE IF Head(line).cmd = "set" THEN [Head(line) EXCEPT !.ok = FALSE]
    ELSE [Head(line) EXCEPT !.key = Fused]

\* One entry of the log; told says whether conn_->send took the reply.
Did(op, k, d) ==
    log' = Append(log, [op |-> op, key |-> k, data |-> d, told |-> ~down])

\* A line is found: doRequestCommand handles it, and both branches of onMessage
\* retrieve it and clear the search position.
Line(request) ==
    /\ alive /\ running /\ receiveState = "kReadCommandLine"
    /\ \E i \in FindCRLF \ {NULL} :
          /\ request = Parse(SubSeq(buf.data, 1, i))
          /\ buf' = Retrieve(i + 2)
    /\ curSearchPos' = NULL
    /\ UNCHANGED <<wire, written, received, running>>

\* An empty line or an unknown command: return false, say nothing.
UnknownCommand(request) ==
    /\ request.cmd = "unknown" /\ Line(request)
    /\ UNCHANGED <<receiveState, curKey, curValueLen, items, down, log, alive>>

QuitCommand(request) ==
    /\ request.cmd = "quit" /\ Line(request)
    /\ down' = TRUE
    /\ Did("quit", NULL, <<>>)
    /\ UNCHANGED <<receiveState, curKey, curValueLen, items, alive>>

\* doGet without a key.
DoGetError(request) ==
    /\ request.cmd = "get" /\ request.key = NULL /\ Line(request)
    /\ Did("CLIENT_ERROR", NULL, <<>>)
    /\ UNCHANGED <<receiveState, curKey, curValueLen, items, down, alive>>

\* doGet of a key in the table.
DoGet(request) ==
    /\ request.cmd = "get" /\ request.key \in items /\ Line(request)
    /\ Did("get", request.key, <<>>)
    /\ UNCHANGED <<receiveState, curKey, curValueLen, items, down, alive>>

\* doGet of a key that is not there dereferences the null ConstItemPtr.
DoGetMissing(request) ==
    /\ request.cmd = "get" /\ request.key \notin items \cup {NULL} /\ Line(request)
    /\ alive' = FALSE
    /\ UNCHANGED <<receiveState, curKey, curValueLen, items, down, log>>

\* doUpdate: no key, bad fields, or an int that is negative.  What a refused
\* set leaves in curKey_ and curValueLen_ is overwritten before it is read.
DoUpdateError(request) ==
    /\ request.cmd = "set"
    /\ request.key = NULL \/ ~request.ok \/ ToInt(request.len) < 0
    /\ Line(request)
    /\ curKey' = IF request.key = NULL THEN curKey ELSE request.key
    /\ curValueLen' = IF request.key = NULL \/ ~request.ok THEN curValueLen
                      ELSE ToInt(request.len)
    /\ Did("CLIENT_ERROR", NULL, <<>>)
    /\ UNCHANGED <<receiveState, items, down, alive>>

\* doUpdate: the value is too large; its bytes stay in the stream.
DoUpdateTooLarge(request) ==
    /\ request.cmd = "set" /\ request.key # NULL /\ request.ok
    /\ ToInt(request.len) >= kMaxValueLen
    /\ Line(request)
    /\ curKey' = request.key
    /\ curValueLen' = ToInt(request.len)
    /\ Did("SERVER_ERROR", NULL, <<>>)
    /\ UNCHANGED <<receiveState, items, down, alive>>

\* doUpdate accepts: wait for the value.
DoUpdate(request) ==
    /\ request.cmd = "set" /\ request.key # NULL /\ request.ok
    /\ ToInt(request.len) \in 0 .. kMaxValueLen - 1
    /\ Line(request)
    /\ curKey' = request.key
    /\ curValueLen' = ToInt(request.len)
    /\ receiveState' = "kReadValue"
    /\ UNCHANGED <<items, down, log, alive>>

\* Slip: one byte too many is asked for.
HasMoreThanValue == Readable > curValueLen + 2

HasValue == Readable >= curValueLen + 2

\* Slip: the value ends at its first line end instead of at its length.
StoreValueToCRLF ==
    /\ alive /\ running /\ receiveState = "kReadValue" /\ HasValue
    /\ \E i \in Least(LineEnds(0)) \ {NULL} :
          /\ items' = items \cup {curKey}
          /\ Did("set", curKey, SubSeq(buf.data, 1, i))
          /\ buf' = Retrieve(i + 2)
    /\ receiveState' = "kReadCommandLine"
    /\ UNCHANGED <<wire, written, received, running, curSearchPos, curKey,
                   curValueLen, down, alive>>

\* The value and its CRLF are there: storeData, STORED.
StoreValue ==
    /\ alive /\ running /\ receiveState = "kReadValue" /\ HasValue
    /\ SubSeq(buf.data, curValueLen + 1, curValueLen + 2) = CRLF
    /\ items' = items \cup {curKey}
    /\ Did("set", curKey, SubSeq(buf.data, 1, curValueLen))
    /\ buf' = Retrieve(curValueLen + 2)
    /\ receiveState' = "kReadCommandLine"
    /\ UNCHANGED <<wire, written, received, running, curSearchPos, curKey,
                   curValueLen, down, alive>>

\* The value is not followed by CRLF: drop it without a word.
DropValue ==
    /\ alive /\ running /\ receiveState = "kReadValue" /\ HasValue
    /\ SubSeq(buf.data, curValueLen + 1, curValueLen + 2) # CRLF
    /\ buf' = Retrieve(curValueLen + 2)
    /\ receiveState' = "kReadCommandLine"
    /\ UNCHANGED <<wire, written, received, running, curSearchPos, curKey,
                   curValueLen, items, down, log, alive>>

\* Slip: the state machine starts afresh in every onMessage.
AwaitValueForgets ==
    /\ alive /\ running /\ receiveState = "kReadValue" /\ ~HasValue
    /\ running' = FALSE
    /\ receiveState' = "kReadCommandLine"
    /\ UNCHANGED <<wire, written, received, buf, curSearchPos, curKey,
                   curValueLen, items, down, log, alive>>

\* Part of the value is still to come.
AwaitValue ==
    /\ alive /\ running /\ receiveState = "kReadValue" /\ ~HasValue
    /\ running' = FALSE
    /\ UNCHANGED <<wire, written, received, buf, receiveState, curSearchPos,
                   curKey, curValueLen, items, down, log, alive>>

-----------------------------------------------------------------------------

\* The lines doRequestCommand may be called with now.
Lines == {Parse(SubSeq(buf.data, 1, i)) : i \in FindCRLF \ {NULL}}

OnMessage ==
    \/ NoLine \/ StoreValue \/ DropValue \/ AwaitValue
    \/ \E r \in Lines :
          \/ UnknownCommand(r) \/ QuitCommand(r) \/ DoGet(r) \/ DoGetError(r)
          \/ DoGetMissing(r) \/ DoUpdateError(r) \/ DoUpdateTooLarge(r) \/ DoUpdate(r)

Next == (\E r \in Requests : ClientWrite(r)) \/ Read \/ OnMessage

Spec == Init /\ [][Next]_vars

-----------------------------------------------------------------------------
(* Properties                                                              *)

\* session.h:126 "reduce time complexity": starting at the saved position finds
\* the line end that a search of the whole buffer finds, across the reads,
\* moves and growths of the Buffer in between.  Not so if a read overruns the
\* Buffer, which moves its units or its storage, with a position saved.
SearchPosIsOnlyAnOptimisation ==
    running /\ receiveState = "kReadCommandLine"
      => FindCRLF = Least(LineEnds(0))

\* session.cpp:34 "consumer all buffer": when onMessage returns, what is left
\* in the buffer is neither a whole line nor the whole value it waits for.
ConsumesAllBuffer ==
    alive /\ ~running
      => IF receiveState = "kReadCommandLine" THEN LineEnds(0) = {}
         ELSE Readable < curValueLen + 2

\* A request as the protocol means it.
WellFormed(r) ==
    \/ r.line.cmd # "set" /\ (r.line.cmd = "get" => r.line.key # NULL)
    \/ /\ r.line.cmd = "set" /\ r.line.key # NULL /\ r.line.ok
       /\ r.line.len = Len(r.data) /\ r.line.len < kMaxValueLen
       /\ r.line.len <= IntMax

\* What follows quit on its line means nothing.
Meaning(r) == [op |-> r.line.cmd,
               key |-> IF r.line.cmd = "quit" THEN NULL ELSE r.line.key,
               data |-> IF r.line.cmd = "set" THEN r.data ELSE <<>>]

\* As long as the client keeps to the protocol, the session does what the
\* client asked, in order and nothing else, however the stream is cut: a value
\* is opaque, even one that holds line ends or the text of a command.
RequestsRespected ==
    \A i \in 1 .. Len(log) :
        (\A j \in 1 .. i : j <= Len(written) => WellFormed(written[j]))
          => /\ i <= Len(written)
             /\ [op |-> log[i].op, key |-> log[i].key, data |-> log[i].data]
                  = Meaning(written[i])

-----------------------------------------------------------------------------
(* The reference: a parser that has the whole stream s and handles one     *)
(* request after the other, as far as s holds whole ones and until a get   *)
(* of a key that is not there.  pos is its place in s.                     *)

Start == [pos |-> 1, items |-> Present, down |-> FALSE, log |-> <<>>]

\* The log of c with one more entry.
Entered(c, op, k, u) ==
    Append(c.log, [op |-> op, key |-> k, data |-> u, told |-> ~c.down])

\* A line answered, which ends at e.
Answered(c, op, k, e) ==
    [pos |-> e + 2, items |-> c.items, down |-> c.down,
     log |-> Entered(c, op, k, <<>>)]

\* A value of n units for key k, after a line that ends at e.
HandleValue(s, c, e, k, n) ==
    IF Len(s) < e + n + 3 THEN c
    ELSE IF SubSeq(s, e + n + 2, e + n + 3) = CRLF
         THEN [pos |-> e + n + 4, items |-> c.items \cup {k}, down |-> c.down,
               log |-> Entered(c, "set", k, SubSeq(s, e + 2, e + n + 1))]
         ELSE [c EXCEPT !.pos = e + n + 4]

\* The line r, which ends at e.
HandleLine(s, c, e, r) ==
    CASE r.cmd = "unknown" -> [c EXCEPT !.pos = e + 2]
      [] r.cmd = "quit" -> [pos |-> e + 2, items |-> c.items, down |-> TRUE,
                            log |-> Entered(c, "quit", NULL, <<>>)]
      [] r.cmd = "get" ->
           IF r.key = NULL THEN Answered(c, "CLIENT_ERROR", NULL, e)
           ELSE IF r.key \in c.items THEN Answered(c, "get", r.key, e)
           ELSE c
      [] r.cmd = "set" ->
           IF r.key = NULL \/ ~r.ok \/ ToInt(r.len) < 0
           THEN Answered(c, "CLIENT_ERROR", NULL, e)
           ELSE IF ToInt(r.len) >= kMaxValueLen
                THEN Answered(c, "SERVER_ERROR", NULL, e)
                ELSE HandleValue(s, c, e, r.key, ToInt(r.len))

Ends(s, p) == {j \in p .. Len(s) - 1 : s[j] = CR /\ s[j + 1] = LF}

Handle(s, c) ==
    LET ends == Ends(s, c.pos)
        e == CHOOSE j \in ends : \A m \in ends : j <= m
    IN  IF ends = {} THEN c
        ELSE HandleLine(s, c, e, Parse(SubSeq(s, c.pos, e - 1)))

\* Every request takes a unit or more: Len(s) times is enough.
Reference(s) ==
    LET c[k \in 0 .. Len(s)] == IF k = 0 THEN Start ELSE Handle(s, c[k - 1])
    IN  c[Len(s)]

\* What the session has done when onMessage returns depends on the units it was
\* given and not on how the reads cut them, for any client.
ChunkingIrrelevant ==
    ~running =>
      LET c == Reference(received)
      IN  log = c.log /\ items = c.items /\ down = c.down
=============================================================================
