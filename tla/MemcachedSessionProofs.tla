----------------------- MODULE MemcachedSessionProofs -----------------------
(***************************************************************************)
(* The session of session.cpp for every set of requests, every integer     *)
(* width and every length limit: if no read ends inside a CRLF or overruns *)
(* the Buffer while a search position is saved, onMessage consumes all it  *)
(* can, a client that keeps to the protocol gets what it asked for, and    *)
(* any client gets what one pass over its stream would do.                 *)
(***************************************************************************)
EXTENDS MemcachedSession, WellFoundedInduction, TLAPS

Request == [cmd : {"set", "get", "quit"}, key : Keys \cup {NULL, Fused},
            len : Nat, ok : BOOLEAN]

Ops == {"set", "get", "quit", "CLIENT_ERROR", "SERVER_ERROR"}

Entry == [op : Ops, key : Keys \cup {NULL}, data : Seq(Unit), told : BOOLEAN]

Buffer == [gen : Nat, rd : Nat, size : Nat, data : Seq(Unit)]

Types ==
    /\ wire \in Seq(Unit)
    /\ written \in Seq(Requests)
    /\ buf \in Buffer
    /\ running \in BOOLEAN /\ alive \in BOOLEAN /\ down \in BOOLEAN
    /\ receiveState \in {"kReadCommandLine", "kReadValue"}
    /\ curSearchPos \in [gen : Nat, idx : Nat] \cup {NULL}
    /\ curKey \in Keys \cup {NULL}
    /\ receiveState = "kReadValue" => curKey \in Keys
    /\ curValueLen \in Int
    /\ items \subseteq Keys
    /\ log \in Seq(Entry)

-----------------------------------------------------------------------------
(* Lines and the search for them.                                          *)

\* Every set of numbers that is not empty has a least element.
LEMMA LeastNumber ==
    ASSUME NEW S, S \subseteq Nat, S # {}
    PROVE  \E n \in S : \A m \in S : n <= m
<1> DEFINE R == OpToRel(<, Nat)
<1>1. IsWellFoundedOn(R, Nat)
  BY NatLessThanWellFounded
<1>2. PICK x \in S : \A y \in S : ~(<<y, x>> \in R)
  <2> HIDE DEF R
  <2> QED
    BY <1>1, WFMin
<1>3. \A y \in S : y < x => <<y, x>> \in R
  BY DEF OpToRel
<1>4. \A y \in S : x \in Nat /\ y \in Nat /\ ~(y < x)
  BY <1>2, <1>3, Zenon
<1> HIDE DEF R
<1> QED
  BY <1>4

\* The first line end found is one, and comes before the others.
LEMMA LeastFacts ==
    ASSUME NEW S, S \subseteq Nat
    PROVE  /\ \A i \in Least(S) \ {NULL} : i \in S /\ \A j \in S : i <= j
           /\ NULL \in Least(S) => S = {}
<1>1. CASE S = {}
  BY <1>1 DEF Least
<1>2. CASE S # {}
  <2> DEFINE c == CHOOSE i \in S : \A j \in S : i <= j
  <2>1. c \in S /\ \A j \in S : c <= j
    BY <1>2, LeastNumber
  <2>2. Least(S) = {c}
    BY <1>2 DEF Least
  <2>3. c # NULL
    BY <2>1, SessionAssumption
  <2> HIDE DEF c
  <2> QED
    BY <2>1, <2>2, <2>3
<1> QED
  BY <1>1, <1>2

LEMMA BufferFacts ==
    ASSUME Types
    PROVE  /\ buf.gen \in Nat /\ buf.rd \in Nat /\ buf.size \in Nat
           /\ buf.data \in Seq(Unit) /\ Len(buf.data) \in Nat
           /\ Readable = Len(buf.data) /\ WriterIndex = buf.rd + Len(buf.data)
           /\ Writable = buf.size - (buf.rd + Len(buf.data))
<1>1. buf \in [gen : Nat, rd : Nat, size : Nat, data : Seq(Unit)]
  BY DEF Types, Buffer
<1>2. buf.data \in Seq(Unit) /\ buf.gen \in Nat /\ buf.rd \in Nat /\ buf.size \in Nat
  BY <1>1
<1>3. Len(buf.data) \in Nat
  BY <1>2
<1> QED
  BY <1>2, <1>3 DEF Readable, WriterIndex, Writable

\* What a line end is.
LEMMA LineEndFacts ==
    ASSUME Types, NEW i \in Nat
    PROVE  \A j : j \in LineEnds(i) <=>
              /\ j \in Nat /\ i <= j /\ j + 2 <= Len(buf.data)
              /\ buf.data[j + 1] = CR /\ buf.data[j + 2] = LF
<1>1. Len(buf.data) \in Nat /\ Readable = Len(buf.data)
  BY BufferFacts
<1> QED
  BY <1>1 DEF LineEnds

\* Wherever the search starts, what it finds is a line end.
LEMMA FindCRLFSound ==
    ASSUME Types
    PROVE  \A i \in FindCRLF \ {NULL} : i \in LineEnds(0)
<1> SUFFICES ASSUME NEW i \in FindCRLF, i # NULL
             PROVE  i \in LineEnds(0)
  OBVIOUS
<1>1. \A k \in Nat : LineEnds(k) \subseteq LineEnds(0) /\ LineEnds(k) \subseteq Nat
  <2> SUFFICES ASSUME NEW k \in Nat
               PROVE  LineEnds(k) \subseteq LineEnds(0) /\ LineEnds(k) \subseteq Nat
    OBVIOUS
  <2>1. \A j \in LineEnds(k) : j \in Nat /\ j \in LineEnds(0)
    BY LineEndFacts
  <2> QED
    BY <2>1
<1>2. \A k \in Nat : i \in Least(LineEnds(k)) => i \in LineEnds(0)
  BY <1>1, LeastFacts
<1>3. CASE curSearchPos = NULL
  BY <1>2, <1>3 DEF FindCRLF
<1>4. CASE curSearchPos # NULL
  <2> DEFINE p == curSearchPos
  <2>1. p.idx \in Nat /\ buf.rd \in Nat /\ i \in SearchFrom(p)
    <3>1. p \in [gen : Nat, idx : Nat]
      BY <1>4 DEF Types
    <3> QED
      BY <1>4, <3>1, BufferFacts DEF FindCRLF
  <2>2. CASE p.gen = buf.gen /\ p.idx \in buf.rd .. WriterIndex
    <3>1. p.idx - buf.rd \in Nat
      BY <2>1, <2>2, BufferFacts
    <3>2. i \in Least(LineEnds(p.idx - buf.rd))
      BY <2>1, <2>2 DEF SearchFrom
    <3> QED
      BY <1>2, <3>1, <3>2
  <2>3. CASE ~(p.gen = buf.gen /\ p.idx \in buf.rd .. WriterIndex)
    BY <2>1, <2>3 DEF SearchFrom
  <2> QED
    BY <2>2, <2>3
<1> QED
  BY <1>3, <1>4

LEMMA BufferRecord ==
    ASSUME NEW g \in Nat, NEW r \in Nat, NEW n \in Nat, NEW u \in Seq(Unit)
    PROVE  [gen |-> g, rd |-> r, size |-> n, data |-> u] \in Buffer
  BY DEF Buffer

\* retrieveUntil drops the first n units.
LEMMA RetrieveFacts ==
    ASSUME Types, NEW n \in Nat, n <= Len(buf.data)
    PROVE  /\ Retrieve(n) \in Buffer
           /\ Retrieve(n).gen = buf.gen
           /\ Retrieve(n).data = SubSeq(buf.data, n + 1, Len(buf.data))
<1>1. buf \in [gen : Nat, rd : Nat, size : Nat, data : Seq(Unit)]
  BY DEF Types, Buffer
<1>2. buf.data \in Seq(Unit) /\ Len(buf.data) \in Nat /\ Readable = Len(buf.data)
  BY BufferFacts
<1>3. CASE n < Len(buf.data)
  <2>1. Retrieve(n) = [buf EXCEPT !.rd = @ + n,
                                  !.data = SubSeq(@, n + 1, Len(@))]
    BY <1>2, <1>3 DEF Retrieve
  <2>2. /\ SubSeq(buf.data, n + 1, Len(buf.data)) \in Seq(Unit)
        /\ buf.rd + n \in Nat
    BY <1>1, <1>2
  <2>3. Retrieve(n) = [gen |-> buf.gen, rd |-> buf.rd + n, size |-> buf.size,
                       data |-> SubSeq(buf.data, n + 1, Len(buf.data))]
    BY <1>1, <2>1
  <2> QED
    BY <1>1, <2>2, <2>3 DEF Buffer
<1>4. CASE n = Len(buf.data)
  <2>1. Retrieve(n) = [buf EXCEPT !.rd = 0, !.data = <<>>]
    BY <1>2, <1>4 DEF Retrieve
  <2>2. SubSeq(buf.data, n + 1, Len(buf.data)) = <<>> /\ <<>> \in Seq(Unit)
    BY <1>2, <1>4
  <2>3. Retrieve(n) = [gen |-> buf.gen, rd |-> 0, size |-> buf.size, data |-> <<>>]
    BY <1>1, <2>1
  <2>4. Retrieve(n) \in Buffer
    <3>1. buf.gen \in Nat /\ buf.size \in Nat /\ 0 \in Nat
      BY <1>1
    <3>2. <<>> \in Seq(Unit)
      BY <2>2
    <3> QED
      BY <2>3, <3>1, <3>2, BufferRecord
  <2>5. Retrieve(n).gen = buf.gen /\ Retrieve(n).data = <<>>
    BY <2>3
  <2> QED
    BY <2>2, <2>4, <2>5
<1> QED
  BY <1>2, <1>3, <1>4

\* What readFd leaves: the units behind the others, somewhere.
LEMMA ReadFdFacts ==
    ASSUME Types, NEW u \in Seq(Unit), NEW b \in ReadFd(u)
    PROVE  /\ b \in Buffer /\ b.data = buf.data \o u
           /\ Len(u) <= Writable => b.gen = buf.gen /\ b.rd = buf.rd
<1>1. buf \in [gen : Nat, rd : Nat, size : Nat, data : Seq(Unit)]
  BY DEF Types, Buffer
<1>2. /\ buf.data \in Seq(Unit) /\ Len(buf.data) \in Nat /\ Len(u) \in Nat
      /\ Writable \in Int /\ buf.rd \in Nat /\ buf.gen \in Nat
  BY BufferFacts
<1>3. buf.data \o u \in Seq(Unit) /\ Len(buf.data \o u) \in Nat
  BY <1>2
<1>4. CASE Len(u) - Writable <= 0
  <2>1. b = [buf EXCEPT !.data = buf.data \o u]
    BY <1>4 DEF ReadFd
  <2> QED
    BY <1>1, <1>3, <2>1 DEF Buffer
<1>5. CASE Len(u) - Writable > 0
  <2>1. \/ b = [buf EXCEPT !.data = buf.data \o u, !.rd = 0]
        \/ \E g \in {buf.gen, buf.gen + 1} :
              b = [buf EXCEPT !.data = buf.data \o u,
                              !.size = buf.rd + Len(buf.data \o u), !.gen = g]
    BY <1>2, <1>5 DEF ReadFd
  <2>2. ~(Len(u) <= Writable)
    BY <1>2, <1>5
  <2>3. buf.rd + Len(buf.data \o u) \in Nat /\ buf.gen + 1 \in Nat
    BY <1>2, <1>3
  <2>4. CASE b = [buf EXCEPT !.data = buf.data \o u, !.rd = 0]
    BY <1>1, <1>3, <2>2, <2>4 DEF Buffer
  <2>5. ASSUME NEW g \in {buf.gen, buf.gen + 1},
               b = [buf EXCEPT !.data = buf.data \o u,
                               !.size = buf.rd + Len(buf.data \o u), !.gen = g]
        PROVE  b \in Buffer /\ b.data = buf.data \o u
    <3>1. g \in Nat
      BY <1>2, <2>3
    <3>2. b = [gen |-> g, rd |-> buf.rd, size |-> buf.rd + Len(buf.data \o u),
               data |-> buf.data \o u]
      BY <1>1, <2>5
    <3> QED
      BY <1>2, <1>3, <2>3, <3>1, <3>2 DEF Buffer
  <2> QED
    BY <2>1, <2>2, <2>4, <2>5
<1> QED
  BY <1>2, <1>4, <1>5

-----------------------------------------------------------------------------
(* The length of a value is an int that doUpdate accepted.                 *)

\* static_cast<int> gives an int, and keeps one that is.
LEMMA ToIntFacts ==
    ASSUME NEW x \in Nat
    PROVE  /\ ToInt(x) \in -(IntMax + 1) .. IntMax
           /\ x <= IntMax => ToInt(x) = x
<1>1. IntMax \in Nat
  BY SessionAssumption
<1> DEFINE w == 2 * (IntMax + 1)
           m == x % w
<1>2. w \in Nat /\ w > 0 /\ w = IntMax + IntMax + 2
  BY <1>1
<1>3. m \in 0 .. w - 1 /\ (x < w => m = x)
  <2> HIDE DEF w
  <2> QED
    BY <1>2
<1>4. ToInt(x) = IF m <= IntMax THEN m ELSE m - w
  BY DEF ToInt
<1> HIDE DEF m, w
<1>5. m \in Int /\ 0 <= m /\ m <= w - 1
  BY <1>2, <1>3
<1>6. CASE m <= IntMax
  BY <1>1, <1>2, <1>3, <1>4, <1>5, <1>6
<1>7. CASE ~(m <= IntMax)
  BY <1>1, <1>2, <1>3, <1>4, <1>5, <1>7
<1> QED
  BY <1>6, <1>7

\* What the tokens of a line make.
LEMMA ParseFacts ==
    ASSUME NEW line \in Seq(Unit)
    PROVE  \/ Parse(line).cmd = "unknown"
           \/ /\ Parse(line) \in Request
              /\ Parse(line).cmd = "set" => Parse(line).key \in Keys \cup {NULL}
<1>1. CASE line = <<>> \/ Head(line) \notin Text
  <2>1. Parse(line) = [cmd |-> "unknown"]
    BY <1>1 DEF Parse
  <2> QED
    BY <2>1
<1>2. CASE ~(line = <<>> \/ Head(line) \notin Text)
  <2> DEFINE h == Head(line)
  <2>1. h \in [cmd : {"set", "get", "quit"}, key : Keys \cup {NULL}, len : Nat,
               ok : BOOLEAN]
    BY <1>2 DEF Text
  <2>2. \/ Parse(line) = h
        \/ Parse(line) = [cmd |-> "unknown"]
        \/ h.cmd = "set" /\ Parse(line) = [h EXCEPT !.ok = FALSE]
        \/ h.cmd # "set" /\ Parse(line) = [h EXCEPT !.key = Fused]
    BY <1>2 DEF Parse
  <2> HIDE DEF h
  <2>3. CASE Parse(line) = h
    BY <2>1, <2>3 DEF Request
  <2>4. CASE Parse(line) = [cmd |-> "unknown"]
    BY <2>4
  <2>5. CASE h.cmd = "set" /\ Parse(line) = [h EXCEPT !.ok = FALSE]
    BY <2>1, <2>5 DEF Request
  <2>6. CASE h.cmd # "set" /\ Parse(line) = [h EXCEPT !.key = Fused]
    BY <2>1, <2>6 DEF Request
  <2> QED
    BY <2>2, <2>3, <2>4, <2>5, <2>6
<1> QED
  BY <1>1, <1>2

\* A line that is handled ends at a line end, and is retrieved with it.
LEMMA LineFacts ==
    ASSUME Types, NEW r, Line(r)
    PROVE  \E i \in Nat :
              /\ i \in FindCRLF /\ i \in LineEnds(0) /\ i + 2 <= Len(buf.data)
              /\ r = Parse(SubSeq(buf.data, 1, i))
              /\ buf' \in Buffer /\ buf'.gen = buf.gen
              /\ buf'.data = SubSeq(buf.data, i + 3, Len(buf.data))
<1>1. PICK i \in FindCRLF \ {NULL} :
          /\ r = Parse(SubSeq(buf.data, 1, i))
          /\ buf' = Retrieve(i + 2)
  BY DEF Line
<1>2. i \in LineEnds(0)
  BY <1>1, FindCRLFSound
<1>3. i \in Nat /\ i + 2 <= Len(buf.data)
  BY <1>2, LineEndFacts
<1>4. /\ Retrieve(i + 2) \in Buffer /\ Retrieve(i + 2).gen = buf.gen
      /\ Retrieve(i + 2).data = SubSeq(buf.data, (i + 2) + 1, Len(buf.data))
  BY <1>3, RetrieveFacts
<1>5. (i + 2) + 1 = i + 3
  BY <1>3
<1> QED
  BY <1>1, <1>2, <1>3, <1>4, <1>5

LEMMA LineTypes ==
    ASSUME Types, NEW r, Line(r)
    PROVE  /\ buf' \in Buffer /\ curSearchPos' = NULL
           /\ wire' = wire /\ written' = written /\ running' = running
           /\ running /\ receiveState = "kReadCommandLine"
           /\ \/ r.cmd = "unknown"
              \/ /\ r \in Request
                 /\ r.cmd = "set" => r.key \in Keys \cup {NULL}
<1>1. PICK i \in Nat : /\ i + 2 <= Len(buf.data) /\ buf' \in Buffer
                       /\ r = Parse(SubSeq(buf.data, 1, i))
  BY LineFacts
<1>2. buf.data \in Seq(Unit)
  BY BufferFacts
<1>3. SubSeq(buf.data, 1, i) \in Seq(Unit)
  BY <1>1, <1>2
<1>4. \/ r.cmd = "unknown"
      \/ r \in Request /\ (r.cmd = "set" => r.key \in Keys \cup {NULL})
  BY <1>1, <1>3, ParseFacts
<1> QED
  BY <1>1, <1>4 DEF Line

LEMMA DidType ==
    ASSUME Types, NEW op \in Ops, NEW k \in Keys \cup {NULL},
           NEW u \in Seq(Unit), Did(op, k, u)
    PROVE  log' \in Seq(Entry)
<1>1. [op |-> op, key |-> k, data |-> u, told |-> ~down] \in Entry
  BY DEF Entry, Types
<1>2. log \in Seq(Entry)
  BY DEF Types
<1> QED
  BY <1>1, <1>2 DEF Did

\* Places in a concatenation.
LEMMA ConcatFacts ==
    ASSUME NEW a \in Seq(Unit), NEW b \in Seq(Unit)
    PROVE  /\ a \o b \in Seq(Unit) /\ Len(a \o b) = Len(a) + Len(b)
           /\ \A x \in 1 .. Len(a) : (a \o b)[x] = a[x]
           /\ \A x \in 1 .. Len(b) : (a \o b)[Len(a) + x] = b[x]
  OBVIOUS

\* Requests of a client and their units.
LEMMA EncodeFacts ==
    ASSUME NEW r \in Requests
    PROVE  /\ r.line \in Text /\ r.data \in Seq(Unit)
           /\ Encode(r) \in Seq(Unit)
           /\ Len(Encode(r)) \in Nat /\ Len(Encode(r)) >= 3
           /\ Encode(r)[1] = r.line /\ Encode(r)[2] = CR /\ Encode(r)[3] = LF
           /\ r.line.cmd # "set" => Len(Encode(r)) = 3
           /\ r.line.cmd = "set" =>
                 /\ Len(Encode(r)) = Len(r.data) + 5
                 /\ \A x \in 1 .. Len(r.data) : Encode(r)[3 + x] = r.data[x]
                 /\ Encode(r)[Len(r.data) + 4] = CR
                 /\ Encode(r)[Len(r.data) + 5] = LF
<1> DEFINE l == r.line
           u == r.data
<1>1. l \in Text /\ u \in Seq(Unit)
  BY SessionAssumption
<1>2. l \in Unit /\ CR \in Unit /\ LF \in Unit
  BY <1>1 DEF Unit
<1>3. Encode(r) = <<l>> \o <<CR, LF>>
                    \o (IF l.cmd = "set" THEN u \o <<CR, LF>> ELSE <<>>)
  BY DEF Encode, CRLF
<1> HIDE DEF l, u
<1> DEFINE h == <<l>> \o <<CR, LF>>
<1>4. h \in Seq(Unit) /\ Len(h) = 3 /\ h[1] = l /\ h[2] = CR /\ h[3] = LF
  BY <1>2
<1>5. CASE l.cmd = "set"
  <2> DEFINE t == u \o <<CR, LF>>
  <2>1. /\ t \in Seq(Unit) /\ Len(u) \in Nat /\ Len(t) = Len(u) + 2
        /\ \A x \in 1 .. Len(u) : t[x] = u[x]
        /\ t[Len(u) + 1] = CR /\ t[Len(u) + 2] = LF
    BY <1>1, <1>2
  <2>2. Encode(r) = h \o t
    BY <1>3, <1>5
  <2> HIDE DEF h, t
  <2>3. /\ h \o t \in Seq(Unit) /\ Len(h \o t) = 3 + Len(t)
        /\ \A x \in 1 .. 3 : (h \o t)[x] = h[x]
        /\ \A x \in 1 .. Len(t) : (h \o t)[3 + x] = t[x]
    <3>1. h \in Seq(Unit) /\ t \in Seq(Unit) /\ Len(h) = 3
      BY <1>4, <2>1
    <3>2. /\ h \o t \in Seq(Unit) /\ Len(h \o t) = Len(h) + Len(t)
          /\ \A x \in 1 .. Len(h) : (h \o t)[x] = h[x]
          /\ \A x \in 1 .. Len(t) : (h \o t)[Len(h) + x] = t[x]
      BY <3>1, ConcatFacts
    <3> QED
      BY <3>1, <3>2
  <2>4. \A x \in 1 .. Len(u) : (h \o t)[3 + x] = u[x]
    BY <2>1, <2>3
  <2>5. /\ (h \o t)[3 + (Len(u) + 1)] = CR /\ (h \o t)[3 + (Len(u) + 2)] = LF
    BY <2>1, <2>3
  <2>6. 3 + (Len(u) + 1) = Len(u) + 4 /\ 3 + (Len(u) + 2) = Len(u) + 5
    BY <2>1
  <2> QED
    BY <1>1, <1>4, <1>5, <2>1, <2>2, <2>3, <2>4, <2>5, <2>6, SMTT(40) DEF l, u
<1>6. CASE l.cmd # "set"
  <2>1. Encode(r) = h \o <<>>
    BY <1>3, <1>6
  <2> HIDE DEF h
  <2>2. h \o <<>> = h
    BY <1>4
  <2>3. Encode(r) = h
    BY <2>1, <2>2
  <2>4. 3 \in Nat /\ 3 >= 3
    OBVIOUS
  <2> QED
    BY <1>1, <1>4, <1>6, <2>3, <2>4, Zenon DEF l, u
<1> QED
  BY <1>5, <1>6
-----------------------------------------------------------------------------
(* Types are kept by every action.                                         *)

\* curValueLen_ is an int, and onMessage waits only for a length doUpdate accepts.
AcceptedLength ==
    /\ curValueLen \in -(IntMax + 1) .. IntMax
    /\ receiveState = "kReadValue" => curValueLen \in 0 .. kMaxValueLen - 1

Typed == Types /\ AcceptedLength

LEMMA InitTyped == Init => Typed
<1> SUFFICES ASSUME Init PROVE Typed
  OBVIOUS
<1>1. Present \subseteq Keys /\ InitialSize \in Nat /\ IntMax \in Nat
  BY SessionAssumption
<1>2. buf \in Buffer
  <2>1. 0 \in Nat /\ InitialSize \in Nat /\ <<>> \in Seq(Unit)
    BY <1>1
  <2> QED
    BY <2>1, BufferRecord DEF Init
<1>3. Types
  <2>1. <<>> \in Seq(Unit) /\ <<>> \in Seq(Requests) /\ <<>> \in Seq(Entry)
    OBVIOUS
  <2>2. wire \in Seq(Unit) /\ written \in Seq(Requests) /\ log \in Seq(Entry)
    BY <2>1 DEF Init
  <2>3. /\ running \in BOOLEAN /\ alive \in BOOLEAN /\ down \in BOOLEAN
        /\ receiveState = "kReadCommandLine"
        /\ curSearchPos = NULL /\ curKey = NULL
    BY DEF Init
  <2>4. curValueLen \in Int /\ items \subseteq Keys
    BY <1>1 DEF Init
  <2> QED
    BY <1>2, <2>2, <2>3, <2>4 DEF Types
<1>4. AcceptedLength
  BY <1>1 DEF Init, AcceptedLength
<1> QED
  BY <1>3, <1>4 DEF Typed

LEMMA ClientWriteTyped ==
    ASSUME Typed, NEW r \in Requests, ClientWrite(r)
    PROVE  Typed'
<1>1. wire \in Seq(Unit) /\ written \in Seq(Requests) /\ Encode(r) \in Seq(Unit)
  BY EncodeFacts DEF Typed, Types
<1>2. wire' \in Seq(Unit) /\ written' \in Seq(Requests)
  BY <1>1 DEF ClientWrite
<1> QED
  BY <1>2 DEF Typed, Types, AcceptedLength, ClientWrite

\* What a read moves.
LEMMA ReadFacts ==
    ASSUME Types, Read
    PROVE  \E n \in Nat :
              /\ 1 <= n /\ n <= Len(wire) /\ MayEnd(n)
              /\ SubSeq(wire, 1, n) \in Seq(Unit)
              /\ Len(SubSeq(wire, 1, n)) = n
              /\ buf' \in ReadFd(SubSeq(wire, 1, n))
              /\ buf' \in Buffer /\ buf'.data = buf.data \o SubSeq(wire, 1, n)
              /\ n <= Writable => buf'.gen = buf.gen /\ buf'.rd = buf.rd
              /\ wire' = SubSeq(wire, n + 1, Len(wire)) /\ wire' \in Seq(Unit)
<1>1. wire \in Seq(Unit) /\ Len(wire) \in Nat
  BY DEF Types
<1>2. PICK n \in 1 .. Len(wire) :
          /\ MayEnd(n) /\ buf' \in ReadFd(SubSeq(wire, 1, n))
          /\ wire' = SubSeq(wire, n + 1, Len(wire))
  BY DEF Read
<1>3. n \in Nat /\ 1 <= n /\ n <= Len(wire)
  BY <1>1, <1>2
<1>4. /\ SubSeq(wire, 1, n) \in Seq(Unit) /\ Len(SubSeq(wire, 1, n)) = n
      /\ SubSeq(wire, n + 1, Len(wire)) \in Seq(Unit)
  BY <1>1, <1>3
<1>5. /\ buf' \in Buffer /\ buf'.data = buf.data \o SubSeq(wire, 1, n)
      /\ Len(SubSeq(wire, 1, n)) <= Writable => buf'.gen = buf.gen /\ buf'.rd = buf.rd
  BY <1>2, <1>4, ReadFdFacts
<1> QED
  BY <1>2, <1>3, <1>4, <1>5

LEMMA ReadTyped ==
    ASSUME Typed, Read
    PROVE  Typed'
<1>1. buf' \in Buffer /\ wire' \in Seq(Unit)
  BY ReadFacts DEF Typed
<1> QED
  BY <1>1 DEF Typed, Types, AcceptedLength, Read

LEMMA NoLineTyped ==
    ASSUME Typed, NoLine
    PROVE  Typed'
<1>1. curSearchPos' \in [gen : Nat, idx : Nat]
  <2>1. buf.gen \in Nat /\ WriterIndex \in Nat
    BY BufferFacts DEF Typed
  <2> QED
    BY <2>1 DEF NoLine
<1> QED
  BY <1>1 DEF Typed, Types, AcceptedLength, NoLine

\* The value that is retrieved is in the buffer.
LEMMA ValueFacts ==
    ASSUME Typed, running, receiveState = "kReadValue", HasValue
    PROVE  /\ curValueLen \in Nat /\ curValueLen + 2 <= Len(buf.data)
           /\ Retrieve(curValueLen + 2) \in Buffer
           /\ Retrieve(curValueLen + 2).gen = buf.gen
           /\ Retrieve(curValueLen + 2).data
                = SubSeq(buf.data, curValueLen + 3, Len(buf.data))
           /\ SubSeq(buf.data, 1, curValueLen) \in Seq(Unit)
<1>1. curValueLen \in Nat
  BY SessionAssumption DEF Typed, AcceptedLength
<1>2. buf.data \in Seq(Unit) /\ Len(buf.data) \in Nat /\ Readable = Len(buf.data)
  BY BufferFacts DEF Typed
<1>3. curValueLen + 2 <= Len(buf.data) /\ (curValueLen + 2) + 1 = curValueLen + 3
  BY <1>1, <1>2 DEF HasValue
<1>4. /\ Retrieve(curValueLen + 2) \in Buffer
      /\ Retrieve(curValueLen + 2).gen = buf.gen
      /\ Retrieve(curValueLen + 2).data
           = SubSeq(buf.data, (curValueLen + 2) + 1, Len(buf.data))
  BY <1>1, <1>3, RetrieveFacts DEF Typed
<1>5. SubSeq(buf.data, 1, curValueLen) \in Seq(Unit)
  BY <1>1, <1>2, <1>3
<1> QED
  BY <1>1, <1>3, <1>4, <1>5

LEMMA StoreValueTyped ==
    ASSUME Typed, StoreValue
    PROVE  Typed'
<1>1. /\ Retrieve(curValueLen + 2) \in Buffer
      /\ SubSeq(buf.data, 1, curValueLen) \in Seq(Unit)
  BY ValueFacts DEF StoreValue
<1>2. curKey \in Keys
  BY DEF StoreValue, Typed, Types
<1>3. log' \in Seq(Entry)
  <2>1. Did("set", curKey, SubSeq(buf.data, 1, curValueLen)) /\ Types
    BY DEF StoreValue, Typed
  <2>2. "set" \in Ops /\ curKey \in Keys \cup {NULL}
    BY <1>2 DEF Ops
  <2> QED
    BY <1>1, <2>1, <2>2, DidType
<1> QED
  BY <1>1, <1>2, <1>3 DEF Typed, Types, AcceptedLength, StoreValue

LEMMA DropValueTyped ==
    ASSUME Typed, DropValue
    PROVE  Typed'
<1>1. Retrieve(curValueLen + 2) \in Buffer
  BY ValueFacts DEF DropValue
<1> QED
  BY <1>1 DEF Typed, Types, AcceptedLength, DropValue

LEMMA AwaitValueTyped ==
    ASSUME Typed, AwaitValue
    PROVE  Typed'
  BY DEF Typed, Types, AcceptedLength, AwaitValue

LEMMA UnknownCommandTyped ==
    ASSUME Typed, NEW r, UnknownCommand(r)
    PROVE  Typed'
<1>1. Line(r) /\ Types /\ AcceptedLength
  BY DEF UnknownCommand, Typed
<1>2. /\ buf' \in Buffer /\ curSearchPos' = NULL
      /\ wire' = wire /\ written' = written /\ running' = running
      /\ running /\ receiveState = "kReadCommandLine"
      /\ \/ r.cmd = "unknown"
         \/ r \in Request /\ (r.cmd = "set" => r.key \in Keys \cup {NULL})
  BY <1>1, LineTypes
<1> QED
  BY <1>1, <1>2 DEF Typed, Types, AcceptedLength, UnknownCommand

LEMMA QuitCommandTyped ==
    ASSUME Typed, NEW r, QuitCommand(r)
    PROVE  Typed'
<1>1. Line(r) /\ Types /\ AcceptedLength
  BY DEF QuitCommand, Typed
<1>2. /\ buf' \in Buffer /\ curSearchPos' = NULL
      /\ wire' = wire /\ written' = written /\ running' = running
      /\ running /\ receiveState = "kReadCommandLine"
      /\ \/ r.cmd = "unknown"
         \/ r \in Request /\ (r.cmd = "set" => r.key \in Keys \cup {NULL})
  BY <1>1, LineTypes
<1>3. log' \in Seq(Entry)
  <2>1. Did("quit", NULL, <<>>) /\ NULL \in Keys \cup {NULL}
    BY <1>1 DEF QuitCommand, Types
  <2>2. <<>> \in Seq(Unit) /\ "quit" \in Ops
    BY DEF Ops
  <2> QED
    BY <1>1, <2>1, <2>2, DidType
<1> QED
  BY <1>1, <1>2, <1>3 DEF Typed, Types, AcceptedLength, QuitCommand

LEMMA DoGetErrorTyped ==
    ASSUME Typed, NEW r, DoGetError(r)
    PROVE  Typed'
<1>1. Line(r) /\ Types /\ AcceptedLength
  BY DEF DoGetError, Typed
<1>2. /\ buf' \in Buffer /\ curSearchPos' = NULL
      /\ wire' = wire /\ written' = written /\ running' = running
      /\ running /\ receiveState = "kReadCommandLine"
      /\ \/ r.cmd = "unknown"
         \/ r \in Request /\ (r.cmd = "set" => r.key \in Keys \cup {NULL})
  BY <1>1, LineTypes
<1>3. log' \in Seq(Entry)
  <2>1. Did("CLIENT_ERROR", NULL, <<>>) /\ NULL \in Keys \cup {NULL}
    BY <1>1 DEF DoGetError, Types
  <2>2. <<>> \in Seq(Unit) /\ "CLIENT_ERROR" \in Ops
    BY DEF Ops
  <2> QED
    BY <1>1, <2>1, <2>2, DidType
<1> QED
  BY <1>1, <1>2, <1>3 DEF Typed, Types, AcceptedLength, DoGetError

LEMMA DoGetTyped ==
    ASSUME Typed, NEW r, DoGet(r)
    PROVE  Typed'
<1>1. Line(r) /\ Types /\ AcceptedLength
  BY DEF DoGet, Typed
<1>2. /\ buf' \in Buffer /\ curSearchPos' = NULL
      /\ wire' = wire /\ written' = written /\ running' = running
      /\ running /\ receiveState = "kReadCommandLine"
      /\ \/ r.cmd = "unknown"
         \/ r \in Request /\ (r.cmd = "set" => r.key \in Keys \cup {NULL})
  BY <1>1, LineTypes
<1>3. log' \in Seq(Entry)
  <2>1. Did("get", r.key, <<>>) /\ r.key \in Keys \cup {NULL}
    BY <1>1 DEF DoGet, Types
  <2>2. <<>> \in Seq(Unit) /\ "get" \in Ops
    BY DEF Ops
  <2> QED
    BY <1>1, <2>1, <2>2, DidType
<1> QED
  BY <1>1, <1>2, <1>3 DEF Typed, Types, AcceptedLength, DoGet

LEMMA DoGetMissingTyped ==
    ASSUME Typed, NEW r, DoGetMissing(r)
    PROVE  Typed'
<1>1. Line(r) /\ Types /\ AcceptedLength
  BY DEF DoGetMissing, Typed
<1>2. /\ buf' \in Buffer /\ curSearchPos' = NULL
      /\ wire' = wire /\ written' = written /\ running' = running
      /\ running /\ receiveState = "kReadCommandLine"
      /\ \/ r.cmd = "unknown"
         \/ r \in Request /\ (r.cmd = "set" => r.key \in Keys \cup {NULL})
  BY <1>1, LineTypes
<1> QED
  BY <1>1, <1>2 DEF Typed, Types, AcceptedLength, DoGetMissing

LEMMA DoUpdateErrorTyped ==
    ASSUME Typed, NEW r, DoUpdateError(r)
    PROVE  Typed'
<1>1. Line(r) /\ Types /\ AcceptedLength
  BY DEF DoUpdateError, Typed
<1>2. /\ buf' \in Buffer /\ curSearchPos' = NULL
      /\ wire' = wire /\ written' = written /\ running' = running
      /\ running /\ receiveState = "kReadCommandLine"
      /\ \/ r.cmd = "unknown"
         \/ r \in Request /\ (r.cmd = "set" => r.key \in Keys \cup {NULL})
  BY <1>1, LineTypes
<1>3. log' \in Seq(Entry)
  <2>1. Did("CLIENT_ERROR", NULL, <<>>) /\ NULL \in Keys \cup {NULL}
    BY <1>1 DEF DoUpdateError, Types
  <2>2. <<>> \in Seq(Unit) /\ "CLIENT_ERROR" \in Ops
    BY DEF Ops
  <2> QED
    BY <1>1, <2>1, <2>2, DidType
<1>4. /\ r.len \in Nat /\ ToInt(r.len) \in -(IntMax + 1) .. IntMax
      /\ r.key \in Keys \cup {NULL} /\ ToInt(r.len) \in Int /\ IntMax \in Nat
  <2>1. r.len \in Nat /\ r.key \in Keys \cup {NULL} /\ IntMax \in Nat
    BY <1>2, SessionAssumption DEF DoUpdateError, Request
  <2>2. ToInt(r.len) \in -(IntMax + 1) .. IntMax
    BY <2>1, ToIntFacts
  <2> QED
    BY <2>1, <2>2
<1>5. /\ curValueLen' \in Int /\ curKey' \in Keys \cup {NULL}
      /\ curValueLen' \in -(IntMax + 1) .. IntMax
  BY <1>1, <1>4 DEF DoUpdateError, Types, AcceptedLength
<1> QED
  BY <1>1, <1>2, <1>3, <1>4, <1>5 DEF Typed, Types, AcceptedLength, DoUpdateError

LEMMA DoUpdateTooLargeTyped ==
    ASSUME Typed, NEW r, DoUpdateTooLarge(r)
    PROVE  Typed'
<1>1. Line(r) /\ Types /\ AcceptedLength
  BY DEF DoUpdateTooLarge, Typed
<1>2. /\ buf' \in Buffer /\ curSearchPos' = NULL
      /\ wire' = wire /\ written' = written /\ running' = running
      /\ running /\ receiveState = "kReadCommandLine"
      /\ \/ r.cmd = "unknown"
         \/ r \in Request /\ (r.cmd = "set" => r.key \in Keys \cup {NULL})
  BY <1>1, LineTypes
<1>3. log' \in Seq(Entry)
  <2>1. Did("SERVER_ERROR", NULL, <<>>) /\ NULL \in Keys \cup {NULL}
    BY <1>1 DEF DoUpdateTooLarge, Types
  <2>2. <<>> \in Seq(Unit) /\ "SERVER_ERROR" \in Ops
    BY DEF Ops
  <2> QED
    BY <1>1, <2>1, <2>2, DidType
<1>4. /\ r.len \in Nat /\ ToInt(r.len) \in -(IntMax + 1) .. IntMax
      /\ r.key \in Keys \cup {NULL} /\ ToInt(r.len) \in Int /\ IntMax \in Nat
  <2>1. r.len \in Nat /\ r.key \in Keys \cup {NULL} /\ IntMax \in Nat
    BY <1>2, SessionAssumption DEF DoUpdateTooLarge, Request
  <2>2. ToInt(r.len) \in -(IntMax + 1) .. IntMax
    BY <2>1, ToIntFacts
  <2> QED
    BY <2>1, <2>2
<1>5. /\ curValueLen' \in Int /\ curKey' \in Keys \cup {NULL}
      /\ curValueLen' \in -(IntMax + 1) .. IntMax
  BY <1>1, <1>4 DEF DoUpdateTooLarge, Types, AcceptedLength
<1> QED
  BY <1>1, <1>2, <1>3, <1>4, <1>5 DEF Typed, Types, AcceptedLength, DoUpdateTooLarge

LEMMA DoUpdateTyped ==
    ASSUME Typed, NEW r, DoUpdate(r)
    PROVE  Typed'
<1>1. Line(r) /\ Types /\ AcceptedLength
  BY DEF DoUpdate, Typed
<1>2. /\ buf' \in Buffer /\ curSearchPos' = NULL
      /\ wire' = wire /\ written' = written /\ running' = running
      /\ running /\ receiveState = "kReadCommandLine"
      /\ \/ r.cmd = "unknown"
         \/ r \in Request /\ (r.cmd = "set" => r.key \in Keys \cup {NULL})
  BY <1>1, LineTypes
<1>4. /\ r.len \in Nat /\ ToInt(r.len) \in -(IntMax + 1) .. IntMax
      /\ r.key \in Keys \cup {NULL} /\ ToInt(r.len) \in Int /\ IntMax \in Nat
  <2>1. r.len \in Nat /\ r.key \in Keys \cup {NULL} /\ IntMax \in Nat
    BY <1>2, SessionAssumption DEF DoUpdate, Request
  <2>2. ToInt(r.len) \in -(IntMax + 1) .. IntMax
    BY <2>1, ToIntFacts
  <2> QED
    BY <2>1, <2>2
<1>5. /\ curValueLen' \in Int /\ curKey' \in Keys \cup {NULL}
      /\ curValueLen' \in -(IntMax + 1) .. IntMax
  BY <1>1, <1>4 DEF DoUpdate, Types, AcceptedLength
<1> QED
  BY <1>1, <1>2, <1>4, <1>5 DEF Typed, Types, AcceptedLength, DoUpdate
\* A step of the session is one of these.
LEMMA StepCases ==
    ASSUME [Next]_vars
    PROVE  \/ UNCHANGED vars
           \/ \E r \in Requests : ClientWrite(r)
           \/ Read \/ NoLine \/ StoreValue \/ DropValue \/ AwaitValue
           \/ \E r : \/ UnknownCommand(r) \/ QuitCommand(r) \/ DoGetError(r)
                     \/ DoGet(r) \/ DoGetMissing(r) \/ DoUpdateError(r)
                     \/ DoUpdateTooLarge(r) \/ DoUpdate(r)
  BY Zenon DEF Next, OnMessage

LEMMA NextTyped == Typed /\ [Next]_vars => Typed'
<1> SUFFICES ASSUME Typed, [Next]_vars PROVE Typed'
  OBVIOUS
<1>1. CASE UNCHANGED vars
  BY <1>1 DEF Typed, Types, AcceptedLength, vars
<1>2. ASSUME NEW r,
             \/ UnknownCommand(r) \/ QuitCommand(r) \/ DoGetError(r)
             \/ DoGet(r) \/ DoGetMissing(r) \/ DoUpdateError(r)
             \/ DoUpdateTooLarge(r) \/ DoUpdate(r)
      PROVE  Typed'
  BY <1>2, UnknownCommandTyped, QuitCommandTyped, DoGetErrorTyped, DoGetTyped, DoGetMissingTyped,
      DoUpdateErrorTyped, DoUpdateTooLargeTyped, DoUpdateTyped
<1> QED
  BY <1>1, <1>2, StepCases, ClientWriteTyped, ReadTyped, NoLineTyped,
     StoreValueTyped, DropValueTyped, AwaitValueTyped

-----------------------------------------------------------------------------
(* The saved search position and the end of onMessage.  Both rest on where *)
(* a read may end: a CR without its LF is left at the end of the buffer    *)
(* only in a value that is not complete.                                   *)

\* The saved position is in the buffer, no line ends before it, and between
\* two calls of onMessage it is the end of the buffer.
PosInBuffer ==
    \/ curSearchPos = NULL
    \/ /\ receiveState = "kReadCommandLine"
       /\ curSearchPos.gen = buf.gen
       /\ buf.rd <= curSearchPos.idx
       /\ curSearchPos.idx <= buf.rd + Len(buf.data)
       /\ \A j \in LineEnds(0) : curSearchPos.idx - buf.rd <= j
       /\ running \/ curSearchPos.idx = buf.rd + Len(buf.data)

HalfLineEnd ==
    /\ Len(buf.data) > 0 /\ buf.data[Len(buf.data)] = CR
    /\ Len(wire) > 0 /\ wire[1] = LF

WholeLineEnds == HalfLineEnd => receiveState = "kReadValue" /\ ~HasValue

Consumed ==
    ~running => IF receiveState = "kReadCommandLine" THEN LineEnds(0) = {}
                ELSE ~HasValue

\* With such a position the search finds what a full search finds.
LEMMA SearchIsFull ==
    ASSUME Typed, PosInBuffer
    PROVE  FindCRLF = Least(LineEnds(0))
<1>1. CASE curSearchPos = NULL
  BY <1>1 DEF FindCRLF
<1>2. CASE curSearchPos # NULL
  <2> DEFINE p == curSearchPos
  <2>1. p \in [gen : Nat, idx : Nat]
    BY <1>2 DEF Typed, Types
  <2>2. p.idx \in Nat /\ buf.rd \in Nat /\ Len(buf.data) \in Nat
        /\ WriterIndex = buf.rd + Len(buf.data)
    BY <2>1, BufferFacts DEF Typed
  <2>3. /\ p.gen = buf.gen /\ buf.rd <= p.idx /\ p.idx <= buf.rd + Len(buf.data)
        /\ \A j \in LineEnds(0) : p.idx - buf.rd <= j
    BY <1>2 DEF PosInBuffer
  <2>4. FindCRLF = Least(LineEnds(p.idx - buf.rd))
    BY <1>2, <2>2, <2>3 DEF FindCRLF, SearchFrom
  <2>5. LineEnds(p.idx - buf.rd) = LineEnds(0)
    <3>1. p.idx - buf.rd \in Nat /\ 0 \in Nat
      BY <2>2, <2>3
    <3>2. \A j : j \in LineEnds(p.idx - buf.rd) <=> j \in LineEnds(0)
      BY <2>3, <3>1, LineEndFacts DEF Typed
    <3> QED
      BY <3>2
  <2> QED
    BY <2>4, <2>5
<1> QED
  BY <1>1, <1>2

\* If the search finds nothing there is nothing.
LEMMA NoLineMeansNone ==
    ASSUME Typed, PosInBuffer, NULL \in FindCRLF
    PROVE  LineEnds(0) = {}
<1>1. LineEnds(0) \subseteq Nat
  BY LineEndFacts DEF Typed
<1> QED
  BY <1>1, SearchIsFull, LeastFacts

\* Places in a sequence without its first n units.
LEMMA DropFacts ==
    ASSUME NEW u \in Seq(Unit), NEW n \in Nat, n <= Len(u)
    PROVE  /\ SubSeq(u, n + 1, Len(u)) \in Seq(Unit)
           /\ Len(SubSeq(u, n + 1, Len(u))) = Len(u) - n
           /\ \A x \in 1 .. Len(u) - n : SubSeq(u, n + 1, Len(u))[x] = u[n + x]
<1>1. Len(u) \in Nat
  OBVIOUS
<1>2. \A x \in 1 .. Len(u) - n : SubSeq(u, n + 1, Len(u))[x] = u[(n + 1) + x - 1]
  BY <1>1
<1>3. \A x \in 1 .. Len(u) - n : (n + 1) + x - 1 = n + x
  BY <1>1
<1> QED
  BY <1>1, <1>2, <1>3

\* Units taken from the front leave the last one.
LEMMA LastStays ==
    ASSUME Typed, NEW n \in Nat, n <= Len(buf.data), wire' = wire,
           buf'.data = SubSeq(buf.data, n + 1, Len(buf.data)),
           HalfLineEnd'
    PROVE  HalfLineEnd
<1>1. buf.data \in Seq(Unit) /\ Len(buf.data) \in Nat
  BY BufferFacts DEF Typed
<1> DEFINE t == SubSeq(buf.data, n + 1, Len(buf.data))
<1>2. /\ Len(t) = Len(buf.data) - n
      /\ Len(t) > 0 => t[Len(t)] = buf.data[Len(buf.data)]
  <2>1. /\ Len(t) = Len(buf.data) - n
        /\ \A x \in 1 .. Len(buf.data) - n : t[x] = buf.data[n + x]
    BY <1>1, DropFacts
  <2> HIDE DEF t
  <2> QED
    BY <1>1, <2>1
<1>3. Len(t) > 0 /\ t[Len(t)] = CR /\ Len(wire) > 0 /\ wire[1] = LF
  BY DEF HalfLineEnd
<1> HIDE DEF t
<1> QED
  BY <1>1, <1>2, <1>3 DEF HalfLineEnd
\* What a step must leave beside the types.
Kept == PosInBuffer /\ WholeLineEnds /\ (alive => Consumed)

LEMMA InitKept == Init => Kept
<1> SUFFICES ASSUME Init PROVE Kept
  OBVIOUS
<1>1. Len(wire) = 0 /\ ~(Len(wire) > 0)
  BY DEF Init
<1>2. LineEnds(0) = {}
  BY DEF Init, LineEnds, Readable
<1> QED
  BY <1>1, <1>2 DEF Init, Kept, PosInBuffer, WholeLineEnds, HalfLineEnd, Consumed

LEMMA ClientWriteKept ==
    ASSUME Typed, Kept, NEW r \in Requests, ClientWrite(r)
    PROVE  Kept'
<1>1. HalfLineEnd' => HalfLineEnd
  <2>1. /\ wire \in Seq(Unit) /\ Encode(r) \in Seq(Unit) /\ Encode(r)[1] = r.line
        /\ Len(Encode(r)) >= 3 /\ Len(Encode(r)) \in Nat /\ Len(wire) \in Nat
        /\ r.line # LF
    BY EncodeFacts, SessionAssumption DEF Typed, Types
  <2>2. /\ wire' = wire \o Encode(r)
        /\ \A x \in 1 .. Len(wire) : wire'[x] = wire[x]
        /\ \A x \in 1 .. Len(Encode(r)) : wire'[Len(wire) + x] = Encode(r)[x]
    BY <2>1, ConcatFacts DEF ClientWrite
  <2>3. CASE Len(wire) = 0
    <3>1. wire'[1] = r.line
      BY <2>1, <2>2, <2>3
    <3> QED
      BY <2>1, <3>1 DEF HalfLineEnd
  <2>4. CASE Len(wire) > 0
    <3>1. wire'[1] = wire[1]
      BY <2>1, <2>2, <2>4
    <3> QED
      BY <2>4, <3>1 DEF HalfLineEnd, ClientWrite
  <2> QED
    BY <2>1, <2>3, <2>4
<1> QED
  BY <1>1 DEF Kept, PosInBuffer, WholeLineEnds, Consumed, HasValue, Readable,
              LineEnds, ClientWrite

LEMMA ReadKept ==
    ASSUME Typed, Kept, Read, ~SplitCRLF, ~Overruns
    PROVE  Kept'
<1>1. PICK n \in Nat :
          /\ 1 <= n /\ n <= Len(wire) /\ MayEnd(n)
          /\ SubSeq(wire, 1, n) \in Seq(Unit)
          /\ Len(SubSeq(wire, 1, n)) = n
          /\ buf' \in Buffer /\ buf'.data = buf.data \o SubSeq(wire, 1, n)
          /\ n <= Writable => buf'.gen = buf.gen /\ buf'.rd = buf.rd
          /\ wire' = SubSeq(wire, n + 1, Len(wire)) /\ wire' \in Seq(Unit)
  BY ReadFacts DEF Typed
<1>2. /\ wire \in Seq(Unit) /\ Len(wire) \in Nat
      /\ buf.data \in Seq(Unit) /\ Len(buf.data) \in Nat /\ buf.rd \in Nat
      /\ Readable = Len(buf.data) /\ curValueLen \in Int
  BY BufferFacts DEF Typed, Types
<1> DEFINE u == SubSeq(wire, 1, n)
           d == buf.data
<1>3. /\ u \in Seq(Unit) /\ Len(u) = n /\ \A x \in 1 .. n : u[x] = wire[x]
  BY <1>1, <1>2
<1>4. /\ Len(buf'.data) = Len(d) + n
      /\ \A x \in 1 .. Len(d) : buf'.data[x] = d[x]
      /\ \A x \in 1 .. n : buf'.data[Len(d) + x] = wire[x]
  <2> HIDE DEF u
  <2>1. buf'.data = d \o u
    BY <1>1 DEF u
  <2>2. /\ Len(d \o u) = Len(d) + Len(u)
        /\ \A x \in 1 .. Len(d) : (d \o u)[x] = d[x]
        /\ \A x \in 1 .. Len(u) : (d \o u)[Len(d) + x] = u[x]
    BY <1>2, <1>3, ConcatFacts
  <2> QED
    BY <1>3, <2>1, <2>2
<1>5. /\ Len(wire') = Len(wire) - n
      /\ n < Len(wire) => wire'[1] = wire[n + 1]
  <2>1. /\ Len(wire') = Len(wire) - n
        /\ \A x \in 1 .. Len(wire) - n : wire'[x] = wire[n + x]
    BY <1>1, <1>2, DropFacts
  <2> QED
    BY <1>1, <1>2, <2>1
<1> HIDE DEF u
<1>6. /\ ~running /\ alive /\ running' = TRUE
      /\ UNCHANGED <<receiveState, curSearchPos, curValueLen>>
  BY DEF Read
<1>7. PosInBuffer'
  <2>1. CASE curSearchPos = NULL
    BY <1>6, <2>1 DEF PosInBuffer
  <2>2. CASE curSearchPos # NULL
    <3>1. /\ receiveState = "kReadCommandLine" /\ curSearchPos.gen = buf.gen
          /\ curSearchPos.idx = buf.rd + Len(d)
          /\ \A j \in LineEnds(0) : curSearchPos.idx - buf.rd <= j
      BY <1>6, <2>2 DEF Kept, PosInBuffer
    <3>2. buf'.gen = buf.gen /\ buf'.rd = buf.rd
      BY <1>1, <2>2 DEF MayEnd
    <3>3. \A j \in LineEnds(0)' : Len(d) <= j
      <4> SUFFICES ASSUME NEW j \in LineEnds(0)', ~(Len(d) <= j)
                   PROVE  FALSE
        OBVIOUS
      <4>1. /\ j \in Nat /\ j + 2 <= Len(d) + n
            /\ buf'.data[j + 1] = CR /\ buf'.data[j + 2] = LF
        BY <1>2, <1>4 DEF LineEnds, Readable
      <4>2. CASE j + 2 <= Len(d)
        <5>1. d[j + 1] = CR /\ d[j + 2] = LF
          BY <1>2, <1>4, <4>1, <4>2, SMTT(40)
        <5>2. j \in LineEnds(0)
          BY <4>1, <4>2, <5>1, LineEndFacts DEF Typed
        <5>3. curSearchPos.idx - buf.rd <= j
          BY <3>1, <5>2, Zenon
        <5> QED
          BY <1>2, <3>1, <4>1, <5>3
      <4>3. CASE j + 1 = Len(d)
        <5>1. d[Len(d)] = CR
          BY <1>2, <1>4, <4>1, <4>3, SMTT(60)
        <5>2. j + 2 = Len(d) + 1
          BY <1>2, <4>1, <4>3
        <5>3. wire[1] = LF
          <6>1. 1 \in 1 .. n
            BY <1>1
          <6>2. buf'.data[Len(d) + 1] = wire[1]
            BY <1>4, <6>1, Zenon
          <6>3. buf'.data[j + 2] = LF
            BY <4>1
          <6> QED
            BY <5>2, <6>2, <6>3
        <5>4. HalfLineEnd
          BY <1>1, <1>2, <4>1, <4>3, <5>1, <5>3 DEF HalfLineEnd
        <5> QED
          BY <3>1, <5>4 DEF Kept, WholeLineEnds
      <4> QED
        BY <1>2, <4>1, <4>2, <4>3
    <3>4. curSearchPos' = curSearchPos /\ curSearchPos'.idx = buf.rd + Len(d)
      BY <1>6, <3>1
    <3>5. /\ buf'.rd <= curSearchPos'.idx
          /\ curSearchPos'.idx <= buf'.rd + Len(buf'.data)
      BY <1>2, <1>4, <3>2, <3>4
    <3>6. \A j \in LineEnds(0)' : curSearchPos'.idx - buf'.rd <= j
      <4>1. curSearchPos'.idx - buf'.rd = Len(d)
        BY <1>2, <3>2, <3>4
      <4> QED
        BY <3>3, <4>1
    <3>7. receiveState' = "kReadCommandLine" /\ curSearchPos'.gen = buf'.gen
      BY <1>6, <3>1, <3>2
    <3> QED
      BY <1>6, <3>5, <3>6, <3>7, Zenon DEF PosInBuffer
  <2> QED
    BY <2>1, <2>2
<1>8. WholeLineEnds'
  <2> SUFFICES ASSUME HalfLineEnd'
               PROVE  receiveState' = "kReadValue" /\ ~HasValue'
    BY DEF WholeLineEnds
  <2>1. n < Len(wire) /\ wire[n + 1] = LF /\ wire[n] = CR
    BY <1>1, <1>2, <1>4, <1>5 DEF HalfLineEnd
  <2>2. receiveState = "kReadValue" /\ Len(d) + n < curValueLen + 2
    BY <1>1, <1>2, <2>1 DEF MayEnd
  <2>3. ~(Len(buf'.data) >= curValueLen' + 2)
    BY <1>2, <1>4, <1>6, <2>2
  <2> QED
    BY <1>6, <2>2, <2>3 DEF HasValue, Readable
<1> QED
  BY <1>6, <1>7, <1>8 DEF Kept, Consumed

LEMMA NoLineKept ==
    ASSUME Typed, Kept, NoLine
    PROVE  Kept'
<1>1. LineEnds(0) = {}
  BY NoLineMeansNone DEF NoLine, Kept
<1>2. LineEnds(0)' = {}
  BY <1>1 DEF NoLine, LineEnds, Readable
<1>3. /\ buf.gen \in Nat /\ buf.rd \in Nat /\ Len(buf.data) \in Nat
      /\ WriterIndex = buf.rd + Len(buf.data)
  BY BufferFacts DEF Typed
<1>4. curSearchPos' = [gen |-> buf.gen, idx |-> buf.rd + Len(buf.data)]
  BY <1>3 DEF NoLine
<1>5. PosInBuffer'
  BY <1>2, <1>3, <1>4 DEF NoLine, PosInBuffer
<1>6. WholeLineEnds'
  BY DEF Kept, WholeLineEnds, HalfLineEnd, HasValue, Readable, NoLine
<1> QED
  BY <1>2, <1>5, <1>6 DEF Kept, Consumed, NoLine

LEMMA LineKept ==
    ASSUME Typed, Kept, NEW r, Line(r)
    PROVE  Kept'
<1>1. PICK i \in Nat : /\ i + 2 <= Len(buf.data)
                       /\ buf'.data = SubSeq(buf.data, i + 3, Len(buf.data))
  BY LineFacts DEF Typed
<1>2. /\ curSearchPos' = NULL /\ wire' = wire /\ running' = running
      /\ running /\ receiveState = "kReadCommandLine"
  BY LineTypes DEF Typed
<1>3. ~HalfLineEnd'
  <2>1. i + 2 \in Nat /\ (i + 2) + 1 = i + 3
    OBVIOUS
  <2>2. HalfLineEnd' => HalfLineEnd
    BY <1>1, <1>2, <2>1, LastStays
  <2> QED
    BY <1>2, <2>2 DEF Kept, WholeLineEnds
<1> QED
  BY <1>2, <1>3 DEF Kept, PosInBuffer, WholeLineEnds, Consumed

\* A value that is retrieved, stored or not.
LEMMA ValueKept ==
    ASSUME Typed, Kept, running, receiveState = "kReadValue", HasValue,
           buf' = Retrieve(curValueLen + 2),
           UNCHANGED <<wire, running, curSearchPos>>
    PROVE  Kept'
<1>1. /\ curValueLen \in Nat /\ curValueLen + 2 <= Len(buf.data)
      /\ buf'.data = SubSeq(buf.data, curValueLen + 3, Len(buf.data))
  BY ValueFacts
<1>2. curSearchPos = NULL
  BY DEF Kept, PosInBuffer
<1>3. ~HalfLineEnd'
  <2>1. curValueLen + 2 \in Nat /\ (curValueLen + 2) + 1 = curValueLen + 3
    BY <1>1
  <2>2. HalfLineEnd' => HalfLineEnd
    BY <1>1, <2>1, LastStays
  <2> QED
    BY <2>2 DEF Kept, WholeLineEnds
<1> QED
  BY <1>2, <1>3 DEF Kept, PosInBuffer, WholeLineEnds, Consumed

LEMMA AwaitValueKept ==
    ASSUME Typed, Kept, AwaitValue
    PROVE  Kept'
<1>1. curSearchPos = NULL
  BY DEF Kept, PosInBuffer, AwaitValue
<1> QED
  BY <1>1 DEF Kept, PosInBuffer, WholeLineEnds, HalfLineEnd, Consumed, HasValue,
              Readable, AwaitValue

LEMMA NextKept ==
    ASSUME ~SplitCRLF, ~Overruns
    PROVE  Typed /\ Kept /\ [Next]_vars => Kept'
<1> SUFFICES ASSUME Typed, Kept, [Next]_vars PROVE Kept'
  OBVIOUS
<1>1. CASE UNCHANGED vars
  BY <1>1 DEF Kept, PosInBuffer, WholeLineEnds, HalfLineEnd, Consumed, HasValue,
              Readable, LineEnds, vars
<1>2. ASSUME NEW r,
             \/ UnknownCommand(r) \/ QuitCommand(r) \/ DoGetError(r)
             \/ DoGet(r) \/ DoGetMissing(r) \/ DoUpdateError(r)
             \/ DoUpdateTooLarge(r) \/ DoUpdate(r)
      PROVE  Kept'
  <2>1. Line(r)
    BY <1>2 DEF UnknownCommand, QuitCommand, DoGetError, DoGet, DoGetMissing,
                DoUpdateError, DoUpdateTooLarge, DoUpdate
  <2> QED
    BY <2>1, LineKept
<1>3. CASE StoreValue
  BY <1>3, ValueKept DEF StoreValue
<1>4. CASE DropValue
  BY <1>4, ValueKept DEF DropValue
<1> QED
  BY <1>1, <1>2, <1>3, <1>4, StepCases, ClientWriteKept, ReadKept, NoLineKept,
     AwaitValueKept

\* session.cpp:34: for the same reads, onMessage returns only when neither a
\* whole line nor the whole value it waits for is left.
THEOREM AllBufferConsumed ==
    ASSUME ~SplitCRLF, ~Overruns
    PROVE  Spec => []ConsumesAllBuffer
<1>1. Typed /\ Kept => ConsumesAllBuffer
  <2> SUFFICES ASSUME Typed, Kept, alive, ~running
               PROVE  IF receiveState = "kReadCommandLine" THEN LineEnds(0) = {}
                      ELSE Readable < curValueLen + 2
    BY DEF ConsumesAllBuffer
  <2>1. Readable \in Int /\ curValueLen \in Int
    BY BufferFacts DEF Typed, Types
  <2> QED
    BY <2>1 DEF Kept, Consumed, HasValue
<1>2. Init => Typed /\ Kept
  BY InitTyped, InitKept
<1>3. (Typed /\ Kept) /\ [Next]_vars => (Typed /\ Kept)'
  BY NextTyped, NextKept
<1> QED
  BY <1>1, <1>2, <1>3, PTL DEF Spec
-----------------------------------------------------------------------------
(* A client that keeps to the protocol.  Everything the client has written *)
(* is a stream st, in which its k-th request ends at p[k]; the session is  *)
(* at place q of it.                                                       *)

Cuts(w, st, p) ==
    /\ st \in Seq(Unit) /\ p \in [0 .. Len(w) -> Nat]
    /\ p[0] = 0 /\ p[Len(w)] = Len(st)
    /\ \A k \in 0 .. Len(w) : p[k] <= Len(st)
    /\ \A k \in 1 .. Len(w) :
          /\ p[k] = p[k - 1] + Len(Encode(w[k]))
          /\ \A x \in 1 .. Len(Encode(w[k])) : st[p[k - 1] + x] = Encode(w[k])[x]

\* The units d and then u are what comes after place q.
Rest(st, q, d, u) ==
    /\ q \in Nat /\ q + Len(d) + Len(u) = Len(st)
    /\ \A x \in 1 .. Len(d) : d[x] = st[q + x]
    /\ \A x \in 1 .. Len(u) : u[x] = st[q + Len(d) + x]

LEMMA CutsAppend ==
    ASSUME NEW w \in Seq(Requests), NEW st, NEW p, Cuts(w, st, p),
           NEW r \in Requests
    PROVE  \E p2 : /\ Cuts(Append(w, r), st \o Encode(r), p2)
                   /\ \A k \in 0 .. Len(w) : p2[k] = p[k]
<1> DEFINE n == Len(w)
           e == Encode(r)
           w2 == Append(w, r)
           s2 == st \o e
<1>1. /\ n \in Nat /\ w2 \in Seq(Requests) /\ Len(w2) = n + 1 /\ w2[n + 1] = r
      /\ \A k \in 1 .. n : w2[k] = w[k]
  OBVIOUS
<1>2. e \in Seq(Unit) /\ Len(e) \in Nat
  BY EncodeFacts
<1>3. /\ st \in Seq(Unit) /\ Len(st) \in Nat /\ p \in [0 .. n -> Nat]
      /\ p[0] = 0 /\ p[n] = Len(st)
      /\ \A k \in 0 .. n : p[k] <= Len(st)
      /\ \A k \in 1 .. n :
            /\ p[k] = p[k - 1] + Len(Encode(w[k]))
            /\ \A x \in 1 .. Len(Encode(w[k])) : st[p[k - 1] + x] = Encode(w[k])[x]
  <2> HIDE DEF e, w2, s2
  <2>1. st \in Seq(Unit)
    BY DEF Cuts
  <2>2. Len(st) \in Nat
    BY <2>1
  <2>3. p \in [0 .. n -> Nat] /\ p[0] = 0 /\ p[n] = Len(st)
    BY DEF Cuts
  <2>4. \A k \in 0 .. n : p[k] <= Len(st)
    BY Zenon DEF Cuts
  <2>5. \A k \in 1 .. n :
            /\ p[k] = p[k - 1] + Len(Encode(w[k]))
            /\ \A x \in 1 .. Len(Encode(w[k])) : st[p[k - 1] + x] = Encode(w[k])[x]
    BY Zenon DEF Cuts
  <2> QED
    BY <2>1, <2>2, <2>3, <2>4, <2>5, Zenon
<1>4. /\ s2 \in Seq(Unit) /\ Len(s2) = Len(st) + Len(e)
      /\ \A x \in 1 .. Len(st) : s2[x] = st[x]
      /\ \A x \in 1 .. Len(e) : s2[Len(st) + x] = e[x]
  <2> HIDE DEF e
  <2> QED
    BY <1>2, <1>3, ConcatFacts
<1> DEFINE p2 == [k \in 0 .. n + 1 |-> IF k <= n THEN p[k] ELSE Len(st) + Len(e)]
<1> HIDE DEF e, w2, s2, n
<1>5. /\ p2 \in [0 .. n + 1 -> Nat]
      /\ \A k \in 0 .. n : p2[k] = p[k]
      /\ p2[n + 1] = Len(st) + Len(e)
  BY <1>1, <1>2, <1>3
<1> HIDE DEF p2
<1>6. ASSUME NEW k \in 1 .. n
      PROVE  /\ p2[k] = p2[k - 1] + Len(Encode(w2[k]))
             /\ \A x \in 1 .. Len(Encode(w2[k])) :
                   s2[p2[k - 1] + x] = Encode(w2[k])[x]
  <2> DEFINE f == Encode(w[k])
  <2>1. w2[k] = w[k] /\ w[k] \in Requests /\ k - 1 \in 0 .. n /\ k \in 0 .. n
    BY <1>1 DEF n
  <2>2. Len(f) \in Nat
    BY <2>1, EncodeFacts
  <2>3. p2[k] = p[k] /\ p2[k - 1] = p[k - 1] /\ p[k] \in Nat /\ p[k - 1] \in Nat
    BY <1>3, <1>5, <2>1
  <2>4. /\ p[k] = p[k - 1] + Len(f) /\ p[k] <= Len(st)
        /\ \A x \in 1 .. Len(f) : st[p[k - 1] + x] = f[x]
    BY <1>3, <2>1
  <2> HIDE DEF f
  <2>5. \A x \in 1 .. Len(f) : s2[p[k - 1] + x] = f[x]
    <3> SUFFICES ASSUME NEW x \in 1 .. Len(f)
                 PROVE  s2[p[k - 1] + x] = f[x]
      OBVIOUS
    <3>1. p[k - 1] + x \in 1 .. Len(st)
      BY <1>3, <2>2, <2>3, <2>4, SMTT(60)
    <3>2. s2[p[k - 1] + x] = st[p[k - 1] + x]
      BY <1>4, <3>1
    <3> QED
      BY <2>4, <3>2
  <2>6. Encode(w2[k]) = f
    BY <2>1 DEF f
  <2> QED
    BY <2>3, <2>4, <2>5, <2>6
<1>7. /\ p2[n + 1] = p2[(n + 1) - 1] + Len(Encode(w2[n + 1]))
      /\ \A x \in 1 .. Len(Encode(w2[n + 1])) :
            s2[p2[(n + 1) - 1] + x] = Encode(w2[n + 1])[x]
  <2>1. (n + 1) - 1 = n /\ n \in 0 .. n
    BY <1>1
  <2>2. p2[n] = Len(st)
    BY <1>3, <1>5, <2>1
  <2>3. Encode(w2[n + 1]) = e
    BY <1>1 DEF e
  <2> QED
    BY <1>4, <1>5, <2>1, <2>2, <2>3
<1>8. \A k \in 1 .. n + 1 :
          /\ p2[k] = p2[k - 1] + Len(Encode(w2[k]))
          /\ \A x \in 1 .. Len(Encode(w2[k])) :
                s2[p2[k - 1] + x] = Encode(w2[k])[x]
  <2>1. \A k \in 1 .. n + 1 : k \in 1 .. n \/ k = n + 1
    BY <1>1
  <2> QED
    BY <1>6, <1>7, <2>1
<1>9. \A k \in 0 .. n + 1 : p2[k] <= Len(s2)
  <2> SUFFICES ASSUME NEW k \in 0 .. n + 1
               PROVE  p2[k] <= Len(s2)
    OBVIOUS
  <2>1. CASE k \in 0 .. n
    <3>1. p2[k] = p[k] /\ p[k] <= Len(st) /\ p[k] \in Nat
      BY <1>3, <1>5, <2>1
    <3> QED
      BY <1>2, <1>3, <1>4, <3>1
  <2>2. CASE k = n + 1
    BY <1>2, <1>3, <1>4, <1>5, <2>2
  <2> QED
    BY <1>1, <2>1, <2>2
<1>10. p2[0] = 0 /\ p2[n + 1] = Len(s2)
  <2>1. 0 \in 0 .. n
    BY <1>1
  <2> QED
    BY <1>3, <1>4, <1>5, <2>1
<1>11. Cuts(w2, s2, p2)
  BY <1>1, <1>4, <1>5, <1>8, <1>9, <1>10 DEF Cuts
<1>12. \A k \in 0 .. Len(w) : p2[k] = p[k]
  BY <1>5 DEF n
<1> QED
  BY <1>11, <1>12 DEF w2, s2, e

LEMMA RestWrite ==
    ASSUME NEW st \in Seq(Unit), NEW d \in Seq(Unit), NEW u \in Seq(Unit),
           NEW e \in Seq(Unit), NEW q, Rest(st, q, d, u)
    PROVE  Rest(st \o e, q, d, u \o e)
<1>1. /\ q \in Nat /\ q + Len(d) + Len(u) = Len(st)
      /\ \A x \in 1 .. Len(d) : d[x] = st[q + x]
      /\ \A x \in 1 .. Len(u) : u[x] = st[q + Len(d) + x]
  BY DEF Rest
<1>2. Len(st) \in Nat /\ Len(d) \in Nat /\ Len(u) \in Nat /\ Len(e) \in Nat
  OBVIOUS
<1> DEFINE s2 == st \o e
           u2 == u \o e
<1>3. /\ s2 \in Seq(Unit) /\ Len(s2) = Len(st) + Len(e)
      /\ \A x \in 1 .. Len(st) : s2[x] = st[x]
      /\ \A x \in 1 .. Len(e) : s2[Len(st) + x] = e[x]
  BY ConcatFacts
<1>4. /\ u2 \in Seq(Unit) /\ Len(u2) = Len(u) + Len(e)
      /\ \A x \in 1 .. Len(u) : u2[x] = u[x]
      /\ \A x \in 1 .. Len(e) : u2[Len(u) + x] = e[x]
  BY ConcatFacts
<1> HIDE DEF s2, u2
<1>0. /\ q \in Nat /\ q + Len(d) + Len(u) = Len(st)
      /\ Len(u2) = Len(u) + Len(e) /\ Len(s2) = Len(st) + Len(e)
  BY <1>1, <1>3, <1>4
<1>5. q + Len(d) + Len(u2) = Len(s2)
  BY <1>0, <1>2
<1>6. \A x \in 1 .. Len(d) : d[x] = s2[q + x]
  <2> SUFFICES ASSUME NEW x \in 1 .. Len(d) PROVE d[x] = s2[q + x]
    OBVIOUS
  <2>1. q + x \in 1 .. Len(st)
    BY <1>1, <1>2
  <2> QED
    BY <1>1, <1>3, <2>1
<1>7. \A x \in 1 .. Len(u2) : u2[x] = s2[q + Len(d) + x]
  <2> SUFFICES ASSUME NEW x \in 1 .. Len(u2) PROVE u2[x] = s2[q + Len(d) + x]
    OBVIOUS
  <2>1. CASE x <= Len(u)
    <3>1. q + Len(d) + x \in 1 .. Len(st) /\ x \in 1 .. Len(u)
      BY <1>1, <1>2, <1>4, <2>1
    <3> QED
      BY <1>1, <1>3, <1>4, <3>1
  <2>2. CASE x > Len(u)
    <3>1. /\ x - Len(u) \in 1 .. Len(e) /\ Len(u) + (x - Len(u)) = x
          /\ Len(st) + (x - Len(u)) = q + Len(d) + x
      BY <1>0, <1>2, <2>2, SMTT(40)
    <3>2. /\ s2[Len(st) + (x - Len(u))] = e[x - Len(u)]
          /\ u2[Len(u) + (x - Len(u))] = e[x - Len(u)]
      BY <1>3, <1>4, <3>1
    <3> QED
      BY <3>1, <3>2
  <2> QED
    BY <1>2, <1>4, <2>1, <2>2
<1> QED
  BY <1>1, <1>5, <1>6, <1>7 DEF Rest, s2, u2

LEMMA RestRead ==
    ASSUME NEW st \in Seq(Unit), NEW d \in Seq(Unit), NEW u \in Seq(Unit),
           NEW q, Rest(st, q, d, u), NEW n \in Nat, 1 <= n, n <= Len(u)
    PROVE  Rest(st, q, d \o SubSeq(u, 1, n), SubSeq(u, n + 1, Len(u)))
<1>1. /\ q \in Nat /\ q + Len(d) + Len(u) = Len(st)
      /\ \A x \in 1 .. Len(d) : d[x] = st[q + x]
      /\ \A x \in 1 .. Len(u) : u[x] = st[q + Len(d) + x]
  BY DEF Rest
<1>2. Len(st) \in Nat /\ Len(d) \in Nat /\ Len(u) \in Nat
  OBVIOUS
<1> DEFINE a == SubSeq(u, 1, n)
           b == SubSeq(u, n + 1, Len(u))
           d2 == d \o a
<1>3. a \in Seq(Unit) /\ Len(a) = n /\ \A x \in 1 .. n : a[x] = u[x]
  BY <1>2
<1>4. Len(b) = Len(u) - n /\ \A x \in 1 .. Len(u) - n : b[x] = u[n + x]
  BY DropFacts
<1>5. /\ Len(d2) = Len(d) + n
      /\ \A x \in 1 .. Len(d) : d2[x] = d[x]
      /\ \A x \in 1 .. n : d2[Len(d) + x] = a[x]
  <2> HIDE DEF a
  <2> QED
    BY <1>3, ConcatFacts
<1> HIDE DEF a, b, d2
<1>0. /\ q \in Nat /\ q + Len(d) + Len(u) = Len(st)
      /\ Len(d2) = Len(d) + n /\ Len(b) = Len(u) - n
  BY <1>1, <1>4, <1>5
<1>6. q + Len(d2) + Len(b) = Len(st)
  <2> DEFINE v == Len(d)
             v2 == Len(d2)
             y == Len(u)
             y2 == Len(b)
             z == Len(st)
  <2>1. /\ q \in Nat /\ v \in Nat /\ y \in Nat /\ z \in Nat /\ q + v + y = z
        /\ v2 = v + n /\ y2 = y - n
    BY <1>0, <1>2
  <2> HIDE DEF v, v2, y, y2, z
  <2>2. q + v2 + y2 = z
    BY <2>1
  <2> QED
    BY <2>2 DEF v2, y2, z
<1>7. \A x \in 1 .. Len(d2) : d2[x] = st[q + x]
  <2> SUFFICES ASSUME NEW x \in 1 .. Len(d2) PROVE d2[x] = st[q + x]
    OBVIOUS
  <2>1. CASE x <= Len(d)
    BY <1>1, <1>2, <1>5, <2>1
  <2>2. CASE x > Len(d)
    <3>1. /\ x - Len(d) \in 1 .. n /\ x - Len(d) \in 1 .. Len(u)
          /\ Len(d) + (x - Len(d)) = x /\ q + Len(d) + (x - Len(d)) = q + x
      BY <1>1, <1>2, <1>5, <2>2
    <3>2. /\ d2[Len(d) + (x - Len(d))] = a[x - Len(d)]
          /\ a[x - Len(d)] = u[x - Len(d)]
          /\ u[x - Len(d)] = st[q + Len(d) + (x - Len(d))]
      BY <1>1, <1>3, <1>5, <3>1
    <3> QED
      BY <3>1, <3>2
  <2> QED
    BY <1>2, <1>5, <2>1, <2>2
<1>8. \A x \in 1 .. Len(b) : b[x] = st[q + Len(d2) + x]
  <2> SUFFICES ASSUME NEW x \in 1 .. Len(b) PROVE b[x] = st[q + Len(d2) + x]
    OBVIOUS
  <2>1. /\ n + x \in 1 .. Len(u) /\ x \in 1 .. Len(u) - n
        /\ q + Len(d) + (n + x) = q + Len(d2) + x
    BY <1>1, <1>2, <1>4, <1>5
  <2>2. b[x] = u[n + x] /\ u[n + x] = st[q + Len(d) + (n + x)]
    BY <1>1, <1>4, <2>1
  <2> QED
    BY <2>1, <2>2
<1> QED
  BY <1>1, <1>6, <1>7, <1>8 DEF Rest, a, b, d2

LEMMA RestRetrieve ==
    ASSUME NEW st \in Seq(Unit), NEW d \in Seq(Unit), NEW u \in Seq(Unit),
           NEW q, Rest(st, q, d, u), NEW n \in Nat, n <= Len(d)
    PROVE  Rest(st, q + n, SubSeq(d, n + 1, Len(d)), u)
<1>1. /\ q \in Nat /\ q + Len(d) + Len(u) = Len(st)
      /\ \A x \in 1 .. Len(d) : d[x] = st[q + x]
      /\ \A x \in 1 .. Len(u) : u[x] = st[q + Len(d) + x]
  BY DEF Rest
<1>2. Len(st) \in Nat /\ Len(d) \in Nat /\ Len(u) \in Nat
  OBVIOUS
<1> DEFINE b == SubSeq(d, n + 1, Len(d))
<1>3. Len(b) = Len(d) - n /\ \A x \in 1 .. Len(d) - n : b[x] = d[n + x]
  BY DropFacts
<1> HIDE DEF b
<1>0. /\ q \in Nat /\ q + Len(d) + Len(u) = Len(st) /\ Len(b) = Len(d) - n
  BY <1>1, <1>3
<1>4. (q + n) + Len(b) + Len(u) = Len(st) /\ q + n \in Nat
  BY <1>0, <1>2
<1>5. \A x \in 1 .. Len(b) : b[x] = st[(q + n) + x]
  <2> SUFFICES ASSUME NEW x \in 1 .. Len(b) PROVE b[x] = st[(q + n) + x]
    OBVIOUS
  <2>1. /\ n + x \in 1 .. Len(d) /\ x \in 1 .. Len(d) - n
        /\ q + (n + x) = (q + n) + x
    BY <1>1, <1>2, <1>3
  <2>2. b[x] = d[n + x] /\ d[n + x] = st[q + (n + x)]
    BY <1>1, <1>3, <2>1
  <2> QED
    BY <2>1, <2>2
<1>6. \A x \in 1 .. Len(u) : u[x] = st[(q + n) + Len(b) + x]
  <2>1. (q + n) + Len(b) = q + Len(d)
    BY <1>1, <1>2, <1>3
  <2> QED
    BY <1>1, <2>1
<1> QED
  BY <1>4, <1>5, <1>6 DEF Rest, b
\* At the end of a request the next one begins.
LEMMA AtRequest ==
    ASSUME NEW w \in Seq(Requests), NEW st, NEW p, Cuts(w, st, p),
           NEW d \in Seq(Unit), NEW u \in Seq(Unit),
           NEW n \in Nat, n <= Len(w), Rest(st, p[n], d, u), Len(d) > 0
    PROVE  /\ n < Len(w) /\ w[n + 1] \in Requests
           /\ d[1] = w[n + 1].line
           /\ Len(d) >= 2 => d[2] = CR
           /\ Len(d) >= 3 => d[3] = LF
           /\ p[n + 1] = p[n] + Len(Encode(w[n + 1]))
<1>1. /\ p[n] \in Nat /\ p[n] + Len(d) + Len(u) = Len(st)
      /\ \A x \in 1 .. Len(d) : d[x] = st[p[n] + x]
  BY DEF Rest
<1>2. /\ Len(w) \in Nat /\ Len(d) \in Nat /\ Len(u) \in Nat
      /\ st \in Seq(Unit) /\ Len(st) \in Nat
  BY DEF Cuts
<1>3. n < Len(w)
  <2>1. p[Len(w)] = Len(st)
    BY DEF Cuts
  <2>2. p[n] # Len(st)
    BY <1>1, <1>2
  <2>3. n # Len(w)
    BY <2>1, <2>2
  <2> QED
    BY <1>2, <2>3
<1> DEFINE e == Encode(w[n + 1])
<1>4. w[n + 1] \in Requests /\ n + 1 \in 1 .. Len(w) /\ (n + 1) - 1 = n
  BY <1>2, <1>3
<1>5. /\ Len(e) \in Nat /\ Len(e) >= 3
      /\ e[1] = w[n + 1].line /\ e[2] = CR /\ e[3] = LF
  BY <1>4, EncodeFacts
<1>6. p[n + 1] = p[n] + Len(e) /\ \A x \in 1 .. Len(e) : st[p[n] + x] = e[x]
  BY <1>4 DEF Cuts
<1> HIDE DEF e
<1>7. \A x \in 1 .. 3 : x <= Len(d) => d[x] = e[x]
  <2> SUFFICES ASSUME NEW x \in 1 .. 3, x <= Len(d) PROVE d[x] = e[x]
    OBVIOUS
  <2>1. x \in 1 .. Len(d) /\ x \in 1 .. Len(e)
    BY <1>2, <1>5
  <2>2. d[x] = st[p[n] + x]
    BY <1>1, <2>1, Zenon
  <2>3. st[p[n] + x] = e[x]
    BY <1>6, <2>1, Zenon
  <2> QED
    BY <2>2, <2>3
<1> QED
  BY <1>2, <1>3, <1>4, <1>5, <1>6, <1>7 DEF e

LEMMA TwoUnits ==
    ASSUME NEW d \in Seq(Unit), NEW a \in Nat, a + 2 <= Len(d)
    PROVE  SubSeq(d, a + 1, a + 2) = <<d[a + 1], d[a + 2]>>
<1> DEFINE t == SubSeq(d, a + 1, a + 2)
<1>1. /\ t \in Seq(Unit) /\ Len(t) = 2
      /\ t[1] = d[a + 1] /\ t[2] = d[a + 2]
  OBVIOUS
<1>2. d[a + 1] \in Unit /\ d[a + 2] \in Unit
  OBVIOUS
<1> HIDE DEF t
<1>3. t = <<d[a + 1], d[a + 2]>>
  BY <1>1, <1>2
<1> QED
  BY <1>3 DEF t

\* After the line of a set comes its value.
LEMMA AtValue ==
    ASSUME NEW w \in Seq(Requests), NEW st, NEW p, Cuts(w, st, p),
           NEW d \in Seq(Unit), NEW u \in Seq(Unit),
           NEW n \in Nat, n < Len(w), Rest(st, p[n] + 3, d, u),
           w[n + 1].line.cmd = "set", Len(d) >= Len(w[n + 1].data) + 2
    PROVE  LET m == Len(w[n + 1].data)
           IN  /\ SubSeq(d, 1, m) = w[n + 1].data
               /\ SubSeq(d, m + 1, m + 2) = <<CR, LF>>
               /\ p[n + 1] = (p[n] + 3) + (m + 2)
<1> DEFINE e == Encode(w[n + 1])
           v == w[n + 1].data
<1>1. w[n + 1] \in Requests /\ n + 1 \in 1 .. Len(w) /\ (n + 1) - 1 = n
      /\ n \in 0 .. Len(w)
  BY DEF Cuts
<1>2. /\ v \in Seq(Unit) /\ Len(e) = Len(v) + 5 /\ Len(v) \in Nat
      /\ \A x \in 1 .. Len(v) : e[3 + x] = v[x]
      /\ e[Len(v) + 4] = CR /\ e[Len(v) + 5] = LF
  <2>1. /\ v \in Seq(Unit) /\ Len(e) = Len(v) + 5
        /\ \A x \in 1 .. Len(v) : e[3 + x] = v[x]
        /\ e[Len(v) + 4] = CR /\ e[Len(v) + 5] = LF
    BY <1>1, EncodeFacts, Zenon
  <2> HIDE DEF v, e
  <2> QED
    BY <2>1, SMTT(40)
<1>3. /\ p[n] \in Nat /\ p[n + 1] = p[n] + Len(e)
      /\ \A x \in 1 .. Len(e) : st[p[n] + x] = e[x]
  BY <1>1 DEF Cuts
<1>4. \A x \in 1 .. Len(d) : d[x] = st[(p[n] + 3) + x]
  BY DEF Rest
<1>5. Len(d) \in Nat /\ Len(d) >= Len(v) + 2
  OBVIOUS
<1> HIDE DEF e, v
<1>6. \A x \in 1 .. Len(v) + 2 : d[x] = e[3 + x]
  <2> SUFFICES ASSUME NEW x \in 1 .. Len(v) + 2 PROVE d[x] = e[3 + x]
    OBVIOUS
  <2>1. x \in 1 .. Len(d) /\ 3 + x \in 1 .. Len(e) /\ (p[n] + 3) + x = p[n] + (3 + x)
    <3>1. /\ Len(v) \in Nat /\ Len(e) = Len(v) + 5 /\ p[n] \in Nat
          /\ Len(d) \in Nat /\ Len(d) >= Len(v) + 2
      BY <1>2, <1>3, <1>5
    <3>2. x \in Nat /\ 1 <= x /\ x <= Len(v) + 2
      BY <3>1
    <3>3. (p[n] + 3) + x = p[n] + (3 + x)
      <4>1. \A a, b \in Nat : (a + 3) + b = a + (3 + b)
        OBVIOUS
      <4> QED
        BY <3>1, <3>2, <4>1, Zenon
    <3>4. x \in 1 .. Len(d)
      BY <3>1, <3>2
    <3>5. 3 + x \in 1 .. Len(e)
      BY <3>1, <3>2
    <3> QED
      BY <3>3, <3>4, <3>5
  <2> QED
    BY <1>3, <1>4, <2>1
<1>7. SubSeq(d, 1, Len(v)) = v
  <2>1. \A x \in 1 .. Len(v) : d[x] = v[x]
    BY <1>2, <1>6
  <2>2. /\ SubSeq(d, 1, Len(v)) \in Seq(Unit) /\ Len(SubSeq(d, 1, Len(v))) = Len(v)
        /\ \A x \in 1 .. Len(v) : SubSeq(d, 1, Len(v))[x] = d[x]
    BY <1>2, <1>5
  <2> QED
    BY <1>2, <2>1, <2>2
<1>8. SubSeq(d, Len(v) + 1, Len(v) + 2) = <<CR, LF>>
  <2> DEFINE a == Len(v)
  <2>1. d[a + 1] = CR /\ d[a + 2] = LF
    <3>1. a + 1 \in 1 .. a + 2 /\ a + 2 \in 1 .. a + 2
          /\ 3 + (a + 1) = a + 4 /\ 3 + (a + 2) = a + 5
      BY <1>2
    <3> QED
      BY <1>2, <1>6, <3>1
  <2>2. a \in Nat /\ a + 2 <= Len(d)
    BY <1>2, <1>5
  <2> HIDE DEF a
  <2>3. SubSeq(d, a + 1, a + 2) = <<d[a + 1], d[a + 2]>>
    BY <2>2, TwoUnits
  <2> QED
    BY <2>1, <2>3 DEF a
<1>9. p[n + 1] = (p[n] + 3) + (Len(v) + 2)
  <2>1. /\ Len(v) \in Nat /\ Len(e) = Len(v) + 5 /\ p[n] \in Nat
        /\ p[n + 1] = p[n] + Len(e)
    BY <1>2, <1>3
  <2> QED
    BY <2>1, SMTT(40)
<1> QED
  BY <1>7, <1>8, <1>9 DEF v

Good(w, k) == \A j \in 1 .. k : j <= Len(w) => WellFormed(w[j])

\* The session waits for the value of r.
Awaits(r) ==
    /\ r.line.cmd = "set" /\ curKey = r.line.key
    /\ curValueLen = r.line.len /\ curValueLen = Len(r.data)

\* The session stands at the end of as many requests as it has logged, or
\* behind the line of the next.
InStep(st, p, q) ==
    /\ Cuts(written, st, p) /\ Rest(st, q, buf.data, wire)
    /\ Len(log) <= Len(written)
    /\ \/ receiveState = "kReadCommandLine" /\ q = p[Len(log)]
       \/ /\ receiveState = "kReadValue" /\ q = p[Len(log)] + 3
          /\ Len(log) < Len(written) /\ Awaits(written[Len(log) + 1])

Follows ==
    alive /\ Good(written, Len(log) + 1) => \E st, p, q : InStep(st, p, q)

Served == RequestsRespected /\ Follows

LEMMA ServedTypes ==
    ASSUME Typed
    PROVE  /\ written \in Seq(Requests) /\ Len(written) \in Nat
           /\ log \in Seq(Entry) /\ Len(log) \in Nat
           /\ buf.data \in Seq(Unit) /\ wire \in Seq(Unit)
  BY BufferFacts DEF Typed, Types

\* The next entry of the log: right if the client has kept to the protocol.
LEMMA DidRespects ==
    ASSUME Typed, RequestsRespected, NEW op, NEW k, NEW u, Did(op, k, u),
           written' = written,
           Good(written, Len(log) + 1) =>
              /\ Len(log) + 1 <= Len(written)
              /\ [op |-> op, key |-> k, data |-> u] = Meaning(written[Len(log) + 1])
    PROVE  RequestsRespected' /\ Len(log') = Len(log) + 1
<1> DEFINE e == [op |-> op, key |-> k, data |-> u, told |-> ~down]
           n == Len(log)
<1>1. log' = Append(log, e) /\ log \in Seq(Entry) /\ n \in Nat
  BY ServedTypes DEF Did
<1>2. /\ Len(log') = n + 1 /\ log'[n + 1] = e
      /\ \A i \in 1 .. n : log'[i] = log[i]
  <2> HIDE DEF e
  <2> QED
    BY <1>1
<1>3. [op |-> e.op, key |-> e.key, data |-> e.data]
        = [op |-> op, key |-> k, data |-> u]
  OBVIOUS
<1> HIDE DEF e, n
<1>4. ASSUME NEW i \in 1 .. n + 1,
             \A j \in 1 .. i : j <= Len(written) => WellFormed(written[j])
      PROVE  /\ i <= Len(written)
             /\ [op |-> log'[i].op, key |-> log'[i].key, data |-> log'[i].data]
                  = Meaning(written[i])
  <2>1. CASE i \in 1 .. n
    BY <1>2, <1>4, <2>1 DEF RequestsRespected, n
  <2>2. CASE i = n + 1
    <3>1. Good(written, n + 1)
      BY <1>4, <2>2 DEF Good
    <3>2. /\ n + 1 <= Len(written)
          /\ [op |-> op, key |-> k, data |-> u] = Meaning(written[n + 1])
      BY <3>1 DEF n
    <3> QED
      BY <1>2, <1>3, <2>2, <3>2
  <2>3. n \in Nat
    BY <1>1
  <2>4. i \in 1 .. n \/ i = n + 1
    BY <2>3
  <2> QED
    BY <2>1, <2>2, <2>4
<1>5. RequestsRespected'
  BY <1>2, <1>4 DEF RequestsRespected, Meaning, WellFormed
<1> QED
  BY <1>2, <1>5 DEF n

LEMMA SilentRespects ==
    ASSUME RequestsRespected, log' = log, written' = written
    PROVE  RequestsRespected'
  BY DEF RequestsRespected, Meaning, WellFormed

\* Once the client has left the protocol nothing more is claimed.
LEMMA ProtocolLeft ==
    ASSUME Typed, RequestsRespected, ~Good(written, Len(log) + 1),
           written' = written,
           \/ log' = log
           \/ \E op, k, u : Did(op, k, u)
    PROVE  Served'
<1>1. Len(log) \in Nat
  BY ServedTypes
<1>2. RequestsRespected' /\ (Len(log') = Len(log) \/ Len(log') = Len(log) + 1)
  <2>1. CASE log' = log
    BY <2>1, SilentRespects
  <2>2. ASSUME NEW op, NEW k, NEW u, Did(op, k, u)
        PROVE  RequestsRespected' /\ Len(log') = Len(log) + 1
    BY <2>2, DidRespects
  <2> QED
    BY <2>1, <2>2
<1>3. ~Good(written, Len(log') + 1)
  <2>1. PICK j \in 1 .. Len(log) + 1 : j <= Len(written) /\ ~WellFormed(written[j])
    BY DEF Good
  <2>2. j \in 1 .. Len(log') + 1
    BY <1>1, <1>2, <2>1
  <2> QED
    BY <2>1, <2>2 DEF Good
<1>4. ~Good(written, Len(log) + 1)'
  BY <1>3 DEF Good, WellFormed
<1> QED
  BY <1>2, <1>4 DEF Served, Follows
\* A client in the protocol: the line that is found is that of its next
\* request, whole and alone.
LEMMA LineInStep ==
    ASSUME Typed, Kept, Follows, alive, Good(written, Len(log) + 1),
           NEW r, Line(r)
    PROVE  LET n == Len(log)
           IN  \E st, p :
                  /\ Cuts(written, st, p) /\ n < Len(written)
                  /\ written[n + 1] \in Requests /\ WellFormed(written[n + 1])
                  /\ r = written[n + 1].line
                  /\ Rest(st, p[n] + 3, buf'.data, wire)
                  /\ p[n + 1] = p[n] + Len(Encode(written[n + 1]))
<1> DEFINE n == Len(log)
           d == buf.data
<1>1. /\ written \in Seq(Requests) /\ Len(written) \in Nat /\ n \in Nat
      /\ d \in Seq(Unit) /\ Len(d) \in Nat /\ wire \in Seq(Unit)
  BY ServedTypes DEF Typed
<1>2. PICK st, p, q : InStep(st, p, q)
  BY DEF Follows
<1>3. receiveState = "kReadCommandLine"
  BY DEF Line
<1>4. /\ Cuts(written, st, p) /\ Rest(st, p[n], d, wire) /\ n <= Len(written)
  BY <1>2, <1>3 DEF InStep
<1>5. PICK i \in Nat :
          /\ i \in FindCRLF /\ i \in LineEnds(0) /\ i + 2 <= Len(d)
          /\ r = Parse(SubSeq(d, 1, i))
          /\ buf'.data = SubSeq(d, i + 3, Len(d))
  BY LineFacts DEF Typed
<1>6. Len(d) > 0
  BY <1>1, <1>5
<1>7. /\ n < Len(written) /\ written[n + 1] \in Requests
      /\ d[1] = written[n + 1].line
      /\ Len(d) >= 2 => d[2] = CR
      /\ Len(d) >= 3 => d[3] = LF
      /\ p[n + 1] = p[n] + Len(Encode(written[n + 1]))
  <2> HIDE DEF n, d
  <2> QED
    BY <1>1, <1>4, <1>6, AtRequest
<1>8. d[1] \in Text /\ d[1] # CR
  BY <1>7, EncodeFacts, SessionAssumption
<1>9. i = 1
  <2>1. d[i + 1] = CR
    BY <1>5, LineEndFacts DEF Typed
  <2>2. i >= 1
    BY <1>8, <2>1
  <2>3. 1 \in LineEnds(0)
    <3>1. 1 + 2 <= Len(d) /\ d[1 + 1] = CR /\ d[1 + 2] = LF
      BY <1>1, <1>5, <1>7, <2>2, SMTT(40)
    <3> QED
      BY <3>1, LineEndFacts DEF Typed
  <2>4. i <= 1
    <3>1. i \in Least(LineEnds(0)) /\ LineEnds(0) \subseteq Nat
      BY <1>5, SearchIsFull, LineEndFacts DEF Kept, Typed
    <3>2. i # NULL
      BY SessionAssumption
    <3> QED
      BY <2>3, <3>1, <3>2, LeastFacts
  <2> QED
    BY <2>2, <2>4
<1>10. r = written[n + 1].line
  <2>1. /\ SubSeq(d, 1, 1) \in Seq(Unit) /\ Len(SubSeq(d, 1, 1)) = 1
        /\ SubSeq(d, 1, 1) # <<>> /\ Head(SubSeq(d, 1, 1)) = d[1]
    BY <1>1, <1>6
  <2>2. r = Parse(SubSeq(d, 1, 1))
    BY <1>5, <1>9
  <2>3. Parse(SubSeq(d, 1, 1)) = d[1]
    BY <1>8, <2>1 DEF Parse
  <2> QED
    BY <1>7, <2>2, <2>3
<1>11. Rest(st, p[n] + 3, buf'.data, wire)
  <2>1. 3 \in Nat /\ 3 <= Len(d) /\ st \in Seq(Unit)
    BY <1>4, <1>5, <1>9 DEF Cuts
  <2>2. Rest(st, p[n] + 3, SubSeq(d, 3 + 1, Len(d)), wire)
    <3> HIDE DEF n, d
    <3> QED
      BY <1>1, <1>4, <2>1, RestRetrieve
  <2>3. buf'.data = SubSeq(d, 3 + 1, Len(d))
    BY <1>5, <1>9
  <2> QED
    BY <2>2, <2>3
<1>12. WellFormed(written[n + 1])
  <2>1. n + 1 \in 1 .. n + 1 /\ n + 1 <= Len(written)
    BY <1>1, <1>7
  <2> QED
    BY <2>1 DEF Good
<1> QED
  BY <1>4, <1>7, <1>10, <1>11, <1>12

\* A request that is a line is answered, and the session is behind it.
LEMMA LineServed ==
    ASSUME Typed, RequestsRespected, NEW st, NEW p,
           Cuts(written, st, p), Len(log) < Len(written),
           written[Len(log) + 1] \in Requests,
           written[Len(log) + 1].line.cmd # "set",
           Rest(st, p[Len(log)] + 3, buf'.data, wire),
           p[Len(log) + 1] = p[Len(log)] + Len(Encode(written[Len(log) + 1])),
           NEW op, NEW k, Did(op, k, <<>>),
           [op |-> op, key |-> k, data |-> <<>>] = Meaning(written[Len(log) + 1]),
           wire' = wire, written' = written, receiveState' = "kReadCommandLine"
    PROVE  Served'
<1>1. Len(log) \in Nat /\ Len(written) \in Nat
  BY ServedTypes
<1>2. RequestsRespected' /\ Len(log') = Len(log) + 1
  <2>1. Len(log) + 1 <= Len(written)
    BY <1>1
  <2> QED
    BY <2>1, DidRespects
<1>3. p[Len(log')] = p[Len(log)] + 3
  BY <1>2, EncodeFacts
<1>4. Cuts(written', st, p) /\ Rest(st, p[Len(log')], buf'.data, wire')
  BY <1>3
<1>5. Len(log') <= Len(written')
  BY <1>1, <1>2
<1>6. ASSUME NEW c, c = p[Len(log')]
      PROVE  InStep(st, p, c)'
  BY <1>4, <1>5, <1>6 DEF InStep
<1>7. \E a, b, c : InStep(a, b, c)'
  BY <1>6
<1> QED
  BY <1>2, <1>7 DEF Served, Follows

LEMMA QuitServed ==
    ASSUME Typed, Kept, Served, NEW r, QuitCommand(r)
    PROVE  Served'
<1>1. /\ Line(r) /\ alive /\ r.cmd = "quit" /\ Did("quit", NULL, <<>>)
      /\ RequestsRespected /\ Follows
      /\ wire' = wire /\ written' = written /\ receiveState' = "kReadCommandLine"
  BY DEF QuitCommand, Line, Served
<1>2. CASE Good(written, Len(log) + 1)
  <2> DEFINE n == Len(log)
  <2>1. PICK st, p :
            /\ Cuts(written, st, p) /\ n < Len(written)
            /\ written[n + 1] \in Requests /\ WellFormed(written[n + 1])
            /\ r = written[n + 1].line
            /\ Rest(st, p[n] + 3, buf'.data, wire)
            /\ p[n + 1] = p[n] + Len(Encode(written[n + 1]))
    BY <1>1, <1>2, LineInStep
  <2>2. [op |-> "quit", key |-> NULL, data |-> <<>>] = Meaning(written[n + 1])
    BY <1>1, <2>1 DEF Meaning
  <2> QED
    BY <1>1, <2>1, <2>2, LineServed
<1> QED
  BY <1>1, <1>2, ProtocolLeft

LEMMA GetServed ==
    ASSUME Typed, Kept, Served, NEW r, DoGet(r)
    PROVE  Served'
<1>1. /\ Line(r) /\ alive /\ r.cmd = "get" /\ Did("get", r.key, <<>>)
      /\ RequestsRespected /\ Follows
      /\ wire' = wire /\ written' = written /\ receiveState' = "kReadCommandLine"
  BY DEF DoGet, Line, Served
<1>2. CASE Good(written, Len(log) + 1)
  <2> DEFINE n == Len(log)
  <2>1. PICK st, p :
            /\ Cuts(written, st, p) /\ n < Len(written)
            /\ written[n + 1] \in Requests /\ WellFormed(written[n + 1])
            /\ r = written[n + 1].line
            /\ Rest(st, p[n] + 3, buf'.data, wire)
            /\ p[n + 1] = p[n] + Len(Encode(written[n + 1]))
    BY <1>1, <1>2, LineInStep
  <2>2. [op |-> "get", key |-> r.key, data |-> <<>>] = Meaning(written[n + 1])
    BY <1>1, <2>1 DEF Meaning
  <2> QED
    BY <1>1, <2>1, <2>2, LineServed
<1> QED
  BY <1>1, <1>2, ProtocolLeft

\* A get of a key that is not there ends the process.
LEMMA GetMissingServed ==
    ASSUME Typed, Kept, Served, NEW r, DoGetMissing(r)
    PROVE  Served'
<1>1. log' = log /\ written' = written /\ alive' = FALSE
  BY DEF DoGetMissing, Line
<1> QED
  BY <1>1, SilentRespects DEF Served, Follows

\* What a request in the protocol cannot be.
LEMMA RefusedServed ==
    ASSUME Typed, Kept, Served, NEW r,
           UnknownCommand(r) \/ DoGetError(r) \/ DoUpdateError(r) \/ DoUpdateTooLarge(r)
    PROVE  Served'
<1>1. /\ Line(r) /\ alive /\ RequestsRespected /\ Follows
      /\ written' = written
      /\ log' = log \/ \E op, k, u : Did(op, k, u)
  BY DEF UnknownCommand, DoGetError, DoUpdateError, DoUpdateTooLarge, Line, Served
<1>2. CASE Good(written, Len(log) + 1)
  <2> DEFINE n == Len(log)
  <2>1. /\ written[n + 1] \in Requests /\ WellFormed(written[n + 1])
        /\ r = written[n + 1].line
    BY <1>1, <1>2, LineInStep
  <2>2. /\ r.cmd \in {"set", "get", "quit"} /\ r.len \in Nat
        /\ r.cmd = "get" => r.key # NULL
        /\ r.cmd = "set" => /\ r.key # NULL /\ r.ok /\ r.len < kMaxValueLen
                            /\ r.len <= IntMax
    BY <2>1, EncodeFacts DEF WellFormed, Text
  <2>3. r.cmd = "set" => ToInt(r.len) = r.len
    BY <2>2, ToIntFacts
  <2>4. kMaxValueLen \in Nat
    BY SessionAssumption
  <2>5. ~UnknownCommand(r)
    BY <2>2 DEF UnknownCommand
  <2>6. ~DoGetError(r)
    BY <2>2 DEF DoGetError
  <2>7. ~DoUpdateError(r)
    BY <2>2, <2>3 DEF DoUpdateError
  <2>8. ~DoUpdateTooLarge(r)
    BY <2>2, <2>3, <2>4 DEF DoUpdateTooLarge
  <2> QED
    BY <2>5, <2>6, <2>7, <2>8
<1> QED
  BY <1>1, <1>2, ProtocolLeft

LEMMA UpdateServed ==
    ASSUME Typed, Kept, Served, NEW r, DoUpdate(r)
    PROVE  Served'
<1>1. /\ Line(r) /\ alive /\ r.cmd = "set" /\ log' = log
      /\ RequestsRespected /\ Follows
      /\ wire' = wire /\ written' = written /\ receiveState' = "kReadValue"
      /\ curKey' = r.key /\ curValueLen' = ToInt(r.len)
  BY DEF DoUpdate, Line, Served
<1>2. CASE Good(written, Len(log) + 1)
  <2> DEFINE n == Len(log)
  <2>1. PICK st, p :
            /\ Cuts(written, st, p) /\ n < Len(written)
            /\ written[n + 1] \in Requests /\ WellFormed(written[n + 1])
            /\ r = written[n + 1].line
            /\ Rest(st, p[n] + 3, buf'.data, wire)
    BY <1>1, <1>2, LineInStep
  <2>2. r.len \in Nat /\ r.len <= IntMax /\ r.len = Len(written[n + 1].data)
    BY <1>1, <2>1, EncodeFacts DEF WellFormed, Text
  <2>3. ToInt(r.len) = r.len
    BY <2>2, ToIntFacts
  <2>4. Awaits(written[n + 1])'
    BY <1>1, <2>1, <2>2, <2>3 DEF Awaits
  <2>5. n \in Nat /\ Len(written) \in Nat
    BY ServedTypes
  <2>6. InStep(st, p, p[n] + 3)'
    BY <1>1, <2>1, <2>4, <2>5 DEF InStep
  <2>7. \E a, b, c : InStep(a, b, c)'
    BY <2>6
  <2>8. RequestsRespected'
    BY <1>1, SilentRespects
  <2> QED
    BY <2>7, <2>8 DEF Served, Follows
<1> QED
  BY <1>1, <1>2, ProtocolLeft
\* The value stored is the value of the request.
LEMMA ValueInStep ==
    ASSUME Typed, Follows, alive, Good(written, Len(log) + 1),
           running, receiveState = "kReadValue", HasValue,
           buf' = Retrieve(curValueLen + 2)
    PROVE  LET n == Len(log)
           IN  \E st, p :
                  /\ Cuts(written, st, p) /\ n < Len(written)
                  /\ written[n + 1].line.cmd = "set"
                  /\ curKey = written[n + 1].line.key
                  /\ SubSeq(buf.data, 1, curValueLen) = written[n + 1].data
                  /\ SubSeq(buf.data, curValueLen + 1, curValueLen + 2) = CRLF
                  /\ Rest(st, p[n + 1], buf'.data, wire)
<1> DEFINE n == Len(log)
           d == buf.data
           m == curValueLen
<1>1. /\ written \in Seq(Requests) /\ n \in Nat
      /\ d \in Seq(Unit) /\ Len(d) \in Nat /\ wire \in Seq(Unit)
  BY ServedTypes DEF Typed
<1>2. PICK st, p, q : InStep(st, p, q)
  BY DEF Follows
<1>3. /\ Cuts(written, st, p) /\ Rest(st, p[n] + 3, d, wire) /\ n < Len(written)
      /\ written[n + 1].line.cmd = "set" /\ curKey = written[n + 1].line.key
      /\ m = Len(written[n + 1].data)
  BY <1>2 DEF InStep, Awaits
<1>4. /\ m \in Nat /\ m + 2 <= Len(d) /\ buf'.data = SubSeq(d, m + 3, Len(d))
  BY ValueFacts
<1> HIDE DEF n, d, m
<1>5. /\ SubSeq(d, 1, m) = written[n + 1].data
      /\ SubSeq(d, m + 1, m + 2) = <<CR, LF>>
      /\ p[n + 1] = (p[n] + 3) + (m + 2)
  <2>1. Len(d) >= Len(written[n + 1].data) + 2
    BY <1>1, <1>3, <1>4
  <2> QED
    BY <1>1, <1>3, <2>1, AtValue
<1>6. Rest(st, p[n + 1], SubSeq(d, (m + 2) + 1, Len(d)), wire)
  <2>1. m + 2 \in Nat /\ st \in Seq(Unit)
    BY <1>3, <1>4 DEF Cuts
  <2> QED
    BY <1>1, <1>3, <1>4, <1>5, <2>1, RestRetrieve
<1>7. (m + 2) + 1 = m + 3
  BY <1>4
<1> QED
  BY <1>3, <1>4, <1>5, <1>6, <1>7 DEF n, d, m, CRLF

LEMMA StoreValueServed ==
    ASSUME Typed, Kept, Served, StoreValue
    PROVE  Served'
<1> DEFINE n == Len(log)
<1>1. /\ alive /\ running /\ receiveState = "kReadValue" /\ HasValue
      /\ buf' = Retrieve(curValueLen + 2)
      /\ Did("set", curKey, SubSeq(buf.data, 1, curValueLen))
      /\ RequestsRespected /\ Follows
      /\ wire' = wire /\ written' = written /\ receiveState' = "kReadCommandLine"
  BY DEF StoreValue, Served
<1>2. CASE Good(written, n + 1)
  <2>1. PICK st, p :
            /\ Cuts(written, st, p) /\ n < Len(written)
            /\ written[n + 1].line.cmd = "set"
            /\ curKey = written[n + 1].line.key
            /\ SubSeq(buf.data, 1, curValueLen) = written[n + 1].data
            /\ Rest(st, p[n + 1], buf'.data, wire)
    BY <1>1, <1>2, ValueInStep
  <2>2. n \in Nat /\ Len(written) \in Nat
    BY ServedTypes
  <2>3. [op |-> "set", key |-> curKey, data |-> SubSeq(buf.data, 1, curValueLen)]
          = Meaning(written[n + 1])
    BY <2>1 DEF Meaning
  <2>4. RequestsRespected' /\ Len(log') = n + 1
    <3>1. n + 1 <= Len(written)
      BY <2>1, <2>2
    <3> QED
      BY <1>1, <2>3, <3>1, DidRespects
  <2>5. /\ Cuts(written', st, p) /\ Rest(st, p[Len(log')], buf'.data, wire')
        /\ Len(log') <= Len(written')
    BY <1>1, <2>1, <2>2, <2>4
  <2>6. ASSUME NEW c, c = p[Len(log')]
        PROVE  InStep(st, p, c)'
    BY <1>1, <2>5, <2>6 DEF InStep
  <2>7. \E a, b, c : InStep(a, b, c)'
    BY <2>6
  <2> QED
    BY <2>4, <2>7 DEF Served, Follows
<1> QED
  BY <1>1, <1>2, ProtocolLeft

\* In the protocol no value is dropped.
LEMMA DropValueServed ==
    ASSUME Typed, Kept, Served, DropValue
    PROVE  Served'
<1>1. /\ alive /\ running /\ receiveState = "kReadValue" /\ HasValue
      /\ buf' = Retrieve(curValueLen + 2)
      /\ SubSeq(buf.data, curValueLen + 1, curValueLen + 2) # CRLF
      /\ RequestsRespected /\ Follows /\ log' = log /\ written' = written
  BY DEF DropValue, Served
<1>2. CASE Good(written, Len(log) + 1)
  BY <1>1, <1>2, ValueInStep
<1> QED
  BY <1>1, <1>2, ProtocolLeft

\* Steps that leave the stream and the session's place in it alone.
LEMMA WaitServed ==
    ASSUME Served,
           UNCHANGED <<wire, written, buf, receiveState, curKey, curValueLen,
                       log, alive>>
    PROVE  Served'
<1>1. RequestsRespected'
  BY SilentRespects DEF Served
<1>2. \A st, p, q : InStep(st, p, q) => InStep(st, p, q)'
  BY DEF InStep, Awaits
<1>3. Good(written, Len(log) + 1)' => Good(written, Len(log) + 1)
  BY DEF Good, WellFormed
<1> QED
  BY <1>1, <1>2, <1>3 DEF Served, Follows

LEMMA ReadServed ==
    ASSUME Typed, Kept, Served, Read
    PROVE  Served'
<1>1. PICK n \in Nat :
          /\ 1 <= n /\ n <= Len(wire)
          /\ buf'.data = buf.data \o SubSeq(wire, 1, n)
          /\ wire' = SubSeq(wire, n + 1, Len(wire))
  BY ReadFacts DEF Typed
<1>2. UNCHANGED <<written, receiveState, curKey, curValueLen, log, alive>>
  BY DEF Read
<1>3. RequestsRespected'
  BY <1>2, SilentRespects DEF Served
<1>4. ASSUME NEW st, NEW p, NEW q, InStep(st, p, q)
      PROVE  InStep(st, p, q)'
  <2>1. Cuts(written, st, p) /\ st \in Seq(Unit) /\ Rest(st, q, buf.data, wire)
    BY <1>4 DEF InStep, Cuts
  <2>2. buf.data \in Seq(Unit) /\ wire \in Seq(Unit)
    BY ServedTypes
  <2>3. Rest(st, q, buf.data \o SubSeq(wire, 1, n), SubSeq(wire, n + 1, Len(wire)))
    BY <1>1, <2>1, <2>2, RestRead
  <2>4. Cuts(written', st, p) /\ Rest(st, q, buf'.data, wire')
    BY <1>1, <1>2, <2>1, <2>3
  <2> QED
    BY <1>2, <1>4, <2>4 DEF InStep, Awaits
<1>5. Good(written, Len(log) + 1)' => Good(written, Len(log) + 1)
  BY <1>2 DEF Good, WellFormed
<1> QED
  BY <1>2, <1>3, <1>4, <1>5 DEF Served, Follows

LEMMA ClientWriteServed ==
    ASSUME Typed, Kept, Served, NEW r \in Requests, ClientWrite(r)
    PROVE  Served'
<1> DEFINE n == Len(log)
<1>1. /\ written \in Seq(Requests) /\ Len(written) \in Nat /\ n \in Nat
      /\ buf.data \in Seq(Unit) /\ wire \in Seq(Unit) /\ Encode(r) \in Seq(Unit)
  BY ServedTypes, EncodeFacts
<1>2. /\ written' = Append(written, r) /\ wire' = wire \o Encode(r)
      /\ UNCHANGED <<buf, receiveState, curKey, curValueLen, log, alive>>
  BY DEF ClientWrite
<1>3. /\ Len(written') = Len(written) + 1
      /\ \A k \in 1 .. Len(written) : written'[k] = written[k]
  BY <1>1, <1>2
<1>4. \A k : Good(written', k) => Good(written, k)
  BY <1>1, <1>3 DEF Good
<1>5. RequestsRespected'
  <2>1. \A i \in 1 .. n :
            (\A j \in 1 .. i : j <= Len(written') => WellFormed(written'[j]))
              => /\ i <= Len(written')
                 /\ [op |-> log[i].op, key |-> log[i].key, data |-> log[i].data]
                      = Meaning(written'[i])
    <3> SUFFICES ASSUME NEW i \in 1 .. n, Good(written', i)
                 PROVE  /\ i <= Len(written')
                        /\ [op |-> log[i].op, key |-> log[i].key,
                            data |-> log[i].data] = Meaning(written'[i])
      BY DEF Good
    <3>1. Good(written, i)
      BY <1>4
    <3>2. /\ i <= Len(written)
          /\ [op |-> log[i].op, key |-> log[i].key, data |-> log[i].data]
               = Meaning(written[i])
      BY <3>1 DEF Good, Served, RequestsRespected
    <3>3. written'[i] = written[i] /\ i <= Len(written')
      BY <1>1, <1>3, <3>2
    <3> QED
      BY <3>2, <3>3
  <2> QED
    BY <1>2, <2>1 DEF RequestsRespected, Meaning, WellFormed
<1>6. ASSUME NEW st, NEW p, NEW q, InStep(st, p, q)
      PROVE  \E a, b, c : InStep(a, b, c)'
  <2>1. Cuts(written, st, p) /\ st \in Seq(Unit) /\ Rest(st, q, buf.data, wire)
        /\ n <= Len(written)
    BY <1>6 DEF InStep, Cuts
  <2>2. PICK p2 : /\ Cuts(Append(written, r), st \o Encode(r), p2)
                  /\ \A k \in 0 .. Len(written) : p2[k] = p[k]
    BY <1>1, <2>1, CutsAppend
  <2>3. Rest(st \o Encode(r), q, buf.data, wire \o Encode(r))
    <3> HIDE DEF Encode
    <3> QED
      BY <1>1, <2>1, RestWrite
  <2>4. p2[n] = p[n]
    BY <1>1, <2>1, <2>2
  <2>5. /\ Cuts(written', st \o Encode(r), p2)
        /\ Rest(st \o Encode(r), q, buf'.data, wire') /\ n <= Len(written')
    BY <1>1, <1>2, <1>3, <2>1, <2>2, <2>3
  <2>6. \/ receiveState = "kReadCommandLine" /\ q = p2[n]
        \/ /\ receiveState = "kReadValue" /\ q = p2[n] + 3
           /\ n < Len(written) /\ Awaits(written[n + 1])
    BY <1>6, <2>4 DEF InStep
  <2>7. n < Len(written) => written'[n + 1] = written[n + 1] /\ n < Len(written')
    BY <1>1, <1>3
  <2>8. \/ receiveState' = "kReadCommandLine" /\ q = p2[Len(log')]
        \/ /\ receiveState' = "kReadValue" /\ q = p2[Len(log')] + 3
           /\ Len(log') < Len(written') /\ Awaits(written[Len(log) + 1])'
    BY <1>2, <2>6, <2>7 DEF Awaits
  <2>9. ASSUME NEW s2, s2 = st \o Encode(r)
        PROVE  InStep(s2, p2, q)'
    BY <1>2, <2>5, <2>8, <2>9 DEF InStep
  <2> QED
    BY <2>9
<1>7. Good(written, Len(log) + 1)' => Good(written, Len(log) + 1)
  <2>1. Good(written', n + 1) => Good(written, n + 1)
    BY <1>4
  <2> QED
    BY <1>2, <2>1 DEF Good, WellFormed
<1> QED
  BY <1>2, <1>5, <1>6, <1>7 DEF Served, Follows

LEMMA InitServed == Init => Served
<1> SUFFICES ASSUME Init PROVE Served
  OBVIOUS
<1>1. RequestsRespected
  BY DEF Init, RequestsRespected
<1>2. InStep(<<>>, [k \in {0} |-> 0], 0)
  <2> DEFINE p == [k \in {0} |-> 0]
  <2>1. Len(<<>>) = 0 /\ <<>> \in Seq(Unit) /\ 0 .. 0 = {0} /\ 1 .. 0 = {}
    OBVIOUS
  <2>2. p \in [{0} -> Nat] /\ p[0] = 0
    OBVIOUS
  <2> HIDE DEF p
  <2>3. Cuts(<<>>, <<>>, p)
    BY <2>1, <2>2 DEF Cuts
  <2>4. Rest(<<>>, 0, <<>>, <<>>)
    BY <2>1 DEF Rest
  <2> QED
    BY <2>1, <2>2, <2>3, <2>4 DEF Init, InStep, p
<1> QED
  BY <1>1, <1>2 DEF Served, Follows

LEMMA NextServed == Typed /\ Kept /\ Served /\ [Next]_vars => Served'
<1> SUFFICES ASSUME Typed, Kept, Served, [Next]_vars PROVE Served'
  OBVIOUS
<1>1. CASE UNCHANGED vars
  BY <1>1, WaitServed DEF vars
<1>2. CASE NoLine
  BY <1>2, WaitServed DEF NoLine
<1>3. CASE AwaitValue
  BY <1>3, WaitServed DEF AwaitValue
<1>4. ASSUME NEW r,
             \/ UnknownCommand(r) \/ QuitCommand(r) \/ DoGetError(r)
             \/ DoGet(r) \/ DoGetMissing(r) \/ DoUpdateError(r)
             \/ DoUpdateTooLarge(r) \/ DoUpdate(r)
      PROVE  Served'
  BY <1>4, QuitServed, GetServed, GetMissingServed, RefusedServed, UpdateServed
<1> QED
  BY <1>1, <1>2, <1>3, <1>4, StepCases, ClientWriteServed, ReadServed,
     StoreValueServed, DropValueServed

\* For the same reads, any requests and any values: as long as the client keeps
\* to the protocol the session does what it asked, in order and nothing else,
\* however the stream is cut.
THEOREM ProtocolServed ==
    ASSUME ~SplitCRLF, ~Overruns
    PROVE  Spec => []RequestsRespected
<1> DEFINE Inv == Typed /\ Kept /\ Served
<1>1. Init => Inv
  BY InitTyped, InitKept, InitServed
<1>2. Inv /\ [Next]_vars => Inv'
  BY NextTyped, NextKept, NextServed
<1>3. Inv => RequestsRespected
  BY DEF Served
<1> QED
  BY <1>1, <1>2, <1>3, PTL DEF Spec
-----------------------------------------------------------------------------
(* Any client: the session does what the reference does with the units     *)
(* received.  A run of the reference is a sequence c of its states; a step *)
(* it has taken on a stream is the same on every longer one.               *)

RefState == [pos : Nat \ {0}, items : SUBSET Keys, down : BOOLEAN, log : Seq(Entry)]

FirstEnd(s, p, e) == e \in Ends(s, p) /\ \A j \in Ends(s, p) : e <= j

Accepted(r) ==
    /\ r.cmd = "set" /\ r.key # NULL /\ r.ok
    /\ ToInt(r.len) \in 0 .. kMaxValueLen - 1

\* The request at place c.pos is all in s.
Whole(s, c) ==
    \E e : /\ FirstEnd(s, c.pos, e)
           /\ LET r == Parse(SubSeq(s, c.pos, e - 1))
              IN  Accepted(r) => e + ToInt(r.len) + 3 <= Len(s)

Chain(s, m, c) ==
    /\ m \in Nat /\ c \in [0 .. m -> RefState] /\ c[0] = Start /\ m < c[m].pos
    /\ \A k \in 1 .. m : Whole(s, c[k - 1]) /\ c[k] = Handle(s, c[k - 1])

\* d is what s holds after place q.
Left(s, q, d) ==
    /\ q \in Nat /\ q + Len(d) = Len(s)
    /\ \A x \in 1 .. Len(d) : d[x] = s[q + x]

LEMMA EndsFacts ==
    ASSUME NEW s \in Seq(Unit), NEW p \in Nat
    PROVE  /\ Ends(s, p) \subseteq Nat
           /\ \A j : j \in Ends(s, p) <=>
                 j \in Nat /\ p <= j /\ j + 1 <= Len(s) /\ s[j] = CR /\ s[j + 1] = LF
<1>1. Len(s) \in Nat
  OBVIOUS
<1> QED
  BY <1>1 DEF Ends

LEMMA HandleAt ==
    ASSUME NEW s \in Seq(Unit), NEW c \in RefState, NEW e, FirstEnd(s, c.pos, e)
    PROVE  Handle(s, c) = HandleLine(s, c, e, Parse(SubSeq(s, c.pos, e - 1)))
<1> DEFINE ends == Ends(s, c.pos)
           f == CHOOSE j \in ends : \A m \in ends : j <= m
<1>1. c.pos \in Nat
  BY DEF RefState
<1>2. ends \subseteq Nat /\ e \in ends /\ \A j \in ends : e <= j
  BY <1>1, EndsFacts DEF FirstEnd
<1>3. f \in ends /\ \A j \in ends : f <= j
  BY <1>2
<1>4. Handle(s, c) = HandleLine(s, c, f, Parse(SubSeq(s, c.pos, f - 1)))
  BY <1>2 DEF Handle
<1> HIDE DEF ends, f
<1>5. f = e
  BY <1>2, <1>3
<1> QED
  BY <1>4, <1>5

\* Places of s in a longer stream.
LEMMA PrefixStays ==
    ASSUME NEW s \in Seq(Unit), NEW u \in Seq(Unit),
           NEW a \in Nat, 1 <= a, NEW b \in Nat, b <= Len(s)
    PROVE  SubSeq(s \o u, a, b) = SubSeq(s, a, b)
<1> DEFINE t == s \o u
<1>1. t \in Seq(Unit) /\ Len(t) = Len(s) + Len(u) /\ \A x \in 1 .. Len(s) : t[x] = s[x]
  BY ConcatFacts
<1>2. Len(s) \in Nat /\ Len(u) \in Nat
  OBVIOUS
<1> HIDE DEF t
<1>3. CASE a <= b
  <2>1. /\ SubSeq(t, a, b) \in Seq(Unit) /\ Len(SubSeq(t, a, b)) = b - a + 1
        /\ \A x \in 1 .. b - a + 1 : SubSeq(t, a, b)[x] = t[a + x - 1]
    BY <1>1, <1>2, <1>3
  <2>2. /\ SubSeq(s, a, b) \in Seq(Unit) /\ Len(SubSeq(s, a, b)) = b - a + 1
        /\ \A x \in 1 .. b - a + 1 : SubSeq(s, a, b)[x] = s[a + x - 1]
    BY <1>2, <1>3
  <2>3. \A x \in 1 .. b - a + 1 : t[a + x - 1] = s[a + x - 1]
    <3> SUFFICES ASSUME NEW x \in 1 .. b - a + 1 PROVE t[a + x - 1] = s[a + x - 1]
      OBVIOUS
    <3>1. a + x - 1 \in 1 .. Len(s)
      BY <1>2, <1>3
    <3> QED
      BY <1>1, <3>1
  <2> DEFINE v == SubSeq(t, a, b)
             w == SubSeq(s, a, b)
  <2>4. /\ v \in Seq(Unit) /\ w \in Seq(Unit) /\ Len(v) = Len(w)
        /\ \A x \in 1 .. Len(v) : v[x] = w[x]
    BY <2>1, <2>2, <2>3
  <2> HIDE DEF v, w
  <2>5. v = w
    BY <2>4
  <2> QED
    BY <2>5 DEF v, w, t
<1>4. CASE a > b
  <2>1. SubSeq(t, a, b) = <<>> /\ SubSeq(s, a, b) = <<>>
    BY <1>1, <1>4
  <2> QED
    BY <2>1 DEF t
<1> QED
  BY <1>3, <1>4

LEMMA FirstEndStays ==
    ASSUME NEW s \in Seq(Unit), NEW u \in Seq(Unit), NEW p \in Nat, 1 <= p,
           NEW e, FirstEnd(s, p, e)
    PROVE  /\ FirstEnd(s \o u, p, e) /\ e \in Nat /\ p <= e /\ e + 1 <= Len(s)
           /\ SubSeq(s \o u, p, e - 1) = SubSeq(s, p, e - 1)
<1> DEFINE t == s \o u
<1>1. t \in Seq(Unit) /\ Len(t) = Len(s) + Len(u) /\ \A x \in 1 .. Len(s) : t[x] = s[x]
  BY ConcatFacts
<1>2. Len(s) \in Nat /\ Len(u) \in Nat
  OBVIOUS
<1> HIDE DEF t
<1>3. /\ e \in Nat /\ p <= e /\ e + 1 <= Len(s) /\ s[e] = CR /\ s[e + 1] = LF
      /\ \A j \in Ends(s, p) : e <= j
  BY EndsFacts DEF FirstEnd
<1>4. e \in Ends(t, p)
  <2>1. e \in 1 .. Len(s) /\ e + 1 \in 1 .. Len(s) /\ e + 1 <= Len(t)
    BY <1>1, <1>2, <1>3
  <2>2. t[e] = CR /\ t[e + 1] = LF
    BY <1>1, <1>3, <2>1
  <2> QED
    BY <1>1, <1>3, <2>1, <2>2, EndsFacts
<1>5. ASSUME NEW j \in Ends(t, p) PROVE e <= j
  <2>1. j \in Nat /\ p <= j /\ t[j] = CR /\ t[j + 1] = LF
    BY <1>1, EndsFacts
  <2>2. CASE j < e
    <3>1. j \in 1 .. Len(s) /\ j + 1 \in 1 .. Len(s) /\ j + 1 <= Len(s)
      BY <1>2, <1>3, <2>1, <2>2
    <3>2. s[j] = CR /\ s[j + 1] = LF
      BY <1>1, <2>1, <3>1
    <3>3. j \in Ends(s, p)
      BY <2>1, <3>1, <3>2, EndsFacts
    <3> QED
      BY <1>3, <3>3
  <2> QED
    BY <1>3, <2>1, <2>2
<1>6. SubSeq(s \o u, p, e - 1) = SubSeq(s, p, e - 1)
  <2>1. e - 1 \in Nat /\ e - 1 <= Len(s)
    BY <1>2, <1>3
  <2> QED
    BY <2>1, PrefixStays
<1> QED
  BY <1>3, <1>4, <1>5, <1>6 DEF FirstEnd, t

\* HandleLine looks at the stream only for a value.
LEMMA LineNeedsNoMore ==
    ASSUME NEW s, NEW t, NEW c, NEW e, NEW r,
           \/ r.cmd = "unknown"
           \/ r \in Request /\ (r.cmd = "set" => r.key \in Keys \cup {NULL}),
           ~Accepted(r)
    PROVE  HandleLine(t, c, e, r) = HandleLine(s, c, e, r)
<1>1. CASE r.cmd # "set"
  BY <1>1 DEF HandleLine
<1>2. CASE r.cmd = "set"
  <2>1. r.len \in Nat /\ kMaxValueLen \in Nat
    BY <1>2, SessionAssumption DEF Request
  <2>2. ToInt(r.len) \in Int
    BY <2>1, ToIntFacts, SessionAssumption
  <2>3. \/ r.key = NULL \/ ~r.ok \/ ToInt(r.len) < 0
        \/ ToInt(r.len) >= kMaxValueLen
    BY <1>2, <2>1, <2>2 DEF Accepted
  <2> QED
    BY <1>2, <2>3 DEF HandleLine
<1> QED
  BY <1>1, <1>2

LEMMA LineOfAccepted ==
    ASSUME NEW s, NEW c, NEW e, NEW r, Accepted(r)
    PROVE  HandleLine(s, c, e, r) = HandleValue(s, c, e, r.key, ToInt(r.len))
<1>1. /\ r.cmd = "set" /\ r.key # NULL /\ r.ok
      /\ ~(ToInt(r.len) < 0) /\ ~(ToInt(r.len) >= kMaxValueLen)
  BY SessionAssumption DEF Accepted
<1> QED
  BY <1>1 DEF HandleLine
\* A request that is whole is handled the same in every longer stream.
LEMMA WholeStays ==
    ASSUME NEW s \in Seq(Unit), NEW u \in Seq(Unit), NEW c \in RefState,
           Whole(s, c)
    PROVE  Whole(s \o u, c) /\ Handle(s \o u, c) = Handle(s, c)
<1> DEFINE t == s \o u
<1>1. c.pos \in Nat /\ 1 <= c.pos
  BY DEF RefState
<1>2. t \in Seq(Unit) /\ Len(t) = Len(s) + Len(u) /\ Len(s) \in Nat /\ Len(u) \in Nat
  BY ConcatFacts
<1>3. PICK e : /\ FirstEnd(s, c.pos, e)
               /\ LET r == Parse(SubSeq(s, c.pos, e - 1))
                  IN  Accepted(r) => e + ToInt(r.len) + 3 <= Len(s)
  BY DEF Whole
<1> DEFINE r == Parse(SubSeq(s, c.pos, e - 1))
<1>4. /\ FirstEnd(t, c.pos, e) /\ e \in Nat /\ c.pos <= e /\ e + 1 <= Len(s)
      /\ SubSeq(t, c.pos, e - 1) = SubSeq(s, c.pos, e - 1)
  BY <1>1, <1>3, FirstEndStays, SMTT(60)
<1>5. Accepted(r) => e + ToInt(r.len) + 3 <= Len(s)
  BY <1>3
<1>6. SubSeq(s, c.pos, e - 1) \in Seq(Unit)
  <2>1. e - 1 \in Nat /\ e - 1 <= Len(s)
    BY <1>1, <1>2, <1>4
  <2> QED
    BY <1>1, <2>1
<1>7. \/ r.cmd = "unknown"
      \/ r \in Request /\ (r.cmd = "set" => r.key \in Keys \cup {NULL})
  BY <1>6, ParseFacts
<1>8. /\ Handle(s, c) = HandleLine(s, c, e, r)
      /\ Handle(t, c) = HandleLine(t, c, e, r)
  <2> HIDE DEF t
  <2>1. Handle(s, c) = HandleLine(s, c, e, r)
    BY <1>3, HandleAt
  <2>2. Handle(t, c) = HandleLine(t, c, e, Parse(SubSeq(t, c.pos, e - 1)))
    BY <1>2, <1>4, HandleAt
  <2> QED
    BY <1>4, <2>1, <2>2
<1>9. ASSUME Accepted(r)
      PROVE  /\ e + ToInt(r.len) + 3 <= Len(t)
             /\ HandleLine(t, c, e, r) = HandleLine(s, c, e, r)
  <2> DEFINE n == ToInt(r.len)
  <2>1. n \in Nat /\ e + n + 3 <= Len(s)
    BY <1>5, <1>9, SessionAssumption DEF Accepted
  <2> HIDE DEF n
  <2>2. e + n + 3 <= Len(t) /\ ~(Len(s) < e + n + 3) /\ ~(Len(t) < e + n + 3)
    BY <1>2, <1>4, <2>1
  <2>3. /\ SubSeq(t, e + n + 2, e + n + 3) = SubSeq(s, e + n + 2, e + n + 3)
        /\ SubSeq(t, e + 2, e + n + 1) = SubSeq(s, e + 2, e + n + 1)
    <3>1. /\ e + n + 2 \in Nat /\ 1 <= e + n + 2 /\ e + n + 3 \in Nat
          /\ e + 2 \in Nat /\ 1 <= e + 2 /\ e + n + 1 \in Nat
          /\ e + n + 1 <= Len(s) /\ e + n + 3 <= Len(s)
      BY <1>2, <1>4, <2>1
    <3> QED
      BY <3>1, PrefixStays, ZenonT(40)
  <2>4. HandleValue(t, c, e, r.key, n) = HandleValue(s, c, e, r.key, n)
    BY <2>2, <2>3 DEF HandleValue
  <2>5. /\ HandleLine(t, c, e, r) = HandleValue(t, c, e, r.key, n)
        /\ HandleLine(s, c, e, r) = HandleValue(s, c, e, r.key, n)
    BY <1>9, LineOfAccepted DEF n
  <2> QED
    BY <2>2, <2>4, <2>5 DEF n
<1>10. CASE ~Accepted(r)
  <2>1. HandleLine(t, c, e, r) = HandleLine(s, c, e, r)
    <3> HIDE DEF r, t
    <3> QED
      BY <1>7, <1>10, LineNeedsNoMore
  <2>2. Whole(t, c)
    BY <1>4, <1>10 DEF Whole
  <2> QED
    BY <1>8, <2>1, <2>2
<1>11. CASE Accepted(r)
  <2>1. Whole(t, c)
    BY <1>4, <1>9, <1>11 DEF Whole
  <2> QED
    BY <1>8, <1>9, <1>11, <2>1
<1> QED
  BY <1>10, <1>11

LEMMA ChainStays ==
    ASSUME NEW s \in Seq(Unit), NEW u \in Seq(Unit), NEW m, NEW c, Chain(s, m, c)
    PROVE  Chain(s \o u, m, c)
<1>1. /\ m \in Nat /\ c \in [0 .. m -> RefState] /\ c[0] = Start /\ m < c[m].pos
      /\ \A k \in 1 .. m : Whole(s, c[k - 1]) /\ c[k] = Handle(s, c[k - 1])
  BY DEF Chain
<1>2. ASSUME NEW k \in 1 .. m
      PROVE  Whole(s \o u, c[k - 1]) /\ c[k] = Handle(s \o u, c[k - 1])
  <2>1. c[k - 1] \in RefState
    BY <1>1
  <2> QED
    BY <1>1, <2>1, WholeStays
<1> QED
  BY <1>1, <1>2 DEF Chain

LEMMA ChainGrows ==
    ASSUME NEW s, NEW m, NEW c, Chain(s, m, c), Whole(s, c[m]),
           NEW x \in RefState, x = Handle(s, c[m]), c[m].pos < x.pos
    PROVE  \E c2 : Chain(s, m + 1, c2) /\ c2[m + 1] = x
<1>1. /\ m \in Nat /\ c \in [0 .. m -> RefState] /\ c[0] = Start /\ m < c[m].pos
      /\ \A k \in 1 .. m : Whole(s, c[k - 1]) /\ c[k] = Handle(s, c[k - 1])
  BY DEF Chain
<1> DEFINE c2 == [k \in 0 .. m + 1 |-> IF k <= m THEN c[k] ELSE x]
<1>2. /\ c2 \in [0 .. m + 1 -> RefState] /\ c2[m + 1] = x
      /\ \A k \in 0 .. m : c2[k] = c[k]
  BY <1>1
<1> HIDE DEF c2
<1>3. \A k \in 1 .. m + 1 : Whole(s, c2[k - 1]) /\ c2[k] = Handle(s, c2[k - 1])
  <2> SUFFICES ASSUME NEW k \in 1 .. m + 1
               PROVE  Whole(s, c2[k - 1]) /\ c2[k] = Handle(s, c2[k - 1])
    OBVIOUS
  <2>1. CASE k \in 1 .. m
    <3>1. c2[k] = c[k] /\ c2[k - 1] = c[k - 1]
      BY <1>1, <1>2, <2>1
    <3> QED
      BY <1>1, <2>1, <3>1
  <2>2. CASE k = m + 1
    <3>1. k - 1 = m /\ c2[m] = c[m]
      BY <1>1, <1>2, <2>2
    <3> QED
      BY <1>2, <2>2, <3>1
  <2> QED
    BY <1>1, <2>1, <2>2
<1>4. m + 1 < c2[m + 1].pos
  <2>1. c[m] \in RefState
    BY <1>1
  <2>2. c[m].pos \in Nat /\ x.pos \in Nat
    BY <2>1 DEF RefState
  <2> QED
    BY <1>1, <1>2, <2>2
<1>5. c2[0] = Start
  BY <1>1, <1>2
<1> QED
  BY <1>1, <1>2, <1>3, <1>4, <1>5 DEF Chain

\* The reference goes through the chain and stays where the chain ends, if
\* nothing whole is left there.
LEMMA ChainIsReference ==
    ASSUME NEW s \in Seq(Unit), NEW m, NEW c, Chain(s, m, c), m <= Len(s),
           Handle(s, c[m]) = c[m]
    PROVE  Reference(s) = c[m]
<1>1. /\ m \in Nat /\ c \in [0 .. m -> RefState] /\ c[0] = Start
      /\ \A k \in 1 .. m : c[k] = Handle(s, c[k - 1])
  BY DEF Chain
<1> DEFINE N == Len(s)
           g == [k \in 0 .. N |-> IF k <= m THEN c[k] ELSE c[m]]
           Def(f) == f = [k \in 0 .. N |-> IF k = 0 THEN Start ELSE Handle(s, f[k - 1])]
           h == CHOOSE f : Def(f)
<1>2. N \in Nat
  OBVIOUS
<1>3. \A k \in 0 .. N : g[k] = IF k = 0 THEN Start ELSE Handle(s, g[k - 1])
  <2> SUFFICES ASSUME NEW k \in 0 .. N
               PROVE  g[k] = IF k = 0 THEN Start ELSE Handle(s, g[k - 1])
    OBVIOUS
  <2>1. /\ \A j \in 0 .. N : j <= m => g[j] = c[j]
        /\ \A j \in 0 .. N : ~(j <= m) => g[j] = c[m]
    OBVIOUS
  <2> HIDE DEF g
  <2>2. CASE k = 0
    BY <1>1, <1>2, <2>1, <2>2
  <2>3. CASE k # 0 /\ k <= m
    <3>1. k - 1 \in 0 .. N /\ k - 1 <= m /\ k \in 1 .. m
      BY <1>1, <1>2, <2>3
    <3>2. g[k] = c[k] /\ g[k - 1] = c[k - 1]
      BY <2>1, <2>3, <3>1
    <3> QED
      BY <1>1, <2>3, <3>1, <3>2
  <2>4. CASE k # 0 /\ ~(k <= m)
    <3>1. k - 1 \in 0 .. N
      BY <1>2, <2>4
    <3>2. g[k] = c[m]
      BY <2>1, <2>4
    <3>3. g[k - 1] = c[m]
      <4>1. CASE k - 1 <= m
        <5>1. k - 1 = m
          BY <1>1, <1>2, <2>4, <4>1
        <5> QED
          BY <2>1, <3>1, <4>1, <5>1
      <4>2. CASE ~(k - 1 <= m)
        BY <2>1, <3>1, <4>2
      <4> QED
        BY <4>1, <4>2
    <3> QED
      BY <2>4, <3>2, <3>3
  <2> QED
    BY <2>2, <2>3, <2>4
<1>4. Def(g)
  <2> DEFINE g2 == [k \in 0 .. N |-> IF k = 0 THEN Start ELSE Handle(s, g[k - 1])]
  <2>1. \A k \in 0 .. N : g[k] = g2[k]
    BY <1>3
  <2>2. g = [k \in 0 .. N |-> g[k]]
    OBVIOUS
  <2> HIDE DEF g
  <2>3. g2 = [k \in 0 .. N |-> g2[k]]
    OBVIOUS
  <2> HIDE DEF g2
  <2>4. g = g2
    BY <2>1, <2>2, <2>3
  <2> QED
    BY <2>4 DEF g2
<1>5. Def(h)
  BY <1>4, Zenon
<1>6. Reference(s) = h[N]
  BY DEF Reference
<1> HIDE DEF h
<1>7. \A k \in 0 .. N : h[k] = IF k = 0 THEN Start ELSE Handle(s, h[k - 1])
  <2> DEFINE h2 == [k \in 0 .. N |-> IF k = 0 THEN Start ELSE Handle(s, h[k - 1])]
  <2>1. h = h2
    BY <1>5
  <2>2. \A k \in 0 .. N : h2[k] = IF k = 0 THEN Start ELSE Handle(s, h[k - 1])
    OBVIOUS
  <2> HIDE DEF h2
  <2> QED
    BY <2>1, <2>2
<1> HIDE DEF g, N, Def
<1>8. \A k \in 0 .. N : h[k] = g[k]
  <2> DEFINE S == {k \in 0 .. N : h[k] # g[k]}
  <2> SUFFICES S = {}
    OBVIOUS
  <2> SUFFICES ASSUME S # {} PROVE FALSE
    OBVIOUS
  <2>1. PICK k \in S : \A j \in S : k <= j
    <3>1. S \subseteq Nat
      BY <1>2
    <3> HIDE DEF S
    <3> QED
      BY <3>1, LeastNumber
  <2>2. k # 0
    BY <1>2, <1>3, <1>7
  <2>3. k - 1 \in 0 .. N /\ k - 1 \notin S
    <3>1. k \in 0 .. N
      OBVIOUS
    <3>2. k - 1 \in Nat /\ k - 1 <= N /\ ~(k <= k - 1)
      BY <1>2, <2>2, <3>1
    <3> HIDE DEF S
    <3> QED
      BY <1>2, <2>1, <3>2
  <2>4. h[k - 1] = g[k - 1]
    BY <2>3
  <2> QED
    BY <1>3, <1>7, <2>2, <2>4
<1>9. g[N] = c[m]
  <2>1. N \in 0 .. N
    BY <1>2
  <2>2. CASE N = m
    BY <1>1, <1>2, <2>1, <2>2 DEF g
  <2>3. CASE N # m
    <3>1. ~(N <= m)
      BY <1>1, <1>2, <2>3 DEF N
    <3> QED
      BY <2>1, <3>1 DEF g
  <2> QED
    BY <2>2, <2>3
<1> QED
  BY <1>2, <1>6, <1>8, <1>9
LEMMA LeftRead ==
    ASSUME NEW s \in Seq(Unit), NEW d \in Seq(Unit), NEW u \in Seq(Unit),
           NEW q, Left(s, q, d)
    PROVE  Left(s \o u, q, d \o u)
<1>1. /\ q \in Nat /\ q + Len(d) = Len(s)
      /\ \A x \in 1 .. Len(d) : d[x] = s[q + x]
  BY DEF Left
<1>2. Len(s) \in Nat /\ Len(d) \in Nat /\ Len(u) \in Nat
  OBVIOUS
<1> DEFINE s2 == s \o u
           d2 == d \o u
<1>3. /\ Len(s2) = Len(s) + Len(u)
      /\ \A x \in 1 .. Len(s) : s2[x] = s[x]
      /\ \A x \in 1 .. Len(u) : s2[Len(s) + x] = u[x]
  BY ConcatFacts
<1>4. /\ Len(d2) = Len(d) + Len(u)
      /\ \A x \in 1 .. Len(d) : d2[x] = d[x]
      /\ \A x \in 1 .. Len(u) : d2[Len(d) + x] = u[x]
  BY ConcatFacts
<1> HIDE DEF s2, d2
<1>5. /\ q \in Nat /\ q + Len(d) = Len(s)
      /\ Len(d2) = Len(d) + Len(u) /\ Len(s2) = Len(s) + Len(u)
  BY <1>1, <1>3, <1>4
<1>6. q + Len(d2) = Len(s2)
  BY <1>2, <1>5
<1>7. \A x \in 1 .. Len(d2) : d2[x] = s2[q + x]
  <2> SUFFICES ASSUME NEW x \in 1 .. Len(d2) PROVE d2[x] = s2[q + x]
    OBVIOUS
  <2>1. CASE x <= Len(d)
    <3>1. q + x \in 1 .. Len(s) /\ x \in 1 .. Len(d)
      BY <1>2, <1>5, <2>1
    <3> QED
      BY <1>1, <1>3, <1>4, <3>1
  <2>2. CASE x > Len(d)
    <3>1. /\ x - Len(d) \in 1 .. Len(u) /\ Len(d) + (x - Len(d)) = x
          /\ Len(s) + (x - Len(d)) = q + x
      BY <1>2, <1>5, <2>2, SMTT(40)
    <3>2. /\ s2[Len(s) + (x - Len(d))] = u[x - Len(d)]
          /\ d2[Len(d) + (x - Len(d))] = u[x - Len(d)]
      BY <1>3, <1>4, <3>1
    <3> QED
      BY <3>1, <3>2
  <2> QED
    BY <1>2, <1>5, <2>1, <2>2
<1> QED
  BY <1>5, <1>6, <1>7 DEF Left, s2, d2

LEMMA LeftRetrieve ==
    ASSUME NEW s \in Seq(Unit), NEW d \in Seq(Unit), NEW q, Left(s, q, d),
           NEW n \in Nat, n <= Len(d)
    PROVE  Left(s, q + n, SubSeq(d, n + 1, Len(d)))
<1>1. /\ q \in Nat /\ q + Len(d) = Len(s)
      /\ \A x \in 1 .. Len(d) : d[x] = s[q + x]
  BY DEF Left
<1> DEFINE b == SubSeq(d, n + 1, Len(d))
<1>2. Len(b) = Len(d) - n /\ \A x \in 1 .. Len(d) - n : b[x] = d[n + x]
  BY DropFacts
<1> HIDE DEF b
<1>3. /\ q \in Nat /\ q + Len(d) = Len(s) /\ Len(b) = Len(d) - n
      /\ Len(d) \in Nat /\ Len(s) \in Nat
  BY <1>1, <1>2
<1>4. (q + n) + Len(b) = Len(s) /\ q + n \in Nat
  BY <1>3
<1>5. \A x \in 1 .. Len(b) : b[x] = s[(q + n) + x]
  <2> SUFFICES ASSUME NEW x \in 1 .. Len(b) PROVE b[x] = s[(q + n) + x]
    OBVIOUS
  <2>1. /\ n + x \in 1 .. Len(d) /\ x \in 1 .. Len(d) - n
        /\ q + (n + x) = (q + n) + x
    BY <1>3
  <2>2. b[x] = d[n + x] /\ d[n + x] = s[q + (n + x)]
    BY <1>1, <1>2, <2>1
  <2> QED
    BY <2>1, <2>2
<1> QED
  BY <1>4, <1>5 DEF Left, b

\* The provers expand SubSeq; they leave this alone.
Cut(s, a, b) == SubSeq(s, a, b)

LEMMA LeftSub ==
    ASSUME NEW s \in Seq(Unit), NEW d \in Seq(Unit), NEW q, Left(s, q, d),
           NEW a \in Nat, 1 <= a, NEW b \in Nat, b <= Len(d),
           NEW f, f = q + a, NEW g, g = q + b
    PROVE  Cut(s, f, g) = Cut(d, a, b)
<1>1. /\ q \in Nat /\ q + Len(d) = Len(s)
      /\ \A x \in 1 .. Len(d) : d[x] = s[q + x]
  BY DEF Left
<1>2. Len(s) \in Nat /\ Len(d) \in Nat
  OBVIOUS
<1> DEFINE v == SubSeq(s, q + a, q + b)
           w == SubSeq(d, a, b)
<1>3. CASE a <= b
  <2>1. w \in Seq(Unit) /\ Len(w) = b - a + 1
        /\ \A x \in 1 .. b - a + 1 : w[x] = d[a + x - 1]
    BY <1>2, <1>3
  <2>2. v \in Seq(Unit) /\ Len(v) = (q + b) - (q + a) + 1
        /\ \A x \in 1 .. (q + b) - (q + a) + 1 : v[x] = s[(q + a) + x - 1]
    <3>1. q + a \in Nat /\ q + b \in Nat /\ 1 <= q + a /\ q + b <= Len(s)
      BY <1>1, <1>2
    <3>2. \A i, j \in Nat : 1 <= i /\ j <= Len(s) /\ i <= j =>
            /\ SubSeq(s, i, j) \in Seq(Unit) /\ Len(SubSeq(s, i, j)) = j - i + 1
            /\ \A x \in 1 .. j - i + 1 : SubSeq(s, i, j)[x] = s[i + x - 1]
      BY <1>2
    <3>3. q + a <= q + b
      BY <1>1, <1>3
    <3> QED
      BY <3>1, <3>2, <3>3
  <2>3. (q + b) - (q + a) + 1 = b - a + 1
    BY <1>1
  <2>4. \A x \in 1 .. b - a + 1 : d[a + x - 1] = s[(q + a) + x - 1]
    <3> SUFFICES ASSUME NEW x \in 1 .. b - a + 1
                 PROVE  d[a + x - 1] = s[(q + a) + x - 1]
      OBVIOUS
    <3>1. a + x - 1 \in 1 .. Len(d) /\ q + (a + x - 1) = (q + a) + x - 1
      BY <1>1, <1>2
    <3> QED
      BY <1>1, <3>1
  <2> HIDE DEF v, w
  <2>5. /\ v \in Seq(Unit) /\ w \in Seq(Unit) /\ Len(v) = Len(w)
        /\ \A x \in 1 .. Len(v) : v[x] = w[x]
    BY <2>1, <2>2, <2>3, <2>4
  <2>6. v = w
    BY <2>5
  <2> QED
    BY <2>6 DEF v, w, Cut
<1>4. CASE a > b
  <2>1. q + a > q + b /\ q + a \in Nat /\ q + b \in Nat
    BY <1>1, <1>4
  <2>2. w = <<>>
    BY <1>4
  <2>3. v = <<>>
    <3>1. \A i, j \in Nat : i > j => SubSeq(s, i, j) = <<>>
      OBVIOUS
    <3> QED
      BY <2>1, <3>1
  <2> QED
    BY <2>2, <2>3 DEF Cut
<1>5. a <= b \/ a > b
  OBVIOUS
<1> QED
  BY <1>3, <1>4, <1>5, Zenon

\* Line ends of the buffer are line ends of the stream.
LEMMA LeftEnds ==
    ASSUME NEW s \in Seq(Unit), NEW d \in Seq(Unit), NEW q, Left(s, q, d)
    PROVE  /\ \A i \in Nat :
                 i + 2 <= Len(d) /\ d[i + 1] = CR /\ d[i + 2] = LF
                   => q + 1 + i \in Ends(s, q + 1)
           /\ \A e \in Ends(s, q + 1) :
                 \E i \in Nat : /\ e = q + 1 + i /\ i + 2 <= Len(d)
                                /\ d[i + 1] = CR /\ d[i + 2] = LF
<1>1. /\ q \in Nat /\ q + Len(d) = Len(s)
      /\ \A x \in 1 .. Len(d) : d[x] = s[q + x]
  BY DEF Left
<1>2. Len(s) \in Nat /\ Len(d) \in Nat /\ q + 1 \in Nat
  BY <1>1
<1>3. ASSUME NEW i \in Nat, i + 2 <= Len(d)
      PROVE  /\ d[i + 1] = s[q + 1 + i] /\ d[i + 2] = s[(q + 1 + i) + 1]
             /\ q + 1 + i \in Nat /\ q + 1 <= q + 1 + i /\ (q + 1 + i) + 1 <= Len(s)
  <2>1. /\ i + 1 \in 1 .. Len(d) /\ i + 2 \in 1 .. Len(d)
        /\ q + (i + 1) = q + 1 + i /\ q + (i + 2) = (q + 1 + i) + 1
    BY <1>1, <1>2, <1>3
  <2>2. d[i + 1] = s[q + (i + 1)] /\ d[i + 2] = s[q + (i + 2)]
    BY <1>1, <2>1
  <2>3. q + 1 + i \in Nat /\ q + 1 <= q + 1 + i /\ (q + 1 + i) + 1 <= Len(s)
    BY <1>1, <1>2, <1>3
  <2> QED
    BY <2>1, <2>2, <2>3
<1>4. ASSUME NEW e \in Ends(s, q + 1)
      PROVE  \E i \in Nat : /\ e = q + 1 + i /\ i + 2 <= Len(d)
                            /\ d[i + 1] = CR /\ d[i + 2] = LF
  <2>1. e \in Nat /\ q + 1 <= e /\ e + 1 <= Len(s) /\ s[e] = CR /\ s[e + 1] = LF
    BY <1>2, EndsFacts
  <2> DEFINE i == e - (q + 1)
  <2>2. i \in Nat /\ e = q + 1 + i /\ i + 2 <= Len(d)
    BY <1>1, <1>2, <2>1
  <2> HIDE DEF i
  <2>3. d[i + 1] = CR /\ d[i + 2] = LF
    BY <1>3, <2>1, <2>2
  <2> QED
    BY <2>2, <2>3
<1>5. ASSUME NEW i \in Nat, i + 2 <= Len(d), d[i + 1] = CR, d[i + 2] = LF
      PROVE  q + 1 + i \in Ends(s, q + 1)
  BY <1>2, <1>3, <1>5, EndsFacts
<1> QED
  BY <1>4, <1>5
\* The session has done what the chain c does and stands where it ends, or
\* behind the line of a set there.
Track(m, c) ==
    /\ Chain(received, m, c)
    /\ c[m].log = log /\ c[m].items = items /\ c[m].down = down
    /\ \/ /\ receiveState = "kReadCommandLine"
          /\ Left(received, c[m].pos - 1, buf.data)
       \/ /\ receiveState = "kReadValue"
          /\ \E e : /\ FirstEnd(received, c[m].pos, e)
                    /\ LET r == Parse(SubSeq(received, c[m].pos, e - 1))
                       IN  Accepted(r) /\ r.key = curKey /\ ToInt(r.len) = curValueLen
                    /\ Left(received, e + 1, buf.data)

Parsed ==
    /\ received \in Seq(Unit) /\ (alive \/ running)
    /\ alive => \E m, c : Track(m, c)

LEMMA ChainEnd ==
    ASSUME NEW s, NEW m, NEW c, Chain(s, m, c)
    PROVE  /\ m \in Nat /\ c[m] \in RefState /\ c[m].pos \in Nat /\ 1 <= c[m].pos
           /\ c[m].pos - 1 \in Nat /\ (c[m].pos - 1) + 1 = c[m].pos
           /\ m < c[m].pos
<1>1. m \in Nat /\ c \in [0 .. m -> RefState] /\ m < c[m].pos
  BY DEF Chain
<1>2. c[m] \in RefState
  BY <1>1
<1>3. c[m].pos \in Nat /\ 1 <= c[m].pos
  BY <1>2 DEF RefState
<1> QED
  BY <1>1, <1>2, <1>3

\* The line the session finds is the one the reference finds.
LEMMA LineTracked ==
    ASSUME Typed, Kept, received \in Seq(Unit), NEW m, NEW c, Track(m, c),
           NEW r, Line(r)
    PROVE  \E e \in Nat :
              /\ c[m].pos <= e /\ e + 1 <= Len(received)
              /\ FirstEnd(received, c[m].pos, e)
              /\ r = Parse(SubSeq(received, c[m].pos, e - 1))
              /\ Left(received, e + 1, buf'.data)
<1> DEFINE s == received
           d == buf.data
           q == c[m].pos - 1
<1>1. /\ Chain(s, m, c) /\ Left(s, q, d)
  BY DEF Track, Line
<1>2. c[m].pos \in Nat /\ q \in Nat /\ q + 1 = c[m].pos
  BY <1>1, ChainEnd
<1>3. d \in Seq(Unit) /\ Len(d) \in Nat /\ s \in Seq(Unit) /\ Len(s) \in Nat
  BY ServedTypes
<1>4. PICK i \in Nat :
          /\ i \in FindCRLF /\ i \in LineEnds(0) /\ i + 2 <= Len(d)
          /\ r = Parse(SubSeq(d, 1, i))
          /\ buf'.data = SubSeq(d, i + 3, Len(d))
  BY LineFacts DEF Typed
<1>5. \A j \in LineEnds(0) : i <= j
  <2>1. i \in Least(LineEnds(0)) /\ LineEnds(0) \subseteq Nat
    BY <1>4, SearchIsFull, LineEndFacts DEF Kept, Typed
  <2>2. i # NULL
    BY SessionAssumption
  <2> QED
    BY <2>1, <2>2, LeastFacts
<1>6. d[i + 1] = CR /\ d[i + 2] = LF
  BY <1>4, LineEndFacts DEF Typed
<1>7. \A j \in Nat : j + 2 <= Len(d) /\ d[j + 1] = CR /\ d[j + 2] = LF => i <= j
  <2> SUFFICES ASSUME NEW j \in Nat, j + 2 <= Len(d), d[j + 1] = CR, d[j + 2] = LF
               PROVE  i <= j
    OBVIOUS
  <2>1. j \in LineEnds(0)
    BY LineEndFacts DEF Typed
  <2> QED
    BY <1>5, <2>1
<1> HIDE DEF s, d, q
<1> DEFINE e == q + 1 + i
<1>8. FirstEnd(s, q + 1, e)
  <2>1. e \in Ends(s, q + 1)
    BY <1>1, <1>3, <1>4, <1>6, LeftEnds
  <2>2. ASSUME NEW f \in Ends(s, q + 1) PROVE e <= f
    <3>1. PICK j \in Nat : /\ f = q + 1 + j /\ j + 2 <= Len(d)
                           /\ d[j + 1] = CR /\ d[j + 2] = LF
      BY <1>1, <1>3, LeftEnds
    <3>2. i <= j
      BY <1>7, <3>1
    <3> QED
      BY <1>2, <3>1, <3>2
  <2> QED
    BY <2>1, <2>2 DEF FirstEnd
<1>9. /\ e \in Nat /\ q + 1 <= e /\ e + 1 <= Len(s)
      /\ e - 1 = q + i /\ e + 1 = q + (i + 2) /\ i + 3 = (i + 2) + 1
  <2>1. q + Len(d) = Len(s)
    BY <1>1 DEF Left
  <2> QED
    BY <1>2, <1>3, <1>4, <2>1
<1>10. SubSeq(s, q + 1, e - 1) = SubSeq(d, 1, i)
  <2>1. 1 \in Nat /\ 1 <= 1 /\ i <= Len(d)
    BY <1>3, <1>4
  <2>2. SubSeq(s, q + 1, q + i) = SubSeq(d, 1, i)
    <3>1. Cut(s, q + 1, q + i) = Cut(d, 1, i)
      BY <1>1, <1>3, <2>1, LeftSub
    <3> QED
      BY <3>1 DEF Cut
  <2> QED
    BY <1>9, <2>2
<1>11. Left(s, e + 1, buf'.data)
  <2>1. Left(s, q + (i + 2), SubSeq(d, (i + 2) + 1, Len(d)))
    <3>1. i + 2 \in Nat
      OBVIOUS
    <3> QED
      BY <1>1, <1>3, <1>4, <3>1, LeftRetrieve
  <2> QED
    BY <1>4, <1>9, <2>1
<1> HIDE DEF e
<1>12. /\ c[m].pos <= e /\ FirstEnd(s, c[m].pos, e)
       /\ r = Parse(SubSeq(s, c[m].pos, e - 1))
  BY <1>2, <1>4, <1>8, <1>9, <1>10
<1> QED
  BY <1>9, <1>11, <1>12 DEF s

\* The reference takes its next step with the session.
LEMMA StepTracked ==
    ASSUME NEW m, NEW c, Track(m, c), Whole(received, c[m]),
           NEW x \in RefState, x = Handle(received, c[m]), c[m].pos < x.pos,
           received' = received, receiveState' = "kReadCommandLine",
           x.log = log', x.items = items', x.down = down',
           Left(received, x.pos - 1, buf'.data)
    PROVE  \E n, b : Track(n, b)'
<1>1. PICK b : Chain(received, m + 1, b) /\ b[m + 1] = x
  BY ChainGrows DEF Track
<1>2. ASSUME NEW n, n = m + 1
      PROVE  Track(n, b)'
  BY <1>1, <1>2 DEF Track
<1> QED
  BY <1>2
\* Records of the reference.
LEMMA MovedRecord ==
    ASSUME NEW c \in RefState, NEW p
    PROVE  [c EXCEPT !.pos = p]
             = [pos |-> p, items |-> c.items, down |-> c.down, log |-> c.log]
  BY DEF RefState

\* A line that needs no value.
LEMMA PlainLineTracked ==
    ASSUME Typed, Kept, received \in Seq(Unit), NEW m, NEW c, Track(m, c),
           NEW r, Line(r), ~Accepted(r), receiveState' = "kReadCommandLine",
           log' \in Seq(Entry), items' \subseteq Keys, down' \in BOOLEAN,
           \A e \in Nat : HandleLine(received, c[m], e, r)
                            = [pos |-> e + 2, items |-> items', down |-> down',
                               log |-> log']
    PROVE  \E n, b : Track(n, b)'
<1>1. PICK e \in Nat :
          /\ c[m].pos <= e
          /\ FirstEnd(received, c[m].pos, e)
          /\ r = Parse(SubSeq(received, c[m].pos, e - 1))
          /\ Left(received, e + 1, buf'.data)
  BY LineTracked
<1> DEFINE x == [pos |-> e + 2, items |-> items', down |-> down', log |-> log']
<1>2. c[m] \in RefState /\ c[m].pos \in Nat
  BY ChainEnd DEF Track
<1>3. /\ x \in RefState /\ x.pos = e + 2 /\ x.log = log' /\ x.items = items'
      /\ x.down = down'
  <2>1. e + 2 \in Nat \ {0} /\ items' \in SUBSET Keys
    OBVIOUS
  <2> QED
    BY <2>1 DEF RefState
<1>4. x = Handle(received, c[m])
  <2>1. Handle(received, c[m]) = HandleLine(received, c[m], e, r)
    BY <1>1, <1>2, HandleAt
  <2> QED
    BY <2>1
<1>5. Whole(received, c[m])
  BY <1>1 DEF Whole
<1> HIDE DEF x
<1>6. c[m].pos < x.pos /\ x.pos - 1 = e + 1
  BY <1>1, <1>2, <1>3
<1>7. received' = received
  BY DEF Line
<1> QED
  BY <1>1, <1>3, <1>4, <1>5, <1>6, <1>7, StepTracked

LEMMA UnknownCommandParsed ==
    ASSUME Typed, Kept, Parsed, NEW r, UnknownCommand(r), Typed'
    PROVE  Parsed'
<1>1. /\ Line(r) /\ alive /\ received \in Seq(Unit) /\ received' = received
      /\ receiveState' = "kReadCommandLine" /\ alive' = alive
  BY DEF UnknownCommand, Line, Parsed
<1>2. PICK m, c : Track(m, c)
  BY <1>1 DEF Parsed
<1>3. /\ c[m] \in RefState
      /\ c[m].log = log /\ c[m].items = items /\ c[m].down = down
  BY <1>2, ChainEnd DEF Track
<1>4. log' \in Seq(Entry) /\ items' \subseteq Keys /\ down' \in BOOLEAN
  BY DEF Typed, Types
<1>5. ~Accepted(r)
  BY DEF UnknownCommand, Accepted
<1>6. ASSUME NEW e \in Nat
      PROVE  HandleLine(received, c[m], e, r) =
               [pos |-> e + 2, items |-> items', down |-> down', log |-> log']
  <2>1. HandleLine(received, c[m], e, r) = [c[m] EXCEPT !.pos = e + 2]
    BY DEF UnknownCommand, HandleLine
  <2>3. [c[m] EXCEPT !.pos = e + 2]
          = [pos |-> e + 2, items |-> c[m].items, down |-> c[m].down,
             log |-> c[m].log]
    BY <1>3, MovedRecord
  <2> QED
    BY <1>3, <2>1, <2>3 DEF UnknownCommand
<1>7. \E n, b : Track(n, b)'
  BY <1>1, <1>2, <1>4, <1>5, <1>6, PlainLineTracked
<1> QED
  BY <1>1, <1>7 DEF Parsed

LEMMA QuitCommandParsed ==
    ASSUME Typed, Kept, Parsed, NEW r, QuitCommand(r), Typed'
    PROVE  Parsed'
<1>1. /\ Line(r) /\ alive /\ received \in Seq(Unit) /\ received' = received
      /\ receiveState' = "kReadCommandLine" /\ alive' = alive
  BY DEF QuitCommand, Line, Parsed
<1>2. PICK m, c : Track(m, c)
  BY <1>1 DEF Parsed
<1>3. /\ c[m] \in RefState
      /\ c[m].log = log /\ c[m].items = items /\ c[m].down = down
  BY <1>2, ChainEnd DEF Track
<1>4. log' \in Seq(Entry) /\ items' \subseteq Keys /\ down' \in BOOLEAN
  BY DEF Typed, Types
<1>5. ~Accepted(r)
  BY DEF QuitCommand, Accepted
<1>6. ASSUME NEW e \in Nat
      PROVE  HandleLine(received, c[m], e, r) =
               [pos |-> e + 2, items |-> items', down |-> down', log |-> log']
  <2>1. HandleLine(received, c[m], e, r)
          = [pos |-> e + 2, items |-> c[m].items, down |-> TRUE,
             log |-> Entered(c[m], "quit", NULL, <<>>)]
    BY DEF QuitCommand, HandleLine
  <2> DEFINE v == [op |-> "quit", key |-> NULL, data |-> <<>>, told |-> ~c[m].down]
  <2>3. Entered(c[m], "quit", NULL, <<>>) = Append(c[m].log, v)
    BY DEF Entered
  <2>4. log' = Append(c[m].log, v)
    BY <1>3 DEF QuitCommand, Did
  <2>6. HandleLine(received, c[m], e, r)
          = [pos |-> e + 2, items |-> c[m].items, down |-> TRUE, log |-> log']
    <3> HIDE DEF v
    <3> QED
      BY <2>1, <2>3, <2>4
  <2> QED
    BY <1>3, <2>6 DEF QuitCommand
<1>7. \E n, b : Track(n, b)'
  BY <1>1, <1>2, <1>4, <1>5, <1>6, PlainLineTracked
<1> QED
  BY <1>1, <1>7 DEF Parsed

LEMMA DoGetErrorParsed ==
    ASSUME Typed, Kept, Parsed, NEW r, DoGetError(r), Typed'
    PROVE  Parsed'
<1>1. /\ Line(r) /\ alive /\ received \in Seq(Unit) /\ received' = received
      /\ receiveState' = "kReadCommandLine" /\ alive' = alive
  BY DEF DoGetError, Line, Parsed
<1>2. PICK m, c : Track(m, c)
  BY <1>1 DEF Parsed
<1>3. /\ c[m] \in RefState
      /\ c[m].log = log /\ c[m].items = items /\ c[m].down = down
  BY <1>2, ChainEnd DEF Track
<1>4. log' \in Seq(Entry) /\ items' \subseteq Keys /\ down' \in BOOLEAN
  BY DEF Typed, Types
<1>5. ~Accepted(r)
  BY DEF DoGetError, Accepted
<1>6. ASSUME NEW e \in Nat
      PROVE  HandleLine(received, c[m], e, r) =
               [pos |-> e + 2, items |-> items', down |-> down', log |-> log']
  <2>1. HandleLine(received, c[m], e, r)
          = Answered(c[m], "CLIENT_ERROR", NULL, e)
    BY DEF DoGetError, HandleLine
  <2> DEFINE v == [op |-> "CLIENT_ERROR", key |-> NULL, data |-> <<>>, told |-> ~c[m].down]
  <2>3. Answered(c[m], "CLIENT_ERROR", NULL, e)
          = [pos |-> e + 2, items |-> c[m].items, down |-> c[m].down,
             log |-> Append(c[m].log, v)]
    BY DEF Answered, Entered
  <2>4. log' = Append(c[m].log, v)
    BY <1>3 DEF DoGetError, Did
  <2> QED
    BY <1>3, <2>1, <2>3, <2>4 DEF DoGetError
<1>7. \E n, b : Track(n, b)'
  BY <1>1, <1>2, <1>4, <1>5, <1>6, PlainLineTracked
<1> QED
  BY <1>1, <1>7 DEF Parsed

LEMMA DoGetParsed ==
    ASSUME Typed, Kept, Parsed, NEW r, DoGet(r), Typed'
    PROVE  Parsed'
<1>1. /\ Line(r) /\ alive /\ received \in Seq(Unit) /\ received' = received
      /\ receiveState' = "kReadCommandLine" /\ alive' = alive
  BY DEF DoGet, Line, Parsed
<1>2. PICK m, c : Track(m, c)
  BY <1>1 DEF Parsed
<1>3. /\ c[m] \in RefState
      /\ c[m].log = log /\ c[m].items = items /\ c[m].down = down
  BY <1>2, ChainEnd DEF Track
<1>4. log' \in Seq(Entry) /\ items' \subseteq Keys /\ down' \in BOOLEAN
  BY DEF Typed, Types
<1>5. ~Accepted(r)
  BY DEF DoGet, Accepted
<1>6. ASSUME NEW e \in Nat
      PROVE  HandleLine(received, c[m], e, r) =
               [pos |-> e + 2, items |-> items', down |-> down', log |-> log']
  <2>1. HandleLine(received, c[m], e, r)
          = Answered(c[m], "get", r.key, e)
    <3>1. r.cmd = "get" /\ r.key \in c[m].items /\ r.key # NULL
      BY <1>3, SessionAssumption DEF DoGet, Typed, Types
    <3> QED
      BY <3>1 DEF HandleLine
  <2> DEFINE v == [op |-> "get", key |-> r.key, data |-> <<>>, told |-> ~c[m].down]
  <2>3. Answered(c[m], "get", r.key, e)
          = [pos |-> e + 2, items |-> c[m].items, down |-> c[m].down,
             log |-> Append(c[m].log, v)]
    BY DEF Answered, Entered
  <2>4. log' = Append(c[m].log, v)
    BY <1>3 DEF DoGet, Did
  <2> QED
    BY <1>3, <2>1, <2>3, <2>4 DEF DoGet
<1>7. \E n, b : Track(n, b)'
  BY <1>1, <1>2, <1>4, <1>5, <1>6, PlainLineTracked
<1> QED
  BY <1>1, <1>7 DEF Parsed

LEMMA DoUpdateErrorParsed ==
    ASSUME Typed, Kept, Parsed, NEW r, DoUpdateError(r), Typed'
    PROVE  Parsed'
<1>1. /\ Line(r) /\ alive /\ received \in Seq(Unit) /\ received' = received
      /\ receiveState' = "kReadCommandLine" /\ alive' = alive
  BY DEF DoUpdateError, Line, Parsed
<1>2. PICK m, c : Track(m, c)
  BY <1>1 DEF Parsed
<1>3. /\ c[m] \in RefState
      /\ c[m].log = log /\ c[m].items = items /\ c[m].down = down
  BY <1>2, ChainEnd DEF Track
<1>4. log' \in Seq(Entry) /\ items' \subseteq Keys /\ down' \in BOOLEAN
  BY DEF Typed, Types
<1>5. ~Accepted(r)
  BY SessionAssumption DEF DoUpdateError, Accepted
<1>6. ASSUME NEW e \in Nat
      PROVE  HandleLine(received, c[m], e, r) =
               [pos |-> e + 2, items |-> items', down |-> down', log |-> log']
  <2>1. HandleLine(received, c[m], e, r)
          = Answered(c[m], "CLIENT_ERROR", NULL, e)
    BY DEF DoUpdateError, HandleLine
  <2> DEFINE v == [op |-> "CLIENT_ERROR", key |-> NULL, data |-> <<>>, told |-> ~c[m].down]
  <2>3. Answered(c[m], "CLIENT_ERROR", NULL, e)
          = [pos |-> e + 2, items |-> c[m].items, down |-> c[m].down,
             log |-> Append(c[m].log, v)]
    BY DEF Answered, Entered
  <2>4. log' = Append(c[m].log, v)
    BY <1>3 DEF DoUpdateError, Did
  <2> QED
    BY <1>3, <2>1, <2>3, <2>4 DEF DoUpdateError
<1>7. \E n, b : Track(n, b)'
  BY <1>1, <1>2, <1>4, <1>5, <1>6, PlainLineTracked
<1> QED
  BY <1>1, <1>7 DEF Parsed

LEMMA DoUpdateTooLargeParsed ==
    ASSUME Typed, Kept, Parsed, NEW r, DoUpdateTooLarge(r), Typed'
    PROVE  Parsed'
<1>1. /\ Line(r) /\ alive /\ received \in Seq(Unit) /\ received' = received
      /\ receiveState' = "kReadCommandLine" /\ alive' = alive
  BY DEF DoUpdateTooLarge, Line, Parsed
<1>2. PICK m, c : Track(m, c)
  BY <1>1 DEF Parsed
<1>3. /\ c[m] \in RefState
      /\ c[m].log = log /\ c[m].items = items /\ c[m].down = down
  BY <1>2, ChainEnd DEF Track
<1>4. log' \in Seq(Entry) /\ items' \subseteq Keys /\ down' \in BOOLEAN
  BY DEF Typed, Types
<1>5. ~Accepted(r)
  BY SessionAssumption DEF DoUpdateTooLarge, Accepted
<1>6. ASSUME NEW e \in Nat
      PROVE  HandleLine(received, c[m], e, r) =
               [pos |-> e + 2, items |-> items', down |-> down', log |-> log']
  <2>0. ~(ToInt(r.len) < 0)
    <3>1. r.len \in Nat
      BY <1>1, LineTypes DEF DoUpdateTooLarge, Typed, Request
    <3> QED
      BY <3>1, ToIntFacts, SessionAssumption DEF DoUpdateTooLarge
  <2>1. HandleLine(received, c[m], e, r)
          = Answered(c[m], "SERVER_ERROR", NULL, e)
    BY <2>0 DEF DoUpdateTooLarge, HandleLine
  <2> DEFINE v == [op |-> "SERVER_ERROR", key |-> NULL, data |-> <<>>, told |-> ~c[m].down]
  <2>3. Answered(c[m], "SERVER_ERROR", NULL, e)
          = [pos |-> e + 2, items |-> c[m].items, down |-> c[m].down,
             log |-> Append(c[m].log, v)]
    BY DEF Answered, Entered
  <2>4. log' = Append(c[m].log, v)
    BY <1>3 DEF DoUpdateTooLarge, Did
  <2> QED
    BY <1>3, <2>1, <2>3, <2>4 DEF DoUpdateTooLarge
<1>7. \E n, b : Track(n, b)'
  BY <1>1, <1>2, <1>4, <1>5, <1>6, PlainLineTracked
<1> QED
  BY <1>1, <1>7 DEF Parsed
LEMMA DoGetMissingParsed ==
    ASSUME Parsed, NEW r, DoGetMissing(r)
    PROVE  Parsed'
  BY DEF Parsed, DoGetMissing, Line

\* A set that is accepted: the reference stays before its line.
LEMMA DoUpdateParsed ==
    ASSUME Typed, Kept, Parsed, NEW r, DoUpdate(r)
    PROVE  Parsed'
<1>1. /\ Line(r) /\ alive /\ received \in Seq(Unit) /\ received' = received
      /\ receiveState' = "kReadValue" /\ alive' = alive
      /\ UNCHANGED <<items, down, log>>
      /\ curKey' = r.key /\ curValueLen' = ToInt(r.len)
  BY DEF DoUpdate, Line, Parsed
<1>2. PICK m, c : Track(m, c)
  BY <1>1 DEF Parsed
<1>3. PICK e \in Nat :
          /\ FirstEnd(received, c[m].pos, e)
          /\ r = Parse(SubSeq(received, c[m].pos, e - 1))
          /\ Left(received, e + 1, buf'.data)
  BY <1>1, <1>2, LineTracked
<1>4. Accepted(r)
  BY DEF DoUpdate, Accepted
<1>5. Track(m, c)'
  BY <1>1, <1>2, <1>3, <1>4 DEF Track
<1> QED
  BY <1>1, <1>5 DEF Parsed

\* The value the session has is the one the reference looks for.
LEMMA ValueTracked ==
    ASSUME Typed, Kept, received \in Seq(Unit), NEW m, NEW c, Track(m, c),
           running, receiveState = "kReadValue", HasValue,
           buf' = Retrieve(curValueLen + 2), UNCHANGED <<received, down>>,
           receiveState' = "kReadCommandLine",
           log' \in Seq(Entry), items' \subseteq Keys,
           \/ /\ SubSeq(buf.data, curValueLen + 1, curValueLen + 2) = CRLF
              /\ items' = items \cup {curKey}
              /\ Did("set", curKey, SubSeq(buf.data, 1, curValueLen))
           \/ /\ SubSeq(buf.data, curValueLen + 1, curValueLen + 2) # CRLF
              /\ items' = items /\ log' = log
    PROVE  \E n, b : Track(n, b)'
<1> DEFINE s == received
           d == buf.data
           v == curValueLen
<1>1. /\ Chain(s, m, c) /\ c[m].log = log /\ c[m].items = items
      /\ c[m].down = down /\ c[m] \in RefState /\ c[m].pos \in Nat /\ 1 <= c[m].pos
  BY ChainEnd DEF Track
<1>2. PICK e : /\ FirstEnd(s, c[m].pos, e)
               /\ LET r == Parse(SubSeq(s, c[m].pos, e - 1))
                  IN  Accepted(r) /\ r.key = curKey /\ ToInt(r.len) = v
               /\ Left(s, e + 1, d)
  BY DEF Track
<1>3. /\ v \in Nat /\ v + 2 <= Len(d) /\ buf'.data = SubSeq(d, v + 3, Len(d))
      /\ d \in Seq(Unit) /\ Len(d) \in Nat /\ s \in Seq(Unit) /\ Len(s) \in Nat
  BY ValueFacts, ServedTypes, SMTT(40)
<1> DEFINE r == Parse(SubSeq(s, c[m].pos, e - 1))
<1>4. Accepted(r) /\ r.key = curKey /\ ToInt(r.len) = v
  BY <1>2
<1>5. e \in Nat /\ c[m].pos <= e
  BY <1>1, <1>2, <1>3, EndsFacts DEF FirstEnd
<1>6. /\ (e + 1) + Len(d) = Len(s) /\ ~(Len(s) < e + v + 3)
      /\ e + v + 3 <= Len(s)
  <2>1. (e + 1) + Len(d) = Len(s)
    BY <1>2 DEF Left
  <2>2. v \in Nat /\ v + 2 <= Len(d) /\ Len(d) \in Nat /\ Len(s) \in Nat
    BY <1>3
  <2> HIDE DEF s, d, v
  <2> QED
    BY <1>5, <2>1, <2>2
<1>7. /\ SubSeq(s, e + v + 2, e + v + 3) = SubSeq(d, v + 1, v + 2)
      /\ SubSeq(s, e + 2, e + v + 1) = SubSeq(d, 1, v)
  <2> HIDE DEF s, d, v
  <2>1. /\ v + 1 \in Nat /\ 1 <= v + 1 /\ v + 2 \in Nat /\ v <= Len(d)
        /\ 1 \in Nat /\ 1 <= 1
        /\ e + v + 2 = (e + 1) + (v + 1) /\ e + v + 3 = (e + 1) + (v + 2)
        /\ e + 2 = (e + 1) + 1 /\ e + v + 1 = (e + 1) + v
    BY <1>3, <1>5
  <2>2. Left(s, e + 1, d)
    BY <1>2
  <2>3. Cut(s, e + v + 2, e + v + 3) = Cut(d, v + 1, v + 2)
    BY <1>3, <2>1, <2>2, LeftSub
  <2>4. Cut(s, e + 2, e + v + 1) = Cut(d, 1, v)
    BY <1>3, <2>1, <2>2, LeftSub
  <2> QED
    BY <2>3, <2>4 DEF Cut
<1>8. Left(s, e + v + 3, buf'.data)
  <2> HIDE DEF s, d, v
  <2>1. v + 2 \in Nat /\ (e + 1) + (v + 2) = e + v + 3 /\ (v + 2) + 1 = v + 3
    BY <1>3, <1>5
  <2>2. Left(s, e + 1, d)
    BY <1>2
  <2>3. Left(s, (e + 1) + (v + 2), SubSeq(d, (v + 2) + 1, Len(d)))
    BY <1>3, <2>1, <2>2, LeftRetrieve
  <2> QED
    BY <1>3, <2>1, <2>3
<1>9. Handle(s, c[m]) = HandleValue(s, c[m], e, curKey, v)
  <2>1. Handle(s, c[m]) = HandleLine(s, c[m], e, r)
    BY <1>1, <1>2, <1>3, HandleAt
  <2>2. HandleLine(s, c[m], e, r) = HandleValue(s, c[m], e, r.key, ToInt(r.len))
    <3> HIDE DEF r
    <3> QED
      BY <1>4, LineOfAccepted
  <2> QED
    BY <1>4, <2>1, <2>2
<1>10. Whole(s, c[m])
  BY <1>2, <1>4, <1>6 DEF Whole
<1> DEFINE x == [pos |-> e + v + 4, items |-> items', down |-> down', log |-> log']
<1>11. x = Handle(s, c[m])
  <2>1. CASE SubSeq(d, v + 1, v + 2) = CRLF
    <3>1. HandleValue(s, c[m], e, curKey, v)
            = [pos |-> e + v + 4, items |-> c[m].items \cup {curKey},
               down |-> c[m].down,
               log |-> Entered(c[m], "set", curKey, SubSeq(d, 1, v))]
      BY <1>6, <1>7, <2>1 DEF HandleValue
    <3>2. Entered(c[m], "set", curKey, SubSeq(d, 1, v)) = log'
      BY <1>1, <2>1 DEF Entered, Did
    <3>3. items' = c[m].items \cup {curKey} /\ down' = c[m].down
      BY <1>1, <2>1
    <3> QED
      BY <1>9, <3>1, <3>2, <3>3
  <2>2. CASE SubSeq(d, v + 1, v + 2) # CRLF
    <3>1. HandleValue(s, c[m], e, curKey, v) = [c[m] EXCEPT !.pos = e + v + 4]
      BY <1>6, <1>7, <2>2 DEF HandleValue
    <3>2. [c[m] EXCEPT !.pos = e + v + 4]
            = [pos |-> e + v + 4, items |-> c[m].items, down |-> c[m].down,
               log |-> c[m].log]
      BY <1>1, MovedRecord
    <3>3. items' = c[m].items /\ down' = c[m].down /\ log' = c[m].log
      BY <1>1, <2>2
    <3> QED
      BY <1>9, <3>1, <3>2, <3>3
  <2> QED
    BY <2>1, <2>2
<1>12. /\ x \in RefState /\ x.pos = e + v + 4 /\ x.log = log' /\ x.items = items'
       /\ x.down = down'
  <2>1. e + v + 4 \in Nat \ {0} /\ items' \in SUBSET Keys
    BY <1>3, <1>5
  <2>2. down' \in BOOLEAN
    BY DEF Typed, Types
  <2> QED
    BY <2>1, <2>2 DEF RefState
<1>13. c[m].pos < x.pos /\ x.pos - 1 = e + v + 3
  BY <1>1, <1>3, <1>5, <1>12
<1> HIDE DEF x
<1> QED
  BY <1>8, <1>10, <1>11, <1>12, <1>13, StepTracked

LEMMA ValueParsed ==
    ASSUME Typed, Kept, Parsed, StoreValue \/ DropValue, Typed'
    PROVE  Parsed'
<1>1. /\ alive /\ running /\ receiveState = "kReadValue" /\ HasValue
      /\ buf' = Retrieve(curValueLen + 2) /\ UNCHANGED <<received, down>>
      /\ receiveState' = "kReadCommandLine" /\ alive' = alive
      /\ received \in Seq(Unit) /\ running' = running
  BY DEF StoreValue, DropValue, Parsed
<1>2. log' \in Seq(Entry) /\ items' \subseteq Keys
  BY DEF Typed, Types
<1>3. \/ /\ SubSeq(buf.data, curValueLen + 1, curValueLen + 2) = CRLF
         /\ items' = items \cup {curKey}
         /\ Did("set", curKey, SubSeq(buf.data, 1, curValueLen))
      \/ /\ SubSeq(buf.data, curValueLen + 1, curValueLen + 2) # CRLF
         /\ items' = items /\ log' = log
  BY DEF StoreValue, DropValue
<1>4. PICK m, c : Track(m, c)
  BY <1>1 DEF Parsed
<1>5. \E n, b : Track(n, b)'
  BY <1>1, <1>2, <1>3, <1>4, ValueTracked
<1> QED
  BY <1>1, <1>5 DEF Parsed

\* Steps that do nothing to what was received.
LEMMA WaitParsed ==
    ASSUME Parsed, UNCHANGED <<received, buf, receiveState, curKey, curValueLen,
                               items, down, log, alive>>,
           alive \/ running'
    PROVE  Parsed'
<1>1. \A m, c : Track(m, c) => Track(m, c)'
  BY DEF Track
<1> QED
  BY <1>1 DEF Parsed

LEMMA ReadParsed ==
    ASSUME Typed, Parsed, Read
    PROVE  Parsed'
<1>1. PICK n \in 1 .. Len(wire) :
          /\ buf' \in ReadFd(SubSeq(wire, 1, n))
          /\ received' = received \o SubSeq(wire, 1, n)
  BY DEF Read
<1> DEFINE u == SubSeq(wire, 1, n)
<1>2. /\ UNCHANGED <<receiveState, curKey, curValueLen, items, down, log, alive>>
      /\ alive /\ running' = TRUE
  BY DEF Read
<1>3. /\ wire \in Seq(Unit) /\ Len(wire) \in Nat /\ buf.data \in Seq(Unit)
      /\ received \in Seq(Unit)
  BY ServedTypes DEF Parsed
<1>4. u \in Seq(Unit)
  BY <1>1, <1>3
<1> HIDE DEF u
<1>5. received' = received \o u /\ buf'.data = buf.data \o u
  <2>1. buf' \in ReadFd(u) /\ received' = received \o u
    BY <1>1 DEF u
  <2> QED
    BY <1>4, <2>1, ReadFdFacts DEF Typed
<1>6. received' \in Seq(Unit)
  BY <1>3, <1>4, <1>5
<1>7. PICK m, c : Track(m, c)
  BY <1>2 DEF Parsed
<1>8. Chain(received', m, c)
  BY <1>3, <1>4, <1>5, <1>7, ChainStays DEF Track
<1>9. \A q : Left(received, q, buf.data) => Left(received', q, buf'.data)
  BY <1>3, <1>4, <1>5, LeftRead
<1>10. c[m].pos \in Nat /\ 1 <= c[m].pos
  BY <1>8, ChainEnd
<1>11. ASSUME NEW e, FirstEnd(received, c[m].pos, e)
       PROVE  /\ FirstEnd(received', c[m].pos, e)
              /\ SubSeq(received', c[m].pos, e - 1)
                   = SubSeq(received, c[m].pos, e - 1)
  <2> DEFINE p == c[m].pos
  <2>1. p \in Nat /\ 1 <= p /\ FirstEnd(received, p, e)
    BY <1>10, <1>11
  <2> HIDE DEF p
  <2>2. /\ FirstEnd(received \o u, p, e)
        /\ SubSeq(received \o u, p, e - 1) = SubSeq(received, p, e - 1)
    BY <1>3, <1>4, <2>1, FirstEndStays
  <2> QED
    BY <1>5, <2>2 DEF p
<1>12. Track(m, c)'
  <2>1. CASE receiveState = "kReadCommandLine"
    BY <1>2, <1>7, <1>8, <1>9, <2>1 DEF Track
  <2>2. CASE receiveState = "kReadValue"
    <3>1. PICK e : /\ FirstEnd(received, c[m].pos, e)
                   /\ LET r == Parse(SubSeq(received, c[m].pos, e - 1))
                      IN  Accepted(r) /\ r.key = curKey /\ ToInt(r.len) = curValueLen
                   /\ Left(received, e + 1, buf.data)
      BY <1>7, <2>2 DEF Track
    <3>2. /\ FirstEnd(received', c[m].pos, e)
          /\ LET r == Parse(SubSeq(received', c[m].pos, e - 1))
             IN  Accepted(r) /\ r.key = curKey' /\ ToInt(r.len) = curValueLen'
          /\ Left(received', e + 1, buf'.data)
      BY <1>2, <1>9, <1>11, <3>1
    <3> QED
      BY <1>2, <1>7, <1>8, <2>2, <3>2 DEF Track
  <2> QED
    BY <1>7, <2>1, <2>2 DEF Track
<1> QED
  BY <1>2, <1>6, <1>12 DEF Parsed

LEMMA InitParsed == Init => Parsed
<1> SUFFICES ASSUME Init PROVE Parsed
  OBVIOUS
<1>1. Start \in RefState /\ Start.pos = 1 /\ Start.log = <<>>
      /\ Start.items = Present /\ Start.down = FALSE
  BY SessionAssumption DEF Start, RefState
<1> DEFINE c == [k \in {0} |-> Start]
<1>2. c \in [0 .. 0 -> RefState] /\ c[0] = Start
  BY <1>1
<1> HIDE DEF c
<1>3. Chain(<<>>, 0, c)
  <2>1. 0 < c[0].pos /\ 1 .. 0 = {}
    BY <1>1, <1>2
  <2> QED
    BY <1>2, <2>1 DEF Chain
<1>4. Left(<<>>, 0, <<>>) /\ c[0].pos - 1 = 0
  <2>1. Len(<<>>) = 0 /\ 1 .. 0 = {} /\ 0 + 0 = 0
    OBVIOUS
  <2> QED
    BY <1>1, <1>2, <2>1 DEF Left
<1>5. Track(0, c)
  BY <1>1, <1>2, <1>3, <1>4 DEF Init, Track
<1>6. received \in Seq(Unit)
  BY DEF Init
<1> QED
  BY <1>5, <1>6 DEF Init, Parsed

LEMMA NextParsed == Typed /\ Kept /\ Parsed /\ [Next]_vars => Parsed'
<1> SUFFICES ASSUME Typed, Kept, Parsed, [Next]_vars PROVE Parsed'
  OBVIOUS
<1>1. Typed'
  BY NextTyped
<1>2. CASE UNCHANGED vars
  BY <1>2, WaitParsed DEF vars, Parsed
<1>3. CASE \E r \in Requests : ClientWrite(r)
  BY <1>3, WaitParsed DEF ClientWrite
<1>4. CASE NoLine
  BY <1>4, WaitParsed DEF NoLine
<1>5. CASE AwaitValue
  BY <1>5, WaitParsed DEF AwaitValue
<1>6. ASSUME NEW r,
             \/ UnknownCommand(r) \/ QuitCommand(r) \/ DoGetError(r)
             \/ DoGet(r) \/ DoGetMissing(r) \/ DoUpdateError(r)
             \/ DoUpdateTooLarge(r) \/ DoUpdate(r)
      PROVE  Parsed'
  BY <1>1, <1>6, UnknownCommandParsed, QuitCommandParsed, DoGetErrorParsed,
     DoGetParsed, DoGetMissingParsed, DoUpdateErrorParsed, DoUpdateTooLargeParsed,
     DoUpdateParsed
<1> QED
  BY <1>1, <1>2, <1>3, <1>4, <1>5, <1>6, StepCases, ReadParsed, ValueParsed

\* Between two calls of onMessage the reference cannot go on from where the
\* session is.
LEMMA NothingWholeLeft ==
    ASSUME Typed, Kept, received \in Seq(Unit), alive, ~running,
           NEW m, NEW c, Track(m, c)
    PROVE  Handle(received, c[m]) = c[m] /\ m <= Len(received)
<1> DEFINE s == received
           d == buf.data
           v == curValueLen
<1>1. /\ Chain(s, m, c) /\ m \in Nat /\ c[m] \in RefState /\ c[m].pos \in Nat
      /\ c[m].pos - 1 \in Nat /\ (c[m].pos - 1) + 1 = c[m].pos /\ m < c[m].pos
  BY ChainEnd DEF Track
<1>2. d \in Seq(Unit) /\ Len(d) \in Nat /\ s \in Seq(Unit) /\ Len(s) \in Nat
  BY ServedTypes
<1>3. CASE receiveState = "kReadCommandLine"
  <2>1. Left(s, c[m].pos - 1, d)
    BY <1>3 DEF Track
  <2>2. LineEnds(0) = {}
    BY <1>3 DEF Kept, Consumed
  <2>3. ~\E i \in Nat : i + 2 <= Len(d) /\ d[i + 1] = CR /\ d[i + 2] = LF
    <3> SUFFICES ASSUME NEW i \in Nat, i + 2 <= Len(d), d[i + 1] = CR, d[i + 2] = LF
                 PROVE  FALSE
      OBVIOUS
    <3>1. i \in LineEnds(0)
      BY LineEndFacts DEF Typed
    <3> QED
      BY <2>2, <3>1
  <2> DEFINE q == c[m].pos - 1
  <2>4. Left(s, q, d) /\ q + 1 = c[m].pos /\ q \in Nat
    BY <1>1, <2>1
  <2> HIDE DEF s, d, q
  <2>5. Ends(s, q + 1) = {}
    <3> SUFFICES ASSUME NEW e \in Ends(s, q + 1) PROVE FALSE
      OBVIOUS
    <3>1. \E i \in Nat : /\ e = q + 1 + i /\ i + 2 <= Len(d)
                         /\ d[i + 1] = CR /\ d[i + 2] = LF
      <4>1. Left(s, q, d) /\ s \in Seq(Unit) /\ d \in Seq(Unit)
        BY <1>2, <2>4
      <4> QED
        BY <4>1, LeftEnds
    <3> QED
      BY <2>3, <3>1
  <2>6. Handle(s, c[m]) = c[m]
    BY <2>4, <2>5 DEF Handle
  <2>7. m <= Len(s)
    <3>1. q + Len(d) = Len(s)
      BY <2>4 DEF Left
    <3> QED
      BY <1>1, <1>2, <2>4, <3>1
  <2> QED
    BY <2>6, <2>7 DEF s
<1>4. CASE receiveState = "kReadValue"
  <2>1. PICK e : /\ FirstEnd(s, c[m].pos, e)
                 /\ LET r == Parse(SubSeq(s, c[m].pos, e - 1))
                    IN  Accepted(r) /\ r.key = curKey /\ ToInt(r.len) = v
                 /\ Left(s, e + 1, d)
    BY <1>4 DEF Track
  <2> DEFINE r == Parse(SubSeq(s, c[m].pos, e - 1))
  <2>2. Accepted(r) /\ ToInt(r.len) = v
    BY <2>1
  <2>3. ~HasValue
    BY <1>4 DEF Kept, Consumed
  <2>4. v \in Nat /\ ~(Len(d) >= v + 2)
    BY <1>4, <2>3 DEF Typed, AcceptedLength, HasValue, Readable
  <2>5. e \in Nat /\ c[m].pos <= e /\ (e + 1) + Len(d) = Len(s)
    BY <1>1, <1>2, <2>1, EndsFacts DEF FirstEnd, Left
  <2>6. Handle(s, c[m]) = HandleLine(s, c[m], e, r)
    BY <1>1, <1>2, <2>1, HandleAt
  <2> HIDE DEF r
  <2>7. HandleLine(s, c[m], e, r) = HandleValue(s, c[m], e, r.key, v)
    BY <2>2, LineOfAccepted
  <2> HIDE DEF s, d, v
  <2>8. Len(s) < e + v + 3 /\ m <= Len(s)
    BY <1>1, <1>2, <2>4, <2>5, SMTT(40)
  <2>9. HandleValue(s, c[m], e, r.key, v) = c[m]
    BY <2>8 DEF HandleValue
  <2> QED
    BY <2>6, <2>7, <2>8, <2>9 DEF s
<1> QED
  BY <1>3, <1>4 DEF Track

\* For any client and any values, where no read ends inside a CRLF or overruns
\* the Buffer with a position saved: when onMessage returns, the session has
\* done what one pass over all the units received does.
THEOREM CutsDoNotMatter ==
    ASSUME ~SplitCRLF, ~Overruns
    PROVE  Spec => []ChunkingIrrelevant
<1> DEFINE Inv == Typed /\ Kept /\ Parsed
<1>1. Init => Inv
  BY InitTyped, InitKept, InitParsed
<1>2. Inv /\ [Next]_vars => Inv'
  BY NextTyped, NextKept, NextParsed
<1>3. Inv => ChunkingIrrelevant
  <2> SUFFICES ASSUME Typed, Kept, Parsed, ~running
               PROVE  LET c == Reference(received)
                      IN  log = c.log /\ items = c.items /\ down = c.down
    BY DEF ChunkingIrrelevant
  <2>1. alive /\ received \in Seq(Unit)
    BY DEF Parsed
  <2>2. PICK m, c : Track(m, c)
    BY <2>1 DEF Parsed
  <2>3. Handle(received, c[m]) = c[m] /\ m <= Len(received)
    BY <2>1, <2>2, NothingWholeLeft
  <2>4. Reference(received) = c[m]
    BY <2>1, <2>2, <2>3, ChainIsReference DEF Track
  <2> QED
    BY <2>2, <2>4 DEF Track
<1> QED
  BY <1>1, <1>2, <1>3, PTL DEF Spec
=============================================================================
