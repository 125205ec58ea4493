----------------------------- MODULE TtcpProofs -----------------------------
(***************************************************************************)
(* Proofs about Ttcp, for any number of clients, numbers and lengths of    *)
(* frames, sizes of integers and sockets: the two ends of every connection *)
(* stay in step, and no client that runs to its end takes the server down. *)
(***************************************************************************)
EXTENDS Ttcp, SequenceTheorems, TLAPS

-----------------------------------------------------------------------------
(* Strings of bytes *)

Str == Seq(Int \X Nat)

\* Concatenation, kept from being expanded.
Join(s, t) == s \o t

LEMMA JoinIs ==
    ASSUME NEW s \in Str, NEW t \in Str
    PROVE  /\ Join(s, t) \in Str /\ Len(s) \in Nat /\ Len(t) \in Nat
           /\ Len(Join(s, t)) = Len(s) + Len(t)
           /\ Join(s, t) = <<>> <=> s = <<>> /\ t = <<>>
           /\ Join(s, <<>>) = s /\ Join(<<>>, s) = s
BY ConcatProperties, ConcatEqualIffEmpty, ConcatEmptySeq, LenProperties
DEF Str, Join

LEMMA ConcatThree ==
    ASSUME NEW S, NEW s \in Seq(S), NEW t \in Seq(S), NEW u \in Seq(S)
    PROVE  Join(Join(s, t), u) = Join(s, Join(t, u))
BY ConcatAssociative DEF Join

LEMMA JoinAssociative ==
    ASSUME NEW s \in Str, NEW t \in Str, NEW u \in Str
    PROVE  Join(Join(s, t), u) = Join(s, Join(t, u))
BY ConcatThree DEF Str

LEMMA NilIs == <<>> \in Str /\ Len(<<>>) = 0
BY EmptySeq DEF Str

LEMMA LenIs ==
    ASSUME NEW s \in Str
    PROVE  Len(s) \in Nat /\ (Len(s) = 0 <=> s = <<>>)
BY LenProperties, EmptySeq DEF Str

LEMMA FcnIsSeq ==
    ASSUME NEW S, NEW n \in Nat, NEW f \in [1 .. n -> S]
    PROVE  f \in Seq(S) /\ Len(f) = n
OBVIOUS

\* A string is what Upto and After make of it.
LEMMA Cut ==
    ASSUME NEW s \in Str, NEW k \in 0 .. Len(s)
    PROVE  /\ Upto(k, s) \in Str /\ Len(Upto(k, s)) = k
           /\ After(k, s) \in Str /\ Len(After(k, s)) = Len(s) - k
           /\ Join(Upto(k, s), After(k, s)) = s
<1>1. Len(s) \in Nat /\ \A j \in 1 .. Len(s) : s[j] \in Int \X Nat
  BY LenProperties DEF Str
<1>2. Upto(k, s) \in Str /\ Len(Upto(k, s)) = k
  BY <1>1, SubSeqProperties DEF Upto, Str
<1>3. After(k, s) \in Str /\ Len(After(k, s)) = Len(s) - k
  BY <1>1, SubSeqProperties DEF After, Str
<1>4. Join(Upto(k, s), After(k, s)) = s
  <2>1. SubSeq(s, 1, k) \o SubSeq(s, k + 1, Len(s)) = SubSeq(s, 1, Len(s))
    <3>1. /\ 1 \in 1 .. Len(s) + 1 /\ k \in 1 - 1 .. Len(s)
          /\ Len(s) \in k .. Len(s)
      BY <1>1
    <3> QED
      BY <3>1, ConcatAdjacentSubSeq, Zenon DEF Str
  <2>2. SubSeq(s, 1, Len(s)) = s
    BY SubSeqFull DEF Str
  <2> QED
    BY <2>1, <2>2 DEF Join, Upto, After
<1> QED
  BY <1>2, <1>3, <1>4

LEMMA CutAll ==
    ASSUME NEW s \in Str
    PROVE  Upto(Len(s), s) = s /\ After(Len(s), s) = <<>>
<1>1. Len(s) \in 0 .. Len(s)
  BY LenIs
<1>2. PICK k \in 0 .. Len(s) : k = Len(s)
  BY <1>1
<1>3. After(k, s) \in Str /\ Len(After(k, s)) = Len(s) - k
  BY Cut
<1>4. After(k, s) = <<>>
  BY <1>2, <1>3, LenIs
<1> QED
  BY <1>2, <1>4, SubSeqFull DEF Upto, Str

\* The beginning of a string that is long enough is the first of two parts.
LEMMA Split ==
    ASSUME NEW s \in Str, NEW t \in Str, NEW p \in Str, NEW q \in Str,
           Join(s, t) = Join(p, q), Len(p) <= Len(s)
    PROVE  Upto(Len(p), s) = p /\ Join(After(Len(p), s), t) = q
<1>1. PICK k \in Nat : k = Len(p) /\ k \in 0 .. Len(s)
  BY LenIs
<1>2. PICK a \in Str : a = Upto(k, s) /\ Len(a) = k
  BY <1>1, Cut
<1>3. PICK b \in Str : b = After(k, s) /\ Join(a, b) = s
  BY <1>1, <1>2, Cut
<1>4. PICK c \in Str : c = Join(b, t)
  BY JoinIs
<1>5. Join(a, c) = Join(p, q)
  BY <1>3, <1>4, JoinAssociative
<1>6. a = p
  <2>1. \A j \in 1 .. k : Join(a, c)[j] = a[j] /\ Join(p, q)[j] = p[j]
    BY <1>1, <1>2, ConcatProperties, LenIs DEF Str, Join
  <2>2. \A j \in 1 .. k : a[j] = p[j]
    BY <1>5, <2>1
  <2> QED
    BY <1>1, <1>2, <2>2, SeqEqual DEF Str
<1>7. c = q
  BY <1>5, <1>6, ConcatSimplifications DEF Str, Join
<1> QED
  BY <1>1, <1>2, <1>3, <1>4, <1>6, <1>7

-----------------------------------------------------------------------------
(* Messages *)

Opts == [number : Nat, length : Nat]

LEMMA Encoded ==
    ASSUME NEW n \in Nat
    PROVE  /\ htonl(n) \in Str /\ Len(htonl(n)) = IntSize /\ IntSize \in Nat \ {0}
           /\ ntohl(htonl(n)) = n
<1>1. IntSize \in Nat \ {0}
  BY TtcpAssumption
<1>2. htonl(n) \in [1 .. IntSize -> Int \X Nat]
  BY <1>1 DEF htonl
<1>3. htonl(n) \in Str /\ Len(htonl(n)) = IntSize
  BY <1>1, <1>2 DEF Str
<1>4. htonl(n)[1][1] = n
  BY <1>1 DEF htonl
<1> QED
  BY <1>1, <1>3, <1>4 DEF ntohl

LEMMA Messages ==
    ASSUME NEW o \in Opts
    PROVE  /\ o.number \in Nat /\ o.length \in Nat
           /\ Session(o) \in Str /\ Len(Session(o)) = 2 * IntSize
           /\ Frame(o) \in Str /\ Len(Frame(o)) = IntSize + o.length
           /\ Frame(o) # <<>> /\ Session(o) # <<>>
<1>1. o.number \in Nat /\ o.length \in Nat
  BY DEF Opts
<1>2. PICK a \in Str : a = htonl(o.number) /\ Len(a) = IntSize
  BY <1>1, Encoded
<1>3. PICK b \in Str : b = htonl(o.length) /\ Len(b) = IntSize
  BY <1>1, Encoded
<1>4. PICK p \in Str : p = [k \in 1 .. o.length |-> <<-1, k>>] /\ Len(p) = o.length
  <2>1. [k \in 1 .. o.length |-> <<-1, k>>] \in [1 .. o.length -> Int \X Nat]
    BY <1>1
  <2> QED
    BY <1>1, <2>1, FcnIsSeq, ZenonT(60) DEF Str
<1>5. IntSize \in Nat \ {0}
  BY TtcpAssumption
<1>6. Session(o) = Join(a, b) /\ Frame(o) = Join(b, p)
  BY <1>2, <1>3, <1>4 DEF Session, Frame, Join
<1>7. /\ Session(o) \in Str /\ Len(Session(o)) = 2 * IntSize
      /\ Frame(o) \in Str /\ Len(Frame(o)) = IntSize + o.length
  <2>1. Join(a, b) \in Str /\ Len(Join(a, b)) = Len(a) + Len(b)
    BY JoinIs
  <2>2. Join(b, p) \in Str /\ Len(Join(b, p)) = Len(b) + Len(p)
    BY JoinIs
  <2> QED
    BY <1>1, <1>2, <1>3, <1>4, <1>5, <1>6, <2>1, <2>2
<1> QED
  BY <1>1, <1>5, <1>7, LenIs

\* What the server takes next from a client with options o.
NextOf(o, s) == IF s = "size" THEN Join(Session(o), Frame(o)) ELSE Frame(o)

\* What the server has of it, what is in the socket, and what is left to write.
Flow(in, u, w, e) == Join(in, Join(u, w)) = e

-----------------------------------------------------------------------------
(* One connection: o is what the client was run with, p, b and j are where  *)
(* it is in client_send(), with buffer and loop counter; u and d are the    *)
(* bytes in the socket; cn, in, s, m, n and a are the server's end.         *)

Typed(o, b, j, in, u, d, s, n, a) ==
    /\ o \in Opts /\ j \in Nat /\ n \in Nat
    /\ b \in Str /\ in \in Str /\ u \in Str /\ d \in Str /\ a \in Str
    /\ s \in {"size", "frame", "ack"}

\* The three stages of an acknowledgement: the frame is on its way, the ack is
\* being written, the ack is written and not all read.
Acked(o, b, j, in, u, d, s, n, a) ==
    \/ /\ s # "ack" /\ n = j /\ b = <<>> /\ d = <<>>
       /\ Flow(in, u, <<>>, NextOf(o, s))
    \/ /\ s = "ack" /\ n = j /\ a # <<>>
       /\ Flow(in, u, <<>>, <<>>) /\ Flow(b, d, a, htonl(o.length))
    \/ /\ s = "frame" /\ n = j + 1 /\ d # <<>>
       /\ Flow(in, u, <<>>, <<>>) /\ Flow(b, d, <<>>, htonl(o.length))

Stage(o, p, b, j, cn, in, u, d, s, n, a) ==
    \/ /\ p = "connect" /\ cn = "none" /\ s = "size" /\ j = 0 /\ d = <<>>
       /\ Flow(in, u, <<>>, <<>>)
    \/ /\ p = "session" /\ s = "size" /\ j = 0 /\ d = <<>> /\ b # <<>>
       /\ Flow(in, u, b, Session(o))
    \/ /\ p = "frame" /\ s # "ack" /\ n = j /\ j < o.number /\ d = <<>>
       /\ b # <<>> /\ Flow(in, u, b, NextOf(o, s))
    \/ /\ p = "ack" /\ j < o.number /\ Acked(o, b, j, in, u, d, s, n, a)
    \/ /\ p = "done" /\ s # "ack" /\ n = j /\ j = o.number /\ d = <<>>
       /\ Flow(in, u, <<>>, IF s = "size" THEN Session(o) ELSE <<>>)

Sound(o, p, b, j, cn, in, u, d, s, m, n, a) ==
    /\ Typed(o, b, j, in, u, d, s, n, a)
    /\ s = "size" => n = 0
    /\ s # "size" => m = o
    /\ s # "size" /\ n >= o.number => cn = "closed"
    /\ Stage(o, p, b, j, cn, in, u, d, s, n, a)

\* The state of client c's connection, unless it has failed or was killed.
Good(c) ==
    Sound(opt[c], pc[c], buf[c], i[c], conn[c], input[c], up[c], down[c],
          state[c], smsg[c], nread[c], ackLeft[c])

\* The event driven server closes a connection only after the last frame.
ClosedLast(c) ==
    mode = "libev" /\ conn[c] = "closed" =>
        state[c] # "size" /\ nread[c] >= opt[c].number

\* Only a server that has ended, or the blocking one that serves another client,
\* makes a client fail.
ClientOK(c) ==
    /\ pc[c] \in {"connect", "session", "frame", "ack", "done", "failed", "crashed"}
    /\ pc[c] = "failed" =>
          \/ server # "running" \/ conn[c] = "none"
          \/ conn[c] = "closed" /\ mode # "libev"
    /\ pc[c] \notin {"failed", "crashed"} => Good(c) /\ ClosedLast(c)

Shape ==
    /\ opt \in [Clients -> Opts]
    /\ DOMAIN pc = Clients /\ DOMAIN buf = Clients /\ DOMAIN i = Clients
    /\ DOMAIN conn = Clients /\ DOMAIN input = Clients /\ DOMAIN up = Clients
    /\ DOMAIN down = Clients /\ DOMAIN state = Clients /\ DOMAIN smsg = Clients
    /\ DOMAIN nread = Clients /\ DOMAIN ackLeft = Clients
    /\ cur # NULL => cur \in Clients /\ conn[cur] \in {"accepted", "closed"}
                     /\ mode = "libev"

Inv == Shape /\ (\A c \in Clients : ClientOK(c)) /\ ServerSurvives

-----------------------------------------------------------------------------
(* What the steps do to a connection *)

LEMMA FlowIs ==
    ASSUME NEW in \in Str, NEW u \in Str, NEW w \in Str, NEW e, Flow(in, u, w, e)
    PROVE  /\ e \in Str /\ Len(e) = Len(in) + Len(u) + Len(w)
           /\ Len(in) \in Nat /\ Len(u) \in Nat /\ Len(w) \in Nat
           /\ e = <<>> => in = <<>> /\ u = <<>> /\ w = <<>>
<1>1. PICK x \in Str : x = Join(u, w) /\ Len(x) = Len(u) + Len(w)
                       /\ (x = <<>> => u = <<>> /\ w = <<>>)
  BY JoinIs
<1>2. PICK y \in Str : y = Join(in, x) /\ Len(y) = Len(in) + Len(x)
                       /\ (y = <<>> => in = <<>> /\ x = <<>>)
  BY JoinIs
<1>3. y = e
  BY <1>1, <1>2 DEF Flow
<1> QED
  BY <1>1, <1>2, <1>3, LenIs

LEMMA FlowNil == Flow(<<>>, <<>>, <<>>, <<>>)
BY NilIs, JoinIs DEF Flow

\* A read() of the server: bytes go from the socket to its input.
LEMMA FlowReceive ==
    ASSUME NEW in \in Str, NEW u \in Str, NEW w \in Str, NEW e,
           NEW k \in 0 .. Len(u), Flow(in, u, w, e)
    PROVE  Flow(Join(in, Upto(k, u)), After(k, u), w, e)
<1>1. PICK x \in Str : x = Upto(k, u)
  BY Cut
<1>2. PICK y \in Str : y = After(k, u) /\ Join(x, y) = u
  BY <1>1, Cut
<1>3. PICK z \in Str : z = Join(y, w)
  BY JoinIs
<1>4. Join(u, w) = Join(x, z)
  BY <1>2, <1>3, JoinAssociative
<1>5. Join(Join(in, x), z) = Join(in, Join(x, z))
  BY JoinAssociative
<1> QED
  BY <1>1, <1>2, <1>3, <1>4, <1>5 DEF Flow

\* A write() of the client, or of the server towards it.
LEMMA FlowWrite ==
    ASSUME NEW in \in Str, NEW u \in Str, NEW w \in Str, NEW e,
           NEW k \in 0 .. Len(w), Flow(in, u, w, e)
    PROVE  Flow(in, Join(u, Upto(k, w)), After(k, w), e)
<1>1. PICK x \in Str : x = Upto(k, w)
  BY Cut
<1>2. PICK y \in Str : y = After(k, w) /\ Join(x, y) = w
  BY <1>1, Cut
<1>3. Join(Join(u, x), y) = Join(u, w)
  BY <1>2, JoinAssociative
<1> QED
  BY <1>1, <1>2, <1>3 DEF Flow

\* A message more is to be written.
LEMMA FlowMore ==
    ASSUME NEW in \in Str, NEW u \in Str, NEW e, NEW w \in Str,
           Flow(in, u, <<>>, e)
    PROVE  Flow(in, u, w, Join(e, w))
<1>1. Join(u, <<>>) = u
  BY JoinIs
<1>2. Join(in, u) = e
  BY <1>1 DEF Flow
<1>3. Join(Join(in, u), w) = Join(in, Join(u, w))
  BY JoinAssociative
<1> QED
  BY <1>2, <1>3 DEF Flow

\* The server takes a whole message out of its input.
LEMMA FlowTake ==
    ASSUME NEW in \in Str, NEW u \in Str, NEW w \in Str, NEW p \in Str,
           NEW q \in Str, Flow(in, u, w, Join(p, q)), Len(p) <= Len(in)
    PROVE  /\ Flow(After(Len(p), in), u, w, q)
           /\ Upto(Len(p), in) = p /\ After(Len(p), in) \in Str
<1>1. PICK x \in Str : x = Join(u, w)
  BY JoinIs
<1>2. Join(in, x) = Join(p, q)
  BY <1>1 DEF Flow
<1>3. Upto(Len(p), in) = p /\ Join(After(Len(p), in), x) = q
  BY <1>2, Split
<1>4. Len(p) \in 0 .. Len(in)
  BY LenIs
<1>5. After(Len(p), in) \in Str
  BY <1>4, Cut
<1> QED
  BY <1>1, <1>3, <1>5 DEF Flow

\* A write() of client_send(): k bytes of the session message or of a frame.
LEMMA SoundWrite ==
    ASSUME NEW o, NEW p, NEW b, NEW j, NEW cn, NEW in, NEW u, NEW d, NEW s,
           NEW m, NEW n, NEW a, Sound(o, p, b, j, cn, in, u, d, s, m, n, a),
           p \in {"session", "frame"}, NEW k \in 1 .. Len(b)
    PROVE  LET v == Join(u, Upto(k, b))
           IN  /\ k < Len(b) =>
                     Sound(o, p, After(k, b), j, cn, in, v, d, s, m, n, a)
               /\ ~(k < Len(b)) /\ p = "session" /\ 0 < o.number =>
                     Sound(o, "frame", Frame(o), j, cn, in, v, d, s, m, n, a)
               /\ ~(k < Len(b)) /\ p = "session" /\ ~(0 < o.number) =>
                     Sound(o, "done", <<>>, j, cn, in, v, d, s, m, n, a)
               /\ ~(k < Len(b)) /\ p # "session" =>
                     Sound(o, "ack", <<>>, j, cn, in, v, d, s, m, n, a)
<1>1. Typed(o, b, j, in, u, d, s, n, a) /\ k \in 0 .. Len(b) /\ Len(b) \in Nat
  BY LenIs DEF Sound, Typed
<1>2. PICK e \in Str : /\ Flow(in, u, b, e)
                       /\ j < o.number \/ p = "session"
                       /\ p = "session" => e = Session(o) /\ s = "size" /\ j = 0
                       /\ p = "frame" => e = NextOf(o, s) /\ s # "ack" /\ n = j
                       /\ d = <<>>
  <2>1. CASE p = "session"
    <3>1. Session(o) \in Str
      BY <1>1, Messages DEF Typed
    <3> QED
      BY <2>1, <3>1 DEF Sound, Stage
  <2>2. CASE p = "frame"
    <3>1. NextOf(o, s) \in Str
      BY <1>1, Messages, JoinIs DEF Typed, NextOf
    <3> QED
      BY <2>2, <3>1 DEF Sound, Stage
  <2> QED
    BY <2>1, <2>2
<1>3. PICK v \in Str : v = Join(u, Upto(k, b))
  BY <1>1, Cut, JoinIs DEF Typed
<1>4. PICK w \in Str : w = After(k, b) /\ Len(w) = Len(b) - k
  BY <1>1, Cut DEF Typed
<1>5. Flow(in, v, w, e)
  <2>1. Flow(in, u, b, e) /\ in \in Str /\ u \in Str /\ b \in Str
    BY <1>1, <1>2 DEF Typed
  <2> QED
    BY <1>1, <1>3, <1>4, <2>1, FlowWrite
<1>6. /\ s = "size" => n = 0
      /\ s # "size" => m = o
      /\ s # "size" /\ n >= o.number => cn = "closed"
  BY DEF Sound
<1>7. ASSUME k < Len(b)
      PROVE  Sound(o, p, w, j, cn, in, v, d, s, m, n, a)
  <2>1. w # <<>>
    BY <1>1, <1>4, <1>7, LenIs
  <2>2. Typed(o, w, j, in, v, d, s, n, a)
    BY <1>1 DEF Typed
  <2>3. Stage(o, p, w, j, cn, in, v, d, s, n, a)
    BY <1>2, <1>5, <2>1 DEF Stage
  <2> QED
    BY <1>6, <2>2, <2>3 DEF Sound
<1>8. ASSUME ~(k < Len(b))
      PROVE  Flow(in, v, <<>>, e)
  BY <1>1, <1>4, <1>5, <1>8, LenIs
<1>9. ASSUME ~(k < Len(b)), p = "session", 0 < o.number
      PROVE  Sound(o, "frame", Frame(o), j, cn, in, v, d, s, m, n, a)
  <2>1. Frame(o) \in Str /\ Frame(o) # <<>>
    BY <1>1, Messages DEF Typed
  <2>2. Flow(in, v, Frame(o), NextOf(o, s))
    BY <1>1, <1>2, <1>8, <1>9, <2>1, FlowMore DEF Typed, NextOf
  <2>3. Typed(o, Frame(o), j, in, v, d, s, n, a)
    BY <1>1, <2>1 DEF Typed
  <2>4. Stage(o, "frame", Frame(o), j, cn, in, v, d, s, n, a)
    BY <1>2, <1>6, <1>9, <2>1, <2>2 DEF Stage
  <2> QED
    BY <1>6, <2>3, <2>4 DEF Sound
<1>10. ASSUME ~(k < Len(b)), p = "session", ~(0 < o.number)
       PROVE  Sound(o, "done", <<>>, j, cn, in, v, d, s, m, n, a)
  <2>1. Typed(o, <<>>, j, in, v, d, s, n, a) /\ o.number = 0
    BY <1>1, <1>10, NilIs, Messages DEF Typed
  <2>2. Stage(o, "done", <<>>, j, cn, in, v, d, s, n, a)
    BY <1>2, <1>6, <1>8, <1>10, <2>1 DEF Stage
  <2> QED
    BY <1>6, <2>1, <2>2 DEF Sound
<1>11. ASSUME ~(k < Len(b)), p # "session"
       PROVE  Sound(o, "ack", <<>>, j, cn, in, v, d, s, m, n, a)
  <2>1. Typed(o, <<>>, j, in, v, d, s, n, a)
    BY <1>1, NilIs DEF Typed
  <2>2. Stage(o, "ack", <<>>, j, cn, in, v, d, s, n, a)
    BY <1>2, <1>8, <1>11 DEF Stage, Acked
  <2> QED
    BY <1>6, <2>1, <2>2 DEF Sound
<1> QED
  BY <1>3, <1>4, <1>7, <1>9, <1>10, <1>11

\* A read() of the acknowledgement.
LEMMA SoundReadAck ==
    ASSUME NEW o, NEW b, NEW j, NEW cn, NEW in, NEW u, NEW d, NEW s,
           NEW m, NEW n, NEW a, Sound(o, "ack", b, j, cn, in, u, d, s, m, n, a),
           NEW k \in 1 .. Len(d), k <= IntSize - Len(b)
    PROVE  LET ack == Join(b, Upto(k, d))
               e == After(k, d)
           IN  /\ Len(ack) < IntSize =>
                     Sound(o, "ack", ack, j, cn, in, u, e, s, m, n, a)
               /\ ~(Len(ack) < IntSize) =>
                     /\ ntohl(ack) = o.length
                     /\ j + 1 < o.number =>
                           Sound(o, "frame", Frame(o), j + 1, cn, in, u, e, s, m, n, a)
                     /\ ~(j + 1 < o.number) =>
                           Sound(o, "done", <<>>, j + 1, cn, in, u, e, s, m, n, a)
<1>1. Typed(o, b, j, in, u, d, s, n, a) /\ Len(d) \in Nat /\ Len(b) \in Nat
  BY LenIs DEF Sound, Typed
<1>2. k \in 0 .. Len(d) /\ IntSize \in Nat
  BY <1>1, TtcpAssumption
<1>3. PICK x \in Str : x = Upto(k, d) /\ Len(x) = k
  BY <1>1, <1>2, Cut DEF Typed
<1>4. PICK e \in Str : e = After(k, d) /\ Len(e) = Len(d) - k
  BY <1>1, <1>2, Cut DEF Typed
<1>5. PICK ack \in Str : ack = Join(b, x) /\ Len(ack) = Len(b) + k
  <2>1. b \in Str
    BY <1>1 DEF Typed
  <2>2. Join(b, x) \in Str /\ Len(Join(b, x)) = Len(b) + Len(x)
    BY <2>1, JoinIs
  <2> QED
    BY <1>3, <2>2
<1>6. /\ s = "size" => n = 0
      /\ s # "size" => m = o
      /\ s # "size" /\ n >= o.number => cn = "closed"
  BY DEF Sound
<1>7. d # <<>>
  BY <1>1, NilIs
<1>8. /\ j < o.number /\ Flow(in, u, <<>>, <<>>)
      /\ \/ s = "ack" /\ n = j /\ a # <<>> /\ Flow(b, d, a, htonl(o.length))
         \/ s = "frame" /\ n = j + 1 /\ Flow(b, d, <<>>, htonl(o.length))
  BY <1>7 DEF Sound, Stage, Acked
<1>9. /\ o.length \in Nat /\ o.number \in Nat
      /\ htonl(o.length) \in Str /\ Len(htonl(o.length)) = IntSize
      /\ ntohl(htonl(o.length)) = o.length
  BY <1>1, Messages, Encoded DEF Typed
\* However much is read, the same bytes are there.
<1>10. ASSUME NEW w \in Str, Flow(b, d, w, htonl(o.length))
       PROVE  Flow(ack, e, w, htonl(o.length))
  BY <1>1, <1>2, <1>3, <1>4, <1>5, <1>10, FlowReceive DEF Typed
<1>11. ASSUME Len(ack) < IntSize
       PROVE  Sound(o, "ack", ack, j, cn, in, u, e, s, m, n, a)
  <2>1. Typed(o, ack, j, in, u, e, s, n, a)
    BY <1>1 DEF Typed
  <2>2. ASSUME s = "frame", Flow(b, d, <<>>, htonl(o.length))
        PROVE  e # <<>>
    <3>1. b \in Str /\ d \in Str
      BY <1>1 DEF Typed
    <3>2. Len(htonl(o.length)) = Len(b) + Len(d) + Len(<<>>)
      BY <2>2, <3>1, FlowIs, NilIs
    <3> QED
      BY <1>1, <1>2, <1>4, <1>5, <1>9, <1>11, <3>2, NilIs
  <2>3. Acked(o, ack, j, in, u, e, s, n, a)
    BY <1>1, <1>8, <1>10, <2>2, NilIs DEF Acked, Typed
  <2>4. Stage(o, "ack", ack, j, cn, in, u, e, s, n, a)
    BY <1>8, <2>3 DEF Stage
  <2> QED
    BY <1>6, <2>1, <2>4 DEF Sound
<1>12. ASSUME ~(Len(ack) < IntSize)
       PROVE  /\ s = "frame" /\ n = j + 1 /\ e = <<>> /\ ack = htonl(o.length)
  <2>1. Len(ack) = IntSize
    BY <1>1, <1>2, <1>5, <1>12
  <2>2. CASE s = "ack" /\ a # <<>> /\ Flow(b, d, a, htonl(o.length))
    <3>1. IntSize = Len(b) + Len(d) + Len(a) /\ Len(a) \in Nat \ {0}
      <4>1. b \in Str /\ d \in Str /\ a \in Str
        BY <1>1 DEF Typed
      <4>2. Len(htonl(o.length)) = Len(b) + Len(d) + Len(a)
        BY <2>2, <4>1, FlowIs
      <4> QED
        BY <1>9, <2>2, <4>1, <4>2, LenIs
    <3> QED
      BY <1>1, <1>2, <1>5, <2>1, <3>1
  <2>3. CASE s = "frame" /\ n = j + 1 /\ Flow(b, d, <<>>, htonl(o.length))
    <3>1. IntSize = Len(b) + Len(d) + 0
      <4>1. b \in Str /\ d \in Str /\ <<>> \in Str
        BY <1>1, NilIs DEF Typed
      <4>2. Len(htonl(o.length)) = Len(b) + Len(d) + Len(<<>>)
        BY <2>3, <4>1, FlowIs
      <4> QED
        BY <1>9, <4>2, NilIs
    <3>2. e = <<>>
      BY <1>1, <1>2, <1>4, <1>5, <2>1, <3>1, LenIs
    <3>3. Flow(ack, e, <<>>, htonl(o.length))
      BY <1>10, <2>3, NilIs
    <3>4. ack = htonl(o.length)
      BY <3>2, <3>3, NilIs, JoinIs DEF Flow
    <3> QED
      BY <2>3, <3>2, <3>4
  <2> QED
    BY <1>8, <2>2, <2>3
<1>13. ASSUME ~(Len(ack) < IntSize), j + 1 < o.number
       PROVE  Sound(o, "frame", Frame(o), j + 1, cn, in, u, e, s, m, n, a)
  <2>1. Frame(o) \in Str /\ Frame(o) # <<>>
    BY <1>1, Messages DEF Typed
  <2>2. Typed(o, Frame(o), j + 1, in, u, e, s, n, a)
    BY <1>1, <2>1 DEF Typed
  <2>3. Flow(in, u, Frame(o), NextOf(o, s))
    BY <1>1, <1>8, <1>12, <1>13, <2>1, FlowMore, JoinIs DEF Typed, NextOf
  <2>4. Stage(o, "frame", Frame(o), j + 1, cn, in, u, e, s, n, a)
    BY <1>12, <1>13, <2>1, <2>3 DEF Stage
  <2> QED
    BY <1>6, <2>2, <2>4 DEF Sound
<1>14. ASSUME ~(Len(ack) < IntSize), ~(j + 1 < o.number)
       PROVE  Sound(o, "done", <<>>, j + 1, cn, in, u, e, s, m, n, a)
  <2>1. Typed(o, <<>>, j + 1, in, u, e, s, n, a) /\ j + 1 = o.number
    BY <1>1, <1>8, <1>9, <1>14, NilIs DEF Typed
  <2>2. Stage(o, "done", <<>>, j + 1, cn, in, u, e, s, n, a)
    BY <1>8, <1>12, <1>14, <2>1 DEF Stage
  <2> QED
    BY <1>6, <2>1, <2>2 DEF Sound
<1> QED
  BY <1>3, <1>4, <1>5, <1>9, <1>11, <1>12, <1>13, <1>14

\* connect(): the session message is to be written.
LEMMA SoundConnect ==
    ASSUME NEW o, NEW b, NEW j, NEW cn, NEW in, NEW u, NEW d, NEW s,
           NEW m, NEW n, NEW a,
           Sound(o, "connect", b, j, cn, in, u, d, s, m, n, a)
    PROVE  Sound(o, "session", Session(o), j, "queued", in, u, d, s, m, n, a)
<1>1. /\ Typed(o, b, j, in, u, d, s, n, a) /\ s = "size" /\ n = 0 /\ j = 0
      /\ d = <<>> /\ Flow(in, u, <<>>, <<>>)
  BY DEF Sound, Stage
<1>2. Session(o) \in Str /\ Session(o) # <<>> /\ in \in Str /\ u \in Str
  BY <1>1, Messages DEF Typed
<1>3. Flow(in, u, Session(o), Session(o))
  <2>1. Flow(in, u, Session(o), Join(<<>>, Session(o)))
    BY <1>1, <1>2, FlowMore
  <2> QED
    BY <1>2, <2>1, JoinIs
<1>4. Typed(o, Session(o), j, in, u, d, s, n, a)
  BY <1>1, <1>2 DEF Typed
<1>5. Stage(o, "session", Session(o), j, "queued", in, u, d, s, n, a)
  BY <1>1, <1>2, <1>3 DEF Stage
<1> QED
  BY <1>1, <1>4, <1>5 DEF Sound

\* The server's end is accepted or closed.
LEMMA SoundConn ==
    ASSUME NEW o, NEW p, NEW b, NEW j, NEW cn, NEW in, NEW u, NEW d, NEW s,
           NEW m, NEW n, NEW a, Sound(o, p, b, j, cn, in, u, d, s, m, n, a),
           NEW cl, cn # "none", cn # "closed" \/ cl = "closed"
    PROVE  Sound(o, p, b, j, cl, in, u, d, s, m, n, a)
<1>1. Stage(o, p, b, j, cl, in, u, d, s, n, a)
  BY DEF Sound, Stage
<1> QED
  BY <1>1 DEF Sound

\* A read() of the server.
LEMMA SoundReceive ==
    ASSUME NEW o, NEW p, NEW b, NEW j, NEW cn, NEW in, NEW u, NEW d, NEW s,
           NEW m, NEW n, NEW a, Sound(o, p, b, j, cn, in, u, d, s, m, n, a),
           NEW k \in 1 .. Len(u)
    PROVE  Sound(o, p, b, j, cn, Join(in, Upto(k, u)), After(k, u), d, s, m, n, a)
<1>1. /\ Typed(o, b, j, in, u, d, s, n, a) /\ Len(u) \in Nat
      /\ in \in Str /\ u \in Str /\ b \in Str
  BY LenIs DEF Sound, Typed
<1>2. k \in 0 .. Len(u)
  BY <1>1
<1>3. PICK x \in Str : x = Join(in, Upto(k, u))
  BY <1>1, <1>2, Cut, JoinIs
<1>4. PICK y \in Str : y = After(k, u)
  BY <1>1, <1>2, Cut
<1>5. \A w \in Str : \A e : Flow(in, u, w, e) => Flow(x, y, w, e)
  BY <1>1, <1>2, <1>3, <1>4, FlowReceive
<1>6. \A e : /\ Flow(in, u, <<>>, e) => Flow(x, y, <<>>, e)
             /\ Flow(in, u, b, e) => Flow(x, y, b, e)
  BY <1>1, <1>5, NilIs
<1>7. Stage(o, p, b, j, cn, x, y, d, s, n, a)
  <2>1. Acked(o, b, j, in, u, d, s, n, a) => Acked(o, b, j, x, y, d, s, n, a)
    BY <1>6 DEF Acked
  <2>2. Stage(o, p, b, j, cn, in, u, d, s, n, a)
    BY DEF Sound
  <2> QED
    BY <1>6, <2>1, <2>2 DEF Stage
<1>8. Typed(o, b, j, x, y, d, s, n, a)
  BY <1>1 DEF Typed
<1> QED
  BY <1>3, <1>4, <1>7, <1>8 DEF Sound

\* The first bytes of a session message, and the ones after it.
LEMMA SessionDecoded ==
    ASSUME NEW o \in Opts, NEW in \in Str, Len(in) >= 2 * IntSize,
           Upto(2 * IntSize, in) = Session(o)
    PROVE  /\ ntohl(Upto(IntSize, in)) = o.number
           /\ ntohl(SubSeq(in, IntSize + 1, 2 * IntSize)) = o.length
<1>1. PICK x \in Str : x = htonl(o.number) /\ Len(x) = IntSize /\ ntohl(x) = o.number
  BY Messages, Encoded
<1>2. PICK y \in Str : y = htonl(o.length) /\ Len(y) = IntSize /\ ntohl(y) = o.length
  BY Messages, Encoded
<1>3. IntSize \in Nat \ {0} /\ Len(in) \in Nat
  BY TtcpAssumption, LenIs
<1>4. PICK v \in Str : v = Upto(2 * IntSize, in) /\ Len(v) = 2 * IntSize
  BY <1>3, Cut
<1>5. Join(v, <<>>) = Join(x, y)
  BY <1>1, <1>2, <1>4, JoinIs DEF Session, Join
<1>6. Upto(IntSize, v) = x /\ Join(After(IntSize, v), <<>>) = y
  <2>1. Len(x) <= Len(v)
    BY <1>1, <1>3, <1>4
  <2> QED
    BY <1>1, <1>5, <2>1, Split, NilIs
<1>7. After(IntSize, v) = y
  <2>1. IntSize \in 0 .. Len(v)
    BY <1>3, <1>4
  <2> QED
    BY <1>6, <2>1, Cut, JoinIs
<1>8. /\ Upto(IntSize, in) = Upto(IntSize, v)
      /\ SubSeq(in, IntSize + 1, 2 * IntSize) = After(IntSize, v)
  BY <1>3, <1>4 DEF Upto, After, Str
<1> QED
  BY <1>1, <1>2, <1>6, <1>7, <1>8

\* A whole session message is what the client was run with.  cl is the
\* connection after it is taken: closed when no frame is to follow.
LEMMA SoundSession ==
    ASSUME NEW o, NEW p, NEW b, NEW j, NEW cn, NEW in, NEW u, NEW d,
           NEW m, NEW n, NEW a, Sound(o, p, b, j, cn, in, u, d, "size", m, n, a),
           Len(in) >= 2 * IntSize, NEW cl, p # "connect" => o.number > 0 \/ cl = "closed"
    PROVE  /\ ntohl(Upto(IntSize, in)) = o.number
           /\ ntohl(SubSeq(in, IntSize + 1, 2 * IntSize)) = o.length
           /\ o \in Opts
           /\ Sound(o, p, b, j, cl, After(2 * IntSize, in), u, d, "frame", o, n, a)
<1>1. Typed(o, b, j, in, u, d, "size", n, a) /\ n = 0
  BY DEF Sound
<1>2. o \in Opts /\ in \in Str /\ u \in Str /\ b \in Str /\ j \in Nat
  BY <1>1 DEF Typed
<1>3. PICK x \in Str : x = Session(o) /\ Len(x) = 2 * IntSize
  BY <1>2, Messages
<1>4. PICK f \in Str : f = Frame(o)
  BY <1>2, Messages
<1>5. IntSize \in Nat \ {0} /\ o.number \in Nat /\ Len(in) \in Nat
  BY <1>2, TtcpAssumption, Messages, LenIs
\* What is still to be written, and what follows the session message.
<1>6. PICK w \in Str, q \in Str :
         /\ Flow(in, u, w, Join(x, q))
         /\ \/ p = "frame" /\ w = b /\ b # <<>> /\ q = f /\ j < o.number /\ n = j
            \/ p = "ack" /\ w = <<>> /\ q = f /\ j < o.number /\ n = j /\ b = <<>>
            \/ p = "done" /\ w = <<>> /\ q = <<>> /\ j = o.number /\ n = j
         /\ d = <<>>
  <2>1. CASE p = "connect"
    <3>1. Flow(in, u, <<>>, <<>>)
      BY <2>1 DEF Sound, Stage
    <3>2. in = <<>>
      BY <1>2, <3>1, FlowIs, NilIs
    <3> QED
      BY <1>5, <3>2, NilIs
  <2>2. CASE p = "session"
    <3>1. Flow(in, u, b, x) /\ b # <<>>
      BY <1>3, <2>2 DEF Sound, Stage
    <3>2. Len(x) = Len(in) + Len(u) + Len(b) /\ Len(u) \in Nat /\ Len(b) \in Nat
      BY <1>2, <3>1, FlowIs
    <3>3. Len(b) # 0
      BY <1>2, <3>1, LenIs
    <3> QED
      BY <1>3, <1>5, <3>2, <3>3
  <2>3. CASE p = "frame"
    BY <1>2, <1>3, <1>4, <2>3 DEF Sound, Stage, NextOf
  <2>4. CASE p = "ack"
    BY <1>2, <1>3, <1>4, <2>4, NilIs DEF Sound, Stage, Acked, NextOf
  <2>5. CASE p = "done"
    <3>1. Flow(in, u, <<>>, x) /\ j = o.number /\ n = j /\ d = <<>>
      BY <1>3, <2>5 DEF Sound, Stage
    <3>2. Join(x, <<>>) = x
      BY JoinIs
    <3> QED
      BY <2>5, <3>1, <3>2, NilIs
  <2> QED
    BY <2>1, <2>2, <2>3, <2>4, <2>5 DEF Sound, Stage
<1>7. PICK y \in Str : /\ y = After(2 * IntSize, in) /\ Flow(y, u, w, q)
                       /\ Upto(2 * IntSize, in) = x
  <2>1. Len(x) <= Len(in)
    BY <1>3, <1>5
  <2> QED
    BY <1>2, <1>3, <1>6, <2>1, FlowTake
<1>8. /\ ntohl(Upto(IntSize, in)) = o.number
      /\ ntohl(SubSeq(in, IntSize + 1, 2 * IntSize)) = o.length
  BY <1>2, <1>3, <1>7, SessionDecoded
<1>9. Typed(o, b, j, y, u, d, "frame", n, a)
  BY <1>1, <1>7 DEF Typed
<1>10. Stage(o, p, b, j, cl, y, u, d, "frame", n, a)
  BY <1>4, <1>6, <1>7 DEF Stage, Acked, NextOf
<1>11. n >= o.number => cl = "closed"
  BY <1>1, <1>2, <1>5, <1>6
<1> QED
  BY <1>2, <1>7, <1>8, <1>9, <1>10, <1>11 DEF Sound

\* A whole frame is in the input: the client waits for its ack.
LEMMA FrameWhole ==
    ASSUME NEW o, NEW p, NEW b, NEW j, NEW cn, NEW in, NEW u, NEW d,
           NEW m, NEW n, NEW a, Sound(o, p, b, j, cn, in, u, d, "frame", m, n, a),
           Len(in) >= IntSize + m.length
    PROVE  /\ p = "ack" /\ m = o /\ d = <<>> /\ b = <<>> /\ n = j /\ j < o.number
           /\ Typed(o, b, j, in, u, d, "frame", n, a)
           /\ Upto(IntSize, in) = htonl(o.length)
           /\ After(IntSize + o.length, in) \in Str
           /\ Flow(After(IntSize + o.length, in), u, <<>>, <<>>)
           /\ Len(in) = IntSize + o.length
<1>1. Typed(o, b, j, in, u, d, "frame", n, a) /\ m = o
  BY DEF Sound
<1>2. o \in Opts /\ in \in Str /\ u \in Str /\ b \in Str /\ o.length \in Nat
  BY <1>1, Messages DEF Typed
<1>3. PICK f \in Str : f = Frame(o) /\ Len(f) = IntSize + o.length
  BY <1>2, Messages
<1>4. IntSize \in Nat \ {0} /\ Len(in) \in Nat /\ Len(u) \in Nat
  BY <1>2, TtcpAssumption, LenIs
<1>5. Len(in) >= Len(f) /\ in # <<>>
  BY <1>1, <1>2, <1>3, <1>4, NilIs
<1>6. ~Flow(in, u, <<>>, <<>>)
  BY <1>2, <1>5, FlowIs, NilIs
<1>7. ASSUME p = "frame" PROVE FALSE
  <2>1. Flow(in, u, b, f) /\ b # <<>>
    BY <1>3, <1>7 DEF Sound, Stage, NextOf
  <2>2. Len(f) = Len(in) + Len(u) + Len(b) /\ Len(b) \in Nat
    BY <1>2, <2>1, FlowIs
  <2>3. Len(b) # 0
    BY <1>2, <2>1, LenIs
  <2> QED
    BY <1>4, <1>5, <2>2, <2>3
<1>8. /\ p = "ack" /\ d = <<>> /\ b = <<>> /\ n = j /\ j < o.number
      /\ Flow(in, u, <<>>, f)
  BY <1>3, <1>6, <1>7 DEF Sound, Stage, Acked, NextOf
<1>9. Flow(in, u, <<>>, Join(f, <<>>))
  BY <1>8, JoinIs
<1>10. /\ Flow(After(Len(f), in), u, <<>>, <<>>)
       /\ Upto(Len(f), in) = f /\ After(Len(f), in) \in Str
  BY <1>2, <1>5, <1>9, FlowTake, NilIs
<1>11. Upto(IntSize, in) = htonl(o.length)
  <2>1. PICK h \in Str : h = htonl(o.length) /\ Len(h) = IntSize
    BY <1>2, Encoded
  <2>2. PICK r \in Str : f = Join(h, r)
    <3>1. [k \in 1 .. o.length |-> <<-1, k>>] \in [1 .. o.length -> Int \X Nat]
      BY <1>2
    <3>2. [k \in 1 .. o.length |-> <<-1, k>>] \in Str
      BY <1>2, <3>1, FcnIsSeq DEF Str
    <3> QED
      BY <1>3, <2>1, <3>2 DEF Frame, Join
  <2>3. Join(u, <<>>) = u
    BY <1>2, JoinIs
  <2>4. Join(in, u) = Join(h, r)
    BY <1>8, <2>2, <2>3 DEF Flow
  <2>5. Len(h) <= Len(in)
    BY <1>2, <1>3, <1>4, <1>5, <2>1
  <2> QED
    BY <1>2, <2>1, <2>2, <2>4, <2>5, Split
<1>12. Len(in) = IntSize + o.length
  <2>1. Len(f) = Len(in) + Len(u) + Len(<<>>)
    BY <1>2, <1>8, FlowIs, NilIs
  <2> QED
    BY <1>3, <1>4, <1>5, <2>1, NilIs
<1> QED
  BY <1>1, <1>3, <1>8, <1>10, <1>11, <1>12

\* The event driven server takes a frame and writes its ack.  cl is the
\* connection after it.
LEMMA SoundFrame ==
    ASSUME NEW o, NEW p, NEW b, NEW j, NEW cn, NEW in, NEW u, NEW d,
           NEW m, NEW n, NEW a, Sound(o, p, b, j, cn, in, u, d, "frame", m, n, a),
           Len(in) >= IntSize + m.length, NEW cl, n + 1 >= o.number => cl = "closed"
    PROVE  Sound(o, p, b, j, cl, After(IntSize + m.length, in), u,
                 Join(d, htonl(o.length)), "frame", m, n + 1, a)
<1>1. /\ p = "ack" /\ m = o /\ d = <<>> /\ b = <<>> /\ n = j /\ j < o.number
      /\ Typed(o, b, j, in, u, d, "frame", n, a)
  BY FrameWhole
<1>2. PICK y \in Str : y = After(IntSize + m.length, in) /\ Flow(y, u, <<>>, <<>>)
  BY <1>1, FrameWhole
<1>3. PICK h \in Str : h = htonl(o.length) /\ h # <<>>
  <2>1. htonl(o.length) \in Str /\ Len(htonl(o.length)) = IntSize /\ IntSize # 0
    BY <1>1, Messages, Encoded DEF Typed
  <2> QED
    BY <2>1, NilIs
<1>4. Join(d, h) = h /\ Join(h, <<>>) = h /\ Join(<<>>, h) = h
  BY <1>1, JoinIs
<1>5. Flow(b, h, <<>>, h)
  BY <1>1, <1>4 DEF Flow
<1>6. Typed(o, b, j, y, u, h, "frame", n + 1, a)
  BY <1>1, <1>2 DEF Typed
<1>7. Acked(o, b, j, y, u, h, "frame", n + 1, a)
  BY <1>1, <1>2, <1>3, <1>5 DEF Acked
<1>8. Stage(o, p, b, j, cl, y, u, h, "frame", n + 1, a)
  BY <1>1, <1>7 DEF Stage
<1>9. Sound(o, p, b, j, cl, y, u, h, "frame", m, n + 1, a)
  BY <1>1, <1>6, <1>8 DEF Sound
<1> QED
  BY <1>2, <1>3, <1>4, <1>9

\* The blocking server has read a frame and is about to write its ack.
LEMMA SoundFrameRead ==
    ASSUME NEW o, NEW p, NEW b, NEW j, NEW cn, NEW in, NEW u, NEW d,
           NEW m, NEW n, NEW a, Sound(o, p, b, j, cn, in, u, d, "frame", m, n, a),
           Len(in) = IntSize + m.length
    PROVE  Sound(o, p, b, j, cn, <<>>, u, d, "ack", m, n, Upto(IntSize, in))
<1>1. /\ p = "ack" /\ m = o /\ d = <<>> /\ b = <<>> /\ n = j /\ j < o.number
      /\ Typed(o, b, j, in, u, d, "frame", n, a)
      /\ n >= o.number => cn = "closed"
  <2>1. Len(in) >= IntSize + m.length
    <3>1. o \in Opts /\ m = o
      BY DEF Sound, Typed
    <3> QED
      BY <3>1, Messages, TtcpAssumption
  <2> QED
    BY <2>1, FrameWhole DEF Sound
<1>2. in \in Str /\ u \in Str /\ o.length \in Nat /\ IntSize \in Nat
  BY <1>1, Messages, TtcpAssumption DEF Typed
<1>3. Upto(IntSize, in) = htonl(o.length) /\ Flow(After(IntSize + o.length, in), u, <<>>, <<>>)
  BY <1>1, <1>2, FrameWhole
<1>4. After(IntSize + o.length, in) = <<>>
  BY <1>1, <1>2, CutAll
<1>5. PICK h \in Str : h = htonl(o.length) /\ h # <<>>
  <2>1. htonl(o.length) \in Str /\ Len(htonl(o.length)) = IntSize /\ IntSize # 0
    BY <1>2, Encoded
  <2> QED
    BY <2>1, NilIs
<1>6. Flow(b, d, h, h)
  BY <1>1, JoinIs DEF Flow
<1>7. Typed(o, b, j, <<>>, u, d, "ack", n, h)
  BY <1>1, <1>5, NilIs DEF Typed
<1>8. Acked(o, b, j, <<>>, u, d, "ack", n, h)
  BY <1>1, <1>3, <1>4, <1>5, <1>6 DEF Acked
<1>9. Stage(o, p, b, j, cn, <<>>, u, d, "ack", n, h)
  BY <1>1, <1>8 DEF Stage
<1> QED
  BY <1>1, <1>3, <1>5, <1>7, <1>9 DEF Sound

\* A write() of the blocking server's ack.  cl is the connection after it.
LEMMA SoundWriteAck ==
    ASSUME NEW o, NEW p, NEW b, NEW j, NEW cn, NEW in, NEW u, NEW d,
           NEW m, NEW n, NEW a, Sound(o, p, b, j, cn, in, u, d, "ack", m, n, a),
           NEW k \in 1 .. Len(a), NEW cl, n + 1 >= o.number => cl = "closed"
    PROVE  /\ p = "ack" /\ m = o /\ o \in Opts /\ n \in Nat
           /\ k # Len(a) =>
                 Sound(o, p, b, j, cn, in, u, Join(d, Upto(k, a)), "ack", m, n, After(k, a))
           /\ k = Len(a) =>
                 Sound(o, p, b, j, cl, in, u, Join(d, Upto(k, a)), "frame", m, n + 1, After(k, a))
<1>1. /\ p = "ack" /\ m = o /\ n = j /\ j < o.number /\ a # <<>>
      /\ Flow(in, u, <<>>, <<>>) /\ Flow(b, d, a, htonl(o.length))
      /\ Typed(o, b, j, in, u, d, "ack", n, a)
      /\ n >= o.number => cn = "closed"
  BY DEF Sound, Stage, Acked
<1>2. /\ a \in Str /\ b \in Str /\ d \in Str /\ Len(a) \in Nat
      /\ k \in 0 .. Len(a) /\ j \in Nat /\ o \in Opts
  BY <1>1, LenIs DEF Typed
<1>3. PICK x \in Str : x = Join(d, Upto(k, a)) /\ x # <<>>
  <2>1. PICK z \in Str : z = Upto(k, a) /\ Len(z) = k
    BY <1>2, Cut
  <2>2. z # <<>>
    BY <1>2, <2>1, NilIs
  <2> QED
    BY <1>2, <2>1, <2>2, JoinIs
<1>4. PICK y \in Str : y = After(k, a) /\ Len(y) = Len(a) - k
  BY <1>2, Cut
<1>5. Flow(b, x, y, htonl(o.length))
  BY <1>1, <1>2, <1>3, <1>4, FlowWrite
<1>6. ASSUME k # Len(a)
      PROVE  Sound(o, p, b, j, cn, in, u, x, "ack", m, n, y)
  <2>1. y # <<>>
    BY <1>2, <1>4, <1>6, NilIs
  <2>2. Typed(o, b, j, in, u, x, "ack", n, y)
    BY <1>1 DEF Typed
  <2>3. Stage(o, p, b, j, cn, in, u, x, "ack", n, y)
    BY <1>1, <1>5, <2>1 DEF Stage, Acked
  <2> QED
    BY <1>1, <2>2, <2>3 DEF Sound
<1>7. ASSUME k = Len(a)
      PROVE  Sound(o, p, b, j, cl, in, u, x, "frame", m, n + 1, y)
  <2>1. y = <<>>
    BY <1>2, <1>4, <1>7, LenIs
  <2>2. Typed(o, b, j, in, u, x, "frame", n + 1, y)
    BY <1>1 DEF Typed
  <2>3. Stage(o, p, b, j, cl, in, u, x, "frame", n + 1, y)
    BY <1>1, <1>3, <1>5, <2>1 DEF Stage, Acked
  <2> QED
    BY <1>1, <2>2, <2>3 DEF Sound
<1> QED
  BY <1>1, <1>2, <1>3, <1>4, <1>6, <1>7

\* A client that is done while the server still serves it announced no frame,
\* and its session message waits in the socket.
LEMMA SoundDone ==
    ASSUME NEW o, NEW b, NEW j, NEW cn, NEW in, NEW u, NEW d, NEW s,
           NEW m, NEW n, NEW a, Sound(o, "done", b, j, cn, in, u, d, s, m, n, a),
           cn # "closed"
    PROVE  /\ o.number = 0 /\ s = "size" /\ d = <<>>
           /\ u = <<>> => Len(in) = 2 * IntSize
<1>1. /\ Typed(o, b, j, in, u, d, s, n, a) /\ d = <<>> /\ j = o.number /\ n = j
      /\ s = "size" => n = 0
      /\ s # "size" /\ n >= o.number => cn = "closed"
      /\ Flow(in, u, <<>>, IF s = "size" THEN Session(o) ELSE <<>>)
  BY DEF Sound, Stage
<1>2. o \in Opts /\ o.number \in Nat /\ in \in Str /\ u \in Str
  BY <1>1, Messages DEF Typed
<1>3. s = "size" /\ o.number = 0
  BY <1>1, <1>2
<1>4. Flow(in, u, <<>>, Session(o)) /\ Len(Session(o)) = 2 * IntSize
  BY <1>1, <1>2, <1>3, Messages
<1>5. Len(Session(o)) = Len(in) + Len(u) + Len(<<>>) /\ Len(in) \in Nat
  BY <1>2, <1>4, FlowIs, NilIs
<1> QED
  BY <1>1, <1>3, <1>4, <1>5, NilIs

-----------------------------------------------------------------------------
(* The steps of the specification *)

\* Nothing of client d's connection changes.
Same(d) ==
    /\ opt'[d] = opt[d] /\ pc'[d] = pc[d] /\ buf'[d] = buf[d] /\ i'[d] = i[d]
    /\ conn'[d] = conn[d] /\ input'[d] = input[d] /\ up'[d] = up[d]
    /\ down'[d] = down[d] /\ state'[d] = state[d] /\ smsg'[d] = smsg[d]
    /\ nread'[d] = nread[d] /\ ackLeft'[d] = ackLeft[d]

\* Function g is f except at c, where it is v.
At(f, g, c, v) ==
    /\ DOMAIN g = DOMAIN f /\ g[c] = v
    /\ \A d \in DOMAIN f \ {c} : g[d] = f[d]

LEMMA SameOK ==
    ASSUME NEW d, ClientOK(d), Same(d), mode' = mode,
           server # "running" => server' # "running"
    PROVE  ClientOK(d)'
<1>1. Good(d) => Good(d)'
  BY DEF Same, Good
<1>2. ClosedLast(d) => ClosedLast(d)'
  BY DEF Same, ClosedLast
<1> QED
  BY <1>1, <1>2 DEF Same, ClientOK

\* A step that touches the connection of c only.
LEMMA OneClient ==
    ASSUME Inv, NEW c \in Clients, mode' = mode,
           server # "running" => server' # "running",
           \A d \in Clients \ {c} : Same(d),
           Shape', ClientOK(c)', ServerSurvives'
    PROVE  Inv'
<1>1. ASSUME NEW d \in Clients, d # c
      PROVE  ClientOK(d)'
  BY <1>1, SameOK DEF Inv
<1>2. \A d \in Clients : ClientOK(d)'
  BY <1>1
<1> QED
  BY <1>2 DEF Inv

LEMMA StillSurvives ==
    ASSUME ServerSurvives, server' = "failed" => server = "failed",
           mode' = mode, opt' = opt,
           \A d \in Clients : pc[d] = "crashed" => pc'[d] = "crashed"
    PROVE  ServerSurvives'
BY DEF ServerSurvives, Unacceptable

LEMMA PartsIs ==
    ASSUME NEW s \in Str, NEW room \in Int, NEW k \in Parts(s, room)
    PROVE  k \in 1 .. Len(s) /\ k <= room
BY LenIs DEF Parts, Min2

LEMMA ConnectKeeps ==
    ASSUME Inv, NEW c \in Clients, Connect(c)
    PROVE  Inv'
<1>1. /\ Shape /\ ClientOK(c) /\ ServerSurvives /\ pc[c] = "connect" /\ Good(c)
      /\ ClosedLast(c)
  BY DEF Inv, ClientOK, Connect
<1>2. /\ mode' = mode /\ opt' = opt /\ i' = i /\ up' = up /\ down' = down
      /\ server' = server /\ cur' = cur /\ state' = state /\ smsg' = smsg
      /\ input' = input /\ nread' = nread /\ ackLeft' = ackLeft
  BY DEF Connect, serverVars
<1>3. PICK to, b : pc' = [pc EXCEPT ![c] = to] /\ buf' = [buf EXCEPT ![c] = b]
                   /\ \/ /\ to = "session" /\ b = Session(opt[c])
                         /\ conn' = [conn EXCEPT ![c] = "queued"]
                      \/ to = "failed" /\ conn' = conn
  BY DEF Connect, Go
<1>4. \A d \in Clients \ {c} : Same(d)
  BY <1>1, <1>2, <1>3 DEF Same, Shape
<1>5. pc'[c] = to /\ buf'[c] = b
  BY <1>1, <1>3 DEF Shape
<1>6. conn[c] = "none"
  BY <1>1 DEF Good, Sound, Stage
<1>7. ClientOK(c)'
  <2>1. CASE to = "session" /\ b = Session(opt[c]) /\ conn' = [conn EXCEPT ![c] = "queued"]
    <3>1. conn'[c] = "queued"
      BY <1>1, <2>1 DEF Shape
    <3>2. Sound(opt[c], "session", Session(opt[c]), i[c], "queued", input[c], up[c],
                down[c], state[c], smsg[c], nread[c], ackLeft[c])
      BY <1>1, SoundConnect DEF Good
    <3>3. Good(c)'
      BY <1>2, <1>5, <2>1, <3>1, <3>2 DEF Good
    <3> QED
      BY <1>5, <2>1, <3>1, <3>3 DEF ClientOK, ClosedLast
  <2>2. CASE to = "failed" /\ conn' = conn
    BY <1>5, <1>6, <2>2 DEF ClientOK
  <2> QED
    BY <1>3, <2>1, <2>2
<1>8. Shape'
  BY <1>1, <1>2, <1>3, <1>6 DEF Shape
<1>9. ServerSurvives'
  <2>1. \A d \in Clients : pc[d] = "crashed" => pc'[d] = "crashed"
    BY <1>1, <1>3 DEF Shape
  <2> QED
    BY <1>1, <1>2, <2>1, StillSurvives
<1> QED
  BY <1>2, <1>4, <1>7, <1>8, <1>9, OneClient

LEMMA WriteKeeps ==
    ASSUME Inv, NEW c \in Clients, Write(c)
    PROVE  Inv'
<1>1. /\ Shape /\ ClientOK(c) /\ ServerSurvives /\ pc[c] \in {"session", "frame"}
      /\ Good(c) /\ ClosedLast(c)
  BY DEF Inv, ClientOK, Write
<1>2. /\ mode' = mode /\ opt' = opt /\ i' = i /\ conn' = conn /\ down' = down
      /\ server' = server /\ cur' = cur /\ state' = state /\ smsg' = smsg
      /\ input' = input /\ nread' = nread /\ ackLeft' = ackLeft
  BY DEF Write, serverVars
<1>3. PICK to, b, v :
         /\ pc' = [pc EXCEPT ![c] = to] /\ buf' = [buf EXCEPT ![c] = b]
         /\ At(up, up', c, v)
         /\ \/ Hungup(c) /\ to = "failed"
            \/ \E k \in Parts(buf[c], Cap - Len(up[c])) :
                  /\ v = Join(up[c], Upto(k, buf[c]))
                  /\ k < Len(buf[c]) => to = pc[c] /\ b = After(k, buf[c])
                  /\ ~(k < Len(buf[c])) /\ pc[c] = "session" /\ 0 < opt[c].number =>
                        to = "frame" /\ b = Frame(opt[c])
                  /\ ~(k < Len(buf[c])) /\ pc[c] = "session" /\ ~(0 < opt[c].number) =>
                        to = "done" /\ b = <<>>
                  /\ ~(k < Len(buf[c])) /\ pc[c] # "session" => to = "ack" /\ b = <<>>
  <2>1. CASE Hungup(c) /\ Go(c, "failed", <<>>) /\ UNCHANGED up
    <3>1. At(up, up', c, up[c])
      BY <2>1 DEF At
    <3> QED
      BY <2>1, <3>1 DEF Go
  <2>2. CASE \E k \in Parts(buf[c], Cap - Len(up[c])) :
                /\ up' = [up EXCEPT ![c] = @ \o Upto(k, buf[c])]
                /\ IF k < Len(buf[c]) THEN Go(c, pc[c], After(k, buf[c]))
                   ELSE IF pc[c] = "session" THEN NextFrame(c, 0)
                   ELSE Go(c, "ack", <<>>)
    <3>1. PICK k \in Parts(buf[c], Cap - Len(up[c])) :
                /\ up' = [up EXCEPT ![c] = @ \o Upto(k, buf[c])]
                /\ IF k < Len(buf[c]) THEN Go(c, pc[c], After(k, buf[c]))
                   ELSE IF pc[c] = "session" THEN NextFrame(c, 0)
                   ELSE Go(c, "ack", <<>>)
      BY <2>2
    <3>2. At(up, up', c, Join(up[c], Upto(k, buf[c])))
      BY <1>1, <3>1 DEF Join, At, Shape
    <3>3. CASE k < Len(buf[c])
      BY <3>1, <3>2, <3>3 DEF Go
    <3>4. CASE ~(k < Len(buf[c])) /\ pc[c] = "session"
      BY <3>1, <3>2, <3>4 DEF Go, NextFrame
    <3>5. CASE ~(k < Len(buf[c])) /\ pc[c] # "session"
      BY <3>1, <3>2, <3>5 DEF Go
    <3> QED
      BY <3>3, <3>4, <3>5
  <2> QED
    BY <2>1, <2>2 DEF Write
<1>4. \A d \in Clients \ {c} : Same(d)
  BY <1>1, <1>2, <1>3 DEF Same, Shape, At
<1>5. pc'[c] = to /\ buf'[c] = b /\ up'[c] = v
  BY <1>1, <1>3 DEF Shape, At
<1>6. ClientOK(c)'
  <2>1. CASE Hungup(c) /\ to = "failed"
    <3>1. ASSUME mode = "libev", conn[c] = "closed" PROVE FALSE
      <4>1. state[c] # "size" /\ nread[c] >= opt[c].number
        BY <1>1, <3>1 DEF ClosedLast
      <4>2. nread[c] = i[c] /\ i[c] < opt[c].number
        BY <1>1, <4>1 DEF Good, Sound, Stage
      <4>3. i[c] \in Nat /\ opt[c].number \in Nat
        BY <1>1, Messages DEF Good, Sound, Typed
      <4> QED
        BY <4>1, <4>2, <4>3
    <3> QED
      BY <1>2, <1>5, <2>1, <3>1 DEF ClientOK, Hungup
  <2>2. CASE ~(Hungup(c) /\ to = "failed")
    <3>1. PICK k \in Parts(buf[c], Cap - Len(up[c])) :
                  /\ v = Join(up[c], Upto(k, buf[c]))
                  /\ k < Len(buf[c]) => to = pc[c] /\ b = After(k, buf[c])
                  /\ ~(k < Len(buf[c])) /\ pc[c] = "session" /\ 0 < opt[c].number =>
                        to = "frame" /\ b = Frame(opt[c])
                  /\ ~(k < Len(buf[c])) /\ pc[c] = "session" /\ ~(0 < opt[c].number) =>
                        to = "done" /\ b = <<>>
                  /\ ~(k < Len(buf[c])) /\ pc[c] # "session" => to = "ack" /\ b = <<>>
      BY <1>3, <2>2
    <3>2. buf[c] \in Str /\ Cap - Len(up[c]) \in Int
      BY <1>1, LenIs, TtcpAssumption DEF Good, Sound, Typed
    <3>3. k \in 1 .. Len(buf[c])
      BY <3>2, PartsIs
    <3>4. /\ Sound(opt[c], to, b, i[c], conn[c], input[c], v, down[c], state[c],
                   smsg[c], nread[c], ackLeft[c])
          /\ to \in {"session", "frame", "ack", "done"}
      BY <1>1, <3>1, <3>3, SoundWrite DEF Good
    <3>5. Good(c)'
      BY <1>2, <1>5, <3>4 DEF Good
    <3>6. ClosedLast(c)'
      BY <1>1, <1>2 DEF ClosedLast
    <3> QED
      BY <1>5, <3>4, <3>5, <3>6 DEF ClientOK
  <2> QED
    BY <2>1, <2>2
<1>7. Shape'
  BY <1>1, <1>2, <1>3 DEF Shape, At
<1>8. ServerSurvives'
  <2>1. \A d \in Clients : pc[d] = "crashed" => pc'[d] = "crashed"
    BY <1>1, <1>3 DEF Shape
  <2> QED
    BY <1>1, <1>2, <2>1, StillSurvives
<1> QED
  BY <1>2, <1>4, <1>6, <1>7, <1>8, OneClient

LEMMA ReadAckKeeps ==
    ASSUME Inv, NEW c \in Clients, ReadAck(c)
    PROVE  Inv'
<1>1. /\ Shape /\ ClientOK(c) /\ ServerSurvives /\ pc[c] = "ack"
      /\ Good(c) /\ ClosedLast(c)
  BY DEF Inv, ClientOK, ReadAck
<1>2. /\ mode' = mode /\ opt' = opt /\ conn' = conn /\ up' = up
      /\ server' = server /\ cur' = cur /\ state' = state /\ smsg' = smsg
      /\ input' = input /\ nread' = nread /\ ackLeft' = ackLeft
  BY DEF ReadAck, serverVars
<1>3. Sound(opt[c], "ack", buf[c], i[c], conn[c], input[c], up[c], down[c],
            state[c], smsg[c], nread[c], ackLeft[c])
  BY <1>1 DEF Good
<1>4. PICK to, b, j, e :
         /\ pc' = [pc EXCEPT ![c] = to] /\ buf' = [buf EXCEPT ![c] = b]
         /\ At(i, i', c, j) /\ At(down, down', c, e)
         /\ \/ Hungup(c) /\ down[c] = <<>> /\ to = "failed"
            \/ /\ to \in {"ack", "frame", "done"}
               /\ Sound(opt[c], to, b, j, conn[c], input[c], up[c], e,
                        state[c], smsg[c], nread[c], ackLeft[c])
  <2>1. CASE Hungup(c) /\ down[c] = <<>> /\ Go(c, "failed", <<>>) /\ UNCHANGED <<down, i>>
    <3>1. At(i, i', c, i[c]) /\ At(down, down', c, down[c])
      BY <2>1 DEF At
    <3> QED
      BY <2>1, <3>1 DEF Go
  <2>2. ASSUME NEW k \in Parts(down[c], IntSize - Len(buf[c])), NEW ack,
               ack = buf[c] \o Upto(k, down[c]),
               down' = [down EXCEPT ![c] = After(k, @)],
               IF Len(ack) < IntSize
               THEN Go(c, "ack", ack) /\ UNCHANGED i
               ELSE IF ntohl(ack) # opt[c].length
               THEN Go(c, "failed", <<>>) /\ UNCHANGED i
               ELSE NextFrame(c, i[c] + 1) /\ i' = [i EXCEPT ![c] = @ + 1]
        PROVE  \E to, b, j, e :
                  /\ pc' = [pc EXCEPT ![c] = to] /\ buf' = [buf EXCEPT ![c] = b]
                  /\ At(i, i', c, j) /\ At(down, down', c, e)
                  /\ to \in {"ack", "frame", "done"}
                  /\ Sound(opt[c], to, b, j, conn[c], input[c], up[c], e,
                           state[c], smsg[c], nread[c], ackLeft[c])
    <3>1. buf[c] \in Str /\ down[c] \in Str
      BY <1>3 DEF Sound, Typed
    <3>2. IntSize - Len(buf[c]) \in Int
      BY <3>1, LenIs, TtcpAssumption
    <3>3. k \in 1 .. Len(down[c]) /\ k <= IntSize - Len(buf[c])
      BY <3>1, <3>2, PartsIs
    <3>4. ack = Join(buf[c], Upto(k, down[c]))
      BY <2>2 DEF Join
    <3>5. At(down, down', c, After(k, down[c]))
      BY <1>1, <2>2 DEF At, Shape
    <3>6. /\ Len(ack) < IntSize =>
                Sound(opt[c], "ack", ack, i[c], conn[c], input[c], up[c],
                      After(k, down[c]), state[c], smsg[c], nread[c], ackLeft[c])
          /\ ~(Len(ack) < IntSize) =>
                /\ ntohl(ack) = opt[c].length
                /\ i[c] + 1 < opt[c].number =>
                      Sound(opt[c], "frame", Frame(opt[c]), i[c] + 1, conn[c], input[c],
                            up[c], After(k, down[c]), state[c], smsg[c], nread[c], ackLeft[c])
                /\ ~(i[c] + 1 < opt[c].number) =>
                      Sound(opt[c], "done", <<>>, i[c] + 1, conn[c], input[c],
                            up[c], After(k, down[c]), state[c], smsg[c], nread[c], ackLeft[c])
      BY <1>3, <3>3, <3>4, SoundReadAck
    <3>7. CASE Len(ack) < IntSize
      <4>1. Go(c, "ack", ack) /\ At(i, i', c, i[c])
        BY <2>2, <3>7 DEF At
      <4> QED
        BY <3>5, <3>6, <3>7, <4>1 DEF Go
    <3>8. CASE ~(Len(ack) < IntSize)
      <4>1. NextFrame(c, i[c] + 1) /\ At(i, i', c, i[c] + 1)
        BY <1>1, <2>2, <3>6, <3>8 DEF At, Shape
      <4>2. CASE i[c] + 1 < opt[c].number
        BY <3>5, <3>6, <3>8, <4>1, <4>2 DEF NextFrame, Go
      <4>3. CASE ~(i[c] + 1 < opt[c].number)
        BY <3>5, <3>6, <3>8, <4>1, <4>3 DEF NextFrame, Go
      <4> QED
        BY <4>2, <4>3
    <3> QED
      BY <3>7, <3>8
  <2> QED
    BY <2>1, <2>2, Zenon DEF ReadAck
<1>5. \A d \in Clients \ {c} : Same(d)
  BY <1>1, <1>2, <1>4 DEF Same, Shape, At
<1>6. pc'[c] = to /\ buf'[c] = b /\ i'[c] = j /\ down'[c] = e
  BY <1>1, <1>4 DEF Shape, At
<1>7. ClientOK(c)'
  <2>1. CASE Hungup(c) /\ down[c] = <<>> /\ to = "failed"
    <3>1. ASSUME mode = "libev", conn[c] = "closed" PROVE FALSE
      <4>1. state[c] # "size" /\ nread[c] >= opt[c].number
        BY <1>1, <3>1 DEF ClosedLast
      <4>2. nread[c] = i[c] /\ i[c] < opt[c].number
        BY <1>3, <2>1, <4>1 DEF Sound, Stage, Acked
      <4>3. i[c] \in Nat /\ opt[c].number \in Nat
        BY <1>3, Messages DEF Sound, Typed
      <4> QED
        BY <4>1, <4>2, <4>3
    <3> QED
      BY <1>2, <1>6, <2>1, <3>1 DEF ClientOK, Hungup
  <2>2. CASE /\ to \in {"ack", "frame", "done"}
             /\ Sound(opt[c], to, b, j, conn[c], input[c], up[c], e,
                      state[c], smsg[c], nread[c], ackLeft[c])
    <3>1. Good(c)'
      BY <1>2, <1>6, <2>2 DEF Good
    <3>2. ClosedLast(c)'
      BY <1>1, <1>2 DEF ClosedLast
    <3> QED
      BY <1>6, <2>2, <3>1, <3>2 DEF ClientOK
  <2> QED
    BY <1>4, <2>1, <2>2
<1>8. Shape'
  BY <1>1, <1>2, <1>4 DEF Shape, At
<1>9. ServerSurvives'
  <2>1. \A d \in Clients : pc[d] = "crashed" => pc'[d] = "crashed"
    BY <1>1, <1>4 DEF Shape
  <2> QED
    BY <1>1, <1>2, <2>1, StillSurvives
<1> QED
  BY <1>2, <1>5, <1>7, <1>8, <1>9, OneClient

LEMMA CrashKeeps ==
    ASSUME Inv, NEW c \in Clients, Crash(c)
    PROVE  Inv'
<1>1. Shape /\ ServerSurvives
  BY DEF Inv
<1>2. /\ mode' = mode /\ opt' = opt /\ i' = i /\ conn' = conn /\ up' = up /\ down' = down
      /\ server' = server /\ cur' = cur /\ state' = state /\ smsg' = smsg
      /\ input' = input /\ nread' = nread /\ ackLeft' = ackLeft
      /\ pc' = [pc EXCEPT ![c] = "crashed"] /\ buf' = [buf EXCEPT ![c] = <<>>]
  BY DEF Crash, Go, serverVars
<1>3. \A d \in Clients \ {c} : Same(d)
  BY <1>1, <1>2 DEF Same, Shape
<1>4. ClientOK(c)'
  BY <1>1, <1>2 DEF Shape, ClientOK
<1>5. Shape'
  BY <1>1, <1>2 DEF Shape
<1>6. ServerSurvives'
  <2>1. \A d \in Clients : pc[d] = "crashed" => pc'[d] = "crashed"
    BY <1>1, <1>2 DEF Shape
  <2> QED
    BY <1>1, <1>2, <2>1, StillSurvives
<1> QED
  BY <1>2, <1>3, <1>4, <1>5, <1>6, OneClient

\* The server's ends of the connections change and nothing else does: none is
\* opened again, and only the blocking server closes any.
LEMMA ConnKeeps ==
    ASSUME Inv, DOMAIN conn' = Clients,
           UNCHANGED <<mode, opt, clientVars, up, down, serverVars>>,
           \A d \in Clients :
              conn'[d] = conn[d] \/ (/\ conn[d] = "queued"
                                     /\ conn'[d] \in {"accepted", "closed"}
                                     /\ conn'[d] = "closed" => mode # "libev")
    PROVE  Inv'
<1>1. /\ mode' = mode /\ opt' = opt /\ i' = i /\ up' = up /\ down' = down
      /\ server' = server /\ cur' = cur /\ state' = state /\ smsg' = smsg
      /\ input' = input /\ nread' = nread /\ ackLeft' = ackLeft
      /\ pc' = pc /\ buf' = buf
  BY DEF clientVars, serverVars
<1>2. ASSUME NEW d \in Clients
      PROVE  ClientOK(d)'
  <2>1. ClientOK(d)
    BY DEF Inv
  <2>2. CASE conn'[d] = conn[d]
    BY <1>1, <2>1, <2>2, SameOK DEF Same
  <2>3. CASE /\ conn[d] = "queued" /\ conn'[d] \in {"accepted", "closed"}
             /\ conn'[d] = "closed" => mode # "libev"
    <3>1. Good(d) => Good(d)'
      BY <1>1, <2>3, SoundConn DEF Good
    <3> QED
      BY <1>1, <2>1, <2>3, <3>1 DEF ClientOK, ClosedLast
  <2> QED
    BY <2>2, <2>3
<1>3. Shape'
  <2>1. Shape
    BY DEF Inv
  <2> QED
    BY <1>1, <2>1 DEF Shape
<1>4. ServerSurvives'
  BY <1>1, StillSurvives DEF Inv
<1> QED
  BY <1>2, <1>3, <1>4 DEF Inv

LEMMA AcceptKeeps ==
    ASSUME Inv, NEW c \in Clients, server_read_cb(c) \/ accept_or_die(c)
    PROVE  Inv'
<1>1. DOMAIN conn = Clients
  BY DEF Inv, Shape
<1>2. CASE server_read_cb(c)
  <2>1. /\ UNCHANGED <<mode, opt, clientVars, up, down, serverVars>>
        /\ conn' = [conn EXCEPT ![c] = "accepted"] /\ conn[c] = "queued"
    BY <1>2 DEF server_read_cb
  <2>2. DOMAIN conn' = Clients
    BY <1>1, <2>1
  <2>3. \A d \in Clients : conn'[d] = conn[d] \/ (conn[d] = "queued" /\ conn'[d] = "accepted")
    BY <1>1, <2>1
  <2> QED
    BY <2>1, <2>2, <2>3, ConnKeeps
<1>3. CASE accept_or_die(c)
  <2>1. /\ UNCHANGED <<mode, opt, clientVars, up, down, serverVars>>
        /\ conn' = [d \in Clients |-> IF d = c THEN "accepted"
                                     ELSE IF conn[d] = "queued" THEN "closed"
                                     ELSE conn[d]]
        /\ conn[c] = "queued" /\ mode = "blocking"
    BY <1>3 DEF accept_or_die
  <2>2. DOMAIN conn' = Clients
    BY <2>1
  <2>3. \A d \in Clients :
           conn'[d] = conn[d] \/ (/\ conn[d] = "queued"
                                  /\ conn'[d] \in {"accepted", "closed"}
                                  /\ conn'[d] = "closed" => mode # "libev")
    BY <2>1
  <2> QED
    BY <2>1, <2>2, <2>3, ConnKeeps
<1> QED
  BY <1>2, <1>3

\* The server runs and client c is the one it serves.
Served(c) ==
    server = "running" /\ (conn[c] = "accepted" \/ (conn[c] = "closed" /\ mode = "libev"))

LEMMA ServedIs ==
    ASSUME Inv, NEW c \in Clients, Served(c)
    PROVE  pc[c] = "crashed" \/ (pc[c] # "failed" /\ Good(c) /\ ClosedLast(c))
BY DEF Inv, Served, ClientOK

\* A step of the server that serves c.
LEMMA ServerStep ==
    ASSUME Inv, NEW c \in Clients, Served(c), UNCHANGED <<mode, opt, clientVars>>,
           server' # "failed", \A d \in Clients \ {c} : Same(d), Shape',
           pc[c] # "crashed" /\ Good(c) /\ ClosedLast(c) => Good(c)' /\ ClosedLast(c)'
    PROVE  Inv'
<1>1. mode' = mode /\ opt' = opt /\ pc' = pc /\ server = "running"
  BY DEF clientVars, Served
<1>2. ClientOK(c)'
  <2>1. ClientOK(c)
    BY DEF Inv
  <2>2. pc[c] = "crashed" \/ (pc[c] # "failed" /\ Good(c)' /\ ClosedLast(c)')
    BY ServedIs
  <2> QED
    BY <1>1, <2>1, <2>2 DEF ClientOK
<1>3. ServerSurvives'
  BY DEF ServerSurvives
<1> QED
  BY <1>1, <1>2, <1>3, OneClient

\* The server dies of a client that was killed or is refused.
LEMMA FailKeeps ==
    ASSUME Inv, NEW c \in Clients, UNCHANGED <<mode, opt, clientVars, conn, up, down>>,
           Fail, pc[c] = "crashed" \/ Unacceptable(opt[c])
    PROVE  Inv'
<1>1. /\ mode' = mode /\ opt' = opt /\ i' = i /\ conn' = conn /\ up' = up /\ down' = down
      /\ server' = "failed" /\ cur' = cur /\ state' = state /\ smsg' = smsg
      /\ input' = input /\ nread' = nread /\ ackLeft' = ackLeft
      /\ pc' = pc /\ buf' = buf
  BY DEF Fail, clientVars
<1>2. \A d \in Clients : ClientOK(d)'
  BY <1>1, SameOK DEF Same, Inv
<1>3. Shape'
  <2>1. Shape
    BY DEF Inv
  <2> QED
    BY <1>1, <2>1 DEF Shape
<1>4. ServerSurvives'
  BY <1>1 DEF ServerSurvives, Unacceptable
<1> QED
  BY <1>2, <1>3, <1>4 DEF Inv

\* A read() of either server.
LEMMA ReceiveKeeps ==
    ASSUME Inv, NEW c \in Clients, Served(c),
           UNCHANGED <<mode, opt, clientVars, conn, down, server, state, smsg, nread, ackLeft>>,
           cur' = cur \/ (cur' = c /\ mode = "libev"), NEW k, Receive(c, k),
           pc[c] # "crashed" /\ Good(c) => k \in 1 .. Len(up[c])
    PROVE  Inv'
<1>1. /\ mode' = mode /\ opt' = opt /\ i' = i /\ conn' = conn /\ down' = down
      /\ server' = server /\ state' = state /\ smsg' = smsg
      /\ nread' = nread /\ ackLeft' = ackLeft /\ pc' = pc /\ buf' = buf
      /\ input' = [input EXCEPT ![c] = Join(@, Upto(k, up[c]))]
      /\ up' = [up EXCEPT ![c] = After(k, @)]
  BY DEF clientVars, Receive, Join
<1>2. Shape
  BY DEF Inv
<1>3. \A d \in Clients \ {c} : Same(d)
  BY <1>1, <1>2 DEF Same, Shape
<1>4. Shape'
  BY <1>1, <1>2 DEF Shape, Served
<1>5. input'[c] = Join(input[c], Upto(k, up[c])) /\ up'[c] = After(k, up[c])
  BY <1>1, <1>2 DEF Shape
<1>6. pc[c] # "crashed" /\ Good(c) => Good(c)'
  BY <1>1, <1>5, SoundReceive DEF Good
<1>7. ClosedLast(c) => ClosedLast(c)'
  BY <1>1 DEF ClosedLast
<1>8. server' # "failed"
  BY <1>1 DEF Served
<1> QED
  BY <1>3, <1>4, <1>6, <1>7, <1>8, ServerStep

LEMMA ReadfdKeeps ==
    ASSUME Inv, NEW c \in Clients, Readfd(c)
    PROVE  Inv'
<1>1. Served(c) /\ mode = "libev" /\ conn[c] = "accepted"
  BY DEF Readfd, Served
<1>2. UNCHANGED <<mode, opt, clientVars, conn, down>>
  BY DEF Readfd
<1>3. CASE ReadsEnd(c) /\ Fail /\ UNCHANGED up
  <2>1. pc[c] = "crashed" \/ Unacceptable(opt[c])
    <3>1. CASE pc[c] # "crashed"
      <4>1. pc[c] = "done" /\ Good(c)
        BY <1>1, <1>3, <3>1, ServedIs DEF ReadsEnd, Gone
      <4>2. Sound(opt[c], "done", buf[c], i[c], "accepted", input[c], up[c], down[c],
                  state[c], smsg[c], nread[c], ackLeft[c])
        BY <1>1, <4>1 DEF Good
      <4>3. opt[c].number = 0
        BY <4>2, SoundDone
      <4> QED
        BY <1>1, <4>3 DEF Unacceptable
    <3> QED
      BY <3>1
  <2> QED
    BY <1>2, <1>3, <2>1, FailKeeps
<1>4. ASSUME NEW k \in 1 .. Len(up[c]), Receive(c, k), cur' = c,
             UNCHANGED <<server, state, smsg, nread, ackLeft>>
      PROVE  Inv'
  BY <1>1, <1>2, <1>4, ReceiveKeeps
<1> QED
  BY <1>3, <1>4 DEF Readfd

LEMMA ReadNKeeps ==
    ASSUME Inv, NEW c \in Clients, ReadN(c)
    PROVE  Inv'
<1>1. /\ Served(c) /\ mode = "blocking" /\ conn[c] = "accepted"
      /\ state[c] # "ack" /\ Len(input[c]) < Want(c)
  BY DEF ReadN, Served
<1>2. UNCHANGED <<mode, opt, clientVars, conn, down>>
  BY DEF ReadN
<1>3. CASE ReadsEnd(c) /\ Fail /\ UNCHANGED up
  <2>1. pc[c] = "crashed"
    <3>1. ASSUME pc[c] # "crashed" PROVE FALSE
      <4>1. pc[c] = "done" /\ Good(c)
        BY <1>1, <1>3, <3>1, ServedIs DEF ReadsEnd, Gone
      <4>2. Sound(opt[c], "done", buf[c], i[c], "accepted", input[c], up[c], down[c],
                  state[c], smsg[c], nread[c], ackLeft[c])
        BY <1>1, <4>1 DEF Good
      <4>3. /\ state[c] = "size" /\ down[c] = <<>>
            /\ up[c] = <<>> => Len(input[c]) = 2 * IntSize
        BY <4>2, SoundDone
      <4>4. Len(input[c]) = 2 * IntSize /\ Want(c) = 2 * IntSize
        BY <1>3, <4>3 DEF ReadsEnd, Want
      <4> QED
        BY <1>1, <4>4, TtcpAssumption
    <3> QED
      BY <3>1
  <2> QED
    BY <1>2, <1>3, <2>1, FailKeeps
<1>4. ASSUME NEW k \in Parts(up[c], Want(c) - Len(input[c])), Receive(c, k),
             UNCHANGED <<server, cur, state, smsg, nread, ackLeft>>
      PROVE  Inv'
  <2>1. ASSUME Good(c) PROVE k \in 1 .. Len(up[c])
    <3>1. /\ up[c] \in Str /\ input[c] \in Str /\ opt[c] \in Opts
          /\ state[c] # "size" => smsg[c] = opt[c]
      BY <2>1 DEF Good, Sound, Typed
    <3>2. IntSize \in Nat /\ opt[c].length \in Nat
      BY <3>1, Messages, TtcpAssumption
    <3>3. Want(c) \in Int /\ Len(input[c]) \in Nat
      BY <3>1, <3>2, LenIs DEF Want
    <3>4. Want(c) - Len(input[c]) \in Int
      BY <3>3
    <3> QED
      BY <3>1, <3>4, PartsIs
  <2> QED
    BY <1>1, <1>2, <1>4, <2>1, ReceiveKeeps
<1> QED
  BY <1>3, <1>4 DEF ReadN

LEMMA CallbackEndsKeeps ==
    ASSUME Inv, NEW c \in Clients, CallbackEnds(c)
    PROVE  Inv'
<1>1. /\ mode' = mode /\ opt' = opt /\ i' = i /\ conn' = conn /\ up' = up /\ down' = down
      /\ server' = server /\ cur' = NULL /\ state' = state /\ smsg' = smsg
      /\ input' = input /\ nread' = nread /\ ackLeft' = ackLeft
      /\ pc' = pc /\ buf' = buf
  BY DEF CallbackEnds, clientVars
<1>2. \A d \in Clients : ClientOK(d)'
  BY <1>1, SameOK DEF Same, Inv
<1>3. Shape'
  <2>1. Shape
    BY DEF Inv
  <2> QED
    BY <1>1, <2>1 DEF Shape
<1>4. ServerSurvives'
  BY <1>1, StillSurvives DEF Inv
<1> QED
  BY <1>2, <1>3, <1>4 DEF Inv

LEMMA SigintKeeps ==
    ASSUME Inv, Sigint
    PROVE  Inv'
<1>1. /\ mode' = mode /\ opt' = opt /\ i' = i /\ conn' = conn /\ up' = up /\ down' = down
      /\ server' = "exited" /\ cur' = cur /\ state' = state /\ smsg' = smsg
      /\ input' = input /\ nread' = nread /\ ackLeft' = ackLeft
      /\ pc' = pc /\ buf' = buf
  BY DEF Sigint, clientVars
<1>2. \A d \in Clients : ClientOK(d)'
  BY <1>1, SameOK DEF Same, Inv
<1>3. Shape'
  <2>1. Shape
    BY DEF Inv
  <2> QED
    BY <1>1, <2>1 DEF Shape
<1>4. ServerSurvives'
  BY <1>1 DEF ServerSurvives
<1> QED
  BY <1>2, <1>3, <1>4 DEF Inv

\* Either server takes the session message.
LEMMA TakeSessionKeeps ==
    ASSUME Inv, NEW c \in Clients, Served(c), state[c] = "size",
           Len(input[c]) >= 2 * IntSize, TakeSession(c),
           UNCHANGED <<mode, opt, clientVars, up, down>>
    PROVE  Inv'
<1>1. Shape
  BY DEF Inv
<1>2. PICK m : /\ m = [number |-> ntohl(Upto(IntSize, input[c])),
                       length |-> ntohl(SubSeq(input[c], IntSize + 1, 2 * IntSize))]
               /\ IF Unacceptable(m) THEN Fail /\ UNCHANGED conn
                  ELSE /\ smsg' = [smsg EXCEPT ![c] = m]
                       /\ input' = [input EXCEPT ![c] = After(2 * IntSize, @)]
                       /\ state' = [state EXCEPT ![c] = "frame"]
                       /\ IF m.number <= 0
                          THEN server' = "exited" /\ conn' = [conn EXCEPT ![c] = "closed"]
                          ELSE UNCHANGED <<server, conn>>
                       /\ UNCHANGED <<cur, nread, ackLeft>>
  BY DEF TakeSession
<1>3. ASSUME Good(c)
      PROVE  m = opt[c] /\ opt[c].number \in Nat
  <2>1. Sound(opt[c], pc[c], buf[c], i[c], conn[c], input[c], up[c], down[c],
              "size", smsg[c], nread[c], ackLeft[c])
    BY <1>3 DEF Good
  <2>2. /\ ntohl(Upto(IntSize, input[c])) = opt[c].number
        /\ ntohl(SubSeq(input[c], IntSize + 1, 2 * IntSize)) = opt[c].length
        /\ opt[c] \in Opts
    BY <2>1, SoundSession
  <2> QED
    BY <1>2, <2>2 DEF Opts
<1>4. CASE Unacceptable(m)
  <2>1. Fail /\ UNCHANGED conn
    BY <1>2, <1>4
  <2>2. pc[c] = "crashed" \/ Unacceptable(opt[c])
    BY <1>3, <1>4, ServedIs
  <2> QED
    BY <2>1, <2>2, FailKeeps
<1>5. CASE ~Unacceptable(m)
  <2>1. /\ mode' = mode /\ opt' = opt /\ i' = i /\ up' = up /\ down' = down
        /\ cur' = cur /\ nread' = nread /\ ackLeft' = ackLeft /\ pc' = pc /\ buf' = buf
        /\ smsg' = [smsg EXCEPT ![c] = m]
        /\ input' = [input EXCEPT ![c] = After(2 * IntSize, @)]
        /\ state' = [state EXCEPT ![c] = "frame"]
    BY <1>2, <1>5 DEF clientVars
  <2>2. PICK cl : /\ At(conn, conn', c, cl) /\ server' \in {"running", "exited"}
                  /\ m.number <= 0 => cl = "closed"
                  /\ ~(m.number <= 0) => cl = conn[c]
    <3>1. CASE m.number <= 0
      <4>1. server' = "exited" /\ conn' = [conn EXCEPT ![c] = "closed"]
        BY <1>2, <1>5, <3>1
      <4>2. At(conn, conn', c, "closed")
        BY <1>1, <4>1 DEF At, Shape
      <4> QED
        BY <3>1, <4>1, <4>2
    <3>2. CASE ~(m.number <= 0)
      <4>1. server' = server /\ conn' = conn
        BY <1>2, <1>5, <3>2
      <4>2. At(conn, conn', c, conn[c])
        BY <4>1 DEF At
      <4> QED
        BY <3>2, <4>1, <4>2 DEF Served
    <3> QED
      BY <3>1, <3>2
  <2>3. /\ smsg'[c] = m /\ input'[c] = After(2 * IntSize, input[c])
        /\ state'[c] = "frame" /\ conn'[c] = cl
    BY <1>1, <2>1, <2>2 DEF Shape, At
  <2>4. \A d \in Clients \ {c} : Same(d)
    BY <1>1, <2>1, <2>2 DEF Same, Shape, At
  <2>5. Shape'
    <3>1. cur # NULL => conn'[cur] \in {"accepted", "closed"}
      BY <1>1, <2>2 DEF Shape, At
    <3> QED
      BY <1>1, <2>1, <2>2, <3>1 DEF Shape, At
  <2>6. ASSUME Good(c), ClosedLast(c)
        PROVE  Good(c)' /\ ClosedLast(c)'
    <3>1. Sound(opt[c], pc[c], buf[c], i[c], conn[c], input[c], up[c], down[c],
                "size", smsg[c], nread[c], ackLeft[c]) /\ nread[c] = 0
      BY <2>6 DEF Good, Sound
    <3>2. m = opt[c] /\ opt[c].number \in Nat
      BY <1>3, <2>6
    <3>3. opt[c].number > 0 \/ cl = "closed"
      BY <2>2, <3>2
    <3>4. Sound(opt[c], pc[c], buf[c], i[c], cl, After(2 * IntSize, input[c]), up[c],
                down[c], "frame", opt[c], nread[c], ackLeft[c])
      BY <3>1, <3>3, SoundSession
    <3>5. Good(c)'
      BY <2>1, <2>3, <3>2, <3>4 DEF Good
    <3>6. ClosedLast(c)'
      BY <2>1, <2>2, <2>3, <2>6, <3>1, <3>2 DEF ClosedLast
    <3> QED
      BY <3>5, <3>6
  <2> QED
    BY <2>2, <2>4, <2>5, <2>6, ServerStep
<1> QED
  BY <1>4, <1>5

\* The client whose callback runs is served.
LEMMA CurIsServed ==
    ASSUME Inv, NEW c \in Clients, cur = c, server = "running"
    PROVE  Served(c)
BY TtcpAssumption DEF Inv, Shape, Served

LEMMA SessionKeeps ==
    ASSUME Inv, NEW c \in Clients, ExpectFrameSize(c) \/ SessionRead(c)
    PROVE  Inv'
<1>1. Served(c)
  BY CurIsServed DEF ExpectFrameSize, SessionRead, Served
<1>2. /\ state[c] = "size" /\ Len(input[c]) >= 2 * IntSize /\ TakeSession(c)
      /\ UNCHANGED <<mode, opt, clientVars, up, down>>
  BY TtcpAssumption DEF ExpectFrameSize, SessionRead, Want
<1> QED
  BY <1>1, <1>2, TakeSessionKeeps

LEMMA ExpectFrameKeeps ==
    ASSUME Inv, NEW c \in Clients, ExpectFrame(c)
    PROVE  Inv'
<1>1. /\ Shape /\ Served(c) /\ state[c] = "frame" /\ Want(c) = IntSize + smsg[c].length
      /\ Len(input[c]) >= IntSize + smsg[c].length
  BY CurIsServed DEF ExpectFrame, Want, Inv
<1>2. /\ mode' = mode /\ opt' = opt /\ i' = i /\ up' = up /\ pc' = pc /\ buf' = buf
  BY DEF ExpectFrame, clientVars
<1>3. ASSUME Good(c)
      PROVE  /\ pc[c] = "ack" /\ smsg[c] = opt[c] /\ down[c] = <<>>
             /\ Upto(IntSize, input[c]) = htonl(opt[c].length)
             /\ ntohl(Upto(IntSize, input[c])) = opt[c].length
             /\ opt[c].length \in Nat /\ opt[c].number \in Nat /\ nread[c] \in Nat
             /\ Sound(opt[c], pc[c], buf[c], i[c], conn[c], input[c], up[c], down[c],
                      "frame", smsg[c], nread[c], ackLeft[c])
  <2>1. Sound(opt[c], pc[c], buf[c], i[c], conn[c], input[c], up[c], down[c],
              "frame", smsg[c], nread[c], ackLeft[c])
    BY <1>1, <1>3 DEF Good
  <2>2. /\ pc[c] = "ack" /\ smsg[c] = opt[c] /\ down[c] = <<>>
        /\ Upto(IntSize, input[c]) = htonl(opt[c].length)
    BY <1>1, <2>1, FrameWhole
  <2>3. opt[c] \in Opts /\ nread[c] \in Nat
    BY <2>1 DEF Sound, Typed
  <2> QED
    BY <2>1, <2>2, <2>3, Messages, Encoded
<1>4. PICK len, ack :
         /\ len = ntohl(Upto(IntSize, input[c]))
         /\ ack = Upto(Min2(IntSize, Cap - Len(down[c])), htonl(len))
         /\ \/ /\ len # smsg[c].length \/ Gone(c)
               /\ Fail /\ UNCHANGED <<down, conn>>
            \/ /\ len = smsg[c].length
               /\ input' = [input EXCEPT ![c] = After(Want(c), @)]
               /\ down' = [down EXCEPT ![c] = @ \o ack]
               /\ nread' = [nread EXCEPT ![c] = @ + 1]
               /\ conn' = IF AllReceived(c, nread[c] + 1)
                          THEN [conn EXCEPT ![c] = "closed"] ELSE conn
               /\ UNCHANGED <<server, cur, state, smsg, ackLeft>>
  BY DEF ExpectFrame
<1>5. CASE /\ len # smsg[c].length \/ Gone(c)
           /\ Fail /\ UNCHANGED <<down, conn>>
  <2>1. pc[c] = "crashed"
    <3>1. ~Good(c)
      BY <1>3, <1>4, <1>5 DEF Gone
    <3> QED
      BY <1>1, <3>1, ServedIs
  <2>2. UNCHANGED <<mode, opt, clientVars, conn, up, down>>
    BY <1>2, <1>5 DEF clientVars
  <2> QED
    BY <1>5, <2>1, <2>2, FailKeeps
<1>6. CASE /\ len = smsg[c].length
           /\ input' = [input EXCEPT ![c] = After(Want(c), @)]
           /\ down' = [down EXCEPT ![c] = @ \o ack]
           /\ nread' = [nread EXCEPT ![c] = @ + 1]
           /\ conn' = IF AllReceived(c, nread[c] + 1)
                      THEN [conn EXCEPT ![c] = "closed"] ELSE conn
           /\ UNCHANGED <<server, cur, state, smsg, ackLeft>>
  <2>1. /\ server' = server /\ cur' = cur /\ state' = state /\ smsg' = smsg
        /\ ackLeft' = ackLeft
        /\ input'[c] = After(IntSize + smsg[c].length, input[c])
        /\ down'[c] = Join(down[c], ack) /\ nread'[c] = nread[c] + 1
    BY <1>1, <1>6 DEF Shape, Join
  <2>2. PICK cl : /\ At(conn, conn', c, cl)
                  /\ nread[c] + 1 >= smsg[c].number => cl = "closed"
                  /\ cl = conn[c] \/ nread[c] + 1 >= smsg[c].number
                  /\ cl = conn[c] \/ cl = "closed"
    <3>1. CASE nread[c] + 1 >= smsg[c].number
      <4>1. conn' = [conn EXCEPT ![c] = "closed"]
        BY <1>6, <3>1 DEF AllReceived
      <4>2. At(conn, conn', c, "closed")
        BY <1>1, <4>1 DEF At, Shape
      <4> QED
        BY <3>1, <4>2
    <3>2. CASE ~(nread[c] + 1 >= smsg[c].number)
      <4>1. conn' = conn
        BY <1>6, <3>2 DEF AllReceived
      <4>2. At(conn, conn', c, conn[c])
        BY <4>1 DEF At
      <4> QED
        BY <3>2, <4>2
    <3> QED
      BY <3>1, <3>2
  <2>3. \A d \in Clients \ {c} : Same(d)
    BY <1>1, <1>2, <1>6, <2>1, <2>2 DEF Same, Shape, At
  <2>4. Shape'
    <3>1. cur # NULL => conn'[cur] \in {"accepted", "closed"}
      BY <1>1, <2>2 DEF Shape, At
    <3> QED
      BY <1>1, <1>2, <1>6, <2>1, <2>2, <3>1 DEF Shape, At
  <2>5. ASSUME Good(c), ClosedLast(c)
        PROVE  Good(c)' /\ ClosedLast(c)'
    <3>1. ack = htonl(opt[c].length)
      <4>1. htonl(opt[c].length) \in Str /\ Len(htonl(opt[c].length)) = IntSize
        BY <1>3, <2>5, Encoded
      <4>2. Len(down[c]) = 0
        BY <1>3, <2>5, NilIs
      <4>3. Min2(IntSize, Cap - Len(down[c])) = IntSize
        BY <4>2, TtcpAssumption DEF Min2
      <4> QED
        BY <1>3, <1>4, <2>5, <4>1, <4>3, CutAll
    <3>2. nread[c] + 1 >= opt[c].number => cl = "closed"
      BY <1>3, <2>2, <2>5
    <3>3. Sound(opt[c], pc[c], buf[c], i[c], cl, After(IntSize + smsg[c].length, input[c]),
                up[c], Join(down[c], htonl(opt[c].length)), "frame", smsg[c],
                nread[c] + 1, ackLeft[c])
      BY <1>1, <1>3, <2>5, <3>2, SoundFrame, ZenonT(60)
    <3>4. conn'[c] = cl
      BY <2>2 DEF At
    <3>5. Good(c)'
      BY <1>1, <1>2, <2>1, <3>1, <3>3, <3>4 DEF Good
    <3>6. ClosedLast(c)'
      BY <1>1, <1>2, <1>3, <2>1, <2>2, <2>5, <3>4 DEF ClosedLast
    <3> QED
      BY <3>5, <3>6
  <2>6. server' # "failed" /\ UNCHANGED <<mode, opt, clientVars>>
    BY <1>1, <1>2, <2>1 DEF Served, clientVars
  <2> QED
    BY <1>1, <2>3, <2>4, <2>5, <2>6, ServerStep
<1> QED
  BY <1>4, <1>5, <1>6

LEMMA FrameReadKeeps ==
    ASSUME Inv, NEW c \in Clients, FrameRead(c)
    PROVE  Inv'
<1>1. /\ Shape /\ Served(c) /\ state[c] = "frame"
      /\ Len(input[c]) = IntSize + smsg[c].length
  BY DEF FrameRead, Want, Inv, Served
<1>2. /\ mode' = mode /\ opt' = opt /\ i' = i /\ up' = up /\ pc' = pc /\ buf' = buf
      /\ conn' = conn /\ down' = down
  BY DEF FrameRead, clientVars
<1>3. ASSUME Good(c)
      PROVE  Sound(opt[c], pc[c], buf[c], i[c], conn[c], input[c], up[c], down[c],
                   "frame", smsg[c], nread[c], ackLeft[c])
  BY <1>1, <1>3 DEF Good
<1>4. CASE Fail
  <2>1. ASSUME Good(c) PROVE ntohl(Upto(IntSize, input[c])) = smsg[c].length
    <3>1. opt[c] \in Opts /\ smsg[c] = opt[c]
      BY <1>3, <2>1 DEF Sound, Typed
    <3>2. Len(input[c]) >= IntSize + smsg[c].length
      BY <1>1, <3>1, Messages, TtcpAssumption
    <3>3. Upto(IntSize, input[c]) = htonl(opt[c].length)
      BY <1>3, <2>1, <3>2, FrameWhole
    <3> QED
      BY <3>1, <3>3, Messages, Encoded
  <2>2. ntohl(Upto(IntSize, input[c])) # smsg[c].length
    BY <1>1, <1>4 DEF FrameRead, Fail, Served
  <2>3. pc[c] = "crashed"
    BY <1>1, <2>1, <2>2, ServedIs
  <2>4. UNCHANGED <<mode, opt, clientVars, conn, up, down>>
    BY <1>2 DEF clientVars
  <2> QED
    BY <1>4, <2>3, <2>4, FailKeeps
<1>5. CASE /\ state' = [state EXCEPT ![c] = "ack"]
           /\ ackLeft' = [ackLeft EXCEPT ![c] = Upto(IntSize, input[c])]
           /\ input' = [input EXCEPT ![c] = <<>>]
           /\ UNCHANGED <<server, cur, smsg, nread>>
  <2>1. /\ state'[c] = "ack" /\ ackLeft'[c] = Upto(IntSize, input[c]) /\ input'[c] = <<>>
        /\ server' = server /\ cur' = cur /\ smsg' = smsg /\ nread' = nread
    BY <1>1, <1>5 DEF Shape
  <2>2. \A d \in Clients \ {c} : Same(d)
    BY <1>1, <1>2, <1>5 DEF Same, Shape
  <2>3. Shape'
    BY <1>1, <1>2, <1>5 DEF Shape
  <2>4. Good(c) => Good(c)'
    BY <1>1, <1>2, <1>3, <2>1, SoundFrameRead DEF Good
  <2>5. ClosedLast(c) => ClosedLast(c)'
    BY <1>2, <2>1 DEF ClosedLast
  <2>6. server' # "failed" /\ UNCHANGED <<mode, opt, clientVars>>
    BY <1>1, <1>2, <2>1 DEF Served, clientVars
  <2> QED
    BY <1>1, <2>2, <2>3, <2>4, <2>5, <2>6, ServerStep
<1> QED
  BY <1>4, <1>5 DEF FrameRead

LEMMA WriteAckKeeps ==
    ASSUME Inv, NEW c \in Clients, WriteAck(c)
    PROVE  Inv'
<1>1. /\ Shape /\ Served(c) /\ state[c] = "ack" /\ mode = "blocking"
      /\ conn[c] = "accepted" /\ server = "running"
  BY DEF WriteAck, Inv, Served
<1>2. /\ mode' = mode /\ opt' = opt /\ i' = i /\ up' = up /\ pc' = pc /\ buf' = buf
  BY DEF WriteAck, clientVars
<1>3. ASSUME Good(c)
      PROVE  Sound(opt[c], pc[c], buf[c], i[c], conn[c], input[c], up[c], down[c],
                   "ack", smsg[c], nread[c], ackLeft[c])
  BY <1>1, <1>3 DEF Good
<1>4. CASE Gone(c) /\ Fail /\ UNCHANGED <<down, conn>>
  <2>1. pc[c] = "crashed"
    <3>1. ASSUME Good(c) PROVE pc[c] = "ack"
      BY <1>3, <3>1 DEF Sound, Stage
    <3> QED
      BY <1>1, <1>4, <3>1, ServedIs DEF Gone
  <2>2. UNCHANGED <<mode, opt, clientVars, conn, up, down>>
    BY <1>2, <1>4 DEF clientVars
  <2> QED
    BY <1>4, <2>1, <2>2, FailKeeps
<1>5. ASSUME NEW k \in Parts(ackLeft[c], Cap - Len(down[c])), NEW whole, NEW last,
             whole = (k = Len(ackLeft[c])),
             last = (whole /\ AllReceived(c, nread[c] + 1)),
             down' = [down EXCEPT ![c] = @ \o Upto(k, ackLeft[c])],
             ackLeft' = [ackLeft EXCEPT ![c] = After(k, @)],
             state' = IF whole THEN [state EXCEPT ![c] = "frame"] ELSE state,
             nread' = IF whole THEN [nread EXCEPT ![c] = @ + 1] ELSE nread,
             conn' = IF last THEN [conn EXCEPT ![c] = "closed"] ELSE conn,
             server' = IF last THEN "exited" ELSE server,
             UNCHANGED <<cur, smsg, input>>
      PROVE  Inv'
  <2>1. /\ down'[c] = Join(down[c], Upto(k, ackLeft[c]))
        /\ ackLeft'[c] = After(k, ackLeft[c])
        /\ cur' = cur /\ smsg' = smsg /\ input' = input
        /\ server' \in {"running", "exited"}
    BY <1>1, <1>5 DEF Shape, Join
  <2>2. PICK cl, s, n :
           /\ At(conn, conn', c, cl) /\ At(state, state', c, s) /\ At(nread, nread', c, n)
           /\ k = Len(ackLeft[c]) => /\ s = "frame" /\ n = nread[c] + 1
                                     /\ n >= smsg[c].number => cl = "closed"
           /\ k # Len(ackLeft[c]) => s = "ack" /\ n = nread[c] /\ cl = conn[c]
           /\ cl \in {conn[c], "closed"}
    <3>1. CASE k # Len(ackLeft[c])
      <4>1. conn' = conn /\ state' = state /\ nread' = nread
        BY <1>5, <3>1
      <4>2. At(conn, conn', c, conn[c]) /\ At(state, state', c, "ack") /\ At(nread, nread', c, nread[c])
        BY <1>1, <4>1 DEF At
      <4> QED
        BY <3>1, <4>2
    <3>2. CASE k = Len(ackLeft[c])
      <4>1. state' = [state EXCEPT ![c] = "frame"] /\ nread' = [nread EXCEPT ![c] = @ + 1]
        BY <1>5, <3>2
      <4>2. At(state, state', c, "frame") /\ At(nread, nread', c, nread[c] + 1)
        BY <1>1, <4>1 DEF At, Shape
      <4>3. CASE nread[c] + 1 >= smsg[c].number
        <5>1. conn' = [conn EXCEPT ![c] = "closed"]
          BY <1>5, <3>2, <4>3 DEF AllReceived
        <5>2. At(conn, conn', c, "closed")
          BY <1>1, <5>1 DEF At, Shape
        <5> QED
          BY <3>2, <4>2, <5>2
      <4>4. CASE ~(nread[c] + 1 >= smsg[c].number)
        <5>1. conn' = conn
          BY <1>5, <4>4 DEF AllReceived
        <5>2. At(conn, conn', c, conn[c])
          BY <5>1 DEF At
        <5> QED
          BY <3>2, <4>2, <4>4, <5>2
      <4> QED
        BY <4>3, <4>4
    <3> QED
      BY <3>1, <3>2
  <2>3. \A d \in Clients \ {c} : Same(d)
    BY <1>1, <1>2, <1>5, <2>1, <2>2 DEF Same, Shape, At
  <2>4. Shape'
    <3>1. cur # NULL => conn'[cur] \in {"accepted", "closed"}
      BY <1>1, <2>2 DEF Shape, At
    <3> QED
      BY <1>1, <1>2, <1>5, <2>1, <2>2, <3>1 DEF Shape, At
  <2>5. conn'[c] = cl /\ state'[c] = s /\ nread'[c] = n
    BY <2>2 DEF At
  <2>6. ASSUME Good(c) PROVE Good(c)'
    <3>1. /\ ackLeft[c] \in Str /\ Cap - Len(down[c]) \in Int /\ smsg[c] = opt[c]
          /\ nread[c] \in Nat /\ opt[c].number \in Nat
      <4>1. /\ ackLeft[c] \in Str /\ down[c] \in Str /\ smsg[c] = opt[c]
            /\ nread[c] \in Nat /\ opt[c] \in Opts
        BY <1>3, <2>6 DEF Sound, Typed
      <4> QED
        BY <4>1, LenIs, Messages, TtcpAssumption, SMTT(60)
    <3>2. k \in 1 .. Len(ackLeft[c])
      BY <3>1, PartsIs
    <3>3. Sound(opt[c], pc[c], buf[c], i[c], cl, input[c], up[c],
                Join(down[c], Upto(k, ackLeft[c])), s, smsg[c], n, After(k, ackLeft[c]))
      <4>1. CASE k = Len(ackLeft[c])
        <5>1. nread[c] + 1 >= opt[c].number => cl = "closed"
          BY <2>2, <3>1, <4>1
        <5> QED
          BY <1>3, <2>2, <2>6, <3>2, <4>1, <5>1, SoundWriteAck
      <4>2. CASE k # Len(ackLeft[c])
        BY <1>3, <2>2, <2>6, <3>2, <4>2, SoundWriteAck
      <4> QED
        BY <4>1, <4>2
    <3> QED
      BY <1>2, <2>1, <2>5, <3>3 DEF Good
  <2>7. ClosedLast(c)'
    BY <1>1, <1>2 DEF ClosedLast
  <2>8. server' # "failed" /\ UNCHANGED <<mode, opt, clientVars>>
    BY <1>2, <2>1 DEF clientVars
  <2> QED
    BY <1>1, <2>3, <2>4, <2>6, <2>7, <2>8, ServerStep
<1> QED
  BY <1>4, <1>5, Zenon DEF WriteAck

LEMMA InitKeeps == Init => Inv
<1> SUFFICES ASSUME Init PROVE Inv
  OBVIOUS
<1>1. opt \in [Clients -> Opts]
  BY TtcpAssumption DEF Init, Opts
<1>2. Shape
  BY <1>1 DEF Init, Shape
<1>3. ASSUME NEW c \in Clients
      PROVE  ClientOK(c)
  <2>1. /\ opt[c] \in Opts /\ pc[c] = "connect" /\ buf[c] = <<>> /\ i[c] = 0
        /\ conn[c] = "none" /\ input[c] = <<>> /\ up[c] = <<>> /\ down[c] = <<>>
        /\ state[c] = "size" /\ nread[c] = 0 /\ ackLeft[c] = <<>>
    BY <1>1 DEF Init
  <2>2. Typed(opt[c], buf[c], i[c], input[c], up[c], down[c], state[c], nread[c], ackLeft[c])
    BY <2>1, NilIs DEF Typed
  <2>3. Stage(opt[c], pc[c], buf[c], i[c], conn[c], input[c], up[c], down[c], state[c],
              nread[c], ackLeft[c])
    BY <2>1, FlowNil DEF Stage
  <2>4. Good(c)
    BY <2>1, <2>2, <2>3 DEF Good, Sound
  <2> QED
    BY <2>1, <2>4 DEF ClientOK, ClosedLast
<1>4. ServerSurvives
  BY DEF Init, ServerSurvives
<1> QED
  BY <1>2, <1>3, <1>4 DEF Inv

\* Nothing changes: a step of the rest of the world.
LEMMA StutterKeeps ==
    ASSUME Inv, UNCHANGED vars
    PROVE  Inv'
<1>1. UNCHANGED <<mode, opt, clientVars, up, down, serverVars>> /\ conn' = conn
  BY DEF vars
<1>2. DOMAIN conn' = Clients
  BY <1>1 DEF Inv, Shape
<1> QED
  BY <1>1, <1>2, ConnKeeps

LEMMA NextKeeps ==
    ASSUME Inv, [Next]_vars
    PROVE  Inv'
<1>1. ASSUME NEW c \in Clients, Client(c) \/ Crash(c)
      PROVE  Inv'
  BY <1>1, ConnectKeeps, WriteKeeps, ReadAckKeeps, CrashKeeps DEF Client
<1>2. ASSUME NEW c \in Clients, Serve(c)
      PROVE  Inv'
  BY <1>2, AcceptKeeps, ReadfdKeeps, CallbackEndsKeeps, SessionKeeps,
     ExpectFrameKeeps, ReadNKeeps, FrameReadKeeps, WriteAckKeeps DEF Serve
<1>3. CASE Sigint
  BY <1>3, SigintKeeps
<1>4. CASE UNCHANGED vars
  BY <1>4, StutterKeeps
<1> QED
  BY <1>1, <1>2, <1>3, <1>4 DEF Next

-----------------------------------------------------------------------------
(* The ends are in step *)

\* Part of a message, and what follows it, make up what is due.
LEMMA Prefix ==
    ASSUME NEW in \in Str, NEW u \in Str, NEW w \in Str, NEW r \in Str, NEW e,
           Flow(in, u, w, e)
    PROVE  LET due == Join(e, r)
               k == Len(in) + Len(u)
           IN  /\ k \in 0 .. Len(due) /\ Join(in, u) = Upto(k, due)
               /\ k + Len(w) = Len(e) /\ Len(w) \in Nat /\ k \in Nat
<1>1. e \in Str /\ Len(e) = Len(in) + Len(u) + Len(w) /\ Len(w) \in Nat
  BY FlowIs
<1>2. PICK x \in Str : x = Join(in, u) /\ Len(x) = Len(in) + Len(u)
  BY JoinIs
<1>3. PICK due \in Str : due = Join(e, r) /\ Len(due) = Len(e) + Len(r)
  <2>1. e \in Str
    BY <1>1
  <2>2. Join(e, r) \in Str /\ Len(Join(e, r)) = Len(e) + Len(r)
    BY <2>1, JoinIs
  <2> QED
    BY <2>2
<1>4. Join(x, w) = e
  BY <1>2, JoinAssociative DEF Flow
<1>5. PICK q \in Str : q = Join(w, r)
  BY JoinIs
<1>6. Join(due, <<>>) = Join(x, q)
  <2>1. Join(Join(x, w), r) = Join(x, Join(w, r))
    BY JoinAssociative
  <2> QED
    BY <1>3, <1>4, <1>5, <2>1, JoinIs
<1>7. Len(x) \in Nat /\ Len(r) \in Nat
  BY LenIs
<1>8. Len(x) <= Len(due)
  BY <1>1, <1>2, <1>3, <1>7
<1>9. Upto(Len(x), due) = x
  BY <1>6, <1>8, Split, NilIs
<1> QED
  BY <1>1, <1>2, <1>3, <1>7, <1>8, <1>9

\* Sent and Taken, of one connection.
SentOf(o, p, b, j) ==
    CASE p = "connect" -> 0
      [] p = "session" -> 2 * IntSize - Len(b)
      [] p = "frame"   -> 2 * IntSize + (j + 1) * (IntSize + o.length) - Len(b)
      [] p = "ack"     -> 2 * IntSize + (j + 1) * (IntSize + o.length)
      [] OTHER         -> 2 * IntSize + j * (IntSize + o.length)

TakenOf(o, s, n) ==
    IF s = "size" THEN 0
    ELSE 2 * IntSize + (n + (IF s = "ack" THEN 1 ELSE 0)) * (IntSize + o.length)

\* The bytes between the two ends of a sound connection.
LEMMA Between ==
    ASSUME NEW o, NEW p, NEW b, NEW j, NEW cn, NEW in, NEW u, NEW d, NEW s,
           NEW m, NEW n, NEW a, Sound(o, p, b, j, cn, in, u, d, s, m, n, a)
    PROVE  /\ SentOf(o, p, b, j) - TakenOf(o, s, n) \in 0 .. Len(NextOf(o, s))
           /\ Join(in, u) = Upto(SentOf(o, p, b, j) - TakenOf(o, s, n), NextOf(o, s))
<1>1. Typed(o, b, j, in, u, d, s, n, a) /\ (s = "size" => n = 0)
  BY DEF Sound
<1>2. /\ o \in Opts /\ in \in Str /\ u \in Str /\ b \in Str /\ j \in Nat /\ n \in Nat
      /\ s \in {"size", "frame", "ack"}
  BY <1>1 DEF Typed
<1>3. PICK x \in Str, f \in Str : /\ x = Session(o) /\ Len(x) = 2 * IntSize
                                 /\ f = Frame(o) /\ Len(f) = IntSize + o.length
  BY <1>2, Messages
<1>4. PICK z \in Nat : z = IntSize
  BY TtcpAssumption
<1>5. PICK l \in Nat : l = IntSize + o.length
  BY <1>2, <1>4, Messages
<1>6. PICK y \in Str : y = NextOf(o, s) /\ (s = "size" => y = Join(x, f)) /\ (s # "size" => y = f)
  BY <1>3, JoinIs DEF NextOf
<1>7. PICK g \in Nat : g = j * l /\ (j + 1) * l = g + l
  BY <1>2, <1>5
<1>8. /\ SentOf(o, p, b, j) = CASE p = "connect" -> 0
                               [] p = "session" -> 2 * z - Len(b)
                               [] p = "frame"   -> 2 * z + (j + 1) * l - Len(b)
                               [] p = "ack"     -> 2 * z + (j + 1) * l
                               [] OTHER         -> 2 * z + j * l
      /\ TakenOf(o, s, n) = IF s = "size" THEN 0
                            ELSE 2 * z + (n + (IF s = "ack" THEN 1 ELSE 0)) * l
  BY <1>4, <1>5 DEF SentOf, TakenOf
\* It suffices to show which part of what is due has left the client.
<1>9. ASSUME NEW w \in Str, NEW r \in Str, NEW e, Flow(in, u, w, e), y = Join(e, r),
             SentOf(o, p, b, j) - TakenOf(o, s, n) = Len(e) - Len(w)
      PROVE  /\ SentOf(o, p, b, j) - TakenOf(o, s, n) \in 0 .. Len(NextOf(o, s))
             /\ Join(in, u) = Upto(SentOf(o, p, b, j) - TakenOf(o, s, n), NextOf(o, s))
  <2>1. PICK k \in Nat : /\ k = Len(in) + Len(u) /\ k \in 0 .. Len(y)
                         /\ Join(in, u) = Upto(k, y) /\ k + Len(w) = Len(e) /\ Len(w) \in Nat
    BY <1>2, <1>9, Prefix, SMTT(60)
  <2>2. k = Len(e) - Len(w)
    BY <2>1
  <2> QED
    BY <1>6, <1>9, <2>1, <2>2
<1>10. Len(<<>>) = 0 /\ <<>> \in Str /\ Join(y, <<>>) = y /\ Join(<<>>, y) = y
  BY NilIs, JoinIs
<1>11. Len(b) \in Nat /\ Len(y) \in Nat
       /\ Len(y) = IF s = "size" THEN 2 * z + l ELSE l
  <2>1. Len(b) \in Nat /\ Len(y) \in Nat
    BY <1>2, LenIs
  <2>2. Len(Join(x, f)) = Len(x) + Len(f)
    BY JoinIs
  <2>3. CASE s = "size"
    BY <1>3, <1>4, <1>5, <1>6, <2>1, <2>2, <2>3
  <2>4. CASE s # "size"
    BY <1>3, <1>4, <1>5, <1>6, <2>1, <2>4
  <2> QED
    BY <2>3, <2>4
<1>12. CASE p = "connect"
  <2>1. s = "size" /\ Flow(in, u, <<>>, <<>>)
    BY <1>12 DEF Sound, Stage
  <2>2. SentOf(o, p, b, j) - TakenOf(o, s, n) = Len(<<>>) - Len(<<>>)
    BY <1>8, <1>10, <1>12, <2>1
  <2> QED
    BY <1>9, <1>10, <2>1, <2>2
<1>13. CASE p = "session"
  <2>1. s = "size" /\ Flow(in, u, b, x)
    BY <1>3, <1>13 DEF Sound, Stage
  <2>2. SentOf(o, p, b, j) - TakenOf(o, s, n) = Len(x) - Len(b)
    BY <1>3, <1>4, <1>8, <1>11, <1>13, <2>1
  <2> QED
    BY <1>2, <1>3, <1>6, <1>9, <2>1, <2>2
<1>14. CASE p = "frame"
  <2>1. s # "ack" /\ n = j /\ Flow(in, u, b, y)
    BY <1>6, <1>14 DEF Sound, Stage
  <2>2. SentOf(o, p, b, j) = 2 * z + g + l - Len(b)
    BY <1>7, <1>8, <1>11, <1>14
  <2>3. TakenOf(o, s, n) = IF s = "size" THEN 0 ELSE 2 * z + g
    BY <1>2, <1>7, <1>8, <2>1
  <2>4. s = "size" => g = 0
    BY <1>1, <1>5, <1>7, <2>1
  <2>5. SentOf(o, p, b, j) - TakenOf(o, s, n) = Len(y) - Len(b)
    BY <1>11, <2>2, <2>3, <2>4
  <2> QED
    BY <1>2, <1>9, <1>10, <2>1, <2>5
<1>15. CASE p = "ack"
  <2>1. SentOf(o, p, b, j) = 2 * z + g + l
    BY <1>7, <1>8, <1>15
  <2>2. CASE s # "ack" /\ n = j /\ Flow(in, u, <<>>, y)
    <3>1. TakenOf(o, s, n) = IF s = "size" THEN 0 ELSE 2 * z + g
      BY <1>2, <1>7, <1>8, <2>2
    <3>2. s = "size" => g = 0
      BY <1>1, <1>5, <1>7, <2>2
    <3>3. SentOf(o, p, b, j) - TakenOf(o, s, n) = Len(y) - Len(<<>>)
      BY <1>10, <1>11, <2>1, <3>1, <3>2
    <3> QED
      BY <1>9, <1>10, <2>2, <3>3
  <2>3. CASE /\ Flow(in, u, <<>>, <<>>)
             /\ (s = "ack" /\ n = j) \/ (s = "frame" /\ n = j + 1)
    <3>1. TakenOf(o, s, n) = 2 * z + g + l
      BY <1>2, <1>7, <1>8, <2>3, SMTT(60)
    <3>2. SentOf(o, p, b, j) - TakenOf(o, s, n) = Len(<<>>) - Len(<<>>)
      BY <1>10, <2>1, <3>1
    <3> QED
      BY <1>9, <1>10, <2>3, <3>2
  <2> QED
    BY <1>6, <1>15, <2>2, <2>3 DEF Sound, Stage, Acked
<1>16. CASE p = "done"
  <2>1. /\ s # "ack" /\ n = j /\ Flow(in, u, <<>>, IF s = "size" THEN x ELSE <<>>)
    BY <1>3, <1>16 DEF Sound, Stage
  <2>2. SentOf(o, p, b, j) = 2 * z + g
    BY <1>7, <1>8, <1>16
  <2>3. CASE s = "size"
    <3>1. TakenOf(o, s, n) = 0 /\ g = 0
      BY <1>1, <1>5, <1>7, <1>8, <2>1, <2>3
    <3>2. SentOf(o, p, b, j) - TakenOf(o, s, n) = Len(x) - Len(<<>>)
      BY <1>3, <1>4, <1>10, <2>2, <3>1
    <3> QED
      BY <1>6, <1>9, <1>10, <2>1, <2>3, <3>2
  <2>4. CASE s # "size"
    <3>1. TakenOf(o, s, n) = 2 * z + g
      BY <1>2, <1>7, <1>8, <2>1, <2>4
    <3>2. SentOf(o, p, b, j) - TakenOf(o, s, n) = Len(<<>>) - Len(<<>>)
      BY <1>10, <2>2, <3>1
    <3> QED
      BY <1>9, <1>10, <2>1, <2>4, <3>2
  <2> QED
    BY <2>3, <2>4
<1> QED
  BY <1>12, <1>13, <1>14, <1>15, <1>16 DEF Sound, Stage

\* The bytes of the acks.
LEMMA Acknowledged ==
    ASSUME NEW o, NEW p, NEW b, NEW j, NEW cn, NEW in, NEW u, NEW d, NEW s,
           NEW m, NEW n, NEW a, Sound(o, p, b, j, cn, in, u, d, s, m, n, a)
    PROVE  IntSize * n + (IF s = "ack" THEN IntSize - Len(a) ELSE 0)
              = IntSize * j + Len(d) + (IF p = "ack" THEN Len(b) ELSE 0)
<1>1. Typed(o, b, j, in, u, d, s, n, a) /\ (s = "size" => n = 0)
  BY DEF Sound
<1>2. o \in Opts /\ b \in Str /\ d \in Str /\ a \in Str /\ j \in Nat /\ n \in Nat
  BY <1>1 DEF Typed
<1>3. /\ IntSize \in Nat /\ Len(b) \in Nat /\ Len(d) \in Nat /\ Len(a) \in Nat
      /\ Len(htonl(o.length)) = IntSize
  BY <1>2, LenIs, Messages, Encoded, TtcpAssumption
<1>4. PICK g \in Nat : g = IntSize * j /\ IntSize * (j + 1) = g + IntSize
  BY <1>2, <1>3
<1>5. CASE p = "ack" /\ s = "ack" /\ n = j /\ Flow(b, d, a, htonl(o.length))
  <2>1. IntSize = Len(b) + Len(d) + Len(a)
    BY <1>2, <1>3, <1>5, FlowIs
  <2> QED
    BY <1>3, <1>4, <1>5, <2>1
<1>6. CASE p = "ack" /\ s = "frame" /\ n = j + 1 /\ Flow(b, d, <<>>, htonl(o.length))
  <2>1. IntSize = Len(b) + Len(d) + Len(<<>>)
    BY <1>2, <1>3, <1>6, FlowIs, NilIs
  <2> QED
    BY <1>3, <1>4, <1>6, <2>1, NilIs
<1>7. CASE s # "ack" /\ n = j /\ d = <<>> /\ (p = "ack" => b = <<>>)
  BY <1>3, <1>4, <1>7, NilIs
<1> QED
  BY <1>1, <1>5, <1>6, <1>7 DEF Sound, Stage, Acked

LEMMA InvInStep == Inv => InStep
<1> SUFFICES ASSUME Inv, NEW c \in Clients, pc[c] \notin {"failed", "crashed"}
             PROVE  /\ Sent(c) - Taken(c) \in 0 .. Len(Due(c))
                    /\ input[c] \o up[c] = Upto(Sent(c) - Taken(c), Due(c))
                    /\ IntSize * nread[c]
                          + (IF state[c] = "ack" THEN IntSize - Len(ackLeft[c]) ELSE 0)
                       = IntSize * i[c] + Len(down[c])
                          + (IF pc[c] = "ack" THEN Len(buf[c]) ELSE 0)
  BY DEF InStep
<1>1. Sound(opt[c], pc[c], buf[c], i[c], conn[c], input[c], up[c], down[c],
            state[c], smsg[c], nread[c], ackLeft[c])
  BY DEF Inv, ClientOK, Good
<1>2. /\ Sent(c) = SentOf(opt[c], pc[c], buf[c], i[c])
      /\ Taken(c) = TakenOf(opt[c], state[c], nread[c])
      /\ Due(c) = NextOf(opt[c], state[c])
  BY DEF Sent, SentOf, Taken, TakenOf, Due, NextOf, FrameSize, Join
<1>3. Join(input[c], up[c]) = input[c] \o up[c]
  BY DEF Join
<1>4. /\ Sent(c) - Taken(c) \in 0 .. Len(Due(c))
      /\ input[c] \o up[c] = Upto(Sent(c) - Taken(c), Due(c))
  <2>1. PICK k, e : /\ k = SentOf(opt[c], pc[c], buf[c], i[c])
                           - TakenOf(opt[c], state[c], nread[c])
                    /\ e = NextOf(opt[c], state[c])
                    /\ k \in 0 .. Len(e) /\ Join(input[c], up[c]) = Upto(k, e)
    BY <1>1, Between
  <2> QED
    BY <1>2, <1>3, <2>1
<1> QED
  BY <1>1, <1>4, Acknowledged

-----------------------------------------------------------------------------

LEMMA Invariant == Spec => []Inv
<1>1. Inv /\ [Next]_vars => Inv'
  BY NextKeeps
<1> QED
  BY <1>1, InitKeeps, PTL DEF Spec

\* With any number of clients, numbers and lengths of frames, sizes of
\* integers and of sockets that take an ack, and however reads and writes are
\* cut: what waits in a server's input and in the socket is the beginning of
\* what the server takes next, and no byte of an ack is lost or repeated.
THEOREM EndsInStep == Spec => []InStep
BY Invariant, InvInStep, PTL

\* A server fails only after a client was killed or announced what the server
\* refuses: a client that runs to its end is never taken for a lost one, nor
\* is one that waited in vain for the blocking server.
THEOREM ServerOutlivesClients == Spec => []ServerSurvives
<1>1. Inv => ServerSurvives
  BY DEF Inv
<1> QED
  BY <1>1, Invariant, PTL
=============================================================================
