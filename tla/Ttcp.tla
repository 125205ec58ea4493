-------------------------------- MODULE Ttcp --------------------------------
(***************************************************************************)
(* ttcp: clients that announce (number, length) and then send number       *)
(* frames, each a length and its bytes, and wait for an acknowledgement of *)
(* every frame (client_send of ttcp_blocking.cpp), with one of the two     *)
(* servers: the one that blocks and serves one client (ttcp_blocking.cpp)  *)
(* and the event driven one that serves all (ttcp_libev.cpp).  A socket    *)
(* moves any part of what it is offered, and its buffer may be smaller     *)
(* than a frame.  The event driven server keeps its input in a Tbuf, used  *)
(* here as the queue ByteQueue specifies.                                  *)
(***************************************************************************)
EXTENDS Integers, Sequences, FiniteSets

CONSTANTS Clients,    \* the client processes
          Options,    \* what they are run with: [number, length]
          IntSize,    \* sizeof(int32_t)
          MaxLength,  \* MAX_BUFFER_LENGTH
          Cap,        \* the bytes a socket buffers in one direction
          NULL        \* no callback under way

ASSUME TtcpAssumption ==
    /\ Options \subseteq [number : Nat, length : Nat]
    /\ IntSize \in Nat \ {0} /\ MaxLength \in Nat
    /\ Cap \in Nat /\ Cap >= IntSize
    /\ NULL \notin Clients

VARIABLES mode,      \* which server runs: "blocking" or "libev"
          opt,       \* the options of each client
          pc,        \* where client_send() is
          buf,       \* write_n(): what is left to write; read_n(): what was read
          i,         \* the loop counter of client_send()
          conn,      \* the server's end of each connection
          up, down,  \* the bytes in the sockets, to the server and back
          server,    \* "running", "exited" or "failed" (exit(1), an assertion
                     \* or a signal)
          cur,       \* libev: the client whose callback runs
          state,     \* EvClient::state; where server_receive() is
          smsg,      \* the session message received
          input,     \* input_buffer; the bytes read_n() has read
          nread,     \* read_number; the loop counter of server_receive()
          ackLeft    \* blocking: what write_n() has left of the ack

clientVars == <<pc, buf, i>>

serverVars == <<server, cur, state, smsg, input, nread, ackLeft>>

vars == <<mode, opt, clientVars, conn, up, down, serverVars>>

-----------------------------------------------------------------------------
(* Encoding.  A byte is the number it belongs to and its place in it; the  *)
(* bytes of the payload belong to none.                                    *)

htonl(n) == [k \in 1..IntSize |-> <<n, k>>]

\* Bytes that are no number as it was sent decode to some other number.
ntohl(s) == IF s = htonl(s[1][1]) THEN s[1][1] ELSE -1

Session(o) == htonl(o.number) \o htonl(o.length)

Frame(o) == htonl(o.length) \o [k \in 1..o.length |-> <<-1, k>>]

Upto(k, s) == SubSeq(s, 1, k)

After(k, s) == SubSeq(s, k + 1, Len(s))

Min2(a, b) == IF a <= b THEN a ELSE b

\* Slip: a transfer waits until all of it can be done at once.
PartsAllOrNothing(s, room) == IF Len(s) <= room THEN {Len(s)} ELSE {}

\* The numbers of bytes a read() or write() may move.
Parts(s, room) == 1..Min2(Len(s), room)

-----------------------------------------------------------------------------
(* The client *)

Gone(c) == pc[c] \in {"done", "failed", "crashed"}

\* The server's end was closed, by the server or by its end.
Hungup(c) == server # "running" \/ conn[c] = "closed"

Go(c, to, b) == pc' = [pc EXCEPT ![c] = to] /\ buf' = [buf EXCEPT ![c] = b]

\* The event driven server listens as long as it runs, the blocking one until
\* it has accepted a client.
Listening ==
    /\ server = "running"
    /\ mode = "blocking" => \A c \in Clients : conn[c] \in {"none", "queued"}

Connect(c) ==
    /\ pc[c] = "connect"
    /\ IF Listening
       THEN /\ Go(c, "session", Session(opt[c]))
            /\ conn' = [conn EXCEPT ![c] = "queued"]
       ELSE /\ Go(c, "failed", <<>>)
            /\ UNCHANGED conn
    /\ UNCHANGED <<mode, opt, i, up, down, serverVars>>

\* The next round of client_send()'s loop after n acknowledged frames.
NextFrame(c, n) ==
    IF n < opt[c].number THEN Go(c, "frame", Frame(opt[c])) ELSE Go(c, "done", <<>>)

\* One write() of write_n(): the session message or a frame
Write(c) ==
    /\ pc[c] \in {"session", "frame"}
    /\ \/ /\ Hungup(c)
          /\ Go(c, "failed", <<>>)
          /\ UNCHANGED up
       \/ /\ ~Hungup(c)
          /\ \E k \in Parts(buf[c], Cap - Len(up[c])) :
                /\ up' = [up EXCEPT ![c] = @ \o Upto(k, buf[c])]
                /\ IF k < Len(buf[c]) THEN Go(c, pc[c], After(k, buf[c]))
                   ELSE IF pc[c] = "session" THEN NextFrame(c, 0)
                   ELSE Go(c, "ack", <<>>)
    /\ UNCHANGED <<mode, opt, i, conn, down, serverVars>>

\* One read() of read_n(), which ends with the assertions on the ack.
ReadAck(c) ==
    /\ pc[c] = "ack"
    /\ \/ /\ Hungup(c) /\ down[c] = <<>>
          /\ Go(c, "failed", <<>>)
          /\ UNCHANGED <<down, i>>
       \/ \E k \in Parts(down[c], IntSize - Len(buf[c])) :
             LET ack == buf[c] \o Upto(k, down[c])
             IN /\ down' = [down EXCEPT ![c] = After(k, @)]
                /\ IF Len(ack) < IntSize
                   THEN Go(c, "ack", ack) /\ UNCHANGED i
                   ELSE IF ntohl(ack) # opt[c].length
                   THEN Go(c, "failed", <<>>) /\ UNCHANGED i
                   ELSE NextFrame(c, i[c] + 1) /\ i' = [i EXCEPT ![c] = @ + 1]
    /\ UNCHANGED <<mode, opt, conn, up, serverVars>>

\* The client is killed.
Crash(c) ==
    /\ ~Gone(c)
    /\ Go(c, "crashed", <<>>)
    /\ UNCHANGED <<mode, opt, i, conn, up, down, serverVars>>

-----------------------------------------------------------------------------
(* The servers *)

\* What the servers refuse.  Only the event driven one refuses zeros.
Unacceptable(m) ==
    \/ m.length > MaxLength
    \/ mode = "libev" /\ (m.number <= 0 \/ m.length <= 0)

Want(c) == IF state[c] = "size" THEN 2 * IntSize ELSE IntSize + smsg[c].length

\* read() finds the end of the stream, or a reset when the client left an
\* ack unread.
ReadsEnd(c) == Gone(c) /\ (up[c] = <<>> \/ down[c] # <<>>)

\* Slip: every read() stores at the start of the buffer.
ReceiveAtStart(c, k) ==
    /\ input' = [input EXCEPT ![c] = Upto(k, up[c])]
    /\ up' = [up EXCEPT ![c] = After(k, @)]

Receive(c, k) ==
    /\ input' = [input EXCEPT ![c] = @ \o Upto(k, up[c])]
    /\ up' = [up EXCEPT ![c] = After(k, @)]

Fail == server' = "failed" /\ UNCHANGED <<cur, state, smsg, input, nread, ackLeft>>

\* Slip: off by one, the server waits for one more frame.
AllReceivedLate(c, n) == n > smsg[c].number

AllReceived(c, n) == n >= smsg[c].number

\* The session message is complete: check it and expect the first frame.
TakeSession(c) ==
    LET m == [number |-> ntohl(Upto(IntSize, input[c])),
              length |-> ntohl(SubSeq(input[c], IntSize + 1, 2 * IntSize))]
    IN IF Unacceptable(m) THEN Fail /\ UNCHANGED conn
       ELSE /\ smsg' = [smsg EXCEPT ![c] = m]
            /\ input' = [input EXCEPT ![c] = After(2 * IntSize, @)]
            /\ state' = [state EXCEPT ![c] = "frame"]
            /\ IF m.number <= 0     \* server_receive() returns
               THEN server' = "exited" /\ conn' = [conn EXCEPT ![c] = "closed"]
               ELSE UNCHANGED <<server, conn>>
            /\ UNCHANGED <<cur, nread, ackLeft>>

(* libev: server_read_cb accepts; client_read_cb is readfd() and then a    *)
(* loop, a step per iteration                                              *)

server_read_cb(c) ==
    /\ mode = "libev" /\ Listening /\ cur = NULL
    /\ conn[c] = "queued"
    /\ conn' = [conn EXCEPT ![c] = "accepted"]
    /\ UNCHANGED <<mode, opt, clientVars, up, down, serverVars>>

Readfd(c) ==
    /\ mode = "libev" /\ server = "running" /\ cur = NULL
    /\ conn[c] = "accepted"
    /\ \/ /\ ReadsEnd(c)     \* assert(n > 0)
          /\ Fail /\ UNCHANGED up
       \/ \E k \in 1..Len(up[c]) :
             /\ Receive(c, k)
             /\ cur' = c
             /\ UNCHANGED <<server, state, smsg, nread, ackLeft>>
    /\ UNCHANGED <<mode, opt, clientVars, conn, down>>

\* Neither state has what it needs: break
CallbackEnds(c) ==
    /\ cur = c /\ Len(input[c]) < Want(c)
    /\ cur' = NULL
    /\ UNCHANGED <<mode, opt, clientVars, conn, up, down, server, state, smsg,
                   input, nread, ackLeft>>

ExpectFrameSize(c) ==
    /\ cur = c /\ server = "running"
    /\ state[c] = "size" /\ Len(input[c]) >= Want(c)
    /\ TakeSession(c)
    /\ UNCHANGED <<mode, opt, clientVars, up, down>>

\* A whole frame: the ack is written as far as the socket takes it, the rest
\* is lost.  After the last frame the client is closed and deleted; the loop
\* then looks once more at the deleted object, whose memory still holds the
\* empty buffer, and ends.
ExpectFrame(c) ==
    /\ cur = c /\ server = "running"
    /\ state[c] = "frame" /\ Len(input[c]) >= Want(c)
    /\ LET len == ntohl(Upto(IntSize, input[c]))
           last == AllReceived(c, nread[c] + 1)
           ack == Upto(Min2(IntSize, Cap - Len(down[c])), htonl(len))
       IN \/ /\ len # smsg[c].length \/ Gone(c)     \* exit(1); SIGPIPE
             /\ Fail /\ UNCHANGED <<down, conn>>
          \/ /\ len = smsg[c].length
             /\ input' = [input EXCEPT ![c] = After(Want(c), @)]
             /\ down' = [down EXCEPT ![c] = @ \o ack]
             /\ nread' = [nread EXCEPT ![c] = @ + 1]
             /\ conn' = IF last THEN [conn EXCEPT ![c] = "closed"] ELSE conn
             /\ UNCHANGED <<server, cur, state, smsg, ackLeft>>
    /\ UNCHANGED <<mode, opt, clientVars, up>>

\* sigint_cb: the loop is left and the process ends.
Sigint ==
    /\ mode = "libev" /\ server = "running" /\ cur = NULL
    /\ server' = "exited"
    /\ UNCHANGED <<mode, opt, clientVars, conn, up, down, cur, state, smsg,
                   input, nread, ackLeft>>

(* blocking: server_receive() *)

\* accept() and close() of the listening socket, which resets the connections
\* that still wait there.
accept_or_die(c) ==
    /\ mode = "blocking" /\ Listening
    /\ conn[c] = "queued"
    /\ conn' = [d \in Clients |-> IF d = c THEN "accepted"
                                 ELSE IF conn[d] = "queued" THEN "closed"
                                 ELSE conn[d]]
    /\ UNCHANGED <<mode, opt, clientVars, up, down, serverVars>>

\* One read() of read_n(): never more than is still wanted
ReadN(c) ==
    /\ mode = "blocking" /\ server = "running" /\ conn[c] = "accepted"
    /\ state[c] # "ack" /\ Len(input[c]) < Want(c)
    /\ \/ ReadsEnd(c) /\ Fail /\ UNCHANGED up
       \/ \E k \in Parts(up[c], Want(c) - Len(input[c])) :
             /\ Receive(c, k)
             /\ UNCHANGED <<server, cur, state, smsg, nread, ackLeft>>
    /\ UNCHANGED <<mode, opt, clientVars, conn, down>>

SessionRead(c) ==
    /\ mode = "blocking" /\ server = "running" /\ conn[c] = "accepted"
    /\ state[c] = "size" /\ Len(input[c]) = Want(c)
    /\ TakeSession(c)
    /\ UNCHANGED <<mode, opt, clientVars, up, down>>

FrameRead(c) ==
    /\ mode = "blocking" /\ server = "running" /\ conn[c] = "accepted"
    /\ state[c] = "frame" /\ Len(input[c]) = Want(c)
    /\ IF ntohl(Upto(IntSize, input[c])) # smsg[c].length THEN Fail
       ELSE /\ state' = [state EXCEPT ![c] = "ack"]
            /\ ackLeft' = [ackLeft EXCEPT ![c] = Upto(IntSize, input[c])]
            /\ input' = [input EXCEPT ![c] = <<>>]
            /\ UNCHANGED <<server, cur, smsg, nread>>
    /\ UNCHANGED <<mode, opt, clientVars, conn, up, down>>

\* One write() of write_n(); after the last frame server_receive() returns.
WriteAck(c) ==
    /\ mode = "blocking" /\ server = "running" /\ conn[c] = "accepted"
    /\ state[c] = "ack"
    /\ \/ Gone(c) /\ Fail /\ UNCHANGED <<down, conn>>
       \/ \E k \in Parts(ackLeft[c], Cap - Len(down[c])) :
             LET whole == k = Len(ackLeft[c])
                 last == whole /\ AllReceived(c, nread[c] + 1)
             IN /\ down' = [down EXCEPT ![c] = @ \o Upto(k, ackLeft[c])]
                /\ ackLeft' = [ackLeft EXCEPT ![c] = After(k, @)]
                /\ state' = IF whole THEN [state EXCEPT ![c] = "frame"] ELSE state
                /\ nread' = IF whole THEN [nread EXCEPT ![c] = @ + 1] ELSE nread
                /\ conn' = IF last THEN [conn EXCEPT ![c] = "closed"] ELSE conn
                /\ server' = IF last THEN "exited" ELSE server
                /\ UNCHANGED <<cur, smsg, input>>
    /\ UNCHANGED <<mode, opt, clientVars, up>>

-----------------------------------------------------------------------------

Init ==
    /\ mode \in {"blocking", "libev"}
    /\ opt \in [Clients -> Options]
    /\ pc = [c \in Clients |-> "connect"]
    /\ buf = [c \in Clients |-> <<>>]
    /\ i = [c \in Clients |-> 0]
    /\ conn = [c \in Clients |-> "none"]
    /\ up = [c \in Clients |-> <<>>] /\ down = [c \in Clients |-> <<>>]
    /\ server = "running" /\ cur = NULL
    /\ state = [c \in Clients |-> "size"]
    /\ smsg = [c \in Clients |-> [number |-> 0, length |-> 0]]
    /\ input = [c \in Clients |-> <<>>]
    /\ nread = [c \in Clients |-> 0]
    /\ ackLeft = [c \in Clients |-> <<>>]

Client(c) == Connect(c) \/ Write(c) \/ ReadAck(c)

Serve(c) ==
    \/ server_read_cb(c) \/ accept_or_die(c)
    \/ Readfd(c) \/ CallbackEnds(c) \/ ExpectFrameSize(c) \/ ExpectFrame(c)
    \/ ReadN(c) \/ SessionRead(c) \/ FrameRead(c) \/ WriteAck(c)

Next ==
    \/ \E c \in Clients : Client(c) \/ Crash(c) \/ Serve(c)
    \/ Sigint

\* A process that can go on does, and the event loop serves every socket that
\* stays readable.  Nobody has to crash or to send SIGINT.
Fairness == \A c \in Clients : WF_vars(Client(c)) /\ WF_vars(Serve(c))

Spec == Init /\ [][Next]_vars /\ Fairness

-----------------------------------------------------------------------------
(* Properties *)

FrameSize(c) == IntSize + opt[c].length

\* The bytes the client has written, and the ones the server has taken out of
\* its input as the session message and as frames.
Sent(c) ==
    CASE pc[c] = "connect" -> 0
      [] pc[c] = "session" -> 2 * IntSize - Len(buf[c])
      [] pc[c] = "frame"   -> 2 * IntSize + (i[c] + 1) * FrameSize(c) - Len(buf[c])
      [] pc[c] = "ack"     -> 2 * IntSize + (i[c] + 1) * FrameSize(c)
      [] OTHER             -> 2 * IntSize + i[c] * FrameSize(c)

Taken(c) ==
    IF state[c] = "size" THEN 0
    ELSE 2 * IntSize + (nread[c] + (IF state[c] = "ack" THEN 1 ELSE 0)) * FrameSize(c)

\* What the server takes next; the client sends no frame ahead of an ack.
Due(c) ==
    IF state[c] = "size" THEN Session(opt[c]) \o Frame(opt[c]) ELSE Frame(opt[c])

\* However reads and writes are cut, the two ends stay in step: what waits in
\* the server's input and in the socket is exactly the beginning of what the
\* server takes next, as far as the client has sent it and never beyond one
\* frame, and every acknowledged byte has been read by the client or is on its
\* way, though client_read_cb writes acks to a non-blocking socket without an
\* output buffer (ttcp_libev.cpp:166).
InStep ==
    \A c \in Clients : pc[c] \notin {"failed", "crashed"} =>
        /\ Sent(c) - Taken(c) \in 0 .. Len(Due(c))
        /\ input[c] \o up[c] = Upto(Sent(c) - Taken(c), Due(c))
        /\ IntSize * nread[c] + (IF state[c] = "ack" THEN IntSize - Len(ackLeft[c]) ELSE 0)
              = IntSize * i[c] + Len(down[c]) + (IF pc[c] = "ack" THEN Len(buf[c]) ELSE 0)

\* The server dies of nothing but a client that was killed or that announced
\* what it refuses.  In particular the end of a client's normal run is never
\* read as an end of file by the callback that asserts n > 0
\* (ttcp_libev.cpp:122): the server has closed first.
ServerSurvives ==
    server = "failed" =>
        \E c \in Clients : pc[c] = "crashed" \/ Unacceptable(opt[c])

Disturbed ==
    \/ \E c \in Clients : pc[c] = "crashed" \/ Unacceptable(opt[c])
    \/ mode = "libev" /\ server = "exited"

\* Undisturbed, every transfer completes though a socket holds less than a
\* frame: all clients of the event driven server, and of the blocking one the
\* client it accepts, while the others end too.
Completes ==
    <>(\/ Disturbed
       \/ mode = "libev" /\ \A c \in Clients : pc[c] = "done"
       \/ /\ mode = "blocking" /\ server = "exited"
          /\ \A c \in Clients : Gone(c) /\ (state[c] # "size" => pc[c] = "done"))
=============================================================================
