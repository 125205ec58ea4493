------------------------------- MODULE Procmon ------------------------------
(***************************************************************************)
(* procmon (procmon/procmon.cpp): a single-threaded HTTP server that shows *)
(* a process and samples its CPU time.  A client sends a script of         *)
(* requests, cut into segments anywhere; every segment is one call of      *)
(* on_message(), which parses (HttpContext), answers at most one request   *)
(* and leaves the rest in the buffer.  tick() runs between callbacks.      *)
(*                                                                         *)
(* http/tests/http_nonblock_simple.cpp has the same on_message() with one  *)
(* page for every path.                                                    *)
(***************************************************************************)
EXTENDS HttpContext, SequencesExt

CONSTANTS Scripts,    \* the requests a client may send on its connection
          ChartSize,  \* the capacity of cpu_usage_
          MaxBurn     \* bound: CPU time used in a behaviour

VARIABLES script,     \* what this client sends
          pipelining, \* the client does not wait for replies
          wire,       \* the units of the stream that have arrived
          connected,  \* TcpConnection::connected(), FALSE after shutdown()
          replies,    \* what the client was sent
          utime,      \* CPU time of the process as /proc shows it
          alive,      \* /proc/pid/stat can be read
          burned,     \* CPU time ever used under this pid
          ticks,      \* ticks_
          last,       \* last_stat_data_
          usage       \* cpu_usage_

connVars == <<connected, replies>>

clientVars == <<script, pipelining, wire>>

sampleVars == <<utime, alive, burned, ticks, last, usage>>

vars == <<contextVars, connVars, clientVars, sampleVars>>

-----------------------------------------------------------------------------
(* The client.  A request is a request line (or a bad one), headers, the   *)
(* line that ends them, and a body of the announced length; with it comes  *)
(* what the client expects: the status, and whether the connection is kept.*)

\* The pages of on_request()
Pages == {"/", "/cmdline", "/environ", "/threads", "/io", "/limits", "/maps",
          "/smaps", "/status", "/cpu.png"}

Request ==
    [line : [t : {"line"}, path : STRING, version : STRING] \cup {Text},
     headers : Seq([t : {"header"}, field : Fields, value : STRING]),
     end : {<<>>, <<Text>>}, body : Nat, code : Nat, keep : BOOLEAN]

\* The value of the last header of a field.
LastHeader(r, field) ==
    LET K == {k \in 1..Len(r.headers) : r.headers[k].field = field}
    IN  IF K = {} THEN "" ELSE r.headers[Max(K)].value

\* The client announces what it sends and expects what it should.
Reasonable(r) ==
    IF r.line = Text THEN r.code = 400 /\ ~r.keep
    ELSE /\ r.body = BodyLen(LastHeader(r, "Content-Length"))
         /\ r.code = IF r.line.path \in Pages THEN 200 ELSE 404
         /\ LET connection == LastHeader(r, "Connection")
            IN  r.keep <=> /\ r.line.path \in Pages
                           /\ connection # "close"
                           /\ r.line.version = "kHttp10" => connection = "Keep-Alive"

ASSUME ProcmonAssumption ==
    /\ ChartSize \in Nat \ {0} /\ MaxBurn \in Nat
    /\ \A s \in Scripts : s \in Seq(Request) /\ \A k \in 1..Len(s) : Reasonable(s[k])

Encode(r) ==
    <<r.line, CR, LF>>
    \o FlattenSeq([k \in 1..Len(r.headers) |-> <<r.headers[k], CR, LF>>])
    \o r.end \o <<CR, LF>> \o [k \in 1..r.body |-> Byte]

Stream == FlattenSeq([k \in 1..Len(script) |-> Encode(script[k])])

\* The length of the first n requests.
EndOf(n) == Len(FlattenSeq([k \in 1..n |-> Encode(script[k])]))

MayArrive ==
    IF pipelining \/ Len(replies) >= Len(script) THEN Len(Stream)
    ELSE EndOf(Len(replies) + 1)

\* A segment arrives and on_message() is called.
Segment(n) ==
    /\ pc = "idle"
    /\ wire < n /\ n <= MayArrive
    /\ buf' = buf \o SubSeq(Stream, wire + 1, n)
    /\ wire' = n
    /\ pc' = "parse"
    /\ UNCHANGED <<state, request, connVars, script, pipelining, sampleVars>>

-----------------------------------------------------------------------------
(* The server *)

ParseStep == ParseRequest /\ UNCHANGED <<connVars, clientVars, sampleVars>>

WantsClose(version, connection) ==
    connection = "close" \/ (version = "kHttp10" /\ connection # "Keep-Alive")

\* HttpResponse as append_to_buffer() sends it: with a Content-Length only
\* when the connection is kept.
Response(code, close, path, body) ==
    [code |-> code, close |-> close, path |-> path, received |-> body]

on_request ==
    LET found == request.path \in Pages
    IN Response(IF found THEN 200 ELSE 404,
                ~found \/ WantsClose(request.version, get_header("Connection")),
                request.path, request.body)

\* TcpConnection::send() and shutdown(): nothing is sent after shutdown().
Send(r) ==
    /\ replies' = IF connected THEN Append(replies, r) ELSE replies
    /\ connected' = (connected /\ ~r.close)

BadRequest ==
    /\ pc = "false"
    /\ Send(Response(400, TRUE, "", <<>>))
    /\ pc' = "idle"
    /\ UNCHANGED <<buf, state, request, clientVars, sampleVars>>

GotAll ==
    /\ pc = "true" /\ state = "kGotAll"
    /\ Send(on_request)
    /\ reset
    /\ pc' = "idle"
    /\ UNCHANGED <<buf, clientVars, sampleVars>>

Incomplete ==
    /\ pc = "true" /\ state # "kGotAll"
    /\ pc' = "idle"
    /\ UNCHANGED <<buf, state, request, connVars, clientVars, sampleVars>>

\* Slip: no max() with 0.
DeltaSigned(now, before) == now - before

\* One sample.  utime stands for utime and stime, which are treated alike.
\* A process that took over the pid may have used less than the old one.
Delta(now, before) == IF now > before THEN now - before ELSE 0

\* push_back() of a full circular_buffer drops the oldest sample.
PushBack(s, x) == IF Len(s) < ChartSize THEN Append(s, x) ELSE Append(Tail(s), x)

\* ticks_ only tells the first sample from the others.
tick ==
    /\ pc = "idle" /\ alive
    /\ usage' = IF ticks > 0 THEN PushBack(usage, Delta(utime, last)) ELSE usage
    /\ last' = utime
    /\ ticks' = 1
    /\ UNCHANGED <<contextVars, connVars, clientVars, utime, alive, burned>>

-----------------------------------------------------------------------------
(* The process that is watched *)

Burn ==
    /\ alive /\ burned < MaxBurn
    /\ utime' = utime + 1 /\ burned' = burned + 1
    /\ UNCHANGED <<contextVars, connVars, clientVars, alive, ticks, last, usage>>

\* The process ends: tick() finds no stat and returns.
Die ==
    /\ alive /\ alive' = FALSE
    /\ UNCHANGED <<contextVars, connVars, clientVars, utime, burned, ticks, last,
                   usage>>

\* Another process gets its pid.
ReusePid ==
    /\ ~alive /\ alive' = TRUE /\ utime' = 0
    /\ UNCHANGED <<contextVars, connVars, clientVars, burned, ticks, last, usage>>

-----------------------------------------------------------------------------

ProcmonInit ==
    /\ Init
    /\ script \in Scripts
    /\ pipelining \in BOOLEAN
    /\ wire = 0 /\ connected = TRUE /\ replies = <<>>
    /\ utime = 0 /\ alive = TRUE /\ burned = 0
    /\ ticks = 0 /\ last = 0 /\ usage = <<>>

OnMessage == ParseStep \/ BadRequest \/ GotAll \/ Incomplete

Next ==
    \/ \E n \in 1..Len(Stream) : Segment(n)
    \/ OnMessage
    \/ tick \/ Burn \/ Die \/ ReusePid

Spec == ProcmonInit /\ [][Next]_vars

-----------------------------------------------------------------------------
(* Properties *)

\* The reply a request of the script deserves, as the script says.
Deserved(r) ==
    IF r.code = 400 THEN Response(400, TRUE, "", <<>>)
    ELSE Response(r.code, ~r.keep, r.line.path, [k \in 1..r.body |-> Byte])

\* However the stream is cut, and whatever piles up behind a request, the
\* replies are the ones the requests deserve, one each, in order, with bodies
\* that hold neither less nor more than was announced; nothing follows a reply
\* that closes, which has no Content-Length (http_response.cpp:11).
RepliesInOrder ==
    /\ Len(replies) <= Len(script)
    /\ \A k \in 1..Len(replies) :
          /\ replies[k] = Deserved(script[k])
          /\ replies[k].close => k = Len(replies) /\ ~connected

\* A client that waits for each reply is never left waiting: when the server
\* is idle, every request that has arrived completely is answered, until a
\* reply closes.  (One that pipelines may be: on_message() answers at most one
\* request per segment.)
Answered ==
    pc = "idle" /\ ~pipelining =>
        \A n \in 1..Len(script) :
            wire >= EndOf(n) => Len(replies) >= n \/ ~connected

Total(s) ==
    LET sum[k \in 0..Len(s)] == IF k = 0 THEN 0 ELSE sum[k - 1] + s[k]
    IN  sum[Len(s)]

\* The samples never count CPU time twice and are never negative, even when
\* the process ends and its pid is taken over by one that used less
\* (the max() at procmon.cpp:418).
CpuTimeCountedOnce ==
    (\A k \in 1..Len(usage) : usage[k] >= 0) /\ Total(usage) <= burned
=============================================================================
