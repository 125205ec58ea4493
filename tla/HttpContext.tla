----------------------------- MODULE HttpContext ----------------------------
(***************************************************************************)
(* HttpContext (http/http_context.cpp) and HttpRequest                     *)
(* (http/http_request.h): the parser of one connection.  parse_request()   *)
(* is called on whatever has arrived and keeps its place between calls; it *)
(* is a loop, and the model takes one step per iteration.                  *)
(*                                                                         *)
(* A unit of the stream is CR, LF, a byte of a body, or the text of a      *)
(* line, which has no end of its own: only CR LF ends it.                  *)
(***************************************************************************)
EXTENDS Integers, Sequences, FiniteSetsExt

CONSTANT Number   \* what lexical_cast<ssize_t> makes of the values it takes

ASSUME NumberAssumption ==
    Number \in [DOMAIN Number -> Nat] /\ "" \notin DOMAIN Number

VARIABLES buf,      \* the connection's input buffer (muduo::net::Buffer)
          state,    \* state_
          request,  \* request_
          pc        \* "idle", "parse" inside parse_request(), and its result:
                    \* "true" or "false"

contextVars == <<buf, state, request, pc>>

Fields == {"Connection", "Content-Length", "Host"}

CR == [t |-> "CR"]

LF == [t |-> "LF"]

Byte == [t |-> "byte"]

\* Text without a colon: neither a request line nor a header
Text == [t |-> "text"]

RequestLine(path, version) == [t |-> "line", path |-> path, version |-> version]

Header(field, value) == [t |-> "header", field |-> field, value |-> value]

-----------------------------------------------------------------------------
(* HttpRequest *)

EmptyRequest ==
    [path |-> "", version |-> "kUnKnown", headers |-> [f \in Fields |-> ""],
     body |-> <<>>]

get_header(field) == request.headers[field]

\* What is no number counts as 0.
BodyLen(value) == IF value \in DOMAIN Number THEN Number[value] ELSE 0

get_expect_body_len == BodyLen(get_header("Content-Length"))

get_remain_body_len == get_expect_body_len - Len(request.body)

-----------------------------------------------------------------------------
(* HttpContext *)

Init ==
    /\ buf = <<>>
    /\ state = "kExpectRequestLine"
    /\ request = EmptyRequest
    /\ pc = "idle"

\* Slip: off by one, CR LF is not found at the end of the buffer.
CrlfsShort == {k \in 1..(Len(buf) - 2) : buf[k] = CR /\ buf[k + 1] = LF}

Crlfs == {k \in 1..(Len(buf) - 1) : buf[k] = CR /\ buf[k + 1] = LF}

\* The units in front of the first CR LF.
Line == SubSeq(buf, 1, Min(Crlfs) - 1)

\* retrieveUntil(crlf + 2)
RetrieveLine == buf' = SubSeq(buf, Min(Crlfs) + 2, Len(buf))

\* parse_first_line() takes one method, one path and one version; a line put
\* together from several texts has none.
IsRequestLine(line) == Len(line) = 1 /\ line[1].t = "line"

\* The line contains a colon.
HasColon(line) == \E k \in 1..Len(line) : line[k].t = "header"

\* headers_[field] = value: the last one counts.  A field name with anything
\* in front of it is another field.
add_header(line) ==
    IF line[1].t = "header"
    THEN [request EXCEPT !.headers[line[1].field] = line[1].value]
    ELSE request

Return(r) == pc' = r

\* A line is wanted and CR LF has not arrived.
NeedMore ==
    /\ pc = "parse"
    /\ state \in {"kExpectRequestLine", "kExpectHeaders"}
    /\ Crlfs = {}
    /\ Return("true")
    /\ UNCHANGED <<buf, state, request>>

ExpectRequestLine ==
    /\ pc = "parse" /\ state = "kExpectRequestLine"
    /\ Crlfs # {}
    /\ IF IsRequestLine(Line)
       THEN /\ request' = [request EXCEPT !.path = Line[1].path,
                                          !.version = Line[1].version]
            /\ RetrieveLine
            /\ state' = "kExpectHeaders"
            /\ UNCHANGED pc
       ELSE /\ Return("false")
            /\ UNCHANGED <<buf, state, request>>

\* A line without a colon, empty or not, ends the headers.
ExpectHeaders ==
    /\ pc = "parse" /\ state = "kExpectHeaders"
    /\ Crlfs # {}
    /\ RetrieveLine
    /\ \/ /\ HasColon(Line)
          /\ request' = add_header(Line)
          /\ UNCHANGED <<state, pc>>
       \/ /\ ~HasColon(Line) /\ get_header("Content-Length") # ""
          /\ state' = "kExpectBody"
          /\ UNCHANGED <<request, pc>>
       \/ /\ ~HasColon(Line) /\ get_header("Content-Length") = ""
          /\ state' = "kGotAll"
          /\ Return("true")
          /\ UNCHANGED request

\* As much of the body as has arrived, and nothing behind it.
BodyPart == IF Len(buf) > get_remain_body_len THEN get_remain_body_len ELSE Len(buf)

ExpectBody ==
    /\ pc = "parse" /\ state = "kExpectBody"
    /\ request' = [request EXCEPT !.body = @ \o SubSeq(buf, 1, BodyPart)]
    /\ buf' = SubSeq(buf, BodyPart + 1, Len(buf))
    /\ state' = IF get_remain_body_len = BodyPart THEN "kGotAll" ELSE state
    /\ Return("true")

\* parse_request() is never entered with a complete request: on_message()
\* calls reset() in the same callback.
ParseRequest == NeedMore \/ ExpectRequestLine \/ ExpectHeaders \/ ExpectBody

\* Slip: the old request stays.
resetKeepsRequest == state' = "kExpectRequestLine" /\ UNCHANGED request

reset ==
    /\ state' = "kExpectRequestLine"
    /\ request' = EmptyRequest
=============================================================================
