------------------------- MODULE MCMemcachedSession -------------------------
(***************************************************************************)
(* Instances of MemcachedSession for TLC.                                  *)
(***************************************************************************)
EXTENDS MemcachedSession

CONSTANTS k1, k2, d

SetLine(k, n) == [cmd |-> "set", key |-> k, len |-> n, ok |-> TRUE]
GetLine(k) == [cmd |-> "get", key |-> k, len |-> 0, ok |-> TRUE]
QuitLine == [cmd |-> "quit", key |-> k1, len |-> 0, ok |-> TRUE]
BadSetLine(k) == [cmd |-> "set", key |-> k, len |-> 0, ok |-> FALSE]

R(line, data) == [line |-> line, data |-> data]

\* Values that are plain, empty, a line end, half of one, the text of a command.
GoodRequests ==
    {R(SetLine(k1, 1), <<d>>), R(SetLine(k2, 0), <<>>),
     R(SetLine(k1, 2), <<CR, LF>>), R(SetLine(k2, 1), <<CR>>),
     R(SetLine(k2, 1), <<GetLine(k2)>>),
     R(GetLine(k1), <<>>), R(GetLine(k2), <<>>), R(QuitLine, <<>>)}

\* A value too large that holds a line, a negative length, a length that wraps
\* to 1, data longer than declared, fields that are refused, no key.
OddRequests ==
    {R(SetLine(k1, 3), <<GetLine(k1), CR, LF>>), R(SetLine(k1, 5), <<d>>),
     R(SetLine(k1, 9), <<d, CR, LF, SetLine(k2, 0), CR, LF, CR, LF, d>>),
     R(SetLine(k1, 0), <<d>>), R(BadSetLine(k2), <<d>>), R(GetLine(NULL), <<>>)}

AllRequests == GoodRequests \cup OddRequests
=============================================================================
