------------------------------- MODULE MCTtcp -------------------------------
\* ttcp for TLC: two clients, sockets of 3 bytes and integers of 2, so that
\* the session message and most frames do not fit into a socket; options that
\* both servers, only the blocking one, and neither accepts.
EXTENDS Ttcp

Opt(n, l) == [number |-> n, length |-> l]

MCOptions == {Opt(2, 1), Opt(1, 2), Opt(0, 1), Opt(1, 3)}
=============================================================================
