------------------------------ MODULE ByteQueue -----------------------------
(***************************************************************************)
(* What a network input buffer promises to the program that uses it: the   *)
(* bytes come out in the order they went in, none lost, none twice, and an *)
(* integer is read from the oldest bytes.  Tbuf and CircularBuffer are to  *)
(* implement it.                                                           *)
(***************************************************************************)
EXTENDS Naturals, Sequences

CONSTANTS Pieces,   \* the strings that may be appended
          IntSize   \* sizeof(int32_t)

VARIABLES q,    \* the bytes appended and not yet taken
          int   \* the integer read last

queueVars == <<q, int>>

\* The number whose bytes are s, in network byte order.
Value(s) ==
    LET v[i \in 0..Len(s)] == IF i = 0 THEN 0 ELSE 256 * v[i - 1] + s[i]
    IN v[Len(s)]

From(s, n) == SubSeq(s, n + 1, Len(s))

QueueInit == q = <<>> /\ int = 0

Enqueue(s) == q' = q \o s /\ UNCHANGED int

ReadInt ==
    /\ IntSize <= Len(q)
    /\ int' = Value(SubSeq(q, 1, IntSize))
    /\ q' = From(q, IntSize)

Retrieve(n) ==
    /\ n <= Len(q)
    /\ q' = From(q, n)
    /\ UNCHANGED int

QueueNext ==
    \/ \E s \in Pieces : Enqueue(s)
    \/ ReadInt
    \/ \E n \in 1..Len(q) : Retrieve(n)

QueueSpec == QueueInit /\ [][QueueNext]_queueVars
=============================================================================
