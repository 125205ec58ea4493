-------------------------------- MODULE Tbuf --------------------------------
(***************************************************************************)
(* class Tbuf (tbuf/tbuf.h): a growing array with a read and a write       *)
(* index.  append() slides the unread bytes to the front when that makes   *)
(* room and enlarges the array when it does not.  An empty string is all   *)
(* right, except on an array that is written to its last cell: nothing     *)
(* makes room for it, and the assertion at line 60 fails.  Cell k of the   *)
(* code's array is buf[k + 1].                                             *)
(***************************************************************************)
EXTENDS Naturals, Sequences

CONSTANTS Pieces,     \* the strings that may be appended
          IntSize,    \* sizeof(int32_t)
          InitSize,   \* k_init_size
          ExtraSize   \* sizeof(extrabuf) of readfd()

VARIABLES buf,      \* buf_
          ridx,     \* ridx_
          widx,     \* widx_
          int,      \* the result of the last read_int32()
          aborted   \* an assertion failed

vars == <<buf, ridx, widx, int, aborted>>

Readable == widx - ridx

Writeable == Len(buf) - widx

Contents == SubSeq(buf, ridx + 1, widx)

\* The refinement: the queue holds what lies between the two indices.
Queue == INSTANCE ByteQueue WITH q <- Contents

Init ==
    /\ buf = [i \in 1..InitSize |-> 0]
    /\ ridx = 0 /\ widx = 0
    /\ int = 0
    /\ aborted = FALSE

\* std::copy of s into the array b, to the cells behind the first k.
Copy(s, b, k) ==
    [i \in 1..Len(b) |-> IF i \in (k + 1)..(k + Len(s)) THEN s[i - k] ELSE b[i]]

\* vector::resize to a larger size
Resize(b, n) == [i \in 1..n |-> IF i <= Len(b) THEN b[i] ELSE 0]

\* append(s) on the array b written up to w: the whole of append(), which
\* readfd() calls with the array it has just filled.
AppendTo(b, w, s) ==
    LET room == Len(b) - w
        slide == Len(s) > room /\ Len(s) <= room + ridx
        grow == Len(s) > room + ridx
        b1 == IF slide THEN Copy(SubSeq(b, ridx + 1, w), b, 0)
              ELSE IF grow THEN Resize(b, w + Len(s)) ELSE b
        w1 == IF slide THEN w - ridx ELSE w
    IN /\ buf' = Copy(s, b1, w1)
       /\ ridx' = IF slide THEN 0 ELSE ridx
       /\ widx' = w1 + Len(s)
       /\ aborted' = ~(Len(b1) - w1 >= Len(s) /\ w1 < Len(b1))
       /\ UNCHANGED int

append(s) == AppendTo(buf, widx, s)

\* append() asserts that it writes in front of the end of the array, even
\* when it has nothing to write (tbuf.h:60).
Unappendable(s) == s = <<>> /\ Writeable = 0

\* readv() fills the free end of the array first and then the extra buffer,
\* which takes part only while it is the larger; s is what arrived.
readfd(s) ==
    /\ Len(s) <= Writeable + (IF Writeable < ExtraSize THEN ExtraSize ELSE 0)
    /\ IF Len(s) <= Writeable
       THEN /\ buf' = Copy(s, buf, widx)
            /\ widx' = widx + Len(s)
            /\ UNCHANGED <<ridx, int, aborted>>
       ELSE AppendTo(Copy(SubSeq(s, 1, Writeable), buf, widx), Len(buf),
                     SubSeq(s, Writeable + 1, Len(s)))

\* Slip: the write index is not reset with the read index.
retrieveKeepsWidx(n) ==
    /\ n <= Readable
    /\ ridx' = IF n < Readable THEN ridx + n ELSE 0
    /\ UNCHANGED <<buf, widx, aborted>>

\* The caller has asked readable_bytes() (assert(len <= readable_bytes())).
retrieve(n) ==
    /\ n <= Readable
    /\ ridx' = IF n < Readable THEN ridx + n ELSE 0
    /\ widx' = IF n < Readable THEN widx ELSE 0
    /\ UNCHANGED <<buf, aborted>>

\* peek_int32() and retrieve()
read_int32 ==
    /\ retrieve(IntSize)
    /\ int' = Queue!Value(SubSeq(buf, ridx + 1, ridx + IntSize))

Next ==
    \/ \E s \in Pieces : append(s) \/ readfd(s)
    \/ read_int32
    \/ \E n \in 1..Readable : retrieve(n) /\ UNCHANGED int

Spec == Init /\ [][Next]_vars
=============================================================================
