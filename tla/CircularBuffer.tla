---------------------------- MODULE CircularBuffer --------------------------
(***************************************************************************)
(* class CircularBuffer (circular_buffer/circular_buffer.h and .cpp): a    *)
(* ring of which one cell stays free, enlarged by push_str() when it is    *)
(* too small.  Strings are moved a byte at a time by push() and pop(); the *)
(* model takes one step per iteration of those loops.  Cell k of the       *)
(* code's array is buffer[k + 1].                                          *)
(***************************************************************************)
EXTENDS Naturals, Sequences

CONSTANTS Pieces,     \* the strings that may be appended
          IntSize,    \* sizeof(int32_t)
          InitSize,   \* k_init_size
          ExtraSize   \* sizeof(extrabuf) of readfd()

VARIABLES buffer,          \* buffer_
          readable_bytes,  \* readable_bytes_
          read_idx,        \* read_idx_
          write_idx,       \* write_idx_
          pc,              \* the function under way, "idle" between calls
          rest,            \* push_str(): what is left of the string
          left,            \* read_int32(), retrieve(): the pops that are left
          got,             \* read_int32(): the bytes of out filled so far
          int,             \* the result of the last read_int32()
          aborted          \* an assertion failed

vars == <<buffer, readable_bytes, read_idx, write_idx, pc, rest, left, got,
          int, aborted>>

\* Slip: the cell that stays free is counted.
WriteableAll == Len(buffer) - readable_bytes

Writeable == Len(buffer) - readable_bytes - 1

Succ(i) == IF i + 1 >= Len(buffer) THEN 0 ELSE i + 1

\* The cell k behind the read index.
Cell(k) == IF read_idx + k > Len(buffer) THEN read_idx + k - Len(buffer)
           ELSE read_idx + k

Contents == [k \in 1..readable_bytes |-> buffer[Cell(k)]]

\* The refinement: push_str() and retrieve() take effect when they are
\* called, read_int32() when it returns.
Pending ==
    CASE pc = "push_str"   -> Contents \o rest
      [] pc = "retrieve"   -> SubSeq(Contents, left + 1, readable_bytes)
      [] pc = "read_int32" -> got \o Contents
      [] OTHER             -> Contents

Queue == INSTANCE ByteQueue WITH q <- Pending

Init ==
    /\ buffer = [i \in 1..InitSize |-> 0]
    /\ readable_bytes = 0 /\ read_idx = 0 /\ write_idx = 0
    /\ pc = "idle" /\ rest = <<>> /\ left = 0 /\ got = <<>>
    /\ int = 0
    /\ aborted = FALSE

\* Slip: the array is extended at its end even when the contents
\* wrap around.
GrowInPlace(n) ==
    /\ buffer' = [i \in 1..(Len(buffer) - Writeable + n) |->
                    IF i <= Len(buffer) THEN buffer[i] ELSE 0]
    /\ UNCHANGED <<read_idx, write_idx>>

\* The enlarged array: unrolled when the contents wrap around, extended at
\* its end when they do not.
Grow(n) ==
    LET size == Len(buffer) - Writeable + n
        tail == Len(buffer) - read_idx   \* the bytes from read_idx to the end
    IN IF write_idx < read_idx
       THEN /\ buffer' = [i \in 1..size |->
                            IF i <= tail THEN buffer[read_idx + i]
                            ELSE IF i <= tail + write_idx THEN buffer[i - tail]
                            ELSE 0]
            /\ write_idx' = tail + write_idx
            /\ read_idx' = 0
       ELSE /\ buffer' = [i \in 1..size |->
                            IF i <= Len(buffer) THEN buffer[i] ELSE 0]
            /\ UNCHANGED <<read_idx, write_idx>>

\* push_str() up to its loop.  The assertion before the loop looks at the
\* array Grow left.
push_str(s) ==
    /\ pc = "idle"
    /\ IF Writeable < Len(s)
       THEN Grow(Len(s))
       ELSE UNCHANGED <<buffer, read_idx, write_idx>>
    /\ aborted' = (Len(buffer') - readable_bytes - 1 < Len(s))
    /\ pc' = IF s = <<>> THEN pc ELSE "push_str"
    /\ rest' = s
    /\ UNCHANGED <<readable_bytes, left, got, int>>

\* readfd(): read() into the extra buffer, then push_str() of what arrived,
\* if anything did
readfd(s) == Len(s) <= ExtraSize /\ push_str(s)

\* One iteration of push_str(): push(), which refuses a byte for the last
\* free cell, and the assertion that it did not.
push ==
    /\ pc = "push_str"
    /\ IF Succ(write_idx) = read_idx
       THEN /\ aborted' = TRUE
            /\ UNCHANGED <<buffer, write_idx, readable_bytes, rest, pc>>
       ELSE /\ buffer' = [buffer EXCEPT ![write_idx + 1] = Head(rest)]
            /\ write_idx' = Succ(write_idx)
            /\ readable_bytes' = readable_bytes + 1
            /\ rest' = Tail(rest)
            /\ pc' = IF Len(rest) = 1 THEN "idle" ELSE pc
            /\ UNCHANGED aborted
    /\ UNCHANGED <<read_idx, left, got, int>>

\* The beginnings of read_int32() and of retrieve(); the caller has asked
\* readable_bytes(), as both assert.
read_int32 ==
    /\ pc = "idle" /\ IntSize <= readable_bytes
    /\ pc' = "read_int32" /\ left' = IntSize
    /\ UNCHANGED <<buffer, readable_bytes, read_idx, write_idx, rest, got, int,
                   aborted>>

retrieve(n) ==
    /\ pc = "idle" /\ n <= readable_bytes
    /\ pc' = "retrieve" /\ left' = n
    /\ UNCHANGED <<buffer, readable_bytes, read_idx, write_idx, rest, got, int,
                   aborted>>

\* One iteration of their loops: pop(), the assertion that it found a byte,
\* and after the last one ntohl() of the bytes.
pop ==
    /\ pc \in {"read_int32", "retrieve"}
    /\ IF read_idx = write_idx
       THEN /\ aborted' = TRUE
            /\ UNCHANGED <<read_idx, readable_bytes, left, got, pc, int>>
       ELSE LET last == left = 1
                seen == IF pc = "retrieve" THEN got
                        ELSE Append(got, buffer[read_idx + 1])
            IN /\ read_idx' = Succ(read_idx)
               /\ readable_bytes' = readable_bytes - 1
               /\ left' = left - 1
               /\ got' = IF last THEN <<>> ELSE seen
               /\ pc' = IF last THEN "idle" ELSE pc
               /\ int' = IF last /\ pc = "read_int32" THEN Queue!Value(seen)
                         ELSE int
               /\ UNCHANGED aborted
    /\ UNCHANGED <<buffer, write_idx, rest>>

Next ==
    \/ \E s \in Pieces : push_str(s) \/ readfd(s)
    \/ push \/ read_int32 \/ pop
    \/ \E n \in 1..readable_bytes : retrieve(n)

Spec == Init /\ [][Next]_vars
=============================================================================
