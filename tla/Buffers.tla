------------------------------- MODULE Buffers ------------------------------
(***************************************************************************)
(* A Tbuf and a CircularBuffer that are given the same calls, the way the  *)
(* ttcp server used first one and then the other: whatever the calls, the  *)
(* two are the same queue of bytes.  A call starts on both; Tbuf's is one  *)
(* step and the loops of CircularBuffer run on before the next call.       *)
(***************************************************************************)
EXTENDS Naturals, Sequences

CONSTANTS Pieces, IntSize, InitSize, ExtraSize,
          MaxBuffered   \* bound: the bytes the program leaves unread

ASSUME BuffersAssumption ==
    /\ Pieces \subseteq Seq(0..255)
    /\ IntSize \in Nat \ {0}
    /\ InitSize \in Nat \ {0}
    /\ ExtraSize \in Nat
    /\ MaxBuffered \in Nat

VARIABLES buf, ridx, widx, tInt, tAborted,   \* the Tbuf
          buffer, readable_bytes, read_idx, write_idx, pc, rest, left, got,
          cInt, cAborted                     \* the CircularBuffer

tbufVars == <<buf, ridx, widx, tInt, tAborted>>

circularVars == <<buffer, readable_bytes, read_idx, write_idx, pc, rest, left,
                  got, cInt, cAborted>>

vars == <<tbufVars, circularVars>>

T == INSTANCE Tbuf WITH int <- tInt, aborted <- tAborted

C == INSTANCE CircularBuffer WITH int <- cInt, aborted <- cAborted

Init == T!Init /\ C!Init

Room(s) == T!Readable + Len(s) <= MaxBuffered

\* The program does not append an empty string to a Tbuf whose array is full:
\* ~T!Unappendable(s) is a precondition of Tbuf::append() nobody wrote down.
AppendString(s) ==
    /\ Room(s) /\ ~T!Unappendable(s)
    /\ T!append(s) /\ C!push_str(s)

Readfd(s) == Room(s) /\ T!readfd(s) /\ C!readfd(s)

ReadInt == T!read_int32 /\ C!read_int32

Retrieve(n) == T!retrieve(n) /\ UNCHANGED tInt /\ C!retrieve(n)

Iteration == (C!push \/ C!pop) /\ UNCHANGED tbufVars

Next ==
    \/ \E s \in Pieces : AppendString(s) \/ Readfd(s)
    \/ ReadInt
    \/ \E n \in 1..MaxBuffered : Retrieve(n)
    \/ Iteration

Spec == Init /\ [][Next]_vars

-----------------------------------------------------------------------------
(* Properties *)

\* No assertion fails, as long as no empty string is appended to a full Tbuf
\* (which fails the one at tbuf.h:60) and no more is taken than is there
\* (tbuf.h:83, circular_buffer.h:110, 134): the room append() and push_str()
\* make is always enough (tbuf.h:57, 60, circular_buffer.h:97, 102) and the
\* counted bytes are always there to pop (circular_buffer.h:116, 129).
AssertionsHold == ~tAborted /\ ~cAborted

\* Sliding, growing and the reset of the indices never lose, repeat or
\* reorder a byte, and integers come from the oldest bytes: Tbuf is a queue.
TbufIsQueue == T!Queue!QueueSpec

\* Wrapping around, unrolling into a larger array and the refusal of the last
\* free cell never lose, repeat or reorder a byte: CircularBuffer is a queue.
CircularBufferIsQueue == C!Queue!QueueSpec

=============================================================================
