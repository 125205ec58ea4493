------------------------------ MODULE MCBuffers -----------------------------
\* The buffers for TLC: arrays of 3 cells that must grow and wrap, pieces of
\* 0 to 3 distinguishable bytes, and a two-byte integer.
EXTENDS Buffers

MCPieces == {<<>>, <<1>>, <<2, 1>>, <<1, 2, 2>>}
=============================================================================
