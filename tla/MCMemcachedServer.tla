-------------------------- MODULE MCMemcachedServer --------------------------
(***************************************************************************)
(* Small instances of MemcachedServer for TLC.                             *)
(***************************************************************************)
EXTENDS MemcachedServer, TLC

CONSTANTS c1, c2, t1, t2, k1, k2, v1, v2

\* Two loops with a connection each.
MCLoopOf == c1 :> t1 @@ c2 :> t2

\* k1 and k2 collide, Junk falls into the other of two shards.
MCHash == k1 :> 1 @@ k2 :> 1 @@ Junk :> 2

\* One client can pipeline, the other gets in between.
MCMaxRequests == c1 :> 2 @@ c2 :> 1
=============================================================================
