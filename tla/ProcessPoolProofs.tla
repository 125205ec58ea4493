------------------------- MODULE ProcessPoolProofs -------------------------
(***************************************************************************)
(* The pool of half_sync_half_async.h for every number of children, crashes *)
(* and connections: types, children are told of connections that exist,    *)
(* the parent outlives its children and, if none dies before the parent    *)
(* handles SIGCHLD, no dead child is forgotten.                            *)
(***************************************************************************)
EXTENDS ProcessPool, FiniteSetTheorems, TLAPS

(***************************************************************************)
(* Types need three more facts: no more connections wait than have         *)
(* arrived, an event of a child's socketpair stands for something to read, *)
(* and a child that has not called epoll_wait has no events.               *)
(***************************************************************************)
Counted ==
    /\ backlog <= arrived
    /\ \A i \in Children : "pipe" \in cevents[i] => cpipe[i] > 0
    /\ \A i \in Children : cevents[i] # {} => cstate[i] # "starting"

\* The events of a round are a sequence of descriptors.
LEMMA OrdersAreSequences ==
    ASSUME NEW S \in SUBSET {"listen", "sig"}, NEW s \in Orders(S)
    PROVE  s \in Seq({"listen", "sig"})
  <1>1. IsFiniteSet({"listen"} \cup {"sig"})
    BY FS_Singleton, FS_AddElement
  <1>2. IsFiniteSet(S)
    <2>1. {"listen"} \cup {"sig"} = {"listen", "sig"}
      OBVIOUS
    <2> QED
      BY <1>1, <2>1, FS_Subset
  <1>3. Cardinality(S) \in Nat
    BY <1>2, FS_CardinalityType
  <1>4. s \in [1 .. Cardinality(S) -> S]
    BY DEF Orders
  <1>5. s \in [1 .. Cardinality(S) -> {"listen", "sig"}]
    BY <1>4
  <1> QED
    BY <1>3, <1>5

\* The loop over the children visits every one of them.
LEMMA Reaches ==
    ASSUME NEW c \in Children, NEW p \in Children
    PROVE  \E k \in Children : (c + k) % N = p
  <1>1. N \in Nat \ {0}
    BY PoolAssumption
  <1>2. CASE c <= p
    <2>1. p - c \in Children /\ c + (p - c) = p /\ p % N = p
      BY <1>1, <1>2 DEF Children
    <2> QED
      BY <2>1
  <1>3. CASE c > p
    <2>1. (p - c) + N \in Children /\ c + ((p - c) + N) = p + N
      BY <1>1, <1>3 DEF Children
    <2>2. (p + N) % N = p
      BY <1>1 DEF Children
    <2> QED
      BY <2>1, <2>2
  <1> QED
    BY <1>2, <1>3 DEF Children, PoolAssumption

\* A non-empty set of naturals has a least element.
LEMMA MinIsMember ==
    ASSUME NEW S \in SUBSET Children, S # {}
    PROVE  Min(S) \in S
  <1> DEFINE less == OpToRel(<, Nat)
  <1>1. S \subseteq Nat
    BY PoolAssumption DEF Children
  <1>2. \E x \in S : \A y \in S : ~(<<y, x>> \in less)
    <2> HIDE DEF less
    <2>1. IsWellFoundedOn(less, Nat)
      BY NatLessThanWellFounded DEF less
    <2> QED
      BY <1>1, <2>1, WFMin
  <1>3. \A x, y \in S : ~(<<y, x>> \in less) => x <= y
    BY <1>1 DEF OpToRel
  <1>4. \E x \in S : \A y \in S : x <= y
    BY <1>2, <1>3
  <1> QED
    BY <1>4 DEF Min

\* Round robin finds a child that has not been joined.
LEMMA RoundRobinFinds ==
    ASSUME counter \in Children, pool \subseteq Children, pool # {}
    PROVE  RoundRobin \in pool
  <1> DEFINE At(k) == (counter + k) % N
             S == {k \in Children : At(k) \in pool}
  <1>1. PICK p \in pool : TRUE
    OBVIOUS
  <1>2. PICK k \in Children : At(k) = p
    BY <1>1, Reaches
  <1>3. k \in S
    BY <1>1, <1>2
  <1>4. Min(S) \in S
    BY <1>3, MinIsMember
  <1> QED
    BY <1>4 DEF RoundRobin
-----------------------------------------------------------------------------
(* Types                                                                   *)

LEMMA InitTypes == Init => TypeOK /\ Counted
  <1> SUFFICES ASSUME Init PROVE TypeOK /\ Counted
    OBVIOUS
  <1>1. 0 \in Children /\ 0 \in 0 .. PipeCap /\ 0 \in 0 .. MaxConns
        /\ 0 \in 0 .. MaxCrashes
    BY PoolAssumption DEF Children
  <1>2. pevents \in Seq({"listen", "sig"}) /\ psig \in Seq({"SIGCHLD", "SIGTERM"})
        /\ signals \in Seq({"SIGCHLD", "SIGTERM"})
    BY DEF Init
  <1>3. TypeOK
    BY <1>1, <1>2 DEF Init, TypeOK
  <1> QED
    BY <1>3 DEF Init, Counted

\* What Kill and Die leave well typed.
LEMMA KillTypes ==
    ASSUME TypeOK, Counted, NEW S \in SUBSET Children, Kill(S)
    PROVE  /\ cstate' \in [Children -> {"starting", "wait", "loop", "dead", "reaped"}]
           /\ cpipe' \in [Children -> 0 .. PipeCap]
           /\ cready' \in [Children -> SUBSET {"pipe", "sig"}]
           /\ csig' \in [Children -> BOOLEAN]
           /\ chld' \in BOOLEAN
           /\ cevents' = cevents /\ cstop' = cstop
  <1>1. cpipe' \in [Children -> 0 .. PipeCap]
    BY PoolAssumption DEF TypeOK, Kill
  <1>2. cready' \in [Children -> SUBSET {"pipe", "sig"}]
    BY DEF TypeOK, Kill
  <1> QED
    BY <1>1, <1>2 DEF TypeOK, Kill

LEMMA DieTypes ==
    ASSUME TypeOK, Counted, NEW i \in Children, Die(i)
    PROVE  /\ cstate' \in [Children -> {"starting", "wait", "loop", "dead", "reaped"}]
           /\ cpipe' \in [Children -> 0 .. PipeCap]
           /\ cready' \in [Children -> SUBSET {"pipe", "sig"}]
           /\ cevents' \in [Children -> SUBSET {"pipe", "sig"}]
           /\ csig' \in [Children -> BOOLEAN] /\ cstop' \in [Children -> BOOLEAN]
           /\ chld' \in BOOLEAN
           /\ \A j \in Children : "pipe" \in cevents'[j] => cpipe'[j] > 0
           /\ \A j \in Children : cevents'[j] # {} => cstate'[j] # "starting"
  BY PoolAssumption DEF TypeOK, Counted, Die

LEMMA TypeStep == TypeOK /\ Counted /\ [Next]_vars => (TypeOK /\ Counted)'
  <1> SUFFICES ASSUME TypeOK, Counted, [Next]_vars
               PROVE  (TypeOK /\ Counted)'
    OBVIOUS
  <1> USE PoolAssumption
  <1>1. CASE Connect
    BY <1>1 DEF Connect, TypeOK, Counted, child
  <1>2. CASE Terminate
    <2>1. \E S \in SUBSET Children : Kill(S)
      BY <1>2 DEF Terminate
    <2>2. psig' \in Seq({"SIGCHLD", "SIGTERM"}) /\ pready' \subseteq {"listen", "sig"}
      BY <1>2 DEF Terminate, TypeOK
    <2>3. Counted'
      <3>1. \A i \in Children : cevents[i] # {} => cstate[i] # "starting"
        BY DEF Counted
      <3> QED
        BY <1>2, <2>1, KillTypes, <3>1 DEF Terminate, Counted, Kill, TypeOK
    <2>4. TypeOK'
      BY <1>2, <2>1, <2>2, KillTypes DEF Terminate, TypeOK
    <2> QED
      BY <2>3, <2>4
  <1>3. CASE SigChld
    <2>1. psig' \in Seq({"SIGCHLD", "SIGTERM"}) /\ pready' \subseteq {"listen", "sig"}
      BY <1>3 DEF SigChld, TypeOK
    <2> QED
      BY <1>3, <2>1 DEF SigChld, TypeOK, Counted, child, input
  <1>4. CASE ParentSetup
    BY <1>4 DEF ParentSetup, TypeOK, Counted, child, input
  <1>5. CASE ParentWait
    BY <1>5, OrdersAreSequences DEF ParentWait, TypeOK, Counted, child, input
  <1>6. CASE Forward
    <2>1. RoundRobin \in Children
      BY <1>6, RoundRobinFinds DEF Forward, TypeOK
    <2>2. counter' \in Children
      BY <1>6, <2>1 DEF Forward, Children
    <2>3. /\ cpipe' \in [Children -> 0 .. PipeCap]
          /\ cready' \in [Children -> SUBSET {"pipe", "sig"}]
          /\ \A i \in Children : cpipe'[i] >= cpipe[i]
      <3> DEFINE r == RoundRobin
      <3>1. Send(r) /\ r \in Children
        BY <1>6, <2>1 DEF Forward
      <3> HIDE DEF r
      <3>2. CASE Dead(r)
        BY <3>1, <3>2 DEF Send, TypeOK, Dead, Up
      <3>3. CASE ~Dead(r)
        <4>1. cpipe[r] + 1 \in 0 .. PipeCap
          BY <3>1, <3>3 DEF Send, TypeOK
        <4> QED
          BY <3>1, <3>3, <4>1 DEF Send, TypeOK
      <3> QED
        BY <3>2, <3>3
    <2>4. pevents' \in Seq({"listen", "sig"}) /\ ppc = "loop"
      BY <1>6 DEF Forward, Handling, TypeOK
    <2>5. TypeOK'
      BY <1>6, <2>2, <2>3, <2>4 DEF Forward, TypeOK, input
    <2>6. Counted'
      BY <1>6, <2>3, SMTT(60) DEF Forward, TypeOK, Counted, input
    <2> QED
      BY <2>5, <2>6
  <1>7. CASE NobodyLeft
    BY <1>7 DEF NobodyLeft, TypeOK, Counted, child, input
  <1>8. CASE RecvSignals
    BY <1>8 DEF RecvSignals, Handling, TypeOK, Counted, child, input
  <1>9. CASE HandleChld
    BY <1>9 DEF HandleChld, TypeOK, Counted, input
  <1>10. CASE HandleTerm
    <2>1. pool \in SUBSET Children /\ Kill(pool)
      BY <1>10 DEF HandleTerm, TypeOK
    <2>2. signals' \in Seq({"SIGCHLD", "SIGTERM"}) /\ ppc = "loop"
      BY <1>10 DEF HandleTerm, TypeOK
    <2>3. TypeOK'
      BY <1>10, <2>1, <2>2, KillTypes DEF HandleTerm, TypeOK, input
    <2>4. Counted'
      BY <1>10, <2>1, KillTypes DEF HandleTerm, Counted, Kill, TypeOK, input
    <2> QED
      BY <2>3, <2>4
  <1>11. CASE ParentEndOfRound
    BY <1>11 DEF ParentEndOfRound, TypeOK, Counted, child, input
  <1>12. ASSUME NEW i \in Children, Crash(i) PROVE (TypeOK /\ Counted)'
    BY <1>12, DieTypes DEF Crash, TypeOK, Counted, parent
  <1>13. ASSUME NEW i \in Children, ChildSetup(i) PROVE (TypeOK /\ Counted)'
    BY <1>13 DEF ChildSetup, TypeOK, Counted, parent, input
  <1>14. ASSUME NEW i \in Children, ChildWait(i) PROVE (TypeOK /\ Counted)'
    BY <1>14 DEF ChildWait, ChildReadable, TypeOK, Counted, parent, input
  <1>15. ASSUME NEW i \in Children, ChildAccept(i) PROVE (TypeOK /\ Counted)'
    BY <1>15 DEF ChildAccept, TypeOK, Counted, parent, input
  <1>16. ASSUME NEW i \in Children, ChildSignals(i) PROVE (TypeOK /\ Counted)'
    BY <1>16 DEF ChildSignals, TypeOK, Counted, parent, input
  <1>17. ASSUME NEW i \in Children, ChildEndOfRound(i) PROVE (TypeOK /\ Counted)'
    BY <1>17, DieTypes DEF ChildEndOfRound, TypeOK, Counted, parent, input
  <1>18. CASE UNCHANGED vars
    BY <1>18 DEF vars, TypeOK, Counted, parent, child, input
  <1> QED
    BY <1>1, <1>2, <1>3, <1>4, <1>5, <1>6, <1>7, <1>8, <1>9, <1>10, <1>11,
       <1>12, <1>13, <1>14, <1>15, <1>16, <1>17, <1>18 DEF Next, Parent, Child

\* No handler takes the pool's variables out of their types: the counter wraps
\* around, a child reads a notification only where one is, and no more
\* connections are accepted than have arrived.
THEOREM PoolTypes == Spec => []TypeOK
  <1>1. Spec => [](TypeOK /\ Counted)
    BY InitTypes, TypeStep, PTL DEF Spec
  <1> QED
    BY <1>1, PTL
-----------------------------------------------------------------------------
(* The parent outlives its children.                                       *)

(***************************************************************************)
(* m_pid tells exactly which children waitpid has not returned, m_stop is  *)
(* set only when there is none, and only m_stop ends the loop.             *)
(***************************************************************************)
PoolIsUnjoined ==
    /\ \A i \in Children : i \in pool <=> cstate[i] # "reaped"
    /\ m_stop => pool = {}
    /\ ppc = "stopped" => m_stop

LEMMA UnjoinedStep ==
    TypeOK /\ PoolIsUnjoined /\ [Next]_vars => PoolIsUnjoined'
  <1> SUFFICES ASSUME TypeOK, PoolIsUnjoined, [Next]_vars
               PROVE  PoolIsUnjoined'
    OBVIOUS
  <1>1. ASSUME NEW S \in SUBSET Children, Kill(S)
        PROVE  \A i \in Children : cstate'[i] = "reaped" <=> cstate[i] = "reaped"
    BY <1>1 DEF Kill, TypeOK
  <1>2. ASSUME NEW i \in Children, Die(i), ~Dead(i)
        PROVE  \A j \in Children : cstate'[j] = "reaped" <=> cstate[j] = "reaped"
    BY <1>2 DEF Die, Dead, TypeOK
  <1>3. CASE Terminate
    BY <1>1, <1>3 DEF Terminate, PoolIsUnjoined
  <1>4. CASE HandleTerm
    BY <1>1, <1>4 DEF HandleTerm, PoolIsUnjoined, TypeOK
  <1>5. CASE HandleChld
    <2>1. \A i \in Children : i \in pool' <=> cstate'[i] # "reaped"
      BY <1>5 DEF HandleChld, PoolIsUnjoined, TypeOK
    <2>2. m_stop' <=> pool' = {}
      BY <1>5 DEF HandleChld
    <2>3. ppc' = "stopped" => pool' = {}
      BY <1>5 DEF HandleChld, PoolIsUnjoined
    <2> QED
      BY <2>1, <2>2, <2>3 DEF PoolIsUnjoined
  <1>6. CASE Connect \/ SigChld
    BY <1>6 DEF Connect, SigChld, PoolIsUnjoined, child
  <1>7. CASE ParentSetup \/ ParentWait \/ RecvSignals \/ ParentEndOfRound
    BY <1>7 DEF ParentSetup, ParentWait, RecvSignals, ParentEndOfRound,
                PoolIsUnjoined, child
  <1>8. CASE Forward \/ NobodyLeft
    BY <1>8 DEF Forward, NobodyLeft, PoolIsUnjoined, child
  <1>9. ASSUME NEW i \in Children, Crash(i) PROVE PoolIsUnjoined'
    BY <1>2, <1>9 DEF Crash, PoolIsUnjoined, parent
  <1>10. ASSUME NEW i \in Children, Child(i) PROVE PoolIsUnjoined'
    <2>1. CASE ChildSetup(i) \/ ChildWait(i)
      BY <2>1 DEF ChildSetup, ChildWait, PoolIsUnjoined, TypeOK, parent
    <2>2. CASE ChildAccept(i) \/ ChildSignals(i)
      BY <2>2 DEF ChildAccept, ChildSignals, PoolIsUnjoined, parent
    <2>3. CASE ChildEndOfRound(i)
      <3>1. ~Dead(i) /\ UNCHANGED parent
        BY <2>3 DEF ChildEndOfRound, Dead
      <3>2. CASE Die(i)
        BY <1>2, <3>1, <3>2 DEF PoolIsUnjoined, parent
      <3>3. CASE cstate' = [cstate EXCEPT ![i] = "wait"]
        BY <3>1, <3>3 DEF PoolIsUnjoined, TypeOK, Dead, parent
      <3> QED
        BY <2>3, <3>2, <3>3 DEF ChildEndOfRound
    <2> QED
      BY <1>10, <2>1, <2>2, <2>3 DEF Child
  <1>11. CASE UNCHANGED vars
    BY <1>11 DEF vars, PoolIsUnjoined, parent, child
  <1> QED
    BY <1>3, <1>4, <1>5, <1>6, <1>7, <1>8, <1>9, <1>10, <1>11 DEF Next, Parent

\* The parent leaves run_parent only after waitpid has returned every child,
\* whatever crashes, signals and connections come in between: no process of
\* the pool is left behind.
THEOREM ParentOutlivesChildren == Spec => []NoOrphans
  <1>1. Init => PoolIsUnjoined
    BY DEF Init, PoolIsUnjoined
  <1>2. PoolIsUnjoined => NoOrphans
    BY DEF PoolIsUnjoined, NoOrphans
  <1> QED
    BY <1>1, <1>2, UnjoinedStep, PoolTypes, PTL DEF Spec

-----------------------------------------------------------------------------
(* No dead child is forgotten.                                             *)

(***************************************************************************)
(* SIGCHLD is announced by every death but one before addsig.  While the   *)
(* parent sets up, no child can have been told to stop.                    *)
(***************************************************************************)
QuietSetup ==
    ppc = "setup" => \A i \in Children :
        ~csig[i] /\ ~cstop[i] /\ "sig" \notin cevents[i]

\* A SIGCHLD is pending, in the pipe or read.
Announced ==
    \/ chld
    \/ \E k \in DOMAIN psig : psig[k] = "SIGCHLD"
    \/ \E k \in DOMAIN signals : signals[k] = "SIGCHLD"

LEMMA QuietStep == TypeOK /\ QuietSetup /\ [Next]_vars => QuietSetup'
  <1> SUFFICES ASSUME TypeOK, QuietSetup, [Next]_vars PROVE QuietSetup'
    OBVIOUS
  <1>1. CASE Connect \/ SigChld
    BY <1>1 DEF Connect, SigChld, QuietSetup, child
  <1>2. CASE Terminate
    BY <1>2 DEF Terminate, QuietSetup
  <1>3. CASE Parent
    BY <1>3 DEF Parent, ParentSetup, ParentWait, Forward, NobodyLeft, Handling,
                RecvSignals, HandleChld, HandleTerm, ParentEndOfRound, TypeOK,
                QuietSetup
  <1>4. ASSUME NEW i \in Children, Crash(i) PROVE QuietSetup'
    BY <1>4 DEF Crash, Die, QuietSetup, TypeOK, parent
  <1>5. ASSUME NEW i \in Children, Child(i) PROVE QuietSetup'
    <2>1. CASE ChildSetup(i)
      BY <2>1 DEF ChildSetup, QuietSetup, parent
    <2>2. CASE ChildWait(i)
      BY <2>2 DEF ChildWait, ChildReadable, QuietSetup, TypeOK, parent
    <2>3. CASE ChildAccept(i)
      BY <2>3 DEF ChildAccept, QuietSetup, TypeOK, parent
    <2>4. CASE ChildSignals(i)
      BY <2>4 DEF ChildSignals, QuietSetup, TypeOK, parent
    <2>5. CASE ChildEndOfRound(i)
      BY <2>5 DEF ChildEndOfRound, Die, QuietSetup, TypeOK, parent
    <2> QED
      BY <1>5, <2>1, <2>2, <2>3, <2>4, <2>5 DEF Child
  <1>6. CASE UNCHANGED vars
    BY <1>6 DEF vars, QuietSetup, parent, child
  <1> QED
    BY <1>1, <1>2, <1>3, <1>4, <1>5, <1>6 DEF Next

LEMMA NotLostStep ==
    ASSUME ~EarlyDeath
    PROVE  TypeOK /\ QuietSetup /\ NoLostChild /\ [Next]_vars => NoLostChild'
  <1> SUFFICES ASSUME TypeOK, QuietSetup, NoLostChild, [Next]_vars
               PROVE  NoLostChild'
    OBVIOUS
  <1>1. ASSUME NEW i \in Children, cstate[i] = "dead" PROVE Announced
    BY <1>1 DEF NoLostChild, Announced
  <1>2. (\A i \in Children : cstate'[i] = "dead" => Announced') => NoLostChild'
    BY DEF NoLostChild, Announced
  <1>3. ASSUME NEW S \in SUBSET Children, Kill(S), NEW i \in Children,
               cstate'[i] = "dead"
        PROVE  chld' \/ cstate[i] = "dead"
    BY <1>3 DEF Kill, TypeOK
  <1>4. CASE Connect
    BY <1>4 DEF Connect, NoLostChild, child
  <1>5. CASE Terminate
    <2>1. Announced => Announced'
      <3>1. psig' = Append(psig, "SIGTERM") /\ psig \in Seq({"SIGCHLD", "SIGTERM"})
            /\ signals' = signals
        BY <1>5 DEF Terminate, TypeOK
      <3>2. \A k \in DOMAIN psig : k \in DOMAIN psig' /\ psig'[k] = psig[k]
        BY <3>1
      <3>3. chld => chld'
        BY <1>5 DEF Terminate, Kill
      <3> QED
        BY <3>1, <3>2, <3>3 DEF Announced
    <2>2. \E S \in SUBSET Children : Kill(S)
      BY <1>5 DEF Terminate
    <2> QED
      BY <1>1, <1>2, <1>3, <2>1, <2>2 DEF Announced
  <1>6. CASE SigChld
    <2>1. psig' = Append(psig, "SIGCHLD") /\ psig \in Seq({"SIGCHLD", "SIGTERM"})
      BY <1>6 DEF SigChld, TypeOK
    <2>2. Len(psig) + 1 \in DOMAIN psig' /\ psig'[Len(psig) + 1] = "SIGCHLD"
      BY <2>1
    <2> QED
      BY <1>2, <2>2 DEF Announced
  <1>7. CASE ParentSetup \/ ParentWait \/ NobodyLeft \/ ParentEndOfRound
    BY <1>7 DEF ParentSetup, ParentWait, NobodyLeft, ParentEndOfRound,
                NoLostChild, child
  <1>8. CASE Forward
    BY <1>8 DEF Forward, NoLostChild
  <1>9. CASE RecvSignals
    <2>1. Announced => Announced'
      BY <1>9 DEF RecvSignals, Handling, Announced
    <2> QED
      BY <1>1, <1>2, <1>9, <2>1 DEF RecvSignals, child
  <1>10. CASE HandleChld
    BY <1>2, <1>10 DEF HandleChld, TypeOK
  <1>11. CASE HandleTerm
    <2>1. Announced => Announced'
      <3>1. ASSUME NEW k \in DOMAIN signals, signals[k] = "SIGCHLD"
            PROVE  k - 1 \in DOMAIN signals' /\ signals'[k - 1] = "SIGCHLD"
        BY <1>11, <3>1, SMTT(60) DEF HandleTerm, TypeOK
      <3> QED
        BY <1>11, <3>1 DEF HandleTerm, Kill, Announced, TypeOK
    <2>2. pool \in SUBSET Children /\ Kill(pool)
      BY <1>11 DEF HandleTerm, TypeOK
    <2> QED
      BY <1>1, <1>2, <1>3, <2>1, <2>2 DEF Announced
  <1>12. ASSUME NEW i \in Children, Crash(i) PROVE NoLostChild'
    BY <1>2, <1>12 DEF Crash, Die, Announced
  <1>13. ASSUME NEW i \in Children, Child(i) PROVE NoLostChild'
    <2>1. CASE ChildSetup(i) \/ ChildWait(i)
      BY <2>1 DEF ChildSetup, ChildWait, NoLostChild, TypeOK, parent
    <2>2. CASE ChildAccept(i) \/ ChildSignals(i)
      BY <2>2 DEF ChildAccept, ChildSignals, NoLostChild, parent
    <2>3. CASE ChildEndOfRound(i) /\ cstop[i]
      <3>1. ppc # "setup"
        BY <2>3 DEF QuietSetup
      <3>2. chld'
        BY <2>3, <3>1 DEF ChildEndOfRound, Die
      <3> QED
        BY <1>2, <3>2 DEF Announced
    <2>4. CASE ChildEndOfRound(i) /\ ~cstop[i]
      BY <2>4 DEF ChildEndOfRound, NoLostChild, TypeOK, parent
    <2> QED
      BY <1>13, <2>1, <2>2, <2>3, <2>4 DEF Child
  <1>14. CASE UNCHANGED vars
    BY <1>14 DEF vars, NoLostChild, parent, child
  <1> QED
    BY <1>4, <1>5, <1>6, <1>7, <1>8, <1>9, <1>10, <1>11, <1>12, <1>13, <1>14
       DEF Next, Parent

\* If no child dies before the parent's addsig(SIGCHLD), one SIGCHLD is always
\* on its way while a dead child has not been joined: merged signals do not
\* matter, because each one is answered with waitpid until none is left.
THEOREM DeadChildrenAreNoticed ==
    ASSUME ~EarlyDeath
    PROVE  Spec => []NoLostChild
  <1>1. Init => QuietSetup /\ NoLostChild
    BY DEF Init, QuietSetup, NoLostChild
  <1>2. TypeOK /\ QuietSetup /\ NoLostChild /\ [Next]_vars
          => (QuietSetup /\ NoLostChild)'
    BY QuietStep, NotLostStep
  <1> QED
    BY <1>1, <1>2, PoolTypes, PTL DEF Spec

-----------------------------------------------------------------------------
(* Notifications and connections                                           *)

LEMMA UnreadFinite ==
    ASSUME NEW p PROVE IsFiniteSet(Unread(p)) /\ Cardinality(Unread(p)) \in Nat
  <1>1. IsFiniteSet(Children) /\ IsFiniteSet(1 .. PipeCap)
    BY PoolAssumption, FS_Interval DEF Children
  <1>2. IsFiniteSet(Children \X (1 .. PipeCap))
    BY <1>1, FS_Product
  <1>3. Unread(p) \subseteq Children \X (1 .. PipeCap)
    BY DEF Unread
  <1>4. IsFiniteSet(Unread(p))
    BY <1>2, <1>3, FS_Subset
  <1> QED
    BY <1>4, FS_CardinalityType

\* A child that dies takes its notifications with it.
LEMMA UnreadFewer ==
    ASSUME NEW p \in [Children -> 0 .. PipeCap],
           NEW q \in [Children -> 0 .. PipeCap],
           \A i \in Children : q[i] <= p[i]
    PROVE  Cardinality(Unread(q)) <= Cardinality(Unread(p))
  <1>1. Unread(q) \subseteq Unread(p)
    <2> SUFFICES ASSUME NEW n \in Children \X (1 .. PipeCap), n[2] <= q[n[1]]
                 PROVE  n[2] <= p[n[1]]
      BY DEF Unread
    <2>1. PICK i \in Children, k \in 1 .. PipeCap : n = <<i, k>>
      OBVIOUS
    <2>2. k \in Nat /\ p[i] \in Nat /\ q[i] \in Nat
      BY PoolAssumption
    <2> QED
      BY <2>1, <2>2
  <1> QED
    BY <1>1, UnreadFinite, FS_Subset

\* A notification more.
LEMMA UnreadMore ==
    ASSUME NEW p \in [Children -> 0 .. PipeCap], NEW i \in Children,
           p[i] < PipeCap
    PROVE  Cardinality(Unread([p EXCEPT ![i] = @ + 1]))
              = Cardinality(Unread(p)) + 1
  <1> DEFINE q == [p EXCEPT ![i] = @ + 1]
             new == <<i, p[i] + 1>>
  <1>1. p[i] \in Nat /\ p[i] + 1 \in 1 .. PipeCap /\ PipeCap \in Nat
    BY PoolAssumption
  <1>2. /\ q \in [Children -> Nat] /\ q[i] = p[i] + 1
        /\ \A j \in Children : j # i => q[j] = p[j]
    BY <1>1
  <1> HIDE DEF q
  <1>3. ASSUME NEW j \in Children, NEW k \in 1 .. PipeCap
        PROVE  <<j, k>> \in Unread(q) <=> <<j, k>> \in Unread(p) \/ <<j, k>> = new
    <2>1. <<j, k>> \in Unread(q) <=> k <= q[j]
      BY DEF Unread
    <2>2. <<j, k>> \in Unread(p) <=> k <= p[j]
      BY DEF Unread
    <2>3. <<j, k>> = new <=> j = i /\ k = p[i] + 1
      OBVIOUS
    <2>4. k \in Nat /\ p[j] \in Nat /\ q[j] \in Nat
      BY <1>1, <1>2
    <2> QED
      BY <1>1, <1>2, <2>1, <2>2, <2>3, <2>4
  <1>4. new \in Children \X (1 .. PipeCap) /\ new \notin Unread(p)
    BY <1>1 DEF Unread
  <1> HIDE DEF new
  <1>5. /\ Unread(q) \subseteq Children \X (1 .. PipeCap)
        /\ Unread(p) \subseteq Children \X (1 .. PipeCap)
    BY DEF Unread
  <1>6. Unread(q) = Unread(p) \cup {new}
    <2>1. ASSUME NEW n \in Children \X (1 .. PipeCap)
          PROVE  n \in Unread(q) <=> n \in Unread(p) \/ n = new
      BY <1>3
    <2> QED
      BY <1>4, <1>5, <2>1
  <1>7. Cardinality(Unread(q)) = Cardinality(Unread(p)) + 1
    BY <1>4, <1>6, UnreadFinite, FS_AddElement
  <1> QED
    BY <1>7 DEF q

\* No event of a round comes twice.
Distinct(s) == \A j, k \in 1 .. Len(s) : s[j] = s[k] => j = k

LEMMA ListedCount ==
    ASSUME NEW s \in Seq({"listen", "sig"}), Distinct(s)
    PROVE  Cardinality(Listed(s)) = IF Listed(s) = {} THEN 0 ELSE 1
  <1>1. CASE Listed(s) = {}
    BY <1>1, FS_EmptySet
  <1>2. CASE Listed(s) # {}
    <2>1. PICK k \in 1 .. Len(s) : s[k] = "listen"
      BY <1>2 DEF Listed
    <2>2. Listed(s) = {k}
      BY <2>1 DEF Listed, Distinct
    <2> QED
      BY <1>2, <2>2, FS_Singleton
  <1> QED
    BY <1>1, <1>2

\* The round goes on to its next event.
LEMMA ListedTail ==
    ASSUME NEW s \in Seq({"listen", "sig"}), s # <<>>, Distinct(s)
    PROVE  /\ Distinct(Tail(s))
           /\ Listed(s) = {} => Listed(Tail(s)) = {}
           /\ Head(s) = "listen" => Listed(s) # {} /\ Listed(Tail(s)) = {}
  <1>1. /\ Len(s) \in Nat /\ Len(s) > 0 /\ Len(Tail(s)) = Len(s) - 1
        /\ \A k \in 1 .. Len(s) - 1 : Tail(s)[k] = s[k + 1]
        /\ Head(s) = s[1]
    OBVIOUS
  <1>2. Distinct(Tail(s))
    BY <1>1 DEF Distinct
  <1>3. Listed(s) = {} => Listed(Tail(s)) = {}
    BY <1>1 DEF Listed
  <1>4. Head(s) = "listen" => Listed(s) # {} /\ Listed(Tail(s)) = {}
    BY <1>1 DEF Listed, Distinct
  <1> QED
    BY <1>2, <1>3, <1>4

\* epoll_wait reports a descriptor once.
LEMMA OrdersDistinct ==
    ASSUME NEW S \in SUBSET {"listen", "sig"}, NEW s \in Orders(S)
    PROVE  Distinct(s) /\ ("listen" \notin S => Listed(s) = {})
  <1>1. s \in Seq({"listen", "sig"})
    BY OrdersAreSequences
  <1>2. IsFiniteSet(S) /\ Cardinality(S) \in Nat
    <2>1. IsFiniteSet({"listen"} \cup {"sig"})
      BY FS_Singleton, FS_AddElement
    <2>2. {"listen"} \cup {"sig"} = {"listen", "sig"}
      OBVIOUS
    <2> QED
      BY <2>1, <2>2, FS_Subset, FS_CardinalityType
  <1>3. /\ s \in [1 .. Cardinality(S) -> S]
        /\ {s[k] : k \in 1 .. Cardinality(S)} = S
    BY DEF Orders
  <1>4. Len(s) = Cardinality(S)
    BY <1>1, <1>2, <1>3
  <1>5. IsFiniteSet(1 .. Cardinality(S)) /\ Cardinality(1 .. Cardinality(S)) = Cardinality(S)
    BY <1>2, FS_Interval
  <1>6. s \in Surjection(1 .. Cardinality(S), S)
    BY <1>3 DEF Surjection
  <1>7. s \in Injection(1 .. Cardinality(S), S)
    BY <1>5, <1>6, FS_Surjection
  <1>8. Distinct(s)
    BY <1>4, <1>7 DEF Distinct, Injection, IsInjective
  <1> QED
    BY <1>3, <1>4, <1>8 DEF Listed

\* Besides, no event of a round comes twice, and until the parent has called
\* epoll_ctl nobody knows of a connection.
Told ==
    /\ ToldOnlyOfConnections
    /\ Distinct(pevents)
    /\ ppc = "setup" =>
          pready = {} /\ ~chld /\ \A i \in Children : cpipe[i] = 0

LEMMA InitTold == Init => Told
  <1> SUFFICES ASSUME Init PROVE Told
    OBVIOUS
  <1>1. /\ cpipe = [i \in Children |-> 0] /\ pevents = <<>> /\ pready = {}
        /\ backlog = 0
    BY DEF Init
  <1>2. Unread(cpipe) = {}
    BY <1>1 DEF Unread
  <1>3. Listed(pevents) = {} /\ Distinct(pevents)
    BY <1>1 DEF Listed, Distinct
  <1>4. Cardinality({}) = 0
    BY FS_EmptySet
  <1>5. ToldOnlyOfConnections
    <2>1. Unsent = 0
      BY <1>1, <1>3, <1>4 DEF Unsent
    <2>2. Cardinality(Unread(cpipe)) = 0 /\ backlog = 0
      BY <1>1, <1>2, <1>4
    <2> QED
      BY <2>1, <2>2 DEF ToldOnlyOfConnections
  <1>6. ~chld /\ \A i \in Children : cpipe[i] = 0
    BY <1>1 DEF Init
  <1> QED
    BY <1>1, <1>3, <1>5, <1>6, Zenon DEF Told

LEMMA ToldStep ==
    TypeOK /\ TypeOK' /\ Counted /\ Told /\ [Next]_vars => Told'
  <1> SUFFICES ASSUME TypeOK, TypeOK', Counted, Told, [Next]_vars PROVE Told'
    OBVIOUS
  <1>0. /\ backlog \in Nat /\ cpipe \in [Children -> 0 .. PipeCap]
        /\ pevents \in Seq({"listen", "sig"})
    BY DEF TypeOK
  <1>1. /\ backlog' \in Nat /\ cpipe' \in [Children -> 0 .. PipeCap]
        /\ pevents' \in Seq({"listen", "sig"})
    BY DEF TypeOK
  <1>2. PICK u \in Nat, v \in Nat :
            u = Cardinality(Unread(cpipe)) /\ v = Cardinality(Unread(cpipe'))
    BY UnreadFinite
  <1>18. PICK e \in 0 .. 1 : /\ e = Cardinality(Listed(pevents))
                             /\ e = IF Listed(pevents) = {} THEN 0 ELSE 1
    BY <1>0, ListedCount DEF Told
  <1>19. PICK l \in 0 .. 1, m \in 0 .. 1 :
            /\ l = IF "listen" \in pready THEN 1 ELSE 0
            /\ m = IF "listen" \in pready' THEN 1 ELSE 0
    OBVIOUS
  <1>20. PICK b \in Nat, c \in Nat : b = backlog /\ c = backlog'
    BY <1>0, <1>1
  <1>11. u + (l + e) <= b
    BY <1>2, <1>18, <1>19, <1>20 DEF Told, ToldOnlyOfConnections, Unsent
  <1>3. ASSUME NEW x \in 0 .. 1, x = Cardinality(Listed(pevents')),
               v + (m + x) <= c
        PROVE  ToldOnlyOfConnections'
    BY <1>2, <1>3, <1>19, <1>20 DEF ToldOnlyOfConnections, Unsent
  \* Nothing new to tell of: at most, connections or deaths.
  <1>4. ASSUME \A i \in Children : cpipe'[i] <= cpipe[i], backlog' >= backlog,
               "listen" \in pready' => "listen" \in pready, pevents' = pevents,
               ppc' = "setup" => ppc = "setup" /\ pready' = {} /\ ~chld'
        PROVE  Told'
    <2>1. v <= u
      BY <1>0, <1>1, <1>2, <1>4, UnreadFewer
    <2>2. e = Cardinality(Listed(pevents')) /\ m <= l /\ b <= c
      BY <1>4, <1>18, <1>19, <1>20
    <2>3. v + (m + e) <= c
      BY <1>11, <2>1, <2>2
    <2>4. ppc' = "setup" => \A i \in Children : cpipe'[i] = 0
      <3> SUFFICES ASSUME ppc' = "setup", NEW i \in Children PROVE cpipe'[i] = 0
        OBVIOUS
      <3>1. cpipe[i] = 0 /\ cpipe'[i] \in 0 .. PipeCap /\ cpipe'[i] <= cpipe[i]
        BY <1>1, <1>4 DEF Told
      <3> QED
        BY <3>1
    <2> QED
      BY <1>3, <1>4, <2>2, <2>3, <2>4 DEF Told
  <1>5. ASSUME \A i \in Children : cpipe'[i] \in {cpipe[i], 0}
        PROVE  \A i \in Children : cpipe'[i] <= cpipe[i]
    BY <1>0, <1>5
  <1>6. CASE Connect
    <2>1. /\ backlog' = backlog + 1 /\ cpipe' = cpipe /\ pevents' = pevents
          /\ ppc' = ppc
          /\ pready' = IF ppc = "setup" THEN pready ELSE pready \cup {"listen"}
      BY <1>6 DEF Connect, child
    <2>2. v = u /\ e = Cardinality(Listed(pevents')) /\ c = b + 1
      BY <1>2, <1>18, <1>20, <2>1
    <2>3. v + (m + e) <= c
      BY <1>11, <2>2
    <2>4. chld' = chld
      BY <1>6 DEF Connect
    <2> QED
      BY <1>3, <2>1, <2>2, <2>3, <2>4 DEF Told
  <1>7. CASE Terminate \/ HandleTerm
    <2>1. PICK S \in SUBSET Children : Kill(S)
      BY <1>7 DEF Terminate, HandleTerm, TypeOK
    <2>2. \A i \in Children : cpipe'[i] \in {cpipe[i], 0}
      BY <1>0, <2>1 DEF Kill
    <2>3. /\ backlog' = backlog /\ pevents' = pevents /\ ppc' = ppc
          /\ "listen" \in pready' => "listen" \in pready
          /\ ppc # "setup"
      BY <1>7 DEF Terminate, HandleTerm, TypeOK
    <2> QED
      BY <1>0, <1>4, <1>5, <2>2, <2>3
  <1>8. ASSUME NEW i \in Children, Crash(i) \/ (ChildEndOfRound(i) /\ Die(i))
        PROVE  Told'
    <2>1. \A j \in Children : cpipe'[j] \in {cpipe[j], 0}
      BY <1>0, <1>8 DEF Crash, Die
    <2>2. UNCHANGED <<backlog, ppc, pready, pevents>>
      BY <1>8 DEF Crash, ChildEndOfRound, parent
    <2>3. ppc = "setup" => pready = {} /\ ~chld'
      BY <1>8 DEF Told, Crash, Die
    <2> QED
      BY <1>0, <1>4, <1>5, <2>1, <2>2, <2>3
  <1>9. ASSUME UNCHANGED <<backlog, cpipe>>, pevents' = pevents,
               "listen" \in pready' => "listen" \in pready,
               ppc' = "setup" => UNCHANGED <<ppc, pready, chld>>
        PROVE  Told'
    <2>1. ppc = "setup" => pready = {} /\ ~chld
      BY DEF Told
    <2> QED
      BY <1>0, <1>4, <1>9, <2>1
  <1>10. CASE \/ SigChld \/ HandleChld \/ ParentEndOfRound \/ UNCHANGED vars
              \/ \E i \in Children : \/ ChildSetup(i) \/ ChildWait(i)
                                     \/ ChildSignals(i)
                                     \/ ChildEndOfRound(i) /\ UNCHANGED <<chld, cpipe>>
    <2>1. /\ UNCHANGED <<backlog, cpipe>> /\ pevents' = pevents
          /\ "listen" \in pready' => "listen" \in pready
      BY <1>10
      DEF SigChld, HandleChld, ParentEndOfRound, vars, ChildSetup, ChildWait,
          ChildSignals, ChildEndOfRound, parent, child
    <2>2. ppc' = "setup" => UNCHANGED <<ppc, pready, chld>> \/ (chld /\ ppc' = ppc)
      BY <1>10
      DEF SigChld, HandleChld, ParentEndOfRound, vars, ChildSetup, ChildWait,
          ChildSignals, ChildEndOfRound, parent
    <2>3. ppc = "setup" => ~chld
      BY DEF Told
    <2> QED
      BY <1>9, <2>1, <2>2, <2>3
  <1>12. CASE ParentSetup
    <2>1. /\ ppc = "setup" /\ ppc' = "wait" /\ cpipe' = cpipe
          /\ pready' = (IF backlog > 0 THEN {"listen"} ELSE {})
          /\ pevents' = pevents /\ backlog' = backlog
      BY <1>12 DEF ParentSetup, child
    <2>2. pevents = <<>> /\ \A i \in Children : cpipe[i] = 0
      BY <2>1 DEF TypeOK, Told
    <2>3. Unread(cpipe) = {} /\ Listed(pevents) = {}
      BY <2>2 DEF Unread, Listed
    <2>4. v = 0 /\ Cardinality(Listed(pevents')) = 0
      BY <1>2, <2>1, <2>3, FS_EmptySet
    <2>5. c = b /\ (m = 1 => b > 0)
      BY <1>19, <1>20, <2>1
    <2>6. v + (m + 0) <= c
      BY <2>4, <2>5
    <2> QED
      BY <1>3, <2>1, <2>4, <2>6 DEF Told
  <1>13. CASE ParentWait
    <2> DEFINE news == {f \in pready : ParentReadable(f)}
    <2>1. /\ ppc = "wait" /\ ppc' = "loop" /\ pevents' \in Orders(news)
          /\ pready' = {} /\ UNCHANGED <<backlog, cpipe>>
      BY <1>13 DEF ParentWait, child
    <2>2. news \subseteq pready /\ news \in SUBSET {"listen", "sig"}
      BY DEF TypeOK
    <2> HIDE DEF news
    <2>3. Distinct(pevents') /\ ("listen" \notin news => Listed(pevents') = {})
      BY <2>1, <2>2, OrdersDistinct
    <2>4. PICK x \in 0 .. 1 : /\ x = Cardinality(Listed(pevents'))
                              /\ x = IF Listed(pevents') = {} THEN 0 ELSE 1
      BY <1>1, <2>3, ListedCount
    <2>5. v = u /\ m = 0 /\ x <= l /\ c = b
      BY <1>2, <1>19, <1>20, <2>1, <2>2, <2>3, <2>4
    <2>6. v + (m + x) <= c
      BY <1>11, <2>5
    <2> QED
      BY <1>3, <2>1, <2>3, <2>4, <2>6 DEF Told
  <1>14. CASE Forward
    <2> DEFINE i == RoundRobin
    <2>1. /\ i \in Children /\ Send(i) /\ pevents' = Tail(pevents)
          /\ pevents # <<>> /\ Head(pevents) = "listen" /\ ppc = "loop"
          /\ UNCHANGED <<backlog, pready, ppc>>
      BY <1>14, RoundRobinFinds DEF Forward, Handling, TypeOK
    <2> HIDE DEF i
    <2>2. /\ Distinct(pevents') /\ Listed(pevents) # {} /\ Listed(pevents') = {}
      BY <1>0, <2>1, ListedTail DEF Told
    <2>3. e = 1 /\ Cardinality(Listed(pevents')) = 0 /\ m = l /\ c = b
      BY <1>18, <1>19, <1>20, <2>1, <2>2, FS_EmptySet
    <2>4. v <= u + 1
      <3>1. CASE Dead(i)
        <4>1. cpipe' = cpipe
          BY <2>1, <3>1 DEF Send
        <4>2. v = u
          BY <1>2, <4>1
        <4> QED
          BY <4>2
      <3>2. CASE ~Dead(i)
        <4>1. cpipe[i] < PipeCap /\ cpipe' = [cpipe EXCEPT ![i] = @ + 1]
          BY <2>1, <3>2 DEF Send
        <4>2. v = u + 1
          BY <1>0, <1>2, <2>1, <4>1, UnreadMore
        <4> QED
          BY <4>2
      <3> QED
        BY <3>1, <3>2
    <2>5. v + (m + 0) <= c
      BY <1>11, <2>3, <2>4
    <2> QED
      BY <1>3, <2>1, <2>2, <2>3, <2>5 DEF Told
  <1>15. CASE NobodyLeft \/ RecvSignals
    <2>1. /\ pevents' \in {<<>>, Tail(pevents)} /\ pevents # <<>>
          /\ ppc = "loop" /\ UNCHANGED <<backlog, pready, ppc, cpipe>>
      BY <1>15 DEF NobodyLeft, RecvSignals, Handling, child
    <2>2. Distinct(<<>>) /\ Listed(<<>>) = {}
      BY DEF Distinct, Listed
    <2>3. /\ Distinct(Tail(pevents))
          /\ Listed(pevents) = {} => Listed(Tail(pevents)) = {}
      BY <1>0, <2>1, ListedTail DEF Told
    <2>4. Distinct(pevents') /\ (Listed(pevents) = {} => Listed(pevents') = {})
      BY <2>1, <2>2, <2>3
    <2>5. PICK x \in 0 .. 1 : /\ x = Cardinality(Listed(pevents'))
                              /\ x = IF Listed(pevents') = {} THEN 0 ELSE 1
      BY <1>1, <2>4, ListedCount
    <2>6. v = u /\ m = l /\ x <= e /\ c = b
      BY <1>2, <1>18, <1>19, <1>20, <2>1, <2>4, <2>5
    <2>7. v + (m + x) <= c
      BY <1>11, <2>6
    <2> QED
      BY <1>3, <2>1, <2>4, <2>5, <2>7 DEF Told
  <1>16. ASSUME NEW i \in Children, ChildAccept(i) PROVE Told'
    <2>1. /\ cpipe' = [cpipe EXCEPT ![i] = @ - 1] /\ cpipe[i] > 0
          /\ backlog' = (IF backlog > 0 THEN backlog - 1 ELSE 0)
          /\ UNCHANGED <<ppc, pready, pevents, chld>>
      BY <1>16 DEF ChildAccept, Counted, parent
    <2>2. PICK q \in [Children -> 0 .. PipeCap] : q = cpipe'
      BY <1>1
    <2>7. /\ q[i] = cpipe[i] - 1 /\ cpipe[i] \in 0 .. PipeCap
          /\ \A j \in Children : j # i => q[j] = cpipe[j]
      BY <1>0, <2>1, <2>2
    <2>8. q[i] < PipeCap /\ q[i] + 1 = cpipe[i]
      BY <2>7, PoolAssumption
    <2>9. cpipe = [q EXCEPT ![i] = @ + 1]
      BY <1>0, <2>2, <2>7, <2>8
    <2>3. u = v + 1
      BY <1>2, <2>2, <2>8, <2>9, UnreadMore
    <2>4. e = Cardinality(Listed(pevents')) /\ m = l
          /\ (b > 0 => c = b - 1)
      BY <1>18, <1>19, <1>20, <2>1
    <2>5. v + (m + e) <= c
      BY <1>11, <2>3, <2>4
    <2>6. ppc # "setup"
      BY <2>1 DEF Told
    <2> QED
      BY <1>3, <2>1, <2>4, <2>5, <2>6 DEF Told
  <1>17. ASSUME NEW i \in Children, ChildEndOfRound(i)
         PROVE  Die(i) \/ UNCHANGED <<chld, cpipe>>
    BY <1>17 DEF ChildEndOfRound
  <1> QED
    BY <1>6, <1>7, <1>8, <1>10, <1>12, <1>13, <1>14, <1>15, <1>16, <1>17
    DEF Next, Parent, Child

\* half_sync_half_async.h:213: however children race for the listening socket
\* and die, no more notifications are on their way than connections wait, so
\* that accept() finds one.
THEOREM ChildrenToldOfConnections == Spec => []ToldOnlyOfConnections
  <1>1. Spec => [](TypeOK /\ Counted)
    BY InitTypes, TypeStep, PTL DEF Spec
  <1>2. Told => ToldOnlyOfConnections
    BY DEF Told
  <1> QED
    BY <1>1, <1>2, InitTold, ToldStep, PTL DEF Spec
=============================================================================
