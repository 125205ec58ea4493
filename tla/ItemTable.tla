----------------------------- MODULE ItemTable -----------------------------
(***************************************************************************)
(* What the memcached server's item store promises to its threads: a table *)
(* of keys on which every storeItem and getItem call takes effect at one   *)
(* instant between its call and its return.                                *)
(*                                                                         *)
(* storeItem is insert-if-absent: std::unordered_set::insert leaves an     *)
(* equal element in place.  getItem returns the entry, or None when there  *)
(* is none (the null ConstItemPtr).                                        *)
(***************************************************************************)

CONSTANTS Callers,  \* the threads that call the store
          Keys,     \* the keys of the items
          Vals,     \* flag, exptime and data of an item, taken together
          None      \* no entry, no argument

VARIABLES table,    \* the entry of every key
          call      \* the call each thread has under way

tableVars == <<table, call>>

CallOf(status, cmd, k, v, result) ==
    [status |-> status, cmd |-> cmd, key |-> k, value |-> v, result |-> result]

NoCall == CallOf("idle", None, None, None, None)

TableInit ==
    /\ table = [k \in Keys |-> None]
    /\ call = [t \in Callers |-> NoCall]

\* A thread enters storeItem (with an item) or getItem (with a key item).
Call(t, cmd, k, v) ==
    /\ call[t].status = "idle"
    /\ call' = [call EXCEPT ![t] = CallOf("called", cmd, k, v, None)]
    /\ UNCHANGED table

\* The instant at which storeItem takes effect.
DoStore(t) ==
    /\ call[t].status = "called" /\ call[t].cmd = "set"
    /\ table' = [table EXCEPT ![call[t].key] =
                    IF @ = None THEN call[t].value ELSE @]
    /\ call' = [call EXCEPT ![t] = CallOf("done", @.cmd, @.key, @.value, None)]

\* The instant at which getItem takes effect.
DoGet(t) ==
    /\ call[t].status = "called" /\ call[t].cmd = "get"
    /\ call' = [call EXCEPT ![t] = CallOf("done", @.cmd, @.key, @.value,
                                          table[@.key])]
    /\ UNCHANGED table

\* The call returns and its result is used.
Return(t) ==
    /\ call[t].status = "done"
    /\ call' = [call EXCEPT ![t] = NoCall]
    /\ UNCHANGED table

TableNext ==
    \E t \in Callers :
        \/ \E k \in Keys, v \in Vals : Call(t, "set", k, v)
        \/ \E k \in Keys : Call(t, "get", k, None)
        \/ DoStore(t)
        \/ DoGet(t)
        \/ Return(t)

TableSpec == TableInit /\ [][TableNext]_tableVars
=============================================================================
