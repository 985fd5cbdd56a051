--------------------------- MODULE KeyValueStore ---------------------------
(***************************************************************************)
(* What the tasks that call StorageEngine's write() and delete()           *)
(* (clotho/storage.py) may count on: a map whose keys change by their      *)
(* calls and by nothing else, a flush, a stop and a restart included, and  *)
(* of which a crash loses what was not saved yet and nothing more.         *)
(*                                                                         *)
(* The map has the keys the promise holds for.  A key leaves it by a call  *)
(* on that key, made beside another one or not ended as it should, or by a *)
(* crash that loses a call on it; a restart makes the map complete again.  *)
(***************************************************************************)
CONSTANTS Client, Key, Version, Absent

VARIABLES store,    \* the map: a version or Absent for each key it has
          pending,  \* each client's call: the key and what it leaves there
          unsaved   \* keys of the map with calls that a crash may lose

vars == <<store, pending, unsaved>>

Value == Version \cup {Absent}
NoCall == <<>>

Calls(c, k) == pending[c] # NoCall /\ pending[c].key = k

Init ==
    /\ store = [k \in Key |-> Absent]
    /\ pending = [c \in Client |-> NoCall]
    /\ unsaved = {}

\* The map gets the form s, without the keys in lost.
Becomes(s, lost) ==
    /\ store' = [k \in DOMAIN s \ lost |-> s[k]]
    /\ unsaved' = unsaved \ lost

\* A client calls; two calls at a time on one key are not promised anything.
Begin(c, k, v) ==
    /\ pending[c] = NoCall
    /\ pending' = [pending EXCEPT ![c] = [key |-> k, version |-> v]]
    /\ Becomes(store, {j \in {k} : \E d \in Client : Calls(d, j)})

\* The call is in the log, where it may be lost until it is saved.
Log(c) ==
    /\ pending[c] # NoCall
    /\ unsaved' = unsaved \cup ({pending[c].key} \cap DOMAIN store)
    /\ UNCHANGED <<store, pending>>

\* It returns: the only step that gives a key of the map another version.
End(c) ==
    /\ pending[c] # NoCall
    /\ pending' = [pending EXCEPT ![c] = NoCall]
    /\ \E lost \in SUBSET {pending[c].key} :
           Becomes([k \in DOMAIN store |-> IF Calls(c, k) THEN pending[c].version ELSE store[k]], lost)

\* It is cancelled: either nothing came of it, or nothing is promised.
Forget(c) ==
    /\ pending[c] # NoCall
    /\ pending' = [pending EXCEPT ![c] = NoCall]
    /\ \E lost \in SUBSET {pending[c].key} : Becomes(store, lost)

\* What was logged is safe.
Save ==
    /\ unsaved' = {}
    /\ UNCHANGED <<store, pending>>

\* A crash touches the keys called and the unsaved ones only.
Crash ==
    /\ pending' = [c \in Client |-> NoCall]
    /\ \E lost \in SUBSET (unsaved \cup {k \in Key : \E c \in Client : Calls(c, k)}) :
           store' = [k \in DOMAIN store \ lost |-> store[k]]
    /\ unsaved' = {}

\* Every key is promised again, with what the map says where it says something.
Restart ==
    /\ pending = [c \in Client |-> NoCall] /\ unsaved = {}
    /\ store' \in [Key -> Value]
    /\ \A k \in DOMAIN store : store'[k] = store[k]
    /\ UNCHANGED <<pending, unsaved>>

Next ==
    \/ \E c \in Client, k \in Key, v \in Value : Begin(c, k, v)
    \/ \E c \in Client : Log(c) \/ End(c) \/ Forget(c)
    \/ Save
    \/ Crash
    \/ Restart

Spec == Init /\ [][Next]_vars
=============================================================================
