------------------------------ MODULE SharedStore -----------------------------
(***************************************************************************)
(* The blue and the green backend, each with the freezes of its own memory *)
(* and both writing to the one state.sqlite3 (settings.state_db_path is    *)
(* the same for every slot).  Requests are reduced to what they do to the  *)
(* freezes: any key may be frozen at any time, and every selection sweeps. *)
(* The dashboard's clear is left out: it is meant to lift freezes.         *)
(***************************************************************************)
EXTENDS RouterState

CONSTANTS
  Backends,   \* the processes
  Durations,  \* lengths of freezes
  MaxTime     \* bound of the clock, for model checking

VARIABLES now, frozen, frozenRows

vars == <<now, frozen, frozenRows>>

Init ==
  /\ now = 1
  /\ frozen = [p \in Backends |-> [k \in Keys |-> 0]]
  /\ frozenRows = [k \in Keys |-> 0]

Freeze(p, k, duration) ==
  /\ frozen' = [frozen EXCEPT ![p] = FreezeAll(@, {k}, now + duration)]
  /\ frozenRows' = StoreFreezeAll(frozenRows, frozen[p], {k}, now + duration)
  /\ UNCHANGED now

\* cleanup() deletes the rows of what has expired in this process.
Sweep(p) ==
  /\ frozen' = [frozen EXCEPT ![p] = Thaw(@, now)]
  /\ frozenRows' = StoreThaw(frozenRows, frozen[p], now)
  /\ UNCHANGED now

Restart(p) ==
  /\ frozen' = [frozen EXCEPT ![p] = Thaw(frozenRows, now)]
  /\ UNCHANGED <<now, frozenRows>>

Tick ==
  /\ now < MaxTime
  /\ now' = now + 1
  /\ UNCHANGED <<frozen, frozenRows>>

Next ==
  \/ \E p \in Backends :
       \/ \E k \in Keys, duration \in Durations : Freeze(p, k, duration)
       \/ Sweep(p)
       \/ Restart(p)
  \/ Tick

Spec == Init /\ [][Next]_vars

\* A freeze in the database that is not over is cut short only by the sweep of a
\* process whose own freeze of that key is over: neither by a shorter freeze of the
\* other process nor by one that starts.  That sweep deletes by name, and then the key
\* is open to whoever starts next.  (state/mod.rs:168, state_store.rs:82)
RowsKept ==
  [][\A k \in Keys :
       frozenRows'[k] < frozenRows[k] /\ frozenRows[k] > now =>
         \E p \in Backends : Sweep(p) /\ 0 < frozen[p][k] /\ frozen[p][k] <= now]_vars
===============================================================================
