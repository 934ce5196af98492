---------------------------- MODULE SessionCache ----------------------------
(***************************************************************************)
(* SessionCache (utils/browser/session.py): every thread has a dict of     *)
(* HTTP sessions of its own, and a list holds all the dicts so that a      *)
(* recycle can empty them.                                                 *)
(*                                                                         *)
(* The lock covers the list and clear_all(), and nothing that get() does   *)
(* with its own dict: the test for the key, the making of a session, its   *)
(* store and the lookup are four steps between which another thread's      *)
(* clear_all() may close the sessions of that dict and empty it.           *)
(*                                                                         *)
(* Sessions are numbered in the order they are made; 0 is none.            *)
(***************************************************************************)
EXTENDS Runtime, FiniteSets

CONSTANTS SessionKeys,  \* (impersonation, resolve entries) or (http2, dns)
          NoThread,     \* nobody
          MaxSessions   \* bound: sessions made in a behaviour

ASSUME SessionCacheAssumption ==
    /\ SessionKeys # {}
    /\ NoThread \notin Threads
    /\ MaxSessions \in Nat

VARIABLES stores,      \* _local.store of each thread: key -> session or 0
          made,        \* what _factory() has returned to a thread that has not
                       \* stored it yet, or 0
          registered,  \* threads whose dict is in _stores
          sessions,    \* how many sessions have been made
          closed,      \* the sessions close() was called on
          clearing,    \* the thread in clear_all(), which holds _lock
          toClear,     \* the threads whose dicts it has still to empty
          emptying,    \* the one whose sessions it has closed, not yet cleared
          fresh        \* history: fresh.begun are the sessions that were in a
                       \* dict when the last clear_all() began, fresh.done
                       \* those of all that are complete

cacheVars == <<stores, made, registered, sessions, closed,
               clearing, toClear, emptying, fresh>>

CacheTypeOK ==
    /\ stores \in [Threads -> [SessionKeys -> Nat]]
    /\ made \in [Threads -> Nat]
    /\ registered \subseteq Threads
    /\ sessions \in Nat
    /\ closed \subseteq Nat
    /\ clearing \in Threads \union {NoThread}
    /\ toClear \subseteq Threads
    /\ emptying \in Threads \union {NoThread}
    /\ fresh \in [done : SUBSET Nat, begun : SUBSET Nat]

EmptyStore == [k \in SessionKeys |-> 0]

CacheInit ==
    /\ stores = [t \in Threads |-> EmptyStore]
    /\ made = [t \in Threads |-> 0]
    /\ registered = {}
    /\ sessions = 0
    /\ closed = {}
    /\ clearing = NoThread
    /\ toClear = {}
    /\ emptying = NoThread
    /\ fresh = [done |-> {}, begun |-> {}]

-----------------------------------------------------------------------------
\* get(), first use by t: its dict goes on the list, under the lock.
CacheRegister(t) ==
    /\ clearing = NoThread
    /\ registered' = registered \union {t}
    /\ UNCHANGED <<stores, made, sessions, closed, clearing, toClear, emptying, fresh>>

\* get(): `key not in store`
Misses(t, k) == stores[t][k] = 0

\* get(): self._factory(key), which may take its time
CacheMake(t) ==
    /\ sessions < MaxSessions
    /\ sessions' = sessions + 1
    /\ made' = [made EXCEPT ![t] = sessions']
    /\ UNCHANGED <<stores, registered, closed, clearing, toClear, emptying, fresh>>

\* get(): store[key] = what it returned
CacheStore(t, k) ==
    /\ stores' = [stores EXCEPT ![t][k] = made[t]]
    /\ made' = [made EXCEPT ![t] = 0]
    /\ UNCHANGED <<registered, sessions, closed, clearing, toClear, emptying, fresh>>

\* The sessions that are in some thread's dict: those that may have been used.
Cached == {stores[u][k] : u \in Threads, k \in SessionKeys} \ {0}

-----------------------------------------------------------------------------
\* clear_all(): t takes the lock.
ClearBegin(t) ==
    /\ clearing = NoThread
    /\ clearing' = t
    /\ toClear' = registered
    /\ fresh' = [fresh EXCEPT !.begun = Cached]
    /\ UNCHANGED <<stores, made, registered, sessions, closed, emptying>>

\* for value in list(store.values()): close()
ClearClose(t, u) ==
    /\ clearing = t
    /\ emptying = NoThread
    /\ u \in toClear
    /\ closed' = closed \union ({stores[u][k] : k \in SessionKeys} \ {0})
    /\ emptying' = u
    /\ UNCHANGED <<stores, made, registered, sessions, clearing, toClear, fresh>>

\* store.clear()
ClearEmptyForgotten(t) ==
    /\ clearing = t
    /\ emptying # NoThread
    /\ toClear' = toClear \ {emptying}
    /\ emptying' = NoThread
    /\ UNCHANGED <<stores, made, registered, sessions, closed, clearing, fresh>>
ClearEmpty(t) ==
    /\ clearing = t
    /\ emptying # NoThread
    /\ stores' = [stores EXCEPT ![emptying] = EmptyStore]
    /\ toClear' = toClear \ {emptying}
    /\ emptying' = NoThread
    /\ UNCHANGED <<made, registered, sessions, closed, clearing, fresh>>

\* clear_all() returns and the lock is free.
ClearEndKeepsLock(t) ==
    /\ clearing = t
    /\ emptying = NoThread
    /\ toClear = {}
    /\ fresh' = [fresh EXCEPT !.done = @ \union fresh.begun]
    /\ UNCHANGED <<stores, made, registered, sessions, closed, clearing,
                   toClear, emptying>>
ClearEnd(t) ==
    /\ clearing = t
    /\ emptying = NoThread
    /\ toClear = {}
    /\ clearing' = NoThread
    /\ fresh' = [fresh EXCEPT !.done = @ \union fresh.begun]
    /\ UNCHANGED <<stores, made, registered, sessions, closed, toClear, emptying>>
=============================================================================
