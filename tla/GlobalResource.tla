--------------------------- MODULE GlobalResource ---------------------------
(***************************************************************************)
(* set_default_resource and get_default_resource in builds without         *)
(* <atomic> (src/src/global_resource.cpp:80-116): a static pointer under   *)
(* dlmalloc's global spin lock.  The pointer is null until the program's   *)
(* static initialization reaches global_resource.cpp, which the functions  *)
(* allow for.                                                              *)
(***************************************************************************)
CONSTANTS
  Threads,
  Resources,
  NewDelete,
  Null,
  EarlyCalls     \* which of "get" and "set" static code of other files calls

ASSUME GlobalAssumption ==
  /\ NewDelete \in Resources /\ Null \notin Resources
  /\ EarlyCalls \subseteq {"get", "set"}

VARIABLES
  initialized,   \* static initialization has run global_resource.cpp's
  pointer,       \* default_memory_resource
  lock,          \* malloc_global_mutex
  pc,
  request,       \* the call each thread is in
  local          \* "previous" or "current": the value read under the lock

vars == <<initialized, pointer, lock, pc, request, local>>

NoRequest == [op |-> "none"]
Requests == {NoRequest, [op |-> "get"]} \cup [op : {"set"}, r : Resources \cup {Null}]

Init ==
  /\ initialized = FALSE
  /\ pointer = Null
  /\ lock = 0
  /\ pc = [t \in Threads |-> "idle"]
  /\ request = [t \in Threads |-> NoRequest]
  /\ local = [t \in Threads |-> Null]

\* The dynamic initialization of default_memory_resource.  Before main there
\* is one thread, between two calls.
StaticInit ==
  /\ ~initialized
  /\ \A t \in Threads : pc[t] = "idle"
  /\ initialized' = TRUE
  /\ pointer' = NewDelete
  /\ UNCHANGED <<lock, pc, request, local>>

Call(t) ==
  /\ pc[t] = "idle"
  /\ \E q \in Requests \ {NoRequest} :
       /\ initialized \/ (q.op \in EarlyCalls /\ \A u \in Threads : pc[u] = "idle")
       /\ request' = [request EXCEPT ![t] = q]
  /\ pc' = [pc EXCEPT ![t] = "acquire"]
  /\ UNCHANGED <<initialized, pointer, lock, local>>

-----------------------------------------------------------------------------
(* The spin lock *)

\* ACQUIRE_LOCK: CAS_LOCK first, the spin only if it fails.
CasLock(t) ==
  /\ pc[t] = "acquire"
  /\ lock' = 1
  /\ pc' = [pc EXCEPT ![t] = IF lock = 0 THEN "read" ELSE "spin"]
  /\ UNCHANGED <<initialized, pointer, request, local>>

\* spin_acquire_lock reads the word until it is zero, then tries CAS_LOCK
\* again; __sync_lock_test_and_set writes 1 either way.
Spin(t) ==
  /\ pc[t] = "spin" /\ lock = 0
  /\ pc' = [pc EXCEPT ![t] = "acquire"]
  /\ UNCHANGED <<initialized, pointer, lock, request, local>>

-----------------------------------------------------------------------------
(* Under the lock *)

\* "function called before main, default_memory_resource is not initialized yet"
OrNewDelete(p) == IF p = Null THEN NewDelete ELSE p

Read(t) ==
  /\ pc[t] = "read"
  /\ local' = [local EXCEPT ![t] = OrNewDelete(pointer)]
  /\ pc' = [pc EXCEPT ![t] = IF request[t].op = "set" THEN "write" ELSE "unlock"]
  /\ UNCHANGED <<initialized, pointer, lock, request>>

\* Faulty form: a null argument leaves the pointer alone.
WriteUnlessNull(t) ==
  /\ pc[t] = "write"
  /\ pointer' = IF request[t].r = Null THEN pointer ELSE request[t].r
  /\ pc' = [pc EXCEPT ![t] = "unlock"]
  /\ UNCHANGED <<initialized, lock, request, local>>

Write(t) ==
  /\ pc[t] = "write"
  /\ pointer' = OrNewDelete(request[t].r)
  /\ pc' = [pc EXCEPT ![t] = "unlock"]
  /\ UNCHANGED <<initialized, lock, request, local>>

\* Faulty form: get_default_resource forgets to unlock.
UnlockAfterSet(t) ==
  /\ pc[t] = "unlock"
  /\ lock' = IF request[t].op = "set" THEN 0 ELSE lock
  /\ pc' = [pc EXCEPT ![t] = "idle"]
  /\ request' = [request EXCEPT ![t] = NoRequest]
  /\ local' = [local EXCEPT ![t] = Null]
  /\ UNCHANGED <<initialized, pointer>>

\* CLEAR_LOCK, then the return of the value read.
Unlock(t) ==
  /\ pc[t] = "unlock"
  /\ lock' = 0
  /\ pc' = [pc EXCEPT ![t] = "idle"]
  /\ request' = [request EXCEPT ![t] = NoRequest]
  /\ local' = [local EXCEPT ![t] = Null]
  /\ UNCHANGED <<initialized, pointer>>

Locked(t) == Read(t) \/ Write(t) \/ Unlock(t)

Next ==
  \/ StaticInit
  \/ \E t \in Threads : Call(t) \/ CasLock(t) \/ Spin(t) \/ Locked(t)

\* Threads keep running; the spin lock promises no thread its turn.
Spec ==
  /\ Init /\ [][Next]_vars
  /\ \A t \in Threads : WF_vars(CasLock(t)) /\ WF_vars(Spin(t)) /\ WF_vars(Locked(t))

-----------------------------------------------------------------------------
(* Properties *)

\* Whoever spins, some thread gets through: an exchange under way finishes.
Progress ==
  (\E t \in Threads : pc[t] \in {"acquire", "spin"}) ~> (\E t \in Threads : pc[t] = "unlock")

\* "Calling the set_default_resource and get_default_resource functions shall
\* not incur a data race" (global_resource.hpp:49): the locked functions are an
\* atomic exchange and an atomic load of one pointer, the pointer being the
\* new_delete_resource() as long as it is null.
Abstract == INSTANCE DefaultResource WITH
  default <- OrNewDelete(pointer),
  result <- [t \in Threads |-> IF pc[t] = "unlock" THEN local[t] ELSE Null]

ImplementsDefaultResource == Abstract!Spec
=============================================================================
