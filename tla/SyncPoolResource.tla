-------------------------- MODULE SyncPoolResource --------------------------
(***************************************************************************)
(* synchronized_pool_resource (src/src/synchronized_pool_resource.cpp):    *)
(* threads that call a PoolResource under m_mut, taken and released by the *)
(* scoped thread_mutex_lock, and the observer pool_cached_blocks(), which  *)
(* takes no lock; pool_count(), which takes none either, is left out.      *)
(*                                                                         *)
(* A step is one access to the state threads share, where another thread   *)
(* could come between: priv_init_pools publishes m_pool_data before        *)
(* m_pool_count, and a free list is read before it is written.             *)
(***************************************************************************)
EXTENDS PoolResource

CONSTANTS
  Threads,
  NoThread      \* the owner of a free mutex

ASSUME SyncAssumption == NoThread \notin Threads

VARIABLES
  mutex,        \* m_mut: the thread inside, or NoThread
  poolCount,    \* m_pool_count
  pc,           \* where each thread is
  call,         \* the member function each thread is in, with its arguments
  seen          \* the free list a thread has read and not yet written; for
                \* cache_count, the node of pool 0 the walk stands on

syncVars == <<mutex, poolCount, pc, call, seen>>
allVars  == <<vars, syncVars>>

NoCall == [op |-> "none"]

SyncInit ==
  /\ Init
  /\ mutex = NoThread
  /\ poolCount = 0
  /\ pc = [t \in Threads |-> "idle"]
  /\ call = [t \in Threads |-> NoCall]
  /\ seen = [t \in Threads |-> <<>>]

Goto(t, label) == pc' = [pc EXCEPT ![t] = label]

\* The object is made before the threads use it and destroyed after.
SyncConstruct == Construct /\ UNCHANGED syncVars

SyncDestroy ==
  /\ \A t \in Threads : pc[t] = "idle"
  /\ Destroy
  /\ poolCount' = 0
  /\ UNCHANGED <<mutex, pc, call, seen>>

-----------------------------------------------------------------------------
(* The calls.  Callers may deallocate what is outstanding once, and not    *)
(* while another thread releases everything.                               *)

Begin(t, c) ==
  /\ alive /\ pc[t] = "idle"
  /\ call' = [call EXCEPT ![t] = c]
  /\ UNCHANGED <<vars, mutex, poolCount, seen>>

CallAllocate(t) ==
  \E bytes \in Sizes : Begin(t, [op |-> "allocate", bytes |-> bytes]) /\ Goto(t, "lock")

CallDeallocate(t) ==
  /\ \A u \in Threads : call[u].op # "release"
  /\ \E e \in outstanding :
       /\ \A u \in Threads : call[u].op = "deallocate" => call[u].extent # e
       /\ Begin(t, [op |-> "deallocate", extent |-> e])
  /\ Goto(t, "lock")

CallRelease(t) ==
  /\ \A u \in Threads : call[u].op \notin {"deallocate", "release"}
  /\ Begin(t, [op |-> "release"])
  /\ Goto(t, "lock")

\* Faulty form: m_mut does not exclude.
LockIgnoringOwner(t) ==
  /\ pc[t] = "lock"
  /\ mutex' = t
  /\ Goto(t, "inside")
  /\ UNCHANGED <<vars, poolCount, call, seen>>

\* thread_mutex_lock's constructor
Lock(t) ==
  /\ pc[t] = "lock" /\ mutex = NoThread
  /\ mutex' = t
  /\ Goto(t, "inside")
  /\ UNCHANGED <<vars, poolCount, call, seen>>

\* priv_init_pools up to the assignment of m_pool_data, when the first
\* allocate of the resource is in it.
InitPools(t) ==
  /\ pc[t] = "inside" /\ call[t].op = "allocate" /\ poolData = NoRegion
  /\ \E s \in Ready : poolData' = s.data /\ pools' = s.pools /\ lent' = s.lent
  /\ Goto(t, "count")
  /\ UNCHANGED <<alive, options, oversized, outstanding, mutex, poolCount, call, seen>>

\* priv_init_pools' last statement: m_pool_count = num_pools
SetPoolCount(t) ==
  /\ pc[t] = "count"
  /\ poolCount' = PoolCount
  /\ Goto(t, "inside")
  /\ UNCHANGED <<vars, mutex, call, seen>>

\* priv_init_pools throws: the scoped lock unlocks.
InitThrows(t) ==
  /\ pc[t] = "inside" /\ call[t].op = "allocate"
  /\ InitPoolsThrows
  /\ Goto(t, "unlock")
  /\ UNCHANGED <<mutex, poolCount, call, seen>>

Request(t) == IF call[t].op = "allocate" THEN call[t].bytes ELSE call[t].extent.bytes

\* allocate_block and deallocate_block read the head of the free list ...
ReadFreeList(t) ==
  /\ pc[t] = "inside" /\ call[t].op \in {"allocate", "deallocate"} /\ poolData # NoRegion
  /\ ~Oversized(Request(t))
  /\ LET free == pools[PoolIndex(Request(t))].free IN
     /\ call[t].op = "allocate" => free # <<>>
     /\ seen' = [seen EXCEPT ![t] = free]
  /\ Goto(t, "write")
  /\ UNCHANGED <<vars, mutex, poolCount, call>>

WriteFreeList(t, list) ==
  /\ pc[t] = "write"
  /\ pools' = [pools EXCEPT ![PoolIndex(Request(t))].free = list]
  /\ seen' = [seen EXCEPT ![t] = <<>>]
  /\ Goto(t, "unlock")
  /\ UNCHANGED <<alive, options, poolData, oversized, lent, mutex, poolCount, call>>

\* ... and write it: without its head, or with the block in front.
TakeBlock(t) ==
  /\ call[t].op = "allocate"
  /\ WriteFreeList(t, Tail(seen[t]))
  /\ outstanding' = outstanding \cup {[at |-> Head(seen[t]), bytes |-> call[t].bytes]}

GiveBlock(t) ==
  /\ call[t].op = "deallocate"
  /\ WriteFreeList(t, <<call[t].extent.at>> \o seen[t])
  /\ outstanding' = outstanding \ {call[t].extent}

\* do_allocate that needs upstream, a throw included; do_deallocate of an
\* oversized block; release.
Work(t) ==
  /\ pc[t] = "inside"
  /\ \/ /\ call[t].op = "allocate" /\ poolData # NoRegion
        /\ IF Oversized(Request(t)) THEN TRUE ELSE pools[PoolIndex(Request(t))].free = <<>>
        /\ Allocate(call[t].bytes)
     \/ /\ call[t].op = "deallocate" /\ Oversized(Request(t))
        /\ Deallocate(call[t].extent)
     \/ call[t].op = "release" /\ Release
  /\ Goto(t, "unlock")
  /\ UNCHANGED <<mutex, poolCount, call, seen>>

\* Faulty form: a throw leaves the mutex locked.
UnlockUnlessThrown(t) ==
  /\ pc[t] = "unlock"
  /\ mutex' = IF poolData = NoRegion THEN mutex ELSE NoThread
  /\ Goto(t, "idle")
  /\ call' = [call EXCEPT ![t] = NoCall]
  /\ UNCHANGED <<vars, poolCount, seen>>

\* thread_mutex_lock's destructor, after a return and after a throw
Unlock(t) ==
  /\ pc[t] = "unlock"
  /\ mutex' = NoThread
  /\ Goto(t, "idle")
  /\ call' = [call EXCEPT ![t] = NoCall]
  /\ UNCHANGED <<vars, poolCount, seen>>

-----------------------------------------------------------------------------
(* The observer, without the lock *)

CallCachedBlocks(t) ==
  Begin(t, [op |-> "pool_cached_blocks"]) /\ Goto(t, "ready?")

\* m_pool_data && 0 < m_pool_count, then the list's first node
StartWalk(t) ==
  /\ pc[t] = "ready?"
  /\ IF poolData # NoRegion /\ 0 < poolCount /\ pools[0].free # <<>>
     THEN /\ seen' = [seen EXCEPT ![t] = <<Head(pools[0].free)>>]
          /\ Goto(t, "walk")
          /\ UNCHANGED call
     ELSE /\ Goto(t, "idle")
          /\ call' = [call EXCEPT ![t] = NoCall]
          /\ UNCHANGED seen
  /\ UNCHANGED <<vars, mutex, poolCount>>

\* The next node of the one the walk stands on.  Where the walk stands on a
\* block that is no longer free the read is undefined; the walk ends there.
Walk(t) ==
  LET list == IF 0 \in DOMAIN pools THEN pools[0].free ELSE <<>>
      at   == {k \in DOMAIN list : seen[t] = <<list[k]>>}
      next == {k + 1 : k \in at} \cap DOMAIN list
  IN  /\ pc[t] = "walk"
      /\ IF next # {}
         THEN \E k \in next : /\ seen' = [seen EXCEPT ![t] = <<list[k]>>]
                              /\ UNCHANGED <<pc, call>>
         ELSE /\ seen' = [seen EXCEPT ![t] = <<>>]
              /\ Goto(t, "idle")
              /\ call' = [call EXCEPT ![t] = NoCall]
      /\ UNCHANGED <<vars, mutex, poolCount>>

-----------------------------------------------------------------------------
Inside(t) ==
  \/ InitPools(t) \/ SetPoolCount(t) \/ InitThrows(t)
  \/ ReadFreeList(t) \/ TakeBlock(t) \/ GiveBlock(t)
  \/ Work(t) \/ Unlock(t)

Step(t) ==
  \/ CallAllocate(t) \/ CallDeallocate(t) \/ CallRelease(t)
  \/ Lock(t) \/ Inside(t)
  \/ CallCachedBlocks(t) \/ StartWalk(t) \/ Walk(t)

SyncNext == SyncConstruct \/ SyncDestroy \/ \E t \in Threads : Step(t)

\* A thread that has the mutex goes on running; a thread that waits for it
\* is not promised to get it, only that someone does.
Fairness ==
  /\ \A t \in Threads : WF_allVars(Inside(t))
  /\ WF_allVars(\E t \in Threads : Lock(t))

SyncSpec == SyncInit /\ [][SyncNext]_allVars /\ Fairness

-----------------------------------------------------------------------------
(* Properties *)

\* Seen from its callers, the synchronized resource is a pool resource: each
\* call takes effect at once, although threads interleave inside.
ImplementsPoolResource == Spec

\* While some thread waits, some thread gets in.
SomeoneEnters == (\E t \in Threads : pc[t] = "lock") ~> (\E t \in Threads : pc[t] = "inside")

=============================================================================
