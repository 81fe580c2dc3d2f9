------------------------- MODULE GlobalResource_proofs -------------------------
(***************************************************************************)
(* Proof that the locked set_default_resource and get_default_resource are *)
(* an atomic exchange and an atomic load, for any number of threads and    *)
(* resources.  The one restriction is NoEarlySet: a call of                *)
(* set_default_resource by static code of another file is undone when the  *)
(* dynamic initialization of default_memory_resource runs.                 *)
(***************************************************************************)
EXTENDS GlobalResource, TLAPS

NoEarlySet == "set" \notin EarlyCalls

-----------------------------------------------------------------------------
(* The inductive invariant *)

Labels == {"idle", "acquire", "spin", "read", "write", "unlock"}

TypeOK ==
  /\ initialized \in BOOLEAN
  /\ pointer \in Resources \cup {Null}
  /\ lock \in {0, 1}
  /\ pc \in [Threads -> Labels]
  /\ request \in [Threads -> Requests]
  /\ local \in [Threads -> Resources \cup {Null}]

Holds(t) == pc[t] \in {"read", "write", "unlock"}

\* Who is past ACQUIRE_LOCK has the word set, and is alone.
MutualExclusion ==
  /\ \A t \in Threads : Holds(t) => lock = 1
  /\ \A t, u \in Threads : Holds(t) /\ Holds(u) => t = u

\* A thread has a request from its call to its return.
RequestsMatch == \A t \in Threads : request[t].op = "none" <=> pc[t] = "idle"

\* The value read is still the default when set_default_resource overwrites
\* it, and is never null.
LocalIsDefault ==
  \A t \in Threads :
    /\ pc[t] = "write" => request[t].op = "set" /\ local[t] = OrNewDelete(pointer)
    /\ pc[t] = "unlock" => local[t] # Null

\* Until static initialization nothing has been written over the null pointer.
NullUntilInitialized ==
  ~initialized => pointer = Null /\ \A t \in Threads : request[t].op # "set"

IInv == /\ TypeOK /\ MutualExclusion /\ RequestsMatch
        /\ LocalIsDefault /\ NullUntilInitialized

-----------------------------------------------------------------------------
\* A null pointer stands for a resource, a resource for itself.
LEMMA OrNewDeleteType ==
  ASSUME NEW p \in Resources \cup {Null}
  PROVE  OrNewDelete(p) \in Resources /\ OrNewDelete(p) # Null
  BY GlobalAssumption DEF OrNewDelete

LEMMA InitIInv == Init => IInv
  <1> SUFFICES ASSUME Init PROVE IInv
    OBVIOUS
  <1>1. TypeOK
    BY DEF Init, TypeOK, Labels, Requests
  <1>2. MutualExclusion
    BY DEF Init, MutualExclusion, Holds
  <1>3. \A t \in Threads : pc[t] = "idle" /\ request[t].op = "none"
    BY DEF Init, NoRequest
  <1>4. RequestsMatch /\ LocalIsDefault /\ NullUntilInitialized
    BY <1>3 DEF Init, RequestsMatch, LocalIsDefault, NullUntilInitialized
  <1> QED BY <1>1, <1>2, <1>4 DEF IInv

\* Every step, one by one.
LEMMA NextIInv ==
  ASSUME NoEarlySet
  PROVE  IInv /\ [Next]_vars => IInv'
  <1> SUFFICES ASSUME IInv, [Next]_vars PROVE IInv'
    OBVIOUS
  <1> USE DEF IInv
  <1>1. CASE StaticInit
    BY <1>1, GlobalAssumption
    DEF StaticInit, TypeOK, MutualExclusion, RequestsMatch, LocalIsDefault,
        NullUntilInitialized, Holds
  <1>2. ASSUME NEW t \in Threads, Call(t) PROVE IInv'
    <2>1. PICK q \in Requests \ {NoRequest} :
            /\ initialized \/ q.op \in EarlyCalls
            /\ request' = [request EXCEPT ![t] = q]
      BY <1>2 DEF Call
    <2>2. q.op \in {"get", "set"} /\ (~initialized => q.op = "get")
      BY <2>1, GlobalAssumption DEF Requests, NoRequest, NoEarlySet
    <2>3. TypeOK'
      BY <1>2, <2>1 DEF Call, TypeOK, Labels
    <2>4. MutualExclusion'
      BY <1>2 DEF Call, MutualExclusion, Holds, TypeOK
    <2>5. RequestsMatch' /\ LocalIsDefault' /\ NullUntilInitialized'
      BY <1>2, <2>1, <2>2 DEF Call, RequestsMatch, LocalIsDefault, NullUntilInitialized, TypeOK
    <2> QED BY <2>3, <2>4, <2>5
  <1>3. ASSUME NEW t \in Threads, CasLock(t) PROVE IInv'
    <2>1. TypeOK'
      BY <1>3 DEF CasLock, TypeOK, Labels
    <2>2. MutualExclusion'
      BY <1>3 DEF CasLock, MutualExclusion, Holds, TypeOK
    <2>3. RequestsMatch' /\ LocalIsDefault' /\ NullUntilInitialized'
      BY <1>3 DEF CasLock, RequestsMatch, LocalIsDefault, NullUntilInitialized, TypeOK
    <2> QED BY <2>1, <2>2, <2>3
  <1>4. ASSUME NEW t \in Threads, Spin(t) PROVE IInv'
    BY <1>4
    DEF Spin, TypeOK, Labels, MutualExclusion, Holds, RequestsMatch, LocalIsDefault,
        NullUntilInitialized
  <1>5. ASSUME NEW t \in Threads, Read(t) PROVE IInv'
    <2>1. OrNewDelete(pointer) \in Resources /\ OrNewDelete(pointer) # Null
      BY OrNewDeleteType DEF TypeOK
    <2>2. TypeOK'
      BY <1>5, <2>1 DEF Read, TypeOK, Labels
    <2>3. MutualExclusion'
      BY <1>5 DEF Read, MutualExclusion, Holds, TypeOK
    <2>4. RequestsMatch' /\ NullUntilInitialized'
      BY <1>5 DEF Read, RequestsMatch, NullUntilInitialized, TypeOK
    <2>5. LocalIsDefault'
      BY <1>5, <2>1 DEF Read, LocalIsDefault, MutualExclusion, Holds, TypeOK, OrNewDelete
    <2> QED BY <2>2, <2>3, <2>4, <2>5
  <1>6. ASSUME NEW t \in Threads, Write(t) PROVE IInv'
    <2>1. request[t].op = "set" /\ request[t].r \in Resources \cup {Null}
      BY <1>6 DEF Write, LocalIsDefault, TypeOK, Requests, NoRequest
    <2>2. pointer' \in Resources
      BY <1>6, <2>1, OrNewDeleteType DEF Write
    <2>3. TypeOK'
      BY <1>6, <2>2 DEF Write, TypeOK, Labels
    <2>4. MutualExclusion'
      BY <1>6 DEF Write, MutualExclusion, Holds, TypeOK
    <2>5. RequestsMatch' /\ NullUntilInitialized'
      BY <1>6, <2>1 DEF Write, RequestsMatch, NullUntilInitialized, TypeOK
    <2>6. LocalIsDefault'
      <3>1. local[t] # Null
        BY <1>6, OrNewDeleteType DEF Write, LocalIsDefault, TypeOK
      <3> QED BY <1>6, <3>1 DEF Write, LocalIsDefault, MutualExclusion, Holds, TypeOK
    <2> QED BY <2>3, <2>4, <2>5, <2>6
  <1>7. ASSUME NEW t \in Threads, Unlock(t) PROVE IInv'
    <2>1. TypeOK'
      BY <1>7 DEF Unlock, TypeOK, Labels, Requests
    <2>2. MutualExclusion'
      BY <1>7 DEF Unlock, MutualExclusion, Holds, TypeOK
    <2>3. RequestsMatch' /\ LocalIsDefault' /\ NullUntilInitialized'
      BY <1>7 DEF Unlock, RequestsMatch, LocalIsDefault, NullUntilInitialized, TypeOK, NoRequest
    <2> QED BY <2>1, <2>2, <2>3
  <1>8. CASE UNCHANGED vars
    BY <1>8
    DEF vars, TypeOK, MutualExclusion, Holds, RequestsMatch, LocalIsDefault, NullUntilInitialized
  <1> QED BY <1>1, <1>2, <1>3, <1>4, <1>5, <1>6, <1>7, <1>8 DEF Next, Locked

\* The inductive invariant holds in every reachable state; with it, the
\* threads between ACQUIRE_LOCK and CLEAR_LOCK exclude each other.
THEOREM GlobalInvariant ==
  ASSUME NoEarlySet
  PROVE  Spec => []IInv
  <1>1. Init => IInv
    BY InitIInv
  <1>2. IInv /\ [Next]_vars => IInv'
    BY NextIInv
  <1> QED BY <1>1, <1>2, PTL DEF Spec

-----------------------------------------------------------------------------
(* The refinement *)

\* What DefaultResource sees of a step.
LEMMA StepRefines ==
  ASSUME IInv, IInv', [Next]_vars, NoEarlySet
  PROVE  [Abstract!Next]_(Abstract!vars)
  <1> DEFINE default == OrNewDelete(pointer)
             result == [t \in Threads |-> IF pc[t] = "unlock" THEN local[t] ELSE Null]
  <1> USE DEF IInv
  <1>1. CASE StaticInit
    BY <1>1 DEF StaticInit, NullUntilInitialized, OrNewDelete, Abstract!vars
  <1>2. ASSUME NEW t \in Threads, Call(t) PROVE Abstract!Call(t)
    <2>1. PICK q \in Requests \ {NoRequest} : request' = [request EXCEPT ![t] = q]
      BY <1>2 DEF Call
    <2>2. q \in Abstract!Requests /\ q.op # "none"
      BY <2>1 DEF Requests, NoRequest, Abstract!Requests
    <2>3. request[t].op = "none"
      BY <1>2 DEF Call, RequestsMatch
    <2>4. default' = default
      BY <1>2 DEF Call
    <2>5. result' = result
      BY <1>2 DEF Call, TypeOK
    <2> QED BY <2>1, <2>2, <2>3, <2>4, <2>5 DEF Abstract!Call
  <1>3. ASSUME NEW t \in Threads, CasLock(t) \/ Spin(t)
        PROVE  UNCHANGED Abstract!vars
    BY <1>3 DEF CasLock, Spin, TypeOK, Abstract!vars
  <1>4. ASSUME NEW t \in Threads, Read(t)
        PROVE  Abstract!Get(t) \/ UNCHANGED Abstract!vars
    <2>1. CASE request[t].op = "set"
      <3>1. result' = result
        BY <1>4, <2>1 DEF Read, TypeOK
      <3> QED BY <1>4, <3>1 DEF Read, Abstract!vars
    <2>2. CASE request[t].op # "set"
      <3>1. request[t].op = "get"
        BY <1>4, <2>2 DEF Read, RequestsMatch, TypeOK, Requests, NoRequest
      <3>2. result' = [result EXCEPT ![t] = default]
        BY <1>4, <2>2 DEF Read, TypeOK
      <3>3. result[t] = Null
        BY <1>4 DEF Read
      <3> QED BY <1>4, <3>1, <3>2, <3>3 DEF Read, Abstract!Get
    <2> QED BY <2>1, <2>2
  <1>5. ASSUME NEW t \in Threads, Write(t) PROVE Abstract!Set(t)
    <2>1. request[t].op = "set" /\ local[t] = default
      BY <1>5 DEF Write, LocalIsDefault
    <2>2. result' = [result EXCEPT ![t] = default]
      BY <1>5, <2>1 DEF Write, TypeOK
    <2>3. default' = Abstract!NonNull(request[t].r)
      <3>1. request[t].r \in Resources \cup {Null}
        BY <2>1 DEF TypeOK, Requests, NoRequest
      <3> QED BY <1>5, <3>1, GlobalAssumption DEF Write, OrNewDelete, Abstract!NonNull
    <2>4. result[t] = Null
      BY <1>5 DEF Write
    <2> QED BY <1>5, <2>1, <2>2, <2>3, <2>4 DEF Write, Abstract!Set
  <1>6. ASSUME NEW t \in Threads, Unlock(t) PROVE Abstract!Return(t)
    <2>1. result[t] # Null
      BY <1>6 DEF Unlock, LocalIsDefault
    <2>2. result' = [result EXCEPT ![t] = Null]
      BY <1>6 DEF Unlock, TypeOK
    <2> QED BY <1>6, <2>1, <2>2 DEF Unlock, NoRequest, Abstract!Return
  <1>7. CASE UNCHANGED vars
    BY <1>7 DEF vars, Abstract!vars
  <1> QED BY <1>1, <1>2, <1>3, <1>4, <1>5, <1>6, <1>7 DEF Next, Locked, Abstract!Next

\* set_default_resource is an atomic exchange of the default resource, and
\* get_default_resource an atomic load, whatever the threads do between.
THEOREM GlobalImplementsDefaultResource ==
  ASSUME NoEarlySet
  PROVE  Spec => ImplementsDefaultResource
  <1>1. Init => Abstract!Init
    BY DEF Init, Abstract!Init, OrNewDelete, NoRequest
  <1>2. IInv /\ IInv' /\ [Next]_vars => [Abstract!Next]_(Abstract!vars)
    BY StepRefines
  <1> QED BY <1>1, <1>2, GlobalInvariant, PTL
      DEF Spec, ImplementsDefaultResource, Abstract!Spec
=============================================================================
