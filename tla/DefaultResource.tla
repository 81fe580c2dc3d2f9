--------------------------- MODULE DefaultResource ---------------------------
(***************************************************************************)
(* The default memory resource pointer as its callers see it               *)
(* (src/include/boost/container/pmr/global_resource.hpp): one value that   *)
(* set_default_resource exchanges and get_default_resource reads, each at  *)
(* one moment between its call and its return.  It is also the code of     *)
(* builds with <atomic>: std::atomic::exchange and load.                   *)
(***************************************************************************)
CONSTANTS
  Threads,
  Resources,     \* the resources callers set
  NewDelete,     \* new_delete_resource()
  Null           \* the null pointer, and "no result yet"

VARIABLES
  default,       \* the value of the default memory resource pointer
  request,       \* the call each thread is in: "none", "get" or [set |-> r]
  result         \* what the call returns, once it has taken effect

vars == <<default, request, result>>

Requests == {[op |-> "none"], [op |-> "get"]} \cup [op : {"set"}, r : Resources \cup {Null}]

Init ==
  /\ default = NewDelete
  /\ request = [t \in Threads |-> [op |-> "none"]]
  /\ result = [t \in Threads |-> Null]

Call(t) ==
  /\ request[t].op = "none"
  /\ \E q \in Requests : q.op # "none" /\ request' = [request EXCEPT ![t] = q]
  /\ UNCHANGED <<default, result>>

\* r ? r : new_delete_resource()
NonNull(r) == IF r = Null THEN NewDelete ELSE r

\* default_memory_resource_instance().exchange(res)
Set(t) ==
  /\ request[t].op = "set" /\ result[t] = Null
  /\ default' = NonNull(request[t].r)
  /\ result' = [result EXCEPT ![t] = default]
  /\ UNCHANGED request

\* default_memory_resource_instance().load()
Get(t) ==
  /\ request[t].op = "get" /\ result[t] = Null
  /\ result' = [result EXCEPT ![t] = default]
  /\ UNCHANGED <<default, request>>

Return(t) ==
  /\ result[t] # Null
  /\ request' = [request EXCEPT ![t] = [op |-> "none"]]
  /\ result' = [result EXCEPT ![t] = Null]
  /\ UNCHANGED default

Next == \E t \in Threads : Call(t) \/ Set(t) \/ Get(t) \/ Return(t)

Spec == Init /\ [][Next]_vars
=============================================================================
