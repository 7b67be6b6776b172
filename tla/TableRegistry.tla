--------------------------- MODULE TableRegistry ---------------------------
(***************************************************************************)
(* What the table cache of protojsonx.go promises its callers, with no     *)
(* mutex, placeholder, ready channel or compile stack: every Go message    *)
(* type is compiled once, into a plan that depends on the type alone, and  *)
(* a goroutine that asks for a type is served that plan, never a part of   *)
(* one.  TableCache is shown to implement this module.                     *)
(***************************************************************************)
CONSTANTS
  Procs,   \* the goroutines that call Marshal and Unmarshal
  Types,   \* the Go struct types of the messages
  Plan     \* Plan[t]: the compiled form of type t, a record of the types of
           \* its nested message fields and whether protojson handles it

VARIABLES
  registry,  \* registry[t]: the status of type t and, once ready, its plan
  client     \* client[p]: what goroutine p asked for or is being served

vars == <<registry, client>>

NoPlan == [nested |-> <<>>, useProtojson |-> FALSE]
Absent == [status |-> "absent", plan |-> NoPlan]
Pending == [status |-> "pending", plan |-> NoPlan]
Ready(t) == [status |-> "ready", plan |-> Plan[t]]
Idle == [state |-> "idle"]

Init ==
  /\ registry = [t \in Types |-> Absent]
  /\ client = [p \in Procs |-> Idle]

\* Goroutine p asks for the table of type t, from the outside or, for a
\* message reached through reflection, while it is being served another one.
Ask(p, t) ==
  /\ client[p].state \in {"idle", "served"}
  /\ client' = [client EXCEPT ![p] = [state |-> "asked", type |-> t]]
  /\ UNCHANGED registry

Register(t) ==
  /\ registry[t] = Absent
  /\ registry' = [registry EXCEPT ![t] = Pending]
  /\ UNCHANGED client

Publish(t) ==
  /\ registry[t] = Pending
  /\ registry' = [registry EXCEPT ![t] = Ready(t)]
  /\ UNCHANGED client

\* Goroutine p gets the finished plan of the type it asked for.
Answer(p) ==
  /\ client[p].state = "asked"
  /\ registry[client[p].type] = Ready(client[p].type)
  /\ client' = [client EXCEPT ![p].state = "served"]
  /\ UNCHANGED registry

\* Goroutine p follows a nested field of the plan it is served, to a plan that
\* is either finished or one it has to wait for.
Follow(p) ==
  /\ client[p].state = "served"
  /\ ~ Plan[client[p].type].useProtojson
  /\ \E i \in DOMAIN Plan[client[p].type].nested :
       LET u == Plan[client[p].type].nested[i] IN
         \/ /\ registry[u] = Ready(u)
            /\ client' = [client EXCEPT ![p] = [state |-> "served", type |-> u]]
         \/ client' = [client EXCEPT ![p] = [state |-> "asked", type |-> u]]
  /\ UNCHANGED registry

Leave(p) ==
  /\ client[p].state = "served"
  /\ client' = [client EXCEPT ![p] = Idle]
  /\ UNCHANGED registry

Next ==
  \/ \E t \in Types : Register(t) \/ Publish(t)
  \/ \E p \in Procs : Answer(p) \/ Follow(p) \/ Leave(p)
  \/ \E p \in Procs, t \in Types : Ask(p, t)

\* A type that is being compiled is published, and a goroutine whose type is
\* ready is served.
Fairness ==
  /\ \A t \in Types : WF_vars(Publish(t))
  /\ \A p \in Procs : WF_vars(Answer(p))

Safety == Init /\ [][Next]_vars
Spec == Safety /\ Fairness
=============================================================================
