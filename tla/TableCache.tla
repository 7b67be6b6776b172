----------------------------- MODULE TableCache -----------------------------
(***************************************************************************)
(* The compiled-table cache of protojsonx.go: getTable, compileTable,      *)
(* compileTableForType, wait and readyNow, run by several goroutines, and  *)
(* the walk over nested tables that marshal.go and unmarshal.go make with  *)
(* the table they are given.                                               *)
(*                                                                         *)
(* A table is a heap object named by its index in `tables`; `cache` maps a *)
(* Go type to the table stored for it.  A goroutine that stores a new      *)
(* table is the one that compiles it: it pushes a frame on its stack and   *)
(* visits the nested message fields in descriptor order, which may store   *)
(* and compile further tables.  Publication is split at the points another *)
(* goroutine can observe: fields, flags, done.Store, close(ready).         *)
(*                                                                         *)
(* The error slot of a table is left out: compileTable has no error of its *)
(* own, it only hands on the err of a nested table, so err is always nil.  *)
(*                                                                         *)
(* A definition marked "slip" is not the code: it is the definition after  *)
(* it with a plausible mistake, kept to show that a property notices.      *)
(***************************************************************************)
EXTENDS Naturals, Sequences

CONSTANTS
  Procs,     \* goroutines
  Types,     \* Go struct types, the keys of tableCache
  Descs,     \* message descriptors
  GoType,    \* GoType[d]: the Go struct type of a message with descriptor d
  Nested,    \* Nested[d]: the descriptors of the message fields that
             \* compileTable descends into, up to the first unsupported field
  Fallback,  \* the descriptors compileTable gives up on (useProtojson)
  MaxDepth,  \* bound on the nested messages a call walks through
  None       \* no descriptor, no goroutine

ASSUME ConstantsAssumption ==
  /\ GoType \in [Descs -> Types]
  /\ Nested \in [Descs -> Seq(Descs)]
  /\ Fallback \subseteq Descs
  /\ MaxDepth \in Nat
  /\ None \notin Descs \cup Procs

VARIABLES
  cache,   \* tableCache: the table stored for a Go type, 0 for none
  tables,  \* the MessageTable objects in order of allocation
  mutex,   \* the goroutine in a publishing section of cacheMutex, or None
  pc,      \* control point of a goroutine
  msg,     \* descriptor of the message a goroutine works on
  held,    \* the local variable `table` (or inst.msgTable) of a goroutine
  frames,  \* the nested compileTable calls of a goroutine
  depth    \* nested messages a goroutine may still walk into

vars == <<cache, tables, mutex, pc, msg, held, frames, depth>>
local == <<msg, depth>>

Field == [table : Nat, fd : Descs, needsWait : BOOLEAN]
Table == [type : Types, desc : Descs \cup {None}, fields : Seq(Field),
          useProtojson : BOOLEAN, done : BOOLEAN, closed : BOOLEAN]
Frame == [table : Nat, desc : Descs, fields : Seq(Field)]
Label == {"idle", "lookup", "insert", "compile", "ready", "flags",
          "storeDone", "close", "wait", "use"}

Placeholder(t) == [type |-> t, desc |-> None, fields |-> <<>>,
                   useProtojson |-> FALSE, done |-> FALSE, closed |-> FALSE]

Top(p) == frames[p][Len(frames[p])]
Pop(s) == [i \in 1 .. Len(s) - 1 |-> s[i]]

\* The descriptor of the next message field the running compileTable visits.
NextNested(p) == Nested[Top(p).desc][Len(Top(p).fields) + 1]
Visited(p) == Len(Top(p).fields) = Len(Nested[Top(p).desc])

\* readyNow and the return condition of wait.  Both load done and then look at
\* the channel; done is stored first, so the pair reads as one instant.
ReadyNow(t) == tables[t].done \/ tables[t].closed

Goto(p, label) == pc' = [pc EXCEPT ![p] = label]
Hold(p, t) == held' = [held EXCEPT ![p] = t]

Init ==
  /\ cache = [t \in Types |-> 0]
  /\ tables = <<>>
  /\ mutex = None
  /\ pc = [p \in Procs |-> "idle"]
  /\ msg = [p \in Procs |-> None]
  /\ held = [p \in Procs |-> 0]
  /\ frames = [p \in Procs |-> <<>>]
  /\ depth = [p \in Procs |-> 0]
-----------------------------------------------------------------------------
(* getTable *)

\* Marshal or Unmarshal is called with a message of descriptor d.
Call(p, d) ==
  /\ pc[p] = "idle"
  /\ msg' = [msg EXCEPT ![p] = d]
  /\ depth' = [depth EXCEPT ![p] = MaxDepth]
  /\ Goto(p, "lookup")
  /\ UNCHANGED <<cache, tables, mutex, held, frames>>

\* The lookup under RLock.  A section that only reads or writes the map is one
\* step: nothing it does can be seen before the lock is released.
LookupHit(p) ==
  /\ pc[p] = "lookup"
  /\ mutex = None
  /\ cache[GoType[msg[p]]] # 0
  /\ Hold(p, cache[GoType[msg[p]]])
  /\ Goto(p, "wait")
  /\ UNCHANGED <<cache, tables, mutex, frames, local>>

LookupMiss(p) ==
  /\ pc[p] = "lookup"
  /\ mutex = None
  /\ cache[GoType[msg[p]]] = 0
  /\ Goto(p, "insert")
  /\ UNCHANGED <<cache, tables, mutex, held, frames, local>>

RecheckHitUnwaited(p) == \* slip: the second look returns a table it found at once
  /\ pc[p] = "insert"
  /\ mutex = None
  /\ cache[GoType[msg[p]]] # 0
  /\ Hold(p, cache[GoType[msg[p]]])
  /\ Goto(p, "use")
  /\ UNCHANGED <<cache, tables, mutex, frames, local>>

\* The second look, under Lock.
RecheckHit(p) ==
  /\ pc[p] = "insert"
  /\ mutex = None
  /\ cache[GoType[msg[p]]] # 0
  /\ Hold(p, cache[GoType[msg[p]]])
  /\ Goto(p, "wait")
  /\ UNCHANGED <<cache, tables, mutex, frames, local>>

StoreUnallocated(p, d) == \* slip: the map entry is set before there is a table
  /\ UNCHANGED tables
  /\ cache' = [cache EXCEPT ![GoType[d]] = Len(tables) + 1]
  /\ frames' = [frames EXCEPT ![p] =
       Append(@, [table |-> Len(tables) + 1, desc |-> d, fields |-> <<>>])]
  /\ Goto(p, "compile")

\* Store a placeholder for the type of descriptor d and start compiling it.
StorePlaceholder(p, d) ==
  /\ tables' = Append(tables, Placeholder(GoType[d]))
  /\ cache' = [cache EXCEPT ![GoType[d]] = Len(tables) + 1]
  /\ frames' = [frames EXCEPT ![p] =
       Append(@, [table |-> Len(tables) + 1, desc |-> d, fields |-> <<>>])]
  /\ Goto(p, "compile")

InsertUnchecked(p) == \* slip: no second look under the write lock
  /\ pc[p] = "insert"
  /\ mutex = None
  /\ StorePlaceholder(p, msg[p])
  /\ UNCHANGED <<mutex, held, local>>

Insert(p) ==
  /\ pc[p] = "insert"
  /\ mutex = None
  /\ cache[GoType[msg[p]]] = 0
  /\ StorePlaceholder(p, msg[p])
  /\ UNCHANGED <<mutex, held, local>>
-----------------------------------------------------------------------------
(* compileTable and compileTableForType *)

\* compileTableForType finds a table, finished or not, for a nested type.
NestedHit(p) ==
  /\ pc[p] = "compile"
  /\ ~ Visited(p)
  /\ mutex = None
  /\ cache[GoType[NextNested(p)]] # 0
  /\ Hold(p, cache[GoType[NextNested(p)]])
  /\ Goto(p, "ready")
  /\ UNCHANGED <<cache, tables, mutex, frames, local>>

NestedRecompile(p) == \* slip: an unfinished table is taken for a missing one
  LET t == GoType[NextNested(p)] IN
  /\ pc[p] = "compile"
  /\ ~ Visited(p)
  /\ mutex = None
  /\ \/ cache[t] = 0 /\ StorePlaceholder(p, NextNested(p))
     \/ /\ cache[t] # 0 /\ ~ tables[cache[t]].done
        /\ frames' = [frames EXCEPT ![p] = Append(@,
             [table |-> cache[t], desc |-> NextNested(p), fields |-> <<>>])]
        /\ UNCHANGED <<cache, tables, pc>>
  /\ UNCHANGED <<mutex, held, local>>

\* compileTableForType stores a placeholder before it descends.
NestedInsert(p) ==
  /\ pc[p] = "compile"
  /\ ~ Visited(p)
  /\ mutex = None
  /\ cache[GoType[NextNested(p)]] = 0
  /\ StorePlaceholder(p, NextNested(p))
  /\ UNCHANGED <<mutex, held, local>>

RecordFieldUnwaited(p) == \* slip: the field never asks for a wait
  /\ pc[p] = "ready"
  /\ frames' = [frames EXCEPT ![p][Len(frames[p])].fields =
       Append(@, [table |-> held[p], fd |-> NextNested(p), needsWait |-> FALSE])]
  /\ Goto(p, "compile")
  /\ UNCHANGED <<cache, tables, mutex, held, local>>

RecordFieldBlocking(p) == \* slip: compileTable waits for the nested table
  /\ pc[p] = "ready"
  /\ ReadyNow(held[p])
  /\ frames' = [frames EXCEPT ![p][Len(frames[p])].fields =
       Append(@, [table |-> held[p], fd |-> NextNested(p), needsWait |-> FALSE])]
  /\ Goto(p, "compile")
  /\ UNCHANGED <<cache, tables, mutex, held, local>>

\* Back in compileTable, outside the lock: msgNeedsWait is what readyNow says
\* at this instant.
RecordField(p) ==
  /\ pc[p] = "ready"
  /\ frames' = [frames EXCEPT ![p][Len(frames[p])].fields =
       Append(@, [table |-> held[p], fd |-> NextNested(p),
                  needsWait |-> ~ ReadyNow(held[p])])]
  /\ Goto(p, "compile")
  /\ UNCHANGED <<cache, tables, mutex, held, local>>

CopyFieldsAfterDone(p) == \* slip: done is stored before the copy is complete
  /\ pc[p] = "compile"
  /\ Visited(p)
  /\ mutex = None
  /\ mutex' = p
  /\ tables' = [tables EXCEPT ![Top(p).table].fields = Top(p).fields,
                              ![Top(p).table].done = TRUE]
  /\ Goto(p, "flags")
  /\ UNCHANGED <<cache, held, frames, local>>

\* The running compileTable has returned: take the lock and copy its result
\* into the placeholder, first the fields ...
CopyFields(p) ==
  /\ pc[p] = "compile"
  /\ Visited(p)
  /\ mutex = None
  /\ mutex' = p
  /\ tables' = [tables EXCEPT ![Top(p).table].fields = Top(p).fields]
  /\ Goto(p, "flags")
  /\ UNCHANGED <<cache, held, frames, local>>

CopyFlagsWithoutFallback(p) == \* slip: useProtojson is not copied
  /\ pc[p] = "flags"
  /\ tables' = [tables EXCEPT ![Top(p).table].desc = Top(p).desc]
  /\ Goto(p, "storeDone")
  /\ UNCHANGED <<cache, mutex, held, frames, local>>

\* ... then useProtojson, fullName and the rest ...
CopyFlags(p) ==
  /\ pc[p] = "flags"
  /\ tables' = [tables EXCEPT
       ![Top(p).table].desc = Top(p).desc,
       ![Top(p).table].useProtojson = (Top(p).desc \in Fallback)]
  /\ Goto(p, "storeDone")
  /\ UNCHANGED <<cache, mutex, held, frames, local>>

\* ... then done.Store(true) ...
StoreDone(p) ==
  /\ pc[p] = "storeDone"
  /\ tables' = [tables EXCEPT ![Top(p).table].done = TRUE]
  /\ Goto(p, "close")
  /\ UNCHANGED <<cache, mutex, held, frames, local>>

\* ... and last close(ready) and the unlock.  A root compile hands the table to
\* the caller, a nested one to the compileTable that asked for it.
CloseReady(p) ==
  /\ pc[p] = "close"
  /\ tables' = [tables EXCEPT ![Top(p).table].closed = TRUE]
  /\ mutex' = None
  /\ Hold(p, Top(p).table)
  /\ frames' = [frames EXCEPT ![p] = Pop(@)]
  /\ Goto(p, IF Len(frames[p]) = 1 THEN "use" ELSE "ready")
  /\ UNCHANGED <<cache, local>>
-----------------------------------------------------------------------------
(* The callers: wait for the table, then walk it. *)

AwaitReady(p) ==
  /\ pc[p] = "wait"
  /\ ReadyNow(held[p])
  /\ Goto(p, "use")
  /\ UNCHANGED <<cache, tables, mutex, held, frames, local>>

DescendUnwaited(p, i) == \* slip: msgNeedsWait is not looked at
  /\ pc[p] = "use"
  /\ depth[p] > 0
  /\ ~ tables[held[p]].useProtojson
  /\ i \in DOMAIN tables[held[p]].fields
  /\ Hold(p, tables[held[p]].fields[i].table)
  /\ msg' = [msg EXCEPT ![p] = tables[held[p]].fields[i].fd]
  /\ Goto(p, "use")
  /\ depth' = [depth EXCEPT ![p] = @ - 1]
  /\ UNCHANGED <<cache, tables, mutex, frames>>

\* A nested message under field i: its table is waited for only when the field
\* says so.
Descend(p, i) ==
  /\ pc[p] = "use"
  /\ depth[p] > 0
  /\ ~ tables[held[p]].useProtojson
  /\ i \in DOMAIN tables[held[p]].fields
  /\ LET field == tables[held[p]].fields[i] IN
       /\ Hold(p, field.table)
       /\ msg' = [msg EXCEPT ![p] = field.fd]
       /\ Goto(p, IF field.needsWait THEN "wait" ELSE "use")
  /\ depth' = [depth EXCEPT ![p] = @ - 1]
  /\ UNCHANGED <<cache, tables, mutex, frames>>

\* A message reached through reflection (a oneof member, a map value, an
\* extension, an Any payload) goes through getTable again.
Reenter(p, d) ==
  /\ pc[p] = "use"
  /\ depth[p] > 0
  /\ ~ tables[held[p]].useProtojson
  /\ msg' = [msg EXCEPT ![p] = d]
  /\ depth' = [depth EXCEPT ![p] = @ - 1]
  /\ Goto(p, "lookup")
  /\ UNCHANGED <<cache, tables, mutex, held, frames>>

Return(p) ==
  /\ pc[p] = "use"
  /\ Goto(p, "idle")
  /\ msg' = [msg EXCEPT ![p] = None]
  /\ depth' = [depth EXCEPT ![p] = 0]
  /\ Hold(p, 0)
  /\ UNCHANGED <<cache, tables, mutex, frames>>
-----------------------------------------------------------------------------
Walk(p) ==
  \/ \E i \in DOMAIN tables[held[p]].fields : Descend(p, i)
  \/ \E d \in Descs : Reenter(p, d)
  \/ Return(p)

Step(p) ==
  \/ LookupHit(p) \/ LookupMiss(p) \/ RecheckHit(p) \/ Insert(p)
  \/ NestedHit(p) \/ NestedInsert(p) \/ RecordField(p)
  \/ CopyFields(p) \/ CopyFlags(p) \/ StoreDone(p) \/ CloseReady(p)
  \/ AwaitReady(p)
  \/ pc[p] = "use" /\ Walk(p)

Next == \E p \in Procs : Step(p) \/ \E d \in Descs : Call(p, d)

\* The Go scheduler runs every goroutine that can run.  Weak fairness is enough
\* for the lock too: it is taken at most once per type for a publication.
Fairness == \A p \in Procs : WF_vars(Step(p))

Spec == Init /\ [][Next]_vars /\ Fairness
-----------------------------------------------------------------------------
(* Properties *)

TypeOK ==
  /\ cache \in [Types -> 0 .. Len(tables)]
  /\ tables \in Seq(Table)
  /\ mutex \in Procs \cup {None}
  /\ pc \in [Procs -> Label]
  /\ msg \in [Procs -> Descs \cup {None}]
  /\ held \in [Procs -> 0 .. Len(tables)]
  /\ frames \in [Procs -> Seq(Frame)]
  /\ depth \in [Procs -> 0 .. MaxDepth]

\* No two tables are ever made for one Go type, whatever goroutines ask for it
\* at once and however its message graph reaches it: the second look under the
\* write lock (protojsonx.go:199) and the placeholder stored before descending
\* (protojsonx.go:594) hold together.
OneTablePerType ==
  \A i, j \in DOMAIN tables : tables[i].type = tables[j].type => i = j

\* A table is filled by one compile call at a time, an open placeholder has
\* such a call (nobody can wait for a table that was abandoned), and a closed
\* table has none left: close(ready) cannot run twice (protojsonx.go:227, 621).
SoleCompiler ==
  /\ \A p, q \in Procs : \A k \in DOMAIN frames[p], l \in DOMAIN frames[q] :
       frames[p][k].table = frames[q][l].table => p = q /\ k = l
  /\ \A i \in DOMAIN tables : tables[i].closed <=>
       \A p \in Procs : \A k \in DOMAIN frames[p] : frames[p][k].table # i

\* A goroutine that walks a table walks a published one, also when it got there
\* through a nested field whose wait was skipped (marshal.go:741, 
\* unmarshal.go:1561): done is stored after everything it announces.
UseOnlyPublished ==
  \A p \in Procs : pc[p] = "use" =>
    /\ tables[held[p]].done
    /\ tables[held[p]].desc # None

\* The wait is skipped (msgNeedsWait false, protojsonx.go:349 and 556) only for
\* a nested table that is finished, in a table under construction as in one
\* other goroutines already use.
SkipWaitSound ==
  LET Sound(fs) == \A i \in DOMAIN fs :
                     ~ fs[i].needsWait => tables[fs[i].table].done
  IN  /\ \A i \in DOMAIN tables : Sound(tables[i].fields)
      /\ \A p \in Procs : \A k \in DOMAIN frames[p] : Sound(frames[p][k].fields)

\* A message of an unsupported shape is handed to protojson by whoever gets its
\* table ("Shapes not covered by the optimized table compiler fall back to
\* standard protojson for full compatibility", protojsonx.go:233).
FallbackHonoured ==
  \A p \in Procs : pc[p] = "use" /\ msg[p] \in Fallback =>
    tables[held[p]].useProtojson

\* Marshal and Unmarshal read a table without a lock, so nothing of it but the
\* ready channel may change once done is stored (protojsonx.go:216-228).
PublishedIsFinal ==
  [][\A i \in DOMAIN tables : tables[i].done =>
       tables'[i] = [tables[i] EXCEPT !.closed = tables'[i].closed]]_vars

\* Every call gets its table and ends: compileTable never waits for a table, so
\* recursive and mutually recursive types cannot make goroutines wait for each
\* other, and every table a call does wait for is published.
EveryCallReturns == \A p \in Procs : pc[p] # "idle" ~> pc[p] = "idle"

\* The cache implements the registry of compiled types.
DescOf(t) == CHOOSE d \in Descs : GoType[d] = t
Plan == [t \in Types |->
  [nested |-> [i \in DOMAIN Nested[DescOf(t)] |-> GoType[Nested[DescOf(t)][i]]],
   useProtojson |-> DescOf(t) \in Fallback]]
PlanOf(i) ==
  [nested |-> [k \in DOMAIN tables[i].fields |->
                 tables[tables[i].fields[k].table].type],
   useProtojson |-> tables[i].useProtojson]

Unplanned(status) ==
  [status |-> status, plan |-> [nested |-> <<>>, useProtojson |-> FALSE]]
StatusOf(t) ==
  IF cache[t] = 0 THEN Unplanned("absent")
  ELSE IF ~ tables[cache[t]].done THEN Unplanned("pending")
  ELSE [status |-> "ready", plan |-> PlanOf(cache[t])]
ClientOf(p) ==
  IF pc[p] = "idle" THEN [state |-> "idle"]
  ELSE [state |-> IF pc[p] = "use" THEN "served" ELSE "asked",
        type  |-> GoType[msg[p]]]

Registry == INSTANCE TableRegistry WITH
  Plan <- Plan,
  registry <- [t \in Types |-> StatusOf(t)],
  client <- [p \in Procs |-> ClientOf(p)]

\* Each Go type is compiled once, into a plan that depends on the type alone,
\* and each call is served the whole plan of the type it asked for, whatever
\* order goroutines compile, wait and skip waits in.
ImplementsRegistry == Registry!Spec
=============================================================================
