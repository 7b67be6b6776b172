-------------------------- MODULE TableCacheProofs --------------------------
(***************************************************************************)
(* Proofs about TableCache, for any goroutines, types and message graphs;  *)
(* at the end, that a table belongs to the descriptor it is used for, and  *)
(* that the cache implements TableRegistry as far as safety goes.          *)
(***************************************************************************)
EXTENDS TableCache, SequenceTheorems, TLAPS

Publishing == {"flags", "storeDone", "close"}
Compiling == {"compile", "ready"} \cup Publishing

\* cache and tables name each other.
CacheInv ==
  /\ \A t \in Types : cache[t] # 0 => tables[cache[t]].type = t
  /\ \A i \in 1 .. Len(tables) : cache[tables[i].type] = i

\* What holds of the k-th frame of goroutine p.
FrameOK(p, k) ==
  /\ frames[p][k].table \in 1 .. Len(tables)
  /\ ~ tables[frames[p][k].table].closed
  /\ tables[frames[p][k].table].done => k = Len(frames[p]) /\ pc[p] = "close"
  /\ Len(frames[p][k].fields) <= Len(Nested[frames[p][k].desc])
  /\ k < Len(frames[p]) \/ pc[p] = "ready" =>
       Len(frames[p][k].fields) < Len(Nested[frames[p][k].desc])

StackInv ==
  \A p \in Procs :
    /\ pc[p] \in Compiling <=> Len(frames[p]) > 0
    /\ \A k \in 1 .. Len(frames[p]) : FrameOK(p, k)

DistinctInv ==
  \A p, q \in Procs : \A k \in 1 .. Len(frames[p]), l \in 1 .. Len(frames[q]) :
    frames[p][k].table = frames[q][l].table => p = q /\ k = l

OwnedInv ==
  \A i \in 1 .. Len(tables) : ~ tables[i].closed =>
    \E p \in Procs : \E k \in 1 .. Len(frames[p]) : frames[p][k].table = i

\* What a goroutine knows at its control point.
ControlOK(p) ==
  /\ mutex = p <=> pc[p] \in Publishing
  /\ pc[p] # "idle" => msg[p] \in Descs
  /\ pc[p] \in {"ready", "wait", "use"} => held[p] # 0
  /\ pc[p] = "use" => tables[held[p]].done
  /\ pc[p] \in {"storeDone", "close"} =>
       tables[frames[p][Len(frames[p])].table].desc # None
  /\ pc[p] = "close" => tables[frames[p][Len(frames[p])].table].done

ControlInv == \A p \in Procs : ControlOK(p)

DoneInv ==
  \A i \in 1 .. Len(tables) :
    /\ tables[i].closed => tables[i].done
    /\ tables[i].done => tables[i].desc # None

\* Fields whose wait is skipped name finished tables of the heap ts.
FieldsOK(ts, fs) ==
  \A k \in 1 .. Len(fs) :
    /\ fs[k].table \in 1 .. Len(ts)
    /\ ~ fs[k].needsWait => ts[fs[k].table].done

FieldsInv ==
  /\ \A i \in 1 .. Len(tables) : FieldsOK(tables, tables[i].fields)
  /\ \A p \in Procs : \A k \in 1 .. Len(frames[p]) :
       FieldsOK(tables, frames[p][k].fields)

IInv == TypeOK /\ CacheInv /\ StackInv /\ DistinctInv /\ OwnedInv
        /\ ControlInv /\ DoneInv /\ FieldsInv
-----------------------------------------------------------------------------
\* Fields stay sound in a heap that grows and unpublishes nothing.
LEMMA FieldsKept ==
  ASSUME NEW ts, NEW us, NEW fs, FieldsOK(ts, fs),
         \A i \in 1 .. Len(ts) : i \in 1 .. Len(us) /\ (ts[i].done => us[i].done)
  PROVE  FieldsOK(us, fs)
  BY DEF FieldsOK
-----------------------------------------------------------------------------
(* The frame of the running compileTable. *)

LEMMA TopFacts ==
  ASSUME IInv, NEW p \in Procs, Len(frames[p]) > 0
  PROVE  /\ Len(frames[p]) \in Nat \ {0}
         /\ Top(p) \in Frame
         /\ Top(p) = frames[p][Len(frames[p])]
         /\ FrameOK(p, Len(frames[p]))
         /\ Top(p).table \in 1 .. Len(tables)
         /\ tables[Top(p).table] \in Table
         /\ Len(Top(p).fields) \in 0 .. Len(Nested[Top(p).desc])
         /\ Nested[Top(p).desc] \in Seq(Descs)
  <1>1. frames[p] \in Seq(Frame) /\ tables \in Seq(Table)
    BY DEF IInv, TypeOK
  <1>2. Len(frames[p]) \in Nat \ {0} /\ Top(p) \in Frame
    BY <1>1 DEF Top
  <1>3. FrameOK(p, Len(frames[p]))
    BY <1>2 DEF IInv, StackInv
  <1>4. Top(p).table \in 1 .. Len(tables)
    BY <1>3 DEF FrameOK, Top
  <1>5. Nested[Top(p).desc] \in Seq(Descs) /\ Top(p).fields \in Seq(Field)
    BY <1>2, ConstantsAssumption DEF Frame
  <1>6. Len(Top(p).fields) \in 0 .. Len(Nested[Top(p).desc])
    BY <1>3, <1>5 DEF FrameOK, Top
  <1> QED BY <1>1, <1>2, <1>3, <1>4, <1>5, <1>6 DEF Top

\* The next nested field is in the descriptor as long as not all are visited.
LEMMA NextNestedType ==
  ASSUME IInv, NEW p \in Procs, Len(frames[p]) > 0, ~ Visited(p)
  PROVE  NextNested(p) \in Descs /\ GoType[NextNested(p)] \in Types
  <1>1. Len(Top(p).fields) + 1 \in 1 .. Len(Nested[Top(p).desc])
    BY TopFacts DEF Visited
  <1>2. NextNested(p) \in Descs
    BY <1>1, TopFacts DEF NextNested
  <1> QED BY <1>2, ConstantsAssumption
-----------------------------------------------------------------------------
(* Steps that touch neither the cache, a table nor a compile stack. *)

LEMMA QuietHeap ==
  ASSUME IInv, UNCHANGED <<cache, tables, frames>>
  PROVE  CacheInv' /\ DistinctInv' /\ OwnedInv' /\ DoneInv' /\ FieldsInv'
  <1> USE DEF IInv
  <1>1. CacheInv'     BY DEF CacheInv
  <1>2. DistinctInv'  BY DEF DistinctInv
  <1>3. OwnedInv'     BY DEF OwnedInv
  <1>4. DoneInv'      BY DEF DoneInv
  <1>5. FieldsInv'    BY DEF FieldsInv, FieldsOK
  <1> QED BY <1>1, <1>2, <1>3, <1>4, <1>5

\* Goroutine p moves to another control point; all else of other goroutines
\* stays as it is.
OnlyLocal(p) ==
  \A q \in Procs \ {p} : pc'[q] = pc[q] /\ msg'[q] = msg[q] /\ held'[q] = held[q]

\* A quiet step keeps the invariant when the control point it leads to goes
\* with the state of the goroutine.
LEMMA QuietStep ==
  ASSUME IInv, UNCHANGED <<cache, tables, frames, mutex>>, TypeOK',
         NEW p \in Procs, OnlyLocal(p),
         pc[p] \notin Publishing, pc'[p] \notin Publishing,
         pc[p] \in Compiling <=> pc'[p] \in Compiling,
         pc'[p] # "idle" => msg'[p] \in Descs,
         pc'[p] \in {"ready", "wait", "use"} => held'[p] # 0,
         pc'[p] = "use" => tables[held'[p]].done,
         pc'[p] = "ready" => ~ Visited(p)
  PROVE  IInv'
  <1>1. StackInv'
    <2> SUFFICES ASSUME NEW q \in Procs
                 PROVE  /\ pc'[q] \in Compiling <=> Len(frames[q]) > 0
                        /\ \A k \in 1 .. Len(frames[q]) : FrameOK(q, k)'
      BY DEF StackInv
    <2>1. pc'[q] \in Compiling <=> Len(frames[q]) > 0
      BY DEF IInv, StackInv, OnlyLocal
    <2>2. ASSUME NEW k \in 1 .. Len(frames[q])
          PROVE  FrameOK(q, k)'
      <3>1. FrameOK(q, k)
        BY DEF IInv, StackInv
      <3>2. CASE q = p
        BY <3>1, <3>2, TopFacts DEF IInv, FrameOK, Visited, Top, Publishing
      <3>3. CASE q # p
        BY <3>1, <3>3 DEF FrameOK, OnlyLocal
      <3> QED BY <3>2, <3>3
    <2> QED BY <2>1, <2>2
  <1>2. ControlInv'
    <2> SUFFICES ASSUME NEW q \in Procs PROVE ControlOK(q)'
      BY DEF ControlInv
    <2>1. ControlOK(q)
      BY DEF IInv, ControlInv
    <2>2. CASE q = p
      <3>1. /\ pc'[q] \notin Publishing /\ pc[q] \notin Publishing
            /\ pc'[q] # "storeDone" /\ pc'[q] # "close"
        BY <2>2 DEF Publishing
      <3> QED BY <2>1, <2>2, <3>1 DEF ControlOK
    <2>3. CASE q # p
      <3>1. pc'[q] = pc[q] /\ msg'[q] = msg[q] /\ held'[q] = held[q]
        BY <2>3 DEF OnlyLocal
      <3> QED BY <2>1, <3>1 DEF ControlOK
    <2> QED BY <2>2, <2>3
  <1> QED BY <1>1, <1>2, QuietHeap DEF IInv

\* getTable up to the insertion, the second look at a nested type, the wait and
\* the walk.
Quiet(p) ==
  \/ \E d \in Descs : Call(p, d) \/ Reenter(p, d)
  \/ LookupHit(p) \/ LookupMiss(p) \/ RecheckHit(p) \/ NestedHit(p)
  \/ AwaitReady(p) \/ Return(p)
  \/ \E i \in DOMAIN tables[held[p]].fields : pc[p] = "use" /\ Descend(p, i)

LEMMA QuietActions ==
  ASSUME IInv, NEW p \in Procs, Quiet(p)
  PROVE  IInv'
  <1> USE DEF Goto, Hold, local, OnlyLocal, Publishing, Compiling
  <1>1. /\ \A t \in Types : cache[t] \in 0 .. Len(tables)
        /\ pc[p] # "idle" => msg[p] \in Descs /\ GoType[msg[p]] \in Types
    BY ConstantsAssumption DEF IInv, TypeOK, ControlInv, ControlOK
  <1>2. ASSUME NEW d \in Descs, Call(p, d)
        PROVE  IInv'
    <2>1. TypeOK' BY <1>2, ConstantsAssumption DEF Call, IInv, TypeOK, Label
    <2> QED BY <1>2, <2>1, QuietStep DEF Call, IInv, TypeOK
  <1>3. ASSUME NEW d \in Descs, Reenter(p, d)
        PROVE  IInv'
    <2>1. TypeOK'
      <3>1. /\ pc' = [pc EXCEPT ![p] = "lookup"] /\ msg' = [msg EXCEPT ![p] = d]
            /\ UNCHANGED <<cache, tables, mutex, held, frames>>
            /\ depth' = [depth EXCEPT ![p] = @ - 1] /\ depth[p] > 0
        BY <1>3 DEF Reenter
      <3>2. depth[p] - 1 \in 0 .. MaxDepth
        BY <3>1, ConstantsAssumption DEF IInv, TypeOK
      <3> QED BY <3>1, <3>2 DEF IInv, TypeOK, Label
    <2> QED BY <1>3, <2>1, QuietStep DEF Reenter, IInv, TypeOK
  <1>4. CASE LookupHit(p) \/ RecheckHit(p)
    <2>1. TypeOK' BY <1>4, <1>1 DEF LookupHit, RecheckHit, IInv, TypeOK, Label
    <2>2. /\ pc[p] \in {"lookup", "insert"} /\ pc' = [pc EXCEPT ![p] = "wait"]
          /\ cache[GoType[msg[p]]] # 0
          /\ held' = [held EXCEPT ![p] = cache[GoType[msg[p]]]]
          /\ UNCHANGED <<cache, tables, mutex, frames, msg, depth>>
      BY <1>4 DEF LookupHit, RecheckHit
    <2>3. /\ pc \in [Procs -> Label] /\ held \in [Procs -> 0 .. Len(tables)]
      BY DEF IInv, TypeOK
    <2>4. /\ pc'[p] = "wait" /\ held'[p] # 0 /\ msg'[p] \in Descs /\ OnlyLocal(p)
          /\ pc[p] \notin Compiling /\ pc'[p] \notin Compiling
          /\ pc[p] \notin Publishing /\ pc'[p] \notin Publishing
      BY <2>2, <2>3, <1>1
    <2> QED BY <2>1, <2>2, <2>4, QuietStep
  <1>5. CASE LookupMiss(p)
    <2>1. TypeOK' BY <1>5 DEF LookupMiss, IInv, TypeOK, Label
    <2> QED BY <1>5, <1>1, <2>1, QuietStep DEF LookupMiss, IInv, TypeOK
  <1>6. CASE NestedHit(p)
    <2>1. GoType[NextNested(p)] \in Types
      BY <1>6, NextNestedType DEF NestedHit, IInv, StackInv
    <2>2. TypeOK' BY <1>6, <1>1, <2>1 DEF NestedHit, IInv, TypeOK, Label
    <2> QED BY <1>6, <1>1, <2>1, <2>2, QuietStep DEF NestedHit, IInv, TypeOK
  <1>7. CASE AwaitReady(p)
    <2>1. TypeOK' BY <1>7 DEF AwaitReady, IInv, TypeOK, Label
    <2>2. held[p] # 0 /\ tables[held[p]].done
      BY <1>7 DEF AwaitReady, ReadyNow, IInv, TypeOK, DoneInv, ControlInv, ControlOK
    <2> QED BY <1>7, <1>1, <2>1, <2>2, QuietStep DEF AwaitReady, IInv, TypeOK
  <1>8. CASE Return(p)
    <2>1. TypeOK' BY <1>8, ConstantsAssumption DEF Return, IInv, TypeOK, Label
    <2> QED BY <1>8, <2>1, QuietStep DEF Return, IInv, TypeOK
  <1>9. ASSUME NEW i \in DOMAIN tables[held[p]].fields, Descend(p, i)
        PROVE  IInv'
    <2>1. held[p] \in 1 .. Len(tables) /\ tables[held[p]] \in Table
      BY <1>9 DEF Descend, IInv, TypeOK, ControlInv, ControlOK
    <2> DEFINE f == tables[held[p]].fields[i]
    <2>2. /\ f \in Field
          /\ f.table \in 1 .. Len(tables)
          /\ ~ f.needsWait => tables[f.table].done
      BY <1>9, <2>1 DEF Table, IInv, FieldsInv, FieldsOK
    <2>3. /\ held' = [held EXCEPT ![p] = f.table]
          /\ pc' = [pc EXCEPT ![p] = IF f.needsWait THEN "wait" ELSE "use"]
          /\ msg' = [msg EXCEPT ![p] = f.fd]
          /\ depth' = [depth EXCEPT ![p] = @ - 1]
          /\ depth[p] > 0 /\ pc[p] = "use"
          /\ UNCHANGED <<cache, tables, mutex, frames>>
      BY <1>9 DEF Descend
    <2>4. f.fd \in Descs /\ f.needsWait \in BOOLEAN
      BY <2>2 DEF Field
    <2> HIDE DEF f
    <2>5. depth[p] - 1 \in 0 .. MaxDepth
      BY <2>3, ConstantsAssumption DEF IInv, TypeOK
    <2>6. TypeOK' BY <2>2, <2>3, <2>4, <2>5 DEF IInv, TypeOK, Label
    <2>7. /\ OnlyLocal(p)
          /\ held'[p] = f.table /\ f.table # 0
          /\ msg'[p] \in Descs
          /\ pc'[p] \in {"wait", "use"}
          /\ pc'[p] = "use" => ~ f.needsWait
      BY <2>2, <2>3, <2>4 DEF IInv, TypeOK
    <2> QED BY <2>2, <2>3, <2>6, <2>7, QuietStep
  <1> QED BY <1>2, <1>3, <1>4, <1>5, <1>6, <1>7, <1>8, <1>9 DEF Quiet
-----------------------------------------------------------------------------
(* Storing a placeholder. *)

LEMMA StoreStep ==
  ASSUME IInv, NEW p \in Procs, NEW d \in Descs,
         StorePlaceholder(p, d), UNCHANGED <<mutex, held, local>>,
         cache[GoType[d]] = 0,
         pc[p] \in {"insert", "compile"},
         pc[p] = "compile" => ~ Visited(p)
  PROVE  IInv'
  <1> DEFINE n == Len(tables) + 1
             frame == [table |-> n, desc |-> d, fields |-> <<>>]
  <1>1. /\ tables \in Seq(Table) /\ Len(tables) \in Nat
        /\ frames \in [Procs -> Seq(Frame)]
        /\ \A q \in Procs : frames[q] \in Seq(Frame) /\ Len(frames[q]) \in Nat
        /\ GoType[d] \in Types /\ Nested[d] \in Seq(Descs)
        /\ cache \in [Types -> 0 .. Len(tables)]
    BY ConstantsAssumption DEF IInv, TypeOK
  <1>2. /\ Placeholder(GoType[d]) \in Table
        /\ frame \in Frame
    BY <1>1 DEF Placeholder, Table, Frame
  <1>3. /\ tables' \in Seq(Table)
        /\ Len(tables') = n
        /\ \A i \in 1 .. Len(tables) : tables'[i] = tables[i]
        /\ tables'[n] = Placeholder(GoType[d])
    BY <1>1, <1>2 DEF StorePlaceholder
  <1>4. /\ frames' \in [Procs -> Seq(Frame)]
        /\ \A q \in Procs \ {p} : frames'[q] = frames[q]
        /\ Len(frames'[p]) = Len(frames[p]) + 1
        /\ \A k \in 1 .. Len(frames[p]) : frames'[p][k] = frames[p][k]
        /\ frames'[p][Len(frames[p]) + 1] = frame
    BY <1>1, <1>2 DEF StorePlaceholder
  <1>5. /\ cache' = [cache EXCEPT ![GoType[d]] = n]
        /\ pc' = [pc EXCEPT ![p] = "compile"]
        /\ UNCHANGED <<mutex, held, msg, depth>>
    BY DEF StorePlaceholder, Goto, local
  <1>6. /\ pc \in [Procs -> Label] /\ pc'[p] = "compile"
        /\ \A q \in Procs \ {p} : pc'[q] = pc[q]
    BY <1>5 DEF IInv, TypeOK
  <1>7. frame.table = n /\ frame.desc = d /\ frame.fields = <<>>
    OBVIOUS
  <1>8. /\ n \in Nat \ {0} /\ n \notin 1 .. Len(tables)
        /\ n \in 1 .. n /\ 0 .. Len(tables) \subseteq 0 .. n
        /\ 1 .. Len(tables) \subseteq 1 .. n
        /\ 1 .. n = 1 .. Len(tables) \cup {n}
        /\ 1 .. n \subseteq 0 .. n
    <2> HIDE <1>2, <1>3, <1>4, <1>5, <1>6, <1>7
    <2>1. Len(tables) \in Nat
      BY <1>1
    <2> QED BY <2>1
  <1>9. /\ tables'[n].type = GoType[d] /\ tables'[n].fields = <<>>
        /\ tables'[n].done = FALSE /\ tables'[n].closed = FALSE
    BY <1>3 DEF Placeholder
  <1> HIDE DEF frame, n
  <1>t. TypeOK'
    <2>1. cache' \in [Types -> 0 .. n]
      BY <1>1, <1>5, <1>8
    <2>2. held' \in [Procs -> 0 .. n]
      BY <1>5, <1>8 DEF IInv, TypeOK
    <2>3. pc' \in [Procs -> Label]
      BY <1>5, <1>6 DEF Label
    <2> QED BY <2>1, <2>2, <2>3, <1>3, <1>4, <1>5 DEF IInv, TypeOK
  <1>c. CacheInv'
    <2>1. \A t \in Types : cache'[t] # 0 => tables'[cache'[t]].type = t
      <3> SUFFICES ASSUME NEW t \in Types, cache'[t] # 0
                   PROVE  tables'[cache'[t]].type = t
        OBVIOUS
      <3>1. CASE t = GoType[d]
        BY <3>1, <1>1, <1>3, <1>5 DEF Placeholder
      <3>2. CASE t # GoType[d]
        <4>1. cache'[t] = cache[t] /\ cache[t] \in 1 .. Len(tables)
          BY <3>2, <1>1, <1>5
        <4> QED BY <4>1, <1>3 DEF IInv, CacheInv
      <3> QED BY <3>1, <3>2
    <2>2. \A i \in 1 .. n : cache'[tables'[i].type] = i
      <3> SUFFICES ASSUME NEW i \in 1 .. n
                   PROVE  cache'[tables'[i].type] = i
        OBVIOUS
      <3>1. CASE i = n
        BY <3>1, <1>1, <1>3, <1>5 DEF Placeholder
      <3>2. CASE i \in 1 .. Len(tables)
        <4>1. tables'[i] = tables[i] /\ cache[tables[i].type] = i /\ i # 0
          BY <3>2, <1>3 DEF IInv, CacheInv
        <4>2. tables[i].type # GoType[d]
          BY <4>1
        <4>3. tables[i] \in Table
          BY <3>2, <1>1
        <4>4. tables[i].type \in Types
          BY <4>3 DEF Table
        <4> QED BY <4>1, <4>2, <4>4, <1>1, <1>5
      <3> QED BY <3>1, <3>2, <1>8
    <2> QED BY <2>1, <2>2, <1>3 DEF CacheInv
  <1>s. StackInv'
    <2> SUFFICES ASSUME NEW q \in Procs
                 PROVE  /\ pc'[q] \in Compiling <=> Len(frames'[q]) > 0
                        /\ \A k \in 1 .. Len(frames'[q]) : FrameOK(q, k)'
      BY DEF StackInv
    <2>1. pc'[q] \in Compiling <=> Len(frames'[q]) > 0
      <3>1. CASE q = p
        BY <3>1, <1>1, <1>4, <1>6 DEF Compiling
      <3>2. CASE q # p
        BY <3>2, <1>4, <1>6 DEF IInv, StackInv
      <3> QED BY <3>1, <3>2
    <2>2. ASSUME NEW k \in 1 .. Len(frames'[q])
          PROVE  FrameOK(q, k)'
      <3>1. CASE q = p /\ k = Len(frames[p]) + 1
        <4>1. frames'[q][k].table = n /\ frames'[q][k].desc = d
              /\ frames'[q][k].fields = <<>> /\ k = Len(frames'[q])
          BY <3>1, <1>4, <1>7
        <4>2. Len(Nested[d]) \in Nat
          BY <1>1
        <4> QED BY <3>1, <4>1, <4>2, <1>1, <1>3, <1>6, <1>8, <1>9, EmptySeq DEF FrameOK
      <3>2. CASE q = p /\ k # Len(frames[p]) + 1
        <4>1. k \in 1 .. Len(frames[p])
          BY <3>2, <1>1, <1>4
        <4>2. FrameOK(p, k) /\ Len(frames[p]) > 0
          BY <4>1, <1>1 DEF IInv, StackInv
        <4>3. pc[p] = "compile"
          BY <4>2 DEF IInv, StackInv, Compiling, Publishing
        <4>4. Len(frames[p][k].fields) < Len(Nested[frames[p][k].desc])
          <5>1. CASE k < Len(frames[p])
            BY <4>2, <5>1 DEF FrameOK
          <5>2. CASE k = Len(frames[p])
            BY <4>2, <4>3, <5>2, TopFacts DEF Visited
          <5> QED BY <4>1, <5>1, <5>2, <1>1
        <4>5. frames'[q][k] = frames[p][k] /\ ~ tables[frames[p][k].table].done
          BY <3>2, <4>1, <4>2, <4>3, <1>1, <1>4 DEF FrameOK
        <4>6. frames[p][k].table \in 1 .. Len(tables)
          BY <4>2 DEF FrameOK
        <4>7. tables'[frames[p][k].table] = tables[frames[p][k].table]
              /\ frames[p][k].table \in 1 .. Len(tables')
          BY <4>6, <1>3, <1>8
        <4> QED BY <4>2, <4>4, <4>5, <4>7 DEF FrameOK
      <3>3. CASE q # p
        <4>1. k \in 1 .. Len(frames[q]) /\ FrameOK(q, k) /\ frames'[q] = frames[q]
          BY <3>3, <1>4 DEF IInv, StackInv
        <4>2. frames[q][k].table \in 1 .. Len(tables)
          BY <4>1 DEF FrameOK
        <4>3. tables'[frames[q][k].table] = tables[frames[q][k].table]
              /\ frames[q][k].table \in 1 .. Len(tables')
          BY <4>2, <1>3, <1>8
        <4> QED BY <3>3, <4>1, <4>3, <1>6 DEF FrameOK
      <3> QED BY <3>1, <3>2, <3>3
    <2> QED BY <2>1, <2>2
  <1>d. DistinctInv'
    <2>1. \A q \in Procs : \A k \in 1 .. Len(frames[q]) :
            frames[q][k].table \in 1 .. Len(tables)
      BY DEF IInv, StackInv, FrameOK
    <2>2. ASSUME NEW q \in Procs, NEW k \in 1 .. Len(frames'[q])
          PROVE  \/ /\ k \in 1 .. Len(frames[q]) /\ frames'[q][k] = frames[q][k]
                    /\ frames'[q][k].table # n
                 \/ q = p /\ k = Len(frames[p]) + 1 /\ frames'[q][k].table = n
      <3>1. CASE k \in 1 .. Len(frames[q]) /\ frames'[q][k] = frames[q][k]
        BY <2>1, <3>1, <1>8
      <3>2. CASE q = p /\ k = Len(frames[p]) + 1
        BY <3>2, <1>4, <1>7
      <3> QED BY <3>1, <3>2, <1>1, <1>4
    <2> SUFFICES ASSUME NEW q \in Procs, NEW r \in Procs,
                        NEW k \in 1 .. Len(frames'[q]), NEW l \in 1 .. Len(frames'[r]),
                        frames'[q][k].table = frames'[r][l].table
                 PROVE  q = r /\ k = l
      BY DEF DistinctInv
    <2>3. CASE frames'[q][k].table = n
      BY <2>2, <2>3
    <2>4. CASE frames'[q][k].table # n
      <3>1. /\ k \in 1 .. Len(frames[q]) /\ frames'[q][k] = frames[q][k]
            /\ l \in 1 .. Len(frames[r]) /\ frames'[r][l] = frames[r][l]
        BY <2>2, <2>4
      <3> QED BY <3>1 DEF IInv, DistinctInv
    <2> QED BY <2>3, <2>4
  <1>o. OwnedInv'
    <2> SUFFICES ASSUME NEW i \in 1 .. n, ~ tables'[i].closed
                 PROVE  \E q \in Procs : \E k \in 1 .. Len(frames'[q]) :
                          frames'[q][k].table = i
      BY <1>3 DEF OwnedInv
    <2>1. CASE i = n
      <3>1. Len(frames[p]) + 1 \in 1 .. Len(frames'[p])
        BY <1>1, <1>4
      <3>2. frames'[p][Len(frames[p]) + 1].table = n
        BY <1>4, <1>7
      <3> QED BY <2>1, <3>1, <3>2
    <2>2. CASE i # n
      <3>1. i \in 1 .. Len(tables)
        BY <2>2, <1>8
      <3>2. PICK q \in Procs : \E k \in 1 .. Len(frames[q]) : frames[q][k].table = i
        BY <3>1, <1>3 DEF IInv, OwnedInv
      <3>3. PICK k \in 1 .. Len(frames[q]) : frames[q][k].table = i
        BY <3>2
      <3>4. k \in 1 .. Len(frames'[q]) /\ frames'[q][k] = frames[q][k]
        BY <1>1, <1>4
      <3> QED BY <3>3, <3>4
    <2> QED BY <2>1, <2>2
  <1>x. ControlInv'
    <2> SUFFICES ASSUME NEW q \in Procs
                 PROVE  ControlOK(q)'
      BY DEF ControlInv
    <2>1. ControlOK(q)
      BY DEF IInv, ControlInv
    <2>2. CASE q = p
      BY <2>1, <2>2, <1>5, <1>6 DEF ControlOK, Publishing
    <2>3. CASE q # p
      <3>1. held[q] \in 0 .. Len(tables)
        BY DEF IInv, TypeOK
      <3>2. pc[q] \in {"storeDone", "close"} =>
              frames[q][Len(frames[q])].table \in 1 .. Len(tables)
        BY TopFacts DEF IInv, StackInv, Compiling, Publishing
      <3>3. /\ pc'[q] = pc[q] /\ msg'[q] = msg[q] /\ held'[q] = held[q]
            /\ frames'[q] = frames[q] /\ mutex' = mutex
        BY <2>3, <1>4, <1>5, <1>6
      <3>4. held[q] # 0 => tables'[held[q]] = tables[held[q]]
        BY <3>1, <1>1, <1>3
      <3> QED BY <2>1, <3>2, <3>3, <3>4, <1>3 DEF ControlOK
    <2> QED BY <2>2, <2>3
  <1>n. DoneInv'
    <2> SUFFICES ASSUME NEW i \in 1 .. n
                 PROVE  /\ tables'[i].closed => tables'[i].done
                        /\ tables'[i].done => tables'[i].desc # None
      BY <1>3 DEF DoneInv
    <2>1. CASE i \in 1 .. Len(tables)
      BY <2>1, <1>3 DEF IInv, DoneInv
    <2>2. CASE i = n
      BY <2>2, <1>3 DEF Placeholder
    <2> QED BY <2>1, <2>2, <1>8
  <1>f. FieldsInv'
    <2>1. ASSUME NEW fs, FieldsOK(tables, fs)
          PROVE  FieldsOK(tables', fs)
      <3>1. \A i \in 1 .. Len(tables) :
              i \in 1 .. Len(tables') /\ (tables[i].done => tables'[i].done)
        BY <1>3, <1>8
      <3> QED BY <2>1, <3>1, FieldsKept
    <2>2. FieldsOK(tables', <<>>)
      BY EmptySeq DEF FieldsOK
    <2>3. ASSUME NEW i \in 1 .. n
          PROVE  FieldsOK(tables', tables'[i].fields)
      <3>1. CASE i \in 1 .. Len(tables)
        BY <2>1, <3>1, <1>3 DEF IInv, FieldsInv
      <3>2. CASE i = n
        BY <2>2, <3>2, <1>9
      <3> QED BY <3>1, <3>2, <1>8
    <2>4. ASSUME NEW q \in Procs, NEW k \in 1 .. Len(frames'[q])
          PROVE  FieldsOK(tables', frames'[q][k].fields)
      <3>1. CASE k \in 1 .. Len(frames[q]) /\ frames'[q][k] = frames[q][k]
        BY <3>1, <2>1 DEF IInv, FieldsInv
      <3>2. CASE q = p /\ k = Len(frames[p]) + 1
        BY <3>2, <2>2, <1>4, <1>7
      <3> QED BY <3>1, <3>2, <1>1, <1>4
    <2> QED BY <2>3, <2>4, <1>3 DEF FieldsInv
  <1> QED BY <1>t, <1>c, <1>s, <1>d, <1>o, <1>x, <1>n, <1>f DEF IInv
-----------------------------------------------------------------------------
(* Adding a nested field to the running compileTable. *)

LEMMA RecordStep ==
  ASSUME IInv, NEW p \in Procs, RecordField(p)
  PROVE  IInv'
  <1> DEFINE m == Len(frames[p])
             field == [table |-> held[p], fd |-> NextNested(p),
                       needsWait |-> ~ ReadyNow(held[p])]
             frame == [Top(p) EXCEPT !.fields = Append(Top(p).fields, field)]
  <1>1. /\ pc[p] = "ready" /\ m > 0 /\ ~ Visited(p)
        /\ pc' = [pc EXCEPT ![p] = "compile"]
        /\ UNCHANGED <<cache, tables, mutex, held, msg, depth>>
    <2>1. pc[p] = "ready" /\ pc' = [pc EXCEPT ![p] = "compile"]
          /\ UNCHANGED <<cache, tables, mutex, held, msg, depth>>
      BY DEF RecordField, Goto, local
    <2>2. m > 0
      BY <2>1 DEF IInv, StackInv, Compiling
    <2> QED BY <2>1, <2>2, TopFacts DEF FrameOK, Visited
  <1>2. /\ field \in Field
        /\ field.table \in 1 .. Len(tables)
        /\ ~ field.needsWait => tables[field.table].done
    <2>1. held[p] \in 0 .. Len(tables) /\ held[p] # 0 /\ Len(tables) \in Nat
      BY <1>1 DEF IInv, TypeOK, ControlInv, ControlOK
    <2>2. held[p] \in 1 .. Len(tables)
      BY <2>1
    <2>3. ReadyNow(held[p]) => tables[held[p]].done
      BY <2>2 DEF ReadyNow, IInv, DoneInv
    <2>4. NextNested(p) \in Descs /\ held[p] \in Nat
      BY <1>1, <2>2, NextNestedType
    <2> QED BY <2>2, <2>3, <2>4 DEF Field
  <1>3. /\ frame \in Frame
        /\ frame.table = Top(p).table /\ frame.desc = Top(p).desc
        /\ frame.fields = Append(Top(p).fields, field)
        /\ Top(p).fields \in Seq(Field)
    <2>1. Top(p) \in Frame
      BY <1>1, TopFacts
    <2>2. Top(p).fields \in Seq(Field)
      BY <2>1 DEF Frame
    <2> HIDE DEF field
    <2>3. Append(Top(p).fields, field) \in Seq(Field)
      BY <2>2, <1>2
    <2> QED BY <2>1, <2>2, <2>3 DEF Frame
  <1>4. /\ frames' = [frames EXCEPT ![p] = [@ EXCEPT ![m] = frame]]
        /\ frames \in [Procs -> Seq(Frame)] /\ m \in Nat \ {0}
    BY <1>1, TopFacts DEF RecordField, Top, IInv, TypeOK
  <1> HIDE DEF frame, field
  <1>5. FieldsOK(tables, frame.fields)
    <2>1. FieldsOK(tables, Top(p).fields)
      <3>1. m \in 1 .. Len(frames[p]) /\ Top(p) = frames[p][m]
        BY <1>4 DEF Top
      <3> QED BY <3>1 DEF IInv, FieldsInv
    <2> QED BY <2>1, <1>2, <1>3 DEF FieldsOK
  <1>6. /\ frames' \in [Procs -> Seq(Frame)]
        /\ \A q \in Procs : Len(frames'[q]) = Len(frames[q])
        /\ \A q \in Procs : \A k \in 1 .. Len(frames[q]) :
             q # p \/ k # m => frames'[q][k] = frames[q][k]
        /\ frames'[p][m] = frame
    BY <1>3, <1>4
  <1>7. \A q \in Procs : \A k \in 1 .. Len(frames[q]) :
          frames'[q][k].table = frames[q][k].table
    BY <1>3, <1>4, <1>6 DEF Top
  <1>8. /\ pc \in [Procs -> Label] /\ pc'[p] = "compile"
        /\ \A q \in Procs \ {p} : pc'[q] = pc[q]
    BY <1>1 DEF IInv, TypeOK
  <1>t. TypeOK'
    BY <1>1, <1>6 DEF IInv, TypeOK, Label
  <1>c. CacheInv'
    BY <1>1 DEF IInv, CacheInv
  <1>s. StackInv'
    <2> SUFFICES ASSUME NEW q \in Procs
                 PROVE  /\ pc'[q] \in Compiling <=> Len(frames'[q]) > 0
                        /\ \A k \in 1 .. Len(frames'[q]) : FrameOK(q, k)'
      BY DEF StackInv
    <2>1. pc'[q] \in Compiling <=> Len(frames'[q]) > 0
      BY <1>1, <1>6, <1>8 DEF IInv, StackInv, Compiling
    <2>2. ASSUME NEW k \in 1 .. Len(frames[q])
          PROVE  FrameOK(q, k)'
      <3>1. FrameOK(q, k)
        BY DEF IInv, StackInv
      <3>2. CASE q = p /\ k = m
        <4>1. /\ Len(frame.fields) = Len(Top(p).fields) + 1
              /\ Len(Top(p).fields) \in Nat /\ Len(Nested[Top(p).desc]) \in Nat
              /\ Len(Top(p).fields) < Len(Nested[Top(p).desc])
          BY <1>1, <1>3, TopFacts DEF Visited
        <4>2. frames'[q][k] = frame /\ frames[q][k] = Top(p)
          BY <3>2, <1>6 DEF Top
        <4> QED BY <3>1, <3>2, <4>1, <4>2, <1>1, <1>3, <1>4, <1>6, <1>8 DEF FrameOK
      <3>3. CASE q = p /\ k # m
        BY <3>1, <3>3, <1>1, <1>4, <1>6, <1>8 DEF FrameOK
      <3>4. CASE q # p
        BY <3>1, <3>4, <1>1, <1>6, <1>8 DEF FrameOK
      <3> QED BY <3>2, <3>3, <3>4
    <2> QED BY <2>1, <2>2, <1>6
  <1>d. DistinctInv'
    BY <1>6, <1>7 DEF IInv, DistinctInv
  <1>o. OwnedInv'
    BY <1>1, <1>6, <1>7 DEF IInv, OwnedInv
  <1>x. ControlInv'
    <2> SUFFICES ASSUME NEW q \in Procs
                 PROVE  ControlOK(q)'
      BY DEF ControlInv
    <2>1. ControlOK(q)
      BY DEF IInv, ControlInv
    <2>2. CASE q = p
      BY <2>1, <2>2, <1>1, <1>8 DEF ControlOK, Publishing
    <2>3. CASE q # p
      <3>1. frames'[q] = frames[q]
        BY <2>3, <1>4
      <3> QED BY <2>1, <2>3, <3>1, <1>1, <1>8 DEF ControlOK
    <2> QED BY <2>2, <2>3
  <1>n. DoneInv'
    BY <1>1 DEF IInv, DoneInv
  <1>f. FieldsInv'
    <2>1. ASSUME NEW q \in Procs, NEW k \in 1 .. Len(frames[q])
          PROVE  FieldsOK(tables, frames'[q][k].fields)
      <3>1. CASE q = p /\ k = m
        BY <3>1, <1>5, <1>6
      <3>2. CASE q # p \/ k # m
        BY <3>2, <1>6 DEF IInv, FieldsInv
      <3> QED BY <3>1, <3>2
    <2>2. \A i \in 1 .. Len(tables) : FieldsOK(tables, tables[i].fields)
      BY DEF IInv, FieldsInv
    <2> QED BY <2>1, <2>2, <1>1, <1>6 DEF FieldsInv
  <1> QED BY <1>t, <1>c, <1>s, <1>d, <1>o, <1>x, <1>n, <1>f DEF IInv
-----------------------------------------------------------------------------
(* The publishing section up to done.Store. *)

\* Goroutine p replaces the table of its running compileTable by t and goes to
\* a point inside the publishing section.
LEMMA PublishStep ==
  ASSUME IInv, NEW p \in Procs, NEW t \in Table, NEW to \in Publishing,
         pc[p] \in Compiling, mutex \in {None, p}, mutex' = p,
         tables' = [tables EXCEPT ![Top(p).table] = t],
         pc' = [pc EXCEPT ![p] = to],
         UNCHANGED <<cache, held, frames, msg, depth>>,
         t.type = tables[Top(p).table].type,
         t.closed = tables[Top(p).table].closed,
         tables[Top(p).table].done => t.done,
         FieldsOK(tables, t.fields),
         t.done => to = "close",
         t.done \/ to \in {"storeDone", "close"} => t.desc # None,
         to = "close" => t.done
  PROVE  IInv'
  <1> DEFINE j == Top(p).table
             m == Len(frames[p])
  <1>1. m > 0
    BY DEF IInv, StackInv
  <1>2. /\ j \in 1 .. Len(tables) /\ m \in Nat \ {0} /\ j = frames[p][m].table
        /\ FrameOK(p, m) /\ ~ tables[j].closed
    BY <1>1, TopFacts DEF FrameOK
  <1>3. tables \in Seq(Table) /\ pc \in [Procs -> Label]
        /\ \A q \in Procs : Len(frames[q]) \in Nat
    BY DEF IInv, TypeOK
  <1>4. /\ tables' = [tables EXCEPT ![j] = t]
        /\ tables' \in Seq(Table) /\ Len(tables') = Len(tables)
        /\ tables'[j] = t
        /\ \A i \in 1 .. Len(tables) : i # j => tables'[i] = tables[i]
    BY <1>2, <1>3
  <1> HIDE DEF j
  <1>5. /\ \A i \in 1 .. Len(tables) : tables'[i].type = tables[i].type
        /\ \A i \in 1 .. Len(tables) : tables'[i].closed = tables[i].closed
        /\ \A i \in 1 .. Len(tables) : tables[i].done => tables'[i].done
    BY <1>2, <1>4 DEF j
  <1>6. /\ pc'[p] = to /\ \A q \in Procs \ {p} : pc'[q] = pc[q]
        /\ \A q \in Procs \ {p} : pc[q] \notin Publishing
    <2>1. \A q \in Procs \ {p} : mutex # q
      BY ConstantsAssumption
    <2> QED BY <2>1, <1>3 DEF IInv, ControlInv, ControlOK
  <1>t. TypeOK'
    BY <1>3, <1>4, <1>6 DEF IInv, TypeOK, Label, Publishing
  <1>c. CacheInv'
    <2>1. \A y \in Types : cache[y] # 0 => cache[y] \in 1 .. Len(tables)
      BY DEF IInv, TypeOK
    <2> QED BY <2>1, <1>4, <1>5 DEF IInv, CacheInv
  <1>s. StackInv'
    <2> SUFFICES ASSUME NEW q \in Procs
                 PROVE  /\ pc'[q] \in Compiling <=> Len(frames[q]) > 0
                        /\ \A k \in 1 .. Len(frames[q]) : FrameOK(q, k)'
      BY DEF StackInv
    <2>1. pc'[q] \in Compiling <=> Len(frames[q]) > 0
      BY <1>1, <1>6 DEF IInv, StackInv, Compiling
    <2>2. ASSUME NEW k \in 1 .. Len(frames[q])
          PROVE  FrameOK(q, k)'
      <3>1. FrameOK(q, k)
        BY DEF IInv, StackInv
      <3>2. CASE q = p /\ k = m
        <4>1. frames[q][k].table = j
          BY <3>2, <1>2
        <4> QED BY <3>1, <3>2, <4>1, <1>2, <1>4, <1>5, <1>6 DEF FrameOK, Publishing
      <3>3. CASE q # p \/ k # m
        <4>1. frames[q][k].table # j
          BY <3>3, <1>2 DEF IInv, DistinctInv
        <4>2. /\ frames[q][k].table \in 1 .. Len(tables)
              /\ tables'[frames[q][k].table] = tables[frames[q][k].table]
          BY <3>1, <4>1, <1>4 DEF FrameOK
        <4>3. CASE q = p
          <5>1. k < m
            BY <3>3, <4>3, <1>3
          <5> QED BY <3>1, <4>2, <4>3, <5>1, <1>2, <1>4 DEF FrameOK
        <4>4. CASE q # p
          BY <3>1, <4>2, <4>4, <1>4, <1>6 DEF FrameOK
        <4> QED BY <4>3, <4>4
      <3> QED BY <3>2, <3>3
    <2> QED BY <2>1, <2>2
  <1>d. DistinctInv'
    BY DEF IInv, DistinctInv
  <1>o. OwnedInv'
    BY <1>4, <1>5 DEF IInv, OwnedInv
  <1>x. ControlInv'
    <2> SUFFICES ASSUME NEW q \in Procs
                 PROVE  ControlOK(q)'
      BY DEF ControlInv
    <2>1. ControlOK(q)
      BY DEF IInv, ControlInv
    <2>2. CASE q = p
      <3>1. /\ msg[p] \in Descs /\ frames[p][m].table = j /\ tables'[j] = t
            /\ pc'[p] = to
        BY <2>1, <2>2, <1>2, <1>4, <1>6 DEF ControlOK, Compiling, Publishing
      <3> QED BY <2>2, <3>1 DEF ControlOK, Publishing
    <2>3. CASE q # p
      <3>1. pc'[q] = pc[q] /\ pc[q] \notin Publishing /\ mutex' # q
        BY <2>3, <1>6
      <3>2. pc[q] = "use" => tables'[held[q]].done
        <4>1. held[q] \in 0 .. Len(tables) /\ Len(tables) \in Nat
          BY <1>3 DEF IInv, TypeOK
        <4> QED BY <2>1, <4>1, <1>5 DEF ControlOK
      <3> QED BY <2>1, <3>1, <3>2 DEF ControlOK, Publishing
    <2> QED BY <2>2, <2>3
  <1>n. DoneInv'
    <2> SUFFICES ASSUME NEW i \in 1 .. Len(tables)
                 PROVE  /\ tables'[i].closed => tables'[i].done
                        /\ tables'[i].done => tables'[i].desc # None
      BY <1>4 DEF DoneInv
    <2>1. CASE i = j
      BY <2>1, <1>2, <1>4, <1>5
    <2>2. CASE i # j
      BY <2>2, <1>4 DEF IInv, DoneInv
    <2> QED BY <2>1, <2>2
  <1>f. FieldsInv'
    <2>1. ASSUME NEW fs, FieldsOK(tables, fs)
          PROVE  FieldsOK(tables', fs)
      <3>1. \A i \in 1 .. Len(tables) :
              i \in 1 .. Len(tables') /\ (tables[i].done => tables'[i].done)
        BY <1>4, <1>5
      <3> QED BY <2>1, <3>1, FieldsKept
    <2>2. ASSUME NEW i \in 1 .. Len(tables)
          PROVE  FieldsOK(tables', tables'[i].fields)
      <3>1. CASE i = j
        BY <3>1, <2>1, <1>4
      <3>2. CASE i # j
        BY <3>2, <2>1, <1>4 DEF IInv, FieldsInv
      <3> QED BY <3>1, <3>2
    <2>3. ASSUME NEW q \in Procs, NEW k \in 1 .. Len(frames[q])
          PROVE  FieldsOK(tables', frames[q][k].fields)
      BY <2>1 DEF IInv, FieldsInv
    <2> QED BY <2>2, <2>3, <1>4 DEF FieldsInv
  <1> QED BY <1>t, <1>c, <1>s, <1>d, <1>o, <1>x, <1>n, <1>f DEF IInv

LEMMA PublishActions ==
  ASSUME IInv, NEW p \in Procs, CopyFields(p) \/ CopyFlags(p) \/ StoreDone(p)
  PROVE  IInv'
  <1> DEFINE j == Top(p).table
  <1>1. /\ pc[p] \in {"compile", "flags", "storeDone"}
        /\ Len(frames[p]) > 0
        /\ UNCHANGED <<cache, held, frames, msg, depth>>
        /\ pc[p] # "compile" => mutex = p
    BY DEF CopyFields, CopyFlags, StoreDone, local, IInv, StackInv, ControlInv,
           ControlOK, Compiling, Publishing
  <1>2. /\ tables[j] \in Table /\ Top(p) \in Frame
        /\ j \in 1 .. Len(tables) /\ tables \in Seq(Table)
        /\ ~ tables[j].done /\ ~ tables[j].closed
        /\ FieldsOK(tables, tables[j].fields)
        /\ FieldsOK(tables, Top(p).fields)
    <2>1. /\ FrameOK(p, Len(frames[p])) /\ Len(frames[p]) \in 1 .. Len(frames[p])
          /\ Top(p) = frames[p][Len(frames[p])]
          /\ j \in 1 .. Len(tables) /\ tables[j] \in Table /\ Top(p) \in Frame
      BY <1>1, TopFacts
    <2>2. ~ tables[j].done /\ ~ tables[j].closed
      BY <2>1, <1>1 DEF FrameOK
    <2>3. FieldsOK(tables, Top(p).fields) /\ FieldsOK(tables, tables[j].fields)
      BY <2>1 DEF IInv, FieldsInv
    <2> QED BY <2>1, <2>2, <2>3 DEF IInv, TypeOK
  <1>3. CASE CopyFields(p)
    <2> DEFINE t == [tables[j] EXCEPT !.fields = Top(p).fields]
    <2>1. /\ t \in Table /\ t.fields = Top(p).fields /\ t.done = tables[j].done
          /\ t.type = tables[j].type /\ t.closed = tables[j].closed
      BY <1>2 DEF Table, Frame
    <2>2. tables' = [tables EXCEPT ![j] = t]
      BY <1>3 DEF CopyFields
    <2>3. pc' = [pc EXCEPT ![p] = "flags"] /\ mutex = None /\ mutex' = p
      BY <1>3 DEF CopyFields, Goto
    <2> HIDE DEF t
    <2> QED BY <1>1, <1>2, <2>1, <2>2, <2>3, PublishStep DEF Publishing, Compiling
  <1>4. CASE CopyFlags(p)
    <2> DEFINE given == (Top(p).desc \in Fallback)
               t == [tables[j] EXCEPT !.desc = Top(p).desc, !.useProtojson = given]
    <2>0. given \in BOOLEAN
      OBVIOUS
    <2> HIDE DEF given
    <2>1. /\ t \in Table /\ t.fields = tables[j].fields /\ t.done = tables[j].done
          /\ t.type = tables[j].type /\ t.closed = tables[j].closed
          /\ t.desc = Top(p).desc
      BY <2>0, <1>2 DEF Table, Frame
    <2>2. tables' = [tables EXCEPT ![j] = t]
      BY <1>2, <1>4 DEF CopyFlags, given
    <2>3. pc' = [pc EXCEPT ![p] = "storeDone"] /\ mutex = p /\ mutex' = p
      BY <1>1, <1>4 DEF CopyFlags, Goto
    <2>4. t.desc # None
      BY <1>2, <2>1, ConstantsAssumption DEF Frame
    <2> HIDE DEF t
    <2> QED BY <1>1, <1>2, <2>1, <2>2, <2>3, <2>4, PublishStep
         DEF Publishing, Compiling
  <1>5. CASE StoreDone(p)
    <2> DEFINE t == [tables[j] EXCEPT !.done = TRUE]
    <2>1. /\ t \in Table /\ t.fields = tables[j].fields /\ t.done = TRUE
          /\ t.type = tables[j].type /\ t.closed = tables[j].closed
          /\ t.desc = tables[j].desc
      BY <1>2 DEF Table, Frame
    <2>2. tables' = [tables EXCEPT ![j] = t]
      BY <1>5 DEF StoreDone
    <2>3. /\ pc' = [pc EXCEPT ![p] = "close"] /\ mutex = p /\ mutex' = p
          /\ pc[p] = "storeDone"
      BY <1>1, <1>5 DEF StoreDone, Goto
    <2>4. tables[j].desc # None
      BY <2>3 DEF IInv, ControlInv, ControlOK, Top
    <2> HIDE DEF t
    <2> QED BY <1>1, <1>2, <2>1, <2>2, <2>3, <2>4, PublishStep
         DEF Publishing, Compiling
  <1> QED BY <1>3, <1>4, <1>5
-----------------------------------------------------------------------------
(* close(ready) and the return of the running compileTable. *)

LEMMA PopFacts ==
  ASSUME NEW s \in Seq(Frame), Len(s) > 0
  PROVE  /\ Pop(s) \in Seq(Frame)
         /\ Len(Pop(s)) = Len(s) - 1
         /\ \A k \in 1 .. Len(s) - 1 : Pop(s)[k] = s[k]
  <1>1. Len(s) - 1 \in Nat /\ \A k \in 1 .. Len(s) - 1 : s[k] \in Frame
    OBVIOUS
  <1>2. DOMAIN Pop(s) = 1 .. Len(s) - 1
        /\ \A k \in 1 .. Len(s) - 1 : Pop(s)[k] = s[k]
    BY DEF Pop
  <1>3. Pop(s) \in [1 .. Len(s) - 1 -> Frame]
    BY <1>1 DEF Pop
  <1>4. Pop(s) \in Seq(Frame) /\ Len(Pop(s)) = Len(s) - 1
    BY <1>1, <1>3, SeqDef, LenProperties
  <1> QED BY <1>2, <1>4

LEMMA CloseStep ==
  ASSUME IInv, NEW p \in Procs, CloseReady(p)
  PROVE  IInv'
  <1> DEFINE j == Top(p).table
             m == Len(frames[p])
             to == IF m = 1 THEN "use" ELSE "ready"
             t == [tables[j] EXCEPT !.closed = TRUE]
  <1>1. /\ pc[p] = "close" /\ mutex = p /\ mutex' = None
        /\ pc' = [pc EXCEPT ![p] = to]
        /\ held' = [held EXCEPT ![p] = j]
        /\ frames' = [frames EXCEPT ![p] = Pop(@)]
        /\ UNCHANGED <<cache, msg, depth>>
    BY DEF CloseReady, Goto, Hold, local, IInv, ControlInv, ControlOK, Publishing
  <1>2. m > 0
    BY <1>1 DEF IInv, StackInv, Compiling, Publishing
  <1>3. /\ j \in 1 .. Len(tables) /\ m \in Nat \ {0} /\ j = frames[p][m].table
        /\ FrameOK(p, m) /\ tables[j] \in Table
        /\ tables[j].done
    <2>1. tables[j].done
      BY <1>1 DEF IInv, ControlInv, ControlOK, Top
    <2> QED BY <1>2, <2>1, TopFacts
  <1>4. /\ tables \in Seq(Table) /\ pc \in [Procs -> Label]
        /\ frames \in [Procs -> Seq(Frame)] /\ frames[p] \in Seq(Frame)
        /\ \A q \in Procs : Len(frames[q]) \in Nat
    BY DEF IInv, TypeOK
  <1>5. /\ t \in Table /\ t.closed /\ t.type = tables[j].type
        /\ t.done = tables[j].done /\ t.desc = tables[j].desc
        /\ t.fields = tables[j].fields
    BY <1>3 DEF Table
  <1>6. /\ tables' \in Seq(Table) /\ Len(tables') = Len(tables)
        /\ tables'[j] = t
        /\ \A i \in 1 .. Len(tables) : i # j => tables'[i] = tables[i]
    <2>1. tables' = [tables EXCEPT ![j] = t]
      BY DEF CloseReady
    <2> HIDE DEF t, j
    <2> QED BY <2>1, <1>3, <1>4, <1>5
  <1>7. /\ frames' \in [Procs -> Seq(Frame)]
        /\ Len(frames'[p]) = m - 1
        /\ \A k \in 1 .. m - 1 : frames'[p][k] = frames[p][k]
        /\ \A q \in Procs \ {p} : frames'[q] = frames[q]
    <2>1. frames'[p] = Pop(frames[p]) /\ \A q \in Procs \ {p} : frames'[q] = frames[q]
      BY <1>1, <1>4
    <2>2. Pop(frames[p]) \in Seq(Frame)
      BY <1>2, <1>4, PopFacts
    <2>3. frames' \in [Procs -> Seq(Frame)]
      BY <2>2, <1>1, <1>4
    <2> QED BY <2>1, <2>3, <1>2, <1>4, PopFacts
  <1>8. /\ pc'[p] = to /\ to \in {"use", "ready"}
        /\ to = "use" <=> m = 1
        /\ held'[p] = j
        /\ \A q \in Procs \ {p} : /\ pc'[q] = pc[q] /\ held'[q] = held[q]
                                  /\ pc[q] \notin Publishing
    <2>1. \A q \in Procs \ {p} : pc[q] \notin Publishing
      BY <1>1 DEF IInv, ControlInv, ControlOK
    <2> QED BY <2>1, <1>1, <1>4 DEF IInv, TypeOK
  <1> HIDE DEF j, to, t
  <1>9. /\ \A i \in 1 .. Len(tables) : /\ tables'[i].type = tables[i].type
                                       /\ tables'[i].done = tables[i].done
                                       /\ tables'[i].desc = tables[i].desc
                                       /\ tables'[i].fields = tables[i].fields
                                       /\ i # j => tables'[i].closed = tables[i].closed
        /\ tables'[j].closed
    BY <1>3, <1>5, <1>6
  <1>10. ASSUME NEW q \in Procs, NEW k \in 1 .. Len(frames'[q])
         PROVE  /\ k \in 1 .. Len(frames[q]) /\ frames'[q][k] = frames[q][k]
                /\ q # p \/ k < m
                /\ frames[q][k].table \in 1 .. Len(tables)
                /\ frames[q][k].table # j
    <2>1. /\ k \in 1 .. Len(frames[q]) /\ frames'[q][k] = frames[q][k]
          /\ q # p \/ k < m
      <3>1. CASE q = p
        <4>1. k \in 1 .. m - 1
          BY <3>1, <1>7
        <4> QED BY <3>1, <4>1, <1>3, <1>7
      <3>2. CASE q # p
        BY <3>2, <1>7
      <3> QED BY <3>1, <3>2
    <2>2. frames[q][k].table \in 1 .. Len(tables)
      BY <2>1 DEF IInv, StackInv, FrameOK
    <2>3. q # p \/ k # m
      BY <2>1, <1>3
    <2>4. frames[q][k].table # j
      BY <2>1, <2>3, <1>3 DEF IInv, DistinctInv
    <2> QED BY <2>1, <2>2, <2>4
  <1>t. TypeOK'
    <2>1. held' \in [Procs -> 0 .. Len(tables)]
      BY <1>1, <1>3 DEF IInv, TypeOK
    <2> QED BY <2>1, <1>1, <1>4, <1>6, <1>7, <1>8 DEF IInv, TypeOK, Label
  <1>c. CacheInv'
    <2>1. \A y \in Types : cache[y] # 0 => cache[y] \in 1 .. Len(tables)
      BY DEF IInv, TypeOK
    <2> QED BY <2>1, <1>1, <1>6, <1>9 DEF IInv, CacheInv
  <1>s. StackInv'
    <2> SUFFICES ASSUME NEW q \in Procs
                 PROVE  /\ pc'[q] \in Compiling <=> Len(frames'[q]) > 0
                        /\ \A k \in 1 .. Len(frames'[q]) : FrameOK(q, k)'
      BY DEF StackInv
    <2>1. pc'[q] \in Compiling <=> Len(frames'[q]) > 0
      <3>1. CASE q = p
        <4>1. pc'[q] \in Compiling <=> m # 1
          BY <3>1, <1>8 DEF Compiling, Publishing
        <4>2. Len(frames'[q]) > 0 <=> m # 1
          <5>1. Len(frames'[q]) = m - 1 /\ m \in Nat \ {0}
            BY <3>1, <1>3, <1>7
          <5> HIDE DEF m
          <5> QED BY <5>1
        <4> QED BY <4>1, <4>2
      <3>2. CASE q # p
        BY <3>2, <1>7, <1>8 DEF IInv, StackInv
      <3> QED BY <3>1, <3>2
    <2>2. ASSUME NEW k \in 1 .. Len(frames'[q])
          PROVE  FrameOK(q, k)'
      <3>1. /\ k \in 1 .. Len(frames[q]) /\ frames'[q][k] = frames[q][k]
            /\ q # p \/ k < m
            /\ frames[q][k].table \in 1 .. Len(tables)
            /\ tables'[frames[q][k].table] = tables[frames[q][k].table]
        BY <1>6, <1>10
      <3>2. FrameOK(q, k)
        BY <3>1 DEF IInv, StackInv
      <3>3. CASE q = p
        <4>1. /\ ~ tables[frames[q][k].table].done
              /\ Len(frames[q][k].fields) < Len(Nested[frames[q][k].desc])
              /\ Len(frames[q][k].fields) <= Len(Nested[frames[q][k].desc])
          BY <3>1, <3>2, <3>3, <1>3 DEF FrameOK
        <4> QED BY <3>1, <3>2, <4>1, <1>6 DEF FrameOK
      <3>4. CASE q # p
        BY <3>1, <3>2, <3>4, <1>6, <1>7, <1>8 DEF FrameOK
      <3> QED BY <3>3, <3>4
    <2> QED BY <2>1, <2>2
  <1>d. DistinctInv'
    <2> SUFFICES ASSUME NEW q \in Procs, NEW r \in Procs,
                        NEW k \in 1 .. Len(frames'[q]), NEW l \in 1 .. Len(frames'[r]),
                        frames'[q][k].table = frames'[r][l].table
                 PROVE  q = r /\ k = l
      BY DEF DistinctInv
    <2>1. /\ k \in 1 .. Len(frames[q]) /\ frames'[q][k] = frames[q][k]
          /\ l \in 1 .. Len(frames[r]) /\ frames'[r][l] = frames[r][l]
      BY <1>10
    <2> QED BY <2>1 DEF IInv, DistinctInv
  <1>o. OwnedInv'
    <2> SUFFICES ASSUME NEW i \in 1 .. Len(tables), ~ tables'[i].closed
                 PROVE  \E q \in Procs : \E k \in 1 .. Len(frames'[q]) :
                          frames'[q][k].table = i
      BY <1>6 DEF OwnedInv
    <2>1. i # j /\ ~ tables[i].closed
      BY <1>9
    <2>2. PICK q \in Procs : \E k \in 1 .. Len(frames[q]) : frames[q][k].table = i
      BY <2>1 DEF IInv, OwnedInv
    <2>3. PICK k \in 1 .. Len(frames[q]) : frames[q][k].table = i
      BY <2>2
    <2>4. q # p \/ k # m
      BY <2>1, <2>3, <1>3
    <2>5. k \in 1 .. Len(frames'[q]) /\ frames'[q][k] = frames[q][k]
      <3>1. CASE q = p
        <4>1. k \in 1 .. m - 1
          BY <3>1, <2>4, <1>3
        <4> QED BY <3>1, <4>1, <1>7
      <3>2. CASE q # p
        BY <3>2, <1>7
      <3> QED BY <3>1, <3>2
    <2> QED BY <2>3, <2>5
  <1>x. ControlInv'
    <2> SUFFICES ASSUME NEW q \in Procs
                 PROVE  ControlOK(q)'
      BY DEF ControlInv
    <2>1. ControlOK(q) /\ q # None
      BY ConstantsAssumption DEF IInv, ControlInv
    <2>2. CASE q = p
      <3>1. msg[p] \in Descs /\ j # 0 /\ tables'[j].done /\ mutex' # p
        BY <2>1, <2>2, <1>1, <1>3, <1>9 DEF ControlOK
      <3> QED BY <2>2, <3>1, <1>1, <1>8 DEF ControlOK, Publishing
    <2>3. CASE q # p
      <3>1. pc[q] = "use" => tables'[held[q]].done
        <4>1. held[q] \in 0 .. Len(tables) /\ Len(tables) \in Nat
          BY <1>4 DEF IInv, TypeOK
        <4> QED BY <2>1, <4>1, <1>9 DEF ControlOK
      <3> QED BY <2>1, <2>3, <3>1, <1>1, <1>8 DEF ControlOK, Publishing
    <2> QED BY <2>2, <2>3
  <1>n. DoneInv'
    <2> SUFFICES ASSUME NEW i \in 1 .. Len(tables)
                 PROVE  /\ tables'[i].closed => tables'[i].done
                        /\ tables'[i].done => tables'[i].desc # None
      BY <1>6 DEF DoneInv
    <2>1. /\ tables[i].closed => tables[i].done
          /\ tables[i].done => tables[i].desc # None
      BY DEF IInv, DoneInv
    <2> QED BY <2>1, <1>3, <1>9
  <1>f. FieldsInv'
    <2>1. ASSUME NEW fs, FieldsOK(tables, fs)
          PROVE  FieldsOK(tables', fs)
      <3>1. \A i \in 1 .. Len(tables) :
              i \in 1 .. Len(tables') /\ (tables[i].done => tables'[i].done)
        BY <1>6, <1>9
      <3> QED BY <2>1, <3>1, FieldsKept
    <2>2. ASSUME NEW i \in 1 .. Len(tables)
          PROVE  FieldsOK(tables', tables'[i].fields)
      BY <2>1, <1>9 DEF IInv, FieldsInv
    <2>3. ASSUME NEW q \in Procs, NEW k \in 1 .. Len(frames'[q])
          PROVE  FieldsOK(tables', frames'[q][k].fields)
      BY <2>1, <1>10 DEF IInv, FieldsInv
    <2> QED BY <2>2, <2>3, <1>6 DEF FieldsInv
  <1> QED BY <1>t, <1>c, <1>s, <1>d, <1>o, <1>x, <1>n, <1>f DEF IInv
-----------------------------------------------------------------------------
(* The invariant and what follows from it. *)

LEMMA InitIInv ==
  Init => IInv
  <1> SUFFICES ASSUME Init PROVE IInv
    OBVIOUS
  <1> USE DEF Init
  <1>1. TypeOK
    BY ConstantsAssumption, EmptySeq DEF TypeOK, Label
  <1>2. Len(tables) = 0 /\ \A p \in Procs : Len(frames[p]) = 0
    BY EmptySeq
  <1>3. CacheInv /\ DistinctInv /\ OwnedInv /\ DoneInv /\ FieldsInv
    BY <1>2 DEF CacheInv, DistinctInv, OwnedInv, DoneInv, FieldsInv
  <1>4. StackInv
    <2> SUFFICES ASSUME NEW p \in Procs
                 PROVE  /\ pc[p] \in Compiling <=> Len(frames[p]) > 0
                        /\ \A k \in 1 .. Len(frames[p]) : FrameOK(p, k)
      BY DEF StackInv
    <2>1. pc[p] = "idle" /\ Len(frames[p]) = 0
      BY <1>2
    <2>2. pc[p] \notin Compiling
      BY <2>1 DEF Compiling, Publishing
    <2> HIDE DEF Init
    <2> QED BY <2>1, <2>2
  <1>5. ControlInv
    BY ConstantsAssumption DEF ControlInv, ControlOK, Publishing
  <1> QED BY <1>1, <1>3, <1>4, <1>5 DEF IInv

LEMMA NextIInv ==
  IInv /\ [Next]_vars => IInv'
  <1> SUFFICES ASSUME IInv, [Next]_vars PROVE IInv'
    OBVIOUS
  <1>1. CASE UNCHANGED vars
    <2>1. TypeOK' /\ CacheInv' /\ DistinctInv' /\ OwnedInv' /\ DoneInv'
      BY <1>1 DEF vars, IInv, TypeOK, CacheInv, DistinctInv, OwnedInv, DoneInv
    <2>2. StackInv'
      <3>1. UNCHANGED <<tables, frames, pc>>
        BY <1>1 DEF vars
      <3>2. StackInv
        BY DEF IInv
      <3> SUFFICES ASSUME NEW q \in Procs
                   PROVE  /\ pc'[q] \in Compiling <=> Len(frames'[q]) > 0
                          /\ \A k \in 1 .. Len(frames'[q]) : FrameOK(q, k)'
        BY DEF StackInv
      <3>3. /\ pc[q] \in Compiling <=> Len(frames[q]) > 0
            /\ \A k \in 1 .. Len(frames[q]) : FrameOK(q, k)
        BY <3>2 DEF StackInv
      <3> QED BY <3>1, <3>3 DEF FrameOK
    <2>3. ControlInv'
      BY <1>1 DEF vars, IInv, ControlInv, ControlOK
    <2>4. FieldsInv'
      BY <1>1 DEF vars, IInv, FieldsInv
    <2> QED BY <2>1, <2>2, <2>3, <2>4 DEF IInv
  <1>2. ASSUME NEW p \in Procs, NEW d \in Descs, Call(p, d)
        PROVE  IInv'
    BY <1>2, QuietActions DEF Quiet
  <1>3. ASSUME NEW p \in Procs, Step(p)
        PROVE  IInv'
    <2>1. ASSUME Insert(p)
          PROVE  IInv'
      <3>1. pc[p] = "insert" /\ msg[p] \in Descs
        BY <2>1 DEF Insert, IInv, ControlInv, ControlOK
      <3> QED BY <2>1, <3>1, StoreStep DEF Insert
    <2>2. ASSUME NestedInsert(p)
          PROVE  IInv'
      <3>1. pc[p] = "compile" /\ ~ Visited(p)
        BY <2>2 DEF NestedInsert
      <3>2. NextNested(p) \in Descs
        BY <3>1, NextNestedType DEF IInv, StackInv, Compiling
      <3> QED BY <2>2, <3>1, <3>2, StoreStep DEF NestedInsert
    <2>3. ASSUME pc[p] = "use" /\ Walk(p)
          PROVE  IInv'
      BY <2>3, QuietActions DEF Walk, Quiet
    <2>4. ASSUME \/ LookupHit(p) \/ LookupMiss(p) \/ RecheckHit(p)
                 \/ NestedHit(p) \/ AwaitReady(p)
          PROVE  IInv'
      BY <2>4, QuietActions DEF Quiet
    <2> QED BY <1>3, <2>1, <2>2, <2>3, <2>4, RecordStep, PublishActions, CloseStep
         DEF Step
  <1> QED BY <1>1, <1>2, <1>3 DEF Next

LEMMA IInvHolds ==
  Spec => []IInv
  BY InitIInv, NextIInv, PTL DEF Spec

\* Every variable keeps its type, and no goroutine ever holds, and no cache
\* entry ever names, a table that was not allocated.
THEOREM TypeCorrect ==
  Spec => []TypeOK
  <1>1. IInv => TypeOK
    BY DEF IInv
  <1> QED BY <1>1, IInvHolds, PTL

\* The two looks of getTable and the placeholder of compileTableForType never
\* make a second table for a Go type.
THEOREM TablesUnique ==
  Spec => []OneTablePerType
  <1>1. IInv => OneTablePerType
    <2>1. IInv => DOMAIN tables = 1 .. Len(tables)
      BY DEF IInv, TypeOK
    <2> QED BY <2>1 DEF IInv, CacheInv, OneTablePerType
  <1> QED BY <1>1, IInvHolds, PTL

\* A table under construction has exactly one compileTable filling it, a closed
\* one has none: nobody waits for an abandoned placeholder, and close(ready) is
\* never called twice.
THEOREM CompilersUnique ==
  Spec => []SoleCompiler
  <1>1. IInv => SoleCompiler
    <2> SUFFICES ASSUME IInv PROVE SoleCompiler
      OBVIOUS
    <2>1. DOMAIN tables = 1 .. Len(tables)
          /\ \A p \in Procs : DOMAIN frames[p] = 1 .. Len(frames[p])
      BY DEF IInv, TypeOK
    <2>2. \A i \in 1 .. Len(tables), p \in Procs : \A k \in 1 .. Len(frames[p]) :
            frames[p][k].table = i => ~ tables[i].closed
      BY DEF IInv, StackInv, FrameOK
    <2>3. DistinctInv /\ OwnedInv
      BY DEF IInv
    <2>4. ASSUME NEW i \in DOMAIN tables
          PROVE  tables[i].closed <=>
                   \A p \in Procs : \A k \in DOMAIN frames[p] : frames[p][k].table # i
      <3>1. i \in 1 .. Len(tables)
        BY <2>1
      <3>2. CASE tables[i].closed
        BY <2>1, <2>2, <3>1, <3>2
      <3>3. CASE ~ tables[i].closed
        <4>1. \E p \in Procs : \E k \in 1 .. Len(frames[p]) : frames[p][k].table = i
          BY <2>3, <3>1, <3>3 DEF OwnedInv
        <4> QED BY <2>1, <3>3, <4>1
      <3> QED BY <3>2, <3>3
    <2>5. \A p, q \in Procs : \A k \in DOMAIN frames[p], l \in DOMAIN frames[q] :
            frames[p][k].table = frames[q][l].table => p = q /\ k = l
      BY <2>1, <2>3 DEF DistinctInv
    <2> QED BY <2>4, <2>5 DEF SoleCompiler
  <1> QED BY <1>1, IInvHolds, PTL

\* marshal and unmarshal only ever walk a table whose done is stored, also when
\* they reached it through a field whose wait they skipped.
THEOREM OnlyPublishedUsed ==
  Spec => []UseOnlyPublished
  <1>1. IInv => UseOnlyPublished
    <2> SUFFICES ASSUME IInv, NEW p \in Procs, pc[p] = "use"
                 PROVE  tables[held[p]].done /\ tables[held[p]].desc # None
      BY DEF UseOnlyPublished
    <2>1. held[p] \in 0 .. Len(tables) /\ held[p] # 0 /\ tables[held[p]].done
          /\ Len(tables) \in Nat
      BY DEF IInv, TypeOK, ControlInv, ControlOK
    <2>2. held[p] \in 1 .. Len(tables)
      <3> DEFINE h == held[p]
                 n == Len(tables)
      <3>1. h \in 0 .. n /\ h # 0 /\ n \in Nat
        BY <2>1
      <3> HIDE DEF h, n
      <3>2. h \in 1 .. n
        BY <3>1
      <3> QED BY <3>2 DEF h, n
    <2> QED BY <2>1, <2>2 DEF IInv, DoneInv
  <1> QED BY <1>1, IInvHolds, PTL

\* msgNeedsWait is false only for a nested table that is finished.
THEOREM SkippedWaitsSound ==
  Spec => []SkipWaitSound
  <1>1. IInv => SkipWaitSound
    <2> SUFFICES ASSUME IInv PROVE SkipWaitSound
      OBVIOUS
    <2>1. /\ DOMAIN tables = 1 .. Len(tables)
          /\ \A i \in 1 .. Len(tables) :
               DOMAIN tables[i].fields = 1 .. Len(tables[i].fields)
          /\ \A p \in Procs : DOMAIN frames[p] = 1 .. Len(frames[p])
          /\ \A p \in Procs : \A k \in 1 .. Len(frames[p]) :
               DOMAIN frames[p][k].fields = 1 .. Len(frames[p][k].fields)
      <3>1. ASSUME NEW i \in 1 .. Len(tables)
            PROVE  tables[i].fields \in Seq(Field)
        <4>1. tables[i] \in Table
          BY DEF IInv, TypeOK
        <4> QED BY <4>1 DEF Table
      <3>2. ASSUME NEW p \in Procs
            PROVE  frames[p] \in Seq(Frame)
        BY DEF IInv, TypeOK
      <3>3. ASSUME NEW p \in Procs, NEW k \in 1 .. Len(frames[p])
            PROVE  frames[p][k].fields \in Seq(Field)
        <4>1. frames[p][k] \in Frame
          BY <3>2
        <4> QED BY <4>1 DEF Frame
      <3>4. \A fs \in Seq(Field) : DOMAIN fs = 1 .. Len(fs)
        OBVIOUS
      <3>5. \A fs \in Seq(Frame) : DOMAIN fs = 1 .. Len(fs)
        OBVIOUS
      <3>6. DOMAIN tables = 1 .. Len(tables)
        BY DEF IInv, TypeOK
      <3> QED BY <3>1, <3>2, <3>3, <3>4, <3>5, <3>6
    <2> QED BY <2>1 DEF SkipWaitSound, IInv, FieldsInv, FieldsOK
  <1> QED BY <1>1, IInvHolds, PTL

\* Nothing but the ready channel of a published table changes: only the top
\* frame of a goroutine in the last line of its publishing section names a
\* table whose done is stored.
THEOREM PublishedStaysFinal ==
  Spec => PublishedIsFinal
  <1> DEFINE Final(i) == tables'[i] = [tables[i] EXCEPT !.closed = tables'[i].closed]
             A == \A i \in DOMAIN tables : tables[i].done => Final(i)
  <1>1. ASSUME IInv, [Next]_vars
        PROVE  A
    <2> SUFFICES ASSUME NEW i \in DOMAIN tables, tables[i].done
                 PROVE  Final(i)
      OBVIOUS
    <2>1. /\ tables \in Seq(Table) /\ i \in 1 .. Len(tables)
          /\ tables[i] \in Table /\ Len(tables) \in Nat
      BY <1>1 DEF IInv, TypeOK
    <2>2. tables'[i] = tables[i] => Final(i)
      BY <2>1 DEF Table
    <2>3. CASE UNCHANGED tables
      BY <2>2, <2>3
    <2>4. ASSUME NEW d \in Descs, tables' = Append(tables, Placeholder(GoType[d]))
          PROVE  Final(i)
      BY <2>1, <2>2, <2>4
    <2>5. ASSUME NEW p \in Procs, CopyFields(p) \/ CopyFlags(p) \/ StoreDone(p)
          PROVE  Final(i)
      <3> DEFINE j == Top(p).table
      <3>1. pc[p] \in {"compile", "flags", "storeDone"}
        BY <2>5 DEF CopyFields, CopyFlags, StoreDone
      <3>2. Len(frames[p]) > 0
        BY <3>1, <1>1 DEF IInv, StackInv, Compiling, Publishing
      <3>3. ~ tables[j].done
        BY <1>1, <3>1, <3>2, TopFacts DEF FrameOK
      <3>4. i # j
        BY <3>3
      <3>5. tables'[i] = tables[i]
        BY <2>1, <2>5, <3>4 DEF CopyFields, CopyFlags, StoreDone
      <3> QED BY <2>2, <3>5
    <2>6. ASSUME NEW p \in Procs, CloseReady(p)
          PROVE  Final(i)
      <3>1. tables' = [tables EXCEPT ![Top(p).table].closed = TRUE]
        BY <2>6 DEF CloseReady
      <3>2. CASE i = Top(p).table
        BY <2>1, <3>1, <3>2 DEF Table
      <3>3. CASE i # Top(p).table
        BY <2>1, <2>2, <3>1, <3>3
      <3> QED BY <3>2, <3>3
    <2>7. ASSUME NEW p \in Procs, Insert(p) \/ NestedInsert(p)
          PROVE  \E d \in Descs : tables' = Append(tables, Placeholder(GoType[d]))
      <3>1. CASE Insert(p)
        <4>1. msg[p] \in Descs
          BY <1>1, <3>1 DEF Insert, IInv, ControlInv, ControlOK
        <4> QED BY <3>1, <4>1 DEF Insert, StorePlaceholder
      <3>2. CASE NestedInsert(p)
        <4>1. NextNested(p) \in Descs
          <5>1. pc[p] = "compile" /\ ~ Visited(p)
            BY <3>2 DEF NestedInsert
          <5>2. Len(frames[p]) > 0
            <6>1. StackInv
              BY <1>1 DEF IInv
            <6> QED BY <5>1, <6>1 DEF StackInv, Compiling
          <5> QED BY <1>1, <5>1, <5>2, NextNestedType
        <4> QED BY <3>2, <4>1 DEF NestedInsert, StorePlaceholder
      <3> QED BY <2>7, <3>1, <3>2
    <2>8. ASSUME NEW p \in Procs,
                 \/ LookupHit(p) \/ LookupMiss(p) \/ RecheckHit(p) \/ NestedHit(p)
                 \/ RecordField(p) \/ AwaitReady(p) \/ Walk(p)
                 \/ \E d \in Descs : Call(p, d)
          PROVE  UNCHANGED tables
      BY <2>8 DEF LookupHit, LookupMiss, RecheckHit, NestedHit, RecordField,
                  AwaitReady, Walk, Descend, Reenter, Return, Call
    <2> QED BY <1>1, <2>3, <2>4, <2>5, <2>6, <2>7, <2>8 DEF Next, Step, vars
  <1> QED BY <1>1, IInvHolds, PTL DEF Spec, PublishedIsFinal
-----------------------------------------------------------------------------
(* The cache and its registry *)

\* No two descriptors share a Go struct type.  Generated messages are like that;
\* messages of dynamicpb are not.
OneTypeEach == \A d, e \in Descs : GoType[d] = GoType[e] => d = e

\* The fields fs, in the heap ts, are the first nested messages of descriptor d.
FieldsFollow(ts, fs, d) ==
  \A k \in 1 .. Len(fs) :
    fs[k].fd = Nested[d][k] /\ ts[fs[k].table].type = GoType[Nested[d][k]]

\* The table of the k-th frame of p is the one of the frame's descriptor, and
\* the next frame compiles the field this one has come to.
FrameAgrees(p, k) ==
  /\ tables[frames[p][k].table].type = GoType[frames[p][k].desc]
  /\ FieldsFollow(tables, frames[p][k].fields, frames[p][k].desc)
  /\ k > 1 => frames[p][k].desc =
       Nested[frames[p][k - 1].desc][Len(frames[p][k - 1].fields) + 1]
  /\ k = 1 => frames[p][k].desc = msg[p]

FramesInv == \A p \in Procs : \A k \in 1 .. Len(frames[p]) : FrameAgrees(p, k)

\* Table i is the whole compiled form of its descriptor.
Whole(i) ==
  /\ tables[i].type = GoType[tables[i].desc]
  /\ Len(tables[i].fields) = Len(Nested[tables[i].desc])
  /\ FieldsFollow(tables, tables[i].fields, tables[i].desc)
  /\ tables[i].useProtojson = (tables[i].desc \in Fallback)

WholeInv == \A i \in 1 .. Len(tables) : tables[i].done => Whole(i)

\* What goroutine p has copied, and whose table it holds.
CopyOK(p) ==
  /\ pc[p] \in {"flags", "storeDone"} =>
       Visited(p) /\ tables[Top(p).table].fields = Top(p).fields
  /\ pc[p] = "storeDone" => 
       /\ tables[Top(p).table].desc = Top(p).desc
       /\ tables[Top(p).table].useProtojson = (Top(p).desc \in Fallback)

HeldOK(p) ==
  /\ pc[p] \in {"wait", "use"} => tables[held[p]].type = GoType[msg[p]]
  /\ pc[p] = "ready" => tables[held[p]].type = GoType[NextNested(p)]

CopyInv == \A p \in Procs : CopyOK(p)
HeldInv == \A p \in Procs : HeldOK(p)

AgreeInv == FramesInv /\ WholeInv /\ CopyInv /\ HeldInv
-----------------------------------------------------------------------------
\* Nothing about fields changes in a heap whose tables keep their types.
LEMMA FollowKept ==
  ASSUME NEW ts, NEW us, NEW fs, NEW d, FieldsOK(ts, fs), FieldsFollow(ts, fs, d),
         \A i \in 1 .. Len(ts) : us[i].type = ts[i].type
  PROVE  FieldsFollow(us, fs, d)
  BY DEF FieldsOK, FieldsFollow

\* A goroutine that publishes is alone in doing so.
LEMMA SolePublisher ==
  ASSUME IInv, NEW p \in Procs, mutex \in {None, p}, NEW q \in Procs \ {p}
  PROVE  pc[q] \notin Publishing
  BY ConstantsAssumption DEF IInv, ControlInv, ControlOK

\* Where the compile stack of a goroutine stands.
LEMMA StackTypes ==
  ASSUME IInv, NEW p \in Procs
  PROVE  /\ frames[p] \in Seq(Frame) /\ Len(frames[p]) \in Nat
         /\ pc[p] \in Compiling <=> Len(frames[p]) > 0
         /\ \A k \in 1 .. Len(frames[p]) :
              /\ frames[p][k] \in Frame
              /\ frames[p][k].table \in 1 .. Len(tables)
              /\ FieldsOK(tables, frames[p][k].fields)
  <1>1. frames[p] \in Seq(Frame) /\ Len(frames[p]) \in Nat
    BY DEF IInv, TypeOK
  <1>2. \A k \in 1 .. Len(frames[p]) : frames[p][k].table \in 1 .. Len(tables)
    BY DEF IInv, StackInv, FrameOK
  <1> QED BY <1>1, <1>2 DEF IInv, StackInv, FieldsInv
-----------------------------------------------------------------------------
(* Steps that touch neither a table nor a compile stack. *)

LEMMA QuietAgrees ==
  ASSUME IInv, AgreeInv, NEW p \in Procs, OnlyLocal(p),
         UNCHANGED <<tables, frames>>,
         pc[p] \in Compiling => msg'[p] = msg[p],
         pc'[p] \notin {"flags", "storeDone"},
         HeldOK(p)'
  PROVE  AgreeInv'
  <1>1. ASSUME NEW q \in Procs, Len(frames[q]) > 0
        PROVE  msg'[q] = msg[q]
    <2>1. pc[q] \in Compiling
      <3>1. pc[q] \in Compiling <=> Len(frames[q]) > 0
        BY StackTypes, Zenon
      <3> QED BY <1>1, <3>1, Zenon
    <2> QED BY <2>1 DEF OnlyLocal
  <1>2. FramesInv'
    <2> SUFFICES ASSUME NEW q \in Procs, NEW k \in 1 .. Len(frames[q])
                 PROVE  FrameAgrees(q, k)'
      BY DEF FramesInv
    <2>1. FrameAgrees(q, k) /\ Len(frames[q]) > 0
      BY StackTypes DEF AgreeInv, FramesInv
    <2> QED BY <2>1, <1>1 DEF FrameAgrees, FieldsFollow
  <1>3. WholeInv'
    <2>1. WholeInv
      BY DEF AgreeInv
    <2> QED BY <2>1 DEF WholeInv, Whole, FieldsFollow
  <1>4. CopyInv'
    <2> SUFFICES ASSUME NEW q \in Procs PROVE CopyOK(q)'
      BY DEF CopyInv
    <2>1. CASE q = p
      BY <2>1 DEF CopyOK
    <2>2. CASE q # p
      BY <2>2 DEF AgreeInv, CopyInv, CopyOK, OnlyLocal, Visited, Top
    <2> QED BY <2>1, <2>2
  <1>5. HeldInv'
    <2> SUFFICES ASSUME NEW q \in Procs PROVE HeldOK(q)'
      BY DEF HeldInv
    <2>1. CASE q # p
      BY <2>1 DEF AgreeInv, HeldInv, HeldOK, OnlyLocal, NextNested, Top
    <2>2. CASE q = p
      BY <2>2
    <2> QED BY <2>1, <2>2
  <1> QED BY <1>2, <1>3, <1>4, <1>5 DEF AgreeInv

LEMMA QuietActionsAgree ==
  ASSUME IInv, AgreeInv, NEW p \in Procs, Quiet(p)
  PROVE  AgreeInv'
  <1> USE DEF Goto, Hold, local, OnlyLocal
  <1>1. /\ pc \in [Procs -> Label] /\ held \in [Procs -> 0 .. Len(tables)]
        /\ msg \in [Procs -> Descs \cup {None}]
        /\ cache \in [Types -> 0 .. Len(tables)]
        /\ pc[p] # "idle" => msg[p] \in Descs /\ GoType[msg[p]] \in Types
    BY ConstantsAssumption DEF IInv, TypeOK, ControlInv, ControlOK
  <1>2. ASSUME NEW d \in Descs, Call(p, d) \/ Reenter(p, d)
        PROVE  AgreeInv'
    <2>1. pc'[p] = "lookup"
      BY <1>2, <1>1 DEF Call, Reenter
    <2>2. HeldOK(p)'
      BY <2>1 DEF HeldOK
    <2>3. /\ UNCHANGED <<tables, frames>> /\ OnlyLocal(p)
          /\ pc[p] \notin Compiling
      BY <1>2, <1>1 DEF Call, Reenter, Compiling, Publishing
    <2> QED BY <2>1, <2>2, <2>3, QuietAgrees
  <1>3. CASE LookupHit(p) \/ RecheckHit(p)
    <2>1. /\ pc'[p] = "wait" /\ held'[p] = cache[GoType[msg[p]]] /\ msg' = msg
          /\ UNCHANGED <<tables, frames>> /\ OnlyLocal(p)
          /\ cache[GoType[msg[p]]] # 0 /\ GoType[msg[p]] \in Types
      BY <1>3, <1>1 DEF LookupHit, RecheckHit
    <2>2. HeldOK(p)'
      BY <2>1 DEF HeldOK, IInv, CacheInv
    <2> QED BY <2>1, <2>2, QuietAgrees
  <1>4. CASE LookupMiss(p) \/ Return(p)
    <2>1. /\ pc'[p] \in {"insert", "idle"}
          /\ UNCHANGED <<tables, frames>> /\ OnlyLocal(p)
          /\ pc[p] \notin Compiling
      BY <1>4, <1>1 DEF LookupMiss, Return, Compiling, Publishing
    <2>2. HeldOK(p)'
      BY <2>1 DEF HeldOK
    <2> QED BY <2>1, <2>2, QuietAgrees
  <1>5. CASE NestedHit(p)
    <2>1. GoType[NextNested(p)] \in Types
      BY <1>5, NextNestedType DEF NestedHit, IInv, StackInv, Compiling
    <2>2. /\ pc'[p] = "ready" /\ held'[p] = cache[GoType[NextNested(p)]]
          /\ UNCHANGED <<tables, frames, msg>> /\ OnlyLocal(p)
          /\ cache[GoType[NextNested(p)]] # 0
      BY <1>5, <1>1 DEF NestedHit
    <2>3. tables[held'[p]].type = GoType[NextNested(p)]
      <3> DEFINE ty == GoType[NextNested(p)]
      <3>1. CacheInv /\ ty \in Types /\ cache[ty] # 0 /\ held'[p] = cache[ty]
        BY <2>1, <2>2 DEF IInv
      <3> HIDE DEF ty
      <3>2. tables[held'[p]].type = ty
        BY <3>1 DEF CacheInv
      <3> QED BY <3>2 DEF ty
    <2>4. HeldOK(p)'
      <3> DEFINE ty == GoType[NextNested(p)]
                 h == held'[p]
      <3>1. NextNested(p)' = NextNested(p)
        BY <2>2 DEF NextNested, Top
      <3>2. tables' = tables /\ pc'[p] = "ready"
        BY <2>2
      <3>3. tables[h].type = ty
        BY <2>3
      <3>4. ty' = ty
        BY <3>1
      <3>5. tables'[h].type = ty'
        BY <3>2, <3>3, <3>4, Zenon
      <3> HIDE DEF ty
      <3> QED BY <3>2, <3>5 DEF HeldOK, ty
    <2> QED BY <2>2, <2>4, QuietAgrees
  <1>6. CASE AwaitReady(p)
    <2>1. /\ pc[p] = "wait" /\ pc'[p] = "use"
          /\ UNCHANGED <<tables, frames, msg, held>> /\ OnlyLocal(p)
      BY <1>6, <1>1 DEF AwaitReady
    <2>2. HeldOK(p)'
      BY <2>1 DEF HeldOK, AgreeInv, HeldInv
    <2> QED BY <2>1, <2>2, QuietAgrees
  <1>7. ASSUME NEW i \in DOMAIN tables[held[p]].fields, Descend(p, i)
        PROVE  AgreeInv'
    <2> DEFINE t == tables[held[p]]
               f == t.fields[i]
    <2>1. held[p] \in 1 .. Len(tables) /\ t \in Table /\ t.done
      BY <1>7, <1>1 DEF Descend, IInv, TypeOK, ControlInv, ControlOK
    <2>2. t.fields \in Seq(Field) /\ i \in 1 .. Len(t.fields)
      BY <2>1 DEF Table
    <2>3. Whole(held[p])
      BY <2>1 DEF AgreeInv, WholeInv
    <2>4. tables[f.table].type = GoType[f.fd]
      BY <2>2, <2>3 DEF Whole, FieldsFollow
    <2>5. /\ held' = [held EXCEPT ![p] = f.table]
          /\ pc' = [pc EXCEPT ![p] = IF f.needsWait THEN "wait" ELSE "use"]
          /\ msg' = [msg EXCEPT ![p] = f.fd]
          /\ UNCHANGED <<tables, frames>>
          /\ pc[p] = "use"
      BY <1>7 DEF Descend
    <2> HIDE DEF f, t
    <2>6. /\ held'[p] = f.table /\ msg'[p] = f.fd /\ OnlyLocal(p)
          /\ pc'[p] \in {"wait", "use"} /\ pc[p] \notin Compiling
      BY <2>5, <1>1 DEF Compiling, Publishing
    <2>7. HeldOK(p)'
      BY <2>4, <2>5, <2>6 DEF HeldOK
    <2> QED BY <2>5, <2>6, <2>7, QuietAgrees
  <1> QED BY <1>2, <1>3, <1>4, <1>5, <1>6, <1>7 DEF Quiet
-----------------------------------------------------------------------------
(* Storing a placeholder. *)

LEMMA StoreAgrees ==
  ASSUME IInv, AgreeInv, NEW p \in Procs, NEW d \in Descs,
         StorePlaceholder(p, d), UNCHANGED <<mutex, held, local>>,
         \/ pc[p] = "insert" /\ d = msg[p]
         \/ pc[p] = "compile" /\ d = NextNested(p)
  PROVE  AgreeInv'
  <1> DEFINE n == Len(tables) + 1
             m == Len(frames[p])
             frame == [table |-> n, desc |-> d, fields |-> <<>>]
  <1>1. /\ tables \in Seq(Table) /\ Len(tables) \in Nat
        /\ frames \in [Procs -> Seq(Frame)] /\ frames[p] \in Seq(Frame) /\ m \in Nat
        /\ pc \in [Procs -> Label]
        /\ GoType[d] \in Types
    BY ConstantsAssumption DEF IInv, TypeOK
  <1>2. /\ Placeholder(GoType[d]) \in Table
        /\ frame \in Frame
    BY <1>1 DEF Placeholder, Table, Frame
  <1>3. /\ \A i \in 1 .. Len(tables) : tables'[i] = tables[i]
        /\ tables'[n] = Placeholder(GoType[d])
        /\ Len(tables') = n
    BY <1>1, <1>2 DEF StorePlaceholder
  <1>4. /\ \A q \in Procs \ {p} : frames'[q] = frames[q]
        /\ Len(frames'[p]) = m + 1
        /\ \A k \in 1 .. m : frames'[p][k] = frames[p][k]
        /\ frames'[p][m + 1] = frame
    BY <1>1, <1>2 DEF StorePlaceholder
  <1>5. /\ pc'[p] = "compile" /\ \A q \in Procs \ {p} : pc'[q] = pc[q]
        /\ UNCHANGED <<held, msg>>
    BY <1>1 DEF StorePlaceholder, Goto, local
  <1>6. frame.table = n /\ frame.desc = d /\ frame.fields = <<>>
    OBVIOUS
  <1>7. tables'[n].type = GoType[d] /\ ~ tables'[n].done
    BY <1>3 DEF Placeholder
  <1>8. m > 0 <=> pc[p] = "compile"
    BY StackTypes DEF Compiling, Publishing
  <1> HIDE DEF n, frame
  <1>9. \A i \in 1 .. Len(tables) : tables'[i].type = tables[i].type
    BY <1>3
  <1>10. FramesInv'
    <2> SUFFICES ASSUME NEW q \in Procs, NEW k \in 1 .. Len(frames'[q])
                 PROVE  FrameAgrees(q, k)'
      BY DEF FramesInv
    <2>1. CASE q = p /\ k = m + 1
      <3>1. frames'[q][k].desc = d /\ FieldsFollow(tables', <<>>, d)
            /\ frames'[q][k].fields = <<>>
            /\ tables'[frames'[q][k].table].type = GoType[d]
        BY <2>1, <1>4, <1>6, <1>7, EmptySeq DEF FieldsFollow
      <3>2. k > 1 => d = Nested[frames'[q][k - 1].desc][Len(frames'[q][k - 1].fields) + 1]
        <4> SUFFICES ASSUME m > 0
                     PROVE  d = Nested[frames'[p][m].desc][Len(frames'[p][m].fields) + 1]
          BY <2>1, <1>1
        <4>1. frames'[p][m] = Top(p)
          BY <1>1, <1>4 DEF Top
        <4> QED BY <4>1, <1>8 DEF NextNested
      <3>3. k = 1 => d = msg'[q]
        BY <2>1, <1>1, <1>5, <1>8
      <3> QED BY <3>1, <3>2, <3>3 DEF FrameAgrees
    <2>2. CASE q # p \/ k # m + 1
      <3>1. /\ k \in 1 .. Len(frames[q]) /\ frames'[q][k] = frames[q][k]
            /\ k > 1 => frames'[q][k - 1] = frames[q][k - 1]
        <4>1. CASE q # p
          BY <4>1, <1>4
        <4>2. CASE q = p
          <5>1. k \in 1 .. m
            BY <2>2, <4>2, <1>1, <1>4
          <5> QED BY <4>2, <5>1, <1>1, <1>4
        <4> QED BY <4>1, <4>2
      <3>2. /\ FrameAgrees(q, k)
            /\ frames[q][k].table \in 1 .. Len(tables)
            /\ FieldsOK(tables, frames[q][k].fields)
        BY <3>1, StackTypes DEF AgreeInv, FramesInv
      <3>3. FieldsFollow(tables', frames[q][k].fields, frames[q][k].desc)
        BY <3>2, <1>9, FollowKept DEF FrameAgrees
      <3> QED BY <3>1, <3>2, <3>3, <1>5, <1>9 DEF FrameAgrees
    <2> QED BY <2>1, <2>2
  <1>11. WholeInv'
    <2> SUFFICES ASSUME NEW i \in 1 .. Len(tables'), tables'[i].done
                 PROVE  Whole(i)'
      BY DEF WholeInv
    <2>1. i \in 1 .. Len(tables) /\ tables'[i] = tables[i]
      <3>1. i # n
        BY <1>7
      <3> QED BY <3>1, <1>1, <1>3 DEF n
    <2>2. Whole(i)
      BY <2>1 DEF AgreeInv, WholeInv
    <2>3. FieldsFollow(tables', tables[i].fields, tables[i].desc)
      BY <2>1, <2>2, <1>9, FollowKept DEF Whole, IInv, FieldsInv
    <2> QED BY <2>1, <2>2, <2>3 DEF Whole
  <1>12. CopyInv'
    <2> SUFFICES ASSUME NEW q \in Procs PROVE CopyOK(q)'
      BY DEF CopyInv
    <2>1. CASE q = p
      BY <2>1, <1>5 DEF CopyOK
    <2>2. CASE q # p
      <3>1. pc[q] \in {"flags", "storeDone"} => Top(q).table \in 1 .. Len(tables)
        BY StackTypes, TopFacts DEF Compiling, Publishing
      <3>2. CopyOK(q)
        BY DEF AgreeInv, CopyInv
      <3>3. pc'[q] = pc[q] /\ frames'[q] = frames[q]
        BY <2>2, <1>4, <1>5
      <3>4. Top(q)' = Top(q) /\ Visited(q)' = Visited(q)
        BY <3>3 DEF Visited, Top
      <3> QED BY <3>1, <3>2, <3>3, <3>4, <1>3 DEF CopyOK
    <2> QED BY <2>1, <2>2
  <1>13. HeldInv'
    <2> SUFFICES ASSUME NEW q \in Procs PROVE HeldOK(q)'
      BY DEF HeldInv
    <2>1. CASE q = p
      BY <2>1, <1>5 DEF HeldOK
    <2>2. CASE q # p
      <3>1. held[q] \in 0 .. Len(tables)
            /\ (pc[q] \in {"ready", "wait", "use"} => held[q] # 0)
        BY DEF IInv, TypeOK, ControlInv, ControlOK
      <3>2. pc[q] \in {"ready", "wait", "use"} => held[q] \in 1 .. Len(tables)
        BY <3>1, <1>1
      <3>3. /\ pc'[q] = pc[q] /\ held'[q] = held[q] /\ msg'[q] = msg[q]
            /\ frames'[q] = frames[q]
        BY <2>2, <1>4, <1>5
      <3>4. pc[q] \in {"ready", "wait", "use"} =>
              tables'[held[q]].type = tables[held[q]].type
        BY <3>2, <1>9
      <3> QED BY <3>3, <3>4 DEF AgreeInv, HeldInv, HeldOK, NextNested, Top
    <2> QED BY <2>1, <2>2
  <1> QED BY <1>10, <1>11, <1>12, <1>13 DEF AgreeInv
-----------------------------------------------------------------------------
(* Adding a nested field to the running compileTable. *)

LEMMA RecordAgrees ==
  ASSUME IInv, AgreeInv, NEW p \in Procs, RecordField(p)
  PROVE  AgreeInv'
  <1> DEFINE m == Len(frames[p])
             field == [table |-> held[p], fd |-> NextNested(p),
                       needsWait |-> ~ ReadyNow(held[p])]
             frame == [Top(p) EXCEPT !.fields = Append(Top(p).fields, field)]
  <1>1. /\ pc[p] = "ready" /\ UNCHANGED <<tables, held, msg>>
        /\ pc'[p] = "compile" /\ \A q \in Procs \ {p} : pc'[q] = pc[q]
    BY DEF RecordField, Goto, local, IInv, TypeOK
  <1>2. m \in Nat /\ m > 0 /\ frames \in [Procs -> Seq(Frame)]
    BY <1>1, StackTypes DEF Compiling, IInv, TypeOK
  <1>3. /\ Top(p) \in Frame /\ Top(p).fields \in Seq(Field)
        /\ Top(p) = frames[p][m] /\ FrameAgrees(p, m)
    BY <1>2, TopFacts DEF Frame, AgreeInv, FramesInv
  <1>4. frames' = [frames EXCEPT ![p] = [@ EXCEPT ![m] = frame]]
    BY <1>2, <1>3 DEF RecordField
  <1>5. /\ field.fd = NextNested(p) /\ field.table = held[p]
        /\ tables[held[p]].type = GoType[NextNested(p)]
    BY <1>1 DEF AgreeInv, HeldInv, HeldOK
  <1> HIDE DEF field
  <1>6. /\ frame.table = Top(p).table /\ frame.desc = Top(p).desc
        /\ frame.fields = Append(Top(p).fields, field)
    BY <1>3 DEF Frame
  <1> HIDE DEF frame
  <1>7. /\ \A q \in Procs : Len(frames'[q]) = Len(frames[q])
        /\ \A q \in Procs : \A k \in 1 .. Len(frames[q]) :
             q # p \/ k # m => frames'[q][k] = frames[q][k]
        /\ frames'[p][m] = frame
    BY <1>2, <1>4
  <1>8. FieldsFollow(tables, frame.fields, frame.desc)
    <2> DEFINE n == Len(Top(p).fields)
               d == Top(p).desc
    <2>1. FieldsFollow(tables, Top(p).fields, d)
      BY <1>3 DEF FrameAgrees
    <2>2. /\ n \in Nat /\ Len(frame.fields) = n + 1
          /\ \A k \in 1 .. n : frame.fields[k] = Top(p).fields[k]
          /\ frame.fields[n + 1] = field
      <3>1. Top(p).fields \in Seq(Field)
        BY <1>3
      <3> QED BY <3>1, <1>6
    <2>3. field.fd = Nested[d][n + 1]
      BY <1>5 DEF NextNested
    <2> SUFFICES ASSUME NEW k \in 1 .. n + 1
                 PROVE  /\ frame.fields[k].fd = Nested[d][k]
                        /\ tables[frame.fields[k].table].type = GoType[Nested[d][k]]
      BY <2>2, <1>6 DEF FieldsFollow
    <2>4. CASE k = n + 1
      BY <2>2, <2>3, <2>4, <1>5
    <2>5. CASE k \in 1 .. n
      BY <2>1, <2>2, <2>5 DEF FieldsFollow
    <2> HIDE DEF n
    <2> QED BY <2>2, <2>4, <2>5
  <1>9. FramesInv'
    <2> SUFFICES ASSUME NEW q \in Procs, NEW k \in 1 .. Len(frames[q])
                 PROVE  FrameAgrees(q, k)'
      BY <1>7 DEF FramesInv
    <2>1. FrameAgrees(q, k) /\ Len(frames[q]) \in Nat
      BY StackTypes DEF AgreeInv, FramesInv
    <2>2. k > 1 => /\ k - 1 \in 1 .. Len(frames[q])
                   /\ q # p \/ k - 1 # m
      BY <2>1
    <2>3. k > 1 => frames'[q][k - 1] = frames[q][k - 1]
      BY <2>2, <1>7
    <2>4. CASE q = p /\ k = m
      <3>1. frames'[q][k] = frame /\ frames[q][k] = Top(p)
        BY <2>4, <1>3, <1>7
      <3> QED BY <2>1, <2>3, <3>1, <1>1, <1>6, <1>8 DEF FrameAgrees
    <2>5. CASE q # p \/ k # m
      BY <2>1, <2>3, <2>5, <1>1, <1>7 DEF FrameAgrees
    <2> QED BY <2>4, <2>5
  <1>10. WholeInv'
    BY <1>1 DEF AgreeInv, WholeInv, Whole
  <1>11. \A q \in Procs \ {p} : frames'[q] = frames[q]
    BY <1>4
  <1>12. CopyInv'
    <2> SUFFICES ASSUME NEW q \in Procs PROVE CopyOK(q)'
      BY DEF CopyInv
    <2>1. CASE q = p
      BY <2>1, <1>1 DEF CopyOK
    <2>2. CASE q # p
      BY <2>2, <1>1, <1>11 DEF AgreeInv, CopyInv, CopyOK, Visited, Top
    <2> QED BY <2>1, <2>2
  <1>13. HeldInv'
    BY <1>1, <1>11 DEF AgreeInv, HeldInv, HeldOK, NextNested, Top
  <1> QED BY <1>9, <1>10, <1>12, <1>13 DEF AgreeInv
-----------------------------------------------------------------------------
(* The publishing section. *)

\* Goroutine p replaces the table j of its running compileTable by t, which is
\* whole if it is done, and goes to a point inside the publishing section.
LEMMA PublishAgrees ==
  ASSUME IInv, AgreeInv, NEW p \in Procs, NEW j, NEW t \in Table,
         NEW to \in Publishing,
         pc[p] \in Compiling, mutex \in {None, p}, j = Top(p).table,
         tables' = [tables EXCEPT ![j] = t],
         pc' = [pc EXCEPT ![p] = to],
         UNCHANGED <<held, frames, msg>>,
         t.type = tables[j].type,
         t.done => Whole(j)',
         CopyOK(p)'
  PROVE  AgreeInv'
  <1>1. j \in 1 .. Len(tables)
    BY StackTypes, TopFacts
  <1>2. /\ Len(tables') = Len(tables) /\ tables'[j] = t
        /\ \A i \in 1 .. Len(tables) : i # j => tables'[i] = tables[i]
        /\ \A i \in 1 .. Len(tables) : tables'[i].type = tables[i].type
    BY <1>1 DEF IInv, TypeOK
  <1>3. /\ pc'[p] = to /\ \A q \in Procs \ {p} : pc'[q] = pc[q]
        /\ \A q \in Procs \ {p} : pc[q] \notin Publishing
    <2>1. pc \in [Procs -> Label]
      BY DEF IInv, TypeOK
    <2>2. pc'[p] = to /\ \A q \in Procs \ {p} : pc'[q] = pc[q]
      BY <2>1
    <2>3. \A q \in Procs \ {p} : pc[q] \notin Publishing
      BY SolePublisher, Zenon
    <2> QED BY <2>2, <2>3
  <1>4. FramesInv'
    <2> SUFFICES ASSUME NEW q \in Procs, NEW k \in 1 .. Len(frames[q])
                 PROVE  FrameAgrees(q, k)'
      BY DEF FramesInv
    <2>1. /\ FrameAgrees(q, k) /\ frames[q][k].table \in 1 .. Len(tables)
          /\ FieldsOK(tables, frames[q][k].fields)
      BY StackTypes DEF AgreeInv, FramesInv
    <2>2. FieldsFollow(tables, frames[q][k].fields, frames[q][k].desc)
      BY <2>1 DEF FrameAgrees
    <2>3. FieldsFollow(tables', frames[q][k].fields, frames[q][k].desc)
      <3> DEFINE fs == frames[q][k].fields
                 fd == frames[q][k].desc
      <3>1. \A i \in 1 .. Len(tables) : tables'[i].type = tables[i].type
        BY <1>2
      <3>2. FieldsOK(tables, fs) /\ FieldsFollow(tables, fs, fd)
        BY <2>1, <2>2
      <3> HIDE DEF fs, fd
      <3>3. FieldsFollow(tables', fs, fd)
        BY <3>1, <3>2, FollowKept
      <3> QED BY <3>3 DEF fs, fd
    <2> QED BY <2>1, <2>3, <1>2 DEF FrameAgrees
  <1>5. WholeInv'
    <2> SUFFICES ASSUME NEW i \in 1 .. Len(tables), tables'[i].done
                 PROVE  Whole(i)'
      BY <1>2 DEF WholeInv
    <2>1. CASE i = j
      BY <2>1, <1>2
    <2>2. CASE i # j
      <3>1. tables'[i] = tables[i] /\ Whole(i)
        BY <2>2, <1>2 DEF AgreeInv, WholeInv
      <3>2. FieldsFollow(tables', tables[i].fields, tables[i].desc)
        <4> DEFINE fs == tables[i].fields
                   td == tables[i].desc
        <4>1. FieldsOK(tables, fs) /\ FieldsFollow(tables, fs, td)
          BY <3>1 DEF Whole, IInv, FieldsInv
        <4>2. \A l \in 1 .. Len(tables) : tables'[l].type = tables[l].type
          BY <1>2
        <4> HIDE DEF fs, td
        <4>3. FieldsFollow(tables', fs, td)
          BY <4>1, <4>2, FollowKept
        <4> QED BY <4>3 DEF fs, td
      <3> QED BY <3>1, <3>2 DEF Whole
    <2> QED BY <2>1, <2>2
  <1>6. CopyInv'
    <2> SUFFICES ASSUME NEW q \in Procs PROVE CopyOK(q)'
      BY DEF CopyInv
    <2>1. CASE q # p
      BY <2>1, <1>3 DEF CopyOK, Publishing
    <2> QED BY <2>1
  <1>7. HeldInv'
    <2> SUFFICES ASSUME NEW q \in Procs PROVE HeldOK(q)'
      BY DEF HeldInv
    <2>1. CASE q = p
      <3>1. to # "ready" /\ to # "wait" /\ to # "use" /\ pc'[q] = to
        <4>1. to # "ready" /\ to # "wait" /\ to # "use"
          BY DEF Publishing
        <4> QED BY <2>1, <1>3, <4>1
      <3> QED BY <3>1 DEF HeldOK
    <2>2. CASE q # p
      <3>1. held[q] \in 0 .. Len(tables) /\ Len(tables) \in Nat
            /\ (pc[q] \in {"ready", "wait", "use"} => held[q] # 0)
        BY DEF IInv, TypeOK, ControlInv, ControlOK
      <3>2. pc[q] \in {"ready", "wait", "use"} => held[q] \in 1 .. Len(tables)
        BY <3>1
      <3> QED BY <2>2, <3>2, <1>2, <1>3 DEF AgreeInv, HeldInv, HeldOK, NextNested, Top
    <2> QED BY <2>1, <2>2
  <1> QED BY <1>4, <1>5, <1>6, <1>7 DEF AgreeInv

LEMMA PublishActionsAgree ==
  ASSUME IInv, AgreeInv, NEW p \in Procs,
         CopyFields(p) \/ CopyFlags(p) \/ StoreDone(p)
  PROVE  AgreeInv'
  <1> DEFINE j == Top(p).table
             m == Len(frames[p])
  <1>1. /\ pc[p] \in Compiling /\ m > 0 /\ mutex \in {None, p}
        /\ UNCHANGED <<held, frames, msg>>
        /\ pc \in [Procs -> Label] /\ tables \in Seq(Table)
    BY StackTypes DEF CopyFields, CopyFlags, StoreDone, local, IInv, TypeOK,
         ControlInv, ControlOK, Compiling, Publishing
  <1>2. /\ j \in 1 .. Len(tables) /\ tables[j] \in Table /\ Top(p) \in Frame
        /\ Top(p) = frames[p][m] /\ FrameAgrees(p, m)
        /\ FieldsOK(tables, Top(p).fields)
    BY <1>1, TopFacts, StackTypes DEF AgreeInv, FramesInv
  <1>3. ~ tables[j].done
    BY <1>1, TopFacts DEF FrameOK, CopyFields, CopyFlags, StoreDone
  <1>4. CASE CopyFields(p)
    <2> DEFINE t == [tables[j] EXCEPT !.fields = Top(p).fields]
    <2>1. /\ t \in Table /\ t.fields = Top(p).fields
          /\ ~ t.done /\ t.type = tables[j].type
      BY <1>2, <1>3 DEF Table, Frame
    <2>2. /\ tables' = [tables EXCEPT ![j] = t] /\ Visited(p)
          /\ pc' = [pc EXCEPT ![p] = "flags"]
      BY <1>4 DEF CopyFields, Goto
    <2> HIDE DEF t
    <2>3. tables'[j] = t
      BY <2>2, <1>1, <1>2
    <2> HIDE DEF j
    <2>4. CopyOK(p)'
      BY <1>1, <2>1, <2>2, <2>3 DEF CopyOK, Visited, Top, j
    <2> QED BY <1>1, <2>1, <2>2, <2>4, PublishAgrees DEF Publishing, j
  <1>5. CASE CopyFlags(p)
    <2> DEFINE given == (Top(p).desc \in Fallback)
               t == [tables[j] EXCEPT !.desc = Top(p).desc, !.useProtojson = given]
    <2>1. given \in BOOLEAN
      OBVIOUS
    <2> HIDE DEF given
    <2>2. /\ t \in Table /\ t.fields = tables[j].fields
          /\ ~ t.done /\ t.type = tables[j].type
          /\ t.desc = Top(p).desc /\ t.useProtojson = given
      BY <1>2, <1>3, <2>1 DEF Table, Frame
    <2>3. /\ tables' = [tables EXCEPT ![j] = t]
          /\ pc[p] = "flags" /\ pc' = [pc EXCEPT ![p] = "storeDone"]
      BY <1>2, <1>5 DEF CopyFlags, Goto, given
    <2> HIDE DEF t
    <2>4. tables'[j] = t
      BY <2>3, <1>1, <1>2
    <2>5. Visited(p) /\ tables[j].fields = Top(p).fields
      BY <2>3 DEF AgreeInv, CopyInv, CopyOK
    <2>6. pc'[p] = "storeDone"
      BY <1>1, <2>3
    <2> HIDE DEF j
    <2>7. CopyOK(p)'
      BY <1>1, <2>2, <2>4, <2>5, <2>6 DEF CopyOK, Visited, Top, j, given
    <2> QED BY <1>1, <2>2, <2>3, <2>7, PublishAgrees DEF Publishing, j
  <1>6. CASE StoreDone(p)
    <2> DEFINE t == [tables[j] EXCEPT !.done = TRUE]
    <2>1. /\ t \in Table /\ t.fields = tables[j].fields /\ t.type = tables[j].type
          /\ t.desc = tables[j].desc /\ t.useProtojson = tables[j].useProtojson
      BY <1>2 DEF Table, Frame
    <2>2. /\ tables' = [tables EXCEPT ![j] = t]
          /\ pc[p] = "storeDone" /\ pc' = [pc EXCEPT ![p] = "close"]
      BY <1>6 DEF StoreDone, Goto
    <2> HIDE DEF t
    <2>3. /\ tables'[j] = t
          /\ \A i \in 1 .. Len(tables) : tables'[i].type = tables[i].type
      BY <2>1, <2>2, <1>1, <1>2
    <2>4. /\ Len(Top(p).fields) = Len(Nested[Top(p).desc])
          /\ tables[j].fields = Top(p).fields /\ tables[j].desc = Top(p).desc
          /\ tables[j].useProtojson = (Top(p).desc \in Fallback)
      BY <2>2 DEF AgreeInv, CopyInv, CopyOK, Visited
    <2>5. CopyOK(p)'
      BY <1>1, <2>2 DEF CopyOK
    <2>6. FieldsFollow(tables', Top(p).fields, Top(p).desc)
      BY <1>2, <2>3, FollowKept DEF FrameAgrees
    <2>7. tables[j].type = GoType[Top(p).desc]
      BY <1>2 DEF FrameAgrees
    <2>8. PICK i : i = j
      OBVIOUS
    <2> HIDE DEF j
    <2>9. /\ tables'[i].type = GoType[tables'[i].desc]
          /\ Len(tables'[i].fields) = Len(Nested[tables'[i].desc])
          /\ FieldsFollow(tables', tables'[i].fields, tables'[i].desc)
          /\ tables'[i].useProtojson = (tables'[i].desc \in Fallback)
      BY <2>1, <2>3, <2>4, <2>6, <2>7, <2>8
    <2>10. Whole(i)'
      BY <2>9 DEF Whole
    <2> QED BY <1>1, <2>1, <2>2, <2>5, <2>8, <2>10, PublishAgrees DEF Publishing, j
  <1> QED BY <1>4, <1>5, <1>6

LEMMA CloseAgrees ==
  ASSUME IInv, AgreeInv, NEW p \in Procs, CloseReady(p)
  PROVE  AgreeInv'
  <1> DEFINE j == Top(p).table
             m == Len(frames[p])
             to == IF m = 1 THEN "use" ELSE "ready"
             t == [tables[j] EXCEPT !.closed = TRUE]
  <1>1. /\ pc[p] = "close" /\ mutex = p
        /\ pc' = [pc EXCEPT ![p] = to]
        /\ held' = [held EXCEPT ![p] = j]
        /\ frames' = [frames EXCEPT ![p] = Pop(@)]
        /\ msg' = msg
    BY DEF CloseReady, Goto, Hold, local, IInv, ControlInv, ControlOK, Publishing
  <1>2. /\ m > 0 /\ m \in Nat /\ frames[p] \in Seq(Frame)
        /\ j \in 1 .. Len(tables) /\ tables[j] \in Table
        /\ j = frames[p][m].table /\ FrameAgrees(p, m)
    BY <1>1, StackTypes, TopFacts DEF Compiling, Publishing, AgreeInv, FramesInv
  <1>3. /\ \A i \in 1 .. Len(tables) : /\ tables'[i].type = tables[i].type
                                       /\ tables'[i].done = tables[i].done
                                       /\ tables'[i].desc = tables[i].desc
                                       /\ tables'[i].fields = tables[i].fields
                                       /\ tables'[i].useProtojson = tables[i].useProtojson
        /\ Len(tables') = Len(tables)
    <2>1. /\ t.type = tables[j].type /\ t.done = tables[j].done
          /\ t.desc = tables[j].desc /\ t.fields = tables[j].fields
          /\ t.useProtojson = tables[j].useProtojson
      BY <1>2 DEF Table
    <2>2. tables' = [tables EXCEPT ![j] = t]
      BY DEF CloseReady
    <2> HIDE DEF t, j
    <2> QED BY <2>1, <2>2, <1>2 DEF IInv, TypeOK
  <1>4. /\ Len(frames'[p]) = m - 1
        /\ \A k \in 1 .. m - 1 : frames'[p][k] = frames[p][k]
        /\ \A q \in Procs \ {p} : frames'[q] = frames[q]
    BY <1>1, <1>2, PopFacts DEF IInv, TypeOK
  <1>5. /\ pc'[p] = to /\ held'[p] = j
        /\ \A q \in Procs \ {p} : /\ pc'[q] = pc[q] /\ held'[q] = held[q]
                                  /\ pc[q] \notin Publishing
    <2>1. pc \in [Procs -> Label] /\ held \in [Procs -> 0 .. Len(tables)]
      BY DEF IInv, TypeOK
    <2>2. /\ pc'[p] = to /\ held'[p] = j
          /\ \A q \in Procs \ {p} : pc'[q] = pc[q] /\ held'[q] = held[q]
      BY <1>1, <2>1
    <2>3. \A q \in Procs \ {p} : pc[q] \notin Publishing
      BY <1>1, SolePublisher, Zenon
    <2> QED BY <2>2, <2>3
  <1> HIDE DEF j, t
  <1>6. FramesInv'
    <2> SUFFICES ASSUME NEW q \in Procs, NEW k \in 1 .. Len(frames'[q])
                 PROVE  FrameAgrees(q, k)'
      BY DEF FramesInv
    <2>1. /\ k \in 1 .. Len(frames[q]) /\ frames'[q][k] = frames[q][k]
          /\ k > 1 => frames'[q][k - 1] = frames[q][k - 1]
      <3>1. CASE q # p
        BY <3>1, <1>4
      <3>2. CASE q = p
        <4>1. k \in 1 .. m - 1 /\ (k > 1 => k - 1 \in 1 .. m - 1)
          BY <3>2, <1>2, <1>4
        <4> QED BY <3>2, <4>1, <1>2, <1>4
      <3> QED BY <3>1, <3>2
    <2>2. /\ FrameAgrees(q, k) /\ frames[q][k].table \in 1 .. Len(tables)
          /\ FieldsOK(tables, frames[q][k].fields)
      BY <2>1, StackTypes DEF AgreeInv, FramesInv
    <2>3. \A i \in 1 .. Len(tables) : tables'[i].type = tables[i].type
      BY <1>3
    <2>4. FieldsFollow(tables', frames[q][k].fields, frames[q][k].desc)
      BY <2>2, <2>3, FollowKept DEF FrameAgrees
    <2> QED BY <2>1, <2>2, <2>3, <2>4, <1>1 DEF FrameAgrees
  <1>7. WholeInv'
    <2> SUFFICES ASSUME NEW i \in 1 .. Len(tables), tables'[i].done
                 PROVE  Whole(i)'
      BY <1>3 DEF WholeInv
    <2>1. Whole(i)
      BY <1>3 DEF AgreeInv, WholeInv
    <2>2. FieldsFollow(tables', tables[i].fields, tables[i].desc)
      BY <2>1, <1>3, FollowKept DEF Whole, IInv, FieldsInv
    <2> QED BY <2>1, <2>2, <1>3 DEF Whole
  <1>8. CopyInv'
    <2> SUFFICES ASSUME NEW q \in Procs PROVE CopyOK(q)'
      BY DEF CopyInv
    <2> QED BY <1>5 DEF CopyOK, Publishing
  <1>9. HeldInv'
    <2> SUFFICES ASSUME NEW q \in Procs PROVE HeldOK(q)'
      BY DEF HeldInv
    <2>1. CASE q = p
      <3>1. tables'[j].type = GoType[frames[p][m].desc]
        BY <1>2, <1>3 DEF FrameAgrees
      <3>2. CASE m = 1
        <4>1. frames[p][m].desc = msg'[p] /\ pc'[p] = "use" /\ held'[p] = j
          BY <3>2, <1>1, <1>2, <1>5 DEF FrameAgrees
        <4> QED BY <2>1, <3>1, <4>1 DEF HeldOK
      <3>3. CASE m # 1
        <4> HIDE DEF m
        <4>0. m > 1 /\ m - 1 \in 1 .. m - 1
          BY <3>3, <1>2
        <4>1. frames[p][m].desc =
                Nested[frames[p][m - 1].desc][Len(frames[p][m - 1].fields) + 1]
          BY <4>0, <1>2 DEF FrameAgrees
        <4>2. Top(p)' = frames[p][m - 1]
          BY <4>0, <1>4 DEF Top
        <4>3. NextNested(p)' = frames[p][m].desc
          BY <4>1, <4>2 DEF NextNested
        <4>4. pc'[p] = "ready" /\ held'[p] = j
          BY <3>3, <1>5
        <4> QED BY <2>1, <3>1, <4>3, <4>4 DEF HeldOK
      <3> QED BY <3>2, <3>3
    <2>2. CASE q # p
      <3>1. held[q] \in 0 .. Len(tables) /\ Len(tables) \in Nat
            /\ (pc[q] \in {"ready", "wait", "use"} => held[q] # 0)
        BY DEF IInv, TypeOK, ControlInv, ControlOK
      <3>2. pc[q] \in {"ready", "wait", "use"} => held[q] \in 1 .. Len(tables)
        BY <3>1
      <3>3. pc[q] \in {"ready", "wait", "use"} =>
              tables'[held[q]].type = tables[held[q]].type
        BY <3>2, <1>3
      <3> QED BY <2>2, <3>3, <1>1, <1>4, <1>5
           DEF AgreeInv, HeldInv, HeldOK, NextNested, Top
    <2> QED BY <2>1, <2>2
  <1> QED BY <1>6, <1>7, <1>8, <1>9 DEF AgreeInv
-----------------------------------------------------------------------------
(* The invariant and what follows from it. *)

LEMMA InitAgrees ==
  Init => AgreeInv
  <1> SUFFICES ASSUME Init PROVE AgreeInv
    OBVIOUS
  <1>1. /\ Len(tables) = 0
        /\ \A p \in Procs : Len(frames[p]) = 0 /\ pc[p] = "idle"
    BY EmptySeq DEF Init
  <1> QED BY <1>1 DEF AgreeInv, FramesInv, WholeInv, CopyInv, CopyOK, HeldInv, HeldOK

LEMMA NextAgrees ==
  IInv /\ AgreeInv /\ [Next]_vars => AgreeInv'
  <1> SUFFICES ASSUME IInv, AgreeInv, [Next]_vars PROVE AgreeInv'
    OBVIOUS
  <1>1. CASE UNCHANGED vars
    <2>1. UNCHANGED <<tables, frames, pc, held, msg>>
      BY <1>1 DEF vars
    <2>2. FramesInv'
      <3> SUFFICES ASSUME NEW q \in Procs, NEW k \in 1 .. Len(frames[q])
                   PROVE  FrameAgrees(q, k)'
        BY <2>1 DEF FramesInv
      <3>1. FrameAgrees(q, k)
        BY DEF AgreeInv, FramesInv
      <3> QED BY <2>1, <3>1 DEF FrameAgrees, FieldsFollow
    <2>3. WholeInv'
      <3> SUFFICES ASSUME NEW i \in 1 .. Len(tables), tables[i].done
                   PROVE  Whole(i)'
        BY <2>1 DEF WholeInv
      <3>1. Whole(i)
        BY DEF AgreeInv, WholeInv
      <3> QED BY <2>1, <3>1 DEF Whole, FieldsFollow
    <2>4. CopyInv'
      BY <2>1 DEF AgreeInv, CopyInv, CopyOK, Visited, Top
    <2>5. HeldInv'
      BY <2>1 DEF AgreeInv, HeldInv, HeldOK, NextNested, Top
    <2> QED BY <2>2, <2>3, <2>4, <2>5 DEF AgreeInv
  <1>2. ASSUME NEW p \in Procs, NEW d \in Descs, Call(p, d)
        PROVE  AgreeInv'
    BY <1>2, QuietActionsAgree DEF Quiet
  <1>3. ASSUME NEW p \in Procs, Step(p)
        PROVE  AgreeInv'
    <2>1. ASSUME Insert(p)
          PROVE  AgreeInv'
      <3>1. pc[p] = "insert" /\ msg[p] \in Descs
        BY <2>1 DEF Insert, IInv, ControlInv, ControlOK
      <3> QED BY <2>1, <3>1, StoreAgrees DEF Insert
    <2>2. ASSUME NestedInsert(p)
          PROVE  AgreeInv'
      <3>1. pc[p] = "compile" /\ ~ Visited(p)
        BY <2>2 DEF NestedInsert
      <3>2. NextNested(p) \in Descs
        BY <3>1, NextNestedType DEF IInv, StackInv, Compiling
      <3> QED BY <2>2, <3>1, <3>2, StoreAgrees DEF NestedInsert
    <2>3. ASSUME pc[p] = "use" /\ Walk(p)
          PROVE  AgreeInv'
      BY <2>3, QuietActionsAgree DEF Walk, Quiet
    <2>4. ASSUME \/ LookupHit(p) \/ LookupMiss(p) \/ RecheckHit(p)
                 \/ NestedHit(p) \/ AwaitReady(p)
          PROVE  AgreeInv'
      BY <2>4, QuietActionsAgree DEF Quiet
    <2> QED BY <1>3, <2>1, <2>2, <2>3, <2>4, RecordAgrees, PublishActionsAgree,
              CloseAgrees DEF Step
  <1> QED BY <1>1, <1>2, <1>3 DEF Next

LEMMA AgreeInvHolds ==
  Spec => [](IInv /\ AgreeInv)
  <1>1. Init => IInv /\ AgreeInv
    BY InitIInv, InitAgrees
  <1>2. IInv /\ AgreeInv /\ [Next]_vars => (IInv /\ AgreeInv)'
    BY NextIInv, NextAgrees
  <1> QED BY <1>1, <1>2, PTL DEF Spec

\* A goroutine that walks a table holds the one compiled from the descriptor of
\* its message, so a message of an unsupported shape reaches protojson, as long
\* as no two descriptors share a Go type.
THEOREM FallbackIsHonoured ==
  ASSUME OneTypeEach
  PROVE  Spec => []FallbackHonoured
  <1>1. IInv /\ AgreeInv => FallbackHonoured
    <2> SUFFICES ASSUME IInv, AgreeInv, NEW p \in Procs,
                        pc[p] = "use", msg[p] \in Fallback
                 PROVE  tables[held[p]].useProtojson
      BY DEF FallbackHonoured
    <2> DEFINE i == held[p]
    <2>1. held[p] \in 0 .. Len(tables) /\ held[p] # 0 /\ tables[held[p]].done
          /\ Len(tables) \in Nat
      BY DEF IInv, TypeOK, ControlInv, ControlOK
    <2>2. i \in 1 .. Len(tables) /\ tables[i] \in Table
      BY <2>1 DEF IInv, TypeOK
    <2>3. Whole(i) /\ tables[i].desc \in Descs
      BY <2>1, <2>2 DEF AgreeInv, WholeInv, IInv, DoneInv, Table
    <2>4. GoType[tables[i].desc] = GoType[msg[p]]
      BY <2>3 DEF Whole, AgreeInv, HeldInv, HeldOK
    <2>5. tables[i].desc = msg[p]
      BY <2>3, <2>4, ConstantsAssumption DEF OneTypeEach
    <2> QED BY <2>3, <2>5 DEF Whole
  <1> QED BY <1>1, AgreeInvHolds, PTL
-----------------------------------------------------------------------------
(* The refinement of TableRegistry. *)

Statuses == [t \in Types |-> StatusOf(t)]
Clients == [p \in Procs |-> ClientOf(p)]

\* A published table is the plan of its type.
LEMMA PublishedIsPlan ==
  ASSUME OneTypeEach, IInv, NEW i \in 1 .. Len(tables), Whole(i),
         tables[i].desc \in Descs
  PROVE  PlanOf(i) = Plan[tables[i].type]
  <1> DEFINE d == tables[i].desc
             fs == tables[i].fields
  <1>1. tables[i] \in Table /\ tables[i].type \in Types
    <2>1. tables[i] \in Table
      BY DEF IInv, TypeOK
    <2> QED BY <2>1 DEF Table
  <1>2. DescOf(tables[i].type) = d
    BY DEF DescOf, Whole, OneTypeEach
  <1>3. /\ fs \in Seq(Field) /\ Nested[d] \in Seq(Descs) /\ Len(fs) = Len(Nested[d])
        /\ \A k \in 1 .. Len(fs) : tables[fs[k].table].type = GoType[Nested[d][k]]
        /\ tables[i].useProtojson = (d \in Fallback)
    BY <1>1, ConstantsAssumption DEF Table, Whole, FieldsFollow
  <1>4. DOMAIN fs = 1 .. Len(fs) /\ DOMAIN Nested[d] = 1 .. Len(fs)
    BY <1>3
  <1> HIDE DEF d, fs
  <1>5. [k \in DOMAIN fs |-> tables[fs[k].table].type]
          = [k \in DOMAIN Nested[d] |-> GoType[Nested[d][k]]]
    BY <1>3, <1>4
  <1>6. Plan[tables[i].type] =
          [nested |-> [k \in DOMAIN Nested[d] |-> GoType[Nested[d][k]]],
           useProtojson |-> d \in Fallback]
    BY <1>1, <1>2 DEF Plan
  <1>7. PlanOf(i) = [nested |-> [k \in DOMAIN fs |-> tables[fs[k].table].type],
                     useProtojson |-> tables[i].useProtojson]
    BY DEF PlanOf, fs
  <1> QED BY <1>3, <1>5, <1>6, <1>7

\* A goroutine that holds a finished table of type t finds t ready.
LEMMA FinishedIsReady ==
  ASSUME OneTypeEach, IInv, AgreeInv, NEW i \in 1 .. Len(tables), tables[i].done
  PROVE  /\ tables[i].type \in Types
         /\ Statuses[tables[i].type] = Registry!Ready(tables[i].type)
         /\ PlanOf(i) = Plan[tables[i].type]
  <1>1. tables[i] \in Table /\ tables[i].type \in Types /\ i # 0
    <2>1. tables[i] \in Table /\ Len(tables) \in Nat
      BY DEF IInv, TypeOK
    <2> QED BY <2>1 DEF Table
  <1>2. Whole(i) /\ tables[i].desc \in Descs
    BY <1>1 DEF AgreeInv, WholeInv, IInv, DoneInv, Table
  <1>3. cache[tables[i].type] = i
    BY DEF IInv, CacheInv
  <1>4. PlanOf(i) = Plan[tables[i].type]
    BY <1>2, PublishedIsPlan
  <1>5. StatusOf(tables[i].type) = [status |-> "ready", plan |-> PlanOf(i)]
    BY <1>1, <1>3 DEF StatusOf
  <1> QED BY <1>1, <1>4, <1>5 DEF Registry!Ready, Statuses

\* The plan of a table is made of its fields and of the types of their tables.
LEMMA SamePlan ==
  ASSUME IInv, NEW n \in 1 .. Len(tables),
         \A i \in 1 .. Len(tables) : tables'[i].type = tables[i].type,
         tables'[n].fields = tables[n].fields,
         tables'[n].useProtojson = tables[n].useProtojson
  PROVE  PlanOf(n)' = PlanOf(n)
  <1>1. tables[n] \in Table /\ FieldsOK(tables, tables[n].fields)
    BY DEF IInv, TypeOK, FieldsInv
  <1>2. DOMAIN tables[n].fields = 1 .. Len(tables[n].fields)
    BY <1>1 DEF Table
  <1>3. \A k \in DOMAIN tables[n].fields :
          tables[n].fields[k].table \in 1 .. Len(tables)
    BY <1>1, <1>2 DEF FieldsOK
  <1>4. [k \in DOMAIN tables'[n].fields |-> tables'[tables'[n].fields[k].table].type]
          = [k \in DOMAIN tables[n].fields |-> tables[tables[n].fields[k].table].type]
    BY <1>3
  <1> QED BY <1>4 DEF PlanOf

\* The status of a type changes with its cache entry and with done.Store only.
LEMMA SameStatus ==
  ASSUME IInv, NEW t \in Types, cache'[t] = cache[t],
         \A i \in 1 .. Len(tables) : tables'[i].type = tables[i].type,
         cache[t] # 0 =>
           /\ tables'[cache[t]].done = tables[cache[t]].done
           /\ tables[cache[t]].done =>
                /\ tables'[cache[t]].fields = tables[cache[t]].fields
                /\ tables'[cache[t]].useProtojson = tables[cache[t]].useProtojson
  PROVE  StatusOf(t)' = StatusOf(t)
  <1> DEFINE i == cache[t]
  <1>1. CASE i = 0
    BY <1>1 DEF StatusOf, Unplanned
  <1>2. CASE i # 0
    <2>1. i \in 1 .. Len(tables)
      BY <1>2 DEF IInv, TypeOK
    <2>2. CASE ~ tables[i].done
      BY <1>2, <2>1, <2>2 DEF StatusOf, Unplanned
    <2>3. CASE tables[i].done
      <3>1. PICK n \in 1 .. Len(tables) : n = i
        BY <2>1
      <3>2. PlanOf(n)' = PlanOf(n)
        BY <1>2, <2>3, <3>1, SamePlan
      <3>3. StatusOf(t) = [status |-> "ready", plan |-> PlanOf(n)]
        BY <1>2, <2>3, <3>1 DEF StatusOf
      <3>4. StatusOf(t)' = [status |-> "ready", plan |-> PlanOf(n)']
        <4>1. cache'[t] = n /\ n # 0 /\ tables'[n].done
          BY <1>2, <2>1, <2>3, <3>1
        <4> QED BY <4>1 DEF StatusOf
      <3> QED BY <3>2, <3>3, <3>4
    <2> QED BY <2>2, <2>3
  <1> QED BY <1>1, <1>2

LEMMA SameStatuses ==
  ASSUME IInv, cache' = cache,
         \A i \in 1 .. Len(tables) :
           /\ tables'[i].type = tables[i].type
           /\ tables'[i].done = tables[i].done
           /\ tables[i].done => /\ tables'[i].fields = tables[i].fields
                                /\ tables'[i].useProtojson = tables[i].useProtojson
  PROVE  Statuses' = Statuses
  <1> SUFFICES ASSUME NEW t \in Types PROVE StatusOf(t)' = StatusOf(t)
    BY DEF Statuses
  <1>1. cache[t] # 0 => cache[t] \in 1 .. Len(tables)
    BY DEF IInv, TypeOK
  <1> QED BY <1>1, SameStatus

\* A step of goroutine p makes the client p of the registry what it is afterwards.
LEMMA ClientMoves ==
  ASSUME NEW p \in Procs, NEW c, ClientOf(p)' = c,
         \A q \in Procs \ {p} : pc'[q] = pc[q] /\ msg'[q] = msg[q]
  PROVE  Clients' = [Clients EXCEPT ![p] = c]
  <1>1. \A q \in Procs \ {p} : ClientOf(q)' = ClientOf(q)
    BY DEF ClientOf
  <1> QED BY <1>1 DEF Clients

LEMMA ClientStays ==
  ASSUME NEW p \in Procs, ClientOf(p)' = ClientOf(p),
         \A q \in Procs \ {p} : pc'[q] = pc[q] /\ msg'[q] = msg[q]
  PROVE  Clients' = Clients
  <1>1. \A q \in Procs : ClientOf(q)' = ClientOf(q)
    BY DEF ClientOf
  <1> QED BY <1>1 DEF Clients

\* The steps that serve a goroutine.
LEMMA ServedSteps ==
  ASSUME OneTypeEach, IInv, AgreeInv, NEW p \in Procs,
         pc[p] \notin {"idle", "use"}, pc'[p] = "use", UNCHANGED msg,
         \A q \in Procs \ {p} : pc'[q] = pc[q],
         NEW i \in 1 .. Len(tables), tables[i].done,
         tables[i].type = GoType[msg[p]],
         Statuses' = Statuses
  PROVE  Registry!Answer(p)
  <1>1. ClientOf(p) = [state |-> "asked", type |-> GoType[msg[p]]]
        /\ ClientOf(p)' = [state |-> "served", type |-> GoType[msg[p]]]
    BY DEF ClientOf
  <1>2. Clients' = [Clients EXCEPT ![p] =
                      [state |-> "served", type |-> GoType[msg[p]]]]
    BY <1>1, ClientMoves
  <1>3. Clients[p] = [state |-> "asked", type |-> GoType[msg[p]]]
    BY <1>1 DEF Clients
  <1>4. [Clients EXCEPT ![p].state = "served"] =
          [Clients EXCEPT ![p] = [state |-> "served", type |-> GoType[msg[p]]]]
    <2>1. [Clients[p] EXCEPT !.state = "served"] =
            [state |-> "served", type |-> GoType[msg[p]]]
      BY <1>3
    <2> QED BY <2>1
  <1>5. Statuses[GoType[msg[p]]] = Registry!Ready(GoType[msg[p]])
    BY FinishedIsReady
  <1> QED BY <1>2, <1>3, <1>4, <1>5 DEF Registry!Answer, Statuses, Clients

\* A placeholder registers its type.
LEMMA StoreRegisters ==
  ASSUME IInv, NEW p \in Procs, NEW d \in Descs, StorePlaceholder(p, d),
         cache[GoType[d]] = 0, UNCHANGED msg, pc[p] \in {"insert", "compile"}
  PROVE  Registry!Register(GoType[d])
  <1> DEFINE n == Len(tables) + 1
             t == GoType[d]
  <1>1. /\ tables \in Seq(Table) /\ Len(tables) \in Nat /\ t \in Types
        /\ cache \in [Types -> 0 .. Len(tables)] /\ pc \in [Procs -> Label]
    BY ConstantsAssumption DEF IInv, TypeOK
  <1>2. Placeholder(t) \in Table
    BY <1>1 DEF Placeholder, Table
  <1>3. /\ \A i \in 1 .. Len(tables) : tables'[i] = tables[i]
        /\ tables'[n] = Placeholder(t)
        /\ cache' = [cache EXCEPT ![t] = n] /\ n # 0
        /\ pc' = [pc EXCEPT ![p] = "compile"]
    BY <1>1, <1>2 DEF StorePlaceholder, Goto
  <1>4. Clients' = Clients
    <2>1. ClientOf(p)' = ClientOf(p) /\ \A q \in Procs \ {p} : pc'[q] = pc[q]
      BY <1>1, <1>3 DEF ClientOf
    <2> QED BY <2>1, ClientStays
  <1>5. StatusOf(t) = Registry!Absent
    BY DEF StatusOf, Unplanned, Registry!Absent, Registry!NoPlan
  <1>6. StatusOf(t)' = Registry!Pending
    <2>1. cache'[t] = n /\ ~ tables'[n].done
      BY <1>1, <1>3 DEF Placeholder
    <2> HIDE DEF n
    <2> QED BY <2>1, <1>3 DEF StatusOf, Unplanned, Registry!Pending, Registry!NoPlan
  <1>7. ASSUME NEW u \in Types \ {t}
        PROVE  StatusOf(u)' = StatusOf(u)
    <2>1. cache'[u] = cache[u] /\ (cache[u] # 0 => cache[u] \in 1 .. Len(tables))
      BY <1>1, <1>3
    <2> QED BY <2>1, <1>3, SameStatus
  <1>8. Statuses' = [Statuses EXCEPT ![t] = Registry!Pending]
    BY <1>6, <1>7 DEF Statuses
  <1> QED BY <1>1, <1>4, <1>5, <1>8 DEF Registry!Register, Statuses, Clients

\* done.Store publishes the type of the table, with the whole plan.
LEMMA StorePublishes ==
  ASSUME OneTypeEach, IInv, AgreeInv, NEW p \in Procs, StoreDone(p)
  PROVE  \E t \in Types : Registry!Publish(t)
  <1> DEFINE m == Len(frames[p])
  <1>1. PICK j : j = Top(p).table
    OBVIOUS
  <1>2. /\ pc[p] = "storeDone" /\ pc' = [pc EXCEPT ![p] = "close"]
        /\ tables' = [tables EXCEPT ![j].done = TRUE]
        /\ UNCHANGED <<cache, msg>>
    BY <1>1 DEF StoreDone, Goto, local
  <1>3. m > 0
    BY <1>2, StackTypes DEF Compiling, Publishing
  <1>4. /\ j \in 1 .. Len(tables) /\ tables[j] \in Table /\ tables \in Seq(Table)
        /\ Top(p) \in Frame /\ Top(p) = frames[p][m] /\ FrameAgrees(p, m)
    BY <1>1, <1>3, TopFacts DEF AgreeInv, FramesInv, IInv, TypeOK
  <1>5. ~ tables[j].done
    BY <1>1, <1>2, <1>3, TopFacts DEF FrameOK
  <1>6. tables[j].desc \in Descs /\ Whole(j)
    <2>1. /\ Len(Top(p).fields) = Len(Nested[Top(p).desc])
          /\ tables[j].fields = Top(p).fields /\ tables[j].desc = Top(p).desc
          /\ tables[j].useProtojson = (Top(p).desc \in Fallback)
      BY <1>1, <1>2 DEF AgreeInv, CopyInv, CopyOK, Visited
    <2>2. tables[j].type = GoType[Top(p).desc] /\ Top(p).desc \in Descs
      BY <1>1, <1>4 DEF FrameAgrees, Frame
    <2>3. FieldsFollow(tables, Top(p).fields, Top(p).desc)
      BY <1>4 DEF FrameAgrees
    <2> QED BY <2>1, <2>2, <2>3 DEF Whole
  <1>7. /\ \A i \in 1 .. Len(tables) : tables'[i].type = tables[i].type
        /\ \A i \in 1 .. Len(tables) : i # j => tables'[i] = tables[i]
        /\ tables'[j].fields = tables[j].fields /\ tables'[j].done
        /\ tables'[j].useProtojson = tables[j].useProtojson
    <2> DEFINE done == [tables[j] EXCEPT !.done = TRUE]
    <2>1. /\ done.type = tables[j].type /\ done.fields = tables[j].fields
          /\ done.done /\ done.useProtojson = tables[j].useProtojson
      BY <1>4 DEF Table
    <2>2. tables' = [tables EXCEPT ![j] = done]
      BY <1>2
    <2> HIDE DEF done
    <2>3. tables'[j] = done /\ \A i \in 1 .. Len(tables) : i # j => tables'[i] = tables[i]
      BY <2>2, <1>4
    <2> QED BY <2>1, <2>3
  <1>8. PICK t \in Types : t = tables[j].type
    BY <1>4 DEF Table
  <1>9. cache[t] = j /\ j # 0
    BY <1>4, <1>8 DEF IInv, CacheInv
  <1>10. PlanOf(j) = Plan[t] /\ PlanOf(j)' = PlanOf(j)
    BY <1>4, <1>6, <1>7, <1>8, PublishedIsPlan, SamePlan
  <1>11. StatusOf(t) = Registry!Pending
    BY <1>5, <1>9 DEF StatusOf, Unplanned, Registry!Pending, Registry!NoPlan
  <1>12. StatusOf(t)' = Registry!Ready(t)
    <2>1. cache'[t] = j
      BY <1>2, <1>9
    <2>2. StatusOf(t)' = [status |-> "ready", plan |-> PlanOf(j)']
      BY <2>1, <1>7, <1>9 DEF StatusOf
    <2> QED BY <2>2, <1>10 DEF Registry!Ready
  <1>13. ASSUME NEW u \in Types \ {t}
         PROVE  StatusOf(u)' = StatusOf(u)
    <2>1. cache[u] # 0 => cache[u] \in 1 .. Len(tables) /\ cache[u] # j
      BY <1>8 DEF IInv, TypeOK, CacheInv
    <2> QED BY <2>1, <1>2, <1>7, SameStatus
  <1>14. Statuses' = [Statuses EXCEPT ![t] = Registry!Ready(t)]
    BY <1>12, <1>13 DEF Statuses
  <1>15. Clients' = Clients
    <2>1. ClientOf(p)' = ClientOf(p) /\ \A q \in Procs \ {p} : pc'[q] = pc[q]
      BY <1>2 DEF ClientOf, IInv, TypeOK
    <2> QED BY <2>1, <1>2, ClientStays
  <1> QED BY <1>11, <1>14, <1>15 DEF Registry!Publish, Statuses, Clients

\* Everything between two registry steps: the lookups, the compilation of a
\* nested table, and the copying of fields and flags.
LEMMA InnerSteps ==
  ASSUME IInv, AgreeInv, NEW p \in Procs,
         \/ LookupHit(p) \/ LookupMiss(p) \/ RecheckHit(p) \/ NestedHit(p)
         \/ RecordField(p) \/ CopyFields(p) \/ CopyFlags(p)
         \/ CloseReady(p) /\ Len(frames[p]) # 1
  PROVE  UNCHANGED <<Statuses, Clients>>
  <1>1. /\ pc[p] \notin {"idle", "use"} /\ pc'[p] \notin {"idle", "use"}
        /\ \A q \in Procs \ {p} : pc'[q] = pc[q]
        /\ UNCHANGED <<msg, cache>>
    BY DEF LookupHit, LookupMiss, RecheckHit, NestedHit, RecordField, CopyFields,
           CopyFlags, CloseReady, Goto, local, IInv, TypeOK
  <1>2. Clients' = Clients
    <2>1. ClientOf(p)' = ClientOf(p)
      BY <1>1 DEF ClientOf
    <2> QED BY <2>1, <1>1, ClientStays
  <1>3. CASE UNCHANGED tables
    BY <1>1, <1>2, <1>3, SameStatuses
  <1>4. CASE CopyFields(p) \/ CopyFlags(p) \/ CloseReady(p)
    <2>1. PICK j : j = Top(p).table
      OBVIOUS
    <2>2. Len(frames[p]) > 0 /\ pc[p] \in Compiling
      BY <1>4, StackTypes DEF CopyFields, CopyFlags, CloseReady, Compiling, Publishing
    <2>3. /\ j \in 1 .. Len(tables) /\ tables[j] \in Table /\ tables \in Seq(Table)
          /\ pc[p] # "close" => ~ tables[j].done
      BY <2>1, <2>2, TopFacts DEF FrameOK, IInv, TypeOK
    <2>4. ASSUME NEW t, tables' = [tables EXCEPT ![j] = t],
                 t.type = tables[j].type, t.done = tables[j].done,
                 tables[j].done => /\ t.fields = tables[j].fields
                                   /\ t.useProtojson = tables[j].useProtojson
          PROVE  Statuses' = Statuses
      <3>1. tables'[j] = t /\ \A i \in 1 .. Len(tables) : i # j => tables'[i] = tables[i]
        BY <2>3, <2>4
      <3> QED BY <3>1, <2>4, <1>1, SameStatuses
    <2>5. CASE CopyFields(p)
      <3> DEFINE t == [tables[j] EXCEPT !.fields = Top(p).fields]
      <3>1. tables' = [tables EXCEPT ![j] = t] /\ ~ tables[j].done
        BY <2>1, <2>3, <2>5 DEF CopyFields
      <3>2. t.type = tables[j].type /\ t.done = tables[j].done
        BY <2>3 DEF Table
      <3> HIDE DEF t
      <3> QED BY <3>1, <3>2, <2>4, <1>2
    <2>6. CASE CopyFlags(p)
      <3> DEFINE given == (Top(p).desc \in Fallback)
                 t == [tables[j] EXCEPT !.desc = Top(p).desc, !.useProtojson = given]
      <3> HIDE DEF given
      <3>1. tables' = [tables EXCEPT ![j] = t] /\ ~ tables[j].done
        BY <2>1, <2>3, <2>6 DEF CopyFlags, given
      <3>2. t.type = tables[j].type /\ t.done = tables[j].done
        BY <2>3 DEF Table
      <3> HIDE DEF t
      <3> QED BY <3>1, <3>2, <2>4, <1>2
    <2>7. CASE CloseReady(p)
      <3> DEFINE t == [tables[j] EXCEPT !.closed = TRUE]
      <3>1. tables' = [tables EXCEPT ![j] = t]
        BY <2>1, <2>7 DEF CloseReady
      <3>2. /\ t.type = tables[j].type /\ t.done = tables[j].done
            /\ t.fields = tables[j].fields /\ t.useProtojson = tables[j].useProtojson
        BY <2>3 DEF Table
      <3> HIDE DEF t
      <3> QED BY <3>1, <3>2, <2>4, <1>2
    <2> QED BY <1>4, <2>5, <2>6, <2>7
  <1> QED BY <1>3, <1>4 DEF LookupHit, LookupMiss, RecheckHit, NestedHit, RecordField

\* A call is answered when its table is closed by itself, or by another goroutine.
LEMMA AnswerSteps ==
  ASSUME OneTypeEach, IInv, AgreeInv, NEW p \in Procs,
         AwaitReady(p) \/ (CloseReady(p) /\ Len(frames[p]) = 1)
  PROVE  Registry!Answer(p)
  <1>1. CASE AwaitReady(p)
    <2>1. /\ pc[p] = "wait" /\ pc'[p] = "use" /\ ReadyNow(held[p])
          /\ \A q \in Procs \ {p} : pc'[q] = pc[q]
          /\ UNCHANGED <<msg, cache, tables>>
      BY <1>1 DEF AwaitReady, Goto, local, IInv, TypeOK
    <2>2. held[p] \in 0 .. Len(tables) /\ held[p] # 0 /\ Len(tables) \in Nat
      BY <2>1 DEF IInv, TypeOK, ControlInv, ControlOK
    <2>3. held[p] \in 1 .. Len(tables)
      BY <2>2
    <2>4. tables[held[p]].done
      BY <2>1, <2>3 DEF ReadyNow, IInv, DoneInv
    <2>5. tables[held[p]].type = GoType[msg[p]]
      BY <2>1 DEF AgreeInv, HeldInv, HeldOK
    <2>6. Statuses' = Statuses
      BY <2>1, SameStatuses
    <2> QED BY <2>1, <2>3, <2>4, <2>5, <2>6, ServedSteps
  <1>2. CASE CloseReady(p) /\ Len(frames[p]) = 1
    <2>1. PICK j : j = Top(p).table
      OBVIOUS
    <2>2. /\ pc[p] = "close" /\ pc'[p] = "use"
          /\ \A q \in Procs \ {p} : pc'[q] = pc[q]
          /\ UNCHANGED <<msg, cache>>
          /\ tables' = [tables EXCEPT ![j].closed = TRUE]
      BY <1>2, <2>1 DEF CloseReady, Goto, local, IInv, TypeOK
    <2>3. /\ j \in 1 .. Len(tables) /\ tables[j] \in Table /\ tables \in Seq(Table)
          /\ j = frames[p][1].table /\ FrameAgrees(p, 1)
      <3>1. Len(frames[p]) = 1 /\ Len(frames[p]) > 0 /\ 1 \in 1 .. Len(frames[p])
        BY <1>2
      <3>2. FrameAgrees(p, 1) /\ tables \in Seq(Table)
        BY <3>1 DEF AgreeInv, FramesInv, IInv, TypeOK
      <3> QED BY <3>1, <3>2, <2>1, TopFacts
    <2>4. tables[j].done
      BY <2>1, <2>2 DEF IInv, ControlInv, ControlOK, Top
    <2>5. tables[j].type = GoType[msg[p]]
      BY <2>3 DEF FrameAgrees
    <2>6. Statuses' = Statuses
      <3> DEFINE t == [tables[j] EXCEPT !.closed = TRUE]
      <3>1. tables' = [tables EXCEPT ![j] = t]
        BY <2>2
      <3>2. /\ t.type = tables[j].type /\ t.done = tables[j].done
            /\ t.fields = tables[j].fields /\ t.useProtojson = tables[j].useProtojson
        BY <2>3 DEF Table
      <3> HIDE DEF t
      <3>3. tables'[j] = t /\ \A i \in 1 .. Len(tables) : i # j => tables'[i] = tables[i]
        BY <3>1, <2>3
      <3> QED BY <3>2, <3>3, <2>2, SameStatuses
    <2> QED BY <2>2, <2>3, <2>4, <2>5, <2>6, ServedSteps
  <1> QED BY <1>1, <1>2

\* A goroutine that is served follows a nested field, to a table it may use at
\* once exactly when the field does not ask for a wait.
LEMMA DescendFollows ==
  ASSUME OneTypeEach, IInv, AgreeInv, NEW p \in Procs, pc[p] = "use",
         NEW i \in DOMAIN tables[held[p]].fields, Descend(p, i)
  PROVE  Registry!Follow(p)
  <1>1. PICK j : j = held[p]
    OBVIOUS
  <1>2. held[p] \in 0 .. Len(tables) /\ held[p] # 0 /\ tables[j].done
        /\ Len(tables) \in Nat
    BY <1>1 DEF IInv, TypeOK, ControlInv, ControlOK
  <1>3. /\ j \in 1 .. Len(tables) /\ tables[j] \in Table
        /\ tables[j].type = GoType[msg[p]]
    <2>1. j \in 1 .. Len(tables)
      BY <1>1, <1>2
    <2> QED BY <2>1, <1>1 DEF IInv, TypeOK, AgreeInv, HeldInv, HeldOK
  <1>4. PICK f : f = tables[j].fields[i]
    OBVIOUS
  <1>5. /\ Whole(j) /\ FieldsOK(tables, tables[j].fields)
        /\ tables[j].fields \in Seq(Field) /\ i \in 1 .. Len(tables[j].fields)
    BY <1>1, <1>2, <1>3 DEF AgreeInv, WholeInv, IInv, FieldsInv, Table
  <1>6. /\ f.table \in 1 .. Len(tables)
        /\ ~ f.needsWait => tables[f.table].done
        /\ tables[f.table].type = GoType[f.fd]
    BY <1>4, <1>5 DEF Whole, FieldsOK, FieldsFollow
  <1>7. /\ pc'[p] = IF f.needsWait THEN "wait" ELSE "use"
        /\ msg'[p] = f.fd /\ ~ tables[j].useProtojson
        /\ UNCHANGED <<cache, tables>>
        /\ \A q \in Procs \ {p} : pc'[q] = pc[q] /\ msg'[q] = msg[q]
    BY <1>1, <1>4 DEF Descend, Goto, IInv, TypeOK
  <1> DEFINE t == GoType[msg[p]]
             u == GoType[f.fd]
  <1>8. Clients[p] = [state |-> "served", type |-> t]
    BY DEF Clients, ClientOf
  <1>9. PlanOf(j) = Plan[t]
    BY <1>2, <1>3, FinishedIsReady
  <1>10. /\ ~ Plan[t].useProtojson
         /\ i \in DOMAIN Plan[t].nested
         /\ Plan[t].nested[i] = u
    <2>1. /\ PlanOf(j).useProtojson = tables[j].useProtojson
          /\ i \in DOMAIN PlanOf(j).nested
          /\ PlanOf(j).nested[i] = tables[f.table].type
      BY <1>1, <1>4 DEF PlanOf
    <2> QED BY <2>1, <1>6, <1>7, <1>9
  <1>11. Statuses' = Statuses
    BY <1>7, SameStatuses
  <1>12. \/ /\ Statuses[u] = Registry!Ready(u)
            /\ Clients' = [Clients EXCEPT ![p] = [state |-> "served", type |-> u]]
         \/ Clients' = [Clients EXCEPT ![p] = [state |-> "asked", type |-> u]]
    <2>1. CASE f.needsWait
      <3>1. ClientOf(p)' = [state |-> "asked", type |-> u]
        BY <2>1, <1>7 DEF ClientOf
      <3> QED BY <3>1, <1>7, ClientMoves
    <2>2. CASE ~ f.needsWait
      <3>1. ClientOf(p)' = [state |-> "served", type |-> u]
        BY <2>2, <1>7 DEF ClientOf
      <3>2. Statuses[u] = Registry!Ready(u)
        BY <2>2, <1>6, FinishedIsReady
      <3> QED BY <3>1, <3>2, <1>7, ClientMoves
    <2> QED BY <2>1, <2>2
  <1> HIDE DEF t, u
  <1>13. Clients[p].state = "served" /\ Clients[p].type = t
    BY <1>8
  <1>14. \E k \in DOMAIN Plan[Clients[p].type].nested :
           LET v == Plan[Clients[p].type].nested[k] IN
             \/ /\ Statuses[v] = Registry!Ready(v)
                /\ Clients' = [Clients EXCEPT ![p] = [state |-> "served", type |-> v]]
             \/ Clients' = [Clients EXCEPT ![p] = [state |-> "asked", type |-> v]]
    BY <1>10, <1>12, <1>13
  <1>15. ~ Plan[Clients[p].type].useProtojson
    BY <1>10, <1>13
  <1> QED BY <1>11, <1>13, <1>14, <1>15 DEF Registry!Follow, Statuses, Clients

\* A call, a message reached through reflection, and the return.
LEMMA OuterSteps ==
  ASSUME IInv, NEW p \in Procs,
         \/ Return(p)
         \/ \E d \in Descs : Call(p, d) \/ Reenter(p, d)
  PROVE  Registry!Leave(p) \/ \E t \in Types : Registry!Ask(p, t)
  <1>1. /\ UNCHANGED <<cache, tables>>
        /\ \A q \in Procs \ {p} : pc'[q] = pc[q] /\ msg'[q] = msg[q]
    BY DEF Return, Call, Reenter, Goto, IInv, TypeOK
  <1>2. Statuses' = Statuses
    BY <1>1, SameStatuses
  <1>3. CASE Return(p)
    <2>1. pc[p] = "use" /\ pc'[p] = "idle"
      BY <1>3 DEF Return, Goto, IInv, TypeOK
    <2>2. Clients[p].state = "served" /\ ClientOf(p)' = [state |-> "idle"]
      BY <2>1 DEF Clients, ClientOf
    <2>3. Clients' = [Clients EXCEPT ![p] = [state |-> "idle"]]
      BY <2>2, <1>1, ClientMoves
    <2> QED BY <2>2, <2>3, <1>2 DEF Registry!Leave, Registry!Idle, Statuses, Clients
  <1>4. ASSUME NEW d \in Descs, Call(p, d) \/ Reenter(p, d)
        PROVE  \E t \in Types : Registry!Ask(p, t)
    <2>1. /\ pc[p] \in {"idle", "use"} /\ pc'[p] = "lookup" /\ msg'[p] = d
          /\ GoType[d] \in Types
      BY <1>4, ConstantsAssumption DEF Call, Reenter, Goto, IInv, TypeOK
    <2>2. /\ Clients[p].state \in {"idle", "served"}
          /\ ClientOf(p)' = [state |-> "asked", type |-> GoType[d]]
      BY <2>1 DEF Clients, ClientOf
    <2>3. Clients' = [Clients EXCEPT ![p] = [state |-> "asked", type |-> GoType[d]]]
      BY <2>2, <1>1, ClientMoves
    <2>4. Registry!Ask(p, GoType[d])
      BY <2>2, <2>3, <1>2 DEF Registry!Ask, Statuses, Clients
    <2> QED BY <2>1, <2>4
  <1> QED BY <1>3, <1>4

LEMMA InitRefines ==
  Init => Registry!Init
  <1> SUFFICES ASSUME Init PROVE Registry!Init
    OBVIOUS
  <1>1. ASSUME NEW t \in Types
        PROVE  StatusOf(t) = Registry!Absent
    BY DEF Init, StatusOf, Unplanned, Registry!Absent, Registry!NoPlan
  <1>2. ASSUME NEW p \in Procs
        PROVE  ClientOf(p) = Registry!Idle
    BY DEF Init, ClientOf, Registry!Idle
  <1> QED BY <1>1, <1>2 DEF Registry!Init

LEMMA NextRefines ==
  ASSUME OneTypeEach, IInv, AgreeInv, [Next]_vars
  PROVE  [Registry!Next]_(Registry!vars)
  <1> SUFFICES Registry!Next \/ UNCHANGED <<Statuses, Clients>>
    BY DEF Registry!vars, Statuses, Clients
  <1>1. CASE UNCHANGED vars
    <2>1. Statuses' = Statuses
      BY <1>1, SameStatuses DEF vars
    <2>2. \A p \in Procs : ClientOf(p)' = ClientOf(p)
      BY <1>1 DEF vars, ClientOf
    <2> QED BY <2>1, <2>2 DEF Clients
  <1>2. ASSUME NEW p \in Procs, NEW d \in Descs, Call(p, d)
        PROVE  Registry!Next
    BY <1>2, OuterSteps DEF Registry!Next
  <1>3. ASSUME NEW p \in Procs, Step(p)
        PROVE  Registry!Next \/ UNCHANGED <<Statuses, Clients>>
    <2>1. CASE Insert(p) \/ NestedInsert(p)
      <3>1. PICK d \in Descs : /\ StorePlaceholder(p, d) /\ cache[GoType[d]] = 0
                               /\ UNCHANGED msg /\ pc[p] \in {"insert", "compile"}
        <4>1. CASE Insert(p)
          <5>1. msg[p] \in Descs
            BY <4>1 DEF Insert, IInv, ControlInv, ControlOK
          <5> QED BY <4>1, <5>1 DEF Insert, local
        <4>2. CASE NestedInsert(p)
          <5>1. NextNested(p) \in Descs
            BY <4>2, NextNestedType, StackTypes DEF NestedInsert, Compiling
          <5> QED BY <4>2, <5>1 DEF NestedInsert, local
        <4> QED BY <2>1, <4>1, <4>2
      <3>2. Registry!Register(GoType[d]) /\ GoType[d] \in Types
        BY <3>1, StoreRegisters, ConstantsAssumption
      <3> QED BY <3>2 DEF Registry!Next
    <2>2. CASE StoreDone(p)
      BY <2>2, StorePublishes DEF Registry!Next
    <2>3. CASE CloseReady(p) \/ AwaitReady(p)
      <3>1. CASE AwaitReady(p) \/ (CloseReady(p) /\ Len(frames[p]) = 1)
        <4>1. Registry!Answer(p)
          BY <3>1, AnswerSteps
        <4> QED BY <4>1 DEF Registry!Next
      <3>2. CASE CloseReady(p) /\ Len(frames[p]) # 1
        BY <3>2, InnerSteps
      <3> QED BY <2>3, <3>1, <3>2
    <2>4. CASE pc[p] = "use" /\ Walk(p)
      BY <2>4, DescendFollows, OuterSteps DEF Walk, Registry!Next
    <2> QED BY <1>3, <2>1, <2>2, <2>3, <2>4, InnerSteps DEF Step
  <1> QED BY <1>1, <1>2, <1>3 DEF Next

\* The safety half of ImplementsRegistry: seen through the refinement mapping,
\* every step of getTable, compileTableForType and the walks is a step of the
\* registry or none, so each Go type gets one plan, which depends on the type
\* alone, and each call is served the whole plan of the type it asked for.
THEOREM RefinesRegistry ==
  ASSUME OneTypeEach
  PROVE  Spec => Registry!Safety
  <1>1. IInv /\ AgreeInv /\ [Next]_vars => [Registry!Next]_(Registry!vars)
    BY NextRefines
  <1> QED BY <1>1, InitRefines, AgreeInvHolds, PTL DEF Spec, Registry!Safety
=============================================================================
