----------------------------- MODULE EncoderPool -----------------------------
(***************************************************************************)
(* The pool of output buffers of marshal.go (encBufPool).  A Marshal call  *)
(* borrows a buffer, encodes into it and hands out a copy; an Any message  *)
(* inside borrows a second buffer and appends it to the first; a message   *)
(* field of generated code is encoded by a Marshal call of its own, whose  *)
(* copy is appended.  NewEncoder, Free and Bytes of runtime.go are the     *)
(* same protocol on a second pool.                                         *)
(*                                                                         *)
(* Bytes are tagged with the call they were written for.  sync.Pool gives  *)
(* any pooled buffer or a new one, and may forget buffers.  A definition   *)
(* marked "slip" is the one after it with a mistake.                       *)
(***************************************************************************)
EXTENDS Naturals, Sequences

CONSTANTS
  Goroutines,
  Limit,      \* capacity up to which a buffer is pooled (65536 in the code)
  Blocks,     \* addresses of memory: bounds what is allocated at a time
  MaxCalls,   \* bound on the calls from outside
  MaxFrames,  \* bound on the buffers one goroutine holds
  MaxBytes    \* bound on what a frame writes or nests

ASSUME PoolAssumption ==
  /\ Limit \in Nat /\ MaxCalls \in Nat /\ MaxFrames \in Nat /\ MaxBytes \in Nat
  /\ Blocks \subseteq Nat \ {0}

VARIABLES
  bytes,     \* bytes[a]: the content of block a
  capacity,  \* capacity[a]: its capacity, 0 when it is not allocated
  pooled,    \* pooled[a]: how many times it is in the pool
  frames,    \* frames[g]: the buffers of g's calls, the innermost last
  pc,        \* pc[g]: what g does with the innermost one
  copy,      \* copy[g]: the copy g took last
  calls,     \* the calls made so far
  results    \* the copies handed to callers

vars == <<bytes, capacity, pooled, frames, pc, copy, calls, results>>

\* A "call" frame belongs to Marshal, an "any" frame to marshalAny.  wrote is
\* what the frame has encoded, whatever happens to its buffer.
Tags == 1 .. MaxCalls
Frame == [buf : Blocks, kind : {"call", "any"}, tag : Tags, wrote : Seq(Tags)]
Copy == [at : Blocks \cup {0}, want : Seq(Tags)]
NoCopy == [at |-> 0, want |-> <<>>]

Depth(g) == Len(frames[g])
Top(g) == frames[g][Depth(g)]
Free == {a \in Blocks : capacity[a] = 0}
Fresh(a) == a \in Free /\ \A b \in Free : a <= b
Pop(g) == frames' = [frames EXCEPT ![g] = SubSeq(@, 1, Depth(g) - 1)]
Wrote(g, new) ==
  frames' = [frames EXCEPT ![g][Depth(g)].wrote = @ \o new]

\* Appending grows the backing array when it has to.
Appended(a, new) ==
  /\ bytes' = [bytes EXCEPT ![a] = @ \o new]
  /\ capacity' = [capacity EXCEPT
       ![a] = IF Len(bytes[a] \o new) > @ THEN Len(bytes[a] \o new) ELSE @]

Init ==
  /\ bytes = [a \in Blocks |-> <<>>]
  /\ capacity = [a \in Blocks |-> 0]
  /\ pooled = [a \in Blocks |-> 0]
  /\ frames = [g \in Goroutines |-> <<>>]
  /\ pc = [g \in Goroutines |-> "idle"]
  /\ copy = [g \in Goroutines |-> NoCopy]
  /\ calls = 0
  /\ results = {}
-----------------------------------------------------------------------------
GetUnchecked(a) == \* slip: the pool is taken to be never empty
  /\ pooled' = [pooled EXCEPT ![a] = @ - 1]
  /\ UNCHANGED capacity

\* encBufPool.Get
Get(a) ==
  \/ /\ pooled[a] > 0
     /\ pooled' = [pooled EXCEPT ![a] = @ - 1]
     /\ UNCHANGED capacity
  \/ /\ Fresh(a)
     /\ capacity' = [capacity EXCEPT ![a] = 1]
     /\ UNCHANGED pooled

Call(g, a) ==
  /\ pc[g] = "idle"
  /\ calls < MaxCalls
  /\ calls' = calls + 1
  /\ Get(a)
  /\ frames' = [frames EXCEPT ![g] =
       <<[buf |-> a, kind |-> "call", tag |-> calls + 1, wrote |-> <<>>]>>]
  /\ pc' = [pc EXCEPT ![g] = "reset"]
  /\ UNCHANGED <<bytes, copy, results>>

\* MarshalField of a message field, or marshalAny.
Nest(g, kind, a) ==
  /\ pc[g] = "write"
  /\ Depth(g) < MaxFrames
  /\ Len(Top(g).wrote) < MaxBytes
  /\ Get(a)
  /\ frames' = [frames EXCEPT ![g] =
       Append(@, [buf |-> a, kind |-> kind, tag |-> Top(g).tag, wrote |-> <<>>])]
  /\ pc' = [pc EXCEPT ![g] = "reset"]
  /\ UNCHANGED <<bytes, copy, calls, results>>

\* eb.buf = eb.buf[:0]
Reset(g) ==
  /\ pc[g] = "reset"
  /\ bytes' = [bytes EXCEPT ![Top(g).buf] = <<>>]
  /\ pc' = [pc EXCEPT ![g] = "write"]
  /\ UNCHANGED <<capacity, pooled, frames, copy, calls, results>>

Write(g) ==
  /\ pc[g] = "write"
  /\ Len(Top(g).wrote) < MaxBytes
  /\ Appended(Top(g).buf, <<Top(g).tag>>)
  /\ Wrote(g, <<Top(g).tag>>)
  /\ UNCHANGED <<pooled, pc, copy, calls, results>>

CopyOutAliased(g, a) == \* slip: the buffer itself is returned
  /\ pc[g] = "write"
  /\ Top(g).kind = "call"
  /\ a = Top(g).buf
  /\ copy' = [copy EXCEPT ![g] = [at |-> a, want |-> Top(g).wrote]]
  /\ pc' = [pc EXCEPT ![g] = "put"]
  /\ UNCHANGED <<bytes, capacity, pooled, frames, calls, results>>

\* out := make([]byte, len(eb.buf)); copy(out, eb.buf)
CopyOut(g, a) ==
  /\ pc[g] = "write"
  /\ Top(g).kind = "call"
  /\ Fresh(a)
  /\ bytes' = [bytes EXCEPT ![a] = bytes[Top(g).buf]]
  /\ capacity' = [capacity EXCEPT ![a] = Len(bytes[Top(g).buf]) + 1]
  /\ copy' = [copy EXCEPT ![g] = [at |-> a, want |-> Top(g).wrote]]
  /\ pc' = [pc EXCEPT ![g] = "put"]
  /\ UNCHANGED <<pooled, frames, calls, results>>

\* marshalAny appends the second buffer to the first, then puts it back.
AppendAny(g) ==
  /\ pc[g] = "write"
  /\ Top(g).kind = "any"
  /\ LET outer == frames[g][Depth(g) - 1]
     IN  /\ Appended(outer.buf, bytes[Top(g).buf])
         /\ frames' = [frames EXCEPT ![g][Depth(g) - 1].wrote = @ \o Top(g).wrote]
  /\ pc' = [pc EXCEPT ![g] = "put"]
  /\ UNCHANGED <<pooled, copy, calls, results>>

PutBufferAnySize(a) == \* slip: a large buffer is kept for ever
  /\ pooled' = [pooled EXCEPT ![a] = @ + 1]
  /\ bytes' = [bytes EXCEPT ![a] = <<>>]
  /\ UNCHANGED capacity
PutBufferTwice(a) == \* slip: Bytes put it back, and then a deferred Free
  /\ pooled' = [pooled EXCEPT ![a] = @ + 2]
  /\ bytes' = [bytes EXCEPT ![a] = <<>>]
  /\ UNCHANGED capacity

\* putEncBuffer: a large buffer is left to the garbage collector.
PutBuffer(a) ==
  /\ bytes' = [bytes EXCEPT ![a] = <<>>]
  /\ IF capacity[a] <= Limit
     THEN pooled' = [pooled EXCEPT ![a] = @ + 1] /\ UNCHANGED capacity
     ELSE capacity' = [capacity EXCEPT ![a] = 0] /\ UNCHANGED pooled

Put(g) ==
  /\ pc[g] = "put"
  /\ PutBuffer(Top(g).buf)
  /\ Pop(g)
  /\ pc' = [pc EXCEPT ![g] = IF Depth(g) = 1 THEN "idle"
                             ELSE IF Top(g).kind = "call" THEN "append" ELSE "write"]
  /\ IF Depth(g) = 1
     THEN results' = results \cup {copy[g]} /\ copy' = [copy EXCEPT ![g] = NoCopy]
     ELSE UNCHANGED <<results, copy>>
  /\ UNCHANGED calls

\* MarshalField: the bytes of the nested call join the caller's; the copy is
\* garbage afterwards.
AppendField(g) ==
  /\ pc[g] = "append"
  /\ bytes' = [bytes EXCEPT ![Top(g).buf] = @ \o bytes[copy[g].at], ![copy[g].at] = <<>>]
  /\ capacity' =
       LET len == Len(bytes[Top(g).buf] \o bytes[copy[g].at])
       IN  [capacity EXCEPT ![Top(g).buf] = IF len > @ THEN len ELSE @,
                            ![copy[g].at] = 0]
  /\ Wrote(g, copy[g].want)
  /\ copy' = [copy EXCEPT ![g] = NoCopy]
  /\ pc' = [pc EXCEPT ![g] = "write"]
  /\ UNCHANGED <<pooled, calls, results>>

Fail(g) ==
  /\ pc[g] = "write"
  /\ pc' = [pc EXCEPT ![g] = "fail"]
  /\ UNCHANGED <<bytes, capacity, pooled, frames, copy, calls, results>>

PutFailedOuter(g) == \* slip: marshalAny puts back the caller's buffer
  /\ pc[g] = "fail"
  /\ PutBuffer(frames[g][1].buf)
  /\ Pop(g)
  /\ pc' = [pc EXCEPT ![g] = IF Depth(g) = 1 THEN "idle" ELSE "fail"]
  /\ UNCHANGED <<copy, calls, results>>

\* An error passes through every frame, and each puts its own buffer back.
PutFailed(g) ==
  /\ pc[g] = "fail"
  /\ PutBuffer(Top(g).buf)
  /\ Pop(g)
  /\ pc' = [pc EXCEPT ![g] = IF Depth(g) = 1 THEN "idle" ELSE "fail"]
  /\ UNCHANGED <<copy, calls, results>>

\* The garbage collector empties pools.
Forget(a) ==
  /\ pooled[a] > 0
  /\ pooled' = [pooled EXCEPT ![a] = @ - 1]
  /\ capacity' = [capacity EXCEPT ![a] = IF pooled[a] = 1 THEN 0 ELSE @]
  /\ UNCHANGED <<bytes, frames, pc, copy, calls, results>>

Next ==
  \/ \E g \in Goroutines :
       \/ Reset(g) \/ Write(g) \/ AppendAny(g) \/ Put(g) \/ AppendField(g)
       \/ Fail(g) \/ PutFailed(g)
       \/ \E a \in Blocks : \/ Call(g, a) \/ CopyOut(g, a)
                            \/ \E kind \in {"call", "any"} : Nest(g, kind, a)
  \/ \E a \in Blocks : Forget(a)

Spec == Init /\ [][Next]_vars
-----------------------------------------------------------------------------
(* Properties *)

TypeOK ==
  /\ bytes \in [Blocks -> Seq(Tags)]
  /\ capacity \in [Blocks -> Nat]
  /\ pooled \in [Blocks -> Nat]
  /\ frames \in [Goroutines -> Seq(Frame)]
  /\ pc \in [Goroutines -> {"idle", "reset", "write", "put", "append", "fail"}]
  /\ copy \in [Goroutines -> Copy]
  /\ calls \in 0 .. MaxCalls
  /\ results \subseteq Copy

Places == {p \in Goroutines \X (1 .. MaxFrames) : p[2] <= Depth(p[1])}
BufferAt(p) == frames[p[1]][p[2]].buf

\* A block has one owner: it is in the pool once, or held by one frame, or the
\* copy of one call.  A second put of a buffer, on whatever error path, would
\* give two calls the same buffer (marshal.go:45-49, runtime.go:98-116).
Exclusive ==
  /\ \A a \in Blocks : pooled[a] <= 1
  /\ \A p, q \in Places : p # q => BufferAt(p) # BufferAt(q)
  /\ \A p \in Places : pooled[BufferAt(p)] = 0 /\ capacity[BufferAt(p)] > 0
  /\ \A r \in results : /\ pooled[r.at] = 0
                        /\ \A p \in Places : BufferAt(p) # r.at

\* A buffer holds what its call has encoded, all of it and nothing of another
\* call, from the reset until it is put back.
OutputIntact ==
  \A p \in Places :
    p[2] < Depth(p[1]) \/ pc[p[1]] \in {"write", "put"}
      => bytes[BufferAt(p)] = frames[p[1]][p[2]].wrote

\* "Marshal still returns an owned copy, so callers can safely retain or mutate
\* the result" (marshal.go:36-37): what a call returned stays what it encoded.
ResultsIntact == \A r \in results : bytes[r.at] = r.want

\* A huge message does not pin its memory: no pooled buffer is larger than the
\* limit, although every buffer can grow (marshal.go:46).
PooledSmall == \A a \in Blocks : pooled[a] > 0 => capacity[a] <= Limit
=============================================================================
