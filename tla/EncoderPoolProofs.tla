------------------------- MODULE EncoderPoolProofs -------------------------
(***************************************************************************)
(* Proofs about EncoderPool, for any goroutines, blocks, limit and bounds. *)
(***************************************************************************)
EXTENDS EncoderPool, SequenceTheorems, TLAPS

Buf(g, i) == frames[g][i].buf
Levels(g) == 1 .. Depth(g)

\* A pooled block is in the pool once, allocated and small.
PoolInv ==
  \A a \in Blocks :
    /\ pooled[a] <= 1
    /\ pooled[a] > 0 => capacity[a] > 0 /\ capacity[a] <= Limit

\* A block that is allocated and not in the pool.
Taken(a) == a \in Blocks /\ pooled[a] = 0 /\ capacity[a] > 0

\* Each frame has taken a block of its own.
FrameInv ==
  /\ \A g \in Goroutines : \A i \in Levels(g) : Taken(Buf(g, i))
  /\ \A g, h \in Goroutines : \A i \in Levels(g), j \in Levels(h) :
       Buf(g, i) = Buf(h, j) => g = h /\ i = j

NoFrameHas(a) == \A g \in Goroutines : \A i \in Levels(g) : Buf(g, i) # a

\* So has the copy that a goroutine is about to hand over, which is complete.
CopyInv ==
  \A g \in Goroutines : copy[g].at # 0 =>
    /\ Taken(copy[g].at)
    /\ bytes[copy[g].at] = copy[g].want
    /\ NoFrameHas(copy[g].at)
    /\ \A h \in Goroutines : copy[h].at = copy[g].at => h = g

\* And each result.
ResultInv ==
  \A r \in results :
    /\ Taken(r.at)
    /\ bytes[r.at] = r.want
    /\ NoFrameHas(r.at)
    /\ \A g \in Goroutines : copy[g].at # r.at

\* What a goroutine has at its control point.
ControlInv ==
  \A g \in Goroutines :
    /\ pc[g] = "idle" <=> Depth(g) = 0
    /\ Depth(g) # 0 => frames[g][1].kind = "call"
    /\ pc[g] = "reset" => Top(g).wrote = <<>>
    /\ pc[g] = "put" /\ Top(g).kind = "call" => copy[g].at # 0
    /\ pc[g] = "append" => copy[g].at # 0

\* Every buffer but the one to be reset holds what its frame wrote.
IntactInv ==
  \A g \in Goroutines : \A i \in Levels(g) :
    i < Depth(g) \/ pc[g] # "reset" => bytes[Buf(g, i)] = frames[g][i].wrote

IInv ==
  /\ TypeOK /\ PoolInv /\ FrameInv /\ CopyInv /\ ResultInv /\ ControlInv /\ IntactInv
-----------------------------------------------------------------------------
(* How an action changes the frames *)

OthersKept(g) == \A h \in Goroutines \ {g} : frames'[h] = frames[h]
Pushed(g, f) ==
  /\ frames' \in [Goroutines -> Seq(Frame)]
  /\ Len(frames'[g]) = Len(frames[g]) + 1
  /\ \A i \in 1 .. Len(frames[g]) : frames'[g][i] = frames[g][i]
  /\ frames'[g][Len(frames[g]) + 1] = f
  /\ OthersKept(g)
Popped(g) ==
  /\ frames' \in [Goroutines -> Seq(Frame)]
  /\ Len(frames'[g]) = Len(frames[g]) - 1
  /\ \A i \in 1 .. Len(frames'[g]) : frames'[g][i] = frames[g][i]
  /\ OthersKept(g)
Rewrote(g, n, new) ==
  /\ frames' \in [Goroutines -> Seq(Frame)]
  /\ Len(frames'[g]) = Len(frames[g])
  /\ \A i \in 1 .. Len(frames[g]) :
       /\ i # n => frames'[g][i] = frames[g][i]
       /\ frames'[g][i].buf = frames[g][i].buf
       /\ frames'[g][i].kind = frames[g][i].kind
       /\ frames'[g][i].tag = frames[g][i].tag
  /\ frames'[g][n].wrote = frames[g][n].wrote \o new
  /\ OthersKept(g)

LEMMA FrameTypes ==
  ASSUME TypeOK, NEW g \in Goroutines
  PROVE  /\ frames[g] \in Seq(Frame) /\ Len(frames[g]) \in Nat
         /\ \A i \in 1 .. Len(frames[g]) :
              /\ frames[g][i] \in Frame
              /\ frames[g][i].buf \in Blocks
              /\ frames[g][i].kind \in {"call", "any"}
              /\ frames[g][i].tag \in Tags
              /\ frames[g][i].wrote \in Seq(Tags)
<1>1. frames[g] \in Seq(Frame) BY DEF TypeOK
<1>2. Len(frames[g]) \in Nat BY <1>1, LenProperties
<1>3. \A i \in 1 .. Len(frames[g]) : frames[g][i] \in Frame
  BY <1>1, ElementOfSeq
<1> QED BY <1>1, <1>2, <1>3 DEF Frame

LEMMA PushShape ==
  ASSUME TypeOK, NEW g \in Goroutines, NEW f \in Frame,
         \/ frames' = [frames EXCEPT ![g] = Append(@, f)]
         \/ Depth(g) = 0 /\ frames' = [frames EXCEPT ![g] = <<f>>]
  PROVE  Pushed(g, f)
<1>1. frames \in [Goroutines -> Seq(Frame)] BY DEF TypeOK
<1>2. CASE frames' = [frames EXCEPT ![g] = Append(@, f)]
  <2>1. frames'[g] = Append(frames[g], f) BY <1>1, <1>2
  <2>2. /\ Append(frames[g], f) \in Seq(Frame)
        /\ Len(Append(frames[g], f)) = Len(frames[g]) + 1
        /\ \A i \in 1 .. Len(frames[g]) : Append(frames[g], f)[i] = frames[g][i]
        /\ Append(frames[g], f)[Len(frames[g]) + 1] = f
    BY <1>1, AppendProperties
  <2> QED BY <1>1, <1>2, <2>1, <2>2 DEF Pushed, OthersKept
<1>3. CASE Depth(g) = 0 /\ frames' = [frames EXCEPT ![g] = <<f>>]
  <2>1. frames'[g] = <<f>> BY <1>1, <1>3
  <2>2. <<f>> \in Seq(Frame) /\ Len(<<f>>) = 1 /\ <<f>>[1] = f OBVIOUS
  <2> QED BY <1>1, <1>3, <2>1, <2>2 DEF Pushed, OthersKept, Depth
<1> QED BY <1>2, <1>3

LEMMA PopShape ==
  ASSUME TypeOK, NEW g \in Goroutines, Depth(g) > 0, Pop(g)
  PROVE  Popped(g)
<1>1. frames \in [Goroutines -> Seq(Frame)] BY DEF TypeOK
<1> DEFINE n == Len(frames[g]) - 1
<1>2. frames'[g] = SubSeq(frames[g], 1, n) BY <1>1 DEF Pop, Depth
<1>3. n \in Nat BY FrameTypes DEF Depth
<1>4. \A i \in 1 .. n : frames[g][i] \in Frame BY <1>3, FrameTypes
<1>5. /\ SubSeq(frames[g], 1, n) \in Seq(Frame)
      /\ Len(SubSeq(frames[g], 1, n)) = n
      /\ \A i \in 1 .. n : SubSeq(frames[g], 1, n)[i] = frames[g][i]
  BY <1>3, <1>4, SubSeqProperties
<1> QED BY <1>1, <1>2, <1>5 DEF Popped, OthersKept, Pop, Depth

LEMMA RewriteShape ==
  ASSUME TypeOK, NEW g \in Goroutines, NEW n \in 1 .. Len(frames[g]),
         NEW new \in Seq(Tags),
         frames' = [frames EXCEPT ![g][n].wrote = @ \o new]
  PROVE  Rewrote(g, n, new)
<1>1. frames \in [Goroutines -> Seq(Frame)] BY DEF TypeOK
<1> DEFINE s == frames[g]
           f == [s[n] EXCEPT !.wrote = s[n].wrote \o new]
<1>2. s \in Seq(Frame) /\ s[n] \in Frame /\ s[n].wrote \in Seq(Tags)
  BY FrameTypes
<1>3. s[n].wrote \o new \in Seq(Tags) BY <1>2, ConcatProperties
<1>4. f \in Frame BY <1>2, <1>3 DEF Frame
<1>5. /\ f.buf = s[n].buf /\ f.kind = s[n].kind /\ f.tag = s[n].tag
      /\ f.wrote = s[n].wrote \o new
  BY <1>2 DEF Frame
<1>6. frames' = [frames EXCEPT ![g] = [s EXCEPT ![n] = f]] OBVIOUS
<1>7. /\ [s EXCEPT ![n] = f] \in Seq(Frame)
      /\ Len([s EXCEPT ![n] = f]) = Len(s)
      /\ \A j \in 1 .. Len(s) : [s EXCEPT ![n] = f][j] = IF j = n THEN f ELSE s[j]
  BY <1>2, <1>4, ExceptSeq
<1>8. frames'[g] = [s EXCEPT ![n] = f] BY <1>1, <1>6
<1> HIDE DEF f
<1> QED BY <1>1, <1>5, <1>6, <1>7, <1>8 DEF Rewrote, OthersKept
-----------------------------------------------------------------------------
(* Init *)

LEMMA InitIInv == Init => IInv
<1> SUFFICES ASSUME Init PROVE IInv OBVIOUS
<1>1. /\ \A g \in Goroutines : frames[g] = <<>> /\ copy[g] = NoCopy /\ pc[g] = "idle"
      /\ \A a \in Blocks : pooled[a] = 0 /\ bytes[a] = <<>> /\ capacity[a] = 0
      /\ results = {}
  BY DEF Init
<1>2. TypeOK
  BY PoolAssumption DEF Init, TypeOK, Copy, NoCopy
<1>3. \A g \in Goroutines : Depth(g) = 0 BY <1>1, EmptySeq DEF Depth
<1>4. PoolInv BY <1>1 DEF PoolInv
<1>5. FrameInv BY <1>3 DEF FrameInv, Levels
<1>6. CopyInv BY <1>1 DEF CopyInv, NoCopy
<1>7. ResultInv BY <1>1 DEF ResultInv
<1>8. ControlInv
  <2>1. \A g \in Goroutines : pc[g] = "idle" /\ Depth(g) = 0 BY <1>1, <1>3
  <2>2. \A g \in Goroutines : pc[g] # "put" /\ pc[g] # "append" /\ pc[g] # "reset" BY <2>1
  <2> QED BY <2>1, <2>2, Zenon DEF ControlInv
<1>9. IntactInv BY <1>3 DEF IntactInv, Levels
<1> QED BY <1>2, <1>4, <1>5, <1>6, <1>7, <1>8, <1>9 DEF IInv
-----------------------------------------------------------------------------
(* Borrowing a buffer *)

\* What is pooled or not allocated, nobody has.
LEMMA Untaken ==
  ASSUME IInv, NEW a \in Blocks, ~ Taken(a)
  PROVE  /\ NoFrameHas(a)
         /\ \A g \in Goroutines : copy[g].at # a
         /\ \A r \in results : r.at # a
<1>1. NoFrameHas(a) BY DEF NoFrameHas, IInv, FrameInv
<1>2. \A g \in Goroutines : copy[g].at # a
  BY PoolAssumption DEF IInv, CopyInv
<1>3. \A r \in results : r.at # a BY DEF IInv, ResultInv
<1> QED BY <1>1, <1>2, <1>3

\* Get gives out such a block.
LEMMA GetFree == ASSUME IInv, NEW a \in Blocks, Get(a) PROVE ~ Taken(a)
  BY DEF Get, Fresh, Free, Taken, IInv, TypeOK

\* It is then taken, and nothing else changes hands.
LEMMA GetTakes ==
  ASSUME IInv, NEW a \in Blocks, Get(a)
  PROVE  /\ capacity' \in [Blocks -> Nat] /\ pooled' \in [Blocks -> Nat]
         /\ pooled'[a] = 0 /\ capacity'[a] > 0
         /\ \A b \in Blocks \ {a} : pooled'[b] = pooled[b] /\ capacity'[b] = capacity[b]
<1>1. /\ capacity \in [Blocks -> Nat] /\ pooled \in [Blocks -> Nat]
      /\ pooled[a] <= 1
      /\ pooled[a] > 0 => capacity[a] > 0
  BY DEF IInv, TypeOK, PoolInv
<1>2. CASE pooled[a] > 0 /\ pooled' = [pooled EXCEPT ![a] = @ - 1] /\ capacity' = capacity
  BY <1>1, <1>2
<1>3. CASE Fresh(a) /\ capacity' = [capacity EXCEPT ![a] = 1] /\ pooled' = pooled
  BY <1>1, <1>3 DEF Fresh, Free, IInv, PoolInv
<1> QED BY <1>2, <1>3 DEF Get

LEMMA Borrow ==
  ASSUME IInv, NEW g \in Goroutines, NEW a \in Blocks, NEW f \in Frame,
         Get(a), Pushed(g, f), f.buf = a, f.wrote = <<>>,
         Depth(g) = 0 => f.kind = "call", pc[g] # "reset",
         pc' = [pc EXCEPT ![g] = "reset"],
         calls' \in 0 .. MaxCalls,
         UNCHANGED <<bytes, copy, results>>
  PROVE  IInv'
<1>1. /\ TypeOK /\ PoolInv /\ FrameInv /\ CopyInv /\ ResultInv /\ ControlInv /\ IntactInv
      /\ UNCHANGED <<bytes, copy, results>>
  BY DEF IInv
<1>2. /\ capacity' \in [Blocks -> Nat] /\ pooled' \in [Blocks -> Nat]
      /\ pooled'[a] = 0 /\ capacity'[a] > 0
      /\ \A b \in Blocks \ {a} : pooled'[b] = pooled[b] /\ capacity'[b] = capacity[b]
  BY GetTakes
<1>3. /\ NoFrameHas(a)
      /\ \A h \in Goroutines : copy[h].at # a
      /\ \A r \in results : r.at # a
  BY GetFree, Untaken
<1>4. \A h \in Goroutines : Len(frames[h]) \in Nat BY <1>1, FrameTypes
<1>5. \A h \in Goroutines : \A i \in Levels(h)' :
        \/ h = g /\ i = Depth(g) + 1 /\ (frames[h][i])' = f
        \/ i \in Levels(h) /\ (frames[h][i])' = frames[h][i]
  BY <1>4 DEF Pushed, OthersKept, Levels, Depth
<1>6. /\ Taken(a)'
      /\ \A b \in Blocks : Taken(b) => Taken(b)'
  BY <1>2 DEF Taken
<1>7. TypeOK' BY <1>1, <1>2 DEF TypeOK, Pushed
<1>8. PoolInv' BY <1>1, <1>2 DEF PoolInv
<1>9. FrameInv'
  <2>1. \A h \in Goroutines : \A i \in Levels(h)' : Taken(Buf(h, i))'
    BY <1>1, <1>5, <1>6 DEF FrameInv, Buf, Taken
  <2>2. ASSUME NEW h \in Goroutines, NEW k \in Goroutines,
               NEW i \in Levels(h)', NEW j \in Levels(k)', (Buf(h, i) = Buf(k, j))'
        PROVE  h = k /\ i = j
    BY <1>1, <1>3, <1>5, <2>2 DEF FrameInv, NoFrameHas, Buf
  <2> QED BY <2>1, <2>2 DEF FrameInv
<1>10. \A b : NoFrameHas(b) /\ b # a => NoFrameHas(b)'
  BY <1>5 DEF NoFrameHas, Buf
<1>11. CopyInv' BY <1>1, <1>3, <1>6, <1>10 DEF CopyInv, Taken
<1>12. ResultInv' BY <1>1, <1>3, <1>6, <1>10 DEF ResultInv, Taken
<1>13. ControlInv'
  <2>1. \A h \in Goroutines \ {g} : frames'[h] = frames[h] /\ pc'[h] = pc[h]
    BY <1>1 DEF Pushed, OthersKept, TypeOK
  <2>2. pc'[g] = "reset" /\ Len(frames'[g]) > 0 BY <1>1, <1>4 DEF Pushed, TypeOK
  <2>3. frames'[g][1].kind = "call"
    <3>1. CASE Depth(g) = 0 BY <3>1 DEF Depth, Pushed
    <3>2. CASE Depth(g) # 0 BY <1>1, <1>4, <3>2 DEF Depth, Pushed, ControlInv
    <3> QED BY <3>1, <3>2
  <2>4. ASSUME NEW h \in Goroutines
        PROVE  /\ (pc[h] = "idle" <=> Depth(h) = 0)'
               /\ (Depth(h) # 0 => frames[h][1].kind = "call")'
               /\ (pc[h] = "reset" => Top(h).wrote = <<>>)'
               /\ (pc[h] = "put" /\ Top(h).kind = "call" => copy[h].at # 0)'
               /\ (pc[h] = "append" => copy[h].at # 0)'
    <3>1. CASE h = g BY <1>1, <2>2, <2>3, <3>1 DEF Depth, Top, Pushed
    <3>2. CASE h # g BY <1>1, <2>1, <3>2 DEF Depth, Top, ControlInv
    <3> QED BY <3>1, <3>2
  <2> QED BY <2>4, Zenon DEF ControlInv
<1>14. IntactInv'
  <2>1. ASSUME NEW h \in Goroutines, NEW i \in Levels(h)',
               i < Depth(h)' \/ pc'[h] # "reset"
        PROVE  bytes[(Buf(h, i))'] = frames'[h][i].wrote
    <3>1. h = g => pc'[h] = "reset" /\ Depth(h)' = Depth(g) + 1
      BY <1>1 DEF TypeOK, Pushed, Depth
    <3>2. h # g => pc'[h] = pc[h] /\ Depth(h)' = Depth(h)
      BY <1>1 DEF TypeOK, Pushed, OthersKept, Depth
    <3>3. i \in Levels(h) /\ frames'[h][i] = frames[h][i]
      BY <1>4, <1>5, <2>1, <3>1, <3>2 DEF Levels, Depth
    <3>4. i < Depth(h) \/ pc[h] # "reset" BY <2>1, <3>1, <3>2
    <3> QED BY <1>1, <3>3, <3>4 DEF IntactInv, Buf
  <2> QED BY <1>1, <2>1 DEF IntactInv
<1> QED BY <1>7, <1>8, <1>9, <1>11, <1>12, <1>13, <1>14 DEF IInv
-----------------------------------------------------------------------------
(* Writing into a buffer *)

\* The frames keep their buffers.
SameBuffers ==
  /\ frames' \in [Goroutines -> Seq(Frame)]
  /\ \A h \in Goroutines :
       /\ Len(frames'[h]) = Len(frames[h])
       /\ \A i \in 1 .. Len(frames[h]) : frames'[h][i].buf = frames[h][i].buf

\* The block of frame n of g may change, and grow, and no other.
OnlyInto(b) ==
  /\ bytes' \in [Blocks -> Seq(Tags)] /\ capacity' \in [Blocks -> Nat]
  /\ \A a \in Blocks \ {b} : bytes'[a] = bytes[a] /\ capacity'[a] = capacity[a]
  /\ capacity'[b] >= capacity[b]

LEMMA OwnersKept ==
  ASSUME IInv, NEW b \in Blocks, ~ NoFrameHas(b),
         SameBuffers, OnlyInto(b), UNCHANGED <<pooled, copy, results>>
  PROVE  PoolInv' /\ FrameInv' /\ CopyInv' /\ ResultInv'
<1>1. /\ TypeOK /\ PoolInv /\ FrameInv /\ CopyInv /\ ResultInv
      /\ pooled' = pooled /\ copy' = copy /\ results' = results
  BY DEF IInv
<1>2. Taken(b) BY <1>1 DEF FrameInv, NoFrameHas
<1>3. \A a : Taken(a) => Taken(a)'
  <2>1. capacity[b] \in Nat /\ capacity'[b] \in Nat /\ capacity'[b] >= capacity[b]
    BY <1>1 DEF TypeOK, OnlyInto
  <2>2. capacity'[b] > 0 BY <1>2, <2>1 DEF Taken
  <2> QED BY <1>1, <2>2 DEF Taken, OnlyInto
<1>4. PoolInv'
  <2> SUFFICES ASSUME NEW a \in Blocks
               PROVE  pooled[a] <= 1 /\ (pooled[a] > 0 => capacity'[a] > 0 /\ capacity'[a] <= Limit)
    BY <1>1 DEF PoolInv
  <2>1. CASE a = b BY <1>2, <2>1 DEF Taken
  <2>2. CASE a # b BY <1>1, <2>2 DEF PoolInv, OnlyInto
  <2> QED BY <2>1, <2>2
<1>5. \A h \in Goroutines : Levels(h)' = Levels(h)
  BY DEF SameBuffers, Levels, Depth
<1>6. \A h \in Goroutines : \A i \in Levels(h) : Buf(h, i)' = Buf(h, i)
  BY DEF SameBuffers, Levels, Depth, Buf
<1>7. FrameInv' BY <1>1, <1>3, <1>5, <1>6 DEF FrameInv
<1>8. \A a : NoFrameHas(a) => a # b /\ NoFrameHas(a)'
  BY <1>5, <1>6 DEF NoFrameHas
<1>9. \A a \in Blocks : NoFrameHas(a) => bytes'[a] = bytes[a]
  BY <1>8 DEF OnlyInto
<1>10. CopyInv'
  <2> SUFFICES ASSUME NEW g \in Goroutines, copy[g].at # 0
               PROVE  /\ Taken(copy[g].at)'
                      /\ bytes'[copy[g].at] = copy[g].want
                      /\ NoFrameHas(copy[g].at)'
                      /\ \A h \in Goroutines : copy[h].at = copy[g].at => h = g
    BY <1>1 DEF CopyInv
  <2>1. /\ Taken(copy[g].at) /\ NoFrameHas(copy[g].at)
        /\ bytes[copy[g].at] = copy[g].want
        /\ \A h \in Goroutines : copy[h].at = copy[g].at => h = g
    BY <1>1 DEF CopyInv
  <2> QED BY <1>3, <1>8, <1>9, <2>1 DEF Taken
<1>11. ResultInv' BY <1>1, <1>3, <1>8, <1>9 DEF ResultInv, Taken
<1> QED BY <1>4, <1>7, <1>10, <1>11

\* The content of the buffers, when frame n of g is the only one to change.
LEMMA ContentKept ==
  ASSUME IInv, NEW g \in Goroutines, NEW n \in Levels(g), SameBuffers,
         \A a \in Blocks \ {Buf(g, n)} : NoFrameHas(a) \/ bytes'[a] = bytes[a],
         \A h \in Goroutines : \A i \in Levels(h) :
           (h = g /\ i = n) \/ frames'[h][i].wrote = frames[h][i].wrote,
         \A h \in Goroutines : h = g \/ pc'[h] = pc[h],
         pc[g] # "reset" \/ n = Depth(g),
         bytes'[Buf(g, n)] = frames'[g][n].wrote
  PROVE  IntactInv'
<1>1. TypeOK /\ FrameInv /\ IntactInv BY DEF IInv
<1>2. /\ \A h \in Goroutines : Levels(h)' = Levels(h) /\ Depth(h)' = Depth(h)
      /\ \A h \in Goroutines : \A i \in Levels(h) : Buf(h, i)' = Buf(h, i)
  BY DEF SameBuffers, Levels, Depth, Buf
<1>3. SUFFICES ASSUME NEW h \in Goroutines, NEW i \in Levels(h),
                      i < Depth(h) \/ pc'[h] # "reset"
               PROVE  bytes'[Buf(h, i)] = frames'[h][i].wrote
  BY <1>2 DEF IntactInv
<1>4. CASE h = g /\ i = n BY <1>4
<1>5. CASE ~ (h = g /\ i = n)
  <2>1. Buf(h, i) \in Blocks \ {Buf(g, n)} /\ ~ NoFrameHas(Buf(h, i))
    BY <1>1, <1>5 DEF FrameInv, Taken, NoFrameHas
  <2>2. Len(frames[g]) \in Nat BY <1>1, FrameTypes
  <2>3. i < Depth(h) \/ pc[h] # "reset"
    BY <1>3, <1>5, <2>2 DEF Levels, Depth
  <2> QED BY <1>1, <1>5, <2>1, <2>3 DEF IntactInv
<1> QED BY <1>4, <1>5

\* A goroutine at work has an innermost frame.
LEMMA Busy ==
  ASSUME IInv, NEW g \in Goroutines, pc[g] # "idle"
  PROVE  /\ Depth(g) \in Nat /\ Depth(g) # 0 /\ Depth(g) \in Levels(g)
         /\ Depth(g) = Len(frames[g])
         /\ Top(g) = frames[g][Depth(g)]
         /\ Top(g).buf = Buf(g, Depth(g))
         /\ Top(g).tag \in Tags /\ Top(g).wrote \in Seq(Tags)
         /\ Top(g).kind \in {"call", "any"}
         /\ \A i \in Levels(g) : Taken(Buf(g, i)) /\ ~ NoFrameHas(Buf(g, i))
<1>1. TypeOK /\ ControlInv /\ FrameInv BY DEF IInv
<1>2. Depth(g) \in Nat /\ Depth(g) # 0
  BY <1>1, FrameTypes DEF ControlInv, Depth
<1>3. Depth(g) \in 1 .. Len(frames[g]) BY <1>2 DEF Depth
<1>4. \A i \in Levels(g) : Taken(Buf(g, i)) /\ ~ NoFrameHas(Buf(g, i))
  BY <1>1 DEF FrameInv, NoFrameHas
<1>5. /\ Top(g).tag \in Tags /\ Top(g).wrote \in Seq(Tags)
      /\ Top(g).kind \in {"call", "any"}
  BY <1>1, <1>3, FrameTypes DEF Top
<1> QED BY <1>2, <1>3, <1>4, <1>5 DEF Levels, Depth, Top, Buf

LEMMA ControlKept ==
  ASSUME IInv, NEW g \in Goroutines, OthersKept(g),
         \A h \in Goroutines \ {g} : pc'[h] = pc[h] /\ copy'[h] = copy[h],
         pc'[g] = "idle" <=> Len(frames'[g]) = 0,
         Len(frames'[g]) # 0 => frames'[g][1].kind = "call",
         pc'[g] = "reset" => Top(g)'.wrote = <<>>,
         pc'[g] = "put" /\ Top(g)'.kind = "call" => copy'[g].at # 0,
         pc'[g] = "append" => copy'[g].at # 0
  PROVE  ControlInv'
<1>1. ControlInv BY DEF IInv
<1>2. ASSUME NEW h \in Goroutines
      PROVE  /\ (pc[h] = "idle" <=> Depth(h) = 0)'
             /\ (Depth(h) # 0 => frames[h][1].kind = "call")'
             /\ (pc[h] = "reset" => Top(h).wrote = <<>>)'
             /\ (pc[h] = "put" /\ Top(h).kind = "call" => copy[h].at # 0)'
             /\ (pc[h] = "append" => copy[h].at # 0)'
  <2>1. CASE h = g BY <2>1 DEF Depth
  <2>2. CASE h # g BY <1>1, <2>2 DEF Depth, Top, ControlInv, OthersKept
  <2> QED BY <2>1, <2>2
<1> QED BY <1>2, Zenon DEF ControlInv

LEMMA AppendedShape ==
  ASSUME TypeOK, NEW a \in Blocks, NEW new \in Seq(Tags), Appended(a, new)
  PROVE  OnlyInto(a) /\ bytes'[a] = bytes[a] \o new
<1>1. bytes[a] \in Seq(Tags) /\ capacity[a] \in Nat BY DEF TypeOK
<1>2. bytes[a] \o new \in Seq(Tags) /\ Len(bytes[a] \o new) \in Nat
  BY <1>1, ConcatProperties, LenProperties
<1> DEFINE c == IF Len(bytes[a] \o new) > capacity[a] THEN Len(bytes[a] \o new) ELSE capacity[a]
<1>3. c \in Nat /\ c >= capacity[a] BY <1>1, <1>2
<1>4. /\ bytes' = [bytes EXCEPT ![a] = bytes[a] \o new]
      /\ capacity' = [capacity EXCEPT ![a] = c]
  BY DEF Appended
<1> HIDE DEF c
<1> QED BY <1>2, <1>3, <1>4 DEF OnlyInto, TypeOK

LEMMA ResetStep == ASSUME IInv, NEW g \in Goroutines, Reset(g) PROVE IInv'
<1>1. /\ TypeOK /\ ControlInv /\ pc[g] = "reset"
      /\ bytes' = [bytes EXCEPT ![Top(g).buf] = <<>>]
      /\ pc' = [pc EXCEPT ![g] = "write"]
      /\ UNCHANGED <<capacity, pooled, frames, copy, calls, results>>
  BY DEF IInv, Reset
<1>2. /\ Depth(g) \in Levels(g) /\ Top(g).buf = Buf(g, Depth(g))
      /\ Taken(Top(g).buf) /\ ~ NoFrameHas(Top(g).buf)
      /\ Depth(g) # 0 /\ Depth(g) = Len(frames[g]) /\ Top(g) = frames[g][Depth(g)]
  BY <1>1, Busy
<1>3. TypeOK'
  <2>1. /\ bytes \in [Blocks -> Seq(Tags)] /\ <<>> \in Seq(Tags)
        /\ pc \in [Goroutines -> {"idle", "reset", "write", "put", "append", "fail"}]
    BY <1>1, EmptySeq DEF TypeOK
  <2>2. bytes' \in [Blocks -> Seq(Tags)] BY <1>1, <2>1
  <2>3. pc' \in [Goroutines -> {"idle", "reset", "write", "put", "append", "fail"}]
    BY <1>1, <2>1
  <2> QED BY <1>1, <2>2, <2>3 DEF TypeOK
<1>4. SameBuffers BY <1>1 DEF SameBuffers, TypeOK
<1>5. OnlyInto(Top(g).buf) /\ bytes'[Top(g).buf] = <<>>
  <2>1. capacity[Top(g).buf] \in Nat BY <1>1, <1>2 DEF TypeOK, Taken
  <2> QED BY <1>1, <1>2, <2>1 DEF OnlyInto, TypeOK, Taken
<1>6. PoolInv' /\ FrameInv' /\ CopyInv' /\ ResultInv'
  BY <1>1, <1>2, <1>4, <1>5, OwnersKept DEF Taken
<1>7. ControlInv'
  <2>1. pc'[g] = "write" /\ OthersKept(g)
        /\ \A h \in Goroutines \ {g} : pc'[h] = pc[h] /\ copy'[h] = copy[h]
    BY <1>1 DEF TypeOK, OthersKept
  <2>2. Len(frames'[g]) # 0 /\ frames'[g][1].kind = "call"
    BY <1>1, <1>2 DEF ControlInv, Depth
  <2> QED BY <2>1, <2>2, ControlKept
<1>8. Top(g).wrote = <<>> BY <1>1 DEF ControlInv
<1>9. IntactInv'
  <2>1. bytes'[Buf(g, Depth(g))] = frames'[g][Depth(g)].wrote
    BY <1>1, <1>2, <1>5, <1>8
  <2> QED BY <1>1, <1>2, <1>4, <1>5, <2>1, ContentKept DEF TypeOK, OnlyInto
<1> QED BY <1>3, <1>6, <1>7, <1>9 DEF IInv

\* Write and marshalAny append to a buffer that they hold.
LEMMA AppendInto ==
  ASSUME IInv, NEW g \in Goroutines, NEW n \in Levels(g), NEW new \in Seq(Tags),
         pc[g] = "write", Appended(Buf(g, n), new),
         frames' = [frames EXCEPT ![g][n].wrote = @ \o new],
         \/ pc' = pc
         \/ Top(g).kind = "any" /\ pc' = [pc EXCEPT ![g] = "put"],
         UNCHANGED <<pooled, copy, calls, results>>
  PROVE  IInv'
<1>1. /\ TypeOK /\ ControlInv /\ IntactInv /\ pc[g] = "write"
      /\ UNCHANGED <<pooled, copy, calls, results>>
      /\ \/ pc' = pc
         \/ Top(g).kind = "any" /\ pc' = [pc EXCEPT ![g] = "put"]
  BY DEF IInv
<1>2. /\ Depth(g) \in Nat /\ Depth(g) # 0 /\ Depth(g) = Len(frames[g])
      /\ Top(g) = frames[g][Depth(g)]
      /\ Taken(Buf(g, n)) /\ ~ NoFrameHas(Buf(g, n))
  BY <1>1, Busy
<1>3. OnlyInto(Buf(g, n)) /\ bytes'[Buf(g, n)] = bytes[Buf(g, n)] \o new
  BY <1>1, <1>2, AppendedShape DEF Taken
<1>4. n \in 1 .. Len(frames[g]) BY DEF Levels, Depth
<1>5. Rewrote(g, n, new) BY <1>1, <1>4, RewriteShape
<1>6. SameBuffers BY <1>5 DEF Rewrote, OthersKept, SameBuffers
<1>7. PoolInv' /\ FrameInv' /\ CopyInv' /\ ResultInv'
  BY <1>1, <1>2, <1>3, <1>6, OwnersKept DEF Taken
<1>8. /\ \A h \in Goroutines \ {g} : pc'[h] = pc[h] /\ copy'[h] = copy[h]
      /\ pc'[g] = "write" \/ (pc'[g] = "put" /\ Top(g).kind = "any")
  BY <1>1 DEF TypeOK
<1>9. TypeOK'
  <2>1. pc \in [Goroutines -> {"idle", "reset", "write", "put", "append", "fail"}]
    BY <1>1 DEF TypeOK
  <2>2. pc' \in [Goroutines -> {"idle", "reset", "write", "put", "append", "fail"}]
    BY <1>1, <2>1
  <2> QED BY <1>1, <1>3, <1>5, <2>2 DEF TypeOK, OnlyInto, Rewrote
<1>10. ControlInv'
  <2>1. Len(frames'[g]) = Len(frames[g]) /\ frames'[g][1].kind = "call"
    BY <1>1, <1>2, <1>5 DEF ControlInv, Rewrote
  <2>2. Top(g)'.kind = Top(g).kind
    BY <1>2, <1>5, <2>1 DEF Top, Depth, Rewrote
  <2> QED BY <1>2, <1>5, <1>8, <2>1, <2>2, ControlKept DEF Rewrote
<1>11. IntactInv'
  <2>1. bytes[Buf(g, n)] = frames[g][n].wrote BY <1>1 DEF IntactInv
  <2>2. bytes'[Buf(g, n)] = frames'[g][n].wrote
    BY <1>3, <1>5, <2>1 DEF Rewrote
  <2>3. \A h \in Goroutines : \A i \in Levels(h) :
          (h = g /\ i = n) \/ frames'[h][i].wrote = frames[h][i].wrote
    BY <1>5 DEF Rewrote, OthersKept, Levels, Depth
  <2>4. \A a \in Blocks \ {Buf(g, n)} : bytes'[a] = bytes[a]
    BY <1>3 DEF OnlyInto
  <2> QED BY <1>1, <1>6, <1>8, <2>2, <2>3, <2>4, ContentKept
<1> QED BY <1>7, <1>9, <1>10, <1>11 DEF IInv

LEMMA WriteStep == ASSUME IInv, NEW g \in Goroutines, Write(g) PROVE IInv'
<1> DEFINE n == Depth(g)
           new == <<Top(g).tag>>
<1>1. /\ TypeOK /\ pc[g] = "write" /\ pc' = pc
      /\ Appended(Top(g).buf, new)
      /\ frames' = [frames EXCEPT ![g][n].wrote = @ \o new]
      /\ UNCHANGED <<pooled, copy, calls, results>>
  BY DEF IInv, Write, Wrote
<1>2. n \in Levels(g) /\ Top(g).buf = Buf(g, n) /\ Top(g).tag \in Tags
  BY <1>1, Busy
<1>3. new \in Seq(Tags) BY <1>2
<1> HIDE DEF n, new
<1> QED BY <1>1, <1>2, <1>3, AppendInto

LEMMA AppendAnyStep == ASSUME IInv, NEW g \in Goroutines, AppendAny(g) PROVE IInv'
<1> DEFINE n == Depth(g) - 1
<1>1. /\ TypeOK /\ ControlInv /\ IntactInv
      /\ pc[g] = "write" /\ Top(g).kind = "any"
      /\ Appended(frames[g][n].buf, bytes[Top(g).buf])
      /\ frames' = [frames EXCEPT ![g][n].wrote = @ \o Top(g).wrote]
      /\ pc' = [pc EXCEPT ![g] = "put"]
      /\ UNCHANGED <<pooled, copy, calls, results>>
  BY DEF IInv, AppendAny
<1>2. /\ Depth(g) \in Nat /\ Depth(g) # 0 /\ Depth(g) \in Levels(g)
      /\ Top(g) = frames[g][Depth(g)] /\ Top(g).buf = Buf(g, Depth(g))
      /\ Top(g).wrote \in Seq(Tags)
  BY <1>1, Busy
<1>3. Depth(g) # 1 BY <1>1, <1>2 DEF ControlInv
<1>4. n \in Levels(g) BY <1>2, <1>3 DEF Levels
<1>5. frames[g][n].buf = Buf(g, n) BY DEF Buf
<1>6. bytes[Top(g).buf] = Top(g).wrote BY <1>1, <1>2 DEF IntactInv
<1> HIDE DEF n
<1> QED BY <1>1, <1>2, <1>4, <1>5, <1>6, AppendInto

LEMMA AppendFieldStep ==
  ASSUME IInv, NEW g \in Goroutines, AppendField(g) PROVE IInv'
<1> DEFINE n == Depth(g)
           b == Top(g).buf
           c == copy[g].at
           new == copy[g].want
           longer == Len(bytes[b] \o bytes[c])
           size == IF longer > capacity[b] THEN longer ELSE capacity[b]
<1>1. /\ TypeOK /\ PoolInv /\ FrameInv /\ CopyInv /\ ResultInv /\ ControlInv /\ IntactInv
      /\ pc[g] = "append"
      /\ frames' = [frames EXCEPT ![g][n].wrote = @ \o new]
      /\ copy' = [copy EXCEPT ![g] = NoCopy]
      /\ pc' = [pc EXCEPT ![g] = "write"]
      /\ UNCHANGED <<pooled, calls, results>>
  BY DEF IInv, AppendField, Wrote
<1>2. /\ n \in Levels(g) /\ b = Buf(g, n) /\ n # 0 /\ n = Len(frames[g])
      /\ Taken(b) /\ ~ NoFrameHas(b)
  BY <1>1, Busy
<1>3. /\ c # 0 /\ Taken(c) /\ bytes[c] = new /\ NoFrameHas(c) /\ b # c
      /\ \A h \in Goroutines : copy[h].at = c => h = g
  BY <1>1, <1>2 DEF ControlInv, CopyInv
<1>4. /\ bytes[b] \in Seq(Tags) /\ new \in Seq(Tags) /\ capacity[b] \in Nat
      /\ pooled \in [Blocks -> Nat]
  BY <1>1, <1>2, <1>3 DEF TypeOK, Taken
<1>5. bytes[b] \o new \in Seq(Tags) /\ longer \in Nat
  BY <1>3, <1>4, ConcatProperties, LenProperties
<1>6. size \in Nat /\ size > 0
  <2> HIDE DEF longer
  <2>1. capacity[b] \in Nat /\ capacity[b] > 0 /\ longer \in Nat
    BY <1>2, <1>4, <1>5 DEF Taken
  <2> QED BY <2>1
<1>7. /\ bytes' = [bytes EXCEPT ![b] = bytes[b] \o new, ![c] = <<>>]
      /\ capacity' = [capacity EXCEPT ![b] = size, ![c] = 0]
  BY <1>3 DEF AppendField
<1> HIDE DEF size
<1>8. n \in 1 .. Len(frames[g]) /\ n = Depth(g) BY <1>2 DEF Levels, Depth
<1> HIDE DEF n, b, c, new
<1>9. Rewrote(g, n, new) BY <1>1, <1>4, <1>8, RewriteShape
<1>10. SameBuffers BY <1>9 DEF Rewrote, OthersKept, SameBuffers
<1>11. /\ bytes' \in [Blocks -> Seq(Tags)] /\ capacity' \in [Blocks -> Nat]
       /\ bytes'[b] = bytes[b] \o new /\ capacity'[b] > 0 /\ capacity'[c] = 0
       /\ \A a \in Blocks \ {b, c} : bytes'[a] = bytes[a] /\ capacity'[a] = capacity[a]
  <2>1. bytes \in [Blocks -> Seq(Tags)] /\ capacity \in [Blocks -> Nat]
        /\ b \in Blocks /\ c \in Blocks
    BY <1>1, <1>2, <1>3 DEF TypeOK, Taken
  <2>2. <<>> \in Seq(Tags) BY EmptySeq
  <2> QED BY <1>3, <1>5, <1>6, <1>7, <2>1, <2>2
<1>12. TypeOK'
  <2>1. pc' \in [Goroutines -> {"idle", "reset", "write", "put", "append", "fail"}]
    BY <1>1 DEF TypeOK
  <2>2. NoCopy \in Copy BY EmptySeq DEF NoCopy, Copy
  <2>3. copy' \in [Goroutines -> Copy] BY <1>1, <2>2 DEF TypeOK
  <2> QED BY <1>1, <1>9, <1>11, <2>1, <2>3 DEF TypeOK, Rewrote
<1>13. \A a : Taken(a) /\ a # c => Taken(a)' BY <1>1, <1>11 DEF Taken
<1>14. PoolInv'
  <2> SUFFICES ASSUME NEW a \in Blocks
               PROVE  pooled[a] <= 1 /\ (pooled[a] > 0 => capacity'[a] > 0 /\ capacity'[a] <= Limit)
    BY <1>1 DEF PoolInv
  <2>1. CASE a = b \/ a = c BY <1>2, <1>3, <2>1 DEF Taken
  <2>2. CASE a \in Blocks \ {b, c} BY <1>1, <1>11, <2>2 DEF PoolInv
  <2> QED BY <2>1, <2>2
<1>15. /\ \A h \in Goroutines : Levels(h)' = Levels(h)
       /\ \A h \in Goroutines : \A i \in Levels(h) : Buf(h, i)' = Buf(h, i)
  BY <1>10 DEF SameBuffers, Levels, Depth, Buf
<1>16. FrameInv' BY <1>1, <1>3, <1>13, <1>15 DEF FrameInv, NoFrameHas
<1>17. \A a : NoFrameHas(a) => a # b /\ NoFrameHas(a)'
  BY <1>2, <1>15 DEF NoFrameHas
<1>18. copy'[g].at = 0 /\ \A h \in Goroutines \ {g} : copy'[h] = copy[h]
  BY <1>1 DEF TypeOK, NoCopy
<1>19. CopyInv'
  <2> SUFFICES ASSUME NEW h \in Goroutines, copy'[h].at # 0
               PROVE  /\ Taken(copy[h].at)'
                      /\ bytes'[copy'[h].at] = copy'[h].want
                      /\ NoFrameHas(copy[h].at)'
                      /\ \A k \in Goroutines : copy'[k].at = copy'[h].at => k = h
    BY DEF CopyInv
  <2>1. h # g /\ copy'[h] = copy[h] BY <1>18
  <2>2. /\ Taken(copy[h].at) /\ NoFrameHas(copy[h].at)
        /\ bytes[copy[h].at] = copy[h].want
        /\ \A k \in Goroutines : copy[k].at = copy[h].at => k = h
    BY <1>1, <2>1 DEF CopyInv
  <2>3. copy[h].at # c BY <1>3, <2>1
  <2>4. copy[h].at \in Blocks \ {b, c} BY <1>17, <2>2, <2>3 DEF Taken
  <2>5. bytes'[copy[h].at] = copy[h].want BY <1>11, <2>2, <2>4
  <2>6. \A k \in Goroutines : copy'[k].at = copy'[h].at => k = h
    BY <1>18, <2>1, <2>2
  <2>7. Taken(copy[h].at)' BY <1>11, <1>1, <2>1, <2>2, <2>4 DEF Taken
  <2>8. NoFrameHas(copy[h].at)' BY <1>15, <2>1, <2>2 DEF NoFrameHas
  <2> QED BY <2>1, <2>5, <2>6, <2>7, <2>8
<1>20. ResultInv'
  <2> SUFFICES ASSUME NEW r \in results
               PROVE  /\ Taken(r.at)' /\ bytes'[r.at] = r.want /\ NoFrameHas(r.at)'
                      /\ \A k \in Goroutines : copy'[k].at # r.at
    BY <1>1 DEF ResultInv
  <2>1. /\ Taken(r.at) /\ NoFrameHas(r.at) /\ bytes[r.at] = r.want
        /\ \A k \in Goroutines : copy[k].at # r.at
    BY <1>1 DEF ResultInv
  <2>2. r.at # c BY <2>1 DEF c
  <2>3. r.at # 0 BY <2>1, PoolAssumption DEF Taken
  <2>4. bytes'[r.at] = r.want BY <1>11, <1>17, <2>1, <2>2 DEF Taken
  <2> QED BY <1>13, <1>17, <1>18, <2>1, <2>2, <2>3, <2>4
<1>21. ControlInv'
  <2>1. Len(frames'[g]) = n /\ n # 0 /\ frames'[g][1].kind = "call"
    BY <1>1, <1>2, <1>8, <1>9 DEF ControlInv, Rewrote
  <2>2. pc'[g] = "write" /\ \A h \in Goroutines \ {g} : pc'[h] = pc[h]
    BY <1>1 DEF TypeOK
  <2> QED BY <1>9, <1>18, <2>1, <2>2, ControlKept DEF Rewrote
<1>22. IntactInv'
  <2>1. bytes[b] = frames[g][n].wrote BY <1>1, <1>2 DEF IntactInv
  <2>2. bytes'[Buf(g, n)] = frames'[g][n].wrote
    BY <1>2, <1>9, <1>11, <2>1 DEF Rewrote
  <2>3. \A h \in Goroutines : \A i \in Levels(h) :
          (h = g /\ i = n) \/ frames'[h][i].wrote = frames[h][i].wrote
    BY <1>9 DEF Rewrote, OthersKept, Levels, Depth
  <2>4. \A a \in Blocks \ {Buf(g, n)} : NoFrameHas(a) \/ bytes'[a] = bytes[a]
    BY <1>2, <1>3, <1>11
  <2>5. \A h \in Goroutines : h = g \/ pc'[h] = pc[h] BY <1>1 DEF TypeOK
  <2> QED BY <1>1, <1>2, <1>10, <2>2, <2>3, <2>4, <2>5, ContentKept
<1> QED BY <1>12, <1>14, <1>16, <1>19, <1>20, <1>21, <1>22 DEF IInv
-----------------------------------------------------------------------------
(* The other actions *)

LEMMA CallStep ==
  ASSUME IInv, NEW g \in Goroutines, NEW a \in Blocks, Call(g, a) PROVE IInv'
<1> DEFINE f == [buf |-> a, kind |-> "call", tag |-> calls + 1, wrote |-> <<>>]
<1>1. /\ TypeOK /\ ControlInv /\ pc[g] = "idle" /\ Get(a)
      /\ calls < MaxCalls /\ calls' = calls + 1
      /\ frames' = [frames EXCEPT ![g] = <<f>>]
      /\ pc' = [pc EXCEPT ![g] = "reset"]
      /\ UNCHANGED <<bytes, copy, results>>
  BY DEF IInv, Call
<1>2. calls + 1 \in Tags /\ calls' \in 0 .. MaxCalls
  BY <1>1, PoolAssumption DEF TypeOK, Tags
<1>3. f \in Frame /\ f.buf = a /\ f.wrote = <<>> /\ f.kind = "call"
  BY <1>2, EmptySeq DEF Frame
<1>4. Depth(g) = 0 BY <1>1 DEF ControlInv
<1> HIDE DEF f
<1>5. Pushed(g, f) BY <1>1, <1>3, <1>4, PushShape
<1> QED BY <1>1, <1>2, <1>3, <1>5, Borrow

LEMMA NestStep ==
  ASSUME IInv, NEW g \in Goroutines, NEW a \in Blocks, NEW kind \in {"call", "any"},
         Nest(g, kind, a)
  PROVE  IInv'
<1> DEFINE f == [buf |-> a, kind |-> kind, tag |-> Top(g).tag, wrote |-> <<>>]
<1>1. /\ TypeOK /\ pc[g] = "write" /\ Get(a)
      /\ frames' = [frames EXCEPT ![g] = Append(@, f)]
      /\ pc' = [pc EXCEPT ![g] = "reset"]
      /\ UNCHANGED <<bytes, copy, calls, results>>
  BY DEF IInv, Nest
<1>2. Top(g).tag \in Tags /\ Depth(g) # 0 BY <1>1, Busy
<1>3. f \in Frame /\ f.buf = a /\ f.wrote = <<>> BY <1>2, EmptySeq DEF Frame
<1>4. calls' \in 0 .. MaxCalls BY <1>1 DEF TypeOK
<1> HIDE DEF f
<1>5. Pushed(g, f) BY <1>1, <1>3, PushShape
<1> QED BY <1>1, <1>2, <1>3, <1>4, <1>5, Borrow

LEMMA CopyOutStep ==
  ASSUME IInv, NEW g \in Goroutines, NEW a \in Blocks, CopyOut(g, a) PROVE IInv'
<1> DEFINE b == Top(g).buf
           new == Top(g).wrote
<1>1. /\ TypeOK /\ PoolInv /\ FrameInv /\ CopyInv /\ ResultInv /\ ControlInv /\ IntactInv
      /\ pc[g] = "write" /\ Top(g).kind = "call" /\ Fresh(a)
      /\ bytes' = [bytes EXCEPT ![a] = bytes[b]]
      /\ capacity' = [capacity EXCEPT ![a] = Len(bytes[b]) + 1]
      /\ copy' = [copy EXCEPT ![g] = [at |-> a, want |-> new]]
      /\ pc' = [pc EXCEPT ![g] = "put"]
      /\ UNCHANGED <<pooled, frames, calls, results>>
  BY DEF IInv, CopyOut
<1>2. /\ Depth(g) \in Levels(g) /\ b = Buf(g, Depth(g)) /\ Depth(g) # 0
      /\ Depth(g) = Len(frames[g]) /\ Top(g) = frames[g][Depth(g)]
      /\ new \in Seq(Tags) /\ Taken(b) /\ ~ NoFrameHas(b)
  BY <1>1, Busy
<1>3. ~ Taken(a) /\ capacity[a] = 0 BY <1>1 DEF Fresh, Free, Taken, TypeOK
<1>4. /\ NoFrameHas(a) /\ a # b /\ a # 0
      /\ \A h \in Goroutines : copy[h].at # a
      /\ \A r \in results : r.at # a
  BY <1>2, <1>3, Untaken, PoolAssumption
<1>5. bytes[b] = new BY <1>1, <1>2 DEF IntactInv
<1>6. Len(new) \in Nat BY <1>2, LenProperties
<1> HIDE DEF b, new
<1>7. /\ bytes' \in [Blocks -> Seq(Tags)] /\ capacity' \in [Blocks -> Nat]
      /\ bytes'[a] = new /\ capacity'[a] > 0
      /\ \A x \in Blocks \ {a} : bytes'[x] = bytes[x] /\ capacity'[x] = capacity[x]
  <2>1. bytes \in [Blocks -> Seq(Tags)] /\ capacity \in [Blocks -> Nat] BY <1>1 DEF TypeOK
  <2> QED BY <1>1, <1>2, <1>5, <1>6, <2>1
<1>8. pooled[a] = 0
  <2>1. pooled[a] \in Nat BY <1>1 DEF TypeOK
  <2>2. ~ (pooled[a] > 0) BY <1>1, <1>3 DEF PoolInv
  <2> QED BY <2>1, <2>2
<1>9. /\ copy'[g] = [at |-> a, want |-> new] /\ pc'[g] = "put"
      /\ \A h \in Goroutines \ {g} : copy'[h] = copy[h] /\ pc'[h] = pc[h]
  BY <1>1 DEF TypeOK
<1>10. TypeOK'
  <2>1. pc \in [Goroutines -> {"idle", "reset", "write", "put", "append", "fail"}]
    BY <1>1 DEF TypeOK
  <2>2. pc' \in [Goroutines -> {"idle", "reset", "write", "put", "append", "fail"}]
    BY <1>1, <2>1
  <2>3. [at |-> a, want |-> new] \in Copy BY <1>2 DEF Copy
  <2>4. copy' \in [Goroutines -> Copy] BY <1>1, <2>3 DEF TypeOK
  <2> QED BY <1>1, <1>7, <2>2, <2>4 DEF TypeOK
<1>11. Taken(a)' /\ \A x : Taken(x) => Taken(x)'
  BY <1>1, <1>3, <1>7, <1>8 DEF Taken
<1>12. PoolInv'
  <2> SUFFICES ASSUME NEW x \in Blocks
               PROVE  pooled[x] <= 1 /\ (pooled[x] > 0 => capacity'[x] > 0 /\ capacity'[x] <= Limit)
    BY <1>1 DEF PoolInv
  <2>1. CASE x = a BY <1>8, <2>1
  <2>2. CASE x \in Blocks \ {a} BY <1>1, <1>7, <2>2 DEF PoolInv
  <2> QED BY <2>1, <2>2
<1>13. /\ \A h \in Goroutines : Levels(h)' = Levels(h) /\ Depth(h)' = Depth(h)
       /\ \A h \in Goroutines : \A i \in Levels(h) : Buf(h, i)' = Buf(h, i)
       /\ \A x : NoFrameHas(x) => NoFrameHas(x)'
  <2>1. /\ \A h \in Goroutines : Levels(h)' = Levels(h) /\ Depth(h)' = Depth(h)
        /\ \A h \in Goroutines : \A i \in Levels(h) : Buf(h, i)' = Buf(h, i)
    BY <1>1 DEF Levels, Depth, Buf
  <2> QED BY <2>1 DEF NoFrameHas
<1>14. FrameInv' BY <1>1, <1>11, <1>13 DEF FrameInv
<1>15. CopyInv'
  <2> SUFFICES ASSUME NEW h \in Goroutines, copy'[h].at # 0
               PROVE  /\ Taken(copy[h].at)'
                      /\ bytes'[copy'[h].at] = copy'[h].want
                      /\ NoFrameHas(copy[h].at)'
                      /\ \A k \in Goroutines : copy'[k].at = copy'[h].at => k = h
    BY DEF CopyInv
  <2>1. CASE h = g
    <3>1. copy'[h].at = a /\ copy'[h].want = new BY <1>9, <2>1
    <3>2. \A k \in Goroutines : copy'[k].at = a => k = h BY <1>4, <1>9, <2>1
    <3>3. Taken(copy[h].at)' BY <1>11, <3>1 DEF Taken
    <3>4. NoFrameHas(copy[h].at)' BY <1>1, <1>4, <3>1 DEF NoFrameHas, Levels, Depth, Buf
    <3> QED BY <1>7, <3>1, <3>2, <3>3, <3>4
  <2>2. CASE h # g
    <3>1. copy'[h] = copy[h] BY <1>9, <2>2
    <3>2. /\ Taken(copy[h].at) /\ NoFrameHas(copy[h].at)
          /\ bytes[copy[h].at] = copy[h].want /\ copy[h].at # a
          /\ \A k \in Goroutines : copy[k].at = copy[h].at => k = h
      BY <1>1, <1>4, <3>1 DEF CopyInv
    <3>3. \A k \in Goroutines : copy'[k].at = copy'[h].at => k = h
      BY <1>9, <3>1, <3>2
    <3>4. bytes'[copy[h].at] = copy[h].want BY <1>7, <3>2 DEF Taken
    <3>5. Taken(copy[h].at)' BY <1>1, <1>7, <3>1, <3>2 DEF Taken
    <3>6. NoFrameHas(copy[h].at)' BY <1>1, <3>1, <3>2 DEF NoFrameHas, Levels, Depth, Buf
    <3> QED BY <3>1, <3>3, <3>4, <3>5, <3>6
  <2> QED BY <2>1, <2>2
<1>16. ResultInv'
  <2> SUFFICES ASSUME NEW r \in results
               PROVE  /\ Taken(r.at)' /\ bytes'[r.at] = r.want /\ NoFrameHas(r.at)'
                      /\ \A k \in Goroutines : copy'[k].at # r.at
    BY <1>1 DEF ResultInv
  <2>1. /\ Taken(r.at) /\ NoFrameHas(r.at) /\ bytes[r.at] = r.want /\ r.at # a
        /\ \A k \in Goroutines : copy[k].at # r.at
    BY <1>1, <1>4 DEF ResultInv
  <2>2. bytes'[r.at] = r.want BY <1>7, <2>1 DEF Taken
  <2>3. \A k \in Goroutines : copy'[k].at # r.at BY <1>9, <2>1
  <2> QED BY <1>11, <1>13, <2>1, <2>2, <2>3
<1>17. ControlInv'
  <2>1. OthersKept(g) BY <1>1 DEF OthersKept
  <2>2. Len(frames'[g]) # 0 /\ frames'[g][1].kind = "call"
    BY <1>1, <1>2 DEF ControlInv, Depth
  <2>3. copy'[g].at # 0 BY <1>4, <1>9
  <2> QED BY <1>9, <2>1, <2>2, <2>3, ControlKept
<1>18. IntactInv'
  <2> SUFFICES ASSUME NEW h \in Goroutines, NEW i \in Levels(h),
                      i < Depth(h) \/ pc'[h] # "reset"
               PROVE  bytes'[Buf(h, i)] = frames[h][i].wrote
    BY <1>1, <1>13 DEF IntactInv, Buf
  <2>1. i < Depth(h) \/ pc[h] # "reset" BY <1>1, <1>9
  <2>2. Buf(h, i) \in Blocks \ {a} BY <1>1, <1>4 DEF FrameInv, NoFrameHas, Taken
  <2> QED BY <1>1, <1>7, <2>1, <2>2 DEF IntactInv
<1> QED BY <1>10, <1>12, <1>14, <1>15, <1>16, <1>17, <1>18 DEF IInv

\* Putting back the innermost buffer.
LEMMA Release ==
  ASSUME IInv, NEW g \in Goroutines, pc[g] # "idle", PutBuffer(Top(g).buf), Pop(g)
  PROVE  /\ Popped(g) /\ PoolInv' /\ FrameInv'
         /\ bytes' \in [Blocks -> Seq(Tags)] /\ capacity' \in [Blocks -> Nat]
         /\ pooled' \in [Blocks -> Nat]
         /\ \A h \in Goroutines : \A i \in Levels(h)' :
              /\ i \in Levels(h) /\ frames'[h][i] = frames[h][i]
              /\ bytes'[Buf(h, i)] = bytes[Buf(h, i)]
         /\ \A a : Taken(a) /\ NoFrameHas(a) =>
              Taken(a)' /\ NoFrameHas(a)' /\ bytes'[a] = bytes[a]
<1> DEFINE b == Top(g).buf
           n == Depth(g)
<1>1. TypeOK /\ PoolInv /\ FrameInv BY DEF IInv
<1>2. /\ n \in Levels(g) /\ n \in Nat /\ n # 0 /\ b = Buf(g, n) /\ Taken(b) /\ ~ NoFrameHas(b)
      /\ n = Len(frames[g])
  BY Busy
<1>3. Popped(g) BY <1>1, <1>2, PopShape
<1>4. /\ b \in Blocks /\ pooled[b] = 0 /\ capacity[b] > 0 /\ capacity[b] \in Nat
      /\ bytes \in [Blocks -> Seq(Tags)] /\ capacity \in [Blocks -> Nat]
      /\ pooled \in [Blocks -> Nat] /\ <<>> \in Seq(Tags)
  BY <1>1, <1>2, EmptySeq DEF TypeOK, Taken
<1> HIDE DEF b, n
<1>5. /\ bytes' \in [Blocks -> Seq(Tags)] /\ capacity' \in [Blocks -> Nat]
      /\ pooled' \in [Blocks -> Nat]
      /\ \A a \in Blocks \ {b} :
           bytes'[a] = bytes[a] /\ capacity'[a] = capacity[a] /\ pooled'[a] = pooled[a]
      /\ pooled'[b] <= 1
      /\ pooled'[b] > 0 => capacity'[b] > 0 /\ capacity'[b] <= Limit
  <2>1. bytes' = [bytes EXCEPT ![b] = <<>>] BY DEF PutBuffer, b
  <2>2. CASE capacity[b] <= Limit
    <3>1. pooled' = [pooled EXCEPT ![b] = @ + 1] /\ capacity' = capacity
      BY <2>2 DEF PutBuffer, b
    <3> QED BY <1>4, <2>1, <2>2, <3>1
  <2>3. CASE ~ (capacity[b] <= Limit)
    <3>1. capacity' = [capacity EXCEPT ![b] = 0] /\ pooled' = pooled
      BY <2>3 DEF PutBuffer, b
    <3> QED BY <1>4, <2>1, <3>1
  <2> QED BY <2>2, <2>3
<1>6. PoolInv'
  <2> SUFFICES ASSUME NEW a \in Blocks
               PROVE  pooled'[a] <= 1 /\ (pooled'[a] > 0 => capacity'[a] > 0 /\ capacity'[a] <= Limit)
    BY DEF PoolInv
  <2>1. CASE a = b BY <1>5, <2>1
  <2>2. CASE a \in Blocks \ {b} BY <1>1, <1>5, <2>2 DEF PoolInv
  <2> QED BY <2>1, <2>2
<1>7. \A h \in Goroutines : \A i \in Levels(h)' :
        /\ i \in Levels(h) /\ ~ (h = g /\ i = n) /\ frames'[h][i] = frames[h][i]
  BY <1>2, <1>3 DEF Popped, OthersKept, Levels, Depth
<1>8. \A h \in Goroutines : \A i \in Levels(h)' :
        Buf(h, i)' = Buf(h, i) /\ Buf(h, i) # b /\ Taken(Buf(h, i))
  <2>1. \A h \in Goroutines : \A i \in Levels(h)' : Buf(h, i)' = Buf(h, i)
    BY <1>7 DEF Buf
  <2>2. \A h \in Goroutines : \A i \in Levels(h) :
          ~ (h = g /\ i = n) => Buf(h, i) # b /\ Taken(Buf(h, i))
    BY <1>1, <1>2 DEF FrameInv
  <2> QED BY <1>7, <2>1, <2>2
<1>9. \A a : Taken(a) /\ a # b => Taken(a)' /\ bytes'[a] = bytes[a]
  BY <1>5 DEF Taken
<1>10. FrameInv' BY <1>1, <1>7, <1>8, <1>9 DEF FrameInv, Taken
<1>11. \A a : NoFrameHas(a) => a # b /\ NoFrameHas(a)'
  BY <1>2, <1>7, <1>8 DEF NoFrameHas
<1> QED BY <1>3, <1>5, <1>6, <1>7, <1>8, <1>9, <1>10, <1>11

\* The buffers that are left keep their content.
LEMMA ReleaseIntact ==
  ASSUME IInv, NEW g \in Goroutines, Popped(g), pc'[g] # "reset",
         \A h \in Goroutines \ {g} : pc'[h] = pc[h],
         \A h \in Goroutines : \A i \in Levels(h)' :
           /\ i \in Levels(h) /\ frames'[h][i] = frames[h][i]
           /\ bytes'[Buf(h, i)] = bytes[Buf(h, i)]
  PROVE  IntactInv'
<1>1. TypeOK /\ IntactInv BY DEF IInv
<1> SUFFICES ASSUME NEW h \in Goroutines, NEW i \in Levels(h)',
                    i < Depth(h)' \/ pc'[h] # "reset"
             PROVE  bytes'[frames'[h][i].buf] = frames'[h][i].wrote
  BY DEF IntactInv, Buf
<1>2. /\ i \in Levels(h) /\ frames'[h][i] = frames[h][i]
      /\ bytes'[Buf(h, i)] = bytes[Buf(h, i)]
  OBVIOUS
<1>3. i < Depth(h) \/ pc[h] # "reset"
  <2>1. CASE h = g
    <3>1. Len(frames[g]) \in Nat BY <1>1, FrameTypes
    <3> QED BY <2>1, <3>1 DEF Popped, Levels, Depth
  <2>2. CASE h # g BY <2>2 DEF Popped, OthersKept, Depth
  <2> QED BY <2>1, <2>2
<1> QED BY <1>1, <1>2, <1>3 DEF IntactInv, Buf

LEMMA PutStep == ASSUME IInv, NEW g \in Goroutines, Put(g) PROVE IInv'
<1> DEFINE next == IF Depth(g) = 1 THEN "idle"
                   ELSE IF Top(g).kind = "call" THEN "append" ELSE "write"
<1>1. /\ TypeOK /\ CopyInv /\ ResultInv /\ ControlInv
      /\ pc[g] = "put" /\ PutBuffer(Top(g).buf) /\ Pop(g)
      /\ pc' = [pc EXCEPT ![g] = next]
      /\ calls' = calls
      /\ Depth(g) = 1 => results' = results \cup {copy[g]} /\ copy' = [copy EXCEPT ![g] = NoCopy]
      /\ Depth(g) # 1 => results' = results /\ copy' = copy
  BY DEF IInv, Put
<1>2. /\ Popped(g) /\ PoolInv' /\ FrameInv'
      /\ bytes' \in [Blocks -> Seq(Tags)] /\ capacity' \in [Blocks -> Nat]
      /\ pooled' \in [Blocks -> Nat]
      /\ \A h \in Goroutines : \A i \in Levels(h)' :
           /\ i \in Levels(h) /\ frames'[h][i] = frames[h][i]
           /\ bytes'[Buf(h, i)] = bytes[Buf(h, i)]
      /\ \A a : Taken(a) /\ NoFrameHas(a) =>
           Taken(a)' /\ NoFrameHas(a)' /\ bytes'[a] = bytes[a]
  BY <1>1, Release
<1>3. /\ Depth(g) \in Nat /\ Depth(g) # 0 /\ Depth(g) = Len(frames[g])
      /\ Top(g) = frames[g][Depth(g)] /\ Top(g).kind \in {"call", "any"}
  BY <1>1, Busy
<1>4. Depth(g) = 1 \/ Top(g).kind = "call" => copy[g].at # 0
  BY <1>1, <1>3 DEF ControlInv
<1>5. /\ pc' \in [Goroutines -> {"idle", "reset", "write", "put", "append", "fail"}]
      /\ pc'[g] = next /\ \A h \in Goroutines \ {g} : pc'[h] = pc[h]
  <2>1. /\ pc \in [Goroutines -> {"idle", "reset", "write", "put", "append", "fail"}]
        /\ next \in {"idle", "reset", "write", "put", "append", "fail"}
    BY <1>1 DEF TypeOK
  <2> HIDE DEF next
  <2> QED BY <1>1, <2>1
<1>6. IntactInv'
  <2>1. pc'[g] # "reset" BY <1>5
  <2> QED BY <1>2, <1>5, <2>1, ReleaseIntact
<1>7. ASSUME \A h \in Goroutines \ {g} : copy'[h] = copy[h],
             Depth(g) # 1 => copy'[g] = copy[g]
      PROVE  ControlInv'
  <2>1. Len(frames'[g]) = Depth(g) - 1 BY <1>2, <1>3 DEF Popped
  <2>2. Len(frames'[g]) # 0 => frames'[g][1].kind = "call"
    <3>1. frames[g][1].kind = "call" BY <1>1, <1>3 DEF ControlInv
    <3>2. Len(frames'[g]) # 0 => 1 \in 1 .. Len(frames'[g])
      <4> DEFINE m == Len(frames'[g])
      <4>1. m \in Nat BY <1>3, <2>1
      <4> HIDE DEF m
      <4>2. m # 0 => 1 \in 1 .. m BY <4>1
      <4> QED BY <4>2 DEF m
    <3>3. \A i \in 1 .. Len(frames'[g]) : frames'[g][i] = frames[g][i]
      BY <1>2 DEF Popped
    <3> QED BY <3>1, <3>2, <3>3
  <2>3. pc'[g] = "idle" <=> Len(frames'[g]) = 0 BY <1>3, <1>5, <2>1
  <2>4. pc'[g] = "append" => copy'[g].at # 0 BY <1>4, <1>5, <1>7
  <2>5. pc'[g] # "reset" /\ pc'[g] # "put" BY <1>5
  <2> QED BY <1>2, <1>5, <1>7, <2>2, <2>3, <2>4, <2>5, ControlKept DEF Popped
<1>8. CASE Depth(g) # 1
  <2>1. copy' = copy /\ results' = results BY <1>1, <1>8
  <2>2. CopyInv' BY <1>1, <1>2, <2>1 DEF CopyInv
  <2>3. ResultInv' BY <1>1, <1>2, <2>1 DEF ResultInv
  <2>4. TypeOK' BY <1>1, <1>2, <1>5, <2>1 DEF TypeOK, Popped
  <2> QED BY <1>2, <1>6, <1>7, <2>1, <2>2, <2>3, <2>4 DEF IInv
<1>9. CASE Depth(g) = 1
  <2> DEFINE c == copy[g].at
  <2>1. /\ results' = results \cup {copy[g]} /\ copy' = [copy EXCEPT ![g] = NoCopy]
        /\ c # 0
    BY <1>1, <1>4, <1>9
  <2>2. /\ copy'[g].at = 0 /\ \A h \in Goroutines \ {g} : copy'[h] = copy[h]
    BY <1>1, <2>1 DEF TypeOK, NoCopy
  <2>3. /\ Taken(c) /\ NoFrameHas(c) /\ bytes[c] = copy[g].want
        /\ \A h \in Goroutines : copy[h].at = c => h = g
    BY <1>1, <2>1 DEF CopyInv
  <2>4. CopyInv'
    <3> SUFFICES ASSUME NEW h \in Goroutines, copy'[h].at # 0
                 PROVE  /\ Taken(copy[h].at)'
                        /\ bytes'[copy'[h].at] = copy'[h].want
                        /\ NoFrameHas(copy[h].at)'
                        /\ \A k \in Goroutines : copy'[k].at = copy'[h].at => k = h
      BY DEF CopyInv
    <3>1. h # g /\ copy'[h] = copy[h] BY <2>2
    <3>2. /\ Taken(copy[h].at) /\ NoFrameHas(copy[h].at)
          /\ bytes[copy[h].at] = copy[h].want
          /\ \A k \in Goroutines : copy[k].at = copy[h].at => k = h
      BY <1>1, <3>1 DEF CopyInv
    <3>3. \A k \in Goroutines : copy'[k].at = copy'[h].at => k = h
      BY <2>2, <3>1, <3>2
    <3>4. PICK a : a = copy[h].at OBVIOUS
    <3>5. Taken(a)' /\ NoFrameHas(a)' /\ bytes'[a] = bytes[a]
      BY <1>2, <3>2, <3>4
    <3>6. Taken(copy[h].at)' BY <3>1, <3>4, <3>5 DEF Taken
    <3>7. NoFrameHas(copy[h].at)' BY <3>1, <3>4, <3>5 DEF NoFrameHas
    <3> QED BY <3>1, <3>2, <3>3, <3>4, <3>5, <3>6, <3>7
  <2>5. ResultInv'
    <3> SUFFICES ASSUME NEW r \in results'
                 PROVE  /\ Taken(r.at)' /\ bytes'[r.at] = r.want /\ NoFrameHas(r.at)'
                        /\ \A k \in Goroutines : copy'[k].at # r.at
      BY DEF ResultInv
    <3>1. /\ Taken(r.at) /\ NoFrameHas(r.at) /\ bytes[r.at] = r.want
          /\ \A k \in Goroutines \ {g} : copy[k].at # r.at
      <4>1. CASE r = copy[g] BY <2>3, <4>1
      <4>2. CASE r \in results BY <1>1, <4>2 DEF ResultInv
      <4> QED BY <2>1, <4>1, <4>2
    <3>2. r.at # 0 BY <3>1, PoolAssumption DEF Taken
    <3> QED BY <1>2, <2>2, <3>1, <3>2
  <2>6. TypeOK'
    <3>1. NoCopy \in Copy BY EmptySeq DEF NoCopy, Copy
    <3>2. copy' \in [Goroutines -> Copy] /\ results' \subseteq Copy
      BY <1>1, <2>1, <3>1 DEF TypeOK
    <3> QED BY <1>1, <1>2, <1>5, <3>2 DEF TypeOK, Popped
  <2> QED BY <1>2, <1>6, <1>7, <1>9, <2>2, <2>4, <2>5, <2>6 DEF IInv
<1> QED BY <1>8, <1>9

LEMMA PutFailedStep == ASSUME IInv, NEW g \in Goroutines, PutFailed(g) PROVE IInv'
<1> DEFINE next == IF Depth(g) = 1 THEN "idle" ELSE "fail"
<1>1. /\ TypeOK /\ CopyInv /\ ResultInv /\ ControlInv
      /\ pc[g] = "fail" /\ PutBuffer(Top(g).buf) /\ Pop(g)
      /\ pc' = [pc EXCEPT ![g] = next]
      /\ calls' = calls /\ results' = results /\ copy' = copy
  BY DEF IInv, PutFailed
<1>2. /\ Popped(g) /\ PoolInv' /\ FrameInv'
      /\ bytes' \in [Blocks -> Seq(Tags)] /\ capacity' \in [Blocks -> Nat]
      /\ pooled' \in [Blocks -> Nat]
      /\ \A h \in Goroutines : \A i \in Levels(h)' :
           /\ i \in Levels(h) /\ frames'[h][i] = frames[h][i]
           /\ bytes'[Buf(h, i)] = bytes[Buf(h, i)]
      /\ \A a : Taken(a) /\ NoFrameHas(a) =>
           Taken(a)' /\ NoFrameHas(a)' /\ bytes'[a] = bytes[a]
  BY <1>1, Release
<1>3. Depth(g) \in Nat /\ Depth(g) # 0 /\ Depth(g) = Len(frames[g])
  BY <1>1, Busy
<1>4. /\ pc' \in [Goroutines -> {"idle", "reset", "write", "put", "append", "fail"}]
      /\ pc'[g] = next /\ \A h \in Goroutines \ {g} : pc'[h] = pc[h]
  <2>1. /\ pc \in [Goroutines -> {"idle", "reset", "write", "put", "append", "fail"}]
        /\ next \in {"idle", "reset", "write", "put", "append", "fail"}
    BY <1>1 DEF TypeOK
  <2> HIDE DEF next
  <2> QED BY <1>1, <2>1
<1>5. IntactInv'
  <2>1. pc'[g] # "reset" BY <1>4
  <2> QED BY <1>2, <1>4, <2>1, ReleaseIntact
<1>6. ControlInv'
  <2>1. Len(frames'[g]) = Depth(g) - 1 BY <1>2, <1>3 DEF Popped
  <2>2. Len(frames'[g]) # 0 => frames'[g][1].kind = "call"
    <3>1. frames[g][1].kind = "call" BY <1>1, <1>3 DEF ControlInv
    <3>2. Len(frames'[g]) # 0 => 1 \in 1 .. Len(frames'[g])
      <4> DEFINE m == Len(frames'[g])
      <4>1. m \in Nat BY <1>3, <2>1
      <4> HIDE DEF m
      <4>2. m # 0 => 1 \in 1 .. m BY <4>1
      <4> QED BY <4>2 DEF m
    <3>3. \A i \in 1 .. Len(frames'[g]) : frames'[g][i] = frames[g][i]
      BY <1>2 DEF Popped
    <3> QED BY <3>1, <3>2, <3>3
  <2>3. pc'[g] = "idle" <=> Len(frames'[g]) = 0 BY <1>3, <1>4, <2>1
  <2>4. pc'[g] # "reset" /\ pc'[g] # "put" /\ pc'[g] # "append" BY <1>4
  <2> QED BY <1>1, <1>2, <1>4, <2>2, <2>3, <2>4, ControlKept DEF Popped
<1>7. CopyInv' BY <1>1, <1>2 DEF CopyInv
<1>8. ResultInv' BY <1>1, <1>2 DEF ResultInv
<1>9. TypeOK' BY <1>1, <1>2, <1>4 DEF TypeOK, Popped
<1> QED BY <1>2, <1>5, <1>6, <1>7, <1>8, <1>9 DEF IInv

LEMMA FailStep == ASSUME IInv, NEW g \in Goroutines, Fail(g) PROVE IInv'
<1>1. /\ TypeOK /\ PoolInv /\ FrameInv /\ CopyInv /\ ResultInv /\ ControlInv /\ IntactInv
      /\ pc[g] = "write" /\ pc' = [pc EXCEPT ![g] = "fail"]
      /\ UNCHANGED <<bytes, capacity, pooled, frames, copy, calls, results>>
  BY DEF IInv, Fail
<1>2. /\ pc' \in [Goroutines -> {"idle", "reset", "write", "put", "append", "fail"}]
      /\ pc'[g] = "fail" /\ \A h \in Goroutines \ {g} : pc'[h] = pc[h]
  <2>1. pc \in [Goroutines -> {"idle", "reset", "write", "put", "append", "fail"}]
    BY <1>1 DEF TypeOK
  <2> QED BY <1>1, <2>1
<1>3. TypeOK' BY <1>1, <1>2 DEF TypeOK
<1>4. PoolInv' /\ FrameInv' /\ CopyInv' /\ ResultInv'
  BY <1>1 DEF PoolInv, FrameInv, CopyInv, ResultInv, Taken, NoFrameHas, Levels, Depth, Buf
<1>5. ControlInv'
  <2>1. OthersKept(g) /\ \A h \in Goroutines \ {g} : copy'[h] = copy[h]
    BY <1>1 DEF OthersKept
  <2>2. Len(frames'[g]) # 0 /\ frames'[g][1].kind = "call"
    BY <1>1 DEF ControlInv, Depth
  <2> QED BY <1>2, <2>1, <2>2, ControlKept
<1>6. IntactInv'
  BY <1>1, <1>2 DEF IntactInv, Levels, Depth, Buf
<1> QED BY <1>3, <1>4, <1>5, <1>6 DEF IInv

LEMMA ForgetStep == ASSUME IInv, NEW a \in Blocks, Forget(a) PROVE IInv'
<1>1. /\ TypeOK /\ PoolInv /\ FrameInv /\ CopyInv /\ ResultInv /\ ControlInv /\ IntactInv
      /\ pooled[a] > 0 /\ pooled' = [pooled EXCEPT ![a] = @ - 1]
      /\ capacity' = [capacity EXCEPT ![a] = IF pooled[a] = 1 THEN 0 ELSE @]
      /\ UNCHANGED <<bytes, frames, pc, copy, calls, results>>
  BY DEF IInv, Forget
<1>2. pooled[a] = 1 /\ ~ Taken(a)
  <2>1. pooled[a] \in Nat /\ pooled[a] <= 1 BY <1>1 DEF TypeOK, PoolInv
  <2> QED BY <1>1, <2>1 DEF Taken
<1>3. /\ pooled' \in [Blocks -> Nat] /\ capacity' \in [Blocks -> Nat]
      /\ pooled'[a] = 0
      /\ \A b \in Blocks \ {a} : pooled'[b] = pooled[b] /\ capacity'[b] = capacity[b]
  <2>1. pooled \in [Blocks -> Nat] /\ capacity \in [Blocks -> Nat] BY <1>1 DEF TypeOK
  <2> QED BY <1>1, <1>2, <2>1
<1>4. TypeOK' BY <1>1, <1>3 DEF TypeOK
<1>5. PoolInv'
  <2> SUFFICES ASSUME NEW b \in Blocks
               PROVE  pooled'[b] <= 1 /\ (pooled'[b] > 0 => capacity'[b] > 0 /\ capacity'[b] <= Limit)
    BY DEF PoolInv
  <2>1. CASE b = a BY <1>3, <2>1
  <2>2. CASE b \in Blocks \ {a} BY <1>1, <1>3, <2>2 DEF PoolInv
  <2> QED BY <2>1, <2>2
<1>6. \A b : Taken(b) => Taken(b)' BY <1>2, <1>3 DEF Taken
<1>7. FrameInv' BY <1>1, <1>6 DEF FrameInv, Levels, Depth, Buf, Taken
<1>8. CopyInv' BY <1>1, <1>6 DEF CopyInv, NoFrameHas, Levels, Depth, Buf, Taken
<1>9. ResultInv' BY <1>1, <1>6 DEF ResultInv, NoFrameHas, Levels, Depth, Buf, Taken
<1>10. ControlInv' BY <1>1 DEF ControlInv, Depth, Top
<1>11. IntactInv' BY <1>1 DEF IntactInv, Levels, Depth, Buf
<1> QED BY <1>4, <1>5, <1>7, <1>8, <1>9, <1>10, <1>11 DEF IInv
-----------------------------------------------------------------------------
(* The theorems *)

LEMMA NextIInv == IInv /\ [Next]_vars => IInv'
<1> SUFFICES ASSUME IInv, [Next]_vars PROVE IInv' OBVIOUS
<1>1. ASSUME NEW g \in Goroutines, Reset(g) PROVE IInv' BY <1>1, ResetStep
<1>2. ASSUME NEW g \in Goroutines, Write(g) PROVE IInv' BY <1>2, WriteStep
<1>3. ASSUME NEW g \in Goroutines, AppendAny(g) PROVE IInv' BY <1>3, AppendAnyStep
<1>4. ASSUME NEW g \in Goroutines, Put(g) PROVE IInv' BY <1>4, PutStep
<1>5. ASSUME NEW g \in Goroutines, AppendField(g) PROVE IInv' BY <1>5, AppendFieldStep
<1>6. ASSUME NEW g \in Goroutines, Fail(g) PROVE IInv' BY <1>6, FailStep
<1>7. ASSUME NEW g \in Goroutines, PutFailed(g) PROVE IInv' BY <1>7, PutFailedStep
<1>8. ASSUME NEW g \in Goroutines, NEW a \in Blocks, Call(g, a) PROVE IInv'
  BY <1>8, CallStep
<1>9. ASSUME NEW g \in Goroutines, NEW a \in Blocks, CopyOut(g, a) PROVE IInv'
  BY <1>9, CopyOutStep
<1>10. ASSUME NEW g \in Goroutines, NEW a \in Blocks, NEW kind \in {"call", "any"},
              Nest(g, kind, a)
       PROVE  IInv'
  BY <1>10, NestStep
<1>11. ASSUME NEW a \in Blocks, Forget(a) PROVE IInv' BY <1>11, ForgetStep
<1>12. CASE UNCHANGED vars
  BY <1>12 DEF vars, IInv, TypeOK, PoolInv, FrameInv, CopyInv, ResultInv, ControlInv,
    IntactInv, Taken, NoFrameHas, Levels, Depth, Top, Buf
<1> QED BY <1>1, <1>2, <1>3, <1>4, <1>5, <1>6, <1>7, <1>8, <1>9, <1>10, <1>11, <1>12
        DEF Next

\* The variables keep their types, for any bounds.
THEOREM PoolTypes == Spec => []TypeOK
<1>1. IInv => TypeOK BY DEF IInv
<1> QED BY <1>1, InitIInv, NextIInv, PTL DEF Spec

LEMMA PlaceLevels ==
  ASSUME IInv, NEW p \in Places
  PROVE  /\ p[1] \in Goroutines /\ p[2] \in Levels(p[1])
         /\ BufferAt(p) = Buf(p[1], p[2]) /\ p = <<p[1], p[2]>>
<1>1. TypeOK BY DEF IInv
<1>2. Len(frames[p[1]]) \in Nat BY <1>1, FrameTypes DEF Places
<1> QED BY <1>2, PoolAssumption DEF Places, BufferAt, Buf, Levels, Depth

\* A block of memory has one owner: the pool, one frame of one goroutine, or
\* the caller that was handed a result (encBufPool, putEncBuffer, Free).
THEOREM OneOwner == Spec => []Exclusive
<1>1. IInv => Exclusive
  <2> SUFFICES ASSUME IInv PROVE Exclusive OBVIOUS
  <2>1. PoolInv /\ FrameInv /\ ResultInv BY DEF IInv
  <2>2. \A a \in Blocks : pooled[a] <= 1 BY <2>1 DEF PoolInv
  <2>3. \A p, q \in Places : p # q => BufferAt(p) # BufferAt(q)
    BY <2>1, PlaceLevels DEF FrameInv
  <2>4. \A p \in Places : pooled[BufferAt(p)] = 0 /\ capacity[BufferAt(p)] > 0
    BY <2>1, PlaceLevels DEF FrameInv, Taken
  <2>5. \A r \in results : /\ pooled[r.at] = 0
                           /\ \A p \in Places : BufferAt(p) # r.at
    BY <2>1, PlaceLevels DEF ResultInv, Taken, NoFrameHas
  <2> QED BY <2>2, <2>3, <2>4, <2>5 DEF Exclusive
<1> QED BY <1>1, InitIInv, NextIInv, PTL DEF Spec

\* A buffer holds what its own call encoded, from the reset to the put.
THEOREM BuffersIntact == Spec => []OutputIntact
<1>1. IInv => OutputIntact
  BY PlaceLevels DEF OutputIntact, IInv, IntactInv
<1> QED BY <1>1, InitIInv, NextIInv, PTL DEF Spec

\* What Marshal returned stays what it encoded, whoever reuses the buffer.
THEOREM ReturnedIntact == Spec => []ResultsIntact
<1>1. IInv => ResultsIntact BY DEF IInv, ResultInv, ResultsIntact
<1> QED BY <1>1, InitIInv, NextIInv, PTL DEF Spec

\* The pool keeps no buffer that grew past the limit (maxPooledEncBuffer).
THEOREM NoLargePooled == Spec => []PooledSmall
<1>1. IInv => PooledSmall BY DEF IInv, PoolInv, PooledSmall
<1> QED BY <1>1, InitIInv, NextIInv, PTL DEF Spec
=============================================================================
