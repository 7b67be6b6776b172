------------------------- MODULE TableMarshalProofs -------------------------
(***************************************************************************)
(* Proofs about TableMarshal and RoundTrip, for any message types,         *)
(* numbers, messages and options: what the encoder writes is the text of   *)
(* MessageText, and the decoder reads a flat message back from it.         *)
(*                                                                         *)
(* The text is a recursive function on trees.  The first part shows that   *)
(* such a function exists and satisfies its equation; what a frame has     *)
(* still to write (Rest) then gives the text together with what the        *)
(* buffers hold (Writes), which every step keeps (Going, EncodeInv).       *)
(*                                                                         *)
(* For the round trip the text is cut into members (Rows, SentRows), which *)
(* are a legal document that means the message (SentLegal, SentMeaning);   *)
(* what the decoder makes of a document is in TableUnmarshalProofs.        *)
(***************************************************************************)
EXTENDS RoundTrip, SequenceTheorems, FiniteSetTheorems, WellFoundedInduction, TLAPS
-----------------------------------------------------------------------------
(* Recursive definitions *)

\* A set of numbers has a least one.
LEMMA Least ==
  ASSUME NEW T \in SUBSET Nat, T # {}
  PROVE  \E m \in T : \A y \in T : m <= y
<1>1. PICK m \in T : \A y \in T : ~ (<<y, m>> \in OpToRel(<, Nat))
  BY WFMin, NatLessThanWellFounded
<1>2. ASSUME NEW y \in T PROVE m <= y
  <2>1. ~ (y < m) /\ y \in Nat /\ m \in Nat BY <1>1 DEF OpToRel
  <2> QED BY <2>1
<1> QED BY <1>2

\* Rules for a function on S that may refer to the function itself, but just at
\* points that are less deep; and what it is for them to have a solution.
Rules(S, X) == [S -> [[S -> X] -> X]]
Local(S, X, D, B) ==
  \A g, h \in [S -> X], v \in S :
    (\A w \in S : D[w] < D[v] => g[w] = h[w]) => B[v][g] = B[v][h]
Solvable(S, X, B) == \E f \in [S -> X] : \A v \in S : f[v] = B[v][f]

\* They always have one.
LEMMA Recursion ==
  ASSUME NEW S, NEW X, NEW x0 \in X, NEW D \in [S -> Nat],
         NEW B, B \in Rules(S, X), Local(S, X, D, B)
  PROVE  Solvable(S, X, B)
<1> USE DEF Rules, Local, Solvable
<1> DEFINE Good(f, n) == f \in [S -> X] /\ \A v \in S : D[v] < n => f[v] = B[v][f]
<1>0. \A f \in [S -> X], v \in S : B[v][f] \in X OBVIOUS
<1>7. \A v \in S : D[v] \in Nat OBVIOUS
<1>1. \A n \in Nat : \E f : Good(f, n)
  <2> DEFINE T == {n \in Nat : ~ \E f : Good(f, n)}
  <2> SUFFICES ASSUME T # {} PROVE FALSE OBVIOUS
  <2>1. PICK m \in T : \A y \in T : m <= y
    <3>1. T \in SUBSET Nat OBVIOUS
    <3> HIDE DEF T
    <3> QED BY <3>1, Least
  <2>5. m \in Nat OBVIOUS
  <2>4. m \in Nat /\ ~ \E f : Good(f, m) OBVIOUS
  <2>2. CASE m = 0
    <3> DEFINE f == [v \in S |-> x0]
    <3>1. f \in [S -> X] /\ \A v \in S : ~ (D[v] < m) BY <1>7, <2>2
    <3> HIDE DEF f
    <3>2. Good(f, m) BY <3>1
    <3> QED BY <2>4, <3>2
  <2>3. CASE m # 0
    <3>1. m - 1 \in Nat /\ ~ (m <= m - 1) BY <2>3, <2>5
    <3>2. PICK f : Good(f, m - 1) BY <2>1, <3>1
    <3> DEFINE g == [v \in S |-> IF D[v] < m - 1 THEN f[v] ELSE B[v][f]]
    <3>3. g \in [S -> X] BY <1>0, <3>2
    <3>4. ASSUME NEW v \in S, D[v] < m
          PROVE  g[v] = B[v][g]
      <4>1. ASSUME NEW w \in S, D[w] < D[v] PROVE f[w] = g[w]
        <5>1. D[w] \in Nat /\ D[v] \in Nat /\ m \in Nat BY <1>7, <2>4
        <5>2. D[w] < m - 1 BY <2>4, <3>4, <4>1, <5>1
        <5> QED BY <5>2
      <4>2. B[v][f] = B[v][g] BY <3>2, <3>3, <4>1
      <4>3. g[v] = B[v][f] BY <3>2
      <4> QED BY <4>2, <4>3
    <3> HIDE DEF g
    <3>5. Good(g, m) BY <3>3, <3>4
    <3> QED BY <2>4, <3>5
  <2> QED BY <2>2, <2>3
<1>2. ASSUME NEW f, NEW g, NEW m \in Nat, NEW n \in Nat, Good(f, m), Good(g, n)
      PROVE  \A v \in S : D[v] < m /\ D[v] < n => f[v] = g[v]
  <2> DEFINE T == {D[v] : v \in {v \in S : D[v] < m /\ D[v] < n /\ f[v] # g[v]}}
  <2> SUFFICES ASSUME T # {} PROVE FALSE OBVIOUS
  <2>1. PICK d \in T : \A y \in T : d <= y
    <3>1. T \in SUBSET Nat OBVIOUS
    <3> HIDE DEF T
    <3> QED BY <3>1, Least
  <2>2. PICK v \in S : D[v] = d /\ D[v] < m /\ D[v] < n /\ f[v] # g[v] BY <2>1
  <2>3. ASSUME NEW w \in S, D[w] < D[v], f[w] # g[w] PROVE FALSE
    <3>1. D[w] \in Nat /\ D[v] \in Nat BY <1>7
    <3>2. D[w] < m /\ D[w] < n /\ ~ (D[v] <= D[w]) BY <2>2, <2>3, <3>1
    <3>3. D[w] \in T BY <2>3, <3>2
    <3> QED BY <2>1, <2>2, <3>2, <3>3
  <2>5. f \in [S -> X] /\ g \in [S -> X] BY <1>2
  <2>6. \A w \in S : D[w] < D[v] => f[w] = g[w] BY <2>3
  <2> HIDE DEF T, Good
  <2>4. B[v][f] = B[v][g] BY <2>5, <2>6
  <2> QED BY <1>2, <2>2, <2>4 DEF Good
<1> DEFINE pick(n) == CHOOSE f : Good(f, n)
           F == [v \in S |-> pick(D[v] + 1)[v]]
<1>3. \A n \in Nat : Good(pick(n), n) BY <1>1
<1> HIDE DEF pick
<1>6. \A v \in S : D[v] + 1 \in Nat /\ D[v] < D[v] + 1 BY <1>7
<1>4. F \in [S -> X]
  <2>1. \A v \in S : pick(D[v] + 1) \in [S -> X] BY <1>3, <1>6
  <2> QED BY <2>1
<1>5. ASSUME NEW v \in S
      PROVE  F[v] = B[v][F]
  <2>1. D[v] + 1 \in Nat /\ D[v] < D[v] + 1 BY <1>6
  <2>2. Good(pick(D[v] + 1), D[v] + 1) BY <1>3, <2>1
  <2>3. \A w \in S : D[w] < D[v] => F[w] = pick(D[v] + 1)[w]
    <3> SUFFICES ASSUME NEW w \in S, D[w] < D[v]
                 PROVE  F[w] = pick(D[v] + 1)[w]
      OBVIOUS
    <3>4. D[w] \in Nat /\ D[v] \in Nat BY <1>7
    <3>1. D[w] + 1 \in Nat /\ D[w] < D[w] + 1 /\ D[w] < D[v] + 1 BY <3>4
    <3>2. Good(pick(D[w] + 1), D[w] + 1) BY <1>3, <3>1
    <3> HIDE DEF Good
    <3>3. pick(D[w] + 1)[w] = pick(D[v] + 1)[w] BY <1>2, <2>1, <2>2, <3>1, <3>2
    <3> QED BY <3>3
  <2>4. B[v][F] = B[v][pick(D[v] + 1)] BY <1>4, <2>2, <2>3
  <2>5. pick(D[v] + 1)[v] = B[v][pick(D[v] + 1)] BY <2>1, <2>2
  <2> QED BY <2>4, <2>5
<1> QED BY <1>4, <1>5
-----------------------------------------------------------------------------
(* Values and their parts *)

\* The values of a depth are those over the values of the depth before.
LEMMA TreesAre ==
  /\ Trees[0] = {}
  /\ \A n \in Nat : Trees[n + 1] = Over(Trees[n])
<1> DEFINE Good(f, n) == \A i \in 0 .. n : f[i] = IF i = 0 THEN {} ELSE Over(f[i - 1])
<1>1. \A n \in Nat : \E f : Good(f, n)
  <2> DEFINE T == {n \in Nat : ~ \E f : Good(f, n)}
  <2> SUFFICES ASSUME T # {} PROVE FALSE OBVIOUS
  <2>1. PICK m \in T : \A y \in T : m <= y
    <3>1. T \in SUBSET Nat OBVIOUS
    <3> HIDE DEF T
    <3> QED BY <3>1, Least
  <2>2. CASE m = 0
    <3>1. Good([i \in Nat |-> {}], m) BY <2>2
    <3> QED BY <3>1
  <2>3. CASE m # 0
    <3>1. m - 1 \in Nat /\ ~ (m <= m - 1)
      <4>1. m \in Nat OBVIOUS
      <4> QED BY <2>3, <4>1
    <3>2. PICK f : Good(f, m - 1) BY <2>1, <3>1
    <3> DEFINE g == [i \in Nat |-> IF i = m THEN Over(f[m - 1]) ELSE f[i]]
    <3>3. ASSUME NEW i \in 0 .. m
          PROVE  g[i] = IF i = 0 THEN {} ELSE Over(g[i - 1])
      <4>1. CASE i = m
        <5>1. g[i] = Over(f[m - 1]) /\ g[i - 1] = f[m - 1] BY <3>1, <4>1
        <5> QED BY <2>3, <4>1, <5>1
      <4>2. CASE i # m
        <5>1. i \in 0 .. m - 1 /\ g[i] = f[i] BY <4>2
        <5>2. i # 0 => g[i - 1] = f[i - 1] BY <4>2
        <5>3. f[i] = IF i = 0 THEN {} ELSE Over(f[i - 1]) BY <3>2, <5>1
        <5> QED BY <5>1, <5>2, <5>3
      <4> QED BY <4>1, <4>2
    <3>4. Good(g, m) BY <3>3
    <3> QED BY <3>4
  <2> QED BY <2>2, <2>3
<1>2. ASSUME NEW f, NEW g, NEW m \in Nat, NEW n \in Nat, Good(f, m), Good(g, n)
      PROVE  \A i \in Nat : i <= m /\ i <= n => f[i] = g[i]
  <2> DEFINE T == {i \in Nat : i <= m /\ i <= n /\ f[i] # g[i]}
  <2> SUFFICES ASSUME T # {} PROVE FALSE OBVIOUS
  <2>1. PICK i \in T : \A y \in T : i <= y
    <3>1. T \in SUBSET Nat OBVIOUS
    <3> HIDE DEF T
    <3> QED BY <3>1, Least
  <2>2. i \in 0 .. m /\ i \in 0 .. n /\ f[i] # g[i] OBVIOUS
  <2>3. /\ f[i] = IF i = 0 THEN {} ELSE Over(f[i - 1])
        /\ g[i] = IF i = 0 THEN {} ELSE Over(g[i - 1])
    BY <1>2, <2>2
  <2>4. CASE i = 0 BY <2>2, <2>3, <2>4
  <2>5. CASE i # 0
    <3>1. i - 1 \in Nat /\ i - 1 <= m /\ i - 1 <= n /\ ~ (i <= i - 1) BY <2>5
    <3>2. f[i - 1] = g[i - 1] BY <2>1, <3>1
    <3> QED BY <2>2, <2>3, <3>2
  <2> QED BY <2>4, <2>5
<1> DEFINE pick(n) == CHOOSE f : Good(f, n)
           F == [i \in Nat |-> pick(i)[i]]
<1>3. \A n \in Nat : Good(pick(n), n) BY <1>1
<1> HIDE DEF pick
<1>4. ASSUME NEW i \in Nat
      PROVE  F[i] = IF i = 0 THEN {} ELSE Over(F[i - 1])
  <2>1. pick(i)[i] = IF i = 0 THEN {} ELSE Over(pick(i)[i - 1])
    <3>1. i \in 0 .. i OBVIOUS
    <3> QED BY <1>3, <3>1
  <2>2. CASE i = 0 BY <2>1, <2>2
  <2>3. CASE i # 0
    <3>1. i - 1 \in Nat /\ i - 1 <= i - 1 /\ i - 1 <= i BY <2>3
    <3>2. Good(pick(i), i) /\ Good(pick(i - 1), i - 1) BY <1>3, <3>1
    <3> HIDE DEF Good
    <3>3. pick(i - 1)[i - 1] = pick(i)[i - 1] BY <1>2, <3>1, <3>2
    <3> QED BY <2>1, <2>3, <3>1, <3>3
  <2> QED BY <2>2, <2>3
<1>5. F = [i \in Nat |-> IF i = 0 THEN {} ELSE Over(F[i - 1])] BY <1>4
<1> HIDE DEF F
<1> DEFINE Is(f) == f = [i \in Nat |-> IF i = 0 THEN {} ELSE Over(f[i - 1])]
<1>6. Trees = CHOOSE f : Is(f) BY DEF Trees
<1>7. Is(Trees) BY <1>5, <1>6
<1>8. Trees[0] = {} BY <1>7
<1>9. ASSUME NEW n \in Nat PROVE Trees[n + 1] = Over(Trees[n])
  <2>1. n + 1 \in Nat /\ n + 1 # 0 /\ (n + 1) - 1 = n OBVIOUS
  <2> QED BY <1>7, <2>1
<1> QED BY <1>8, <1>9

\* More parts make more values.
LEMMA OverGrows ==
  ASSUME NEW A, NEW B, A \subseteq B
  PROVE  Over(A) \subseteq Over(B)
<1>1. Seq(A) \subseteq Seq(B) BY SeqMonotonic
<1>2. [Numbers -> A] \subseteq [Numbers -> B] OBVIOUS
<1>3. Messages(A) \subseteq Messages(B) BY <1>1, <1>2 DEF Messages
<1>4. Payloads(A) \subseteq Payloads(B) BY <1>3 DEF Payloads
<1>5. [is : {"list"}, items : Seq(A)] \subseteq [is : {"list"}, items : Seq(B)] BY <1>1
<1>6. [is : {"map"}, entries : [Numbers -> A]] \subseteq [is : {"map"}, entries : [Numbers -> B]]
  BY <1>2
<1>7. [is : {"any"}, payload : Payloads(A)] \subseteq [is : {"any"}, payload : Payloads(B)]
  BY <1>4
<1> QED BY <1>3, <1>5, <1>6, <1>7 DEF Over

\* Values of a depth are values of any larger one.
LEMMA TreesGrow ==
  ASSUME NEW m \in Nat, NEW n \in Nat, m <= n
  PROVE  Trees[m] \subseteq Trees[n]
<1>1. \A k \in Nat : Trees[k] \subseteq Trees[k + 1]
  <2> DEFINE T == {k \in Nat : ~ (Trees[k] \subseteq Trees[k + 1])}
  <2> SUFFICES ASSUME T # {} PROVE FALSE OBVIOUS
  <2>1. PICK k \in T : \A y \in T : k <= y
    <3>1. T \in SUBSET Nat OBVIOUS
    <3> HIDE DEF T
    <3> QED BY <3>1, Least
  <2>2. k \in Nat /\ ~ (Trees[k] \subseteq Trees[k + 1]) OBVIOUS
  <2>3. k # 0 BY <2>2, TreesAre
  <2>4. k - 1 \in Nat /\ (k - 1) + 1 = k /\ ~ (k <= k - 1) BY <2>2, <2>3
  <2>5. Trees[k - 1] \subseteq Trees[k] BY <2>1, <2>4
  <2>6. Trees[k] = Over(Trees[k - 1]) /\ Trees[k + 1] = Over(Trees[k]) BY <2>2, <2>4, TreesAre
  <2> QED BY <2>2, <2>5, <2>6, OverGrows
<1> DEFINE T == {k \in Nat : m <= k /\ ~ (Trees[m] \subseteq Trees[k])}
<1> SUFFICES ASSUME T # {} PROVE FALSE OBVIOUS
<1>2. PICK k \in T : \A y \in T : k <= y
  <2>1. T \in SUBSET Nat OBVIOUS
  <2> HIDE DEF T
  <2> QED BY <2>1, Least
<1>3. k \in Nat /\ m <= k /\ ~ (Trees[m] \subseteq Trees[k]) OBVIOUS
<1>4. k # m BY <1>3
<1>5. k - 1 \in Nat /\ m <= k - 1 /\ (k - 1) + 1 = k /\ ~ (k <= k - 1) BY <1>3, <1>4
<1>6. Trees[m] \subseteq Trees[k - 1] BY <1>2, <1>5
<1>7. Trees[k - 1] \subseteq Trees[k] BY <1>1, <1>5
<1> QED BY <1>3, <1>6, <1>7

\* How deep a value is: the first depth it occurs at.
First(v, n) == n \in Nat /\ v \in Trees[n] /\ \A k \in Nat : v \in Trees[k] => n <= k
DepthOf == [v \in Values |-> CHOOSE n : First(v, n)]

\* Every value has a depth.
LEMMA DepthIs ==
  ASSUME NEW v \in Values
  PROVE  First(v, DepthOf[v])
<1> DEFINE T == {n \in Nat : v \in Trees[n]}
<1>1. T # {} BY MaxDepthAssumption DEF Values
<1>2. PICK n \in T : \A y \in T : n <= y
  <2>1. T \in SUBSET Nat OBVIOUS
  <2> HIDE DEF T
  <2> QED BY <1>1, <2>1, Least
<1>3. First(v, n) BY <1>2 DEF First
<1> QED BY <1>3 DEF DepthOf

\* It is a number.
LEMMA DepthType == DepthOf \in [Values -> Nat]
<1>1. \A v \in Values : DepthOf[v] \in Nat BY DepthIs DEF First
<1> QED BY <1>1 DEF DepthOf

\* The parts of a value are values, and less deep.
LEMMA PartsOfValue ==
  ASSUME NEW v \in Values
  PROVE  \E P \in SUBSET Values :
           /\ v \in Over(P) /\ Over(P) \subseteq Values
           /\ \A w \in P : DepthOf[w] < DepthOf[v]
<1> DEFINE n == DepthOf[v]
           P == Trees[n - 1]
<1>1. n \in Nat /\ v \in Trees[n] /\ \A k \in Nat : v \in Trees[k] => n <= k
  BY DepthIs DEF First
<1>2. n <= MaxDepth /\ MaxDepth \in Nat BY <1>1, MaxDepthAssumption DEF Values
<1>3. n # 0 BY <1>1, TreesAre
<1>4. n - 1 \in Nat /\ n - 1 <= MaxDepth /\ (n - 1) + 1 = n BY <1>1, <1>2, <1>3
<1>5. Trees[n] = Over(P)
  <2>1. Trees[(n - 1) + 1] = Over(P) BY <1>4, TreesAre
  <2> QED BY <1>4, <2>1
<1>6. P \subseteq Values BY <1>2, <1>4, TreesGrow DEF Values
<1>7. Over(P) \subseteq Values BY <1>1, <1>2, <1>5, TreesGrow DEF Values
<1>8. ASSUME NEW w \in P PROVE DepthOf[w] < n
  <2>1. w \in Values BY <1>6
  <2>2. First(w, DepthOf[w]) BY <2>1, DepthIs
  <2>3. DepthOf[w] \in Nat /\ DepthOf[w] <= n - 1 BY <1>4, <2>2 DEF First
  <2> QED BY <1>1, <2>3
<1> QED BY <1>1, <1>5, <1>6, <1>7, <1>8

\* What a value is made of.
MessageOver(v, P) ==
  /\ v.is = "message" /\ v.type \in DOMAIN Types
  /\ v.fields \in Seq(P) /\ v.exts \in [Numbers -> P]
  /\ WellTyped(v)
PayloadOver(payload, P) ==
  \/ payload.is \in {"nil", "empty", "untyped", "unresolved"}
  \/ payload.is = "known" /\ payload.value.is \in Leaves
  \/ payload \in Messages(P) /\ MessageOver(payload, P)
ValueOver(v, P) ==
  \/ v.is \in Leaves
  \/ v.is = "list" /\ v.items \in Seq(P)
  \/ v.is = "map" /\ v.entries \in [Numbers -> P]
  \/ MessageOver(v, P)
  \/ v.is = "any" /\ PayloadOver(v.payload, P)

\* A message is one of the values over its parts.
LEMMA MessageIsOver ==
  ASSUME NEW P, NEW v \in Messages(P)
  PROVE  MessageOver(v, P) /\ v \in Over(P)
BY DEF Messages, MessageOver, Over

\* A value over P is made of parts in P.
LEMMA OverIs ==
  ASSUME NEW P, NEW v \in Over(P)
  PROVE  ValueOver(v, P)
<1>1. CASE v \in {Leaf(is) : is \in Leaves} BY <1>1 DEF Leaf, ValueOver
<1>2. CASE v \in [is : {"list"}, items : Seq(P)] BY <1>2 DEF ValueOver
<1>3. CASE v \in [is : {"map"}, entries : [Numbers -> P]] BY <1>3 DEF ValueOver
<1>4. CASE v \in Messages(P) BY <1>4, MessageIsOver DEF ValueOver
<1>5. CASE v \in [is : {"any"}, payload : Payloads(P)]
  <2>1. v.is = "any" /\ v.payload \in Payloads(P) BY <1>5
  <2>2. CASE v.payload \in Messages(P)
    BY <2>1, <2>2, MessageIsOver DEF ValueOver, PayloadOver
  <2>3. CASE v.payload \notin Messages(P)
    BY <2>1, <2>3 DEF ValueOver, PayloadOver, Payloads, Leaf
  <2> QED BY <2>2, <2>3
<1> QED BY <1>1, <1>2, <1>3, <1>4, <1>5 DEF Over
-----------------------------------------------------------------------------
(* What has a JSON form *)

\* Having a form or not is a truth value, whatever the parts have.
LEMMA EncodableType ==
  ASSUME NEW v, NEW g
  PROVE  PartsEncodable(v, g) \in BOOLEAN
<1>1. \A m : MessageEncodable(m, g) \in BOOLEAN BY DEF MessageEncodable
<1>2. \A p : PayloadEncodable(p, g) \in BOOLEAN
  <2> TAKE p
  <2>1. CASE p.is = "message" BY <1>1, <2>1 DEF PayloadEncodable
  <2>2. CASE p.is = "known" BY <2>2 DEF PayloadEncodable
  <2>3. CASE p.is \notin {"message", "known"}
    <3>1. PayloadEncodable(p, g) = (p.is \in {"nil", "empty"}) BY <2>3 DEF PayloadEncodable
    <3> QED BY <3>1
  <2> QED BY <2>1, <2>2, <2>3
<1>3. CASE v.is = "message" BY <1>1, <1>3 DEF PartsEncodable
<1>4. CASE v.is = "any" BY <1>2, <1>4 DEF PartsEncodable
<1>5. CASE v.is \in {"invalid", "list", "map"} BY <1>5 DEF PartsEncodable
<1>6. CASE v.is \notin {"message", "any", "invalid", "list", "map"} BY <1>6 DEF PartsEncodable
<1> QED BY <1>3, <1>4, <1>5, <1>6

\* Whether a value has depends on its parts.
LEMMA EncodableByParts ==
  ASSUME NEW P \in SUBSET Values, NEW v \in Over(P),
         NEW g \in [Values -> BOOLEAN], NEW h \in [Values -> BOOLEAN],
         \A w \in P : g[w] = h[w]
  PROVE  PartsEncodable(v, g) = PartsEncodable(v, h) /\ PartsEncodable(v, g) \in BOOLEAN
<1>1. ASSUME NEW m, MessageOver(m, P)
      PROVE  MessageEncodable(m, g) = MessageEncodable(m, h) /\ MessageEncodable(m, g) \in BOOLEAN
  <2>1. \A i \in DOMAIN m.fields : m.fields[i] \in P BY <1>1 DEF MessageOver
  <2>2. \A n \in Present(m.exts) : m.exts[n] \in P BY <1>1 DEF MessageOver, Present
  <2> QED BY <2>1, <2>2 DEF MessageEncodable
<1>2. ValueOver(v, P) BY OverIs
<1>3. CASE v.is \in Leaves BY <1>3 DEF Leaves, PartsEncodable
<1>4. CASE v.is = "list" /\ v.items \in Seq(P)
  <2>1. \A i \in DOMAIN v.items : v.items[i] \in P BY <1>4
  <2> QED BY <1>4, <2>1 DEF PartsEncodable
<1>5. CASE v.is = "map" /\ v.entries \in [Numbers -> P]
  <2>1. \A n \in Present(v.entries) : v.entries[n] \in P BY <1>5 DEF Present
  <2> QED BY <1>5, <2>1 DEF PartsEncodable
<1>6. CASE MessageOver(v, P)
  <2>1. v.is = "message" BY <1>6 DEF MessageOver
  <2> QED BY <1>1, <1>6, <2>1 DEF PartsEncodable
<1>7. CASE v.is = "any" /\ PayloadOver(v.payload, P)
  <2>1. CASE MessageOver(v.payload, P)
    <3>1. v.payload.is = "message" BY <2>1 DEF MessageOver
    <3>2. PayloadEncodable(v.payload, g) = PayloadEncodable(v.payload, h)
      BY <1>1, <2>1, <3>1 DEF PayloadEncodable
    <3> QED BY <1>7, <3>2, EncodableType DEF PartsEncodable
  <2>2. CASE ~ MessageOver(v.payload, P)
    <3>1. v.payload.is # "message" BY <1>7, <2>2 DEF PayloadOver
    <3>2. PayloadEncodable(v.payload, g) = PayloadEncodable(v.payload, h)
      BY <3>1 DEF PayloadEncodable
    <3> QED BY <1>7, <3>2, EncodableType DEF PartsEncodable
  <2> QED BY <2>1, <2>2
<1> QED BY <1>2, <1>3, <1>4, <1>5, <1>6, <1>7 DEF ValueOver

HasForm == [v \in Values |-> Encodable(v)]

\* Encodable satisfies its equation.
LEMMA EncodableIs ==
  /\ HasForm \in [Values -> BOOLEAN]
  /\ \A v \in Values : Encodable(v) = PartsEncodable(v, HasForm) /\ HasForm[v] = Encodable(v)
<1> DEFINE B == [v \in Values |-> [g \in [Values -> BOOLEAN] |-> PartsEncodable(v, g)]]
<1>1. B \in [Values -> [[Values -> BOOLEAN] -> BOOLEAN]]
  <2>1. ASSUME NEW v \in Values, NEW g \in [Values -> BOOLEAN]
        PROVE  PartsEncodable(v, g) \in BOOLEAN
    BY PartsOfValue, EncodableByParts
  <2> QED BY <2>1
<1>2. ASSUME NEW g \in [Values -> BOOLEAN], NEW h \in [Values -> BOOLEAN], NEW v \in Values,
             \A w \in Values : DepthOf[w] < DepthOf[v] => g[w] = h[w]
      PROVE  B[v][g] = B[v][h]
  <2>1. PICK P \in SUBSET Values : v \in Over(P) /\ \A w \in P : DepthOf[w] < DepthOf[v]
    BY PartsOfValue
  <2>2. \A w \in P : g[w] = h[w] BY <1>2, <2>1
  <2>3. PartsEncodable(v, g) = PartsEncodable(v, h) BY <2>1, <2>2, EncodableByParts
  <2> QED BY <2>3
<1>3. \A v \in Values : \A g \in [Values -> BOOLEAN] : B[v][g] = PartsEncodable(v, g) OBVIOUS
<1> HIDE DEF B
<1>4. PICK f \in [Values -> BOOLEAN] : \A v \in Values : f[v] = B[v][f]
  <2> DEFINE X == BOOLEAN
  <2>1. TRUE \in X OBVIOUS
  <2>2. B \in Rules(Values, X) BY <1>1 DEF Rules
  <2>3. Local(Values, X, DepthOf, B) BY <1>2 DEF Local
  <2> HIDE DEF X
  <2>4. Solvable(Values, X, B) BY <2>1, <2>2, <2>3, DepthType, Recursion
  <2> QED BY <2>4 DEF X, Solvable
<1> DEFINE Is(e) == e = [v \in Values |-> PartsEncodable(v, e)]
           fix == CHOOSE e : Is(e)
<1>5. Is(f) BY <1>3, <1>4
<1>6. Is(fix) BY <1>5
<1>7. \A v \in Values : Encodable(v) = fix[v] BY DEF Encodable
<1> HIDE DEF fix
<1>8. HasForm = fix BY <1>6, <1>7 DEF HasForm
<1>9. \A v \in Values : HasForm[v] = PartsEncodable(v, HasForm) BY <1>6, <1>8
<1>10. \A v \in Values : HasForm[v] = Encodable(v) BY DEF HasForm
<1>11. HasForm \in [Values -> BOOLEAN] BY <1>9, EncodableType DEF HasForm
<1> QED BY <1>9, <1>10, <1>11
-----------------------------------------------------------------------------
(* Texts *)

\* The provers do not know of a string that it is in STRING: these are named.
Fixed == {"key", "value", "ext", "entry", "{", "}", "[", "]", ",", "@type", "url"} \cup Leaves
Words == Fixed \cup STRING \cup Nat
Tokens == Seq(Words)
Texts == Seq(Tokens)

\* Sequences put together by hand.
LEMMA ConcatIs ==
  ASSUME NEW S, NEW a \in Seq(S), NEW b \in Seq(S)
  PROVE  /\ a \o b \in Seq(S) /\ Len(a) \in Nat /\ Len(b) \in Nat /\ Len(a \o b) = Len(a) + Len(b)
         /\ \A i \in 1 .. Len(a) : (a \o b)[i] = a[i]
         /\ \A i \in 1 .. Len(b) : (a \o b)[Len(a) + i] = b[i]
<1> DEFINE n == Len(a)
           k == Len(b)
           c == a \o b
<1>1. n \in Nat /\ k \in Nat BY LenProperties
<1>2. c \in Seq(S) /\ Len(c) = n + k BY ConcatProperties
<1>3. \A i \in 1 .. n + k : c[i] = IF i <= n THEN a[i] ELSE b[i - n] BY ConcatProperties
<1> HIDE DEF n, k, c
<1>4. \A i \in 1 .. n : c[i] = a[i]
  <2>1. \A i \in 1 .. n : i \in 1 .. n + k /\ i <= n BY <1>1
  <2> QED BY <1>3, <2>1
<1>5. ASSUME NEW i \in 1 .. k PROVE c[n + i] = b[i]
  <2> DEFINE j == n + i
  <2>1. j \in 1 .. n + k /\ ~ (j <= n) /\ j - n = i BY <1>1
  <2> HIDE DEF j
  <2>2. c[j] = b[i] BY <1>3, <2>1
  <2> QED BY <2>2 DEF j
<1> QED BY <1>1, <1>2, <1>4, <1>5 DEF n, k, c

\* Concatenations of short texts, which SMT does not compute.
LEMMA Pair ==
  ASSUME NEW S, NEW a \in S, NEW b \in S
  PROVE  <<a>> \o <<b>> = <<a, b>>
<1> DEFINE s == <<a>>
           t == <<b>>
           u == s \o t
           w == <<a, b>>
<1>1. /\ s \in Seq(S) /\ Len(s) = 1 /\ s[1] = a
      /\ t \in Seq(S) /\ Len(t) = 1 /\ t[1] = b
  OBVIOUS
<1>2. w \in Seq(S) /\ Len(w) = 2 /\ w[1] = a /\ w[2] = b
  OBVIOUS
<1> HIDE DEF s, t, w
<1>3. u \in Seq(S) /\ Len(u) = 2 /\ u[1] = a /\ u[2] = b
  BY <1>1, ConcatIs
<1> HIDE DEF u
<1>4. \A i \in 1 .. 2 : i = 1 \/ i = 2 OBVIOUS
<1>5. \A i \in 1 .. 2 : u[i] = w[i] BY <1>2, <1>3, <1>4
<1> QED BY <1>2, <1>3, <1>5, SeqEqual DEF s, t, u, w

\* Three tokens.
LEMMA Triple ==
  ASSUME NEW S, NEW a \in S, NEW b \in S, NEW c \in S
  PROVE  <<a>> \o <<b, c>> = <<a, b, c>>
<1> DEFINE s == <<a>>
           t == <<b, c>>
           u == s \o t
           w == <<a, b, c>>
<1>1. /\ s \in Seq(S) /\ Len(s) = 1 /\ s[1] = a
      /\ t \in Seq(S) /\ Len(t) = 2 /\ t[1] = b /\ t[2] = c
  OBVIOUS
<1>2. w \in Seq(S) /\ Len(w) = 3 /\ w[1] = a /\ w[2] = b /\ w[3] = c
  OBVIOUS
<1> HIDE DEF s, t, w
<1>3. u \in Seq(S) /\ Len(u) = 3 /\ u[1] = a /\ u[2] = b /\ u[3] = c
  <2>0. /\ u \in Seq(S) /\ Len(u) = Len(s) + Len(t)
        /\ \A i \in 1 .. Len(s) : u[i] = s[i]
        /\ \A i \in 1 .. Len(t) : u[Len(s) + i] = t[i]
    <3>1. s \in Seq(S) /\ t \in Seq(S) BY <1>1
    <3> QED BY <3>1, ConcatIs
  <2> HIDE DEF u
  <2>1. u \in Seq(S) /\ Len(u) = 3 BY <1>1, <2>0
  <2>2. \A i \in 1 .. 1 : u[i] = s[i] BY <1>1, <2>0
  <2>3. \A i \in 1 .. 2 : u[1 + i] = t[i] BY <1>1, <2>0
  <2>4. u[1] = a BY <1>1, <2>2
  <2>5. u[1 + 1] = b /\ u[1 + 2] = c BY <1>1, <2>3
  <2> QED BY <2>1, <2>4, <2>5
<1> HIDE DEF u
<1>4. \A i \in 1 .. 3 : i = 1 \/ i = 2 \/ i = 3 OBVIOUS
<1>5. \A i \in 1 .. 3 : u[i] = w[i] BY <1>2, <1>3, <1>4
<1> QED BY <1>2, <1>3, <1>5, SeqEqual DEF s, t, u, w

\* Four tokens.
LEMMA Quadruple ==
  ASSUME NEW S, NEW a \in S, NEW b \in S, NEW c \in S, NEW d \in S
  PROVE  <<a, b, c>> \o <<d>> = <<a, b, c, d>>
<1> DEFINE s == <<a, b, c>>
           t == <<d>>
           u == s \o t
           w == <<a, b, c, d>>
<1>1. /\ s \in Seq(S) /\ Len(s) = 3 /\ s[1] = a /\ s[2] = b /\ s[3] = c
      /\ t \in Seq(S) /\ Len(t) = 1 /\ t[1] = d
  OBVIOUS
<1>2. w \in Seq(S) /\ Len(w) = 4 /\ w[1] = a /\ w[2] = b /\ w[3] = c /\ w[4] = d
  OBVIOUS
<1> HIDE DEF s, t, w
<1>3. u \in Seq(S) /\ Len(u) = 4 /\ u[1] = a /\ u[2] = b /\ u[3] = c /\ u[4] = d
  <2>0. /\ u \in Seq(S) /\ Len(u) = Len(s) + Len(t)
        /\ \A i \in 1 .. Len(s) : u[i] = s[i]
        /\ \A i \in 1 .. Len(t) : u[Len(s) + i] = t[i]
    <3>1. s \in Seq(S) /\ t \in Seq(S) BY <1>1
    <3> QED BY <3>1, ConcatIs
  <2> HIDE DEF u
  <2>1. u \in Seq(S) /\ Len(u) = 4 BY <1>1, <2>0
  <2>2. \A i \in 1 .. 3 : u[i] = s[i] BY <1>1, <2>0
  <2>3. \A i \in 1 .. 1 : u[3 + i] = t[i] BY <1>1, <2>0
  <2>4. u[1] = a /\ u[2] = b /\ u[3] = c BY <1>1, <2>2
  <2>5. u[3 + 1] = d BY <1>1, <2>3
  <2> QED BY <2>1, <2>4, <2>5
<1> HIDE DEF u
<1>4. \A i \in 1 .. 4 : i = 1 \/ i = 2 \/ i = 3 \/ i = 4 OBVIOUS
<1>5. \A i \in 1 .. 4 : u[i] = w[i] BY <1>2, <1>3, <1>4
<1> QED BY <1>2, <1>3, <1>5, SeqEqual DEF s, t, u, w

\* Texts form a monoid.
LEMMA TextLaws ==
  /\ <<>> \in Texts
  /\ \A a, b \in Texts : a \o b \in Texts
  /\ \A a, b, c \in Texts : (a \o b) \o c = a \o (b \o c)
  /\ \A a \in Texts : a \o <<>> = a /\ <<>> \o a = a
  /\ \A a, b \in Texts : a \o b = <<>> => a = <<>> /\ b = <<>>
<1>1. \A a, b, c \in Texts : (a \o b) \o c = a \o (b \o c) BY ConcatAssociative DEF Texts
<1>2. \A a \in Texts : a \o <<>> = a /\ <<>> \o a = a BY ConcatEmptySeq DEF Texts
<1>3. \A a, b \in Texts : a \o b = <<>> => a = <<>> /\ b = <<>>
  BY ConcatEqualIffEmpty DEF Texts
<1>4. <<>> \in Texts /\ \A a, b \in Texts : a \o b \in Texts
  BY EmptySeq, ConcatProperties DEF Texts
<1> QED BY <1>1, <1>2, <1>3, <1>4

\* The same for three given texts.
LEMMA TextAssoc ==
  ASSUME NEW a \in Texts, NEW b \in Texts, NEW c \in Texts
  PROVE  a \o (b \o c) = (a \o b) \o c
BY TextLaws

\* And for two.
LEMMA ConcatText ==
  ASSUME NEW a \in Texts, NEW b \in Texts
  PROVE  a \o b \in Texts
BY TextLaws

\* Texts of two, four and one tokens.
LEMMA PairText ==
  ASSUME NEW a \in Tokens, NEW b \in Tokens
  PROVE  <<a, b>> \in Texts /\ <<a, b>> # <<>>
BY DEF Texts

\* Four.
LEMMA QuadrupleText ==
  ASSUME NEW a \in Tokens, NEW b \in Tokens, NEW c \in Tokens, NEW d \in Tokens
  PROVE  <<a, b, c, d>> \in Texts
BY DEF Texts

\* One.
LEMMA TokenText ==
  ASSUME NEW t \in Tokens
  PROVE  <<t>> \in Texts /\ <<t>> # <<>>
BY DEF Texts

\* The tokens there are.
LEMMA TokenTypes ==
  /\ \A w \in Words : Token(w) \in Tokens /\ Key(w) \in Tokens /\ Value(w) \in Tokens
  /\ \A n \in Nat : <<"ext", n>> \in Tokens /\ <<"entry", n>> \in Tokens
<1>1. \A n \in Nat : n \in Words BY Zenon DEF Words
<1>2. "key" \in Words /\ "value" \in Words /\ "ext" \in Words /\ "entry" \in Words
  BY Zenon DEF Words, Fixed
<1> HIDE DEF Words
<1>3. \A v, w \in Words : <<v>> \in Seq(Words) /\ <<v, w>> \in Seq(Words) OBVIOUS
<1> QED BY <1>1, <1>2, <1>3, Zenon DEF Token, Key, Value, Tokens

\* A comma is only put before a text that is not empty.
LEMMA ContinuedType ==
  ASSUME NEW t \in Texts
  PROVE  Continued(t) \in Texts
<1>1. "," \in Words BY Zenon DEF Words, Fixed
<1>2. <<Token(",")>> \in Texts BY <1>1, TokenText, TokenTypes
<1> QED BY <1>2, TextLaws DEF Continued

\* The text from each of some texts on.
LEMMA JoinedIs ==
  ASSUME NEW ts \in Seq(Texts)
  PROVE  /\ JoinedFrom(ts) \in [1 .. Len(ts) + 1 -> Texts]
         /\ JoinedFrom(ts)[Len(ts) + 1] = <<>>
         /\ \A i \in 1 .. Len(ts) :
              JoinedFrom(ts)[i] = IF ts[i] = <<>> THEN JoinedFrom(ts)[i + 1]
                                  ELSE ts[i] \o Continued(JoinedFrom(ts)[i + 1])
<1> DEFINE n == Len(ts)
           S == 1 .. n + 1
           D == [i \in S |-> n + 1 - i]
           Step(g, i) == IF i > n THEN <<>>
                         ELSE IF ts[i] = <<>> THEN g[i + 1] ELSE ts[i] \o Continued(g[i + 1])
           B == [i \in S |-> [g \in [S -> Texts] |-> Step(g, i)]]
<1>1. n \in Nat /\ \A i \in 1 .. n : ts[i] \in Texts BY LenProperties, ElementOfSeq
<1>2. JoinedFrom(ts) = CHOOSE f : f = [i \in S |-> Step(f, i)] BY DEF JoinedFrom
<1> HIDE DEF n
<1>3. \A i \in S : i <= n => i \in 1 .. n /\ i + 1 \in S BY <1>1
<1>4. ASSUME NEW i \in S, NEW g \in [S -> Texts]
      PROVE  Step(g, i) \in Texts
  <2>1. CASE i > n BY <2>1, TextLaws
  <2>2. CASE ~ (i > n)
    <3>1. i \in 1 .. n /\ i + 1 \in S BY <1>1, <1>3, <2>2
    <3>2. ts[i] \in Texts /\ g[i + 1] \in Texts BY <1>1, <3>1
    <3> HIDE DEF S
    <3>3. ts[i] \o Continued(g[i + 1]) \in Texts BY <3>2, ContinuedType, TextLaws
    <3> QED BY <2>2, <3>2, <3>3
  <2> QED BY <2>1, <2>2
<1>5. B \in [S -> [[S -> Texts] -> Texts]] BY <1>4
<1>6. ASSUME NEW g \in [S -> Texts], NEW h \in [S -> Texts], NEW i \in S,
             \A j \in S : D[j] < D[i] => g[j] = h[j]
      PROVE  Step(g, i) = Step(h, i)
  <2>1. CASE i > n BY <2>1
  <2>2. CASE ~ (i > n)
    <3>1. i \in 1 .. n /\ i + 1 \in S BY <1>1, <1>3, <2>2
    <3>2. D[i + 1] < D[i] BY <1>1, <3>1
    <3>3. g[i + 1] = h[i + 1] BY <1>6, <3>1, <3>2
    <3> QED BY <2>2, <3>3
  <2> QED BY <2>1, <2>2
<1>7. D \in [S -> Nat] BY <1>1
<1>8. \A i \in S : \A g \in [S -> Texts] : B[i][g] = Step(g, i) OBVIOUS
<1> HIDE DEF S, D, B
<1>9. PICK f \in [S -> Texts] : \A i \in S : f[i] = B[i][f]
  <2>1. B \in Rules(S, Texts) BY <1>5 DEF Rules
  <2>2. Local(S, Texts, D, B)
    <3>1. \A g, h \in [S -> Texts], i \in S :
            (\A j \in S : D[j] < D[i] => g[j] = h[j]) => B[i][g] = B[i][h]
      BY <1>6, <1>8
    <3> QED BY <3>1 DEF Local
  <2>3. <<>> \in Texts BY TextLaws
  <2>4. Solvable(S, Texts, B) BY <1>7, <2>1, <2>2, <2>3, Recursion
  <2> QED BY <2>4 DEF Solvable
<1> HIDE DEF Step
<1> DEFINE Is(e) == e = [i \in S |-> Step(e, i)]
<1>10. Is(f) BY <1>8, <1>9
<1>11. Is(JoinedFrom(ts)) BY <1>2, <1>10
<1> DEFINE J == JoinedFrom(ts)
<1>12. \A i \in S : J[i] = Step(J, i) BY <1>11
<1>13. J \in [S -> Texts]
  <2>1. \A i \in S : J[i] \in Texts
    <3> DEFINE T == {k \in Nat : k <= n /\ J[n + 1 - k] \notin Texts}
    <3> SUFFICES T = {}
      <4> SUFFICES ASSUME NEW i \in S, T = {} PROVE J[i] \in Texts OBVIOUS
      <4>1. n + 1 - i \in Nat /\ n + 1 - i <= n /\ n + 1 - (n + 1 - i) = i BY <1>1 DEF S
      <4> QED BY <4>1
    <3> SUFFICES ASSUME T # {} PROVE FALSE OBVIOUS
    <3>1. PICK k \in T : \A y \in T : k <= y
      <4>1. T \in SUBSET Nat OBVIOUS
      <4> HIDE DEF T
      <4> QED BY <4>1, Least
    <3>2. k \in Nat /\ k <= n /\ J[n + 1 - k] \notin Texts OBVIOUS
    <3> DEFINE i == n + 1 - k
    <3>3. i \in S /\ (k # 0 => i \in 1 .. n /\ i + 1 = n + 1 - (k - 1) /\ ~ (i > n)) BY <1>1, <3>2 DEF S
    <3>4. k = 0 => i > n BY <1>1, <3>2
    <3>5. J[i] = Step(J, i) BY <1>12, <3>3
    <3>6. CASE k = 0 BY <3>2, <3>4, <3>5, <3>6, TextLaws DEF Step
    <3>7. CASE k # 0
      <4>1. k - 1 \in Nat /\ k - 1 <= n /\ ~ (k <= k - 1) BY <1>1, <3>2, <3>7
      <4>2. J[i + 1] \in Texts BY <3>1, <3>3, <3>7, <4>1
      <4>3. ts[i] \in Texts /\ ~ (i > n) BY <1>1, <3>3, <3>7
      <4> HIDE DEF i, T
      <4>4. Step(J, i) \in Texts BY <4>2, <4>3, ContinuedType, TextLaws DEF Step
      <4> QED BY <3>2, <3>5, <4>4 DEF i
    <3> QED BY <3>6, <3>7
  <2> QED BY <1>11, <2>1
<1>14. n + 1 \in S /\ n + 1 > n /\ \A i \in 1 .. n : i \in S /\ ~ (i > n) BY <1>1 DEF S
<1>15. J[n + 1] = <<>> BY <1>12, <1>14 DEF Step
<1>16. \A i \in 1 .. n : J[i] = IF ts[i] = <<>> THEN J[i + 1] ELSE ts[i] \o Continued(J[i + 1])
  BY <1>12, <1>14 DEF Step
<1> QED BY <1>13, <1>15, <1>16 DEF S, n

\* A text in front shifts the others.
LEMMA JoinedShift ==
  ASSUME NEW t \in Texts, NEW ts \in Seq(Texts), t # <<>>
  PROVE  /\ <<t>> \o ts \in Seq(Texts)
         /\ Joined(<<t>> \o ts) = t \o Continued(Joined(ts))
<1> DEFINE us == <<t>> \o ts
           n == Len(ts)
           J == JoinedFrom(ts)
           K == JoinedFrom(us)
<1>1. /\ us \in Seq(Texts) /\ n \in Nat /\ Len(us) = n + 1
      /\ us[1] = t /\ \A i \in 1 .. n : us[i + 1] = ts[i]
  <2>1. <<t>> \in Seq(Texts) /\ Len(<<t>>) = 1 /\ <<t>>[1] = t OBVIOUS
  <2>2. n \in Nat BY LenProperties
  <2> HIDE DEF n
  <2>3. us \in Seq(Texts) /\ Len(us) = 1 + Len(ts) BY <2>1, ConcatProperties
  <2>4. \A i \in 1 .. 1 + Len(ts) : us[i] = IF i <= 1 THEN <<t>>[i] ELSE ts[i - 1]
    BY <2>1, ConcatProperties
  <2>5. us[1] = t BY <2>1, <2>2, <2>4 DEF n
  <2>6. ASSUME NEW i \in 1 .. n PROVE us[i + 1] = ts[i]
    <3>1. i + 1 \in 1 .. 1 + Len(ts) /\ ~ (i + 1 <= 1) /\ (i + 1) - 1 = i BY <2>2 DEF n
    <3> QED BY <2>4, <3>1
  <2> QED BY <2>2, <2>3, <2>5, <2>6 DEF n
<1>2. /\ J[n + 1] = <<>> /\ K[(n + 1) + 1] = <<>>
      /\ \A i \in 1 .. n : J[i] = IF ts[i] = <<>> THEN J[i + 1] ELSE ts[i] \o Continued(J[i + 1])
      /\ \A i \in 1 .. n + 1 : K[i] = IF us[i] = <<>> THEN K[i + 1] ELSE us[i] \o Continued(K[i + 1])
  BY <1>1, JoinedIs
<1> HIDE DEF J, K, us, n
<1>3. \A i \in 1 .. n + 1 : K[i + 1] = J[i]
  <2> DEFINE T == {k \in Nat : k <= n /\ K[(n + 1 - k) + 1] # J[n + 1 - k]}
  <2> SUFFICES T = {}
    <3> SUFFICES ASSUME NEW i \in 1 .. n + 1, T = {} PROVE K[i + 1] = J[i] OBVIOUS
    <3>1. n + 1 - i \in Nat /\ n + 1 - i <= n /\ n + 1 - (n + 1 - i) = i BY <1>1
    <3> QED BY <3>1
  <2> SUFFICES ASSUME T # {} PROVE FALSE OBVIOUS
  <2>1. PICK k \in T : \A y \in T : k <= y
    <3>1. T \in SUBSET Nat OBVIOUS
    <3> HIDE DEF T
    <3> QED BY <3>1, Least
  <2> DEFINE i == n + 1 - k
  <2>2. k \in Nat /\ k <= n /\ K[i + 1] # J[i] OBVIOUS
  <2>3. k = 0 => i = n + 1 BY <1>1, <2>2
  <2>4. k # 0
    <3> SUFFICES ASSUME k = 0 PROVE FALSE OBVIOUS
    <3>1. i = n + 1 BY <2>3
    <3> HIDE DEF i
    <3> QED BY <1>2, <2>2, <3>1
  <2>5. /\ i \in 1 .. n /\ i + 1 \in 1 .. n + 1 /\ i + 1 = n + 1 - (k - 1)
        /\ k - 1 \in Nat /\ k - 1 <= n /\ ~ (k <= k - 1)
    BY <1>1, <2>2, <2>4
  <2>6. K[(i + 1) + 1] = J[i + 1]
    <3>1. k - 1 \notin T BY <2>1, <2>5
    <3> QED BY <2>5, <3>1
  <2>7. us[i + 1] = ts[i] BY <1>1, <2>5
  <2> HIDE DEF i, T
  <2> QED BY <1>2, <2>2, <2>5, <2>6, <2>7
<1>4. K[1] = t \o Continued(J[1])
  <2>1. 1 \in 1 .. n + 1 /\ 1 + 1 = 2 BY <1>1
  <2>2. K[2] = J[1] BY <1>3, <2>1
  <2>3. K[1] = IF us[1] = <<>> THEN K[1 + 1] ELSE us[1] \o Continued(K[1 + 1]) BY <1>2, <2>1
  <2> QED BY <1>1, <2>1, <2>2, <2>3
<1> QED BY <1>1, <1>4 DEF Joined, us, J, K

\* No texts, no commas.
LEMMA JoinedEmpty == Joined(<<>>) = <<>>
<1>1. <<>> \in Seq(Texts) /\ Len(<<>>) = 0 BY EmptySeq
<1>2. JoinedFrom(<<>>)[0 + 1] = <<>> BY <1>1, JoinedIs
<1> QED BY <1>2 DEF Joined

\* Finitely many numbers have an ascending order: a number goes to how many of
\* them are not above it.
LEMMA AscendingExists ==
  ASSUME NEW S, S \in SUBSET Nat, IsFiniteSet(S)
  PROVE  \E o \in [1 .. Cardinality(S) -> S] :
           \A k, l \in 1 .. Cardinality(S) : k < l => o[k] < o[l]
<1> DEFINE n == Cardinality(S)
           below(i) == {j \in S : j <= i}
           place == [i \in S |-> Cardinality(below(i))]
<1>1. n \in Nat /\ IsFiniteSet(1 .. n) /\ Cardinality(1 .. n) = n
  <2>1. n \in Nat
    BY FS_CardinalityType
  <2> HIDE DEF n
  <2> QED BY <2>1, FS_Interval
<1>2. ASSUME NEW i \in S
      PROVE  IsFiniteSet(below(i)) /\ Cardinality(below(i)) \in 1 .. n
  <2>1. below(i) \in SUBSET S /\ i \in below(i)
    OBVIOUS
  <2> HIDE DEF below
  <2>2. IsFiniteSet(below(i)) /\ Cardinality(below(i)) <= n
    BY <2>1, FS_Subset
  <2>3. Cardinality(below(i)) \in Nat /\ Cardinality(below(i)) # 0
    BY <2>1, <2>2, FS_CardinalityType, FS_EmptySet
  <2> QED BY <1>1, <2>2, <2>3
<1>3. ASSUME NEW i \in S, NEW j \in S, i < j
      PROVE  place[i] < place[j]
  <2>0. i \in Nat /\ j \in Nat /\ \A x \in S : x \in Nat
    OBVIOUS
  <2>1. below(i) \in SUBSET below(j)
    <3>1. \A x \in S : x <= i => x <= j
      BY <1>3, <2>0
    <3> QED BY <3>1
  <2>2. j \in below(j) /\ j \notin below(i)
    BY <1>3, <2>0
  <2>3. Cardinality(below(i)) \in 1 .. n /\ Cardinality(below(j)) \in 1 .. n
    BY <1>2
  <2>4. IsFiniteSet(below(j))
    BY <1>2
  <2>5. place[i] = Cardinality(below(i)) /\ place[j] = Cardinality(below(j))
    OBVIOUS
  <2> HIDE DEF below, place, n
  <2>6. /\ Cardinality(below(i)) <= Cardinality(below(j))
        /\ Cardinality(below(j)) = Cardinality(below(i)) => below(j) = below(i)
    BY <2>1, <2>4, FS_Subset
  <2> QED BY <1>1, <2>2, <2>3, <2>5, <2>6
<1>4. place \in [S -> 1 .. n]
  BY <1>2
<1> HIDE DEF below, place, n
<1>5. ASSUME NEW i \in S, NEW j \in S, place[i] = place[j]
      PROVE  i = j
  <2>1. place[i] \in Nat /\ place[j] \in Nat
    BY <1>1, <1>4
  <2>2. ~ (i < j) /\ ~ (j < i)
    BY <1>3, <1>5, <2>1
  <2> QED BY <2>2
<1>6. \A k \in 1 .. n : \E i \in S : place[i] = k
  <2>1. place \in Injection(S, 1 .. n)
    BY <1>4, <1>5 DEF Injection, IsInjective
  <2>2. Cardinality(S) = Cardinality(1 .. n)
    BY <1>1 DEF n
  <2>3. place \in Surjection(S, 1 .. n)
    BY <1>1, <2>1, <2>2, FS_Injection
  <2> QED BY <2>3 DEF Surjection
<1> DEFINE o == [k \in 1 .. n |-> CHOOSE i \in S : place[i] = k]
<1>7. \A k \in 1 .. n : o[k] \in S /\ place[o[k]] = k
  BY <1>6
<1>8. o \in [1 .. n -> S]
  BY <1>7
<1> HIDE DEF o
<1>9. ASSUME NEW k \in 1 .. n, NEW l \in 1 .. n, k < l
      PROVE  o[k] < o[l]
  <2>1. o[k] \in S /\ o[l] \in S /\ place[o[k]] = k /\ place[o[l]] = l
    BY <1>7
  <2>2. /\ o[k] \in Nat /\ o[l] \in Nat
        /\ k \in Nat /\ l \in Nat
    <3>1. \A x \in S : x \in Nat
      OBVIOUS
    <3>2. k \in Nat /\ l \in Nat
      BY <1>1
    <3> QED BY <2>1, <3>1, <3>2
  <2>3. ~ (o[l] < o[k])
    <3>1. SUFFICES ASSUME o[l] < o[k] PROVE FALSE
      OBVIOUS
    <3>2. l < k
      BY <1>3, <2>1, <3>1
    <3> QED BY <1>9, <2>2, <3>2
  <2>4. o[k] # o[l]
    BY <1>9, <2>1, <2>2
  <2> QED BY <2>2, <2>3, <2>4
<1> QED BY <1>8, <1>9 DEF n

\* What Sorted gives: the numbers, each of them.
LEMMA SortedIs ==
  ASSUME NEW S \in SUBSET Numbers
  PROVE  /\ Cardinality(S) \in Nat
         /\ Sorted(S) \in [1 .. Cardinality(S) -> S]
         /\ \A x \in S : \E i \in 1 .. Cardinality(S) : Sorted(S)[i] = x
<1> DEFINE n == Cardinality(S)
           s == Sorted(S)
<1>1. S \in SUBSET Nat /\ IsFiniteSet(S) BY NumbersAssumption, FS_Subset
<1>2. n \in Nat BY <1>1, FS_CardinalityType
<1>3. \E o \in [1 .. n -> S] : \A k, l \in 1 .. n : k < l => o[k] < o[l]
  BY <1>1, AscendingExists
<1>4. s \in [1 .. n -> S] /\ \A k, l \in 1 .. n : k < l => s[k] < s[l]
  BY <1>3 DEF Sorted
<1>5. IsFiniteSet(1 .. n) /\ Cardinality(1 .. n) = n
  <2> HIDE DEF n
  <2> QED BY <1>2, FS_Interval
<1>6. \A k, l \in 1 .. n : s[k] = s[l] => k = l
  <2> SUFFICES ASSUME NEW k \in 1 .. n, NEW l \in 1 .. n, k # l PROVE s[k] # s[l]
    OBVIOUS
  <2> HIDE DEF n, s
  <2>1. k < l \/ l < k BY <1>2
  <2>2. s[k] \in Nat /\ s[l] \in Nat BY <1>1, <1>4
  <2> QED BY <1>4, <2>1, <2>2
<1>7. \A x \in S : \E i \in 1 .. n : s[i] = x
  <2> HIDE DEF s
  <2>1. s \in Injection(1 .. n, S) BY <1>4, <1>6 DEF Injection, IsInjective
  <2>2. s \in Surjection(1 .. n, S) BY <1>1, <1>5, <2>1, FS_Injection
  <2> QED BY <2>2 DEF Surjection
<1> QED BY <1>2, <1>4, <1>7
-----------------------------------------------------------------------------
(* The texts of values *)

OptionSet == [EmitUnpopulated : BOOLEAN, UseProtoNames : BOOLEAN]
Writings == [Values -> Texts]

\* What the schema says of a field of a message.
LEMMA FieldIs ==
  ASSUME NEW P, NEW m, MessageOver(m, P), NEW i \in 1 .. Len(m.fields)
  PROVE  /\ Len(m.fields) \in Nat /\ Len(Types[m.type]) = Len(m.fields)
         /\ Types[m.type][i].shape \in Shapes
         /\ \A o \in OptionSet : NameOf(Types[m.type][i], o) \in Words
         /\ m.fields[i] \in P
         /\ Holds(Types[m.type][i].shape, m.fields[i])
<1> DEFINE R == [json : STRING, proto : STRING, shape : Shapes]
           ts == Types[m.type]
<1>1. m.type \in DOMAIN Types /\ m.fields \in Seq(P) BY DEF MessageOver
<1>2. Len(m.fields) = Len(ts) /\ \A j \in 1 .. Len(ts) : Holds(ts[j].shape, m.fields[j])
  BY DEF MessageOver, WellTyped
<1>3. ts \in Seq(R) BY <1>1, TypesAssumption
<1> HIDE DEF R, ts
<1>4. ts[i] \in R /\ m.fields[i] \in P /\ Len(m.fields) \in Nat
  BY <1>1, <1>2, <1>3, ElementOfSeq, LenProperties
<1>5. ts[i].shape \in Shapes /\ ts[i].json \in STRING /\ ts[i].proto \in STRING BY <1>4 DEF R
<1>6. \A o \in OptionSet : NameOf(ts[i], o) \in STRING BY <1>5 DEF NameOf, OptionSet
<1>7. \A o \in OptionSet : NameOf(ts[i], o) \in Words BY <1>6, Zenon DEF Words
<1> QED BY <1>1, <1>2, <1>4, <1>5, <1>7 DEF ts

\* A member is a text.
LEMMA MemberType ==
  ASSUME NEW field, NEW o \in OptionSet, NameOf(field, o) \in Words,
         NEW v \in Values, NEW T \in Writings
  PROVE  Member(field, v, o, T) \in Texts
<1>1. <<Key(NameOf(field, o))>> \in Texts BY TokenTypes, TokenText
<1>2. <<Value("null")>> \in Texts /\ <<Value("zero")>> \in Texts
  <2>1. "null" \in Words /\ "zero" \in Words BY Zenon DEF Words, Fixed, Leaves
  <2> QED BY <2>1, TokenTypes, TokenText
<1>3. T[v] \in Texts BY DEF Writings
<1>4. Unset(field.shape, v, T) \in Texts BY <1>2, <1>3 DEF Unset
<1>5. CASE Populated(field.shape, v) BY <1>1, <1>3, <1>5, TextLaws DEF Member
<1>6. CASE /\ ~ Populated(field.shape, v) /\ o.EmitUnpopulated
           /\ field.shape \notin Explicit
  BY <1>1, <1>4, <1>6, TextLaws DEF Member
<1>7. CASE /\ ~ Populated(field.shape, v)
           /\ ~ (o.EmitUnpopulated /\ field.shape \notin Explicit)
  BY <1>7, TextLaws DEF Member
<1> QED BY <1>5, <1>6, <1>7

\* The members of a message: its fields, then its extensions.
LEMMA MembersAre ==
  ASSUME NEW P \in SUBSET Values, NEW m, MessageOver(m, P), NEW o \in OptionSet,
         NEW T \in Writings
  PROVE  LET M == Members(m, o, T)
             n == Len(m.fields)
             c == Cardinality(Present(m.exts))
             numbers == Sorted(Present(m.exts))
         IN  /\ n \in Nat /\ c \in Nat /\ M \in Seq(Texts) /\ Len(M) = n + c
             /\ \A i \in 1 .. n : M[i] = Member(Types[m.type][i], m.fields[i], o, T)
             /\ \A i \in 1 .. c :
                  /\ numbers[i] \in Present(m.exts) /\ m.exts[numbers[i]] \in P
                  /\ M[n + i] = <<<<"ext", numbers[i]>>>> \o T[m.exts[numbers[i]]]
<1> DEFINE M == Members(m, o, T)
           n == Len(m.fields)
           S == Present(m.exts)
           c == Cardinality(S)
           numbers == Sorted(S)
           fields == [i \in 1 .. n |-> Member(Types[m.type][i], m.fields[i], o, T)]
           extensions == [i \in 1 .. c |-> <<<<"ext", numbers[i]>>>> \o T[m.exts[numbers[i]]]]
<1>1. m.fields \in Seq(P) /\ m.exts \in [Numbers -> P] BY DEF MessageOver
<1>2. n \in Nat /\ Len(Types[m.type]) = n
  BY <1>1, LenProperties DEF MessageOver, WellTyped
<1>3. M = fields \o extensions BY <1>2 DEF Members
<1>4. S \in SUBSET Numbers /\ c \in Nat /\ numbers \in [1 .. c -> S]
  <2>1. S \in SUBSET Numbers BY DEF Present
  <2> HIDE DEF S
  <2> QED BY <2>1, SortedIs
<1>5. \A i \in 1 .. c : numbers[i] \in S /\ numbers[i] \in Nat /\ m.exts[numbers[i]] \in P
  <2>1. Numbers \subseteq Nat BY NumbersAssumption
  <2> HIDE DEF S, c, numbers
  <2> QED BY <1>1, <1>4, <2>1
<1>6. \A i \in 1 .. c : <<<<"ext", numbers[i]>>>> \o T[m.exts[numbers[i]]] \in Texts
  <2> SUFFICES ASSUME NEW i \in 1 .. c
               PROVE  <<<<"ext", numbers[i]>>>> \o T[m.exts[numbers[i]]] \in Texts
    OBVIOUS
  <2> HIDE DEF S, c, numbers
  <2>1. <<"ext", numbers[i]>> \in Tokens BY <1>5, TokenTypes
  <2>2. T[m.exts[numbers[i]]] \in Texts BY <1>5 DEF Writings
  <2> QED BY <2>1, <2>2, TokenText, TextLaws
<1>7. \A i \in 1 .. n : Member(Types[m.type][i], m.fields[i], o, T) \in Texts
  BY FieldIs, MemberType
<1> HIDE DEF n, c, numbers, S, M
<1>8. fields \in Seq(Texts) /\ Len(fields) = n BY <1>2, <1>7
<1>9. extensions \in Seq(Texts) /\ Len(extensions) = c BY <1>4, <1>6
<1>10. \A i \in 1 .. n : fields[i] = Member(Types[m.type][i], m.fields[i], o, T) OBVIOUS
<1>11. \A i \in 1 .. c : extensions[i] = <<<<"ext", numbers[i]>>>> \o T[m.exts[numbers[i]]]
  OBVIOUS
<1> HIDE DEF fields, extensions
<1>12. /\ M \in Seq(Texts) /\ Len(M) = n + c
       /\ \A i \in 1 .. n + c : M[i] = IF i <= n THEN fields[i] ELSE extensions[i - n]
  BY <1>3, <1>8, <1>9, ConcatProperties
<1>13. \A i \in 1 .. n : M[i] = fields[i] BY <1>2, <1>4, <1>12
<1>14. ASSUME NEW i \in 1 .. c PROVE M[n + i] = extensions[i]
  <2> DEFINE k == n + i
  <2>1. k \in 1 .. n + c /\ ~ (k <= n) /\ k - n = i BY <1>2, <1>4
  <2> HIDE DEF k
  <2>2. M[k] = extensions[i] BY <1>12, <2>1
  <2> QED BY <2>2 DEF k
<1>15. \A i \in 1 .. c : numbers[i] \in S /\ m.exts[numbers[i]] \in P BY <1>5
<1> QED BY <1>2, <1>4, <1>10, <1>11, <1>12, <1>13, <1>14, <1>15 DEF n, c, numbers, S, M

\* There are writings.
LEMMA SomeWriting == \E T : T \in Writings
<1>1. [w \in Values |-> <<>>] \in Writings BY TextLaws DEF Writings
<1> QED BY <1>1

\* They depend on the texts of its parts.
LEMMA MembersByParts ==
  ASSUME NEW P \in SUBSET Values, NEW m, MessageOver(m, P), NEW o \in OptionSet,
         NEW g, NEW h, \A w \in P : g[w] = h[w]
  PROVE  Members(m, o, g) = Members(m, o, h)
<1> DEFINE n == Len(m.fields)
           S == Present(m.exts)
           c == Cardinality(S)
           numbers == Sorted(S)
           fields(T) == [i \in 1 .. n |-> Member(Types[m.type][i], m.fields[i], o, T)]
           extensions(T) == [i \in 1 .. c |-> <<<<"ext", numbers[i]>>>> \o T[m.exts[numbers[i]]]]
<1>1. \A T : Members(m, o, T) = fields(T) \o extensions(T)
  BY DEF Members, MessageOver, WellTyped
<1>2. \A i \in 1 .. n : Member(Types[m.type][i], m.fields[i], o, g)
                      = Member(Types[m.type][i], m.fields[i], o, h)
  <2>1. \A i \in 1 .. n : g[m.fields[i]] = h[m.fields[i]] BY FieldIs
  <2> QED BY <2>1 DEF Member, Unset
<1>3. \A i \in 1 .. c : g[m.exts[numbers[i]]] = h[m.exts[numbers[i]]]
  BY MembersAre, SomeWriting
<1>4. fields(g) = fields(h) BY <1>2
<1>5. extensions(g) = extensions(h) BY <1>3
<1> HIDE DEF fields, extensions
<1> QED BY <1>1, <1>4, <1>5

\* The texts of the items of a list,
LEMMA ItemsAre ==
  ASSUME NEW P \in SUBSET Values, NEW v, v.items \in Seq(P), NEW T \in Writings
  PROVE  LET I == Items(v, T)
         IN  /\ Len(v.items) \in Nat /\ I \in Seq(Texts) /\ Len(I) = Len(v.items)
             /\ \A i \in 1 .. Len(v.items) :
                  /\ v.items[i] \in P
                  /\ I[i] = IF v.items[i].is = "nil" THEN <<Value("null")>> ELSE T[v.items[i]]
<1> DEFINE n == Len(v.items)
           Item(i) == IF v.items[i].is = "nil" THEN <<Value("null")>> ELSE T[v.items[i]]
<1>1. n \in Nat /\ \A i \in 1 .. n : v.items[i] \in P BY LenProperties, ElementOfSeq
<1>2. <<Value("null")>> \in Texts
  <2>1. "null" \in Words BY Zenon DEF Words, Fixed, Leaves
  <2> QED BY <2>1, TokenTypes, TokenText
<1>3. \A i \in 1 .. n : Item(i) \in Texts BY <1>1, <1>2 DEF Writings
<1>4. Items(v, T) = [i \in 1 .. n |-> Item(i)] BY DEF Items
<1> HIDE DEF n, Item
<1>5. Items(v, T) \in Seq(Texts) /\ Len(Items(v, T)) = n BY <1>1, <1>3, <1>4
<1>6. \A i \in 1 .. n : Items(v, T)[i] = Item(i) BY <1>4
<1> QED BY <1>1, <1>5, <1>6 DEF n, Item

\* which depend on its items.
LEMMA ItemsByParts ==
  ASSUME NEW P \in SUBSET Values, NEW v, v.items \in Seq(P),
         NEW g, NEW h, \A w \in P : g[w] = h[w]
  PROVE  Items(v, g) = Items(v, h)
<1>1. \A i \in 1 .. Len(v.items) : g[v.items[i]] = h[v.items[i]] BY ItemsAre, SomeWriting
<1> QED BY <1>1 DEF Items

\* The texts of the entries of a map,
LEMMA EntriesAre ==
  ASSUME NEW P \in SUBSET Values, NEW v, v.entries \in [Numbers -> P], NEW T \in Writings
  PROVE  LET E == Entries(v, T)
             c == Cardinality(Present(v.entries))
             keys == Sorted(Present(v.entries))
         IN  /\ c \in Nat /\ E \in Seq(Texts) /\ Len(E) = c
             /\ \A i \in 1 .. c :
                  /\ keys[i] \in Present(v.entries) /\ v.entries[keys[i]] \in P
                  /\ <<"entry", keys[i]>> \in Tokens
                  /\ E[i] = <<<<"entry", keys[i]>>>> \o T[v.entries[keys[i]]]
<1> DEFINE S == Present(v.entries)
           c == Cardinality(S)
           keys == Sorted(S)
           Entry(i) == <<<<"entry", keys[i]>>>> \o T[v.entries[keys[i]]]
<1>1. S \in SUBSET Numbers BY DEF Present
<1>2. Entries(v, T) = [i \in 1 .. c |-> Entry(i)] BY DEF Entries
<1> HIDE DEF S
<1>3. c \in Nat /\ keys \in [1 .. c -> S] BY <1>1, SortedIs
<1> HIDE DEF c, keys
<1>4. \A i \in 1 .. c : keys[i] \in S /\ v.entries[keys[i]] \in P BY <1>1, <1>3
<1>5. \A i \in 1 .. c : <<"entry", keys[i]>> \in Tokens
  <2>1. \A i \in 1 .. c : keys[i] \in Nat BY <1>1, <1>4, NumbersAssumption
  <2> QED BY <2>1, TokenTypes
<1>6. \A i \in 1 .. c : Entry(i) \in Texts
  <2> SUFFICES ASSUME NEW i \in 1 .. c PROVE Entry(i) \in Texts OBVIOUS
  <2>1. <<<<"entry", keys[i]>>>> \in Texts BY <1>5, TokenText
  <2>2. T[v.entries[keys[i]]] \in Texts BY <1>4 DEF Writings
  <2> QED BY <2>1, <2>2, TextLaws
<1> HIDE DEF Entry
<1>7. Entries(v, T) \in Seq(Texts) /\ Len(Entries(v, T)) = c BY <1>2, <1>3, <1>6
<1>8. \A i \in 1 .. c : Entries(v, T)[i] = Entry(i) BY <1>2
<1> QED BY <1>3, <1>4, <1>5, <1>7, <1>8 DEF S, c, keys, Entry

\* which depend on its entries.
LEMMA EntriesByParts ==
  ASSUME NEW P \in SUBSET Values, NEW v, v.entries \in [Numbers -> P],
         NEW g, NEW h, \A w \in P : g[w] = h[w]
  PROVE  Entries(v, g) = Entries(v, h)
<1> DEFINE c == Cardinality(Present(v.entries))
           keys == Sorted(Present(v.entries))
<1>1. \A i \in 1 .. c : g[v.entries[keys[i]]] = h[v.entries[keys[i]]]
  BY EntriesAre, SomeWriting
<1> QED BY <1>1 DEF Entries

\* What is put between braces is a text, and not the empty one.
LEMMA EnclosedType ==
  ASSUME NEW ts \in Seq(Texts), NEW open \in Words, NEW close \in Words
  PROVE  /\ Joined(ts) \in Texts
         /\ Enclosed(open, ts, close) \in Texts /\ Enclosed(open, ts, close) # <<>>
<1>1. Joined(ts) \in Texts
  <2>1. 1 \in 1 .. Len(ts) + 1 BY LenProperties
  <2> QED BY <2>1, JoinedIs DEF Joined
<1>2. <<Token(open)>> \in Texts /\ <<Token(open)>> # <<>> /\ <<Token(close)>> \in Texts
  BY TokenTypes, TokenText
<1>3. <<Token(open)>> \o Joined(ts) \in Texts BY <1>1, <1>2, TextLaws
<1>4. <<Token(open)>> \o Joined(ts) # <<>> BY <1>1, <1>2, TextLaws
<1> HIDE DEF Texts
<1> QED BY <1>1, <1>2, <1>3, <1>4, TextLaws DEF Enclosed

\* The members of an Any,
LEMMA AnyMembersType ==
  ASSUME NEW P \in SUBSET Values, NEW p, PayloadOver(p, P), NEW o \in OptionSet,
         NEW T \in Writings
  PROVE  AnyMembers(p, o, T) \in Seq(Texts)
<1> DEFINE type == <<Key("@type"), Value("url")>>
           known == <<Key("value"), Value(p.value.is)>>
<1>1. type \in Texts
  <2>1. "@type" \in Words /\ "url" \in Words BY Zenon DEF Words, Fixed
  <2> QED BY <2>1, TokenTypes DEF Texts
<1>2. <<type>> \in Seq(Texts) BY <1>1
<1>3. CASE p.is = "message"
  <2>1. MessageOver(p, P) BY <1>3 DEF PayloadOver
  <2>2. Members(p, o, T) \in Seq(Texts) BY <2>1, MembersAre
  <2>3. <<type>> \o Members(p, o, T) \in Seq(Texts) BY <1>2, <2>2, ConcatProperties
  <2> QED BY <1>3, <2>3 DEF AnyMembers
<1>4. CASE p.is = "known"
  <2>1. p.value.is \in Leaves BY <1>4 DEF PayloadOver, MessageOver
  <2>2. p.value.is \in Words /\ "value" \in Words BY <2>1, Zenon DEF Words, Fixed
  <2>3. known \in Texts BY <2>2, TokenTypes DEF Texts
  <2> HIDE DEF type, known
  <2>4. <<type, known>> \in Seq(Texts) BY <1>1, <2>3
  <2> QED BY <1>4, <2>4 DEF AnyMembers, type, known
<1>5. CASE p.is = "nil" BY <1>5, EmptySeq DEF AnyMembers
<1>6. CASE p.is \notin {"message", "known", "nil"} BY <1>2, <1>6 DEF AnyMembers
<1> QED BY <1>3, <1>4, <1>5, <1>6

\* which depend on the parts of its message.
LEMMA AnyMembersByParts ==
  ASSUME NEW P \in SUBSET Values, NEW p, PayloadOver(p, P), NEW o \in OptionSet,
         NEW g, NEW h, \A w \in P : g[w] = h[w]
  PROVE  AnyMembers(p, o, g) = AnyMembers(p, o, h)
<1>1. CASE MessageOver(p, P) BY <1>1, MembersByParts DEF AnyMembers, MessageOver
<1>2. CASE ~ MessageOver(p, P)
  <2>1. p.is # "message" BY <1>2 DEF PayloadOver
  <2> QED BY <2>1 DEF AnyMembers
<1> QED BY <1>1, <1>2

\* The text of a value is a text, and not empty,
LEMMA PartsTextType ==
  ASSUME NEW P \in SUBSET Values, NEW v, ValueOver(v, P), NEW o \in OptionSet,
         NEW T \in Writings
  PROVE  PartsText(v, o, T) \in Texts /\ PartsText(v, o, T) # <<>>
<1>0. "{" \in Words /\ "}" \in Words /\ "[" \in Words /\ "]" \in Words
  BY Zenon DEF Words, Fixed
<1>1. CASE v.is \in Leaves
  <2>1. v.is \in Words BY <1>1, Zenon DEF Words, Fixed
  <2>2. PartsText(v, o, T) = <<Value(v.is)>> BY <1>1 DEF PartsText, Leaves
  <2> QED BY <2>1, <2>2, TokenTypes, TokenText
<1>2. CASE v.is = "list" /\ v.items \in Seq(P)
  <2>1. Items(v, T) \in Seq(Texts) BY <1>2, ItemsAre
  <2> QED BY <1>0, <1>2, <2>1, EnclosedType DEF PartsText
<1>3. CASE v.is = "map" /\ v.entries \in [Numbers -> P]
  <2>1. Entries(v, T) \in Seq(Texts) BY <1>3, EntriesAre
  <2> QED BY <1>0, <1>3, <2>1, EnclosedType DEF PartsText
<1>4. CASE MessageOver(v, P)
  <2>1. Members(v, o, T) \in Seq(Texts) BY <1>4, MembersAre
  <2>2. v.is = "message" BY <1>4 DEF MessageOver
  <2> QED BY <1>0, <2>1, <2>2, EnclosedType DEF PartsText
<1>5. CASE v.is = "any" /\ PayloadOver(v.payload, P)
  <2>1. AnyMembers(v.payload, o, T) \in Seq(Texts) BY <1>5, AnyMembersType
  <2> QED BY <1>0, <1>5, <2>1, EnclosedType DEF PartsText
<1> QED BY <1>1, <1>2, <1>3, <1>4, <1>5 DEF ValueOver

\* and depends on the parts of the value.
LEMMA PartsTextByParts ==
  ASSUME NEW P \in SUBSET Values, NEW v, ValueOver(v, P), NEW o \in OptionSet,
         NEW g, NEW h, \A w \in P : g[w] = h[w]
  PROVE  PartsText(v, o, g) = PartsText(v, o, h)
<1>1. CASE v.is \in Leaves BY <1>1 DEF PartsText, Leaves
<1>2. CASE v.is = "list" /\ v.items \in Seq(P)
  <2>1. Items(v, g) = Items(v, h) BY <1>2, ItemsByParts
  <2> QED BY <1>2, <2>1 DEF PartsText
<1>3. CASE v.is = "map" /\ v.entries \in [Numbers -> P]
  <2>1. Entries(v, g) = Entries(v, h) BY <1>3, EntriesByParts
  <2> QED BY <1>3, <2>1 DEF PartsText
<1>4. CASE MessageOver(v, P)
  <2>1. Members(v, o, g) = Members(v, o, h) BY <1>4, MembersByParts
  <2>2. v.is = "message" BY <1>4 DEF MessageOver
  <2> QED BY <2>1, <2>2 DEF PartsText
<1>5. CASE v.is = "any" /\ PayloadOver(v.payload, P)
  <2>1. AnyMembers(v.payload, o, g) = AnyMembers(v.payload, o, h) BY <1>5, AnyMembersByParts
  <2> QED BY <1>5, <2>1 DEF PartsText
<1> QED BY <1>1, <1>2, <1>3, <1>4, <1>5 DEF ValueOver

\* The text of a value is made of the texts of its parts.
TextsOf(o) == [v \in Values |-> Text(v, o)]

LEMMA TextIs ==
  ASSUME NEW o \in OptionSet
  PROVE  /\ TextsOf(o) \in Writings
         /\ \A v \in Values : /\ Text(v, o) = PartsText(v, o, TextsOf(o))
                              /\ TextsOf(o)[v] = Text(v, o)
<1> DEFINE B == [v \in Values |-> [g \in [Values -> Texts] |-> PartsText(v, o, g)]]
<1>0. Writings = [Values -> Texts] BY DEF Writings
<1>1. \A v \in Values, g \in Writings : PartsText(v, o, g) \in Texts
  <2> SUFFICES ASSUME NEW v \in Values, NEW g \in Writings PROVE PartsText(v, o, g) \in Texts
    OBVIOUS
  <2>1. PICK P \in SUBSET Values : v \in Over(P) BY PartsOfValue
  <2>2. ValueOver(v, P) BY <2>1, OverIs
  <2> QED BY <2>2, PartsTextType
<1>2. ASSUME NEW g \in Writings, NEW h \in Writings, NEW v \in Values,
             \A w \in Values : DepthOf[w] < DepthOf[v] => g[w] = h[w]
      PROVE  PartsText(v, o, g) = PartsText(v, o, h)
  <2>1. PICK P \in SUBSET Values : v \in Over(P) /\ \A w \in P : DepthOf[w] < DepthOf[v]
    BY PartsOfValue
  <2>2. \A w \in P : g[w] = h[w] BY <1>2, <2>1
  <2>3. ValueOver(v, P) BY <2>1, OverIs
  <2> QED BY <2>2, <2>3, PartsTextByParts
<1>3. \A v \in Values : \A g \in [Values -> Texts] : B[v][g] = PartsText(v, o, g) OBVIOUS
<1>4. B \in Rules(Values, Texts) BY <1>0, <1>1 DEF Rules
<1> HIDE DEF B
<1>5. Local(Values, Texts, DepthOf, B)
  <2>1. ASSUME NEW g \in [Values -> Texts], NEW h \in [Values -> Texts], NEW v \in Values,
               \A w \in Values : DepthOf[w] < DepthOf[v] => g[w] = h[w]
        PROVE  B[v][g] = B[v][h]
    <3>1. PartsText(v, o, g) = PartsText(v, o, h) BY <1>0, <1>2, <2>1
    <3> QED BY <1>3, <3>1
  <2> QED BY <2>1 DEF Local
<1>6. PICK f \in [Values -> Texts] : \A v \in Values : f[v] = B[v][f]
  <2>1. <<>> \in Texts BY TextLaws
  <2>2. Solvable(Values, Texts, B) BY <1>4, <1>5, <2>1, DepthType, Recursion
  <2> QED BY <2>2 DEF Solvable
<1> DEFINE Is(e) == e = [v \in Values |-> PartsText(v, o, e)]
           fix == CHOOSE e : Is(e)
<1>7. Is(f) BY <1>3, <1>6
<1>8. Is(fix) BY <1>7
<1>9. \A v \in Values : Text(v, o) = fix[v] BY DEF Text
<1>10. fix = [v \in Values |-> fix[v]] BY <1>8
<1> HIDE DEF fix
<1>11. TextsOf(o) = fix BY <1>9, <1>10 DEF TextsOf
<1>12. \A v \in Values : TextsOf(o)[v] = PartsText(v, o, TextsOf(o)) BY <1>8, <1>11
<1>13. \A v \in Values : TextsOf(o)[v] = Text(v, o) BY DEF TextsOf
<1>14. TextsOf(o) \in Writings
  <2> DEFINE t == TextsOf(o)
             T == {n \in Nat : \E v \in Values : DepthOf[v] = n /\ t[v] \notin Texts}
  <2>1. T = {}
    <3> SUFFICES ASSUME T # {} PROVE FALSE OBVIOUS
    <3>1. PICK n \in T : \A y \in T : n <= y
      <4>1. T \in SUBSET Nat OBVIOUS
      <4> HIDE DEF T
      <4> QED BY <4>1, Least
    <3>2. PICK v \in Values : DepthOf[v] = n /\ t[v] \notin Texts OBVIOUS
    <3>3. PICK P \in SUBSET Values : v \in Over(P) /\ \A w \in P : DepthOf[w] < DepthOf[v]
      BY PartsOfValue
    <3>4. ASSUME NEW w \in P PROVE t[w] \in Texts
      <4>1. DepthOf[w] \in Nat /\ n \in Nat BY DepthType
      <4>2. ~ (n <= DepthOf[w]) BY <3>2, <3>3, <4>1
      <4>3. DepthOf[w] \notin T BY <3>1, <4>2
      <4> QED BY <4>1, <4>3
    <3> DEFINE g == [w \in Values |-> IF w \in P THEN t[w] ELSE <<>>]
    <3>5. g \in Writings /\ \A w \in P : t[w] = g[w] BY <3>4, TextLaws DEF Writings
    <3> HIDE DEF g, t
    <3>6. ValueOver(v, P) BY <3>3, OverIs
    <3>7. PartsText(v, o, t) = PartsText(v, o, g) BY <3>5, <3>6, PartsTextByParts
    <3>8. PartsText(v, o, g) \in Texts BY <3>5, <3>6, PartsTextType
    <3> QED BY <1>12, <3>2, <3>7, <3>8 DEF t
  <2>2. ASSUME NEW v \in Values PROVE t[v] \in Texts
    <3>1. DepthOf[v] \in Nat BY DepthType
    <3> QED BY <2>1, <3>1
  <2>3. t = [v \in Values |-> t[v]] BY DEF TextsOf
  <2> HIDE DEF t
  <2>4. t \in [Values -> Texts] BY <2>2, <2>3
  <2> QED BY <2>4 DEF t, Writings
<1> QED BY <1>12, <1>13, <1>14

\* What a value is made of, by its kind.
LEMMA ValueIs ==
  ASSUME NEW v \in Values
  PROVE  /\ v.is \in Leaves \cup {"list", "map", "message", "any"}
         /\ v.is = "list" => v.items \in Seq(Values)
         /\ v.is = "map" => v.entries \in [Numbers -> Values]
         /\ v.is = "message" => MessageOver(v, Values)
         /\ v.is = "any" => PayloadOver(v.payload, Values)
         /\ v.is = "any" /\ v.payload.is = "message" =>
              v.payload \in Values /\ MessageOver(v.payload, Values)
<1>1. PICK P \in SUBSET Values : v \in Over(P) /\ Over(P) \subseteq Values BY PartsOfValue
<1>2. v \in Over(Values) BY <1>1, OverGrows
<1>3. ValueOver(v, Values) BY <1>2, OverIs
<1>4. v.is = "any" /\ v.payload.is = "message" =>
        v.payload \in Values /\ MessageOver(v.payload, Values)
  <2> SUFFICES ASSUME v.is = "any", v.payload.is = "message"
               PROVE  v.payload \in Values /\ MessageOver(v.payload, Values)
    OBVIOUS
  <2>1. ValueOver(v, P) BY <1>1, OverIs
  <2>2. PayloadOver(v.payload, P) BY <2>1 DEF ValueOver, MessageOver, Leaves
  <2>3. v.payload \in Messages(P) BY <2>2 DEF PayloadOver
  <2>4. v.payload \in Over(P) BY <2>3, MessageIsOver
  <2>5. Messages(P) \subseteq Messages(Values)
    <3>1. Seq(P) \subseteq Seq(Values) BY SeqMonotonic
    <3> QED BY <3>1 DEF Messages
  <2> QED BY <1>1, <2>3, <2>4, <2>5, MessageIsOver
<1> QED BY <1>3, <1>4 DEF ValueOver, MessageOver, Leaves

\* Texts have a first token; a leaf is just that.
LEMMA TextOf ==
  ASSUME NEW v \in Values, NEW o \in OptionSet
  PROVE  /\ Text(v, o) \in Texts /\ Text(v, o) # <<>>
         /\ v.is \in Leaves => Text(v, o) = <<Value(v.is)>>
<1>1. TextsOf(o) \in Writings /\ Text(v, o) = PartsText(v, o, TextsOf(o)) BY TextIs
<1>2. PICK P \in SUBSET Values : v \in Over(P) BY PartsOfValue
<1>3. ValueOver(v, P) BY <1>2, OverIs
<1>4. v.is \in Leaves => PartsText(v, o, TextsOf(o)) = <<Value(v.is)>> BY DEF PartsText, Leaves
<1> QED BY <1>1, <1>3, <1>4, PartsTextType
-----------------------------------------------------------------------------
(* Frames *)

\* What a frame writes: so many parts, each a value and with a text.
Count(f) ==
  CASE f.kind = "object" -> MemberCount(f.message)
    [] f.kind = "list" -> Len(f.items)
    [] f.kind = "map" -> Len(f.keys)
Part(f, i) ==
  CASE f.kind = "object" -> MemberValue(f.message, i)
    [] f.kind = "list" -> f.items[i]
    [] f.kind = "map" -> f.entries[f.keys[i]]
PartTexts(f, o) ==
  CASE f.kind = "object" -> Members(f.message, o, TextsOf(o))
    [] f.kind = "list" -> Items(f, TextsOf(o))
    [] f.kind = "map" -> Entries(f, TextsOf(o))

ObjectOK(f) ==
  /\ f \in [kind : {"object"}, message : Values, next : Nat, wrote : BOOLEAN,
            embedded : BOOLEAN]
  /\ MessageOver(f.message, Values)
ListOK(f) == f \in [kind : {"list"}, items : Seq(Values), next : Nat]
MapOK(f) ==
  /\ f \in [kind : {"map"}, entries : [Numbers -> Values], keys : Seq(Numbers), next : Nat]
  /\ f.keys = SortedKeys(f.entries)
FrameOK(f) ==
  /\ ObjectOK(f) \/ ListOK(f) \/ MapOK(f)
  /\ f.next \in 1 .. Count(f) + 1

\* Keys of a map as a sequence.
LEMMA KeysAre ==
  ASSUME NEW entries
  PROVE  /\ SortedKeys(entries) \in Seq(Numbers)
         /\ Cardinality(Present(entries)) \in Nat
         /\ Len(SortedKeys(entries)) = Cardinality(Present(entries))
<1> DEFINE S == Present(entries)
           c == Cardinality(S)
<1>1. S \in SUBSET Numbers BY DEF Present
<1> HIDE DEF S
<1>2. c \in Nat /\ Sorted(S) \in [1 .. c -> S] BY <1>1, SortedIs
<1> HIDE DEF c
<1>3. Sorted(S) \in [1 .. c -> Numbers] BY <1>1, <1>2
<1>4. Sorted(S) \in Seq(Numbers) /\ Len(Sorted(S)) = c BY <1>2, <1>3
<1> QED BY <1>2, <1>4 DEF SortedKeys, S, c

\* Members of a message by number.
LEMMA MemberAre ==
  ASSUME NEW m, MessageOver(m, Values)
  PROVE  /\ MemberCount(m) \in Nat
         /\ \A i \in 1 .. MemberCount(m) : MemberValue(m, i) \in Values
<1> DEFINE n == Len(m.fields)
           c == Cardinality(Present(m.exts))
           numbers == Sorted(Present(m.exts))
<1>1. PICK T : T \in Writings BY SomeWriting
<1>2. PICK o : o \in OptionSet
  <2>1. [EmitUnpopulated |-> TRUE, UseProtoNames |-> TRUE] \in OptionSet BY DEF OptionSet
  <2> QED BY <2>1
<1>3. n \in Nat /\ c \in Nat /\ \A i \in 1 .. c : m.exts[numbers[i]] \in Values
  BY <1>1, <1>2, MembersAre
<1>4. \A i \in 1 .. n : m.fields[i] \in Values BY FieldIs
<1>5. MemberCount(m) = n + c BY DEF MemberCount, FieldCount
<1>6. \A i : MemberValue(m, i) = IF i <= n THEN m.fields[i] ELSE m.exts[numbers[i - n]]
  BY DEF MemberValue, IsField, ExtAt, ExtNumbers, FieldCount
<1> HIDE DEF n, c, numbers
<1>7. ASSUME NEW i \in 1 .. n + c PROVE MemberValue(m, i) \in Values
  <2>1. CASE i <= n
    <3>1. i \in 1 .. n BY <1>3, <2>1
    <3> QED BY <1>4, <1>6, <2>1, <3>1
  <2>2. CASE ~ (i <= n)
    <3> DEFINE j == i - n
    <3>1. j \in 1 .. c BY <1>3, <2>2
    <3> HIDE DEF j
    <3>2. m.exts[numbers[j]] \in Values BY <1>3, <3>1
    <3> QED BY <1>6, <2>2, <3>2 DEF j
  <2> QED BY <2>1, <2>2
<1> QED BY <1>3, <1>5, <1>7

\* A frame has a value and a text for each of its parts.
LEMMA FrameIs ==
  ASSUME NEW f, FrameOK(f), NEW o \in OptionSet
  PROVE  /\ Count(f) \in Nat /\ f.next \in 1 .. Count(f) + 1
         /\ PartTexts(f, o) \in Seq(Texts) /\ Len(PartTexts(f, o)) = Count(f)
         /\ \A i \in 1 .. Count(f) : Part(f, i) \in Values
<1>1. TextsOf(o) \in Writings BY TextIs
<1>2. CASE ObjectOK(f)
  <2>1. f.kind = "object" /\ MessageOver(f.message, Values) BY <1>2 DEF ObjectOK
  <2>2. Count(f) = MemberCount(f.message) /\ \A i : Part(f, i) = MemberValue(f.message, i)
    BY <2>1 DEF Count, Part
  <2>3. PartTexts(f, o) = Members(f.message, o, TextsOf(o)) BY <2>1 DEF PartTexts
  <2>4. PartTexts(f, o) \in Seq(Texts) /\ Len(PartTexts(f, o)) = MemberCount(f.message)
    <3> DEFINE M == Members(f.message, o, TextsOf(o))
    <3>1. M \in Seq(Texts) BY <1>1, <2>1, MembersAre
    <3>2. Len(M) = Len(f.message.fields) + Cardinality(Present(f.message.exts))
      BY <1>1, <2>1, MembersAre
    <3> HIDE DEF M
    <3>3. Len(M) = MemberCount(f.message) BY <3>2 DEF MemberCount, FieldCount
    <3> QED BY <2>3, <3>1, <3>3 DEF M
  <2> QED BY <2>1, <2>2, <2>4, MemberAre DEF FrameOK
<1>3. CASE ListOK(f)
  <2>1. f.kind = "list" /\ f.items \in Seq(Values) BY <1>3 DEF ListOK
  <2>2. Count(f) = Len(f.items) /\ \A i : Part(f, i) = f.items[i] BY <2>1 DEF Count, Part
  <2>3. PartTexts(f, o) = Items(f, TextsOf(o)) BY <2>1 DEF PartTexts
  <2>4. /\ Len(f.items) \in Nat /\ PartTexts(f, o) \in Seq(Texts)
        /\ Len(PartTexts(f, o)) = Len(f.items)
        /\ \A i \in 1 .. Len(f.items) : f.items[i] \in Values
    BY <1>1, <2>1, <2>3, ItemsAre
  <2> QED BY <2>2, <2>4 DEF FrameOK
<1>4. CASE MapOK(f)
  <2>1. /\ f.kind = "map" /\ f.entries \in [Numbers -> Values]
        /\ f.keys = Sorted(Present(f.entries))
    BY <1>4 DEF MapOK, SortedKeys
  <2>2. Count(f) = Len(f.keys) /\ \A i : Part(f, i) = f.entries[f.keys[i]]
    BY <2>1 DEF Count, Part
  <2>3. PartTexts(f, o) = Entries(f, TextsOf(o)) BY <2>1 DEF PartTexts
  <2>4. Len(f.keys) = Cardinality(Present(f.entries)) BY <2>1, KeysAre DEF SortedKeys
  <2>5. /\ Cardinality(Present(f.entries)) \in Nat /\ PartTexts(f, o) \in Seq(Texts)
        /\ Len(PartTexts(f, o)) = Cardinality(Present(f.entries))
        /\ \A i \in 1 .. Cardinality(Present(f.entries)) : f.entries[f.keys[i]] \in Values
    <3> DEFINE c == Cardinality(Present(f.entries))
               T == TextsOf(o)
    <3> HIDE DEF T
    <3>1. T \in Writings BY <1>1 DEF T
    <3>2. /\ c \in Nat /\ Entries(f, T) \in Seq(Texts) /\ Len(Entries(f, T)) = c
          /\ \A i \in 1 .. c : f.entries[Sorted(Present(f.entries))[i]] \in Values
      BY <2>1, <3>1, EntriesAre
    <3> QED BY <2>1, <2>3, <3>2 DEF T
  <2> QED BY <2>2, <2>4, <2>5 DEF FrameOK
<1> QED BY <1>2, <1>3, <1>4 DEF FrameOK

\* The text a frame has still to write.
Started(f) == IF f.kind = "object" THEN f.wrote ELSE f.next > 1
Close(f) == IF f.kind = "list" THEN "]" ELSE "}"
After(text, started) == IF started THEN Continued(text) ELSE text
Rest(f, o) ==
  After(JoinedFrom(PartTexts(f, o))[f.next], Started(f)) \o <<Token(Close(f))>>

\* The closing token, and a comma before what follows.
LEMMA CloseText ==
  ASSUME NEW f
  PROVE  <<Token(Close(f))>> \in Texts
<1>1. "}" \in Words /\ "]" \in Words BY Zenon DEF Words, Fixed
<1> QED BY <1>1, TokenTypes, TokenText DEF Close

\* The comma.
LEMMA CommaText ==
  ASSUME NEW b
  PROVE  Comma(b) \in Texts
<1>1. "," \in Words BY Zenon DEF Words, Fixed
<1>2. <<Token(",")>> \in Texts BY <1>1, TokenTypes, TokenText
<1> QED BY <1>2, TextLaws DEF Comma

\* What is still to write is a text.
LEMMA RestType ==
  ASSUME NEW f, FrameOK(f), NEW o \in OptionSet
  PROVE  /\ JoinedFrom(PartTexts(f, o))[f.next] \in Texts
         /\ Rest(f, o) \in Texts
<1> DEFINE J == JoinedFrom(PartTexts(f, o))
<1>1. J[f.next] \in Texts BY FrameIs, JoinedIs
<1> HIDE DEF J
<1>2. After(J[f.next], Started(f)) \in Texts BY <1>1, ContinuedType DEF After
<1>3. After(J[f.next], Started(f)) \o <<Token(Close(f))>> \in Texts
  BY <1>2, CloseText, TextLaws
<1> QED BY <1>1, <1>3 DEF Rest, J

\* A part that is written, after a comma unless it is the first.
LEMMA RestStep ==
  ASSUME NEW f, FrameOK(f), NEW g, NEW o \in OptionSet, f.next <= Count(f),
         PartTexts(f, o)[f.next] # <<>>,
         PartTexts(g, o) = PartTexts(f, o), g.next = f.next + 1,
         Started(g), Close(g) = Close(f)
  PROVE  Rest(f, o) = (Comma(Started(f)) \o PartTexts(f, o)[f.next]) \o Rest(g, o)
<1> DEFINE ts == PartTexts(f, o)
           J == JoinedFrom(ts)
           i == f.next
           c == <<Token(Close(f))>>
           t == ts[i]
           rest == Continued(J[i + 1])
           comma == Comma(Started(f))
<1>1. /\ Count(f) \in Nat /\ i \in 1 .. Count(f) + 1
      /\ ts \in Seq(Texts) /\ Len(ts) = Count(f)
  BY FrameIs
<1>2. i \in 1 .. Len(ts) /\ i + 1 \in 1 .. Len(ts) + 1 BY <1>1
<1>3. J[i] = t \o rest /\ J[i + 1] \in Texts BY <1>1, <1>2, JoinedIs
<1>4. t \in Texts /\ t # <<>> BY <1>1, <1>2, ElementOfSeq
<1>5. rest \in Texts /\ c \in Texts /\ comma \in Texts
  BY <1>3, ContinuedType, CloseText, CommaText
<1>6. Rest(g, o) = rest \o c BY DEF Rest, After
<1>7. Rest(f, o) = After(J[i], Started(f)) \o c BY DEF Rest
<1> HIDE DEF t, rest, c, J, ts, comma
<1>8. J[i] # <<>> BY <1>3, <1>4, <1>5, TextLaws
<1>9. After(J[i], Started(f)) = comma \o J[i]
  <2>1. t \o rest \in Texts BY <1>4, <1>5, TextLaws
  <2>2. <<>> \o J[i] = J[i] BY <1>3, <2>1, TextLaws
  <2> QED BY <1>8, <2>2 DEF After, Continued, comma, Comma
<1>10. (comma \o (t \o rest)) \o c = (comma \o t) \o (rest \o c)
  <2>1. t \o rest \in Texts /\ comma \o t \in Texts BY <1>4, <1>5, TextLaws
  <2>2. comma \o (t \o rest) = (comma \o t) \o rest BY <1>4, <1>5, TextLaws
  <2>3. \A a \in Texts : (a \o rest) \o c = a \o (rest \o c) BY <1>5, TextLaws
  <2> QED BY <2>1, <2>2, <2>3
<1> QED BY <1>3, <1>6, <1>7, <1>9, <1>10 DEF comma, t, ts

\* A part that is left out.
LEMMA RestSkip ==
  ASSUME NEW f, FrameOK(f), NEW g, NEW o \in OptionSet, f.next <= Count(f),
         PartTexts(f, o)[f.next] = <<>>,
         PartTexts(g, o) = PartTexts(f, o), g.next = f.next + 1,
         Started(g) = Started(f), Close(g) = Close(f)
  PROVE  Rest(f, o) = Rest(g, o)
<1> DEFINE ts == PartTexts(f, o)
           i == f.next
<1>1. /\ Count(f) \in Nat /\ i \in 1 .. Count(f) + 1
      /\ ts \in Seq(Texts) /\ Len(ts) = Count(f)
  BY FrameIs
<1>2. i \in 1 .. Len(ts) BY <1>1
<1>3. JoinedFrom(ts)[i] = JoinedFrom(ts)[i + 1] BY <1>1, <1>2, JoinedIs
<1> QED BY <1>3 DEF Rest

\* The end, and the start.
LEMMA RestEnd ==
  ASSUME NEW f, FrameOK(f), NEW o \in OptionSet, f.next > Count(f)
  PROVE  Rest(f, o) = <<Token(Close(f))>>
<1> DEFINE ts == PartTexts(f, o)
<1>1. /\ Count(f) \in Nat /\ f.next \in 1 .. Count(f) + 1
      /\ ts \in Seq(Texts) /\ Len(ts) = Count(f)
  BY FrameIs
<1>2. f.next = Len(ts) + 1 BY <1>1
<1>3. JoinedFrom(ts)[f.next] = <<>> BY <1>1, <1>2, JoinedIs
<1>4. Rest(f, o) = <<>> \o <<Token(Close(f))>> BY <1>3 DEF Rest, After, Continued
<1> QED BY <1>4, CloseText, TextLaws

\* At the start that is everything.
LEMMA RestStart ==
  ASSUME NEW f, FrameOK(f), NEW o \in OptionSet, f.next = 1, ~ Started(f), NEW open \in Words
  PROVE  /\ Rest(f, o) = Joined(PartTexts(f, o)) \o <<Token(Close(f))>>
         /\ <<Token(open)>> \o Rest(f, o) = Enclosed(open, PartTexts(f, o), Close(f))
<1> DEFINE J == Joined(PartTexts(f, o))
<1>1. Rest(f, o) = J \o <<Token(Close(f))>> BY DEF Rest, After, Joined
<1>2. J \in Texts BY RestType DEF Joined
<1>3. <<Token(open)>> \in Texts BY TokenTypes, TokenText
<1> HIDE DEF J
<1>4. <<Token(open)>> \o (J \o <<Token(Close(f))>>) = (<<Token(open)>> \o J) \o <<Token(Close(f))>>
  BY <1>2, <1>3, CloseText, TextLaws
<1> QED BY <1>1, <1>4 DEF Enclosed, J

\* What has a frame still to write that may not have a JSON form.
RestEncodable(f) == \A i \in f.next .. Count(f) : Encodable(Part(f, i))

\* The frames that a list, a map and a message start write its text, and can
\* write it if it has one.
LEMMA ListStart ==
  ASSUME NEW v \in Values, v.is = "list", NEW o \in OptionSet
  PROVE  LET f == ListFrame(v.items)
         IN  /\ FrameOK(f)
             /\ Text(v, o) = <<Token("[")>> \o Rest(f, o)
             /\ Encodable(v) <=> RestEncodable(f)
<1> DEFINE f == ListFrame(v.items)
<1>1. v.items \in Seq(Values) /\ Len(v.items) \in Nat BY ValueIs, LenProperties
<1>2. /\ f.kind = "list" /\ f.items = v.items /\ f.next = 1 /\ ~ Started(f) /\ Close(f) = "]"
      /\ Count(f) = Len(v.items) /\ \A i : Part(f, i) = v.items[i]
      /\ f \in [kind : {"list"}, items : Seq(Values), next : Nat]
  BY <1>1 DEF ListFrame, Started, Close, Count, Part
<1> HIDE DEF f
<1>3. FrameOK(f) BY <1>1, <1>2 DEF FrameOK, ListOK
<1>4. PartTexts(f, o) = Items(v, TextsOf(o)) BY <1>2 DEF PartTexts, Items
<1>5. Text(v, o) = Enclosed("[", PartTexts(f, o), "]") BY <1>4, TextIs DEF PartsText
<1>6. "[" \in Words BY Zenon DEF Words, Fixed
<1>7. Text(v, o) = <<Token("[")>> \o Rest(f, o) BY <1>2, <1>3, <1>5, <1>6, RestStart
<1>8. Encodable(v) <=> \A i \in DOMAIN v.items : Encodable(v.items[i])
  <2>1. \A i \in DOMAIN v.items : v.items[i] \in Values BY <1>1
  <2>2. Encodable(v) = \A i \in DOMAIN v.items : HasForm[v.items[i]]
    BY EncodableIs DEF PartsEncodable
  <2>3. \A i \in DOMAIN v.items : HasForm[v.items[i]] = Encodable(v.items[i])
    BY <2>1, EncodableIs
  <2> QED BY <2>2, <2>3, Zenon
<1>9. DOMAIN v.items = f.next .. Count(f) BY <1>1, <1>2
<1>10. Encodable(v) <=> RestEncodable(f) BY <1>2, <1>8, <1>9, Zenon DEF RestEncodable
<1> QED BY <1>3, <1>7, <1>10 DEF f

\* A map.
LEMMA MapStart ==
  ASSUME NEW v \in Values, v.is = "map", NEW o \in OptionSet
  PROVE  LET f == MapFrame(v.entries)
         IN  /\ FrameOK(f)
             /\ Text(v, o) = <<Token("{")>> \o Rest(f, o)
             /\ Encodable(v) <=> RestEncodable(f)
<1> DEFINE f == MapFrame(v.entries)
           S == Present(v.entries)
           c == Cardinality(S)
           keys == SortedKeys(v.entries)
<1>1. v.entries \in [Numbers -> Values] BY ValueIs
<1>2. keys \in Seq(Numbers) /\ c \in Nat /\ Len(keys) = c BY KeysAre
<1>3. /\ f.kind = "map" /\ f.entries = v.entries /\ f.keys = keys /\ f.next = 1
      /\ ~ Started(f) /\ Close(f) = "}"
      /\ Count(f) = c /\ \A i : Part(f, i) = v.entries[keys[i]]
      /\ f \in [kind : {"map"}, entries : [Numbers -> Values], keys : Seq(Numbers), next : Nat]
  BY <1>1, <1>2 DEF MapFrame, Started, Close, Count, Part
<1>4. S \in SUBSET Numbers BY DEF Present
<1>5. /\ keys \in [1 .. c -> S]
      /\ \A x \in S : \E i \in 1 .. c : keys[i] = x
  <2> HIDE DEF S
  <2> QED BY <1>4, SortedIs DEF SortedKeys, S
<1> HIDE DEF f, c, keys
<1>6. FrameOK(f)
  <2>1. MapOK(f) BY <1>3 DEF MapOK, keys
  <2>2. f.next \in 1 .. Count(f) + 1
    <3>1. 1 \in 1 .. c + 1 BY <1>2
    <3>2. f.next = 1 /\ Count(f) = c BY <1>3
    <3> QED BY <3>1, <3>2
  <2> QED BY <2>1, <2>2 DEF FrameOK
<1>7. PartTexts(f, o) = Entries(v, TextsOf(o)) BY <1>3 DEF PartTexts, Entries
<1>8. Text(v, o) = Enclosed("{", PartTexts(f, o), "}") BY <1>7, TextIs DEF PartsText
<1>9. "{" \in Words BY Zenon DEF Words, Fixed
<1>10. Text(v, o) = <<Token("{")>> \o Rest(f, o)
  <2>1. f.next = 1 /\ ~ Started(f) /\ Close(f) = "}" BY <1>3
  <2> QED BY <1>6, <1>8, <1>9, <2>1, RestStart
<1>11. Encodable(v) <=> \A k \in S : Encodable(v.entries[k])
  <2>1. \A k \in S : v.entries[k] \in Values BY <1>1, <1>4
  <2>2. Encodable(v) = \A k \in S : HasForm[v.entries[k]]
    BY EncodableIs DEF PartsEncodable
  <2>3. \A k \in S : HasForm[v.entries[k]] = Encodable(v.entries[k]) BY <2>1, EncodableIs
  <2> HIDE DEF S
  <2> QED BY <2>2, <2>3, Zenon
<1> HIDE DEF S
<1>12. (\A k \in S : Encodable(v.entries[k])) <=> \A i \in 1 .. c : Encodable(v.entries[keys[i]])
  <2>1. \A i \in 1 .. c : keys[i] \in S BY <1>5
  <2> QED BY <1>5, <2>1, Zenon
<1>13. RestEncodable(f) <=> \A i \in 1 .. c : Encodable(v.entries[keys[i]])
  <2>1. f.next = 1 /\ Count(f) = c /\ \A i : Part(f, i) = v.entries[keys[i]] BY <1>3
  <2> QED BY <2>1, Zenon DEF RestEncodable
<1>14. Encodable(v) <=> RestEncodable(f) BY <1>11, <1>12, <1>13
<1> QED BY <1>6, <1>10, <1>14 DEF f

\* A message, of its own or of an Any.
LEMMA MessageStart ==
  ASSUME NEW m \in Values, m.is = "message", NEW o \in OptionSet, NEW b \in BOOLEAN
  PROVE  LET f == ObjectFrame(m, b)
         IN  /\ FrameOK(f) /\ f.kind = "object" /\ f.embedded = b
             /\ Close(f) = "}" /\ f.next = 1 /\ ~ Started(f)
             /\ PartTexts(f, o) = Members(m, o, TextsOf(o))
             /\ Text(m, o) = <<Token("{")>> \o Rest(f, o)
             /\ Encodable(m) <=> RestEncodable(f)
<1> DEFINE f == ObjectFrame(m, b)
           n == Len(m.fields)
           S == Present(m.exts)
           c == Cardinality(S)
           numbers == Sorted(S)
<1>1. MessageOver(m, Values) BY ValueIs
<1>2. m.fields \in Seq(Values) /\ m.exts \in [Numbers -> Values] /\ n \in Nat
  BY <1>1, LenProperties DEF MessageOver
<1>3. S \in SUBSET Numbers BY DEF Present
<1>4. /\ c \in Nat /\ numbers \in [1 .. c -> S]
      /\ \A x \in S : \E i \in 1 .. c : numbers[i] = x
  <2> HIDE DEF S
  <2> QED BY <1>3, SortedIs
<1>5. /\ f.kind = "object" /\ f.message = m /\ f.next = 1 /\ f.embedded = b
      /\ ~ Started(f) /\ Close(f) = "}"
      /\ Count(f) = n + c
      /\ \A i : Part(f, i) = IF i <= n THEN m.fields[i] ELSE m.exts[numbers[i - n]]
      /\ f \in [kind : {"object"}, message : Values, next : Nat, wrote : BOOLEAN,
                embedded : BOOLEAN]
  BY <1>1 DEF ObjectFrame, Started, Close, Count, Part, MemberCount, FieldCount, MemberValue,
              IsField, ExtAt, ExtNumbers
<1> HIDE DEF f, c, numbers
<1>6. FrameOK(f)
  <2>1. 1 \in 1 .. (n + c) + 1 BY <1>2, <1>4
  <2> QED BY <1>1, <1>5, <2>1 DEF FrameOK, ObjectOK
<1>7. PartTexts(f, o) = Members(m, o, TextsOf(o)) BY <1>5 DEF PartTexts
<1>8. Text(m, o) = Enclosed("{", PartTexts(f, o), "}") BY <1>7, TextIs DEF PartsText
<1>9. "{" \in Words BY Zenon DEF Words, Fixed
<1>10. Text(m, o) = <<Token("{")>> \o Rest(f, o) BY <1>5, <1>6, <1>8, <1>9, RestStart
<1>11. Encodable(m) <=> /\ \A i \in 1 .. n : Encodable(m.fields[i])
                        /\ \A k \in S : Encodable(m.exts[k])
  <2>1. DOMAIN m.fields = 1 .. n BY <1>2
  <2>2. /\ \A i \in 1 .. n : m.fields[i] \in Values
        /\ \A k \in S : m.exts[k] \in Values
    BY <1>2, <1>3, <2>1
  <2>3. Encodable(m) = MessageEncodable(m, HasForm) BY EncodableIs DEF PartsEncodable
  <2>4. MessageEncodable(m, HasForm) <=> /\ \A i \in 1 .. n : HasForm[m.fields[i]]
                                         /\ \A k \in S : HasForm[m.exts[k]]
    BY <2>1, Zenon DEF MessageEncodable
  <2>5. /\ \A i \in 1 .. n : HasForm[m.fields[i]] = Encodable(m.fields[i])
        /\ \A k \in S : HasForm[m.exts[k]] = Encodable(m.exts[k])
    BY <2>2, EncodableIs
  <2> HIDE DEF n, S
  <2> QED BY <2>3, <2>4, <2>5, Zenon
<1> HIDE DEF n, S
<1>12. (\A k \in S : Encodable(m.exts[k])) <=> \A i \in 1 .. c : Encodable(m.exts[numbers[i]])
  <2>1. \A i \in 1 .. c : numbers[i] \in S BY <1>4
  <2> QED BY <1>4, <2>1, Zenon
<1>13. RestEncodable(f) <=> /\ \A i \in 1 .. n : Encodable(Part(f, i))
                            /\ \A i \in 1 .. c : Encodable(Part(f, n + i))
  <2> DEFINE P(i) == Encodable(Part(f, i))
  <2>1. RestEncodable(f) <=> \A i \in 1 .. n + c : P(i) BY <1>5, Zenon DEF RestEncodable
  <2> HIDE DEF P
  <2>2. ASSUME \A i \in 1 .. n : P(i), \A i \in 1 .. c : P(n + i), NEW i \in 1 .. n + c
        PROVE  P(i)
    <3>1. CASE i <= n BY <1>2, <2>2, <3>1
    <3>2. CASE ~ (i <= n)
      <4>1. i - n \in 1 .. c /\ n + (i - n) = i BY <1>2, <1>4, <3>2
      <4>2. P(n + (i - n)) BY <2>2, <4>1
      <4> QED BY <4>1, <4>2
    <3> QED BY <3>1, <3>2
  <2>3. \A i \in 1 .. n : i \in 1 .. n + c BY <1>2, <1>4
  <2>4. \A i \in 1 .. c : n + i \in 1 .. n + c BY <1>2, <1>4
  <2>5. (\A i \in 1 .. n + c : P(i)) <=> /\ \A i \in 1 .. n : P(i)
                                         /\ \A i \in 1 .. c : P(n + i)
    BY <2>2, <2>3, <2>4, Zenon
  <2> QED BY <2>1, <2>5 DEF P
<1>14. \A i \in 1 .. n : Part(f, i) = m.fields[i]
  <2>1. \A i : Part(f, i) = IF i <= n THEN m.fields[i] ELSE m.exts[numbers[i - n]] BY <1>5
  <2>2. \A i \in 1 .. n : i <= n BY <1>2
  <2> QED BY <2>1, <2>2
<1>15. \A i \in 1 .. c : Part(f, n + i) = m.exts[numbers[i]]
  <2> SUFFICES ASSUME NEW i \in 1 .. c PROVE Part(f, n + i) = m.exts[numbers[i]] OBVIOUS
  <2>1. ~ (n + i <= n) /\ (n + i) - n = i BY <1>2, <1>4
  <2> QED BY <1>5, <2>1
<1>16. Encodable(m) <=> RestEncodable(f) BY <1>11, <1>12, <1>13, <1>14, <1>15, Zenon
<1> QED BY <1>5, <1>6, <1>7, <1>10, <1>16 DEF f

\* Without its braces an object is its members, after a comma if it has any.
LEMMA StrippedIs ==
  ASSUME NEW J \in Texts
  PROVE  Stripped(<<Token("{")>> \o (J \o <<Token("}")>>)) = Continued(J)
<1> DEFINE open == <<Token("{")>>
           close == <<Token("}")>>
           text == open \o (J \o close)
           n == Len(J)
<1>1. "{" \in Words /\ "}" \in Words BY Zenon DEF Words, Fixed
<1>2. open \in Texts /\ close \in Texts /\ Len(open) = 1 /\ Len(close) = 1
  BY <1>1, TokenTypes, TokenText
<1> HIDE DEF open, close
<1>3. /\ n \in Nat /\ J \o close \in Texts /\ Len(J \o close) = n + 1
      /\ \A i \in 1 .. n : (J \o close)[i] = J[i]
  <2>1. J \in Seq(Tokens) /\ close \in Seq(Tokens) BY <1>2 DEF Texts
  <2>2. /\ n \in Nat /\ J \o close \in Seq(Tokens) /\ Len(J \o close) = n + Len(close)
        /\ \A i \in 1 .. n : (J \o close)[i] = J[i]
    BY <2>1, ConcatIs
  <2> QED BY <1>2, <2>2 DEF Texts
<1>4. /\ text \in Texts /\ Len(text) = 1 + (n + 1)
      /\ \A i \in 1 .. n + 1 : text[1 + i] = (J \o close)[i]
  <2> DEFINE t == J \o close
  <2> HIDE DEF t
  <2>1. t \in Seq(Tokens) /\ open \in Seq(Tokens) /\ Len(t) = n + 1 BY <1>2, <1>3 DEF t, Texts
  <2>2. /\ open \o t \in Seq(Tokens) /\ Len(open \o t) = Len(open) + Len(t)
        /\ \A i \in 1 .. Len(t) : (open \o t)[Len(open) + i] = t[i]
    <3>1. t \in Seq(Tokens) /\ open \in Seq(Tokens) BY <2>1
    <3> QED BY <3>1, ConcatIs
  <2> QED BY <1>2, <2>1, <2>2 DEF t, Texts
<1>5. \A i \in 1 .. n : text[i + 1] = J[i]
  <2> SUFFICES ASSUME NEW i \in 1 .. n PROVE text[i + 1] = J[i] OBVIOUS
  <2>1. i \in 1 .. n + 1 /\ i + 1 = 1 + i BY <1>3
  <2>2. text[1 + i] = (J \o close)[i] BY <1>4, <2>1
  <2> QED BY <1>3, <2>1, <2>2
<1> HIDE DEF text
<1>6. SubSeq(text, 2, Len(text) - 1) = J
  <2>1. Len(text) - 1 = n + 1 BY <1>3, <1>4
  <2>2. SubSeq(text, 2, n + 1) = [i \in 1 .. n |-> text[i + 1]]
    BY <1>3, <1>4
  <2>3. J = [i \in 1 .. n |-> J[i]] BY <1>3 DEF Texts
  <2>4. [i \in 1 .. n |-> text[i + 1]] = [i \in 1 .. n |-> J[i]] BY <1>5
  <2> QED BY <2>1, <2>2, <2>3, <2>4
<1>7. Len(text) > 2 <=> J # <<>>
  <2>1. n = 0 <=> J = <<>> BY EmptySeq, LenProperties DEF Texts
  <2> QED BY <1>3, <1>4, <2>1
<1> QED BY <1>6, <1>7 DEF Stripped, Continued, text, open, close

\* What is left of any text is a text.
LEMMA StrippedType ==
  ASSUME NEW text \in Texts
  PROVE  Stripped(text) \in Texts
<1> DEFINE n == Len(text)
           mid == SubSeq(text, 2, n - 1)
           comma == <<Token(",")>>
<1>1. "," \in Words BY Zenon DEF Words, Fixed
<1>2. <<Token(",")>> \in Texts BY <1>1, TokenTypes, TokenText
<1>3. CASE n > 2
  <2>1. n \in Nat BY DEF Texts
  <2>2. mid = [i \in 1 .. n - 2 |-> text[i + 1]] BY <1>3, <2>1
  <2>3. \A i \in 1 .. n - 2 : i + 1 \in 1 .. n BY <2>1
  <2>4. \A i \in 1 .. n : text[i] \in Tokens BY DEF Texts
  <2>5. n - 2 \in Nat BY <1>3, <2>1
  <2> HIDE DEF n, mid
  <2>6. mid \in [1 .. n - 2 -> Tokens] BY <2>2, <2>3, <2>4
  <2>7. mid \in Texts BY <2>5, <2>6 DEF Texts
  <2>8. Stripped(text) = comma \o mid BY <1>3 DEF Stripped, n, mid
  <2> HIDE DEF comma
  <2>9. comma \in Texts BY <1>2 DEF comma
  <2>10. comma \o mid \in Texts BY <2>7, <2>9, ConcatText
  <2> QED BY <2>8, <2>10
<1>4. CASE ~ (n > 2) BY <1>4, TextLaws DEF Stripped
<1> QED BY <1>3, <1>4

\* The text of an Any.
LEMMA AnyText ==
  ASSUME NEW v \in Values, v.is = "any", NEW o \in OptionSet
  PROVE  LET p == v.payload
         IN  /\ AnyType \in Texts
             /\ p.is = "nil" => Text(v, o) = <<Token("{"), Token("}")>>
             /\ p.is = "empty" => Text(v, o) = AnyType \o <<Token("}")>>
             /\ p.is = "known" =>
                  Text(v, o) = AnyType \o <<Token(","), Key("value"), Value(p.value.is), Token("}")>>
             /\ p.is = "message" =>
                  /\ Stripped(Text(p, o)) \in Texts
                  /\ Text(v, o) = AnyType \o (Stripped(Text(p, o)) \o <<Token("}")>>)
<1> DEFINE p == v.payload
           type == <<Key("@type"), Value("url")>>
           open == <<Token("{")>>
           close == <<Token("}")>>
           ts == AnyMembers(p, o, TextsOf(o))
<1>1. /\ "{" \in Words /\ "}" \in Words /\ "@type" \in Words /\ "url" \in Words
      /\ "value" \in Words /\ "," \in Words
  BY Zenon DEF Words, Fixed
<1>2. Text(v, o) = (open \o Joined(ts)) \o close BY TextIs DEF PartsText, Enclosed
<1>3. open \in Texts /\ close \in Texts BY <1>1, TokenTypes, TokenText
<1>4. type \in Texts /\ type # <<>> /\ AnyType = open \o type
  <2>1. Key("@type") \in Tokens /\ Value("url") \in Tokens /\ Token("{") \in Tokens
    BY <1>1, TokenTypes
  <2>2. type \in Texts /\ type # <<>> BY <2>1, PairText
  <2>3. AnyType = open \o type BY <2>1, Triple DEF AnyType
  <2> QED BY <2>2, <2>3
<1>5. PayloadOver(p, Values) BY ValueIs
<1>6. TextsOf(o) \in Writings BY TextIs
<1>7. AnyType \in Texts BY <1>3, <1>4, TextLaws
<1>8. \A us \in Seq(Texts) : Joined(<<type>> \o us) = type \o Continued(Joined(us))
  BY <1>4, JoinedShift
<1>9. ASSUME NEW us \in Seq(Texts), ts = <<type>> \o us
      PROVE  Text(v, o) = AnyType \o (Continued(Joined(us)) \o close)
  <2> DEFINE c == Continued(Joined(us))
  <2>1. c \in Texts BY <1>1, EnclosedType, ContinuedType
  <2>2. Joined(ts) = type \o c BY <1>8, <1>9
  <2> HIDE DEF c, type, open, close, ts
  <2>3. open \o (type \o c) = (open \o type) \o c
    <3>1. open \in Texts /\ type \in Texts /\ c \in Texts BY <1>3, <1>4, <2>1
    <3> HIDE DEF p
    <3> QED BY <3>1, TextAssoc
  <2>4. \A a \in Texts : (a \o c) \o close = a \o (c \o close) BY <1>3, <2>1, TextLaws
  <2> QED BY <1>2, <1>4, <1>7, <2>2, <2>3, <2>4 DEF c
<1>10. CASE p.is = "nil"
  <2>1. Joined(ts) = <<>> BY <1>10, JoinedEmpty DEF AnyMembers
  <2>2. open \o <<>> = open BY <1>3, TextLaws
  <2>3. open \o close = <<Token("{"), Token("}")>> BY <1>1, TokenTypes, Pair
  <2> QED BY <1>2, <1>7, <1>10, <2>1, <2>2, <2>3
<1>11. CASE p.is = "empty"
  <2>1. ts = <<type>> \o <<>> BY <1>11 DEF AnyMembers
  <2>2. Text(v, o) = AnyType \o (Continued(Joined(<<>>)) \o close) BY <1>9, <2>1, EmptySeq
  <2>3. Continued(Joined(<<>>)) = <<>> BY JoinedEmpty DEF Continued
  <2>4. <<>> \o close = close BY <1>3, TextLaws
  <2> QED BY <1>7, <1>11, <2>2, <2>3, <2>4
<1>12. CASE p.is = "known"
  <2> DEFINE known == <<Key("value"), Value(p.value.is)>>
             comma == <<Token(",")>>
  <2>1. p.value.is \in Words
    <3>1. p.value.is \in Leaves BY <1>5, <1>12 DEF PayloadOver, MessageOver
    <3> QED BY <3>1, Zenon DEF Words, Fixed
  <2>9. /\ Key("value") \in Tokens /\ Value(p.value.is) \in Tokens
        /\ Token(",") \in Tokens /\ Token("}") \in Tokens
    BY <1>1, <2>1, TokenTypes
  <2>2. known \in Texts /\ known # <<>> BY <2>9, PairText
  <2>3. <<known>> \in Seq(Texts) BY <2>2
  <2>4. ts = <<type>> \o <<known>> BY <1>12 DEF AnyMembers
  <2>5. Text(v, o) = AnyType \o (Continued(Joined(<<known>>)) \o close) BY <1>9, <2>3, <2>4
  <2>6. Joined(<<known>>) = known
    <3>1. Joined(<<known>> \o <<>>) = known \o Continued(Joined(<<>>))
      BY <2>2, EmptySeq, JoinedShift
    <3>2. <<known>> \o <<>> = <<known>> BY <2>3, ConcatEmptySeq
    <3>3. Continued(Joined(<<>>)) = <<>> BY JoinedEmpty DEF Continued
    <3>4. known \o <<>> = known BY <2>2, TextLaws
    <3> QED BY <3>1, <3>2, <3>3, <3>4
  <2>7. Continued(known) = comma \o known BY <2>2 DEF Continued
  <2>8. (comma \o known) \o close = <<Token(","), Key("value"), Value(p.value.is), Token("}")>>
    <3>1. comma \o known = <<Token(","), Key("value"), Value(p.value.is)>> BY <2>9, Triple
    <3>2. <<Token(","), Key("value"), Value(p.value.is)>> \o close
          = <<Token(","), Key("value"), Value(p.value.is), Token("}")>>
      BY <2>9, Quadruple
    <3> QED BY <3>1, <3>2
  <2> QED BY <1>7, <1>12, <2>5, <2>6, <2>7, <2>8
<1>13. CASE p.is = "message"
  <2> DEFINE us == Members(p, o, TextsOf(o))
             f == ObjectFrame(p, FALSE)
  <2>1. p \in Values /\ MessageOver(p, Values) BY <1>13, ValueIs
  <2>2. us \in Seq(Texts) BY <1>6, <2>1, MembersAre
  <2>3. ts = <<type>> \o us BY <1>13 DEF AnyMembers
  <2>4. Text(v, o) = AnyType \o (Continued(Joined(us)) \o close) BY <1>9, <2>2, <2>3
  <2>5. Text(p, o) = open \o (Joined(us) \o close)
    <3>1. /\ FrameOK(f) /\ Close(f) = "}" /\ f.next = 1 /\ ~ Started(f)
          /\ PartTexts(f, o) = us /\ Text(p, o) = open \o Rest(f, o)
      BY <1>13, <2>1, MessageStart
    <3> HIDE DEF f
    <3>2. Rest(f, o) = Joined(us) \o close BY <1>1, <3>1, RestStart
    <3> QED BY <3>1, <3>2
  <2>6. Joined(us) \in Texts BY <1>1, <2>2, EnclosedType
  <2>7. Stripped(Text(p, o)) = Continued(Joined(us)) BY <2>5, <2>6, StrippedIs
  <2>8. Continued(Joined(us)) \in Texts BY <2>6, ContinuedType
  <2> QED BY <1>7, <1>13, <2>4, <2>7, <2>8
<1>14. CASE p.is \notin {"nil", "empty", "known", "message"} BY <1>7, <1>14
<1> QED BY <1>10, <1>11, <1>12, <1>13, <1>14
-----------------------------------------------------------------------------
(* Writing one part *)

\* What a value is written as: a nil leaf as its place wants it.
Form(v, shape, o) == IF v.is = "nil" THEN <<LeafToken(shape, v)>> ELSE Text(v, o)
Embedded(f) == f.kind = "object" /\ f.embedded

\* It is a text that is not empty.
LEMMA FormType ==
  ASSUME NEW v \in Values, NEW shape, NEW o \in OptionSet
  PROVE  Form(v, shape, o) \in Texts /\ Form(v, shape, o) # <<>>
<1>1. "zero" \in Words /\ "null" \in Words BY Zenon DEF Words, Fixed, Leaves
<1>2. CASE v.is = "nil"
  <2>1. LeafToken(shape, v) \in {Value("zero"), Value("null")} BY <1>2 DEF LeafToken
  <2>2. LeafToken(shape, v) \in Tokens BY <1>1, <2>1, TokenTypes
  <2> QED BY <1>2, <2>2, TokenText DEF Form
<1>3. CASE v.is # "nil" BY <1>3, TextOf DEF Form
<1> QED BY <1>2, <1>3

\* Writing v after before takes frame f to parent.
Advances(f, v, shape, before, parent, o) ==
  /\ v \in Values /\ before \in Texts /\ FrameOK(parent)
  /\ Rest(f, o) = before \o (Form(v, shape, o) \o Rest(parent, o))
  /\ RestEncodable(f) <=> Encodable(v) /\ RestEncodable(parent)
  /\ Embedded(parent) <=> Embedded(f)
  /\ parent.kind = f.kind

\* The part that a frame is at, and the ones after it.
LEMMA EncodableSplit ==
  ASSUME NEW f, FrameOK(f), NEW g, f.next <= Count(f), g.next = f.next + 1,
         Count(g) = Count(f), \A i : Part(g, i) = Part(f, i)
  PROVE  RestEncodable(f) <=> Encodable(Part(f, f.next)) /\ RestEncodable(g)
<1> DEFINE n == Count(f)
           k == f.next
           P(i) == Encodable(Part(f, i))
<1>1. n \in Nat /\ k \in 1 .. n
  <2>1. PICK o : o \in OptionSet
    <3>1. [EmitUnpopulated |-> TRUE, UseProtoNames |-> TRUE] \in OptionSet BY DEF OptionSet
    <3> QED BY <3>1
  <2>2. n \in Nat /\ k \in 1 .. n + 1 BY <2>1, FrameIs
  <2> QED BY <2>2
<1>2. RestEncodable(f) <=> \A i \in k .. n : P(i) BY Zenon DEF RestEncodable
<1>3. RestEncodable(g) <=> \A i \in k + 1 .. n : P(i) BY Zenon DEF RestEncodable
<1> HIDE DEF n, k, P
<1>4. ASSUME NEW i \in k .. n, i # k PROVE i \in k + 1 .. n BY <1>1, <1>4
<1>5. k \in k .. n /\ \A i \in k + 1 .. n : i \in k .. n BY <1>1
<1>6. (\A i \in k .. n : P(i)) <=> P(k) /\ \A i \in k + 1 .. n : P(i) BY <1>4, <1>5, Zenon
<1> QED BY <1>2, <1>3, <1>6, Zenon DEF P, k

\* A frame that moves on by one part advances.
LEMMA AdvanceIs ==
  ASSUME NEW f, FrameOK(f), NEW g, FrameOK(g), NEW o \in OptionSet, f.next <= Count(f),
         g.next = f.next + 1, Count(g) = Count(f), \A i : Part(g, i) = Part(f, i),
         PartTexts(g, o) = PartTexts(f, o), Started(g), Close(g) = Close(f),
         Embedded(g) <=> Embedded(f), g.kind = f.kind,
         NEW v, v = Part(f, f.next), NEW shape, NEW head \in Texts,
         PartTexts(f, o)[f.next] = head \o Form(v, shape, o)
  PROVE  Advances(f, v, shape, Comma(Started(f)) \o head, g, o)
<1> DEFINE comma == Comma(Started(f))
           w == Form(v, shape, o)
           t == PartTexts(f, o)[f.next]
           r == Rest(g, o)
<1>1. v \in Values
  <2>1. f.next \in 1 .. Count(f) BY FrameIs
  <2> QED BY <2>1, FrameIs
<1>2. w \in Texts /\ w # <<>> BY <1>1, FormType
<1>3. comma \in Texts BY CommaText
<1>4. r \in Texts BY RestType
<1>5. t # <<>> BY <1>2, TextLaws
<1>6. Rest(f, o) = (comma \o t) \o r BY <1>5, RestStep
<1> HIDE DEF comma, w, r
<1>7. (comma \o (head \o w)) \o r = (comma \o head) \o (w \o r)
  <2>1. comma \o (head \o w) = (comma \o head) \o w BY <1>2, <1>3, TextAssoc
  <2>2. comma \o head \in Texts BY <1>3, TextLaws
  <2>3. \A a \in Texts : (a \o w) \o r = a \o (w \o r) BY <1>2, <1>4, TextAssoc
  <2> QED BY <2>1, <2>2, <2>3
<1>8. comma \o head \in Texts BY <1>3, TextLaws
<1>9. RestEncodable(f) <=> Encodable(v) /\ RestEncodable(g) BY EncodableSplit
<1>10. Rest(f, o) = (comma \o head) \o (w \o r) BY <1>6, <1>7 DEF w
<1> QED BY <1>1, <1>8, <1>9, <1>10 DEF Advances, comma, w, r

\* A field is shown when its member is not empty, and what is left out would
\* not have failed.
LEMMA ShownIs ==
  ASSUME opts \in OptionSet, NEW v \in Values, NEW field, field.shape \in Shapes,
         Holds(field.shape, v)
  PROVE  LET t == Member(field, v, opts, TextsOf(opts))
         IN  /\ Shown(field.shape, v) =>
                  t = <<Key(NameOf(field, opts))>> \o Form(v, field.shape, opts)
             /\ ~ Shown(field.shape, v) => t = <<>> /\ Encodable(v)
<1> DEFINE shape == field.shape
           key == <<Key(NameOf(field, opts))>>
           T == TextsOf(opts)
           t == Member(field, v, opts, T)
           emit == opts.EmitUnpopulated
<1>1. T[v] = Text(v, opts) BY TextIs
<1>2. emit \in BOOLEAN BY DEF OptionSet
<1>3. /\ Populated(shape, v) => t = key \o Text(v, opts)
      /\ ~ Populated(shape, v) /\ emit /\ shape \notin Explicit => t = key \o Unset(shape, v, T)
      /\ ~ Populated(shape, v) /\ ~ (emit /\ shape \notin Explicit) => t = <<>>
  BY <1>1 DEF Member
<1>4. v.is # "nil" => Form(v, shape, opts) = Text(v, opts) BY DEF Form
<1>5. v.is # "nil" /\ shape # "message" => Unset(shape, v, T) = Text(v, opts)
  BY <1>1 DEF Unset
<1>6. v.is \in {"nil", "zero"} => Encodable(v) BY EncodableIs DEF PartsEncodable
<1>7. v.is = "list" => v.items \in Seq(Values) BY ValueIs
<1> HIDE DEF t, T, key, emit
<1>8. CASE shape = "scalar"
  <2>1. v.is \in {"zero", "set", "invalid"} BY <1>8 DEF Holds
  <2>2. Populated(shape, v) <=> v.is # "zero"
    BY <1>8, <2>1 DEF Populated, Implicit, Empty
  <2>3. Shown(shape, v) <=> v.is # "zero" \/ emit BY <1>8 DEF Shown, ScalarShown, emit
  <2>4. shape \notin Explicit BY <1>8 DEF Explicit
  <2> HIDE DEF shape
  <2> QED BY <1>2, <1>3, <1>4, <1>5, <1>6, <1>8, <2>1, <2>2, <2>3, <2>4 DEF t, T, key, shape
<1>9. CASE shape \in {"optional", "oneof"}
  <2>1. Populated(shape, v) <=> v.is # "nil" BY <1>9 DEF Populated, Implicit
  <2>2. Shown(shape, v) <=> v.is # "nil" BY <1>9 DEF Shown, OptionalShown, OneofShown
  <2>3. shape \in Explicit BY <1>9 DEF Explicit
  <2> HIDE DEF shape
  <2> QED BY <1>3, <1>4, <1>6, <2>1, <2>2, <2>3 DEF t, T, key, shape
<1>10. CASE shape = "bytes"
  <2>1. v.is \in {"nil", "zero", "set"} BY <1>10 DEF Holds
  <2>2. Populated(shape, v) <=> v.is = "set"
    BY <1>10, <2>1 DEF Populated, Implicit, Empty
  <2>3. Shown(shape, v) <=> v.is = "set" \/ emit BY <1>10 DEF Shown, BytesShown, emit
  <2>4. shape \notin Explicit BY <1>10 DEF Explicit
  <2>5. v.is = "nil" => Unset(shape, v, T) = Form(v, shape, opts)
    BY <1>10 DEF Unset, Form, LeafToken
  <2> HIDE DEF shape
  <2> QED BY <1>2, <1>3, <1>4, <1>5, <1>6, <1>10, <2>1, <2>2, <2>3, <2>4, <2>5
          DEF t, T, key, shape
<1>11. CASE shape = "list"
  <2>1. v.is = "list" BY <1>11 DEF Holds
  <2>2. Len(v.items) > 0 <=> v.items # <<>> BY <1>7, <2>1, EmptySeq, LenProperties
  <2>3. Populated(shape, v) <=> v.items # <<>>
    BY <1>11, <2>1 DEF Populated, Implicit, Empty
  <2>4. Shown(shape, v) <=> v.items # <<>> \/ emit BY <1>11, <2>2 DEF Shown, ListShown, emit
  <2>5. shape \notin Explicit BY <1>11 DEF Explicit
  <2>6. v.items = <<>> => Encodable(v)
    <3>1. DOMAIN <<>> = {} OBVIOUS
    <3> QED BY <2>1, <3>1, EncodableIs DEF PartsEncodable
  <2> HIDE DEF shape
  <2> QED BY <1>2, <1>3, <1>4, <1>5, <1>11, <2>1, <2>3, <2>4, <2>5, <2>6
          DEF t, T, key, shape
<1>12. CASE shape = "map"
  <2>1. v.is = "map" BY <1>12 DEF Holds
  <2>2. Populated(shape, v) <=> Present(v.entries) # {}
    BY <1>12, <2>1 DEF Populated, Implicit, Empty
  <2>3. Shown(shape, v) <=> Present(v.entries) # {} \/ emit
    BY <1>12 DEF Shown, MapShown, emit
  <2>4. shape \notin Explicit BY <1>12 DEF Explicit
  <2>5. Present(v.entries) = {} => Encodable(v) BY <2>1, EncodableIs DEF PartsEncodable
  <2> HIDE DEF shape
  <2> QED BY <1>2, <1>3, <1>4, <1>5, <1>12, <2>1, <2>2, <2>3, <2>4, <2>5
          DEF t, T, key, shape
<1>13. CASE shape = "message"
  <2>1. Populated(shape, v) <=> v.is # "nil" BY <1>13 DEF Populated, Implicit
  <2>2. Shown(shape, v) <=> v.is # "nil" \/ emit BY <1>13 DEF Shown, MessageShown, emit
  <2>3. shape \notin Explicit BY <1>13 DEF Explicit
  <2>4. v.is = "nil" => Unset(shape, v, T) = Form(v, shape, opts)
    BY <1>13 DEF Unset, Form, LeafToken
  <2> HIDE DEF shape
  <2> QED BY <1>2, <1>3, <1>4, <1>6, <1>13, <2>1, <2>2, <2>3, <2>4 DEF t, T, key, shape
<1> QED BY <1>8, <1>9, <1>10, <1>11, <1>12, <1>13 DEF Shapes, Implicit, Explicit

\* The texts of members and entries by number.
LEMMA MemberTexts ==
  ASSUME NEW m, MessageOver(m, Values), NEW o \in OptionSet
  PROVE  LET M == Members(m, o, TextsOf(o))
             n == Len(m.fields)
             c == Cardinality(Present(m.exts))
             numbers == Sorted(Present(m.exts))
         IN  /\ n \in Nat /\ c \in Nat
             /\ \A k \in 1 .. n : M[k] = Member(Types[m.type][k], m.fields[k], o, TextsOf(o))
             /\ \A k \in 1 .. c : /\ numbers[k] \in Present(m.exts) /\ m.exts[numbers[k]] \in Values
                                  /\ M[n + k] = <<<<"ext", numbers[k]>>>> \o Text(m.exts[numbers[k]], o)
<1> DEFINE T == TextsOf(o)
           M == Members(m, o, T)
           n == Len(m.fields)
           c == Cardinality(Present(m.exts))
           numbers == Sorted(Present(m.exts))
<1>1. T \in Writings /\ \A v \in Values : T[v] = Text(v, o) BY TextIs
<1> HIDE DEF T
<1>2. n \in Nat /\ c \in Nat BY <1>1, MembersAre
<1>6. M \in Seq(Texts) /\ Len(M) = n + c BY <1>1, MembersAre
<1>3. \A k \in 1 .. n : M[k] = Member(Types[m.type][k], m.fields[k], o, T)
  <2>1. T \in Writings /\ Values \in SUBSET Values BY <1>1
  <2> QED BY <2>1, MembersAre, Zenon
<1>4. \A k \in 1 .. c : numbers[k] \in Present(m.exts) /\ m.exts[numbers[k]] \in Values
  BY <1>1, MembersAre
<1>5. \A k \in 1 .. c : M[n + k] = <<<<"ext", numbers[k]>>>> \o T[m.exts[numbers[k]]]
  <2> SUFFICES ASSUME NEW k \in 1 .. c
               PROVE  M[n + k] = <<<<"ext", numbers[k]>>>> \o T[m.exts[numbers[k]]]
    OBVIOUS
  <2>1. T \in Writings /\ Values \in SUBSET Values BY <1>1
  <2> QED BY <1>2, <1>6, <2>1, MembersAre
<1> QED BY <1>1, <1>2, <1>3, <1>4, <1>5 DEF T

\* The entries.
LEMMA EntryTexts ==
  ASSUME NEW f, f.entries \in [Numbers -> Values], NEW o \in OptionSet
  PROVE  LET E == Entries(f, TextsOf(o))
             c == Cardinality(Present(f.entries))
             keys == Sorted(Present(f.entries))
         IN  \A k \in 1 .. c : /\ keys[k] \in Present(f.entries) /\ f.entries[keys[k]] \in Values
                              /\ <<"entry", keys[k]>> \in Tokens
                              /\ E[k] = <<<<"entry", keys[k]>>>> \o Text(f.entries[keys[k]], o)
<1> DEFINE T == TextsOf(o)
           E == Entries(f, T)
           c == Cardinality(Present(f.entries))
           keys == Sorted(Present(f.entries))
<1>1. T \in Writings /\ \A v \in Values : T[v] = Text(v, o) BY TextIs
<1> HIDE DEF T
<1>2. \A k \in 1 .. c : /\ keys[k] \in Present(f.entries) /\ f.entries[keys[k]] \in Values
                       /\ <<"entry", keys[k]>> \in Tokens
  BY <1>1, EntriesAre
<1>3. \A k \in 1 .. c : E[k] = <<<<"entry", keys[k]>>>> \o T[f.entries[keys[k]]]
  BY DEF Entries
<1> HIDE DEF E, keys
<1> QED BY <1>1, <1>2, <1>3 DEF T, E, keys

\* The member a frame of a message is at.
LEMMA MemberAt ==
  ASSUME opts \in OptionSet, NEW f, FrameOK(f), f.kind = "object",
         f.next <= MemberCount(f.message)
  PROVE  LET m == f.message
             i == f.next
             v == MemberValue(m, i)
             t == PartTexts(f, opts)[i]
             shown == IsField(m, i) => Shown(FieldAt(m, i).shape, v)
             shape == IF IsField(m, i) THEN FieldAt(m, i).shape ELSE "message"
         IN  /\ v \in Values
             /\ shown => /\ <<MemberKey(m, i)>> \in Texts
                         /\ t = <<MemberKey(m, i)>> \o Form(v, shape, opts)
             /\ ~ shown => t = <<>> /\ Encodable(v)
<1> DEFINE m == f.message
           i == f.next
           v == MemberValue(m, i)
           T == TextsOf(opts)
           M == Members(m, opts, T)
           t == PartTexts(f, opts)[i]
           shown == IsField(m, i) => Shown(FieldAt(m, i).shape, v)
           shape == IF IsField(m, i) THEN FieldAt(m, i).shape ELSE "message"
           n == Len(m.fields)
           c == Cardinality(Present(m.exts))
           numbers == Sorted(Present(m.exts))
           key == MemberKey(m, i)
<1>1. MessageOver(m, Values) /\ f.next \in 1 .. Count(f) + 1 /\ Count(f) = MemberCount(m)
  BY DEF FrameOK, ObjectOK, ListOK, MapOK, Count
<1>3. /\ n \in Nat /\ c \in Nat
      /\ \A k \in 1 .. n : M[k] = Member(Types[m.type][k], m.fields[k], opts, T)
      /\ \A k \in 1 .. c : /\ numbers[k] \in Present(m.exts) /\ m.exts[numbers[k]] \in Values
                           /\ M[n + k] = <<<<"ext", numbers[k]>>>> \o Text(m.exts[numbers[k]], opts)
  <2>1. opts \in OptionSet OBVIOUS
  <2> HIDE DEF m, i, t, v
  <2> QED BY <1>1, <2>1, MemberTexts, Zenon DEF T
<1>4. t = M[i] BY DEF PartTexts
<1>5. i \in 1 .. n + c
  <2>1. MemberCount(m) = n + c BY DEF MemberCount, FieldCount
  <2> QED BY <1>1, <1>3, <2>1
<1>6. v \in Values
  <2>1. i \in 1 .. MemberCount(m) BY <1>5 DEF MemberCount, FieldCount
  <2> QED BY <1>1, <2>1, MemberAre
<1>7. CASE i <= n
  <2> DEFINE field == Types[m.type][i]
  <2>1. i \in 1 .. n BY <1>3, <1>5, <1>7
  <2>2. IsField(m, i) /\ v = m.fields[i] /\ FieldAt(m, i) = field /\ shape = field.shape
    BY <1>7 DEF IsField, MemberValue, FieldAt, FieldCount
  <2>3. field.shape \in Shapes /\ NameOf(field, opts) \in Words /\ Holds(field.shape, v)
    BY <1>1, <2>1, <2>2, FieldIs
  <2>4. t = Member(field, v, opts, T) BY <1>3, <1>4, <2>1, <2>2
  <2>5. key = Key(NameOf(field, opts)) BY <2>2 DEF MemberKey, FieldName
  <2>6. <<key>> \in Texts BY <2>3, <2>5, TokenTypes, TokenText
  <2>7. shown <=> Shown(field.shape, v) BY <2>2
  <2>8. /\ Shown(field.shape, v) => t = <<key>> \o Form(v, shape, opts)
        /\ ~ Shown(field.shape, v) => t = <<>> /\ Encodable(v)
    <3> HIDE DEF field, v, shape, key, t
    <3> QED BY <1>6, <2>2, <2>3, <2>4, <2>5, ShownIs DEF T
  <2> HIDE DEF field, v, shape, key, t, shown
  <2> QED BY <1>6, <2>6, <2>7, <2>8 DEF v, shape, key, t, shown
<1>8. CASE ~ (i <= n)
  <2> DEFINE k == i - n
  <2>1. k \in 1 .. c /\ n + k = i BY <1>3, <1>5, <1>8
  <2>2. ~ IsField(m, i) /\ v = m.exts[numbers[k]] /\ key = <<"ext", numbers[k]>>
        /\ shape = "message"
    BY <1>8 DEF IsField, MemberValue, ExtAt, ExtNumbers, FieldCount, MemberKey
  <2> HIDE DEF k, v, key, t, M, n, c, numbers, shape
  <2>3. t = <<key>> \o Text(v, opts) BY <1>3, <1>4, <2>1, <2>2
  <2>5. v.is # "nil" BY <1>3, <2>1, <2>2 DEF Present
  <2>6. numbers[k] \in Nat BY <1>3, <2>1, NumbersAssumption DEF Present
  <2>7. <<key>> \in Texts BY <2>2, <2>6, TokenTypes, TokenText
  <2>8. Form(v, shape, opts) = Text(v, opts) BY <2>5 DEF Form
  <2>9. shown BY <2>2
  <2> QED BY <1>6, <2>3, <2>7, <2>8, <2>9 DEF v, shape, key, t, shown
<1> QED BY <1>7, <1>8

\* The three ways to move on: a member that is shown or left out,
LEMMA MemberAdvances ==
  ASSUME opts \in OptionSet, NEW f, FrameOK(f), f.kind = "object",
         f.next <= MemberCount(f.message)
  PROVE  LET m == f.message
             i == f.next
             v == MemberValue(m, i)
             shown == IsField(m, i) => Shown(FieldAt(m, i).shape, v)
             shape == IF IsField(m, i) THEN FieldAt(m, i).shape ELSE "message"
             g == [f EXCEPT !.next = @ + 1]
         IN  /\ shown => Advances(f, v, shape, Comma(f.wrote) \o <<MemberKey(m, i)>>,
                                  [f EXCEPT !.next = @ + 1, !.wrote = TRUE], opts)
             /\ ~ shown => /\ FrameOK(g) /\ Rest(g, opts) = Rest(f, opts)
                           /\ RestEncodable(f) <=> RestEncodable(g)
                           /\ Embedded(g) <=> Embedded(f)
                           /\ g.kind = f.kind
<1> DEFINE m == f.message
           i == f.next
           v == MemberValue(m, i)
           t == PartTexts(f, opts)[i]
           shown == IsField(m, i) => Shown(FieldAt(m, i).shape, v)
           shape == IF IsField(m, i) THEN FieldAt(m, i).shape ELSE "message"
           key == <<MemberKey(m, i)>>
           g == [f EXCEPT !.next = @ + 1]
           h == [f EXCEPT !.next = @ + 1, !.wrote = TRUE]
<1>1. /\ f \in [kind : {"object"}, message : Values, next : Nat, wrote : BOOLEAN,
                embedded : BOOLEAN]
      /\ MessageOver(m, Values) /\ Count(f) = MemberCount(m)
  BY DEF FrameOK, ObjectOK, ListOK, MapOK, Count
<1>2. Count(f) \in Nat /\ i \in 1 .. Count(f)
  <2>1. Count(f) \in Nat /\ f.next \in 1 .. Count(f) + 1 BY FrameIs
  <2> QED BY <1>1, <2>1
<1>3. ASSUME NEW b \in BOOLEAN, NEW e, e = [f EXCEPT !.next = @ + 1, !.wrote = b]
      PROVE  /\ FrameOK(e) /\ e.next = f.next + 1 /\ Count(e) = Count(f)
             /\ \A j : Part(e, j) = Part(f, j)
             /\ PartTexts(e, opts) = PartTexts(f, opts)
             /\ Started(e) = b /\ Close(e) = Close(f) /\ (Embedded(e) <=> Embedded(f))
             /\ e.kind = f.kind
  <2>1. /\ e \in [kind : {"object"}, message : Values, next : Nat, wrote : BOOLEAN,
                  embedded : BOOLEAN]
        /\ e.kind = "object" /\ e.message = m /\ e.next = i + 1 /\ e.wrote = b
        /\ e.embedded = f.embedded
    <3>1. f \in [kind : {"object"}, message : Values, next : Nat, wrote : BOOLEAN,
                 embedded : BOOLEAN]
      BY <1>1
    <3>2. e = [kind |-> "object", message |-> f.message, next |-> f.next + 1, wrote |-> b,
               embedded |-> f.embedded]
      BY <1>3, <3>1
    <3>3. f.message \in Values /\ f.next + 1 \in Nat /\ f.embedded \in BOOLEAN BY <3>1
    <3> QED BY <3>2, <3>3
  <2>2. Count(e) = Count(f) BY <2>1 DEF Count
  <2>3. e.next \in 1 .. Count(e) + 1 BY <1>2, <2>1, <2>2
  <2>4. FrameOK(e) BY <1>1, <2>1, <2>3 DEF FrameOK, ObjectOK
  <2>5. \A j : Part(e, j) = Part(f, j) BY <2>1 DEF Part
  <2>6. PartTexts(e, opts) = PartTexts(f, opts) BY <2>1 DEF PartTexts
  <2>7. Started(e) = b /\ Close(e) = Close(f) BY <2>1 DEF Started, Close
  <2>8. Embedded(e) <=> Embedded(f) BY <2>1 DEF Embedded
  <2> QED BY <2>1, <2>2, <2>4, <2>5, <2>6, <2>7, <2>8
<1>4. Started(f) = f.wrote /\ v = Part(f, i) BY DEF Started, Part
<1>5. /\ v \in Values
      /\ shown => key \in Texts /\ t = key \o Form(v, shape, opts)
      /\ ~ shown => t = <<>> /\ Encodable(v)
  BY MemberAt
<1>6. i <= Count(f) BY <1>1
<1>7. ASSUME shown PROVE Advances(f, v, shape, Comma(f.wrote) \o key, h, opts)
  <2>1. /\ FrameOK(h) /\ h.next = f.next + 1 /\ Count(h) = Count(f)
        /\ \A j : Part(h, j) = Part(f, j)
        /\ PartTexts(h, opts) = PartTexts(f, opts)
        /\ Started(h) /\ Close(h) = Close(f) /\ (Embedded(h) <=> Embedded(f))
        /\ h.kind = f.kind
    BY <1>3
  <2> HIDE DEF h, v, shape, key, t, shown
  <2>2. key \in Texts /\ PartTexts(f, opts)[f.next] = key \o Form(v, shape, opts)
    BY <1>5, <1>7 DEF t
  <2>3. Advances(f, v, shape, Comma(Started(f)) \o key, h, opts)
    BY <1>4, <1>6, <2>1, <2>2, AdvanceIs
  <2> QED BY <1>4, <2>3
<1>8. ASSUME ~ shown
      PROVE  /\ FrameOK(g) /\ Rest(g, opts) = Rest(f, opts)
             /\ RestEncodable(f) <=> RestEncodable(g)
             /\ Embedded(g) <=> Embedded(f)
             /\ g.kind = f.kind
  <2>1. g = [f EXCEPT !.next = @ + 1, !.wrote = f.wrote] /\ f.wrote \in BOOLEAN BY <1>1
  <2> HIDE DEF g
  <2>2. /\ FrameOK(g) /\ g.next = f.next + 1 /\ Count(g) = Count(f)
        /\ \A j : Part(g, j) = Part(f, j)
        /\ PartTexts(g, opts) = PartTexts(f, opts)
        /\ Started(g) = f.wrote /\ Close(g) = Close(f) /\ (Embedded(g) <=> Embedded(f))
        /\ g.kind = f.kind
    BY <1>3, <2>1
  <2> HIDE DEF v, t, shown
  <2>3. t = <<>> /\ Encodable(v) BY <1>5, <1>8
  <2>4. Rest(f, opts) = Rest(g, opts) BY <1>4, <1>6, <2>2, <2>3, RestSkip DEF t
  <2>5. RestEncodable(f) <=> Encodable(v) /\ RestEncodable(g)
    BY <1>4, <1>6, <2>2, EncodableSplit
  <2> QED BY <2>2, <2>3, <2>4, <2>5
<1> QED BY <1>7, <1>8

\* an item of a list,
LEMMA ItemAdvances ==
  ASSUME opts \in OptionSet, NEW f, FrameOK(f), f.kind = "list", f.next <= Len(f.items)
  PROVE  Advances(f, f.items[f.next], "message", Comma(f.next > 1), [f EXCEPT !.next = @ + 1],
                  opts)
<1> DEFINE i == f.next
           v == f.items[i]
           T == TextsOf(opts)
           t == PartTexts(f, opts)[i]
           g == [f EXCEPT !.next = @ + 1]
<1>1. f \in [kind : {"list"}, items : Seq(Values), next : Nat] /\ Count(f) = Len(f.items)
  BY DEF FrameOK, ObjectOK, ListOK, MapOK, Count
<1>2. Count(f) \in Nat /\ i \in 1 .. Count(f)
  <2>1. Count(f) \in Nat /\ f.next \in 1 .. Count(f) + 1 BY FrameIs
  <2> QED BY <1>1, <2>1
<1>3. /\ g \in [kind : {"list"}, items : Seq(Values), next : Nat]
      /\ g.kind = "list" /\ g.items = f.items /\ g.next = i + 1
  BY <1>1
<1> HIDE DEF g
<1>4. Count(g) = Count(f) BY <1>3 DEF Count
<1>5. g.next \in 1 .. Count(g) + 1 BY <1>2, <1>3, <1>4
<1>6. FrameOK(g) BY <1>3, <1>5 DEF FrameOK, ListOK
<1>7. PartTexts(g, opts) = PartTexts(f, opts) BY <1>3 DEF PartTexts, Items
<1>8. (\A j : Part(g, j) = Part(f, j)) /\ Close(g) = Close(f) BY <1>3 DEF Part, Close
<1>9. Started(g) BY <1>2, <1>3 DEF Started
<1>10. (Embedded(g) <=> Embedded(f)) /\ g.kind = f.kind BY <1>3 DEF Embedded
<1>11. Started(f) = (f.next > 1) /\ v = Part(f, i) BY DEF Started, Part
<1>12. v \in Values /\ t = IF v.is = "nil" THEN <<Value("null")>> ELSE T[v]
  <2>1. T \in Writings /\ f.items \in Seq(Values) BY <1>1, TextIs
  <2>2. t = Items(f, T)[i] BY DEF PartTexts
  <2>3. i \in 1 .. Len(f.items) BY <1>1, <1>2
  <2> HIDE DEF T, t, i
  <2> QED BY <2>1, <2>2, <2>3, ItemsAre
<1>13. t = Form(v, "message", opts)
  <2>1. T[v] = Text(v, opts) BY <1>12, TextIs
  <2>2. v.is = "nil" => LeafToken("message", v) = Value("null") BY DEF LeafToken
  <2> HIDE DEF t, v, T
  <2> QED BY <1>12, <2>1, <2>2 DEF Form
<1>14. /\ Comma(Started(f)) \o <<>> = Comma(Started(f)) /\ <<>> \in Texts
       /\ <<>> \o Form(v, "message", opts) = Form(v, "message", opts)
  <2>1. Form(v, "message", opts) \in Texts BY <1>12, FormType
  <2> QED BY <2>1, CommaText, TextLaws
<1>15. i <= Count(f) BY <1>1
<1> HIDE DEF v, t
<1>16. PartTexts(f, opts)[f.next] = <<>> \o Form(v, "message", opts) BY <1>13, <1>14 DEF t
<1>17. Advances(f, v, "message", Comma(Started(f)) \o <<>>, g, opts)
  BY <1>3, <1>4, <1>6, <1>7, <1>8, <1>9, <1>10, <1>11, <1>14, <1>15, <1>16, AdvanceIs
<1> QED BY <1>11, <1>14, <1>17 DEF v, g

\* an entry of a map.
LEMMA EntryAdvances ==
  ASSUME opts \in OptionSet, NEW f, FrameOK(f), f.kind = "map", f.next <= Len(f.keys)
  PROVE  LET k == f.keys[f.next]
         IN  Advances(f, f.entries[k], "message", Comma(f.next > 1) \o <<<<"entry", k>>>>,
                      [f EXCEPT !.next = @ + 1], opts)
<1> DEFINE i == f.next
           k == f.keys[i]
           v == f.entries[k]
           T == TextsOf(opts)
           t == PartTexts(f, opts)[i]
           key == <<<<"entry", k>>>>
           g == [f EXCEPT !.next = @ + 1]
<1>1. /\ f \in [kind : {"map"}, entries : [Numbers -> Values], keys : Seq(Numbers), next : Nat]
      /\ f.keys = SortedKeys(f.entries) /\ Count(f) = Len(f.keys)
  BY DEF FrameOK, ObjectOK, ListOK, MapOK, Count
<1>2. Count(f) \in Nat /\ i \in 1 .. Count(f)
  <2>1. Count(f) \in Nat /\ f.next \in 1 .. Count(f) + 1 BY FrameIs
  <2> QED BY <1>1, <2>1
<1>3. /\ g \in [kind : {"map"}, entries : [Numbers -> Values], keys : Seq(Numbers), next : Nat]
      /\ g.kind = "map" /\ g.entries = f.entries /\ g.keys = f.keys /\ g.next = i + 1
  BY <1>1
<1> HIDE DEF g
<1>4. Count(g) = Count(f) BY <1>3 DEF Count
<1>5. g.next \in 1 .. Count(g) + 1 BY <1>2, <1>3, <1>4
<1>6. FrameOK(g) BY <1>1, <1>3, <1>5 DEF FrameOK, MapOK
<1>7. PartTexts(g, opts) = PartTexts(f, opts) BY <1>3 DEF PartTexts, Entries
<1>8. (\A j : Part(g, j) = Part(f, j)) /\ Close(g) = Close(f) BY <1>3 DEF Part, Close
<1>9. Started(g) BY <1>2, <1>3 DEF Started
<1>10. (Embedded(g) <=> Embedded(f)) /\ g.kind = f.kind BY <1>3 DEF Embedded
<1>11. Started(f) = (f.next > 1) /\ v = Part(f, i) BY DEF Started, Part
<1>12. /\ v \in Values /\ k \in Present(f.entries) /\ key \in Texts
       /\ t = key \o Text(v, opts)
  <2> DEFINE c == Cardinality(Present(f.entries))
             keys == Sorted(Present(f.entries))
  <2>1. opts \in OptionSet /\ f.entries \in [Numbers -> Values] BY <1>1
  <2>2. t = Entries(f, T)[i] BY DEF PartTexts
  <2>3. f.keys = keys /\ Len(f.keys) = c BY <1>1, KeysAre DEF SortedKeys
  <2>4. i \in 1 .. c BY <1>1, <1>2, <2>3
  <2>5. \A j \in 1 .. c : /\ keys[j] \in Present(f.entries) /\ f.entries[keys[j]] \in Values
                          /\ <<"entry", keys[j]>> \in Tokens
                          /\ Entries(f, T)[j] = <<<<"entry", keys[j]>>>> \o Text(f.entries[keys[j]], opts)
    BY <2>1, EntryTexts, Zenon
  <2> HIDE DEF t, c, keys, T
  <2>6. /\ k \in Present(f.entries) /\ v \in Values /\ <<"entry", k>> \in Tokens
        /\ t = <<<<"entry", k>>>> \o Text(v, opts)
    BY <2>2, <2>3, <2>4, <2>5
  <2> QED BY <2>6, TokenText
<1>13. t = key \o Form(v, "message", opts)
  <2>1. v.is # "nil" BY <1>12 DEF Present
  <2> HIDE DEF t, v, key
  <2> QED BY <1>12, <2>1 DEF Form
<1>14. i <= Count(f) BY <1>1
<1>15. key \in Texts BY <1>12
<1> HIDE DEF v, t, key
<1>16. PartTexts(f, opts)[f.next] = key \o Form(v, "message", opts) BY <1>13 DEF t
<1>17. Advances(f, v, "message", Comma(Started(f)) \o key, g, opts)
  BY <1>3, <1>4, <1>6, <1>7, <1>8, <1>9, <1>10, <1>11, <1>14, <1>15, <1>16, AdvanceIs
<1> QED BY <1>11, <1>17 DEF v, g, key
-----------------------------------------------------------------------------
(* The buffers and the stack *)

Frames ==
  {f \in [kind : {"object"}, message : Values, next : Nat, wrote : BOOLEAN, embedded : BOOLEAN]
         \cup [kind : {"list"}, items : Seq(Values), next : Nat]
         \cup [kind : {"map"}, entries : [Numbers -> Values], keys : Seq(Numbers), next : Nat] :
     FrameOK(f)}

\* Frames are those that are right.
LEMMA FramesAre == \A f : f \in Frames <=> FrameOK(f)
BY DEF Frames, FrameOK, ObjectOK, ListOK, MapOK

\* What a frame leaves behind, out being what the frame above it makes of its
\* buffer: that buffer, or the one below with the members of an Any in it.
Into(f, below, out) ==
  IF Embedded(f) THEN below \o (Stripped(out) \o <<Token("}")>>) ELSE out

\* With the buffers bs and the frames fs the encode ends with the text t: out
\* has for each frame what its buffer comes to, at the buffer it writes to.
OutIs(bs, fs, o, out, at) ==
  LET n == Len(fs)
  IN  /\ out \in [1 .. n -> Texts] /\ at \in [1 .. n -> Nat]
      /\ at[1] = 1 /\ at[n] = Len(bs) /\ ~ Embedded(fs[1])
      /\ \A k \in 1 .. n, j \in 1 .. n : j <= k => at[j] <= at[k]
      /\ \A k \in 1 .. n - 1 : at[k + 1] = at[k] + IF Embedded(fs[k + 1]) THEN 1 ELSE 0
      /\ out[n] = bs[Len(bs)] \o Rest(fs[n], o)
      /\ \A k \in 1 .. n - 1 :
           out[k] = Into(fs[k + 1], bs[at[k]], out[k + 1]) \o Rest(fs[k], o)
Writes(bs, fs, o, t) ==
  \E out, at : OutIs(bs, fs, o, out, at) /\ out[1] = t

\* The top frame and its buffer go on.
LEMMA WritesOn ==
  ASSUME NEW o, NEW t, NEW bs, NEW cs, NEW fs, NEW gs,
         NEW n \in Nat, n # 0, Len(fs) = n, Len(gs) = n,
         NEW l \in Nat, l # 0, Len(bs) = l, Len(cs) = l,
         \A k \in 1 .. n : k # n => gs[k] = fs[k],
         \A j \in 1 .. l : j # l => cs[j] = bs[j],
         Embedded(gs[n]) <=> Embedded(fs[n]),
         cs[l] \o Rest(gs[n], o) = bs[l] \o Rest(fs[n], o),
         Writes(bs, fs, o, t)
  PROVE  Writes(cs, gs, o, t)
<1>1. PICK out, at : OutIs(bs, fs, o, out, at) /\ out[1] = t BY DEF Writes
<1>2. /\ out \in [1 .. n -> Texts] /\ at \in [1 .. n -> Nat]
      /\ at[1] = 1 /\ at[n] = l /\ ~ Embedded(fs[1])
      /\ \A k \in 1 .. n, j \in 1 .. n : j <= k => at[j] <= at[k]
      /\ \A k \in 1 .. n - 1 : at[k + 1] = at[k] + IF Embedded(fs[k + 1]) THEN 1 ELSE 0
      /\ out[n] = bs[l] \o Rest(fs[n], o)
      /\ \A k \in 1 .. n - 1 :
           out[k] = Into(fs[k + 1], bs[at[k]], out[k + 1]) \o Rest(fs[k], o)
  BY <1>1, Zenon DEF OutIs
<1>3. \A k \in 1 .. n : Embedded(gs[k]) <=> Embedded(fs[k]) OBVIOUS
<1>4. 1 \in 1 .. n OBVIOUS
<1>5. ASSUME NEW k \in 1 .. n - 1
      PROVE  out[k] = Into(gs[k + 1], cs[at[k]], out[k + 1]) \o Rest(gs[k], o)
  <2>1. k \in 1 .. n /\ k + 1 \in 1 .. n /\ k # n /\ k <= k + 1 /\ k + 1 <= n /\ n \in 1 .. n
    OBVIOUS
  <2>2. gs[k] = fs[k] BY <2>1
  <2>3. Embedded(fs[k + 1]) => cs[at[k]] = bs[at[k]]
    <3> SUFFICES ASSUME Embedded(fs[k + 1]) PROVE cs[at[k]] = bs[at[k]] OBVIOUS
    <3>1. at[k + 1] = at[k] + 1 /\ at[k + 1] <= at[n] /\ at[1] <= at[k]
      BY <1>2, <1>4, <2>1
    <3>2. at[k] \in Nat BY <1>2, <2>1
    <3>3. at[k] \in 1 .. l /\ at[k] # l BY <1>2, <3>1, <3>2
    <3> QED BY <3>3
  <2>4. Into(gs[k + 1], cs[at[k]], out[k + 1]) = Into(fs[k + 1], bs[at[k]], out[k + 1])
    BY <1>3, <2>1, <2>3 DEF Into
  <2> QED BY <1>2, <2>2, <2>4
<1>6. \A k \in 1 .. n - 1 : at[k + 1] = at[k] + IF Embedded(gs[k + 1]) THEN 1 ELSE 0
  <2>1. \A k \in 1 .. n - 1 : k + 1 \in 1 .. n OBVIOUS
  <2> QED BY <1>2, <1>3, <2>1
<1>7. ~ Embedded(gs[1]) BY <1>2, <1>3, <1>4
<1>8. out[n] = cs[l] \o Rest(gs[n], o) BY <1>2
<1>9. OutIs(cs, gs, o, out, at) BY <1>2, <1>5, <1>6, <1>7, <1>8, Zenon DEF OutIs
<1> QED BY <1>1, <1>9, Zenon DEF Writes

\* A frame is pushed, with a buffer of its own for the message of an Any.
Pushes(bs, cs, fs, gs, o, n, l, e, x) ==
  /\ n \in Nat /\ n # 0 /\ Len(fs) = n /\ Len(gs) = n + 1
  /\ l \in Nat /\ l # 0 /\ Len(bs) = l /\ Len(cs) = l + e
  /\ e = IF Embedded(gs[n + 1]) THEN 1 ELSE 0
  /\ \A k \in 1 .. n : k # n => gs[k] = fs[k]
  /\ \A j \in 1 .. l : j # l => cs[j] = bs[j]
  /\ Embedded(gs[n]) <=> Embedded(fs[n])
  /\ x \in Texts /\ x = cs[l + e] \o Rest(gs[n + 1], o)
  /\ Into(gs[n + 1], cs[l], x) \o Rest(gs[n], o) = bs[l] \o Rest(fs[n], o)

\* The text stays the same.
LEMMA WritesInto ==
  ASSUME NEW o, NEW t, NEW bs, NEW cs, NEW fs, NEW gs, NEW n, NEW l, NEW e, NEW x,
         Pushes(bs, cs, fs, gs, o, n, l, e, x), Writes(bs, fs, o, t)
  PROVE  Writes(cs, gs, o, t)
<1>0. /\ n \in Nat /\ n # 0 /\ Len(fs) = n /\ Len(gs) = n + 1
      /\ l \in Nat /\ l # 0 /\ Len(bs) = l /\ Len(cs) = l + e
      /\ e = IF Embedded(gs[n + 1]) THEN 1 ELSE 0
      /\ \A k \in 1 .. n : k # n => gs[k] = fs[k]
      /\ \A j \in 1 .. l : j # l => cs[j] = bs[j]
      /\ Embedded(gs[n]) <=> Embedded(fs[n])
      /\ x \in Texts /\ x = cs[l + e] \o Rest(gs[n + 1], o)
      /\ Into(gs[n + 1], cs[l], x) \o Rest(gs[n], o) = bs[l] \o Rest(fs[n], o)
  BY Zenon DEF Pushes
<1> USE <1>0
<1>1. PICK out, at : OutIs(bs, fs, o, out, at) /\ out[1] = t BY DEF Writes
<1>2. /\ out \in [1 .. n -> Texts] /\ at \in [1 .. n -> Nat]
      /\ at[1] = 1 /\ at[n] = l /\ ~ Embedded(fs[1])
      /\ \A k \in 1 .. n, j \in 1 .. n : j <= k => at[j] <= at[k]
      /\ \A k \in 1 .. n - 1 : at[k + 1] = at[k] + IF Embedded(fs[k + 1]) THEN 1 ELSE 0
      /\ out[n] = bs[l] \o Rest(fs[n], o)
      /\ \A k \in 1 .. n - 1 :
           out[k] = Into(fs[k + 1], bs[at[k]], out[k + 1]) \o Rest(fs[k], o)
  BY <1>1, Zenon DEF OutIs
<1> DEFINE outs == [k \in 1 .. n + 1 |-> IF k = n + 1 THEN x ELSE out[k]]
           ats == [k \in 1 .. n + 1 |-> IF k = n + 1 THEN l + e ELSE at[k]]
<1>3. \A k \in 1 .. n : Embedded(gs[k]) <=> Embedded(fs[k]) OBVIOUS
<1>4. 1 \in 1 .. n /\ n \in 1 .. n /\ \A k \in 1 .. n : k \in 1 .. n + 1 /\ k # n + 1 OBVIOUS
<1>5. x \in Texts /\ e \in {0, 1} /\ Len(cs) = l + e OBVIOUS
<1>6. /\ n + 1 \in 1 .. n + 1 /\ outs[n + 1] = x /\ ats[n + 1] = l + e
      /\ \A k \in 1 .. n : outs[k] = out[k] /\ ats[k] = at[k]
  <2>1. n + 1 \in 1 .. n + 1 OBVIOUS
  <2> QED BY <1>4, <2>1
<1>7. outs \in [1 .. n + 1 -> Texts] /\ ats \in [1 .. n + 1 -> Nat]
  <2>1. \A k \in 1 .. n + 1 : k # n + 1 => k \in 1 .. n OBVIOUS
  <2>2. l + e \in Nat BY <1>5
  <2> QED BY <1>2, <1>5, <2>1, <2>2
<1> HIDE DEF outs, ats
<1>8. ASSUME NEW k \in 1 .. n + 1, NEW j \in 1 .. n + 1, j <= k PROVE ats[j] <= ats[k]
  <2>1. CASE k \in 1 .. n
    <3>1. j \in 1 .. n BY <1>8, <2>1
    <3> QED BY <1>2, <1>6, <1>8, <2>1, <3>1
  <2>2. CASE k = n + 1 /\ j \in 1 .. n
    <3>1. at[j] <= at[n] /\ at[j] \in Nat BY <1>2, <1>4, <2>2
    <3> QED BY <1>2, <1>5, <1>6, <2>2, <3>1
  <2>3. CASE k = n + 1 /\ j = n + 1 BY <1>5, <1>6, <2>3
  <2> QED BY <2>1, <2>2, <2>3
<1>9. ASSUME NEW k \in 1 .. n
      PROVE  /\ ats[k + 1] = ats[k] + IF Embedded(gs[k + 1]) THEN 1 ELSE 0
             /\ outs[k] = Into(gs[k + 1], cs[ats[k]], outs[k + 1]) \o Rest(gs[k], o)
  <2>1. CASE k = n
    <3>1. outs[n] = bs[l] \o Rest(fs[n], o) BY <1>2, <1>4, <1>6
    <3>2. ats[n] = l BY <1>2, <1>4, <1>6
    <3> QED BY <1>6, <2>1, <3>1, <3>2
  <2>2. CASE k # n
    <3>1. k \in 1 .. n - 1 /\ k + 1 \in 1 .. n /\ k <= k + 1 /\ k + 1 <= n BY <2>2
    <3>2. gs[k] = fs[k] /\ ats[k] = at[k] /\ ats[k + 1] = at[k + 1] /\ outs[k] = out[k]
          /\ outs[k + 1] = out[k + 1]
      BY <1>6, <2>2, <3>1
    <3>3. Embedded(fs[k + 1]) => cs[at[k]] = bs[at[k]]
      <4> SUFFICES ASSUME Embedded(fs[k + 1]) PROVE cs[at[k]] = bs[at[k]] OBVIOUS
      <4>1. at[k + 1] = at[k] + 1 /\ at[k + 1] <= at[n] /\ at[1] <= at[k]
        BY <1>2, <1>4, <3>1
      <4>2. at[k] \in Nat BY <1>2
      <4>3. at[k] \in 1 .. l /\ at[k] # l BY <1>2, <4>1, <4>2
      <4> QED BY <4>3
    <3>4. Into(gs[k + 1], cs[at[k]], out[k + 1]) = Into(fs[k + 1], bs[at[k]], out[k + 1])
      BY <1>3, <3>1, <3>3 DEF Into
    <3>5. Embedded(gs[k + 1]) <=> Embedded(fs[k + 1]) BY <1>3, <3>1
    <3> QED BY <1>2, <3>1, <3>2, <3>4, <3>5
  <2> QED BY <2>1, <2>2
<1>10. ats[1] = 1 /\ ats[n + 1] = Len(cs) /\ ~ Embedded(gs[1]) /\ outs[1] = t
  BY <1>1, <1>2, <1>3, <1>4, <1>5, <1>6
<1>11. outs[n + 1] = cs[Len(cs)] \o Rest(gs[n + 1], o) BY <1>5, <1>6
<1>12. n + 1 - 1 = n OBVIOUS
<1>13. OutIs(cs, gs, o, outs, ats)
  <2> DEFINE N == n + 1
  <2>1. 1 .. N - 1 = 1 .. n BY <1>12
  <2>2. /\ \A k \in 1 .. N - 1 : ats[k + 1] = ats[k] + IF Embedded(gs[k + 1]) THEN 1 ELSE 0
        /\ \A k \in 1 .. N - 1 : outs[k] = Into(gs[k + 1], cs[ats[k]], outs[k + 1]) \o Rest(gs[k], o)
    BY <1>9, <2>1
  <2>3. \A k \in 1 .. N, j \in 1 .. N : j <= k => ats[j] <= ats[k] BY <1>8
  <2>4. /\ Len(gs) = N /\ ats[N] = Len(cs) /\ outs[N] = cs[Len(cs)] \o Rest(gs[N], o)
        /\ outs \in [1 .. N -> Texts] /\ ats \in [1 .. N -> Nat]
    BY <1>7, <1>10, <1>11
  <2> HIDE DEF N
  <2> HIDE <1>0
  <2> QED BY <1>10, <2>2, <2>3, <2>4, Zenon DEF OutIs
<1> QED BY <1>10, <1>13, Zenon DEF Writes

\* The top frame is popped.
Pops(bs, cs, fs, gs, o, n, l) ==
  /\ n \in Nat /\ n # 0 /\ Len(fs) = n + 1 /\ Len(gs) = n
  /\ l \in Nat /\ l # 0 /\ Len(cs) = l
  /\ Len(bs) = l + IF Embedded(fs[n + 1]) THEN 1 ELSE 0
  /\ \A k \in 1 .. n : gs[k] = fs[k]
  /\ \A j \in 1 .. l : j # l => cs[j] = bs[j]
  /\ cs[l] = Into(fs[n + 1], bs[l], bs[Len(bs)] \o Rest(fs[n + 1], o))

\* The text stays the same.
LEMMA WritesBack ==
  ASSUME NEW o, NEW t, NEW bs, NEW cs, NEW fs, NEW gs, NEW n, NEW l,
         Pops(bs, cs, fs, gs, o, n, l), Writes(bs, fs, o, t)
  PROVE  Writes(cs, gs, o, t)
<1> DEFINE e == IF Embedded(fs[n + 1]) THEN 1 ELSE 0
<1>11. /\ n \in Nat /\ n # 0 /\ Len(fs) = n + 1 /\ Len(gs) = n
       /\ l \in Nat /\ l # 0 /\ Len(cs) = l
       /\ Len(bs) = l + e
       /\ \A k \in 1 .. n : gs[k] = fs[k]
       /\ \A j \in 1 .. l : j # l => cs[j] = bs[j]
       /\ cs[l] = Into(fs[n + 1], bs[l], bs[Len(bs)] \o Rest(fs[n + 1], o))
  BY Zenon DEF Pops
<1> USE <1>11
<1>1. PICK out, at : OutIs(bs, fs, o, out, at) /\ out[1] = t BY DEF Writes
<1>0. n + 1 - 1 = n OBVIOUS
<1>2. /\ out \in [1 .. n + 1 -> Texts] /\ at \in [1 .. n + 1 -> Nat]
      /\ at[1] = 1 /\ at[n + 1] = Len(bs) /\ ~ Embedded(fs[1])
      /\ \A k \in 1 .. n + 1, j \in 1 .. n + 1 : j <= k => at[j] <= at[k]
      /\ \A k \in 1 .. n : at[k + 1] = at[k] + IF Embedded(fs[k + 1]) THEN 1 ELSE 0
      /\ out[n + 1] = bs[Len(bs)] \o Rest(fs[n + 1], o)
      /\ \A k \in 1 .. n :
           out[k] = Into(fs[k + 1], bs[at[k]], out[k + 1]) \o Rest(fs[k], o)
  <2> DEFINE N == n + 1
  <2>1. /\ out \in [1 .. N -> Texts] /\ at \in [1 .. N -> Nat]
        /\ at[1] = 1 /\ at[N] = Len(bs) /\ ~ Embedded(fs[1])
        /\ \A k \in 1 .. N, j \in 1 .. N : j <= k => at[j] <= at[k]
        /\ \A k \in 1 .. N - 1 : at[k + 1] = at[k] + IF Embedded(fs[k + 1]) THEN 1 ELSE 0
        /\ out[N] = bs[Len(bs)] \o Rest(fs[N], o)
        /\ \A k \in 1 .. N - 1 :
             out[k] = Into(fs[k + 1], bs[at[k]], out[k + 1]) \o Rest(fs[k], o)
    <3> HIDE DEF N
    <3>1. Len(fs) = N BY DEF N
    <3> QED BY <1>1, <3>1, Zenon DEF OutIs
  <2>2. 1 .. N - 1 = 1 .. n BY <1>0
  <2> QED BY <2>1, <2>2
<1> DEFINE outs == [k \in 1 .. n |-> out[k]]
           ats == [k \in 1 .. n |-> at[k]]
<1>3. 1 \in 1 .. n /\ n \in 1 .. n /\ \A k \in 1 .. n : k \in 1 .. n + 1 OBVIOUS
<1>4. /\ \A k \in 1 .. n : outs[k] = out[k] /\ ats[k] = at[k]
      /\ outs \in [1 .. n -> Texts] /\ ats \in [1 .. n -> Nat]
  BY <1>2, <1>3
<1> HIDE DEF outs, ats
<1>5. at[n] = l
  <2>1. at[n + 1] = at[n] + e /\ Len(bs) = l + e /\ e \in {0, 1} BY <1>2, <1>3
  <2>2. at[n] \in Nat BY <1>2, <1>3
  <2> HIDE DEF e
  <2> QED BY <1>2, <2>1, <2>2
<1>6. outs[n] = cs[l] \o Rest(gs[n], o) BY <1>2, <1>3, <1>4, <1>5
<1>7. ASSUME NEW k \in 1 .. n, NEW j \in 1 .. n, j <= k PROVE ats[j] <= ats[k]
  BY <1>2, <1>3, <1>4, <1>7
<1>8. ASSUME NEW k \in 1 .. n - 1
      PROVE  /\ ats[k + 1] = ats[k] + IF Embedded(gs[k + 1]) THEN 1 ELSE 0
             /\ outs[k] = Into(gs[k + 1], cs[ats[k]], outs[k + 1]) \o Rest(gs[k], o)
  <2>1. k \in 1 .. n /\ k + 1 \in 1 .. n /\ k + 1 <= n OBVIOUS
  <2>2. gs[k] = fs[k] /\ gs[k + 1] = fs[k + 1] /\ ats[k] = at[k] /\ ats[k + 1] = at[k + 1]
        /\ outs[k] = out[k] /\ outs[k + 1] = out[k + 1]
    BY <1>4, <2>1
  <2>3. Embedded(fs[k + 1]) => cs[at[k]] = bs[at[k]]
    <3> SUFFICES ASSUME Embedded(fs[k + 1]) PROVE cs[at[k]] = bs[at[k]] OBVIOUS
    <3>1. at[k + 1] = at[k] + 1 BY <1>2, <2>1
    <3>4. at[k + 1] <= at[n] /\ at[1] <= at[k] BY <1>2, <1>3, <2>1
    <3>2. at[k] \in Nat BY <1>2, <1>3, <2>1
    <3>3. at[k] \in 1 .. l /\ at[k] # l BY <1>2, <1>5, <3>1, <3>2, <3>4
    <3> QED BY <3>3
  <2>4. Into(fs[k + 1], cs[at[k]], out[k + 1]) = Into(fs[k + 1], bs[at[k]], out[k + 1])
    BY <2>3 DEF Into
  <2> QED BY <1>2, <2>1, <2>2, <2>4
<1>9. ats[1] = 1 /\ ats[n] = Len(cs) /\ ~ Embedded(gs[1]) /\ outs[1] = t
  BY <1>1, <1>2, <1>3, <1>4, <1>5
<1>10. OutIs(cs, gs, o, outs, ats) BY <1>4, <1>6, <1>7, <1>8, <1>9 DEF OutIs
<1> QED BY <1>9, <1>10, Zenon DEF Writes

\* The message of an Any has a buffer below its own.
LEMMA WritesBelow ==
  ASSUME NEW o, NEW t, NEW bs, NEW fs, NEW n \in Nat, n # 0, Len(fs) = n + 1,
         Embedded(fs[n + 1]), Writes(bs, fs, o, t)
  PROVE  Len(bs) # 1
<1>1. PICK out, at : OutIs(bs, fs, o, out, at) /\ out[1] = t BY DEF Writes
<1>2. /\ at \in [1 .. n + 1 -> Nat] /\ at[1] = 1 /\ at[n + 1] = Len(bs)
      /\ \A k \in 1 .. n + 1, j \in 1 .. n + 1 : j <= k => at[j] <= at[k]
      /\ \A k \in 1 .. (n + 1) - 1 : at[k + 1] = at[k] + IF Embedded(fs[k + 1]) THEN 1 ELSE 0
  BY <1>1, Zenon DEF OutIs
<1>3. n \in 1 .. (n + 1) - 1 /\ 1 \in 1 .. n + 1 /\ n \in 1 .. n + 1 /\ 1 <= n OBVIOUS
<1>4. at[n + 1] = at[n] + 1 BY <1>2, <1>3
<1>5. at[1] <= at[n] /\ at[n] \in Nat BY <1>2, <1>3
<1> QED BY <1>2, <1>4, <1>5

\* Sequences as stacks.
LEMMA StackIs ==
  ASSUME NEW S, NEW s \in Seq(S), s # <<>>, NEW p \in S
  PROVE  LET n == Len(s)
             g == Append(Front(s), p)
         IN  /\ n \in Nat /\ n # 0 /\ Last(s) = s[n] /\ s[n] \in S
             /\ Front(s) \in Seq(S) /\ Len(Front(s)) = n - 1
             /\ \A k \in 1 .. n - 1 : Front(s)[k] = s[k]
             /\ g \in Seq(S) /\ Len(g) = n /\ g[n] = p
             /\ \A k \in 1 .. n : k # n => g[k] = s[k]
<1> DEFINE n == Len(s)
           h == Front(s)
           g == Append(h, p)
<1>1. n \in Nat /\ n # 0 BY EmptySeq, LenProperties
<1>2. Last(s) = s[n] BY DEF Last
<1>3. h = SubSeq(s, 1, n - 1) BY DEF Front
<1>4. \A k \in 1 .. n : s[k] \in S BY ElementOfSeq
<1> HIDE DEF h, n
<1>5. n \in 1 .. n /\ n - 1 \in Nat BY <1>1
<1>6. h = [k \in 1 .. n - 1 |-> s[k]] BY <1>1, <1>3 DEF n
<1>7. \A k \in 1 .. n - 1 : k \in 1 .. n BY <1>1
<1>8. h \in Seq(S) /\ Len(h) = n - 1 BY <1>4, <1>5, <1>6, <1>7
<1>9. \A k \in 1 .. n - 1 : h[k] = s[k] BY <1>6
<1>10. g \in Seq(S) /\ Len(g) = n /\ g[n] = p /\ \A k \in 1 .. n - 1 : g[k] = h[k]
  <2>1. /\ g \in Seq(S) /\ Len(g) = Len(h) + 1 /\ g[Len(h) + 1] = p
        /\ \A k \in 1 .. Len(h) : g[k] = h[k]
    BY <1>8, AppendProperties
  <2>2. Len(h) + 1 = n BY <1>1, <1>8
  <2> HIDE DEF g
  <2> QED BY <1>8, <2>1, <2>2
<1>11. \A k \in 1 .. n : k # n => k \in 1 .. n - 1 BY <1>1
<1> QED BY <1>1, <1>2, <1>4, <1>5, <1>8, <1>9, <1>10, <1>11 DEF h, n

\* An element that is pushed.
LEMMA PushIs ==
  ASSUME NEW S, NEW s \in Seq(S), NEW p \in S
  PROVE  LET n == Len(s)
         IN  /\ n \in Nat /\ s \o <<p>> = Append(s, p)
             /\ Append(s, p) \in Seq(S) /\ Len(Append(s, p)) = n + 1
             /\ Append(s, p)[n + 1] = p /\ \A k \in 1 .. n : Append(s, p)[k] = s[k]
<1>1. Len(s) \in Nat BY LenProperties
<1>2. s \o <<p>> = Append(s, p) BY AppendIsConcat
<1>3. /\ Append(s, p) \in Seq(S) /\ Len(Append(s, p)) = Len(s) + 1
      /\ Append(s, p)[Len(s) + 1] = p /\ \A k \in 1 .. Len(s) : Append(s, p)[k] = s[k]
  BY AppendProperties
<1> QED BY <1>1, <1>2, <1>3

\* A buffer that gets x.
Onto(bs, x) == [bs EXCEPT ![Len(bs)] = @ \o x]
LEMMA OntoIs ==
  ASSUME NEW bs \in Seq(Texts), bs # <<>>, NEW x \in Texts
  PROVE  LET l == Len(bs)
             cs == Onto(bs, x)
         IN  /\ l \in Nat /\ l # 0 /\ l \in 1 .. l /\ bs[l] \in Texts
             /\ cs \in Seq(Texts) /\ Len(cs) = l /\ cs # <<>> /\ cs[l] = bs[l] \o x
             /\ \A j \in 1 .. l : j # l => cs[j] = bs[j]
<1> DEFINE l == Len(bs)
           cs == Onto(bs, x)
<1>1. l \in Nat /\ l # 0 BY EmptySeq, LenProperties
<1>2. \A j \in 1 .. l : bs[j] \in Texts BY ElementOfSeq
<1>3. DOMAIN bs = 1 .. l BY LenProperties
<1>4. cs = [j \in 1 .. l |-> IF j = l THEN bs[l] \o x ELSE bs[j]] BY <1>3 DEF Onto
<1> HIDE DEF l, cs
<1>5. l \in 1 .. l BY <1>1
<1>6. bs[l] \o x \in Texts BY <1>2, <1>5, TextLaws
<1>7. cs \in [1 .. l -> Texts] BY <1>2, <1>4, <1>6
<1>8. cs \in Seq(Texts) /\ Len(cs) = l BY <1>1, <1>7
<1>9. cs # <<>> BY <1>1, <1>8, EmptySeq
<1> QED BY <1>1, <1>2, <1>4, <1>5, <1>8, <1>9 DEF l, cs

AllEncodable(fs) == \A k \in 1 .. Len(fs) : RestEncodable(fs[k])

\* An encode of r under way.
Going(bs, fs, o, r) ==
  /\ bs \in Seq(Texts) /\ bs # <<>> /\ fs \in Seq(Frames) /\ fs # <<>>
  /\ fs[1].kind = "object"
  /\ Writes(bs, fs, o, Text(r, o))
  /\ Encodable(r) <=> AllEncodable(fs)

\* The top frame of an encode under way.
LEMMA TopIs ==
  ASSUME NEW bs, NEW fs, NEW o, NEW r, Going(bs, fs, o, r)
  PROVE  /\ bs \in Seq(Texts) /\ bs # <<>> /\ fs \in Seq(Frames) /\ fs # <<>>
         /\ Len(fs) \in Nat /\ Len(fs) # 0 /\ Last(fs) = fs[Len(fs)]
         /\ Last(fs) \in Frames /\ FrameOK(Last(fs))
<1>1. bs \in Seq(Texts) /\ bs # <<>> /\ fs \in Seq(Frames) /\ fs # <<>> BY DEF Going
<1>2. Len(fs) \in Nat /\ Len(fs) # 0 BY <1>1, EmptySeq, LenProperties
<1>3. Last(fs) = fs[Len(fs)] BY DEF Last
<1>4. Len(fs) \in 1 .. Len(fs) BY <1>2
<1>5. fs[Len(fs)] \in Frames BY <1>1, <1>4, ElementOfSeq
<1> QED BY <1>1, <1>2, <1>3, <1>5, FramesAre

\* The top frame goes on to p, having written x.
LEMMA GoingOn ==
  ASSUME NEW bs, NEW fs, NEW o \in OptionSet, NEW r, Going(bs, fs, o, r),
         NEW p, FrameOK(p), NEW x \in Texts,
         Rest(Last(fs), o) = x \o Rest(p, o),
         RestEncodable(Last(fs)) <=> RestEncodable(p),
         Embedded(p) <=> Embedded(Last(fs)), p.kind = Last(fs).kind
  PROVE  Going(Onto(bs, x), Append(Front(fs), p), o, r)
<1> DEFINE n == Len(fs)
           l == Len(bs)
           gs == Append(Front(fs), p)
           cs == Onto(bs, x)
           t == Text(r, o)
<1>1. /\ bs \in Seq(Texts) /\ bs # <<>> /\ fs \in Seq(Frames) /\ fs # <<>>
      /\ fs[1].kind = "object"
      /\ Writes(bs, fs, o, t) /\ (Encodable(r) <=> AllEncodable(fs))
  BY DEF Going
<1>2. p \in Frames BY FramesAre
<1>3. /\ n \in Nat /\ n # 0 /\ Last(fs) = fs[n]
      /\ gs \in Seq(Frames) /\ Len(gs) = n /\ gs[n] = p
      /\ \A k \in 1 .. n : k # n => gs[k] = fs[k]
  BY <1>1, <1>2, StackIs
<1>4. /\ l \in Nat /\ l # 0 /\ bs[l] \in Texts
      /\ cs \in Seq(Texts) /\ Len(cs) = l /\ cs # <<>> /\ cs[l] = bs[l] \o x
      /\ \A j \in 1 .. l : j # l => cs[j] = bs[j]
  BY <1>1, OntoIs
<1> HIDE DEF gs, cs, n, l, t
<1>5. cs[l] \o Rest(gs[n], o) = bs[l] \o Rest(fs[n], o)
  <2>1. Rest(p, o) \in Texts BY RestType
  <2>2. bs[l] \o (x \o Rest(p, o)) = (bs[l] \o x) \o Rest(p, o) BY <1>4, <2>1, TextAssoc
  <2> QED BY <1>3, <1>4, <2>2
<1>6. Len(fs) = n /\ Len(bs) = l BY DEF n, l
<1>7. Embedded(gs[n]) <=> Embedded(fs[n]) BY <1>3
<1>8. Writes(cs, gs, o, t) BY <1>1, <1>3, <1>4, <1>5, <1>6, <1>7, WritesOn
<1>9. AllEncodable(gs) <=> AllEncodable(fs)
  <2>1. \A k \in 1 .. n : RestEncodable(gs[k]) <=> RestEncodable(fs[k]) BY <1>3
  <2> QED BY <1>3, <1>6, <2>1 DEF AllEncodable
<1>10. gs # <<>> BY <1>3, EmptySeq
<1>11. gs[1].kind = "object"
  <2>1. 1 \in 1 .. n BY <1>3
  <2> QED BY <1>1, <1>3, <2>1
<1> QED BY <1>1, <1>3, <1>4, <1>8, <1>9, <1>10, <1>11, Zenon DEF Going, gs, cs, t

\* It goes on to p with a frame g on top of it, in a buffer of its own for the
\* message of an Any.
LEMMA GoingInto ==
  ASSUME NEW bs, NEW fs, NEW o \in OptionSet, NEW r, Going(bs, fs, o, r),
         NEW p, FrameOK(p), NEW g, FrameOK(g), NEW x \in Texts,
         RestEncodable(Last(fs)) <=> RestEncodable(g) /\ RestEncodable(p),
         Embedded(p) <=> Embedded(Last(fs)), p.kind = Last(fs).kind
  PROVE  /\ ~ Embedded(g) /\ Rest(Last(fs), o) = x \o (Rest(g, o) \o Rest(p, o)) =>
              Going(Onto(bs, x), Append(Front(fs), p) \o <<g>>, o, r)
         /\ /\ Embedded(g)
            /\ LET inner == Stripped(<<Token("{")>> \o Rest(g, o)) \o <<Token("}")>>
               IN  /\ inner \in Texts
                   /\ Rest(Last(fs), o) = x \o (inner \o Rest(p, o))
            => Going(Append(Onto(bs, x), <<Token("{")>>), Append(Append(Front(fs), p), g), o, r)
<1> DEFINE n == Len(fs)
           l == Len(bs)
           hs == Append(Front(fs), p)
           gs == Append(hs, g)
           ds == Onto(bs, x)
           open == <<Token("{")>>
           es == Append(ds, open)
           t == Text(r, o)
<1>1. /\ bs \in Seq(Texts) /\ bs # <<>> /\ fs \in Seq(Frames) /\ fs # <<>>
      /\ fs[1].kind = "object"
      /\ Writes(bs, fs, o, t) /\ (Encodable(r) <=> AllEncodable(fs))
  BY DEF Going
<1>2. p \in Frames /\ g \in Frames BY FramesAre
<1>3. /\ n \in Nat /\ n # 0 /\ Last(fs) = fs[n]
      /\ hs \in Seq(Frames) /\ Len(hs) = n /\ hs[n] = p
      /\ \A k \in 1 .. n : k # n => hs[k] = fs[k]
  BY <1>1, <1>2, StackIs
<1>4. /\ l \in Nat /\ l # 0 /\ l \in 1 .. l /\ bs[l] \in Texts
      /\ ds \in Seq(Texts) /\ Len(ds) = l /\ ds # <<>> /\ ds[l] = bs[l] \o x
      /\ \A j \in 1 .. l : j # l => ds[j] = bs[j]
  BY <1>1, OntoIs
<1>5. open \in Texts
  <2>1. "{" \in Words BY Zenon DEF Words, Fixed
  <2> QED BY <2>1, TokenTypes, TokenText
<1>6. Rest(p, o) \in Texts /\ Rest(g, o) \in Texts BY RestType
<1>7. Len(fs) = n /\ Len(bs) = l OBVIOUS
<1> HIDE DEF hs, ds, n, l, t, open
<1>8. /\ hs \o <<g>> = gs /\ gs \in Seq(Frames) /\ Len(gs) = n + 1
      /\ gs[n + 1] = g /\ \A k \in 1 .. n : gs[k] = hs[k]
  BY <1>2, <1>3, PushIs
<1>9. /\ es \in Seq(Texts) /\ Len(es) = l + 1
      /\ es[l + 1] = open /\ \A j \in 1 .. l : es[j] = ds[j]
  BY <1>4, <1>5, PushIs
<1> HIDE DEF gs, es
<1>10. \A k \in 1 .. n : k # n => gs[k] = fs[k] BY <1>3, <1>8
<1>11. gs[n] = p BY <1>3, <1>8
<1>12. Embedded(gs[n]) <=> Embedded(fs[n]) BY <1>3, <1>11
<1>13. AllEncodable(gs) <=> AllEncodable(fs)
  <2>1. \A k \in 1 .. n : k \in 1 .. n + 1 BY <1>3
  <2>2. \A k \in 1 .. n + 1 : k = n + 1 \/ k \in 1 .. n BY <1>3
  <2>3. n + 1 \in 1 .. n + 1 /\ n \in 1 .. n BY <1>3
  <2>4. RestEncodable(fs[n]) <=> RestEncodable(gs[n + 1]) /\ RestEncodable(gs[n])
    BY <1>3, <1>8, <1>11
  <2>5. \A k \in 1 .. n : k # n => gs[k] = fs[k] BY <1>10
  <2>6. AllEncodable(gs) <=> \A k \in 1 .. n + 1 : RestEncodable(gs[k]) BY <1>8 DEF AllEncodable
  <2>7. AllEncodable(fs) <=> \A k \in 1 .. n : RestEncodable(fs[k]) BY <1>7 DEF AllEncodable
  <2> QED BY <2>1, <2>2, <2>3, <2>4, <2>5, <2>6, <2>7, Zenon
<1>14. gs # <<>> /\ es # <<>>
  <2>1. n + 1 # 0 /\ l + 1 # 0 BY <1>3, <1>4
  <2> QED BY <1>8, <1>9, <2>1, EmptySeq
<1>17. gs[1].kind = "object"
  <2>1. 1 \in 1 .. n BY <1>3
  <2> QED BY <1>1, <1>3, <1>10, <1>11, <2>1
<1>15. ASSUME ~ Embedded(g), Rest(Last(fs), o) = x \o (Rest(g, o) \o Rest(p, o))
       PROVE  Going(ds, gs, o, r)
  <2> DEFINE y == ds[l] \o Rest(gs[n + 1], o)
  <2>1. y \in Texts
    <3>1. ds[l] \in Texts BY <1>4, TextLaws
    <3> QED BY <1>4, <1>6, <1>8, <3>1, TextLaws
  <2>2. Into(gs[n + 1], ds[l], y) \o Rest(gs[n], o)
        = bs[l] \o Rest(fs[n], o)
    <3>1. ((bs[l] \o x) \o Rest(g, o)) \o Rest(p, o) = bs[l] \o (x \o (Rest(g, o) \o Rest(p, o)))
      <4>1. bs[l] \o x \in Texts BY <1>4, TextLaws
      <4>2. ((bs[l] \o x) \o Rest(g, o)) \o Rest(p, o) = (bs[l] \o x) \o (Rest(g, o) \o Rest(p, o))
        BY <1>6, <4>1, TextAssoc
      <4>3. Rest(g, o) \o Rest(p, o) \in Texts BY <1>6, TextLaws
      <4>4. bs[l] \o (x \o (Rest(g, o) \o Rest(p, o))) = (bs[l] \o x) \o (Rest(g, o) \o Rest(p, o))
        BY <1>4, <4>3, TextAssoc
      <4> QED BY <4>2, <4>4
    <3>2. Into(gs[n + 1], ds[l], y) = (bs[l] \o x) \o Rest(g, o)
      BY <1>4, <1>8, <1>15 DEF Into
    <3> QED BY <1>3, <1>11, <1>15, <3>1, <3>2
  <2>5. l + 0 = l BY <1>4
  <2>6. y = ds[l + 0] \o Rest(gs[n + 1], o) BY <2>5
  <2>3. 0 = (IF Embedded(gs[n + 1]) THEN 1 ELSE 0) /\ Len(ds) = l + 0 BY <1>4, <1>8, <1>15, <2>5
  <2> HIDE DEF y
  <2>4. Writes(ds, gs, o, t)
    <3>1. /\ n \in Nat /\ n # 0 /\ Len(fs) = n /\ Len(gs) = n + 1 /\ l \in Nat /\ l # 0 /\ Len(bs) = l
          /\ (\A j \in 1 .. l : j # l => ds[j] = bs[j])
      BY <1>3, <1>4, <1>7, <1>8
    <3>2. Pushes(bs, ds, fs, gs, o, n, l, 0, y)
      BY <3>1, <1>10, <1>12, <2>1, <2>2, <2>3, <2>6, Zenon DEF Pushes
    <3> QED BY <1>1, <3>2, WritesInto
  <2> QED BY <1>1, <1>4, <1>8, <1>13, <1>14, <1>17, <2>4, Zenon DEF Going, t
<1>16. ASSUME Embedded(g),
              Stripped(open \o Rest(g, o)) \o <<Token("}")>> \in Texts,
              Rest(Last(fs), o) = x \o ((Stripped(open \o Rest(g, o)) \o <<Token("}")>>) \o Rest(p, o))
       PROVE  Going(es, gs, o, r)
  <2> DEFINE inner == Stripped(open \o Rest(g, o)) \o <<Token("}")>>
  <2>1. es[l + 1] = open BY <1>9
  <2> DEFINE y == es[l + 1] \o Rest(gs[n + 1], o)
  <2>2. y \in Texts BY <1>5, <1>6, <1>8, <2>1, TextLaws
  <2>3. es[l] = bs[l] \o x BY <1>4, <1>9
  <2>4. Into(gs[n + 1], es[l], y) \o Rest(gs[n], o)
        = bs[l] \o Rest(fs[n], o)
    <3>1. Into(gs[n + 1], es[l], y) = (bs[l] \o x) \o inner
      BY <1>8, <1>16, <2>1, <2>3 DEF Into
    <3>0. inner \in Texts BY <1>16
    <3> HIDE DEF inner
    <3>2. ((bs[l] \o x) \o inner) \o Rest(p, o) = bs[l] \o (x \o (inner \o Rest(p, o)))
      <4>1. bs[l] \o x \in Texts BY <1>4, TextLaws
      <4>2. ((bs[l] \o x) \o inner) \o Rest(p, o) = (bs[l] \o x) \o (inner \o Rest(p, o))
        BY <1>6, <3>0, <4>1, TextAssoc
      <4>3. inner \o Rest(p, o) \in Texts BY <1>6, <3>0, TextLaws
      <4>4. bs[l] \o (x \o (inner \o Rest(p, o))) = (bs[l] \o x) \o (inner \o Rest(p, o))
        BY <1>4, <4>3, TextAssoc
      <4> QED BY <4>2, <4>4
    <3>3. Rest(fs[n], o) = x \o (inner \o Rest(p, o)) BY <1>3, <1>16 DEF inner
    <3> QED BY <1>11, <3>1, <3>2, <3>3
  <2>5. 1 = (IF Embedded(gs[n + 1]) THEN 1 ELSE 0) /\ Len(es) = l + 1 BY <1>8, <1>9, <1>16
  <2>8. y = es[l + 1] \o Rest(gs[n + 1], o) OBVIOUS
  <2> HIDE DEF y, inner
  <2>6. \A j \in 1 .. l : j # l => es[j] = bs[j] BY <1>4, <1>9
  <2>7. Writes(es, gs, o, t)
    <3>1. /\ n \in Nat /\ n # 0 /\ Len(fs) = n /\ Len(gs) = n + 1 /\ l \in Nat /\ l # 0 /\ Len(bs) = l
      BY <1>3, <1>4, <1>7, <1>8
    <3>2. Pushes(bs, es, fs, gs, o, n, l, 1, y)
      BY <3>1, <1>10, <1>12, <2>2, <2>4, <2>5, <2>6, <2>8, Zenon DEF Pushes
    <3> QED BY <1>1, <3>2, WritesInto
  <2> QED BY <1>1, <1>8, <1>9, <1>13, <1>14, <1>17, <2>7, Zenon DEF Going, t
<1> QED BY <1>8, <1>15, <1>16 DEF hs, ds, gs, es, open

\* The top frame is at its end.
LEMMA GoingBack ==
  ASSUME NEW bs, NEW fs, NEW o \in OptionSet, NEW r, Going(bs, fs, o, r),
         Last(fs).next > Count(Last(fs)), Len(fs) # 1
  PROVE  LET close == <<Token(Close(Last(fs)))>>
         IN  /\ ~ Embedded(Last(fs)) => Going(Onto(bs, close), Front(fs), o, r)
             /\ Embedded(Last(fs)) =>
                  LET outer == Front(bs)
                  IN  Going([outer EXCEPT ![Len(outer)] =
                               @ \o Stripped(Append(Last(bs), Token("}"))) \o <<Token("}")>>],
                            Front(fs), o, r)
<1> DEFINE n == Len(fs) - 1
           f == Last(fs)
           gs == Front(fs)
           close == <<Token(Close(f))>>
           t == Text(r, o)
<1>1. /\ bs \in Seq(Texts) /\ bs # <<>> /\ fs \in Seq(Frames) /\ fs # <<>>
      /\ fs[1].kind = "object"
      /\ Writes(bs, fs, o, t) /\ (Encodable(r) <=> AllEncodable(fs))
  BY DEF Going
<1>2. /\ FrameOK(f) /\ f \in Frames BY TopIs
<1>3. /\ n \in Nat /\ n # 0 /\ n + 1 = Len(fs) /\ f = fs[n + 1]
      /\ gs \in Seq(Frames) /\ Len(gs) = n /\ \A k \in 1 .. n : gs[k] = fs[k]
  <2>1. /\ Len(fs) \in Nat /\ Len(fs) # 0 /\ Last(fs) = fs[Len(fs)]
        /\ gs \in Seq(Frames) /\ Len(gs) = Len(fs) - 1
        /\ \A k \in 1 .. Len(fs) - 1 : gs[k] = fs[k]
    BY <1>1, <1>2, StackIs
  <2>2. n \in Nat /\ n # 0 /\ n + 1 = Len(fs) BY <2>1
  <2> QED BY <2>1, <2>2
<1>4. Rest(f, o) = close BY <1>2, RestEnd
<1>5. close \in Texts BY CloseText
<1>6. gs # <<>> BY <1>3, EmptySeq
<1>7. AllEncodable(gs) <=> AllEncodable(fs)
  <2>1. RestEncodable(f)
    <3>1. Count(f) \in Nat /\ f.next \in Nat BY <1>2, FrameIs
    <3>2. \A i \in f.next .. Count(f) : FALSE BY <3>1
    <3> QED BY <3>2 DEF RestEncodable
  <2>2. \A k \in 1 .. n : k \in 1 .. n + 1 BY <1>3
  <2>3. \A k \in 1 .. n + 1 : k = n + 1 \/ k \in 1 .. n
    <3> HIDE DEF n
    <3> QED BY <1>3
  <2>4. AllEncodable(gs) <=> \A k \in 1 .. n : RestEncodable(gs[k]) BY <1>3 DEF AllEncodable
  <2>5. AllEncodable(fs) <=> \A k \in 1 .. n + 1 : RestEncodable(fs[k])
    BY <1>3 DEF AllEncodable
  <2>6. \A k \in 1 .. n : gs[k] = fs[k] BY <1>3
  <2>7. RestEncodable(fs[n + 1]) BY <1>3, <2>1
  <2> HIDE DEF n, gs
  <2> QED BY <2>2, <2>3, <2>4, <2>5, <2>6, <2>7, Zenon
<1>10. gs[1].kind = "object"
  <2>1. 1 \in 1 .. n BY <1>3
  <2> QED BY <1>1, <1>3, <2>1
<1> HIDE DEF n, f, gs, close, t
<1>8. ASSUME ~ Embedded(f) PROVE Going(Onto(bs, close), gs, o, r)
  <2> DEFINE l == Len(bs)
             cs == Onto(bs, close)
  <2>1. /\ l \in Nat /\ l # 0 /\ cs \in Seq(Texts) /\ Len(cs) = l /\ cs # <<>>
        /\ cs[l] = bs[l] \o close /\ \A j \in 1 .. l : j # l => cs[j] = bs[j]
    BY <1>1, <1>5, OntoIs
  <2>2. Len(bs) = l OBVIOUS
  <2> HIDE DEF l, cs
  <2>3. cs[l] = Into(fs[n + 1], bs[l], bs[Len(bs)] \o Rest(fs[n + 1], o))
    BY <1>3, <1>4, <1>8, <2>1, <2>2 DEF Into
  <2>4. Len(bs) = l + IF Embedded(fs[n + 1]) THEN 1 ELSE 0 BY <1>3, <1>8, <2>1, <2>2
  <2>5. n \in Nat /\ n # 0 /\ Len(fs) = n + 1 /\ Len(gs) = n /\ \A k \in 1 .. n : gs[k] = fs[k]
    BY <1>3
  <2>6. Pops(bs, cs, fs, gs, o, n, l) BY <2>1, <2>3, <2>4, <2>5, Zenon DEF Pops
  <2>7. Writes(cs, gs, o, t) BY <1>1, <2>6, WritesBack
  <2> QED BY <1>1, <1>3, <1>6, <1>7, <1>10, <2>1, <2>7, Zenon DEF Going, cs, t
<1>9. ASSUME Embedded(f)
      PROVE  LET outer == Front(bs)
             IN  Going([outer EXCEPT ![Len(outer)] =
                          @ \o Stripped(Append(Last(bs), Token("}"))) \o <<Token("}")>>],
                       gs, o, r)
  <2> DEFINE outer == Front(bs)
             l == Len(outer)
             brace == <<Token("}")>>
             text == Append(Last(bs), Token("}"))
             x == Stripped(text) \o brace
             cs == [outer EXCEPT ![Len(outer)] = @ \o Stripped(text) \o brace]
  <2>1. Close(f) = "}" BY <1>9 DEF Embedded, Close
  <2>2. close = brace BY <2>1 DEF close
  <2>3. /\ Len(bs) \in Nat /\ Len(bs) # 0 /\ Last(bs) = bs[Len(bs)] /\ bs[Len(bs)] \in Texts
        /\ outer \in Seq(Texts) /\ Len(outer) = Len(bs) - 1
        /\ \A k \in 1 .. Len(bs) - 1 : outer[k] = bs[k]
    BY <1>1, <1>5, StackIs
  <2>4. text = bs[Len(bs)] \o Rest(fs[n + 1], o)
    <3>1. "}" \in Words BY Zenon DEF Words, Fixed
    <3>2. Token("}") \in Tokens BY <3>1, TokenTypes
    <3>3. bs[Len(bs)] \in Seq(Tokens) BY <2>3 DEF Texts
    <3>4. text = bs[Len(bs)] \o brace BY <2>3, <3>2, <3>3, AppendIsConcat
    <3> QED BY <1>3, <1>4, <2>2, <3>4
  <2>5. Len(bs) # 1 BY <1>1, <1>3, <1>9, WritesBelow
  <2>6. text \in Texts
    <3>1. text = bs[Len(bs)] \o close BY <1>3, <1>4, <2>4
    <3>2. bs[Len(bs)] \o close \in Texts BY <1>5, <2>3, ConcatText
    <3> HIDE DEF text
    <3> QED BY <3>1, <3>2
  <2>7. Stripped(text) \in Texts BY <2>6, StrippedType
  <2>8. x \in Texts BY <1>5, <2>2, <2>7, TextLaws
  <2>9. l \in Nat /\ l # 0 /\ Len(bs) = l + 1 /\ l \in 1 .. Len(bs) - 1 /\ outer # <<>>
    <3>1. l \in Nat /\ l # 0 /\ Len(bs) = l + 1 BY <2>3, <2>5
    <3> QED BY <3>1, EmptySeq
  <2> HIDE DEF outer, l, brace, text, x
  <2>10. outer[l] = bs[l] /\ bs[l] \in Texts
    <3>1. outer[l] = bs[l] BY <2>3, <2>9
    <3>2. l \in 1 .. Len(outer) BY <2>9 DEF l
    <3> QED BY <2>3, <3>1, <3>2, ElementOfSeq
  <2>11. cs = Onto(outer, x)
    <3>1. (outer[l] \o Stripped(text)) \o brace = outer[l] \o x
      <4>1. brace \in Texts /\ outer[l] \in Texts BY <1>5, <2>2, <2>10
      <4>2. x = Stripped(text) \o brace BY DEF x
      <4>3. outer[l] \o (Stripped(text) \o brace) = (outer[l] \o Stripped(text)) \o brace
        BY <2>7, <4>1, TextAssoc
      <4> QED BY <4>2, <4>3
    <3>2. cs = [outer EXCEPT ![l] = (outer[l] \o Stripped(text)) \o brace] BY DEF l
    <3>3. Onto(outer, x) = [outer EXCEPT ![l] = outer[l] \o x] BY DEF Onto, l
    <3> QED BY <3>1, <3>2, <3>3
  <2>12. /\ cs \in Seq(Texts) /\ Len(cs) = l /\ cs # <<>> /\ cs[l] = bs[l] \o x
         /\ \A j \in 1 .. l : j # l => cs[j] = outer[j]
    <3> HIDE DEF cs
    <3> QED BY <2>3, <2>8, <2>9, <2>10, <2>11, OntoIs DEF l
  <2> HIDE DEF cs
  <2>13. cs[l] = Into(fs[n + 1], bs[l], bs[Len(bs)] \o Rest(fs[n + 1], o))
    BY <1>3, <1>9, <2>4, <2>12 DEF Into, x, brace
  <2>14. Len(bs) = l + IF Embedded(fs[n + 1]) THEN 1 ELSE 0 BY <1>3, <1>9, <2>9
  <2>15. \A j \in 1 .. l : j # l => cs[j] = bs[j]
    <3>1. \A j \in 1 .. l : j \in 1 .. Len(bs) - 1 BY <2>9
    <3> QED BY <2>3, <2>12, <3>1
  <2>16. n \in Nat /\ n # 0 /\ Len(fs) = n + 1 /\ Len(gs) = n /\ \A k \in 1 .. n : gs[k] = fs[k]
    BY <1>3
  <2>17. Pops(bs, cs, fs, gs, o, n, l)
    BY <2>9, <2>12, <2>13, <2>14, <2>15, <2>16, Zenon DEF Pops
  <2>18. Writes(cs, gs, o, t) BY <1>1, <2>17, WritesBack
  <2>19. Going(cs, gs, o, r)
    BY <1>1, <1>3, <1>6, <1>7, <1>10, <2>12, <2>18, Zenon DEF Going, t
  <2> QED BY <2>19 DEF cs, outer, l, text, brace
<1> QED BY <1>8, <1>9 DEF f, gs, close
-----------------------------------------------------------------------------
(* Writing a value *)

\* It is written whole.
LEMMA ValueOn ==
  ASSUME NEW bs, NEW fs, NEW o \in OptionSet, NEW r, Going(bs, fs, o, r),
         NEW v, NEW shape, NEW before, NEW parent,
         Advances(Last(fs), v, shape, before, parent, o), Encodable(v)
  PROVE  Going(Onto(bs, before \o Form(v, shape, o)), Append(Front(fs), parent), o, r)
<1> DEFINE w == Form(v, shape, o)
           x == before \o w
           f == Last(fs)
<1>1. /\ v \in Values /\ before \in Texts /\ FrameOK(parent)
      /\ Rest(f, o) = before \o (w \o Rest(parent, o))
      /\ RestEncodable(f) <=> RestEncodable(parent)
      /\ Embedded(parent) <=> Embedded(f)
      /\ parent.kind = f.kind
  BY DEF Advances
<1>2. w \in Texts BY <1>1, FormType
<1>3. Rest(parent, o) \in Texts BY <1>1, RestType
<1> HIDE DEF w
<1>4. x \in Texts BY <1>1, <1>2, ConcatText
<1>5. before \o (w \o Rest(parent, o)) = x \o Rest(parent, o) BY <1>1, <1>2, <1>3, TextAssoc
<1> HIDE DEF x
<1>6. Rest(f, o) = x \o Rest(parent, o) BY <1>1, <1>5
<1> HIDE DEF f
<1>7. Going(Onto(bs, x), Append(Front(fs), parent), o, r)
  BY <1>1, <1>4, <1>6, GoingOn DEF f
<1> QED BY <1>7 DEF x, w

\* It has no JSON form.
LEMMA ValueFails ==
  ASSUME NEW bs, NEW fs, NEW o \in OptionSet, NEW r, Going(bs, fs, o, r),
         NEW v, NEW shape, NEW before, NEW parent,
         Advances(Last(fs), v, shape, before, parent, o), ~ Encodable(v)
  PROVE  ~ Encodable(r)
<1>1. ~ RestEncodable(Last(fs)) BY DEF Advances
<1>2. Len(fs) \in 1 .. Len(fs) /\ Last(fs) = fs[Len(fs)] BY TopIs
<1>3. ~ AllEncodable(fs) BY <1>1, <1>2 DEF AllEncodable
<1> QED BY <1>3 DEF Going

\* A frame of its own is pushed for it.
LEMMA ValueInto ==
  ASSUME NEW bs, NEW fs, NEW o \in OptionSet, NEW r, Going(bs, fs, o, r),
         NEW v, NEW shape, NEW before, NEW parent,
         Advances(Last(fs), v, shape, before, parent, o), v.is # "nil",
         NEW open \in Words, NEW g, FrameOK(g), ~ Embedded(g),
         Text(v, o) = <<Token(open)>> \o Rest(g, o),
         Encodable(v) <=> RestEncodable(g)
  PROVE  Going(Onto(bs, before \o <<Token(open)>>), Append(Front(fs), parent) \o <<g>>, o, r)
<1> DEFINE first == <<Token(open)>>
           x == before \o first
           f == Last(fs)
           rg == Rest(g, o)
           rp == Rest(parent, o)
<1>1. /\ v \in Values /\ before \in Texts /\ FrameOK(parent)
      /\ Rest(f, o) = before \o (Form(v, shape, o) \o rp)
      /\ RestEncodable(f) <=> RestEncodable(g) /\ RestEncodable(parent)
      /\ Embedded(parent) <=> Embedded(f)
      /\ parent.kind = f.kind
  BY DEF Advances
<1>2. Form(v, shape, o) = first \o rg BY DEF Form
<1>3. first \in Texts BY TokenTypes, TokenText
<1>4. rg \in Texts /\ rp \in Texts BY <1>1, RestType
<1> HIDE DEF first, rg, rp
<1>5. before \o ((first \o rg) \o rp) = x \o (rg \o rp)
  <2>1. first \o (rg \o rp) = (first \o rg) \o rp BY <1>3, <1>4, TextAssoc
  <2>2. rg \o rp \in Texts BY <1>4, ConcatText
  <2>3. before \o (first \o (rg \o rp)) = (before \o first) \o (rg \o rp)
    BY <1>1, <1>3, <2>2, TextAssoc
  <2> QED BY <2>1, <2>3
<1>6. x \in Texts BY <1>1, <1>3, ConcatText
<1> HIDE DEF x
<1>7. Rest(f, o) = x \o (Rest(g, o) \o Rest(parent, o)) BY <1>1, <1>2, <1>5 DEF rg, rp
<1> HIDE DEF f
<1>8. Going(Onto(bs, x), Append(Front(fs), parent) \o <<g>>, o, r)
  BY <1>1, <1>6, <1>7, GoingInto DEF f
<1> QED BY <1>8 DEF x, first

\* What of an Any has a JSON form.
LEMMA AnyEncodable ==
  ASSUME NEW v \in Values, v.is = "any"
  PROVE  LET p == v.payload
         IN  /\ p.is \in {"nil", "empty", "known", "message", "untyped", "unresolved"}
             /\ p.is \in {"nil", "empty"} => Encodable(v)
             /\ p.is \in {"untyped", "unresolved"} => ~ Encodable(v)
             /\ p.is = "known" => (Encodable(v) <=> p.value.is # "invalid")
             /\ p.is = "message" => p \in Values /\ (Encodable(v) <=> Encodable(p))
<1> DEFINE p == v.payload
<1>1. PayloadOver(p, Values) BY ValueIs
<1>2. Encodable(v) = PayloadEncodable(p, HasForm)
  BY EncodableIs DEF PartsEncodable
<1>3. p.is \in {"nil", "empty", "known", "message", "untyped", "unresolved"}
  BY <1>1 DEF PayloadOver, MessageOver
<1>4. CASE p.is = "message"
  <2>1. p \in Values BY <1>4, ValueIs
  <2>2. Encodable(p) = MessageEncodable(p, HasForm) BY <1>4, <2>1, EncodableIs DEF PartsEncodable
  <2>3. PayloadEncodable(p, HasForm) = MessageEncodable(p, HasForm) BY <1>4 DEF PayloadEncodable
  <2> QED BY <1>2, <1>4, <2>1, <2>2, <2>3
<1>5. CASE p.is # "message" BY <1>2, <1>3, <1>5 DEF PayloadEncodable
<1> QED BY <1>4, <1>5

\* The message of an Any is pushed, with a buffer.
LEMMA AnyInto ==
  ASSUME NEW bs, NEW fs, NEW o \in OptionSet, NEW r, Going(bs, fs, o, r),
         NEW v, NEW shape, NEW before, NEW parent,
         Advances(Last(fs), v, shape, before, parent, o), v.is = "any",
         v.payload.is = "message"
  PROVE  Going(Append(Onto(bs, before \o AnyType), <<Token("{")>>),
               Append(Append(Front(fs), parent), ObjectFrame(v.payload, TRUE)), o, r)
<1> DEFINE p == v.payload
           g == ObjectFrame(p, TRUE)
           x == before \o AnyType
           f == Last(fs)
           close == <<Token("}")>>
           s == Stripped(Text(p, o))
           inner == s \o close
           rp == Rest(parent, o)
<1>1. /\ v \in Values /\ before \in Texts /\ FrameOK(parent)
      /\ Rest(f, o) = before \o (Form(v, shape, o) \o rp)
      /\ RestEncodable(f) <=> Encodable(v) /\ RestEncodable(parent)
      /\ Embedded(parent) <=> Embedded(f)
      /\ parent.kind = f.kind
  BY DEF Advances
<1>2. /\ AnyType \in Texts /\ s \in Texts /\ Form(v, shape, o) = AnyType \o inner
  BY <1>1, AnyText DEF Form
<1>3. p \in Values /\ (Encodable(v) <=> Encodable(p)) BY <1>1, AnyEncodable
<1>4. /\ FrameOK(g) /\ g.kind = "object" /\ g.embedded = TRUE
      /\ Text(p, o) = <<Token("{")>> \o Rest(g, o)
      /\ Encodable(p) <=> RestEncodable(g)
  <2>1. TRUE \in BOOLEAN OBVIOUS
  <2> HIDE DEF p
  <2> QED BY <1>3, <2>1, MessageStart DEF p
<1>5. close \in Texts
  <2>1. "}" \in Words BY Zenon DEF Words, Fixed
  <2> QED BY <2>1, TokenTypes, TokenText
<1>6. rp \in Texts BY <1>1, RestType
<1> HIDE DEF close, s, g, rp
<1>7. inner \in Texts BY <1>2, <1>5, ConcatText
<1> HIDE DEF inner
<1>8. before \o ((AnyType \o inner) \o rp) = x \o (inner \o rp)
  <2>1. AnyType \o (inner \o rp) = (AnyType \o inner) \o rp BY <1>2, <1>6, <1>7, TextAssoc
  <2>2. inner \o rp \in Texts BY <1>6, <1>7, ConcatText
  <2>3. before \o (AnyType \o (inner \o rp)) = (before \o AnyType) \o (inner \o rp)
    BY <1>1, <1>2, <2>2, TextAssoc
  <2> QED BY <2>1, <2>3
<1>9. x \in Texts BY <1>1, <1>2, ConcatText
<1> HIDE DEF x
<1>10. inner = Stripped(<<Token("{")>> \o Rest(g, o)) \o <<Token("}")>>
  BY <1>4 DEF inner, s, close
<1>11. Rest(f, o) = x \o (inner \o Rest(parent, o)) BY <1>1, <1>2, <1>8 DEF rp
<1>12. Embedded(g) BY <1>4 DEF Embedded
<1> HIDE DEF f
<1>13. RestEncodable(f) <=> RestEncodable(g) /\ RestEncodable(parent) BY <1>1, <1>3, <1>4
<1>14. Going(Append(Onto(bs, x), <<Token("{")>>), Append(Append(Front(fs), parent), g), o, r)
  BY <1>1, <1>4, <1>7, <1>9, <1>10, <1>11, <1>12, <1>13, GoingInto DEF f
<1> QED BY <1>14 DEF x, g

\* WriteValue writes it, or fails when it has no JSON form.
LEMMA ValueGoes ==
  ASSUME opts \in OptionSet, status = "writing", Going(bufs, stack, opts, root),
         NEW v, NEW shape, NEW before, NEW parent,
         Advances(Top, v, shape, before, parent, opts), WriteValue(v, shape, before, parent)
  PROVE  \/ status' = "writing" /\ Going(bufs', stack', opts, root)
         \/ status' = "failed" /\ ~ Encodable(root)
<1> DEFINE up == Append(Front(stack), parent)
           whole == before \o Form(v, shape, opts)
<1>1. Advances(Last(stack), v, shape, before, parent, opts) BY DEF Top
<1>2. v \in Values /\ before \in Texts BY <1>1 DEF Advances
<1>3. \A x : Written(x) = Onto(bufs, x) BY DEF Written, Onto
<1>4. ~ Encodable(v) => ~ Encodable(root)
  <2>1. opts \in OptionSet /\ Going(bufs, stack, opts, root) OBVIOUS
  <2> QED BY <1>1, <2>1, ValueFails
<1>5. Encodable(v) => Going(Onto(bufs, whole), up, opts, root)
  <2>1. opts \in OptionSet /\ Going(bufs, stack, opts, root) OBVIOUS
  <2> QED BY <1>1, <2>1, ValueOn
<1>6. /\ v.is = "invalid" => ~ Encodable(v)
      /\ v.is \in Leaves \ {"invalid"} => Encodable(v)
  BY <1>2, EncodableIs DEF PartsEncodable, Leaves
<1>7. CASE WriteLeaf(v, shape, before, parent)
  <2>1. v.is \in Leaves \ {"invalid"} BY <1>7 DEF WriteLeaf
  <2>2. Form(v, shape, opts) = <<LeafToken(shape, v)>>
    <3>1. v.is # "nil" => LeafToken(shape, v) = Value(v.is) BY DEF LeafToken
    <3>2. Text(v, opts) = <<Value(v.is)>> BY <1>2, <2>1, TextOf
    <3> QED BY <3>1, <3>2 DEF Form
  <2>3. bufs' = Onto(bufs, whole) /\ stack' = up /\ status' = status
    BY <1>3, <1>7, <2>2 DEF WriteLeaf
  <2> HIDE DEF whole, up
  <2> QED BY <1>5, <1>6, <2>1, <2>3
<1>8. CASE FailLeaf(v, before) BY <1>4, <1>6, <1>8 DEF FailLeaf
<1>9. ASSUME v.is # "nil", NEW open \in Words, NEW g, FrameOK(g), ~ Embedded(g),
             Text(v, opts) = <<Token(open)>> \o Rest(g, opts), Encodable(v) <=> RestEncodable(g),
             bufs' = Written(before \o <<Token(open)>>), stack' = up \o <<g>>
      PROVE  Going(bufs', stack', opts, root)
  <2>1. opts \in OptionSet /\ Going(bufs, stack, opts, root) OBVIOUS
  <2>2. Going(Onto(bufs, before \o <<Token(open)>>), up \o <<g>>, opts, root)
    BY <1>1, <1>9, <2>1, ValueInto
  <2> QED BY <1>3, <1>9, <2>2
<1>10. "{" \in Words /\ "[" \in Words BY Zenon DEF Words, Fixed
<1>11. CASE EnterList(v, before, parent)
  <2> DEFINE g == ListFrame(v.items)
  <2>1. /\ v.is = "list" /\ bufs' = Written(before \o <<Token("[")>>) /\ stack' = up \o <<g>>
        /\ status' = status
    BY <1>11 DEF EnterList
  <2>2. FrameOK(g) /\ Text(v, opts) = <<Token("[")>> \o Rest(g, opts) /\ (Encodable(v) <=> RestEncodable(g))
    BY <1>2, <2>1, ListStart
  <2>3. ~ Embedded(g) BY DEF Embedded, ListFrame
  <2> HIDE DEF g, up
  <2> QED BY <1>9, <1>10, <2>1, <2>2, <2>3
<1>12. CASE EnterMap(v, before, parent)
  <2> DEFINE g == MapFrame(v.entries)
  <2>1. /\ v.is = "map" /\ bufs' = Written(before \o <<Token("{")>>) /\ stack' = up \o <<g>>
        /\ status' = status
    BY <1>12 DEF EnterMap
  <2>2. FrameOK(g) /\ Text(v, opts) = <<Token("{")>> \o Rest(g, opts) /\ (Encodable(v) <=> RestEncodable(g))
    BY <1>2, <2>1, MapStart
  <2>3. ~ Embedded(g) BY DEF Embedded, MapFrame
  <2> HIDE DEF g, up
  <2> QED BY <1>9, <1>10, <2>1, <2>2, <2>3
<1>13. CASE EnterMessage(v, before, parent)
  <2> DEFINE g == ObjectFrame(v, FALSE)
  <2>1. /\ v.is = "message" /\ bufs' = Written(before \o <<Token("{")>>) /\ stack' = up \o <<g>>
        /\ status' = status
    BY <1>13 DEF EnterMessage
  <2>2. FALSE \in BOOLEAN /\ opts \in OptionSet OBVIOUS
  <2>3. /\ FrameOK(g) /\ g.embedded = FALSE /\ Text(v, opts) = <<Token("{")>> \o Rest(g, opts)
        /\ Encodable(v) <=> RestEncodable(g)
    BY <1>2, <2>1, <2>2, MessageStart
  <2>4. ~ Embedded(g) BY <2>3 DEF Embedded
  <2> HIDE DEF g, up
  <2> QED BY <1>9, <1>10, <2>1, <2>3, <2>4
<1>14. CASE FallbackMessage(v, before, parent)
  <2>1. CASE Encodable(v)
    <3>1. /\ v.is = "message" /\ bufs' = Written(before \o Text(v, opts)) /\ stack' = up
          /\ status' = status
      BY <1>14, <2>1 DEF FallbackMessage, ProtojsonMarshal
    <3>2. whole = before \o Text(v, opts) BY <3>1 DEF Form
    <3>3. bufs' = Onto(bufs, whole) BY <1>3, <3>1, <3>2
    <3> HIDE DEF whole, up
    <3> QED BY <1>5, <2>1, <3>1, <3>3
  <2>2. CASE ~ Encodable(v) BY <1>4, <1>14, <2>2 DEF FallbackMessage
  <2> QED BY <2>1, <2>2
<1>15. CASE EnterAny(v, before, parent)
  <2> DEFINE p == v.payload
             close == <<Token("}")>>
  <2>1. v.is = "any" /\ Form(v, shape, opts) = Text(v, opts) BY <1>15 DEF EnterAny, Form
  <2>2. /\ AnyType \in Texts
        /\ p.is = "nil" => Text(v, opts) = <<Token("{"), Token("}")>>
        /\ p.is = "empty" => Text(v, opts) = AnyType \o close
        /\ p.is = "known" =>
             Text(v, opts) = AnyType \o <<Token(","), Key("value"), Value(p.value.is), Token("}")>>
        /\ p.is = "message" =>
             /\ Stripped(Text(p, opts)) \in Texts
             /\ Text(v, opts) = AnyType \o (Stripped(Text(p, opts)) \o close)
    BY <1>2, <2>1, AnyText
  <2>3. /\ p.is \in {"nil", "empty"} => Encodable(v)
        /\ p.is \in {"untyped", "unresolved"} => ~ Encodable(v)
        /\ p.is = "known" => (Encodable(v) <=> p.value.is # "invalid")
        /\ p.is = "message" => (Encodable(v) <=> Encodable(p))
    BY <1>2, <2>1, AnyEncodable
  <2>4. ASSUME Encodable(v), NEW t, bufs' = Written(before \o t), t = Text(v, opts),
               stack' = up, status' = status
        PROVE  status' = "writing" /\ Going(bufs', stack', opts, root)
    <3>1. bufs' = Onto(bufs, whole) BY <1>3, <2>1, <2>4
    <3> HIDE DEF whole, up
    <3> QED BY <1>5, <2>4, <3>1
  <2>5. close \in Texts
    <3>1. "}" \in Words BY Zenon DEF Words, Fixed
    <3> QED BY <3>1, TokenTypes, TokenText
  <2>6. \/ /\ p.is = "nil" /\ bufs' = Written(before \o <<Token("{"), Token("}")>>)
           /\ stack' = up /\ status' = status
        \/ /\ p.is = "empty" /\ bufs' = Written(before \o AnyType \o close)
           /\ stack' = up /\ status' = status
        \/ /\ p.is = "known" /\ p.value.is # "invalid"
           /\ bufs' = Written(before \o AnyType
                        \o <<Token(","), Key("value"), Value(p.value.is), Token("}")>>)
           /\ stack' = up /\ status' = status
        \/ /\ p.is = "message"
           /\ bufs' = Append(Written(before \o AnyType), <<Token("{")>>)
           /\ stack' = Append(up, ObjectFrame(p, TRUE)) /\ status' = status
        \/ /\ p.is = "message" /\ Encodable(p)
           /\ bufs' = Written(before \o AnyType \o Stripped(Text(p, opts)) \o close)
           /\ stack' = up /\ status' = status
        \/ /\ \/ p.is \in {"untyped", "unresolved"}
              \/ p.is = "known" /\ p.value.is = "invalid"
              \/ p.is = "message" /\ ~ Encodable(p)
           /\ status' = "failed"
    BY <1>15, Zenon DEF EnterAny, ProtojsonMarshal
  <2> HIDE DEF up, close
  <2>7. CASE p.is = "nil" /\ bufs' = Written(before \o <<Token("{"), Token("}")>>)
             /\ stack' = up /\ status' = status
    BY <2>2, <2>3, <2>4, <2>7
  <2>8. CASE p.is = "empty" /\ bufs' = Written(before \o AnyType \o close)
             /\ stack' = up /\ status' = status
    <3>1. before \o AnyType \o close = before \o (AnyType \o close)
      BY <1>2, <2>2, <2>5, TextAssoc
    <3> QED BY <2>2, <2>3, <2>4, <2>8, <3>1
  <2>9. CASE /\ p.is = "known" /\ p.value.is # "invalid"
             /\ bufs' = Written(before \o AnyType
                          \o <<Token(","), Key("value"), Value(p.value.is), Token("}")>>)
             /\ stack' = up /\ status' = status
    <3> DEFINE last == <<Token(","), Key("value"), Value(p.value.is), Token("}")>>
    <3>1. last \in Texts
      <4>1. p.value.is \in Leaves
        <5>1. PayloadOver(p, Values) BY <1>2, <2>1, ValueIs
        <5> QED BY <2>9, <5>1 DEF PayloadOver, MessageOver
      <4>2. p.value.is \in Words BY <4>1, Zenon DEF Words, Fixed
      <4>3. "," \in Words /\ "value" \in Words /\ "}" \in Words BY Zenon DEF Words, Fixed
      <4>4. Token(",") \in Tokens /\ Key("value") \in Tokens /\ Value(p.value.is) \in Tokens
            /\ Token("}") \in Tokens
        BY <4>2, <4>3, TokenTypes
      <4> QED BY <4>4, QuadrupleText
    <3> HIDE DEF last
    <3>2. before \o AnyType \o last = before \o (AnyType \o last)
      BY <1>2, <2>2, <3>1, TextAssoc
    <3> QED BY <2>2, <2>3, <2>4, <2>9, <3>2 DEF last
  <2>10. CASE /\ p.is = "message"
              /\ bufs' = Append(Written(before \o AnyType), <<Token("{")>>)
              /\ stack' = Append(up, ObjectFrame(p, TRUE)) /\ status' = status
    <3>1. opts \in OptionSet /\ Going(bufs, stack, opts, root) OBVIOUS
    <3>2. Going(Append(Onto(bufs, before \o AnyType), <<Token("{")>>),
                Append(up, ObjectFrame(p, TRUE)), opts, root)
      BY <1>1, <2>1, <2>10, <3>1, AnyInto DEF up
    <3> QED BY <1>3, <2>10, <3>2
  <2>11. CASE /\ p.is = "message" /\ Encodable(p)
              /\ bufs' = Written(before \o AnyType \o Stripped(Text(p, opts)) \o close)
              /\ stack' = up /\ status' = status
    <3> DEFINE s == Stripped(Text(p, opts))
    <3>1. s \in Texts BY <2>2, <2>11
    <3> HIDE DEF s
    <3>2. before \o AnyType \o s \o close = before \o (AnyType \o (s \o close))
      <4>1. before \o AnyType \in Texts BY <1>2, <2>2, ConcatText
      <4>2. (before \o AnyType) \o (s \o close) = ((before \o AnyType) \o s) \o close
        BY <2>5, <3>1, <4>1, TextAssoc
      <4>3. s \o close \in Texts BY <2>5, <3>1, ConcatText
      <4>4. before \o (AnyType \o (s \o close)) = (before \o AnyType) \o (s \o close)
        BY <1>2, <2>2, <4>3, TextAssoc
      <4> QED BY <4>2, <4>4
    <3>3. bufs' = Written(before \o (AnyType \o (s \o close))) BY <2>11, <3>2 DEF s
    <3>4. AnyType \o (s \o close) = Text(v, opts) BY <2>2, <2>11 DEF s
    <3> QED BY <2>3, <2>4, <2>11, <3>3, <3>4
  <2>12. CASE /\ \/ p.is \in {"untyped", "unresolved"}
                 \/ p.is = "known" /\ p.value.is = "invalid"
                 \/ p.is = "message" /\ ~ Encodable(p)
              /\ status' = "failed"
    BY <1>4, <2>3, <2>12
  <2> QED BY <2>6, <2>7, <2>8, <2>9, <2>10, <2>11, <2>12
<1> QED BY <1>7, <1>8, <1>11, <1>12, <1>13, <1>14, <1>15 DEF WriteValue
-----------------------------------------------------------------------------
(* The encode *)

\* What is written and what is still to write give the text, however deep the
\* frames and buffers go, and it fails only where there is none.
EncodeInv ==
  /\ root \in Values /\ opts \in OptionSet
  /\ status \in {"writing", "done", "failed"}
  /\ status = "writing" => Going(bufs, stack, opts, root)
  /\ status = "done" => bufs = <<Text(root, opts)>> /\ Encodable(root)
  /\ status = "failed" => ~ Encodable(root)

\* The first frame and its brace.
LEMMA GoingFirst ==
  ASSUME NEW r \in Values, r.is = "message", NEW o \in OptionSet
  PROVE  Going(<<<<Token("{")>>>>, <<ObjectFrame(r, FALSE)>>, o, r)
<1> DEFINE f == ObjectFrame(r, FALSE)
           open == <<Token("{")>>
           bs == <<open>>
           fs == <<f>>
           t == Text(r, o)
<1>1. /\ FrameOK(f) /\ f.kind = "object" /\ f.embedded = FALSE
      /\ t = open \o Rest(f, o) /\ (Encodable(r) <=> RestEncodable(f))
  <2>1. FALSE \in BOOLEAN OBVIOUS
  <2> QED BY <2>1, MessageStart
<1>2. open \in Texts
  <2>1. "{" \in Words BY Zenon DEF Words, Fixed
  <2> QED BY <2>1, TokenTypes, TokenText
<1>3. t \in Texts BY TextOf
<1>4. f \in Frames BY <1>1, FramesAre
<1> HIDE DEF f, open, t
<1>5. /\ bs \in Seq(Texts) /\ bs # <<>> /\ Len(bs) = 1 /\ bs[1] = open
      /\ fs \in Seq(Frames) /\ fs # <<>> /\ Len(fs) = 1 /\ fs[1] = f
  BY <1>2, <1>4
<1>6. Writes(bs, fs, o, t)
  <2> DEFINE out == [k \in 1 .. 1 |-> t]
             at == [k \in 1 .. 1 |-> 1]
  <2>1. /\ out \in [1 .. 1 -> Texts] /\ at \in [1 .. 1 -> Nat]
        /\ at[1] = 1 /\ out[1] = t
        /\ \A k \in 1 .. 1, j \in 1 .. 1 : j <= k => at[j] <= at[k]
    BY <1>3
  <2>2. ~ Embedded(fs[1]) BY <1>1, <1>5 DEF Embedded
  <2>4. \A k \in 1 .. 1 - 1 : FALSE OBVIOUS
  <2> HIDE DEF out, at, bs, fs
  <2>3. out[1] = bs[1] \o Rest(fs[1], o) BY <1>1, <1>5, <2>1
  <2>5. OutIs(bs, fs, o, out, at) BY <1>5, <2>1, <2>2, <2>3, <2>4 DEF OutIs
  <2> QED BY <2>1, <2>5, Zenon DEF Writes
<1>7. AllEncodable(fs) <=> RestEncodable(f)
  <2>1. \A k \in 1 .. 1 : k = 1 OBVIOUS
  <2>2. 1 \in 1 .. 1 OBVIOUS
  <2> HIDE DEF fs
  <2> QED BY <1>5, <2>1, <2>2 DEF AllEncodable
<1> HIDE DEF bs, fs
<1>8. Going(bs, fs, o, r)
  <2>1. fs[1].kind = "object" /\ (Encodable(r) <=> AllEncodable(fs)) BY <1>1, <1>5, <1>7
  <2>2. Writes(bs, fs, o, Text(r, o)) BY <1>6 DEF t
  <2> QED BY <1>5, <2>1, <2>2, Zenon DEF Going
<1> QED BY <1>8 DEF bs, fs, f, open

\* The last frame leaves the text.
LEMMA GoingOut ==
  ASSUME NEW bs, NEW fs, NEW o \in OptionSet, NEW r, Going(bs, fs, o, r),
         Len(fs) = 1, Last(fs).next > Count(Last(fs))
  PROVE  /\ ~ Embedded(Last(fs)) /\ Last(fs).kind = "object"
         /\ Onto(bs, <<Token(Close(Last(fs)))>>) = <<Text(r, o)>>
         /\ Encodable(r)
<1> DEFINE f == Last(fs)
           close == <<Token(Close(f))>>
           t == Text(r, o)
<1>1. /\ bs \in Seq(Texts) /\ bs # <<>> /\ fs[1].kind = "object"
      /\ Writes(bs, fs, o, t) /\ (Encodable(r) <=> AllEncodable(fs))
  BY DEF Going
<1>2. FrameOK(f) /\ f = fs[1] BY TopIs
<1>3. Rest(f, o) = close BY <1>2, RestEnd
<1>4. Len(bs) = 1 /\ ~ Embedded(fs[1]) /\ t = bs[1] \o Rest(fs[1], o)
  <2> HIDE DEF t
  <2>1. PICK out, at : OutIs(bs, fs, o, out, at) /\ out[1] = t BY <1>1 DEF Writes
  <2>2. /\ at[1] = 1 /\ at[1] = Len(bs) /\ ~ Embedded(fs[1])
        /\ out[1] = bs[Len(bs)] \o Rest(fs[1], o)
    BY <2>1 DEF OutIs
  <2> QED BY <2>1, <2>2
<1>5. Onto(bs, close) = <<t>>
  <2>1. bs = <<bs[1]>>
    <3>1. \A k \in 1 .. 1 : k = 1 OBVIOUS
    <3> QED BY <1>1, <1>4, <3>1
  <2>2. t = bs[1] \o close BY <1>2, <1>3, <1>4
  <2> HIDE DEF t, close, f
  <2>3. Onto(bs, close) = [bs EXCEPT ![1] = t] BY <1>4, <2>2 DEF Onto
  <2>4. DOMAIN bs = {1} BY <2>1
  <2> QED BY <2>1, <2>3, <2>4
<1>6. RestEncodable(f)
  <2>1. Count(f) \in Nat /\ f.next \in Nat BY <1>2, FrameIs
  <2>2. \A i \in f.next .. Count(f) : FALSE BY <2>1
  <2> QED BY <2>2 DEF RestEncodable
<1>7. AllEncodable(fs)
  <2>1. \A k \in 1 .. 1 : k = 1 OBVIOUS
  <2> QED BY <1>2, <1>6, <2>1 DEF AllEncodable
<1> QED BY <1>1, <1>2, <1>4, <1>5, <1>7

\* The invariant holds at the start,
LEMMA EncodeInit == Init => EncodeInv
<1> SUFFICES ASSUME Init PROVE EncodeInv OBVIOUS
<1>1. root \in Values /\ root.is = "message" /\ opts \in OptionSet
  BY RootsAssumption, OptionsAssumption DEF Init, OptionSet
<1>2. bufs = <<<<Token("{")>>>> /\ stack = <<ObjectFrame(root, FALSE)>> /\ status = "writing"
  BY DEF Init
<1>3. Going(bufs, stack, opts, root) BY <1>1, <1>2, GoingFirst
<1> QED BY <1>1, <1>2, <1>3 DEF EncodeInv

\* and every step keeps it: whatever is written next takes it from one frame to the next.
LEMMA EncodeNext == EncodeInv /\ [Next]_vars => EncodeInv'
<1> SUFFICES ASSUME EncodeInv, [Next]_vars PROVE EncodeInv' OBVIOUS
<1>1. /\ root \in Values /\ opts \in OptionSet
      /\ status \in {"writing", "done", "failed"}
      /\ status = "writing" => Going(bufs, stack, opts, root)
  BY DEF EncodeInv
<1>2. ASSUME root' = root, opts' = opts,
             \/ status' = "writing" /\ Going(bufs', stack', opts, root)
             \/ status' = "failed" /\ ~ Encodable(root)
             \/ status' = "done" /\ bufs' = <<Text(root, opts)>> /\ Encodable(root)
      PROVE  EncodeInv'
  BY <1>1, <1>2, Zenon DEF EncodeInv
<1>3. \A x : Written(x) = Onto(bufs, x) BY DEF Written, Onto
<1>4. ASSUME In("object") \/ In("list") \/ In("map")
      PROVE  /\ status = "writing" /\ Going(bufs, stack, opts, root)
             /\ FrameOK(Top) /\ Top = Last(stack) /\ Len(stack) \in Nat /\ Len(stack) # 0
  <2>1. status = "writing" BY <1>4 DEF In
  <2>2. Going(bufs, stack, opts, root) BY <1>1, <2>1
  <2> QED BY <2>1, <2>2, TopIs DEF Top
<1>5. CASE SkipMember
  <2> DEFINE g == [Top EXCEPT !.next = @ + 1]
  <2>1. In("object") /\ Top.next <= MemberCount(Top.message) /\ ~ MemberShown
        /\ root' = root /\ opts' = opts /\ bufs' = bufs /\ status' = status
        /\ stack' = Append(Front(stack), g)
    BY <1>5 DEF SkipMember, MoreMembers, InObject
  <2>2. Top.kind = "object" BY <2>1 DEF In
  <2>3. /\ FrameOK(g) /\ Rest(g, opts) = Rest(Top, opts)
        /\ RestEncodable(Top) <=> RestEncodable(g)
        /\ Embedded(g) <=> Embedded(Top)
        /\ g.kind = Top.kind
    <3>1. opts \in OptionSet /\ FrameOK(Top) BY <1>1, <1>4, <2>1
    <3>2. ~ (IsField(Top.message, Top.next) =>
               Shown(FieldAt(Top.message, Top.next).shape, MemberValue(Top.message, Top.next)))
      BY <2>1 DEF MemberShown
    <3> QED BY <2>1, <2>2, <3>1, <3>2, MemberAdvances
  <2>4. Going(Onto(bufs, <<>>), Append(Front(stack), g), opts, root)
    <3>1. Going(bufs, stack, opts, root) /\ opts \in OptionSet /\ Top = Last(stack)
      BY <1>1, <1>4, <2>1
    <3>2. <<>> \in Texts /\ Rest(g, opts) \in Texts BY <2>3, <3>1, RestType, TextLaws
    <3>3. Rest(Top, opts) = <<>> \o Rest(g, opts) BY <2>3, <3>2, TextLaws
    <3> HIDE DEF g
    <3> QED BY <2>3, <3>1, <3>2, <3>3, GoingOn
  <2>5. Onto(bufs, <<>>) = bufs
    <3>1. bufs \in Seq(Texts) /\ bufs # <<>> /\ <<>> \in Texts
      BY <1>4, <2>1, TextLaws DEF Going
    <3>2. /\ Len(bufs) \in Nat /\ bufs[Len(bufs)] \in Texts
          /\ Onto(bufs, <<>>) \in Seq(Texts) /\ Len(Onto(bufs, <<>>)) = Len(bufs)
          /\ Onto(bufs, <<>>)[Len(bufs)] = bufs[Len(bufs)] \o <<>>
          /\ \A j \in 1 .. Len(bufs) : j # Len(bufs) => Onto(bufs, <<>>)[j] = bufs[j]
      BY <3>1, OntoIs
    <3>3. bufs[Len(bufs)] \o <<>> = bufs[Len(bufs)] BY <3>2, TextLaws
    <3>4. \A j \in 1 .. Len(bufs) : Onto(bufs, <<>>)[j] = bufs[j] BY <3>2, <3>3
    <3> QED BY <3>1, <3>2, <3>4, SeqEqual
  <2>6. status' = "writing" /\ Going(bufs', stack', opts, root) BY <1>4, <2>1, <2>4, <2>5
  <2> QED BY <1>2, <2>1, <2>6
<1>6. CASE WriteMember
  <2> DEFINE m == Top.message
             i == Top.next
             v == MemberValue(m, i)
             shape == IF IsField(m, i) THEN FieldAt(m, i).shape ELSE "message"
             before == Comma(Top.wrote) \o <<MemberKey(m, i)>>
             h == [Top EXCEPT !.next = @ + 1, !.wrote = TRUE]
  <2>1. In("object") /\ i <= MemberCount(m) /\ MemberShown
        /\ root' = root /\ opts' = opts /\ WriteValue(v, shape, before, h)
    BY <1>6 DEF WriteMember, MoreMembers, InObject
  <2>2. Top.kind = "object" BY <2>1 DEF In
  <2>3. Advances(Top, v, shape, before, h, opts)
    <3>1. opts \in OptionSet /\ FrameOK(Top) BY <1>1, <1>4, <2>1
    <3>2. IsField(m, i) => Shown(FieldAt(m, i).shape, v) BY <2>1 DEF MemberShown
    <3> QED BY <2>1, <2>2, <3>1, <3>2, MemberAdvances
  <2>4. opts \in OptionSet /\ status = "writing" /\ Going(bufs, stack, opts, root)
    BY <1>1, <1>4, <2>1
  <2> HIDE DEF m, i, v, shape, before, h
  <2>5. \/ status' = "writing" /\ Going(bufs', stack', opts, root)
        \/ status' = "failed" /\ ~ Encodable(root)
    BY <2>1, <2>3, <2>4, ValueGoes
  <2> QED BY <1>2, <2>1, <2>5
<1>7. CASE EndObject
  <2>1. /\ In("object") /\ Top.next > MemberCount(Top.message)
        /\ root' = root /\ opts' = opts /\ stack' = Front(stack)
        /\ status' = IF Len(stack) = 1 THEN "done" ELSE status
        /\ ~ Top.embedded => bufs' = Written(<<Token("}")>>)
        /\ Top.embedded =>
             LET outer == Front(bufs)
             IN  bufs' = [outer EXCEPT ![Len(outer)] =
                            @ \o Stripped(Append(Last(bufs), Token("}"))) \o <<Token("}")>>]
    BY <1>7 DEF EndObject, InObject
  <2>2. /\ Top.kind = "object" /\ Close(Top) = "}" /\ Count(Top) = MemberCount(Top.message)
        /\ Embedded(Top) <=> Top.embedded
    BY <2>1 DEF In, Close, Count, Embedded
  <2>3. /\ opts \in OptionSet /\ status = "writing" /\ Going(bufs, stack, opts, root)
        /\ Top = Last(stack) /\ Top.next > Count(Top)
    BY <1>1, <1>4, <2>1, <2>2
  <2>4. CASE Len(stack) = 1
    <3>1. ~ Embedded(Top) /\ Onto(bufs, <<Token("}")>>) = <<Text(root, opts)>> /\ Encodable(root)
      BY <2>2, <2>3, <2>4, GoingOut
    <3>2. bufs' = <<Text(root, opts)>> BY <1>3, <2>1, <2>2, <3>1
    <3> QED BY <1>2, <2>1, <2>4, <3>1, <3>2
  <2>5. CASE Len(stack) # 1
    <3>1. /\ ~ Embedded(Top) => Going(Onto(bufs, <<Token("}")>>), Front(stack), opts, root)
          /\ Embedded(Top) =>
               LET outer == Front(bufs)
               IN  Going([outer EXCEPT ![Len(outer)] =
                            @ \o Stripped(Append(Last(bufs), Token("}"))) \o <<Token("}")>>],
                         Front(stack), opts, root)
      BY <2>2, <2>3, <2>5, GoingBack
    <3>2. Going(bufs', stack', opts, root) BY <1>3, <2>1, <2>2, <3>1
    <3> QED BY <1>2, <2>1, <2>3, <2>5, <3>2
  <2> QED BY <2>4, <2>5
<1>8. CASE WriteItem
  <2> DEFINE v == Top.items[Top.next]
             before == Comma(Top.next > 1)
             h == [Top EXCEPT !.next = @ + 1]
  <2>1. In("list") /\ Top.next <= Len(Top.items)
        /\ root' = root /\ opts' = opts /\ WriteValue(v, "message", before, h)
    BY <1>8 DEF WriteItem
  <2>2. Top.kind = "list" BY <2>1 DEF In
  <2>3. Advances(Top, v, "message", before, h, opts)
    <3>1. opts \in OptionSet /\ FrameOK(Top) BY <1>1, <1>4, <2>1
    <3> QED BY <2>1, <2>2, <3>1, ItemAdvances
  <2>4. opts \in OptionSet /\ status = "writing" /\ Going(bufs, stack, opts, root)
    BY <1>1, <1>4, <2>1
  <2> HIDE DEF v, before, h
  <2>5. \/ status' = "writing" /\ Going(bufs', stack', opts, root)
        \/ status' = "failed" /\ ~ Encodable(root)
    BY <2>1, <2>3, <2>4, ValueGoes
  <2> QED BY <1>2, <2>1, <2>5
<1>9. CASE WriteEntry
  <2> DEFINE k == Top.keys[Top.next]
             v == Top.entries[k]
             before == Comma(Top.next > 1) \o <<<<"entry", k>>>>
             h == [Top EXCEPT !.next = @ + 1]
  <2>1. In("map") /\ Top.next <= Len(Top.keys)
        /\ root' = root /\ opts' = opts /\ WriteValue(v, "message", before, h)
    BY <1>9 DEF WriteEntry
  <2>2. Top.kind = "map" BY <2>1 DEF In
  <2>3. Advances(Top, v, "message", before, h, opts)
    <3>1. opts \in OptionSet /\ FrameOK(Top) BY <1>1, <1>4, <2>1
    <3> QED BY <2>1, <2>2, <3>1, EntryAdvances
  <2>4. opts \in OptionSet /\ status = "writing" /\ Going(bufs, stack, opts, root)
    BY <1>1, <1>4, <2>1
  <2> HIDE DEF k, v, before, h
  <2>5. \/ status' = "writing" /\ Going(bufs', stack', opts, root)
        \/ status' = "failed" /\ ~ Encodable(root)
    BY <2>1, <2>3, <2>4, ValueGoes
  <2> QED BY <1>2, <2>1, <2>5
<1>10. ASSUME In("list") \/ In("map"), Top.next > Count(Top),
              bufs' = Written(<<Token(Close(Top))>>), stack' = Front(stack),
              root' = root, opts' = opts, status' = status
       PROVE  EncodeInv'
  <2>1. /\ opts \in OptionSet /\ status = "writing" /\ Going(bufs, stack, opts, root)
        /\ Top = Last(stack)
    BY <1>1, <1>4, <1>10
  <2>2. Top.kind # "object" BY <1>10 DEF In
  <2>3. Len(stack) # 1 BY <1>10, <2>1, <2>2, GoingOut
  <2>4. ~ Embedded(Top) BY <2>2 DEF Embedded
  <2>5. Going(Onto(bufs, <<Token(Close(Top))>>), Front(stack), opts, root)
    BY <1>10, <2>1, <2>3, <2>4, GoingBack
  <2> QED BY <1>2, <1>3, <1>10, <2>1, <2>5
<1>11. CASE EndList
  <2>1. In("list") /\ Top.kind = "list" BY <1>11 DEF EndList, In
  <2>2. Close(Top) = "]" /\ Count(Top) = Len(Top.items) BY <2>1 DEF Close, Count
  <2> QED BY <1>10, <1>11, <2>1, <2>2 DEF EndList
<1>12. CASE EndMap
  <2>1. In("map") /\ Top.kind = "map" BY <1>12 DEF EndMap, In
  <2>2. Close(Top) = "}" /\ Count(Top) = Len(Top.keys) BY <2>1 DEF Close, Count
  <2> QED BY <1>10, <1>12, <2>1, <2>2 DEF EndMap
<1>13. CASE UNCHANGED vars BY <1>13 DEF vars, EncodeInv
<1> QED BY <1>5, <1>6, <1>7, <1>8, <1>9, <1>11, <1>12, <1>13 DEF Next

\* The encoder of marshal.go writes what the mapping says, for every message
\* type, message and options: marshalTo with its lists, maps, nested messages
\* and the second buffer of an Any leaves the text Text gives, with the commas
\* where they belong whatever members are left out.
THEOREM EncoderWritesText == Spec => []OutputIsText
<1>1. EncodeInv => OutputIsText BY DEF EncodeInv, OutputIsText
<1> QED BY <1>1, EncodeInit, EncodeNext, PTL DEF Spec

\* An encode fails exactly where a part of the message that is written has no
\* JSON form: an error of validateTimestamp or of an Any that does not resolve
\* comes out however deep it is, and nothing else fails.
THEOREM EncoderFailsOnlyOnInvalid == Spec => []FailsOnlyOnInvalid
<1>1. EncodeInv => FailsOnlyOnInvalid BY DEF EncodeInv, FailsOnlyOnInvalid
<1> QED BY <1>1, EncodeInit, EncodeNext, PTL DEF Spec
-----------------------------------------------------------------------------
(* The round trip: the decoder *)

\* TableUnmarshal with its theorems.
Reader == INSTANCE TableUnmarshalProofs WITH
  Exts <- {}, ExtTargets <- {<<>>},
  Keys <- UNION {{Schema[f].json, Schema[f].proto} : f \in DOMAIN Schema},
  Inputs <- {"null", "default", "value"},
  MaxDoc <- Len(Schema)

\* It is the Decoder of RoundTrip: the marks,
LEMMA SameMarks ==
  /\ Decoder!Fields = Reader!Fields
  /\ Decoder!Wide <=> Reader!Wide
  /\ Decoder!AllSeen = Reader!AllSeen
  /\ \A f : /\ Decoder!Kind(f) = Reader!Kind(f) /\ Decoder!OneofOf(f) = Reader!OneofOf(f)
            /\ Decoder!Bit(f) = Reader!Bit(f) /\ Decoder!FieldMark(f) = Reader!FieldMark(f)
            /\ Decoder!OneofMark(f) = Reader!OneofMark(f)
<1>1. Decoder!Fields = Reader!Fields BY DEF Decoder!Fields, Reader!Fields
<1>2. Decoder!Wide <=> Reader!Wide BY DEF Decoder!Wide, Reader!Wide
<1>3. \A f : Decoder!Kind(f) = Reader!Kind(f) BY DEF Decoder!Kind, Reader!Kind
<1>4. \A f : Decoder!OneofOf(f) = Reader!OneofOf(f) BY DEF Decoder!OneofOf, Reader!OneofOf
<1>5. \A f : Decoder!Bit(f) = Reader!Bit(f) BY DEF Decoder!Bit, Reader!Bit
<1>6. Decoder!AllSeen = Reader!AllSeen BY <1>1 DEF Decoder!AllSeen, Reader!AllSeen
<1>7. \A f : Decoder!FieldMark(f) = Reader!FieldMark(f)
  BY <1>2, <1>5 DEF Decoder!FieldMark, Reader!FieldMark
<1>8. \A S : Decoder!Cardinality(S) = Reader!Cardinality(S)
  BY DEF Decoder!Cardinality, Reader!Cardinality
<1>9. Decoder!OneofCount = Reader!OneofCount
  BY <1>1, <1>4, <1>8 DEF Decoder!OneofCount, Reader!OneofCount
<1>10. \A f : Decoder!OneofMark(f) = Reader!OneofMark(f)
  BY <1>5, <1>9 DEF Decoder!OneofMark, Reader!OneofMark
<1> QED BY <1>1, <1>2, <1>3, <1>4, <1>5, <1>6, <1>7, <1>10

\* the keys,
LEMMA SameKeys ==
  /\ \A key : Decoder!Hinted(key) = Reader!Hinted(key)
  /\ \A key : Decoder!Instruction(key) = Reader!Instruction(key)
<1> USE SameMarks
<1>1. \A f : Decoder!Names(f) = Reader!Names(f) BY DEF Decoder!Names, Reader!Names
<1>2. \A key : Decoder!Hinted(key) = Reader!Hinted(key)
  BY <1>1 DEF Decoder!Hinted, Reader!Hinted
<1>3. Decoder!FieldMap = Reader!FieldMap BY <1>1 DEF Decoder!FieldMap, Reader!FieldMap
<1>4. \A key : Decoder!Instruction(key) = Reader!Instruction(key)
  BY <1>2, <1>3 DEF Decoder!Instruction, Reader!Instruction
<1> QED BY <1>2, <1>4

\* the values it stores,
LEMMA SameStores ==
  /\ \A f : Decoder!StoreNull(f) = Reader!StoreNull(f)
  /\ \A f, token : Decoder!StoreValue(f, token) = Reader!StoreValue(f, token)
  /\ \A f : Decoder!StoreDiscarded(f) = Reader!StoreDiscarded(f)
  /\ \A f : Decoder!StoreBroken(f) = Reader!StoreBroken(f)
  /\ \A f, token : Decoder!OneofTaken(f, token) = Reader!OneofTaken(f, token)
  /\ \A f, token : Decoder!TakesOneof(f, token) = Reader!TakesOneof(f, token)
  /\ Decoder!ClearMissing = Reader!ClearMissing
  /\ Decoder!IsZero = Reader!IsZero
  /\ Decoder!EnumKinds = Reader!EnumKinds
<1> USE SameMarks
<1>1. /\ Decoder!EnumKinds = Reader!EnumKinds /\ Decoder!MemberKinds = Reader!MemberKinds
      /\ Decoder!NullIsValue = Reader!NullIsValue
  BY DEF Decoder!EnumKinds, Reader!EnumKinds, Decoder!MemberKinds, Reader!MemberKinds,
         Decoder!NullIsValue, Reader!NullIsValue
<1>2. Decoder!PresenceKinds = Reader!PresenceKinds
  BY <1>1 DEF Decoder!PresenceKinds, Reader!PresenceKinds
<1>3. \A f, token : Decoder!Denotes(f, token) = Reader!Denotes(f, token)
  BY <1>1, <1>2 DEF Decoder!Denotes, Reader!Denotes
<1>4. \A f, v : Decoder!With(f, v) = Reader!With(f, v) BY DEF Decoder!With, Reader!With
<1>5. \A f : Decoder!Cleared(f) = Reader!Cleared(f) BY DEF Decoder!Cleared, Reader!Cleared
<1>6. \A f : Decoder!StoreNull(f) = Reader!StoreNull(f)
  BY <1>1, <1>4, <1>5 DEF Decoder!StoreNull, Reader!StoreNull
<1>7. \A f, token : Decoder!StoreValue(f, token) = Reader!StoreValue(f, token)
  BY <1>3, <1>4 DEF Decoder!StoreValue, Reader!StoreValue
<1>8. \A f : Decoder!StoreDiscarded(f) = Reader!StoreDiscarded(f)
  BY <1>5 DEF Decoder!StoreDiscarded, Reader!StoreDiscarded
<1>9. \A f : Decoder!StoreBroken(f) = Reader!StoreBroken(f)
  BY <1>4, <1>5 DEF Decoder!StoreBroken, Reader!StoreBroken
<1>10. \A f, token : Decoder!TakesOneof(f, token) = Reader!TakesOneof(f, token)
  BY <1>1 DEF Decoder!TakesOneof, Reader!TakesOneof
<1>11. \A f, token : Decoder!OneofTaken(f, token) = Reader!OneofTaken(f, token)
  BY <1>10 DEF Decoder!OneofTaken, Reader!OneofTaken
<1>12. Decoder!ClearMissing = Reader!ClearMissing
  BY DEF Decoder!ClearMissing, Reader!ClearMissing
<1>13. Decoder!IsZero = Reader!IsZero BY DEF Decoder!IsZero, Reader!IsZero
<1> QED BY <1>1, <1>6, <1>7, <1>8, <1>9, <1>10, <1>11, <1>12, <1>13

\* and the steps.
LEMMA SameSteps ==
  /\ Decoder!Init => Reader!Init
  /\ Decoder!Begin => Reader!Begin
  /\ \A key, token : Decoder!ReadField(key, token) => Reader!ReadField(key, token)
  /\ \A key, token : Decoder!RejectField(key, token) => Reader!RejectField(key, token)
  /\ \A key, token : Decoder!ReadUnknown(key, token) => Reader!ReadUnknown(key, token)
  /\ Decoder!EndObject => Reader!EndObject
<1> USE SameMarks, SameKeys, SameStores
    DEF Decoder!options, Reader!options, Decoder!Read, Reader!Read
<1>1. Decoder!Init => Reader!Init BY DEF Decoder!Init, Reader!Init
<1>2. Decoder!Begin => Reader!Begin BY DEF Decoder!Begin, Reader!Begin
<1>3. ASSUME NEW key, NEW token
      PROVE  Decoder!ReadField(key, token) => Reader!ReadField(key, token)
  BY DEF Decoder!ReadField, Reader!ReadField
<1>4. ASSUME NEW key, NEW token
      PROVE  Decoder!RejectField(key, token) => Reader!RejectField(key, token)
  BY DEF Decoder!RejectField, Reader!RejectField
<1>5. ASSUME NEW key, NEW token
      PROVE  Decoder!ReadUnknown(key, token) => Reader!ReadUnknown(key, token)
  BY DEF Decoder!ReadUnknown, Reader!ReadUnknown
<1>6. Decoder!EndObject => Reader!EndObject BY DEF Decoder!EndObject, Reader!EndObject
<1> QED BY <1>1, <1>2, <1>3, <1>4, <1>5, <1>6
-----------------------------------------------------------------------------
(* The round trip: the members of a text *)

\* A text of a member with one token.
PairTokens(t) == \E a, b \in Tokens : t = <<a, b>>

\* The texts ts from the i-th on that are not empty are the ones at at[1] ..
\* at[n]; text t has their tokens.
Rows(ts, i, t, n, at) ==
  /\ n \in Nat /\ at \in [1 .. n -> i .. Len(ts)]
  /\ \A j, k \in 1 .. n : j < k => at[j] < at[k]
  /\ \A k \in i .. Len(ts) : ts[k] # <<>> <=> \E j \in 1 .. n : at[j] = k
  /\ Len(t) = IF n = 0 THEN 0 ELSE 3 * n - 1
  /\ \A j \in 1 .. n : t[3 * j - 2] = ts[at[j]][1] /\ t[3 * j - 1] = ts[at[j]][2]

\* One more text in front, which is empty.
LEMMA RowsSkip ==
  ASSUME NEW ts \in Seq(Texts), NEW i \in 1 .. Len(ts), ts[i] = <<>>,
         NEW t \in Texts, NEW n, NEW at, Rows(ts, i + 1, t, n, at)
  PROVE  Rows(ts, i, t, n, at)
<1> DEFINE l == Len(ts)
<1>1. l \in Nat BY LenProperties
<1>2. /\ n \in Nat /\ at \in [1 .. n -> i + 1 .. l]
      /\ \A k \in i + 1 .. l : ts[k] # <<>> <=> \E j \in 1 .. n : at[j] = k
  BY DEF Rows
<1> HIDE DEF l
<1>3. at \in [1 .. n -> i .. l] BY <1>1, <1>2
<1>4. ASSUME NEW k \in i .. l
      PROVE  ts[k] # <<>> <=> \E j \in 1 .. n : at[j] = k
  <2>1. CASE k = i
    <3>1. \A j \in 1 .. n : at[j] # i BY <1>1, <1>2
    <3> QED BY <2>1, <3>1
  <2>2. CASE k # i
    <3>1. k \in i + 1 .. l BY <1>1, <2>2
    <3> QED BY <1>2, <3>1
  <2> QED BY <2>1, <2>2
<1> QED BY <1>3, <1>4 DEF Rows, l

\* One more text in front, with two tokens.
LEMMA RowsAdd ==
  ASSUME NEW ts \in Seq(Texts), NEW i \in 1 .. Len(ts), PairTokens(ts[i]),
         NEW t \in Texts, NEW n, NEW at, Rows(ts, i + 1, t, n, at)
  PROVE  Rows(ts, i, ts[i] \o Continued(t), n + 1,
              [j \in 1 .. n + 1 |-> IF j = 1 THEN i ELSE at[j - 1]])
<1> DEFINE l == Len(ts)
           c == Continued(t)
           u == ts[i] \o c
           on == [j \in 1 .. n + 1 |-> IF j = 1 THEN i ELSE at[j - 1]]
<1>1. l \in Nat BY LenProperties
<1>2. /\ n \in Nat /\ at \in [1 .. n -> i + 1 .. l]
      /\ \A j, k \in 1 .. n : j < k => at[j] < at[k]
      /\ \A k \in i + 1 .. l : ts[k] # <<>> <=> \E j \in 1 .. n : at[j] = k
      /\ Len(t) = IF n = 0 THEN 0 ELSE 3 * n - 1
      /\ \A j \in 1 .. n : t[3 * j - 2] = ts[at[j]][1] /\ t[3 * j - 1] = ts[at[j]][2]
  BY DEF Rows
<1>3. PICK a \in Tokens, b \in Tokens : ts[i] = <<a, b>> BY DEF PairTokens
<1>4. ts[i] \in Seq(Tokens) /\ Len(ts[i]) = 2 /\ ts[i][1] = a /\ ts[i][2] = b /\ ts[i] # <<>>
  <2>1. <<a, b>> \in Seq(Tokens) /\ Len(<<a, b>>) = 2 /\ <<a, b>>[1] = a /\ <<a, b>>[2] = b
    OBVIOUS
  <2>2. <<a, b>> # <<>> BY PairText
  <2> QED BY <1>3, <2>1, <2>2
<1>5. c \in Texts BY ContinuedType
<1>6. /\ Len(c) = IF n = 0 THEN 0 ELSE 3 * n
      /\ \A q \in 1 .. Len(t) : c[1 + q] = t[q]
  <2>1. CASE n = 0
    <3>1. t = <<>> /\ Len(t) = 0 BY <1>2, <2>1, EmptySeq DEF Texts
    <3>2. c = <<>> BY <3>1 DEF Continued
    <3> QED BY <2>1, <3>1, <3>2
  <2>2. CASE n # 0
    <3>1. t # <<>> BY <1>2, <2>2, EmptySeq
    <3>2. c = <<Token(",")>> \o t BY <3>1 DEF Continued
    <3>3. <<Token(",")>> \in Texts
      <4>1. "," \in Words BY Zenon DEF Words, Fixed
      <4> QED BY <4>1, TokenText, TokenTypes
    <3>4. Len(<<Token(",")>>) = 1 OBVIOUS
    <3> DEFINE s == <<Token(",")>>
    <3>5. s \in Seq(Tokens) /\ t \in Seq(Tokens) /\ Len(s) = 1 BY <3>3, <3>4 DEF Texts
    <3>6. c = s \o t BY <3>2
    <3> HIDE DEF s, c
    <3>7. /\ Len(s \o t) = Len(s) + Len(t)
          /\ \A q \in 1 .. Len(t) : (s \o t)[Len(s) + q] = t[q]
      <4>1. s \in Seq(Tokens) /\ t \in Seq(Tokens) BY <3>5
      <4> QED BY <4>1, ConcatIs
    <3>8. Len(c) = 1 + (3 * n - 1) BY <1>2, <2>2, <3>5, <3>6, <3>7
    <3> QED BY <1>2, <2>2, <3>5, <3>6, <3>7, <3>8
  <2> QED BY <2>1, <2>2
<1>7. /\ Len(u) = 2 + Len(c)
      /\ u[1] = a /\ u[2] = b
      /\ \A q \in 1 .. Len(c) : u[2 + q] = c[q]
  <2> DEFINE s == ts[i]
  <2>1. s \in Seq(Tokens) /\ c \in Seq(Tokens) BY <1>4, <1>5 DEF Texts
  <2> HIDE DEF s, c
  <2>2. /\ Len(s \o c) = Len(s) + Len(c)
        /\ \A q \in 1 .. Len(s) : (s \o c)[q] = s[q]
        /\ \A q \in 1 .. Len(c) : (s \o c)[Len(s) + q] = c[q]
    BY <2>1, ConcatIs
  <2>3. Len(s) = 2 /\ s[1] = a /\ s[2] = b BY <1>4 DEF s
  <2>4. u = s \o c BY DEF s
  <2> HIDE DEF u
  <2> QED BY <2>2, <2>3, <2>4
<1> HIDE DEF l, c, u
<1>8. n + 1 \in Nat /\ Len(u) = IF n + 1 = 0 THEN 0 ELSE 3 * (n + 1) - 1 BY <1>2, <1>6, <1>7
<1>9. on \in [1 .. n + 1 -> i .. l]
  <2>1. ASSUME NEW j \in 1 .. n + 1, j # 1 PROVE at[j - 1] \in i .. l
    <3>1. j - 1 \in 1 .. n BY <1>2, <2>1
    <3> QED BY <1>1, <1>2, <3>1
  <2>2. i \in i .. l BY <1>1 DEF l
  <2> QED BY <2>1, <2>2
<1>10. on[1] = i /\ \A j \in 1 .. n : on[j + 1] = at[j]
  <2>1. 1 \in 1 .. n + 1 /\ \A j \in 1 .. n : j + 1 \in 1 .. n + 1 /\ j + 1 # 1 /\ (j + 1) - 1 = j
    BY <1>2
  <2> QED BY <2>1
<1>11. \A j \in 1 .. n + 1 : j = 1 \/ (j - 1 \in 1 .. n /\ on[j] = at[j - 1]) BY <1>2
<1> HIDE DEF on
<1>12. ASSUME NEW j \in 1 .. n + 1, NEW k \in 1 .. n + 1, j < k
       PROVE  on[j] < on[k]
  <2>1. k # 1 /\ k - 1 \in 1 .. n /\ on[k] = at[k - 1] BY <1>2, <1>11, <1>12
  <2>2. CASE j = 1 BY <1>1, <1>2, <1>10, <2>1, <2>2
  <2>3. CASE j # 1
    <3>1. j - 1 \in 1 .. n /\ on[j] = at[j - 1] /\ j - 1 < k - 1 BY <1>2, <1>11, <1>12, <2>3
    <3> QED BY <1>2, <2>1, <3>1
  <2> QED BY <2>2, <2>3
<1>13. ASSUME NEW k \in i .. l
       PROVE  ts[k] # <<>> <=> \E j \in 1 .. n + 1 : on[j] = k
  <2>1. 1 \in 1 .. n + 1 BY <1>2
  <2>2. CASE k = i BY <1>4, <1>10, <2>1, <2>2
  <2>3. CASE k # i
    <3>1. k \in i + 1 .. l BY <1>1, <2>3
    <3>2. (\E j \in 1 .. n : at[j] = k) => \E j \in 1 .. n + 1 : on[j] = k
      <4>1. \A j \in 1 .. n : j + 1 \in 1 .. n + 1 BY <1>2
      <4> QED BY <1>10, <4>1
    <3>3. (\E j \in 1 .. n + 1 : on[j] = k) => \E j \in 1 .. n : at[j] = k
      BY <1>10, <1>11, <2>3
    <3> QED BY <1>2, <3>1, <3>2, <3>3
  <2> QED BY <2>2, <2>3
<1>14. ASSUME NEW j \in 1 .. n + 1
       PROVE  u[3 * j - 2] = ts[on[j]][1] /\ u[3 * j - 1] = ts[on[j]][2]
  <2>1. CASE j = 1
    <3>1. 3 * j - 2 = 1 /\ 3 * j - 1 = 2 BY <2>1
    <3> QED BY <1>4, <1>7, <1>10, <2>1, <3>1
  <2>2. CASE j # 1
    <3>1. j - 1 \in 1 .. n /\ on[j] = at[j - 1] BY <1>11, <2>2
    <3> DEFINE q == 3 * (j - 1) - 2
               r == 3 * (j - 1) - 1
    <3>2. t[q] = ts[on[j]][1] /\ t[r] = ts[on[j]][2] BY <1>2, <3>1
    <3>3. /\ q \in 1 .. Len(t) /\ 1 + q \in 1 .. Len(c) /\ 3 * j - 2 = 2 + (1 + q)
          /\ r \in 1 .. Len(t) /\ 1 + r \in 1 .. Len(c) /\ 3 * j - 1 = 2 + (1 + r)
      <4>1. n \in Nat /\ j \in 2 .. n + 1 /\ Len(t) = 3 * n - 1 /\ Len(c) = 3 * n
        BY <1>2, <1>6, <2>2
      <4> QED BY <4>1
    <3> HIDE DEF q, r
    <3>4. u[2 + (1 + q)] = t[q] /\ u[2 + (1 + r)] = t[r] BY <1>6, <1>7, <3>3
    <3> QED BY <3>2, <3>3, <3>4
  <2> QED BY <2>1, <2>2
<1> QED BY <1>8, <1>9, <1>12, <1>13, <1>14 DEF Rows, l, u, c, on

\* Joined texts have their tokens where the members are looked for.
LEMMA JoinedRows ==
  ASSUME NEW ts \in Seq(Texts), \A i \in 1 .. Len(ts) : ts[i] = <<>> \/ PairTokens(ts[i])
  PROVE  \E n, at : Rows(ts, 1, Joined(ts), n, at)
<1> DEFINE l == Len(ts)
           J == JoinedFrom(ts)
           T == {k \in Nat : k <= l /\ ~ \E n, at : Rows(ts, l + 1 - k, J[l + 1 - k], n, at)}
<1>1. /\ l \in Nat /\ J \in [1 .. l + 1 -> Texts] /\ J[l + 1] = <<>>
      /\ \A i \in 1 .. l : J[i] = IF ts[i] = <<>> THEN J[i + 1] ELSE ts[i] \o Continued(J[i + 1])
  BY JoinedIs, LenProperties
<1> SUFFICES T = {}
  <2> SUFFICES ASSUME T = {} PROVE \E n, at : Rows(ts, 1, J[1], n, at) BY DEF Joined
  <2> HIDE DEF l, J
  <2>1. l \in Nat /\ l <= l /\ l + 1 - l = 1 BY <1>1
  <2> QED BY <2>1
<1> SUFFICES ASSUME T # {} PROVE FALSE OBVIOUS
<1>2. PICK k \in T : \A y \in T : k <= y
  <2>1. T \in SUBSET Nat OBVIOUS
  <2> HIDE DEF T
  <2> QED BY <2>1, Least
<1> DEFINE i == l + 1 - k
<1>3. k \in Nat /\ k <= l /\ ~ \E n, at : Rows(ts, i, J[i], n, at) OBVIOUS
<1> HIDE DEF l, J
<1>4. CASE k = 0
  <2>1. i = l + 1 BY <1>1, <1>4
  <2>2. Rows(ts, l + 1, <<>>, 0, [j \in 1 .. 0 |-> l + 1])
    <3>1. l + 1 .. l = {} /\ 1 .. 0 = {} BY <1>1
    <3>2. Len(<<>>) = 0 OBVIOUS
    <3> QED BY <3>1, <3>2 DEF Rows, l
  <2> HIDE DEF i
  <2> QED BY <1>1, <1>3, <2>1, <2>2
<1>5. CASE k # 0
  <2>1. /\ k - 1 \in Nat /\ k - 1 <= l /\ ~ (k <= k - 1)
        /\ i \in 1 .. l /\ l + 1 - (k - 1) = i + 1 /\ i + 1 \in 1 .. l + 1
    BY <1>1, <1>3, <1>5
  <2>2. PICK n, at : Rows(ts, i + 1, J[i + 1], n, at)
    <3>1. k - 1 \notin T BY <1>2, <2>1
    <3> QED BY <2>1, <3>1
  <2> HIDE DEF i, T
  <2>3. J[i + 1] \in Texts BY <1>1, <2>1
  <2>4. CASE ts[i] = <<>>
    <3>1. Rows(ts, i, J[i + 1], n, at) BY <2>1, <2>2, <2>3, <2>4, RowsSkip DEF l
    <3> QED BY <1>1, <1>3, <2>1, <2>4, <3>1
  <2>5. CASE ts[i] # <<>>
    <3>1. PairTokens(ts[i]) BY <2>1, <2>5 DEF l
    <3>2. \E m, on : Rows(ts, i, ts[i] \o Continued(J[i + 1]), m, on)
      BY <2>1, <2>2, <2>3, <3>1, RowsAdd DEF l
    <3> QED BY <1>1, <1>3, <2>1, <2>5, <3>2
  <2> QED BY <2>4, <2>5
<1> QED BY <1>4, <1>5
-----------------------------------------------------------------------------
(* The round trip: what is sent of a flat message *)

FlatKinds == {"plain", "enum", "pointer", "pointerEnum", "bytes", "value",
              "member", "memberEnum", "memberNull"}

\* The schema of the decoder.
LEMMA SchemaIs ==
  /\ Len(Schema) \in Nat /\ DOMAIN Schema = 1 .. Len(Schema)
  /\ \A f \in DOMAIN Schema :
       /\ Kind(f) \in FlatKinds /\ Schema[f].json \in STRING /\ Schema[f].proto \in STRING
       /\ Schema[f].oneof = 0 <=> Kind(f) \notin {"member", "memberEnum", "memberNull"}
<1> DEFINE R == [json : STRING, proto : STRING, kind : Decoder!Kinds, oneof : Nat]
<1>1. /\ Schema \in Seq(R)
      /\ \A f \in Decoder!Fields :
           Decoder!OneofOf(f) = 0 <=> Decoder!Kind(f) \notin Decoder!MemberKinds
  BY DecoderAssumption DEF Decoder!SchemaAssumption
<1> HIDE DEF R
<1>2. Len(Schema) \in Nat /\ DOMAIN Schema = 1 .. Len(Schema) BY <1>1, LenProperties
<1>3. \A f \in DOMAIN Schema : Schema[f] \in R BY <1>1, <1>2, ElementOfSeq
<1>4. \A f \in DOMAIN Schema :
        /\ Kind(f) \in Decoder!Kinds \ {"message", "list"}
        /\ Schema[f].json \in STRING /\ Schema[f].proto \in STRING
  BY <1>3, ReadBackAssumption DEF R, Kind
<1>5. Decoder!Kinds \ {"message", "list"} \subseteq FlatKinds
  BY DEF Decoder!Kinds, Decoder!PresenceKinds, Decoder!MemberKinds, FlatKinds
<1>6. \A f \in DOMAIN Schema :
        Schema[f].oneof = 0 <=> Kind(f) \notin {"member", "memberEnum", "memberNull"}
  BY <1>1 DEF Decoder!Fields, Decoder!OneofOf, Decoder!Kind, Decoder!MemberKinds, Kind
<1> QED BY <1>2, <1>4, <1>5, <1>6

\* A message that is read back.
LEMMA ReadBackIs ==
  ASSUME NEW r \in Roots, r.type \in ReadBack
  PROVE  /\ r \in Values /\ r.is = "message" /\ MessageOver(r, Values)
         /\ Flat(r) /\ Types[r.type] = FlatType
         /\ Len(r.fields) = Len(Schema)
         /\ \A f \in DOMAIN Schema :
              /\ r.fields[f] \in Values
              /\ r.fields[f].is \in LeavesOf(Kind(f)) /\ r.fields[f].is \in Leaves
<1>1. r \in Values /\ r.is = "message" BY RootsAssumption
<1>2. MessageOver(r, Values) BY <1>1, ValueIs
<1>3. Flat(r) /\ Types[r.type] = FlatType BY ReadBackAssumption
<1>4. Len(r.fields) = Len(Types[r.type]) /\ r.fields \in Seq(Values)
  BY <1>2 DEF MessageOver, WellTyped
<1>5. Len(FlatType) = Len(Schema) BY SchemaIs DEF FlatType
<1>6. ASSUME NEW f \in DOMAIN Schema
      PROVE  /\ r.fields[f] \in Values
             /\ r.fields[f].is \in LeavesOf(Kind(f)) /\ r.fields[f].is \in Leaves
  <2>1. f \in 1 .. Len(r.fields) BY <1>3, <1>4, <1>5, SchemaIs
  <2>2. r.fields[f] \in Values BY <1>4, <2>1, ElementOfSeq
  <2>3. r.fields[f].is \in LeavesOf(Kind(f)) BY <1>3 DEF Flat
  <2>4. LeavesOf(Kind(f)) \subseteq Leaves BY DEF LeavesOf, Leaves
  <2> QED BY <2>2, <2>3, <2>4
<1> QED BY <1>1, <1>2, <1>3, <1>4, <1>5, <1>6

\* Which fields of message m the encoder writes, and as what.
Sends(m, f, o) ==
  LET is == m.fields[f].is
  IN  CASE Kind(f) \in {"plain", "enum"} -> is # "zero" \/ o.EmitUnpopulated
        [] Kind(f) = "value" -> is # "nil" \/ o.EmitUnpopulated
        [] OTHER -> is # "nil"
SentAs(m, f) == IF m.fields[f].is = "nil" THEN "null" ELSE m.fields[f].is
SentKey(f, o) == NameOf(Schema[f], o)

\* Keys and values are words.
LEMMA SentWords ==
  ASSUME NEW r \in Roots, r.type \in ReadBack, NEW f \in DOMAIN Schema, NEW o \in OptionSet
  PROVE  /\ SentKey(f, o) \in Words /\ SentAs(r, f) \in Words
         /\ NameOf(FlatType[f], o) = SentKey(f, o)
         /\ Key(SentKey(f, o)) \in Tokens /\ Value(SentAs(r, f)) \in Tokens
<1>1. SentKey(f, o) \in STRING BY SchemaIs DEF SentKey, NameOf, OptionSet
<1>2. SentKey(f, o) \in Words BY <1>1, Zenon DEF Words
<1>3. SentAs(r, f) \in Leaves
  <2>1. "null" \in Leaves BY DEF Leaves
  <2> QED BY <2>1, ReadBackIs DEF SentAs
<1>4. SentAs(r, f) \in Words BY <1>3, Zenon DEF Words, Fixed
<1>5. NameOf(FlatType[f], o) = SentKey(f, o) BY DEF FlatType, Field, SentKey, NameOf
<1> QED BY <1>2, <1>4, <1>5, TokenTypes

\* The text of a field.
LEMMA FlatMember ==
  ASSUME NEW r \in Roots, r.type \in ReadBack, NEW f \in DOMAIN Schema, NEW o \in OptionSet
  PROVE  Member(FlatType[f], r.fields[f], o, TextsOf(o)) =
           IF Sends(r, f, o) THEN <<Key(SentKey(f, o)), Value(SentAs(r, f))>> ELSE <<>>
<1> DEFINE v == r.fields[f]
           k == Kind(f)
           shape == ShapeOf(k)
           T == TextsOf(o)
           key == <<Key(SentKey(f, o))>>
<1>1. v \in Values /\ v.is \in LeavesOf(k) /\ v.is \in Leaves /\ k \in FlatKinds
  BY ReadBackIs, SchemaIs
<1>2. T[v] = <<Value(v.is)>> BY <1>1, TextIs, TextOf
<1>3. FlatType[f].shape = shape /\ NameOf(FlatType[f], o) = SentKey(f, o)
  BY SentWords DEF FlatType, Field
<1>4. key \o <<Value(SentAs(r, f))>> = <<Key(SentKey(f, o)), Value(SentAs(r, f))>>
  BY SentWords, Pair
<1>5. Populated(shape, v) <=>
        IF k \in {"plain", "enum"} THEN v.is # "zero" ELSE v.is # "nil"
  <2>1. CASE k \in {"plain", "enum"}
    <3>1. shape = "scalar" /\ v.is \in {"zero", "set"} BY <1>1, <2>1 DEF ShapeOf, LeavesOf
    <3>2. Empty(v) <=> v.is = "zero" BY <3>1 DEF Empty
    <3> QED BY <2>1, <3>1, <3>2 DEF Populated, Implicit
  <2>2. CASE k \notin {"plain", "enum"}
    <3>1. shape \in {"optional", "message", "oneof"} BY <1>1, <2>2 DEF ShapeOf, FlatKinds
    <3> QED BY <2>2, <3>1 DEF Populated, Implicit
  <2> QED BY <2>1, <2>2
<1>6. shape \notin Explicit <=> k \in {"plain", "enum", "value"}
  BY <1>1 DEF ShapeOf, Explicit, FlatKinds
<1>7. Sends(r, f, o) <=> Populated(shape, v) \/ (o.EmitUnpopulated /\ shape \notin Explicit)
  BY <1>1, <1>5, <1>6 DEF Sends
<1>8. Populated(shape, v) => v.is # "nil"
  BY <1>1, <1>5 DEF LeavesOf
<1>9. ~ Populated(shape, v) /\ shape \notin Explicit =>
        Unset(shape, v, T) = <<Value(SentAs(r, f))>>
  <2>1. CASE k = "value"
    <3>1. shape = "message" BY <2>1 DEF ShapeOf
    <3>2. ~ Populated(shape, v) => v.is = "nil" BY <1>5, <2>1
    <3> QED BY <3>1, <3>2 DEF Unset, SentAs
  <2>2. CASE k \in {"plain", "enum"}
    <3>1. shape = "scalar" /\ v.is \in {"zero", "set"} BY <1>1, <2>2 DEF ShapeOf, LeavesOf
    <3> QED BY <1>2, <3>1 DEF Unset, SentAs
  <2> QED BY <1>6, <2>1, <2>2
<1>10. Populated(shape, v) => T[v] = <<Value(SentAs(r, f))>> BY <1>2, <1>8 DEF SentAs
<1> HIDE DEF v, k, shape, T
<1>11. Member(FlatType[f], v, o, T) =
         CASE Populated(shape, v) -> key \o T[v]
           [] ~ Populated(shape, v) /\ o.EmitUnpopulated /\ shape \notin Explicit ->
                key \o Unset(shape, v, T)
           [] OTHER -> <<>>
  BY <1>3 DEF Member
<1> HIDE DEF key
<1>12. CASE Populated(shape, v) BY <1>4, <1>7, <1>10, <1>11, <1>12 DEF v, T
<1>13. CASE ~ Populated(shape, v) /\ o.EmitUnpopulated /\ shape \notin Explicit
  BY <1>4, <1>7, <1>9, <1>11, <1>13 DEF v, T
<1>14. CASE ~ Populated(shape, v) /\ ~ (o.EmitUnpopulated /\ shape \notin Explicit)
  BY <1>7, <1>11, <1>14 DEF v, T
<1> QED BY <1>12, <1>13, <1>14

\* Its text has the texts of the fields.
LEMMA FlatTexts ==
  ASSUME NEW r \in Roots, r.type \in ReadBack, NEW o \in OptionSet
  PROVE  LET M == Members(r, o, TextsOf(o))
         IN  /\ M \in Seq(Texts) /\ Len(M) = Len(Schema)
             /\ \A f \in DOMAIN Schema :
                  M[f] = IF Sends(r, f, o) THEN <<Key(SentKey(f, o)), Value(SentAs(r, f))>>
                         ELSE <<>>
             /\ Text(r, o) = Enclosed("{", M, "}")
<1> DEFINE M == Members(r, o, TextsOf(o))
           S == Present(r.exts)
<1>1. /\ r \in Values /\ r.is = "message" /\ MessageOver(r, Values) /\ Types[r.type] = FlatType
      /\ Len(r.fields) = Len(Schema) /\ S = {}
  BY ReadBackIs DEF Flat
<1>2. Cardinality(S) = 0 BY <1>1, FS_EmptySet
<1>3. TextsOf(o) \in Writings /\ Text(r, o) = PartsText(r, o, TextsOf(o)) BY <1>1, TextIs
<1>4. Text(r, o) = Enclosed("{", M, "}")
  <2> HIDE DEF M
  <2>1. PartsText(r, o, TextsOf(o)) = Enclosed("{", Members(r, o, TextsOf(o)), "}")
    BY <1>1 DEF PartsText
  <2> QED BY <1>3, <2>1 DEF M
<1>5. /\ M \in Seq(Texts) /\ Len(M) = Len(r.fields) + Cardinality(S)
      /\ \A i \in 1 .. Len(r.fields) :
           M[i] = Member(Types[r.type][i], r.fields[i], o, TextsOf(o))
  <2>1. Values \in SUBSET Values /\ MessageOver(r, Values) /\ TextsOf(o) \in Writings
    BY <1>1, <1>3
  <2> DEFINE numbers == Sorted(S)
             n == Len(r.fields)
             c == Cardinality(S)
  <2>2. /\ n \in Nat /\ c \in Nat /\ M \in Seq(Texts) /\ Len(M) = n + c
        /\ \A i \in 1 .. n : M[i] = Member(Types[r.type][i], r.fields[i], o, TextsOf(o))
        /\ \A i \in 1 .. c :
             /\ numbers[i] \in S /\ r.exts[numbers[i]] \in Values
             /\ M[n + i] = <<<<"ext", numbers[i]>>>> \o TextsOf(o)[r.exts[numbers[i]]]
    BY <2>1, MembersAre, Zenon
  <2> HIDE DEF M, S, numbers
  <2> QED BY <2>2
<1> HIDE DEF M, S
<1>6. Len(M) = Len(Schema) BY <1>1, <1>2, <1>5, SchemaIs
<1>7. \A f \in DOMAIN Schema : M[f] = Member(FlatType[f], r.fields[f], o, TextsOf(o))
  BY <1>1, <1>5, SchemaIs
<1>8. \A f \in DOMAIN Schema :
        M[f] = IF Sends(r, f, o) THEN <<Key(SentKey(f, o)), Value(SentAs(r, f))>> ELSE <<>>
  BY <1>7, FlatMember
<1> QED BY <1>4, <1>5, <1>6, <1>8 DEF M

\* A text between braces.
LEMMA BracedIs ==
  ASSUME NEW J \in Texts
  PROVE  LET text == (<<Token("{")>> \o J) \o <<Token("}")>>
         IN  /\ Len(J) \in Nat /\ Len(text) = Len(J) + 2
             /\ \A i \in 1 .. Len(J) : text[i + 1] = J[i]
<1> DEFINE open == <<Token("{")>>
           close == <<Token("}")>>
           front == open \o J
           text == front \o close
           n == Len(J)
<1>1. "{" \in Words /\ "}" \in Words BY Zenon DEF Words, Fixed
<1>2. open \in Texts /\ close \in Texts /\ Len(open) = 1 /\ Len(close) = 1
  BY <1>1, TokenTypes, TokenText
<1>3. open \in Seq(Tokens) /\ J \in Seq(Tokens) /\ close \in Seq(Tokens) BY <1>2 DEF Texts
<1> HIDE DEF open, close
<1>4. /\ front \in Seq(Tokens) /\ n \in Nat /\ Len(front) = Len(open) + n
      /\ \A i \in 1 .. n : front[Len(open) + i] = J[i]
  <2>1. open \in Seq(Tokens) /\ J \in Seq(Tokens) BY <1>3
  <2> QED BY <2>1, ConcatIs
<1> HIDE DEF front
<1>5. /\ Len(text) = Len(front) + Len(close)
      /\ \A i \in 1 .. Len(front) : text[i] = front[i]
  <2>1. front \in Seq(Tokens) /\ close \in Seq(Tokens) BY <1>3, <1>4
  <2> QED BY <2>1, ConcatIs
<1> HIDE DEF text, n
<1>6. ASSUME NEW i \in 1 .. n PROVE text[i + 1] = J[i]
  <2>1. i + 1 = 1 + i /\ i + 1 \in 1 .. Len(front) BY <1>2, <1>4
  <2>2. front[1 + i] = J[i] BY <1>2, <1>4
  <2> QED BY <1>5, <2>1, <2>2
<1>7. n \in Nat /\ Len(text) = n + 2 BY <1>2, <1>4, <1>5
<1> QED BY <1>6, <1>7 DEF n, text, front, open, close

\* The members the decoder gets: n of them, the j-th for field at[j].
SentRows(n, at) ==
  /\ n \in Nat /\ at \in [1 .. n -> DOMAIN Schema]
  /\ \A j, k \in 1 .. n : at[j] = at[k] => j = k
  /\ \A f \in DOMAIN Schema : Sends(root, f, opts) <=> \E j \in 1 .. n : at[j] = f
  /\ Len(Sent) = n /\ DOMAIN Sent = 1 .. n
  /\ \A j \in 1 .. n : /\ Sent[j].key = SentKey(at[j], opts)
                       /\ Sent[j].token = TokenOf(SentAs(root, at[j]))

\* They are found in the text, one for each field that is sent.
LEMMA SentIs ==
  ASSUME root \in Roots, root.type \in ReadBack, opts \in OptionSet,
         bufs = <<Text(root, opts)>>
  PROVE  \E n, at : SentRows(n, at)
<1> DEFINE M == Members(root, opts, TextsOf(opts))
           J == Joined(M)
           text == bufs[1]
           l == Len(Schema)
           pair(f) == <<Key(SentKey(f, opts)), Value(SentAs(root, f))>>
<1>1. /\ M \in Seq(Texts) /\ Len(M) = l
      /\ \A f \in DOMAIN Schema : M[f] = IF Sends(root, f, opts) THEN pair(f) ELSE <<>>
      /\ bufs[1] = Enclosed("{", M, "}")
  BY FlatTexts
<1>2. l \in Nat /\ DOMAIN Schema = 1 .. l BY SchemaIs
<1>3. \A f \in DOMAIN Schema : Key(SentKey(f, opts)) \in Tokens /\ Value(SentAs(root, f)) \in Tokens
  BY SentWords
<1> HIDE DEF M, l
<1>4. \A f \in DOMAIN Schema : PairTokens(pair(f)) /\ pair(f) # <<>>
  BY <1>3, PairText DEF PairTokens
<1>5. \A f \in 1 .. Len(M) : M[f] = <<>> \/ PairTokens(M[f]) BY <1>1, <1>2, <1>4
<1>6. PICK n, at : Rows(M, 1, J, n, at) BY <1>1, <1>5, JoinedRows
<1>7. /\ n \in Nat /\ at \in [1 .. n -> 1 .. l]
      /\ \A j, k \in 1 .. n : j < k => at[j] < at[k]
      /\ \A k \in 1 .. l : M[k] # <<>> <=> \E j \in 1 .. n : at[j] = k
      /\ Len(J) = IF n = 0 THEN 0 ELSE 3 * n - 1
      /\ \A j \in 1 .. n : J[3 * j - 2] = M[at[j]][1] /\ J[3 * j - 1] = M[at[j]][2]
  BY <1>1, <1>6 DEF Rows
<1>8. J \in Texts /\ text = (<<Token("{")>> \o J) \o <<Token("}")>>
  <2>1. "{" \in Words /\ "}" \in Words BY Zenon DEF Words, Fixed
  <2>2. J \in Texts BY <1>1, <2>1, EnclosedType
  <2> QED BY <1>1, <2>2 DEF Enclosed
<1> HIDE DEF J
<1>9. /\ Len(J) \in Nat /\ Len(text) = Len(J) + 2
      /\ \A i \in 1 .. Len(J) : text[i + 1] = J[i]
  BY <1>8, BracedIs
<1> HIDE DEF text, pair
<1>10. Len(text) \div 3 = n
  <2>1. CASE n = 0 BY <1>7, <1>9, <2>1
  <2>2. CASE n # 0
    <3>1. Len(text) = 3 * n + 1 BY <1>7, <1>9, <2>2
    <3> QED BY <1>7, <3>1
  <2> QED BY <2>1, <2>2
<1>11. \A f \in DOMAIN Schema : Sends(root, f, opts) <=> \E j \in 1 .. n : at[j] = f
  BY <1>1, <1>2, <1>4, <1>7
<1>12. \A j, k \in 1 .. n : at[j] = at[k] => j = k
  <2> SUFFICES ASSUME NEW j \in 1 .. n, NEW k \in 1 .. n, j # k PROVE at[j] # at[k] OBVIOUS
  <2>1. j < k \/ k < j BY <1>7
  <2>2. at[j] \in 1 .. l /\ at[k] \in 1 .. l BY <1>7
  <2> QED BY <1>2, <1>7, <2>1, <2>2
<1>13. Sent = [i \in 1 .. Len(text) \div 3 |->
                 [key |-> text[3 * i - 1][2], token |-> TokenOf(text[3 * i][2])]]
  BY DEF Sent, text
<1>14. ASSUME NEW j \in 1 .. n
       PROVE  /\ Sent[j].key = SentKey(at[j], opts)
              /\ Sent[j].token = TokenOf(SentAs(root, at[j]))
  <2>1. at[j] \in DOMAIN Schema /\ Sends(root, at[j], opts) BY <1>2, <1>7, <1>11
  <2>2. M[at[j]] = pair(at[j]) BY <1>1, <2>1
  <2>3. pair(at[j])[1][2] = SentKey(at[j], opts) /\ pair(at[j])[2][2] = SentAs(root, at[j])
    BY DEF pair, Key, Value
  <2>4. J[3 * j - 2][2] = SentKey(at[j], opts) /\ J[3 * j - 1][2] = SentAs(root, at[j])
    BY <1>7, <2>2, <2>3
  <2> DEFINE q == 3 * j - 2
             s == 3 * j - 1
  <2>5. q \in 1 .. Len(J) /\ s \in 1 .. Len(J) /\ q + 1 = 3 * j - 1 /\ s + 1 = 3 * j
    BY <1>7
  <2> HIDE DEF q, s
  <2>6. text[q + 1] = J[q] /\ text[s + 1] = J[s] BY <1>9, <2>5
  <2>7. text[3 * j - 1][2] = SentKey(at[j], opts) /\ text[3 * j][2] = SentAs(root, at[j])
    BY <2>4, <2>5, <2>6 DEF q, s
  <2>8. j \in 1 .. Len(text) \div 3 BY <1>10
  <2> QED BY <1>13, <2>7, <2>8
<1>15. Len(Sent) = n /\ DOMAIN Sent = 1 .. n
  BY <1>7, <1>10, <1>13
<1>16. n \in Nat /\ at \in [1 .. n -> DOMAIN Schema] BY <1>2, <1>7
<1>17. SentRows(n, at) BY <1>11, <1>12, <1>14, <1>15, <1>16, Zenon DEF SentRows
<1> QED BY <1>17
-----------------------------------------------------------------------------
(* The round trip: what is read of it *)

\* The assumptions of the decoder, under its other name.
LEMMA ReaderAssumptions ==
  Reader!SchemaAssumption /\ Reader!DecodeAssumption /\ Reader!OneofAssumption
<1> USE DEF Decoder!Fields, Reader!Fields, Decoder!OneofOf, Reader!OneofOf, Decoder!Kind,
            Reader!Kind, Decoder!MemberKinds, Reader!MemberKinds
<1>1. Reader!SchemaAssumption
  BY DecoderAssumption DEF Decoder!SchemaAssumption, Reader!SchemaAssumption, Decoder!Kinds,
       Reader!Kinds, Decoder!PresenceKinds, Reader!PresenceKinds
<1>2. Reader!DecodeAssumption
  BY DecoderAssumption DEF Decoder!DecodeAssumption, Reader!DecodeAssumption, Decoder!Tokens,
       Reader!Tokens, Decoder!Messages, Reader!Messages, Decoder!Values, Reader!Values
<1>3. Reader!OneofAssumption
  BY DecoderAssumption DEF Decoder!OneofAssumption, Reader!OneofAssumption
<1> QED BY <1>1, <1>2, <1>3

\* What was sent of a field is read as what it holds.
LEMMA ValueReturns ==
  ASSUME root \in Roots, root.type \in ReadBack, opts \in OptionSet, NEW f \in DOMAIN Schema
  PROVE  /\ ~ Sends(root, f, opts) => Reread(root)[f] = "absent"
         /\ Sends(root, f, opts) =>
              /\ TokenOf(SentAs(root, f)) \in {"null", "default", "value"}
              /\ Reader!Denotes(f, TokenOf(SentAs(root, f))) = Reread(root)[f]
<1> DEFINE is == root.fields[f].is
           k == Kind(f)
           empty == opts.EmitUnpopulated
           held == ContentOf(f, is)
<1>1. is \in LeavesOf(k) /\ k \in FlatKinds /\ empty \in BOOLEAN
  BY ReadBackIs, SchemaIs DEF OptionSet
<1>2. Reread(root)[f] = IF k = "value" /\ empty /\ held = "absent" THEN "nullValue" ELSE held
  BY DEF Reread, Content
<1>3. \A token : Reader!Denotes(f, token) =
        CASE token = "null" -> IF k \in {"value", "memberNull"} THEN "nullValue" ELSE "absent"
          [] token = "default" -> IF k \in {"plain", "enum"} THEN "absent" ELSE "default"
          [] token = "value" -> "value"
          [] OTHER -> "absent"
  BY <1>1 DEF Reader!Denotes, Reader!Kind, Kind, Reader!NullIsValue, Reader!PresenceKinds,
       Reader!MemberKinds, FlatKinds
<1>4. Sends(root, f, opts) <=>
        IF k \in {"plain", "enum"} THEN is # "zero" \/ empty
        ELSE IF k = "value" THEN is # "nil" \/ empty ELSE is # "nil"
  BY DEF Sends
<1>5. held = CASE is = "nil" -> "absent"
               [] is = "zero" -> IF k \in {"plain", "enum"} THEN "absent" ELSE "default"
               [] is = "set" -> "value"
               [] is = "null" -> "nullValue"
  BY DEF ContentOf
<1>6. SentAs(root, f) = IF is = "nil" THEN "null" ELSE is BY DEF SentAs
<1> HIDE DEF is, k, empty, held
<1>7. CASE k \in {"plain", "enum"}
  <2>1. is \in {"zero", "set"} BY <1>1, <1>7 DEF LeavesOf
  <2> QED BY <1>2, <1>3, <1>4, <1>5, <1>6, <1>7, <2>1 DEF TokenOf
<1>8. CASE k = "value"
  <2>1. is \in {"nil", "null", "zero", "set"} BY <1>1, <1>8 DEF LeavesOf
  <2> QED BY <1>1, <1>2, <1>3, <1>4, <1>5, <1>6, <1>8, <2>1 DEF TokenOf
<1>9. CASE k = "memberNull"
  <2>1. is \in {"nil", "null"} BY <1>1, <1>9 DEF LeavesOf
  <2> QED BY <1>2, <1>3, <1>4, <1>5, <1>6, <1>9, <2>1 DEF TokenOf
<1>10. CASE k \notin {"plain", "enum", "value", "memberNull"}
  <2>1. is \in {"nil", "zero", "set"} BY <1>1, <1>10 DEF LeavesOf
  <2> QED BY <1>2, <1>3, <1>4, <1>5, <1>6, <1>10, <2>1 DEF TokenOf
<1> QED BY <1>7, <1>8, <1>9, <1>10

\* Each member names its field, and a member that takes a oneof is the one of it
\* that is set.
LEMMA SentMember ==
  ASSUME root \in Roots, root.type \in ReadBack, opts \in OptionSet, Reader!NamesApart,
         NEW n, NEW at, SentRows(n, at), NEW j \in 1 .. n
  PROVE  /\ at[j] \in DOMAIN Schema /\ at[j] # 0 /\ Reader!FieldOf(Sent[j]) = at[j]
         /\ Sends(root, at[j], opts)
         /\ Sent[j].token \in {"null", "default", "value"}
         /\ Reader!Denotes(at[j], Sent[j].token) = Reread(root)[at[j]]
         /\ Reader!Occupied(Sent[j]) # 0 =>
              /\ Reader!Occupied(Sent[j]) = Schema[at[j]].oneof
              /\ root.fields[at[j]].is # "nil"
<1> DEFINE f == at[j]
           m == Sent[j]
<1>1. /\ f \in DOMAIN Schema /\ Sends(root, f, opts)
      /\ m.key = SentKey(f, opts) /\ m.token = TokenOf(SentAs(root, f))
  BY DEF SentRows
<1> HIDE DEF f, m
<1>2. f # 0 /\ Reader!Fields = DOMAIN Schema BY <1>1, SchemaIs DEF Reader!Fields
<1>3. m.key \in Reader!Names(f) BY <1>1 DEF SentKey, NameOf, Reader!Names, OptionSet
<1>4. Reader!FieldOf(m) = f BY <1>1, <1>2, <1>3, ReaderAssumptions, Reader!NamedField
<1>5. /\ m.token \in {"null", "default", "value"}
      /\ Reader!Denotes(f, m.token) = Reread(root)[f]
  BY <1>1, ValueReturns
<1>6. ASSUME Reader!Occupied(m) # 0
      PROVE  Reader!Occupied(m) = Schema[f].oneof /\ root.fields[f].is # "nil"
  <2>1. Reader!Occupied(m) = Schema[f].oneof
    BY <1>4, <1>6 DEF Reader!Occupied, Reader!OneofOf
  <2>2. Kind(f) \in {"member", "memberEnum", "memberNull"} BY <1>1, <1>6, <2>1, SchemaIs
  <2> QED BY <1>1, <2>1, <2>2 DEF Sends
<1> QED BY <1>1, <1>2, <1>4, <1>5, <1>6 DEF f, m

\* Whatever has been read of it is a legal document.
LEMMA SentLegal ==
  ASSUME root \in Roots, root.type \in ReadBack, opts \in OptionSet, Reader!NamesApart,
         NEW n, NEW at, SentRows(n, at), NEW ms, NEW l \in Nat, l <= n,
         DOMAIN ms = 1 .. l, \A i \in 1 .. l : ms[i] = Sent[i], NEW d
  PROVE  Reader!Legal(ms, d)
<1>1. n \in Nat /\ \A j, k \in 1 .. n : at[j] = at[k] => j = k BY DEF SentRows
<1>2. \A i \in DOMAIN ms : i \in 1 .. n /\ ms[i] = Sent[i] BY <1>1
<1>3. ASSUME NEW i \in DOMAIN ms, NEW j \in DOMAIN ms, i # j
      PROVE  /\ Reader!FieldOf(ms[i]) # Reader!FieldOf(ms[j])
             /\ Reader!Occupied(ms[i]) # 0 => Reader!Occupied(ms[i]) # Reader!Occupied(ms[j])
  <2> DEFINE f == at[i]
             g == at[j]
  <2>1. i \in 1 .. n /\ j \in 1 .. n /\ ms[i] = Sent[i] /\ ms[j] = Sent[j] BY <1>2
  <2>2. f # g /\ f \in DOMAIN Schema /\ g \in DOMAIN Schema
        /\ Reader!FieldOf(ms[i]) = f /\ Reader!FieldOf(ms[j]) = g
    BY <1>1, <1>3, <2>1, SentMember
  <2>3. ASSUME Reader!Occupied(ms[i]) # 0, Reader!Occupied(ms[i]) = Reader!Occupied(ms[j])
        PROVE  FALSE
    <3>1. /\ Reader!Occupied(ms[i]) = Schema[f].oneof /\ root.fields[f].is # "nil"
          /\ Reader!Occupied(ms[j]) = Schema[g].oneof /\ root.fields[g].is # "nil"
      BY <2>1, <2>3, SentMember
    <3>2. "nil" \in {root.fields[f].is, root.fields[g].is}
      <4>1. Flat(root) BY ReadBackIs
      <4> HIDE DEF f, g
      <4> QED BY <2>2, <2>3, <3>1, <4>1 DEF Flat
    <3> QED BY <3>1, <3>2
  <2> QED BY <2>2, <2>3
<1>4. Reader!NoneTwice(ms) BY <1>3 DEF Reader!NoneTwice
<1>5. ASSUME NEW i \in DOMAIN ms
      PROVE  /\ Reader!FieldOf(ms[i]) # 0
             /\ ms[i].token \in {"null", "default", "value"}
  <2>1. i \in 1 .. n /\ ms[i] = Sent[i] BY <1>2
  <2> QED BY <2>1, SentMember
<1>6. Reader!Readable(ms, d) BY <1>5 DEF Reader!Readable
<1> QED BY <1>4, <1>6 DEF Reader!Legal

\* All of it stands for the message.
LEMMA SentMeaning ==
  ASSUME root \in Roots, root.type \in ReadBack, opts \in OptionSet, Reader!NamesApart,
         NEW n, NEW at, SentRows(n, at)
  PROVE  Reader!Meaning(Sent) = Reread(root)
<1>1. n \in Nat /\ DOMAIN Sent = 1 .. n BY DEF SentRows
<1>2. Reader!Legal(Sent, TRUE)
  <2>1. n <= n BY <1>1
  <2> QED BY <1>1, <2>1, SentLegal
<1>3. Reader!NoneTwice(Sent) BY <1>2 DEF Reader!Legal
<1>4. Reader!Fields = DOMAIN Schema BY DEF Reader!Fields
<1>5. ASSUME NEW f \in DOMAIN Schema
      PROVE  Reader!Meaning(Sent)[f] = Reread(root)[f]
  <2>1. /\ f \notin Reader!FieldsRead(Sent) => Reader!Meaning(Sent)[f] = "absent"
        /\ \A i \in DOMAIN Sent :
             Reader!FieldOf(Sent[i]) = f =>
               Reader!Meaning(Sent)[f] = Reader!Denotes(f, Sent[i].token)
    BY <1>3, <1>4, ReaderAssumptions, Reader!MeaningAt
  <2>2. CASE Sends(root, f, opts)
    <3>1. PICK j \in 1 .. n : at[j] = f BY <2>2 DEF SentRows
    <3>2. Reader!FieldOf(Sent[j]) = f /\ Reader!Denotes(f, Sent[j].token) = Reread(root)[f]
      BY <3>1, SentMember
    <3> QED BY <1>1, <2>1, <3>1, <3>2
  <2>3. CASE ~ Sends(root, f, opts)
    <3>1. \A j \in 1 .. n : Reader!FieldOf(Sent[j]) # f BY <2>3, SentMember
    <3>2. f \notin Reader!FieldsRead(Sent) BY <1>1, <3>1 DEF Reader!FieldsRead
    <3> QED BY <2>1, <2>3, <3>2, ValueReturns
  <2> QED BY <2>2, <2>3
<1>6. Reread(root) = [f \in DOMAIN Schema |-> Reread(root)[f]] BY DEF Reread
<1>7. Reader!Meaning(Sent) = [f \in DOMAIN Schema |-> Reader!Meaning(Sent)[f]]
  BY <1>4 DEF Reader!Meaning
<1> QED BY <1>5, <1>6, <1>7
-----------------------------------------------------------------------------
(* The round trip: both halves *)

\* The decoder has read the first members of the text, and all when it is done.
ReadSoFar ==
  /\ Len(doc) <= Len(Sent)
  /\ \A i \in 1 .. Len(doc) : doc[i] = Sent[i]
  /\ phase = "done" => Len(doc) = Len(Sent)

\* Each half keeps its own invariant; the second one starts after the first.
BothInv ==
  /\ EncodeInv /\ root \in Roots
  /\ Reader!ResultInv
  /\ phase # "start" => status = "done" /\ root.type \in ReadBack /\ ReadSoFar

\* It holds before the first step of either.
LEMMA BothStart == BothInit => BothInv
<1> SUFFICES ASSUME BothInit PROVE BothInv OBVIOUS
<1>1. Init /\ Decoder!Init BY DEF BothInit
<1>2. EncodeInv /\ root \in Roots BY <1>1, EncodeInit DEF Init
<1>3. Reader!ResultInv /\ phase = "start"
  <2>1. Reader!Init BY <1>1, SameSteps
  <2>2. Reader!ResultInv BY <2>1, ReaderAssumptions, Reader!InitResult
  <2>3. phase = "start" BY <2>1 DEF Reader!Init
  <2> QED BY <2>2, <2>3
<1> QED BY <1>2, <1>3 DEF BothInv

\* The encoder only writes before it is done.
LEMMA EncodeWrites ==
  ASSUME Next
  PROVE  status = "writing" /\ root' = root
BY DEF Next, SkipMember, WriteMember, EndObject, WriteItem, EndList, WriteEntry, EndMap,
       MoreMembers, InObject, In

\* A step of the decoder is one of TableUnmarshal.
LEMMA DecodeReads ==
  ASSUME Decode, BothInv, Reader!NamesApart
  PROVE  /\ Reader!Next
         /\ phase' # "start" /\ status' = "done" /\ root'.type \in ReadBack
         /\ ReadSoFar'
<1>1. /\ status = "done" /\ root.type \in ReadBack
      /\ root' = root /\ opts' = opts /\ bufs' = bufs /\ status' = status
  BY DEF Decode, vars
<1>2. root \in Roots /\ opts \in OptionSet /\ bufs = <<Text(root, opts)>>
  BY <1>1 DEF BothInv, EncodeInv
<1>3. PICK n, at : SentRows(n, at) BY <1>1, <1>2, SentIs
<1>4. n \in Nat /\ Len(Sent) = n /\ DOMAIN Sent = 1 .. n BY <1>3 DEF SentRows
<1>5. Sent' = Sent BY <1>1 DEF Sent
<1>6. Reader!TypeOK /\ (phase = "start" => doc = <<>>)
  BY DEF BothInv, Reader!ResultInv, Reader!JudgeInv, Reader!StartInv
<1>7. doc \in Seq([key : UNION {{Schema[f].json, Schema[f].proto} : f \in DOMAIN Schema},
                   token : {"null", "default", "value"}])
  BY <1>6 DEF Reader!TypeOK
<1>8. Len(doc) \in Nat BY <1>7, LenProperties
<1>9. CASE Decoder!Begin
  <2>1. Reader!Begin BY <1>9, SameSteps
  <2>2. phase = "start" /\ phase' = "reading" /\ doc' = doc BY <2>1 DEF Reader!Begin
  <2>3. Reader!Next BY <2>1 DEF Reader!Next
  <2>4. Len(doc) = 0 BY <1>6, <2>2
  <2>5. Len(doc) <= Len(Sent) /\ 1 .. Len(doc) = {} BY <1>4, <2>4
  <2>6. ReadSoFar' BY <1>5, <2>2, <2>5 DEF ReadSoFar
  <2> QED BY <1>1, <2>2, <2>3, <2>6
<1>10. CASE DecodeMember
  <2> DEFINE l == Len(doc)
             m == Sent[l + 1]
  <2>1. /\ l < Len(Sent)
        /\ \/ Decoder!ReadField(m.key, m.token)
           \/ Decoder!RejectField(m.key, m.token)
           \/ Decoder!ReadUnknown(m.key, m.token)
    BY <1>10 DEF DecodeMember
  <2>2. l \in Nat /\ l + 1 \in 1 .. n BY <1>4, <1>8, <2>1
  <2> DEFINE f == at[l + 1]
  <2>3. /\ f \in DOMAIN Schema /\ m.key = SentKey(f, opts)
        /\ m.token \in {"null", "default", "value"}
    BY <1>1, <1>2, <1>3, <2>2, SentMember DEF SentRows
  <2>4. m.key \in UNION {{Schema[g].json, Schema[g].proto} : g \in DOMAIN Schema}
    BY <1>2, <2>3 DEF SentKey, NameOf, OptionSet
  <2>5. m = [key |-> m.key, token |-> m.token] BY <1>4, <2>2 DEF Sent
  <2> HIDE DEF m, f
  <2>6. \/ Reader!ReadField(m.key, m.token) \/ Reader!RejectField(m.key, m.token)
        \/ Reader!ReadUnknown(m.key, m.token)
    BY <2>1, SameSteps
  <2>7. Reader!Next BY <2>3, <2>4, <2>6 DEF Reader!Next
  <2>8. Reader!Read(m.key, m.token)
    BY <2>6 DEF Reader!ReadField, Reader!RejectField, Reader!ReadUnknown
  <2>9. phase = "reading" /\ doc' = Append(doc, m) BY <2>5, <2>8 DEF Reader!Read
  <2>10. phase' \in {"reading", "failed"}
    BY <2>6, <2>9 DEF Reader!ReadField, Reader!RejectField, Reader!ReadUnknown
  <2>11. /\ Len(doc') = l + 1 /\ doc'[l + 1] = m
         /\ \A i \in 1 .. l : doc'[i] = doc[i]
    <3> DEFINE R == [key : UNION {{Schema[g].json, Schema[g].proto} : g \in DOMAIN Schema},
                     token : {"null", "default", "value"}]
    <3>1. m \in R BY <2>3, <2>4, <2>5
    <3>2. doc \in Seq(R) BY <1>7
    <3> HIDE DEF R
    <3> QED BY <2>9, <3>1, <3>2, AppendProperties
  <2>12. \A i \in 1 .. l : doc[i] = Sent[i] BY <2>9 DEF BothInv, ReadSoFar
  <2> HIDE DEF l
  <2>13. \A i \in 1 .. l + 1 : doc'[i] = Sent[i]
    <3> SUFFICES ASSUME NEW i \in 1 .. l + 1 PROVE doc'[i] = Sent[i] OBVIOUS
    <3>1. i = l + 1 \/ i \in 1 .. l BY <2>2
    <3> QED BY <2>11, <2>12, <3>1 DEF m
  <2>14. ReadSoFar' BY <1>4, <1>5, <2>2, <2>10, <2>11, <2>13 DEF ReadSoFar
  <2> QED BY <1>1, <2>7, <2>10, <2>14
<1>11. CASE Len(doc) = Len(Sent) /\ Decoder!EndObject
  <2>1. Reader!EndObject BY <1>11, SameSteps
  <2>2. phase = "reading" /\ phase' = "done" /\ doc' = doc BY <2>1 DEF Reader!EndObject
  <2>3. Reader!Next BY <2>1 DEF Reader!Next
  <2>4. ReadSoFar' BY <1>5, <1>11, <2>2 DEF BothInv, ReadSoFar
  <2> QED BY <1>1, <2>2, <2>3, <2>4
<1> QED BY <1>9, <1>10, <1>11 DEF Decode

\* Steps of both halves keep it.
LEMMA BothKeep ==
  Reader!NamesApart /\ Reader!NothingStale /\ BothInv /\ [BothNext]_<<vars, decoderVars>>
    => BothInv'
<1> SUFFICES ASSUME Reader!NamesApart, Reader!NothingStale, BothInv,
                    [BothNext]_<<vars, decoderVars>>
             PROVE  BothInv'
  OBVIOUS
<1>1. EncodeInv /\ root \in Roots /\ Reader!ResultInv BY DEF BothInv
<1>2. ASSUME UNCHANGED decoderVars
      PROVE  Reader!ResultInv' /\ phase' = phase /\ doc' = doc
  <2>1. UNCHANGED Reader!vars BY <1>2 DEF decoderVars, Reader!vars
  <2>2. Reader!ResultInv' BY <1>1, <2>1, ReaderAssumptions, Reader!NextResult
  <2> QED BY <1>2, <2>2 DEF decoderVars
<1>3. CASE Encode
  <2>1. Next /\ UNCHANGED decoderVars BY <1>3 DEF Encode
  <2>2. status = "writing" /\ root' = root BY <2>1, EncodeWrites
  <2>3. phase = "start" BY <2>2 DEF BothInv
  <2>4. EncodeInv' BY <1>1, <2>1, EncodeNext
  <2> QED BY <1>1, <1>2, <2>1, <2>2, <2>3, <2>4 DEF BothInv
<1>4. CASE Decode
  <2>1. UNCHANGED vars BY <1>4 DEF Decode
  <2>2. EncodeInv' /\ root' \in Roots BY <1>1, <2>1, EncodeNext DEF vars
  <2>3. /\ Reader!Next /\ phase' # "start" /\ status' = "done" /\ root'.type \in ReadBack
        /\ ReadSoFar'
    BY <1>4, DecodeReads
  <2>4. Reader!ResultInv' BY <1>1, <2>3, ReaderAssumptions, Reader!NextResult
  <2> QED BY <2>2, <2>3, <2>4 DEF BothInv
<1>5. CASE UNCHANGED <<vars, decoderVars>>
  <2>1. UNCHANGED vars /\ UNCHANGED decoderVars BY <1>5
  <2>2. EncodeInv' /\ root' = root /\ status' = status /\ bufs' = bufs
    BY <1>1, <2>1, EncodeNext DEF vars
  <2>3. Sent' = Sent BY <2>2 DEF Sent
  <2>4. ReadSoFar => ReadSoFar' BY <1>2, <2>1, <2>3 DEF ReadSoFar
  <2> QED BY <1>1, <1>2, <2>1, <2>2, <2>4 DEF BothInv
<1> QED BY <1>3, <1>4, <1>5 DEF BothNext

\* What was written is read as the message.
LEMMA BothReturn ==
  ASSUME BothInv, Reader!NamesApart
  PROVE  RoundTrips
<1> SUFFICES ASSUME phase # "start" PROVE RoundTrips BY DEF RoundTrips
<1>1. status = "done" /\ root.type \in ReadBack /\ ReadSoFar BY DEF BothInv
<1>2. root \in Roots /\ opts \in OptionSet /\ bufs = <<Text(root, opts)>>
  BY <1>1 DEF BothInv, EncodeInv
<1>3. PICK n, at : SentRows(n, at) BY <1>1, <1>2, SentIs
<1>4. n \in Nat /\ Len(Sent) = n /\ DOMAIN Sent = 1 .. n BY <1>3 DEF SentRows
<1>5. doc \in Seq([key : UNION {{Schema[f].json, Schema[f].proto} : f \in DOMAIN Schema},
                   token : {"null", "default", "value"}])
  BY DEF BothInv, Reader!ResultInv, Reader!JudgeInv, Reader!TypeOK
<1>6. Len(doc) \in Nat /\ DOMAIN doc = 1 .. Len(doc) /\ doc = [i \in 1 .. Len(doc) |-> doc[i]]
  BY <1>5, LenProperties
<1>7. Reader!Legal(doc, discard) BY <1>1, <1>2, <1>3, <1>4, <1>6, SentLegal DEF ReadSoFar
<1>8. phase # "failed"
  BY <1>7 DEF BothInv, Reader!ResultInv, Reader!JudgeInv, Reader!JudgedInv
<1>9. ASSUME phase = "done" PROVE target = Reread(root)
  <2>1. target = Reader!Meaning(doc) BY <1>9 DEF BothInv, Reader!ResultInv, Reader!ContentInv
  <2>2. Sent = [i \in 1 .. n |-> Sent[i]] BY <1>4 DEF Sent
  <2>3. doc = Sent BY <1>1, <1>4, <1>6, <1>9, <2>2 DEF ReadSoFar
  <2>4. Reader!Meaning(Sent) = Reread(root) BY <1>1, <1>2, <1>3, SentMeaning
  <2> QED BY <2>1, <2>3, <2>4
<1> QED BY <1>8, <1>9 DEF RoundTrips

\* What marshal.go writes of a message of fields with one token each, unmarshal.go
\* reads back as that message: for any schema of such fields without shared names,
\* any mask width, either spelling of the names, and whatever the target held.  The
\* one thing NothingStale excludes here is present but empty bytes in the target of
\* a wide message, which isZero takes for nothing (DecodeStale.cfg, EmptyBytesTargets).
THEOREM TableRoundTrips ==
  ASSUME Reader!NamesApart, Reader!NothingStale
  PROVE  BothSpec => []RoundTrips
<1>1. BothInv => RoundTrips BY BothReturn
<1> QED BY <1>1, BothStart, BothKeep, PTL DEF BothSpec
=============================================================================
