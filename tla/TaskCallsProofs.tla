---------------------------- MODULE TaskCallsProofs ----------------------------
(***************************************************************************)
(* Proof that co_await on a task is a function call (AwaitIsACall), for    *)
(* every set of addresses: Task implements TaskCalls.                      *)
(*                                                                         *)
(* The call stack of a task exists only as the frames that await each      *)
(* other, so the first part is about such chains in general; the second    *)
(* shows what a step does to them, and the third that this is what the     *)
(* call stacks allow.                                                      *)
(***************************************************************************)
EXTENDS TaskProofs, LeastNumber, SequencesExt, SequenceTheorems

(* g[t] is the chain that begins at t, if each t in A awaits W[t].         *)
Chains(A, W, g) ==
  /\ g \in [Tasks -> Seq(Tasks)]
  /\ \A t \in Tasks : g[t] = IF t \in A THEN <<t>> \o g[W[t]] ELSE <<t>>

(* A sequence without its last element.                                    *)
LEMMA AllButLast ==
  ASSUME NEW s \in Seq(Tasks), s # <<>>
  PROVE  /\ Len(s) \in Nat \ {0} /\ Last(s) \in Tasks /\ Last(s) = s[Len(s)]
         /\ Front(s) \in Seq(Tasks) /\ Len(Front(s)) = Len(s) - 1
         /\ \A k \in 1..(Len(s) - 1) : Front(s)[k] = s[k]
<1>1. Len(s) \in Nat \ {0}
  BY EmptySeq
<1>2. \A k \in 1..Len(s) : s[k] \in Tasks
  BY ElementOfSeq
<1> DEFINE n == Len(s) - 1
<1>3. n \in Nat /\ 1 \in Int /\ n \in Int /\ \A k \in 1..n : s[k] \in Tasks
  BY <1>1, <1>2
<1> HIDE DEF n
<1>4. /\ SubSeq(s, 1, n) \in Seq(Tasks)
      /\ Len(SubSeq(s, 1, n)) = IF 1 <= n THEN n - 1 + 1 ELSE 0
      /\ \A k \in 1..(n - 1 + 1) : SubSeq(s, 1, n)[k] = s[1 + k - 1]
  BY <1>3, SubSeqProperties
<1>5. Len(SubSeq(s, 1, n)) = n /\ \A k \in 1..n : SubSeq(s, 1, n)[k] = s[k]
  BY <1>3, <1>4
<1>. QED
  BY <1>1, <1>2, <1>4, <1>5 DEF n, Front, Last

(* A sequence with one more element in front, which has the same end.      *)
LEMMA Prepend ==
  ASSUME NEW t \in Tasks, NEW s \in Seq(Tasks)
  PROVE  LET c == <<t>> \o s
         IN  /\ c \in Seq(Tasks) /\ Len(c) = Len(s) + 1 /\ c[1] = t
             /\ \A k \in 1..Len(s) : c[k + 1] = s[k]
             /\ s # <<>> => Last(c) = Last(s) /\ Front(c) = <<t>> \o Front(s)
<1> DEFINE c == <<t>> \o s
<1>1. <<t>> \in Seq(Tasks) /\ Len(<<t>>) = 1 /\ <<t>>[1] = t /\ Len(s) \in Nat
  BY LenProperties
<1>2. c \in Seq(Tasks) /\ Len(c) = Len(s) + 1
  BY <1>1, ConcatProperties
<1>3. \A k \in 1..(Len(s) + 1) : c[k] = IF k <= 1 THEN <<t>>[k] ELSE s[k - 1]
  BY <1>1, ConcatProperties
<1>4. c[1] = t /\ \A k \in 1..Len(s) : c[k + 1] = s[k]
  BY <1>1, <1>3
<1>5. ASSUME s # <<>> PROVE Last(c) = Last(s) /\ Front(c) = <<t>> \o Front(s)
  <2>1. Len(s) \in Nat \ {0}
    BY <1>5, EmptySeq
  <2>2. Last(c) = Last(s)
    BY <1>2, <1>4, <2>1 DEF Last
  <2>3. Front(s) \in Seq(Tasks) /\ Len(Front(s)) = Len(s) - 1
        /\ \A k \in 1..(Len(s) - 1) : Front(s)[k] = s[k]
    BY <1>5, AllButLast
  <2>4. Front(c) \in Seq(Tasks) /\ Len(Front(c)) = Len(s)
        /\ \A k \in 1..Len(s) : Front(c)[k] = c[k]
    <3>1. c # <<>>
      BY <1>1, <1>2, EmptySeq
    <3> HIDE DEF c
    <3>. QED
      BY <1>1, <1>2, <3>1, AllButLast
  <2> DEFINE d == <<t>> \o Front(s)
  <2>5. d \in Seq(Tasks) /\ Len(d) = Len(s)
        /\ \A k \in 1..Len(s) : d[k] = IF k <= 1 THEN t ELSE Front(s)[k - 1]
    <3>1. /\ d \in Seq(Tasks) /\ Len(d) = 1 + Len(Front(s))
          /\ \A k \in 1..(1 + Len(Front(s))) :
               d[k] = IF k <= 1 THEN <<t>>[k] ELSE Front(s)[k - 1]
      BY <1>1, <2>3, ConcatProperties
    <3>. QED
      BY <1>1, <2>1, <2>3, <3>1
  <2>6. \A k \in 1..Len(s) : Front(c)[k] = d[k]
    BY <1>3, <1>4, <2>1, <2>3, <2>4, <2>5
  <2>7. Front(c) = d
    BY <2>4, <2>5, <2>6, SeqEqual
  <2>. QED
    BY <2>2, <2>7
<1>. QED
  BY <1>2, <1>4, <1>5

(* Each element of a chain awaits the next, and the last awaits nothing.   *)
LEMMA ChainShape ==
  ASSUME NEW A, NEW W, NEW g, \A t \in A : W[t] \in Tasks, Chains(A, W, g)
  PROVE  \A t \in Tasks :
           /\ g[t] \in Seq(Tasks) /\ g[t] # <<>> /\ Len(g[t]) \in Nat \ {0}
           /\ g[t][1] = t
           /\ Last(g[t]) \in Tasks \ A
           /\ \A k \in 1..(Len(g[t]) - 1) : g[t][k] \in A /\ g[t][k + 1] = W[g[t][k]]
<1> DEFINE Shape(t) ==
             /\ Last(g[t]) \in Tasks \ A
             /\ \A k \in 1..(Len(g[t]) - 1) : g[t][k] \in A /\ g[t][k + 1] = W[g[t][k]]
           Typed(t) == g[t] \in Seq(Tasks) /\ g[t] # <<>> /\ Len(g[t]) \in Nat \ {0} /\ g[t][1] = t
<1>1. ASSUME NEW t \in Tasks, t \in A
      PROVE  /\ W[t] \in Tasks /\ g[W[t]] \in Seq(Tasks) /\ g[t] = <<t>> \o g[W[t]]
             /\ Len(g[t]) = Len(g[W[t]]) + 1 /\ g[t][1] = t
             /\ \A k \in 1..Len(g[W[t]]) : g[t][k + 1] = g[W[t]][k]
             /\ g[W[t]] # <<>> => Last(g[t]) = Last(g[W[t]])
  <2>1. W[t] \in Tasks /\ g[W[t]] \in Seq(Tasks) /\ g[t] = <<t>> \o g[W[t]]
    BY <1>1 DEF Chains
  <2>. QED
    BY <2>1, Prepend
<1>2. ASSUME NEW t \in Tasks, t \notin A
      PROVE  g[t] = <<t>> /\ Len(g[t]) = 1 /\ g[t][1] = t /\ Last(g[t]) = t
  <2>1. g[t] = <<t>>
    BY <1>2 DEF Chains
  <2>. QED
    BY <2>1 DEF Last
<1>3. ASSUME NEW t \in Tasks PROVE Typed(t)
  <2>1. g[t] \in Seq(Tasks)
    BY DEF Chains
  <2>2. Len(g[t]) # 0 /\ g[t][1] = t
    <3>1. CASE t \in A
      <4> DEFINE u == W[t]
      <4>1. g[u] \in Seq(Tasks) /\ Len(g[t]) = Len(g[u]) + 1 /\ g[t][1] = t
        BY <1>1, <3>1
      <4> HIDE DEF u
      <4>2. Len(g[u]) \in Nat
        BY <4>1, LenProperties
      <4>. QED
        BY <4>1, <4>2
    <3>2. CASE t \notin A
      BY <1>2, <3>2
    <3>. QED
      BY <3>1, <3>2
  <2>. QED
    BY <2>1, <2>2, EmptySeq
<1> DEFINE T == {Len(g[t]) : t \in {t \in Tasks : ~Shape(t)}}
<1>4. T = {}
  <2> SUFFICES ASSUME T # {} PROVE FALSE
    OBVIOUS
  <2>1. T \subseteq Nat
    BY <1>3
  <2>2. PICK m \in T : \A n \in T : m <= n
    BY <2>1, LeastElement
  <2>3. PICK t \in Tasks : ~Shape(t) /\ m = Len(g[t])
    OBVIOUS
  <2>4. t \in A
    BY <1>2, <2>3
  <2> DEFINE u == W[t]
  <2>5. /\ u \in Tasks /\ Len(g[t]) = Len(g[u]) + 1 /\ g[t][1] = t
        /\ \A k \in 1..Len(g[u]) : g[t][k + 1] = g[u][k]
        /\ Last(g[t]) = Last(g[u]) /\ Len(g[u]) \in Nat \ {0} /\ g[u][1] = u
    BY <1>1, <1>3, <2>4
  <2> HIDE DEF u
  <2>6. Shape(u)
    <3>1. ~(m <= Len(g[u]))
      BY <2>3, <2>5
    <3>. QED
      BY <2>2, <2>5, <3>1
  <2>7. ASSUME NEW k \in 1..(Len(g[t]) - 1)
        PROVE  g[t][k] \in A /\ g[t][k + 1] = W[g[t][k]]
    <3>1. CASE k = 1
      BY <2>4, <2>5, <3>1 DEF u
    <3>2. CASE k # 1
      <4>1. k - 1 \in 1..(Len(g[u]) - 1) /\ k - 1 \in 1..Len(g[u]) /\ k \in 1..Len(g[u])
            /\ (k - 1) + 1 = k
        BY <2>5, <3>2
      <4>2. g[t][k] = g[u][k - 1] /\ g[t][k + 1] = g[u][k]
        BY <2>5, <4>1
      <4>3. g[u][k - 1] \in A /\ g[u][k] = W[g[u][k - 1]]
        BY <2>6, <4>1
      <4>. QED
        BY <4>2, <4>3
    <3>. QED
      BY <3>1, <3>2
  <2>. QED
    BY <2>3, <2>5, <2>6, <2>7
<1> HIDE DEF Shape
<1>5. \A t \in Tasks : Shape(t)
  BY <1>4
<1>. QED
  BY <1>3, <1>5 DEF Shape

(* There is one such chain from each task.                                 *)
LEMMA ChainsUnique ==
  ASSUME NEW A, NEW W, NEW g, \A t \in A : W[t] \in Tasks, Chains(A, W, g)
  PROVE  \A f : f = [t \in Tasks |-> IF t \in A THEN <<t>> \o f[W[t]] ELSE <<t>>] => f = g
<1>0. \A t \in Tasks : g[t] \in Seq(Tasks) /\ Len(g[t]) \in Nat
  BY ChainShape
<1>s. SUFFICES ASSUME NEW f, f = [t \in Tasks |-> IF t \in A THEN <<t>> \o f[W[t]] ELSE <<t>>]
               PROVE  f = g
  OBVIOUS
<1>b. \A t \in Tasks : f[t] = IF t \in A THEN <<t>> \o f[W[t]] ELSE <<t>>
  BY <1>s
<1> DEFINE T == {Len(g[t]) : t \in {t \in Tasks : f[t] # g[t]}}
<1>1. T = {}
  <2> SUFFICES ASSUME T # {} PROVE FALSE
    OBVIOUS
  <2>1. T \subseteq Nat
    BY <1>0
  <2>2. PICK m \in T : \A n \in T : m <= n
    BY <2>1, LeastElement
  <2>3. PICK t \in Tasks : f[t] # g[t] /\ m = Len(g[t])
    OBVIOUS
  <2>4. t \in A /\ W[t] \in Tasks /\ g[t] = <<t>> \o g[W[t]] /\ f[t] = <<t>> \o f[W[t]]
    BY <1>b, <2>3 DEF Chains
  <2>5. g[W[t]] \in Seq(Tasks) /\ Len(g[W[t]]) \in Nat /\ Len(g[t]) = Len(g[W[t]]) + 1
    <3> DEFINE u == W[t]
    <3>1. u \in Tasks /\ g[u] \in Seq(Tasks) /\ Len(g[u]) \in Nat /\ g[t] = <<t>> \o g[u]
      BY <1>0, <2>4
    <3> HIDE DEF u
    <3>2. Len(<<t>> \o g[u]) = Len(g[u]) + 1
      BY <3>1, Prepend
    <3>. QED
      BY <3>1, <3>2 DEF u
  <2>6. Len(g[W[t]]) \notin T
    <3> DEFINE n == Len(g[W[t]])
    <3>1. n \in Nat /\ m = n + 1
      BY <2>3, <2>5
    <3> HIDE DEF n
    <3>2. ~(m <= n)
      BY <3>1
    <3>. QED
      BY <2>2, <3>2 DEF n
  <2>7. f[W[t]] = g[W[t]]
    BY <2>4, <2>6
  <2>. QED
    BY <2>3, <2>4, <2>7
<1>2. \A t \in Tasks : f[t] = g[t]
  BY <1>1
<1>. QED
  BY <1>s, <1>2 DEF Chains

(* Nobody is awaited twice: then whoever's chain ends where that of r does *)
(* is in it, if nobody awaits r.                                           *)
LEMMA SameEnd ==
  ASSUME NEW A, NEW W, NEW g, A \subseteq Tasks, \A t \in A : W[t] \in Tasks, Chains(A, W, g),
         \A t, u \in A : W[t] = W[u] => t = u,
         NEW r \in Tasks, \A t \in A : W[t] # r
  PROVE  \A t \in Tasks : Last(g[t]) = Last(g[r]) => \E k \in 1..Len(g[r]) : g[r][k] = t
<1>a. \A t \in Tasks : g[t] \in Seq(Tasks) /\ g[t] # <<>> /\ Len(g[t]) \in Nat
  BY ChainShape
<1> DEFINE Bad(t) == Last(g[t]) = Last(g[r]) /\ ~\E k \in 1..Len(g[r]) : g[r][k] = t
           T == {Len(g[t]) : t \in {t \in Tasks : Bad(t)}}
<1>0. /\ g[r] \in Seq(Tasks) /\ g[r] # <<>> /\ Len(g[r]) \in Nat \ {0} /\ g[r][1] = r
      /\ \A k \in 1..(Len(g[r]) - 1) : g[r][k] \in A /\ g[r][k + 1] = W[g[r][k]]
  BY ChainShape
<1>1. T = {}
  <2> SUFFICES ASSUME T # {} PROVE FALSE
    OBVIOUS
  <2>1. T \subseteq Nat
    BY <1>a
  <2>2. PICK m \in T : \A n \in T : m <= n
    BY <2>1, LeastElement
  <2>3. PICK t \in Tasks : Bad(t) /\ m = Len(g[t])
    OBVIOUS
  <2>4. CASE t \notin A
    <3>1. Last(g[t]) = t
      <4>1. g[t] = <<t>>
        BY <2>4 DEF Chains
      <4>. QED
        BY <4>1 DEF Last
    <3>2. g[r][Len(g[r])] = t /\ Len(g[r]) \in 1..Len(g[r])
      BY <1>0, <2>3, <3>1 DEF Last
    <3>. QED
      BY <2>3, <3>2
  <2>5. CASE t \in A
    <3> DEFINE u == W[t]
    <3>1. u \in Tasks /\ g[u] \in Seq(Tasks) /\ g[u] # <<>> /\ Len(g[u]) \in Nat /\ g[t] = <<t>> \o g[u]
      BY <1>a, <2>5 DEF Chains
    <3> HIDE DEF u
    <3>2. Len(g[t]) = Len(g[u]) + 1 /\ Last(g[t]) = Last(g[u])
      BY <3>1, Prepend
    <3>3. ~Bad(u)
      <4>1. Len(g[u]) \notin T
        BY <2>2, <2>3, <3>1, <3>2
      <4>. QED
        BY <3>1, <4>1
    <3>4. PICK k \in 1..Len(g[r]) : g[r][k] = u
      BY <2>3, <3>2, <3>3
    <3>5. k # 1
      BY <1>0, <2>5, <3>4 DEF u
    <3>6. k - 1 \in 1..(Len(g[r]) - 1) /\ k - 1 \in 1..Len(g[r]) /\ (k - 1) + 1 = k
      BY <1>0, <3>5
    <3>7. g[r][k - 1] \in A /\ u = W[g[r][k - 1]]
      BY <1>0, <3>4, <3>6
    <3>8. g[r][k - 1] = t
      BY <2>5, <3>7 DEF u
    <3>. QED
      BY <2>3, <3>6, <3>8
  <2>. QED
    BY <2>4, <2>5
<1>. QED
  BY <1>1

(* So the chains of two that nobody awaits do not end in the same task.    *)
LEMMA RootsApart ==
  ASSUME NEW A, NEW W, NEW g, A \subseteq Tasks, \A t \in A : W[t] \in Tasks, Chains(A, W, g),
         \A t, u \in A : W[t] = W[u] => t = u,
         NEW r \in Tasks, NEW s \in Tasks, \A t \in A : W[t] # r /\ W[t] # s,
         Last(g[r]) = Last(g[s])
  PROVE  r = s
<1>1. PICK k \in 1..Len(g[r]) : g[r][k] = s
  BY SameEnd
<1>2. CASE k = 1
  BY <1>1, <1>2, ChainShape
<1>3. CASE k # 1
  <2>1. Len(g[r]) \in Nat /\ k - 1 \in 1..(Len(g[r]) - 1) /\ (k - 1) + 1 = k
    BY <1>3, ChainShape
  <2>2. g[r][k - 1] \in A /\ s = W[g[r][k - 1]]
    BY <1>1, <2>1, ChainShape
  <2>. QED
    BY <2>2
<1>. QED
  BY <1>2, <1>3

(* A stack of one call.                                                    *)
LEMMA Single == \A t \in Tasks : Last(<<t>>) = t
  BY DEF Last

(* An element may be put in front first and another behind after, or the   *)
(* other way round.                                                        *)
LEMMA AppendBehind ==
  ASSUME NEW t \in Tasks, NEW s \in Seq(Tasks), NEW c \in Tasks
  PROVE  Append(<<t>> \o s, c) = <<t>> \o Append(s, c)
<1>1. <<t>> \in Seq(Tasks) /\ <<c>> \in Seq(Tasks) /\ <<t>> \o s \in Seq(Tasks)
  BY ConcatProperties
<1>2. Append(s, c) = s \o <<c>>
  BY AppendIsConcat
<1>3. Append(<<t>> \o s, c) = (<<t>> \o s) \o <<c>>
  BY <1>1, AppendIsConcat
<1>4. (<<t>> \o s) \o <<c>> = <<t>> \o (s \o <<c>>)
  BY <1>1, ConcatAssociative
<1>. QED
  BY <1>2, <1>3, <1>4

(* A chain that ends at p goes on with c once p awaits c.                  *)
LEMMA Extend ==
  ASSUME NEW A, NEW W, NEW V, NEW g, \A t \in A : W[t] \in Tasks, Chains(A, W, g),
         NEW p \in Tasks, NEW c \in Tasks, p \notin A, c \notin A, p # c,
         V[p] = c, \A t \in A : V[t] = W[t]
  PROVE  Chains(A \cup {p}, V,
                [t \in Tasks |-> IF Last(g[t]) = p THEN Append(g[t], c) ELSE g[t]])
<1> DEFINE h == [t \in Tasks |-> IF Last(g[t]) = p THEN Append(g[t], c) ELSE g[t]]
<1>1. \A t \in Tasks : g[t] \in Seq(Tasks)
  BY DEF Chains
<1>2. h \in [Tasks -> Seq(Tasks)]
  BY <1>1, AppendProperties
<1>3. \A t \in Tasks : t \notin A => g[t] = <<t>> /\ Last(g[t]) = t
  BY Single DEF Chains
<1>4. ASSUME NEW t \in Tasks
      PROVE  h[t] = IF t \in A \cup {p} THEN <<t>> \o h[V[t]] ELSE <<t>>
  <2>1. CASE t = p
    <3>1. g[p] = <<p>> /\ Last(g[p]) = p /\ g[c] = <<c>> /\ Last(g[c]) = c
      BY <1>3
    <3>2. h[p] = Append(<<p>>, c) /\ h[c] = <<c>>
      BY <3>1
    <3>3. Append(<<p>>, c) = <<p>> \o <<c>>
      OBVIOUS
    <3>. QED
      BY <2>1, <3>2, <3>3
  <2>2. CASE t # p /\ t \notin A
    BY <1>3, <2>2
  <2>3. CASE t \in A
    <3> DEFINE u == W[t]
    <3>1. u \in Tasks /\ g[u] \in Seq(Tasks) /\ g[t] = <<t>> \o g[u] /\ V[t] = u /\ t # p
      BY <1>1, <2>3 DEF Chains
    <3>2. g[u] # <<>>
      BY <3>1, ChainShape
    <3> HIDE DEF u
    <3>3. Last(<<t>> \o g[u]) = Last(g[u])
      BY <3>1, <3>2, Prepend
    <3>4. Append(<<t>> \o g[u], c) = <<t>> \o Append(g[u], c)
      BY <3>1, AppendBehind
    <3>. QED
      BY <2>3, <3>1, <3>3, <3>4
  <2>. QED
    BY <2>1, <2>2, <2>3
<1>. QED
  BY <1>2, <1>4 DEF Chains

(* The chains that ended at w end before it once nobody awaits it.         *)
LEMMA Cut ==
  ASSUME NEW A, NEW W, NEW V, NEW g, A \subseteq Tasks, \A t \in A : W[t] \in Tasks,
         Chains(A, W, g), NEW w \in Tasks, w \notin A,
         \A t \in A : W[t] # w => V[t] = W[t]
  PROVE  Chains({t \in A : W[t] # w}, V,
                [t \in Tasks |-> IF t # w /\ Last(g[t]) = w THEN Front(g[t]) ELSE g[t]])
<1> DEFINE B == {t \in A : W[t] # w}
           h == [t \in Tasks |-> IF t # w /\ Last(g[t]) = w THEN Front(g[t]) ELSE g[t]]
<1>1. \A t \in Tasks : g[t] \in Seq(Tasks) /\ g[t] # <<>>
  BY ChainShape
<1>2. h \in [Tasks -> Seq(Tasks)]
  BY <1>1, AllButLast
<1>3. \A t \in Tasks : t \notin A => g[t] = <<t>> /\ Last(g[t]) = t
  BY Single DEF Chains
<1>4. ASSUME NEW t \in A, NEW u \in Tasks, u = W[t]
      PROVE  t \in Tasks /\ g[t] = <<t>> \o g[u] /\ Last(g[t]) = Last(g[u])
             /\ Front(g[t]) = <<t>> \o Front(g[u])
  <2>1. t \in Tasks /\ g[t] = <<t>> \o g[u] /\ g[u] \in Seq(Tasks) /\ g[u] # <<>>
    BY <1>1, <1>4 DEF Chains
  <2>2. Last(<<t>> \o g[u]) = Last(g[u]) /\ Front(<<t>> \o g[u]) = <<t>> \o Front(g[u])
    BY <2>1, Prepend
  <2>. QED
    BY <2>1, <2>2
<1>5. ASSUME NEW t \in Tasks
      PROVE  h[t] = IF t \in B THEN <<t>> \o h[V[t]] ELSE <<t>>
  <2>1. CASE t \notin A
    BY <1>3, <2>1
  <2>2. CASE t \in A /\ W[t] = w
    <3>1. g[w] = <<w>> /\ Last(g[w]) = w /\ t # w
      BY <1>3, <2>2
    <3>2. Last(g[t]) = w /\ Front(g[t]) = <<t>> \o Front(<<w>>)
      BY <1>4, <2>2, <3>1
    <3>3. Front(<<w>>) = <<>> /\ <<t>> \o <<>> = <<t>>
      BY DEF Front
    <3>. QED
      BY <2>2, <3>1, <3>2, <3>3
  <2>3. CASE t \in B
    <3> DEFINE u == W[t]
    <3>1. u \in Tasks /\ u # w /\ V[t] = u /\ t # w /\ t \in A
      BY <2>3
    <3> HIDE DEF u
    <3>2. g[t] = <<t>> \o g[u] /\ Last(g[t]) = Last(g[u]) /\ Front(g[t]) = <<t>> \o Front(g[u])
      BY <1>4, <3>1 DEF u
    <3>. QED
      BY <2>3, <3>1, <3>2
  <2>. QED
    BY <2>1, <2>2, <2>3
<1>. QED
  BY <1>2, <1>5 DEF Chains

-------------------------------------------------------------------------------
(* The frames that await one that has not ended.                           *)
Waiting == {t \in Tasks : at[t] = "awaiting" /\ at[waits[t]] # "done"}

(* In every state CallsBelow finds the one chain that there is.            *)
CallsAreChains ==
  \A g : (Chains(Waiting, waits, g) /\ \A t \in Waiting : waits[t] \in Tasks) =>
           \A r \in Tasks : CallsBelow(r) = g[r]

(* CallsBelow picks a solution of its recursion, and there is only one.    *)
LEMMA CallsFound == CallsAreChains
<1> SUFFICES ASSUME NEW g, Chains(Waiting, waits, g), \A t \in Waiting : waits[t] \in Tasks
             PROVE  \A r \in Tasks : CallsBelow(r) = g[r]
  BY DEF CallsAreChains
<1> DEFINE below[t \in Tasks] ==
             IF at[t] = "awaiting" /\ at[waits[t]] # "done"
             THEN <<t>> \o below[waits[t]] ELSE <<t>>
<1>1. \A r \in Tasks : CallsBelow(r) = below[r]
  BY DEF CallsBelow
<1> DEFINE Solves(f) == f = [t \in Tasks |-> IF at[t] = "awaiting" /\ at[waits[t]] # "done"
                                             THEN <<t>> \o f[waits[t]] ELSE <<t>>]
<1>2. Solves(g)
  BY DEF Chains, Waiting
<1>3. Solves(below)
  BY <1>2, Zenon DEF below
<1> HIDE DEF below
<1>4. below = [t \in Tasks |-> IF t \in Waiting THEN <<t>> \o below[waits[t]] ELSE <<t>>]
  BY <1>3 DEF Waiting
<1>5. below = g
  BY <1>4, ChainsUnique
<1>. QED
  BY <1>1, <1>5

(* The same after a step.                                                  *)
LEMMA CallsFoundNext == CallsAreChains'
  BY CallsFound, PTL

-------------------------------------------------------------------------------
(* Who is awaited belongs to who awaits, dying or not; only the loop is    *)
(* ever between the end of a task and the return to who awaits it.         *)
AwaitsOwned ==
  \A p \in Tasks : at[p] = "awaiting" =>
    /\ waits[p] \in Tasks
    /\ owner[waits[p]] = p
    /\ at[waits[p]] = "done" => control = "loop"

(* A task that has begun, or is about to, and awaits nobody is the top of  *)
(* the calls below one that the owner started.                             *)
Top(t)  == t \notin Waiting /\ (Begun(t) \/ (control = "loop" /\ next = t))
Base(r) == owner[r] = Owner /\ at[r] \notin {"free", "done"}

Rooted == \A t \in Tasks : Top(t) => \E r \in Tasks : Base(r) /\ Last(CallsBelow(r)) = t

ChainsExist == \E g : Chains(Waiting, waits, g)

CInv == AwaitsOwned /\ ChainsExist /\ Rooted

(* Nobody is awaited twice: a frame has one owner.                         *)
LEMMA WaitingAwaits ==
  ASSUME AwaitsOwned
  PROVE  /\ Waiting \subseteq Tasks
         /\ \A t \in Waiting : waits[t] \in Tasks /\ owner[waits[t]] = t
         /\ \A t, u \in Waiting : waits[t] = waits[u] => t = u
  BY DEF AwaitsOwned, Waiting

(* The calls in progress below a task: each is awaited by the one before.  *)
ShapeOf(r, c) ==
  /\ c \in Seq(Tasks) /\ c # <<>> /\ Len(c) \in Nat \ {0}
  /\ c[1] = r
  /\ Last(c) \in Tasks \ Waiting
  /\ r \notin Waiting => c = <<r>>
  /\ \A k \in 1..(Len(c) - 1) : c[k] \in Waiting /\ c[k + 1] = waits[c[k]]

CallsShape == CInv => \A r \in Tasks : ShapeOf(r, CallsBelow(r))

(* The invariant gives every stack of calls this shape.                    *)
LEMMA CallsHaveShape == CallsShape
<1> SUFFICES ASSUME CInv PROVE \A r \in Tasks : ShapeOf(r, CallsBelow(r))
  BY DEF CallsShape
<1>1. PICK g : Chains(Waiting, waits, g)
  BY DEF CInv, ChainsExist
<1>2. \A t \in Waiting : waits[t] \in Tasks
  BY WaitingAwaits DEF CInv
<1>3. \A r \in Tasks : CallsBelow(r) = g[r]
  BY <1>1, <1>2, CallsFound DEF CallsAreChains
<1>4. ASSUME NEW r \in Tasks PROVE ShapeOf(r, g[r])
  <2>1. /\ g[r] \in Seq(Tasks) /\ g[r] # <<>> /\ Len(g[r]) \in Nat \ {0}
        /\ g[r][1] = r
        /\ Last(g[r]) \in Tasks \ Waiting
        /\ \A k \in 1..(Len(g[r]) - 1) : g[r][k] \in Waiting /\ g[r][k + 1] = waits[g[r][k]]
    BY <1>1, <1>2, ChainShape
  <2>2. r \notin Waiting => g[r] = <<r>>
    BY <1>1 DEF Chains
  <2>. QED
    BY <2>1, <2>2 DEF ShapeOf
<1>. QED
  BY <1>3, <1>4

(* Two tasks of the owner are never above the same one.                    *)
LEMMA BasesApart ==
  ASSUME CInv, NEW r \in Tasks, NEW s \in Tasks, owner[r] = Owner, owner[s] = Owner,
         Last(CallsBelow(r)) = Last(CallsBelow(s))
  PROVE  r = s
<1>1. PICK g : Chains(Waiting, waits, g)
  BY DEF CInv, ChainsExist
<1>2. /\ Waiting \subseteq Tasks /\ \A t \in Waiting : waits[t] \in Tasks
      /\ \A t, u \in Waiting : waits[t] = waits[u] => t = u
  BY WaitingAwaits DEF CInv
<1>3. \A t \in Waiting : waits[t] # r /\ waits[t] # s
  BY WaitingAwaits, ConstantsAssumption DEF CInv
<1>4. Last(g[r]) = Last(g[s])
  BY <1>1, <1>2, CallsFound DEF CallsAreChains
<1>. QED
  BY <1>1, <1>2, <1>3, <1>4, RootsApart

(* A step that leaves alone who awaits whom leaves the calls alone.        *)
LEMMA CallsKept ==
  ASSUME CInv, Waiting' = Waiting, \A t \in Waiting : waits'[t] = waits[t]
  PROVE  ChainsExist' /\ \A r \in Tasks : CallsBelow(r)' = CallsBelow(r)
<1>1. PICK g : Chains(Waiting, waits, g)
  BY DEF CInv, ChainsExist
<1>2. \A t \in Waiting : waits[t] \in Tasks
  BY WaitingAwaits DEF CInv
<1>3. Chains(Waiting', waits', g) /\ \A t \in Waiting' : waits'[t] \in Tasks
  BY <1>1, <1>2 DEF Chains
<1>4. \A r \in Tasks : CallsBelow(r)' = g[r]
  BY <1>3, CallsFoundNext DEF CallsAreChains
<1>5. \A r \in Tasks : CallsBelow(r) = g[r]
  BY <1>1, <1>2, CallsFound DEF CallsAreChains
<1>. QED
  BY <1>3, <1>4, <1>5 DEF ChainsExist

(* Who is in charge, and whether an exception is under way.                *)
Charge ==
  IInv =>
    /\ \A p \in Tasks : control = "body" /\ Runs(p) =>
         InCharge = p /\ (Unwinding <=> at[p] = "throwing")
    /\ \A t \in Tasks : control = "loop" /\ next = t =>
         InCharge = t /\ (Unwinding <=> at[t] = "awaiting" /\ res[waits[t]] = "exception")
    /\ (control \in {"owner", "destroy"} \/ (control = "loop" /\ next \notin Tasks)) =>
         InCharge = Owner /\ ~Unwinding

(* The place of control and the handle in the loop say who is in charge.   *)
LEMMA ChargeIs == Charge
<1> SUFFICES ASSUME IInv
             PROVE
    /\ \A p \in Tasks : control = "body" /\ Runs(p) =>
         InCharge = p /\ (Unwinding <=> at[p] = "throwing")
    /\ \A t \in Tasks : control = "loop" /\ next = t =>
         InCharge = t /\ (Unwinding <=> at[t] = "awaiting" /\ res[waits[t]] = "exception")
    /\ (control \in {"owner", "destroy"} \/ (control = "loop" /\ next \notin Tasks)) =>
         InCharge = Owner /\ ~Unwinding
  BY DEF Charge
<1>1. ASSUME NEW p \in Tasks, control = "body", Runs(p)
      PROVE  InCharge = p /\ (Unwinding <=> at[p] = "throwing")
  <2>1. InControl = {p}
    BY <1>1 DEF InControl, IInv, OneRuns, Runs
  <2>2. at[p] # "awaiting"
    BY <1>1 DEF Runs
  <2>. QED
    BY <2>1, <2>2 DEF InCharge, Unwinding
<1>2. ASSUME NEW t \in Tasks, control = "loop", next = t
      PROVE  InCharge = t /\ (Unwinding <=> at[t] = "awaiting" /\ res[waits[t]] = "exception")
  <2>1. InControl = {t}
    BY <1>2 DEF InControl
  <2>2. at[t] # "throwing"
    BY <1>2 DEF IInv, OneRuns, Runs
  <2>. QED
    BY <2>1, <2>2 DEF InCharge, Unwinding
<1>3. ASSUME control \in {"owner", "destroy"} \/ (control = "loop" /\ next \notin Tasks)
      PROVE  InCharge = Owner /\ ~Unwinding
  <2>1. InControl = {}
    BY <1>3 DEF InControl
  <2>. QED
    BY <2>1 DEF InCharge, Unwinding
<1>. QED
  BY <1>1, <1>2, <1>3

(* The same after a step.                                                  *)
LEMMA ChargeIsNext == Charge'
  BY ChargeIs, PTL

(* The shape of the stacks after a step.                                   *)
LEMMA CallsHaveShapeNext == CallsShape'
  BY CallsHaveShape, PTL

-------------------------------------------------------------------------------
(* Steps that leave alone who awaits whom.                                 *)
LEMMA InvKept ==
  ASSUME CInv, Waiting' = Waiting, \A t \in Waiting : waits'[t] = waits[t], AwaitsOwned',
         \A t \in Tasks : Top(t)' => Top(t) \/ (Base(t)' /\ t \notin Waiting),
         \A r \in Tasks : Base(r) => Base(r)'
  PROVE  CInv' /\ \A r \in Tasks : CallsBelow(r)' = CallsBelow(r)
<1>1. ChainsExist' /\ \A r \in Tasks : CallsBelow(r)' = CallsBelow(r)
  BY CallsKept
<1>2. ASSUME NEW t \in Tasks, Top(t)'
      PROVE  \E r \in Tasks : Base(r)' /\ Last(CallsBelow(r)') = t
  <2>1. CASE Top(t)
    <3>1. PICK r \in Tasks : Base(r) /\ Last(CallsBelow(r)) = t
      BY <2>1 DEF CInv, Rooted
    <3>. QED
      BY <1>1, <3>1
  <2>2. CASE Base(t)' /\ t \notin Waiting
    <3>1. Last(CallsBelow(t)) = t
      BY <2>2, CallsHaveShape, Single DEF CallsShape, ShapeOf
    <3>. QED
      BY <1>1, <2>2, <3>1
  <2>. QED
    BY <1>2, <2>1, <2>2
<1>3. Rooted'
  BY <1>2 DEF Rooted
<1>. QED
  BY <1>1, <1>3 DEF CInv

OnStack(r) == Root(r) /\ Called(r)

(* The stacks change only with the calls or with the tasks that have one.  *)
LEMMA StacksKept ==
  ASSUME \A r \in Tasks : CallsBelow(r)' = CallsBelow(r),
         \A r \in Tasks : OnStack(r)' <=> OnStack(r)
  PROVE  CallStacks' = CallStacks
  BY DEF CallStacks, OnStack

(* A step that TaskCalls does not see.                                     *)
LEMMA Stutter ==
  ASSUME CallStacks' = CallStacks, InCharge' = InCharge, Unwinding' <=> Unwinding
  PROVE  UNCHANGED Calls!vars
<1>1. Unwinding' = Unwinding
  BY Zenon DEF Unwinding
<1>. QED
  BY <1>1 DEF Calls!vars

(* Making a task calls nothing.                                            *)
LEMMA MakeKeeps ==
  ASSUME IInv, IInv', CInv, NEW o \in Tasks \cup {Owner}, NEW t \in Tasks,
         (OwnerMakes(t) /\ o = Owner) \/ (BodyMakes(o, t) /\ o \in Tasks)
  PROVE  CInv' /\ UNCHANGED Calls!vars
<1>1. Make(o, t) /\ control' = control /\ control \in {"owner", "body"} /\ dying = {}
      /\ at[t] = "free" /\ next' = next /\ dying' = dying
  BY DEF OwnerMakes, BodyMakes, Make, IInv, DyingIsAPath
<1>2. /\ at' = [at EXCEPT ![t] = "initial"] /\ owner' = [owner EXCEPT ![t] = o]
      /\ waits' = [waits EXCEPT ![t] = null] /\ res' = [res EXCEPT ![t] = "none"]
  BY <1>1 DEF Make
<1>3. \A p \in Tasks : at[p] = "awaiting" => waits[p] # t /\ p # t
  BY <1>1 DEF IInv, AwaitsArePairs
<1>4. Waiting' = Waiting /\ \A u \in Waiting : waits'[u] = waits[u]
  BY <1>1, <1>2, <1>3 DEF Waiting, IInv, TypeOK, CInv, AwaitsOwned
<1>5. AwaitsOwned'
  BY <1>1, <1>2, <1>3 DEF AwaitsOwned, IInv, TypeOK, CInv
<1>6. \A u \in Tasks : Top(u)' => Top(u) \/ (Base(u)' /\ u \notin Waiting)
  BY <1>1, <1>2, <1>4 DEF Top, Begun, Runs, IInv, TypeOK
<1>7. \A r \in Tasks : Base(r) => Base(r)'
  BY <1>1, <1>2 DEF Base, IInv, TypeOK
<1>8. CInv' /\ \A r \in Tasks : CallsBelow(r)' = CallsBelow(r)
  BY <1>4, <1>5, <1>6, <1>7, InvKept
<1>9. \A r \in Tasks : OnStack(r)' <=> OnStack(r)
  BY <1>1, <1>2 DEF OnStack, Root, Called, IInv, TypeOK
<1>10. CallStacks' = CallStacks
  BY <1>8, <1>9, StacksKept
<1>11. InCharge' = InCharge /\ (Unwinding' <=> Unwinding)
  <2>1. CASE OwnerMakes(t)
    BY <1>1, <2>1, ChargeIs, ChargeIsNext DEF Charge, OwnerMakes
  <2>2. CASE BodyMakes(o, t) /\ o \in Tasks
    <3>1. Runs(o) /\ Runs(o)' /\ control = "body" /\ at'[o] = at[o]
      BY <1>1, <1>2, <2>2 DEF BodyMakes, Runs, IInv, TypeOK
    <3>. QED
      BY <1>1, <2>2, <3>1, ChargeIs, ChargeIsNext DEF Charge
  <2>. QED
    BY <2>1, <2>2
<1>. QED
  BY <1>8, <1>10, <1>11, Stutter

(* What is on a stack is its base or is awaited.                           *)
LEMMA OnStackOrAwaited ==
  ASSUME CInv, NEW s \in Tasks, NEW c \in Tasks, Contains(CallStacks[s], c)
  PROVE  (c = s /\ OnStack(s)) \/ (OnStack(s) /\ \E q \in Waiting : waits[q] = c)
<1>1. OnStack(s) /\ CallStacks[s] = CallsBelow(s)
  <2>1. ~Contains(<<>>, c)
    BY DEF Contains
  <2>. QED
    BY <2>1 DEF CallStacks, OnStack
<1> DEFINE b == CallsBelow(s)
<1>2. PICK k \in 1..Len(b) : b[k] = c
  BY <1>1 DEF Contains
<1>3. ShapeOf(s, b)
  BY CallsHaveShape DEF CallsShape
<1> HIDE DEF b
<1>4. CASE k = 1
  BY <1>1, <1>2, <1>3, <1>4 DEF ShapeOf
<1>5. CASE k # 1
  <2>1. k - 1 \in 1..(Len(b) - 1) /\ (k - 1) + 1 = k
    BY <1>3, <1>5 DEF ShapeOf
  <2>2. b[k - 1] \in Waiting /\ c = waits[b[k - 1]]
    BY <1>2, <1>3, <2>1 DEF ShapeOf
  <2>. QED
    BY <1>1, <2>2
<1>. QED
  BY <1>4, <1>5

(* start() begins a stack with one call.                                   *)
LEMMA StartBegins ==
  ASSUME IInv, IInv', CInv, NEW r \in Tasks, Start(r)
  PROVE  CInv' /\ Calls!Begin(r)
<1>1. /\ at[r] = "initial" /\ owner[r] = Owner /\ control = "owner" /\ control' = "loop" /\ next' = r
      /\ UNCHANGED <<at, owner, cont, waits, res, left, dying>> /\ dying = {}
  BY DEF Start, EnterLoop, IInv, DyingIsAPath
<1>2. Waiting' = Waiting /\ \A u \in Waiting : waits'[u] = waits[u]
  BY <1>1 DEF Waiting
<1>3. AwaitsOwned'
  BY <1>1 DEF AwaitsOwned, CInv
<1>4. r \notin Waiting /\ Base(r)'
  BY <1>1 DEF Waiting, Base
<1>5. \A u \in Tasks : Top(u)' => Top(u) \/ (Base(u)' /\ u \notin Waiting)
  BY <1>1, <1>2, <1>4 DEF Top, Begun, Runs
<1>6. \A u \in Tasks : Base(u) => Base(u)'
  BY <1>1 DEF Base
<1>7. CInv' /\ \A u \in Tasks : CallsBelow(u)' = CallsBelow(u)
  BY <1>2, <1>3, <1>5, <1>6, InvKept
<1>8. CallsBelow(r) = <<r>>
  BY <1>4, CallsHaveShape DEF CallsShape, ShapeOf
<1>9. InCharge = Owner /\ ~Unwinding /\ InCharge' = r /\ ~Unwinding'
  BY <1>1, ChargeIs, ChargeIsNext DEF Charge
<1>10. \A s \in Tasks : ~Contains(CallStacks[s], r)
  <2>1. ~OnStack(r)
    BY <1>1 DEF OnStack, Called
  <2>2. \A q \in Waiting : waits[q] # r
    BY <1>1, WaitingAwaits, ConstantsAssumption DEF CInv
  <2>. QED
    BY <2>1, <2>2, OnStackOrAwaited
<1>11. OnStack(r)' /\ \A u \in Tasks \ {r} : OnStack(u)' <=> OnStack(u)
  BY <1>1 DEF OnStack, Root, Called
<1>12. CallStacks' = [CallStacks EXCEPT ![r] = <<r>>]
  BY <1>7, <1>8, <1>11 DEF CallStacks, OnStack
<1>13. Unwinding' = Unwinding
  BY <1>9, Zenon DEF Unwinding
<1>. QED
  BY <1>7, <1>9, <1>10, <1>12, <1>13 DEF Calls!Begin, Calls!Contains, Contains

(* The base of the calls below which a top is.                             *)
LEMMA BaseOf ==
  ASSUME IInv, CInv, NEW t \in Tasks, Top(t), dying = {}
  PROVE  \E r \in Tasks :
           /\ owner[r] = Owner /\ Base(r) /\ OnStack(r) /\ Last(CallsBelow(r)) = t
           /\ CallStacks[r] = CallsBelow(r) /\ CallStacks[r] # <<>> /\ Last(CallStacks[r]) = t
           /\ \A s \in Tasks : OnStack(s) /\ Last(CallsBelow(s)) = t => s = r
<1>1. PICK r \in Tasks : Base(r) /\ Last(CallsBelow(r)) = t
  BY DEF CInv, Rooted
<1>2. Called(r)
  <2>1. CASE at[r] = "initial"
    <3>1. r = t
      <4>1. r \notin Waiting
        BY <2>1 DEF Waiting
      <4>. QED
        BY <1>1, <4>1, CallsHaveShape, Single DEF CallsShape, ShapeOf
    <3>. QED
      BY <2>1, <3>1 DEF Top, Begun, Runs, Called
  <2>2. CASE at[r] # "initial"
    BY <2>2 DEF Called
  <2>. QED
    BY <2>1, <2>2
<1>3. owner[r] = Owner /\ OnStack(r)
  BY <1>1, <1>2 DEF Base, OnStack, Root
<1>4. CallStacks[r] = CallsBelow(r) /\ CallsBelow(r) # <<>>
  BY <1>3, CallsHaveShape DEF CallStacks, OnStack, CallsShape, ShapeOf
<1>5. ASSUME NEW s \in Tasks, OnStack(s), Last(CallsBelow(s)) = t PROVE s = r
  BY <1>1, <1>3, <1>5, BasesApart DEF OnStack, Root
<1>. QED
  BY <1>1, <1>3, <1>4, <1>5

(* Resuming who awaited an external event continues the stack it is the    *)
(* top of.                                                                 *)
LEMMA EventContinues ==
  ASSUME IInv, IInv', CInv, NEW t \in Tasks, Event(t)
  PROVE  CInv' /\ \E r \in Tasks : Calls!Continue(r)
<1>1. /\ at[t] = "external" /\ control = "owner" /\ control' = "loop" /\ next' = t
      /\ UNCHANGED <<at, owner, cont, waits, res, left, dying>> /\ dying = {}
  BY DEF Event, EnterLoop, IInv, DyingIsAPath
<1>2. Waiting' = Waiting /\ \A u \in Waiting : waits'[u] = waits[u]
  BY <1>1 DEF Waiting
<1>3. AwaitsOwned'
  BY <1>1 DEF AwaitsOwned, CInv
<1>4. Top(t)
  BY <1>1 DEF Top, Waiting, Begun
<1>5. \A u \in Tasks : Top(u)' => Top(u) \/ (Base(u)' /\ u \notin Waiting)
  BY <1>1, <1>2, <1>4 DEF Top, Begun, Runs
<1>6. \A u \in Tasks : Base(u) => Base(u)'
  BY <1>1 DEF Base
<1>7. CInv' /\ \A u \in Tasks : CallsBelow(u)' = CallsBelow(u)
  BY <1>2, <1>3, <1>5, <1>6, InvKept
<1>8. InCharge = Owner /\ ~Unwinding /\ InCharge' = t /\ ~Unwinding'
  BY <1>1, ChargeIs, ChargeIsNext DEF Charge
<1>9. \A u \in Tasks : OnStack(u)' <=> OnStack(u)
  BY <1>1 DEF OnStack, Root, Called
<1>10. CallStacks' = CallStacks
  BY <1>7, <1>9, StacksKept
<1>11. Unwinding' = Unwinding
  BY <1>8, Zenon DEF Unwinding
<1>12. PICK r \in Tasks : CallStacks[r] # <<>> /\ Last(CallStacks[r]) = t
  BY <1>1, <1>4, BaseOf
<1>13. Calls!Continue(r)
  BY <1>8, <1>10, <1>11, <1>12 DEF Calls!Continue, Calls!Last, Last
<1>. QED
  BY <1>7, <1>13

(* The loop in resume() only passes on the control that the last step gave *)
(* away.                                                                   *)
LEMMA LoopKeeps ==
  ASSUME IInv, IInv', CInv, LoopResumesNoop \/ LoopEnds \/ \E t \in Tasks : LoopResumes(t)
  PROVE  CInv' /\ UNCHANGED Calls!vars
<1>1. control = "loop" /\ dying = {} /\ \A t \in Tasks : ~Runs(t)
  BY DEF LoopResumesNoop, LoopEnds, LoopResumes, IInv, DyingIsAPath, OneRuns
<1>2. CASE LoopResumesNoop \/ LoopEnds
  <2>1. /\ next \notin Tasks /\ next' \notin Tasks /\ control' \in {"owner", "loop"}
        /\ UNCHANGED <<at, owner, cont, waits, res, left, dying>>
    BY <1>2, ConstantsAssumption DEF LoopResumesNoop, LoopEnds, NoopResume
  <2>2. Waiting' = Waiting /\ \A u \in Waiting : waits'[u] = waits[u]
    BY <2>1 DEF Waiting
  <2>3. AwaitsOwned'
    BY <1>1, <2>1 DEF AwaitsOwned, CInv, IInv, AwaitsArePairs
  <2>4. \A u \in Tasks : Top(u)' => Top(u) \/ (Base(u)' /\ u \notin Waiting)
    BY <2>1, <2>2 DEF Top, Begun, Runs
  <2>5. \A u \in Tasks : Base(u) => Base(u)'
    BY <2>1 DEF Base
  <2>6. CInv' /\ \A u \in Tasks : CallsBelow(u)' = CallsBelow(u)
    BY <2>2, <2>3, <2>4, <2>5, InvKept
  <2>7. \A u \in Tasks : OnStack(u)' <=> OnStack(u)
    BY <1>1, <2>1 DEF OnStack, Root, Called
  <2>8. CallStacks' = CallStacks
    BY <2>6, <2>7, StacksKept
  <2>9. InCharge = Owner /\ ~Unwinding /\ InCharge' = Owner /\ ~Unwinding'
    BY <1>1, <2>1, ChargeIs, ChargeIsNext DEF Charge
  <2>. QED
    BY <2>6, <2>8, <2>9, Stutter
<1>3. ASSUME NEW t \in Tasks, LoopResumes(t) PROVE CInv' /\ UNCHANGED Calls!vars
  <2>1. /\ next = t /\ control' = "body" /\ next' = null
        /\ at' = [at EXCEPT ![t] = IF @ = "awaiting" THEN AfterAwait(waits[t]) ELSE "running"]
        /\ waits' = [waits EXCEPT ![t] = null] /\ UNCHANGED <<owner, cont, res, left, dying>>
    BY <1>3 DEF LoopResumes
  <2>2. /\ at[t] \in {"initial", "awaiting", "external"} /\ t \notin Waiting
        /\ \A p \in Tasks : at[p] = "awaiting" /\ at[waits[p]] = "done" => p = t
    BY <1>1, <2>1 DEF IInv, NextIsReady, AwaitsArePairs, Waiting
  <2>3. at'[t] \in {"running", "throwing"} /\ \A u \in Tasks \ {t} : at'[u] = at[u] /\ waits'[u] = waits[u]
    BY <2>1 DEF IInv, TypeOK, AfterAwait
  <2>4. Waiting' = Waiting /\ \A u \in Waiting : waits'[u] = waits[u]
    BY <2>2, <2>3 DEF Waiting, CInv, AwaitsOwned
  <2>5. AwaitsOwned'
    BY <2>1, <2>2, <2>3 DEF AwaitsOwned, CInv
  <2>6. \A u \in Tasks : Top(u)' => Top(u) \/ (Base(u)' /\ u \notin Waiting)
    BY <1>1, <2>1, <2>3, <2>4 DEF Top, Begun, Runs
  <2>7. \A u \in Tasks : Base(u) => Base(u)'
    BY <2>1, <2>3 DEF Base
  <2>8. CInv' /\ \A u \in Tasks : CallsBelow(u)' = CallsBelow(u)
    BY <2>4, <2>5, <2>6, <2>7, InvKept
  <2>9. \A u \in Tasks : OnStack(u)' <=> OnStack(u)
    BY <1>1, <2>1, <2>2, <2>3 DEF OnStack, Root, Called
  <2>10. CallStacks' = CallStacks
    BY <2>8, <2>9, StacksKept
  <2>11. InCharge = t /\ (Unwinding <=> at[t] = "awaiting" /\ res[waits[t]] = "exception")
    BY <1>1, <2>1, ChargeIs DEF Charge
  <2>12. InCharge' = t /\ (Unwinding' <=> at'[t] = "throwing")
    BY <2>1, <2>3, ChargeIsNext DEF Charge, Runs
  <2>13. at'[t] = "throwing" <=> at[t] = "awaiting" /\ res[waits[t]] = "exception"
    BY <2>1 DEF AfterAwait, IInv, TypeOK
  <2>. QED
    BY <2>8, <2>10, <2>11, <2>12, <2>13, Stutter
<1>. QED
  BY <1>2, <1>3

(* The body that runs is on top of a stack.                                *)
LEMMA BodyRuns ==
  ASSUME IInv, CInv, NEW p \in Tasks, control = "body", Runs(p)
  PROVE  /\ dying = {} /\ InCharge = p /\ (Unwinding <=> at[p] = "throwing")
         /\ \E r \in Tasks :
              /\ owner[r] = Owner /\ Base(r) /\ OnStack(r) /\ Last(CallsBelow(r)) = p
              /\ CallStacks[r] = CallsBelow(r)
              /\ \A s \in Tasks : OnStack(s) /\ Last(CallsBelow(s)) = p => s = r
              /\ Calls!Runs(r)
<1>1. dying = {} /\ InCharge = p /\ (Unwinding <=> at[p] = "throwing")
  BY ChargeIs DEF Charge, IInv, DyingIsAPath
<1>2. Top(p)
  BY DEF Top, Waiting, Begun, Runs
<1>3. PICK r \in Tasks :
           /\ owner[r] = Owner /\ Base(r) /\ OnStack(r) /\ Last(CallsBelow(r)) = p
           /\ CallStacks[r] = CallsBelow(r) /\ CallStacks[r] # <<>> /\ Last(CallStacks[r]) = p
           /\ \A s \in Tasks : OnStack(s) /\ Last(CallsBelow(s)) = p => s = r
  BY <1>1, <1>2, BaseOf
<1>4. Calls!Runs(r)
  BY <1>1, <1>3 DEF Calls!Runs, Calls!Last, Last
<1>. QED
  BY <1>1, <1>3, <1>4

(* Steps of a body that only move between running and throwing.            *)
LEMMA BodyMoves ==
  ASSUME IInv, IInv', CInv, NEW p \in Tasks, control = "body", control' = "body", Runs(p), Runs(p)',
         \A u \in Tasks \ {p} : at'[u] = at[u],
         UNCHANGED <<owner, cont, waits, res, next, dying>>
  PROVE  CInv' /\ CallStacks' = CallStacks
<1>1. \A u \in Tasks : at[u] = "awaiting" => at[waits[u]] # "done"
  BY DEF CInv, AwaitsOwned
<1>2. Waiting' = Waiting /\ \A u \in Waiting : waits'[u] = waits[u]
  BY <1>1 DEF Waiting, Runs, CInv, AwaitsOwned
<1>3. AwaitsOwned'
  BY <1>1 DEF AwaitsOwned, CInv, Runs
<1>4. \A u \in Tasks : Top(u)' => Top(u) \/ (Base(u)' /\ u \notin Waiting)
  BY <1>2 DEF Top, Begun, Runs
<1>5. \A u \in Tasks : Base(u) => Base(u)'
  BY DEF Base, Runs
<1>6. CInv' /\ \A u \in Tasks : CallsBelow(u)' = CallsBelow(u)
  BY <1>2, <1>3, <1>4, <1>5, InvKept
<1>7. \A u \in Tasks : OnStack(u)' <=> OnStack(u)
  BY DEF OnStack, Root, Called, Runs
<1>. QED
  BY <1>6, <1>7, StacksKept

(* An exception that appears in the body that runs.                        *)
LEMMA Raises ==
  ASSUME IInv, IInv', CInv, NEW p \in Tasks, control = "body", Runs(p), CallStacks' = CallStacks,
         at[p] = "running", control' = "body", Runs(p)', at'[p] = "throwing"
  PROVE  \E r \in Tasks : Calls!Raise(r)
<1>1. PICK r \in Tasks : Calls!Runs(r) /\ InCharge = p /\ ~Unwinding
  BY BodyRuns
<1>2. InCharge' = p /\ Unwinding'
  BY ChargeIsNext DEF Charge
<1>3. Unwinding' = TRUE
  BY <1>2, Zenon DEF Unwinding
<1>4. Calls!Raise(r)
  BY <1>1, <1>2, <1>3 DEF Calls!Raise
<1>. QED
  BY <1>4

(* Awaiting a task that is done gives its result or raises its exception.  *)
LEMMA AwaitDoneMaps ==
  ASSUME IInv, IInv', CInv, NEW p \in Tasks, NEW c \in Tasks, AwaitDone(p, c)
  PROVE  CInv' /\ (UNCHANGED Calls!vars \/ \E r \in Tasks : Calls!Raise(r))
<1>1. /\ control = "body" /\ control' = "body" /\ at[p] = "running" /\ at'[p] \in {"running", "throwing"}
      /\ \A u \in Tasks \ {p} : at'[u] = at[u]
      /\ UNCHANGED <<owner, cont, waits, res, next, dying>>
  BY DEF AwaitDone, Awaits, AfterAwait, IInv, TypeOK
<1>2. Runs(p) /\ Runs(p)'
  BY <1>1 DEF Runs
<1>3. CInv' /\ CallStacks' = CallStacks
  BY <1>1, <1>2, BodyMoves
<1>4. CASE at'[p] = "throwing"
  BY <1>1, <1>2, <1>3, <1>4, Raises
<1>5. CASE at'[p] = "running"
  <2>1. InCharge = p /\ ~Unwinding /\ InCharge' = p /\ ~Unwinding'
    BY <1>1, <1>2, <1>5, ChargeIs, ChargeIsNext DEF Charge
  <2>. QED
    BY <1>3, <2>1, Stutter
<1>. QED
  BY <1>1, <1>3, <1>4, <1>5

(* A body throws: an exception is under way at the top of its stack.       *)
LEMMA ThrowsMaps ==
  ASSUME IInv, IInv', CInv, NEW p \in Tasks, Throws(p)
  PROVE  CInv' /\ \E r \in Tasks : Calls!Raise(r)
<1>1. /\ control = "body" /\ control' = "body" /\ at[p] = "running" /\ at'[p] = "throwing"
      /\ \A u \in Tasks \ {p} : at'[u] = at[u]
      /\ UNCHANGED <<owner, cont, waits, res, next, dying>>
  BY DEF Throws, IInv, TypeOK
<1>2. Runs(p) /\ Runs(p)'
  BY <1>1 DEF Runs
<1>3. CInv' /\ CallStacks' = CallStacks
  BY <1>1, <1>2, BodyMoves
<1>. QED
  BY <1>1, <1>2, <1>3, Raises

(* A body with a try-block catches it.                                     *)
LEMMA CatchesMaps ==
  ASSUME IInv, IInv', CInv, NEW p \in Tasks, Catches(p)
  PROVE  CInv' /\ \E r \in Tasks : Calls!Catch(r)
<1>1. /\ control = "body" /\ control' = "body" /\ at[p] = "throwing" /\ at'[p] = "running"
      /\ \A u \in Tasks \ {p} : at'[u] = at[u] /\ p \in Catchers
      /\ UNCHANGED <<owner, cont, waits, res, next, dying>>
  BY DEF Catches, IInv, TypeOK
<1>2. Runs(p) /\ Runs(p)'
  BY <1>1 DEF Runs
<1>3. CInv' /\ CallStacks' = CallStacks
  BY <1>1, <1>2, BodyMoves
<1>4. PICK r \in Tasks : Calls!Runs(r) /\ InCharge = p /\ Unwinding
  BY <1>1, <1>2, BodyRuns
<1>5. InCharge' = p /\ ~Unwinding'
  BY <1>1, <1>2, ChargeIsNext DEF Charge
<1>6. Unwinding' = FALSE
  BY <1>5, Zenon DEF Unwinding
<1>7. p \in Catchers
  BY DEF Catches
<1>8. Calls!Catch(r)
  BY <1>3, <1>4, <1>5, <1>6, <1>7 DEF Calls!Catch
<1>. QED
  BY <1>3, <1>8

(* Awaiting an external event pauses the whole stack and returns to the    *)
(* owner.                                                                  *)
LEMMA AwaitEventPauses ==
  ASSUME IInv, IInv', CInv, NEW p \in Tasks, AwaitEvent(p)
  PROVE  CInv' /\ \E r \in Tasks : Calls!Pause(r)
<1>1. /\ control = "body" /\ control' = "loop" /\ next' = null /\ at[p] = "running" /\ at'[p] = "external"
      /\ \A u \in Tasks \ {p} : at'[u] = at[u]
      /\ UNCHANGED <<owner, cont, waits, res, dying>>
  BY DEF AwaitEvent, BodyReturns, IInv, TypeOK
<1>2. null \notin Tasks /\ Runs(p)
  BY <1>1, ConstantsAssumption DEF Runs
<1>3. Waiting' = Waiting /\ \A u \in Waiting : waits'[u] = waits[u]
  BY <1>1 DEF Waiting, CInv, AwaitsOwned
<1>4. AwaitsOwned'
  BY <1>1 DEF AwaitsOwned, CInv
<1>5. \A u \in Tasks : Top(u)' => Top(u) \/ (Base(u)' /\ u \notin Waiting)
  BY <1>1, <1>2, <1>3 DEF Top, Begun, Runs
<1>6. \A u \in Tasks : Base(u) => Base(u)'
  BY <1>1 DEF Base
<1>7. CInv' /\ \A u \in Tasks : CallsBelow(u)' = CallsBelow(u)
  BY <1>3, <1>4, <1>5, <1>6, InvKept
<1>8. \A u \in Tasks : OnStack(u)' <=> OnStack(u)
  BY <1>1, <1>2 DEF OnStack, Root, Called
<1>9. CallStacks' = CallStacks
  BY <1>7, <1>8, StacksKept
<1>10. PICK r \in Tasks : Calls!Runs(r) /\ ~Unwinding
  BY <1>1, <1>2, BodyRuns
<1>11. InCharge' = Owner /\ ~Unwinding'
  BY <1>1, <1>2, ChargeIsNext DEF Charge
<1>12. Unwinding' = Unwinding
  BY <1>10, <1>11, Zenon DEF Unwinding
<1>13. Calls!Pause(r)
  BY <1>9, <1>10, <1>11, <1>12 DEF Calls!Pause
<1>. QED
  BY <1>7, <1>13

(* A body destroys a task it owns that is not part of any stack.           *)
LEMMA BodyDropsKeeps ==
  ASSUME IInv, IInv', CInv, NEW p \in Tasks, NEW c \in Tasks, BodyDrops(p, c)
  PROVE  CInv' /\ UNCHANGED Calls!vars
<1>1. /\ control = "body" /\ control' = "body" /\ at[p] = "running" /\ at'[p] = "running" /\ owner[c] = p
      /\ at[c] \in {"initial", "done"} /\ at'[c] = "free"
      /\ \A u \in Tasks \ {c} : at'[u] = at[u]
      /\ UNCHANGED <<owner, cont, waits, res, next, dying>>
  BY DEF BodyDrops, IInv, TypeOK
<1>2. Runs(p) /\ Runs(p)' /\ p \notin {Owner}
  BY <1>1, ConstantsAssumption DEF Runs
<1>3. \A u \in Tasks : at[u] = "awaiting" => waits[u] # c
  BY <1>1 DEF CInv, AwaitsOwned
<1>4. Waiting' = Waiting /\ \A u \in Waiting : waits'[u] = waits[u]
  BY <1>1, <1>3 DEF Waiting, CInv, AwaitsOwned
<1>5. AwaitsOwned'
  BY <1>1, <1>3 DEF AwaitsOwned, CInv
<1>6. \A u \in Tasks : Top(u)' => Top(u) \/ (Base(u)' /\ u \notin Waiting)
  BY <1>1, <1>4 DEF Top, Begun, Runs
<1>7. \A u \in Tasks : Base(u) => Base(u)'
  BY <1>1, <1>2 DEF Base
<1>8. CInv' /\ \A u \in Tasks : CallsBelow(u)' = CallsBelow(u)
  BY <1>4, <1>5, <1>6, <1>7, InvKept
<1>9. \A u \in Tasks : OnStack(u)' <=> OnStack(u)
  BY <1>1, <1>2 DEF OnStack, Root, Called
<1>10. CallStacks' = CallStacks
  BY <1>8, <1>9, StacksKept
<1>11. InCharge = p /\ ~Unwinding /\ InCharge' = p /\ ~Unwinding'
  BY <1>1, <1>2, ChargeIs, ChargeIsNext DEF Charge
<1>. QED
  BY <1>8, <1>10, <1>11, Stutter

(* destroy() of the owner takes a whole stack away when it begins.         *)
LEMMA DyingMaps ==
  ASSUME IInv, IInv', CInv, NEW t \in Tasks, OwnerDrops(t) \/ \E u \in Tasks : DestroyChild(u, t)
  PROVE  CInv' /\ (UNCHANGED Calls!vars \/ Calls!Cancel(t))
<1>1. /\ control \in {"owner", "destroy"} /\ control' = "destroy" /\ t \notin dying
      /\ dying' = dying \cup {t}
      /\ UNCHANGED <<at, owner, cont, waits, res, next>>
  BY DEF OwnerDrops, DestroyChild, IInv, DyingIsAPath
<1>2. Waiting' = Waiting /\ \A u \in Waiting : waits'[u] = waits[u]
  BY <1>1 DEF Waiting
<1>3. AwaitsOwned'
  BY <1>1 DEF AwaitsOwned, CInv
<1>4. \A u \in Tasks : Top(u)' => Top(u) \/ (Base(u)' /\ u \notin Waiting)
  BY <1>1, <1>2 DEF Top, Begun, Runs
<1>5. \A u \in Tasks : Base(u) => Base(u)'
  BY <1>1 DEF Base
<1>6. CInv' /\ \A u \in Tasks : CallsBelow(u)' = CallsBelow(u)
  BY <1>2, <1>3, <1>4, <1>5, InvKept
<1>7. InCharge = Owner /\ ~Unwinding /\ InCharge' = Owner /\ ~Unwinding'
  BY <1>1, ChargeIs, ChargeIsNext DEF Charge
<1>8. CASE OwnerDrops(t)
  <2>1. ~OnStack(t)' /\ \A u \in Tasks \ {t} : OnStack(u)' <=> OnStack(u)
    BY <1>1 DEF OnStack, Root, Called
  <2>2. CallStacks' = [CallStacks EXCEPT ![t] = <<>>]
    BY <1>6, <2>1 DEF CallStacks, OnStack
  <2>3. Unwinding' = Unwinding
    BY <1>7, Zenon DEF Unwinding
  <2>4. Calls!Cancel(t)
    BY <1>7, <2>2, <2>3 DEF Calls!Cancel
  <2>. QED
    BY <1>6, <2>4
<1>9. CASE \E u \in Tasks : DestroyChild(u, t)
  <2>1. owner[t] \in Tasks
    BY <1>9 DEF DestroyChild, Children
  <2>2. \A u \in Tasks : OnStack(u)' <=> OnStack(u)
    BY <1>1, <2>1, ConstantsAssumption DEF OnStack, Root, Called
  <2>3. CallStacks' = CallStacks
    BY <1>6, <2>2, StacksKept
  <2>. QED
    BY <1>6, <1>7, <2>3, Stutter
<1>. QED
  BY <1>8, <1>9

-------------------------------------------------------------------------------
(* co_await on a task that has not run: its frame goes on top.             *)
LEMMA AwaitSuspendCalls ==
  ASSUME IInv, IInv', CInv, NEW p \in Tasks, NEW c \in Tasks, AwaitSuspend(p, c)
  PROVE  CInv' /\ \E r \in Tasks : Calls!Call(r, c)
<1>1. /\ control = "body" /\ control' = "loop" /\ next' = c
      /\ at[p] = "running" /\ at'[p] = "awaiting" /\ at[c] = "initial" /\ owner[c] = p /\ p # c
      /\ \A u \in Tasks \ {p} : at'[u] = at[u] /\ waits'[u] = waits[u]
      /\ waits'[p] = c /\ UNCHANGED <<owner, res, dying>>
  BY DEF AwaitSuspend, Awaits, AwaitReady, BodyReturns, IInv, TypeOK
<1>2. Runs(p) /\ p \notin Waiting /\ c \notin Waiting
  BY <1>1 DEF Runs, Waiting
<1>3. \A u \in Tasks : at[u] = "awaiting" => at[waits[u]] # "done" /\ waits[u] \in Tasks /\ u # p
  BY <1>1 DEF CInv, AwaitsOwned
<1>4. Waiting' = Waiting \cup {p} /\ \A u \in Waiting : waits'[u] = waits[u] /\ waits[u] \in Tasks
  BY <1>1, <1>3 DEF Waiting
<1>5. AwaitsOwned'
  BY <1>1, <1>3 DEF AwaitsOwned, CInv
<1>6. PICK g : Chains(Waiting, waits, g)
  BY DEF CInv, ChainsExist
<1> DEFINE h == [t \in Tasks |-> IF Last(g[t]) = p THEN Append(g[t], c) ELSE g[t]]
<1>7. Chains(Waiting \cup {p}, waits', h)
  BY <1>1, <1>2, <1>4, <1>6, Extend
<1>8. ChainsExist'
  BY <1>4, <1>7 DEF ChainsExist
<1>9. \A r \in Tasks :
        CallsBelow(r)' = IF Last(CallsBelow(r)) = p THEN Append(CallsBelow(r), c) ELSE CallsBelow(r)
  <2>1. \A r \in Tasks : CallsBelow(r) = g[r]
    BY <1>4, <1>6, CallsFound DEF CallsAreChains
  <2>2. \A t \in Waiting' : waits'[t] \in Tasks
    BY <1>1, <1>4
  <2>3. \A r \in Tasks : CallsBelow(r)' = h[r]
    BY <1>4, <1>7, <2>2, CallsFoundNext DEF CallsAreChains
  <2>. QED
    BY <2>1, <2>3
<1>10. PICK r \in Tasks :
         /\ Base(r) /\ OnStack(r) /\ Last(CallsBelow(r)) = p
         /\ CallStacks[r] = CallsBelow(r)
         /\ \A s \in Tasks : OnStack(s) /\ Last(CallsBelow(s)) = p => s = r
         /\ Calls!Runs(r) /\ ~Unwinding
  BY <1>1, <1>2, BodyRuns
<1>11. \A u \in Tasks : Base(u) => Base(u)'
  BY <1>1 DEF Base
<1>12. Last(CallsBelow(r)') = c
  <2>1. CallsBelow(r) \in Seq(Tasks) /\ CallsBelow(r)' = Append(CallsBelow(r), c)
    BY <1>9, <1>10, CallsHaveShape DEF CallsShape, ShapeOf
  <2> DEFINE b == CallsBelow(r)
  <2>2. Len(Append(b, c)) = Len(b) + 1 /\ Append(b, c)[Len(b) + 1] = c
    BY <2>1, AppendProperties
  <2>. QED
    BY <2>1, <2>2 DEF Last
<1>13. Rooted'
  <2>1. ASSUME NEW t \in Tasks, Top(t)', t # c
        PROVE  \E s \in Tasks : Base(s)' /\ Last(CallsBelow(s)') = t
    <3>1. t # p /\ Top(t)
      BY <1>1, <1>4, <2>1 DEF Top, Begun, Runs
    <3>2. PICK s \in Tasks : Base(s) /\ Last(CallsBelow(s)) = t
      BY <3>1 DEF CInv, Rooted
    <3>. QED
      BY <1>9, <1>11, <3>1, <3>2
  <2>. QED
    BY <1>10, <1>11, <1>12, <2>1 DEF Rooted
<1>14. \A s \in Tasks : ~Contains(CallStacks[s], c)
  <2>1. ~OnStack(c)
    BY <1>1, ConstantsAssumption DEF OnStack, Root
  <2>2. \A q \in Waiting : waits[q] # c
    BY <1>1, <1>2, WaitingAwaits DEF CInv
  <2>. QED
    BY <2>1, <2>2, OnStackOrAwaited
<1>15. \A u \in Tasks : OnStack(u)' <=> OnStack(u)
  BY <1>1, ConstantsAssumption DEF OnStack, Root, Called
<1>16. CallStacks' = [CallStacks EXCEPT ![r] = Append(@, c)]
  <2>1. CallsBelow(r)' = Append(CallsBelow(r), c) /\ OnStack(r)'
    BY <1>9, <1>10, <1>15
  <2>2. \A s \in Tasks \ {r} : OnStack(s) => CallsBelow(s)' = CallsBelow(s)
    BY <1>9, <1>10
  <2>. QED
    BY <1>10, <1>15, <2>1, <2>2 DEF CallStacks, OnStack
<1>17. InCharge' = c /\ ~Unwinding'
  BY <1>1, ChargeIsNext DEF Charge
<1>18. Unwinding' = Unwinding
  BY <1>10, <1>17, Zenon DEF Unwinding
<1>19. Calls!Call(r, c)
  BY <1>10, <1>14, <1>16, <1>17, <1>18 DEF Calls!Call, Calls!Contains, Contains
<1>. QED
  BY <1>5, <1>8, <1>13, <1>19 DEF CInv

(* What a step that ends the wait for w leaves of the calls.               *)
LEMMA CallsCut ==
  ASSUME CInv, NEW w \in Tasks, w \notin Waiting, Waiting' = {t \in Waiting : waits[t] # w},
         \A t \in Waiting' : waits'[t] = waits[t]
  PROVE  /\ ChainsExist'
         /\ \A r \in Tasks : CallsBelow(r)' = IF r # w /\ Last(CallsBelow(r)) = w
                                              THEN Front(CallsBelow(r)) ELSE CallsBelow(r)
<1>1. PICK g : Chains(Waiting, waits, g)
  BY DEF CInv, ChainsExist
<1>2. Waiting \subseteq Tasks /\ \A t \in Waiting : waits[t] \in Tasks
  BY WaitingAwaits DEF CInv
<1> DEFINE h == [t \in Tasks |-> IF t # w /\ Last(g[t]) = w THEN Front(g[t]) ELSE g[t]]
<1>3. Chains({t \in Waiting : waits[t] # w}, waits', h)
  BY <1>1, <1>2, Cut
<1>4. \A r \in Tasks : CallsBelow(r) = g[r]
  BY <1>1, <1>2, CallsFound DEF CallsAreChains
<1>5. \A t \in Waiting' : waits'[t] \in Tasks
  BY <1>2
<1>6. \A r \in Tasks : CallsBelow(r)' = h[r]
  BY <1>3, <1>5, CallsFoundNext DEF CallsAreChains
<1>. QED
  BY <1>3, <1>4, <1>6 DEF ChainsExist

(* Who is next to last among the calls awaits the last.                    *)
LEMMA NextToLast ==
  ASSUME CInv, NEW r \in Tasks, Last(CallsBelow(r)) # r
  PROVE  /\ Front(CallsBelow(r)) # <<>>
         /\ Last(Front(CallsBelow(r))) \in Waiting
         /\ waits[Last(Front(CallsBelow(r)))] = Last(CallsBelow(r))
<1> DEFINE b == CallsBelow(r)
           f == Front(b)
<1>1. ShapeOf(r, b)
  BY CallsHaveShape DEF CallsShape
<1> HIDE DEF b
<1>2. b \in Seq(Tasks) /\ b # <<>> /\ Len(b) \in Nat \ {0} /\ b[1] = r /\ Last(b) = b[Len(b)]
  BY <1>1 DEF ShapeOf, Last
<1>3. Last(b) # r
  BY DEF b
<1>4. Len(b) - 1 \in Nat \ {0} /\ Len(b) - 1 \in 1..(Len(b) - 1) /\ (Len(b) - 1) + 1 = Len(b)
  BY <1>2, <1>3
<1>5. f \in Seq(Tasks) /\ Len(f) = Len(b) - 1 /\ f[Len(b) - 1] = b[Len(b) - 1]
  BY <1>2, <1>4, AllButLast
<1>6. f # <<>> /\ Last(f) = b[Len(b) - 1]
  BY <1>4, <1>5 DEF Last
<1>7. b[Len(b) - 1] \in Waiting /\ b[Len(b)] = waits[b[Len(b) - 1]]
  BY <1>1, <1>4 DEF ShapeOf
<1>. QED
  BY <1>2, <1>6, <1>7 DEF b

(* The end of a body takes its frame off the stack, and control goes to    *)
(* the one below it.                                                       *)
LEMMA FinishLeaves ==
  ASSUME IInv, IInv', CInv, NEW p \in Tasks, Finish(p)
  PROVE  CInv' /\ \E r \in Tasks : Calls!Leave(r)
<1>1. /\ control = "body" /\ control' = "loop" /\ next' = FinalTransfer(p)
      /\ at[p] \in {"running", "throwing"} /\ at'[p] = "done"
      /\ \A u \in Tasks \ {p} : at'[u] = IF u \in Children(p) THEN "free" ELSE at[u]
      /\ res'[p] = (IF at[p] = "running" THEN "value" ELSE "exception")
      /\ UNCHANGED <<owner, cont, waits, dying>>
  BY DEF Finish, BodyReturns, ChildrenInScope, IInv, TypeOK
<1>2. Runs(p) /\ p \notin Waiting /\ dying = {}
  BY <1>1 DEF Runs, Waiting, IInv, DyingIsAPath
<1>3. \A u \in Tasks : at[u] = "awaiting" =>
        /\ u \in Waiting /\ at[waits[u]] # "done" /\ waits[u] \in Tasks /\ owner[waits[u]] = u
        /\ u # p /\ waits[u] \notin Children(p) /\ u \notin Children(p)
  <2>1. ASSUME NEW u \in Tasks, at[u] = "awaiting"
        PROVE  u \in Waiting /\ at[waits[u]] # "done" /\ waits[u] \in Tasks /\ owner[waits[u]] = u /\ u # p
    BY <1>1, <2>1 DEF CInv, AwaitsOwned, Waiting
  <2>2. ASSUME NEW u \in Tasks, at[u] = "awaiting" PROVE waits[u] \notin Children(p)
    BY <2>1, <2>2 DEF Children
  <2>3. ASSUME NEW u \in Children(p), at[u] = "awaiting" PROVE FALSE
    <3>1. u \in Tasks /\ owner[u] = p /\ at[u] \notin {"free", "done"} /\ Begun(u) /\ p # Owner
      BY <2>3, ConstantsAssumption DEF Children, Begun
    <3>2. cont[u] = p /\ p # null
      BY <3>1, ConstantsAssumption DEF IInv, Owned
    <3>. QED
      BY <1>1, <3>1, <3>2 DEF IInv, ContinuationsFollowAwaits
  <2>. QED
    BY <2>1, <2>2, <2>3
<1>4. \A u \in Tasks : at'[u] = "awaiting" <=> at[u] = "awaiting"
  BY <1>1, <1>3
<1>5. \A u \in Tasks : at[u] = "awaiting" => (at'[waits[u]] # "done" <=> waits[u] # p)
  BY <1>1, <1>3
<1>6. Waiting' = {u \in Waiting : waits[u] # p} /\ \A u \in Waiting' : waits'[u] = waits[u]
  BY <1>1, <1>3, <1>4, <1>5 DEF Waiting
<1>7. AwaitsOwned'
  BY <1>1, <1>3, <1>4 DEF AwaitsOwned
<1>8. /\ ChainsExist'
      /\ \A r \in Tasks : CallsBelow(r)' = IF r # p /\ Last(CallsBelow(r)) = p
                                           THEN Front(CallsBelow(r)) ELSE CallsBelow(r)
  BY <1>2, <1>6, CallsCut
<1>9. PICK r \in Tasks :
         /\ owner[r] = Owner /\ Base(r) /\ OnStack(r) /\ Last(CallsBelow(r)) = p
         /\ CallStacks[r] = CallsBelow(r)
         /\ \A s \in Tasks : OnStack(s) /\ Last(CallsBelow(s)) = p => s = r
         /\ Calls!Runs(r) /\ (Unwinding <=> at[p] = "throwing")
  BY <1>1, <1>2, BodyRuns
<1>10. \A u \in Tasks \ {p} : Base(u) => Base(u)' /\ at'[u] = at[u]
  BY <1>1, ConstantsAssumption DEF Base, Children
<1>11. r # p => /\ CallsBelow(r)' = Front(CallsBelow(r)) /\ Front(CallsBelow(r)) # <<>>
                /\ Last(Front(CallsBelow(r))) \in Waiting
                /\ waits[Last(Front(CallsBelow(r)))] = p
  BY <1>8, <1>9, NextToLast
<1>12. ASSUME NEW t \in Tasks, Top(t)'
       PROVE  \E s \in Tasks : Base(s)' /\ Last(CallsBelow(s)') = t
  <2>1. CASE t \in Waiting
    <3>1. waits[t] = p /\ owner[p] = t
      BY <1>3, <1>6, <1>12, <2>1, WaitingAwaits DEF Top, CInv
    <3>2. r # p
      BY <1>9, <3>1, ConstantsAssumption
    <3>3. Last(Front(CallsBelow(r))) = t
      BY <1>11, <2>1, <3>1, <3>2, WaitingAwaits DEF CInv
    <3>. QED
      BY <1>9, <1>10, <1>11, <3>2, <3>3
  <2>2. CASE t \notin Waiting
    <3>1. t # p
      <4>1. CASE Begun(t)'
        BY <1>1, <4>1 DEF Begun, Runs
      <4>2. CASE ~Begun(t)'
        <5>1. t = cont[p] /\ cont[p] # null
          BY <1>1, <1>12, <4>2, ConstantsAssumption DEF Top, FinalTransfer
        <5>. QED
          BY <1>1, <1>3, <2>2, <5>1 DEF IInv, ContinuationsFollowAwaits
      <4>. QED
        BY <4>1, <4>2
    <3>2. Top(t)
      <4>1. CASE Begun(t)'
        BY <1>1, <2>2, <3>1, <4>1 DEF Top, Begun, Runs
      <4>2. CASE ~Begun(t)'
        <5>1. t = cont[p] /\ cont[p] # null
          BY <1>1, <1>12, <4>2, ConstantsAssumption DEF Top, FinalTransfer
        <5>. QED
          BY <1>1, <1>3, <2>2, <5>1 DEF IInv, ContinuationsFollowAwaits
      <4>. QED
        BY <4>1, <4>2
    <3>3. PICK s \in Tasks : Base(s) /\ Last(CallsBelow(s)) = t
      BY <3>2 DEF CInv, Rooted
    <3>4. s # p
      <4>1. CallsBelow(p) = <<p>>
        BY <1>2, CallsHaveShape DEF CallsShape, ShapeOf
      <4>. QED
        BY <3>1, <3>3, <4>1, Single
    <3>. QED
      BY <1>8, <1>10, <3>1, <3>3, <3>4
  <2>. QED
    BY <2>1, <2>2
<1>13. CInv'
  BY <1>7, <1>8, <1>12 DEF CInv, Rooted
<1>14. \A s \in Tasks \ {r, p} : OnStack(s)' <=> OnStack(s)
  <2>1. ASSUME NEW s \in Tasks \ {r, p}, owner[s] = Owner PROVE Called(s)' <=> Called(s)
    <3>1. at'[s] = at[s]
      BY <1>1, <2>1, ConstantsAssumption DEF Children
    <3>2. next' = s => at[s] # "initial"
      BY <1>1, <2>1, ConstantsAssumption DEF FinalTransfer, IInv, ContinuationsFollowAwaits
    <3>. QED
      BY <1>1, <3>1, <3>2 DEF Called
  <2>. QED
    BY <1>1, <2>1, ConstantsAssumption DEF OnStack, Root, Children
<1>15. \A s \in Tasks \ {r, p} : CallStacks'[s] = CallStacks[s]
  <2>1. \A s \in Tasks \ {r, p} : OnStack(s) => CallsBelow(s)' = CallsBelow(s)
    BY <1>8, <1>9
  <2>. QED
    BY <1>14, <2>1 DEF CallStacks, OnStack
<1>16. CallStacks'[p] = <<>>
  BY <1>1 DEF CallStacks, Root
<1>17. CASE r = p
  <2>1. CallStacks[p] = <<p>> /\ Front(<<p>>) = <<>>
    BY <1>2, <1>9, <1>17, CallsHaveShape DEF CallsShape, ShapeOf, Front
  <2>2. CallStacks' = [CallStacks EXCEPT ![r] = Front(@)]
    BY <1>15, <1>16, <1>17, <2>1 DEF CallStacks
  <2>3. next' \notin Tasks
    BY <1>1, <1>9, <1>17, ConstantsAssumption
    DEF FinalTransfer, IInv, ContinuationsFollowAwaits, TypeOK
  <2>4. InCharge' = Owner /\ ~Unwinding'
    BY <1>1, <2>3, ChargeIsNext DEF Charge
  <2>5. Unwinding' = (Unwinding /\ CallStacks'[r] # <<>>)
    BY <1>16, <1>17, <2>4, Zenon DEF Unwinding
  <2>6. Calls!Leave(r)
    BY <1>9, <1>16, <1>17, <2>2, <2>4, <2>5 DEF Calls!Leave, Calls!Front, Front
  <2>. QED
    BY <1>13, <2>6
<1>18. CASE r # p
  <2> DEFINE q == Last(Front(CallsBelow(r)))
  <2>1. q \in Waiting /\ waits[q] = p /\ q \in Tasks /\ at[q] = "awaiting" /\ owner[p] = q
    BY <1>11, <1>18, WaitingAwaits DEF CInv, Waiting
  <2> HIDE DEF q
  <2>2. cont[p] = q
    BY <1>1, <2>1, ConstantsAssumption DEF IInv, Owned, Begun, Runs
  <2>3. next' = q /\ q # p /\ q \notin Children(p)
    BY <1>1, <1>2, <1>3, <2>1, <2>2, ConstantsAssumption DEF FinalTransfer
  <2>4. at'[q] = "awaiting" /\ waits'[q] = p
    BY <1>1, <2>1, <2>3
  <2>5. ~OnStack(p) /\ OnStack(r)'
    <3>1. ~OnStack(p)
      BY <2>1, ConstantsAssumption DEF OnStack, Root
    <3>2. at[r] # "initial"
      BY <1>1, <1>9 DEF OnStack, Called
    <3>. QED
      BY <1>1, <1>2, <1>9, <1>10, <1>18, <3>1, <3>2 DEF Base, OnStack, Root, Called
  <2>6. CallStacks[p] = <<>> /\ CallStacks'[r] = Front(CallStacks[r])
    BY <1>9, <1>11, <1>18, <2>5 DEF CallStacks, OnStack
  <2>7. CallStacks' = [CallStacks EXCEPT ![r] = Front(@)]
    BY <1>15, <1>16, <1>18, <2>6 DEF CallStacks
  <2>8. InCharge' = q /\ (Unwinding' <=> res'[p] = "exception")
    BY <1>1, <2>1, <2>3, <2>4, ChargeIsNext DEF Charge
  <2>9. CallStacks'[r] # <<>> /\ Last(CallStacks'[r]) = q
    BY <1>9, <1>11, <1>18, <2>6 DEF q
  <2>10. Unwinding' <=> Unwinding
    BY <1>1, <1>9, <2>8
  <2>11. Unwinding' = (Unwinding /\ CallStacks'[r] # <<>>)
    BY <2>9, <2>10, Zenon DEF Unwinding
  <2>12. Calls!Leave(r)
    BY <1>9, <2>7, <2>8, <2>9, <2>11 DEF Calls!Leave, Calls!Front, Front, Calls!Last, Last
  <2>. QED
    BY <1>13, <2>12
<1>. QED
  BY <1>17, <1>18

(* A stack that is left has no dying frame in it.                          *)
LEMMA NoneDies ==
  ASSUME IInv, CInv, NEW s \in Tasks, s \notin dying
  PROVE  \A k \in 1..Len(CallsBelow(s)) : CallsBelow(s)[k] \notin dying
<1> DEFINE b == CallsBelow(s)
<1>1. ShapeOf(s, b)
  BY CallsHaveShape DEF CallsShape
<1> HIDE DEF b
<1>2. Len(b) \in Nat /\ b[1] = s
  BY <1>1 DEF ShapeOf
<1> DEFINE T == {k \in 1..Len(b) : b[k] \in dying}
<1>3. T = {}
  <2> SUFFICES ASSUME T # {} PROVE FALSE
    OBVIOUS
  <2>1. T \subseteq Nat
    BY <1>2
  <2>2. PICK m \in T : \A n \in T : m <= n
    BY <2>1, LeastElement
  <2>3. m \in 1..Len(b) /\ b[m] \in dying /\ m # 1
    BY <1>2, <2>2
  <2>4. m - 1 \in 1..(Len(b) - 1) /\ m - 1 \in 1..Len(b) /\ (m - 1) + 1 = m /\ ~(m <= m - 1)
    BY <1>2, <2>3
  <2>5. b[m - 1] \in Waiting /\ b[m] = waits[b[m - 1]]
    BY <1>1, <2>4 DEF ShapeOf
  <2>6. owner[b[m]] = b[m - 1] /\ b[m - 1] \in Tasks
    BY <2>5, WaitingAwaits DEF CInv
  <2>7. b[m - 1] \in dying
    BY <2>3, <2>6, ConstantsAssumption DEF IInv, DyingIsAPath
  <2>. QED
    BY <2>2, <2>4, <2>7
<1>. QED
  BY <1>3 DEF b

(* Freeing a frame of a stack that was cancelled changes no other stack.   *)
LEMMA DestroyFrameKeeps ==
  ASSUME IInv, IInv', CInv, NEW t \in Tasks, DestroyFrame(t)
  PROVE  CInv' /\ UNCHANGED Calls!vars
<1>1. /\ control = "destroy" /\ control' \in {"owner", "destroy"} /\ t \in dying /\ dying' = dying \ {t}
      /\ at'[t] = "free" /\ \A u \in Tasks \ {t} : at'[u] = at[u]
      /\ Children(t) = {} /\ UNCHANGED <<owner, cont, waits, res, next>>
  BY DEF DestroyFrame, IInv, TypeOK
<1>2. \A u \in Tasks : at[u] = "awaiting" =>
        u \in Waiting /\ at[waits[u]] # "done" /\ waits[u] \in Tasks /\ owner[waits[u]] = u
  BY <1>1 DEF CInv, AwaitsOwned, Waiting
<1>3. Waiting' = Waiting \ {t}
  BY <1>1, <1>2 DEF Waiting
<1>4. AwaitsOwned'
  BY <1>1, <1>2 DEF AwaitsOwned
<1>5. \A u \in Tasks : Top(u)' => Top(u) /\ u # t
  BY <1>1, <1>3 DEF Top, Begun, Runs
<1>6. \A u \in Tasks \ {t} : Base(u) => Base(u)'
  BY <1>1 DEF Base
<1>7. InCharge = Owner /\ ~Unwinding /\ InCharge' = Owner /\ ~Unwinding'
  BY <1>1, ChargeIs, ChargeIsNext DEF Charge
<1>8. \A u \in Tasks : OnStack(u)' <=> OnStack(u)
  BY <1>1 DEF OnStack, Root, Called
<1>9. CASE t \notin Waiting
  <2>1. ChainsExist' /\ \A u \in Tasks : CallsBelow(u)' = CallsBelow(u)
    BY <1>1, <1>3, <1>9, CallsKept
  <2>2. CallsBelow(t) = <<t>>
    BY <1>9, CallsHaveShape DEF CallsShape, ShapeOf
  <2>3. ASSUME NEW u \in Tasks, Top(u)'
        PROVE  \E s \in Tasks : Base(s)' /\ Last(CallsBelow(s)') = u
    <3>1. PICK s \in Tasks : Base(s) /\ Last(CallsBelow(s)) = u
      BY <1>5, <2>3 DEF CInv, Rooted
    <3>2. s # t
      BY <1>5, <2>2, <2>3, <3>1, Single
    <3>. QED
      BY <1>6, <2>1, <3>1, <3>2
  <2>4. CInv'
    BY <1>4, <2>1, <2>3 DEF CInv, Rooted
  <2>5. CallStacks' = CallStacks
    BY <1>8, <2>1, StacksKept
  <2>. QED
    BY <1>7, <2>4, <2>5, Stutter
<1>10. CASE t \in Waiting
  <2> DEFINE w == waits[t]
  <2>1. w \in Tasks /\ owner[w] = t /\ at[w] = "free" /\ w \notin Waiting /\ w # t
    BY <1>1, <1>2, <1>10 DEF Children, Waiting
  <2>2. Waiting' = {u \in Waiting : waits[u] # w} /\ \A u \in Waiting' : waits'[u] = waits[u]
    BY <1>1, <1>3, <1>10, WaitingAwaits DEF CInv
  <2> HIDE DEF w
  <2>3. /\ ChainsExist'
        /\ \A r \in Tasks : CallsBelow(r)' = IF r # w /\ Last(CallsBelow(r)) = w
                                             THEN Front(CallsBelow(r)) ELSE CallsBelow(r)
    BY <2>1, <2>2, CallsCut
  <2>4. Last(CallsBelow(t)) = w
    <3>1. PICK g : Chains(Waiting, waits, g)
      BY DEF CInv, ChainsExist
    <3>2. CallsBelow(t) = g[t]
      BY <1>2, <3>1, CallsFound DEF CallsAreChains, Waiting
    <3>3. g[w] = <<w>> /\ g[t] = <<t>> \o g[w]
      BY <1>10, <2>1, <3>1 DEF Chains, w
    <3>4. <<w>> \in Seq(Tasks) /\ <<w>> # <<>>
      BY <2>1
    <3>5. Last(<<t>> \o <<w>>) = Last(<<w>>)
      BY <3>4, Prepend
    <3>. QED
      BY <2>1, <3>2, <3>3, <3>5, Single
  <2>5. ASSUME NEW u \in Tasks, Top(u)'
        PROVE  \E s \in Tasks : Base(s)' /\ Last(CallsBelow(s)') = u
    <3>1. PICK s \in Tasks : Base(s) /\ Last(CallsBelow(s)) = u
      BY <1>5, <2>5 DEF CInv, Rooted
    <3>2. u # w
      BY <1>1, <1>5, <2>1, <2>5 DEF Top, Begun, Runs
    <3>3. s # t
      BY <2>4, <3>1, <3>2
    <3>. QED
      BY <1>6, <2>3, <3>1, <3>2, <3>3
  <2>6. CInv'
    BY <1>4, <2>3, <2>5 DEF CInv, Rooted
  <2>7. ASSUME NEW s \in Tasks, OnStack(s) PROVE Last(CallsBelow(s)) # w \/ s = w
    <3> SUFFICES ASSUME Last(CallsBelow(s)) = w, s # w PROVE FALSE
      OBVIOUS
    <3> DEFINE b == CallsBelow(s)
    <3>1. ShapeOf(s, b)
      BY CallsHaveShape DEF CallsShape
    <3>2. \A k \in 1..Len(b) : b[k] \notin dying
      BY <2>7, NoneDies DEF OnStack, Root
    <3>3. Last(b) = w
      OBVIOUS
    <3> HIDE DEF b
    <3>4. Len(b) \in Nat \ {0} /\ Len(b) # 1 /\ b[Len(b)] = w
      BY <3>1, <3>3 DEF ShapeOf, Last
    <3> DEFINE n == Len(b)
    <3>5. n - 1 \in 1..(n - 1) /\ n - 1 \in 1..n /\ (n - 1) + 1 = n
      <4>1. n \in Nat \ {0} /\ n # 1
        BY <3>4
      <4> HIDE DEF n
      <4>. QED
        BY <4>1
    <3>6. b[Len(b) - 1] \in Waiting /\ w = waits[b[Len(b) - 1]]
      BY <3>1, <3>4, <3>5 DEF ShapeOf
    <3>7. b[Len(b) - 1] = t
      BY <1>10, <3>6, WaitingAwaits DEF CInv, w
    <3>. QED
      BY <1>1, <3>2, <3>5, <3>7
  <2>8. \A s \in Tasks : OnStack(s) => CallsBelow(s)' = CallsBelow(s)
    BY <2>3, <2>7
  <2>9. CallStacks' = CallStacks
    BY <1>8, <2>8 DEF CallStacks, OnStack
  <2>. QED
    BY <1>7, <2>6, <2>9, Stutter
<1>. QED
  BY <1>9, <1>10

-------------------------------------------------------------------------------
(* No task, no stack.                                                      *)
LEMMA InitCalls == Init => CInv /\ Calls!Init
<1> SUFFICES ASSUME Init PROVE CInv /\ Calls!Init
  OBVIOUS
<1>1. /\ \A t \in Tasks : at[t] = "free"
      /\ control = "owner" /\ Waiting = {}
  BY DEF Init, Waiting
<1>2. IInv
  BY InitInv
<1> DEFINE g == [t \in Tasks |-> <<t>>]
<1>3. Chains(Waiting, waits, g)
  BY <1>1 DEF Chains
<1>4. ChainsExist
  BY <1>3 DEF ChainsExist
<1>5. AwaitsOwned /\ Rooted
  BY <1>1 DEF AwaitsOwned, Rooted, Top, Begun, Runs
<1>6. CallStacks = [r \in Tasks |-> <<>>]
  BY <1>1 DEF CallStacks, Root
<1>7. InCharge = Owner /\ ~Unwinding
  BY <1>1, <1>2, ChargeIs DEF Charge
<1>8. Unwinding = FALSE
  BY <1>7, Zenon DEF Unwinding
<1>. QED
  BY <1>4, <1>5, <1>6, <1>7, <1>8 DEF CInv, Calls!Init

(* Every step of the tasks is a step of the call stacks or none.           *)
LEMMA StepCalls ==
  IInv /\ CInv /\ [Next]_vars => CInv' /\ [Calls!Next]_(Calls!vars)
<1> SUFFICES ASSUME IInv, CInv, [Next]_vars PROVE CInv' /\ [Calls!Next]_(Calls!vars)
  OBVIOUS
<1>0. IInv'
  BY StepInv
<1> USE DEF Calls!Next
<1>1. CASE UNCHANGED vars
  <2>1. Waiting' = Waiting /\ \A t \in Waiting : waits'[t] = waits[t]
    BY <1>1 DEF vars, Waiting
  <2>2. AwaitsOwned'
    BY <1>1 DEF vars, AwaitsOwned, CInv
  <2>3. \A u \in Tasks : Top(u)' => Top(u) \/ (Base(u)' /\ u \notin Waiting)
    BY <1>1, <2>1 DEF vars, Top, Begun, Runs
  <2>4. \A u \in Tasks : Base(u) => Base(u)'
    BY <1>1 DEF vars, Base
  <2>5. CInv' /\ \A u \in Tasks : CallsBelow(u)' = CallsBelow(u)
    BY <2>1, <2>2, <2>3, <2>4, InvKept
  <2>6. \A u \in Tasks : OnStack(u)' <=> OnStack(u)
    BY <1>1 DEF vars, OnStack, Root, Called
  <2>7. CallStacks' = CallStacks
    BY <2>5, <2>6, StacksKept
  <2>8. InControl' = InControl
    BY <1>1 DEF vars, InControl
  <2>9. InCharge' = InCharge /\ (Unwinding' <=> Unwinding)
    BY <1>1, <2>8 DEF vars, InCharge, Unwinding
  <2>. QED
    BY <2>5, <2>7, <2>9, Stutter
<1>2. CASE Loop
  BY <1>0, <1>2, LoopKeeps DEF Loop
<1>3. CASE Body
  BY <1>0, <1>3, ThrowsMaps, CatchesMaps, AwaitEventPauses, FinishLeaves, MakeKeeps, BodyDropsKeeps,
     AwaitDoneMaps, AwaitSuspendCalls DEF Body
<1>4. CASE Destroying
  BY <1>0, <1>4, DyingMaps, DestroyFrameKeeps DEF Destroying
<1>5. CASE Outside
  BY <1>0, <1>5, MakeKeeps, StartBegins, EventContinues, DyingMaps DEF Outside
<1>. QED
  BY <1>1, <1>2, <1>3, <1>4, <1>5 DEF Next

(* co_await on a task is a function call, for any number of tasks, awaits  *)
(* and addresses.                                                          *)
THEOREM TasksAreCalls == Spec => AwaitIsACall
<1>1. Init => IInv
  BY InitInv
<1>. QED
  BY <1>1, StepInv, InitCalls, StepCalls, PTL DEF Spec, AwaitIsACall, Calls!Spec
===============================================================================
