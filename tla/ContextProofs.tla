--------------------------- MODULE ContextProofs ---------------------------
(***************************************************************************)
(* What the model is asked with: trimming keeps the task and the           *)
(* instruction of a forced finalisation and holds the limit.  The sum over *)
(* a conversation is a fold, in an order the library leaves open; what is  *)
(* proved of it goes by induction over the sets of positions.              *)
(***************************************************************************)
EXTENDS AgentLoopProofs, FiniteSetTheorems

-----------------------------------------------------------------------------
(* Induction, for sets instead of predicates. *)

\* A set of naturals with 0 and the successors of its members has every natural.
LEMMA EveryNatural ==
  ASSUME NEW G \in SUBSET Nat, 0 \in G, \A n \in G : n + 1 \in G
  PROVE  G = Nat
<1> SUFFICES ASSUME Nat \ G # {}
             PROVE  FALSE
  OBVIOUS
<1>1. IsWellFoundedOn(OpToRel(<, Nat), Nat)
  BY NatLessThanWellFounded
<1>2. PICK x \in Nat \ G : \A y \in Nat \ G : ~ (<<y, x>> \in OpToRel(<, Nat))
  <2>1. Nat \ G \subseteq Nat
    OBVIOUS
  <2> QED
    BY <1>1, <2>1, WFMin, Zenon
<1>3. x - 1 \in Nat /\ x - 1 < x /\ (x - 1) + 1 = x
  <2>1. x \in Nat /\ x # 0
    BY <1>2
  <2> QED
    BY <2>1
<1>4. x - 1 \in G
  BY <1>2, <1>3 DEF OpToRel
<1> QED
  BY <1>2, <1>3, <1>4

\* A set of subsets of a finite set has them all if each follows from those smaller by one.
LEMMA EverySubset ==
  ASSUME NEW D, IsFiniteSet(D), NEW G \in SUBSET SUBSET D, {} \in G,
         \A S \in SUBSET D : S # {} /\ (\A x \in S : S \ {x} \in G) => S \in G
  PROVE  G = SUBSET D
<1> DEFINE Small == {n \in Nat : \A S \in SUBSET D : Cardinality(S) <= n => S \in G}
<1>1. ASSUME NEW S \in SUBSET D
      PROVE  IsFiniteSet(S) /\ Cardinality(S) \in Nat /\ (Cardinality(S) = 0 <=> S = {})
  BY FS_Subset, FS_CardinalityType, FS_EmptySet
<1>2. 0 \in Small
  BY <1>1
<1>3. ASSUME NEW n \in Small
      PROVE  n + 1 \in Small
  <2>1. ASSUME NEW S \in SUBSET D, Cardinality(S) <= n + 1
        PROVE  S \in G
    <3>1. ASSUME NEW x \in S
          PROVE  S \ {x} \in G
      <4>1. Cardinality(S \ {x}) = Cardinality(S) - 1
        BY <1>1, FS_RemoveElement
      <4>2. Cardinality(S \ {x}) <= n /\ S \ {x} \in SUBSET D
        BY <1>1, <2>1, <4>1
      <4> QED
        BY <4>2
    <3> QED
      BY <3>1
  <2> QED
    BY <2>1
<1>4. Small = Nat
  <2> HIDE DEF Small
  <2>1. Small \in SUBSET Nat
    BY DEF Small
  <2> QED
    BY <1>2, <1>3, <2>1, EveryNatural
<1>5. ASSUME NEW S \in SUBSET D
      PROVE  S \in G
  <2>1. Cardinality(S) \in Small
    BY <1>1, <1>4
  <2> QED
    BY <1>1, <2>1
<1> QED
  BY <1>5

-----------------------------------------------------------------------------
(* The sum that Chars takes over a conversation, in whatever order. *)

Some(S) == CHOOSE x \in S : TRUE

\* What g adds up: for a set of positions, the sizes of the messages there.
Plus(g, ms, S) == IF S = {} THEN 0 ELSE ms[Some(S)].size + g[S \ {Some(S)}]
Adds(g, ms) == g = [S \in SUBSET DOMAIN ms |-> Plus(g, ms, S)]

\* Finitely many messages, each of some size.
Sized(ms) == IsFiniteSet(DOMAIN ms) /\ \A i \in DOMAIN ms : ms[i].size \in Nat

\* The fold of the library, unfolded.
LEMMA CharsIsSum ==
  ASSUME NEW ms
  PROVE  Chars(ms) = (CHOOSE g : Adds(g, ms))[DOMAIN ms]
BY Zenon DEF Adds, Plus, Some, Chars, FoldSeq, FoldFunction, FoldFunctionOnSet, MapThenFoldSet

\* The recursion has a solution: one for the sets up to a size gives one for the next size.
LEMMA SumExists ==
  ASSUME NEW ms, IsFiniteSet(DOMAIN ms)
  PROVE  \E g : Adds(g, ms)
<1> DEFINE D == DOMAIN ms
           Upto(n) == {S \in SUBSET D : Cardinality(S) <= n}
           Summed == {n \in Nat : \E g : g = [S \in Upto(n) |-> Plus(g, ms, S)]}
<1>1. ASSUME NEW S \in SUBSET D
      PROVE  /\ IsFiniteSet(S) /\ Cardinality(S) \in Nat
             /\ Cardinality(S) = 0 <=> S = {}
             /\ Cardinality(S) <= Cardinality(D)
  BY FS_Subset, FS_CardinalityType, FS_EmptySet
<1>2. 0 \in Summed
  <2>1. \A S \in Upto(0) : S = {}
    BY <1>1
  <2> DEFINE g == [S \in Upto(0) |-> 0]
  <2>2. g = [S \in Upto(0) |-> Plus(g, ms, S)]
    BY <2>1 DEF Plus
  <2> QED
    BY <2>2
<1>3. ASSUME NEW n \in Summed
      PROVE  n + 1 \in Summed
  <2>1. PICK g : g = [S \in Upto(n) |-> Plus(g, ms, S)]
    OBVIOUS
  <2> DEFINE h == [S \in Upto(n + 1) |-> Plus(g, ms, S)]
  <2>2. ASSUME NEW S \in Upto(n + 1)
        PROVE  Plus(g, ms, S) = Plus(h, ms, S)
    <3>1. CASE S = {}
      BY <3>1 DEF Plus
    <3>2. CASE S # {}
      <4> DEFINE T == S \ {Some(S)}
      <4>1. Some(S) \in S
        BY <3>2 DEF Some
      <4>2. Cardinality(T) = Cardinality(S) - 1 /\ T \in SUBSET D
        BY <4>1, <1>1, FS_RemoveElement
      <4>3. T \in Upto(n) /\ T \in Upto(n + 1)
        BY <4>2, <1>1
      <4>4. h[T] = Plus(g, ms, T) /\ g[T] = Plus(g, ms, T)
        <5> HIDE DEF T, Upto
        <5> QED
          BY <4>3, <2>1, Zenon
      <4> QED
        BY <3>2, <4>4, Zenon DEF Plus
    <3> QED
      BY <3>1, <3>2
  <2>3. h = [S \in Upto(n + 1) |-> Plus(h, ms, S)]
    <3> HIDE DEF Upto
    <3> QED
      BY <2>2, Zenon
  <2>4. n + 1 \in Nat
    OBVIOUS
  <2> QED
    BY <2>3, <2>4
<1>4. Summed = Nat
  <2> HIDE DEF Summed
  <2>1. Summed \in SUBSET Nat
    BY DEF Summed
  <2> QED
    BY <1>2, <1>3, <2>1, EveryNatural
<1>5. Upto(Cardinality(D)) = SUBSET D
  BY <1>1
<1>6. Cardinality(D) \in Summed
  <2>1. Cardinality(D) \in Nat
    BY FS_CardinalityType
  <2> HIDE DEF Summed
  <2> QED
    BY <1>4, <2>1
<1>7. PICK g : g = [S \in Upto(Cardinality(D)) |-> Plus(g, ms, S)]
  BY <1>6
<1> HIDE DEF Upto
<1> QED
  BY <1>5, <1>7, Zenon DEF Adds

\* One step of the recursion.
LEMMA SumAt ==
  ASSUME NEW ms, NEW g, Adds(g, ms), NEW S \in SUBSET DOMAIN ms, S # {}
  PROVE  /\ Some(S) \in S
         /\ g[S] = ms[Some(S)].size + g[S \ {Some(S)}]
<1>1. Some(S) \in S
  BY DEF Some
<1>2. g[S] = Plus(g, ms, S)
  BY Zenon DEF Adds
<1> QED
  BY <1>1, <1>2, Zenon DEF Plus

LEMMA SumOfNone ==
  ASSUME NEW ms, NEW g, Adds(g, ms)
  PROVE  g[{}] = 0
BY DEF Adds, Plus

\* Sizes add up to a natural number.
LEMMA SumInNat ==
  ASSUME NEW ms, IsFiniteSet(DOMAIN ms), \A i \in DOMAIN ms : ms[i].size \in Nat,
         NEW g, Adds(g, ms)
  PROVE  \A S \in SUBSET DOMAIN ms : g[S] \in Nat
<1> DEFINE G == {S \in SUBSET DOMAIN ms : g[S] \in Nat}
<1>1. {} \in G
  BY SumOfNone
<1>2. ASSUME NEW S \in SUBSET DOMAIN ms, S # {}, \A x \in S : S \ {x} \in G
      PROVE  S \in G
  <2>1. Some(S) \in S /\ g[S] = ms[Some(S)].size + g[S \ {Some(S)}]
    BY <1>2, SumAt
  <2>2. ms[Some(S)].size \in Nat /\ g[S \ {Some(S)}] \in Nat
    BY <1>2, <2>1
  <2> QED
    BY <2>1, <2>2
<1>3. G = SUBSET DOMAIN ms
  <2> HIDE DEF G
  <2>1. G \in SUBSET SUBSET DOMAIN ms
    BY DEF G
  <2> QED
    BY <1>1, <1>2, <2>1, EverySubset
<1> QED
  BY <1>3

\* Any position may be taken out first.
LEMMA SumWithout ==
  ASSUME NEW ms, Sized(ms), NEW g, Adds(g, ms), NEW U \in SUBSET DOMAIN ms, NEW z \in U
  PROVE  g[U] = ms[z].size + g[U \ {z}]
<1>0. IsFiniteSet(DOMAIN ms) /\ \A i \in DOMAIN ms : ms[i].size \in Nat
  BY DEF Sized
<1> DEFINE G == {S \in SUBSET DOMAIN ms : \A x \in S : g[S] = ms[x].size + g[S \ {x}]}
<1>1. {} \in G
  OBVIOUS
<1>2. ASSUME NEW S \in SUBSET DOMAIN ms, S # {}, \A x \in S : S \ {x} \in G
      PROVE  S \in G
  <2> DEFINE c == Some(S)
  <2>1. c \in S /\ g[S] = ms[c].size + g[S \ {c}]
    <3> HIDE DEF G
    <3> QED
      BY <1>2, SumAt
  <2> HIDE DEF c
  <2>2. ASSUME NEW x \in S, x # c
        PROVE  g[S] = ms[x].size + g[S \ {x}]
    <3> DEFINE R == (S \ {c}) \ {x}
    <3>1. x \in S \ {c} /\ c \in S \ {x}
      BY <2>1, <2>2
    <3>2. g[S \ {c}] = ms[x].size + g[R]
      BY <1>2, <2>1, <3>1
    <3>3. R = (S \ {x}) \ {c}
      OBVIOUS
    <3>4. g[S \ {x}] = ms[c].size + g[R]
      BY <1>2, <2>2, <3>1, <3>3
    <3>5. g[R] \in Nat /\ ms[x].size \in Nat /\ ms[c].size \in Nat
      <4>1. R \in SUBSET DOMAIN ms
        OBVIOUS
      <4> QED
        BY <2>1, <4>1, <1>0, SumInNat
    <3> HIDE DEF R
    <3> QED
      BY <2>1, <3>2, <3>4, <3>5
  <2> QED
    BY <2>1, <2>2
<1>3. G = SUBSET DOMAIN ms
  <2> HIDE DEF G
  <2>1. G \in SUBSET SUBSET DOMAIN ms
    BY DEF G
  <2> QED
    BY <1>1, <1>2, <2>1, <1>0, EverySubset
<1>4. U \in G
  <2> HIDE DEF G
  <2> QED
    BY <1>3, Zenon
<1> QED
  BY <1>4, Zenon

\* Conversations with messages of the same sizes at some positions have the same sum there.
LEMMA SumsAgree ==
  ASSUME NEW ms, NEW ns, IsFiniteSet(DOMAIN ms), DOMAIN ms \subseteq DOMAIN ns,
         \A i \in DOMAIN ms : ns[i].size = ms[i].size,
         NEW g, Adds(g, ms), NEW h, Adds(h, ns)
  PROVE  \A S \in SUBSET DOMAIN ms : h[S] = g[S]
<1> DEFINE G == {S \in SUBSET DOMAIN ms : h[S] = g[S]}
<1>1. {} \in G
  BY SumOfNone
<1>2. ASSUME NEW S \in SUBSET DOMAIN ms, S # {}, \A x \in S : S \ {x} \in G
      PROVE  S \in G
  <2>1. Some(S) \in S /\ g[S] = ms[Some(S)].size + g[S \ {Some(S)}]
    BY <1>2, SumAt
  <2>2. h[S] = ns[Some(S)].size + h[S \ {Some(S)}]
    <3>1. S \in SUBSET DOMAIN ns
      OBVIOUS
    <3> QED
      BY <1>2, <3>1, SumAt
  <2> QED
    BY <1>2, <2>1, <2>2
<1>3. G = SUBSET DOMAIN ms
  <2> HIDE DEF G
  <2>1. G \in SUBSET SUBSET DOMAIN ms
    BY DEF G
  <2> QED
    BY <1>1, <1>2, <2>1, EverySubset
<1> QED
  BY <1>3

\* If no message is longer than a share, so many of them are not longer than so many shares.
LEMMA SumBounded ==
  ASSUME NEW ms, IsFiniteSet(DOMAIN ms), NEW share \in Nat,
         \A i \in DOMAIN ms : ms[i].size \in Nat /\ ms[i].size <= share,
         NEW g, Adds(g, ms)
  PROVE  \A S \in SUBSET DOMAIN ms : g[S] <= share * Cardinality(S)
<1> DEFINE G == {S \in SUBSET DOMAIN ms : g[S] <= share * Cardinality(S)}
<1>1. {} \in G
  <2>1. share * 0 = 0
    OBVIOUS
  <2> QED
    BY <2>1, SumOfNone, FS_EmptySet
<1>2. ASSUME NEW S \in SUBSET DOMAIN ms, S # {}, \A x \in S : S \ {x} \in G
      PROVE  S \in G
  <2> DEFINE c == Some(S)
             R == S \ {c}
             k == Cardinality(R)
  <2>1. c \in S /\ g[S] = ms[c].size + g[R]
    BY <1>2, SumAt
  <2>2. ms[c].size \in Nat /\ ms[c].size <= share
    BY <2>1
  <2>3. g[R] \in Nat /\ g[R] <= share * k
    BY <1>2, <2>1, SumInNat
  <2>4. IsFiniteSet(S) /\ IsFiniteSet(R)
    BY FS_Subset, FS_RemoveElement
  <2>5. k \in Nat /\ Cardinality(S) \in Nat /\ Cardinality(S) = k + 1
    BY <2>1, <2>4, FS_CardinalityType, FS_RemoveElement
  <2> HIDE DEF R, k, c
  <2>6. share * (k + 1) = share * k + share /\ share * k \in Nat
    BY <2>5, SMT
  <2>7. g[S] <= share * k + share
    <3> DEFINE p == share * k
    <3>1. p \in Nat /\ g[R] <= p
      BY <2>3, <2>6
    <3> HIDE DEF p
    <3>2. g[S] <= p + share
      BY <2>1, <2>2, <2>3, <3>1
    <3> QED
      BY <3>2 DEF p
  <2> QED
    BY <2>5, <2>6, <2>7
<1>3. G = SUBSET DOMAIN ms
  <2> HIDE DEF G
  <2>1. G \in SUBSET SUBSET DOMAIN ms
    BY DEF G
  <2> QED
    BY <1>1, <1>2, <2>1, EverySubset
<1> QED
  BY <1>3

-----------------------------------------------------------------------------
(* Chars, _bound_message_contents and _trim_messages. *)

LEMMA SameInterval ==
  ASSUME NEW a \in Nat, NEW b \in Nat, 1..a = 1..b
  PROVE  a = b
<1>1. a # 0 => a \in 1..b
  OBVIOUS
<1>2. b # 0 => b \in 1..a
  OBVIOUS
<1> QED
  BY <1>1, <1>2

LEMMA ConversationSum ==
  ASSUME NEW ms \in Seq(Messages)
  PROVE  /\ DOMAIN ms = 1..Len(ms) /\ Len(ms) \in Nat
         /\ IsFiniteSet(DOMAIN ms) /\ Cardinality(DOMAIN ms) = Len(ms)
         /\ \A i \in DOMAIN ms : ms[i] \in Messages /\ ms[i].size \in Nat
         /\ \E g : Adds(g, ms) /\ Chars(ms) = g[DOMAIN ms]
<1>1. DOMAIN ms = 1..Len(ms) /\ Len(ms) \in Nat
  OBVIOUS
<1>2. IsFiniteSet(1..Len(ms)) /\ Cardinality(1..Len(ms)) = Len(ms)
  BY <1>1, FS_Interval
<1>3. \A i \in DOMAIN ms : ms[i] \in Messages
  BY <1>1
<1>4. \A i \in DOMAIN ms : ms[i].size \in Nat
  BY <1>3, LoopAssumption DEF Messages
<1>5. \E g : Adds(g, ms)
  BY <1>1, <1>2, SumExists
<1> DEFINE g == CHOOSE f : Adds(f, ms)
<1>6. Adds(g, ms) /\ Chars(ms) = g[DOMAIN ms]
  BY <1>5, CharsIsSum, Zenon
<1> HIDE DEF g
<1> QED
  BY <1>1, <1>2, <1>3, <1>4, <1>6

LEMMA CharsType ==
  ASSUME NEW ms \in Seq(Messages)
  PROVE  Chars(ms) \in Nat
BY ConversationSum, SumInNat

LEMMA CharsWithout ==
  ASSUME NEW ms, Sized(ms), NEW g, Adds(g, ms), NEW x \in DOMAIN ms
  PROVE  g[DOMAIN ms] = ms[x].size + g[DOMAIN ms \ {x}]
<1>1. DOMAIN ms \in SUBSET DOMAIN ms
  OBVIOUS
<1> QED
  BY <1>1, SumWithout

\* A message more adds its size.
LEMMA CharsOfAppend ==
  ASSUME NEW ms \in Seq(Messages), NEW m \in Messages
  PROVE  Chars(Append(ms, m)) = Chars(ms) + m.size
<1> DEFINE ns == Append(ms, m)
           n == Len(ms) + 1
<1>1. /\ ns \in Seq(Messages) /\ Len(ns) = n /\ ns[n] = m
      /\ \A i \in DOMAIN ms : ns[i] = ms[i]
  OBVIOUS
<1> HIDE DEF ns
<1>2. PICK g : Adds(g, ms) /\ Chars(ms) = g[DOMAIN ms]
  BY ConversationSum
<1>3. PICK h : Adds(h, ns) /\ Chars(ns) = h[DOMAIN ns]
  BY <1>1, ConversationSum
<1>4. /\ DOMAIN ms = 1..Len(ms) /\ DOMAIN ns = 1..n /\ Len(ms) \in Nat
      /\ IsFiniteSet(DOMAIN ms) /\ IsFiniteSet(DOMAIN ns)
      /\ \A i \in DOMAIN ns : ns[i].size \in Nat
  BY <1>1, ConversationSum
<1>5. n \in DOMAIN ns /\ DOMAIN ns \ {n} = DOMAIN ms
  BY <1>4
<1>6. h[DOMAIN ns] = ns[n].size + h[DOMAIN ms]
  <2>1. Sized(ns)
    BY <1>4 DEF Sized
  <2>2. h[DOMAIN ns] = ns[n].size + h[DOMAIN ns \ {n}]
    BY <1>3, <1>5, <2>1, CharsWithout
  <2> QED
    BY <1>5, <2>2
<1>7. h[DOMAIN ms] = g[DOMAIN ms]
  <2>1. DOMAIN ms \subseteq DOMAIN ns
    BY <1>5
  <2> QED
    BY <1>1, <1>2, <1>3, <1>4, <2>1, SumsAgree
<1>8. g[DOMAIN ms] \in Nat /\ m.size \in Nat
  BY <1>1, <1>2, <1>4, <1>5, CharsType
<1> QED
  BY <1>1, <1>2, <1>3, <1>6, <1>7, <1>8 DEF ns

\* Cut to its share of the limit, a conversation is within the limit.
LEMMA BoundedFits ==
  ASSUME NEW ms \in Seq(Messages), Len(ms) # 0
  PROVE  Chars(Bounded(ms)) <= ContextLimit
<1> DEFINE bs == Bounded(ms)
           share == ContextLimit \div Len(ms)
<1>1. bs \in Seq(Messages)
  BY BoundedType
<1>2. DOMAIN bs = DOMAIN ms
  BY Zenon DEF Bounded
<1>3. DOMAIN bs = 1..Len(bs) /\ DOMAIN ms = 1..Len(ms) /\ Len(ms) \in Nat \ {0} /\ Len(bs) \in Nat
  BY <1>1, ConversationSum
<1>4. Len(bs) = Len(ms)
  <2> HIDE DEF bs
  <2>1. 1..Len(bs) = 1..Len(ms)
    BY <1>2, <1>3, Zenon
  <2>2. Len(bs) \in Nat /\ Len(ms) \in Nat
    BY <1>3
  <2> QED
    BY <2>1, <2>2, SameInterval
<1>5. share \in Nat /\ share * Len(ms) <= ContextLimit
  BY <1>3, LoopAssumption, SMT
<1> HIDE DEF share
<1>6. ASSUME NEW i \in DOMAIN bs
      PROVE  bs[i].size \in Nat /\ bs[i].size <= share
  <2>1. ms[i] \in Messages /\ ms[i].size \in Nat
    BY <1>2, ConversationSum
  <2>2. bs[i] = [ms[i] EXCEPT !.size = Min({@, share})]
    BY <1>2 DEF Bounded, share
  <2>3. bs[i].size = Min({ms[i].size, share})
    BY <2>1, <2>2 DEF Messages
  <2> QED
    BY <1>5, <2>1, <2>3, MinOfTwo
<1> HIDE DEF bs
<1>7. PICK g : Adds(g, bs) /\ Chars(bs) = g[DOMAIN bs]
  BY <1>1, ConversationSum
<1>8. Chars(bs) <= share * Cardinality(DOMAIN bs)
  <2>1. IsFiniteSet(DOMAIN bs)
    BY <1>1, ConversationSum
  <2>2. \A S \in SUBSET DOMAIN bs : g[S] <= share * Cardinality(S)
    BY <1>5, <1>6, <1>7, <2>1, SumBounded
  <2>3. DOMAIN bs \in SUBSET DOMAIN bs
    OBVIOUS
  <2> QED
    BY <1>7, <2>2, <2>3
<1>9. Cardinality(DOMAIN bs) = Len(ms)
  BY <1>1, <1>4, ConversationSum
<1>10. Chars(bs) \in Nat
  BY <1>1, CharsType
<1> DEFINE p == share * Len(ms)
<1>11. p \in Nat /\ Chars(bs) <= p /\ p <= ContextLimit
  <2>1. p \in Nat
    BY <1>3, <1>5, SMT
  <2> QED
    BY <1>5, <1>8, <1>9, <2>1
<1> HIDE DEF p
<1>12. Chars(bs) <= ContextLimit
  BY <1>10, <1>11, LoopAssumption
<1> QED
  BY <1>12 DEF bs

\* Cutting the messages keeps what they are.
LEMMA BoundedKinds ==
  ASSUME NEW ms \in Seq(Messages)
  PROVE  /\ Len(Bounded(ms)) = Len(ms)
         /\ \A i \in 1..Len(ms) : Bounded(ms)[i].kind = ms[i].kind
<1> DEFINE cut(i) == [ms[i] EXCEPT !.size = Min({@, ContextLimit \div Len(ms)})]
<1>1. DOMAIN ms = 1..Len(ms) /\ Len(ms) \in Nat
  OBVIOUS
<1>2. Bounded(ms) = [i \in 1..Len(ms) |-> cut(i)]
  BY <1>1 DEF Bounded
<1>3. ASSUME NEW i \in 1..Len(ms)
      PROVE  cut(i).kind = ms[i].kind
  <2>1. ms[i] \in Messages
    OBVIOUS
  <2> QED
    BY <2>1 DEF Messages
<1> HIDE DEF cut
<1>4. Len([i \in 1..Len(ms) |-> cut(i)]) = Len(ms)
  BY <1>1
<1> QED
  BY <1>2, <1>3, <1>4

\* The last six messages of one conversation end the other, whatever became of their sizes.
SameEnd(ms, ns) ==
  \A k \in 0..5 : k < Len(ms) => k < Len(ns) /\ ns[Len(ns) - k].kind = ms[Len(ms) - k].kind

LEMMA EndOfSame ==
  ASSUME NEW ms, NEW ns, Len(ms) \in Nat, Len(ns) = Len(ms),
         \A i \in 1..Len(ms) : ns[i].kind = ms[i].kind
  PROVE  SameEnd(ms, ns)
<1>1. ASSUME NEW k \in 0..5, k < Len(ms)
      PROVE  ns[Len(ms) - k].kind = ms[Len(ms) - k].kind
  <2>1. Len(ms) - k \in 1..Len(ms)
    BY <1>1
  <2> QED
    BY <2>1
<1> QED
  BY <1>1 DEF SameEnd

\* Trimming keeps the first message and the last six, but for their length, and the limit.
LEMMA TrimmedKeeps ==
  ASSUME NEW ms \in Seq(Messages), Len(ms) # 0
  PROVE  /\ Len(Trimmed(ms)) # 0 /\ Trimmed(ms)[1].kind = ms[1].kind
         /\ SameEnd(ms, Trimmed(ms))
         /\ Chars(Trimmed(ms)) <= ContextLimit
<1> DEFINE last == Len(ms) - 6
           recent == SubSeq(ms, last + 1, Len(ms))
           Keep(n) == <<ms[1]>> \o SubSeq(ms, 2 + n, last) \o recent
           fits == {n \in 0..(last - 1) : Chars(Keep(n)) <= ContextLimit}
           dropped == Min(fits \union {last - 1})
           kept == IF dropped = last - 1 THEN <<ms[1], Message("trimmed")>> \o recent
                   ELSE Keep(dropped)
<1>1. CASE Chars(ms) <= ContextLimit
  <2>1. Trimmed(ms) = ms
    BY <1>1, Zenon DEF Trimmed, TrimKeeping
  <2> QED
    BY <1>1, <2>1 DEF SameEnd
<1>2. CASE ~(Chars(ms) <= ContextLimit) /\ Len(ms) <= 6 + 1
  <2>1. Trimmed(ms) = Bounded(ms)
    BY <1>2, Zenon DEF Trimmed, TrimKeeping
  <2> QED
    <3>1. /\ Len(Bounded(ms)) = Len(ms)
          /\ \A i \in 1..Len(ms) : Bounded(ms)[i].kind = ms[i].kind
      BY BoundedKinds
    <3>2. SameEnd(ms, Bounded(ms))
      BY <3>1, EndOfSame
    <3>3. Chars(Bounded(ms)) <= ContextLimit
      BY BoundedFits
    <3>4. 1 \in 1..Len(ms)
      OBVIOUS
    <3> QED
      BY <2>1, <3>1, <3>2, <3>3, <3>4
<1>3. CASE ~(Chars(ms) <= ContextLimit) /\ ~(Len(ms) <= 6 + 1)
  <2>1. last \in Nat /\ last >= 2 /\ Len(ms) \in Nat
    BY <1>3
  <2>2. ms[1] \in Messages /\ Message("trimmed") \in Messages
    BY <1>3, MessageType DEF Kinds
  <2>3. /\ recent \in Seq(Messages) /\ Len(recent) = 6
        /\ \A k \in 0..5 : recent[6 - k] = ms[Len(ms) - k]
    BY <2>1
  <2>4. dropped \in 0..(last - 1)
    <3>1. fits \union {last - 1} \subseteq Nat
      BY <2>1
    <3>2. dropped \in fits \union {last - 1}
      <4> HIDE DEF fits, last
      <4> QED
        BY <3>1, MinOfNaturals, Zenon
    <3> QED
      BY <2>1, <3>2
  <2>5. \E front \in Seq(Messages) :
          kept = front \o recent /\ Len(front) # 0 /\ front[1] = ms[1]
    <3> HIDE DEF recent
    <3>1. CASE dropped = last - 1
      <4> DEFINE front == <<ms[1], Message("trimmed")>>
      <4>1. front \in Seq(Messages) /\ Len(front) # 0 /\ front[1] = ms[1]
        BY <2>2
      <4>2. kept = front \o recent
        BY <3>1, Zenon
      <4> QED
        BY <4>1, <4>2
    <3>2. CASE dropped # last - 1
      <4> DEFINE front == <<ms[1]>> \o SubSeq(ms, 2 + dropped, last)
      <4>1. front \in Seq(Messages) /\ Len(front) # 0 /\ front[1] = ms[1]
        <5> HIDE DEF dropped
        <5>1. SubSeq(ms, 2 + dropped, last) \in Seq(Messages)
          BY <2>1, <2>4
        <5>2. <<ms[1]>> \in Seq(Messages)
          BY <2>2
        <5> QED
          BY <5>1, <5>2
      <4>2. kept = front \o recent
        BY <3>2, Zenon
      <4> QED
        BY <4>1, <4>2
    <3> QED
      BY <3>1, <3>2
  <2>6. Trimmed(ms) = IF Chars(kept) <= ContextLimit THEN kept ELSE Bounded(kept)
    BY <1>3, Zenon DEF Trimmed, TrimKeeping
  <2> HIDE DEF kept, recent
  <2>7. PICK front \in Seq(Messages) :
          kept = front \o recent /\ Len(front) # 0 /\ front[1] = ms[1]
    BY <2>5
  <2>8. /\ kept \in Seq(Messages) /\ Len(kept) = Len(front) + 6 /\ kept[1] = ms[1]
        /\ \A j \in 1..6 : kept[Len(front) + j] = recent[j]
    <3> DEFINE n == Len(front)
    <3>1. n \in Nat /\ n # 0
      BY <2>7
    <3> DEFINE both == front \o recent
    <3>a. /\ both \in Seq(Messages) /\ Len(both) = n + Len(recent)
          /\ \A i \in 1..(n + Len(recent)) :
               both[i] = IF i <= n THEN front[i] ELSE recent[i - n]
      BY <2>3, ConcatProperties
    <3> HIDE DEF both
    <3>b. kept = both
      BY <2>7 DEF both
    <3>2. kept \in Seq(Messages) /\ Len(kept) = n + 6
      BY <2>3, <3>a, <3>b
    <3>3. \A i \in 1..(n + 6) : kept[i] = IF i <= n THEN front[i] ELSE recent[i - n]
      BY <2>3, <3>a, <3>b
    <3>4. kept[1] = ms[1]
      BY <2>7, <3>1, <3>3
    <3>5. ASSUME NEW j \in 1..6
          PROVE  kept[n + j] = recent[j]
      <4>1. n + j \in 1..(n + 6) /\ ~ (n + j <= n) /\ (n + j) - n = j
        BY <3>1
      <4> QED
        BY <3>3, <4>1
    <3> QED
      BY <3>2, <3>4, <3>5
  <2>9. SameEnd(ms, kept)
    <3>1. ASSUME NEW k \in 0..5, k < Len(ms)
          PROVE  k < Len(kept) /\ kept[Len(kept) - k] = ms[Len(ms) - k]
      <4>1. Len(kept) - k = Len(front) + (6 - k) /\ 6 - k \in 1..6 /\ k < Len(kept)
        BY <2>7, <2>8
      <4> QED
        BY <2>3, <2>8, <4>1
    <3> QED
      BY <3>1 DEF SameEnd
  <2>10. CASE Chars(kept) <= ContextLimit
    BY <2>6, <2>8, <2>9, <2>10
  <2>11. CASE ~(Chars(kept) <= ContextLimit)
    <3>1. Trimmed(ms) = Bounded(kept) /\ Len(kept) # 0
      BY <2>6, <2>7, <2>8, <2>11
    <3>2. /\ Len(Bounded(kept)) = Len(kept)
          /\ \A i \in 1..Len(kept) : Bounded(kept)[i].kind = kept[i].kind
      BY <2>8, BoundedKinds
    <3>3. SameEnd(ms, Bounded(kept))
      <4>1. SameEnd(kept, Bounded(kept))
        <5>1. Len(kept) \in Nat
          BY <2>8
        <5> HIDE DEF SameEnd
        <5> QED
          BY <3>2, <5>1, EndOfSame
      <4> QED
        BY <2>9, <3>2, <4>1 DEF SameEnd
    <3>4. Chars(Bounded(kept)) <= ContextLimit
      BY <2>8, <3>1, BoundedFits
    <3> QED
      BY <2>8, <3>1, <3>2, <3>3, <3>4
  <2> QED
    BY <2>10, <2>11
<1> QED
  BY <1>1, <1>2, <1>3

-----------------------------------------------------------------------------
(* The conversation of a stage. *)

\* The task opens the conversation.
Opened == Len(messages) # 0 /\ messages[1].kind = "task"

\* Every round of the forced finalisation puts two messages after the instruction.
Instructed ==
  loop.phase = "final" /\ loop.pc \in {"head", "chat", "tools"} =>
    \E k \in 0..(2 * (loop.extra - 1)) :
      k < Len(messages) /\ messages[Len(messages) - k].kind = "finalise"

\* A conversation the model is asked with is within the limit, but for the checkpoint.
Within == loop.pc = "chat" => Chars(messages) <= ContextLimit + 1

Context == Opened /\ Instructed /\ Within

LEMMA InitContext == Init => Context
BY DEF Init, Context, Opened, Instructed, Within, Message

\* The instruction is put after a trimmed conversation.
LEMMA FinaliseContext ==
  ASSUME loop \in Loops, NEW ms \in Seq(Messages), Len(ms) # 0, ms[1].kind = "task",
         NEW tokens \in 1..MaxTokens,
         NEW reason \in {"iteration_budget_exhausted", "wall_time_exhausted", "protocol_stalled"},
         Finalise(ms, tokens, reason)
  PROVE  Context'
<1>1. loop'.pc = "head" /\ loop'.phase = "final" /\ loop'.extra = 1
  BY FinaliseKeeps
<1> DEFINE ts == Trimmed(ms)
           m == Message("finalise")
<1>2. ts \in Seq(Messages) /\ Len(ts) # 0 /\ ts[1].kind = "task"
  BY TrimmedType, TrimmedKeeps
<1>3. m \in Messages /\ m.kind = "finalise"
  BY MessageType DEF Kinds, Message
<1>4. messages' = Append(ts, m)
  BY DEF Finalise
<1> HIDE DEF ts, m
<1>5. /\ Len(messages') = Len(ts) + 1 /\ Len(ts) \in Nat
      /\ messages'[1] = ts[1] /\ messages'[Len(ts) + 1] = m
  BY <1>2, <1>3, <1>4
<1>6. Opened'
  BY <1>2, <1>5 DEF Opened
<1>7. Instructed'
  <2>1. 0 \in 0..(2 * (loop'.extra - 1))
    BY <1>1
  <2>2. 0 < Len(messages') /\ messages'[Len(messages') - 0].kind = "finalise"
    BY <1>3, <1>5
  <2> QED
    BY <2>1, <2>2 DEF Instructed
<1>8. Within'
  BY <1>1 DEF Within
<1> QED
  BY <1>6, <1>7, <1>8 DEF Context

\* A round adds the reply and what answers it.
LEMMA RoundContext ==
  ASSUME Context, loop \in Loops, messages \in Seq(Messages),
         NEW a \in Messages, NEW b \in Messages, messages' = messages \o <<a, b>>,
         loop.pc \in {"chat", "tools"}, loop'.pc \in {"head", "done"}, loop'.phase = loop.phase,
         loop'.pc = "head" /\ loop.phase = "final" => loop'.extra = loop.extra + 1
  PROVE  Context'
<1>1. /\ Len(messages') = Len(messages) + 2 /\ Len(messages) \in Nat
      /\ \A i \in 1..Len(messages) : messages'[i] = messages[i]
  OBVIOUS
<1>2. Opened'
  BY <1>1 DEF Context, Opened
<1>3. Instructed'
  <2> SUFFICES ASSUME loop.phase = "final", loop'.pc = "head"
               PROVE  \E k \in 0..(2 * (loop'.extra - 1)) :
                        k < Len(messages') /\ messages'[Len(messages') - k].kind = "finalise"
    BY DEF Instructed
  <2>1. PICK k \in 0..(2 * (loop.extra - 1)) :
          k < Len(messages) /\ messages[Len(messages) - k].kind = "finalise"
    BY DEF Context, Instructed
  <2>2. loop.extra \in Nat /\ loop'.extra = loop.extra + 1
    BY DEF Loops
  <2>3. k + 2 \in 0..(2 * (loop'.extra - 1))
    BY <2>2
  <2>4. Len(messages') - (k + 2) = Len(messages) - k /\ Len(messages) - k \in 1..Len(messages)
    BY <1>1, <2>1, <2>2
  <2>5. k + 2 < Len(messages')
    BY <1>1, <2>1, <2>2
  <2>6. messages'[Len(messages') - (k + 2)].kind = "finalise"
    BY <1>1, <2>1, <2>4
  <2> QED
    BY <2>3, <2>5, <2>6
<1>4. Within'
  BY DEF Within
<1> QED
  BY <1>2, <1>3, <1>4 DEF Context

\* The conversation is left alone.
LEMMA SameContext ==
  ASSUME Context, UNCHANGED messages, loop'.phase = loop.phase, loop'.extra = loop.extra,
         loop'.pc \in {"tools", "done", "raised", "interrupted"} \union {loop.pc},
         loop'.pc = "tools" => loop.pc \in {"chat", "tools"}
  PROVE  Context'
<1>1. Opened' /\ Within'
  BY DEF Context, Opened, Within
<1>2. Instructed'
  <2> SUFFICES ASSUME loop.phase = "final", loop'.pc \in {"head", "chat", "tools"}
               PROVE  \E k \in 0..(2 * (loop.extra - 1)) :
                        k < Len(messages) /\ messages[Len(messages) - k].kind = "finalise"
    BY DEF Instructed
  <2>1. loop.pc \in {"head", "chat", "tools"}
    OBVIOUS
  <2> QED
    BY <2>1 DEF Context, Instructed
<1> QED
  BY <1>1, <1>2 DEF Context

\* In a few rounds the instruction is among the last six messages, which trimming keeps.
LEMMA NextContext ==
  ASSUME Finalisations <= 3, IInv, Context, [Next]_vars
  PROVE  Context'
<1>0. /\ loop \in Loops /\ messages \in Seq(Messages) /\ AtRest /\ Counted /\ ClientInv
      /\ loop.tokens \in 1..MaxTokens /\ loop.extra \in Nat
  BY IInvParts DEF Loops
<1>1. CASE WallSpent \/ IterationsSpent
  <2>1. \E reason \in {"wall_time_exhausted", "iteration_budget_exhausted"} :
          Finalise(messages, loop.tokens, reason)
    BY <1>1 DEF WallSpent, IterationsSpent
  <2> QED
    BY <1>0, <2>1, FinaliseContext DEF Context, Opened
<1>2. CASE Iterate
  <2> DEFINE ts == Trimmed(messages)
             m == Message("checkpoint")
  <2>1. /\ ts \in Seq(Messages) /\ Len(ts) # 0 /\ ts[1].kind = "task"
        /\ Chars(ts) <= ContextLimit /\ Chars(ts) \in Nat
    BY <1>0, TrimmedType, TrimmedKeeps, CharsType DEF Context, Opened
  <2>2. m \in Messages /\ m.size = 1
    BY MessageType DEF Kinds, Message
  <2>3. messages' = ts \/ messages' = Append(ts, m)
    BY <1>2 DEF Iterate
  <2>4. loop'.phase = "normal"
    BY <1>0, <1>2 DEF Iterate, At, Loops
  <2> HIDE DEF ts, m
  <2>5. Chars(messages') <= ContextLimit + 1
    <3>1. Chars(Append(ts, m)) = Chars(ts) + 1
      BY <2>1, <2>2, CharsOfAppend
    <3>2. Chars(messages') = Chars(ts) \/ Chars(messages') = Chars(ts) + 1
      BY <2>3, <3>1, Zenon
    <3> DEFINE n == Chars(ts)
    <3>3. n \in Nat /\ n <= ContextLimit /\ (Chars(messages') = n \/ Chars(messages') = n + 1)
      BY <2>1, <3>2
    <3> HIDE DEF n
    <3> QED
      BY <3>3, LoopAssumption
  <2>6. Len(messages') # 0 /\ messages'[1].kind = "task"
    BY <2>1, <2>2, <2>3
  <2> QED
    BY <2>4, <2>5, <2>6 DEF Context, Opened, Instructed, Within
<1>3. CASE IterateFinal
  <2> DEFINE ts == Trimmed(messages)
  <2>1. /\ ts \in Seq(Messages) /\ Len(ts) # 0 /\ ts[1].kind = "task"
        /\ SameEnd(messages, ts) /\ Chars(ts) <= ContextLimit /\ Chars(ts) \in Nat
    BY <1>0, TrimmedType, TrimmedKeeps, CharsType DEF Context, Opened
  <2>2. /\ messages' = ts /\ loop.pc = "head" /\ loop.phase = "final"
        /\ loop.extra <= Finalisations
        /\ loop'.extra = loop.extra
    BY <1>0, <1>3 DEF IterateFinal, At, Loops
  <2>3. PICK k \in 0..(2 * (loop.extra - 1)) :
          k < Len(messages) /\ messages[Len(messages) - k].kind = "finalise"
    BY <2>2 DEF Context, Instructed
  <2>4. k \in 0..5
    BY <1>0, <2>2, LoopAssumption
  <2>5. k < Len(ts) /\ ts[Len(ts) - k].kind = "finalise"
    BY <2>1, <2>3, <2>4 DEF SameEnd
  <2> HIDE DEF ts
  <2>6. Chars(messages') <= ContextLimit + 1
    BY <2>1, <2>2, LoopAssumption
  <2> QED
    BY <2>1, <2>2, <2>3, <2>5, <2>6 DEF Context, Opened, Instructed, Within
<1>4. CASE Malformed
  <2> DEFINE tokens == IF chat.cut THEN Capped(2 * Retained) ELSE Retained
             spoken == messages \o <<Message("reply"), Message("repair")>>
             repaired == [loop EXCEPT !.errors = @ + 1, !.tokens = tokens, !.retained = tokens]
  <2>1. Message("reply") \in Messages /\ Message("repair") \in Messages
    BY MessageType DEF Kinds
  <2>2. spoken \in Seq(Messages) /\ Len(spoken) # 0 /\ spoken[1].kind = "task"
    BY <1>0, <2>1 DEF Context, Opened
  <2>3. tokens \in 1..MaxTokens
    BY <1>0, RetainedType, CappedType
  <2>4. loop.pc = "chat"
    BY <1>4 DEF Malformed
  <2>5. \/ Finalise(spoken, tokens, "protocol_stalled")
        \/ loop' = NextRound(repaired) /\ messages' = spoken
    BY <1>4, Zenon DEF Malformed
  <2> HIDE DEF tokens
  <2>6. CASE Finalise(spoken, tokens, "protocol_stalled")
    <3> HIDE DEF spoken
    <3> QED
      BY <1>0, <2>2, <2>3, <2>6, FinaliseContext
  <2>7. CASE loop' = NextRound(repaired) /\ messages' = spoken
    <3>1. /\ loop'.pc = "head" /\ loop'.phase = loop.phase
          /\ loop.phase = "final" => loop'.extra = loop.extra + 1
      BY <1>0, <2>7 DEF NextRound, Loops
    <3> QED
      BY <1>0, <2>1, <2>4, <2>7, <3>1, RoundContext
  <2> QED
    BY <2>5, <2>6, <2>7
<1>5. CASE EndOfReply
  <2> DEFINE rested == [loop EXCEPT !.calls = 0, !.big = FALSE]
             result == [kind |-> "result", size |-> IF loop.big THEN 1 + BigResult ELSE 1]
  <2>1. Message("reply") \in Messages /\ result \in Messages
    BY MessageType, LoopAssumption DEF Kinds, Messages
  <2>2. /\ loop.pc = "tools" /\ messages' = messages \o <<Message("reply"), result>>
        /\ loop' = IF loop.finished THEN [loop EXCEPT !.pc = "done"] ELSE NextRound(rested)
    BY <1>5 DEF EndOfReply
  <2>3. /\ loop'.pc \in {"head", "done"} /\ loop'.phase = loop.phase
        /\ loop'.pc = "head" /\ loop.phase = "final" => loop'.extra = loop.extra + 1
    BY <1>0, <2>2 DEF NextRound, Loops
  <2> HIDE DEF result
  <2> QED
    BY <1>0, <2>1, <2>2, <2>3, RoundContext
<1>6. CASE FinalisationSpent \/ ModelFails \/ LogFails \/ Interrupted
  <2>1. UNCHANGED messages /\ loop'.pc \in {"done", "raised", "interrupted"}
    BY <1>0, <1>6 DEF FinalisationSpent, ModelFails, LogFails, Interrupted, Loops
  <2>2. loop'.phase = loop.phase /\ loop'.extra = loop.extra
    BY <1>0, <1>6 DEF FinalisationSpent, ModelFails, LogFails, Interrupted, Loops
  <2> QED
    BY <2>1, <2>2, SameContext
<1>7. CASE Explore \/ WriteSpec \/ WriteFile \/ Finish
  <2>1. Calling /\ loop.pc = "tools" /\ UNCHANGED messages
    BY <1>7 DEF Explore, WriteSpec, WriteFile, Finish, Calling
  <2>2. /\ Called \in Loops /\ Called.pc = "tools" /\ Called.phase = loop.phase
        /\ Called.extra = loop.extra
    BY <1>0, <2>1, CalledType
  <2>3. loop'.pc = "tools" /\ loop'.phase = loop.phase /\ loop'.extra = loop.extra
    BY <1>7, <2>2 DEF Explore, WriteSpec, WriteFile, Finish, Loops
  <2> QED
    BY <2>1, <2>3, SameContext
<1>8. CASE Parsed
  <2>1. /\ UNCHANGED messages /\ loop.pc = "chat" /\ loop'.pc = "tools"
        /\ loop'.phase = loop.phase /\ loop'.extra = loop.extra
    BY <1>0, <1>8 DEF Parsed, Loops
  <2> QED
    BY <2>1, SameContext
<1>9. CASE AskingModel \/ UNCHANGED vars
  BY <1>9, SameContext DEF AskingModel, vars
<1> QED
  BY <1>1, <1>2, <1>3, <1>4, <1>5, <1>6, <1>7, <1>8, <1>9 DEF Next

-----------------------------------------------------------------------------
\* Whenever the model is asked, trimming has kept the task and, in the forced finalisation
\* of three requests that the code has, the instruction, and the conversation is within the
\* limit but for the checkpoint, for any sizes of messages, any limit and any numbers of
\* iterations, errors and calls.
THEOREM ContextKeptHolds ==
  ASSUME Finalisations <= 3
  PROVE  Spec => []ContextKept
<1>1. IInv /\ Context /\ [Next]_vars => Context'
  BY NextContext
<1>2. IInv /\ Context => ContextKept
  <2> SUFFICES ASSUME IInv, Context, loop.pc = "chat"
               PROVE  /\ messages[1].kind = "task"
                      /\ loop.phase = "final" =>
                           \E i \in DOMAIN messages : messages[i].kind = "finalise"
                      /\ Chars(messages) <= ContextLimit + 1
    BY DEF ContextKept
  <2>1. messages \in Seq(Messages) /\ loop \in Loops
    BY IInvParts
  <2>2. ASSUME loop.phase = "final"
        PROVE  \E i \in DOMAIN messages : messages[i].kind = "finalise"
    <3>1. PICK k \in 0..(2 * (loop.extra - 1)) :
            k < Len(messages) /\ messages[Len(messages) - k].kind = "finalise"
      BY <2>2 DEF Context, Instructed
    <3>2. loop.extra \in Nat
      BY <2>1 DEF Loops
    <3>3. Len(messages) - k \in DOMAIN messages
      BY <2>1, <3>1, <3>2
    <3> QED
      BY <3>1, <3>3
  <2> QED
    BY <2>2 DEF Context, Opened, Within
<1> QED
  BY InitContext, AlwaysIInv, <1>1, <1>2, PTL DEF Spec
=============================================================================
