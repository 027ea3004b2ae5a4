--------------------------- MODULE Exploration_proofs ---------------------------
(***************************************************************************)
(* Proofs about Exploration, for any spaces, limits and samples of the     *)
(* runner: the enumeration finds every interleaving within the bound, once *)
(* each; an exploration that says it is complete ran them all with every   *)
(* input, and each passed; one that does not says why; the tables are what *)
(* was observed; and no run begins while a cleanup is unconfirmed.         *)
(***************************************************************************)
EXTENDS Exploration, FiniteSetTheorems, TLAPS

\* Induction over the naturals, on a set.
LEMMA Induction ==
    ASSUME NEW S, 0 \in S, \A n \in Nat : n \in S => n + 1 \in S
    PROVE  Nat \subseteq S
<1>. DEFINE T == Nat \ S
            Less == OpToRel(<, Nat)
<1>. SUFFICES ASSUME T # {} PROVE FALSE  OBVIOUS
<1>1. IsWellFoundedOn(Less, Nat) /\ T \subseteq Nat  BY NatLessThanWellFounded
<1>2. \A m, n \in Nat : m < n => <<m, n>> \in Less  BY DEF OpToRel
<1>. HIDE DEF T, Less
<1>3. PICK n \in T : \A m \in T : <<m, n>> \notin Less  BY <1>1, WFMin
<1>4. n \in Nat /\ n \notin S  BY <1>3 DEF T
<1>5. n # 0 /\ n - 1 \in Nat /\ n - 1 < n /\ (n - 1) + 1 = n  BY <1>4
<1>6. n - 1 \in T  BY <1>4, <1>5 DEF T
<1>. QED  BY <1>2, <1>3, <1>4, <1>5, <1>6

(***************************************************************************)
(* Sequences that are flattened.                                           *)
(***************************************************************************)
\* The table of prefixes that FlattenSeq chooses, up to some sequence.
Flats(f, parts, n) ==
    f = [i \in 1..n |-> IF i = 1 THEN parts[i] ELSE f[i - 1] \o parts[i]]

\* There is such a table.
LEMMA FlatsExist ==
    ASSUME NEW parts, NEW N \in Nat
    PROVE  \E f : Flats(f, parts, N)
<1>. DEFINE S == {n \in Nat : \E f : Flats(f, parts, n)}
<1>1. 0 \in S
  <2>. DEFINE f == [i \in 1..0 |-> parts[i]]
  <2>1. f = [i \in 1..0 |-> IF i = 1 THEN parts[i] ELSE f[i - 1] \o parts[i]]  OBVIOUS
  <2>. QED  BY <2>1 DEF Flats
<1>2. ASSUME NEW n \in Nat, n \in S PROVE n + 1 \in S
  <2>1. PICK f : Flats(f, parts, n)  BY <1>2
  <2>. DEFINE x == IF n + 1 = 1 THEN parts[n + 1] ELSE f[n] \o parts[n + 1]
              g == [i \in 1..(n + 1) |-> IF i = n + 1 THEN x ELSE f[i]]
  <2>. HIDE DEF x
  <2>2. \A i \in 1..(n + 1) : g[i] = IF i = 1 THEN parts[i] ELSE g[i - 1] \o parts[i]
    <3>. TAKE i \in 1..(n + 1)
    <3>1. CASE i = n + 1
      <4>1. g[i] = x /\ (i # 1 => g[i - 1] = f[n])  BY <3>1
      <4>. QED  BY <3>1, <4>1 DEF x
    <3>2. CASE i \in 1..n
      <4>1. g[i] = f[i]  BY <3>2
      <4>2. f[i] = IF i = 1 THEN parts[i] ELSE f[i - 1] \o parts[i]  BY <2>1, <3>2 DEF Flats
      <4>3. i # 1 => g[i - 1] = f[i - 1]  BY <3>2
      <4>. QED  BY <4>1, <4>2, <4>3
    <3>. QED  BY <3>1, <3>2
  <2>3. g = [i \in 1..(n + 1) |-> g[i]]  OBVIOUS
  <2>. HIDE DEF g
  <2>4. Flats(g, parts, n + 1)  BY <2>2, <2>3 DEF Flats
  <2>. QED  BY <2>4
<1>. HIDE DEF S
<1>3. N \in S  BY <1>1, <1>2, Induction
<1>. QED  BY <1>3 DEF S

Together(parts, n) == UNION {ToSet(parts[i]) : i \in 1..n}

\* The parts of the first n are those of a prefix.
Joins(s, parts, n) ==
    /\ ToSet(s) = Together(parts, n)
    /\ (\A i \in 1..n : IsInjective(parts[i]))
       /\ (\A i, j \in 1..n : i # j => ToSet(parts[i]) \cap ToSet(parts[j]) = {})
          => IsInjective(s)

\* One more part.
LEMMA OneMore ==
    ASSUME NEW S, NEW s \in Seq(S), NEW t \in Seq(S)
    PROVE  /\ s \o t \in Seq(S) /\ ToSet(s \o t) = ToSet(s) \cup ToSet(t)
           /\ IsInjective(s) /\ IsInjective(t) /\ ToSet(s) \cap ToSet(t) = {} => IsInjective(s \o t)
<1>. DEFINE u == s \o t
<1>1. /\ u \in Seq(S) /\ Len(u) = Len(s) + Len(t) /\ Len(s) \in Nat /\ Len(t) \in Nat
      /\ DOMAIN u = 1..(Len(s) + Len(t)) /\ DOMAIN s = 1..Len(s) /\ DOMAIN t = 1..Len(t)
  OBVIOUS
<1>2. \A i \in 1..Len(s) : u[i] = s[i]  OBVIOUS
<1>3. \A i \in 1..Len(t) : u[Len(s) + i] = t[i]  OBVIOUS
<1>4. \A i \in DOMAIN u : \/ i \in DOMAIN s /\ u[i] = s[i]
                          \/ i - Len(s) \in DOMAIN t /\ u[i] = t[i - Len(s)]
  OBVIOUS
<1>. HIDE DEF u
<1>5. ToSet(u) \subseteq ToSet(s) \cup ToSet(t)  BY <1>4 DEF ToSet
<1>6. ToSet(s) \subseteq ToSet(u)  BY <1>1, <1>2 DEF ToSet
<1>7. ToSet(t) \subseteq ToSet(u)
  <2>1. \A i \in DOMAIN t : Len(s) + i \in DOMAIN u  BY <1>1
  <2>. QED  BY <1>1, <1>3, <2>1 DEF ToSet
<1>8. ASSUME IsInjective(s), IsInjective(t), ToSet(s) \cap ToSet(t) = {},
             NEW i \in DOMAIN u, NEW j \in DOMAIN u, u[i] = u[j]
      PROVE  i = j
  <2>1. \A a \in DOMAIN s, b \in DOMAIN t : s[a] # t[b]  BY <1>8 DEF ToSet
  <2>2. CASE i \in DOMAIN s /\ u[i] = s[i]
    <3>1. j \in DOMAIN s /\ u[j] = s[j]  BY <1>4, <1>8, <2>1, <2>2
    <3>. QED  BY <1>8, <2>2, <3>1 DEF IsInjective
  <2>3. CASE i - Len(s) \in DOMAIN t /\ u[i] = t[i - Len(s)]
    <3>1. j - Len(s) \in DOMAIN t /\ u[j] = t[j - Len(s)]  BY <1>4, <1>8, <2>1, <2>3
    <3>2. i - Len(s) = j - Len(s)  BY <1>8, <2>3, <3>1 DEF IsInjective
    <3>. QED  BY <1>1, <1>8, <3>2
  <2>. QED  BY <1>4, <2>2, <2>3
<1>. QED  BY <1>1, <1>5, <1>6, <1>7, <1>8 DEF u, IsInjective

\* What is flattened has the elements of its parts, each once if they have.
LEMMA FlattenJoins ==
    ASSUME NEW S, NEW N \in Nat, NEW parts \in [1..N -> Seq(S)]
    PROVE  FlattenSeq(parts) \in Seq(S) /\ Joins(FlattenSeq(parts), parts, N)
<1>1. Len(parts) = N  OBVIOUS
<1>2. CASE N = 0
  <2>1. FlattenSeq(parts) = parts  BY <1>1, <1>2 DEF FlattenSeq
  <2>2. parts = <<>> /\ 1..N = {}  BY <1>2
  <2>3. parts \in Seq(S) /\ DOMAIN parts = {}  BY <2>2
  <2>. QED  BY <2>1, <2>2, <2>3 DEF Joins, Together, ToSet, IsInjective
<1>3. CASE N # 0
  <2>. DEFINE F == CHOOSE f : Flats(f, parts, N)
              T == {n \in Nat : n + 1 <= N => F[n + 1] \in Seq(S) /\ Joins(F[n + 1], parts, n + 1)}
  <2>1. Flats(F, parts, N)  BY FlatsExist
  <2>2. FlattenSeq(parts) = F[N]  BY <1>1, <1>3 DEF FlattenSeq, Flats
  <2>. HIDE DEF F
  <2>3. \A i \in 1..N : F[i] = IF i = 1 THEN parts[i] ELSE F[i - 1] \o parts[i]
    BY <2>1 DEF Flats
  <2>4. 0 \in T
    <3>1. F[1] = parts[1] /\ parts[1] \in Seq(S) /\ 1..1 = {1} /\ 0 + 1 = 1  BY <1>3, <2>3
    <3>2. Joins(parts[1], parts, 1)  BY <3>1 DEF Joins, Together
    <3>. QED  BY <3>1, <3>2
  <2>5. ASSUME NEW n \in Nat, n \in T PROVE n + 1 \in T
    <3>. SUFFICES ASSUME n + 2 <= N
                  PROVE  F[n + 2] \in Seq(S) /\ Joins(F[n + 2], parts, n + 2)
      OBVIOUS
    <3>1. /\ n + 2 \in 1..N /\ n + 2 # 1 /\ (n + 2) - 1 = n + 1
          /\ F[n + 1] \in Seq(S) /\ Joins(F[n + 1], parts, n + 1)
      BY <2>5
    <3>2. F[n + 2] = F[n + 1] \o parts[n + 2] /\ parts[n + 2] \in Seq(S)  BY <2>3, <3>1
    <3>3. PICK s \in Seq(S), t \in Seq(S) : s = F[n + 1] /\ t = parts[n + 2]  BY <3>1, <3>2
    <3>4. /\ s \o t \in Seq(S) /\ ToSet(s \o t) = ToSet(s) \cup ToSet(t)
          /\ IsInjective(s) /\ IsInjective(t) /\ ToSet(s) \cap ToSet(t) = {} => IsInjective(s \o t)
      BY OneMore
    <3>5. 1..(n + 2) = 1..(n + 1) \cup {n + 2}  OBVIOUS
    <3>6. ToSet(s) = Together(parts, n + 1)  BY <3>1, <3>3 DEF Joins
    <3>7. \A x : x \in Together(parts, n + 2) <=> x \in Together(parts, n + 1) \/ x \in ToSet(t)
      BY <3>3, <3>5 DEF Together
    <3>8. ToSet(s \o t) = Together(parts, n + 2)  BY <3>4, <3>6, <3>7
    <3>9. ASSUME \A i \in 1..(n + 2) : IsInjective(parts[i]),
                 \A i, j \in 1..(n + 2) : i # j => ToSet(parts[i]) \cap ToSet(parts[j]) = {}
          PROVE  IsInjective(s \o t)
      <4>1. IsInjective(s)
        <5>1. \A i \in 1..(n + 1) : IsInjective(parts[i])  BY <3>5, <3>9
        <5>2. \A i, j \in 1..(n + 1) : i # j => ToSet(parts[i]) \cap ToSet(parts[j]) = {}
          BY <3>5, <3>9
        <5>. QED  BY <3>1, <3>3, <5>1, <5>2 DEF Joins
      <4>2. IsInjective(t)  BY <3>3, <3>9
      <4>3. \A i \in 1..(n + 1) : i \in 1..(n + 2) /\ n + 2 \in 1..(n + 2) /\ i # n + 2  OBVIOUS
      <4>4. \A i \in 1..(n + 1) : ToSet(parts[i]) \cap ToSet(t) = {}  BY <3>3, <3>9, <4>3
      <4>5. ToSet(s) \cap ToSet(t) = {}  BY <3>6, <4>4 DEF Together
      <4>. QED  BY <3>4, <4>1, <4>2, <4>5
    <3>. QED  BY <3>2, <3>3, <3>4, <3>8, <3>9 DEF Joins
  <2>. HIDE DEF T
  <2>6. Nat \subseteq T  BY <2>4, <2>5, Induction
  <2>7. N - 1 \in Nat /\ (N - 1) + 1 = N  BY <1>3
  <2>8. N - 1 \in T  BY <2>6, <2>7
  <2>9. (N - 1) + 1 <= N => F[(N - 1) + 1] \in Seq(S) /\ Joins(F[(N - 1) + 1], parts, (N - 1) + 1)
    BY <2>8 DEF T
  <2>. QED  BY <2>2, <2>7, <2>9
<1>. QED  BY <1>2, <1>3

(***************************************************************************)
(* Words of actors, and their first letters.                               *)
(***************************************************************************)
\* v is a word of n + 1 actors, and t what follows its first.
Follows(t, v, n, D) ==
    /\ v \in [1..(n + 1) -> D] /\ t \in [1..n -> D]
    /\ \A j \in 1..n : v[j + 1] = t[j]

\* A set that is moved up by one keeps its size.
LEMMA MovedUp ==
    ASSUME NEW m \in Nat, NEW A, NEW B, A \subseteq 1..m, B \subseteq Nat,
           \A k \in Nat : k + 1 \in B <=> k \in A, 0 \notin B
    PROVE  /\ IsFiniteSet(A) /\ IsFiniteSet(B)
           /\ Cardinality(A) \in Nat /\ Cardinality(B) = Cardinality(A)
<1>1. IsFiniteSet(A)
  <2>1. IsFiniteSet(1..m)  BY FS_Interval
  <2>. QED  BY <2>1, FS_Subset
<1>2. Cardinality(A) \in Nat  BY <1>1, FS_CardinalityType
<1>. DEFINE f == [k \in A |-> k + 1]
<1>3. \A k \in A : k \in Nat  OBVIOUS
<1>4. f \in [A -> B]  BY <1>3
<1>5. \A a, b \in A : f[a] = f[b] => a = b  BY <1>3
<1>6. \A b \in B : \E a \in A : f[a] = b
  <2>. TAKE b \in B
  <2>1. b \in Nat /\ b # 0  OBVIOUS
  <2>2. b - 1 \in Nat /\ (b - 1) + 1 = b  BY <2>1
  <2>3. b - 1 \in A  BY <2>2
  <2>. QED  BY <2>2, <2>3
<1>. HIDE DEF f
<1>7. f \in Bijection(A, B)  BY <1>4, <1>5, <1>6 DEF Bijection, Injection, Surjection, IsInjective
<1>8. ExistsBijection(A, B)  BY <1>7 DEF ExistsBijection
<1>. QED  BY <1>1, <1>2, <1>8, FS_Bijection

\* How often an actor has moved is a number, and never falls.
LEMMA MovedIsCount ==
    ASSUME NEW w, NEW a
    PROVE  /\ \A j \in Nat : Moved(w, a, j) \in Nat /\ IsFiniteSet({k \in 1..j : w[k] = a})
           /\ Moved(w, a, 0) = 0
           /\ \A j, l \in Nat : j <= l => Moved(w, a, j) <= Moved(w, a, l)
<1>1. ASSUME NEW j \in Nat
      PROVE  Moved(w, a, j) \in Nat /\ IsFiniteSet({k \in 1..j : w[k] = a})
  <2>1. IsFiniteSet(1..j)  BY FS_Interval
  <2>2. {k \in 1..j : w[k] = a} \subseteq 1..j  OBVIOUS
  <2>3. IsFiniteSet({k \in 1..j : w[k] = a})  BY <2>1, <2>2, FS_Subset
  <2>. QED  BY <2>3, FS_CardinalityType DEF Moved
<1>2. Moved(w, a, 0) = 0
  <2>1. {k \in 1..0 : w[k] = a} = {}  OBVIOUS
  <2>. QED  BY <2>1, FS_EmptySet DEF Moved
<1>3. ASSUME NEW j \in Nat, NEW l \in Nat, j <= l
      PROVE  Moved(w, a, j) <= Moved(w, a, l)
  <2>. DEFINE A == {k \in 1..j : w[k] = a}
              B == {k \in 1..l : w[k] = a}
  <2>1. IsFiniteSet(B)  BY <1>1
  <2>2. A \subseteq B  BY <1>3
  <2>3. Moved(w, a, j) = Cardinality(A) /\ Moved(w, a, l) = Cardinality(B)  BY DEF Moved
  <2>. HIDE DEF A, B
  <2>. QED  BY <2>1, <2>2, <2>3, FS_Subset
<1>. QED  BY <1>1, <1>2, <1>3

\* The first letter of a word counts for its actor.
LEMMA MovedAfterFirst ==
    ASSUME NEW n \in Nat, NEW D, NEW v, NEW t, Follows(t, v, n, D), NEW a, NEW j \in 0..n
    PROVE  Moved(v, a, j + 1) = Moved(t, a, j) + (IF a = v[1] THEN 1 ELSE 0)
<1>. DEFINE A == {k \in 1..j : t[k] = a}
            B == {k \in 2..(j + 1) : v[k] = a}
            C == {k \in 1..(j + 1) : v[k] = a}
<1>1. \A k \in Nat : k + 1 \in B <=> k \in A
  <2>. TAKE k \in Nat
  <2>1. k + 1 \in 2..(j + 1) <=> k \in 1..j  OBVIOUS
  <2>2. k \in 1..j => v[k + 1] = t[k]  BY DEF Follows
  <2>. QED  BY <2>1, <2>2
<1>2. A \subseteq 1..j /\ B \subseteq Nat /\ 0 \notin B /\ j \in Nat /\ 1 \notin B  OBVIOUS
<1>3. C = IF a = v[1] THEN B \cup {1} ELSE B  OBVIOUS
<1>4. Moved(v, a, j + 1) = Cardinality(C) /\ Moved(t, a, j) = Cardinality(A)  BY DEF Moved
<1>. HIDE DEF A, B, C
<1>5. IsFiniteSet(B) /\ Cardinality(A) \in Nat /\ Cardinality(B) = Cardinality(A)
  BY <1>1, <1>2, MovedUp
<1>6. Cardinality(B \cup {1}) = Cardinality(B) + 1  BY <1>2, <1>5, FS_AddElement
<1>. QED  BY <1>3, <1>4, <1>5, <1>6

\* Whom the j-th step of a word follows.
PriorTo(v, prior, j) == IF j = 1 THEN prior ELSE v[j - 1]

\* The steps that preempt: they follow another actor, which is to move again.
Preempts(v, prior, n, j) ==
    LET p == PriorTo(v, prior, j) IN
    p # 0 /\ p # v[j] /\ Moved(v, p, j - 1) < Moved(v, p, n)

Switches(v, prior, n) == {j \in 1..n : Preempts(v, prior, n, j)}

\* Switches are finitely many, and each letter adds at most one.
LEMMA SwitchesAreFinite ==
    ASSUME NEW v, NEW prior, NEW n \in Nat
    PROVE  IsFiniteSet(Switches(v, prior, n)) /\ Cardinality(Switches(v, prior, n)) \in Nat
<1>1. IsFiniteSet(1..n) /\ Switches(v, prior, n) \subseteq 1..n  BY FS_Interval DEF Switches
<1>2. IsFiniteSet(Switches(v, prior, n))  BY <1>1, FS_Subset
<1>. QED  BY <1>2, FS_CardinalityType

\* The first step of a word preempts by itself; the others as in the rest.
LEMMA SwitchesAfterFirst ==
    ASSUME NEW n \in Nat, NEW D, NEW v, NEW t, Follows(t, v, n, D), NEW prior
    PROVE  Cardinality(Switches(v, prior, n + 1))
              = Cardinality(Switches(t, v[1], n)) + (IF Preempts(v, prior, n + 1, 1) THEN 1 ELSE 0)
<1>. DEFINE A == Switches(t, v[1], n)
            C == Switches(v, prior, n + 1)
            B == {j \in C : j # 1}
<1>1. ASSUME NEW k \in Nat, k \in 1..n
      PROVE  Preempts(v, prior, n + 1, k + 1) <=> Preempts(t, v[1], n, k)
  <2>. DEFINE p == PriorTo(t, v[1], k)
  <2>1. PriorTo(v, prior, k + 1) = v[k]  BY <1>1 DEF PriorTo
  <2>2. p = v[k]
    <3>1. CASE k = 1  BY <3>1 DEF PriorTo
    <3>2. CASE k # 1
      <4>1. k - 1 \in 1..n /\ (k - 1) + 1 = k  BY <1>1, <3>2
      <4>2. v[(k - 1) + 1] = t[k - 1]  BY <4>1 DEF Follows
      <4>. QED  BY <3>2, <4>1, <4>2 DEF PriorTo
    <3>. QED  BY <3>1, <3>2
  <2>3. v[k + 1] = t[k]  BY <1>1 DEF Follows
  <2>. HIDE DEF p
  <2>4. PICK h \in 0..n : h = k - 1 /\ h + 1 = k /\ n \in 0..n  BY <1>1
  <2>5. Moved(v, p, h + 1) = Moved(t, p, h) + (IF p = v[1] THEN 1 ELSE 0)
    BY MovedAfterFirst
  <2>6. Moved(v, p, n + 1) = Moved(t, p, n) + (IF p = v[1] THEN 1 ELSE 0)
    <3>1. n \in 0..n  OBVIOUS
    <3>. QED  BY <3>1, MovedAfterFirst
  <2>7. Moved(t, p, h) \in Nat /\ Moved(t, p, n) \in Nat
    <3>1. h \in Nat  OBVIOUS
    <3>2. \A j \in Nat : Moved(t, p, j) \in Nat  BY MovedIsCount
    <3>. QED  BY <3>1, <3>2
  <2>8. Moved(v, p, h + 1) < Moved(v, p, n + 1) <=> Moved(t, p, h) < Moved(t, p, n)
    BY <2>5, <2>6, <2>7
  <2>9. (k + 1) - 1 = k  OBVIOUS
  <2>10. Preempts(v, prior, n + 1, k + 1)
           <=> p # 0 /\ p # t[k] /\ Moved(v, p, k) < Moved(v, p, n + 1)
    BY <2>1, <2>2, <2>3, <2>9 DEF Preempts
  <2>11. Preempts(t, v[1], n, k) <=> p # 0 /\ p # t[k] /\ Moved(t, p, h) < Moved(t, p, n)
    BY <2>4 DEF Preempts, p
  <2>. QED  BY <2>4, <2>8, <2>10, <2>11
<1>2. \A k \in Nat : k + 1 \in B <=> k \in A
  <2>. TAKE k \in Nat
  <2>1. k + 1 \in 1..(n + 1) /\ k + 1 # 1 <=> k \in 1..n  OBVIOUS
  <2>. QED  BY <1>1, <2>1 DEF Switches
<1>3. A \subseteq 1..n /\ B \subseteq Nat /\ 0 \notin B /\ 1 \notin B  BY DEF Switches
<1>4. C = IF Preempts(v, prior, n + 1, 1) THEN B \cup {1} ELSE B
  <2>1. 1 \in 1..(n + 1)  OBVIOUS
  <2>2. 1 \in C <=> Preempts(v, prior, n + 1, 1)  BY <2>1 DEF Switches
  <2>. QED  BY <2>2
<1>. HIDE DEF A, B, C
<1>5. IsFiniteSet(B) /\ Cardinality(A) \in Nat /\ Cardinality(B) = Cardinality(A)
  BY <1>2, <1>3, MovedUp
<1>6. Cardinality(B \cup {1}) = Cardinality(B) + 1  BY <1>3, <1>5, FS_AddElement
<1>7. Cardinality(C) = Cardinality(A) + (IF Preempts(v, prior, n + 1, 1) THEN 1 ELSE 0)
  BY <1>4, <1>5, <1>6
<1>. QED  BY <1>7 DEF A, C

(***************************************************************************)
(* The words below a node of the enumeration.                              *)
(***************************************************************************)
\* Chains of steps, of which no two have a step in common.
Chained(chains, Steps) ==
    /\ IsList(chains) /\ \A i \in DOMAIN chains : chains[i] \in Seq(Steps)
    /\ \A i, j \in DOMAIN chains : i # j =>
          \A k \in DOMAIN chains[i], l \in DOMAIN chains[j] : chains[i][k] # chains[j][l]

Stepped(at, i) == [at EXCEPT ![i] = @ + 1]

\* The word takes each actor from where it is to the end of its chain.
Fits(chains, n, at, v) ==
    \A i \in DOMAIN chains : at[i] + Moved(v, i, n) = Len(chains[i])

Spell(chains, n, at, v) ==
    [j \in 1..n |-> chains[v[j]][at[v[j]] + Moved(v, v[j], j)]]

\* A chain is a list of steps.
LEMMA ChainIsList ==
    ASSUME NEW chains, NEW Steps, Chained(chains, Steps), NEW i \in DOMAIN chains
    PROVE  /\ Len(chains[i]) \in Nat /\ DOMAIN chains[i] = 1..Len(chains[i])
           /\ \A k \in 1..Len(chains[i]) : chains[i][k] \in Steps
           /\ i \in Nat /\ i # 0
<1>1. chains[i] \in Seq(Steps)  BY DEF Chained
<1>2. i \in Nat /\ i # 0  BY DEF Chained, IsList
<1>. QED  BY <1>1, <1>2

\* A word that fits goes along the chains.
LEMMA MovesInChain ==
    ASSUME NEW chains, NEW Steps, Chained(chains, Steps), NEW n \in Nat,
           NEW at \in [DOMAIN chains -> Nat], NEW v \in [1..n -> DOMAIN chains],
           Fits(chains, n, at, v), NEW j \in 1..n
    PROVE  at[v[j]] + Moved(v, v[j], j) \in 1..Len(chains[v[j]])
<1>. DEFINE a == v[j]
            A == {k \in 1..j : v[k] = a}
<1>1. a \in DOMAIN chains /\ at[a] \in Nat /\ j \in Nat /\ j <= n  OBVIOUS
<1>2. IsFiniteSet(A) /\ Moved(v, a, j) = Cardinality(A) /\ Moved(v, a, j) \in Nat
  BY <1>1, MovedIsCount DEF Moved
<1>3. j \in A  OBVIOUS
<1>4. at[a] + Moved(v, a, n) = Len(chains[a])  BY <1>1 DEF Fits
<1>. HIDE DEF a, A
<1>5. Moved(v, a, j) # 0  BY <1>2, <1>3, FS_EmptySet
<1>6. Moved(v, a, j) <= Moved(v, a, n) /\ Moved(v, a, n) \in Nat  BY <1>1, MovedIsCount
<1>7. Len(chains[a]) \in Nat  BY <1>1, ChainIsList
<1>8. at[a] + Moved(v, a, j) \in 1..Len(chains[a])  BY <1>1, <1>2, <1>4, <1>5, <1>6, <1>7
<1>. QED  BY <1>8 DEF a

\* It is spelled with steps.
LEMMA SpelledInSteps ==
    ASSUME NEW chains, NEW Steps, Chained(chains, Steps), NEW n \in Nat,
           NEW at \in [DOMAIN chains -> Nat], NEW v \in [1..n -> DOMAIN chains],
           Fits(chains, n, at, v)
    PROVE  Spell(chains, n, at, v) \in [1..n -> Steps]
<1>. SUFFICES ASSUME NEW j \in 1..n
              PROVE  chains[v[j]][at[v[j]] + Moved(v, v[j], j)] \in Steps
  BY DEF Spell
<1>1. at[v[j]] + Moved(v, v[j], j) \in 1..Len(chains[v[j]])  BY MovesInChain
<1>2. \A k \in 1..Len(chains[v[j]]) : chains[v[j]][k] \in Steps
  <2>1. v[j] \in DOMAIN chains  OBVIOUS
  <2>. QED  BY <2>1, ChainIsList
<1>. QED  BY <1>1, <1>2

\* A word fits if its rest fits where its first step leads.
LEMMA FitsAfterFirst ==
    ASSUME NEW chains, NEW Steps, Chained(chains, Steps), NEW n \in Nat,
           NEW at \in [DOMAIN chains -> Nat], NEW v, NEW t, Follows(t, v, n, DOMAIN chains)
    PROVE  /\ Fits(chains, n + 1, at, v) <=> Fits(chains, n, Stepped(at, v[1]), t)
           /\ Fits(chains, n + 1, at, v) => at[v[1]] < Len(chains[v[1]])
<1>. DEFINE i == v[1]
<1>1. i \in DOMAIN chains  BY DEF Follows
<1>2. ASSUME NEW a \in DOMAIN chains
      PROVE  /\ at[a] + Moved(v, a, n + 1) = Stepped(at, i)[a] + Moved(t, a, n)
             /\ a = i => Moved(v, a, n + 1) \in Nat /\ Moved(v, a, n + 1) > 0
  <2>1. n \in 0..n  OBVIOUS
  <2>2. Moved(v, a, n + 1) = Moved(t, a, n) + (IF a = i THEN 1 ELSE 0)  BY <2>1, MovedAfterFirst
  <2>3. Moved(t, a, n) \in Nat  BY MovedIsCount
  <2>4. Stepped(at, i)[a] = at[a] + (IF a = i THEN 1 ELSE 0)  BY <1>1 DEF Stepped
  <2>5. at[a] \in Nat  OBVIOUS
  <2>. HIDE DEF i
  <2>. QED  BY <2>2, <2>3, <2>4, <2>5
<1>3. Fits(chains, n + 1, at, v) <=> Fits(chains, n, Stepped(at, i), t)  BY <1>2 DEF Fits
<1>4. ASSUME Fits(chains, n + 1, at, v) PROVE at[i] < Len(chains[i])
  <2>1. at[i] + Moved(v, i, n + 1) = Len(chains[i])  BY <1>1, <1>4 DEF Fits
  <2>2. Moved(v, i, n + 1) \in Nat /\ Moved(v, i, n + 1) > 0 /\ at[i] \in Nat  BY <1>1, <1>2
  <2>. QED  BY <2>1, <2>2
<1>. QED  BY <1>3, <1>4

\* It is spelled by its first step and the rest.
SpelledFrom(chains, n, at, v, t) ==
    Spell(chains, n + 1, at, v)
       = <<chains[v[1]][at[v[1]] + 1]>> \o Spell(chains, n, Stepped(at, v[1]), t)

\* A word that fits is spelled so.
LEMMA SpellAfterFirst ==
    ASSUME NEW chains, NEW Steps, Chained(chains, Steps), NEW n \in Nat,
           NEW at \in [DOMAIN chains -> Nat], NEW v, NEW t, Follows(t, v, n, DOMAIN chains),
           Fits(chains, n + 1, at, v)
    PROVE  SpelledFrom(chains, n, at, v, t)
<1>. DEFINE i == v[1]
            x == chains[i][at[i] + 1]
            r == Spell(chains, n, Stepped(at, i), t)
            s == Spell(chains, n + 1, at, v)
<1>1. i \in DOMAIN chains /\ v \in [1..(n + 1) -> DOMAIN chains] /\ t \in [1..n -> DOMAIN chains]
  BY DEF Follows
<1>2. s \in [1..(n + 1) -> Steps]  BY <1>1, SpelledInSteps
<1>3. r \in [1..n -> Steps]
  <2>1. Stepped(at, i) \in [DOMAIN chains -> Nat]  BY <1>1 DEF Stepped
  <2>2. Fits(chains, n, Stepped(at, i), t)  BY FitsAfterFirst
  <2>. QED  BY <1>1, <2>1, <2>2, SpelledInSteps
<1>4. s[1] = x
  <2>1. 0 \in 0..n /\ 0 + 1 = 1 /\ 1 \in 1..(n + 1)  OBVIOUS
  <2>2. Moved(v, i, 0 + 1) = Moved(t, i, 0) + (IF i = v[1] THEN 1 ELSE 0)
    BY <2>1, MovedAfterFirst
  <2>3. Moved(t, i, 0) = 0  BY MovedIsCount
  <2>4. Moved(v, i, 1) = 1  BY <2>1, <2>2, <2>3
  <2>. QED  BY <2>1, <2>4 DEF Spell
<1>5. \A j \in 1..n : s[j + 1] = r[j]
  <2>. TAKE j \in 1..n
  <2>. DEFINE a == t[j]
  <2>1. j + 1 \in 1..(n + 1) /\ v[j + 1] = a /\ j \in 0..n  BY DEF Follows
  <2>2. s[j + 1] = chains[a][at[a] + Moved(v, a, j + 1)]  BY <2>1 DEF Spell
  <2>3. r[j] = chains[a][Stepped(at, i)[a] + Moved(t, a, j)]  BY DEF Spell
  <2>4. a \in DOMAIN chains  BY <1>1
  <2>. HIDE DEF a, s, r
  <2>5. Moved(v, a, j + 1) = Moved(t, a, j) + (IF a = i THEN 1 ELSE 0)
    BY <2>1, MovedAfterFirst
  <2>6. Moved(t, a, j) \in Nat
    <3>1. j \in Nat  OBVIOUS
    <3>. QED  BY <3>1, MovedIsCount
  <2>7. Stepped(at, i)[a] = at[a] + (IF a = i THEN 1 ELSE 0)  BY <1>1, <2>4 DEF Stepped
  <2>8. at[a] \in Nat  BY <2>4
  <2>. HIDE DEF i
  <2>9. at[a] + Moved(v, a, j + 1) = Stepped(at, i)[a] + Moved(t, a, j)
    BY <2>5, <2>6, <2>7, <2>8
  <2>. QED  BY <2>2, <2>3, <2>9
<1>6. x \in Steps  BY <1>2, <1>4
<1>. HIDE DEF x, r, s, i
<1>7. s = <<x>> \o r
  <2>. DEFINE c == <<x>> \o r
  <2>1. <<x>> \in Seq(Steps) /\ r \in Seq(Steps) /\ s \in Seq(Steps)  BY <1>2, <1>3, <1>6
  <2>2. Len(r) = n /\ Len(s) = n + 1 /\ Len(<<x>>) = 1  BY <1>2, <1>3
  <2>3. c \in Seq(Steps) /\ Len(c) = n + 1 /\ c[1] = x  BY <2>1, <2>2
  <2>4. \A k \in 1..n : c[k + 1] = r[k]  BY <2>1, <2>2
  <2>5. \A k \in 1..(n + 1) : c[k] = s[k]
    <3>. TAKE k \in 1..(n + 1)
    <3>1. k = 1 \/ (k - 1 \in 1..n /\ (k - 1) + 1 = k)  OBVIOUS
    <3>2. CASE k = 1  BY <1>4, <2>3, <3>2
    <3>3. CASE k - 1 \in 1..n /\ (k - 1) + 1 = k
      <4>. HIDE DEF c
      <4>. QED  BY <1>5, <2>4, <3>3
    <3>. QED  BY <3>1, <3>2, <3>3
  <2>. HIDE DEF c
  <2>6. c = [k \in 1..(n + 1) |-> c[k]]  BY <2>3
  <2>7. s = [k \in 1..(n + 1) |-> s[k]]  BY <1>2
  <2>8. c = s  BY <2>5, <2>6, <2>7
  <2>. QED  BY <2>8 DEF c
<1>. QED  BY <1>7 DEF x, r, s, i, SpelledFrom

\* The words below a node: they fit, and preempt within what is left of the bound.
Words(chains, bound, n, node) ==
    {v \in [1..n -> DOMAIN chains] :
        /\ Fits(chains, n, node.at, v)
        /\ node.preemptions + Cardinality(Switches(v, node.prior, n)) <= bound}

Within(chains, at) ==
    at \in [DOMAIN chains -> Nat] /\ \A i \in DOMAIN chains : at[i] <= Len(chains[i])

\* A node that a visit may reach.
Reached(chains, bound, node) ==
    /\ node \in Places(chains) /\ Within(chains, node.at)
    /\ node.prior \in {0} \cup DOMAIN chains /\ node.preemptions <= bound

\* Where a step leads.
LEMMA MovingLeads ==
    ASSUME NEW chains, NEW Steps, Chained(chains, Steps), NEW node \in Places(chains),
           NEW i \in DOMAIN chains
    PROVE  LET next == Moving(chains, node, i) IN
           /\ next \in Places(chains) /\ next.at = Stepped(node.at, i) /\ next.prior = i
           /\ next.preemptions = node.preemptions + Extra(chains, node, i)
           /\ next.at[i] = node.at[i] + 1
<1>. DEFINE at == node.at
<1>1. at \in [DOMAIN chains -> Nat] /\ node.preemptions \in Nat  BY DEF Places
<1>2. i \in Nat  BY ChainIsList
<1>3. node.preemptions + Extra(chains, node, i) \in Nat  BY <1>1 DEF Extra
<1>4. Stepped(at, i) \in [DOMAIN chains -> Nat] /\ Stepped(at, i)[i] = at[i] + 1  BY <1>1 DEF Stepped
<1>5. Moving(chains, node, i) = [at |-> Stepped(at, i), prior |-> i,
                                preemptions |-> node.preemptions + Extra(chains, node, i)]
  BY DEF Moving, Stepped
<1>. HIDE DEF at
<1>6. Moving(chains, node, i) \in Places(chains)  BY <1>2, <1>3, <1>4, <1>5 DEF Places
<1>. QED  BY <1>4, <1>5, <1>6 DEF at

\* A word is below a node when its rest is below the node of its first step.
LEMMA WordsAfterFirst ==
    ASSUME NEW chains, NEW Steps, Chained(chains, Steps), NEW bound \in Nat, NEW n \in Nat,
           NEW node, Reached(chains, bound, node),
           NEW v, NEW t, Follows(t, v, n, DOMAIN chains)
    PROVE  LET next == Moving(chains, node, v[1]) IN
           v \in Words(chains, bound, n + 1, node)
             <=> /\ node.at[v[1]] # Len(chains[v[1]]) /\ next.preemptions <= bound
                 /\ t \in Words(chains, bound, n, next)
<1>. DEFINE i == v[1]
            at == node.at
            prior == node.prior
            pre == node.preemptions
            e == Extra(chains, node, i)
            c == Cardinality(Switches(v, prior, n + 1))
            d == Cardinality(Switches(t, i, n))
<1>1. /\ v \in [1..(n + 1) -> DOMAIN chains] /\ t \in [1..n -> DOMAIN chains]
      /\ i \in DOMAIN chains /\ at \in [DOMAIN chains -> Nat]
      /\ pre \in Nat /\ prior \in {0} \cup DOMAIN chains /\ node \in Places(chains)
  BY DEF Follows, Reached, Within, Places
<1>2. /\ Fits(chains, n + 1, at, v) <=> Fits(chains, n, Stepped(at, i), t)
      /\ Fits(chains, n + 1, at, v) => at[i] < Len(chains[i])
  BY <1>1, FitsAfterFirst
<1>3. e \in {0, 1}  BY DEF Extra
<1>4. d \in Nat  BY SwitchesAreFinite
<1>5. ASSUME Fits(chains, n + 1, at, v)
      PROVE  c = d + e
  <2>1. c = d + (IF Preempts(v, prior, n + 1, 1) THEN 1 ELSE 0)  BY SwitchesAfterFirst
  <2>2. Preempts(v, prior, n + 1, 1)
          <=> prior # 0 /\ prior # i /\ Moved(v, prior, 1 - 1) < Moved(v, prior, n + 1)
    BY DEF Preempts, PriorTo
  <2>3. 1 - 1 = 0 /\ n + 1 \in Nat  OBVIOUS
  <2>4. Moved(v, prior, 0) = 0 /\ Moved(v, prior, n + 1) \in Nat
    BY <2>3, MovedIsCount
  <2>5. ASSUME prior # 0
        PROVE  Moved(v, prior, 0) < Moved(v, prior, n + 1) <=> at[prior] < Len(chains[prior])
    <3>1. prior \in DOMAIN chains  BY <1>1, <2>5
    <3>2. at[prior] + Moved(v, prior, n + 1) = Len(chains[prior])  BY <1>5, <3>1 DEF Fits
    <3>3. at[prior] \in Nat  BY <1>1, <3>1
    <3>. QED  BY <2>4, <3>2, <3>3
  <2>6. e = IF prior # 0 /\ prior # i /\ at[prior] < Len(chains[prior]) THEN 1 ELSE 0
    BY DEF Extra
  <2>7. Preempts(v, prior, n + 1, 1)
          <=> prior # 0 /\ prior # i /\ at[prior] < Len(chains[prior])
    BY <2>2, <2>3, <2>5
  <2>. HIDE DEF c, d, e, i
  <2>. QED  BY <2>1, <2>6, <2>7
<1>6. at[i] \in Nat /\ at[i] <= Len(chains[i]) /\ Len(chains[i]) \in Nat
  BY <1>1, ChainIsList DEF Reached, Within
<1>7. v \in Words(chains, bound, n + 1, node)
        <=> Fits(chains, n + 1, at, v) /\ pre + c <= bound
  BY <1>1 DEF Words
<1>. DEFINE next == Moving(chains, node, i)
<1>8. /\ next.at = Stepped(at, i) /\ next.prior = i /\ next.preemptions = pre + e
      /\ t \in Words(chains, bound, n, next)
           <=> Fits(chains, n, Stepped(at, i), t) /\ (pre + e) + d <= bound
  <2>1. next.at = Stepped(at, i) /\ next.prior = i /\ next.preemptions = pre + e
    BY <1>1, MovingLeads
  <2>. HIDE DEF next
  <2>. QED  BY <1>1, <2>1 DEF Words
<1>. HIDE DEF c, d, e, i, at, pre, next
<1>9. pre \in Nat  BY <1>1
<1>10. v \in Words(chains, bound, n + 1, node)
        <=> /\ at[i] # Len(chains[i]) /\ next.preemptions <= bound
            /\ t \in Words(chains, bound, n, next)
  <2>1. CASE Fits(chains, n + 1, at, v)
    <3>1. c = d + e /\ at[i] < Len(chains[i])  BY <1>2, <1>5, <2>1
    <3>2. pre + c <= bound <=> (pre + e) + d <= bound  BY <1>3, <1>4, <1>9, <3>1
    <3>3. (pre + e) + d <= bound => pre + e <= bound  BY <1>3, <1>4, <1>9
    <3>4. at[i] # Len(chains[i])  BY <1>6, <3>1
    <3>. QED  BY <1>2, <1>7, <1>8, <2>1, <3>2, <3>3, <3>4
  <2>2. CASE ~Fits(chains, n + 1, at, v)  BY <1>2, <1>7, <1>8, <2>2
  <2>. QED  BY <2>1, <2>2
<1>. QED  BY <1>10 DEF i, at, next

(***************************************************************************)
(* What is left to merge.                                                  *)
(***************************************************************************)
Todo(chains, at) == UNION {{i} \X ((at[i] + 1)..Len(chains[i])) : i \in DOMAIN chains}

Left(chains, at) == Cardinality(Todo(chains, at))

\* It is a number; a step takes one off it.
LEMMA LeftIsCount ==
    ASSUME NEW chains, NEW Steps, Chained(chains, Steps), NEW at, Within(chains, at)
    PROVE  /\ IsFiniteSet(Todo(chains, at)) /\ Left(chains, at) \in Nat
           /\ Left(chains, at) = 0 <=> \A i \in DOMAIN chains : at[i] = Len(chains[i])
<1>. DEFINE D == DOMAIN chains
            Rest(i) == {i} \X ((at[i] + 1)..Len(chains[i]))
            Parts == {Rest(i) : i \in D}
<1>1. ASSUME NEW i \in D
      PROVE  at[i] \in Nat /\ Len(chains[i]) \in Nat /\ at[i] <= Len(chains[i])
  BY ChainIsList DEF Within
<1>2. IsFiniteSet(D)
  <2>1. D = 1..Len(chains) /\ Len(chains) \in Nat  BY DEF Chained, IsList
  <2>. QED  BY <2>1, FS_Interval
<1>3. IsFiniteSet(Parts)
  <2>. DEFINE f == [i \in D |-> Rest(i)]
  <2>1. f \in [D -> Parts]  OBVIOUS
  <2>2. \A p \in Parts : \E i \in D : f[i] = p  OBVIOUS
  <2>. HIDE DEF f, Parts, D
  <2>3. f \in Surjection(D, Parts)  BY <2>1, <2>2 DEF Surjection
  <2>. QED  BY <1>2, <2>3, FS_Surjection
<1>4. \A p \in Parts : IsFiniteSet(p)
  <2>. SUFFICES ASSUME NEW i \in D PROVE IsFiniteSet(Rest(i))  OBVIOUS
  <2>1. at[i] + 1 \in Int /\ Len(chains[i]) \in Int  BY <1>1
  <2>2. IsFiniteSet((at[i] + 1)..Len(chains[i]))  BY <2>1, FS_Interval
  <2>3. IsFiniteSet({i})  BY FS_Singleton
  <2>. QED  BY <2>2, <2>3, FS_Product
<1>5. Todo(chains, at) = UNION Parts  BY DEF Todo
<1>6. IsFiniteSet(Todo(chains, at))
  <2>. HIDE DEF Parts
  <2>. QED  BY <1>3, <1>4, <1>5, FS_UNION
<1>7. Left(chains, at) \in Nat /\ (Left(chains, at) = 0 <=> Todo(chains, at) = {})
  BY <1>6, FS_CardinalityType, FS_EmptySet DEF Left
<1>8. Todo(chains, at) = {} <=> \A i \in D : at[i] = Len(chains[i])
  <2>1. ASSUME \A i \in D : at[i] = Len(chains[i]) PROVE Todo(chains, at) = {}
    <3>1. \A i \in D : (at[i] + 1)..Len(chains[i]) = {}  BY <1>1, <2>1
    <3>2. \A i \in D : Rest(i) = {}  BY <3>1
    <3>. QED  BY <1>5, <3>2
  <2>2. ASSUME NEW i \in D, at[i] # Len(chains[i]) PROVE Todo(chains, at) # {}
    <3>1. at[i] + 1 \in (at[i] + 1)..Len(chains[i])  BY <1>1, <2>2
    <3>2. <<i, at[i] + 1>> \in Rest(i)  BY <3>1
    <3>3. Rest(i) \in Parts  OBVIOUS
    <3>. HIDE DEF Rest, Parts
    <3>. QED  BY <1>5, <3>2, <3>3
  <2>. QED  BY <2>1, <2>2
<1>. QED  BY <1>6, <1>7, <1>8

\* A step leaves one step fewer, and stays within the chains.
LEMMA LeftAfterStep ==
    ASSUME NEW chains, NEW Steps, Chained(chains, Steps), NEW at, Within(chains, at),
           NEW i \in DOMAIN chains, at[i] # Len(chains[i])
    PROVE  Within(chains, Stepped(at, i)) /\ Left(chains, at) = Left(chains, Stepped(at, i)) + 1
<1>. DEFINE b == Stepped(at, i)
            x == <<i, at[i] + 1>>
<1>1. ASSUME NEW a \in DOMAIN chains
      PROVE  /\ at[a] \in Nat /\ Len(chains[a]) \in Nat /\ at[a] <= Len(chains[a])
             /\ b[a] = IF a = i THEN at[a] + 1 ELSE at[a]
  BY ChainIsList DEF Within, Stepped
<1>2. Within(chains, b)
  <2>1. b \in [DOMAIN chains -> Nat]  BY <1>1 DEF Within, Stepped
  <2>. QED  BY <1>1, <2>1 DEF Within
<1>. HIDE DEF b
<1>3. \A a, k : <<a, k>> \in Todo(chains, at)
                  <=> a \in DOMAIN chains /\ k \in (at[a] + 1)..Len(chains[a])
  BY DEF Todo
<1>4. \A a, k : <<a, k>> \in Todo(chains, b)
                  <=> a \in DOMAIN chains /\ k \in (b[a] + 1)..Len(chains[a])
  BY DEF Todo
<1>5. \A y \in Todo(chains, at) \cup Todo(chains, b) : \E a, k : y = <<a, k>>  BY DEF Todo
<1>6. x \in Todo(chains, at) /\ x \notin Todo(chains, b)
  <2>1. at[i] + 1 \in (at[i] + 1)..Len(chains[i])  BY <1>1
  <2>2. at[i] + 1 \notin (b[i] + 1)..Len(chains[i])  BY <1>1
  <2>. QED  BY <1>3, <1>4, <2>1, <2>2
<1>7. \A a, k : <<a, k>> \in Todo(chains, b) <=> <<a, k>> \in Todo(chains, at) /\ <<a, k>> # x
  <2>. TAKE a, k
  <2>1. ASSUME a \in DOMAIN chains
        PROVE  k \in (b[a] + 1)..Len(chains[a])
                 <=> k \in (at[a] + 1)..Len(chains[a]) /\ ~(a = i /\ k = at[i] + 1)
    BY <1>1, <2>1
  <2>2. <<a, k>> = x <=> a = i /\ k = at[i] + 1  OBVIOUS
  <2>. HIDE DEF x
  <2>. QED  BY <1>3, <1>4, <2>1, <2>2
<1>. HIDE DEF x
<1>8. Todo(chains, b) = Todo(chains, at) \ {x}  BY <1>5, <1>7
<1>9. IsFiniteSet(Todo(chains, at)) /\ Left(chains, at) \in Nat /\ Left(chains, b) \in Nat
  BY <1>2, LeftIsCount
<1>10. Left(chains, b) = Left(chains, at) - 1  BY <1>6, <1>8, <1>9, FS_RemoveElement DEF Left
<1>. QED  BY <1>2, <1>9, <1>10 DEF b

(***************************************************************************)
(* The enumeration.                                                        *)
(***************************************************************************)
\* What is below a node, when it is enumerated rightly.
Merged(chains, bound, n, node) ==
    {Spell(chains, n, node.at, v) : v \in Words(chains, bound, n, node)}

Lists(m, S, E) == m \in Seq(S) /\ IsInjective(m) /\ ToSet(m) = E

Right(below, chains, bound, n, Steps) ==
    \A node \in Places(chains) :
        Reached(chains, bound, node) /\ Left(chains, node.at) = n
          => Lists(below[node], Seq(Steps), Merged(chains, bound, n, node))

\* With nothing left there is one merge, of no steps.
LEMMA NothingLeft ==
    ASSUME NEW chains, NEW Steps, Chained(chains, Steps), NEW bound \in Nat
    PROVE  Right([node \in Places(chains) |-> << <<>> >>], chains, bound, 0, Steps)
<1>. DEFINE D == DOMAIN chains
            below == [node \in Places(chains) |-> << <<>> >>]
<1>. SUFFICES ASSUME NEW node \in Places(chains), Reached(chains, bound, node),
                     Left(chains, node.at) = 0
              PROVE  Lists(below[node], Seq(Steps), Merged(chains, bound, 0, node))
  BY DEF Right
<1>. DEFINE at == node.at
<1>1. node.preemptions \in Nat /\ node.preemptions <= bound /\ Within(chains, at)
      /\ at \in [D -> Nat]
  BY DEF Reached, Places
<1>2. below[node] = << <<>> >>  OBVIOUS
<1>. HIDE DEF at, below
<1>3. \A v \in [1..0 -> D] : v = <<>>  OBVIOUS
<1>4. \A v : Spell(chains, 0, at, v) = <<>>  BY DEF Spell
<1>5. <<>> \in Words(chains, bound, 0, node)
  <2>1. <<>> \in [1..0 -> D]  OBVIOUS
  <2>2. Fits(chains, 0, at, <<>>)
    <3>. SUFFICES ASSUME NEW i \in D PROVE at[i] + Moved(<<>>, i, 0) = Len(chains[i])  BY DEF Fits
    <3>1. at[i] = Len(chains[i]) /\ at[i] \in Nat
      <4>1. Left(chains, at) = 0  BY DEF at
      <4>. QED  BY <1>1, <4>1, LeftIsCount
    <3>2. Moved(<<>>, i, 0) = 0  BY MovedIsCount
    <3>. QED  BY <3>1, <3>2
  <2>3. Switches(<<>>, node.prior, 0) = {}  BY DEF Switches
  <2>4. node.preemptions + Cardinality({}) <= bound  BY <1>1, FS_EmptySet
  <2>. QED  BY <2>1, <2>2, <2>3, <2>4 DEF Words, at
<1>6. Merged(chains, bound, 0, node) = {<<>>}  BY <1>4, <1>5 DEF Merged, at
<1>7. Lists(<< <<>> >>, Seq(Steps), {<<>>})
  <2>1. <<>> \in Seq(Steps)  OBVIOUS
  <2>2. << <<>> >> \in Seq(Seq(Steps)) /\ DOMAIN << <<>> >> = {1} /\ << <<>> >>[1] = <<>>  BY <2>1
  <2>. QED  BY <2>2 DEF Lists, IsInjective, ToSet
<1>. QED  BY <1>2, <1>6, <1>7 DEF below

\* Prefixes of a list of merges.
LEMMA Prefixed ==
    ASSUME NEW Steps, NEW x \in Steps, NEW m, NEW E, Lists(m, Seq(Steps), E)
    PROVE  LET p == [k \in DOMAIN m |-> <<x>> \o m[k]]
           IN  p \in Seq(Seq(Steps)) /\ IsInjective(p) /\ ToSet(p) = {<<x>> \o e : e \in E}
<1>. DEFINE p == [k \in DOMAIN m |-> <<x>> \o m[k]]
<1>1. Len(m) \in Nat /\ DOMAIN m = 1..Len(m) /\ \A k \in DOMAIN m : m[k] \in Seq(Steps)
  BY DEF Lists
<1>2. \A e \in Seq(Steps) :
        /\ <<x>> \o e \in Seq(Steps) /\ (<<x>> \o e)[1] = x
        /\ Tail(<<x>> \o e) = e
  <2>. TAKE e \in Seq(Steps)
  <2>. DEFINE c == <<x>> \o e
              u == Tail(c)
  <2>1. /\ c \in Seq(Steps) /\ Len(c) = Len(e) + 1 /\ Len(e) \in Nat /\ c[1] = x
        /\ \A k \in 1..Len(e) : c[k + 1] = e[k]
    OBVIOUS
  <2>. HIDE DEF c
  <2>2. c # <<>>  BY <2>1
  <2>3. u \in Seq(Steps) /\ Len(u) = Len(e) /\ \A k \in 1..Len(e) : u[k] = c[k + 1]  BY <2>1, <2>2
  <2>. HIDE DEF u
  <2>4. u = e  BY <2>1, <2>3
  <2>. QED  BY <2>1, <2>4 DEF c, u
<1>3. \A k \in DOMAIN m : p[k] = <<x>> \o m[k] /\ p[k] \in Seq(Steps)  BY <1>1, <1>2
<1>4. DOMAIN p = 1..Len(m)  BY <1>1
<1>5. p = [k \in 1..Len(m) |-> p[k]]  BY <1>1
<1>. HIDE DEF p
<1>6. p \in [1..Len(m) -> Seq(Steps)]  BY <1>1, <1>3, <1>5
<1>7. p \in Seq(Seq(Steps))  BY <1>1, <1>6
<1>8. ASSUME NEW a \in DOMAIN p, NEW b \in DOMAIN p, p[a] = p[b] PROVE a = b
  <2>1. a \in DOMAIN m /\ b \in DOMAIN m  BY <1>1, <1>4
  <2>2. Tail(p[a]) = m[a] /\ Tail(p[b]) = m[b]  BY <1>1, <1>2, <1>3, <2>1
  <2>3. m[a] = m[b]  BY <1>8, <2>2
  <2>. QED  BY <2>1, <2>3 DEF Lists, IsInjective
<1>9. ToSet(p) = {<<x>> \o e : e \in E}
  <2>1. E = {m[k] : k \in DOMAIN m}  BY DEF Lists, ToSet
  <2>2. \A y : y \in ToSet(p) <=> \E k \in DOMAIN m : y = <<x>> \o m[k]
    BY <1>1, <1>3, <1>4 DEF ToSet
  <2>3. \A y : (\E e \in E : y = <<x>> \o e) <=> \E k \in DOMAIN m : y = <<x>> \o m[k]
    BY <2>1
  <2>. QED  BY <2>2, <2>3
<1>. QED  BY <1>7, <1>8, <1>9 DEF p, IsInjective

\* The merges of one step more are those of the actors that may move, and the rest.
LEMMA NodeStep ==
    ASSUME NEW chains, NEW Steps, Chained(chains, Steps), NEW bound \in Nat, NEW n \in Nat,
           NEW below, Right(below, chains, bound, n, Steps)
    PROVE  Right(Longer(chains, bound, below), chains, bound, n + 1, Steps)
<1>. DEFINE D == DOMAIN chains
<1>. SUFFICES ASSUME NEW node \in Places(chains), Reached(chains, bound, node),
                     Left(chains, node.at) = n + 1
              PROVE  Lists(Longer(chains, bound, below)[node], Seq(Steps),
                           Merged(chains, bound, n + 1, node))
  BY DEF Right
<1>. DEFINE at == node.at
            next(i) == Moving(chains, node, i)
            x(i) == chains[i][next(i).at[i]]
            Shut(i) == at[i] = Len(chains[i]) \/ next(i).preemptions > bound
            rest(i) == below[next(i)]
            part(i) == IF Shut(i) THEN <<>> ELSE [m \in DOMAIN rest(i) |-> <<x(i)>> \o rest(i)[m]]
            parts == [i \in D |-> part(i)]
            Words1 == Words(chains, bound, n + 1, node)
            Here(i) == {Spell(chains, n + 1, at, v) : v \in {w \in Words1 : w[1] = i}}
<1>1. D = 1..Len(chains) /\ Len(chains) \in Nat /\ Within(chains, at) /\ at \in [D -> Nat]
  BY DEF Chained, IsList, Reached, Within
<1>2. Longer(chains, bound, below)[node] = FlattenSeq(parts)
  BY DEF Longer
<1>3. ASSUME NEW i \in D
      PROVE  /\ part(i) \in Seq(Seq(Steps)) /\ IsInjective(part(i)) /\ ToSet(part(i)) = Here(i)
             /\ \A y \in ToSet(part(i)) : at[i] + 1 \in DOMAIN chains[i] /\ y[1] = chains[i][at[i] + 1]
  <2>1. at[i] \in Nat /\ Len(chains[i]) \in Nat /\ at[i] <= Len(chains[i])
        /\ DOMAIN chains[i] = 1..Len(chains[i]) /\ \A k \in 1..Len(chains[i]) : chains[i][k] \in Steps
    BY <1>1, ChainIsList DEF Within
  <2>2. /\ next(i) \in Places(chains) /\ next(i).at = Stepped(at, i) /\ next(i).prior = i
        /\ next(i).at[i] = at[i] + 1 /\ next(i).preemptions \in Nat
    <3>1. /\ next(i) \in Places(chains) /\ next(i).at = Stepped(at, i) /\ next(i).prior = i
          /\ next(i).at[i] = at[i] + 1
      BY MovingLeads
    <3>. HIDE DEF next
    <3>. QED  BY <3>1 DEF Places
  <2>3. ASSUME NEW v \in [1..(n + 1) -> D], v[1] = i
        PROVE  \E t \in [1..n -> D] :
                  /\ Follows(t, v, n, D)
                  /\ v \in Words1 <=> ~Shut(i) /\ t \in Words(chains, bound, n, next(i))
    <3>. DEFINE t == [j \in 1..n |-> v[j + 1]]
    <3>1. \A j \in 1..n : j + 1 \in 1..(n + 1)  OBVIOUS
    <3>2. t \in [1..n -> D]  BY <3>1
    <3>3. \A j \in 1..n : v[j + 1] = t[j]  OBVIOUS
    <3>. HIDE DEF t
    <3>4. Follows(t, v, n, D)  BY <3>2, <3>3 DEF Follows
    <3>5. v \in Words1
            <=> /\ at[v[1]] # Len(chains[v[1]]) /\ next(v[1]).preemptions <= bound
                /\ t \in Words(chains, bound, n, next(v[1]))
      BY <3>4, WordsAfterFirst
    <3>6. next(i).preemptions <= bound <=> ~(next(i).preemptions > bound)
      BY <2>2
    <3>. QED  BY <2>3, <3>2, <3>4, <3>5, <3>6
  <2>4. CASE Shut(i)
    <3>1. part(i) = <<>>  BY <2>4
    <3>2. Here(i) = {}
      <4>1. \A v \in Words1 : v \in [1..(n + 1) -> D]
        BY DEF Words
      <4>2. \A v \in Words1 : v[1] # i
        BY <2>3, <2>4, <4>1
      <4>. QED  BY <4>2
    <3>3. <<>> \in Seq(Seq(Steps)) /\ IsInjective(<<>>) /\ ToSet(<<>>) = {}
      BY DEF IsInjective, ToSet
    <3>. HIDE DEF part, Here
    <3>. QED  BY <3>1, <3>2, <3>3
  <2>5. CASE ~Shut(i)
    <3>. DEFINE b == next(i).at
                E == Merged(chains, bound, n, next(i))
    <3>1. /\ at[i] # Len(chains[i]) /\ next(i).preemptions <= bound
          /\ at[i] + 1 \in DOMAIN chains[i] /\ x(i) = chains[i][at[i] + 1]
      BY <2>1, <2>2, <2>5
    <3>2. x(i) \in Steps  BY <2>1, <3>1
    <3>3. Within(chains, b) /\ Left(chains, b) = n
      <4>1. Within(chains, b) /\ Left(chains, at) = Left(chains, b) + 1
        BY <1>1, <2>2, <3>1, LeftAfterStep
      <4>2. Left(chains, b) \in Nat  BY <4>1, LeftIsCount
      <4>. QED  BY <4>1, <4>2
    <3>4. Reached(chains, bound, next(i))  BY <2>2, <3>1, <3>3 DEF Reached
    <3>5. Lists(rest(i), Seq(Steps), E)
      <4>. HIDE DEF next
      <4>. QED  BY <2>2, <3>3, <3>4 DEF Right
    <3>6. part(i) = [m \in DOMAIN rest(i) |-> <<x(i)>> \o rest(i)[m]]  BY <2>5
    <3>. HIDE DEF rest, x, Shut, part, b, E, next, Words1
    <3>7. /\ part(i) \in Seq(Seq(Steps)) /\ IsInjective(part(i))
          /\ ToSet(part(i)) = {<<x(i)>> \o e : e \in E}
      <4>1. PICK y \in Steps : y = x(i)  BY <3>2
      <4>2. PICK r : r = rest(i)  OBVIOUS
      <4>3. Lists(r, Seq(Steps), E)  BY <3>5, <4>2
      <4>. DEFINE p == [k \in DOMAIN r |-> <<y>> \o r[k]]
      <4>4. p \in Seq(Seq(Steps)) /\ IsInjective(p) /\ ToSet(p) = {<<y>> \o e : e \in E}
        BY <4>3, Prefixed
      <4>5. part(i) = p  BY <3>6, <4>1, <4>2
      <4>. HIDE DEF p
      <4>. QED  BY <4>1, <4>4, <4>5
    <3>8. ASSUME NEW e \in E PROVE <<x(i)>> \o e \in Here(i)
      <4>1. PICK t \in Words(chains, bound, n, next(i)) : e = Spell(chains, n, b, t)
        BY DEF E, Merged, b
      <4>2. t \in [1..n -> D] /\ Fits(chains, n, b, t)  BY DEF Words, b
      <4>. DEFINE v == [j \in 1..(n + 1) |-> IF j = 1 THEN i ELSE t[j - 1]]
      <4>3. v \in [1..(n + 1) -> D]  BY <4>2
      <4>4. v[1] = i /\ \A j \in 1..n : v[j + 1] = t[j]  OBVIOUS
      <4>. HIDE DEF v
      <4>5. Follows(t, v, n, D)  BY <4>2, <4>3, <4>4 DEF Follows
      <4>6. Fits(chains, n + 1, at, v)
        <5>1. Fits(chains, n + 1, at, v) <=> Fits(chains, n, Stepped(at, v[1]), t)
          BY <1>1, <4>5, FitsAfterFirst
        <5>. QED  BY <2>2, <4>2, <4>4, <5>1 DEF b
      <4>7. SpelledFrom(chains, n, at, v, t)
        <5>1. at \in [DOMAIN chains -> Nat] /\ Follows(t, v, n, DOMAIN chains)  BY <1>1, <4>5
        <5>. HIDE DEF at, D
        <5>. QED  BY <4>6, <5>1, SpellAfterFirst
      <4>8. Spell(chains, n + 1, at, v) = <<x(i)>> \o e
        BY <2>2, <3>1, <4>1, <4>4, <4>7 DEF b, SpelledFrom
      <4>9. v \in Words1
        <5>1. v \in Words1
                <=> /\ at[v[1]] # Len(chains[v[1]]) /\ next(v[1]).preemptions <= bound
                    /\ t \in Words(chains, bound, n, next(v[1]))
          BY <4>5, WordsAfterFirst DEF Words1, next
        <5>. QED  BY <3>1, <4>1, <4>4, <5>1
      <4>. QED  BY <4>4, <4>8, <4>9
    <3>9. ASSUME NEW y \in Here(i) PROVE y \in {<<x(i)>> \o e : e \in E}
      <4>1. PICK v \in Words1 :
               v[1] = i /\ y = Spell(chains, n + 1, at, v)
        OBVIOUS
      <4>2. v \in [1..(n + 1) -> D] /\ Fits(chains, n + 1, at, v)  BY DEF Words, Words1
      <4>3. PICK t \in [1..n -> D] :
                  /\ Follows(t, v, n, D)
                  /\ v \in Words1
                       <=> ~Shut(i) /\ t \in Words(chains, bound, n, next(i))
        BY <2>3, <4>1, <4>2
      <4>4. Spell(chains, n, b, t) \in E  BY <4>1, <4>3 DEF E, Merged, b
      <4>5. SpelledFrom(chains, n, at, v, t)
        <5>1. at \in [DOMAIN chains -> Nat] /\ Follows(t, v, n, DOMAIN chains)  BY <1>1, <4>3
        <5>. HIDE DEF at, D
        <5>. QED  BY <4>2, <5>1, SpellAfterFirst
      <4>6. y = <<x(i)>> \o Spell(chains, n, b, t)
        BY <2>2, <3>1, <4>1, <4>5 DEF b, SpelledFrom
      <4>. QED  BY <4>4, <4>6
    <3>. HIDE DEF Here
    <3>10. ToSet(part(i)) = Here(i)  BY <3>7, <3>8, <3>9
    <3>11. \A e \in E : (<<x(i)>> \o e)[1] = x(i)
      <4>1. \A e \in E : e \in Seq(Steps)  BY <3>5 DEF Lists, ToSet
      <4>. QED  BY <3>2, <4>1
    <3>12. \A y \in ToSet(part(i)) : y[1] = x(i)  BY <3>7, <3>11
    <3>. QED  BY <3>1, <3>7, <3>10, <3>12
  <2>. QED  BY <2>4, <2>5
<1>. HIDE DEF part, Here
<1>4. parts \in [1..Len(chains) -> Seq(Seq(Steps))]  BY <1>1, <1>3
<1>5. \A i \in D : parts[i] = part(i)  OBVIOUS
<1>. HIDE DEF parts
<1>6. FlattenSeq(parts) \in Seq(Seq(Steps)) /\ Joins(FlattenSeq(parts), parts, Len(chains))
  BY <1>1, <1>4, FlattenJoins
<1>7. IsInjective(FlattenSeq(parts))
  <2>1. \A i \in 1..Len(chains) : IsInjective(parts[i])  BY <1>1, <1>3, <1>5
  <2>2. \A i, j \in 1..Len(chains) : i # j => ToSet(parts[i]) \cap ToSet(parts[j]) = {}
    <3>. SUFFICES ASSUME NEW i \in D, NEW j \in D, i # j, NEW y \in ToSet(part(i)), y \in ToSet(part(j))
                  PROVE  FALSE
      BY <1>1, <1>5
    <3>1. /\ at[i] + 1 \in DOMAIN chains[i] /\ y[1] = chains[i][at[i] + 1]
          /\ at[j] + 1 \in DOMAIN chains[j] /\ y[1] = chains[j][at[j] + 1]
      BY <1>3
    <3>2. chains[i][at[i] + 1] # chains[j][at[j] + 1]  BY <3>1 DEF Chained
    <3>. QED  BY <3>1, <3>2
  <2>. QED  BY <1>6, <2>1, <2>2 DEF Joins
<1>8. ToSet(FlattenSeq(parts)) = Merged(chains, bound, n + 1, node)
  <2>1. \A y : y \in ToSet(FlattenSeq(parts)) <=> \E i \in D : y \in Here(i)
    <3>1. ToSet(FlattenSeq(parts)) = Together(parts, Len(chains))  BY <1>6 DEF Joins
    <3>2. \A y : y \in Together(parts, Len(chains)) <=> \E i \in 1..Len(chains) : y \in ToSet(parts[i])
      BY DEF Together
    <3>3. \A i \in D : ToSet(parts[i]) = Here(i)  BY <1>3, <1>5
    <3>. QED  BY <1>1, <3>1, <3>2, <3>3
  <2>2. \A v \in Words1 : v[1] \in D  BY DEF Words
  <2>3. \A y : y \in Merged(chains, bound, n + 1, node) <=> \E i \in D : y \in Here(i)
    BY <2>2 DEF Merged, Here
  <2>. QED  BY <2>1, <2>3
<1>. QED  BY <1>2, <1>6, <1>7, <1>8 DEF Lists

\* The table of visits that Merges chooses, up to some number of steps to go.
Visits(f, chains, bound, n) ==
    f = [k \in 0..n |-> IF k = 0 THEN [node \in Places(chains) |-> << <<>> >>]
                        ELSE Longer(chains, bound, f[k - 1])]

\* There is such a table of visits.
LEMMA VisitsExist ==
    ASSUME NEW chains, NEW bound, NEW N \in Nat
    PROVE  \E f : Visits(f, chains, bound, N)
<1>. DEFINE S == {n \in Nat : \E f : Visits(f, chains, bound, n)}
            none == [node \in Places(chains) |-> << <<>> >>]
<1>. HIDE DEF none
<1>1. 0 \in S
  <2>. DEFINE f == [k \in 0..0 |-> none]
  <2>1. f = [k \in 0..0 |-> IF k = 0 THEN none ELSE Longer(chains, bound, f[k - 1])]  OBVIOUS
  <2>. QED  BY <2>1 DEF Visits, none
<1>2. ASSUME NEW n \in Nat, n \in S PROVE n + 1 \in S
  <2>1. PICK f : Visits(f, chains, bound, n)  BY <1>2
  <2>. DEFINE x == Longer(chains, bound, f[n])
              g == [k \in 0..(n + 1) |-> IF k = n + 1 THEN x ELSE f[k]]
  <2>. HIDE DEF x
  <2>2. \A k \in 0..(n + 1) : g[k] = IF k = 0 THEN none ELSE Longer(chains, bound, g[k - 1])
    <3>. TAKE k \in 0..(n + 1)
    <3>1. CASE k = n + 1
      <4>1. g[k] = x /\ g[k - 1] = f[n] /\ k # 0  BY <3>1
      <4>. QED  BY <3>1, <4>1 DEF x
    <3>2. CASE k \in 0..n
      <4>1. g[k] = f[k]  BY <3>2
      <4>2. f[k] = IF k = 0 THEN none ELSE Longer(chains, bound, f[k - 1])
        BY <2>1, <3>2 DEF Visits, none
      <4>3. k # 0 => g[k - 1] = f[k - 1]  BY <3>2
      <4>. QED  BY <4>1, <4>2, <4>3
    <3>. QED  BY <3>1, <3>2
  <2>3. g = [k \in 0..(n + 1) |-> g[k]]  OBVIOUS
  <2>. HIDE DEF g
  <2>4. Visits(g, chains, bound, n + 1)  BY <2>2, <2>3 DEF Visits, none
  <2>. QED  BY <2>4
<1>. HIDE DEF S
<1>3. N \in S  BY <1>1, <1>2, Induction
<1>. QED  BY <1>3 DEF S

Start(chains) == [i \in DOMAIN chains |-> 0]
Root(chains) == [at |-> Start(chains), prior |-> 0, preemptions |-> 0]

\* At the start all steps are left.
LEMMA AllLeft ==
    ASSUME NEW chains, NEW Steps, Chained(chains, Steps), NEW bound \in Nat
    PROVE  /\ Reached(chains, bound, Root(chains)) /\ Left(chains, Start(chains)) = Size(chains)
           /\ IsFiniteSet(UNION {{i} \X DOMAIN chains[i] : i \in DOMAIN chains})
           /\ Size(chains) \in Nat
<1>. DEFINE at == Start(chains)
            A == UNION {{i} \X DOMAIN chains[i] : i \in DOMAIN chains}
<1>1. at \in [DOMAIN chains -> Nat] /\ \A i \in DOMAIN chains : at[i] = 0  BY DEF Start
<1>. HIDE DEF at
<1>2. Within(chains, at)  BY <1>1, ChainIsList DEF Within
<1>3. Reached(chains, bound, Root(chains))
  <2>1. Root(chains) = [at |-> at, prior |-> 0, preemptions |-> 0]  BY DEF Root, at
  <2>2. Root(chains) \in Places(chains)  BY <1>1, <2>1 DEF Places
  <2>. QED  BY <1>2, <2>1, <2>2 DEF Reached
<1>4. Todo(chains, at) = A
  <2>1. \A i \in DOMAIN chains : (at[i] + 1)..Len(chains[i]) = DOMAIN chains[i]
    <3>. TAKE i \in DOMAIN chains
    <3>1. DOMAIN chains[i] = 1..Len(chains[i])  BY ChainIsList
    <3>2. at[i] + 1 = 1  BY <1>1
    <3>. QED  BY <3>1, <3>2
  <2>2. \A y : y \in Todo(chains, at)
                 <=> \E i \in DOMAIN chains : y \in {i} \X ((at[i] + 1)..Len(chains[i]))
    BY DEF Todo
  <2>3. \A y : y \in A <=> \E i \in DOMAIN chains : y \in {i} \X DOMAIN chains[i]  OBVIOUS
  <2>. HIDE DEF A
  <2>4. \A y : y \in Todo(chains, at) <=> y \in A  BY <2>1, <2>2, <2>3
  <2>. QED  BY <2>4
<1>5. IsFiniteSet(Todo(chains, at)) /\ Left(chains, at) \in Nat  BY <1>2, LeftIsCount
<1>6. Size(chains) = Cardinality(A)  BY DEF Size
<1>. HIDE DEF A
<1>7. IsFiniteSet(A) /\ Left(chains, at) = Size(chains)  BY <1>4, <1>5, <1>6 DEF Left
<1>. QED  BY <1>3, <1>5, <1>7 DEF at, A

\* The enumeration lists the words, as they are spelled, each once.
LEMMA MergesAreWords ==
    ASSUME NEW chains, NEW Steps, Chained(chains, Steps), NEW bound \in Nat
    PROVE  Lists(Merges(chains, bound), Seq(Steps),
                 Merged(chains, bound, Size(chains), Root(chains)))
<1>. DEFINE N == Size(chains)
            F == CHOOSE f : Visits(f, chains, bound, N)
            S == {n \in Nat : n <= N => Right(F[n], chains, bound, n, Steps)}
<1>1. N \in Nat /\ Reached(chains, bound, Root(chains)) /\ Left(chains, Start(chains)) = N
  BY AllLeft
<1>2. Visits(F, chains, bound, N)  BY <1>1, VisitsExist
<1>3. Merges(chains, bound) = F[N][Root(chains)]  BY DEF Merges, Visits, Root, Start
<1>. HIDE DEF F, N
<1>4. \A k \in 0..N : F[k] = IF k = 0 THEN [node \in Places(chains) |-> << <<>> >>]
                            ELSE Longer(chains, bound, F[k - 1])
  BY <1>2 DEF Visits
<1>5. 0 \in S
  <2>1. F[0] = [node \in Places(chains) |-> << <<>> >>]  BY <1>1, <1>4
  <2>2. Right(F[0], chains, bound, 0, Steps)  BY <2>1, NothingLeft
  <2>. QED  BY <2>2
<1>6. ASSUME NEW n \in Nat, n \in S PROVE n + 1 \in S
  <2>. SUFFICES ASSUME n + 1 <= N PROVE Right(F[n + 1], chains, bound, n + 1, Steps)  OBVIOUS
  <2>1. Right(F[n], chains, bound, n, Steps) /\ n + 1 \in 0..N /\ n + 1 # 0 /\ (n + 1) - 1 = n
    BY <1>1, <1>6
  <2>2. F[n + 1] = Longer(chains, bound, F[n])  BY <1>4, <2>1
  <2>3. PICK below : below = F[n]  OBVIOUS
  <2>4. Right(below, chains, bound, n, Steps)  BY <2>1, <2>3
  <2>5. Right(Longer(chains, bound, below), chains, bound, n + 1, Steps)  BY <2>4, NodeStep
  <2>. QED  BY <2>2, <2>3, <2>5
<1>. HIDE DEF S
<1>7. N \in S  BY <1>1, <1>5, <1>6, Induction
<1>8. Right(F[N], chains, bound, N, Steps)  BY <1>1, <1>7 DEF S
<1>9. Root(chains) \in Places(chains) /\ Root(chains).at = Start(chains)
  BY <1>1 DEF Reached, Root
<1>10. Lists(F[N][Root(chains)], Seq(Steps), Merged(chains, bound, N, Root(chains)))
  BY <1>1, <1>8, <1>9 DEF Right
<1>. QED  BY <1>3, <1>10 DEF N

(***************************************************************************)
(* The reference.                                                          *)
(***************************************************************************)
\* The actors by rank, each once.
LEMMA SortedOnce ==
    ASSUME NEW actors, IsList(actors), \A i \in DOMAIN actors : actors[i].actor \in Nat,
           \A i, j \in DOMAIN actors : actors[i].actor = actors[j].actor => i = j
    PROVE  \E order \in [DOMAIN actors -> DOMAIN actors] :
              /\ \A i, j \in DOMAIN actors : order[i] = order[j] => i = j
              /\ \A i \in DOMAIN actors : \E k \in DOMAIN actors : order[k] = i
              /\ \A k \in DOMAIN actors : Sorted(actors)[k] = actors[order[k]]
<1>. DEFINE D == DOMAIN actors
            N == Len(actors)
            Below(i) == {j \in D : actors[j].actor < actors[i].actor}
            R == [i \in D |-> Rank(actors, i)]
            order == [k \in D |-> CHOOSE i \in D : Rank(actors, i) = k]
<1>1. D = 1..N /\ N \in Nat /\ IsFiniteSet(D) /\ Cardinality(D) = N
  <2>1. D = 1..N /\ N \in Nat  BY DEF IsList
  <2>. HIDE DEF N, D
  <2>. QED  BY <2>1, FS_Interval
<1>2. ASSUME NEW i \in D
      PROVE  /\ IsFiniteSet(Below(i)) /\ Cardinality(Below(i)) \in Nat
             /\ Rank(actors, i) = Cardinality(Below(i)) + 1 /\ Rank(actors, i) \in D
  <2>1. Below(i) \subseteq D /\ i \notin Below(i) /\ Rank(actors, i) = Cardinality(Below(i)) + 1
    BY DEF Rank
  <2>. HIDE DEF Below, D
  <2>2. IsFiniteSet(Below(i)) /\ Cardinality(Below(i)) <= N /\ Cardinality(Below(i)) # N
    BY <1>1, <2>1, FS_Subset, <1>2
  <2>3. Cardinality(Below(i)) \in Nat  BY <2>2, FS_CardinalityType
  <2>. QED  BY <1>1, <2>1, <2>2, <2>3
<1>3. ASSUME NEW i \in D, NEW j \in D, actors[i].actor < actors[j].actor
      PROVE  Rank(actors, i) < Rank(actors, j)
  <2>1. Below(i) \subseteq Below(j) /\ i \in Below(j) /\ i \notin Below(i)  BY <1>3
  <2>2. IsFiniteSet(Below(j)) /\ Cardinality(Below(i)) \in Nat /\ Cardinality(Below(j)) \in Nat
    BY <1>2
  <2>. HIDE DEF Below
  <2>3. Cardinality(Below(i)) <= Cardinality(Below(j)) /\ Cardinality(Below(i)) # Cardinality(Below(j))
    BY <2>1, <2>2, FS_Subset
  <2>4. Rank(actors, i) = Cardinality(Below(i)) + 1 /\ Rank(actors, j) = Cardinality(Below(j)) + 1
    BY <1>2
  <2>. QED  BY <2>2, <2>3, <2>4
<1>4. \A i, j \in D : R[i] = R[j] => i = j
  <2>. SUFFICES ASSUME NEW i \in D, NEW j \in D, i # j PROVE Rank(actors, i) # Rank(actors, j)
    OBVIOUS
  <2>1. actors[i].actor < actors[j].actor \/ actors[j].actor < actors[i].actor  OBVIOUS
  <2>2. Rank(actors, i) \in Nat /\ Rank(actors, j) \in Nat
    <3>1. Rank(actors, i) \in D /\ Rank(actors, j) \in D  BY <1>2
    <3>. HIDE DEF D, N
    <3>. QED  BY <1>1, <3>1
  <2>. QED  BY <1>3, <2>1, <2>2
<1>5. R \in [D -> D]  BY <1>2
<1>. HIDE DEF R, D, N, Below
<1>6. R \in Injection(D, D)  BY <1>4, <1>5 DEF Injection, IsInjective
<1>7. R \in Surjection(D, D)  BY <1>1, <1>6, FS_Injection
<1>8. \A k \in D : \E i \in D : Rank(actors, i) = k
  BY <1>7 DEF Surjection, R
<1>9. \A k \in D : order[k] \in D /\ Rank(actors, order[k]) = k  BY <1>8
<1>10. order \in [D -> D] /\ \A k \in D : Sorted(actors)[k] = actors[order[k]]
  BY <1>9 DEF Sorted, D
<1>. HIDE DEF order
<1>11. \A i, j \in D : order[i] = order[j] => i = j
  <2>. SUFFICES ASSUME NEW i \in D, NEW j \in D, order[i] = order[j] PROVE i = j  OBVIOUS
  <2>1. Rank(actors, order[i]) = i /\ Rank(actors, order[j]) = j  BY <1>9
  <2>. QED  BY <2>1
<1>12. order \in Injection(D, D)  BY <1>10, <1>11 DEF Injection, IsInjective
<1>13. order \in Surjection(D, D)  BY <1>1, <1>12, FS_Injection
<1>14. \A i \in D : \E k \in D : order[k] = i  BY <1>13 DEF Surjection
<1>. QED  BY <1>10, <1>11, <1>14 DEF D

\* A valid declaration has chains of steps, which are those of the actors by rank.
Steps(s) == UNION {ToSet(Chains(s)[i]) : i \in DOMAIN s.actors}

Orders(order, s) ==
    /\ order \in [DOMAIN s.actors -> DOMAIN s.actors]
    /\ \A i, j \in DOMAIN s.actors : order[i] = order[j] => i = j
    /\ \A i \in DOMAIN s.actors : \E k \in DOMAIN s.actors : order[k] = i
    /\ \A k \in DOMAIN s.actors :
          Chains(s)[k] = [m \in DOMAIN s.actors[order[k]].checkpoints |->
                             [actor |-> s.actors[order[k]].actor,
                              checkpoint |-> s.actors[order[k]].checkpoints[m]]]

\* The chains of a valid declaration are those of its actors, in the order of their names.
LEMMA ChainsOfActors ==
    ASSUME NEW s \in Spaces, ValidDeclaration(s)
    PROVE  /\ IsList(s.actors) /\ s.preemptions \in Nat
           /\ \A i \in DOMAIN s.actors : IsList(s.actors[i].checkpoints)
           /\ \A i, j \in DOMAIN s.actors : s.actors[i].actor = s.actors[j].actor => i = j
           /\ DOMAIN Chains(s) = DOMAIN s.actors /\ \E order : Orders(order, s)
<1>. DEFINE actors == s.actors
            D == DOMAIN actors
<1>1. /\ IsList(actors) /\ s.preemptions \in Nat
      /\ \A i \in D : actors[i].actor \in Nat /\ IsList(actors[i].checkpoints)
  BY SpacesAssumption
<1>2. \A i, j \in D : actors[i].actor = actors[j].actor => i = j
  <2>1. IsInjective(Field("actor", actors))  BY DEF ValidDeclaration, Distinct
  <2>. QED  BY <2>1 DEF IsInjective, Field
<1>3. DOMAIN Chains(s) = D  BY DEF Chains
<1>4. PICK order \in [D -> D] :
          /\ \A i, j \in D : order[i] = order[j] => i = j
          /\ \A i \in D : \E k \in D : order[k] = i
          /\ \A k \in D : Sorted(actors)[k] = actors[order[k]]
  BY <1>1, <1>2, SortedOnce
<1>5. Orders(order, s)  BY <1>4 DEF Orders, Chains
<1>. QED  BY <1>1, <1>2, <1>3, <1>5

\* They are lists of steps, and no step is in two of them.
LEMMA ChainsAreChained ==
    ASSUME NEW s \in Spaces, ValidDeclaration(s)
    PROVE  Chained(Chains(s), Steps(s))
<1>. DEFINE D == DOMAIN s.actors
            chains == Chains(s)
<1>1. /\ IsList(s.actors) /\ DOMAIN chains = D
      /\ \A i \in D : IsList(s.actors[i].checkpoints)
      /\ \A i, j \in D : s.actors[i].actor = s.actors[j].actor => i = j
  BY ChainsOfActors
<1>2. PICK order : Orders(order, s)  BY ChainsOfActors
<1>3. IsList(chains)
  <2>1. D = 1..Len(s.actors) /\ Len(s.actors) \in Nat  BY <1>1 DEF IsList
  <2>2. chains = [i \in 1..Len(s.actors) |-> chains[i]]  BY <2>1 DEF Chains
  <2>. HIDE DEF chains
  <2>3. chains \in Seq({chains[i] : i \in 1..Len(s.actors)})
    <3>. DEFINE E == {chains[i] : i \in 1..Len(s.actors)}
    <3>1. \A i \in 1..Len(s.actors) : chains[i] \in E  OBVIOUS
    <3>. HIDE DEF E
    <3>2. chains \in [1..Len(s.actors) -> E]  BY <2>2, <3>1
    <3>3. chains \in Seq(E)  BY <2>1, <3>2
    <3>. QED  BY <3>3 DEF E
  <2>. QED  BY <2>3 DEF IsList
<1>4. ASSUME NEW i \in D PROVE chains[i] \in Seq(Steps(s))
  <2>. DEFINE c == chains[i]
              M == s.actors[order[i]].checkpoints
  <2>1. order[i] \in D  BY <1>2 DEF Orders
  <2>2. DOMAIN M = 1..Len(M) /\ Len(M) \in Nat  BY <1>1, <2>1 DEF IsList
  <2>3. DOMAIN c = 1..Len(M) /\ c = [m \in 1..Len(M) |-> c[m]]  BY <1>2, <2>2 DEF Orders
  <2>4. \A m \in DOMAIN c : c[m] \in Steps(s)  BY DEF Steps, ToSet
  <2>. HIDE DEF c, M
  <2>5. c \in [1..Len(M) -> Steps(s)]  BY <2>3, <2>4
  <2>6. c \in Seq(Steps(s))  BY <2>2, <2>5
  <2>. QED  BY <2>6 DEF c
<1>5. ASSUME NEW i \in D, NEW k \in DOMAIN chains[i]
      PROVE  chains[i][k].actor = s.actors[order[i]].actor
  <2>. DEFINE a == s.actors[order[i]]
              M == a.checkpoints
  <2>1. chains[i] = [m \in DOMAIN M |-> [actor |-> a.actor, checkpoint |-> M[m]]]
    BY <1>2 DEF Orders
  <2>2. PICK K, name, c : K = DOMAIN M /\ name = a.actor /\ c = M  OBVIOUS
  <2>3. chains[i] = [m \in K |-> [actor |-> name, checkpoint |-> c[m]]]  BY <2>1, <2>2
  <2>4. k \in DOMAIN chains[i]  BY <1>5
  <2>. HIDE DEF chains
  <2>5. k \in K  BY <2>3, <2>4
  <2>6. chains[i][k] = [actor |-> name, checkpoint |-> c[k]]  BY <2>3, <2>5
  <2>7. chains[i][k].actor = name  BY <2>6
  <2>. QED  BY <2>2, <2>7
<1>6. ASSUME NEW i \in D, NEW j \in D, i # j,
             NEW k \in DOMAIN chains[i], NEW l \in DOMAIN chains[j]
      PROVE  chains[i][k] # chains[j][l]
  <2>1. order[i] \in D /\ order[j] \in D /\ order[i] # order[j]  BY <1>2, <1>6 DEF Orders
  <2>2. s.actors[order[i]].actor # s.actors[order[j]].actor  BY <1>1, <2>1
  <2>3. chains[i][k].actor # chains[j][l].actor  BY <1>5, <2>2
  <2>. QED  BY <2>3
<1>. HIDE DEF chains, D
<1>7. Chained(chains, Steps(s))  BY <1>1, <1>3, <1>4, <1>6 DEF Chained, D
<1>. QED  BY <1>7 DEF chains

\* The steps of the chains are as many as those of the actors.
LEMMA AsManySteps ==
    ASSUME NEW s \in Spaces, ValidDeclaration(s)
    PROVE  Size(Chains(s)) = StepsOf(s.actors)
<1>. DEFINE D == DOMAIN s.actors
            chains == Chains(s)
            cs == Field("checkpoints", s.actors)
            A == UNION {{i} \X DOMAIN chains[i] : i \in D}
            B == UNION {{i} \X DOMAIN cs[i] : i \in D}
<1>1. DOMAIN chains = D /\ DOMAIN cs = D /\ \A i \in D : cs[i] = s.actors[i].checkpoints
  BY ChainsOfActors DEF Field
<1>2. PICK order : Orders(order, s)  BY ChainsOfActors
<1>3. Size(chains) = Cardinality(A) /\ StepsOf(s.actors) = Cardinality(B)
  BY <1>1 DEF Size, StepsOf
<1>4. IsFiniteSet(A)
  <2>1. Chained(chains, Steps(s)) /\ 0 \in Nat  BY ChainsAreChained
  <2>. HIDE DEF chains
  <2>. QED  BY <1>1, <2>1, AllLeft
<1>5. \A i \in D : order[i] \in D /\ DOMAIN chains[i] = DOMAIN cs[order[i]]
  BY <1>1, <1>2 DEF Orders
<1>6. /\ \A i, j \in D : order[i] = order[j] => i = j
      /\ \A i \in D : \E k \in D : order[k] = i
  BY <1>2 DEF Orders
<1>. HIDE DEF chains, cs
<1>7. \A y : y \in A <=> \E i \in D : \E k \in DOMAIN chains[i] : y = <<i, k>>  OBVIOUS
<1>8. \A y : y \in B <=> \E i \in D : \E k \in DOMAIN cs[i] : y = <<i, k>>  OBVIOUS
<1>. HIDE DEF A, B
<1>. DEFINE f == [y \in A |-> <<order[y[1]], y[2]>>]
<1>9. \A i \in D : \A k \in DOMAIN chains[i] : <<i, k>> \in A /\ f[<<i, k>>] = <<order[i], k>>
  BY <1>7
<1>10. f \in [A -> B]
  <2>1. \A y \in A : f[y] \in B  BY <1>5, <1>7, <1>8, <1>9
  <2>. QED  BY <2>1
<1>. HIDE DEF f
<1>11. \A y, z \in A : f[y] = f[z] => y = z
  <2>. SUFFICES ASSUME NEW y \in A, NEW z \in A, f[y] = f[z] PROVE y = z  OBVIOUS
  <2>1. PICK i \in D : \E k \in DOMAIN chains[i] : y = <<i, k>>  BY <1>7
  <2>2. PICK k \in DOMAIN chains[i] : y = <<i, k>>  BY <2>1
  <2>3. PICK j \in D : \E l \in DOMAIN chains[j] : z = <<j, l>>  BY <1>7
  <2>4. PICK l \in DOMAIN chains[j] : z = <<j, l>>  BY <2>3
  <2>5. <<order[i], k>> = <<order[j], l>>  BY <1>9, <2>2, <2>4
  <2>6. i = j /\ k = l  BY <1>6, <2>5
  <2>. QED  BY <2>2, <2>4, <2>6
<1>12. \A z \in B : \E y \in A : f[y] = z
  <2>. TAKE z \in B
  <2>1. PICK i \in D : \E k \in DOMAIN cs[i] : z = <<i, k>>  BY <1>8
  <2>2. PICK k \in DOMAIN cs[i] : z = <<i, k>>  BY <2>1
  <2>3. PICK h \in D : order[h] = i  BY <1>6
  <2>4. k \in DOMAIN chains[h]  BY <1>5, <2>3
  <2>. QED  BY <1>9, <2>2, <2>3, <2>4
<1>13. ExistsBijection(A, B)
  <2>1. f \in Bijection(A, B)
    BY <1>10, <1>11, <1>12 DEF Bijection, Injection, Surjection, IsInjective
  <2>. QED  BY <2>1 DEF ExistsBijection
<1>14. Cardinality(B) = Cardinality(A)  BY <1>4, <1>13, FS_Bijection
<1>. QED  BY <1>3, <1>14 DEF chains

\* A word keeps its shape when its actors are renamed.
Renames(w, v, nm, n, D, A) ==
    /\ 0 \notin D /\ nm \in [D -> A] /\ \A i, j \in D : nm[i] = nm[j] => i = j
    /\ v \in [1..n -> D] /\ w \in [1..n -> A] /\ \A j \in 1..n : w[j] = nm[v[j]]

\* A word of chains and the same word of actors move and switch alike.
LEMMA Renamed ==
    ASSUME NEW n \in Nat, NEW D, NEW A, NEW nm, NEW v, NEW w, Renames(w, v, nm, n, D, A)
    PROVE  /\ w \in [1..n -> A] /\ Len(w) = n
           /\ \A i \in D : \A j \in 0..n : Moved(w, nm[i], j) = Moved(v, i, j)
           /\ Preemptions(w) = Cardinality(Switches(v, 0, n))
<1>. USE DEF Renames
<1>1. w \in [1..n -> A] /\ Len(w) = n /\ \A j \in 1..n : w[j] = nm[v[j]]  OBVIOUS
<1>2. ASSUME NEW i \in D, NEW j \in 0..n PROVE Moved(w, nm[i], j) = Moved(v, i, j)
  <2>1. {k \in 1..j : w[k] = nm[i]} = {k \in 1..j : v[k] = i}
    <3>. SUFFICES ASSUME NEW k \in 1..j PROVE w[k] = nm[i] <=> v[k] = i  OBVIOUS
    <3>1. k \in 1..n  OBVIOUS
    <3>2. w[k] = nm[v[k]] /\ v[k] \in D  BY <1>1, <3>1
    <3>. QED  BY <3>2
  <2>. QED  BY <2>1 DEF Moved
<1>3. {j \in 2..Len(w) :
          w[j] # w[j - 1] /\ Moved(w, w[j - 1], j - 1) < Moved(w, w[j - 1], Len(w))}
        = Switches(v, 0, n)
  <2>1. ASSUME NEW j \in 2..n
        PROVE  w[j] # w[j - 1] /\ Moved(w, w[j - 1], j - 1) < Moved(w, w[j - 1], n)
                 <=> Preempts(v, 0, n, j)
    <3>1. j - 1 \in 1..n /\ j \in 1..n /\ j # 1  OBVIOUS
    <3>2. PICK h \in 1..n : h = j - 1  BY <3>1
    <3>3. v[h] \in D /\ v[j] \in D /\ v[h] # 0 /\ w[h] = nm[v[h]] /\ w[j] = nm[v[j]]
      BY <1>1, <3>1
    <3>4. h \in 0..n /\ n \in 0..n  OBVIOUS
    <3>5. Moved(w, w[h], h) = Moved(v, v[h], h) /\ Moved(w, w[h], n) = Moved(v, v[h], n)
      BY <1>2, <3>3, <3>4
    <3>6. Preempts(v, 0, n, j) <=> v[h] # v[j] /\ Moved(v, v[h], h) < Moved(v, v[h], n)
      BY <3>1, <3>2, <3>3 DEF Preempts, PriorTo
    <3>7. w[h] # w[j] <=> v[h] # v[j]  BY <3>3
    <3>. QED  BY <3>2, <3>5, <3>6, <3>7
  <2>2. ~Preempts(v, 0, n, 1)  BY DEF Preempts, PriorTo
  <2>3. \A j : j \in 2..n <=> j \in 1..n /\ j # 1  OBVIOUS
  <2>. QED  BY <1>1, <2>1, <2>2, <2>3 DEF Switches
<1>. QED  BY <1>1, <1>2, <1>3 DEF Preemptions

\* The choices of the reference, and what they spell.
ChainOf(s) ==
    [a \in ToSet(Field("actor", s.actors)) |-> (CHOOSE d \in ToSet(s.actors) : d.actor = a).checkpoints]

Chosen(s) ==
    {v \in [1..StepsOf(s.actors) -> DOMAIN ChainOf(s)] :
        /\ \A a \in DOMAIN ChainOf(s) : Moved(v, a, Len(v)) = Len(ChainOf(s)[a])
        /\ Preemptions(v) <= s.preemptions}

SpellOut(s, w) ==
    [j \in DOMAIN w |-> [actor |-> w[j], checkpoint |-> ChainOf(s)[w[j]][Moved(w, w[j], j)]]]

\* The reference is what its choices spell.
LEMMA ReferenceIsSpelled ==
    ASSUME NEW s
    PROVE  Reference(s) = {SpellOut(s, w) : w \in Chosen(s)}
BY DEF Reference, Chosen, SpellOut, ChainOf

\* Chains have the names of their actors.
Names(nm, s) ==
    /\ nm \in [DOMAIN Chains(s) -> DOMAIN ChainOf(s)]
    /\ \A i, j \in DOMAIN Chains(s) : nm[i] = nm[j] => i = j
    /\ \A a \in DOMAIN ChainOf(s) : \E i \in DOMAIN Chains(s) : nm[i] = a
    /\ \A i \in DOMAIN Chains(s) :
          /\ Len(ChainOf(s)[nm[i]]) = Len(Chains(s)[i])
          /\ \A k \in 1..Len(Chains(s)[i]) :
                Chains(s)[i][k] = [actor |-> nm[i], checkpoint |-> ChainOf(s)[nm[i]][k]]

\* The chains of a valid declaration have names.
LEMMA NamesOfChains ==
    ASSUME NEW s \in Spaces, ValidDeclaration(s)
    PROVE  \E nm : Names(nm, s)
<1>. DEFINE D == DOMAIN s.actors
            chains == Chains(s)
            chain == ChainOf(s)
<1>1. /\ DOMAIN chains = D
      /\ \A i \in D : IsList(s.actors[i].checkpoints)
      /\ \A i, j \in D : s.actors[i].actor = s.actors[j].actor => i = j
  BY ChainsOfActors
<1>2. PICK order : Orders(order, s)  BY ChainsOfActors
<1>. DEFINE nm == [i \in D |-> s.actors[order[i]].actor]
<1>3. \A i \in D : order[i] \in D  BY <1>2 DEF Orders
<1>4. DOMAIN chain = ToSet(Field("actor", s.actors))
      /\ \A a : a \in DOMAIN chain <=> \E i \in D : a = s.actors[i].actor
  BY DEF ChainOf, ToSet, Field
<1>5. nm \in [D -> DOMAIN chain]  BY <1>3, <1>4
<1>6. \A i, j \in D : nm[i] = nm[j] => i = j
  <2>. SUFFICES ASSUME NEW i \in D, NEW j \in D, nm[i] = nm[j] PROVE i = j  OBVIOUS
  <2>1. order[i] = order[j]  BY <1>1, <1>3
  <2>. QED  BY <1>2, <2>1 DEF Orders
<1>7. \A a \in DOMAIN chain : \E i \in D : nm[i] = a
  <2>. TAKE a \in DOMAIN chain
  <2>1. PICK i \in D : a = s.actors[i].actor  BY <1>4
  <2>2. PICK k \in D : order[k] = i  BY <1>2 DEF Orders
  <2>. QED  BY <2>1, <2>2
<1>8. ASSUME NEW i \in D
      PROVE  /\ Len(chain[nm[i]]) = Len(chains[i])
             /\ \A k \in 1..Len(chains[i]) :
                   chains[i][k] = [actor |-> nm[i], checkpoint |-> chain[nm[i]][k]]
  <2>. DEFINE a == s.actors[order[i]]
              d == CHOOSE d \in ToSet(s.actors) : d.actor = nm[i]
  <2>1. nm[i] = a.actor /\ a \in ToSet(s.actors)  BY <1>3 DEF ToSet
  <2>2. \A e \in ToSet(s.actors) : e.actor = nm[i] => e = a
    <3>. TAKE e \in ToSet(s.actors)
    <3>1. PICK j \in D : e = s.actors[j]  BY DEF ToSet
    <3>2. e.actor = nm[i] => j = order[i]  BY <1>1, <1>3, <2>1, <3>1
    <3>. QED  BY <3>1, <3>2
  <2>3. d = a
    <3>. HIDE DEF a, nm
    <3>. QED  BY <2>1, <2>2
  <2>4. chain[nm[i]] = d.checkpoints
    <3>1. nm[i] \in DOMAIN chain  BY <1>5
    <3>. QED  BY <1>4, <3>1 DEF ChainOf
  <2>5. PICK c : c = a.checkpoints  OBVIOUS
  <2>6. DOMAIN c = 1..Len(c) /\ Len(c) \in Nat /\ chain[nm[i]] = c
    BY <1>1, <1>3, <2>3, <2>4, <2>5 DEF IsList
  <2>7. chains[i] = [m \in 1..Len(c) |-> [actor |-> nm[i], checkpoint |-> c[m]]]
    <3>1. chains[i] = [m \in DOMAIN a.checkpoints |->
                         [actor |-> a.actor, checkpoint |-> a.checkpoints[m]]]
      BY <1>2 DEF Orders
    <3>2. PICK x : x = nm[i]  OBVIOUS
    <3>3. a.checkpoints = c /\ a.actor = x /\ DOMAIN c = 1..Len(c)  BY <2>1, <2>5, <2>6, <3>2
    <3>. HIDE DEF a, chains, nm
    <3>4. chains[i] = [m \in 1..Len(c) |-> [actor |-> x, checkpoint |-> c[m]]]  BY <3>1, <3>3
    <3>. QED  BY <3>2, <3>4
  <2>. HIDE DEF chains, chain, nm
  <2>8. Len(chains[i]) = Len(c)  BY <2>6, <2>7
  <2>9. \A k \in 1..Len(c) : chains[i][k] = [actor |-> nm[i], checkpoint |-> c[k]]  BY <2>7
  <2>. QED  BY <2>6, <2>8, <2>9
<1>. HIDE DEF chains, chain, nm
<1>9. nm \in [DOMAIN chains -> DOMAIN chain]  BY <1>1, <1>5
<1>10. \A i \in DOMAIN chains : i \in D  BY <1>1
<1>. QED  BY <1>1, <1>6, <1>7, <1>8, <1>9, <1>10 DEF chains, chain, Names

\* The words below the root are the choices of the reference, spelled alike.
LEMMA WordIsChoice ==
    ASSUME NEW s \in Spaces, ValidDeclaration(s), NEW nm, Names(nm, s), NEW n \in Nat,
           n = StepsOf(s.actors), NEW v \in [1..n -> DOMAIN Chains(s)],
           NEW w, w = [j \in 1..n |-> nm[v[j]]]
    PROVE  /\ v \in Words(Chains(s), s.preemptions, n, Root(Chains(s))) <=> w \in Chosen(s)
           /\ v \in Words(Chains(s), s.preemptions, n, Root(Chains(s)))
                => Spell(Chains(s), n, Start(Chains(s)), v) = SpellOut(s, w)
<1>. DEFINE chains == Chains(s)
            chain == ChainOf(s)
            D == DOMAIN chains
            A == DOMAIN chain
            at == Start(chains)
            Ws == Words(chains, s.preemptions, n, Root(chains))
<1>1. Chained(chains, Steps(s)) /\ s.preemptions \in Nat  BY ChainsAreChained, ChainsOfActors
<1>2. /\ nm \in [D -> A] /\ \A i, j \in D : nm[i] = nm[j] => i = j
      /\ \A a \in A : \E i \in D : nm[i] = a
  BY DEF Names
<1>3. \A i \in D : /\ Len(chain[nm[i]]) = Len(chains[i])
                   /\ \A k \in 1..Len(chains[i]) :
                        chains[i][k] = [actor |-> nm[i], checkpoint |-> chain[nm[i]][k]]
  BY DEF Names
<1>4. at \in [D -> Nat] /\ \A i \in D : at[i] = 0  BY DEF Start
<1>5. Ws = {u \in [1..n -> D] :
              Fits(chains, n, at, u) /\ 0 + Cardinality(Switches(u, 0, n)) <= s.preemptions}
  <2>1. Root(chains).at = at /\ Root(chains).prior = 0 /\ Root(chains).preemptions = 0
    BY DEF Root
  <2>. HIDE DEF chains, at
  <2>. QED  BY <2>1 DEF Words, D
<1>6. Chosen(s) = {u \in [1..n -> A] :
                      /\ \A a \in A : Moved(u, a, Len(u)) = Len(chain[a])
                      /\ Preemptions(u) <= s.preemptions}
  BY DEF Chosen
<1>7. v \in [1..n -> D]  OBVIOUS
<1>8. 0 \notin D
  <2>. SUFFICES ASSUME 0 \in D PROVE FALSE  OBVIOUS
  <2>. HIDE DEF chains
  <2>. QED  BY <1>1, ChainIsList DEF D
<1>. HIDE DEF chains, chain, D, A, at
<1>9. /\ w \in [1..n -> A] /\ Len(w) = n
      /\ \A i \in D : \A j \in 0..n : Moved(w, nm[i], j) = Moved(v, i, j)
      /\ Preemptions(w) = Cardinality(Switches(v, 0, n))
  <2>1. w \in [1..n -> A] /\ \A j \in 1..n : w[j] = nm[v[j]]  BY <1>2, <1>7
  <2>2. nm \in [D -> A] /\ \A i, j \in D : nm[i] = nm[j] => i = j  BY <1>2
  <2>3. Renames(w, v, nm, n, D, A)  BY <1>7, <1>8, <2>1, <2>2 DEF Renames
  <2>. QED  BY <2>3, Renamed, SMTT(30)
<1>10. Fits(chains, n, at, v) <=> \A a \in A : Moved(w, a, Len(w)) = Len(chain[a])
  <2>1. Fits(chains, n, at, v) <=> \A i \in D : at[i] + Moved(v, i, n) = Len(chains[i])
    BY DEF Fits, D
  <2>2. \A i \in D : at[i] + Moved(v, i, n) = Moved(w, nm[i], Len(w)) /\ nm[i] \in A
    <3>. TAKE i \in D
    <3>1. Moved(v, i, n) \in Nat  BY MovedIsCount
    <3>2. n \in 0..n /\ at[i] = 0 /\ nm[i] \in A  BY <1>2, <1>4
    <3>3. Moved(w, nm[i], n) = Moved(v, i, n)  BY <1>9, <3>2
    <3>. QED  BY <1>9, <3>1, <3>2, <3>3
  <2>3. \A i \in D : at[i] + Moved(v, i, n) = Len(chains[i])
                       <=> Moved(w, nm[i], Len(w)) = Len(chain[nm[i]])
    BY <1>3, <2>2
  <2>. QED  BY <1>2, <2>1, <2>2, <2>3
<1>11. v \in Ws <=> w \in Chosen(s)
  <2>1. Cardinality(Switches(v, 0, n)) \in Nat  BY SwitchesAreFinite
  <2>2. 0 + Cardinality(Switches(v, 0, n)) = Preemptions(w)  BY <1>9, <2>1
  <2>. HIDE DEF Ws
  <2>. QED  BY <1>5, <1>6, <1>7, <1>9, <1>10, <2>2
<1>12. ASSUME v \in Ws PROVE Spell(chains, n, at, v) = SpellOut(s, w)
  <2>1. Fits(chains, n, at, v)  BY <1>5, <1>12
  <2>2. SpellOut(s, w) =
          [j \in 1..n |-> [actor |-> w[j], checkpoint |-> chain[w[j]][Moved(w, w[j], j)]]]
    BY <1>9 DEF SpellOut, chain
  <2>3. ASSUME NEW j \in 1..n
        PROVE  chains[v[j]][at[v[j]] + Moved(v, v[j], j)]
                 = [actor |-> w[j], checkpoint |-> chain[w[j]][Moved(w, w[j], j)]]
    <3>1. PICK i, k : i \in D /\ i = v[j] /\ k = at[v[j]] + Moved(v, v[j], j)  BY <1>7
    <3>2. k \in 1..Len(chains[i])
      <4>1. at[v[j]] + Moved(v, v[j], j) \in 1..Len(chains[v[j]])
        BY <1>1, <1>4, <1>7, <2>1, MovesInChain DEF D
      <4>. QED  BY <3>1, <4>1
    <3>3. chains[i][k] = [actor |-> nm[i], checkpoint |-> chain[nm[i]][k]]  BY <1>3, <3>1, <3>2
    <3>4. w[j] = nm[i]  BY <3>1
    <3>5. Moved(w, nm[i], j) = k
      <4>1. j \in 0..n /\ j \in Nat  OBVIOUS
      <4>2. Moved(w, nm[i], j) = Moved(v, i, j)  BY <1>9, <3>1, <4>1
      <4>3. Moved(v, i, j) \in Nat  BY <4>1, MovedIsCount
      <4>4. at[i] = 0  BY <1>4, <3>1
      <4>. QED  BY <3>1, <4>2, <4>3, <4>4
    <3>. QED  BY <3>1, <3>3, <3>4, <3>5
  <2>. QED  BY <2>2, <2>3 DEF Spell
<1>. QED  BY <1>11, <1>12 DEF chains, at

\* The merges below the root are those of the reference.
LEMMA MergesAreReference ==
    ASSUME NEW s \in Spaces, ValidDeclaration(s)
    PROVE  Merged(Chains(s), s.preemptions, Size(Chains(s)), Root(Chains(s))) = Reference(s)
<1>. DEFINE n == StepsOf(s.actors)
            chains == Chains(s)
            D == DOMAIN chains
            A == DOMAIN ChainOf(s)
            Ws == Words(chains, s.preemptions, n, Root(chains))
<1>1. Size(chains) = n /\ n \in Nat
  <2>1. Chained(chains, Steps(s)) /\ 0 \in Nat  BY ChainsAreChained
  <2>2. Size(chains) \in Nat
    <3>. HIDE DEF chains
    <3>. QED  BY <2>1, AllLeft
  <2>. QED  BY <2>2, AsManySteps
<1>2. PICK nm : Names(nm, s)  BY NamesOfChains
<1>3. /\ nm \in [D -> A]
      /\ \A a \in A : \E i \in D : nm[i] = a
  BY <1>2 DEF Names
<1>4. Merged(chains, s.preemptions, n, Root(chains))
        = {Spell(chains, n, Start(chains), v) : v \in Ws}
  BY DEF Merged, Root
<1>5. Reference(s) = {SpellOut(s, w) : w \in Chosen(s)}  BY ReferenceIsSpelled
<1>6. \A v \in Ws : v \in [1..n -> D]  BY DEF Words
<1>7. \A w \in Chosen(s) : w \in [1..n -> A]  BY DEF Chosen
<1>. HIDE DEF n
<1>8. ASSUME NEW v \in [1..n -> D]
      PROVE  LET w == [j \in 1..n |-> nm[v[j]]]
             IN  /\ v \in Ws <=> w \in Chosen(s)
                 /\ v \in Ws => Spell(chains, n, Start(chains), v) = SpellOut(s, w)
  <2>. DEFINE w == [j \in 1..n |-> nm[v[j]]]
  <2>1. n = StepsOf(s.actors)  BY DEF n
  <2>. QED  BY <1>1, <1>2, <2>1, WordIsChoice
<1>. HIDE DEF chains, D, A, Ws
<1>9. \A v \in Ws : \E w \in Chosen(s) : Spell(chains, n, Start(chains), v) = SpellOut(s, w)
  BY <1>6, <1>8
<1>10. \A w \in Chosen(s) : \E v \in Ws : Spell(chains, n, Start(chains), v) = SpellOut(s, w)
  <2>. TAKE w \in Chosen(s)
  <2>1. w \in [1..n -> A]  BY <1>7
  <2>. DEFINE v == [j \in 1..n |-> CHOOSE i \in D : nm[i] = w[j]]
  <2>2. \A j \in 1..n : v[j] \in D /\ nm[v[j]] = w[j]  BY <1>3, <2>1
  <2>3. v \in [1..n -> D]  BY <2>2
  <2>4. [j \in 1..n |-> nm[v[j]]] = w
    <3>. HIDE DEF v
    <3>. QED  BY <2>1, <2>2
  <2>. HIDE DEF v
  <2>. QED  BY <1>8, <2>3, <2>4
<1>11. Merged(chains, s.preemptions, n, Root(chains)) = Reference(s)
  BY <1>4, <1>5, <1>9, <1>10
<1>. QED  BY <1>1, <1>11 DEF chains, n

\* The enumeration lists the merges of the reference, each once.
LEMMA MergesListReference ==
    ASSUME NEW s \in Spaces, ValidDeclaration(s)
    PROVE  /\ Lists(Merges(Chains(s), s.preemptions), Seq(Steps(s)), Reference(s))
<1>1. Chained(Chains(s), Steps(s)) /\ s.preemptions \in Nat  BY ChainsAreChained, ChainsOfActors
<1>2. Lists(Merges(Chains(s), s.preemptions), Seq(Steps(s)),
            Merged(Chains(s), s.preemptions, Size(Chains(s)), Root(Chains(s))))
  BY <1>1, MergesAreWords
<1>. QED  BY <1>2, MergesAreReference

(***************************************************************************)
(* Rows.                                                                   *)
(***************************************************************************)
\* Whatever the rows are, they are a sequence.
IsRows(s) == s \in Seq({s[i] : i \in DOMAIN s})

\* No rows are rows.
LEMMA NoRows == IsRows(<<>>) /\ Len(<<>>) = 0 /\ DOMAIN <<>> = {}
BY DEF IsRows

\* A sequence of anything is one of its elements.
LEMMA SequencesAreRows ==
    ASSUME NEW S, NEW s \in Seq(S)
    PROVE  IsRows(s)
<1>. DEFINE T == {s[i] : i \in DOMAIN s}
<1>1. Len(s) \in Nat /\ DOMAIN s = 1..Len(s) /\ s = [i \in 1..Len(s) |-> s[i]]  OBVIOUS
<1>2. \A i \in 1..Len(s) : s[i] \in T  BY <1>1
<1>. HIDE DEF T
<1>3. s \in [1..Len(s) -> T]  BY <1>1, <1>2
<1>4. s \in Seq(T)  BY <1>1, <1>3
<1>. QED  BY <1>4 DEF IsRows, T

\* A row that is recorded is the last one.
LEMMA RowAppended ==
    ASSUME NEW s, IsRows(s), NEW row
    PROVE  /\ IsRows(Append(s, row)) /\ Len(s) \in Nat
           /\ DOMAIN s = 1..Len(s) /\ DOMAIN Append(s, row) = 1..(Len(s) + 1)
           /\ Append(s, row)[Len(s) + 1] = row
           /\ \A n \in DOMAIN s : Append(s, row)[n] = s[n]
<1>. DEFINE S == {s[i] : i \in DOMAIN s}
            T == S \cup {row}
<1>1. s \in Seq(S)  BY DEF IsRows
<1>. HIDE DEF S
<1>2. s \in Seq(T) /\ row \in T  BY <1>1
<1>. HIDE DEF T
<1>3. Append(s, row) \in Seq(T)  BY <1>2
<1>4. IsRows(Append(s, row))  BY <1>3, SequencesAreRows
<1>5. /\ DOMAIN Append(s, row) = 1..(Len(s) + 1) /\ Len(s) \in Nat /\ DOMAIN s = 1..Len(s)
      /\ \A i \in 1..Len(s) : Append(s, row)[i] = s[i]
      /\ Append(s, row)[Len(s) + 1] = row
  BY <1>2
<1>. QED  BY <1>4, <1>5

(***************************************************************************)
(* The coverage tables.                                                    *)
(***************************************************************************)
\* The table of prefixes that Entered chooses, up to some observation.
Entering(f, observations, n) ==
    f = [i \in 0..n |-> IF i = 0 THEN Tables ELSE Enter(f[i - 1], observations[i])]

\* There is such a table.
LEMMA EnteringExists ==
    ASSUME NEW observations, NEW N \in Nat
    PROVE  \E f : Entering(f, observations, N)
<1>. DEFINE S == {n \in Nat : \E f : Entering(f, observations, n)}
            none == Tables
<1>. HIDE DEF none
<1>1. 0 \in S
  <2>. DEFINE f == [k \in 0..0 |-> none]
  <2>1. f = [k \in 0..0 |-> IF k = 0 THEN none ELSE Enter(f[k - 1], observations[k])]  OBVIOUS
  <2>. QED  BY <2>1 DEF Entering, none
<1>2. ASSUME NEW n \in Nat, n \in S PROVE n + 1 \in S
  <2>1. PICK f : Entering(f, observations, n)  BY <1>2
  <2>. DEFINE x == Enter(f[n], observations[n + 1])
              g == [k \in 0..(n + 1) |-> IF k = n + 1 THEN x ELSE f[k]]
  <2>. HIDE DEF x
  <2>2. \A k \in 0..(n + 1) : g[k] = IF k = 0 THEN none ELSE Enter(g[k - 1], observations[k])
    <3>. TAKE k \in 0..(n + 1)
    <3>1. CASE k = n + 1
      <4>1. g[k] = x /\ g[k - 1] = f[n] /\ k # 0  BY <3>1
      <4>. QED  BY <3>1, <4>1 DEF x
    <3>2. CASE k \in 0..n
      <4>1. g[k] = f[k]  BY <3>2
      <4>2. f[k] = IF k = 0 THEN none ELSE Enter(f[k - 1], observations[k])
        BY <2>1, <3>2 DEF Entering, none
      <4>3. k # 0 => g[k - 1] = f[k - 1]  BY <3>2
      <4>. QED  BY <4>1, <4>2, <4>3
    <3>. QED  BY <3>1, <3>2
  <2>3. g = [k \in 0..(n + 1) |-> g[k]]  OBVIOUS
  <2>. HIDE DEF g
  <2>4. Entering(g, observations, n + 1)  BY <2>2, <2>3 DEF Entering, none
  <2>. QED  BY <2>4
<1>. HIDE DEF S
<1>3. N \in S  BY <1>1, <1>2, Induction
<1>. QED  BY <1>3 DEF S

\* An observation that can be used, what it is counted as, and those that are before the
\* first that cannot be.
Fit(observations, i) ==
    LET o == observations[i] IN
    /\ o.after = i - 1
    /\ DOMAIN o.state = ToSet(space.base) \cup ToSet(space.instrumentation)
    /\ CanonicalOf(OfBase(o)) # Unusable

Form(observations, i) == CanonicalOf(OfBase(observations[i]))

Counting(observations, k) == {i \in 1..k : \A h \in 1..i : Fit(observations, h)}

Forms(observations, k) == {Form(observations, i) : i \in Counting(observations, k)}

Hops(observations, k, from, to) ==
    {i \in Counting(observations, k) :
        i > 1 /\ Form(observations, i - 1) = from /\ Form(observations, i) = to}

Times(bag, f, g) == IF BagIn(<<f, g>>, bag) THEN bag[<<f, g>>] ELSE 0

\* Tables as they may be: transitions are between states of the table.
Links(bag, D) == DOMAIN bag \subseteq D \X D /\ \A e \in DOMAIN bag : bag[e] \in Nat

Proper(table, bag) == IsRows(table) /\ IsInjective(table) /\ Links(bag, DOMAIN table)

\* What an observation adds to them.
KeyOf(t, o) == IF o.after = t.position THEN Key(o.state) ELSE Unusable
With(table, key) == IF key \in ToSet(table) THEN table ELSE Append(table, key)
Linked(bag, p, q) == bag (+) SetToBag({<<p, q>>})

IsTables(t) ==
    t = [states |-> t.states, edges |-> t.edges, bytes |-> t.bytes,
         prior |-> t.prior, position |-> t.position, verdict |-> t.verdict]

\* The tables after the first k observations.
StatesEntered(t, observations, k) ==
    /\ \A i \in DOMAIN states : i \in DOMAIN t.states /\ t.states[i] = states[i]
    /\ ToSet(t.states) \subseteq ToSet(states) \cup Forms(observations, k)
    /\ t.verdict # "uncovered" => ToSet(t.states) = ToSet(states) \cup Forms(observations, k)

EdgesEntered(t, observations, k) ==
    \A f, g \in DOMAIN t.states :
        LET made == Times(edges, f, g) + Cardinality(Hops(observations, k, t.states[f], t.states[g]))
        IN  /\ Times(t.edges, f, g) <= made
            /\ t.verdict # "uncovered" => Times(t.edges, f, g) = made

VerdictGiven(t, observations, k) ==
    /\ t.verdict \in {"valid", "invalid", "uncovered"}
    /\ t.verdict = "valid" =>
          /\ t.position = k /\ \A h \in 1..k : Fit(observations, h)
          /\ k = 0 => t.prior = 0
          /\ k # 0 => t.prior \in DOMAIN t.states /\ t.states[t.prior] = Form(observations, k)
    /\ t.verdict = "invalid" => \E h \in 1..k : ~Fit(observations, h)
    /\ t.verdict = "uncovered" => t.bytes > coverage_limit

WellEntered(t, observations, k) ==
    /\ IsTables(t) /\ Proper(t.states, t.edges)
    /\ VerdictGiven(t, observations, k) /\ StatesEntered(t, observations, k)
    /\ EdgesEntered(t, observations, k)

\* What counts is of the run, and finite.
LEMMA CountingGrows ==
    ASSUME NEW observations, NEW k \in Nat
    PROVE  /\ IsFiniteSet(Counting(observations, k)) /\ k + 1 \notin Counting(observations, k)
           /\ (\A h \in 1..(k + 1) : Fit(observations, h)) =>
                 Counting(observations, k + 1) = Counting(observations, k) \cup {k + 1}
           /\ (\E h \in 1..(k + 1) : ~Fit(observations, h)) =>
                 Counting(observations, k + 1) = Counting(observations, k)
           /\ (\A h \in 1..k : Fit(observations, h)) => Counting(observations, k) = 1..k
<1>1. IsFiniteSet(1..k) /\ Counting(observations, k) \subseteq 1..k  BY FS_Interval DEF Counting
<1>2. IsFiniteSet(Counting(observations, k))  BY <1>1, FS_Subset
<1>3. k + 1 \notin Counting(observations, k)  BY <1>1
<1>4. \A i : i \in 1..(k + 1) <=> i \in 1..k \/ i = k + 1  OBVIOUS
<1>5. \A i \in 1..k : \A h \in 1..i : h \in 1..k  OBVIOUS
<1>6. ASSUME \A h \in 1..(k + 1) : Fit(observations, h)
      PROVE  Counting(observations, k + 1) = Counting(observations, k) \cup {k + 1}
  BY <1>4, <1>6 DEF Counting
<1>7. ASSUME \E h \in 1..(k + 1) : ~Fit(observations, h)
      PROVE  Counting(observations, k + 1) = Counting(observations, k)
  BY <1>4, <1>7 DEF Counting
<1>8. ASSUME \A h \in 1..k : Fit(observations, h) PROVE Counting(observations, k) = 1..k
  BY <1>5, <1>8 DEF Counting
<1>. QED  BY <1>2, <1>3, <1>6, <1>7, <1>8

\* One more observation adds at most one passage, if all so far fit.
LEMMA HopsGrow ==
    ASSUME NEW observations, NEW k \in Nat, NEW from, NEW to
    PROVE  LET now == Hops(observations, k, from, to)
               then == Hops(observations, k + 1, from, to)
           IN
           /\ IsFiniteSet(now) /\ Cardinality(now) \in Nat
           /\ (\E h \in 1..(k + 1) : ~Fit(observations, h)) => then = now
           /\ (\A h \in 1..(k + 1) : Fit(observations, h)) =>
                 Cardinality(then) = Cardinality(now)
                    + (IF k # 0 /\ Form(observations, k) = from /\ Form(observations, k + 1) = to
                       THEN 1 ELSE 0)
<1>. DEFINE now == Hops(observations, k, from, to)
            then == Hops(observations, k + 1, from, to)
<1>1. IsFiniteSet(now) /\ k + 1 \notin now
  <2>1. now \subseteq Counting(observations, k)  BY DEF Hops
  <2>. HIDE DEF now
  <2>. QED  BY <2>1, CountingGrows, FS_Subset
<1>2. Cardinality(now) \in Nat  BY <1>1, FS_CardinalityType
<1>3. (\E h \in 1..(k + 1) : ~Fit(observations, h)) => then = now
  BY CountingGrows DEF Hops
<1>4. ASSUME \A h \in 1..(k + 1) : Fit(observations, h)
      PROVE  Cardinality(then) = Cardinality(now)
                + (IF k # 0 /\ Form(observations, k) = from /\ Form(observations, k + 1) = to
                   THEN 1 ELSE 0)
  <2>1. Counting(observations, k + 1) = Counting(observations, k) \cup {k + 1}
    BY <1>4, CountingGrows
  <2>2. (k + 1) - 1 = k /\ (k + 1 > 1 <=> k # 0)  OBVIOUS
  <2>3. then = IF k # 0 /\ Form(observations, k) = from /\ Form(observations, k + 1) = to
               THEN now \cup {k + 1} ELSE now
    BY <2>1, <2>2 DEF Hops
  <2>. HIDE DEF now, then
  <2>4. Cardinality(now \cup {k + 1}) = Cardinality(now) + 1  BY <1>1, FS_AddElement
  <2>. QED  BY <1>2, <2>3, <2>4
<1>. QED  BY <1>1, <1>2, <1>3, <1>4

\* A state of the table, or one more.
Listing(table, key, more) ==
    /\ IsRows(more) /\ IsInjective(more) /\ ToSet(more) = ToSet(table) \cup {key}
    /\ \A i \in DOMAIN table : i \in DOMAIN more /\ more[i] = table[i]
    /\ Ordinal(more, key) \in DOMAIN more /\ more[Ordinal(more, key)] = key
    /\ \A i \in DOMAIN more : i \in DOMAIN table \/ (more[i] = key /\ key \notin ToSet(table))
    /\ \A i \in DOMAIN more : i \in Nat /\ i # 0

\* A key is listed once, whether it was there or not.
LEMMA Listed ==
    ASSUME NEW table, IsRows(table), IsInjective(table), NEW key
    PROVE  Listing(table, key, With(table, key))
<1>. DEFINE more == With(table, key)
<1>1. /\ Len(table) \in Nat /\ DOMAIN table = 1..Len(table)
      /\ IsRows(Append(table, key)) /\ DOMAIN Append(table, key) = 1..(Len(table) + 1)
      /\ Append(table, key)[Len(table) + 1] = key
      /\ \A i \in DOMAIN table : Append(table, key)[i] = table[i]
  BY RowAppended
<1>2. ToSet(table) = {table[i] : i \in DOMAIN table} /\ ToSet(more) = {more[i] : i \in DOMAIN more}
  BY DEF ToSet
<1>3. CASE key \in ToSet(table)
  <2>1. more = table /\ \E i \in DOMAIN table : table[i] = key  BY <1>2, <1>3 DEF With
  <2>. HIDE DEF more
  <2>2. Listing(table, key, more)  BY <1>1, <1>3, <2>1 DEF Ordinal, Listing
  <2>. QED  BY <2>2 DEF more
<1>4. CASE key \notin ToSet(table)
  <2>1. more = Append(table, key)  BY <1>4 DEF With
  <2>. DEFINE N == Len(table)
  <2>. HIDE DEF N, more
  <2>2. /\ N \in Nat /\ DOMAIN table = 1..N /\ IsRows(more) /\ DOMAIN more = 1..(N + 1)
        /\ more[N + 1] = key /\ \A i \in DOMAIN table : more[i] = table[i]
    BY <1>1, <2>1 DEF N
  <2>3. \A i : i \in DOMAIN more <=> i \in DOMAIN table \/ i = N + 1  BY <2>2
  <2>4. \A i \in DOMAIN table : table[i] # key  BY <1>2, <1>4
  <2>5. IsInjective(more)  BY <2>2, <2>3, <2>4 DEF IsInjective
  <2>6. ToSet(more) = ToSet(table) \cup {key}  BY <1>2, <2>2, <2>3
  <2>7. Ordinal(more, key) \in DOMAIN more /\ more[Ordinal(more, key)] = key
    BY <2>2, <2>3 DEF Ordinal
  <2>8. Listing(table, key, more)  BY <1>4, <2>2, <2>3, <2>5, <2>6, <2>7 DEF Listing
  <2>. QED  BY <2>8 DEF more
<1>. QED  BY <1>3, <1>4

\* One transition more.
LEMMA Charged ==
    ASSUME NEW bag, NEW D, Links(bag, D), NEW p \in D, NEW q \in D
    PROVE  LET more == Linked(bag, p, q) IN
           /\ Links(more, D)
           /\ \A f, g \in D : /\ Times(bag, f, g) \in Nat
                              /\ Times(more, f, g)
                                   = Times(bag, f, g) + (IF f = p /\ g = q THEN 1 ELSE 0)
<1>. DEFINE more == Linked(bag, p, q)
            x == <<p, q>>
<1>1. more = [e \in DOMAIN bag \cup {x} |->
                 (IF e \in DOMAIN bag THEN bag[e] ELSE 0) + (IF e \in {x} THEN 1 ELSE 0)]
  <2>1. SetToBag({x}) = [e \in {x} |-> 1]  BY DEF SetToBag
  <2>2. DOMAIN SetToBag({x}) = {x} /\ \A e \in {x} : SetToBag({x})[e] = 1  BY <2>1
  <2>. QED  BY <2>2 DEF Linked, (+)
<1>. HIDE DEF x, more
<1>2. DOMAIN more = DOMAIN bag \cup {x}  BY <1>1
<1>3. \A e \in DOMAIN more :
        more[e] = (IF e \in DOMAIN bag THEN bag[e] ELSE 0) + (IF e = x THEN 1 ELSE 0)
  BY <1>1
<1>4. ASSUME NEW e \in DOMAIN more PROVE more[e] \in Nat
  <2>1. PICK a, b : /\ a = (IF e \in DOMAIN bag THEN bag[e] ELSE 0)
                    /\ b = (IF e = x THEN 1 ELSE 0) /\ more[e] = a + b
    BY <1>3
  <2>2. a \in Nat /\ b \in Nat  BY <2>1 DEF Links
  <2>. QED  BY <2>1, <2>2
<1>5. ASSUME NEW f \in D, NEW g \in D
      PROVE  /\ Times(bag, f, g) \in Nat
             /\ Times(more, f, g) = Times(bag, f, g) + (IF f = p /\ g = q THEN 1 ELSE 0)
  <2>1. PICK e : e = <<f, g>>  OBVIOUS
  <2>2. e = x <=> f = p /\ g = q  BY <2>1 DEF x
  <2>3. Times(bag, f, g) = IF e \in DOMAIN bag THEN bag[e] ELSE 0  BY <2>1 DEF Times, BagIn, BagToSet
  <2>4. Times(more, f, g) = IF e \in DOMAIN more THEN more[e] ELSE 0
    BY <2>1 DEF Times, BagIn, BagToSet
  <2>5. Times(bag, f, g) \in Nat  BY <2>3 DEF Links
  <2>. QED  BY <1>2, <1>3, <2>2, <2>3, <2>4, <2>5
<1>6. x \in D \X D  BY DEF x
<1>7. Links(more, D)  BY <1>2, <1>4, <1>6 DEF Links
<1>. QED  BY <1>5, <1>7 DEF more

\* What becomes of the tables with an observation.
LEMMA EnterCases ==
    ASSUME NEW t, IsTables(t), t.verdict = "valid", NEW o
    PROVE  LET key  == KeyOf(t, o)
               more == With(t.states, key)
               id   == Ordinal(more, key)
               u    == Enter(t, o)
           IN
           /\ IsTables(u)
           /\ \/ key = Unusable /\ u.verdict = "invalid" /\ u.states = t.states /\ u.edges = t.edges
              \/ /\ key # Unusable /\ u.verdict = "uncovered" /\ u.states \in {t.states, more}
                 /\ u.edges = t.edges /\ u.bytes > coverage_limit
              \/ /\ key # Unusable /\ u.verdict = "valid" /\ u.states = more
                 /\ u.prior = id /\ u.position = t.position + 1
                 /\ u.edges = IF t.prior = 0 THEN t.edges ELSE Linked(t.edges, t.prior, id)
<1>. DEFINE key  == KeyOf(t, o)
            more == With(t.states, key)
            id   == Ordinal(more, key)
            u    == Enter(t, o)
            known == key \in ToSet(t.states)
            edge == <<t.prior, id>>
            charged == t.bytes + IF known THEN 0 ELSE StateBytes
            linked  == charged + IF t.prior = 0 \/ BagIn(edge, t.edges) THEN 0 ELSE EdgeBytes
<1>1. PICK s, e, b, p, n, v :
         /\ s = t.states /\ e = t.edges /\ b = t.bytes /\ p = t.prior /\ n = t.position
         /\ v = t.verdict
  OBVIOUS
<1>2. t = [states |-> s, edges |-> e, bytes |-> b, prior |-> p, position |-> n, verdict |-> v]
  BY <1>1 DEF IsTables
<1>3. PICK c, l, g : c = charged /\ l = linked
                     /\ g = IF t.prior = 0 THEN t.edges ELSE Linked(t.edges, t.prior, id)
  OBVIOUS
<1>4. u = IF key = Unusable THEN [t EXCEPT !.verdict = "invalid"]
          ELSE IF c > coverage_limit THEN [t EXCEPT !.bytes = c, !.verdict = "uncovered"]
          ELSE IF l > coverage_limit
          THEN [t EXCEPT !.states = more, !.bytes = l, !.verdict = "uncovered"]
          ELSE [t EXCEPT !.states = more, !.bytes = l, !.prior = id, !.position = @ + 1, !.edges = g]
  BY <1>3 DEF Enter, KeyOf, With, Linked
<1>5. \/ /\ key = Unusable
         /\ u = [states |-> s, edges |-> e, bytes |-> b, prior |-> p, position |-> n,
                 verdict |-> "invalid"]
      \/ /\ key # Unusable /\ c > coverage_limit
         /\ u = [states |-> s, edges |-> e, bytes |-> c, prior |-> p, position |-> n,
                 verdict |-> "uncovered"]
      \/ /\ key # Unusable /\ l > coverage_limit
         /\ u = [states |-> more, edges |-> e, bytes |-> l, prior |-> p, position |-> n,
                 verdict |-> "uncovered"]
      \/ /\ key # Unusable
         /\ u = [states |-> more, edges |-> g, bytes |-> l, prior |-> id, position |-> n + 1,
                 verdict |-> v]
  BY <1>2, <1>4
<1>6. g = IF t.prior = 0 THEN t.edges ELSE Linked(t.edges, t.prior, id)  BY <1>3
<1>. HIDE DEF known, edge, charged, linked, key, more, id, u
<1>7. IsTables(u)  BY <1>5 DEF IsTables
<1>8. \/ key = Unusable /\ u.verdict = "invalid" /\ u.states = s /\ u.edges = e
      \/ /\ key # Unusable /\ u.verdict = "uncovered" /\ u.bytes > coverage_limit
         /\ u.states = s /\ u.edges = e
      \/ /\ key # Unusable /\ u.verdict = "uncovered" /\ u.bytes > coverage_limit
         /\ u.states = more /\ u.edges = e
      \/ /\ key # Unusable /\ u.verdict = v /\ u.states = more
         /\ u.prior = id /\ u.position = n + 1 /\ u.edges = g
  <2>1. CASE key = Unusable /\ u = [states |-> s, edges |-> e, bytes |-> b, prior |-> p, position |-> n,
                                     verdict |-> "invalid"]
    <3>1. u.verdict = "invalid" /\ u.states = s /\ u.edges = e  BY <2>1
    <3>. QED  BY <2>1, <3>1
  <2>2. CASE /\ key # Unusable /\ c > coverage_limit
             /\ u = [states |-> s, edges |-> e, bytes |-> c, prior |-> p, position |-> n,
                     verdict |-> "uncovered"]
    <3>1. u.verdict = "uncovered" /\ u.states = s /\ u.edges = e /\ u.bytes = c  BY <2>2
    <3>. QED  BY <2>2, <3>1
  <2>3. CASE /\ key # Unusable /\ l > coverage_limit
             /\ u = [states |-> more, edges |-> e, bytes |-> l, prior |-> p, position |-> n,
                     verdict |-> "uncovered"]
    <3>1. u.verdict = "uncovered" /\ u.states = more /\ u.edges = e /\ u.bytes = l  BY <2>3
    <3>. QED  BY <2>3, <3>1
  <2>4. CASE key # Unusable /\ u = [states |-> more, edges |-> g, bytes |-> l, prior |-> id,
                                     position |-> n + 1, verdict |-> v]
    <3>1. u.verdict = v /\ u.states = more /\ u.prior = id /\ u.position = n + 1 /\ u.edges = g  BY <2>4
    <3>. QED  BY <2>4, <3>1
  <2>. QED  BY <1>5, <2>1, <2>2, <2>3, <2>4
<1>9. \/ key = Unusable /\ u.verdict = "invalid" /\ u.states = t.states /\ u.edges = t.edges
      \/ /\ key # Unusable /\ u.verdict = "uncovered" /\ u.states \in {t.states, more}
         /\ u.edges = t.edges /\ u.bytes > coverage_limit
      \/ /\ key # Unusable /\ u.verdict = "valid" /\ u.states = more
         /\ u.prior = id /\ u.position = t.position + 1
         /\ u.edges = IF t.prior = 0 THEN t.edges ELSE Linked(t.edges, t.prior, id)
  BY <1>1, <1>6, <1>8
<1>. QED  BY <1>7, <1>9 DEF key, more, id, u

\* A key is the form of an observation that can be used.
LEMMA KeyIsForm ==
    ASSUME NEW observations, NEW k \in Nat, NEW t, t.position = k
    PROVE  LET key == KeyOf(t, observations[k + 1]) IN
           /\ key # Unusable <=> Fit(observations, k + 1)
           /\ key # Unusable => key = Form(observations, k + 1)
<1>. DEFINE key == KeyOf(t, observations[k + 1])
<1>1. (k + 1) - 1 = k  OBVIOUS
<1>2. PICK o : o = observations[k + 1]  OBVIOUS
<1>3. OfBase(o) = Projected(o.state)  BY DEF OfBase, Projected, Restrict
<1>4. key = IF o.after # k \/ DOMAIN o.state # Variables THEN Unusable ELSE CanonicalOf(OfBase(o))
  BY <1>2, <1>3 DEF Key, KeyOf
<1>5. Fit(observations, k + 1)
        <=> o.after = k /\ DOMAIN o.state = Variables /\ CanonicalOf(OfBase(o)) # Unusable
  BY <1>1, <1>2 DEF Fit, Variables
<1>6. Form(observations, k + 1) = CanonicalOf(OfBase(o))  BY <1>2 DEF Form
<1>. QED  BY <1>4, <1>5, <1>6

\* What was counted stays so.
LEMMA FormsGrow ==
    ASSUME NEW observations, NEW k \in Nat
    PROVE  /\ (\E h \in 1..(k + 1) : ~Fit(observations, h)) =>
                 Forms(observations, k + 1) = Forms(observations, k)
           /\ (\A h \in 1..(k + 1) : Fit(observations, h)) =>
                 Forms(observations, k + 1) = Forms(observations, k) \cup {Form(observations, k + 1)}
           /\ \A from, to : Hops(observations, k, from, to) # {} =>
                 from \in Forms(observations, k) /\ to \in Forms(observations, k)
<1>1. (\E h \in 1..(k + 1) : ~Fit(observations, h)) =>
         Forms(observations, k + 1) = Forms(observations, k)
  BY CountingGrows DEF Forms
<1>2. (\A h \in 1..(k + 1) : Fit(observations, h)) =>
         Forms(observations, k + 1) = Forms(observations, k) \cup {Form(observations, k + 1)}
  BY CountingGrows DEF Forms
<1>3. ASSUME NEW from, NEW to, Hops(observations, k, from, to) # {}
      PROVE  from \in Forms(observations, k) /\ to \in Forms(observations, k)
  <2>1. PICK i \in Counting(observations, k) :
          i > 1 /\ Form(observations, i - 1) = from /\ Form(observations, i) = to
    BY <1>3 DEF Hops
  <2>2. i \in 1..k /\ i - 1 \in 1..k /\ \A h \in 1..i : Fit(observations, h)
    BY <2>1 DEF Counting
  <2>3. \A h \in 1..(i - 1) : h \in 1..i  BY <2>2
  <2>4. i - 1 \in Counting(observations, k)  BY <2>2, <2>3 DEF Counting
  <2>. QED  BY <2>1, <2>4 DEF Forms
<1>. QED  BY <1>1, <1>2, <1>3

\* Tables that are not changed any more.
LEMMA EnteredNoMore ==
    ASSUME NEW observations, NEW k \in Nat, NEW t, WellEntered(t, observations, k),
           t.verdict # "valid", Proper(states, edges)
    PROVE  WellEntered(t, observations, k + 1)
<1>1. IsTables(t) /\ Proper(t.states, t.edges)  BY DEF WellEntered
<1>2. \A h \in 1..k : h \in 1..(k + 1)  OBVIOUS
<1>3. VerdictGiven(t, observations, k + 1)  BY <1>2 DEF WellEntered, VerdictGiven
<1>4. t.verdict \in {"invalid", "uncovered"}
      /\ (t.verdict = "invalid" => \E h \in 1..(k + 1) : ~Fit(observations, h))
  BY <1>2 DEF WellEntered, VerdictGiven
<1>5. Forms(observations, k) \subseteq Forms(observations, k + 1)  BY FormsGrow
<1>6. t.verdict = "invalid" => Forms(observations, k) = Forms(observations, k + 1)
  BY <1>4, FormsGrow
<1>7. StatesEntered(t, observations, k + 1)
  BY <1>4, <1>5, <1>6 DEF WellEntered, StatesEntered
<1>8. EdgesEntered(t, observations, k + 1)
  <2>. SUFFICES ASSUME NEW f \in DOMAIN t.states, NEW g \in DOMAIN t.states
                PROVE  LET made == Times(edges, f, g)
                              + Cardinality(Hops(observations, k + 1, t.states[f], t.states[g]))
                       IN  /\ Times(t.edges, f, g) <= made
                           /\ t.verdict # "uncovered" => Times(t.edges, f, g) = made
    BY DEF EdgesEntered
  <2>1. PICK a, b, x, y :
          /\ a = Cardinality(Hops(observations, k, t.states[f], t.states[g]))
          /\ b = Cardinality(Hops(observations, k + 1, t.states[f], t.states[g]))
          /\ x = Times(edges, f, g) /\ y = Times(t.edges, f, g)
    OBVIOUS
  <2>2. y <= x + a /\ (t.verdict # "uncovered" => y = x + a)
    BY <2>1 DEF WellEntered, EdgesEntered
  <2>3. x \in Nat /\ y \in Nat
    BY <1>1, <2>1 DEF Proper, Links, Times, BagIn, BagToSet
  <2>4. a \in Nat /\ b \in Nat /\ a <= b  BY <2>1, HopsGrow
  <2>5. t.verdict = "invalid" => a = b  BY <1>4, <2>1, HopsGrow
  <2>6. y <= x + b /\ (t.verdict # "uncovered" => y = x + b)  BY <1>4, <2>2, <2>3, <2>4, <2>5
  <2>. QED  BY <2>1, <2>6
<1>. QED  BY <1>1, <1>3, <1>7, <1>8 DEF WellEntered

\* An observation that can be used: its state is in the table, or will be, and the
\* transitions of those before it are counted.
LEMMA CountedSoFar ==
    ASSUME NEW observations, NEW k \in Nat, NEW t, WellEntered(t, observations, k),
           t.verdict = "valid", Proper(states, edges), NEW key,
           NEW f \in DOMAIN With(t.states, key), NEW g \in DOMAIN With(t.states, key)
    PROVE  LET more == With(t.states, key) IN
           /\ Times(t.edges, f, g)
                = Times(edges, f, g) + Cardinality(Hops(observations, k, more[f], more[g]))
           /\ Times(edges, f, g) \in Nat /\ Times(t.edges, f, g) \in Nat
<1>. DEFINE more == With(t.states, key)
<1>1. IsRows(t.states) /\ IsInjective(t.states)  BY DEF WellEntered, Proper
<1>2. /\ \A i \in DOMAIN t.states : i \in DOMAIN more /\ more[i] = t.states[i]
      /\ \A i \in DOMAIN more : i \in DOMAIN t.states \/ (more[i] = key /\ key \notin ToSet(t.states))
  BY <1>1, Listed DEF Listing
<1>0. f \in DOMAIN more /\ g \in DOMAIN more  OBVIOUS
<1>. HIDE DEF more
<1>3. Times(edges, f, g) \in Nat /\ Times(t.edges, f, g) \in Nat
  BY DEF WellEntered, Proper, Links, Times, BagIn, BagToSet
<1>4. CASE f \in DOMAIN t.states /\ g \in DOMAIN t.states
  <2>1. Times(t.edges, f, g)
          = Times(edges, f, g) + Cardinality(Hops(observations, k, t.states[f], t.states[g]))
    BY <1>4 DEF WellEntered, EdgesEntered
  <2>2. more[f] = t.states[f] /\ more[g] = t.states[g]  BY <1>2, <1>4
  <2>3. Times(t.edges, f, g)
          = Times(edges, f, g) + Cardinality(Hops(observations, k, more[f], more[g]))
    BY <2>1, <2>2
  <2>. QED  BY <1>3, <2>3 DEF more
<1>5. CASE ~(f \in DOMAIN t.states /\ g \in DOMAIN t.states)
  <2>1. (more[f] = key \/ more[g] = key) /\ key \notin ToSet(t.states)  BY <1>0, <1>2, <1>5
  <2>2. key \notin Forms(observations, k)
    BY <2>1 DEF WellEntered, StatesEntered
  <2>3. Hops(observations, k, more[f], more[g]) = {}  BY <2>1, <2>2, FormsGrow
  <2>4. <<f, g>> \notin DOMAIN t.edges  BY <1>5 DEF WellEntered, Proper, Links
  <2>5. <<f, g>> \notin DOMAIN edges
    <3>1. \A i \in DOMAIN states : i \in DOMAIN t.states  BY DEF WellEntered, StatesEntered
    <3>. QED  BY <1>5, <3>1 DEF Proper, Links
  <2>6. Times(t.edges, f, g) = 0 /\ Times(edges, f, g) = 0
    BY <2>4, <2>5 DEF Times, BagIn, BagToSet
  <2>7. Cardinality({}) = 0  BY FS_EmptySet
  <2>8. Cardinality(Hops(observations, k, more[f], more[g])) = 0  BY <2>3, <2>7
  <2>9. Times(t.edges, f, g)
          = Times(edges, f, g) + Cardinality(Hops(observations, k, more[f], more[g]))
    BY <2>6, <2>8
  <2>. QED  BY <1>3, <2>9 DEF more
<1>. QED  BY <1>4, <1>5

\* One more observation.
LEMMA EnteredOnce ==
    ASSUME NEW observations, NEW k \in Nat, NEW t, WellEntered(t, observations, k),
           Proper(states, edges)
    PROVE  WellEntered(Enter(t, observations[k + 1]), observations, k + 1)
<1>1. CASE t.verdict # "valid"
  <2>1. Enter(t, observations[k + 1]) = t  BY <1>1 DEF Enter
  <2>. QED  BY <1>1, <2>1, EnteredNoMore
<1>2. CASE t.verdict = "valid"
  <2>. DEFINE o    == observations[k + 1]
              key  == KeyOf(t, o)
              more == With(t.states, key)
              id   == Ordinal(more, key)
              u    == Enter(t, o)
  <2>4. /\ t.position = k /\ \A h \in 1..k : Fit(observations, h)
        /\ k = 0 => t.prior = 0
        /\ k # 0 => t.prior \in DOMAIN t.states /\ t.states[t.prior] = Form(observations, k)
    BY <1>2 DEF WellEntered, VerdictGiven
  <2>5. /\ key # Unusable <=> Fit(observations, k + 1)
        /\ key # Unusable => key = Form(observations, k + 1)
    BY <2>4, KeyIsForm
  <2>6. /\ IsTables(u)
        /\ \/ key = Unusable /\ u.verdict = "invalid" /\ u.states = t.states /\ u.edges = t.edges
           \/ /\ key # Unusable /\ u.verdict = "uncovered" /\ u.states \in {t.states, more}
              /\ u.edges = t.edges /\ u.bytes > coverage_limit
           \/ /\ key # Unusable /\ u.verdict = "valid" /\ u.states = more
              /\ u.prior = id /\ u.position = t.position + 1
              /\ u.edges = IF t.prior = 0 THEN t.edges ELSE Linked(t.edges, t.prior, id)
    <3>1. IsTables(t)  BY DEF WellEntered
    <3>. QED  BY <1>2, <3>1, EnterCases
  <2>7. /\ IsRows(t.states) /\ IsInjective(t.states) /\ Proper(t.states, t.edges)
        /\ Links(t.edges, DOMAIN t.states)
    BY DEF WellEntered, Proper
  <2>8. /\ IsRows(more) /\ IsInjective(more) /\ ToSet(more) = ToSet(t.states) \cup {key}
        /\ \A i \in DOMAIN t.states : i \in DOMAIN more /\ more[i] = t.states[i]
        /\ id \in DOMAIN more /\ more[id] = key
        /\ \A i \in DOMAIN more : i \in Nat /\ i # 0
    BY <2>7, Listed DEF Listing
  <2>9. /\ ToSet(t.states) = ToSet(states) \cup Forms(observations, k)
        /\ \A i \in DOMAIN states : i \in DOMAIN t.states /\ t.states[i] = states[i]
    BY <1>2 DEF WellEntered, StatesEntered
  <2>3. \A f, g \in DOMAIN more :
           /\ Times(t.edges, f, g)
                = Times(edges, f, g) + Cardinality(Hops(observations, k, more[f], more[g]))
           /\ Times(edges, f, g) \in Nat /\ Times(t.edges, f, g) \in Nat
    BY <1>2, CountedSoFar
  <2>. HIDE DEF key, more, id, u
  <2>10. k + 1 \in 1..(k + 1) /\ \A h : h \in 1..(k + 1) <=> h \in 1..k \/ h = k + 1  OBVIOUS
  <2>11. CASE key = Unusable
    <3>1. /\ u.verdict = "invalid" /\ u.states = t.states /\ u.edges = t.edges
          /\ \E h \in 1..(k + 1) : ~Fit(observations, h)
      BY <2>5, <2>6, <2>10, <2>11
    <3>2. Proper(u.states, u.edges)  BY <2>7, <3>1
    <3>3. VerdictGiven(u, observations, k + 1)  BY <3>1 DEF VerdictGiven
    <3>4. Forms(observations, k + 1) = Forms(observations, k)  BY <3>1, FormsGrow
    <3>5. StatesEntered(u, observations, k + 1)  BY <2>9, <3>1, <3>4 DEF StatesEntered
    <3>6. \A from, to : Hops(observations, k + 1, from, to) = Hops(observations, k, from, to)
      BY <3>1, HopsGrow
    <3>7. EdgesEntered(u, observations, k + 1)
      BY <1>2, <3>1, <3>6 DEF WellEntered, EdgesEntered
    <3>. QED  BY <2>6, <3>2, <3>3, <3>5, <3>7 DEF WellEntered, u
  <2>12. CASE key # Unusable
    <3>1. /\ \A h \in 1..(k + 1) : Fit(observations, h)
          /\ key = Form(observations, k + 1)
      BY <2>4, <2>5, <2>10, <2>12
    <3>2. Forms(observations, k + 1) = Forms(observations, k) \cup {key}  BY <3>1, FormsGrow
    <3>3. ASSUME NEW f \in DOMAIN more, NEW g \in DOMAIN more
          PROVE  /\ Times(edges, f, g)
                      + Cardinality(Hops(observations, k + 1, more[f], more[g]))
                      = Times(t.edges, f, g) + (IF k # 0 /\ f = t.prior /\ g = id THEN 1 ELSE 0)
                 /\ Times(t.edges, f, g) \in Nat
      <4>1. /\ Times(t.edges, f, g)
                 = Times(edges, f, g) + Cardinality(Hops(observations, k, more[f], more[g]))
            /\ Times(edges, f, g) \in Nat /\ Times(t.edges, f, g) \in Nat
        BY <2>3
      <4>2. /\ Cardinality(Hops(observations, k, more[f], more[g])) \in Nat
            /\ Cardinality(Hops(observations, k + 1, more[f], more[g]))
                 = Cardinality(Hops(observations, k, more[f], more[g]))
                    + (IF k # 0 /\ Form(observations, k) = more[f] /\ key = more[g] THEN 1 ELSE 0)
        BY <3>1, HopsGrow
      <4>3. key = more[g] <=> g = id  BY <2>8 DEF IsInjective
      <4>4. k # 0 => (Form(observations, k) = more[f] <=> f = t.prior)
        BY <2>4, <2>8 DEF IsInjective
      <4>5. PICK a, b, x, y :
              /\ a = Cardinality(Hops(observations, k, more[f], more[g]))
              /\ b = Cardinality(Hops(observations, k + 1, more[f], more[g]))
              /\ x = Times(edges, f, g) /\ y = Times(t.edges, f, g)
        OBVIOUS
      <4>6. PICK d : d = (IF k # 0 /\ f = t.prior /\ g = id THEN 1 ELSE 0)  OBVIOUS
      <4>7. b = a + d  BY <4>2, <4>3, <4>4, <4>5, <4>6
      <4>8. y = x + a /\ x \in Nat /\ y \in Nat /\ a \in Nat /\ d \in Nat
        BY <4>1, <4>2, <4>5, <4>6
      <4>9. x + b = y + d  BY <4>7, <4>8
      <4>. QED  BY <4>5, <4>6, <4>8, <4>9
    <3>4. ASSUME u.verdict = "uncovered", u.states \in {t.states, more}, u.edges = t.edges,
                 u.bytes > coverage_limit
          PROVE  WellEntered(u, observations, k + 1)
      <4>1. /\ IsRows(u.states) /\ IsInjective(u.states)
            /\ \A i \in DOMAIN t.states : i \in DOMAIN u.states /\ u.states[i] = t.states[i]
            /\ \A i \in DOMAIN u.states : i \in DOMAIN more /\ u.states[i] = more[i]
            /\ ToSet(u.states) \subseteq ToSet(t.states) \cup {key}
        BY <2>7, <2>8, <3>4
      <4>2. Proper(u.states, u.edges)  BY <2>7, <3>4, <4>1 DEF Proper, Links
      <4>3. VerdictGiven(u, observations, k + 1)  BY <3>4 DEF VerdictGiven
      <4>4. StatesEntered(u, observations, k + 1)
        BY <2>9, <3>2, <3>4, <4>1 DEF StatesEntered
      <4>5. EdgesEntered(u, observations, k + 1)
        <5>. SUFFICES ASSUME NEW f \in DOMAIN u.states, NEW g \in DOMAIN u.states
                      PROVE  Times(u.edges, f, g)
                               <= Times(edges, f, g)
                                  + Cardinality(Hops(observations, k + 1, u.states[f], u.states[g]))
          BY <3>4 DEF EdgesEntered
        <5>1. f \in DOMAIN more /\ g \in DOMAIN more /\ u.states[f] = more[f] /\ u.states[g] = more[g]
          BY <4>1
        <5>. QED  BY <3>3, <3>4, <5>1
      <4>. QED  BY <2>6, <4>2, <4>3, <4>4, <4>5 DEF WellEntered
    <3>5. ASSUME u.verdict = "valid", u.states = more, u.prior = id, u.position = t.position + 1,
                 u.edges = IF t.prior = 0 THEN t.edges ELSE Linked(t.edges, t.prior, id)
          PROVE  WellEntered(u, observations, k + 1)
      <4>1. Links(t.edges, DOMAIN more)  BY <2>7, <2>8 DEF Links
      <4>2. t.prior = 0 <=> k = 0
        <5>1. k # 0 => t.prior \in DOMAIN more  BY <2>4, <2>8
        <5>. QED  BY <2>4, <2>8, <5>1
      <4>3. /\ Links(u.edges, DOMAIN more)
            /\ \A f, g \in DOMAIN more :
                  Times(u.edges, f, g)
                    = Times(t.edges, f, g) + (IF k # 0 /\ f = t.prior /\ g = id THEN 1 ELSE 0)
        <5>1. CASE k = 0
          <6>1. u.edges = t.edges  BY <3>5, <4>2, <5>1
          <6>2. \A f, g \in DOMAIN more : Times(t.edges, f, g) \in Nat  BY <3>3
          <6>. QED  BY <4>1, <5>1, <6>1, <6>2
        <5>2. CASE k # 0
          <6>1. u.edges = Linked(t.edges, t.prior, id)  BY <3>5, <4>2, <5>2
          <6>2. t.prior \in DOMAIN more /\ id \in DOMAIN more  BY <2>4, <2>8, <5>2
          <6>3. /\ Links(Linked(t.edges, t.prior, id), DOMAIN more)
                /\ \A f, g \in DOMAIN more :
                      Times(Linked(t.edges, t.prior, id), f, g)
                        = Times(t.edges, f, g) + (IF f = t.prior /\ g = id THEN 1 ELSE 0)
            <7>1. PICK bag, D, p : bag = t.edges /\ D = DOMAIN more /\ p = t.prior  OBVIOUS
            <7>2. Links(bag, D) /\ p \in D /\ id \in D  BY <4>1, <6>2, <7>1
            <7>3. /\ Links(Linked(bag, p, id), D)
                  /\ \A f, g \in D : Times(Linked(bag, p, id), f, g)
                                       = Times(bag, f, g) + (IF f = p /\ g = id THEN 1 ELSE 0)
              BY <7>2, Charged
            <7>. QED  BY <7>1, <7>3
          <6>. QED  BY <5>2, <6>1, <6>3
        <5>. QED  BY <5>1, <5>2
      <4>4. Proper(u.states, u.edges)  BY <2>8, <3>5, <4>3 DEF Proper
      <4>5. VerdictGiven(u, observations, k + 1)
        <5>1. k + 1 # 0  OBVIOUS
        <5>. QED  BY <2>4, <2>8, <3>1, <3>5, <5>1 DEF VerdictGiven
      <4>6. StatesEntered(u, observations, k + 1)
        BY <2>8, <2>9, <3>2, <3>5 DEF StatesEntered
      <4>7. EdgesEntered(u, observations, k + 1)
        <5>. SUFFICES ASSUME NEW f \in DOMAIN u.states, NEW g \in DOMAIN u.states
                      PROVE  LET made == Times(edges, f, g)
                                    + Cardinality(Hops(observations, k + 1, u.states[f], u.states[g]))
                             IN  Times(u.edges, f, g) = made /\ Times(u.edges, f, g) <= made
          BY DEF EdgesEntered
        <5>1. f \in DOMAIN more /\ g \in DOMAIN more /\ u.states = more  BY <3>5
        <5>2. PICK a, b, d : /\ a = Times(t.edges, f, g) /\ b = Times(u.edges, f, g)
                             /\ d = (IF k # 0 /\ f = t.prior /\ g = id THEN 1 ELSE 0)
          OBVIOUS
        <5>3. /\ Times(edges, f, g) + Cardinality(Hops(observations, k + 1, u.states[f], u.states[g]))
                   = a + d
              /\ a \in Nat /\ b = a + d /\ d \in Nat
          BY <3>3, <4>3, <5>1, <5>2
        <5>4. b <= a + d  BY <5>3
        <5>. QED  BY <5>2, <5>3, <5>4
      <4>. QED  BY <2>6, <4>4, <4>5, <4>6, <4>7 DEF WellEntered
    <3>. QED  BY <2>6, <2>12, <3>4, <3>5 DEF u
  <2>. QED  BY <2>11, <2>12
<1>. QED  BY <1>1, <1>2

\* The tables after the first n observations.
LEMMA EnteredWell ==
    ASSUME NEW observations, NEW n \in Nat, Proper(states, edges)
    PROVE  WellEntered(Entered(observations, n), observations, n)
<1>. DEFINE F == CHOOSE f : Entering(f, observations, n)
            S == {k \in Nat : k <= n => WellEntered(F[k], observations, k)}
<1>1. Entering(F, observations, n)  BY EnteringExists
<1>2. Entered(observations, n) = F[n]  BY DEF Entered, Entering
<1>. HIDE DEF F
<1>3. \A k \in 0..n : F[k] = IF k = 0 THEN Tables ELSE Enter(F[k - 1], observations[k])
  BY <1>1 DEF Entering
<1>4. 0 \in S
  <2>1. PICK t : t = Tables  OBVIOUS
  <2>2. F[0] = t  BY <1>3, <2>1
  <2>3. /\ t.states = states /\ t.edges = edges /\ t.prior = 0 /\ t.position = 0
        /\ t.verdict = "valid" /\ IsTables(t)
    BY <2>1 DEF Tables, Before, IsTables
  <2>4. 1..0 = {}  OBVIOUS
  <2>5. VerdictGiven(t, observations, 0)  BY <2>3, <2>4 DEF VerdictGiven
  <2>6. Counting(observations, 0) = {}  BY <2>4 DEF Counting
  <2>7. StatesEntered(t, observations, 0)  BY <2>3, <2>6 DEF StatesEntered, Forms
  <2>8. EdgesEntered(t, observations, 0)
    <3>1. \A from, to : Cardinality(Hops(observations, 0, from, to)) = 0
      BY <2>6, FS_EmptySet DEF Hops
    <3>2. \A f, g : Times(edges, f, g) \in Nat  BY DEF Proper, Links, Times, BagIn, BagToSet
    <3>. QED  BY <2>3, <3>1, <3>2 DEF EdgesEntered
  <2>9. WellEntered(t, observations, 0)  BY <2>3, <2>5, <2>7, <2>8 DEF WellEntered
  <2>. QED  BY <2>2, <2>9
<1>5. ASSUME NEW k \in Nat, k \in S PROVE k + 1 \in S
  <2>. SUFFICES ASSUME k + 1 <= n PROVE WellEntered(F[k + 1], observations, k + 1)  OBVIOUS
  <2>1. WellEntered(F[k], observations, k) /\ k + 1 \in 0..n /\ k + 1 # 0 /\ (k + 1) - 1 = k
    BY <1>5
  <2>2. F[k + 1] = Enter(F[k], observations[k + 1])  BY <1>3, <2>1
  <2>3. PICK t : t = F[k]  OBVIOUS
  <2>4. WellEntered(t, observations, k)  BY <2>1, <2>3
  <2>5. WellEntered(Enter(t, observations[k + 1]), observations, k + 1)  BY <2>4, EnteredOnce
  <2>. QED  BY <2>2, <2>3, <2>5
<1>. HIDE DEF S
<1>6. n \in S  BY <1>4, <1>5, Induction
<1>. QED  BY <1>2, <1>6 DEF S

(***************************************************************************)
(* What the tables say of the runs.                                        *)
(***************************************************************************)
\* The forms observed in some rows, and where they went from one to another.
KeysIn(rows) == {CanonicalOf(s) : s \in UNION {{StateAt(row, i) : i \in Used(row)} : row \in ToSet(rows)}}

HopsOf(row, from, to) ==
    {i \in Used(row) : /\ i > 1 /\ CanonicalOf(StateAt(row, i - 1)) = from
                       /\ CanonicalOf(StateAt(row, i)) = to}

HopsIn(rows, from, to) == UNION {{n} \X HopsOf(rows[n], from, to) : n \in DOMAIN rows}

Whole == stop_reason \notin {"coverage_limit", "evidence_limit"}

Tabled(rows, table, bag, whole) ==
    /\ IsInjective(table)
    /\ ToSet(table) \subseteq KeysIn(rows) /\ (whole => KeysIn(rows) = ToSet(table))
    /\ \A f, g \in DOMAIN table :
          LET made == Cardinality(HopsIn(rows, table[f], table[g]))
          IN  Times(bag, f, g) <= made /\ (whole => Times(bag, f, g) = made)

\* This is what the invariant of the model says.
LEMMA TablesAreTabled == TablesAreObserved <=> Tabled(runs, states, edges, Whole)
<1>1. KeysIn(runs) = {CanonicalOf(s) : s \in UsedStates}  BY DEF KeysIn, UsedStates
<1>2. \A from, to : Passages(from, to) = HopsIn(runs, from, to)  BY DEF Passages, HopsIn, HopsOf
<1>3. \A f, g : Counted(f, g) = Times(edges, f, g)  BY DEF Counted, Times
<1>. QED  BY <1>1, <1>2, <1>3 DEF TablesAreObserved, Tabled, Whole

\* In the same space a row says the same.
LEMMA RowsKeep ==
    ASSUME space' = space, NEW row
    PROVE  /\ RunPassed(row)' <=> RunPassed(row)
           /\ Used(row)' = Used(row) /\ \A i : StateAt(row, i)' = StateAt(row, i)
<1>1. RunPassed(row)' <=> RunPassed(row)  BY DEF RunPassed
<1>2. \A i : Usable(row, i)' <=> Usable(row, i)  BY DEF Usable, OfBase
<1>3. Used(row)' = Used(row)  BY <1>1, <1>2 DEF Used
<1>4. \A i : StateAt(row, i)' = StateAt(row, i)  BY DEF StateAt, OfBase
<1>. QED  BY <1>1, <1>3, <1>4

\* And what it says of the next state.
LEMMA TablesAreTabledNext ==
    ASSUME space' = space
    PROVE  TablesAreObserved' <=> Tabled(runs', states', edges', Whole')
<1>1. KeysIn(runs') = {CanonicalOf(s) : s \in UsedStates'}
  BY RowsKeep DEF KeysIn, UsedStates
<1>2. \A from, to : Passages(from, to)' = HopsIn(runs', from, to)
  BY RowsKeep DEF Passages, HopsIn, HopsOf
<1>3. \A f, g : Counted(f, g)' = Times(edges', f, g)  BY DEF Counted, Times
<1>. QED  BY <1>1, <1>2, <1>3 DEF TablesAreObserved, Tabled, Whole

\* Finitely many finite parts.
Parted(part) == UNION {{i} \X part[i] : i \in DOMAIN part}

\* There are finitely many of them.
LEMMA PartsAreFinite ==
    ASSUME NEW part, IsFiniteSet(DOMAIN part), \A i \in DOMAIN part : IsFiniteSet(part[i])
    PROVE  IsFiniteSet(Parted(part))
<1>. DEFINE D == DOMAIN part
            f == [i \in D |-> {i} \X part[i]]
            Parts == {{i} \X part[i] : i \in D}
<1>1. f \in Surjection(D, Parts)
  <2>1. f \in [D -> Parts]  OBVIOUS
  <2>2. \A p \in Parts : \E i \in D : f[i] = p  OBVIOUS
  <2>. HIDE DEF f, Parts, D
  <2>. QED  BY <2>1, <2>2 DEF Surjection
<1>2. IsFiniteSet(Parts)
  <2>. HIDE DEF f, Parts
  <2>. QED  BY <1>1, FS_Surjection
<1>3. \A p \in Parts : IsFiniteSet(p)
  <2>. SUFFICES ASSUME NEW i \in D PROVE IsFiniteSet({i} \X part[i])  OBVIOUS
  <2>. QED  BY FS_Singleton, FS_Product
<1>4. Parted(part) = UNION Parts  BY DEF Parted
<1>. HIDE DEF Parts
<1>. QED  BY <1>2, <1>3, <1>4, FS_UNION

\* What is used of a row is what counts of a run that passed.
LEMMA UsedAreCounted ==
    ASSUME NEW row, Len(row.shape) \in Nat
    PROVE  /\ ~RunPassed(row) => Used(row) = {}
           /\ RunPassed(row) =>
                 Used(row) = Counting(row.sample.observations, Len(row.shape) + 1)
           /\ \A i : StateAt(row, i) = OfBase(row.sample.observations[i])
           /\ IsFiniteSet(Used(row)) /\ \A i \in Used(row) : i > 1 => i - 1 \in Used(row)
<1>. DEFINE d == row.sample.observations
            n == Len(row.shape) + 1
<1>1. \A i : Usable(row, i) <=> Fit(d, i)  BY DEF Usable, Fit
<1>2. ~RunPassed(row) => Used(row) = {}  BY DEF Used
<1>3. ASSUME RunPassed(row) PROVE Used(row) = Counting(d, n)
  <2>1. DOMAIN d = 1..n  BY <1>3 DEF RunPassed
  <2>. HIDE DEF d, n
  <2>2. Used(row) = {i \in 1..n : \A k \in 1..i : Fit(d, k)}  BY <1>1, <1>3, <2>1 DEF Used, d
  <2>. QED  BY <2>2 DEF Counting
<1>4. n \in Nat  OBVIOUS
<1>. HIDE DEF d, n
<1>5. IsFiniteSet(Counting(d, n))  BY <1>4, CountingGrows
<1>6. IsFiniteSet(Used(row))  BY <1>2, <1>3, <1>5, FS_EmptySet
<1>7. ASSUME NEW i \in Used(row), i > 1 PROVE i - 1 \in Used(row)
  <2>1. i \in 1..n /\ \A h \in 1..i : Fit(d, h)  BY <1>2, <1>3, <1>7 DEF Counting
  <2>2. i - 1 \in 1..n /\ \A h \in 1..(i - 1) : h \in 1..i  BY <1>4, <1>7, <2>1
  <2>3. i - 1 \in Counting(d, n)  BY <2>1, <2>2 DEF Counting
  <2>. QED  BY <1>2, <1>3, <1>7, <2>3
<1>. QED  BY <1>2, <1>3, <1>6, <1>7 DEF d, n, StateAt

\* What one more row adds.
LEMMA KeysAppended ==
    ASSUME NEW rows, IsRows(rows), NEW row
    PROVE  KeysIn(Append(rows, row))
              = KeysIn(rows) \cup {CanonicalOf(StateAt(row, i)) : i \in Used(row)}
<1>. DEFINE N == Len(rows)
            more == Append(rows, row)
<1>1. /\ N \in Nat /\ DOMAIN rows = 1..N /\ DOMAIN more = 1..(N + 1)
      /\ more[N + 1] = row /\ \A n \in DOMAIN rows : more[n] = rows[n]
  BY RowAppended
<1>. HIDE DEF N, more
<1>2. \A n : n \in DOMAIN more <=> n \in DOMAIN rows \/ n = N + 1  BY <1>1
<1>3. \A r : r \in ToSet(more) <=> r \in ToSet(rows) \/ r = row  BY <1>1, <1>2 DEF ToSet
<1>4. \A rs : \A k : k \in KeysIn(rs)
                <=> \E r \in ToSet(rs) : \E i \in Used(r) : k = CanonicalOf(StateAt(r, i))
  BY DEF KeysIn
<1>5. \A k : k \in KeysIn(more)
               <=> k \in KeysIn(rows) \/ \E i \in Used(row) : k = CanonicalOf(StateAt(row, i))
  BY <1>3, <1>4
<1>. QED  BY <1>5 DEF more

\* A row adds its own passages.
LEMMA HopsAppended ==
    ASSUME NEW rows, IsRows(rows), \A n \in DOMAIN rows : Len(rows[n].shape) \in Nat,
           NEW row, Len(row.shape) \in Nat, NEW from, NEW to
    PROVE  /\ Cardinality(HopsIn(rows, from, to)) \in Nat
           /\ Cardinality(HopsOf(row, from, to)) \in Nat
           /\ Cardinality(HopsIn(Append(rows, row), from, to))
                = Cardinality(HopsIn(rows, from, to)) + Cardinality(HopsOf(row, from, to))
           /\ HopsIn(rows, from, to) # {} => from \in KeysIn(rows) /\ to \in KeysIn(rows)
<1>. DEFINE N == Len(rows)
            more == Append(rows, row)
            A == HopsIn(rows, from, to)
            H == HopsOf(row, from, to)
            B == {N + 1} \X H
            C == HopsIn(more, from, to)
<1>1. /\ N \in Nat /\ DOMAIN rows = 1..N /\ DOMAIN more = 1..(N + 1)
      /\ more[N + 1] = row /\ \A n \in DOMAIN rows : more[n] = rows[n]
  BY RowAppended
<1>2. \A r : Len(r.shape) \in Nat => IsFiniteSet(HopsOf(r, from, to))
  <2>0. \A r : Len(r.shape) \in Nat => IsFiniteSet(Used(r))  BY UsedAreCounted
  <2>1. \A r : HopsOf(r, from, to) \subseteq Used(r)  BY DEF HopsOf
  <2>. QED  BY <2>0, <2>1, FS_Subset
<1>3. IsFiniteSet(A)
  <2>. DEFINE part == [n \in DOMAIN rows |-> HopsOf(rows[n], from, to)]
  <2>1. A = Parted(part)  BY DEF HopsIn, Parted
  <2>2. DOMAIN part = 1..N /\ \A n \in DOMAIN part : IsFiniteSet(part[n])  BY <1>1, <1>2
  <2>. HIDE DEF part, N
  <2>3. IsFiniteSet(DOMAIN part)  BY <1>1, <2>2, FS_Interval
  <2>. QED  BY <2>1, <2>2, <2>3, PartsAreFinite
<1>4. IsFiniteSet(H) /\ Cardinality(H) \in Nat  BY <1>2, FS_CardinalityType
<1>. HIDE DEF N, more, H
<1>5. IsFiniteSet(B) /\ Cardinality(B) = Cardinality(H)
  <2>1. IsFiniteSet({N + 1}) /\ Cardinality({N + 1}) = 1  BY FS_Singleton
  <2>2. IsFiniteSet(B) /\ Cardinality(B) = 1 * Cardinality(H)  BY <1>4, <2>1, FS_Product
  <2>. QED  BY <1>4, <2>2
<1>6. \A y : y \in A <=> \E n \in DOMAIN rows : \E i \in HopsOf(rows[n], from, to) : y = <<n, i>>
  BY DEF HopsIn
<1>7. \A y : y \in C <=> \E n \in DOMAIN more : \E i \in HopsOf(more[n], from, to) : y = <<n, i>>
  BY DEF HopsIn
<1>8. \A y : y \in B <=> \E i \in H : y = <<N + 1, i>>  OBVIOUS
<1>9. \A n : n \in DOMAIN more <=> n \in DOMAIN rows \/ n = N + 1  BY <1>1
<1>10. N + 1 \notin DOMAIN rows  BY <1>1
<1>. HIDE DEF A, B, C
<1>11. \A y : y \in C <=> y \in A \/ y \in B  BY <1>1, <1>6, <1>7, <1>8, <1>9 DEF H
<1>12. C = A \cup B  BY <1>11
<1>13. A \cap B = {}
  <2>. SUFFICES ASSUME NEW y \in A, y \in B PROVE FALSE  OBVIOUS
  <2>1. PICK n \in DOMAIN rows : \E i : y = <<n, i>>  BY <1>6
  <2>2. PICK i : y = <<N + 1, i>>  BY <1>8
  <2>3. n = N + 1  BY <2>1, <2>2
  <2>. QED  BY <1>10, <2>3
<1>14. Cardinality(C) = Cardinality(A) + Cardinality(H)
  <2>1. Cardinality(C) = Cardinality(A) + Cardinality(B) - Cardinality({})
    BY <1>3, <1>5, <1>12, <1>13, FS_Union
  <2>2. Cardinality({}) = 0 /\ Cardinality(A) \in Nat  BY <1>3, FS_EmptySet, FS_CardinalityType
  <2>. QED  BY <1>4, <1>5, <2>1, <2>2
<1>15. ASSUME A # {} PROVE from \in KeysIn(rows) /\ to \in KeysIn(rows)
  <2>1. PICK n \in DOMAIN rows : \E i : i \in HopsOf(rows[n], from, to)  BY <1>6, <1>15
  <2>2. PICK i \in Used(rows[n]) : /\ i > 1 /\ CanonicalOf(StateAt(rows[n], i - 1)) = from
                                   /\ CanonicalOf(StateAt(rows[n], i)) = to
    BY <2>1 DEF HopsOf
  <2>3. i - 1 \in Used(rows[n])
    <3>1. Len(rows[n].shape) \in Nat  OBVIOUS
    <3>. QED  BY <2>2, <3>1, UsedAreCounted
  <2>4. rows[n] \in ToSet(rows)  BY DEF ToSet
  <2>. QED  BY <2>2, <2>3, <2>4 DEF KeysIn
<1>16. Cardinality(A) \in Nat  BY <1>3, FS_CardinalityType
<1>. QED  BY <1>4, <1>14, <1>15, <1>16 DEF A, C, H, more

\* Tables with what a row adds, or less of it where they are bounded.
KeysOf(row) == {CanonicalOf(StateAt(row, i)) : i \in Used(row)}

Entries(t, row) ==
    /\ Proper(t.states, t.edges)
    /\ \A i \in DOMAIN states : i \in DOMAIN t.states /\ t.states[i] = states[i]
    /\ ToSet(t.states) \subseteq ToSet(states) \cup KeysOf(row)
    /\ t.verdict # "uncovered" => ToSet(t.states) = ToSet(states) \cup KeysOf(row)
    /\ t.verdict = "uncovered" => t.bytes > coverage_limit
    /\ \A f, g \in DOMAIN t.states :
          LET made == Times(edges, f, g) + Cardinality(HopsOf(row, t.states[f], t.states[g]))
          IN  /\ Times(t.edges, f, g) <= made
              /\ t.verdict # "uncovered" => Times(t.edges, f, g) = made

\* A run seems to have passed exactly when its row says so.
LEMMA PassedAsJudged ==
    ASSUME NEW s, NEW row, row.sample = s, row.shape = Shape(Attempted)
    PROVE  Judgement(s) = "passed" /\ Succeeded(s) <=> RunPassed(row)
<1>1. Judged(s) = "passed" <=> /\ s.cleanup = "confirmed" /\ s.passed
                               /\ s.comparison \notin {"step_mismatch", "incomplete"}
  <2>1. CASE s.cleanup # "confirmed"  BY <2>1 DEF Judged
  <2>2. CASE s.cleanup = "confirmed" /\ s.comparison = "step_mismatch"  BY <2>2 DEF Judged
  <2>3. CASE s.cleanup = "confirmed" /\ s.comparison = "incomplete"  BY <2>3 DEF Judged
  <2>4. CASE s.cleanup = "confirmed" /\ s.comparison \notin {"step_mismatch", "incomplete"}
    <3>1. Judged(s) = IF s.passed THEN "passed" ELSE "execution_failed"  BY <2>4 DEF Judged
    <3>. QED  BY <2>4, <3>1
  <2>. QED  BY <2>1, <2>2, <2>3, <2>4
<1>2. Judgement(s) = "passed"
        <=> /\ s.returned /\ s.bound /\ s.comparison # "foreign"
            /\ ~(space.comparison /\ s.comparison = "none") /\ Judged(s) = "passed"
  BY DEF Judgement, Failure
<1>3. Succeeded(s) <=> s.ordered /\ DOMAIN s.observations = 1..(Len(row.shape) + 1)
  BY DEF Succeeded
<1>. QED  BY <1>1, <1>2, <1>3 DEF RunPassed

\* The evidence of a run is what its row says.
LEMMA EvidenceIsEntered ==
    ASSUME Proper(states, edges), NEW s, NEW row, row.sample = s, row.shape = Shape(Attempted),
           Len(row.shape) \in Nat
    PROVE  /\ Entries(Evidence(s), row)
           /\ Category(s) = "passed" =>
                 RunPassed(row) /\ \A i \in DOMAIN s.observations : s.observations[i].after = i - 1
<1>. DEFINE d == s.observations
            n == Len(row.shape) + 1
<1>1. n \in Nat /\ n # 0 /\ n = Len(Shape(Attempted)) + 1  OBVIOUS
<1>2. CASE RunPassed(row)
  <2>1. Evidence(s) = Entered(d, n)
    BY <1>2, PassedAsJudged DEF Evidence
  <2>2. DOMAIN d = 1..n  BY <1>2 DEF RunPassed
  <2>3. Used(row) = Counting(d, n) /\ \A i : StateAt(row, i) = OfBase(d[i])
    BY <1>2, UsedAreCounted
  <2>. HIDE DEF d, n
  <2>4. PICK t : t = Evidence(s)  OBVIOUS
  <2>5. WellEntered(t, d, n)  BY <1>1, <2>1, <2>4, EnteredWell
  <2>6. KeysOf(row) = Forms(d, n)  BY <2>3 DEF KeysOf, Forms, Form
  <2>7. \A from, to : HopsOf(row, from, to) = Hops(d, n, from, to)
    BY <2>3 DEF HopsOf, Hops, Form
  <2>8. Entries(t, row)
    <3>1. Proper(t.states, t.edges)  BY <2>5 DEF WellEntered
    <3>2. StatesEntered(t, d, n) /\ EdgesEntered(t, d, n)  BY <2>5 DEF WellEntered
    <3>3. t.verdict = "uncovered" => t.bytes > coverage_limit
      BY <2>5 DEF WellEntered, VerdictGiven
    <3>. QED  BY <2>6, <2>7, <3>1, <3>2, <3>3 DEF Entries, StatesEntered, EdgesEntered
  <2>9. ASSUME Category(s) = "passed", NEW i \in DOMAIN d PROVE d[i].after = i - 1
    <3>1. t.verdict = "valid"  BY <2>4, <2>9 DEF Category, Failure
    <3>2. Fit(d, i)  BY <2>2, <2>5, <2>9, <3>1 DEF WellEntered, VerdictGiven
    <3>. QED  BY <3>2 DEF Fit
  <2>. QED  BY <1>2, <2>4, <2>8, <2>9 DEF d
<1>3. CASE ~RunPassed(row)
  <2>1. Evidence(s) = [Tables EXCEPT !.verdict = "invalid"]  BY <1>3, PassedAsJudged DEF Evidence
  <2>2. /\ Evidence(s).states = states /\ Evidence(s).edges = edges
        /\ Evidence(s).verdict = "invalid"
    BY <2>1 DEF Tables
  <2>3. Used(row) = {}  BY <1>3, UsedAreCounted
  <2>4. KeysOf(row) = {} /\ \A from, to : Cardinality(HopsOf(row, from, to)) = 0
    BY <2>3, FS_EmptySet DEF KeysOf, HopsOf
  <2>5. \A f, g : Times(edges, f, g) \in Nat  BY DEF Proper, Links, Times, BagIn, BagToSet
  <2>6. Entries(Evidence(s), row)  BY <2>2, <2>4, <2>5 DEF Entries
  <2>7. Category(s) # "passed"  BY <2>2 DEF Category, Failure
  <2>. QED  BY <2>6, <2>7
<1>. QED  BY <1>2, <1>3

\* The tables stay true with one more row.
LEMMA TabledAppended ==
    ASSUME IsRows(runs), \A n \in DOMAIN runs : Len(runs[n].shape) \in Nat,
           Proper(states, edges), NEW whole \in BOOLEAN, Tabled(runs, states, edges, whole),
           NEW row, Len(row.shape) \in Nat, NEW t, Entries(t, row),
           NEW still \in BOOLEAN, still => whole /\ t.verdict # "uncovered"
    PROVE  Tabled(Append(runs, row), t.states, t.edges, still)
<1>. DEFINE more == Append(runs, row)
<1>1. KeysIn(more) = KeysIn(runs) \cup KeysOf(row)  BY KeysAppended DEF KeysOf
<1>2. ToSet(states) \subseteq KeysIn(runs) /\ (whole => KeysIn(runs) = ToSet(states))
  BY DEF Tabled
<1>3. /\ ToSet(t.states) \subseteq ToSet(states) \cup KeysOf(row)
      /\ still => ToSet(t.states) = ToSet(states) \cup KeysOf(row)
  BY DEF Entries
<1>4. /\ ToSet(t.states) \subseteq KeysIn(more)
      /\ still => KeysIn(more) = ToSet(t.states)
  BY <1>1, <1>2, <1>3
<1>5. IsInjective(t.states)  BY DEF Entries, Proper
<1>. HIDE DEF more
<1>6. ASSUME NEW f \in DOMAIN t.states, NEW g \in DOMAIN t.states
      PROVE  LET made == Cardinality(HopsIn(more, t.states[f], t.states[g]))
             IN  Times(t.edges, f, g) <= made /\ (still => Times(t.edges, f, g) = made)
  <2>1. PICK from, to : from = t.states[f] /\ to = t.states[g]  OBVIOUS
  <2>2. /\ Cardinality(HopsIn(runs, from, to)) \in Nat /\ Cardinality(HopsOf(row, from, to)) \in Nat
        /\ Cardinality(HopsIn(more, from, to))
             = Cardinality(HopsIn(runs, from, to)) + Cardinality(HopsOf(row, from, to))
        /\ HopsIn(runs, from, to) # {} => from \in KeysIn(runs) /\ to \in KeysIn(runs)
    BY HopsAppended DEF more
  <2>3. PICK a, b, c, x, y :
          /\ a = Cardinality(HopsIn(runs, from, to)) /\ b = Cardinality(HopsOf(row, from, to))
          /\ c = Cardinality(HopsIn(more, from, to))
          /\ x = Times(edges, f, g) /\ y = Times(t.edges, f, g)
    OBVIOUS
  <2>4. a \in Nat /\ b \in Nat /\ c = a + b  BY <2>2, <2>3
  <2>5. x \in Nat /\ y \in Nat
    BY <2>3 DEF Entries, Proper, Links, Times, BagIn, BagToSet
  <2>6. y <= x + b /\ (still => y = x + b)  BY <2>1, <2>3 DEF Entries
  <2>7. x <= a /\ (still => x = a)
    <3>1. CASE f \in DOMAIN states /\ g \in DOMAIN states
      <4>1. from = states[f] /\ to = states[g]  BY <2>1, <3>1 DEF Entries
      <4>2. /\ Times(edges, f, g) <= Cardinality(HopsIn(runs, states[f], states[g]))
            /\ whole => Times(edges, f, g) = Cardinality(HopsIn(runs, states[f], states[g]))
        BY <3>1 DEF Tabled
      <4>3. x <= a /\ (whole => x = a)  BY <2>3, <4>1, <4>2
      <4>. QED  BY <4>3
    <3>2. CASE ~(f \in DOMAIN states /\ g \in DOMAIN states)
      <4>1. x = 0
        <5>1. <<f, g>> \notin DOMAIN edges  BY <3>2 DEF Proper, Links
        <5>. QED  BY <2>3, <5>1 DEF Times, BagIn, BagToSet
      <4>2. from \notin ToSet(states) \/ to \notin ToSet(states)
        <5>1. \A h \in DOMAIN t.states : t.states[h] \in ToSet(states) => h \in DOMAIN states
          BY <1>5 DEF Entries, ToSet, IsInjective
        <5>. QED  BY <2>1, <3>2, <5>1
      <4>3. ASSUME still PROVE a = 0
        <5>1. HopsIn(runs, from, to) = {}  BY <1>2, <2>2, <4>2, <4>3
        <5>. QED  BY <2>3, <5>1, FS_EmptySet
      <4>. QED  BY <2>4, <4>1, <4>3
    <3>. QED  BY <3>1, <3>2
  <2>8. y <= c /\ (still => y = c)  BY <2>4, <2>5, <2>6, <2>7
  <2>. QED  BY <2>1, <2>3, <2>8
<1>. QED  BY <1>4, <1>5, <1>6 DEF Tabled, more

(***************************************************************************)
(* The inductive invariant.                                                *)
(***************************************************************************)
TypeOK ==
    /\ phase \in {"enumerating", "between", "running", "done"}
    /\ halt \in BOOLEAN /\ exhausted \in BOOLEAN
    /\ report = [complete |-> report.complete, eligible |-> report.eligible]
    /\ report.complete \in BOOLEAN
    /\ IsRows(runs) /\ campaign \in Nat /\ space \in Spaces

\* An exploration that has not begun has found and run nothing.
NothingBefore ==
    phase = "enumerating" => runs = <<>> /\ ~halt /\ ~exhausted /\ stop_reason = ""

Started == phase \in {"between", "running"}

\* Only a valid declaration is explored; what cuts the exploration says so, and only
\* the end calls it complete.
CutsAreNamed ==
    /\ Started => ValidDeclaration(space)
    /\ phase = "running" => ~halt
    /\ phase # "done" => ~report.complete /\ stop_reason \notin {"complete", "non_pass_runs"}
    /\ Started /\ halt => stop_reason # ""
    /\ Started /\ ~halt => (stop_reason = "" <=> exhausted)

\* Runs follow the shapes, input by input.
CasesInOrder ==
    \A n \in DOMAIN runs : runs[n].shape = Shape(n - 1) /\ runs[n].input = Input(n - 1)

PassedRowsAreSound == \A n \in DOMAIN runs : runs[n].category = "passed" => RunPassed(runs[n])

\* While another run may begin, every execution so far is known to be clean.
CleanSoFar ==
    Started /\ ~halt => \A n \in DOMAIN runs : KnownToBeClean(runs[n].sample)

CompleteIsEarned ==
    report.complete => EveryCaseRan /\ EveryRunPassed /\ ValidDeclaration(space)

ExplorationInductive ==
    /\ NothingBefore /\ CutsAreNamed /\ CasesInOrder /\ PassedRowsAreSound /\ CleanSoFar
    /\ TotalIsTrue /\ CompleteIsEarned /\ VerdictIsSaid

Inv == TypeOK /\ ExplorationInductive

(***************************************************************************)
(* What passed, and what was run.                                          *)
(***************************************************************************)
\* A sample that counts as passed is one of a run that passed.
LEMMA PassedIsSound ==
    ASSUME NEW s, NEW row, row.sample = s, row.shape = Shape(Attempted), Category(s) = "passed"
    PROVE  RunPassed(row)
<1>1. Judgement(s) = "passed" /\ Evidence(s).verdict = "valid"
  BY DEF Category, Failure
<1>2. Succeeded(s)
  <2>1. [Tables EXCEPT !.verdict = "invalid"].verdict = "invalid"  BY DEF Tables
  <2>. QED  BY <1>1, <2>1 DEF Evidence
<1>. QED  BY <1>1, <1>2, PassedAsJudged

(***************************************************************************)
(* One lemma per action.                                                   *)
(***************************************************************************)
\* An exploration begins with nothing.
LEMMA InitEstablishes == Init => TypeOK /\ ExplorationInductive
<1>. SUFFICES ASSUME Init PROVE TypeOK /\ ExplorationInductive  OBVIOUS
<1>1. TypeOK  BY NoRows DEF Init, TypeOK, Unreported
<1>2. DOMAIN runs = {}  BY NoRows DEF Init
<1>. USE DEF Init
<1>3. NothingBefore /\ CutsAreNamed /\ CasesInOrder /\ PassedRowsAreSound /\ CleanSoFar
  BY <1>2 DEF NothingBefore, CutsAreNamed, Started, CasesInOrder, PassedRowsAreSound, CleanSoFar,
              Unreported
<1>4. TotalIsTrue /\ CompleteIsEarned /\ VerdictIsSaid
  BY DEF TotalIsTrue, CompleteIsEarned, VerdictIsSaid, Unreported
<1>. QED  BY <1>1, <1>3, <1>4 DEF ExplorationInductive

\* So does another one.
LEMMA AgainPreserves ==
    ASSUME TypeOK, ExplorationInductive, Again
    PROVE  TypeOK' /\ ExplorationInductive'
<1>1. /\ campaign' = campaign + 1 /\ space' = space /\ runs' = <<>> /\ phase' = "enumerating"
      /\ halt' = FALSE /\ exhausted' = FALSE /\ stop_reason' = ""
      /\ report' = [complete |-> FALSE, eligible |-> -1]
  BY DEF Again, declared, Unreported
<1>2. TypeOK'
  <2>1. campaign \in Nat /\ space \in Spaces  BY DEF TypeOK
  <2>2. campaign' = campaign + 1 /\ space' = space  BY <1>1
  <2>3. campaign' \in Nat /\ space' \in Spaces  BY <2>1, <2>2
  <2>. QED  BY <1>1, <2>3, NoRows DEF TypeOK
<1>3. DOMAIN runs' = {}  BY <1>1, NoRows
<1>4. NothingBefore' /\ CutsAreNamed' /\ CasesInOrder' /\ PassedRowsAreSound' /\ CleanSoFar'
  BY <1>1, <1>3
     DEF NothingBefore, CutsAreNamed, Started, CasesInOrder, PassedRowsAreSound, CleanSoFar
<1>5. TotalIsTrue' /\ CompleteIsEarned' /\ VerdictIsSaid'
  BY <1>1 DEF TotalIsTrue, CompleteIsEarned, VerdictIsSaid
<1>. QED  BY <1>2, <1>4, <1>5 DEF ExplorationInductive

\* A refused declaration is not complete.
LEMMA RefuseDeclarationPreserves ==
    ASSUME TypeOK, ExplorationInductive, RefuseDeclaration
    PROVE  TypeOK' /\ ExplorationInductive'
<1>. USE DEF RefuseDeclaration, declared, enumerated, ledger
<1>1. TypeOK'  BY DEF TypeOK
<1>2. ~report.complete /\ ~report'.complete
  BY DEF ExplorationInductive, CutsAreNamed
<1>3. NothingBefore' /\ CutsAreNamed' /\ CleanSoFar'
  BY DEF ExplorationInductive, NothingBefore, CutsAreNamed, Started, CleanSoFar
<1>4. CasesInOrder' /\ PassedRowsAreSound'
  BY DEF ExplorationInductive, NothingBefore, CasesInOrder, PassedRowsAreSound, Shape, Input, RunPassed
<1>5. TotalIsTrue'
  BY DEF ExplorationInductive, TotalIsTrue, Eligible
<1>6. CompleteIsEarned' /\ VerdictIsSaid'
  BY <1>2 DEF CompleteIsEarned, VerdictIsSaid
<1>. QED  BY <1>1, <1>3, <1>4, <1>5, <1>6 DEF ExplorationInductive

\* The enumeration is whole or says what cut it.
LEMMA EnumeratePreserves ==
    ASSUME TypeOK, ExplorationInductive, Enumerate
    PROVE  TypeOK' /\ ExplorationInductive'
<1>. USE DEF Enumerate, declared, clock, ledger
<1>. DEFINE all == Merges(Chains(space), space.preemptions)
<1>. HIDE DEF all
<1>1. PICK e \in Enumerations(all) \cup Cuts(all) :
        /\ shapes' = e.shapes /\ exhausted' = e.exhausted /\ stop_reason' = e.reason
        /\ report' = [report EXCEPT !.eligible = IF e.exhausted
                                         THEN Len(e.shapes) * Len(space.inputs) ELSE -1]
  BY DEF all
<1>2. /\ e.exhausted \in BOOLEAN /\ e.reason \notin {"complete", "non_pass_runs"}
      /\ e.reason = "" <=> e.exhausted
  <2>1. CASE e \in Enumerations(all)
    <3>1. \/ e = [shapes |-> SubSeq(all, 1, cap), exhausted |-> FALSE,
                 reason |-> "enumeration_limit"]
          \/ e = [shapes |-> all, exhausted |-> TRUE, reason |-> ""]
      BY <2>1 DEF Enumerations
    <3>2. CASE e = [shapes |-> SubSeq(all, 1, cap), exhausted |-> FALSE,
                    reason |-> "enumeration_limit"]
      <4>1. e.exhausted = FALSE  BY <3>2
      <4>2. e.reason = "enumeration_limit"  BY <3>2
      <4>. QED  BY <4>1, <4>2
    <3>3. CASE e = [shapes |-> all, exhausted |-> TRUE, reason |-> ""]
      <4>1. e.exhausted = TRUE  BY <3>3
      <4>2. e.reason = ""  BY <3>3
      <4>. QED  BY <4>1, <4>2
    <3>. QED  BY <3>1, <3>2, <3>3
  <2>2. CASE e \in Cuts(all)
    <3>1. e.exhausted = FALSE /\ e.reason = Interruption  BY <2>2 DEF Cuts
    <3>. QED  BY <3>1 DEF Interruption
  <2>. QED  BY <2>1, <2>2
<1>3. phase' = "between" /\ ValidDeclaration(space) /\ runs' = runs /\ halt' = halt
      /\ UNCHANGED <<space, cap, campaign>>
  OBVIOUS
<1>4. report' = [complete |-> report.complete,
                 eligible |-> IF e.exhausted THEN Len(e.shapes) * Len(space.inputs) ELSE -1]
  BY <1>1 DEF TypeOK
<1>5. TypeOK'
  BY <1>1, <1>2, <1>3, <1>4 DEF TypeOK
<1>6. DOMAIN runs = {} /\ ~halt /\ ~report.complete
  BY NoRows DEF ExplorationInductive, NothingBefore, CutsAreNamed
<1>7. NothingBefore' /\ CleanSoFar' /\ CasesInOrder' /\ PassedRowsAreSound'
  BY <1>3, <1>6 DEF NothingBefore, CleanSoFar, CasesInOrder, PassedRowsAreSound
<1>8. CutsAreNamed'
  <2>1. ValidDeclaration(space)'  BY <1>3 DEF ValidDeclaration
  <2>2. /\ stop_reason' \notin {"complete", "non_pass_runs"}
        /\ stop_reason' = "" <=> exhausted'
    BY <1>1, <1>2
  <2>3. ~report'.complete /\ ~halt'  BY <1>3, <1>4, <1>6
  <2>. QED  BY <1>3, <2>1, <2>2, <2>3 DEF CutsAreNamed, Started
<1>9. TotalIsTrue' /\ CompleteIsEarned' /\ VerdictIsSaid'
  BY <1>1, <1>2, <1>3, <1>4, <1>6 DEF TotalIsTrue, Eligible, CompleteIsEarned, VerdictIsSaid
<1>. QED  BY <1>5, <1>7, <1>8, <1>9 DEF ExplorationInductive

\* The clock, and a run that begins, change nothing that is reported.
LEMMA ClockPreserves ==
    ASSUME TypeOK, ExplorationInductive, Interrupt \/ BeginRun
    PROVE  TypeOK' /\ ExplorationInductive'
<1>. USE DEF declared, enumerated, ledger, verdict, coverage
<1>1. /\ UNCHANGED <<space, cap, shapes, exhausted, runs, halt, stop_reason, report, campaign>>
      /\ \/ phase' = phase
         \/ phase = "between" /\ ~halt /\ phase' = "running"
  BY DEF Interrupt, BeginRun
<1>2. TypeOK'  BY <1>1 DEF TypeOK
<1>3. NothingBefore' /\ CleanSoFar'
  BY <1>1 DEF ExplorationInductive, NothingBefore, CleanSoFar, Started
<1>4. CutsAreNamed'
  BY <1>1 DEF ExplorationInductive, CutsAreNamed, Started, ValidDeclaration
<1>5. CasesInOrder' /\ PassedRowsAreSound' /\ TotalIsTrue'
  BY <1>1 DEF ExplorationInductive, CasesInOrder, PassedRowsAreSound, Shape, Input, RunPassed,
              TotalIsTrue, Eligible
<1>6. CompleteIsEarned'
  BY <1>1 DEF ExplorationInductive, CompleteIsEarned, EveryCaseRan, EveryRunPassed, RunPassed,
              Shape, Input, Eligible, ValidDeclaration
<1>7. VerdictIsSaid'
  BY <1>1 DEF ExplorationInductive, VerdictIsSaid, Attempted
<1>. QED  BY <1>2, <1>3, <1>4, <1>5, <1>6, <1>7 DEF ExplorationInductive

\* What stops an exploration between two runs is named.
LEMMA StopBeforeRunPreserves ==
    ASSUME TypeOK, ExplorationInductive, StopBeforeRun
    PROVE  TypeOK' /\ ExplorationInductive'
<1>. USE DEF declared, enumerated, ledger, coverage
<1>1. /\ UNCHANGED <<space, cap, shapes, exhausted, runs, report, campaign>>
      /\ phase = "between" /\ phase' = "between" /\ ~halt /\ halt' = TRUE
      /\ stop_reason' \in {"cancelled", "time_budget", "run_limit"}
  BY DEF StopBeforeRun, HaltFor, Interruption
<1>2. TypeOK'  BY <1>1 DEF TypeOK
<1>3. NothingBefore' /\ CleanSoFar'
  BY <1>1 DEF NothingBefore, CleanSoFar
<1>4. CutsAreNamed'
  BY <1>1 DEF ExplorationInductive, CutsAreNamed, Started, ValidDeclaration
<1>5. CasesInOrder' /\ PassedRowsAreSound' /\ TotalIsTrue'
  BY <1>1 DEF ExplorationInductive, CasesInOrder, PassedRowsAreSound, Shape, Input, RunPassed,
              TotalIsTrue, Eligible
<1>6. CompleteIsEarned' /\ VerdictIsSaid'
  BY <1>1 DEF ExplorationInductive, CutsAreNamed, CompleteIsEarned, VerdictIsSaid
<1>. QED  BY <1>2, <1>3, <1>4, <1>5, <1>6 DEF ExplorationInductive

\* A run leaves a row that says what it was, and what it gave; the exploration goes
\* on only after a run that is known to be clean.
LEMMA EndRunPreserves ==
    ASSUME TypeOK, ExplorationInductive, EndRun
    PROVE  TypeOK' /\ ExplorationInductive'
<1>1. PICK s, bytes :
        /\ Record(s)
        /\ LET overflow == evidence_bytes + bytes > evidence_limit IN
           IF overflow THEN HaltFor("evidence_limit")
           ELSE IF Evidence(s).verdict = "uncovered" THEN HaltFor("coverage_limit")
           ELSE IF ~KnownClean(s) THEN HaltFor("unconfirmed_cleanup")
           ELSE IF late THEN HaltFor("time_budget")
           ELSE phase' = "between" /\ UNCHANGED <<halt, stop_reason>>
  BY DEF EndRun
<1>. DEFINE row == [shape |-> Shape(Attempted), input |-> Input(Attempted),
                    category |-> Category(s), sample |-> s]
<1>2. runs' = Append(runs, row)  BY <1>1 DEF Record
<1>3. /\ phase = "running" /\ phase' = "between"
      /\ UNCHANGED <<space, cap, shapes, exhausted, report, campaign>>
  BY <1>1 DEF EndRun, HaltFor, declared, enumerated
<1>4. \/ /\ halt' = TRUE
         /\ stop_reason' \in {"evidence_limit", "coverage_limit", "unconfirmed_cleanup",
                             "time_budget"}
      \/ UNCHANGED <<halt, stop_reason>> /\ KnownToBeClean(s)
  BY <1>1 DEF HaltFor, KnownClean, KnownToBeClean
<1>5. /\ row.shape = Shape(Attempted) /\ row.input = Input(Attempted)
      /\ row.category = Category(s) /\ row.sample = s
  OBVIOUS
<1>6. row.category = "passed" => RunPassed(row)
  BY <1>5, PassedIsSound
<1>. HIDE DEF row
<1>7. /\ IsRows(runs') /\ Len(runs) \in Nat
      /\ DOMAIN runs = 1..Len(runs) /\ DOMAIN runs' = 1..(Len(runs) + 1)
      /\ runs'[Len(runs) + 1] = row /\ \A n \in DOMAIN runs : runs'[n] = runs[n]
  <2>1. IsRows(runs)  BY DEF TypeOK
  <2>2. /\ IsRows(Append(runs, row)) /\ Len(runs) \in Nat
        /\ DOMAIN runs = 1..Len(runs) /\ DOMAIN Append(runs, row) = 1..(Len(runs) + 1)
        /\ Append(runs, row)[Len(runs) + 1] = row
        /\ \A n \in DOMAIN runs : Append(runs, row)[n] = runs[n]
    BY <2>1, RowAppended
  <2>. QED  BY <1>2, <2>2
<1>8. \A n \in DOMAIN runs' :
         \/ n \in DOMAIN runs /\ runs'[n] = runs[n]
         \/ n - 1 = Attempted /\ runs'[n] = row
  <2>. SUFFICES ASSUME NEW n \in DOMAIN runs'
                PROVE  \/ n \in DOMAIN runs /\ runs'[n] = runs[n]
                       \/ n - 1 = Attempted /\ runs'[n] = row
    OBVIOUS
  <2>1. n \in DOMAIN runs \/ n = Len(runs) + 1  BY <1>7
  <2>2. CASE n \in DOMAIN runs  BY <1>7, <2>2
  <2>3. CASE n = Len(runs) + 1
    <3>1. n - 1 = Len(runs)  BY <1>7, <2>3
    <3>. QED  BY <1>7, <2>3, <3>1 DEF Attempted
  <2>. QED  BY <2>1, <2>2, <2>3
<1>9. TypeOK'
  <2>1. halt' \in BOOLEAN  BY <1>4 DEF TypeOK
  <2>. QED  BY <1>3, <1>7, <2>1 DEF TypeOK
<1>10. NothingBefore'  BY <1>3 DEF NothingBefore
<1>11. CutsAreNamed'
  <2>1. ValidDeclaration(space)'
    BY <1>3 DEF ExplorationInductive, CutsAreNamed, Started, ValidDeclaration
  <2>2. /\ ~halt /\ ~report.complete /\ stop_reason \notin {"complete", "non_pass_runs"}
        /\ stop_reason = "" <=> exhausted
    BY <1>3 DEF ExplorationInductive, CutsAreNamed, Started
  <2>3. CASE halt' = TRUE /\ stop_reason' \in {"evidence_limit", "coverage_limit",
                                              "unconfirmed_cleanup", "time_budget"}
    BY <1>3, <2>1, <2>2, <2>3 DEF CutsAreNamed, Started
  <2>4. CASE UNCHANGED <<halt, stop_reason>>
    BY <1>3, <2>1, <2>2, <2>4 DEF CutsAreNamed, Started
  <2>. QED  BY <1>4, <2>3, <2>4
<1>12. CasesInOrder'
  BY <1>3, <1>5, <1>8 DEF ExplorationInductive, CasesInOrder, Shape, Input
<1>13. PassedRowsAreSound'
  BY <1>3, <1>6, <1>8 DEF ExplorationInductive, PassedRowsAreSound, RunPassed
<1>14. CleanSoFar'
  <2>1. \A n \in DOMAIN runs : KnownToBeClean(runs[n].sample)
    BY <1>3 DEF ExplorationInductive, CutsAreNamed, CleanSoFar, Started
  <2>. QED  BY <1>4, <1>5, <1>8, <2>1 DEF CleanSoFar, KnownToBeClean
<1>15. TotalIsTrue'
  BY <1>3 DEF ExplorationInductive, TotalIsTrue, Eligible
<1>16. CompleteIsEarned' /\ VerdictIsSaid'
  BY <1>3 DEF ExplorationInductive, CutsAreNamed, CompleteIsEarned, VerdictIsSaid
<1>. QED  BY <1>9, <1>10, <1>11, <1>12, <1>13, <1>14, <1>15, <1>16 DEF ExplorationInductive

\* As many runs passed as there are: all passed.
LEMMA AllPassed ==
    ASSUME IsRows(runs), Completed = Len(runs)
    PROVE  \A n \in DOMAIN runs : runs[n].category = "passed"
<1>. DEFINE N == Len(runs)
            T == {n \in DOMAIN runs : runs[n].category = "passed"}
<1>1. N \in Nat /\ DOMAIN runs = 1..N  BY DEF IsRows
<1>2. Cardinality(T) = N  BY DEF Completed
<1>. HIDE DEF N
<1>3. IsFiniteSet(1..N) /\ Cardinality(1..N) = N  BY <1>1, FS_Interval
<1>4. T \subseteq 1..N  BY <1>1
<1>. HIDE DEF T
<1>5. 1..N = T  BY <1>2, <1>3, <1>4, FS_Subset
<1>. QED  BY <1>1, <1>5 DEF T

\* And as many as there are, if all passed.
LEMMA Passing ==
    ASSUME IsRows(runs), \A n \in DOMAIN runs : runs[n].category = "passed"
    PROVE  Completed = Len(runs)
<1>. DEFINE N == Len(runs)
<1>1. {n \in DOMAIN runs : runs[n].category = "passed"} = 1..N /\ N \in Nat
  BY DEF IsRows
<1>2. Completed = Cardinality(1..N)  BY <1>1 DEF Completed
<1>. HIDE DEF N
<1>3. Cardinality(1..N) = N  BY <1>1, FS_Interval
<1>. QED  BY <1>2, <1>3 DEF N

\* The end says complete when every case has run and passed, and why not otherwise.
LEMMA ConcludePreserves ==
    ASSUME TypeOK, ExplorationInductive, Conclude
    PROVE  TypeOK' /\ ExplorationInductive'
<1>1. /\ phase = "between" /\ phase' = "done" /\ Over
      /\ UNCHANGED <<space, cap, shapes, exhausted, runs, halt, campaign>>
      /\ report' = [report EXCEPT !.complete = Complete]
      /\ stop_reason' = IF stop_reason # "" THEN stop_reason
                        ELSE IF Complete THEN "complete" ELSE "non_pass_runs"
  BY DEF Conclude, declared, enumerated, ledger
<1>2. Complete \in BOOLEAN  BY DEF Complete
<1>3. report' = [complete |-> Complete, eligible |-> report.eligible]
  BY <1>1 DEF TypeOK
<1>4. report'.complete = Complete /\ report'.eligible = report.eligible  BY <1>3
<1>5. TypeOK'
  BY <1>1, <1>2, <1>3, <1>4 DEF TypeOK
<1>6. NothingBefore' /\ CleanSoFar' /\ CutsAreNamed'
  BY <1>1 DEF NothingBefore, CleanSoFar, CutsAreNamed, Started
<1>7. CasesInOrder' /\ PassedRowsAreSound'
  BY <1>1 DEF ExplorationInductive, CasesInOrder, PassedRowsAreSound, Shape, Input, RunPassed
<1>8. TotalIsTrue'
  BY <1>1, <1>4 DEF ExplorationInductive, TotalIsTrue, Eligible
<1>9. /\ ValidDeclaration(space) /\ stop_reason \notin {"complete", "non_pass_runs"}
      /\ halt => stop_reason # ""
      /\ ~halt => (stop_reason = "" <=> exhausted)
  BY <1>1 DEF ExplorationInductive, CutsAreNamed, Started
<1>10. ASSUME Complete
       PROVE  /\ exhausted /\ Len(runs) = Eligible
              /\ \A n \in DOMAIN runs : runs[n].category = "passed"
  <2>1. exhausted /\ Attempted = Eligible /\ Completed = Eligible  BY <1>10 DEF Complete
  <2>. QED  BY <2>1, AllPassed DEF Attempted, TypeOK
<1>11. CompleteIsEarned'
  <2>. SUFFICES ASSUME Complete
                PROVE  (EveryCaseRan /\ EveryRunPassed /\ ValidDeclaration(space))'
    BY <1>4 DEF CompleteIsEarned
  <2>1. EveryCaseRan /\ EveryRunPassed
    BY <1>10 DEF ExplorationInductive, CasesInOrder, PassedRowsAreSound, EveryCaseRan, EveryRunPassed
  <2>. QED
    BY <1>1, <1>9, <2>1 DEF EveryCaseRan, EveryRunPassed, RunPassed, Shape, Input, Eligible,
                            ValidDeclaration
<1>12. VerdictIsSaid'
  <2>1. CASE stop_reason # ""
    <3>1. ~Complete  BY <1>9, <2>1 DEF Complete
    <3>. QED  BY <1>1, <1>4, <1>9, <2>1, <3>1 DEF VerdictIsSaid
  <2>2. CASE stop_reason = "" /\ Complete
    BY <1>1, <1>4, <2>2 DEF VerdictIsSaid
  <2>3. CASE stop_reason = "" /\ ~Complete
    <3>1. ~halt /\ exhausted /\ Attempted = Eligible  BY <1>1, <1>9, <2>3 DEF Over
    <3>2. Completed # Eligible  BY <2>3, <3>1 DEF Complete
    <3>3. PICK n \in DOMAIN runs : runs[n].category # "passed"
      BY <3>1, <3>2, Passing DEF TypeOK, Attempted
    <3>4. runs[n] \in ToSet(runs)  BY DEF ToSet
    <3>5. report.eligible = Attempted
      BY <3>1 DEF ExplorationInductive, TotalIsTrue
    <3>6. ~report'.complete /\ stop_reason' = "non_pass_runs"  BY <1>1, <1>4, <2>3
    <3>7. /\ Attempted' = report'.eligible
          /\ \E row \in ToSet(runs)' : row.category # "passed"
      BY <1>1, <1>4, <3>3, <3>4, <3>5 DEF Attempted, ToSet
    <3>. QED  BY <3>6, <3>7 DEF VerdictIsSaid
  <2>. QED  BY <2>1, <2>2, <2>3
<1>. QED  BY <1>5, <1>6, <1>7, <1>8, <1>11, <1>12 DEF ExplorationInductive

(***************************************************************************)
(* Cases are pairs.                                                        *)
(***************************************************************************)
\* Every case is counted once, shape by shape.
LEMMA CasesAreCounted ==
    ASSUME NEW M \in Nat \ {0}, NEW L \in Nat
    PROVE  /\ \A n \in 0..(L * M - 1) : n \div M \in 0..(L - 1) /\ n % M \in 0..(M - 1)
           /\ \A i \in 0..(L - 1), j \in 0..(M - 1) :
                 /\ i * M + j \in 0..(L * M - 1)
                 /\ (i * M + j) \div M = i /\ (i * M + j) % M = j
<1>1. ASSUME NEW n \in 0..(L * M - 1)
      PROVE  n \div M \in 0..(L - 1) /\ n % M \in 0..(M - 1)
  <2>1. n \div M \in Nat /\ n % M \in 0..(M - 1)  OBVIOUS
  <2>2. n \div M < L  OBVIOUS
  <2>. QED  BY <2>1, <2>2
<1>2. ASSUME NEW i \in 0..(L - 1), NEW j \in 0..(M - 1)
      PROVE  /\ i * M + j \in 0..(L * M - 1)
             /\ (i * M + j) \div M = i /\ (i * M + j) % M = j
  <2>1. i * M + j < L * M /\ i * M + j \in Nat /\ L * M \in Nat  OBVIOUS
  <2>2. (i * M + j) \div M = i /\ (i * M + j) % M = j  OBVIOUS
  <2>. QED  BY <2>1, <2>2
<1>. QED  BY <1>1, <1>2

\* When every case ran, what ran are the pairs of a merge and an input.
LEMMA PairsRan ==
    ASSUME IsRows(shapes), IsRows(runs), space \in Spaces, ValidDeclaration(space), EveryCaseRan
    PROVE  {<<row.shape, row.input>> : row \in ToSet(runs)} = ToSet(shapes) \X ToSet(space.inputs)
<1>. DEFINE M == Len(space.inputs)
            L == Len(shapes)
<1>1. /\ M \in Nat \ {0} /\ DOMAIN space.inputs = 1..M
      /\ L \in Nat /\ DOMAIN shapes = 1..L
  BY BoundsAssumption, SpacesAssumption DEF ValidDeclaration, IsRows
<1>2. Len(runs) = L * M /\ DOMAIN runs = 1..(L * M)  BY DEF EveryCaseRan, Eligible, IsRows
<1>3. \A n \in DOMAIN runs : /\ runs[n].shape = shapes[((n - 1) \div M) + 1]
                             /\ runs[n].input = space.inputs[((n - 1) % M) + 1]
  BY DEF EveryCaseRan, Shape, Input
<1>. HIDE DEF M, L
<1>4. ASSUME NEW n \in DOMAIN runs
      PROVE  <<runs[n].shape, runs[n].input>> \in ToSet(shapes) \X ToSet(space.inputs)
  <2>. DEFINE k == n - 1
  <2>1. L * M \in Nat /\ k \in 0..(L * M - 1)  BY <1>1, <1>2, <1>4
  <2>. HIDE DEF k
  <2>2. \A c \in 0..(L * M - 1) : c \div M \in 0..(L - 1) /\ c % M \in 0..(M - 1)
    BY <1>1, CasesAreCounted
  <2>3. k \div M \in 0..(L - 1) /\ k % M \in 0..(M - 1)  BY <2>1, <2>2
  <2>4. (n - 1) \div M \in 0..(L - 1) /\ (n - 1) % M \in 0..(M - 1)
    BY <2>3 DEF k
  <2>5. ((n - 1) \div M) + 1 \in DOMAIN shapes /\ ((n - 1) % M) + 1 \in DOMAIN space.inputs
    BY <1>1, <2>4
  <2>. QED  BY <1>3, <2>5 DEF ToSet
<1>5. ASSUME NEW i \in DOMAIN shapes, NEW j \in DOMAIN space.inputs
      PROVE  \E n \in DOMAIN runs : <<shapes[i], space.inputs[j]>> = <<runs[n].shape, runs[n].input>>
  <2>1. i - 1 \in 0..(L - 1) /\ j - 1 \in 0..(M - 1)  BY <1>1, <1>5
  <2>2. PICK a \in 0..(L - 1), b \in 0..(M - 1) : a = i - 1 /\ b = j - 1  BY <2>1
  <2>. DEFINE k == a * M + b
  <2>3. k \in 0..(L * M - 1) /\ k \div M = a /\ k % M = b
    BY <1>1, CasesAreCounted
  <2>4. k \in 0..(L * M - 1) /\ k \div M = i - 1 /\ k % M = j - 1
    BY <2>2, <2>3
  <2>5. L * M \in Nat  BY <1>1
  <2>. HIDE DEF k
  <2>6. k + 1 \in DOMAIN runs /\ (k + 1) - 1 = k /\ (i - 1) + 1 = i /\ (j - 1) + 1 = j
    <3>1. k + 1 \in 1..(L * M) /\ (k + 1) - 1 = k  BY <2>4, <2>5
    <3>2. (i - 1) + 1 = i /\ (j - 1) + 1 = j  BY <1>1, <1>5
    <3>. QED  BY <1>2, <3>1, <3>2
  <2>7. runs[k + 1].shape = shapes[i] /\ runs[k + 1].input = space.inputs[j]
    BY <1>3, <2>4, <2>6
  <2>. QED  BY <2>6, <2>7
<1>6. ToSet(runs) = {runs[n] : n \in DOMAIN runs} /\ ToSet(shapes) = {shapes[n] : n \in DOMAIN shapes}
      /\ ToSet(space.inputs) = {space.inputs[n] : n \in DOMAIN space.inputs}
  BY DEF ToSet
<1>7. \A row \in ToSet(runs) :
        <<row.shape, row.input>> \in ToSet(shapes) \X ToSet(space.inputs)
  BY <1>4, <1>6
<1>8. \A pair \in ToSet(shapes) \X ToSet(space.inputs) :
        \E row \in ToSet(runs) : pair = <<row.shape, row.input>>
  BY <1>5, <1>6
<1>. QED  BY <1>7, <1>8

(***************************************************************************)
(* The theorems.                                                           *)
(***************************************************************************)
\* Every step keeps the invariant.
LEMMA NextPreserves ==
    ASSUME TypeOK, ExplorationInductive, [Next]_vars
    PROVE  TypeOK' /\ ExplorationInductive'
<1>1. CASE RefuseDeclaration  BY <1>1, RefuseDeclarationPreserves
<1>2. CASE Enumerate          BY <1>2, EnumeratePreserves
<1>3. CASE StopBeforeRun      BY <1>3, StopBeforeRunPreserves
<1>4. CASE BeginRun           BY <1>4, ClockPreserves
<1>5. CASE EndRun             BY <1>5, EndRunPreserves
<1>6. CASE Conclude           BY <1>6, ConcludePreserves
<1>7. CASE Interrupt          BY <1>7, ClockPreserves
<1>8. CASE Again              BY <1>8, AgainPreserves
<1>9. CASE UNCHANGED vars
  <2>1. UNCHANGED <<space, cap, phase, shapes, exhausted, runs, halt, stop_reason, report, campaign>>
    BY <1>9 DEF vars, declared, enumerated, ledger, verdict
  <2>2. TypeOK'  BY <2>1 DEF TypeOK
  <2>3. NothingBefore' /\ CleanSoFar' /\ CasesInOrder' /\ PassedRowsAreSound' /\ TotalIsTrue'
    BY <2>1 DEF ExplorationInductive, NothingBefore, CleanSoFar, Started, CasesInOrder,
                PassedRowsAreSound, Shape, Input, RunPassed, TotalIsTrue, Eligible
  <2>4. CutsAreNamed'
    BY <2>1 DEF ExplorationInductive, CutsAreNamed, Started, ValidDeclaration
  <2>5. CompleteIsEarned'
    BY <2>1 DEF ExplorationInductive, CompleteIsEarned, EveryCaseRan, EveryRunPassed, RunPassed,
                Shape, Input, Eligible, ValidDeclaration
  <2>6. VerdictIsSaid'
    BY <2>1 DEF ExplorationInductive, VerdictIsSaid, Attempted
  <2>. QED  BY <2>2, <2>3, <2>4, <2>5, <2>6 DEF ExplorationInductive
<1>. QED  BY <1>1, <1>2, <1>3, <1>4, <1>5, <1>6, <1>7, <1>8, <1>9 DEF Next, Explore

\* The rows, the report and the reason agree at every step of explore_finite.
THEOREM ExplorationInvariantHolds == Spec => [](TypeOK /\ ExplorationInductive)
<1>1. Init => TypeOK /\ ExplorationInductive  BY InitEstablishes
<1>2. TypeOK /\ ExplorationInductive /\ [Next]_vars => (TypeOK /\ ExplorationInductive)'
  BY NextPreserves
<1>. QED  BY <1>1, <1>2, PTL DEF Spec

\* Where no cleanup of the very execution that was submitted is known, nothing more is
\* started, and a local runner that owns workers starts nothing at all.
THEOREM UnknownCleanupStopsAll == Spec => UnknownCleanupStops
<1>. DEFINE Stops ==
        /\ campaign' = campaign /\ (\E row \in ToSet(runs) : ~KnownToBeClean(row.sample))
              => runs' = runs
        /\ phase = "running" /\ owned = "incomplete" =>
              /\ owned' = owned
              /\ \A row \in ToSet(runs') \ ToSet(runs) : ~row.sample.returned
<1>1. ASSUME TypeOK, ExplorationInductive, [Next]_vars
      PROVE  [Stops]_vars
  <2>1. CASE EndRun
    <3>1. phase = "running"  BY <2>1 DEF EndRun
    <3>2. \A row \in ToSet(runs) : KnownToBeClean(row.sample)
      <4>1. \A n \in DOMAIN runs : KnownToBeClean(runs[n].sample)
        BY <1>1, <3>1 DEF ExplorationInductive, CutsAreNamed, CleanSoFar, Started
      <4>. QED  BY <4>1 DEF ToSet
    <3>3. ASSUME owned = "incomplete"
          PROVE  owned' = owned /\ \A row \in ToSet(runs') \ ToSet(runs) : ~row.sample.returned
      <4>1. PICK s \in {Refusal} :
              Record(s) /\ owned' = IF s.cleanup = "none" THEN owned ELSE s.cleanup
        BY <2>1, <3>3 DEF EndRun, Acquires
      <4>2. s.cleanup = "none" /\ ~s.returned  BY <4>1 DEF Refusal
      <4>3. PICK row : runs' = Append(runs, row) /\ row.sample = s  BY <4>1 DEF Record
      <4>4. /\ DOMAIN runs = 1..Len(runs) /\ DOMAIN Append(runs, row) = 1..(Len(runs) + 1)
            /\ Append(runs, row)[Len(runs) + 1] = row
            /\ \A n \in DOMAIN runs : Append(runs, row)[n] = runs[n]
            /\ Len(runs) \in Nat
        <5>1. IsRows(runs)  BY <1>1 DEF TypeOK
        <5>. QED  BY <5>1, RowAppended
      <4>5. \A n \in DOMAIN runs' : n \in DOMAIN runs \/ n = Len(runs) + 1  BY <4>3, <4>4
      <4>6. \A other \in ToSet(runs') \ ToSet(runs) : other = row
        BY <4>3, <4>4, <4>5 DEF ToSet
      <4>. QED  BY <4>1, <4>2, <4>3, <4>6
    <3>. QED  BY <3>2, <3>3
  <2>2. CASE Again
    <3>1. campaign' = campaign + 1 /\ phase = "done"  BY <2>2 DEF Again
    <3>2. campaign \in Nat  BY <1>1 DEF TypeOK
    <3>. QED  BY <3>1, <3>2
  <2>3. CASE RefuseDeclaration \/ Enumerate \/ StopBeforeRun \/ BeginRun \/ Conclude \/ Interrupt
    <3>1. runs' = runs /\ owned' = owned
      BY <2>3 DEF RefuseDeclaration, Enumerate, StopBeforeRun, BeginRun, Conclude, Interrupt, ledger
    <3>. QED  BY <3>1
  <2>. QED  BY <1>1, <2>1, <2>2, <2>3 DEF Next, Explore
<1>. QED  BY <1>1, ExplorationInvariantHolds, PTL DEF Spec, UnknownCleanupStops

(***************************************************************************)
(* What is enumerated, and what is tabulated.                              *)
(***************************************************************************)
\* The shapes are lists of steps, and there is a case to run while one runs.
Enumerated ==
    /\ cap \in Caps /\ IsRows(shapes) /\ \A i \in DOMAIN shapes : Len(shapes[i]) \in Nat
    /\ \A n \in DOMAIN runs : Len(runs[n].shape) \in Nat
    /\ phase = "running" => Attempted < Eligible

InPlace(row) == \A i \in DOMAIN row.sample.observations : row.sample.observations[i].after = i - 1

\* A run that passed has its observations in place, as all have when the report says
\* complete.
ObservationsInPlace ==
    /\ \A n \in DOMAIN runs : runs[n].category = "passed" => InPlace(runs[n])
    /\ report.complete => \A n \in DOMAIN runs : InPlace(runs[n])

\* The tables are what was observed, and whole while another run may begin.
TablesAreTrue ==
    Proper(states, edges) /\ TablesAreObserved /\ (Started /\ ~halt => Whole)

EvidenceInductive == Enumerated /\ ShapesAreMerges /\ ObservationsInPlace /\ TablesAreTrue

\* Nothing is what was observed of no runs.
LEMMA NothingObserved ==
    ASSUME NEW whole \in BOOLEAN
    PROVE  Proper(<<>>, EmptyBag) /\ Tabled(<<>>, <<>>, EmptyBag, whole)
<1>1. DOMAIN EmptyBag = {}  BY DEF EmptyBag, SetToBag
<1>2. Proper(<<>>, EmptyBag)  BY <1>1, NoRows DEF Proper, Links, IsInjective
<1>3. ToSet(<<>>) = {}  BY NoRows DEF ToSet
<1>4. KeysIn(<<>>) = {}  BY <1>3 DEF KeysIn
<1>. QED  BY <1>2, <1>3, <1>4, NoRows DEF Tabled, IsInjective

\* An exploration begins with nothing.
LEMMA NothingIsEvidence ==
    /\ Init => EvidenceInductive
    /\ Enumerated /\ Again => EvidenceInductive'
<1>1. ToSet(<<>>) = {} /\ IsInjective(<<>>)  BY NoRows DEF ToSet, IsInjective
<1>2. ASSUME Init PROVE EvidenceInductive
  <2>. USE DEF Init
  <2>1. Enumerated  BY <1>2, NoRows DEF Enumerated
  <2>2. ShapesAreMerges  BY <1>1, <1>2 DEF ShapesAreMerges
  <2>3. ObservationsInPlace  BY <1>2, NoRows DEF ObservationsInPlace, Unreported
  <2>4. TablesAreTrue
    <3>1. /\ runs = <<>> /\ states = <<>> /\ edges = EmptyBag
          /\ Whole \in BOOLEAN /\ Whole
      BY <1>2 DEF Whole
    <3>2. TablesAreObserved  BY <3>1, NothingObserved, TablesAreTabled
    <3>3. Proper(states, edges)  BY <3>1, NothingObserved
    <3>. QED  BY <3>1, <3>2, <3>3 DEF TablesAreTrue
  <2>. QED  BY <2>1, <2>2, <2>3, <2>4 DEF EvidenceInductive
<1>3. ASSUME Enumerated, Again PROVE EvidenceInductive'
  <2>. USE DEF Again, declared
  <2>1. Enumerated'  BY <1>3, NoRows DEF Enumerated
  <2>2. ShapesAreMerges'  BY <1>1, <1>3 DEF ShapesAreMerges
  <2>3. ObservationsInPlace'  BY <1>3, NoRows DEF ObservationsInPlace, Unreported
  <2>4. TablesAreTrue'
    <3>1. /\ space' = space /\ runs' = <<>> /\ states' = <<>> /\ edges' = EmptyBag
          /\ Whole' \in BOOLEAN /\ Whole'
      BY <1>3 DEF Whole
    <3>2. TablesAreObserved'  BY <3>1, NothingObserved, TablesAreTabledNext
    <3>3. Proper(states, edges)'  BY <3>1, NothingObserved
    <3>. QED  BY <3>1, <3>2, <3>3 DEF TablesAreTrue
  <2>. QED  BY <2>1, <2>2, <2>3, <2>4 DEF EvidenceInductive
<1>. QED  BY <1>2, <1>3

\* The first of a list.
LEMMA FirstsOfList ==
    ASSUME NEW S, NEW s \in Seq(S), NEW n \in 0..Len(s)
    PROVE  /\ SubSeq(s, 1, n) \in Seq(S) /\ ToSet(SubSeq(s, 1, n)) \subseteq ToSet(s)
           /\ IsInjective(s) => IsInjective(SubSeq(s, 1, n))
<1>. DEFINE t == SubSeq(s, 1, n)
<1>1. /\ t \in Seq(S) /\ DOMAIN t = 1..n /\ DOMAIN s = 1..Len(s)
      /\ \A i \in 1..n : i \in DOMAIN s /\ t[i] = s[i]
  OBVIOUS
<1>. HIDE DEF t
<1>2. ToSet(t) \subseteq ToSet(s)  BY <1>1 DEF ToSet
<1>3. IsInjective(s) => IsInjective(t)  BY <1>1 DEF IsInjective
<1>. QED  BY <1>1, <1>2, <1>3 DEF t

\* What is enumerated are the merges of the reference, or the first of them.
LEMMA EnumerateFinds ==
    ASSUME TypeOK, ExplorationInductive, EvidenceInductive, Enumerate
    PROVE  /\ EvidenceInductive'
           /\ stop_reason' = "enumeration_limit" => ~exhausted' /\ Len(shapes') = cap'
<1>. DEFINE all == Merges(Chains(space), space.preemptions)
            R == Reference(space)
            P == Seq(Steps(space))
<1>1. PICK e \in Enumerations(all) \cup Cuts(all) :
        /\ shapes' = e.shapes /\ exhausted' = e.exhausted /\ stop_reason' = e.reason
        /\ report' = [report EXCEPT !.eligible = IF e.exhausted
                                         THEN Len(e.shapes) * Len(space.inputs) ELSE -1]
  BY DEF Enumerate
<1>2. /\ phase = "enumerating" /\ phase' = "between" /\ ValidDeclaration(space)
      /\ UNCHANGED <<space, cap, runs, states, edges, halt>>
  BY DEF Enumerate, declared, ledger, coverage
<1>3. Lists(all, P, R)
  <2>1. space \in Spaces  BY DEF TypeOK
  <2>. QED  BY <1>2, <2>1, MergesListReference
<1>. HIDE DEF all, R, P
<1>4. all \in Seq(P) /\ IsInjective(all) /\ ToSet(all) = R  BY <1>3 DEF Lists
<1>5. cap \in Nat /\ cap > 0
  BY <1>2, BoundsAssumption DEF EvidenceInductive, Enumerated, ValidDeclaration
<1>6. /\ e.reason \notin {"coverage_limit", "evidence_limit"}
      /\ \/ e.shapes = all
         \/ e.exhausted = FALSE /\ \E n \in 0..Len(all) : e.shapes = SubSeq(all, 1, n)
      /\ e.reason = "enumeration_limit" => e.exhausted = FALSE /\ Len(e.shapes) = cap
  <2>1. Len(all) \in Nat  BY <1>4
  <2>2. CASE e \in Enumerations(all)
    <3>1. \/ /\ Len(all) > cap
             /\ e = [shapes |-> SubSeq(all, 1, cap), exhausted |-> FALSE,
                     reason |-> "enumeration_limit"]
          \/ e = [shapes |-> all, exhausted |-> TRUE, reason |-> ""]
      BY <2>2 DEF Enumerations
    <3>2. CASE /\ Len(all) > cap
               /\ e = [shapes |-> SubSeq(all, 1, cap), exhausted |-> FALSE,
                       reason |-> "enumeration_limit"]
      <4>1. e.shapes = SubSeq(all, 1, cap) /\ e.exhausted = FALSE  BY <3>2
      <4>2. e.reason = "enumeration_limit"  BY <3>2
      <4>3. cap \in 0..Len(all)  BY <1>5, <2>1, <3>2
      <4>4. Len(SubSeq(all, 1, cap)) = cap
        <5>1. \A n \in 0..Len(all) : Len(SubSeq(all, 1, n)) = n  BY <1>4
        <5>. QED  BY <4>3, <5>1
      <4>. QED  BY <4>1, <4>2, <4>3, <4>4
    <3>3. CASE e = [shapes |-> all, exhausted |-> TRUE, reason |-> ""]
      <4>1. e.shapes = all  BY <3>3
      <4>2. e.reason = ""  BY <3>3
      <4>. QED  BY <4>1, <4>2
    <3>. QED  BY <3>1, <3>2, <3>3
  <2>3. CASE e \in Cuts(all)
    <3>1. PICK n \in {k \in 0..cap : k < Len(all)} :
            e = [shapes |-> SubSeq(all, 1, n), exhausted |-> FALSE, reason |-> Interruption]
      BY <2>3 DEF Cuts
    <3>2. e.shapes = SubSeq(all, 1, n) /\ e.exhausted = FALSE /\ e.reason = Interruption
      BY <3>1
    <3>3. n \in 0..Len(all)  BY <1>5, <2>1, <3>1
    <3>4. e.reason \notin {"coverage_limit", "evidence_limit", "enumeration_limit"}
      BY <3>2 DEF Interruption
    <3>. QED  BY <3>2, <3>3, <3>4
  <2>. QED  BY <2>2, <2>3
<1>7. /\ shapes' \in Seq(P) /\ IsInjective(shapes') /\ ToSet(shapes') \subseteq R
      /\ exhausted' => ToSet(shapes') = R
  <2>1. CASE e.shapes = all  BY <1>1, <1>4, <2>1
  <2>2. CASE e.exhausted = FALSE /\ \E n \in 0..Len(all) : e.shapes = SubSeq(all, 1, n)
    <3>1. PICK n \in 0..Len(all) : e.shapes = SubSeq(all, 1, n)  BY <2>2
    <3>2. /\ SubSeq(all, 1, n) \in Seq(P) /\ ToSet(SubSeq(all, 1, n)) \subseteq ToSet(all)
          /\ IsInjective(SubSeq(all, 1, n))
      BY <1>4, FirstsOfList
    <3>. QED  BY <1>1, <1>4, <2>2, <3>1, <3>2
  <2>. QED  BY <1>6, <2>1, <2>2
<1>8. ShapesAreMerges'  BY <1>2, <1>7 DEF ShapesAreMerges, R
<1>9. runs = <<>> /\ DOMAIN runs = {} /\ stop_reason = "" /\ ~report.complete
  BY <1>2, NoRows DEF ExplorationInductive, NothingBefore, CutsAreNamed
<1>10. Enumerated'
  <2>1. IsRows(shapes')  BY <1>7, SequencesAreRows
  <2>2. \A i \in DOMAIN shapes' : Len(shapes'[i]) \in Nat
    <3>1. \A i \in DOMAIN shapes' : shapes'[i] \in P  BY <1>7
    <3>2. \A p \in P : Len(p) \in Nat  BY DEF P
    <3>. QED  BY <3>1, <3>2
  <2>. QED  BY <1>2, <1>9, <2>1, <2>2 DEF EvidenceInductive, Enumerated
<1>11. ObservationsInPlace'
  <2>1. report'.complete = report.complete  BY <1>1 DEF TypeOK
  <2>. QED  BY <1>2, <1>9, <2>1 DEF ObservationsInPlace
<1>12. TablesAreTrue'
  <2>1. Whole /\ Whole'  BY <1>1, <1>6, <1>9 DEF Whole
  <2>2. Tabled(runs, states, edges, Whole)
    BY TablesAreTabled DEF EvidenceInductive, TablesAreTrue
  <2>3. TablesAreObserved'
    <3>1. space' = space  BY <1>2
    <3>2. Tabled(runs', states', edges', Whole')  BY <1>2, <2>1, <2>2
    <3>. QED  BY <3>1, <3>2, TablesAreTabledNext
  <2>. QED  BY <1>2, <2>1, <2>3 DEF EvidenceInductive, TablesAreTrue
<1>13. stop_reason' = "enumeration_limit" => ~exhausted' /\ Len(shapes') = cap'
  BY <1>1, <1>2, <1>6
<1>. QED  BY <1>8, <1>10, <1>11, <1>12, <1>13 DEF EvidenceInductive

\* Where nothing is found or observed, a table that was whole may be called cut, but
\* not one that was cut be called whole.
LEMMA EvidenceKept ==
    ASSUME EvidenceInductive,
           UNCHANGED <<space, cap, shapes, exhausted, runs, states, edges>>,
           Whole' => Whole, Started' /\ ~halt' => Whole',
           phase' = "running" => Attempted < Eligible,
           report'.complete =>
               report.complete \/ \A n \in DOMAIN runs : runs[n].category = "passed"
    PROVE  EvidenceInductive'
<1>. USE DEF EvidenceInductive
<1>1. Enumerated'
  <2>1. Attempted' = Attempted /\ Eligible' = Eligible  BY DEF Attempted, Eligible
  <2>. QED  BY <2>1 DEF Enumerated
<1>2. ShapesAreMerges'  BY DEF ShapesAreMerges
<1>3. ObservationsInPlace'  BY DEF ObservationsInPlace, InPlace
<1>4. TablesAreTrue'
  <2>1. Tabled(runs, states, edges, Whole)  BY TablesAreTabled DEF TablesAreTrue
  <2>2. Tabled(runs', states', edges', Whole')  BY <2>1 DEF Tabled
  <2>3. TablesAreObserved'  BY <2>2, TablesAreTabledNext
  <2>. QED  BY <2>3 DEF TablesAreTrue
<1>. QED  BY <1>1, <1>2, <1>3, <1>4

\* A run enters what its row says.
LEMMA EndRunEnters ==
    ASSUME TypeOK, ExplorationInductive, EvidenceInductive, EndRun
    PROVE  /\ EvidenceInductive'
           /\ stop_reason' = "coverage_limit" => coverage_bytes' > coverage_limit'
<1>1. PICK s, bytes :
        /\ Record(s)
        /\ LET overflow == evidence_bytes + bytes > evidence_limit IN
           IF overflow THEN HaltFor("evidence_limit")
           ELSE IF Evidence(s).verdict = "uncovered" THEN HaltFor("coverage_limit")
           ELSE IF ~KnownClean(s) THEN HaltFor("unconfirmed_cleanup")
           ELSE IF late THEN HaltFor("time_budget")
           ELSE phase' = "between" /\ UNCHANGED <<halt, stop_reason>>
  BY DEF EndRun
<1>2. /\ phase = "running" /\ phase' = "between"
      /\ UNCHANGED <<space, cap, shapes, exhausted, report>>
  BY <1>1 DEF EndRun, HaltFor, declared, enumerated
<1>3. PICK row : row = [shape |-> Shape(Attempted), input |-> Input(Attempted),
                        category |-> Category(s), sample |-> s]
  OBVIOUS
<1>4. /\ row.shape = Shape(Attempted) /\ row.category = Category(s) /\ row.sample = s
  BY <1>3
<1>5. /\ runs' = Append(runs, row) /\ states' = Evidence(s).states /\ edges' = Evidence(s).edges
  BY <1>1, <1>3 DEF Record
<1>6. /\ IsRows(runs) /\ Len(runs) \in Nat /\ DOMAIN runs = 1..Len(runs)
      /\ DOMAIN runs' = 1..(Len(runs) + 1)
      /\ runs'[Len(runs) + 1] = row /\ \A n \in DOMAIN runs : runs'[n] = runs[n]
  BY <1>5, RowAppended DEF TypeOK
<1>7. Len(row.shape) \in Nat
  <2>. DEFINE M == Len(space.inputs)
              L == Len(shapes)
              k == Attempted
  <2>1. k \in Nat /\ k < L * M
    BY <1>2, <1>6 DEF EvidenceInductive, Enumerated, Attempted, Eligible
  <2>2. L \in Nat /\ DOMAIN shapes = 1..L  BY DEF EvidenceInductive, Enumerated, IsRows
  <2>3. M \in Nat \ {0}
    <3>1. ValidDeclaration(space)
      BY <1>2 DEF ExplorationInductive, CutsAreNamed, Started
    <3>2. Len(space.inputs) \in 1..MaxInputs  BY <3>1 DEF ValidDeclaration
    <3>. QED  BY <3>2, BoundsAssumption
  <2>4. row.shape = shapes[(k \div M) + 1]  BY <1>4 DEF Shape
  <2>. HIDE DEF M, L, k
  <2>5. L * M \in Nat  BY <2>2, <2>3
  <2>6. k \in 0..(L * M - 1)  BY <2>1, <2>5
  <2>7. k \div M \in 0..(L - 1)  BY <2>2, <2>3, <2>6, CasesAreCounted
  <2>8. (k \div M) + 1 \in DOMAIN shapes  BY <2>2, <2>7
  <2>. QED  BY <2>4, <2>8 DEF EvidenceInductive, Enumerated
<1>8. /\ Entries(Evidence(s), row)
      /\ Category(s) = "passed" =>
            RunPassed(row) /\ \A i \in DOMAIN s.observations : s.observations[i].after = i - 1
  BY <1>4, <1>7, EvidenceIsEntered DEF EvidenceInductive, TablesAreTrue
<1>9. \A n : n \in DOMAIN runs' <=> n \in DOMAIN runs \/ n = Len(runs) + 1  BY <1>6
<1>10. ~report.complete /\ ~halt /\ Whole
  BY <1>2 DEF ExplorationInductive, CutsAreNamed, EvidenceInductive, TablesAreTrue, Started
<1>11. Enumerated'
  BY <1>2, <1>6, <1>7, <1>9 DEF EvidenceInductive, Enumerated
<1>12. ShapesAreMerges'  BY <1>2 DEF EvidenceInductive, ShapesAreMerges
<1>13. ObservationsInPlace'
  <2>1. row.category = "passed" => InPlace(row)  BY <1>4, <1>8 DEF InPlace
  <2>2. \A n \in DOMAIN runs : runs[n].category = "passed" => InPlace(runs[n])
    BY DEF EvidenceInductive, ObservationsInPlace
  <2>3. \A n \in DOMAIN runs' : runs'[n].category = "passed" => InPlace(runs'[n])
    BY <1>6, <1>9, <2>1, <2>2
  <2>4. ~report'.complete  BY <1>2, <1>10
  <2>. QED  BY <2>3, <2>4 DEF ObservationsInPlace, InPlace
<1>14. Whole' => Evidence(s).verdict # "uncovered"
  BY <1>1 DEF HaltFor, Whole
<1>15. ~halt' => Whole'  BY <1>1, <1>10 DEF HaltFor, Whole
<1>16. TablesAreTrue'
  <2>1. PICK t, w, v : t = Evidence(s) /\ w = Whole /\ v = Whole'  OBVIOUS
  <2>2. w \in BOOLEAN /\ v \in BOOLEAN /\ (v => w /\ t.verdict # "uncovered")
    BY <1>10, <1>14, <2>1 DEF Whole
  <2>3. Entries(t, row) /\ states' = t.states /\ edges' = t.edges  BY <1>5, <1>8, <2>1
  <2>4. Proper(states, edges) /\ Tabled(runs, states, edges, w)
    BY <2>1, TablesAreTabled DEF EvidenceInductive, TablesAreTrue
  <2>5. \A n \in DOMAIN runs : Len(runs[n].shape) \in Nat
    BY DEF EvidenceInductive, Enumerated
  <2>6. Tabled(Append(runs, row), t.states, t.edges, v)
    BY <1>6, <1>7, <2>2, <2>3, <2>4, <2>5, TabledAppended
  <2>7. Tabled(runs', states', edges', Whole')  BY <1>5, <2>1, <2>3, <2>6
  <2>8. TablesAreObserved'  BY <1>2, <2>7, TablesAreTabledNext
  <2>9. Proper(states', edges')  BY <2>3 DEF Entries
  <2>. QED  BY <1>15, <2>8, <2>9 DEF TablesAreTrue
<1>17. stop_reason' = "coverage_limit" => coverage_bytes' > coverage_limit'
  <2>1. coverage_limit' = coverage_limit  BY DEF EndRun, declared
  <2>2. coverage_bytes' = Evidence(s).bytes  BY <1>1 DEF Record
  <2>3. stop_reason' = "coverage_limit" => Evidence(s).verdict = "uncovered"
    BY <1>1, <1>10 DEF HaltFor, Whole
  <2>. QED  BY <1>8, <2>1, <2>2, <2>3 DEF Entries
<1>. QED  BY <1>11, <1>12, <1>13, <1>16, <1>17 DEF EvidenceInductive

\* Every step keeps it.
LEMMA NextKeepsEvidence ==
    ASSUME TypeOK, ExplorationInductive, EvidenceInductive, [Next]_vars
    PROVE  EvidenceInductive'
<1>. USE DEF declared, enumerated, ledger, coverage, verdict
<1>1. Started /\ ~halt => Whole  BY DEF EvidenceInductive, TablesAreTrue
<1>2. phase = "enumerating" => Whole  BY DEF ExplorationInductive, NothingBefore, Whole
<1>3. phase = "running" => Attempted < Eligible  BY DEF EvidenceInductive, Enumerated
<1>4. CASE RefuseDeclaration
  <2>1. /\ UNCHANGED <<space, cap, shapes, exhausted, runs, states, edges, report>>
        /\ phase = "enumerating" /\ phase' = "done"
    BY <1>4 DEF RefuseDeclaration
  <2>. QED  BY <1>2, <2>1, EvidenceKept DEF Started
<1>5. CASE StopBeforeRun
  <2>1. /\ UNCHANGED <<space, cap, shapes, exhausted, runs, states, edges, report>>
        /\ phase = "between" /\ ~halt /\ phase' = "between" /\ halt' = TRUE
    BY <1>5 DEF StopBeforeRun, HaltFor
  <2>. QED  BY <1>1, <2>1, EvidenceKept DEF Started
<1>6. CASE BeginRun
  <2>1. /\ UNCHANGED <<space, cap, shapes, exhausted, runs, states, edges, report, halt, stop_reason>>
        /\ phase = "between" /\ Attempted < Eligible
    BY <1>6 DEF BeginRun
  <2>2. Whole' <=> Whole  BY <2>1 DEF Whole
  <2>. QED  BY <1>1, <2>1, <2>2, EvidenceKept DEF Started
<1>7. CASE Interrupt \/ UNCHANGED vars
  <2>1. UNCHANGED <<space, cap, shapes, exhausted, runs, states, edges, report, halt, stop_reason,
                    phase>>
    BY <1>7 DEF Interrupt, vars
  <2>2. Whole' <=> Whole  BY <2>1 DEF Whole
  <2>. QED  BY <1>1, <1>3, <2>1, <2>2, EvidenceKept DEF Started
<1>8. CASE Conclude
  <2>1. /\ UNCHANGED <<space, cap, shapes, exhausted, runs, states, edges>>
        /\ phase' = "done" /\ report'.complete = Complete
        /\ stop_reason' = IF stop_reason # "" THEN stop_reason
                          ELSE IF Complete THEN "complete" ELSE "non_pass_runs"
    BY <1>8 DEF Conclude, TypeOK
  <2>2. Whole' => Whole  BY <2>1 DEF Whole
  <2>3. Complete => \A n \in DOMAIN runs : runs[n].category = "passed"
    BY AllPassed DEF Complete, Attempted, TypeOK
  <2>. QED  BY <2>1, <2>2, <2>3, EvidenceKept DEF Started
<1>9. CASE Enumerate  BY <1>9, EnumerateFinds
<1>10. CASE EndRun    BY <1>10, EndRunEnters
<1>11. CASE Again     BY <1>11, NothingIsEvidence DEF EvidenceInductive
<1>. QED  BY <1>4, <1>5, <1>6, <1>7, <1>8, <1>9, <1>10, <1>11 DEF Next, Explore

\* What is enumerated and what is tabulated, at every step of explore_finite.
THEOREM EvidenceInvariantHolds == Spec => []EvidenceInductive
<1>1. Init => EvidenceInductive  BY NothingIsEvidence
<1>2. TypeOK /\ ExplorationInductive /\ EvidenceInductive /\ [Next]_vars => EvidenceInductive'
  BY NextKeepsEvidence
<1>. QED  BY <1>1, <1>2, ExplorationInvariantHolds, PTL DEF Spec

(***************************************************************************)
(* What the reasons name.                                                  *)
(***************************************************************************)
\* A reason once given is met for good; while runs go on it can only be that of the
\* enumeration.
ReasonInductive ==
    /\ stop_reason \in Reasons \cup {""} /\ ReasonIsMet
    /\ phase = "done" => stop_reason # ""
    /\ phase = "enumerating" => stop_reason = ""
    /\ Started /\ ~halt =>
          stop_reason \in {"", "enumeration_limit", "cancelled", "time_budget"}

\* A reason stays met while nothing but the flags changes.
LEMMA ReasonStays ==
    ASSUME ReasonInductive, cancelled => cancelled', late => late',
           UNCHANGED <<space, cap, run_limit, evidence_limit, coverage_limit, shapes, exhausted,
                       runs, evidence_bytes, coverage_bytes, stop_reason>>
    PROVE  ReasonIsMet'
<1>1. Attempted' = Attempted /\ Eligible' = Eligible  BY DEF Attempted, Eligible
<1>2. ValidDeclaration(space)' <=> ValidDeclaration(space)  BY DEF ValidDeclaration
<1>. QED  BY <1>1, <1>2 DEF ReasonInductive, ReasonIsMet, KnownToBeClean

\* Every step keeps it.
LEMMA NextKeepsReason ==
    ASSUME TypeOK, ExplorationInductive, EvidenceInductive, ReasonInductive, [Next]_vars
    PROVE  ReasonInductive'
<1>. USE DEF declared, clock, enumerated, ledger, coverage, verdict
<1>1. CASE RefuseDeclaration
  <2>1. ~ValidDeclaration(space)'  BY <1>1 DEF RefuseDeclaration, ValidDeclaration
  <2>2. stop_reason' = "invalid_declaration" /\ phase' = "done"  BY <1>1 DEF RefuseDeclaration
  <2>3. ReasonIsMet'  BY <2>1, <2>2 DEF ReasonIsMet
  <2>. QED  BY <2>2, <2>3 DEF ReasonInductive, Reasons, Started
<1>2. CASE Enumerate
  <2>1. stop_reason' \in {"", "enumeration_limit", "cancelled", "time_budget"}
        /\ (stop_reason' = "cancelled" => cancelled) /\ (stop_reason' = "time_budget" => late)
    <3>1. PICK e \in Enumerations(Merges(Chains(space), space.preemptions))
                        \cup Cuts(Merges(Chains(space), space.preemptions)) : stop_reason' = e.reason
      BY <1>2 DEF Enumerate
    <3>. DEFINE all == Merges(Chains(space), space.preemptions)
    <3>2. \A f \in Enumerations(all) : f.reason \in {"", "enumeration_limit"}
      <4>. SUFFICES ASSUME NEW f \in Enumerations(all) PROVE f.reason \in {"", "enumeration_limit"}
        OBVIOUS
      <4>. HIDE DEF all
      <4>1. \/ f = [shapes |-> SubSeq(all, 1, cap), exhausted |-> FALSE, reason |-> "enumeration_limit"]
            \/ f = [shapes |-> all, exhausted |-> TRUE, reason |-> ""]
        BY DEF Enumerations
      <4>2. CASE f = [shapes |-> SubSeq(all, 1, cap), exhausted |-> FALSE,
                      reason |-> "enumeration_limit"]
        <5>1. f.reason = "enumeration_limit"  BY <4>2
        <5>. QED  BY <5>1
      <4>3. CASE f = [shapes |-> all, exhausted |-> TRUE, reason |-> ""]
        <5>1. f.reason = ""  BY <4>3
        <5>. QED  BY <5>1
      <4>. QED  BY <4>1, <4>2, <4>3
    <3>3. \A f \in Cuts(all) : (cancelled \/ late) /\ f.reason = Interruption
      BY DEF Cuts
    <3>. HIDE DEF all
    <3>4. \/ e.reason \in {"", "enumeration_limit"}
          \/ (cancelled \/ late) /\ e.reason = IF cancelled THEN "cancelled" ELSE "time_budget"
      BY <3>1, <3>2, <3>3 DEF all, Interruption
    <3>. QED  BY <3>1, <3>4
  <2>2. phase' = "between" /\ cancelled' = cancelled /\ late' = late  BY <1>2 DEF Enumerate
  <2>3. stop_reason' = "enumeration_limit" => ~exhausted' /\ Len(shapes') = cap'
    BY <1>2, EnumerateFinds
  <2>4. ReasonIsMet'  BY <2>1, <2>2, <2>3 DEF ReasonIsMet
  <2>. QED  BY <2>1, <2>2, <2>4 DEF ReasonInductive, Reasons, Started
<1>3. CASE StopBeforeRun
  <2>1. /\ phase' = "between" /\ halt' = TRUE
        /\ stop_reason' = (IF cancelled \/ late THEN Interruption ELSE "run_limit")
        /\ Attempted < Eligible /\ (cancelled \/ late \/ Attempted >= run_limit)
        /\ UNCHANGED <<space, run_limit, cancelled, late, shapes, runs>>
    BY <1>3 DEF StopBeforeRun, HaltFor, MustStop
  <2>2. Attempted' = Attempted /\ Eligible' = Eligible  BY <2>1 DEF Attempted, Eligible
  <2>3. \/ stop_reason' = "cancelled" /\ cancelled'
        \/ stop_reason' = "time_budget" /\ late'
        \/ stop_reason' = "run_limit" /\ Attempted' >= run_limit' /\ Attempted' < Eligible'
    <3>1. CASE cancelled  BY <2>1, <3>1 DEF Interruption
    <3>2. CASE ~cancelled /\ late  BY <2>1, <3>2 DEF Interruption
    <3>3. CASE ~cancelled /\ ~late
      <4>1. stop_reason' = "run_limit" /\ Attempted >= run_limit  BY <2>1, <3>3
      <4>2. run_limit' = run_limit /\ Attempted < Eligible  BY <2>1
      <4>. HIDE DEF declared, clock, enumerated, ledger, coverage, verdict
      <4>. QED  BY <2>2, <4>1, <4>2
    <3>. QED  BY <3>1, <3>2, <3>3
  <2>4. ReasonIsMet'  BY <2>3 DEF ReasonIsMet
  <2>. QED  BY <2>1, <2>3, <2>4 DEF ReasonInductive, Reasons, Started
<1>4. CASE EndRun
  <2>1. PICK s \in (IF Acquires THEN Samples(space, Shape(Attempted)) ELSE {Refusal}),
             bytes \in RowBytes :
          /\ Record(s)
          /\ evidence_bytes' = IF evidence_bytes + bytes > evidence_limit THEN evidence_bytes
                               ELSE evidence_bytes + bytes
          /\ IF evidence_bytes + bytes > evidence_limit THEN HaltFor("evidence_limit")
             ELSE IF Evidence(s).verdict = "uncovered" THEN HaltFor("coverage_limit")
             ELSE IF ~KnownClean(s) THEN HaltFor("unconfirmed_cleanup")
             ELSE IF late THEN HaltFor("time_budget")
             ELSE phase' = "between" /\ UNCHANGED <<halt, stop_reason>>
    BY <1>4 DEF EndRun
  <2>2. /\ phase = "running" /\ phase' = "between"
        /\ UNCHANGED <<space, cap, evidence_limit, coverage_limit, cancelled, late, shapes, exhausted>>
    BY <1>4, <2>1 DEF EndRun, HaltFor
  <2>3. ~halt /\ stop_reason \in {"", "enumeration_limit", "cancelled", "time_budget"}
    BY <2>2 DEF ReasonInductive, ExplorationInductive, CutsAreNamed, Started
  <2>4. /\ stop_reason = "cancelled" => cancelled
        /\ stop_reason = "time_budget" => late
        /\ stop_reason = "enumeration_limit" => ~exhausted /\ Len(shapes) = cap
    BY DEF ReasonInductive, ReasonIsMet
  <2>5. stop_reason' = "coverage_limit" => coverage_bytes' > coverage_limit'
    BY <1>4, EndRunEnters
  <2>6. stop_reason' = "evidence_limit" =>
           \E charge \in RowBytes : evidence_bytes' + charge > evidence_limit'
    <3>1. stop_reason' = "evidence_limit" => evidence_bytes + bytes > evidence_limit
      BY <2>1, <2>3 DEF HaltFor
    <3>2. evidence_bytes + bytes > evidence_limit =>
             evidence_bytes' = evidence_bytes /\ evidence_limit' = evidence_limit
      BY <2>1, <2>2
    <3>. QED  BY <3>1, <3>2
  <2>7. stop_reason' = "unconfirmed_cleanup" =>
           \E row \in ToSet(runs') : ~KnownToBeClean(row.sample)
    <3>1. PICK row : runs' = Append(runs, row) /\ row.sample = s  BY <2>1 DEF Record
    <3>2. /\ DOMAIN Append(runs, row) = 1..(Len(runs) + 1) /\ Append(runs, row)[Len(runs) + 1] = row
          /\ Len(runs) \in Nat
      <4>1. IsRows(runs)  BY DEF TypeOK
      <4>. QED  BY <4>1, RowAppended
    <3>3. row \in ToSet(runs')  BY <3>1, <3>2 DEF ToSet
    <3>4. stop_reason' = "unconfirmed_cleanup" => ~KnownToBeClean(s)
      BY <2>1, <2>3 DEF HaltFor, KnownClean, KnownToBeClean
    <3>. QED  BY <3>1, <3>3, <3>4
  <2>8. \/ /\ halt' = TRUE
           /\ stop_reason' \in {"evidence_limit", "coverage_limit", "unconfirmed_cleanup"}
        \/ halt' = TRUE /\ stop_reason' = "time_budget" /\ late
        \/ UNCHANGED <<halt, stop_reason>>
    BY <2>1 DEF HaltFor
  <2>9. ReasonIsMet'
    <3>1. CASE stop_reason' \in {"evidence_limit", "coverage_limit", "unconfirmed_cleanup"}
      BY <2>5, <2>6, <2>7, <3>1 DEF ReasonIsMet, KnownToBeClean
    <3>2. CASE stop_reason' = "time_budget" /\ late  BY <2>2, <3>2 DEF ReasonIsMet
    <3>3. CASE stop_reason' = stop_reason  BY <2>2, <2>3, <2>4, <3>3 DEF ReasonIsMet
    <3>. QED  BY <2>8, <3>1, <3>2, <3>3
  <2>. QED  BY <2>2, <2>3, <2>8, <2>9 DEF ReasonInductive, Reasons, Started
<1>5. CASE Conclude
  <2>1. /\ phase' = "done"
        /\ stop_reason' \in {stop_reason, "complete", "non_pass_runs"} /\ stop_reason' # ""
        /\ UNCHANGED <<space, cap, run_limit, evidence_limit, coverage_limit, cancelled, late,
                       shapes, exhausted, runs, evidence_bytes, coverage_bytes>>
    BY <1>5 DEF Conclude
  <2>2. ReasonIsMet'
    <3>1. CASE stop_reason' = stop_reason  BY <2>1, <3>1, ReasonStays
    <3>2. CASE stop_reason' \in {"complete", "non_pass_runs"}  BY <3>2 DEF ReasonIsMet
    <3>. QED  BY <2>1, <3>1, <3>2
  <2>. QED  BY <2>1, <2>2 DEF ReasonInductive, Reasons, Started
<1>6. CASE BeginRun \/ Interrupt \/ UNCHANGED vars
  <2>1. /\ (cancelled => cancelled') /\ (late => late')
        /\ UNCHANGED <<space, cap, run_limit, evidence_limit, coverage_limit, shapes, exhausted,
                       runs, evidence_bytes, coverage_bytes, stop_reason, halt>>
        /\ phase' = phase \/ (phase = "between" /\ phase' = "running")
    BY <1>6 DEF BeginRun, Interrupt, Cancel, Deadline, vars
  <2>2. ReasonIsMet'  BY <2>1, ReasonStays
  <2>. QED  BY <2>1, <2>2 DEF ReasonInductive, Started
<1>7. CASE Again
  <2>1. stop_reason' = "" /\ phase' = "enumerating"  BY <1>7 DEF Again
  <2>2. ReasonIsMet'  BY <2>1 DEF ReasonIsMet
  <2>. QED  BY <2>1, <2>2 DEF ReasonInductive, Started
<1>. QED  BY <1>1, <1>2, <1>3, <1>4, <1>5, <1>6, <1>7 DEF Next, Explore

\* The stop reason explains the report, and what it names is what happened.
THEOREM ReasonsExplain == Spec => []StopReasonExplains
<1>1. Init => ReasonInductive
  BY DEF Init, ReasonInductive, ReasonIsMet, Started
<1>2. TypeOK /\ ExplorationInductive /\ EvidenceInductive /\ ReasonInductive /\ [Next]_vars
         => ReasonInductive'
  BY NextKeepsReason
<1>3. ExplorationInductive /\ ReasonInductive => StopReasonExplains
  BY DEF ExplorationInductive, ReasonInductive, StopReasonExplains
<1>. QED  BY <1>1, <1>2, <1>3, ExplorationInvariantHolds, EvidenceInvariantHolds, PTL DEF Spec

\* The enumeration finds exactly the merges within the preemption bound, and a report
\* that says complete means each of them ran with each input, and passed with its
\* observations in place.
THEOREM CompleteExhausts == Spec => []CompleteIsExhaustive
<1>1. TypeOK /\ ExplorationInductive /\ EvidenceInductive => CompleteIsExhaustive
  <2>. SUFFICES ASSUME TypeOK, ExplorationInductive, EvidenceInductive
                PROVE  CompleteIsExhaustive
    OBVIOUS
  <2>1. ShapesAreMerges /\ TotalIsTrue  BY DEF EvidenceInductive, ExplorationInductive
  <2>2. ASSUME report.complete
        PROVE  /\ EveryCaseRan /\ EveryRunPassed
               /\ \A row \in ToSet(runs) : \A i \in DOMAIN row.sample.observations :
                     row.sample.observations[i].after = i - 1
               /\ \A i \in DOMAIN space.actors : Last(space.actors[i].checkpoints) = Done
               /\ {<<row.shape, row.input>> : row \in ToSet(runs)}
                     = Reference(space) \X ToSet(space.inputs)
    <3>1. EveryCaseRan /\ EveryRunPassed /\ ValidDeclaration(space)
      BY <2>2 DEF ExplorationInductive, CompleteIsEarned
    <3>2. \A row \in ToSet(runs) : InPlace(row)
      BY <2>2 DEF EvidenceInductive, ObservationsInPlace, ToSet
    <3>3. \A i \in DOMAIN space.actors : Last(space.actors[i].checkpoints) = Done
      BY <3>1 DEF ValidDeclaration, ValidChain
    <3>4. ToSet(shapes) = Reference(space)
      BY <2>1, <3>1 DEF ShapesAreMerges, EveryCaseRan
    <3>5. IsRows(shapes) /\ IsRows(runs) /\ space \in Spaces
      BY DEF TypeOK, EvidenceInductive, Enumerated
    <3>6. {<<row.shape, row.input>> : row \in ToSet(runs)} = ToSet(shapes) \X ToSet(space.inputs)
      BY <3>1, <3>5, PairsRan
    <3>. QED  BY <3>1, <3>2, <3>3, <3>4, <3>6 DEF InPlace
  <2>. QED  BY <2>1, <2>2 DEF CompleteIsExhaustive
<1>. QED  BY <1>1, ExplorationInvariantHolds, EvidenceInvariantHolds, PTL

\* The tables are what the runs observed: each form once, each transition as often as
\* runs made it, and no more than that where a bound cut them.
THEOREM TablesAreWhatWasObserved == Spec => []TablesAreObserved
<1>1. EvidenceInductive => TablesAreObserved  BY DEF EvidenceInductive, TablesAreTrue
<1>. QED  BY <1>1, EvidenceInvariantHolds, PTL

\* A table without repetitions has as many rows as keys.
LEMMA TableIsCounted ==
    ASSUME NEW table, IsRows(table), IsInjective(table)
    PROVE  IsFiniteSet(ToSet(table)) /\ Cardinality(ToSet(table)) = Len(table)
<1>. DEFINE n == Len(table)
            f == [i \in 1..n |-> table[i]]
<1>1. n \in Nat /\ DOMAIN table = 1..n  BY DEF IsRows
<1>2. ToSet(table) = {table[i] : i \in 1..n}  BY <1>1 DEF ToSet
<1>3. \A i, j \in 1..n : table[i] = table[j] => i = j  BY <1>1 DEF IsInjective
<1>4. f \in [1..n -> ToSet(table)] /\ \A i \in 1..n : f[i] = table[i]  BY <1>2
<1>. HIDE DEF n, f
<1>5. f \in Bijection(1..n, ToSet(table))
  BY <1>2, <1>3, <1>4 DEF Bijection, Injection, Surjection, IsInjective
<1>6. ExistsBijection(1..n, ToSet(table))  BY <1>5 DEF ExistsBijection
<1>7. IsFiniteSet(1..n) /\ Cardinality(1..n) = n
  <2>1. 1 \in Int /\ n \in Int /\ (IF 1 > n THEN 0 ELSE n - 1 + 1) = n  BY <1>1
  <2>. QED  BY <2>1, FS_Interval
<1>. QED  BY <1>6, <1>7, FS_Bijection DEF n

\* Finitely many states are used.
LEMMA UsedStatesAreFinite ==
    ASSUME TypeOK, Enumerated
    PROVE  IsFiniteSet(UsedStates)
<1>. DEFINE N == Len(runs)
            Of(n) == {StateAt(runs[n], i) : i \in Used(runs[n])}
            part == [n \in 1..N |-> Of(n)]
<1>1. N \in Nat /\ DOMAIN runs = 1..N  BY DEF TypeOK, IsRows
<1>2. ASSUME NEW n \in 1..N PROVE IsFiniteSet(Of(n))
  <2>. DEFINE U == Used(runs[n])
              f == [i \in U |-> StateAt(runs[n], i)]
  <2>1. IsFiniteSet(U)  BY <1>1, UsedAreCounted DEF Enumerated
  <2>2. f \in [U -> Of(n)] /\ \A y \in Of(n) : \E i \in U : f[i] = y  OBVIOUS
  <2>. HIDE DEF U, f, Of
  <2>3. f \in Surjection(U, Of(n))  BY <2>2 DEF Surjection
  <2>. QED  BY <2>1, <2>3, FS_Surjection
<1>3. IsFiniteSet(1..N)  BY <1>1, FS_Interval
<1>4. DOMAIN part = 1..N /\ \A n \in 1..N : part[n] = Of(n)  OBVIOUS
<1>. DEFINE Parts == {part[n] : n \in 1..N}
<1>5. UsedStates = UNION Parts
  <2>1. \A s : s \in UsedStates <=> \E n \in 1..N : s \in Of(n)
    <3>1. \A s : s \in UsedStates <=> \E row \in ToSet(runs) : \E i \in Used(row) : s = StateAt(row, i)
      BY DEF UsedStates
    <3>2. \A row : row \in ToSet(runs) <=> \E n \in 1..N : row = runs[n]
      BY <1>1 DEF ToSet
    <3>3. \A n, s : s \in Of(n) <=> \E i \in Used(runs[n]) : s = StateAt(runs[n], i)
      OBVIOUS
    <3>. HIDE DEF Of, part, N
    <3>. QED  BY <3>1, <3>2, <3>3
  <2>. HIDE DEF Of, part, N
  <2>. QED  BY <1>4, <2>1
<1>. HIDE DEF part, Of, N
<1>6. IsFiniteSet(Parts)
  <2>1. part \in [1..N -> Parts] /\ \A y \in Parts : \E n \in 1..N : part[n] = y
    <3>1. part = [n \in 1..N |-> part[n]]  BY DEF part
    <3>. QED  BY <3>1
  <2>. HIDE DEF Parts
  <2>2. part \in Surjection(1..N, Parts)  BY <2>1 DEF Surjection
  <2>. QED  BY <1>3, <2>2, FS_Surjection
<1>7. \A T \in Parts : IsFiniteSet(T)  BY <1>2, <1>4
<1>. HIDE DEF Parts
<1>. QED  BY <1>5, <1>6, <1>7, FS_UNION

\* There are as many forms as states.
LEMMA FormsAreCounted ==
    ASSUME FormsAreFaithful, IsFiniteSet(UsedStates)
    PROVE  LET forms == {CanonicalOf(s) : s \in UsedStates}
               met   == {MeaningOf(s) : s \in UsedStates}
           IN  IsFiniteSet(forms) /\ Cardinality(met) = Cardinality(forms)
<1>. DEFINE K == {CanonicalOf(s) : s \in UsedStates}
            M == {MeaningOf(s) : s \in UsedStates}
            g == [s \in UsedStates |-> CanonicalOf(s)]
            f == [k \in K |-> MeaningOf(CHOOSE s \in UsedStates : CanonicalOf(s) = k)]
<1>1. IsFiniteSet(K)
  <2>1. g \in [UsedStates -> K] /\ \A k \in K : \E s \in UsedStates : g[s] = k  OBVIOUS
  <2>. HIDE DEF g, K
  <2>2. g \in Surjection(UsedStates, K)  BY <2>1 DEF Surjection
  <2>. QED  BY <2>2, FS_Surjection
<1>2. ASSUME NEW s \in UsedStates PROVE CanonicalOf(s) \in K /\ f[CanonicalOf(s)] = MeaningOf(s)
  <2>1. PICK t : t = CHOOSE u \in UsedStates : CanonicalOf(u) = CanonicalOf(s)  OBVIOUS
  <2>2. t \in UsedStates /\ CanonicalOf(t) = CanonicalOf(s)  BY <2>1
  <2>3. MeaningOf(t) = MeaningOf(s)  BY <2>2 DEF FormsAreFaithful
  <2>. QED  BY <2>1, <2>3
<1>3. f \in [K -> M]
  <2>1. f = [k \in K |-> f[k]]  OBVIOUS
  <2>2. \A k \in K : f[k] \in M  BY <1>2
  <2>. QED  BY <2>1, <2>2
<1>. HIDE DEF f
<1>4. \A m \in M : \E k \in K : f[k] = m  BY <1>2
<1>5. \A a, b \in K : f[a] = f[b] => a = b  BY <1>2 DEF FormsAreFaithful
<1>. HIDE DEF K, M
<1>6. f \in Bijection(K, M)
  BY <1>3, <1>4, <1>5 DEF Bijection, Injection, Surjection, IsInjective
<1>7. ExistsBijection(K, M)  BY <1>6 DEF ExistsBijection
<1>8. Cardinality(M) = Cardinality(K)  BY <1>1, <1>7, FS_Bijection
<1>. QED  BY <1>1, <1>8 DEF K, M

\* The coverage that is reported is that of the program: as many states as were
\* observed, and each transition as often, wherever states have one canonical form
\* exactly when they are the same.
THEOREM CoverageIsWhatWasObserved == Spec => [](FormsAreFaithful => CoverageIsObserved)
<1>1. ASSUME TypeOK, EvidenceInductive, FormsAreFaithful PROVE CoverageIsObserved
  <2>. DEFINE forms == {CanonicalOf(s) : s \in UsedStates}
              met   == {MeaningOf(s) : s \in UsedStates}
  <2>1. TablesAreObserved /\ Proper(states, edges) /\ Enumerated
    BY <1>1 DEF EvidenceInductive, TablesAreTrue
  <2>2. IsFiniteSet(UsedStates)  BY <1>1, <2>1, UsedStatesAreFinite
  <2>3. IsFiniteSet(forms) /\ Cardinality(met) = Cardinality(forms)
    BY <1>1, <2>2, FormsAreCounted
  <2>4. Cardinality(ToSet(states)) = Len(states)  BY <2>1, TableIsCounted DEF Proper
  <2>5. ToSet(states) \in SUBSET forms /\ (Whole => ToSet(states) = forms)
    BY <2>1 DEF TablesAreObserved, Whole
  <2>. HIDE DEF forms
  <2>6. Cardinality(ToSet(states)) <= Cardinality(forms)  BY <2>3, <2>5, FS_Subset
  <2>7. Len(states) <= Cardinality(met) /\ (Whole => Len(states) = Cardinality(met))
    BY <2>3, <2>4, <2>5, <2>6
  <2>8. StatesAreCounted  BY <2>7 DEF StatesAreCounted, Whole
  <2>. QED  BY <2>1, <2>8 DEF CoverageIsObserved
<1>. QED  BY <1>1, ExplorationInvariantHolds, EvidenceInvariantHolds, PTL
=============================================================================
