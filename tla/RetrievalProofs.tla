-------------------------- MODULE RetrievalProofs ---------------------------
(***************************************************************************)
(* Proofs about Retrieval, for any runes and texts, any size of a chunk,   *)
(* any number of rows and any result of the keyword search.                *)
(*                                                                         *)
(* The induction theorems of the library take a predicate as a parameter,  *)
(* which no prover here can instantiate.  Induction below is stated for a  *)
(* set, from the least element of its complement (WFMin), and gives the    *)
(* existence of recursive functions, the equations of Fold and induction   *)
(* on sequences.                                                           *)
(***************************************************************************)
EXTENDS Retrieval, FiniteSetTheorems, SequenceTheorems, WellFoundedInduction, TLAPS

(* body takes an element of S and then a state of A to a state of A. *)
IsBody(body, S, A) == body \in [S -> [A -> A]]

LEMMA Induction ==
    ASSUME NEW S, 0 \in S, \A n \in Nat : n \in S => n + 1 \in S
    PROVE  \A n \in Nat : n \in S
<1> DEFINE T == Nat \ S
           R == OpToRel(<, Nat)
<1>1. \A x \in Nat : x # 0 => <<x - 1, x>> \in R
  BY DEF OpToRel
<1>2. IsWellFoundedOn(R, Nat)
  BY NatLessThanWellFounded
<1>3. ASSUME T # {}
      PROVE  FALSE
  <2> HIDE DEF R, T
  <2>0. T \subseteq Nat /\ \A n \in Nat : n \in T <=> n \notin S
    BY DEF T
  <2>1. PICK x \in T : \A y \in T : ~ (<<y, x>> \in R)
    BY <1>2, <1>3, <2>0, WFMin
  <2>2. x \in Nat /\ x # 0 /\ x - 1 \in Nat
    BY <2>0
  <2>3. x - 1 \notin T
    BY <1>1, <2>1, <2>2
  <2>4. (x - 1) + 1 \in S
    BY <2>0, <2>2, <2>3
  <2> QED BY <2>0, <2>2, <2>4
<1> QED BY <1>3

Up(f, m, A, base, G) ==
    f \in [0..m -> A] /\ f[0] = base /\ \A n \in Nat : n < m => f[n + 1] = G[n][f[n]]

LEMMA UpStep ==
    ASSUME NEW A, NEW base \in A, NEW G, IsBody(G, Nat, A), NEW m \in Nat, NEW f,
           Up(f, m, A, base, G)
    PROVE  \E g : Up(g, m + 1, A, base, G)
<1> DEFINE g == [i \in 0..(m + 1) |-> IF i = m + 1 THEN G[m][f[m]] ELSE f[i]]
<1>0. f \in [0..m -> A] /\ f[0] = base /\ \A n \in Nat : n < m => f[n + 1] = G[n][f[n]]
  BY DEF Up
<1>1. f[m] \in A /\ G[m][f[m]] \in A
  <2>1. f[m] \in A
    BY <1>0
  <2>2. G[m] \in [A -> A]
    BY DEF IsBody
  <2> QED BY <2>1, <2>2
<1>2. \A i \in 0..(m + 1) : g[i] \in A
  BY <1>0, <1>1
<1>3. g \in [0..(m + 1) -> A]
  BY <1>2
<1>4. g[0] = base
  BY <1>0
<1>5. \A n \in Nat : n < m + 1 => g[n + 1] = G[n][g[n]]
  BY <1>0
<1>6. Up(g, m + 1, A, base, G)
  BY <1>3, <1>4, <1>5 DEF Up
<1> QED BY <1>6

LEMMA UpUnique ==
    ASSUME NEW A, NEW base \in A, NEW G, IsBody(G, Nat, A), NEW m \in Nat, NEW n \in Nat,
           NEW f, NEW g, Up(f, m, A, base, G), Up(g, n, A, base, G)
    PROVE  \A i \in Nat : i <= m /\ i <= n => f[i] = g[i]
<1> DEFINE E == {i \in Nat : i <= m /\ i <= n => f[i] = g[i]}
<1>1. 0 \in E
  BY DEF Up
<1>2. ASSUME NEW i \in Nat, i \in E
      PROVE  i + 1 \in E
  BY <1>2 DEF Up
<1>3. \A i \in Nat : i \in E
  <2> HIDE DEF E
  <2> QED BY <1>1, <1>2, Induction
<1> QED BY <1>3

Iterates(h, A, base, G) ==
    h \in [Nat -> A] /\ h[0] = base /\ \A n \in Nat : h[n + 1] = G[n][h[n]]

LEMMA Recursion ==
    ASSUME NEW A, NEW base \in A, NEW G, IsBody(G, Nat, A)
    PROVE  \E f : Iterates(f, A, base, G)
<1> DEFINE S == {m \in Nat : \E f : Up(f, m, A, base, G)}
<1>1. 0 \in S
  <2>1. Up([i \in 0..0 |-> base], 0, A, base, G)
    BY DEF Up
  <2> QED BY <2>1
<1>2. ASSUME NEW m \in Nat, m \in S
      PROVE  m + 1 \in S
  BY <1>2, UpStep
<1>3. \A m \in Nat : m \in S
  <2> HIDE DEF S
  <2> QED BY <1>1, <1>2, Induction
<1> DEFINE pick(m) == CHOOSE f : Up(f, m, A, base, G)
           h == [m \in Nat |-> pick(m)[m]]
<1>5. \A m \in Nat : Up(pick(m), m, A, base, G)
  BY <1>3
<1> HIDE DEF pick
<1>6. h \in [Nat -> A]
  BY <1>5 DEF Up
<1>7. h[0] = base
  BY <1>5 DEF Up
<1>8. ASSUME NEW n \in Nat
      PROVE  h[n + 1] = G[n][h[n]]
  <2>1. Up(pick(n + 1), n + 1, A, base, G) /\ Up(pick(n), n, A, base, G)
    BY <1>5
  <2>2. pick(n + 1)[n] = pick(n)[n]
    BY <2>1, UpUnique
  <2>3. pick(n + 1)[n + 1] = G[n][pick(n + 1)[n]]
    BY <2>1 DEF Up
  <2> QED BY <2>2, <2>3
<1> HIDE DEF h
<1> QED BY <1>6, <1>7, <1>8 DEF Iterates

-----------------------------------------------------------------------------
LEMMA SeqInduction ==
    ASSUME NEW S, NEW E, << >> \in E,
           \A s \in Seq(S), e \in S : s \in E => Append(s, e) \in E
    PROVE  \A s \in Seq(S) : s \in E
<1> DEFINE L == {n \in Nat : \A s \in Seq(S) : Len(s) = n => s \in E}
<1>1. 0 \in L
  BY EmptySeq
<1>2. ASSUME NEW n \in Nat, n \in L
      PROVE  n + 1 \in L
  <2>1. SUFFICES ASSUME NEW s \in Seq(S), Len(s) = n + 1
                 PROVE  s \in E
    OBVIOUS
  <2>2. PICK t \in Seq(S), e \in S : s = Append(t, e)
    BY <2>1, EmptySeq, SequenceEmptyOrAppend
  <2>3. Len(t) = n
    BY <2>1, <2>2, AppendProperties, LenProperties
  <2> QED BY <1>2, <2>2, <2>3
<1>3. \A n \in Nat : n \in L
  <2> HIDE DEF L
  <2> QED BY <1>1, <1>2, Induction
<1> QED BY <1>3, LenProperties

Unfolds(f, body, start, s) ==
    f = [n \in 0..Len(s) |-> IF n = 0 THEN start ELSE body[s[n]][f[n - 1]]]

LEMMA UnfoldingExists ==
    ASSUME NEW S, NEW A, NEW body, IsBody(body, S, A), NEW start \in A, NEW s \in Seq(S)
    PROVE  \E f : Unfolds(f, body, start, s)
<1> DEFINE G == [n \in Nat |-> IF n < Len(s) THEN body[s[n + 1]] ELSE [x \in A |-> x]]
<1>1. IsBody(G, Nat, A)
  <2>1. ASSUME NEW n \in Nat
        PROVE  G[n] \in [A -> A]
    <3>1. CASE n < Len(s)
      <4>1. s[n + 1] \in S
        BY <3>1, ElementOfSeq, LenProperties
      <4> QED BY <3>1, <4>1 DEF IsBody
    <3>2. CASE ~(n < Len(s))
      BY <3>2
    <3> QED BY <3>1, <3>2
  <2> QED BY <2>1 DEF IsBody
<1>2. PICK h : Iterates(h, A, start, G)
  <2> HIDE DEF G
  <2> QED BY <1>1, Recursion
<1> DEFINE f == [n \in 0..Len(s) |-> h[n]]
<1>3. ASSUME NEW n \in 1..Len(s)
      PROVE  f[n] = body[s[n]][f[n - 1]]
  <2>1. n - 1 \in Nat /\ n - 1 < Len(s) /\ (n - 1) + 1 = n /\ n - 1 \in 0..Len(s) /\ n \in 0..Len(s)
    BY LenProperties
  <2>2. h[n] = G[n - 1][h[n - 1]] /\ G[n - 1] = body[s[n]]
    BY <1>2, <2>1 DEF Iterates
  <2> QED BY <2>1, <2>2
<1>4. f[0] = start
  BY <1>2, LenProperties DEF Iterates
<1>5. f = [n \in 0..Len(s) |-> IF n = 0 THEN start ELSE body[s[n]][f[n - 1]]]
  <2>1. ASSUME NEW n \in 0..Len(s)
        PROVE  f[n] = IF n = 0 THEN start ELSE body[s[n]][f[n - 1]]
    <3>1. CASE n = 0
      BY <1>4, <3>1
    <3>2. CASE n # 0
      <4>1. n \in 1..Len(s)
        BY <3>2, LenProperties
      <4> HIDE DEF f
      <4> QED BY <1>3, <3>2, <4>1
    <3> QED BY <3>1, <3>2
  <2> QED BY <2>1
<1> HIDE DEF f
<1> QED BY <1>5 DEF Unfolds

LEMMA UnfoldingValues ==
    ASSUME NEW S, NEW A, NEW body, IsBody(body, S, A), NEW start \in A, NEW s \in Seq(S),
           NEW f, Unfolds(f, body, start, s)
    PROVE  /\ f[0] = start
           /\ \A n \in 1..Len(s) : f[n] = body[s[n]][f[n - 1]]
           /\ \A n \in 0..Len(s) : f[n] \in A
<1>0. \A n \in 0..Len(s) : f[n] = IF n = 0 THEN start ELSE body[s[n]][f[n - 1]]
  BY DEF Unfolds
<1>1. f[0] = start /\ \A n \in 1..Len(s) : f[n] = body[s[n]][f[n - 1]]
  BY <1>0, LenProperties
<1> DEFINE E == {n \in Nat : n <= Len(s) => f[n] \in A}
<1>2. 0 \in E
  BY <1>1
<1>3. ASSUME NEW n \in Nat, n \in E
      PROVE  n + 1 \in E
  <2>1. SUFFICES ASSUME n + 1 <= Len(s)
                 PROVE  f[n + 1] \in A
    OBVIOUS
  <2>2. n + 1 \in 1..Len(s) /\ (n + 1) - 1 = n /\ f[n] \in A
    BY <1>3, <2>1, LenProperties
  <2>3. s[n + 1] \in S
    BY <2>2, ElementOfSeq
  <2>4. f[n + 1] = body[s[n + 1]][f[n]]
    BY <1>1, <2>2
  <2>5. body[s[n + 1]] \in [A -> A]
    BY <2>3 DEF IsBody
  <2> QED BY <2>2, <2>4, <2>5
<1>4. \A n \in Nat : n \in E
  <2> HIDE DEF E
  <2> QED BY <1>2, <1>3, Induction
<1> QED BY <1>1, <1>4, LenProperties

LEMMA FoldUnfolding ==
    ASSUME NEW S, NEW A, NEW body, IsBody(body, S, A), NEW start \in A, NEW s \in Seq(S)
    PROVE  \E f : Unfolds(f, body, start, s) /\ Fold(body, start, s) = f[Len(s)]
<1> DEFINE f == CHOOSE g : Unfolds(g, body, start, s)
<1>1. Unfolds(f, body, start, s)
  BY UnfoldingExists
<1>2. Fold(body, start, s) = f[Len(s)]
  BY DEF Fold, Unfolds
<1> QED BY <1>1, <1>2

LEMMA FoldType ==
    ASSUME NEW S, NEW A, NEW body, IsBody(body, S, A), NEW start \in A, NEW s \in Seq(S)
    PROVE  Fold(body, start, s) \in A
BY FoldUnfolding, UnfoldingValues, LenProperties

LEMMA FoldEmpty ==
    ASSUME NEW S, NEW A, NEW body, IsBody(body, S, A), NEW start \in A
    PROVE  Fold(body, start, << >>) = start
<1> DEFINE s == << >>
<1>1. s \in Seq(S)
  BY EmptySeq
<1>2. Len(s) = 0
  BY EmptySeq
<1> HIDE DEF s
<1>3. PICK f : Unfolds(f, body, start, s) /\ Fold(body, start, s) = f[Len(s)]
  BY <1>1, FoldUnfolding
<1>4. f[0] = start
  BY <1>1, <1>3, UnfoldingValues
<1> QED BY <1>2, <1>3, <1>4 DEF s

LEMMA FoldAppend ==
    ASSUME NEW S, NEW A, NEW body, IsBody(body, S, A), NEW start \in A,
           NEW s \in Seq(S), NEW e \in S
    PROVE  Fold(body, start, Append(s, e)) = body[e][Fold(body, start, s)]
<1> DEFINE t == Append(s, e)
<1>1. /\ t \in Seq(S) /\ Len(t) = Len(s) + 1 /\ Len(s) \in Nat
      /\ t[Len(s) + 1] = e /\ \A i \in 1..Len(s) : t[i] = s[i]
  BY AppendProperties, LenProperties
<1>2. PICK f : Unfolds(f, body, start, s) /\ Fold(body, start, s) = f[Len(s)]
  BY FoldUnfolding
<1> HIDE DEF t
<1>3. PICK g : Unfolds(g, body, start, t) /\ Fold(body, start, t) = g[Len(t)]
  BY <1>1, FoldUnfolding
<1>4. f[0] = start /\ \A n \in 1..Len(s) : f[n] = body[s[n]][f[n - 1]]
  BY <1>2, UnfoldingValues
<1>5. g[0] = start /\ \A n \in 1..Len(t) : g[n] = body[t[n]][g[n - 1]]
  BY <1>1, <1>3, UnfoldingValues
<1> DEFINE E == {n \in Nat : n <= Len(s) => f[n] = g[n]}
<1>6. 0 \in E
  BY <1>4, <1>5
<1>7. ASSUME NEW n \in Nat, n \in E
      PROVE  n + 1 \in E
  <2>1. SUFFICES ASSUME n + 1 <= Len(s)
                 PROVE  f[n + 1] = g[n + 1]
    OBVIOUS
  <2>2. n + 1 \in 1..Len(s) /\ n + 1 \in 1..Len(t) /\ (n + 1) - 1 = n /\ f[n] = g[n]
    BY <1>1, <1>7, <2>1
  <2>3. f[n + 1] = body[s[n + 1]][f[n]]
    BY <1>4, <2>2
  <2>4. g[n + 1] = body[t[n + 1]][g[n]]
    BY <1>5, <2>2
  <2>5. t[n + 1] = s[n + 1]
    BY <1>1, <2>2
  <2> QED BY <2>2, <2>3, <2>4, <2>5
<1>8. \A n \in Nat : n \in E
  <2> HIDE DEF E
  <2> QED BY <1>6, <1>7, Induction
<1>9. g[Len(t)] = body[e][g[Len(s)]]
  <2>1. Len(t) \in 1..Len(t) /\ Len(t) - 1 = Len(s) /\ t[Len(t)] = e
    BY <1>1
  <2> QED BY <1>5, <2>1
<1>10. f[Len(s)] = g[Len(s)]
  BY <1>1, <1>8
<1> QED BY <1>2, <1>3, <1>9, <1>10 DEF t
-----------------------------------------------------------------------------
LEMMA WithoutFold ==
    ASSUME NEW T
    PROVE  /\ Without(<< >>, T) = << >>
           /\ \A s \in Strings : Without(s, T) \in Strings
           /\ \A s \in Strings, r \in Runes :
                Without(Append(s, r), T) = IF r \in T THEN Without(s, T)
                                           ELSE Append(Without(s, T), r)
<1> DEFINE body == [r \in Runes |-> [t \in Strings |-> IF r \in T THEN t ELSE Append(t, r)]]
<1>1. IsBody(body, Runes, Strings)
  BY AppendProperties DEF IsBody, Strings
<1>2. << >> \in Strings
  BY EmptySeq DEF Strings
<1>3. \A r \in Runes, t \in Strings : body[r][t] = IF r \in T THEN t ELSE Append(t, r)
  OBVIOUS
<1>4. \A s : Without(s, T) = Fold(body, << >>, s)
  BY DEF Without
<1> HIDE DEF body
<1>5. Without(<< >>, T) = << >>
  BY <1>1, <1>2, <1>4, FoldEmpty
<1>6. ASSUME NEW s \in Strings
      PROVE  Without(s, T) \in Strings
  <2>1. s \in Seq(Runes)
    BY DEF Strings
  <2>2. Fold(body, << >>, s) \in Strings
    BY <1>1, <1>2, <2>1, FoldType
  <2> QED BY <1>4, <2>2
<1>7. ASSUME NEW s \in Strings, NEW r \in Runes
      PROVE  Without(Append(s, r), T) = IF r \in T THEN Without(s, T)
                                        ELSE Append(Without(s, T), r)
  <2>1. s \in Seq(Runes)
    BY DEF Strings
  <2>2. Fold(body, << >>, Append(s, r)) = body[r][Fold(body, << >>, s)]
    BY <1>1, <1>2, <2>1, FoldAppend
  <2>3. Without(Append(s, r), T) = body[r][Without(s, T)]
    BY <1>4, <2>2
  <2> QED BY <1>3, <1>6, <2>3
<1> QED BY <1>5, <1>6, <1>7

LEMMA JoinedFold ==
    /\ Joined(<< >>) = << >>
    /\ \A ss \in Seq(Strings) : Joined(ss) \in Strings
    /\ \A ss \in Seq(Strings), s \in Strings : Joined(Append(ss, s)) = Joined(ss) \o s
<1> DEFINE body == [s \in Strings |-> [t \in Strings |-> t \o s]]
<1>1. IsBody(body, Strings, Strings)
  BY ConcatProperties DEF IsBody, Strings
<1>2. << >> \in Strings
  BY EmptySeq DEF Strings
<1>3. \A s, t \in Strings : body[s][t] = t \o s
  OBVIOUS
<1>4. \A ss : Joined(ss) = Fold(body, << >>, ss)
  BY DEF Joined
<1> HIDE DEF body
<1>5. Joined(<< >>) = << >>
  BY <1>1, <1>2, <1>4, FoldEmpty
<1>6. ASSUME NEW ss \in Seq(Strings)
      PROVE  Joined(ss) \in Strings
  <2>1. Fold(body, << >>, ss) \in Strings
    BY <1>1, <1>2, FoldType
  <2> QED BY <1>4, <2>1
<1>7. ASSUME NEW ss \in Seq(Strings), NEW s \in Strings
      PROVE  Joined(Append(ss, s)) = Joined(ss) \o s
  <2>1. Fold(body, << >>, Append(ss, s)) = body[s][Fold(body, << >>, ss)]
    BY <1>1, <1>2, FoldAppend
  <2> QED BY <1>3, <1>4, <1>6, <2>1
<1> QED BY <1>5, <1>6, <1>7

LEMMA ConcatAppend ==
    ASSUME NEW S, NEW s \in Seq(S), NEW t \in Seq(S), NEW e \in S
    PROVE  s \o Append(t, e) = Append(s \o t, e)
<1>1. <<e>> \in Seq(S)
  OBVIOUS
<1>2. s \o t \in Seq(S) /\ Append(t, e) = t \o <<e>>
  BY ConcatProperties, AppendIsConcat
<1>3. Append(s \o t, e) = (s \o t) \o <<e>>
  BY <1>2, AppendIsConcat
<1>4. (s \o t) \o <<e>> = s \o (t \o <<e>>)
  BY <1>1, ConcatAssociative
<1> QED BY <1>2, <1>3, <1>4

LEMMA WithoutConcat ==
    ASSUME NEW T, NEW s \in Strings, NEW t \in Strings
    PROVE  Without(s \o t, T) = Without(s, T) \o Without(t, T)
<1> DEFINE E == {u \in Strings : Without(s \o u, T) = Without(s, T) \o Without(u, T)}
<1>1. << >> \in E
  <2>1. << >> \in Strings /\ s \o << >> = s /\ Without(s, T) \o << >> = Without(s, T)
    BY EmptySeq, ConcatEmptySeq, WithoutFold DEF Strings
  <2> QED BY <2>1, WithoutFold
<1>2. ASSUME NEW u \in Seq(Runes), NEW r \in Runes, u \in E
      PROVE  Append(u, r) \in E
  <2>1. u \in Strings /\ Append(u, r) \in Strings /\ s \o u \in Strings
    BY AppendProperties, ConcatProperties DEF Strings
  <2>2. s \o Append(u, r) = Append(s \o u, r)
    BY ConcatAppend DEF Strings
  <2>3. Without(s \o u, T) = Without(s, T) \o Without(u, T)
    BY <1>2
  <2>4. CASE r \in T
    <3>1. Without(Append(s \o u, r), T) = Without(s \o u, T)
      BY <2>1, <2>4, WithoutFold
    <3>2. Without(Append(u, r), T) = Without(u, T)
      BY <2>1, <2>4, WithoutFold
    <3> QED BY <2>1, <2>2, <2>3, <3>1, <3>2
  <2>5. CASE r \notin T
    <3>1. Without(Append(s \o u, r), T) = Append(Without(s \o u, T), r)
      BY <2>1, <2>5, WithoutFold
    <3>2. Without(Append(u, r), T) = Append(Without(u, T), r)
      BY <2>1, <2>5, WithoutFold
    <3>3. Without(s, T) \in Seq(Runes) /\ Without(u, T) \in Seq(Runes)
      BY <2>1, WithoutFold DEF Strings
    <3>4. Without(s, T) \o Append(Without(u, T), r) = Append(Without(s, T) \o Without(u, T), r)
      BY <3>3, ConcatAppend
    <3> QED BY <2>1, <2>2, <2>3, <3>1, <3>2, <3>4
  <2> QED BY <2>4, <2>5
<1>3. \A u \in Seq(Runes) : u \in E
  <2> HIDE DEF E
  <2> QED BY <1>1, <1>2, SeqInduction
<1> QED BY <1>3 DEF Strings

LEMMA WithoutShorter ==
    ASSUME NEW T, NEW s \in Strings
    PROVE  Len(Without(s, T)) <= Len(s)
<1> DEFINE E == {u \in Strings : Len(Without(u, T)) <= Len(u)}
<1>1. << >> \in E
  BY EmptySeq, WithoutFold DEF Strings
<1>2. ASSUME NEW u \in Seq(Runes), NEW r \in Runes, u \in E
      PROVE  Append(u, r) \in E
  <2>1. u \in Strings /\ Append(u, r) \in Strings /\ Len(Append(u, r)) = Len(u) + 1
    BY AppendProperties DEF Strings
  <2>2. Without(u, T) \in Seq(Runes)
    BY <2>1, WithoutFold DEF Strings
  <2>3. Len(Append(Without(u, T), r)) = Len(Without(u, T)) + 1
    BY <2>2, AppendProperties
  <2>4. Len(Without(u, T)) \in Nat /\ Len(u) \in Nat /\ Len(Without(u, T)) <= Len(u)
    BY <1>2, <2>2, LenProperties
  <2>5. \/ Without(Append(u, r), T) = Without(u, T)
        \/ Without(Append(u, r), T) = Append(Without(u, T), r)
    <3>1. Without(Append(u, r), T) = IF r \in T THEN Without(u, T) ELSE Append(Without(u, T), r)
      BY <2>1, WithoutFold
    <3> QED BY <3>1
  <2>6. Len(Without(Append(u, r), T)) <= Len(u) + 1
    BY <2>3, <2>4, <2>5
  <2> QED BY <2>1, <2>6
<1>3. \A u \in Seq(Runes) : u \in E
  <2> HIDE DEF E
  <2> QED BY <1>1, <1>2, SeqInduction
<1> QED BY <1>3 DEF Strings

LEMMA WithoutAll ==
    ASSUME NEW T, NEW s \in Seq(T), T \subseteq Runes
    PROVE  Without(s, T) = << >>
<1> DEFINE E == {u \in Strings : Without(u, T) = << >>}
<1>1. << >> \in E
  BY EmptySeq, WithoutFold DEF Strings
<1>2. ASSUME NEW u \in Seq(T), NEW r \in T, u \in E
      PROVE  Append(u, r) \in E
  BY <1>2, AppendProperties, WithoutFold DEF Strings
<1>3. \A u \in Seq(T) : u \in E
  <2> HIDE DEF E
  <2> QED BY <1>1, <1>2, SeqInduction
<1> QED BY <1>3
-----------------------------------------------------------------------------
LEMMA MinOfNaturals ==
    ASSUME NEW S, S \subseteq Nat, S # {}
    PROVE  Min(S) \in S /\ \A y \in S : Min(S) <= y
<1> DEFINE R == OpToRel(<, Nat)
<1>1. \A x, y \in Nat : y < x => <<y, x>> \in R
  BY DEF OpToRel
<1>2. IsWellFoundedOn(R, Nat)
  BY NatLessThanWellFounded
<1> HIDE DEF R
<1>3. PICK x \in S : \A y \in S : ~ (<<y, x>> \in R)
  BY <1>2, WFMin
<1>4. ASSUME NEW y \in S
      PROVE  x <= y
  <2>1. x \in Nat /\ y \in Nat
    OBVIOUS
  <2>2. ~(y < x)
    BY <1>1, <1>3, <2>1
  <2> QED BY <2>1, <2>2
<1> QED BY <1>4 DEF Min

LEMMA MaxOfNaturals ==
    ASSUME NEW n \in Nat, NEW S, S \subseteq 0..n, S # {}
    PROVE  Max(S) \in S /\ \A y \in S : Max(S) >= y
<1> DEFINE U == {i \in 0..n : n - i \in S}
           m == Min(U)
<1>1. U \subseteq Nat /\ U # {}
  <2>1. PICK y \in S : TRUE
    OBVIOUS
  <2>2. n - y \in 0..n /\ n - (n - y) = y
    OBVIOUS
  <2>3. n - y \in U
    BY <2>2
  <2>4. U \subseteq Nat
    OBVIOUS
  <2> HIDE DEF U
  <2> QED BY <2>3, <2>4
<1>2. m \in U /\ \A i \in U : m <= i
  <2> HIDE DEF U
  <2> QED BY <1>1, MinOfNaturals
<1> HIDE DEF m
<1>3. n - m \in S
  BY <1>2
<1>4. ASSUME NEW y \in S
      PROVE  n - m >= y
  <2>1. n - y \in U
    BY n - (n - y) = y
  <2>2. m <= n - y /\ m \in 0..n
    BY <1>2, <2>1
  <2> QED BY <2>2
<1> QED BY <1>3, <1>4 DEF Max

LEMMA MinOfTwo ==
    ASSUME NEW a \in Nat, NEW b \in Nat
    PROVE  Min({a, b}) = IF a <= b THEN a ELSE b
<1>1. {a, b} \subseteq Nat /\ {a, b} # {}
  OBVIOUS
<1>2. Min({a, b}) \in {a, b} /\ \A y \in {a, b} : Min({a, b}) <= y
  BY <1>1, MinOfNaturals
<1> QED BY <1>2

LEMMA TrimSplit ==
    ASSUME NEW s \in Strings
    PROVE  /\ Trim(s) \in Strings
           /\ \E u, v \in Seq(White) : s = (u \o Trim(s)) \o v
<1> DEFINE inked == {i \in DOMAIN s : s[i] \notin White}
           lo == Min(inked)
           hi == Max(inked)
<1>1. /\ Len(s) \in Nat /\ DOMAIN s = 1..Len(s) /\ s \in Seq(Runes)
      /\ \A i \in 1..Len(s) : s[i] \in Runes
  BY LenProperties, ElementOfSeq DEF Strings
<1>2. CASE inked = {}
  <2>1. Trim(s) = << >>
    BY <1>2 DEF Trim
  <2>2. \A i \in 1..Len(s) : s[i] \in White
    BY <1>1, <1>2
  <2>3. SubSeq(s, 1, Len(s)) \in Seq(White) /\ SubSeq(s, 1, Len(s)) = s
    BY <1>1, <2>2, SubSeqProperties, SubSeqFull
  <2>4. << >> \in Seq(White) /\ << >> \in Strings /\ s = (s \o << >>) \o << >>
    BY <1>1, EmptySeq, ConcatEmptySeq DEF Strings
  <2> QED BY <2>1, <2>3, <2>4
<1>3. CASE inked # {}
  <2>1. inked \subseteq Nat /\ inked \subseteq 0..Len(s)
    BY <1>1
  <2>2. /\ lo \in inked /\ \A i \in inked : lo <= i
        /\ hi \in inked /\ \A i \in inked : hi >= i
    <3> HIDE DEF inked
    <3> QED BY <1>1, <1>3, <2>1, MinOfNaturals, MaxOfNaturals
  <2>3. Trim(s) = SubSeq(s, lo, hi)
    BY <1>3 DEF Trim
  <2> HIDE DEF lo, hi
  <2>4. lo \in 1..Len(s) /\ hi \in 1..Len(s) /\ lo <= hi
    BY <1>1, <2>2
  <2> DEFINE u == SubSeq(s, 1, lo - 1)
             v == SubSeq(s, hi + 1, Len(s))
  <2>5. \A i \in 1..(lo - 1) : s[i] \in White
    BY <1>1, <2>2, <2>4
  <2>6. \A i \in (hi + 1)..Len(s) : s[i] \in White
    BY <1>1, <2>2, <2>4
  <2>7. u \in Seq(White)
    BY <2>4, <2>5, SubSeqProperties
  <2>8. v \in Seq(White)
    BY <1>1, <2>4, <2>6, SubSeqProperties
  <2>9. u \o SubSeq(s, lo, hi) = SubSeq(s, 1, hi)
    <3>1. (lo - 1) + 1 = lo /\ 1 \in 1..(Len(s) + 1)
          /\ lo - 1 \in (1 - 1)..Len(s) /\ hi \in (lo - 1)..Len(s)
      BY <1>1, <2>4
    <3>2. SubSeq(s, 1, lo - 1) \o SubSeq(s, (lo - 1) + 1, hi) = SubSeq(s, 1, hi)
      BY <1>1, <3>1, ConcatAdjacentSubSeq
    <3> QED BY <3>1, <3>2
  <2>10. SubSeq(s, 1, hi) \o v = s
    <3>1. 1 \in 1..(Len(s) + 1) /\ hi \in (1 - 1)..Len(s) /\ Len(s) \in hi..Len(s)
      BY <1>1, <2>4
    <3>2. SubSeq(s, 1, hi) \o SubSeq(s, hi + 1, Len(s)) = SubSeq(s, 1, Len(s))
      BY <1>1, <3>1, ConcatAdjacentSubSeq
    <3> QED BY <1>1, <3>2, SubSeqFull
  <2>11. Trim(s) \in Strings
    <3>1. \A i \in lo..hi : s[i] \in Runes
      BY <1>1, <2>4
    <3> QED BY <2>3, <2>4, <3>1, SubSeqProperties DEF Strings
  <2> QED BY <2>3, <2>7, <2>8, <2>9, <2>10, <2>11
<1> QED BY <1>2, <1>3

LEMMA TrimProperties ==
    ASSUME NEW s \in Strings
    PROVE  /\ Trim(s) \in Strings
           /\ Without(Trim(s), White) = Without(s, White)
           /\ Len(Trim(s)) <= Len(s)
           /\ \A T : Len(Without(Trim(s), T)) <= Len(Without(s, T))
<1>1. Trim(s) \in Strings
  BY TrimSplit
<1>2. PICK u, v \in Seq(White) : s = (u \o Trim(s)) \o v
  BY TrimSplit
<1>3. White \subseteq Runes
  BY RetrievalAssumption DEF RetrievalConstants
<1>4. u \in Strings /\ v \in Strings
  BY <1>3, SeqMonotonic DEF Strings
<1>5. u \o Trim(s) \in Strings
  BY <1>1, <1>4, ConcatProperties DEF Strings
<1>6. ASSUME NEW T
      PROVE  Without(s, T) = (Without(u, T) \o Without(Trim(s), T)) \o Without(v, T)
  <2>1. Without(s, T) = Without(u \o Trim(s), T) \o Without(v, T)
    <3>1. Without((u \o Trim(s)) \o v, T) = Without(u \o Trim(s), T) \o Without(v, T)
      BY <1>4, <1>5, WithoutConcat
    <3> QED BY <1>2, <3>1
  <2>2. Without(u \o Trim(s), T) = Without(u, T) \o Without(Trim(s), T)
    BY <1>1, <1>4, WithoutConcat
  <2> QED BY <2>1, <2>2
<1>7. Without(s, White) = Without(Trim(s), White)
  <2>1. Without(u, White) = << >> /\ Without(v, White) = << >>
    BY <1>3, WithoutAll
  <2>2. Without(Trim(s), White) \in Seq(Runes)
    BY <1>1, WithoutFold DEF Strings
  <2> QED BY <1>6, <2>1, <2>2, ConcatEmptySeq
<1>8. ASSUME NEW a \in Strings, NEW b \in Strings, NEW c \in Strings
      PROVE  Len(b) <= Len((a \o b) \o c)
  <2>1. a \in Seq(Runes) /\ b \in Seq(Runes) /\ c \in Seq(Runes) /\ a \o b \in Seq(Runes)
    BY ConcatProperties DEF Strings
  <2>2. Len(a \o b) = Len(a) + Len(b) /\ Len((a \o b) \o c) = Len(a \o b) + Len(c)
    BY <2>1, ConcatProperties
  <2>3. Len(a) \in Nat /\ Len(b) \in Nat /\ Len(c) \in Nat
    BY <2>1, LenProperties
  <2> QED BY <2>2, <2>3
<1>9. Len(Trim(s)) <= Len(s)
  BY <1>1, <1>2, <1>4, <1>8
<1>10. ASSUME NEW T
       PROVE  Len(Without(Trim(s), T)) <= Len(Without(s, T))
  <2>1. Without(u, T) \in Strings /\ Without(v, T) \in Strings /\ Without(Trim(s), T) \in Strings
    BY <1>1, <1>4, WithoutFold
  <2> QED BY <1>6, <1>8, <2>1
<1> QED BY <1>1, <1>7, <1>9, <1>10
-----------------------------------------------------------------------------
Pieces == {p \in Strings : 1 <= Len(p) /\ Len(p) <= MaxRunes}

LEMMA Quotient ==
    ASSUME NEW a \in Nat, NEW m \in Nat \ {0}
    PROVE  a \div m \in Nat /\ (a \div m) * m <= a /\ a < (a \div m) * m + m
OBVIOUS

LEMMA ProductMonotonic ==
    ASSUME NEW i \in Nat, NEW j \in Nat, NEW m \in Nat, i <= j
    PROVE  i * m \in Nat /\ j * m \in Nat /\ i * m <= j * m
OBVIOUS

(* The k-th piece of a paragraph. *)
Slice(para, k) == SubSeq(para, (k - 1) * MaxRunes + 1, Min({k * MaxRunes, Len(para)}))

LEMMA SliceIsPiece ==
    ASSUME NEW para \in Strings, NEW k \in Nat \ {0}, (k - 1) * MaxRunes < Len(para)
    PROVE  /\ Slice(para, k) \in Pieces
           /\ SubSeq(para, 1, (k - 1) * MaxRunes) \o Slice(para, k)
                = SubSeq(para, 1, Min({k * MaxRunes, Len(para)}))
<1> DEFINE a == (k - 1) * MaxRunes
           b == k * MaxRunes
           e == Min({b, Len(para)})
<1>1. MaxRunes \in Nat /\ MaxRunes >= 1
  BY RetrievalAssumption DEF RetrievalConstants
<1>2. k - 1 \in Nat
  OBVIOUS
<1>3. a \in Nat /\ b \in Nat /\ b = a + MaxRunes
  BY <1>1, <1>2
<1>4. para \in Seq(Runes) /\ Len(para) \in Nat /\ \A i \in 1..Len(para) : para[i] \in Runes
  BY LenProperties, ElementOfSeq DEF Strings
<1>5. a < Len(para)
  OBVIOUS
<1> HIDE DEF a, b
<1>6. e = IF b <= Len(para) THEN b ELSE Len(para)
  BY <1>3, <1>4, MinOfTwo
<1> HIDE DEF e
<1>7. /\ a + 1 \in Int /\ e \in Int /\ a + 1 <= e /\ e <= Len(para)
      /\ e - (a + 1) + 1 <= MaxRunes /\ e - (a + 1) + 1 >= 1
  BY <1>1, <1>3, <1>4, <1>5, <1>6
<1>8. \A i \in (a + 1)..e : para[i] \in Runes
  BY <1>3, <1>4, <1>7
<1>9. /\ SubSeq(para, a + 1, e) \in Seq(Runes)
      /\ Len(SubSeq(para, a + 1, e)) = e - (a + 1) + 1
  BY <1>7, <1>8, SubSeqProperties
<1>10. SubSeq(para, a + 1, e) \in Pieces
  BY <1>7, <1>9 DEF Pieces, Strings
<1>11. SubSeq(para, 1, a) \o SubSeq(para, a + 1, e) = SubSeq(para, 1, e)
  <2>1. 1 \in 1..(Len(para) + 1) /\ a \in (1 - 1)..Len(para) /\ e \in a..Len(para)
    BY <1>3, <1>4, <1>5, <1>7
  <2> QED BY <1>4, <2>1, ConcatAdjacentSubSeq
<1> QED BY <1>10, <1>11 DEF Slice, a, b, e

LEMMA SlicesJoin ==
    ASSUME NEW para \in Strings, NEW n \in Nat, n = 0 \/ (n - 1) * MaxRunes < Len(para)
    PROVE  /\ [k \in 1..n |-> Slice(para, k)] \in Seq(Pieces)
           /\ Joined([k \in 1..n |-> Slice(para, k)]) = SubSeq(para, 1, Min({n * MaxRunes, Len(para)}))
<1> DEFINE slices(m) == [k \in 1..m |-> Slice(para, k)]
           upto(m) == Min({m * MaxRunes, Len(para)})
           L == {m \in Nat : m = 0 \/ (m - 1) * MaxRunes < Len(para) =>
                    slices(m) \in Seq(Pieces) /\ Joined(slices(m)) = SubSeq(para, 1, upto(m))}
<1>0. MaxRunes \in Nat /\ Len(para) \in Nat /\ para \in Seq(Runes)
  BY RetrievalAssumption, LenProperties DEF RetrievalConstants, Strings
<1>1. 0 \in L
  <2>1. slices(0) = << >> /\ << >> \in Seq(Pieces)
    BY EmptySeq
  <2>2. upto(0) = 0
    BY <1>0, MinOfTwo
  <2>3. SubSeq(para, 1, 0) = << >>
    BY SubSeqEmpty
  <2> QED BY <2>1, <2>2, <2>3, JoinedFold
<1>2. ASSUME NEW m \in Nat, m \in L
      PROVE  m + 1 \in L
  <2>1. SUFFICES ASSUME m * MaxRunes < Len(para)
                 PROVE  /\ slices(m + 1) \in Seq(Pieces)
                        /\ Joined(slices(m + 1)) = SubSeq(para, 1, upto(m + 1))
    <3>1. m + 1 \in Nat /\ m + 1 # 0 /\ (m + 1) - 1 = m
      OBVIOUS
    <3> HIDE DEF slices, upto
    <3> QED BY <3>1
  <2>2. m = 0 \/ (m - 1) * MaxRunes < Len(para)
    <3>1. CASE m = 0
      BY <3>1
    <3>2. CASE m # 0
      <4>1. m - 1 \in Nat /\ m - 1 <= m
        BY <3>2
      <4>2. (m - 1) * MaxRunes \in Nat /\ m * MaxRunes \in Nat /\ (m - 1) * MaxRunes <= m * MaxRunes
        BY <1>0, <4>1, ProductMonotonic
      <4> QED BY <1>0, <2>1, <4>2
    <3> QED BY <3>1, <3>2
  <2>3. slices(m) \in Seq(Pieces) /\ Joined(slices(m)) = SubSeq(para, 1, upto(m))
    BY <1>2, <2>2
  <2>4. upto(m) = m * MaxRunes
    BY <1>0, <2>1, MinOfTwo
  <2>5. /\ Slice(para, m + 1) \in Pieces
        /\ SubSeq(para, 1, m * MaxRunes) \o Slice(para, m + 1) = SubSeq(para, 1, upto(m + 1))
    <3>1. m + 1 \in Nat \ {0} /\ (m + 1) - 1 = m
      OBVIOUS
    <3> QED BY <2>1, <3>1, SliceIsPiece
  <2>6. Len(slices(m)) = m
    BY <2>3, LenProperties
  <2>7. slices(m + 1) = Append(slices(m), Slice(para, m + 1))
    <3> DEFINE t == slices(m)
               u == Slice(para, m + 1)
    <3>1. /\ Append(t, u) \in Seq(Pieces) /\ Len(Append(t, u)) = m + 1
          /\ \A i \in 1..m : Append(t, u)[i] = t[i]
          /\ Append(t, u)[m + 1] = u
      <4> HIDE DEF t, u
      <4>1. t \in Seq(Pieces) /\ u \in Pieces /\ Len(t) = m
        BY <2>3, <2>5, <2>6 DEF t, u
      <4> QED BY <4>1, AppendProperties
    <3>2. \A i \in 1..m : t[i] = Slice(para, i)
      OBVIOUS
    <3> HIDE DEF t, u
    <3>3. Append(t, u) \in [1..(m + 1) -> Pieces]
      BY <3>1, LenProperties
    <3>4. \A i \in 1..(m + 1) : Append(t, u)[i] = Slice(para, i)
      BY <3>1, <3>2 DEF u
    <3> QED BY <3>3, <3>4 DEF t, u
  <2>8. slices(m) \in Seq(Strings) /\ Slice(para, m + 1) \in Strings
    <3>1. Pieces \subseteq Strings
      BY DEF Pieces
    <3> QED BY <2>3, <2>5, <3>1, SeqMonotonic
  <2>9. Joined(slices(m + 1)) = Joined(slices(m)) \o Slice(para, m + 1)
    BY <2>7, <2>8, JoinedFold
  <2>10. slices(m + 1) \in Seq(Pieces)
    BY <2>3, <2>5, <2>7, AppendProperties
  <2> QED BY <2>3, <2>4, <2>5, <2>9, <2>10
<1>3. \A m \in Nat : m \in L
  <2> HIDE DEF L
  <2> QED BY <1>1, <1>2, Induction
<1> QED BY <1>3

(* hardSplit gives pieces that are not empty, not longer than MaxRunes, and
   put together are the paragraph. *)
THEOREM HardSplitCuts ==
    ASSUME NEW para \in Strings, para # << >>
    PROVE  HardSplit(para) \in Seq(Pieces) /\ Joined(HardSplit(para)) = para
<1>1. MaxRunes \in Nat \ {0} /\ Len(para) \in Nat \ {0} /\ para \in Seq(Runes)
  BY RetrievalAssumption, LenProperties, EmptySeq DEF RetrievalConstants, Strings
<1>2. CASE Len(para) <= MaxRunes
  <2>1. HardSplit(para) = <<para>>
    BY <1>2 DEF HardSplit
  <2>2. para \in Pieces
    BY <1>1, <1>2 DEF Pieces
  <2>3. << >> \in Seq(Strings) /\ <<para>> = Append(<< >>, para)
    BY EmptySeq
  <2>4. Joined(<<para>>) = << >> \o para
    BY <2>3, JoinedFold
  <2> QED BY <1>1, <2>1, <2>2, <2>4, ConcatEmptySeq
<1>3. CASE ~(Len(para) <= MaxRunes)
  <2> DEFINE n == (Len(para) + MaxRunes - 1) \div MaxRunes
  <2>1. /\ n \in Nat /\ n * MaxRunes <= Len(para) + MaxRunes - 1
        /\ Len(para) + MaxRunes - 1 < n * MaxRunes + MaxRunes
    <3>1. Len(para) + MaxRunes - 1 \in Nat
      BY <1>1
    <3> QED BY <1>1, <3>1, Quotient
  <2>2. HardSplit(para) = [k \in 1..n |-> Slice(para, k)]
    BY <1>3 DEF HardSplit, Slice
  <2> HIDE DEF n
  <2>3. n * MaxRunes \in Nat /\ (n - 1) * MaxRunes = n * MaxRunes - MaxRunes
    BY <1>1, <2>1
  <2>4. (n - 1) * MaxRunes < Len(para) /\ Len(para) <= n * MaxRunes
    BY <1>1, <2>1, <2>3
  <2>5. Min({n * MaxRunes, Len(para)}) = Len(para)
    BY <1>1, <2>3, <2>4, MinOfTwo
  <2> QED BY <1>1, <2>1, <2>2, <2>4, <2>5, SlicesJoin, SubSeqFull
<1> QED BY <1>2, <1>3
-----------------------------------------------------------------------------
Bounded(c) == Len(Without(c, {Break})) <= MaxRunes /\ Len(c) <= 3 * MaxRunes - 2

(* What holds of the buffer between two pieces. *)
Fits(b) ==
    /\ b \in Buffers
    /\ b.len = 0 => b.cur = << >>
    /\ b.len <= MaxRunes
    /\ Len(Without(b.cur, {Break})) <= b.len
    /\ b.len > 0 => Len(b.cur) <= 3 * b.len - 2
    /\ \A k \in DOMAIN b.chunks : Bounded(b.chunks[k])

(* All that the buffer and the chunks written so far keep of the text. *)
Held(b) == Without(Joined(b.chunks) \o b.cur, White)

LEMMA BufferType ==
    ASSUME NEW b \in Buffers
    PROVE  /\ b.chunks \in Seq(Strings) /\ b.cur \in Strings /\ b.len \in Nat
           /\ Joined(b.chunks) \in Strings
           /\ Held(b) = Without(Joined(b.chunks), White) \o Without(b.cur, White)
<1>1. b.chunks \in Seq(Strings) /\ b.cur \in Strings /\ b.len \in Nat
  BY DEF Buffers
<1>2. Joined(b.chunks) \in Strings
  BY <1>1, JoinedFold
<1> QED BY <1>1, <1>2, WithoutConcat DEF Held

LEMMA FlushFits ==
    ASSUME NEW b, Fits(b)
    PROVE  Fits(Flush(b)) /\ Flush(b).len = 0 /\ Held(Flush(b)) = Held(b)
<1>0. /\ b \in Buffers /\ b.len <= MaxRunes /\ Len(Without(b.cur, {Break})) <= b.len
      /\ b.len > 0 => Len(b.cur) <= 3 * b.len - 2
      /\ \A k \in DOMAIN b.chunks : Bounded(b.chunks[k])
  BY DEF Fits
<1>1. CASE b.len = 0
  BY <1>1 DEF Flush
<1>2. CASE b.len # 0
  <2> DEFINE c == Trim(b.cur)
             d == [chunks |-> Append(b.chunks, c), cur |-> << >>, len |-> 0]
  <2>1. Flush(b) = d
    BY <1>2 DEF Flush
  <2>2. /\ b.chunks \in Seq(Strings) /\ b.cur \in Strings /\ b.len \in Nat
        /\ Joined(b.chunks) \in Strings
        /\ Held(b) = Without(Joined(b.chunks), White) \o Without(b.cur, White)
    BY <1>0, BufferType
  <2>3. /\ c \in Strings /\ Without(c, White) = Without(b.cur, White)
        /\ Len(c) <= Len(b.cur) /\ Len(Without(c, {Break})) <= Len(Without(b.cur, {Break}))
    BY <2>2, TrimProperties
  <2>4. Bounded(c)
    <3>1. MaxRunes \in Nat /\ b.len \in Nat /\ b.len > 0
      BY <1>2, <2>2, RetrievalAssumption DEF RetrievalConstants
    <3>2. Without(c, {Break}) \in Seq(Runes) /\ Without(b.cur, {Break}) \in Seq(Runes)
      BY <2>2, <2>3, WithoutFold DEF Strings
    <3>3. /\ Len(c) \in Nat /\ Len(b.cur) \in Nat
          /\ Len(Without(c, {Break})) \in Nat /\ Len(Without(b.cur, {Break})) \in Nat
      BY <2>2, <2>3, <3>2, LenProperties DEF Strings
    <3> HIDE DEF c
    <3> QED BY <1>0, <2>3, <3>1, <3>3 DEF Bounded
  <2> HIDE DEF c
  <2>5. /\ d.chunks = Append(b.chunks, c) /\ d.cur = << >> /\ d.len = 0
        /\ d.chunks \in Seq(Strings) /\ d \in Buffers
    <3>1. Append(b.chunks, c) \in Seq(Strings) /\ << >> \in Strings
      BY <2>2, <2>3, AppendProperties, EmptySeq DEF Strings
    <3> QED BY <3>1 DEF Buffers
  <2>6. \A k \in DOMAIN d.chunks : Bounded(d.chunks[k])
    <3> SUFFICES ASSUME NEW k \in DOMAIN d.chunks
                 PROVE  Bounded(d.chunks[k])
      OBVIOUS
    <3>1. /\ Len(b.chunks) \in Nat /\ DOMAIN b.chunks = 1..Len(b.chunks)
          /\ DOMAIN d.chunks = 1..(Len(b.chunks) + 1)
          /\ \A i \in 1..Len(b.chunks) : d.chunks[i] = b.chunks[i]
          /\ d.chunks[Len(b.chunks) + 1] = c
      BY <2>2, <2>3, <2>5, AppendProperties, LenProperties
    <3> HIDE DEF d
    <3>2. CASE k \in 1..Len(b.chunks)
      BY <1>0, <3>1, <3>2
    <3>3. CASE k = Len(b.chunks) + 1
      BY <2>4, <3>1, <3>3
    <3> QED BY <3>1, <3>2, <3>3
  <2>7. Len(Without(d.cur, {Break})) <= d.len
    BY <2>5, WithoutFold, EmptySeq
  <2>8. Fits(d)
    <3> HIDE DEF d
    <3> QED BY <2>5, <2>6, <2>7, RetrievalAssumption DEF Fits, RetrievalConstants
  <2>9. Held(d) = Held(b)
    <3>1. Held(d) = Without(Joined(d.chunks), White) \o Without(<< >>, White)
      BY <2>5, BufferType
    <3>2. Joined(d.chunks) = Joined(b.chunks) \o c
      BY <2>2, <2>3, <2>5, JoinedFold
    <3>3. Without(Joined(d.chunks), White) = Without(Joined(b.chunks), White) \o Without(c, White)
      BY <2>2, <2>3, <3>2, WithoutConcat
    <3>4. Held(b) \in Seq(Runes) /\ Without(Joined(d.chunks), White) = Held(b)
      BY <2>2, <2>3, <3>3, WithoutFold, ConcatProperties DEF Strings, Held
    <3> QED BY <3>1, <3>4, WithoutFold, ConcatEmptySeq
  <2> QED BY <2>1, <2>5, <2>8, <2>9
<1> QED BY <1>1, <1>2

LEMMA GluedFits ==
    ASSUME NEW b, Fits(b), NEW p \in Pieces, b.len + Len(p) <= MaxRunes
    PROVE  Fits(Glued(b, p)) /\ Held(Glued(b, p)) = Held(b) \o Without(p, White)
<1> DEFINE sep == IF b.len > 0 THEN Sep ELSE << >>
           cur == (b.cur \o sep) \o p
           d == [chunks |-> b.chunks, cur |-> cur, len |-> b.len + Len(p)]
<1>0. /\ b \in Buffers /\ b.len <= MaxRunes /\ Len(Without(b.cur, {Break})) <= b.len
      /\ b.len = 0 => b.cur = << >>
      /\ b.len > 0 => Len(b.cur) <= 3 * b.len - 2
      /\ \A k \in DOMAIN b.chunks : Bounded(b.chunks[k])
  BY DEF Fits
<1>1. Glued(b, p) = d
  BY DEF Glued
<1>2. /\ b.chunks \in Seq(Strings) /\ b.cur \in Strings /\ b.len \in Nat
      /\ Joined(b.chunks) \in Strings
      /\ Held(b) = Without(Joined(b.chunks), White) \o Without(b.cur, White)
  BY <1>0, BufferType
<1>3. p \in Strings /\ Len(p) \in Nat /\ Len(p) >= 1
  BY LenProperties DEF Pieces, Strings
<1>4. /\ sep \in Strings /\ Len(sep) = IF b.len > 0 THEN 2 ELSE 0
      /\ Without(sep, White) = << >> /\ Without(sep, {Break}) = << >>
  <2>1. Break \in White /\ White \subseteq Runes /\ {Break} \subseteq Runes
    BY RetrievalAssumption DEF RetrievalConstants
  <2>2. sep \in Seq({Break}) /\ Len(sep) = IF b.len > 0 THEN 2 ELSE 0
    <3>1. Sep \in Seq({Break}) /\ Len(Sep) = 2
      BY DEF Sep
    <3>2. << >> \in Seq({Break}) /\ Len(<< >>) = 0
      BY EmptySeq
    <3>3. CASE b.len > 0
      BY <3>1, <3>3
    <3>4. CASE ~(b.len > 0)
      BY <3>2, <3>4
    <3> QED BY <3>3, <3>4
  <2> HIDE DEF sep
  <2>3. sep \in Seq(White) /\ sep \in Strings
    BY <2>1, <2>2, SeqMonotonic DEF Strings
  <2> QED BY <2>1, <2>2, <2>3, WithoutAll
<1> HIDE DEF sep
<1>5. b.cur \o sep \in Strings /\ cur \in Strings
  BY <1>2, <1>3, <1>4, ConcatProperties DEF Strings
<1>6. Len(cur) = Len(b.cur) + Len(sep) + Len(p) /\ Len(b.cur) \in Nat
  <2>1. /\ b.cur \in Seq(Runes) /\ sep \in Seq(Runes) /\ p \in Seq(Runes)
        /\ b.cur \o sep \in Seq(Runes)
    BY <1>2, <1>3, <1>4, <1>5 DEF Strings
  <2>2. Len(b.cur \o sep) = Len(b.cur) + Len(sep)
    BY <2>1, ConcatProperties
  <2>3. Len(cur) = Len(b.cur \o sep) + Len(p)
    BY <2>1, ConcatProperties
  <2>4. Len(b.cur) \in Nat
    BY <2>1, LenProperties
  <2> QED BY <2>2, <2>3, <2>4
<1>7. ASSUME NEW T, Without(sep, T) = << >>
      PROVE  Without(cur, T) = Without(b.cur, T) \o Without(p, T)
  <2>1. Without(cur, T) = Without(b.cur \o sep, T) \o Without(p, T)
    BY <1>3, <1>5, WithoutConcat
  <2>2. Without(b.cur \o sep, T) = Without(b.cur, T) \o << >>
    BY <1>2, <1>4, <1>7, WithoutConcat
  <2>3. Without(b.cur, T) \in Seq(Runes)
    BY <1>2, WithoutFold DEF Strings
  <2> QED BY <2>1, <2>2, <2>3, ConcatEmptySeq
<1> HIDE DEF cur
<1>8. Len(Without(cur, {Break})) <= b.len + Len(p)
  <2>1. Without(cur, {Break}) = Without(b.cur, {Break}) \o Without(p, {Break})
    BY <1>4, <1>7
  <2>2. Without(b.cur, {Break}) \in Seq(Runes) /\ Without(p, {Break}) \in Seq(Runes)
    BY <1>2, <1>3, WithoutFold DEF Strings
  <2>3. Len(Without(cur, {Break})) = Len(Without(b.cur, {Break})) + Len(Without(p, {Break}))
    BY <2>1, <2>2, ConcatProperties
  <2>4. Len(Without(p, {Break})) <= Len(p)
    BY <1>3, WithoutShorter
  <2>5. Len(Without(b.cur, {Break})) \in Nat /\ Len(Without(p, {Break})) \in Nat
    BY <2>2, LenProperties
  <2> QED BY <1>0, <1>2, <1>3, <2>3, <2>4, <2>5
<1>9. b.len + Len(p) > 0 /\ Len(cur) <= 3 * (b.len + Len(p)) - 2
  <2>1. CASE b.len = 0
    <3>1. Len(b.cur) = 0 /\ Len(sep) = 0
      BY <1>0, <1>4, <2>1, EmptySeq
    <3>2. Len(cur) = Len(p)
      BY <1>3, <1>6, <3>1
    <3> QED BY <1>3, <2>1, <3>2
  <2>2. CASE b.len > 0
    <3>1. Len(cur) = Len(b.cur) + 2 + Len(p) /\ Len(b.cur) \in Nat
      BY <1>4, <1>6, <2>2
    <3>2. Len(b.cur) <= 3 * b.len - 2
      BY <1>0, <2>2
    <3> QED BY <1>2, <1>3, <2>2, <3>1, <3>2
  <2>3. b.len \in Nat
    BY <1>2
  <2> QED BY <2>1, <2>2, <2>3
<1>10. Without(cur, White) = Without(b.cur, White) \o Without(p, White)
  BY <1>4, <1>7
<1>11. /\ d.chunks = b.chunks /\ d.cur = cur /\ d.len = b.len + Len(p) /\ d.len \in Nat
       /\ d \in Buffers
  BY <1>2, <1>3, <1>5 DEF Buffers
<1> HIDE DEF d
<1>12. Fits(d)
  BY <1>0, <1>8, <1>9, <1>11 DEF Fits
<1>13. Held(d) = Held(b) \o Without(p, White)
  <2>1. Held(d) = Without(Joined(b.chunks), White) \o (Without(b.cur, White) \o Without(p, White))
    BY <1>10, <1>11, BufferType
  <2>2. /\ Without(Joined(b.chunks), White) \in Seq(Runes)
        /\ Without(b.cur, White) \in Seq(Runes) /\ Without(p, White) \in Seq(Runes)
    BY <1>2, <1>3, WithoutFold DEF Strings
  <2> QED BY <1>2, <2>1, <2>2, ConcatAssociative
<1> QED BY <1>1, <1>12, <1>13

LEMMA PackFits ==
    ASSUME NEW b, Fits(b), NEW p \in Pieces
    PROVE  Fits(Pack(b, p)) /\ Held(Pack(b, p)) = Held(b) \o Without(p, White)
<1>1. Fits(Flush(b)) /\ Flush(b).len = 0 /\ Held(Flush(b)) = Held(b)
  BY FlushFits
<1>2. Len(p) \in Nat /\ Len(p) <= MaxRunes
  BY LenProperties DEF Pieces, Strings
<1>3. CASE b.len + Len(p) > MaxRunes
  <2>1. Pack(b, p) = Glued(Flush(b), p)
    BY <1>3 DEF Pack
  <2>2. Flush(b).len + Len(p) <= MaxRunes
    BY <1>1, <1>2
  <2> QED BY <1>1, <2>1, <2>2, GluedFits
<1>4. CASE ~(b.len + Len(p) > MaxRunes)
  <2>1. Pack(b, p) = Glued(b, p)
    BY <1>4 DEF Pack
  <2>2. b.len \in Nat /\ MaxRunes \in Nat
    BY RetrievalAssumption DEF Fits, Buffers, RetrievalConstants
  <2>3. b.len + Len(p) <= MaxRunes
    BY <1>2, <1>4, <2>2
  <2> QED BY <2>1, <2>3, GluedFits
<1> QED BY <1>3, <1>4
-----------------------------------------------------------------------------
LEMMA FlushType ==
    ASSUME NEW b \in Buffers
    PROVE  Flush(b) \in Buffers
<1>1. b.chunks \in Seq(Strings) /\ b.cur \in Strings
  BY DEF Buffers
<1>2. Append(b.chunks, Trim(b.cur)) \in Seq(Strings) /\ << >> \in Strings
  BY <1>1, TrimProperties, AppendProperties, EmptySeq DEF Strings
<1> QED BY <1>2 DEF Flush, Buffers

LEMMA PackType ==
    ASSUME NEW b \in Buffers, NEW p \in Strings
    PROVE  Pack(b, p) \in Buffers
<1>1. \A c \in Buffers : Glued(c, p) \in Buffers
  <2> SUFFICES ASSUME NEW c \in Buffers
               PROVE  Glued(c, p) \in Buffers
    OBVIOUS
  <2> DEFINE sep == IF c.len > 0 THEN Sep ELSE << >>
  <2>1. c.chunks \in Seq(Strings) /\ c.cur \in Strings /\ c.len \in Nat /\ Len(p) \in Nat
    BY LenProperties DEF Buffers, Strings
  <2>2. sep \in Strings
    <3>1. Sep \in Strings
      BY RetrievalAssumption DEF RetrievalConstants, Sep, Strings
    <3> QED BY <3>1, EmptySeq DEF Strings
  <2>3. Glued(c, p) = [chunks |-> c.chunks, cur |-> (c.cur \o sep) \o p, len |-> c.len + Len(p)]
    BY DEF Glued
  <2> HIDE DEF sep
  <2>4. (c.cur \o sep) \o p \in Strings
    BY <2>1, <2>2, ConcatProperties DEF Strings
  <2> QED BY <2>1, <2>3, <2>4 DEF Buffers
<1> QED BY <1>1, FlushType DEF Pack

LEMMA PackPiecesFold ==
    ASSUME NEW b \in Buffers
    PROVE  /\ PackPieces(b, << >>) = b
           /\ \A ps \in Seq(Strings) : PackPieces(b, ps) \in Buffers
           /\ \A ps \in Seq(Strings), p \in Strings :
                PackPieces(b, Append(ps, p)) = Pack(PackPieces(b, ps), p)
<1> DEFINE body == [p \in Strings |-> [c \in Buffers |-> Pack(c, p)]]
<1>1. IsBody(body, Strings, Buffers)
  BY PackType DEF IsBody
<1>2. \A p \in Strings, c \in Buffers : body[p][c] = Pack(c, p)
  OBVIOUS
<1>3. \A ps : PackPieces(b, ps) = Fold(body, b, ps)
  BY DEF PackPieces
<1> HIDE DEF body
<1>4. PackPieces(b, << >>) = b
  BY <1>1, <1>3, FoldEmpty
<1>5. ASSUME NEW ps \in Seq(Strings)
      PROVE  PackPieces(b, ps) \in Buffers
  <2>1. Fold(body, b, ps) \in Buffers
    BY <1>1, FoldType
  <2> QED BY <1>3, <2>1
<1>6. ASSUME NEW ps \in Seq(Strings), NEW p \in Strings
      PROVE  PackPieces(b, Append(ps, p)) = Pack(PackPieces(b, ps), p)
  <2>1. Fold(body, b, Append(ps, p)) = body[p][Fold(body, b, ps)]
    BY <1>1, FoldAppend
  <2> QED BY <1>2, <1>3, <1>5, <2>1
<1> QED BY <1>4, <1>5, <1>6

LEMMA PackPiecesFits ==
    ASSUME NEW b, Fits(b), NEW ps \in Seq(Pieces)
    PROVE  /\ Fits(PackPieces(b, ps))
           /\ Held(PackPieces(b, ps)) = Held(b) \o Without(Joined(ps), White)
<1> DEFINE E == {qs \in Seq(Pieces) :
                    /\ Fits(PackPieces(b, qs))
                    /\ Held(PackPieces(b, qs)) = Held(b) \o Without(Joined(qs), White)}
<1>0. b \in Buffers /\ Held(b) \in Seq(Runes)
  <2>1. b \in Buffers
    BY DEF Fits
  <2>2. Joined(b.chunks) \o b.cur \in Strings
    BY <2>1, BufferType, ConcatProperties DEF Strings
  <2> QED BY <2>1, <2>2, WithoutFold DEF Held, Strings
<1>1. << >> \in E
  <2>1. << >> \in Seq(Pieces)
    BY EmptySeq
  <2>2. PackPieces(b, << >>) = b
    BY <1>0, PackPiecesFold
  <2>3. Held(b) \o Without(Joined(<< >>), White) = Held(b)
    BY <1>0, JoinedFold, WithoutFold, ConcatEmptySeq
  <2> QED BY <2>1, <2>2, <2>3
<1>2. ASSUME NEW qs \in Seq(Pieces), NEW p \in Pieces, qs \in E
      PROVE  Append(qs, p) \in E
  <2>1. /\ qs \in Seq(Strings) /\ p \in Strings /\ Append(qs, p) \in Seq(Pieces)
        /\ Fits(PackPieces(b, qs))
        /\ Held(PackPieces(b, qs)) = Held(b) \o Without(Joined(qs), White)
    <3>1. Pieces \subseteq Strings
      BY DEF Pieces
    <3> QED BY <1>2, <3>1, SeqMonotonic, AppendProperties
  <2>2. PackPieces(b, Append(qs, p)) = Pack(PackPieces(b, qs), p)
    BY <1>0, <2>1, PackPiecesFold
  <2>3. /\ Fits(Pack(PackPieces(b, qs), p))
        /\ Held(Pack(PackPieces(b, qs), p)) = Held(PackPieces(b, qs)) \o Without(p, White)
    BY <2>1, PackFits
  <2>4. /\ Joined(qs) \in Strings
        /\ Without(Joined(Append(qs, p)), White) = Without(Joined(qs), White) \o Without(p, White)
    <3>1. Joined(Append(qs, p)) = Joined(qs) \o p /\ Joined(qs) \in Strings
      BY <2>1, JoinedFold
    <3>2. Without(Joined(qs) \o p, White) = Without(Joined(qs), White) \o Without(p, White)
      BY <2>1, <3>1, WithoutConcat
    <3> QED BY <3>1, <3>2
  <2>5. Without(Joined(qs), White) \in Seq(Runes) /\ Without(p, White) \in Seq(Runes)
    BY <2>1, <2>4, WithoutFold DEF Strings
  <2>6. Held(PackPieces(b, Append(qs, p))) = Held(b) \o Without(Joined(Append(qs, p)), White)
    BY <1>0, <2>1, <2>2, <2>3, <2>4, <2>5, ConcatAssociative
  <2> QED BY <2>1, <2>2, <2>3, <2>6
<1>3. \A qs \in Seq(Pieces) : qs \in E
  <2> HIDE DEF E
  <2> QED BY <1>1, <1>2, SeqInduction
<1> QED BY <1>3

LEMMA PackParagraphFits ==
    ASSUME NEW para \in Strings
    PROVE  /\ \A b \in Buffers : PackParagraph(b, para) \in Buffers
           /\ \A b : Fits(b) => /\ Fits(PackParagraph(b, para))
                                /\ Held(PackParagraph(b, para)) = Held(b) \o Without(para, White)
<1>1. Trim(para) \in Strings /\ Without(Trim(para), White) = Without(para, White)
  BY TrimProperties
<1>2. CASE Trim(para) = << >>
  <2>1. \A b : PackParagraph(b, para) = b
    BY <1>2 DEF PackParagraph
  <2>2. Without(para, White) = << >>
    BY <1>1, <1>2, WithoutFold
  <2>3. ASSUME NEW b, Fits(b)
        PROVE  Held(b) = Held(b) \o Without(para, White)
    <3>1. b \in Buffers
      BY <2>3 DEF Fits
    <3>2. Joined(b.chunks) \o b.cur \in Strings
      BY <3>1, BufferType, ConcatProperties DEF Strings
    <3>3. Held(b) \in Seq(Runes)
      BY <3>2, WithoutFold DEF Held, Strings
    <3> QED BY <2>2, <3>3, ConcatEmptySeq
  <2> QED BY <2>1, <2>3
<1>3. CASE Trim(para) # << >>
  <2>1. \A b : PackParagraph(b, para) = PackPieces(b, HardSplit(Trim(para)))
    BY <1>3 DEF PackParagraph
  <2>2. HardSplit(Trim(para)) \in Seq(Pieces) /\ Joined(HardSplit(Trim(para))) = Trim(para)
    BY <1>1, <1>3, HardSplitCuts
  <2>3. HardSplit(Trim(para)) \in Seq(Strings)
    <3>1. Pieces \subseteq Strings
      BY DEF Pieces
    <3> QED BY <2>2, <3>1, SeqMonotonic
  <2>4. ASSUME NEW b \in Buffers
        PROVE  PackParagraph(b, para) \in Buffers
    BY <2>1, <2>3, PackPiecesFold
  <2>5. ASSUME NEW b, Fits(b)
        PROVE  /\ Fits(PackParagraph(b, para))
               /\ Held(PackParagraph(b, para)) = Held(b) \o Without(para, White)
    BY <1>1, <2>1, <2>2, <2>5, PackPiecesFits
  <2> QED BY <2>4, <2>5
<1> QED BY <1>2, <1>3

(* chunk.Chunk loses, repeats and reorders nothing but white space, and no
   chunk holds more than MaxRunes runes of the text. *)
THEOREM ChunkCuts ==
    ASSUME NEW paras \in Seq(Strings)
    PROVE  /\ Chunk(paras) \in Seq(Strings)
           /\ Without(Joined(Chunk(paras)), White) = Without(Joined(paras), White)
           /\ \A k \in DOMAIN Chunk(paras) : Bounded(Chunk(paras)[k])
<1> DEFINE body == [p \in Strings |-> [b \in Buffers |-> PackParagraph(b, p)]]
           after(ps) == Fold(body, NoBuffer, ps)
           E == {ps \in Seq(Strings) :
                    Fits(after(ps)) /\ Held(after(ps)) = Without(Joined(ps), White)}
<1>1. IsBody(body, Strings, Buffers)
  BY PackParagraphFits DEF IsBody
<1>2. \A p \in Strings, b \in Buffers : body[p][b] = PackParagraph(b, p)
  OBVIOUS
<1>3. Chunk(paras) = Flush(after(paras)).chunks
  BY DEF Chunk
<1> HIDE DEF body
<1>4. NoBuffer \in Buffers /\ Fits(NoBuffer) /\ Held(NoBuffer) = << >>
  <2>1. << >> \in Strings /\ << >> \in Seq(Strings) /\ Len(<< >>) = 0 /\ << >> \o << >> = << >>
    BY EmptySeq, ConcatEmptySeq DEF Strings
  <2>2. NoBuffer \in Buffers /\ NoBuffer.chunks = << >> /\ NoBuffer.cur = << >> /\ NoBuffer.len = 0
    BY <2>1 DEF NoBuffer, Buffers
  <2>3. Fits(NoBuffer)
    BY <2>1, <2>2, WithoutFold, RetrievalAssumption DEF Fits, RetrievalConstants
  <2>4. Held(NoBuffer) = << >>
    BY <2>1, <2>2, WithoutFold, JoinedFold DEF Held
  <2> QED BY <2>2, <2>3, <2>4
<1>5. << >> \in E
  <2>1. after(<< >>) = NoBuffer
    BY <1>1, <1>4, FoldEmpty
  <2>2. << >> \in Seq(Strings) /\ Without(Joined(<< >>), White) = << >>
    BY EmptySeq, JoinedFold, WithoutFold
  <2> QED BY <1>4, <2>1, <2>2
<1>6. ASSUME NEW ps \in Seq(Strings), NEW p \in Strings, ps \in E
      PROVE  Append(ps, p) \in E
  <2>1. Fits(after(ps)) /\ Held(after(ps)) = Without(Joined(ps), White)
    BY <1>6
  <2>2. after(Append(ps, p)) = PackParagraph(after(ps), p)
    <3>1. after(Append(ps, p)) = body[p][after(ps)] /\ after(ps) \in Buffers
      BY <1>1, <1>4, FoldAppend, FoldType
    <3> QED BY <1>2, <3>1
  <2> HIDE DEF after
  <2>3. /\ Fits(PackParagraph(after(ps), p))
        /\ Held(PackParagraph(after(ps), p)) = Held(after(ps)) \o Without(p, White)
    BY <2>1, PackParagraphFits
  <2>4. Without(Joined(Append(ps, p)), White) = Without(Joined(ps), White) \o Without(p, White)
    <3>1. Joined(Append(ps, p)) = Joined(ps) \o p /\ Joined(ps) \in Strings
      BY JoinedFold
    <3>2. Without(Joined(ps) \o p, White) = Without(Joined(ps), White) \o Without(p, White)
      BY <3>1, WithoutConcat
    <3> QED BY <3>1, <3>2
  <2>5. Append(ps, p) \in Seq(Strings)
    BY AppendProperties
  <2> QED BY <2>1, <2>2, <2>3, <2>4, <2>5
<1>7. \A ps \in Seq(Strings) : ps \in E
  <2> HIDE DEF E
  <2> QED BY <1>5, <1>6, SeqInduction
<1> DEFINE b == Flush(after(paras))
<1>8. Fits(b) /\ b.len = 0 /\ Held(b) = Without(Joined(paras), White)
  BY <1>7, FlushFits
<1> HIDE DEF b
<1>9. b \in Buffers /\ b.cur = << >>
  BY <1>8 DEF Fits
<1>10. Held(b) = Without(Joined(b.chunks), White)
  <2>1. Joined(b.chunks) \in Seq(Runes)
    BY <1>9, BufferType DEF Strings
  <2> QED BY <1>9, <2>1, ConcatEmptySeq DEF Held
<1>11. b.chunks \in Seq(Strings) /\ \A k \in DOMAIN b.chunks : Bounded(b.chunks[k])
  BY <1>8, <1>9, BufferType DEF Fits
<1> QED BY <1>3, <1>8, <1>10, <1>11 DEF b
(* "Empty input yields no chunks": neither does a text of blank paragraphs. *)
THEOREM BlankTextHasNoChunks ==
    ASSUME NEW paras \in Seq({p \in Strings : Trim(p) = << >>})
    PROVE  Chunk(paras) = << >>
<1> DEFINE Blank == {p \in Strings : Trim(p) = << >>}
           body == [p \in Strings |-> [b \in Buffers |-> PackParagraph(b, p)]]
           after(ps) == Fold(body, NoBuffer, ps)
           E == {ps \in Seq(Strings) : after(ps) = NoBuffer}
<1>1. IsBody(body, Strings, Buffers)
  BY PackParagraphFits DEF IsBody
<1>2. \A p \in Blank, b \in Buffers : body[p][b] = b
  BY DEF PackParagraph
<1>3. Chunk(paras) = Flush(after(paras)).chunks
  BY DEF Chunk
<1> HIDE DEF body
<1>4. NoBuffer \in Buffers
  BY EmptySeq DEF NoBuffer, Buffers, Strings
<1>5. << >> \in E
  <2>1. after(<< >>) = NoBuffer
    BY <1>1, <1>4, FoldEmpty
  <2> QED BY <2>1, EmptySeq
<1>6. ASSUME NEW ps \in Seq(Blank), NEW p \in Blank, ps \in E
      PROVE  Append(ps, p) \in E
  <2>1. ps \in Seq(Strings) /\ p \in Strings /\ Append(ps, p) \in Seq(Strings)
    BY <1>6, AppendProperties
  <2>2. after(Append(ps, p)) = body[p][after(ps)]
    BY <1>1, <1>4, <2>1, FoldAppend
  <2> QED BY <1>2, <1>4, <1>6, <2>1, <2>2
<1>7. \A ps \in Seq(Blank) : ps \in E
  <2> HIDE DEF E
  <2> QED BY <1>5, <1>6, SeqInduction
<1> QED BY <1>3, <1>7 DEF Flush, NoBuffer

-----------------------------------------------------------------------------
LEMMA Scaled ==
    ASSUME NEW x \in Nat, NEW y \in Nat, NEW z \in Nat \ {0}
    PROVE  (x >= y <=> x * z >= y * z) /\ (x > y <=> x * z > y * z)
OBVIOUS

LEMMA Swap ==
    ASSUME NEW x \in Nat, NEW y \in Nat, NEW z \in Nat
    PROVE  (x * y) * z = (x * z) * y /\ x * y \in Nat
OBVIOUS

LEMMA Cross ==
    ASSUME NEW a \in Nat, NEW c \in Nat, NEW e \in Nat,
           NEW b \in Nat \ {0}, NEW d \in Nat \ {0}, NEW f \in Nat \ {0},
           a * d >= c * b, c * f >= e * d
    PROVE  a * f >= e * b /\ (a * d > c * b \/ c * f > e * d => a * f > e * b)
<1>1. /\ (a * d) * f >= (c * b) * f /\ (a * d > c * b => (a * d) * f > (c * b) * f)
      /\ (c * f) * b >= (e * d) * b /\ (c * f > e * d => (c * f) * b > (e * d) * b)
  BY Scaled, Swap
<1>2. (a * d) * f = (a * f) * d /\ (c * b) * f = (c * f) * b /\ (e * d) * b = (e * b) * d
  BY Swap
<1>3. (a * f) * d >= (e * b) * d /\ (a * d > c * b \/ c * f > e * d => (a * f) * d > (e * b) * d)
  <2> DEFINE p == (a * f) * d
             q == (c * f) * b
             r == (e * b) * d
  <2>1. p \in Nat /\ q \in Nat /\ r \in Nat
    OBVIOUS
  <2>2. p >= q /\ q >= r /\ (a * d > c * b => p > q) /\ (c * f > e * d => q > r)
    BY <1>1, <1>2
  <2> HIDE DEF p, q, r
  <2>3. p >= r /\ (a * d > c * b \/ c * f > e * d => p > r)
    BY <2>1, <2>2
  <2> QED BY <2>3 DEF p, r
<1>4. a * f \in Nat /\ e * b \in Nat
  OBVIOUS
<1> QED BY <1>3, <1>4, Scaled

LEMMA SumMono ==
    ASSUME NEW a \in Nat, NEW c \in Nat, NEW e \in Nat, NEW g \in Nat,
           NEW b \in Nat \ {0}, NEW d \in Nat \ {0}, NEW f \in Nat \ {0}, NEW h \in Nat \ {0},
           a * d >= c * b, e * h >= g * f
    PROVE  /\ (a * f + e * b) * (d * h) >= (c * h + g * d) * (b * f)
           /\ a * d > c * b \/ e * h > g * f
                => (a * f + e * b) * (d * h) > (c * h + g * d) * (b * f)
<1>1. f * h \in Nat \ {0} /\ b * d \in Nat \ {0}
  OBVIOUS
<1>2. /\ (a * d) * (f * h) >= (c * b) * (f * h)
      /\ a * d > c * b => (a * d) * (f * h) > (c * b) * (f * h)
  BY <1>1, Scaled, Swap
<1>3. /\ (e * h) * (b * d) >= (g * f) * (b * d)
      /\ e * h > g * f => (e * h) * (b * d) > (g * f) * (b * d)
  BY <1>1, Scaled, Swap
<1>4. (a * f + e * b) * (d * h) = (a * d) * (f * h) + (e * h) * (b * d)
  OBVIOUS
<1>5. (c * h + g * d) * (b * f) = (c * b) * (f * h) + (g * f) * (b * d)
  OBVIOUS
<1> DEFINE p == (a * d) * (f * h)
           q == (c * b) * (f * h)
           r == (e * h) * (b * d)
           s == (g * f) * (b * d)
<1>6. p \in Nat /\ q \in Nat /\ r \in Nat /\ s \in Nat
  OBVIOUS
<1> HIDE DEF p, q, r, s
<1>7. p >= q /\ r >= s /\ (a * d > c * b => p > q) /\ (e * h > g * f => r > s)
  BY <1>2, <1>3 DEF p, q, r, s
<1>8. p + r >= q + s /\ (a * d > c * b \/ e * h > g * f => p + r > q + s)
  BY <1>6, <1>7
<1> QED BY <1>4, <1>5, <1>8 DEF p, q, r, s

Fractions == [num : Nat, den : Nat \ {0}]

LEMMA GreaterOrder ==
    ASSUME NEW x \in Fractions, NEW y \in Fractions, NEW z \in Fractions
    PROVE  /\ ~Greater(x, x)
           /\ Greater(x, y) => ~Greater(y, x)
           /\ ~Greater(y, x) /\ ~Greater(z, y) =>
                ~Greater(z, x) /\ (Greater(x, y) \/ Greater(y, z) => Greater(x, z))
<1>1. /\ x.num \in Nat /\ x.den \in Nat \ {0} /\ y.num \in Nat /\ y.den \in Nat \ {0}
      /\ z.num \in Nat /\ z.den \in Nat \ {0}
  BY DEF Fractions
<1>2. ~Greater(x, x)
  BY <1>1 DEF Greater
<1>3. Greater(x, y) => ~Greater(y, x)
  BY <1>1 DEF Greater
<1>4. ASSUME ~Greater(y, x), ~Greater(z, y)
      PROVE  ~Greater(z, x) /\ (Greater(x, y) \/ Greater(y, z) => Greater(x, z))
  <2>1. x.num * y.den >= y.num * x.den /\ y.num * z.den >= z.num * y.den
    BY <1>1, <1>4 DEF Greater
  <2>2. /\ x.num * z.den >= z.num * x.den
        /\ x.num * y.den > y.num * x.den \/ y.num * z.den > z.num * y.den
             => x.num * z.den > z.num * x.den
    BY <1>1, <2>1, Cross
  <2> QED BY <1>1, <2>2 DEF Greater
<1> QED BY <1>2, <1>3, <1>4

LEMMA SumOrder ==
    ASSUME NEW x \in Fractions, NEW y \in Fractions, NEW u \in Fractions, NEW v \in Fractions,
           ~Greater(y, x), ~Greater(v, u)
    PROVE  /\ Sum2(x, u) \in Fractions
           /\ ~Greater(Sum2(y, v), Sum2(x, u))
           /\ Greater(x, y) \/ Greater(u, v) => Greater(Sum2(x, u), Sum2(y, v))
<1> DEFINE a == x.num b == x.den c == y.num d == y.den
           e == u.num f == u.den g == v.num h == v.den
<1>1. /\ a \in Nat /\ b \in Nat \ {0} /\ c \in Nat /\ d \in Nat \ {0}
      /\ e \in Nat /\ f \in Nat \ {0} /\ g \in Nat /\ h \in Nat \ {0}
  BY DEF Fractions
<1>2. a * d >= c * b /\ e * h >= g * f
  BY <1>1 DEF Greater
<1>3. /\ Sum2(x, u).num = a * f + e * b /\ Sum2(x, u).den = b * f
      /\ Sum2(y, v).num = c * h + g * d /\ Sum2(y, v).den = d * h
  BY DEF Sum2
<1>4. (Greater(x, y) <=> a * d > c * b) /\ (Greater(u, v) <=> e * h > g * f)
  BY DEF Greater
<1>5. Sum2(x, u) \in Fractions
  <2>1. x.num * u.den + u.num * x.den \in Nat /\ x.den * u.den \in Nat \ {0}
    BY <1>1
  <2> QED BY <2>1 DEF Sum2, Fractions
<1> HIDE DEF a, b, c, d, e, f, g, h
<1>6. /\ (a * f + e * b) * (d * h) >= (c * h + g * d) * (b * f)
      /\ a * d > c * b \/ e * h > g * f => (a * f + e * b) * (d * h) > (c * h + g * d) * (b * f)
  BY <1>1, <1>2, SumMono
<1> DEFINE p == (a * f + e * b) * (d * h)
           q == (c * h + g * d) * (b * f)
<1>7. /\ Greater(Sum2(y, v), Sum2(x, u)) <=> q > p
      /\ Greater(Sum2(x, u), Sum2(y, v)) <=> p > q
  BY <1>3 DEF Greater
<1>8. p \in Nat /\ q \in Nat
  BY <1>1
<1>9. p >= q /\ (a * d > c * b \/ e * h > g * f => p > q)
  BY <1>6
<1> HIDE DEF p, q
<1>10. ~Greater(Sum2(y, v), Sum2(x, u))
  BY <1>7, <1>8, <1>9
<1>11. ASSUME Greater(x, y) \/ Greater(u, v)
       PROVE  Greater(Sum2(x, u), Sum2(y, v))
  BY <1>4, <1>7, <1>9, <1>11
<1> QED BY <1>5, <1>10, <1>11

-----------------------------------------------------------------------------
(* The comparison that sort.Slice is given is a strict total order, as the
   sort requires. *)
THEOREM BetterIsTotalOrder ==
    ASSUME NEW ids, ids \subseteq Nat, NEW score \in [ids -> Fractions],
           NEW x \in ids, NEW y \in ids, NEW z \in ids
    PROVE  /\ ~Better(score, x, x)
           /\ Better(score, x, y) => ~Better(score, y, x)
           /\ x # y => Better(score, x, y) \/ Better(score, y, x)
           /\ Better(score, x, y) /\ Better(score, y, z) => Better(score, x, z)
<1>1. score[x] \in Fractions /\ score[y] \in Fractions /\ score[z] \in Fractions
  OBVIOUS
<1>2. x \in Nat /\ y \in Nat /\ z \in Nat
  OBVIOUS
<1>3. ~Better(score, x, x)
  BY <1>1, <1>2, GreaterOrder DEF Better
<1>4. Better(score, x, y) => ~Better(score, y, x)
  BY <1>1, <1>2, GreaterOrder DEF Better
<1>5. x # y => Better(score, x, y) \/ Better(score, y, x)
  BY <1>1, <1>2, GreaterOrder DEF Better
<1>6. ASSUME Better(score, x, y), Better(score, y, z)
      PROVE  Better(score, x, z)
  <2>1. ~Greater(score[y], score[x]) /\ ~Greater(score[z], score[y])
    BY <1>1, <1>6, GreaterOrder DEF Better
  <2>2. /\ ~Greater(score[z], score[x])
        /\ Greater(score[x], score[y]) \/ Greater(score[y], score[z]) => Greater(score[x], score[z])
    BY <1>1, <2>1, GreaterOrder
  <2> QED BY <1>2, <1>6, <2>2 DEF Better
<1> QED BY <1>3, <1>4, <1>5, <1>6

LEMMA PlacesOrder ==
    ASSUME NEW ids, ids \subseteq Nat, IsFiniteSet(ids), NEW score \in [ids -> Fractions]
    PROVE  /\ Cardinality(ids) \in Nat
           /\ Places(score) \in [ids -> 1..Cardinality(ids)]
           /\ \A x, y \in ids : Better(score, x, y) => Places(score)[x] < Places(score)[y]
<1> DEFINE ahead(x) == {y \in ids : Better(score, y, x)}
<1>1. DOMAIN score = ids /\ Places(score) = [x \in ids |-> 1 + Cardinality(ahead(x))]
  BY DEF Places
<1>2. Cardinality(ids) \in Nat
  BY FS_CardinalityType
<1>3. ASSUME NEW x \in ids
      PROVE  /\ IsFiniteSet(ahead(x)) /\ Cardinality(ahead(x)) \in Nat
             /\ Cardinality(ahead(x)) + 1 <= Cardinality(ids)
  <2>1. ahead(x) \in SUBSET (ids \ {x})
    BY BetterIsTotalOrder
  <2>2. IsFiniteSet(ids \ {x}) /\ Cardinality(ids \ {x}) = Cardinality(ids) - 1
    BY FS_RemoveElement
  <2> HIDE DEF ahead
  <2>3. IsFiniteSet(ahead(x)) /\ Cardinality(ahead(x)) <= Cardinality(ids \ {x})
    BY <2>1, <2>2, FS_Subset
  <2> QED BY <1>2, <2>2, <2>3, FS_CardinalityType
<1>4. ASSUME NEW x \in ids, NEW y \in ids, Better(score, x, y)
      PROVE  Cardinality(ahead(x)) < Cardinality(ahead(y))
  <2>1. ahead(x) \cup {x} \in SUBSET ahead(y)
    <3>1. ASSUME NEW z \in ahead(x)
          PROVE  z \in ahead(y)
      <4>1. z \in ids /\ Better(score, z, x)
        OBVIOUS
      <4>2. Better(score, z, y)
        BY <1>4, <4>1, BetterIsTotalOrder
      <4> QED BY <4>1, <4>2
    <3>2. x \in ahead(y)
      BY <1>4
    <3> QED BY <3>1, <3>2
  <2>2. x \notin ahead(x)
    BY BetterIsTotalOrder
  <2> HIDE DEF ahead
  <2>3. Cardinality(ahead(x) \cup {x}) = Cardinality(ahead(x)) + 1
    BY <1>3, <2>2, FS_AddElement
  <2>4. Cardinality(ahead(x) \cup {x}) <= Cardinality(ahead(y))
    BY <1>3, <2>1, FS_Subset
  <2> QED BY <1>3, <2>3, <2>4
<1> HIDE DEF ahead
<1> QED BY <1>1, <1>2, <1>3, <1>4

(* The sort returns every id once, the better ones first. *)
THEOREM SortedIsSorted ==
    ASSUME NEW ids, ids \subseteq Nat, IsFiniteSet(ids), NEW score \in [ids -> Fractions]
    PROVE  /\ Sorted(score) \in Seq(ids)
           /\ Len(Sorted(score)) = Cardinality(ids) /\ Cardinality(ids) \in Nat
           /\ \A i, j \in 1..Cardinality(ids) : Sorted(score)[i] = Sorted(score)[j] => i = j
           /\ \A k \in 1..Cardinality(ids), y \in ids :
                Better(score, y, Sorted(score)[k]) => \E j \in 1..(k - 1) : Sorted(score)[j] = y
<1> DEFINE n == Cardinality(ids)
           place == Places(score)
<1>1. /\ n \in Nat /\ place \in [ids -> 1..n]
      /\ \A x, y \in ids : Better(score, x, y) => place[x] < place[y]
  BY PlacesOrder
<1>2. Sorted(score) = [k \in 1..n |-> CHOOSE x \in ids : place[x] = k]
  <2>1. DOMAIN score = ids
    OBVIOUS
  <2> QED BY <2>1 DEF Sorted
<1> HIDE DEF n, place
<1>3. \A x, y \in ids : place[x] = place[y] => x = y
  <2> SUFFICES ASSUME NEW x \in ids, NEW y \in ids, place[x] = place[y], x # y
               PROVE  FALSE
    OBVIOUS
  <2>1. Better(score, x, y) \/ Better(score, y, x)
    BY BetterIsTotalOrder
  <2>2. place[x] \in Nat /\ place[y] \in Nat
    BY <1>1
  <2> QED BY <1>1, <2>1, <2>2
<1>4. place \in Surjection(ids, 1..n)
  <2>1. place \in Injection(ids, 1..n)
    BY <1>1, <1>3 DEF Injection, IsInjective
  <2>2. IsFiniteSet(1..n) /\ Cardinality(1..n) = n
    <3>1. 1 \in Int /\ n \in Int /\ (IF 1 > n THEN 0 ELSE n - 1 + 1) = n
      BY <1>1
    <3> QED BY <3>1, FS_Interval
  <2> QED BY <2>1, <2>2, FS_Injection DEF n
<1>5. \A k \in 1..n : Sorted(score)[k] \in ids /\ place[Sorted(score)[k]] = k
  BY <1>2, <1>4 DEF Surjection
<1>6. Sorted(score) \in Seq(ids) /\ Len(Sorted(score)) = n
  BY <1>1, <1>2, <1>5
<1>7. ASSUME NEW k \in 1..n, NEW y \in ids, Better(score, y, Sorted(score)[k])
      PROVE  \E j \in 1..(k - 1) : Sorted(score)[j] = y
  <2>1. place[y] < place[Sorted(score)[k]] /\ place[y] \in 1..n
    BY <1>1, <1>5, <1>7
  <2>2. place[y] \in 1..(k - 1)
    BY <1>5, <2>1
  <2>3. Sorted(score)[place[y]] = y
    BY <1>3, <1>5, <2>1
  <2> QED BY <2>2, <2>3
<1>8. \A i, j \in 1..n : Sorted(score)[i] = Sorted(score)[j] => i = j
  BY <1>5
<1> QED BY <1>1, <1>6, <1>7, <1>8 DEF n
-----------------------------------------------------------------------------
LEMMA TakeProperties ==
    ASSUME NEW S, NEW s \in Seq(S), NEW n \in Nat
    PROVE  /\ Take(s, n) \in Seq(S)
           /\ Len(Take(s, n)) = IF n <= Len(s) THEN n ELSE Len(s)
           /\ DOMAIN Take(s, n) = 1..Len(Take(s, n))
           /\ \A i \in 1..Len(Take(s, n)) : Take(s, n)[i] = s[i]
<1>1. Len(s) \in Nat /\ \A i \in 1..Len(s) : s[i] \in S
  BY LenProperties, ElementOfSeq
<1> DEFINE m == IF n <= Len(s) THEN n ELSE Len(s)
<1>2. Take(s, n) = SubSeq(s, 1, m) /\ m \in Nat /\ m <= Len(s)
  BY <1>1, MinOfTwo DEF Take
<1> HIDE DEF m
<1>3. \A i \in 1..m : s[i] \in S
  BY <1>1, <1>2
<1>4. /\ SubSeq(s, 1, m) \in Seq(S)
      /\ Len(SubSeq(s, 1, m)) = m
      /\ \A i \in 1..m : SubSeq(s, 1, m)[i] = s[i]
  <2>1. 1 \in Int /\ m \in Int /\ (IF 1 <= m THEN m - 1 + 1 ELSE 0) = m
        /\ m - 1 + 1 = m /\ \A i \in 1..m : 1 + i - 1 = i
    BY <1>2
  <2> QED BY <1>3, <2>1, SubSeqProperties
<1> QED BY <1>2, <1>4, LenProperties DEF m

(* What either search returns, cut at Overscan. *)
Hits(s) == s \in Seq(Nat) /\ IsInjective(s) /\ Len(s) <= Overscan

LEMMA HitsOfTake ==
    ASSUME NEW s \in Seq(1..Rows), IsInjective(s)
    PROVE  Hits(Take(s, Overscan))
<1>1. Overscan \in Nat /\ 1..Rows \subseteq Nat
  BY RetrievalAssumption DEF RetrievalConstants
<1>2. s \in Seq(Nat) /\ Len(s) \in Nat /\ DOMAIN s = 1..Len(s)
  BY <1>1, SeqMonotonic, LenProperties
<1> DEFINE t == Take(s, Overscan)
<1>3. /\ t \in Seq(Nat) /\ Len(t) = IF Overscan <= Len(s) THEN Overscan ELSE Len(s)
      /\ DOMAIN t = 1..Len(t) /\ \A i \in 1..Len(t) : t[i] = s[i]
  BY <1>1, <1>2, TakeProperties
<1> HIDE DEF t
<1>4. Len(t) <= Overscan /\ \A i \in 1..Len(t) : i \in 1..Len(s)
  BY <1>1, <1>2, <1>3
<1>5. IsInjective(t)
  BY <1>2, <1>3, <1>4 DEF IsInjective
<1> QED BY <1>3, <1>4, <1>5 DEF Hits, t

LEMMA RangeIsFinite ==
    ASSUME NEW s, Hits(s)
    PROVE  Range(s) \subseteq Nat /\ IsFiniteSet(Range(s))
<1>1. s \in Seq(Nat) /\ Len(s) \in Nat /\ DOMAIN s = 1..Len(s) /\ s \in [1..Len(s) -> Nat]
  BY LenProperties DEF Hits
<1>2. s \in Surjection(1..Len(s), Range(s))
  BY <1>1 DEF Surjection, Range
<1>3. IsFiniteSet(1..Len(s))
  BY <1>1, FS_Interval
<1>4. IsFiniteSet(Range(s))
  BY <1>2, <1>3, FS_Surjection
<1> QED BY <1>1, <1>4 DEF Range

LEMMA RankProperties ==
    ASSUME NEW s, Hits(s), NEW x
    PROVE  /\ Overscan \in Nat
           /\ x \in Range(s) => Rank(s, x) \in Nat /\ 1 <= Rank(s, x) /\ Rank(s, x) <= Overscan
                                /\ s[Rank(s, x)] = x
           /\ RankOrLast(s, x) \in Nat
           /\ x \in Range(s) <=> RankOrLast(s, x) <= Overscan
<1>1. /\ Len(s) \in Nat /\ DOMAIN s = 1..Len(s) /\ Len(s) <= Overscan /\ Overscan \in Nat
  BY RetrievalAssumption, LenProperties DEF Hits, RetrievalConstants
<1>2. ASSUME x \in Range(s)
      PROVE  Rank(s, x) \in DOMAIN s /\ s[Rank(s, x)] = x
  <2>1. PICK k \in DOMAIN s : s[k] = x
    BY <1>2 DEF Range
  <2> QED BY <2>1 DEF Rank
<1>3. x \in Range(s) => Rank(s, x) \in Nat /\ 1 <= Rank(s, x) /\ Rank(s, x) <= Overscan
  BY <1>1, <1>2
<1> QED BY <1>1, <1>2, <1>3 DEF RankOrLast

LEMMA TermOrder ==
    ASSUME NEW s, Hits(s), NEW w \in Nat \ {0}, NEW x, NEW y
    PROVE  /\ Term(s, x, w) \in Fractions
           /\ RankOrLast(s, x) <= RankOrLast(s, y) => ~Greater(Term(s, y, w), Term(s, x, w))
           /\ RankOrLast(s, x) < RankOrLast(s, y) => Greater(Term(s, x, w), Term(s, y, w))
           /\ RankOrLast(s, x) = RankOrLast(s, y) /\ x # y => x \notin Range(s) /\ y \notin Range(s)
<1> DEFINE i == Rank(s, x)
           j == Rank(s, y)
<1>1. /\ Overscan \in Nat
      /\ x \in Range(s) => i \in Nat /\ 1 <= i /\ i <= Overscan /\ s[i] = x
      /\ y \in Range(s) => j \in Nat /\ 1 <= j /\ j <= Overscan /\ s[j] = y
  BY RankProperties
<1>2. /\ x \in Range(s) => RankOrLast(s, x) = i
      /\ y \in Range(s) => RankOrLast(s, y) = j
      /\ x \notin Range(s) => RankOrLast(s, x) = Overscan + 1
      /\ y \notin Range(s) => RankOrLast(s, y) = Overscan + 1
  BY DEF RankOrLast
<1>3. /\ x \in Range(s) => Term(s, x, w).num = w /\ Term(s, x, w).den = 60 + i
      /\ y \in Range(s) => Term(s, y, w).num = w /\ Term(s, y, w).den = 60 + j
      /\ x \notin Range(s) => Term(s, x, w).num = 0 /\ Term(s, x, w).den = 1
      /\ y \notin Range(s) => Term(s, y, w).num = 0 /\ Term(s, y, w).den = 1
  BY DEF Term, RrfK
<1>4. Term(s, x, w) \in Fractions
  <2>1. CASE x \in Range(s)
    <3>1. Term(s, x, w) = [num |-> w, den |-> 60 + i] /\ 60 + i \in Nat \ {0}
      BY <1>1, <2>1 DEF Term, RrfK
    <3> QED BY <3>1 DEF Fractions
  <2>2. CASE x \notin Range(s)
    BY <2>2 DEF Term, Fractions
  <2> QED BY <2>1, <2>2
<1> HIDE DEF i, j
<1> DEFINE p == Term(s, x, w)
           q == Term(s, y, w)
<1>5. CASE x \in Range(s) /\ y \in Range(s)
  <2>1. i \in Nat /\ j \in Nat /\ RankOrLast(s, x) = i /\ RankOrLast(s, y) = j
    BY <1>1, <1>2, <1>5
  <2>2. /\ Greater(q, p) <=> w * (60 + i) > w * (60 + j)
        /\ Greater(p, q) <=> w * (60 + j) > w * (60 + i)
    BY <1>3, <1>5 DEF Greater
  <2>3. /\ i <= j => ~(w * (60 + i) > w * (60 + j))
        /\ i < j => w * (60 + j) > w * (60 + i)
    <3>1. /\ i <= j => (60 + j) * w >= (60 + i) * w
          /\ i < j => (60 + j) * w > (60 + i) * w
      <4>1. 60 + i \in Nat /\ 60 + j \in Nat
        BY <2>1
      <4>2. /\ 60 + j >= 60 + i => (60 + j) * w >= (60 + i) * w
            /\ 60 + j > 60 + i => (60 + j) * w > (60 + i) * w
        BY <4>1, Scaled
      <4> QED BY <2>1, <4>2
    <3> QED BY <2>1, <3>1
  <2>4. i = j => x = y
    BY <1>1, <1>5
  <2> QED BY <1>4, <2>1, <2>2, <2>3, <2>4
<1>6. CASE x \in Range(s) /\ y \notin Range(s)
  <2>1. i \in Nat /\ i <= Overscan /\ RankOrLast(s, x) = i /\ RankOrLast(s, y) = Overscan + 1
    BY <1>1, <1>2, <1>6
  <2>2. (Greater(q, p) <=> 0 * (60 + i) > w * 1) /\ (Greater(p, q) <=> w * 1 > 0 * (60 + i))
    BY <1>3, <1>6 DEF Greater
  <2> QED BY <1>1, <1>4, <2>1, <2>2
<1>7. CASE x \notin Range(s) /\ y \in Range(s)
  <2>1. j \in Nat /\ j <= Overscan /\ RankOrLast(s, y) = j /\ RankOrLast(s, x) = Overscan + 1
    BY <1>1, <1>2, <1>7
  <2>2. ~(RankOrLast(s, x) <= RankOrLast(s, y))
    BY <1>1, <2>1
  <2>3. RankOrLast(s, x) \in Nat /\ RankOrLast(s, y) \in Nat
    BY <1>1, <2>1
  <2> QED BY <1>4, <2>2, <2>3
<1>8. CASE x \notin Range(s) /\ y \notin Range(s)
  <2>1. (Greater(q, p) <=> 0 * 1 > 0 * 1) /\ RankOrLast(s, x) = RankOrLast(s, y) /\ RankOrLast(s, x) \in Nat
    BY <1>1, <1>2, <1>3, <1>8 DEF Greater
  <2> QED BY <1>4, <1>8, <2>1
<1> QED BY <1>5, <1>6, <1>7, <1>8

(* An id that is not worse than another in either search has the better score. *)
LEMMA NotWorseIsGreater ==
    ASSUME NEW vec, Hits(vec), NEW kw, Hits(kw),
           NEW x \in Range(vec) \cup Range(kw), NEW y \in Range(vec) \cup Range(kw), x # y,
           RankOrLast(vec, x) <= RankOrLast(vec, y), RankOrLast(kw, x) <= RankOrLast(kw, y)
    PROVE  Greater(Score(vec, kw, x), Score(vec, kw, y))
<1> DEFINE a == Term(vec, x, VectorWeight) b == Term(vec, y, VectorWeight)
           c == Term(kw, x, KeywordWeight) d == Term(kw, y, KeywordWeight)
<1>1. VectorWeight \in Nat \ {0} /\ KeywordWeight \in Nat \ {0}
  BY DEF VectorWeight, KeywordWeight
<1>2. /\ a \in Fractions /\ b \in Fractions /\ ~Greater(b, a)
      /\ RankOrLast(vec, x) < RankOrLast(vec, y) => Greater(a, b)
  BY <1>1, TermOrder
<1>3. /\ c \in Fractions /\ d \in Fractions /\ ~Greater(d, c)
      /\ RankOrLast(kw, x) < RankOrLast(kw, y) => Greater(c, d)
  BY <1>1, TermOrder
<1>4. RankOrLast(vec, x) < RankOrLast(vec, y) \/ RankOrLast(kw, x) < RankOrLast(kw, y)
  <2> SUFFICES ASSUME RankOrLast(vec, x) = RankOrLast(vec, y), RankOrLast(kw, x) = RankOrLast(kw, y)
               PROVE  FALSE
    <3>1. /\ RankOrLast(vec, x) \in Nat /\ RankOrLast(vec, y) \in Nat
          /\ RankOrLast(kw, x) \in Nat /\ RankOrLast(kw, y) \in Nat
      BY RankProperties
    <3> QED BY <3>1
  <2>1. x \notin Range(vec) /\ x \notin Range(kw)
    BY <1>1, TermOrder
  <2> QED BY <2>1
<1> HIDE DEF a, b, c, d
<1>5. Greater(Sum2(a, c), Sum2(b, d))
  BY <1>2, <1>3, <1>4, SumOrder
<1> QED BY <1>5 DEF Score, a, b, c, d

LEMMA ScoreType ==
    ASSUME NEW vec, Hits(vec), NEW kw, Hits(kw), NEW x
    PROVE  Score(vec, kw, x) \in Fractions
<1> DEFINE a == Term(vec, x, VectorWeight) c == Term(kw, x, KeywordWeight)
<1>1. VectorWeight \in Nat \ {0} /\ KeywordWeight \in Nat \ {0}
  BY DEF VectorWeight, KeywordWeight
<1>2. a \in Fractions /\ c \in Fractions
  BY <1>1, TermOrder
<1> HIDE DEF a, c
<1>3. ~Greater(a, a) /\ ~Greater(c, c)
  BY <1>2, GreaterOrder
<1>4. Sum2(a, c) \in Fractions
  BY <1>2, <1>3, SumOrder
<1> QED BY <1>4 DEF Score, a, c
(* The last place in both searches is worth more than the first in one: what
   Overscan has to be small for. *)
LEMMA TwoLastPlaces ==
    ASSUME NEW p \in Nat, NEW q \in Nat, NEW r \in Nat,
           61 <= p, p <= 87, 61 <= q, q <= 87, 61 <= r
    PROVE  (7 * q + 3 * p) * r > 7 * (p * q)
<1> DEFINE u == 7 * q + 3 * p
           v == p * q
<1>1. v \in Nat /\ u \in Nat /\ v >= 1
  <2>1. p * q >= 1
    BY p >= 1, q >= 1
  <2> QED BY <2>1
<1>2. u * 87 >= 10 * v
  <2>1. q * 87 >= q * p /\ p * 87 >= p * q
    <3>1. 87 * q >= p * q /\ 87 * p >= q * p
      BY Scaled
    <3> QED BY <3>1
  <2>2. u * 87 = 7 * (q * 87) + 3 * (p * 87) /\ 10 * v = 7 * (q * p) + 3 * (p * q)
    OBVIOUS
  <2>3. q * 87 \in Nat /\ p * 87 \in Nat /\ q * p \in Nat /\ p * q \in Nat
    OBVIOUS
  <2> QED BY <2>1, <2>2, <2>3
<1>3. u * r >= u * 61 /\ u * r \in Nat
  <2>1. u >= 1
    OBVIOUS
  <2> HIDE DEF u
  <2>2. r * u >= 61 * u
    BY <1>1, <2>1, Scaled
  <2> QED BY <1>1, <2>2
<1> HIDE DEF u, v
<1>4. u * 61 > 7 * v
  BY <1>1, <1>2
<1> QED BY <1>1, <1>3, <1>4 DEF u, v

(* An id that both searches return has a better score than one that one of
   them returns. *)
LEMMA BothIsGreater ==
    ASSUME NEW vec, Hits(vec), NEW kw, Hits(kw),
           NEW x \in Range(vec) \cap Range(kw),
           NEW y \in (Range(vec) \cup Range(kw)) \ (Range(vec) \cap Range(kw))
    PROVE  Greater(Score(vec, kw, x), Score(vec, kw, y))
<1> DEFINE p == 60 + Rank(vec, x)
           q == 60 + Rank(kw, x)
<1>1. Overscan \in Nat /\ Overscan <= 27
  BY RetrievalAssumption DEF RetrievalConstants, OverscanDampened
<1>2. p \in Nat /\ 61 <= p /\ p <= 87 /\ q \in Nat /\ 61 <= q /\ q <= 87
  BY <1>1, RankProperties
<1>3. /\ Score(vec, kw, x).num = 7 * q + 3 * p
      /\ Score(vec, kw, x).den = p * q
  BY DEF Score, Sum2, Term, RrfK, VectorWeight, KeywordWeight
<1> HIDE DEF p, q
<1>4. CASE y \in Range(vec) /\ y \notin Range(kw)
  <2> DEFINE r == 60 + Rank(vec, y)
  <2>1. r \in Nat /\ 61 <= r
    BY <1>4, RankProperties
  <2>2. Score(vec, kw, y).num = 7 * 1 + 0 * r /\ Score(vec, kw, y).den = r * 1
    BY <1>4 DEF Score, Sum2, Term, RrfK, VectorWeight, KeywordWeight
  <2> HIDE DEF r
  <2>3. Score(vec, kw, y).num = 7 /\ Score(vec, kw, y).den = r
    BY <2>1, <2>2
  <2>4. (7 * q + 3 * p) * r > 7 * (p * q)
    BY <1>2, <2>1, TwoLastPlaces
  <2> QED BY <1>3, <2>3, <2>4 DEF Greater
<1>5. CASE y \notin Range(vec) /\ y \in Range(kw)
  <2> DEFINE r == 60 + Rank(kw, y)
  <2>1. r \in Nat /\ 61 <= r
    BY <1>5, RankProperties
  <2>2. Score(vec, kw, y).num = 0 * r + 3 * 1 /\ Score(vec, kw, y).den = 1 * r
    BY <1>5 DEF Score, Sum2, Term, RrfK, VectorWeight, KeywordWeight
  <2> HIDE DEF r
  <2>3. Score(vec, kw, y).num = 3 /\ Score(vec, kw, y).den = r
    BY <2>1, <2>2
  <2>4. (7 * q + 3 * p) * r > 7 * (p * q)
    BY <1>2, <2>1, TwoLastPlaces
  <2>5. p * q \in Nat /\ (7 * q + 3 * p) * r \in Nat
    BY <1>2, <2>1
  <2>6. (7 * q + 3 * p) * r > 3 * (p * q)
    BY <2>4, <2>5
  <2> QED BY <1>3, <2>3, <2>6 DEF Greater
<1> QED BY <1>4, <1>5

(* An id that the vector search returns has a better score than one that only
   the keyword search returns. *)
LEMMA VectorIsGreater ==
    ASSUME NEW vec, Hits(vec), NEW kw, Hits(kw),
           NEW x \in Range(vec), NEW y \in Range(kw) \ Range(vec)
    PROVE  Greater(Score(vec, kw, x), Score(vec, kw, y))
<1>1. CASE x \in Range(kw)
  BY <1>1, BothIsGreater
<1>2. CASE x \notin Range(kw)
  <2> DEFINE p == 60 + Rank(vec, x)
             q == 60 + Rank(kw, y)
  <2>1. Overscan \in Nat /\ Overscan <= 27
    BY RetrievalAssumption DEF RetrievalConstants, OverscanDampened
  <2>2. p \in Nat /\ p <= 87 /\ q \in Nat /\ 61 <= q
    BY <2>1, RankProperties
  <2>3. /\ Score(vec, kw, x).num = 7 * 1 + 0 * p /\ Score(vec, kw, x).den = p * 1
        /\ Score(vec, kw, y).num = 0 * q + 3 * 1 /\ Score(vec, kw, y).den = 1 * q
    BY <1>2 DEF Score, Sum2, Term, RrfK, VectorWeight, KeywordWeight
  <2> HIDE DEF p, q
  <2>4. /\ Score(vec, kw, x).num = 7 /\ Score(vec, kw, x).den = p
        /\ Score(vec, kw, y).num = 3 /\ Score(vec, kw, y).den = q
    BY <2>2, <2>3
  <2>5. 7 * q > 3 * p
    BY <2>2
  <2> QED BY <2>4, <2>5 DEF Greater
<1> QED BY <1>1, <1>2

-----------------------------------------------------------------------------
(* ranking.Fuse returns every hit of either search once: those of both, then
   those of the vector search, then those of the keyword search, and in each
   group none before one that is not worse in either search. *)
THEOREM FuseIsSound ==
    ASSUME NEW vec, Hits(vec), NEW kw, Hits(kw)
    PROVE  LET ids == Range(vec) \cup Range(kw)
               out == Fuse(vec, kw)
           IN  /\ out \in Seq(ids) /\ Len(out) = Cardinality(ids) /\ Len(out) \in Nat
               /\ \A i, j \in 1..Len(out) : out[i] = out[j] => i = j
               /\ \A k \in 1..Len(out), y \in ids :
                    Beats(vec, kw, y, out[k]) => \E j \in 1..(k - 1) : out[j] = y
<1> DEFINE ids == Range(vec) \cup Range(kw)
           score == [x \in ids |-> Score(vec, kw, x)]
           out == Fuse(vec, kw)
<1>1. ids \subseteq Nat /\ IsFiniteSet(ids)
  BY RangeIsFinite, FS_Union
<1>2. score \in [ids -> Fractions]
  BY ScoreType
<1>3. out = Sorted(score)
  BY DEF Fuse
<1>4. ASSUME NEW x \in ids, NEW y \in ids, Beats(vec, kw, x, y)
      PROVE  Better(score, x, y)
  <2>1. score[x] = Score(vec, kw, x) /\ score[y] = Score(vec, kw, y)
    OBVIOUS
  <2>2. Greater(Score(vec, kw, x), Score(vec, kw, y))
    BY <1>4, BothIsGreater, VectorIsGreater, NotWorseIsGreater DEF Beats
  <2> QED BY <2>1, <2>2 DEF Better
<1> HIDE DEF ids, score, out
<1>5. /\ Sorted(score) \in Seq(ids)
      /\ Len(Sorted(score)) = Cardinality(ids) /\ Cardinality(ids) \in Nat
      /\ \A i, j \in 1..Cardinality(ids) : Sorted(score)[i] = Sorted(score)[j] => i = j
      /\ \A k \in 1..Cardinality(ids), y \in ids :
           Better(score, y, Sorted(score)[k]) => \E j \in 1..(k - 1) : Sorted(score)[j] = y
  BY <1>1, <1>2, SortedIsSorted
<1>6. \A k \in 1..Len(out) : out[k] \in ids
  BY <1>3, <1>5, ElementOfSeq
<1>7. /\ out \in Seq(ids) /\ Len(out) = Cardinality(ids) /\ Len(out) \in Nat
      /\ \A i, j \in 1..Len(out) : out[i] = out[j] => i = j
      /\ \A k \in 1..Len(out), y \in ids :
           Beats(vec, kw, y, out[k]) => \E j \in 1..(k - 1) : out[j] = y
  BY <1>3, <1>4, <1>5, <1>6
<1> QED BY <1>7 DEF ids, out
(* So does hybridSearch, which cuts what it fuses at the limit. *)
THEOREM HybridSearchIsSound ==
    ASSUME NEW v \in Seq(1..Rows), IsInjective(v), NEW s \in Seq(1..Rows), IsInjective(s),
           NEW n \in Nat
    PROVE  LET vec == Take(v, Overscan)
               kw == Take(s, Overscan)
               ids == Range(vec) \cup Range(kw)
               out == HybridSearch(v, s, n)
           IN  /\ out \in Seq(Nat)
               /\ Len(out) = Cardinality(ids) \/ (n # 0 /\ Len(out) = n)
               /\ IsInjective(out)
               /\ \A k \in DOMAIN out : \A y \in ids :
                    Beats(vec, kw, y, out[k]) => y \in Range(Take(out, k - 1))
<1> DEFINE vec == Take(v, Overscan)
           kw == Take(s, Overscan)
           ids == Range(vec) \cup Range(kw)
           fused == Fuse(vec, kw)
           out == HybridSearch(v, s, n)
<1>1. Hits(vec) /\ Hits(kw)
  BY HitsOfTake
<1>2. out = IF n = 0 THEN fused ELSE Take(fused, n)
  BY DEF HybridSearch
<1> HIDE DEF vec, kw, out
<1>3. /\ fused \in Seq(ids) /\ Len(fused) = Cardinality(ids) /\ Len(fused) \in Nat
      /\ \A i, j \in 1..Len(fused) : fused[i] = fused[j] => i = j
      /\ \A k \in 1..Len(fused), y \in ids :
           Beats(vec, kw, y, fused[k]) => \E j \in 1..(k - 1) : fused[j] = y
  BY <1>1, FuseIsSound
<1>4. ids \subseteq Nat
  BY <1>1, RangeIsFinite
<1> HIDE DEF ids, fused
<1>5. fused \in Seq(Nat) /\ DOMAIN fused = 1..Len(fused)
  BY <1>3, <1>4, SeqMonotonic, LenProperties
<1>6. /\ out \in Seq(Nat) /\ DOMAIN out = 1..Len(out) /\ Len(out) \in Nat
      /\ Len(out) = Len(fused) \/ (n # 0 /\ Len(out) = n)
      /\ Len(out) <= Len(fused) /\ \A i \in 1..Len(out) : out[i] = fused[i]
  <2>1. CASE n = 0
    BY <1>2, <1>3, <1>5, <2>1
  <2>2. CASE n # 0
    <3>1. /\ Take(fused, n) \in Seq(Nat)
          /\ Len(Take(fused, n)) = IF n <= Len(fused) THEN n ELSE Len(fused)
          /\ DOMAIN Take(fused, n) = 1..Len(Take(fused, n))
          /\ \A i \in 1..Len(Take(fused, n)) : Take(fused, n)[i] = fused[i]
      BY <1>5, TakeProperties
    <3>2. out = Take(fused, n)
      BY <1>2, <2>2
    <3> QED BY <1>3, <2>2, <3>1, <3>2
  <2> QED BY <2>1, <2>2
<1>7. Len(out) \in Nat /\ Len(fused) \in Nat /\ Len(out) <= Len(fused)
  BY <1>3, <1>6
<1>8. \A i \in 1..Len(out) : i \in 1..Len(fused)
  BY <1>7
<1>9. IsInjective(out)
  BY <1>3, <1>6, <1>8 DEF IsInjective
<1>10. ASSUME NEW k \in DOMAIN out, NEW y \in ids, Beats(vec, kw, y, out[k])
       PROVE  y \in Range(Take(out, k - 1))
  <2>1. k \in 1..Len(out)
    BY <1>6
  <2>2. k \in 1..Len(fused) /\ out[k] = fused[k]
    BY <1>6, <1>8, <2>1
  <2>3. k \in Nat /\ k <= Len(out) /\ k - 1 \in Nat
    BY <1>7, <2>1
  <2>4. PICK j \in 1..(k - 1) : fused[j] = y
    BY <1>3, <1>10, <2>2
  <2>5. /\ Len(Take(out, k - 1)) = IF k - 1 <= Len(out) THEN k - 1 ELSE Len(out)
        /\ DOMAIN Take(out, k - 1) = 1..Len(Take(out, k - 1))
        /\ \A i \in 1..Len(Take(out, k - 1)) : Take(out, k - 1)[i] = out[i]
    BY <1>6, <2>3, TakeProperties
  <2>6. Len(Take(out, k - 1)) = k - 1
    BY <1>7, <2>3, <2>5
  <2>7. j \in 1..Len(out)
    BY <1>7, <2>3
  <2>8. out[j] = y
    BY <1>6, <2>4, <2>7
  <2>9. j \in DOMAIN Take(out, k - 1) /\ Take(out, k - 1)[j] = y
    BY <2>5, <2>6, <2>8
  <2> QED BY <2>9 DEF Range
<1>11. Len(out) = Cardinality(ids) \/ (n # 0 /\ Len(out) = n)
  BY <1>3, <1>6
<1> QED BY <1>6, <1>9, <1>10, <1>11 DEF vec, kw, ids, out

(* When the vector search returns at least as many rows as are asked for,
   whatever the keyword search finds, no row outside the vector search is
   returned. *)
THEOREM KeywordOnlyIsCutOff ==
    ASSUME NEW v \in Seq(1..Rows), IsInjective(v), NEW s \in Seq(1..Rows), IsInjective(s),
           NEW n \in Nat \ {0}, n <= Len(v), n <= Overscan
    PROVE  \A k \in DOMAIN HybridSearch(v, s, n) :
                HybridSearch(v, s, n)[k] \in Range(Take(v, Overscan))
<1> DEFINE vec == Take(v, Overscan)
           kw == Take(s, Overscan)
           out == HybridSearch(v, s, n)
<1>1. Rows \in Nat /\ Overscan \in Nat
  BY RetrievalAssumption DEF RetrievalConstants
<1>2. /\ out \in Seq(Nat)
      /\ \A k \in DOMAIN out : \A y \in Range(vec) \cup Range(kw) :
           Beats(vec, kw, y, out[k]) => y \in Range(Take(out, k - 1))
  BY HybridSearchIsSound
<1>3. \A k \in DOMAIN out : k \in Nat \ {0} /\ k <= n
  <2> DEFINE fused == Fuse(vec, kw)
  <2>1. out = Take(fused, n)
    BY DEF HybridSearch
  <2>2. fused \in Seq(Range(vec) \cup Range(kw))
    <3>1. Hits(vec) /\ Hits(kw)
      BY HitsOfTake
    <3> QED BY <3>1, FuseIsSound
  <2> HIDE DEF vec, kw, out, fused
  <2>3. /\ Len(out) = IF n <= Len(fused) THEN n ELSE Len(fused)
        /\ DOMAIN out = 1..Len(out)
    BY <2>1, <2>2, TakeProperties
  <2>4. Len(fused) \in Nat
    BY <2>2, LenProperties
  <2> QED BY <2>3, <2>4
<1> DEFINE first == {v[i] : i \in 1..n}
<1>4. first \subseteq Range(vec) /\ IsFiniteSet(first) /\ Cardinality(first) = n
  <2>1. Len(v) \in Nat /\ DOMAIN v = 1..Len(v)
    BY LenProperties
  <2>2. /\ Len(vec) = IF Overscan <= Len(v) THEN Overscan ELSE Len(v)
        /\ DOMAIN vec = 1..Len(vec) /\ \A i \in 1..Len(vec) : vec[i] = v[i]
    BY <1>1, TakeProperties
  <2>3. \A i \in 1..n : i \in 1..Len(vec) /\ i \in 1..Len(v)
    BY <1>1, <2>1, <2>2
  <2>4. [i \in 1..n |-> v[i]] \in Bijection(1..n, first)
    BY <2>1, <2>3 DEF IsInjective, Bijection, Injection, Surjection
  <2>5. IsFiniteSet(1..n) /\ Cardinality(1..n) = n
    <3>1. 1 \in Int /\ n \in Int /\ (IF 1 > n THEN 0 ELSE n - 1 + 1) = n
      OBVIOUS
    <3> QED BY <3>1, FS_Interval
  <2>6. IsFiniteSet(first) /\ Cardinality(first) = n
    BY <2>4, <2>5, FS_Bijection DEF ExistsBijection
  <2> QED BY <2>2, <2>3, <2>6 DEF Range
<1> HIDE DEF vec, kw, out, first
<1>5. ASSUME NEW k \in DOMAIN out, out[k] \notin Range(vec)
      PROVE  FALSE
  <2>1. k \in Nat /\ k - 1 \in Nat /\ k - 1 < n
    BY <1>3
  <2>2. \A y \in first : y \in Range(Take(out, k - 1))
    BY <1>2, <1>4, <1>5 DEF Beats
  <2> DEFINE t == Take(out, k - 1)
  <2>3. t \in Seq(Nat) /\ Len(t) <= k - 1 /\ Len(t) \in Nat /\ DOMAIN t = 1..Len(t)
    <3>1. Len(out) \in Nat
      BY <1>2, LenProperties
    <3> QED BY <1>2, <2>1, <3>1, TakeProperties
  <2> HIDE DEF t
  <2>4. t \in Surjection(1..Len(t), Range(t))
    BY <2>3, LenProperties DEF Surjection, Range
  <2>5. IsFiniteSet(1..Len(t)) /\ Cardinality(1..Len(t)) = Len(t)
    <3>1. 1 \in Int /\ Len(t) \in Int /\ (IF 1 > Len(t) THEN 0 ELSE Len(t) - 1 + 1) = Len(t)
      BY <2>3
    <3> QED BY <3>1, FS_Interval
  <2>6. IsFiniteSet(Range(t)) /\ Cardinality(Range(t)) <= Len(t)
    BY <2>4, <2>5, FS_Surjection
  <2>7. first \in SUBSET Range(t)
    BY <2>2 DEF t
  <2>8. Cardinality(first) <= Cardinality(Range(t))
    BY <2>6, <2>7, FS_Subset
  <2>10. Cardinality(Range(t)) \in Nat
    BY <2>6, FS_CardinalityType
  <2> QED BY <1>4, <2>1, <2>3, <2>6, <2>8, <2>10
<1> QED BY <1>5 DEF vec, out

-----------------------------------------------------------------------------
(* What a request has answered is what the two functions return. *)
IInv ==
    /\ phase \in {"adding", "added", "searching", "searched"}
    /\ text \in Seq(Strings)
    /\ near \in Seq(1..Rows) /\ IsInjective(near)
    /\ match \in Seq(1..Rows) /\ IsInjective(match)
    /\ limit \in Nat
    /\ chunks = IF phase = "added" THEN Chunk(text) ELSE << >>
    /\ found = IF phase = "searched" THEN HybridSearch(near, match, limit) ELSE << >>

LEMMA InitIInv == Init => IInv
<1> SUFFICES ASSUME Init PROVE IInv
  OBVIOUS
<1>1. /\ Texts \subseteq Seq(Strings) /\ Limits \subseteq Nat
      /\ \A s \in Neighbors \cup Matches : s \in Seq(1..Rows) /\ IsInjective(s)
  BY RetrievalAssumption DEF RetrievalConstants
<1>2. << >> \in Seq(Strings) /\ << >> \in Seq(1..Rows) /\ IsInjective(<< >>)
  BY EmptySeq DEF IsInjective
<1>3. CASE /\ phase = "adding" /\ text \in Texts
           /\ near = << >> /\ match = << >> /\ limit = 0
  <2>1. /\ text \in Seq(Strings) /\ limit \in Nat
        /\ near \in Seq(1..Rows) /\ IsInjective(near)
        /\ match \in Seq(1..Rows) /\ IsInjective(match)
    BY <1>1, <1>2, <1>3
  <2> QED BY <1>3, <2>1 DEF Init, IInv
<1>4. CASE /\ phase = "searching" /\ text = << >>
           /\ near \in Neighbors /\ match \in Matches /\ limit \in Limits
  <2>1. /\ text \in Seq(Strings) /\ limit \in Nat
        /\ near \in Seq(1..Rows) /\ IsInjective(near)
        /\ match \in Seq(1..Rows) /\ IsInjective(match)
    BY <1>1, <1>2, <1>4
  <2> QED BY <1>4, <2>1 DEF Init, IInv
<1> QED BY <1>3, <1>4 DEF Init

LEMMA NextIInv == IInv /\ [Next]_vars => IInv'
<1> SUFFICES ASSUME IInv, [Next]_vars PROVE IInv'
  OBVIOUS
<1>1. CASE Add
  BY <1>1 DEF IInv, Add
<1>2. CASE Search
  BY <1>2 DEF IInv, Search
<1>3. CASE UNCHANGED vars
  BY <1>3 DEF IInv, vars
<1> QED BY <1>1, <1>2, <1>3 DEF Next

LEMMA Invariance == Spec => []IInv
BY InitIInv, NextIInv, PTL DEF Spec

(* Whatever text is added, and whatever the size of a chunk, the chunks hold
   all of it that is not white space, once and in order. *)
THEOREM NothingIsLost == Spec => []NothingLost
<1>1. IInv => NothingLost
  BY ChunkCuts DEF IInv, NothingLost
<1> QED BY <1>1, Invariance, PTL

(* No chunk holds more than MaxRunes runes of the text, nor three times as many
   with the separators. *)
THEOREM ChunksAreBounded == Spec => []ChunksBounded
<1>1. ASSUME IInv PROVE ChunksBounded
  <2>1. CASE phase = "added"
    BY <1>1, <2>1, ChunkCuts DEF IInv, ChunksBounded, Bounded
  <2>2. CASE phase # "added"
    <3>1. chunks = << >> /\ DOMAIN << >> = {}
      BY <1>1, <2>2 DEF IInv
    <3> QED BY <3>1 DEF ChunksBounded
  <2> QED BY <2>1, <2>2
<1> QED BY <1>1, Invariance, PTL

(* Whatever the two searches return, and however many rows the vector search
   misses, a hybrid search ranks as it promises. *)
THEOREM FusionIsSound == Spec => []FusionSound
<1>1. ASSUME IInv PROVE FusionSound
  <2>1. /\ near \in Seq(1..Rows) /\ IsInjective(near)
        /\ match \in Seq(1..Rows) /\ IsInjective(match)
        /\ limit \in Nat
        /\ phase = "searched" => found = HybridSearch(near, match, limit)
    BY <1>1 DEF IInv
  <2> DEFINE vec == Take(near, Overscan)
             kw == Take(match, Overscan)
             ids == Range(vec) \cup Range(kw)
             out == HybridSearch(near, match, limit)
  <2>2. /\ Len(out) = Cardinality(ids) \/ (limit # 0 /\ Len(out) = limit)
        /\ IsInjective(out)
        /\ \A k \in DOMAIN out : \A y \in ids :
             Beats(vec, kw, y, out[k]) => y \in Range(Take(out, k - 1))
    BY <2>1, HybridSearchIsSound
  <2>3. CASE phase = "searched"
    <3>1. found = out
      BY <2>1, <2>3
    <3> HIDE DEF out
    <3> QED BY <2>2, <3>1 DEF FusionSound
  <2>4. CASE phase # "searched"
    BY <2>4 DEF FusionSound
  <2> QED BY <2>3, <2>4
<1> QED BY <1>1, Invariance, PTL
=============================================================================
