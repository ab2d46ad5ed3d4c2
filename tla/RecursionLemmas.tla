--------------------------- MODULE RecursionLemmas ---------------------------
(***************************************************************************)
(* What a recursive function over 0..N computes, and what a sum over a     *)
(* finite set comes to, proved by induction.                               *)
(*                                                                         *)
(* The induction theorems of the library speak of operators, which the     *)
(* provers do not instantiate; here a statement about numbers is the set   *)
(* of the numbers it holds of, and a step of a recursion is a function.    *)
(* That a set with 0 and successors has every number rests on finite sets: *)
(* of the intervals 1..n with n outside of it, one is the smallest.        *)
(***************************************************************************)
EXTENDS ListParts, Functions, FiniteSetTheorems, WellFoundedInduction, TLAPS

LEMMA NaturalSets ==
  ASSUME NEW S \in SUBSET Nat, 0 \in S, \A n \in S : n + 1 \in S
  PROVE  S = Nat
<1> SUFFICES ASSUME S # Nat PROVE FALSE
  OBVIOUS
<1> DEFINE T == Nat \ S
           W == {1..n : n \in T}
<1>1. IsWellFoundedOn(StrictSubsetOrdering(Nat), FiniteSubsetsOf(Nat))
  BY FS_StrictSubsetOrderingWellFounded
<1>2. W \subseteq FiniteSubsetsOf(Nat) /\ W # {}
  <2>1. \A n \in T : IsFiniteSet(1..n) /\ 1..n \subseteq Nat
    BY FS_Interval
  <2>2. W \subseteq FiniteSubsetsOf(Nat)
    BY <2>1 DEF FiniteSubsetsOf
  <2>3. T # {}
    OBVIOUS
  <2> QED BY <2>2, <2>3
<1>3. \E x \in W : \A y \in W : ~(<<y, x>> \in StrictSubsetOrdering(Nat))
  <2> HIDE DEF W
  <2> QED BY <1>1, <1>2, WFMin
<1>4. PICK m \in T : \A n \in T : ~(<<1..n, 1..m>> \in StrictSubsetOrdering(Nat))
  BY <1>3
<1>5. m # 0 /\ m - 1 \in T
  BY <1>4
<1>6. <<1..(m - 1), 1..m>> \in StrictSubsetOrdering(Nat)
  <2>1. 1..(m - 1) \subseteq 1..m /\ m \in 1..m /\ m \notin 1..(m - 1)
    BY <1>5
  <2> QED BY <2>1 DEF StrictSubsetOrdering
<1> QED BY <1>4, <1>5, <1>6

(* Up to a bound. *)
LEMMA UpTo ==
  ASSUME NEW N \in Nat, NEW S, 0 \in S, \A n \in 1..N : n - 1 \in S => n \in S
  PROVE  0..N \subseteq S
<1> DEFINE R == {n \in Nat : n <= N => n \in S}
<1>1. 0 \in R
  OBVIOUS
<1>2. ASSUME NEW n \in R PROVE n + 1 \in R
  <2>1. n \in Nat /\ (n <= N => n \in S)
    OBVIOUS
  <2>2. CASE n + 1 <= N
    <3>1. n + 1 \in 1..N /\ (n + 1) - 1 = n /\ n \in S
      BY <2>1, <2>2
    <3> QED BY <2>1, <3>1
  <2> QED BY <2>1, <2>2
<1>3. R = Nat
  <2>1. R \in SUBSET Nat
    OBVIOUS
  <2> HIDE DEF R
  <2> QED BY <1>1, <1>2, <2>1, NaturalSets
<1> QED BY <1>3

(* A recursion has a function. *)
Recursive(N, S, base, step) ==
  \E f \in [0..N -> S] : f[0] = base /\ \A n \in 1..N : f[n] = step[<<f[n - 1], n>>]

LEMMA Recursion ==
  ASSUME NEW N \in Nat, NEW S, NEW base \in S, NEW step \in [S \X (1..N) -> S]
  PROVE  Recursive(N, S, base, step)
<1> DEFINE R == {k \in 0..N : \E f \in [0..k -> S] :
                   f[0] = base /\ \A n \in 1..k : f[n] = step[<<f[n - 1], n>>]}
<1>1. 0 \in R
  <2> DEFINE f == [n \in 0..0 |-> base]
  <2>1. f \in [0..0 -> S] /\ f[0] = base
    <3>1. 0 \in 0..0
      OBVIOUS
    <3>2. f[0] = base
      BY <3>1
    <3> QED BY <3>2
  <2>2. \A n \in 1..0 : FALSE
    OBVIOUS
  <2> HIDE DEF f
  <2> QED BY <2>1, <2>2
<1>2. ASSUME NEW k \in 1..N, k - 1 \in R PROVE k \in R
  <2>1. PICK f \in [0..(k - 1) -> S] :
          f[0] = base /\ \A n \in 1..(k - 1) : f[n] = step[<<f[n - 1], n>>]
    BY <1>2
  <2>2. f[k - 1] \in S /\ step[<<f[k - 1], k>>] \in S
    OBVIOUS
  <2> DEFINE g == [n \in 0..k |-> IF n = k THEN step[<<f[k - 1], k>>] ELSE f[n]]
  <2>3. g \in [0..k -> S] /\ g[k] = step[<<f[k - 1], k>>] /\ \A n \in 0..(k - 1) : g[n] = f[n]
    BY <2>2
  <2> HIDE DEF g
  <2>4. g[0] = base /\ g[k - 1] = f[k - 1]
    BY <2>1, <2>3
  <2>5. \A n \in 1..(k - 1) : g[n] = step[<<g[n - 1], n>>]
    BY <2>1, <2>3
  <2>6. g[k] = step[<<g[k - 1], k>>]
    BY <2>3, <2>4
  <2>7. \A n \in 1..k : g[n] = step[<<g[n - 1], n>>]
    BY <2>5, <2>6
  <2> QED BY <2>3, <2>4, <2>7
<1>3. 0..N \subseteq R
  <2> HIDE DEF R
  <2> QED BY <1>1, <1>2, UpTo
<1> QED BY <1>3 DEF Recursive

-----------------------------------------------------------------------------
(* Vec::retain steps through its list.                                      *)
LEMMA KeptSteps ==
  ASSUME NEW E, NEW list \in Seq(E), NEW positions
  PROVE  \E f \in [0..Len(list) -> Seq(E)] :
           /\ f[0] = << >>
           /\ \A n \in 1..Len(list) :
                f[n] = IF n \in positions THEN Append(f[n - 1], list[n]) ELSE f[n - 1]
           /\ Kept(list, positions) = f[Len(list)]
<1> DEFINE N == Len(list)
           S == Seq(E)
           base == << >>
           Step(x, n) == IF n \in positions THEN Append(x, list[n]) ELSE x
           At(f, n) == IF n = 0 THEN << >>
                       ELSE IF n \in positions THEN Append(f[n - 1], list[n]) ELSE f[n - 1]
           step == [x \in S \X (1..N) |-> Step(x[1], x[2])]
           Is(f) == f = [n \in 0..N |-> At(f, n)]
<1>1. N \in Nat /\ base \in S /\ \A n \in 1..N : n \in Nat \ {0} /\ n - 1 \in 0..N /\ list[n] \in E
  OBVIOUS
<1>2. \A x \in S, n \in 1..N : Step(x, n) \in S
  BY <1>1
<1>3. step \in [S \X (1..N) -> S] /\ \A x \in S, n \in 1..N : step[<<x, n>>] = Step(x, n)
  <2> HIDE DEF S, N, Step
  <2> QED BY <1>2
<1>4. Recursive(N, S, base, step)
  <2> HIDE DEF S, N, step, base
  <2> QED BY <1>1, <1>3, Recursion
<1>5. \E g : Is(g)
  <2>1. PICK g \in [0..N -> S] : g[0] = base /\ \A n \in 1..N : g[n] = step[<<g[n - 1], n>>]
    BY <1>4 DEF Recursive
  <2>2. \A n \in 1..N : g[n] = Step(g[n - 1], n)
    <3> HIDE DEF S, N, step, Step
    <3> QED BY <1>1, <1>3, <2>1
  <2>3. \A n \in 0..N : g[n] = At(g, n)
    <3>1. \A n \in 0..N : n = 0 \/ n \in 1..N
      BY <1>1
    <3> HIDE DEF N
    <3> QED BY <1>1, <2>1, <2>2, <3>1
  <2>4. Is(g)
    <3> HIDE DEF At, N
    <3> QED BY <2>1, <2>3
  <2> QED BY <2>4
<1>6. PICK f : Is(f) /\ f = CHOOSE g : Is(g)
  <2> HIDE DEF Is
  <2> QED BY <1>5
<1>7. Kept(list, positions) = f[N]
  BY <1>6 DEF Kept
<1>8. DOMAIN f = 0..N /\ \A n \in 0..N : f[n] = At(f, n)
  <2> HIDE DEF At, N
  <2> QED BY <1>6
<1>9. f[0] = base /\ \A n \in 1..N : f[n] = Step(f[n - 1], n)
  <2>1. 0 \in 0..N /\ \A n \in 1..N : n \in 0..N
    BY <1>1
  <2> HIDE DEF N
  <2> QED BY <1>1, <1>8, <2>1
<1>10. \A n \in 0..N : f[n] \in S
  <2> DEFINE R == {n \in 0..N : f[n] \in S}
  <2>1. 0 \in R /\ \A n \in 1..N : n - 1 \in R => n \in R
    <3>1. 0 \in 0..N /\ \A n \in 1..N : n \in 0..N
      BY <1>1
    <3> HIDE DEF N, Step, S
    <3> QED BY <1>1, <1>2, <1>9, <3>1
  <2>2. 0..N \subseteq R
    <3> HIDE DEF R, N
    <3> QED BY <1>1, <2>1, UpTo
  <2> QED BY <2>2
<1>11. f \in [0..N -> S]
  <2>1. f = [n \in 0..N |-> f[n]]
    <3> HIDE DEF At, N
    <3> QED BY <1>6, <1>8
  <2> HIDE DEF N, S
  <2> QED BY <1>10, <2>1
<1> QED BY <1>7, <1>9, <1>11

(* The list of what is at the positions, in their order.                    *)
Keeps(kept, list, positions) ==
  /\ Len(kept) <= Len(list)
  /\ \E at \in [DOMAIN kept -> positions] :
       /\ \A i \in DOMAIN kept : kept[i] = list[at[i]]
       /\ \A i, j \in DOMAIN kept : i < j => at[i] < at[j]
       /\ \A p \in positions : \E i \in DOMAIN kept : at[i] = p

(* That is what Vec::retain makes of a list.                                *)
LEMMA KeptIs ==
  ASSUME NEW E, NEW list \in Seq(E), NEW positions \in SUBSET DOMAIN list
  PROVE  Kept(list, positions) \in Seq(E) /\ Keeps(Kept(list, positions), list, positions)
<1> DEFINE N == Len(list)
<1>1. N \in Nat /\ DOMAIN list = 1..N /\ positions \subseteq 1..N /\ \A n \in 1..N : list[n] \in E
  OBVIOUS
<1>5. PICK f :
        /\ f[0] = << >>
        /\ \A n \in 1..N : f[n] = IF n \in positions THEN Append(f[n - 1], list[n]) ELSE f[n - 1]
        /\ Kept(list, positions) = f[N]
  <2>1. PICK f \in [0..Len(list) -> Seq(E)] :
          /\ f[0] = << >>
          /\ \A n \in 1..Len(list) :
               f[n] = IF n \in positions THEN Append(f[n - 1], list[n]) ELSE f[n - 1]
          /\ Kept(list, positions) = f[Len(list)]
    BY KeptSteps
  <2> QED BY <2>1
<1> DEFINE Is(n, at) ==
             /\ f[n] \in Seq(E) /\ Len(f[n]) <= n
             /\ at \in [1..Len(f[n]) -> positions \cap (1..n)]
             /\ \A i \in 1..Len(f[n]) : f[n][i] = list[at[i]]
             /\ \A i, j \in 1..Len(f[n]) : i < j => at[i] < at[j]
             /\ \A p \in positions \cap (1..n) : \E i \in 1..Len(f[n]) : at[i] = p
           R == {n \in 0..N : \E at : Is(n, at)}
<1>6. 0 \in R
  <2> DEFINE none == [i \in {} |-> 0]
  <2>1. 1..0 = {} /\ 0 \in 0..N
    BY <1>1
  <2>2. Is(0, none)
    BY <1>5, <2>1
  <2> QED BY <2>1, <2>2
<1>7. ASSUME NEW n \in 1..N, n - 1 \in R PROVE n \in R
  <2> DEFINE s == f[n - 1]
             m == Len(s)
  <2>0. f[n] = IF n \in positions THEN Append(s, list[n]) ELSE s
    BY <1>5
  <2>1. PICK at : Is(n - 1, at)
    BY <1>7
  <2>2. /\ s \in Seq(E) /\ m \in Nat /\ m <= n - 1 /\ n \in Nat
        /\ at \in [1..m -> positions \cap (1..(n - 1))]
        /\ \A i \in 1..m : s[i] = list[at[i]]
        /\ \A i, j \in 1..m : i < j => at[i] < at[j]
        /\ \A p \in positions \cap (1..(n - 1)) : \E i \in 1..m : at[i] = p
    BY <1>1, <2>1
  <2> HIDE DEF s
  <2>3. CASE n \notin positions
    <3>1. positions \cap (1..n) = positions \cap (1..(n - 1))
      BY <1>1, <2>3
    <3>2. Is(n, at)
      BY <2>0, <2>2, <2>3, <3>1
    <3> QED BY <1>1, <3>2
  <2>4. CASE n \in positions
    <3> DEFINE to == [i \in 1..(m + 1) |-> IF i = m + 1 THEN n ELSE at[i]]
    <3>1. /\ f[n] = Append(s, list[n]) /\ f[n] \in Seq(E) /\ Len(f[n]) = m + 1
          /\ f[n][m + 1] = list[n] /\ \A i \in 1..m : f[n][i] = s[i]
      BY <1>1, <2>0, <2>2, <2>4
    <3>0. \A i \in 1..m : at[i] \in positions /\ at[i] \in 1..(n - 1) /\ at[i] \in 1..n /\ i # m + 1
      <4>1. \A i \in 1..m : at[i] \in positions /\ at[i] \in 1..(n - 1)
        BY <2>2
      <4>2. \A k \in 1..(n - 1) : k \in 1..n
        BY <2>2
      <4> QED BY <2>2, <4>1, <4>2
    <3>2. /\ to \in [1..(m + 1) -> positions \cap (1..n)]
          /\ to[m + 1] = n /\ \A i \in 1..m : to[i] = at[i] /\ at[i] \in 1..(n - 1)
      <4>1. n \in 1..n /\ m + 1 \in 1..(m + 1) /\ \A i \in 1..m : i \in 1..(m + 1)
        BY <2>2, <1>1
      <4>2. \A i \in 1..(m + 1) : i # m + 1 => i \in 1..m
        BY <2>2
      <4> QED BY <2>4, <3>0, <4>1, <4>2
    <3> HIDE DEF to
    <3>3. \A i \in 1..(m + 1) : i = m + 1 \/ i \in 1..m
      BY <2>2
    <3>4. \A i \in 1..(m + 1) : f[n][i] = list[to[i]]
      BY <2>2, <3>1, <3>2, <3>3
    <3>5. \A i, j \in 1..(m + 1) : i < j => to[i] < to[j]
      <4> SUFFICES ASSUME NEW i \in 1..(m + 1), NEW j \in 1..(m + 1), i < j PROVE to[i] < to[j]
        OBVIOUS
      <4>1. i \in 1..m
        BY <2>2
      <4>2. CASE j = m + 1
        <5>1. to[i] \in 1..(n - 1) /\ to[j] = n
          BY <3>2, <4>1, <4>2
        <5> QED BY <2>2, <5>1
      <4>3. CASE j # m + 1
        BY <2>2, <3>2, <3>3, <4>1, <4>3
      <4> QED BY <4>2, <4>3
    <3>6. ASSUME NEW p \in positions \cap (1..n) PROVE \E i \in 1..(m + 1) : to[i] = p
      <4>1. CASE p = n
        BY <2>2, <3>2, <4>1
      <4>2. CASE p # n
        <5>1. p \in positions \cap (1..(n - 1))
          BY <2>2, <4>2
        <5>2. PICK i \in 1..m : at[i] = p
          <6>1. \A x \in positions \cap (1..(n - 1)) : \E i \in 1..m : at[i] = x
            BY <2>2
          <6> QED BY <5>1, <6>1
        <5>3. i \in 1..(m + 1) /\ to[i] = p
          <6>1. to[i] = at[i]
            BY <3>2
          <6>2. i \in 1..(m + 1)
            BY <2>2
          <6> QED BY <5>2, <6>1, <6>2
        <5> QED BY <5>3
      <4> QED BY <4>1, <4>2
    <3>7. Is(n, to)
      BY <2>2, <3>1, <3>2, <3>4, <3>5, <3>6
    <3> HIDE DEF Is, N
    <3> QED BY <1>1, <3>7
  <2> QED BY <2>3, <2>4
<1>8. N \in R
  <2>1. 0..N \subseteq R
    <3>1. N \in Nat
      BY <1>1
    <3>2. \A n \in 1..N : n - 1 \in R => n \in R
      BY <1>7
    <3> HIDE DEF R, N
    <3> QED BY <1>6, <3>1, <3>2, UpTo
  <2>2. N \in 0..N
    BY <1>1
  <2> HIDE DEF R
  <2> QED BY <2>1, <2>2
<1>9. PICK at : Is(N, at)
  BY <1>8
<1>10. /\ f[N] \in Seq(E) /\ Len(f[N]) <= N /\ at \in [DOMAIN f[N] -> positions]
       /\ \A i \in DOMAIN f[N] : f[N][i] = list[at[i]]
       /\ \A i, j \in DOMAIN f[N] : i < j => at[i] < at[j]
       /\ \A p \in positions : \E i \in DOMAIN f[N] : at[i] = p
  <2>1. DOMAIN f[N] = 1..Len(f[N]) /\ positions \cap (1..N) = positions
    BY <1>1, <1>9
  <2>2. at \in [DOMAIN f[N] -> positions]
    BY <1>9, <2>1
  <2>3. \A p \in positions : p \in positions \cap (1..N)
    BY <2>1
  <2>4. \A p \in positions : \E i \in DOMAIN f[N] : at[i] = p
    BY <1>9, <2>1, <2>3
  <2>5. \A i, j \in DOMAIN f[N] : i < j => at[i] < at[j]
    BY <1>9, <2>1
  <2> QED BY <1>9, <2>1, <2>2, <2>4, <2>5
<1>11. Keeps(f[N], list, positions)
  BY <1>10 DEF Keeps
<1> QED BY <1>5, <1>10, <1>11

(* Nothing else is in it, and nothing twice that was there once.            *)
LEMMA KeptElements ==
  ASSUME NEW E, NEW list \in Seq(E), NEW positions \in SUBSET DOMAIN list
  PROVE  /\ \A i \in DOMAIN Kept(list, positions) : \E p \in positions : Kept(list, positions)[i] = list[p]
         /\ \A p \in positions : \E i \in DOMAIN Kept(list, positions) : Kept(list, positions)[i] = list[p]
         /\ IsInjective(list) => IsInjective(Kept(list, positions))
         /\ Kept(list, positions) \in Seq(E) /\ Len(Kept(list, positions)) <= Len(list)
<1> DEFINE kept == Kept(list, positions)
<1>1. kept \in Seq(E) /\ Keeps(kept, list, positions)
  BY KeptIs
<1> HIDE DEF kept
<1>2. PICK at \in [DOMAIN kept -> positions] :
        /\ \A i \in DOMAIN kept : kept[i] = list[at[i]]
        /\ \A i, j \in DOMAIN kept : i < j => at[i] < at[j]
        /\ \A p \in positions : \E i \in DOMAIN kept : at[i] = p
  BY <1>1 DEF Keeps
<1>3. ASSUME IsInjective(list), NEW i \in DOMAIN kept, NEW j \in DOMAIN kept, kept[i] = kept[j] PROVE i = j
  <2>1. at[i] = at[j]
    BY <1>2, <1>3 DEF IsInjective
  <2>2. i \in Nat /\ j \in Nat /\ at[i] \in Nat /\ at[j] \in Nat
    BY <1>1, <1>2
  <2> QED BY <1>2, <2>1, <2>2
<1>4. IsInjective(list) => IsInjective(kept)
  BY <1>3 DEF IsInjective
<1>5. /\ \A i \in DOMAIN kept : \E p \in positions : kept[i] = list[p]
      /\ \A p \in positions : \E i \in DOMAIN kept : kept[i] = list[p]
  BY <1>2
<1>6. kept \in Seq(E) /\ Len(kept) <= Len(list)
  BY <1>1 DEF Keeps
<1> QED BY <1>4, <1>5, <1>6 DEF kept

(* Nothing of a list.                                                       *)
LEMMA KeptNone == ASSUME NEW E, NEW list \in Seq(E) PROVE Kept(list, {}) = << >>
<1> DEFINE N == Len(list)
<1>1. N \in Nat
  OBVIOUS
<1>2. PICK f : /\ f[0] = << >> /\ \A m \in 1..N : f[m] = f[m - 1]
               /\ Kept(list, {}) = f[N]
  BY KeptSteps
<1> DEFINE R == {m \in 0..N : f[m] = << >>}
<1>3. 0 \in R /\ \A m \in 1..N : m - 1 \in R => m \in R
  BY <1>1, <1>2
<1>4. 0..N \subseteq R
  <2> HIDE DEF R, N
  <2> QED BY <1>1, <1>3, UpTo
<1> QED BY <1>1, <1>2, <1>4

(* One position more, after the others.                                     *)
LEMMA KeptOneMore ==
  ASSUME NEW E, NEW list \in Seq(E), NEW n \in DOMAIN list,
         NEW positions \in SUBSET DOMAIN list, \A p \in positions : p < n
  PROVE  Kept(list, positions \cup {n}) = Append(Kept(list, positions), list[n])
<1> DEFINE N == Len(list)
           more == positions \cup {n}
<1>1. N \in Nat /\ n \in 1..N /\ DOMAIN list = 1..N
  OBVIOUS
<1>2. PICK f : /\ f[0] = << >>
               /\ \A m \in 1..N : f[m] = IF m \in positions THEN Append(f[m - 1], list[m]) ELSE f[m - 1]
               /\ Kept(list, positions) = f[N]
  BY KeptSteps
<1>3. PICK g : /\ g[0] = << >>
               /\ \A m \in 1..N : g[m] = IF m \in more THEN Append(g[m - 1], list[m]) ELSE g[m - 1]
               /\ Kept(list, more) = g[N]
  <2> HIDE DEF more
  <2> QED BY KeptSteps
<1>4. \A m \in 1..N : (m < n => (m \in more <=> m \in positions)) /\ (m > n => m \notin more /\ m \notin positions)
  BY <1>1
<1>5. n \in more /\ n \notin positions
  BY <1>1
<1> HIDE DEF N, more
<1> DEFINE R == {m \in 0..N : m < n => f[m] = g[m]}
           Q == {m \in 0..N : m >= n => f[m] = f[n - 1] /\ g[m] = g[n]}
<1>6. 0 \in R /\ \A m \in 1..N : m - 1 \in R => m \in R
  BY <1>1, <1>2, <1>3, <1>4
<1>7. 0 \in Q /\ \A m \in 1..N : m - 1 \in Q => m \in Q
  <2>1. f[n] = f[n - 1]
    BY <1>1, <1>2, <1>5
  <2>2. \A m \in 1..N : m > n => f[m] = f[m - 1] /\ g[m] = g[m - 1]
    BY <1>2, <1>3, <1>4
  <2> QED BY <1>1, <2>1, <2>2
<1>8. 0..N \subseteq R /\ 0..N \subseteq Q
  <2> HIDE DEF R, Q
  <2> QED BY <1>1, <1>6, <1>7, UpTo
<1>9. f[n - 1] = g[n - 1] /\ f[N] = f[n - 1] /\ g[N] = g[n]
  BY <1>1, <1>8
<1>10. g[n] = Append(g[n - 1], list[n])
  BY <1>1, <1>3, <1>5
<1> QED BY <1>2, <1>3, <1>9, <1>10 DEF more
-----------------------------------------------------------------------------
(* Sums over a finite set.                                                  *)

(* What every set has that the empty one has and that goes over from the    *)
(* subsets with one element less.                                           *)
LEMMA SubsetInduction ==
  ASSUME NEW D, IsFiniteSet(D), NEW P, {} \in P,
         \A s \in SUBSET D : s # {} /\ (\A x \in s : s \ {x} \in P) => s \in P
  PROVE  SUBSET D \subseteq P
<1> SUFFICES ASSUME ~(SUBSET D \subseteq P) PROVE FALSE
  OBVIOUS
<1> DEFINE W == (SUBSET D) \ P
<1>1. W \subseteq FiniteSubsetsOf(D) /\ W # {}
  BY FS_Subset DEF FiniteSubsetsOf
<1>2. IsWellFoundedOn(StrictSubsetOrdering(D), FiniteSubsetsOf(D))
  BY FS_StrictSubsetOrderingWellFounded
<1>3. PICK m \in W : \A y \in W : ~(<<y, m>> \in StrictSubsetOrdering(D))
  <2> HIDE DEF W
  <2> QED BY <1>1, <1>2, WFMin
<1>4. ASSUME NEW x \in m PROVE m \ {x} \in P
  <2>1. <<m \ {x}, m>> \in StrictSubsetOrdering(D)
    BY DEF StrictSubsetOrdering
  <2>2. m \ {x} \in SUBSET D /\ m \ {x} \notin W
    BY <1>3, <2>1
  <2> QED BY <2>2
<1> QED BY <1>3, <1>4

(* The recursion by which a fold over sets adds up. *)
Adds(g, D, it) ==
  it = [s \in SUBSET D |-> IF s = {} THEN 0
                           ELSE LET x == CHOOSE x \in s : TRUE IN g[x] + it[s \ {x}]]

LEMMA AddsExists ==
  ASSUME NEW D, IsFiniteSet(D), NEW g \in [D -> Nat]
  PROVE  \E it : Adds(g, D, it)
<1> DEFINE N == Cardinality(D)
           S == [SUBSET D -> Nat]
           base == [s \in SUBSET D |-> 0]
           Next(it) == [s \in SUBSET D |-> IF s = {} THEN 0
                          ELSE LET x == CHOOSE x \in s : TRUE IN g[x] + it[s \ {x}]]
           step == [p \in S \X (1..N) |-> Next(p[1])]
<1>1. N \in Nat /\ base \in S
  BY FS_CardinalityType
<1>2. ASSUME NEW it \in S PROVE Next(it) \in S
  <2> SUFFICES ASSUME NEW s \in SUBSET D, s # {}
               PROVE  g[CHOOSE x \in s : TRUE] + it[s \ {CHOOSE x \in s : TRUE}] \in Nat
    OBVIOUS
  <2> DEFINE x == CHOOSE x \in s : TRUE
  <2>1. x \in D
    OBVIOUS
  <2> HIDE DEF x
  <2>2. g[x] \in Nat /\ it[s \ {x}] \in Nat
    BY <2>1
  <2> QED BY <2>2 DEF x
<1>3. step \in [S \X (1..N) -> S] /\ \A it \in S, n \in 1..N : step[<<it, n>>] = Next(it)
  <2> HIDE DEF Next, S, N
  <2> QED BY <1>2
<1>4. PICK f \in [0..N -> S] : f[0] = base /\ \A n \in 1..N : f[n] = step[<<f[n - 1], n>>]
  <2>1. Recursive(N, S, base, step)
    <3> HIDE DEF step, S, N, base
    <3> QED BY <1>1, <1>3, Recursion
  <2> QED BY <2>1 DEF Recursive
<1>5. \A n \in 1..N : f[n] = Next(f[n - 1])
  <2>1. \A n \in 1..N : n - 1 \in 0..N
    BY <1>1
  <2> HIDE DEF step, S, N, base, Next
  <2> QED BY <1>3, <1>4, <2>1
<1> DEFINE it == [s \in SUBSET D |-> f[Cardinality(s)][s]]
<1>6. ASSUME NEW s \in SUBSET D
      PROVE  it[s] = IF s = {} THEN 0
                     ELSE LET x == CHOOSE x \in s : TRUE IN g[x] + it[s \ {x}]
  <2>1. CASE s = {}
    <3>1. Cardinality(s) = 0
      BY <2>1, FS_EmptySet
    <3> QED BY <1>4, <2>1, <3>1
  <2>2. CASE s # {}
    <3> DEFINE x == CHOOSE x \in s : TRUE
    <3>1. x \in s
      BY <2>2
    <3> HIDE DEF x
    <3>2. IsFiniteSet(s) /\ Cardinality(s) \in 1..N
      <4>1. IsFiniteSet(s) /\ Cardinality(s) <= N
        BY FS_Subset
      <4>2. Cardinality(s) \in Nat /\ Cardinality(s) # 0
        BY <2>2, <4>1, FS_EmptySet, FS_CardinalityType
      <4> QED BY <1>1, <4>1, <4>2
    <3>3. Cardinality(s \ {x}) = Cardinality(s) - 1
      BY <3>1, <3>2, FS_RemoveElement
    <3>4. it[s] = Next(f[Cardinality(s) - 1])[s]
      <4> HIDE DEF Next, N
      <4> QED BY <1>5, <3>2
    <3>5. it[s \ {x}] = f[Cardinality(s) - 1][s \ {x}]
      BY <3>3
    <3>6. Next(f[Cardinality(s) - 1])[s] = g[x] + f[Cardinality(s) - 1][s \ {x}]
      BY <2>2 DEF x
    <3> QED BY <2>2, <3>4, <3>5, <3>6 DEF x
  <2> QED BY <2>1, <2>2
<1>7. Adds(g, D, it)
  <2> DEFINE value(s) == IF s = {} THEN 0
                     ELSE LET x == CHOOSE x \in s : TRUE IN g[x] + it[s \ {x}]
  <2>1. \A s \in SUBSET D : it[s] = value(s)
    BY <1>6
  <2>2. it = [s \in SUBSET D |-> it[s]]
    OBVIOUS
  <2>3. it = [s \in SUBSET D |-> value(s)]
    <3> HIDE DEF it, value
    <3> QED BY <2>1, <2>2
  <2> HIDE DEF it
  <2> QED BY <2>3 DEF Adds
<1> QED BY <1>7

LEMMA AddsType ==
  ASSUME NEW D, IsFiniteSet(D), NEW g \in [D -> Nat], NEW it, Adds(g, D, it)
  PROVE  /\ it[{}] = 0
         /\ \A s \in SUBSET D :
              /\ it[s] \in Nat
              /\ s # {} => \E y \in s : it[s] = g[y] + it[s \ {y}]
<1> DEFINE P == {s \in SUBSET D : it[s] \in Nat}
           Value(s) == IF s = {} THEN 0
                       ELSE LET x == CHOOSE x \in s : TRUE IN g[x] + it[s \ {x}]
<1>1. \A s \in SUBSET D : it[s] = Value(s)
  <2>1. it = [s \in SUBSET D |-> Value(s)]
    BY DEF Adds
  <2> HIDE DEF Value
  <2> QED BY <2>1
<1>2. it[{}] = 0
  BY <1>1
<1>3. ASSUME NEW s \in SUBSET D, s # {} PROVE \E y \in s : it[s] = g[y] + it[s \ {y}]
  <2> DEFINE y == CHOOSE x \in s : TRUE
  <2>1. y \in s
    BY <1>3
  <2>2. it[s] = g[y] + it[s \ {y}]
    BY <1>1, <1>3
  <2> HIDE DEF y
  <2> QED BY <2>1, <2>2
<1>4. ASSUME NEW s \in SUBSET D, s # {}, \A x \in s : s \ {x} \in P PROVE s \in P
  <2>1. PICK y \in s : it[s] = g[y] + it[s \ {y}]
    BY <1>3, <1>4
  <2>2. g[y] \in Nat /\ it[s \ {y}] \in Nat
    BY <1>4
  <2> QED BY <2>1, <2>2
<1>5. {} \in P
  BY <1>2
<1>6. SUBSET D \subseteq P
  <2> HIDE DEF P
  <2> QED BY <1>4, <1>5, SubsetInduction
<1> QED BY <1>2, <1>3, <1>6

(* The elements may be added in any order. *)
LEMMA AddsOne ==
  ASSUME NEW D, IsFiniteSet(D), NEW g \in [D -> Nat], NEW it, Adds(g, D, it)
  PROVE  \A s \in SUBSET D : \A x \in s : it[s] = g[x] + it[s \ {x}]
<1> DEFINE Good(s) == \A x \in s : it[s] = g[x] + it[s \ {x}]
           P == {s \in SUBSET D : Good(s)}
<1>1. \A s \in SUBSET D : it[s] \in Nat
  BY AddsType
<1>2. {} \in P
  OBVIOUS
<1>3. ASSUME NEW s \in SUBSET D, s # {}, \A x \in s : s \ {x} \in P PROVE s \in P
  <2>1. PICK y \in s : it[s] = g[y] + it[s \ {y}]
    BY <1>3, AddsType
  <2>2. ASSUME NEW x \in s, x # y PROVE it[s] = g[x] + it[s \ {x}]
    <3> DEFINE rest == s \ {x, y}
    <3>1. /\ x \in s \ {y} /\ y \in s \ {x}
          /\ (s \ {y}) \ {x} = rest /\ (s \ {x}) \ {y} = rest
      BY <2>1, <2>2
    <3>2. Good(s \ {y}) /\ Good(s \ {x})
      BY <1>3
    <3>3. g[x] \in Nat /\ g[y] \in Nat /\ it[rest] \in Nat
      BY <1>1
    <3> HIDE DEF rest
    <3>4. it[s \ {y}] = g[x] + it[rest] /\ it[s \ {x}] = g[y] + it[rest]
      BY <3>1, <3>2
    <3> QED BY <2>1, <3>3, <3>4
  <2>3. Good(s)
    BY <2>1, <2>2
  <2> QED BY <2>3
<1>4. SUBSET D \subseteq P
  <2> HIDE DEF P
  <2> QED BY <1>2, <1>3, SubsetInduction
<1> QED BY <1>4

(* The fold of the library is this recursion. *)
LEMMA SumAdds ==
  ASSUME NEW g, NEW D, \E it : Adds(g, D, it)
  PROVE  \E it : Adds(g, D, it) /\ SumFunctionOnSet(g, D) = it[D]
<1> DEFINE it == CHOOSE f : Adds(g, D, f)
<1>1. Adds(g, D, it)
  OBVIOUS
<1>2. SumFunctionOnSet(g, D) = it[D]
  BY DEF SumFunctionOnSet, FoldFunctionOnSet, MapThenFoldSet, Adds
<1> HIDE DEF it
<1> QED BY <1>1, <1>2

(* Nothing adds up to nothing. *)
LEMMA SumNone == ASSUME NEW g \in [{} -> Nat] PROVE SumFunction(g) = 0
<1>1. PICK it : Adds(g, {}, it) /\ SumFunctionOnSet(g, {}) = it[{}]
  BY AddsExists, SumAdds, FS_EmptySet
<1>2. it[{}] = 0
  BY <1>1, AddsType, FS_EmptySet
<1> QED BY <1>1, <1>2 DEF SumFunction

(* With one row less the sum is not larger. *)
LEMMA SumWithout ==
  ASSUME NEW D, IsFiniteSet(D), NEW g \in [D -> Nat], NEW x \in D
  PROVE  /\ SumFunction(g) \in Nat
         /\ SumFunction([y \in D \ {x} |-> g[y]]) \in Nat
         /\ SumFunction([y \in D \ {x} |-> g[y]]) <= SumFunction(g)
<1> DEFINE E == D \ {x}
           h == [y \in E |-> g[y]]
<1>1. IsFiniteSet(E) /\ h \in [E -> Nat] /\ DOMAIN h = E /\ DOMAIN g = D
  BY FS_Subset
<1>2. PICK it : Adds(g, D, it) /\ SumFunctionOnSet(g, D) = it[D]
  BY AddsExists, SumAdds
<1>3. PICK less : Adds(h, E, less) /\ SumFunctionOnSet(h, E) = less[E]
  <2> HIDE DEF h, E
  <2> QED BY <1>1, AddsExists, SumAdds
<1> DEFINE P == {s \in SUBSET E : it[s] = less[s]}
<1>4. {} \in P
  <2> HIDE DEF h, E
  <2> QED BY <1>1, <1>2, <1>3, AddsType
<1>5. ASSUME NEW s \in SUBSET E, s # {}, \A y \in s : s \ {y} \in P PROVE s \in P
  <2>1. PICK y \in s : TRUE
    BY <1>5
  <2>2. less[s] = h[y] + less[s \ {y}]
    <3> HIDE DEF h, E
    <3> QED BY <1>1, <1>3, AddsOne
  <2>3. it[s] = g[y] + it[s \ {y}]
    BY <1>2, AddsOne
  <2>4. h[y] = g[y] /\ it[s \ {y}] = less[s \ {y}]
    BY <1>5
  <2> QED BY <2>2, <2>3, <2>4
<1>6. SUBSET E \subseteq P
  <2> HIDE DEF P, E
  <2> QED BY <1>1, <1>4, <1>5, SubsetInduction
<1>7. it[D] = g[x] + it[E] /\ it[E] = less[E] /\ g[x] \in Nat
  BY <1>2, <1>6, AddsOne
<1>8. it[D] \in Nat /\ it[E] \in Nat
  BY <1>2, AddsType
<1>9. SumFunction(g) = it[D] /\ SumFunction(h) = less[E]
  BY <1>1, <1>2, <1>3 DEF SumFunction
<1> QED BY <1>7, <1>8, <1>9
=============================================================================
