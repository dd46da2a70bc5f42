--------------------------- MODULE StatementProofs ---------------------------
(***************************************************************************)
(* Theorems about Statements for any ledger, page size, readers and        *)
(* postings: the rows and walks keep their types, and a walk through the   *)
(* pages tells every row once.  The inductive invariant says where a walk  *)
(* stands: of the rows it began with it has told exactly those that are    *)
(* not past its cursor.  Then, from a theory of sums over finite sets,     *)
(* that the figures of the summaries add up, and for users whose postings  *)
(* are not interleaved that a day closes on the sum of all rows up to its  *)
(* end.                                                                    *)
(***************************************************************************)
EXTENDS Statements, FiniteSetTheorems, WellFoundedInduction, TLAPS

RowsKnown ==
  /\ IsFiniteSet(ledger)
  /\ \A a, b \in ledger : a.id = b.id => a = b

Began(v) ==
  /\ \A i \in view[v].start : \E row \in ledger : row.id = i
  /\ \A row \in ledger : row.id \in view[v].start => Matches(row, view[v].scope)

ToldOnce(v) ==
  /\ \A i \in Ids : view[v].told[i] <= 1
  /\ \A i \in Ids : view[v].told[i] > 0 => \E row \in ledger : row.id = i

Standing(v) ==
  /\ \A row \in ledger : view[v].told[row.id] > 0 => ~Past(row, view[v].cursor)
  /\ \A row \in ledger :
       row.id \in view[v].start /\ ~Past(row, view[v].cursor) => view[v].told[row.id] = 1

Finished(v) == \A i \in view[v].start : view[v].told[i] = 1

WalkInv(v) ==
  /\ view[v].at \in {"walking", "done"} => Began(v) /\ ToldOnce(v)
  /\ view[v].at = "walking" => Standing(v)
  /\ view[v].at = "done" => Finished(v)

Inv == TypeOK /\ RowsKnown /\ \A v \in Readers : WalkInv(v)

-----------------------------------------------------------------------------
(* Sums over finite sets *)

Some(S) == CHOOSE x \in S : TRUE

\* f gives every subset of S the sum of its weights, taken in the order of Some.
SumsUp(f, w, S) ==
  /\ f \in [SUBSET S -> Int]
  /\ \A T \in SUBSET S : f[T] = IF T = {} THEN 0 ELSE w[Some(T)] + f[T \ {Some(T)}]

Sum(w, S) == (CHOOSE f : SumsUp(f, w, S))[S]

Weighs(w, S) == IsFiniteSet(S) /\ \A x \in S : w[x] \in Int

\* Some element of a set that is not empty is in it.
LEMMA SomeIsIn ==
  ASSUME NEW S, S # {}
  PROVE  Some(S) \in S
  BY DEF Some

\* A family of subsets of a finite set has a smallest member: induction over finite sets.
LEMMA Smallest ==
  ASSUME NEW S, IsFiniteSet(S), NEW B \in SUBSET SUBSET S, B # {}
  PROVE  \E T \in B : \A U \in B : U \subseteq T => U = T
<1>1. IsWellFoundedOn(StrictSubsetOrdering(S), FiniteSubsetsOf(S))
  BY FS_StrictSubsetOrderingWellFounded
<1>2. FiniteSubsetsOf(S) = SUBSET S
  BY FS_FiniteSubsetsOfFinite
<1>3. PICK T \in B : \A U \in B : ~ (<<U, T>> \in StrictSubsetOrdering(S))
  BY <1>1, <1>2, WFMin
<1>4. ASSUME NEW U \in B, U \subseteq T, U # T
      PROVE  <<U, T>> \in StrictSubsetOrdering(S)
  BY <1>4 DEF StrictSubsetOrdering
<1>5. \A U \in B : U \subseteq T => U = T
  BY <1>3, <1>4
<1> QED
  BY <1>5

\* Two such functions agree wherever both are defined.
LEMMA SumsAgree ==
  ASSUME NEW f, NEW g, NEW w, NEW S, NEW R, SumsUp(f, w, S), SumsUp(g, w, R),
         NEW T, T \subseteq S, T \subseteq R, IsFiniteSet(T)
  PROVE  f[T] = g[T]
<1> SUFFICES ASSUME f[T] # g[T] PROVE FALSE
  OBVIOUS
<1> DEFINE B == {U \in SUBSET T : f[U] # g[U]}
<1>1. PICK U \in B : \A V \in B : V \subseteq U => V = U
  <2>1. B \in SUBSET SUBSET T /\ B # {}
    OBVIOUS
  <2> HIDE DEF B
  <2> QED
    BY <2>1, Smallest
<1>2. U # {}
  BY DEF SumsUp
<1>3. Some(U) \in U
  BY <1>2, SomeIsIn
<1>4. f[U \ {Some(U)}] = g[U \ {Some(U)}]
  BY <1>1, <1>3
<1>5. f[U] = w[Some(U)] + f[U \ {Some(U)}] /\ g[U] = w[Some(U)] + g[U \ {Some(U)}]
  BY <1>2 DEF SumsUp
<1> QED
  BY <1>4, <1>5

\* Restricting such a function to the subsets of a smaller set gives one for it.
LEMMA SumExists ==
  ASSUME NEW w, NEW S, Weighs(w, S)
  PROVE  \E f : SumsUp(f, w, S)
<1> SUFFICES ASSUME ~ \E f : SumsUp(f, w, S) PROVE FALSE
  OBVIOUS
<1> DEFINE B == {U \in SUBSET S : ~ \E f : SumsUp(f, w, U)}
<1>1. PICK U \in B : \A V \in B : V \subseteq U => V = U
  <2>1. B \in SUBSET SUBSET S /\ B # {}
    OBVIOUS
  <2> HIDE DEF B
  <2> QED
    BY <2>1, Smallest DEF Weighs
<1> DEFINE h(V) == CHOOSE f : SumsUp(f, w, V)
           g == [V \in SUBSET U |-> IF V = {} THEN 0 ELSE w[Some(V)] + h(V \ {Some(V)})[V \ {Some(V)}]]
<1>2. ASSUME NEW V \in SUBSET U, V # U PROVE SumsUp(h(V), w, V)
  BY <1>1, <1>2
<1>3. ASSUME NEW V \in SUBSET U, V # {}
      PROVE  /\ Some(V) \in V
             /\ V \ {Some(V)} \in SUBSET U /\ V \ {Some(V)} # U
             /\ w[Some(V)] \in Int
             /\ h(V \ {Some(V)})[V \ {Some(V)}] \in Int
  <2>1. Some(V) \in V
    BY <1>3, SomeIsIn
  <2>2. V \ {Some(V)} \in SUBSET U /\ V \ {Some(V)} # U
    BY <2>1
  <2>3. SumsUp(h(V \ {Some(V)}), w, V \ {Some(V)})
    BY <2>2, <1>2
  <2> QED
    BY <2>1, <2>2, <2>3 DEF SumsUp, Weighs
<1>4. g \in [SUBSET U -> Int]
  <2> HIDE DEF h
  <2> QED
    BY <1>3
<1>5. ASSUME NEW V \in SUBSET U, V # {}
      PROVE  g[V \ {Some(V)}] = h(V \ {Some(V)})[V \ {Some(V)}]
  <2> DEFINE W == V \ {Some(V)}
  <2>1. W \in SUBSET U /\ W # U
    BY <1>5, <1>3
  <2>2. SumsUp(h(W), w, W)
    BY <2>1, <1>2
  <2>3. CASE W = {}
    BY <2>1, <2>2, <2>3 DEF SumsUp
  <2>4. CASE W # {}
    <3> DEFINE X == W \ {Some(W)}
    <3>1. X \in SUBSET U /\ X # U /\ X \subseteq W
      BY <2>1, <2>4, <1>3
    <3>2. SumsUp(h(X), w, X)
      BY <3>1, <1>2
    <3>3. IsFiniteSet(X)
      BY <3>1, FS_Subset DEF Weighs
    <3>4. h(W)[X] = h(X)[X]
      <4> HIDE DEF h, X, W
      <4> QED
        BY <3>1, <3>2, <3>3, <2>2, SumsAgree
    <3>5. h(W)[W] = w[Some(W)] + h(W)[X]
      <4> HIDE DEF h
      <4> QED
        BY <2>2, <2>4 DEF SumsUp
    <3>6. g[W] = w[Some(W)] + h(X)[X]
      BY <2>1, <2>4
    <3> QED
      BY <3>4, <3>5, <3>6
  <2> QED
    BY <2>3, <2>4
<1>6. SumsUp(g, w, U)
  <2>1. ASSUME NEW V \in SUBSET U
        PROVE  g[V] = IF V = {} THEN 0 ELSE w[Some(V)] + g[V \ {Some(V)}]
    <3>1. CASE V = {}
      BY <3>1
    <3>2. CASE V # {}
      <4>1. g[V] = w[Some(V)] + h(V \ {Some(V)})[V \ {Some(V)}]
        BY <3>2
      <4> HIDE DEF g, h
      <4> QED
        BY <4>1, <3>2, <1>5
    <3> QED
      BY <3>1, <3>2
  <2> HIDE DEF g
  <2> QED
    BY <1>4, <2>1 DEF SumsUp
<1> QED
  BY <1>6, <1>1

\* A sum of integers is one, that of nothing is zero.
LEMMA SumOfNone ==
  ASSUME NEW w, NEW S, Weighs(w, S)
  PROVE  Sum(w, S) \in Int /\ (S = {} => Sum(w, S) = 0)
<1>1. SumsUp(CHOOSE f : SumsUp(f, w, S), w, S)
  BY SumExists
<1> QED
  BY <1>1 DEF SumsUp, Sum

LEMMA SumOfPart ==
  ASSUME NEW w, NEW S, Weighs(w, S), NEW T \in SUBSET S
  PROVE  Weighs(w, T)
  BY FS_Subset DEF Weighs

\* Whatever function sums up the weights of S, it gives S its sum.
LEMMA SumIsAnySum ==
  ASSUME NEW w, NEW S, Weighs(w, S), NEW R, S \subseteq R, NEW f, SumsUp(f, w, R)
  PROVE  f[S] = Sum(w, S)
<1>1. SumsUp(CHOOSE g : SumsUp(g, w, S), w, S)
  BY SumExists
<1>2. f[S] = (CHOOSE g : SumsUp(g, w, S))[S]
  BY <1>1, SumsAgree DEF Weighs
<1> QED
  BY <1>2 DEF Sum

\* ... and so does whatever unrolls like a sum.
LEMMA SumIsAnyUnrolled ==
  ASSUME NEW w, NEW S, Weighs(w, S), NEW g,
         \A T \in SUBSET S : g[T] = IF T = {} THEN 0 ELSE w[Some(T)] + g[T \ {Some(T)}]
  PROVE  g[S] = Sum(w, S)
<1>1. PICK f : SumsUp(f, w, S)
  BY SumExists
<1>2. f[S] = Sum(w, S)
  BY <1>1, SumIsAnySum
<1> SUFFICES ASSUME g[S] # f[S] PROVE FALSE
  BY <1>2
<1> DEFINE B == {T \in SUBSET S : g[T] # f[T]}
<1>3. PICK T \in B : \A U \in B : U \subseteq T => U = T
  <2>1. B \in SUBSET SUBSET S /\ B # {}
    OBVIOUS
  <2> HIDE DEF B
  <2> QED
    BY <2>1, Smallest DEF Weighs
<1>4. T # {}
  BY <1>1 DEF SumsUp
<1>5. g[T \ {Some(T)}] = f[T \ {Some(T)}]
  BY <1>3, <1>4, SomeIsIn
<1>6. f[T] = w[Some(T)] + f[T \ {Some(T)}]
  BY <1>1, <1>4 DEF SumsUp
<1> QED
  BY <1>4, <1>5, <1>6

\* The first element taken.
LEMMA SumTakesSome ==
  ASSUME NEW w, NEW S, Weighs(w, S), S # {}
  PROVE  Sum(w, S) = w[Some(S)] + Sum(w, S \ {Some(S)})
<1>1. PICK f : SumsUp(f, w, S)
  BY SumExists
<1>2. f[S] = w[Some(S)] + f[S \ {Some(S)}]
  BY <1>1 DEF SumsUp
<1>3. Weighs(w, S \ {Some(S)})
  BY SumOfPart
<1> QED
  BY <1>1, <1>2, <1>3, SumIsAnySum

\* Any element may be taken: the order of the terms does not matter.
LEMMA SumTakesAny ==
  ASSUME NEW w, NEW S, Weighs(w, S), NEW x \in S
  PROVE  Sum(w, S) = w[x] + Sum(w, S \ {x})
<1> SUFFICES ASSUME Sum(w, S) # w[x] + Sum(w, S \ {x}) PROVE FALSE
  OBVIOUS
<1> DEFINE B == {U \in SUBSET S : \E y \in U : Sum(w, U) # w[y] + Sum(w, U \ {y})}
<1>1. PICK U \in B : \A V \in B : V \subseteq U => V = U
  <2>1. B \in SUBSET SUBSET S /\ B # {}
    OBVIOUS
  <2> HIDE DEF B
  <2> QED
    BY <2>1, Smallest DEF Weighs
<1>2. PICK y \in U : Sum(w, U) # w[y] + Sum(w, U \ {y})
  OBVIOUS
<1> DEFINE z == Some(U)
<1>3. z \in U
  BY <1>2, SomeIsIn
<1>4. Sum(w, U) = w[z] + Sum(w, U \ {z})
  BY <1>3, SumTakesSome, SumOfPart
<1>5. y # z
  BY <1>2, <1>4
<1>6. ASSUME NEW V \in SUBSET U, V # U, NEW v \in V
      PROVE  Sum(w, V) = w[v] + Sum(w, V \ {v})
  BY <1>1, <1>6
<1>7. Sum(w, U \ {z}) = w[y] + Sum(w, (U \ {z}) \ {y})
  BY <1>6, <1>3, <1>5
<1>8. Sum(w, U \ {y}) = w[z] + Sum(w, (U \ {y}) \ {z})
  BY <1>6, <1>3, <1>5
<1>9. (U \ {z}) \ {y} = (U \ {y}) \ {z}
  OBVIOUS
<1>10. w[y] \in Int /\ w[z] \in Int /\ Sum(w, (U \ {y}) \ {z}) \in Int
  BY <1>3, SumOfPart, SumOfNone DEF Weighs
<1>11. w[z] + (w[y] + Sum(w, (U \ {y}) \ {z})) = w[y] + (w[z] + Sum(w, (U \ {y}) \ {z}))
  BY <1>10
<1>12. Sum(w, U) = w[y] + Sum(w, U \ {y})
  BY <1>4, <1>7, <1>8, <1>9, <1>11, Zenon
<1> QED
  BY <1>2, <1>12

\* Adding one element adds its weight.
LEMMA SumGrows ==
  ASSUME NEW w, NEW S, Weighs(w, S), NEW x, x \notin S, w[x] \in Int
  PROVE  Weighs(w, S \cup {x}) /\ Sum(w, S \cup {x}) = Sum(w, S) + w[x]
<1>1. Weighs(w, S \cup {x})
  BY FS_AddElement DEF Weighs
<1>2. Sum(w, S \cup {x}) = w[x] + Sum(w, (S \cup {x}) \ {x})
  BY <1>1, SumTakesAny
<1>3. (S \cup {x}) \ {x} = S
  OBVIOUS
<1>4. Sum(w, S \cup {x}) = w[x] + Sum(w, S)
  BY <1>2, <1>3, Zenon
<1>5. Sum(w, S) \in Int
  BY SumOfNone
<1> QED
  BY <1>1, <1>4, <1>5

\* Equal weights give equal sums.
LEMMA SumOfEqual ==
  ASSUME NEW w, NEW v, NEW S, Weighs(w, S), \A x \in S : v[x] = w[x]
  PROVE  Weighs(v, S) /\ Sum(v, S) = Sum(w, S)
<1>1. Weighs(v, S)
  BY DEF Weighs
<1>2. PICK f : SumsUp(f, w, S)
  BY SumExists
<1>3. SumsUp(f, v, S)
  <2>1. ASSUME NEW T \in SUBSET S, T # {} PROVE v[Some(T)] = w[Some(T)]
    BY <2>1, SomeIsIn
  <2> QED
    BY <1>2, <2>1 DEF SumsUp
<1>4. f[S] = Sum(w, S) /\ f[S] = Sum(v, S)
  BY <1>1, <1>2, <1>3, SumIsAnySum
<1> QED
  BY <1>1, <1>4

\* The sum of two separate parts.
LEMMA SumOfParts ==
  ASSUME NEW w, NEW S, Weighs(w, S), NEW A \in SUBSET S, NEW C \in SUBSET S,
         S = A \cup C, A \cap C = {}
  PROVE  Sum(w, S) = Sum(w, A) + Sum(w, C)
<1> SUFFICES ASSUME Sum(w, S) # Sum(w, A) + Sum(w, C) PROVE FALSE
  OBVIOUS
<1> DEFINE B == {U \in SUBSET C : Sum(w, A \cup U) # Sum(w, A) + Sum(w, U)}
<1>0. Weighs(w, A) /\ Weighs(w, C)
  BY SumOfPart
<1>1. PICK U \in B : \A V \in B : V \subseteq U => V = U
  <2>1. B \in SUBSET SUBSET C /\ B # {}
    OBVIOUS
  <2> HIDE DEF B
  <2> QED
    BY <1>0, <2>1, Smallest DEF Weighs
<1>2. U \in SUBSET C /\ Sum(w, A \cup U) # Sum(w, A) + Sum(w, U)
  OBVIOUS
<1>3. U # {}
  <2>1. Sum(w, {}) = 0 /\ Sum(w, A) \in Int
    BY <1>0, SumOfPart, SumOfNone
  <2>2. Sum(w, A) = Sum(w, A) + Sum(w, {})
    BY <2>1
  <2>3. A \cup {} = A
    OBVIOUS
  <2>4. U = {} => Sum(w, A \cup U) = Sum(w, A) + Sum(w, U)
    BY <2>2, <2>3, Zenon
  <2> QED
    BY <2>4, <1>2
<1>4. PICK x \in U : TRUE
  BY <1>3
<1>5. Sum(w, A \cup (U \ {x})) = Sum(w, A) + Sum(w, U \ {x})
  BY <1>1, <1>2, <1>4
<1>6. Sum(w, A \cup U) = w[x] + Sum(w, (A \cup U) \ {x})
  BY <1>2, <1>4, SumOfPart, SumTakesAny
<1>7. (A \cup U) \ {x} = A \cup (U \ {x})
  BY <1>2, <1>4
<1>8. Sum(w, U) = w[x] + Sum(w, U \ {x})
  BY <1>2, <1>4, SumOfPart, SumTakesAny
<1>9. w[x] \in Int /\ Sum(w, A) \in Int /\ Sum(w, U \ {x}) \in Int
  BY <1>0, <1>2, <1>4, SumOfPart, SumOfNone DEF Weighs
<1>10. w[x] + (Sum(w, A) + Sum(w, U \ {x})) = Sum(w, A) + (w[x] + Sum(w, U \ {x}))
  BY <1>9
<1>11. Sum(w, A \cup U) = Sum(w, A) + Sum(w, U)
  BY <1>5, <1>6, <1>7, <1>8, <1>10, Zenon
<1> QED
  BY <1>2, <1>11

\* The elements that weigh nothing may be left out.
LEMMA SumOfWeightless ==
  ASSUME NEW w, NEW S, Weighs(w, S), \A x \in S : w[x] = 0
  PROVE  Sum(w, S) = 0
<1> DEFINE f == [T \in SUBSET S |-> 0]
<1>1. SumsUp(f, w, S)
  <2>1. ASSUME NEW T \in SUBSET S, T # {} PROVE Some(T) \in S
    BY <2>1, SomeIsIn
  <2> QED
    BY <2>1 DEF SumsUp
<1>2. f[S] = Sum(w, S)
  BY <1>1, SumIsAnySum
<1> QED
  BY <1>2

\* Summing by keys: what the elements of each key weigh, over the keys.
LEMMA SumByKey ==
  ASSUME NEW w, NEW S, Weighs(w, S), NEW key, NEW K, IsFiniteSet(K), NEW v,
         \A k \in K : v[k] = Sum(w, {x \in S : key[x] = k})
  PROVE  Weighs(v, K) /\ Sum(v, K) = Sum(w, {x \in S : key[x] \in K})
<1>1. Weighs(v, K)
  <2>1. ASSUME NEW k \in K PROVE v[k] \in Int
    <3>1. {x \in S : key[x] = k} \in SUBSET S
      OBVIOUS
    <3> QED
      BY <3>1, SumOfPart, SumOfNone
  <2> QED
    BY <2>1 DEF Weighs
<1> SUFFICES ASSUME Sum(v, K) # Sum(w, {x \in S : key[x] \in K}) PROVE FALSE
  BY <1>1
<1> DEFINE of(L) == {x \in S : key[x] \in L}
           B == {L \in SUBSET K : Sum(v, L) # Sum(w, of(L))}
<1>2. PICK L \in B : \A M \in B : M \subseteq L => M = L
  <2>1. B \in SUBSET SUBSET K /\ B # {}
    OBVIOUS
  <2> HIDE DEF B
  <2> QED
    BY <2>1, Smallest
<1>3. L \in SUBSET K /\ Sum(v, L) # Sum(w, of(L))
  OBVIOUS
<1>4. L # {}
  <2>1. Sum(v, {}) = 0
    BY <1>1, SumOfPart, SumOfNone
  <2>2. of({}) = {} /\ Sum(w, {}) = 0
    BY SumOfPart, SumOfNone
  <2> QED
    BY <2>1, <2>2, <1>3
<1>5. PICK k \in L : TRUE
  BY <1>4
<1>6. Sum(v, L) = v[k] + Sum(v, L \ {k})
  BY <1>1, <1>3, <1>5, SumOfPart, SumTakesAny
<1>7. Sum(v, L \ {k}) = Sum(w, of(L \ {k}))
  BY <1>2, <1>3, <1>5
<1>8. v[k] = Sum(w, {x \in S : key[x] = k})
  BY <1>3, <1>5
<1>9. Sum(w, of(L)) = Sum(w, {x \in S : key[x] = k}) + Sum(w, of(L \ {k}))
  <2>1. of(L) = {x \in S : key[x] = k} \cup of(L \ {k})
    BY <1>3, <1>5
  <2>2. {x \in S : key[x] = k} \cap of(L \ {k}) = {}
    OBVIOUS
  <2>3. {x \in S : key[x] = k} \in SUBSET of(L) /\ of(L \ {k}) \in SUBSET of(L) /\ of(L) \in SUBSET S
    BY <1>5
  <2>4. Weighs(w, of(L))
    BY <2>3, SumOfPart
  <2> HIDE DEF of
  <2> QED
    BY SMTT(30), <2>1, <2>2, <2>3, <2>4, SumOfParts
<1> QED
  BY <1>3, <1>6, <1>7, <1>8, <1>9, Zenon

-----------------------------------------------------------------------------
(* Totals of ledger rows *)

Amount == [row \in Entry |-> row.amount]

\* The total of some rows is the sum of their amounts.
LEMMA TotalIsSum ==
  ASSUME NEW rows \in SUBSET Entry, IsFiniteSet(rows)
  PROVE  Weighs(Amount, rows) /\ Total(rows) = Sum(Amount, rows)
<1>1. Weighs(Amount, rows)
  BY DEF Weighs, Amount, Entry
<1>2. PICK f : SumsUp(f, Amount, rows)
  BY <1>1, SumExists
<1> DEFINE Sums(g) ==
             g = [s \in SUBSET rows |-> IF s = {} THEN 0 ELSE Some(s).amount + g[s \ {Some(s)}]]
           iter == CHOOSE g : Sums(g)
<1>3. ASSUME NEW s \in SUBSET rows, s # {}
      PROVE  Amount[Some(s)] = Some(s).amount
  BY <1>3, SomeIsIn DEF Amount
<1>4. Sums(f)
  <2>1. f = [s \in SUBSET rows |-> f[s]]
    BY <1>2 DEF SumsUp
  <2>2. \A s \in SUBSET rows : f[s] = IF s = {} THEN 0 ELSE Some(s).amount + f[s \ {Some(s)}]
    BY <1>2, <1>3 DEF SumsUp
  <2> QED
    BY <2>1, <2>2
<1>5. Sums(iter)
  <2> HIDE DEF Sums
  <2> QED
    BY <1>4
<1>6. \A s \in SUBSET rows : iter[s] = IF s = {} THEN 0 ELSE Amount[Some(s)] + iter[s \ {Some(s)}]
  <2> HIDE DEF iter
  <2> QED
    BY <1>3, <1>5
<1>7. iter[rows] = Sum(Amount, rows)
  <2> HIDE DEF iter
  <2> QED
    BY <1>1, <1>6, SumIsAnyUnrolled
<1>8. Total(rows) = iter[rows]
  BY Zenon DEF Total, MapThenSumSet, MapThenFoldSet, Some
<1> QED
  BY <1>1, <1>7, <1>8, Zenon
-----------------------------------------------------------------------------
(* Types *)

\* A reversal is a job when the reversed one is.
LEMMA ReversalIsJob ==
  ASSUME NEW job \in Job
  PROVE  Reversal(job) \in Job
  BY DEF Reversal, Job

\* A row written by an open request, about any user, is an entry.
LEMMA RowIsEntry ==
  ASSUME TypeOK, NEW r \in Requests, tx[r].at = "open", NEW i \in Ids, NEW u \in Users,
         NEW type \in EntryType, NEW amount \in Int, NEW new \in Int
  PROVE  /\ Row(i, r, u, type, amount, new) \in Entry
         /\ Row(i, r, u, type, amount, new).id = i
<1>1. tx[r].stamp \in Times
  BY DEF TypeOK, Tx
<1>2. OrgOf[r] \in Orgs
  BY StatementsAssumption
<1> QED
  BY <1>1, <1>2 DEF Row, Entry

\* An open request has a job.
LEMMA JobOfOpen ==
  ASSUME TypeOK, NEW r \in Requests, tx[r].at = "open"
  PROVE  tx[r].job \in Job
  BY DEF TypeOK, Tx

\* Beginning a posting keeps the types.
LEMMA TypeBegin ==
  ASSUME TypeOK, NEW r \in Requests, NEW job \in Job, Begin(r, job)
  PROVE  TypeOK'
<1>1. [at |-> "open", job |-> job, stamp |-> now] \in Tx
  BY DEF Tx, TypeOK
<1> QED
  BY <1>1 DEF Begin, TypeOK

\* Posting keeps the types, whichever ids the new rows get.
LEMMA TypePost ==
  ASSUME TypeOK, NEW r \in Requests, Post(r)
  PROVE  TypeOK'
<1> DEFINE job == tx[r].job
           charged == Charged(job)
           row(i) == Row(i, r, job.user, job.type, job.amount, charged[job.user])
<1>0. tx[r].at = "open" /\ job \in Job
  BY JobOfOpen DEF Post
<1>1. charged \in [Users -> Int]
  BY <1>0 DEF Charged, TypeOK, Job
<1>2. tx' \in [Requests -> Tx]
  <2>1. [at |-> "posted", job |-> job] \in Tx
    BY <1>0 DEF Tx
  <2>2. tx' = [tx EXCEPT ![r] = [at |-> "posted", job |-> job]]
    BY DEF Post
  <2> QED
    BY <2>1, <2>2 DEF TypeOK
<1>3. \A i \in Unused : row(i) \in Entry
  BY <1>0, <1>1, RowIsEntry DEF Unused, Job
<1>4. CASE job.owner = None
  <2>1. balance' = charged /\ \E i \in Unused : ledger' = ledger \cup {row(i)}
    BY <1>4 DEF Post
  <2> QED
    BY <2>1, <1>1, <1>2, <1>3 DEF TypeOK, Post
<1>5. CASE job.owner # None
  <2>1. /\ balance' = [charged EXCEPT ![job.owner] = @ + job.markup]
        /\ \E i, j \in Unused :
             ledger' = ledger \cup
               {row(i), Row(j, r, job.owner, "commission", job.markup, balance'[job.owner])}
    BY <1>5 DEF Post
  <2>2. job.owner \in Users /\ job.markup \in Int
    BY <1>0, <1>5 DEF Job
  <2>3. balance' \in [Users -> Int]
    BY <2>1, <2>2, <1>1
  <2>4. \A j \in Unused :
          Row(j, r, job.owner, "commission", job.markup, balance'[job.owner]) \in Entry
    BY <2>2, <2>3, <1>0, RowIsEntry DEF Unused, EntryType
  <2>5. PICK i \in Unused, j \in Unused :
          ledger' = ledger \cup
            {row(i), Row(j, r, job.owner, "commission", job.markup, balance'[job.owner])}
    BY <2>1
  <2>6. /\ row(i) \in Entry
        /\ Row(j, r, job.owner, "commission", job.markup, balance'[job.owner]) \in Entry
    BY <1>3, <2>4
  <2>7. ledger' \subseteq Entry
    <3>1. PICK x, y : /\ x = row(i)
                      /\ y = Row(j, r, job.owner, "commission", job.markup, balance'[job.owner])
      OBVIOUS
    <3>2. ledger \subseteq Entry
      BY DEF TypeOK
    <3>3. ledger' = ledger \cup {x, y} /\ x \in Entry /\ y \in Entry
      BY <2>5, <2>6, <3>1
    <3> QED
      BY <3>2, <3>3
  <2>8. now' \in Times /\ view' \in [Readers -> View]
    BY DEF TypeOK, Post
  <2> QED
    BY <1>2, <2>3, <2>7, <2>8 DEF TypeOK
<1> QED
  BY <1>4, <1>5

\* Counting a page keeps the counts natural numbers.
LEMMA ToldIsCount ==
  ASSUME NEW v \in Readers, NEW items, view[v].told \in [Ids -> Nat]
  PROVE  Told(v, items) \in [Ids -> Nat]
  BY DEF Told

\* A reader that walks has a walk.
LEMMA WalkOfWalking ==
  ASSUME TypeOK, NEW v \in Readers, view[v].at \in {"walking", "done"}
  PROVE  view[v] \in Walk
  BY DEF TypeOK, View, Walk

\* Opening a walk keeps the types.
LEMMA TypeOpen ==
  ASSUME TypeOK, NEW v \in Readers, Open(v)
  PROVE  TypeOK'
<1>1. PICK s \in Scopes :
        view' = [view EXCEPT ![v] =
          [at |-> "walking", scope |-> s, cursor |-> None,
           start |-> {row.id : row \in Slice(s)}, told |-> [i \in Ids |-> 0]]]
  BY DEF Open
<1>2. {row.id : row \in Slice(s)} \in SUBSET Ids
  BY DEF Slice, TypeOK, Entry
<1>3. [i \in Ids |-> 0] \in [Ids -> Nat]
  OBVIOUS
<1>4. [at |-> "walking", scope |-> s, cursor |-> None,
       start |-> {row.id : row \in Slice(s)}, told |-> [i \in Ids |-> 0]] \in View
  BY <1>2, <1>3 DEF View, Walk
<1> QED
  BY <1>1, <1>4 DEF Open, TypeOK

\* Reading a page keeps the types.
LEMMA TypeNextPage ==
  ASSUME TypeOK, NEW v \in Readers, NextPage(v)
  PROVE  TypeOK'
<1>1. PICK items \in SUBSET ledger, cursor \in Cursor \cup {None} :
        view' = [view EXCEPT ![v] = Turned(v, items, cursor)]
  BY DEF NextPage, Slice
<1>2. view[v] \in Walk
  BY WalkOfWalking DEF NextPage
<1>3. Told(v, items) \in [Ids -> Nat]
  BY <1>2, ToldIsCount DEF Walk
<1>4. Turned(v, items, cursor) \in View
  BY <1>2, <1>3 DEF Turned, View, Walk
<1> QED
  BY <1>1, <1>4 DEF NextPage, TypeOK

\* The initial ledger, balances and walks have their types.
LEMMA TypeInit == Init => TypeOK
<1> SUFFICES ASSUME Init PROVE TypeOK
  OBVIOUS
<1>1. [at |-> "fresh"] \in Tx /\ [at |-> "idle"] \in View
  BY DEF Tx, View
<1>2. ASSUME NEW u \in Users
      PROVE  Total({row \in Opening : row.user = u}) \in Int
  <2>1. {row \in Opening : row.user = u} \in SUBSET Entry /\ IsFiniteSet({row \in Opening : row.user = u})
    BY OpeningAssumption, FS_Subset
  <2> QED
    BY <2>1, TotalIsSum, SumOfNone
<1>3. Balances(Opening) \in [Users -> Int]
  BY <1>2 DEF Balances
<1> QED
  BY <1>1, <1>3, OpeningAssumption DEF Init, TypeOK

\* Every step keeps the types.
LEMMA TypeNext == TypeOK /\ [Next]_vars => TypeOK'
<1> SUFFICES ASSUME TypeOK, [Next]_vars PROVE TypeOK'
  OBVIOUS
<1>1. CASE UNCHANGED vars
  BY <1>1 DEF vars, TypeOK
<1>2. CASE Tick
  <2>1. now + 1 \in Times
    BY <1>2, StatementsAssumption DEF Tick, TypeOK, Times
  <2> QED
    BY <1>2, <2>1 DEF Tick, TypeOK
<1>3. ASSUME NEW r \in Requests, BeginPosting(r) PROVE TypeOK'
  BY <1>3, TypeBegin, StatementsAssumption DEF BeginPosting
<1>4. ASSUME NEW r \in Requests, BeginVoid(r) PROVE TypeOK'
  <2>1. PICK q \in Requests : tx[q].at = "posted" /\ Begin(r, Reversal(tx[q].job))
    BY <1>4 DEF BeginVoid
  <2>2. tx[q].job \in Job
    BY <2>1 DEF TypeOK, Tx
  <2> QED
    BY <2>1, <2>2, ReversalIsJob, TypeBegin
<1>5. ASSUME NEW r \in Requests, Post(r) PROVE TypeOK'
  BY <1>5, TypePost
<1>6. ASSUME NEW r \in Requests, Refuse(r) PROVE TypeOK'
  <2>1. [at |-> "refused"] \in Tx
    BY DEF Tx
  <2> QED
    BY <1>6, <2>1 DEF Refuse, TypeOK
<1>7. ASSUME NEW v \in Readers, Open(v) PROVE TypeOK'
  BY <1>7, TypeOpen
<1>8. ASSUME NEW v \in Readers, NextPage(v) PROVE TypeOK'
  BY <1>8, TypeNextPage
<1> QED
  BY <1>1, <1>2, <1>3, <1>4, <1>5, <1>6, <1>7, <1>8 DEF Next

(* Rows, balances, transactions and walks keep their types: any number of postings and
   readers, any page size. *)
THEOREM TypeCorrect == Spec => []TypeOK
<1>1. Init => TypeOK
  BY TypeInit
<1>2. TypeOK /\ [Next]_vars => TypeOK'
  BY TypeNext
<1> QED
  BY <1>1, <1>2, PTL DEF Spec

-----------------------------------------------------------------------------
(* Pages *)

\* Stamps and ids are numbers.
LEMMA Numbers ==
  /\ \A row \in Entry : row.at \in Int /\ row.id \in Int
  /\ \A c \in Cursor : c.at \in Int /\ c.id \in Int
<1>1. Times \subseteq Int /\ Ids \subseteq Int
  BY StatementsAssumption DEF Times
<1> QED
  BY <1>1 DEF Entry, Cursor

\* Of two entries with different ids one is newer.
LEMMA NewerIsTotal ==
  ASSUME NEW a \in Entry, NEW b \in Entry, a.id # b.id
  PROVE  Newer(a, b) \/ Newer(b, a)
  BY Numbers DEF Newer

\* No entry is newer than one it is older than, or than itself.
LEMMA NewerIsStrict ==
  ASSUME NEW a \in Entry, NEW b \in Entry, Newer(a, b)
  PROVE  ~Newer(b, a)
  BY Numbers DEF Newer

\* Being newer is transitive.
LEMMA NewerIsTransitive ==
  ASSUME NEW a \in Entry, NEW b \in Entry, NEW c \in Entry, Newer(a, b), Newer(b, c)
  PROVE  Newer(a, c)
  BY Numbers DEF Newer

\* A page without a row left over is all there is.
LEMMA LastPageIsAll ==
  ASSUME NEW rest, IsFiniteSet(rest), NEW fetched \in SUBSET rest,
         IsPage(fetched, rest, Limit + 1), IsPage(fetched, fetched, Limit)
  PROVE  fetched = rest
<1>1. IsFiniteSet(fetched) /\ Cardinality(fetched) \in Nat /\ Cardinality(rest) \in Nat
  BY FS_Subset, FS_CardinalityType
<1>2. Cardinality(fetched) <= Limit
  BY <1>1, StatementsAssumption DEF IsPage
<1>3. ~(Cardinality(rest) > Limit + 1)
  BY <1>1, <1>2, StatementsAssumption DEF IsPage
<1> QED
  BY <1>3 DEF IsPage

(* The cursor after a page cuts the rest in two: the rows of the page are those that are
   not past it, and the last page has them all. *)
LEMMA CursorCuts ==
  ASSUME NEW rest \in SUBSET Entry, IsFiniteSet(rest),
         \A a, b \in rest : a.id = b.id => a = b,
         NEW fetched \in SUBSET rest, NEW items \in SUBSET fetched,
         NEW cursor \in Cursor \cup {None},
         IsPage(fetched, rest, Limit + 1), IsPage(items, fetched, Limit),
         NextCursor(fetched, items, cursor)
  PROVE  /\ cursor = None => items = rest
         /\ cursor # None => \A row \in rest : row \in items <=> ~Past(row, cursor)
<1>1. CASE fetched = items
  <2>1. items = rest
    BY <1>1, LastPageIsAll
  <2>2. cursor = None
    BY <1>1 DEF NextCursor
  <2> QED
    BY <2>1, <2>2
<1>2. CASE fetched # items
  <2>1. PICK last \in items : /\ \A row \in items : row = last \/ Newer(row, last)
                              /\ cursor = [at |-> last.at, id |-> last.id]
    BY <1>2 DEF NextCursor
  <2>2. last \in rest /\ last \in Entry
    OBVIOUS
  <2>3. cursor \in Cursor /\ cursor # None
    BY <2>1, <2>2, NoneIsNoCursor DEF Cursor, Entry
  <2>4. \A row \in Entry : Past(row, cursor) <=> Newer(last, row)
    BY <2>1, <2>3 DEF Past, Newer
  <2>5. ASSUME NEW row \in items PROVE ~Past(row, cursor)
    BY <2>1, <2>2, <2>4, NewerIsStrict
  <2>6. ASSUME NEW row \in rest, ~Past(row, cursor) PROVE row \in items
    <3>1. ~Newer(last, row)
      BY <2>4, <2>6
    <3>2. row = last \/ Newer(row, last)
      BY <3>1, <2>2, NewerIsTotal
    <3>3. ASSUME Newer(row, last) PROVE row \in items
      <4>1. row \in fetched
        BY <3>3 DEF IsPage
      <4> QED
        BY <4>1, <3>3 DEF IsPage
    <3> QED
      BY <3>2, <3>3
  <2> QED
    BY <2>3, <2>5, <2>6
<1> QED
  BY <1>1, <1>2

\* What is past the next cursor was past the last one.
LEMMA CursorAdvances ==
  ASSUME NEW old \in Cursor \cup {None}, NEW rest \in SUBSET Entry,
         \A row \in rest : Past(row, old),
         NEW fetched \in SUBSET rest, NEW items \in SUBSET fetched,
         NEW cursor \in Cursor, NextCursor(fetched, items, cursor),
         NEW row \in Entry, Past(row, cursor)
  PROVE  Past(row, old)
<1>1. cursor # None
  BY NoneIsNoCursor
<1>2. PICK last \in items : cursor = [at |-> last.at, id |-> last.id]
  BY <1>1 DEF NextCursor
<1>3. last \in Entry /\ Past(last, old)
  OBVIOUS
<1>4. Newer(last, row)
  BY <1>1, <1>2 DEF Past, Newer
<1>5. CASE old = None
  BY <1>5 DEF Past
<1>6. CASE old # None
  <2>1. Newer(old, last) /\ old \in Cursor
    BY <1>3, <1>6 DEF Past
  <2> QED
    BY <2>1, <1>3, <1>4, <1>6, Numbers DEF Past, Newer
<1> QED
  BY <1>5, <1>6

-----------------------------------------------------------------------------
(* Walks *)

\* Rows with unused ids are none that a walk began with or has told.
LEMMA WalksIgnoreNewRows ==
  ASSUME Inv, TypeOK', UNCHANGED view, NEW fresh,
         ledger' = ledger \cup fresh, IsFiniteSet(fresh),
         \A row \in fresh : row.id \in Unused,
         \A a, b \in fresh : a.id = b.id => a = b
  PROVE  Inv'
<1>1. \A row \in fresh, other \in ledger : row.id # other.id
  BY DEF Unused
<1>2. RowsKnown'
  <2>1. IsFiniteSet(ledger')
    BY FS_Union DEF Inv, RowsKnown
  <2> QED
    BY <2>1, <1>1 DEF Inv, RowsKnown
<1>3. ASSUME NEW v \in Readers PROVE WalkInv(v)'
  <2>1. WalkInv(v)
    BY DEF Inv
  <2>2. ASSUME Began(v) PROVE Began(v)' /\ \A row \in fresh : row.id \notin view[v].start
    BY <2>2, <1>1 DEF Began
  <2>3. ASSUME ToldOnce(v)
        PROVE  ToldOnce(v)' /\ \A row \in fresh : ~(view[v].told[row.id] > 0)
    BY <2>3, <1>1 DEF ToldOnce, Unused
  <2>4. ASSUME Began(v), ToldOnce(v), Standing(v) PROVE Standing(v)'
    BY <2>2, <2>3, <2>4 DEF Standing
  <2> QED
    BY <2>1, <2>2, <2>3, <2>4 DEF WalkInv, Finished
<1> QED
  BY <1>2, <1>3 DEF Inv

\* A step that leaves ledger and walks alone keeps the invariant.
LEMMA WalksStand ==
  ASSUME Inv, TypeOK', UNCHANGED <<ledger, view>>
  PROVE  Inv'
  BY DEF Inv, RowsKnown, WalkInv, Began, ToldOnce, Standing, Finished

\* Posting keeps the invariant: its rows have ids of their own.
LEMMA InvPost ==
  ASSUME Inv, NEW r \in Requests, Post(r)
  PROVE  Inv'
<1> DEFINE job == tx[r].job
           charged == Charged(job)
           row(i) == Row(i, r, job.user, job.type, job.amount, charged[job.user])
           second(j) == Row(j, r, job.owner, "commission", job.markup, balance'[job.owner])
<1>0. TypeOK' /\ UNCHANGED view
  BY TypePost DEF Inv, Post
<1>1. \A i : row(i).id = i /\ second(i).id = i
  BY DEF Row
<1>2. \/ \E i \in Unused : ledger' = ledger \cup {row(i)}
      \/ \E i, j \in Unused : i # j /\ ledger' = ledger \cup {row(i), second(j)}
  BY DEF Post
<1>3. ASSUME NEW i \in Unused, ledger' = ledger \cup {row(i)} PROVE Inv'
  <2>1. IsFiniteSet({row(i)})
    BY FS_Singleton
  <2> HIDE DEF row
  <2> QED
    BY <2>1, <1>0, <1>1, <1>3, WalksIgnoreNewRows
<1>4. ASSUME NEW i \in Unused, NEW j \in Unused, i # j, ledger' = ledger \cup {row(i), second(j)}
      PROVE  Inv'
  <2>1. IsFiniteSet({row(i), second(j)})
    <3>1. {row(i), second(j)} = {row(i)} \cup {second(j)}
      OBVIOUS
    <3>2. IsFiniteSet({row(i)}) /\ IsFiniteSet({second(j)})
      BY FS_Singleton
    <3> HIDE DEF row, second
    <3> QED
      BY <3>1, <3>2, FS_Union
  <2> HIDE DEF row, second
  <2> QED
    BY <2>1, <1>0, <1>1, <1>4, WalksIgnoreNewRows
<1> QED
  BY <1>2, <1>3, <1>4

\* A walk begins with the slice before it and nothing told.
LEMMA InvOpen ==
  ASSUME Inv, NEW v \in Readers, Open(v)
  PROVE  Inv'
<1>1. PICK s \in Scopes :
        view' = [view EXCEPT ![v] =
          [at |-> "walking", scope |-> s, cursor |-> None,
           start |-> {row.id : row \in Slice(s)}, told |-> [i \in Ids |-> 0]]]
  BY DEF Open
<1>2. TypeOK' /\ UNCHANGED ledger
  BY TypeOpen DEF Inv, Open
<1>3. RowsKnown'
  BY <1>2 DEF Inv, RowsKnown
<1>4. ASSUME NEW w \in Readers PROVE WalkInv(w)'
  <2>1. CASE w # v
    BY <2>1, <1>1, <1>2 DEF Inv, WalkInv, Began, ToldOnce, Standing, Finished, TypeOK
  <2>2. CASE w = v
    <3>1. /\ view'[v].at = "walking" /\ view'[v].scope = s /\ view'[v].cursor = None
          /\ view'[v].start = {row.id : row \in Slice(s)}
          /\ \A i \in Ids : view'[v].told[i] = 0
      BY <1>1 DEF Inv, TypeOK
    <3>2. Began(v)'
      BY <3>1, <1>2 DEF Inv, RowsKnown, Began, Slice
    <3>3. ToldOnce(v)'
      BY <3>1 DEF ToldOnce
    <3>4. Standing(v)'
      BY <3>1, <1>2 DEF Standing, Past, Inv, TypeOK, Entry
    <3> QED
      BY <2>2, <3>1, <3>2, <3>3, <3>4 DEF WalkInv
  <2> QED
    BY <2>1, <2>2
<1> QED
  BY <1>2, <1>3, <1>4 DEF Inv

(* A page tells the rows it keeps, each for the first time, and leaves untold what is past
   the new cursor. *)
LEMMA InvNextPage ==
  ASSUME Inv, NEW v \in Readers, NextPage(v)
  PROVE  Inv'
<1> DEFINE old  == view[v].cursor
           rest == {row \in Slice(view[v].scope) : Past(row, old)}
<1>1. PICK fetched \in SUBSET rest, items \in SUBSET rest, cursor \in Cursor \cup {None} :
        /\ items \subseteq fetched
        /\ IsPage(fetched, rest, Limit + 1)
        /\ IsPage(items, fetched, Limit)
        /\ NextCursor(fetched, items, cursor)
        /\ view' = [view EXCEPT ![v] = Turned(v, items, cursor)]
  BY DEF NextPage
<1>2. TypeOK' /\ UNCHANGED ledger /\ view[v].at = "walking" /\ TypeOK
  BY TypeNextPage DEF Inv, NextPage
<1>3. view[v] \in Walk
  BY <1>2, WalkOfWalking
<1>4. Began(v) /\ ToldOnce(v) /\ Standing(v) /\ RowsKnown
  BY <1>2 DEF Inv, WalkInv
<1>5. rest \in SUBSET Entry /\ IsFiniteSet(rest) /\ rest \subseteq ledger
      /\ \A a, b \in rest : a.id = b.id => a = b
  BY <1>2, <1>4, FS_Subset DEF RowsKnown, Slice, TypeOK
<1>6. /\ cursor = None => items = rest
      /\ cursor # None => \A row \in rest : row \in items <=> ~Past(row, cursor)
  <2> HIDE DEF rest
  <2> QED
    BY <1>1, <1>5, CursorCuts
<1>7. /\ view'[v].at = IF cursor = None THEN "done" ELSE "walking"
      /\ view'[v].cursor = cursor
      /\ view'[v].scope = view[v].scope
      /\ view'[v].start = view[v].start
      /\ view'[v].told = Told(v, items)
  BY <1>1, <1>2, <1>3 DEF Turned, TypeOK, Walk
<1>8. \A i \in Ids : /\ (\E row \in items : row.id = i) => view'[v].told[i] = view[v].told[i] + 1
                     /\ ~(\E row \in items : row.id = i) => view'[v].told[i] = view[v].told[i]
  BY <1>3, <1>7 DEF Told, Walk
<1>9. \A row \in items : row \in ledger /\ row.id \in Ids /\ Past(row, old) /\ view[v].told[row.id] = 0
  <2>1. \A row \in items : row \in ledger /\ row.id \in Ids /\ Past(row, old)
    BY <1>5 DEF Entry
  <2>2. \A i \in Ids : view[v].told[i] \in Nat
    BY <1>3 DEF Walk
  <2> QED
    BY <2>1, <2>2, <1>4 DEF Standing
<1>10. Began(v)'
  BY <1>2, <1>4, <1>7 DEF Began
<1>11. ToldOnce(v)'
  <2>1. \A i \in Ids : view'[v].told[i] <= 1
    BY <1>3, <1>4, <1>8, <1>9 DEF ToldOnce, Walk
  <2>2. \A i \in Ids : view'[v].told[i] > 0 => \E row \in ledger : row.id = i
    BY <1>4, <1>8, <1>9 DEF ToldOnce
  <2> QED
    BY <2>1, <2>2, <1>2 DEF ToldOnce
<1>12. ASSUME NEW row \in ledger
       PROVE  /\ row \in Entry
              /\ row \in items => view'[v].told[row.id] = 1
              /\ row \notin items => view'[v].told[row.id] = view[v].told[row.id]
  <2>1. row \in Entry /\ row.id \in Ids
    BY <1>2 DEF TypeOK, Entry
  <2>2. (\E other \in items : other.id = row.id) <=> row \in items
    BY <1>4, <1>9 DEF RowsKnown
  <2> QED
    BY <2>1, <2>2, <1>8, <1>9
<1>13. \A row \in ledger : row.id \in view[v].start /\ Past(row, old) => row \in rest
  BY <1>4 DEF Began, Slice
<1>14. CASE cursor = None
  <2>1. ASSUME NEW row \in ledger, row.id \in view[v].start PROVE view'[v].told[row.id] = 1
    <3>1. CASE Past(row, old)
      BY <3>1, <2>1, <1>6, <1>12, <1>13, <1>14
    <3>2. CASE ~Past(row, old)
      <4>1. row \notin items
        BY <3>2, <1>9
      <4> QED
        BY <4>1, <3>2, <2>1, <1>4, <1>12 DEF Standing
    <3> QED
      BY <3>1, <3>2
  <2>2. Finished(v)'
    BY <2>1, <1>4, <1>7 DEF Finished, Began
  <2> QED
    <3>1. WalkInv(v)'
      BY <2>2, <1>7, <1>10, <1>11, <1>14 DEF WalkInv
    <3>2. \A w \in Readers \ {v} : WalkInv(w)'
      BY <1>1, <1>2 DEF Inv, WalkInv, Began, ToldOnce, Standing, Finished, TypeOK
    <3> QED
      BY <3>1, <3>2, <1>2, <1>4 DEF Inv, RowsKnown
<1>15. CASE cursor # None
  <2>0. cursor \in Cursor /\ old \in Cursor \cup {None}
    BY <1>3, <1>15 DEF Walk
  <2>1. ASSUME NEW row \in ledger, Past(row, cursor) PROVE Past(row, old)
    <3>1. row \in Entry /\ \A other \in rest : Past(other, old)
      BY <1>12
    <3> HIDE DEF rest, old
    <3> QED
      BY <3>1, <2>0, <2>1, <1>1, <1>5, CursorAdvances
  <2>2. ASSUME NEW row \in ledger, view'[v].told[row.id] > 0 PROVE ~Past(row, cursor)
    <3>1. CASE row \in items
      BY <3>1, <1>6, <1>15
    <3>2. CASE row \notin items
      BY <3>2, <2>1, <2>2, <1>4, <1>12 DEF Standing
    <3> QED
      BY <3>1, <3>2
  <2>3. ASSUME NEW row \in ledger, row.id \in view[v].start, ~Past(row, cursor)
        PROVE  view'[v].told[row.id] = 1
    <3>1. CASE Past(row, old)
      BY <3>1, <2>3, <1>6, <1>12, <1>13, <1>15
    <3>2. CASE ~Past(row, old)
      <4>1. row \notin items
        BY <3>2, <1>9
      <4> QED
        BY <4>1, <3>2, <2>3, <1>4, <1>12 DEF Standing
    <3> QED
      BY <3>1, <3>2
  <2>4. Standing(v)'
    BY <2>2, <2>3, <1>2, <1>7 DEF Standing
  <2> QED
    <3>1. WalkInv(v)'
      BY <2>4, <1>7, <1>10, <1>11, <1>15 DEF WalkInv
    <3>2. \A w \in Readers \ {v} : WalkInv(w)'
      BY <1>1, <1>2 DEF Inv, WalkInv, Began, ToldOnce, Standing, Finished, TypeOK
    <3> QED
      BY <3>1, <3>2, <1>2, <1>4 DEF Inv, RowsKnown
<1> QED
  BY <1>14, <1>15

\* The invariant holds at first: nobody reads, and the opening rows differ in their ids.
LEMMA InvInit == Init => Inv
  BY TypeInit, OpeningAssumption DEF Init, Inv, RowsKnown, WalkInv

\* Every step keeps it.
LEMMA InvNext == Inv /\ [Next]_vars => Inv'
<1> SUFFICES ASSUME Inv, [Next]_vars PROVE Inv'
  OBVIOUS
<1>0. TypeOK'
  BY TypeNext DEF Inv
<1>1. CASE UNCHANGED <<ledger, view>>
  BY <1>0, <1>1, WalksStand
<1>2. ASSUME NEW r \in Requests, Post(r) PROVE Inv'
  BY <1>2, InvPost
<1>3. ASSUME NEW v \in Readers, Open(v) PROVE Inv'
  BY <1>3, InvOpen
<1>4. ASSUME NEW v \in Readers, NextPage(v) PROVE Inv'
  BY <1>4, InvNextPage
<1> QED
  BY <1>1, <1>2, <1>3, <1>4
     DEF Next, vars, Tick, BeginPosting, BeginVoid, Begin, Refuse

(* Every finished walk has shown each row that was there when it began exactly once, and
   none twice: any ledger, any page size, any postings in between. *)
THEOREM WalksTellAll == Spec => []WalkTellsAll
<1>1. Init => Inv
  BY InvInit
<1>2. Inv /\ [Next]_vars => Inv'
  BY InvNext
<1>3. Inv => WalkTellsAll
  BY DEF Inv, WalkInv, WalkTellsAll, Finished, ToldOnce
<1> QED
  BY <1>1, <1>2, <1>3, PTL DEF Spec

-----------------------------------------------------------------------------
(* Summaries *)

RowsOf(l, u)  == {row \in l : row.user = u}
Earning(l, o) == {row \in l \ Opening : row.org = o /\ row.type \in SpendTypes \cup {"commission"}}
PostedIn(o)   == {r \in Requests : OrgOf[r] = o /\ tx[r].at = "posted"}
Keeps         == [r \in Requests |-> KeptOf(tx[r].job)]

WalletsAdd == \A u \in Users : balance[u] = Sum(Amount, RowsOf(ledger, u))

EarningsAdd ==
  \A o \in Orgs :
    /\ IsFiniteSet(PostedIn(o))
    /\ -Sum(Amount, Earning(ledger, o)) = Sum(Keeps, PostedIn(o))

BooksAdd == Opening \subseteq ledger /\ WalletsAdd /\ EarningsAdd

\* Any set of entries has a sum.
LEMMA RowsWeigh ==
  ASSUME NEW l \in SUBSET Entry, IsFiniteSet(l), NEW rows \in SUBSET l
  PROVE  Weighs(Amount, rows) /\ Sum(Amount, rows) \in Int
<1>1. IsFiniteSet(rows) /\ rows \in SUBSET Entry
  BY FS_Subset
<1> QED
  BY <1>1, TotalIsSum, SumOfNone

\* A new row adds its amount to any set of rows it belongs to.
LEMMA NewRowAdds ==
  ASSUME NEW l \in SUBSET Entry, IsFiniteSet(l), NEW x \in Entry, x \notin l,
         NEW rows \in SUBSET l
  PROVE  Sum(Amount, rows \cup {x}) = Sum(Amount, rows) + x.amount
<1>1. Weighs(Amount, rows)
  BY RowsWeigh
<1>2. Amount[x] = x.amount /\ x.amount \in Int /\ x \notin rows
  BY DEF Amount, Entry
<1> QED
  BY <1>1, <1>2, SumGrows

\* What a new row adds to a wallet.
LEMMA NewRowMoves ==
  ASSUME NEW l \in SUBSET Entry, IsFiniteSet(l), NEW x \in Entry, x \notin l, NEW u \in Users
  PROVE  Sum(Amount, RowsOf(l \cup {x}, u)) =
           Sum(Amount, RowsOf(l, u)) + (IF x.user = u THEN x.amount ELSE 0)
<1>1. RowsOf(l, u) \in SUBSET l
  BY DEF RowsOf
<1>2. CASE x.user = u
  <2>1. RowsOf(l \cup {x}, u) = RowsOf(l, u) \cup {x}
    BY <1>2 DEF RowsOf
  <2> QED
    BY <1>1, <1>2, <2>1, NewRowAdds
<1>3. CASE x.user # u
  <2>1. RowsOf(l \cup {x}, u) = RowsOf(l, u)
    BY <1>3 DEF RowsOf
  <2>2. Sum(Amount, RowsOf(l, u)) \in Int
    BY <1>1, RowsWeigh
  <2> QED
    BY <1>3, <2>1, <2>2
<1> QED
  BY <1>2, <1>3

\* What a new row adds to an organization's earnings.
LEMMA NewRowEarns ==
  ASSUME NEW l \in SUBSET Entry, IsFiniteSet(l), NEW x \in Entry, x \notin l, x \notin Opening,
         NEW o \in Orgs
  PROVE  Sum(Amount, Earning(l \cup {x}, o)) =
           Sum(Amount, Earning(l, o)) +
           (IF x.org = o /\ x.type \in SpendTypes \cup {"commission"} THEN x.amount ELSE 0)
<1>1. Earning(l, o) \in SUBSET l
  BY DEF Earning
<1>2. CASE x.org = o /\ x.type \in SpendTypes \cup {"commission"}
  <2>1. Earning(l \cup {x}, o) = Earning(l, o) \cup {x}
    BY <1>2 DEF Earning
  <2> QED
    BY <1>1, <1>2, <2>1, NewRowAdds
<1>3. CASE ~(x.org = o /\ x.type \in SpendTypes \cup {"commission"})
  <2>1. Earning(l \cup {x}, o) = Earning(l, o)
    BY <1>3 DEF Earning
  <2>2. Sum(Amount, Earning(l, o)) \in Int
    BY <1>1, RowsWeigh
  <2> QED
    BY <1>3, <2>1, <2>2
<1> QED
  BY <1>2, <1>3

\* What is kept of a job is a number.
LEMMA KeptIsNumber ==
  ASSUME NEW job \in Job
  PROVE  KeptOf(job) \in Int
  BY DEF KeptOf, Job

\* What has been posted has a job, so what is kept of it can be summed up.
LEMMA KeptWeighs ==
  ASSUME TypeOK, NEW o \in Orgs, IsFiniteSet(PostedIn(o))
  PROVE  Weighs(Keeps, PostedIn(o))
<1>1. ASSUME NEW r \in PostedIn(o) PROVE Keeps[r] \in Int
  <2>1. tx[r].job \in Job
    BY DEF PostedIn, TypeOK, Tx
  <2> QED
    BY <2>1, KeptIsNumber DEF Keeps, PostedIn
<1> QED
  BY <1>1 DEF Weighs

\* Posting adds what is kept of the job to its organization's figure.
LEMMA PostKeeps ==
  ASSUME TypeOK, NEW r \in Requests, tx[r].at = "open",
         tx' = [tx EXCEPT ![r] = [at |-> "posted", job |-> tx[r].job]],
         NEW o \in Orgs, IsFiniteSet(PostedIn(o))
  PROVE  /\ IsFiniteSet(PostedIn(o)')
         /\ Sum(Keeps', PostedIn(o)') =
              Sum(Keeps, PostedIn(o)) + (IF OrgOf[r] = o THEN KeptOf(tx[r].job) ELSE 0)
<1>0. tx[r].job \in Job
  BY JobOfOpen
<1>1. Weighs(Keeps, PostedIn(o))
  BY KeptWeighs
<1>2. \A q \in PostedIn(o) : Keeps'[q] = Keeps[q]
  BY DEF PostedIn, Keeps, TypeOK
<1>3. Weighs(Keeps', PostedIn(o)) /\ Sum(Keeps', PostedIn(o)) = Sum(Keeps, PostedIn(o))
  BY <1>1, <1>2, SumOfEqual
<1>4. CASE OrgOf[r] = o
  <2>1. PostedIn(o)' = PostedIn(o) \cup {r} /\ r \notin PostedIn(o)
    BY <1>4 DEF PostedIn, TypeOK
  <2>2. Keeps'[r] = KeptOf(tx[r].job) /\ KeptOf(tx[r].job) \in Int
    BY <1>0, KeptIsNumber DEF Keeps, TypeOK
  <2>3. /\ Weighs(Keeps', PostedIn(o) \cup {r})
        /\ Sum(Keeps', PostedIn(o) \cup {r}) = Sum(Keeps', PostedIn(o)) + Keeps'[r]
    BY <1>3, <2>1, <2>2, SumGrows
  <2> QED
    BY <1>3, <1>4, <2>1, <2>2, <2>3 DEF Weighs
<1>5. CASE OrgOf[r] # o
  <2>1. PostedIn(o)' = PostedIn(o)
    BY <1>5 DEF PostedIn, TypeOK
  <2>2. Sum(Keeps, PostedIn(o)) \in Int
    BY <1>1, SumOfNone
  <2> QED
    BY <1>3, <1>5, <2>1, <2>2
<1> QED
  BY <1>4, <1>5

\* Posting to one wallet keeps the books.
LEMMA PostOneAdds ==
  ASSUME Inv, BooksAdd, NEW r \in Requests, Post(r), tx[r].job.owner = None
  PROVE  BooksAdd'
<1> DEFINE job == tx[r].job
<1>0. tx[r].at = "open" /\ job \in Job /\ TypeOK /\ IsFiniteSet(ledger) /\ ledger \in SUBSET Entry
      /\ tx' = [tx EXCEPT ![r] = [at |-> "posted", job |-> job]] /\ OrgOf[r] \in Orgs
  BY JobOfOpen, StatementsAssumption DEF Post, Inv, RowsKnown, TypeOK
<1>1. PICK i \in Unused :
        /\ balance' = Charged(job)
        /\ ledger' = ledger \cup
             {Row(i, r, job.user, job.type, job.amount, Charged(job)[job.user])}
  <2>1. job.owner = None
    OBVIOUS
  <2> QED
    BY <2>1 DEF Post
<1>2. job.user \in Users /\ job.amount \in Int /\ job.type \in EntryType \ {"commission"}
      /\ job.markup = 0 /\ Charged(job) \in [Users -> Int]
  BY <1>0 DEF Job, Charged, TypeOK
<1>3. PICK x \in Entry :
        /\ ledger' = ledger \cup {x} /\ x \notin ledger
        /\ x.user = job.user /\ x.amount = job.amount /\ x.type = job.type /\ x.org = OrgOf[r]
  <2> DEFINE x == Row(i, r, job.user, job.type, job.amount, Charged(job)[job.user])
  <2>1. x \in Entry /\ x.id = i
    BY <1>0, <1>2, RowIsEntry DEF Unused
  <2>2. x \notin ledger
    BY <2>1 DEF Unused
  <2> QED
    BY <1>1, <2>1, <2>2 DEF Row
<1>4. x \notin Opening /\ Opening \subseteq ledger'
  BY <1>3 DEF BooksAdd
<1>5. ASSUME NEW u \in Users PROVE balance'[u] = Sum(Amount, RowsOf(ledger', u))
  <2>1. balance[u] = Sum(Amount, RowsOf(ledger, u)) /\ balance[u] \in Int
    BY <1>0 DEF BooksAdd, WalletsAdd, TypeOK
  <2>2. balance'[u] = balance[u] + (IF job.user = u THEN job.amount ELSE 0)
    BY <1>0, <1>1, <1>2, <2>1 DEF Charged, TypeOK
  <2>3. Sum(Amount, RowsOf(ledger \cup {x}, u)) =
          Sum(Amount, RowsOf(ledger, u)) + (IF x.user = u THEN x.amount ELSE 0)
    BY <1>0, <1>3, NewRowMoves
  <2> HIDE DEF job
  <2> QED
    BY <1>3, <2>1, <2>2, <2>3
<1>6. ASSUME NEW o \in Orgs
      PROVE  /\ IsFiniteSet(PostedIn(o)')
             /\ -Sum(Amount, Earning(ledger', o)) = Sum(Keeps', PostedIn(o)')
  <2>1. IsFiniteSet(PostedIn(o)) /\ -Sum(Amount, Earning(ledger, o)) = Sum(Keeps, PostedIn(o))
    BY DEF BooksAdd, EarningsAdd
  <2>2. /\ IsFiniteSet(PostedIn(o)')
        /\ Sum(Keeps', PostedIn(o)') =
             Sum(Keeps, PostedIn(o)) + (IF OrgOf[r] = o THEN KeptOf(job) ELSE 0)
    BY <1>0, <2>1, PostKeeps
  <2>3. Sum(Amount, Earning(ledger', o)) =
          Sum(Amount, Earning(ledger, o)) +
          (IF OrgOf[r] = o /\ job.type \in SpendTypes THEN job.amount ELSE 0)
    <3>1. x.type \in SpendTypes \cup {"commission"} <=> job.type \in SpendTypes
      BY <1>2, <1>3
    <3> QED
      BY <1>0, <1>3, <1>4, <3>1, NewRowEarns
  <2>4. KeptOf(job) = IF job.type \in SpendTypes THEN -job.amount ELSE 0
    BY <1>2 DEF KeptOf
  <2>5. Sum(Amount, Earning(ledger, o)) \in Int
    <3>1. Earning(ledger, o) \in SUBSET ledger
      BY DEF Earning
    <3> QED
      BY <1>0, <3>1, RowsWeigh
  <2> HIDE DEF job
  <2> QED
    BY <1>2, <2>1, <2>2, <2>3, <2>4, <2>5
<1> QED
  BY <1>4, <1>5, <1>6 DEF BooksAdd, WalletsAdd, EarningsAdd

\* Posting to a client and the owner of a credit group keeps the books.
LEMMA PostTwoAdds ==
  ASSUME Inv, BooksAdd, NEW r \in Requests, Post(r), tx[r].job.owner # None
  PROVE  BooksAdd'
<1> DEFINE job == tx[r].job
<1>0. tx[r].at = "open" /\ job \in Job /\ TypeOK /\ IsFiniteSet(ledger) /\ ledger \in SUBSET Entry
      /\ tx' = [tx EXCEPT ![r] = [at |-> "posted", job |-> job]] /\ OrgOf[r] \in Orgs
  BY JobOfOpen, StatementsAssumption DEF Post, Inv, RowsKnown, TypeOK
<1>1. PICK i \in Unused, j \in Unused :
        /\ i # j
        /\ balance' = [Charged(job) EXCEPT ![job.owner] = @ + job.markup]
        /\ ledger' = ledger \cup
             {Row(i, r, job.user, job.type, job.amount, Charged(job)[job.user]),
              Row(j, r, job.owner, "commission", job.markup, balance'[job.owner])}
  <2>1. job.owner # None
    OBVIOUS
  <2> QED
    BY <2>1 DEF Post
<1>2. job.user \in Users /\ job.amount \in Int /\ job.type = "lock" /\ job.owner \in Users
      /\ job.markup \in Int /\ Charged(job) \in [Users -> Int] /\ balance' \in [Users -> Int]
  BY <1>0, <1>1 DEF Job, Charged, TypeOK
<1>3. PICK x \in Entry, y \in Entry :
        /\ ledger' = (ledger \cup {x}) \cup {y} /\ x \notin ledger /\ y \notin ledger \cup {x}
        /\ x.user = job.user /\ x.amount = job.amount /\ x.type = "lock" /\ x.org = OrgOf[r]
        /\ y.user = job.owner /\ y.amount = job.markup /\ y.type = "commission" /\ y.org = OrgOf[r]
  <2> DEFINE x == Row(i, r, job.user, job.type, job.amount, Charged(job)[job.user])
             y == Row(j, r, job.owner, "commission", job.markup, balance'[job.owner])
  <2>0. i \in Ids /\ j \in Ids /\ Charged(job)[job.user] \in Int /\ balance'[job.owner] \in Int
        /\ job.type \in EntryType /\ "commission" \in EntryType
    BY <1>2 DEF Unused, EntryType
  <2>1. x \in Entry /\ x.id = i /\ y \in Entry /\ y.id = j
    <3>1. tx[r].stamp \in Times
      BY <1>0 DEF TypeOK, Tx
    <3> HIDE DEF job
    <3> QED
      BY <1>0, <1>2, <2>0, <3>1 DEF Row, Entry
  <2>2. x \notin ledger /\ y \notin ledger /\ x # y
    BY <1>1, <2>1 DEF Unused
  <2>3. /\ x.user = job.user /\ x.amount = job.amount /\ x.type = "lock" /\ x.org = OrgOf[r]
        /\ y.user = job.owner /\ y.amount = job.markup /\ y.type = "commission" /\ y.org = OrgOf[r]
    BY <1>2 DEF Row
  <2> HIDE DEF x, y
  <2> QED
    BY <1>1, <2>1, <2>2, <2>3 DEF x, y
<1> DEFINE l == ledger \cup {x}
<1>4. l \in SUBSET Entry /\ IsFiniteSet(l)
  BY <1>0, <1>3, FS_AddElement
<1>5. x \notin Opening /\ y \notin Opening /\ Opening \subseteq ledger'
  BY <1>3 DEF BooksAdd
<1>6. ASSUME NEW u \in Users PROVE balance'[u] = Sum(Amount, RowsOf(ledger', u))
  <2>1. balance[u] = Sum(Amount, RowsOf(ledger, u)) /\ balance[u] \in Int
    BY <1>0 DEF BooksAdd, WalletsAdd, TypeOK
  <2>2. Charged(job)[u] = balance[u] + (IF job.user = u THEN job.amount ELSE 0)
    BY <1>0, <1>2, <2>1 DEF Charged, TypeOK
  <2>3. balance'[u] = Charged(job)[u] + (IF job.owner = u THEN job.markup ELSE 0)
    BY <1>1, <1>2
  <2>4. Sum(Amount, RowsOf(l, u)) = Charged(job)[u]
    <3> HIDE DEF job
    <3> QED
      BY <1>0, <1>3, <2>1, <2>2, NewRowMoves
  <2>5. Sum(Amount, RowsOf(l \cup {y}, u)) =
          Sum(Amount, RowsOf(l, u)) + (IF y.user = u THEN y.amount ELSE 0)
    <3> HIDE DEF l
    <3> QED
      BY <1>3, <1>4, NewRowMoves DEF l
  <2> HIDE DEF job
  <2> QED
    BY <1>3, <2>3, <2>4, <2>5
<1>7. ASSUME NEW o \in Orgs
      PROVE  /\ IsFiniteSet(PostedIn(o)')
             /\ -Sum(Amount, Earning(ledger', o)) = Sum(Keeps', PostedIn(o)')
  <2>1. IsFiniteSet(PostedIn(o)) /\ -Sum(Amount, Earning(ledger, o)) = Sum(Keeps, PostedIn(o))
    BY DEF BooksAdd, EarningsAdd
  <2>2. /\ IsFiniteSet(PostedIn(o)')
        /\ Sum(Keeps', PostedIn(o)') =
             Sum(Keeps, PostedIn(o)) + (IF OrgOf[r] = o THEN KeptOf(job) ELSE 0)
    BY <1>0, <2>1, PostKeeps
  <2>3. Sum(Amount, Earning(l, o)) =
          Sum(Amount, Earning(ledger, o)) + (IF OrgOf[r] = o THEN job.amount ELSE 0)
    BY <1>0, <1>3, <1>5, NewRowEarns DEF SpendTypes
  <2>4. Sum(Amount, Earning(l \cup {y}, o)) =
          Sum(Amount, Earning(l, o)) + (IF OrgOf[r] = o THEN job.markup ELSE 0)
    <3>1. y \notin l /\ y.type \in SpendTypes \cup {"commission"}
      BY <1>3
    <3> HIDE DEF l, job
    <3> QED
      BY <1>3, <1>4, <1>5, <3>1, NewRowEarns
  <2>5. KeptOf(job) = -job.amount - job.markup
    BY <1>2 DEF KeptOf, SpendTypes
  <2>6. Sum(Amount, Earning(ledger, o)) \in Int
    <3>1. Earning(ledger, o) \in SUBSET ledger
      BY DEF Earning
    <3> QED
      BY <1>0, <3>1, RowsWeigh
  <2>7. ledger' = l \cup {y}
    BY <1>3
  <2> HIDE DEF job, l
  <2> QED
    BY <1>2, <2>1, <2>2, <2>3, <2>4, <2>5, <2>6, <2>7
<1> QED
  BY <1>5, <1>6, <1>7 DEF BooksAdd, WalletsAdd, EarningsAdd

\* On the opening rows the balances are their totals, and nothing is earned yet.
LEMMA AddsInit == Init => BooksAdd
<1> SUFFICES ASSUME Init PROVE BooksAdd
  OBVIOUS
<1>1. Opening \in SUBSET Entry /\ IsFiniteSet(Opening) /\ ledger = Opening
  BY OpeningAssumption DEF Init
<1>2. ASSUME NEW u \in Users PROVE balance[u] = Sum(Amount, RowsOf(ledger, u))
  <2>1. RowsOf(Opening, u) \in SUBSET Entry /\ IsFiniteSet(RowsOf(Opening, u))
    BY <1>1, FS_Subset DEF RowsOf
  <2>2. balance[u] = Total(RowsOf(Opening, u))
    BY DEF Init, Balances, RowsOf
  <2> QED
    BY <1>1, <2>1, <2>2, TotalIsSum
<1>3. ASSUME NEW o \in Orgs
      PROVE  IsFiniteSet(PostedIn(o)) /\ -Sum(Amount, Earning(ledger, o)) = Sum(Keeps, PostedIn(o))
  <2>1. PostedIn(o) = {} /\ Earning(ledger, o) = {}
    BY <1>1 DEF Init, PostedIn, Earning
  <2>2. Weighs(Keeps, {}) /\ Weighs(Amount, {})
    BY FS_EmptySet DEF Weighs
  <2>3. Sum(Keeps, {}) = 0 /\ Sum(Amount, {}) = 0
    BY <2>2, SumOfNone
  <2> QED
    BY <2>1, <2>3, FS_EmptySet
<1> QED
  BY <1>1, <1>2, <1>3 DEF BooksAdd, WalletsAdd, EarningsAdd

\* A step that posts nothing keeps what is posted.
LEMMA PostedStand ==
  ASSUME TypeOK, NEW r \in Requests, tx[r].at \in {"fresh", "open"}, NEW t, tx' = [tx EXCEPT ![r] = t],
         t.at # "posted", UNCHANGED <<ledger, balance>>, BooksAdd
  PROVE  BooksAdd'
<1>1. ASSUME NEW o \in Orgs
      PROVE  /\ IsFiniteSet(PostedIn(o)')
             /\ -Sum(Amount, Earning(ledger', o)) = Sum(Keeps', PostedIn(o)')
  <2>1. PostedIn(o)' = PostedIn(o)
    BY DEF PostedIn, TypeOK
  <2>2. \A q \in PostedIn(o) : Keeps'[q] = Keeps[q]
    BY DEF PostedIn, Keeps, TypeOK
  <2>3. IsFiniteSet(PostedIn(o)) /\ -Sum(Amount, Earning(ledger, o)) = Sum(Keeps, PostedIn(o))
    BY DEF BooksAdd, EarningsAdd
  <2>4. Weighs(Keeps, PostedIn(o))
    BY <2>3, KeptWeighs
  <2>5. Sum(Keeps', PostedIn(o)) = Sum(Keeps, PostedIn(o))
    BY <2>2, <2>4, SumOfEqual
  <2> QED
    BY <2>1, <2>3, <2>5
<1> QED
  BY <1>1 DEF BooksAdd, WalletsAdd, EarningsAdd

\* Every step keeps the books.
LEMMA AddsNext == Inv /\ BooksAdd /\ [Next]_vars => BooksAdd'
<1> SUFFICES ASSUME Inv, BooksAdd, [Next]_vars PROVE BooksAdd'
  OBVIOUS
<1>0. TypeOK
  BY DEF Inv
<1>1. CASE UNCHANGED <<ledger, balance, tx>>
  BY <1>1 DEF BooksAdd, WalletsAdd, EarningsAdd, PostedIn, Keeps
<1>2. ASSUME NEW r \in Requests, Post(r) PROVE BooksAdd'
  BY <1>2, PostOneAdds, PostTwoAdds
<1>3. ASSUME NEW r \in Requests, NEW job \in Job, Begin(r, job) PROVE BooksAdd'
  <2>1. [at |-> "open", job |-> job, stamp |-> now].at # "posted"
    OBVIOUS
  <2> QED
    BY <1>0, <1>3, <2>1, PostedStand DEF Begin
<1>4. ASSUME NEW r \in Requests, Refuse(r) PROVE BooksAdd'
  <2>1. [at |-> "refused"].at # "posted"
    OBVIOUS
  <2> QED
    BY <1>0, <1>4, <2>1, PostedStand DEF Refuse
<1>5. ASSUME NEW r \in Requests, BeginPosting(r) PROVE BooksAdd'
  BY <1>3, <1>5, StatementsAssumption DEF BeginPosting
<1>6. ASSUME NEW r \in Requests, BeginVoid(r) PROVE BooksAdd'
  <2>1. PICK q \in Requests : tx[q].at = "posted" /\ Begin(r, Reversal(tx[q].job))
    BY <1>6 DEF BeginVoid
  <2>2. Reversal(tx[q].job) \in Job
    BY <1>0, <2>1, ReversalIsJob DEF TypeOK, Tx
  <2> QED
    BY <1>3, <2>1, <2>2
<1> QED
  BY <1>1, <1>2, <1>4, <1>5, <1>6 DEF Next, vars, Tick, Open, NextPage

\* The slice of a user.
LEMMA SliceOfUser ==
  ASSUME NEW u \in Users
  PROVE  Slice(OfUser(u)) = RowsOf(ledger, u)
<1>1. u # None
  BY StatementsAssumption
<1> QED
  BY <1>1 DEF Slice, OfUser, Everything, Matches, Within, RowsOf

\* The slice of an organization.
LEMMA SliceOfOrg ==
  ASSUME NEW o \in Orgs
  PROVE  Slice(OfOrg(o)) = {row \in ledger : row.org = o}
<1>1. o # None
  BY StatementsAssumption
<1> QED
  BY <1>1 DEF Slice, OfOrg, Everything, Matches, Within

\* What the warehouse kept is the sum over the posted requests.
LEMMA KeptIsSum ==
  ASSUME TypeOK, NEW o \in Orgs, IsFiniteSet(PostedIn(o))
  PROVE  Kept(o) = Sum(Keeps, PostedIn(o))
<1> DEFINE S == PostedIn(o)
           Sums(g) == g = [s \in SUBSET S |->
                             IF s = {} THEN 0 ELSE KeptOf(tx[Some(s)].job) + g[s \ {Some(s)}]]
           iter == CHOOSE g : Sums(g)
<1>1. Weighs(Keeps, S)
  BY KeptWeighs
<1>2. PICK f : SumsUp(f, Keeps, S)
  BY <1>1, SumExists
<1>3. ASSUME NEW s \in SUBSET S, s # {}
      PROVE  Keeps[Some(s)] = KeptOf(tx[Some(s)].job)
  <2>1. Some(s) \in Requests
    BY <1>3, SomeIsIn DEF PostedIn
  <2> QED
    BY <2>1 DEF Keeps
<1>4. Sums(f)
  <2>1. f = [s \in SUBSET S |-> f[s]]
    BY <1>2 DEF SumsUp
  <2>2. \A s \in SUBSET S : f[s] = IF s = {} THEN 0 ELSE KeptOf(tx[Some(s)].job) + f[s \ {Some(s)}]
    BY <1>2, <1>3 DEF SumsUp
  <2> HIDE DEF S
  <2> QED
    BY <2>1, <2>2
<1>5. Sums(iter)
  <2> HIDE DEF Sums
  <2> QED
    BY <1>4
<1>6. \A s \in SUBSET S : iter[s] = IF s = {} THEN 0 ELSE Keeps[Some(s)] + iter[s \ {Some(s)}]
  <2> HIDE DEF iter, S
  <2> QED
    BY <1>3, <1>5
<1>7. iter[S] = Sum(Keeps, S)
  <2> HIDE DEF iter, S
  <2> QED
    BY <1>1, <1>6, SumIsAnyUnrolled
<1>8. Kept(o) = iter[S]
  BY Zenon DEF Kept, MapThenSumSet, MapThenFoldSet, Some, PostedIn
<1> QED
  BY <1>7, <1>8, Zenon

\* Money in less money out is what some rows add up to.
LEMMA MoneyAdds ==
  ASSUME NEW rows \in SUBSET Entry, IsFiniteSet(rows)
  PROVE  MoneyIn(rows) - MoneyOut(rows) = Sum(Amount, rows)
<1> DEFINE in == {row \in rows : row.amount > 0}
           out == {row \in rows : row.amount < 0}
           nil == {row \in rows : row.amount = 0}
<1>1. /\ Total(in) = Sum(Amount, in) /\ Total(out) = Sum(Amount, out)
      /\ Sum(Amount, in) \in Int /\ Sum(Amount, out) \in Int /\ Weighs(Amount, nil)
      /\ Weighs(Amount, rows) /\ Weighs(Amount, in \cup out)
  <2>1. ASSUME NEW part \in SUBSET rows
        PROVE  Total(part) = Sum(Amount, part) /\ Sum(Amount, part) \in Int /\ Weighs(Amount, part)
    <3>1. part \in SUBSET Entry /\ IsFiniteSet(part)
      BY FS_Subset
    <3> QED
      BY <3>1, TotalIsSum, SumOfNone
  <2>2. in \in SUBSET rows /\ out \in SUBSET rows /\ nil \in SUBSET rows /\ in \cup out \in SUBSET rows
    OBVIOUS
  <2> HIDE DEF in, out, nil
  <2> QED
    BY <2>1, <2>2
<1>2. Sum(Amount, nil) = 0
  <2>1. \A x \in nil : Amount[x] = 0
    BY DEF Amount
  <2> HIDE DEF nil
  <2> QED
    BY <1>1, <2>1, SumOfWeightless
<1>3. Sum(Amount, in \cup out) = Sum(Amount, in) + Sum(Amount, out)
  <2>1. in \cap out = {} /\ in \in SUBSET (in \cup out) /\ out \in SUBSET (in \cup out)
    BY DEF Entry
  <2> HIDE DEF in, out
  <2> QED
    BY <1>1, <2>1, SumOfParts
<1>4. Sum(Amount, rows) = Sum(Amount, in \cup out) + Sum(Amount, nil)
  <2>1. rows = (in \cup out) \cup nil /\ (in \cup out) \cap nil = {}
        /\ in \cup out \in SUBSET rows /\ nil \in SUBSET rows
    BY DEF Entry
  <2> HIDE DEF in, out, nil
  <2> QED
    BY <1>1, <2>1, SumOfParts
<1> HIDE DEF in, out, nil
<1>5. Sum(Amount, in) - (-Sum(Amount, out)) = Sum(Amount, rows)
  BY <1>1, <1>2, <1>3, <1>4
<1> QED
  BY <1>1, <1>5 DEF MoneyIn, MoneyOut, in, out

\* The days' balances add up to what all rows add up to.
LEMMA DaysAdd ==
  ASSUME NEW rows \in SUBSET Entry, IsFiniteSet(rows)
  PROVE  MapThenSumSet(LAMBDA d : MoneyIn(OfDay(rows, d)) - MoneyOut(OfDay(rows, d)), Days(rows))
           = Sum(Amount, rows)
<1> DEFINE net(d) == MoneyIn(OfDay(rows, d)) - MoneyOut(OfDay(rows, d))
           v == [d \in Days(rows) |-> net(d)]
           key == [row \in Entry |-> DayOf(row)]
           S == Days(rows)
           Sums(g) == g = [s \in SUBSET S |-> IF s = {} THEN 0 ELSE net(Some(s)) + g[s \ {Some(s)}]]
           iter == CHOOSE g : Sums(g)
<1>1. IsFiniteSet(S)
  <2>1. [row \in rows |-> DayOf(row)] \in Surjection(rows, S)
    BY DEF Days, Surjection
  <2> QED
    BY <2>1, FS_Surjection
<1>2. Weighs(Amount, rows)
  BY TotalIsSum
<1>3. ASSUME NEW d \in S
      PROVE  v[d] = Sum(Amount, {row \in rows : key[row] = d})
  <2>1. OfDay(rows, d) \in SUBSET Entry /\ IsFiniteSet(OfDay(rows, d))
    BY FS_Subset DEF OfDay
  <2>2. OfDay(rows, d) = {row \in rows : key[row] = d}
    BY DEF OfDay
  <2>3. net(d) = Sum(Amount, OfDay(rows, d))
    BY <2>1, MoneyAdds
  <2> QED
    BY <2>2, <2>3
<1>4. Weighs(v, S) /\ Sum(v, S) = Sum(Amount, {row \in rows : key[row] \in S})
  <2> HIDE DEF v, key, S
  <2> QED
    BY <1>1, <1>2, <1>3, SumByKey
<1>5. {row \in rows : key[row] \in S} = rows
  BY DEF Days
<1>6. PICK f : SumsUp(f, v, S)
  BY <1>4, SumExists
<1>7. ASSUME NEW s \in SUBSET S, s # {}
      PROVE  v[Some(s)] = net(Some(s))
  <2>1. Some(s) \in S
    BY <1>7, SomeIsIn
  <2> HIDE DEF net
  <2> QED
    BY <2>1
<1>8. Sums(f)
  <2>1. f = [s \in SUBSET S |-> f[s]]
    BY <1>6 DEF SumsUp
  <2>2. \A s \in SUBSET S : f[s] = IF s = {} THEN 0 ELSE net(Some(s)) + f[s \ {Some(s)}]
    <3> HIDE DEF net, v, S
    <3> QED
      BY <1>6, <1>7 DEF SumsUp
  <2> HIDE DEF S, net
  <2> QED
    BY <2>1, <2>2
<1>9. Sums(iter)
  <2> HIDE DEF Sums
  <2> QED
    BY <1>8
<1>10. \A s \in SUBSET S : iter[s] = IF s = {} THEN 0 ELSE v[Some(s)] + iter[s \ {Some(s)}]
  <2> HIDE DEF iter, S, net, v
  <2> QED
    BY <1>7, <1>9
<1>11. iter[S] = Sum(v, S)
  <2> HIDE DEF iter, S, v
  <2> QED
    BY <1>4, <1>10, SumIsAnyUnrolled
<1>12. MapThenSumSet(LAMBDA d : MoneyIn(OfDay(rows, d)) - MoneyOut(OfDay(rows, d)), Days(rows))
         = iter[S]
  BY Zenon DEF MapThenSumSet, MapThenFoldSet, Some
<1> HIDE DEF iter
<1> QED
  BY <1>4, <1>5, <1>11, <1>12, Zenon

\* The two halves of a period add up to the whole.
LEMMA PeriodsAdd ==
  ASSUME NEW rows \in SUBSET Entry, IsFiniteSet(rows), NEW t \in Times, NEW types
  PROVE  Total(OfType({row \in rows : row.at < t}, types)) +
           Total(OfType({row \in rows : row.at >= t}, types)) = Total(OfType(rows, types))
<1> DEFINE before == OfType({row \in rows : row.at < t}, types)
           after == OfType({row \in rows : row.at >= t}, types)
           whole == OfType(rows, types)
<1>1. whole \in SUBSET Entry /\ IsFiniteSet(whole)
  BY FS_Subset DEF OfType
<1>2. /\ whole = before \cup after /\ before \cap after = {}
      /\ before \in SUBSET whole /\ after \in SUBSET whole
  BY StatementsAssumption DEF OfType, Entry, Times
<1>3. before \in SUBSET Entry /\ IsFiniteSet(before) /\ after \in SUBSET Entry /\ IsFiniteSet(after)
  BY <1>1, <1>2, FS_Subset
<1> HIDE DEF before, after, whole
<1>4. Total(before) = Sum(Amount, before) /\ Total(after) = Sum(Amount, after)
      /\ Total(whole) = Sum(Amount, whole) /\ Weighs(Amount, whole)
  BY <1>1, <1>3, TotalIsSum
<1>5. Sum(Amount, whole) = Sum(Amount, before) + Sum(Amount, after)
  BY <1>2, <1>4, SumOfParts
<1> QED
  BY <1>4, <1>5 DEF before, after, whole

\* The slices of two adjoining periods.
LEMMA SlicesOfPeriods ==
  ASSUME NEW o \in Orgs, NEW t \in Times
  PROVE  /\ Slice([OfOrg(o) EXCEPT !.to = t]) = {row \in Slice(OfOrg(o)) : row.at < t}
         /\ Slice([OfOrg(o) EXCEPT !.from = t]) = {row \in Slice(OfOrg(o)) : row.at >= t}
<1>1. o # None /\ t # None
  BY StatementsAssumption
<1> QED
  BY <1>1 DEF Slice, OfOrg, Everything, Matches, Within

\* When the books add up, every figure agrees.
LEMMA FiguresAgree ==
  ASSUME Inv, BooksAdd
  PROVE  SummariesAgree
<1>0. TypeOK /\ IsFiniteSet(ledger) /\ ledger \in SUBSET Entry
  BY DEF Inv, RowsKnown, TypeOK
<1>1. ASSUME NEW u \in Users
      PROVE  /\ RowsOf(ledger, u) \in SUBSET Entry /\ IsFiniteSet(RowsOf(ledger, u))
             /\ Sum(Amount, RowsOf(ledger, u)) = balance[u]
  <2>1. RowsOf(ledger, u) \in SUBSET ledger
    BY DEF RowsOf
  <2> QED
    BY <1>0, <2>1, FS_Subset DEF BooksAdd, WalletsAdd
<1>2. ASSUME NEW u \in Users PROVE Total(Slice(OfUser(u))) = balance[u]
  BY <1>1, SliceOfUser, TotalIsSum
<1>3. ASSUME NEW o \in Orgs PROVE Earnings(Slice(OfOrg(o)) \ Opening) = Kept(o)
  <2>1. OfType(Slice(OfOrg(o)) \ Opening, SpendTypes \cup {"commission"}) = Earning(ledger, o)
    BY SliceOfOrg DEF OfType, Earning
  <2>2. Earning(ledger, o) \in SUBSET Entry /\ IsFiniteSet(Earning(ledger, o))
    BY <1>0, FS_Subset DEF Earning
  <2>3. Total(Earning(ledger, o)) = Sum(Amount, Earning(ledger, o))
    BY <2>2, TotalIsSum
  <2>4. IsFiniteSet(PostedIn(o)) /\ -Sum(Amount, Earning(ledger, o)) = Sum(Keeps, PostedIn(o))
    BY DEF BooksAdd, EarningsAdd
  <2>5. Kept(o) = Sum(Keeps, PostedIn(o))
    BY <1>0, <2>4, KeptIsSum
  <2> QED
    BY <2>1, <2>3, <2>4, <2>5 DEF Earnings
<1>4. ASSUME NEW o \in Orgs, NEW t \in Times
      PROVE  LET before == Slice([OfOrg(o) EXCEPT !.to = t])
                 after  == Slice([OfOrg(o) EXCEPT !.from = t])
                 whole  == Slice(OfOrg(o))
             IN /\ Spent(before) + Spent(after) = Spent(whole)
                /\ ToppedUp(before) + ToppedUp(after) = ToppedUp(whole)
  <2> DEFINE whole == Slice(OfOrg(o))
             before == {row \in whole : row.at < t}
             after == {row \in whole : row.at >= t}
  <2>1. whole \in SUBSET Entry /\ IsFiniteSet(whole)
    BY <1>0, FS_Subset DEF Slice
  <2>2. ASSUME NEW types
        PROVE  /\ Total(OfType(before, types)) + Total(OfType(after, types)) = Total(OfType(whole, types))
               /\ Total(OfType(before, types)) \in Int /\ Total(OfType(after, types)) \in Int
    <3>1. ASSUME NEW part \in SUBSET whole PROVE Total(OfType(part, types)) \in Int
      <4>1. OfType(part, types) \in SUBSET Entry /\ IsFiniteSet(OfType(part, types))
        BY <2>1, FS_Subset DEF OfType
      <4> QED
        BY <4>1, TotalIsSum, SumOfNone
    <3>2. before \in SUBSET whole /\ after \in SUBSET whole
      OBVIOUS
    <3> HIDE DEF whole
    <3> QED
      BY <2>1, <3>1, <3>2, PeriodsAdd
  <2>3. Spent(before) + Spent(after) = Spent(whole) /\ ToppedUp(before) + ToppedUp(after) = ToppedUp(whole)
    <3> HIDE DEF before, after, whole
    <3> QED
      BY <2>2 DEF Spent, ToppedUp
  <2> QED
    BY <2>3, SlicesOfPeriods
<1>5. ASSUME NEW u \in Users
      PROVE  LET rows == Slice(OfUser(u))
             IN MapThenSumSet(LAMBDA d : MoneyIn(OfDay(rows, d)) - MoneyOut(OfDay(rows, d)),
                              Days(rows)) = balance[u]
  <2>1. Slice(OfUser(u)) = RowsOf(ledger, u)
    BY SliceOfUser
  <2>2. Slice(OfUser(u)) \in SUBSET Entry /\ IsFiniteSet(Slice(OfUser(u)))
    BY <1>1, <2>1
  <2>3. Sum(Amount, Slice(OfUser(u))) = balance[u]
    BY <1>1, <2>1
  <2>4. PICK rows \in SUBSET Entry : rows = Slice(OfUser(u))
    BY <2>2
  <2> QED
    BY <2>2, <2>3, DaysAdd, Zenon
<1> QED
  BY <1>2, <1>3, <1>4, <1>5, Zenon DEF SummariesAgree

(* Balances, earnings, adjoining periods and days add up to the same, for any users,
   organizations, postings and reversals. *)
THEOREM FiguresAddUp == Spec => []SummariesAgree
<1>1. Init => Inv /\ BooksAdd
  BY InvInit, AddsInit
<1>2. Inv /\ BooksAdd /\ [Next]_vars => (Inv /\ BooksAdd)'
  BY InvNext, AddsNext
<1>3. Inv /\ BooksAdd => SummariesAgree
  BY FiguresAgree
<1> QED
  BY <1>1, <1>2, <1>3, PTL DEF Spec

-----------------------------------------------------------------------------
(* Closing balances *)

UpTo(l, u, t) == {row \in RowsOf(l, u) : row.at <= t}

\* The rows of a user lie apart, and each bears the balance up to it.
Steps(u) ==
  \A a \in RowsOf(ledger, u) :
    /\ \A b \in RowsOf(ledger, u) : b.at = a.at => b = a
    /\ a.new = Sum(Amount, UpTo(ledger, u, a.at))

OpenOn(r, u) == tx[r].at = "open" /\ u \in Moves(tx[r].job)

\* At most one transaction is open on the user, stamped after all that is posted.
Serial(u) ==
  \A r \in Requests : OpenOn(r, u) =>
    /\ tx[r].job.owner # tx[r].job.user
    /\ \A q \in Requests : OpenOn(q, u) => q = r
    /\ \A row \in RowsOf(ledger, u) : row.at < tx[r].stamp

OneByOne == \A u \in Users \ Overlapping : Steps(u) /\ Serial(u)

\* What a posting adds to the ledger.
LEMMA PostWrites ==
  ASSUME TypeOK, NEW r \in Requests, Post(r)
  PROVE  /\ ledger \subseteq ledger'
         /\ \A x \in ledger' \ ledger :
              /\ x.at = tx[r].stamp /\ x.user \in Moves(tx[r].job)
              /\ tx[r].job.owner # tx[r].job.user => x.new = balance'[x.user]
         /\ tx[r].job.owner # tx[r].job.user =>
              \A x, y \in ledger' \ ledger : x.user = y.user => x = y
<1> DEFINE job == tx[r].job
<1>0. job \in Job /\ tx[r].at = "open"
  BY JobOfOpen DEF Post
<1>1. job.user \in Users /\ Charged(job) \in [Users -> Int] /\ job.markup \in Int
  BY <1>0 DEF Job, Charged, TypeOK
<1>2. CASE job.owner = None
  <2>1. PICK i \in Unused :
          /\ balance' = Charged(job)
          /\ ledger' = ledger \cup
               {Row(i, r, job.user, job.type, job.amount, Charged(job)[job.user])}
    BY <1>2 DEF Post
  <2> HIDE DEF job
  <2>2. /\ Row(i, r, job.user, job.type, job.amount, Charged(job)[job.user]).at = tx[r].stamp
        /\ Row(i, r, job.user, job.type, job.amount, Charged(job)[job.user]).user = job.user
        /\ Row(i, r, job.user, job.type, job.amount, Charged(job)[job.user]).new = Charged(job)[job.user]
    BY DEF Row
  <2>3. job.user \in Moves(job)
    BY DEF Moves
  <2> QED
    BY <2>1, <2>2, <2>3 DEF job
<1>3. CASE job.owner # None
  <2>1. PICK i \in Unused, j \in Unused :
          /\ balance' = [Charged(job) EXCEPT ![job.owner] = @ + job.markup]
          /\ ledger' = ledger \cup
               {Row(i, r, job.user, job.type, job.amount, Charged(job)[job.user]),
                Row(j, r, job.owner, "commission", job.markup, balance'[job.owner])}
    BY <1>3 DEF Post
  <2>2. PICK x, y :
          /\ x = Row(i, r, job.user, job.type, job.amount, Charged(job)[job.user])
          /\ y = Row(j, r, job.owner, "commission", job.markup, balance'[job.owner])
    OBVIOUS
  <2> HIDE DEF job
  <2>3. /\ x.at = tx[r].stamp /\ x.user = job.user /\ x.new = Charged(job)[job.user]
        /\ y.at = tx[r].stamp /\ y.user = job.owner /\ y.new = balance'[job.owner]
    BY <2>2 DEF Row
  <2>4. job.owner # job.user => x.new = balance'[x.user]
    BY <1>1, <2>1, <2>3
  <2>5. {job.user, job.owner} \subseteq Moves(job)
    BY <1>3 DEF Moves
  <2>6. ledger' = ledger \cup {x, y}
    BY <2>1, <2>2
  <2> QED
    BY <2>3, <2>4, <2>5, <2>6 DEF job
<1> QED
  BY <1>2, <1>3

\* Posting keeps the chain of every user whose transactions do not overlap.
LEMMA SerialPost ==
  ASSUME TypeOK, TypeOK', WalletsAdd', OneByOne, NEW r \in Requests, Post(r)
  PROVE  OneByOne'
<1>0. /\ tx[r].at = "open" /\ tx[r].stamp \in Times /\ Times \subseteq Int
      /\ tx' = [tx EXCEPT ![r] = [at |-> "posted", job |-> tx[r].job]]
  BY StatementsAssumption DEF Post, TypeOK, Tx, Times
<1> SUFFICES ASSUME NEW u \in Users \ Overlapping PROVE Steps(u)' /\ Serial(u)'
  BY DEF OneByOne
<1>1. Steps(u) /\ Serial(u)
  BY DEF OneByOne
<1>2. \A q \in Requests : OpenOn(q, u)' => q # r /\ OpenOn(q, u) /\ tx'[q] = tx[q]
  BY <1>0 DEF OpenOn, TypeOK
<1>3. \A x \in ledger \cup ledger' : x.at \in Int
  BY <1>0 DEF TypeOK, Entry
<1>4. CASE \A x \in ledger' \ ledger : x.user # u
  <2>1. RowsOf(ledger', u) = RowsOf(ledger, u)
    BY <1>4, PostWrites DEF RowsOf
  <2>2. Steps(u)'
    BY <1>1, <2>1 DEF Steps, UpTo
  <2>3. Serial(u)'
    BY <1>1, <1>2, <2>1 DEF Serial
  <2> QED
    BY <2>2, <2>3
<1>5. ASSUME NEW x \in ledger' \ ledger, x.user = u
      PROVE  Steps(u)' /\ Serial(u)'
  <2>1. OpenOn(r, u)
    BY <1>0, <1>5, PostWrites DEF OpenOn
  <2>2. /\ tx[r].job.owner # tx[r].job.user
        /\ \A q \in Requests : OpenOn(q, u) => q = r
        /\ \A row \in RowsOf(ledger, u) : row.at < tx[r].stamp
    BY <1>1, <2>1 DEF Serial
  <2>3. x.at = tx[r].stamp /\ x.new = balance'[u]
        /\ \A y \in ledger' \ ledger : y.user = u => y = x
    BY <1>5, <2>2, PostWrites
  <2>4. RowsOf(ledger', u) = RowsOf(ledger, u) \cup {x}
    BY <1>5, <2>3, PostWrites DEF RowsOf
  <2>5. \A a \in RowsOf(ledger, u) : a.at < x.at
    BY <2>2, <2>3
  <2>6. \A a \in RowsOf(ledger, u) : UpTo(ledger', u, a.at) = UpTo(ledger, u, a.at)
    <3>1. \A a \in RowsOf(ledger, u) : a.at \in Int /\ x.at \in Int
      BY <1>3 DEF RowsOf
    <3> QED
      BY <2>4, <2>5, <3>1 DEF UpTo
  <2>7. UpTo(ledger', u, x.at) = RowsOf(ledger', u)
    <3>1. \A a \in RowsOf(ledger', u) : a.at \in Int /\ x.at \in Int
      BY <1>3 DEF RowsOf
    <3> QED
      BY <2>4, <2>5, <3>1 DEF UpTo
  <2>8. x.new = Sum(Amount, UpTo(ledger', u, x.at))
    BY <2>3, <2>7 DEF WalletsAdd
  <2>9. \A a \in RowsOf(ledger', u) : a.new = Sum(Amount, UpTo(ledger', u, a.at))
    BY <1>1, <2>4, <2>6, <2>8 DEF Steps
  <2>10. \A a, b \in RowsOf(ledger', u) : b.at = a.at => b = a
    <3>1. \A a \in RowsOf(ledger, u) : a.at # x.at
      <4>1. \A a \in RowsOf(ledger, u) : a.at \in Int /\ x.at \in Int
        BY <1>3 DEF RowsOf
      <4> QED
        BY <2>5, <4>1
    <3> QED
      BY <1>1, <2>4, <3>1 DEF Steps
  <2>11. Serial(u)'
    BY <1>2, <2>2 DEF Serial
  <2> QED
    BY <2>9, <2>10, <2>11 DEF Steps
<1> QED
  BY <1>4, <1>5

\* Beginning on a user whose transactions do not overlap.
LEMMA SerialBegin ==
  ASSUME TypeOK, OneByOne, NEW r \in Requests, NEW job \in Job, Begin(r, job)
  PROVE  OneByOne'
<1> SUFFICES ASSUME NEW u \in Users \ Overlapping PROVE Steps(u)' /\ Serial(u)'
  BY DEF OneByOne
<1>1. Steps(u) /\ Serial(u) /\ ledger' = ledger
  BY DEF OneByOne, Begin
<1>2. Steps(u)'
  BY <1>1 DEF Steps
<1>3. /\ \A q \in Requests \ {r} : tx'[q] = tx[q]
      /\ tx'[r] = [at |-> "open", job |-> job, stamp |-> now]
      /\ tx[r].at = "fresh"
  BY DEF Begin, TypeOK
<1>4. CASE u \notin Moves(job)
  <2>1. \A q \in Requests : OpenOn(q, u)' => q # r /\ OpenOn(q, u)
    BY <1>3, <1>4 DEF OpenOn
  <2> QED
    BY <1>1, <1>2, <1>3, <2>1 DEF Serial
<1>5. CASE u \in Moves(job)
  <2>1. Alone(u)
    BY <1>5 DEF Begin
  <2>2. job.owner # job.user
    BY <1>5 DEF Begin, Moves
  <2>3. \A q \in Requests : OpenOn(q, u)' => q = r
    BY <1>3, <2>1 DEF Alone, OpenOn
  <2>4. \A row \in RowsOf(ledger', u) : row.at < tx'[r].stamp
    BY <1>1, <1>3, <2>1 DEF Alone, RowsOf
  <2> QED
    BY <1>2, <1>3, <2>2, <2>3, <2>4 DEF Serial
<1> QED
  BY <1>4, <1>5

\* The opening rows are a chain.
LEMMA SerialInit == Init => OneByOne
<1> SUFFICES ASSUME Init, NEW u \in Users \ Overlapping PROVE Steps(u) /\ Serial(u)
  BY DEF OneByOne
<1>1. ledger = Opening /\ \A r \in Requests : tx[r].at = "fresh"
  BY DEF Init
<1>2. ASSUME NEW a \in RowsOf(ledger, u)
      PROVE  /\ \A b \in RowsOf(ledger, u) : b.at = a.at => b = a
             /\ a.new = Sum(Amount, UpTo(ledger, u, a.at))
  <2>1. a \in Opening /\ a.user = u
    BY <1>1 DEF RowsOf
  <2>2. UpTo(ledger, u, a.at) = {b \in Opening : b.user = a.user /\ b.at <= a.at}
    BY <1>1, <2>1 DEF UpTo, RowsOf
  <2>3. /\ \A b \in Opening : b.user = a.user /\ b.at = a.at => b = a
        /\ a.new = Total({b \in Opening : b.user = a.user /\ b.at <= a.at})
    BY <2>1, OpeningAssumption
  <2>4. UpTo(ledger, u, a.at) \in SUBSET Entry /\ IsFiniteSet(UpTo(ledger, u, a.at))
    BY <1>1, OpeningAssumption, FS_Subset DEF UpTo, RowsOf
  <2> QED
    BY <1>1, <2>1, <2>2, <2>3, <2>4, TotalIsSum DEF RowsOf
<1>3. Serial(u)
  BY <1>1 DEF Serial, OpenOn
<1> QED
  BY <1>2, <1>3 DEF Steps

\* Every step keeps the chains.
LEMMA SerialNext == TypeOK /\ TypeOK' /\ WalletsAdd' /\ OneByOne /\ [Next]_vars => OneByOne'
<1> SUFFICES ASSUME TypeOK, TypeOK', WalletsAdd', OneByOne, [Next]_vars PROVE OneByOne'
  OBVIOUS
<1>1. CASE UNCHANGED <<ledger, tx>>
  BY <1>1 DEF OneByOne, Steps, Serial, OpenOn
<1>2. ASSUME NEW r \in Requests, Post(r) PROVE OneByOne'
  BY <1>2, SerialPost
<1>3. ASSUME NEW r \in Requests, NEW job \in Job, Begin(r, job) PROVE OneByOne'
  BY <1>3, SerialBegin
<1>4. ASSUME NEW r \in Requests, Refuse(r) PROVE OneByOne'
  <2>1. ledger' = ledger /\ \A q \in Requests, u \in Users : OpenOn(q, u)' => OpenOn(q, u) /\ tx'[q] = tx[q]
    BY <1>4 DEF Refuse, TypeOK, OpenOn
  <2> QED
    BY <2>1 DEF OneByOne, Steps, Serial
<1>5. ASSUME NEW r \in Requests, BeginPosting(r) PROVE OneByOne'
  BY <1>3, <1>5, StatementsAssumption DEF BeginPosting
<1>6. ASSUME NEW r \in Requests, BeginVoid(r) PROVE OneByOne'
  <2>1. PICK q \in Requests : tx[q].at = "posted" /\ Begin(r, Reversal(tx[q].job))
    BY <1>6 DEF BeginVoid
  <2>2. Reversal(tx[q].job) \in Job
    BY <2>1, ReversalIsJob DEF TypeOK, Tx
  <2> QED
    BY <1>3, <2>1, <2>2
<1> QED
  BY <1>1, <1>2, <1>4, <1>5, <1>6 DEF Next, vars, Tick, Open, NextPage

\* A finite set of entries that differ in their ids has a newest one.
LEMMA NewestExists ==
  ASSUME NEW rows \in SUBSET Entry, IsFiniteSet(rows), rows # {},
         \A a, b \in rows : a.id = b.id => a = b
  PROVE  \E x \in rows : \A y \in rows : y = x \/ Newer(x, y)
<1> DEFINE above(x) == {y \in rows : Newer(y, x)}
           B == {U \in SUBSET rows : \E x \in rows : U = above(x)}
<1>0. \A x \in rows : above(x) \in B
  OBVIOUS
<1>1. PICK M \in B : \A U \in B : U \subseteq M => U = M
  <2>1. B \in SUBSET SUBSET rows /\ B # {}
    BY <1>0
  <2> HIDE DEF B
  <2> QED
    BY <2>1, Smallest
<1>2. PICK x \in rows : M = above(x)
  OBVIOUS
<1>3. ASSUME NEW y \in rows, Newer(y, x) PROVE FALSE
  <2>1. above(y) \subseteq above(x)
    BY <1>3, NewerIsTransitive
  <2>2. y \in above(x) /\ y \notin above(y)
    BY <1>3, NewerIsStrict
  <2>3. above(y) \in B
    BY <1>0
  <2> HIDE DEF B
  <2> QED
    BY <1>1, <1>2, <2>1, <2>2, <2>3
<1>4. \A y \in rows : y = x \/ Newer(x, y)
  BY <1>3, NewerIsTotal
<1> QED
  BY <1>4

\* Days follow the clock.
LEMMA DaysInOrder ==
  ASSUME NEW a \in Int, NEW b \in Int, a <= b
  PROVE  a \div DayLength <= b \div DayLength
  BY StatementsAssumption

\* The newest row of a day bears the total of all rows up to that day.
LEMMA LastOfDay ==
  ASSUME Inv, NEW u \in Users \ Overlapping, Steps(u), NEW d \in Days(RowsOf(ledger, u))
  PROVE  Closing(OfDay(RowsOf(ledger, u), d)) =
           Total({row \in RowsOf(ledger, u) : DayOf(row) <= d})
<1> DEFINE rows == RowsOf(ledger, u)
           day == OfDay(rows, d)
<1>1. ledger \in SUBSET Entry /\ IsFiniteSet(ledger) /\ \A a, b \in ledger : a.id = b.id => a = b
  BY DEF Inv, TypeOK, RowsKnown
<1>2. rows \in SUBSET ledger /\ day \in SUBSET rows
  BY DEF RowsOf, OfDay
<1>3. day # {} /\ IsFiniteSet(day) /\ day \in SUBSET Entry
  BY <1>1, <1>2, FS_Subset DEF Days, OfDay
<1>4. \E x \in day : \A y \in day : y = x \/ Newer(x, y)
  <2> HIDE DEF day, rows
  <2> QED
    BY <1>1, <1>2, <1>3, NewestExists
<1>5. PICK last \in day : last = (CHOOSE row \in day : \A r \in day : r = row \/ Newer(row, r))
                          /\ \A r \in day : r = last \/ Newer(last, r)
  BY <1>4
<1>6. last \in rows /\ DayOf(last) = d
  BY <1>2 DEF OfDay
<1>7. ASSUME NEW row \in rows PROVE row.at <= last.at <=> DayOf(row) <= d
  <2>1. row.at \in Int /\ last.at \in Int
    BY <1>1, <1>2, <1>6, Numbers
  <2>2. row.at <= last.at => DayOf(row) <= d
    BY <1>6, <2>1, DaysInOrder DEF DayOf
  <2>3. ASSUME last.at < row.at, DayOf(row) <= d PROVE FALSE
    <3>1. DayOf(last) <= DayOf(row)
      BY <2>1, <2>3, DaysInOrder DEF DayOf
    <3>2. DayOf(row) \in Int /\ DayOf(last) \in Int
      BY <2>1, StatementsAssumption DEF DayOf
    <3>3. DayOf(row) = d
      BY <1>6, <2>3, <3>1, <3>2
    <3>4. row \in day
      BY <3>3 DEF OfDay
    <3>5. row = last \/ Newer(last, row)
      BY <1>5, <3>4
    <3> QED
      BY <2>1, <2>3, <3>5 DEF Newer
  <2> QED
    BY <2>1, <2>2, <2>3
<1>8. UpTo(ledger, u, last.at) = {row \in rows : DayOf(row) <= d}
  BY <1>7 DEF UpTo
<1>9. last.new = Sum(Amount, UpTo(ledger, u, last.at))
  BY <1>6 DEF Steps
<1>10. UpTo(ledger, u, last.at) \in SUBSET Entry /\ IsFiniteSet(UpTo(ledger, u, last.at))
  BY <1>1, <1>2, FS_Subset DEF UpTo
<1>11. last.new = Total({row \in rows : DayOf(row) <= d})
  BY <1>8, <1>9, <1>10, TotalIsSum
<1> HIDE DEF day, rows
<1>12. Closing(day) = last.new
  BY <1>5 DEF Closing
<1> QED
  BY <1>11, <1>12 DEF day, rows

\* The newest row of all bears the balance.
LEMMA SerialHolds == Spec => [](Inv /\ BooksAdd /\ OneByOne)
<1>1. Init => Inv /\ BooksAdd /\ OneByOne
  BY InvInit, AddsInit, SerialInit
<1>2. Inv /\ BooksAdd /\ OneByOne /\ [Next]_vars => (Inv /\ BooksAdd /\ OneByOne)'
  <2>1. Inv /\ BooksAdd /\ [Next]_vars => Inv' /\ BooksAdd'
    BY InvNext, AddsNext
  <2>2. Inv => TypeOK
    BY DEF Inv
  <2>3. Inv' => TypeOK'
    BY DEF Inv
  <2>4. BooksAdd' => WalletsAdd'
    BY DEF BooksAdd
  <2> QED
    BY <2>1, <2>2, <2>3, <2>4, SerialNext
<1> QED
  BY <1>1, <1>2, PTL DEF Spec

(* The closing balance of each day is the balance up to it, for any users whose
   transactions do not overlap, any day length and any postings of others. *)
THEOREM DaysCloseOnTheBalance == Spec => []DaysClose
<1>1. Inv /\ OneByOne => DaysClose
  BY LastOfDay, SliceOfUser DEF OneByOne, DaysClose
<1> QED
  BY <1>1, SerialHolds, PTL
=============================================================================
