----------------------------- MODULE ServerProofs -----------------------------
(***************************************************************************)
(* Proofs about the server: the gateway and the payments of the agent, for *)
(* any requests, plans, policies, amounts and times; and the trees, for    *)
(* any credentials, revocations and depth.                                 *)
(***************************************************************************)
EXTENDS X402Client, CredentialTrees, FiniteSetTheorems, TLAPS

-----------------------------------------------------------------------------
(* Least elements.  A set of counterexamples has one of least size: the    *)
(* arguments about sums of any length below go by it.                      *)

LessThan == {e \in Nat \X Nat : e[1] < e[2]}

LEMMA LessThanWellFounded == IsWellFoundedOn(LessThan, Nat)
  <1>1. OpToRel(<, Nat) = LessThan
    BY DEF OpToRel, LessThan
  <1>2. QED
    BY <1>1, NatLessThanWellFounded

\* A set of naturals that is not empty has a least element.
LEMMA LeastNatural ==
  ASSUME NEW T \in SUBSET Nat, T # {}
  PROVE \E n \in T : \A m \in T : n <= m
  <1>1. PICK n \in T : \A m \in T : <<m, n>> \notin LessThan
    BY LessThanWellFounded, WFMin
  <1>2. ASSUME NEW m \in T PROVE n <= m
    <2>1. <<m, n>> \notin LessThan /\ m \in Nat /\ n \in Nat
      BY <1>1
    <2>2. QED
      BY <2>1 DEF LessThan
  <1>3. QED
    BY <1>2

-----------------------------------------------------------------------------
(* Sums.  IsSum is the function by which the community modules define      *)
(* MapThenSumSet, for weights given as a function.                         *)

Picked(s) == CHOOSE x \in s : TRUE

IsSum(w, S, f) == f = [s \in SUBSET S |-> IF s = {} THEN 0 ELSE w[Picked(s)] + f[s \ {Picked(s)}]]

Sum(w, S) == (CHOOSE f : IsSum(w, S, f))[S]

LEMMA PickedIn == ASSUME NEW s, s # {} PROVE Picked(s) \in s
  BY DEF Picked

\* The function is defined for a finite set.
LEMMA SumExists ==
  ASSUME NEW w, NEW S, IsFiniteSet(S)
  PROVE \E f : IsSum(w, S, f)
  <1> DEFINE Upto(n) == {s \in SUBSET S : Cardinality(s) <= n}
  <1> DEFINE Is(n, f) == f = [s \in Upto(n) |-> IF s = {} THEN 0 ELSE w[Picked(s)] + f[s \ {Picked(s)}]]
  <1> DEFINE Bad == {n \in Nat : ~\E f : Is(n, f)}
  <1>1. Bad = {}
    <2> SUFFICES ASSUME Bad # {} PROVE FALSE
      OBVIOUS
    <2>1. PICK n \in Bad : \A m \in Bad : n <= m
      BY LeastNatural
    <2>2. \A s \in SUBSET S : IsFiniteSet(s) /\ Cardinality(s) \in Nat
      BY FS_Subset, FS_CardinalityType
    <2>3. \A s \in SUBSET S : s # {} => s \ {Picked(s)} \in SUBSET S /\ Cardinality(s \ {Picked(s)}) = Cardinality(s) - 1
      BY <2>2, FS_RemoveElement, PickedIn
    <2>4. CASE n = 0
      <3>1. \A s \in Upto(0) : s = {}
        BY <2>2, FS_EmptySet
      <3>2. Is(0, [s \in Upto(0) |-> 0])
        BY <3>1
      <3>3. QED
        BY <3>2, <2>4
    <2>5. CASE n # 0
      <3>0. n \in Nat
        OBVIOUS
      <3>1. n - 1 \in Nat /\ n-1 \notin Bad
        <4> HIDE DEF Bad
        <4> QED BY <2>1, <2>5, <3>0
      <3>2. PICK f : Is(n-1, f)
        BY <3>1
      <3> DEFINE g == [s \in Upto(n) |-> IF s = {} THEN 0 ELSE w[Picked(s)] + f[s \ {Picked(s)}]]
      <3>3. \A s \in Upto(n) : s # {} => s \ {Picked(s)} \in Upto(n-1)
        BY <2>2, <2>3
      <3>3a. \A s \in Upto(n-1) : s \in Upto(n)
        BY <2>2, <2>1
      <3>4. \A s \in Upto(n-1) : g[s] = f[s]
        BY <3>2, <3>3a
      <3>5. Is(n, g)
        BY <3>3, <3>4
      <3>6. QED
        BY <3>5
    <2>6. QED
      BY <2>4, <2>5
  <1>2. Cardinality(S) \in Nat
    BY FS_CardinalityType
  <1>3. PICK f : Is(Cardinality(S), f)
    BY <1>1, <1>2
  <1>4. Upto(Cardinality(S)) = SUBSET S
    BY FS_Subset
  <1>5. IsSum(w, S, f)
    BY <1>3, <1>4 DEF IsSum
  <1>6. QED
    BY <1>5

\* A finite set is larger than it is without one of its elements.
LEMMA SetWithout ==
  ASSUME NEW S, IsFiniteSet(S), NEW x \in S
  PROVE  IsFiniteSet(S \ {x}) /\ Cardinality(S \ {x}) < Cardinality(S)
  <1>1. IsFiniteSet(S \ {x}) /\ Cardinality(S \ {x}) = Cardinality(S) - 1
    BY FS_RemoveElement
  <1>2. Cardinality(S) \in Nat
    BY FS_CardinalityType
  <1>3. QED
    BY <1>1, <1>2

LEMMA SubsetFacts ==
  ASSUME NEW S, IsFiniteSet(S), NEW s \in SUBSET S
  PROVE  /\ IsFiniteSet(s) /\ Cardinality(s) \in Nat
         /\ s # {} => /\ Picked(s) \in s
                      /\ s \ {Picked(s)} \in SUBSET S
                      /\ Cardinality(s \ {Picked(s)}) < Cardinality(s)
  BY FS_Subset, FS_CardinalityType, FS_RemoveElement, PickedIn

\* It is the only one.
LEMMA SumUnique ==
  ASSUME NEW w, NEW S, IsFiniteSet(S), NEW f, IsSum(w, S, f), NEW g, IsSum(w, S, g)
  PROVE  f = g
  <1> DEFINE Bad == {s \in SUBSET S : f[s] # g[s]}
  <1>1. Bad = {}
    <2> SUFFICES ASSUME Bad # {} PROVE FALSE
      OBVIOUS
    <2> DEFINE Sizes == {Cardinality(s) : s \in Bad}
    <2>0. \A s \in SUBSET S : Cardinality(s) \in Nat
      BY SubsetFacts
    <2>1. Sizes \in SUBSET Nat /\ Sizes # {}
      BY <2>0
    <2>2. PICK n \in Sizes : \A m \in Sizes : n <= m
      <3> HIDE DEF Sizes
      <3> QED BY <2>1, LeastNatural
    <2>3. PICK s \in Bad : n = Cardinality(s)
      OBVIOUS
    <2>4. s \in SUBSET S /\ f[s] # g[s]
      OBVIOUS
    <2>5. s # {}
      BY <2>4 DEF IsSum
    <2>6. s \ {Picked(s)} \in SUBSET S /\ Cardinality(s \ {Picked(s)}) < n /\ n \in Nat /\ Cardinality(s \ {Picked(s)}) \in Nat
      <3> HIDE DEF Bad, Sizes
      <3>1. n = Cardinality(s)
        BY <2>3
      <3>2. /\ IsFiniteSet(s) /\ Cardinality(s) \in Nat /\ s \ {Picked(s)} \in SUBSET S
            /\ Cardinality(s \ {Picked(s)}) < Cardinality(s)
        BY <2>4, <2>5, SubsetFacts
      <3>3. Cardinality(s \ {Picked(s)}) \in Nat
        BY <2>0, <3>2
      <3>4. QED
        BY <3>1, <3>2, <3>3
    <2>7. f[s \ {Picked(s)}] = g[s \ {Picked(s)}]
      <3>1. Cardinality(s \ {Picked(s)}) \notin Sizes
        <4> HIDE DEF Sizes
        <4> QED BY <2>2, <2>6
      <3>2. QED
        BY <2>6, <3>1
    <2>8. QED
      BY <2>4, <2>5, <2>7 DEF IsSum
  <1>2. QED
    BY <1>1 DEF IsSum

\* One function sums all the subsets.
LEMMA SumIs ==
  ASSUME NEW w, NEW S, IsFiniteSet(S)
  PROVE  \E f : IsSum(w, S, f) /\ \A s \in SUBSET S : Sum(w, s) = f[s]
  <1>1. PICK f : IsSum(w, S, f)
    BY SumExists
  <1>2. ASSUME NEW s \in SUBSET S PROVE Sum(w, s) = f[s]
    <2> DEFINE g == [t \in SUBSET s |-> f[t]]
    <2>1. IsSum(w, s, g)
      BY <1>1 DEF IsSum
    <2>2. \E h : IsSum(w, s, h)
      BY <2>1
    <2>3. IsSum(w, s, CHOOSE h : IsSum(w, s, h))
      BY <2>2
    <2>4. (CHOOSE h : IsSum(w, s, h)) = g
      BY <2>1, <2>3, SubsetFacts, SumUnique
    <2>5. QED
      BY <2>4 DEF Sum
  <1>3. QED
    BY <1>1, <1>2

\* The sum of a set in terms of the sum without the element picked first.
LEMMA SumStep ==
  ASSUME NEW w, NEW S, IsFiniteSet(S)
  PROVE  Sum(w, S) = IF S = {} THEN 0 ELSE w[Picked(S)] + Sum(w, S \ {Picked(S)})
  <1>1. PICK f : IsSum(w, S, f) /\ \A s \in SUBSET S : Sum(w, s) = f[s]
    BY SumIs
  <1>2. S \in SUBSET S /\ S \ {Picked(S)} \in SUBSET S
    OBVIOUS
  <1>3. QED
    BY <1>1, <1>2 DEF IsSum

\* Of the finite sets that are bad there is one such that no smaller set is.
LEMMA SmallestSet ==
  ASSUME NEW D, NEW Bad \in SUBSET {S \in SUBSET D : IsFiniteSet(S)}, Bad # {}
  PROVE  \E S \in Bad : \A T \in SUBSET D : IsFiniteSet(T) /\ Cardinality(T) < Cardinality(S) => T \notin Bad
  <1> DEFINE Sizes == {Cardinality(S) : S \in Bad}
  <1>1. Sizes \in SUBSET Nat /\ Sizes # {}
    BY FS_CardinalityType
  <1>2. PICK n \in Sizes : \A m \in Sizes : n <= m
    <2> HIDE DEF Sizes
    <2> QED BY <1>1, LeastNatural
  <1>3. PICK S \in Bad : n = Cardinality(S)
    OBVIOUS
  <1>4. ASSUME NEW T \in SUBSET D, IsFiniteSet(T), Cardinality(T) < n, T \in Bad PROVE FALSE
    <2>1. Cardinality(T) \in Sizes
      BY <1>4
    <2> HIDE DEF Sizes
    <2>2. n <= Cardinality(T) /\ n \in Nat /\ Cardinality(T) \in Nat
      BY <1>1, <1>2, <2>1
    <2>3. QED
      BY <1>4, <2>2
  <1>5. QED
    BY <1>3, <1>4

\* A sum of naturals is a natural.
LEMMA SumNat ==
  ASSUME NEW D, NEW w \in [D -> Nat], NEW S \in SUBSET D, IsFiniteSet(S)
  PROVE  Sum(w, S) \in Nat
  <1> DEFINE Bad == {s \in SUBSET D : IsFiniteSet(s) /\ Sum(w, s) \notin Nat}
  <1>1. Bad = {}
    <2> SUFFICES ASSUME Bad # {} PROVE FALSE
      OBVIOUS
    <2>1. PICK s \in Bad : \A T \in SUBSET D : IsFiniteSet(T) /\ Cardinality(T) < Cardinality(s) => T \notin Bad
      <3>1. Bad \in SUBSET {T \in SUBSET D : IsFiniteSet(T)}
        OBVIOUS
      <3> HIDE DEF Bad
      <3> QED BY <3>1, SmallestSet
    <2>2. s \in SUBSET D /\ IsFiniteSet(s) /\ Sum(w, s) \notin Nat
      OBVIOUS
    <2> HIDE DEF Bad
    <2>3. s # {} /\ Sum(w, s) = w[Picked(s)] + Sum(w, s \ {Picked(s)})
      BY <2>2, SumStep
    <2>4. Picked(s) \in D /\ s \ {Picked(s)} \in SUBSET D /\ IsFiniteSet(s \ {Picked(s)}) /\ Cardinality(s \ {Picked(s)}) < Cardinality(s)
      BY <2>2, <2>3, SubsetFacts
    <2>5. Sum(w, s \ {Picked(s)}) \in Nat
      BY <2>1, <2>4 DEF Bad
    <2>6. QED
      BY <2>2, <2>3, <2>4, <2>5
  <1>2. QED
    BY <1>1

\* The order of summation does not matter: any element may come first.
LEMMA SumRemove ==
  ASSUME NEW D, NEW w \in [D -> Nat], NEW S \in SUBSET D, IsFiniteSet(S), NEW x \in S
  PROVE  Sum(w, S) = w[x] + Sum(w, S \ {x})
  <1> DEFINE Bad == {s \in SUBSET D : IsFiniteSet(s) /\ \E y \in s : Sum(w, s) # w[y] + Sum(w, s \ {y})}
  <1>1. Bad = {}
    <2> SUFFICES ASSUME Bad # {} PROVE FALSE
      OBVIOUS
    <2>1. PICK s \in Bad : \A T \in SUBSET D : IsFiniteSet(T) /\ Cardinality(T) < Cardinality(s) => T \notin Bad
      <3>1. Bad \in SUBSET {T \in SUBSET D : IsFiniteSet(T)}
        OBVIOUS
      <3> HIDE DEF Bad
      <3> QED BY <3>1, SmallestSet
    <2>2. PICK y \in s : Sum(w, s) # w[y] + Sum(w, s \ {y})
      OBVIOUS
    <2>3. s \in SUBSET D /\ IsFiniteSet(s)
      OBVIOUS
    <2> HIDE DEF Bad
    <2> DEFINE c == Picked(s)
    <2>4. c \in s /\ Sum(w, s) = w[c] + Sum(w, s \ {c})
      BY <2>3, SumStep, PickedIn
    <2>5. c # y
      BY <2>2, <2>4
    <2> HIDE DEF c
    <2>6. \A z \in s : s \ {z} \in SUBSET D /\ IsFiniteSet(s \ {z}) /\ Cardinality(s \ {z}) < Cardinality(s)
      BY <2>3, SetWithout
    <2>7. \A z \in s : s \ {z} \notin Bad
      BY <2>1, <2>6
    <2>8. /\ Sum(w, s \ {c}) = w[y] + Sum(w, (s \ {c}) \ {y})
          /\ Sum(w, s \ {y}) = w[c] + Sum(w, (s \ {y}) \ {c})
      BY <2>4, <2>5, <2>6, <2>7 DEF Bad
    <2>9. Sum(w, (s \ {c}) \ {y}) = Sum(w, (s \ {y}) \ {c})
      <3>1. (s \ {c}) \ {y} = (s \ {y}) \ {c}
        OBVIOUS
      <3>2. QED
        BY <3>1
    <2>10. Sum(w, (s \ {y}) \ {c}) \in Nat /\ w[c] \in Nat /\ w[y] \in Nat
      <3>1. (s \ {y}) \ {c} \in SUBSET D /\ IsFiniteSet((s \ {y}) \ {c})
        BY <2>3, FS_RemoveElement
      <3>2. QED
        BY <2>3, <2>4, <3>1, SumNat
    <2>11. QED
      BY <2>2, <2>4, <2>8, <2>9, <2>10
  <1>2. QED
    BY <1>1

\* A smaller set has no larger sum.
LEMMA SumMonotone ==
  ASSUME NEW D, NEW w \in [D -> Nat], NEW S \in SUBSET D, IsFiniteSet(S), NEW T \in SUBSET S
  PROVE  Sum(w, T) <= Sum(w, S)
  <1> DEFINE Bad == {s \in SUBSET D : IsFiniteSet(s) /\ \E t \in SUBSET s : ~(Sum(w, t) <= Sum(w, s))}
  <1>1. Bad = {}
    <2> SUFFICES ASSUME Bad # {} PROVE FALSE
      OBVIOUS
    <2>1. PICK s \in Bad : \A U \in SUBSET D : IsFiniteSet(U) /\ Cardinality(U) < Cardinality(s) => U \notin Bad
      <3>1. Bad \in SUBSET {U \in SUBSET D : IsFiniteSet(U)}
        OBVIOUS
      <3> HIDE DEF Bad
      <3> QED BY <3>1, SmallestSet
    <2>2. PICK t \in SUBSET s : ~(Sum(w, t) <= Sum(w, s))
      OBVIOUS
    <2>3. s \in SUBSET D /\ IsFiniteSet(s) /\ t \in SUBSET D /\ IsFiniteSet(t)
      BY FS_Subset
    <2> HIDE DEF Bad
    <2>4. Sum(w, s) \in Nat /\ Sum(w, t) \in Nat
      BY <2>3, SumNat
    <2>5. PICK x \in s : x \notin t
      <3>1. t # s
        BY <2>2, <2>4
      <3>2. QED
        BY <3>1
    <2>6. s \ {x} \in SUBSET D /\ IsFiniteSet(s \ {x}) /\ Cardinality(s \ {x}) < Cardinality(s) /\ t \in SUBSET (s \ {x})
      BY <2>3, <2>5, SetWithout
    <2>7. Sum(w, t) <= Sum(w, s \ {x})
      BY <2>1, <2>6 DEF Bad
    <2>8. Sum(w, s) = w[x] + Sum(w, s \ {x}) /\ w[x] \in Nat /\ Sum(w, s \ {x}) \in Nat
      BY <2>3, <2>6, SumRemove, SumNat
    <2>9. QED
      BY <2>2, <2>4, <2>7, <2>8
  <1>2. QED
    BY <1>1

-----------------------------------------------------------------------------
(* Times, totals and what was seen.                                        *)

LEMMA DayStartFacts ==
  ASSUME NEW t \in Nat, NEW u \in Nat, t <= u
  PROVE  DayStart(t) \in Nat /\ DayStart(t) <= t /\ DayStart(t) <= DayStart(u)
  <1>1. DayLength \in Nat \ {0}
    BY GatewayAssumption
  <1>2. t % DayLength \in 0 .. t /\ t - (t % DayLength) <= u - (u % DayLength)
    BY <1>1
  <1>3. QED
    BY <1>2 DEF DayStart

Values == [r \in Requests |-> ValueOf[IntentOf[r]]]

LEMMA ValuesTyped ==
  /\ Values \in [Requests -> Nat]
  /\ \A r \in Requests : Value(r) = Values[r] /\ Value(r) \in Nat
  BY GatewayAssumption DEF Values, Value

\* The total of the code's table is the sum of the theory.
LEMMA TotalIsSum ==
  ASSUME NEW counted \in SUBSET Requests, IsFiniteSet(counted)
  PROVE  Total(counted) = Sum(Values, counted)
  <1> DEFINE Is(f) == f = [s \in SUBSET counted |-> IF s = {} THEN 0 ELSE Value(Picked(s)) + f[s \ {Picked(s)}]]
  <1>1. \A f : IsSum(Values, counted, f) <=> Is(f)
    <2>1. \A s \in SUBSET counted : s # {} => Values[Picked(s)] = Value(Picked(s))
      BY PickedIn, ValuesTyped
    <2>2. QED
      BY <2>1 DEF IsSum
  <1>2. PICK f : IsSum(Values, counted, f)
    BY SumExists
  <1>3. Is(CHOOSE g : Is(g))
    BY <1>1, <1>2
  <1>4. (CHOOSE g : Is(g)) = f
    BY <1>1, <1>2, <1>3, SumUnique
  <1>5. IsSum(Values, counted, CHOOSE g : IsSum(Values, counted, g))
    BY <1>2
  <1>6. (CHOOSE g : IsSum(Values, counted, g)) = f
    BY <1>2, <1>5, SumUnique
  <1>7. Total(counted) = (CHOOSE g : Is(g))[counted]
    BY Zenon DEF Total, MapThenSumSet, MapThenFoldSet, Picked
  <1>8. QED
    BY <1>4, <1>6, <1>7 DEF Sum

LEMMA TotalFacts ==
  ASSUME NEW counted \in SUBSET Requests, IsFiniteSet(counted)
  PROVE  /\ Total(counted) \in Nat
         /\ counted = {} => Total(counted) = 0
         /\ \A r \in counted : Total(counted) = Value(r) + Total(counted \ {r})
         /\ \A fewer \in SUBSET counted : Total(fewer) <= Total(counted)
  <1>1. \A fewer \in SUBSET counted : fewer \in SUBSET Requests /\ IsFiniteSet(fewer)
    BY FS_Subset
  <1>2. \A fewer \in SUBSET counted : Total(fewer) = Sum(Values, fewer)
    BY <1>1, TotalIsSum
  <1>3. Sum(Values, counted) \in Nat /\ (counted = {} => Sum(Values, counted) = 0)
    BY ValuesTyped, SumNat, SumStep
  <1>4. \A r \in counted : Sum(Values, counted) = Value(r) + Sum(Values, counted \ {r})
    BY ValuesTyped, SumRemove
  <1>5. \A fewer \in SUBSET counted : Sum(Values, fewer) <= Sum(Values, counted)
    BY ValuesTyped, SumMonotone
  <1>6. QED
    BY <1>2, <1>3, <1>4, <1>5

\* When what was seen is ordered by inclusion, and of any two rows one saw the
\* other, one of them saw all the others.
LEMMA SomeoneSawAll ==
  ASSUME NEW counted, IsFiniteSet(counted), counted # {}, NEW seen,
         \A r \in counted : r \notin seen[r],
         \A r, q \in counted : seen[r] \subseteq seen[q] \/ seen[q] \subseteq seen[r],
         \A r, q \in counted : r # q => r \in seen[q] \/ q \in seen[r]
  PROVE  \E r \in counted : counted \ {r} \subseteq seen[r]
  <1> DEFINE Missed(r) == counted \ seen[r]
             Bad == {Missed(r) : r \in counted}
  <1>1. Bad \in SUBSET {S \in SUBSET counted : IsFiniteSet(S)} /\ Bad # {}
    <2>1. \A r \in counted : Missed(r) \in SUBSET counted
      OBVIOUS
    <2>2. \A r \in counted : IsFiniteSet(Missed(r))
      BY <2>1, FS_Subset
    <2> HIDE DEF Missed
    <2>3. QED
      BY <2>1, <2>2
  <1>2. PICK S \in Bad : \A T \in SUBSET counted : IsFiniteSet(T) /\ Cardinality(T) < Cardinality(S) => T \notin Bad
    <2> HIDE DEF Bad
    <2> QED BY <1>1, SmallestSet
  <1>3. PICK r \in counted : S = Missed(r)
    OBVIOUS
  <1>4. ASSUME NEW q \in counted \ {r}, q \notin seen[r] PROVE FALSE
    <2>1. r \in seen[q] /\ seen[r] \subseteq seen[q]
      BY <1>4
    <2>2. Missed(q) \subseteq Missed(r) /\ r \in Missed(r) /\ r \notin Missed(q)
      BY <2>1
    <2>3. IsFiniteSet(Missed(q)) /\ IsFiniteSet(Missed(r))
      BY FS_Subset
    <2>4. Missed(q) \in Bad
      OBVIOUS
    <2> HIDE DEF Missed
    <2>5. Cardinality(Missed(q)) < Cardinality(Missed(r))
      BY <2>2, <2>3, FS_Subset, FS_CardinalityType
    <2>6. QED
      BY <1>2, <1>3, <2>3, <2>4, <2>5 DEF Missed
  <1>5. QED
    BY <1>4

-----------------------------------------------------------------------------
(* The gateway: types, plans and logged requests.                          *)

LEMMA LifecycleFacts ==
  /\ DOMAIN Lifecycle = {"APPROVAL_REQUIRED", "APPROVED", "EXECUTING", "FAILED", "COMPLETED", "REJECTED", "none"}
  /\ Lifecycle["COMPLETED"] = {} /\ Lifecycle["REJECTED"] = {}
  BY DEF Lifecycle

\* A move changes the status of one plan, not from a final one.
LEMMA MoveFacts ==
  ASSUME NEW table \in [Plans -> PlanRow], NEW p \in Plans, NEW status \in DOMAIN Lifecycle
  PROVE  /\ Move(table, p, status) \in [Plans -> PlanRow]
         /\ \A q \in Plans : table[q].status \in {"COMPLETED", "REJECTED"} => Move(table, p, status)[q] = table[q]
         /\ \A q \in Plans : Move(table, p, status)[q].status = "COMPLETED" =>
              table[q].status = "COMPLETED" \/ (q = p /\ status = "COMPLETED")
  <1> DEFINE to == IF status \in Lifecycle[table[p].status] THEN status ELSE table[p].status
  <1>1. Move(table, p, status) = [table EXCEPT ![p] = [@ EXCEPT !.status = to]]
    BY DEF Move
  <1>2. to \in DOMAIN Lifecycle
    BY DEF PlanRow
  <1>3. table[p].status \in {"COMPLETED", "REJECTED"} => to = table[p].status
    BY LifecycleFacts
  <1>4. to = "COMPLETED" => table[p].status = "COMPLETED" \/ status = "COMPLETED"
    OBVIOUS
  <1> HIDE DEF to
  <1>5. [table[p] EXCEPT !.status = to] \in PlanRow /\ [table[p] EXCEPT !.status = to].status = to
    BY <1>2 DEF PlanRow
  <1>6. \A q \in Plans : Move(table, p, status)[q] = IF q = p THEN [table[p] EXCEPT !.status = to] ELSE table[q]
    BY <1>1
  <1>7. to = table[p].status => [table[p] EXCEPT !.status = to] = table[p]
    BY DEF PlanRow
  <1>8. Move(table, p, status) \in [Plans -> PlanRow]
    BY <1>1, <1>5
  <1>9. QED
    BY <1>3, <1>4, <1>5, <1>6, <1>7, <1>8

\* The rows the actions write.
Moved(row, phase) == [row EXCEPT !.phase = phase]
RequestEnded(row, success) == [row EXCEPT !.phase = "done", !.success = success]
Planned(row, p) == [row EXCEPT !.phase = "compiled", !.plan = p]
Checked(row, saw) == [row EXCEPT !.phase = "compiling", !.seen = saw]
Cached(row, p, saw) == [row EXCEPT !.phase = "compiled", !.plan = p, !.seen = saw]

LEMMA MovedFacts ==
  ASSUME NEW row \in RequestRow, NEW phase \in Phases
  PROVE  LET new == Moved(row, phase) IN
         /\ new \in RequestRow
         /\ new.phase = phase /\ new.plan = row.plan /\ new.seen = row.seen /\ new.success = row.success
  BY DEF Moved, RequestRow

LEMMA RequestEndedFacts ==
  ASSUME NEW row \in RequestRow, NEW success \in BOOLEAN
  PROVE  LET new == RequestEnded(row, success) IN
         /\ new \in RequestRow
         /\ new.phase = "done" /\ new.plan = row.plan /\ new.seen = row.seen /\ new.success = success
  <1> DEFINE new == RequestEnded(row, success)
  <1>1. new \in RequestRow /\ new.phase = "done" /\ new.plan = row.plan /\ new.seen = row.seen
    BY DEF RequestEnded, RequestRow, Phases
  <1>2. new.success = success
    BY Zenon DEF RequestEnded, RequestRow
  <1>3. QED
    BY <1>1, <1>2

LEMMA PlannedFacts ==
  ASSUME NEW row \in RequestRow, NEW p \in Plans
  PROVE  LET new == Planned(row, p) IN
         new \in RequestRow /\ new.phase = "compiled" /\ new.plan = p /\ new.seen = row.seen
  BY DEF Planned, RequestRow, Phases

LEMMA CheckedFacts ==
  ASSUME NEW row \in RequestRow, NEW saw \in SUBSET Requests
  PROVE  LET new == Checked(row, saw) IN
         new \in RequestRow /\ new.phase = "compiling" /\ new.seen = saw
  BY DEF Checked, RequestRow, Phases

LEMMA CachedFacts ==
  ASSUME NEW row \in RequestRow, NEW p \in Plans, NEW saw \in SUBSET Requests
  PROVE  LET new == Cached(row, p, saw) IN
         new \in RequestRow /\ new.phase = "compiled" /\ new.plan = p /\ new.seen = saw
  BY DEF Cached, RequestRow, Phases

\* Where a request goes when it ends.
LEMMA EndFacts ==
  ASSUME requests \in [Requests -> RequestRow], NEW r \in Requests, NEW success \in BOOLEAN, End(r, success)
  PROVE  /\ requests' \in [Requests -> RequestRow]
         /\ requests'[r].phase = "done" /\ requests'[r].success = success
         /\ requests'[r].plan = requests[r].plan /\ requests'[r].seen = requests[r].seen
         /\ \A q \in Requests \ {r} : requests'[q] = requests[q]
  <1>1. requests' = [requests EXCEPT ![r] = RequestEnded(requests[r], success)]
    BY DEF End, RequestEnded
  <1>2. QED
    BY <1>1, RequestEndedFacts

\* What Begin does, by cases.
LEMMA BeginFacts ==
  ASSUME GatewayTypeOK, NEW r \in Requests, Begin(r)
  PROVE  /\ GatewayTypeOK'
         /\ \A q \in Requests \ {r} : requests'[q] = requests[q]
         /\ \/ requests'[r].phase = "done" /\ requests'[r].seen = requests[r].seen
            \/ /\ CheckPolicy(r)
               /\ requests'[r].phase \in {"compiled", "compiling"}
               /\ requests'[r].phase = "compiled" => requests'[r].plan \in Plans
               /\ requests'[r].seen = Logged
  <1> USE DEF GatewayTypeOK
  <1>1. Logged \in SUBSET Requests /\ requests \in [Requests -> RequestRow] /\ IntentOf[r] \in Intents
    BY GatewayAssumption DEF Logged
  <1>2. CASE ~CheckPolicy(r)
    <2>1. End(r, FALSE) /\ cache' = cache
      BY <1>2 DEF Begin
    <2>2. QED
      BY <1>1, <2>1, EndFacts DEF Begin
  <1>3. CASE CheckPolicy(r) /\ Fresh(IntentOf[r])
    <2>1. PICK p \in Plans : p = cache[IntentOf[r]].plan
      BY <1>1, <1>3 DEF Fresh
    <2>2. requests' = [requests EXCEPT ![r] = Cached(requests[r], p, Logged)] /\ cache' = cache
      <3>1. requests' = [requests EXCEPT ![r].phase = "compiled", ![r].plan = cache[IntentOf[r]].plan, ![r].seen = Logged]
        BY <1>3 DEF Begin
      <3>2. cache' = cache
        BY <1>3 DEF Begin
      <3>3. QED
        BY <2>1, <3>1, <3>2 DEF Cached
    <2>3. UNCHANGED <<now, policy, plans, chain, actions>>
      BY DEF Begin
    <2>4. Cached(requests[r], p, Logged) \in RequestRow
      BY <1>1, CachedFacts
    <2>5. requests' \in [Requests -> RequestRow]
      BY <2>2, <2>4
    <2>6. QED
      BY <1>1, <1>3, <2>2, <2>3, <2>5, CachedFacts
  <1>4. CASE CheckPolicy(r) /\ ~Fresh(IntentOf[r])
    <2>1. requests' = [requests EXCEPT ![r] = Checked(requests[r], Logged)]
      BY <1>4 DEF Begin, Checked
    <2>2. cache' = [cache EXCEPT ![IntentOf[r]] = [plan |-> None, at |-> 0]]
      BY <1>4 DEF Begin
    <2>3. QED
      BY <1>1, <1>4, <2>1, <2>2, CheckedFacts DEF Begin
  <1>5. QED
    BY <1>2, <1>3, <1>4

LEMMA CompileFacts ==
  ASSUME GatewayTypeOK, NEW r \in Requests, NEW p \in Plans, NEW approval \in BOOLEAN, Compile(r, p, approval)
  PROVE  /\ GatewayTypeOK'
         /\ requests'[r].phase = "compiled" /\ requests'[r].plan = p /\ requests'[r].seen = requests[r].seen
         /\ \A q \in Requests \ {r} : requests'[q] = requests[q]
         /\ plans'[p].status # "COMPLETED"
         /\ \A q \in Plans : q # p \/ plans[q].status \in {"COMPLETED", "REJECTED"} => plans'[q] = plans[q]
  <1> USE DEF GatewayTypeOK
  <1> DEFINE status == IF approval THEN "APPROVAL_REQUIRED" ELSE "APPROVED"
  <1>1. status \in DOMAIN Lifecycle /\ status # "COMPLETED"
    BY LifecycleFacts
  <1>2. /\ plans[p].status = "none"
        /\ plans' = [plans EXCEPT ![p] = [status |-> status, approval |-> approval]]
        /\ cache' = [cache EXCEPT ![IntentOf[r]] = [plan |-> p, at |-> now]]
        /\ requests' = [requests EXCEPT ![r].phase = "compiled", ![r].plan = p]
        /\ UNCHANGED <<now, policy, chain, actions>>
    BY DEF Compile
  <1> HIDE DEF status
  <1>3. plans' \in [Plans -> PlanRow] /\ IntentOf[r] \in Intents
    BY <1>1, <1>2, GatewayAssumption DEF PlanRow
  <1>4. requests' = [requests EXCEPT ![r] = Planned(requests[r], p)]
    BY <1>2 DEF Planned
  <1>5. requests' \in [Requests -> RequestRow]
    BY <1>4, PlannedFacts
  <1>6. GatewayTypeOK'
    BY <1>2, <1>3, <1>5
  <1>7. QED
    BY <1>1, <1>2, <1>4, <1>6, PlannedFacts

Active == {"compiling", "compiled", "sending", "waiting"}

\* What a step that logs nothing and begins no request leaves of what was seen.
LEMMA SeenKept ==
  ASSUME SeenInv, UNCHANGED <<now, actions>>,
         \A r \in Requests : requests'[r].seen = requests[r].seen,
         \A r \in Requests : requests'[r].phase \in Active => requests[r].phase \in Active
  PROVE  SeenInv'
  <1>1. Logged' = Logged
    BY DEF Logged
  <1>2. ASSUME NEW r \in Requests, RoomAt(r, now) PROVE RoomAt(r, now)'
    BY <1>2 DEF RoomAt
  <1>3. ASSUME NEW r \in Requests, RoomAt(r, actions[r]) PROVE RoomAt(r, actions[r])'
    BY <1>3 DEF RoomAt
  <1>4. QED
    BY <1>1, <1>2, <1>3 DEF SeenInv, Active, Logged

LEMMA CompletedKept ==
  ASSUME CompletedWasMined, actions' = actions,
         \A p \in Plans : plans'[p].status = "COMPLETED" => plans[p].status = "COMPLETED",
         \A r \in Requests : chain[r] = "mined" => chain'[r] = "mined" /\ requests'[r].plan = requests[r].plan
  PROVE  CompletedWasMined'
  BY DEF CompletedWasMined, Logged

\* A request that was checked had room beside every row there was.
LEMMA BeginSeen ==
  ASSUME GatewayInv, NEW r \in Requests, Begin(r)
  PROVE  SeenInv'
  <1>1. /\ UNCHANGED <<now, actions>> /\ requests[r].phase = "new"
        /\ \A q \in Requests \ {r} : requests'[q] = requests[q]
    BY BeginFacts DEF GatewayInv, Begin
  <1>2. CASE requests'[r].phase = "done" /\ requests'[r].seen = requests[r].seen
    BY <1>1, <1>2, SeenKept DEF GatewayInv, Active
  <1>3. CASE CheckPolicy(r) /\ requests'[r].seen = Logged
    <2>1. Logged' = Logged /\ r \notin Logged
      BY <1>1 DEF Logged, GatewayInv, RequestInv
    <2>2. policy \in Policies /\ Total(CountedToday(now)) + Value(r) <= policy.dailyLimit
      BY <1>3 DEF CheckPolicy, GatewayInv, GatewayTypeOK
    <2>3. RoomAt(r, now)'
      <3>1. CountedToday(now) = {q \in requests'[r].seen : actions'[q] > DayStart(now')}
        BY <1>1, <1>3 DEF CountedToday
      <3>2. QED
        BY <2>2, <3>1 DEF RoomAt
    <2>4. ASSUME NEW q \in Requests \ {r}, RoomAt(q, now) PROVE RoomAt(q, now)'
      BY <1>1, <2>4 DEF RoomAt
    <2>5. ASSUME NEW q \in Logged, RoomAt(q, actions[q]) PROVE RoomAt(q, actions[q])'
      <3>1. q \in Requests \ {r}
        BY <2>1 DEF Logged
      <3>2. QED
        BY <1>1, <2>5, <3>1 DEF RoomAt
    <2>6. \A q \in Requests : requests'[q].seen \subseteq Logged \ {q}
      BY <1>1, <1>3, <2>1 DEF GatewayInv, SeenInv
    <2>7. \A q, x \in Requests :
            requests'[q].seen \subseteq requests'[x].seen \/ requests'[x].seen \subseteq requests'[q].seen
      BY <1>1, <1>3, <2>6 DEF GatewayInv, SeenInv
    <2>8. \A q \in Requests : requests'[q].phase \in Active => RoomAt(q, now)'
      BY <1>1, <2>3, <2>4 DEF GatewayInv, SeenInv, Active
    <2>9. \A q \in Logged : actions'[q] <= now' /\ RoomAt(q, actions[q])'
      BY <1>1, <2>5 DEF GatewayInv, SeenInv
    <2>10. QED
      BY <2>1, <2>6, <2>7, <2>8, <2>9 DEF GatewayInv, SeenInv, Active
  <1>4. QED
    BY <1>2, <1>3, BeginFacts DEF GatewayInv

\* A new row takes nothing from the room beside the rows seen before it.
LEMMA SucceedSeen ==
  ASSUME GatewayInv, NEW r \in Requests, Succeed(r)
  PROVE  SeenInv'
  <1>1. /\ now' = now /\ now \in Nat /\ actions' = [actions EXCEPT ![r] = now] /\ requests[r].phase = "waiting"
        /\ actions \in [Requests -> Nat \union {None}]
    BY DEF Succeed, GatewayInv, GatewayTypeOK
  <1>2. requests'[r].phase = "done" /\ \A q \in Requests : requests'[q].seen = requests[q].seen
    BY EndFacts DEF Succeed, GatewayInv, GatewayTypeOK
  <1>3. \A q \in Requests \ {r} : requests'[q] = requests[q]
    BY EndFacts DEF Succeed, GatewayInv, GatewayTypeOK
  <1>4. r \notin Logged /\ Logged' = Logged \union {r}
    <2>1. None # now
      BY <1>1, GatewayAssumption
    <2>2. QED
      BY <1>1, <2>1 DEF Logged, GatewayInv, RequestInv
  <1>5. \A q \in Requests : \A x \in requests[q].seen : actions'[x] = actions[x]
    BY <1>1, <1>4 DEF GatewayInv, SeenInv
  <1>6. ASSUME NEW q \in Requests, RoomAt(q, now) PROVE RoomAt(q, now)'
    BY <1>1, <1>2, <1>5, <1>6 DEF RoomAt
  <1>7. ASSUME NEW q \in Logged, RoomAt(q, actions[q]) PROVE RoomAt(q, actions[q])'
    <2>1. q \in Requests /\ actions'[q] = actions[q]
      BY <1>1, <1>4 DEF Logged
    <2>2. QED
      BY <1>2, <1>5, <1>7, <2>1 DEF RoomAt
  <1>8. RoomAt(r, actions[r])'
    <2>1. RoomAt(r, now) /\ actions'[r] = now
      BY <1>1 DEF GatewayInv, SeenInv
    <2>2. QED
      BY <1>2, <1>5, <2>1 DEF RoomAt
  <1>9. IsFiniteSet(Logged')
    BY <1>4, FS_AddElement DEF GatewayInv, SeenInv
  <1>10. \A q \in Logged' : actions'[q] <= now' /\ RoomAt(q, actions[q])'
    <2>1. \A q \in Logged : q \in Requests /\ actions'[q] = actions[q] /\ actions[q] <= now /\ RoomAt(q, actions[q])'
      BY <1>1, <1>4, <1>7 DEF GatewayInv, SeenInv, Logged
    <2>2. QED
      BY <1>1, <1>4, <1>8, <2>1
  <1>11. \A q \in Requests : requests'[q].phase \in Active => RoomAt(q, now)'
    BY <1>2, <1>3, <1>6 DEF GatewayInv, SeenInv, Active
  <1>12. QED
    BY <1>2, <1>4, <1>9, <1>10, <1>11 DEF GatewayInv, SeenInv, Active

\* As days begin, fewer of the rows that were seen count.
LEMMA PassSeen ==
  ASSUME GatewayInv, Pass
  PROVE  SeenInv'
  <1>1. now \in Nat /\ now' = now + 1 /\ UNCHANGED <<requests, actions>> /\ Logged' = Logged
    BY DEF Pass, GatewayInv, GatewayTypeOK, Logged
  <1>2. DayStart(now) \in Nat /\ DayStart(now') \in Nat /\ DayStart(now) <= DayStart(now')
    BY <1>1, DayStartFacts
  <1>3. ASSUME NEW q \in Requests, RoomAt(q, now) PROVE RoomAt(q, now)'
    <2> DEFINE before == {x \in requests[q].seen : actions[x] > DayStart(now)}
               after == {x \in requests[q].seen : actions[x] > DayStart(now')}
    <2>1. requests[q].seen \subseteq Logged /\ IsFiniteSet(Logged)
      BY DEF GatewayInv, SeenInv
    <2>2. \A x \in Logged : actions[x] \in Nat
      BY DEF Logged, GatewayInv, GatewayTypeOK
    <2>3. after \subseteq before
      BY <1>2, <2>1, <2>2
    <2>4. before \in SUBSET Requests /\ IsFiniteSet(before)
      BY <2>1, FS_Subset DEF Logged
    <2>5. after \in SUBSET Requests /\ IsFiniteSet(after)
      BY <2>3, <2>4, FS_Subset
    <2>6. PICK p \in Policies : Total(before) + Value(q) <= p.dailyLimit
      BY <1>3 DEF RoomAt
    <2> HIDE DEF before, after
    <2>7. Total(after) <= Total(before) /\ Total(after) \in Nat /\ Total(before) \in Nat
      BY <2>3, <2>4, <2>5, TotalFacts
    <2>8. Value(q) \in Nat /\ p.dailyLimit \in Nat
      BY ValuesTyped, GatewayAssumption
    <2>9. Total(after) + Value(q) <= p.dailyLimit
      BY <2>6, <2>7, <2>8
    <2>10. QED
      BY <1>1, <2>9 DEF RoomAt, after
  <1>4. ASSUME NEW q \in Requests, RoomAt(q, actions[q]) PROVE RoomAt(q, actions[q])'
    BY <1>1, <1>4 DEF RoomAt
  <1>5. \A q \in Logged : actions[q] \in Nat /\ q \in Requests
    BY DEF Logged, GatewayInv, GatewayTypeOK
  <1>6. \A q \in Logged : actions'[q] <= now' /\ RoomAt(q, actions[q])'
    BY <1>1, <1>4, <1>5 DEF GatewayInv, SeenInv
  <1>7. QED
    BY <1>1, <1>3, <1>6 DEF GatewayInv, SeenInv

-----------------------------------------------------------------------------
(* The gateway: its steps.                                                 *)

LEMMA BeginInv ==
  ASSUME GatewayInv, NEW r \in Requests, Begin(r)
  PROVE  GatewayInv'
  <1>1. /\ UNCHANGED <<plans, chain, actions>> /\ requests[r].phase = "new" /\ chain[r] = "none" /\ r \notin Logged
        /\ Logged' = Logged
    BY DEF Begin, GatewayInv, RequestInv, Logged
  <1>2. /\ GatewayTypeOK'
        /\ \A q \in Requests \ {r} : requests'[q] = requests[q]
        /\ requests'[r].phase \in {"done", "compiled", "compiling"}
        /\ requests'[r].phase = "compiled" => requests'[r].plan \in Plans
    BY BeginFacts DEF GatewayInv
  <1>3. RequestInv'
    BY <1>1, <1>2 DEF GatewayInv, RequestInv
  <1>4. CompletedWasMined'
    BY <1>1, <1>2, CompletedKept DEF GatewayInv
  <1>5. QED
    BY <1>2, <1>3, <1>4, BeginSeen DEF GatewayInv

LEMMA CompileInv ==
  ASSUME GatewayInv, NEW r \in Requests, NEW p \in Plans, NEW approval \in BOOLEAN, Compile(r, p, approval)
  PROVE  GatewayInv'
  <1>1. /\ UNCHANGED <<now, chain, actions>> /\ requests[r].phase = "compiling" /\ chain[r] = "none" /\ r \notin Logged
        /\ Logged' = Logged
    BY DEF Compile, GatewayInv, RequestInv, Logged
  <1>2. /\ GatewayTypeOK'
        /\ requests'[r].phase = "compiled" /\ requests'[r].plan = p /\ requests'[r].seen = requests[r].seen
        /\ \A q \in Requests \ {r} : requests'[q] = requests[q]
        /\ plans'[p].status # "COMPLETED"
        /\ \A q \in Plans \ {p} : plans'[q] = plans[q]
    BY CompileFacts DEF GatewayInv
  <1>3. RequestInv'
    BY <1>1, <1>2 DEF GatewayInv, RequestInv
  <1>4. CompletedWasMined'
    BY <1>1, <1>2, CompletedKept DEF GatewayInv
  <1>5. SeenInv'
    BY <1>1, <1>2, SeenKept DEF GatewayInv, Active
  <1>6. QED
    BY <1>2, <1>3, <1>4, <1>5 DEF GatewayInv

\* CompileFails, Fail, and Dispatch of a plan that needs approval.
LEMMA EndInv ==
  ASSUME GatewayInv, NEW r \in Requests, requests[r].phase \in Active, End(r, FALSE),
         UNCHANGED <<now, policy, cache, chain, actions>>,
         plans' \in [Plans -> PlanRow],
         \A p \in Plans : plans'[p].status = "COMPLETED" => plans[p].status = "COMPLETED"
  PROVE  GatewayInv'
  <1>1. /\ requests' \in [Requests -> RequestRow]
        /\ requests'[r].phase = "done" /\ requests'[r].plan = requests[r].plan /\ requests'[r].seen = requests[r].seen
        /\ \A q \in Requests \ {r} : requests'[q] = requests[q]
    BY EndFacts DEF GatewayInv, GatewayTypeOK
  <1>2. GatewayTypeOK'
    BY <1>1 DEF GatewayInv, GatewayTypeOK
  <1>3. RequestInv'
    BY <1>1 DEF GatewayInv, RequestInv, Logged
  <1>4. CompletedWasMined'
    BY <1>1, CompletedKept DEF GatewayInv
  <1>5. SeenInv'
    BY <1>1, SeenKept DEF GatewayInv, Active
  <1>6. QED
    BY <1>2, <1>3, <1>4, <1>5 DEF GatewayInv

\* What Dispatch does to the plan it executes.
LEMMA DispatchedPlans ==
  ASSUME GatewayTypeOK, NEW p \in Plans
  PROVE  LET after == Move(Move(plans, p, "APPROVED"), p, "EXECUTING") IN
         /\ after \in [Plans -> PlanRow]
         /\ \A q \in Plans : plans[q].status \in {"COMPLETED", "REJECTED"} => after[q] = plans[q]
         /\ \A q \in Plans : after[q].status = "COMPLETED" => plans[q].status = "COMPLETED"
  <1> DEFINE approved == Move(plans, p, "APPROVED")
             after == Move(approved, p, "EXECUTING")
  <1>1. /\ approved \in [Plans -> PlanRow]
        /\ \A q \in Plans : plans[q].status \in {"COMPLETED", "REJECTED"} => approved[q] = plans[q]
        /\ \A q \in Plans : approved[q].status = "COMPLETED" => plans[q].status = "COMPLETED"
    BY MoveFacts, LifecycleFacts DEF GatewayTypeOK
  <1> HIDE DEF approved
  <1>2. /\ after \in [Plans -> PlanRow]
        /\ \A q \in Plans : approved[q].status \in {"COMPLETED", "REJECTED"} => after[q] = approved[q]
        /\ \A q \in Plans : after[q].status = "COMPLETED" => approved[q].status = "COMPLETED"
    BY <1>1, MoveFacts, LifecycleFacts
  <1> HIDE DEF after
  <1>3. QED
    BY <1>1, <1>2 DEF after, approved

LEMMA DispatchInv ==
  ASSUME GatewayInv, NEW r \in Requests, Dispatch(r)
  PROVE  GatewayInv'
  <1>1. /\ UNCHANGED <<now, policy, cache, chain, actions>> /\ Logged' = Logged
        /\ requests[r].phase = "compiled" /\ requests[r].plan \in Plans /\ chain[r] = "none" /\ r \notin Logged
    BY DEF Dispatch, GatewayInv, RequestInv, Logged
  <1>2. CASE plans[requests[r].plan].approval
    <2>1. End(r, FALSE) /\ plans' = plans
      BY <1>2 DEF Dispatch
    <2>2. QED
      BY <1>1, <2>1, EndInv DEF GatewayInv, GatewayTypeOK, Active
  <1>3. CASE ~plans[requests[r].plan].approval
    <2>1. /\ plans' = Move(Move(plans, requests[r].plan, "APPROVED"), requests[r].plan, "EXECUTING")
          /\ requests' = [requests EXCEPT ![r] = Moved(requests[r], "sending")]
      BY <1>3 DEF Dispatch, Moved
    <2>2. plans' \in [Plans -> PlanRow] /\ \A q \in Plans : plans'[q].status = "COMPLETED" => plans[q].status = "COMPLETED"
      BY <1>1, <2>1, DispatchedPlans DEF GatewayInv
    <2>3. /\ requests' \in [Requests -> RequestRow]
          /\ requests'[r].phase = "sending" /\ requests'[r].plan = requests[r].plan /\ requests'[r].seen = requests[r].seen
          /\ \A q \in Requests \ {r} : requests'[q] = requests[q]
      BY <2>1, MovedFacts DEF GatewayInv, GatewayTypeOK, Phases
    <2>4. GatewayTypeOK'
      BY <1>1, <2>2, <2>3 DEF GatewayInv, GatewayTypeOK
    <2>5. RequestInv'
      BY <1>1, <2>3 DEF GatewayInv, RequestInv
    <2>6. CompletedWasMined'
      BY <1>1, <2>2, <2>3, CompletedKept DEF GatewayInv
    <2>7. SeenInv'
      BY <1>1, <2>3, SeenKept DEF GatewayInv, Active
    <2>8. QED
      BY <2>4, <2>5, <2>6, <2>7 DEF GatewayInv
  <1>4. QED
    BY <1>2, <1>3

LEMMA SendInv ==
  ASSUME GatewayInv, NEW r \in Requests, Send(r)
  PROVE  GatewayInv'
  <1>1. /\ UNCHANGED <<now, policy, plans, cache, actions>> /\ Logged' = Logged
        /\ requests[r].phase = "sending" /\ requests[r].plan \in Plans /\ chain[r] = "none" /\ r \notin Logged
        /\ chain' = [chain EXCEPT ![r] = "sent"]
        /\ requests' = [requests EXCEPT ![r] = Moved(requests[r], "waiting")]
    BY DEF Send, Moved, GatewayInv, RequestInv, Logged
  <1>2. /\ requests' \in [Requests -> RequestRow]
        /\ requests'[r].phase = "waiting" /\ requests'[r].plan = requests[r].plan /\ requests'[r].seen = requests[r].seen
        /\ \A q \in Requests \ {r} : requests'[q] = requests[q]
    BY <1>1, MovedFacts DEF GatewayInv, GatewayTypeOK, Phases
  <1>3. GatewayTypeOK'
    BY <1>1, <1>2 DEF GatewayInv, GatewayTypeOK
  <1>4. \A q \in Requests \ {r} : chain'[q] = chain[q]
    BY <1>1 DEF GatewayInv, GatewayTypeOK
  <1>5. RequestInv'
    BY <1>1, <1>2, <1>4 DEF GatewayInv, RequestInv
  <1>6. CompletedWasMined'
    BY <1>1, <1>2, <1>4, CompletedKept DEF GatewayInv
  <1>7. SeenInv'
    BY <1>1, <1>2, SeenKept DEF GatewayInv, Active
  <1>8. QED
    BY <1>3, <1>5, <1>6, <1>7 DEF GatewayInv

LEMMA MineInv ==
  ASSUME GatewayInv, NEW r \in Requests, Mine(r)
  PROVE  GatewayInv'
  <1>1. PICK result \in {"mined", "reverted"} : chain' = [chain EXCEPT ![r] = result]
    BY DEF Mine
  <1>2. UNCHANGED <<now, policy, plans, cache, requests, actions>> /\ Logged' = Logged /\ chain[r] = "sent"
    BY DEF Mine, Logged
  <1>3. GatewayTypeOK'
    BY <1>1, <1>2 DEF GatewayInv, GatewayTypeOK
  <1>4. \A q \in Requests \ {r} : chain'[q] = chain[q]
    BY <1>1 DEF GatewayInv, GatewayTypeOK
  <1>5. RequestInv'
    BY <1>2, <1>4 DEF GatewayInv, RequestInv
  <1>6. CompletedWasMined'
    BY <1>2, <1>4, CompletedKept DEF GatewayInv
  <1>7. SeenInv'
    BY <1>2, SeenKept DEF GatewayInv
  <1>8. QED
    BY <1>3, <1>5, <1>6, <1>7 DEF GatewayInv

LEMMA SucceedInv ==
  ASSUME GatewayInv, NEW r \in Requests, Succeed(r)
  PROVE  GatewayInv'
  <1>1. /\ UNCHANGED <<now, policy, cache, chain>>
        /\ requests[r].phase = "waiting" /\ requests[r].plan \in Plans /\ chain[r] = "mined"
        /\ plans' = Move(plans, requests[r].plan, "COMPLETED")
        /\ actions' = [actions EXCEPT ![r] = now]
    BY DEF Succeed, GatewayInv, RequestInv
  <1>2. /\ requests' \in [Requests -> RequestRow]
        /\ requests'[r].phase = "done" /\ requests'[r].plan = requests[r].plan
        /\ \A q \in Requests \ {r} : requests'[q] = requests[q]
    BY EndFacts DEF Succeed, GatewayInv, GatewayTypeOK
  <1>3. /\ plans' \in [Plans -> PlanRow]
        /\ \A p \in Plans : plans'[p].status = "COMPLETED" => plans[p].status = "COMPLETED" \/ p = requests[r].plan
    BY <1>1, MoveFacts, LifecycleFacts DEF GatewayInv, GatewayTypeOK
  <1>4. GatewayTypeOK'
    BY <1>1, <1>2, <1>3 DEF GatewayInv, GatewayTypeOK
  <1>5. Logged' \subseteq Logged \union {r}
    BY <1>1 DEF Logged, GatewayInv, GatewayTypeOK
  <1>6. RequestInv'
    BY <1>1, <1>2, <1>5 DEF GatewayInv, RequestInv
  <1>7. CompletedWasMined'
    <2>1. \A q \in Requests : requests'[q].plan = requests[q].plan
      BY <1>2
    <2>2. QED
      BY <1>1, <1>3, <1>5, <2>1 DEF GatewayInv, CompletedWasMined
  <1>8. QED
    BY <1>4, <1>6, <1>7, SucceedSeen DEF GatewayInv

LEMMA RequestStepInv ==
  ASSUME GatewayInv, NEW r \in Requests, RequestStep(r)
  PROVE  GatewayInv'
  <1>1. CASE CompileFails(r)
    BY <1>1, EndInv DEF CompileFails, GatewayInv, GatewayTypeOK, Active
  <1>2. CASE Fail(r)
    <2>1. requests[r].phase \in {"sending", "waiting"} /\ requests[r].plan \in Plans
      BY <1>2 DEF Fail, GatewayInv, RequestInv
    <2>2. /\ End(r, FALSE) /\ UNCHANGED <<now, policy, cache, chain, actions>>
          /\ plans' = Move(plans, requests[r].plan, "FAILED")
      BY <1>2 DEF Fail
    <2>3. plans' \in [Plans -> PlanRow] /\ \A q \in Plans : plans'[q].status = "COMPLETED" => plans[q].status = "COMPLETED"
      BY <2>1, <2>2, MoveFacts, LifecycleFacts DEF GatewayInv, GatewayTypeOK
    <2>4. QED
      BY <2>1, <2>2, <2>3, EndInv DEF Active
  <1>3. QED
    BY <1>1, <1>2, CompileInv, DispatchInv, SendInv, SucceedInv DEF RequestStep

LEMMA OwnerStepInv ==
  ASSUME GatewayInv, OwnerStep
  PROVE  GatewayInv'
  <1> DEFINE Kept ==
        /\ UNCHANGED <<now, requests, chain, actions>>
        /\ policy' \in Policies \union {None}
        /\ plans' \in [Plans -> PlanRow]
        /\ \A q \in Plans : plans'[q].status = "COMPLETED" => plans[q].status = "COMPLETED"
        /\ cache' \in [Intents -> [plan : Plans \union {None}, at : Nat]]
  <1>1. Kept
    <2>1. CASE \E p \in Policies : SetOwnerPolicy(p)
      BY <2>1 DEF SetOwnerPolicy, GatewayInv, GatewayTypeOK
    <2>2. CASE DeleteOwnerPolicy
      BY <2>2 DEF DeleteOwnerPolicy, GatewayInv, GatewayTypeOK
    <2>3. ASSUME NEW p \in Plans, NEW status \in {"APPROVED", "REJECTED", "EXECUTING"}, MovePlan(p, status)
          PROVE  Kept
      BY <2>3, MoveFacts, LifecycleFacts DEF MovePlan, GatewayInv, GatewayTypeOK
    <2>4. CASE PruneCache
      BY <2>4 DEF PruneCache, GatewayInv, GatewayTypeOK
    <2>5. QED
      BY <2>1, <2>2, <2>3, <2>4 DEF OwnerStep
  <1>2. GatewayTypeOK' /\ RequestInv'
    BY <1>1 DEF GatewayInv, GatewayTypeOK, RequestInv, Logged
  <1>3. CompletedWasMined' /\ SeenInv'
    BY <1>1, CompletedKept, SeenKept DEF GatewayInv
  <1>4. QED
    BY <1>2, <1>3 DEF GatewayInv

LEMMA PassInv ==
  ASSUME GatewayInv, Pass
  PROVE  GatewayInv'
  <1>1. UNCHANGED <<policy, plans, cache, requests, chain, actions>> /\ now' = now + 1 /\ now \in Nat
    BY DEF Pass, GatewayInv, GatewayTypeOK
  <1>2. GatewayTypeOK' /\ RequestInv' /\ CompletedWasMined'
    BY <1>1 DEF GatewayInv, GatewayTypeOK, RequestInv, CompletedWasMined, Logged
  <1>3. QED
    BY <1>2, PassSeen DEF GatewayInv

LEMMA CrashInv ==
  ASSUME GatewayInv, ServerCrash
  PROVE  /\ GatewayInv'
         /\ \A r \in Requests : IF requests[r].phase = "new" THEN requests'[r] = requests[r]
                                ELSE requests'[r] = Moved(requests[r], "done")
  <1>1. /\ requests' = [r \in Requests |-> IF requests[r].phase = "new" THEN requests[r] ELSE Moved(requests[r], "done")]
        /\ UNCHANGED <<now, policy, plans, cache, chain, actions>> /\ Logged' = Logged
    BY DEF ServerCrash, Moved, Logged
  <1>2. \A r \in Requests :
          LET row == Moved(requests[r], "done") IN
          row \in RequestRow /\ row.phase = "done" /\ row.plan = requests[r].plan /\ row.seen = requests[r].seen
    BY MovedFacts DEF GatewayInv, GatewayTypeOK, Phases
  <1>3. GatewayTypeOK'
    BY <1>1, <1>2 DEF GatewayInv, GatewayTypeOK
  <1>4. \A r \in Requests :
          /\ requests'[r].phase = requests[r].phase \/ requests'[r].phase = "done"
          /\ requests'[r].plan = requests[r].plan /\ requests'[r].seen = requests[r].seen
          /\ requests[r].phase = "done" => requests'[r].phase = "done"
    BY <1>1, <1>2
  <1>5. RequestInv'
    BY <1>1, <1>4 DEF GatewayInv, RequestInv
  <1>6. CompletedWasMined'
    BY <1>1, <1>4, CompletedKept DEF GatewayInv
  <1>7. SeenInv'
    BY <1>1, <1>4, SeenKept DEF GatewayInv, Active
  <1>8. QED
    BY <1>1, <1>3, <1>5, <1>6, <1>7 DEF GatewayInv

-----------------------------------------------------------------------------
(* The payments: what a fetch does.                                        *)

FetchRow == [phase : FetchPhases, seen : SUBSET Fetches]

LEMMA GoToFacts ==
  ASSUME FetchTypeOK, NEW f \in Fetches, NEW phase \in FetchPhases, GoTo(f, phase)
  PROVE  /\ fetches' \in [Fetches -> FetchRow]
         /\ fetches'[f].phase = phase /\ fetches'[f].seen = fetches[f].seen
         /\ \A g \in Fetches \ {f} : fetches'[g] = fetches[g]
  BY DEF GoTo, FetchTypeOK, FetchRow

Amounts == [f \in Fetches |-> AmountOf[f]]

LEMMA AmountsTyped ==
  /\ Amounts \in [Fetches -> Nat]
  /\ \A f \in Fetches : Amount(f) = Amounts[f] /\ Amount(f) \in Nat
  BY FetchAssumption DEF Amounts, Amount

LEMMA TotalPaidIsSum ==
  ASSUME NEW counted \in SUBSET Fetches, IsFiniteSet(counted)
  PROVE  TotalPaid(counted) = Sum(Amounts, counted)
  <1> DEFINE Is(h) == h = [s \in SUBSET counted |-> IF s = {} THEN 0 ELSE Amount(Picked(s)) + h[s \ {Picked(s)}]]
  <1>1. \A h : IsSum(Amounts, counted, h) <=> Is(h)
    <2>1. \A s \in SUBSET counted : s # {} => Amounts[Picked(s)] = Amount(Picked(s))
      BY PickedIn, AmountsTyped
    <2>2. QED
      BY <2>1 DEF IsSum
  <1>2. PICK h : IsSum(Amounts, counted, h)
    BY SumExists
  <1>3. Is(CHOOSE g : Is(g))
    BY <1>1, <1>2
  <1>4. (CHOOSE g : Is(g)) = h
    BY <1>1, <1>2, <1>3, SumUnique
  <1>5. IsSum(Amounts, counted, CHOOSE g : IsSum(Amounts, counted, g))
    BY <1>2
  <1>6. (CHOOSE g : IsSum(Amounts, counted, g)) = h
    BY <1>2, <1>5, SumUnique
  <1>7. TotalPaid(counted) = (CHOOSE g : Is(g))[counted]
    BY DEF TotalPaid, MapThenSumSet, MapThenFoldSet, Picked
  <1>8. QED
    BY <1>4, <1>6, <1>7 DEF Sum

LEMMA TotalPaidFacts ==
  ASSUME NEW counted \in SUBSET Fetches, IsFiniteSet(counted)
  PROVE  /\ TotalPaid(counted) \in Nat
         /\ counted = {} => TotalPaid(counted) = 0
         /\ \A f \in counted : TotalPaid(counted) = Amount(f) + TotalPaid(counted \ {f})
         /\ \A fewer \in SUBSET counted : TotalPaid(fewer) <= TotalPaid(counted)
  <1>1. \A fewer \in SUBSET counted : fewer \in SUBSET Fetches /\ IsFiniteSet(fewer)
    BY FS_Subset
  <1>2. \A fewer \in SUBSET counted : TotalPaid(fewer) = Sum(Amounts, fewer)
    BY <1>1, TotalPaidIsSum
  <1>3. Sum(Amounts, counted) \in Nat /\ (counted = {} => Sum(Amounts, counted) = 0)
    BY AmountsTyped, SumNat, SumStep
  <1>4. \A f \in counted : Sum(Amounts, counted) = Amount(f) + Sum(Amounts, counted \ {f})
    BY AmountsTyped, SumRemove
  <1>5. \A fewer \in SUBSET counted : Sum(Amounts, fewer) <= Sum(Amounts, counted)
    BY AmountsTyped, SumMonotone
  <1>6. QED
    BY <1>2, <1>3, <1>4, <1>5

InProgress == {"assessing", "paying", "sent", "lost", "retrying"}

\* What a step that records nothing and checks nothing leaves of what was seen; the
\* clock may go on.
LEMMA SeenPaymentsKept ==
  ASSUME FetchTypeOK, SeenPaymentsInv, now \in Nat, now' \in Nat, now <= now', UNCHANGED payments,
         \A f \in Fetches : fetches'[f].seen = fetches[f].seen,
         \A f \in Fetches : fetches'[f].phase \in InProgress => fetches[f].phase \in InProgress
  PROVE  SeenPaymentsInv'
  <1>1. Recorded' = Recorded
    BY DEF Recorded
  <1>2. DayStart(now) \in Nat /\ DayStart(now') \in Nat /\ DayStart(now) <= DayStart(now')
    BY DayStartFacts
  <1>3. ASSUME NEW f \in Fetches, PaymentRoomAt(f, now) PROVE PaymentRoomAt(f, now)'
    <2> DEFINE before == {x \in fetches[f].seen : payments[x] >= DayStart(now)}
               after == {x \in fetches[f].seen : payments[x] >= DayStart(now')}
    <2>1. fetches[f].seen \subseteq Recorded /\ IsFiniteSet(Recorded)
      BY DEF SeenPaymentsInv
    <2>2. \A x \in Recorded : payments[x] \in Nat
      BY DEF Recorded, FetchTypeOK
    <2>3. after \subseteq before
      BY <1>2, <2>1, <2>2
    <2>4. before \in SUBSET Fetches /\ IsFiniteSet(before)
      BY <2>1, FS_Subset DEF Recorded
    <2>5. after \in SUBSET Fetches /\ IsFiniteSet(after)
      BY <2>3, <2>4, FS_Subset
    <2>6. TotalPaid(before) + Amount(f) <= PaymentDaily
      BY <1>3 DEF PaymentRoomAt
    <2> HIDE DEF before, after
    <2>7. TotalPaid(after) <= TotalPaid(before) /\ TotalPaid(after) \in Nat /\ TotalPaid(before) \in Nat
      BY <2>3, <2>4, <2>5, TotalPaidFacts
    <2>8. Amount(f) \in Nat /\ PaymentDaily \in Nat
      BY AmountsTyped, FetchAssumption
    <2>9. TotalPaid(after) + Amount(f) <= PaymentDaily
      BY <2>6, <2>7, <2>8
    <2>10. fetches'[f].seen = fetches[f].seen /\ payments' = payments
      OBVIOUS
    <2>11. QED
      BY <2>9, <2>10 DEF PaymentRoomAt, after
  <1>4. ASSUME NEW f \in Fetches, PaymentRoomAt(f, payments[f]) PROVE PaymentRoomAt(f, payments[f])'
    BY <1>4 DEF PaymentRoomAt
  <1>5. \A f \in Recorded : payments[f] \in Nat /\ f \in Fetches
    BY DEF Recorded, FetchTypeOK
  <1>6. \A f \in Recorded : payments'[f] <= now' /\ PaymentRoomAt(f, payments[f])'
    BY <1>4, <1>5 DEF SeenPaymentsInv
  <1>7. QED
    BY <1>1, <1>3, <1>6 DEF SeenPaymentsInv, InProgress

LEMMA GatewayUnchanged == GatewayInv /\ UNCHANGED gatewayVars => GatewayInv'
  BY DEF gatewayVars, GatewayInv, GatewayTypeOK, RequestInv, CompletedWasMined, SeenInv, RoomAt, Logged

\* Answered(f): the gateway has let the payment of f go on, or was not asked.
Answered(f) == requests[f].phase = "new" \/ (requests[f].phase = "done" /\ requests[f].success)

\* The steps of a fetch that move it on and nothing else.
LEMMA MoveFetchInv ==
  ASSUME PaymentsInv, UNCHANGED gatewayVars, UNCHANGED <<payments, outcome, confirmed, succeeded>>,
         NEW f \in Fetches, NEW phase \in FetchPhases, fetches[f].phase \in InProgress, GoTo(f, phase),
         phase # "new" /\ phase # "assessing",
         phase \in {"paying", "sent", "lost", "retrying"} => Answered(f),
         phase = "paying" => outcome[f] = "none",
         phase = "retrying" => outcome[f] = "ok"
  PROVE  PaymentsInv'
  <1>1. /\ fetches' \in [Fetches -> FetchRow]
        /\ fetches'[f].phase = phase /\ fetches'[f].seen = fetches[f].seen
        /\ \A g \in Fetches \ {f} : fetches'[g] = fetches[g]
    BY GoToFacts DEF PaymentsInv
  <1>2. requests' = requests /\ now' = now /\ now \in Nat
    BY DEF gatewayVars, PaymentsInv, GatewayInv, GatewayTypeOK
  <1>3. FetchTypeOK'
    BY <1>1 DEF PaymentsInv, FetchTypeOK, FetchRow
  <1>4. f \notin Recorded /\ Recorded' = Recorded
    BY DEF PaymentsInv, PaymentInv, Recorded, InProgress
  <1>5. PaymentInv'
    BY <1>1, <1>2, <1>4 DEF PaymentsInv, PaymentInv, Answered
  <1>6. SeenPaymentsInv'
    BY <1>1, <1>2, SeenPaymentsKept DEF PaymentsInv
  <1>7. QED
    BY <1>3, <1>5, <1>6, GatewayUnchanged DEF PaymentsInv

LEMMA DemandInv ==
  ASSUME PaymentsInv, UNCHANGED gatewayVars, NEW f \in Fetches, Demand(f)
  PROVE  PaymentsInv'
  <1>1. /\ UNCHANGED <<requests, now, payments, outcome, confirmed, succeeded>>
        /\ now \in Nat /\ fetches[f].phase = "new" /\ outcome[f] = "none" /\ f \notin Recorded /\ Recorded' = Recorded
    BY DEF gatewayVars, Demand, PaymentsInv, PaymentInv, GatewayInv, GatewayTypeOK, Recorded
  <1>2. CASE ~CheckPaymentPolicy(f)
    <2>1. GoTo(f, "done")
      BY <1>2 DEF Demand, GoTo
    <2>2. /\ fetches' \in [Fetches -> FetchRow]
          /\ fetches'[f].phase = "done" /\ fetches'[f].seen = fetches[f].seen
          /\ \A g \in Fetches \ {f} : fetches'[g] = fetches[g]
      BY <2>1, GoToFacts DEF PaymentsInv, FetchPhases
    <2>3. FetchTypeOK'
      BY <1>1, <2>2 DEF PaymentsInv, FetchTypeOK, FetchRow
    <2>4. PaymentInv'
      BY <1>1, <2>2 DEF PaymentsInv, PaymentInv
    <2>5. SeenPaymentsInv'
      BY <1>1, <2>2, SeenPaymentsKept DEF PaymentsInv, InProgress
    <2>6. QED
      BY <2>3, <2>4, <2>5, GatewayUnchanged DEF PaymentsInv
  <1>3. CASE CheckPaymentPolicy(f)
    <2>1. fetches' = [fetches EXCEPT ![f] = [phase |-> "assessing", seen |-> Recorded]]
      BY <1>3 DEF Demand
    <2>2. Recorded \in SUBSET Fetches
      BY DEF Recorded
    <2>3. /\ fetches' \in [Fetches -> FetchRow]
          /\ fetches'[f].phase = "assessing" /\ fetches'[f].seen = Recorded
          /\ \A g \in Fetches \ {f} : fetches'[g] = fetches[g]
      BY <2>1, <2>2 DEF PaymentsInv, FetchTypeOK, FetchRow, FetchPhases
    <2>4. FetchTypeOK'
      BY <1>1, <2>3 DEF PaymentsInv, FetchTypeOK, FetchRow
    <2>5. PaymentInv'
      BY <1>1, <2>3 DEF PaymentsInv, PaymentInv
    <2>6. PaymentRoomAt(f, now)'
      <3>1. TotalPaid(RecordedToday(now)) + Amount(f) <= PaymentDaily
        BY <1>3 DEF CheckPaymentPolicy
      <3>2. RecordedToday(now) = {g \in fetches'[f].seen : payments'[g] >= DayStart(now')}
        BY <1>1, <2>3 DEF RecordedToday
      <3>3. QED
        BY <3>1, <3>2 DEF PaymentRoomAt
    <2>7. ASSUME NEW g \in Fetches \ {f}, PaymentRoomAt(g, now) PROVE PaymentRoomAt(g, now)'
      BY <1>1, <2>3, <2>7 DEF PaymentRoomAt
    <2>8. ASSUME NEW g \in Recorded, PaymentRoomAt(g, payments[g]) PROVE PaymentRoomAt(g, payments[g])'
      <3>1. g \in Fetches \ {f}
        BY <1>1 DEF Recorded
      <3>2. QED
        BY <1>1, <2>3, <2>8, <3>1 DEF PaymentRoomAt
    <2>9. \A g \in Fetches : fetches'[g].seen \subseteq Recorded \ {g}
      BY <1>1, <2>3 DEF PaymentsInv, SeenPaymentsInv
    <2>10. \A g, x \in Fetches : fetches'[g].seen \subseteq fetches'[x].seen \/ fetches'[x].seen \subseteq fetches'[g].seen
      BY <2>3, <2>9 DEF PaymentsInv, SeenPaymentsInv
    <2>11. \A g \in Fetches : fetches'[g].phase \in InProgress => PaymentRoomAt(g, now)'
      BY <2>3, <2>6, <2>7 DEF PaymentsInv, SeenPaymentsInv, InProgress
    <2>12. \A g \in Recorded : payments'[g] <= now' /\ PaymentRoomAt(g, payments[g])'
      BY <1>1, <2>8 DEF PaymentsInv, SeenPaymentsInv
    <2>13. SeenPaymentsInv'
      BY <1>1, <2>9, <2>10, <2>11, <2>12 DEF PaymentsInv, SeenPaymentsInv, InProgress
    <2>14. QED
      BY <2>4, <2>5, <2>13, GatewayUnchanged DEF PaymentsInv
  <1>4. QED
    BY <1>2, <1>3

LEMMA ExecuteOpInv ==
  ASSUME PaymentsInv, UNCHANGED gatewayVars, NEW f \in Fetches, ExecuteOp(f)
  PROVE  PaymentsInv'
  <1>1. PICK result \in {"ok", "reverted"} : Ledger!Execute(f, result)
    BY DEF ExecuteOp
  <1>2. /\ UNCHANGED <<requests, now, fetches, payments, confirmed, succeeded>>
        /\ fetches[f].phase \in {"sent", "lost"} /\ outcome[f] = "none"
        /\ outcome' = [outcome EXCEPT ![f] = result]
        /\ now \in Nat /\ Recorded' = Recorded
    BY <1>1 DEF gatewayVars, ExecuteOp, Ledger!Execute, PaymentsInv, GatewayInv, GatewayTypeOK, Recorded
  <1>3. FetchTypeOK'
    BY <1>2 DEF PaymentsInv, FetchTypeOK
  <1>4. \A g \in Fetches \ {f} : outcome'[g] = outcome[g]
    BY <1>2 DEF PaymentsInv, FetchTypeOK
  <1>5. PaymentInv'
    BY <1>2, <1>4 DEF PaymentsInv, PaymentInv
  <1>6. SeenPaymentsInv'
    BY <1>2, SeenPaymentsKept DEF PaymentsInv
  <1>7. QED
    BY <1>3, <1>5, <1>6, GatewayUnchanged DEF PaymentsInv

LEMMA PaidInv ==
  ASSUME PaymentsInv, UNCHANGED gatewayVars, NEW f \in Fetches, Paid(f)
  PROVE  PaymentsInv'
  <1>1. /\ UNCHANGED <<requests, now, payments, outcome>> /\ now \in Nat /\ Recorded' = Recorded
        /\ fetches[f].phase = "sent" /\ GoTo(f, "retrying")
        /\ confirmed' = confirmed \union {f}
        /\ f \in succeeded' /\ (succeeded' = succeeded \/ (outcome[f] = "ok" /\ succeeded' = succeeded \union {f}))
    BY DEF gatewayVars, Paid, Ledger!Confirm, PaymentsInv, GatewayInv, GatewayTypeOK, Recorded
  <1>2. /\ fetches' \in [Fetches -> FetchRow]
        /\ fetches'[f].phase = "retrying" /\ fetches'[f].seen = fetches[f].seen
        /\ \A g \in Fetches \ {f} : fetches'[g] = fetches[g]
    BY <1>1, GoToFacts DEF PaymentsInv, FetchPhases
  <1>3. FetchTypeOK'
    BY <1>1, <1>2 DEF PaymentsInv, FetchTypeOK, FetchRow
  <1>4. outcome[f] = "ok" /\ succeeded' \subseteq succeeded \union {f}
    BY <1>1 DEF PaymentsInv, PaymentInv
  <1>5. PaymentInv'
    BY <1>1, <1>2, <1>4 DEF PaymentsInv, PaymentInv
  <1>6. SeenPaymentsInv'
    BY <1>1, <1>2, SeenPaymentsKept DEF PaymentsInv, InProgress
  <1>7. QED
    BY <1>3, <1>5, <1>6, GatewayUnchanged DEF PaymentsInv

LEMMA AcceptedInv ==
  ASSUME PaymentsInv, UNCHANGED gatewayVars, NEW f \in Fetches, Accepted(f)
  PROVE  PaymentsInv'
  <1>1. /\ UNCHANGED <<requests, now, outcome, confirmed, succeeded>> /\ now \in Nat
        /\ fetches[f].phase = "retrying" /\ GoTo(f, "done") /\ outcome[f] = "ok"
        /\ payments' = [payments EXCEPT ![f] = now]
        /\ payments \in [Fetches -> Nat \union {None}]
    BY DEF gatewayVars, Accepted, PaymentsInv, PaymentInv, GatewayInv, GatewayTypeOK, FetchTypeOK
  <1>2. /\ fetches' \in [Fetches -> FetchRow]
        /\ fetches'[f].phase = "done" /\ fetches'[f].seen = fetches[f].seen
        /\ \A g \in Fetches \ {f} : fetches'[g] = fetches[g]
    BY <1>1, GoToFacts DEF PaymentsInv, FetchPhases
  <1>3. FetchTypeOK'
    BY <1>1, <1>2 DEF PaymentsInv, FetchTypeOK, FetchRow
  <1>4. f \notin Recorded /\ Recorded' = Recorded \union {f}
    <2>1. None # now
      BY <1>1, GatewayAssumption
    <2>2. QED
      BY <1>1, <2>1 DEF Recorded, PaymentsInv, PaymentInv
  <1>5. PaymentInv'
    BY <1>1, <1>2, <1>4 DEF PaymentsInv, PaymentInv
  <1>6. \A g \in Fetches : fetches'[g].seen = fetches[g].seen
    BY <1>2
  <1>7. \A g \in Fetches : \A x \in fetches[g].seen : payments'[x] = payments[x]
    BY <1>1, <1>4 DEF PaymentsInv, SeenPaymentsInv
  <1>8. ASSUME NEW g \in Fetches, PaymentRoomAt(g, now) PROVE PaymentRoomAt(g, now)'
    BY <1>1, <1>6, <1>7, <1>8 DEF PaymentRoomAt
  <1>9. ASSUME NEW g \in Recorded, PaymentRoomAt(g, payments[g]) PROVE PaymentRoomAt(g, payments[g])'
    <2>1. g \in Fetches /\ payments'[g] = payments[g]
      BY <1>1, <1>4 DEF Recorded
    <2>2. QED
      BY <1>6, <1>7, <1>9, <2>1 DEF PaymentRoomAt
  <1>10. PaymentRoomAt(f, payments[f])'
    <2>1. PaymentRoomAt(f, now) /\ payments'[f] = now
      BY <1>1 DEF PaymentsInv, SeenPaymentsInv
    <2>2. QED
      BY <1>6, <1>7, <2>1 DEF PaymentRoomAt
  <1>11. IsFiniteSet(Recorded')
    BY <1>4, FS_AddElement DEF PaymentsInv, SeenPaymentsInv
  <1>12. \A g \in Recorded' : payments'[g] <= now' /\ PaymentRoomAt(g, payments[g])'
    <2>1. \A g \in Recorded : payments'[g] = payments[g] /\ payments[g] <= now /\ PaymentRoomAt(g, payments[g])'
      BY <1>1, <1>4, <1>9 DEF PaymentsInv, SeenPaymentsInv, Recorded
    <2>2. QED
      BY <1>1, <1>4, <1>10, <2>1
  <1>13. \A g \in Fetches : fetches'[g].phase \in InProgress => PaymentRoomAt(g, now)'
    BY <1>2, <1>8 DEF PaymentsInv, SeenPaymentsInv, InProgress
  <1>14. SeenPaymentsInv'
    BY <1>4, <1>6, <1>11, <1>12, <1>13 DEF PaymentsInv, SeenPaymentsInv, InProgress
  <1>15. QED
    BY <1>3, <1>5, <1>14, GatewayUnchanged DEF PaymentsInv

LEMMA FetchStepInv ==
  ASSUME PaymentsInv, NEW f \in Fetches, FetchStep(f), UNCHANGED gatewayVars
  PROVE  PaymentsInv'
  <1>1. CASE Assessed(f)
    <2>1. PICK phase \in {"paying", "done"} : GoTo(f, phase) /\ (phase = "paying" => requests[f].phase = "new" \/ requests[f].success)
      BY <1>1 DEF Assessed
    <2>2. phase = "paying" => Answered(f)
      BY <1>1, <2>1 DEF Assessed, Answered
    <2>3. outcome[f] = "none" /\ fetches[f].phase \in InProgress /\ UNCHANGED <<payments, outcome, confirmed, succeeded>>
      BY <1>1 DEF Assessed, PaymentsInv, PaymentInv, InProgress
    <2>4. QED
      BY <2>1, <2>2, <2>3, MoveFetchInv DEF FetchPhases
  <1>2. CASE NotPaid(f)
    BY <1>2, MoveFetchInv DEF NotPaid, InProgress, FetchPhases
  <1>3. CASE SendOp(f)
    <2>1. Answered(f)
      BY <1>3 DEF SendOp, PaymentsInv, PaymentInv, Answered
    <2>2. QED
      BY <1>3, <2>1, MoveFetchInv DEF SendOp, InProgress, FetchPhases
  <1>4. CASE PaymentFailed(f)
    <2>1. Answered(f)
      BY <1>4 DEF PaymentFailed, PaymentsInv, PaymentInv, Answered
    <2>2. QED
      BY <1>4, <2>1, MoveFetchInv DEF PaymentFailed, InProgress, FetchPhases
  <1>5. CASE NotRecorded(f)
    BY <1>5, MoveFetchInv DEF NotRecorded, InProgress, FetchPhases
  <1>6. QED
    BY <1>1, <1>2, <1>3, <1>4, <1>5, DemandInv, ExecuteOpInv, PaidInv, AcceptedInv DEF FetchStep

-----------------------------------------------------------------------------
(* The server: gateway and payments together.                              *)

\* The gateway acts for the requests in progress and for fetches being assessed.
LEMMA RequestsKept ==
  ASSUME GatewayInv, NEW r \in Requests, RequestStep(r)
  PROVE  /\ requests[r].phase \in Active /\ now' = now
         /\ \A q \in Requests \ {r} : requests'[q] = requests[q]
  <1>1. now' = now /\ requests[r].phase \in Active
    BY DEF RequestStep, CompileFails, Compile, Dispatch, Send, Succeed, Fail, Active
  <1>2. requests \in [Requests -> RequestRow]
    BY DEF GatewayInv, GatewayTypeOK
  <1>3. ASSUME NEW success \in BOOLEAN, End(r, success) PROVE \A q \in Requests \ {r} : requests'[q] = requests[q]
    BY <1>2, <1>3, EndFacts
  <1>4. ASSUME NEW p \in Plans, NEW approval \in BOOLEAN, Compile(r, p, approval)
        PROVE  \A q \in Requests \ {r} : requests'[q] = requests[q]
    BY <1>4, CompileFacts DEF GatewayInv
  <1>5. CASE Dispatch(r)
    <2>1. End(r, FALSE) \/ requests' = [requests EXCEPT ![r] = Moved(requests[r], "sending")]
      BY <1>5 DEF Dispatch, Moved
    <2>2. QED
      BY <1>1, <1>2, <1>3, <2>1
  <1>6. CASE Send(r)
    <2>1. requests' = [requests EXCEPT ![r] = Moved(requests[r], "waiting")]
      BY <1>6 DEF Send, Moved
    <2>2. QED
      BY <1>1, <1>2, <2>1
  <1>7. QED
    BY <1>1, <1>3, <1>4, <1>5, <1>6 DEF RequestStep, CompileFails, Succeed, Fail

LEMMA GatewayStepKeeps ==
  ASSUME PaymentsInv, GatewayInv', UNCHANGED fetchVars, now <= now',
         \A f \in Fetches : requests'[f] = requests[f] \/ requests[f].phase \in Active \/ fetches[f].phase = "assessing"
  PROVE  PaymentsInv'
  <1>1. UNCHANGED <<fetches, payments, outcome, confirmed, succeeded>> /\ Recorded' = Recorded
    BY DEF fetchVars, Recorded
  <1>2. FetchTypeOK'
    BY <1>1 DEF PaymentsInv, FetchTypeOK
  <1>3. PaymentInv'
    BY <1>1 DEF PaymentsInv, PaymentInv, Active
  <1>4. now \in Nat /\ now' \in Nat
    BY DEF PaymentsInv, GatewayInv, GatewayTypeOK
  <1>5. SeenPaymentsInv'
    BY <1>1, <1>4, SeenPaymentsKept DEF PaymentsInv
  <1>6. QED
    BY <1>2, <1>3, <1>5 DEF PaymentsInv

LEMMA ServerCrashInv ==
  ASSUME PaymentsInv, ServerCrash
  PROVE  PaymentsInv'
  <1>1. /\ fetches' = [f \in Fetches |-> [fetches[f] EXCEPT !.phase =
             IF @ = "new" THEN @ ELSE IF @ \in {"sent", "lost"} THEN "lost" ELSE "done"]]
        /\ UNCHANGED <<now, payments, outcome, confirmed, succeeded>> /\ now \in Nat /\ Recorded' = Recorded
    BY DEF ServerCrash, PaymentsInv, GatewayInv, GatewayTypeOK, Recorded
  <1>2. \A f \in Fetches :
          /\ fetches'[f] \in FetchRow
          /\ fetches'[f].seen = fetches[f].seen
          /\ fetches[f].phase = "new" => fetches'[f].phase = "new"
          /\ fetches[f].phase \in {"sent", "lost"} => fetches'[f].phase = "lost"
          /\ fetches[f].phase \notin {"new", "sent", "lost"} => fetches'[f].phase = "done"
    <2> SUFFICES ASSUME NEW f \in Fetches
                 PROVE  /\ fetches'[f] \in FetchRow
                        /\ fetches'[f].seen = fetches[f].seen
                        /\ fetches'[f].phase = IF fetches[f].phase = "new" THEN "new"
                             ELSE IF fetches[f].phase \in {"sent", "lost"} THEN "lost" ELSE "done"
      OBVIOUS
    <2>1. PICK row \in FetchRow : row = fetches[f]
      BY DEF PaymentsInv, FetchTypeOK, FetchRow
    <2>2. PICK phase \in FetchPhases :
            phase = IF row.phase = "new" THEN "new" ELSE IF row.phase \in {"sent", "lost"} THEN "lost" ELSE "done"
      BY DEF FetchPhases
    <2>3. fetches'[f] = [row EXCEPT !.phase = phase]
      BY <1>1, <2>1, <2>2
    <2>4. LET new == [row EXCEPT !.phase = phase] IN new \in FetchRow /\ new.phase = phase /\ new.seen = row.seen
      BY DEF FetchRow
    <2>5. QED
      BY <2>1, <2>2, <2>3, <2>4
  <1>3. FetchTypeOK'
    BY <1>1, <1>2 DEF PaymentsInv, FetchTypeOK, FetchRow
  <1>4. /\ GatewayInv'
        /\ \A f \in Fetches :
             /\ requests[f].phase = "new" => requests'[f].phase = "new"
             /\ requests[f].phase # "new" => requests'[f].phase = "done" /\ requests'[f].success = requests[f].success
    BY CrashInv, MovedFacts, FetchAssumption DEF PaymentsInv, GatewayInv, GatewayTypeOK, Phases
  <1>5. PaymentInv'
    BY <1>1, <1>2, <1>4 DEF PaymentsInv, PaymentInv
  <1>6. SeenPaymentsInv'
    BY <1>1, <1>2, SeenPaymentsKept DEF PaymentsInv, InProgress
  <1>7. QED
    BY <1>3, <1>4, <1>5, <1>6 DEF PaymentsInv

LEMMA PaymentsInitInv == PaymentsInit => PaymentsInv
  <1> SUFFICES ASSUME PaymentsInit PROVE PaymentsInv
    OBVIOUS
  <1> USE DEF PaymentsInit
  <1>1. now \in Nat
    BY GatewayAssumption DEF GatewayInit
  <1>2. GatewayTypeOK
    <2>1. [status |-> "none", approval |-> FALSE] \in PlanRow
      BY LifecycleFacts DEF PlanRow
    <2>2. [phase |-> "new", plan |-> None, seen |-> {}, success |-> FALSE] \in RequestRow
      BY DEF RequestRow, Phases
    <2>3. [plan |-> None, at |-> 0] \in [plan : Plans \union {None}, at : Nat]
      OBVIOUS
    <2>4. QED
      BY <1>1, <2>1, <2>2, <2>3 DEF GatewayInit, GatewayTypeOK
  <1>3. Logged = {} /\ Recorded = {}
    BY DEF GatewayInit, FetchInit, Logged, Recorded
  <1>4. RequestInv /\ CompletedWasMined
    <2>1. /\ \A r \in Requests : requests[r].phase = "new" /\ chain[r] = "none"
          /\ \A p \in Plans : plans[p].status = "none"
      BY DEF GatewayInit
    <2>2. QED
      BY <1>3, <2>1 DEF RequestInv, CompletedWasMined
  <1>5. SeenInv
    <2>1. \A r \in Requests : requests[r].phase = "new" /\ requests[r].seen = {}
      BY DEF GatewayInit
    <2>2. QED
      BY <1>3, <2>1, FS_EmptySet DEF SeenInv
  <1>6. FetchTypeOK /\ PaymentInv
    BY <1>3 DEF GatewayInit, FetchInit, Ledger!Init, FetchTypeOK, FetchPhases, PaymentInv
  <1>7. SeenPaymentsInv
    BY <1>3, FS_EmptySet DEF FetchInit, SeenPaymentsInv
  <1>8. QED
    BY <1>2, <1>4, <1>5, <1>6, <1>7 DEF PaymentsInv, GatewayInv

LEMMA PaymentsStepInv == PaymentsInv /\ [PaymentsNext]_paymentsVars => PaymentsInv'
  <1> SUFFICES ASSUME PaymentsInv, [PaymentsNext]_paymentsVars PROVE PaymentsInv'
    OBVIOUS
  <1>1. GatewayInv /\ now \in Nat /\ Fetches \subseteq Requests
    BY FetchAssumption DEF PaymentsInv, GatewayInv, GatewayTypeOK
  <1>2. ASSUME NEW r \in Requests \ Fetches, Begin(r), UNCHANGED fetchVars PROVE PaymentsInv'
    <2>1. now' = now /\ \A f \in Fetches : requests'[f] = requests[f]
      BY <1>1, <1>2, BeginFacts DEF Begin, GatewayInv
    <2>2. QED
      BY <1>1, <1>2, <2>1, BeginInv, GatewayStepKeeps
  <1>3. ASSUME NEW f \in Fetches, fetches[f].phase = "assessing", Begin(f), UNCHANGED fetchVars PROVE PaymentsInv'
    <2>1. now' = now /\ \A g \in Fetches \ {f} : requests'[g] = requests[g]
      BY <1>1, <1>3, BeginFacts DEF Begin, GatewayInv
    <2>2. QED
      BY <1>1, <1>3, <2>1, BeginInv, GatewayStepKeeps
  <1>4. ASSUME NEW r \in Requests, RequestStep(r), UNCHANGED fetchVars PROVE PaymentsInv'
    BY <1>1, <1>4, RequestsKept, RequestStepInv, GatewayStepKeeps
  <1>5. ASSUME NEW r \in Requests, Mine(r), UNCHANGED fetchVars PROVE PaymentsInv'
    <2>1. now' = now /\ requests' = requests
      BY <1>5 DEF Mine
    <2>2. QED
      BY <1>1, <1>5, <2>1, MineInv, GatewayStepKeeps
  <1>6. CASE OwnerStep /\ UNCHANGED fetchVars
    <2>1. now' = now /\ requests' = requests
      BY <1>6 DEF OwnerStep, SetOwnerPolicy, DeleteOwnerPolicy, MovePlan, PruneCache
    <2>2. QED
      BY <1>1, <1>6, <2>1, OwnerStepInv, GatewayStepKeeps
  <1>7. CASE Pass /\ UNCHANGED fetchVars
    <2>1. now <= now' /\ requests' = requests
      BY <1>1, <1>7 DEF Pass
    <2>2. QED
      BY <1>1, <1>7, <2>1, PassInv, GatewayStepKeeps
  <1>8. ASSUME NEW f \in Fetches, FetchStep(f), UNCHANGED gatewayVars PROVE PaymentsInv'
    BY <1>8, FetchStepInv
  <1>9. CASE UNCHANGED paymentsVars
    <2>1. UNCHANGED gatewayVars /\ UNCHANGED fetchVars /\ now' = now /\ requests' = requests
      BY <1>9 DEF paymentsVars, gatewayVars
    <2>2. QED
      BY <1>1, <2>1, GatewayUnchanged, GatewayStepKeeps
  <1>10. QED
    BY <1>2, <1>3, <1>4, <1>5, <1>6, <1>7, <1>8, <1>9, ServerCrashInv DEF PaymentsNext

LEMMA PaymentsInvariance == PaymentsSpec => []PaymentsInv
  BY PaymentsInitInv, PaymentsStepInv, PTL DEF PaymentsSpec

\* Every variable of the gateway and of the payments keeps its type.
THEOREM ServerTypeCorrect == PaymentsSpec => [](GatewayTypeOK /\ FetchTypeOK)
  <1>1. PaymentsInv => GatewayTypeOK /\ FetchTypeOK
    BY DEF PaymentsInv, GatewayInv
  <1>2. QED
    BY <1>1, PaymentsInvariance, PTL

\* A plan is COMPLETED, and an action logged as a success, only when a transaction of
\* it was mined, for any requests that share any plans (compiler-gateway.ts:163, 170).
THEOREM CompletedPlansWereMined == PaymentsSpec => []CompletedWasMined
  <1>1. PaymentsInv => CompletedWasMined
    BY DEF PaymentsInv, GatewayInv
  <1>2. QED
    BY <1>1, PaymentsInvariance, PTL

\* A payment is recorded only when its operation was executed and did not revert, and
\* none is made that the gateway refused (x402-client.ts:285, 361, 475).
THEOREM RecordedPaymentsWerePaid == PaymentsSpec => []RecordedWasPaid
  <1>1. PaymentsInv => RecordedWasPaid
    BY DEF PaymentsInv, PaymentInv, RecordedWasPaid, Recorded
  <1>2. QED
    BY <1>1, PaymentsInvariance, PTL

-----------------------------------------------------------------------------
(* Overspending.  If of any two rows of a day one request saw the other's, *)
(* one saw all the others, had room beside them, and so had the total.     *)

LEMMA OverspendFromInv == GatewayInv => OverspendNeedsOverlap
  <1> SUFFICES ASSUME GatewayInv, NEW t \in 0 .. now,
                      \A p \in Policies :
                        Total({r \in Logged : actions[r] > DayStart(t) /\ DayStart(actions[r]) = DayStart(t)}) > p.dailyLimit
               PROVE  \E r, q \in {r \in Logged : actions[r] > DayStart(t) /\ DayStart(actions[r]) = DayStart(t)} :
                        r # q /\ r \notin requests[q].seen /\ q \notin requests[r].seen
    BY DEF OverspendNeedsOverlap
  <1> DEFINE counted == {r \in Logged : actions[r] > DayStart(t) /\ DayStart(actions[r]) = DayStart(t)}
             seen == [r \in Requests |-> requests[r].seen]
  <1>1. counted \in SUBSET Requests /\ IsFiniteSet(counted)
    BY FS_Subset DEF GatewayInv, SeenInv, Logged
  <1>2. Total(counted) \in Nat /\ (counted = {} => Total(counted) = 0)
    <2> HIDE DEF counted
    <2>1. QED
      BY <1>1, TotalFacts
  <1>3. Policies # {} /\ \A p \in Policies : p.dailyLimit \in Nat /\ Total(counted) > p.dailyLimit
    BY GatewayAssumption
  <1>4. counted # {}
    <2> HIDE DEF counted
    <2>1. QED
      BY <1>2, <1>3
  <1> SUFFICES ASSUME \A r, q \in counted : r # q => r \in requests[q].seen \/ q \in requests[r].seen PROVE FALSE
    OBVIOUS
  <1>5. /\ \A r \in counted : r \notin seen[r]
        /\ \A r, q \in counted : seen[r] \subseteq seen[q] \/ seen[q] \subseteq seen[r]
        /\ \A r, q \in counted : r # q => r \in seen[q] \/ q \in seen[r]
    BY <1>1 DEF GatewayInv, SeenInv
  <1>6. PICK r \in counted : counted \ {r} \subseteq seen[r]
    <2> HIDE DEF counted, seen
    <2>1. IsFiniteSet(counted)
      BY <1>1
    <2>2. QED
      BY <1>4, <1>5, <2>1, SomeoneSawAll
  <1>7. r \in Requests /\ r \in Logged /\ DayStart(actions[r]) = DayStart(t) /\ seen[r] = requests[r].seen
    BY <1>1
  <1> DEFINE beside == {q \in requests[r].seen : actions[q] > DayStart(actions[r])}
  <1>8. PICK p \in Policies : Total(beside) + Value(r) <= p.dailyLimit
    BY <1>7 DEF GatewayInv, SeenInv, RoomAt
  <1>9. counted \ {r} \subseteq beside
    BY <1>6, <1>7
  <1>10. beside \in SUBSET Requests /\ IsFiniteSet(beside)
    <2>1. beside \subseteq Logged
      BY <1>7 DEF GatewayInv, SeenInv
    <2>2. QED
      BY <2>1, FS_Subset DEF GatewayInv, SeenInv, Logged
  <1>11. Value(r) \in Nat /\ p.dailyLimit \in Nat /\ Total(counted) > p.dailyLimit
    BY <1>3, <1>7, ValuesTyped
  <1> HIDE DEF counted, beside
  <1>12. counted \ {r} \in SUBSET Requests /\ IsFiniteSet(counted \ {r})
    BY <1>1, FS_Subset
  <1>13. Total(counted) = Value(r) + Total(counted \ {r}) /\ Total(counted \ {r}) <= Total(beside)
    BY <1>1, <1>9, <1>10, TotalFacts
  <1>14. Total(counted \ {r}) \in Nat /\ Total(beside) \in Nat
    BY <1>10, <1>12, TotalFacts
  <1>15. QED
    BY <1>8, <1>11, <1>13, <1>14

LEMMA PaymentsOverspendFromInv == PaymentsInv => PaymentsOverspendNeedsOverlap
  <1> SUFFICES ASSUME PaymentsInv, NEW t \in 0 .. now,
                      TotalPaid({f \in Recorded : DayStart(payments[f]) = DayStart(t)}) > PaymentDaily
               PROVE  \E f, g \in {f \in Recorded : DayStart(payments[f]) = DayStart(t)} :
                        f # g /\ f \notin fetches[g].seen /\ g \notin fetches[f].seen
    BY DEF PaymentsOverspendNeedsOverlap
  <1> DEFINE counted == {f \in Recorded : DayStart(payments[f]) = DayStart(t)}
             seen == [f \in Fetches |-> fetches[f].seen]
  <1>1. counted \in SUBSET Fetches /\ IsFiniteSet(counted)
    BY FS_Subset DEF PaymentsInv, SeenPaymentsInv, Recorded
  <1>2. TotalPaid(counted) \in Nat /\ (counted = {} => TotalPaid(counted) = 0)
    <2> HIDE DEF counted
    <2>1. QED
      BY <1>1, TotalPaidFacts
  <1>3. PaymentDaily \in Nat /\ TotalPaid(counted) > PaymentDaily
    BY FetchAssumption
  <1>4. counted # {}
    <2> HIDE DEF counted
    <2>1. QED
      BY <1>2, <1>3
  <1> SUFFICES ASSUME \A f, g \in counted : f # g => f \in fetches[g].seen \/ g \in fetches[f].seen PROVE FALSE
    OBVIOUS
  <1>5. /\ \A f \in counted : f \notin seen[f]
        /\ \A f, g \in counted : seen[f] \subseteq seen[g] \/ seen[g] \subseteq seen[f]
        /\ \A f, g \in counted : f # g => f \in seen[g] \/ g \in seen[f]
    BY <1>1 DEF PaymentsInv, SeenPaymentsInv
  <1>6. PICK f \in counted : counted \ {f} \subseteq seen[f]
    <2> HIDE DEF counted, seen
    <2>1. IsFiniteSet(counted)
      BY <1>1
    <2>2. QED
      BY <1>4, <1>5, <2>1, SomeoneSawAll
  <1>7. f \in Fetches /\ f \in Recorded /\ DayStart(payments[f]) = DayStart(t) /\ seen[f] = fetches[f].seen
    BY <1>1
  <1> DEFINE beside == {g \in fetches[f].seen : payments[g] >= DayStart(payments[f])}
  <1>8. TotalPaid(beside) + Amount(f) <= PaymentDaily
    BY <1>7 DEF PaymentsInv, SeenPaymentsInv, PaymentRoomAt
  <1>9. counted \ {f} \subseteq beside
    <2>1. \A g \in Recorded : payments[g] \in Nat
      BY DEF Recorded, PaymentsInv, FetchTypeOK
    <2>2. \A g \in Recorded : DayStart(payments[g]) <= payments[g]
      BY <2>1, DayStartFacts
    <2>3. \A g \in counted : g \in Recorded /\ DayStart(payments[g]) = DayStart(payments[f])
      BY <1>7
    <2>4. \A g \in counted : payments[g] >= DayStart(payments[f])
      <3> SUFFICES ASSUME NEW g \in counted PROVE payments[g] >= DayStart(payments[f])
        OBVIOUS
      <3>1. payments[g] \in Nat /\ DayStart(payments[g]) <= payments[g] /\ DayStart(payments[g]) = DayStart(payments[f])
        BY <2>1, <2>2, <2>3
      <3>2. DayStart(payments[g]) \in Nat
        BY <3>1, DayStartFacts
      <3>3. QED
        BY <3>1, <3>2
    <2>5. QED
      BY <1>6, <1>7, <2>4
  <1>10. beside \in SUBSET Fetches /\ IsFiniteSet(beside)
    <2>1. beside \subseteq Recorded
      BY <1>7 DEF PaymentsInv, SeenPaymentsInv
    <2>2. QED
      BY <2>1, FS_Subset DEF PaymentsInv, SeenPaymentsInv, Recorded
  <1>11. Amount(f) \in Nat
    BY <1>7, AmountsTyped
  <1> HIDE DEF counted, beside
  <1>12. counted \ {f} \in SUBSET Fetches /\ IsFiniteSet(counted \ {f})
    BY <1>1, FS_Subset
  <1>13. TotalPaid(counted) = Amount(f) + TotalPaid(counted \ {f}) /\ TotalPaid(counted \ {f}) <= TotalPaid(beside)
    BY <1>1, <1>9, <1>10, TotalPaidFacts
  <1>14. TotalPaid(counted \ {f}) \in Nat /\ TotalPaid(beside) \in Nat
    BY <1>10, <1>12, TotalPaidFacts
  <1>15. QED
    BY <1>3, <1>8, <1>11, <1>13, <1>14

\* The requests logged on one day exceed the largest daily limit only when two of
\* them were in progress at once (compiler-gateway.ts:98, owner-policy.ts:238).
THEOREM OverspendOverlaps == PaymentsSpec => []OverspendNeedsOverlap
  <1>1. PaymentsInv => OverspendNeedsOverlap
    BY OverspendFromInv DEF PaymentsInv
  <1>2. QED
    BY <1>1, PaymentsInvariance, PTL

\* The payments recorded on one day exceed the daily limit only when two of them were
\* in progress at once (x402-client.ts:204).
THEOREM PaymentsOverspendOverlaps == PaymentsSpec => []PaymentsOverspendNeedsOverlap
  BY PaymentsOverspendFromInv, PaymentsInvariance, PTL

-----------------------------------------------------------------------------
(* Plans.                                                                  *)

LEMMA FinalKept ==
  ASSUME PaymentsInv, [PaymentsNext]_paymentsVars, NEW p \in Plans, plans[p].status \in {"COMPLETED", "REJECTED"}
  PROVE  plans'[p] = plans[p]
  <1> DEFINE Kept == plans'[p] = plans[p]
  <1>1. GatewayTypeOK /\ RequestInv /\ plans \in [Plans -> PlanRow] /\ Fetches \subseteq Requests
    BY FetchAssumption DEF PaymentsInv, GatewayInv, GatewayTypeOK
  <1>2. ASSUME NEW q \in Plans, NEW status \in DOMAIN Lifecycle, plans' = Move(plans, q, status) PROVE Kept
    BY <1>1, <1>2, MoveFacts
  <1>3. ASSUME NEW r \in Requests, RequestStep(r) PROVE Kept
    <2>1. ASSUME NEW q \in Plans, NEW approval \in BOOLEAN, Compile(r, q, approval) PROVE Kept
      BY <1>1, <2>1, CompileFacts
    <2>2. CASE Dispatch(r)
      <3>1. requests[r].plan \in Plans
        BY <1>1, <2>2 DEF Dispatch, RequestInv
      <3>2. plans' = plans \/ plans' = Move(Move(plans, requests[r].plan, "APPROVED"), requests[r].plan, "EXECUTING")
        BY <2>2 DEF Dispatch
      <3>3. QED
        BY <1>1, <3>1, <3>2, DispatchedPlans
    <2>3. CASE Succeed(r)
      BY <1>1, <1>2, <2>3, LifecycleFacts DEF Succeed, RequestInv
    <2>4. CASE Fail(r)
      BY <1>1, <1>2, <2>4, LifecycleFacts DEF Fail, RequestInv
    <2>5. CASE CompileFails(r) \/ Send(r)
      BY <2>5 DEF CompileFails, Send
    <2>6. QED
      BY <1>3, <2>1, <2>2, <2>3, <2>4, <2>5 DEF RequestStep
  <1>4. CASE OwnerStep
    <2>1. ASSUME NEW q \in Plans, NEW status \in {"APPROVED", "REJECTED", "EXECUTING"}, MovePlan(q, status) PROVE Kept
      BY <1>2, <2>1, LifecycleFacts DEF MovePlan
    <2>2. QED
      BY <1>4, <2>1 DEF OwnerStep, SetOwnerPolicy, DeleteOwnerPolicy, PruneCache
  <1>5. ASSUME NEW r \in Requests, Begin(r) \/ Mine(r) PROVE Kept
    BY <1>5 DEF Begin, Mine
  <1>6. CASE Pass \/ ServerCrash
    BY <1>6 DEF Pass, ServerCrash
  <1>7. CASE UNCHANGED gatewayVars
    BY <1>7 DEF gatewayVars
  <1>8. QED
    BY <1>1, <1>3, <1>4, <1>5, <1>6, <1>7 DEF PaymentsNext, paymentsVars

\* Completed and rejected plans stay so, whichever request that shares the plan ends
\* last (execution-plan.ts:17).
THEOREM FinalPlansAreFinal == PaymentsSpec => FinalPlansStay
  <1>1. PaymentsInv /\ [PaymentsNext]_paymentsVars =>
          [\A p \in Plans : plans[p].status \in {"COMPLETED", "REJECTED"} => plans'[p] = plans[p]]_gatewayVars
    BY FinalKept
  <1>2. QED
    BY <1>1, PaymentsInvariance, PTL DEF PaymentsSpec, FinalPlansStay

-----------------------------------------------------------------------------
(* The credential trees: greatest elements, sequences, and the operators   *)
(* on rows and trees.                                                      *)

\* A bounded set of naturals that is not empty has a greatest element.
LEMMA GreatestNatural ==
  ASSUME NEW T \in SUBSET Nat, T # {}, NEW b \in Nat, \A n \in T : n <= b
  PROVE  \E n \in T : \A m \in T : m <= n
  <1> DEFINE Above == {u \in Nat : \A n \in T : n <= u}
  <1>1. PICK u \in Above : \A w \in Above : u <= w
    BY LeastNatural
  <1>2. u \in T
    <2> SUFFICES ASSUME u \notin T PROVE FALSE
      OBVIOUS
    <2>0. PICK n \in T : n \in Nat /\ n <= u /\ n # u
      BY <1>1
    <2>1. u \in Nat /\ u # 0
      BY <2>0
    <2>2. u - 1 \in Above
      BY <2>1
    <2>3. QED
      BY <1>1, <2>2
  <1>3. QED
    BY <1>2

LEMMA AppendFacts ==
  ASSUME NEW S, NEW s \in Seq(S), NEW c \in S
  PROVE  /\ Append(s, c) \in Seq(S) /\ Len(Append(s, c)) = Len(s) + 1
         /\ Range(Append(s, c)) = Range(s) \union {c}
         /\ IsInjective(s) /\ c \notin Range(s) => IsInjective(Append(s, c))
         /\ IsFiniteSet(Range(s)) => IsFiniteSet(Range(Append(s, c)))
  <1>1. /\ Append(s, c) \in Seq(S) /\ Len(Append(s, c)) = Len(s) + 1
        /\ DOMAIN s = 1 .. Len(s) /\ DOMAIN Append(s, c) = 1 .. Len(s) + 1 /\ Len(s) \in Nat
        /\ \A i \in DOMAIN s : Append(s, c)[i] = s[i]
        /\ Append(s, c)[Len(s) + 1] = c
    OBVIOUS
  <1>2. Range(Append(s, c)) = Range(s) \union {c}
    BY <1>1 DEF Range
  <1>3. IsInjective(s) /\ c \notin Range(s) => IsInjective(Append(s, c))
    BY <1>1 DEF IsInjective, Range
  <1>4. IsFiniteSet(Range(s)) => IsFiniteSet(Range(Append(s, c)))
    BY <1>2, FS_AddElement
  <1>5. QED
    BY <1>1, <1>2, <1>3, <1>4

\* The next index is within the depth, and above every index that is.
LEMMA NextIndexFacts ==
  ASSUME NEW table \in [Credentials -> CredentialRow]
  PROVE  /\ NextIndex(table) \in 0 .. MaxLeaves
         /\ \A c \in Credentials :
                table[c].status = "live" /\ table[c].index # Nil /\ table[c].index < MaxLeaves =>
                    table[c].index \in Nat /\ table[c].index < NextIndex(table)
  <1> DEFINE used == {i \in 0 .. MaxLeaves - 1 : \E c \in Assigned(table) : table[c].index = i}
  <1>1. MaxLeaves \in Nat \ {0}
    BY TreesAssumption
  <1>2. \A c \in Credentials :
          table[c].status = "live" /\ table[c].index # Nil /\ table[c].index < MaxLeaves =>
            table[c].index \in Nat /\ table[c].index \in used
    BY <1>1 DEF Assigned, Live, CredentialRow
  <1>3. CASE used = {}
    <2>1. NextIndex(table) = 0
      BY <1>3 DEF NextIndex
    <2>2. QED
      BY <1>1, <1>2, <1>3, <2>1
  <1>4. CASE used # {}
    <2> DEFINE top == CHOOSE i \in used : \A j \in used : j <= i
    <2>1. used \in SUBSET Nat /\ \A i \in used : i <= MaxLeaves
      BY <1>1
    <2>2. \E i \in used : \A j \in used : j <= i
      <3> HIDE DEF used
      <3> QED BY <1>1, <1>4, <2>1, GreatestNatural
    <2>3. top \in used /\ \A j \in used : j <= top
      <3> HIDE DEF used
      <3> QED BY <2>2
    <2>4. NextIndex(table) = 1 + top
      BY <1>4 DEF NextIndex
    <2>5. top \in 0 .. MaxLeaves - 1
      BY <2>3
    <2> HIDE DEF top, used
    <2>6. QED
      BY <1>1, <1>2, <2>3, <2>4, <2>5
  <1>5. QED
    BY <1>3, <1>4

\* Rows without an index have different places.
LEMMA PlaceFacts ==
  ASSUME TreesTypeOK, RowsInv, NEW c \in Unplaced(rows)
  PROVE  /\ Place(rows, c) \in Nat
         /\ \A d \in Unplaced(rows) : d # c => Place(rows, d) # Place(rows, c)
  <1> DEFINE Before(d) == {e \in Unplaced(rows) : Position(e) < Position(d)}
  <1>1. \A d \in Unplaced(rows) : Position(d) \in DOMAIN issued /\ issued[Position(d)] = d
    BY DEF RowsInv, Range, HasRow, Unplaced, Live, Position
  <1>2. DOMAIN issued \in SUBSET Nat
    BY DEF TreesTypeOK
  <1>3. IsFiniteSet(Unplaced(rows))
    <2>1. Unplaced(rows) \in SUBSET Range(issued)
      BY DEF RowsInv, HasRow, Unplaced, Live
    <2>2. QED
      BY <2>1, FS_Subset DEF RowsInv
  <1>4. \A d \in Unplaced(rows) : IsFiniteSet(Before(d)) /\ Place(rows, d) = Cardinality(Before(d)) /\ Place(rows, d) \in Nat
    BY <1>3, FS_Subset, FS_CardinalityType DEF Place
  <1>5. ASSUME NEW e \in Unplaced(rows), NEW d \in Unplaced(rows), Position(e) < Position(d)
        PROVE  Place(rows, e) < Place(rows, d)
    <2>1. e \in Before(d) /\ Before(e) \subseteq Before(d) \ {e}
      BY <1>1, <1>2, <1>5
    <2>2. IsFiniteSet(Before(d) \ {e}) /\ Cardinality(Before(d) \ {e}) = Cardinality(Before(d)) - 1
      BY <1>4, <2>1, FS_RemoveElement
    <2>3. Cardinality(Before(e)) <= Cardinality(Before(d) \ {e})
      BY <2>1, <2>2, FS_Subset
    <2> HIDE DEF Before
    <2>4. QED
      BY <1>4, <2>2, <2>3
  <1>6. ASSUME NEW d \in Unplaced(rows), d # c PROVE Place(rows, d) # Place(rows, c)
    <2>1. Position(c) \in Nat /\ Position(d) \in Nat /\ Position(c) # Position(d)
      BY <1>1, <1>2, <1>6
    <2>2. Position(c) < Position(d) \/ Position(d) < Position(c)
      BY <2>1
    <2>3. \A m, n \in Nat : m < n \/ n < m => m # n
      OBVIOUS
    <2>4. Place(rows, c) \in Nat /\ Place(rows, d) \in Nat
      BY <1>4
    <2>5. Place(rows, c) < Place(rows, d) \/ Place(rows, d) < Place(rows, c)
      BY <1>5, <2>2
    <2>6. QED
      BY <2>3, <2>4, <2>5
  <1>7. QED
    BY <1>4, <1>6

\* Two tables that differ only in indices.
SameRows(new, table) ==
    /\ new \in [Credentials -> CredentialRow]
    /\ \A c \in Credentials : new[c].status = table[c].status /\ new[c].agent = table[c].agent

Placed(row, i) == [row EXCEPT !.index = i]

LEMMA PlacedFacts ==
  ASSUME NEW row \in CredentialRow, NEW i \in Nat \union {Nil}
  PROVE  LET new == Placed(row, i) IN
         /\ new \in CredentialRow /\ new.index = i
         /\ new.status = row.status /\ new.agent = row.agent
  BY DEF Placed, CredentialRow

LEMMA NilFacts ==
  /\ MaxLeaves \in Nat \ {0}
  /\ \A n \in Nat : n # Nil
  /\ \A k \in Calls : k # Nil
  /\ \A p \in Processes : p # Nil
  /\ \A c \in Credentials : c \in Calls /\ c \notin Revocations
  /\ \A v \in Revocations : v \in Calls /\ v \notin Credentials
  /\ \A k \in Calls : k \in Credentials \/ k \in Revocations
  BY TreesAssumption DEF Calls

\* Every live row has an index after the backfill, and those that fit differ.
LEMMA BackfilledFacts ==
  ASSUME TreesTypeOK, RowsInv
  PROVE  /\ SameRows(Backfilled(rows), rows)
         /\ \A c \in Credentials : rows[c].index # Nil => Backfilled(rows)[c].index = rows[c].index
         /\ \A c \in Live(rows) : Backfilled(rows)[c].index # Nil
         /\ IndicesDistinct(rows) => IndicesDistinct(Backfilled(rows))
  <1> DEFINE next == NextIndex(rows)
             index(c) == next + Place(rows, c)
             new == Backfilled(rows)
             at(c) == IF index(c) < MaxLeaves THEN index(c) ELSE MaxLeaves
  <1>1. rows \in [Credentials -> CredentialRow]
    BY DEF TreesTypeOK
  <1>2. /\ next \in Nat
        /\ \A c \in Credentials : rows[c].status = "live" /\ rows[c].index # Nil /\ rows[c].index < MaxLeaves => rows[c].index \in Nat /\ rows[c].index < next
    BY <1>1, NextIndexFacts, NilFacts
  <1>3. \A c \in Unplaced(rows) : index(c) \in Nat /\ index(c) >= next
    BY <1>2, PlaceFacts
  <1>4. \A c \in Unplaced(rows) : \A d \in Unplaced(rows) \ {c} : index(c) # index(d)
    <2> SUFFICES ASSUME NEW c \in Unplaced(rows), NEW d \in Unplaced(rows), c # d PROVE index(c) # index(d)
      OBVIOUS
    <2>1. Place(rows, c) \in Nat /\ Place(rows, d) \in Nat /\ Place(rows, c) # Place(rows, d)
      BY PlaceFacts
    <2>2. QED
      BY <1>2, <2>1
  <1>5. \A c \in Credentials : new[c] = IF c \in Unplaced(rows) THEN Placed(rows[c], at(c)) ELSE rows[c]
    BY DEF Backfilled, Placed
  <1>6. DOMAIN new = Credentials /\ new = [c \in Credentials |-> new[c]]
    BY DEF Backfilled
  <1> HIDE DEF new, next
  <1>7. \A c \in Unplaced(rows) : c \in Credentials /\ at(c) \in Nat /\ (at(c) = MaxLeaves \/ (at(c) = index(c) /\ index(c) < MaxLeaves))
    BY <1>3, NilFacts DEF Unplaced, Live
  <1> HIDE DEF index, at
  <1>8. \A c \in Credentials :
          /\ new[c] \in CredentialRow /\ new[c].status = rows[c].status /\ new[c].agent = rows[c].agent
          /\ c \in Unplaced(rows) => new[c].index = at(c)
          /\ c \notin Unplaced(rows) => new[c] = rows[c]
    <2> SUFFICES ASSUME NEW c \in Credentials
                 PROVE  /\ new[c] \in CredentialRow /\ new[c].status = rows[c].status /\ new[c].agent = rows[c].agent
                        /\ c \in Unplaced(rows) => new[c].index = at(c)
                        /\ c \notin Unplaced(rows) => new[c] = rows[c]
      OBVIOUS
    <2>1. rows[c] \in CredentialRow
      BY <1>1
    <2>2. CASE c \in Unplaced(rows)
      <3>1. at(c) \in Nat \union {Nil} /\ new[c] = Placed(rows[c], at(c))
        BY <1>5, <1>7, <2>2
      <3>2. /\ Placed(rows[c], at(c)) \in CredentialRow /\ Placed(rows[c], at(c)).index = at(c)
            /\ Placed(rows[c], at(c)).status = rows[c].status /\ Placed(rows[c], at(c)).agent = rows[c].agent
        BY <2>1, <3>1, PlacedFacts
      <3>3. QED
        BY <2>2, <3>1, <3>2
    <2>3. CASE c \notin Unplaced(rows)
      BY <1>5, <2>1, <2>3
    <2>4. QED
      BY <2>2, <2>3
  <1>9. SameRows(new, rows)
    BY <1>6, <1>8 DEF SameRows
  <1>10. \A c \in Credentials : rows[c].index # Nil => new[c].index = rows[c].index
    BY <1>8 DEF Unplaced
  <1>11. \A c \in Live(rows) : new[c].index # Nil
    BY <1>7, <1>8, NilFacts DEF Unplaced, Live
  <1>12. ASSUME IndicesDistinct(rows) PROVE IndicesDistinct(new)
    <2> SUFFICES ASSUME NEW c \in Credentials, NEW d \in Credentials, c # d,
                        new[c].status = "live", new[d].status = "live", new[c].index = new[d].index,
                        new[c].index # Nil, ~(new[c].index >= MaxLeaves)
                 PROVE  FALSE
      BY DEF IndicesDistinct
    <2>0. rows[c].status = "live" /\ rows[d].status = "live"
      BY <1>8
    <2>1. CASE c \in Unplaced(rows) /\ d \in Unplaced(rows)
      BY <1>3, <1>4, <1>7, <1>8, <2>1, NilFacts
    <2>2. CASE c \in Unplaced(rows) /\ d \notin Unplaced(rows)
      <3>1. new[d].index = rows[d].index /\ rows[d].index \in Nat
        BY <1>1, <1>8, <2>0, <2>2 DEF CredentialRow
      <3>2. rows[d].index = index(c) /\ index(c) < MaxLeaves
        BY <1>3, <1>7, <1>8, <2>2, <3>1, NilFacts
      <3>3. QED
        BY <1>2, <1>3, <2>0, <2>2, <3>1, <3>2, NilFacts
    <2>3. CASE c \notin Unplaced(rows) /\ d \in Unplaced(rows)
      <3>1. new[c].index = rows[c].index /\ rows[c].index \in Nat
        BY <1>1, <1>8, <2>0, <2>3 DEF CredentialRow
      <3>2. rows[c].index = index(d) /\ index(d) < MaxLeaves
        <4>0. MaxLeaves \in Nat /\ MaxLeaves >= MaxLeaves
          BY NilFacts
        <4>1. new[d].index = at(d) /\ rows[c].index = at(d) /\ at(d) # MaxLeaves
          <5>1. new[d].index = at(d)
            BY <1>8, <2>3
          <5>2. QED
            BY <3>1, <4>0, <5>1
        <4>2. QED
          BY <1>7, <2>3, <4>1
      <3>3. QED
        BY <1>2, <1>3, <2>0, <2>3, <3>1, <3>2, NilFacts
    <2>4. CASE c \notin Unplaced(rows) /\ d \notin Unplaced(rows)
      BY <1>8, <1>12, <2>0, <2>4 DEF IndicesDistinct
    <2>5. QED
      BY <2>1, <2>2, <2>3, <2>4
  <1>13. QED
    BY <1>9, <1>10, <1>11, <1>12 DEF new

\* The tree made from the rows agrees with them.
LEMMA LoadedFacts ==
  ASSUME NEW table \in [Credentials -> CredentialRow]
  PROVE  /\ Loaded(table) \in Tree /\ Agrees(Loaded(table), table)
         /\ \A c \in Credentials : Loaded(table).indexOf[c] # Nil => table[c].status = "live"
  <1> DEFINE tree == Loaded(table)
  <1>1. /\ NextIndex(table) \in 0 .. MaxLeaves
        /\ \A c \in Credentials : table[c].status = "live" /\ table[c].index # Nil /\ table[c].index < MaxLeaves => table[c].index \in Nat /\ table[c].index < NextIndex(table)
    BY NextIndexFacts
  <1>2. /\ tree.next = NextIndex(table)
        /\ \A c \in Credentials : tree.indexOf[c] =
            IF table[c].status = "live" /\ table[c].index # Nil /\ table[c].index < MaxLeaves THEN table[c].index ELSE Nil
    BY DEF Loaded, Live
  <1>3. tree \in Tree
    BY <1>1 DEF Loaded, Tree, Live
  <1>4. Agrees(tree, table)
    BY <1>1, <1>2, NilFacts DEF Agrees
  <1>5. QED
    BY <1>2, <1>3, <1>4

WithLeaf(tree, c, i, n) == [indexOf |-> [tree.indexOf EXCEPT ![c] = i], next |-> n]

WithIndex(table, c, i) == [table EXCEPT ![c] = Placed(table[c], i)]

LEMMA WithIndexFacts ==
  ASSUME NEW table \in [Credentials -> CredentialRow], NEW c \in Credentials, NEW i \in Nat \union {Nil}
  PROVE  LET new == WithIndex(table, c, i) IN
         /\ SameRows(new, table) /\ new[c].index = i
         /\ \A d \in Credentials : d # c => new[d] = table[d]
  <1> DEFINE new == WithIndex(table, c, i)
  <1>1. /\ Placed(table[c], i) \in CredentialRow /\ Placed(table[c], i).index = i
        /\ Placed(table[c], i).status = table[c].status /\ Placed(table[c], i).agent = table[c].agent
    BY PlacedFacts
  <1>2. new \in [Credentials -> CredentialRow] /\ new[c] = Placed(table[c], i) /\ \A d \in Credentials : d # c => new[d] = table[d]
    BY <1>1 DEF WithIndex
  <1> HIDE DEF new
  <1>3. QED
    BY <1>1, <1>2 DEF SameRows, new

\* The cases of addLeaf.
LEMMA AddLeafCases ==
  ASSUME NEW table \in [Credentials -> CredentialRow], NEW tree \in Tree, NEW c \in Credentials
  PROVE  LET new == AddLeaf(table, tree, c) IN
         \/ tree.indexOf[c] # Nil /\ new.rows = WithIndex(table, c, tree.indexOf[c]) /\ new.tree = tree
         \/ tree.indexOf[c] = Nil /\ tree.next >= MaxLeaves /\ new.rows = table /\ new.tree = tree
         \/ tree.indexOf[c] = Nil /\ ~(tree.next >= MaxLeaves) /\ new.rows = WithIndex(table, c, tree.next) /\ new.tree = WithLeaf(tree, c, tree.next, tree.next + 1)
  <1>1. CASE tree.indexOf[c] # Nil
    BY <1>1 DEF AddLeaf, WithIndex, Placed
  <1>2. CASE Full(tree, c)
    BY <1>2 DEF AddLeaf, Full
  <1>3. CASE tree.indexOf[c] = Nil /\ ~Full(tree, c)
    BY <1>3 DEF AddLeaf, Full, WithIndex, Placed, WithLeaf
  <1>4. QED
    BY <1>1, <1>2, <1>3

\* Two tables that agree on the live rows and on which rows there are.
LEMMA AddLeafFacts ==
  ASSUME NEW table \in [Credentials -> CredentialRow], NEW tree \in Tree, NEW c \in Credentials
  PROVE  LET new == AddLeaf(table, tree, c) IN
         /\ SameRows(new.rows, table) /\ new.tree \in Tree
         /\ \A d \in Credentials : d # c => new.tree.indexOf[d] = tree.indexOf[d]
         /\ Agrees(tree, table) /\ IndicesDistinct(table) /\ table[c].status # "none" =>
                Agrees(new.tree, new.rows) /\ IndicesDistinct(new.rows)
  <1> DEFINE new == AddLeaf(table, tree, c)
  <1>0. SameRows(table, table) /\ tree.next \in Nat /\ tree.indexOf[c] \in Nat \union {Nil}
    BY DEF SameRows, Tree
  <1>1. CASE tree.indexOf[c] # Nil /\ new.rows = WithIndex(table, c, tree.indexOf[c]) /\ new.tree = tree
    <2>1. /\ SameRows(new.rows, table) /\ new.rows[c].index = tree.indexOf[c]
          /\ \A d \in Credentials : d # c => new.rows[d] = table[d]
      BY <1>0, <1>1, WithIndexFacts
    <2> HIDE DEF new
    <2>2. ASSUME Agrees(tree, table), IndicesDistinct(table), table[c].status # "none"
          PROVE  Agrees(new.tree, new.rows) /\ IndicesDistinct(new.rows)
      <3>1. Agrees(tree, new.rows)
        BY <2>1, <2>2 DEF Agrees, SameRows
      <3>2. \A d \in Credentials : table[d].status = "live" => new.rows[d].index = table[d].index
        BY <1>1, <2>1, <2>2 DEF Agrees
      <3>3. IndicesDistinct(new.rows)
        BY <2>1, <2>2, <3>2 DEF IndicesDistinct, SameRows
      <3>4. QED
        BY <1>1, <3>1, <3>3
    <2>3. QED
      BY <1>1, <2>1, <2>2 DEF new
  <1>2. CASE tree.indexOf[c] = Nil /\ tree.next >= MaxLeaves /\ new.rows = table /\ new.tree = tree
    BY <1>0, <1>2
  <1>3. CASE tree.indexOf[c] = Nil /\ ~(tree.next >= MaxLeaves) /\ new.rows = WithIndex(table, c, tree.next) /\ new.tree = WithLeaf(tree, c, tree.next, tree.next + 1)
    <2>1. /\ SameRows(new.rows, table) /\ new.rows[c].index = tree.next
          /\ \A d \in Credentials : d # c => new.rows[d] = table[d]
      BY <1>0, <1>3, WithIndexFacts
    <2>2. /\ new.tree \in Tree /\ new.tree.next = tree.next + 1 /\ new.tree.indexOf[c] = tree.next
          /\ \A d \in Credentials : d # c => new.tree.indexOf[d] = tree.indexOf[d]
      <3> HIDE DEF new
      <3>1. tree.next + 1 \in Nat /\ tree.next \in Nat \union {Nil}
        BY <1>0
      <3>2. QED
        BY <1>3, <3>1 DEF WithLeaf, Tree
    <2> HIDE DEF new
    <2>3. ASSUME Agrees(tree, table), IndicesDistinct(table), table[c].status # "none"
          PROVE  Agrees(new.tree, new.rows) /\ IndicesDistinct(new.rows)
      <3>1. new.tree.next <= MaxLeaves
        BY <1>0, <1>3, <2>2, NilFacts
      <3>2. \A d \in Credentials : d # c =>
              /\ tree.indexOf[d] # Nil => tree.indexOf[d] \in Nat /\ tree.indexOf[d] < tree.next
              /\ table[d].status = "live" /\ table[d].index # Nil /\ table[d].index < MaxLeaves => table[d].index # tree.next
        BY <1>0, <2>3 DEF Agrees, Tree
      <3>3. Agrees(new.tree, new.rows)
        <4> SUFFICES ASSUME NEW d \in Credentials
                     PROVE  /\ new.rows[d].status = "live" /\ new.rows[d].index # Nil /\ new.rows[d].index < MaxLeaves =>
                                new.tree.indexOf[d] = new.rows[d].index
                            /\ new.tree.indexOf[d] # Nil =>
                                /\ new.tree.indexOf[d] < new.tree.next
                                /\ new.rows[d].status # "none"
                                /\ new.rows[d].status = "live" => new.rows[d].index = new.tree.indexOf[d]
          BY <3>1 DEF Agrees
        <4>1. CASE d = c
          BY <1>0, <2>1, <2>2, <2>3, <4>1 DEF SameRows
        <4>2. CASE d # c
          <5>1. new.rows[d] = table[d] /\ new.tree.indexOf[d] = tree.indexOf[d]
            BY <2>1, <2>2, <4>2
          <5>2. tree.indexOf[d] # Nil => tree.indexOf[d] < tree.next + 1
            BY <1>0, <3>2, <4>2
          <5>3. QED
            BY <2>2, <2>3, <5>1, <5>2 DEF Agrees
        <4>3. QED
          BY <4>1, <4>2
      <3>4. IndicesDistinct(new.rows)
        <4>1. \A d \in Credentials : d # c /\ table[d].status = "live" /\ table[d].index = tree.next => FALSE
          <5>1. tree.next # Nil /\ tree.next < MaxLeaves
            BY <1>0, <1>3, NilFacts
          <5>2. QED
            BY <3>2, <5>1
        <4>2. QED
          BY <2>1, <2>3, <4>1 DEF IndicesDistinct, SameRows
      <3>5. QED
        BY <3>3, <3>4
    <2>4. QED
      BY <2>1, <2>2, <2>3 DEF new
  <1>4. QED
    BY <1>1, <1>2, <1>3, AddLeafCases

LEMMA RemoveLeafFacts ==
  ASSUME NEW table \in [Credentials -> CredentialRow], NEW tree \in Tree, NEW c \in Credentials
  PROVE  LET new == RemoveLeaf(table, tree, c) IN
         /\ SameRows(new.rows, table) /\ new.tree \in Tree
         /\ new.tree.indexOf[c] = Nil
         /\ \A d \in Credentials : d # c => new.tree.indexOf[d] = tree.indexOf[d]
         /\ Agrees(tree, table) /\ IndicesDistinct(table) /\ table[c].status # "live" =>
                Agrees(new.tree, new.rows) /\ IndicesDistinct(new.rows)
  <1> DEFINE new == RemoveLeaf(table, tree, c)
  <1>1. new.rows = table /\ SameRows(table, table)
    BY DEF RemoveLeaf, SameRows
  <1>2. new.tree = WithLeaf(tree, c, Nil, tree.next) /\ tree.next \in Nat
    BY DEF RemoveLeaf, WithLeaf, Tree
  <1>3. /\ new.tree \in Tree /\ new.tree.next = tree.next /\ new.tree.indexOf[c] = Nil
        /\ \A d \in Credentials : d # c => new.tree.indexOf[d] = tree.indexOf[d]
    <2> HIDE DEF new
    <2>1. Nil \in Nat \union {Nil}
      OBVIOUS
    <2>2. QED
      BY <1>2, <2>1 DEF WithLeaf, Tree
  <1> HIDE DEF new
  <1>4. Agrees(tree, table) /\ table[c].status # "live" => Agrees(new.tree, table)
    BY <1>3 DEF Agrees
  <1>5. QED
    BY <1>1, <1>3, <1>4 DEF new

\* What a call asks of the rows and the tree it works on: they agree, and its leaf has
\* a row, which a revocation has revoked.
Workable(tree, table, k, c) ==
    /\ Agrees(tree, table) /\ IndicesDistinct(table)
    /\ table[c].status # "none"
    /\ k \in Revocations => table[c].status # "live"

\* What a call does with a tree, whichever it is.
LEMMA ApplyFacts ==
  ASSUME NEW table \in [Credentials -> CredentialRow], NEW tree \in Tree, NEW k \in Calls, NEW call, call.leaf \in Credentials
  PROVE  LET new == Apply(k, call, table, tree) IN
         /\ SameRows(new.rows, table) /\ new.tree \in Tree
         /\ \A d \in Credentials : new.tree.indexOf[d] # Nil =>
                (k \in Credentials /\ d = call.leaf) \/ (tree.indexOf[d] # Nil /\ (k \in Credentials \/ d # call.leaf))
         /\ Workable(tree, table, k, call.leaf) =>
                Agrees(new.tree, new.rows) /\ IndicesDistinct(new.rows)
  <1> DEFINE new == Apply(k, call, table, tree)
             c == call.leaf
  <1>1. CASE k \in Credentials
    <2>1. new = AddLeaf(table, tree, c)
      BY <1>1 DEF Apply
    <2>2. /\ SameRows(new.rows, table) /\ new.tree \in Tree
          /\ \A d \in Credentials : d # c => new.tree.indexOf[d] = tree.indexOf[d]
          /\ Agrees(tree, table) /\ IndicesDistinct(table) /\ table[c].status # "none" =>
                Agrees(new.tree, new.rows) /\ IndicesDistinct(new.rows)
      <3> HIDE DEF new
      <3>1. c \in Credentials
        OBVIOUS
      <3> HIDE DEF c
      <3>2. QED
        BY <2>1, <3>1, AddLeafFacts
    <2> SUFFICES /\ SameRows(new.rows, table) /\ new.tree \in Tree
                 /\ \A d \in Credentials : new.tree.indexOf[d] # Nil =>
                        (k \in Credentials /\ d = c) \/ (tree.indexOf[d] # Nil /\ (k \in Credentials \/ d # c))
                 /\ Workable(tree, table, k, c) =>
                        Agrees(new.tree, new.rows) /\ IndicesDistinct(new.rows)
      OBVIOUS
    <2> HIDE DEF new, c
    <2>3. \A d \in Credentials : new.tree.indexOf[d] # Nil =>
            (k \in Credentials /\ d = c) \/ (tree.indexOf[d] # Nil /\ (k \in Credentials \/ d # c))
      BY <1>1, <2>2
    <2>4. Workable(tree, table, k, c) =>
                Agrees(new.tree, new.rows) /\ IndicesDistinct(new.rows)
      BY <1>1, <2>2 DEF Workable
    <2>5. QED
      BY <2>2, <2>3, <2>4
  <1>2. CASE k \notin Credentials
    <2>1. new = RemoveLeaf(table, tree, c) /\ k \in Revocations
      BY <1>2, NilFacts DEF Apply
    <2>2. /\ SameRows(new.rows, table) /\ new.tree \in Tree
          /\ new.tree.indexOf[c] = Nil
          /\ \A d \in Credentials : d # c => new.tree.indexOf[d] = tree.indexOf[d]
          /\ Agrees(tree, table) /\ IndicesDistinct(table) /\ table[c].status # "live" =>
                Agrees(new.tree, new.rows) /\ IndicesDistinct(new.rows)
      <3> HIDE DEF new
      <3>1. c \in Credentials
        OBVIOUS
      <3> HIDE DEF c
      <3>2. QED
        BY <2>1, <3>1, RemoveLeafFacts
    <2> SUFFICES /\ SameRows(new.rows, table) /\ new.tree \in Tree
                 /\ \A d \in Credentials : new.tree.indexOf[d] # Nil =>
                        (k \in Credentials /\ d = c) \/ (tree.indexOf[d] # Nil /\ (k \in Credentials \/ d # c))
                 /\ Workable(tree, table, k, c) =>
                        Agrees(new.tree, new.rows) /\ IndicesDistinct(new.rows)
      OBVIOUS
    <2> HIDE DEF new, c
    <2>3. \A d \in Credentials : new.tree.indexOf[d] # Nil =>
            (k \in Credentials /\ d = c) \/ (tree.indexOf[d] # Nil /\ (k \in Credentials \/ d # c))
      BY <1>2, <2>2
    <2>4. Workable(tree, table, k, c) =>
                Agrees(new.tree, new.rows) /\ IndicesDistinct(new.rows)
      BY <2>1, <2>2 DEF Workable
    <2>5. QED
      BY <2>2, <2>3, <2>4
  <1>3. QED
    BY <1>1, <1>2

-----------------------------------------------------------------------------
(* The calls.                                                              *)

TreePhases == {"loading", "turning", "building", "inserting"}

\* The call goes on, at the same process and about the same credential, or it is over.
GoesOn(new, call) == new.at = call.at /\ new.agent = call.agent /\ new.leaf = call.leaf /\ new.seen = call.seen
Over(new, call) == new.phase = "done" /\ new.seen = call.seen

Phased(call, phase) == [call EXCEPT !.phase = phase]
Based(call, phase, base) == [call EXCEPT !.phase = phase, !.base = base]

LEMMA PhasedFacts ==
  ASSUME NEW call \in CallRow, NEW phase \in TreePhases
  PROVE  LET new == Phased(call, phase) IN
         new \in CallRow /\ new.phase = phase /\ GoesOn(new, call) /\ new.base = call.base
  BY DEF Phased, CallRow, TreePhases, GoesOn

LEMMA BasedFacts ==
  ASSUME NEW call \in CallRow, NEW phase \in TreePhases, NEW base \in SUBSET Credentials
  PROVE  LET new == Based(call, phase, base) IN
         new \in CallRow /\ new.phase = phase /\ GoesOn(new, call) /\ new.base = base
  BY DEF Based, CallRow, TreePhases, GoesOn

LEMMA EndedFacts ==
  ASSUME NEW call \in CallRow
  PROVE  Ended(call) \in CallRow /\ Over(Ended(call), call)
  BY DEF Ended, NewCall, CallRow, Over

LEMMA TurnedFacts ==
  ASSUME NEW call \in CallRow, NEW k, NEW tree
  PROVE  LET new == Turned(k, call, tree) IN
         /\ new \in CallRow
         /\ (k \in Credentials /\ Over(new, call)) \/ (new.phase = "turning" /\ GoesOn(new, call))
  <1>1. CASE k \in Credentials /\ (keys[call.at] # Nil \/ Full(tree, call.leaf))
    BY <1>1, EndedFacts DEF Turned
  <1>2. CASE ~(k \in Credentials /\ (keys[call.at] # Nil \/ Full(tree, call.leaf)))
    <2>1. Turned(k, call, tree) = Phased(call, "turning")
      BY <1>2 DEF Turned, Phased
    <2>2. QED
      BY <2>1, PhasedFacts DEF TreePhases
  <1>3. QED
    BY <1>1, <1>2

\* A call with the active tree: it waits for it, or has done its work on it.
LEMMA WithTreeFacts ==
  ASSUME TreesTypeOK, NEW k \in Calls, NEW table \in [Credentials -> CredentialRow], NEW call \in CallRow,
         call.at \in Processes, call.leaf \in Credentials, WithTree(k, table, call)
  PROVE  /\ calls' \in [Calls -> CallRow] /\ \A o \in Calls : o # k => calls'[o] = calls[o]
         /\ (k \in Credentials /\ Over(calls'[k], call)) \/ (calls'[k].phase \in {"loading", "turning"} /\ GoesOn(calls'[k], call))
         /\ SameRows(rows', table)
         /\ active' \in [Processes -> Tree \union {Nil}] /\ \A p \in Processes : p # call.at => active'[p] = active[p]
         /\ IndicesDistinct(table) /\ (active[call.at] # Nil => Workable(active[call.at], table, k, call.leaf)) =>
                IndicesDistinct(rows') /\ (active'[call.at] # Nil => Agrees(active'[call.at], rows'))
         /\ active'[call.at] # Nil =>
                /\ active[call.at] # Nil
                /\ \A d \in Credentials : active'[call.at].indexOf[d] # Nil =>
                    \/ k \in Credentials /\ d = call.leaf
                    \/ active[call.at].indexOf[d] # Nil /\ (k \in Credentials \/ d # call.leaf)
  <1> DEFINE p == call.at
             tree == active[p]
  <1>0. /\ calls \in [Calls -> CallRow] /\ active \in [Processes -> Tree \union {Nil}] /\ p \in Processes
        /\ SameRows(table, table)
    BY DEF TreesTypeOK, SameRows
  <1>1. CASE tree = Nil
    <2>1. /\ calls' = [calls EXCEPT ![k] = Phased(call, "loading")]
          /\ rows' = table /\ active' = active
      BY <1>1 DEF WithTree, Phased
    <2>2. Phased(call, "loading") \in CallRow /\ Phased(call, "loading").phase = "loading" /\ GoesOn(Phased(call, "loading"), call)
      BY PhasedFacts DEF TreePhases
    <2>3. calls' \in [Calls -> CallRow] /\ calls'[k] = Phased(call, "loading") /\ \A o \in Calls : o # k => calls'[o] = calls[o]
      BY <1>0, <2>1, <2>2
    <2>4. QED
      BY <1>0, <1>1, <2>1, <2>2, <2>3
  <1>2. CASE tree # Nil
    <2> DEFINE after == Apply(k, call, table, tree)
               turned == Turned(k, call, tree)
    <2>1. calls' = [calls EXCEPT ![k] = turned] /\ rows' = after.rows /\ active' = [active EXCEPT ![p] = after.tree]
      BY <1>2 DEF WithTree
    <2>2. turned \in CallRow /\ ((k \in Credentials /\ Over(turned, call)) \/ (turned.phase = "turning" /\ GoesOn(turned, call)))
      BY TurnedFacts
    <2>3. tree \in Tree
      BY <1>0, <1>2
    <2>4. /\ SameRows(after.rows, table) /\ after.tree \in Tree
          /\ \A d \in Credentials : after.tree.indexOf[d] # Nil =>
                (k \in Credentials /\ d = call.leaf) \/ (tree.indexOf[d] # Nil /\ (k \in Credentials \/ d # call.leaf))
          /\ Workable(tree, table, k, call.leaf) => Agrees(after.tree, after.rows) /\ IndicesDistinct(after.rows)
      <3> HIDE DEF tree
      <3>1. QED BY <2>3, ApplyFacts
    <2> HIDE DEF after, turned
    <2>5. calls' \in [Calls -> CallRow] /\ calls'[k] = turned /\ \A o \in Calls : o # k => calls'[o] = calls[o]
      BY <1>0, <2>1, <2>2
    <2>6. /\ active' \in [Processes -> Tree \union {Nil}] /\ active'[p] = after.tree
          /\ \A q \in Processes : q # p => active'[q] = active[q]
      BY <1>0, <2>1, <2>4
    <2>7. QED
      BY <1>2, <2>1, <2>2, <2>4, <2>5, <2>6
  <1>3. QED
    BY <1>1, <1>2

\* What a step may do to a call that is under way, which leaves the rows' part of the
\* invariant as it is.
CallKept(k) ==
    \/ calls'[k] = calls[k]
    \/ Over(calls'[k], calls[k])
    \/ calls[k].phase \in TreePhases /\ calls'[k].phase \in TreePhases /\ GoesOn(calls'[k], calls[k])

\* Shared ids stay shared.
LEMMA SharedKept ==
  ASSUME SameRows(rows', rows), NEW c \in Credentials
  PROVE  /\ HasRow(c)' <=> HasRow(c)
         /\ Shared(c) => Shared(c)'
         /\ Revoked' = Revoked
  BY DEF SameRows, HasRow, Shared, Revoked

\* A step that issues and revokes nothing.
LEMMA RowsKept ==
  ASSUME TreesTypeOK, RowsInv, AgentsInv, SameRows(rows', rows), issued' = issued, early' = early,
         \A k \in Calls : CallKept(k)
  PROVE  RowsInv' /\ AgentsInv'
  <1>1. \A c \in Credentials : /\ HasRow(c)' <=> HasRow(c)
                               /\ rows'[c].status = rows[c].status /\ rows'[c].agent = rows[c].agent
    BY SharedKept DEF SameRows
  <1>2. Revoked' = Revoked
    BY DEF SameRows, Revoked
  <1>3. \A k \in Calls :
          /\ calls'[k].seen = calls[k].seen
          /\ calls'[k].phase = "new" => calls[k].phase = "new"
          /\ calls'[k].phase = "computing" => calls'[k] = calls[k]
          /\ calls[k].phase = "done" => calls'[k].phase = "done"
          /\ calls'[k].phase \notin {"new", "done"} =>
                /\ calls[k].phase \notin {"new", "done"} /\ calls'[k].leaf = calls[k].leaf /\ calls'[k].at = calls[k].at
                /\ calls[k].phase = "computing" => calls'[k].phase = "computing"
    <2> SUFFICES ASSUME NEW k \in Calls
                 PROVE  /\ calls'[k].seen = calls[k].seen
                        /\ calls'[k].phase = "new" => calls[k].phase = "new"
                        /\ calls'[k].phase = "computing" => calls'[k] = calls[k]
                        /\ calls[k].phase = "done" => calls'[k].phase = "done"
                        /\ calls'[k].phase \notin {"new", "done"} =>
                            /\ calls[k].phase \notin {"new", "done"} /\ calls'[k].leaf = calls[k].leaf /\ calls'[k].at = calls[k].at
                            /\ calls[k].phase = "computing" => calls'[k].phase = "computing"
      OBVIOUS
    <2>1. CallKept(k)
      OBVIOUS
    <2>2. QED
      BY <2>1 DEF CallKept, Over, GoesOn, TreePhases
  <1>4. RowsInv'
    <2>1. /\ IsFiniteSet(Range(issued))' /\ IsInjective(issued)'
          /\ \A c \in Credentials : c \in Range(issued)' <=> HasRow(c)'
      BY <1>1 DEF RowsInv
    <2>2. \A c \in Credentials : calls'[c].phase \in {"new", "computing"} => ~HasRow(c)'
      BY <1>1, <1>3, NilFacts DEF RowsInv
    <2>3. \A c \in Revoked' : calls'[c].phase = "done" \/ c \in early'
      BY <1>2, <1>3, NilFacts DEF RowsInv, Revoked
    <2>4. \A k \in Calls : calls'[k].phase \notin {"new", "done"} =>
            /\ calls'[k].at \in Processes
            /\ k \in Credentials => calls'[k].leaf = k /\ (HasRow(k)' \/ calls'[k].phase = "computing")
            /\ k \in Revocations =>
                calls'[k].phase # "computing" /\ calls'[k].leaf \in Credentials /\ rows'[calls'[k].leaf].status = "revoked"
      BY <1>1, <1>3 DEF RowsInv
    <2>5. QED
      BY <2>1, <2>2, <2>3, <2>4 DEF RowsInv
  <1>5. AgentsInv'
    <2> SUFFICES ASSUME NEW c \in Credentials
                 PROVE  /\ calls'[c].seen \subseteq Range(issued)'
                        /\ HasRow(c)' => rows'[c].agent <= Len(issued)'
                        /\ calls'[c].phase = "computing" => calls'[c].agent <= Len(issued)' + 1
                        /\ \A d \in calls'[c].seen :
                            /\ HasRow(c)' => rows'[d].agent < rows'[c].agent
                            /\ calls'[c].phase = "computing" => rows'[d].agent < calls'[c].agent
      BY DEF AgentsInv
    <2>1. c \in Calls /\ calls[c].seen \subseteq Credentials
      BY NilFacts DEF TreesTypeOK, CallRow
    <2>2. QED
      BY <1>1, <1>3, <2>1 DEF AgentsInv
  <1>6. QED
    BY <1>4, <1>5

\* A step at the revoked trees, or at none, leaves the active ones with the rows.
LEMMA LeavesKept ==
  ASSUME LeavesInv, rows' = rows, early' = early,
         \A p \in Processes : active'[p] = active[p] \/ active'[p] = Nil
  PROVE  LeavesInv'
  <1>1. \A c : Shared(c)' <=> Shared(c)
    BY DEF Shared, HasRow
  <1>2. QED
    BY <1>1 DEF LeavesInv

\* A step that leaves the calls at the trees about what they were about, and the keys
\* that were known known.
LEMMA KeysKept ==
  ASSUME KeysInv, SameRows(rows', rows), mixed' = mixed,
         \A p \in Processes : \A k \in AtTrees(p)' : k \in AtTrees(p) /\ calls'[k].leaf = calls[k].leaf,
         \A p \in Processes : \A c \in Revoked :
            c \notin mixed /\ Known(c, p) /\ (\A k \in AtTrees(p) : Carried(c, k)) => Known(c, p)' /\ \A k \in AtTrees(p)' : Carried(c, k)'
  PROVE  KeysInv'
  <1>1. Revoked' = Revoked /\ \A c \in Credentials : Shared(c) => Shared(c)'
    BY SharedKept DEF SameRows, Revoked
  <1>2. ASSUME NEW p \in Processes, NEW k \in AtTrees(p)', NEW o \in AtTrees(p)', k # o PROVE calls'[k].leaf \in mixed'
    BY <1>2 DEF KeysInv
  <1>3. ASSUME NEW p \in Processes, NEW c \in Revoked
        PROVE  Shared(c)' \/ c \in mixed' \/ (Known(c, p)' /\ \A k \in AtTrees(p)' : Carried(c, k)')
    <2>1. c \in Credentials
      BY DEF Revoked
    <2>2. Shared(c) \/ c \in mixed \/ (Known(c, p) /\ \A k \in AtTrees(p) : Carried(c, k))
      BY DEF KeysInv
    <2>3. QED
      BY <1>1, <2>1, <2>2
  <1>4. QED
    BY <1>1, <1>2, <1>3 DEF KeysInv

-----------------------------------------------------------------------------
(* The steps.                                                              *)

LEMMA LoadInv ==
  ASSUME TreesInv, NEW k \in Calls, Load(k)
  PROVE  TreesInv'
  <1> DEFINE p == calls[k].at
             leaf == calls[k].leaf
             back == Backfilled(rows)
             tree == Loaded(back)
             after == Apply(k, calls[k], back, tree)
             turned == Turned(k, calls[k], tree)
  <1>1. /\ TreesTypeOK /\ RowsInv /\ AgentsInv
        /\ calls[k] \in CallRow /\ calls[k].phase = "loading" /\ p \in Processes /\ leaf \in Credentials
        /\ rows[leaf].status # "none" /\ (k \in Revocations => rows[leaf].status = "revoked")
        /\ k \in Credentials => leaf = k
    <2>1. calls[k].phase = "loading" /\ calls[k] \in CallRow /\ TreesTypeOK /\ RowsInv /\ AgentsInv
      BY DEF Load, TreesInv, TreesTypeOK
    <2>2. CASE k \in Credentials
      BY <2>1, <2>2, NilFacts DEF RowsInv, HasRow
    <2>3. CASE k \in Revocations
      BY <2>1, <2>3, NilFacts DEF RowsInv, HasRow
    <2>4. QED
      BY <2>1, <2>2, <2>3, NilFacts
  <1>2. /\ calls' = [calls EXCEPT ![k] = turned]
        /\ rows' = after.rows /\ active' = [active EXCEPT ![p] = after.tree]
        /\ UNCHANGED <<issued, keys, mixed, early, crashes>>
    BY DEF Load
  <1>3. SameRows(back, rows) /\ (IndicesDistinct(rows) => IndicesDistinct(back))
    BY <1>1, BackfilledFacts
  <1>4. back \in [Credentials -> CredentialRow]
    BY <1>3 DEF SameRows
  <1> HIDE DEF back
  <1>5. tree \in Tree /\ Agrees(tree, back) /\ \A c \in Credentials : tree.indexOf[c] # Nil => back[c].status = "live"
    BY <1>4, LoadedFacts
  <1> HIDE DEF tree
  <1>6. turned \in CallRow /\ ((k \in Credentials /\ Over(turned, calls[k])) \/ (turned.phase = "turning" /\ GoesOn(turned, calls[k])))
    BY <1>1, TurnedFacts
  <1> HIDE DEF turned
  <1>7. /\ SameRows(after.rows, back) /\ after.tree \in Tree
        /\ \A d \in Credentials : after.tree.indexOf[d] # Nil =>
                (k \in Credentials /\ d = leaf) \/ (tree.indexOf[d] # Nil /\ (k \in Credentials \/ d # leaf))
        /\ Workable(tree, back, k, leaf) => Agrees(after.tree, after.rows) /\ IndicesDistinct(after.rows)
    BY <1>1, <1>4, <1>5, ApplyFacts
  <1> HIDE DEF after
  <1>8. SameRows(rows', rows)
    BY <1>2, <1>3, <1>7 DEF SameRows
  <1>9. calls \in [Calls -> CallRow] /\ active \in [Processes -> Tree \union {Nil}]
    BY <1>1 DEF TreesTypeOK
  <1>10. calls' \in [Calls -> CallRow] /\ calls'[k] = turned /\ \A o \in Calls : o # k => calls'[o] = calls[o]
    BY <1>2, <1>6, <1>9
  <1>11. active' \in [Processes -> Tree \union {Nil}] /\ active'[p] = after.tree
    BY <1>1, <1>2, <1>7, <1>9
  <1>12. TreesTypeOK'
    BY <1>1, <1>2, <1>8, <1>10, <1>11 DEF TreesTypeOK, SameRows
  <1>13. \A o \in Calls : CallKept(o)
    BY <1>1, <1>6, <1>10 DEF CallKept, TreePhases
  <1>14. RowsInv' /\ AgentsInv'
    BY <1>1, <1>2, <1>8, <1>13, RowsKept
  <1>15. ASSUME OneProcess, LeavesInv PROVE LeavesInv'
    <2>1. Workable(tree, back, k, leaf)
      BY <1>1, <1>3, <1>5, <1>15 DEF Workable, SameRows, LeavesInv
    <2>2. Agrees(after.tree, rows') /\ IndicesDistinct(rows')
      BY <1>2, <1>7, <2>1
    <2>3. ASSUME NEW c \in Credentials, after.tree.indexOf[c] # Nil, rows'[c].status # "live"
          PROVE  Shared(c)' \/ c \in early'
      <3>1. rows[c].status # "live" /\ back[c].status # "live"
        BY <1>3, <1>8, <2>3 DEF SameRows
      <3>2. k \in Credentials /\ c = k
        BY <1>1, <1>5, <1>7, <2>3, <3>1
      <3>3. c \in Revoked
        BY <1>1, <3>1, <3>2 DEF Revoked, TreesTypeOK, CredentialRow
      <3>4. QED
        BY <1>1, <1>2, <3>2, <3>3 DEF RowsInv
    <2>4. \A q \in Processes : q = p
      BY <1>1, <1>15 DEF OneProcess
    <2>5. QED
      BY <1>11, <2>2, <2>3, <2>4 DEF LeavesInv
  <1>16. ASSUME KeysInv PROVE KeysInv'
    <2>1. ASSUME NEW q \in Processes, NEW o \in AtTrees(q)' PROVE o \in AtTrees(q) /\ calls'[o].leaf = calls[o].leaf
      BY <1>1, <1>6, <1>10, <2>1 DEF AtTrees, Over, GoesOn
    <2>2. ASSUME NEW q \in Processes, NEW c \in Revoked, Known(c, q), \A o \in AtTrees(q) : Carried(c, o)
          PROVE  Known(c, q)' /\ \A o \in AtTrees(q)' : Carried(c, o)'
      <3>1. ASSUME NEW v \in AtTrees(q) \intersect Revocations PROVE v \in AtTrees(q)' /\ calls'[v].leaf = calls[v].leaf
        BY <1>6, <1>10, NilFacts DEF AtTrees, GoesOn
      <3>2. Known(c, q)'
        BY <1>2, <2>2, <3>1 DEF Known
      <3>3. ASSUME NEW o \in AtTrees(q)' PROVE Carried(c, o)'
        BY <1>6, <1>10, <2>1, <2>2 DEF Carried, AtTrees, Over
      <3>4. QED
        BY <3>2, <3>3
    <2>3. QED
      BY <1>2, <1>8, <1>16, <2>1, <2>2, KeysKept
  <1>17. OneProcess' <=> OneProcess
    BY DEF OneProcess
  <1>18. QED
    BY <1>12, <1>14, <1>15, <1>16, <1>17 DEF TreesInv

\* A step on calls and revoked trees only.
LEMMA CallsStepInv ==
  ASSUME TreesInv, calls' \in [Calls -> CallRow], \A k \in Calls : CallKept(k),
         keys' \in [Processes -> (SUBSET Credentials) \union {Nil}],
         UNCHANGED <<rows, issued, active, mixed, early>>,
         KeysInv => KeysInv'
  PROVE  TreesInv'
  <1>1. TreesTypeOK /\ RowsInv /\ AgentsInv
    BY DEF TreesInv
  <1>2. TreesTypeOK' /\ SameRows(rows', rows)
    BY <1>1 DEF TreesTypeOK, SameRows
  <1>3. RowsInv' /\ AgentsInv'
    BY <1>1, <1>2, RowsKept
  <1>4. LeavesInv => LeavesInv'
    BY LeavesKept
  <1>5. QED
    BY <1>2, <1>3, <1>4 DEF TreesInv, OneProcess

LEMMA InsertingFacts ==
  ASSUME TreesTypeOK, NEW k \in Calls, NEW root \in SUBSET Credentials
  PROVE  LET new == Inserting(k, root) IN
         /\ new \in CallRow
         /\ \/ k \in Credentials /\ Over(new, calls[k])
            \/ k \in Revocations /\ new.phase = "inserting" /\ GoesOn(new, calls[k]) /\ new.base = root
  <1>1. calls[k] \in CallRow
    BY DEF TreesTypeOK
  <1>2. CASE k \in Credentials
    BY <1>1, <1>2, EndedFacts DEF Inserting
  <1>3. CASE k \notin Credentials
    <2>1. Inserting(k, root) = Based(calls[k], "inserting", root) /\ k \in Revocations
      BY <1>3, NilFacts DEF Inserting, Based
    <2>2. QED
      BY <1>1, <2>1, BasedFacts DEF TreePhases
  <1>4. QED
    BY <1>2, <1>3

LEMMA AskRevokedInv ==
  ASSUME TreesInv, NEW k \in Calls, AskRevoked(k)
  PROVE  TreesInv'
  <1> DEFINE p == calls[k].at
             root == keys[p]
             new == IF root = Nil THEN Based(calls[k], "building", Revoked) ELSE Inserting(k, root)
  <1>1. /\ TreesTypeOK /\ RowsInv /\ calls[k] \in CallRow /\ calls[k].phase = "turning" /\ p \in Processes
        /\ calls \in [Calls -> CallRow] /\ keys \in [Processes -> (SUBSET Credentials) \union {Nil}]
    BY DEF AskRevoked, TreesInv, TreesTypeOK, RowsInv
  <1>2. calls' = [calls EXCEPT ![k] = new] /\ UNCHANGED <<rows, issued, active, keys, mixed, early, crashes>>
    BY DEF AskRevoked, Based
  <1>3. /\ new \in CallRow
        /\ \/ root = Nil /\ new.phase = "building" /\ GoesOn(new, calls[k]) /\ new.base = Revoked
           \/ root # Nil /\ k \in Credentials /\ Over(new, calls[k])
           \/ root # Nil /\ k \in Revocations /\ new.phase = "inserting" /\ GoesOn(new, calls[k]) /\ new.base = root
    <2>1. CASE root = Nil
      <3>1. new = Based(calls[k], "building", Revoked) /\ Revoked \in SUBSET Credentials
        BY <2>1 DEF Revoked
      <3>2. QED
        BY <1>1, <2>1, <3>1, BasedFacts DEF TreePhases
    <2>2. CASE root # Nil
      <3>1. new = Inserting(k, root) /\ root \in SUBSET Credentials
        BY <1>1, <2>2
      <3>2. QED
        BY <1>1, <2>2, <3>1, InsertingFacts
    <2>3. QED
      BY <2>1, <2>2
  <1> HIDE DEF new
  <1>4. calls' \in [Calls -> CallRow] /\ calls'[k] = new /\ \A o \in Calls : o # k => calls'[o] = calls[o]
    BY <1>1, <1>2, <1>3
  <1>5. \A o \in Calls : CallKept(o)
    BY <1>1, <1>3, <1>4 DEF CallKept, TreePhases
  <1>6. ASSUME KeysInv PROVE KeysInv'
    <2>0. k \in AtTrees(p)
      BY <1>1 DEF AtTrees
    <2>1. ASSUME NEW q \in Processes, NEW o \in AtTrees(q)' PROVE o \in AtTrees(q) /\ calls'[o].leaf = calls[o].leaf
      BY <1>1, <1>3, <1>4, <2>1 DEF AtTrees, Over, GoesOn
    <2>2. ASSUME NEW q \in Processes, NEW c \in Revoked, Known(c, q), \A o \in AtTrees(q) : Carried(c, o), c \notin mixed
          PROVE  Known(c, q)' /\ \A o \in AtTrees(q)' : Carried(c, o)'
      <3>1. ASSUME NEW v \in AtTrees(q) \intersect Revocations
            PROVE  keys[q] = Nil \/ (v \in AtTrees(q)' /\ calls'[v].leaf = calls[v].leaf)
        BY <1>3, <1>4, NilFacts DEF AtTrees, GoesOn
      <3>2. Known(c, q)'
        BY <1>2, <2>2, <3>1 DEF Known
      <3>3. ASSUME k \in AtTrees(q)' PROVE Carried(c, k)'
        <4>1. q = p
          BY <1>1, <2>1, <3>3 DEF AtTrees
        <4>2. CASE root = Nil
          BY <1>3, <1>4, <4>2 DEF Carried
        <4>3. CASE root # Nil
          <5>1. k \in Revocations /\ new.phase = "inserting" /\ new.leaf = calls[k].leaf /\ new.base = root
            BY <1>3, <1>4, <3>3, <4>3 DEF AtTrees, Over, GoesOn
          <5>2. CASE c \in root
            BY <1>4, <5>1, <5>2 DEF Carried
          <5>3. CASE c \notin root
            <6>1. PICK v \in AtTrees(p) \intersect Revocations : calls[v].leaf = c
              BY <2>2, <4>1, <4>3, <5>3 DEF Known
            <6>2. v = k
              BY <1>1, <1>6, <2>0, <2>2, <6>1 DEF KeysInv
            <6>3. QED
              BY <1>4, <5>1, <6>1, <6>2 DEF Carried
          <5>4. QED
            BY <5>2, <5>3
        <4>4. QED
          BY <4>2, <4>3
      <3>4. ASSUME NEW o \in AtTrees(q)', o # k PROVE Carried(c, o)'
        BY <1>4, <2>1, <2>2, <3>4 DEF Carried, AtTrees
      <3>5. QED
        BY <3>2, <3>3, <3>4
    <2>3. SameRows(rows', rows)
      BY <1>1, <1>2 DEF SameRows, TreesTypeOK
    <2>4. QED
      BY <1>2, <1>6, <2>1, <2>2, <2>3, KeysKept
  <1>7. QED
    BY <1>1, <1>2, <1>4, <1>5, <1>6, CallsStepInv

LEMMA BuiltInv ==
  ASSUME TreesInv, NEW k \in Calls, Built(k)
  PROVE  TreesInv'
  <1> DEFINE p == calls[k].at
             root == calls[k].base
             new == Inserting(k, root)
             Ends(o) == o # k /\ calls[o].at = p /\ calls[o].phase = "inserting"
  <1>1. /\ TreesTypeOK /\ RowsInv /\ calls[k] \in CallRow /\ calls[k].phase = "building" /\ p \in Processes
        /\ calls \in [Calls -> CallRow] /\ keys \in [Processes -> (SUBSET Credentials) \union {Nil}]
        /\ root \in SUBSET Credentials
    BY DEF Built, TreesInv, TreesTypeOK, RowsInv, CallRow
  <1>2. /\ keys' = [keys EXCEPT ![p] = root]
        /\ calls' = [o \in Calls |-> IF o = k THEN new ELSE IF Ends(o) THEN Ended(calls[o]) ELSE calls[o]]
        /\ UNCHANGED <<rows, issued, active, mixed, early, crashes>>
    BY DEF Built
  <1>3. /\ new \in CallRow
        /\ \/ k \in Credentials /\ Over(new, calls[k])
           \/ k \in Revocations /\ new.phase = "inserting" /\ GoesOn(new, calls[k]) /\ new.base = root
    BY <1>1, InsertingFacts
  <1> HIDE DEF new
  <1>4. \A o \in Calls : Ended(calls[o]) \in CallRow /\ Over(Ended(calls[o]), calls[o])
    BY <1>1, EndedFacts
  <1>5. /\ calls' \in [Calls -> CallRow] /\ calls'[k] = new
        /\ \A o \in Calls : o # k => IF Ends(o) THEN Over(calls'[o], calls[o]) ELSE calls'[o] = calls[o]
    BY <1>1, <1>2, <1>3, <1>4
  <1>6. \A o \in Calls : CallKept(o)
    BY <1>1, <1>3, <1>5 DEF CallKept, TreePhases
  <1>7. keys' \in [Processes -> (SUBSET Credentials) \union {Nil}] /\ keys'[p] = root /\ \A q \in Processes : q # p => keys'[q] = keys[q]
    BY <1>1, <1>2
  <1>8. ASSUME KeysInv PROVE KeysInv'
    <2>0. k \in AtTrees(p)
      BY <1>1 DEF AtTrees
    <2>1. ASSUME NEW q \in Processes, NEW o \in AtTrees(q)'
          PROVE  o \in AtTrees(q) /\ calls'[o].leaf = calls[o].leaf /\ (o = k \/ calls'[o] = calls[o])
      BY <1>1, <1>3, <1>5, <2>1 DEF AtTrees, Over, GoesOn
    <2>2. ASSUME NEW q \in Processes, NEW c \in Revoked, Known(c, q), \A o \in AtTrees(q) : Carried(c, o)
          PROVE  Known(c, q)' /\ \A o \in AtTrees(q)' : Carried(c, o)'
      <3>1. CASE q = p
        <4>1. c \in root
          BY <1>1, <2>0, <2>2, <3>1 DEF Carried
        <4>2. Known(c, q)'
          BY <1>7, <3>1, <4>1 DEF Known
        <4>3. ASSUME NEW o \in AtTrees(q)' PROVE Carried(c, o)'
          BY <1>3, <1>5, <2>1, <2>2, <4>1 DEF Carried, Over
        <4>4. QED
          BY <4>2, <4>3
      <3>2. CASE q # p
        <4>1. ASSUME NEW o \in AtTrees(q) PROVE o \in AtTrees(q)' /\ calls'[o] = calls[o]
          BY <1>5, <3>2 DEF AtTrees
        <4>2. Known(c, q)'
          BY <1>7, <2>2, <3>2, <4>1 DEF Known
        <4>3. ASSUME NEW o \in AtTrees(q)' PROVE Carried(c, o)'
          BY <2>1, <2>2, <4>1 DEF Carried
        <4>4. QED
          BY <4>2, <4>3
      <3>3. QED
        BY <3>1, <3>2
    <2>3. SameRows(rows', rows)
      BY <1>1, <1>2 DEF SameRows, TreesTypeOK
    <2>4. QED
      BY <1>2, <1>8, <2>1, <2>2, <2>3, KeysKept
  <1>9. QED
    BY <1>1, <1>2, <1>5, <1>6, <1>7, <1>8, CallsStepInv

LEMMA InsertKeyInv ==
  ASSUME TreesInv, NEW v \in Revocations, InsertKey(v)
  PROVE  TreesInv'
  <1> DEFINE p == calls[v].at
             root == calls[v].base \union {calls[v].leaf}
  <1>1. /\ TreesTypeOK /\ RowsInv /\ v \in Calls /\ calls[v] \in CallRow /\ calls[v].phase = "inserting" /\ p \in Processes
        /\ calls \in [Calls -> CallRow] /\ keys \in [Processes -> (SUBSET Credentials) \union {Nil}]
        /\ root \in SUBSET Credentials
    BY NilFacts DEF InsertKey, TreesInv, TreesTypeOK, RowsInv, CallRow
  <1>2. /\ keys' = [keys EXCEPT ![p] = root] /\ calls' = [calls EXCEPT ![v] = Ended(calls[v])]
        /\ UNCHANGED <<rows, issued, active, mixed, early, crashes>>
    BY DEF InsertKey
  <1>3. Ended(calls[v]) \in CallRow /\ Over(Ended(calls[v]), calls[v])
    BY <1>1, EndedFacts
  <1>4. calls' \in [Calls -> CallRow] /\ Over(calls'[v], calls[v]) /\ \A o \in Calls : o # v => calls'[o] = calls[o]
    BY <1>1, <1>2, <1>3
  <1>5. \A o \in Calls : CallKept(o)
    BY <1>4 DEF CallKept
  <1>6. keys' \in [Processes -> (SUBSET Credentials) \union {Nil}] /\ keys'[p] = root /\ \A q \in Processes : q # p => keys'[q] = keys[q]
    BY <1>1, <1>2
  <1>7. ASSUME KeysInv PROVE KeysInv'
    <2>0. v \in AtTrees(p)
      BY <1>1 DEF AtTrees
    <2>1. ASSUME NEW q \in Processes, NEW o \in AtTrees(q)' PROVE o \in AtTrees(q) /\ calls'[o] = calls[o]
      BY <1>4, <2>1 DEF AtTrees, Over
    <2>2. ASSUME NEW q \in Processes, NEW c \in Revoked, Known(c, q), \A o \in AtTrees(q) : Carried(c, o)
          PROVE  Known(c, q)' /\ \A o \in AtTrees(q)' : Carried(c, o)'
      <3>1. CASE q = p
        <4>1. c \in root
          BY <1>1, <2>0, <2>2, <3>1 DEF Carried
        <4>2. QED
          BY <1>6, <2>1, <2>2, <3>1, <4>1 DEF Known, Carried
      <3>2. CASE q # p
        <4>1. ASSUME NEW o \in AtTrees(q) PROVE o \in AtTrees(q)' /\ calls'[o] = calls[o]
          BY <1>4, <3>2 DEF AtTrees
        <4>2. QED
          BY <1>6, <2>1, <2>2, <3>2, <4>1 DEF Known, Carried
      <3>3. QED
        BY <3>1, <3>2
    <2>3. SameRows(rows', rows)
      BY <1>1, <1>2 DEF SameRows, TreesTypeOK
    <2>4. QED
      BY <1>2, <1>7, <2>1, <2>2, <2>3, KeysKept
  <1>8. QED
    BY <1>1, <1>2, <1>4, <1>5, <1>6, <1>7, CallsStepInv

LEMMA IssueFailsInv ==
  ASSUME TreesInv, NEW c \in Credentials, IssueFails(c)
  PROVE  TreesInv'
  <1>1. /\ TreesTypeOK /\ c \in Calls /\ calls \in [Calls -> CallRow] /\ calls[c] \in CallRow
        /\ calls[c].phase = "computing"
        /\ calls' = [calls EXCEPT ![c] = Ended(calls[c])]
        /\ UNCHANGED <<rows, issued, active, keys, mixed, early, crashes>>
    BY NilFacts DEF IssueFails, TreesInv, TreesTypeOK
  <1>2. Ended(calls[c]) \in CallRow /\ Over(Ended(calls[c]), calls[c])
    BY <1>1, EndedFacts
  <1>3. calls' \in [Calls -> CallRow] /\ Over(calls'[c], calls[c]) /\ \A o \in Calls : o # c => calls'[o] = calls[o]
    BY <1>1, <1>2
  <1>4. \A o \in Calls : CallKept(o)
    BY <1>3 DEF CallKept
  <1>5. ASSUME KeysInv PROVE KeysInv'
    <2>1. \A q \in Processes : AtTrees(q)' = AtTrees(q) /\ c \notin AtTrees(q)
      BY <1>1, <1>3 DEF AtTrees, Over
    <2>2. \A q \in Processes : \A o \in AtTrees(q) : o \in Calls /\ calls'[o] = calls[o]
      BY <1>3, <2>1 DEF AtTrees
    <2>3. SameRows(rows', rows)
      BY <1>1 DEF SameRows, TreesTypeOK
    <2>4. \A q \in Processes : \A d \in Revoked : Known(d, q) => Known(d, q)'
      BY <1>1, <2>1, <2>2 DEF Known
    <2>5. \A q \in Processes : \A d \in Revoked : \A o \in AtTrees(q) : Carried(d, o) => Carried(d, o)'
      BY <2>2 DEF Carried
    <2>6. QED
      BY <1>1, <1>5, <2>1, <2>2, <2>3, <2>4, <2>5, KeysKept
  <1>6. keys' \in [Processes -> (SUBSET Credentials) \union {Nil}]
    BY <1>1 DEF TreesTypeOK
  <1>7. QED
    BY <1>1, <1>3, <1>4, <1>5, <1>6, CallsStepInv

\* A step that leaves the calls and the revoked trees alone.
LEMMA KeysUntouched ==
  ASSUME KeysInv, SameRows(rows', rows), UNCHANGED <<calls, keys, mixed>>
  PROVE  KeysInv'
  <1>1. \A p \in Processes : AtTrees(p)' = AtTrees(p)
    BY DEF AtTrees
  <1>2. \A p \in Processes : \A c \in Revoked : Known(c, p)' <=> Known(c, p)
    BY <1>1 DEF Known
  <1>3. \A k \in Calls : \A c \in Revoked : Carried(c, k)' <=> Carried(c, k)
    BY DEF Carried
  <1>4. \A p \in Processes : \A k \in AtTrees(p) : k \in Calls
    BY DEF AtTrees
  <1>5. QED
    BY <1>1, <1>2, <1>3, <1>4, KeysKept

LEMMA RebuildInv ==
  ASSUME TreesInv, NEW p \in Processes, Rebuild(p)
  PROVE  TreesInv'
  <1> DEFINE back == Backfilled(rows)
             tree == Loaded(back)
  <1>1. /\ TreesTypeOK /\ RowsInv /\ AgentsInv
        /\ rows' = back /\ active' = [active EXCEPT ![p] = tree]
        /\ UNCHANGED <<issued, calls, keys, mixed, early, crashes>>
    BY DEF Rebuild, TreesInv
  <1>2. SameRows(back, rows) /\ (IndicesDistinct(rows) => IndicesDistinct(back))
    BY <1>1, BackfilledFacts
  <1>3. back \in [Credentials -> CredentialRow]
    BY <1>2 DEF SameRows
  <1> HIDE DEF back
  <1>4. tree \in Tree /\ Agrees(tree, back) /\ \A c \in Credentials : tree.indexOf[c] # Nil => back[c].status = "live"
    BY <1>3, LoadedFacts
  <1> HIDE DEF tree
  <1>5. active' \in [Processes -> Tree \union {Nil}] /\ active'[p] = tree
    BY <1>1, <1>4 DEF TreesTypeOK
  <1>6. TreesTypeOK'
    BY <1>1, <1>3, <1>5 DEF TreesTypeOK
  <1>7. RowsInv' /\ AgentsInv'
    BY <1>1, <1>2, RowsKept DEF CallKept
  <1>8. ASSUME OneProcess, LeavesInv PROVE LeavesInv'
    <2>1. \A q \in Processes : q = p
      BY <1>8 DEF OneProcess
    <2>2. IndicesDistinct(rows')
      BY <1>1, <1>2, <1>8 DEF LeavesInv
    <2>3. QED
      BY <1>1, <1>4, <1>5, <2>1, <2>2 DEF LeavesInv
  <1>9. KeysInv => KeysInv'
    BY <1>1, <1>2, KeysUntouched
  <1>10. QED
    BY <1>6, <1>7, <1>8, <1>9 DEF TreesInv, OneProcess

LEMMA TreesCrashInv ==
  ASSUME TreesInv, NEW p \in Processes, Crash(p)
  PROVE  TreesInv'
  <1>1. /\ TreesTypeOK /\ RowsInv /\ AgentsInv /\ calls \in [Calls -> CallRow]
        /\ active' = [active EXCEPT ![p] = Nil] /\ keys' = [keys EXCEPT ![p] = Nil]
        /\ calls' = [k \in Calls |-> IF calls[k].at = p THEN Ended(calls[k]) ELSE calls[k]]
        /\ UNCHANGED <<rows, issued, mixed, early>>
    BY DEF Crash, TreesInv, TreesTypeOK
  <1>2. \A k \in Calls : Ended(calls[k]) \in CallRow /\ Over(Ended(calls[k]), calls[k])
    BY <1>1, EndedFacts
  <1>3. /\ calls' \in [Calls -> CallRow]
        /\ \A k \in Calls : IF calls[k].at = p THEN Over(calls'[k], calls[k]) ELSE calls'[k] = calls[k]
    BY <1>1, <1>2
  <1>4. /\ active' \in [Processes -> Tree \union {Nil}] /\ \A q \in Processes : active'[q] = active[q] \/ active'[q] = Nil
        /\ keys' \in [Processes -> (SUBSET Credentials) \union {Nil}]
        /\ \A q \in Processes : keys'[q] = IF q = p THEN Nil ELSE keys[q]
    BY <1>1 DEF TreesTypeOK
  <1>5. TreesTypeOK' /\ SameRows(rows', rows)
    BY <1>1, <1>3, <1>4 DEF TreesTypeOK, SameRows
  <1>6. RowsInv' /\ AgentsInv'
    BY <1>1, <1>3, <1>5, RowsKept DEF CallKept
  <1>7. LeavesInv => LeavesInv'
    BY <1>1, <1>4, LeavesKept
  <1>8. ASSUME KeysInv PROVE KeysInv'
    <2>1. ASSUME NEW q \in Processes, NEW o \in AtTrees(q)' PROVE q # p /\ o \in AtTrees(q) /\ calls'[o] = calls[o]
      BY <1>3, <2>1 DEF AtTrees, Over
    <2>2. ASSUME NEW q \in Processes, q # p, NEW o \in AtTrees(q) PROVE o \in AtTrees(q)' /\ calls'[o] = calls[o]
      BY <1>3, <2>2 DEF AtTrees
    <2>3. \A q \in Processes : \A c \in Revoked : Known(c, q) => Known(c, q)'
      BY <1>4, <2>2 DEF Known
    <2>4. \A q \in Processes : \A c \in Revoked : \A o \in AtTrees(q)' : Carried(c, o) => Carried(c, o)'
      BY <2>1 DEF Carried
    <2>5. QED
      BY <1>1, <1>5, <1>8, <2>1, <2>3, <2>4, KeysKept
  <1>9. QED
    BY <1>5, <1>6, <1>7, <1>8 DEF TreesInv, OneProcess

\* The next agent id is above those there are, and no more than one above their number.
LEMMA NextAgentIdFacts ==
  ASSUME TreesTypeOK, RowsInv, AgentsInv
  PROVE  /\ NextAgentId \in Nat /\ NextAgentId <= Len(issued) + 1
         /\ \A d \in Range(issued) : rows[d].agent < NextAgentId
  <1> DEFINE ids == {rows[c].agent : c \in Range(issued)}
             top == CHOOSE a \in ids : \A b \in ids : b <= a
  <1>1. Range(issued) \subseteq Credentials /\ Len(issued) \in Nat
    BY DEF TreesTypeOK, Range
  <1>2. ids \in SUBSET Nat /\ \A a \in ids : a <= Len(issued)
    BY <1>1 DEF TreesTypeOK, CredentialRow, RowsInv, AgentsInv
  <1>3. \A d \in Range(issued) : rows[d].agent \in ids
    OBVIOUS
  <1>4. CASE ids = {}
    <2>1. NextAgentId = 1
      BY <1>4 DEF NextAgentId
    <2>2. \A d \in Range(issued) : FALSE
      BY <1>3, <1>4
    <2>3. QED
      BY <1>1, <2>1, <2>2
  <1>5. CASE ids # {}
    <2>1. NextAgentId = 1 + top
      BY <1>5 DEF NextAgentId
    <2> HIDE DEF ids
    <2>2. \E a \in ids : \A b \in ids : b <= a
      BY <1>1, <1>2, <1>5, GreatestNatural
    <2>3. top \in ids /\ \A b \in ids : b <= top
      BY <2>2
    <2> HIDE DEF top
    <2>4. top \in Nat /\ top <= Len(issued)
      BY <1>2, <2>3
    <2>5. ASSUME NEW d \in Range(issued) PROVE rows[d].agent < 1 + top
      <3>1. rows[d].agent \in Nat /\ rows[d].agent <= top
        BY <1>2, <1>3, <2>3
      <3>2. QED
        BY <2>4, <3>1
    <2>6. QED
      BY <1>1, <2>1, <2>4, <2>5
  <1>6. QED
    BY <1>4, <1>5

Begun(call, p, agent, c, seen) ==
    [call EXCEPT !.phase = "computing", !.at = p, !.agent = agent, !.leaf = c, !.seen = seen]

LEMMA IssueInv ==
  ASSUME TreesInv, NEW p \in Processes, NEW c \in Credentials, Issue(c, p)
  PROVE  TreesInv'
  <1> DEFINE new == Begun(calls[c], p, NextAgentId, c, Range(issued))
  <1>1. /\ TreesTypeOK /\ RowsInv /\ AgentsInv /\ c \in Calls /\ calls \in [Calls -> CallRow] /\ calls[c] \in CallRow
        /\ calls[c].phase = "new"
        /\ calls' = [calls EXCEPT ![c] = new]
        /\ UNCHANGED <<rows, issued, active, keys, mixed, early, crashes>>
    <2>1. calls[c].phase = "new" /\ UNCHANGED <<rows, issued, active, keys, mixed, early, crashes>>
      BY DEF Issue
    <2>2. calls' = [calls EXCEPT ![c] = new]
      BY DEF Issue, Begun
    <2>3. QED
      BY <2>1, <2>2, NilFacts DEF TreesInv, TreesTypeOK
  <1>2. /\ NextAgentId \in Nat /\ NextAgentId <= Len(issued) + 1
        /\ \A d \in Range(issued) : rows[d].agent < NextAgentId
    BY <1>1, NextAgentIdFacts
  <1>3. Range(issued) \in SUBSET Credentials
    BY <1>1 DEF TreesTypeOK, Range
  <1>4. /\ new \in CallRow /\ new.phase = "computing" /\ new.at = p
        /\ new.agent = NextAgentId /\ new.leaf = c /\ new.seen = Range(issued)
    BY <1>1, <1>2, <1>3 DEF Begun, CallRow
  <1> HIDE DEF new
  <1>5. calls' \in [Calls -> CallRow] /\ calls'[c] = new /\ \A o \in Calls : o # c => calls'[o] = calls[o]
    BY <1>1, <1>4
  <1>6. TreesTypeOK' /\ SameRows(rows', rows)
    BY <1>1, <1>5 DEF TreesTypeOK, SameRows
  <1>7. \A d : /\ HasRow(d)' <=> HasRow(d)
               /\ d \in Revoked' <=> d \in Revoked
    BY <1>1 DEF HasRow, Revoked
  <1>8. ~HasRow(c)
    BY <1>1 DEF RowsInv
  <1>9. RowsInv'
    <2>1. IsFiniteSet(Range(issued))' /\ IsInjective(issued)' /\ \A d \in Credentials : d \in Range(issued)' <=> HasRow(d)'
      BY <1>1, <1>7 DEF RowsInv
    <2>2. \A d \in Credentials : calls'[d].phase \in {"new", "computing"} => ~HasRow(d)'
      BY <1>1, <1>5, <1>7, <1>8, NilFacts DEF RowsInv
    <2>3. \A d \in Revoked' : calls'[d].phase = "done" \/ d \in early'
      <3>1. c \notin Revoked
        BY <1>8 DEF Revoked, HasRow
      <3>2. \A d \in Revoked : d \in Credentials
        BY DEF Revoked
      <3>3. QED
        BY <1>1, <1>5, <1>7, <3>1, <3>2, NilFacts DEF RowsInv
    <2>4. \A k \in Calls : calls'[k].phase \notin {"new", "done"} =>
            /\ calls'[k].at \in Processes
            /\ k \in Credentials => calls'[k].leaf = k /\ (HasRow(k)' \/ calls'[k].phase = "computing")
            /\ k \in Revocations =>
                calls'[k].phase # "computing" /\ calls'[k].leaf \in Credentials /\ rows'[calls'[k].leaf].status = "revoked"
      BY <1>1, <1>4, <1>5, <1>7, NilFacts DEF RowsInv
    <2>5. QED
      BY <2>1, <2>2, <2>3, <2>4 DEF RowsInv
  <1>10. AgentsInv'
    <2>1. \A d \in Credentials : calls'[d].seen \subseteq Range(issued)'
      BY <1>1, <1>4, <1>5, NilFacts DEF AgentsInv
    <2>2. \A d \in Credentials : HasRow(d)' => rows'[d].agent <= Len(issued)'
      BY <1>1, <1>7 DEF AgentsInv
    <2>3. \A d \in Credentials : calls'[d].phase = "computing" => calls'[d].agent <= Len(issued)' + 1
      BY <1>1, <1>2, <1>4, <1>5, NilFacts DEF AgentsInv
    <2>4. ASSUME NEW d \in Credentials, NEW e \in calls'[d].seen
          PROVE  /\ HasRow(d)' => rows'[e].agent < rows'[d].agent
                 /\ calls'[d].phase = "computing" => rows'[e].agent < calls'[d].agent
      <3>1. CASE d = c
        BY <1>1, <1>2, <1>4, <1>5, <1>7, <1>8, <2>4, <3>1
      <3>2. CASE d # c
        BY <1>1, <1>5, <1>7, <2>4, <3>2, NilFacts DEF AgentsInv
      <3>3. QED
        BY <3>1, <3>2
    <2>5. QED
      BY <2>1, <2>2, <2>3, <2>4 DEF AgentsInv
  <1>11. LeavesInv => LeavesInv'
    BY <1>1, LeavesKept
  <1>12. ASSUME KeysInv PROVE KeysInv'
    <2>1. \A q \in Processes : AtTrees(q)' = AtTrees(q) /\ c \notin AtTrees(q)
      BY <1>1, <1>4, <1>5 DEF AtTrees
    <2>2. \A q \in Processes : \A o \in AtTrees(q) : o \in Calls /\ calls'[o] = calls[o]
      BY <1>5, <2>1 DEF AtTrees
    <2>3. \A q \in Processes : \A d \in Revoked : Known(d, q) => Known(d, q)'
      BY <1>1, <2>1, <2>2 DEF Known
    <2>4. \A q \in Processes : \A d \in Revoked : \A o \in AtTrees(q) : Carried(d, o) => Carried(d, o)'
      BY <2>2 DEF Carried
    <2>5. QED
      BY <1>1, <1>6, <1>12, <2>1, <2>2, <2>3, <2>4, KeysKept
  <1>13. QED
    BY <1>6, <1>9, <1>10, <1>11, <1>12 DEF TreesInv, OneProcess

\* Rows that are there stay, with their agents: those that share an id still do.
LEMMA SharedGrows ==
  ASSUME \A d \in Credentials : HasRow(d) => HasRow(d)' /\ rows'[d].agent = rows[d].agent,
         NEW c \in Credentials, HasRow(c), Shared(c)
  PROVE  Shared(c)'
  BY DEF Shared

NewRow(agent) == [status |-> "live", agent |-> agent, index |-> Nil]

LEMMA InsertRowInv ==
  ASSUME TreesInv, NEW c \in Credentials, InsertRow(c)
  PROVE  TreesInv'
  <1> DEFINE p == calls[c].at
             call == calls[c]
             table == [rows EXCEPT ![c] = NewRow(call.agent)]
  <1>1. /\ TreesTypeOK /\ RowsInv /\ AgentsInv /\ c \in Calls /\ calls \in [Calls -> CallRow] /\ call \in CallRow
        /\ call.phase = "computing" /\ p \in Processes /\ call.leaf = c
        /\ issued' = Append(issued, c) /\ WithTree(c, table, call) /\ Mix(c, p)
        /\ UNCHANGED <<keys, early, crashes>>
    BY NilFacts DEF InsertRow, TreesInv, TreesTypeOK, RowsInv, NewRow
  <1>2. ~HasRow(c) /\ c \notin Range(issued)
    BY <1>1 DEF RowsInv
  <1>3. NewRow(call.agent) \in CredentialRow /\ NewRow(call.agent).status = "live" /\ NewRow(call.agent).agent = call.agent /\ NewRow(call.agent).index = Nil
    BY <1>1 DEF NewRow, CredentialRow, CallRow
  <1>4. table \in [Credentials -> CredentialRow] /\ table[c] = NewRow(call.agent) /\ \A d \in Credentials : d # c => table[d] = rows[d]
    BY <1>1, <1>3 DEF TreesTypeOK
  <1> HIDE DEF table
  <1>5. /\ calls' \in [Calls -> CallRow] /\ \A o \in Calls : o # c => calls'[o] = calls[o]
        /\ Over(calls'[c], call) \/ (calls'[c].phase \in {"loading", "turning"} /\ GoesOn(calls'[c], call))
        /\ SameRows(rows', table)
        /\ active' \in [Processes -> Tree \union {Nil}]
        /\ IndicesDistinct(table) /\ (active[p] # Nil => Workable(active[p], table, c, c)) =>
                IndicesDistinct(rows') /\ (active'[p] # Nil => Agrees(active'[p], rows'))
        /\ active'[p] # Nil =>
                /\ active[p] # Nil
                /\ \A d \in Credentials : active'[p].indexOf[d] # Nil => d = c \/ active[p].indexOf[d] # Nil
    <2>1. call.leaf \in Credentials
      BY <1>1
    <2> HIDE DEF call
    <2>2. call \in CallRow /\ call.at = p /\ call.leaf = c
      BY <1>1 DEF call
    <2>3. QED
      BY <1>1, <1>4, <2>1, <2>2, WithTreeFacts
  <1>6. mixed' = mixed \union (IF AtTrees(p) = {} THEN {} ELSE {c} \union {calls[k].leaf : k \in AtTrees(p)})
    BY <1>1 DEF Mix
  <1>7. /\ issued' \in Seq(Credentials) /\ Len(issued') = Len(issued) + 1 /\ Range(issued') = Range(issued) \union {c}
        /\ IsInjective(issued') /\ IsFiniteSet(Range(issued'))
    BY <1>1, <1>2, AppendFacts DEF TreesTypeOK, RowsInv
  <1>8. /\ \A d \in Credentials : HasRow(d)' <=> HasRow(d) \/ d = c
        /\ \A d \in Credentials : d # c => rows'[d].status = rows[d].status /\ rows'[d].agent = rows[d].agent
        /\ rows'[c].status = "live" /\ rows'[c].agent = call.agent
    BY <1>3, <1>4, <1>5 DEF SameRows, HasRow
  <1>9. Revoked' = Revoked /\ c \notin Revoked
    BY <1>2, <1>8 DEF Revoked, HasRow
  <1>10. \A k \in AtTrees(p) : calls[k].leaf \in Credentials
    BY <1>1, NilFacts DEF AtTrees, RowsInv
  <1>11. TreesTypeOK'
    <2>1. mixed' \in SUBSET Credentials
      BY <1>1, <1>6, <1>10 DEF TreesTypeOK
    <2>2. QED
      BY <1>1, <1>5, <1>7, <2>1 DEF TreesTypeOK, SameRows
  <1>12. /\ calls'[c].phase \notin {"new", "computing"} /\ calls'[c].seen = call.seen
         /\ calls'[c].phase # "done" => calls'[c].at = p /\ calls'[c].leaf = c
    BY <1>1, <1>5 DEF Over, GoesOn
  <1>13. RowsInv'
    <2>1. IsFiniteSet(Range(issued))' /\ IsInjective(issued)' /\ \A d \in Credentials : d \in Range(issued)' <=> HasRow(d)'
      BY <1>1, <1>7, <1>8 DEF RowsInv
    <2>2. \A d \in Credentials : calls'[d].phase \in {"new", "computing"} => ~HasRow(d)'
      BY <1>1, <1>5, <1>8, <1>12, NilFacts DEF RowsInv
    <2>3. \A d \in Revoked' : calls'[d].phase = "done" \/ d \in early'
      <3>1. \A d \in Revoked : d \in Credentials
        BY DEF Revoked
      <3>2. QED
        BY <1>1, <1>5, <1>9, <3>1, NilFacts DEF RowsInv
    <2>4. \A k \in Calls : calls'[k].phase \notin {"new", "done"} =>
            /\ calls'[k].at \in Processes
            /\ k \in Credentials => calls'[k].leaf = k /\ (HasRow(k)' \/ calls'[k].phase = "computing")
            /\ k \in Revocations =>
                calls'[k].phase # "computing" /\ calls'[k].leaf \in Credentials /\ rows'[calls'[k].leaf].status = "revoked"
      <3>1. \A d \in Credentials : rows[d].status = "revoked" => rows'[d].status = "revoked"
        BY <1>2, <1>8 DEF HasRow
      <3>2. QED
        BY <1>1, <1>5, <1>8, <1>12, <3>1, NilFacts DEF RowsInv
    <2>5. QED
      BY <2>1, <2>2, <2>3, <2>4 DEF RowsInv
  <1>14. AgentsInv'
    <2>0. Len(issued) \in Nat /\ \A d \in Credentials : rows[d].agent \in Nat /\ calls[d].agent \in Nat
      BY <1>1, NilFacts DEF TreesTypeOK, CredentialRow, CallRow
    <2>1. \A d \in Credentials : calls'[d].seen = calls[d].seen /\ calls[d].seen \subseteq Range(issued) /\ c \notin calls[d].seen /\ calls[d].seen \subseteq Credentials
      BY <1>1, <1>2, <1>5, <1>12, NilFacts DEF AgentsInv, TreesTypeOK, CallRow
    <2>2. \A d \in Credentials : HasRow(d)' => rows'[d].agent <= Len(issued)'
      <3>1. rows'[c].agent <= Len(issued) + 1
        BY <1>1, <1>8 DEF AgentsInv
      <3>2. ASSUME NEW d \in Credentials, d # c, HasRow(d)' PROVE rows'[d].agent <= Len(issued) + 1
        <4>1. rows[d].agent <= Len(issued)
          BY <1>1, <1>8, <3>2 DEF AgentsInv
        <4>2. QED
          BY <1>8, <2>0, <3>2, <4>1
      <3>3. QED
        BY <1>7, <3>1, <3>2
    <2>3. ASSUME NEW d \in Credentials, calls'[d].phase = "computing" PROVE calls'[d].agent <= Len(issued)' + 1
      <3>1. calls'[d] = calls[d] /\ calls[d].agent <= Len(issued) + 1
        BY <1>1, <1>5, <1>12, <2>3, NilFacts DEF AgentsInv
      <3>2. QED
        BY <1>7, <2>0, <3>1
    <2>4. ASSUME NEW d \in Credentials, NEW e \in calls'[d].seen
          PROVE  /\ HasRow(d)' => rows'[e].agent < rows'[d].agent
                 /\ calls'[d].phase = "computing" => rows'[e].agent < calls'[d].agent
      <3>1. e \in calls[d].seen /\ rows'[e].agent = rows[e].agent
        BY <1>8, <2>1, <2>4
      <3>2. CASE d = c
        BY <1>1, <1>8, <1>12, <3>1, <3>2 DEF AgentsInv
      <3>3. CASE d # c
        BY <1>1, <1>5, <1>8, <3>1, <3>3, NilFacts DEF AgentsInv
      <3>4. QED
        BY <3>2, <3>3
    <2>5. QED
      BY <1>7, <2>1, <2>2, <2>3, <2>4 DEF AgentsInv
  <1>15. \A d \in Credentials : HasRow(d) /\ Shared(d) => Shared(d)'
    <2>1. \A d \in Credentials : HasRow(d) => HasRow(d)' /\ rows'[d].agent = rows[d].agent
      BY <1>2, <1>8
    <2>2. QED
      BY <2>1, SharedGrows
  <1>16. ASSUME OneProcess, LeavesInv PROVE LeavesInv'
    <2>1. IndicesDistinct(table)
      BY <1>3, <1>4, <1>16 DEF LeavesInv, IndicesDistinct
    <2>2. active[p] # Nil => Workable(active[p], table, c, c)
      <3> SUFFICES ASSUME active[p] # Nil PROVE Workable(active[p], table, c, c)
        OBVIOUS
      <3>1. Agrees(active[p], rows)
        BY <1>1, <1>16 DEF LeavesInv
      <3>2. Agrees(active[p], table)
        BY <1>2, <1>3, <1>4, <3>1 DEF Agrees, HasRow
      <3>3. QED
        BY <1>3, <1>4, <2>1, <3>2, NilFacts DEF Workable
    <2>3. IndicesDistinct(rows') /\ (active'[p] # Nil => Agrees(active'[p], rows'))
      BY <1>5, <2>1, <2>2
    <2>4. ASSUME active'[p] # Nil, NEW d \in Credentials, active'[p].indexOf[d] # Nil, rows'[d].status # "live"
          PROVE  Shared(d)' \/ d \in early'
      <3>1. d # c /\ active[p] # Nil /\ active[p].indexOf[d] # Nil /\ rows[d].status # "live"
        BY <1>5, <1>8, <2>4
      <3>2. Agrees(active[p], rows) /\ (Shared(d) \/ d \in early)
        BY <1>1, <1>16, <3>1 DEF LeavesInv
      <3>3. HasRow(d)
        BY <3>1, <3>2 DEF Agrees, HasRow
      <3>4. QED
        BY <1>1, <1>15, <3>2, <3>3
    <2>5. \A q \in Processes : q = p
      BY <1>1, <1>16 DEF OneProcess
    <2>6. QED
      BY <2>3, <2>4, <2>5 DEF LeavesInv
  <1>17. ASSUME KeysInv PROVE KeysInv'
    <2>1. ASSUME NEW q \in Processes, NEW o \in AtTrees(q)'
          PROVE  \/ o = c /\ q = p /\ calls'[c].leaf = c /\ calls'[c].phase \in {"loading", "turning"}
                 \/ o # c /\ o \in AtTrees(q) /\ calls'[o] = calls[o]
      BY <1>5, <1>12, <2>1 DEF AtTrees, Over
    <2>2. ASSUME NEW q \in Processes, NEW o \in AtTrees(q) PROVE o \in AtTrees(q)' /\ calls'[o] = calls[o] /\ o # c
      BY <1>1, <1>5, <2>2 DEF AtTrees
    <2>3. ASSUME NEW q \in Processes, NEW k \in AtTrees(q)', NEW o \in AtTrees(q)', k # o PROVE calls'[k].leaf \in mixed'
      <3>1. CASE k = c
        BY <1>6, <2>1, <2>3, <3>1
      <3>2. CASE k # c /\ o = c
        BY <1>6, <2>1, <2>3, <3>2
      <3>3. CASE k # c /\ o # c
        BY <1>6, <1>17, <2>1, <2>3, <3>3 DEF KeysInv
      <3>4. QED
        BY <3>1, <3>2, <3>3
    <2>4. ASSUME NEW q \in Processes, NEW d \in Revoked'
          PROVE  Shared(d)' \/ d \in mixed' \/ (Known(d, q)' /\ \A k \in AtTrees(q)' : Carried(d, k)')
      <3>1. d \in Revoked /\ d \in Credentials /\ HasRow(d)
        BY <1>9 DEF Revoked, HasRow
      <3>2. CASE Shared(d) \/ d \in mixed
        BY <1>6, <1>15, <3>1, <3>2
      <3>3. CASE Known(d, q) /\ \A k \in AtTrees(q) : Carried(d, k)
        <4>1. Known(d, q)'
          BY <1>1, <2>2, <3>3 DEF Known
        <4>2. ASSUME NEW k \in AtTrees(q)' PROVE Carried(d, k)'
          BY <2>1, <3>3, <4>2 DEF Carried
        <4>3. QED
          BY <4>1, <4>2
      <3>4. QED
        BY <1>17, <3>1, <3>2, <3>3 DEF KeysInv
    <2>5. QED
      BY <2>3, <2>4 DEF KeysInv
  <1>18. QED
    BY <1>11, <1>13, <1>14, <1>16, <1>17 DEF TreesInv, OneProcess

Aimed(call, p, leaf) == [call EXCEPT !.at = p, !.leaf = leaf]
OfAgent(leaf) == {c \in Credentials : HasRow(c) /\ rows[c].agent = rows[leaf].agent}
RevokedRow(row) == [row EXCEPT !.status = "revoked"]

LEMMA RevokedRowFacts ==
  ASSUME NEW row \in CredentialRow
  PROVE  LET new == RevokedRow(row) IN
         new \in CredentialRow /\ new.status = "revoked" /\ new.agent = row.agent /\ new.index = row.index
  BY DEF RevokedRow, CredentialRow

LEMMA RevokeInv ==
  ASSUME TreesInv, NEW v \in Revocations, NEW p \in Processes, NEW leaf \in Credentials, Revoke(v, p, leaf)
  PROVE  TreesInv'
  <1> DEFINE call == Aimed(calls[v], p, leaf)
             table == [c \in Credentials |-> IF c \in OfAgent(leaf) THEN RevokedRow(rows[c]) ELSE rows[c]]
  <1>1. /\ TreesTypeOK /\ RowsInv /\ AgentsInv /\ v \in Calls /\ v \notin Credentials
        /\ calls \in [Calls -> CallRow] /\ calls[v] \in CallRow /\ rows \in [Credentials -> CredentialRow]
    BY NilFacts DEF TreesInv, TreesTypeOK
  <1>2. /\ calls[v].phase = "new" /\ rows[leaf].status = "live"
        /\ early' = early \union {c \in OfAgent(leaf) : rows[c].status = "live" /\ calls[c].phase # "done"}
        /\ Mix(leaf, p)
        /\ UNCHANGED <<issued, keys, crashes>>
    BY DEF Revoke, OfAgent
  <1>3. WithTree(v, table, call)
    BY DEF Revoke, OfAgent, RevokedRow, Aimed
  <1>4. call \in CallRow /\ call.at = p /\ call.leaf = leaf
    BY <1>1 DEF Aimed, CallRow
  <1>5. \A c \in Credentials : RevokedRow(rows[c]) \in CredentialRow /\ RevokedRow(rows[c]).status = "revoked" /\ RevokedRow(rows[c]).agent = rows[c].agent /\ RevokedRow(rows[c]).index = rows[c].index
    BY <1>1, RevokedRowFacts
  <1>6. /\ table \in [Credentials -> CredentialRow]
        /\ \A c \in Credentials : /\ table[c].agent = rows[c].agent /\ table[c].index = rows[c].index
                                  /\ table[c].status = IF c \in OfAgent(leaf) THEN "revoked" ELSE rows[c].status
    BY <1>1, <1>5
  <1> HIDE DEF table, call
  <1>7. leaf \in OfAgent(leaf) /\ \A c \in OfAgent(leaf) : c \in Credentials /\ rows[c].status # "none" /\ rows[c].agent = rows[leaf].agent
    BY <1>2 DEF OfAgent, HasRow
  <1>8. /\ calls' \in [Calls -> CallRow] /\ \A o \in Calls : o # v => calls'[o] = calls[o]
        /\ calls'[v].phase \in {"loading", "turning"} /\ calls'[v].at = p /\ calls'[v].leaf = leaf
        /\ SameRows(rows', table)
        /\ active' \in [Processes -> Tree \union {Nil}]
        /\ IndicesDistinct(table) /\ (active[p] # Nil => Workable(active[p], table, v, leaf)) =>
                IndicesDistinct(rows') /\ (active'[p] # Nil => Agrees(active'[p], rows'))
        /\ active'[p] # Nil =>
                /\ active[p] # Nil
                /\ \A d \in Credentials : active'[p].indexOf[d] # Nil => active[p].indexOf[d] # Nil /\ d # leaf
    BY <1>1, <1>3, <1>4, <1>6, WithTreeFacts DEF GoesOn
  <1>9. mixed' = mixed \union (IF AtTrees(p) = {} THEN {} ELSE {leaf} \union {calls[k].leaf : k \in AtTrees(p)})
    BY <1>2 DEF Mix
  <1>10. \A c \in Credentials :
          /\ rows'[c].agent = rows[c].agent
          /\ rows'[c].status = IF c \in OfAgent(leaf) THEN "revoked" ELSE rows[c].status
    BY <1>6, <1>8 DEF SameRows
  <1>11. \A c \in Credentials : HasRow(c)' <=> HasRow(c)
    BY <1>7, <1>10 DEF HasRow
  <1>12. \A c \in Credentials : Shared(c)' <=> Shared(c)
    BY <1>10, <1>11 DEF Shared
  <1>13. TreesTypeOK'
    <2>1. \A k \in AtTrees(p) : calls[k].leaf \in Credentials
      BY <1>1, NilFacts DEF AtTrees, RowsInv
    <2>2. mixed' \in SUBSET Credentials /\ early' \in SUBSET Credentials
      BY <1>1, <1>2, <1>7, <1>9, <2>1 DEF TreesTypeOK
    <2>3. QED
      BY <1>1, <1>2, <1>8, <2>2 DEF TreesTypeOK, SameRows
  <1>14. \A c \in Credentials : calls'[c] = calls[c]
    BY <1>1, <1>8, NilFacts
  <1>15. RowsInv'
    <2>1. IsFiniteSet(Range(issued))' /\ IsInjective(issued)' /\ \A d \in Credentials : d \in Range(issued)' <=> HasRow(d)'
      BY <1>1, <1>2, <1>11 DEF RowsInv
    <2>2. \A d \in Credentials : calls'[d].phase \in {"new", "computing"} => ~HasRow(d)'
      BY <1>1, <1>11, <1>14 DEF RowsInv
    <2>3. ASSUME NEW d \in Revoked' PROVE calls'[d].phase = "done" \/ d \in early'
      <3>1. d \in Credentials /\ rows'[d].status = "revoked"
        BY DEF Revoked
      <3>2. CASE rows[d].status = "revoked"
        BY <1>1, <1>2, <1>14, <3>1, <3>2 DEF RowsInv, Revoked
      <3>3. CASE d \in OfAgent(leaf) /\ rows[d].status = "live"
        BY <1>2, <1>14, <3>1, <3>3
      <3>4. rows[d].status \in {"none", "live", "revoked"}
        BY <1>1, <3>1 DEF CredentialRow
      <3>5. QED
        BY <1>7, <1>10, <3>1, <3>2, <3>3, <3>4
    <2>4. \A k \in Calls : calls'[k].phase \notin {"new", "done"} =>
            /\ calls'[k].at \in Processes
            /\ k \in Credentials => calls'[k].leaf = k /\ (HasRow(k)' \/ calls'[k].phase = "computing")
            /\ k \in Revocations =>
                calls'[k].phase # "computing" /\ calls'[k].leaf \in Credentials /\ rows'[calls'[k].leaf].status = "revoked"
      <3>1. \A d \in Credentials : rows[d].status = "revoked" => rows'[d].status = "revoked"
        BY <1>10
      <3>2. rows'[leaf].status = "revoked"
        BY <1>7, <1>10
      <3>3. QED
        BY <1>1, <1>8, <1>11, <3>1, <3>2 DEF RowsInv
    <2>5. QED
      BY <2>1, <2>2, <2>3, <2>4 DEF RowsInv
  <1>16. AgentsInv'
    <2>1. \A d \in Credentials : calls[d].seen \subseteq Credentials
      BY <1>1, NilFacts DEF CallRow
    <2>2. QED
      BY <1>1, <1>2, <1>10, <1>11, <1>14, <2>1 DEF AgentsInv
  <1>17. ASSUME OneProcess, LeavesInv PROVE LeavesInv'
    <2>1. IndicesDistinct(table)
      BY <1>6, <1>17 DEF LeavesInv, IndicesDistinct
    <2>2. active[p] # Nil => Workable(active[p], table, v, leaf)
      <3> SUFFICES ASSUME active[p] # Nil PROVE Workable(active[p], table, v, leaf)
        OBVIOUS
      <3>1. Agrees(active[p], rows)
        BY <1>17 DEF LeavesInv
      <3>2. Agrees(active[p], table)
        BY <1>6, <1>7, <3>1 DEF Agrees
      <3>3. QED
        BY <1>6, <1>7, <2>1, <3>2 DEF Workable
    <2>3. IndicesDistinct(rows') /\ (active'[p] # Nil => Agrees(active'[p], rows'))
      BY <1>8, <2>1, <2>2
    <2>4. ASSUME active'[p] # Nil, NEW d \in Credentials, active'[p].indexOf[d] # Nil, rows'[d].status # "live"
          PROVE  Shared(d)' \/ d \in early'
      <3>1. active[p] # Nil /\ active[p].indexOf[d] # Nil /\ d # leaf
        BY <1>8, <2>4
      <3>2. CASE d \in OfAgent(leaf)
        <4>1. HasRow(leaf)
          BY <1>2 DEF HasRow
        <4>2. Shared(d)
          BY <1>7, <3>1, <3>2, <4>1 DEF Shared
        <4>3. QED
          BY <1>12, <4>2
      <3>3. CASE d \notin OfAgent(leaf)
        <4>1. Shared(d) \/ d \in early
          BY <1>10, <1>17, <2>4, <3>1, <3>3 DEF LeavesInv
        <4>2. QED
          BY <1>2, <1>12, <4>1
      <3>4. QED
        BY <3>2, <3>3
    <2>5. \A q \in Processes : q = p
      BY <1>17 DEF OneProcess
    <2>6. QED
      BY <2>3, <2>4, <2>5 DEF LeavesInv
  <1>18. ASSUME OneProcess, KeysInv PROVE KeysInv'
    <2>0. \A q \in Processes : q = p
      BY <1>18 DEF OneProcess
    <2>1. ASSUME NEW o \in AtTrees(p)'
          PROVE  \/ o = v
                 \/ o # v /\ o \in AtTrees(p) /\ calls'[o] = calls[o]
      BY <1>8, <2>1 DEF AtTrees
    <2>2. ASSUME NEW o \in AtTrees(p) PROVE o \in AtTrees(p)' /\ calls'[o] = calls[o] /\ o # v
      BY <1>2, <1>8, <2>2 DEF AtTrees
    <2>3. v \in AtTrees(p)'
      BY <1>1, <1>8 DEF AtTrees
    <2>4. ASSUME NEW k \in AtTrees(p)', NEW o \in AtTrees(p)', k # o PROVE calls'[k].leaf \in mixed'
      <3>1. CASE k = v
        BY <1>8, <1>9, <2>1, <2>4, <3>1
      <3>2. CASE k # v /\ o = v
        BY <1>9, <2>1, <2>4, <3>2
      <3>3. CASE k # v /\ o # v
        BY <1>9, <1>18, <2>1, <2>4, <3>3 DEF KeysInv
      <3>4. QED
        BY <3>1, <3>2, <3>3
    <2>5. ASSUME NEW d \in Revoked'
          PROVE  Shared(d)' \/ d \in mixed' \/ (Known(d, p)' /\ \A k \in AtTrees(p)' : Carried(d, k)')
      <3>1. d \in Credentials /\ rows'[d].status = "revoked"
        BY DEF Revoked
      <3>2. CASE d = leaf
        <4>1. Known(d, p)'
          BY <1>8, <2>3, <3>2 DEF Known
        <4>2. ASSUME d \notin mixed', NEW k \in AtTrees(p)' PROVE Carried(d, k)'
          <5>1. k = v
            BY <1>9, <2>1, <3>2, <4>2
          <5>2. QED
            BY <1>8, <5>1 DEF Carried
        <4>3. QED
          BY <4>1, <4>2
      <3>3. CASE d # leaf /\ d \in OfAgent(leaf)
        <4>1. HasRow(leaf)
          BY <1>2 DEF HasRow
        <4>2. Shared(d)
          BY <1>7, <3>3, <4>1 DEF Shared
        <4>3. QED
          BY <1>12, <3>1, <4>2
      <3>4. CASE d \notin OfAgent(leaf)
        <4>1. d \in Revoked
          BY <1>10, <3>1, <3>4 DEF Revoked
        <4>2. CASE Shared(d) \/ d \in mixed
          BY <1>9, <1>12, <3>1, <4>2
        <4>3. CASE Known(d, p) /\ \A k \in AtTrees(p) : Carried(d, k)
          <5>1. Known(d, p)'
            BY <1>2, <2>2, <4>3 DEF Known
          <5>2. ASSUME NEW k \in AtTrees(p)' PROVE Carried(d, k)'
            BY <1>8, <2>1, <4>3, <5>2 DEF Carried
          <5>3. QED
            BY <5>1, <5>2
        <4>4. QED
          BY <1>18, <4>1, <4>2, <4>3 DEF KeysInv
      <3>5. QED
        BY <3>2, <3>3, <3>4
    <2>6. QED
      BY <2>0, <2>4, <2>5 DEF KeysInv
  <1>19. QED
    BY <1>13, <1>15, <1>16, <1>17, <1>18 DEF TreesInv, OneProcess

-----------------------------------------------------------------------------
(* The theorems about the trees.                                           *)

LEMMA TreesInitInv == Init => TreesInv
  <1> SUFFICES ASSUME Init PROVE TreesInv
    OBVIOUS
  <1>1. Range(issued) = {} /\ IsInjective(issued) /\ issued \in Seq(Credentials)
    BY DEF Init, Range, IsInjective
  <1>2. /\ \A c \in Credentials : rows[c].status = "none" /\ ~HasRow(c)
        /\ \A k \in Calls : calls[k] = NewCall
        /\ \A p \in Processes : active[p] = Nil /\ keys[p] = Nil
    BY DEF Init, HasRow
  <1>3. NewCall \in CallRow /\ NewCall.phase = "new" /\ NewCall.at = Nil /\ NewCall.seen = {}
    BY DEF NewCall, CallRow
  <1>4. TreesTypeOK
    BY <1>1, <1>3 DEF Init, TreesTypeOK, CredentialRow
  <1>5. RowsInv
    BY <1>1, <1>2, <1>3, FS_EmptySet DEF RowsInv, Revoked
  <1>6. AgentsInv
    BY <1>2, <1>3, NilFacts DEF AgentsInv
  <1>7. LeavesInv
    BY <1>2 DEF LeavesInv, IndicesDistinct
  <1>8. KeysInv
    <2>1. \A p \in Processes : AtTrees(p) = {}
      BY <1>2, <1>3 DEF AtTrees
    <2>2. Revoked = {}
      BY <1>2 DEF Revoked
    <2>3. QED
      BY <2>1, <2>2 DEF KeysInv
  <1>9. QED
    BY <1>4, <1>5, <1>6, <1>7, <1>8 DEF TreesInv

LEMMA TreesStepInv == TreesInv /\ [Next]_vars => TreesInv'
  <1> SUFFICES ASSUME TreesInv, [Next]_vars PROVE TreesInv'
    OBVIOUS
  <1>1. CASE UNCHANGED vars
    <2>1. TreesTypeOK' /\ SameRows(rows', rows)
      BY <1>1 DEF vars, TreesInv, TreesTypeOK, SameRows
    <2>2. RowsInv' /\ AgentsInv'
      BY <1>1, <2>1, RowsKept DEF vars, TreesInv, CallKept
    <2>3. (LeavesInv => LeavesInv') /\ (KeysInv => KeysInv')
      BY <1>1, <2>1, LeavesKept, KeysUntouched DEF vars
    <2>4. QED
      BY <2>1, <2>2, <2>3 DEF TreesInv, OneProcess
  <1>2. ASSUME NEW p \in Processes, NEW c \in Credentials, Issue(c, p) PROVE TreesInv'
    BY <1>2, IssueInv
  <1>3. ASSUME NEW p \in Processes, NEW c \in Credentials, NEW v \in Revocations, Revoke(v, p, c) PROVE TreesInv'
    BY <1>3, RevokeInv
  <1>4. ASSUME NEW p \in Processes, Rebuild(p) \/ Crash(p) PROVE TreesInv'
    BY <1>4, RebuildInv, TreesCrashInv
  <1>5. ASSUME NEW c \in Credentials, InsertRow(c) \/ IssueFails(c) PROVE TreesInv'
    BY <1>5, InsertRowInv, IssueFailsInv
  <1>6. ASSUME NEW k \in Calls, Load(k) \/ AskRevoked(k) \/ Built(k) PROVE TreesInv'
    BY <1>6, LoadInv, AskRevokedInv, BuiltInv
  <1>7. ASSUME NEW v \in Revocations, InsertKey(v) PROVE TreesInv'
    BY <1>7, InsertKeyInv
  <1>8. QED
    BY <1>1, <1>2, <1>3, <1>4, <1>5, <1>6, <1>7 DEF Next

LEMMA TreesInvariance == Spec => []TreesInv
  BY TreesInitInv, TreesStepInv, PTL DEF Spec

\* In every state the rows, the calls and both trees have their types, for any
\* credentials, revocations, processes and depth of the tree (credential.ts:100).
THEOREM TreesTypeCorrect == Spec => []TreesTypeOK
  <1>1. TreesInv => TreesTypeOK
    BY DEF TreesInv
  <1>2. QED
    BY <1>1, TreesInvariance, PTL

\* With any number of processes, two credentials have one agent id only when each was
\* begun before the row of the other was inserted: an id that was taken from rows is
\* above all of theirs (credential.ts:125, 180).
THEOREM SharedIdsNeedOverlap == Spec => []SharedIdNeedsOverlap
  <1>1. ASSUME TreesInv, NEW c \in Credentials, NEW d \in Credentials, HasRow(c), HasRow(d), c \in calls[d].seen
        PROVE  rows[c].agent # rows[d].agent
    <2>1. rows[c].agent < rows[d].agent /\ rows[c].agent \in Nat /\ rows[d].agent \in Nat
      BY <1>1 DEF TreesInv, AgentsInv, TreesTypeOK, CredentialRow
    <2>2. QED
      BY <2>1
  <1>2. TreesInv => SharedIdNeedsOverlap
    BY <1>1 DEF SharedIdNeedsOverlap
  <1>3. QED
    BY <1>2, TreesInvariance, PTL

\* With one process, the live credentials that have a leaf have different ones,
\* however indices are freed, used again and given to rows without one
\* (active-tree.ts:18; credential.ts:201).
THEOREM LiveLeavesDistinct ==
  ASSUME OneProcess
  PROVE  Spec => []LiveIndicesDistinct
  <1>1. TreesInv => LiveIndicesDistinct
    <2> SUFFICES ASSUME TreesInv, NEW c \in Credentials, NEW d \in Credentials, c # d, Fits(c), Fits(d), rows[c].index = rows[d].index
                 PROVE  FALSE
      BY DEF LiveIndicesDistinct
    <2>1. IndicesDistinct(rows) /\ rows[c].index \in Nat
      BY DEF TreesInv, LeavesInv, TreesTypeOK, CredentialRow, Fits
    <2>2. rows[c].index >= MaxLeaves
      BY <2>1 DEF IndicesDistinct, Fits
    <2>3. QED
      BY <2>1, <2>2, NilFacts DEF Fits
  <1>2. QED
    BY <1>1, TreesInvariance, PTL

\* With one process, the cached active tree has the leaves of the rows, at their
\* indices and no deeper, through crashes, backfills, full trees and trees loaded twice
\* (credential.ts:180, 271; active-tree.ts:61, 109, 275).
THEOREM LeavesAreRows ==
  ASSUME OneProcess
  PROVE  Spec => []LeavesMatchRows
  <1>1. TreesInv => LeavesMatchRows
    <2> SUFFICES ASSUME TreesInv, NEW p \in Processes, active[p] # Nil, NEW c \in Credentials
                 PROVE  LET tree == active[p] IN
                        /\ Fits(c) => tree.indexOf[c] = rows[c].index
                        /\ tree.indexOf[c] # Nil => tree.indexOf[c] < MaxLeaves
                        /\ tree.indexOf[c] # Nil /\ rows[c].status # "live" => Shared(c) \/ c \in early
      BY DEF LeavesMatchRows
    <2> DEFINE tree == active[p]
    <2>1. /\ Agrees(tree, rows) /\ tree \in Tree
          /\ tree.indexOf[c] # Nil /\ rows[c].status # "live" => Shared(c) \/ c \in early
      BY DEF TreesInv, LeavesInv, TreesTypeOK
    <2>2. tree.indexOf[c] # Nil => tree.indexOf[c] \in Nat /\ tree.indexOf[c] < tree.next /\ tree.next <= MaxLeaves /\ tree.next \in Nat
      BY <2>1 DEF Agrees, Tree
    <2> HIDE DEF tree
    <2>3. tree.indexOf[c] # Nil => tree.indexOf[c] < MaxLeaves
      BY <2>2, NilFacts
    <2>4. QED
      BY <2>1, <2>3 DEF Agrees, Fits, tree
  <1>2. QED
    BY <1>1, TreesInvariance, PTL

\* With one process and no call at the trees, the revoked tree has the key of every
\* revoked credential but those that share an agent id or whose revocation met another
\* call (revoked-tree.ts:100, 230).
THEOREM KeysAreRevoked ==
  ASSUME OneProcess
  PROVE  Spec => []KeysMatchRows
  <1>1. TreesInv => KeysMatchRows
    BY DEF TreesInv, KeysInv, KeysMatchRows, Known
  <1>2. QED
    BY <1>1, TreesInvariance, PTL
=============================================================================
