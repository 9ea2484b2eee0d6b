--------------------------- MODULE QuestionProofs ---------------------------
(****************************************************************************)
(* What is proved of the services a question and its answer pass: the       *)
(* limiter that lets the question in, the access control that says what it  *)
(* may be about, the retrieval that finds what the answer rests on, and the *)
(* filter that hides what the model thinks.  They share no state; the       *)
(* second and the third share the lemmas about lists made of other lists.   *)
(*                                                                          *)
(* The token buckets admit exactly what the limit allows, for any number of *)
(* clients, any burst and any rate, as long as an idle bucket is full again *)
(* before the cleanup forgets it (Full <= Interval: 10 seconds of refill    *)
(* against 5 minutes, and 18 for the limiter of the login).                 *)
(****************************************************************************)
EXTENDS RateLimiter, AccessControl, Retrieval, ThinkFilter, TLAPS,
        WellFoundedInduction, FiniteSetTheorems, SequenceTheorems

---------------------------------------------------------------------------
\* The rate limiter.

TypeInv ==
  /\ now \in Nat
  /\ spent \in [Addresses -> Nat]
  /\ log \in [Addresses -> SUBSET [at : Nat, before : Nat]]
  /\ buckets \in [Addresses -> [tokens : Int, lastRefill : Int]]

\* What is left of the limit from the admitted request e on, at time t.
Left(c, e, t) == Full + (t - e.at) - (spent[c] - e.before)

\* A forgotten bucket would be full: no window holds it below.
ForgottenIsFull ==
  \A c \in Addresses : buckets[c] = NoBucket => \A e \in log[c] : Left(c, e, now) >= Full

\* The one number of a bucket is the least that any window leaves.
TokensAreLeast ==
  \A c \in Addresses : buckets[c] # NoBucket =>
    /\ buckets[c].tokens \in 0 .. Full
    /\ buckets[c].lastRefill \in 0 .. now
    /\ \A e \in log[c] : buckets[c].tokens <= Left(c, e, buckets[c].lastRefill)
    /\ \E e \in log[c] : buckets[c].tokens = Left(c, e, buckets[c].lastRefill)

LimiterInv == TypeInv /\ ForgottenIsFull /\ TokensAreLeast

LEMMA InitLimiter == LimiterInit => LimiterInv
BY LimiterAssumption DEF LimiterInit, LimiterInv, TypeInv, ForgottenIsFull, TokensAreLeast, NoBucket

\* What a request finds in its client's bucket.
LEMMA RefilledIsLeast ==
  ASSUME LimiterInv, NEW c \in Addresses
  PROVE  /\ Refilled(c) \in 0 .. Full
         /\ \A e \in log[c] : Refilled(c) <= Left(c, e, now)
         /\ Refilled(c) < Full => \E e \in log[c] : Refilled(c) = Left(c, e, now)
<1> USE LimiterAssumption DEF LimiterInv, TypeInv
<1>1. CASE buckets[c] = NoBucket
  BY <1>1 DEF Refilled, ForgottenIsFull
<1>2. CASE buckets[c] # NoBucket
  <2>1. /\ buckets[c].tokens \in 0 .. Full /\ buckets[c].lastRefill \in 0 .. now
        /\ \A e \in log[c] : e \in [at : Nat, before : Nat]
        /\ \A e \in log[c] : buckets[c].tokens <= Left(c, e, buckets[c].lastRefill)
    BY <1>2 DEF TokensAreLeast
  <2>2. PICK e \in log[c] : buckets[c].tokens = Left(c, e, buckets[c].lastRefill)
    BY <1>2 DEF TokensAreLeast
  <2>3. \A f \in log[c] : Left(c, f, now)
                            = Left(c, f, buckets[c].lastRefill) + (now - buckets[c].lastRefill)
    BY <2>1 DEF Left
  <2>4. /\ Refilled(c) = AtMost(buckets[c].tokens + (now - buckets[c].lastRefill), Full)
        /\ \A f \in log[c] : Left(c, f, buckets[c].lastRefill) \in Int
    BY <1>2, <2>1 DEF Refilled, Left
  <2> QED BY <2>1, <2>2, <2>3, <2>4 DEF AtMost
<1> QED BY <1>1, <1>2

LEMMA StepLimiter == LimiterInv /\ [LimiterNext]_limiterVars => LimiterInv'
<1> SUFFICES ASSUME LimiterInv, [LimiterNext]_limiterVars PROVE LimiterInv'
  OBVIOUS
<1> USE LimiterAssumption
<1>1. ASSUME NEW c \in Addresses, Allow(c) PROVE LimiterInv'
  <2>0. PICK new : new = [at |-> now, before |-> spent[c]]
    OBVIOUS
  <2>1. /\ Refilled(c) \in Cost .. Full
        /\ \A e \in log[c] : Refilled(c) <= Left(c, e, now)
    BY <1>1, RefilledIsLeast DEF Allow, LimiterInv, TypeInv
  <2>2. TypeInv'
    BY <1>1, <2>1 DEF LimiterInv, TypeInv, Allow
  <2>3. ForgottenIsFull'
    BY <1>1, <2>1 DEF LimiterInv, TypeInv, ForgottenIsFull, Allow, Left, NoBucket
  <2>4. /\ buckets'[c].tokens \in 0 .. Full /\ buckets'[c].lastRefill = now /\ now' = now
        /\ buckets'[c].tokens = Refilled(c) - Cost
        /\ log'[c] = log[c] \cup {new} /\ spent'[c] = spent[c] + Cost
    BY <1>1, <2>0, <2>1 DEF LimiterInv, TypeInv, Allow
  <2>5. \A e \in log[c] : buckets'[c].tokens <= Left(c, e, now)'
    <3> SUFFICES ASSUME NEW e \in log[c] PROVE Refilled(c) - Cost <= Left(c, e, now)'
      BY <2>4
    <3>1. e.at \in Nat /\ e.before \in Nat /\ spent[c] \in Nat /\ now \in Nat
      BY DEF LimiterInv, TypeInv
    <3> QED BY <2>1, <2>4, <3>1 DEF Left
  <2>6. new \in log'[c] /\ Left(c, new, now)' = Full - Cost
    BY <2>0, <2>1, <2>4 DEF LimiterInv, TypeInv, Left
  <2>7. \E e \in log'[c] : buckets'[c].tokens = Left(c, e, now)'
    <3>1. CASE Refilled(c) = Full
      BY <2>1, <2>4, <2>6, <3>1
    <3>2. CASE Refilled(c) < Full
      <4>1. PICK e \in log[c] : Refilled(c) = Left(c, e, now)
        BY <3>2, RefilledIsLeast
      <4>2. e.at \in Nat /\ e.before \in Nat /\ spent[c] \in Nat /\ now \in Nat
        BY DEF LimiterInv, TypeInv
      <4> QED BY <2>4, <4>1, <4>2 DEF Left
    <3> QED BY <2>1, <3>1, <3>2
  <2>8. TokensAreLeast'
    <3> SUFFICES ASSUME NEW d \in Addresses, buckets'[d] # NoBucket
                 PROVE  /\ buckets'[d].tokens \in 0 .. Full
                        /\ buckets'[d].lastRefill \in 0 .. now'
                        /\ \A e \in log'[d] : buckets'[d].tokens <= Left(d, e, buckets[d].lastRefill)'
                        /\ \E e \in log'[d] : buckets'[d].tokens = Left(d, e, buckets[d].lastRefill)'
      BY DEF TokensAreLeast
    <3>1. CASE d = c
      BY <2>1, <2>4, <2>5, <2>6, <2>7, <3>1 DEF LimiterInv, TypeInv
    <3>2. CASE d # c
      <4>1. buckets'[d] = buckets[d] /\ log'[d] = log[d] /\ spent'[d] = spent[d] /\ now' = now
        BY <1>1, <3>2 DEF LimiterInv, TypeInv, Allow
      <4> QED BY <4>1 DEF LimiterInv, TokensAreLeast, Left
    <3> QED BY <3>1, <3>2
  <2> QED BY <2>2, <2>3, <2>8 DEF LimiterInv
<1>2. ASSUME NEW c \in Addresses, Refuse(c) PROVE LimiterInv'
  <2>1. /\ Refilled(c) \in 0 .. Full /\ Refilled(c) < Full
        /\ \A e \in log[c] : Refilled(c) <= Left(c, e, now)
        /\ \E e \in log[c] : Refilled(c) = Left(c, e, now)
    BY <1>2, RefilledIsLeast DEF Refuse, LimiterInv, TypeInv
  <2>2. TypeInv'
    BY <1>2, <2>1 DEF LimiterInv, TypeInv, Refuse
  <2>3. ForgottenIsFull'
    BY <1>2, <2>1 DEF LimiterInv, TypeInv, ForgottenIsFull, Refuse, Left, NoBucket
  <2>4. TokensAreLeast'
    <3> SUFFICES ASSUME NEW d \in Addresses, buckets'[d] # NoBucket
                 PROVE  /\ buckets'[d].tokens \in 0 .. Full
                        /\ buckets'[d].lastRefill \in 0 .. now'
                        /\ \A e \in log'[d] : buckets'[d].tokens <= Left(d, e, buckets[d].lastRefill)'
                        /\ \E e \in log'[d] : buckets'[d].tokens = Left(d, e, buckets[d].lastRefill)'
      BY DEF TokensAreLeast
    <3>1. CASE d = c
      <4>1. /\ buckets'[c] = [tokens |-> Refilled(c), lastRefill |-> now]
            /\ log' = log /\ spent' = spent /\ now' = now
        BY <1>2 DEF LimiterInv, TypeInv, Refuse
      <4> QED BY <2>1, <3>1, <4>1 DEF LimiterInv, TypeInv, Left
    <3>2. CASE d # c
      <4>1. buckets'[d] = buckets[d] /\ log' = log /\ spent' = spent /\ now' = now
        BY <1>2, <3>2 DEF LimiterInv, TypeInv, Refuse
      <4> QED BY <4>1 DEF LimiterInv, TokensAreLeast, Left
    <3> QED BY <3>1, <3>2
  <2> QED BY <2>2, <2>3, <2>4 DEF LimiterInv
<1>3. ASSUME Cleanup PROVE LimiterInv'
  <2>1. TypeInv'
    BY <1>3 DEF LimiterInv, TypeInv, Cleanup, NoBucket
  <2>2. ForgottenIsFull'
    <3> SUFFICES ASSUME NEW c \in Addresses, buckets'[c] = NoBucket, NEW e \in log[c]
                 PROVE  Left(c, e, now) >= Full
      BY <1>3 DEF ForgottenIsFull, Cleanup, Left
    <3>1. CASE buckets[c] = NoBucket
      BY <3>1 DEF LimiterInv, ForgottenIsFull
    <3>2. CASE buckets[c] # NoBucket
      <4>1. buckets[c].lastRefill < now - Interval
        BY <1>3, <3>2 DEF Cleanup, LimiterInv, TypeInv
      <4>2. /\ buckets[c].tokens \in 0 .. Full /\ buckets[c].lastRefill \in 0 .. now
            /\ buckets[c].tokens <= Left(c, e, buckets[c].lastRefill)
            /\ e.at \in Nat /\ e.before \in Nat /\ spent[c] \in Nat /\ now \in Nat
        BY <3>2 DEF LimiterInv, TokensAreLeast, TypeInv
      <4> QED BY <4>1, <4>2 DEF Left
    <3> QED BY <3>1, <3>2
  <2>3. TokensAreLeast'
    <3> SUFFICES ASSUME NEW c \in Addresses, buckets'[c] # NoBucket
                 PROVE  buckets'[c] = buckets[c]
      BY <1>3 DEF LimiterInv, TokensAreLeast, Cleanup, Left
    <3> QED BY <1>3 DEF Cleanup
  <2> QED BY <2>1, <2>2, <2>3 DEF LimiterInv
<1>4. ASSUME Tick PROVE LimiterInv'
  <2>1. TypeInv' /\ TokensAreLeast'
    BY <1>4 DEF LimiterInv, TypeInv, TokensAreLeast, Tick, Left
  <2>2. ForgottenIsFull'
    BY <1>4 DEF LimiterInv, TypeInv, ForgottenIsFull, Tick, Left
  <2> QED BY <2>1, <2>2 DEF LimiterInv
<1>5. CASE UNCHANGED limiterVars
  BY <1>5 DEF limiterVars, LimiterInv, TypeInv, ForgottenIsFull, TokensAreLeast, Left
<1> QED BY <1>1, <1>2, <1>3, <1>4, <1>5 DEF LimiterNext

\* The single bucket of a client is exact in every reachable state: see LimiterInv.
LEMMA LimiterInvHolds == LimiterSpec => []LimiterInv
<1>1. LimiterInit => LimiterInv
  BY InitLimiter
<1>2. LimiterInv /\ [LimiterNext]_limiterVars => LimiterInv'
  BY StepLimiter
<1> QED BY <1>1, <1>2, PTL DEF LimiterSpec

\* A request is let through if and only if no window of time then holds more than the
\* limit allows (rateLimiter.allow beside rateLimiter.cleanup).
THEOREM LimiterAdmitsExactly == LimiterSpec => AdmitsExactly
<1> DEFINE Exact == \A c \in Addresses : Arrival(c) => (WithinLimit(c, Cost) <=> spent'[c] # spent[c])
<1>1. LimiterInv /\ [LimiterNext]_limiterVars => [Exact]_limiterVars
  <2> SUFFICES ASSUME LimiterInv, NEW c \in Addresses, Arrival(c)
               PROVE  WithinLimit(c, Cost) <=> spent'[c] # spent[c]
    OBVIOUS
  <2>1. /\ Cost \in Nat \ {0} /\ Full \in Nat /\ Cost <= Full /\ now \in Nat
        /\ spent \in [Addresses -> Nat] /\ \A e \in log[c] : e.at \in Nat /\ e.before \in Nat
    BY LimiterAssumption DEF LimiterInv, TypeInv
  <2>2. /\ Refilled(c) \in 0 .. Full
        /\ \A e \in log[c] : Refilled(c) <= Left(c, e, now)
        /\ Refilled(c) < Full => \E e \in log[c] : Refilled(c) = Left(c, e, now)
    BY RefilledIsLeast
  <2>3. CASE Allow(c)
    <3>1. spent'[c] = spent[c] + Cost /\ Refilled(c) >= Cost
      BY <2>1, <2>3 DEF Allow
    <3>2. WithinLimit(c, Cost)
      BY <2>1, <2>2, <3>1 DEF WithinLimit, Left
    <3> QED BY <2>1, <3>1, <3>2
  <2>4. CASE Refuse(c)
    <3>1. spent'[c] = spent[c] /\ Refilled(c) < Cost
      BY <2>4 DEF Refuse
    <3>2. PICK e \in log[c] : Refilled(c) = Left(c, e, now)
      BY <2>1, <2>2, <3>1
    <3>3. ~WithinLimit(c, Cost)
      BY <2>1, <3>1, <3>2 DEF WithinLimit, Left
    <3> QED BY <3>1, <3>3
  <2> QED BY <2>3, <2>4 DEF Arrival
<1>2. LimiterSpec => []LimiterInv
  BY LimiterInvHolds
<1> QED BY <1>1, <1>2, PTL DEF LimiterSpec, AdmitsExactly

---------------------------------------------------------------------------
\* Lists made of other lists by position.

\* Induction over the naturals, as the library's theorem on well-founded relations gives it
\* without an operator for a parameter: of a set of counterexamples, take the least.
LEMMA Least ==
  ASSUME NEW T \in SUBSET Nat, T # {}
  PROVE  \E x \in T : \A y \in T : x <= y
<1>1. IsWellFoundedOn(OpToRel(<, Nat), Nat)
  BY NatLessThanWellFounded
<1>2. \E x \in T : \A y \in T : ~(<<y, x>> \in OpToRel(<, Nat))
  BY <1>1, WFMin
<1>3. \A x, y \in Nat : y < x => <<y, x>> \in OpToRel(<, Nat)
  BY DEF OpToRel
<1>4. PICK x \in T : \A y \in T : ~(<<y, x>> \in OpToRel(<, Nat))
  BY <1>2
<1>5. \A y \in T : ~(y < x)
  BY <1>3, <1>4
<1>6. QED
  BY <1>5

TotalOrder(S, before) ==
  /\ \A x \in S : <<x, x>> \notin before
  /\ \A x, y \in S : x = y \/ <<x, y>> \in before \/ <<y, x>> \in before
  /\ \A x, y, z \in S : <<x, y>> \in before /\ <<y, z>> \in before => <<x, z>> \in before

Before(S, before, x) == {y \in S : <<y, x>> \in before}

\* In a finite total order, the elements before another are fewer.
LEMMA RankGrows ==
  ASSUME NEW S, IsFiniteSet(S), NEW before, TotalOrder(S, before)
  PROVE  /\ \A x \in S : Cardinality(Before(S, before, x)) \in 0 .. Cardinality(S) - 1
         /\ \A x, y \in S : <<x, y>> \in before =>
              Cardinality(Before(S, before, x)) < Cardinality(Before(S, before, y))
<1> DEFINE B(x) == Before(S, before, x)
<1>1. ASSUME NEW x \in S, NEW U \in SUBSET S, B(x) \subseteq U, x \in U
      PROVE  /\ Cardinality(B(x)) \in Nat /\ Cardinality(B(x)) < Cardinality(U)
             /\ Cardinality(U) <= Cardinality(S)
  <2>1. IsFiniteSet(U) /\ Cardinality(U) <= Cardinality(S)
    BY FS_Subset
  <2>2. IsFiniteSet(U \ {x}) /\ Cardinality(U \ {x}) = Cardinality(U) - 1
    BY <1>1, <2>1, FS_RemoveElement
  <2>3. B(x) \subseteq U \ {x}
    BY <1>1 DEF Before, TotalOrder
  <2>4. Cardinality(B(x)) <= Cardinality(U \ {x}) /\ IsFiniteSet(B(x))
    BY <2>2, <2>3, FS_Subset
  <2>5. Cardinality(U) \in Nat /\ Cardinality(B(x)) \in Nat /\ Cardinality(S) \in Nat
    BY <2>1, <2>4, FS_CardinalityType
  <2>6. QED
    BY <2>1, <2>2, <2>4, <2>5
<1>2. Cardinality(S) \in Nat
  BY FS_CardinalityType
<1>3. ASSUME NEW x \in S PROVE Cardinality(B(x)) \in 0 .. Cardinality(S) - 1
  <2>1. B(x) \subseteq S
    BY DEF Before
  <2>2. QED
    BY <1>1, <1>2, <2>1
<1>4. ASSUME NEW x \in S, NEW y \in S, <<x, y>> \in before
      PROVE  Cardinality(B(x)) < Cardinality(B(y))
  <2>1. B(y) \in SUBSET S /\ B(x) \subseteq B(y) /\ x \in B(y)
    BY <1>4 DEF Before, TotalOrder
  <2>2. QED
    BY <1>1, <2>1
<1>5. QED
  BY <1>3, <1>4

\* And every number below the cardinality is some element's.
LEMMA RankTaken ==
  ASSUME NEW S, IsFiniteSet(S), NEW before, TotalOrder(S, before),
         NEW n \in 0 .. Cardinality(S) - 1
  PROVE  \E x \in S : Cardinality(Before(S, before, x)) = n
<1> DEFINE B(x) == Before(S, before, x)
           R(x) == Cardinality(B(x))
           Free == {k \in 0 .. Cardinality(S) - 1 : \A x \in S : R(x) # k}
<1>1. /\ \A x \in S : R(x) \in 0 .. Cardinality(S) - 1
      /\ \A x, y \in S : <<x, y>> \in before => R(x) < R(y)
  BY RankGrows
<1>2. Cardinality(S) \in Nat
  BY FS_CardinalityType
<1> HIDE DEF R
<1>3. ASSUME NEW V \in SUBSET S, V # {} PROVE \E x \in V : \A y \in V : x = y \/ <<x, y>> \in before
  <2> DEFINE T == {R(x) : x \in V}
  <2>1. T \in SUBSET Nat /\ T # {}
    BY <1>1, <1>2, <1>3
  <2>2. PICK m \in T : \A k \in T : m <= k
    BY <2>1, Least
  <2>3. PICK x \in V : R(x) = m
    BY <2>2
  <2>4. ASSUME NEW y \in V, <<y, x>> \in before PROVE FALSE
    <3>1. R(y) < R(x) /\ R(x) <= R(y) /\ R(x) \in Nat /\ R(y) \in Nat
      BY <1>1, <1>2, <1>3, <2>2, <2>3, <2>4
    <3>2. QED
      BY <3>1
  <2>5. QED
    BY <1>3, <2>4 DEF TotalOrder
<1>4. SUFFICES ASSUME Free # {} PROVE FALSE
  BY DEF R
<1>5. Free \in SUBSET Nat
  BY <1>2
<1>6. PICK k \in Free : \A j \in Free : k <= j
  BY <1>4, <1>5, Least
<1>7. k \in 0 .. Cardinality(S) - 1 /\ \A x \in S : R(x) # k
  BY <1>6
<1>8. CASE k = 0
  <2>1. S # {}
    BY <1>2, <1>7, FS_EmptySet
  <2>2. PICK x \in S : \A y \in S : x = y \/ <<x, y>> \in before
    BY <1>3, <2>1
  <2>3. B(x) = {}
    BY <2>2 DEF Before, TotalOrder
  <2>4. R(x) = 0
    BY <2>3, FS_EmptySet DEF R
  <2>5. QED
    BY <1>7, <1>8, <2>4
<1>9. CASE k > 0
  <2>1. k - 1 \notin Free /\ k - 1 \in 0 .. Cardinality(S) - 1
    BY <1>2, <1>5, <1>6, <1>7, <1>9
  <2>2. PICK x \in S : R(x) = k - 1
    BY <2>1
  <2> DEFINE V == {y \in S : <<x, y>> \in before}
             U == B(x) \cup {x}
  <2>3. IsFiniteSet(B(x)) /\ x \notin B(x) /\ B(x) \subseteq S
    BY FS_Subset DEF Before, TotalOrder
  <2>4. IsFiniteSet(U) /\ Cardinality(U) = k
    <3>1. Cardinality(U) = R(x) + 1
      BY <2>3, FS_AddElement DEF R
    <3>2. QED
      BY <2>2, <2>3, <3>1, <1>7, <1>2, FS_AddElement
  <2>5. V # {}
    <3>1. SUFFICES ASSUME V = {} PROVE FALSE
      OBVIOUS
    <3>2. S = U
      BY <3>1 DEF Before, TotalOrder
    <3>3. k = Cardinality(S)
      BY <2>4, <3>2
    <3>4. QED
      BY <3>3, <1>7, <1>2
  <2>6. PICK y \in V : \A z \in V : y = z \/ <<y, z>> \in before
    BY <2>5, <1>3
  <2>7. B(y) = U
    <3>1. ASSUME NEW z \in B(y) PROVE z \in U
      <4>1. z \notin V
        BY <2>6, <3>1 DEF Before, TotalOrder
      <4>2. QED
        BY <4>1, <3>1 DEF Before, TotalOrder
    <3>2. ASSUME NEW z \in U PROVE z \in B(y)
      BY <3>2, <2>6 DEF Before, TotalOrder
    <3>3. QED
      BY <3>1, <3>2
  <2>8. QED
    BY <2>4, <2>6, <2>7, <1>7 DEF R
<1>10. QED
  BY <1>2, <1>7, <1>8, <1>9

\* So InOrder lists a set in the given order, each element once.
LEMMA InOrderProperties ==
  ASSUME NEW S, IsFiniteSet(S), NEW before, TotalOrder(S, before)
  PROVE  LET o == InOrder(S, before) IN
         /\ Cardinality(S) \in Nat
         /\ o \in [1 .. Cardinality(S) -> S]
         /\ \A x \in S : \E n \in DOMAIN o : o[n] = x
         /\ \A m, n \in DOMAIN o : m < n => <<o[m], o[n]>> \in before
<1> DEFINE o == InOrder(S, before)
           R(x) == Cardinality(Before(S, before, x))
           D == 1 .. Cardinality(S)
<1>1. Cardinality(S) \in Nat
  BY FS_CardinalityType
<1>2. o = [n \in D |-> CHOOSE x \in S : R(x) = n - 1]
  BY DEF InOrder, Before
<1>3. /\ \A x \in S : R(x) \in 0 .. Cardinality(S) - 1
      /\ \A x, y \in S : <<x, y>> \in before => R(x) < R(y)
  BY RankGrows
<1>4. ASSUME NEW n \in D PROVE \E x \in S : R(x) = n - 1
  <2>1. n - 1 \in 0 .. Cardinality(S) - 1
    BY <1>1
  <2>2. QED
    BY <2>1, RankTaken
<1> HIDE DEF R, o
<1>5. ASSUME NEW n \in D PROVE o[n] \in S /\ R(o[n]) = n - 1
  BY <1>2, <1>4
<1>6. ASSUME NEW x \in S, NEW y \in S, R(x) <= R(y) PROVE x = y \/ <<x, y>> \in before
  <2>1. ASSUME <<y, x>> \in before PROVE FALSE
    <3>1. R(y) < R(x) /\ R(x) \in Int /\ R(y) \in Int
      BY <1>3, <2>1, <1>1
    <3>2. QED
      BY <3>1, <1>6
  <2>2. QED
    BY <2>1 DEF TotalOrder
<1>7. DOMAIN o = D /\ o \in [D -> S]
  BY <1>2, <1>5
<1>8. ASSUME NEW x \in S PROVE \E n \in D : o[n] = x
  <2>1. R(x) + 1 \in D /\ R(x) \in Int
    BY <1>1, <1>3
  <2>2. o[R(x) + 1] \in S /\ R(o[R(x) + 1]) = R(x)
    BY <1>5, <2>1
  <2>3. ASSUME NEW y \in S, NEW z \in S, R(y) = R(z) PROVE y = z
    <3>1. R(y) \in Int /\ R(z) \in Int
      BY <1>3, <1>1
    <3>2. (y = z \/ <<y, z>> \in before) /\ (z = y \/ <<z, y>> \in before)
      BY <1>6, <2>3, <3>1
    <3>3. QED
      BY <2>3, <3>1, <3>2, <1>3
  <2>4. QED
    BY <2>1, <2>2, <2>3
<1>9. ASSUME NEW m \in D, NEW n \in D, m < n PROVE <<o[m], o[n]>> \in before
  <2>1. R(o[m]) = m - 1 /\ R(o[n]) = n - 1 /\ o[m] \in S /\ o[n] \in S
    BY <1>5
  <2>2. R(o[m]) <= R(o[n]) /\ o[m] # o[n]
    BY <1>9, <2>1
  <2>3. QED
    BY <2>1, <2>2, <1>6
<1>10. QED
  BY <1>1, <1>7, <1>8, <1>9 DEF o

\* Pick keeps the elements at the chosen positions, and no others.
LEMMA PickProperties ==
  ASSUME NEW list, NEW at \in SUBSET Nat, IsFiniteSet(at)
  PROVE  /\ Cardinality(at) \in Nat
         /\ DOMAIN Pick(list, at) = 1 .. Cardinality(at)
         /\ \A n \in DOMAIN Pick(list, at) : \E i \in at : Pick(list, at)[n] = list[i]
         /\ \A i \in at : \E n \in DOMAIN Pick(list, at) : Pick(list, at)[n] = list[i]
<1> DEFINE o == InOrder(at, Earlier(at))
<1>1. TotalOrder(at, Earlier(at))
  BY DEF TotalOrder, Earlier
<1>2. /\ Cardinality(at) \in Nat
      /\ o \in [1 .. Cardinality(at) -> at]
      /\ \A x \in at : \E n \in DOMAIN o : o[n] = x
  BY <1>1, InOrderProperties
<1> HIDE DEF o
<1>3. Pick(list, at) = [n \in DOMAIN o |-> list[o[n]]]
  BY DEF Pick, o
<1>4. DOMAIN Pick(list, at) = 1 .. Cardinality(at) /\ DOMAIN o = 1 .. Cardinality(at)
  BY <1>2, <1>3
<1>5. \A n \in DOMAIN o : o[n] \in at /\ Pick(list, at)[n] = list[o[n]]
  BY <1>2, <1>3
<1>6. \A i \in at : \E n \in DOMAIN o : Pick(list, at)[n] = list[i]
  BY <1>2, <1>5
<1>7. \A n \in DOMAIN o : \E i \in at : Pick(list, at)[n] = list[i]
  BY <1>5
<1>8. QED
  BY <1>2, <1>4, <1>6, <1>7

\* One list after the other is a list.
LEMMA JoinedProperties ==
  ASSUME NEW S, NEW lists \in Seq(Seq(S))
  PROVE  Joined(lists) \in Seq(S)
<1> DEFINE P == Places(lists)
           before == {p \in P \X P : p[1][1] < p[2][1] \/ (p[1][1] = p[2][1] /\ p[1][2] < p[2][2])}
           o == InOrder(P, before)
<1>1. \A p \in P : p[1] \in DOMAIN lists /\ p[2] \in DOMAIN lists[p[1]] /\ p = <<p[1], p[2]>>
  BY DEF Places
<1>2. \A i \in DOMAIN lists : i \in Int /\ lists[i] \in Seq(S) /\ DOMAIN lists[i] \subseteq Int
  OBVIOUS
<1>3. TotalOrder(P, before)
  <2>1. \A p \in P : p[1] \in Int /\ p[2] \in Int /\ p = <<p[1], p[2]>>
    BY <1>1, <1>2
  <2> HIDE DEF P
  <2>2. QED
    BY <2>1 DEF TotalOrder
<1>4. IsFiniteSet(P)
  <2>1. \A i \in DOMAIN lists : IsFiniteSet({i} \X DOMAIN lists[i])
    <3> TAKE i \in DOMAIN lists
    <3>1. DOMAIN lists[i] = 1 .. Len(lists[i]) /\ Len(lists[i]) \in Int
      BY <1>2
    <3>2. IsFiniteSet(DOMAIN lists[i])
      BY <3>1, FS_Interval
    <3>3. QED
      BY <3>2, FS_Singleton, FS_Product
  <2> DEFINE F == {{i} \X DOMAIN lists[i] : i \in DOMAIN lists}
  <2>2. IsFiniteSet(DOMAIN lists)
    <3>1. DOMAIN lists = 1 .. Len(lists) /\ Len(lists) \in Int
      OBVIOUS
    <3>2. QED
      BY <3>1, FS_Interval
  <2>3. IsFiniteSet(F)
    <3> DEFINE f == [i \in DOMAIN lists |-> {i} \X DOMAIN lists[i]]
    <3>1. f \in [DOMAIN lists -> F] /\ \A x \in F : \E i \in DOMAIN lists : f[i] = x
      OBVIOUS
    <3>2. f \in Surjection(DOMAIN lists, F)
      BY <3>1 DEF Surjection
    <3> HIDE DEF f, F
    <3>3. QED
      BY <2>2, <3>2, FS_Surjection
  <2>4. \A x \in F : IsFiniteSet(x)
    BY <2>1
  <2>5. P = UNION F
    BY DEF Places
  <2>6. QED
    BY <2>3, <2>4, <2>5, FS_UNION
<1>5. Cardinality(P) \in Nat /\ o \in [1 .. Cardinality(P) -> P]
  BY <1>3, <1>4, InOrderProperties
<1>6. Joined(lists) = [n \in DOMAIN o |-> lists[o[n][1]][o[n][2]]]
  BY DEF Joined
<1> HIDE DEF o, P
<1>7. \A n \in DOMAIN o : lists[o[n][1]][o[n][2]] \in S
  BY <1>1, <1>2, <1>5
<1>8. QED
  BY <1>5, <1>6, <1>7

---------------------------------------------------------------------------
\* Access control.

Stages == {"idle", "find", "owner", "role", "act", "list", "count", "end"}

CallerOK(me) ==
  /\ me \in [at : Stages, kind : {"", "all", "scope", "page", "get", "update", "delete"},
             ids : Seq(KnowledgeBases \union (1 .. 2)), scope : SUBSET KnowledgeBases,
             total : Nat, result : {"", "ok", "error", "missing", "forbidden"}]
  /\ me.at \in {"find", "owner", "role", "act"} =>
       /\ me.kind \in {"scope", "get", "update", "delete"}
       /\ me.ids \in Seq(KnowledgeBases) /\ me.ids # <<>> /\ me.result = ""
  /\ me.at = "act" => me.kind \in {"update", "delete"}
  /\ me.at = "list" => me.kind \in {"all", "page"} /\ me.result = ""
  /\ me.at = "count" => me.kind = "page" /\ me.result = ""

SeenOK(seen) == seen \in [live : BOOLEAN, dead : BOOLEAN, most : 0 .. 3, least : 0 .. 3]

\* Everything but the seen and the stages of requests: rows with ids of their own.
TablesOK ==
  /\ kbs \in Seq(ToSet(kbs))
  /\ \A n \in DOMAIN kbs : IsRow(kbs[n])
  /\ \A m, n \in DOMAIN kbs : kbs[m].id = kbs[n].id => m = n
  /\ \A m \in members : m.org \in Orgs /\ m.user \in Users /\ m.role \in Roles
  /\ \A s \in shares : s.org \in Orgs /\ s.kb \in KnowledgeBases /\ s.permission \in Roles

AccessTypeOK ==
  /\ TablesOK
  /\ caller = [c \in Callers |-> caller[c]]
  /\ \A c \in Callers : CallerOK(caller[c])
  /\ witnessed = [c \in Callers |-> [k \in KnowledgeBases |-> witnessed[c][k]]]
  /\ \A c \in Callers, k \in KnowledgeBases : SeenOK(witnessed[c][k])

\* What is true of knowledge base k for user u now.
Sees(seen, u, k) ==
  /\ IF GetByID(k) # {} THEN seen.live ELSE seen.dead
  /\ seen.least <= Granted(u, k) /\ Granted(u, k) <= seen.most

\* seen, and more.
SeenSince(seen, later) ==
  /\ seen.live => later.live
  /\ seen.dead => later.dead
  /\ seen.most <= later.most /\ later.least <= seen.least

\* The verdict of a request on what it has dealt with so far.
VerdictOf(me, seen) ==
  LET required == Required(me.kind) IN
  /\ \A k \in me.scope : Could(seen[k], required)
  /\ me.result \in {"missing", "forbidden"} =>
       me.ids \in Seq(KnowledgeBases) /\ me.ids # <<>> /\ CouldNot(seen[Head(me.ids)], required)
  /\ me.kind = "all" /\ me.result = "ok" =>
       \A k \in KnowledgeBases \ me.scope : CouldNot(seen[k], required)
  /\ me.kind = "page" /\ me.total > 0 =>
       /\ me.total <= Cardinality({k \in KnowledgeBases : Could(seen[k], 1)})
       /\ me.total >= Cardinality({k \in KnowledgeBases : ~CouldNot(seen[k], 1)})

\* What a request at its statements knows of the knowledge base it is at.
StageKnows(me, seen) ==
  /\ me.at \in {"owner", "role", "act"} => seen[Head(me.ids)].live
  /\ me.at = "act" => seen[Head(me.ids)].most >= Required(me.kind)

\* Between the two statements of a role, the row still belongs to another tenant.
NotOwner(me, u) ==
  me.at = "role" => \E n \in DOMAIN kbs : kbs[n].id = Head(me.ids) /\ kbs[n].tenant # u.tenant

AccessInv ==
  /\ AccessTypeOK
  /\ \A c \in Callers : caller[c].at # "idle" =>
       /\ \A k \in KnowledgeBases : Sees(witnessed[c][k], UserOf[c], k)
       /\ VerdictOf(caller[c], witnessed[c])
       /\ StageKnows(caller[c], witnessed[c])
       /\ NotOwner(caller[c], UserOf[c])

---------------------------------------------------------------------------
\* The greatest of some roles is one of them.
LEMMA MaxOfRanks ==
  ASSUME NEW S \in SUBSET (0 .. 3), S # {}
  PROVE  Max(S) \in S /\ \A r \in S : r <= Max(S)
<1>1. \A x \in S : x = 0 \/ x = 1 \/ x = 2 \/ x = 3
  OBVIOUS
<1>2. \E x \in S : \A y \in S : x >= y
  <2>1. CASE 3 \in S
    BY <1>1, <2>1
  <2>2. CASE 3 \notin S /\ 2 \in S
    BY <1>1, <2>2
  <2>3. CASE 3 \notin S /\ 2 \notin S /\ 1 \in S
    BY <1>1, <2>3
  <2>4. CASE 3 \notin S /\ 2 \notin S /\ 1 \notin S
    <3>1. \A x \in S : x = 0
      BY <1>1, <2>4
    <3>2. PICK x : x \in S
      OBVIOUS
    <3>3. \A y \in S : x >= y
      BY <3>1, <3>2
    <3>4. QED
      BY <3>2, <3>3
  <2>5. QED
    BY <2>1, <2>2, <2>3, <2>4
<1>3. Max(S) \in S /\ \A y \in S : Max(S) >= y
  BY <1>2 DEF Max
<1>4. QED
  BY <1>3

\* Every row of the join is a role.
LEMMA JoinRanks ==
  ASSUME TablesOK, NEW u, NEW k
  PROVE  /\ \A j \in JoinOn(u, k) : MinAccessRole(j[1].permission, j[2].role) \in 1 .. 3
         /\ GetKnowledgeBaseRole(u, k) \in 0 .. 3
         /\ \A j \in JoinOn(u, k) : MinAccessRole(j[1].permission, j[2].role) <= GetKnowledgeBaseRole(u, k)
         /\ \/ GetKnowledgeBaseRole(u, k) = 0
            \/ \E j \in JoinOn(u, k) : MinAccessRole(j[1].permission, j[2].role) = GetKnowledgeBaseRole(u, k)
<1> DEFINE M(j) == MinAccessRole(j[1].permission, j[2].role)
           S == {0} \union {M(j) : j \in JoinOn(u, k)}
<1>1. \A j \in JoinOn(u, k) : M(j) \in 1 .. 3
  BY DEF JoinOn, TablesOK, MinAccessRole, Roles
<1>2. GetKnowledgeBaseRole(u, k) = Max(S)
  BY DEF GetKnowledgeBaseRole
<1> HIDE DEF M
<1>3. S \in SUBSET (0 .. 3) /\ S # {}
  BY <1>1
<1>4. Max(S) \in S /\ \A r \in S : r <= Max(S)
  BY <1>3, MaxOfRanks
<1> USE DEF M
<1>5. QED
  BY <1>1, <1>2, <1>3, <1>4

\* The query of the role and what the rows give are the same, but for the owner.
LEMMA GrantedIsRole ==
  ASSUME TablesOK, NEW u, NEW k
  PROVE  /\ Granted(u, k) \in 0 .. 3
         /\ (\E n \in DOMAIN kbs : kbs[n].id = k /\ kbs[n].tenant = u.tenant) => Granted(u, k) = 3
         /\ ~(\E n \in DOMAIN kbs : kbs[n].id = k /\ kbs[n].tenant = u.tenant) =>
              Granted(u, k) = GetKnowledgeBaseRole(u, k)
<1> DEFINE Own == \E kb \in ToSet(kbs) : kb.id = k /\ kb.tenant = u.tenant
           G == {r \in 0..3 : r = 0 \/ \E o \in Orgs :
                   /\ \E s \in shares : s.kb = k /\ s.org = o /\ s.permission >= r
                   /\ \E m \in members : m.user = u /\ m.org = o /\ m.role >= r}
           role == GetKnowledgeBaseRole(u, k)
<1>1. Own <=> \E n \in DOMAIN kbs : kbs[n].id = k /\ kbs[n].tenant = u.tenant
  BY DEF ToSet
<1>2. Granted(u, k) = IF Own THEN 3 ELSE Max(G)
  BY DEF Granted
<1>3. G \in SUBSET (0 .. 3) /\ G # {}
  BY SMT
<1>4. Max(G) \in G /\ \A r \in G : r <= Max(G)
  BY <1>3, MaxOfRanks
<1>5. role \in G
  <2>1. CASE role = 0
    BY <2>1
  <2>2. CASE role # 0
    <3>1. PICK j \in JoinOn(u, k) : MinAccessRole(j[1].permission, j[2].role) = role
      BY <2>2, JoinRanks
    <3>2. /\ j[1] \in shares /\ j[2] \in members /\ j[1].org = j[2].org /\ j[1].kb = k /\ j[2].user = u
          /\ j[1].org \in Orgs /\ j[1].permission \in 1 .. 3 /\ j[2].role \in 1 .. 3
      BY DEF JoinOn, TablesOK, Roles
    <3>3. j[1].permission >= role /\ j[2].role >= role /\ role \in 0 .. 3
      BY <3>1, <3>2, JoinRanks DEF MinAccessRole
    <3>4. QED
      BY <3>2, <3>3
  <2>3. QED
    BY <2>1, <2>2
<1>6. ASSUME NEW r \in G PROVE r <= role
  <2>1. CASE r = 0
    BY <2>1, JoinRanks
  <2>2. CASE r # 0
    <3>1. PICK o \in Orgs, s \in shares, m \in members :
            /\ s.kb = k /\ s.org = o /\ s.permission >= r
            /\ m.user = u /\ m.org = o /\ m.role >= r
      BY <1>6, <2>2
    <3> DEFINE j == <<s, m>>
    <3>2. j \in JoinOn(u, k) /\ j[1] = s /\ j[2] = m
      BY <3>1 DEF JoinOn
    <3>3. MinAccessRole(s.permission, m.role) <= role
      BY <3>2, JoinRanks
    <3>4. s.permission \in 1 .. 3 /\ m.role \in 1 .. 3 /\ r \in 0 .. 3 /\ role \in 0 .. 3
      BY <1>6, JoinRanks DEF TablesOK, Roles
    <3>5. QED
      BY <3>1, <3>3, <3>4 DEF MinAccessRole
  <2>3. QED
    BY <2>1, <2>2
<1>7. Max(G) = role
  <2>1. Max(G) \in 0 .. 3 /\ role \in 0 .. 3 /\ role <= Max(G) /\ Max(G) <= role
    BY <1>3, <1>4, <1>5, <1>6
  <2>2. QED
    BY <2>1
<1>8. Max(G) \in 0 .. 3
  BY <1>3, <1>4
<1> HIDE DEF Own, G
<1>9. Granted(u, k) \in 0 .. 3
  BY <1>2, <1>8
<1>10. Own => Granted(u, k) = 3
  BY <1>2
<1>11. ~Own => Granted(u, k) = role
  BY <1>2, <1>7
<1>12. QED
  BY <1>1, <1>9, <1>10, <1>11

LEMMA GrantedRanks ==
  TablesOK => \A d \in Callers, i \in KnowledgeBases : Granted(UserOf[d], i) \in 0 .. 3
BY GrantedIsRole

\* With ids of their own, at most one row is found.
LEMMA RowFound ==
  ASSUME TablesOK, NEW k
  PROVE  /\ \A kb \in GetByID(k) : \E n \in DOMAIN kbs : kbs[n] = kb /\ kb.id = k /\ ~kb.deleted
         /\ \A n \in DOMAIN kbs : kbs[n].id = k /\ ~kbs[n].deleted => kbs[n] \in GetByID(k)
         /\ \A m, n \in DOMAIN kbs : kbs[m].id = k /\ kbs[n].id = k => m = n
BY DEF GetByID, Live, ToSet, TablesOK
---------------------------------------------------------------------------
\* A step's verdict stays one as the request sees more.
LEMMA VerdictStays ==
  ASSUME NEW me, CallerOK(me), NEW seen, NEW later,
         \A k \in KnowledgeBases : SeenOK(seen[k]) /\ SeenOK(later[k]) /\ SeenSince(seen[k], later[k]),
         VerdictOf(me, seen)
  PROVE  VerdictOf(me, later)
<1> DEFINE required == Required(me.kind)
           can(w) == {k \in KnowledgeBases : Could(w[k], 1)}
           must(w) == {k \in KnowledgeBases : ~CouldNot(w[k], 1)}
<1>1. required \in 1 .. 3
  BY DEF Required
<1>2. ASSUME NEW k \in KnowledgeBases, NEW r \in 1 .. 3
      PROVE  /\ Could(seen[k], r) => Could(later[k], r)
             /\ CouldNot(seen[k], r) => CouldNot(later[k], r)
  BY DEF Could, CouldNot, SeenOK, SeenSince
<1>3. me.scope \subseteq KnowledgeBases /\ me.total \in Nat
  BY DEF CallerOK
<1>4. \A k \in me.scope : Could(later[k], required)
  BY <1>1, <1>2, <1>3 DEF VerdictOf
<1>5. me.result \in {"missing", "forbidden"} =>
        me.ids \in Seq(KnowledgeBases) /\ me.ids # <<>> /\ CouldNot(later[Head(me.ids)], required)
  <2>1. me.ids \in Seq(KnowledgeBases) /\ me.ids # <<>> => Head(me.ids) \in KnowledgeBases
    OBVIOUS
  <2>2. QED
    BY <1>1, <1>2, <2>1 DEF VerdictOf
<1>6. me.kind = "all" /\ me.result = "ok" => \A k \in KnowledgeBases \ me.scope : CouldNot(later[k], required)
  BY <1>1, <1>2 DEF VerdictOf
<1>7. /\ IsFiniteSet(can(later)) /\ Cardinality(can(seen)) <= Cardinality(can(later))
      /\ Cardinality(must(later)) <= Cardinality(must(seen))
      /\ Cardinality(can(seen)) \in Nat /\ Cardinality(must(seen)) \in Nat
      /\ Cardinality(can(later)) \in Nat /\ Cardinality(must(later)) \in Nat
  <2>1. can(seen) \subseteq can(later) /\ must(later) \subseteq must(seen)
    BY <1>2
  <2> HIDE DEF can, must
  <2>2. IsFiniteSet(can(later)) /\ IsFiniteSet(must(seen))
    BY AccessAssumption, FS_Subset DEF can, must, AccessAssumption
  <2>3. IsFiniteSet(can(seen)) /\ IsFiniteSet(must(later))
    BY <2>1, <2>2, FS_Subset
  <2>4. QED
    BY <2>1, <2>2, <2>3, FS_Subset, FS_CardinalityType
<1>8. me.kind = "page" /\ me.total > 0 =>
        me.total <= Cardinality(can(later)) /\ me.total >= Cardinality(must(later))
  <2>1. me.kind = "page" /\ me.total > 0 =>
          me.total <= Cardinality(can(seen)) /\ me.total >= Cardinality(must(seen))
    BY DEF VerdictOf
  <2> HIDE DEF can, must
  <2>2. QED
    BY <1>3, <1>7, <2>1
<1>9. QED
  BY <1>4, <1>5, <1>6, <1>8 DEF VerdictOf

\* What a request at a statement has learnt, it does not unlearn.
LEMMA StageStays ==
  ASSUME NEW me, CallerOK(me), NEW seen, NEW later,
         \A k \in KnowledgeBases : SeenOK(seen[k]) /\ SeenOK(later[k]) /\ SeenSince(seen[k], later[k]),
         StageKnows(me, seen)
  PROVE  StageKnows(me, later)
<1>1. me.at \in {"owner", "role", "act"} => me.ids \in Seq(KnowledgeBases) /\ me.ids # <<>>
  BY DEF CallerOK
<1>2. Required(me.kind) \in 1 .. 3
  BY DEF Required
<1>3. me.at \in {"owner", "role", "act"} => Head(me.ids) \in KnowledgeBases
  BY <1>1
<1>4. QED
  BY <1>2, <1>3 DEF StageKnows, SeenOK, SeenSince

\* What a request has seen of a state is true of it, and nothing is forgotten.
LEMMA AddSees ==
  ASSUME NEW seen, SeenOK(seen), NEW live \in BOOLEAN, NEW role \in 0 .. 3
  PROVE  /\ SeenOK(Add(seen, live, role))
         /\ SeenSince(seen, Add(seen, live, role))
         /\ IF live THEN Add(seen, live, role).live ELSE Add(seen, live, role).dead
         /\ Add(seen, live, role).least <= role /\ role <= Add(seen, live, role).most
<1>1. seen.live \in BOOLEAN /\ seen.dead \in BOOLEAN /\ seen.most \in 0 .. 3 /\ seen.least \in 0 .. 3
  BY DEF SeenOK
<1> DEFINE l == seen.live \/ live
           d == seen.dead \/ ~live
           m == IF role > seen.most THEN role ELSE seen.most
           n == IF role < seen.least THEN role ELSE seen.least
<1>2. /\ m \in 0 .. 3 /\ n \in 0 .. 3 /\ seen.most <= m /\ n <= seen.least /\ n <= role /\ role <= m
  BY <1>1
<1>3. l \in BOOLEAN /\ d \in BOOLEAN
  BY <1>1, Zenon
<1>4. Add(seen, live, role) = [live |-> l, dead |-> d, most |-> m, least |-> n]
  BY DEF Add
<1> HIDE DEF l, d, m, n
<1>5. /\ Add(seen, live, role).live = l /\ Add(seen, live, role).dead = d
      /\ Add(seen, live, role).most = m /\ Add(seen, live, role).least = n
  BY <1>4
<1>6. SeenOK(Add(seen, live, role))
  BY <1>2, <1>3, <1>4 DEF SeenOK
<1> USE DEF l, d
<1>7. /\ seen.live => l
      /\ seen.dead => d
      /\ IF live THEN l ELSE d
  BY <1>1, Zenon
<1> HIDE DEF l, d
<1>8. SeenSince(seen, Add(seen, live, role))
  BY <1>2, <1>5, <1>7 DEF SeenSince
<1>9. QED
  BY <1>2, <1>5, <1>6, <1>7, <1>8

\* Every step adds what is true of each knowledge base to what each request has seen.
LEMMA Remembered ==
  ASSUME AccessTypeOK, TablesOK', Remember, NEW c \in Callers, NEW k \in KnowledgeBases
  PROVE  /\ SeenOK(witnessed'[c][k])
         /\ caller'[c].at # "idle" =>
              SeenSince(witnessed[c][k], witnessed'[c][k]) /\ Sees(witnessed[c][k], UserOf[c], k)'
<1>1. Granted(UserOf[c], k)' \in 0 .. 3
  <2>1. (TablesOK => \A d \in Callers, i \in KnowledgeBases : Granted(UserOf[d], i) \in 0 .. 3)'
    BY GrantedRanks, PTL
  <2>2. QED
    BY <2>1
<1>2. SeenOK(witnessed[c][k])
  BY DEF AccessTypeOK
<1>3. CASE caller'[c].at = "idle"
  <2>1. witnessed'[c][k] = Nothing
    BY <1>3 DEF Remember
  <2>2. QED
    BY <2>1, <1>3 DEF SeenOK, Nothing
<1>4. CASE caller'[c].at # "idle"
  <2> DEFINE live == GetByID(k)' # {}
             role == Granted(UserOf[c], k)'
  <2>1. witnessed'[c][k] = Add(witnessed[c][k], live, role)
    BY <1>4 DEF Remember
  <2>2. live \in BOOLEAN
    OBVIOUS
  <2> HIDE DEF live, role
  <2>3. role \in 0 .. 3
    BY <1>1 DEF role
  <2>4. /\ SeenOK(witnessed'[c][k])
        /\ SeenSince(witnessed[c][k], witnessed'[c][k])
        /\ IF live THEN witnessed'[c][k].live ELSE witnessed'[c][k].dead
        /\ witnessed'[c][k].least <= role /\ role <= witnessed'[c][k].most
    BY <1>2, <2>1, <2>2, <2>3, AddSees
  <2>5. QED
    BY <2>4, <1>4 DEF Sees, live, role
<1>5. QED
  BY <1>3, <1>4
---------------------------------------------------------------------------
\* Rows stay where they are, with their ids and tenants.
RowsStay ==
  \A n \in DOMAIN kbs :
    n \in DOMAIN kbs' /\ kbs'[n].id = kbs[n].id /\ kbs'[n].tenant = kbs[n].tenant

\* Whatever a step does to the tables, it keeps the verdicts of the requests it leaves
\* alone, and must make its own by what its request has seen so far.
LEMMA InvStep ==
  ASSUME AccessInv, Remember, TablesOK', RowsStay,
         NEW f, caller' = f, f = [c \in Callers |-> f[c]],
         \A c \in Callers :
           \/ f[c] = caller[c]
           \/ /\ CallerOK(f[c])
              /\ f[c].at # "idle" => /\ VerdictOf(f[c], witnessed[c])
                                    /\ StageKnows(f[c], witnessed[c])
                                    /\ NotOwner(f[c], UserOf[c])'
  PROVE  AccessInv'
<1>1. \A c \in Callers : CallerOK(f[c])
  BY DEF AccessInv, AccessTypeOK
<1>2. ASSUME NEW c \in Callers, f[c].at # "idle"
      PROVE  VerdictOf(f[c], witnessed[c]) /\ StageKnows(f[c], witnessed[c]) /\ NotOwner(f[c], UserOf[c])'
  <2>1. CASE f[c] # caller[c]
    BY <1>2, <2>1
  <2>2. CASE f[c] = caller[c]
    <3>1. VerdictOf(f[c], witnessed[c]) /\ StageKnows(f[c], witnessed[c]) /\ NotOwner(f[c], UserOf[c])
      BY <1>2, <2>2 DEF AccessInv
    <3>2. NotOwner(f[c], UserOf[c])'
      BY <3>1 DEF NotOwner, RowsStay
    <3>3. QED
      BY <3>1, <3>2
  <2>3. QED
    BY <2>1, <2>2
<1>3. \A c \in Callers, k \in KnowledgeBases : SeenOK(witnessed[c][k])
  BY DEF AccessInv, AccessTypeOK
<1>4. ASSUME NEW c \in Callers, NEW k \in KnowledgeBases
      PROVE  /\ SeenOK(witnessed'[c][k])
             /\ f[c].at # "idle" =>
                  SeenSince(witnessed[c][k], witnessed'[c][k]) /\ Sees(witnessed[c][k], UserOf[c], k)'
  BY Remembered DEF AccessInv
<1>5. AccessTypeOK'
  <2>1. /\ \A c \in Callers : witnessed'[c] = [k \in KnowledgeBases |-> witnessed'[c][k]]
        /\ witnessed' = [c \in Callers |-> witnessed'[c]]
    BY DEF Remember
  <2>2. witnessed' = [c \in Callers |-> [k \in KnowledgeBases |-> witnessed'[c][k]]]
    BY <2>1
  <2>3. QED
    BY <1>1, <1>4, <2>2 DEF AccessTypeOK
<1>6. ASSUME NEW c \in Callers, f[c].at # "idle"
      PROVE  /\ \A k \in KnowledgeBases : Sees(witnessed[c][k], UserOf[c], k)'
             /\ VerdictOf(f[c], witnessed'[c])
             /\ StageKnows(f[c], witnessed'[c])
             /\ NotOwner(f[c], UserOf[c])'
  <2>1. \A k \in KnowledgeBases :
          SeenOK(witnessed[c][k]) /\ SeenOK(witnessed'[c][k]) /\ SeenSince(witnessed[c][k], witnessed'[c][k])
    BY <1>3, <1>4, <1>6
  <2>2. VerdictOf(f[c], witnessed'[c])
    BY <1>1, <1>2, <1>6, <2>1, VerdictStays
  <2>3. StageKnows(f[c], witnessed'[c])
    BY <1>1, <1>2, <1>6, <2>1, StageStays
  <2>4. QED
    BY <1>2, <1>4, <1>6, <2>2, <2>3
<1>7. QED
  BY <1>5, <1>6 DEF AccessInv

\* A statement of c's request, which leaves the tables as they are.
LEMMA StatementStep ==
  ASSUME AccessInv, Remember, UNCHANGED <<kbs, members, shares>>,
         NEW c \in Callers, NEW rec, Set(c, rec), CallerOK(rec),
         rec.at # "idle" =>
           VerdictOf(rec, witnessed[c]) /\ StageKnows(rec, witnessed[c]) /\ NotOwner(rec, UserOf[c])
  PROVE  AccessInv'
<1> DEFINE f == [caller EXCEPT ![c] = rec]
<1>1. caller = [d \in Callers |-> caller[d]]
  BY DEF AccessInv, AccessTypeOK
<1>2. caller' = f /\ f = [d \in Callers |-> f[d]] /\ f[c] = rec /\ \A d \in Callers \ {c} : f[d] = caller[d]
  BY <1>1 DEF Set
<1>3. TablesOK' /\ RowsStay
  BY DEF AccessInv, AccessTypeOK, TablesOK, RowsStay
<1>4. NotOwner(rec, UserOf[c])' <=> NotOwner(rec, UserOf[c])
  BY DEF NotOwner
<1> HIDE DEF f
<1>5. QED
  BY <1>2, <1>3, <1>4, InvStep

\* A change of the tables, which leaves the requests as they are.
LEMMA TableStep ==
  ASSUME AccessInv, Remember, TablesOK', RowsStay, UNCHANGED caller
  PROVE  AccessInv'
<1>1. caller = [c \in Callers |-> caller[c]]
  BY DEF AccessInv, AccessTypeOK
<1>2. QED
  BY <1>1, InvStep
---------------------------------------------------------------------------
LEMMA AccessStarts == AccessInit => AccessInv
<1> SUFFICES ASSUME AccessInit PROVE AccessInv
  OBVIOUS
<1>1. TablesOK
  BY AccessAssumption DEF AccessAssumption, AccessInit, TablesOK
<1>2. CallerOK(Idle)
  BY DEF CallerOK, Idle, Stages
<1>3. SeenOK(Nothing)
  BY DEF SeenOK, Nothing
<1>4. AccessTypeOK
  BY <1>1, <1>2, <1>3 DEF AccessInit, AccessTypeOK
<1>5. QED
  BY <1>4 DEF AccessInit, AccessInv, Idle

LEMMA BeginKeeps ==
  ASSUME AccessInv, Remember, NEW c \in Callers, NEW kind, NEW ids, NEW at,
         BeginRequest(c, kind, ids, at),
         \/ /\ at = "find" /\ kind \in {"scope", "get", "update", "delete"}
            /\ ids \in Seq(KnowledgeBases) /\ ids # <<>>
         \/ at = "list" /\ kind \in {"all", "page"} /\ ids \in Seq(KnowledgeBases \union (1 .. 2))
  PROVE  AccessInv'
<1> DEFINE rec == [Idle EXCEPT !.at = at, !.kind = kind, !.ids = ids]
<1>1. CallerOK(Idle) /\ Idle.scope = {} /\ Idle.total = 0 /\ Idle.result = ""
  BY DEF CallerOK, Idle, Stages
<1>2. ids \in Seq(KnowledgeBases \union (1 .. 2))
  BY SeqMonotonic
<1>3. /\ rec.at = at /\ rec.kind = kind /\ rec.ids = ids
      /\ rec.scope = {} /\ rec.total = 0 /\ rec.result = ""
  BY <1>1 DEF CallerOK
<1>4. CallerOK(rec)
  BY <1>1, <1>2, <1>3 DEF CallerOK, Stages
<1>5. Set(c, rec) /\ UNCHANGED <<kbs, members, shares>>
  BY DEF BeginRequest
<1> HIDE DEF rec
<1>6. VerdictOf(rec, witnessed[c])
  <2>1. rec.total = 0 /\ rec.result = "" /\ rec.scope = {}
    BY <1>3
  <2>2. \A n : n = 0 => ~(n > 0)
    OBVIOUS
  <2>3. rec.result \notin {"missing", "forbidden"} /\ rec.result # "ok"
    BY <2>1
  <2>4. QED
    BY <2>1, <2>2, <2>3, Zenon DEF VerdictOf
<1>7. StageKnows(rec, witnessed[c]) /\ NotOwner(rec, UserOf[c])
  BY <1>3 DEF StageKnows, NotOwner
<1>8. QED
  BY <1>4, <1>5, <1>6, <1>7, StatementStep

LEMMA RequestKeeps ==
  ASSUME AccessInv, Remember, NEW c \in Callers, AccessRequest(c)
  PROVE  AccessInv'
<1>1. CASE AskScope(c)
  <2>1. PICK question \in Questions :
          LET ids == Pick(question, {n \in Firsts(question) : question[n] # BlankId})
          IN  IF ids = <<>> THEN BeginRequest(c, "all", ids, "list")
              ELSE BeginRequest(c, "scope", ids, "find")
    BY <1>1 DEF AskScope
  <2> DEFINE at == {n \in Firsts(question) : question[n] # BlankId}
             ids == Pick(question, at)
  <2>2. question \in Seq(KnowledgeBases \union {BlankId})
    BY AccessAssumption DEF AccessAssumption
  <2>3. /\ at \in SUBSET Nat /\ IsFiniteSet(at)
        /\ \A n \in at : question[n] \in KnowledgeBases
    <3>1. DOMAIN question = 1 .. Len(question) /\ Len(question) \in Nat /\ at \subseteq DOMAIN question
      BY <2>2 DEF Firsts
    <3>2. IsFiniteSet(DOMAIN question)
      BY <3>1, FS_Interval
    <3>3. IsFiniteSet(at)
      BY <3>1, <3>2, FS_Subset
    <3>4. \A n \in at : question[n] \in KnowledgeBases
      BY <2>2, <3>1
    <3>5. QED
      BY <3>1, <3>3, <3>4
  <2> HIDE DEF at
  <2>4. ids \in Seq(KnowledgeBases)
    <3>1. /\ Cardinality(at) \in Nat
          /\ DOMAIN ids = 1 .. Cardinality(at)
          /\ \A n \in DOMAIN ids : \E i \in at : ids[n] = question[i]
      BY <2>3, PickProperties
    <3>2. \A n \in DOMAIN ids : ids[n] \in KnowledgeBases
      BY <2>3, <3>1
    <3>3. ids = [n \in 1 .. Cardinality(at) |-> ids[n]]
      BY <3>1 DEF Pick
    <3> HIDE DEF ids
    <3>4. QED
      BY <3>1, <3>2, <3>3
  <2>5. IF ids = <<>> THEN BeginRequest(c, "all", ids, "list") ELSE BeginRequest(c, "scope", ids, "find")
    BY <2>1 DEF at
  <2>6. ids \in Seq(KnowledgeBases \union (1 .. 2))
    BY <2>4, SeqMonotonic
  <2> HIDE DEF ids
  <2>7. QED
    BY <2>4, <2>5, <2>6, BeginKeeps
<1>2. CASE \E k \in KnowledgeBases, kind \in {"get", "update", "delete"} :
             BeginRequest(c, kind, <<k>>, "find")
  <2>1. PICK k \in KnowledgeBases, kind \in {"get", "update", "delete"} : BeginRequest(c, kind, <<k>>, "find")
    BY <1>2
  <2>2. <<k>> \in Seq(KnowledgeBases) /\ <<k>> # <<>>
    OBVIOUS
  <2>3. QED
    BY <2>1, <2>2, BeginKeeps
<1>3. CASE \E page \in 1..2 : BeginRequest(c, "page", <<page>>, "list")
  <2>1. PICK page \in 1..2 : BeginRequest(c, "page", <<page>>, "list")
    BY <1>3
  <2>2. <<page>> \in Seq(KnowledgeBases \union (1 .. 2))
    OBVIOUS
  <2>3. QED
    BY <2>1, <2>2, BeginKeeps
<1>4. QED
  BY <1>1, <1>2, <1>3 DEF AccessRequest

\* What holds of a request under way.
LEMMA UnderWay ==
  ASSUME AccessInv, NEW c \in Callers, caller[c].at # "idle"
  PROVE  /\ TablesOK /\ CallerOK(caller[c])
         /\ \A k \in KnowledgeBases : SeenOK(witnessed[c][k]) /\ Sees(witnessed[c][k], UserOf[c], k)
         /\ VerdictOf(caller[c], witnessed[c])
         /\ StageKnows(caller[c], witnessed[c])
         /\ NotOwner(caller[c], UserOf[c])
BY DEF AccessInv, AccessTypeOK

\* A request that ends with an error, or is turned away from what it could not use.
LEMMA EndKeeps ==
  ASSUME AccessInv, Remember, UNCHANGED <<kbs, members, shares>>,
         NEW c \in Callers, caller[c].at # "idle", NEW result, End(c, result),
         caller[c].at \in {"find", "owner", "role", "act", "list"},
         \/ result = "error"
         \/ /\ result \in {"missing", "forbidden"}
            /\ caller[c].at \in {"find", "owner", "role"}
            /\ CouldNot(witnessed[c][Head(caller[c].ids)], Required(caller[c].kind))
  PROVE  AccessInv'
<1> DEFINE me == caller[c]
           rec == [me EXCEPT !.at = "end", !.result = result]
<1>1. CallerOK(me) /\ VerdictOf(me, witnessed[c])
  BY UnderWay
<1>2. /\ rec.at = "end" /\ rec.result = result /\ rec.kind = me.kind /\ rec.ids = me.ids
      /\ rec.scope = me.scope /\ rec.total = me.total /\ CallerOK(rec)
  BY <1>1 DEF CallerOK, Stages
<1>3. me.at \in {"find", "owner", "role"} => me.ids \in Seq(KnowledgeBases) /\ me.ids # <<>>
  BY <1>1 DEF CallerOK
<1>4. Set(c, rec)
  BY DEF End
<1> HIDE DEF rec
<1>5. VerdictOf(rec, witnessed[c])
  BY <1>1, <1>2, <1>3 DEF VerdictOf
<1>6. StageKnows(rec, witnessed[c]) /\ NotOwner(rec, UserOf[c])
  BY <1>2 DEF StageKnows, NotOwner
<1>7. QED
  BY <1>2, <1>4, <1>5, <1>6, StatementStep

\* What is admitted is what the user could use.
LEMMA AdmitKeeps ==
  ASSUME AccessInv, Remember, UNCHANGED <<kbs, members, shares>>,
         NEW c \in Callers, caller[c].at \in {"owner", "role"}, Admit(c),
         witnessed[c][Head(caller[c].ids)].most >= Required(caller[c].kind)
  PROVE  AccessInv'
<1> DEFINE me == caller[c]
           id == Head(me.ids)
           more == me.kind = "scope" /\ Len(me.ids) > 1
<1>1. /\ CallerOK(me) /\ VerdictOf(me, witnessed[c]) /\ StageKnows(me, witnessed[c])
  BY UnderWay
<1>2. me.ids \in Seq(KnowledgeBases) /\ me.ids # <<>> /\ me.result = ""
  BY <1>1 DEF CallerOK
<1>3. id \in KnowledgeBases /\ Tail(me.ids) \in Seq(KnowledgeBases) /\ (more => Tail(me.ids) # <<>>)
      /\ Tail(me.ids) \in Seq(KnowledgeBases \union (1 .. 2))
  <2>1. \A s \in Seq(KnowledgeBases) : s # <<>> =>
          /\ Head(s) \in KnowledgeBases /\ Tail(s) \in Seq(KnowledgeBases)
          /\ Len(s) > 1 => Tail(s) # <<>>
    OBVIOUS
  <2>2. id \in KnowledgeBases /\ Tail(me.ids) \in Seq(KnowledgeBases) /\ (more => Tail(me.ids) # <<>>)
    BY <1>2, <2>1
  <2>3. QED
    BY <2>2, SeqMonotonic
<1>4. Could(witnessed[c][id], Required(me.kind))
  BY <1>1 DEF Could, StageKnows
<1>5. CASE me.kind \in {"update", "delete"}
  <2> DEFINE rec == [me EXCEPT !.at = "act"]
  <2>1. /\ rec.at = "act" /\ rec.result = me.result /\ rec.kind = me.kind /\ rec.ids = me.ids
        /\ rec.scope = me.scope /\ rec.total = me.total /\ CallerOK(rec)
    BY <1>1, <1>2, <1>5 DEF CallerOK, Stages
  <2>2. Set(c, rec)
    BY <1>5 DEF Admit
  <2> HIDE DEF rec
  <2>3. VerdictOf(rec, witnessed[c]) /\ NotOwner(rec, UserOf[c])
    BY <1>1, <2>1 DEF VerdictOf, NotOwner
  <2>4. StageKnows(rec, witnessed[c])
    BY <1>1, <2>1 DEF StageKnows
  <2>5. QED
    BY <2>1, <2>2, <2>3, <2>4, StatementStep
<1>6. CASE me.kind \notin {"update", "delete"}
  <2> DEFINE rec == [me EXCEPT !.ids = Tail(@), !.scope = @ \union {id},
                               !.at = IF more THEN "find" ELSE "end",
                               !.result = IF more THEN "" ELSE "ok"]
  <2>1. me.kind \in {"scope", "get"}
    BY <1>1, <1>6 DEF CallerOK
  <2>2. /\ rec.at = (IF more THEN "find" ELSE "end") /\ rec.result = (IF more THEN "" ELSE "ok")
        /\ rec.kind = me.kind /\ rec.ids = Tail(me.ids)
        /\ rec.scope = me.scope \union {id} /\ rec.total = me.total
    BY <1>1 DEF CallerOK
  <2>3. CallerOK(rec)
    BY <1>1, <1>3, <2>1, <2>2 DEF CallerOK, Stages
  <2>4. Set(c, rec)
    BY <1>6 DEF Admit
  <2> HIDE DEF rec
  <2>5. VerdictOf(rec, witnessed[c])
    BY <1>1, <1>4, <2>1, <2>2 DEF VerdictOf
  <2>6. StageKnows(rec, witnessed[c]) /\ NotOwner(rec, UserOf[c])
    BY <2>2 DEF StageKnows, NotOwner
  <2>7. QED
    BY <2>2, <2>3, <2>4, <2>5, <2>6, StatementStep
<1>7. QED
  BY <1>5, <1>6
\* The row is there, or the request is turned away.
LEMMA FindKeeps ==
  ASSUME AccessInv, Remember, NEW c \in Callers, Find(c)
  PROVE  AccessInv'
<1> DEFINE me == caller[c]
           id == Head(me.ids)
<1>1. me.at = "find" /\ UNCHANGED <<kbs, members, shares>>
  BY DEF Find
<1>2. /\ CallerOK(me) /\ VerdictOf(me, witnessed[c])
      /\ \A k \in KnowledgeBases : Sees(witnessed[c][k], UserOf[c], k)
  BY <1>1, UnderWay
<1>3. id \in KnowledgeBases
  <2>1. me.ids \in Seq(KnowledgeBases) /\ me.ids # <<>>
    BY <1>1, <1>2 DEF CallerOK
  <2>2. QED
    BY <2>1
<1>4. CASE End(c, "error")
  BY <1>1, <1>4, EndKeeps
<1>5. CASE GetByID(id) = {} /\ End(c, "missing")
  <2>1. CouldNot(witnessed[c][id], Required(me.kind))
    BY <1>2, <1>3, <1>5 DEF Sees, CouldNot
  <2>2. QED
    BY <1>1, <1>5, <2>1, EndKeeps
<1>6. CASE GetByID(id) # {} /\ Set(c, [me EXCEPT !.at = "owner"])
  <2> DEFINE rec == [me EXCEPT !.at = "owner"]
  <2>1. /\ rec.at = "owner" /\ rec.result = me.result /\ rec.kind = me.kind /\ rec.ids = me.ids
        /\ rec.scope = me.scope /\ rec.total = me.total /\ CallerOK(rec)
    BY <1>1, <1>2 DEF CallerOK, Stages
  <2>2. Set(c, rec)
    BY <1>6
  <2> HIDE DEF rec
  <2>3. VerdictOf(rec, witnessed[c]) /\ NotOwner(rec, UserOf[c])
    BY <1>2, <2>1 DEF VerdictOf, NotOwner
  <2>4. StageKnows(rec, witnessed[c])
    BY <1>2, <1>3, <1>6, <2>1 DEF StageKnows, Sees
  <2>5. QED
    BY <1>1, <2>1, <2>2, <2>3, <2>4, StatementStep
<1>7. QED
  BY <1>4, <1>5, <1>6 DEF Find

\* What the steps at an id know of it.
LEMMA AtId ==
  ASSUME AccessInv, NEW c \in Callers, caller[c].at \in {"owner", "role", "act"}
  PROVE  /\ Head(caller[c].ids) \in KnowledgeBases
         /\ SeenOK(witnessed[c][Head(caller[c].ids)])
         /\ Sees(witnessed[c][Head(caller[c].ids)], UserOf[c], Head(caller[c].ids))
         /\ witnessed[c][Head(caller[c].ids)].live
         /\ Required(caller[c].kind) \in 1 .. 3
         /\ TablesOK
         /\ Granted(UserOf[c], Head(caller[c].ids)) \in 0 .. 3
<1> DEFINE me == caller[c]
<1>1. /\ TablesOK /\ CallerOK(me)
      /\ \A k \in KnowledgeBases : SeenOK(witnessed[c][k]) /\ Sees(witnessed[c][k], UserOf[c], k)
      /\ StageKnows(me, witnessed[c])
  BY UnderWay
<1>2. me.ids \in Seq(KnowledgeBases) /\ me.ids # <<>>
  BY <1>1 DEF CallerOK
<1>3. Head(me.ids) \in KnowledgeBases
  BY <1>2
<1>4. Required(me.kind) \in 1 .. 3
  BY DEF Required
<1>5. QED
  BY <1>1, <1>3, <1>4, GrantedIsRole DEF StageKnows

LEMMA OwnerKeeps ==
  ASSUME AccessInv, Remember, NEW c \in Callers, Owner(c)
  PROVE  AccessInv'
<1> DEFINE me == caller[c]
           id == Head(me.ids)
           seen == witnessed[c][id]
<1>1. me.at = "owner" /\ UNCHANGED <<kbs, members, shares>>
  BY DEF Owner
<1>2. /\ id \in KnowledgeBases /\ SeenOK(seen) /\ Sees(seen, UserOf[c], id) /\ seen.live
      /\ Required(me.kind) \in 1 .. 3 /\ TablesOK
  BY <1>1, AtId
<1>3. CASE End(c, "error")
  BY <1>1, <1>3, EndKeeps
<1>4. CASE GetByID(id) = {} /\ End(c, "forbidden")
  <2>1. CouldNot(seen, Required(me.kind))
    BY <1>2, <1>4 DEF Sees, CouldNot
  <2>2. QED
    BY <1>1, <1>4, <2>1, EndKeeps
<1>5. CASE \E kb \in GetByID(id) : kb.tenant = UserOf[c].tenant /\ Admit(c)
  <2>1. \E n \in DOMAIN kbs : kbs[n].id = id /\ kbs[n].tenant = UserOf[c].tenant
    BY <1>2, <1>5, RowFound
  <2>2. Granted(UserOf[c], id) = 3
    BY <1>2, <2>1, GrantedIsRole
  <2>3. seen.most >= Required(me.kind)
    BY <1>2, <2>2 DEF Sees, SeenOK
  <2>4. QED
    BY <1>1, <1>5, <2>3, AdmitKeeps
<1>6. CASE /\ \E kb \in GetByID(id) : kb.tenant # UserOf[c].tenant
           /\ Set(c, [me EXCEPT !.at = "role"])
  <2> DEFINE rec == [me EXCEPT !.at = "role"]
  <2>1. CallerOK(me) /\ VerdictOf(me, witnessed[c])
    BY <1>1, UnderWay
  <2>2. /\ rec.at = "role" /\ rec.result = me.result /\ rec.kind = me.kind /\ rec.ids = me.ids
        /\ rec.scope = me.scope /\ rec.total = me.total /\ CallerOK(rec)
    BY <1>1, <2>1 DEF CallerOK, Stages
  <2>3. Set(c, rec)
    BY <1>6
  <2> HIDE DEF rec
  <2>4. VerdictOf(rec, witnessed[c])
    BY <2>1, <2>2 DEF VerdictOf
  <2>5. StageKnows(rec, witnessed[c])
    BY <1>2, <2>2 DEF StageKnows
  <2>6. NotOwner(rec, UserOf[c])
    BY <1>2, <1>6, <2>2, RowFound DEF NotOwner
  <2>7. QED
    BY <1>1, <2>2, <2>3, <2>4, <2>5, <2>6, StatementStep
<1>7. QED
  BY <1>3, <1>4, <1>5, <1>6 DEF Owner

LEMMA RoleKeeps ==
  ASSUME AccessInv, Remember, NEW c \in Callers, Role(c)
  PROVE  AccessInv'
<1> DEFINE me == caller[c]
           id == Head(me.ids)
           seen == witnessed[c][id]
           role == GetKnowledgeBaseRole(UserOf[c], id)
<1>1. me.at = "role" /\ UNCHANGED <<kbs, members, shares>>
  BY DEF Role
<1>2. /\ id \in KnowledgeBases /\ SeenOK(seen) /\ Sees(seen, UserOf[c], id) /\ seen.live
      /\ Required(me.kind) \in 1 .. 3 /\ TablesOK /\ Granted(UserOf[c], id) \in 0 .. 3
  BY <1>1, AtId
<1>3. role = Granted(UserOf[c], id)
  <2>1. NotOwner(me, UserOf[c])
    BY <1>1, UnderWay
  <2>2. ~(\E n \in DOMAIN kbs : kbs[n].id = id /\ kbs[n].tenant = UserOf[c].tenant)
    BY <1>1, <1>2, <2>1 DEF NotOwner, TablesOK
  <2>3. QED
    BY <1>2, <2>2, GrantedIsRole
<1>4. seen.least <= role /\ role <= seen.most /\ seen.least \in Int /\ seen.most \in Int /\ role \in Int
  BY <1>2, <1>3 DEF Sees, SeenOK
<1> HIDE DEF role
<1>5. CASE End(c, "error")
  BY <1>1, <1>5, EndKeeps
<1>6. CASE ~(role >= Required(me.kind)) /\ End(c, "forbidden")
  <2>1. CouldNot(seen, Required(me.kind))
    BY <1>2, <1>4, <1>6 DEF CouldNot
  <2>2. QED
    BY <1>1, <1>6, <2>1, EndKeeps
<1>7. CASE role >= Required(me.kind) /\ Admit(c)
  <2>1. seen.most >= Required(me.kind)
    BY <1>2, <1>4, <1>7
  <2>2. QED
    BY <1>1, <1>7, <2>1, AdmitKeeps
<1>8. QED
  BY <1>5, <1>6, <1>7 DEF Role, Allows, role
LEMMA ActKeeps ==
  ASSUME AccessInv, Remember, NEW c \in Callers, Act(c)
  PROVE  AccessInv'
<1> DEFINE me == caller[c]
           id == Head(me.ids)
<1>1. me.at = "act" /\ UNCHANGED <<members, shares>>
  BY DEF Act
<1>2. /\ id \in KnowledgeBases /\ SeenOK(witnessed[c][id]) /\ witnessed[c][id].live
      /\ Required(me.kind) \in 1 .. 3 /\ TablesOK
  BY <1>1, AtId
<1>3. CallerOK(me) /\ VerdictOf(me, witnessed[c]) /\ StageKnows(me, witnessed[c])
  BY <1>1, UnderWay
<1>4. me.kind \in {"update", "delete"} /\ me.result = ""
  BY <1>1, <1>3 DEF CallerOK
<1>5. Could(witnessed[c][id], Required(me.kind))
  BY <1>1, <1>2, <1>3 DEF Could, StageKnows
<1>6. PICK fault \in BOOLEAN :
        /\ kbs' = IF fault THEN kbs ELSE IF me.kind = "delete" THEN Delete(id) ELSE Rename(id, c)
        /\ Set(c, [me EXCEPT !.at = "end", !.scope = {id}, !.result = IF fault THEN "error" ELSE "ok"])
  BY DEF Act
<1>7. TablesOK' /\ RowsStay
  <2>1. /\ kbs \in Seq(ToSet(kbs)) /\ \A n \in DOMAIN kbs : IsRow(kbs[n])
        /\ \A m, n \in DOMAIN kbs : kbs[m].id = kbs[n].id => m = n
    BY <1>2 DEF TablesOK
  <2>2. ASSUME NEW n \in DOMAIN kbs
        PROVE  /\ IsRow([kbs[n] EXCEPT !.deleted = TRUE]) /\ [kbs[n] EXCEPT !.deleted = TRUE].id = kbs[n].id
               /\ [kbs[n] EXCEPT !.deleted = TRUE].tenant = kbs[n].tenant
               /\ IsRow([kbs[n] EXCEPT !.name = c]) /\ [kbs[n] EXCEPT !.name = c].id = kbs[n].id
               /\ [kbs[n] EXCEPT !.name = c].tenant = kbs[n].tenant
    BY <2>1 DEF IsRow
  <2>3. DOMAIN kbs = 1 .. Len(kbs) /\ Len(kbs) \in Nat
    BY <2>1
  <2>4. /\ DOMAIN kbs' = DOMAIN kbs /\ kbs' = [n \in DOMAIN kbs |-> kbs'[n]]
        /\ \A n \in DOMAIN kbs :
             IsRow(kbs'[n]) /\ kbs'[n].id = kbs[n].id /\ kbs'[n].tenant = kbs[n].tenant
    <3>1. CASE kbs' = kbs
      BY <2>1, <2>3, <3>1
    <3>2. CASE kbs' = Delete(id)
      BY <2>1, <2>2, <3>2 DEF Delete
    <3>3. CASE kbs' = Rename(id, c)
      BY <2>1, <2>2, <3>3 DEF Rename
    <3>4. QED
      BY <1>6, <3>1, <3>2, <3>3
  <2>5. kbs' \in Seq(ToSet(kbs'))
    <3>1. \A n \in 1 .. Len(kbs) : kbs'[n] \in ToSet(kbs')
      BY <2>3, <2>4 DEF ToSet
    <3>2. kbs' = [n \in 1 .. Len(kbs) |-> kbs'[n]]
      BY <2>3, <2>4
    <3>3. QED
      BY <2>3, <3>1, <3>2
  <2>6. (\A n \in DOMAIN kbs : IsRow(kbs[n]))'
    BY <2>4 DEF IsRow
  <2>7. (\A m, n \in DOMAIN kbs : kbs[m].id = kbs[n].id => m = n)'
    BY <2>1, <2>4
  <2>8. RowsStay
    BY <2>4 DEF RowsStay
  <2>9. QED
    BY <1>1, <1>2, <2>5, <2>6, <2>7, <2>8 DEF TablesOK
<1>8. PICK rec : rec = [me EXCEPT !.at = "end", !.scope = {id}, !.result = IF fault THEN "error" ELSE "ok"]
  OBVIOUS
<1>9. PICK f : f = [caller EXCEPT ![c] = rec]
  OBVIOUS
<1>10. /\ rec.at = "end" /\ rec.result \in {"error", "ok"} /\ rec.kind = me.kind
      /\ rec.scope = {id} /\ CallerOK(rec)
  BY <1>2, <1>3, <1>8 DEF CallerOK, Stages
<1>11. caller = [d \in Callers |-> caller[d]]
  BY DEF AccessInv, AccessTypeOK
<1>12. caller' = f /\ f = [d \in Callers |-> f[d]] /\ f[c] = rec /\ \A d \in Callers \ {c} : f[d] = caller[d]
  BY <1>6, <1>8, <1>9, <1>11 DEF Set
<1>13. VerdictOf(rec, witnessed[c])
  BY <1>4, <1>5, <1>10 DEF VerdictOf
<1>14. StageKnows(rec, witnessed[c]) /\ NotOwner(rec, UserOf[c])'
  BY <1>10 DEF StageKnows, NotOwner
<1>15. QED
  BY <1>7, <1>10, <1>12, <1>13, <1>14, InvStep

---------------------------------------------------------------------------
\* The rows of a list are those a user could use.
LEMMA ListedIsGranted ==
  ASSUME TablesOK, NEW u, NEW k \in KnowledgeBases
  PROVE  k \in Ids(ListAccessible(u)) <=> GetByID(k) # {} /\ Granted(u, k) >= 1
<1>1. /\ \A j \in JoinOn(u, k) : MinAccessRole(j[1].permission, j[2].role) \in 1 .. 3
      /\ GetKnowledgeBaseRole(u, k) \in 0 .. 3
      /\ \A j \in JoinOn(u, k) : MinAccessRole(j[1].permission, j[2].role) <= GetKnowledgeBaseRole(u, k)
      /\ \/ GetKnowledgeBaseRole(u, k) = 0
         \/ \E j \in JoinOn(u, k) : MinAccessRole(j[1].permission, j[2].role) = GetKnowledgeBaseRole(u, k)
  BY JoinRanks
<1>2. GetKnowledgeBaseRole(u, k) >= 1 <=> JoinOn(u, k) # {}
  <2>1. CASE JoinOn(u, k) = {}
    BY <1>1, <2>1
  <2>2. CASE JoinOn(u, k) # {}
    <3>1. PICK j : j \in JoinOn(u, k)
      BY <2>2
    <3> DEFINE r == MinAccessRole(j[1].permission, j[2].role)
    <3>2. r \in 1 .. 3 /\ r <= GetKnowledgeBaseRole(u, k)
      BY <1>1, <3>1
    <3> HIDE DEF r
    <3>3. QED
      BY <1>1, <2>2, <3>2
  <2>3. QED
    BY <2>1, <2>2
<1>3. ASSUME k \in Ids(ListAccessible(u)) PROVE GetByID(k) # {} /\ Granted(u, k) >= 1
  <2>1. PICK n \in DOMAIN kbs : /\ kbs[n].id = k /\ ~kbs[n].deleted
                                /\ kbs[n].tenant = u.tenant \/ JoinOn(u, k) # {}
    BY <1>3 DEF Ids, ListAccessible
  <2>2. GetByID(k) # {}
    BY <2>1, RowFound
  <2>3. Granted(u, k) = 3 \/ (Granted(u, k) = GetKnowledgeBaseRole(u, k) /\ JoinOn(u, k) # {})
    BY <2>1, GrantedIsRole
  <2>4. QED
    BY <1>2, <2>2, <2>3
<1>4. ASSUME GetByID(k) # {}, Granted(u, k) >= 1 PROVE k \in Ids(ListAccessible(u))
  <2>1. PICK n \in DOMAIN kbs : kbs[n].id = k /\ ~kbs[n].deleted
    BY <1>4, RowFound
  <2>2. CASE kbs[n].tenant = u.tenant
    BY <2>1, <2>2 DEF Ids, ListAccessible
  <2>3. CASE kbs[n].tenant # u.tenant
    <3>1. ~(\E m \in DOMAIN kbs : kbs[m].id = k /\ kbs[m].tenant = u.tenant)
      BY <2>1, <2>3 DEF TablesOK
    <3>2. Granted(u, k) = GetKnowledgeBaseRole(u, k)
      BY <3>1, GrantedIsRole
    <3>3. JoinOn(u, k) # {}
      BY <1>2, <1>4, <3>2
    <3>4. QED
      BY <2>1, <3>3 DEF Ids, ListAccessible
  <2>4. QED
    BY <2>2, <2>3
<1>5. QED
  BY <1>3, <1>4

\* What a list holds was the user's to use, and what it leaves out was not.
LEMMA ListedIsSeen ==
  ASSUME AccessInv, NEW c \in Callers, caller[c].at # "idle", NEW k \in KnowledgeBases
  PROVE  /\ k \in Ids(ListAccessible(UserOf[c])) => Could(witnessed[c][k], 1)
         /\ k \notin Ids(ListAccessible(UserOf[c])) => CouldNot(witnessed[c][k], 1)
<1>1. TablesOK /\ SeenOK(witnessed[c][k]) /\ Sees(witnessed[c][k], UserOf[c], k)
  BY UnderWay
<1>2. Granted(UserOf[c], k) \in 0 .. 3
  BY <1>1, GrantedIsRole
<1>3. k \in Ids(ListAccessible(UserOf[c])) <=> GetByID(k) # {} /\ Granted(UserOf[c], k) >= 1
  BY <1>1, ListedIsGranted
<1>4. QED
  BY <1>1, <1>2, <1>3 DEF Could, CouldNot, Sees, SeenOK
\* The list, and the page of it.
LEMMA ListKeeps ==
  ASSUME AccessInv, Remember, NEW c \in Callers, List(c)
  PROVE  AccessInv'
<1> DEFINE me == caller[c]
           all == ListAccessible(UserOf[c])
<1>1. me.at = "list" /\ UNCHANGED <<kbs, members, shares>>
  BY DEF List
<1>2. TablesOK /\ CallerOK(me) /\ VerdictOf(me, witnessed[c])
  BY <1>1, UnderWay
<1>3. Ids(all) \subseteq KnowledgeBases
  <2>1. all \subseteq DOMAIN kbs
    BY DEF ListAccessible
  <2> HIDE DEF all
  <2>2. \A n \in DOMAIN kbs : kbs[n].id \in KnowledgeBases
    BY <1>2 DEF TablesOK, IsRow
  <2>3. QED
    BY <2>1, <2>2 DEF Ids
<1>4. \A k \in KnowledgeBases :
        /\ k \in Ids(all) => Could(witnessed[c][k], 1)
        /\ k \notin Ids(all) => CouldNot(witnessed[c][k], 1)
  BY <1>1, ListedIsSeen
<1> HIDE DEF all
<1>5. CASE End(c, "error")
  BY <1>1, <1>5, EndKeeps
<1>6. CASE me.kind = "all" /\ Set(c, [me EXCEPT !.at = "end", !.scope = Ids(all), !.result = "ok"])
  <2>1. PICK rec : rec = [me EXCEPT !.at = "end", !.scope = Ids(all), !.result = "ok"]
    OBVIOUS
  <2>2. /\ rec.at = "end" /\ rec.result = "ok" /\ rec.kind = "all" /\ rec.scope = Ids(all) /\ CallerOK(rec)
    BY <1>2, <1>3, <1>6, <2>1 DEF CallerOK, Stages
  <2>3. Required(rec.kind) = 1
    BY <2>2 DEF Required
  <2>4. VerdictOf(rec, witnessed[c])
    BY <1>3, <1>4, <2>2, <2>3 DEF VerdictOf
  <2>5. StageKnows(rec, witnessed[c]) /\ NotOwner(rec, UserOf[c])
    BY <2>2 DEF StageKnows, NotOwner
  <2>6. QED
    BY <1>1, <1>6, <2>1, <2>2, <2>4, <2>5, StatementStep
<1>7. CASE me.kind = "page" /\ Set(c, [me EXCEPT !.at = "count", !.scope = Ids(PageOf(all, Head(me.ids)))])
  <2>1. PICK rec : rec = [me EXCEPT !.at = "count", !.scope = Ids(PageOf(all, Head(me.ids)))]
    OBVIOUS
  <2>2. Ids(PageOf(all, Head(me.ids))) \subseteq Ids(all)
    BY DEF Ids, PageOf
  <2>3. /\ rec.at = "count" /\ rec.result = me.result /\ rec.kind = "page" /\ rec.ids = me.ids
        /\ rec.total = me.total /\ rec.scope \subseteq Ids(all) /\ CallerOK(rec)
    BY <1>1, <1>2, <1>3, <1>7, <2>1, <2>2 DEF CallerOK, Stages
  <2>4. Required(rec.kind) = 1 /\ Required(me.kind) = 1
    BY <1>7, <2>3 DEF Required
  <2>5. VerdictOf(rec, witnessed[c])
    BY <1>2, <1>3, <1>4, <1>7, <2>3, <2>4 DEF VerdictOf
  <2>6. StageKnows(rec, witnessed[c]) /\ NotOwner(rec, UserOf[c])
    BY <2>3 DEF StageKnows, NotOwner
  <2>7. QED
    BY <1>1, <1>7, <2>1, <2>3, <2>5, <2>6, StatementStep
<1>8. QED
  BY <1>5, <1>6, <1>7 DEF List, all

\* The count beside the page.
LEMMA CountKeeps ==
  ASSUME AccessInv, Remember, NEW c \in Callers, CountAccessible(c)
  PROVE  AccessInv'
<1> DEFINE me == caller[c]
           listed == Ids(ListAccessible(UserOf[c]))
           can == {k \in KnowledgeBases : Could(witnessed[c][k], 1)}
           must == {k \in KnowledgeBases : ~CouldNot(witnessed[c][k], 1)}
<1>1. me.at = "count" /\ UNCHANGED <<kbs, members, shares>>
  BY DEF CountAccessible
<1>2. TablesOK /\ CallerOK(me) /\ VerdictOf(me, witnessed[c])
  BY <1>1, UnderWay
<1>3. me.kind = "page" /\ me.result = ""
  BY <1>1, <1>2 DEF CallerOK
<1>4. /\ Cardinality(listed) \in Nat
      /\ Cardinality(must) <= Cardinality(listed) /\ Cardinality(listed) <= Cardinality(can)
  <2>1. \A n \in DOMAIN kbs : kbs[n].id \in KnowledgeBases
    BY <1>2 DEF TablesOK, IsRow
  <2>2. listed \subseteq KnowledgeBases
    BY <2>1 DEF Ids, ListAccessible
  <2>3. \A k \in KnowledgeBases :
          /\ k \in listed => Could(witnessed[c][k], 1)
          /\ k \notin listed => CouldNot(witnessed[c][k], 1)
    BY <1>1, ListedIsSeen
  <2> HIDE DEF listed
  <2>4. listed \subseteq can /\ must \subseteq listed /\ can \subseteq KnowledgeBases
    BY <2>2, <2>3
  <2> HIDE DEF can, must
  <2>5. IsFiniteSet(can) /\ IsFiniteSet(listed)
    BY <2>2, <2>4, AccessAssumption, FS_Subset DEF AccessAssumption
  <2>6. QED
    BY <2>4, <2>5, FS_Subset, FS_CardinalityType
<1> HIDE DEF listed
<1>5. PICK total \in {0, Cardinality(listed)} :
        Set(c, [me EXCEPT !.at = "end", !.result = "ok", !.total = total])
  BY DEF CountAccessible, listed
<1>6. PICK rec : rec = [me EXCEPT !.at = "end", !.result = "ok", !.total = total]
  OBVIOUS
<1>7. /\ rec.at = "end" /\ rec.result = "ok" /\ rec.kind = "page" /\ rec.total = total
      /\ rec.scope = me.scope /\ CallerOK(rec)
  <2>1. total \in Nat
    BY <1>4, <1>5
  <2>2. QED
    BY <1>2, <1>3, <1>6, <2>1 DEF CallerOK, Stages
<1>8. total > 0 => total = Cardinality(listed)
  BY <1>5
<1>9. VerdictOf(rec, witnessed[c])
  <2>1. rec.total > 0 => rec.total <= Cardinality(can) /\ rec.total >= Cardinality(must)
    <3> HIDE DEF can, must
    <3>1. CASE total = Cardinality(listed)
      BY <1>4, <1>7, <3>1, FS_CardinalityType DEF listed
    <3>2. QED
      BY <1>5, <1>7, <3>1
  <2>2. \A k \in rec.scope : Could(witnessed[c][k], Required(rec.kind))
    BY <1>2, <1>3, <1>7 DEF VerdictOf
  <2>3. QED
    BY <1>7, <2>1, <2>2 DEF VerdictOf
<1>10. StageKnows(rec, witnessed[c]) /\ NotOwner(rec, UserOf[c])
  BY <1>7 DEF StageKnows, NotOwner
<1>11. QED
  BY <1>1, <1>5, <1>6, <1>7, <1>9, <1>10, StatementStep

LEMMA AnsweredKeeps ==
  ASSUME AccessInv, Remember, NEW c \in Callers, Answered(c)
  PROVE  AccessInv'
<1>1. CallerOK(Idle) /\ Idle.at = "idle"
  BY DEF CallerOK, Idle, Stages
<1>2. Set(c, Idle) /\ UNCHANGED <<kbs, members, shares>>
  BY DEF Answered
<1>3. QED
  BY <1>1, <1>2, StatementStep

---------------------------------------------------------------------------
LEMMA ListOfItself ==
  ASSUME NEW S, NEW s \in Seq(S)
  PROVE  s \in Seq(ToSet(s))
BY DEF ToSet

\* A new row is seen by who asks afterwards.
LEMMA CreateKeeps ==
  ASSUME AccessInv, Remember, NEW c \in Callers, CreateKnowledgeBase(c)
  PROVE  AccessInv'
<1>1. PICK k \in KnowledgeBases \ Ids(DOMAIN kbs) :
        kbs' = Append(kbs, [id |-> k, tenant |-> UserOf[c].tenant, name |-> c, deleted |-> FALSE])
  BY DEF CreateKnowledgeBase
<1>2. PICK row : row = [id |-> k, tenant |-> UserOf[c].tenant, name |-> c, deleted |-> FALSE]
  OBVIOUS
<1>3. UNCHANGED <<members, shares, caller>>
  BY DEF CreateKnowledgeBase
<1>4. IsRow(row) /\ row.id = k
  BY <1>2 DEF IsRow
<1>5. TablesOK
  BY DEF AccessInv, AccessTypeOK
<1>6. /\ kbs \in Seq(ToSet(kbs)) /\ Len(kbs) \in Nat /\ DOMAIN kbs = 1 .. Len(kbs)
      /\ \A n \in DOMAIN kbs : IsRow(kbs[n]) /\ kbs[n].id # k
      /\ \A m, n \in DOMAIN kbs : kbs[m].id = kbs[n].id => m = n
  BY <1>5 DEF TablesOK, Ids
<1>7. /\ kbs' = Append(kbs, row) /\ DOMAIN kbs' = 1 .. Len(kbs) + 1
      /\ \A n \in DOMAIN kbs : kbs'[n] = kbs[n]
      /\ kbs'[Len(kbs) + 1] = row
      /\ kbs' \in Seq(ToSet(kbs) \union {row})
  <2>1. kbs \in Seq(ToSet(kbs) \union {row})
    BY <1>6, SeqMonotonic
  <2>2. kbs' = Append(kbs, row)
    BY <1>1, <1>2
  <2>3. QED
    BY <1>6, <2>1, <2>2
<1>8. kbs' \in Seq(ToSet(kbs'))
  BY <1>7, ListOfItself
<1>9. \A n \in DOMAIN kbs' : n \in DOMAIN kbs \/ n = Len(kbs) + 1
  BY <1>6, <1>7
<1>10. (\A n \in DOMAIN kbs : IsRow(kbs[n]))'
  BY <1>4, <1>6, <1>7, <1>9 DEF IsRow
<1>11. (\A m, n \in DOMAIN kbs : kbs[m].id = kbs[n].id => m = n)'
  BY <1>4, <1>6, <1>7, <1>9
<1>12. RowsStay
  BY <1>6, <1>7 DEF RowsStay
<1>13. TablesOK'
  BY <1>3, <1>5, <1>8, <1>10, <1>11 DEF TablesOK
<1>14. QED
  BY <1>3, <1>12, <1>13, TableStep

\* Members and shares that come and go.
LEMMA GrantsKeep ==
  ASSUME AccessInv, Remember, AddOrganizationMember \/ ShareKnowledgeBase
  PROVE  AccessInv'
<1>1. TablesOK
  BY DEF AccessInv, AccessTypeOK
<1>2. DefaultRole \in Roles
  BY AccessAssumption DEF AccessAssumption
<1>3. UNCHANGED <<kbs, caller>>
  BY DEF AddOrganizationMember, ShareKnowledgeBase
<1>4. CASE AddOrganizationMember
  <2>1. PICK o \in Orgs, u \in Users, role \in Roles :
          members' = {m \in members : m.org # o \/ m.user # u} \union {[org |-> o, user |-> u, role |-> role]}
    BY <1>2, <1>4 DEF AddOrganizationMember
  <2>2. UNCHANGED shares
    BY <1>4 DEF AddOrganizationMember
  <2>3. TablesOK'
    BY <1>1, <1>3, <2>1, <2>2 DEF TablesOK, IsRow
  <2>4. QED
    BY <1>3, <2>3, TableStep DEF RowsStay
<1>5. CASE ShareKnowledgeBase
  <2>1. PICK o \in Orgs, k \in Ids(DOMAIN kbs), role \in Roles :
          shares' = {s \in shares : s.org # o \/ s.kb # k} \union {[org |-> o, kb |-> k, permission |-> role]}
    BY <1>2, <1>5 DEF ShareKnowledgeBase
  <2>2. k \in KnowledgeBases
    BY <1>1 DEF Ids, TablesOK, IsRow
  <2>3. UNCHANGED members
    BY <1>5 DEF ShareKnowledgeBase
  <2>4. TablesOK'
    BY <1>1, <1>3, <2>1, <2>2, <2>3 DEF TablesOK, IsRow
  <2>5. QED
    BY <1>3, <2>4, TableStep DEF RowsStay
<1>6. QED
  BY <1>4, <1>5

LEMMA AccessKeeps == AccessInv /\ [AccessNext]_accessVars => AccessInv'
<1> SUFFICES ASSUME AccessInv, [AccessNext]_accessVars PROVE AccessInv'
  OBVIOUS
<1>1. CASE UNCHANGED accessVars
  <2>1. UNCHANGED <<kbs, members, shares, caller, witnessed>>
    BY <1>1 DEF accessVars
  <2>2. \A k : GetByID(k)' = GetByID(k)
    BY <2>1 DEF GetByID, Live
  <2>3. \A u, k : Granted(u, k)' = Granted(u, k)
    BY <2>1 DEF Granted
  <2>4. \A c \in Callers, k \in KnowledgeBases :
          Sees(witnessed[c][k], UserOf[c], k)' <=> Sees(witnessed[c][k], UserOf[c], k)
    BY <2>1, <2>2, <2>3 DEF Sees
  <2>5. \A c \in Callers : NotOwner(caller[c], UserOf[c])' <=> NotOwner(caller[c], UserOf[c])
    BY <2>1 DEF NotOwner
  <2>6. AccessTypeOK'
    BY <2>1 DEF AccessInv, AccessTypeOK, TablesOK, IsRow
  <2>7. QED
    BY <2>1, <2>4, <2>5, <2>6 DEF AccessInv
<1>2. CASE AccessNext
  <2>1. Remember
    BY <1>2 DEF AccessNext
  <2>2. ASSUME NEW c \in Callers,
               \/ AccessRequest(c) \/ CreateKnowledgeBase(c) \/ Find(c) \/ Owner(c) \/ Role(c) \/ Act(c)
               \/ List(c) \/ CountAccessible(c) \/ Answered(c)
        PROVE  AccessInv'
    BY <2>1, <2>2, RequestKeeps, CreateKeeps, FindKeeps, OwnerKeeps, RoleKeeps, ActKeeps, ListKeeps,
       CountKeeps, AnsweredKeeps
  <2>3. CASE AccessOver
    <3>1. TablesOK' /\ RowsStay /\ UNCHANGED caller
      BY <2>3 DEF AccessOver, AccessInv, AccessTypeOK, TablesOK, IsRow, RowsStay
    <3>2. QED
      BY <2>1, <3>1, TableStep
  <2>4. QED
    BY <1>2, <2>1, <2>2, <2>3, GrantsKeep DEF AccessNext
<1>3. QED
  BY <1>1, <1>2

\* The invariant: the tables keep their shape, every request has seen what is true now, and
\* its verdict so far stands on what it has seen.
THEOREM AccessInvariance == AccessSpec => []AccessInv
<1> QED
  BY AccessStarts, AccessKeeps, PTL DEF AccessSpec

\* Whatever a request is told of a knowledge base, from its list, its page and its count to
\* the 403, the 404 and the write, was so at some moment of the request: for any tenants,
\* organisations, shares and knowledge bases, and any other requests in between.
THEOREM VerdictIsHeld == AccessSpec => []VerdictHeld
<1>1. AccessInv => VerdictHeld
  <2> SUFFICES ASSUME AccessInv, NEW c \in Callers, caller[c].at = "end"
               PROVE  VerdictOf(caller[c], witnessed[c])
    BY DEF VerdictHeld, VerdictOf
  <2>1. QED
    BY UnderWay
<1>2. QED
  BY <1>1, AccessInvariance, PTL

---------------------------------------------------------------------------
\* Retrieval.

\* Min and Max, as the limits use them.
LEMMA OfTwo ==
  ASSUME NEW a \in Int, NEW b \in Int
  PROVE  /\ Min({a, b}) = IF a <= b THEN a ELSE b
         /\ Max({a, b}) = IF a <= b THEN b ELSE a
<1>1. \E x \in {a, b} : \A y \in {a, b} : x <= y
  OBVIOUS
<1>2. \E x \in {a, b} : \A y \in {a, b} : x >= y
  OBVIOUS
<1>3. PICK least \in {a, b} : least = Min({a, b}) /\ \A y \in {a, b} : least <= y
  BY <1>1 DEF Min
<1>4. PICK most \in {a, b} : most = Max({a, b}) /\ \A y \in {a, b} : most >= y
  BY <1>2 DEF Max
<1>5. least = IF a <= b THEN a ELSE b
  BY <1>3
<1>6. most = IF a <= b THEN b ELSE a
  BY <1>4
<1>7. QED
  BY <1>3, <1>4, <1>5, <1>6

LEMMA ListShape ==
  ASSUME NEW S, NEW list \in Seq(S)
  PROVE  /\ Len(list) \in Nat /\ DOMAIN list = 1 .. Len(list)
         /\ DOMAIN list \in SUBSET Nat /\ IsFiniteSet(DOMAIN list)
         /\ \A i \in DOMAIN list : list[i] \in S
<1>1. Len(list) \in Nat /\ DOMAIN list = 1 .. Len(list)
  OBVIOUS
<1>2. IsFiniteSet(1 .. Len(list))
  BY <1>1, FS_Interval
<1>3. QED
  BY <1>1, <1>2

LEMMA FirstOfProperties ==
  ASSUME NEW S, NEW list \in Seq(S), NEW k \in Nat
  PROVE  /\ FirstOf(list, k) \in Seq(S)
         /\ Len(FirstOf(list, k)) = IF k <= Len(list) THEN k ELSE Len(list)
         /\ \A i \in DOMAIN FirstOf(list, k) : i \in DOMAIN list /\ FirstOf(list, k)[i] = list[i]
<1> DEFINE m == IF k <= Len(list) THEN k ELSE Len(list)
           t == SubSeq(list, 1, m)
<1>1. Len(list) \in Nat /\ DOMAIN list = 1 .. Len(list) /\ \A i \in DOMAIN list : list[i] \in S
  BY ListShape
<1>2. m \in 0 .. Len(list) /\ Min({k, Len(list)}) = m
  BY <1>1, OfTwo
<1>3. FirstOf(list, k) = t
  BY <1>2 DEF FirstOf
<1> HIDE DEF m
<1>4. /\ t \in Seq(S)
      /\ Len(t) = IF 1 <= m THEN m - 1 + 1 ELSE 0
      /\ \A i \in 1 .. m - 1 + 1 : t[i] = list[1 + i - 1]
  <2>1. \A i \in 1 .. m : list[i] \in S
    BY <1>1, <1>2
  <2>2. m \in Int
    BY <1>1, <1>2
  <2>3. QED
    BY <2>1, <2>2, SubSeqProperties
<1> HIDE DEF t
<1>5. Len(t) = m /\ DOMAIN t = 1 .. m
  BY <1>1, <1>2, <1>4
<1>6. \A i \in 1 .. m : t[i] = list[i] /\ i \in DOMAIN list
  BY <1>1, <1>2, <1>4
<1>7. QED
  BY <1>3, <1>4, <1>5, <1>6 DEF m

\* A choice among the positions of a list is a list of elements of it.
LEMMA PickedFrom ==
  ASSUME NEW S, NEW list \in Seq(S), NEW at \in SUBSET DOMAIN list
  PROVE  /\ Pick(list, at) \in Seq(S)
         /\ \A n \in DOMAIN Pick(list, at) : \E i \in at : Pick(list, at)[n] = list[i]
<1>1. at \in SUBSET Nat /\ IsFiniteSet(at)
  BY ListShape, FS_Subset
<1>2. /\ Cardinality(at) \in Nat
      /\ DOMAIN Pick(list, at) = 1 .. Cardinality(at)
      /\ \A n \in DOMAIN Pick(list, at) : \E i \in at : Pick(list, at)[n] = list[i]
  BY <1>1, PickProperties
<1>3. \A n \in 1 .. Cardinality(at) : Pick(list, at)[n] \in S
  BY <1>2, ListShape
<1>4. Pick(list, at) = [n \in 1 .. Cardinality(at) |-> Pick(list, at)[n]]
  BY <1>2 DEF Pick
<1> DEFINE p == Pick(list, at)
<1> HIDE DEF p
<1>5. p \in Seq(S)
  BY <1>2, <1>3, <1>4 DEF p
<1>6. QED
  BY <1>2, <1>5 DEF p

LEMMA InKbsType ==
  ASSUME NEW S, NEW list \in Seq(S), NEW among, NEW k \in Nat
  PROVE  InKbs(list, among, k) \in Seq(S) /\ Len(InKbs(list, among, k)) <= k
<1> DEFINE kept == Pick(list, {n \in DOMAIN list : KbOf[list[n]] \in among})
<1>1. kept \in Seq(S)
  BY PickedFrom
<1> HIDE DEF kept
<1>2. FirstOf(kept, k) \in Seq(S) /\ Len(FirstOf(kept, k)) <= k
  BY <1>1, FirstOfProperties, ListShape
<1>3. QED
  BY <1>2 DEF InKbs, kept

LEMMA ScopedSearchType ==
  ASSUME RetrievalAssumption, NEW near \in Seq(IndexedChunks), NEW among, NEW k \in Nat
  PROVE  ScopedSearch(near, among, k) \in Seq(IndexedChunks) /\ Len(ScopedSearch(near, among, k)) <= k
<1> DEFINE candidates == Max({k * CandidateFactor, MinCandidates})
<1>1. MaxCandidates \in Nat /\ CandidateFactor \in Nat /\ MinCandidates \in Nat
  BY DEF RetrievalAssumption
<1>2. k * CandidateFactor \in Nat
  BY <1>1
<1>3. candidates \in Nat
  <2>1. \A a, b \in Nat : Max({a, b}) \in Nat
    BY OfTwo
  <2>2. QED
    BY <1>1, <1>2, <2>1
<1> HIDE DEF candidates
<1>4. FirstOf(near, candidates) \in Seq(IndexedChunks) /\ FirstOf(near, MaxCandidates) \in Seq(IndexedChunks)
  BY <1>1, <1>3, FirstOfProperties
<1>5. /\ InKbs(FirstOf(near, candidates), among, k) \in Seq(IndexedChunks)
      /\ Len(InKbs(FirstOf(near, candidates), among, k)) <= k
      /\ InKbs(FirstOf(near, MaxCandidates), among, k) \in Seq(IndexedChunks)
      /\ Len(InKbs(FirstOf(near, MaxCandidates), among, k)) <= k
  BY <1>4, InKbsType
<1>6. QED
  BY <1>5 DEF ScopedSearch, candidates

\* An order of a finite set lists it, each element once.
LEMMA SetToSeqsProperties ==
  ASSUME NEW S, IsFiniteSet(S), NEW s \in SetToSeqs(S)
  PROVE  /\ s \in Seq(S) /\ Len(s) = Cardinality(S) /\ Cardinality(S) \in Nat
         /\ \A i, j \in DOMAIN s : s[i] = s[j] => i = j
         /\ \A x \in S : \E i \in DOMAIN s : s[i] = x
<1> DEFINE D == 1 .. Cardinality(S)
<1>1. Cardinality(S) \in Nat
  BY FS_CardinalityType
<1>2. s \in [D -> S] /\ \A i, j \in D : i # j => s[i] # s[j]
  BY DEF SetToSeqs
<1>3. s \in Seq(S) /\ DOMAIN s = D /\ Len(s) = Cardinality(S)
  BY <1>1, <1>2
<1>4. IsFiniteSet(D) /\ Cardinality(D) = Cardinality(S)
  BY <1>1, FS_Interval
<1>5. s \in Injection(D, S)
  BY <1>2 DEF Injection, IsInjective
<1>6. s \in Surjection(D, S)
  BY <1>4, <1>5, FS_Injection
<1>7. QED
  BY <1>1, <1>2, <1>3, <1>6 DEF Surjection

LEMMA SetToSeqType ==
  ASSUME NEW S, IsFiniteSet(S)
  PROVE  SetToSeq(S) \in Seq(S)
<1>1. Cardinality(S) \in Nat /\ ExistsBijection(1 .. Cardinality(S), S)
  BY FS_CardinalityType
<1>2. \E f \in [1 .. Cardinality(S) -> S] : IsInjective(f)
  BY <1>1 DEF ExistsBijection, Bijection, Injection, IsInjective
<1>3. SetToSeq(S) \in [1 .. Cardinality(S) -> S]
  BY <1>2 DEF SetToSeq
<1>4. QED
  BY <1>1, <1>3

---------------------------------------------------------------------------
LEMMA DistinctType ==
  ASSUME NEW S, NEW list \in Seq(S)
  PROVE  Distinct(list) \in Seq(S)
<1>1. Firsts(list) \in SUBSET DOMAIN list
  BY DEF Firsts
<1>2. QED
  BY <1>1, PickedFrom DEF Distinct

LEMMA WikiDocsType ==
  ASSUME RetrievalAssumption, NEW found \in Seq(Pages), NEW K, NEW order \in Seq(K)
  PROVE  WikiDocs(found, order) \in Seq(Pages)
<1> DEFINE pagesOf(kb) == InKbs(found, {kb}, TopK)
           linkedTo(kb) == SetToSeq(UNION {LinksOf[p] : p \in ToSet(pagesOf(kb))})
           perKb == [i \in DOMAIN order |-> pagesOf(order[i]) \o linkedTo(order[i])]
<1>1. TopK \in Nat /\ IsFiniteSet(Pages) /\ \A p \in Pages : LinksOf[p] \subseteq Pages
  BY DEF RetrievalAssumption
<1>2. ASSUME NEW kb PROVE pagesOf(kb) \o linkedTo(kb) \in Seq(Pages)
  <2>1. pagesOf(kb) \in Seq(Pages)
    BY <1>1, InKbsType
  <2>2. ToSet(pagesOf(kb)) \subseteq Pages
    BY <2>1, ListShape DEF ToSet
  <2> HIDE DEF pagesOf
  <2> DEFINE linked == UNION {LinksOf[p] : p \in ToSet(pagesOf(kb))}
  <2>3. linked \in SUBSET Pages
    BY <1>1, <2>2
  <2>4. IsFiniteSet(linked)
    BY <1>1, <2>3, FS_Subset
  <2> HIDE DEF linked
  <2>5. SetToSeq(linked) \in Seq(Pages)
    BY <2>3, <2>4, SetToSeqType, SeqMonotonic
  <2>6. linkedTo(kb) \in Seq(Pages)
    BY <2>5 DEF linked
  <2> HIDE DEF linkedTo
  <2>7. QED
    BY <2>1, <2>6
<1> HIDE DEF pagesOf, linkedTo
<1>3. DOMAIN order = 1 .. Len(order) /\ Len(order) \in Nat
  OBVIOUS
<1>4. perKb \in Seq(Seq(Pages))
  BY <1>2, <1>3
<1>5. Joined(perKb) \in Seq(Pages)
  BY <1>4, JoinedProperties
<1> HIDE DEF perKb
<1>6. Distinct(Joined(perKb)) \in Seq(Pages)
  BY <1>5, DistinctType
<1>7. FirstOf(Distinct(Joined(perKb)), TopK) \in Seq(Pages)
  BY <1>1, <1>6, FirstOfProperties
<1>8. QED
  BY <1>7 DEF WikiDocs, perKb, pagesOf, linkedTo

LEMMA OrdersAndLists ==
  ASSUME RetrievalAssumption
  PROVE  /\ Orders \subseteq Seq(IndexedChunks)
         /\ ChunkLists \subseteq Seq(IndexedChunks)
         /\ PageLists \subseteq Seq(Pages)
<1>1. IsFiniteSet(IndexedChunks) /\ IsFiniteSet(Pages)
  BY DEF RetrievalAssumption
<1>2. ASSUME NEW S, IsFiniteSet(S) PROVE Lists(S) \subseteq Seq(S)
  <2>1. ASSUME NEW T \in SUBSET S, NEW s \in SetToSeqs(T) PROVE s \in Seq(S)
    <3>1. IsFiniteSet(T)
      BY <1>2, FS_Subset
    <3>2. s \in Seq(T)
      BY <3>1, SetToSeqsProperties
    <3>3. QED
      BY <3>2, SeqMonotonic
  <2>2. QED
    BY <2>1 DEF Lists
<1>3. Orders \subseteq Seq(IndexedChunks)
  BY <1>1, SetToSeqsProperties DEF Orders
<1>4. QED
  BY <1>1, <1>2, <1>3 DEF ChunkLists, PageLists

LEMMA Elements ==
  ASSUME NEW S, NEW list \in Seq(S)
  PROVE  ToSet(list) \in SUBSET S /\ IsFiniteSet(ToSet(list))
<1>1. DOMAIN list = 1 .. Len(list) /\ IsFiniteSet(DOMAIN list) /\ \A i \in DOMAIN list : list[i] \in S
  BY ListShape
<1> DEFINE f == [i \in DOMAIN list |-> list[i]]
<1>2. f \in Surjection(DOMAIN list, ToSet(list))
  BY DEF Surjection, ToSet
<1> HIDE DEF f
<1>3. IsFiniteSet(ToSet(list))
  BY <1>1, <1>2, FS_Surjection
<1>4. QED
  BY <1>1, <1>3 DEF ToSet

---------------------------------------------------------------------------
HitsOK(list) == list \in Seq(IndexedChunks) /\ Len(list) <= 2 * TopK

RetrievalTypeOK ==
  /\ IsFiniteSet(req.kbs) /\ wiki \subseteq req.kbs
  /\ docs \in Seq(Documents) /\ context \in Seq(Documents)
  /\ HitsOK(vector) /\ HitsOK(keyword)

\* What is left of the documents once the scope has filtered them.
InScope ==
  /\ pc \in {"rerank", "gate", "context"} => ToSet(docs) \subseteq Allowed(req)
  /\ ScopeRespected

\* What the gate leaves is evidence, and so is what is read of it.
IsGated(list) == \A d \in ToSet(list) : IsEvidence(d)

Gated ==
  req.kind = "run" =>
    /\ pc = "context" => docs # <<>> /\ IsGated(docs)
    /\ pc = "generate" \/ outcome = "answered" =>
         IsGated(context) /\ (RerankTopK # 0 => context # <<>>)

RetrievalInv ==
  /\ RetrievalTypeOK /\ InScope /\ Gated
  /\ outcome = "answered" => pc = "done"

LEMMA InitRetrieval == RetrievalInit => RetrievalInv
<1> SUFFICES ASSUME RetrievalInit PROVE RetrievalInv
  OBVIOUS
<1>1. req.kbs = {} /\ req.kind = "none" /\ wiki = {} /\ pc = "idle" /\ outcome = "none"
  BY DEF RetrievalInit, Nobody
<1>2. docs = <<>> /\ context = <<>> /\ vector = <<>> /\ keyword = <<>>
  BY DEF RetrievalInit
<1>3. IsFiniteSet({})
  BY FS_EmptySet
<1>4. \A S : <<>> \in Seq(S) /\ Len(<<>>) = 0 /\ ToSet(<<>>) = {}
  BY DEF ToSet
<1>5. HitsOK(<<>>)
  BY <1>4, RetrievalAssumption DEF HitsOK, RetrievalAssumption
<1>6. RetrievalTypeOK
  BY <1>1, <1>2, <1>3, <1>4, <1>5 DEF RetrievalTypeOK
<1>7. InScope
  BY <1>1, <1>2, <1>4 DEF InScope, ScopeRespected
<1>8. QED
  BY <1>1, <1>6, <1>7 DEF RetrievalInv, Gated

\* Steps before the filter: nothing is promised yet, and nothing is read.
LEMMA Searching ==
  ASSUME RetrievalInv, RetrievalTypeOK',
         pc' \notin {"rerank", "gate", "context", "generate"}, outcome' # "answered",
         ToSet(context') = {} \/ (context' = context /\ req' = req)
  PROVE  RetrievalInv'
<1>1. ToSet(context') \subseteq Allowed(req')
  BY DEF RetrievalInv, InScope, ScopeRespected
<1>2. InScope'
  BY <1>1 DEF InScope, ScopeRespected
<1>3. Gated'
  BY DEF Gated
<1>4. QED
  BY <1>2, <1>3 DEF RetrievalInv

\* The searches of the vector side.
LEMMA SearchKeeps ==
  ASSUME RetrievalInv, pc \in {"idle", "rewrite", "embed", "search", "semantic", "keyword"},
         \/ \E r \in Requests : Ask(r)
         \/ Rewrite \/ NoVectorSide \/ EmbedQuery \/ VectorFails \/ Semantic
         \/ \E near \in Orders : VectorSearch(near)
         \/ \E found \in ChunkLists : KeywordSearch(found)
  PROVE  RetrievalInv'
<1> USE DEF RetrievalInv
<1>t. 2 * TopK \in Nat /\ TopK \in Nat
  BY RetrievalAssumption DEF RetrievalAssumption
<1>o. outcome # "answered"
  OBVIOUS
<1>e. \A S : <<>> \in Seq(S) /\ Len(<<>>) = 0 /\ ToSet(<<>>) = {}
  BY DEF ToSet
<1>1. ASSUME NEW r \in Requests, Ask(r) PROVE RetrievalInv'
  <2>1. IsFiniteSet(r.kbs)
    BY RetrievalAssumption DEF RetrievalAssumption
  <2>2. RetrievalTypeOK'
    BY <1>1, <1>e, <2>1 DEF Ask, RetrievalTypeOK, HitsOK
  <2>3. pc' = "rewrite" /\ outcome' = "none" /\ context' = <<>>
    BY <1>1 DEF Ask
  <2>4. QED
    BY <1>e, <2>2, <2>3, Searching
<1>2. CASE Rewrite
  <2>1. RetrievalTypeOK'
    BY <1>2 DEF Rewrite, RetrievalTypeOK, HitsOK
  <2>2. QED
    BY <1>2, <1>o, <2>1, Searching DEF Rewrite
<1>3. CASE NoVectorSide
  <2>1. RetrievalTypeOK'
    BY <1>3 DEF NoVectorSide, RetrievalTypeOK, HitsOK
  <2>2. QED
    BY <1>3, <1>o, <2>1, Searching DEF NoVectorSide
<1>4. CASE EmbedQuery
  <2>1. RetrievalTypeOK'
    BY <1>4 DEF EmbedQuery, RetrievalTypeOK, HitsOK
  <2>2. QED
    BY <1>4, <1>o, <2>1, Searching DEF EmbedQuery
<1>5. CASE VectorFails
  <2>1. RetrievalTypeOK'
    BY <1>5 DEF VectorFails, RetrievalTypeOK, HitsOK
  <2>2. QED
    BY <1>5, <1>o, <2>1, Searching DEF VectorFails
<1>6. CASE Semantic
  <2>1. FirstOf(vector, TopK) \in Seq(IndexedChunks)
    BY <1>t, FirstOfProperties DEF RetrievalTypeOK, HitsOK
  <2>2. FirstOf(vector, TopK) \in Seq(Documents)
    BY <2>1, SeqMonotonic DEF Documents
  <2>3. RetrievalTypeOK'
    BY <1>6, <1>e, <1>t, <2>2 DEF Semantic, RetrievalTypeOK, HitsOK
  <2>4. QED
    BY <1>6, <1>o, <2>3, Searching DEF Semantic
<1>7. ASSUME NEW near \in Orders, VectorSearch(near) PROVE RetrievalInv'
  <2>1. near \in Seq(IndexedChunks)
    BY OrdersAndLists, RetrievalAssumption
  <2>2. HitsOK(FirstOf(near, 2 * TopK))
    BY <1>t, <2>1, FirstOfProperties, ListShape DEF HitsOK
  <2>3. HitsOK(ScopedSearch(near, VectorKbs, 2 * TopK))
    BY <1>t, <2>1, ScopedSearchType, RetrievalAssumption DEF HitsOK
  <2>4. HitsOK(vector')
    BY <1>7, <2>2, <2>3 DEF VectorSearch
  <2>5. HitsOK(vector)' /\ HitsOK(keyword)'
    BY <1>7, <2>4 DEF VectorSearch, HitsOK, RetrievalTypeOK
  <2>6. RetrievalTypeOK'
    BY <1>7, <2>5 DEF VectorSearch, RetrievalTypeOK
  <2>7. QED
    BY <1>7, <1>o, <2>6, Searching DEF VectorSearch
<1>8. ASSUME NEW found \in ChunkLists, KeywordSearch(found) PROVE RetrievalInv'
  <2>1. found \in Seq(IndexedChunks)
    BY OrdersAndLists, RetrievalAssumption
  <2>2. HitsOK(FirstOf(found, 2 * TopK))
    BY <1>t, <2>1, FirstOfProperties, ListShape DEF HitsOK
  <2>3. HitsOK(InKbs(found, VectorKbs, 2 * TopK))
    BY <1>t, <2>1, InKbsType DEF HitsOK
  <2>4. HitsOK(keyword')
    BY <1>8, <2>2, <2>3 DEF KeywordSearch
  <2>5. HitsOK(vector)' /\ HitsOK(keyword)'
    BY <1>8, <2>4 DEF KeywordSearch, HitsOK, RetrievalTypeOK
  <2>6. RetrievalTypeOK'
    BY <1>8, <2>5 DEF KeywordSearch, RetrievalTypeOK
  <2>7. QED
    BY <1>8, <1>o, <2>6, Searching DEF KeywordSearch
<1>9. QED
  BY <1>1, <1>2, <1>3, <1>4, <1>5, <1>6, <1>7, <1>8

LEMMA FusedList ==
  ASSUME NEW v, NEW k, NEW fused \in RrfFuse(v, k)
  PROVE  \E s \in SetToSeqs(Fusible(v, k)) :
           /\ fused = FirstOf(s, TopK)
           /\ \A i \in 1 .. Len(s) - 1 : RrfScore(v, k, s[i]) >= RrfScore(v, k, s[i + 1])
BY DEF RrfFuse, Ranked

LEMMA BoostedList ==
  ASSUME NEW v, NEW k, NEW S, NEW s \in Ranked(S, LAMBDA d : Boost(v, k, d))
  PROVE  /\ s \in SetToSeqs(S)
         /\ \A i \in 1 .. Len(s) - 1 : Boost(v, k, s[i]) >= Boost(v, k, s[i + 1])
BY DEF Ranked

LEMMA FusedFrom ==
  ASSUME RetrievalTypeOK, NEW fused \in RrfFuse(vector, keyword)
  PROVE  /\ Fusible(vector, keyword) \in SUBSET IndexedChunks /\ IsFiniteSet(Fusible(vector, keyword))
         /\ fused \in Seq(IndexedChunks)
         /\ ToSet(fused) \in SUBSET IndexedChunks /\ IsFiniteSet(ToSet(fused))
<1>1. IsFiniteSet(ToSet(vector)) /\ IsFiniteSet(ToSet(keyword))
      /\ ToSet(vector) \in SUBSET IndexedChunks /\ ToSet(keyword) \in SUBSET IndexedChunks
  BY Elements DEF RetrievalTypeOK, HitsOK
<1>2. IsFiniteSet(ToSet(vector) \cup ToSet(keyword))
  BY <1>1, FS_Union
<1>3. Fusible(vector, keyword) \in SUBSET (ToSet(vector) \cup ToSet(keyword))
  BY DEF Fusible
<1>4. IsFiniteSet(Fusible(vector, keyword)) /\ Fusible(vector, keyword) \in SUBSET IndexedChunks
  BY <1>1, <1>2, <1>3, FS_Subset
<1>5. PICK s \in SetToSeqs(Fusible(vector, keyword)) : fused = FirstOf(s, TopK)
  BY FusedList
<1>6. s \in Seq(IndexedChunks)
  BY <1>4, SetToSeqsProperties, SeqMonotonic
<1>7. TopK \in Nat
  BY RetrievalAssumption DEF RetrievalAssumption
<1>8. fused \in Seq(IndexedChunks)
  BY <1>5, <1>6, <1>7, FirstOfProperties
<1>9. QED
  BY <1>4, <1>8, Elements

\* The graph, the fusion and the wiki pages.
LEMMA FusionKeeps ==
  ASSUME RetrievalInv, pc \in {"graph", "fuse", "inject", "wiki", "done"},
         \/ \E named \in SUBSET IndexedChunks, summarised \in BOOLEAN : GraphSearch(named, summarised)
         \/ Fuse \/ Inject \/ Finish
         \/ \E found \in PageLists : WikiSearch(found)
  PROVE  RetrievalInv'
<1> USE DEF RetrievalInv
<1>t. 2 * TopK \in Nat /\ TopK \in Nat
  BY RetrievalAssumption DEF RetrievalAssumption
<1>o. pc # "done" => outcome # "answered"
  OBVIOUS
<1>e. \A S : <<>> \in Seq(S) /\ Len(<<>>) = 0 /\ ToSet(<<>>) = {}
  BY DEF ToSet
<1>s. Seq(IndexedChunks) \subseteq Seq(Documents) /\ Seq(Pages) \subseteq Seq(Documents) /\ Summary \in Documents
  BY SeqMonotonic DEF Documents
<1>1. ASSUME NEW named \in SUBSET IndexedChunks, NEW summarised \in BOOLEAN,
             GraphSearch(named, summarised)
      PROVE  RetrievalInv'
  <2>1. RetrievalTypeOK'
    BY <1>1 DEF GraphSearch, RetrievalTypeOK, HitsOK
  <2>2. QED
    BY <1>1, <1>o, <2>1, Searching DEF GraphSearch
<1>2. CASE Fuse
  <2>1. PICK fused \in RrfFuse(vector, keyword) :
          docs' \in IF boosted = {} THEN {fused}
                    ELSE Ranked(ToSet(fused), LAMBDA d : Boost(vector, keyword, d))
    BY <1>2 DEF Fuse
  <2>2. /\ fused \in Seq(IndexedChunks)
        /\ ToSet(fused) \in SUBSET IndexedChunks /\ IsFiniteSet(ToSet(fused))
    BY FusedFrom
  <2>3. docs' = fused \/ docs' \in SetToSeqs(ToSet(fused))
    BY <2>1 DEF Ranked
  <2>4. docs' \in Seq(IndexedChunks)
    BY <2>2, <2>3, SetToSeqsProperties, SeqMonotonic
  <2>5. RetrievalTypeOK'
    BY <1>2, <1>s, <2>4 DEF Fuse, RetrievalTypeOK, HitsOK
  <2>6. QED
    BY <1>2, <1>o, <2>5, Searching DEF Fuse
<1>3. CASE Inject
  <2>1. Append(docs, Summary) \in Seq(Documents)
    BY <1>s DEF RetrievalTypeOK
  <2>2. RetrievalTypeOK'
    BY <1>3, <1>e, <1>t, <2>1 DEF Inject, RetrievalTypeOK, HitsOK
  <2>3. QED
    BY <1>3, <1>o, <2>2, Searching DEF Inject
<1>4. ASSUME NEW found \in PageLists, WikiSearch(found) PROVE RetrievalInv'
  <2>1. found \in Seq(Pages)
    BY OrdersAndLists, RetrievalAssumption
  <2>2. IsFiniteSet(wiki)
    BY FS_Subset DEF RetrievalTypeOK
  <2>3. ASSUME NEW order \in SetToSeqs(wiki)
        PROVE  FirstOf(Distinct(docs \o WikiDocs(found, order)), TopK) \in Seq(Documents)
    <3>1. order \in Seq(wiki)
      BY <2>2, SetToSeqsProperties
    <3>2. WikiDocs(found, order) \in Seq(Documents)
      BY <1>s, <2>1, <3>1, WikiDocsType, RetrievalAssumption
    <3>3. docs \o WikiDocs(found, order) \in Seq(Documents)
      BY <3>2, ConcatProperties DEF RetrievalTypeOK
    <3>4. QED
      BY <1>t, <3>3, DistinctType, FirstOfProperties
  <2>4. docs' \in Seq(Documents)
    BY <1>4, <2>3 DEF WikiSearch, RetrievalTypeOK
  <2>5. RetrievalTypeOK'
    BY <1>4, <2>4 DEF WikiSearch, RetrievalTypeOK, HitsOK
  <2>6. QED
    BY <1>4, <1>o, <2>5, Searching DEF WikiSearch
<1>5. CASE Finish
  <2>1. RetrievalTypeOK'
    BY <1>5, <1>e, FS_EmptySet DEF Finish, Nobody, RetrievalTypeOK, HitsOK
  <2>2. QED
    BY <1>5, <1>e, <2>1, Searching DEF Finish
<1>6. QED
  BY <1>1, <1>2, <1>3, <1>4, <1>5

\* The filter lets through what the request allows.
LEMMA FilterIsScope ==
  ASSUME NEW d \in Documents, NEW r, MatchDoc(r, d)
  PROVE  d \in Allowed(r)
BY DEF Documents, MatchDoc, Allowed

\* From the filter to the answer.
LEMMA AnswerKeeps ==
  ASSUME RetrievalInv, pc \in {"scope", "rerank", "gate", "context", "generate"},
         ApplyScope \/ Rerank \/ Gate \/ BuildContext \/ GenerateAnswer
  PROVE  RetrievalInv'
<1> USE DEF RetrievalInv
<1>t. TopK \in Nat /\ RerankTopK \in Nat
  BY RetrievalAssumption DEF RetrievalAssumption
<1>o. outcome # "answered"
  OBVIOUS
<1>e. \A S : <<>> \in Seq(S) /\ Len(<<>>) = 0 /\ ToSet(<<>>) = {}
  BY DEF ToSet
<1>d. docs \in Seq(Documents) /\ context \in Seq(Documents)
  BY DEF RetrievalTypeOK
<1>f. ASSUME NEW list \in Seq(Documents), NEW k \in Nat
      PROVE  ToSet(FirstOf(list, k)) \subseteq ToSet(list)
  BY FirstOfProperties DEF ToSet
<1>1. CASE ApplyScope
  <2> DEFINE at == {n \in DOMAIN docs : MatchDoc(req, docs[n])}
             kept == Pick(docs, at)
  <2>1. kept \in Seq(Documents) /\ \A n \in DOMAIN kept : kept[n] \in Allowed(req)
    <3>1. \A i \in at : i \in DOMAIN docs /\ MatchDoc(req, docs[i])
      OBVIOUS
    <3>2. at \in SUBSET DOMAIN docs
      OBVIOUS
    <3> HIDE DEF at
    <3>3. /\ kept \in Seq(Documents)
          /\ \A n \in DOMAIN kept : \E i \in at : kept[n] = docs[i]
      BY <1>d, <3>2, PickedFrom
    <3> HIDE DEF kept
    <3>4. QED
      BY <1>d, <3>1, <3>3, FilterIsScope, ListShape
  <2>2. /\ req' = req /\ query' = query
        /\ \/ /\ context' = FirstOf(kept, TopK) /\ outcome' = "listed" /\ pc' = "done" /\ docs' = <<>>
           \/ docs' = kept /\ pc' = "rerank" /\ context' = context /\ outcome' = outcome
    BY <1>1 DEF ApplyScope
  <2> HIDE DEF kept, at
  <2>3. ToSet(kept) \subseteq Allowed(req)
    BY <2>1 DEF ToSet
  <2>4. FirstOf(kept, TopK) \in Seq(Documents) /\ ToSet(FirstOf(kept, TopK)) \subseteq Allowed(req)
    BY <1>f, <1>t, <2>1, <2>3, FirstOfProperties
  <2>5. RetrievalTypeOK'
    BY <1>1, <1>e, <2>1, <2>2, <2>4 DEF ApplyScope, RetrievalTypeOK, HitsOK
  <2>6. InScope'
    BY <2>2, <2>3, <2>4 DEF InScope, ScopeRespected, Allowed
  <2>7. QED
    BY <1>o, <2>2, <2>5, <2>6 DEF Gated
<1>2. CASE Rerank
  <2>1. req' = req /\ context' = context /\ outcome' = outcome /\ query' = query
        /\ pc' = (IF req.kind = "run" THEN "gate" ELSE "context")
        /\ (docs' = docs \/ docs' \in Rerankings(docs))
    BY <1>2 DEF Rerank
  <2>2. docs' \in Seq(Documents) /\ ToSet(docs') \subseteq ToSet(docs)
    <3>1. ASSUME NEW p \in SetToSeqs(DOMAIN docs)
          PROVE  /\ [i \in DOMAIN docs |-> docs[p[i]]] \in Seq(Documents)
                 /\ \A i \in DOMAIN docs : docs[p[i]] \in ToSet(docs)
      <4>1. /\ DOMAIN docs = 1 .. Len(docs) /\ Len(docs) \in Nat /\ IsFiniteSet(DOMAIN docs)
            /\ \A i \in DOMAIN docs : docs[i] \in Documents
        BY <1>d, ListShape
      <4>2. Cardinality(DOMAIN docs) = Len(docs)
        BY <4>1, FS_Interval
      <4>3. p \in [DOMAIN docs -> DOMAIN docs]
        BY <4>1, <4>2 DEF SetToSeqs
      <4>4. QED
        BY <4>1, <4>3 DEF ToSet
    <3>2. QED
      BY <1>d, <2>1, <3>1 DEF Rerankings, ToSet
  <2>3. RetrievalTypeOK'
    BY <1>2, <2>2 DEF Rerank, RetrievalTypeOK, HitsOK
  <2>4. InScope'
    BY <1>2, <2>1, <2>2 DEF Rerank, InScope, ScopeRespected, Allowed
  <2>5. QED
    BY <1>o, <2>1, <2>3, <2>4 DEF Gated
<1>3. CASE Gate
  <2>1. /\ Evidence \in Seq(Documents) /\ ToSet(Evidence) \subseteq ToSet(docs)
        /\ \A d \in ToSet(Evidence) : IsEvidence(d)
    <3> DEFINE at == {n \in DOMAIN docs : IsEvidence(docs[n])}
    <3>1. \A i \in at : i \in DOMAIN docs /\ IsEvidence(docs[i])
      OBVIOUS
    <3>2. Evidence = Pick(docs, at) /\ at \in SUBSET DOMAIN docs
      BY DEF Evidence
    <3> HIDE DEF at
    <3>3. /\ Evidence \in Seq(Documents)
          /\ \A n \in DOMAIN Evidence : \E i \in at : Evidence[n] = docs[i]
      BY <1>d, <3>2, PickedFrom
    <3>4. QED
      BY <3>1, <3>3 DEF ToSet
  <2>2. /\ req' = req /\ context' = context /\ query' = query
        /\ \/ docs' = <<>> /\ outcome' = "blocked" /\ pc' = "done"
           \/ Evidence # <<>> /\ docs' = Evidence /\ pc' = "context" /\ outcome' = outcome
    BY <1>3 DEF Gate
  <2>3. RetrievalTypeOK'
    BY <1>3, <1>e, <2>1, <2>2 DEF Gate, RetrievalTypeOK, HitsOK
  <2>4. InScope'
    BY <1>3, <1>e, <2>1, <2>2 DEF Gate, InScope, ScopeRespected, Allowed
  <2>5. Gated'
    BY <1>o, <2>1, <2>2 DEF Gated, IsGated, IsEvidence
  <2>6. QED
    BY <1>o, <2>2, <2>3, <2>4, <2>5
<1>4. CASE BuildContext
  <2>1. /\ req' = req /\ query' = query /\ outcome' = outcome
        /\ context' = FirstOf(docs, RerankTopK) /\ docs' = <<>> /\ pc' = "generate" /\ pc = "context"
    BY <1>4 DEF BuildContext
  <2>2. context' \in Seq(Documents) /\ ToSet(context') \subseteq ToSet(docs)
    BY <1>d, <1>f, <1>t, <2>1, FirstOfProperties
  <2>3. docs # <<>> /\ RerankTopK # 0 => context' # <<>>
    <3>1. \A s \in Seq(Documents) : Len(s) \in Nat /\ (s = <<>> <=> Len(s) = 0)
      OBVIOUS
    <3>2. Len(context') = IF RerankTopK <= Len(docs) THEN RerankTopK ELSE Len(docs)
      BY <1>d, <1>t, <2>1, FirstOfProperties
    <3>3. QED
      BY <1>d, <1>t, <2>2, <3>1, <3>2
  <2>4. RetrievalTypeOK'
    BY <1>4, <1>e, <2>1, <2>2 DEF BuildContext, RetrievalTypeOK, HitsOK
  <2>5. InScope'
    BY <2>1, <2>2 DEF InScope, ScopeRespected, Allowed
  <2>6. Gated'
    BY <1>o, <2>1, <2>2, <2>3 DEF Gated, IsGated, IsEvidence
  <2>7. QED
    BY <1>o, <2>1, <2>4, <2>5, <2>6
<1>5. CASE GenerateAnswer
  <2>1. RetrievalTypeOK'
    BY <1>5 DEF GenerateAnswer, RetrievalTypeOK, HitsOK
  <2>2. InScope'
    BY <1>5 DEF GenerateAnswer, InScope, ScopeRespected, Allowed
  <2>3. Gated'
    BY <1>5 DEF GenerateAnswer, Gated, IsGated, IsEvidence
  <2>4. QED
    BY <1>5, <2>1, <2>2, <2>3 DEF GenerateAnswer
<1>6. QED
  BY <1>1, <1>2, <1>3, <1>4, <1>5

---------------------------------------------------------------------------
\* Arithmetic the solver is helped with.
LEMMA ProductGrows ==
  ASSUME NEW c \in Nat, NEW x \in Int, NEW y \in Int, x <= y
  PROVE  c * x <= c * y /\ c * x \in Int /\ c * y \in Int
<1>1. c * (y - x) \in Nat
  <2>1. \A m, n \in Nat : m * n \in Nat
    OBVIOUS
  <2>2. y - x \in Nat
    OBVIOUS
  <2>3. QED
    BY <2>1, <2>2
<1>2. c * (y - x) = c * y - c * x /\ c * x \in Int /\ c * y \in Int
  OBVIOUS
<1>3. QED
  BY <1>1, <1>2

\* What the quotient and the remainder are.
LEMMA Quotient ==
  ASSUME NEW X \in Nat, NEW a \in Nat, a > 0
  PROVE  /\ X \div a \in Nat /\ X % a \in 0 .. a - 1 /\ a * (X \div a) \in Nat
         /\ X = a * (X \div a) + (X % a)
<1> DEFINE q == X \div a
           r == X % a
<1>1. X = a * q + r /\ r \in 0 .. a - 1 /\ q \in Int
  OBVIOUS
<1> HIDE DEF q, r
<1>2. q >= 0
  <2>1. SUFFICES ASSUME q <= 0 - 1 PROVE FALSE
    BY <1>1
  <2>2. a * q <= a * (0 - 1) /\ a * q \in Int
    BY <1>1, <2>1, ProductGrows
  <2>3. a * (0 - 1) = 0 - a
    OBVIOUS
  <2>4. QED
    BY <1>1, <2>2, <2>3
<1>3. q \in Nat /\ a * q \in Nat
  <2>1. \A m, n \in Nat : m * n \in Nat
    OBVIOUS
  <2>2. q \in Nat
    BY <1>1, <1>2
  <2>3. QED
    BY <2>1, <2>2
<1>4. QED
  BY <1>1, <1>3 DEF q, r

\* Ten places of a divisor further, the share of a number this large is less.
LEMMA Shares ==
  ASSUME NEW X \in Nat, NEW a \in Nat, NEW b \in Nat, NEW hi \in Nat,
         a > 0, a + 10 <= b, b <= hi, 10 * X >= hi * (hi + 10)
  PROVE  X \div a > X \div b
<1> DEFINE q == X \div a
           r == X % a
           p == X \div b
           t == X % b
<1>1. q \in Nat /\ r \in 0 .. a - 1 /\ a * q \in Nat /\ X = a * q + r
  BY Quotient
<1>2. p \in Nat /\ t \in 0 .. b - 1 /\ b * p \in Nat /\ X = b * p + t
  BY Quotient
<1> HIDE DEF q, r, p, t
<1>3. SUFFICES ASSUME q <= p PROVE FALSE
  BY <1>1, <1>2 DEF q, p
<1>4. b * q <= b * p /\ b * q \in Int
  BY <1>1, <1>2, <1>3, ProductGrows
<1>5. a * q + 10 * q <= b * q
  <2>1. q * (a + 10) <= q * b
    BY <1>1, ProductGrows
  <2>2. q * (a + 10) = a * q + 10 * q /\ q * b = b * q
    BY <1>1
  <2>3. QED
    BY <2>1, <2>2
<1>6. 10 * q <= a
  BY <1>1, <1>2, <1>4, <1>5
<1>7. a * q <= hi * q /\ 10 * q <= hi
  <2>1. q * a <= q * hi
    BY <1>1, ProductGrows
  <2>2. q * a = a * q /\ q * hi = hi * q
    BY <1>1
  <2>3. QED
    BY <1>1, <1>6, <2>1, <2>2
<1>8. hi * (10 * q) <= hi * hi /\ hi * (10 * q) = 10 * (hi * q) /\ hi * q \in Int
  BY <1>1, <1>7, ProductGrows
<1>9. 10 * X < hi * hi + 10 * hi /\ hi * hi \in Int
  BY <1>1, <1>7, <1>8
<1>10. hi * (hi + 10) = hi * hi + 10 * hi
  OBVIOUS
<1>11. QED
  BY <1>9, <1>10

\* A share of a divisor that is at least lo.
LEMMA Share ==
  ASSUME NEW X \in Nat, NEW a \in Nat, NEW lo \in Nat, lo > 0, lo <= a
  PROVE  X \div a \in Nat /\ lo * (X \div a) <= X
<1> DEFINE q == X \div a
           r == X % a
<1>1. q \in Nat /\ r \in 0 .. a - 1 /\ a * q \in Nat /\ X = a * q + r
  BY Quotient
<1> HIDE DEF q, r
<1>2. q * lo <= q * a /\ q * lo = lo * q /\ q * a = a * q /\ q * lo \in Int
  BY <1>1, ProductGrows
<1>3. QED
  BY <1>1, <1>2 DEF q
LEMMA ScaleIsLarge ==
  /\ Scale \in Nat
  /\ 10 * (8 * Scale) >= 20600 * (20600 + 10)
  /\ 10 * (10 * Scale) >= 20600 * (20600 + 10)
BY DEF Scale

\* Where SelectInSeq finds a document.
Place(list, d) == SelectInSeq(list, LAMBDA e : e = d)

LEMMA PlaceIsFirst ==
  ASSUME NEW S, NEW list \in Seq(S), NEW d, Contains(list, d)
  PROVE  /\ Place(list, d) \in DOMAIN list
         /\ list[Place(list, d)] = d
         /\ \A i \in DOMAIN list : list[i] = d => Place(list, d) <= i
<1> DEFINE I == {i \in 1 .. Len(list) : list[i] = d}
<1>1. DOMAIN list = 1 .. Len(list) /\ Len(list) \in Nat
  BY ListShape
<1>2. I \in SUBSET Nat /\ I # {}
  BY <1>1 DEF Contains
<1>3. \E x \in I : \A y \in I : x <= y
  BY <1>2, Least
<1>4. Place(list, d) = Min(I)
  BY <1>2 DEF Place, SelectInSeq
<1>5. Min(I) \in I /\ \A y \in I : Min(I) <= y
  BY <1>3 DEF Min
<1>6. QED
  BY <1>1, <1>4, <1>5

LEMMA VerdictByPlace ==
  ASSUME NEW list, NEW a, NEW b
  PROVE  AtLeastAsGood(list, a, b) <=>
           (Contains(list, b) => Contains(list, a) /\ Place(list, a) < Place(list, b))
BY DEF AtLeastAsGood, Place

LEMMA ContributionIs ==
  ASSUME NEW list, NEW w, NEW d
  PROVE  Contribution(list, w, d) =
           IF Contains(list, d) THEN (w * Scale) \div (10 * (60 + Place(list, d))) ELSE 0
BY DEF Contribution, Place

LEMMA ContributionRange ==
  ASSUME NEW list, HitsOK(list), NEW w \in {8, 10}, NEW d
  PROVE  /\ Contribution(list, w, d) \in Nat /\ 610 * Contribution(list, w, d) <= w * Scale
         /\ Contains(list, d) =>
              Place(list, d) \in Nat /\ Place(list, d) > 0 /\ Place(list, d) <= 2000
<1>1. TopK \in 1 .. 1000
  BY RetrievalAssumption DEF RetrievalAssumption
<1>2. w * Scale \in Nat
  <2>1. \A m, n \in Nat : m * n \in Nat
    OBVIOUS
  <2>2. w \in Nat /\ Scale \in Nat
    BY ScaleIsLarge
  <2>3. QED
    BY <2>1, <2>2, Zenon
<1>3. CASE Contains(list, d)
  <2>1. Place(list, d) \in Nat /\ Place(list, d) > 0 /\ Place(list, d) <= 2000
    <3>1. Place(list, d) \in DOMAIN list
      BY <1>3, PlaceIsFirst DEF HitsOK
    <3>2. DOMAIN list = 1 .. Len(list) /\ Len(list) \in Nat /\ Len(list) <= 2000
      BY <1>1, ListShape DEF HitsOK
    <3>3. QED
      BY <3>1, <3>2
  <2> DEFINE X == w * Scale
             a == 10 * (60 + Place(list, d))
  <2>2. X \in Nat /\ a \in Nat /\ 610 <= a
    BY <1>2, <2>1
  <2>3. Contribution(list, w, d) = X \div a
    BY <1>3, ContributionIs
  <2> HIDE DEF a, X
  <2>4. X \div a \in Nat /\ 610 * (X \div a) <= X
    BY <2>2, Share
  <2>5. QED
    BY <2>1, <2>3, <2>4 DEF X
<1>4. CASE ~Contains(list, d)
  BY <1>2, <1>4, ContributionIs
<1>5. QED
  BY <1>3, <1>4

LEMMA ContributionLess ==
  ASSUME NEW list, HitsOK(list), NEW w \in {8, 10}, NEW a, NEW b, AtLeastAsGood(list, a, b)
  PROVE  /\ Contribution(list, w, a) >= Contribution(list, w, b)
         /\ Contains(list, b) => Contribution(list, w, a) > Contribution(list, w, b)
<1>1. CASE Contains(list, b)
  <2> DEFINE x == Contribution(list, w, a)
             y == Contribution(list, w, b)
             X == w * Scale
             i == 10 * (60 + Place(list, a))
             j == 10 * (60 + Place(list, b))
  <2>1. Contains(list, a) /\ Place(list, a) < Place(list, b)
    BY <1>1, VerdictByPlace
  <2>2. /\ Place(list, a) \in Nat /\ Place(list, a) > 0
        /\ Place(list, b) \in Nat /\ Place(list, b) <= 2000
    BY <1>1, <2>1, ContributionRange
  <2>3. i \in Nat /\ j \in Nat /\ i > 0 /\ i + 10 <= j /\ j <= 20600
    BY <2>1, <2>2
  <2>4. X \in Nat /\ 10 * X >= 20600 * (20600 + 10)
    BY ScaleIsLarge
  <2>5. x = X \div i /\ y = X \div j
    BY <1>1, <2>1, ContributionIs
  <2>6. x \in Int /\ y \in Int
    BY ContributionRange
  <2> HIDE DEF i, j, x, y, X
  <2>7. x > y
    <3>1. PICK hi \in Nat : hi = 20600
      OBVIOUS
    <3>2. j <= hi /\ 10 * X >= hi * (hi + 10)
      BY <2>3, <2>4, <3>1
    <3>3. QED
      BY <2>3, <2>4, <2>5, <3>2, Shares
  <2>8. QED
    BY <2>6, <2>7 DEF x, y
<1>2. CASE ~Contains(list, b)
  <2>1. Contribution(list, w, b) = 0 /\ Contribution(list, w, a) \in Nat
    BY <1>2, ContributionIs, ContributionRange
  <2>2. QED
    BY <1>2, <2>1
<1>3. QED
  BY <1>1, <1>2

\* No fused score comes near the cap of the graph's confirmation.
LEMMA ScoreRange ==
  ASSUME NEW v, NEW k, HitsOK(v), HitsOK(k), NEW d
  PROVE  RrfScore(v, k, d) \in Nat /\ 2 * RrfScore(v, k, d) <= Scale
<1> DEFINE x == Contribution(v, 10, d)
           y == Contribution(k, 8, d)
<1>1. x \in Nat /\ 610 * x <= 10 * Scale /\ y \in Nat /\ 610 * y <= 8 * Scale
  BY ContributionRange
<1>2. RrfScore(v, k, d) = x + y
  BY DEF RrfScore
<1>3. Scale \in Nat
  BY ScaleIsLarge
<1> HIDE DEF x, y
<1>4. QED
  BY <1>1, <1>2, <1>3

\* The sources' common verdict is the fused score's.
LEMMA VerdictIsScore ==
  ASSUME NEW v, NEW k, HitsOK(v), HitsOK(k), NEW a, NEW b,
         AtLeastAsGood(v, a, b), AtLeastAsGood(k, a, b), Contains(v, b) \/ Contains(k, b)
  PROVE  RrfScore(v, k, a) > RrfScore(v, k, b)
<1> DEFINE va == Contribution(v, 10, a)
           vb == Contribution(v, 10, b)
           ka == Contribution(k, 8, a)
           kb == Contribution(k, 8, b)
<1>1. va \in Nat /\ vb \in Nat /\ ka \in Nat /\ kb \in Nat
  BY ContributionRange
<1>2. va >= vb /\ ka >= kb /\ (va > vb \/ ka > kb)
  BY ContributionLess
<1>3. RrfScore(v, k, a) = va + ka /\ RrfScore(v, k, b) = vb + kb
  BY DEF RrfScore
<1> HIDE DEF va, vb, ka, kb
<1>4. QED
  BY <1>1, <1>2, <1>3

LEMMA BoostIs ==
  ASSUME NEW v, NEW k, HitsOK(v), HitsOK(k), NEW d
  PROVE  Boost(v, k, d) = IF d \in boosted THEN (RrfScore(v, k, d) * 12) \div 10 ELSE RrfScore(v, k, d)
<1> DEFINE z == RrfScore(v, k, d)
<1>1. z \in Nat /\ 2 * z <= Scale /\ Scale \in Nat
  BY ScoreRange, ScaleIsLarge
<1>2. Boost(v, k, d) = IF d \in boosted THEN Min({(z * 12) \div 10, Scale}) ELSE z
  BY DEF Boost
<1> HIDE DEF z
<1>3. (z * 12) \div 10 \in Int /\ (z * 12) \div 10 <= Scale
  BY <1>1
<1>4. \A n, m \in Int : n <= m => Min({n, m}) = n
  BY OfTwo
<1>5. Min({(z * 12) \div 10, Scale}) = (z * 12) \div 10
  BY <1>1, <1>3, <1>4
<1>6. QED
  BY <1>2, <1>5 DEF z

\* The graph's confirmation does not turn it around.
LEMMA VerdictIsBoost ==
  ASSUME NEW v, NEW k, HitsOK(v), HitsOK(k), NEW a, NEW b, b \in boosted => a \in boosted,
         AtLeastAsGood(v, a, b), AtLeastAsGood(k, a, b), Contains(v, b) \/ Contains(k, b)
  PROVE  Boost(v, k, a) > Boost(v, k, b)
<1> DEFINE x == RrfScore(v, k, a)
           y == RrfScore(v, k, b)
<1>1. x \in Nat /\ y \in Nat /\ x > y
  BY VerdictIsScore, ScoreRange
<1>2. /\ Boost(v, k, a) = IF a \in boosted THEN (x * 12) \div 10 ELSE x
      /\ Boost(v, k, b) = IF b \in boosted THEN (y * 12) \div 10 ELSE y
  BY BoostIs
<1> HIDE DEF x, y
<1>3. (x * 12) \div 10 > (y * 12) \div 10 /\ (x * 12) \div 10 >= x
  BY <1>1
<1>4. QED
  BY <1>1, <1>2, <1>3

\* A list that falls from each place to the next falls as a whole: else take the
\* shortest rise.
LEMMA Falling ==
  ASSUME NEW n \in Nat, NEW score \in [1 .. n -> Int],
         \A i \in 1 .. n - 1 : score[i] >= score[i + 1]
  PROVE  \A i, j \in 1 .. n : i <= j => score[i] >= score[j]
<1> DEFINE Rises == {m \in Nat : \E i \in 1 .. n : i + m \in 1 .. n /\ score[i] < score[i + m]}
<1>1. ASSUME Rises # {} PROVE FALSE
  <2>1. Rises \in SUBSET Nat
    OBVIOUS
  <2>2. PICK m \in Rises : \A k \in Rises : m <= k
    BY <1>1, <2>1, Least
  <2>3. PICK i \in 1 .. n : i + m \in 1 .. n /\ score[i] < score[i + m]
    BY <2>2
  <2>4. m \in Nat /\ m # 0
    BY <2>1, <2>3
  <2>5. score[i + (m - 1)] >= score[i + m] /\ i + (m - 1) \in 1 .. n
    <3>1. i + (m - 1) \in 1 .. n - 1 /\ (i + (m - 1)) + 1 = i + m
      BY <2>3, <2>4
    <3>2. QED
      BY <3>1
  <2>6. score[i] < score[i + (m - 1)]
    BY <2>3, <2>5
  <2>7. m - 1 \in Rises
    BY <2>4, <2>5, <2>6
  <2> HIDE DEF Rises
  <2>8. m <= m - 1
    BY <2>2, <2>7
  <2>9. QED
    BY <2>4, <2>8
<1>2. ASSUME NEW i \in 1 .. n, NEW j \in 1 .. n, i <= j, ~(score[i] >= score[j]) PROVE FALSE
  <2>1. j - i \in Nat /\ i + (j - i) = j
    BY <1>2
  <2>2. j - i \in Rises
    BY <1>2, <2>1
  <2>3. QED
    BY <1>1, <2>2
<1>3. QED
  BY <1>2

\* In a list sorted by score, the better of two documents is before the other.
LEMMA BetterIsBefore ==
  ASSUME NEW S, IsFiniteSet(S), NEW s \in SetToSeqs(S), NEW score \in [S -> Int],
         \A i \in 1 .. Len(s) - 1 : score[s[i]] >= score[s[i + 1]],
         NEW a \in S, NEW b \in S, score[a] > score[b]
  PROVE  \E i, j \in DOMAIN s : i < j /\ s[i] = a /\ s[j] = b
<1>1. /\ s \in Seq(S) /\ Len(s) \in Nat /\ DOMAIN s = 1 .. Len(s)
      /\ \A i \in DOMAIN s : s[i] \in S
      /\ \A x \in S : \E i \in DOMAIN s : s[i] = x
  BY SetToSeqsProperties, ListShape
<1> DEFINE f == [i \in 1 .. Len(s) |-> score[s[i]]]
<1>2. f \in [1 .. Len(s) -> Int] /\ \A i \in 1 .. Len(s) - 1 : f[i] >= f[i + 1]
  BY <1>1
<1>3. \A i, j \in 1 .. Len(s) : i <= j => f[i] >= f[j]
  <2> HIDE DEF f
  <2>1. QED
    BY <1>1, <1>2, Falling
<1>4. PICK i \in DOMAIN s, j \in DOMAIN s : s[i] = a /\ s[j] = b
  BY <1>1
<1>5. f[i] > f[j] /\ f[i] \in Int /\ f[j] \in Int
  BY <1>1, <1>4
<1>6. ~(j <= i)
  BY <1>1, <1>3, <1>5
<1>7. QED
  BY <1>1, <1>4, <1>6

\* And if the list names each document once, that is what AtLeastAsGood says.
LEMMA PlacesDecide ==
  ASSUME NEW S, NEW list \in Seq(S), \A m, n \in DOMAIN list : list[m] = list[n] => m = n,
         NEW i \in DOMAIN list, NEW j \in DOMAIN list, i < j
  PROVE  AtLeastAsGood(list, list[i], list[j])
<1>1. DOMAIN list = 1 .. Len(list)
  BY ListShape
<1>2. Contains(list, list[i]) /\ Contains(list, list[j])
  BY <1>1 DEF Contains
<1>3. Place(list, list[i]) = i /\ Place(list, list[j]) = j
  BY <1>2, PlaceIsFirst
<1>4. QED
  BY <1>2, <1>3, VerdictByPlace

\* What Fuse leaves is in the order every source agrees on.
LEMMA FuseKeepsVerdict ==
  ASSUME RetrievalTypeOK, Fuse, NEW a \in Fusible(vector, keyword), NEW b \in ToSet(docs'),
         a # b, b \in boosted => a \in boosted,
         AtLeastAsGood(vector, a, b), AtLeastAsGood(keyword, a, b)
  PROVE  AtLeastAsGood(docs', a, b)
<1> DEFINE all == Fusible(vector, keyword)
<1>1. PICK fused \in RrfFuse(vector, keyword) :
        docs' \in IF boosted = {} THEN {fused}
                  ELSE Ranked(ToSet(fused), LAMBDA d : Boost(vector, keyword, d))
  BY DEF Fuse
<1>2. PICK s \in SetToSeqs(all) :
        /\ fused = FirstOf(s, TopK)
        /\ \A i \in 1 .. Len(s) - 1 : RrfScore(vector, keyword, s[i]) >= RrfScore(vector, keyword, s[i + 1])
  BY FusedList
<1>3. /\ all \in SUBSET IndexedChunks /\ IsFiniteSet(all)
      /\ ToSet(fused) \in SUBSET IndexedChunks /\ IsFiniteSet(ToSet(fused))
  BY FusedFrom
<1>h. HitsOK(vector) /\ HitsOK(keyword)
  BY DEF RetrievalTypeOK
<1>r. \A d \in all : RrfScore(vector, keyword, d) \in Int
  BY <1>h, ScoreRange
<1>t. TopK \in Nat
  BY RetrievalAssumption DEF RetrievalAssumption
<1>4. /\ s \in Seq(all) /\ \A m, n \in DOMAIN s : s[m] = s[n] => m = n
      /\ \A x \in all : \E i \in DOMAIN s : s[i] = x
      /\ DOMAIN s = 1 .. Len(s) /\ Len(s) \in Nat /\ \A i \in DOMAIN s : s[i] \in all
  BY <1>3, SetToSeqsProperties, ListShape
<1>5. /\ fused \in Seq(all) /\ DOMAIN fused = 1 .. Len(fused)
      /\ Len(fused) = IF TopK <= Len(s) THEN TopK ELSE Len(s)
      /\ \A i \in DOMAIN fused : i \in DOMAIN s /\ fused[i] = s[i] /\ fused[i] \in all
  BY <1>2, <1>4, <1>t, FirstOfProperties, ListShape
<1>6. b \in ToSet(fused)
  <2>1. CASE boosted = {}
    BY <1>1, <2>1
  <2>2. CASE boosted # {}
    <3>1. docs' \in SetToSeqs(ToSet(fused))
      BY <1>1, <2>2 DEF Ranked
    <3>2. docs' \in Seq(ToSet(fused))
      BY <1>3, <3>1, SetToSeqsProperties
    <3>3. QED
      BY <3>2, Elements
  <2>3. QED
    BY <2>1, <2>2
<1>7. PICK k \in DOMAIN fused : fused[k] = b
  BY <1>6 DEF ToSet
<1>8. b \in all /\ (Contains(vector, b) \/ Contains(keyword, b))
  <2>1. b \in all
    BY <1>5, <1>7
  <2>2. b \in ToSet(vector) \/ b \in ToSet(keyword)
    BY <2>1 DEF Fusible
  <2>3. QED
    BY <1>h, <2>1, <2>2, ListShape DEF ToSet, Contains, HitsOK
\* Both are fused, the one that every source prefers first.
<1>9. \E i, j \in DOMAIN fused : i < j /\ fused[i] = a /\ fused[j] = b
  <2> DEFINE score == [d \in all |-> RrfScore(vector, keyword, d)]
  <2>1. score \in [all -> Int] /\ score[a] > score[b]
    BY <1>8, <1>r, <1>h, VerdictIsScore
  <2>2. \A i \in 1 .. Len(s) - 1 : score[s[i]] >= score[s[i + 1]]
    <3> TAKE i \in 1 .. Len(s) - 1
    <3>1. i \in DOMAIN s /\ i + 1 \in DOMAIN s
      BY <1>4
    <3>2. QED
      BY <1>2, <1>4, <3>1
  <2> HIDE DEF score, all
  <2>3. PICK i \in DOMAIN s, j \in DOMAIN s : i < j /\ s[i] = a /\ s[j] = b
    BY <1>3, <1>8, <2>1, <2>2, BetterIsBefore DEF all
  <2>4. k = j
    BY <1>4, <1>5, <1>7, <2>3
  <2>5. i \in DOMAIN fused /\ fused[i] = a
    BY <1>4, <1>5, <1>7, <1>t, <2>3, <2>4
  <2>6. QED
    BY <1>7, <2>3, <2>4, <2>5
<1>10. CASE boosted = {}
  <2>1. docs' = fused
    BY <1>1, <1>10
  <2>2. \A m, n \in DOMAIN fused : fused[m] = fused[n] => m = n
    BY <1>4, <1>5
  <2>3. QED
    BY <1>5, <1>9, <2>1, <2>2, PlacesDecide
\* And the graph's confirmation sorts the same documents once more.
<1>11. CASE boosted # {}
  <2>1. /\ docs' \in SetToSeqs(ToSet(fused))
        /\ \A i \in 1 .. Len(docs') - 1 :
              Boost(vector, keyword, docs'[i]) >= Boost(vector, keyword, docs'[i + 1])
    BY <1>1, <1>11 DEF Ranked
  <2>2. PICK t : t = docs'
    OBVIOUS
  <2> DEFINE S == ToSet(fused)
             score == [d \in S |-> Boost(vector, keyword, d)]
  <2>3. /\ t \in Seq(S) /\ \A m, n \in DOMAIN t : t[m] = t[n] => m = n
        /\ DOMAIN t = 1 .. Len(t) /\ Len(t) \in Nat /\ \A i \in DOMAIN t : t[i] \in S
    BY <1>3, <2>1, <2>2, SetToSeqsProperties, ListShape
  <2>4. a \in S /\ b \in S
    BY <1>9 DEF ToSet
  <2>5. \A d \in S : Boost(vector, keyword, d) \in Int
    <3>1. ASSUME NEW d \in S PROVE Boost(vector, keyword, d) \in Int
      <4>1. RrfScore(vector, keyword, d) \in Nat
        BY <1>h, ScoreRange
      <4>2. QED
        BY <1>h, <4>1, BoostIs
    <3>2. QED
      BY <3>1
  <2>6. score \in [S -> Int] /\ score[a] > score[b]
    BY <1>8, <1>h, <2>4, <2>5, VerdictIsBoost
  <2>7. \A i \in 1 .. Len(t) - 1 : score[t[i]] >= score[t[i + 1]]
    <3> TAKE i \in 1 .. Len(t) - 1
    <3>1. i \in DOMAIN t /\ i + 1 \in DOMAIN t
      BY <2>3
    <3>2. t[i] \in S /\ t[i + 1] \in S
      BY <2>3, <3>1
    <3>3. QED
      BY <2>1, <2>2, <3>2
  <2>8. IsFiniteSet(S) /\ t \in SetToSeqs(S)
    BY <1>3, <2>1, <2>2
  <2> HIDE DEF score, S
  <2>9. PICK i \in DOMAIN t, j \in DOMAIN t : i < j /\ t[i] = a /\ t[j] = b
    BY <2>4, <2>6, <2>7, <2>8, BetterIsBefore
  <2>10. AtLeastAsGood(t, a, b)
    BY <2>3, <2>9, PlacesDecide
  <2>11. QED
    BY <2>2, <2>10
<1>12. QED
  BY <1>10, <1>11

---------------------------------------------------------------------------
LEMMA RetrievalStutter == RetrievalInv /\ UNCHANGED retrievalVars => RetrievalInv'
BY DEF RetrievalInv, RetrievalTypeOK, HitsOK, InScope, ScopeRespected, Gated, IsGated, IsEvidence,
       Allowed, retrievalVars

LEMMA RetrievalStep == RetrievalInv /\ RetrievalNext => RetrievalInv'
<1> SUFFICES ASSUME RetrievalInv, RetrievalNext PROVE RetrievalInv'
  OBVIOUS
<1>1. CASE \/ \E r \in Requests : Ask(r)
           \/ Rewrite \/ NoVectorSide \/ EmbedQuery \/ VectorFails \/ Semantic
           \/ \E near \in Orders : VectorSearch(near)
           \/ \E found \in ChunkLists : KeywordSearch(found)
  <2>1. pc \in {"idle", "rewrite", "embed", "search", "semantic", "keyword"}
    BY <1>1 DEF Ask, Rewrite, NoVectorSide, EmbedQuery, VectorFails, Semantic, VectorSearch, KeywordSearch
  <2>2. QED
    BY <1>1, <2>1, SearchKeeps
<1>2. CASE \/ \E named \in SUBSET IndexedChunks, summarised \in BOOLEAN : GraphSearch(named, summarised)
           \/ Fuse \/ Inject \/ Finish
           \/ \E found \in PageLists : WikiSearch(found)
  <2>1. pc \in {"graph", "fuse", "inject", "wiki", "done"}
    BY <1>2 DEF GraphSearch, Fuse, Inject, Finish, WikiSearch
  <2>2. QED
    BY <1>2, <2>1, FusionKeeps
<1>3. CASE ApplyScope \/ Rerank \/ Gate \/ BuildContext \/ GenerateAnswer
  <2>1. pc \in {"scope", "rerank", "gate", "context", "generate"}
    BY <1>3 DEF ApplyScope, Rerank, Gate, BuildContext, GenerateAnswer
  <2>2. QED
    BY <1>3, <2>1, AnswerKeeps
<1>4. QED
  BY <1>1, <1>2, <1>3 DEF RetrievalNext

LEMMA RetrievalInvariance == RetrievalSpec => []RetrievalInv
<1>1. RetrievalInv /\ [RetrievalNext]_retrievalVars => RetrievalInv'
  BY RetrievalStep, RetrievalStutter
<1>2. QED
  BY InitRetrieval, <1>1, PTL DEF RetrievalSpec

\* Whatever the engines, the links, the graph and the reranker return, what the model
\* reads is within the request's scope, for any data and any limits.
THEOREM ScopeIsRespected == RetrievalSpec => []ScopeRespected
<1>1. RetrievalInv => ScopeRespected
  BY DEF RetrievalInv, InScope
<1>2. QED
  BY RetrievalInvariance, <1>1, PTL

\* Run answers from evidence, and from some, for any question and any documents, if the
\* context is given room: nothing in the code refuses a reranker.top_k of 0.
THEOREM AnswerIsFromEvidence ==
  ASSUME RerankTopK # 0
  PROVE  RetrievalSpec => []AnswerHasEvidence
<1>1. RetrievalInv => AnswerHasEvidence
  BY DEF RetrievalInv, Gated, IsGated, AnswerHasEvidence
<1>2. QED
  BY RetrievalInvariance, <1>1, PTL

\* Only Fuse leads to the stage the property is about.
LEMMA VerdictStep == RetrievalInv /\ RetrievalNext => CommonVerdictKept'
<1> SUFFICES ASSUME RetrievalInv, RetrievalNext, pc' = "inject"
             PROVE  \A a \in Fusible(vector', keyword'), b \in ToSet(docs') :
                      (/\ a # b /\ (b \in boosted' => a \in boosted')
                       /\ AtLeastAsGood(vector', a, b) /\ AtLeastAsGood(keyword', a, b))
                      => AtLeastAsGood(docs', a, b)
  BY DEF CommonVerdictKept
<1>1. Fuse
  BY DEF RetrievalNext, Ask, Rewrite, NoVectorSide, EmbedQuery, VectorFails, Semantic, VectorSearch,
         KeywordSearch, GraphSearch, Inject, Finish, WikiSearch, ApplyScope, Rerank, Gate,
         BuildContext, GenerateAnswer
<1>2. vector' = vector /\ keyword' = keyword /\ boosted' = boosted
  BY <1>1 DEF Fuse
<1>3. RetrievalTypeOK
  BY DEF RetrievalInv
<1>4. QED
  BY <1>1, <1>2, <1>3, FuseKeepsVerdict

LEMMA VerdictStutter == CommonVerdictKept /\ UNCHANGED retrievalVars => CommonVerdictKept'
BY DEF CommonVerdictKept, Fusible, retrievalVars

\* Neither the reciprocal ranks, nor the cut, nor the graph's confirmation turns round
\* what every source agrees on, for hit lists of any length up to twice the top k.
THEOREM CommonVerdictIsKept == RetrievalSpec => []CommonVerdictKept
<1>1. RetrievalInit => CommonVerdictKept
  BY DEF RetrievalInit, CommonVerdictKept
<1>2. RetrievalInv /\ CommonVerdictKept /\ [RetrievalNext]_retrievalVars => CommonVerdictKept'
  BY VerdictStep, VerdictStutter
<1>3. QED
  BY RetrievalInvariance, <1>1, <1>2, PTL DEF RetrievalSpec

---------------------------------------------------------------------------
\* The filter of a model's thinking.

Text == Seq(Alphabet)

LEMMA LeastOfSet ==
  ASSUME NEW T \in SUBSET Nat, T # {}
  PROVE  Min(T) \in T /\ \A y \in T : Min(T) <= y
BY Least DEF Min

LEMMA Kept ==
  ASSUME NEW s \in Text, NEW n \in 0 .. Len(s)
  PROVE  /\ Keep(s, n) \in Text /\ Len(Keep(s, n)) = n
         /\ \A i \in 1 .. n : Keep(s, n)[i] = s[i]
<1>1. \A i \in 1 .. n : s[i] \in Alphabet
  BY ElementOfSeq DEF Text
<1>2. QED
  BY <1>1, SubSeqProperties, SubSeqEmpty DEF Keep, Text

LEMMA Dropped ==
  ASSUME NEW s \in Text, NEW n \in 0 .. Len(s)
  PROVE  /\ Drop(s, n) \in Text /\ Len(Drop(s, n)) = Len(s) - n
         /\ \A i \in 1 .. Len(s) - n : Drop(s, n)[i] = s[n + i]
<1>1. \A i \in n + 1 .. Len(s) : s[i] \in Alphabet
  BY ElementOfSeq DEF Text
<1>2. QED
  BY <1>1, SubSeqProperties DEF Drop, Text

LEMMA Concatenated ==
  ASSUME NEW s \in Text, NEW z \in Text
  PROVE  /\ s \o z \in Text /\ Len(s \o z) = Len(s) + Len(z)
         /\ \A i \in 1 .. Len(s) : (s \o z)[i] = s[i]
         /\ \A i \in 1 .. Len(z) : (s \o z)[Len(s) + i] = z[i]
BY ConcatProperties DEF Text

LEMMA Same ==
  ASSUME NEW s \in Text, NEW t \in Text, Len(s) = Len(t), \A i \in 1 .. Len(s) : s[i] = t[i]
  PROVE  s = t
BY SeqEqual DEF Text

\* What follows a beginning of s, in s and what follows it.
LEMMA DropJoined ==
  ASSUME NEW s \in Text, NEW z \in Text, NEW n \in 0 .. Len(s)
  PROVE  Drop(s \o z, n) = Drop(s, n) \o z /\ Keep(s \o z, n) = Keep(s, n)
<1> DEFINE u == s \o z
<1>1. /\ u \in Text /\ Len(u) = Len(s) + Len(z)
      /\ \A i \in 1 .. Len(s) : u[i] = s[i]
      /\ \A i \in 1 .. Len(z) : u[Len(s) + i] = z[i]
  BY Concatenated
<1>2. n \in 0 .. Len(u) /\ Len(s) \in Nat /\ Len(z) \in Nat
  BY <1>1 DEF Text
<1> HIDE DEF u
<1>3. /\ Drop(u, n) \in Text /\ Len(Drop(u, n)) = Len(u) - n
      /\ \A i \in 1 .. Len(u) - n : Drop(u, n)[i] = u[n + i]
  BY <1>1, <1>2, Dropped
<1>4. /\ Keep(u, n) \in Text /\ Len(Keep(u, n)) = n
      /\ \A i \in 1 .. n : Keep(u, n)[i] = u[i]
  BY <1>1, <1>2, Kept
<1>5. /\ Drop(s, n) \in Text /\ Len(Drop(s, n)) = Len(s) - n
      /\ \A i \in 1 .. Len(s) - n : Drop(s, n)[i] = s[n + i]
  BY Dropped
<1>6. /\ Keep(s, n) \in Text /\ Len(Keep(s, n)) = n
      /\ \A i \in 1 .. n : Keep(s, n)[i] = s[i]
  BY Kept
<1> DEFINE d == Drop(s, n) \o z
<1>7. /\ d \in Text /\ Len(d) = Len(s) - n + Len(z)
      /\ \A i \in 1 .. Len(s) - n : d[i] = Drop(s, n)[i]
      /\ \A i \in 1 .. Len(z) : d[Len(s) - n + i] = z[i]
  <2>1. /\ d \in Text /\ Len(d) = Len(Drop(s, n)) + Len(z)
        /\ \A i \in 1 .. Len(Drop(s, n)) : d[i] = Drop(s, n)[i]
        /\ \A i \in 1 .. Len(z) : d[Len(Drop(s, n)) + i] = z[i]
    <3> HIDE DEF d
    <3>1. Drop(s, n) \in Text
      BY <1>5
    <3>2. QED
      BY <3>1, Concatenated DEF d
  <2> HIDE DEF d
  <2>2. QED
    BY <2>1, <1>5
<1> HIDE DEF d
<1>8. \A i \in 1 .. Len(d) : Drop(u, n)[i] = d[i]
  <2> SUFFICES ASSUME NEW i \in 1 .. Len(d)
               PROVE  Drop(u, n)[i] = d[i]
    OBVIOUS
  <2>1. Drop(u, n)[i] = u[n + i]
    BY <1>1, <1>2, <1>3, <1>7
  <2>2. CASE i <= Len(s) - n
    BY <2>1, <2>2, <1>1, <1>2, <1>5, <1>7
  <2>3. CASE ~(i <= Len(s) - n)
    <3> DEFINE j == i - (Len(s) - n)
    <3>1. j \in 1 .. Len(z) /\ n + i = Len(s) + j /\ i = Len(s) - n + j
      BY <2>3, <1>2, <1>7
    <3>2. u[Len(s) + j] = z[j] /\ d[Len(s) - n + j] = z[j]
      BY <3>1, <1>1, <1>7
    <3>3. QED
      BY <3>1, <3>2, <2>1
  <2>4. QED
    BY <2>2, <2>3
<1>9. Drop(u, n) = d
  BY <1>1, <1>2, <1>3, <1>7, <1>8, Same
<1>10. \A i \in 1 .. n : Keep(u, n)[i] = Keep(s, n)[i]
  BY <1>1, <1>2, <1>4, <1>6
<1>11. Keep(u, n) = Keep(s, n)
  BY <1>2, <1>4, <1>6, <1>10, Same
<1>12. QED
  BY <1>9, <1>11 DEF d, u

\* Dropping twice, and what lies between the two places.
LEMMA DropTwice ==
  ASSUME NEW s \in Text, NEW m \in 0 .. Len(s), NEW n \in 0 .. Len(s) - m
  PROVE  /\ Drop(Drop(s, m), n) = Drop(s, m + n)
         /\ Keep(s, m + n) = Keep(s, m) \o Keep(Drop(s, m), n)
<1>0. Len(s) \in Nat /\ m + n \in 0 .. Len(s)
  BY DEF Text
<1>1. /\ Drop(s, m) \in Text /\ Len(Drop(s, m)) = Len(s) - m
      /\ \A i \in 1 .. Len(s) - m : Drop(s, m)[i] = s[m + i]
  BY Dropped
<1>2. /\ Drop(s, m + n) \in Text /\ Len(Drop(s, m + n)) = Len(s) - (m + n)
      /\ \A i \in 1 .. Len(s) - (m + n) : Drop(s, m + n)[i] = s[m + n + i]
  BY <1>0, Dropped
<1>3. /\ Keep(s, m) \in Text /\ Len(Keep(s, m)) = m
      /\ \A i \in 1 .. m : Keep(s, m)[i] = s[i]
  BY Kept
<1>4. /\ Keep(s, m + n) \in Text /\ Len(Keep(s, m + n)) = m + n
      /\ \A i \in 1 .. m + n : Keep(s, m + n)[i] = s[i]
  BY <1>0, Kept
<1> DEFINE d == Drop(s, m)
           k == Keep(s, m)
<1> HIDE DEF d, k
<1>5. /\ Drop(d, n) \in Text /\ Len(Drop(d, n)) = Len(d) - n
      /\ \A i \in 1 .. Len(d) - n : Drop(d, n)[i] = d[n + i]
  BY <1>1, Dropped DEF d
<1>6. /\ Keep(d, n) \in Text /\ Len(Keep(d, n)) = n
      /\ \A i \in 1 .. n : Keep(d, n)[i] = d[i]
  BY <1>1, Kept DEF d
<1> DEFINE b == k \o Keep(d, n)
<1>7. /\ b \in Text /\ Len(b) = m + n
      /\ \A i \in 1 .. m : b[i] = k[i]
      /\ \A i \in 1 .. n : b[m + i] = Keep(d, n)[i]
  <2>1. k \in Text /\ Len(k) = m
    BY <1>3 DEF k
  <2>2. /\ b \in Text /\ Len(b) = Len(k) + Len(Keep(d, n))
        /\ \A i \in 1 .. Len(k) : b[i] = k[i]
        /\ \A i \in 1 .. Len(Keep(d, n)) : b[Len(k) + i] = Keep(d, n)[i]
    BY <2>1, <1>6, Concatenated
  <2> HIDE DEF b
  <2>3. QED
    BY <2>1, <2>2, <1>6
<1> HIDE DEF b
<1>8. Drop(d, n) = Drop(s, m + n)
  <2>1. \A i \in 1 .. Len(Drop(d, n)) : Drop(d, n)[i] = Drop(s, m + n)[i]
    BY <1>0, <1>1, <1>2, <1>5 DEF d
  <2>2. Len(Drop(d, n)) = Len(Drop(s, m + n))
    <3>1. Len(d) = Len(s) - m
      BY <1>1 DEF d
    <3>2. QED
      BY <3>1, <1>0, <1>2, <1>5
  <2>3. QED
    BY <2>1, <2>2, <1>2, <1>5, Same
<1>9. Keep(s, m + n) = b
  <2>1. \A i \in 1 .. m + n : Keep(s, m + n)[i] = b[i]
    <3> SUFFICES ASSUME NEW i \in 1 .. m + n
                 PROVE  Keep(s, m + n)[i] = b[i]
      OBVIOUS
    <3>1. CASE i <= m
      BY <3>1, <1>3, <1>4, <1>7 DEF k
    <3>2. CASE ~(i <= m)
      <4> DEFINE j == i - m
      <4>1. j \in 1 .. n /\ i = m + j /\ j \in 1 .. Len(s) - m
        BY <3>2, <1>0
      <4>2. b[m + j] = d[j] /\ d[j] = s[m + j]
        BY <4>1, <1>1, <1>6, <1>7 DEF d
      <4>3. QED
        BY <4>1, <4>2, <1>4
    <3>3. QED
      BY <3>1, <3>2
  <2>2. QED
    BY <2>1, <1>4, <1>7, Same
<1>10. QED
  BY <1>8, <1>9 DEF d, k, b

\* strings.Index is the first place the tag is at.
LEMMA FirstPlace ==
  ASSUME NEW s \in Text, NEW tag \in Text
  PROVE  /\ IndexOf(s, tag) \in 0 .. Len(s)
         /\ IndexOf(s, tag) = 0 => \A i \in 1 .. Len(s) : ~Occurs(tag, s, i)
         /\ IndexOf(s, tag) > 0 => /\ Occurs(tag, s, IndexOf(s, tag))
                                   /\ \A i \in 1 .. IndexOf(s, tag) - 1 : ~Occurs(tag, s, i)
         /\ \A i \in 1 .. Len(s) : Occurs(tag, s, i) => IndexOf(s, tag) \in 1 .. i
<1> DEFINE at == {i \in 1 .. Len(s) : Occurs(tag, s, i)}
<1>1. Len(s) \in Nat
  BY DEF Text
<1>2. at \in SUBSET Nat
  OBVIOUS
<1>3. IndexOf(s, tag) = IF at = {} THEN 0 ELSE Min(at)
  BY DEF IndexOf
<1>4. CASE at = {}
  BY <1>1, <1>3, <1>4
<1>5. CASE at # {}
  <2>1. Min(at) \in at /\ \A y \in at : Min(at) <= y
    BY <1>2, <1>5, LeastOfSet
  <2> DEFINE n == IndexOf(s, tag)
  <2>2. n = Min(at)
    BY <1>3, <1>5
  <2>3. n \in 1 .. Len(s) /\ Occurs(tag, s, n)
    BY <2>1, <2>2
  <2>4. \A i \in 1 .. Len(s) : Occurs(tag, s, i) => n <= i
    BY <2>1, <2>2
  <2> HIDE DEF n
  <2>5. QED
    BY <2>3, <2>4, <1>1 DEF n
<1>6. QED
  BY <1>4, <1>5

LEMMA PlaceFound ==
  ASSUME NEW s \in Text, NEW tag \in Text, NEW n \in 1 .. Len(s),
         Occurs(tag, s, n), \A i \in 1 .. n - 1 : ~Occurs(tag, s, i)
  PROVE  IndexOf(s, tag) = n
<1> DEFINE f == IndexOf(s, tag)
<1>1. f \in 1 .. n /\ (f > 0 => Occurs(tag, s, f))
  BY FirstPlace
<1> HIDE DEF f
<1>2. ~(f \in 1 .. n - 1)
  BY <1>1
<1>3. QED
  BY <1>1, <1>2 DEF f

LEMMA NoPlace ==
  ASSUME NEW s \in Text, NEW tag \in Text, \A i \in 1 .. Len(s) : ~Occurs(tag, s, i)
  PROVE  IndexOf(s, tag) = 0
BY FirstPlace DEF Text

\* A tag within s is where it was when more is received; what is dropped moves it.
LEMMA OccursJoined ==
  ASSUME NEW s \in Text, NEW z \in Text, NEW tag \in Text, NEW i \in 1 .. Len(s),
         i + Len(tag) - 1 <= Len(s)
  PROVE  Occurs(tag, s \o z, i) <=> Occurs(tag, s, i)
<1>1. Len(s) \in Nat /\ Len(z) \in Nat /\ Len(tag) \in Nat
  BY DEF Text
<1>2. Len(s \o z) = Len(s) + Len(z) /\ \A k \in 1 .. Len(s) : (s \o z)[k] = s[k]
  BY Concatenated
<1>3. \A k \in 1 .. Len(tag) : i + k - 1 \in 1 .. Len(s)
  BY <1>1
<1>4. \A k \in 1 .. Len(tag) : (s \o z)[i + k - 1] = s[i + k - 1]
  BY <1>2, <1>3
<1>5. i + Len(tag) - 1 <= Len(s \o z)
  BY <1>1, <1>2
<1>6. QED
  BY <1>4, <1>5 DEF Occurs

LEMMA OccursDropped ==
  ASSUME NEW s \in Text, NEW tag \in Text, NEW n \in 0 .. Len(s), NEW i \in 1 .. Len(s) - n
  PROVE  Occurs(tag, Drop(s, n), i) <=> Occurs(tag, s, n + i)
<1>1. Len(s) \in Nat /\ Len(tag) \in Nat
  BY DEF Text
<1> DEFINE d == Drop(s, n)
<1>2. Len(d) = Len(s) - n /\ \A k \in 1 .. Len(s) - n : d[k] = s[n + k]
  BY Dropped
<1> HIDE DEF d
<1>3. i + Len(tag) - 1 <= Len(d) <=> n + i + Len(tag) - 1 <= Len(s)
  BY <1>1, <1>2
<1>4. ASSUME i + Len(tag) - 1 <= Len(d)
      PROVE  \A k \in 1 .. Len(tag) : d[i + k - 1] = s[n + i + k - 1]
  <2> TAKE k \in 1 .. Len(tag)
  <2> DEFINE j == i + k - 1
  <2>1. j \in 1 .. Len(s) - n /\ n + i + k - 1 = n + j
    BY <1>1, <1>2, <1>4
  <2>2. d[j] = s[n + j]
    BY <2>1, <1>2
  <2>3. QED
    BY <2>1, <2>2
<1>5. QED
  BY <1>3, <1>4 DEF Occurs, d

\* What follows a tag that was found does not change what is before it.
LEMMA FoundStays ==
  ASSUME NEW s \in Text, NEW z \in Text, NEW tag \in Text, IndexOf(s, tag) > 0, Len(tag) > 0
  PROVE  /\ IndexOf(s \o z, tag) = IndexOf(s, tag)
         /\ UpTo(s \o z, tag) = UpTo(s, tag)
         /\ Past(s \o z, tag) = Past(s, tag) \o z
         /\ UpTo(s, tag) \in Text /\ Past(s, tag) \in Text
         /\ Len(Past(s, tag)) < Len(s)
<1> DEFINE n == IndexOf(s, tag)
           m == n + Len(tag) - 1
<1>1. n \in 1 .. Len(s) /\ Occurs(tag, s, n) /\ \A i \in 1 .. n - 1 : ~Occurs(tag, s, i)
  BY FirstPlace
<1>2. Len(s) \in Nat /\ Len(z) \in Nat /\ Len(tag) \in Nat
  BY DEF Text
<1>3. m \in 1 .. Len(s) /\ n - 1 \in 0 .. Len(s)
  BY <1>1, <1>2 DEF Occurs
<1>4. s \o z \in Text /\ Len(s \o z) = Len(s) + Len(z)
  BY Concatenated
<1>5. \A i \in 1 .. n : i \in 1 .. Len(s) /\ i + Len(tag) - 1 <= Len(s)
  BY <1>1, <1>2, <1>3
<1>6. \A i \in 1 .. n : Occurs(tag, s \o z, i) <=> Occurs(tag, s, i)
  BY <1>5, OccursJoined
<1>7. IndexOf(s \o z, tag) = n
  <2>1. n \in 1 .. Len(s \o z) /\ Occurs(tag, s \o z, n)
    BY <1>1, <1>2, <1>4, <1>6
  <2>2. \A i \in 1 .. n - 1 : ~Occurs(tag, s \o z, i)
    BY <1>1, <1>6
  <2> HIDE DEF n
  <2>3. QED
    BY <2>1, <2>2, <1>4, PlaceFound
<1>8. UpTo(s \o z, tag) = Keep(s \o z, n - 1) /\ Past(s \o z, tag) = Drop(s \o z, m)
  BY <1>7 DEF UpTo, Past
<1>9. UpTo(s, tag) = Keep(s, n - 1) /\ Past(s, tag) = Drop(s, m)
  BY DEF UpTo, Past
<1>10. m \in 0 .. Len(s)
  BY <1>3
<1> HIDE DEF n, m
<1>11. /\ Keep(s \o z, n - 1) = Keep(s, n - 1)
       /\ Drop(s \o z, m) = Drop(s, m) \o z
  BY <1>3, <1>10, DropJoined
<1>12. Keep(s, n - 1) \in Text /\ Drop(s, m) \in Text /\ Len(Drop(s, m)) = Len(s) - m
  BY <1>3, <1>10, Kept, Dropped
<1>13. QED
  BY <1>2, <1>3, <1>7, <1>8, <1>9, <1>11, <1>12 DEF n

\* A beginning of s where no tag is does not matter to where the first tag is.
LEMMA SkipBeginning ==
  ASSUME NEW s \in Text, NEW tag \in Text, Len(tag) > 0, NEW n \in 0 .. Len(s),
         \A i \in 1 .. n : ~Occurs(tag, s, i)
  PROVE  /\ IndexOf(Drop(s, n), tag) = 0 <=> IndexOf(s, tag) = 0
         /\ IndexOf(s, tag) # 0 =>
              /\ Past(s, tag) = Past(Drop(s, n), tag)
              /\ UpTo(s, tag) = Keep(s, n) \o UpTo(Drop(s, n), tag)
<1> DEFINE d == Drop(s, n)
           f == IndexOf(d, tag)
<1>1. Len(s) \in Nat /\ Len(tag) \in Nat
  BY DEF Text
<1>2. d \in Text /\ Len(d) = Len(s) - n
  BY Dropped
<1>3. \A i \in 1 .. Len(s) - n : Occurs(tag, d, i) <=> Occurs(tag, s, n + i)
  BY OccursDropped
<1> HIDE DEF d
<1>4. /\ f \in 0 .. Len(d)
      /\ f = 0 => \A i \in 1 .. Len(d) : ~Occurs(tag, d, i)
      /\ f > 0 => Occurs(tag, d, f) /\ \A i \in 1 .. f - 1 : ~Occurs(tag, d, i)
  BY <1>2, FirstPlace
<1> HIDE DEF f
<1>5. CASE f = 0
  <2>1. \A i \in 1 .. Len(s) : ~Occurs(tag, s, i)
    <3> SUFFICES ASSUME NEW i \in 1 .. Len(s), i > n
                 PROVE  ~Occurs(tag, s, i)
      BY <1>1
    <3> DEFINE j == i - n
    <3>1. j \in 1 .. Len(s) - n /\ i = n + j
      BY <1>1
    <3>2. ~Occurs(tag, d, j)
      BY <3>1, <1>2, <1>4, <1>5
    <3>3. QED
      BY <3>1, <3>2, <1>3
  <2>2. IndexOf(s, tag) = 0
    BY <2>1, NoPlace
  <2>3. QED
    BY <2>2, <1>5 DEF d, f
<1>6. CASE f # 0
  <2>1. f \in 1 .. Len(s) - n /\ n + f \in 1 .. Len(s)
    BY <1>1, <1>2, <1>4, <1>6
  <2>2. Occurs(tag, s, n + f)
    BY <2>1, <1>3, <1>4
  <2>3. \A i \in 1 .. n + f - 1 : ~Occurs(tag, s, i)
    <3> SUFFICES ASSUME NEW i \in 1 .. n + f - 1, i > n
                 PROVE  ~Occurs(tag, s, i)
      BY <1>1, <2>1
    <3> DEFINE j == i - n
    <3>1. j \in 1 .. f - 1 /\ j \in 1 .. Len(s) - n /\ i = n + j
      BY <1>1, <2>1
    <3>2. ~Occurs(tag, d, j)
      BY <3>1, <2>1, <1>4
    <3>3. QED
      BY <3>1, <3>2, <1>3
  <2>4. IndexOf(s, tag) = n + f
    BY <2>1, <2>2, <2>3, PlaceFound
  <2>5. Past(s, tag) = Drop(s, n + f + Len(tag) - 1) /\ UpTo(s, tag) = Keep(s, n + f - 1)
    BY <2>4, <2>1, <1>1 DEF Past, UpTo
  <2>6. Past(d, tag) = Drop(d, f + Len(tag) - 1) /\ UpTo(d, tag) = Keep(d, f - 1)
    BY DEF Past, UpTo, f
  <2> DEFINE e == f + Len(tag) - 1
  <2>7. e \in 0 .. Len(s) - n /\ n + e = n + f + Len(tag) - 1
    BY <2>1, <2>2, <1>1 DEF Occurs
  <2>8. Drop(d, e) = Drop(s, n + e)
    <3> HIDE DEF e
    <3>1. QED
      BY <2>7, DropTwice DEF d
  <2>9. f - 1 \in 0 .. Len(s) - n /\ n + (f - 1) = n + f - 1
    BY <2>1
  <2>10. Keep(s, n + (f - 1)) = Keep(s, n) \o Keep(d, f - 1)
    BY <2>9, DropTwice DEF d
  <2>11. Past(s, tag) = Past(d, tag)
    BY <2>5, <2>6, <2>7, <2>8
  <2>12. UpTo(s, tag) = Keep(s, n) \o UpTo(d, tag)
    BY <2>5, <2>6, <2>9, <2>10
  <2>13. IndexOf(s, tag) # 0
    BY <2>1, <2>4
  <2>14. QED
    BY <2>11, <2>12, <2>13, <1>6 DEF d, f
<1>7. QED
  BY <1>5, <1>6

\* A function that calls itself at most once, with an argument of lower rank, exists: what
\* the definitions of Scan and of Visible need.
Descends(rank, next, more) == \A x \in more : rank[next[x]] < rank[x]

IsSolution(f, D, more, next, step, base) ==
  \A x \in D : f[x] = IF x \in more THEN step[x][f[next[x]]] ELSE base[x]

LEMMA Recursion ==
  ASSUME NEW D, NEW V, NEW rank \in [D -> Nat], NEW more \in SUBSET D, NEW next \in [more -> D],
         NEW step \in [more -> [V -> V]], NEW base \in [D -> V], Descends(rank, next, more)
  PROVE  \E f \in [D -> V] : IsSolution(f, D, more, next, step, base)
<1> USE DEF Descends, IsSolution
<1> DEFINE At(f, x) == IF x \in more THEN step[x][f[next[x]]] ELSE base[x]
           Solves(f, n) == f \in [D -> V] /\ \A x \in D : rank[x] < n => f[x] = At(f, x)
<1>1. \A n \in Nat : \E f : Solves(f, n)
  <2> DEFINE T == {n \in Nat : ~ \E f : Solves(f, n)}
  <2>1. SUFFICES ASSUME T # {}
                 PROVE  FALSE
    OBVIOUS
  <2>2. PICK n \in T : \A m \in T : n <= m
    <3> HIDE DEF T
    <3>1. T \in SUBSET Nat
      BY DEF T
    <3>2. QED
      BY <2>1, <3>1, Least
  <2>3. n # 0
    <3>1. Solves(base, 0)
      OBVIOUS
    <3>2. QED
      BY <3>1
  <2>4. PICK f : Solves(f, n - 1)
    BY <2>2, <2>3
  <2> DEFINE g == [x \in D |-> At(f, x)]
  <2>5. g \in [D -> V]
    BY <2>4
  <2>6. ASSUME NEW x \in D, rank[x] < n
        PROVE  g[x] = At(g, x)
    <3>1. CASE x \notin more
      BY <3>1
    <3>2. CASE x \in more
      <4>1. next[x] \in D /\ rank[next[x]] < n - 1
        BY <3>2, <2>6
      <4>2. f[next[x]] = g[next[x]]
        BY <4>1, <2>4
      <4>3. g[x] = step[x][f[next[x]]]
        BY <3>2
      <4>4. QED
        BY <3>2, <4>2, <4>3
    <3>3. QED
      BY <3>1, <3>2
  <2>7. Solves(g, n)
    <3> HIDE DEF g, At
    <3>1. QED
      BY <2>5, <2>6
  <2>8. QED
    BY <2>7
<1>2. ASSUME NEW f, NEW g, NEW n \in Nat, NEW m \in Nat, Solves(f, n), Solves(g, m)
      PROVE  \A x \in D : rank[x] < n /\ rank[x] < m => f[x] = g[x]
  <2> DEFINE Differ(x) == x \in D /\ rank[x] < n /\ rank[x] < m /\ f[x] # g[x]
             T == {k \in Nat : \E x \in D : rank[x] = k /\ Differ(x)}
  <2>1. SUFFICES ASSUME NEW z, Differ(z)
                 PROVE  FALSE
    OBVIOUS
  <2>2. T # {} /\ T \in SUBSET Nat
    BY <2>1
  <2>3. PICK k \in T : \A j \in T : k <= j
    <3> HIDE DEF T
    <3>1. QED
      BY <2>2, Least
  <2>4. PICK x \in D : rank[x] = k /\ Differ(x)
    OBVIOUS
  <2>5. f[x] = At(f, x) /\ g[x] = At(g, x)
    BY <2>4, <1>2
  <2>6. x \in more
    BY <2>4, <2>5
  <2>7. next[x] \in D /\ rank[next[x]] < k /\ rank[next[x]] \in Nat /\ rank[x] \in Nat
    BY <2>4, <2>6
  <2>8. f[next[x]] # g[next[x]]
    BY <2>4, <2>5, <2>6
  <2>9. Differ(next[x])
    BY <2>4, <2>7, <2>8
  <2>10. rank[next[x]] \in T
    BY <2>7, <2>9
  <2>11. QED
    BY <2>3, <2>7, <2>10
<1> DEFINE sol == [n \in Nat |-> CHOOSE f : Solves(f, n)]
           h == [x \in D |-> sol[rank[x] + 1][x]]
<1>3. \A n \in Nat : Solves(sol[n], n)
  <2> HIDE DEF Solves
  <2>1. QED
    BY <1>1
<1> HIDE DEF sol
<1>4. h \in [D -> V]
  BY <1>3
<1>5. ASSUME NEW x \in D
      PROVE  h[x] = At(h, x)
  <2> DEFINE n == rank[x] + 1
  <2>1. n \in Nat /\ Solves(sol[n], n) /\ rank[x] < n
    BY <1>3
  <2>2. h[x] = At(sol[n], x)
    BY <2>1
  <2>3. CASE x \in more
    <3> DEFINE y == next[x]
               m == rank[y] + 1
    <3>1. y \in D /\ m \in Nat /\ rank[y] < n /\ rank[y] < m
      BY <2>3
    <3>2. Solves(sol[m], m)
      BY <3>1, <1>3
    <3>3. sol[m][y] = sol[n][y]
      <4> HIDE DEF Solves, n, m, y
      <4>1. QED
        BY <1>2, <2>1, <3>1, <3>2
    <3>4. h[y] = sol[n][y]
      BY <3>1, <3>3
    <3>5. QED
      BY <2>2, <2>3, <3>4
  <2>4. CASE x \notin more
    BY <2>2, <2>4
  <2>5. QED
    BY <2>3, <2>4
<1>6. QED
  <2> HIDE DEF h
  <2>1. QED
    BY <1>4, <1>5

LEMMA TagsAreText == Open \in Text /\ Close \in Text /\ Len(Open) > 0 /\ Len(Close) > 0
BY TagAssumption DEF Text

LEMMA NothingIsText == <<>> \in Text /\ Len(<<>>) = 0
BY EmptySeq DEF Text

LEMMA FoundParts ==
  ASSUME NEW s \in Text, NEW tag \in Text, Len(tag) > 0, IndexOf(s, tag) # 0
  PROVE  UpTo(s, tag) \in Text /\ Past(s, tag) \in Text /\ Len(Past(s, tag)) < Len(s)
<1>1. IndexOf(s, tag) > 0
  BY FirstPlace DEF Text
<1>2. QED
  BY <1>1, FoundStays

\* What the client is still to see of s, where s starts within a tag or not.
Revealed(s, inside) ==
  IF ~inside THEN Visible[s]
  ELSE IF IndexOf(s, Close) = 0 THEN <<>> ELSE Visible[Past(s, Close)]

\* Visible is the function its definition says.
LEMMA VisibleIs ==
  Visible = [s \in Text |-> IF IndexOf(s, Open) = 0 THEN s
                            ELSE UpTo(s, Open) \o Revealed(Past(s, Open), TRUE)]
<1> DEFINE F(f) == [s \in Seq(Alphabet) |->
              LET rest == Past(s, Open)
              IN IF IndexOf(s, Open) = 0 THEN s
                 ELSE UpTo(s, Open) \o (IF IndexOf(rest, Close) = 0 THEN <<>>
                                        ELSE f[Past(rest, Close)])]
           more == {s \in Text : IndexOf(s, Open) # 0 /\ IndexOf(Past(s, Open), Close) # 0}
           rank == [s \in Text |-> Len(s)]
           next == [s \in more |-> Past(Past(s, Open), Close)]
           step == [s \in more |-> [v \in Text |-> UpTo(s, Open) \o v]]
           base == [s \in Text |-> IF IndexOf(s, Open) = 0 THEN s ELSE UpTo(s, Open) \o <<>>]
<1>1. \A s \in more : /\ next[s] \in Text /\ rank[next[s]] < rank[s]
                      /\ UpTo(s, Open) \in Text
  <2> SUFFICES ASSUME NEW s \in more
               PROVE  /\ next[s] \in Text /\ rank[next[s]] < rank[s]
                      /\ UpTo(s, Open) \in Text
    OBVIOUS
  <2>1. UpTo(s, Open) \in Text /\ Past(s, Open) \in Text /\ Len(Past(s, Open)) < Len(s)
    BY TagsAreText, FoundParts
  <2>2. Past(Past(s, Open), Close) \in Text
        /\ Len(Past(Past(s, Open), Close)) < Len(Past(s, Open))
    BY <2>1, TagsAreText, FoundParts
  <2>3. Len(s) \in Nat /\ Len(Past(s, Open)) \in Nat /\ Len(Past(Past(s, Open), Close)) \in Nat
    BY <2>1, <2>2 DEF Text
  <2>4. QED
    BY <2>1, <2>2, <2>3
<1>2. \E f \in [Text -> Text] : IsSolution(f, Text, more, next, step, base)
  <2>1. rank \in [Text -> Nat]
    BY DEF Text
  <2>2. next \in [more -> Text] /\ more \in SUBSET Text
    <3>1. next = [s \in more |-> next[s]]
      OBVIOUS
    <3> HIDE DEF next
    <3>2. QED
      BY <1>1, <3>1
  <2>3. step \in [more -> [Text -> Text]]
    <3>1. \A s \in more : [v \in Text |-> UpTo(s, Open) \o v] \in [Text -> Text]
      BY <1>1, Concatenated
    <3>2. QED
      BY <3>1
  <2>4. base \in [Text -> Text]
    <3>1. \A s \in Text : IndexOf(s, Open) # 0 => UpTo(s, Open) \o <<>> \in Text
      BY TagsAreText, NothingIsText, FoundParts, Concatenated
    <3>2. QED
      BY <3>1
  <2>5. Descends(rank, next, more)
    BY <1>1 DEF Descends
  <2> HIDE DEF rank, next, step, base, more
  <2>6. QED
    BY <2>1, <2>2, <2>3, <2>4, <2>5, Recursion
<1>3. PICK f \in [Text -> Text] : \A s \in Text :
        f[s] = IF s \in more THEN step[s][f[next[s]]] ELSE base[s]
  <2> HIDE DEF more, next, step, base
  <2>1. QED
    BY <1>2 DEF IsSolution
<1>4. \A s \in Text : f[s] = F(f)[s]
  <2> SUFFICES ASSUME NEW s \in Text
               PROVE  f[s] = F(f)[s]
    OBVIOUS
  <2>1. F(f)[s] = IF IndexOf(s, Open) = 0 THEN s
                  ELSE UpTo(s, Open) \o (IF IndexOf(Past(s, Open), Close) = 0 THEN <<>>
                                         ELSE f[Past(Past(s, Open), Close)])
    BY DEF Text
  <2>2. f[s] = IF s \in more THEN step[s][f[next[s]]] ELSE base[s]
    BY <1>3
  <2>3. CASE s \in more
    <3>1. next[s] \in Text /\ f[next[s]] \in Text
      BY <2>3, <1>1, <1>3
    <3>2. step[s][f[next[s]]] = UpTo(s, Open) \o f[next[s]]
      BY <2>3, <3>1
    <3>3. next[s] = Past(Past(s, Open), Close)
      BY <2>3
    <3> HIDE DEF F, next, step, base
    <3>4. QED
      BY <2>1, <2>2, <2>3, <3>2, <3>3
  <2>4. CASE s \notin more
    <3>1. f[s] = IF IndexOf(s, Open) = 0 THEN s ELSE UpTo(s, Open) \o <<>>
      BY <2>2, <2>4
    <3>2. IndexOf(s, Open) = 0 \/ IndexOf(Past(s, Open), Close) = 0
      BY <2>4
    <3> HIDE DEF F, next, step, base, more
    <3>3. CASE IndexOf(s, Open) = 0
      BY <2>1, <3>1, <3>3
    <3>4. CASE IndexOf(s, Open) # 0
      BY <2>1, <3>1, <3>2, <3>4
    <3>5. QED
      BY <3>3, <3>4
  <2>5. QED
    BY <2>3, <2>4
<1>5. f = F(f)
  <2>1. F(f) = [s \in Text |-> F(f)[s]]
    BY DEF Text
  <2>2. f = [s \in Text |-> f[s]]
    BY <1>3
  <2> HIDE DEF F
  <2>3. QED
    BY <2>1, <2>2, <1>4
<1>6. Visible = CHOOSE g : g = F(g)
  BY DEF Visible
<1>7. Visible = F(Visible)
  <2> HIDE DEF F
  <2>1. QED
    BY <1>5, <1>6
<1>8. QED
  BY <1>7 DEF Revealed, Text

LEMMA VisibleIsText == \A s \in Text : Visible[s] \in Text
<1> DEFINE T == {n \in Nat : \E s \in Text : Len(s) = n /\ Visible[s] \notin Text}
<1>1. SUFFICES ASSUME T # {}
               PROVE  FALSE
  BY DEF Text
<1>2. PICK n \in T : \A m \in T : n <= m
  <2> HIDE DEF T
  <2>1. T \in SUBSET Nat
    BY DEF T
  <2>2. QED
    BY <1>1, <2>1, Least
<1>3. PICK s \in Text : Len(s) = n /\ Visible[s] \notin Text
  OBVIOUS
<1> DEFINE rest == Past(s, Open)
<1>4. /\ Visible[s] = IF IndexOf(s, Open) = 0 THEN s ELSE UpTo(s, Open) \o Revealed(rest, TRUE)
  BY VisibleIs
<1>5. IndexOf(s, Open) # 0
  BY <1>3, <1>4
<1>6. UpTo(s, Open) \in Text /\ rest \in Text /\ Len(rest) < n
  BY <1>3, <1>5, TagsAreText, FoundParts
<1>7. Revealed(rest, TRUE) \in Text
  <2>1. CASE IndexOf(rest, Close) = 0
    BY <2>1, NothingIsText DEF Revealed
  <2>2. CASE IndexOf(rest, Close) # 0
    <3>1. Past(rest, Close) \in Text /\ Len(Past(rest, Close)) < Len(rest)
      BY <2>2, <1>6, TagsAreText, FoundParts
    <3>2. Len(Past(rest, Close)) \in Nat /\ Len(rest) \in Nat
      BY <1>6, <3>1 DEF Text
    <3>3. Visible[Past(rest, Close)] \in Text
      <4> HIDE DEF rest
      <4>1. QED
        BY <1>2, <1>6, <3>1, <3>2
    <3>4. QED
      BY <2>2, <3>3 DEF Revealed
  <2>3. QED
    BY <2>1, <2>2
<1>8. QED
  <2>1. UpTo(s, Open) \o Revealed(rest, TRUE) \in Text
    BY <1>6, <1>7, Concatenated
  <2>2. QED
    BY <2>1, <1>3, <1>4, <1>5

LEMMA RevealedIsText ==
  ASSUME NEW s \in Text, NEW inside \in BOOLEAN
  PROVE  Revealed(s, inside) \in Text
<1>1. CASE ~inside
  BY <1>1, VisibleIsText DEF Revealed
<1>2. CASE inside /\ IndexOf(s, Close) = 0
  BY <1>2, NothingIsText DEF Revealed
<1>3. CASE inside /\ IndexOf(s, Close) # 0
  BY <1>3, VisibleIsText, TagsAreText, FoundParts DEF Revealed
<1>4. QED
  BY <1>1, <1>2, <1>3

\* Of the beginnings of a tag that s ends with, findPartialOpen finds the shortest.
LEMMA ShortestFound ==
  ASSUME NEW s \in Text, NEW tag \in Text
  PROVE  /\ PartialTag(s, tag) \in 0 .. Len(s)
         /\ PartialTag(s, tag) > 0 =>
              /\ PartialTag(s, tag) < Len(tag)
              /\ \A k \in 1 .. PartialTag(s, tag) : s[Len(s) - PartialTag(s, tag) + k] = tag[k]
         /\ \A q \in 1 .. Len(tag) - 1 :
              q <= Len(s) /\ (\A k \in 1 .. q : s[Len(s) - q + k] = tag[k])
                => PartialTag(s, tag) \in 1 .. q
<1> DEFINE fits == {i \in 1 .. Len(tag) - 1 :
                      i <= Len(s) /\ Occurs(Keep(tag, i), s, Len(s) - i + 1)}
           p == PartialTag(s, tag)
<1>1. Len(s) \in Nat /\ Len(tag) \in Nat
  BY DEF Text
<1>2. ASSUME NEW i \in 1 .. Len(tag) - 1, i <= Len(s)
      PROVE  Occurs(Keep(tag, i), s, Len(s) - i + 1)
               <=> \A k \in 1 .. i : s[Len(s) - i + k] = tag[k]
  <2>1. i \in 0 .. Len(tag)
    BY <1>1
  <2>2. Len(Keep(tag, i)) = i /\ \A k \in 1 .. i : Keep(tag, i)[k] = tag[k]
    BY <2>1, Kept
  <2>3. Len(s) - i + 1 + i - 1 <= Len(s)
    BY <1>1
  <2>4. \A k \in 1 .. i : Len(s) - i + 1 + k - 1 = Len(s) - i + k
    BY <1>1
  <2>5. QED
    BY <2>2, <2>3, <2>4 DEF Occurs
<1>3. p = IF fits = {} THEN 0 ELSE Min(fits)
  BY DEF PartialTag
<1>4. \A q \in 1 .. Len(tag) - 1 :
        q <= Len(s) /\ (\A k \in 1 .. q : s[Len(s) - q + k] = tag[k]) => q \in fits
  BY <1>2
<1>5. CASE fits = {}
  <2>1. p = 0
    BY <1>3, <1>5
  <2> HIDE DEF p, fits
  <2>2. QED
    BY <1>1, <1>4, <1>5, <2>1 DEF p
<1>6. CASE fits # {}
  <2>1. p = Min(fits)
    BY <1>3, <1>6
  <2>2. p \in fits /\ \A y \in fits : p <= y
    <3>1. fits \in SUBSET Nat
      OBVIOUS
    <3> HIDE DEF fits, p
    <3>2. QED
      BY <1>6, <2>1, <3>1, LeastOfSet
  <2> HIDE DEF p
  <2>3. p \in 1 .. Len(tag) - 1 /\ p <= Len(s) /\ Occurs(Keep(tag, p), s, Len(s) - p + 1)
    BY <2>2
  <2>4. \A k \in 1 .. p : s[Len(s) - p + k] = tag[k]
    BY <1>2, <2>3
  <2> HIDE DEF fits
  <2>5. p \in 0 .. Len(s) /\ p < Len(tag)
    BY <1>1, <2>3
  <2>6. \A q \in 1 .. Len(tag) - 1 :
          q <= Len(s) /\ (\A k \in 1 .. q : s[Len(s) - q + k] = tag[k]) => p \in 1 .. q
    BY <1>1, <1>4, <2>2, <2>3
  <2>7. QED
    BY <2>4, <2>5, <2>6 DEF p
<1>7. QED
  BY <1>5, <1>6

\* A tag that what is received completes begins with what s ends with.
LEMMA CutTag ==
  ASSUME NEW s \in Text, NEW z \in Text, NEW tag \in Text, IndexOf(s, tag) = 0,
         NEW i \in 1 .. Len(s), Occurs(tag, s \o z, i)
  PROVE  /\ PartialTag(s, tag) \in 1 .. Len(s) - i + 1
         /\ Len(s) - i + 1 < Len(tag)
         /\ \A k \in 1 .. Len(s) - i + 1 : s[i + k - 1] = tag[k]
<1> DEFINE q == Len(s) - i + 1
<1>1. Len(s) \in Nat /\ Len(tag) \in Nat
  BY DEF Text
<1>2. ~Occurs(tag, s, i)
  BY FirstPlace
<1>3. q \in 1 .. Len(tag) - 1 /\ q <= Len(s)
  <2>1. ~(i + Len(tag) - 1 <= Len(s))
    BY <1>2, OccursJoined
  <2>2. QED
    BY <1>1, <2>1
<1>4. \A k \in 1 .. q : s[i + k - 1] = tag[k]
  <2> TAKE k \in 1 .. q
  <2>1. k \in 1 .. Len(tag) /\ i + k - 1 \in 1 .. Len(s)
    BY <1>1, <1>3
  <2>2. (s \o z)[i + k - 1] = tag[k]
    BY <2>1 DEF Occurs
  <2>3. (s \o z)[i + k - 1] = s[i + k - 1]
    BY <2>1, Concatenated
  <2>4. QED
    BY <2>2, <2>3
<1>5. \A k \in 1 .. q : s[Len(s) - q + k] = tag[k]
  <2>1. \A k \in 1 .. q : Len(s) - q + k = i + k - 1
    BY <1>1
  <2>2. QED
    BY <1>4, <2>1
<1>6. PartialTag(s, tag) \in 1 .. q
  <2> HIDE DEF q
  <2>1. QED
    BY <1>3, <1>5, ShortestFound
<1>7. QED
  BY <1>1, <1>3, <1>4, <1>6

\* Outside a tag, none begins in what Filter puts out: a longer beginning of a tag at the end
\* of s would have its first character again at the shortest.
LEMMA NoneBegins ==
  ASSUME NEW s \in Text, NEW z \in Text, IndexOf(s, Open) = 0
  PROVE  \A i \in 1 .. Len(s) - PartialTag(s, Open) : ~Occurs(Open, s \o z, i)
<1> DEFINE p == PartialTag(s, Open)
<1>1. Len(s) \in Nat /\ Len(Open) \in Nat /\ p \in 0 .. Len(s)
  <2>1. p \in 0 .. Len(s)
    BY TagsAreText, ShortestFound
  <2>2. QED
    BY <2>1, TagsAreText DEF Text
<1> SUFFICES ASSUME NEW i \in 1 .. Len(s) - p, Occurs(Open, s \o z, i)
             PROVE  FALSE
  OBVIOUS
<1>2. i \in 1 .. Len(s)
  BY <1>1
<1> DEFINE q == Len(s) - i + 1
<1>3. p \in 1 .. q /\ q < Len(Open) /\ \A k \in 1 .. q : s[i + k - 1] = Open[k]
  BY <1>2, TagsAreText, CutTag
<1>4. \A k \in 1 .. p : s[Len(s) - p + k] = Open[k]
  <2>1. p > 0
    BY <1>3
  <2>2. QED
    BY <2>1, TagsAreText, ShortestFound
<1> HIDE DEF p
<1>5. s[Len(s) - p + 1] = Open[1]
  BY <1>1, <1>3, <1>4
<1> DEFINE j == q - p + 1
<1>6. j \in 2 .. Len(Open) /\ j \in 1 .. q /\ i + j - 1 = Len(s) - p + 1
  BY <1>1, <1>3
<1>7. s[i + j - 1] = Open[j]
  <2> HIDE DEF j, q
  <2>1. QED
    BY <1>3, <1>6
<1>8. Open[j] = Open[1]
  BY <1>5, <1>6, <1>7
<1>9. QED
  <2> HIDE DEF j
  <2>1. QED
    BY <1>6, <1>8, TagAssumption

\* What Filter leaves and puts out of a buffer.
Found == [buffer : Text, inThink : BOOLEAN, out : Text]

\* A pass of its loop that finds no tag is the last.
LastPass(s, inside) ==
  IF inside
    THEN [buffer |-> IF PartialTag(s, Close) > 0 THEN s ELSE <<>>, inThink |-> TRUE, out |-> <<>>]
  ELSE [buffer |-> Drop(s, Len(s) - PartialTag(s, Open)), inThink |-> FALSE,
        out |-> Keep(s, Len(s) - PartialTag(s, Open))]

LEMMA LastPassFound ==
  ASSUME NEW s \in Text, NEW inside \in BOOLEAN
  PROVE  LastPass(s, inside) \in Found
<1>1. CASE inside
  BY <1>1, NothingIsText DEF LastPass, Found
<1>2. CASE ~inside
  <2>1. Len(s) - PartialTag(s, Open) \in 0 .. Len(s)
    <3>1. PartialTag(s, Open) \in 0 .. Len(s) /\ Len(s) \in Nat
      BY TagsAreText, ShortestFound DEF Text
    <3>2. QED
      BY <3>1
  <2>2. /\ Drop(s, Len(s) - PartialTag(s, Open)) \in Text
        /\ Keep(s, Len(s) - PartialTag(s, Open)) \in Text
    BY <2>1, Dropped, Kept
  <2>3. QED
    BY <1>2, <2>2 DEF LastPass, Found
<1>3. QED
  BY <1>1, <1>2

\* What a pass that finds a tag puts out.
PutOut(s, inside) == IF inside THEN <<>> ELSE UpTo(s, Open)

\* Scan is the function its definition says.
LEMMA ScanIs ==
  \A s \in Text : \A inside \in BOOLEAN :
       Scan[<<s, inside>>] =
         IF IndexOf(s, Tag(inside)) > 0
           THEN [Scan[<<Past(s, Tag(inside)), ~inside>>] EXCEPT
                   !.out = PutOut(s, inside) \o @]
           ELSE LastPass(s, inside)
<1> DEFINE F(f) == [state \in Seq(Alphabet) \X BOOLEAN |->
              LET s == state[1]
                  inside == state[2]
                  partial == PartialTag(s, Tag(inside))
              IN IF IndexOf(s, Tag(inside)) > 0
                   THEN [f[<<Past(s, Tag(inside)), ~inside>>] EXCEPT
                           !.out = (IF inside THEN <<>> ELSE UpTo(s, Open)) \o @]
                 ELSE IF inside
                   THEN [buffer |-> IF partial > 0 THEN s ELSE <<>>, inThink |-> TRUE, out |-> <<>>]
                 ELSE [buffer |-> Drop(s, Len(s) - partial), inThink |-> FALSE,
                       out |-> Keep(s, Len(s) - partial)]]
           States == Text \X BOOLEAN
           more == {x \in States : IndexOf(x[1], Tag(x[2])) > 0}
           rank == [x \in States |-> Len(x[1])]
           next == [x \in more |-> <<Past(x[1], Tag(x[2])), ~x[2]>>]
           step == [x \in more |-> [v \in Found |-> [v EXCEPT !.out = PutOut(x[1], x[2]) \o @]]]
           base == [x \in States |-> LastPass(x[1], x[2])]
<1>1. \A x \in more : /\ next[x] \in States /\ rank[next[x]] < rank[x]
                      /\ PutOut(x[1], x[2]) \in Text
  <2> SUFFICES ASSUME NEW x \in more
               PROVE  /\ next[x] \in States /\ rank[next[x]] < rank[x]
                      /\ PutOut(x[1], x[2]) \in Text
    OBVIOUS
  <2>1. x[1] \in Text /\ x[2] \in BOOLEAN /\ x \in States
    OBVIOUS
  <2>2. Tag(x[2]) \in Text /\ Len(Tag(x[2])) > 0 /\ IndexOf(x[1], Tag(x[2])) # 0
    BY <2>1, TagsAreText DEF Tag
  <2>3. /\ UpTo(x[1], Tag(x[2])) \in Text /\ Past(x[1], Tag(x[2])) \in Text
        /\ Len(Past(x[1], Tag(x[2]))) < Len(x[1])
    BY <2>1, <2>2, FoundParts
  <2>4. next[x] = <<Past(x[1], Tag(x[2])), ~x[2]>> /\ next[x] \in States
    BY <2>1, <2>3
  <2>5. PutOut(x[1], x[2]) \in Text
    BY <2>1, <2>3, NothingIsText DEF PutOut, Tag
  <2>6. rank[next[x]] = Len(Past(x[1], Tag(x[2]))) /\ rank[x] = Len(x[1])
    BY <2>1, <2>4
  <2>7. QED
    BY <2>3, <2>4, <2>5, <2>6
<1>2. \E f \in [States -> Found] : IsSolution(f, States, more, next, step, base)
  <2>1. rank \in [States -> Nat]
    <3>1. \A x \in States : Len(x[1]) \in Nat
      BY DEF Text
    <3>2. QED
      BY <3>1
  <2>2. next \in [more -> States] /\ more \in SUBSET States
    <3>1. next = [x \in more |-> next[x]]
      OBVIOUS
    <3> HIDE DEF next
    <3>2. QED
      BY <1>1, <3>1
  <2>3. step \in [more -> [Found -> Found]]
    <3> SUFFICES ASSUME NEW x \in more
                 PROVE  [v \in Found |-> [v EXCEPT !.out = PutOut(x[1], x[2]) \o @]]
                          \in [Found -> Found]
      OBVIOUS
    <3>1. \A v \in Found : PutOut(x[1], x[2]) \o v.out \in Text
      <4>1. \A v \in Found : v.out \in Text
        BY DEF Found
      <4> HIDE DEF more
      <4>2. QED
        BY <4>1, <1>1, Concatenated
    <3>2. \A v \in Found : [v EXCEPT !.out = PutOut(x[1], x[2]) \o @] \in Found
      BY <3>1 DEF Found
    <3>3. QED
      BY <3>2
  <2>4. base \in [States -> Found]
    <3>1. \A x \in States : LastPass(x[1], x[2]) \in Found
      BY LastPassFound
    <3>2. QED
      BY <3>1
  <2>5. Descends(rank, next, more)
    BY <1>1 DEF Descends
  <2> HIDE DEF rank, next, step, base, more, States
  <2>6. QED
    BY <2>1, <2>2, <2>3, <2>4, <2>5, Recursion
<1>3. PICK f \in [States -> Found] : \A x \in States :
        f[x] = IF x \in more THEN step[x][f[next[x]]] ELSE base[x]
  <2> HIDE DEF more, next, step, base, States
  <2>1. QED
    BY <1>2 DEF IsSolution
<1> DEFINE At(g, s, inside) ==
      IF IndexOf(s, Tag(inside)) > 0
        THEN [g[<<Past(s, Tag(inside)), ~inside>>] EXCEPT !.out = PutOut(s, inside) \o @]
        ELSE LastPass(s, inside)
<1>4. ASSUME NEW g
      PROVE  F(g) = [x \in States |-> At(g, x[1], x[2])]
  <2>1. ASSUME NEW s \in Text, NEW inside \in BOOLEAN
        PROVE  F(g)[<<s, inside>>] = At(g, s, inside)
    <3>1. CASE inside
      BY <3>1 DEF Tag, PutOut, LastPass, Text
    <3>2. CASE ~inside
      BY <3>2 DEF Tag, PutOut, LastPass, Text
    <3>3. QED
      BY <3>1, <3>2
  <2>2. \A x \in States : F(g)[x] = At(g, x[1], x[2])
    <3> TAKE x \in States
    <3>1. x[1] \in Text /\ x[2] \in BOOLEAN /\ x = <<x[1], x[2]>>
      OBVIOUS
    <3> HIDE DEF F, At
    <3>2. QED
      BY <3>1, <2>1
  <2>3. F(g) = [x \in States |-> F(g)[x]]
    BY DEF Text
  <2> HIDE DEF F, At, States
  <2>4. QED
    BY <2>2, <2>3
<1>5. \A x \in States : f[x] = At(f, x[1], x[2])
  <2> SUFFICES ASSUME NEW x \in States
               PROVE  f[x] = At(f, x[1], x[2])
    OBVIOUS
  <2>1. CASE x \in more
    <3>1. next[x] = <<Past(x[1], Tag(x[2])), ~x[2]>> /\ next[x] \in States
      BY <2>1, <1>1
    <3>2. f[next[x]] \in Found
      BY <3>1, <1>3
    <3>3. step[x][f[next[x]]] = [f[next[x]] EXCEPT !.out = PutOut(x[1], x[2]) \o @]
      BY <2>1, <3>2
    <3>4. f[x] = step[x][f[next[x]]]
      BY <2>1, <1>3
    <3>5. IndexOf(x[1], Tag(x[2])) > 0
      BY <2>1
    <3> HIDE DEF step, more, next
    <3>6. QED
      BY <3>1, <3>3, <3>4, <3>5
  <2>2. CASE x \notin more
    <3>1. f[x] = LastPass(x[1], x[2])
      BY <2>2, <1>3
    <3>2. ~(IndexOf(x[1], Tag(x[2])) > 0)
      BY <2>2
    <3>3. QED
      BY <3>1, <3>2
  <2>3. QED
    BY <2>1, <2>2
<1>6. f = F(f)
  <2>1. f = [x \in States |-> f[x]]
    BY <1>3
  <2>2. F(f) = [x \in States |-> At(f, x[1], x[2])]
    BY <1>4
  <2> HIDE DEF F, At, States
  <2>3. QED
    BY <2>1, <2>2, <1>5
<1>7. Scan = CHOOSE g : g = F(g)
  BY DEF Scan
<1>8. Scan = F(Scan)
  <2> HIDE DEF F
  <2>1. QED
    BY <1>6, <1>7
<1>9. Scan = [x \in States |-> At(Scan, x[1], x[2])]
  <2> HIDE DEF F, At, States
  <2>1. QED
    BY <1>4, <1>8
<1>10. QED
  <2> SUFFICES ASSUME NEW s \in Text, NEW inside \in BOOLEAN
               PROVE  Scan[<<s, inside>>] = At(Scan, s, inside)
    OBVIOUS
  <2>1. <<s, inside>> \in States
    OBVIOUS
  <2> HIDE DEF At
  <2>2. QED
    BY <1>9, <2>1

LEMMA KeptWhole ==
  ASSUME NEW s \in Text
  PROVE  Keep(s, Len(s)) = s /\ Drop(s, Len(s)) = <<>>
<1>1. Keep(s, Len(s)) = s
  BY SubSeqFull DEF Keep, Text
<1>2. Drop(s, Len(s)) = <<>>
  BY SubSeqEmpty DEF Drop, Text
<1>3. QED
  BY <1>1, <1>2

LEMMA NothingJoined ==
  ASSUME NEW s \in Text
  PROVE  s \o <<>> = s /\ <<>> \o s = s
BY ConcatEmptySeq DEF Text

LEMMA JoinedTwice == \A s, t, u \in Text : (s \o t) \o u = s \o (t \o u)
BY ConcatAssociative DEF Text

\* A beginning in which no tag begins is visible.
LEMMA VisibleBeginning ==
  ASSUME NEW s \in Text, NEW n \in 0 .. Len(s), \A i \in 1 .. n : ~Occurs(Open, s, i)
  PROVE  Visible[s] = Keep(s, n) \o Visible[Drop(s, n)]
<1> DEFINE d == Drop(s, n)
<1>1. Keep(s, n) \in Text /\ d \in Text /\ Len(d) = Len(s) - n /\ Len(s) \in Nat
  BY Kept, Dropped DEF Text
<1>2. /\ IndexOf(d, Open) = 0 <=> IndexOf(s, Open) = 0
      /\ IndexOf(s, Open) # 0 =>
           /\ Past(s, Open) = Past(d, Open)
           /\ UpTo(s, Open) = Keep(s, n) \o UpTo(d, Open)
  BY TagsAreText, SkipBeginning
<1>3. /\ Visible[s] = IF IndexOf(s, Open) = 0 THEN s
                      ELSE UpTo(s, Open) \o Revealed(Past(s, Open), TRUE)
      /\ Visible[d] = IF IndexOf(d, Open) = 0 THEN d
                      ELSE UpTo(d, Open) \o Revealed(Past(d, Open), TRUE)
  BY <1>1, VisibleIs
<1>4. CASE IndexOf(s, Open) = 0
  <2>1. Len(s) - n \in 0 .. Len(s) - n /\ n + (Len(s) - n) = Len(s)
    BY <1>1
  <2>2. Keep(s, n + (Len(s) - n)) = Keep(s, n) \o Keep(d, Len(s) - n)
    BY <2>1, DropTwice
  <2>3. Keep(s, Len(s)) = s /\ Keep(d, Len(d)) = d
    BY <1>1, KeptWhole
  <2> HIDE DEF d
  <2>4. QED
    BY <1>1, <1>2, <1>3, <1>4, <2>1, <2>2, <2>3 DEF d
<1>5. CASE IndexOf(s, Open) # 0
  <2>1. UpTo(d, Open) \in Text /\ Past(d, Open) \in Text
    BY <1>1, <1>2, <1>5, TagsAreText, FoundParts
  <2>2. Revealed(Past(d, Open), TRUE) \in Text
    BY <2>1, RevealedIsText
  <2>3. (Keep(s, n) \o UpTo(d, Open)) \o Revealed(Past(d, Open), TRUE)
          = Keep(s, n) \o (UpTo(d, Open) \o Revealed(Past(d, Open), TRUE))
    BY <1>1, <2>1, <2>2, JoinedTwice
  <2>4. QED
    BY <1>2, <1>3, <1>5, <2>3
<1>6. QED
  BY <1>4, <1>5

\* What the client is to see is the same after the loop, whatever is still received.
Reveals(s, inside, after) ==
  /\ after \in Found
  /\ IndexOf(after.buffer, Tag(after.inThink)) = 0
  /\ \A z \in Text :
       Revealed(s \o z, inside) = after.out \o Revealed(after.buffer \o z, after.inThink)

LEMMA LastPassReveals ==
  ASSUME NEW s \in Text, NEW inside \in BOOLEAN, IndexOf(s, Tag(inside)) = 0
  PROVE  Reveals(s, inside, LastPass(s, inside))
<1> DEFINE after == LastPass(s, inside)
<1>1. after \in Found
  BY LastPassFound
<1>2. CASE inside /\ PartialTag(s, Close) > 0
  <2>1. after.buffer = s /\ after.inThink = TRUE /\ after.out = <<>>
    BY <1>2 DEF LastPass
  <2>2. \A z \in Text : Revealed(s \o z, TRUE) = <<>> \o Revealed(s \o z, TRUE)
    BY Concatenated, RevealedIsText, NothingJoined
  <2> HIDE DEF after
  <2>3. QED
    BY <1>1, <1>2, <2>1, <2>2 DEF Reveals, after
<1>3. CASE inside /\ ~(PartialTag(s, Close) > 0)
  <2>1. after.buffer = <<>> /\ after.inThink = TRUE /\ after.out = <<>>
    BY <1>3 DEF LastPass
  <2>2. IndexOf(<<>>, Close) = 0
    BY NothingIsText, TagsAreText, FirstPlace
  <2>3. ASSUME NEW z \in Text
        PROVE  Revealed(s \o z, TRUE) = <<>> \o Revealed(<<>> \o z, TRUE)
    <3>1. IndexOf(s, Close) = 0
      BY <1>3 DEF Tag
    <3>2. \A i \in 1 .. Len(s) : ~Occurs(Close, s \o z, i)
      BY <1>3, <3>1, TagsAreText, CutTag DEF Text
    <3>3. s \o z \in Text /\ Len(s) \in 0 .. Len(s \o z) /\ Len(s) \in 0 .. Len(s)
      BY Concatenated DEF Text
    <3>4. Drop(s \o z, Len(s)) = z
      <4>1. Drop(s \o z, Len(s)) = Drop(s, Len(s)) \o z
        BY <3>3, DropJoined
      <4>2. QED
        BY <4>1, KeptWhole, NothingJoined
    <3>5. /\ IndexOf(z, Close) = 0 <=> IndexOf(s \o z, Close) = 0
          /\ IndexOf(s \o z, Close) # 0 => Past(s \o z, Close) = Past(z, Close)
      <4>1. /\ IndexOf(Drop(s \o z, Len(s)), Close) = 0 <=> IndexOf(s \o z, Close) = 0
            /\ IndexOf(s \o z, Close) # 0 =>
                 Past(s \o z, Close) = Past(Drop(s \o z, Len(s)), Close)
        BY <3>2, <3>3, TagsAreText, SkipBeginning
      <4>2. QED
        BY <3>4, <4>1
    <3>6. Revealed(s \o z, TRUE) = Revealed(z, TRUE)
      BY <3>5 DEF Revealed
    <3>7. Revealed(z, TRUE) \in Text
      BY RevealedIsText
    <3>8. QED
      BY <3>6, <3>7, NothingJoined
  <2> HIDE DEF after
  <2>4. QED
    BY <1>1, <1>3, <2>1, <2>2, <2>3 DEF Reveals, after, Tag
<1>4. CASE ~inside
  <2> DEFINE n == Len(s) - PartialTag(s, Open)
  <2>1. IndexOf(s, Open) = 0
    BY <1>4 DEF Tag
  <2>2. n \in 0 .. Len(s) /\ Len(s) \in Nat
    <3>1. PartialTag(s, Open) \in 0 .. Len(s) /\ Len(s) \in Nat
      BY TagsAreText, ShortestFound DEF Text
    <3>2. QED
      BY <3>1
  <2>3. after.buffer = Drop(s, n) /\ after.inThink = FALSE /\ after.out = Keep(s, n)
    BY <1>4 DEF LastPass
  <2>4. IndexOf(Drop(s, n), Open) = 0
    <3>1. \A i \in 1 .. n : ~Occurs(Open, s, i)
      <4>1. \A i \in 1 .. Len(s) : ~Occurs(Open, s, i)
        BY <2>1, TagsAreText, FirstPlace
      <4>2. \A i \in 1 .. n : i \in 1 .. Len(s)
        BY <2>2
      <4>3. QED
        BY <4>1, <4>2
    <3> HIDE DEF n
    <3>2. QED
      BY <3>1, <2>1, <2>2, TagsAreText, SkipBeginning
  <2>5. ASSUME NEW z \in Text
        PROVE  Visible[s \o z] = Keep(s, n) \o Visible[Drop(s, n) \o z]
    <3>1. \A i \in 1 .. n : ~Occurs(Open, s \o z, i)
      BY <2>1, NoneBegins
    <3> HIDE DEF n
    <3>2. s \o z \in Text /\ n \in 0 .. Len(s \o z)
      BY <2>2, Concatenated DEF Text
    <3>3. Visible[s \o z] = Keep(s \o z, n) \o Visible[Drop(s \o z, n)]
      BY <3>1, <3>2, VisibleBeginning
    <3>4. QED
      BY <3>3, <2>2, DropJoined
  <2> HIDE DEF after, n
  <2>6. QED
    BY <1>1, <1>4, <2>3, <2>4, <2>5 DEF Reveals, Revealed, after, Tag
<1>5. QED
  BY <1>2, <1>3, <1>4

\* A pass that finds a tag.
LEMMA TagReveals ==
  ASSUME NEW s \in Text, NEW inside \in BOOLEAN, IndexOf(s, Tag(inside)) > 0, NEW z \in Text
  PROVE  Revealed(s \o z, inside)
           = PutOut(s, inside) \o Revealed(Past(s, Tag(inside)) \o z, ~inside)
<1>1. s \o z \in Text
  BY Concatenated
<1>2. CASE inside
  <2>1. /\ IndexOf(s \o z, Close) > 0 /\ Past(s \o z, Close) = Past(s, Close) \o z
        /\ Past(s, Close) \in Text
    <3>1. IndexOf(s, Close) > 0
      BY <1>2 DEF Tag
    <3>2. QED
      BY <3>1, TagsAreText, FoundStays
  <2>2. Revealed(s \o z, TRUE) = Visible[Past(s, Close) \o z]
    BY <2>1 DEF Revealed
  <2>3. Visible[Past(s, Close) \o z] \in Text
    BY <2>1, Concatenated, VisibleIsText
  <2>4. <<>> \o Visible[Past(s, Close) \o z] = Visible[Past(s, Close) \o z]
    BY <2>3, NothingJoined
  <2>5. QED
    BY <1>2, <2>2, <2>4 DEF Revealed, PutOut, Tag
<1>3. CASE ~inside
  <2>1. /\ IndexOf(s \o z, Open) > 0 /\ Past(s \o z, Open) = Past(s, Open) \o z
        /\ UpTo(s \o z, Open) = UpTo(s, Open)
    <3>1. IndexOf(s, Open) > 0
      BY <1>3 DEF Tag
    <3>2. QED
      BY <3>1, TagsAreText, FoundStays
  <2>2. Visible[s \o z] = UpTo(s, Open) \o Revealed(Past(s, Open) \o z, TRUE)
    <3>1. Visible[s \o z] = IF IndexOf(s \o z, Open) = 0 THEN s \o z
                            ELSE UpTo(s \o z, Open) \o Revealed(Past(s \o z, Open), TRUE)
      BY <1>1, VisibleIs
    <3>2. IndexOf(s \o z, Open) # 0
      BY <2>1
    <3>3. QED
      BY <3>1, <3>2, <2>1
  <2>3. Revealed(s \o z, inside) = Visible[s \o z] /\ PutOut(s, inside) = UpTo(s, Open)
        /\ Tag(inside) = Open /\ ~inside = TRUE
    BY <1>3 DEF Revealed, PutOut, Tag
  <2>4. QED
    BY <2>2, <2>3
<1>4. QED
  BY <1>2, <1>3

LEMMA PassReveals ==
  ASSUME NEW s \in Text, NEW inside \in BOOLEAN, IndexOf(s, Tag(inside)) > 0,
         NEW after, Reveals(Past(s, Tag(inside)), ~inside, after)
  PROVE  Reveals(s, inside, [after EXCEPT !.out = PutOut(s, inside) \o @])
<1> DEFINE p == PutOut(s, inside)
           rest == Past(s, Tag(inside))
           new == [after EXCEPT !.out = p \o @]
<1>1. p \in Text /\ rest \in Text
  <2>1. Tag(inside) \in Text /\ Len(Tag(inside)) > 0
    BY TagsAreText DEF Tag
  <2>2. UpTo(s, Tag(inside)) \in Text /\ rest \in Text
    BY <2>1, FoundParts
  <2>3. QED
    BY <2>2, NothingIsText DEF PutOut, Tag
<1>2. after \in Found /\ after.buffer \in Text /\ after.inThink \in BOOLEAN /\ after.out \in Text
  BY DEF Reveals, Found
<1>3. p \o after.out \in Text
  BY <1>1, <1>2, Concatenated
<1>4. /\ new \in Found /\ new.buffer = after.buffer /\ new.inThink = after.inThink
      /\ new.out = p \o after.out
  <2> HIDE DEF p
  <2>1. QED
    BY <1>2, <1>3 DEF Found
<1>5. ASSUME NEW z \in Text
      PROVE  Revealed(s \o z, inside) = (p \o after.out) \o Revealed(after.buffer \o z, after.inThink)
  <2>1. Revealed(s \o z, inside) = p \o Revealed(rest \o z, ~inside)
    BY TagReveals
  <2>2. Revealed(rest \o z, ~inside) = after.out \o Revealed(after.buffer \o z, after.inThink)
    BY DEF Reveals
  <2>3. Revealed(after.buffer \o z, after.inThink) \in Text
    BY <1>2, Concatenated, RevealedIsText
  <2> DEFINE r == Revealed(after.buffer \o z, after.inThink)
  <2> HIDE DEF p, r
  <2>4. p \o (after.out \o r) = (p \o after.out) \o r
    <3>1. r \in Text
      BY <2>3 DEF r
    <3>2. p \in Text /\ after.out \in Text
      BY <1>1, <1>2
    <3>3. (p \o after.out) \o r = p \o (after.out \o r)
      BY <3>1, <3>2, JoinedTwice, Zenon
    <3>4. QED
      BY <3>3
  <2>5. QED
    BY <2>1, <2>2, <2>4 DEF r
<1> HIDE DEF new
<1>6. IndexOf(after.buffer, Tag(after.inThink)) = 0
  BY DEF Reveals
<1>7. QED
  BY <1>4, <1>5, <1>6 DEF Reveals, new

LEMMA ScanReveals ==
  ASSUME NEW s \in Text, NEW inside \in BOOLEAN
  PROVE  Reveals(s, inside, Scan[<<s, inside>>])
<1> DEFINE Fails(t, i) == ~Reveals(t, i, Scan[<<t, i>>])
           T == {n \in Nat : \E t \in Text : \E i \in BOOLEAN : Len(t) = n /\ Fails(t, i)}
<1>1. SUFFICES ASSUME Fails(s, inside)
               PROVE  FALSE
  OBVIOUS
<1> HIDE DEF Fails
<1>2. T # {} /\ T \in SUBSET Nat
  <2>1. Len(s) \in T
    BY <1>1 DEF Text
  <2>2. QED
    BY <2>1
<1>3. PICK n \in T : \A m \in T : n <= m
  <2> HIDE DEF T
  <2>1. QED
    BY <1>2, Least
<1>4. PICK t \in Text : \E i \in BOOLEAN : Len(t) = n /\ Fails(t, i)
  OBVIOUS
<1>5. PICK i \in BOOLEAN : Len(t) = n /\ Fails(t, i)
  BY <1>4
<1>6. Scan[<<t, i>>] = IF IndexOf(t, Tag(i)) > 0
                         THEN [Scan[<<Past(t, Tag(i)), ~i>>] EXCEPT !.out = PutOut(t, i) \o @]
                         ELSE LastPass(t, i)
  BY ScanIs
<1>7. Tag(i) \in Text /\ Len(Tag(i)) > 0 /\ IndexOf(t, Tag(i)) \in Nat
  <2>1. Tag(i) \in Text /\ Len(Tag(i)) > 0
    BY TagsAreText DEF Tag
  <2>2. IndexOf(t, Tag(i)) \in 0 .. Len(t) /\ Len(t) \in Nat
    BY <2>1, FirstPlace DEF Text
  <2>3. QED
    BY <2>1, <2>2
<1>8. CASE IndexOf(t, Tag(i)) > 0
  <2> DEFINE rest == Past(t, Tag(i))
  <2>1. rest \in Text /\ Len(rest) < n /\ Len(rest) \in Nat /\ (~i) \in BOOLEAN
    BY <1>5, <1>7, <1>8, FoundParts DEF Text
  <2>2. ~Fails(rest, ~i)
    <3> HIDE DEF rest
    <3>1. Len(rest) \notin T
      BY <1>3, <2>1
    <3>2. \A o \in BOOLEAN : ~Fails(rest, o)
      BY <3>1, <2>1
    <3>3. QED
      BY <3>2, <2>1
  <2>3. Reveals(rest, ~i, Scan[<<rest, ~i>>])
    BY <2>2 DEF Fails
  <2>4. Reveals(t, i, Scan[<<t, i>>])
    <3>1. Reveals(t, i, [Scan[<<rest, ~i>>] EXCEPT !.out = PutOut(t, i) \o @])
      BY <2>3, <1>8, PassReveals
    <3>2. QED
      BY <3>1, <1>6, <1>8
  <2>5. QED
    BY <2>4, <1>5 DEF Fails
<1>9. CASE IndexOf(t, Tag(i)) = 0
  BY <1>5, <1>6, <1>9, LastPassReveals DEF Fails
<1>10. QED
  BY <1>7, <1>8, <1>9

FilterTypes ==
  /\ received \in Text /\ buffer \in Text /\ sent \in Text
  /\ inThink \in BOOLEAN /\ closed \in BOOLEAN

\* However the answer goes on, what the client has of it and what the buffer will give.
NothingLost ==
  \A z \in Text : Visible[received \o z] = sent \o Revealed(buffer \o z, inThink)

FilterInv ==
  /\ FilterTypes
  /\ ~closed => IndexOf(buffer, Tag(inThink)) = 0 /\ NothingLost
  /\ closed => sent = Visible[received]

LEMMA EmptyFilter ==
  /\ IndexOf(<<>>, Tag(FALSE)) = 0
  /\ \A z \in Text : Visible[<<>> \o z] = <<>> \o Revealed(<<>> \o z, FALSE)
<1>1. IndexOf(<<>>, Tag(FALSE)) = 0
  BY NothingIsText, TagsAreText, FirstPlace DEF Tag
<1>2. \A z \in Text : <<>> \o z = z /\ <<>> \o Visible[z] = Visible[z]
  BY VisibleIsText, NothingJoined
<1>3. QED
  BY <1>1, <1>2 DEF Revealed

LEMMA InitFilter == FilterInit => FilterInv
BY EmptyFilter, NothingIsText DEF FilterInit, FilterInv, FilterTypes, NothingLost

LEMMA PiecesAreText == Pieces \subseteq Text
<1>1. \A n \in 1 .. MaxChunk : n \in Nat
  BY TagAssumption
<1>2. QED
  BY <1>1, SeqDef DEF Pieces, Text

LEMMA FilterStep ==
  ASSUME FilterInv, NEW chunk \in Pieces, Filter(chunk)
  PROVE  FilterInv'
<1> DEFINE s == buffer \o chunk
           after == Scan[<<s, inThink>>]
<1>1. chunk \in Text
  BY PiecesAreText
<1>2. FilterTypes /\ ~closed /\ NothingLost
  BY DEF Filter, FilterInv
<1>3. s \in Text /\ received \o chunk \in Text
  BY <1>1, <1>2, Concatenated DEF FilterTypes
<1> HIDE DEF s
<1>4. Reveals(s, inThink, after)
  BY <1>2, <1>3, ScanReveals DEF FilterTypes
<1>5. /\ buffer' = after.buffer /\ inThink' = after.inThink /\ sent' = sent \o after.out
      /\ received' = received \o chunk /\ closed' = FALSE
  BY <1>2 DEF Filter, s
<1> HIDE DEF after
<1>6. after.buffer \in Text /\ after.inThink \in BOOLEAN /\ after.out \in Text
  BY <1>4 DEF Reveals, Found
<1>7. FilterTypes'
  <2>1. sent \o after.out \in Text
    BY <1>2, <1>6, Concatenated DEF FilterTypes
  <2>2. QED
    BY <2>1, <1>3, <1>5, <1>6 DEF FilterTypes
<1>8. IndexOf(buffer', Tag(inThink')) = 0
  BY <1>4, <1>5 DEF Reveals
<1>9. ASSUME NEW z \in Text
      PROVE  Visible[received' \o z] = sent' \o Revealed(buffer' \o z, inThink')
  <2> DEFINE r == Revealed(after.buffer \o z, after.inThink)
  <2>1. chunk \o z \in Text
    BY <1>1, Concatenated
  <2>2. (received \o chunk) \o z = received \o (chunk \o z)
        /\ buffer \o (chunk \o z) = s \o z
    <3>1. received \in Text /\ buffer \in Text
      BY <1>2 DEF FilterTypes
    <3>2. (received \o chunk) \o z = received \o (chunk \o z)
      BY <3>1, <1>1, JoinedTwice
    <3>3. (buffer \o chunk) \o z = buffer \o (chunk \o z)
      BY <3>1, <1>1, JoinedTwice
    <3>4. QED
      BY <3>2, <3>3 DEF s
  <2>3. Visible[received \o (chunk \o z)] = sent \o Revealed(s \o z, inThink)
    BY <1>2, <2>1, <2>2 DEF NothingLost
  <2>4. Revealed(s \o z, inThink) = after.out \o r
    BY <1>4 DEF Reveals
  <2>5. r \in Text
    BY <1>6, Concatenated, RevealedIsText
  <2> HIDE DEF r
  <2>6. sent \o (after.out \o r) = (sent \o after.out) \o r
    <3>1. sent \in Text
      BY <1>2 DEF FilterTypes
    <3>2. QED
      BY <3>1, <1>6, <2>5, JoinedTwice
  <2>7. QED
    BY <1>5, <2>2, <2>3, <2>4, <2>6 DEF r
<1>10. QED
  BY <1>5, <1>7, <1>8, <1>9 DEF FilterInv, NothingLost

LEMMA FlushStep ==
  ASSUME FilterInv, Flush
  PROVE  FilterInv'
<1>1. FilterTypes /\ NothingLost /\ IndexOf(buffer, Tag(inThink)) = 0
  BY DEF Flush, FilterInv
<1>2. Visible[received] = sent \o Revealed(buffer, inThink)
  <2>1. Visible[received \o <<>>] = sent \o Revealed(buffer \o <<>>, inThink)
    BY <1>1, NothingIsText DEF NothingLost
  <2>2. QED
    BY <1>1, <2>1, NothingJoined DEF FilterTypes
<1>3. Revealed(buffer, inThink) = IF inThink THEN <<>> ELSE buffer
  <2>1. ~inThink => Visible[buffer] = buffer
    BY <1>1, VisibleIs DEF FilterTypes, Tag
  <2>2. QED
    BY <1>1, <2>1 DEF Revealed, Tag
<1>4. sent' = Visible[received]
  BY <1>1, <1>2, <1>3, NothingJoined DEF Flush, FilterTypes
<1>5. Visible[received] \in Text
  BY <1>1, VisibleIsText DEF FilterTypes
<1>6. QED
  BY <1>1, <1>4, <1>5, NothingIsText DEF Flush, FilterInv, FilterTypes

LEMMA FilterStepKeeps ==
  ASSUME FilterInv, [FilterNext]_filterVars
  PROVE  FilterInv'
<1>1. ASSUME NEW chunk \in Pieces, Filter(chunk)
      PROVE  FilterInv'
  BY <1>1, FilterStep
<1>2. CASE Flush
  BY <1>2, FlushStep
<1>3. CASE NewFilter
  BY <1>3, EmptyFilter, NothingIsText DEF NewFilter, FilterInv, FilterTypes, NothingLost
<1>4. CASE UNCHANGED filterVars
  BY <1>4 DEF filterVars, FilterInv, FilterTypes, NothingLost
<1>5. QED
  BY <1>1, <1>2, <1>3, <1>4 DEF FilterNext

LEMMA FilterHides == FilterInv => HidesThinking
<1> SUFFICES ASSUME FilterInv, ~closed
             PROVE  IsPrefix(sent, Visible[received])
  BY DEF FilterInv, HidesThinking
<1> DEFINE r == Revealed(buffer, inThink)
<1>1. FilterTypes /\ NothingLost
  BY DEF FilterInv
<1>2. Visible[received \o <<>>] = sent \o Revealed(buffer \o <<>>, inThink)
  BY <1>1, NothingIsText DEF NothingLost
<1>3. Visible[received] = sent \o r
  BY <1>1, <1>2, NothingJoined DEF FilterTypes
<1>4. r \in Text /\ sent \in Text
  BY <1>1, RevealedIsText DEF FilterTypes
<1> HIDE DEF r
<1>5. sent \o r \in Text /\ Len(sent \o r) = Len(sent) + Len(r)
  BY <1>4, Concatenated
<1>6. Len(sent) \in 0 .. Len(sent) /\ Len(r) \in Nat /\ Len(sent) \in Nat
  BY <1>4 DEF Text
<1>7. Keep(sent \o r, Len(sent)) = Keep(sent, Len(sent))
  BY <1>4, <1>6, DropJoined
<1>8. QED
  BY <1>3, <1>5, <1>6, <1>7 DEF IsPrefix, Keep

\* No thinking is shown and no visible text lost, in whatever chunks an answer comes: what a
\* client was sent begins what StripThinkTags leaves of the answer, and is all of it once the
\* stream has ended (Filter, Flush).  For any answers and any two tags, the first of which has
\* its first character only once.
THEOREM ThinkingIsHidden == FilterSpec => []HidesThinking
<1>1. FilterInit => FilterInv
  BY InitFilter
<1>2. FilterInv /\ [FilterNext]_filterVars => FilterInv'
  BY FilterStepKeeps
<1>3. FilterInv => HidesThinking
  BY FilterHides
<1>4. QED
  BY <1>1, <1>2, <1>3, PTL DEF FilterSpec
=============================================================================
