------------------------ MODULE RateLimiterProofs -------------------------
(***************************************************************************)
(* The rate limiter, for any number of callers and keys, any limits and    *)
(* any sequence of changes, whichever of its four algorithms it runs.      *)
(* Each algorithm has an invariant of its own, which ties what the limiter *)
(* remembers of a key to the calls it has admitted and to the earliest     *)
(* moment it has promised a refused caller.                                *)
(***************************************************************************)
EXTENDS RateLimiter, FiniteSetTheorems, WellFoundedInduction, TLAPS

-----------------------------------------------------------------------------
(* Numbers                                                                 *)


\* The quotient and the remainder of two numbers.
LEMMA DivBounds ==
    ASSUME NEW x \in Nat, NEW y \in Nat \ {0}
    PROVE  x \div y \in Nat /\ y * (x \div y) <= x /\ x < y * (x \div y) + y
OBVIOUS

\* A product grows with its factor.
LEMMA MulMono ==
    ASSUME NEW a \in Nat, NEW b \in Nat, NEW c \in Nat, a <= b
    PROVE  c * a <= c * b
OBVIOUS

\* The quotient is the largest number whose multiple fits.
LEMMA DivLargest ==
    ASSUME NEW x \in Nat, NEW y \in Nat \ {0}, NEW m \in Nat, y * m <= x
    PROVE  m <= x \div y
<1>1. PICK q \in Nat : q = x \div y /\ x < y * q + y
  BY DivBounds
<1>2. ASSUME m > q PROVE FALSE
  <2>1. q + 1 \in Nat /\ q + 1 <= m
    BY <1>2
  <2>2. y * (q + 1) <= y * m
    BY <2>1, MulMono
  <2>3. y * (q + 1) = y * q + y
    OBVIOUS
  <2>4. y * q \in Nat /\ y * m \in Nat
    OBVIOUS
  <2> QED
    BY <1>1, <2>2, <2>3, <2>4
<1> QED
  BY <1>1, <1>2

\* A larger number has a larger quotient.
LEMMA DivMono ==
    ASSUME NEW x \in Nat, NEW z \in Nat, NEW y \in Nat \ {0}, x <= z
    PROVE  x \div y <= z \div y
<1>1. x \div y \in Nat /\ y * (x \div y) <= x
  BY DivBounds
<1>2. y * (x \div y) \in Nat
  BY <1>1
<1>3. y * (x \div y) <= z
  BY <1>1, <1>2
<1> QED
  BY <1>1, <1>3, DivLargest

\* Two numbers with one quotient are less than the divisor apart.
LEMMA DivSame ==
    ASSUME NEW x \in Nat, NEW z \in Nat, NEW y \in Nat \ {0}, x \div y = z \div y
    PROVE  x - z < y
<1>1. PICK q \in Nat : q = x \div y /\ q = z \div y /\ y * q <= z /\ x < y * q + y
  BY DivBounds
<1>2. y * q \in Nat
  OBVIOUS
<1> QED
  BY <1>1, <1>2

\* A larger divisor gives a smaller quotient.
LEMMA DivAnti ==
    ASSUME NEW x \in Nat, NEW y \in Nat \ {0}, NEW z \in Nat \ {0}, y <= z
    PROVE  x \div z <= x \div y
<1>1. PICK q \in Nat : q = x \div z /\ z * q <= x
  BY DivBounds
<1>2. q * y <= q * z
  BY MulMono
<1>3. y * q = q * y /\ z * q = q * z /\ q * y \in Nat /\ q * z \in Nat
  OBVIOUS
<1>4. y * q <= x
  BY <1>1, <1>2, <1>3
<1> QED
  BY <1>1, <1>4, DivLargest

\* A quotient is no larger than the number it is of.
LEMMA DivSelf == ASSUME NEW x \in Nat, NEW y \in Nat \ {0} PROVE x \div y <= x
<1>1. PICK q \in Nat : q = x \div y /\ y * q <= x
  BY DivBounds
<1>2. q * 1 <= q * y
  BY MulMono
<1> QED
  BY <1>1, <1>2

\* Products distribute over sums.
LEMMA Distrib ==
    ASSUME NEW x \in Int, NEW y \in Int, NEW z \in Int
    PROVE  (x + y) * z = x * z + y * z /\ x * z \in Int
OBVIOUS

\* A product grows with both of its factors.
LEMMA MulBoth ==
    ASSUME NEW x \in Nat, NEW y \in Nat, NEW z \in Nat, NEW v \in Nat, x <= y, z <= v
    PROVE  x * z <= y * v /\ x * z \in Nat /\ y * v \in Nat
<1>1. x * z <= x * v
  BY MulMono
<1>2. v * x <= v * y
  BY MulMono
<1>3. v * x = x * v /\ v * y = y * v /\ x * z \in Nat /\ x * v \in Nat /\ y * v \in Nat
  OBVIOUS
<1> QED
  BY <1>1, <1>2, <1>3

\* A set of naturals has a least one, and Min is that.
LEMMA LeastNumber ==
    ASSUME NEW S \in SUBSET Nat, S # {}
    PROVE  Min(S) \in S /\ \A x \in S : Min(S) <= x
<1>1. PICK m \in S : \A x \in S : <<x, m>> \notin OpToRel(<, Nat)
  BY NatLessThanWellFounded, WFMin, Zenon
<1>2. \A x \in S : m <= x
  <2> SUFFICES ASSUME NEW x \in S, x < m PROVE FALSE
    OBVIOUS
  <2>1. x \in Nat /\ m \in Nat
    OBVIOUS
  <2>2. <<x, m>> \in OpToRel(<, Nat)
    BY <2>1 DEF OpToRel
  <2> QED
    BY <1>1, <2>2
<1> QED
  BY <1>2 DEF Min

\* Max and Min of two numbers.
LEMMA TwoNumbers ==
    ASSUME NEW x \in Int, NEW y \in Int
    PROVE  /\ Max({x, y}) = IF x >= y THEN x ELSE y
           /\ Min({x, y}) = IF x <= y THEN x ELSE y
BY DEF Max, Min

\* What the proofs need of the constants.
LEMMA LimiterConstants ==
    /\ Second \in Nat /\ Second >= 1 /\ CleanupTick \in Nat /\ MaxTime \in Nat
    /\ DefaultRate \in Nat /\ DefaultBurst \in Nat /\ DefaultBurst >= 1 /\ Rates \subseteq Nat
    /\ MaxRate \in Nat /\ MaxRate >= 1 /\ \A r \in Rates \cup {DefaultRate} : r <= MaxRate
    /\ MaxLimit \in Nat /\ MaxLimit >= 1
<1>1. \E m \in Rates \cup {DefaultRate, 1} : \A r \in Rates \cup {DefaultRate, 1} : r <= m
  BY LimiterAssumption
<1>2. MaxRate \in Rates \cup {DefaultRate, 1} /\ \A r \in Rates \cup {DefaultRate, 1} : r <= MaxRate
  <2>1. \E m \in Rates \cup {DefaultRate, 1} : \A r \in Rates \cup {DefaultRate, 1} : m >= r
    BY <1>1, LimiterAssumption
  <2> QED
    BY <2>1 DEF MaxRate, Max
<1> QED
  BY <1>2, LimiterAssumption DEF MaxLimit

\* A call takes at least one tick to leak out, and the least time at the highest rate.
LEMMA LeakTimes ==
    ASSUME NEW r \in 1 .. MaxRate
    PROVE  /\ LeakTime(r) \in Nat /\ LeakTime(r) >= 1
           /\ LeakTime(MaxRate) \in Nat /\ LeakTime(MaxRate) >= 1 /\ LeakTime(MaxRate) <= LeakTime(r)
<1>0. r \in Nat \ {0} /\ MaxRate \in Nat \ {0} /\ r <= MaxRate /\ Second \in Nat
  BY LimiterConstants
<1>1. PICK x \in Nat, y \in Nat : x = Second \div r /\ y = Second \div MaxRate /\ y <= x
  BY <1>0, DivBounds, DivAnti
<1>2. LeakTime(r) = IF 1 >= x THEN 1 ELSE x
  BY <1>1, TwoNumbers DEF LeakTime
<1>3. LeakTime(MaxRate) = IF 1 >= y THEN 1 ELSE y
  BY <1>1, TwoNumbers DEF LeakTime
<1> QED
  BY <1>1, <1>2, <1>3

\* The same, of the highest rate.
LEMMA FastestLeak ==
    LeakTime(MaxRate) \in Nat \ {0} /\ 0 * LeakTime(MaxRate) = 0
<1>1. MaxRate \in 1 .. MaxRate
  BY LimiterConstants
<1> QED
  BY <1>1, LeakTimes

-----------------------------------------------------------------------------
(* What holds whichever algorithm runs                                     *)

Entries == [at : Times, nth : Nat]
LimiterCall == [key : Keys, rate : Nat, burst : Nat]
UsualRate == IF DefaultRate >= 1 THEN DefaultRate ELSE 1
UsualLimit == DefaultRate + DefaultBurst

\* The admitted calls of a key are finitely many, none is from the future, and each has a
\* number of its own.
AdmitsOK ==
    \A k \in Keys : /\ IsFiniteSet(admits[k])
                    /\ \A e \in admits[k] : e.at <= clock /\ e.nth < Cardinality(admits[k])

\* What a call has read was the limit of some moment, and the usual one if none was set.
CallsOK ==
    /\ \A p \in Callers :
         /\ pc[p] # "idle" => call[p].rate \in Rates \cup {DefaultRate}
         /\ pc[p] = "check" => call[p].burst \in {DefaultBurst, 2 * DefaultBurst}
         /\ changes = 0 /\ pc[p] # "idle" => call[p].rate = DefaultRate
         /\ changes = 0 /\ pc[p] = "check" => call[p].burst = DefaultBurst
    /\ changes = 0 => \A k \in Keys : rate[k] = DefaultRate /\ premium[k] = {FALSE}

BaseInv ==
    /\ TypeOK /\ AdmitsOK /\ CallsOK
    /\ \A k \in Keys : /\ tokens[k].last <= clock /\ leaky[k].last <= clock
                       /\ changes > 0 => promise[k] > MaxTime

\* How many calls of k were admitted at a or later
Since(k, a) == Cardinality({e \in admits[k] : a <= e.at})

\* Calls from a to now are those from a on, for none is from the future.
LEMMA SinceNow ==
    ASSUME BaseInv, NEW k \in Keys, NEW a \in Int
    PROVE  /\ Since(k, a) \in Nat
           /\ Admitted(k, a, clock) = Since(k, a)
           /\ a > clock => Since(k, a) = 0
<1>1. /\ IsFiniteSet(admits[k]) /\ clock \in Nat
      /\ \A e \in admits[k] : e.at \in Nat /\ e.at <= clock
  BY LimiterConstants DEF BaseInv, AdmitsOK, TypeOK, Times
<1>2. {e \in admits[k] : a <= e.at} \subseteq admits[k]
  OBVIOUS
<1>3. Since(k, a) \in Nat
  <2>1. IsFiniteSet({e \in admits[k] : a <= e.at})
    BY <1>1, <1>2, FS_Subset
  <2> QED
    BY <2>1, FS_CardinalityType DEF Since
<1>4. {e \in admits[k] : a <= e.at /\ e.at <= clock} = {e \in admits[k] : a <= e.at}
  BY <1>1, Zenon
<1>5. ASSUME a > clock PROVE Since(k, a) = 0
  <2>1. {e \in admits[k] : a <= e.at} = {}
    BY <1>1, <1>5
  <2> QED
    BY <2>1, FS_EmptySet DEF Since
<1>6. Admitted(k, a, clock) = Since(k, a)
  BY <1>4, Zenon DEF Admitted, Since
<1> QED
  BY <1>3, <1>5, <1>6

\* A call that is admitted is a new one, and it counts in every interval that reaches now.
LEMMA NewAdmission ==
    ASSUME BaseInv, NEW k \in Keys, clock' = clock,
           admits' = [admits EXCEPT ![k] = @ \cup {Admission(k)}]
    PROVE  /\ admits' \in [Keys -> SUBSET Entries] /\ AdmitsOK'
           /\ Admission(k) \in Entries /\ Admission(k).at = clock
           /\ Admission(k) \notin admits[k] /\ admits'[k] = admits[k] \cup {Admission(k)}
           /\ \A a \in 0 .. clock : Since(k, a)' = Since(k, a) + 1
           /\ \A l \in Keys \ {k} : admits'[l] = admits[l] /\ \A a \in Int : Since(l, a)' = Since(l, a)
<1>0. PICK n \in Nat : n = Cardinality(admits[k]) /\ IsFiniteSet(admits[k])
  BY FS_CardinalityType DEF BaseInv, AdmitsOK
<1>t. clock \in Times /\ clock \in Nat /\ admits \in [Keys -> SUBSET Entries]
  BY LimiterConstants DEF BaseInv, TypeOK, Times, Entries
<1>1. PICK new \in Entries : new = Admission(k) /\ new.at = clock /\ new.nth = n
  <2>1. PICK now \in Times : now = clock
    BY <1>t
  <2>2. [at |-> now, nth |-> n] \in Entries
    BY DEF Entries
  <2> QED
    BY <1>0, <2>1, <2>2 DEF Admission
<1>2. new \notin admits[k]
  BY <1>0, <1>1 DEF BaseInv, AdmitsOK
<1>3. admits'[k] = admits[k] \cup {new} /\ \A l \in Keys \ {k} : admits'[l] = admits[l]
  BY <1>1, <1>t
<1>4. admits' \in [Keys -> SUBSET Entries]
  BY <1>1, <1>t
<1>5. IsFiniteSet(admits'[k]) /\ Cardinality(admits'[k]) = n + 1
  BY <1>0, <1>2, <1>3, FS_AddElement, SMTT(30)
<1>6. AdmitsOK'
  <2> SUFFICES ASSUME NEW l \in Keys
               PROVE  /\ IsFiniteSet(admits'[l])
                      /\ \A e \in admits'[l] : e.at <= clock /\ e.nth < Cardinality(admits'[l])
    BY DEF AdmitsOK
  <2>1. CASE l = k
    <3>1. ASSUME NEW e \in admits'[k] PROVE e.at <= clock /\ e.nth < n + 1
      <4>1. CASE e = new
        BY <1>1, <1>t, <4>1
      <4>2. CASE e \in admits[k]
        <5>1. e.at <= clock /\ e.nth < n /\ e.nth \in Nat
          BY <1>0, <1>t, <4>2 DEF BaseInv, AdmitsOK, Entries
        <5> QED
          BY <5>1
      <4> QED
        BY <1>3, <4>1, <4>2
    <3> QED
      BY <1>5, <2>1, <3>1
  <2>2. CASE l # k
    BY <1>3, <2>2 DEF BaseInv, AdmitsOK
  <2> QED
    BY <2>1, <2>2
<1>7. ASSUME NEW a \in 0 .. clock PROVE Since(k, a)' = Since(k, a) + 1
  <2>1. {e \in admits'[k] : a <= e.at} = {e \in admits[k] : a <= e.at} \cup {new}
    BY <1>1, <1>3, <1>t
  <2>2. IsFiniteSet({e \in admits[k] : a <= e.at})
    BY <1>0, FS_Subset
  <2>3. new \notin {e \in admits[k] : a <= e.at}
    BY <1>2
  <2> QED
    BY <2>1, <2>2, <2>3, FS_AddElement DEF Since
<1>8. ASSUME NEW l \in Keys \ {k}, NEW a \in Int PROVE Since(l, a)' = Since(l, a)
  BY <1>3 DEF Since
<1> QED
  BY <1>1, <1>2, <1>3, <1>4, <1>6, <1>7, <1>8

\* What a check leaves behind when it has answered p with allowed and resetAt
AnsweredOK(p, k, allowed, resetAt) ==
    /\ pc' = [pc EXCEPT ![p] = "idle"]
    /\ pc' \in [Callers -> {"idle", "burst", "check"}] /\ call' \in [Callers -> LimiterCall]
    /\ promise' \in [Keys -> Nat] /\ \A l \in Keys \ {k} : promise'[l] = promise[l]
    /\ admits' \in [Keys -> SUBSET Entries] /\ AdmitsOK' /\ CallsOK'
    /\ \A l \in Keys \ {k} : admits'[l] = admits[l]
    /\ allowed => /\ admits' = [admits EXCEPT ![k] = @ \cup {Admission(k)}]
                  /\ admits'[k] # admits[k] /\ promise'[k] = MaxTime + 1
    /\ ~allowed => /\ admits' = admits
                   /\ promise'[k] = IF changes > 0 THEN MaxTime + 1
                                    ELSE IF resetAt <= promise[k] THEN resetAt ELSE promise[k]
    /\ \A l \in Keys : changes' > 0 => promise'[l] > MaxTime

\* The end of every check: a caller gets its answer, and the history notes it.
LEMMA Answered ==
    ASSUME BaseInv, NEW p \in Callers, NEW allowed \in BOOLEAN, NEW resetAt \in Nat, pc[p] = "check",
           NEW k \in Keys, k = call[p].key, Answer(p, allowed, resetAt),
           UNCHANGED <<algorithm, clock, rate, premium, changes>>
    PROVE  AnsweredOK(p, k, allowed, resetAt)
<1>1. k \in Keys /\ call \in [Callers -> LimiterCall] /\ pc \in [Callers -> {"idle", "burst", "check"}]
  BY DEF BaseInv, TypeOK, LimiterCall
<1>2. promise \in [Keys -> Nat] /\ MaxTime + 1 \in Nat /\ MaxTime \in Nat /\ Min({resetAt, promise[k]}) \in Nat
      /\ Min({resetAt, promise[k]}) = IF resetAt <= promise[k] THEN resetAt ELSE promise[k]
  <2>1. promise \in [Keys -> Nat] /\ MaxTime + 1 \in Nat /\ MaxTime \in Nat
    BY LimiterConstants DEF BaseInv, TypeOK
  <2>2. PICK m \in Nat : m = promise[k]
    BY <1>1, <2>1
  <2>3. Min({resetAt, m}) = IF resetAt <= m THEN resetAt ELSE m
    <3>1. resetAt \in Int /\ m \in Int
      OBVIOUS
    <3> QED
      BY <3>1, TwoNumbers, Zenon
  <2> QED
    BY <2>1, <2>2, <2>3
<1>3. /\ admits' = IF allowed THEN [admits EXCEPT ![k] = @ \cup {Admission(k)}] ELSE admits
      /\ promise' = [promise EXCEPT ![k] =
                        IF allowed \/ changes > 0 THEN MaxTime + 1 ELSE Min({resetAt, promise[k]})]
      /\ call' = [call EXCEPT ![p].rate = 0, ![p].burst = 0]
      /\ pc' = [pc EXCEPT ![p] = "idle"]
  BY DEF Answer
<1>4. pc' \in [Callers -> {"idle", "burst", "check"}] /\ call' \in [Callers -> LimiterCall]
  <2>1. PICK c \in LimiterCall : c = call[p]
    BY <1>1
  <2>2. [c EXCEPT !.rate = 0, !.burst = 0] \in LimiterCall
    BY DEF LimiterCall
  <2>3. call' = [call EXCEPT ![p] = [c EXCEPT !.rate = 0, !.burst = 0]]
    BY <1>1, <1>3, <2>1
  <2> QED
    BY <1>1, <1>3, <2>2, <2>3
<1>5. \A q \in Callers \ {p} : call'[q] = call[q] /\ pc'[q] = pc[q]
  BY <1>1, <1>3
<1>6. CallsOK'
  BY <1>1, <1>3, <1>5 DEF BaseInv, CallsOK
<1>7. promise' \in [Keys -> Nat] /\ \A l \in Keys \ {k} : promise'[l] = promise[l]
  BY <1>1, <1>2, <1>3
<1>7a. \A l \in Keys : changes' > 0 => promise'[l] > MaxTime
  BY <1>1, <1>2, <1>3 DEF BaseInv
<1>8. CASE allowed
  <2>1. admits' = [admits EXCEPT ![k] = @ \cup {Admission(k)}] /\ promise'[k] = MaxTime + 1
    BY <1>1, <1>2, <1>3, <1>8
  <2>2. /\ admits' \in [Keys -> SUBSET Entries] /\ AdmitsOK'
        /\ Admission(k) \notin admits[k] /\ admits'[k] = admits[k] \cup {Admission(k)}
        /\ \A l \in Keys \ {k} : admits'[l] = admits[l]
    BY <1>1, <2>1, NewAdmission
  <2> QED
    BY <1>1, <1>3, <1>4, <1>6, <1>7, <1>7a, <1>8, <2>1, <2>2 DEF AnsweredOK
<1>9. CASE ~allowed
  <2>1. admits' = admits /\ promise'[k] = IF changes > 0 THEN MaxTime + 1
                                             ELSE IF resetAt <= promise[k] THEN resetAt ELSE promise[k]
    BY <1>1, <1>2, <1>3, <1>9
  <2>2. admits' \in [Keys -> SUBSET Entries] /\ AdmitsOK'
    BY <2>1 DEF BaseInv, TypeOK, AdmitsOK, Entries
  <2> QED
    BY <1>1, <1>3, <1>4, <1>6, <1>7, <1>7a, <1>9, <2>1, <2>2 DEF AnsweredOK
<1> QED
  BY <1>8, <1>9

\* What a check has read of the limits, getRate and getBurst apart, is within their bounds.
LEMMA LimitRead ==
    ASSUME BaseInv, NEW p \in Callers, pc[p] = "check"
    PROVE  /\ call[p].key \in Keys /\ call[p].rate \in Nat /\ call[p].rate <= MaxRate
           /\ call[p].burst \in {DefaultBurst, 2 * DefaultBurst}
           /\ Limit(p) \in Nat /\ Limit(p) >= 1 /\ Limit(p) <= MaxLimit
           /\ changes = 0 => /\ call[p].rate = DefaultRate /\ call[p].burst = DefaultBurst
                             /\ Limit(p) = UsualLimit
<1>1. call[p].key \in Keys /\ call[p].rate \in Nat /\ call[p].burst \in Nat
  BY DEF BaseInv, TypeOK
<1>2. /\ call[p].rate \in Rates \cup {DefaultRate}
      /\ call[p].burst \in {DefaultBurst, 2 * DefaultBurst}
      /\ changes = 0 => call[p].rate = DefaultRate /\ call[p].burst = DefaultBurst
  BY DEF BaseInv, CallsOK
<1>3. PICK r \in Nat, b \in Nat : r = call[p].rate /\ b = call[p].burst
  BY <1>1
<1>4. r <= MaxRate /\ b >= 1 /\ b <= 2 * DefaultBurst
  BY <1>2, <1>3, LimiterConstants
<1>5. Limit(p) = r + b /\ Limit(p) \in Nat /\ Limit(p) >= 1 /\ Limit(p) <= MaxLimit
  BY <1>3, <1>4, LimiterConstants DEF Limit, MaxLimit
<1> QED
  BY <1>1, <1>2, <1>3, <1>4, <1>5 DEF UsualLimit

\* An interval that ends before now keeps its count, so a check has to answer only for
\* those that end now.
LEMMA BoundKept ==
    ASSUME BaseInv, AdmissionBound, NEW k \in Keys, UNCHANGED <<algorithm, clock>>,
           \/ admits' = admits
           \/ /\ admits' = [admits EXCEPT ![k] = @ \cup {Admission(k)}]
              /\ \A a \in 0 .. clock : Within(Since(k, a) + 1, a, clock)
    PROVE  AdmissionBound'
<1>1. CASE admits' = admits
  BY <1>1 DEF AdmissionBound, Admitted, Within
<1>2. CASE /\ admits' = [admits EXCEPT ![k] = @ \cup {Admission(k)}]
           /\ \A a \in 0 .. clock : Within(Since(k, a) + 1, a, clock)
  <2> SUFFICES ASSUME NEW l \in Keys, NEW a \in Times, NEW b \in a .. clock
               PROVE  Within(Admitted(l, a, b)', a, b)
    BY DEF AdmissionBound, Within
  <2>0. /\ a \in Nat /\ b \in Nat /\ clock \in Nat /\ a <= b /\ b <= clock
        /\ Within(Admitted(l, a, b), a, b)
    BY LimiterConstants DEF BaseInv, TypeOK, Times, AdmissionBound
  <2>1. /\ Admission(k).at = clock /\ admits'[k] = admits[k] \cup {Admission(k)} /\ AdmitsOK'
        /\ \A c \in 0 .. clock : Since(k, c)' = Since(k, c) + 1
        /\ \A m \in Keys \ {k} : admits'[m] = admits[m]
    BY <1>2, NewAdmission
  <2>2. CASE l # k
    BY <2>0, <2>1, <2>2 DEF Admitted
  <2>3. CASE l = k /\ b < clock
    <3>1. {e \in admits'[k] : a <= e.at /\ e.at <= b} = {e \in admits[k] : a <= e.at /\ e.at <= b}
      BY <2>0, <2>1, <2>3
    <3>2. Admitted(k, a, b)' = Admitted(k, a, b)
      BY <3>1, Zenon DEF Admitted
    <3> QED
      BY <2>0, <2>3, <3>2
  <2>4. CASE l = k /\ b = clock
    <3>1. {e \in admits'[k] : a <= e.at /\ e.at <= clock} = {e \in admits'[k] : a <= e.at}
      BY <2>1 DEF AdmitsOK
    <3>2. Admitted(k, a, clock)' = Since(k, a)'
      BY <3>1, Zenon DEF Admitted, Since
    <3>3. Within(Since(k, a) + 1, a, clock)
      BY <1>2, <2>0
    <3>4. Admitted(k, a, clock)' = Since(k, a) + 1
      BY <2>0, <2>1, <3>2
    <3>5. Admitted(k, a, b)' = Admitted(k, a, clock)'
      BY <2>4 DEF Admitted
    <3> QED
      BY <2>4, <3>3, <3>4, <3>5
  <2> QED
    BY <2>0, <2>2, <2>3, <2>4
<1> QED
  BY <1>1, <1>2

\* getRate and getBurst keep the types.
LEMMA ReadsKeepBase ==
    ASSUME BaseInv, NEW p \in Callers, getBurst(p) \/ \E k \in Keys : getRate(p, k)
    PROVE  BaseInv'
<1>1. call \in [Callers -> LimiterCall] /\ pc \in [Callers -> {"idle", "burst", "check"}]
  BY DEF BaseInv, TypeOK, LimiterCall
<1>2. /\ UNCHANGED <<algorithm, clock, rate, premium, stateVars, admits, promise, changes>>
      /\ \E s \in {"burst", "check"} : pc' = [pc EXCEPT ![p] = s]
  BY DEF getRate, getBurst
<1>3. pc' \in [Callers -> {"idle", "burst", "check"}]
  BY <1>1, <1>2
<1>4. call' \in [Callers -> LimiterCall] /\ CallsOK'
  <2>1. CASE getBurst(p)
    <3>1. PICK c \in LimiterCall : c = call[p]
      BY <1>1
    <3>h. PICK high \in premium[c.key] : call' = [call EXCEPT ![p].burst = Burst(high)]
      BY <2>1, <3>1 DEF getBurst
    <3>k. c.key \in Keys /\ (changes = 0 => ~high)
      BY DEF BaseInv, CallsOK, LimiterCall
    <3>2. PICK n \in Nat : n = Burst(high) /\ n \in {DefaultBurst, 2 * DefaultBurst}
                           /\ (changes = 0 => n = DefaultBurst)
      BY <3>k, LimiterConstants DEF Burst
    <3>3. PICK d \in LimiterCall : d = [c EXCEPT !.burst = n] /\ d.rate = c.rate /\ d.burst = n
      <4>1. /\ [c EXCEPT !.burst = n] \in LimiterCall /\ [c EXCEPT !.burst = n].rate = c.rate
            /\ [c EXCEPT !.burst = n].burst = n
        BY DEF LimiterCall
      <4> QED
        BY <4>1
    <3>4. call' = [call EXCEPT ![p] = d]
      BY <1>1, <3>1, <3>2, <3>3, <3>h
    <3>5. call' \in [Callers -> LimiterCall]
      BY <1>1, <3>4
    <3>6. CallsOK'
      BY <1>1, <1>2, <2>1, <3>1, <3>2, <3>3, <3>4 DEF BaseInv, CallsOK, getBurst
    <3> QED
      BY <3>5, <3>6
  <2>2. CASE \E k \in Keys : getRate(p, k)
    <3>0. PICK k \in Keys : getRate(p, k)
      BY <2>2
    <3>1. PICK r \in Nat : r = rate[k] /\ r \in Rates \cup {DefaultRate} /\ (changes = 0 => r = DefaultRate)
      BY LimiterConstants DEF BaseInv, TypeOK, CallsOK
    <3>3. PICK d \in LimiterCall : d = [key |-> k, rate |-> r, burst |-> 0] /\ d.rate = r
      <4>1. [key |-> k, rate |-> r, burst |-> 0] \in LimiterCall
        BY DEF LimiterCall
      <4> QED
        BY <4>1
    <3>4. call' = [call EXCEPT ![p] = d] /\ pc' = [pc EXCEPT ![p] = "burst"]
      BY <3>0, <3>1, <3>3 DEF getRate
    <3>5. call' \in [Callers -> LimiterCall]
      BY <1>1, <3>4
    <3>6. CallsOK'
      BY <1>1, <1>2, <3>1, <3>3, <3>4 DEF BaseInv, CallsOK
    <3> QED
      BY <3>5, <3>6
  <2> QED
    BY <2>1, <2>2
<1> QED
  BY <1>2, <1>3, <1>4 DEF BaseInv, TypeOK, AdmitsOK, stateVars, LimiterCall

\* SetRateLimit and SetPriority keep the types, and make every promise void.
LEMMA LimitsKeepBase ==
    ASSUME BaseInv, NEW k \in Keys,
           (\E r \in Rates : SetRateLimit(k, r)) \/ SetPriority(k)
    PROVE  /\ BaseInv' /\ changes' > 0 /\ \A l \in Keys : promise'[l] > MaxTime
           /\ UNCHANGED <<algorithm, clock, pc, call, stateVars, admits>>
<1>1. /\ UNCHANGED <<algorithm, clock, pc, call, stateVars, admits>>
      /\ changes < MaxChanges /\ changes' = changes + 1
      /\ promise' = [l \in Keys |-> MaxTime + 1]
  BY DEF SetRateLimit, SetPriority
<1>2. rate' \in [Keys -> Rates \cup {DefaultRate}] /\ premium' \in [Keys -> {{FALSE}, {TRUE}, BOOLEAN}]
  <2>1. rate \in [Keys -> Rates \cup {DefaultRate}] /\ premium \in [Keys -> {{FALSE}, {TRUE}, BOOLEAN}]
    BY DEF BaseInv, TypeOK
  <2>2. CASE \E r \in Rates : SetRateLimit(k, r)
    BY <2>1, <2>2 DEF SetRateLimit
  <2>3. CASE SetPriority(k)
    BY <2>1, <2>3, Zenon DEF SetPriority
  <2> QED
    BY <2>2, <2>3
<1>3. changes' \in 0 .. MaxChanges /\ changes' > 0
  BY <1>1, LimiterAssumption DEF BaseInv, TypeOK
<1>4. promise' \in [Keys -> Nat] /\ \A l \in Keys : promise'[l] > MaxTime
  BY <1>1, LimiterConstants
<1>5. CallsOK'
  <2>1. changes' # 0
    BY <1>3
  <2>2. \A p \in Callers :
          /\ pc'[p] # "idle" => call'[p].rate \in Rates \cup {DefaultRate}
          /\ pc'[p] = "check" => call'[p].burst \in {DefaultBurst, 2 * DefaultBurst}
    BY <1>1, Zenon DEF BaseInv, CallsOK
  <2> QED
    BY <2>1, <2>2, Zenon DEF CallsOK
<1> QED
  BY <1>1, <1>2, <1>3, <1>4, <1>5 DEF BaseInv, TypeOK, AdmitsOK, stateVars

\* The write of SetPriority ends: what getBurst may see is one value again.
LEMMA WriteEnds ==
    ASSUME BaseInv, NEW k \in Keys, NEW high \in BOOLEAN, SetPriorityDone(k, high)
    PROVE  /\ BaseInv'
           /\ UNCHANGED <<algorithm, clock, pc, call, stateVars, admits, promise, changes>>
<1>1. /\ UNCHANGED <<algorithm, clock, rate, pc, call, stateVars, admits, promise, changes>>
      /\ premium[k] = BOOLEAN /\ premium' = [premium EXCEPT ![k] = {high}]
  BY DEF SetPriorityDone
<1>2. premium' \in [Keys -> {{FALSE}, {TRUE}, BOOLEAN}]
  <2>1. {high} \in {{FALSE}, {TRUE}, BOOLEAN}
    BY Zenon
  <2>2. premium \in [Keys -> {{FALSE}, {TRUE}, BOOLEAN}]
    BY DEF BaseInv, TypeOK
  <2> QED
    BY <1>1, <2>1, <2>2
<1>3. changes # 0
  <2>1. changes = 0 => premium[k] = {FALSE}
    BY DEF BaseInv, CallsOK
  <2>2. TRUE \in BOOLEAN /\ TRUE \notin {FALSE}
    OBVIOUS
  <2> QED
    BY <1>1, <2>1, <2>2
<1>4. CallsOK'
  BY <1>1, <1>3 DEF BaseInv, CallsOK
<1> QED
  BY <1>1, <1>2, <1>4 DEF BaseInv, TypeOK, AdmitsOK, stateVars

\* The clock keeps the types.
LEMMA TickKeepsBase ==
    ASSUME BaseInv, Tick
    PROVE  /\ BaseInv' /\ clock' = clock + 1 /\ clock' \in Times
           /\ UNCHANGED <<algorithm, rate, premium, pc, call, stateVars, admits, promise, changes>>
<1>1. /\ UNCHANGED <<algorithm, rate, premium, pc, call, stateVars, admits, promise, changes>>
      /\ clock' = clock + 1 /\ clock' \in Times /\ clock \in Nat
  BY LimiterConstants DEF Tick, BaseInv, TypeOK, Times
<1>2. TypeOK'
  BY <1>1 DEF BaseInv, TypeOK, stateVars
<1>3. AdmitsOK'
  <2>1. \A k \in Keys : \A e \in admits[k] : e.at \in Nat
    BY LimiterConstants DEF BaseInv, TypeOK, Times
  <2> QED
    BY <1>1, <2>1 DEF BaseInv, AdmitsOK
<1>4. CallsOK'
  BY <1>1 DEF BaseInv, CallsOK
<1>5. \A k \in Keys : tokens[k].last \in Nat /\ leaky[k].last \in Nat
  BY LimiterConstants DEF BaseInv, TypeOK, Times, Buckets
<1> QED
  BY <1>1, <1>2, <1>3, <1>4, <1>5 DEF BaseInv, stateVars

NoWindow == [ts |-> 0, count |-> 0]

\* cleanup keeps the types, and empties windows and buckets as its conditions say.
LEMMA CleanupKeepsBase ==
    ASSUME BaseInv, cleanup
    PROVE  /\ BaseInv'
           /\ UNCHANGED <<algorithm, clock, rate, premium, pc, call, admits, promise, changes>>
           /\ \A k \in Keys :
                /\ \A w \in Times : fixed'[k][w] = IF clock - fixed[k][w].ts > 2 * Second
                                                  THEN NoWindow ELSE fixed[k][w]
                /\ sliding'[k] = Valid(sliding[k], 2 * Second)
                /\ tokens'[k] = IF clock - tokens[k].last > 2 * CleanupTick THEN NoBucket ELSE tokens[k]
                /\ leaky'[k] = IF clock - leaky[k].last > 2 * CleanupTick /\ leaky[k].level = 0
                               THEN NoBucket ELSE leaky[k]
<1>1. /\ UNCHANGED <<algorithm, clock, rate, premium, pc, call, admits, promise, changes>>
      /\ \A k \in Keys :
            /\ \A w \in Times : fixed'[k][w] = IF clock - fixed[k][w].ts > 2 * Second
                                              THEN NoWindow ELSE fixed[k][w]
            /\ sliding'[k] = Valid(sliding[k], 2 * Second)
            /\ tokens'[k] = IF clock - tokens[k].last > 2 * CleanupTick THEN NoBucket ELSE tokens[k]
            /\ leaky'[k] = IF clock - leaky[k].last > 2 * CleanupTick /\ leaky[k].level = 0
                           THEN NoBucket ELSE leaky[k]
  BY DEF cleanup, NoWindow
<1>2. /\ 0 \in Times /\ NoWindow \in [ts : Times, count : Nat]
      /\ NoBucket \in Buckets /\ NoBucket.level <= NoBucket.capacity /\ NoBucket.last = 0
  BY LimiterConstants DEF NoWindow, NoBucket, Buckets, Times
<1>3. fixed' \in [Keys -> [Times -> [ts : Times, count : Nat]]]
  <2>1. fixed \in [Keys -> [Times -> [ts : Times, count : Nat]]]
    BY DEF BaseInv, TypeOK
  <2>2. \A k \in Keys, w \in Times : fixed'[k][w] \in [ts : Times, count : Nat]
    BY <1>1, <1>2, <2>1, ZenonT(40)
  <2>3. fixed' = [k \in Keys |-> [w \in Times |-> fixed'[k][w]]]
    BY DEF cleanup
  <2> QED
    BY <2>2, <2>3
<1>4. sliding' \in [Keys -> SUBSET [at : Times, nth : Nat]]
  BY DEF cleanup, BaseInv, TypeOK, Valid
<1>5. tokens' \in [Keys -> Buckets] /\ leaky' \in [Keys -> Buckets]
  BY <1>2 DEF cleanup, BaseInv, TypeOK
<1>6. \A k \in Keys : /\ tokens'[k].level <= tokens'[k].capacity /\ leaky'[k].level <= leaky'[k].capacity
                       /\ tokens'[k].last <= clock /\ leaky'[k].last <= clock
  <2> SUFFICES ASSUME NEW k \in Keys
               PROVE  /\ tokens'[k].level <= tokens'[k].capacity /\ leaky'[k].level <= leaky'[k].capacity
                      /\ tokens'[k].last <= clock /\ leaky'[k].last <= clock
    OBVIOUS
  <2>1. /\ tokens[k].level <= tokens[k].capacity /\ leaky[k].level <= leaky[k].capacity
        /\ tokens[k].last <= clock /\ leaky[k].last <= clock /\ NoBucket.last <= clock
    BY <1>2, LimiterConstants DEF BaseInv, TypeOK, Times
  <2>2. tokens'[k] \in {NoBucket, tokens[k]} /\ leaky'[k] \in {NoBucket, leaky[k]}
    BY <1>1
  <2> QED
    BY <1>2, <2>1, <2>2
<1>7. TypeOK'
  BY <1>1, <1>3, <1>4, <1>5, <1>6 DEF BaseInv, TypeOK
<1>8. AdmitsOK' /\ CallsOK'
  BY <1>1 DEF BaseInv, AdmitsOK, CallsOK
<1> QED
  BY <1>1, <1>6, <1>7, <1>8 DEF BaseInv

\* A longer interval allows more, and every interval allows none at all.
LEMMA WithinLonger ==
    ASSUME BaseInv, NEW n \in Nat, NEW a \in Nat, NEW b \in Nat, a <= b, Within(n, a, b)
    PROVE  Within(n, a, b + 1) /\ Within(0, a, b)
<1>0. PICK l \in Nat \ {0} : l = LeakTime(MaxRate)
  BY FastestLeak
<1>1. (b - a + l - 1) \div l <= (b + 1 - a + l - 1) \div l
      /\ (b - a + l - 1) \div l \in Nat /\ (b + 1 - a + l - 1) \div l \in Nat
  <2>1. b - a + l - 1 \in Nat /\ b + 1 - a + l - 1 \in Nat /\ b - a + l - 1 <= b + 1 - a + l - 1
    OBVIOUS
  <2> QED
    BY <2>1, DivMono, DivBounds
<1>2. (b - a) * MaxRate <= (b + 1 - a) * MaxRate /\ (b - a) * MaxRate \in Nat
      /\ (b + 1 - a) * MaxRate \in Nat
  <2>1. MaxRate * (b - a) <= MaxRate * (b + 1 - a)
    BY MulMono, LimiterConstants
  <2> QED
    BY <2>1, LimiterConstants
<1>3. ASSUME a \div Second = (b + 1) \div Second PROVE a \div Second = b \div Second
  <2>1. /\ a \div Second <= b \div Second /\ b \div Second <= (b + 1) \div Second
        /\ a \div Second \in Nat /\ b \div Second \in Nat /\ (b + 1) \div Second \in Nat
    BY DivMono, DivBounds, LimiterConstants
  <2> QED
    BY <1>3, <2>1
<1>4. n * Second \in Nat /\ 2 * DefaultBurst * Second \in Nat /\ MaxLimit \in Nat /\ 0 * Second = 0
  BY LimiterConstants
<1>5. Within(n, a, b + 1)
  BY <1>0, <1>1, <1>2, <1>3, <1>4, LimiterConstants DEF Within
<1>6. Within(0, a, b)
  BY <1>0, <1>1, <1>2, <1>4, LimiterConstants DEF Within
<1> QED
  BY <1>5, <1>6

\* As time passes no call is admitted, so every interval stays within its bound.
LEMMA TickBound ==
    ASSUME BaseInv, AdmissionBound, Tick
    PROVE  AdmissionBound'
<1>1. /\ BaseInv' /\ clock' = clock + 1 /\ clock \in Nat /\ clock' \in Nat
      /\ UNCHANGED <<algorithm, admits>>
  <2>1. clock \in Nat
    BY LimiterConstants DEF BaseInv, TypeOK, Times
  <2> QED
    BY <2>1, TickKeepsBase
<1> SUFFICES ASSUME NEW k \in Keys, NEW a \in Times, NEW b \in a .. clock'
             PROVE  Within(Admitted(k, a, b), a, b)'
  BY Zenon DEF AdmissionBound
<1> SUFFICES Within(Admitted(k, a, b), a, b)
  <2>1. Admitted(k, a, b)' = Admitted(k, a, b)
    BY <1>1 DEF Admitted
  <2> QED
    BY <1>1, <2>1, Zenon DEF Within
<1>2. a \in Nat /\ b \in Nat /\ a <= b
  BY LimiterConstants DEF Times
<1>3. /\ \A e \in admits[k] : e.at \in Nat /\ e.at <= clock
      /\ IsFiniteSet(admits[k])
  BY LimiterConstants DEF BaseInv, TypeOK, AdmitsOK, Times
<1>4. CASE b <= clock
  BY <1>1, <1>2, <1>4 DEF AdmissionBound
<1>5. CASE b = clock + 1 /\ a <= clock
  <2>1. {e \in admits[k] : a <= e.at /\ e.at <= b} = {e \in admits[k] : a <= e.at /\ e.at <= clock}
    BY <1>1, <1>2, <1>3, <1>5
  <2>2. Admitted(k, a, b) = Admitted(k, a, clock)
    BY <2>1, Zenon DEF Admitted
  <2>3. Admitted(k, a, clock) \in Nat /\ Within(Admitted(k, a, clock), a, clock)
    BY <1>1, <1>2, <1>5, SinceNow DEF AdmissionBound
  <2> QED
    BY <1>1, <1>2, <1>5, <2>2, <2>3, WithinLonger
<1>6. CASE b = clock + 1 /\ a = clock + 1
  <2>1. {e \in admits[k] : a <= e.at /\ e.at <= b} = {}
    BY <1>1, <1>2, <1>3, <1>6
  <2>2. Admitted(k, a, b) = 0
    BY <2>1, FS_EmptySet DEF Admitted
  <2>3. Within(0, a, a)
    <3>0. PICK l \in Nat \ {0} : l = LeakTime(MaxRate)
      BY FastestLeak
    <3>1. (a - a + l - 1) \div l \in Nat
      <4>1. a - a + l - 1 \in Nat
        BY <1>2
      <4> QED
        BY <4>1, DivBounds
    <3>2. /\ (a - a) * MaxRate = 0 /\ 0 * Second = 0 /\ 2 * DefaultBurst * Second \in Nat
          /\ MaxLimit \in Nat
      BY <1>2, LimiterConstants
    <3> QED
      BY <3>0, <3>1, <3>2, LimiterConstants DEF Within
  <2> QED
    BY <1>6, <2>2, <2>3
<1> QED
  BY <1>1, <1>2, <1>4, <1>5, <1>6

\* Steps that admit nobody keep the bound.
LEMMA SameBound ==
    ASSUME AdmissionBound, UNCHANGED <<algorithm, clock, admits>>
    PROVE  AdmissionBound'
BY DEF AdmissionBound, Within, Admitted

-----------------------------------------------------------------------------
(* The fixed window                                                        *)

Windows == [ts : Times, count : Nat]

\* The calls of k admitted in the calendar second of the clock
ThisSecond(k) == {e \in admits[k] : e.at \div Second = clock \div Second}

FixedOK(k) ==
    /\ \A w \in Times :
          fixed[k][w].count > 0 => /\ fixed[k][w].ts <= clock /\ fixed[k][w].ts \div Second = w
                                   /\ promise[k] <= MaxTime => promise[k] >= fixed[k][w].ts + Second
    /\ Cardinality(ThisSecond(k)) <= fixed[k][clock \div Second].count

FixedPart == algorithm = "fixed_window" => \A k \in Keys : FixedOK(k)

\* The calendar second of a time.
LEMMA SecondOfTime ==
    ASSUME NEW t \in Times
    PROVE  t \div Second \in Times /\ t \in Nat /\ t <= MaxTime
<1>1. t \in Nat /\ t <= MaxTime
  BY LimiterConstants DEF Times
<1>2. t \div Second \in Nat /\ t \div Second <= t
  BY <1>1, DivBounds, DivSelf, LimiterConstants
<1> QED
  BY <1>1, <1>2, LimiterConstants DEF Times

\* The entries of rl.fixedWindows have their types.
LEMMA WindowTypes ==
    ASSUME BaseInv
    PROVE  /\ fixed \in [Keys -> [Times -> Windows]]
           /\ \A k \in Keys, w \in Times : fixed[k][w].count \in Nat /\ fixed[k][w].ts \in Nat
<1>1. fixed \in [Keys -> [Times -> Windows]]
  BY DEF BaseInv, TypeOK, Windows
<1>2. \A x \in Windows : x.ts \in Nat /\ x.count \in Nat
  BY LimiterConstants DEF Windows, Times
<1> QED
  BY <1>1, <1>2

\* checkFixedWindow: the count of a second covers the calls admitted in it, and a call
\* in a second that has no entry yet is always admitted.
LEMMA FixedCheck ==
    ASSUME BaseInv, FixedPart, AdmissionBound, NEW p \in Callers, checkFixedWindow(p)
    PROVE  /\ BaseInv' /\ FixedPart' /\ AdmissionBound' /\ algorithm' = "fixed_window"
           /\ promise[call[p].key] <= clock => admits'[call[p].key] # admits[call[p].key]
<1> DEFINE w == clock \div Second
<1>0. PICK k \in Keys : k = call[p].key
  BY DEF BaseInv, TypeOK
<1>1. /\ w \in Times /\ clock \in Times /\ clock \in Nat /\ clock <= MaxTime
      /\ Second \in Nat /\ Second >= 1 /\ MaxTime \in Nat
  <2>1. clock \in Times
    BY DEF BaseInv, TypeOK
  <2> QED
    BY <2>1, SecondOfTime, LimiterConstants
<1>2. PICK e \in Windows : e = fixed[k][w]
  BY <1>1 DEF BaseInv, TypeOK, Windows
<1>3. e.count \in Nat /\ e.ts \in Nat
  BY LimiterConstants, SMTT(30) DEF Windows, Times
<1>4. /\ pc[p] = "check" /\ algorithm = "fixed_window"
      /\ UNCHANGED <<algorithm, clock, rate, premium, sliding, tokens, leaky, changes>>
  BY DEF checkFixedWindow
<1>5. FixedOK(k) /\ (e.count > 0 => clock - e.ts < Second /\ e.ts <= clock)
  <2>1. FixedOK(k)
    BY <1>4 DEF FixedPart
  <2>2. ASSUME e.count > 0 PROVE clock - e.ts < Second /\ e.ts <= clock
    <3>1. e.ts <= clock /\ e.ts \div Second = clock \div Second
      BY <1>1, <1>2, <2>1, <2>2 DEF FixedOK
    <3> QED
      BY <1>1, <1>3, <3>1, DivSame
  <2> QED
    BY <2>1, <2>2
<1>6. PICK limit \in Nat : limit = Limit(p) /\ limit <= MaxLimit /\ MaxLimit \in Nat
  BY <1>4, LimitRead, LimiterConstants
<1>7. PICK allowed \in BOOLEAN :
         allowed = ((e.count = 0 \/ clock - e.ts > Second) \/ e.count + 1 <= limit)
  BY Zenon
<1>7a. allowed <=> (e.count = 0 \/ e.count + 1 <= limit)
  <2>1. clock - e.ts > Second => e.count = 0
    BY <1>1, <1>3, <1>5
  <2> QED
    BY <1>7, <2>1, Zenon
<1>8. Answer(p, allowed, clock + Second)
  BY <1>0, <1>2, <1>6, <1>7, Zenon DEF checkFixedWindow, FixedFits
<1>9. PICK f \in Windows :
         /\ fixed' = [fixed EXCEPT ![k][w] = f] /\ f.count = e.count + 1
         /\ f.ts = IF e.count = 0 THEN clock ELSE e.ts
  <2>1. fixed' = [fixed EXCEPT ![k][w] = IF e.count = 0 \/ clock - e.ts > Second
                                         THEN [ts |-> clock, count |-> 1]
                                         ELSE [e EXCEPT !.count = @ + 1]]
    BY <1>0, <1>2 DEF checkFixedWindow
  <2>2. CASE e.count = 0
    <3>1. [ts |-> clock, count |-> 1] \in Windows
      BY <1>1 DEF Windows
    <3>2. PICK f \in Windows : f = [ts |-> clock, count |-> 1] /\ f.count = 1 /\ f.ts = clock
      BY <3>1
    <3>3. fixed' = [fixed EXCEPT ![k][w] = f]
      BY <2>1, <2>2, <3>2
    <3>4. f.count = e.count + 1 /\ f.ts = IF e.count = 0 THEN clock ELSE e.ts
      BY <2>2, <3>2
    <3> QED
      BY <3>3, <3>4, Zenon
  <2>3. CASE e.count > 0
    <3>1. [e EXCEPT !.count = @ + 1] \in Windows /\ [e EXCEPT !.count = @ + 1].count = e.count + 1
          /\ [e EXCEPT !.count = @ + 1].ts = e.ts
      BY DEF Windows
    <3>2. ~(e.count = 0 \/ clock - e.ts > Second)
      BY <1>1, <1>3, <1>5, <2>3
    <3> QED
      BY <2>1, <2>3, <3>1, <3>2
  <2> QED
    BY <1>3, <2>2, <2>3, SMTT(30)
<1>10. AnsweredOK(p, k, allowed, clock + Second)
  <2>1. clock + Second \in Nat /\ UNCHANGED <<algorithm, clock, rate, premium, changes>>
    BY <1>1, <1>4
  <2> QED
    BY <1>0, <1>4, <1>8, <2>1, Answered, Zenon
<1>11. fixed' \in [Keys -> [Times -> Windows]] /\ fixed'[k][w] = f
       /\ \A l \in Keys, v \in Times : (l # k \/ v # w) => fixed'[l][v] = fixed[l][v]
  <2>1. fixed \in [Keys -> [Times -> Windows]]
    BY DEF BaseInv, TypeOK, Windows
  <2> QED
    BY <1>1, <1>9, <2>1
<1>12. BaseInv'
  <2>1. TypeOK'
    BY <1>4, <1>10, <1>11 DEF BaseInv, TypeOK, Windows, Entries, LimiterCall, AnsweredOK
  <2> QED
    BY <1>4, <1>10, <2>1 DEF BaseInv, AnsweredOK
<1>13. /\ IsFiniteSet(ThisSecond(k)) /\ Cardinality(ThisSecond(k)) \in Nat
       /\ Cardinality(ThisSecond(k)) <= e.count
       /\ IsFiniteSet(ThisSecond(k)')
       /\ Cardinality(ThisSecond(k)') <= e.count + 1
       /\ ~allowed => Cardinality(ThisSecond(k)') <= e.count
  <2>1. IsFiniteSet(ThisSecond(k)) /\ Cardinality(ThisSecond(k)) \in Nat
    <3>1. IsFiniteSet(admits[k]) /\ ThisSecond(k) \subseteq admits[k]
      BY DEF BaseInv, AdmitsOK, ThisSecond
    <3> QED
      BY <3>1, FS_Subset, FS_CardinalityType
  <2>2. Cardinality(ThisSecond(k)) <= e.count
    BY <1>2, <1>5 DEF FixedOK
  <2>3. CASE allowed
    <3>1. admits'[k] = admits[k] \cup {Admission(k)} /\ clock' = clock /\ Admission(k).at = clock
      <4>1. admits' = [admits EXCEPT ![k] = @ \cup {Admission(k)}]
        BY <1>10, <2>3 DEF AnsweredOK
      <4> QED
        BY <1>4, <4>1, NewAdmission
    <3>2. ThisSecond(k)' = ThisSecond(k) \cup {Admission(k)}
      BY <3>1 DEF ThisSecond
    <3>3. IsFiniteSet(ThisSecond(k)') /\ Cardinality(ThisSecond(k)') <= Cardinality(ThisSecond(k)) + 1
      <4>1. PICK n \in Nat : n = Cardinality(ThisSecond(k))
        BY <2>1
      <4>2. /\ IsFiniteSet(ThisSecond(k) \cup {Admission(k)})
            /\ Cardinality(ThisSecond(k) \cup {Admission(k)}) =
                 IF Admission(k) \in ThisSecond(k) THEN n ELSE n + 1
        BY <2>1, <4>1, FS_AddElement, Zenon
      <4> QED
        BY <3>2, <4>1, <4>2
    <3> QED
      BY <1>3, <2>1, <2>2, <2>3, <3>3, FS_CardinalityType
  <2>4. CASE ~allowed
    <3>1. ThisSecond(k)' = ThisSecond(k)
      BY <1>4, <1>10, <2>4 DEF ThisSecond, AnsweredOK
    <3> QED
      BY <1>3, <2>1, <2>2, <2>4, <3>1
  <2> QED
    BY <2>1, <2>2, <2>3, <2>4
<1>14. FixedOK(k)'
  <2>1. Cardinality(ThisSecond(k)') <= fixed'[k][w].count
    BY <1>9, <1>11, <1>13
  <2>2. ASSUME NEW v \in Times, fixed'[k][v].count > 0
        PROVE  /\ fixed'[k][v].ts <= clock /\ fixed'[k][v].ts \div Second = v
               /\ promise'[k] <= MaxTime => promise'[k] >= fixed'[k][v].ts + Second
    <3>1. PICK t \in Nat : t = fixed'[k][v].ts
      <4>1. fixed'[k][v] \in Windows
        BY <1>11
      <4>2. \A x \in Windows : x.ts \in Nat
        BY LimiterConstants DEF Windows, Times
      <4> QED
        BY <4>1, <4>2
    <3>2. t <= clock /\ t \div Second = v
      <4>1. CASE v = w
        BY <1>1, <1>2, <1>3, <1>5, <1>9, <1>11, <3>1, <4>1 DEF FixedOK
      <4>2. CASE v # w
        BY <1>5, <1>11, <2>2, <3>1, <4>2 DEF FixedOK
      <4> QED
        BY <4>1, <4>2
    <3>3. ASSUME promise'[k] <= MaxTime PROVE promise'[k] >= t + Second
      <4>1. PICK m \in Nat : m = promise[k]
        BY DEF BaseInv, TypeOK
      <4>2. ~allowed /\ promise'[k] = IF clock + Second <= m THEN clock + Second ELSE m
        BY <1>1, <1>10, <3>3, <4>1 DEF AnsweredOK
      <4>3. e.count > 0 /\ t = fixed[k][v].ts /\ fixed[k][v].count > 0
        <5>1. e.count > 0
          BY <1>3, <1>7a, <4>2
        <5> QED
          BY <1>2, <1>9, <1>11, <2>2, <3>1, <5>1
      <4>4. m <= MaxTime => m >= t + Second
        BY <1>5, <4>1, <4>3 DEF FixedOK
      <4> QED
        BY <1>1, <3>2, <3>3, <4>2, <4>4
    <3> QED
      BY <3>1, <3>2, <3>3
  <2> QED
    BY <1>4, <2>1, <2>2 DEF FixedOK
<1>15. ASSUME NEW l \in Keys, l # k PROVE FixedOK(l)'
  <2>1. FixedOK(l)
    BY <1>4 DEF FixedPart
  <2>2. \A v \in Times : fixed'[l][v] = fixed[l][v]
    BY <1>11, <1>15
  <2>3. promise'[l] = promise[l] /\ admits'[l] = admits[l] /\ clock' = clock
    BY <1>4, <1>10, <1>15 DEF AnsweredOK
  <2> QED
    BY <1>1, <2>1, <2>2, <2>3 DEF FixedOK, ThisSecond
<1>16. AdmissionBound'
  <2>1. CASE ~allowed
    <3>1. admits' = admits
      BY <1>10, <2>1 DEF AnsweredOK
    <3> QED
      BY <1>4, <3>1, SameBound
  <2>2. CASE allowed
    <3>1. ASSUME NEW a \in 0 .. clock PROVE Within(Since(k, a) + 1, a, clock)
      <4>1. ASSUME a \div Second = clock \div Second PROVE Since(k, a) + 1 <= MaxLimit
        <5>1. {x \in admits[k] : a <= x.at} \subseteq ThisSecond(k)
          <6> SUFFICES ASSUME NEW x \in admits[k], a <= x.at PROVE x.at \div Second = clock \div Second
            BY DEF ThisSecond
          <6>1. x.at \in Nat /\ x.at <= clock
            BY LimiterConstants DEF BaseInv, TypeOK, AdmitsOK, Times
          <6>2. /\ a \div Second <= x.at \div Second /\ x.at \div Second <= clock \div Second
                /\ a \div Second \in Nat /\ x.at \div Second \in Nat /\ clock \div Second \in Nat
            <7>1. a \in Nat /\ Second \in Nat \ {0}
              BY <1>1
            <7> QED
              BY <1>1, <6>1, <7>1, DivMono, DivBounds
          <6> QED
            BY <4>1, <6>2
        <5>2. Since(k, a) <= Cardinality(ThisSecond(k)) /\ Since(k, a) \in Nat
          BY <1>13, <5>1, FS_Subset, FS_CardinalityType DEF Since
        <5>3. e.count = 0 \/ e.count + 1 <= limit
          BY <1>7a, <2>2
        <5>4. MaxLimit >= 1
          BY LimiterConstants
        <5> QED
          BY <1>3, <1>6, <1>13, <5>2, <5>3, <5>4
      <4> QED
        BY <1>4, <4>1 DEF Within
    <3>2. admits' = [admits EXCEPT ![k] = @ \cup {Admission(k)}] /\ UNCHANGED <<algorithm, clock>>
      BY <1>4, <1>10, <2>2 DEF AnsweredOK
    <3> QED
      BY <3>1, <3>2, BoundKept
  <2> QED
    BY <2>1, <2>2
<1>17. ASSUME promise[k] <= clock PROVE admits'[k] # admits[k]
  <2>1. e.count = 0
    <3> SUFFICES ASSUME e.count > 0 PROVE FALSE
      BY <1>3
    <3>1. PICK m \in Nat : m = promise[k]
      BY DEF BaseInv, TypeOK
    <3>2. m <= MaxTime => m >= e.ts + Second
      BY <1>1, <1>2, <1>5, <3>1 DEF FixedOK
    <3> QED
      BY <1>1, <1>3, <1>5, <1>17, <3>1, <3>2
  <2> QED
    BY <1>7a, <1>10, <2>1 DEF AnsweredOK
<1> QED
  BY <1>0, <1>4, <1>12, <1>14, <1>15, <1>16, <1>17 DEF FixedPart

\* A new second begins with no calls admitted in it.
LEMMA FixedTick ==
    ASSUME BaseInv, FixedPart, Tick
    PROVE  FixedPart'
<1>1. /\ BaseInv' /\ clock' = clock + 1 /\ UNCHANGED <<algorithm, fixed, admits, promise>>
  BY TickKeepsBase DEF stateVars
<1> SUFFICES ASSUME NEW k \in Keys, FixedOK(k) PROVE FixedOK(k)'
  BY <1>1 DEF FixedPart
<1>2. /\ clock \in Nat /\ clock \div Second \in Times /\ clock' \div Second \in Times /\ clock' \in Nat
      /\ Second \in Nat \ {0}
  <2>1. clock \in Times /\ clock' \in Times
    BY <1>1 DEF BaseInv, TypeOK
  <2> QED
    BY <2>1, SecondOfTime, LimiterConstants
<1>3. \A w \in Times : fixed[k][w].count \in Nat /\ fixed[k][w].ts \in Nat
  BY WindowTypes
<1>4. \A w \in Times :
          fixed'[k][w].count > 0 =>
             /\ fixed'[k][w].ts <= clock' /\ fixed'[k][w].ts \div Second = w
             /\ promise'[k] <= MaxTime => promise'[k] >= fixed'[k][w].ts + Second
  BY <1>1, <1>2, <1>3 DEF FixedOK
<1>5. Cardinality(ThisSecond(k)') <= fixed'[k][clock' \div Second].count
  <2>1. CASE clock' \div Second = clock \div Second
    <3>1. ThisSecond(k)' = ThisSecond(k)
      BY <1>1, <2>1 DEF ThisSecond
    <3> QED
      BY <1>1, <2>1, <3>1 DEF FixedOK
  <2>2. CASE clock' \div Second # clock \div Second
    <3>1. clock \div Second < clock' \div Second
      <4>1. clock \div Second <= clock' \div Second /\ clock \div Second \in Nat /\ clock' \div Second \in Nat
        BY <1>1, <1>2, DivMono, DivBounds
      <4> QED
        BY <2>2, <4>1
    <3>2. ASSUME NEW e \in admits[k] PROVE e.at \div Second # clock' \div Second
      <4>1. e.at \in Nat /\ e.at <= clock
        BY LimiterConstants DEF BaseInv, TypeOK, AdmitsOK, Times
      <4>2. e.at \div Second <= clock \div Second /\ e.at \div Second \in Nat
            /\ clock \div Second \in Nat /\ clock' \div Second \in Nat
        BY <1>2, <4>1, DivMono, DivBounds
      <4> QED
        BY <3>1, <4>2
    <3>3. ThisSecond(k)' = {}
      BY <1>1, <3>2 DEF ThisSecond
    <3>4. Cardinality(ThisSecond(k)') = 0
      BY <3>3, FS_EmptySet
    <3> QED
      BY <1>1, <1>2, <1>3, <3>4
  <2> QED
    BY <2>1, <2>2
<1> QED
  BY <1>4, <1>5 DEF FixedOK

\* cleanup drops no window of the current second.
LEMMA FixedCleanup ==
    ASSUME BaseInv, FixedPart, cleanup
    PROVE  FixedPart'
<1>1. /\ UNCHANGED <<algorithm, clock, admits, promise>>
      /\ \A k \in Keys : \A w \in Times :
            fixed'[k][w] = IF clock - fixed[k][w].ts > 2 * Second THEN NoWindow ELSE fixed[k][w]
  BY CleanupKeepsBase
<1> SUFFICES ASSUME NEW k \in Keys, FixedOK(k) PROVE FixedOK(k)'
  BY <1>1 DEF FixedPart
<1>2. /\ clock \in Nat /\ clock \div Second \in Times /\ Second \in Nat \ {0}
      /\ \A w \in Times : fixed[k][w].count \in Nat /\ fixed[k][w].ts \in Nat
  <2>1. clock \in Times
    BY DEF BaseInv, TypeOK
  <2> QED
    BY <2>1, SecondOfTime, WindowTypes, LimiterConstants
<1>3. NoWindow.count = 0
  BY DEF NoWindow
<1>4. \A w \in Times :
          fixed'[k][w].count > 0 =>
             /\ fixed'[k][w].ts <= clock' /\ fixed'[k][w].ts \div Second = w
             /\ promise'[k] <= MaxTime => promise'[k] >= fixed'[k][w].ts + Second
  <2> SUFFICES ASSUME NEW w \in Times, fixed'[k][w].count > 0
               PROVE  /\ fixed'[k][w].ts <= clock' /\ fixed'[k][w].ts \div Second = w
                      /\ promise'[k] <= MaxTime => promise'[k] >= fixed'[k][w].ts + Second
    OBVIOUS
  <2>1. fixed'[k][w] = fixed[k][w]
    BY <1>1, <1>3
  <2> QED
    BY <1>1, <2>1 DEF FixedOK
<1>5. Cardinality(ThisSecond(k)') <= fixed'[k][clock' \div Second].count
  <2>1. ThisSecond(k)' = ThisSecond(k)
    BY <1>1 DEF ThisSecond
  <2>2. PICK w \in Times : w = clock \div Second
    BY <1>2
  <2>3. Cardinality(ThisSecond(k)) <= fixed[k][w].count
    BY <2>2 DEF FixedOK
  <2>4. fixed'[k][w].count = fixed[k][w].count
    <3>1. CASE fixed[k][w].count = 0
      BY <1>1, <1>3, <3>1
    <3>2. CASE fixed[k][w].count > 0
      <4>1. fixed[k][w].ts \div Second = clock \div Second /\ fixed[k][w].ts \in Nat
        BY <1>2, <2>2, <3>2 DEF FixedOK
      <4>2. clock - fixed[k][w].ts < Second
        BY <1>2, <4>1, DivSame
      <4>3. ~(clock - fixed[k][w].ts > 2 * Second)
        BY <1>2, <4>1, <4>2
      <4> QED
        BY <1>1, <4>3
    <3> QED
      BY <1>2, <3>1, <3>2
  <2> QED
    BY <1>1, <2>1, <2>2, <2>3, <2>4
<1> QED
  BY <1>4, <1>5 DEF FixedOK

-----------------------------------------------------------------------------
(* The sliding window                                                      *)

\* The entries of the window of k that are younger than o
Younger(k, o) == {e \in sliding[k] : e.at > o}

SlidingOK(k) ==
    /\ sliding[k] \subseteq admits[k]
    /\ \A e \in admits[k] : e.at + Second > clock => e \in sliding[k]
    /\ changes = 0 => Cardinality(Valid(sliding[k], Second)) <= UsualLimit
    /\ promise[k] <= MaxTime =>
          \E o \in Nat : promise[k] = o + Second /\ Cardinality(Younger(k, o)) < UsualLimit

SlidingPart == algorithm = "sliding_window" => \A k \in Keys : SlidingOK(k)

\* A sliding window is finite, and none of its calls is from the future.
LEMMA SlidingFinite ==
    ASSUME BaseInv, NEW k \in Keys, SlidingOK(k)
    PROVE  /\ IsFiniteSet(sliding[k])
           /\ IsFiniteSet(Valid(sliding[k], Second))
           /\ Cardinality(Valid(sliding[k], Second)) \in Nat
           /\ \A e \in sliding[k] : e.at \in Nat /\ e.at <= clock
<1>1. IsFiniteSet(admits[k]) /\ sliding[k] \subseteq admits[k]
  BY DEF BaseInv, AdmitsOK, SlidingOK
<1>2. IsFiniteSet(sliding[k]) /\ Valid(sliding[k], Second) \subseteq sliding[k]
  BY <1>1, FS_Subset DEF Valid
<1>3. \A e \in admits[k] : e.at \in Nat /\ e.at <= clock
  BY LimiterConstants DEF BaseInv, TypeOK, AdmitsOK, Times
<1> QED
  BY <1>1, <1>2, <1>3, FS_Subset, FS_CardinalityType

\* checkSlidingWindow: the window covers the last second, and when its oldest call has
\* left, as ResetAt says, there is room.
LEMMA SlidingCheck ==
    ASSUME BaseInv, SlidingPart, AdmissionBound, NEW p \in Callers, checkSlidingWindow(p)
    PROVE  /\ BaseInv' /\ SlidingPart' /\ AdmissionBound' /\ algorithm' = "sliding_window"
           /\ promise[call[p].key] <= clock => admits'[call[p].key] # admits[call[p].key]
<1>0. /\ pc[p] = "check" /\ algorithm = "sliding_window"
      /\ UNCHANGED <<algorithm, clock, rate, premium, fixed, tokens, leaky, changes>>
  BY DEF checkSlidingWindow
<1>1. PICK k \in Keys : k = call[p].key
  BY <1>0, LimitRead
<1>2. /\ clock \in Times /\ clock \in Nat /\ clock <= MaxTime /\ MaxTime \in Nat
      /\ Second \in Nat /\ Second >= 1
  BY LimiterConstants DEF BaseInv, TypeOK, Times
<1>3. PICK limit \in Nat : /\ limit = Limit(p) /\ limit >= 1 /\ limit <= MaxLimit /\ MaxLimit \in Nat
                           /\ changes = 0 => limit = UsualLimit
  BY <1>0, LimitRead, LimiterConstants
<1>4. SlidingOK(k) /\ \A l \in Keys : SlidingOK(l)
  BY <1>0 DEF SlidingPart
<1>5. PICK valid : valid = Valid(sliding[k], Second)
  OBVIOUS
<1>6. PICK n \in Nat : n = Cardinality(valid) /\ IsFiniteSet(valid)
  BY <1>4, <1>5, SlidingFinite
<1>7. /\ valid \subseteq sliding[k] /\ valid \subseteq admits[k]
      /\ \A e \in valid : e.at \in Nat /\ e.at + Second > clock
      /\ \A e \in admits[k] : e.at \in Nat /\ e.at <= clock /\ (e.at + Second > clock => e \in valid)
  <2>1. \A e \in admits[k] : e.at \in Nat /\ e.at <= clock
    BY LimiterConstants DEF BaseInv, TypeOK, AdmitsOK, Times
  <2> QED
    BY <1>4, <1>5, <2>1 DEF SlidingOK, Valid
<1>8. PICK allowed \in BOOLEAN : allowed = ~(n >= limit)
  BY Zenon
<1>8a. (allowed => n < limit) /\ (~allowed => n >= limit)
  <2>1. allowed <=> ~(n >= limit)
    BY <1>8, Zenon
  <2> QED
    BY <2>1
<1>9. PICK resetAt \in Nat :
         /\ Answer(p, allowed, resetAt)
         /\ ~allowed => \E o \in Nat : resetAt = o + Second /\ (\E e \in valid : e.at = o)
  <2>1. Answer(p, ~(n >= limit), IF n >= limit THEN Oldest(valid) + Second ELSE clock)
    BY <1>1, <1>3, <1>5, <1>6, Zenon DEF checkSlidingWindow, SlidingFull
  <2>2. CASE n >= limit
    <3>1. {e.at : e \in valid} # {} /\ {e.at : e \in valid} \in SUBSET Nat
      <4>1. valid # {}
        BY <1>3, <1>6, <2>2, FS_EmptySet
      <4> QED
        BY <1>7, <4>1
    <3>2. Oldest(valid) \in {e.at : e \in valid}
      BY <3>1, LeastNumber, Zenon DEF Oldest
    <3>3. PICK o \in Nat : o = Oldest(valid) /\ \E e \in valid : e.at = o
      BY <1>7, <3>2
    <3>4. o + Second \in Nat /\ Answer(p, allowed, o + Second)
      BY <1>2, <1>8, <2>1, <2>2, <3>3
    <3> QED
      BY <3>3, <3>4
  <2>3. CASE ~(n >= limit)
    <3>1. Answer(p, allowed, clock) /\ allowed
      BY <1>8, <2>1, <2>3
    <3> QED
      BY <1>2, <3>1
  <2> QED
    BY <2>2, <2>3
<1>10. AnsweredOK(p, k, allowed, resetAt)
  <2>1. UNCHANGED <<algorithm, clock, rate, premium, changes>>
    BY <1>0
  <2> QED
    BY <1>0, <1>1, <1>9, <2>1, Answered, Zenon
<1>11. /\ sliding' \in [Keys -> SUBSET Entries]
       /\ sliding'[k] = IF allowed THEN valid \cup {Admission(k)} ELSE valid
       /\ \A l \in Keys \ {k} : sliding'[l] = sliding[l]
  <2>1. sliding' = [sliding EXCEPT ![k] = IF n >= limit THEN valid ELSE valid \cup {Admission(k)}]
    BY <1>1, <1>3, <1>5, <1>6 DEF checkSlidingWindow, SlidingFull
  <2>2. sliding \in [Keys -> SUBSET Entries]
    BY DEF BaseInv, TypeOK, Entries
  <2>3. Admission(k) \in Entries
    <3>1. PICK now \in Times : now = clock
      BY <1>2
    <3>2. PICK c \in Nat : c = Cardinality(admits[k])
      BY FS_CardinalityType DEF BaseInv, AdmitsOK
    <3>3. [at |-> now, nth |-> c] \in Entries
      BY DEF Entries
    <3> QED
      BY <3>1, <3>2, <3>3 DEF Admission
  <2> QED
    BY <1>7, <1>8, <2>1, <2>2, <2>3
<1>12. BaseInv'
  <2>1. TypeOK'
    BY <1>0, <1>10, <1>11 DEF BaseInv, TypeOK, Entries, LimiterCall, AnsweredOK
  <2> QED
    BY <1>0, <1>10, <2>1 DEF BaseInv, AnsweredOK
<1>13. ASSUME allowed
       PROVE  /\ admits' = [admits EXCEPT ![k] = @ \cup {Admission(k)}]
              /\ Admission(k).at = clock /\ Admission(k) \notin admits[k]
              /\ admits'[k] = admits[k] \cup {Admission(k)}
  <2>1. admits' = [admits EXCEPT ![k] = @ \cup {Admission(k)}] /\ clock' = clock
    BY <1>0, <1>10, <1>13 DEF AnsweredOK
  <2> QED
    BY <2>1, NewAdmission
<1>14. SlidingOK(k)'
  <2>0. /\ clock' = clock
        /\ admits'[k] = IF allowed THEN admits[k] \cup {Admission(k)} ELSE admits[k]
        /\ allowed => Admission(k).at = clock
    BY <1>0, <1>10, <1>13 DEF AnsweredOK
  <2>1. /\ sliding'[k] \subseteq admits'[k]
        /\ \A e \in sliding'[k] : e.at + Second > clock'
        /\ \A e \in admits'[k] : e.at + Second > clock' => e \in sliding'[k]
    BY <1>2, <1>7, <1>11, <2>0
  <2>1a. Valid(sliding[k], Second)' = sliding'[k]
    BY <2>1 DEF Valid
  <2>2. ASSUME changes = 0 PROVE Cardinality(sliding'[k]) <= UsualLimit
    <3>1. CASE allowed
      <4>1. Admission(k) \notin valid
        BY <1>7, <1>13, <3>1
      <4>2. Cardinality(sliding'[k]) = n + 1
        BY <1>6, <1>11, <3>1, <4>1, FS_AddElement
      <4> QED
        BY <1>3, <1>8a, <2>2, <3>1, <4>2
    <3>2. CASE ~allowed
      BY <1>4, <1>5, <1>11, <2>2, <3>2 DEF SlidingOK
    <3> QED
      BY <3>1, <3>2
  <2>3. ASSUME promise'[k] <= MaxTime
        PROVE  \E o \in Nat : promise'[k] = o + Second /\ Cardinality({e \in sliding'[k] : e.at > o}) < UsualLimit
    <3>1. PICK m \in Nat : m = promise[k]
      BY DEF BaseInv, TypeOK
    <3>2. /\ ~allowed /\ ~(changes > 0)
          /\ promise'[k] = IF resetAt <= m THEN resetAt ELSE m
      BY <1>2, <1>10, <2>3, <3>1 DEF AnsweredOK
    <3>3. changes = 0 /\ sliding'[k] = valid /\ limit = UsualLimit /\ n <= UsualLimit
      <4>1. changes = 0
        BY <3>2, LimiterAssumption DEF BaseInv, TypeOK
      <4> QED
        BY <1>3, <1>4, <1>5, <1>6, <1>11, <3>2, <4>1 DEF SlidingOK
    <3>4. CASE promise'[k] = resetAt
      <4>1. PICK o \in Nat : resetAt = o + Second /\ \E e \in valid : e.at = o
        BY <1>9, <3>2
      <4>2. {e \in valid : e.at > o} \subseteq valid /\ {e \in valid : e.at > o} # valid
        BY <4>1
      <4>3. /\ Cardinality({e \in valid : e.at > o}) <= n
            /\ Cardinality({e \in valid : e.at > o}) # n
            /\ Cardinality({e \in valid : e.at > o}) \in Nat
        BY <1>6, <4>2, FS_Subset, FS_CardinalityType
      <4>4. Cardinality({e \in valid : e.at > o}) < UsualLimit
        BY <1>3, <3>3, <4>3
      <4> QED
        BY <3>3, <3>4, <4>1, <4>4
    <3>5. CASE promise'[k] = m
      <4>1. PICK o \in Nat : m = o + Second /\ Cardinality(Younger(k, o)) < UsualLimit
        BY <1>4, <2>3, <3>1, <3>5 DEF SlidingOK
      <4>2. {e \in valid : e.at > o} \subseteq Younger(k, o)
        BY <1>7 DEF Younger
      <4>3. IsFiniteSet(Younger(k, o))
        <5>1. IsFiniteSet(sliding[k]) /\ Younger(k, o) \subseteq sliding[k]
          BY <1>4, SlidingFinite DEF Younger
        <5> QED
          BY <5>1, FS_Subset
      <4>4. Cardinality({e \in valid : e.at > o}) < UsualLimit
        <5>1. /\ Cardinality({e \in valid : e.at > o}) <= Cardinality(Younger(k, o))
              /\ Cardinality({e \in valid : e.at > o}) \in Nat /\ Cardinality(Younger(k, o)) \in Nat
          BY <4>2, <4>3, FS_Subset, FS_CardinalityType
        <5> QED
          BY <1>3, <3>3, <4>1, <5>1
      <4> QED
        BY <3>3, <3>5, <4>1, <4>4
    <3> QED
      BY <3>2, <3>4, <3>5
  <2> QED
    BY <1>0, <2>1, <2>1a, <2>2, <2>3 DEF SlidingOK, Younger
<1>15. ASSUME NEW l \in Keys, l # k PROVE SlidingOK(l)'
  <2>1. /\ sliding'[l] = sliding[l] /\ admits'[l] = admits[l] /\ promise'[l] = promise[l]
        /\ clock' = clock /\ changes' = changes
    BY <1>0, <1>10, <1>11, <1>15 DEF AnsweredOK
  <2> QED
    BY <1>4, <2>1 DEF SlidingOK, Younger, Valid
<1>16. AdmissionBound'
  <2>1. CASE ~allowed
    <3>1. admits' = admits
      BY <1>10, <2>1 DEF AnsweredOK
    <3> QED
      BY <1>0, <3>1, SameBound
  <2>2. CASE allowed
    <3>1. ASSUME NEW a \in 0 .. clock PROVE Within(Since(k, a) + 1, a, clock)
      <4>1. ASSUME clock - a < Second PROVE Since(k, a) + 1 <= MaxLimit
        <5>1. {x \in admits[k] : a <= x.at} \subseteq valid
          BY <1>2, <1>7, <4>1
        <5>2. Since(k, a) <= n /\ Since(k, a) \in Nat
          BY <1>6, <5>1, FS_Subset, FS_CardinalityType DEF Since
        <5> QED
          BY <1>3, <1>8a, <2>2, <5>2
      <4> QED
        BY <1>0, <4>1 DEF Within
    <3>2. admits' = [admits EXCEPT ![k] = @ \cup {Admission(k)}] /\ UNCHANGED <<algorithm, clock>>
      BY <1>0, <1>13, <2>2
    <3> QED
      BY <3>1, <3>2, BoundKept
  <2> QED
    BY <2>1, <2>2
<1>17. ASSUME promise[k] <= clock PROVE admits'[k] # admits[k]
  <2>1. PICK m \in Nat : m = promise[k] /\ m <= clock
    BY <1>17 DEF BaseInv, TypeOK
  <2>2. PICK o \in Nat : m = o + Second /\ Cardinality(Younger(k, o)) < UsualLimit
    BY <1>2, <1>4, <2>1 DEF SlidingOK
  <2>3. changes = 0
    BY <1>2, <2>1, LimiterAssumption DEF BaseInv, TypeOK
  <2>4. valid \subseteq Younger(k, o)
    BY <1>2, <1>7, <2>1, <2>2 DEF Younger
  <2>5. IsFiniteSet(Younger(k, o))
    <3>1. IsFiniteSet(sliding[k]) /\ Younger(k, o) \subseteq sliding[k]
      BY <1>4, SlidingFinite DEF Younger
    <3> QED
      BY <3>1, FS_Subset
  <2>6. n <= Cardinality(Younger(k, o)) /\ Cardinality(Younger(k, o)) \in Nat
    BY <1>6, <2>4, <2>5, FS_Subset, FS_CardinalityType
  <2>7. n < limit
    BY <1>3, <2>2, <2>3, <2>6
  <2>8. allowed
    BY <1>3, <1>8a, <2>7
  <2> QED
    BY <1>10, <2>8 DEF AnsweredOK
<1> QED
  BY <1>0, <1>1, <1>12, <1>14, <1>15, <1>16, <1>17 DEF SlidingPart

\* A window that loses calls older than a second keeps what SlidingOK says of it.
LEMMA SlidingShrinks ==
    ASSUME BaseInv, BaseInv', NEW k \in Keys, SlidingOK(k), UNCHANGED <<admits, promise, changes>>,
           clock <= clock', sliding'[k] \subseteq sliding[k],
           \A e \in sliding[k] : e.at + Second > clock' => e \in sliding'[k]
    PROVE  SlidingOK(k)'
<1>0. clock \in Nat /\ clock' \in Nat /\ Second \in Nat /\ UsualLimit \in Nat
  BY LimiterConstants DEF BaseInv, TypeOK, Times, UsualLimit
<1>1. IsFiniteSet(sliding[k]) /\ \A e \in admits[k] : e.at \in Nat
  <2>1. \A e \in admits[k] : e.at \in Nat
    BY LimiterConstants DEF BaseInv, TypeOK, AdmitsOK, Times
  <2> QED
    BY <2>1, SlidingFinite
<1>2. sliding'[k] \subseteq admits'[k]
  BY DEF SlidingOK
<1>3. \A e \in admits'[k] : e.at + Second > clock' => e \in sliding'[k]
  BY <1>0, <1>1 DEF SlidingOK
<1>4. ASSUME changes = 0 PROVE Cardinality(Valid(sliding[k], Second)') <= UsualLimit
  <2>1. Valid(sliding[k], Second)' \subseteq Valid(sliding[k], Second)
    <3>1. \A e \in sliding[k] : e.at \in Nat
      BY <1>1 DEF SlidingOK
    <3> QED
      BY <1>0, <3>1 DEF Valid
  <2>2. IsFiniteSet(Valid(sliding[k], Second)) /\ Cardinality(Valid(sliding[k], Second)) \in Nat
        /\ Cardinality(Valid(sliding[k], Second)) <= UsualLimit
    BY <1>4, SlidingFinite DEF SlidingOK
  <2>3. /\ Cardinality(Valid(sliding[k], Second)') <= Cardinality(Valid(sliding[k], Second))
        /\ Cardinality(Valid(sliding[k], Second)') \in Nat
    BY <2>1, <2>2, FS_Subset, FS_CardinalityType
  <2> QED
    BY <1>0, <2>2, <2>3
<1>5. ASSUME promise[k] <= MaxTime
      PROVE  \E o \in Nat : promise[k] = o + Second /\ Cardinality(Younger(k, o)') < UsualLimit
  <2>1. PICK o \in Nat : promise[k] = o + Second /\ Cardinality(Younger(k, o)) < UsualLimit
    BY <1>5 DEF SlidingOK
  <2>2. Younger(k, o)' \subseteq Younger(k, o) /\ Younger(k, o) \subseteq sliding[k]
    BY DEF Younger
  <2>3. /\ Cardinality(Younger(k, o)') <= Cardinality(Younger(k, o))
        /\ Cardinality(Younger(k, o)') \in Nat /\ Cardinality(Younger(k, o)) \in Nat
    BY <1>1, <2>2, FS_Subset, FS_CardinalityType
  <2>4. Cardinality(Younger(k, o)') < UsualLimit
    BY <1>0, <2>1, <2>3
  <2> QED
    BY <2>1, <2>4
<1> QED
  BY <1>2, <1>3, <1>4, <1>5 DEF SlidingOK

\* As time passes calls leave the window.
LEMMA SlidingTick ==
    ASSUME BaseInv, SlidingPart, Tick
    PROVE  SlidingPart'
<1>1. /\ BaseInv' /\ clock' = clock + 1
      /\ UNCHANGED <<algorithm, sliding, admits, promise, changes>>
  BY TickKeepsBase DEF stateVars
<1>2. clock <= clock'
  BY <1>1, LimiterConstants DEF BaseInv, TypeOK, Times
<1> QED
  BY <1>1, <1>2, SlidingShrinks DEF SlidingPart

\* cleanup drops only calls that are two seconds old.
LEMMA SlidingCleanup ==
    ASSUME BaseInv, SlidingPart, cleanup
    PROVE  SlidingPart'
<1>1. /\ BaseInv' /\ UNCHANGED <<algorithm, clock, admits, promise, changes>>
      /\ \A k \in Keys : sliding'[k] = Valid(sliding[k], 2 * Second)
  BY CleanupKeepsBase
<1>2. clock <= clock' /\ clock \in Nat /\ Second \in Nat
  BY <1>1, LimiterConstants DEF BaseInv, TypeOK, Times
<1>3. ASSUME NEW k \in Keys, SlidingOK(k) PROVE SlidingOK(k)'
  <2>1. \A e \in sliding[k] : e.at \in Nat
    BY <1>3, SlidingFinite
  <2>2. /\ sliding'[k] \subseteq sliding[k]
        /\ \A e \in sliding[k] : e.at + Second > clock' => e \in sliding'[k]
    BY <1>1, <1>2, <2>1 DEF Valid
  <2> QED
    BY <1>1, <1>2, <1>3, <2>2, SlidingShrinks
<1> QED
  BY <1>1, <1>3 DEF SlidingPart

-----------------------------------------------------------------------------
(* The token bucket                                                        *)

MostTokens == 2 * DefaultBurst * Second

\* A bucket whose last refill was at b.last accounts for every call admitted since any a.
Accounts(k, b) ==
    /\ b.rate \in 1 .. MaxRate /\ Second <= b.capacity /\ b.capacity <= MostTokens
    /\ CleanupFull =>
          \A a \in 0 .. b.last : Since(k, a) * Second + b.level <= MostTokens + (b.last - a) * MaxRate

TokenOK(k) ==
    /\ tokens[k] = NoBucket /\ CleanupFull =>
          \A a \in 0 .. clock : Since(k, a) * Second <= (clock - a) * MaxRate
    /\ tokens[k] # NoBucket =>
          /\ Accounts(k, tokens[k])
          /\ \A e \in admits[k] : e.at <= tokens[k].last
          /\ changes = 0 => tokens[k].rate = UsualRate
          /\ promise[k] <= MaxTime =>
                tokens[k].level + (promise[k] - tokens[k].last) * UsualRate >= Second

TokenPart == algorithm = "token_bucket" => \A k \in Keys : TokenOK(k)

\* The fields of a bucket have their types.
LEMMA BucketFields ==
    ASSUME NEW b \in Buckets
    PROVE  b.level \in Nat /\ b.capacity \in Nat /\ b.rate \in Nat /\ b.last \in Nat /\ b.last \in Times
BY LimiterConstants DEF Buckets, Times

\* The largest capacity of a token bucket.
LEMMA MostTokensNat == MostTokens \in Nat /\ Second <= DefaultBurst * Second
                       /\ DefaultBurst * Second <= MostTokens /\ DefaultBurst * Second \in Nat
<1>1. PICK d \in Nat : d = DefaultBurst * Second
  BY LimiterConstants
<1>2. Second * 1 <= Second * DefaultBurst
  BY LimiterConstants, MulMono
<1>3. MostTokens = 2 * d
  BY <1>1, LimiterConstants DEF MostTokens
<1> QED
  BY <1>1, <1>2, <1>3, LimiterConstants

\* What a refill of the bucket of k at the rate r comes to
RefillOK(k, b, r) ==
    /\ Accounts(k, b) /\ b.last = clock /\ b.level <= b.capacity /\ b # NoBucket
    /\ tokens[k] = NoBucket => b.level >= Second /\ b.rate = Max({r, 1})
    /\ tokens[k] # NoBucket =>
          /\ b.rate = tokens[k].rate
          /\ b.level = b.capacity \/ b.level = tokens[k].level + (clock - tokens[k].last) * b.rate

\* A refill, of an old bucket or of a new one, accounts for every call admitted since any
\* earlier moment.
LEMMA RefillAccounts ==
    ASSUME BaseInv, NEW k \in Keys, TokenOK(k), NEW cap \in Nat, Second <= cap, cap <= MostTokens,
           NEW r \in Nat, r <= MaxRate
    PROVE  \E b \in Buckets : b = Refilled(Bucket(tokens[k], cap, r, cap)) /\ RefillOK(k, b, r)
<1>0. clock \in Times /\ clock \in Nat /\ MostTokens \in Nat /\ MaxRate \in Nat /\ MaxRate >= 1 /\ Second \in Nat
  BY MostTokensNat, LimiterConstants DEF BaseInv, TypeOK, Times
<1>1. \A a \in 0 .. clock : Since(k, a) \in Nat /\ Since(k, a) * Second \in Nat
                           /\ (clock - a) * MaxRate \in Nat
  <2> SUFFICES ASSUME NEW a \in 0 .. clock
               PROVE  Since(k, a) \in Nat /\ Since(k, a) * Second \in Nat /\ (clock - a) * MaxRate \in Nat
    OBVIOUS
  <2>1. Since(k, a) \in Nat /\ clock - a \in Nat
    BY <1>0, SinceNow
  <2> QED
    BY <1>0, <2>1, MulBoth
<1>2. CASE tokens[k] = NoBucket
  <2>1. PICK m \in Nat : m = Max({r, 1}) /\ m >= 1 /\ m <= MaxRate
    BY <1>0, TwoNumbers
  <2>2. PICK b \in Buckets : /\ b = [level |-> cap, capacity |-> cap, rate |-> m, last |-> clock]
                             /\ b.level = cap /\ b.capacity = cap /\ b.rate = m /\ b.last = clock
    <3>1. [level |-> cap, capacity |-> cap, rate |-> m, last |-> clock] \in Buckets
      BY <1>0 DEF Buckets
    <3> QED
      BY <3>1
  <2>3. b = Refilled(Bucket(tokens[k], cap, r, cap))
    <3>1. Bucket(tokens[k], cap, r, cap) = b
      BY <1>2, <2>1, <2>2 DEF Bucket
    <3>2. Min({b.capacity, b.level + (clock - b.last) * b.rate}) = cap
      <4>1. (clock - b.last) * b.rate = 0
        BY <1>0, <2>1, <2>2
      <4>2. Min({cap, cap}) = cap
        BY TwoNumbers
      <4> QED
        BY <2>2, <4>1, <4>2
    <3>3. Refilled(b) = [b EXCEPT !.level = cap, !.last = clock]
      BY <3>2 DEF Refilled
    <3>4. [b EXCEPT !.level = cap, !.last = clock] = b
      BY <2>2 DEF Buckets
    <3> QED
      BY <3>1, <3>3, <3>4
  <2>4. Accounts(k, b)
    BY <1>0, <1>1, <1>2, <2>1, <2>2 DEF Accounts, TokenOK
  <2>5. b # NoBucket
    BY <2>1, <2>2 DEF NoBucket
  <2> QED
    BY <1>2, <2>1, <2>2, <2>3, <2>4, <2>5 DEF RefillOK
<1>3. CASE tokens[k] # NoBucket
  <2>1. PICK t \in Buckets : t = tokens[k] /\ t.level <= t.capacity /\ t.last <= clock
    BY DEF BaseInv, TypeOK
  <2>2. /\ t.level \in Nat /\ t.capacity \in Nat /\ t.rate \in Nat /\ t.last \in Nat
        /\ t.rate \in 1 .. MaxRate /\ Second <= t.capacity /\ t.capacity <= MostTokens
        /\ CleanupFull =>
              \A a \in 0 .. t.last : Since(k, a) * Second + t.level <= MostTokens + (t.last - a) * MaxRate
        /\ \A e \in admits[k] : e.at <= t.last
    BY <1>3, <2>1, BucketFields DEF TokenOK, Accounts
  <2>3. PICK g \in Nat : g = (clock - t.last) * t.rate /\ g <= (clock - t.last) * MaxRate
    <3>1. clock - t.last \in Nat /\ clock - t.last <= clock - t.last
      BY <1>0, <2>1, <2>2
    <3>2. PICK d \in Nat, q \in Nat : d = clock - t.last /\ q = t.rate /\ q <= MaxRate
      BY <2>2, <3>1
    <3>3. d * q <= d * MaxRate /\ d * q \in Nat
      BY <1>0, <3>2, MulBoth
    <3> QED
      BY <3>2, <3>3
  <2>4. PICK v \in Nat : /\ v = Min({t.capacity, t.level + g}) /\ v <= t.capacity /\ v <= t.level + g
                         /\ v = t.capacity \/ v = t.level + g
    <3>1. t.capacity \in Int /\ t.level + g \in Int
      BY <2>2
    <3>2. Min({t.capacity, t.level + g}) = IF t.capacity <= t.level + g THEN t.capacity ELSE t.level + g
      BY <3>1, TwoNumbers, Zenon
    <3> QED
      BY <2>2, <3>2
  <2>5. PICK b \in Buckets : /\ b = [t EXCEPT !.level = v, !.last = clock]
                             /\ b.level = v /\ b.capacity = t.capacity /\ b.rate = t.rate /\ b.last = clock
    <3>1. PICK now \in Times : now = clock
      BY <1>0
    <3>2. /\ [t EXCEPT !.level = v, !.last = now] \in Buckets
          /\ [t EXCEPT !.level = v, !.last = now].level = v
          /\ [t EXCEPT !.level = v, !.last = now].capacity = t.capacity
          /\ [t EXCEPT !.level = v, !.last = now].rate = t.rate
          /\ [t EXCEPT !.level = v, !.last = now].last = now
      BY DEF Buckets
    <3> QED
      BY <3>1, <3>2
  <2>6. b = Refilled(Bucket(tokens[k], cap, r, cap))
    BY <1>3, <2>1, <2>3, <2>4, <2>5 DEF Bucket, Refilled
  <2>7. ASSUME CleanupFull, NEW a \in 0 .. clock
        PROVE  Since(k, a) * Second + v <= MostTokens + (clock - a) * MaxRate
    <3>1. CASE a <= t.last
      <4>1. (clock - a) * MaxRate = (clock - t.last) * MaxRate + (t.last - a) * MaxRate
        <5>1. clock - t.last \in Int /\ t.last - a \in Int /\ MaxRate \in Int
          BY <1>0, <2>2
        <5>2. (clock - t.last) + (t.last - a) = clock - a
          BY <1>0, <2>2
        <5> QED
          BY <5>1, <5>2, Distrib
      <4>2. Since(k, a) * Second + t.level <= MostTokens + (t.last - a) * MaxRate
        BY <1>0, <2>2, <2>7, <3>1
      <4>3. (t.last - a) * MaxRate \in Int /\ (clock - t.last) * MaxRate \in Int
        BY <1>0, <2>2
      <4> QED
        BY <1>0, <1>1, <2>2, <2>3, <2>4, <4>1, <4>2, <4>3
    <3>2. CASE a > t.last
      <4>1. {e \in admits[k] : a <= e.at} = {}
        <5>1. \A e \in admits[k] : e.at \in Nat
          BY LimiterConstants DEF BaseInv, TypeOK, Times
        <5> QED
          BY <2>2, <3>2, <5>1
      <4>2. Since(k, a) = 0
        BY <4>1, FS_EmptySet DEF Since
      <4>3. Since(k, a) * Second = 0
        BY <1>0, <4>2
      <4> QED
        <5>1. PICK z \in Nat : z = (clock - a) * MaxRate
          BY <1>1
        <5>2. v <= MostTokens
          BY <1>0, <2>2, <2>4
        <5>3. 0 + v <= MostTokens + z
          BY <1>0, <5>2
        <5> QED
          BY <4>3, <5>1, <5>3
    <3> QED
      BY <1>0, <2>2, <3>1, <3>2
  <2>8. Accounts(k, b)
    BY <2>2, <2>5, <2>7 DEF Accounts
  <2>9. b # NoBucket
    <3>1. NoBucket.rate = 0
      BY DEF NoBucket
    <3>2. b.rate # 0
      <4>1. b.rate = t.rate /\ t.rate \in 1 .. MaxRate
        BY <2>2, <2>5
      <4> QED
        BY <4>1, LimiterConstants
    <3> QED
      BY <3>1, <3>2
  <2>10. b.level <= b.capacity /\ b.rate = tokens[k].rate /\ b.last = clock
         /\ (b.level = b.capacity \/ b.level = tokens[k].level + (clock - tokens[k].last) * b.rate)
    BY <2>1, <2>3, <2>4, <2>5
  <2>11. RefillOK(k, b, r)
    BY <1>3, <2>8, <2>9, <2>10, Zenon DEF RefillOK
  <2> QED
    BY <2>6, <2>11, Zenon
<1> QED
  BY <1>2, <1>3

\* A duration cut down to milliseconds lacks less than one.
LEMMA CutBounds == ASSUME NEW d \in Nat PROVE Cut(d) \in Nat /\ Milli \in Nat /\ d < Cut(d) + Milli
<1>1. Milli \in Nat \ {0}
  BY LimiterAssumption
<1>2. PICK q \in Nat : q = d \div Milli /\ d < Milli * q + Milli
  BY <1>1, DivBounds
<1>3. Cut(d) = Milli * q /\ Milli * q \in Nat
  BY <1>1, <1>2 DEF Cut
<1> QED
  BY <1>1, <1>2, <1>3

\* A millisecond after refillTime a token has been refilled.
LEMMA TokenTime ==
    ASSUME NEW r \in Nat \ {0}, NEW t \in Nat, t = Cut(Second \div r) + Milli
    PROVE  t * r >= Second
<1>1. PICK q \in Nat : q = Second \div r /\ Second < r * q + r
  BY LimiterConstants, DivBounds
<1>2. q + 1 <= t
  BY <1>1, CutBounds
<1>3. r * (q + 1) <= r * t
  BY <1>2, MulMono
<1>4. r * (q + 1) = r * q + r /\ r * t = t * r /\ r * q \in Nat /\ t * r \in Nat
  OBVIOUS
<1> QED
  BY <1>1, <1>3, <1>4, LimiterConstants

\* The rate of a bucket while no limit was changed.
LEMMA UsualRateNat == UsualRate \in Nat /\ UsualRate >= 1 /\ UsualRate = Max({DefaultRate, 1})
<1>1. DefaultRate \in Nat
  BY LimiterConstants
<1>2. Max({DefaultRate, 1}) = IF DefaultRate >= 1 THEN DefaultRate ELSE 1
  BY <1>1, TwoNumbers
<1> QED
  BY <1>1, <1>2 DEF UsualRate

\* checkTokenBucket: a token taken pays for the call, and a refused caller that waits for
\* refillTime and a millisecond finds one.
LEMMA TokenCheck ==
    ASSUME BaseInv, TokenPart, AdmissionBound, NEW p \in Callers, checkTokenBucket(p)
    PROVE  /\ BaseInv' /\ TokenPart' /\ AdmissionBound' /\ algorithm' = "token_bucket"
           /\ promise[call[p].key] <= clock => admits'[call[p].key] # admits[call[p].key]
<1>0. /\ pc[p] = "check" /\ algorithm = "token_bucket"
      /\ UNCHANGED <<algorithm, clock, rate, premium, fixed, sliding, leaky, changes>>
  BY DEF checkTokenBucket
<1>1. PICK k \in Keys : k = call[p].key
  BY <1>0, LimitRead
<1>2. /\ clock \in Times /\ clock \in Nat /\ clock <= MaxTime /\ MaxTime \in Nat
      /\ Second \in Nat /\ Second >= 1 /\ MostTokens \in Nat /\ MaxRate \in Nat
      /\ UsualRate \in Nat /\ UsualRate >= 1
  BY LimiterConstants, MostTokensNat, UsualRateNat DEF BaseInv, TypeOK, Times
<1>3. PICK r \in Nat, cap \in Nat :
         /\ r = call[p].rate /\ r <= MaxRate /\ cap = call[p].burst * Second
         /\ Second <= cap /\ cap <= MostTokens
         /\ changes = 0 => r = DefaultRate
  <2>1. call[p].rate \in Nat /\ call[p].rate <= MaxRate
        /\ call[p].burst \in {DefaultBurst, 2 * DefaultBurst}
        /\ (changes = 0 => call[p].rate = DefaultRate)
    BY <1>0, LimitRead
  <2>2. call[p].burst * Second \in {DefaultBurst * Second, MostTokens}
    BY <2>1 DEF MostTokens
  <2>3. call[p].burst * Second \in Nat /\ Second <= call[p].burst * Second
        /\ call[p].burst * Second <= MostTokens
    BY <1>2, <2>2, MostTokensNat
  <2> QED
    BY <2>1, <2>3
<1>4. TokenOK(k) /\ \A l \in Keys : TokenOK(l)
  BY <1>0 DEF TokenPart
<1>5. PICK b \in Buckets : b = Refilled(Bucket(tokens[k], cap, r, cap)) /\ RefillOK(k, b, r)
  BY <1>3, <1>4, RefillAccounts, Zenon
<1>6. /\ b.level \in Nat /\ b.capacity \in Nat /\ b.rate \in Nat /\ b.last = clock
      /\ b.rate >= 1 /\ b.rate <= MaxRate /\ b.level <= b.capacity
      /\ Second <= b.capacity /\ b.capacity <= MostTokens
  <2>1. b.level \in Nat /\ b.capacity \in Nat /\ b.rate \in Nat
    BY BucketFields
  <2>2. /\ b.last = clock /\ b.rate \in 1 .. MaxRate /\ b.level <= b.capacity
        /\ Second <= b.capacity /\ b.capacity <= MostTokens
    BY <1>5 DEF RefillOK, Accounts
  <2> QED
    BY <1>2, <2>1, <2>2
<1>7. PICK allowed \in BOOLEAN : allowed = (b.level >= Second)
  <2>1. (b.level >= Second) \in BOOLEAN
    BY <1>2, <1>6
  <2> QED
    BY <2>1, Zenon
<1>8. allowed <=> b.level >= Second
  BY <1>7, Zenon
<1>9. PICK resetAt \in Nat : /\ resetAt = clock + Cut(Second \div b.rate) + Milli
                             /\ Answer(p, allowed, resetAt) /\ (resetAt - clock) * b.rate >= Second
  <2>1. Second \div b.rate \in Nat
    BY <1>2, <1>6, DivBounds
  <2>2. PICK t \in Nat : t = Cut(Second \div b.rate) + Milli /\ clock + t \in Nat
                         /\ clock + t = clock + Cut(Second \div b.rate) + Milli /\ (clock + t) - clock = t
    BY <1>2, <2>1, CutBounds
  <2>3. Answer(p, allowed, clock + Cut(Second \div b.rate) + Milli)
    BY <1>1, <1>3, <1>5, <1>7, Zenon DEF checkTokenBucket
  <2>4. t * b.rate >= Second
    BY <1>6, <2>2, TokenTime
  <2> QED
    BY <2>2, <2>3, <2>4
<1>10. AnsweredOK(p, k, allowed, resetAt)
  <2>1. UNCHANGED <<algorithm, clock, rate, premium, changes>>
    BY <1>0
  <2> QED
    BY <1>0, <1>1, <1>9, <2>1, Answered, Zenon
<1>11. PICK c \in Buckets :
          /\ tokens' = [tokens EXCEPT ![k] = c] /\ c.capacity = b.capacity /\ c.rate = b.rate
          /\ c.last = clock /\ c.level = IF allowed THEN b.level - Second ELSE b.level
  <2>1. tokens' = [tokens EXCEPT ![k] = IF b.level >= Second THEN [b EXCEPT !.level = @ - Second] ELSE b]
    BY <1>1, <1>3, <1>5 DEF checkTokenBucket
  <2>2. CASE b.level >= Second
    <3>1. PICK n \in Nat : n = b.level - Second
      BY <1>2, <1>6, <2>2
    <3>2. /\ [b EXCEPT !.level = n] \in Buckets /\ [b EXCEPT !.level = n].level = n
          /\ [b EXCEPT !.level = n].capacity = b.capacity /\ [b EXCEPT !.level = n].rate = b.rate
          /\ [b EXCEPT !.level = n].last = b.last
      BY DEF Buckets
    <3>3. tokens' = [tokens EXCEPT ![k] = [b EXCEPT !.level = n]]
      BY <2>1, <2>2, <3>1
    <3>4. allowed
      BY <1>8, <2>2
    <3> QED
      BY <1>6, <3>1, <3>2, <3>3, <3>4
  <2>3. CASE ~(b.level >= Second)
    <3>1. ~allowed /\ tokens' = [tokens EXCEPT ![k] = b]
      BY <1>8, <2>1, <2>3
    <3> QED
      BY <1>6, <3>1
  <2> QED
    BY <2>2, <2>3, SMTT(30)
<1>12. /\ tokens' \in [Keys -> Buckets] /\ tokens'[k] = c
       /\ \A l \in Keys \ {k} : tokens'[l] = tokens[l]
  BY <1>11 DEF BaseInv, TypeOK
<1>13. c.level \in Nat /\ c.level <= c.capacity
  BY <1>2, <1>6, <1>8, <1>11
<1>14. BaseInv'
  <2>1. TypeOK'
    BY <1>0, <1>10, <1>12, <1>13 DEF BaseInv, TypeOK, Entries, LimiterCall, AnsweredOK
  <2>2. \A l \in Keys : tokens'[l].last <= clock'
    BY <1>0, <1>2, <1>11, <1>12 DEF BaseInv
  <2> QED
    BY <1>0, <1>10, <2>1, <2>2 DEF BaseInv, AnsweredOK
<1>15. ASSUME allowed
       PROVE  /\ admits' = [admits EXCEPT ![k] = @ \cup {Admission(k)}]
              /\ \A a \in 0 .. clock : Since(k, a)' = Since(k, a) + 1
  <2>1. admits' = [admits EXCEPT ![k] = @ \cup {Admission(k)}] /\ clock' = clock
    BY <1>0, <1>10, <1>15 DEF AnsweredOK
  <2> QED
    BY <2>1, NewAdmission
<1>16. ASSUME NEW a \in 0 .. clock
       PROVE  /\ Since(k, a) \in Nat /\ (clock - a) * MaxRate \in Nat
              /\ CleanupFull => Since(k, a) * Second + b.level <= MostTokens + (clock - a) * MaxRate
              /\ (Since(k, a) + 1) * Second = Since(k, a) * Second + Second
              /\ Since(k, a) * Second \in Nat
  <2>1. PICK n \in Nat, d \in Nat : n = Since(k, a) /\ d = clock - a
    BY <1>2, SinceNow
  <2>2. CleanupFull => n * Second + b.level <= MostTokens + d * MaxRate
    BY <1>5, <2>1 DEF RefillOK, Accounts
  <2>3. (n + 1) * Second = n * Second + Second /\ n * Second \in Nat /\ d * MaxRate \in Nat
    BY <1>2
  <2> QED
    BY <2>1, <2>2, <2>3
<1>17. AdmissionBound'
  <2>1. CASE ~allowed
    <3>1. admits' = admits
      BY <1>10, <2>1 DEF AnsweredOK
    <3> QED
      BY <1>0, <3>1, SameBound
  <2>2. CASE allowed
    <3>1. ASSUME NEW a \in 0 .. clock PROVE Within(Since(k, a) + 1, a, clock)
      <4>1. CleanupFull => (Since(k, a) + 1) * Second <= MostTokens + (clock - a) * MaxRate
        BY <1>2, <1>6, <1>8, <1>16, <2>2
      <4> QED
        BY <1>0, <4>1 DEF Within, MostTokens
    <3>2. admits' = [admits EXCEPT ![k] = @ \cup {Admission(k)}] /\ UNCHANGED <<algorithm, clock>>
      BY <1>0, <1>15, <2>2
    <3> QED
      BY <3>1, <3>2, BoundKept
  <2> QED
    BY <2>1, <2>2
<1>18. /\ changes = 0 => b.rate = UsualRate
       /\ promise[k] <= MaxTime =>
             /\ changes = 0
             /\ tokens[k] # NoBucket => tokens[k].level + (promise[k] - tokens[k].last) * UsualRate >= Second
  <2>1. changes = 0 => b.rate = UsualRate
    BY <1>3, <1>4, <1>5, UsualRateNat DEF RefillOK, TokenOK
  <2>2. promise[k] <= MaxTime => changes = 0
    BY <1>2, LimiterAssumption DEF BaseInv, TypeOK
  <2> QED
    BY <1>4, <2>1, <2>2 DEF TokenOK
<1>19. PICK m \in Nat : m = promise[k]
  BY DEF BaseInv, TypeOK
<1>20. ASSUME b.level < Second
       PROVE  /\ tokens[k] # NoBucket
              /\ \E y \in Nat, x \in Nat : /\ y = tokens[k].level /\ x = tokens[k].last /\ x <= clock
                                           /\ b.level = y + (clock - x) * b.rate
  <2>1. /\ tokens[k] # NoBucket
        /\ b.level = tokens[k].level + (clock - tokens[k].last) * b.rate
    BY <1>2, <1>5, <1>6, <1>20 DEF RefillOK
  <2>2. tokens[k] \in Buckets /\ tokens[k].last <= clock
    BY DEF BaseInv, TypeOK
  <2> QED
    BY <2>1, <2>2, BucketFields
<1>21. TokenOK(k)'
  <2>1. c # NoBucket
    <3>1. NoBucket.rate = 0 /\ c.rate # 0
      BY <1>6, <1>11 DEF NoBucket
    <3> QED
      BY <3>1
  <2>2. Accounts(k, c)'
    <3>1. ASSUME CleanupFull, NEW a \in 0 .. clock
          PROVE  Since(k, a)' * Second + c.level <= MostTokens + (clock - a) * MaxRate
      <4>1. CASE allowed
        <5>1. Since(k, a)' * Second = Since(k, a) * Second + Second
          BY <1>15, <1>16, <4>1
        <5> QED
          BY <1>2, <1>6, <1>11, <1>16, <3>1, <4>1, <5>1
      <4>2. CASE ~allowed
        <5>1. Since(k, a)' = Since(k, a)
          BY <1>10, <4>2 DEF AnsweredOK, Since
        <5> QED
          BY <1>11, <1>16, <3>1, <4>2, <5>1
      <4> QED
        BY <4>1, <4>2
    <3> QED
      BY <1>2, <1>6, <1>11, <3>1 DEF Accounts
  <2>3. \A e \in admits'[k] : e.at <= c.last
    <3>1. AdmitsOK' /\ clock' = clock
      BY <1>0, <1>10 DEF AnsweredOK
    <3> QED
      BY <1>11, <3>1 DEF AdmitsOK
  <2>4. ASSUME promise'[k] <= MaxTime PROVE c.level + (promise'[k] - c.last) * UsualRate >= Second
    <3>1. /\ ~allowed /\ ~(changes > 0) /\ b.level < Second
          /\ promise'[k] = IF resetAt <= m THEN resetAt ELSE m
      BY <1>2, <1>6, <1>8, <1>10, <1>19, <2>4 DEF AnsweredOK
    <3>2. b.rate = UsualRate /\ c.level = b.level /\ c.last = clock
      <4>1. changes = 0
        BY <3>1, LimiterAssumption DEF BaseInv, TypeOK
      <4> QED
        BY <1>11, <1>18, <3>1, <4>1
    <3>3. PICK y \in Nat, x \in Nat : /\ y = tokens[k].level /\ x = tokens[k].last /\ x <= clock
                                      /\ b.level = y + (clock - x) * UsualRate /\ tokens[k] # NoBucket
      BY <1>20, <3>1, <3>2
    <3>4. CASE promise'[k] = resetAt
      <4>1. (resetAt - clock) * UsualRate >= Second
        BY <1>9, <3>2
      <4>2. (resetAt - clock) * UsualRate \in Int
        BY <1>2, <1>9
      <4> QED
        BY <1>2, <1>6, <3>2, <3>4, <4>1, <4>2
    <3>5. CASE promise'[k] = m
      <4>1. y + (m - x) * UsualRate >= Second
        BY <1>18, <1>19, <2>4, <3>3, <3>5
      <4>2. ((m - clock) + (clock - x)) * UsualRate = (m - clock) * UsualRate + (clock - x) * UsualRate
        BY <1>2, Distrib
      <4>3. (m - clock) + (clock - x) = m - x
        BY <1>2
      <4>4. (m - clock) * UsualRate \in Int /\ (clock - x) * UsualRate \in Int
        BY <1>2
      <4>5. b.level + (m - clock) * UsualRate >= Second
        BY <1>2, <3>3, <4>1, <4>2, <4>3, <4>4
      <4> QED
        BY <3>2, <3>5, <4>5
    <3> QED
      BY <3>1, <3>4, <3>5
  <2>5. changes' = 0 => c.rate = UsualRate
    BY <1>0, <1>11, <1>18
  <2>6. tokens'[k] = c
    BY <1>12
  <2> QED
    BY <2>1, <2>2, <2>3, <2>4, <2>5, <2>6 DEF TokenOK, Accounts
<1>22. ASSUME NEW l \in Keys, l # k PROVE TokenOK(l)'
  <2>1. /\ tokens'[l] = tokens[l] /\ admits'[l] = admits[l] /\ promise'[l] = promise[l]
        /\ clock' = clock /\ changes' = changes
    BY <1>0, <1>10, <1>12, <1>22 DEF AnsweredOK
  <2>2. TokenOK(l)
    BY <1>4
  <2> QED
    BY <2>1, <2>2, Zenon DEF TokenOK, Accounts, Since
<1>23. ASSUME promise[k] <= clock PROVE admits'[k] # admits[k]
  <2>1. b.level >= Second
    <3> SUFFICES ASSUME b.level < Second PROVE FALSE
      BY <1>2, <1>6
    <3>1. m <= clock /\ m <= MaxTime
      BY <1>2, <1>19, <1>23
    <3>2. changes = 0 /\ b.rate = UsualRate
      BY <1>18, <1>19, <3>1
    <3>3. PICK y \in Nat, x \in Nat : /\ y = tokens[k].level /\ x = tokens[k].last /\ x <= clock
                                      /\ b.level = y + (clock - x) * UsualRate /\ tokens[k] # NoBucket
      BY <1>20, <3>2
    <3>4. y + (m - x) * UsualRate >= Second
      BY <1>18, <1>19, <3>1, <3>3
    <3>5. (clock - x) * UsualRate = (clock - m) * UsualRate + (m - x) * UsualRate
      <4>1. ((clock - m) + (m - x)) * UsualRate = (clock - m) * UsualRate + (m - x) * UsualRate
        BY <1>2, Distrib
      <4>2. (clock - m) + (m - x) = clock - x
        BY <1>2
      <4> QED
        BY <4>1, <4>2
    <3>6. (clock - m) * UsualRate \in Nat /\ (m - x) * UsualRate \in Int
      <4>1. clock - m \in Nat
        BY <1>2, <3>1
      <4> QED
        BY <1>2, <4>1
    <3> QED
      BY <1>2, <3>3, <3>4, <3>5, <3>6
  <2> QED
    BY <1>8, <1>10, <2>1 DEF AnsweredOK
<1> QED
  BY <1>0, <1>1, <1>14, <1>17, <1>21, <1>22, <1>23 DEF TokenPart

\* As time passes without a bucket, more calls could have been paid for.
LEMMA TokenTick ==
    ASSUME BaseInv, TokenPart, Tick
    PROVE  TokenPart'
<1>1. /\ clock' = clock + 1 /\ UNCHANGED <<algorithm, tokens, admits, promise, changes>>
  BY TickKeepsBase DEF stateVars
<1>2. clock \in Nat /\ MaxRate \in Nat /\ Second \in Nat
  BY LimiterConstants DEF BaseInv, TypeOK, Times
<1> SUFFICES ASSUME NEW k \in Keys, TokenOK(k) PROVE TokenOK(k)'
  BY <1>1 DEF TokenPart
<1>3. ASSUME tokens[k] = NoBucket, CleanupFull, NEW a \in 0 .. clock'
      PROVE  Since(k, a) * Second <= (clock' - a) * MaxRate
  <2>0. PICK n \in Nat : n = Since(k, a) /\ (a > clock => n = 0)
    BY <1>2, SinceNow
  <2>1. CASE a <= clock
    <3>1. PICK d \in Nat : d = clock - a /\ clock' - a = d + 1
      BY <1>1, <1>2, <2>1
    <3>2. n * Second <= d * MaxRate
      BY <1>1, <1>2, <1>3, <2>0, <2>1, <3>1 DEF TokenOK
    <3>3. (d + 1) * MaxRate = d * MaxRate + 1 * MaxRate /\ d * MaxRate \in Int /\ n * Second \in Int
      BY <1>2, Distrib
    <3> QED
      BY <1>2, <2>0, <3>1, <3>2, <3>3
  <2>2. CASE a > clock
    <3>1. n = 0 /\ clock' - a = 0
      BY <1>1, <1>2, <2>0, <2>2
    <3>2. 0 * Second = 0 /\ 0 * MaxRate = 0
      BY <1>2
    <3> QED
      BY <2>0, <3>1, <3>2
  <2> QED
    BY <1>2, <2>1, <2>2
<1>4. \A a : Since(k, a)' = Since(k, a)
  BY <1>1 DEF Since
<1>5. CASE tokens[k] = NoBucket
  BY <1>1, <1>3, <1>4, <1>5, Zenon DEF TokenOK
<1>6. CASE tokens[k] # NoBucket
  BY <1>1, <1>4, <1>6, Zenon DEF TokenOK, Accounts
<1> QED
  BY <1>5, <1>6

\* Where a bucket that cleanup drops would have been full again, a new one gives nothing
\* away; whether or not, the new one has a token for whoever was promised one.
LEMMA TokenCleanup ==
    ASSUME BaseInv, TokenPart, cleanup
    PROVE  TokenPart'
<1>1. /\ UNCHANGED <<algorithm, clock, admits, promise, changes>>
      /\ \A k \in Keys : tokens'[k] = IF clock - tokens[k].last > 2 * CleanupTick
                                      THEN NoBucket ELSE tokens[k]
  BY CleanupKeepsBase
<1>2. clock \in Nat /\ MaxRate \in Nat /\ Second \in Nat /\ CleanupTick \in Nat /\ MostTokens \in Nat
  BY LimiterConstants, MostTokensNat DEF BaseInv, TypeOK, Times
<1> SUFFICES ASSUME NEW k \in Keys, TokenOK(k) PROVE TokenOK(k)'
  BY <1>1 DEF TokenPart
<1>3. \A a : Since(k, a)' = Since(k, a)
  BY <1>1 DEF Since
<1>4. CASE tokens'[k] = tokens[k]
  BY <1>1, <1>3, <1>4, Zenon DEF TokenOK, Accounts
<1>5. CASE tokens[k] # NoBucket /\ tokens'[k] = NoBucket
  <2>1. PICK t \in Buckets : t = tokens[k] /\ t.last \in Nat /\ t.level \in Nat
    BY BucketFields DEF BaseInv, TypeOK
  <2>2. /\ clock - t.last > 2 * CleanupTick
        /\ CleanupFull =>
              \A a \in 0 .. t.last : Since(k, a) * Second + t.level <= MostTokens + (t.last - a) * MaxRate
        /\ \A e \in admits[k] : e.at <= t.last
    BY <1>1, <1>5, <2>1 DEF TokenOK, Accounts
  <2>3. ASSUME CleanupFull, NEW a \in 0 .. clock PROVE Since(k, a) * Second <= (clock - a) * MaxRate
    <3>1. CASE a <= t.last
      <4>1. PICK n \in Nat, d \in Nat, x \in Nat :
               n = Since(k, a) /\ d = clock - t.last /\ x = t.last - a /\ clock - a = d + x
        <5>1. clock - t.last > 2 * CleanupTick /\ Since(k, a) \in Nat
          BY <1>2, <2>2, SinceNow
        <5>2. clock - t.last \in Nat /\ t.last - a \in Nat /\ clock - a = (clock - t.last) + (t.last - a)
          BY <1>2, <2>1, <3>1, <5>1
        <5> QED
          BY <5>1, <5>2
      <4>2. n * Second + t.level <= MostTokens + x * MaxRate
        BY <1>2, <2>1, <2>2, <2>3, <3>1, <4>1
      <4>3. (2 * CleanupTick + 1) * MaxRate <= d * MaxRate /\ d * MaxRate \in Nat
            /\ (2 * CleanupTick + 1) * MaxRate \in Nat
        <5>1. 2 * CleanupTick + 1 <= d /\ 2 * CleanupTick + 1 \in Nat /\ MaxRate <= MaxRate
          BY <1>2, <2>2, <4>1
        <5> QED
          BY <1>2, <5>1, MulBoth
      <4>4. (d + x) * MaxRate = d * MaxRate + x * MaxRate /\ x * MaxRate \in Int /\ n * Second \in Int
        BY <1>2, Distrib
      <4>5. n * Second <= (d + x) * MaxRate
        BY <1>2, <2>1, <2>3, <4>2, <4>3, <4>4 DEF CleanupFull, MostTokens
      <4> QED
        BY <4>1, <4>5
    <3>2. CASE a > t.last
      <4>1. {e \in admits[k] : a <= e.at} = {}
        <5>1. \A e \in admits[k] : e.at \in Nat
          BY LimiterConstants DEF BaseInv, TypeOK, Times
        <5> QED
          BY <2>1, <2>2, <3>2, <5>1
      <4>2. Since(k, a) = 0
        BY <4>1, FS_EmptySet DEF Since
      <4>3. PICK d \in Nat : d = clock - a
        BY <1>2
      <4>4. 0 * Second = 0 /\ d * MaxRate \in Nat
        BY <1>2
      <4> QED
        <5>1. Since(k, a) * Second = 0
          BY <4>2, <4>4
        <5>2. (clock - a) * MaxRate \in Nat
          BY <4>3, <4>4
        <5> QED
          BY <5>1, <5>2
    <3> QED
      BY <1>2, <2>1, <3>1, <3>2
  <2> QED
    BY <1>1, <1>3, <1>5, <2>3, Zenon DEF TokenOK
<1> QED
  BY <1>1, <1>4, <1>5

-----------------------------------------------------------------------------
(* The leaky bucket                                                        *)

\* How many calls may leak out in d ticks at the highest rate
Leaks(d) == (d + LeakTime(MaxRate) - 1) \div LeakTime(MaxRate)

\* In n leak times more, n more calls leak out.
LEMMA LeaksGrow ==
    ASSUME NEW d \in Nat, NEW x \in Nat, NEW n \in Nat, n * LeakTime(MaxRate) <= x
    PROVE  Leaks(d) \in Nat /\ Leaks(d + x) \in Nat /\ Leaks(d) + n <= Leaks(d + x)
<1>0. PICK l \in Nat \ {0} : l = LeakTime(MaxRate)
  BY FastestLeak
<1>1. PICK u \in Nat : u = d + l - 1 /\ d + x + l - 1 = u + x /\ u + x \in Nat
  OBVIOUS
<1>2. PICK q \in Nat : q = u \div l /\ l * q <= u
  BY DivBounds
<1>3. l * (q + n) = l * q + n * l /\ l * q \in Nat /\ n * l \in Nat
  OBVIOUS
<1>4. l * (q + n) <= u + x
  BY <1>0, <1>1, <1>2, <1>3
<1>5. q + n <= (u + x) \div l /\ (u + x) \div l \in Nat
  BY <1>1, <1>4, DivLargest, DivBounds
<1> QED
  BY <1>0, <1>1, <1>2, <1>5 DEF Leaks

\* A leak time that has begun counts whole.
LEMMA LeaksStarted ==
    ASSUME NEW d \in Nat, NEW n \in Nat, n >= 1, (n - 1) * LeakTime(MaxRate) < d
    PROVE  n <= Leaks(d) /\ Leaks(d) \in Nat
<1>0. PICK l \in Nat \ {0} : l = LeakTime(MaxRate)
  BY FastestLeak
<1>1. (n - 1) * l = n * l - l /\ l * n = n * l /\ n * l \in Nat
  OBVIOUS
<1>2. d + l - 1 \in Nat /\ l * n <= d + l - 1
  BY <1>0, <1>1
<1>3. n <= (d + l - 1) \div l /\ (d + l - 1) \div l \in Nat
  BY <1>2, DivLargest, DivBounds
<1> QED
  BY <1>0, <1>3 DEF Leaks

LeakAccounts(k, b) ==
    /\ b.rate \in 1 .. MaxRate /\ b.capacity >= 1 /\ b.capacity <= 2 * DefaultBurst
    /\ \A e \in admits[k] : e.at < b.last + LeakTime(b.rate)
    /\ \A a \in 0 .. b.last : Since(k, a) <= b.level + Leaks(b.last - a)
    /\ \A a \in 0 .. clock : a > b.last => Since(k, a) <= b.level

LeakyOK(k) ==
    /\ leaky[k] # NoBucket /\ promise[k] <= MaxTime =>
          leaky[k].last + LeakTime(leaky[k].rate) <= promise[k]
    /\ leaky[k] = NoBucket => \A a \in 0 .. clock : Since(k, a) <= Leaks(clock - a)
    /\ leaky[k] # NoBucket => LeakAccounts(k, leaky[k])

LeakyPart == algorithm = "leaky_bucket" => \A k \in Keys : LeakyOK(k)

\* What the leaks of the bucket of k up to now leave: it is full only if nothing leaked
LeakedOK(k, b) ==
    /\ LeakAccounts(k, b) /\ b.last <= clock /\ clock < b.last + LeakTime(b.rate)
    /\ b.level <= b.capacity /\ b # NoBucket
    /\ b.level < b.capacity \/ (leaky[k] # NoBucket /\ b = leaky[k])

\* After the leaks up to now, of an old bucket or of a new one, the level and what leaked
\* out account for every call admitted since any earlier moment.  The fraction of a leak
\* time that Leaked drops is why the bound rounds up.
LEMMA LeakedAccounts ==
    ASSUME BaseInv, NEW k \in Keys, LeakyOK(k), NEW cap \in Nat, cap >= 1, cap <= 2 * DefaultBurst,
           NEW r \in Nat, r <= MaxRate
    PROVE  \E b \in Buckets : b = Leaked(Bucket(leaky[k], cap, r, 0)) /\ LeakedOK(k, b)
<1>0. clock \in Times /\ clock \in Nat /\ MaxRate \in Nat /\ MaxRate >= 1 /\ 0 \in Nat
  BY LimiterConstants DEF BaseInv, TypeOK, Times
<1>1. \A a \in 0 .. clock : Since(k, a) \in Nat
  BY <1>0, SinceNow
<1>e. \A e \in admits[k] : e.at \in Nat /\ e.at <= clock
  BY LimiterConstants DEF BaseInv, TypeOK, AdmitsOK, Times
<1>2. CASE leaky[k] = NoBucket
  <2>1. PICK m \in Nat : m = Max({r, 1}) /\ m >= 1 /\ m <= MaxRate /\ m \in 1 .. MaxRate
    BY <1>0, TwoNumbers
  <2>2. PICK b \in Buckets : /\ b = [level |-> 0, capacity |-> cap, rate |-> m, last |-> clock]
                             /\ b.level = 0 /\ b.capacity = cap /\ b.rate = m /\ b.last = clock
    <3>1. [level |-> 0, capacity |-> cap, rate |-> m, last |-> clock] \in Buckets
      BY <1>0 DEF Buckets
    <3> QED
      BY <3>1
  <2>l. LeakTime(m) \in Nat /\ LeakTime(m) >= 1
    BY <2>1, LeakTimes
  <2>3. b = Leaked(Bucket(leaky[k], cap, r, 0))
    <3>1. Bucket(leaky[k], cap, r, 0) = b
      BY <1>2, <2>1, <2>2 DEF Bucket
    <3>2. (clock - b.last) \div LeakTime(b.rate) = 0
      <4>1. clock - b.last = 0 /\ b.rate = m
        BY <1>0, <2>2
      <4>2. PICK g \in Nat \ {0} : g = LeakTime(m)
        BY <2>l
      <4>3. 0 \div g <= 0 /\ 0 \div g \in Nat
        BY <1>0, DivSelf, DivBounds
      <4> QED
        BY <4>1, <4>2, <4>3
    <3> QED
      BY <3>1, <3>2 DEF Leaked
  <2>4. LeakAccounts(k, b)
    <3>1. ASSUME NEW a \in 0 .. clock PROVE Since(k, a) <= 0 + Leaks(clock - a)
      <4>1. Since(k, a) <= Leaks(clock - a) /\ Since(k, a) \in Nat
        BY <1>1, <1>2 DEF LeakyOK
      <4>2. Leaks(clock - a) \in Nat
        <5>1. clock - a \in Nat /\ 0 * LeakTime(MaxRate) <= 0
          BY <1>0, <2>1, LeakTimes
        <5> QED
          BY <1>0, <5>1, LeaksGrow
      <4> QED
        BY <4>1, <4>2
    <3>2. \A e \in admits[k] : e.at < clock + LeakTime(m)
      BY <1>0, <1>e, <2>l
    <3> QED
      <4>1. \A a \in 0 .. clock : ~(a > clock)
        BY <1>0
      <4> QED
        BY <2>1, <2>2, <3>1, <3>2, <4>1 DEF LeakAccounts
  <2>5. b # NoBucket
    <3>1. NoBucket.rate = 0 /\ b.rate # 0
      BY <2>1, <2>2 DEF NoBucket
    <3> QED
      BY <3>1
  <2>6. LeakedOK(k, b)
    <3>1. b.level < b.capacity /\ b.level <= b.capacity /\ b.last <= clock /\ clock < b.last + LeakTime(b.rate)
      BY <1>0, <2>2, <2>l
    <3> QED
      BY <2>4, <2>5, <3>1 DEF LeakedOK
  <2> QED
    BY <2>3, <2>6
<1>3. CASE leaky[k] # NoBucket
  <2>1. PICK t \in Buckets : t = leaky[k] /\ t.level <= t.capacity /\ t.last <= clock /\ LeakAccounts(k, t)
    BY <1>3 DEF BaseInv, TypeOK, LeakyOK
  <2>c. t.capacity >= 1
    BY <2>1 DEF LeakAccounts
  <2>2. t.level \in Nat /\ t.capacity \in Nat /\ t.rate \in Nat /\ t.last \in Nat
    BY BucketFields
  <2>3. PICK g \in Nat : g = LeakTime(t.rate) /\ g >= 1 /\ LeakTime(MaxRate) <= g
    <3>1. t.rate \in 1 .. MaxRate
      BY <2>1 DEF LeakAccounts
    <3> QED
      BY <3>1, LeakTimes
  <2>l. PICK l \in Nat : l = LeakTime(MaxRate) /\ l >= 1 /\ l <= g
    <3>1. MaxRate \in 1 .. MaxRate
      BY <1>0
    <3> QED
      BY <2>3, <3>1, LeakTimes
  <2>4. PICK d \in Nat, n \in Nat : /\ d = clock - t.last /\ n = d \div g
                                    /\ g * n <= d /\ d < g * n + g
    <3>1. clock - t.last \in Nat
      BY <1>0, <2>1, <2>2
    <3> QED
      <4>1. PICK d \in Nat : d = clock - t.last
        BY <3>1
      <4>2. PICK n \in Nat : n = d \div g /\ g * n <= d /\ d < g * n + g
        <5>1. g \in Nat \ {0}
          BY <2>3
        <5> QED
          BY <5>1, DivBounds
      <4> QED
        BY <4>1, <4>2, Zenon
  <2>5. Bucket(leaky[k], cap, r, 0) = t
    BY <1>3, <2>1 DEF Bucket
  <2>6. CASE n = 0
    <3>1. Leaked(t) = t
      BY <2>3, <2>4, <2>6 DEF Leaked
    <3>2. clock < t.last + g
      <4>1. g * 0 = 0
        BY <2>3
      <4> QED
        <5>1. g * n = 0 /\ d < g
          <6>1. g * n = 0
            BY <2>6, <4>1, Zenon
          <6>2. d < g * n + g
            BY <2>4
          <6> QED
            BY <6>1, <6>2
        <5> QED
          <6>1. d = clock - t.last /\ d < g
            BY <2>4, <5>1
          <6>2. t.last \in Nat
            BY <2>2
          <6> QED
            BY <1>0, <6>1, <6>2
    <3>3. LeakedOK(k, t)
      BY <1>3, <2>1, <2>3, <3>2 DEF LeakedOK
    <3> QED
      BY <2>5, <3>1, <3>3
  <2>7. CASE n >= 1
    <3>1. PICK v \in Nat : /\ v = (IF n >= t.level THEN 0 ELSE t.level - n)
                           /\ t.level <= v + n /\ v <= t.level /\ v < t.capacity
      BY <2>1, <2>2, <2>7, <2>c
    <3>2. PICK b \in Buckets : /\ b = [t EXCEPT !.level = v, !.last = clock]
                               /\ b.level = v /\ b.capacity = t.capacity /\ b.rate = t.rate /\ b.last = clock
      <4>1. PICK now \in Times : now = clock
        BY <1>0
      <4>2. /\ [t EXCEPT !.level = v, !.last = now] \in Buckets
            /\ [t EXCEPT !.level = v, !.last = now].level = v
            /\ [t EXCEPT !.level = v, !.last = now].capacity = t.capacity
            /\ [t EXCEPT !.level = v, !.last = now].rate = t.rate
            /\ [t EXCEPT !.level = v, !.last = now].last = now
        BY DEF Buckets
      <4> QED
        BY <4>1, <4>2
    <3>3. b = Leaked(Bucket(leaky[k], cap, r, 0))
      <4>1. (clock - t.last) \div LeakTime(t.rate) = n /\ n # 0
        BY <2>3, <2>4, <2>7
      <4> QED
        BY <2>5, <3>1, <3>2, <4>1 DEF Leaked
    <3>4. ASSUME NEW a \in 0 .. clock PROVE Since(k, a) <= v + Leaks(clock - a)
      <4>0. PICK c \in Nat : c = Since(k, a)
        BY <1>1
      <4>1. CASE a <= t.last
        <5>1. PICK x \in Nat : x = t.last - a /\ clock - a = x + d
          BY <1>0, <2>2, <2>4, <4>1
        <5>2. c <= t.level + Leaks(x)
          BY <2>1, <2>2, <4>0, <4>1, <5>1 DEF LeakAccounts
        <5>3. n * l <= d
          <6>1. n * l <= n * g /\ n * g = g * n /\ n * l \in Nat /\ n * g \in Nat
            BY <2>3, <2>l, MulMono
          <6> QED
            BY <2>4, <6>1
        <5>4. Leaks(x) + n <= Leaks(x + d) /\ Leaks(x) \in Nat /\ Leaks(x + d) \in Nat
          BY <2>l, <5>3, LeaksGrow
        <5> QED
          BY <2>2, <3>1, <4>0, <5>1, <5>2, <5>4
      <4>2. CASE a > t.last
        <5>1. c <= t.level
          BY <2>1, <4>0, <4>2 DEF LeakAccounts
        <5>2. PICK x \in Nat : x = clock - a
          BY <1>0
        <5>3. CASE a >= t.last + g
          <6>1. {e \in admits[k] : a <= e.at} = {}
            <7>1. \A e \in admits[k] : e.at < t.last + g
              BY <2>1, <2>3 DEF LeakAccounts
            <7> QED
              BY <1>e, <2>2, <2>3, <5>3, <7>1
          <6>2. c = 0
            BY <4>0, <6>1, FS_EmptySet DEF Since
          <6>3. Leaks(x) \in Nat
            <7>1. 0 * LeakTime(MaxRate) <= 0
              BY <2>l
            <7> QED
              BY <1>0, <7>1, LeaksGrow
          <6> QED
            BY <3>1, <4>0, <5>2, <6>2, <6>3
        <5>4. CASE a < t.last + g
          <6>1. (n - 1) * l < x
            <7>1. (n - 1) * l <= (n - 1) * g /\ (n - 1) * l \in Nat /\ (n - 1) * g \in Nat
              <8>1. n - 1 \in Nat
                BY <2>7
              <8> QED
                BY <2>3, <2>l, <8>1, MulMono
            <7>2. (n - 1) * g = g * n - g /\ g * n \in Nat
              BY <2>3
            <7>3. x > d - g
              BY <1>0, <2>2, <2>3, <2>4, <5>2, <5>4
            <7> QED
              BY <2>3, <2>4, <7>1, <7>2, <7>3
          <6>2. n <= Leaks(x) /\ Leaks(x) \in Nat
            BY <2>7, <2>l, <6>1, LeaksStarted
          <6> QED
            BY <2>2, <3>1, <4>0, <5>1, <5>2, <6>2
        <5> QED
          BY <2>2, <2>3, <5>3, <5>4
      <4> QED
        BY <2>2, <4>1, <4>2
    <3>5. LeakAccounts(k, b)
      <4>1. \A e \in admits[k] : e.at < clock + g
        BY <1>0, <1>e, <2>3
      <4>2. t.rate \in 1 .. MaxRate /\ t.capacity >= 1 /\ t.capacity <= 2 * DefaultBurst
        BY <2>1 DEF LeakAccounts
      <4>3. \A a \in 0 .. clock : ~(a > clock)
        BY <1>0
      <4> QED
        BY <2>3, <3>2, <3>4, <4>1, <4>2, <4>3 DEF LeakAccounts
    <3>6. b # NoBucket
      <4>1. NoBucket.rate = 0
        BY DEF NoBucket
      <4>2. b.rate # 0
        <5>1. b.rate \in 1 .. MaxRate
          BY <3>5 DEF LeakAccounts
        <5> QED
          BY <1>0, <5>1
      <4> QED
        BY <4>1, <4>2
    <3>7. LeakedOK(k, b)
      <4>1. /\ b.level < b.capacity /\ b.level <= b.capacity
            /\ b.last <= clock /\ clock < b.last + g /\ LeakTime(b.rate) = g
        BY <1>0, <2>1, <2>2, <2>3, <3>1, <3>2
      <4> QED
        BY <3>5, <3>6, <4>1 DEF LeakedOK
    <3> QED
      BY <3>3, <3>7
  <2> QED
    BY <2>6, <2>7
<1> QED
  BY <1>2, <1>3

\* checkLeakyBucket: a call that is admitted raises the level, up to the capacity, and a
\* refused caller that waits for RetryAfter and a millisecond finds that one has leaked out.
LEMMA LeakyCheck ==
    ASSUME BaseInv, LeakyPart, AdmissionBound, NEW p \in Callers, checkLeakyBucket(p)
    PROVE  /\ BaseInv' /\ LeakyPart' /\ AdmissionBound' /\ algorithm' = "leaky_bucket"
           /\ promise[call[p].key] <= clock => admits'[call[p].key] # admits[call[p].key]
<1>0. /\ pc[p] = "check" /\ algorithm = "leaky_bucket"
      /\ UNCHANGED <<algorithm, clock, rate, premium, fixed, sliding, tokens, changes>>
  BY DEF checkLeakyBucket
<1>1. PICK k \in Keys : k = call[p].key
  BY <1>0, LimitRead
<1>2. clock \in Times /\ clock \in Nat /\ clock <= MaxTime /\ MaxTime \in Nat /\ DefaultBurst \in Nat
  BY LimiterConstants DEF BaseInv, TypeOK, Times
<1>3. PICK r \in Nat, cap \in Nat :
         r = call[p].rate /\ r <= MaxRate /\ cap = call[p].burst /\ cap >= 1 /\ cap <= 2 * DefaultBurst
  BY <1>0, LimitRead, LimiterConstants
<1>4. LeakyOK(k) /\ \A l \in Keys : LeakyOK(l)
  BY <1>0 DEF LeakyPart
<1>5. PICK b \in Buckets : b = Leaked(Bucket(leaky[k], cap, r, 0)) /\ LeakedOK(k, b)
  BY <1>3, <1>4, LeakedAccounts, Zenon
<1>6. /\ b.level \in Nat /\ b.capacity \in Nat /\ b.last \in Nat
      /\ b.last <= clock /\ b.level <= b.capacity /\ b.capacity >= 1
      /\ b.capacity <= 2 * DefaultBurst /\ b.rate \in 1 .. MaxRate
  BY <1>5, BucketFields DEF LeakedOK, LeakAccounts
<1>7. PICK allowed \in BOOLEAN : allowed = (b.level < b.capacity)
  <2>1. (b.level < b.capacity) \in BOOLEAN
    BY <1>6
  <2> QED
    BY <2>1, Zenon
<1>8. allowed <=> b.level < b.capacity
  BY <1>7, Zenon
<1>9. PICK retryAt \in Nat : /\ retryAt = clock + Cut(LeakTime(b.rate)) + Milli
                             /\ Answer(p, allowed, retryAt) /\ b.last + LeakTime(b.rate) <= retryAt
  <2>1. PICK g \in Nat : g = LeakTime(b.rate)
    BY <1>6, LeakTimes
  <2>2. PICK t \in Nat : t = Cut(g) + Milli /\ g < t /\ clock + t = clock + Cut(g) + Milli /\ clock + t \in Nat
    BY <1>2, CutBounds
  <2>3. Answer(p, allowed, clock + Cut(LeakTime(b.rate)) + Milli)
    BY <1>1, <1>3, <1>5, <1>7, Zenon DEF checkLeakyBucket
  <2>4. b.last + g <= clock + t
    BY <1>2, <1>6, <2>2
  <2> QED
    BY <2>1, <2>2, <2>3, <2>4
<1>10. AnsweredOK(p, k, allowed, retryAt)
  <2>1. UNCHANGED <<algorithm, clock, rate, premium, changes>>
    BY <1>0
  <2> QED
    BY <1>0, <1>1, <1>9, <2>1, Answered, Zenon
<1>11. PICK c \in Buckets :
          /\ leaky' = [leaky EXCEPT ![k] = c] /\ c.capacity = b.capacity /\ c.rate = b.rate
          /\ c.last = b.last /\ c.level = IF allowed THEN b.level + 1 ELSE b.level
  <2>1. leaky' = [leaky EXCEPT ![k] = IF b.level < b.capacity THEN [b EXCEPT !.level = @ + 1] ELSE b]
    BY <1>1, <1>3, <1>5 DEF checkLeakyBucket
  <2>2. CASE b.level < b.capacity
    <3>1. PICK n \in Nat : n = b.level + 1
      BY <1>6
    <3>2. /\ [b EXCEPT !.level = n] \in Buckets /\ [b EXCEPT !.level = n].level = n
          /\ [b EXCEPT !.level = n].capacity = b.capacity /\ [b EXCEPT !.level = n].rate = b.rate
          /\ [b EXCEPT !.level = n].last = b.last
      BY DEF Buckets
    <3>3. leaky' = [leaky EXCEPT ![k] = [b EXCEPT !.level = n]]
      BY <2>1, <2>2, <3>1
    <3>4. allowed
      BY <1>8, <2>2
    <3> QED
      BY <3>1, <3>2, <3>3, <3>4
  <2>3. CASE ~(b.level < b.capacity)
    <3>1. ~allowed /\ leaky' = [leaky EXCEPT ![k] = b]
      BY <1>8, <2>1, <2>3
    <3> QED
      BY <3>1
  <2> QED
    BY <2>2, <2>3
<1>12. /\ leaky' \in [Keys -> Buckets] /\ leaky'[k] = c
       /\ \A l \in Keys \ {k} : leaky'[l] = leaky[l]
  BY <1>11 DEF BaseInv, TypeOK
<1>13. c.level \in Nat /\ c.level <= c.capacity
  BY <1>6, <1>8, <1>11
<1>14. BaseInv'
  <2>1. TypeOK'
    BY <1>0, <1>10, <1>12, <1>13 DEF BaseInv, TypeOK, Entries, LimiterCall, AnsweredOK
  <2>2. \A l \in Keys : leaky'[l].last <= clock'
    BY <1>0, <1>6, <1>11, <1>12 DEF BaseInv
  <2> QED
    BY <1>0, <1>10, <2>1, <2>2 DEF BaseInv, AnsweredOK
<1>15. ASSUME allowed
       PROVE  /\ admits' = [admits EXCEPT ![k] = @ \cup {Admission(k)}]
              /\ admits'[k] = admits[k] \cup {Admission(k)} /\ Admission(k).at = clock
              /\ \A a \in 0 .. clock : Since(k, a)' = Since(k, a) + 1
  <2>1. admits' = [admits EXCEPT ![k] = @ \cup {Admission(k)}] /\ clock' = clock
    BY <1>0, <1>10, <1>15 DEF AnsweredOK
  <2> QED
    BY <2>1, NewAdmission
<1>16. ASSUME NEW a \in 0 .. clock
       PROVE  /\ Since(k, a) \in Nat /\ Leaks(clock - a) \in Nat
              /\ a <= b.last => /\ Since(k, a) <= b.level + Leaks(b.last - a) /\ Leaks(b.last - a) \in Nat
                                /\ Leaks(b.last - a) <= Leaks(clock - a)
              /\ a > b.last => Since(k, a) <= b.level
  <2>0. 0 * LeakTime(MaxRate) = 0
    BY FastestLeak
  <2>1. Since(k, a) \in Nat /\ Leaks(clock - a) \in Nat
    <3>1. clock - a \in Nat /\ 0 * LeakTime(MaxRate) <= 0
      BY <1>2, <2>0
    <3> QED
      BY <1>2, <3>1, SinceNow, LeaksGrow
  <2>2. ASSUME a <= b.last
        PROVE  /\ Since(k, a) <= b.level + Leaks(b.last - a) /\ Leaks(b.last - a) \in Nat
               /\ Leaks(b.last - a) <= Leaks(clock - a)
    <3>1. PICK d \in Nat, x \in Nat : d = b.last - a /\ x = clock - b.last /\ clock - a = d + x
      BY <1>2, <1>6, <2>2
    <3>2. Leaks(d) \in Nat /\ Leaks(d + x) \in Nat /\ Leaks(d) + 0 <= Leaks(d + x)
      <4>1. 0 * LeakTime(MaxRate) <= x
        BY <2>0
      <4> QED
        BY <4>1, LeaksGrow
    <3>3. Since(k, a) <= b.level + Leaks(b.last - a)
      BY <1>5, <1>6, <2>2 DEF LeakedOK, LeakAccounts
    <3> QED
      BY <3>1, <3>2, <3>3
  <2>3. a > b.last => Since(k, a) <= b.level
    BY <1>5 DEF LeakedOK, LeakAccounts
  <2> QED
    BY <2>1, <2>2, <2>3
<1>17. AdmissionBound'
  <2>1. CASE ~allowed
    <3>1. admits' = admits
      BY <1>10, <2>1 DEF AnsweredOK
    <3> QED
      BY <1>0, <3>1, SameBound
  <2>2. CASE allowed
    <3>1. ASSUME NEW a \in 0 .. clock PROVE Within(Since(k, a) + 1, a, clock)
      <4>1. Since(k, a) + 1 <= 2 * DefaultBurst + Leaks(clock - a)
        <5>1. CASE a <= b.last
          BY <1>2, <1>6, <1>8, <1>16, <2>2, <5>1
        <5>2. CASE a > b.last
          BY <1>2, <1>6, <1>8, <1>16, <2>2, <5>2
        <5> QED
          BY <1>6, <5>1, <5>2
      <4> QED
        BY <1>0, <4>1 DEF Within, Leaks
    <3>2. admits' = [admits EXCEPT ![k] = @ \cup {Admission(k)}] /\ UNCHANGED <<algorithm, clock>>
      BY <1>0, <1>15, <2>2
    <3> QED
      BY <3>1, <3>2, BoundKept
  <2> QED
    BY <2>1, <2>2
<1>18. LeakyOK(k)'
  <2>1. ASSUME promise'[k] <= MaxTime PROVE c.last + LeakTime(c.rate) <= promise'[k]
    <3>1. PICK m \in Nat : m = promise[k]
      BY DEF BaseInv, TypeOK
    <3>2. ~allowed /\ promise'[k] = IF retryAt <= m THEN retryAt ELSE m
      BY <1>2, <1>10, <2>1, <3>1 DEF AnsweredOK
    <3>3. c.last = b.last /\ c.rate = b.rate /\ leaky[k] # NoBucket /\ b = leaky[k]
      BY <1>5, <1>8, <1>11, <3>2 DEF LeakedOK
    <3>4. CASE promise'[k] = retryAt
      BY <1>9, <3>3, <3>4
    <3>5. CASE promise'[k] = m
      <4>1. m <= MaxTime
        BY <2>1, <3>5
      <4> QED
        BY <1>4, <3>1, <3>3, <3>5, <4>1 DEF LeakyOK
    <3> QED
      BY <3>2, <3>4, <3>5
  <2>2. c # NoBucket
    <3>1. NoBucket.rate = 0
      BY DEF NoBucket
    <3>2. c.rate # 0
      BY <1>6, <1>11, LimiterConstants
    <3> QED
      BY <3>1, <3>2
  <2>3. \A e \in admits'[k] : e.at < c.last + LeakTime(c.rate)
    <3>1. clock < b.last + LeakTime(b.rate) /\ \A e \in admits[k] : e.at < b.last + LeakTime(b.rate)
      BY <1>5 DEF LeakedOK, LeakAccounts
    <3>2. CASE allowed
      BY <1>11, <1>15, <3>1, <3>2
    <3>3. CASE ~allowed
      <4>1. admits' = admits
        BY <1>10, <3>3 DEF AnsweredOK
      <4> QED
        BY <1>11, <3>1, <4>1
    <3> QED
      BY <3>2, <3>3
  <2>4. ASSUME NEW a \in 0 .. clock
        PROVE  /\ a <= c.last => Since(k, a)' <= c.level + Leaks(c.last - a)
               /\ a > c.last => Since(k, a)' <= c.level
    <3>1. CASE allowed
      <4>1. Since(k, a)' = Since(k, a) + 1 /\ c.level = b.level + 1 /\ c.last = b.last
        BY <1>11, <1>15, <3>1
      <4> QED
        BY <1>6, <1>16, <4>1
    <3>2. CASE ~allowed
      <4>1. admits' = admits
        BY <1>10, <3>2 DEF AnsweredOK
      <4>2. Since(k, a)' = Since(k, a) /\ c.level = b.level /\ c.last = b.last
        BY <1>11, <3>2, <4>1 DEF Since
      <4> QED
        BY <1>16, <4>2
    <3> QED
      BY <3>1, <3>2
  <2>5. LeakAccounts(k, c)'
    <3>1. c.rate \in 1 .. MaxRate /\ c.capacity >= 1 /\ c.capacity <= 2 * DefaultBurst
      BY <1>6, <1>11
    <3>2. \A a \in 0 .. c.last : Since(k, a)' <= c.level + Leaks(c.last - a)
      <4>1. \A a \in 0 .. c.last : a \in 0 .. clock /\ a <= c.last
        BY <1>2, <1>6, <1>11
      <4> QED
        BY <2>4, <4>1
    <3>3. \A a \in 0 .. clock' : a > c.last => Since(k, a)' <= c.level
      BY <1>0, <2>4
    <3> QED
      BY <2>3, <3>1, <3>2, <3>3 DEF LeakAccounts
  <2> QED
    BY <1>12, <2>1, <2>2, <2>5 DEF LeakyOK, LeakAccounts
<1>19. ASSUME NEW l \in Keys, l # k PROVE LeakyOK(l)'
  <2>1. /\ leaky'[l] = leaky[l] /\ admits'[l] = admits[l] /\ promise'[l] = promise[l]
        /\ clock' = clock
    BY <1>0, <1>10, <1>12, <1>19 DEF AnsweredOK
  <2>2. LeakyOK(l)
    BY <1>4
  <2> QED
    BY <2>1, <2>2, Zenon DEF LeakyOK, LeakAccounts, Since
<1>20. ASSUME promise[k] <= clock PROVE admits'[k] # admits[k]
  <2>1. ASSUME ~allowed PROVE FALSE
    <3>1. leaky[k] # NoBucket /\ b = leaky[k] /\ clock < b.last + LeakTime(b.rate)
      BY <1>5, <1>8, <2>1 DEF LeakedOK
    <3>2. PICK m \in Nat, g \in Nat : m = promise[k] /\ g = LeakTime(b.rate)
      BY <1>6, LeakTimes DEF BaseInv, TypeOK
    <3>3. b.last + g <= m
      BY <1>2, <1>4, <1>20, <3>1, <3>2 DEF LeakyOK
    <3> QED
      BY <1>2, <1>6, <1>20, <3>1, <3>2, <3>3
  <2> QED
    BY <1>10, <2>1 DEF AnsweredOK
<1> QED
  BY <1>0, <1>1, <1>14, <1>17, <1>18, <1>19, <1>20 DEF LeakyPart

\* As time passes nothing leaks until the next check.
LEMMA LeakyTick ==
    ASSUME BaseInv, LeakyPart, Tick
    PROVE  LeakyPart'
<1>1. /\ clock' = clock + 1 /\ UNCHANGED <<algorithm, leaky, admits, promise>>
  BY TickKeepsBase DEF stateVars
<1>2. clock \in Nat
  BY LimiterConstants DEF BaseInv, TypeOK, Times
<1> SUFFICES ASSUME NEW k \in Keys, LeakyOK(k) PROVE LeakyOK(k)'
  BY <1>1 DEF LeakyPart
<1>3. \A a : Since(k, a)' = Since(k, a)
  BY <1>1 DEF Since
<1>4. ASSUME NEW a \in 0 .. clock'
      PROVE  Since(k, a) \in Nat /\ (a > clock => Since(k, a) = 0) /\ (a <= clock => a \in 0 .. clock)
  BY <1>1, <1>2, SinceNow
<1>5. CASE leaky[k] = NoBucket
  <2>1. ASSUME NEW a \in 0 .. clock' PROVE Since(k, a) <= Leaks(clock' - a)
    <3>0. 0 * LeakTime(MaxRate) = 0
      BY FastestLeak
    <3>1. CASE a <= clock
      <4>1. PICK d \in Nat : d = clock - a /\ clock' - a = d + 1
        BY <1>1, <1>2, <3>1
      <4>2. Since(k, a) <= Leaks(d)
        BY <1>4, <1>5, <3>1, <4>1 DEF LeakyOK
      <4>3. Leaks(d) \in Nat /\ Leaks(d + 1) \in Nat /\ Leaks(d) + 0 <= Leaks(d + 1)
        <5>1. 0 * LeakTime(MaxRate) <= 1
          BY <3>0
        <5> QED
          BY <5>1, LeaksGrow
      <4> QED
        BY <1>4, <4>1, <4>2, <4>3
    <3>2. CASE a > clock
      <4>1. PICK d \in Nat : d = clock' - a
        BY <1>1, <1>2
      <4>2. Leaks(d) \in Nat
        <5>1. 0 \in Nat /\ 0 * LeakTime(MaxRate) <= 0
          BY <3>0
        <5> QED
          BY <5>1, LeaksGrow
      <4> QED
        BY <1>4, <3>2, <4>1, <4>2
    <3> QED
      BY <1>2, <3>1, <3>2
  <2> QED
    BY <1>1, <1>3, <1>5, <2>1, Zenon DEF LeakyOK
<1>6. CASE leaky[k] # NoBucket
  <2>1. PICK b \in Buckets : b = leaky[k] /\ b.level \in Nat /\ b.last \in Nat /\ LeakAccounts(k, b)
    BY <1>6, BucketFields DEF BaseInv, TypeOK, LeakyOK
  <2>2. ASSUME NEW a \in 0 .. clock', a > b.last PROVE Since(k, a) <= b.level
    <3>1. CASE a <= clock
      BY <1>4, <2>1, <2>2, <3>1 DEF LeakAccounts
    <3>2. CASE a > clock
      BY <1>4, <2>1, <3>2
    <3> QED
      BY <1>2, <3>1, <3>2
  <2>3. LeakAccounts(k, b)'
    BY <1>1, <1>3, <2>1, <2>2, Zenon DEF LeakAccounts
  <2> QED
    BY <1>1, <1>6, <2>1, <2>3, Zenon DEF LeakyOK, LeakAccounts
<1> QED
  BY <1>5, <1>6

\* cleanup drops only empty buckets.
LEMMA LeakyCleanup ==
    ASSUME BaseInv, LeakyPart, cleanup
    PROVE  LeakyPart'
<1>1. /\ UNCHANGED <<algorithm, clock, admits, promise>>
      /\ \A k \in Keys : leaky'[k] = IF clock - leaky[k].last > 2 * CleanupTick /\ leaky[k].level = 0
                                     THEN NoBucket ELSE leaky[k]
  BY CleanupKeepsBase
<1>2. clock \in Nat
  BY LimiterConstants DEF BaseInv, TypeOK, Times
<1> SUFFICES ASSUME NEW k \in Keys, LeakyOK(k) PROVE LeakyOK(k)'
  BY <1>1 DEF LeakyPart
<1>3. \A a : Since(k, a)' = Since(k, a)
  BY <1>1 DEF Since
<1>4. CASE leaky'[k] = leaky[k]
  BY <1>1, <1>3, <1>4, Zenon DEF LeakyOK, LeakAccounts
<1>5. CASE leaky[k] # NoBucket /\ leaky[k].level = 0 /\ leaky'[k] = NoBucket
  <2>1. PICK b \in Buckets : /\ b = leaky[k] /\ b.level = 0 /\ b.last \in Nat /\ b.last <= clock
                             /\ LeakAccounts(k, b)
    BY <1>5, BucketFields DEF BaseInv, TypeOK, LeakyOK
  <2>2. ASSUME NEW a \in 0 .. clock PROVE Since(k, a) <= Leaks(clock - a)
    <3>0. 0 * LeakTime(MaxRate) = 0
      BY FastestLeak
    <3>1. Since(k, a) \in Nat
      BY <1>2, SinceNow
    <3>2. CASE a <= b.last
      <4>1. PICK d \in Nat, x \in Nat : d = b.last - a /\ x = clock - b.last /\ clock - a = d + x
        BY <1>2, <2>1, <3>2
      <4>2. Since(k, a) <= 0 + Leaks(d)
        BY <2>1, <3>2, <4>1 DEF LeakAccounts
      <4>3. Leaks(d) \in Nat /\ Leaks(d + x) \in Nat /\ Leaks(d) + 0 <= Leaks(d + x)
        <5>1. 0 * LeakTime(MaxRate) <= x
          BY <3>0
        <5> QED
          BY <5>1, LeaksGrow
      <4> QED
        BY <3>1, <4>1, <4>2, <4>3
    <3>3. CASE a > b.last
      <4>1. Since(k, a) <= 0
        BY <2>1, <3>3 DEF LeakAccounts
      <4>2. PICK d \in Nat : d = clock - a
        BY <1>2
      <4>3. Leaks(d) \in Nat
        BY <3>0, LeaksGrow
      <4> QED
        BY <3>1, <4>1, <4>2, <4>3
    <3> QED
      BY <2>1, <3>2, <3>3
  <2> QED
    BY <1>1, <1>3, <1>5, <2>2, Zenon DEF LeakyOK
<1> QED
  BY <1>1, <1>4, <1>5

-----------------------------------------------------------------------------
(* The limiter                                                             *)

LimiterInv == BaseInv /\ AdmissionBound /\ FixedPart /\ SlidingPart /\ TokenPart /\ LeakyPart

\* Nobody was admitted and nothing was promised yet.
LEMMA LimiterInit == Init => LimiterInv
<1> SUFFICES ASSUME Init PROVE LimiterInv
  OBVIOUS
<1> USE DEF Init
<1>0. /\ 0 \in Times /\ NoBucket \in Buckets /\ NoBucket.level <= NoBucket.capacity /\ NoBucket.last = 0
      /\ [ts |-> 0, count |-> 0] \in [ts : Times, count : Nat] /\ MaxTime + 1 \in Nat /\ MaxTime + 1 > MaxTime
      /\ 0 \in 0 .. MaxChanges /\ \A k \in Keys : admits[k] = {} /\ promise[k] = MaxTime + 1
  BY LimiterConstants, LimiterAssumption DEF Times, NoBucket, Buckets
<1>1. TypeOK
  <2>1. call \in [Callers -> [key : Keys, rate : Nat, burst : Nat]]
    <3>1. PICK key \in Keys : key = CHOOSE k \in Keys : TRUE
      BY LimiterAssumption
    <3>2. [key |-> key, rate |-> 0, burst |-> 0] \in [key : Keys, rate : Nat, burst : Nat]
      OBVIOUS
    <3> QED
      BY <3>1, <3>2
  <2>2. fixed \in [Keys -> [Times -> [ts : Times, count : Nat]]]
    BY <1>0
  <2>3. tokens \in [Keys -> Buckets] /\ leaky \in [Keys -> Buckets]
    BY <1>0
  <2>4. \A k \in Keys : /\ tokens[k].level <= tokens[k].capacity
                        /\ leaky[k].level <= leaky[k].capacity
    BY <1>0
  <2>5. /\ rate \in [Keys -> Rates \cup {DefaultRate}] /\ premium \in [Keys -> {{FALSE}, {TRUE}, BOOLEAN}]
        /\ sliding \in [Keys -> SUBSET [at : Times, nth : Nat]]
        /\ admits \in [Keys -> SUBSET [at : Times, nth : Nat]]
        /\ promise \in [Keys -> Nat] /\ pc \in [Callers -> {"idle", "burst", "check"}]
    BY <1>0
  <2> QED
    BY <1>0, <2>1, <2>2, <2>3, <2>4, <2>5 DEF TypeOK
<1>2. AdmitsOK
  BY <1>0, FS_EmptySet DEF AdmitsOK
<1>3. CallsOK
  BY DEF CallsOK
<1>4. BaseInv
  <2>1. \A k \in Keys : tokens[k].last <= clock /\ leaky[k].last <= clock /\ promise[k] > MaxTime
    BY <1>0
  <2> QED
    BY <1>1, <1>2, <1>3, <2>1 DEF BaseInv
<1>5. \A k \in Keys : \A a : Since(k, a) = 0
  BY <1>0, FS_EmptySet DEF Since
<1>z. /\ clock = 0 /\ 0 - 0 = 0 /\ 0 .. 0 = {0} /\ 0 * Second = 0 /\ 0 * MaxRate = 0
  BY LimiterConstants
<1>6. AdmissionBound
  <2> SUFFICES ASSUME NEW k \in Keys, NEW a \in Times, NEW b \in a .. clock
               PROVE  Within(Admitted(k, a, b), a, b)
    BY DEF AdmissionBound
  <2>1. a = 0 /\ b = 0
    BY LimiterConstants DEF Times
  <2>2. {e \in admits[k] : a <= e.at /\ e.at <= b} = {}
    BY <1>0
  <2>3. Admitted(k, a, b) = 0
    BY <2>2, FS_EmptySet DEF Admitted
  <2>4. Within(0, 0, 0)
    <3>0. PICK l \in Nat \ {0} : l = LeakTime(MaxRate)
      BY FastestLeak
    <3>1. (0 - 0 + l - 1) \div l \in Nat
      <4>1. 0 - 0 + l - 1 \in Nat
        OBVIOUS
      <4> QED
        BY <4>1, DivBounds
    <3>2. /\ (0 - 0) * MaxRate = 0 /\ 0 * Second = 0 /\ 2 * DefaultBurst * Second \in Nat
          /\ MaxLimit \in Nat
      BY LimiterConstants
    <3> QED
      BY <3>0, <3>1, <3>2, LimiterConstants DEF Within
  <2> QED
    BY <2>1, <2>3, <2>4
<1>7. FixedPart
  <2> SUFFICES ASSUME NEW k \in Keys PROVE FixedOK(k)
    BY DEF FixedPart
  <2>1. \A w \in Times : fixed[k][w].count = 0
    OBVIOUS
  <2>2. clock \div Second \in Times
    BY <1>0, SecondOfTime
  <2>3. ThisSecond(k) = {}
    BY <1>0 DEF ThisSecond
  <2>4. Cardinality(ThisSecond(k)) = 0
    BY <2>3, FS_EmptySet
  <2> QED
    BY <2>1, <2>2, <2>4 DEF FixedOK
<1>8. SlidingPart
  <2> SUFFICES ASSUME NEW k \in Keys PROVE SlidingOK(k)
    BY DEF SlidingPart
  <2>1. Valid(sliding[k], Second) = {} /\ sliding[k] = {}
    BY DEF Valid
  <2>2. Cardinality(Valid(sliding[k], Second)) = 0 /\ UsualLimit \in Nat
    <3>1. UsualLimit \in Nat
      BY LimiterConstants DEF UsualLimit
    <3> QED
      BY <2>1, <3>1, FS_EmptySet, Zenon
  <2>3. ~(promise[k] <= MaxTime)
    BY <1>0, LimiterConstants
  <2> QED
    BY <1>0, <2>1, <2>2, <2>3 DEF SlidingOK
<1>9. TokenPart
  BY <1>5, <1>z DEF TokenPart, TokenOK
<1>10. LeakyPart
  <2>1. Leaks(0) \in Nat
    <3>1. 0 \in Nat /\ 0 * LeakTime(MaxRate) <= 0
      <4>1. MaxRate \in 1 .. MaxRate
        BY LimiterConstants
      <4> QED
        BY <4>1, LeakTimes
    <3> QED
      BY <3>1, LeaksGrow
  <2> QED
    BY <1>0, <1>5, <1>z, <2>1 DEF LeakyPart, LeakyOK
<1> QED
  BY <1>4, <1>6, <1>7, <1>8, <1>9, <1>10 DEF LimiterInv

\* A change of the limits makes every promise void and touches no window and no bucket.
LEMMA LimitsKeepParts ==
    ASSUME BaseInv, LimiterInv, NEW k \in Keys,
           (\E r \in Rates : SetRateLimit(k, r)) \/ SetPriority(k)
    PROVE  LimiterInv'
<1>1. /\ BaseInv' /\ changes' > 0 /\ \A l \in Keys : promise'[l] > MaxTime
      /\ UNCHANGED <<algorithm, clock, fixed, sliding, tokens, leaky, admits>>
  BY LimitsKeepBase DEF stateVars
<1>2. changes' # 0 /\ \A l \in Keys : ~(promise'[l] <= MaxTime)
  <2>1. changes' \in Nat /\ MaxTime \in Nat /\ promise' \in [Keys -> Nat]
    BY <1>1, LimiterConstants, LimiterAssumption DEF BaseInv, TypeOK
  <2> QED
    BY <1>1, <2>1
<1>3. AdmissionBound'
  BY <1>1, SameBound DEF LimiterInv
<1>4. FixedPart'
  BY <1>1, <1>2, Zenon DEF LimiterInv, FixedPart, FixedOK, ThisSecond
<1>5. SlidingPart'
  BY <1>1, <1>2, Zenon DEF LimiterInv, SlidingPart, SlidingOK
<1>6. TokenPart'
  BY <1>1, <1>2, Zenon DEF LimiterInv, TokenPart, TokenOK, Accounts, Since
<1>7. LeakyPart'
  BY <1>1, <1>2, Zenon DEF LimiterInv, LeakyPart, LeakyOK, LeakAccounts, Since
<1> QED
  BY <1>1, <1>3, <1>4, <1>5, <1>6, <1>7 DEF LimiterInv

\* The invariant does not speak of callers that have only read the limits.
LEMMA SameParts ==
    ASSUME LimiterInv, BaseInv',
           UNCHANGED <<algorithm, clock, fixed, sliding, tokens, leaky, admits, promise, changes>>
    PROVE  LimiterInv'
<1>1. AdmissionBound'
  BY SameBound DEF LimiterInv
<1>2. FixedPart'
  BY Zenon DEF LimiterInv, FixedPart, FixedOK, ThisSecond
<1>3. SlidingPart'
  BY Zenon DEF LimiterInv, SlidingPart, SlidingOK, Younger, Valid
<1>4. TokenPart'
  BY Zenon DEF LimiterInv, TokenPart, TokenOK, Accounts, Since
<1>5. LeakyPart'
  BY Zenon DEF LimiterInv, LeakyPart, LeakyOK, LeakAccounts, Since
<1> QED
  BY <1>1, <1>2, <1>3, <1>4, <1>5 DEF LimiterInv

\* Every check keeps the invariant, and admits a caller who was promised it.
LEMMA ChecksKeep ==
    ASSUME LimiterInv, NEW p \in Callers,
           \/ checkFixedWindow(p) \/ checkSlidingWindow(p) \/ checkTokenBucket(p) \/ checkLeakyBucket(p)
    PROVE  /\ LimiterInv'
           /\ promise[call[p].key] <= clock => admits'[call[p].key] # admits[call[p].key]
<1>1. CASE checkFixedWindow(p)
  <2>1. /\ BaseInv' /\ FixedPart' /\ AdmissionBound' /\ algorithm' = "fixed_window"
        /\ promise[call[p].key] <= clock => admits'[call[p].key] # admits[call[p].key]
    BY <1>1, FixedCheck DEF LimiterInv
  <2>2. SlidingPart' /\ TokenPart' /\ LeakyPart'
    BY <2>1 DEF SlidingPart, TokenPart, LeakyPart
  <2> QED
    BY <2>1, <2>2 DEF LimiterInv
<1>2. CASE checkSlidingWindow(p)
  <2>1. /\ BaseInv' /\ SlidingPart' /\ AdmissionBound' /\ algorithm' = "sliding_window"
        /\ promise[call[p].key] <= clock => admits'[call[p].key] # admits[call[p].key]
    BY <1>2, SlidingCheck DEF LimiterInv
  <2>2. FixedPart' /\ TokenPart' /\ LeakyPart'
    BY <2>1 DEF FixedPart, TokenPart, LeakyPart
  <2> QED
    BY <2>1, <2>2 DEF LimiterInv
<1>3. CASE checkTokenBucket(p)
  <2>1. /\ BaseInv' /\ TokenPart' /\ AdmissionBound' /\ algorithm' = "token_bucket"
        /\ promise[call[p].key] <= clock => admits'[call[p].key] # admits[call[p].key]
    BY <1>3, TokenCheck DEF LimiterInv
  <2>2. FixedPart' /\ SlidingPart' /\ LeakyPart'
    BY <2>1 DEF FixedPart, SlidingPart, LeakyPart
  <2> QED
    BY <2>1, <2>2 DEF LimiterInv
<1>4. CASE checkLeakyBucket(p)
  <2>1. /\ BaseInv' /\ LeakyPart' /\ AdmissionBound' /\ algorithm' = "leaky_bucket"
        /\ promise[call[p].key] <= clock => admits'[call[p].key] # admits[call[p].key]
    BY <1>4, LeakyCheck DEF LimiterInv
  <2>2. FixedPart' /\ SlidingPart' /\ TokenPart'
    BY <2>1 DEF FixedPart, SlidingPart, TokenPart
  <2> QED
    BY <2>1, <2>2 DEF LimiterInv
<1> QED
  BY <1>1, <1>2, <1>3, <1>4

\* Every step keeps the invariant.
LEMMA LimiterStep ==
    ASSUME LimiterInv, [Next]_vars
    PROVE  LimiterInv'
<1>1. CASE \E p \in Callers : Inspect(p)
  <2>1. PICK p \in Callers : Inspect(p)
    BY <1>1
  <2>2. CASE getBurst(p) \/ \E k \in Keys : getRate(p, k)
    <3>1. BaseInv'
      BY <2>2, ReadsKeepBase DEF LimiterInv
    <3>2. UNCHANGED <<algorithm, clock, fixed, sliding, tokens, leaky, admits, promise, changes>>
      BY <2>2 DEF getBurst, getRate, stateVars
    <3> QED
      BY <3>1, <3>2, SameParts
  <2>3. CASE \/ checkFixedWindow(p) \/ checkSlidingWindow(p) \/ checkTokenBucket(p) \/ checkLeakyBucket(p)
    BY <2>3, ChecksKeep
  <2> QED
    BY <2>1, <2>2, <2>3 DEF Inspect
<1>2. ASSUME NEW k \in Keys,
             (\E r \in Rates : SetRateLimit(k, r)) \/ SetPriority(k)
      PROVE  LimiterInv'
  BY <1>2, LimitsKeepParts DEF LimiterInv
<1>2a. ASSUME NEW k \in Keys, NEW high \in BOOLEAN, SetPriorityDone(k, high) PROVE LimiterInv'
  <2>1. /\ BaseInv'
        /\ UNCHANGED <<algorithm, clock, fixed, sliding, tokens, leaky, admits, promise, changes>>
    BY <1>2a, WriteEnds DEF LimiterInv, stateVars
  <2> QED
    BY <2>1, SameParts
<1>3. CASE cleanup
  <2>1. BaseInv' /\ UNCHANGED <<algorithm, clock, admits>>
    BY <1>3, CleanupKeepsBase DEF LimiterInv
  <2>2. FixedPart' /\ SlidingPart' /\ TokenPart' /\ LeakyPart' /\ AdmissionBound'
    BY <1>3, <2>1, FixedCleanup, SlidingCleanup, TokenCleanup, LeakyCleanup, SameBound DEF LimiterInv
  <2> QED
    BY <2>1, <2>2 DEF LimiterInv
<1>4. CASE Tick
  <2>1. BaseInv' /\ AdmissionBound'
    BY <1>4, TickKeepsBase, TickBound DEF LimiterInv
  <2>2. FixedPart' /\ SlidingPart' /\ TokenPart' /\ LeakyPart'
    BY <1>4, FixedTick, SlidingTick, TokenTick, LeakyTick DEF LimiterInv
  <2> QED
    BY <2>1, <2>2 DEF LimiterInv
<1>5. CASE UNCHANGED vars
  <2>1. UNCHANGED <<algorithm, clock, rate, premium, pc, call, fixed, sliding, tokens, leaky, admits,
                    promise, changes>>
    BY <1>5 DEF vars, stateVars
  <2>2. BaseInv'
    BY <2>1 DEF LimiterInv, BaseInv, TypeOK, AdmitsOK, CallsOK
  <2> QED
    BY <2>1, <2>2, SameParts
<1> QED
  BY <1>1, <1>2, <1>2a, <1>3, <1>4, <1>5 DEF Next

\* Only a check ends an Inspect, and it ends its own.
LEMMA LimiterResets ==
    ASSUME LimiterInv, [Next]_vars, NEW p \in Callers,
           pc[p] = "check", pc'[p] = "idle", promise[call[p].key] <= clock
    PROVE  admits'[call[p].key] # admits[call[p].key]
<1>0. pc \in [Callers -> {"idle", "burst", "check"}]
  BY DEF LimiterInv, BaseInv, TypeOK
<1>1. pc' # pc
  OBVIOUS
<1>2. PICK q \in Callers : Inspect(q)
  <2>1. ~(UNCHANGED vars) /\ ~cleanup /\ ~Tick
    BY <1>1 DEF vars, cleanup, Tick
  <2>2. \A k \in Keys : /\ \A r \in Rates : ~SetRateLimit(k, r)
                        /\ ~SetPriority(k) /\ \A high \in BOOLEAN : ~SetPriorityDone(k, high)
    BY <1>1 DEF SetRateLimit, SetPriority, SetPriorityDone
  <2> QED
    BY <2>1, <2>2 DEF Next
<1>3. /\ ~getBurst(q) /\ \A k \in Keys : ~getRate(q, k)
  BY <1>0 DEF getBurst, getRate
<1>4. \/ checkFixedWindow(q) \/ checkSlidingWindow(q) \/ checkTokenBucket(q) \/ checkLeakyBucket(q)
  BY <1>2, <1>3, SMTT(30) DEF Inspect
<1>5. pc' = [pc EXCEPT ![q] = "idle"]
  BY <1>4 DEF checkFixedWindow, checkSlidingWindow, checkTokenBucket, checkLeakyBucket, Answer
<1>6. q = p
  BY <1>0, <1>5
<1> QED
  BY <1>4, <1>6, ChecksKeep

\* The limiter keeps its word, for any number of callers and keys, any limits and any
\* resolution of the clock: no interval sees more calls admitted than its algorithm
\* allows, and a refused caller who comes back when it was told is admitted.  The bound of
\* the token bucket has the condition that AdmissionBound names, CleanupFull.
THEOREM LimiterKeepsItsWord == Spec => LimiterHonest
<1>1. Init => LimiterInv
  BY LimiterInit
<1>2. LimiterInv /\ [Next]_vars => LimiterInv'
  BY LimiterStep
<1>3. LimiterInv => TypeOK /\ AdmissionBound
  BY DEF LimiterInv, BaseInv
<1>4. LimiterInv /\ [Next]_vars =>
        [\A p \in Callers :
           LET k == call[p].key
           IN  (pc[p] = "check" /\ pc'[p] = "idle" /\ promise[k] <= clock)
               => admits'[k] # admits[k]]_vars
  BY LimiterResets
<1> QED
  BY <1>1, <1>2, <1>3, <1>4, PTL DEF Spec, LimiterHonest, ResetHonoured
=============================================================================
