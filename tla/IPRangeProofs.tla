----------------------------- MODULE IPRangeProofs -----------------------------
(***************************************************************************)
(* The rows of ipaddress_range are those the ranges stand for, for any     *)
(* list of ranges and any widths of a byte and of an address.              *)
(***************************************************************************)
EXTENDS IPRange, WellFoundedInduction, TLAPS

-----------------------------------------------------------------------------
(* Induction and recursion over the naturals.                              *)

LEMMA Least ==
  ASSUME NEW S, S \subseteq Nat, S # {}
  PROVE  \E x \in S : \A y \in S : x <= y
<1>. DEFINE R == {ss \in Nat \X Nat : ss[1] < ss[2]}
<1>1. IsWellFoundedOn(R, Nat)
  BY NatLessThanWellFounded DEF OpToRel
<1>2. \E x \in S : \A y \in S : ~(<<y, x>> \in R)
  <2>. HIDE DEF R
  <2>. QED
    BY <1>1, WFMin
<1>3. ASSUME NEW x \in S, NEW y \in S, ~(<<y, x>> \in R)
      PROVE  x <= y
  <2>1. x \in Nat /\ y \in Nat
    OBVIOUS
  <2>2. ~(y < x)
    BY <1>3, <2>1
  <2>. QED
    BY <2>1, <2>2
<1>. QED
  BY <1>2, <1>3

LEMMA Induction ==
  ASSUME NEW S, 0 \in S, \A k \in Nat : k \in S => k + 1 \in S
  PROVE  Nat \subseteq S
<1>. SUFFICES ASSUME Nat \ S # {}
              PROVE  FALSE
  OBVIOUS
<1>1. PICK n \in Nat \ S : \A y \in Nat \ S : n <= y
  BY Least
<1>2. n # 0 /\ n - 1 \in Nat /\ ~(n <= n - 1)
  OBVIOUS
<1>3. n - 1 \in S
  BY <1>1, <1>2
<1>4. (n - 1) + 1 \in S
  BY <1>2, <1>3
<1>. QED
  BY <1>4

\* f takes the step again and again, n times or for ever.
Iterates(f, T, a, step, n) ==
  f \in [0..n -> T] /\ f[0] = a /\ \A k \in 1..n : f[k] = step[<<k, f[k-1]>>]

IteratesOn(f, T, a, step) ==
  f \in [Nat -> T] /\ f[0] = a /\ \A k \in Nat : f[k+1] = step[<<k+1, f[k]>>]

LEMMA Recursion ==
  ASSUME NEW T, NEW a \in T, NEW step \in [Nat \X T -> T], NEW n \in Nat
  PROVE  \E f : Iterates(f, T, a, step, n)
<1>. DEFINE S == {m \in Nat : \E f : Iterates(f, T, a, step, m)}
<1>1. 0 \in S
  <2>. DEFINE f == [k \in 0..0 |-> a]
  <2>1. Iterates(f, T, a, step, 0)
    BY DEF Iterates
  <2>. QED
    BY <2>1
<1>2. ASSUME NEW m \in Nat, m \in S
      PROVE  m + 1 \in S
  <2>1. PICK f : Iterates(f, T, a, step, m)
    BY <1>2
  <2>. DEFINE v == step[<<m+1, f[m]>>]
              g == [k \in 0..m+1 |-> IF k = m+1 THEN v ELSE f[k]]
  <2>2. v \in T
    BY <2>1 DEF Iterates
  <2>3. g \in [0..m+1 -> T]
    BY <2>1, <2>2 DEF Iterates
  <2>4. \A k \in 0..m : g[k] = f[k]
    OBVIOUS
  <2>5. g[m+1] = v /\ g[m] = f[m]
    OBVIOUS
  <2>. HIDE DEF g
  <2>6. ASSUME NEW k \in 1..m+1
        PROVE  g[k] = step[<<k, g[k-1]>>]
    <3>1. CASE k = m+1
      <4>1. k - 1 = m
        BY <3>1
      <4>. QED
        BY <2>5, <3>1, <4>1
    <3>2. CASE k \in 1..m
      BY <2>1, <2>4, <3>2 DEF Iterates
    <3>. QED
      BY <3>1, <3>2
  <2>7. Iterates(g, T, a, step, m+1)
    BY <2>1, <2>3, <2>4, <2>6 DEF Iterates
  <2>. QED
    BY <2>7
<1>3. n \in S
  <2>. HIDE DEF S
  <2>. QED
    BY <1>1, <1>2, Induction
<1>. QED
  BY <1>3

LEMMA NatRecursion ==
  ASSUME NEW T, NEW a \in T, NEW step \in [Nat \X T -> T]
  PROVE  \E f : IteratesOn(f, T, a, step)
<1>. DEFINE F(n) == CHOOSE f : Iterates(f, T, a, step, n)
            f == [n \in Nat |-> F(n)[n]]
<1>1. ASSUME NEW n \in Nat
      PROVE  Iterates(F(n), T, a, step, n)
  BY Recursion
<1>. HIDE DEF F
<1>2. ASSUME NEW n \in Nat
      PROVE  F(n+1)[n] = F(n)[n]
  <2>. DEFINE S == {k \in Nat : k <= n => F(n+1)[k] = F(n)[k]}
  <2>1. 0 \in S
    BY <1>1 DEF Iterates
  <2>2. ASSUME NEW k \in Nat, k \in S
        PROVE  k + 1 \in S
    <3>. SUFFICES ASSUME k + 1 <= n
                  PROVE  F(n+1)[k+1] = F(n)[k+1]
      OBVIOUS
    <3>1. F(n+1)[k] = F(n)[k]
      BY <2>2
    <3>2. k+1 \in 1..n /\ k+1 \in 1..n+1 /\ (k+1)-1 = k
      OBVIOUS
    <3>3. F(n)[k+1] = step[<<k+1, F(n)[k]>>]
      BY <1>1, <3>2 DEF Iterates
    <3>4. Iterates(F(n+1), T, a, step, n+1)
      BY <1>1
    <3>5. F(n+1)[k+1] = step[<<k+1, F(n+1)[k]>>]
      BY <3>2, <3>4 DEF Iterates
    <3>. QED
      BY <3>1, <3>3, <3>5
  <2>3. Nat \subseteq S
    <3>. HIDE DEF S
    <3>. QED
      BY <2>1, <2>2, Induction
  <2>. QED
    BY <2>3
<1>3. f \in [Nat -> T]
  BY <1>1 DEF Iterates
<1>4. f[0] = a
  BY <1>1 DEF Iterates
<1>5. ASSUME NEW k \in Nat
      PROVE  f[k+1] = step[<<k+1, f[k]>>]
  <2>1. k+1 \in Nat /\ k+1 \in 1..k+1 /\ (k+1)-1 = k
    OBVIOUS
  <2>2. Iterates(F(k+1), T, a, step, k+1)
    BY <1>1, <2>1
  <2>3. F(k+1)[k+1] = step[<<k+1, F(k+1)[k]>>]
    BY <2>1, <2>2 DEF Iterates
  <2>. QED
    BY <1>2, <2>1, <2>3
<1>. HIDE DEF f
<1>. QED
  BY <1>3, <1>4, <1>5 DEF IteratesOn

-----------------------------------------------------------------------------
(* Powers of two.                                                          *)

LEMMA Pow2Defined ==
  /\ Pow2 \in [Nat -> Nat]
  /\ Pow2[0] = 1
  /\ \A n \in Nat : Pow2[n+1] = 2 * Pow2[n]
<1>. DEFINE step == [x \in Nat \X Nat |-> 2 * x[2]]
            P == [n \in Nat |-> IF n = 0 THEN 1 ELSE 2 * Pow2[n-1]]
<1>1. step \in [Nat \X Nat -> Nat]
  OBVIOUS
<1>2. PICK f : IteratesOn(f, Nat, 1, step)
  <2>1. 1 \in Nat
    OBVIOUS
  <2>. HIDE DEF step
  <2>. QED
    BY <1>1, <2>1, NatRecursion
<1>3. ASSUME NEW n \in Nat
      PROVE  f[n] = IF n = 0 THEN 1 ELSE 2 * f[n-1]
  <2>1. CASE n = 0
    BY <1>2, <2>1 DEF IteratesOn
  <2>2. CASE n # 0
    <3>1. n-1 \in Nat /\ (n-1)+1 = n
      BY <2>2
    <3>2. f[n] = step[<<n, f[n-1]>>] /\ f[n-1] \in Nat
      BY <1>2, <3>1 DEF IteratesOn
    <3>. QED
      BY <2>2, <3>1, <3>2
  <2>. QED
    BY <2>1, <2>2
<1>4. f = [n \in Nat |-> IF n = 0 THEN 1 ELSE 2 * f[n-1]]
  BY <1>2, <1>3 DEF IteratesOn
<1>5. Pow2 = P
  BY <1>4 DEF Pow2
<1>6. Pow2[0] = 1
  BY <1>5
<1>7. ASSUME NEW n \in Nat
      PROVE  Pow2[n+1] = 2 * Pow2[n]
  <2>1. n+1 \in Nat /\ n+1 # 0 /\ (n+1)-1 = n
    OBVIOUS
  <2>2. P[n+1] = 2 * Pow2[(n+1)-1]
    BY <2>1
  <2>. QED
    BY <1>5, <2>1, <2>2
<1>. DEFINE S == {n \in Nat : Pow2[n] \in Nat}
<1>8. Nat \subseteq S
  <2>1. 0 \in S
    BY <1>6
  <2>2. \A n \in Nat : n \in S => n+1 \in S
    BY <1>7
  <2>. HIDE DEF S
  <2>. QED
    BY <2>1, <2>2, Induction
<1>9. Pow2 \in [Nat -> Nat]
  BY <1>5, <1>8
<1>. QED
  BY <1>6, <1>7, <1>9

LEMMA Pow2Positive ==
  \A n \in Nat : Pow2[n] \in Nat /\ Pow2[n] >= 1
<1>. DEFINE S == {n \in Nat : Pow2[n] \in Nat /\ Pow2[n] >= 1}
<1>1. 0 \in S
  BY Pow2Defined
<1>2. \A n \in Nat : n \in S => n + 1 \in S
  BY Pow2Defined
<1>3. Nat \subseteq S
  <2>. HIDE DEF S
  <2>. QED
    BY <1>1, <1>2, Induction
<1>. QED
  BY <1>3

LEMMA Pow2Sum ==
  ASSUME NEW a \in Nat, NEW b \in Nat
  PROVE  Pow2[a + b] = Pow2[a] * Pow2[b]
<1>. DEFINE S == {n \in Nat : Pow2[a + n] = Pow2[a] * Pow2[n]}
<1>1. 0 \in S
  BY Pow2Defined
<1>2. ASSUME NEW n \in Nat, n \in S
      PROVE  n + 1 \in S
  <2>1. a + n \in Nat /\ a + (n + 1) = (a + n) + 1
    OBVIOUS
  <2>2. Pow2[a + (n + 1)] = 2 * (Pow2[a] * Pow2[n])
    BY <1>2, <2>1, Pow2Defined
  <2>3. Pow2[n + 1] = 2 * Pow2[n] /\ Pow2[a] \in Nat /\ Pow2[n] \in Nat
    BY Pow2Defined
  <2>. QED
    BY <2>2, <2>3
<1>3. Nat \subseteq S
  <2>. HIDE DEF S
  <2>. QED
    BY <1>1, <1>2, Induction
<1>. QED
  BY <1>3

LEMMA ByteFacts ==
  /\ Base \in Nat /\ Base >= 2
  /\ \A b \in Byte : b \in Nat /\ b < Base
<1>1. PICK n \in Nat : ByteBits = n + 1
  <2>1. ByteBits - 1 \in Nat /\ ByteBits = (ByteBits - 1) + 1
    BY RangeAssumption
  <2>. QED
    BY <2>1
<1>2. Base = 2 * Pow2[n] /\ Pow2[n] \in Nat /\ Pow2[n] >= 1
  BY <1>1, Pow2Defined, Pow2Positive, RangeAssumption
<1>. QED
  BY <1>2 DEF Byte

-----------------------------------------------------------------------------
(* The number an address stands for.                                       *)

\* v[k] is the number that the first k bytes of the address make.
Counts(v, ip) ==
  /\ v \in [0..Width+1 -> Nat] /\ v[0] = 0
  /\ \A k \in 1..Width+1 : v[k] = v[k-1] * Base + ip[k]

LEMMA AddressFacts ==
  ASSUME NEW ip \in Address
  PROVE  /\ Width \in Nat /\ Width >= 1
         /\ DOMAIN ip = 1..Width+1 /\ Len(ip) = Width + 1
         /\ \A k \in 1..Width+1 : ip[k] \in Byte /\ ip[k] \in Nat /\ ip[k] < Base
<1>1. Width \in Nat /\ Width >= 1
  BY RangeAssumption
<1>2. DOMAIN ip = 1..Width+1 /\ \A k \in 1..Width+1 : ip[k] \in Byte
  BY DEF Address
<1>3. ip \in Seq(Byte)
  BY <1>1 DEF Address
<1>4. Len(ip) = Width + 1
  BY <1>1, <1>2, <1>3
<1>. QED
  BY <1>1, <1>2, <1>4, ByteFacts

LEMMA ValueCounts ==
  ASSUME NEW ip \in Address
  PROVE  \E v : Counts(v, ip) /\ Value(ip) = v[Width+1]
<1>. DEFINE step == [x \in Nat \X Nat |->
                       IF x[1] \in 1..Width+1 THEN x[2] * Base + ip[x[1]] ELSE 0]
            IsSum(v) == v = [k \in 0..Len(ip) |-> IF k = 0 THEN 0 ELSE v[k-1] * Base + ip[k]]
            w == CHOOSE v : IsSum(v)
<1>0. Width + 1 \in Nat /\ 0 \in Nat
  BY AddressFacts
<1>1. step \in [Nat \X Nat -> Nat]
  BY AddressFacts, ByteFacts
<1>2. PICK f : Iterates(f, Nat, 0, step, Width + 1)
  <2>. HIDE DEF step
  <2>. QED
    BY <1>0, <1>1, Recursion
<1>3. ASSUME NEW k \in 1..Width+1
      PROVE  f[k] = f[k-1] * Base + ip[k]
  <2>1. k - 1 \in 0..Width+1 /\ k \in Nat
    BY <1>0
  <2>2. f[k-1] \in Nat /\ f[k] = step[<<k, f[k-1]>>]
    BY <1>2, <2>1 DEF Iterates
  <2>. QED
    BY <2>1, <2>2
<1>4. Counts(f, ip)
  BY <1>2, <1>3 DEF Iterates, Counts
<1>5. f = [k \in 0..Width+1 |-> IF k = 0 THEN 0 ELSE f[k-1] * Base + ip[k]]
  <2>1. f \in [0..Width+1 -> Nat] /\ f[0] = 0
    BY <1>2 DEF Iterates
  <2>. QED
    BY <1>0, <1>3, <2>1
<1>6. IsSum(f)
  BY <1>5, AddressFacts
<1>7. IsSum(w)
  BY <1>6
<1>8. Value(ip) = w[Len(ip)]
  BY DEF Value
<1>9. ASSUME NEW v, IsSum(v)
      PROVE  Counts(v, ip) /\ v[Len(ip)] = v[Width+1]
  <2>1. v = [k \in 0..Width+1 |-> IF k = 0 THEN 0 ELSE v[k-1] * Base + ip[k]]
    BY <1>9, AddressFacts
  <2>2. DOMAIN v = 0..Width+1 /\ v[0] = 0
    BY <1>0, <2>1
  <2>3. ASSUME NEW k \in 1..Width+1
        PROVE  v[k] = v[k-1] * Base + ip[k]
    <3>1. k \in 0..Width+1 /\ k # 0
      BY <1>0
    <3>. QED
      BY <2>1, <3>1
  <2>. DEFINE S == {k \in Nat : k <= Width + 1 => v[k] \in Nat}
  <2>4. ASSUME NEW k \in Nat, k \in S
        PROVE  k + 1 \in S
    <3>. SUFFICES ASSUME k + 1 <= Width + 1
                  PROVE  v[k+1] \in Nat
      OBVIOUS
    <3>1. k + 1 \in 1..Width+1 /\ (k + 1) - 1 = k /\ v[k] \in Nat
      BY <1>0, <2>4
    <3>2. ip[k+1] \in Nat /\ Base \in Nat
      BY <3>1, AddressFacts, ByteFacts
    <3>. QED
      BY <2>3, <3>1, <3>2
  <2>5. Nat \subseteq S
    <3>1. 0 \in S
      BY <2>2
    <3>. HIDE DEF S
    <3>. QED
      BY <2>4, <3>1, Induction
  <2>6. v \in [0..Width+1 -> Nat]
    <3>1. \A k \in 0..Width+1 : v[k] \in Nat
      BY <1>0, <2>5
    <3>2. v = [k \in 0..Width+1 |-> v[k]]
      BY <2>1
    <3>. QED
      BY <3>1, <3>2
  <2>. QED
    BY <2>2, <2>3, <2>6, AddressFacts DEF Counts
<1>. HIDE DEF IsSum, w
<1>. QED
  BY <1>7, <1>8, <1>9

\* The sum of the first k bytes is below the next multiple of what the first one
\* stands for.
LEMMA CountBounds ==
  ASSUME NEW ip \in Address, NEW v, Counts(v, ip), NEW k \in 1..Width+1
  PROVE  /\ ip[1] * Pow2[(k-1) * ByteBits] <= v[k]
         /\ v[k] < (ip[1] + 1) * Pow2[(k-1) * ByteBits]
<1>. DEFINE P(n) == Pow2[n * ByteBits]
            In(n) == ip[1] * P(n) <= v[n+1] /\ v[n+1] < (ip[1] + 1) * P(n)
            S == {n \in Nat : n <= Width => In(n)}
<1>0. Width \in Nat /\ ByteBits \in Nat /\ 1 \in 1..Width+1 /\ ip[1] \in Nat
  BY AddressFacts, RangeAssumption
<1>1. 0 \in S
  <2>1. v[1] = ip[1]
    BY <1>0, AddressFacts, ByteFacts DEF Counts
  <2>2. 0 * ByteBits = 0
    BY <1>0
  <2>3. P(0) = 1
    BY <2>2, Pow2Defined
  <2>. HIDE DEF P
  <2>. QED
    BY <1>0, <2>1, <2>3
<1>2. ASSUME NEW n \in Nat, n \in S
      PROVE  n + 1 \in S
  <2>. SUFFICES ASSUME n + 1 <= Width
                PROVE  In(n + 1)
    OBVIOUS
  <2>1. v[n+2] = v[n+1] * Base + ip[n+2] /\ v[n+1] \in Nat
    <3>1. n + 2 \in 1..Width+1 /\ (n + 2) - 1 = n + 1 /\ n + 1 \in 0..Width+1
      BY <1>0
    <3>. QED
      BY <3>1 DEF Counts
  <2>2. ip[n+2] \in Nat /\ ip[n+2] < Base /\ Base \in Nat
    <3>1. n + 2 \in 1..Width+1
      BY <1>0
    <3>. QED
      BY <3>1, AddressFacts, ByteFacts
  <2>3. P(n+1) = P(n) * Base /\ P(n) \in Nat
    <3>1. (n + 1) * ByteBits = n * ByteBits + ByteBits /\ n * ByteBits \in Nat
      BY <1>0
    <3>. QED
      BY <1>0, <3>1, Pow2Sum, Pow2Positive, RangeAssumption
  <2>4. ip[1] * P(n) <= v[n+1] /\ v[n+1] < (ip[1] + 1) * P(n)
    BY <1>0, <1>2
  <2>5. ASSUME NEW f \in Nat, NEW p \in Nat, NEW w \in Nat, NEW b \in Nat, NEW d \in Nat,
               f * p <= w, w < (f + 1) * p, d < b
        PROVE  f * (p * b) <= w * b + d /\ w * b + d < (f + 1) * (p * b)
    <3>1. (f * p) * b <= w * b
      BY <2>5
    <3>2. (w + 1) * b <= ((f + 1) * p) * b
      BY <2>5
    <3>3. (w + 1) * b = w * b + b
      BY <2>5
    <3>. QED
      BY <2>5, <3>1, <3>2, <3>3
  <2>6. (n + 1) + 1 = n + 2
    OBVIOUS
  <2>. HIDE DEF P
  <2>. QED
    BY <1>0, <2>1, <2>2, <2>3, <2>4, <2>5, <2>6
<1>3. Nat \subseteq S
  <2>. HIDE DEF S
  <2>. QED
    BY <1>1, <1>2, Induction
<1>4. k - 1 \in Nat /\ k - 1 <= Width /\ (k - 1) + 1 = k
  BY <1>0
<1>. QED
  BY <1>3, <1>4

Total == Base * Pow2[Width * ByteBits]

\* The addresses that stand for IPv4 are those from FirstV4 up.
LEMMA ValueFacts ==
  ASSUME NEW ip \in Address
  PROVE  /\ Value(ip) \in Nat /\ Value(ip) < Total
         /\ FirstV4 \in Nat /\ FirstV4 > 0 /\ FirstV4 < Total
         /\ IsV4(ip) <=> Value(ip) >= FirstV4
<1>. DEFINE p == Pow2[Width * ByteBits]
<1>1. PICK v : Counts(v, ip) /\ Value(ip) = v[Width+1]
  BY ValueCounts
<1>2. Width + 1 \in 1..Width+1 /\ (Width + 1) - 1 = Width /\ 1 \in 1..Width+1
  BY AddressFacts
<1>3. ip[1] * p <= Value(ip) /\ Value(ip) < (ip[1] + 1) * p
  BY <1>1, <1>2, CountBounds
<1>4. Value(ip) \in Nat
  BY <1>1, <1>2, AddressFacts DEF Counts
<1>5. p \in Nat /\ p >= 1
  <2>1. Width * ByteBits \in Nat
    BY AddressFacts, RangeAssumption
  <2>. QED
    BY <2>1, Pow2Positive
<1>6. ip[1] \in Nat /\ ip[1] < Base /\ Base \in Nat /\ Base >= 2
  BY <1>2, AddressFacts, ByteFacts
<1>7. ASSUME NEW a \in Nat, NEW b \in Nat, NEW c \in Nat, NEW x \in Nat,
             b >= 2, c >= 1, a < b, a * c <= x, x < (a + 1) * c
      PROVE  /\ x < b * c
             /\ (b - 1) * c > 0 /\ (b - 1) * c < b * c /\ (b - 1) * c \in Nat
             /\ a = b - 1 <=> x >= (b - 1) * c
  <2>1. (b - 1) * c = b * c - c
    OBVIOUS
  <2>2. (a + 1) * c <= b * c
    BY <1>7
  <2>3. CASE a = b - 1
    BY <1>7, <2>1, <2>2, <2>3
  <2>4. CASE a < b - 1
    <3>1. (a + 1) * c <= (b - 1) * c
      BY <1>7, <2>4
    <3>. QED
      BY <1>7, <2>1, <2>2, <2>4, <3>1
  <2>. QED
    BY <1>7, <2>3, <2>4
<1>. HIDE DEF p
<1>8. /\ Value(ip) < Base * p
      /\ (Base - 1) * p > 0 /\ (Base - 1) * p < Base * p /\ (Base - 1) * p \in Nat
      /\ ip[1] = Base - 1 <=> Value(ip) >= (Base - 1) * p
  BY <1>3, <1>4, <1>5, <1>6, <1>7
<1>. QED
  BY <1>4, <1>8 DEF p, Total, FirstV4, IsV4

\* Different addresses stand for different numbers.
LEMMA ValueInjective ==
  ASSUME NEW x \in Address, NEW y \in Address, Value(x) = Value(y)
  PROVE  x = y
<1>1. PICK v : Counts(v, x) /\ Value(x) = v[Width+1]
  BY ValueCounts
<1>2. PICK w : Counts(w, y) /\ Value(y) = w[Width+1]
  BY ValueCounts
<1>. DEFINE S == {n \in Nat : n <= Width + 1 => v[Width+1-n] = w[Width+1-n]}
<1>0. Width \in Nat
  BY AddressFacts
<1>3. ASSUME NEW k \in 1..Width+1, v[k] = w[k]
      PROVE  v[k-1] = w[k-1] /\ x[k] = y[k]
  <2>1. /\ v[k] = v[k-1] * Base + x[k] /\ w[k] = w[k-1] * Base + y[k]
        /\ v[k-1] \in Nat /\ w[k-1] \in Nat
    <3>1. k - 1 \in 0..Width+1
      BY <1>0
    <3>. QED
      BY <1>1, <1>2, <3>1 DEF Counts
  <2>2. /\ x[k] \in Nat /\ x[k] < Base /\ y[k] \in Nat /\ y[k] < Base
        /\ Base \in Nat /\ Base >= 2
    BY AddressFacts, ByteFacts
  <2>3. ASSUME NEW a \in Nat, NEW b \in Nat, NEW c \in Nat, NEW d \in Nat, NEW n \in Nat,
               c < n, d < n, a * n + c = b * n + d
        PROVE  ~(a < b)
    <3>. SUFFICES ASSUME a + 1 <= b
                  PROVE  FALSE
      OBVIOUS
    <3>1. (a + 1) * n <= b * n
      OBVIOUS
    <3>2. (a + 1) * n = a * n + n
      OBVIOUS
    <3>. QED
      BY <2>3, <3>1, <3>2
  <2>4. ~(v[k-1] < w[k-1]) /\ ~(w[k-1] < v[k-1])
    BY <1>3, <2>1, <2>2, <2>3
  <2>5. v[k-1] = w[k-1]
    BY <2>1, <2>4
  <2>6. ASSUME NEW a \in Nat, NEW c \in Nat, NEW d \in Nat, NEW n \in Nat,
               a * n + c = a * n + d
        PROVE  c = d
    BY <2>6
  <2>7. v[k-1] * Base + x[k] = v[k-1] * Base + y[k]
    BY <1>3, <2>1, <2>5
  <2>8. x[k] = y[k]
    BY <2>1, <2>2, <2>6, <2>7
  <2>. QED
    BY <2>5, <2>8
<1>4. 0 \in S
  <2>1. Width + 1 - 0 = Width + 1
    BY <1>0
  <2>2. v[Width+1] = w[Width+1]
    BY <1>1, <1>2
  <2>. QED
    BY <2>1, <2>2
<1>5. ASSUME NEW n \in Nat, n \in S
      PROVE  n + 1 \in S
  <2>. SUFFICES ASSUME n + 1 <= Width + 1
                PROVE  v[Width+1-(n+1)] = w[Width+1-(n+1)]
    OBVIOUS
  <2>1. Width+1-n \in 1..Width+1 /\ (Width+1-n) - 1 = Width+1-(n+1)
    BY <1>0
  <2>. QED
    BY <1>0, <1>3, <1>5, <2>1
<1>6. Nat \subseteq S
  <2>. HIDE DEF S
  <2>. QED
    BY <1>4, <1>5, Induction
<1>7. ASSUME NEW k \in 1..Width+1
      PROVE  x[k] = y[k]
  <2>1. Width+1-k \in Nat /\ Width+1-k <= Width+1 /\ Width+1-(Width+1-k) = k
    BY <1>0
  <2>2. v[k] = w[k]
    BY <1>6, <2>1
  <2>. QED
    BY <1>3, <2>2
<1>8. x = [k \in 1..Width+1 |-> x[k]] /\ y = [k \in 1..Width+1 |-> y[k]]
  BY DEF Address
<1>9. [k \in 1..Width+1 |-> x[k]] = [k \in 1..Width+1 |-> y[k]]
  BY <1>7
<1>. QED
  BY <1>8, <1>9

\* inc adds one, and goes from the highest address to zero.
LEMMA IncFacts ==
  ASSUME NEW ip \in Address
  PROVE  /\ inc(ip) \in Address
         /\ Value(inc(ip)) = IF Value(ip) + 1 = Total THEN 0 ELSE Value(ip) + 1
<1>. DEFINE Full(k) == \A m \in k+1..Width+1 : ip[m] = Base - 1
            next == [k \in 1..Width+1 |-> IF Full(k) THEN (ip[k] + 1) % Base ELSE ip[k]]
<1>0. Width \in Nat /\ Base \in Nat /\ Base >= 2
  BY AddressFacts, ByteFacts
<1>1. inc(ip) = next
  BY AddressFacts DEF inc
<1>2. ASSUME NEW k \in 1..Width+1
      PROVE  /\ ip[k] \in Nat /\ ip[k] < Base
             /\ (ip[k] + 1) % Base = IF ip[k] = Base - 1 THEN 0 ELSE ip[k] + 1
  <2>1. ip[k] \in Nat /\ ip[k] < Base
    BY AddressFacts
  <2>2. CASE ip[k] = Base - 1
    <3>1. ip[k] + 1 = Base /\ Base % Base = 0
      BY <1>0, <2>2
    <3>. QED
      BY <2>1, <2>2, <3>1
  <2>3. CASE ip[k] # Base - 1
    <3>1. ip[k] + 1 \in 0..Base-1
      BY <1>0, <2>1, <2>3
    <3>2. \A b \in 0..Base-1 : b % Base = b
      BY <1>0
    <3>. QED
      BY <2>1, <2>3, <3>1, <3>2
  <2>. QED
    BY <2>2, <2>3
<1>3. next \in Address
  <2>1. ASSUME NEW k \in 1..Width+1
        PROVE  next[k] \in Byte
    BY <1>0, <1>2 DEF Byte
  <2>. QED
    BY <2>1 DEF Address
<1>4. PICK v : Counts(v, ip) /\ Value(ip) = v[Width+1]
  BY ValueCounts
<1>5. PICK w : Counts(w, next) /\ Value(next) = w[Width+1]
  <2>. HIDE DEF next
  <2>. QED
    BY <1>3, ValueCounts
\* The carry out of the bytes behind the first k.
<1>. DEFINE Carry(k) == IF Full(k) THEN 1 ELSE 0
            AllFull == \A m \in 1..Width+1 : ip[m] = Base - 1
            S == {k \in Nat : k <= Width + 1 => w[k] = v[k] + Carry(k)}
            Z == {k \in Nat : k <= Width + 1 => w[k] = 0}
<1>6. ASSUME NEW k \in Nat, k + 1 <= Width + 1
      PROVE  /\ w[k+1] = w[k] * Base + next[k+1] /\ v[k+1] = v[k] * Base + ip[k+1]
             /\ v[k] \in Nat /\ w[k] \in Nat
             /\ next[k+1] = IF Full(k+1) THEN (ip[k+1] + 1) % Base ELSE ip[k+1]
             /\ Full(k) <=> ip[k+1] = Base - 1 /\ Full(k+1)
  <2>1. k + 1 \in 1..Width+1 /\ (k + 1) - 1 = k /\ k \in 0..Width+1
    BY <1>0, <1>6
  <2>2. w[k+1] = w[k] * Base + next[k+1] /\ w[k] \in Nat
    BY <1>5, <2>1 DEF Counts
  <2>3. v[k+1] = v[k] * Base + ip[k+1] /\ v[k] \in Nat
    BY <1>4, <2>1 DEF Counts
  <2>4. next[k+1] = IF Full(k+1) THEN (ip[k+1] + 1) % Base ELSE ip[k+1]
    BY <2>1
  <2>5. Full(k) <=> ip[k+1] = Base - 1 /\ Full(k+1)
    <3>1. k+1..Width+1 = {k+1} \cup (k+1)+1..Width+1
      BY <1>0, <1>6
    <3>. QED
      BY <3>1
  <2>. QED
    BY <2>2, <2>3, <2>4, <2>5
<1>9. ASSUME NEW a \in Nat, NEW b \in Nat
      PROVE  /\ (a * b + (b - 1)) + 1 = (a + 1) * b
             /\ (a + 1) * b + 0 = (a * b + (b - 1)) + 1
  OBVIOUS
<1>7. CASE AllFull
  <2>. DEFINE V == {k \in Nat : k <= Width + 1 => v[k] + 1 = Pow2[k * ByteBits] /\ w[k] = 0}
  <2>1. 0 \in V
    <3>1. v[0] = 0 /\ w[0] = 0
      BY <1>4, <1>5 DEF Counts
    <3>2. 0 * ByteBits = 0
      BY RangeAssumption
    <3>. QED
      BY <3>1, <3>2, Pow2Defined
  <2>2. ASSUME NEW k \in Nat, k \in V
        PROVE  k + 1 \in V
    <3>. SUFFICES ASSUME k + 1 <= Width + 1
                  PROVE  v[k+1] + 1 = Pow2[(k+1) * ByteBits] /\ w[k+1] = 0
      OBVIOUS
    <3>1. v[k] + 1 = Pow2[k * ByteBits] /\ w[k] = 0
      BY <1>0, <2>2
    <3>2. k + 1 \in 1..Width+1 /\ \A m \in (k+1)+1..Width+1 : m \in 1..Width+1
      BY <1>0
    <3>3. ip[k+1] = Base - 1 /\ next[k+1] = 0
      BY <1>2, <1>6, <1>7, <3>2
    <3>4. w[k+1] = 0 * Base + 0 /\ v[k+1] = v[k] * Base + (Base - 1) /\ v[k] \in Nat
      BY <1>6, <3>1, <3>3
    <3>5. v[k+1] + 1 = (v[k] + 1) * Base
      BY <1>0, <1>9, <3>4
    <3>6. (k + 1) * ByteBits = k * ByteBits + ByteBits /\ k * ByteBits \in Nat /\ ByteBits \in Nat
      BY RangeAssumption
    <3>7. Pow2[(k+1) * ByteBits] = Pow2[k * ByteBits] * Base
      BY <3>6, Pow2Sum, RangeAssumption
    <3>. QED
      BY <1>0, <3>1, <3>4, <3>5, <3>7
  <2>3. Nat \subseteq V
    <3>. HIDE DEF V
    <3>. QED
      BY <2>1, <2>2, Induction
  <2>4. v[Width+1] + 1 = Pow2[(Width+1) * ByteBits] /\ w[Width+1] = 0
    BY <1>0, <2>3
  <2>5. Pow2[(Width+1) * ByteBits] = Total
    <3>1. (Width + 1) * ByteBits = ByteBits + Width * ByteBits /\ Width * ByteBits \in Nat
             /\ ByteBits \in Nat
      BY RangeAssumption
    <3>. QED
      BY <3>1, Pow2Sum, RangeAssumption DEF Total
  <2>. QED
    BY <1>1, <1>3, <1>4, <1>5, <2>4, <2>5
<1>8. CASE ~AllFull
  <2>1. 0 \in S
    <3>1. v[0] = 0 /\ w[0] = 0
      BY <1>4, <1>5 DEF Counts
    <3>2. ~Full(0)
      BY <1>8
    <3>. HIDE DEF Full
    <3>. QED
      BY <3>1, <3>2
  <2>2. ASSUME NEW k \in Nat, k \in S
        PROVE  k + 1 \in S
    <3>. SUFFICES ASSUME k + 1 <= Width + 1
                  PROVE  w[k+1] = v[k+1] + Carry(k+1)
      OBVIOUS
    <3>1. w[k] = v[k] + Carry(k)
      BY <1>0, <2>2
    <3>2. k + 1 \in 1..Width+1
      BY <1>0
    <3>. HIDE DEF Full, next
    <3>3. CASE ~Full(k+1)
      <4>1. w[k] = v[k] /\ next[k+1] = ip[k+1]
        BY <1>6, <3>1, <3>3
      <4>2. w[k+1] = v[k+1] /\ v[k+1] = v[k] * Base + ip[k+1]
        BY <1>6, <4>1
      <4>3. v[k+1] \in Nat
        BY <1>0, <1>2, <1>6, <3>2, <4>2
      <4>. QED
        BY <3>3, <4>2, <4>3
    <3>4. CASE Full(k+1) /\ ip[k+1] # Base - 1
      <4>1. w[k] = v[k] /\ next[k+1] = ip[k+1] + 1
        BY <1>2, <1>6, <3>1, <3>2, <3>4
      <4>2. /\ w[k+1] = v[k] * Base + (ip[k+1] + 1)
            /\ v[k+1] = v[k] * Base + ip[k+1]
        BY <1>6, <4>1
      <4>3. v[k] * Base \in Nat /\ ip[k+1] \in Nat
        BY <1>0, <1>2, <1>6, <3>2
      <4>4. \A a, b \in Nat : a + (b + 1) = (a + b) + 1
        OBVIOUS
      <4>5. w[k+1] = v[k+1] + 1
        BY <4>2, <4>3, <4>4
      <4>. QED
        BY <3>4, <4>5
    <3>5. CASE Full(k+1) /\ ip[k+1] = Base - 1
      <4>1. w[k] = v[k] + 1 /\ next[k+1] = 0
        BY <1>2, <1>6, <3>1, <3>2, <3>5
      <4>2. w[k+1] = (v[k] + 1) * Base + 0 /\ v[k+1] = v[k] * Base + (Base - 1) /\ v[k] \in Nat
        BY <1>6, <3>5, <4>1
      <4>3. (v[k] + 1) * Base + 0 = v[k] * Base + (Base - 1) + 1
        BY <1>0, <1>9, <4>2
      <4>. QED
        BY <1>0, <3>5, <4>2, <4>3
    <3>. QED
      BY <3>3, <3>4, <3>5
  <2>3. Nat \subseteq S
    <3>. HIDE DEF S
    <3>. QED
      BY <2>1, <2>2, Induction
  <2>4. Full(Width + 1)
    BY <1>0
  <2>5. w[Width+1] = v[Width+1] + 1
    <3>. HIDE DEF Full
    <3>. QED
      BY <1>0, <2>3, <2>4
  <2>6. Value(next) < Total /\ Value(next) = Value(ip) + 1 /\ Value(next) \in Nat
    <3>. HIDE DEF next
    <3>. QED
      BY <1>3, <1>4, <1>5, <2>5, ValueFacts
  <2>7. Value(ip) + 1 # Total
    <3>. HIDE DEF next
    <3>. QED
      BY <2>6
  <2>. QED
    BY <1>1, <1>3, <2>6, <2>7
<1>. QED
  BY <1>1, <1>3, <1>7, <1>8

-----------------------------------------------------------------------------
(* Networks and ranges.                                                    *)

\* The numbers with one quotient are a block.
LEMMA Block ==
  ASSUME NEW n \in Nat, NEW s \in Nat, s >= 1
  PROVE  \E q \in Nat :
           /\ q = n \div s /\ q * s \in Nat
           /\ q * s <= n /\ n < q * s + s
           /\ \A x \in Nat : x \div s = q <=> q * s <= x /\ x < q * s + s
<1>1. ASSUME NEW x \in Nat
      PROVE  x \div s \in Nat /\ (x \div s) * s <= x /\ x < (x \div s) * s + s
  OBVIOUS
<1>2. ASSUME NEW p \in Nat, NEW q \in Nat, NEW x \in Nat,
             p * s <= x, x < p * s + s, q * s <= x, x < q * s + s
      PROVE  ~(p < q)
  <2>. SUFFICES ASSUME p + 1 <= q
                PROVE  FALSE
    OBVIOUS
  <2>1. (p + 1) * s <= q * s
    OBVIOUS
  <2>2. (p + 1) * s = p * s + s
    OBVIOUS
  <2>. QED
    BY <1>2, <2>1, <2>2
<1>3. ASSUME NEW q \in Nat, NEW x \in Nat, q * s <= x, x < q * s + s
      PROVE  x \div s = q
  <2>1. ~(x \div s < q) /\ ~(q < x \div s)
    BY <1>1, <1>2, <1>3
  <2>. QED
    BY <1>1, <2>1
<1>. DEFINE m == n \div s
<1>4. /\ m \in Nat /\ m * s \in Nat
      /\ m * s <= n /\ n < m * s + s
      /\ \A x \in Nat : x \div s = m <=> m * s <= x /\ x < m * s + s
  BY <1>1, <1>3
<1>. QED
  BY <1>4

\* The ranges that give rows, and what NumberOfRows computes of them.
Accepted(r) ==
  ~Malformed(r) /\ Parses(r.end, r.endMask) /\ Parses(r.start, r.startMask)

First(r) == Value(r.start)
Size(r) == Pow2[Bits(r.start) - r.startMask]
Top(r) == (First(r) \div Size(r)) * Size(r) + Size(r) - 1
Ends(r) == EndNetwork(r) = StartNetwork(r) /\ Value(r.end) >= First(r)
LastOf(r) ==
  IF Ends(r) THEN Value(r.end)
  ELSE IF IsV4(r.start) \/ Top(r) < FirstV4 THEN Top(r) ELSE FirstV4 - 1

LEMMA AcceptedFacts ==
  ASSUME NEW r \in RangeText, Accepted(r)
  PROVE  /\ r.start \in Address /\ r.end \in Address
         /\ r.startMask \in Nat /\ r.endMask = r.startMask
         /\ Bits(r.start) \in Nat /\ r.startMask <= Bits(r.start)
<1>1. /\ r.start \in Address \cup {Bad} /\ r.end \in Address \cup {Bad}
      /\ r.startMask \in Nat
  BY DEF RangeText
<1>2. \A ip \in Address : Bits(ip) \in Nat
  BY RangeAssumption DEF Bits
<1>. QED
  BY <1>1, <1>2 DEF Accepted, Parses, Malformed

\* The size of the start's network divides the number of all addresses.
LEMMA SizeFacts ==
  ASSUME NEW r \in RangeText, Accepted(r)
  PROVE  /\ Size(r) \in Nat /\ Size(r) >= 1
         /\ \E n \in Nat : Total = n * Size(r)
<1>. DEFINE host == Bits(r.start) - r.startMask
            rest == (Width + 1) * ByteBits - host
<1>1. Width \in Nat /\ ByteBits \in Nat
  BY RangeAssumption
<1>2. host \in Nat
  BY AcceptedFacts
<1>3. rest \in Nat /\ rest + host = ByteBits + Width * ByteBits /\ Width * ByteBits \in Nat
  <2>1. (Width + 1) * ByteBits = ByteBits + Width * ByteBits /\ Width * ByteBits \in Nat
    BY <1>1
  <2>2. Bits(r.start) = Width * ByteBits \/ Bits(r.start) = (Width + 1) * ByteBits
    BY DEF Bits
  <2>3. r.startMask \in Nat
    BY AcceptedFacts
  <2>. QED
    BY <1>1, <1>2, <2>1, <2>2, <2>3
<1>4. Total = Pow2[rest] * Pow2[host]
  <2>1. Total = Pow2[ByteBits + Width * ByteBits]
    BY <1>1, <1>3, Pow2Sum, RangeAssumption DEF Total
  <2>. HIDE DEF rest, host
  <2>. QED
    BY <1>2, <1>3, <2>1, Pow2Sum
<1>5. Pow2[rest] \in Nat /\ Pow2[host] \in Nat /\ Pow2[host] >= 1
  BY <1>2, <1>3, Pow2Positive
<1>. QED
  BY <1>4, <1>5 DEF Size

LEMMA StartNetworkContains ==
  ASSUME NEW r \in RangeText, Accepted(r), NEW ip \in Address
  PROVE  /\ NetContains(StartNetwork(r), ip) <=>
               IsV4(ip) = IsV4(r.start) /\ Value(ip) \div Size(r) = First(r) \div Size(r)
         /\ ip = r.end =>
               (NetContains(StartNetwork(r), ip) <=> EndNetwork(r) = StartNetwork(r))
<1>1. IsV4(ip) = IsV4(r.start) => Bits(ip) = Bits(r.start)
  BY DEF Bits
<1>2. NetContains(StartNetwork(r), ip) <=>
        /\ IsV4(ip) = IsV4(r.start)
        /\ Network(ip, r.startMask) = StartNetwork(r)
  BY DEF NetContains, StartNetwork, Network
<1>3. Network(ip, r.startMask) = StartNetwork(r) <=>
        /\ IsV4(ip) = IsV4(r.start)
        /\ Value(ip) \div Pow2[Bits(ip) - r.startMask] = First(r) \div Size(r)
  BY DEF StartNetwork, Network, First, Size
<1>4. ip = r.end => EndNetwork(r) = Network(ip, r.startMask)
  BY AcceptedFacts DEF EndNetwork
<1>. QED
  BY <1>1, <1>2, <1>3, <1>4 DEF Size

\* The block that holds the start's network ends below the number of addresses.
LEMMA TopFacts ==
  ASSUME NEW r \in RangeText, Accepted(r)
  PROVE  /\ First(r) \in Nat /\ Top(r) \in Nat
         /\ First(r) <= Top(r) /\ Top(r) < Total /\ Total \in Nat
         /\ \A x \in Nat :
              /\ First(r) <= x /\ x <= Top(r) => x \div Size(r) = First(r) \div Size(r)
              /\ x > Top(r) => x \div Size(r) # First(r) \div Size(r)
<1>1. First(r) \in Nat /\ First(r) < Total
  BY AcceptedFacts, ValueFacts DEF First
<1>2. Size(r) \in Nat /\ Size(r) >= 1
  BY SizeFacts
<1>3. PICK n \in Nat : Total = n * Size(r)
  BY SizeFacts
<1>4. PICK q \in Nat :
        /\ q = First(r) \div Size(r) /\ q * Size(r) \in Nat
        /\ q * Size(r) <= First(r) /\ First(r) < q * Size(r) + Size(r)
        /\ \A x \in Nat : x \div Size(r) = q <=> q * Size(r) <= x /\ x < q * Size(r) + Size(r)
  BY <1>1, <1>2, Block
<1>5. Top(r) = q * Size(r) + Size(r) - 1
  BY <1>4 DEF Top
<1>6. q * Size(r) + Size(r) <= Total /\ Total \in Nat
  <2>. SUFFICES ASSUME NEW a \in Nat, NEW b \in Nat, NEW c \in Nat, a * c < b * c
                PROVE  a * c + c <= b * c /\ b * c \in Nat
    BY <1>1, <1>2, <1>3, <1>4
  <2>1. a + 1 <= b
    <3>. SUFFICES ASSUME b <= a
                  PROVE  FALSE
      OBVIOUS
    <3>1. b * c <= a * c
      OBVIOUS
    <3>. QED
      BY <3>1
  <2>2. (a + 1) * c <= b * c
    BY <2>1
  <2>3. (a + 1) * c = a * c + c
    OBVIOUS
  <2>. QED
    BY <2>2, <2>3
<1>7. ASSUME NEW b \in Nat, NEW z \in Nat, NEW f \in Nat, NEW t \in Nat,
             z >= 1, b <= f, f < b + z, b + z <= t
      PROVE  /\ b + z - 1 \in Nat /\ f <= b + z - 1 /\ b + z - 1 < t
             /\ \A x \in Nat : /\ f <= x /\ x <= b + z - 1 => b <= x /\ x < b + z
                              /\ x > b + z - 1 => ~(x < b + z)
  BY <1>7
<1>8. /\ Top(r) \in Nat /\ First(r) <= Top(r) /\ Top(r) < Total
      /\ \A x \in Nat :
           /\ First(r) <= x /\ x <= Top(r) => q * Size(r) <= x /\ x < q * Size(r) + Size(r)
           /\ x > Top(r) => ~(x < q * Size(r) + Size(r))
  BY <1>1, <1>2, <1>4, <1>5, <1>6, <1>7
<1>. QED
  BY <1>1, <1>4, <1>6, <1>8

LEMMA LastFacts ==
  ASSUME NEW r \in RangeText, Accepted(r)
  PROVE  /\ First(r) \in Nat /\ LastOf(r) \in Nat
         /\ First(r) <= LastOf(r) /\ LastOf(r) <= Top(r)
         /\ IF IsV4(r.start) THEN FirstV4 <= First(r) ELSE LastOf(r) < FirstV4
<1>1. /\ r.start \in Address /\ r.end \in Address
      /\ First(r) \in Nat /\ Top(r) \in Nat /\ First(r) <= Top(r)
      /\ \A x \in Nat : x > Top(r) => x \div Size(r) # First(r) \div Size(r)
  BY AcceptedFacts, TopFacts
<1>2. /\ FirstV4 \in Nat /\ FirstV4 > 0 /\ Value(r.end) \in Nat
      /\ IsV4(r.start) <=> First(r) >= FirstV4
      /\ IsV4(r.end) <=> Value(r.end) >= FirstV4
  BY <1>1, ValueFacts DEF First
<1>3. CASE Ends(r)
  <2>1. LastOf(r) = Value(r.end) /\ Value(r.end) >= First(r)
    BY <1>3 DEF Ends, LastOf
  <2>2. /\ IsV4(r.end) = IsV4(r.start)
        /\ Value(r.end) \div Size(r) = First(r) \div Size(r)
    BY <1>1, <1>3, StartNetworkContains DEF Ends
  <2>3. LastOf(r) <= Top(r)
    BY <1>1, <1>2, <2>1, <2>2
  <2>. QED
    BY <1>1, <1>2, <2>1, <2>2, <2>3
<1>4. CASE ~Ends(r)
  BY <1>1, <1>2, <1>4 DEF LastOf
<1>. QED
  BY <1>3, <1>4

\* The loop stays in the network of the start up to the last row, and never
\* after it, unless it is stopped at the end address.
LEMMA InsideRange ==
  ASSUME NEW r \in RangeText, Accepted(r), NEW ip \in Address,
         First(r) <= Value(ip), Value(ip) <= LastOf(r)
  PROVE  /\ NetContains(StartNetwork(r), ip) /\ IsV4(ip) = IsV4(r.start)
         /\ ip = r.end <=> Ends(r) /\ Value(ip) = LastOf(r)
<1>1. /\ Value(ip) \in Nat /\ FirstV4 \in Nat
      /\ IsV4(ip) <=> Value(ip) >= FirstV4
  BY ValueFacts
<1>2. IsV4(ip) = IsV4(r.start)
  BY <1>1, LastFacts, AcceptedFacts, ValueFacts DEF First, IsV4
<1>3. Value(ip) \div Size(r) = First(r) \div Size(r)
  BY <1>1, LastFacts, TopFacts
<1>4. NetContains(StartNetwork(r), ip)
  BY <1>2, <1>3, StartNetworkContains
<1>5. ASSUME ip = r.end
      PROVE  Ends(r) /\ Value(ip) = LastOf(r)
  BY <1>4, <1>5, StartNetworkContains DEF Ends, LastOf
<1>6. ASSUME Ends(r), Value(ip) = LastOf(r)
      PROVE  ip = r.end
  BY <1>6, AcceptedFacts, ValueInjective DEF LastOf
<1>. QED
  BY <1>2, <1>4, <1>5, <1>6

LEMMA BeyondRange ==
  ASSUME NEW r \in RangeText, Accepted(r), ~Ends(r), NEW ip \in Address,
         Value(ip) = IF LastOf(r) + 1 = Total THEN 0 ELSE LastOf(r) + 1
  PROVE  ~NetContains(StartNetwork(r), ip)
<1>1. /\ Value(ip) \in Nat /\ FirstV4 \in Nat /\ FirstV4 > 0 /\ FirstV4 < Total
      /\ IsV4(ip) <=> Value(ip) >= FirstV4
  BY ValueFacts
<1>2. Top(r) \in Nat /\ Top(r) < Total /\ Total \in Nat
  BY TopFacts
<1>3. CASE LastOf(r) # Top(r)
  <2>1. ~IsV4(r.start) /\ LastOf(r) = FirstV4 - 1
    BY <1>3 DEF LastOf
  <2>2. Value(ip) = FirstV4
    BY <1>1, <1>2, <2>1
  <2>. QED
    BY <1>1, <2>1, <2>2, StartNetworkContains
<1>4. CASE LastOf(r) = Top(r) /\ Top(r) + 1 = Total
  <2>1. ~IsV4(ip)
    BY <1>1, <1>4
  <2>2. IsV4(r.start)
    <3>. SUFFICES ASSUME ~IsV4(r.start)
                  PROVE  FALSE
      OBVIOUS
    <3>1. LastOf(r) < FirstV4
      BY LastFacts
    <3>. QED
      BY <1>1, <1>2, <1>4, <3>1
  <2>. QED
    BY <2>1, <2>2, StartNetworkContains
<1>5. CASE LastOf(r) = Top(r) /\ Top(r) + 1 # Total
  <2>1. Value(ip) > Top(r)
    BY <1>2, <1>5
  <2>2. Value(ip) \div Size(r) # First(r) \div Size(r)
    BY <1>1, <2>1, TopFacts
  <2>. QED
    BY <2>2, StartNetworkContains
<1>. QED
  BY <1>3, <1>4, <1>5

LEMMA RowsOfAccepted ==
  ASSUME NEW r \in RangeText, Accepted(r)
  PROVE  /\ NumberOfRows(r) \in Nat /\ NumberOfRows(r) = LastOf(r) - First(r) + 1
         /\ RowsOf(r) = [i \in 1..NumberOfRows(r) |->
                          [value |-> First(r) + i - 1, cidr |-> EndNetwork(r)]]
<1>1. NumberOfRows(r) = LastOf(r) - First(r) + 1
  BY DEF NumberOfRows, LastOf, Ends, Top, First, Size
<1>2. RowsOf(r) = [i \in 1..NumberOfRows(r) |->
                     [value |-> First(r) + i - 1, cidr |-> EndNetwork(r)]]
  BY DEF RowsOf, Accepted, First
<1>. QED
  BY <1>1, <1>2, LastFacts

-----------------------------------------------------------------------------
(* The reference, range by range.                                          *)

NetworkSet == [v4 : BOOLEAN, mask : Nat, prefix : Nat]

ValueRow == [value : Nat, cidr : NetworkSet]

\* f[k] are the first k sequences of s, one behind the other.
Joins(f, s, T) ==
  /\ f \in [0..Len(s) -> Seq(T)] /\ f[0] = <<>>
  /\ \A k \in 1..Len(s) : f[k] = f[k-1] \o s[k]

LEMMA FlattenJoins ==
  ASSUME NEW T, NEW s \in Seq(Seq(T))
  PROVE  \E f : Joins(f, s, T) /\ FlattenSeq(s) = f[Len(s)]
<1>. DEFINE n == Len(s)
            step == [x \in Nat \X Seq(T) |-> IF x[1] \in 1..n THEN x[2] \o s[x[1]] ELSE <<>>]
            IsFlat(u) == u = [i \in 1..n |-> IF i = 1 THEN s[i] ELSE u[i-1] \o s[i]]
            w == CHOOSE u : IsFlat(u)
<1>0. n \in Nat /\ \A k \in 1..n : s[k] \in Seq(T)
  OBVIOUS
<1>1. <<>> \in Seq(T) /\ step \in [Nat \X Seq(T) -> Seq(T)]
  BY <1>0
<1>2. PICK f : Iterates(f, Seq(T), <<>>, step, n)
  <2>. HIDE DEF step
  <2>. QED
    BY <1>0, <1>1, Recursion
<1>3. ASSUME NEW k \in 1..n
      PROVE  f[k] = f[k-1] \o s[k] /\ f[k-1] \in Seq(T) /\ f[k] \in Seq(T)
  <2>1. k - 1 \in 0..n /\ k \in 0..n /\ k \in Nat
    BY <1>0
  <2>2. f[k-1] \in Seq(T) /\ f[k] \in Seq(T) /\ f[k] = step[<<k, f[k-1]>>]
    BY <1>2, <2>1 DEF Iterates
  <2>. QED
    BY <2>1, <2>2
<1>4. f \in [0..n -> Seq(T)] /\ f[0] = <<>>
  BY <1>2 DEF Iterates
<1>5. Joins(f, s, T)
  BY <1>3, <1>4 DEF Joins
<1>6. CASE n = 0
  <2>1. s = <<>>
    BY <1>6
  <2>2. FlattenSeq(s) = f[Len(s)]
    BY <1>4, <1>6, <2>1 DEF FlattenSeq
  <2>. QED
    BY <1>5, <2>2
<1>7. CASE n # 0
  <2>0. f[1] = s[1]
    <3>1. 1 \in 1..n /\ 1 - 1 = 0
      BY <1>0, <1>7
    <3>2. f[1] = f[0] \o s[1]
      BY <1>3, <3>1
    <3>3. s[1] \in Seq(T)
      BY <1>0, <3>1
    <3>. QED
      BY <1>4, <3>2, <3>3
  <2>. DEFINE u0 == [i \in 1..n |-> f[i]]
  <2>1. IsFlat(u0)
    <3>1. ASSUME NEW i \in 1..n
          PROVE  f[i] = IF i = 1 THEN s[i] ELSE u0[i-1] \o s[i]
      <4>1. CASE i = 1
        BY <2>0, <4>1
      <4>2. CASE i # 1
        <5>1. i - 1 \in 1..n
          BY <1>0, <4>2
        <5>. QED
          BY <1>3, <4>2, <5>1
      <4>. QED
        BY <4>1, <4>2
    <3>. QED
      BY <3>1
  <2>2. IsFlat(w)
    <3>. HIDE DEF IsFlat, u0
    <3>. QED
      BY <2>1
  <2>3. FlattenSeq(s) = w[n]
    BY <1>7 DEF FlattenSeq
  <2>. HIDE DEF w
  <2>. DEFINE S == {k \in Nat : k \in 1..n => w[k] = f[k]}
  <2>4. 0 \in S
    OBVIOUS
  <2>5. ASSUME NEW k \in Nat, k \in S
        PROVE  k + 1 \in S
    <3>. SUFFICES ASSUME k + 1 \in 1..n
                  PROVE  w[k+1] = f[k+1]
      OBVIOUS
    <3>1. w[k+1] = IF k + 1 = 1 THEN s[k+1] ELSE w[(k+1)-1] \o s[k+1]
      BY <2>2
    <3>2. CASE k = 0
      BY <2>0, <3>1, <3>2
    <3>3. CASE k # 0
      <4>1. k \in 1..n /\ (k + 1) - 1 = k /\ k + 1 # 1
        BY <1>0, <3>3
      <4>2. w[k] = f[k]
        BY <2>5, <4>1
      <4>. QED
        BY <1>3, <3>1, <4>1, <4>2
    <3>. QED
      BY <3>2, <3>3
  <2>6. Nat \subseteq S
    <3>. HIDE DEF S
    <3>. QED
      BY <2>4, <2>5, Induction
  <2>7. w[n] = f[n]
    <3>1. n \in Nat /\ n \in 1..n
      BY <1>0, <1>7
    <3>. QED
      BY <2>6, <3>1
  <2>. QED
    BY <1>5, <2>3, <2>7
<1>. QED
  BY <1>6, <1>7

-----------------------------------------------------------------------------
(* The invariant of the loop.                                              *)

PoolRow == [ipaddress : Address, cidr : NetworkSet]

RangeTypeOK ==
  /\ config \in Seq(RangeText) /\ todo \in Seq(RangeText)
  /\ walk \in {<<>>} \cup (Address \X Seq(Address))
  /\ pool \in Seq(PoolRow)

\* The ranges that are done are the first of the configuration.
Done == Len(config) - Len(todo)

TodoInv ==
  /\ Len(todo) <= Len(config)
  /\ \A i \in 1..Len(todo) : todo[i] = config[Done + i]

\* The addresses collected are those of the first rows, and cur is the next.
WalkInv ==
  walk # <<>> =>
    /\ todo # <<>> /\ Accepted(Current) /\ EndNetwork(Current) \in cidrs
    /\ Len(walk[2]) <= NumberOfRows(Current)
    /\ \A i \in 1..Len(walk[2]) : Value(walk[2][i]) = First(Current) + i - 1
    /\ LET next == First(Current) + Len(walk[2])
       IN  Value(walk[1]) = IF next = Total THEN 0 ELSE next

\* The rows as numbers, and what each range of the configuration stands for.
Image(rows) ==
  [i \in DOMAIN rows |-> [value |-> Value(rows[i].ipaddress), cidr |-> rows[i].cidr]]

Blocks == [i \in DOMAIN config |-> RowsOf(config[i])]

PoolInv == \A f : Joins(f, Blocks, ValueRow) => Image(pool) = f[Done]

RowInv ==
  \A i \in 1..Len(pool) :
    /\ pool[i].cidr \in cidrs
    /\ SoundConfig => IsV4(pool[i].ipaddress) /\ NetContains(pool[i].cidr, pool[i].ipaddress)

RangeInv == RangeTypeOK /\ TodoInv /\ WalkInv /\ PoolInv /\ RowInv

LEMMA EndNetworkType ==
  ASSUME NEW r \in RangeText, Parses(r.end, r.endMask)
  PROVE  EndNetwork(r) \in NetworkSet
<1>1. r.end \in Address /\ r.endMask \in Nat /\ r.endMask <= Bits(r.end)
  BY DEF RangeText, Parses
<1>2. Bits(r.end) - r.endMask \in Nat
  BY <1>1, RangeAssumption DEF Bits
<1>. DEFINE s == Pow2[Bits(r.end) - r.endMask]
<1>3. s \in Nat /\ s >= 1 /\ Value(r.end) \in Nat
  BY <1>1, <1>2, Pow2Positive, ValueFacts
<1>4. Value(r.end) \div s \in Nat
  <2>. HIDE DEF s
  <2>. QED
    BY <1>3, Block
<1>5. IsV4(r.end) \in BOOLEAN
  BY DEF IsV4
<1>. QED
  BY <1>1, <1>4, <1>5 DEF EndNetwork, Network, NetworkSet

LEMMA RowsOfType ==
  ASSUME NEW r \in RangeText
  PROVE  RowsOf(r) \in Seq(ValueRow)
<1>1. CASE Accepted(r)
  <2>1. EndNetwork(r) \in NetworkSet
    BY <1>1, EndNetworkType DEF Accepted
  <2>2. NumberOfRows(r) \in Nat /\ First(r) \in Nat
    BY <1>1, RowsOfAccepted, LastFacts
  <2>3. \A i \in 1..NumberOfRows(r) :
          [value |-> First(r) + i - 1, cidr |-> EndNetwork(r)] \in ValueRow
    BY <2>1, <2>2 DEF ValueRow
  <2>4. RowsOf(r) \in [1..NumberOfRows(r) -> ValueRow]
    BY <1>1, <2>3, RowsOfAccepted
  <2>. QED
    BY <2>2, <2>4
<1>2. CASE ~Accepted(r)
  BY <1>2 DEF RowsOf, Accepted
<1>. QED
  BY <1>1, <1>2

LEMMA BlocksType ==
  ASSUME config \in Seq(RangeText)
  PROVE  Blocks \in Seq(Seq(ValueRow)) /\ Len(Blocks) = Len(config)
<1>1. \A i \in 1..Len(config) : RowsOf(config[i]) \in Seq(ValueRow)
  BY RowsOfType
<1>2. Blocks = [i \in 1..Len(config) |-> RowsOf(config[i])]
  BY DEF Blocks
<1>. QED
  BY <1>1, <1>2

LEMMA InitInv ==
  ASSUME Init
  PROVE  RangeInv
<1>1. config \in Seq(RangeText) /\ todo = config /\ walk = <<>> /\ pool = <<>>
  BY RangeAssumption DEF Init
<1>2. RangeTypeOK /\ WalkInv /\ RowInv
  BY <1>1 DEF RangeTypeOK, WalkInv, RowInv
<1>3. Done = 0 /\ TodoInv
  BY <1>1 DEF Done, TodoInv
<1>4. Image(pool) = <<>>
  BY <1>1 DEF Image
<1>5. PoolInv
  BY <1>3, <1>4 DEF PoolInv, Joins
<1>. QED
  BY <1>2, <1>3, <1>5 DEF RangeInv

\* The range that is worked on is the next of the configuration.
LEMMA CurrentFacts ==
  ASSUME RangeTypeOK, TodoInv, todo # <<>>
  PROVE  /\ Done + 1 \in 1..Len(config) /\ Done \in Nat
         /\ Current = config[Done + 1] /\ Current \in RangeText
<1>1. Len(todo) \in Nat /\ Len(todo) >= 1 /\ Len(config) \in Nat
  BY DEF RangeTypeOK
<1>2. Done + 1 \in 1..Len(config) /\ Done \in Nat
  BY <1>1 DEF Done, TodoInv
<1>3. Current = todo[1] /\ todo[1] = config[Done + 1] /\ todo[1] \in RangeText
  BY <1>1 DEF Current, TodoInv, RangeTypeOK
<1>. QED
  BY <1>2, <1>3

\* A range that is done makes the next one current, and its rows come last.
LEMMA NextRange ==
  ASSUME RangeTypeOK, TodoInv, todo # <<>>, todo' = Tail(todo), config' = config
  PROVE  /\ todo' \in Seq(RangeText) /\ TodoInv' /\ Done' = Done + 1
         /\ Blocks' = Blocks
         /\ \A f : Joins(f, Blocks, ValueRow) =>
              f[Done'] = f[Done] \o RowsOf(Current) /\ f[Done] \in Seq(ValueRow)
<1>1. /\ todo' \in Seq(RangeText) /\ Len(todo') = Len(todo) - 1
      /\ \A i \in 1..Len(todo) - 1 : todo'[i] = todo[i+1]
      /\ Len(todo) \in Nat /\ Len(todo) >= 1 /\ Len(config) \in Nat
  BY DEF RangeTypeOK
<1>2. Done' = Done + 1
  BY <1>1 DEF Done
<1>3. TodoInv'
  <2>1. Len(todo') <= Len(config')
    BY <1>1 DEF TodoInv
  <2>2. ASSUME NEW i \in 1..Len(todo')
        PROVE  todo'[i] = config'[Done' + i]
    <3>1. i + 1 \in 1..Len(todo) /\ todo'[i] = todo[i+1]
      BY <1>1
    <3>2. todo[i+1] = config[Done + (i + 1)]
      BY <3>1 DEF TodoInv
    <3>3. Done + (i + 1) = Done' + i
      BY <1>1, <1>2 DEF Done
    <3>. QED
      BY <3>1, <3>2, <3>3
  <2>. QED
    BY <2>1, <2>2 DEF TodoInv
<1>4. Blocks' = Blocks
  BY DEF Blocks
<1>5. ASSUME NEW f, Joins(f, Blocks, ValueRow)
      PROVE  f[Done'] = f[Done] \o RowsOf(Current) /\ f[Done] \in Seq(ValueRow)
  <2>1. /\ Done + 1 \in 1..Len(config) /\ Done \in Nat /\ Current = config[Done + 1]
        /\ Len(Blocks) = Len(config) /\ (Done + 1) - 1 = Done
    BY CurrentFacts, BlocksType DEF RangeTypeOK
  <2>2. f[Done+1] = f[Done] \o Blocks[Done+1] /\ f[Done] \in Seq(ValueRow)
    <3>1. ASSUME NEW d \in Nat, d + 1 \in 1..Len(config)
          PROVE  f[d+1] = f[d] \o Blocks[d+1] /\ f[d] \in Seq(ValueRow)
      <4>1. d + 1 \in 1..Len(Blocks) /\ d \in 0..Len(Blocks) /\ (d + 1) - 1 = d
        BY <2>1, <3>1
      <4>2. f[d+1] = f[(d+1)-1] \o Blocks[d+1]
        BY <1>5, <4>1 DEF Joins
      <4>3. f[d] \in Seq(ValueRow)
        BY <1>5, <4>1 DEF Joins
      <4>. QED
        BY <4>1, <4>2, <4>3
    <3>. QED
      BY <2>1, <3>1
  <2>3. Blocks[Done+1] = RowsOf(Current)
    BY <2>1 DEF Blocks, RangeTypeOK
  <2>. QED
    BY <1>2, <2>2, <2>3
<1>. QED
  BY <1>1, <1>2, <1>3, <1>4, <1>5

LEMMA SkipKeeps ==
  ASSUME RangeInv, SkipMalformed
  PROVE  RangeInv'
<1>1. /\ walk = <<>> /\ walk' = walk /\ todo # <<>> /\ todo' = Tail(todo)
      /\ cidrs' = cidrs /\ pool' = pool /\ config' = config
  BY DEF SkipMalformed
<1>2. RowsOf(Current) = <<>>
  BY DEF SkipMalformed, RowsOf
<1>3. /\ todo' \in Seq(RangeText) /\ TodoInv' /\ Blocks' = Blocks
      /\ \A f : Joins(f, Blocks, ValueRow) =>
            f[Done'] = f[Done] \o RowsOf(Current) /\ f[Done] \in Seq(ValueRow)
  BY <1>1, NextRange DEF RangeInv
<1>4. PoolInv'
  <2>1. \A f : Joins(f, Blocks, ValueRow) => f[Done'] = f[Done]
    BY <1>2, <1>3
  <2>2. Image(pool') = Image(pool)
    BY <1>1
  <2>. QED
    BY <1>3, <2>1, <2>2 DEF RangeInv, PoolInv
<1>. QED
  BY <1>1, <1>3, <1>4 DEF RangeInv, RangeTypeOK, WalkInv, RowInv, SoundConfig

LEMMA BeginKeeps ==
  ASSUME RangeInv, BeginRange
  PROVE  RangeInv'
<1>1. /\ walk = <<>> /\ todo # <<>>
      /\ ~Malformed(Current) /\ Parses(Current.end, Current.endMask)
      /\ cidrs' = cidrs \cup {EndNetwork(Current)}
      /\ pool' = pool /\ config' = config
  BY DEF BeginRange
<1>2. RowInv'
  BY <1>1 DEF RangeInv, RowInv, SoundConfig
<1>3. CASE ~Parses(Current.start, Current.startMask)
  <2>1. walk' = walk /\ todo' = Tail(todo)
    BY <1>3 DEF BeginRange
  <2>2. RowsOf(Current) = <<>>
    BY <1>3 DEF RowsOf
  <2>3. /\ todo' \in Seq(RangeText) /\ TodoInv' /\ Blocks' = Blocks
        /\ \A f : Joins(f, Blocks, ValueRow) =>
              f[Done'] = f[Done] \o RowsOf(Current) /\ f[Done] \in Seq(ValueRow)
    BY <1>1, <2>1, NextRange DEF RangeInv
  <2>4. PoolInv'
    <3>1. \A f : Joins(f, Blocks, ValueRow) => f[Done'] = f[Done]
      BY <2>2, <2>3
    <3>2. Image(pool') = Image(pool)
      BY <1>1
    <3>. QED
      BY <2>3, <3>1, <3>2 DEF RangeInv, PoolInv
  <2>. QED
    BY <1>1, <1>2, <2>1, <2>3, <2>4 DEF RangeInv, RangeTypeOK, WalkInv
<1>4. CASE Parses(Current.start, Current.startMask)
  <2>1. walk' = <<Current.start, <<>>>> /\ todo' = todo
    BY <1>4 DEF BeginRange
  <2>2. Current \in RangeText /\ Accepted(Current) /\ Current' = Current
    BY <1>1, <1>4, <2>1, CurrentFacts DEF RangeInv, Accepted, Current
  <2>3. Current.start \in Address
    BY <2>2, AcceptedFacts
  <2>4. RangeTypeOK'
    <3>1. walk' \in Address \X Seq(Address)
      <4>1. <<>> \in Seq(Address)
        OBVIOUS
      <4>2. \A a \in Address, s \in Seq(Address) : <<a, s>> \in Address \X Seq(Address)
        OBVIOUS
      <4>. QED
        BY <2>1, <2>3, <4>1, <4>2, Zenon
    <3>2. walk' \in {<<>>} \cup (Address \X Seq(Address))
      BY <3>1
    <3>3. config' = config /\ todo' = todo /\ pool' = pool
      BY <1>1, <2>1
    <3>. QED
      BY <3>2, <3>3, Zenon DEF RangeInv, RangeTypeOK
  <2>5. Done' = Done /\ TodoInv' /\ PoolInv'
    BY <1>1, <2>1 DEF RangeInv, Done, TodoInv, PoolInv, Blocks, Image
  <2>6. WalkInv'
    <3>1. NumberOfRows(Current) \in Nat /\ First(Current) \in Nat /\ Value(Current.start) < Total
      BY <2>2, <2>3, RowsOfAccepted, LastFacts, ValueFacts
    <3>2. Total \in Nat
      BY <2>2, TopFacts
    <3>3. walk'[1] = Current.start /\ walk'[2] = <<>> /\ Len(walk'[2]) = 0
      BY <2>1
    <3>4. First(Current) + 0 = First(Current) /\ First(Current) = Value(Current.start)
      BY <3>1 DEF First
    <3>. QED
      BY <1>1, <2>1, <2>2, <3>1, <3>2, <3>3, <3>4 DEF WalkInv
  <2>. QED
    BY <1>2, <2>4, <2>5, <2>6 DEF RangeInv
<1>. QED
  BY <1>3, <1>4

LEMMA WalkType ==
  ASSUME RangeTypeOK, walk # <<>>
  PROVE  /\ walk[1] \in Address /\ walk[2] \in Seq(Address)
         /\ Len(walk[2]) \in Nat /\ \A i \in 1..Len(walk[2]) : walk[2][i] \in Address
<1>1. walk \in Address \X Seq(Address)
  BY DEF RangeTypeOK
<1>. QED
  BY <1>1

\* The loop stops when it has collected the addresses of all rows, and not before.
LEMMA WalkEnds ==
  ASSUME RangeInv, walk # <<>>
  PROVE  AtEnd \/ ~NetContains(StartNetwork(Current), walk[1])
           <=> Len(walk[2]) = NumberOfRows(Current)
<1>. DEFINE r == Current
            ips == walk[2]
            k == Len(walk[2])
            n == NumberOfRows(Current)
<1>1. r \in RangeText /\ Accepted(r) /\ k <= n
  BY CurrentFacts DEF RangeInv, WalkInv
<1>2. walk[1] \in Address /\ ips \in Seq(Address) /\ k \in Nat
  BY WalkType DEF RangeInv
<1>3. /\ n \in Nat /\ n = LastOf(r) - First(r) + 1 /\ First(r) \in Nat /\ LastOf(r) \in Nat
      /\ First(r) <= LastOf(r) /\ LastOf(r) < Total /\ Total \in Nat
  BY <1>1, RowsOfAccepted, LastFacts, TopFacts
<1>4. /\ Value(walk[1]) = IF First(r) + k = Total THEN 0 ELSE First(r) + k
      /\ \A i \in 1..k : Value(ips[i]) = First(r) + i - 1
  BY DEF RangeInv, WalkInv
<1>5. ips = <<>> <=> k = 0
  BY <1>2
<1>6. k >= 1 => Last(ips) = ips[k] /\ ips[k] \in Address /\ Value(ips[k]) = First(r) + k - 1
  BY <1>2, <1>4 DEF Last
<1>7. AtEnd <=> k >= 1 /\ ips[k] = r.end
  BY <1>2, <1>5, <1>6 DEF AtEnd
<1>. HIDE DEF r, ips, k, n
<1>8. k >= 1 => (ips[k] = r.end <=> Ends(r) /\ k = n)
  <2>. SUFFICES ASSUME k >= 1
                PROVE  ips[k] = r.end <=> Ends(r) /\ k = n
    OBVIOUS
  <2>1. /\ First(r) <= Value(ips[k]) /\ Value(ips[k]) <= LastOf(r)
        /\ Value(ips[k]) = LastOf(r) <=> k = n
    BY <1>1, <1>2, <1>3, <1>6
  <2>. QED
    BY <1>1, <1>6, <2>1, InsideRange
<1>9. ASSUME k = n
      PROVE  AtEnd \/ ~NetContains(StartNetwork(r), walk[1])
  <2>1. k >= 1 /\ First(r) + k = LastOf(r) + 1
    BY <1>3, <1>9
  <2>2. CASE Ends(r)
    BY <1>7, <1>8, <1>9, <2>1, <2>2
  <2>3. CASE ~Ends(r)
    BY <1>1, <1>2, <1>4, <2>1, <2>3, BeyondRange
  <2>. QED
    BY <2>2, <2>3
<1>10. ASSUME k # n
       PROVE  ~AtEnd /\ NetContains(StartNetwork(r), walk[1])
  <2>1. First(r) + k \in Nat /\ First(r) <= First(r) + k /\ First(r) + k <= LastOf(r)
    BY <1>1, <1>2, <1>3, <1>10
  <2>2. Value(walk[1]) = First(r) + k
    BY <1>3, <1>4, <2>1
  <2>3. NetContains(StartNetwork(r), walk[1])
    BY <1>1, <1>2, <2>1, <2>2, InsideRange
  <2>. QED
    BY <1>7, <1>8, <1>10, <2>3
<1>. QED
  BY <1>9, <1>10 DEF r, k, n

LEMMA CollectKeeps ==
  ASSUME RangeInv, Collect
  PROVE  RangeInv'
<1>. DEFINE r == Current
            k == Len(walk[2])
<1>1. /\ walk # <<>> /\ walk' = <<inc(walk[1]), Append(walk[2], walk[1])>>
      /\ todo' = todo /\ cidrs' = cidrs /\ pool' = pool /\ config' = config
      /\ ~AtEnd /\ NetContains(StartNetwork(r), walk[1])
  BY DEF Collect
<1>2. /\ walk[1] \in Address /\ walk[2] \in Seq(Address) /\ k \in Nat
      /\ \A i \in 1..k : walk[2][i] \in Address
  BY <1>1, WalkType DEF RangeInv
<1>3. /\ r \in RangeText /\ Accepted(r) /\ k <= NumberOfRows(r) /\ r' = r /\ todo # <<>>
      /\ EndNetwork(r) \in cidrs
      /\ \A i \in 1..k : Value(walk[2][i]) = First(r) + i - 1
      /\ Value(walk[1]) = IF First(r) + k = Total THEN 0 ELSE First(r) + k
  BY <1>1, CurrentFacts DEF RangeInv, WalkInv, Current
<1>4. k # NumberOfRows(r)
  BY <1>1, WalkEnds
<1>5. /\ NumberOfRows(r) \in Nat /\ NumberOfRows(r) = LastOf(r) - First(r) + 1
      /\ First(r) \in Nat /\ LastOf(r) \in Nat /\ LastOf(r) < Total /\ Total \in Nat
  BY <1>3, RowsOfAccepted, LastFacts, TopFacts
<1>6. Value(walk[1]) = First(r) + k /\ k + 1 <= NumberOfRows(r)
  BY <1>2, <1>3, <1>4, <1>5
<1>7. /\ inc(walk[1]) \in Address
      /\ Value(inc(walk[1])) = IF First(r) + k + 1 = Total THEN 0 ELSE First(r) + k + 1
  BY <1>2, <1>6, IncFacts
<1>8. RangeTypeOK'
  <2>1. walk' \in Address \X Seq(Address)
    <3>1. Append(walk[2], walk[1]) \in Seq(Address)
      BY <1>2
    <3>2. \A a \in Address, s \in Seq(Address) : <<a, s>> \in Address \X Seq(Address)
      OBVIOUS
    <3>. QED
      BY <1>1, <1>7, <3>1, <3>2, Zenon
  <2>2. walk' \in {<<>>} \cup (Address \X Seq(Address))
    BY <2>1
  <2>. QED
    BY <1>1, <2>2, Zenon DEF RangeInv, RangeTypeOK
<1>9. WalkInv'
  <2>1. /\ walk'[1] = inc(walk[1]) /\ walk'[2] = Append(walk[2], walk[1])
        /\ Len(walk'[2]) = k + 1
    BY <1>1, <1>2
  <2>2. ASSUME NEW i \in 1..k+1
        PROVE  Value(walk'[2][i]) = First(r) + i - 1
    <3>1. CASE i \in 1..k
      <4>1. walk'[2][i] = walk[2][i]
        BY <1>2, <2>1, <3>1
      <4>. QED
        BY <1>3, <3>1, <4>1
    <3>2. CASE i = k + 1
      <4>1. walk'[2][i] = walk[1]
        BY <1>2, <2>1, <3>2
      <4>. QED
        BY <1>2, <1>5, <1>6, <3>2, <4>1
    <3>. QED
      BY <1>2, <3>1, <3>2
  <2>3. First(r) + (k + 1) = First(r) + k + 1
    BY <1>2, <1>5
  <2>4. /\ todo' # <<>> /\ Current' = r /\ Accepted(r) /\ EndNetwork(r) \in cidrs'
        /\ Len(walk'[2]) <= NumberOfRows(r)
    BY <1>1, <1>3, <1>6, <2>1
  <2>5. Value(walk'[1]) = IF First(r) + Len(walk'[2]) = Total THEN 0
                          ELSE First(r) + Len(walk'[2])
    BY <1>7, <2>1, <2>3
  <2>6. \A i \in 1..Len(walk'[2]) : Value(walk'[2][i]) = First(r) + i - 1
    BY <2>1, <2>2
  <2>. HIDE DEF r, k
  <2>. QED
    BY <2>4, <2>5, <2>6 DEF WalkInv
<1>10. TodoInv' /\ PoolInv'
  <2>1. Done' = Done /\ Blocks' = Blocks /\ Image(pool') = Image(pool)
    BY <1>1 DEF Done, Blocks
  <2>. QED
    BY <1>1, <2>1 DEF RangeInv, TodoInv, PoolInv
<1>11. RowInv'
  BY <1>1 DEF RangeInv, RowInv, SoundConfig
<1>. QED
  BY <1>8, <1>9, <1>10, <1>11 DEF RangeInv

LEMMA Concatenation ==
  ASSUME NEW T, NEW s \in Seq(T), NEW t \in Seq(T)
  PROVE  /\ s \o t \in Seq(T) /\ Len(s \o t) = Len(s) + Len(t)
         /\ s \o t = [i \in 1..Len(s) + Len(t) |-> (s \o t)[i]]
<1>1. s \o t \in Seq(T) /\ Len(s \o t) = Len(s) + Len(t)
  OBVIOUS
<1>2. \A u \in Seq(T) : u = [i \in 1..Len(u) |-> u[i]]
  OBVIOUS
<1>. QED
  BY <1>1, <1>2

LEMMA InsertKeeps ==
  ASSUME RangeInv, InsertIP
  PROVE  RangeInv'
<1>. DEFINE r == Current
            ips == walk[2]
            k == Len(walk[2])
            new == [i \in DOMAIN walk[2] |-> [ipaddress |-> walk[2][i], cidr |-> EndNetwork(r)]]
<1>1. /\ walk # <<>> /\ walk' = <<>> /\ todo' = Tail(todo)
      /\ AtEnd \/ ~NetContains(StartNetwork(r), walk[1])
      /\ pool' = pool \o new /\ cidrs' = cidrs /\ config' = config
  BY DEF InsertIP
<1>2. /\ ips \in Seq(Address) /\ k \in Nat /\ DOMAIN ips = 1..k
      /\ \A i \in 1..k : ips[i] \in Address
  BY <1>1, WalkType DEF RangeInv
<1>3. /\ r \in RangeText /\ Accepted(r) /\ todo # <<>>
      /\ EndNetwork(r) \in cidrs
      /\ \A i \in 1..k : Value(ips[i]) = First(r) + i - 1
      /\ Done + 1 \in DOMAIN config /\ r = config[Done + 1]
  BY <1>1, CurrentFacts DEF RangeInv, WalkInv, RangeTypeOK
<1>4. k = NumberOfRows(r)
  BY <1>1, WalkEnds
<1>5. /\ NumberOfRows(r) \in Nat /\ NumberOfRows(r) = LastOf(r) - First(r) + 1
      /\ First(r) \in Nat /\ LastOf(r) \in Nat
      /\ RowsOf(r) = [i \in 1..k |-> [value |-> First(r) + i - 1, cidr |-> EndNetwork(r)]]
  BY <1>3, <1>4, RowsOfAccepted, LastFacts
<1>6. EndNetwork(r) \in NetworkSet
  BY <1>3, EndNetworkType DEF Accepted
<1>7. new \in Seq(PoolRow) /\ Len(new) = k
      /\ \A i \in 1..k : new[i] = [ipaddress |-> ips[i], cidr |-> EndNetwork(r)]
  <2>1. new = [i \in 1..k |-> [ipaddress |-> ips[i], cidr |-> EndNetwork(r)]]
    BY <1>2
  <2>2. \A i \in 1..k : [ipaddress |-> ips[i], cidr |-> EndNetwork(r)] \in PoolRow
    BY <1>2, <1>6 DEF PoolRow
  <2>. HIDE DEF new
  <2>. QED
    BY <1>2, <2>1, <2>2
<1>8. /\ todo' \in Seq(RangeText) /\ TodoInv' /\ Blocks' = Blocks
      /\ \A f : Joins(f, Blocks, ValueRow) =>
            f[Done'] = f[Done] \o RowsOf(r) /\ f[Done] \in Seq(ValueRow)
  BY <1>1, <1>3, NextRange DEF RangeInv
<1>. HIDE DEF r, ips, k, new
<1>9. pool \in Seq(PoolRow) /\ pool' \in Seq(PoolRow) /\ Len(pool') = Len(pool) + k
  <2>1. pool \in Seq(PoolRow)
    BY DEF RangeInv, RangeTypeOK
  <2>2. pool \o new \in Seq(PoolRow) /\ Len(pool \o new) = Len(pool) + Len(new)
    BY <1>7, <2>1, Concatenation
  <2>. QED
    BY <1>1, <1>7, <2>1, <2>2
<1>10. /\ Len(pool) \in Nat
       /\ \A i \in 1..Len(pool) : pool'[i] = pool[i] /\ pool[i] \in PoolRow
       /\ \A i \in 1..k : pool'[Len(pool) + i] = new[i]
       /\ \A i \in 1..Len(pool') : i \in 1..Len(pool) \/ \E j \in 1..k : i = Len(pool) + j
  <2>1. Len(pool) \in Nat
    BY <1>9
  <2>2. \A i \in 1..Len(pool) : pool'[i] = pool[i] /\ pool[i] \in PoolRow
    BY <1>1, <1>7, <1>9
  <2>3. ASSUME NEW i \in 1..k
        PROVE  pool'[Len(pool) + i] = new[i]
    BY <1>1, <1>2, <1>7, <1>9
  <2>4. ASSUME NEW i \in 1..Len(pool'), i \notin 1..Len(pool)
        PROVE  \E j \in 1..k : i = Len(pool) + j
    <3>1. i - Len(pool) \in 1..k /\ i = Len(pool) + (i - Len(pool))
      BY <1>2, <1>9, <2>1, <2>4
    <3>. QED
      BY <3>1
  <2>. QED
    BY <2>1, <2>2, <2>3, <2>4
<1>11. PoolInv'
  <2>. DEFINE rows == RowsOf(r)
              old == Image(pool)
              Row(p) == [value |-> Value(p.ipaddress), cidr |-> p.cidr]
  <2>1. /\ Image(pool') = [i \in 1..Len(pool) + k |-> Row(pool'[i])]
        /\ old = [i \in 1..Len(pool) |-> Row(pool[i])]
    BY <1>9 DEF Image
  <2>2. old \in Seq(ValueRow) /\ Len(old) = Len(pool)
    <3>1. ASSUME NEW p \in PoolRow
          PROVE  Row(p) \in ValueRow
      <4>1. p.ipaddress \in Address /\ p.cidr \in NetworkSet
        BY DEF PoolRow
      <4>. QED
        BY <4>1, ValueFacts DEF ValueRow
    <3>. HIDE DEF old, Row
    <3>. QED
      BY <1>10, <2>1, <3>1
  <2>3. /\ rows = [i \in 1..k |-> [value |-> First(r) + i - 1, cidr |-> EndNetwork(r)]]
        /\ rows \in Seq(ValueRow) /\ Len(rows) = k
    <3>1. rows \in Seq(ValueRow)
      BY <1>3, RowsOfType
    <3>. QED
      BY <1>2, <1>5, <3>1
  <2>4. ASSUME NEW i \in 1..Len(pool) + k
        PROVE  Row(pool'[i]) = (old \o rows)[i]
    <3>1. CASE i \in 1..Len(pool)
      <4>1. (old \o rows)[i] = old[i]
        <5>. HIDE DEF old, rows
        <5>. QED
          BY <2>2, <2>3, <3>1
      <4>. HIDE DEF Row
      <4>. QED
        BY <1>10, <2>1, <3>1, <4>1
    <3>2. CASE i \notin 1..Len(pool)
      <4>1. PICK j \in 1..k : i = Len(pool) + j
        BY <1>9, <1>10, <3>2
      <4>2. (old \o rows)[i] = rows[j]
        <5>. HIDE DEF old, rows
        <5>. QED
          BY <1>2, <1>10, <2>2, <2>3, <4>1
      <4>3. pool'[i] = [ipaddress |-> ips[j], cidr |-> EndNetwork(r)]
        BY <1>7, <1>10, <4>1
      <4>4. Row(pool'[i]) = [value |-> Value(ips[j]), cidr |-> EndNetwork(r)]
        BY <4>3
      <4>5. Value(ips[j]) = First(r) + j - 1
        BY <1>3, <4>1
      <4>6. rows[j] = [value |-> First(r) + j - 1, cidr |-> EndNetwork(r)]
        BY <2>3, <4>1
      <4>. QED
        BY <4>2, <4>4, <4>5, <4>6
    <3>. QED
      BY <3>1, <3>2
  <2>5. Image(pool') = old \o rows
    <3>1. old \o rows = [i \in 1..Len(pool) + k |-> (old \o rows)[i]]
      <4>. HIDE DEF old, rows
      <4>1. old \o rows = [i \in 1..Len(old) + Len(rows) |-> (old \o rows)[i]]
        <5>1. old \in Seq(ValueRow) /\ rows \in Seq(ValueRow)
          BY <2>2, <2>3
        <5>2. \A s, t \in Seq(ValueRow) : s \o t = [i \in 1..Len(s) + Len(t) |-> (s \o t)[i]]
          BY Concatenation
        <5>. QED
          BY <5>1, <5>2
      <4>. QED
        BY <2>2, <2>3, <4>1, Zenon
    <3>. HIDE DEF old, rows, Row
    <3>. QED
      BY <2>1, <2>4, <3>1
  <2>6. ASSUME NEW f, Joins(f, Blocks, ValueRow)
        PROVE  Image(pool') = f[Done']
    <3>1. f[Done] = old
      BY <2>6 DEF RangeInv, PoolInv
    <3>. QED
      BY <1>8, <2>5, <2>6, <3>1
  <2>. QED
    BY <1>8, <2>6 DEF PoolInv
<1>12. RowInv'
  <2>. SUFFICES ASSUME NEW i \in 1..Len(pool')
                PROVE  /\ pool'[i].cidr \in cidrs
                       /\ SoundConfig => /\ IsV4(pool'[i].ipaddress)
                                         /\ NetContains(pool'[i].cidr, pool'[i].ipaddress)
    BY <1>1 DEF RowInv, SoundConfig
  <2>1. CASE i \in 1..Len(pool)
    BY <1>10, <2>1 DEF RangeInv, RowInv
  <2>2. CASE i \notin 1..Len(pool)
    <3>1. PICK j \in 1..k : i = Len(pool) + j
      BY <1>10, <2>2
    <3>2. pool'[i] = [ipaddress |-> ips[j], cidr |-> EndNetwork(r)]
      BY <1>7, <1>10, <3>1
    <3>3. ips[j] \in Address /\ First(r) <= Value(ips[j]) /\ Value(ips[j]) <= LastOf(r)
      BY <1>2, <1>3, <1>4, <1>5, <3>1
    <3>4. NetContains(StartNetwork(r), ips[j]) /\ IsV4(ips[j]) = IsV4(r.start)
      BY <1>3, <3>3, InsideRange
    <3>5. SoundConfig => IsV4(r.start) /\ StartNetwork(r) = EndNetwork(r)
      <4>1. RowsOf(r) # <<>>
        BY <1>5, <3>1
      <4>. QED
        BY <1>3, <4>1 DEF SoundConfig
    <3>. QED
      BY <1>3, <3>2, <3>4, <3>5
  <2>. QED
    BY <2>1, <2>2
<1>13. RangeTypeOK' /\ WalkInv'
  BY <1>1, <1>8, <1>9 DEF RangeInv, RangeTypeOK, WalkInv
<1>. QED
  BY <1>8, <1>11, <1>12, <1>13 DEF RangeInv

LEMMA Flattened ==
  ASSUME RangeInv
  PROVE  PoolIsRanges
<1>. SUFFICES ASSUME todo = <<>>
              PROVE  Image(pool) = FlattenSeq(Blocks)
  BY DEF PoolIsRanges, Image, Blocks
<1>1. Blocks \in Seq(Seq(ValueRow)) /\ Len(Blocks) = Len(config) /\ Len(config) \in Nat
  BY BlocksType DEF RangeInv, RangeTypeOK
<1>2. Done = Len(Blocks)
  BY <1>1 DEF Done
<1>3. PICK f : Joins(f, Blocks, ValueRow) /\ FlattenSeq(Blocks) = f[Len(Blocks)]
  BY <1>1, FlattenJoins
<1>. QED
  BY <1>2, <1>3 DEF RangeInv, PoolInv

-----------------------------------------------------------------------------
(* Sound ranges.                                                           *)

\* No number is in two of the rows, each of which is one of the first k ranges'.
Distinct(rows, k) ==
  /\ \A i \in 1..Len(rows) : \E m \in 1..k : \E a \in DOMAIN Blocks[m] :
       rows[i].value = Blocks[m][a].value
  /\ \A i, j \in 1..Len(rows) : rows[i].value = rows[j].value => i = j

LEMMA OneBlock ==
  ASSUME NEW r \in RangeText, NEW i \in DOMAIN RowsOf(r), NEW j \in DOMAIN RowsOf(r),
         RowsOf(r)[i].value = RowsOf(r)[j].value
  PROVE  i = j
<1>1. Accepted(r)
  BY DEF RowsOf, Accepted
<1>2. /\ RowsOf(r) = [a \in 1..NumberOfRows(r) |->
                        [value |-> First(r) + a - 1, cidr |-> EndNetwork(r)]]
      /\ NumberOfRows(r) \in Nat /\ First(r) \in Nat
  BY <1>1, RowsOfAccepted, LastFacts
<1>3. /\ i \in 1..NumberOfRows(r) /\ j \in 1..NumberOfRows(r)
      /\ RowsOf(r)[i].value = First(r) + i - 1 /\ RowsOf(r)[j].value = First(r) + j - 1
  BY <1>2
<1>. QED
  BY <1>2, <1>3

LEMMA JoinsDistinct ==
  ASSUME RangeTypeOK, SoundConfig, NEW f, Joins(f, Blocks, ValueRow), NEW n \in 0..Len(config)
  PROVE  Distinct(f[n], n)
<1>. DEFINE S == {k \in Nat : k <= Len(config) => Distinct(f[k], k)}
<1>0. /\ Blocks \in Seq(Seq(ValueRow)) /\ Len(Blocks) = Len(config) /\ Len(config) \in Nat
      /\ \A m \in 1..Len(config) : Blocks[m] = RowsOf(config[m]) /\ Blocks[m] \in Seq(ValueRow)
  <2>1. config \in Seq(RangeText)
    BY DEF RangeTypeOK
  <2>2. Blocks \in Seq(Seq(ValueRow)) /\ Len(Blocks) = Len(config)
    BY <2>1, BlocksType
  <2>3. \A m \in 1..Len(config) : Blocks[m] = RowsOf(config[m])
    BY <2>1 DEF Blocks
  <2>. QED
    BY <2>1, <2>2, <2>3
<1>1. 0 \in S
  BY DEF Joins, Distinct
<1>2. ASSUME NEW k \in Nat, k \in S
      PROVE  k + 1 \in S
  <2>. SUFFICES ASSUME k + 1 <= Len(config)
                PROVE  Distinct(f[k+1], k+1)
    OBVIOUS
  <2>. DEFINE s == f[k]
              t == Blocks[k+1]
  <2>1. k + 1 \in 1..Len(config) /\ k \in 0..Len(config) /\ (k + 1) - 1 = k /\ k + 1 \in 0..Len(config)
    BY <1>0
  <2>2. f[k+1] = s \o t /\ s \in Seq(ValueRow) /\ t \in Seq(ValueRow)
    BY <1>0, <2>1 DEF Joins
  <2>3. Distinct(s, k)
    BY <1>0, <1>2
  <2>4. t = RowsOf(config[k+1]) /\ config[k+1] \in RangeText /\ k + 1 \in DOMAIN config
    BY <1>0, <2>1 DEF RangeTypeOK
  <2>. HIDE DEF s, t
  <2>5. /\ Len(s \o t) = Len(s) + Len(t) /\ Len(s) \in Nat /\ Len(t) \in Nat
        /\ DOMAIN t = 1..Len(t)
        /\ \A i \in 1..Len(s) : (s \o t)[i] = s[i]
        /\ \A i \in 1..Len(s) + Len(t) :
             i \in 1..Len(s) \/ \E a \in 1..Len(t) : i = Len(s) + a /\ (s \o t)[i] = t[a]
    <3>1. ASSUME NEW i \in 1..Len(s) + Len(t), i \notin 1..Len(s)
          PROVE  \E a \in 1..Len(t) : i = Len(s) + a /\ (s \o t)[i] = t[a]
      <4>1. i - Len(s) \in 1..Len(t) /\ i = Len(s) + (i - Len(s))
        BY <2>2, <3>1
      <4>2. (s \o t)[i] = t[i - Len(s)]
        BY <2>2, <3>1
      <4>. QED
        BY <4>1, <4>2
    <3>. QED
      BY <2>2, <3>1
  \* No number of the new block is in an earlier one.
  <2>6. ASSUME NEW i \in 1..Len(s), NEW a \in 1..Len(t), s[i].value = t[a].value
        PROVE  FALSE
    <3>1. PICK m \in 1..k : \E b \in DOMAIN Blocks[m] : s[i].value = Blocks[m][b].value
      BY <2>3 DEF Distinct
    <3>2. PICK b \in DOMAIN Blocks[m] : s[i].value = Blocks[m][b].value
      BY <3>1
    <3>3. m \in 1..Len(config) /\ m \in DOMAIN config /\ m # k + 1
      BY <1>0, <2>1 DEF RangeTypeOK
    <3>4. b \in DOMAIN RowsOf(config[m]) /\ a \in DOMAIN RowsOf(config[k+1])
      BY <1>0, <2>4, <2>5, <3>3
    <3>5. RowsOf(config[m])[b].value = RowsOf(config[k+1])[a].value
      BY <1>0, <2>4, <2>6, <3>2, <3>3
    <3>. QED
      BY <2>4, <3>3, <3>4, <3>5 DEF SoundConfig
  <2>7. ASSUME NEW a \in 1..Len(t), NEW b \in 1..Len(t), t[a].value = t[b].value
        PROVE  a = b
    BY <2>4, <2>5, <2>7, OneBlock
  <2>8. ASSUME NEW i \in 1..Len(s) + Len(t)
        PROVE  \E m \in 1..k+1 : \E a \in DOMAIN Blocks[m] : (s \o t)[i].value = Blocks[m][a].value
    <3>1. CASE i \in 1..Len(s)
      <4>1. PICK m \in 1..k : \E a \in DOMAIN Blocks[m] : s[i].value = Blocks[m][a].value
        BY <2>3, <3>1 DEF Distinct
      <4>2. m \in 1..k+1
        OBVIOUS
      <4>. QED
        BY <2>5, <3>1, <4>1, <4>2
    <3>2. CASE i \notin 1..Len(s)
      <4>1. PICK a \in 1..Len(t) : (s \o t)[i] = t[a]
        BY <2>5, <3>2
      <4>2. k + 1 \in 1..k+1 /\ a \in DOMAIN t /\ t = Blocks[k+1]
        BY <2>5 DEF t
      <4>. QED
        BY <4>1, <4>2
    <3>. QED
      BY <3>1, <3>2
  <2>9. ASSUME NEW i \in 1..Len(s) + Len(t), NEW j \in 1..Len(s) + Len(t),
               (s \o t)[i].value = (s \o t)[j].value
        PROVE  i = j
    <3>1. CASE i \in 1..Len(s) /\ j \in 1..Len(s)
      BY <2>3, <2>5, <2>9, <3>1 DEF Distinct
    <3>2. CASE i \notin 1..Len(s) /\ j \notin 1..Len(s)
      <4>1. PICK a \in 1..Len(t) : i = Len(s) + a /\ (s \o t)[i] = t[a]
        BY <2>5, <3>2
      <4>2. PICK b \in 1..Len(t) : j = Len(s) + b /\ (s \o t)[j] = t[b]
        BY <2>5, <3>2
      <4>3. a = b
        BY <2>7, <2>9, <4>1, <4>2
      <4>. QED
        BY <4>1, <4>2, <4>3
    <3>3. CASE i \in 1..Len(s) /\ j \notin 1..Len(s)
      <4>1. PICK b \in 1..Len(t) : (s \o t)[j] = t[b]
        BY <2>5, <3>3
      <4>2. s[i].value = t[b].value
        BY <2>5, <2>9, <3>3, <4>1
      <4>. QED
        BY <2>6, <3>3, <4>2
    <3>4. CASE i \notin 1..Len(s) /\ j \in 1..Len(s)
      <4>1. PICK a \in 1..Len(t) : (s \o t)[i] = t[a]
        BY <2>5, <3>4
      <4>2. s[j].value = t[a].value
        BY <2>5, <2>9, <3>4, <4>1
      <4>. QED
        BY <2>6, <3>4, <4>2
    <3>. QED
      BY <3>1, <3>2, <3>3, <3>4
  <2>10. Distinct(s \o t, k + 1)
    BY <2>5, <2>8, <2>9 DEF Distinct
  <2>. QED
    BY <2>2, <2>10
<1>3. Nat \subseteq S
  <2>. HIDE DEF S
  <2>. QED
    BY <1>1, <1>2, Induction
<1>. QED
  BY <1>0, <1>3

LEMMA SoundRows ==
  ASSUME RangeInv
  PROVE  RowsAreSound
<1>1. pool \in Seq(PoolRow) /\ DOMAIN pool = 1..Len(pool)
  <2>1. pool \in Seq(PoolRow)
    BY DEF RangeInv, RangeTypeOK
  <2>. QED
    BY <2>1
<1>2. ASSUME NEW i \in DOMAIN pool
      PROVE  /\ pool[i].cidr \in cidrs
             /\ SoundConfig => IsV4(pool[i].ipaddress) /\ NetContains(pool[i].cidr, pool[i].ipaddress)
  BY <1>1 DEF RangeInv, RowInv
<1>3. ASSUME SoundConfig, NEW i \in DOMAIN pool, NEW j \in DOMAIN pool,
             pool[i].ipaddress = pool[j].ipaddress
      PROVE  i = j
  <2>1. Blocks \in Seq(Seq(ValueRow)) /\ Done \in 0..Len(config)
    <3>1. config \in Seq(RangeText) /\ todo \in Seq(RangeText) /\ Len(todo) <= Len(config)
      BY DEF RangeInv, RangeTypeOK, TodoInv
    <3>2. Done \in 0..Len(config)
      BY <3>1 DEF Done
    <3>. QED
      BY <3>1, <3>2, BlocksType
  <2>2. PICK f : Joins(f, Blocks, ValueRow)
    BY <2>1, FlattenJoins
  <2>3. Image(pool) = f[Done] /\ Distinct(f[Done], Done)
    BY <1>3, <2>1, <2>2, JoinsDistinct DEF RangeInv, PoolInv
  <2>4. /\ Image(pool)[i].value = Value(pool[i].ipaddress)
        /\ Image(pool)[j].value = Value(pool[j].ipaddress)
    BY DEF Image
  <2>5. Len(Image(pool)) = Len(pool)
    BY <1>1 DEF Image
  <2>. QED
    BY <1>1, <1>3, <2>3, <2>4, <2>5 DEF Distinct
<1>. QED
  BY <1>2, <1>3 DEF RowsAreSound, Inserted

-----------------------------------------------------------------------------
(* The work that is left.                                                  *)

LEMMA OneLess ==
  ASSUME NEW n \in Nat \ {0}, NEW K \in Nat
  PROVE  n * K \in Nat /\ (n - 1) * K \in Nat /\ n * K = (n - 1) * K + K
OBVIOUS

LEMMA Walked ==
  ASSUME RangeInv, walk # <<>>
  PROVE  /\ Len(walk[2]) \in Nat /\ Len(walk[2]) <= NumberOfRows(Current)
         /\ NumberOfRows(Current) \in 0..Total /\ Total \in Nat
<1>1. Len(walk[2]) \in Nat
  BY WalkType DEF RangeInv
<1>2. /\ Len(walk[2]) <= NumberOfRows(Current) /\ todo # <<>> /\ Accepted(Current)
      /\ Current \in RangeText
  BY CurrentFacts DEF RangeInv, WalkInv
<1>3. /\ NumberOfRows(Current) \in Nat
      /\ NumberOfRows(Current) = LastOf(Current) - First(Current) + 1
  BY <1>2, RowsOfAccepted
<1>4. /\ First(Current) \in Nat /\ LastOf(Current) \in Nat /\ Top(Current) \in Nat
      /\ LastOf(Current) <= Top(Current) /\ Top(Current) < Total /\ Total \in Nat
  BY <1>2, LastFacts, TopFacts
<1>. QED
  BY <1>1, <1>2, <1>3, <1>4

\* The work left while n ranges are, k addresses of the first being collected.
LEMMA StepsFacts ==
  ASSUME RangeInv, todo # <<>>
  PROVE  /\ Len(todo) \in Nat \ {0} /\ Total \in Nat
         /\ Len(todo) * (Total + 2) \in Nat /\ (Len(todo) - 1) * (Total + 2) \in Nat
         /\ Len(todo) * (Total + 2) = (Len(todo) - 1) * (Total + 2) + Total + 2
         /\ walk = <<>> => StepsLeft = Len(todo) * (Total + 2)
         /\ walk # <<>> => StepsLeft = Len(todo) * (Total + 2) - (1 + Len(walk[2]))
<1>1. Len(todo) \in Nat \ {0}
  BY DEF RangeInv, RangeTypeOK
<1>2. Total \in Nat
  <2>1. Width * ByteBits \in Nat /\ Base \in Nat
    BY ByteFacts, RangeAssumption
  <2>2. Pow2[Width * ByteBits] \in Nat
    BY <2>1, Pow2Positive
  <2>. QED
    BY <2>1, <2>2 DEF Total
<1>3. Total + 2 \in Nat
  BY <1>2
<1>4. /\ Len(todo) * (Total + 2) \in Nat /\ (Len(todo) - 1) * (Total + 2) \in Nat
      /\ Len(todo) * (Total + 2) = (Len(todo) - 1) * (Total + 2) + (Total + 2)
  BY <1>1, <1>3, OneLess, Zenon
<1>5. StepsLeft = Len(todo) * (Total + 2) - (IF walk = <<>> THEN 0 ELSE 1 + Len(walk[2]))
  BY DEF StepsLeft, Total
<1>6. walk = <<>> => StepsLeft = Len(todo) * (Total + 2)
  BY <1>4, <1>5
<1>7. walk # <<>> => StepsLeft = Len(todo) * (Total + 2) - (1 + Len(walk[2]))
  BY <1>5
<1>8. \A b \in Nat : b + (Total + 2) = b + Total + 2
  BY <1>2
<1>9. Len(todo) * (Total + 2) = (Len(todo) - 1) * (Total + 2) + Total + 2
  BY <1>4, <1>8, Zenon
<1>. QED
  BY <1>1, <1>2, <1>4, <1>6, <1>7, <1>9, Zenon

\* A step that ends with the first range.
LEMMA StepsOfTail ==
  ASSUME RangeInv, todo # <<>>, todo' = Tail(todo), walk' = <<>>
  PROVE  StepsLeft' \in 0..StepsLeft - 1
<1>. DEFINE a == Len(todo) * (Total + 2)
            b == (Len(todo) - 1) * (Total + 2)
<1>1. Len(todo') = Len(todo) - 1
  BY DEF RangeInv, RangeTypeOK
<1>2. StepsLeft' = b
  <2>1. StepsLeft' = Len(todo') * (Total + 2) - 0
    BY DEF StepsLeft, Total
  <2>. QED
    BY <1>1, <2>1, StepsFacts
<1>3. /\ a \in Nat /\ b \in Nat /\ a = b + Total + 2 /\ Total \in Nat
      /\ walk = <<>> => StepsLeft = a
      /\ walk # <<>> => StepsLeft = a - (1 + Len(walk[2]))
  BY StepsFacts
<1>. HIDE DEF a, b
<1>4. walk # <<>> => Len(walk[2]) \in 0..Total
  BY <1>3, Walked
<1>5. b <= StepsLeft - 1 /\ StepsLeft \in Nat
  <2>1. CASE walk = <<>>
    BY <1>3, <2>1
  <2>2. CASE walk # <<>>
    <3>1. PICK k \in 0..Total : StepsLeft = a - (1 + k)
      BY <1>3, <1>4, <2>2, Zenon
    <3>2. k \in Nat /\ k <= Total
      BY <1>3, <3>1
    <3>3. a \in Nat /\ b \in Nat /\ a = b + Total + 2 /\ Total \in Nat
      BY <1>3
    <3>. HIDE <1>3
    <3>. QED
      BY <3>1, <3>2, <3>3
  <2>. QED
    BY <2>1, <2>2
<1>. QED
  BY <1>2, <1>3, <1>5

LEMMA StepsBounded ==
  ASSUME RangeInv, Next
  PROVE  StepsLeft' \in 0..StepsLeft - 1
<1>. DEFINE a == Len(todo) * (Total + 2)
            b == (Len(todo) - 1) * (Total + 2)
<1>0. todo # <<>>
  BY DEF Next, SkipMalformed, BeginRange, Collect, InsertIP, RangeInv, WalkInv
<1>1. /\ a \in Nat /\ b \in Nat /\ a = b + Total + 2 /\ Total \in Nat
      /\ walk = <<>> => StepsLeft = a
      /\ walk # <<>> => StepsLeft = a - (1 + Len(walk[2]))
  BY <1>0, StepsFacts
<1>2. ASSUME todo' = todo, walk' # <<>>
      PROVE  StepsLeft' = a - (1 + Len(walk'[2]))
  BY <1>2 DEF StepsLeft, Total
<1>. HIDE DEF a, b
<1>3. CASE SkipMalformed
  BY <1>0, <1>3, StepsOfTail DEF SkipMalformed
<1>4. CASE InsertIP
  BY <1>0, <1>4, StepsOfTail DEF InsertIP
<1>5. CASE BeginRange
  <2>1. CASE Parses(Current.start, Current.startMask)
    <3>1. walk = <<>> /\ todo' = todo /\ walk' = <<Current.start, <<>>>>
      BY <1>5, <2>1 DEF BeginRange
    <3>2. walk' # <<>> /\ Len(walk'[2]) = 0
      BY <3>1
    <3>. QED
      BY <1>1, <1>2, <3>1, <3>2
  <2>2. CASE ~Parses(Current.start, Current.startMask)
    BY <1>0, <1>5, <2>2, StepsOfTail DEF BeginRange
  <2>. QED
    BY <2>1, <2>2
<1>6. CASE Collect
  <2>1. walk # <<>> /\ todo' = todo /\ walk' # <<>> /\ walk'[2] = Append(walk[2], walk[1])
    BY <1>6 DEF Collect
  <2>2. walk[2] \in Seq(Address) /\ walk[1] \in Address
    BY <2>1, WalkType DEF RangeInv
  <2>3. Len(walk'[2]) = Len(walk[2]) + 1
    BY <2>1, <2>2
  <2>4. Len(walk[2]) \in 0..Total
    BY <2>1, Walked
  <2>. QED
    BY <1>1, <1>2, <2>1, <2>3, <2>4
<1>. QED
  BY <1>3, <1>4, <1>5, <1>6 DEF Next

-----------------------------------------------------------------------------

LEMMA RangeInvariant == Spec => []RangeInv
<1>1. Init => RangeInv
  BY InitInv
<1>2. RangeInv /\ [Next]_vars => RangeInv'
  <2>1. CASE UNCHANGED vars
    BY <2>1 DEF vars, RangeInv, RangeTypeOK, TodoInv, WalkInv, PoolInv, RowInv, Done,
             Current, Blocks, SoundConfig
  <2>. QED
    BY <2>1, SkipKeeps, BeginKeeps, CollectKeeps, InsertKeeps DEF Next
<1>. QED
  BY <1>1, <1>2, PTL DEF Spec

\* The rows to insert are exactly what the list of ranges stands for, whatever its
\* order, overlaps, malformed members, families and widths, and whichever INSERTs
\* fail.
THEOREM PoolFromRanges == Spec => []PoolIsRanges
BY RangeInvariant, Flattened, PTL

\* Every row is filed under a known CIDR; and a list of IPv4 ranges, each within
\* a network and none overlapping another, gives the store a pool in which each
\* address lies in the CIDR it is asked for under, and in no second row.
THEOREM PoolIsSound == Spec => []RowsAreSound
BY RangeInvariant, SoundRows, PTL

\* Reading the flag takes a bounded number of steps, the ranges and addresses it
\* names; that the loop ends then needs only that it goes on.
THEOREM WorkIsBounded == Spec => LoopIsBounded
<1>1. RangeInv /\ [Next]_vars => [StepsLeft' \in 0..StepsLeft - 1]_vars
  BY StepsBounded
<1>. QED
  BY <1>1, RangeInvariant, PTL DEF Spec, LoopIsBounded

=============================================================================
