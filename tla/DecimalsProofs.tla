--------------------------- MODULE DecimalsProofs ---------------------------
(***************************************************************************)
(* What the arithmetic of module Decimals returns and how far truncation   *)
(* takes it from the exact result, for every scale.                        *)
(***************************************************************************)
EXTENDS Decimals, TLAPS

\* A product of natural numbers is one.
LEMMA ProductType ==
  ASSUME NEW a \in Nat, NEW b \in Nat
  PROVE  a * b \in Nat
  OBVIOUS

\* Products are monotone in either factor.
LEMMA ProductMonotone ==
  ASSUME NEW a \in Nat, NEW b \in Nat, NEW c \in Nat, a <= b
  PROVE  a * c <= b * c /\ c * a <= c * b
<1>1. PICK d \in Nat : b = a + d
  <2>1. b - a \in Nat /\ b = a + (b - a)
    OBVIOUS
  <2>2. QED
    BY <2>1
<1>2. b * c = a * c + d * c
  BY <1>1
<1>3. a * c \in Nat /\ d * c \in Nat /\ b * c \in Nat
  BY ProductType
<1>4. a * c = c * a /\ b * c = c * b
  OBVIOUS
<1>5. QED
  BY <1>2, <1>3, <1>4

\* Truncating division: the quotient is the greatest whose product fits.
LEMMA Quotient ==
  ASSUME NEW a \in Nat, NEW b \in Nat \ {0}
  PROVE  /\ a \div b \in Nat
         /\ b * (a \div b) <= a
         /\ a < b * (a \div b) + b
  OBVIOUS

\* No greater quotient has a product that fits.
LEMMA QuotientGreatest ==
  ASSUME NEW a \in Nat, NEW b \in Nat \ {0}, NEW q \in Nat, q * b <= a
  PROVE  q <= a \div b
<1> DEFINE r == a \div b
<1>1. r \in Nat /\ a < b * r + b
  BY Quotient
<1> HIDE DEF r
<1>2. SUFFICES ASSUME r + 1 <= q PROVE FALSE
  BY <1>1 DEF r
<1>3. (r + 1) * b <= q * b
  BY <1>1, <1>2, ProductMonotone
<1>4. (r + 1) * b = b * r + b
  BY <1>1
<1>5. q * b \in Nat /\ b * r \in Nat
  BY <1>1, ProductType
<1>6. QED
  BY <1>1, <1>3, <1>4, <1>5

-----------------------------------------------------------------------------
\* Uint128 * Decimal is truncated down.
LEMMA TimesBound ==
  ASSUME NEW a \in Nat, NEW rate \in Nat
  PROVE  /\ Times(a, rate) \in Nat
         /\ DECIMAL_FRACTIONAL * Times(a, rate) <= a * rate
<1>1. a * rate \in Nat
  BY ProductType
<1>2. QED
  BY <1>1, Quotient, ScaleAssumption DEF Times

\* Decimal::from_ratio is truncated down, and no greater rate fits.
LEMMA FromRatioBound ==
  ASSUME NEW a \in Nat, NEW b \in Nat \ {0}
  PROVE  /\ FromRatio(a, b) \in Nat
         /\ FromRatio(a, b) * b <= a * DECIMAL_FRACTIONAL
         /\ \A rate \in Nat : rate * b <= a * DECIMAL_FRACTIONAL => rate <= FromRatio(a, b)
<1>1. a * DECIMAL_FRACTIONAL \in Nat
  BY ProductType, ScaleAssumption
<1> DEFINE q == (a * DECIMAL_FRACTIONAL) \div b
<1>2. q \in Nat /\ b * q <= a * DECIMAL_FRACTIONAL
  BY <1>1, Quotient
<1>3. \A rate \in Nat : rate * b <= a * DECIMAL_FRACTIONAL => rate <= q
  BY <1>1, QuotientGreatest
<1> HIDE DEF q
<1>4. b * q = q * b
  BY <1>2
<1>5. QED
  BY <1>2, <1>3, <1>4 DEF FromRatio, q

\* The hub's decimal_division is truncated down: what is minted for a payment
\* is worth no more than the payment.
LEMMA DecimalDivisionBound ==
  ASSUME NEW a \in Nat, NEW rate \in Nat \ {0}
  PROVE  /\ DecimalDivision(a, rate) \in Nat
         /\ rate * DecimalDivision(a, rate) <= a * DECIMAL_FRACTIONAL
<1>1. a * DECIMAL_FRACTIONAL \in Nat
  BY ProductType, ScaleAssumption
<1>2. QED
  BY <1>1, Quotient DEF DecimalDivision

\* State::update_statom_exchange_rate stores a rate.
LEMMA ExchangeRateType ==
  ASSUME NEW bonded \in Nat, NEW issued \in Nat, NEW requested \in Nat
  PROVE  ExchangeRate(bonded, issued, requested) \in Nat
  BY FromRatioBound, ScaleAssumption DEF ExchangeRate, One

\* The stored rate never values the stAtom above the bonded coins, unless all
\* of those are lost.
LEMMA ExchangeRateBound ==
  ASSUME NEW bonded \in Nat, NEW issued \in Nat, NEW requested \in Nat,
         bonded = 0 => issued + requested = 0
  PROVE  ExchangeRate(bonded, issued, requested) * (issued + requested)
           <= bonded * DECIMAL_FRACTIONAL
<1>1. CASE issued + requested = 0
  <2>1. ExchangeRate(bonded, issued, requested) * (issued + requested) = 0
    BY <1>1, ExchangeRateType
  <2>2. bonded * DECIMAL_FRACTIONAL \in Nat
    BY ProductType, ScaleAssumption
  <2>3. QED
    BY <2>1, <2>2
<1>2. CASE issued + requested # 0
  <2>1. issued + requested \in Nat \ {0} /\ bonded # 0
    BY <1>2
  <2>2. QED
    BY <2>1, FromRatioBound DEF ExchangeRate
<1>3. QED
  BY <1>1, <1>2

\* Recomputing the rate never lowers a rate that was backed.
LEMMA ExchangeRateGreatest ==
  ASSUME NEW bonded \in Nat, NEW issued \in Nat, NEW requested \in Nat,
         NEW rate \in Nat, bonded # 0, issued + requested # 0,
         rate * (issued + requested) <= bonded * DECIMAL_FRACTIONAL
  PROVE  rate <= ExchangeRate(bonded, issued, requested)
  BY FromRatioBound DEF ExchangeRate

\* SignedInt::from_subtraction returns a natural magnitude.
LEMMA FromSubtractionType ==
  ASSUME NEW a \in Nat, NEW b \in Nat
  PROVE  /\ FromSubtraction(a, b).magnitude \in Nat
         /\ FromSubtraction(a, b).negative \in BOOLEAN
  BY DEF FromSubtraction

\* calculate_new_withdraw_rate returns a rate, whatever arrived.
LEMMA NewWithdrawRateType ==
  ASSUME NEW amount \in Nat, NEW rate \in Nat, NEW total \in Nat,
         NEW slashed, slashed.magnitude \in Nat, slashed.negative \in BOOLEAN
  PROVE  NewWithdrawRate(amount, rate, total, slashed) \in Nat
<1> DEFINE booked == Times(amount, rate)
           share == SlashedShare(booked, total, slashed)
<1>1. booked \in Nat
  BY TimesBound
<1> HIDE DEF booked
<1>2. share \in Nat
  <2>1. (IF total # 0 THEN FromRatio(booked, total) ELSE 0) \in Nat
    BY <1>1, FromRatioBound
  <2>2. QED
    BY <2>1, TimesBound DEF SlashedShare
<1>3. ActualUnbonded(booked, total, slashed) \in Nat
  <2> HIDE DEF share
  <2>1. CASE slashed.negative
    BY <1>1, <1>2, <2>1 DEF ActualUnbonded, share
  <2>2. CASE ~slashed.negative
    <3>1. (IF slashed.magnitude # 0 THEN share + 1 ELSE share) \in Nat
      BY <1>2
    <3>2. QED
      BY <1>1, <2>2, <3>1, FromSubtractionType DEF ActualUnbonded, share
  <2>3. QED
    BY <2>1, <2>2
<1>4. QED
  BY <1>3, FromRatioBound DEF NewWithdrawRate, booked

-----------------------------------------------------------------------------
(***************************************************************************)
(* What truncation does to sums and shares.                                *)
(***************************************************************************)
\* Two claims paid one by one get no more than together.
LEMMA TimesSuperadditive ==
  ASSUME NEW a \in Nat, NEW b \in Nat, NEW rate \in Nat
  PROVE  Times(a, rate) + Times(b, rate) <= Times(a + b, rate)
<1> DEFINE p == Times(a, rate)
           q == Times(b, rate)
<1>1. /\ p \in Nat /\ q \in Nat
      /\ DECIMAL_FRACTIONAL * p <= a * rate /\ DECIMAL_FRACTIONAL * q <= b * rate
  BY TimesBound
<1> HIDE DEF p, q
<1>2. /\ a * rate \in Nat /\ b * rate \in Nat
      /\ (a + b) * rate = a * rate + b * rate /\ (a + b) * rate \in Nat
  OBVIOUS
<1>3. (p + q) * DECIMAL_FRACTIONAL = DECIMAL_FRACTIONAL * p + DECIMAL_FRACTIONAL * q
  BY <1>1, ScaleAssumption
<1>4. (p + q) * DECIMAL_FRACTIONAL <= (a + b) * rate
  BY <1>1, <1>2, <1>3, ScaleAssumption, ProductType
<1>5. p + q <= ((a + b) * rate) \div DECIMAL_FRACTIONAL
  BY <1>1, <1>2, <1>4, QuotientGreatest, ScaleAssumption
<1>6. QED
  BY <1>5 DEF Times, p, q

\* Spread over the stAtom of a batch, coins never become more.
LEMMA TimesOfRatio ==
  ASSUME NEW x \in Nat, NEW a \in Nat \ {0}
  PROVE  Times(a, FromRatio(x, a)) <= x
<1> DEFINE r == FromRatio(x, a)
           t == Times(a, r)
<1>1. r \in Nat /\ r * a <= x * DECIMAL_FRACTIONAL
  BY FromRatioBound
<1> HIDE DEF r
<1>2. t \in Nat /\ DECIMAL_FRACTIONAL * t <= a * r
  BY <1>1, TimesBound
<1> HIDE DEF t
<1>3. a * r = r * a /\ x * DECIMAL_FRACTIONAL = DECIMAL_FRACTIONAL * x
        /\ a * r \in Nat /\ DECIMAL_FRACTIONAL * x \in Nat /\ DECIMAL_FRACTIONAL * t \in Nat
  BY <1>1, <1>2, ScaleAssumption
<1>4. DECIMAL_FRACTIONAL * t <= DECIMAL_FRACTIONAL * x
  BY <1>1, <1>2, <1>3
<1>5. t <= x
  BY <1>2, <1>4, ScaleAssumption
<1>6. QED
  BY <1>5 DEF t, r

\* Products grow strictly with a factor.
LEMMA ProductStrict ==
  ASSUME NEW a \in Nat, NEW b \in Nat, NEW c \in Nat \ {0}
  PROVE  (c * a <= c * b => a <= b) /\ (c * a < c * b => a < b) /\ (a < b => c * a < c * b)
<1>1. ASSUME b < a PROVE c * b + c <= c * a
  <2>1. c * (b + 1) <= c * a
    BY <1>1, ProductMonotone
  <2>2. c * (b + 1) = c * b + c
    OBVIOUS
  <2>3. QED
    BY <2>1, <2>2
<1>2. ASSUME a < b PROVE c * a + c <= c * b
  <2>1. c * (a + 1) <= c * b
    BY <1>2, ProductMonotone
  <2>2. c * (a + 1) = c * a + c
    OBVIOUS
  <2>3. QED
    BY <2>1, <2>2
<1>3. c * a \in Nat /\ c * b \in Nat
  OBVIOUS
<1>4. QED
  BY <1>1, <1>2, <1>3

\* What a batch is charged of a difference of m coins: at most its share by
\* weight, and less than that by one coin and by the truncation of the weight.
LEMMA ShareBounds ==
  ASSUME NEW booked \in Nat, NEW total \in Nat \ {0}, NEW slashed, slashed.magnitude \in Nat
  PROVE  LET m == slashed.magnitude
             share == SlashedShare(booked, total, slashed)
         IN  /\ share \in Nat
             /\ total * share <= m * booked
             /\ DECIMAL_FRACTIONAL * (m * booked)
                  < DECIMAL_FRACTIONAL * (total * share + total) + m * total
<1> DEFINE D == DECIMAL_FRACTIONAL
           m == slashed.magnitude
           w == FromRatio(booked, total)
           s == SlashedShare(booked, total, slashed)
<1>1. D \in Nat \ {0} /\ m \in Nat /\ booked * D \in Nat
  BY ScaleAssumption, ProductType
<1>2. w \in Nat /\ total * w <= booked * D /\ booked * D < total * w + total
  BY <1>1, Quotient DEF FromRatio
<1>3. m * w \in Nat
  BY <1>1, <1>2, ProductType
<1>4. s = (m * w) \div D
  BY DEF SlashedShare, Times
<1>5. s \in Nat /\ D * s <= m * w /\ m * w < D * s + D
  BY <1>1, <1>3, <1>4, Quotient
<1> HIDE DEF D, m, w, s
<1>6. total * s <= m * booked
  <2>1. total * (D * s) <= total * (m * w)
    BY <1>1, <1>3, <1>5, ProductMonotone, ProductType
  <2>2. m * (total * w) <= m * (booked * D)
    BY <1>1, <1>2, ProductMonotone, ProductType
  <2>3. /\ total * (D * s) = D * (total * s) /\ total * (m * w) = m * (total * w)
        /\ m * (booked * D) = D * (m * booked)
    BY <1>1, <1>2, <1>5
  <2>4. total * s \in Nat /\ m * booked \in Nat /\ m * (total * w) \in Nat
    BY <1>1, <1>2, <1>5, ProductType
  <2>5. D * (total * s) <= D * (m * booked)
    BY <2>1, <2>2, <2>3, <2>4, <1>1, ProductType
  <2>6. QED
    BY <2>4, <2>5, <1>1, ProductStrict
<1>7. D * (m * booked) < D * (total * s + total) + m * total
  <2>1. total * w \in Nat /\ D * s \in Nat /\ total * w + total \in Nat /\ D * s + D \in Nat
    BY <1>1, <1>2, <1>5, ProductType
  <2>2. m * (booked * D) <= m * (total * w + total)
    BY <1>1, <1>2, <2>1, ProductMonotone
  <2>3. total * (m * w) < total * (D * s + D)
    BY <1>3, <1>5, <2>1, ProductStrict
  <2>4. m * (total * w + total) = total * (m * w) + m * total
    BY <1>1, <1>2
  <2>5. total * (D * s + D) = D * (total * s + total)
    BY <1>1, <1>5
  <2>6. m * (booked * D) = D * (m * booked)
    BY <1>1
  <2>7. /\ total * (m * w) \in Nat /\ m * total \in Nat /\ D * (m * booked) \in Nat
        /\ D * (total * s + total) \in Nat
    <3>1. total * s + total \in Nat /\ m * booked \in Nat
      BY <1>1, <1>5, ProductType
    <3>2. QED
      BY <3>1, <1>1, <1>3, ProductType
  <2>8. QED
    BY <2>2, <2>3, <2>4, <2>5, <2>6, <2>7
<1>8. QED
  BY <1>5, <1>6, <1>7 DEF D, m, s

\* A batch gets its share by weight of what arrived, to the truncation of its
\* weight, unless nothing arrived or the batch is worth nothing: n * total
\* times what it gets stays below n * booked * arrived + total as long as the
\* shortfall, n times, is less than the scale of the decimals.
LEMMA PaidShare ==
  ASSUME NEW booked \in Nat \ {0}, NEW total \in Nat, booked <= total,
         NEW arrived \in Nat \ {0}, NEW n \in Nat \ {0},
         n * total <= n * arrived + DECIMAL_FRACTIONAL
  PROVE  LET actual == ActualUnbonded(booked, total, FromSubtraction(total, arrived))
         IN  /\ actual \in Nat
             /\ n * (total * actual) < n * (booked * arrived) + total
<1> DEFINE D == DECIMAL_FRACTIONAL
           slashed == FromSubtraction(total, arrived)
           m == slashed.magnitude
           s == SlashedShare(booked, total, slashed)
           actual == ActualUnbonded(booked, total, slashed)
<1>1. D \in Nat \ {0} /\ m \in Nat /\ slashed.negative \in BOOLEAN /\ total \in Nat \ {0}
  BY ScaleAssumption, FromSubtractionType
<1>2. /\ s \in Nat /\ total * s <= m * booked
      /\ D * (m * booked) < D * (total * s + total) + m * total
  BY <1>1, ShareBounds
<1>3. actual = IF slashed.negative
               THEN booked + (IF s > 1 THEN s - 1 ELSE 0)
               ELSE FromSubtraction(booked, IF m # 0 THEN s + 1 ELSE s).magnitude
  BY DEF ActualUnbonded
<1>4. IF slashed.negative THEN arrived = total + m ELSE total = arrived + m
  BY DEF FromSubtraction
<1>5. n * total <= n * arrived + D
  OBVIOUS
<1> HIDE DEF D, slashed, m, s, actual
<1>6. total * s \in Nat /\ m * booked \in Nat /\ booked * arrived \in Nat /\ total * booked \in Nat
  BY <1>1, <1>2, ProductType
<1>7. CASE slashed.negative
  <2>1. actual \in Nat /\ actual <= booked + s
    BY <1>2, <1>3, <1>7
  <2>2. total * actual <= total * (booked + s)
    BY <2>1, <1>2, ProductMonotone
  <2>3. total * (booked + s) = total * booked + total * s
    BY <1>2
  <2>4. booked * arrived = total * booked + m * booked
    BY <1>1, <1>4, <1>7
  <2>5. total * actual <= booked * arrived /\ total * actual \in Nat
    BY <2>1, <2>2, <2>3, <2>4, <1>2, <1>6, ProductType
  <2>6. n * (total * actual) <= n * (booked * arrived)
    BY <2>5, <1>6, ProductMonotone
  <2>7. n * (total * actual) \in Nat /\ n * (booked * arrived) \in Nat
    BY <2>5, <1>6, ProductType
  <2>8. QED
    BY <2>1, <2>6, <2>7, <1>1 DEF actual, slashed
<1>8. CASE ~slashed.negative /\ m = 0
  <2>1. total * s = 0
    BY <1>2, <1>6, <1>8
  <2>2. s = 0
    BY <2>1, <1>1, <1>2
  <2>3. actual = booked
    BY <2>2, <1>3, <1>8 DEF FromSubtraction
  <2>4. total * actual = booked * arrived
    BY <2>3, <1>4, <1>8
  <2>5. n * (total * actual) \in Nat
    BY <2>4, <1>6, ProductType
  <2>6. QED
    BY <2>3, <2>4, <2>5, <1>1 DEF actual, slashed
<1>9. CASE ~slashed.negative /\ m # 0
  <2>1. m < total
    BY <1>1, <1>4, <1>9
  <2>2. booked * m < booked * total
    BY <2>1, <1>1, ProductStrict
  <2>3. total * s < total * booked
    BY <2>2, <1>1, <1>2, <1>6
  <2>4. s < booked
    BY <2>3, <1>1, <1>2, ProductStrict
  <2>5. actual = booked - s - 1 /\ actual \in Nat
    BY <2>4, <1>2, <1>3, <1>9 DEF FromSubtraction
  <2>6. total * actual \in Nat /\ total * booked = total * actual + (total * s + total)
    <3>1. booked = actual + s + 1
      BY <2>4, <2>5, <1>2
    <3>2. total * (actual + s + 1) = total * actual + (total * s + total)
      BY <2>5, <1>2
    <3>3. QED
      BY <3>1, <3>2, <2>5, ProductType
  <2>7. total * booked = booked * arrived + m * booked
    BY <1>1, <1>4, <1>9
  <2>8. total * actual + (total * s + total) = booked * arrived + m * booked
    BY <2>6, <2>7
  <2> DEFINE x == total * actual
             y == total * s + total
             p == booked * arrived
             q == m * booked
             mt == m * total
  <2>9. x \in Nat /\ y \in Nat /\ p \in Nat /\ q \in Nat /\ mt \in Nat
    BY <2>6, <1>1, <1>2, <1>6, ProductType
  <2>10. x + y = p + q /\ D * q < D * y + mt
    BY <2>8, <1>2
  <2>11. n * m <= D
    <3>1. n * total = n * arrived + n * m
      BY <1>1, <1>4, <1>9
    <3>2. n * arrived \in Nat /\ n * m \in Nat
      BY <1>1, ProductType
    <3>3. QED
      BY <3>1, <3>2, <1>1, <1>5
  <2>12. n * mt <= D * total
    <3>1. n * mt = (n * m) * total
      BY <1>1
    <3>2. n * m \in Nat
      BY <1>1, ProductType
    <3>3. (n * m) * total <= D * total
      BY <3>2, <2>11, <1>1, ProductMonotone
    <3>4. QED
      BY <3>1, <3>3
  <2> HIDE DEF x, y, p, q, mt
  <2>13. D * x < D * p + mt
    <3>1. D * x + D * y = D * p + D * q
      <4>1. D * (x + y) = D * x + D * y /\ D * (p + q) = D * p + D * q
        BY <2>9, <1>1
      <4>2. QED
        BY <4>1, <2>10
    <3>2. D * x \in Nat /\ D * y \in Nat /\ D * p \in Nat /\ D * q \in Nat
      BY <2>9, <1>1, ProductType
    <3>3. QED
      BY <3>1, <3>2, <2>9, <2>10
  <2>14. n * (D * x) < n * (D * p + mt)
    <3>1. D * x \in Nat /\ D * p + mt \in Nat
      BY <2>9, <1>1, ProductType
    <3>2. QED
      BY <3>1, <2>13, ProductStrict
  <2>15. D * (n * x) < D * (n * p + total)
    <3>1. n * (D * x) = D * (n * x) /\ n * (D * p + mt) = D * (n * p) + n * mt
      BY <2>9, <1>1
    <3>2. D * (n * p + total) = D * (n * p) + D * total
      BY <2>9, <1>1
    <3>3. D * (n * p) \in Nat /\ D * (n * x) \in Nat /\ n * mt \in Nat /\ D * total \in Nat
      BY <2>9, <1>1, ProductType
    <3>4. QED
      BY <3>1, <3>2, <3>3, <2>12, <2>14
  <2>16. n * x < n * p + total
    <3>1. n * x \in Nat /\ n * p + total \in Nat
      BY <2>9, <1>1, ProductType
    <3>2. QED
      BY <3>1, <2>15, <1>1, ProductStrict
  <2>17. QED
    BY <2>5, <2>16 DEF x, p, actual, slashed
<1>10. QED
  BY <1>7, <1>8, <1>9, <1>1 DEF actual, slashed

\* A batch that is worth nothing, or of whose coins none arrived, is owed one
\* coin at most, as long as there are fewer coins than the scale of the decimals.
LEMMA PaidForNothing ==
  ASSUME NEW booked \in Nat, NEW total \in Nat \ {0}, booked <= total,
         NEW arrived \in Nat, arrived = 0 \/ booked = 0, total <= DECIMAL_FRACTIONAL
  PROVE  ActualUnbonded(booked, total, FromSubtraction(total, arrived)) \in {0, 1}
<1> DEFINE D == DECIMAL_FRACTIONAL
           slashed == FromSubtraction(total, arrived)
           m == slashed.magnitude
           s == SlashedShare(booked, total, slashed)
           actual == ActualUnbonded(booked, total, slashed)
<1>1. D \in Nat \ {0} /\ m \in Nat /\ slashed.negative \in BOOLEAN /\ total <= D
  BY ScaleAssumption, FromSubtractionType
<1>2. /\ s \in Nat /\ total * s <= m * booked
      /\ D * (m * booked) < D * (total * s + total) + m * total
  BY <1>1, ShareBounds
<1>3. actual = IF slashed.negative
               THEN booked + (IF s > 1 THEN s - 1 ELSE 0)
               ELSE FromSubtraction(booked, IF m # 0 THEN s + 1 ELSE s).magnitude
  BY DEF ActualUnbonded
<1>4. IF slashed.negative THEN arrived = total + m ELSE total = arrived + m
  BY DEF FromSubtraction
<1> HIDE DEF D, slashed, m, s, actual
<1>5. CASE booked = 0
  <2>1. total * s = 0
    <3>1. m * booked = 0 /\ total * s \in Nat
      BY <1>1, <1>2, <1>5, ProductType
    <3>2. QED
      BY <3>1, <1>2
  <2>2. s = 0
    BY <2>1, <1>2
  <2>3. QED
    BY <2>2, <1>1, <1>3, <1>5 DEF FromSubtraction, actual, slashed
<1>6. CASE arrived = 0
  <2>1. ~slashed.negative /\ m = total
    BY <1>1, <1>4, <1>6
  <2>2. s <= booked
    <3>1. total * s <= total * booked
      BY <2>1, <1>2
    <3>2. QED
      BY <3>1, <1>2, ProductStrict
  <2>3. booked < s + 2
    <3>1. total * total <= D * total /\ total * total \in Nat /\ D * total \in Nat
      BY <1>1, ProductMonotone, ProductType
    <3>2. D * (total * s + total) \in Nat /\ D * (total * booked) \in Nat
      <4>1. total * s + total \in Nat /\ total * booked \in Nat
        BY <1>2, ProductType
      <4>2. QED
        BY <4>1, <1>1, ProductType
    <3>3. D * (total * booked) < D * (total * s + total) + D * total
      BY <3>1, <3>2, <2>1, <1>2
    <3>4. D * (total * s + total) + D * total = (D * total) * (s + 2)
      BY <1>1, <1>2
    <3>5. D * (total * booked) = (D * total) * booked
      BY <1>1
    <3>6. D * total # 0
      <4>1. D * 1 <= D * total
        BY <1>1, ProductMonotone
      <4>2. QED
        BY <4>1, <1>1
    <3>7. QED
      BY <3>1, <3>3, <3>4, <3>5, <3>6, <1>2, ProductStrict
  <2>4. QED
    BY <2>1, <2>2, <2>3, <1>1, <1>2, <1>3 DEF FromSubtraction, actual, slashed
<1>7. QED
  BY <1>5, <1>6

\* More at the same rate is worth no less.
LEMMA TimesMonotone ==
  ASSUME NEW a \in Nat, NEW b \in Nat, NEW rate \in Nat, a <= b
  PROVE  Times(a, rate) <= Times(b, rate)
<1>1. PICK d \in Nat : b = a + d
  <2>1. b - a \in Nat /\ b = a + (b - a)
    OBVIOUS
  <2>2. QED
    BY <2>1
<1>2. Times(a, rate) + Times(d, rate) <= Times(a + d, rate)
  BY TimesSuperadditive
<1>3. Times(a, rate) \in Nat /\ Times(d, rate) \in Nat /\ Times(a + d, rate) \in Nat
  <2>1. a + d \in Nat
    OBVIOUS
  <2>2. QED
    BY <2>1, TimesBound
<1>4. QED
  BY <1>1, <1>2, <1>3

\* A part w of an amount a that is paid at the rate its booked value makes gets
\* at most two units less than at the rate the value was booked at: each of the
\* two truncations may cost the part a unit.
LEMMA RateTruncatedTwice ==
  ASSUME NEW a \in Nat \ {0}, a <= DECIMAL_FRACTIONAL, NEW w \in Nat, w <= a, NEW rate \in Nat
  PROVE  Times(w, rate) <= Times(w, FromRatio(Times(a, rate), a)) + 2
<1> DEFINE D == DECIMAL_FRACTIONAL
           booked == Times(a, rate)
           new == FromRatio(booked, a)
           p == Times(w, rate)
           q == Times(w, new)
<1>1. D \in Nat \ {0} /\ a <= D
  BY ScaleAssumption
<1>2. booked \in Nat /\ a * rate < D * booked + D
  <2>1. a * rate \in Nat
    BY ProductType
  <2>2. QED
    BY <2>1, Quotient, ScaleAssumption DEF Times
<1>3. new \in Nat /\ booked * D < a * new + a
  <2>1. booked * D \in Nat
    BY <1>1, <1>2, ProductType
  <2> HIDE DEF booked
  <2>2. QED
    BY <2>1, Quotient DEF FromRatio
<1> HIDE DEF booked, new
<1>4. p \in Nat /\ D * p <= w * rate
  BY TimesBound
<1>5. q \in Nat /\ w * new < D * q + D
  <2>1. w * new \in Nat
    BY <1>3, ProductType
  <2>2. QED
    BY <2>1, Quotient, ScaleAssumption DEF Times
<1> HIDE DEF p, q, D
<1> DEFINE x == a * rate
           y == a * new
<1>6. x \in Nat /\ y \in Nat /\ D * booked \in Nat /\ D * booked = booked * D
  BY <1>1, <1>2, <1>3, ProductType
<1>7. x <= y + a + D
  BY <1>1, <1>2, <1>3, <1>6
<1> HIDE DEF x, y
<1>8. w * x <= w * y + w * a + w * D
  <2>1. y + a + D \in Nat
    BY <1>1, <1>6
  <2>2. w * x <= w * (y + a + D)
    BY <2>1, <1>6, <1>7, ProductMonotone
  <2>3. w * (y + a + D) = w * y + w * a + w * D
    BY <1>1, <1>6
  <2>4. QED
    BY <2>2, <2>3
<1>9. w * a <= a * D /\ w * D <= a * D
  <2>1. a * w <= a * D /\ w * a = a * w
    BY <1>1, ProductMonotone
  <2>2. w * D <= a * D
    BY <1>1, ProductMonotone
  <2>3. QED
    BY <2>1, <2>2
<1>10. w * x = a * (w * rate) /\ w * y = a * (w * new)
  BY <1>3 DEF x, y
<1> DEFINE r == w * rate
           s == w * new
<1>11. r \in Nat /\ s \in Nat
  BY <1>3, ProductType
<1>12. a * r <= a * (s + 2 * D)
  <2>1. a * r <= a * s + w * a + w * D
    BY <1>8, <1>10
  <2>2. a * (s + 2 * D) = a * s + a * D + a * D
    BY <1>1, <1>11
  <2>3. a * r \in Nat /\ a * s \in Nat /\ w * a \in Nat /\ w * D \in Nat /\ a * D \in Nat
    BY <1>1, <1>11, ProductType
  <2> HIDE DEF r, s
  <2>4. QED
    BY <2>1, <2>2, <2>3, <1>9
<1>13. r <= s + 2 * D
  <2>1. s + 2 * D \in Nat
    BY <1>1, <1>11
  <2> HIDE DEF r, s
  <2>2. QED
    BY <2>1, <1>11, <1>12, ProductStrict
<1>14. D * p < D * (q + 3)
  <2>1. D * (q + 3) = D * q + 3 * D
    BY <1>1, <1>5
  <2>2. D * p \in Nat /\ D * q \in Nat
    BY <1>1, <1>4, <1>5, ProductType
  <2>3. D * p <= r /\ s < D * q + D
    BY <1>4, <1>5
  <2> HIDE DEF r, s
  <2>4. QED
    BY <2>1, <2>2, <2>3, <1>1, <1>11, <1>13
<1>15. p < q + 3
  BY <1>1, <1>4, <1>5, <1>14, ProductStrict
<1>16. QED
  BY <1>4, <1>5, <1>15 DEF p, q, new, booked
=============================================================================
