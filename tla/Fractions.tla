----------------------------- MODULE Fractions -----------------------------
(***************************************************************************)
(* Exact fractions, for the code's ratios, means and rates.  A float is    *)
(* seen as the number it stands for: rounding is left out.  A fraction is  *)
(* a pair in lowest terms with a positive denominator, so that equal       *)
(* numbers are equal values.                                               *)
(***************************************************************************)
EXTENDS Integers, SequencesExt

CONSTANTS Raised,    \* the outcome of a call that raises
          None,      \* Python's None
          Infinity   \* an infinite float, of either sign

Fraction == Int \X (Nat \ {0})

ASSUME FractionsAssumption == Raised # None /\ {Raised, None} \cap Fraction = {}

\* The greatest common divisor of two natural numbers.
GCD(a, b) ==
  LET gcd[y \in 0..b] == [x \in Nat |-> IF y = 0 THEN x ELSE gcd[x % y][y]] IN gcd[b][a]

\* d is positive.
Reduced(n, d, g) == <<n \div g, d \div g>>
Frac(n, d) == Reduced(n, d, GCD(d, n % d))

Whole(n) == <<n, 1>>
Zero == Whole(0)
One  == Whole(1)

Magnitude(a) == IF a < 0 THEN -a ELSE a

Negated(p)  == <<-p[1], p[2]>>
Flipped(p)  == IF p[1] > 0 THEN <<p[2], p[1]>> ELSE <<-p[2], -p[1]>>
\* Over their least common denominator: TLC's integers are small.
Added(p, q, g) == Frac(p[1] * (q[2] \div g) + q[1] * (p[2] \div g), (p[2] \div g) * q[2])
Plus(p, q)  == Added(p, q, GCD(p[2], q[2]))
Minus(p, q) == Plus(p, Negated(q))
Times(p, q) == Frac(p[1] * q[1], p[2] * q[2])
Over(p, q)  == Times(p, Flipped(q))

Leq(p, q)  == p[1] * q[2] <= q[1] * p[2]
Less(p, q) == p[1] * q[2] < q[1] * p[2]
Lower(p, q)  == IF Leq(p, q) THEN p ELSE q
Higher(p, q) == IF Leq(p, q) THEN q ELSE p
Square(p) == Times(p, p)

\* F of every index of s, put together one by one so that TLC keeps the values.
Each(s, F(_)) == FoldLeft(LAMBDA t, k : Append(t, F(k)), <<>>, [k \in DOMAIN s |-> k])

\* The sum and the mean of a sequence of fractions.
Total(s) == FoldLeft(Plus, Zero, s)
Mean(s)  == Over(Total(s), Whole(Len(s)))

\* Of whole numbers.
Sum(s) == FoldLeft(+, 0, s)
Ratio(s) == Frac(Sum(s), Len(s))

Lowest(S)  == CHOOSE p \in S : \A q \in S : Leq(p, q)
Highest(S) == CHOOSE p \in S : \A q \in S : Leq(q, p)

\* p to the power of a natural number.
Power(p, n) == FoldLeft(LAMBDA a, i : Times(a, p), One, [i \in 1..n |-> i])
============================================================================
