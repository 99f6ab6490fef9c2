------------------------------ MODULE Numbers -------------------------------
(***************************************************************************)
(* math/basic_math.h, math/numeric_stats.h, math/random.h, the number      *)
(* conversions of type/type_convert.h, and the arithmetic on whole words   *)
(* of allocator.h, of the hash of unordered_map.h and of those of          *)
(* algorithms/string.h.  A double is modelled where the arithmetic is      *)
(* exact on the inputs taken: rationals are <<n, d>>, and floor(), ceil()  *)
(* and round() take halves.  sqrt() counts in units of 1 / Unit and cuts   *)
(* off the rest.                                                           *)
(***************************************************************************)
EXTENDS Loops, Bitwise

Abs(x) == IF x >= 0 THEN x ELSE -x

\* The variadic max and min: the first against the greatest of the rest.
MaxArgs(args) == FoldRight(LAMBDA a, rest : IF a > rest THEN a ELSE rest, Front(args), Last(args))
MinArgs(args) == FoldRight(LAMBDA a, rest : IF a < rest THEN a ELSE rest, Front(args), Last(args))

RECURSIVE GcdLoop(_, _)
GcdLoop(a, b) == IF b = 0 THEN a ELSE GcdLoop(b, a % b)
Gcd(a, b) == GcdLoop(Abs(a), Abs(b))
\* Division cuts towards zero.
Quotient(a, b) == IF a < 0 THEN -((-a) \div b) ELSE a \div b
Lcm(a, b) == IF a = 0 \/ b = 0 THEN 0 ELSE Quotient(a, Gcd(a, b)) * b

\* Square and multiply, from the lowest bit of the exponent.
RECURSIVE PowLoop(_, _, _)
PowLoop(result, base, exp) ==
    IF exp = 0 THEN result
    ELSE PowLoop(IF exp & 1 = 1 THEN result * base ELSE result, base * base, exp \div 2)
PowInt(base, exp) == IF exp < 0 THEN 0 ELSE PowLoop(1, base, exp)

\* Newton's iteration, as long as it goes down.
RECURSIVE SqrtLoop(_, _, _)
SqrtLoop(x, y, n) == IF y >= x THEN x ELSE SqrtLoop(y, (y + n \div y) \div 2, n)
SqrtInt(n) == IF n <= 0 THEN 0 ELSE IF n = 1 THEN 1 ELSE SqrtLoop(n, (n + 1) \div 2, n)

Unit == 16
Sqrt(n) == IF n = 0 THEN 0 ELSE SqrtLoop(n, (n + Unit) \div 2, n * Unit)

Factorial(n) == Upto(LAMBDA r, i : r * i, 1, 2, n)
Fibonacci(n) ==
    IF n = 0 THEN 0 ELSE Upto(LAMBDA p, i : <<p[2], p[1] + p[2]>>, <<0, 1>>, 2, n)[2]

\* Fault: the square of a prime is not tried.
IsPrimeShort(n) ==
    /\ n > 1
    /\ n <= 3 \/ (n % 2 # 0 /\ n % 3 # 0)
    /\ \A k \in 0 .. n : LET i == 5 + 6 * k IN i * i < n => n % i # 0 /\ n % (i + 2) # 0

IsPrime(n) ==
    /\ n > 1
    /\ n <= 3 \/ (n % 2 # 0 /\ n % 3 # 0)
    /\ \A k \in 0 .. n : LET i == 5 + 6 * k IN i * i <= n => n % i # 0 /\ n % (i + 2) # 0

IsOdd(n) == n % 2 # 0
IsPowerOfTwo(n) == n > 0 /\ n & (n - 1) = 0

RECURSIVE IsPowerOfTen(_)
IsPowerOfTen(n) == n = 1 \/ (n > 1 /\ n % 10 = 0 /\ IsPowerOfTen(n \div 10))

RECURSIVE CountOnes(_)
CountOnes(n) == IF n = 0 THEN 0 ELSE 1 + CountOnes(n & (n - 1))
CountZeros(n, bits) == bits - CountOnes(n)

RECURSIVE MsbPosition(_)
MsbPosition(n) == IF n < 2 THEN 0 ELSE 1 + MsbPosition(n \div 2)
RECURSIVE LsbPosition(_)
LsbPosition(n) == IF n = 0 \/ n & 1 = 1 THEN 0 ELSE 1 + LsbPosition(n \div 2)

\* A conversion to long long cuts towards zero; h counts halves.
Cut(h) == IF h >= 0 THEN h \div 2 ELSE -((-h) \div 2)
Floor(h) == IF h < 0 THEN Cut(h) - 1 ELSE Cut(h)
Ceil(h) == IF h > 0 /\ h > 2 * Cut(h) THEN Cut(h) + 1 ELSE Cut(h)
Round(h) == IF h >= 0 THEN Cut(h + 1) ELSE Cut(h - 1)
-----------------------------------------------------------------------------
Zero == <<0, 1>>
Same(p, q) == p[1] * q[2] = q[1] * p[2]
NotAbove(p, q) == p[1] * q[2] <= q[1] * p[2]   \* the denominators are positive

Sum(a) == FoldLeft(+, 0, a)
Mean(a) == IF a = <<>> THEN Zero ELSE <<Sum(a), Len(a)>>

\* N times the distance of a[i] from the mean.
Deviation(a, i) == Len(a) * a[i] - Sum(a)
SumOfProducts(a, b) == Upto(LAMBDA s, i : s + Deviation(a, i) * Deviation(b, i), 0, 1, Len(a))

Variance(a) ==
    IF Len(a) <= 1 THEN Zero ELSE <<SumOfProducts(a, a), Len(a) * Len(a) * (Len(a) - 1)>>
PopulationVariance(a) ==
    IF a = <<>> THEN Zero ELSE <<SumOfProducts(a, a), Len(a) * Len(a) * Len(a)>>
Covariance(a, b) == <<SumOfProducts(a, b), Len(a) * Len(a) * (Len(a) - 1)>>

\* The square of correlation(), which has the sign of its numerator.
SquaredCorrelation(a, b) ==
    LET denominator == SumOfProducts(a, a) * SumOfProducts(b, b)
    IN  IF denominator = 0 THEN Zero
        ELSE <<SumOfProducts(a, b) * SumOfProducts(a, b), denominator>>

MinValue(a) == Upto(LAMBDA m, i : IF a[i] < m THEN a[i] ELSE m, a[1], 2, Len(a))
MaxValue(a) == Upto(LAMBDA m, i : IF a[i] > m THEN a[i] ELSE m, a[1], 2, Len(a))
RangeOf(a) == MaxValue(a) - MinValue(a)

\* The two sorting loops: each place takes the least of what follows, and
\* neighbours are exchanged until the greatest is last.
ExchangeSorted(a) ==
    LET place(s, i) == Upto(LAMBDA t, j : IF t[j] < t[i] THEN Swapped(t, i, j) ELSE t, s, i + 1, Len(s))
    IN  Upto(place, a, 1, Len(a) - 1)
BubbleSorted(a) ==
    LET bubble(s, i) == Upto(LAMBDA t, j : IF t[j] > t[j + 1] THEN Swapped(t, j, j + 1) ELSE t,
                             s, 1, Len(s) - i)
    IN  Upto(bubble, a, 1, Len(a) - 1)

Median(a) ==
    LET s == BubbleSorted(a)
        half == Len(a) \div 2
    IN  IF a = <<>> THEN Zero
        ELSE IF Len(a) % 2 = 0 THEN <<s[half] + s[half + 1], 2>> ELSE <<s[half + 1], 1>>

InterquartileRange(a) ==
    LET s == ExchangeSorted(a)
        mid == Len(a) \div 2
        q == mid \div 2
    IN  IF Len(a) < 4 THEN Zero
        ELSE IF Len(a) % 2 = 0 THEN <<(s[mid + q] + s[mid + q + 1]) - (s[q] + s[q + 1]), 2>>
        ELSE <<s[mid + q + 2] - s[q + 1], 1>>

\* Between the elements around rank p / 100 * (N - 1).
Percentile(a, p) ==
    LET s == ExchangeSorted(a)
        rank == p * (Len(a) - 1)
        lower == rank \div 100
        part == rank % 100
    IN  IF a = <<>> \/ p < 0 \/ p > 100 THEN Zero
        ELSE IF lower + 1 >= Len(a) THEN <<s[Len(a)], 1>>
        ELSE <<s[lower + 1] * (100 - part) + s[lower + 2] * part, 100>>
\* The N-th power of geometric_mean(), which is 0 next to a number that is not positive.
GeometricPower(a) == IF a = <<>> \/ MinValue(a) <= 0 THEN 0 ELSE FoldLeft(LAMBDA p, x : p * x, 1, a)
\* Over the product of the numbers.
HarmonicMean(a) ==
    LET product == FoldLeft(LAMBDA p, x : p * x, 1, a)
        reciprocals == FoldLeft(LAMBDA s, x : s + product \div x, 0, a)
    IN  IF product = 0 \/ reciprocals = 0 THEN Zero ELSE <<Len(a) * product, reciprocals>>

\* The square of coefficient_of_variation(), without its 100.
SquaredVariation(a) ==
    IF Sum(a) = 0 THEN Zero ELSE <<Variance(a)[1] * Len(a) * Len(a), Variance(a)[2] * Sum(a) * Sum(a)>>

\* The sum of the k-th powers of the N-fold deviations.
Moment(a, k) == Upto(LAMBDA s, i : s + Deviation(a, i) ^ k, 0, 1, Len(a))
\* The square of skewness(), which has the sign of Moment(a, 3).
SquaredSkewness(a) ==
    LET n == Len(a) IN
    IF n < 3 \/ Moment(a, 2) = 0 THEN Zero
    ELSE <<n * n * (n - 1) * Moment(a, 3) ^ 2, (n - 2) * (n - 2) * Moment(a, 2) ^ 3>>
Kurtosis(a) ==
    LET n == Len(a) IN
    IF n < 4 \/ Moment(a, 2) = 0 THEN Zero
    ELSE <<n * (n + 1) * (n - 1) * Moment(a, 4) - 3 * (n - 1) * (n - 1) * Moment(a, 2) ^ 2,
           (n - 2) * (n - 3) * Moment(a, 2) ^ 2>>
-----------------------------------------------------------------------------
\* An integer type of that many bits.
TypeMin(type) == IF type.signed THEN -(2 ^ (type.bits - 1)) ELSE 0
TypeMax(type) == IF type.signed THEN 2 ^ (type.bits - 1) - 1 ELSE 2 ^ type.bits - 1

Error == -1000   \* an exception; no value of a type

\* Whether the comparison made for the two kinds of type throws.
Overflows(from, to, x) ==
    \/ from.signed /\ ~to.signed /\ (x < 0 \/ x > TypeMax(to))
    \/ ~from.signed /\ to.signed /\ x > TypeMax(to)
    \/ from.signed /\ to.signed /\ (x < TypeMin(to) \/ x > TypeMax(to))
    \/ ~from.signed /\ ~to.signed /\ x > TypeMax(to)
SafeNumericCast(from, to, x) == IF from # to /\ Overflows(from, to, x) THEN Error ELSE x

\* The characters of a string: digits and signs.
Digit == 0 .. 9
Minus == -1
Plus == -2

RECURSIVE DigitsOf(_)
DigitsOf(x) == IF x = 0 THEN <<>> ELSE Append(DigitsOf(x \div 10), x % 10)

\* Not for the least value of a type, whose negation overflows.
IntToString(x) ==
    IF x = 0 THEN <<0>> ELSE IF x < 0 THEN <<Minus>> \o DigitsOf(-x) ELSE DigitsOf(x)

\* wide stands for long long, in which the digits are collected.
StringToInt(wide, to, s) ==
    LET signed == s[1] \notin Digit
        digits == IF signed THEN Tail(s) ELSE s
        add(r, d) ==
            IF r = Error \/ d \notin Digit THEN Error
            ELSE IF r > (TypeMax(wide) - d) \div 10 THEN Error ELSE r * 10 + d
        r == FoldLeft(add, 0, digits)
    IN  IF s = <<>> THEN Error
        ELSE IF r = Error THEN Error
        ELSE SafeNumericCast(wide, to, IF s[1] = Minus THEN -r ELSE r)

Dot == -3
Exponent == -4

\* The digits that a text begins with, what they say, and what follows them.
Lead(s) == Min({i \in DOMAIN s : s[i] \notin Digit} \cup {Len(s) + 1}) - 1
NumberOf(s) == FoldLeft(LAMBDA r, d : 10 * r + d, 0, SubSeq(s, 1, Lead(s)))
Behind(s) == SubSeq(s, Lead(s) + 1, Len(s))

Begins(s, set) == s # <<>> /\ s[1] \in set
Unsigned(s) == IF Begins(s, {Minus, Plus}) THEN Tail(s) ELSE s

\* A sign, digits, a dot with digits and an exponent: each may be missing,
\* and so may the digits of each.
StringToFloat(s) ==
    LET body == Unsigned(s)
        afterWhole == Behind(body)
        fraction == IF Begins(afterWhole, {Dot}) THEN Tail(afterWhole) ELSE <<>>
        afterFraction == IF Begins(afterWhole, {Dot}) THEN Behind(fraction) ELSE afterWhole
        signed == IF Begins(afterFraction, {Exponent}) THEN Tail(afterFraction) ELSE <<>>
        exponent == NumberOf(Unsigned(signed))
        rest == IF Begins(afterFraction, {Exponent}) THEN Behind(Unsigned(signed)) ELSE afterFraction
        parts == 10 ^ Lead(fraction)
        value == NumberOf(body) * parts + NumberOf(fraction)
        result == IF Begins(signed, {Minus}) THEN <<value, parts * 10 ^ exponent>>
                                             ELSE <<value * 10 ^ exponent, parts>>
    IN  IF s = <<>> \/ rest # <<>> THEN <<Error, 1>>
        ELSE IF s[1] = Minus THEN <<-result[1], result[2]>> ELSE result

\* Of x hundredths, with a precision of two digits.
FloatToString(x) ==
    LET whole == Abs(x) \div 100 IN
    (IF x < 0 THEN <<Minus>> ELSE <<>>) \o IntToString(whole)
    \o <<Dot, (Abs(x) \div 10) % 10, Abs(x) % 10>>

\* An object is the set of the classes it is of, the null pointer {}.
SafeDowncastOrNull(object, to) == IF to \in object THEN object ELSE {}
SafeDowncast(object, to) ==
    IF SafeDowncastOrNull(object, to) = {} THEN {Error} ELSE SafeDowncastOrNull(object, to)

\* uniform_int_distribution: r is what the engine draws; the arithmetic is
\* that of an unsigned type of the given number of values.
UniformInt(min, max, r, values) ==
    LET range == (max - min + 1) % values IN (r % range) + min

\* random_int(): the distribution is a static object, made by the first call.
RandomInt(dist, min, max, r, values) ==
    LET d == IF dist = <<>> THEN <<min, max>> ELSE dist
    IN  [dist |-> d, answer |-> UniformInt(d[1], d[2], r, values)]

\* lcg_engine, with the modulus 2^32 of its arithmetic and its own one scaled.
LcgNext(state, a, c, word, m) == ((a * state + c) % word) % m
LcgSeed(s) == IF s = 0 THEN 1 ELSE s
\* xorshift_engine of a word of w bits, with shifts a, b and c of its own.
XorshiftSeed(s, mask) == <<s, s ^^ mask>>
XorshiftState(state, a, b, c, w) ==
    LET s0 == state[2]
        s1 == state[1] ^^ ((state[1] * 2 ^ a) % 2 ^ w)
    IN  <<s0, ((s1 ^^ s0) ^^ (s1 \div 2 ^ b)) ^^ (s0 \div 2 ^ c)>>
XorshiftAnswer(state, w) == (state[1] + state[2]) % 2 ^ w

\* uniform_real_distribution; most is the greatest draw of the engine.
UniformReal(min, max, r, most) == <<min * most + r * (max - min), most>>
RandomBool(r, most, probability) == ~NotAbove(probability, UniformReal(0, 1, r, most))

\* normal_distribution: two draws, the first of which is repeated while it is
\* 0.  The second number of the pair is kept, but nothing sets use_next_.
NormalDraw(dist, draws) ==
    IF dist.useNext /\ dist.hasNext
    THEN [dist |-> [dist EXCEPT !.useNext = FALSE], u |-> <<>>, taken |-> 0]
    ELSE LET again == Min({i \in DOMAIN draws : i > 2 /\ draws[i] # 0})
             first == IF draws[1] # 0 THEN 1 ELSE again
         IN  [dist |-> [dist EXCEPT !.hasNext = TRUE], u |-> <<draws[first], draws[2]>>,
              taken |-> Max({first, 2})]

\* Fault: no element is left where it is.
ShuffleArrayShort(a, draws) ==
    Downto(LAMBDA s, i : Swapped(s, i, ((draws[i] - 1) % (i - 1)) + 1), a, Len(a), 2)
\* shuffle() of an array: draws[i] for the element of index i - 1.
ShuffleArray(a, draws) ==
    Downto(LAMBDA s, i : Swapped(s, i, ((draws[i] - 1) % i) + 1), a, Len(a), 2)
-----------------------------------------------------------------------------
\* memory/allocator.h: bytes and counts are words of that many values.
AllocatedBytes(n, size, values) == (n * size) % values
MaxSize(size, values) == (values - 1) \div size

\* integral_hash of containers/associative/unordered_map.h.
IntegralHash(bytes, offset, prime, values) ==
    FoldLeft(LAMBDA h, byte : ((h ^^ byte) * prime) % values, offset, bytes)

\* The hashes of algorithms/string.h; a shift to the left multiplies.
HashDjb2(bytes, values) ==
    FoldLeft(LAMBDA h, c : ((h * 32 + h) + c) % values, 5381 % values, bytes)
HashSdbm(bytes, values) ==
    FoldLeft(LAMBDA h, c : (c + h * 2 ^ 6 + h * 2 ^ 16 - h) % values, 0, bytes)
HashFnv1a(bytes, offset, prime, values) ==
    FoldLeft(LAMBDA h, c : ((h ^^ c) * prime) % values, offset, bytes)
-----------------------------------------------------------------------------
\* What the functions of numbers owe their callers.
ArithmeticRight(x, y) ==
    /\ x > 0 \/ y > 0 => /\ x % Gcd(x, y) = 0 /\ y % Gcd(x, y) = 0
                         /\ \A d \in 1 .. Max({x, y}) : x % d = 0 /\ y % d = 0 => d <= Gcd(x, y)
    /\ x > 0 /\ y > 0 => /\ Lcm(x, y) = Min({m \in 1 .. x * y : m % x = 0 /\ m % y = 0})
                         /\ Lcm(-x, y) = -Lcm(x, y)
    /\ x \in 1 .. 12 /\ y <= 4 => PowInt(x, y) = x ^ y
    /\ SqrtInt(x) * SqrtInt(x) <= x /\ x < (SqrtInt(x) + 1) * (SqrtInt(x) + 1)
    /\ x >= Unit => LET r == Sqrt(x) IN r * r <= x * Unit /\ x * Unit < (r + 1) * (r + 1)
    /\ IsPrime(x) <=> x > 1 /\ \A d \in 2 .. x - 1 : x % d # 0
    /\ IsPowerOfTwo(x) <=> CountOnes(x) = 1
    /\ IsPowerOfTwo(x) => MsbPosition(x) = LsbPosition(x)
    /\ x > 0 => 2 ^ MsbPosition(x) <= x /\ x < 2 ^ (MsbPosition(x) + 1)
    /\ x > 0 => x % 2 ^ LsbPosition(x) = 0 /\ IsOdd(x \div 2 ^ LsbPosition(x))
    /\ IsPowerOfTen(x) <=> x \in {1, 10, 100}
    /\ 2 * Floor(x) <= x /\ x <= 2 * Ceil(x) /\ Ceil(x) - Floor(x) = x % 2
    /\ Ceil(-x) = -Floor(x) /\ Round(-x) = -Round(x) /\ Abs(2 * Round(x) - x) <= 1
    /\ x % 2 = 1 => Floor(-x) = -Ceil(x)

\* What the statistics owe their callers.
StatisticsRight(a, b) ==
    /\ ExchangeSorted(a) = BubbleSorted(a)
    /\ Same(Variance(a), Covariance(a, a)) \/ Len(a) <= 1
    /\ LET moved == [i \in DOMAIN a |-> a[i] + 1] IN Same(Variance(moved), Variance(a))
    /\ NotAbove(PopulationVariance(a), Variance(a)) \/ Len(a) <= 1
    /\ Len(a) = Len(b) => NotAbove(SquaredCorrelation(a, b), <<1, 1>>)
    /\ a # <<>> =>
          /\ NotAbove(<<MinValue(a), 1>>, Mean(a)) /\ NotAbove(Mean(a), <<MaxValue(a), 1>>)
          /\ Same(Median(a), Percentile(a, 50))
          /\ Same(Percentile(a, 0), <<MinValue(a), 1>>)
          /\ Same(Percentile(a, 100), <<MaxValue(a), 1>>)
          /\ \A p \in {0, 10, 25, 40, 50, 75} : NotAbove(Percentile(a, p), Percentile(a, p + 25))
          /\ NotAbove(Zero, InterquartileRange(a))
          /\ NotAbove(InterquartileRange(a), <<RangeOf(a), 1>>)
          /\ MaxArgs(a) = MaxValue(a) /\ MinArgs(a) = MinValue(a)
          /\ GeometricPower(a) * Len(a) ^ Len(a) <= Sum(a) ^ Len(a)
          /\ NotAbove(HarmonicMean(a), Mean(a))
    /\ Len(a) <= 3 => Same(SquaredVariation([i \in DOMAIN a |-> 2 * a[i]]), SquaredVariation(a))
    \* The bounds of a sample: reached by one that lies apart from all others,
    \* and by two halves.
    /\ Len(a) <= 4 => NotAbove(SquaredSkewness(a), <<Len(a), 1>>)
    /\ Len(a) = 4 /\ a[1] # a[2] /\ a[2] = a[3] /\ a[3] = a[4] => Same(SquaredSkewness(a), <<4, 1>>)
    /\ Len(a) >= 4 => NotAbove(<<-2 * (Len(a) - 1), Len(a) - 3>>, Kurtosis(a))
    /\ Len(a) = 4 /\ a[1] # a[2] /\ a[1] = a[3] /\ a[2] = a[4] => Same(Kurtosis(a), <<-6, 1>>)

\* A cast answers the number or throws, and it throws exactly when the type
\* cannot hold it; what int_to_string() and float_to_string() write is read
\* back, with an exponent scaled by it.
ConversionsRight(x) ==
    LET types == {[signed |-> s, bits |-> n] : s \in BOOLEAN, n \in {3, 4, 5}}
        wide == [signed |-> TRUE, bits |-> 7]
    IN
    /\ \A from, to \in types :
          /\ \A v \in {x, -x} : v \in TypeMin(from) .. TypeMax(from) =>
                SafeNumericCast(from, to, v)
                = IF v \in TypeMin(to) .. TypeMax(to) THEN v ELSE Error
          /\ \A v \in {x, -x} :
                /\ v \in TypeMin(to) .. TypeMax(to) => StringToInt(wide, to, IntToString(v)) = v
                /\ v \notin TypeMin(to) .. TypeMax(to) => StringToInt(wide, to, IntToString(v)) = Error
          /\ StringToInt(wide, to, <<Plus>> \o IntToString(x)) = StringToInt(wide, to, IntToString(x))
          /\ StringToInt(wide, to, IntToString(x) \o <<Minus>>) = Error
    /\ \A v \in {x, -x} :
          LET text == FloatToString(v) IN
          /\ Same(StringToFloat(text), <<v, 100>>)
          /\ Same(StringToFloat(text \o <<Exponent, 2>>), <<v, 1>>)
          /\ Same(StringToFloat(text \o <<Exponent, Minus, 2>>), <<v, 10000>>)
          /\ Same(StringToFloat(IntToString(v)), <<v, 1>>)
          /\ StringToFloat(text \o <<Dot>>) = <<Error, 1>>
    /\ \A object \in SUBSET {0, 1}, to \in {0, 1} :
          SafeDowncast(object, to) = {Error} <=> to \notin object

\* A draw stays within the bounds of its distribution, whatever the engine
\* draws; the whole range of the type is left out, its size wraps to 0.
DrawsRight(r) ==
    LET values == 16 IN
    /\ \A min \in 0 .. 7 : \A max \in min .. min + 8 :
          UniformInt(min, max, r, values) \in min .. max
    /\ LcgNext(LcgSeed(r), 5, 3, values, 7) \in 0 .. 6
    /\ r < values => /\ \A p \in 0 .. 4 : RandomBool(r, values - 1, <<p, 4>>) => RandomBool(r, values - 1, <<p + 1, 4>>)
                     /\ ~RandomBool(r, values - 1, Zero)
                     /\ UniformReal(2, 5, r, values - 1)[1] \in 2 * (values - 1) .. 5 * (values - 1)
    \* The engine never comes to a state of zeros, and never to one by two ways.
    /\ r < 8 =>
          LET after(s) == XorshiftState(s, 1, 2, 1, 3) IN
          /\ XorshiftAnswer(XorshiftSeed(r, 5), 3) \in 0 .. 7 /\ after(XorshiftSeed(r, 5)) # <<0, 0>>
          /\ \A s, t, u \in 0 .. 7 : after(<<r, s>>) = after(<<t, u>>) => <<r, s>> = <<t, u>>
    \* A logarithm is taken of a number above 0, and draws are used in pairs.
    /\ r < 27 =>
          LET draws == <<r % 3, (r \div 3) % 3, r \div 9, 1>>
              drawn == NormalDraw([hasNext |-> r % 2 = 0, useNext |-> FALSE], draws)
          IN  drawn.u[1] # 0 /\ drawn.u[2] = draws[2] /\ drawn.taken - 2 <= Cardinality({i \in {1, 3} : draws[i] = 0})

\* Memory for n elements is as large as they are, unless n is above max_size().
\* The multiplications of the hashes lose nothing: texts of bytes that differ
\* in one byte only have different hashes, all four of them.
WordsRight(a) ==
    /\ \A n \in 0 .. 17, size \in 1 .. 4 :
          AllocatedBytes(n, size, 16) = n * size <=> n <= MaxSize(size, 16)
    /\ \A i \in DOMAIN a, byte \in 0 .. 4 :
          LET b == [a EXCEPT ![i] = byte]
          IN  a # b => /\ IntegralHash(a, 14, 11, 16) # IntegralHash(b, 14, 11, 16)
                       /\ HashDjb2(a, 128) # HashDjb2(b, 128)
                       /\ HashSdbm(a, 128) # HashSdbm(b, 128)
                       /\ HashFnv1a(a, 37, 51, 128) # HashFnv1a(b, 37, 51, 128)

\* Shuffling permutes, and any order can come out.
ShufflesRight(a) ==
    LET shuffled == {ShuffleArray(a, draws) : draws \in [DOMAIN a -> DOMAIN a]} IN
    shuffled = {[i \in DOMAIN a |-> a[p[i]]] : p \in Permutations(DOMAIN a)}

\* What the comment on random_int() says: each call draws between its bounds.
RandomIntInRange(r) ==
    \A lo, hi \in 0 .. 7 : lo <= hi =>
        LET first == RandomInt(<<>>, 0, 1, r, 16)
        IN  RandomInt(first.dist, lo, hi, r, 16).answer \in lo .. hi
=============================================================================
