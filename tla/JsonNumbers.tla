---------------------------- MODULE JsonNumbers -----------------------------
(***************************************************************************)
(* The numbers of chjson as snprintf writes them and strtod reads them.    *)
(* A number is a row of integers: an exponent e, a sign s (1 or -1) and     *)
(* digits d1...dn, for s * 0.d1...dn * 10^e, which is what a double is      *)
(* exactly.  Reading is exact here too, with no range and no rounding to a  *)
(* double, and there is one zero.                                          *)
(***************************************************************************)
EXTENDS JsonChars, FiniteSetsExt, SequencesExt

CONSTANT Precision      \* of "%.15g"

ASSUME PrecisionAssumption == Precision \in Nat \ {0}

Number == {n \in Seq(Int) : /\ Len(n) >= 2
                           /\ n[2] \in {1, -1}
                           /\ \A i \in 3..Len(n) : n[i] \in 0..9}
Decimal(exp, sign, digits) == <<exp, sign>> \o digits
Exp(n) == n[1]
Sign(n) == n[2]
Digits(n) == SubSeq(n, 3, Len(n))

\* The same number, without zeros at either end of its digits.
Canonical[n \in Number] ==
    LET d == Digits(n)
        places == {i \in DOMAIN d : d[i] # 0}
    IN IF places = {} THEN Decimal(0, 1, <<>>)
       ELSE Decimal(Exp(n) - (Min(places) - 1), Sign(n), SubSeq(d, Min(places), Max(places)))

----------------------------------------------------------------------------
\* The nearest number with Precision digits; of two, the one that ends evenly.
\* A carry ends at the last digit that is not a nine.
Rounded[n \in Number] ==
    LET d == Digits(n)
        kept == SubSeq(d, 1, Precision)
        upwards == \/ d[Precision + 1] > 5
                   \/ /\ d[Precision + 1] = 5
                      /\ Len(d) > Precision + 1 \/ kept[Precision] % 2 = 1
        small == {i \in 1..Precision : kept[i] < 9}
    IN IF Len(d) <= Precision THEN n
       ELSE IF ~ upwards THEN Canonical[Decimal(Exp(n), Sign(n), kept)]
       ELSE IF small = {} THEN Decimal(Exp(n) + 1, Sign(n), <<1>>)
       ELSE Decimal(Exp(n), Sign(n), [SubSeq(kept, 1, Max(small)) EXCEPT ![Max(small)] = @ + 1])

DigitChars(digits) == [i \in DOMAIN digits |-> Ch["0"] + digits[i]]
Zeros(k) == IF k > 0 THEN [i \in 1..k |-> 0] ELSE <<>>
Pointed(whole, fraction) ==
    DigitChars(whole) \o (IF fraction = <<>> THEN <<>> ELSE <<Ch["."]>> \o DigitChars(fraction))

\* The exponent of a double has three digits at most, and is written with two.
ExponentText(x) ==
    LET size == IF x < 0 THEN -x ELSE x
        tens == <<(size \div 10) % 10, size % 10>>
    IN <<Ch["e"], IF x < 0 THEN Ch["-"] ELSE Ch["+"]>>
       \o DigitChars(IF size < 100 THEN tens ELSE <<(size \div 100) % 10>> \o tens)

\* %g: with an exponent if it is small or the digits do not reach the point.
MagnitudeText[n \in Number] ==
    LET d == Digits(n)
        padded == Zeros(1 - Exp(n)) \o d \o Zeros(Exp(n) - Len(d))
        point == IF Exp(n) > 0 THEN Exp(n) ELSE 1
    IN IF d = <<>> THEN <<Ch["0"]>>
       ELSE IF Exp(n) \in -3..Precision
       THEN Pointed(SubSeq(padded, 1, point), SubSeq(padded, point + 1, Len(padded)))
       ELSE Pointed(<<d[1]>>, SubSeq(d, 2, Len(d))) \o ExponentText(Exp(n) - 1)

\* snprintf with "%.15g" into num_buf.
NumberText[n \in Number] ==
    LET text == (IF Sign(n) = -1 THEN <<Ch["-"]>> ELSE <<>>) \o MagnitudeText[Rounded[n]]
    IN SubSeq(text, 1, Min({Len(text), NumberWidth - 1}))

----------------------------------------------------------------------------
\* strtod.  What comes before the first e, and what comes behind it.
Exponents(x) == {i \in DOMAIN x : x[i] \in {Ch["e"], Ch["E"]}}
Mantissa(x) == SubSeq(x, 1, IF Exponents(x) = {} THEN Len(x) ELSE Min(Exponents(x)) - 1)
Exponent(x) == IF Exponents(x) = {} THEN <<Ch["0"]>> ELSE SubSeq(x, Min(Exponents(x)) + 1, Len(x))

\* A row of digits with a sign or without, and the same with a point in it.
IsSign(x, i) == i = 1 /\ x[i] \in {Ch["+"], Ch["-"]}
IsInteger(x) ==
    /\ \A i \in DOMAIN x : x[i] \in Digit \/ IsSign(x, i)
    /\ \E i \in DOMAIN x : x[i] \in Digit
IsDecimal(x) ==
    /\ \A i \in DOMAIN x : x[i] \in Digit \cup {Ch["."]} \/ IsSign(x, i)
    /\ \E i \in DOMAIN x : x[i] \in Digit
    /\ \A i, j \in DOMAIN x : x[i] = Ch["."] /\ x[j] = Ch["."] => i = j

\* strtod takes all of x, and what it returns then.
IsNumber[x \in Seq(Char)] == IsDecimal(Mantissa(x)) /\ IsInteger(Exponent(x))

IntegerValue(x) ==
    LET Shift(n, c) == IF c \in Digit THEN n * 10 + c - Ch["0"] ELSE n
        size == FoldLeft(Shift, 0, x)
    IN IF x[1] = Ch["-"] THEN - size ELSE size

\* The digits on both sides of the point, which may be at the end.
Strtod[x \in Seq(Char)] ==
    LET m == Mantissa(x)
        point == Min({i \in DOMAIN m : m[i] = Ch["."]} \cup {Len(m) + 1})
        whole == SubSeq(m, IF IsSign(m, 1) THEN 2 ELSE 1, point - 1)
        figures == whole \o SubSeq(m, point + 1, Len(m))
    IN Canonical[Decimal(IntegerValue(Exponent(x)) + Len(whole),
                         IF m[1] = Ch["-"] THEN -1 ELSE 1,
                         [i \in DOMAIN figures |-> figures[i] - Ch["0"]])]

============================================================================
