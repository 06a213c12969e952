-------------------------------- MODULE Money --------------------------------
(***************************************************************************)
(* Whole amounts of money and the roundings of core/money.py and of        *)
(* decimal.  A rate is a whole number of 1/Scale.  Python's integer        *)
(* division and int() of a positive amount are \div.                       *)
(***************************************************************************)
EXTENDS Integers

CONSTANTS
    Scale, \* rates are counted in 1/Scale, ten thousand wherever it matters
    None   \* a figure that was not supplied or could not be determined

ASSUME ScaleAssumption == Scale \in Nat \ {0}

\* A figure that is missing is not taken for an amount.
ASSUME NoneAssumption == None \notin Int

Magnitude(n) == IF n < 0 THEN -n ELSE n

\* What is rounded up from a magnitude n over d, and down again at an even half.
UpFromHalf(n, d) == (2 * n + d) \div (2 * d)

ToEvenAtHalf(n, d) ==
    LET up == UpFromHalf(n, d)
    IN  IF 2 * n + d = 2 * d * up /\ up % 2 = 1 THEN up - 1 ELSE up

\* n/d to the nearest whole number, halves away from zero (ROUND_HALF_UP).
HalfUp(n, d) == IF n < 0 THEN -UpFromHalf(-n, d) ELSE UpFromHalf(n, d)

\* The same with halves to the even neighbour: quantize() without a mode.
HalfEven(n, d) == IF n < 0 THEN -ToEvenAtHalf(-n, d) ELSE ToEvenAtHalf(n, d)

\* int() of a quotient: towards zero.
Truncated(n, d) == IF n < 0 THEN -((-n) \div d) ELSE n \div d

\* amount * factor / Scale, of a factor above one: within the range of an integer.
Times(amount, factor) ==
    (amount \div Scale) * factor + HalfUp((amount % Scale) * factor, Scale)

\* int(amount * part / whole), likewise.
Share(amount, part, whole) ==
    LET upper == (amount \div 1000) * part
    IN  1000 * (upper \div whole) + (1000 * (upper % whole) + (amount % 1000) * part) \div whole

ApplyRate(amount, rate) == HalfUp(amount * rate, Scale)
=============================================================================
