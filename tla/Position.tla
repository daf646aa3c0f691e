------------------------------ MODULE Position ------------------------------
(***************************************************************************)
(* Page ordering keys (src/src/position/mod.rs and arith.rs).              *)
(*                                                                         *)
(* A key is a sequence of digits in base LEN, ordered like a string.  It   *)
(* begins with an integer, whose first digits (the head) say how long the  *)
(* integer is: MOST_NEGATIVE..FIRST_NEGATIVE are the heads of negative     *)
(* integers ("A" to "Z"), FIRST_POSITIVE..MOST_POSITIVE of the others ("a" *)
(* to "z").  What follows the integer is a fraction.                       *)
(***************************************************************************)
EXTENDS Integers, SequencesExt

CONSTANTS
  LEN,             \* the number of digits: 62
  MOST_NEGATIVE,   \* 10
  FIRST_NEGATIVE,  \* 35
  FIRST_POSITIVE,  \* 36
  MOST_POSITIVE,   \* 61
  JITTER_RANGE,    \* a fifth of LEN^3
  MaxNumber,       \* u64::MAX
  None             \* no bound

Digit == 0..(LEN - 1)

\* Three digits have room for the jitter, two have not.
ASSUME DigitConstants ==
  /\ LEN \in Nat /\ LEN >= 6
  /\ MOST_NEGATIVE \in Nat /\ FIRST_NEGATIVE \in Nat
  /\ 0 < MOST_NEGATIVE /\ MOST_NEGATIVE < FIRST_NEGATIVE
  /\ FIRST_POSITIVE = FIRST_NEGATIVE + 1
  /\ FIRST_POSITIVE < MOST_POSITIVE /\ MOST_POSITIVE = LEN - 1
  /\ JITTER_RANGE = (LEN * LEN * LEN) \div 5
  /\ MaxNumber \in Nat /\ JITTER_RANGE < MaxNumber
  /\ None \notin Seq(Digit)

Longer(a, b) == IF Len(a) >= Len(b) THEN Len(a) ELSE Len(b)

\* The order of strings.
Before(a, b) ==
  \/ IsStrictPrefix(a, b)
  \/ \E i \in DOMAIN a \cap DOMAIN b :
       a[i] < b[i] /\ \A j \in 1..(i - 1) : a[j] = b[j]

-----------------------------------------------------------------------------
\* The number that the first so many digits of a key stand for.
Values(key) ==
  LET value[n \in 0..Len(key)] ==
        IF n = 0 THEN 0 ELSE LEN * value[n - 1] + key[n]
  IN value

Number(key) == Values(key)[Len(key)]

\* LEN^n
Power(n) ==
  LET power[m \in 0..n] == IF m = 0 THEN 1 ELSE LEN * power[m - 1]
  IN power[n]

\* A number in so many digits, with leading zeros.
Digits(n, width) == [i \in 1..width |-> (n \div Power(width - i)) % LEN]

\* encode_to_charset: in as few digits as it takes.
Encode(n) ==
  Digits(n, CHOOSE w \in 1..(n + 1) :
              n < Power(w) /\ (w = 1 \/ n >= Power(w - 1)))

\* add_keys: aligned at the end, with a digit more for a carry.
Add(a, b) ==
  LET width == Longer(a, b)
      sum == Number(a) + Number(b)
  IN Digits(sum, IF sum >= Power(width) THEN width + 1 ELSE width)

Increment(key) == Add(key, <<1>>)

\* decrement_key keeps leading zeros.
Decrement(key) == Digits(Number(key) - 1, Len(key))

Zeros(n) == [i \in 1..n |-> 0]

PadTo(key, width) == key \o Zeros(width - Len(key))

\* lexical_distance: aligned at the start; decode_to_number saturates.
Distance(a, b) ==
  LET width == Longer(a, b)
      m == Number(PadTo(a, width))
      n == Number(PadTo(b, width))
      difference == IF m <= n THEN n - m ELSE m - n
  IN IF difference <= MaxNumber THEN difference ELSE MaxNumber

\* mid_point
MidPoint(lower, upper) ==
  LET padded == PadTo(lower, Longer(lower, upper))
      distance == Distance(lower, upper)
  IN IF distance = 1
     THEN Add(Append(padded, 0), Encode(LEN \div 2))
     ELSE Add(padded, Encode(distance \div 2))

-----------------------------------------------------------------------------
\* The number of leading digits that are the extreme head of their sign.
Run(key) ==
  IF key[1] \notin {MOST_POSITIVE, MOST_NEGATIVE} THEN 0
  ELSE CHOOSE n \in 1..Len(key) :
         /\ \A i \in 1..n : key[i] = key[1]
         /\ n < Len(key) => key[n + 1] # key[1]

\* integer_head: that run and one digit more, if there is one.
IntegerHead(key) ==
  LET n == Run(key) IN SubSeq(key, 1, IF n < Len(key) THEN n + 1 ELSE n)

Gap(a, b) == IF a <= b THEN b - a ELSE a - b

\* integer_length, with integer_length_second_level unrolled over the run.
IntegerLength(head) ==
  LET positive == head[1] >= FIRST_POSITIVE
      innermost == IF positive THEN FIRST_POSITIVE ELSE FIRST_NEGATIVE
      opposite == IF positive THEN MOST_NEGATIVE ELSE MOST_POSITIVE
      n == Run(head)
  IN IF n = 0 THEN Gap(head[1], innermost) + 2
     ELSE Gap(head[1], innermost) + 1
            + (n - 1) * (Gap(head[1], opposite) + 1)
            + (IF n < Len(head) THEN Gap(head[n + 1], opposite) ELSE 0) + 2

\* get_integer_part fails on a key that is shorter than its head says.
Valid(key) == IntegerLength(IntegerHead(key)) <= Len(key)

IntegerPart(key) == SubSeq(key, 1, IntegerLength(IntegerHead(key)))

\* start_on_new_head
StartOn(head, digit) ==
  head \o [i \in 1..(IntegerLength(head) - Len(head)) |-> digit]

DigitsOf(integer) == SubSeq(integer, Len(IntegerHead(integer)) + 1, Len(integer))

\* increment_integer_head
NextHead(head) ==
  LET next == Increment(head) IN
  IF head[1] >= FIRST_POSITIVE /\ Last(next) = MOST_POSITIVE
  THEN Append(next, MOST_NEGATIVE)
  ELSE IF head[1] < FIRST_POSITIVE /\ Last(head) = MOST_POSITIVE
  THEN Front(head)
  ELSE next

\* decrement_integer_head
PreviousHead(head) ==
  IF Last(head) # MOST_NEGATIVE THEN Decrement(head)
  ELSE IF head[1] >= FIRST_POSITIVE THEN Decrement(Front(head))
  ELSE Append(head, MOST_POSITIVE)

\* increment_integer
NextInteger(integer) ==
  LET head == IntegerHead(integer)
      digits == DigitsOf(integer)
  IN IF \E i \in DOMAIN digits : digits[i] # MOST_POSITIVE
     THEN head \o Increment(digits)
     ELSE StartOn(NextHead(head), 0)

\* decrement_integer
PreviousInteger(integer) ==
  LET head == IntegerHead(integer)
      digits == DigitsOf(integer)
  IN IF \E i \in DOMAIN digits : digits[i] # 0
     THEN head \o Decrement(digits)
     ELSE StartOn(PreviousHead(head), LEN - 1)

-----------------------------------------------------------------------------
\* generate_key_between, for valid bounds in order.
KeyBetween(lower, upper) ==
  IF lower = None /\ upper = None THEN <<FIRST_POSITIVE, 0>>
  ELSE IF lower = None THEN PreviousInteger(IntegerPart(upper))
  ELSE IF upper = None THEN NextInteger(IntegerPart(lower))
  ELSE MidPoint(lower, upper)

\* padding_needed_for_distance
PaddingFor(distance) ==
  LET gap == IF distance < JITTER_RANGE THEN JITTER_RANGE - distance ELSE 0
  IN CHOOSE i \in 0..12 : Power(i) > gap /\ (i = 0 \/ Power(i - 1) <= gap)

PaddingUpTo(key, bound) ==
  IF Distance(key, bound) > JITTER_RANGE THEN 0 ELSE PaddingFor(Distance(key, bound))

\* Mutant of Padding: the jitter is only kept below the upper bound.
PaddingBelowUpper(key, upper) == IF upper = None THEN 0 ELSE PaddingUpTo(key, upper)

\* padding_needed_for_jitter: the shift passes neither the upper bound nor the
\* next integer.
Padding(key, upper) ==
  LET next == PaddingUpTo(key, NextInteger(IntegerPart(key)))
      bound == IF upper = None THEN 0 ELSE PaddingUpTo(key, upper)
  IN IF next >= bound THEN next ELSE bound

\* jittered_with_shift
Jittered(lower, upper, shift) ==
  LET key == KeyBetween(lower, upper)
  IN Add(key \o Zeros(Padding(key, upper)), Encode(shift))
=============================================================================
