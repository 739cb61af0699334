----------------------------- MODULE Saturation -----------------------------
(***************************************************************************)
(* Saturating arithmetic and ranges of startle/support.c, and the ranges   *)
(* of the results of operators (the *_range_op of primitive/arithmetic.c). *)
(*                                                                         *)
(* An integer is between MIN and MAX.  As the limit of a range, MIN and    *)
(* MAX mean that there is no limit; the operators that end in i ("infinite *)
(* limits") keep it that way.                                              *)
(***************************************************************************)
EXTENDS Integers

CONSTANT MAX  \* INTPTR_MAX

ASSUME MaxAssumption == MAX \in Nat /\ MAX > 2

MIN == -MAX - 1

Int_t == MIN .. MAX

Min2(x, y) == IF x < y THEN x ELSE y

Max2(x, y) == IF x > y THEN x ELSE y

Magnitude(x) == IF x < 0 THEN -x ELSE x

(* The division and the remainder of C, which round towards zero.          *)
Quot(n, d) == IF (n < 0) = (d < 0)
              THEN Magnitude(n) \div Magnitude(d)
              ELSE -(Magnitude(n) \div Magnitude(d))

Rem(n, d) == n - d * Quot(n, d)

(* The processor traps when it divides these.                              *)
DivTraps(n, d) == d = 0 \/ (n = MIN /\ d = -1)

-----------------------------------------------------------------------------

sign(x) == IF x < 0 THEN -1 ELSE IF x > 0 THEN 1 ELSE 0

sat_add(x, y) ==
  IF x >= 0 /\ y > MAX - x THEN MAX
  ELSE IF x < 0 /\ y < MIN - x THEN MIN
  ELSE x + y

sat_addi(x, y) ==
  IF MAX \in {x, y} THEN MAX ELSE IF MIN \in {x, y} THEN MIN ELSE sat_add(x, y)

sat_sub(x, y) ==
  IF x >= 0 /\ y < x - MAX THEN MAX
  ELSE IF x < 0 /\ y > x - MIN THEN MIN
  ELSE x - y

sat_subi(x, y) ==
  IF x = MAX \/ y = MIN THEN MAX
  ELSE IF x = MIN \/ y = MAX THEN MIN
  ELSE sat_sub(x, y)

sat_abs(x) == IF x = MIN THEN MAX ELSE Magnitude(x)

sat_neg(x) == IF x = MIN THEN MAX ELSE -x

sat_negi(x) == IF x = MIN THEN MAX ELSE IF x = MAX THEN MIN ELSE -x

(* Rounded down, and up.                                                   *)
div_min(n, d) == IF (n < 0) = (d < 0) THEN Quot(n, d)
                 ELSE Quot(sat_sub(n, d - sign(d)), d)

div_max(n, d) == IF (n < 0) # (d < 0) THEN Quot(n, d)
                 ELSE Quot(sat_add(n, d - sign(d)), d)

Unlimited(n) == n \in {MIN, MAX}

div_mini(n, d) == IF Unlimited(n) THEN n ELSE div_min(n, d)

div_maxi(n, d) == IF Unlimited(n) THEN n ELSE div_max(n, d)

div_i(n, d) == IF Unlimited(n) THEN n ELSE Quot(n, d)

low_limit(x) == IF x > 0 THEN MIN ELSE MAX

high_limit(x) == IF x > 0 THEN MAX ELSE MIN

(* The limits of the factor y are quotients: the one by -1 traps.          *)
SatMulTraps(x, y) == x = -1 /\ y # 0 /\ y >= div_max(low_limit(x), x)

sat_mul(x, y) ==
  IF x = 0 \/ y = 0 THEN 0
  ELSE IF y < div_max(low_limit(x), x) THEN low_limit(x)
  ELSE IF SatMulTraps(x, y) THEN 0
  ELSE IF y > div_min(high_limit(x), x) THEN high_limit(x)
  ELSE x * y

(* The test of x is written twice: y is not tested.                        *)
sat_muli(x, y) ==
  IF x = 0 \/ y = 0 THEN 0
  ELSE IF Unlimited(x) THEN (IF (x > 0) = (y > 0) THEN MAX ELSE MIN)
  ELSE sat_mul(x, y)

SatMuliTraps(x, y) == ~Unlimited(x) /\ SatMulTraps(x, y)

-----------------------------------------------------------------------------
(* Ranges.                                                                 *)

range_t == [min : Int_t, max : Int_t]

RANGE(lo, hi) == [min |-> lo, max |-> hi]

RANGE_ALL == RANGE(MIN, MAX)

RANGE_NONE == RANGE(MAX, MIN)

RANGE_POS == RANGE(0, MAX)

range_intersect(a, b) == RANGE(Max2(a.min, b.min), Min2(a.max, b.max))

range_empty(a) == a.min > a.max

range_union(a, b) ==
  IF range_empty(b) THEN a
  ELSE IF range_empty(a) THEN b
  ELSE RANGE(Min2(a.min, b.min), Max2(a.max, b.max))

range_singleton(a) == a.min = a.max

range_bounded(a) == a.min # MIN /\ a.max # MAX

(* One more than MAX wraps around.                                         *)
range_span(a) ==
  LET span == sat_subi(a.max, a.min)
  IN  IF a.max < a.min THEN 0 ELSE IF span = MAX THEN MIN ELSE span + 1

(* The number of bits that hold x - 1.                                     *)
int_log2l(x) == CHOOSE b \in 0 .. MAX : 2 ^ b >= x /\ (b = 0 \/ 2 ^ (b - 1) < x)

(* The bits of intptr_t.                                                   *)
Width == int_log2l(MAX) + 1

range_bits(b) ==
  IF b = 0 THEN RANGE(0, 0)
  ELSE IF b < 0
       THEN IF b <= -Width THEN RANGE_ALL
            ELSE RANGE(-(2 ^ (-b - 1)), 2 ^ (-b - 1) - 1)
  ELSE IF b >= Width - 1 THEN RANGE_POS ELSE RANGE(0, 2 ^ b - 1)

\* mutant: the bits of the greatest value, not of one more.
BitsOfGreatest(r, is_constant) ==
  IF range_empty(r) \/ ~range_bounded(r) \/ (~is_constant /\ range_singleton(r))
  THEN 0
  ELSE IF r.min >= 0
       THEN Max2(1, int_log2l(r.max))
       ELSE Max2(1, int_log2l(Max2(r.max, sat_neg(r.min))) + 1)

(* The bits a value in the range takes; none if the range does not tell.   *)
bits_needed(r, is_constant) ==
  IF range_empty(r) \/ ~range_bounded(r) \/ (~is_constant /\ range_singleton(r))
  THEN 0
  ELSE IF r.min >= 0
       THEN Max2(1, int_log2l(sat_add(r.max, 1)))
       ELSE Max2(1, int_log2l(sat_add(Max2(r.max, sat_neg(r.min)), 1)) + 1)

-----------------------------------------------------------------------------
(* The range of a result, from the ranges of the arguments.                *)

no_range_op(a, b) == RANGE_ALL

add_range_op(a, b) == RANGE(sat_addi(a.min, b.min), sat_addi(a.max, b.max))

\* mutant: the limits of b are not exchanged.
SubRangeStraight(a, b) == RANGE(sat_subi(a.min, b.min), sat_subi(a.max, b.max))

sub_range_op(a, b) == RANGE(sat_subi(a.min, b.max), sat_subi(a.max, b.min))

mul_range_op(x, y) ==
  LET a == sat_muli(x.min, y.min)
      b == sat_muli(x.min, y.max)
      c == sat_muli(x.max, y.min)
      d == sat_muli(x.max, y.max)
  IN  RANGE(Min2(Min2(a, b), Min2(c, d)), Max2(Max2(a, b), Max2(c, d)))

MulRangeTraps(x, y) ==
  \E p \in {x.min, x.max}, q \in {y.min, y.max} : SatMuliTraps(p, q)

(* The least divisor only: the quotients by larger ones are not covered.   *)
div_range_op(n, d) ==
  LET d_small == IF d.max < 0 THEN d.max ELSE d.min
  IN  IF d.min <= 0 /\ d.max >= 0 THEN RANGE_ALL
      ELSE IF d_small > 0
           THEN RANGE(div_i(n.min, d_small), div_i(n.max, d_small))
           ELSE RANGE(div_i(n.max, d_small), div_i(n.min, d_small))

mod_range_op(n, d) ==
  LET da == Max2(sat_abs(d.min), sat_abs(d.max))
      direct == RANGE(Rem(n.min, da), Rem(n.max, da))
      n_span == range_span(n)
  IN  IF range_singleton(d) /\ ~Unlimited(d.min) /\ (n_span = 0 \/ da = 0)
      THEN RANGE_NONE
      ELSE IF range_singleton(d) /\ ~Unlimited(d.min) /\ n_span = range_span(direct)
      THEN direct
      ELSE RANGE(Max2(Min2(n.min, 0), sat_negi(sat_subi(da, 1))),
                 Min2(Max2(n.max, 0), sat_subi(da, 1)))

bitand_range_op(a, b) ==
  IF a.min < 0
  THEN IF b.min < 0 THEN RANGE_ALL ELSE RANGE(0, b.max)
  ELSE RANGE(0, IF b.min < 0 THEN a.max ELSE Min2(a.max, b.max))

bool_range_op(a, b) == RANGE(0, 1)
=============================================================================
