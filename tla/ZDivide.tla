------------------------------ MODULE ZDivide ------------------------------
(* sw/zlib/udiv.c and umod.c: the 64-bit division of a CPU that divides 32 bits. A "long"
   has 2 * W bits here, and W is a power of two. *)
EXTENDS Integers

CONSTANT W   \* the bits the CPU divides

Long == 0..(2^(2 * W) - 1)
Low(v) == v % 2^W
High(v) == v \div 2^W
Shl(v, n) == (v * 2^n) % 2^(2 * W)

(* The zeros in front of a long. The upper half is looked at if it is not zero, then
   its bits are reversed and the zeros at the end counted, by halves. *)
bitrev(v) ==
    LET f[i \in 0..W] == IF i = 0 THEN 0 ELSE 2 * f[i - 1] + ((v \div 2^(i - 1)) % 2) IN f[W]
TrailingZeros(v) ==
    LET f[n \in 1..W, x \in 0..(2^W - 1)] ==
          IF n = 1 THEN 0
          ELSE LET half == n \div 2 IN
               IF x % 2^half = 0 THEN half + f[half, x \div 2^half] ELSE f[half, x]
    IN f[W, v]
cltz(v) ==
    IF High(v) = 0 THEN W + TrailingZeros(bitrev(Low(v))) ELSE TrailingZeros(bitrev(High(v)))

(* No quotient: the CPU traps. *)
Trap == -1
Divide(ia, ib) == IF ib = 0 THEN Trap ELSE ia \div ib

(* Subtract and shift, from the highest bit the quotient can have. *)
LongDivide(a, b, bits) ==
    LET f[m \in 0..bits] ==
          IF m = bits THEN [r |-> 0, a |-> a]
          ELSE LET p == f[m + 1] IN
               IF p.a >= b \div 2^(bits - m - 1)
               THEN [r |-> p.r + 2^m, a |-> p.a - (b \div 2^(bits - m - 1))]
               ELSE p
    IN f[0].r

udivdi3(a, b) ==
    LET la == cltz(a)
        lb == cltz(b)
    IN CASE a < b -> 0
         [] High(a) = 0 /\ a >= b -> Divide(Low(a), Low(b))
         [] High(a) # 0 /\ a >= b /\ lb - la < W /\ Low(Shl(b, la)) = 0 ->
              Divide(High(Shl(a, la)), High(Shl(b, la)))
         [] OTHER -> LongDivide(Shl(a, la), Shl(b, lb), lb - la + 1)

(* Signed numbers are longs too, two's complement. *)
Negated(v) == (2^(2 * W) - v) % 2^(2 * W)
Negative(v) == v >= 2^(2 * W - 1)
Magnitude(v) == IF Negative(v) THEN Negated(v) ELSE v
divdi3(a, b) ==
    LET r == udivdi3(Magnitude(a), Magnitude(b))
    IN IF r # Trap /\ Negative(a) # Negative(b) THEN Negated(r) ELSE r

umoddi3(a, b) ==
    LET r == udivdi3(a, b) IN IF r = Trap THEN Trap ELSE (a - r * b) % 2^(2 * W)

(* What C promises. *)
Quotient(a, b) ==
    LET q == Magnitude(a) \div Magnitude(b)
    IN IF Negative(a) # Negative(b) THEN Negated(q) ELSE q % 2^(2 * W)
=============================================================================
