----------------------------- MODULE CompactInt -----------------------------
(***************************************************************************)
(* src/compact_int.c: 256-bit integers, the compact form a block header    *)
(* stores them in, the two comparisons, and the sum of compact integers.   *)
(* A uint256 is a sequence of Width bytes, the lowest first (32 in the     *)
(* code); a compact integer has an exponent, which counts bytes, and three *)
(* mantissa bytes, again the lowest first.                                 *)
(***************************************************************************)
EXTENDS Integers, Sequences, SequencesExt, FiniteSetsExt

CONSTANTS
    Width,         \* sizeof(uint256_t)
    Targets,       \* the integers a behaviour starts from
    Addends,       \* the integers whose compact form is added
    MaxAdds        \* bound: the additions of a behaviour

\* a uint256, lowest byte first
Uint256 == [1 .. Width -> 0 .. 255]

\* The width of an integer fits the one byte of a compact integer's exponent
\* and is not the exponent of compact_uint256_NaN.
ASSUME CompactAssumption ==
    /\ Width \in 1 .. 254
    /\ Targets \subseteq Uint256 /\ Addends \subseteq Uint256
    /\ MaxAdds \in Nat

VARIABLES
    target,        \* the uint256 last converted
    total,         \* its compact form
    adds           \* history: the additions made

compactVars == <<target, total, adds>>

compact_zero == [exp |-> 0, mantissa |-> <<0, 0, 0>>]
compact_uint256_NaN == [exp |-> 255, mantissa |-> <<255, 255, 255>>]
uint256_NaN == [j \in 1 .. Width |-> 255]

\* the bytes left when the zeros at the high end are dropped
length_of(t) == Max({0} \cup {j \in 1 .. Width : t[j] # 0})

negative(byte) == byte >= 128

\* mutant: an integer shorter than the mantissa fills it from the wrong end
copied_one_less(exp) == IF exp < 3 THEN exp - 1 ELSE 3

\* how many mantissa bytes uint256_to_compact() copies
copied(exp) ==
    LET n == IF exp + 3 >= Width THEN Width - exp ELSE 3
    IN  IF Width - exp + n >= Width THEN exp ELSE n

uint256_to_compact(t) ==
    LET top == length_of(t)
        borrow == top > 0 /\ negative(t[top])
        exp == IF borrow THEN top + 1 ELSE top
        n == copied(exp)
    IN  IF top = 0 THEN compact_zero
        ELSE IF borrow /\ top = Width THEN compact_uint256_NaN
        ELSE [exp |-> exp,
              mantissa |-> [j \in 1 .. 3 |-> IF j <= n THEN t[exp - n + j] ELSE 0]]

compact_to_uint256(c) ==
    LET n == IF c.exp < 3 THEN c.exp ELSE 3
    IN  IF c.exp > Width THEN uint256_NaN
        ELSE [j \in 1 .. Width |->
                 IF j \in c.exp - n + 1 .. c.exp THEN c.mantissa[j - c.exp + n] ELSE 0]

sign(n) == IF n < 0 THEN -1 ELSE IF n > 0 THEN 1 ELSE 0

\* mutant: dropping the borrowed zero leaves the exponent
normal_keeps_exponent(c) ==
    LET value == c.mantissa[1] + 256 * c.mantissa[2] + 65536 * c.mantissa[3]
    IN  <<c.exp, IF c.mantissa[3] = 0 /\ negative(c.mantissa[2]) THEN 256 * value ELSE value>>

\* a compact integer without the zero that was put before a set high bit
normal(c) ==
    LET value == c.mantissa[1] + 256 * c.mantissa[2] + 65536 * c.mantissa[3]
    IN  IF c.mantissa[3] = 0 /\ negative(c.mantissa[2])
        THEN <<c.exp - 1, 256 * value>>
        ELSE <<c.exp, value>>

compact_uint256_compare(a, b) ==
    LET x == normal(a)
        y == normal(b)
    IN  IF x[1] = y[1] THEN sign(x[2] - y[2]) ELSE sign(x[1] - y[1])

uint256_compare(a, b) ==
    LET differ == {j \in 1 .. Width : a[j] # b[j]}
    IN  IF differ = {} THEN 0 ELSE sign(a[Max(differ)] - b[Max(differ)])

uint256_compare_with_compact(hash, c) == uint256_compare(hash, compact_to_uint256(c))

\* the carry into byte j of a + b
carries(a, b) ==
    LET carry[j \in 1 .. Width + 1] ==
            IF j = 1 THEN 0 ELSE (a[j - 1] + b[j - 1] + carry[j - 1]) \div 256
    IN  carry

\* The sum, and whether assert(count == 1) holds: it does not when the sum is
\* zero (nothing is exported) or needs another word.
uint256_add(a, b) ==
    LET carry == carries(a, b)
        c == [j \in 1 .. Width |-> (a[j] + b[j] + carry[j]) % 256]
    IN  [sum |-> c, asserts |-> carry[Width + 1] = 1 \/ length_of(c) = 0]

-----------------------------------------------------------------------------
CompactInit ==
    /\ target \in Targets
    /\ total = uint256_to_compact(target)
    /\ adds = 0

\* total = compact_uint256_add(total, d), which goes on when no assertion fails
compact_uint256_add(d) ==
    /\ adds < MaxAdds /\ adds' = adds + 1
    /\ \E add \in {uint256_add(compact_to_uint256(total), compact_to_uint256(d))} :
          /\ ~add.asserts
          /\ target' = add.sum
          /\ total' = uint256_to_compact(target')

CompactNext == \E a \in Addends : compact_uint256_add(uint256_to_compact(a))

CompactSpec == CompactInit /\ [][CompactNext]_compactVars

-----------------------------------------------------------------------------
(* Properties *)

\* Above this exponent the code copies fewer than three mantissa bytes and
\* puts them in the low places; targets of the network stay below it.
Representable(c) == c.exp <= Width - 3

\* Converting to the compact form and back gives the integer with at most its
\* low bytes cleared: the three bytes that end at the exponent are kept, so at
\* least 16 significant bits are, and a converted value converts to itself.
CompactKeepsTarget ==
    Representable(total) =>
        LET back == compact_to_uint256(total)
        IN  /\ back = [j \in 1 .. Width |-> IF j > total.exp - 3 THEN target[j] ELSE 0]
            /\ uint256_to_compact(back) = total
            /\ uint256_compare_with_compact(target, total) >= 0

\* The comparison that looks only at exponents and mantissas orders compact
\* integers as the 256-bit integers they stand for, across the borrowed zero
\* and for integers shorter than a mantissa, and it is antisymmetric.
CompactOrder ==
    Representable(total) =>
        \A a \in Addends :
            LET d == uint256_to_compact(a)
            IN  Representable(d) =>
                    /\ compact_uint256_compare(total, d)
                         = uint256_compare(compact_to_uint256(total), compact_to_uint256(d))
                    /\ compact_uint256_compare(d, total) = -compact_uint256_compare(total, d)
=============================================================================
