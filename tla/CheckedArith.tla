---------------------------- MODULE CheckedArith ----------------------------
(***************************************************************************)
(* Rust's checked unsigned arithmetic, as the stable pair uses it: an      *)
(* Option<u128> is a natural number or None, every checked_* operation and *)
(* every conversion that can fail answers None, and None is strict (the    *)
(* `?` operator).  A panic (unwrap on None, an overflowing `sum`, a failed *)
(* assert) also ends the transaction, so it is None as well.               *)
(*                                                                         *)
(* The two widths are parameters, so that a small instance can reach them: *)
(* u64 values are below Two64, u128 values are at most U128Max.            *)
(***************************************************************************)
EXTENDS Integers, Sequences

CONSTANTS
    Two64,      \* 2^64, the modulus of a cast `as u64`
    U128Max     \* 2^128 - 1, the largest u128

ASSUME WidthAssumption == /\ Two64 \in Nat \ {0}
                          /\ U128Max \in Nat
                          /\ Two64 - 1 <= U128Max

None == -1

U128 == 0..U128Max
U64 == 0..(Two64 - 1)
Option(S) == S \cup {None}

AsU128(v) == IF v \in U128 THEN v ELSE None          \* checked result, u128
TryU64(v) == IF v \in U64 THEN v ELSE None           \* try_into::<u64>().ok()?
AsU64(v) == v % Two64                                \* `as u64`: truncates

Add(a, b) == IF None \in {a, b} THEN None ELSE AsU128(a + b)
Sub(a, b) == IF None \in {a, b} THEN None ELSE AsU128(a - b)
Div(a, b) == IF None \in {a, b} \/ b = 0 THEN None ELSE a \div b

\* Mutant: products in a wider type.
MulWide(a, b) == IF None \in {a, b} THEN None ELSE a * b

\* The comparison comes first: the product itself may not be representable.
Mul(a, b) ==
    IF None \in {a, b} \/ (b # 0 /\ a > U128Max \div b) THEN None ELSE a * b

Mul64(a, b) == TryU64(Mul(a, b))                     \* u64::checked_mul

\* iter().sum(): the release profile keeps overflow checks on.
SumOf(s) ==
    LET sum[k \in 0..Len(s)] == IF k = 0 THEN 0 ELSE Add(sum[k - 1], s[k])
    IN  sum[Len(s)]

=============================================================================
