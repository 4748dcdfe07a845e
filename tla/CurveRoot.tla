------------------------------ MODULE CurveRoot ------------------------------
(***************************************************************************)
(* What D stands for.  The invariant of a pool of balances b is the root   *)
(* of a polynomial of degree n + 1, where n is the number of coins; it is  *)
(* compared with here without ever being computed.                         *)
(***************************************************************************)
EXTENDS Curve

\* x to the power of n.
Power(x, n) ==
    LET pow[k \in Nat] == IF k = 0 THEN 1 ELSE x * pow[k - 1]
    IN  pow[n]

\* The sum of the balances, and the product of n times each.
Total(b) ==
    LET sum[k \in 0..Len(b)] == IF k = 0 THEN 0 ELSE sum[k - 1] + b[k]
    IN  sum[Len(b)]

Scale(b) ==
    LET prod[k \in 0..Len(b)] == IF k = 0 THEN 1 ELSE prod[k - 1] * (b[k] * Len(b))
    IN  prod[Len(b)]

\* d is at most the root: the invariant D solves ann*S*P + D*P = ann*D*P + D^(n+1),
\* where S is Total and P is Scale, and the left side is the larger one below it.
Below(self, d, b) ==
    LET ann == self.amp * Len(b)
    IN  ann * d * Scale(b) + Power(d, Len(b) + 1)
            <= ann * Total(b) * Scale(b) + d * Scale(b)

=============================================================================
