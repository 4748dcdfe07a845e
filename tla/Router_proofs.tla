---------------------------- MODULE Router_proofs ----------------------------
(***************************************************************************)
(* MinimumReceived holds of Router for all pairs, routes, taxes, rates and *)
(* amounts: whatever the messages in between do, they are executed before  *)
(* the one that asserts the minimum, which stays at the bottom of the      *)
(* stack, and a call takes effect only by executing it.                    *)
(*                                                                         *)
(* Router implements Settlement as long as no pool holds more of an asset  *)
(* than the unit of a Decimal: whatever is left of a call can still end    *)
(* in one payment to its receiver, that of the last operation.             *)
(*                                                                         *)
(* SwappedIntoOne and NothingStranded hold because what is brought of an   *)
(* asset that is to be swapped away is always offered by a later message.  *)
(*                                                                         *)
(* SimulationExact holds because a straight route finds every pool as the  *)
(* simulation does, and puts into each operation what the simulation does. *)
(***************************************************************************)
EXTENDS Router, ProductCurve_proofs, FiniteSetTheorems

(***************************************************************************)
(* Sequences.                                                              *)
(***************************************************************************)
Last(s) == s[Len(s)]

\* Below the top of a sequence nothing changes when the top is taken off.
LEMMA TailLemma ==
    ASSUME NEW M, NEW s \in Seq(M), s # << >>
    PROVE  /\ Tail(s) \in Seq(M)
           /\ \/ Len(s) = 1 /\ Tail(s) = << >>
              \/ Tail(s) # << >> /\ Last(Tail(s)) = Last(s)
  <1> DEFINE rest == Tail(s)
  <1>1. /\ rest \in Seq(M) /\ Len(rest) = Len(s) - 1
        /\ \A k \in 1..Len(s) - 1 : rest[k] = s[k + 1]
        /\ Len(s) \in Nat /\ Len(s) > 0
    OBVIOUS
  <1> HIDE DEF rest
  <1>2. \A t \in Seq(M) : t = << >> <=> Len(t) = 0
    OBVIOUS
  <1>3. CASE Len(s) = 1
    <2>1. rest \in Seq(M) /\ rest = << >>
      BY <1>1, <1>2, <1>3
    <2> QED BY <1>3, <2>1 DEF rest
  <1>4. CASE Len(s) # 1
    <2> DEFINE n == Len(s) - 1
    <2>1. n \in 1..Len(s) - 1 /\ n + 1 = Len(s) /\ Len(rest) = n /\ n # 0
      BY <1>1, <1>4
    <2>2. rest[n] = s[n + 1]
      BY <1>1, <2>1
    <2> HIDE DEF n
    <2>3. rest # << >>
      BY <1>1, <1>2, <2>1
    <2> QED BY <1>1, <2>1, <2>2, <2>3 DEF Last, rest
  <1> QED BY <1>3, <1>4

\* Nor when something is put on top.
LEMMA PushLemma ==
    ASSUME NEW M, NEW s \in Seq(M), NEW T, NEW t \in Seq(T)
    PROVE  /\ t \o s \in Seq(M \cup T)
           /\ s # << >> => t \o s # << >> /\ Last(t \o s) = Last(s)
           /\ t # << >> => t \o s # << >>
  <1>1. /\ s \in Seq(M \cup T) /\ t \in Seq(M \cup T)
        /\ Len(s) \in Nat /\ Len(t) \in Nat
    OBVIOUS
  <1>2. /\ t \o s \in Seq(M \cup T) /\ Len(t \o s) = Len(t) + Len(s)
        /\ \A k \in 1..Len(t) + Len(s) :
              (t \o s)[k] = IF k <= Len(t) THEN t[k] ELSE s[k - Len(t)]
    BY <1>1
  <1>3. ASSUME s # << >> PROVE t \o s # << >> /\ Last(t \o s) = Last(s)
    <2>1. Len(s) > 0
      BY <1>1, <1>3
    <2> DEFINE n == Len(t) + Len(s)
    <2>2. n \in 1..Len(t) + Len(s) /\ ~(n <= Len(t)) /\ n - Len(t) = Len(s) /\ n > 0
      BY <1>1, <2>1
    <2>3. (t \o s)[n] = s[Len(s)]
      BY <1>2, <2>2
    <2> QED BY <1>2, <2>2, <2>3 DEF Last
  <1>4. ASSUME t # << >> PROVE t \o s # << >>
    <2>1. Len(t) > 0
      BY <1>1, <1>4
    <2> QED BY <1>1, <1>2, <2>1
  <1> QED BY <1>2, <1>3, <1>4

\* At most one message is a sequence.
LEMMA OptionLemma ==
    ASSUME NEW t, t = << >> \/ \E x : t = << x >>
    PROVE  \E T : t \in Seq(T)
  <1>1. CASE t = << >>
    <2>1. t \in Seq({})
      BY <1>1
    <2> QED BY <2>1
  <1>2. ASSUME NEW x, t = << x >> PROVE \E T : t \in Seq(T)
    <2>1. t \in Seq({x})
      BY <1>2
    <2> QED BY <2>1
  <1> QED BY <1>1, <1>2

(***************************************************************************)
(* The inductive invariant.                                                *)
(***************************************************************************)
\* What c asks to be checked of a minimum in the end.
Check(c) ==
    LET target == get_target_asset_info(c.operations)
    IN  AssertMinimumReceive(target, c.start[target][c.to], c.minimum, c.to)

\* While c is being executed its check is the last message of the stack out.
Checked(out, c) ==
    /\ \E M : out \in Seq(M)
    /\ out = << >> => c = NoCall
    /\ c # NoCall /\ c.minimum # Unset => Last(out) = Check(c)

IInv == Checked(stack, call)

\* A step to what is still to be executed, that may take effect.
LEMMA BecomeLemma ==
    ASSUME NEW b, NEW out, NEW c, Become(b, out, c), \E M : out \in Seq(M),
           c # NoCall /\ c.minimum # Unset /\ out # << >> => Last(out) = Check(c)
    PROVE  IInv'
  <1>1. stack' = out /\ call' = (IF out = << >> THEN NoCall ELSE c)
    BY DEF Become
  <1> QED BY <1>1 DEF IInv, Checked

\* A message that is not the check is replaced by others.
LEMMA ReplaceLemma ==
    ASSUME IInv, ~Idle, stack[1].type # "AssertMinimumReceive",
           NEW T, NEW t \in Seq(T), NEW b, Become(b, t \o Tail(stack), call)
    PROVE  IInv' /\ (call.minimum # Unset => ~Completes)
  <1>1. PICK M : stack \in Seq(M)
    BY DEF IInv, Checked
  <1> DEFINE rest == Tail(stack)
             out == t \o rest
  <1>2. stack # << >>
    BY DEF Idle
  <1>3. rest \in Seq(M) /\ (Len(stack) = 1 \/ (rest # << >> /\ Last(rest) = Last(stack)))
    BY <1>1, <1>2, TailLemma
  <1> HIDE DEF rest
  <1>4. out \in Seq(M \cup T) /\ (rest # << >> => out # << >> /\ Last(out) = Last(rest))
    BY <1>3, PushLemma
  <1>5. ASSUME call # NoCall, call.minimum # Unset
        PROVE  out # << >> /\ Last(out) = Check(call)
    <2>1. Last(stack) = Check(call)
      BY <1>5 DEF IInv, Checked
    <2>2. Check(call).type = "AssertMinimumReceive"
      BY DEF Check, AssertMinimumReceive
    <2>3. Len(stack) # 1
      BY <2>1, <2>2 DEF Last
    <2> QED BY <1>3, <1>4, <2>1, <2>3
  <1>6. Become(b, out, call)
    BY DEF rest
  <1> HIDE DEF out
  <1>7. IInv'
    BY <1>4, <1>5, <1>6, BecomeLemma
  <1>8. call.minimum # Unset => ~Completes
    BY <1>5, <1>6 DEF Become, Completes
  <1> QED BY <1>7, <1>8

\* A call begins: its check, if it has one, is the last message.
LEMMA CallLemma ==
    ASSUME NEW b, NEW operations \in Seq(Operations), NEW minimum_receive, NEW to,
           NEW funds, execute_swap_operations(b, operations, minimum_receive, to, funds)
    PROVE  IInv'
  <1> DEFINE target == get_target_asset_info(operations)
             first == OperationMsgs(operations, to)
             check == MinimumMsgs(b, target, minimum_receive, to)
             c == [operations |-> operations, funds |-> funds,
                   minimum |-> minimum_receive, to |-> to, start |-> b]
  <1>1. Become(b, first \o check, c)
    BY DEF execute_swap_operations
  <1>2. first \in Seq({first[k] : k \in 1..Len(operations)})
    BY DEF OperationMsgs
  <1>3. PICK T : check \in Seq(T)
    <2>1. check = << >> \/ \E x : check = << x >>
      BY DEF MinimumMsgs
    <2> HIDE DEF check
    <2> QED BY <2>1, OptionLemma
  <1>4. minimum_receive # Unset =>
           check = << AssertMinimumReceive(target, b[target][to], minimum_receive, to) >>
    BY DEF MinimumMsgs, query_pool, query_balance, query_token_balance
  <1>5. Check(c) = AssertMinimumReceive(target, b[target][to], minimum_receive, to)
    BY DEF Check
  <1>6. c.minimum = minimum_receive
    OBVIOUS
  <1> HIDE DEF first, c
  <1>7. \E M : first \o check \in Seq(M)
    BY <1>2, <1>3, PushLemma
  <1>8. minimum_receive # Unset => Last(first \o check) = Check(c)
    <2> SUFFICES ASSUME minimum_receive # Unset
                 PROVE  Last(first \o check) = Check(c)
      OBVIOUS
    <2>1. check = << Check(c) >>
      BY <1>4, <1>5
    <2>2. check # << >> /\ Last(check) = Check(c)
      BY <2>1 DEF Last
    <2> HIDE DEF check
    <2> QED BY <1>2, <1>3, <2>2, PushLemma
  <1> HIDE DEF check
  <1> QED BY <1>1, <1>6, <1>7, <1>8, BecomeLemma

\* No message of the router is a check, but the one that checks.
LEMMA MessagesLemma ==
    ASSUME IInv, \/ execute_swap_operation \/ swap \/ pay \/ market_swap
    PROVE  IInv' /\ (call.minimum # Unset => ~Completes)
  <1>1. CASE execute_swap_operation
    <2>1. PICK msg : /\ Become(bal, << msg >> \o Tail(stack), call)
                     /\ ~Idle /\ stack[1].type = "ExecuteSwapOperation"
      BY <1>1 DEF execute_swap_operation
    <2>2. << msg >> \in Seq({msg}) /\ stack[1].type # "AssertMinimumReceive"
      BY <2>1
    <2> QED BY <2>1, <2>2, ReplaceLemma
  <1>2. CASE swap
    <2>1. PICK b, ask, return_amount :
             /\ Become(b, Answer(stack[1], ask, return_amount) \o Tail(stack), call)
             /\ ~Idle /\ stack[1].type = "Swap"
      BY <1>2 DEF swap
    <2> DEFINE t == Answer(stack[1], ask, return_amount)
    <2>2. t = << >> \/ \E x : t = << x >>
      BY DEF Answer
    <2> HIDE DEF t
    <2>3. PICK T : t \in Seq(T)
      BY <2>2, OptionLemma
    <2>4. stack[1].type # "AssertMinimumReceive" /\ Become(b, t \o Tail(stack), call)
      BY <2>1 DEF t
    <2> QED BY <2>1, <2>3, <2>4, ReplaceLemma
  <1>3. ASSUME NEW b, Become(b, Tail(stack), call), ~Idle,
               stack[1].type # "AssertMinimumReceive"
        PROVE  IInv' /\ (call.minimum # Unset => ~Completes)
    <2>1. PICK M : stack \in Seq(M)
      BY DEF IInv, Checked
    <2>2. Tail(stack) \in Seq(M)
      BY <1>3, <2>1, TailLemma DEF Idle
    <2>3. << >> \o Tail(stack) = Tail(stack)
      BY <2>2
    <2>4. << >> \in Seq(M)
      OBVIOUS
    <2> QED BY <1>3, <2>3, <2>4, ReplaceLemma
  <1>4. CASE pay
    <2>1. \E b : Become(b, Tail(stack), call) /\ ~Idle
                 /\ stack[1].type # "AssertMinimumReceive"
      BY <1>4 DEF pay
    <2> QED BY <1>3, <2>1
  <1>5. CASE market_swap
    <2>1. \E b : Become(b, Tail(stack), call) /\ ~Idle
                 /\ stack[1].type # "AssertMinimumReceive"
      BY <1>5 DEF market_swap
    <2> QED BY <1>3, <2>1
  <1> QED BY <1>1, <1>2, <1>4, <1>5

\* The check: a call takes effect by it only when the minimum was received.
LEMMA AssertLemma ==
    ASSUME IInv, assert_minium_receive
    PROVE  /\ IInv'
           /\ Completes /\ call.minimum # Unset => Received >= call.minimum
  <1>1. /\ stack # << >> /\ Become(bal, Tail(stack), call)
        /\ query_pool(bal, stack[1].asset_info, stack[1].receiver) - stack[1].prev_balance
              >= stack[1].minimum_receive
    BY DEF assert_minium_receive, Idle
  <1>2. PICK M : stack \in Seq(M)
    BY DEF IInv, Checked
  <1> DEFINE rest == Tail(stack)
  <1>3. /\ rest \in Seq(M)
        /\ \/ Len(stack) = 1 /\ rest = << >>
           \/ rest # << >> /\ Last(rest) = Last(stack)
    BY <1>1, <1>2, TailLemma
  <1>4. Become(bal, rest, call)
    BY <1>1
  <1>5. call # NoCall /\ call.minimum # Unset => Last(stack) = Check(call)
    BY DEF IInv, Checked
  <1> HIDE DEF rest
  <1>6. IInv'
    BY <1>3, <1>4, <1>5, BecomeLemma
  <1>7. ASSUME Completes, call.minimum # Unset PROVE Received >= call.minimum
    <2>1. bal' = bal /\ call # NoCall
      BY <1>4, <1>7 DEF Become, Completes
    <2>2. rest = << >>
      BY <1>4, <1>7 DEF Become, Completes
    <2>3. stack[1] = Check(call)
      BY <1>3, <1>5, <1>7, <2>1, <2>2 DEF Last
    <2>4. /\ Check(call).asset_info = Target /\ Check(call).receiver = call.to
          /\ Check(call).minimum_receive = call.minimum
          /\ Check(call).prev_balance = call.start[Target][call.to]
      BY DEF Check, AssertMinimumReceive, Target
    <2>5. query_pool(bal, Target, call.to) = bal[Target][call.to]
      BY DEF query_pool, query_balance, query_token_balance
    <2> QED BY <1>1, <2>1, <2>3, <2>4, <2>5 DEF Received
  <1> QED BY <1>6, <1>7

\* Every step keeps the invariant, and a call that takes effect by it has
\* brought the minimum.
LEMMA NextLemma ==
    IInv /\ [Next]_vars =>
        /\ IInv'
        /\ Next /\ Completes /\ call.minimum # Unset => Received >= call.minimum
  <1> SUFFICES ASSUME IInv, [Next]_vars
               PROVE  /\ IInv'
                      /\ Next /\ Completes /\ call.minimum # Unset
                            => Received >= call.minimum
    OBVIOUS
  \* Steps that leave no call in progress, or start when there was none.
  <1>1. Idle => call = NoCall
    BY DEF IInv, Checked, Idle
  <1>2. ASSUME NEW b, NEW out, Become(b, out, NoCall), \E M : out \in Seq(M) PROVE IInv'
    BY <1>2, BecomeLemma
  <1>3. << >> \in Seq({})
    OBVIOUS
  <1>4. ASSUME NEW b, NEW operations \in Routes, NEW minimum, NEW to, NEW funds,
               execute_swap_operations(b, operations, minimum, to, funds)
        PROVE  IInv' /\ ~Completes
    <2>1. operations \in Seq(Operations)
      BY RouterAssumption
    <2>2. Idle
      BY <1>4 DEF execute_swap_operations
    <2> QED BY <1>1, <1>4, <2>1, <2>2, CallLemma DEF Completes
  <1>5. ASSUME NEW user \in Users, NEW operations \in Routes, NEW minimum \in Minimums,
               NEW to \in Receivers, NEW coins \in Coins,
               execute(user, coins, operations, minimum, to)
        PROVE  IInv' /\ ~Completes
    BY <1>4, <1>5 DEF execute
  <1>6. ASSUME NEW user \in Users, NEW operations \in Routes, NEW minimum \in Minimums,
               NEW to \in Receivers, NEW asset \in Assets, NEW amount \in Amounts,
               receive_cw20(asset, user, amount, operations, minimum, to)
        PROVE  IInv' /\ ~Completes
    BY <1>4, <1>6 DEF receive_cw20
  <1>7. CASE execute_swap_operation \/ swap \/ pay \/ market_swap
    BY <1>7, MessagesLemma
  <1>8. CASE assert_minium_receive
    BY <1>8, AssertLemma
  <1>9. CASE Abort
    <2>1. Become(committed, << >>, NoCall)
      BY <1>9 DEF Abort
    <2>2. ~Completes
      BY <2>1 DEF Become, Completes
    <2> QED BY <1>2, <1>3, <2>1, <2>2
  <1>10. ASSUME NEW user \in Users, NEW pair \in Pairs, NEW offer \in Assets,
                NEW amount \in Amounts, trade(user, pair, offer, amount)
         PROVE  IInv' /\ ~Completes
    <2>1. Idle /\ \E x : Become(bal, << x >>, NoCall)
      BY <1>10 DEF trade
    <2>2. PICK x : Become(bal, << x >>, NoCall)
      BY <2>1
    <2>3. \E M : << x >> \in Seq(M)
      BY OptionLemma
    <2> QED BY <1>1, <1>2, <2>1, <2>2, <2>3 DEF Completes
  <1>11. ASSUME NEW user \in Users, NEW asset \in Assets, NEW amount \in Gifts,
                transfer(user, asset, amount, Addr)
         PROVE  IInv' /\ ~Completes
    <2>1. Idle /\ Become(Moved(bal, asset, user, Addr, amount), << >>, NoCall)
      BY <1>11 DEF transfer
    <2> QED BY <1>1, <1>2, <1>3, <2>1 DEF Completes
  <1>12. CASE UNCHANGED vars
    <2>1. IInv'
      BY <1>12 DEF vars, IInv
    <2>2. ~Completes
      BY <1>12 DEF vars, Completes
    <2> QED BY <2>1, <2>2
  <1> QED BY <1>5, <1>6, <1>7, <1>8, <1>9, <1>10, <1>11, <1>12 DEF Next

\* Nothing is to be done and nothing to be checked at the start.
LEMMA InitLemma == Init => IInv
  <1>1. << >> \in Seq({})
    OBVIOUS
  <1> QED BY <1>1 DEF Init, IInv, Checked

\* The check of a call is the last message of its transaction, throughout.
THEOREM Inductive == Spec => []IInv
  <1>1. IInv /\ [Next]_vars => IInv'
    BY NextLemma
  <1> QED BY <1>1, InitLemma, PTL DEF Spec

\* A call that names a minimum and takes effect has brought its receiver at
\* least as much, over what the receiver had once the funds were paid, whatever
\* its route, what the pairs and the market pay, and who the receiver is.
THEOREM MinimumIsReceived == Spec => MinimumReceived
  <1>1. IInv /\ [Next]_vars =>
          [Completes /\ call.minimum # Unset => Received >= call.minimum]_vars
    BY NextLemma
  <1> QED BY <1>1, Inductive, PTL DEF Spec, MinimumReceived

(***************************************************************************)
(* Settlement: what the steps of a transaction leave of the ledger that it *)
(* began with.                                                             *)
(***************************************************************************)
Ledgers == [Assets -> [Accounts -> Nat]]

\* What the chain charges is a natural number.
LEMMA DueLemma ==
    ASSUME NEW asset, NEW amount \in Nat
    PROVE  Tax(asset, amount) \in Nat
  <1> USE AssetAssumption
  <1>1. amount * TaxRate \in Nat
    BY ProductLemma
  <1>2. (amount * TaxRate) \div DECIMAL_FRACTION \in Nat
    BY <1>1, DivLemma
  <1> DEFINE q == (amount * TaxRate) \div DECIMAL_FRACTION
  <1> HIDE DEF q
  <1>3. Lesser(q, TaxCap) \in Nat
    BY <1>2 DEF Lesser, q
  <1> QED BY <1>3 DEF Tax, TaxDue, q

\* What the router holds back for the tax is what the contracts hold back.
LEMMA AfterTaxLemma ==
    ASSUME NEW asset, NEW amount \in Nat
    PROVE  AfterTax(asset, amount) \in Nat
  <1>1. CASE is_native_token(asset)
    <2>1. compute_denom_tax(asset, amount) = compute_tax(asset, amount)
      BY <1>1 DEF compute_denom_tax, compute_tax
    <2>2. AfterTax(asset, amount) = deduct_tax(asset, amount)
      BY <1>1, <2>1 DEF AfterTax, deduct_tax
    <2>3. deduct_tax(asset, amount) \in 0..amount
      BY TaxLemma
    <2> QED BY <2>2, <2>3
  <1>2. CASE ~is_native_token(asset)
    BY <1>2 DEF AfterTax
  <1> QED BY <1>1, <1>2

\* A transfer moves the amount, and what is charged is taken from the sender.
LEMMA MovedLemma ==
    ASSUME NEW b \in Ledgers, NEW asset \in Assets, NEW from \in Accounts, NEW to \in Accounts,
           NEW amount \in Nat
    PROVE  LET moved == Moved(b, asset, from, to, amount)
           IN  /\ moved \in [Assets -> [Accounts -> Int]]
               /\ \A a \in Assets : a # asset => moved[a] = b[a]
               /\ \A c \in Accounts :
                     moved[asset][c] = b[asset][c] - (IF c = from THEN amount ELSE 0)
                                                   + (IF c = to THEN amount ELSE 0)
  <1> DEFINE taken == [b[asset] EXCEPT ![from] = @ - amount]
             given == [taken EXCEPT ![to] = @ + amount]
  <1>1. b[asset] \in [Accounts -> Nat]
    BY DEF Ledgers
  <1>2. /\ taken \in [Accounts -> Int]
        /\ \A c \in Accounts :
              taken[c] = b[asset][c] - (IF c = from THEN amount ELSE 0)
    BY <1>1
  <1> HIDE DEF taken
  <1>3. /\ given \in [Accounts -> Int]
        /\ \A c \in Accounts : given[c] = taken[c] + (IF c = to THEN amount ELSE 0)
    BY <1>2
  <1> HIDE DEF given
  <1>4. Moved(b, asset, from, to, amount) = [b EXCEPT ![asset] = given]
    BY DEF Moved, given, taken
  <1> DEFINE moved == [b EXCEPT ![asset] = given]
  <1>5. /\ moved \in [Assets -> [Accounts -> Int]]
        /\ moved[asset] = given
        /\ \A a \in Assets : a # asset => moved[a] = b[a]
    <2>1. b \in [Assets -> [Accounts -> Int]]
      BY DEF Ledgers
    <2> QED BY <1>3, <2>1
  <1> HIDE DEF moved
  <1> QED BY <1>2, <1>3, <1>4, <1>5 DEF moved

LEMMA PaidLemma ==
    ASSUME NEW b \in Ledgers, NEW asset \in Assets, NEW from \in Accounts, NEW to \in Accounts,
           NEW amount \in Nat, amount + Tax(asset, amount) <= b[asset][from]
    PROVE  LET paid == Paid(b, asset, from, to, amount)
           IN  /\ paid \in Ledgers
               /\ \A a \in Assets : a # asset => paid[a] = b[a]
               /\ \A c \in Accounts :
                     /\ c # from => paid[asset][c] = b[asset][c]
                                       + (IF c = to THEN amount ELSE 0)
                     /\ c = from => paid[asset][c] = b[asset][c]
                                       - amount - Tax(asset, amount)
                                       + (IF c = to THEN amount ELSE 0)
  <1> DEFINE moved == Moved(b, asset, from, to, amount)
             paid == [moved EXCEPT ![asset][from] = @ - Tax(asset, amount)]
             side == [moved[asset] EXCEPT ![from] = @ - Tax(asset, amount)]
  <1>1. /\ moved \in [Assets -> [Accounts -> Int]]
        /\ \A a \in Assets : a # asset => moved[a] = b[a]
        /\ \A c \in Accounts :
              moved[asset][c] = b[asset][c] - (IF c = from THEN amount ELSE 0)
                                            + (IF c = to THEN amount ELSE 0)
    BY MovedLemma
  <1>2. Paid(b, asset, from, to, amount) = paid
    BY DEF Paid
  <1>3. paid = [moved EXCEPT ![asset] = side]
    OBVIOUS
  <1> HIDE DEF moved, paid
  <1>4. Tax(asset, amount) \in Nat
    BY DueLemma
  <1>5. \A c \in Accounts : b[asset][c] \in Nat
    BY DEF Ledgers
  <1>6. \A c \in Accounts :
           side[c] = IF c = from THEN moved[asset][c] - Tax(asset, amount)
                                 ELSE moved[asset][c]
    BY <1>1
  <1>7. \A c \in Accounts : side[c] \in Nat
    BY <1>1, <1>4, <1>5, <1>6
  <1>8. side \in [Accounts -> Nat]
    <2>1. DOMAIN side = Accounts /\ side = [c \in Accounts |-> side[c]]
      BY <1>1
    <2> HIDE DEF side
    <2> QED BY <1>7, <2>1
  <1> HIDE DEF side
  <1>9. /\ paid \in Ledgers
        /\ paid[asset] = side
        /\ \A a \in Assets : a # asset => paid[a] = b[a]
    <2>1. /\ DOMAIN paid = Assets
          /\ \A a \in Assets : paid[a] = IF a = asset THEN side ELSE b[a]
          /\ paid = [a \in Assets |-> paid[a]]
      BY <1>1, <1>3
    <2>2. \A a \in Assets : b[a] \in [Accounts -> Nat]
      BY DEF Ledgers
    <2>3. \A a \in Assets : paid[a] \in [Accounts -> Nat]
      BY <1>8, <2>1, <2>2
    <2> QED BY <2>1, <2>3 DEF Ledgers
  <1> QED BY <1>1, <1>2, <1>4, <1>5, <1>6, <1>9

\* The product of a pair's reserves, whatever it holds, is of its two assets.
LEMMA SidesLemma ==
    ASSUME NEW pair \in Pairs, NEW offer \in pair_assets[pair]
    PROVE  LET ask == Other(pair, offer)
           IN  /\ offer \in Assets /\ ask \in Assets /\ ask # offer
               /\ pair_assets[pair] = {offer, ask}
               /\ \A b \in Ledgers : /\ b[offer][pair] \in Nat /\ b[ask][pair] \in Nat
                                     /\ S!Product(b, pair) = b[offer][pair] * b[ask][pair]
  <1>1. PICK x, y \in Assets : x # y /\ pair_assets[pair] = {x, y}
    BY RouterAssumption
  <1> DEFINE ask == Other(pair, offer)
             first == CHOOSE a \in pair_assets[pair] : TRUE
             second == CHOOSE a \in pair_assets[pair] : a # first
  <1>2. ask \in pair_assets[pair] /\ ask # offer
    <2>1. \E a \in pair_assets[pair] : a # offer
      BY <1>1
    <2> QED BY <2>1 DEF Other
  <1>3. first \in pair_assets[pair]
    BY <1>1
  <1> HIDE DEF first
  <1>4. second \in pair_assets[pair] /\ second # first
    <2>1. \E a \in pair_assets[pair] : a # first
      BY <1>1
    <2> QED BY <2>1
  <1>5. \A b : S!Product(b, pair) = b[first][pair] * b[second][pair]
    BY DEF S!Product, first
  <1> HIDE DEF ask, second
  <1>6. /\ offer \in Assets /\ ask \in Assets /\ pair_assets[pair] = {offer, ask}
        /\ \/ first = offer /\ second = ask
           \/ first = ask /\ second = offer
    BY <1>1, <1>2, <1>3, <1>4
  <1>7. ASSUME NEW b \in Ledgers
        PROVE  /\ b[offer][pair] \in Nat /\ b[ask][pair] \in Nat
               /\ S!Product(b, pair) = b[offer][pair] * b[ask][pair]
    <2>1. b[offer][pair] \in Nat /\ b[ask][pair] \in Nat
      BY <1>6 DEF Ledgers, Accounts
    <2>2. b[offer][pair] * b[ask][pair] = b[ask][pair] * b[offer][pair]
      BY <2>1, ProductLemma
    <2> QED BY <1>5, <1>6, <2>1, <2>2
  <1> QED BY <1>2, <1>6, <1>7 DEF ask

\* A pair that holds no less of either has no smaller product.
LEMMA RicherLemma ==
    ASSUME NEW b \in Ledgers, NEW c \in Ledgers, NEW pair \in Pairs,
           \A a \in Assets : b[a][pair] <= c[a][pair]
    PROVE  /\ S!Product(b, pair) <= S!Product(c, pair)
           /\ S!Product(b, pair) \in Nat /\ S!Product(c, pair) \in Nat
  <1>1. PICK x, y \in Assets : x # y /\ pair_assets[pair] = {x, y}
    BY RouterAssumption
  <1> DEFINE z == Other(pair, x)
  <1>2. /\ z \in Assets
        /\ b[x][pair] \in Nat /\ b[z][pair] \in Nat
        /\ c[x][pair] \in Nat /\ c[z][pair] \in Nat
        /\ S!Product(b, pair) = b[x][pair] * b[z][pair]
        /\ S!Product(c, pair) = c[x][pair] * c[z][pair]
    BY <1>1, SidesLemma
  <1>3. b[x][pair] <= c[x][pair] /\ b[z][pair] <= c[z][pair]
    BY <1>1, <1>2
  <1> HIDE DEF z
  <1>4. ASSUME NEW i \in Nat, NEW j \in Nat, NEW k \in Nat, NEW l \in Nat, i <= k, j <= l
        PROVE  i * j <= k * l /\ i * j \in Nat /\ k * l \in Nat
    <2>1. i * j <= i * l /\ l * i <= l * k /\ i * l = l * i /\ k * l = l * k
      BY <1>4, ProductLemma
    <2>2. i * j \in Nat /\ i * l \in Nat /\ l * k \in Nat
      BY ProductLemma
    <2> QED BY <2>1, <2>2
  <1> QED BY <1>2, <1>3, <1>4

(***************************************************************************)
(* The inductive invariant of settlement.                                  *)
(***************************************************************************)
\* A message that pays out, and is not executed yet, is owed by its pair.
Payouts == {"Transfer", "BankSend"}
Owing(b, m) ==
    [b EXCEPT ![m.asset][m.from] = @ - m.amount - Tax(m.asset, m.amount)]

\* Only receiver, and only in target, may get something from a user's point of
\* view; only payer may be made to pay.
Only(to, asset, receiver, target) == to \in Users => to = receiver /\ asset = target

ProperTo(to, asset, receiver, target) ==
    to # Unset => to \in Accounts /\ Only(to, asset, receiver, target)

Proper(m, payer, receiver, target) ==
    \/ m.type = "AssertMinimumReceive"
    \/ /\ m.type = "ExecuteSwapOperation"
       /\ m.operation \in Operations
       /\ ProperTo(m.to, m.operation.ask, receiver, target)
    \/ /\ m.type = "MarketSwap"
       /\ m.offer \in Assets /\ m.ask \in Assets /\ m.amount \in Nat
       /\ ProperTo(m.to, m.ask, receiver, target)
    \/ /\ m.type = "Swap"
       /\ m.pair \in Pairs /\ m.offer \in pair_assets[m.pair] /\ m.amount \in Nat
       /\ m.sender \in {Addr, payer}
       /\ ProperTo(m.to, Other(m.pair, m.offer), receiver, target)
       /\ m.to = Unset => Only(m.sender, Other(m.pair, m.offer), receiver, target)

ProperPayout(m, receiver, target) ==
    /\ m.type \in Payouts
    /\ m.asset \in Assets /\ m.from \in Pairs /\ m.amount \in Nat
    /\ m.to \in Accounts /\ Only(m.to, m.asset, receiver, target)

ProperAll(out, payer, receiver, target) ==
    \E M : out \in Seq(M) /\ \A m \in M : Proper(m, payer, receiver, target)

\* The users' balances, seen from c, are those a settlement may leave.
Moves(c, b, payer, receiver, target) ==
    \A user \in Users, a \in Assets :
        /\ b[a][user] < c[a][user] => user = payer
        /\ b[a][user] > c[a][user] => user = receiver /\ a = target

\* No pair has a smaller product than in c.
NoneWorse(c, b) == \A pair \in Pairs : S!Product(b, pair) >= S!Product(c, pair)

\* b, with the messages out to be executed, can still settle what c began.
CanSettle(c, b, out, payer, receiver, target) ==
    /\ b \in Ledgers
    /\ Moves(c, b, payer, receiver, target)
    /\ \/ /\ ProperAll(out, payer, receiver, target)
          /\ NoneWorse(c, b)
       \/ /\ ProperAll(Tail(out), payer, receiver, target)
          /\ out # << >>
          /\ ProperPayout(out[1], receiver, target)
          /\ Owing(b, out[1]) \in Ledgers
          /\ NoneWorse(c, Owing(b, out[1]))

Settleable ==
    /\ committed \in Ledgers
    /\ Idle => bal = committed
    /\ ~Idle => \E payer, receiver \in Users, target \in Assets :
                   CanSettle(committed, bal, stack, payer, receiver, target)

\* A step of the implementation that leaves what can be settled is a step of
\* Settlement if the transaction ends by it, and otherwise one that nobody sees.
LEMMA SettleLemma ==
    ASSUME Settleable, NEW b, NEW out, NEW c, Become(b, out, c),
           NEW payer \in Users, NEW receiver \in Users, NEW target \in Assets,
           CanSettle(committed, b, out, payer, receiver, target)
    PROVE  Settleable' /\ [S!Next]_committed
  <1>1. /\ bal' = b /\ stack' = out
        /\ committed' = (IF out = << >> THEN b ELSE committed)
    BY DEF Become
  <1>2. CASE out = << >>
    <2>1. committed' = b /\ bal' = committed' /\ Idle' /\ b \in Ledgers
      BY <1>1, <1>2 DEF Idle, CanSettle
    <2>2. Settleable'
      BY <2>1 DEF Settleable
    <2>3. Moves(committed, b, payer, receiver, target) /\ NoneWorse(committed, b)
      BY <1>2 DEF CanSettle
    <2>4. S!Settle(payer, receiver, target)
      BY <2>1, <2>3 DEF S!Settle, Moves, NoneWorse, Pairs
    <2>5. S!Next
      BY <2>4 DEF S!Next
    <2> QED BY <2>2, <2>5
  <1>3. CASE out # << >>
    <2>1. committed' = committed /\ ~Idle' /\ bal' = b /\ stack' = out
      BY <1>1, <1>3 DEF Idle
    <2>2. CanSettle(committed', bal', stack', payer, receiver, target)
      BY <2>1
    <2>3. Settleable'
      BY <2>1, <2>2 DEF Settleable
    <2> QED BY <2>1, <2>3
  <1> QED BY <1>2, <1>3

\* What is left when a message is executed.
LEMMA RestLemma ==
    ASSUME NEW out, out # << >>, NEW payer, NEW receiver, NEW target,
           ProperAll(out, payer, receiver, target)
    PROVE  /\ Proper(out[1], payer, receiver, target)
           /\ ProperAll(Tail(out), payer, receiver, target)
  <1>1. PICK M : out \in Seq(M) /\ \A m \in M : Proper(m, payer, receiver, target)
    BY DEF ProperAll
  <1>2. out[1] \in M /\ Tail(out) \in Seq(M)
    BY <1>1
  <1> QED BY <1>1, <1>2 DEF ProperAll

\* Two lists of proper messages, one after the other.
LEMMA BothLemma ==
    ASSUME NEW s, NEW t, NEW payer, NEW receiver, NEW target,
           ProperAll(s, payer, receiver, target), ProperAll(t, payer, receiver, target)
    PROVE  ProperAll(s \o t, payer, receiver, target)
  <1>1. PICK M : s \in Seq(M) /\ \A m \in M : Proper(m, payer, receiver, target)
    BY DEF ProperAll
  <1>2. PICK N : t \in Seq(N) /\ \A m \in N : Proper(m, payer, receiver, target)
    BY DEF ProperAll
  <1>3. s \in Seq(M \cup N) /\ t \in Seq(M \cup N)
    BY <1>1, <1>2
  <1>4. s \o t \in Seq(M \cup N)
    BY <1>3
  <1>5. \A m \in M \cup N : Proper(m, payer, receiver, target)
    BY <1>1, <1>2
  <1> QED BY <1>4, <1>5 DEF ProperAll

\* One message, or none, before others.
LEMMA OneLemma ==
    ASSUME NEW payer, NEW receiver, NEW target
    PROVE  /\ ProperAll(<< >>, payer, receiver, target)
           /\ \A m : Proper(m, payer, receiver, target)
                        => ProperAll(<< m >>, payer, receiver, target)
  <1>1. ASSUME NEW s, NEW M, s \in Seq(M),
               \A m \in M : Proper(m, payer, receiver, target)
        PROVE  ProperAll(s, payer, receiver, target)
    BY <1>1 DEF ProperAll
  <1>2. ProperAll(<< >>, payer, receiver, target)
    <2> DEFINE s == << >>
               M == {}
    <2>1. s \in Seq(M) /\ \A m \in M : Proper(m, payer, receiver, target)
      OBVIOUS
    <2> HIDE DEF s, M
    <2>2. ProperAll(s, payer, receiver, target)
      BY <1>1, <2>1
    <2> QED BY <2>2 DEF s
  <1>3. ASSUME NEW m, Proper(m, payer, receiver, target)
        PROVE  ProperAll(<< m >>, payer, receiver, target)
    <2> DEFINE s == << m >>
               M == {m}
    <2>1. s \in Seq(M) /\ \A x \in M : Proper(x, payer, receiver, target)
      BY <1>3
    <2> HIDE DEF s, M
    <2>2. ProperAll(s, payer, receiver, target)
      BY <1>1, <2>1
    <2> QED BY <2>2 DEF s
  <1> QED BY <1>2, <1>3

\* The message on top of what can be settled: a payout, and only a payout, has
\* been taken off already.
LEMMA TopLemma ==
    ASSUME ~Idle, NEW payer, NEW receiver, NEW target,
           CanSettle(committed, bal, stack, payer, receiver, target)
    PROVE  /\ ProperAll(Tail(stack), payer, receiver, target)
           /\ stack[1].type \notin Payouts =>
                 /\ Proper(stack[1], payer, receiver, target)
                 /\ NoneWorse(committed, bal)
           /\ stack[1].type \in Payouts =>
                 /\ ProperPayout(stack[1], receiver, target)
                 /\ Owing(bal, stack[1]) \in Ledgers
                 /\ NoneWorse(committed, Owing(bal, stack[1]))
  <1>1. stack # << >>
    BY DEF Idle
  <1>2. CASE /\ ProperAll(stack, payer, receiver, target)
             /\ NoneWorse(committed, bal)
    <2>1. Proper(stack[1], payer, receiver, target)
          /\ ProperAll(Tail(stack), payer, receiver, target)
      BY <1>1, <1>2, RestLemma
    <2>2. stack[1].type \notin Payouts
      BY <2>1 DEF Proper, Payouts
    <2> QED BY <1>2, <2>1, <2>2
  <1>3. CASE /\ ProperAll(Tail(stack), payer, receiver, target)
             /\ ProperPayout(stack[1], receiver, target)
             /\ Owing(bal, stack[1]) \in Ledgers
             /\ NoneWorse(committed, Owing(bal, stack[1]))
    BY <1>3 DEF ProperPayout
  <1> QED BY <1>2, <1>3 DEF CanSettle

(***************************************************************************)
(* The first step of a transaction.                                        *)
(***************************************************************************)
\* The funds come with the call: only the user pays.
LEMMA FundsLemma ==
    ASSUME bal \in Ledgers, NEW user \in Users, NEW funds \in [Assets -> Nat],
           \A a \in Assets : funds[a] <= bal[a][user]
    PROVE  LET b == WithFunds(user, funds)
           IN  /\ b \in Ledgers
               /\ \A a \in Assets, c \in Users : b[a][c] <= bal[a][c]
                                                 /\ (c # user => b[a][c] = bal[a][c])
               /\ \A a \in Assets, c \in Pairs : b[a][c] = bal[a][c]
  <1> DEFINE b == WithFunds(user, funds)
  <1>1. user \in Accounts /\ Addr \in Accounts /\ user # Addr
    BY RouterAssumption DEF Accounts
  <1>2. ASSUME NEW a \in Assets
        PROVE  /\ b[a] \in [Accounts -> Nat]
               /\ \A c \in Accounts : b[a][c] = IF c = user THEN bal[a][c] - funds[a]
                                                ELSE IF c = Addr THEN bal[a][c] + funds[a]
                                                ELSE bal[a][c]
    <2> DEFINE side == bal[a]
               n == funds[a]
    <2>1. side \in [Accounts -> Nat] /\ n \in Nat /\ n <= side[user]
      BY DEF Ledgers
    <2>2. b[a] = [side EXCEPT ![user] = @ - n, ![Addr] = @ + n]
      BY DEF WithFunds
    <2> HIDE DEF b, side, n
    <2>3. /\ DOMAIN b[a] = Accounts
          /\ \A c \in Accounts : b[a][c] = IF c = user THEN side[c] - n
                                           ELSE IF c = Addr THEN side[c] + n
                                           ELSE side[c]
          /\ b[a] = [c \in Accounts |-> b[a][c]]
      BY <1>1, <2>1, <2>2
    <2>4. \A c \in Accounts : b[a][c] \in Nat
      BY <2>1, <2>3
    <2> QED BY <2>3, <2>4 DEF side, n
  <1>3. b \in Ledgers
    BY <1>2 DEF Ledgers, WithFunds
  <1>4. \A a \in Assets : funds[a] \in Nat /\ bal[a] \in [Accounts -> Nat]
    BY DEF Ledgers
  <1>5. \A c \in Users : c \in Accounts /\ c # Addr
    BY RouterAssumption DEF Accounts
  <1>6. \A c \in Pairs : c \in Accounts /\ c # Addr /\ c # user
    BY RouterAssumption DEF Accounts
  <1> HIDE DEF b
  <1>7. \A a \in Assets, c \in Users : b[a][c] <= bal[a][c]
                                       /\ (c # user => b[a][c] = bal[a][c])
    BY <1>2, <1>4, <1>5
  <1>8. \A a \in Assets, c \in Pairs : b[a][c] = bal[a][c]
    BY <1>2, <1>4, <1>6
  <1> QED BY <1>3, <1>7, <1>8 DEF b

\* What the router sends itself is proper, for the receiver that the call names.
LEMMA OutLemma ==
    ASSUME NEW b, NEW operations \in Seq(Operations), operations # << >>,
           NEW minimum_receive, NEW to \in Accounts, NEW payer, NEW receiver,
           to \in Users => to = receiver
    PROVE  LET target == get_target_asset_info(operations)
               out == OperationMsgs(operations, to)
                         \o MinimumMsgs(b, target, minimum_receive, to)
           IN  /\ target \in Assets
               /\ ProperAll(out, payer, receiver, target)
               /\ out # << >>
  <1> DEFINE target == get_target_asset_info(operations)
             first == OperationMsgs(operations, to)
             check == MinimumMsgs(b, target, minimum_receive, to)
  <1>1. /\ Len(operations) \in 1..Len(operations)
        /\ \A k \in 1..Len(operations) : operations[k] \in Operations
    OBVIOUS
  <1>2. \A op \in Operations : op.ask \in Assets
    BY DEF Operations
  <1>3. target \in Assets
    BY <1>1, <1>2 DEF get_target_asset_info
  <1>4. ASSUME NEW k \in 1..Len(operations)
        PROVE  Proper(first[k], payer, receiver, target)
    <2> DEFINE told == IF k = Len(operations) THEN to ELSE Unset
    <2>1. first[k] = ExecuteSwapOperation(operations[k], told)
      BY DEF OperationMsgs
    <2>2. /\ first[k].type = "ExecuteSwapOperation"
          /\ first[k].operation = operations[k] /\ first[k].to = told
      BY <2>1 DEF ExecuteSwapOperation
    <2>3. told # Unset => told = to /\ operations[k].ask = target
      BY DEF get_target_asset_info
    <2>4. ProperTo(told, operations[k].ask, receiver, target)
      BY <2>3 DEF ProperTo, Only
    <2> HIDE DEF first, told, target
    <2> QED BY <1>1, <2>2, <2>4 DEF Proper
  <1>5. ProperAll(first, payer, receiver, target) /\ first # << >>
    <2> DEFINE M == {first[k] : k \in 1..Len(operations)}
    <2>1. first \in Seq(M) /\ Len(first) = Len(operations)
      BY DEF OperationMsgs
    <2>2. \A m \in M : Proper(m, payer, receiver, target)
      BY <1>4
    <2>3. Len(operations) # 0
      BY <1>1
    <2> HIDE DEF first, M, target
    <2>4. ProperAll(first, payer, receiver, target)
      BY <2>1, <2>2 DEF ProperAll
    <2>5. first # << >>
      BY <2>1, <2>3
    <2> QED BY <2>4, <2>5
  <1>6. ProperAll(check, payer, receiver, target)
    <2>1. CASE minimum_receive = Unset
      <3>1. check = << >>
        BY <2>1 DEF MinimumMsgs
      <3> HIDE DEF check, target
      <3> QED BY <3>1, OneLemma
    <2>2. CASE minimum_receive # Unset
      <3> DEFINE m == AssertMinimumReceive(target, query_pool(b, target, to),
                                           minimum_receive, to)
      <3>1. check = << m >>
        BY <2>2 DEF MinimumMsgs
      <3>2. m.type = "AssertMinimumReceive"
        BY DEF AssertMinimumReceive
      <3> HIDE DEF check, m, target
      <3>3. Proper(m, payer, receiver, target)
        BY <3>2 DEF Proper
      <3> QED BY <3>1, <3>3, OneLemma
    <2> QED BY <2>1, <2>2
  <1> HIDE DEF first, check, target
  <1>7. ProperAll(first \o check, payer, receiver, target)
    BY <1>5, <1>6, BothLemma
  <1>8. first \o check # << >>
    <2>1. PICK M : first \in Seq(M)
      BY <1>5 DEF ProperAll
    <2>2. PICK N : check \in Seq(N)
      BY <1>6 DEF ProperAll
    <2> QED BY <1>5, <2>1, <2>2, PushLemma
  <1> QED BY <1>3, <1>7, <1>8 DEF first, check, target

\* A call of the router begins.
LEMMA BeginLemma ==
    ASSUME Settleable, NEW user \in Users, NEW funds \in [Assets -> Nat],
           \A a \in Assets : funds[a] <= bal[a][user],
           NEW operations \in Seq(Operations), NEW minimum_receive, NEW to \in Accounts,
           execute_swap_operations(WithFunds(user, funds), operations, minimum_receive,
                                   to, funds)
    PROVE  Settleable' /\ [S!Next]_committed
  <1> DEFINE b == WithFunds(user, funds)
             receiver == IF to \in Users THEN to ELSE user
             target == get_target_asset_info(operations)
             out == OperationMsgs(operations, to)
                       \o MinimumMsgs(b, target, minimum_receive, to)
  <1>1. Idle /\ operations # << >> /\ \E c : Become(b, out, c)
    BY DEF execute_swap_operations
  <1>2. bal = committed /\ bal \in Ledgers
    BY <1>1 DEF Settleable
  <1>3. receiver \in Users
    OBVIOUS
  <1>4. /\ target \in Assets /\ ProperAll(out, user, receiver, target)
    BY <1>1, OutLemma
  <1>5. /\ b \in Ledgers
        /\ \A a \in Assets, c \in Users : b[a][c] <= bal[a][c]
                                          /\ (c # user => b[a][c] = bal[a][c])
        /\ \A a \in Assets, c \in Pairs : b[a][c] = bal[a][c]
    BY <1>2, FundsLemma
  <1> HIDE DEF b, out, target, receiver
  <1>6. \A a \in Assets, c \in Users : b[a][c] \in Nat /\ bal[a][c] \in Nat
    BY <1>2, <1>5 DEF Ledgers, Accounts
  <1>7. Moves(committed, b, user, receiver, target)
    BY <1>2, <1>5, <1>6 DEF Moves
  <1>8. NoneWorse(committed, b)
    <2> SUFFICES ASSUME NEW pair \in Pairs
                 PROVE  S!Product(b, pair) >= S!Product(committed, pair)
      BY DEF NoneWorse
    <2>1. \A a \in Assets : committed[a][pair] <= b[a][pair]
      <3>1. \A a \in Assets : committed[a][pair] = b[a][pair] /\ b[a][pair] \in Nat
        BY <1>2, <1>5 DEF Ledgers, Accounts
      <3> QED BY <3>1
    <2> QED BY <1>2, <1>5, <2>1, RicherLemma
  <1>9. CanSettle(committed, b, out, user, receiver, target)
    BY <1>4, <1>5, <1>7, <1>8 DEF CanSettle
  <1> QED BY <1>1, <1>3, <1>4, <1>9, SettleLemma

\* A user offers directly to a pair, and gets what the pair answers.
LEMMA TradeLemma ==
    ASSUME Settleable, NEW user \in Users, NEW pair \in Pairs, NEW offer \in Assets,
           NEW amount \in Nat, trade(user, pair, offer, amount)
    PROVE  Settleable' /\ [S!Next]_committed
  <1> DEFINE m == [type |-> "Swap", pair |-> pair, offer |-> offer, amount |-> amount,
                   sender |-> user, to |-> Unset]
             ask == Other(pair, offer)
  <1>1. Idle /\ offer \in pair_assets[pair] /\ Become(bal, << m >>, NoCall)
    BY DEF trade
  <1>2. bal = committed /\ bal \in Ledgers
    BY <1>1 DEF Settleable
  <1>3. ask \in Assets
    BY <1>1, SidesLemma
  <1>4. Proper(m, user, user, ask)
    <2>1. /\ m.type = "Swap" /\ m.pair = pair /\ m.offer = offer /\ m.amount = amount
          /\ m.sender = user /\ m.to = Unset
      OBVIOUS
    <2>2. Only(user, ask, user, ask)
      BY DEF Only
    <2> HIDE DEF m
    <2> QED BY <1>1, <2>1, <2>2 DEF Proper, ProperTo
  <1> HIDE DEF m, ask
  <1>5. ProperAll(<< m >>, user, user, ask)
    BY <1>4, OneLemma
  <1>6. Moves(committed, bal, user, user, ask) /\ NoneWorse(committed, bal)
    <2>1. \A a \in Assets, c \in Users : bal[a][c] \in Nat
      BY <1>2 DEF Ledgers, Accounts
    <2>2. Moves(committed, bal, user, user, ask)
      BY <1>2, <2>1 DEF Moves
    <2>3. \A p \in Pairs : \A a \in Assets : bal[a][p] \in Nat /\ bal[a][p] <= bal[a][p]
      BY <1>2 DEF Ledgers, Accounts
    <2>4. \A p \in Pairs : S!Product(bal, p) \in Nat
      BY <1>2, <2>3, RicherLemma
    <2>5. NoneWorse(committed, bal)
      BY <1>2, <2>4 DEF NoneWorse
    <2> QED BY <2>2, <2>5
  <1>7. CanSettle(committed, bal, << m >>, user, user, ask)
    BY <1>2, <1>5, <1>6 DEF CanSettle
  <1> QED BY <1>1, <1>3, <1>7, SettleLemma

(***************************************************************************)
(* The next step of a transaction.                                         *)
(***************************************************************************)
\* A step that takes nothing from users but payer, gives nothing to users but
\* receiver in target, and nothing from pairs, on what can be settled.
LEMMA FurtherLemma ==
    ASSUME NEW c \in Ledgers, NEW a \in Ledgers, NEW b \in Ledgers,
           NEW payer, NEW receiver, NEW target
    PROVE  /\ /\ Moves(c, a, payer, receiver, target)
              /\ Moves(a, b, payer, receiver, target)
              => Moves(c, b, payer, receiver, target)
           /\ /\ NoneWorse(c, a)
              /\ \A pair \in Pairs : S!Product(b, pair) >= S!Product(a, pair)
              => NoneWorse(c, b)
           /\ /\ NoneWorse(c, a)
              /\ \A asset \in Assets, pair \in Pairs : a[asset][pair] <= b[asset][pair]
              => NoneWorse(c, b)
  <1>1. \A asset \in Assets, user \in Users :
           c[asset][user] \in Nat /\ a[asset][user] \in Nat /\ b[asset][user] \in Nat
    BY DEF Ledgers, Accounts
  <1>2. ASSUME Moves(c, a, payer, receiver, target), Moves(a, b, payer, receiver, target)
        PROVE  Moves(c, b, payer, receiver, target)
    <2> SUFFICES ASSUME NEW user \in Users, NEW asset \in Assets
                 PROVE  /\ b[asset][user] < c[asset][user] => user = payer
                        /\ b[asset][user] > c[asset][user]
                              => user = receiver /\ asset = target
      BY DEF Moves
    <2>1. /\ a[asset][user] < c[asset][user] => user = payer
          /\ a[asset][user] > c[asset][user] => user = receiver /\ asset = target
          /\ b[asset][user] < a[asset][user] => user = payer
          /\ b[asset][user] > a[asset][user] => user = receiver /\ asset = target
      BY <1>2 DEF Moves
    <2> QED BY <1>1, <2>1
  <1>3. \A pair \in Pairs : /\ S!Product(a, pair) \in Nat /\ S!Product(b, pair) \in Nat
                            /\ S!Product(c, pair) \in Nat
    <2>1. ASSUME NEW l \in Ledgers, NEW pair \in Pairs PROVE S!Product(l, pair) \in Nat
      <3>1. \A asset \in Assets : l[asset][pair] \in Nat
        BY DEF Ledgers, Accounts
      <3>2. \A asset \in Assets : l[asset][pair] <= l[asset][pair]
        BY <3>1
      <3> QED BY <3>2, RicherLemma
    <2> QED BY <2>1
  <1>4. ASSUME NoneWorse(c, a),
               \A pair \in Pairs : S!Product(b, pair) >= S!Product(a, pair)
        PROVE  NoneWorse(c, b)
    <2> SUFFICES ASSUME NEW pair \in Pairs PROVE S!Product(b, pair) >= S!Product(c, pair)
      BY DEF NoneWorse
    <2>1. S!Product(a, pair) >= S!Product(c, pair)
      BY <1>4 DEF NoneWorse
    <2> QED BY <1>3, <1>4, <2>1
  <1>5. ASSUME NoneWorse(c, a),
               \A asset \in Assets, pair \in Pairs : a[asset][pair] <= b[asset][pair]
        PROVE  NoneWorse(c, b)
    <2>1. \A pair \in Pairs : S!Product(a, pair) <= S!Product(b, pair)
      BY <1>5, RicherLemma
    <2>2. \A pair \in Pairs : S!Product(b, pair) >= S!Product(a, pair)
      BY <1>3, <2>1
    <2> QED BY <1>4, <1>5, <2>2
  <1> QED BY <1>2, <1>4, <1>5

\* A user transfers an asset to the router.
LEMMA TransferLemma ==
    ASSUME Settleable, NEW user \in Users, NEW asset \in Assets, NEW amount \in Nat,
           transfer(user, asset, amount, Addr)
    PROVE  Settleable' /\ [S!Next]_committed
  <1> DEFINE b == Moved(bal, asset, user, Addr, amount)
  <1>1. Idle /\ amount <= bal[asset][user] /\ Become(b, << >>, NoCall)
    BY DEF transfer
  <1>2. bal = committed /\ bal \in Ledgers
    BY <1>1 DEF Settleable
  <1>3. user \in Accounts /\ Addr \in Accounts /\ user # Addr
    BY RouterAssumption DEF Accounts
  <1>4. /\ b \in [Assets -> [Accounts -> Int]]
        /\ \A a \in Assets : a # asset => b[a] = bal[a]
        /\ \A c \in Accounts :
              b[asset][c] = bal[asset][c] - (IF c = user THEN amount ELSE 0)
                                          + (IF c = Addr THEN amount ELSE 0)
    BY <1>2, <1>3, MovedLemma
  <1> HIDE DEF b
  <1>5. \A a \in Assets, c \in Accounts : bal[a][c] \in Nat
    BY <1>2 DEF Ledgers
  <1>6. \A a \in Assets, c \in Accounts :
           b[a][c] \in Nat /\ (c # user => bal[a][c] <= b[a][c])
                           /\ (c # Addr => b[a][c] <= bal[a][c])
    BY <1>1, <1>3, <1>4, <1>5
  <1>7. b \in Ledgers
    BY <1>4, <1>6 DEF Ledgers
  <1>8. Moves(committed, b, user, user, asset)
    <2>1. \A c \in Users : c \in Accounts /\ c # Addr
      BY RouterAssumption DEF Accounts
    <2> QED BY <1>2, <1>5, <1>6, <2>1 DEF Moves
  <1>9. NoneWorse(committed, b)
    <2>1. \A a \in Assets, pair \in Pairs : bal[a][pair] <= b[a][pair]
      <3>1. \A pair \in Pairs : pair \in Accounts /\ pair # user
        BY RouterAssumption DEF Accounts
      <3> QED BY <1>6, <3>1
    <2>2. \A pair \in Pairs : S!Product(bal, pair) <= S!Product(b, pair)
                              /\ S!Product(bal, pair) \in Nat /\ S!Product(b, pair) \in Nat
      BY <1>2, <1>7, <2>1, RicherLemma
    <2> QED BY <1>2, <2>2 DEF NoneWorse
  <1>10. CanSettle(committed, b, << >>, user, user, asset)
    BY <1>7, <1>8, <1>9, OneLemma DEF CanSettle
  <1> QED BY <1>1, <1>10, SettleLemma

\* An operation becomes a message to a pair or to the market.
LEMMA OperationLemma ==
    ASSUME Settleable, execute_swap_operation
    PROVE  Settleable' /\ [S!Next]_committed
  <1> DEFINE top == stack[1]
             op == top.operation
             amount == bal[op.offer][Addr]
             rest == Tail(stack)
  <1>1. ~Idle /\ top.type = "ExecuteSwapOperation"
    BY DEF execute_swap_operation
  <1>2. PICK payer \in Users, receiver \in Users, target \in Assets :
           CanSettle(committed, bal, stack, payer, receiver, target)
    BY <1>1 DEF Settleable
  <1>3. /\ ProperAll(rest, payer, receiver, target)
        /\ Proper(top, payer, receiver, target)
        /\ NoneWorse(committed, bal)
    BY <1>1, <1>2, TopLemma DEF Payouts
  <1>4. op \in Operations /\ ProperTo(top.to, op.ask, receiver, target)
    BY <1>1, <1>3 DEF Proper
  <1>5. bal \in Ledgers /\ Moves(committed, bal, payer, receiver, target)
    BY <1>2 DEF CanSettle
  <1>6. op.offer \in Assets /\ op.ask \in Assets
    BY <1>4 DEF Operations
  <1>7. amount \in Nat
    BY <1>5, <1>6 DEF Ledgers, Accounts
  <1>8. ASSUME NEW msg, Proper(msg, payer, receiver, target),
               Become(bal, << msg >> \o rest, call)
        PROVE  Settleable' /\ [S!Next]_committed
    <2> HIDE DEF rest
    <2>1. ProperAll(<< msg >>, payer, receiver, target)
      BY <1>8, OneLemma
    <2>2. ProperAll(<< msg >> \o rest, payer, receiver, target)
      BY <1>3, <2>1, BothLemma
    <2>3. CanSettle(committed, bal, << msg >> \o rest, payer, receiver, target)
      BY <1>3, <1>5, <2>2 DEF CanSettle
    <2> QED BY <1>8, <2>3, SettleLemma
  <1>9. amount = IF op.native \/ is_native_token(op.offer)
                 THEN query_balance(bal, Addr, op.offer)
                 ELSE query_token_balance(bal, op.offer, Addr)
    BY DEF query_balance, query_token_balance
  <1>10. \/ Become(bal, << market_swap_msg(op.offer, op.ask, amount, top.to) >> \o rest, call)
         \/ \E pair \in PairsOf(op.offer, op.ask) :
               Become(bal, << asset_into_swap_msg(pair, op.offer, amount, top.to) >> \o rest,
                      call)
    <2> HIDE DEF amount
    <2> QED BY <1>9 DEF execute_swap_operation
  <1>11. AfterTax(op.offer, amount) \in Nat
    BY <1>7, AfterTaxLemma
  <1> HIDE DEF amount
  <1>12. ASSUME Become(bal, << market_swap_msg(op.offer, op.ask, amount, top.to) >> \o rest,
                       call)
         PROVE  Settleable' /\ [S!Next]_committed
    <2> DEFINE msg == market_swap_msg(op.offer, op.ask, amount, top.to)
    <2>1. /\ msg.type = "MarketSwap" /\ msg.offer = op.offer /\ msg.ask = op.ask
          /\ msg.to = top.to /\ msg.amount \in Nat
      BY <1>7, <1>11 DEF market_swap_msg
    <2>2. Become(bal, << msg >> \o rest, call)
      BY <1>12
    <2> HIDE DEF msg, op, top, rest
    <2>3. Proper(msg, payer, receiver, target)
      BY <1>4, <1>6, <2>1 DEF Proper
    <2> QED BY <1>8, <2>2, <2>3
  <1>13. ASSUME NEW pair \in PairsOf(op.offer, op.ask),
                Become(bal, << asset_into_swap_msg(pair, op.offer, amount, top.to) >> \o rest,
                       call)
         PROVE  Settleable' /\ [S!Next]_committed
    <2> DEFINE msg == asset_into_swap_msg(pair, op.offer, amount, top.to)
    <2>1. /\ msg.type = "Swap" /\ msg.pair = pair /\ msg.offer = op.offer
          /\ msg.sender = Addr /\ msg.to = top.to /\ msg.amount \in Nat
      BY <1>11 DEF asset_into_swap_msg
    <2>2. Become(bal, << msg >> \o rest, call)
      BY <1>13
    <2>3. pair \in Pairs /\ pair_assets[pair] = {op.offer, op.ask}
      BY DEF PairsOf
    <2> HIDE DEF msg, op, top, rest
    <2>4. Other(pair, op.offer) = op.ask /\ op.offer \in pair_assets[pair]
      <3>1. /\ pair_assets[pair] = {op.offer, Other(pair, op.offer)}
            /\ Other(pair, op.offer) # op.offer
        BY <2>3, SidesLemma
      <3> QED BY <2>3, <3>1
    <2>5. Only(Addr, op.ask, receiver, target)
      BY RouterAssumption DEF Only
    <2>6. Proper(msg, payer, receiver, target)
      BY <1>4, <2>1, <2>3, <2>4, <2>5 DEF Proper
    <2> QED BY <1>8, <2>2, <2>6
  <1> QED BY <1>10, <1>12, <1>13

\* The check of the minimum leaves the ledger alone.
LEMMA CheckLemma ==
    ASSUME Settleable, assert_minium_receive
    PROVE  Settleable' /\ [S!Next]_committed
  <1>1. ~Idle /\ stack[1].type = "AssertMinimumReceive" /\ Become(bal, Tail(stack), call)
    BY DEF assert_minium_receive
  <1>2. PICK payer \in Users, receiver \in Users, target \in Assets :
           CanSettle(committed, bal, stack, payer, receiver, target)
    BY <1>1 DEF Settleable
  <1>3. ProperAll(Tail(stack), payer, receiver, target) /\ NoneWorse(committed, bal)
    BY <1>1, <1>2, TopLemma DEF Payouts
  <1>4. CanSettle(committed, bal, Tail(stack), payer, receiver, target)
    BY <1>2, <1>3 DEF CanSettle
  <1> QED BY <1>1, <1>4, SettleLemma

\* On the ledger l, n and the tax k are burnt of what the router has, and minted
\* is given to an account.
Minting(l, offer, ask, to, n, k, minted) ==
    [[l EXCEPT ![offer][Addr] = @ - n - k] EXCEPT ![ask][to] = @ + minted]

LEMMA MintLemma ==
    ASSUME NEW l \in Ledgers, NEW offer \in Assets, NEW ask \in Assets, NEW to \in Accounts,
           NEW n \in Nat, NEW k \in Nat, NEW minted \in Nat, n + k <= l[offer][Addr]
    PROVE  /\ Minting(l, offer, ask, to, n, k, minted) \in Ledgers
           /\ \A a \in Assets, c \in Accounts :
                 Minting(l, offer, ask, to, n, k, minted)[a][c]
                    = l[a][c] - (IF a = offer /\ c = Addr THEN n + k ELSE 0)
                              + (IF a = ask /\ c = to THEN minted ELSE 0)
  <1> DEFINE burnt == [l EXCEPT ![offer][Addr] = @ - n - k]
             b == [burnt EXCEPT ![ask][to] = @ + minted]
  <1>1. Addr \in Accounts /\ \A a \in Assets, c \in Accounts : l[a][c] \in Nat
    BY DEF Ledgers, Accounts
  <1>2. \A a \in Assets, c \in Accounts :
           burnt[a][c] = IF a = offer /\ c = Addr THEN l[a][c] - n - k ELSE l[a][c]
    BY <1>1 DEF Ledgers
  <1>3. /\ burnt = [a \in Assets |-> burnt[a]]
        /\ \A a \in Assets : burnt[a] = [c \in Accounts |-> burnt[a][c]]
    BY DEF Ledgers
  <1> HIDE DEF burnt
  <1>4. \A a \in Assets, c \in Accounts : burnt[a][c] \in Nat
    BY <1>1, <1>2
  <1>5. burnt \in Ledgers
    BY <1>3, <1>4 DEF Ledgers
  <1>6. \A a \in Assets, c \in Accounts :
           b[a][c] = IF a = ask /\ c = to THEN burnt[a][c] + minted ELSE burnt[a][c]
    BY <1>5 DEF Ledgers
  <1>7. /\ b = [a \in Assets |-> b[a]]
        /\ \A a \in Assets : b[a] = [c \in Accounts |-> b[a][c]]
    BY <1>5 DEF Ledgers
  <1>8. Minting(l, offer, ask, to, n, k, minted) = b
    BY DEF burnt, Minting
  <1> HIDE DEF b
  <1>9. \A a \in Assets, c \in Accounts : b[a][c] \in Nat
    BY <1>4, <1>6
  <1>10. b \in Ledgers
    BY <1>7, <1>9 DEF Ledgers
  <1>11. \A a \in Assets, c \in Accounts :
            b[a][c] = l[a][c] - (IF a = offer /\ c = Addr THEN n + k ELSE 0)
                              + (IF a = ask /\ c = to THEN minted ELSE 0)
    BY <1>1, <1>2, <1>6
  <1> QED BY <1>8, <1>10, <1>11

\* The market burns what the router offers, and what it mints goes to the router
\* or to the receiver.
LEMMA MarketLemma ==
    ASSUME Settleable, market_swap
    PROVE  Settleable' /\ [S!Next]_committed
  <1> DEFINE m == stack[1]
             rest == Tail(stack)
             tax == IF m.to = Unset THEN 0 ELSE Tax(m.offer, m.amount)
             to == IF m.to = Unset THEN Addr ELSE m.to
             n == m.amount + tax
             minted == MarketReturn(m.amount)
             b == [[bal EXCEPT ![m.offer][Addr] = @ - m.amount - tax]
                       EXCEPT ![m.ask][to] = @ + minted]
  <1>1. /\ ~Idle /\ m.type = "MarketSwap" /\ n <= bal[m.offer][Addr]
        /\ Become(b, rest, call)
    BY DEF market_swap
  <1>2. PICK payer \in Users, receiver \in Users, target \in Assets :
           CanSettle(committed, bal, stack, payer, receiver, target)
    BY <1>1 DEF Settleable
  <1>3. /\ ProperAll(rest, payer, receiver, target)
        /\ Proper(m, payer, receiver, target)
        /\ NoneWorse(committed, bal)
    BY <1>1, <1>2, TopLemma DEF Payouts
  <1>4. /\ m.offer \in Assets /\ m.ask \in Assets /\ m.amount \in Nat
        /\ ProperTo(m.to, m.ask, receiver, target)
    BY <1>1, <1>3 DEF Proper
  <1>5. bal \in Ledgers /\ Moves(committed, bal, payer, receiver, target)
        /\ committed \in Ledgers
    BY <1>2 DEF CanSettle, Settleable
  <1>6. Addr \in Accounts /\ Addr \notin Users /\ Addr \notin Pairs
    BY RouterAssumption DEF Accounts
  <1>7. to \in Accounts /\ Only(to, m.ask, receiver, target)
    BY <1>4, <1>6 DEF ProperTo, Only
  <1>8. tax \in Nat
    BY <1>4, DueLemma
  <1>9. minted \in Nat
    <2>1. MarketRate \in Nat
      BY RouterAssumption, AssetAssumption
    <2>2. m.amount * MarketRate \in Nat
      BY <1>4, <2>1, ProductLemma
    <2> QED BY <2>2, AssetAssumption, DivLemma DEF MarketReturn, Scaled
  <1>10. /\ b \in Ledgers
         /\ \A a \in Assets, c \in Accounts :
               b[a][c] = bal[a][c] - (IF a = m.offer /\ c = Addr THEN n ELSE 0)
                                   + (IF a = m.ask /\ c = to THEN minted ELSE 0)
    <2> DEFINE offer == m.offer
               ask == m.ask
               amount == m.amount
    <2>1. /\ offer \in Assets /\ ask \in Assets /\ amount \in Nat /\ n = amount + tax
          /\ amount + tax <= bal[offer][Addr]
          /\ b = Minting(bal, offer, ask, to, amount, tax, minted)
      BY <1>1, <1>4 DEF Minting
    <2> HIDE DEF m, n, offer, ask, amount, tax, b, minted, to
    <2>2. /\ b \in Ledgers
          /\ \A a \in Assets, c \in Accounts :
                b[a][c] = bal[a][c] - (IF a = offer /\ c = Addr THEN amount + tax ELSE 0)
                                    + (IF a = ask /\ c = to THEN minted ELSE 0)
      BY <1>5, <1>7, <1>8, <1>9, <2>1, MintLemma
    <2> QED BY <2>1, <2>2 DEF offer, ask
  <1> HIDE DEF b, to, m, rest, n, minted
  <1>11. \A c \in Users \cup Pairs : c \in Accounts /\ c # Addr
    BY <1>6 DEF Accounts
  <1>12. \A a \in Assets, c \in Accounts : bal[a][c] \in Nat /\ b[a][c] \in Nat
    BY <1>5, <1>10 DEF Ledgers
  <1>13. Moves(bal, b, payer, receiver, target)
    <2> SUFFICES ASSUME NEW user \in Users, NEW a \in Assets
                 PROVE  /\ ~(b[a][user] < bal[a][user])
                        /\ b[a][user] > bal[a][user] => user = receiver /\ a = target
      BY DEF Moves
    <2>1. /\ b[a][user] = bal[a][user] + (IF a = m.ask /\ user = to THEN minted ELSE 0)
          /\ bal[a][user] \in Nat /\ b[a][user] \in Nat
      BY <1>10, <1>11, <1>12
    <2>2. user = to /\ a = m.ask => user = receiver /\ a = target
      BY <1>7 DEF Only
    <2> QED BY <1>9, <2>1, <2>2
  <1>14. \A a \in Assets, pair \in Pairs : bal[a][pair] <= b[a][pair]
    BY <1>9, <1>10, <1>11, <1>12
  <1>15. Moves(committed, b, payer, receiver, target) /\ NoneWorse(committed, b)
    BY <1>3, <1>5, <1>10, <1>13, <1>14, FurtherLemma
  <1>16. CanSettle(committed, b, rest, payer, receiver, target)
    BY <1>3, <1>10, <1>15 DEF CanSettle
  <1> QED BY <1>1, <1>16, SettleLemma

\* A payout takes from its pair what was counted as owed, and no more.
LEMMA PayLemma ==
    ASSUME Settleable, pay
    PROVE  Settleable' /\ [S!Next]_committed
  <1> DEFINE m == stack[1]
             rest == Tail(stack)
             b == Paid(bal, m.asset, m.from, m.to, m.amount)
             owing == Owing(bal, m)
             tax == Tax(m.asset, m.amount)
  <1>1. /\ ~Idle /\ m.type \in Payouts /\ m.amount + tax <= bal[m.asset][m.from]
        /\ Become(b, rest, call)
    BY DEF pay, Payouts, CanPay
  <1>2. PICK payer \in Users, receiver \in Users, target \in Assets :
           CanSettle(committed, bal, stack, payer, receiver, target)
    BY <1>1 DEF Settleable
  <1>3. /\ ProperAll(rest, payer, receiver, target)
        /\ ProperPayout(m, receiver, target)
        /\ owing \in Ledgers /\ NoneWorse(committed, owing)
    BY <1>1, <1>2, TopLemma
  <1>4. /\ m.asset \in Assets /\ m.from \in Pairs /\ m.amount \in Nat
        /\ m.to \in Accounts /\ Only(m.to, m.asset, receiver, target)
    BY <1>3 DEF ProperPayout
  <1>5. bal \in Ledgers /\ Moves(committed, bal, payer, receiver, target)
        /\ committed \in Ledgers
    BY <1>2 DEF CanSettle, Settleable
  <1>6. m.from \in Accounts /\ m.from \notin Users
    BY <1>4, RouterAssumption DEF Accounts
  <1>7. tax \in Nat
    BY <1>4, DueLemma
  <1>8. /\ b \in Ledgers
        /\ \A a \in Assets : a # m.asset => b[a] = bal[a]
        /\ \A c \in Accounts :
              /\ c # m.from => b[m.asset][c] = bal[m.asset][c]
                                  + (IF c = m.to THEN m.amount ELSE 0)
              /\ c = m.from => b[m.asset][c] = bal[m.asset][c] - m.amount - tax
                                  + (IF c = m.to THEN m.amount ELSE 0)
    BY <1>1, <1>4, <1>5, <1>6, PaidLemma
  <1>9. \A a \in Assets, c \in Accounts :
           owing[a][c] = IF a = m.asset /\ c = m.from THEN bal[a][c] - m.amount - tax
                                                      ELSE bal[a][c]
    BY <1>4, <1>5, <1>6 DEF Owing, Ledgers
  <1> HIDE DEF m, b, rest, owing, tax
  <1>10. \A a \in Assets, c \in Accounts : bal[a][c] \in Nat /\ b[a][c] \in Nat
    BY <1>5, <1>8 DEF Ledgers
  <1>11. \A a \in Assets, c \in Accounts : owing[a][c] <= b[a][c]
    BY <1>4, <1>7, <1>8, <1>9, <1>10
  <1>12. Moves(bal, b, payer, receiver, target)
    <2> SUFFICES ASSUME NEW user \in Users, NEW a \in Assets
                 PROVE  /\ ~(b[a][user] < bal[a][user])
                        /\ b[a][user] > bal[a][user] => user = receiver /\ a = target
      BY DEF Moves
    <2>1. user \in Accounts /\ user # m.from
      BY <1>6 DEF Accounts
    <2>2. /\ a # m.asset => b[a][user] = bal[a][user]
          /\ a = m.asset => b[a][user] = bal[a][user] + (IF user = m.to THEN m.amount ELSE 0)
          /\ bal[a][user] \in Nat /\ m.amount \in Nat
      BY <1>4, <1>8, <1>10, <2>1
    <2>3. user = m.to /\ a = m.asset => user = receiver /\ a = target
      BY <1>4 DEF Only
    <2> QED BY <2>2, <2>3
  <1>13. Moves(committed, b, payer, receiver, target)
    BY <1>5, <1>8, <1>12, FurtherLemma
  <1>14. NoneWorse(committed, b)
    <2>1. \A a \in Assets, pair \in Pairs : owing[a][pair] <= b[a][pair]
      BY <1>11 DEF Accounts
    <2> QED BY <1>3, <1>5, <1>8, <2>1, FurtherLemma
  <1>15. CanSettle(committed, b, rest, payer, receiver, target)
    BY <1>3, <1>8, <1>13, <1>14 DEF CanSettle
  <1> QED BY <1>1, <1>15, SettleLemma

\* What a payout and its tax cost is no more than what the pair returned.
LEMMA CostLemma ==
    ASSUME NEW ask, NEW return_amount \in Nat, NEW pair, NEW to
    PROVE  LET m == into_msg(ask, return_amount, pair, to)
           IN  /\ m.type \in Payouts /\ m.asset = ask /\ m.from = pair /\ m.to = to
               /\ m.amount \in Nat /\ Tax(ask, m.amount) \in Nat
               /\ m.amount + Tax(ask, m.amount) <= return_amount
  <1> DEFINE m == into_msg(ask, return_amount, pair, to)
  <1>1. CASE is_native_token(ask)
    <2>1. /\ m.type = "BankSend" /\ m.asset = ask /\ m.from = pair /\ m.to = to
          /\ m.amount = deduct_tax(ask, return_amount)
      BY <1>1 DEF into_msg, Msg
    <2>2. Tax(ask, m.amount) = TaxDue(ask, deduct_tax(ask, return_amount))
      BY <1>1, <2>1 DEF Tax
    <2> HIDE DEF m
    <2>3. /\ deduct_tax(ask, return_amount) \in Nat
          /\ TaxDue(ask, deduct_tax(ask, return_amount)) \in Nat
          /\ deduct_tax(ask, return_amount)
                + TaxDue(ask, deduct_tax(ask, return_amount)) <= return_amount
      BY <1>1, TaxLemma
    <2> QED BY <2>1, <2>2, <2>3 DEF m, Payouts
  <1>2. CASE ~is_native_token(ask)
    <2>1. /\ m.type = "Transfer" /\ m.asset = ask /\ m.from = pair /\ m.to = to
          /\ m.amount = return_amount
      BY <1>2 DEF into_msg, Msg
    <2>2. Tax(ask, m.amount) = 0
      BY <1>2 DEF Tax
    <2> HIDE DEF m
    <2> QED BY <2>1, <2>2 DEF m, Payouts
  <1> QED BY <1>1, <1>2

\* No pool holds more of an asset than there are fractions of a unit of it.
Scarce == \A pair \in Pairs : \A a \in pair_assets[pair] : bal[a][pair] <= DECIMAL_FRACTION

\* A pair takes an offer, and answers no more than leaves its product.
LEMMA SwapLemma ==
    ASSUME Settleable, swap, Scarce'
    PROVE  Settleable' /\ [S!Next]_committed
  <1> DEFINE m == stack[1]
             rest == Tail(stack)
             pair == m.pair
             offer == m.offer
             ask == Other(pair, offer)
             o == bal[offer][pair]
             a == bal[ask][pair]
             n == m.amount
             r == compute_swap(o, a, n).return_amount
             b == Paid(bal, offer, m.sender, pair, n)
             to == IF m.to = Unset THEN m.sender ELSE m.to
             answer == Answer(m, ask, r)
             gross == GrossReturn(o, a, n)
  <1>1. /\ ~Idle /\ m.type = "Swap"
        /\ n + Tax(offer, n) <= bal[offer][m.sender]
        /\ o > 0
        /\ Become(b, answer \o rest, call)
    BY DEF swap, CanPay, CanSwap
  <1>2. PICK payer \in Users, receiver \in Users, target \in Assets :
           CanSettle(committed, bal, stack, payer, receiver, target)
    BY <1>1 DEF Settleable
  <1>3. /\ ProperAll(rest, payer, receiver, target)
        /\ Proper(m, payer, receiver, target)
        /\ NoneWorse(committed, bal)
    BY <1>1, <1>2, TopLemma DEF Payouts
  <1>4. /\ pair \in Pairs /\ offer \in pair_assets[pair] /\ n \in Nat
        /\ m.sender \in {Addr, payer}
        /\ ProperTo(m.to, ask, receiver, target)
        /\ m.to = Unset => Only(m.sender, ask, receiver, target)
    BY <1>1, <1>3 DEF Proper
  <1>5. bal \in Ledgers /\ Moves(committed, bal, payer, receiver, target)
        /\ committed \in Ledgers
    BY <1>2 DEF CanSettle, Settleable
  <1>6. /\ m.sender \in Accounts /\ m.sender \notin Pairs /\ pair \in Accounts
        /\ m.sender \in Users => m.sender = payer
    BY <1>4, RouterAssumption DEF Accounts
  <1>7. to \in Accounts /\ Only(to, ask, receiver, target)
    BY <1>4, <1>6 DEF ProperTo
  <1>8. /\ offer \in Assets /\ ask \in Assets /\ ask # offer
        /\ pair_assets[pair] = {offer, ask}
        /\ \A l \in Ledgers : /\ l[offer][pair] \in Nat /\ l[ask][pair] \in Nat
                              /\ S!Product(l, pair) = l[offer][pair] * l[ask][pair]
    BY <1>4, SidesLemma
  <1>9. o \in Nat /\ a \in Nat
    BY <1>5, <1>8
  <1>10. /\ b \in Ledgers
         /\ \A x \in Assets : x # offer => b[x] = bal[x]
         /\ \A c \in Accounts :
               /\ c # m.sender => b[offer][c] = bal[offer][c]
                                     + (IF c = pair THEN n ELSE 0)
               /\ c = m.sender => b[offer][c] = bal[offer][c] - n - Tax(offer, n)
                                     + (IF c = pair THEN n ELSE 0)
    <2> HIDE DEF m, pair, offer, ask, o, a, n
    <2>1. n + Tax(offer, n) <= bal[offer][m.sender]
      BY <1>1
    <2>2. /\ bal \in Ledgers /\ offer \in Assets /\ m.sender \in Accounts
          /\ pair \in Accounts /\ n \in Nat
      BY <1>4, <1>5, <1>6, <1>8
    <2> QED BY <2>1, <2>2, PaidLemma
  <1>11. bal' = b
    BY <1>1 DEF Become
  <1> HIDE DEF b
  <1>12. b[offer][pair] = o + n /\ b[ask][pair] = a
    BY <1>4, <1>6, <1>8, <1>10
  <1>13. o + n <= DECIMAL_FRACTION
    <2>1. bal'[offer][pair] <= DECIMAL_FRACTION
      BY <1>4 DEF Scarce
    <2> QED BY <1>11, <1>12, <2>1
  <1>14. /\ gross \in Nat /\ gross <= a
         /\ (o + n) * (a - gross) >= o * a
    BY <1>1, <1>4, <1>9, <1>13, GrossLemma
  <1>15. r \in Nat /\ r <= gross
    <2>1. r = gross - Commission(gross)
      BY DEF compute_swap
    <2> HIDE DEF gross, r
    <2> QED BY <1>14, <2>1, CommissionLemma
  <1>16. answer = IF r = 0 THEN << >> ELSE << into_msg(ask, r, pair, to) >>
    BY DEF Answer
  <1> HIDE DEF m, rest, pair, offer, ask, o, a, n, r, to, answer, gross
  <1>17. \A x \in Assets, c \in Accounts : bal[x][c] \in Nat /\ b[x][c] \in Nat
    BY <1>5, <1>10 DEF Ledgers
  <1>18. Tax(offer, n) \in Nat
    BY <1>4, DueLemma
  <1>19. Moves(bal, b, payer, receiver, target)
    <2> SUFFICES ASSUME NEW user \in Users, NEW x \in Assets
                 PROVE  /\ b[x][user] < bal[x][user] => user = payer
                        /\ ~(b[x][user] > bal[x][user])
      BY DEF Moves
    <2>1. user \in Accounts /\ user # pair
      BY <1>4, RouterAssumption DEF Accounts
    <2>2. /\ x # offer => b[x][user] = bal[x][user]
          /\ x = offer /\ user # m.sender => b[x][user] = bal[x][user]
          /\ x = offer /\ user = m.sender => b[x][user] = bal[x][user] - n - Tax(offer, n)
          /\ bal[x][user] \in Nat
      BY <1>4, <1>10, <1>17, <1>18, <2>1
    <2> QED BY <1>4, <1>6, <1>18, <2>2
  <1>20. Moves(committed, b, payer, receiver, target)
    BY <1>5, <1>10, <1>19, FurtherLemma
  <1>21. \A x \in Assets, p \in Pairs : bal[x][p] <= b[x][p]
    <2> SUFFICES ASSUME NEW x \in Assets, NEW p \in Pairs PROVE bal[x][p] <= b[x][p]
      OBVIOUS
    <2>1. p \in Accounts /\ p # m.sender
      BY <1>6 DEF Accounts
    <2>2. /\ x # offer => b[x][p] = bal[x][p]
          /\ x = offer => b[x][p] = bal[x][p] + (IF p = pair THEN n ELSE 0)
          /\ bal[x][p] \in Nat
      BY <1>10, <1>17, <2>1
    <2> QED BY <1>4, <2>2
  <1>22. CASE r = 0
    <2>1. answer \o rest = rest
      <3>1. PICK M : rest \in Seq(M)
        BY <1>3 DEF ProperAll
      <3> QED BY <1>16, <1>22, <3>1
    <2>2. NoneWorse(committed, b)
      BY <1>3, <1>5, <1>10, <1>21, FurtherLemma
    <2>3. CanSettle(committed, b, rest, payer, receiver, target)
      BY <1>3, <1>10, <1>20, <2>2 DEF CanSettle
    <2> QED BY <1>1, <2>1, <2>3, SettleLemma
  <1>23. CASE r # 0
    <2> DEFINE pays == into_msg(ask, r, pair, to)
               out == << pays >> \o rest
               owing == Owing(b, pays)
               cost == pays.amount + Tax(ask, pays.amount)
    <2>1. /\ pays.type \in Payouts /\ pays.asset = ask /\ pays.from = pair
          /\ pays.to = to
          /\ pays.amount \in Nat /\ Tax(ask, pays.amount) \in Nat /\ cost <= r
      BY <1>15, CostLemma
    <2>2. Become(b, out, call)
      BY <1>1, <1>16, <1>23
    <2> HIDE DEF pays
    <2>3. out[1] = pays /\ Tail(out) = rest /\ out # << >>
      <3>1. PICK M : rest \in Seq(M)
        BY <1>3 DEF ProperAll
      <3> QED BY <3>1
    <2>4. ProperPayout(pays, receiver, target)
      BY <1>4, <1>7, <1>8, <2>1 DEF ProperPayout
    <2>5. cost \in Nat
      BY <2>1
    <2>6. /\ \A x \in Assets, c \in Accounts :
                owing[x][c] = IF x = ask /\ c = pair
                              THEN b[x][c] - pays.amount - Tax(ask, pays.amount)
                              ELSE b[x][c]
          /\ owing = [x \in Assets |-> owing[x]]
          /\ \A x \in Assets : owing[x] = [c \in Accounts |-> owing[x][c]]
      BY <1>6, <1>8, <1>10, <2>1 DEF Owing, Ledgers
    <2> HIDE DEF out, owing
    <2>7. \A x \in Assets, c \in Accounts :
             /\ owing[x][c] \in Nat
             /\ ~(x = ask /\ c = pair) => owing[x][c] = b[x][c]
      BY <1>9, <1>12, <1>14, <1>15, <1>17, <2>1, <2>6
    <2>8. owing \in Ledgers
      BY <2>6, <2>7 DEF Ledgers
    <2>9. ASSUME NEW p \in Pairs PROVE S!Product(owing, p) >= S!Product(bal, p)
      <3>1. CASE p = pair
        <4>1. /\ S!Product(owing, pair) = owing[offer][pair] * owing[ask][pair]
              /\ S!Product(bal, pair) = o * a
          BY <1>5, <1>8, <2>8 DEF o, a
        <4>2. owing[offer][pair] = o + n
          BY <1>6, <1>8, <1>12, <2>7
        <4>3. owing[ask][pair] \in Nat /\ a - gross <= owing[ask][pair]
          BY <1>6, <1>8, <1>9, <1>12, <1>14, <1>15, <2>1, <2>6, <2>7
        <4> DEFINE kept == a - gross
                   after == owing[ask][pair]
                   s == o + n
        <4>4. /\ s \in Nat /\ kept \in Nat
              /\ s * kept \in Nat /\ o * a \in Nat
          <5>1. s \in Nat /\ kept \in Nat
            BY <1>4, <1>9, <1>14
          <5> HIDE DEF s, kept
          <5> QED BY <1>9, <5>1, ProductLemma
        <4>5. s * kept <= s * after /\ s * after \in Nat
          <5> HIDE DEF kept, after, s
          <5>1. s \in Nat /\ kept \in Nat /\ after \in Nat /\ kept <= after
            BY <4>3, <4>4 DEF kept, after, s
          <5> QED BY <5>1, ProductLemma
        <4>6. s * kept >= o * a
          BY <1>14
        <4> HIDE DEF kept, after, s
        <4>7. s * after >= o * a
          BY <4>4, <4>5, <4>6
        <4> QED BY <3>1, <4>1, <4>2, <4>7 DEF s, after
      <3>2. CASE p # pair
        <4>1. \A x \in Assets : bal[x][p] <= owing[x][p]
          BY <1>21, <2>7, <3>2 DEF Accounts
        <4>2. /\ S!Product(bal, p) <= S!Product(owing, p)
              /\ S!Product(bal, p) \in Nat /\ S!Product(owing, p) \in Nat
          BY <1>5, <2>8, <4>1, RicherLemma
        <4> QED BY <4>2
      <3> QED BY <3>1, <3>2
    <2>10. NoneWorse(committed, owing)
      BY <1>3, <1>5, <2>8, <2>9, FurtherLemma
    <2>11. CanSettle(committed, b, out, payer, receiver, target)
      BY <1>3, <1>10, <1>20, <2>3, <2>4, <2>8, <2>10 DEF CanSettle, owing
    <2> QED BY <2>2, <2>11, SettleLemma
  <1> QED BY <1>22, <1>23

(***************************************************************************)
(* The refinement.                                                         *)
(***************************************************************************)
\* A user calls the router, with coins or through a token.
Calls(user, operations, minimum, to) ==
    \/ \E coins \in Coins : execute(user, coins, operations, minimum, to)
    \/ \E asset \in Assets, amount \in Amounts :
          receive_cw20(asset, user, amount, operations, minimum, to)

\* Either way with funds the user has.
LEMMA CallsLemma ==
    ASSUME bal \in Ledgers, NEW user \in Users, NEW operations, NEW minimum, NEW to,
           Calls(user, operations, minimum, to)
    PROVE  \E funds \in [Assets -> Nat] :
              /\ \A a \in Assets : funds[a] <= bal[a][user]
              /\ execute_swap_operations(WithFunds(user, funds), operations, minimum,
                                         to, funds)
  <1>1. \A a \in Assets : 0 <= bal[a][user]
    <2>1. user \in Accounts
      BY DEF Accounts
    <2> QED BY <2>1 DEF Ledgers
  <1>2. ASSUME NEW coins \in Coins, execute(user, coins, operations, minimum, to)
        PROVE  /\ Sent(coins) \in [Assets -> Nat]
               /\ \A a \in Assets : Sent(coins)[a] <= bal[a][user]
    <2>1. coins \in [NativeTokens -> Nat] /\ NativeTokens \subseteq Assets
      BY RouterAssumption
    <2>2. \A a \in NativeTokens : coins[a] <= bal[a][user]
      BY <1>2 DEF execute
    <2> QED BY <1>1, <2>1, <2>2 DEF Sent, is_native_token
  <1>3. ASSUME NEW asset \in Assets, NEW amount \in Amounts,
               receive_cw20(asset, user, amount, operations, minimum, to)
        PROVE  /\ SentToken(asset, amount) \in [Assets -> Nat]
               /\ \A a \in Assets : SentToken(asset, amount)[a] <= bal[a][user]
    <2>1. amount \in Nat /\ amount <= bal[asset][user]
      BY <1>3, RouterAssumption DEF receive_cw20
    <2> QED BY <1>1, <2>1 DEF SentToken
  <1>4. CASE \E coins \in Coins : execute(user, coins, operations, minimum, to)
    <2>1. PICK coins \in Coins : execute(user, coins, operations, minimum, to)
      BY <1>4
    <2>2. execute_swap_operations(WithFunds(user, Sent(coins)), operations, minimum, to,
                                  Sent(coins))
      BY <2>1 DEF execute
    <2> QED BY <1>2, <2>1, <2>2
  <1>5. CASE \E asset \in Assets, amount \in Amounts :
                receive_cw20(asset, user, amount, operations, minimum, to)
    <2>1. PICK asset \in Assets, amount \in Amounts :
                  receive_cw20(asset, user, amount, operations, minimum, to)
      BY <1>5
    <2>2. execute_swap_operations(WithFunds(user, SentToken(asset, amount)), operations,
                                  minimum, to, SentToken(asset, amount))
      BY <2>1 DEF receive_cw20
    <2> QED BY <1>3, <2>1, <2>2
  <1> QED BY <1>4, <1>5 DEF Calls

\* Every step keeps what settlement needs, and is one of Settlement or none.
LEMMA SettlementLemma ==
    ASSUME Settleable, [Next]_vars, Scarce'
    PROVE  Settleable' /\ [S!Next]_committed
  <1>1. ASSUME NEW user \in Users, NEW operations \in Routes, NEW minimum \in Minimums,
               NEW to \in Receivers, Calls(user, operations, minimum, to)
        PROVE  Settleable' /\ [S!Next]_committed
    <2>1. operations \in Seq(Operations) /\ to \in Accounts
      BY RouterAssumption
    <2>2. Idle
      BY <1>1 DEF Calls, execute, receive_cw20, execute_swap_operations
    <2>3. bal \in Ledgers
      BY <2>2 DEF Settleable
    <2>4. PICK funds \in [Assets -> Nat] :
             /\ \A a \in Assets : funds[a] <= bal[a][user]
             /\ execute_swap_operations(WithFunds(user, funds), operations, minimum, to, funds)
      BY <1>1, <2>3, CallsLemma
    <2> QED BY <2>1, <2>4, BeginLemma
  <1>3. CASE execute_swap_operation
    BY <1>3, OperationLemma
  <1>4. CASE assert_minium_receive
    BY <1>4, CheckLemma
  <1>5. CASE swap
    BY <1>5, SwapLemma
  <1>6. CASE pay
    BY <1>6, PayLemma
  <1>7. CASE market_swap
    BY <1>7, MarketLemma
  <1>8. CASE Abort
    <2>1. bal' = committed /\ committed' = committed /\ Idle'
      BY <1>8 DEF Abort, Become, Idle
    <2> QED BY <2>1 DEF Settleable
  <1>9. ASSUME NEW user \in Users, NEW pair \in Pairs, NEW offer \in Assets,
               NEW amount \in Amounts, trade(user, pair, offer, amount)
        PROVE  Settleable' /\ [S!Next]_committed
    <2>1. amount \in Nat
      BY RouterAssumption
    <2> QED BY <1>9, <2>1, TradeLemma
  <1>10. ASSUME NEW user \in Users, NEW asset \in Assets, NEW amount \in Gifts,
                transfer(user, asset, amount, Addr)
         PROVE  Settleable' /\ [S!Next]_committed
    <2>1. amount \in Nat
      BY RouterAssumption
    <2> QED BY <1>10, <2>1, TransferLemma
  <1>11. CASE UNCHANGED vars
    <2>1. bal' = bal /\ stack' = stack /\ committed' = committed
      BY <1>11 DEF vars
    <2> QED BY <2>1 DEF Settleable, Idle
  <1> QED BY <1>1, <1>3, <1>4, <1>5, <1>6, <1>7, <1>8, <1>9, <1>10, <1>11 DEF Next, Calls

LEMMA StartLemma == Init => Settleable /\ S!Init
  <1> SUFFICES ASSUME Init PROVE Settleable /\ S!Init
    OBVIOUS
  <1>1. bal \in Ledgers /\ committed = bal /\ Idle
    BY RouterAssumption DEF Init, Ledgers, Idle
  <1> QED BY <1>1 DEF Settleable, S!Init, Ledgers

\* As long as no pool holds more of an asset than DECIMAL_FRACTION, 10^18, a
\* transaction of any number of swaps, at pairs and at the market, with their
\* taxes and roundings, is seen from outside as one step: one user pays, one
\* receives in one asset, and no pair's product is smaller than before.
THEOREM SettlesAtOnce == Spec /\ []Scarce => ImplementsSettlement
  <1>1. Init => Settleable /\ S!Init
    BY StartLemma
  <1>2. Settleable /\ [Next]_vars /\ Scarce' => Settleable' /\ [S!Next]_committed
    BY SettlementLemma
  <1> QED BY <1>1, <1>2, PTL DEF Spec, ImplementsSettlement, S!Spec

(***************************************************************************)
(* What a route sweeps: of the assets it is to swap away the router has    *)
(* nothing but dust in the end.                                            *)
(***************************************************************************)
Messages ==
    UNION {[type : {"ExecuteSwapOperation"}, operation : Operations,
            to : Accounts \cup {Unset}],
           [type : {"AssertMinimumReceive"}, asset_info : Assets, prev_balance : Nat,
            minimum_receive : Nat, receiver : Accounts],
           [type : {"MarketSwap"}, offer : Assets, ask : Assets, amount : Nat,
            to : Accounts \cup {Unset}],
           {m \in [type : {"Swap"}, pair : Pairs, offer : Assets, amount : Nat,
                   sender : Users \cup {Addr}, to : Accounts \cup {Unset}] :
               m.offer \in pair_assets[m.pair]},
           [type : Payouts, asset : Assets, from : Pairs, to : Accounts, amount : Nat]}

\* m, or what follows from it, may bring the router some of a.
Brings(m, a) ==
    \/ m.type = "ExecuteSwapOperation" /\ m.operation.ask = a /\ m.to \in {Unset, Addr}
    \/ m.type = "MarketSwap" /\ m.ask = a /\ m.to \in {Unset, Addr}
    \/ /\ m.type = "Swap" /\ Other(m.pair, m.offer) = a
       /\ m.to = Addr \/ (m.to = Unset /\ m.sender = Addr)
    \/ m.type \in Payouts /\ m.asset = a /\ m.to = Addr

\* m will swap all of a that the router has by then.
Offers(m, a) == m.type = "ExecuteSwapOperation" /\ m.operation.offer = a

\* m swaps all of a that the router has on the ledger b.
Takes(b, m, a) ==
    \/ /\ m.type = "MarketSwap" /\ m.offer = a
       /\ m.amount = IF m.to = Unset THEN b[a][Addr] ELSE AfterTax(a, b[a][Addr])
    \/ /\ m.type = "Swap" /\ m.offer = a /\ m.sender = Addr
       /\ m.amount = AfterTax(a, b[a][Addr])

\* With the messages out left, what there is of a will be swapped, and what is
\* brought of it later too.
Cleared(b, out, a) ==
    /\ \A i \in 1..Len(out) : Brings(out[i], a) =>
           \E j \in 1..Len(out) : i < j /\ Offers(out[j], a)
    /\ \/ b[a][Addr] <= Dust(a)
       \/ \E j \in 1..Len(out) : Offers(out[j], a)
       \/ out # << >> /\ Takes(b, out[1], a)

\* The assets that are to be swapped away: those a route names but the target,
\* and on a straight route every one.
Cleans(c) ==
    {a \in Assets : \/ Straight(c) /\ Fresh(c)
                    \/ /\ a # get_target_asset_info(c.operations)
                       /\ \E k \in 1..Len(c.operations) :
                             a \in {c.operations[k].offer, c.operations[k].ask}}

AllCleared(b, out, c) ==
    c # NoCall => /\ c.operations \in Seq(Operations)
                  /\ \A a \in Cleans(c) : Cleared(b, out, a)

Sweeping ==
    /\ bal \in Ledgers /\ committed \in Ledgers
    /\ stack \in Seq(Messages)
    /\ Idle => call = NoCall
    /\ AllCleared(bal, stack, call)

\* What a step keeps.
Swept == /\ Sweeping'
         /\ Completes => \A a \in Cleans(call) : bal'[a][Addr] <= Dust(a)

\* A step to what clears the assets, that goes on with the call, begins one or
\* undoes it.
LEMMA SweptLemma ==
    ASSUME Sweeping, NEW b \in Ledgers, NEW out \in Seq(Messages), NEW c,
           Become(b, out, c), AllCleared(b, out, c),
           c = call \/ Idle \/ b = committed
    PROVE  Swept
  <1>1. /\ bal' = b /\ stack' = out
        /\ committed' = IF out = << >> THEN b ELSE committed
        /\ call' = IF out = << >> THEN NoCall ELSE c
    BY DEF Become
  <1>2. Sweeping'
    BY <1>1 DEF Sweeping, AllCleared, Idle
  <1>3. ASSUME Completes, NEW a \in Cleans(call) PROVE b[a][Addr] <= Dust(a)
    <2>1. call # NoCall /\ call' = NoCall /\ b # committed
      BY <1>1, <1>3 DEF Completes
    <2>2. c = call
      BY <2>1 DEF Sweeping
    <2>3. out = << >>
      BY <1>1, <2>1, <2>2
    <2>4. Cleared(b, out, a)
      BY <1>3, <2>1, <2>2 DEF AllCleared
    <2>5. 1..Len(out) = {}
      BY <2>3
    <2> QED BY <2>3, <2>4, <2>5 DEF Cleared
  <1> QED BY <1>1, <1>2, <1>3 DEF Swept

\* The first message is replaced by at most one, t.  What it may have brought of
\* an asset is offered later; for the rest see to it that nothing is left behind.
LEMMA SweepLemma ==
    ASSUME Sweeping, ~Idle, NEW b \in Ledgers,
           NEW t \in Seq(Messages), Len(t) <= 1, Become(b, t \o Tail(stack), call),
           \A a \in Assets :
               /\ t # << >> /\ Brings(t[1], a) => Brings(stack[1], a)
               /\ \/ b[a][Addr] <= Dust(a)
                  \/ Brings(stack[1], a)
                  \/ t # << >> /\ Takes(b, t[1], a)
                  \/ /\ ~Offers(stack[1], a) /\ ~Takes(bal, stack[1], a)
                     /\ b[a][Addr] <= bal[a][Addr]
    PROVE  Swept
  <1> DEFINE out == t \o Tail(stack)
             d == Len(t)
  <1>1. stack \in Seq(Messages) /\ stack # << >> /\ Len(stack) \in Nat /\ Len(stack) > 0
    BY DEF Sweeping, Idle
  <1>2. d \in {0, 1} /\ (t = << >> <=> d = 0)
    <2>1. \A s \in Seq(Messages) : Len(s) \in Nat /\ (s = << >> <=> Len(s) = 0)
      OBVIOUS
    <2>2. Len(t) \in Nat /\ (t = << >> <=> Len(t) = 0)
      BY <2>1
    <2>3. Len(t) <= 1
      OBVIOUS
    <2> HIDE DEF out
    <2>4. d \in Nat /\ d <= 1 /\ (t = << >> <=> d = 0)
      BY <2>2, <2>3
    <2> HIDE DEF d
    <2> QED BY <2>4
  <1>3. /\ out \in Seq(Messages) /\ Len(out) = d + Len(stack) - 1
        /\ \A i \in 1..Len(out) : out[i] = IF i <= d THEN t[i] ELSE stack[i - d + 1]
    BY <1>1, <1>2
  <1> HIDE DEF out, d
  <1>4. \A i \in 2..Len(stack) : i + d - 1 \in 1..Len(out) /\ out[i + d - 1] = stack[i]
    BY <1>1, <1>2, <1>3
  <1>5. ASSUME NEW a \in Assets, Cleared(bal, stack, a) PROVE Cleared(b, out, a)
    <2>1. ASSUME NEW j \in 1..Len(stack), Offers(stack[j], a), j # 1
          PROVE  j + d - 1 \in 1..Len(out) /\ Offers(out[j + d - 1], a)
      BY <1>4, <2>1
    <2>2. Brings(stack[1], a) =>
              \E j \in 1..Len(out) : j > d /\ Offers(out[j], a)
      <3> SUFFICES ASSUME Brings(stack[1], a)
                   PROVE  \E j \in 1..Len(out) : j > d /\ Offers(out[j], a)
        OBVIOUS
      <3>1. PICK j \in 1..Len(stack) : 1 < j /\ Offers(stack[j], a)
        BY <1>1, <1>5 DEF Cleared
      <3> QED BY <1>2, <2>1, <3>1
    <2>3. ASSUME NEW i \in 1..Len(out), Brings(out[i], a)
          PROVE  \E j \in 1..Len(out) : i < j /\ Offers(out[j], a)
      <3>1. CASE i <= d
        <4>1. i = 1 /\ d = 1 /\ out[i] = t[1] /\ t # << >>
          BY <1>2, <1>3, <3>1
        <4>2. Brings(stack[1], a)
          BY <2>3, <4>1
        <4> QED BY <2>2, <4>1, <4>2
      <3>2. CASE i > d
        <4>1. i - d + 1 \in 1..Len(stack) /\ Brings(stack[i - d + 1], a)
          BY <1>1, <1>2, <1>3, <2>3, <3>2
        <4>2. PICK j \in 1..Len(stack) : i - d + 1 < j /\ Offers(stack[j], a)
          BY <1>5, <4>1 DEF Cleared
        <4>3. j # 1 /\ i < j + d - 1
          BY <1>2, <3>2, <4>2
        <4> QED BY <2>1, <4>2, <4>3
      <3> QED BY <1>2, <3>1, <3>2
    <2>4. \/ b[a][Addr] <= Dust(a)
          \/ \E j \in 1..Len(out) : Offers(out[j], a)
          \/ out # << >> /\ Takes(b, out[1], a)
      <3>1. CASE Brings(stack[1], a)
        BY <2>2, <3>1
      <3>2. CASE t # << >> /\ Takes(b, t[1], a)
        <4>1. d = 1 /\ Len(out) >= 1
          BY <1>1, <1>2, <1>3, <3>2
        <4>2. out[1] = t[1] /\ out # << >>
          BY <1>3, <4>1
        <4> QED BY <3>2, <4>2
      <3>3. CASE ~Offers(stack[1], a) /\ ~Takes(bal, stack[1], a) /\ b[a][Addr] <= bal[a][Addr]
        <4>1. CASE bal[a][Addr] <= Dust(a)
          <5>1. bal[a][Addr] \in Nat /\ b[a][Addr] \in Nat
            BY DEF Sweeping, Ledgers, Accounts
          <5>2. Dust(a) \in Int
            BY AssetAssumption DEF Dust, Lesser
          <5> QED BY <3>3, <4>1, <5>1, <5>2
        <4>2. ASSUME NEW j \in 1..Len(stack), Offers(stack[j], a)
              PROVE  \E l \in 1..Len(out) : Offers(out[l], a)
          BY <2>1, <3>3, <4>2
        <4>3. \/ bal[a][Addr] <= Dust(a)
              \/ \E j \in 1..Len(stack) : Offers(stack[j], a)
          BY <1>5, <3>3 DEF Cleared
        <4> QED BY <4>1, <4>2, <4>3
      <3> QED BY <3>1, <3>2, <3>3
    <2> QED BY <2>3, <2>4 DEF Cleared
  <1>6. AllCleared(b, out, call)
    BY <1>5 DEF Sweeping, AllCleared, Cleans
  <1> QED BY <1>3, <1>6, SweptLemma DEF out

\* When all of an asset is swapped but for the tax, dust is left.
LEMMA DustLemma ==
    ASSUME NEW a, NEW x \in Nat
    PROVE  /\ AfterTax(a, x) \in Nat
           /\ x - AfterTax(a, x) - Tax(a, AfterTax(a, x)) <= Dust(a)
           /\ 0 <= Dust(a) /\ Dust(a) \in Int
  <1> DEFINE F == DECIMAL_FRACTION
             R == TaxRate
             e == R \div F
             q == (x * F) \div (R + F)
             held == Lesser(x - q, TaxCap)
             n == x - held
             d == (n * R) \div F
             c == (q * R) \div F
  <1>1. F \in Nat /\ F > 0 /\ R \in Nat /\ TaxCap \in Nat
    BY AssetAssumption
  <1>2. e \in Nat /\ F * e <= R /\ R < F * e + F
    BY <1>1, DivLemma
  <1>3. 0 <= Dust(a) /\ Dust(a) \in Int
    <2> HIDE DEF e
    <2> QED BY <1>1, <1>2 DEF Dust, Lesser, e
  <1>4. AfterTax(a, x) \in Nat
    BY AfterTaxLemma
  <1>5. CASE ~is_native_token(a)
    <2>1. AfterTax(a, x) = x /\ Tax(a, AfterTax(a, x)) = 0
      BY <1>5 DEF AfterTax, Tax
    <2> QED BY <1>3, <1>4, <2>1
  <1>6. CASE is_native_token(a) /\ a = Uluna
    <2>1. AfterTax(a, x) = x /\ Tax(a, AfterTax(a, x)) = 0
      BY <1>6 DEF AfterTax, Tax, TaxDue, compute_denom_tax
    <2> QED BY <1>3, <1>4, <2>1
  <1>7. CASE is_native_token(a) /\ a # Uluna
    <2>1. /\ AfterTax(a, x) = n
          /\ Tax(a, AfterTax(a, x)) = Lesser(d, TaxCap)
          /\ Dust(a) = Lesser(TaxCap, 2 + e)
      BY <1>7 DEF AfterTax, Tax, TaxDue, compute_denom_tax, Dust
    <2> DEFINE s == R + F
               m == x * F
    <2>2. s \in Nat /\ s > 0 /\ m \in Nat
      BY <1>1, ProductLemma
    <2>3. q \in Nat /\ s * q <= m /\ m < s * q + s
      BY <2>2, DivLemma
    <2>4. q <= x
      <3>1. ASSUME q > x PROVE FALSE
        <4>1. x + 1 <= q /\ s * (x + 1) <= s * q
          BY <2>2, <2>3, <3>1, ProductLemma
        <4>2. s * (x + 1) = s * x + s /\ s * x = R * x + F * x /\ x * F = F * x
              /\ R * x \in Nat
          BY <1>1
        <4> QED BY <1>1, <2>2, <2>3, <4>1, <4>2
      <3> QED BY <2>3, <3>1
    <2>5. held \in Nat /\ held <= TaxCap /\ held <= x - q /\ n \in Nat /\ q <= n
      BY <1>1, <2>3, <2>4 DEF Lesser
    <2>6. n * R \in Nat /\ q * R \in Nat /\ q * R <= n * R
      BY <1>1, <2>3, <2>5, ProductLemma
    <2>7. /\ d \in Nat /\ F * d <= n * R /\ n * R < F * d + F
          /\ c \in Nat /\ F * c <= q * R /\ q * R < F * c + F
      <3> HIDE DEF n, q
      <3> QED BY <1>1, <2>6, DivLemma
    <2>8. c <= d
      <3> HIDE DEF c, d, n, q
      <3>1. ASSUME d + 1 <= c PROVE FALSE
        <4>1. F * (d + 1) <= F * c /\ F * (d + 1) = F * d + F
          BY <1>1, <2>7, <3>1, ProductLemma
        <4> QED BY <1>1, <2>6, <2>7, <4>1
      <3> QED BY <2>7, <3>1
    <2>9. x - q - c <= 2 + e
      <3> HIDE DEF c, d, n, q, e, held
      <3>1. ASSUME q + c + e + 3 <= x PROVE FALSE
        <4>1. (q + c + e + 3) * F <= x * F
          BY <1>1, <1>2, <2>3, <2>7, <3>1, ProductLemma
        <4>2. (q + c + e + 3) * F = F * q + F * c + F * e + F + F + F
          BY <1>1, <1>2, <2>3, <2>7
        <4>3. s * q = q * R + F * q
          BY <1>1, <2>3
        <4>4. /\ F * q \in Nat /\ F * c \in Nat /\ F * e \in Nat
          BY <1>1, <1>2, <2>3, <2>7, ProductLemma
        <4> DEFINE fq == F * q
                   fc == F * c
                   fe == F * e
                   qr == q * R
                   sq == s * q
        <4>5. /\ fq + fc + fe + F + F + F <= m /\ sq = qr + fq /\ m < sq + s
              /\ qr < fc + F /\ R < fe + F /\ s = R + F
              /\ fq \in Nat /\ fc \in Nat /\ fe \in Nat /\ qr \in Nat
          BY <1>2, <2>3, <2>6, <2>7, <4>1, <4>2, <4>3, <4>4
        <4> HIDE DEF fq, fc, fe, qr, sq, m, s, F, R
        <4> QED BY <1>1, <2>2, <4>5
      <3> QED BY <1>2, <2>3, <2>7, <3>1
    <2> HIDE DEF c, d, e, q, held
    <2>10. x - n - Lesser(d, TaxCap) <= Lesser(TaxCap, 2 + e)
      <3>1. x - n = held
        BY <2>5
      <3> HIDE DEF n
      <3> QED BY <1>1, <1>2, <2>3, <2>5, <2>7, <2>8, <2>9, <3>1 DEF Lesser
    <2> QED BY <1>3, <1>4, <2>1, <2>10
  <1> QED BY <1>5, <1>6, <1>7

(***************************************************************************)
(* What the steps of a transaction do.                                     *)
(***************************************************************************)
\* The operation op on the stack becomes msg, for x, all that is there of its offer.
OperationStep(op, to, x, msg) ==
    /\ stack[1].operation = op /\ stack[1].to = to
    /\ op.offer \in Assets /\ op.ask \in Assets /\ x = bal[op.offer][Addr]
    /\ Become(bal, << msg >> \o Tail(stack), call)
    /\ \/ /\ op.native
          /\ msg = [type |-> "MarketSwap", offer |-> op.offer, ask |-> op.ask,
                    amount |-> IF to = Unset THEN x ELSE AfterTax(op.offer, x),
                    to |-> to]
       \/ /\ ~op.native
          /\ \E pair \in PairsOf(op.offer, op.ask) :
                msg = [type |-> "Swap", pair |-> pair, offer |-> op.offer,
                       amount |-> AfterTax(op.offer, x), sender |-> Addr,
                       to |-> to]

LEMMA OperationStepLemma ==
    ASSUME Sweeping, execute_swap_operation
    PROVE  /\ ~Idle /\ stack # << >> /\ stack \in Seq(Messages) /\ bal \in Ledgers
           /\ stack[1].type = "ExecuteSwapOperation"
           /\ \E op \in Operations, to \in Accounts \cup {Unset}, x \in Nat, msg \in Messages :
                 OperationStep(op, to, x, msg)
  <1> DEFINE top == stack[1]
             op == top.operation
             to == top.to
             x == bal[op.offer][Addr]
             market == [type |-> "MarketSwap", offer |-> op.offer, ask |-> op.ask,
                        amount |-> IF to = Unset THEN x ELSE AfterTax(op.offer, x),
                        to |-> to]
             direct(pair) == [type |-> "Swap", pair |-> pair, offer |-> op.offer,
                              amount |-> AfterTax(op.offer, x), sender |-> Addr,
                              to |-> to]
  <1>1. ~Idle /\ top.type = "ExecuteSwapOperation"
    BY DEF execute_swap_operation
  <1>2. stack # << >> /\ stack \in Seq(Messages) /\ bal \in Ledgers
    BY <1>1 DEF Sweeping, Idle
  <1>3. top \in Messages
    BY <1>2
  <1>4. op \in Operations /\ to \in Accounts \cup {Unset}
    <2> HIDE DEF top
    <2> QED BY <1>1, <1>3 DEF Messages, Payouts
  <1>5. op.offer \in Assets /\ op.ask \in Assets
    BY <1>4 DEF Operations
  <1>6. x \in Nat
    BY <1>2, <1>5 DEF Ledgers, Accounts
  <1>7. AfterTax(op.offer, x) \in Nat
    BY <1>6, AfterTaxLemma
  <1>8. x = IF op.native \/ is_native_token(op.offer)
            THEN query_balance(bal, Addr, op.offer)
            ELSE query_token_balance(bal, op.offer, Addr)
    BY DEF query_balance, query_token_balance
  <1>9. \/ op.native /\ Become(bal, << market_swap_msg(op.offer, op.ask, x, to) >>
                                        \o Tail(stack), call)
        \/ ~op.native /\ \E pair \in PairsOf(op.offer, op.ask) :
              Become(bal, << asset_into_swap_msg(pair, op.offer, x, to) >> \o Tail(stack),
                     call)
    <2> HIDE DEF x
    <2> QED BY <1>8 DEF execute_swap_operation
  <1>10. /\ market_swap_msg(op.offer, op.ask, x, to) = market
         /\ \A pair : asset_into_swap_msg(pair, op.offer, x, to) = direct(pair)
    BY DEF market_swap_msg, asset_into_swap_msg
  <1>11. market \in Messages
    <2> DEFINE offer == op.offer
               ask == op.ask
               n == IF to = Unset THEN x ELSE AfterTax(offer, x)
    <2>1. offer \in Assets /\ ask \in Assets /\ n \in Nat
      BY <1>5, <1>6, <1>7
    <2>2. market = [type |-> "MarketSwap", offer |-> offer, ask |-> ask, amount |-> n,
                    to |-> to]
      OBVIOUS
    <2> HIDE DEF offer, ask, n, to, market
    <2>3. market \in [type : {"MarketSwap"}, offer : Assets, ask : Assets, amount : Nat,
                      to : Accounts \cup {Unset}]
      BY <1>4, <2>1, <2>2
    <2> QED BY <2>3 DEF Messages
  <1>12. ASSUME NEW pair \in PairsOf(op.offer, op.ask) PROVE direct(pair) \in Messages
    <2> DEFINE offer == op.offer
               n == AfterTax(offer, x)
               m == direct(pair)
    <2>1. offer \in Assets /\ n \in Nat
      BY <1>5, <1>7
    <2>2. m = [type |-> "Swap", pair |-> pair, offer |-> offer, amount |-> n,
               sender |-> Addr, to |-> to]
      OBVIOUS
    <2>3. pair \in Pairs /\ offer \in pair_assets[pair]
      BY DEF PairsOf
    <2> HIDE DEF offer, n, to, direct, m
    <2>4. m \in [type : {"Swap"}, pair : Pairs, offer : Assets, amount : Nat,
                 sender : Users \cup {Addr}, to : Accounts \cup {Unset}]
      BY <1>4, <2>1, <2>2, <2>3
    <2>5. m.offer \in pair_assets[m.pair]
      BY <2>2, <2>3
    <2> QED BY <2>4, <2>5 DEF Messages, m
  <1> HIDE DEF x, op, to, market, direct
  <1>13. CASE op.native
    <2>1. Become(bal, << market >> \o Tail(stack), call)
      BY <1>9, <1>10, <1>13
    <2> HIDE DEF top
    <2> QED BY <1>1, <1>2, <1>4, <1>5, <1>6, <1>11, <1>13, <2>1
        DEF top, op, to, x, market, OperationStep
  <1>14. CASE ~op.native
    <2>1. PICK pair \in PairsOf(op.offer, op.ask) :
             Become(bal, << direct(pair) >> \o Tail(stack), call)
      BY <1>9, <1>10, <1>14
    <2>2. direct(pair) \in Messages
      BY <1>12
    <2>3. direct(pair) = [type |-> "Swap", pair |-> pair, offer |-> op.offer,
                          amount |-> AfterTax(op.offer, x), sender |-> Addr, to |-> to]
      BY DEF direct
    <2> QED BY <1>1, <1>2, <1>4, <1>5, <1>6, <1>14, <2>1, <2>2, <2>3
        DEF top, op, to, x, OperationStep
  <1> QED BY <1>13, <1>14

\* The pair takes n of the offer, and answers with t, at most one payout, of which
\* the tax is held back.
SwapStep(pair, offer, ask, n, sender, to, r, b, t) ==
    /\ stack[1].pair = pair /\ stack[1].offer = offer /\ stack[1].amount = n
    /\ stack[1].sender = sender
    /\ to = IF stack[1].to = Unset THEN sender ELSE stack[1].to
    /\ ask = Other(pair, offer) /\ ask # offer
    /\ pair_assets[pair] = {offer, ask}
    /\ CanSwap(bal[offer][pair], bal[ask][pair], n)
    /\ r = compute_swap(bal[offer][pair], bal[ask][pair], n).return_amount
    /\ Become(b, t \o Tail(stack), call)
    /\ \A a \in Assets : a # offer => b[a] = bal[a]
    /\ \A c \in Accounts \ {sender, pair} : b[offer][c] = bal[offer][c]
    /\ b[offer][sender] = bal[offer][sender] - n - Tax(offer, n)
    /\ IF r = 0 THEN t = << >>
       ELSE /\ Len(t) = 1
            /\ t[1].type \in Payouts /\ t[1].asset = ask /\ t[1].from = pair
            /\ t[1].to = to /\ t[1].amount = AfterTax(ask, r)

LEMMA SwapStepLemma ==
    ASSUME Sweeping, swap
    PROVE  /\ ~Idle /\ stack # << >> /\ stack \in Seq(Messages) /\ bal \in Ledgers
           /\ stack[1].type = "Swap"
           /\ \E pair \in Pairs, offer \in Assets, ask \in Assets, n \in Nat,
                 sender \in Users \cup {Addr}, to \in Accounts, r \in Nat,
                 b \in Ledgers, t \in Seq(Messages) :
                 SwapStep(pair, offer, ask, n, sender, to, r, b, t)
  <1> DEFINE m == stack[1]
             pair == m.pair
             offer == m.offer
             sender == m.sender
             n == m.amount
             ask == Other(pair, offer)
             o == bal[offer][pair]
             q == bal[ask][pair]
             r == compute_swap(o, q, n).return_amount
             b == Paid(bal, offer, sender, pair, n)
             to == IF m.to = Unset THEN sender ELSE m.to
             answer == into_msg(ask, r, pair, to)
             t == IF r = 0 THEN << >> ELSE << answer >>
  <1>1. /\ ~Idle /\ m.type = "Swap" /\ n + Tax(offer, n) <= bal[offer][sender]
        /\ CanSwap(o, q, n)
        /\ Become(b, t \o Tail(stack), call)
    BY DEF swap, CanPay, Answer
  <1>2. stack # << >> /\ stack \in Seq(Messages) /\ bal \in Ledgers
    BY <1>1 DEF Sweeping, Idle
  <1>3. m \in Messages
    BY <1>2
  <1>4. /\ pair \in Pairs /\ offer \in pair_assets[pair] /\ n \in Nat
        /\ sender \in Users \cup {Addr} /\ m.to \in Accounts \cup {Unset}
    <2> HIDE DEF m
    <2> QED BY <1>1, <1>3 DEF Messages, Payouts
  <1>5. /\ offer \in Assets /\ ask \in Assets /\ ask # offer
        /\ pair_assets[pair] = {offer, ask}
        /\ o \in Nat /\ q \in Nat
    <2> HIDE DEF pair, offer
    <2> QED BY <1>2, <1>4, SidesLemma
  <1>6. /\ pair \in Accounts /\ sender \in Accounts /\ to \in Accounts /\ pair # sender
    <2> HIDE DEF m
    <2> QED BY <1>4, RouterAssumption DEF Accounts
  <1> HIDE DEF m, pair, offer, sender, n, ask, to
  <1>7. r \in Nat
    <2> DEFINE gross == GrossReturn(o, q, n)
    <2>1. r = gross - Commission(gross)
      BY DEF compute_swap
    <2>2. gross \in Nat
      <3>1. o > 0
        BY <1>1 DEF CanSwap
      <3> HIDE DEF o, q
      <3> QED BY <1>4, <1>5, <3>1, GrossLemma
    <2> HIDE DEF gross, r
    <2> QED BY <2>1, <2>2, CommissionLemma
  <1> HIDE DEF r
  <1>8. /\ answer.type \in Payouts /\ answer.asset = ask /\ answer.from = pair
        /\ answer.to = to /\ answer.amount = AfterTax(ask, r) /\ answer \in Messages
    <2> DEFINE type == IF is_native_token(ask) THEN "BankSend" ELSE "Transfer"
               x == AfterTax(ask, r)
    <2>1. is_native_token(ask) => deduct_tax(ask, r) = AfterTax(ask, r)
      BY DEF deduct_tax, compute_tax, AfterTax, compute_denom_tax
    <2>2. answer = [type |-> type, asset |-> ask, from |-> pair, to |-> to, amount |-> x]
      BY <2>1 DEF into_msg, Msg, AfterTax
    <2>3. x \in Nat /\ type \in Payouts
      BY <1>7, AfterTaxLemma DEF Payouts
    <2> HIDE DEF type, x, answer
    <2>4. answer \in [type : Payouts, asset : Assets, from : Pairs, to : Accounts,
                      amount : Nat]
      BY <1>4, <1>5, <1>6, <2>2, <2>3
    <2> QED BY <2>2, <2>3, <2>4 DEF Messages, x
  <1> HIDE DEF answer
  <1>9. /\ t \in Seq(Messages)
        /\ IF r = 0 THEN t = << >> ELSE Len(t) = 1 /\ t[1] = answer
    <2>1. CASE r = 0
      BY <2>1
    <2>2. CASE r # 0
      BY <1>8, <2>2
    <2> QED BY <2>1, <2>2
  <1>10. /\ b \in Ledgers
         /\ \A a \in Assets : a # offer => b[a] = bal[a]
         /\ \A c \in Accounts \ {sender, pair} : b[offer][c] = bal[offer][c]
         /\ b[offer][sender] = bal[offer][sender] - n - Tax(offer, n)
    <2>1. n + Tax(offer, n) <= bal[offer][sender]
      BY <1>1
    <2>2. /\ b \in Ledgers
          /\ \A a \in Assets : a # offer => b[a] = bal[a]
          /\ \A c \in Accounts :
                /\ c # sender => b[offer][c] = bal[offer][c] + (IF c = pair THEN n ELSE 0)
                /\ c = sender => b[offer][c] = bal[offer][c] - n - Tax(offer, n)
                                                   + (IF c = pair THEN n ELSE 0)
      BY <1>2, <1>4, <1>5, <1>6, <2>1, PaidLemma
    <2> HIDE DEF b
    <2>3. \A c \in Accounts : bal[offer][c] \in Nat
      BY <1>2, <1>5 DEF Ledgers
    <2>4. Tax(offer, n) \in Nat
      BY <1>4, DueLemma
    <2> QED BY <1>4, <1>6, <2>2, <2>3, <2>4
  <1> HIDE DEF b, t, o, q
  <1>11. /\ m.pair = pair /\ m.offer = offer /\ m.amount = n /\ m.sender = sender
         /\ to = IF m.to = Unset THEN sender ELSE m.to
         /\ ask = Other(pair, offer)
         /\ CanSwap(bal[offer][pair], bal[ask][pair], n)
         /\ r = compute_swap(bal[offer][pair], bal[ask][pair], n).return_amount
    BY <1>1 DEF m, pair, offer, sender, n, ask, to, r, o, q
  <1>12. IF r = 0 THEN t = << >>
         ELSE /\ Len(t) = 1
              /\ t[1].type \in Payouts /\ t[1].asset = ask /\ t[1].from = pair
              /\ t[1].to = to /\ t[1].amount = AfterTax(ask, r)
    BY <1>8, <1>9
  <1>13. ~Idle /\ m.type = "Swap" /\ Become(b, t \o Tail(stack), call)
    BY <1>1 DEF b, t
  <1>14. \E pair_1 \in Pairs, offer_1 \in Assets, ask_1 \in Assets, n_1 \in Nat,
            sender_1 \in Users \cup {Addr}, to_1 \in Accounts, r_1 \in Nat,
            b_1 \in Ledgers, t_1 \in Seq(Messages) :
               SwapStep(pair_1, offer_1, ask_1, n_1, sender_1, to_1, r_1, b_1, t_1)
    <2> USE <1>4, <1>5, <1>6, <1>7, <1>9, <1>10
    <2> WITNESS pair \in Pairs, offer \in Assets, ask \in Assets, n \in Nat,
                sender \in Users \cup {Addr}, to \in Accounts, r \in Nat,
                b \in Ledgers, t \in Seq(Messages)
    <2> QED BY <1>5, <1>10, <1>11, <1>12, <1>13 DEF m, SwapStep
  <1> QED BY <1>1, <1>2, <1>14 DEF m

\* A payout is taken from a pair and given to its receiver.
PayStep(asset, pair, to, n, b) ==
    /\ stack[1].asset = asset /\ stack[1].from = pair
    /\ stack[1].to = to /\ stack[1].amount = n
    /\ Become(b, << >> \o Tail(stack), call)
    /\ \A a \in Assets : a # asset => b[a] = bal[a]
    /\ \A c \in Accounts \ {pair} :
          b[asset][c] = bal[asset][c] + (IF c = to THEN n ELSE 0)

LEMMA PayStepLemma ==
    ASSUME Sweeping, pay
    PROVE  /\ ~Idle /\ stack # << >> /\ stack \in Seq(Messages) /\ bal \in Ledgers
           /\ stack[1].type \in Payouts
           /\ \E asset \in Assets, pair \in Pairs, to \in Accounts, n \in Nat, b \in Ledgers :
                 PayStep(asset, pair, to, n, b)
  <1> DEFINE m == stack[1]
             asset == m.asset
             pair == m.from
             to == m.to
             n == m.amount
             b == Paid(bal, asset, pair, to, n)
  <1>1. /\ ~Idle /\ m.type \in Payouts
        /\ n + Tax(asset, n) <= bal[asset][pair]
        /\ Become(b, Tail(stack), call)
    BY DEF pay, CanPay, Payouts
  <1>2. stack # << >> /\ stack \in Seq(Messages) /\ bal \in Ledgers
    BY <1>1 DEF Sweeping, Idle
  <1>3. m \in Messages
    BY <1>2
  <1>4. /\ asset \in Assets /\ pair \in Pairs /\ to \in Accounts /\ n \in Nat
        /\ pair \in Accounts
    <2> HIDE DEF m
    <2> QED BY <1>1, <1>3 DEF Messages, Payouts, Accounts
  <1>5. /\ m.asset = asset /\ m.from = pair /\ m.to = to /\ m.amount = n
    OBVIOUS
  <1> HIDE DEF m, asset, pair, to, n
  <1>6. /\ b \in Ledgers
        /\ \A a \in Assets : a # asset => b[a] = bal[a]
        /\ \A c \in Accounts \ {pair} :
              b[asset][c] = bal[asset][c] + (IF c = to THEN n ELSE 0)
    BY <1>1, <1>2, <1>4, PaidLemma
  <1> HIDE DEF b
  <1>7. Become(b, << >> \o Tail(stack), call)
    <2>1. Tail(stack) \in Seq(Messages)
      BY <1>2, TailLemma
    <2>2. << >> \o Tail(stack) = Tail(stack)
      BY <2>1
    <2> QED BY <1>1, <2>2
  <1>8. \E asset_1 \in Assets, pair_1 \in Pairs, to_1 \in Accounts, n_1 \in Nat,
           b_1 \in Ledgers :
              PayStep(asset_1, pair_1, to_1, n_1, b_1)
    <2> USE <1>4, <1>6
    <2> WITNESS asset \in Assets, pair \in Pairs, to \in Accounts, n \in Nat, b \in Ledgers
    <2> QED BY <1>5, <1>7 DEF m, PayStep
  <1> QED BY <1>1, <1>2, <1>8 DEF m

\* The ledger b is bal but for what the router has of offer and to has of ask.
Exchanged(b, offer, ask, to, burnt, minted) ==
    \A a \in Assets, c \in Accounts :
        b[a][c] = bal[a][c] - (IF a = offer /\ c = Addr THEN burnt ELSE 0)
                            + (IF a = ask /\ c = to THEN minted ELSE 0)

\* The market burns the offer and mints what it returns.
MarketStep(offer, ask, told, n, to, tax, minted, b) ==
    /\ stack[1].offer = offer /\ stack[1].ask = ask
    /\ stack[1].to = told /\ stack[1].amount = n
    /\ to = IF told = Unset THEN Addr ELSE told
    /\ tax = IF told = Unset THEN 0 ELSE Tax(offer, n)
    /\ minted = MarketReturn(n)
    /\ Become(b, << >> \o Tail(stack), call)
    /\ Exchanged(b, offer, ask, to, n + tax, minted)

LEMMA MarketStepLemma ==
    ASSUME Sweeping, market_swap
    PROVE  /\ ~Idle /\ stack # << >> /\ stack \in Seq(Messages) /\ bal \in Ledgers
           /\ stack[1].type = "MarketSwap"
           /\ \E offer \in Assets, ask \in Assets, told \in Accounts \cup {Unset}, n \in Nat,
                 to \in Accounts, tax \in Nat, minted \in Nat, b \in Ledgers :
                 MarketStep(offer, ask, told, n, to, tax, minted, b)
  <1> DEFINE m == stack[1]
             offer == m.offer
             ask == m.ask
             told == m.to
             n == m.amount
             to == IF told = Unset THEN Addr ELSE told
             tax == IF told = Unset THEN 0 ELSE Tax(offer, n)
             minted == MarketReturn(n)
             b == Minting(bal, offer, ask, to, n, tax, minted)
  <1>1. /\ ~Idle /\ m.type = "MarketSwap" /\ n + tax <= bal[offer][Addr]
        /\ Become(b, Tail(stack), call)
    BY DEF market_swap, Minting
  <1>2. stack # << >> /\ stack \in Seq(Messages) /\ bal \in Ledgers
    BY <1>1 DEF Sweeping, Idle
  <1>3. m \in Messages
    BY <1>2
  <1>4. offer \in Assets /\ ask \in Assets /\ n \in Nat /\ told \in Accounts \cup {Unset}
    <2> HIDE DEF m
    <2> QED BY <1>1, <1>3 DEF Messages, Payouts
  <1>5. m.offer = offer /\ m.ask = ask /\ m.to = told /\ m.amount = n
    OBVIOUS
  <1> HIDE DEF m, offer, ask, told, n
  <1>6. tax \in Nat /\ to \in Accounts
    BY <1>4, DueLemma DEF Accounts
  <1>7. minted \in Nat
    <2>1. MarketRate \in Nat
      BY RouterAssumption, AssetAssumption
    <2>2. n * MarketRate \in Nat
      BY <1>4, <2>1, ProductLemma
    <2> QED BY <2>2, AssetAssumption, DivLemma DEF MarketReturn, Scaled
  <1>8. b \in Ledgers /\ Exchanged(b, offer, ask, to, n + tax, minted)
    <2> HIDE DEF tax, to, minted
    <2> QED BY <1>1, <1>2, <1>4, <1>6, <1>7, MintLemma DEF Exchanged
  <1> HIDE DEF b
  <1>9. Become(b, << >> \o Tail(stack), call)
    <2>1. Tail(stack) \in Seq(Messages)
      BY <1>2, TailLemma
    <2>2. << >> \o Tail(stack) = Tail(stack)
      BY <2>1
    <2> QED BY <1>1, <2>2
  <1>10. \E offer_1 \in Assets, ask_1 \in Assets, told_1 \in Accounts \cup {Unset},
            n_1 \in Nat, to_1 \in Accounts, tax_1 \in Nat, minted_1 \in Nat, b_1 \in Ledgers :
              MarketStep(offer_1, ask_1, told_1, n_1, to_1, tax_1, minted_1, b_1)
    <2> USE <1>4, <1>6, <1>7, <1>8
    <2> HIDE DEF to, tax, minted
    <2> WITNESS offer \in Assets, ask \in Assets, told \in Accounts \cup {Unset}, n \in Nat,
                to \in Accounts, tax \in Nat, minted \in Nat, b \in Ledgers
    <2> QED BY <1>5, <1>7, <1>9 DEF to, tax, minted, m, MarketStep
  <1> QED BY <1>1, <1>2, <1>10 DEF m

(***************************************************************************)
(* What the steps leave of an asset.                                       *)
(***************************************************************************)
\* An operation takes all that is there of its offer.
LEMMA SweepOperationLemma ==
    ASSUME Sweeping, execute_swap_operation
    PROVE  Swept
  <1>1. /\ ~Idle /\ stack # << >> /\ stack \in Seq(Messages) /\ bal \in Ledgers
        /\ stack[1].type = "ExecuteSwapOperation"
    BY OperationStepLemma
  <1>2. PICK op \in Operations, to \in Accounts \cup {Unset}, x \in Nat, msg \in Messages :
           OperationStep(op, to, x, msg)
    BY OperationStepLemma
  <1>3. /\ Takes(bal, msg, op.offer)
        /\ \A a \in Assets : Brings(msg, a) => a = op.ask /\ to \in {Unset, Addr}
    <2>1. CASE op.native
      BY <1>2, <2>1 DEF Takes, Brings, Payouts, OperationStep
    <2>2. CASE ~op.native
      <3>1. PICK pair \in PairsOf(op.offer, op.ask) :
               msg = [type |-> "Swap", pair |-> pair, offer |-> op.offer,
                      amount |-> AfterTax(op.offer, x), sender |-> Addr, to |-> to]
        BY <1>2, <2>2 DEF OperationStep
      <3>2. Other(pair, op.offer) = op.ask
        <4>1. pair \in Pairs /\ pair_assets[pair] = {op.offer, op.ask}
          BY DEF PairsOf
        <4>2. /\ pair_assets[pair] = {op.offer, Other(pair, op.offer)}
              /\ Other(pair, op.offer) # op.offer
          BY <4>1, SidesLemma
        <4> QED BY <4>1, <4>2
      <3> QED BY <1>2, <3>1, <3>2 DEF Takes, Brings, Payouts, OperationStep
    <2> QED BY <2>1, <2>2
  <1> DEFINE t == << msg >>
  <1>4. t \in Seq(Messages) /\ Len(t) <= 1 /\ t # << >> /\ t[1] = msg
    OBVIOUS
  <1>5. Become(bal, t \o Tail(stack), call)
    BY <1>2 DEF OperationStep
  <1> HIDE DEF t
  <1>6. ASSUME NEW a \in Assets
        PROVE  /\ Brings(msg, a) => Brings(stack[1], a)
               /\ \/ Takes(bal, msg, a)
                  \/ /\ ~Offers(stack[1], a) /\ ~Takes(bal, stack[1], a)
                     /\ bal[a][Addr] <= bal[a][Addr]
    <2>1. Brings(msg, a) => Brings(stack[1], a)
      BY <1>1, <1>2, <1>3 DEF Brings, OperationStep
    <2>2. a # op.offer => ~Offers(stack[1], a) /\ ~Takes(bal, stack[1], a)
      BY <1>1, <1>2 DEF Offers, Takes, OperationStep
    <2>3. bal[a][Addr] \in Nat
      BY <1>1 DEF Ledgers, Accounts
    <2> QED BY <1>3, <2>1, <2>2, <2>3
  <1> QED BY <1>1, <1>4, <1>5, <1>6, SweepLemma

\* The check leaves everything as it is.
LEMMA SweepCheckLemma ==
    ASSUME Sweeping, assert_minium_receive
    PROVE  Swept
  <1>1. /\ ~Idle /\ stack[1].type = "AssertMinimumReceive" /\ bal \in Ledgers
        /\ Become(bal, Tail(stack), call) /\ stack \in Seq(Messages) /\ stack # << >>
    BY DEF assert_minium_receive, Sweeping, Idle
  <1> DEFINE t == << >>
  <1>2. t \in Seq(Messages) /\ Len(t) <= 1 /\ Become(bal, t \o Tail(stack), call)
    <2>1. Tail(stack) \in Seq(Messages)
      BY <1>1, TailLemma
    <2>2. t \o Tail(stack) = Tail(stack)
      BY <2>1
    <2> QED BY <1>1, <2>2
  <1>3. ASSUME NEW a \in Assets
        PROVE  ~Offers(stack[1], a) /\ ~Takes(bal, stack[1], a) /\ bal[a][Addr] <= bal[a][Addr]
    <2>1. bal[a][Addr] \in Nat
      BY <1>1 DEF Ledgers, Accounts
    <2> QED BY <1>1, <2>1 DEF Offers, Takes
  <1>4. t = << >>
    OBVIOUS
  <1> HIDE DEF t
  <1> QED BY <1>1, <1>2, <1>3, <1>4, SweepLemma

\* A pair takes all that the router offers of it, or some that nobody counts on.
LEMMA SweepSwapLemma ==
    ASSUME Sweeping, swap
    PROVE  Swept
  <1>1. /\ ~Idle /\ stack # << >> /\ stack \in Seq(Messages) /\ bal \in Ledgers
        /\ stack[1].type = "Swap"
    BY SwapStepLemma
  <1>2. PICK pair \in Pairs, offer \in Assets, ask \in Assets, n \in Nat,
             sender \in Users \cup {Addr}, to \in Accounts, r \in Nat,
             b \in Ledgers, t \in Seq(Messages) :
           SwapStep(pair, offer, ask, n, sender, to, r, b, t)
    BY SwapStepLemma
  <1>3. Len(t) <= 1
    <2>1. t = << >> \/ Len(t) = 1
      BY <1>2 DEF SwapStep
    <2>2. t = << >> => Len(t) = 0
      OBVIOUS
    <2> QED BY <2>1, <2>2
  <1>4. Addr \in Accounts /\ Addr # pair
    BY RouterAssumption DEF Accounts
  <1>5. ASSUME NEW a \in Assets, t # << >>, Brings(t[1], a) PROVE Brings(stack[1], a)
    <2>1. a = ask /\ to = Addr
      BY <1>2, <1>5 DEF Brings, Payouts, SwapStep
    <2> QED BY <1>1, <1>2, <2>1 DEF Brings, SwapStep
  <1>6. ASSUME NEW a \in Assets
        PROVE  \/ b[a][Addr] <= Dust(a)
               \/ /\ ~Offers(stack[1], a) /\ ~Takes(bal, stack[1], a)
                  /\ b[a][Addr] <= bal[a][Addr]
    <2>1. ~Offers(stack[1], a)
      BY <1>1 DEF Offers
    <2>2. bal[a][Addr] \in Nat
      BY <1>1 DEF Ledgers, Accounts
    <2>3. CASE ~(a = offer /\ sender = Addr)
      <3>1. ~Takes(bal, stack[1], a)
        BY <1>1, <1>2, <2>3 DEF Takes, SwapStep
      <3>2. b[a][Addr] = bal[a][Addr]
        BY <1>2, <1>4, <2>3 DEF SwapStep
      <3> QED BY <2>1, <2>2, <3>1, <3>2
    <2>4. CASE a = offer /\ sender = Addr
      <3>1. b[a][Addr] = bal[a][Addr] - n - Tax(a, n)
        BY <1>2, <2>4 DEF SwapStep
      <3>2. Tax(a, n) \in Nat
        BY DueLemma
      <3>3. CASE Takes(bal, stack[1], a)
        <4>1. n = AfterTax(a, bal[a][Addr])
          BY <1>1, <1>2, <3>3 DEF Takes, SwapStep
        <4> QED BY <2>2, <3>1, <4>1, DustLemma
      <3>4. CASE ~Takes(bal, stack[1], a)
        <4>1. b[a][Addr] <= bal[a][Addr]
          BY <2>2, <3>1, <3>2
        <4> QED BY <2>1, <3>4, <4>1
      <3> QED BY <3>3, <3>4
    <2> QED BY <2>3, <2>4
  <1> QED BY <1>1, <1>2, <1>3, <1>5, <1>6, SweepLemma DEF SwapStep

\* What a payout brings the router is still offered.
LEMMA SweepPayLemma ==
    ASSUME Sweeping, pay
    PROVE  Swept
  <1>1. /\ ~Idle /\ stack # << >> /\ stack \in Seq(Messages) /\ bal \in Ledgers
        /\ stack[1].type \in Payouts
    BY PayStepLemma
  <1>2. PICK asset \in Assets, pair \in Pairs, to \in Accounts, n \in Nat, b \in Ledgers :
           PayStep(asset, pair, to, n, b)
    BY PayStepLemma
  <1>3. Addr \in Accounts \ {pair}
    BY RouterAssumption DEF Accounts
  <1>4. ASSUME NEW a \in Assets
        PROVE  \/ Brings(stack[1], a)
               \/ /\ ~Offers(stack[1], a) /\ ~Takes(bal, stack[1], a)
                  /\ b[a][Addr] <= bal[a][Addr]
    <2>1. ~Offers(stack[1], a) /\ ~Takes(bal, stack[1], a)
      BY <1>1 DEF Offers, Takes, Payouts
    <2>2. bal[a][Addr] \in Nat
      BY <1>1, <1>3 DEF Ledgers
    <2>3. a = asset /\ to = Addr => Brings(stack[1], a)
      BY <1>1, <1>2 DEF Brings, PayStep
    <2>4. ~(a = asset /\ to = Addr) => b[a][Addr] = bal[a][Addr]
      BY <1>2, <1>3, <2>2 DEF PayStep
    <2> QED BY <2>1, <2>2, <2>3, <2>4
  <1> DEFINE t == << >>
  <1>5. t \in Seq(Messages) /\ Len(t) <= 1 /\ t = << >> /\ Become(b, t \o Tail(stack), call)
    BY <1>2 DEF PayStep
  <1> HIDE DEF t
  <1> QED BY <1>1, <1>4, <1>5, SweepLemma

\* The market takes all that the router offers of it, but for the tax.
LEMMA SweepMarketLemma ==
    ASSUME Sweeping, market_swap
    PROVE  Swept
  <1>1. /\ ~Idle /\ stack # << >> /\ stack \in Seq(Messages) /\ bal \in Ledgers
        /\ stack[1].type = "MarketSwap"
    BY MarketStepLemma
  <1>2. PICK offer \in Assets, ask \in Assets, told \in Accounts \cup {Unset}, n \in Nat,
             to \in Accounts, tax \in Nat, minted \in Nat, b \in Ledgers :
           MarketStep(offer, ask, told, n, to, tax, minted, b)
    BY MarketStepLemma
  <1>3. Addr \in Accounts
    BY DEF Accounts
  <1>4. ASSUME NEW a \in Assets
        PROVE  \/ b[a][Addr] <= Dust(a)
               \/ Brings(stack[1], a)
               \/ /\ ~Offers(stack[1], a) /\ ~Takes(bal, stack[1], a)
                  /\ b[a][Addr] <= bal[a][Addr]
    <2> DEFINE x == bal[a][Addr]
    <2>1. /\ x \in Nat
          /\ b[a][Addr] = x - (IF a = offer THEN n + tax ELSE 0)
                            + (IF a = ask /\ Addr = to THEN minted ELSE 0)
      BY <1>1, <1>2, <1>3 DEF Ledgers, Exchanged, MarketStep
    <2>2. ~Offers(stack[1], a)
      BY <1>1 DEF Offers
    <2>3. CASE a = ask /\ to = Addr
      BY <1>1, <1>2, <2>3 DEF Brings, MarketStep
    <2>4. CASE ~(a = ask /\ to = Addr) /\ a # offer
      <3>1. b[a][Addr] = x
        BY <2>1, <2>4
      <3>2. ~Takes(bal, stack[1], a)
        BY <1>1, <1>2, <2>4 DEF Takes, MarketStep
      <3> QED BY <2>1, <2>2, <3>1, <3>2
    <2>5. CASE ~(a = ask /\ to = Addr) /\ a = offer
      <3>1. b[a][Addr] = x - (n + tax)
        BY <2>1, <2>5
      <3>2. CASE Takes(bal, stack[1], a)
        <4>1. n = IF told = Unset THEN x ELSE AfterTax(a, x)
          BY <1>1, <1>2, <3>2 DEF Takes, MarketStep
        <4>2. CASE told = Unset
          <5>1. b[a][Addr] = 0
            BY <1>2, <2>1, <3>1, <4>1, <4>2 DEF MarketStep
          <5> QED BY <5>1, DustLemma
        <4>3. CASE told # Unset
          <5>1. n = AfterTax(a, x) /\ tax = Tax(a, n)
            BY <1>2, <2>5, <4>1, <4>3 DEF MarketStep
          <5> HIDE DEF x
          <5> QED BY <2>1, <3>1, <5>1, DustLemma
        <4> QED BY <4>2, <4>3
      <3>3. CASE ~Takes(bal, stack[1], a)
        <4>1. b[a][Addr] <= x
          BY <2>1, <3>1
        <4> QED BY <2>2, <3>3, <4>1
      <3> QED BY <3>2, <3>3
    <2> QED BY <2>3, <2>4, <2>5
  <1> DEFINE t == << >>
  <1>5. t \in Seq(Messages) /\ Len(t) <= 1 /\ t = << >> /\ Become(b, t \o Tail(stack), call)
    BY <1>2 DEF MarketStep
  <1> HIDE DEF t
  <1> QED BY <1>1, <1>4, <1>5, SweepLemma

\* On a route that is accepted, what is asked for is the target or offered later.
LEMMA AcceptedLemma ==
    ASSUME NEW operations \in Seq(Operations), operations # << >>,
           assert_operations(operations), NEW k \in 1..Len(operations),
           operations[k].ask # get_target_asset_info(operations)
    PROVE  \E l \in 1..Len(operations) : k < l /\ operations[l].offer = operations[k].ask
  <1> DEFINE n == Len(operations)
             last == {i \in DOMAIN operations :
                         \A l \in DOMAIN operations :
                             l > i => operations[l].offer # operations[i].ask}
             left == LeftOver(operations)
             asks == [i \in 1..n |-> operations[i].ask]
             asked == {operations[i].ask : i \in 1..n}
  <1>1. n \in Nat /\ n \in 1..n /\ DOMAIN operations = 1..n
    OBVIOUS
  <1>2. left = {operations[i].ask : i \in last}
    BY DEF LeftOver
  <1>3. IsFiniteSet(left)
    <2>1. /\ asks \in Seq(asked)
          /\ Len(asks) = n
          /\ \A x \in asked : \E i \in 1..n : asks[i] = x
      BY <1>1
    <2>2. IsFiniteSet(asked)
      <3> HIDE DEF asks, asked, n
      <3> QED BY <2>1 DEF IsFiniteSet
    <2>3. left \in SUBSET asked
      <3>1. last \subseteq 1..n
        BY <1>1
      <3> HIDE DEF last, left, n
      <3> QED BY <1>2, <3>1
    <2> HIDE DEF left, asked
    <2> QED BY <2>2, <2>3, FS_Subset
  <1>4. PICK a : left = {a}
    BY <1>3, FS_Singleton DEF assert_operations
  <1>5. n \in last
    BY <1>1
  <1>6. a = operations[n].ask
    <2> HIDE DEF last, left
    <2> QED BY <1>2, <1>4, <1>5
  <1>7. k \notin last
    <2> HIDE DEF last, left
    <2> QED BY <1>2, <1>4, <1>6 DEF get_target_asset_info
  <1>8. k \in 1..n
    OBVIOUS
  <1> QED BY <1>1, <1>7, <1>8

\* A route that is accepted, or straight, clears its assets from the start.
LEMMA RouteLemma ==
    ASSUME NEW b \in Ledgers, NEW funds \in [Assets -> Nat],
           NEW operations \in Seq(Operations), operations # << >>,
           assert_operations(operations), NEW minimum_receive, NEW to \in Accounts,
           NEW out \in Seq(Messages), Len(operations) <= Len(out),
           \A i \in 1..Len(out) :
               IF i <= Len(operations)
               THEN out[i] = ExecuteSwapOperation(operations[i],
                                 IF i = Len(operations) THEN to ELSE Unset)
               ELSE out[i].type = "AssertMinimumReceive"
    PROVE  AllCleared(b, out, [operations |-> operations, funds |-> funds,
                               minimum |-> minimum_receive, to |-> to, start |-> b])
  <1> DEFINE c == [operations |-> operations, funds |-> funds,
                   minimum |-> minimum_receive, to |-> to, start |-> b]
             n == Len(operations)
             target == get_target_asset_info(operations)
  <1>1. /\ c.operations = operations /\ c.funds = funds /\ c.to = to /\ c.start = b
        /\ n \in Nat /\ n \in 1..n /\ Len(out) \in Nat /\ n <= Len(out)
        /\ target = operations[n].ask
    BY DEF get_target_asset_info
  <1>2. ASSUME NEW i \in 1..n
        PROVE  /\ i \in 1..Len(out)
               /\ out[i].type = "ExecuteSwapOperation" /\ out[i].operation = operations[i]
               /\ out[i].to = IF i = n THEN to ELSE Unset
    <2> DEFINE told == IF i = n THEN to ELSE Unset
    <2>1. i \in 1..Len(out) /\ i <= n
      <3> HIDE DEF n
      <3> QED BY <1>1
    <2>2. out[i] = ExecuteSwapOperation(operations[i], told)
      BY <2>1
    <2> HIDE DEF told
    <2>3. /\ out[i].type = "ExecuteSwapOperation" /\ out[i].operation = operations[i]
          /\ out[i].to = told
      BY <2>2 DEF ExecuteSwapOperation
    <2> QED BY <2>1, <2>3 DEF told
  <1>3. ASSUME NEW a, NEW i \in 1..Len(out), Brings(out[i], a)
        PROVE  i \in 1..n /\ operations[i].ask = a /\ (i = n => to = Addr)
    <2>1. CASE i <= n
      <3>1. i \in 1..n
        BY <1>1, <2>1
      <3>2. to # Unset
        BY RouterAssumption
      <3> QED BY <1>2, <1>3, <3>1, <3>2 DEF Brings, Payouts
    <2>2. CASE i > n
      BY <1>1, <1>3, <2>2 DEF Brings, Payouts
    <2> QED BY <1>1, <2>1, <2>2
  <1>4. ASSUME NEW a, NEW j \in 1..n, operations[j].offer = a
        PROVE  j \in 1..Len(out) /\ Offers(out[j], a)
    BY <1>2, <1>4 DEF Offers
  <1>5. ASSUME NEW a, NEW i \in 1..n, operations[i].ask = a, a # target
        PROVE  \E j \in 1..n : i < j /\ operations[j].offer = a
    BY <1>5, AcceptedLemma
  <1> HIDE DEF c, n, target
  <1>6. ASSUME NEW a \in Assets, a # target, NEW k \in 1..n,
               a \in {operations[k].offer, operations[k].ask}
        PROVE  Cleared(b, out, a)
    <2>1. \E j \in 1..Len(out) : Offers(out[j], a)
      <3>1. \E j \in 1..n : operations[j].offer = a
        BY <1>5, <1>6
      <3> QED BY <1>4, <3>1
    <2>2. ASSUME NEW i \in 1..Len(out), Brings(out[i], a)
          PROVE  \E j \in 1..Len(out) : i < j /\ Offers(out[j], a)
      <3>1. i \in 1..n /\ operations[i].ask = a
        BY <1>3, <2>2
      <3>2. PICK j \in 1..n : i < j /\ operations[j].offer = a
        BY <1>5, <1>6, <3>1
      <3> QED BY <1>4, <3>2
    <2> QED BY <2>1, <2>2 DEF Cleared
  <1>7. ASSUME NEW a \in Assets, Straight(c), Fresh(c)
        PROVE  Cleared(b, out, a)
    <2>1. /\ funds[a] > 0 <=> a = operations[1].offer
          /\ \A k \in 1..n - 1 : operations[k].ask = operations[k + 1].offer
          /\ b[a][Addr] = funds[a] /\ to \in Users
      BY <1>1, <1>7 DEF Straight, Fresh, n
    <2>2. \/ b[a][Addr] <= Dust(a)
          \/ \E j \in 1..Len(out) : Offers(out[j], a)
      <3>1. CASE a = operations[1].offer
        <4>1. 1 \in 1..n
          BY <1>1
        <4> QED BY <1>4, <3>1, <4>1
      <3>2. CASE a # operations[1].offer
        <4>1. b[a][Addr] = 0
          <5>1. funds[a] \in Nat
            OBVIOUS
          <5> QED BY <2>1, <3>2, <5>1
        <4> QED BY <4>1, DustLemma
      <3> QED BY <3>1, <3>2
    <2>3. ASSUME NEW i \in 1..Len(out), Brings(out[i], a)
          PROVE  \E j \in 1..Len(out) : i < j /\ Offers(out[j], a)
      <3>1. i \in 1..n /\ operations[i].ask = a /\ i # n
        BY <1>3, <2>1, <2>3, RouterAssumption
      <3>2. i \in 1..n - 1 /\ i + 1 \in 1..n /\ i < i + 1
        <4>1. n \in Nat
          BY <1>1
        <4> QED BY <3>1, <4>1
      <3>3. operations[i + 1].offer = a
        <4>1. operations[i].ask = operations[i + 1].offer
          BY <2>1, <3>2
        <4> QED BY <3>1, <4>1
      <3> QED BY <1>4, <3>2, <3>3
    <2> QED BY <2>2, <2>3 DEF Cleared
  <1> QED BY <1>1, <1>6, <1>7 DEF AllCleared, Cleans, c, n, target

\* What a call of the router leaves to be executed: its operations and the check.
LEMMA StartsLemma ==
    ASSUME bal \in Ledgers, NEW user \in Users, NEW funds \in [Assets -> Nat],
           \A a \in Assets : funds[a] <= bal[a][user],
           NEW operations \in Seq(Operations), NEW minimum_receive \in Nat \cup {Unset},
           NEW to \in Accounts,
           execute_swap_operations(WithFunds(user, funds), operations, minimum_receive,
                                   to, funds)
    PROVE  LET b == WithFunds(user, funds)
               c == [operations |-> operations, funds |-> funds,
                     minimum |-> minimum_receive, to |-> to, start |-> b]
           IN  /\ Idle /\ operations # << >> /\ assert_operations(operations)
               /\ b \in Ledgers
               /\ \E out \in Seq(Messages) :
                     /\ Become(b, out, c)
                     /\ Len(out) - Len(operations) \in {0, 1}
                     /\ \A i \in 1..Len(out) :
                           IF i <= Len(operations)
                           THEN out[i] = ExecuteSwapOperation(operations[i],
                                             IF i = Len(operations) THEN to ELSE Unset)
                           ELSE out[i].type = "AssertMinimumReceive"
  <1> DEFINE b == WithFunds(user, funds)
             target == get_target_asset_info(operations)
             first == OperationMsgs(operations, to)
             check == MinimumMsgs(b, target, minimum_receive, to)
             c == [operations |-> operations, funds |-> funds,
                   minimum |-> minimum_receive, to |-> to, start |-> b]
             n == Len(operations)
  <1>1. /\ Idle /\ operations # << >> /\ assert_operations(operations)
        /\ Become(b, first \o check, c)
    BY DEF execute_swap_operations
  <1>3. b \in Ledgers
    BY FundsLemma
  <1>4. n \in Nat /\ n \in 1..n /\ target = operations[n].ask /\ target \in Assets
    <2>1. n \in Nat /\ n \in 1..n /\ operations[n] \in Operations
      BY <1>1
    <2> QED BY <2>1 DEF get_target_asset_info, Operations
  <1>5. /\ first \in Seq(Messages) /\ Len(first) = n
        /\ \A i \in 1..n : first[i] = ExecuteSwapOperation(operations[i],
                                          IF i = n THEN to ELSE Unset)
    <2>1. ASSUME NEW op \in Operations, NEW told \in Accounts \cup {Unset}
          PROVE  ExecuteSwapOperation(op, told) \in Messages
      BY DEF ExecuteSwapOperation, Messages
    <2>2. \A i \in 1..n : operations[i] \in Operations
      OBVIOUS
    <2>3. first = [i \in 1..n |-> ExecuteSwapOperation(operations[i],
                                      IF i = n THEN to ELSE Unset)]
      BY DEF OperationMsgs
    <2>4. to \in Accounts \cup {Unset} /\ Unset \in Accounts \cup {Unset}
      OBVIOUS
    <2> HIDE DEF first, n
    <2>5. \A i \in 1..n : ExecuteSwapOperation(operations[i],
                              IF i = n THEN to ELSE Unset) \in Messages
      BY <2>1, <2>2, <2>4
    <2>6. first \in [1..n -> Messages]
      BY <2>3, <2>5
    <2>7. first \in Seq(Messages) /\ Len(first) = n
      BY <1>4, <2>6
    <2> QED BY <2>3, <2>7
  <1>6. /\ check \in Seq(Messages) /\ Len(check) \in {0, 1}
        /\ Len(check) = 1 => check[1].type = "AssertMinimumReceive"
    <2>1. CASE minimum_receive = Unset
      <3>1. check = << >>
        BY <2>1 DEF MinimumMsgs
      <3> QED BY <3>1
    <2>2. CASE minimum_receive # Unset
      <3> DEFINE m == AssertMinimumReceive(target, query_pool(b, target, to),
                                           minimum_receive, to)
      <3>1. check = << m >>
        BY <2>2 DEF MinimumMsgs
      <3>2. query_pool(b, target, to) \in Nat
        <4> HIDE DEF b, target
        <4> QED BY <1>3, <1>4 DEF query_pool, query_balance, query_token_balance, Ledgers
      <3>3. m \in Messages /\ m.type = "AssertMinimumReceive"
        <4> HIDE DEF b, target
        <4> QED BY <1>4, <2>2, <3>2 DEF AssertMinimumReceive, Messages
      <3> HIDE DEF check, m
      <3> QED BY <3>1, <3>3
    <2> QED BY <2>1, <2>2
  <1> DEFINE out == first \o check
  <1> HIDE DEF b, first, check, target
  <1>7. /\ out \in Seq(Messages) /\ Len(out) = n + Len(check)
        /\ \A i \in 1..Len(out) : out[i] = IF i <= n THEN first[i] ELSE check[i - n]
    <2>1. n \in Nat /\ first \in Seq(Messages) /\ check \in Seq(Messages) /\ Len(first) = n
      BY <1>4, <1>5, <1>6
    <2> HIDE DEF n
    <2>2. \A s, t \in Seq(Messages) :
             /\ s \o t \in Seq(Messages) /\ Len(s \o t) = Len(s) + Len(t)
             /\ \A i \in 1..Len(s \o t) :
                   (s \o t)[i] = IF i <= Len(s) THEN s[i] ELSE t[i - Len(s)]
      OBVIOUS
    <2> QED BY <2>1, <2>2
  <1>8. ASSUME NEW i \in 1..Len(out)
        PROVE  IF i <= n
               THEN out[i] = ExecuteSwapOperation(operations[i],
                                 IF i = n THEN to ELSE Unset)
               ELSE out[i].type = "AssertMinimumReceive"
    <2> HIDE DEF out, n
    <2>1. CASE i <= n
      BY <1>4, <1>5, <1>6, <1>7, <2>1
    <2>2. CASE i > n
      <3>1. i - n = 1 /\ Len(check) = 1 /\ out[i] = check[i - n]
        BY <1>4, <1>6, <1>7, <2>2
      <3> QED BY <1>4, <1>6, <2>2, <3>1
    <2> QED BY <1>4, <1>6, <1>7, <2>1, <2>2
  <1>9. Len(out) - n \in {0, 1}
    <2> HIDE DEF out, n
    <2> QED BY <1>4, <1>6, <1>7
  <1> HIDE DEF out, c
  <1> QED BY <1>1, <1>3, <1>7, <1>8, <1>9 DEF out, b, c, n

\* A call of the router begins.
LEMMA SweepBeginLemma ==
    ASSUME Sweeping, NEW user \in Users, NEW funds \in [Assets -> Nat],
           \A a \in Assets : funds[a] <= bal[a][user],
           NEW operations \in Seq(Operations), NEW minimum_receive \in Nat \cup {Unset},
           NEW to \in Accounts,
           execute_swap_operations(WithFunds(user, funds), operations, minimum_receive,
                                   to, funds)
    PROVE  Swept
  <1> DEFINE b == WithFunds(user, funds)
             c == [operations |-> operations, funds |-> funds,
                   minimum |-> minimum_receive, to |-> to, start |-> b]
             n == Len(operations)
  <1>1. bal \in Ledgers
    BY DEF Sweeping
  <1>2. /\ Idle /\ operations # << >> /\ assert_operations(operations)
        /\ b \in Ledgers
    BY <1>1, StartsLemma
  <1>3. PICK out \in Seq(Messages) :
               /\ Become(b, out, c)
               /\ Len(out) - n \in {0, 1}
               /\ \A i \in 1..Len(out) :
                     IF i <= n
                     THEN out[i] = ExecuteSwapOperation(operations[i],
                                       IF i = n THEN to ELSE Unset)
                     ELSE out[i].type = "AssertMinimumReceive"
    BY <1>1, StartsLemma
  <1>4. n <= Len(out)
    <2>1. n \in Nat /\ Len(out) \in Nat
      OBVIOUS
    <2> HIDE DEF n
    <2> QED BY <1>3, <2>1
  <1> HIDE DEF b
  <1>5. AllCleared(b, out, c)
    BY <1>2, <1>3, <1>4, RouteLemma
  <1> HIDE DEF c, n
  <1> QED BY <1>2, <1>3, <1>5, SweptLemma

\* Outside a call nothing is to be cleared.
LEMMA SweepTradeLemma ==
    ASSUME Sweeping, NEW user \in Users, NEW pair \in Pairs, NEW offer \in Assets,
           NEW amount \in Nat, trade(user, pair, offer, amount)
    PROVE  Swept
  <1> DEFINE m == [type |-> "Swap", pair |-> pair, offer |-> offer, amount |-> amount,
                   sender |-> user, to |-> Unset]
  <1>1. Idle /\ offer \in pair_assets[pair] /\ Become(bal, << m >>, NoCall)
    BY DEF trade
  <1>2. bal \in Ledgers
    BY DEF Sweeping
  <1>3. m \in Messages
    BY <1>1 DEF Messages
  <1> HIDE DEF m
  <1>4. << m >> \in Seq(Messages)
    BY <1>3
  <1>5. AllCleared(bal, << m >>, NoCall)
    BY DEF AllCleared
  <1> QED BY <1>1, <1>2, <1>4, <1>5, SweptLemma

LEMMA SweepTransferLemma ==
    ASSUME Sweeping, NEW user \in Users, NEW asset \in Assets, NEW amount \in Nat,
           transfer(user, asset, amount, Addr)
    PROVE  Swept
  <1> DEFINE b == Moved(bal, asset, user, Addr, amount)
  <1>1. Idle /\ amount <= bal[asset][user] /\ Become(b, << >>, NoCall)
    BY DEF transfer
  <1>2. bal \in Ledgers
    BY DEF Sweeping
  <1>3. user \in Accounts /\ Addr \in Accounts /\ user # Addr
    BY RouterAssumption DEF Accounts
  <1>4. /\ b \in [Assets -> [Accounts -> Int]]
        /\ \A a \in Assets : a # asset => b[a] = bal[a]
        /\ \A c \in Accounts :
              b[asset][c] = bal[asset][c] - (IF c = user THEN amount ELSE 0)
                                          + (IF c = Addr THEN amount ELSE 0)
    BY <1>2, <1>3, MovedLemma
  <1> HIDE DEF b
  <1>5. \A a \in Assets, c \in Accounts : bal[a][c] \in Nat
    BY <1>2 DEF Ledgers
  <1>6. ASSUME NEW a \in Assets, NEW c \in Accounts PROVE b[a][c] \in Nat
    <2>1. CASE a = asset
      BY <1>1, <1>3, <1>4, <1>5, <2>1
    <2>2. CASE a # asset
      BY <1>4, <1>5, <2>2
    <2> QED BY <2>1, <2>2
  <1>7. b \in Ledgers
    BY <1>4, <1>6 DEF Ledgers
  <1>8. AllCleared(b, << >>, NoCall) /\ << >> \in Seq(Messages)
    BY DEF AllCleared
  <1> QED BY <1>1, <1>7, <1>8, SweptLemma

LEMMA SweepingLemma ==
    ASSUME Sweeping, [Next]_vars
    PROVE  Sweeping' /\ (UNCHANGED vars \/ Swept)
  <1>1. ASSUME NEW user \in Users, NEW operations \in Routes, NEW minimum \in Minimums,
               NEW to \in Receivers, Calls(user, operations, minimum, to)
        PROVE  Swept
    <2>1. /\ operations \in Seq(Operations) /\ to \in Accounts
          /\ minimum \in Nat \cup {Unset}
      BY RouterAssumption
    <2>2. PICK funds \in [Assets -> Nat] :
             /\ \A a \in Assets : funds[a] <= bal[a][user]
             /\ execute_swap_operations(WithFunds(user, funds), operations, minimum, to, funds)
      BY <1>1, CallsLemma DEF Sweeping
    <2> QED BY <2>1, <2>2, SweepBeginLemma
  <1>3. CASE execute_swap_operation
    BY <1>3, SweepOperationLemma DEF Swept
  <1>4. CASE assert_minium_receive
    BY <1>4, SweepCheckLemma DEF Swept
  <1>5. CASE swap
    BY <1>5, SweepSwapLemma DEF Swept
  <1>6. CASE pay
    BY <1>6, SweepPayLemma DEF Swept
  <1>7. CASE market_swap
    BY <1>7, SweepMarketLemma DEF Swept
  <1>8. ASSUME Abort PROVE Swept
    <2>1. ~Idle /\ Become(committed, << >>, NoCall) /\ committed \in Ledgers
      BY <1>8 DEF Abort, Sweeping
    <2>2. AllCleared(committed, << >>, NoCall) /\ << >> \in Seq(Messages)
      BY DEF AllCleared
    <2> QED BY <2>1, <2>2, SweptLemma
  <1>9. ASSUME NEW user \in Users, NEW pair \in Pairs, NEW offer \in Assets,
               NEW amount \in Amounts, trade(user, pair, offer, amount)
        PROVE  Swept
    <2>1. amount \in Nat
      BY RouterAssumption
    <2> QED BY <1>9, <2>1, SweepTradeLemma
  <1>10. ASSUME NEW user \in Users, NEW asset \in Assets, NEW amount \in Gifts,
                transfer(user, asset, amount, Addr)
         PROVE  Swept
    <2>1. amount \in Nat
      BY RouterAssumption
    <2> QED BY <1>10, <2>1, SweepTransferLemma
  <1>11. CASE UNCHANGED vars
    <2>1. bal' = bal /\ stack' = stack /\ committed' = committed /\ call' = call
      BY <1>11 DEF vars
    <2>2. Sweeping'
      BY <2>1 DEF Sweeping, Idle
    <2> QED BY <1>11, <2>2
  <1>12. CASE Swept
    BY <1>12 DEF Swept
  <1> QED BY <1>1, <1>3, <1>4, <1>5, <1>6, <1>7, <1>8, <1>9, <1>10, <1>11, <1>12
          DEF Next, Calls

LEMMA SweepInitLemma == Init => Sweeping
  <1> SUFFICES ASSUME Init PROVE Sweeping
    OBVIOUS
  <1>1. bal \in Ledgers /\ committed = bal /\ stack = << >> /\ call = NoCall
    BY RouterAssumption DEF Init, Ledgers
  <1> QED BY <1>1 DEF Sweeping, AllCleared

\* What a completed call names, but its target, is among what it is to clear.
LEMMA NamedLemma ==
    ASSUME Sweeping, Completes, NEW k \in 1..Len(call.operations),
           NEW a \in {call.operations[k].offer, call.operations[k].ask} \ {Target}
    PROVE  a \in Cleans(call)
  <1>1. call.operations \in Seq(Operations)
    BY DEF Sweeping, AllCleared, Completes
  <1>2. call.operations[k] \in Operations
    BY <1>1
  <1>3. a \in Assets
    BY <1>2 DEF Operations
  <1> QED BY <1>3 DEF Cleans, Target

\* Whatever route is accepted, and whatever lay in the router before, a call
\* that takes effect leaves of every asset it names but the last one nothing
\* but what the tax deduction kept back.
THEOREM RoutesEndInOne == Spec => SwappedIntoOne
  <1>1. Init => Sweeping
    BY SweepInitLemma
  <1>2. Sweeping /\ [Next]_vars => Sweeping'
    BY SweepingLemma
  <1> DEFINE Clean == Completes => \A k \in 1..Len(call.operations) :
                 \A a \in {call.operations[k].offer, call.operations[k].ask} \ {Target} :
                     bal'[a][Addr] <= Dust(a)
  <1>3. Sweeping /\ [Next]_vars => [Clean]_vars
    <2> SUFFICES ASSUME Sweeping, Swept, Completes, NEW k \in 1..Len(call.operations),
                        NEW a \in {call.operations[k].offer, call.operations[k].ask}
                                      \ {Target}
                 PROVE  bal'[a][Addr] <= Dust(a)
      BY SweepingLemma
    <2> QED BY NamedLemma DEF Swept
  <1> HIDE DEF Clean
  <1>4. Spec => [][Clean]_vars
    BY <1>1, <1>2, <1>3, PTL DEF Spec
  <1> QED BY <1>4 DEF Clean, SwappedIntoOne

\* A straight route that starts with the only funds of a router that had none
\* leaves nothing there, in any asset, but what the tax deduction kept back.
THEOREM NothingIsStranded == Spec => NothingStranded
  <1>1. Init => Sweeping
    BY SweepInitLemma
  <1>2. Sweeping /\ [Next]_vars => Sweeping'
    BY SweepingLemma
  <1> DEFINE Clean == Completes /\ Straight(call) /\ Fresh(call) =>
                          \A a \in Assets : bal'[a][Addr] <= Dust(a)
  <1>3. Sweeping /\ [Next]_vars => [Clean]_vars
    <2> SUFFICES ASSUME Swept, Completes, Straight(call), Fresh(call), NEW a \in Assets
                 PROVE  bal'[a][Addr] <= Dust(a)
      BY SweepingLemma
    <2> QED BY DEF Swept, Cleans
  <1> HIDE DEF Clean
  <1>4. Spec => [][Clean]_vars
    BY <1>1, <1>2, <1>3, PTL DEF Spec
  <1> QED BY <1>4 DEF Clean, NothingStranded

(***************************************************************************)
(* What a route brings: after each operation of a straight route there is  *)
(* what the simulation says of it.                                         *)
(***************************************************************************)
\* The amounts simulate_swap_operations computes, before the first operation and
\* after each.
Simulation(b, operations, x) ==
    CHOOSE f : f = [k \in 0..Len(operations) |->
                        IF k = 0 THEN x ELSE SimulateOperation(b, operations, k, f[k - 1])]

LEMMA SimulationLemma ==
    ASSUME NEW b, NEW operations \in Seq(Operations), NEW x
    PROVE  LET f == Simulation(b, operations, x)
           IN  /\ f[0] = x
               /\ \A k \in 1..Len(operations) :
                     f[k] = SimulateOperation(b, operations, k, f[k - 1])
               /\ operations # << >> =>
                     simulate_swap_operations(b, operations, x) = f[Len(operations)]
  <1> DEFINE n == Len(operations)
             Upto(f, m) == f = [k \in 0..m |-> IF k = 0 THEN x
                                  ELSE SimulateOperation(b, operations, k, f[k - 1])]
             T == {m \in Nat : ~ \E f : Upto(f, m)}
  <1>1. n \in Nat
    OBVIOUS
  <1>2. \E f : Upto(f, 0)
    <2> DEFINE g == [k \in 0..0 |-> x]
    <2>1. Upto(g, 0)
      OBVIOUS
    <2> QED BY <2>1
  <1>3. ASSUME NEW m \in Nat, NEW f, Upto(f, m) PROVE \E g : Upto(g, m + 1)
    <2> DEFINE g == [k \in 0..(m + 1) |->
                        IF k = m + 1 THEN SimulateOperation(b, operations, k, f[k - 1])
                                     ELSE f[k]]
    <2>1. ASSUME NEW k \in 0..(m + 1)
          PROVE  g[k] = IF k = 0 THEN x ELSE SimulateOperation(b, operations, k, g[k - 1])
      <3>1. CASE k = 0
        BY <1>3, <3>1
      <3>2. CASE k # 0 /\ k <= m
        <4>1. k \in 0..m /\ k - 1 \in 0..m /\ k # m + 1 /\ k - 1 # m + 1
          BY <3>2
        <4>2. g[k] = f[k] /\ g[k - 1] = f[k - 1]
          BY <4>1
        <4>3. f[k] = SimulateOperation(b, operations, k, f[k - 1])
          BY <1>3, <3>2, <4>1
        <4> QED BY <3>2, <4>2, <4>3
      <3>3. CASE k = m + 1
        <4>1. k - 1 \in 0..(m + 1) /\ k - 1 # m + 1 /\ k # 0
          BY <3>3
        <4>2. g[k - 1] = f[k - 1] /\ g[k] = SimulateOperation(b, operations, k, f[k - 1])
          BY <3>3, <4>1
        <4> QED BY <4>1, <4>2
      <3> QED BY <3>1, <3>2, <3>3
    <2>2. g = [k \in 0..(m + 1) |-> g[k]]
      OBVIOUS
    <2> HIDE DEF g
    <2>3. Upto(g, m + 1)
      BY <2>1, <2>2
    <2> QED BY <2>3
  <1>4. T = {}
    <2> SUFFICES ASSUME T # {} PROVE FALSE
      OBVIOUS
    <2>1. PICK m \in T : \A l \in T : m <= l
      <3>1. T \subseteq Nat
        OBVIOUS
      <3> HIDE DEF T
      <3> QED BY <3>1, SmallestLemma
    <2>2. m \in Nat /\ ~ \E f : Upto(f, m)
      OBVIOUS
    <2> HIDE DEF Upto
    <2>3. m # 0
      BY <1>2, <2>2
    <2>4. m - 1 \in Nat /\ m - 1 \notin T
      BY <2>1, <2>2, <2>3
    <2>5. \E f : Upto(f, m - 1)
      BY <2>4
    <2>6. \E g : Upto(g, (m - 1) + 1)
      BY <1>3, <2>4, <2>5
    <2>7. (m - 1) + 1 = m
      BY <2>2
    <2> QED BY <2>2, <2>6, <2>7
  <1>5. \E f : Upto(f, n)
    <2> HIDE DEF Upto, n
    <2> QED BY <1>1, <1>4
  <1> DEFINE f == Simulation(b, operations, x)
  <1>6. f = [k \in 0..n |-> IF k = 0 THEN x
                            ELSE SimulateOperation(b, operations, k, f[k - 1])]
    <2> HIDE DEF n
    <2> QED BY <1>5, Zenon DEF Simulation, n
  <1>7. operations # << >> => simulate_swap_operations(b, operations, x) = f[n]
    BY Zenon DEF simulate_swap_operations, Simulation
  <1> HIDE DEF f
  <1>8. f[0] = x /\ \A k \in 1..n : f[k] = SimulateOperation(b, operations, k, f[k - 1])
    <2> HIDE DEF n
    <2>1. 0 \in 0..n /\ \A k \in 1..n : k \in 0..n /\ k # 0
      BY <1>1
    <2> QED BY <1>6, <2>1
  <1> QED BY <1>7, <1>8 DEF f, n

Told(c, k) == IF k = Len(c.operations) THEN c.to ELSE Unset

Simulated(com, c) == Simulation(com, c.operations, c.funds[c.operations[1].offer])

LEMMA SimulatedLemma ==
    ASSUME NEW com, NEW c, c.operations \in Seq(Operations)
    PROVE  /\ Simulated(com, c)[0] = c.funds[c.operations[1].offer]
           /\ \A k \in 1..Len(c.operations) :
                 Simulated(com, c)[k] =
                     SimulateOperation(com, c.operations, k, Simulated(com, c)[k - 1])
           /\ c.operations # << >> =>
                 simulate_swap_operations(com, c.operations, c.funds[c.operations[1].offer])
                    = Simulated(com, c)[Len(c.operations)]
  <1> DEFINE operations == c.operations
             x == c.funds[c.operations[1].offer]
  <1>1. operations \in Seq(Operations)
    OBVIOUS
  <1> HIDE DEF operations, x
  <1>2. LET f == Simulation(com, operations, x)
        IN  /\ f[0] = x
            /\ \A k \in 1..Len(operations) :
                  f[k] = SimulateOperation(com, operations, k, f[k - 1])
            /\ operations # << >> =>
                  simulate_swap_operations(com, operations, x) = f[Len(operations)]
    BY <1>1, SimulationLemma
  <1>3. Simulated(com, c) = Simulation(com, operations, x)
    BY DEF Simulated, operations, x
  <1> QED BY <1>2, <1>3 DEF operations, x

\* Of the call c the operations after the k-th are left in out, behind d others.
Remains(out, c, k, d) ==
    LET n == Len(c.operations)
    IN  /\ Len(out) - (d + (n - k)) \in {0, 1}
        /\ \A i \in (d + 1)..Len(out) :
              IF i <= d + (n - k)
              THEN out[i] = ExecuteSwapOperation(c.operations[k + i - d], Told(c, k + i - d))
              ELSE out[i].type = "AssertMinimumReceive"

\* What the operations after the k-th have not touched: the pools are those of the
\* ledger com.
Ahead(b, com, c, k) ==
    LET n == Len(c.operations)
    IN  /\ \A l \in (k + 2)..n : b[c.operations[l].offer][Addr] = 0
        /\ \A l \in (k + 1)..n :
              \A p \in PairsOf(c.operations[l].offer, c.operations[l].ask), a \in Assets :
                  b[a][p] = com[a][p]

\* What there is of what the k-th operation asked for, when x of it has come.
Brought(b, c, k, x) ==
    LET n == Len(c.operations)
        target == get_target_asset_info(c.operations)
    IN  /\ k < n => /\ b[c.operations[k + 1].offer][Addr] = x
                    /\ b[target][c.to] - c.start[target][c.to] = 0
        /\ k = n => b[target][c.to] - c.start[target][c.to] = x

\* m is what the k-th operation has become.
InFlight(b, com, c, k, m) ==
    LET op == c.operations[k]
        x == Simulated(com, c)[k]
    IN  \/ /\ m.type = "MarketSwap"
           /\ m.offer = op.offer /\ m.ask = op.ask /\ m.to = Told(c, k)
           /\ MarketReturn(m.amount) = x
        \/ /\ m.type = "Swap"
           /\ m.pair \in PairsOf(op.offer, op.ask) /\ m.offer = op.offer
           /\ m.sender = Addr /\ m.to = Told(c, k)
           /\ \A a \in Assets : b[a][m.pair] = com[a][m.pair]
           /\ SimulatePair(com, op, m.amount) = x
        \/ /\ m.type \in Payouts
           /\ m.from \in PairsOf(op.offer, op.ask) /\ m.asset = op.ask
           /\ m.to = IF k = Len(c.operations) THEN c.to ELSE Addr
           /\ m.amount = x

\* k operations have begun; the last of them is done, or has become the first
\* message.
Follows(b, out, com, c) ==
    c # NoCall /\ Straight(c) /\ Fresh(c) =>
        /\ c.operations \in Seq(Operations) /\ c.operations # << >>
        /\ c.start \in Ledgers
        /\ \E k \in 0..Len(c.operations) :
              /\ Ahead(b, com, c, k)
              /\ \/ Remains(out, c, k, 0) /\ Brought(b, c, k, Simulated(com, c)[k])
                 \/ /\ k > 0 /\ Remains(out, c, k, 1) /\ Brought(b, c, k, 0)
                    /\ InFlight(b, com, c, k, out[1])

Following ==
    /\ Idle => bal = committed
    /\ Follows(bal, stack, committed, call)

\* What a step keeps.
Followed ==
    /\ Following'
    /\ Completes /\ Straight(call) /\ Fresh(call) =>
          Received = simulate_swap_operations(committed, call.operations,
                                              call.funds[call.operations[1].offer])

LEMMA FollowedLemma ==
    ASSUME Sweeping, NEW b, NEW out \in Seq(Messages), NEW c,
           Become(b, out, c), Follows(b, out, committed, c),
           c = call \/ Idle \/ b = committed
    PROVE  Followed
  <1>1. /\ bal' = b /\ stack' = out
        /\ committed' = IF out = << >> THEN b ELSE committed
        /\ call' = IF out = << >> THEN NoCall ELSE c
    BY DEF Become
  <1>2. Following'
    <2>1. CASE out = << >>
      BY <1>1, <2>1 DEF Following, Follows, Idle
    <2>2. CASE out # << >>
      BY <1>1, <2>2 DEF Following, Idle
    <2> QED BY <2>1, <2>2
  <1>3. ASSUME Completes, Straight(call), Fresh(call)
        PROVE  Received = simulate_swap_operations(committed, call.operations,
                                              call.funds[call.operations[1].offer])
    <2>1. call # NoCall /\ call' = NoCall /\ b # committed
      BY <1>1, <1>3 DEF Completes
    <2>2. c = call
      BY <2>1 DEF Sweeping
    <2>3. out = << >>
      BY <1>1, <2>1, <2>2
    <2> DEFINE n == Len(call.operations)
               x == call.funds[call.operations[1].offer]
    <2>4. call.operations \in Seq(Operations) /\ call.operations # << >>
      BY <1>3, <2>1, <2>2 DEF Follows
    <2>5. PICK k \in 0..n :
              \/ Remains(out, call, k, 0) /\ Brought(b, call, k, Simulated(committed, call)[k])
              \/ Remains(out, call, k, 1)
      BY <1>3, <2>1, <2>2 DEF Follows
    <2>6. n \in Nat /\ Len(out) = 0
      BY <2>3, <2>4
    <2>7. ~ Remains(out, call, k, 1)
      <3> HIDE DEF n
      <3> SUFFICES ASSUME Len(out) - (1 + (n - k)) \in {0, 1} PROVE FALSE
        BY DEF Remains, n
      <3> QED BY <2>6
    <2>8. k = n
      <3>1. Len(out) - (0 + (n - k)) \in {0, 1}
        BY <2>5, <2>7 DEF Remains
      <3> HIDE DEF n
      <3> QED BY <2>6, <3>1
    <2>9. b[Target][call.to] - call.start[Target][call.to] = Simulated(committed, call)[n]
      BY <2>5, <2>7, <2>8 DEF Brought, Target
    <2>10. Simulated(committed, call)[n] = simulate_swap_operations(committed,
                                               call.operations, x)
      BY <2>4, SimulatedLemma
    <2> QED BY <1>1, <2>9, <2>10 DEF Received
  <1> QED BY <1>2, <1>3 DEF Followed

\* What is true of a straight route.
LEMMA StraightLemma ==
    ASSUME NEW c, Straight(c), Fresh(c), c.operations \in Seq(Operations),
           c.operations # << >>
    PROVE  LET op == c.operations
               n == Len(op)
           IN  /\ n \in Nat /\ n \in 1..n
               /\ c.to \in Users /\ c.to \in Accounts /\ c.to # Addr /\ c.to # Unset
               /\ c.to \notin Pairs
               /\ \A k \in 1..n : op[k].offer \in Assets /\ op[k].ask \in Assets
               /\ \A k \in 1..n, l \in 1..n :
                     k < l => /\ op[k].offer # op[l].offer
                              /\ PairsOf(op[k].offer, op[k].ask)
                                    \cap PairsOf(op[l].offer, op[l].ask) = {}
               /\ \A k \in 1..n : k # n => k + 1 \in 1..n /\ op[k].ask = op[k + 1].offer
               /\ get_target_asset_info(op) = op[n].ask
               /\ \A k \in 1..n : Told(c, k) = Unset <=> k # n
  <1> DEFINE op == c.operations
             n == Len(op)
  <1>1. n \in Nat /\ n \in 1..n
    OBVIOUS
  <1>2. /\ c.to \in Users /\ c.to \in Accounts /\ c.to # Addr /\ c.to # Unset
        /\ c.to \notin Pairs
    BY RouterAssumption DEF Fresh, Accounts
  <1>3. ASSUME NEW k \in 1..n PROVE op[k].offer \in Assets /\ op[k].ask \in Assets
    <2>1. op[k] \in Operations
      OBVIOUS
    <2> HIDE DEF op
    <2> QED BY <2>1 DEF Operations
  <1>4. ASSUME NEW k \in 1..n, NEW l \in 1..n, k < l
        PROVE  /\ op[k].offer # op[l].offer
               /\ PairsOf(op[k].offer, op[k].ask) \cap PairsOf(op[l].offer, op[l].ask) = {}
    <2>1. /\ op[k].offer # op[l].offer
          /\ {op[k].offer, op[k].ask} # {op[l].offer, op[l].ask}
      BY <1>4 DEF Straight
    <2> HIDE DEF op, n
    <2> QED BY <2>1 DEF PairsOf
  <1>5. ASSUME NEW k \in 1..n, k # n
        PROVE  k + 1 \in 1..n /\ op[k].ask = op[k + 1].offer
    <2>1. \A j \in 1..n - 1 : op[j].ask = op[j + 1].offer
      BY DEF Straight
    <2>2. k \in 1..n - 1 /\ k + 1 \in 1..n
      <3> HIDE DEF n
      <3> QED BY <1>1, <1>5
    <2> QED BY <2>1, <2>2
  <1>6. \A k \in 1..n : Told(c, k) = Unset <=> k # n
    BY <1>2 DEF Told
  <1>7. get_target_asset_info(op) = op[n].ask
    BY DEF get_target_asset_info
  <1> HIDE DEF op, n
  <1> QED BY <1>1, <1>2, <1>3, <1>4, <1>5, <1>6, <1>7 DEF op, n

\* The first message is replaced by t, of at most one.
LEMMA RemainsLemma ==
    ASSUME NEW out \in Seq(Messages), out # << >>, NEW t \in Seq(Messages),
           NEW c, c.operations \in Seq(Operations), NEW k \in 0..Len(c.operations)
    PROVE  /\ t \o Tail(out) \in Seq(Messages)
           /\ t # << >> => (t \o Tail(out))[1] = t[1]
           /\ Remains(out, c, k, 1) => Remains(t \o Tail(out), c, k, Len(t))
           /\ Remains(out, c, k, 0) /\ k # Len(c.operations) =>
                 /\ out[1] = ExecuteSwapOperation(c.operations[k + 1], Told(c, k + 1))
                 /\ Remains(t \o Tail(out), c, k + 1, Len(t))
           /\ Remains(out, c, k, 0) /\ k = Len(c.operations) =>
                 /\ out[1].type = "AssertMinimumReceive"
                 /\ Remains(t \o Tail(out), c, k, Len(t))
  <1> DEFINE new == t \o Tail(out)
             n == Len(c.operations)
             d == Len(t)
             m == Len(out)
  <1>1. m \in Nat /\ m > 0 /\ n \in Nat /\ d \in Nat /\ k \in Int
    <2>1. m \in Nat /\ n \in Nat /\ d \in Nat /\ k \in Int
      OBVIOUS
    <2>2. m # 0
      OBVIOUS
    <2> HIDE DEF m, n, d
    <2> QED BY <2>1, <2>2
  <1>2. /\ new \in Seq(Messages) /\ Len(new) = d + m - 1
        /\ \A i \in 1..Len(new) : new[i] = IF i <= d THEN t[i] ELSE out[i - d + 1]
    BY <1>1
  <1>3. t # << >> => new[1] = t[1]
    <2>1. t # << >> => d > 0
      OBVIOUS
    <2> HIDE DEF new, d, m
    <2> QED BY <1>1, <1>2, <2>1
  <1>4. ASSUME Remains(out, c, k, 1) PROVE Remains(new, c, k, d)
    <2>1. /\ m - (1 + (n - k)) \in {0, 1}
          /\ \A i \in 2..m :
              IF i <= 1 + (n - k)
              THEN out[i] = ExecuteSwapOperation(c.operations[k + i - 1], Told(c, k + i - 1))
              ELSE out[i].type = "AssertMinimumReceive"
      BY <1>4 DEF Remains
    <2> HIDE DEF new, d, m, n
    <2>2. Len(new) - (d + (n - k)) \in {0, 1}
      BY <1>1, <1>2, <2>1
    <2>3. ASSUME NEW i \in (d + 1)..Len(new)
          PROVE  IF i <= d + (n - k)
                 THEN new[i] = ExecuteSwapOperation(c.operations[k + i - d], Told(c, k + i - d))
                 ELSE new[i].type = "AssertMinimumReceive"
      <3> DEFINE j == i - d + 1
      <3>1. i \in Int /\ d < i /\ i <= d + m - 1
        BY <1>1, <1>2
      <3>2. /\ j \in 2..m /\ k + j - 1 = k + i - d
            /\ (j <= 1 + (n - k) <=> i <= d + (n - k))
        BY <1>1, <3>1
      <3>3. new[i] = out[j]
        <4>1. i \in 1..Len(new) /\ ~(i <= d)
          BY <1>1, <1>2, <3>1
        <4> QED BY <1>2, <4>1
      <3> HIDE DEF j
      <3> QED BY <2>1, <3>2, <3>3
    <2> QED BY <2>2, <2>3 DEF Remains, n
  <1>5. ASSUME Remains(out, c, k, 0)
        PROVE  /\ m - (n - k) \in {0, 1}
               /\ \A i \in 1..m :
                    IF i <= n - k
                    THEN out[i] = ExecuteSwapOperation(c.operations[k + i], Told(c, k + i))
                    ELSE out[i].type = "AssertMinimumReceive"
    <2>1. /\ m - (0 + (n - k)) \in {0, 1}
          /\ \A i \in (0 + 1)..m :
              IF i <= 0 + (n - k)
              THEN out[i] = ExecuteSwapOperation(c.operations[k + i - 0], Told(c, k + i - 0))
              ELSE out[i].type = "AssertMinimumReceive"
      BY <1>5 DEF Remains
    <2> HIDE DEF m, n
    <2>2. \A i \in 1..m : k + i - 0 = k + i /\ 0 + (n - k) = n - k
      BY <1>1
    <2>3. 0 + 1 = 1 /\ 0 + (n - k) = n - k
      BY <1>1
    <2> QED BY <2>1, <2>2, <2>3
  <1>6. ASSUME Remains(out, c, k, 0), k # n
        PROVE  /\ out[1] = ExecuteSwapOperation(c.operations[k + 1], Told(c, k + 1))
               /\ Remains(new, c, k + 1, d)
    <2>1. /\ m - (n - k) \in {0, 1}
          /\ \A i \in 1..m :
                IF i <= n - k
                THEN out[i] = ExecuteSwapOperation(c.operations[k + i], Told(c, k + i))
                ELSE out[i].type = "AssertMinimumReceive"
      BY <1>5, <1>6
    <2>2. n - k >= 1
      <3>1. k \in 0..n
        OBVIOUS
      <3> HIDE DEF n
      <3> QED BY <1>1, <1>6, <3>1
    <2> HIDE DEF new, d, m, n
    <2>3. out[1] = ExecuteSwapOperation(c.operations[k + 1], Told(c, k + 1))
      BY <1>1, <2>1, <2>2
    <2>4. Len(new) - (d + (n - (k + 1))) \in {0, 1}
      BY <1>1, <1>2, <2>1
    <2>5. ASSUME NEW i \in (d + 1)..Len(new)
          PROVE  IF i <= d + (n - (k + 1))
                 THEN new[i] = ExecuteSwapOperation(c.operations[(k + 1) + i - d],
                                                    Told(c, (k + 1) + i - d))
                 ELSE new[i].type = "AssertMinimumReceive"
      <3> DEFINE j == i - d + 1
      <3>1. /\ j \in 1..m /\ new[i] = out[j] /\ k + j = (k + 1) + i - d
            /\ (j <= n - k <=> i <= d + (n - (k + 1)))
        BY <1>1, <1>2
      <3> HIDE DEF j
      <3> QED BY <2>1, <3>1
    <2> QED BY <2>3, <2>4, <2>5 DEF Remains, n
  <1>7. ASSUME Remains(out, c, k, 0), k = n
        PROVE  out[1].type = "AssertMinimumReceive" /\ Remains(new, c, k, d)
    <2>1. /\ m - (n - k) \in {0, 1}
          /\ \A i \in 1..m :
                IF i <= n - k
                THEN out[i] = ExecuteSwapOperation(c.operations[k + i], Told(c, k + i))
                ELSE out[i].type = "AssertMinimumReceive"
      BY <1>5, <1>7
    <2> HIDE DEF new, d, m, n
    <2>2. m = 1 /\ n - k = 0
      BY <1>1, <1>7, <2>1
    <2>3. out[1].type = "AssertMinimumReceive"
      BY <2>1, <2>2
    <2>4. Len(new) - (d + (n - k)) = 0
      BY <1>1, <1>2, <2>2
    <2>5. (d + 1)..Len(new) = {}
      BY <1>1, <1>2, <2>2
    <2> QED BY <2>3, <2>4, <2>5 DEF Remains, n
  <1> QED BY <1>2, <1>3, <1>4, <1>6, <1>7

\* What the k-th operation does leaves alone what the later ones find.
LEMMA AheadLemma ==
    ASSUME NEW c, Straight(c), Fresh(c), c.operations \in Seq(Operations),
           c.operations # << >>, NEW k \in 1..Len(c.operations), NEW com, NEW b,
           Ahead(bal, com, c, k),
           \A a \in Assets \ {c.operations[k].offer, c.operations[k].ask} :
               b[a][Addr] = bal[a][Addr],
           \A p \in Pairs \ PairsOf(c.operations[k].offer, c.operations[k].ask), a \in Assets :
               b[a][p] = bal[a][p]
    PROVE  Ahead(b, com, c, k)
  <1> DEFINE op == c.operations
             n == Len(op)
  <1>1. /\ n \in Nat
        /\ \A i \in 1..n : op[i].offer \in Assets
        /\ \A i \in 1..n, l \in 1..n :
              i < l => /\ op[i].offer # op[l].offer
                       /\ PairsOf(op[i].offer, op[i].ask)
                             \cap PairsOf(op[l].offer, op[l].ask) = {}
        /\ \A i \in 1..n : i # n => i + 1 \in 1..n /\ op[i].ask = op[i + 1].offer
    BY StraightLemma
  <1>2. /\ \A l \in (k + 2)..n : bal[op[l].offer][Addr] = 0
        /\ \A l \in (k + 1)..n :
              \A p \in PairsOf(op[l].offer, op[l].ask), a \in Assets : bal[a][p] = com[a][p]
    BY DEF Ahead
  <1>3. k \in 1..n
    OBVIOUS
  <1>4. /\ \A a \in Assets \ {op[k].offer, op[k].ask} : b[a][Addr] = bal[a][Addr]
        /\ \A p \in Pairs \ PairsOf(op[k].offer, op[k].ask), a \in Assets :
              b[a][p] = bal[a][p]
    OBVIOUS
  <1>5. Ahead(b, com, c, k) <=>
            /\ \A l \in (k + 2)..n : b[op[l].offer][Addr] = 0
            /\ \A l \in (k + 1)..n :
                  \A p \in PairsOf(op[l].offer, op[l].ask), a \in Assets :
                      b[a][p] = com[a][p]
    BY DEF Ahead
  <1> HIDE DEF op, n
  <1>6. ASSUME NEW l \in (k + 2)..n PROVE b[op[l].offer][Addr] = 0
    <2>1. l \in 1..n /\ k < l /\ k + 1 < l /\ k + 1 \in 1..n /\ k # n
      BY <1>1, <1>3
    <2>2. op[l].offer \in Assets /\ op[l].offer # op[k].offer
          /\ op[l].offer # op[k + 1].offer /\ op[k].ask = op[k + 1].offer
      BY <1>1, <1>3, <2>1
    <2> QED BY <1>2, <1>4, <2>2
  <1>7. ASSUME NEW l \in (k + 1)..n, NEW p \in PairsOf(op[l].offer, op[l].ask), NEW a \in Assets
        PROVE  b[a][p] = com[a][p]
    <2>1. l \in 1..n /\ k < l
      BY <1>1, <1>3
    <2>2. p \in Pairs /\ p \notin PairsOf(op[k].offer, op[k].ask)
      BY <1>1, <1>3, <2>1 DEF PairsOf
    <2> QED BY <1>2, <1>4, <2>2
  <1> QED BY <1>5, <1>6, <1>7

\* An operation becomes the message that is simulated.
LEMMA FollowOperationLemma ==
    ASSUME Sweeping, Following, execute_swap_operation
    PROVE  Followed
  <1>1. /\ ~Idle /\ stack # << >> /\ stack \in Seq(Messages) /\ bal \in Ledgers
        /\ stack[1].type = "ExecuteSwapOperation"
    BY OperationStepLemma
  <1>2. PICK op \in Operations, to \in Accounts \cup {Unset}, x \in Nat, msg \in Messages :
           OperationStep(op, to, x, msg)
    BY OperationStepLemma
  <1> DEFINE c == call
             t == << msg >>
             out == t \o Tail(stack)
             n == Len(c.operations)
             sim == Simulated(committed, c)
  <1>3. t \in Seq(Messages) /\ t # << >> /\ Len(t) = 1 /\ t[1] = msg
    OBVIOUS
  <1>4. Become(bal, out, call) /\ out \in Seq(Messages)
    <2>1. Tail(stack) \in Seq(Messages)
      BY <1>1, TailLemma
    <2> QED BY <1>2, <1>3, <2>1 DEF OperationStep
  <1> HIDE DEF t, out
  <1>5. ASSUME c # NoCall, Straight(c), Fresh(c) PROVE Follows(bal, out, committed, c)
    <2>1. /\ c.operations \in Seq(Operations) /\ c.operations # << >>
          /\ c.start \in Ledgers
      BY <1>5 DEF Following, Follows
    <2>2. PICK k \in 0..n :
              /\ Ahead(bal, committed, c, k)
              /\ \/ Remains(stack, c, k, 0) /\ Brought(bal, c, k, sim[k])
                 \/ InFlight(bal, committed, c, k, stack[1])
      BY <1>5 DEF Following, Follows
    <2>3. Remains(stack, c, k, 0) /\ Brought(bal, c, k, sim[k])
      BY <1>1, <2>2 DEF InFlight, Payouts
    <2> DEFINE j == k + 1
               opj == c.operations[j]
    <2>4. k # n /\ stack[1] = ExecuteSwapOperation(opj, Told(c, j))
          /\ Remains(out, c, j, 1)
      <3>1. k # n
        BY <1>1, <1>3, <2>1, <2>3, RemainsLemma
      <3> QED BY <1>1, <1>3, <2>1, <2>3, <3>1, RemainsLemma DEF out
    <2>5. op = opj /\ to = Told(c, j)
      BY <1>2, <2>4 DEF OperationStep, ExecuteSwapOperation
    <2>6. /\ n \in Nat /\ j \in 1..n /\ j > 0 /\ k < n /\ j - 1 = k
          /\ (Told(c, j) = Unset <=> j # n)
      <3>1. n \in Nat /\ \A i \in 1..n : Told(c, i) = Unset <=> i # n
        BY <1>5, <2>1, StraightLemma
      <3>2. j \in 1..n /\ j > 0 /\ k < n /\ j - 1 = k
        <4> HIDE DEF n
        <4> QED BY <2>4, <3>1
      <3> QED BY <3>1, <3>2
    <2>7. x = sim[k] /\ bal[get_target_asset_info(c.operations)][c.to]
                            - c.start[get_target_asset_info(c.operations)][c.to] = 0
      BY <1>2, <2>3, <2>5, <2>6 DEF Brought, OperationStep
    <2>8. sim[j] = SimulateOperation(committed, c.operations, j, x)
      <3>1. \A i \in 1..n : sim[i] = SimulateOperation(committed, c.operations, i, sim[i - 1])
        BY <2>1, SimulatedLemma
      <3> HIDE DEF sim, n, j
      <3>2. sim[j] = SimulateOperation(committed, c.operations, j, sim[j - 1])
        BY <2>6, <3>1
      <3> QED BY <2>6, <2>7, <3>2
    <2>9. x # None
      BY WidthLemma
    <2>10. InFlight(bal, committed, c, j, msg)
      <3>1. CASE op.native
        <4>1. sim[j] = SimulateMarket(c.operations, j, x)
          BY <2>5, <2>8, <2>9, <3>1 DEF SimulateOperation
        <4>2. msg = [type |-> "MarketSwap", offer |-> op.offer, ask |-> op.ask,
                     amount |-> IF to = Unset THEN x ELSE AfterTax(op.offer, x),
                     to |-> to]
          BY <1>2, <3>1 DEF OperationStep
        <4>3. MarketReturn(msg.amount) = sim[j]
          BY <2>5, <2>6, <4>1, <4>2 DEF SimulateMarket
        <4> HIDE DEF sim
        <4> QED BY <2>5, <4>2, <4>3 DEF InFlight, sim
      <3>2. CASE ~op.native
        <4>1. sim[j] = SimulatePair(committed, op, AfterTax(op.offer, x))
          BY <2>5, <2>8, <2>9, <3>2 DEF SimulateOperation
        <4>2. PICK pair \in PairsOf(op.offer, op.ask) :
                 msg = [type |-> "Swap", pair |-> pair, offer |-> op.offer,
                        amount |-> AfterTax(op.offer, x), sender |-> Addr, to |-> to]
          BY <1>2, <3>2 DEF OperationStep
        <4>3. \A a \in Assets : bal[a][pair] = committed[a][pair]
          <5>1. j \in (k + 1)..n
            BY <2>6
          <5> QED BY <2>2, <2>5, <5>1 DEF Ahead
        <4> HIDE DEF sim
        <4> QED BY <2>5, <4>1, <4>2, <4>3 DEF InFlight, sim
      <3> QED BY <3>1, <3>2
    <2>11. Ahead(bal, committed, c, j)
      <3>1. \A l : /\ l \in (j + 2)..n => l \in (k + 2)..n
                   /\ l \in (j + 1)..n => l \in (k + 1)..n
        BY <2>6
      <3> HIDE DEF j
      <3> QED BY <2>2, <3>1 DEF Ahead
    <2>12. Brought(bal, c, j, 0)
      <3>1. j < n => bal[c.operations[j + 1].offer][Addr] = 0
        <4>1. j < n => j + 1 \in (k + 2)..n
          BY <2>6
        <4> QED BY <2>2, <4>1 DEF Ahead
      <3> HIDE DEF j
      <3> QED BY <2>7, <3>1 DEF Brought
    <2>13. out[1] = msg
      BY <1>1, <1>3, <2>1, RemainsLemma DEF out
    <2> HIDE DEF j
    <2>14. j \in 0..n
      BY <2>6
    <2> QED BY <2>1, <2>4, <2>6, <2>10, <2>11, <2>12, <2>13, <2>14 DEF Follows
  <1>6. Follows(bal, out, committed, call)
    BY <1>5 DEF Follows
  <1> QED BY <1>4, <1>6, FollowedLemma

\* The message of an operation that has begun is the first.
LEMMA InFlightLemma ==
    ASSUME Following, call # NoCall, Straight(call), Fresh(call),
           stack \in Seq(Messages), stack # << >>,
           stack[1].type \notin {"ExecuteSwapOperation", "AssertMinimumReceive"}
    PROVE  /\ call.operations \in Seq(Operations) /\ call.operations # << >>
           /\ call.start \in Ledgers
           /\ \E k \in 1..Len(call.operations) :
                 /\ Ahead(bal, committed, call, k)
                 /\ Remains(stack, call, k, 1) /\ Brought(bal, call, k, 0)
                 /\ InFlight(bal, committed, call, k, stack[1])
  <1> DEFINE n == Len(call.operations)
  <1>1. /\ call.operations \in Seq(Operations) /\ call.operations # << >>
        /\ call.start \in Ledgers
    BY DEF Following, Follows
  <1>2. PICK k \in 0..n :
              /\ Ahead(bal, committed, call, k)
              /\ \/ Remains(stack, call, k, 0)
                 \/ /\ k > 0 /\ Remains(stack, call, k, 1) /\ Brought(bal, call, k, 0)
                    /\ InFlight(bal, committed, call, k, stack[1])
    BY DEF Following, Follows
  <1>3. ~Remains(stack, call, k, 0)
    <2>1. << >> \in Seq(Messages)
      OBVIOUS
    <2>2. Remains(stack, call, k, 0) /\ k # n =>
             stack[1] = ExecuteSwapOperation(call.operations[k + 1], Told(call, k + 1))
      BY <1>1, <2>1, RemainsLemma
    <2>3. Remains(stack, call, k, 0) /\ k = n => stack[1].type = "AssertMinimumReceive"
      BY <1>1, <2>1, RemainsLemma
    <2> HIDE DEF n
    <2> QED BY <2>2, <2>3 DEF ExecuteSwapOperation
  <1>4. n \in Nat
    BY <1>1
  <1> HIDE DEF n
  <1>5. k \in 1..n
    BY <1>2, <1>3, <1>4
  <1> QED BY <1>1, <1>2, <1>3, <1>5 DEF n

\* The first message is replaced by what it has become, if anything.
LEMMA StillFollowsLemma ==
    ASSUME stack \in Seq(Messages), stack # << >>, NEW t \in Seq(Messages), NEW b,
           NEW c, c.operations \in Seq(Operations), c.operations # << >>,
           c.start \in Ledgers,
           NEW k \in 1..Len(c.operations), Remains(stack, c, k, 1),
           Ahead(b, committed, c, k),
           \/ t = << >> /\ Brought(b, c, k, Simulated(committed, c)[k])
           \/ Len(t) = 1 /\ Brought(b, c, k, 0) /\ InFlight(b, committed, c, k, t[1])
    PROVE  Follows(b, t \o Tail(stack), committed, c)
  <1> DEFINE n == Len(c.operations)
             out == t \o Tail(stack)
  <1>1. k \in 0..n /\ k > 0
    <2>1. n \in Nat /\ k \in 1..n
      OBVIOUS
    <2> HIDE DEF n
    <2> QED BY <2>1
  <1>2. Remains(out, c, k, Len(t))
    BY <1>1, RemainsLemma
  <1>3. CASE t = << >> /\ Brought(b, c, k, Simulated(committed, c)[k])
    <2>1. Remains(out, c, k, 0)
      <3>1. Len(t) = 0
        BY <1>3
      <3> HIDE DEF out
      <3> QED BY <1>2, <3>1
    <2> HIDE DEF out, n
    <2> QED BY <1>1, <1>3, <2>1 DEF Follows, n, out
  <1>4. CASE Len(t) = 1 /\ Brought(b, c, k, 0) /\ InFlight(b, committed, c, k, t[1])
    <2>1. t # << >>
      <3>1. t = << >> => Len(t) = 0
        OBVIOUS
      <3>2. Len(t) = 1
        BY <1>4
      <3> QED BY <3>1, <3>2
    <2>2. out[1] = t[1]
      BY <1>1, <2>1, RemainsLemma
    <2> HIDE DEF out, n
    <2>3. Remains(out, c, k, 1)
      BY <1>2, <1>4
    <2> QED BY <1>1, <1>4, <2>2, <2>3 DEF Follows, n, out
  <1> QED BY <1>3, <1>4

\* The pair that is simulated is the pair the operation goes to.
LEMMA SimulatePairLemma ==
    ASSUME NEW b, NEW op \in Operations, NEW n, NEW pair \in PairsOf(op.offer, op.ask),
           CanSwap(b[op.offer][pair], b[op.ask][pair], n)
    PROVE  SimulatePair(b, op, n) =
              AfterTax(op.ask, compute_swap(b[op.offer][pair], b[op.ask][pair], n)
                                   .return_amount)
  <1>1. \A p \in PairsOf(op.offer, op.ask) : p = pair
    BY RouterAssumption DEF PairsOf
  <1> DEFINE chosen == CHOOSE p \in PairsOf(op.offer, op.ask) : TRUE
  <1>2. chosen \in PairsOf(op.offer, op.ask)
    OBVIOUS
  <1>3. chosen = pair
    BY <1>1, <1>2
  <1>4. PairsOf(op.offer, op.ask) # {}
    OBVIOUS
  <1> QED BY <1>3, <1>4 DEF SimulatePair

\* Nothing is held back of nothing.
LEMMA AfterNoTaxLemma ==
    ASSUME NEW asset PROVE AfterTax(asset, 0) = 0
  <1>1. CASE is_native_token(asset)
    <2>1. AfterTax(asset, 0) = deduct_tax(asset, 0)
      BY <1>1 DEF deduct_tax, compute_tax, AfterTax, compute_denom_tax
    <2>2. deduct_tax(asset, 0) \in 0..0
      BY TaxLemma
    <2> QED BY <2>1, <2>2
  <1>2. CASE ~is_native_token(asset)
    BY <1>2 DEF AfterTax
  <1> QED BY <1>1, <1>2

\* A pair answers with what is simulated, or takes what it would pay nothing for.
LEMMA FollowSwapLemma ==
    ASSUME Sweeping, Following, swap
    PROVE  Followed
  <1>1. /\ ~Idle /\ stack # << >> /\ stack \in Seq(Messages) /\ bal \in Ledgers
        /\ stack[1].type = "Swap"
    BY SwapStepLemma
  <1>2. PICK pair \in Pairs, offer \in Assets, ask \in Assets, n \in Nat,
             sender \in Users \cup {Addr}, to \in Accounts, r \in Nat,
             b \in Ledgers, t \in Seq(Messages) :
           SwapStep(pair, offer, ask, n, sender, to, r, b, t)
    BY SwapStepLemma
  <1> DEFINE c == call
             out == t \o Tail(stack)
             target == get_target_asset_info(c.operations)
  <1>3. Become(b, out, call) /\ out \in Seq(Messages)
    <2>1. Tail(stack) \in Seq(Messages)
      BY <1>1, TailLemma
    <2> QED BY <1>2, <2>1 DEF SwapStep
  <1>4. ASSUME c # NoCall, Straight(c), Fresh(c) PROVE Follows(b, out, committed, c)
    <2>1. /\ c.operations \in Seq(Operations) /\ c.operations # << >>
          /\ c.start \in Ledgers
      BY <1>1, <1>4, InFlightLemma
    <2>2. PICK k \in 1..Len(c.operations) :
             /\ Ahead(bal, committed, c, k)
             /\ Remains(stack, c, k, 1) /\ Brought(bal, c, k, 0)
             /\ InFlight(bal, committed, c, k, stack[1])
      BY <1>1, <1>4, InFlightLemma
    <2> DEFINE op == c.operations[k]
               x == Simulated(committed, c)[k]
               last == Len(c.operations)
    <2>3. /\ pair \in PairsOf(op.offer, op.ask) /\ offer = op.offer
          /\ sender = Addr /\ stack[1].to = Told(c, k)
          /\ \A a \in Assets : bal[a][pair] = committed[a][pair]
          /\ SimulatePair(committed, op, n) = x
      BY <1>1, <1>2, <2>2 DEF InFlight, SwapStep, Payouts
    <2>4. op \in Operations
      BY <2>1
    <2>5. /\ c.to \in Accounts /\ c.to # Addr /\ c.to # Unset /\ c.to \notin Pairs
          /\ target \in Assets
          /\ k # last => k + 1 \in 1..last /\ op.ask = c.operations[k + 1].offer
          /\ Told(c, k) = Unset <=> k # last
      <3>1. last \in 1..last /\ target = c.operations[last].ask
            /\ \A i \in 1..last : c.operations[i].ask \in Assets
        BY <1>4, <2>1, StraightLemma
      <3> QED BY <1>4, <2>1, <3>1, StraightLemma
    <2>6. ask = op.ask
      <3>1. {offer, ask} = {offer, op.ask} /\ ask # offer
        BY <1>2, <2>3 DEF SwapStep, PairsOf
      <3> QED BY <3>1
    <2> HIDE DEF op, x, target
    <2>7. x = AfterTax(ask, r)
      <3>1. /\ committed[op.offer][pair] = bal[offer][pair]
            /\ committed[op.ask][pair] = bal[ask][pair]
        BY <2>3, <2>6
      <3>2. /\ CanSwap(committed[op.offer][pair], committed[op.ask][pair], n)
            /\ r = compute_swap(committed[op.offer][pair], committed[op.ask][pair], n)
                       .return_amount
        BY <1>2, <3>1 DEF SwapStep
      <3>3. SimulatePair(committed, op, n) = AfterTax(op.ask, r)
        BY <2>3, <2>4, <3>2, SimulatePairLemma, ZenonT(30)
      <3> QED BY <2>3, <2>6, <3>3
    <2>8. Ahead(b, committed, c, k)
      <3>1. \A a \in Assets \ {op.offer, op.ask} : b[a][Addr] = bal[a][Addr]
        BY <1>2, <2>3 DEF SwapStep
      <3>2. ASSUME NEW p \in Pairs \ PairsOf(op.offer, op.ask), NEW a \in Assets
            PROVE  b[a][p] = bal[a][p]
        <4>1. p # pair /\ p # sender /\ p \in Accounts
          BY <2>3, RouterAssumption DEF Accounts
        <4> QED BY <1>2, <4>1 DEF SwapStep
      <3> QED BY <1>4, <2>1, <2>2, <3>1, <3>2, AheadLemma DEF op
    <2>9. Brought(b, c, k, 0)
      <3>1. k < last => b[c.operations[k + 1].offer][Addr] = bal[c.operations[k + 1].offer][Addr]
        <4>1. last \in Nat /\ k \in 1..last
          BY <2>1
        <4> HIDE DEF last
        <4>2. k < last => c.operations[k + 1].offer = ask
          BY <2>5, <2>6, <4>1
        <4> QED BY <1>2, <4>2 DEF SwapStep
      <3>2. b[target][c.to] = bal[target][c.to]
        BY <1>2, <2>3, <2>5 DEF SwapStep
      <3> QED BY <2>2, <3>1, <3>2 DEF Brought, target
    <2>10. CASE r = 0
      <3>1. x = 0 /\ t = << >>
        BY <1>2, <2>7, <2>10, AfterNoTaxLemma DEF SwapStep
      <3> QED BY <1>1, <2>1, <2>2, <2>8, <2>9, <3>1, StillFollowsLemma DEF x
    <2>11. CASE r # 0
      <3>1. /\ Len(t) = 1
            /\ t[1].type \in Payouts /\ t[1].asset = ask /\ t[1].from = pair
            /\ t[1].to = to /\ t[1].amount = AfterTax(ask, r)
            /\ to = IF Told(c, k) = Unset THEN Addr ELSE Told(c, k)
        BY <1>2, <2>3, <2>11 DEF SwapStep
      <3>2. to = IF k = last THEN c.to ELSE Addr
        BY <2>5, <3>1 DEF Told
      <3>3. InFlight(b, committed, c, k, t[1])
        BY <2>3, <2>6, <2>7, <3>1, <3>2 DEF InFlight, op, x
      <3> QED BY <1>1, <2>1, <2>2, <2>8, <2>9, <3>1, <3>3, StillFollowsLemma
    <2> QED BY <2>10, <2>11
  <1>5. Follows(b, out, committed, call)
    BY <1>4 DEF Follows
  <1> HIDE DEF out
  <1> QED BY <1>3, <1>5, FollowedLemma

\* What a step that ends an operation must bring.
LEMMA BringLemma ==
    ASSUME Following, call # NoCall, Straight(call), Fresh(call),
           stack \in Seq(Messages), stack # << >>, bal \in Ledgers, NEW b \in Ledgers,
           call.operations \in Seq(Operations), call.operations # << >>,
           call.start \in Ledgers,
           NEW k \in 1..Len(call.operations), NEW x \in Nat,
           Ahead(bal, committed, call, k),
           Remains(stack, call, k, 1), Brought(bal, call, k, 0),
           x = Simulated(committed, call)[k],
           NEW to, to = IF k = Len(call.operations) THEN call.to ELSE Addr,
           \A a \in Assets, d \in Accounts :
               /\ d \notin PairsOf(call.operations[k].offer, call.operations[k].ask)
               /\ d = Addr => a # call.operations[k].offer
               => b[a][d] = bal[a][d] + (IF a = call.operations[k].ask /\ d = to
                                         THEN x ELSE 0)
    PROVE  Follows(b, << >> \o Tail(stack), committed, call)
  <1> DEFINE c == call
             op == c.operations[k]
             last == Len(c.operations)
             target == get_target_asset_info(c.operations)
  <1>1. /\ c.to \in Accounts /\ c.to # Addr /\ c.to \notin Pairs
        /\ op.offer \in Assets /\ op.ask \in Assets /\ target = c.operations[last].ask
        /\ k # last => k + 1 \in 1..last /\ op.ask = c.operations[k + 1].offer
    BY StraightLemma
  <1>2. /\ last \in Nat /\ last \in 1..last /\ k \in 1..last /\ target \in Assets
        /\ Addr \in Accounts /\ Addr \notin Pairs
        /\ Pairs \subseteq Accounts /\ PairsOf(op.offer, op.ask) \subseteq Pairs
    <2>1. last \in Nat /\ last \in 1..last /\ target \in Assets
      <3>1. last \in 1..last /\ \A i \in 1..last : c.operations[i].ask \in Assets
        BY StraightLemma
      <3> QED BY <1>1, <3>1
    <2> QED BY <2>1, RouterAssumption DEF Accounts, PairsOf
  <1>3. k < last => op.ask # op.offer
    <2>1. k < last => k \in 1..last /\ k + 1 \in 1..last /\ k < k + 1 /\ k # last
      <3> HIDE DEF last
      <3> QED BY <1>1, <1>2
    <2>2. k < last => c.operations[k].offer # c.operations[k + 1].offer
      BY <2>1, StraightLemma
    <2> QED BY <1>1, <2>1, <2>2
  <1>4. \A a \in Assets, d \in Accounts : bal[a][d] \in Nat
    BY DEF Ledgers
  <1> HIDE DEF op, last, target
  <1>5. Ahead(b, committed, c, k)
    <2>1. ASSUME NEW a \in Assets \ {op.offer, op.ask} PROVE b[a][Addr] = bal[a][Addr]
      BY <1>2, <1>4 DEF op
    <2>2. ASSUME NEW p \in Pairs \ PairsOf(op.offer, op.ask), NEW a \in Assets
          PROVE  b[a][p] = bal[a][p]
      <3>1. p # to
        BY <1>1, <1>2
      <3> QED BY <1>2, <1>4, <3>1 DEF op
    <2> QED BY <2>1, <2>2, AheadLemma DEF op
  <1>6. Brought(b, c, k, x)
    <2>1. ASSUME k < last
          PROVE  /\ b[c.operations[k + 1].offer][Addr] = x
                 /\ b[target][c.to] - c.start[target][c.to] = 0
      <3>1. /\ bal[op.ask][Addr] = 0
            /\ bal[target][c.to] - c.start[target][c.to] = 0
            /\ k # last /\ c.operations[k + 1].offer = op.ask
        BY <1>1, <1>2, <2>1 DEF Brought, last, target
      <3>2. to = Addr
        BY <3>1 DEF last
      <3>3. b[op.ask][Addr] = bal[op.ask][Addr] + x
        BY <1>1, <1>2, <1>3, <2>1, <3>2 DEF op
      <3>4. b[target][c.to] = bal[target][c.to]
        BY <1>1, <1>2, <1>4, <3>2, SMTT(30) DEF op
      <3> QED BY <3>1, <3>3, <3>4
    <2>2. ASSUME k = last
          PROVE  b[target][c.to] - c.start[target][c.to] = x
      <3>1. bal[target][c.to] - c.start[target][c.to] = 0 /\ target = op.ask
        BY <1>1, <2>2 DEF Brought, last, target, op
      <3>2. to = c.to
        BY <2>2 DEF last
      <3>3. b[target][c.to] = bal[target][c.to] + x
        BY <1>1, <1>2, <3>1, <3>2 DEF op
      <3>4. bal[target][c.to] \in Nat /\ c.start[target][c.to] \in Nat
        BY <1>1, <1>2, <1>4, ZenonT(30) DEF Ledgers
      <3> HIDE DEF target
      <3> QED BY <3>1, <3>3, <3>4
    <2> QED BY <2>1, <2>2 DEF Brought, last, target
  <1> DEFINE t == << >>
  <1>7. t \in Seq(Messages) /\ t = << >>
    OBVIOUS
  <1> HIDE DEF t
  <1>8. Follows(b, t \o Tail(stack), committed, c)
    BY <1>5, <1>6, <1>7, StillFollowsLemma
  <1> QED BY <1>7, <1>8

\* A payout brings what is simulated.
LEMMA FollowPayLemma ==
    ASSUME Sweeping, Following, pay
    PROVE  Followed
  <1>1. /\ ~Idle /\ stack # << >> /\ stack \in Seq(Messages) /\ bal \in Ledgers
        /\ stack[1].type \in Payouts
    BY PayStepLemma
  <1>2. PICK asset \in Assets, pair \in Pairs, to \in Accounts, n \in Nat, b \in Ledgers :
           PayStep(asset, pair, to, n, b)
    BY PayStepLemma
  <1> DEFINE c == call
             out == << >> \o Tail(stack)
  <1>3. Become(b, out, call) /\ out \in Seq(Messages)
    <2>1. Tail(stack) \in Seq(Messages)
      BY <1>1, TailLemma
    <2> QED BY <1>2, <2>1 DEF PayStep
  <1>4. ASSUME c # NoCall, Straight(c), Fresh(c) PROVE Follows(b, out, committed, c)
    <2>1. stack[1].type \notin {"ExecuteSwapOperation", "AssertMinimumReceive"}
      BY <1>1 DEF Payouts
    <2>2. /\ c.operations \in Seq(Operations) /\ c.operations # << >>
          /\ c.start \in Ledgers
      BY <1>1, <1>4, <2>1, InFlightLemma
    <2>3. PICK k \in 1..Len(c.operations) :
             /\ Ahead(bal, committed, c, k)
             /\ Remains(stack, c, k, 1) /\ Brought(bal, c, k, 0)
             /\ InFlight(bal, committed, c, k, stack[1])
      BY <1>1, <1>4, <2>1, InFlightLemma
    <2> DEFINE op == c.operations[k]
               x == Simulated(committed, c)[k]
    <2>4. /\ pair \in PairsOf(op.offer, op.ask) /\ asset = op.ask
          /\ to = IF k = Len(c.operations) THEN c.to ELSE Addr
          /\ n = x
      BY <1>1, <1>2, <2>3 DEF InFlight, PayStep, Payouts
    <2>5. \A a \in Assets, d \in Accounts :
              d \notin PairsOf(op.offer, op.ask)
              => b[a][d] = bal[a][d] + (IF a = op.ask /\ d = to THEN n ELSE 0)
      <3> HIDE DEF op, x, c
      <3>1. \A a \in Assets, d \in Accounts : bal[a][d] \in Nat
        BY <1>1 DEF Ledgers
      <3> QED BY <1>2, <2>4, <3>1 DEF PayStep
    <2> QED BY <1>1, <1>4, <2>2, <2>3, <2>4, <2>5, BringLemma
  <1>5. Follows(b, out, committed, call)
    BY <1>4 DEF Follows
  <1> HIDE DEF out
  <1> QED BY <1>3, <1>5, FollowedLemma

\* So does the market.
LEMMA FollowMarketLemma ==
    ASSUME Sweeping, Following, market_swap
    PROVE  Followed
  <1>1. /\ ~Idle /\ stack # << >> /\ stack \in Seq(Messages) /\ bal \in Ledgers
        /\ stack[1].type = "MarketSwap"
    BY MarketStepLemma
  <1>2. PICK offer \in Assets, ask \in Assets, told \in Accounts \cup {Unset}, n \in Nat,
             to \in Accounts, tax \in Nat, minted \in Nat, b \in Ledgers :
           MarketStep(offer, ask, told, n, to, tax, minted, b)
    BY MarketStepLemma
  <1> DEFINE c == call
             out == << >> \o Tail(stack)
  <1>3. Become(b, out, call) /\ out \in Seq(Messages)
    <2>1. Tail(stack) \in Seq(Messages)
      BY <1>1, TailLemma
    <2> QED BY <1>2, <2>1 DEF MarketStep
  <1>4. ASSUME c # NoCall, Straight(c), Fresh(c) PROVE Follows(b, out, committed, c)
    <2>1. /\ c.operations \in Seq(Operations) /\ c.operations # << >>
          /\ c.start \in Ledgers
      BY <1>1, <1>4, InFlightLemma
    <2>2. PICK k \in 1..Len(c.operations) :
             /\ Ahead(bal, committed, c, k)
             /\ Remains(stack, c, k, 1) /\ Brought(bal, c, k, 0)
             /\ InFlight(bal, committed, c, k, stack[1])
      BY <1>1, <1>4, InFlightLemma
    <2> DEFINE op == c.operations[k]
               x == Simulated(committed, c)[k]
    <2>3. /\ offer = op.offer /\ ask = op.ask /\ told = Told(c, k)
          /\ minted = x
      BY <1>1, <1>2, <2>2 DEF InFlight, MarketStep, Payouts
    <2>4. to = IF k = Len(c.operations) THEN c.to ELSE Addr
      <3>1. c.to # Unset
        BY <1>4, <2>1, StraightLemma
      <3>2. to = IF told = Unset THEN Addr ELSE told
        BY <1>2 DEF MarketStep
      <3> QED BY <2>3, <3>1, <3>2 DEF Told
    <2>5. \A a \in Assets, d \in Accounts :
              (d = Addr => a # op.offer)
              => b[a][d] = bal[a][d] + (IF a = op.ask /\ d = to THEN minted ELSE 0)
      <3> HIDE DEF op, x, c
      <3>1. \A a \in Assets, d \in Accounts : bal[a][d] \in Nat
        BY <1>1 DEF Ledgers
      <3> QED BY <1>2, <2>3, <3>1 DEF MarketStep, Exchanged
    <2> QED BY <1>1, <1>4, <2>1, <2>2, <2>3, <2>4, <2>5, BringLemma
  <1>5. Follows(b, out, committed, call)
    BY <1>4 DEF Follows
  <1> HIDE DEF out
  <1> QED BY <1>3, <1>5, FollowedLemma

\* The check comes last, and moves nothing.
LEMMA FollowCheckLemma ==
    ASSUME Sweeping, Following, assert_minium_receive
    PROVE  Followed
  <1>1. /\ ~Idle /\ stack[1].type = "AssertMinimumReceive" /\ bal \in Ledgers
        /\ Become(bal, Tail(stack), call) /\ stack \in Seq(Messages) /\ stack # << >>
    BY DEF assert_minium_receive, Sweeping, Idle
  <1> DEFINE c == call
             n == Len(c.operations)
             out == << >> \o Tail(stack)
  <1>2. /\ Become(bal, out, call) /\ out \in Seq(Messages)
        /\ << >> \in Seq(Messages) /\ Len(<< >>) = 0
    <2>1. Tail(stack) \in Seq(Messages)
      BY <1>1, TailLemma
    <2>2. out = Tail(stack)
      BY <2>1
    <2> QED BY <1>1, <2>1, <2>2
  <1>3. ASSUME c # NoCall, Straight(c), Fresh(c) PROVE Follows(bal, out, committed, c)
    <2>1. /\ c.operations \in Seq(Operations) /\ c.operations # << >>
          /\ c.start \in Ledgers
      BY <1>3 DEF Following, Follows
    <2>2. PICK k \in 0..n :
              /\ Ahead(bal, committed, c, k)
              /\ \/ /\ Remains(stack, c, k, 0)
                    /\ Brought(bal, c, k, Simulated(committed, c)[k])
                 \/ InFlight(bal, committed, c, k, stack[1])
      BY <1>3 DEF Following, Follows
    <2>3. /\ Remains(stack, c, k, 0)
          /\ Brought(bal, c, k, Simulated(committed, c)[k])
      BY <1>1, <2>2 DEF InFlight, Payouts
    <2>4. k = n
      <3>1. k # n => stack[1] = ExecuteSwapOperation(c.operations[k + 1], Told(c, k + 1))
        BY <1>1, <1>2, <2>1, <2>3, RemainsLemma
      <3> HIDE DEF n
      <3> QED BY <1>1, <3>1 DEF ExecuteSwapOperation
    <2>5. Remains(out, c, k, 0)
      BY <1>1, <1>2, <2>1, <2>3, <2>4, RemainsLemma
    <2> HIDE DEF out
    <2> QED BY <2>1, <2>2, <2>3, <2>5 DEF Follows
  <1>4. Follows(bal, out, committed, call)
    BY <1>3 DEF Follows
  <1> HIDE DEF out
  <1> QED BY <1>2, <1>4, FollowedLemma

\* At first nothing has begun, and there are the funds.
LEMMA FollowBeginLemma ==
    ASSUME Sweeping, Following, NEW user \in Users, NEW funds \in [Assets -> Nat],
           \A a \in Assets : funds[a] <= bal[a][user],
           NEW operations \in Seq(Operations), NEW minimum_receive \in Nat \cup {Unset},
           NEW to \in Accounts,
           execute_swap_operations(WithFunds(user, funds), operations, minimum_receive,
                                   to, funds)
    PROVE  Followed
  <1> DEFINE b == WithFunds(user, funds)
             c == [operations |-> operations, funds |-> funds,
                   minimum |-> minimum_receive, to |-> to, start |-> b]
             n == Len(operations)
             target == get_target_asset_info(operations)
  <1>1. bal \in Ledgers
    BY DEF Sweeping
  <1>2. /\ Idle /\ operations # << >> /\ b \in Ledgers
    BY <1>1, StartsLemma
  <1>3. PICK out \in Seq(Messages) :
               /\ Become(b, out, c)
               /\ Len(out) - n \in {0, 1}
               /\ \A i \in 1..Len(out) :
                     IF i <= n
                     THEN out[i] = ExecuteSwapOperation(operations[i],
                                       IF i = n THEN to ELSE Unset)
                     ELSE out[i].type = "AssertMinimumReceive"
    BY <1>1, StartsLemma
  <1>4. n \in Nat /\ Len(out) \in Nat /\ 0 \in 0..n /\ 1 \in 1..n
    BY <1>2
  <1>5. /\ c.operations = operations /\ c.funds = funds /\ c.to = to /\ c.start = b
    OBVIOUS
  <1>6. \A a \in Assets, p \in Pairs : b[a][p] = committed[a][p]
    <2>1. bal = committed
      BY <1>2 DEF Following
    <2>2. \A p \in Pairs : p # user /\ p # Addr /\ p \in Accounts
      BY RouterAssumption DEF Accounts
    <2> QED BY <1>1, <2>1, <2>2 DEF WithFunds, Ledgers
  <1> HIDE DEF b, c
  <1>7. ASSUME Straight(c), Fresh(c) PROVE Follows(b, out, committed, c)
    <2>1. c.operations \in Seq(Operations) /\ c.operations # << >> /\ c.start \in Ledgers
      BY <1>2, <1>5
    <2>2. /\ \A a \in Assets : b[a][Addr] = funds[a] /\ (funds[a] > 0 <=> a = operations[1].offer)
          /\ \A a \in Assets : funds[a] \in Nat
      BY <1>5, <1>7 DEF Straight, Fresh
    <2>3. \A l \in 1..n : operations[l].offer \in Assets /\ operations[l].ask \in Assets
      BY <1>5, <1>7, <2>1, StraightLemma
    <2>4. \A l \in 1..n : 1 < l => operations[l].offer # operations[1].offer
      BY <1>4, <1>5, <1>7, <2>1, StraightLemma
    <2> HIDE DEF n
    <2>5. Ahead(b, committed, c, 0)
      <3>1. ASSUME NEW l \in (0 + 2)..n PROVE b[operations[l].offer][Addr] = 0
        <4>1. l \in 1..n /\ 1 < l
          BY <1>4
        <4> QED BY <2>2, <2>3, <2>4, <4>1
      <3>2. \A l \in (0 + 1)..n :
               \A p \in PairsOf(operations[l].offer, operations[l].ask), a \in Assets :
                   b[a][p] = committed[a][p]
        BY <1>6 DEF PairsOf
      <3> QED BY <1>5, <3>1, <3>2 DEF Ahead, n
    <2>6. Remains(out, c, 0, 0)
      <3>1. Len(out) - (0 + (n - 0)) \in {0, 1}
        BY <1>3, <1>4
      <3>2. ASSUME NEW i \in (0 + 1)..Len(out)
            PROVE  IF i <= 0 + (n - 0)
                   THEN out[i] = ExecuteSwapOperation(operations[0 + i - 0], Told(c, 0 + i - 0))
                   ELSE out[i].type = "AssertMinimumReceive"
        <4>1. i \in 1..Len(out) /\ 0 + i - 0 = i /\ 0 + (n - 0) = n
          BY <1>4
        <4>2. Told(c, i) = IF i = n THEN to ELSE Unset
          BY <1>5 DEF Told, n
        <4> QED BY <1>3, <4>1, <4>2
      <3> QED BY <1>5, <3>1, <3>2 DEF Remains, n
    <2>7. Brought(b, c, 0, Simulated(committed, c)[0])
      <3>1. Simulated(committed, c)[0] = funds[operations[1].offer]
        BY <1>5, <2>1, SimulatedLemma
      <3>2. b[operations[0 + 1].offer][Addr] = funds[operations[1].offer]
        BY <1>4, <2>2, <2>3
      <3>3. b[target][to] - b[target][to] = 0
        <4>1. target \in Assets
          <5>1. n \in 1..n /\ target = operations[n].ask
            BY <1>4 DEF get_target_asset_info, n
          <5> QED BY <2>3, <5>1
        <4>2. b[target][to] \in Nat
          BY <1>2, <4>1 DEF Ledgers
        <4> HIDE DEF target
        <4> QED BY <4>2
      <3>4. 0 # n
        BY <1>4
      <3> QED BY <1>5, <3>1, <3>2, <3>3, <3>4 DEF Brought, n, target
    <2>8. 0 \in 0..Len(c.operations)
      BY <1>4, <1>5 DEF n
    <2> QED BY <2>1, <2>5, <2>6, <2>7, <2>8 DEF Follows
  <1>8. Follows(b, out, committed, c)
    BY <1>7 DEF Follows
  <1> QED BY <1>2, <1>3, <1>8, FollowedLemma

LEMMA FollowingLemma ==
    ASSUME Sweeping, Following, [Next]_vars
    PROVE  Following' /\ (UNCHANGED vars \/ Followed)
  <1>1. ASSUME NEW user \in Users, NEW operations \in Routes, NEW minimum \in Minimums,
               NEW to \in Receivers, Calls(user, operations, minimum, to)
        PROVE  Followed
    <2>1. /\ operations \in Seq(Operations) /\ to \in Accounts
          /\ minimum \in Nat \cup {Unset}
      BY RouterAssumption
    <2>2. PICK funds \in [Assets -> Nat] :
             /\ \A a \in Assets : funds[a] <= bal[a][user]
             /\ execute_swap_operations(WithFunds(user, funds), operations, minimum, to, funds)
      BY <1>1, CallsLemma DEF Sweeping
    <2> QED BY <2>1, <2>2, FollowBeginLemma
  <1>3. CASE execute_swap_operation
    BY <1>3, FollowOperationLemma DEF Followed
  <1>4. CASE assert_minium_receive
    BY <1>4, FollowCheckLemma DEF Followed
  <1>5. CASE swap
    BY <1>5, FollowSwapLemma DEF Followed
  <1>6. CASE pay
    BY <1>6, FollowPayLemma DEF Followed
  <1>7. CASE market_swap
    BY <1>7, FollowMarketLemma DEF Followed
  <1>8. \A b, out : Follows(b, out, committed, NoCall)
    BY DEF Follows
  <1>9. ASSUME Abort PROVE Followed
    <2>1. Become(committed, << >>, NoCall) /\ << >> \in Seq(Messages)
      BY <1>9 DEF Abort
    <2> QED BY <1>8, <2>1, FollowedLemma
  <1>10. ASSUME NEW user \in Users, NEW pair \in Pairs, NEW offer \in Assets,
                NEW amount \in Amounts, trade(user, pair, offer, amount)
         PROVE  Followed
    <2> DEFINE m == [type |-> "Swap", pair |-> pair, offer |-> offer, amount |-> amount,
                     sender |-> user, to |-> Unset]
    <2>1. Idle /\ offer \in pair_assets[pair] /\ Become(bal, << m >>, NoCall)
      BY <1>10 DEF trade
    <2>2. amount \in Nat
      BY RouterAssumption
    <2>3. m \in Messages
      BY <2>1, <2>2 DEF Messages
    <2> HIDE DEF m
    <2>4. << m >> \in Seq(Messages)
      BY <2>3
    <2> QED BY <1>8, <2>1, <2>4, FollowedLemma
  <1>11. ASSUME NEW user \in Users, NEW asset \in Assets, NEW amount \in Gifts,
                transfer(user, asset, amount, Addr)
         PROVE  Followed
    <2> DEFINE b == Moved(bal, asset, user, Addr, amount)
    <2>1. Idle /\ Become(b, << >>, NoCall) /\ << >> \in Seq(Messages)
      BY <1>11 DEF transfer
    <2> HIDE DEF b
    <2> QED BY <1>8, <2>1, FollowedLemma
  <1>12. CASE UNCHANGED vars
    <2>1. bal' = bal /\ stack' = stack /\ committed' = committed /\ call' = call
      BY <1>12 DEF vars
    <2>2. Following'
      BY <2>1 DEF Following, Idle
    <2> QED BY <1>12, <2>2
  <1>13. CASE Followed
    BY <1>13 DEF Followed
  <1> QED BY <1>1, <1>3, <1>4, <1>5, <1>6, <1>7, <1>9, <1>10, <1>11, <1>12, <1>13
          DEF Next, Calls

\* Whoever has traded before, on a straight route that takes effect the receiver
\* gets what simulate_swap_operations says of it on the ledger it starts from.
THEOREM SimulationsAreExact == Spec => SimulationExact
  <1>1. Init => Sweeping /\ Following
    <2>1. Init => bal = committed /\ call = NoCall
      BY DEF Init
    <2> QED BY <2>1, SweepInitLemma DEF Following, Follows
  <1>2. Sweeping /\ Following /\ [Next]_vars => Sweeping' /\ Following'
    BY SweepingLemma, FollowingLemma
  <1> DEFINE Exact == Completes /\ Straight(call) /\ Fresh(call) =>
                Received = simulate_swap_operations(committed, call.operations,
                                              call.funds[call.operations[1].offer])
  <1>3. Sweeping /\ Following /\ [Next]_vars => [Exact]_vars
    BY FollowingLemma DEF Followed
  <1> HIDE DEF Exact
  <1>4. Spec => [][Exact]_vars
    BY <1>1, <1>2, <1>3, PTL DEF Spec
  <1> QED BY <1>4 DEF Exact, SimulationExact

=============================================================================
