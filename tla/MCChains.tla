------------------------------- MODULE MCChains -------------------------------
(* Small swaps on both kinds of chain for TLC. *)
EXTENDS Chains, TLC
CONSTANTS p1, p2, p3

ThreeCycle == p1 :> p2 @@ p2 :> p3 @@ p3 :> p1

Exec == "evaluated" :> 1 @@ "ceiling" :> 3
ParamsNow == [min_fee_a |-> 1, min_fee_b |-> 1, price |-> 1]
ParamsNext == [min_fee_a |-> 1, min_fee_b |-> 3, price |-> 1]

\* Amounts on both sides of a step in the width of a number.
Amounts == p1 :> 100 @@ p2 :> 300 @@ p3 :> 100
On(c1, c2, c3) == p1 :> c1 @@ p2 :> c2 @@ p3 :> c3
Funded(f1, f2, f3) == p1 :> f1 @@ p2 :> f2 @@ p3 :> f3
Exact == Funded("exact", "exact", "exact")

Swap(chain, funding, budgets) ==
    [chain |-> chain, amount |-> Amounts, funding |-> funding, budgets |-> budgets]

B == "Bitcoin"
A == "Cardano"
MixedSwaps ==
    {Swap(On(B, B, A), Exact, Budgets),
     Swap(On(A, A, B), Exact, {"ceiling"}),
     Swap(On(B, A, B), Exact, {"ceiling"}),
     Swap(On(B, A, A), Funded("exact", "excess", "exact"), {"ceiling"}),
     Swap(On(B, A, A), Funded("exact", "exact", "spent"), {"ceiling"}),
     Swap(On(B, A, A), Funded("spent", "exact", "exact"), {"ceiling"}),
     Swap(On(B, A, A), Funded("excess", "exact", "short"), {"ceiling"})}

Fees(b, c) == [bitcoin_fee |-> b, cardano_fee |-> c]
Agreed == [p \in Participants |-> Fees(3, 8)]
SomeTerms == {Agreed, [Agreed EXCEPT ![p2] = Fees(4, 8)],
                      [Agreed EXCEPT ![p2] = Fees(3, 9)]}

\* What the theorems about refusals and outcomes presume of a swap.
ASSUME FeesFit == DepositsCoverFees /\ MeasuredInFull

===============================================================================
