--------------------------- MODULE MCSenderProofs ---------------------------
(* Instances of SenderProofs for TLC. *)
EXTENDS SenderProofs

CONSTANTS r1, r2, acc1, acc2, gold, silver

Item(a, b, s, n) == [from |-> a, to |-> b, asset |-> s, amount |-> n]
Input(kind, found, assets, items) ==
    [kind |-> kind, legFound |-> found, legAssets |-> assets, items |-> items]

TwoAssets == <<Item(acc1, acc2, gold, 1), Item(acc1, acc2, silver, 1)>>

\* An affirmation of two assets; the same with an asset that is not in the leg
\* and with no such leg; moves from two accounts, of two assets, and twice from
\* one balance; a burn of all there is.
SomeInputs ==
    {Input("affirm", TRUE, {gold, silver}, TwoAssets),
     Input("affirm", TRUE, {gold}, TwoAssets),
     Input("affirm", FALSE, {}, TwoAssets),
     Input("move", TRUE, {}, <<Item(acc1, acc2, gold, 1), Item(acc2, acc1, gold, 1)>>),
     Input("move", TRUE, {}, TwoAssets),
     Input("move", TRUE, {}, <<Item(acc1, acc2, gold, 1), Item(acc1, acc2, gold, 1)>>),
     Input("burn", TRUE, {}, <<Item(acc1, acc1, gold, 2)>>)}

AllFaults == {"fetch", "getBalance", "proof", "submit"}
=============================================================================
