--------------------------- MODULE MCGroupLedger ---------------------------
(* Instances of GroupLedger for TLC: small expenses of every kind.           *)
EXTENDS GroupLedger

Split(mode, shares) == [mode |-> mode, shares |-> shares]
One(p, n) == [x \in {p} |-> n]
Flat(amount, payer, paidBy, paidFor) ==
    [amount |-> amount, original |-> amount, converted |-> FALSE, payer |-> payer,
     paidBy |-> paidBy, paidFor |-> paidFor, items |-> <<>>, rest |-> Split("EVENLY", Nobody)]
Foreign(e, original) == [e EXCEPT !.original = original, !.converted = TRUE]
ItemizedBy(e, items, rest) == [e EXCEPT !.items = items, !.rest = rest]

Among(who) == [p \in who |-> 1]
Thirds == Flat(10, 1, Split("BY_AMOUNT", One(1, 10)), Split("EVENLY", Among({2, 3, 4})))
Dollars == Foreign(Flat(9, 2, Split("BY_AMOUNT", One(2, 10)),
                        Split("BY_PERCENTAGE", (1 :> 2500) @@ (4 :> 7500))), 10)
Receipt == ItemizedBy(Flat(11, 3, Split("EVENLY", Among({2, 3})), Split("ITEMIZED", Nobody)),
              <<[amount |-> 5, split |-> Split("BY_SHARES", (1 :> 200) @@ (2 :> 100))],
                [amount |-> 3, split |-> Split("BY_AMOUNT", One(4, 3))]>>,
              Split("PROPORTIONAL", Nobody))
Hole == ItemizedBy(Flat(8, 1, Split("EVENLY", One(1, 1)), Split("ITEMIZED", Nobody)),
              <<[amount |-> 4, split |-> Split("EVENLY", Nobody)],
                [amount |-> 3, split |-> Split("BY_SHARES", (1 :> 100) @@ (3 :> 100))]>>,
              Split("EVENLY", Nobody))
Refund == Flat(-2, 2, Split("EVENLY", One(2, 1)), Split("EVENLY", Among(1..4)))
Euros == Foreign(Flat(9, 3, Split("EVENLY", Among({3, 4})), Split("EVENLY", Among({1, 3, 4}))), 10)
Excess == ItemizedBy(Flat(2, 1, Split("EVENLY", One(1, 1)), Split("ITEMIZED", Nobody)),
              <<[amount |-> 3, split |-> Split("EVENLY", Among({1, 3}))]>>,
              Split("EVENLY", Nobody))
FewExpenses == {Thirds, Dollars, Receipt}
SomeLeft == {{1, 2, 3}, {4}}
AllExpenses == FewExpenses \cup {Hole, Excess, Refund, Euros}
=============================================================================
