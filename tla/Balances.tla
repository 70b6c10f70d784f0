------------------------------ MODULE Balances ------------------------------
(* What the members of a group owe each other (packages/domain): the exact   *)
(* share of each participant in each expense, the distribution of the cents  *)
(* that are left over, the balances and the settlements suggested for them.  *)
(* Participants are numbers, ordered as their ids are; floats are exact.     *)
EXTENDS Integers, Sequences, FiniteSets, Functions, SequencesExt

-----------------------------------------------------------------------------
Magnitude(n) == IF n < 0 THEN -n ELSE n

Gcd[p \in Nat \X Nat] == IF p[2] = 0 THEN p[1] ELSE Gcd[<<p[2], p[1] % p[2]>>]

Whole(n) == [num |-> n, den |-> 1]
Fraction(n, d) ==
    LET divisor == Gcd[<<Magnitude(n), Magnitude(d)>>]
        sign    == IF d < 0 THEN -1 ELSE 1
    IN  IF d = 0 THEN Whole(0)
        ELSE [num |-> (sign * n) \div divisor, den |-> (sign * d) \div divisor]

Plus(a, b)   == Fraction(a.num * b.den + b.num * a.den, a.den * b.den)
Scaled(a, n, d) == Fraction(a.num * n, a.den * d)
Below(a, b)  == a.num * b.den < b.num * a.den
Truncated(a) == IF a.num < 0 THEN -((-a.num) \div a.den) ELSE a.num \div a.den
Leftover(a)  == Fraction(Magnitude(a.num - Truncated(a) * a.den), a.den)
Rounded(a)   == (2 * a.num + a.den) \div (2 * a.den)

(* Amounts by participant: who has none is not in the domain.                *)
Of(amounts, p)  == IF p \in DOMAIN amounts THEN amounts[p] ELSE Whole(0)
Added(one, two) == [p \in DOMAIN one \cup DOMAIN two |-> Plus(Of(one, p), Of(two, p))]
Total(amounts)  == FoldFunction(Plus, Whole(0), amounts)
Nobody          == [p \in {} |-> Whole(0)]

-----------------------------------------------------------------------------
(* Mutant: the cents that are left go round by id alone.                     *)
DistributeById(exact, amount, seed) ==
    LET kept   == [p \in DOMAIN exact |-> Truncated(exact[p])]
        gap    == amount - SumFunction(kept)
        step   == IF gap > 0 THEN 1 ELSE -1
        n      == Cardinality(DOMAIN exact)
        Place(p)  == (Cardinality({q \in DOMAIN exact : q < p}) - seed) % n
        Rounds(p) == (Magnitude(gap) \div n) + (IF Place(p) < Magnitude(gap) % n THEN 1 ELSE 0)
    IN  [p \in DOMAIN exact |-> kept[p] + step * Rounds(p)]

(* Truncates toward zero; the cents that are left go round, largest fraction *)
(* first, then by id, an order the seed turns among equal fractions.         *)
Distribute(exact, amount, seed) ==
    LET kept   == [p \in DOMAIN exact |-> Truncated(exact[p])]
        gap    == amount - SumFunction(kept)
        step   == IF gap > 0 THEN 1 ELSE -1
        Larger(p) == {q \in DOMAIN exact : Below(Leftover(exact[p]), Leftover(exact[q]))}
        Equal(p)  == {q \in DOMAIN exact : Leftover(exact[q]) = Leftover(exact[p])}
        Turn(p)   == (Cardinality({q \in Equal(p) : q < p}) - seed) % Cardinality(Equal(p))
        Place(p)  == Cardinality(Larger(p)) + Turn(p)
        n         == Cardinality(DOMAIN exact)
        Rounds(p) == (Magnitude(gap) \div n) + (IF Place(p) < Magnitude(gap) % n THEN 1 ELSE 0)
    IN  [p \in DOMAIN exact |-> kept[p] + step * Rounds(p)]

(* A split says how an amount is divided: [mode, shares by participant].     *)
ExactShares(amount, split) ==
    LET shares == split.shares
        Share(p) == CASE split.mode = "EVENLY" -> Fraction(amount, Cardinality(DOMAIN shares))
                      [] split.mode = "BY_SHARES" -> Fraction(amount * shares[p], SumFunction(shares))
                      [] split.mode = "BY_PERCENTAGE" -> Fraction(amount * shares[p], 10000)
                      [] split.mode \in {"BY_AMOUNT", "ITEMIZED"} -> Whole(shares[p])
    IN  [p \in DOMAIN shares |-> IF amount = 0 THEN Whole(0) ELSE Share(p)]

(* What literal shares leave of the amount goes to the primary payer.        *)
Residual(exact, amount, payer) ==
    LET gap == amount - Rounded(Total(exact))
    IN  IF gap = 0 THEN exact ELSE Added(exact, [p \in {payer} |-> Whole(gap)])

-----------------------------------------------------------------------------
(* An item is [amount, split]; the rest of the expense, which no item with   *)
(* participants covers, is split by the remainder's rule.                    *)
Assigned(items) == {i \in DOMAIN items : DOMAIN items[i].split.shares # {}}
ItemsAmount(items, indices) == SumFunctionOnSet([i \in DOMAIN items |-> items[i].amount], indices)
Subtotals(items) ==
    FoldFunctionOnSet(Added, Nobody,
        [i \in DOMAIN items |-> ExactShares(items[i].amount, items[i].split)],
        {i \in Assigned(items) : items[i].amount # 0})

ItemShares(items, members, amount, rest) ==
    LET covered  == ItemsAmount(items, Assigned(items))
        exact    == Subtotals(items)
        filler   == amount - covered
        custom   == IF rest.shares = Nobody THEN [mode |-> rest.mode, shares |-> [p \in members |-> 1]]
                                            ELSE rest
    IN  CASE filler = 0 -> exact
          [] filler # 0 /\ rest.mode = "PROPORTIONAL" ->
                [p \in DOMAIN exact |-> Plus(exact[p], Scaled(exact[p], filler, covered))]
          [] filler # 0 /\ rest.mode # "PROPORTIONAL" -> Added(exact, ExactShares(filler, custom))

(* What these calls refuse: items beyond the expense, and a proportional     *)
(* rest with nothing to be in proportion to.                                 *)
ItemsAllowed(items, amount, rest) ==
    LET sum     == ItemsAmount(items, DOMAIN items)
        covered == ItemsAmount(items, Assigned(items))
        SameSign(n) == (n > 0 /\ covered > 0) \/ (n < 0 /\ covered < 0)
    IN  /\ IF amount < 0 THEN sum >= amount ELSE sum <= amount
        /\ rest.mode = "PROPORTIONAL" /\ amount # covered =>
              /\ Assigned(items) = DOMAIN items
              /\ SameSign(amount)
              /\ \A p \in DOMAIN Subtotals(items) :
                    LET n == Subtotals(items)[p].num IN n = 0 \/ SameSign(n)

-----------------------------------------------------------------------------
(* An expense: payer is the first of paidByList; original is the amount that *)
(* was paid, in its own currency if the expense is converted.                *)
(* IsExpense says what expenseApiSchema lets through, its amount converted.  *)
Modes == {"EVENLY", "BY_SHARES", "BY_PERCENTAGE", "BY_AMOUNT"}
IsSplit(split, modes, members) ==
    /\ DOMAIN split = {"mode", "shares"} /\ split.mode \in modes
    /\ DOMAIN split.shares \subseteq members
    /\ \A p \in DOMAIN split.shares : split.shares[p] \in Int
IsExpense(e, members) ==
    /\ DOMAIN e = {"amount", "original", "converted", "payer", "paidBy", "paidFor", "items", "rest"}
    /\ e.amount \in Int /\ e.original \in Int \ {0} /\ e.converted \in BOOLEAN
    /\ ~e.converted => e.amount = e.original
    /\ e.payer \in members
    /\ IsSplit(e.paidBy, Modes \cup {"ITEMIZED"}, members)
    /\ IsSplit(e.paidFor, Modes \cup {"ITEMIZED"}, members)
    /\ IsSplit(e.rest, Modes \cup {"PROPORTIONAL"}, members)
    /\ IsFiniteSet(DOMAIN e.items)
    /\ \A i \in DOMAIN e.items :
          e.items[i].amount \in Int /\ IsSplit(e.items[i].split, Modes, members)

Itemized(e) == e.paidFor.mode = "ITEMIZED"

Involved(e) == DOMAIN e.paidBy.shares \cup DOMAIN e.paidFor.shares \cup DOMAIN e.rest.shares
                   \cup UNION {DOMAIN e.items[i].split.shares : i \in DOMAIN e.items}

Converted(e, exact) == [p \in DOMAIN exact |-> Whole(Rounded(Scaled(exact[p], e.amount, e.original)))]

PaidShares(e) ==
    LET exact   == ExactShares(e.original, e.paidBy)
        literal == e.paidBy.mode \in {"BY_AMOUNT", "ITEMIZED"}
    IN  CASE e.converted -> Converted(e, exact)
          [] ~e.converted /\ literal -> Residual(exact, e.amount, e.payer)
          [] ~e.converted /\ ~literal -> exact

OwedShares(e) ==
    CASE Itemized(e) /\ ~e.converted ->
            ItemShares(e.items, Involved(e), e.amount, e.rest)
      [] Itemized(e) /\ e.converted ->
            ExactShares(e.amount, [e.paidFor EXCEPT !.mode = "BY_SHARES"])
      [] e.paidFor.mode = "BY_AMOUNT" /\ e.converted ->
            Converted(e, ExactShares(e.original, e.paidFor))
      [] e.paidFor.mode = "BY_AMOUNT" /\ ~e.converted ->
            Residual(ExactShares(e.amount, e.paidFor), e.amount, e.payer)
      [] OTHER -> ExactShares(e.amount, e.paidFor)

(* computePaidForFromItems: the paid-for rows an itemized expense is stored  *)
(* with, in the currency it was entered in.                                  *)
Stored(e, members, seed) ==
    IF Itemized(e)
    THEN [e EXCEPT !.paidFor.shares =
             Distribute(ItemShares(e.items, members, e.original, e.rest), e.original, seed)]
    ELSE e

-----------------------------------------------------------------------------
(* Rows is a function from expense ids to expenses.                          *)
Amount(rows) == SumFunction([i \in DOMAIN rows |-> rows[i].amount])
Paid(rows)   == FoldFunction(Added, Nobody, [i \in DOMAIN rows |-> PaidShares(rows[i])])
Owed(rows)   == FoldFunction(Added, Nobody, [i \in DOMAIN rows |-> OwedShares(rows[i])])

CentsIn(cents, p) == IF p \in DOMAIN cents THEN cents[p] ELSE 0
GetBalances(rows) ==
    LET paid == Distribute(Paid(rows), Amount(rows), 0)
        owed == Distribute(Owed(rows), Amount(rows), 0)
    IN  [p \in DOMAIN paid \cup DOMAIN owed |-> CentsIn(paid, p) - CentsIn(owed, p)]
Balance(rows, p)  == CentsIn(GetBalances(rows), p)

(* The creditors by id, then the debtors by id: the first creditor is paid   *)
(* by the last debtor until one of them is settled.                          *)
Line == Seq([who : Nat, total : Int])
CreditorLeft(line) == Head(line).total > -Last(line).total
LegOf(line) == [from |-> Last(line).who, to |-> Head(line).who,
                amount |-> IF CreditorLeft(line) THEN -Last(line).total ELSE Head(line).total]
Shortened(line) ==
    LET left == Head(line).total + Last(line).total
    IN  IF CreditorLeft(line) THEN <<[Head(line) EXCEPT !.total = left]>> \o Tail(Front(line))
                              ELSE Front(Tail(line)) \o <<[Last(line) EXCEPT !.total = left]>>
Pairs[line \in Line] ==
    IF Len(line) < 2 THEN <<>> ELSE <<LegOf(line)>> \o Pairs[Shortened(line)]

(* Those of S in line, each behind those ahead of it, and the part of a      *)
(* sequence at some indices: sort and filter, told without an operator, for  *)
(* the provers know neither SortSeq nor SelectSeq.                           *)
Queue(S, ahead) == [n \in 1..Cardinality(S) |-> CHOOSE x \in S : Cardinality(ahead[x]) = n - 1]
Picked(s, indices) ==
    LET at == Queue(indices, [i \in indices |-> {j \in indices : j < i}])
    IN  [n \in DOMAIN at |-> s[at[n]]]

Due(balances) == {x \in {[who |-> p, total |-> balances[p]] : p \in DOMAIN balances} : x.total # 0}
Legs(due, ahead) ==
    LET all == Pairs[Queue(due, ahead)]
    IN  Picked(all, {i \in DOMAIN all : all[i].amount # 0})

(* Mutant: the creditors and the debtors by what they are due.               *)
SettlementsByAmount(balances) ==
    LET due == Due(balances)
        Before(a, b) == a.total > b.total \/ (a.total = b.total /\ a.who < b.who)
    IN  Legs(due, [x \in due |-> {y \in due : Before(y, x)}])

SuggestedSettlements(balances) ==
    LET due == Due(balances)
        Before(a, b) == \/ a.total > 0 /\ b.total < 0
                        \/ (a.total > 0) = (b.total > 0) /\ a.who < b.who
    IN  Legs(due, [x \in due |-> {y \in due : Before(y, x)}])

PublicBalances(legs) ==
    LET Sum(p, field(_)) == SumFunctionOnSet([i \in DOMAIN legs |-> legs[i].amount],
                                             {i \in DOMAIN legs : field(legs[i]) = p})
    IN  [p \in {legs[i].from : i \in DOMAIN legs} \cup {legs[i].to : i \in DOMAIN legs} |->
            Sum(p, LAMBDA leg : leg.to) - Sum(p, LAMBDA leg : leg.from)]

-----------------------------------------------------------------------------
(* Both sides of the expense add up to its amount in shares none of which is *)
(* negative: not so for refunds, nor for the converted cents of two payers.  *)
AddsUp(e) ==
    \A side \in {PaidShares(e), OwedShares(e)} :
        Total(side) = Whole(e.amount) /\ \A p \in DOMAIN side : side[p].num >= 0
=============================================================================
