---------------------------- MODULE MCStarSchema ----------------------------
(* Three stage layers and three sets of hash functions. *)
EXTENDS StarSchema

MCNames ==
    {Unknown, DefaultPlace, DefaultDecision, UnknownPlace, UnknownDecision,
     "Cash loans", "Consumer loans", "Country-wide", "Family", "Children",
     "Refused/HC/Repeater", "C", "5", "X"}

App(id, product, amount) == [id |-> id, product |-> product, amount |-> amount]
Prev(id, customer, product, place, suite, decision, days) ==
    [id |-> id, customer |-> customer, product |-> product, place |-> place,
     suite |-> suite, decision |-> decision, amount |-> 7, days |-> days]
Credit(id, customer, source, days) ==
    [id |-> id, customer |-> customer, source |-> source, days |-> days]
Payment(id, customer, days, delay) ==
    [id |-> id, customer |-> customer, days |-> days, delay |-> delay]
Balance(id, customer, month, dpd) ==
    [id |-> id, customer |-> customer, month |-> month, dpd |-> dpd]
Status(id, month, status) == [id |-> id, month |-> month, status |-> status]

\* Every reference resolves and is unique; the sums are zero.
Clean ==
    [train |-> {App(1, "Cash loans", 0)}, test |-> {},
     previous |-> {Prev(11, 1, "Consumer loans", "Country-wide", "Family",
                        "Refused/HC/Repeater", -2922)},
     bureau |-> {Credit(21, 1, "Cash loans", -30)},
     installments |-> {Payment(11, 1, -31, -3)},
     balance |-> {Balance(11, 1, -2, 31), Balance(11, 1, -1, Null)},
     statuses |-> {Status(21, -1, "5")}]

\* Two previous applications that differ in their suite only share the place
\* of all current applications, one of which is below the tolerance.
TwoSuites ==
    [train |-> {App(1, "Cash loans", 20000)}, test |-> {App(2, "C", 1)},
     previous |-> {Prev(11, 1, "Cash loans", DefaultPlace, "Family",
                        DefaultDecision, -2880),
                   Prev(12, 3, "Cash loans", DefaultPlace, "Children",
                        DefaultDecision, 0)},
     bureau |-> {Credit(21, Null, Unknown, -31)},
     installments |-> {Payment(11, 1, -60, 30), Payment(12, 3, -1, 1)},
     balance |-> {Balance(12, 3, -96, 0)},
     statuses |-> {Status(21, -96, "C"), Status(22, 0, "X")}]

\* Contract types that the stage job has replaced, rows without days, and one
\* suite.
Unnamed ==
    [train |-> {App(1, "Consumer loans", 20000), App(2, Unknown, 1)},
     test |-> {App(3, "Consumer loans", 20000)},
     previous |-> {Prev(11, 2, Unknown, DefaultPlace, "Family",
                        DefaultDecision, Null)},
     bureau |-> {Credit(21, 2, "Cash loans", -1),
                 Credit(22, 2, "Consumer loans", Null)},
     installments |-> {Payment(11, 2, 0, Null), Payment(12, 2, Null, Null)},
     balance |-> {Balance(11, 2, -3, 999999)},
     statuses |-> {Status(21, -5, "C")}]

\* A previous application without a customer.
NoCustomer ==
    [Clean EXCEPT !.previous = {Prev(11, Null, "Cash loans", "Country-wide",
                                     "Family", DefaultDecision, -30)},
                  !.test = {App(2, "Cash loans", 5)}]

MCSnapshots == {Clean, TwoSuites, Unnamed, NoCustomer}

\* Distinct natural keys have distinct keys, or those of two contract types
\* collide, or those of two channels.
Rank(n) ==
    CASE n = "Cash loans" -> 1 [] n = "Consumer loans" -> 2
      [] n = Unknown -> 3 [] n = DefaultPlace -> 4 [] n = "Family" -> 5
      [] n = "Children" -> 6 [] n = DefaultDecision -> 7 [] OTHER -> 8

Injective ==
    [product |-> [n \in MCNames |-> Rank(n)],
     channel |-> [n \in MCNames \X MCNames |-> 10 * Rank(n[1]) + Rank(n[2])],
     decision |-> [n \in MCNames |-> Rank(n)],
     source |-> [n \in MCNames |-> Rank(n)]]
MCHashes ==
    {Injective,
     [Injective EXCEPT !.product["Consumer loans"] = 1],
     [Injective EXCEPT !.channel[<<DefaultPlace, "Children">>] = 45]}

=============================================================================
