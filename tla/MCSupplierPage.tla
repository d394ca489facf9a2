-------------------------- MODULE MCSupplierPage --------------------------
(***************************************************************************)
(* Small suppliers for the page: what is tapped together, and which        *)
(* suppliers and offers there are at the start.                            *)
(***************************************************************************)
EXTENDS SupplierPage

CONSTANTS p1, p2

Item(ok, tardy) ==
  [qty |-> 2, short |-> IF ok THEN 0 ELSE 1, back |-> IF ok THEN 0 ELSE 1, accepted |-> TRUE,
   ok |-> ok, late |-> tardy]

Deliveries == {Item(TRUE, FALSE), Item(TRUE, TRUE), Item(FALSE, FALSE)}

AllForms == {[lead |-> NoHours, credit |-> 0], [lead |-> 24, credit |-> 7]}

Setup(tapped, opened, offered) == [buttons |-> tapped, opened |-> opened, offered |-> offered]

AllSetups ==
  LET one == <<Offer(1, 1, p1, 2)>>
  IN {Setup({"list", "black"}, {1, 2}, <<>>), Setup({"form"}, {1}, <<>>),
      Setup({"expand", "offers"}, {1}, one),
      Setup({"compare", "score"}, {1}, one), Setup({"compare", "offers"}, {1}, one)}
=============================================================================
