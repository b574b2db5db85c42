------------------------------- MODULE MCTabs -------------------------------
(* The tab strip for TLC. *)
EXTENDS Tabs

\* Tab sets with an id twice, without a target, with one search in two tabs, with an order that lists too much, too little or twice.
ByHand ==
  LET one == [id |-> 1, target |-> Landing, search |-> Nothing]
      search == [id |-> 1, target |-> SearchFor(2), search |-> Query]
      bad == [id |-> 2, target |-> Malformed, search |-> Nothing]
  IN  [open : {<<>>, <<one, one>>, <<one, bad, [one EXCEPT !.id = 2]>>,
              <<search, [search EXCEPT !.id = 2]>>},
       order : {<<>>, <<3, 2, 2>>}, active : {Nothing, 2, 3}]
=============================================================================
