---------------------------- MODULE MCMessagesPage ----------------------------
(* MessagesPage for TLC: two categories, one tag. *)
EXTENDS MessagesPage

CONSTANTS inbox, links, later

MCMessages == 1 .. 3
MCCategories == {inbox, links}
MCTags == {later}
MCFound == {1, 2}
MCLibraries ==
  {[m \in MCMessages |-> [cat  |-> IF m = 2 THEN links ELSE inbox,
                          tags |-> IF m = 3 THEN {later} ELSE {}]]}
MCLinks ==
  {[label |-> Any, q |-> FALSE, page |-> 2], [label |-> inbox, q |-> TRUE, page |-> 1]}
=============================================================================
