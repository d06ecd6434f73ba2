------------------------------ MODULE MCSaves ------------------------------
(* Saves with three turns: the owner's, a model's after it read the web,  *)
(* and one of a guest who is known.                                        *)
EXTENDS Saves

CONSTANTS Sam, Kim, sam, kim

Said(class, name, web, person, method) ==
  [speaker |-> class, name |-> name, web |-> web, person |-> person, method |-> method]

Three ==
  {Said("owner", NoName, FALSE, Nobody, "by-elimination"),
   Said("model", kim, TRUE, Nobody, "by-elimination"),
   Said("guest", sam, FALSE, Sam, "introduced")}
=============================================================================
