------------------------------ MODULE MCRecord ------------------------------
(***************************************************************************)
(* Model values for Record.cfg: three messages, the first two with the same *)
(* image, the third with a text file.                                      *)
(***************************************************************************)
EXTENDS Record

CONSTANTS pic, doc

TheFiles == {pic, doc}
TheImages == {pic}
ThreeMessages == <<pic, pic, doc>>
=============================================================================
