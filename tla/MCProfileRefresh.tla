-------------------------- MODULE MCProfileRefresh --------------------------
(* ProfileRefresh alone: two possible job threads, a few requests.  The owner *)
(* is done once MaxRequests are made, so the system may stop.                 *)
EXTENDS ProfileRefresh
=============================================================================
