----------------------------- MODULE Coalescer -----------------------------
(***************************************************************************)
(* What a coalescing background job promises to the callers that ask for   *)
(* it, with nothing about timers, threads or flags.                        *)
(*                                                                         *)
(* Requests are not counted: a pass serves every request made before it    *)
(* began, so all there is to remember is whether one is unserved.  Passes  *)
(* never overlap.  A pass nobody asked for is allowed: it costs work and   *)
(* loses nothing.                                                          *)
(***************************************************************************)

VARIABLES
  unserved,  \* a request has been made since the last pass began
  pass,      \* a pass is running
  closed,    \* no more passes are promised
  lost       \* an attempt at a pass came to nothing, and since then no pass has
             \* begun and nobody has asked again

avars == <<unserved, pass, closed, lost>>

AInit == ~unserved /\ ~pass /\ ~closed /\ ~lost

\* A caller asks for a pass.
Request == unserved' = TRUE /\ lost' = FALSE /\ UNCHANGED <<pass, closed>>

\* A pass begins: it sees everything that was asked for before it.
Begin == ~pass /\ pass' = TRUE /\ unserved' = FALSE /\ lost' = FALSE /\ UNCHANGED closed

End == pass /\ pass' = FALSE /\ UNCHANGED <<unserved, closed, lost>>

\* An attempt at a pass comes to nothing; it may have been for one after the pass that runs.
Lose == lost' = TRUE /\ UNCHANGED <<unserved, pass, closed>>

Close == closed' = TRUE /\ UNCHANGED <<unserved, pass, lost>>

ANext == Request \/ Begin \/ End \/ Lose \/ Close

ASafe == AInit /\ [][ANext]_avars

\* An unserved request is served, unless the job is closed or an
\* attempt at serving it came to nothing.
Serve == unserved /\ ~closed /\ ~lost /\ Begin

ASpec == ASafe /\ WF_avars(Serve) /\ WF_avars(End)
=============================================================================
