------------------------------ MODULE MCMessaging ------------------------------
(***************************************************************************)
(* Instances of StepMessaging for TLC: who is addressed by which message.   *)
(***************************************************************************)
EXTENDS StepMessaging, TLC

CONSTANTS s, u, m1, m2, m3

\* Two messages to the step s; a third one to u.
OneToStep  == m1 :> s
BothToStep == (m1 :> s) @@ (m2 :> s)
OneAstray == (m1 :> s) @@ (m2 :> s) @@ (m3 :> u)
===============================================================================
