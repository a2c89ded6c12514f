-------------------------------- MODULE MCResume --------------------------------
(***************************************************************************)
(* An instance of StepResume for TLC: a step whose agent sends the          *)
(* coordinator a message, and up to three forwards to a step that has ended.*)
(***************************************************************************)
EXTENDS StepResume, TLC

CONSTANTS p1, p2, start, end, note, r1, r2, r3, r4, a1, a2

AuthorOf == note :> p2
Replies == (r1 :> a1) @@ (r2 :> a2)
\* Two forwards to the ended step; one, and two more while its resume is in flight; one
\* while another step ends; a step whose agent wrote to the coordinator before it ended.
FourWorks == {{r1, r2}, {r1, r3, r4}, {p1, r1}, {p2, note}}
===============================================================================
