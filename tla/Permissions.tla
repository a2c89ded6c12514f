------------------------------- MODULE Permissions -------------------------------
(***************************************************************************)
(* What asks before it acts: the permission flags and prompts of the        *)
(* command line (cmd/zenflow/permission.go, permission_policy.go), where    *)
(* several agents share one terminal, and the approval of a plan within a   *)
(* time limit, until the caller cancels it (approval_timeout.go).           *)
(***************************************************************************)
EXTENDS Naturals, FiniteSets

CONSTANTS
  Asker,   \* the calls of RequestPermission
  Tool,    \* tools, "bash" among them
  Safe,    \* SandboxDefaultAllow
  Approvals,   \* whether a plan is approved instead: a subset of BOOLEAN
  NoCall

ASSUME PermissionAssumption ==
  /\ IsFiniteSet(Asker) /\ NoCall \notin Asker
  /\ "bash" \in Tool \ Safe /\ Safe \subseteq Tool
  /\ Approvals \subseteq BOOLEAN

VARIABLES
  planned, \* this is about a plan
  raw,     \* the flags as they are given
  tty,     \* stdin is a terminal
  timed,   \* stdin takes a read deadline
  wants,   \* the tool of each call
  where,   \* where each call is
  screen,  \* the call that holds the mutex and has its prompt on the screen
  always,  \* alwaysAllow
  orphans, \* readers of abandoned prompts that still wait for a line
  expired, \* a deadline in the past is set on stdin
  said,    \* what the user has answered, and of which tool
  inner,   \* what the approval handler has answered
  waits,   \* what the approval's context is: live, past its time limit or cancelled
  plan     \* what ApprovePlan has returned

promptVars == <<where, screen, always, orphans, expired, said>>
planVars == <<inner, waits, plan>>
consentVars == <<planned, raw, tty, timed, wants, promptVars, planVars>>

Flags == [yolo : BOOLEAN, strict : BOOLEAN, sandbox : BOOLEAN, allow : SUBSET Tool, deny : SUBSET Tool]

ConsentInit ==
  /\ planned \in Approvals
  /\ raw \in IF planned THEN {CHOOSE f \in Flags : TRUE} ELSE Flags
  /\ tty \in BOOLEAN /\ timed \in BOOLEAN /\ (planned => tty /\ timed)
  /\ wants \in [Asker -> Tool] /\ (planned => wants = [c \in Asker |-> "bash"])
  /\ where = [c \in Asker |-> "idle"]
  /\ screen = NoCall /\ always = {} /\ orphans = 0 /\ expired = FALSE /\ said = {}
  /\ inner = "asked" /\ waits = "live" /\ plan = "waiting"
-------------------------------------------------------------------------------
(* The flags.                                                                *)

ParseKeepsBash ==      \* mutant
  [raw EXCEPT !.strict = raw.strict \/ raw.sandbox,
              !.allow = IF raw.sandbox THEN Safe \cup raw.allow ELSE raw.allow]
\* A sandbox is strict, allows the safe tools too, and bash never.
ParsePermFlags ==
  IF raw.sandbox
  THEN [raw EXCEPT !.strict = TRUE, !.allow = (Safe \cup raw.allow) \ {"bash"}]
  ELSE raw

Conflict ==
  \/ raw.yolo /\ (raw.allow # {} \/ raw.deny # {} \/ raw.strict \/ raw.sandbox)
  \/ raw.sandbox /\ raw.deny \cap Safe # {}

DecidePermission(tool) ==
  LET p == ParsePermFlags
  IN  CASE p.yolo -> "granted"
        [] ~p.yolo /\ tool \in p.deny -> "denied"
        [] ~p.yolo /\ tool \notin p.deny /\ tool \in p.allow -> "granted"
        [] ~p.yolo /\ tool \notin p.deny \cup p.allow /\ p.strict -> "denied"
        [] OTHER -> IF tool \in always THEN "granted" ELSE "prompt"
-------------------------------------------------------------------------------
(* RequestPermission and prompt.                                             *)

Step(c, from, to) == where[c] = from /\ where' = [where EXCEPT ![c] = to]
inputs == <<planned, raw, tty, timed, wants>>

RequestPermission(c) ==
  /\ ~planned /\ ~Conflict
  /\ LET d == DecidePermission(wants[c])
     IN  Step(c, "idle", IF d = "prompt" /\ ~tty THEN "denied" ELSE d)
  /\ UNCHANGED <<inputs, screen, always, orphans, expired, said, planVars>>

\* One prompt at a time; one that waited may have been answered by an "always".
Prompt(c) ==
  /\ screen = NoCall
  /\ \/ wants[c] \in always /\ Step(c, "prompt", "granted") /\ UNCHANGED screen
     \/ wants[c] \notin always /\ Step(c, "prompt", "reading") /\ screen' = c
  /\ UNCHANGED <<inputs, always, orphans, expired, said, planVars>>

\* The line the user types goes to this prompt's reader, or to an abandoned one.
Answer(c, a) ==
  /\ where[c] = "reading" /\ ~expired
  /\ said' = said \cup {<<wants[c], a>>}
  /\ \/ /\ Step(c, "reading", IF a = "no" THEN "denied" ELSE "granted")
        /\ always' = IF a = "always" THEN always \cup {wants[c]} ELSE always
        /\ screen' = NoCall /\ UNCHANGED orphans
     \/ orphans > 0 /\ orphans' = orphans - 1 /\ UNCHANGED <<where, always, screen>>
  /\ UNCHANGED <<inputs, expired, planVars>>

\* A cancelled prompt on a plain reader leaves the reader behind; one with deadlines
\* sets one in the past, which may happen after the prompt has cleared it.
CancelPrompt(c) ==
  /\ Step(c, "reading", "cancelled") /\ screen' = NoCall
  /\ \/ timed /\ expired' \in BOOLEAN /\ UNCHANGED orphans
     \/ ~timed /\ orphans' = orphans + 1 /\ UNCHANGED expired
  /\ UNCHANGED <<inputs, always, said, planVars>>

ReadTimesOut(c) ==
  /\ expired /\ Step(c, "reading", "failed")
  /\ screen' = NoCall /\ expired' = FALSE
  /\ UNCHANGED <<inputs, always, orphans, said, planVars>>
-------------------------------------------------------------------------------
(* ApprovePlan.                                                              *)

\* The handler answers on a goroutine of its own; a panic is an error.
HandlerAnswers ==
  /\ planned /\ inner = "asked" /\ inner' \in {"yes", "no", "error", "deadline"}
  /\ inner' = "deadline" => waits = "deadline"
  /\ UNCHANGED <<inputs, promptVars, waits, plan>>

\* The context ends once: its time limit passes, or the caller's context is cancelled.
TimeLimit ==
  /\ planned /\ waits = "live" /\ waits' = "deadline"
  /\ UNCHANGED <<inputs, promptVars, inner, plan>>
CancelApproval ==
  /\ planned /\ waits = "live" /\ waits' = "cancelled"
  /\ UNCHANGED <<inputs, promptVars, inner, plan>>

\* With both ready the select takes either.
ApprovePlan ==
  /\ plan = "waiting"
  /\ \/ inner # "asked" /\ plan' = IF inner = "deadline" THEN "timeout" ELSE inner
     \/ waits = "deadline" /\ plan' = "timeout"
     \/ waits = "cancelled" /\ plan' = "cancelled"
  /\ UNCHANGED <<inputs, promptVars, inner, waits>>

ConsentNext ==
  \/ \E c \in Asker : \/ RequestPermission(c) \/ Prompt(c) \/ CancelPrompt(c) \/ ReadTimesOut(c)
                      \/ \E a \in {"yes", "no", "always"} : Answer(c, a)
  \/ HandlerAnswers \/ TimeLimit \/ CancelApproval \/ ApprovePlan

ConsentSpec == ConsentInit /\ [][ConsentNext]_consentVars
-------------------------------------------------------------------------------
ConsentTypeOK ==
  /\ planned \in Approvals /\ raw \in Flags /\ tty \in BOOLEAN /\ timed \in BOOLEAN
  /\ wants \in [Asker -> Tool]
  /\ where \in [Asker -> {"idle", "prompt", "reading", "granted", "denied", "cancelled", "failed"}]
  /\ screen \in Asker \cup {NoCall} /\ always \subseteq Tool
  /\ orphans \in Nat /\ expired \in BOOLEAN
  /\ said \subseteq Tool \X {"yes", "no", "always"}
  /\ inner \in {"asked", "yes", "no", "error", "deadline"}
  /\ waits \in {"live", "deadline", "cancelled"}
  /\ plan \in {"waiting", "yes", "no", "error", "timeout", "cancelled"}

\* A tool runs only if the flags let it, or nothing but the user decides and the user
\* said so of this tool; a tool denied by a flag, or bash in a sandbox, never runs; a
\* prompt is on the screen alone.  A plan is approved only by its handler.
AsksFirst ==
  /\ \A c \in Asker : where[c] = "granted" =>
       \/ raw.yolo
       \/ /\ wants[c] \notin raw.deny /\ ~(raw.sandbox /\ wants[c] = "bash")
          /\ \/ wants[c] \in raw.allow \/ (raw.sandbox /\ wants[c] \in Safe)
             \/ /\ ~raw.strict /\ ~raw.sandbox /\ tty
                /\ \E a \in {"yes", "always"} : <<wants[c], a>> \in said
  /\ \A c \in Asker : where[c] = "reading" <=> screen = c
  /\ plan = "yes" => inner = "yes"
===============================================================================
