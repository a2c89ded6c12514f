---------------------------- MODULE MailboxContract ----------------------------
(***************************************************************************)
(* What MessageRouter.Send promises about one message, without locks,       *)
(* inboxes or agents: a message that was sent ends in exactly one way.  It  *)
(* is refused at once and reported as dropped, or handed to a resumed step, *)
(* or queued; a queued message is later read by the agent or reported as    *)
(* dropped, in the order of the queue when it is read.                      *)
(* StepMessaging.tla implements this specification.                         *)
(***************************************************************************)
EXTENDS Naturals

CONSTANTS Msg,         \* messages
          To           \* the addressee of a message

VARIABLES fate,        \* [Msg -> what became of it so far]
          place        \* [Msg -> position in the order of acceptance, 0 before]

Fates == {"new", "queued", "read", "dropped", "handed"}

MInit == /\ fate = [m \in Msg |-> "new"]
         /\ place = [m \in Msg |-> 0]

Queue(m) == /\ fate[m] = "new"
            /\ fate' = [fate EXCEPT ![m] = "queued"]
            /\ \A n \in Msg : place[n] < place'[m]
            /\ \A n \in Msg \ {m} : place'[n] = place[n]

Refuse(m) == /\ fate[m] = "new"
             /\ \E f \in {"dropped", "handed"} : fate' = [fate EXCEPT ![m] = f]
             /\ UNCHANGED place

\* Messages are read in the order in which they were accepted.
Read(S) == /\ \A m \in S : /\ fate[m] = "queued"
                           /\ \A n \in Msg : /\ To[n] = To[m]
                                             /\ fate[n] = "queued"
                                             /\ place[n] < place[m]
                                             => n \in S
           /\ fate' = [m \in Msg |-> IF m \in S THEN "read" ELSE fate[m]]
           /\ UNCHANGED place

Drop(S) == /\ \A m \in S : fate[m] = "queued"
           /\ fate' = [m \in Msg |-> IF m \in S THEN "dropped" ELSE fate[m]]
           /\ UNCHANGED place

MNext == \/ \E m \in Msg : Queue(m) \/ Refuse(m)
         \/ \E S \in SUBSET Msg : Read(S) \/ Drop(S)

Mailbox == MInit /\ [][MNext]_<<fate, place>>
===============================================================================
