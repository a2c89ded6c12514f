----------------------------- MODULE MessageRouter -----------------------------
(***************************************************************************)
(* Router (internal/router/router.go) over an in-memory MailboxStore        *)
(* (internal/router/mailbox.go).  Send runs in the goroutine of its caller: *)
(* it holds the step lock for reading from the check of the inbox to its    *)
(* return.  Close holds it for writing and works in three steps.  The store *)
(* methods are called by others without that lock.                          *)
(* StepMessaging.tla composes these actions with the agents that read.      *)
(* An operator marked "mutant" is a bug the definition after it could have. *)
(***************************************************************************)
EXTENDS Naturals, FiniteSets

CONSTANTS Inbox,      \* stepIDs that messages are addressed to
          Known,      \* those registered by RegisterStep: the workflow's steps
          Msg,        \* messages, each sent once
          To,         \* the inbox a message is addressed to
          Reverse,    \* messages that are replies of a resumed step
          Bounded,    \* the store is a BoundedInMemoryStore, not an InMemoryMailboxStore
          Capacity    \* maxSize of the bounded store

ASSUME RouterAssumption ==
  /\ IsFiniteSet(Inbox) /\ IsFiniteSet(Msg)
  /\ Known \subseteq Inbox
  /\ To \in [Msg -> Inbox]
  /\ Reverse \subseteq Msg
  /\ Bounded \in BOOLEAN
  /\ Capacity \in Nat \ {0}

VARIABLES
  open,       \* inboxes with a live mailbox
  closed,     \* inboxes closed for ever
  senders,    \* pending senders of an inbox
  cancelled,  \* workflowCancelled
  locked,     \* inboxes whose step lock is held for writing
  box,        \* unread messages in the store
  shut,       \* the store's closed flags
  id,         \* MessageID: 0 when not appended
  idSeq,      \* the last MessageID
  send,       \* where the Send of a message is
  slot,       \* messages whose Send opened a sender slot of its own
  events      \* EventMessageDropped events emitted for a message

inboxVars == <<open, closed, cancelled, locked>>
storeVars == <<box, shut, id, idSeq>>
sendVars  == <<send, slot>>
routerVars == <<inboxVars, senders, storeVars, sendVars, events>>

SendPC == {"idle", "append", "check", "notify", "accepted", "refused", "handed"}

RInit ==
  /\ open = {} /\ closed = {} /\ locked = {} /\ cancelled = FALSE
  /\ senders = [s \in Inbox |-> 0]
  /\ box = [s \in Inbox |-> {}] /\ shut = {}
  /\ id = [m \in Msg |-> 0] /\ idSeq = 0
  /\ send = [m \in Msg |-> "idle"] /\ slot = {}
  /\ events = [m \in Msg |-> 0]
-------------------------------------------------------------------------------
(* The store.  MessageIDs grow, so they give the order of a queue.           *)

Append(m) ==
  /\ box' = [box EXCEPT ![To[m]] = @ \cup {m}]
  /\ idSeq' = idSeq + 1
  /\ id' = [id EXCEPT ![m] = idSeq + 1]
  /\ UNCHANGED shut

MarkReadAll(s, M) == box' = [box EXCEPT ![s] = {}]      \* mutant
MarkReadNothing(s, M) == UNCHANGED box      \* mutant
MarkRead(s, M) == box' = [box EXCEPT ![s] = @ \ M]

CloseStore(s) ==
  /\ box' = [box EXCEPT ![s] = {}]
  /\ shut' = shut \cup {s}
  /\ UNCHANGED <<id, idSeq>>
-------------------------------------------------------------------------------
(* Drops.                                                                    *)

\* EventMessageDropped for each message of M, by the router's OnDrop (which calls
\* the user's DropCallback too) or by an agent, a step or the abort flush.
Emit(M) == events' = [m \in Msg |-> IF m \in M THEN events[m] + 1 ELSE events[m]]
-------------------------------------------------------------------------------
(* Send.                                                                     *)

SendingNoUnlock(s) ==      \* mutant
  {m \in Msg : To[m] = s /\ send[m] \in {"append", "check", "notify", "refused"}}
Sending(s) == {m \in Msg : To[m] = s /\ send[m] \in {"append", "check", "notify"}}

\* The lock is taken for reading and the inbox's flags are read; closed cannot
\* change while the lock is held, and open only turns true.
Begin(m) == send[m] = "idle" /\ To[m] \notin locked

Refuse(m) == /\ send' = [send EXCEPT ![m] = "refused"]
             /\ Emit({m})

SendCancelled(m) ==
  /\ Begin(m)
  /\ cancelled
  /\ Refuse(m)
  /\ UNCHANGED <<inboxVars, senders, storeVars, slot>>

\* A closed inbox: a reply is refused; else the step may be resumed, or not.
SendClosed(m) ==
  /\ Begin(m)
  /\ ~cancelled
  /\ To[m] \in closed
  /\ \/ Refuse(m)
     \/ /\ m \notin Reverse
        /\ send' = [send EXCEPT ![m] = "handed"]
        /\ UNCHANGED events
  /\ UNCHANGED <<inboxVars, senders, storeVars, slot>>

Reachable(s) == s \in open \/ senders[s] > 0

SendUnknown(m) ==
  /\ Begin(m)
  /\ ~cancelled
  /\ To[m] \notin closed
  /\ ~Reachable(To[m]) /\ To[m] \notin Known
  /\ Refuse(m)
  /\ UNCHANGED <<inboxVars, senders, storeVars, slot>>

\* An inbox that is not open yet gets a sender slot for the time of the Send.
SendOpen(m) ==
  /\ Begin(m)
  /\ ~cancelled
  /\ To[m] \notin closed
  /\ Reachable(To[m]) \/ To[m] \in Known
  /\ send' = [send EXCEPT ![m] = "append"]
  /\ IF Reachable(To[m])
     THEN UNCHANGED <<senders, slot>>
     ELSE /\ senders' = [senders EXCEPT ![To[m]] = @ + 1]
          /\ slot' = slot \cup {m}
  /\ UNCHANGED <<inboxVars, storeVars, events>>

CloseSender(s) == senders' = [senders EXCEPT ![s] = IF @ > 0 THEN @ - 1 ELSE 0]

\* The deferred CloseSender of an opened slot, as Send returns.
CloseSlotLeaks(m) == slot' = slot \ {m} /\ UNCHANGED senders      \* mutant
CloseSlot(m) == IF m \in slot
                THEN CloseSender(To[m]) /\ slot' = slot \ {m}
                ELSE UNCHANGED <<senders, slot>>

Full(s) == Bounded /\ Cardinality(box[s]) >= Capacity

\* A closed store ignores the message, a full one refuses it.
SendAppend(m) ==
  /\ send[m] = "append"
  /\ \/ /\ To[m] \in shut
        /\ send' = [send EXCEPT ![m] = "check"]
        /\ UNCHANGED <<storeVars, events, senders, slot>>
     \/ /\ To[m] \notin shut /\ Full(To[m])
        /\ Refuse(m)
        /\ CloseSlot(m)
        /\ UNCHANGED storeVars
     \/ /\ To[m] \notin shut /\ ~Full(To[m])
        /\ send' = [send EXCEPT ![m] = "check"]
        /\ Append(m)
        /\ UNCHANGED <<events, senders, slot>>
  /\ UNCHANGED inboxVars

\* The closed flag is looked at again after the append; the bounded store hides it.
SendCheck(m) ==
  /\ send[m] = "check"
  /\ IF ~Bounded /\ To[m] \in shut
     THEN Refuse(m) /\ CloseSlot(m)
     ELSE /\ send' = [send EXCEPT ![m] = "notify"]
          /\ UNCHANGED <<events, senders, slot>>
  /\ UNCHANGED <<inboxVars, storeVars>>

\* afterSend, whose wake the caller adds, and the return.
SendReturn(m) ==
  /\ send[m] = "notify"
  /\ send' = [send EXCEPT ![m] = "accepted"]
  /\ CloseSlot(m)
  /\ UNCHANGED <<inboxVars, storeVars, events>>
-------------------------------------------------------------------------------
(* RegisterInbox, Close and MarkWorkflowCancelled.                           *)

RegisterInbox(s) ==
  /\ open' = open \cup {s}
  /\ closed' = closed \ {s}
  /\ UNCHANGED <<cancelled, locked>>

CloseBeginUnlocked(s) ==      \* mutant
  /\ closed' = closed \cup {s}
  /\ open' = open \ {s}
  /\ UNCHANGED <<cancelled, locked>>
CloseBegin(s) ==
  /\ Sending(s) = {}
  /\ locked' = locked \cup {s}
  /\ closed' = closed \cup {s}
  /\ open' = open \ {s}
  /\ UNCHANGED cancelled

CloseDrop(s) == Emit(box[s])

CloseEnd(s) ==
  /\ CloseStore(s)
  /\ locked' = locked \ {s}
  /\ UNCHANGED <<open, closed, cancelled>>

MarkWorkflowCancelled ==
  /\ cancelled' = TRUE
  /\ UNCHANGED <<open, closed, locked>>
===============================================================================
