------------------------------- MODULE EventQueues -------------------------------
(***************************************************************************)
(* The three bounded queues between a run and its observers, each with one  *)
(* worker and a stop: the fan-out of drop callbacks (drop_fanout.go), the   *)
(* progress pump (progress_pump.go), and the sink that batches events       *)
(* (sink/buffered.go).  Every event is offered by a goroutine of its own.   *)
(***************************************************************************)
EXTENDS Naturals, Sequences, FiniteSets

CONSTANTS
  Kinds,    \* queues to look at, a subset of {"fanout", "pump", "sink"}
  Deltas,   \* events a sink keeps in its batch
  Outputs,  \* outputs, kept in a batch of their own
  Urgent,   \* lifecycle events, which a sink delivers with all that is before them
  Sentinel,    \* the sentinel of BufferedSink.Close
  Capacity  \* room in the channel

Event == Deltas \cup Outputs \cup Urgent

ASSUME QueueAssumption ==
  /\ Kinds \subseteq {"fanout", "pump", "sink"}
  /\ IsFiniteSet(Event) /\ Sentinel \notin Event
  /\ Deltas \cap Outputs = {} /\ Urgent \cap (Deltas \cup Outputs) = {}
  /\ Capacity \in Nat \ {0}

VARIABLES
  kind,
  offer,   \* where the call that offers an event is
  chan,    \* the channel
  batchEv,  \* events a sink has taken and not delivered
  batchOut, \* outputs it has taken and not delivered
  out,     \* what the observer was given, in order
  gaveUp,  \* events a pump has counted as dropped
  late,    \* events put into the channel after the stop
  stopped, \* the stop channel (done, of a sink) is closed
  worker,  \* where the worker is
  stopper  \* where Stop (Close, of a sink) is

batches == <<batchEv, batchOut>>
queueVars == <<kind, offer, chan, batches, out, gaveUp, late, stopped, worker, stopper>>

QueueInit ==
  /\ kind \in Kinds
  /\ offer = [e \in Event |-> "idle"]
  /\ chan = <<>> /\ batchEv = <<>> /\ batchOut = <<>> /\ out = <<>>
  /\ gaveUp = {} /\ late = {}
  /\ stopped = FALSE /\ worker = "run" /\ stopper = "idle"

Room == Len(chan) < Capacity
Offer(e, from, to) == offer[e] = from /\ offer' = [offer EXCEPT ![e] = to]
Put(e) ==
  /\ Room
  /\ chan' = Append(chan, e)
  /\ late' = IF stopped THEN late \cup {e} ELSE late
Give(s) == out' = out \o s
-------------------------------------------------------------------------------
(* The callers.  A select with several ready branches takes any of them.     *)

\* With room the event is queued; stopped, or without room, the caller delivers it.
Dispatch(e) ==
  /\ kind = "fanout" /\ Offer(e, "idle", "done")
  /\ \/ Put(e) /\ UNCHANGED out
     \/ /\ stopped \/ ~Room
        /\ Give(<<e>>) /\ UNCHANGED <<chan, late>>
  /\ UNCHANGED <<kind, batches, gaveUp, stopped, worker, stopper>>

\* A pump's caller waits for room, the stop, or a timeout.
PumpEvent(e) ==
  /\ kind = "pump"
  /\ \/ Offer(e, "idle", "done") /\ Put(e) /\ UNCHANGED gaveUp
     \/ Offer(e, "idle", "waiting") /\ ~Room /\ UNCHANGED <<chan, late, gaveUp>>
     \/ Offer(e, "waiting", "done") /\ Put(e) /\ UNCHANGED gaveUp
     \/ /\ Offer(e, "waiting", "done")
        /\ gaveUp' = gaveUp \cup {e} /\ UNCHANGED <<chan, late>>
  /\ UNCHANGED <<kind, batches, out, stopped, worker, stopper>>

\* A sink's caller waits for room, and delivers the event itself once it is closed.
SinkEvent(e) ==
  /\ kind = "sink" /\ Offer(e, "idle", "done")
  /\ \/ Put(e) /\ UNCHANGED out
     \/ stopped /\ Give(<<e>>) /\ UNCHANGED <<chan, late>>
  /\ UNCHANGED <<kind, batches, gaveUp, stopped, worker, stopper>>
-------------------------------------------------------------------------------
(* The workers.                                                              *)

\* Fan-out and pump: one event at a time, and after the stop until the channel is empty.
WorkerTakes ==
  /\ kind \in {"fanout", "pump"} /\ worker \in {"run", "drain"} /\ chan # <<>>
  /\ chan' = Tail(chan) /\ Give(<<Head(chan)>>)
  /\ UNCHANGED <<kind, offer, batches, gaveUp, late, stopped, worker, stopper>>

WorkerLeavesAtOnce ==      \* mutant
  /\ kind \in {"fanout", "pump"} /\ worker = "run" /\ stopped
  /\ worker' = "gone"
  /\ UNCHANGED <<kind, offer, chan, batches, out, gaveUp, late, stopped, stopper>>
WorkerStops ==
  /\ kind \in {"fanout", "pump"}
  /\ \/ worker = "run" /\ stopped /\ worker' = "drain"
     \/ worker = "drain" /\ chan = <<>> /\ worker' = "gone"
  /\ UNCHANGED <<kind, offer, chan, batches, out, gaveUp, late, stopped, stopper>>

\* The events of a batch, then its outputs, and what is delivered after them.
FlushThen(s) == Give(batchEv \o batchOut \o s) /\ batchEv' = <<>> /\ batchOut' = <<>>

SinkTakes ==
  /\ kind = "sink" /\ worker = "run" /\ chan # <<>> /\ Head(chan) # Sentinel
  /\ chan' = Tail(chan)
  /\ \/ Head(chan) \in Urgent /\ FlushThen(<<Head(chan)>>)
     \/ /\ Head(chan) \in Outputs
        /\ batchOut' = Append(batchOut, Head(chan)) /\ UNCHANGED <<out, batchEv>>
     \/ /\ Head(chan) \in Deltas
        /\ batchEv' = Append(batchEv, Head(chan)) /\ UNCHANGED <<out, batchOut>>
  /\ UNCHANGED <<kind, offer, gaveUp, late, stopped, worker, stopper>>

SinkTimer ==
  /\ kind = "sink" /\ worker = "run" /\ batches # <<<<>>, <<>>>>
  /\ FlushThen(<<>>)
  /\ UNCHANGED <<kind, offer, chan, gaveUp, late, stopped, worker, stopper>>

\* At the sentinel: the batch, then one by one what was queued behind it, until the
\* channel is empty.
SinkFlush ==
  /\ kind = "sink"
  /\ \/ /\ worker = "run" /\ chan # <<>> /\ Head(chan) = Sentinel
        /\ FlushThen(<<>>) /\ chan' = Tail(chan) /\ worker' = "drain"
     \/ /\ worker = "drain" /\ chan # <<>>
        /\ Give(<<Head(chan)>>) /\ chan' = Tail(chan) /\ UNCHANGED <<batches, worker>>
     \/ /\ worker = "drain" /\ chan = <<>>
        /\ worker' = "gone" /\ UNCHANGED <<out, batches, chan>>
  /\ UNCHANGED <<kind, offer, gaveUp, late, stopped, stopper>>
-------------------------------------------------------------------------------
\* Stop and Close: closed once, then they wait for the worker.
Stop ==
  /\ \/ /\ stopper = "idle" /\ stopped' = TRUE
        /\ stopper' = (IF kind = "sink" THEN "flush" ELSE "wait") /\ UNCHANGED chan
     \/ /\ stopper = "flush" /\ Room /\ chan' = Append(chan, Sentinel)
        /\ stopper' = "wait" /\ UNCHANGED stopped
     \/ /\ stopper = "wait" /\ worker = "gone"
        /\ stopper' = "done" /\ UNCHANGED <<stopped, chan>>
  /\ UNCHANGED <<kind, offer, batches, out, gaveUp, late, worker>>

QueueNext ==
  \/ \E e \in Event : Dispatch(e) \/ PumpEvent(e) \/ SinkEvent(e)
  \/ WorkerTakes \/ WorkerStops \/ SinkTakes \/ SinkTimer \/ SinkFlush
  \/ Stop

QueueSpec == QueueInit /\ [][QueueNext]_queueVars
-------------------------------------------------------------------------------
QueueTypeOK ==
  /\ kind \in Kinds
  /\ offer \in [Event -> {"idle", "waiting", "done"}]
  /\ chan \in Seq(Event \cup {Sentinel}) /\ Len(chan) <= Capacity
  /\ batchEv \in Seq(Deltas) /\ batchOut \in Seq(Outputs) /\ out \in Seq(Event)
  /\ gaveUp \subseteq Event /\ late \subseteq Event
  /\ stopped \in BOOLEAN
  /\ worker \in {"run", "drain", "gone"}
  /\ stopper \in {"idle", "flush", "wait", "done"}

Times(e, s) == Cardinality({i \in DOMAIN s : s[i] = e})

\* An event that was offered is delivered once, or counted as dropped, or still queued;
\* and once the worker has gone only what was queued after the stop is left behind.
QueueConserves ==
  /\ \A e \in Event :
       Times(e, out) + Times(e, chan) + Times(e, batchEv) + Times(e, batchOut)
         + (IF e \in gaveUp THEN 1 ELSE 0)
         = IF offer[e] = "done" THEN 1 ELSE 0
  /\ worker = "gone" =>
       batches = <<<<>>, <<>>>> /\ \A i \in DOMAIN chan : chan[i] \in late
===============================================================================
