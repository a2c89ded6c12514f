---------------------------- MODULE RecordsProofs -----------------------------
(***************************************************************************)
(* Proofs about what a run hands on and keeps: EventQueues, whatever the   *)
(* events, the capacity and the order in which callers, worker and stop    *)
(* proceed; RunStore, for any number of saves to any of the files, with a  *)
(* crash, an error or a loss of power after any step; and Transcript, for  *)
(* any number of attempts, any cap of the store and an append that fails,  *)
(* or a seal, at any moment.                                               *)
(***************************************************************************)
EXTENDS EventQueues, RunStore, Transcript, SequenceTheorems, FiniteSetTheorems, TLAPS
-------------------------------------------------------------------------------
(* The events of a run.                                                      *)

Entry == Event \cup {Sentinel}

\* The places of an element are finitely many.
LEMMA TimesNat ==
  ASSUME NEW X, NEW s \in Seq(X), NEW e
  PROVE  /\ IsFiniteSet({i \in DOMAIN s : s[i] = e})
         /\ Times(e, s) \in Nat
<1>1. DOMAIN s = 1 .. Len(s) /\ Len(s) \in Nat
  OBVIOUS
<1>2. IsFiniteSet(1 .. Len(s))
  BY <1>1, FS_Interval
<1>3. {i \in DOMAIN s : s[i] = e} \subseteq 1 .. Len(s)
  BY <1>1
<1>. QED BY <1>2, <1>3, FS_Subset, FS_CardinalityType DEF Times

LEMMA TimesEmpty ==
  ASSUME NEW e
  PROVE  Times(e, <<>>) = 0
<1>1. {i \in DOMAIN <<>> : <<>>[i] = e} = {}
  OBVIOUS
<1>. QED BY <1>1, FS_EmptySet DEF Times

LEMMA TimesOne ==
  ASSUME NEW e, NEW x
  PROVE  Times(e, <<x>>) = IF x = e THEN 1 ELSE 0
<1>1. {i \in DOMAIN <<x>> : <<x>>[i] = e} = IF x = e THEN {1} ELSE {}
  OBVIOUS
<1>. QED BY <1>1, FS_EmptySet, FS_Singleton DEF Times

\* The places in the second part are shifted by the length of the first.
LEMMA TimesConcat ==
  ASSUME NEW X, NEW s \in Seq(X), NEW t \in Seq(X), NEW e
  PROVE  Times(e, s \o t) = Times(e, s) + Times(e, t)
<1>. DEFINE P == {i \in DOMAIN s : s[i] = e}
            Q == {i \in DOMAIN t : t[i] = e}
            R == {i \in Len(s) + 1 .. Len(s) + Len(t) : (s \o t)[i] = e}
            shift == [i \in Q |-> Len(s) + i]
<1>1. /\ DOMAIN s = 1 .. Len(s) /\ DOMAIN t = 1 .. Len(t) /\ Len(s) \in Nat /\ Len(t) \in Nat
      /\ DOMAIN (s \o t) = 1 .. Len(s) + Len(t)
      /\ \A i \in 1 .. Len(s) : (s \o t)[i] = s[i]
      /\ \A i \in 1 .. Len(t) : (s \o t)[Len(s) + i] = t[i]
  OBVIOUS
<1>2. {i \in DOMAIN (s \o t) : (s \o t)[i] = e} = P \cup R
  BY <1>1
<1>3. P \cap R = {}
  BY <1>1
<1>4. IsFiniteSet(P) /\ IsFiniteSet(Q)
  BY TimesNat
<1>5. shift \in Bijection(Q, R)
  <2>1. \A i \in Q : Len(s) + i \in R
    BY <1>1
  <2>2. \A i, j \in Q : Len(s) + i = Len(s) + j => i = j
    BY <1>1
  <2>3. \A k \in R : k - Len(s) \in Q /\ Len(s) + (k - Len(s)) = k
    <3>1. SUFFICES ASSUME NEW k \in R
                   PROVE  k - Len(s) \in Q /\ Len(s) + (k - Len(s)) = k
      OBVIOUS
    <3>2. k - Len(s) \in 1 .. Len(t) /\ Len(s) + (k - Len(s)) = k /\ (s \o t)[k] = e
      BY <1>1
    <3>. QED BY <1>1, <3>2
  <2>. HIDE DEF Q, R
  <2>4. shift \in [Q -> R]
    BY <2>1
  <2>5. \A k \in R : \E i \in Q : shift[i] = k
    BY <2>3
  <2>6. \A i, j \in Q : shift[i] = shift[j] => i = j
    BY <2>2
  <2>. HIDE DEF shift
  <2>. QED BY <2>4, <2>5, <2>6 DEF Bijection, Injection, Surjection, IsInjective
<1>6. IsFiniteSet(R) /\ Cardinality(Q) = Cardinality(R)
  <2>. HIDE DEF Q, R, shift
  <2>1. ExistsBijection(Q, R)
    BY <1>5 DEF ExistsBijection
  <2>. QED BY <1>4, <2>1, FS_Bijection
<1>7. Cardinality(P \cup R) = Cardinality(P) + Cardinality(R) - Cardinality(P \cap R)
  <2>. HIDE DEF P, R
  <2>. QED BY <1>4, <1>6, FS_Union
<1>8. Cardinality(P \cap R) = 0
  BY <1>3, FS_EmptySet
<1>9. Cardinality(P) \in Nat /\ Cardinality(R) \in Nat
  <2>. HIDE DEF P, R
  <2>. QED BY <1>4, <1>6, FS_CardinalityType
<1>10. Times(e, s \o t) = Cardinality(P \cup R)
  BY <1>2 DEF Times
<1>11. Times(e, s) = Cardinality(P) /\ Times(e, t) = Cardinality(Q)
  BY DEF Times
<1>. HIDE DEF P, Q, R
<1>. QED BY <1>6, <1>7, <1>8, <1>9, <1>10, <1>11

LEMMA TimesAppend ==
  ASSUME NEW X, NEW s \in Seq(X), NEW x \in X, NEW e
  PROVE  /\ Append(s, x) \in Seq(X)
         /\ Times(e, Append(s, x)) = Times(e, s) + (IF x = e THEN 1 ELSE 0)
<1>1. Append(s, x) = s \o <<x>> /\ <<x>> \in Seq(X) /\ Append(s, x) \in Seq(X)
  OBVIOUS
<1>2. Times(e, s \o <<x>>) = Times(e, s) + Times(e, <<x>>)
  BY <1>1, TimesConcat
<1>3. Times(e, <<x>>) = IF x = e THEN 1 ELSE 0
  BY TimesOne
<1>. QED BY <1>1, <1>2, <1>3

LEMMA TimesTail ==
  ASSUME NEW X, NEW s \in Seq(X), s # <<>>, NEW e
  PROVE  /\ Head(s) \in X /\ Tail(s) \in Seq(X)
         /\ Times(e, s) = Times(e, Tail(s)) + (IF Head(s) = e THEN 1 ELSE 0)
<1>1. /\ Head(s) \in X /\ Tail(s) \in Seq(X) /\ <<Head(s)>> \in Seq(X)
  OBVIOUS
<1>2. s = <<Head(s)>> \o Tail(s)
  OBVIOUS
<1>3. Times(e, s) = Times(e, <<Head(s)>>) + Times(e, Tail(s))
  BY <1>1, <1>2, TimesConcat
<1>4. Times(e, Tail(s)) \in Nat
  BY <1>1, TimesNat
<1>. QED BY <1>1, <1>3, <1>4, TimesOne

\* An element that does not occur is not at the head.
LEMMA TimesZero ==
  ASSUME NEW X, NEW s \in Seq(X), s # <<>>, NEW e, Times(e, s) = 0
  PROVE  Head(s) # e /\ Times(e, Tail(s)) = 0
<1>1. Times(e, s) = Times(e, Tail(s)) + (IF Head(s) = e THEN 1 ELSE 0)
  BY TimesTail
<1>2. Times(e, Tail(s)) \in Nat
  BY TimesTail, TimesNat
<1>. QED BY <1>1, <1>2
-------------------------------------------------------------------------------
\* What is where: before the stop the worker runs; a sink's runs until its sentinel is in the
\* channel, and keeps no batch after that.
Phases ==
  /\ stopper # "idle" => stopped
  /\ worker # "run" => stopped /\ batchEv = <<>> /\ batchOut = <<>>
  /\ kind # "sink" => stopper # "flush" /\ batchEv = <<>> /\ batchOut = <<>>
  /\ kind = "sink" /\ stopper \in {"idle", "flush"} => worker = "run"

\* The sentinel is in a sink's channel once, from Close until the worker takes it.
OneSentinel ==
  Times(Sentinel, chan) = IF kind = "sink" /\ stopper = "wait" /\ worker = "run" THEN 1 ELSE 0

\* A worker that has gone had emptied the channel.
LateOnly == worker = "gone" => \A i \in DOMAIN chan : chan[i] \in late

Sum(e) ==
  Times(e, out) + Times(e, chan) + Times(e, batchEv) + Times(e, batchOut)
    + (IF e \in gaveUp THEN 1 ELSE 0)

Conserved == \A e \in Event : Sum(e) = IF offer[e] = "done" THEN 1 ELSE 0

QueueInv == QueueTypeOK /\ Phases /\ OneSentinel /\ LateOnly /\ Conserved

\* Everything that moves through a queue is an item, and its occurrences are counted.
LEMMA EntriesCounted ==
  ASSUME QueueTypeOK
  PROVE  /\ Sentinel \notin Event
         /\ \A e \in Event : e \in Entry
         /\ out \in Seq(Entry) /\ chan \in Seq(Entry)
         /\ batchEv \in Seq(Entry) /\ batchOut \in Seq(Entry)
         /\ batchEv \in Seq(Event) /\ batchOut \in Seq(Event)
         /\ \A e : /\ Times(e, out) \in Nat /\ Times(e, chan) \in Nat
                   /\ Times(e, batchEv) \in Nat /\ Times(e, batchOut) \in Nat
<1>1. /\ Event \subseteq Entry /\ Deltas \subseteq Event /\ Outputs \subseteq Event
      /\ Sentinel \notin Event
  BY QueueAssumption DEF Entry, Event
<1>2. /\ out \in Seq(Event) /\ chan \in Seq(Entry)
      /\ batchEv \in Seq(Deltas) /\ batchOut \in Seq(Outputs)
  BY DEF QueueTypeOK, Entry
<1>3. batchEv \in Seq(Event) /\ batchOut \in Seq(Event)
  BY <1>1, <1>2, SeqMonotonic
<1>4. out \in Seq(Entry) /\ batchEv \in Seq(Entry) /\ batchOut \in Seq(Entry)
  BY <1>1, <1>2, <1>3, SeqMonotonic
<1>5. \A e : /\ Times(e, out) \in Nat /\ Times(e, chan) \in Nat
             /\ Times(e, batchEv) \in Nat /\ Times(e, batchOut) \in Nat
  BY <1>2, <1>4, TimesNat
<1>. QED BY <1>1, <1>2, <1>3, <1>4, <1>5

\* An event that is put into the channel is one more of it there, and late after the stop.
LEMMA PutKeeps ==
  ASSUME QueueTypeOK, Phases, OneSentinel, LateOnly, NEW e \in Event, Put(e)
  PROVE  /\ chan' \in Seq(Entry) /\ Len(chan') <= Capacity /\ late' \subseteq Event
         /\ \A f : Times(f, chan') = Times(f, chan) + (IF e = f THEN 1 ELSE 0)
         /\ worker = "gone" => \A i \in DOMAIN chan' : chan'[i] \in late'
<1>1. chan \in Seq(Entry) /\ e \in Entry /\ Capacity \in Nat
  BY EntriesCounted, QueueAssumption
<1>2. chan' = Append(chan, e) /\ Len(chan) < Capacity
  BY DEF Put, Room
<1>3. chan' \in Seq(Entry) /\ \A f : Times(f, chan') = Times(f, chan) + (IF e = f THEN 1 ELSE 0)
  BY <1>1, <1>2, TimesAppend
<1>4. Len(chan') <= Capacity
  BY <1>1, <1>2
<1>5. late' = (IF stopped THEN late \cup {e} ELSE late) /\ late \subseteq Event
  BY DEF Put, QueueTypeOK
<1>6. late' \subseteq Event
  BY <1>5
<1>7. ASSUME worker = "gone", NEW i \in DOMAIN chan'
      PROVE  chan'[i] \in late'
  <2>1. late' = late \cup {e}
    BY <1>5, <1>7 DEF Phases
  <2>2. /\ i \in 1 .. Len(chan) \/ i = Len(chan) + 1
        /\ i \in 1 .. Len(chan) => chan'[i] = chan[i] /\ i \in DOMAIN chan
        /\ i = Len(chan) + 1 => chan'[i] = e
    BY <1>1, <1>2
  <2>. QED BY <1>7, <2>1, <2>2 DEF LateOnly
<1>. QED BY <1>3, <1>4, <1>6, <1>7

\* What is delivered is counted with what has been.
LEMMA GiveKeeps ==
  ASSUME QueueTypeOK, NEW s \in Seq(Event), Give(s)
  PROVE  /\ out' \in Seq(Event)
         /\ \A f : Times(f, out') = Times(f, out) + Times(f, s)
<1>1. out \in Seq(Event) /\ out' = out \o s
  BY DEF QueueTypeOK, Give
<1>. QED BY <1>1, TimesConcat

\* What is taken from the channel is one less of it there.
LEMMA TakeKeeps ==
  ASSUME QueueTypeOK, LateOnly, chan # <<>>, chan' = Tail(chan)
  PROVE  /\ chan' \in Seq(Entry) /\ Len(chan') <= Capacity /\ Head(chan) \in Entry
         /\ \A f : Times(f, chan) = Times(f, chan') + (IF Head(chan) = f THEN 1 ELSE 0)
         /\ \A f : Times(f, chan') \in Nat
         /\ worker = "gone" => \A i \in DOMAIN chan' : chan'[i] \in late
<1>1. chan \in Seq(Entry) /\ Capacity \in Nat /\ Len(chan) <= Capacity
  BY EntriesCounted, QueueAssumption DEF QueueTypeOK
<1>2. /\ chan' \in Seq(Entry) /\ Head(chan) \in Entry
      /\ \A f : Times(f, chan) = Times(f, chan') + (IF Head(chan) = f THEN 1 ELSE 0)
  BY <1>1, TimesTail
<1>3. \A f : Times(f, chan') \in Nat
  BY <1>2, TimesNat
<1>4. Len(chan') <= Capacity
  BY <1>1
<1>5. ASSUME worker = "gone", NEW i \in DOMAIN chan'
      PROVE  chan'[i] \in late
  <2>1. chan'[i] = chan[i + 1] /\ i + 1 \in DOMAIN chan
    BY <1>1
  <2>. QED BY <1>5, <2>1 DEF LateOnly
<1>. QED BY <1>2, <1>3, <1>4, <1>5

\* The flush of a batch moves all of it.
LEMMA FlushKeeps ==
  ASSUME QueueTypeOK, NEW s \in Seq(Event), FlushThen(s)
  PROVE  /\ out' \in Seq(Event) /\ batchEv' = <<>> /\ batchOut' = <<>>
         /\ \A f : Times(f, out') = Times(f, out) + Times(f, batchEv) + Times(f, batchOut)
                                     + Times(f, s)
<1>1. /\ batchEv \in Seq(Event) /\ batchOut \in Seq(Event)
      /\ \A f : Times(f, out) \in Nat /\ Times(f, batchEv) \in Nat
               /\ Times(f, batchOut) \in Nat /\ Times(f, s) \in Nat
  BY EntriesCounted, TimesNat
<1>2. batchEv \o batchOut \in Seq(Event) /\ batchEv \o batchOut \o s \in Seq(Event)
  BY <1>1, ConcatProperties
<1>3. /\ Give(batchEv \o batchOut \o s) /\ batchEv' = <<>> /\ batchOut' = <<>>
  BY DEF FlushThen
<1>4. \A f : Times(f, batchEv \o batchOut \o s) = Times(f, batchEv \o batchOut) + Times(f, s)
  BY <1>2, TimesConcat
<1>5. \A f : Times(f, batchEv \o batchOut) = Times(f, batchEv) + Times(f, batchOut)
  BY <1>1, TimesConcat
<1>6. /\ out' \in Seq(Event)
      /\ \A f : Times(f, out') = Times(f, out) + Times(f, batchEv \o batchOut \o s)
  BY <1>2, <1>3, GiveKeeps
<1>. QED BY <1>1, <1>3, <1>4, <1>5, <1>6

LEMMA InitQueue ==
  ASSUME QueueInit
  PROVE  QueueInv
<1>1. /\ kind \in Kinds /\ offer = [e \in Event |-> "idle"]
      /\ chan = <<>> /\ batchEv = <<>> /\ batchOut = <<>> /\ out = <<>>
      /\ gaveUp = {} /\ late = {} /\ ~stopped /\ stopped \in BOOLEAN
      /\ worker = "run" /\ stopper = "idle"
  BY DEF QueueInit
<1>2. QueueTypeOK
  <2>1. \A X : <<>> \in Seq(X)
    OBVIOUS
  <2>2. Len(chan) <= Capacity
    BY <1>1, QueueAssumption
  <2>. QED BY <1>1, <2>1, <2>2, Zenon DEF QueueTypeOK
<1>3. Phases /\ OneSentinel /\ LateOnly
  BY <1>1, TimesEmpty DEF Phases, OneSentinel, LateOnly
<1>4. Conserved
  BY <1>1, TimesEmpty DEF Conserved, Sum
<1>. QED BY <1>2, <1>3, <1>4 DEF QueueInv

LEMMA StepQueue ==
  ASSUME QueueInv, [QueueNext]_queueVars
  PROVE  QueueInv'
<1>. USE DEF QueueInv
<1>0. /\ Sentinel \notin Event /\ \A e \in Event : e \in Entry
      /\ out \in Seq(Entry) /\ chan \in Seq(Entry)
      /\ batchEv \in Seq(Entry) /\ batchOut \in Seq(Entry)
      /\ batchEv \in Seq(Event) /\ batchOut \in Seq(Event)
      /\ \A e : /\ Times(e, out) \in Nat /\ Times(e, chan) \in Nat
                /\ Times(e, batchEv) \in Nat /\ Times(e, batchOut) \in Nat
  BY EntriesCounted
<1>T. /\ kind \in Kinds /\ offer \in [Event -> {"idle", "waiting", "done"}]
      /\ chan \in Seq(Entry) /\ Len(chan) <= Capacity
      /\ batchEv \in Seq(Deltas) /\ batchOut \in Seq(Outputs) /\ out \in Seq(Event)
      /\ gaveUp \subseteq Event /\ late \subseteq Event /\ stopped \in BOOLEAN
      /\ worker \in {"run", "drain", "gone"} /\ stopper \in {"idle", "flush", "wait", "done"}
  BY DEF QueueTypeOK, Entry
<1>N. \A f : /\ Times(f, out) \in Nat /\ Times(f, chan) \in Nat
            /\ Times(f, batchEv) \in Nat /\ Times(f, batchOut) \in Nat
  BY <1>0
<1>C. \A f \in Event :
        Times(f, out) + Times(f, chan) + Times(f, batchEv) + Times(f, batchOut)
          + (IF f \in gaveUp THEN 1 ELSE 0) = IF offer[f] = "done" THEN 1 ELSE 0
  BY DEF Conserved, Sum
<1>O. Times(Sentinel, chan) = IF kind = "sink" /\ stopper = "wait" /\ worker = "run" THEN 1 ELSE 0
  BY DEF OneSentinel
<1>. DEFINE
  Balanced(f) ==
    Times(f, out') + Times(f, chan') + Times(f, batchEv') + Times(f, batchOut')
      + (IF f \in gaveUp' THEN 1 ELSE 0) = IF offer'[f] = "done" THEN 1 ELSE 0
  Single ==
    Times(Sentinel, chan') =
      IF kind' = "sink" /\ stopper' = "wait" /\ worker' = "run" THEN 1 ELSE 0
<1>S. (\A f \in Event : Balanced(f)) => Conserved'
  BY Zenon DEF Conserved, Sum, Times
<1>U. Single => OneSentinel'
  BY Zenon DEF OneSentinel, Times
<1>1. ASSUME NEW e \in Event, Dispatch(e) \/ SinkEvent(e)
      PROVE  QueueInv'
  <2>1. /\ offer[e] = "idle" /\ offer' = [offer EXCEPT ![e] = "done"]
        /\ kind' = kind /\ batchEv' = batchEv /\ batchOut' = batchOut /\ gaveUp' = gaveUp
        /\ worker' = worker /\ stopper' = stopper
    BY <1>1 DEF Dispatch, SinkEvent, Offer, batches
  <2>2. stopped' = stopped
    BY <1>1 DEF Dispatch, SinkEvent
  <2>3. /\ offer' \in [Event -> {"idle", "waiting", "done"}]
        /\ \A f \in Event : offer'[f] = IF f = e THEN "done" ELSE offer[f]
    BY <1>T, <2>1
  <2>4. CASE Put(e) /\ out' = out
    <3>1. /\ chan' \in Seq(Entry) /\ Len(chan') <= Capacity /\ late' \subseteq Event
          /\ worker = "gone" => \A i \in DOMAIN chan' : chan'[i] \in late'
      BY <2>4, PutKeeps
    <3>2. \A f : Times(f, chan') = Times(f, chan) + (IF e = f THEN 1 ELSE 0)
      BY <2>4, PutKeeps
    <3>3. QueueTypeOK'
      BY <1>T, <2>1, <2>2, <2>3, <2>4, <3>1, Zenon DEF QueueTypeOK, Entry
    <3>4. Phases'
      BY <2>1, <2>2, Zenon DEF Phases
    <3>5. Single
      BY <1>0, <1>N, <1>O, <2>1, <3>2
    <3>6. LateOnly'
      BY <2>1, <3>1, Zenon DEF LateOnly
    <3>7. ASSUME NEW f \in Event
          PROVE  Balanced(f)
      <4>1. out' = out
        BY <2>4
      <4>. QED BY <1>N, <1>C, <2>1, <2>3, <3>2, <4>1
    <3>. QED BY <1>S, <1>U, <3>3, <3>4, <3>5, <3>6, <3>7
  <2>5. CASE Give(<<e>>) /\ chan' = chan /\ late' = late
    <3>0. <<e>> \in Seq(Event)
      OBVIOUS
    <3>1. out' \in Seq(Event)
      BY <2>5, <3>0, GiveKeeps
    <3>2. \A f : Times(f, out') = Times(f, out) + (IF e = f THEN 1 ELSE 0)
      <4>1. \A f : Times(f, out') = Times(f, out) + Times(f, <<e>>)
        BY <2>5, <3>0, GiveKeeps
      <4>2. \A f : Times(f, <<e>>) = IF e = f THEN 1 ELSE 0
        BY TimesOne
      <4>. QED BY <4>1, <4>2
    <3>3. QueueTypeOK'
      BY <1>T, <2>1, <2>2, <2>3, <2>5, <3>1, Zenon DEF QueueTypeOK, Entry
    <3>4. Phases'
      BY <2>1, <2>2, Zenon DEF Phases
    <3>5. Single
      BY <1>O, <2>1, <2>5
    <3>6. LateOnly'
      BY <2>1, <2>5, Zenon DEF LateOnly
    <3>7. ASSUME NEW f \in Event
          PROVE  Balanced(f)
      <4>1. chan' = chan
        BY <2>5
      <4>. QED BY <1>N, <1>C, <2>1, <2>3, <3>2, <4>1
    <3>. QED BY <1>S, <1>U, <3>3, <3>4, <3>5, <3>6, <3>7
  <2>. QED BY <1>1, <2>4, <2>5 DEF Dispatch, SinkEvent
<1>2. ASSUME NEW e \in Event, PumpEvent(e)
      PROVE  QueueInv'
  <2>1. /\ kind' = kind /\ batchEv' = batchEv /\ batchOut' = batchOut /\ out' = out
        /\ worker' = worker /\ stopper' = stopper
    BY <1>2 DEF PumpEvent, batches
  <2>2. stopped' = stopped
    BY <1>2 DEF PumpEvent
  <2>3. ASSUME NEW to \in {"waiting", "done"}, offer' = [offer EXCEPT ![e] = to]
        PROVE  /\ offer' \in [Event -> {"idle", "waiting", "done"}]
               /\ \A f \in Event : offer'[f] = IF f = e THEN to ELSE offer[f]
    BY <1>T, <2>3
  <2>4. CASE /\ Offer(e, "idle", "done") \/ Offer(e, "waiting", "done")
             /\ Put(e) /\ gaveUp' = gaveUp
    <3>1. /\ chan' \in Seq(Entry) /\ Len(chan') <= Capacity /\ late' \subseteq Event
          /\ worker = "gone" => \A i \in DOMAIN chan' : chan'[i] \in late'
      BY <2>4, PutKeeps
    <3>2. \A f : Times(f, chan') = Times(f, chan) + (IF e = f THEN 1 ELSE 0)
      BY <2>4, PutKeeps
    <3>3. /\ offer[e] # "done" /\ offer' \in [Event -> {"idle", "waiting", "done"}]
          /\ \A f \in Event : offer'[f] = IF f = e THEN "done" ELSE offer[f]
      BY <2>3, <2>4 DEF Offer
    <3>4. QueueTypeOK'
      BY <1>T, <2>1, <2>2, <2>4, <3>1, <3>3, Zenon DEF QueueTypeOK, Entry
    <3>5. Phases'
      BY <2>1, <2>2, Zenon DEF Phases
    <3>6. Single
      BY <1>0, <1>N, <1>O, <2>1, <3>2
    <3>7. LateOnly'
      BY <2>1, <3>1, Zenon DEF LateOnly
    <3>8. ASSUME NEW f \in Event
          PROVE  Balanced(f)
      <4>1. gaveUp' = gaveUp
        BY <2>4
      <4>. QED BY <1>N, <1>C, <2>1, <3>2, <3>3, <4>1
    <3>. QED BY <1>S, <1>U, <3>4, <3>5, <3>6, <3>7, <3>8
  <2>5. ASSUME Offer(e, "idle", "waiting"), UNCHANGED <<chan, late, gaveUp>>
        PROVE  QueueInv'
    <3>1. chan' = chan /\ late' = late /\ gaveUp' = gaveUp /\ offer[e] # "done"
      BY <2>5 DEF Offer
    <3>2. /\ offer' \in [Event -> {"idle", "waiting", "done"}]
          /\ \A f \in Event : offer'[f] = IF f = e THEN "waiting" ELSE offer[f]
      BY <2>3, <2>5 DEF Offer
    <3>3. QueueTypeOK'
      BY <1>T, <2>1, <2>2, <3>1, <3>2, Zenon DEF QueueTypeOK, Entry
    <3>4. Phases' /\ LateOnly'
      BY <2>1, <2>2, <3>1, Zenon DEF Phases, LateOnly
    <3>5. Single
      BY <1>O, <2>1, <3>1
    <3>6. ASSUME NEW f \in Event
          PROVE  Balanced(f)
      BY <1>N, <1>C, <2>1, <3>1, <3>2
    <3>. QED BY <1>S, <1>U, <3>3, <3>4, <3>5, <3>6
  <2>6. ASSUME Offer(e, "waiting", "done"), gaveUp' = gaveUp \cup {e}, UNCHANGED <<chan, late>>
        PROVE  QueueInv'
    <3>1. chan' = chan /\ late' = late /\ gaveUp' = gaveUp \cup {e} /\ offer[e] # "done"
      BY <2>6 DEF Offer
    <3>2. /\ offer' \in [Event -> {"idle", "waiting", "done"}]
          /\ \A f \in Event : offer'[f] = IF f = e THEN "done" ELSE offer[f]
      BY <2>3, <2>6 DEF Offer
    <3>3. gaveUp' \subseteq Event
      BY <1>T, <3>1
    <3>4. QueueTypeOK'
      BY <1>T, <2>1, <2>2, <3>1, <3>2, <3>3, Zenon DEF QueueTypeOK, Entry
    <3>5. Phases' /\ LateOnly'
      BY <2>1, <2>2, <3>1, Zenon DEF Phases, LateOnly
    <3>6. Single
      BY <1>O, <2>1, <3>1
    <3>7. ASSUME NEW f \in Event
          PROVE  Balanced(f)
      BY <1>N, <1>C, <2>1, <3>1, <3>2
    <3>. QED BY <1>S, <1>U, <3>4, <3>5, <3>6, <3>7
  <2>7. \/ Offer(e, "idle", "done") /\ Put(e) /\ gaveUp' = gaveUp
        \/ Offer(e, "idle", "waiting") /\ UNCHANGED <<chan, late, gaveUp>>
        \/ Offer(e, "waiting", "done") /\ Put(e) /\ gaveUp' = gaveUp
        \/ Offer(e, "waiting", "done") /\ gaveUp' = gaveUp \cup {e} /\ UNCHANGED <<chan, late>>
    BY <1>2, Zenon DEF PumpEvent
  <2>. QED BY <2>4, <2>5, <2>6, <2>7, Zenon
<1>3. CASE WorkerTakes
  <2>1. /\ kind # "sink" /\ worker \in {"run", "drain"} /\ chan # <<>> /\ chan' = Tail(chan)
        /\ Give(<<Head(chan)>>) /\ kind' = kind /\ offer' = offer /\ batchEv' = batchEv
        /\ batchOut' = batchOut /\ gaveUp' = gaveUp /\ late' = late /\ worker' = worker
        /\ stopper' = stopper
    BY <1>3 DEF WorkerTakes, batches
  <2>2. stopped' = stopped
    BY <1>3 DEF WorkerTakes
  <2>3. /\ chan' \in Seq(Entry) /\ Len(chan') <= Capacity /\ Head(chan) \in Entry
        /\ worker = "gone" => \A i \in DOMAIN chan' : chan'[i] \in late
    BY <2>1, TakeKeeps
  <2>4. /\ \A f : Times(f, chan) = Times(f, chan') + (IF Head(chan) = f THEN 1 ELSE 0)
        /\ \A f : Times(f, chan') \in Nat
    BY <2>1, TakeKeeps
  <2>5. Head(chan) # Sentinel /\ Times(Sentinel, chan') = 0
    <3>1. Times(Sentinel, chan) = 0
      BY <1>O, <2>1
    <3>. QED BY <1>0, <2>1, <3>1, TimesZero
  <2>6. Head(chan) \in Event
    BY <2>3, <2>5 DEF Entry
  <2>7. <<Head(chan)>> \in Seq(Event)
    BY <2>6
  <2>8. out' \in Seq(Event)
    BY <2>1, <2>7, GiveKeeps
  <2>9. \A f : Times(f, out') = Times(f, out) + (IF Head(chan) = f THEN 1 ELSE 0)
    <3>1. \A f : Times(f, out') = Times(f, out) + Times(f, <<Head(chan)>>)
      BY <2>1, <2>7, GiveKeeps
    <3>2. \A f : Times(f, <<Head(chan)>>) = IF Head(chan) = f THEN 1 ELSE 0
      BY TimesOne
    <3>. QED BY <3>1, <3>2
  <2>10. QueueTypeOK'
    BY <1>T, <2>1, <2>2, <2>3, <2>8, Zenon DEF QueueTypeOK, Entry
  <2>11. Phases' /\ LateOnly'
    BY <2>1, <2>2, <2>3, Zenon DEF Phases, LateOnly
  <2>12. Single
    BY <2>1, <2>5
  <2>13. ASSUME NEW f \in Event
         PROVE  Balanced(f)
    <3>1. /\ offer' = offer /\ gaveUp' = gaveUp
          /\ Times(f, batchEv') = Times(f, batchEv) /\ Times(f, batchOut') = Times(f, batchOut)
      BY <2>1
    <3>2. /\ Times(f, chan) = Times(f, chan') + (IF Head(chan) = f THEN 1 ELSE 0)
          /\ Times(f, out') = Times(f, out) + (IF Head(chan) = f THEN 1 ELSE 0)
      BY <2>4, <2>9
    <3>3. Times(f, chan') \in Nat
      BY <2>4
    <3>. QED BY <1>N, <1>C, <3>1, <3>2, <3>3
  <2>. QED BY <1>S, <1>U, <2>10, <2>11, <2>12, <2>13
<1>4. CASE WorkerStops
  <2>1. /\ kind # "sink" /\ kind' = kind /\ offer' = offer /\ chan' = chan
        /\ batchEv' = batchEv /\ batchOut' = batchOut /\ out' = out /\ gaveUp' = gaveUp
        /\ late' = late /\ stopper' = stopper
    BY <1>4 DEF WorkerStops, batches
  <2>2. /\ stopped' = stopped
        /\ \/ worker = "run" /\ stopped /\ worker' = "drain"
           \/ worker = "drain" /\ chan = <<>> /\ worker' = "gone"
    BY <1>4 DEF WorkerStops
  <2>3. QueueTypeOK'
    <3>1. worker' \in {"run", "drain", "gone"}
      BY <2>2
    <3>. QED BY <1>T, <2>1, <2>2, <3>1, Zenon DEF QueueTypeOK, Entry
  <2>4. Phases'
    BY <2>1, <2>2 DEF Phases
  <2>5. LateOnly'
    BY <2>1, <2>2 DEF LateOnly
  <2>6. Single
    BY <1>O, <2>1
  <2>7. ASSUME NEW f \in Event
        PROVE  Balanced(f)
    BY <1>N, <1>C, <2>1
  <2>. QED BY <1>S, <1>U, <2>3, <2>4, <2>5, <2>6, <2>7
<1>5. CASE SinkTakes
  <2>1. /\ kind = "sink" /\ worker = "run" /\ chan # <<>> /\ Head(chan) # Sentinel
        /\ chan' = Tail(chan) /\ kind' = kind /\ offer' = offer
        /\ gaveUp' = gaveUp /\ late' = late /\ worker' = worker /\ stopper' = stopper
    BY <1>5 DEF SinkTakes
  <2>2. stopped' = stopped
    BY <1>5 DEF SinkTakes
  <2>B. offer' = offer /\ gaveUp' = gaveUp
    BY <2>1
  <2>3. chan' \in Seq(Entry) /\ Len(chan') <= Capacity
    BY <2>1, TakeKeeps
  <2>4. /\ \A f : Times(f, chan) = Times(f, chan') + (IF Head(chan) = f THEN 1 ELSE 0)
        /\ \A f : Times(f, chan') \in Nat
    BY <2>1, TakeKeeps
  <2>5. Phases' /\ LateOnly'
    BY <2>1, <2>2 DEF Phases, LateOnly
  <2>6. Single
    BY <1>N, <1>O, <2>1, <2>4
  <2>7. CASE Head(chan) \in Urgent /\ FlushThen(<<Head(chan)>>)
    <3>0. <<Head(chan)>> \in Seq(Event)
      BY <2>7 DEF Event
    <3>1. out' \in Seq(Event) /\ batchEv' = <<>> /\ batchOut' = <<>>
      BY <2>7, <3>0, FlushKeeps
    <3>2. \A f : Times(f, out') = Times(f, out) + Times(f, batchEv) + Times(f, batchOut)
                                  + (IF Head(chan) = f THEN 1 ELSE 0)
      <4>1. \A f : Times(f, out') = Times(f, out) + Times(f, batchEv) + Times(f, batchOut)
                                    + Times(f, <<Head(chan)>>)
        BY <2>7, <3>0, FlushKeeps
      <4>2. \A f : Times(f, <<Head(chan)>>) = IF Head(chan) = f THEN 1 ELSE 0
        BY TimesOne
      <4>. QED BY <4>1, <4>2
    <3>3. batchEv' \in Seq(Deltas) /\ batchOut' \in Seq(Outputs)
      BY <3>1
    <3>4. QueueTypeOK'
      BY <1>T, <2>1, <2>2, <2>3, <3>1, <3>3, Zenon DEF QueueTypeOK, Entry
    <3>5. ASSUME NEW f \in Event
          PROVE  Balanced(f)
      <4>1. Times(f, batchEv') = 0 /\ Times(f, batchOut') = 0
        BY <3>1, TimesEmpty
      <4>. QED BY <1>N, <1>C, <2>B, <2>4, <3>2, <4>1
    <3>. QED BY <1>S, <1>U, <2>5, <2>6, <3>4, <3>5
  <2>8. CASE /\ Head(chan) \in Outputs
             /\ batchOut' = Append(batchOut, Head(chan)) /\ out' = out /\ batchEv' = batchEv
    <3>1. batchOut' \in Seq(Outputs)
      BY <1>T, <2>8, TimesAppend
    <3>2. \A f : Times(f, batchOut') = Times(f, batchOut) + (IF Head(chan) = f THEN 1 ELSE 0)
      BY <1>T, <2>8, TimesAppend
    <3>3. QueueTypeOK'
      BY <1>T, <2>1, <2>2, <2>3, <2>8, <3>1, Zenon DEF QueueTypeOK, Entry
    <3>4. ASSUME NEW f \in Event
          PROVE  Balanced(f)
      <4>1. out' = out /\ batchEv' = batchEv
        BY <2>8
      <4>. QED BY <1>N, <1>C, <2>B, <2>4, <3>2, <4>1
    <3>5. Phases'
      BY <2>1, <2>2 DEF Phases
    <3>. QED BY <1>S, <1>U, <2>5, <2>6, <3>3, <3>4, <3>5
  <2>9. CASE /\ Head(chan) \in Deltas
             /\ batchEv' = Append(batchEv, Head(chan)) /\ out' = out /\ batchOut' = batchOut
    <3>1. batchEv' \in Seq(Deltas)
      BY <1>T, <2>9, TimesAppend
    <3>2. \A f : Times(f, batchEv') = Times(f, batchEv) + (IF Head(chan) = f THEN 1 ELSE 0)
      BY <1>T, <2>9, TimesAppend
    <3>3. QueueTypeOK'
      BY <1>T, <2>1, <2>2, <2>3, <2>9, <3>1, Zenon DEF QueueTypeOK, Entry
    <3>4. ASSUME NEW f \in Event
          PROVE  Balanced(f)
      <4>1. out' = out /\ batchOut' = batchOut
        BY <2>9
      <4>. QED BY <1>N, <1>C, <2>B, <2>4, <3>2, <4>1
    <3>. QED BY <1>S, <1>U, <2>5, <2>6, <3>3, <3>4
  <2>. QED BY <1>5, <2>7, <2>8, <2>9 DEF SinkTakes
<1>6. CASE SinkTimer
  <2>1. /\ kind = "sink" /\ worker = "run" /\ chan' = chan /\ kind' = kind /\ offer' = offer
        /\ gaveUp' = gaveUp /\ late' = late /\ worker' = worker /\ stopper' = stopper
        /\ FlushThen(<<>>)
    BY <1>6 DEF SinkTimer
  <2>2. stopped' = stopped
    BY <1>6 DEF SinkTimer
  <2>3. <<>> \in Seq(Event)
    OBVIOUS
  <2>4. out' \in Seq(Event) /\ batchEv' = <<>> /\ batchOut' = <<>>
    BY <2>1, <2>3, FlushKeeps
  <2>5. \A f : Times(f, out') = Times(f, out) + Times(f, batchEv) + Times(f, batchOut)
    <3>1. \A f : Times(f, out') = Times(f, out) + Times(f, batchEv) + Times(f, batchOut)
                                  + Times(f, <<>>)
      BY <2>1, <2>3, FlushKeeps
    <3>. QED BY <1>N, <3>1, TimesEmpty
  <2>6. batchEv' \in Seq(Deltas) /\ batchOut' \in Seq(Outputs)
    BY <2>4
  <2>7. QueueTypeOK'
    BY <1>T, <2>1, <2>2, <2>4, <2>6, Zenon DEF QueueTypeOK, Entry
  <2>8. Phases' /\ LateOnly'
    BY <2>1, <2>2 DEF Phases, LateOnly
  <2>9. Single
    BY <1>O, <2>1
  <2>10. ASSUME NEW f \in Event
         PROVE  Balanced(f)
    <3>1. Times(f, batchEv') = 0 /\ Times(f, batchOut') = 0
      BY <2>4, TimesEmpty
    <3>. QED BY <1>N, <1>C, <2>1, <2>5, <3>1
  <2>. QED BY <1>S, <1>U, <2>7, <2>8, <2>9, <2>10
<1>7. CASE SinkFlush
  <2>1. /\ kind = "sink" /\ kind' = kind /\ offer' = offer
        /\ gaveUp' = gaveUp /\ late' = late /\ stopper' = stopper
    BY <1>7 DEF SinkFlush
  <2>2. stopped' = stopped
    BY <1>7 DEF SinkFlush
  <2>3. CASE /\ worker = "run" /\ chan # <<>> /\ Head(chan) = Sentinel
             /\ FlushThen(<<>>) /\ chan' = Tail(chan) /\ worker' = "drain"
    <3>1. chan' \in Seq(Entry) /\ Len(chan') <= Capacity
      BY <2>3, TakeKeeps
    <3>2. /\ \A f : Times(f, chan) = Times(f, chan') + (IF Sentinel = f THEN 1 ELSE 0)
          /\ \A f : Times(f, chan') \in Nat
      BY <2>3, TakeKeeps
    <3>3. <<>> \in Seq(Event)
      OBVIOUS
    <3>4. out' \in Seq(Event) /\ batchEv' = <<>> /\ batchOut' = <<>>
      BY <2>3, <3>3, FlushKeeps
    <3>5. \A f : Times(f, out') = Times(f, out) + Times(f, batchEv) + Times(f, batchOut)
      <4>1. \A f : Times(f, out') = Times(f, out) + Times(f, batchEv) + Times(f, batchOut)
                                    + Times(f, <<>>)
        BY <2>3, <3>3, FlushKeeps
      <4>. QED BY <1>N, <4>1, TimesEmpty
    <3>6. batchEv' \in Seq(Deltas) /\ batchOut' \in Seq(Outputs)
      BY <3>4
    <3>7. worker' = "drain"
      BY <2>3
    <3>8. QueueTypeOK'
      BY <1>T, <2>1, <2>2, <3>1, <3>4, <3>6, <3>7, Zenon DEF QueueTypeOK, Entry
    <3>9. Times(Sentinel, chan') = 0 /\ stopper = "wait"
      <4>1. Times(Sentinel, chan) = Times(Sentinel, chan') + 1 /\ Times(Sentinel, chan') \in Nat
        BY <3>2
      <4>. QED BY <1>O, <4>1
    <3>10. Phases' /\ LateOnly'
      BY <2>1, <2>2, <3>4, <3>7, <3>9 DEF Phases, LateOnly
    <3>11. Single
      BY <3>7, <3>9
    <3>12. ASSUME NEW f \in Event
           PROVE  Balanced(f)
      <4>1. Times(f, batchEv') = 0 /\ Times(f, batchOut') = 0
        BY <3>4, TimesEmpty
      <4>2. Times(f, chan') = Times(f, chan)
        BY <1>0, <1>N, <3>2
      <4>. QED BY <1>N, <1>C, <2>1, <3>5, <4>1, <4>2
    <3>. QED BY <1>S, <1>U, <3>8, <3>10, <3>11, <3>12
  <2>4. CASE /\ worker = "drain" /\ chan # <<>> /\ Give(<<Head(chan)>>) /\ chan' = Tail(chan)
             /\ batchEv' = batchEv /\ batchOut' = batchOut /\ worker' = worker
    <3>1. chan' \in Seq(Entry) /\ Len(chan') <= Capacity /\ Head(chan) \in Entry
      BY <2>4, TakeKeeps
    <3>2. /\ \A f : Times(f, chan) = Times(f, chan') + (IF Head(chan) = f THEN 1 ELSE 0)
          /\ \A f : Times(f, chan') \in Nat
      BY <2>4, TakeKeeps
    <3>3. Head(chan) # Sentinel /\ Times(Sentinel, chan') = 0
      <4>1. Times(Sentinel, chan) = 0
        BY <1>O, <2>4
      <4>. QED BY <1>0, <2>4, <4>1, TimesZero
    <3>4. <<Head(chan)>> \in Seq(Event)
      BY <3>1, <3>3 DEF Entry
    <3>5. out' \in Seq(Event)
      BY <2>4, <3>4, GiveKeeps
    <3>6. \A f : Times(f, out') = Times(f, out) + (IF Head(chan) = f THEN 1 ELSE 0)
      <4>1. \A f : Times(f, out') = Times(f, out) + Times(f, <<Head(chan)>>)
        BY <2>4, <3>4, GiveKeeps
      <4>2. \A f : Times(f, <<Head(chan)>>) = IF Head(chan) = f THEN 1 ELSE 0
        BY TimesOne
      <4>. QED BY <4>1, <4>2
    <3>7. batchEv' = batchEv /\ batchOut' = batchOut /\ worker' = worker /\ worker = "drain"
      BY <2>4
    <3>8. QueueTypeOK'
      BY <1>T, <2>1, <2>2, <3>1, <3>5, <3>7, Zenon DEF QueueTypeOK, Entry
    <3>9. Phases' /\ LateOnly'
      BY <2>1, <2>2, <3>7 DEF Phases, LateOnly
    <3>10. Single
      BY <3>3, <3>7
    <3>11. ASSUME NEW f \in Event
           PROVE  Balanced(f)
      BY <1>N, <1>C, <2>1, <3>2, <3>6, <3>7
    <3>. QED BY <1>S, <1>U, <3>8, <3>9, <3>10, <3>11
  <2>5. CASE /\ worker = "drain" /\ chan = <<>> /\ worker' = "gone" /\ out' = out
             /\ batchEv' = batchEv /\ batchOut' = batchOut /\ chan' = chan
    <3>1. QueueTypeOK'
      BY <1>T, <2>1, <2>2, <2>5, Zenon DEF QueueTypeOK, Entry
    <3>2. Phases' /\ LateOnly'
      BY <2>1, <2>2, <2>5 DEF Phases, LateOnly
    <3>3. Single
      BY <1>O, <2>1, <2>5
    <3>4. ASSUME NEW f \in Event
          PROVE  Balanced(f)
      <4>1. out' = out /\ batchEv' = batchEv /\ batchOut' = batchOut /\ chan' = chan
        BY <2>5
      <4>. QED BY <1>N, <1>C, <2>1, <4>1
    <3>. QED BY <1>S, <1>U, <3>1, <3>2, <3>3, <3>4
  <2>. QED BY <1>7, <2>3, <2>4, <2>5 DEF SinkFlush, batches
<1>8. CASE Stop
  <2>1. /\ kind' = kind /\ offer' = offer /\ batchEv' = batchEv /\ batchOut' = batchOut
        /\ out' = out /\ gaveUp' = gaveUp /\ late' = late /\ worker' = worker
    BY <1>8 DEF Stop, batches
  <2>2. CASE /\ stopper = "idle" /\ stopped' = TRUE /\ chan' = chan
             /\ stopper' = (IF kind = "sink" THEN "flush" ELSE "wait")
    <3>1. stopper' \in {"idle", "flush", "wait", "done"} /\ stopped' \in BOOLEAN
      BY <2>2
    <3>2. QueueTypeOK'
      BY <1>T, <2>1, <2>2, <3>1, Zenon DEF QueueTypeOK, Entry
    <3>3. Phases' /\ LateOnly'
      BY <2>1, <2>2 DEF Phases, LateOnly
    <3>4. Single
      <4>1. stopper = "idle" /\ chan' = chan /\ (kind = "sink" => stopper' = "flush")
        BY <2>2
      <4>. QED BY <1>O, <2>1, <4>1
    <3>5. ASSUME NEW f \in Event
          PROVE  Balanced(f)
      <4>1. chan' = chan
        BY <2>2
      <4>. QED BY <1>N, <1>C, <2>1, <4>1
    <3>. QED BY <1>S, <1>U, <3>2, <3>3, <3>4, <3>5
  <2>3. CASE /\ stopper = "flush" /\ Room /\ chan' = Append(chan, Sentinel)
             /\ stopper' = "wait" /\ stopped' = stopped
    <3>1. Sentinel \in Entry /\ Capacity \in Nat
      BY QueueAssumption DEF Entry
    <3>2. chan' \in Seq(Entry)
      BY <1>T, <2>3, <3>1, TimesAppend
    <3>3. \A f : Times(f, chan') = Times(f, chan) + (IF Sentinel = f THEN 1 ELSE 0)
      BY <1>T, <2>3, <3>1, TimesAppend
    <3>4. Len(chan') <= Capacity
      BY <1>T, <2>3, <3>1 DEF Room
    <3>5. kind = "sink" /\ worker = "run" /\ stopper' = "wait" /\ stopper = "flush"
      BY <2>3 DEF Phases
    <3>6. QueueTypeOK'
      BY <1>T, <2>1, <2>3, <3>2, <3>4, Zenon DEF QueueTypeOK, Entry
    <3>7. Phases' /\ LateOnly'
      BY <2>1, <2>3, <3>5 DEF Phases, LateOnly
    <3>8. Single
      BY <1>N, <1>O, <2>1, <3>3, <3>5
    <3>9. ASSUME NEW f \in Event
          PROVE  Balanced(f)
      <4>1. Times(f, chan') = Times(f, chan)
        BY <1>0, <1>N, <3>3
      <4>. QED BY <1>N, <1>C, <2>1, <4>1
    <3>. QED BY <1>S, <1>U, <3>6, <3>7, <3>8, <3>9
  <2>4. CASE /\ stopper = "wait" /\ worker = "gone" /\ stopper' = "done"
             /\ stopped' = stopped /\ chan' = chan
    <3>1. QueueTypeOK'
      BY <1>T, <2>1, <2>4, Zenon DEF QueueTypeOK, Entry
    <3>2. Phases' /\ LateOnly'
      BY <2>1, <2>4 DEF Phases, LateOnly
    <3>3. stopper = "wait" /\ worker = "gone" /\ stopper' = "done" /\ chan' = chan
      BY <2>4
    <3>4. Single
      BY <1>O, <2>1, <3>3
    <3>5. ASSUME NEW f \in Event
          PROVE  Balanced(f)
      BY <1>N, <1>C, <2>1, <3>3
    <3>. QED BY <1>S, <1>U, <3>1, <3>2, <3>4, <3>5
  <2>. QED BY <1>8, <2>2, <2>3, <2>4 DEF Stop
<1>9. CASE UNCHANGED queueVars
  <2>1. /\ UNCHANGED <<kind, offer, chan, batchEv, batchOut, out, gaveUp, late>>
        /\ UNCHANGED <<stopped, worker, stopper>>
    BY <1>9 DEF queueVars, batches
  <2>2. QueueTypeOK' /\ Phases' /\ OneSentinel' /\ LateOnly'
    BY <2>1, Zenon DEF QueueTypeOK, Phases, OneSentinel, LateOnly, Times
  <2>3. Conserved'
    BY <2>1, Zenon DEF Conserved, Sum, Times
  <2>. QED BY <2>2, <2>3
<1>. QED
  BY <1>1, <1>2, <1>3, <1>4, <1>5, <1>6, <1>7, <1>8, <1>9, Zenon DEF QueueNext

\* Each event is in one place, from the offer to its delivery or drop, and one sentinel at
\* most is in the channel (drop_fanout.go, progress_pump.go, buffered.go).
THEOREM QueueInvariant == QueueSpec => []QueueInv
<1>1. QueueInit => QueueInv
  BY InitQueue
<1>2. QueueInv /\ [QueueNext]_queueVars => QueueInv'
  BY StepQueue
<1>. QED BY <1>1, <1>2, PTL DEF QueueSpec

\* No event offered to a fan-out, a pump or a sink is lost or delivered twice before the
\* stop: it is delivered, counted as dropped or still queued; when the worker has gone, what
\* is left in the channel was put there after the stop (drop_fanout.go, progress_pump.go,
\* buffered.go).
THEOREM QueueConservesCorrect == QueueSpec => []QueueConserves
<1>1. QueueInv => QueueConserves
  BY DEF QueueInv, Conserved, Sum, Phases, LateOnly, QueueConserves, batches
<1>. QED BY <1>1, QueueInvariant, PTL
-------------------------------------------------------------------------------
(* The files of a run.                                                       *)

\* A save that is under way holds the mutex.
Holds(s) == save[s] \in {"begun", "read", "written", "synced", "renamed"}
OneSave == \A s \in Saver : Holds(s) <=> lock = s
OneBackend == \A s \in Saver : Holds(s) => backend = "file"

\* Nothing is renamed before its data has reached the disk.
SyncedFirst ==
  /\ frail = {}
  /\ \A s \in Saver : save[s] = "synced" => s \in synced

\* A file, or what the disk has of it: written whole, with one value for each entry.
Whole(f, content) ==
  /\ content \subseteq Saver
  /\ \A s, t \in content : Target[s] = f /\ (Key[s] = Key[t] \/ f # "memory" => s = t)
AllWhole == \A f \in File : Whole(f, file[f]) /\ Whole(f, kept[f])

\* What a save is about to write adds its entry to the file as it still is.
Prepared ==
  \A s \in Saver : save[s] \in {"read", "written", "synced"} =>
    data[s] = Merged(s, file[Target[s]])

\* A rename puts the whole of what was prepared in place of the file.
Renamed == \A s \in Saver : save[s] = "renamed" => s \in file[Target[s]]

\* What was saved is in its file, under its own save or a later one of the same entry, unless
\* the power failed or the run was deleted.
Durable ==
  ~lost => \A s \in Saver :
    save[s] = "saved" => \E t \in file[Target[s]] : Target[s] = "memory" => Key[t] = Key[s]

StoreInv ==
  /\ StoreTypeOK /\ OneSave /\ OneBackend /\ SyncedFirst
  /\ AllWhole /\ Prepared /\ Renamed /\ Durable

\* The entry of a save replaces that of an earlier one, and leaves the file whole.
LEMMA MergeWhole ==
  ASSUME NEW s \in Saver, NEW f, NEW old, Whole(f, old), f = Target[s]
  PROVE  Whole(f, Merged(s, old))
BY StoreAssumption DEF Whole, Merged

\* An entry of the file that was there before the merge is there after it.
LEMMA MergeKeeps ==
  ASSUME NEW s \in Saver, NEW u \in Saver, Target[u] = Target[s], NEW old,
         \E t \in old : Target[u] = "memory" => Key[t] = Key[u]
  PROVE  \E t \in Merged(s, old) : Target[u] = "memory" => Key[t] = Key[u]
<1>1. s \in Merged(s, old)
  BY DEF Merged
<1>2. CASE Target[u] # "memory"
  BY <1>1, <1>2
<1>3. CASE Target[u] = "memory" /\ Key[s] = Key[u]
  BY <1>1, <1>3
<1>4. CASE Target[u] = "memory" /\ Key[s] # Key[u]
  BY <1>4 DEF Merged
<1> QED
  BY <1>2, <1>3, <1>4

LEMMA InitStore ==
  StoreInit => StoreInv
<1> SUFFICES ASSUME StoreInit PROVE StoreInv
  OBVIOUS
<1> USE StoreAssumption DEF StoreInit, File, Content
<1>1. StoreTypeOK
  BY DEF StoreTypeOK
<1>2. OneSave /\ OneBackend /\ SyncedFirst /\ Prepared /\ Renamed /\ Durable
  BY DEF OneSave, OneBackend, Renamed, Holds, SyncedFirst, Prepared, Durable
<1>3. AllWhole
  BY DEF AllWhole, Whole
<1> QED
  BY <1>1, <1>2, <1>3 DEF StoreInv

\* A step that leaves the files alone, and whose saves hold the mutex and know the file
\* as before, keeps the invariant.
LEMMA FilesAlone ==
  ASSUME StoreInv, StoreTypeOK', OneSave', SyncedFirst', Prepared', Renamed',
         OneBackend', UNCHANGED <<file, kept>>,
         lost' \/ ~lost, \A s \in Saver : save'[s] = "saved" => save[s] = "saved"
  PROVE  StoreInv'
<1>1. AllWhole'
  BY DEF StoreInv, AllWhole, Whole
<1>2. Durable'
  BY DEF StoreInv, Durable
<1> QED
  BY <1>1, <1>2 DEF StoreInv

LEMMA StepStore ==
  ASSUME StoreInv, [StoreNext]_storeVars
  PROVE  StoreInv'
<1> USE DEF StoreInv
<1>0. \A s \in Saver : Target[s] \in File
  BY StoreAssumption DEF File
<1>1. ASSUME NEW s \in Saver, Begin(s) PROVE StoreInv'
  <2> USE <1>1 DEF Begin, Go, diskVars
  <2>1. StoreTypeOK'
    BY DEF StoreTypeOK, Content
  <2>2. OneSave' /\ OneBackend'
    BY StoreAssumption DEF OneBackend, OneSave, Holds, StoreTypeOK
  <2>3. SyncedFirst' /\ Prepared' /\ Renamed'
    BY DEF Renamed, SyncedFirst, Prepared, Merged, StoreTypeOK
  <2> QED
    BY <2>1, <2>2, <2>3, FilesAlone DEF StoreTypeOK
<1>2. ASSUME NEW s \in Saver, ReadExisting(s) PROVE StoreInv'
  <2> USE <1>2 DEF ReadExisting, Go, diskVars
  <2>1. Merged(s, file[Target[s]]) \in Content
    BY <1>0 DEF AllWhole, Whole, Merged, Content
  <2>2. StoreTypeOK'
    BY <2>1 DEF StoreTypeOK
  <2>3. OneSave' /\ OneBackend'
    BY DEF OneBackend, OneSave, Holds, StoreTypeOK
  <2>4. SyncedFirst' /\ Prepared' /\ Renamed'
    BY DEF Renamed, SyncedFirst, Prepared, Merged, StoreTypeOK
  <2> QED
    BY <2>2, <2>3, <2>4, FilesAlone DEF StoreTypeOK
<1>3. ASSUME NEW s \in Saver, WriteTemp(s) \/ SyncTemp(s) PROVE StoreInv'
  <2> USE <1>3 DEF WriteTemp, SyncTemp, Go, diskVars
  <2>1. StoreTypeOK'
    BY DEF StoreTypeOK
  <2>2. OneSave' /\ OneBackend'
    BY DEF OneBackend, OneSave, Holds, StoreTypeOK
  <2>3. SyncedFirst' /\ Prepared' /\ Renamed'
    BY DEF Renamed, SyncedFirst, Prepared, Merged, StoreTypeOK
  <2> QED
    BY <2>1, <2>2, <2>3, FilesAlone DEF StoreTypeOK
<1>4. ASSUME NEW s \in Saver, Rename(s) PROVE StoreInv'
  <2> USE <1>4 DEF Rename, Go
  <2>1. file'[Target[s]] = Merged(s, file[Target[s]])
    BY <1>0 DEF Prepared, StoreTypeOK
  <2>2. \A f \in File : f # Target[s] => file'[f] = file[f]
    BY DEF StoreTypeOK
  <2>3. StoreTypeOK'
    BY <1>0 DEF StoreTypeOK, SyncedFirst
  <2>4. OneSave' /\ OneBackend'
    BY DEF OneBackend, OneSave, Holds, StoreTypeOK
  <2>5. SyncedFirst'
    BY DEF SyncedFirst, StoreTypeOK
  <2>6. AllWhole'
    <3>1. Whole(Target[s], Merged(s, file[Target[s]]))
      BY <1>0, MergeWhole DEF AllWhole
    <3> QED
      BY <2>1, <2>2, <3>1 DEF AllWhole, Whole
  <2>7. Prepared' /\ Renamed'
    <3>1. \A u \in Saver \ {s} : save[u] \notin {"read", "written", "synced"}
      BY DEF OneSave, Holds
    <3> QED
      BY <2>1, <3>1 DEF Prepared, Renamed, OneSave, Holds, Merged, StoreTypeOK
  <2>8. Durable'
    <3> SUFFICES ASSUME ~lost, NEW u \in Saver, save[u] = "saved"
                 PROVE  \E t \in file'[Target[u]] : Target[u] = "memory" => Key[t] = Key[u]
      BY DEF Durable, StoreTypeOK
    <3>1. \E t \in file[Target[u]] : Target[u] = "memory" => Key[t] = Key[u]
      BY DEF Durable
    <3>2. CASE Target[u] = Target[s]
      BY <2>1, <3>1, <3>2, MergeKeeps
    <3>3. CASE Target[u] # Target[s]
      BY <1>0, <2>2, <3>1, <3>3
    <3> QED
      BY <3>2, <3>3
  <2> QED
    BY <2>3, <2>4, <2>5, <2>6, <2>7, <2>8
<1>5. ASSUME NEW s \in Saver, SaveReturns(s) PROVE StoreInv'
  <2> USE <1>5 DEF SaveReturns, Go, diskVars
  <2>1. StoreTypeOK'
    BY DEF StoreTypeOK, Content
  <2>2. OneSave' /\ OneBackend'
    BY StoreAssumption DEF OneSave, OneBackend, Holds, StoreTypeOK
  <2>3. SyncedFirst' /\ Prepared' /\ Renamed' /\ AllWhole'
    <3>1. SyncedFirst' /\ Prepared' /\ Renamed'
      BY DEF SyncedFirst, Prepared, Renamed, Merged, StoreTypeOK
    <3>2. AllWhole'
      BY DEF AllWhole, Whole
    <3> QED
      BY <3>1, <3>2
  <2>4. Durable'
    <3>1. s \in file[Target[s]]
      BY DEF Renamed, StoreTypeOK
    <3> QED
      BY <3>1 DEF Durable, StoreTypeOK
  <2> QED
    BY <2>1, <2>2, <2>3, <2>4
<1>6. ASSUME NEW s \in Saver, Fail(s) PROVE StoreInv'
  <2> USE <1>6 DEF Fail, diskVars
  <2>1. StoreTypeOK'
    BY DEF StoreTypeOK, Content
  <2>2. OneSave' /\ OneBackend'
    BY StoreAssumption DEF OneSave, OneBackend, Holds, StoreTypeOK
  <2>3. SyncedFirst' /\ Prepared' /\ Renamed'
    BY DEF SyncedFirst, Prepared, Renamed, Merged, StoreTypeOK
  <2> QED
    BY <2>1, <2>2, <2>3, FilesAlone DEF StoreTypeOK
<1>7. ASSUME NEW s \in Saver, MemSave(s) PROVE StoreInv'
  <2> USE <1>7 DEF MemSave, Go
  <2>1. file'[Target[s]] = Merged(s, file[Target[s]])
    BY <1>0 DEF StoreTypeOK
  <2>2. \A f \in File : f # Target[s] => file'[f] = file[f]
    BY DEF StoreTypeOK
  <2>3. AllWhole'
    <3>1. Whole(Target[s], Merged(s, file[Target[s]]))
      BY <1>0, MergeWhole DEF AllWhole
    <3> QED
      BY <2>1, <2>2, <3>1 DEF AllWhole, Whole
  <2>4. StoreTypeOK'
    <3>1. Merged(s, file[Target[s]]) \in Content
      BY <1>0 DEF AllWhole, Whole, Merged, Content
    <3> QED
      BY <1>0, <3>1 DEF StoreTypeOK
  <2>5. \A u \in Saver : ~Holds(u)
    BY DEF OneBackend
  <2>6. OneSave' /\ SyncedFirst' /\ Prepared' /\ Renamed' /\ OneBackend'
    BY <2>5 DEF OneSave, Holds, SyncedFirst, Prepared, Renamed, OneBackend, StoreTypeOK
  <2>7. Durable'
    <3> SUFFICES ASSUME ~lost, NEW u \in Saver, save'[u] = "saved"
                 PROVE  \E t \in file'[Target[u]] : Target[u] = "memory" => Key[t] = Key[u]
      BY DEF Durable, StoreTypeOK
    <3>1. CASE u = s
      BY <2>1, <3>1 DEF Merged
    <3>2. CASE u # s
      <4>1. \E t \in file[Target[u]] : Target[u] = "memory" => Key[t] = Key[u]
        BY <3>2 DEF Durable, StoreTypeOK
      <4>2. CASE Target[u] = Target[s]
        BY <2>1, <4>1, <4>2, MergeKeeps
      <4>3. CASE Target[u] # Target[s]
        BY <1>0, <2>2, <4>1, <4>3
      <4> QED
        BY <4>2, <4>3
    <3> QED
      BY <3>1, <3>2
  <2> QED
    BY <2>3, <2>4, <2>6, <2>7
<1>8. CASE DeleteRun
  <2> USE <1>8 DEF DeleteRun
  <2>1. StoreTypeOK' /\ AllWhole'
    BY DEF StoreTypeOK, AllWhole, Whole, Content
  <2>2. OneSave' /\ SyncedFirst' /\ Prepared' /\ Renamed' /\ OneBackend'
    BY DEF OneSave, Holds, SyncedFirst, Prepared, Renamed, OneBackend, StoreTypeOK
  <2> QED
    BY <2>1, <2>2 DEF Durable, StoreTypeOK
<1>9. CASE Crash
  <2> USE <1>9 DEF Crash, Restarted
  <2>1. StoreTypeOK' /\ AllWhole'
    BY DEF StoreTypeOK, AllWhole, Whole, Content
  <2>2. OneSave' /\ SyncedFirst' /\ Prepared' /\ Renamed' /\ OneBackend'
    BY StoreAssumption DEF OneSave, Holds, SyncedFirst, Prepared, Renamed, OneBackend, StoreTypeOK
  <2>3. Durable'
    BY DEF Durable, StoreTypeOK
  <2> QED
    BY <2>1, <2>2, <2>3
<1>10. ASSUME NEW f \in File, WriteBack(f) PROVE StoreInv'
  <2> USE <1>10 DEF WriteBack
  <2>1. kept' = [kept EXCEPT ![f] = file[f]]
    BY DEF SyncedFirst
  <2>2. StoreTypeOK'
    BY <2>1 DEF StoreTypeOK
  <2>3. AllWhole'
    <3>1. \A g \in File : kept'[g] = file[g] \/ kept'[g] = kept[g]
      BY <2>1 DEF StoreTypeOK
    <3> QED
      BY <3>1 DEF AllWhole, Whole
  <2>4. OneSave' /\ SyncedFirst' /\ Prepared' /\ Renamed' /\ OneBackend' /\ Durable'
    BY DEF OneSave, Holds, SyncedFirst, Prepared, Renamed, OneBackend, Durable, Merged, StoreTypeOK
  <2> QED
    BY <2>2, <2>3, <2>4
<1>11. CASE PowerFails
  <2> USE <1>11 DEF PowerFails
  <2>1. StoreTypeOK' /\ AllWhole'
    BY DEF StoreTypeOK, AllWhole, Whole, Content
  <2>2. OneSave' /\ SyncedFirst' /\ Prepared' /\ Renamed' /\ OneBackend'
    BY StoreAssumption DEF OneSave, Holds, SyncedFirst, Prepared, Renamed, OneBackend, StoreTypeOK
  <2> QED
    BY <2>1, <2>2 DEF Durable, StoreTypeOK
<1>12. CASE UNCHANGED storeVars
  BY <1>12 DEF storeVars, StoreTypeOK, OneSave, Holds, OneBackend, SyncedFirst, AllWhole, Whole, Prepared,
               Merged, Renamed, Durable
<1> QED
  BY <1>1, <1>2, <1>3, <1>4, <1>5, <1>6, <1>7, <1>8, <1>9, <1>10, <1>11, <1>12 DEF StoreNext

\* TypeOK holds in every reachable state of the storage (storage_file.go, storage_mem.go).
THEOREM StoreTypeCorrect ==
  StoreSpec => []StoreTypeOK
<1>1. StoreInit => StoreInv
  BY InitStore
<1>2. StoreInv /\ [StoreNext]_storeVars => StoreInv'
  BY StepStore
<1>3. StoreInv => StoreTypeOK
  BY DEF StoreInv
<1> QED
  BY <1>1, <1>2, <1>3, PTL DEF StoreSpec

\* Whatever fails or ends in between, a reader of the storage finds a whole file, and finds
\* what a save that returned has stored (atomicWriteJSON, SaveSharedMemory).
THEOREM StoreIntactCorrect ==
  StoreSpec => []StoreIntact
<1>1. StoreInit => StoreInv
  BY InitStore
<1>2. StoreInv /\ [StoreNext]_storeVars => StoreInv'
  BY StepStore
<1>3. StoreInv => StoreIntact
  <2> SUFFICES ASSUME StoreInv PROVE StoreIntact
    OBVIOUS
  <2>1. \A f \in File : LoadFile(f) # "undecodable"
    BY StoreAssumption DEF StoreInv, AllWhole, Whole, LoadFile
  <2>2. \A f \in File : \A s, t \in file[f] :
          Target[s] = f /\ (Key[s] = Key[t] \/ f # "memory" => s = t)
    BY DEF StoreInv, AllWhole, Whole
  <2> QED
    BY <2>1, <2>2 DEF StoreIntact, StoreInv, Durable
<1> QED
  BY <1>1, <1>2, <1>3, PTL DEF StoreSpec
-------------------------------------------------------------------------------
(* The transcript of an agent.                                               *)

\* All that an attempt would have stored at its end.
full == messages \o responses

\* An attempt is left to begin.
Underway == turn = "idle" => tries < MaxAttempts

\* While an attempt runs, the store has what it had before and a prefix of what the attempt
\* would store at its end: as much as the attempt believes.
Believed == turn \in {"call", "look", "returned"} => stored = before \o SubSeq(full, 1, persisted)

\* Only a transcript the store has sealed is no longer appended to.
SealKnown == turn # "deleted" /\ sealed => storeSeal

\* The flush of a run that returns leaves nothing behind, unless the append fails.
FlushedAtReturn ==
  turn = "returned" /\ ~storeSeal /\ ~gap => persisted = Len(full)

\* A resume loads all of what an open store was given.
LoadedWhole == turn = "loaded" /\ ~storeSeal /\ ~gap => loaded = before \o full

ScriptInv == ScriptTypeOK /\ Underway /\ Believed /\ SealKnown /\ FlushedAtReturn /\ LoadedWhole

\* What has been flushed is still a prefix after the sequence has grown.
LEMMA PrefixStays ==
  ASSUME NEW S, NEW s \in Seq(S), NEW t \in Seq(S), NEW p \in 0 .. Len(s)
  PROVE  SubSeq(s \o t, 1, p) = SubSeq(s, 1, p)
<1>1. s \o t \in Seq(S) /\ Len(s \o t) = Len(s) + Len(t) /\ Len(s) \in Nat /\ Len(t) \in Nat
  BY ConcatProperties, LenProperties
<1>2. CASE p = 0
  BY <1>1, <1>2, SubSeqEmpty
<1>3. CASE p > 0
  <2>1. 1 \in 1 .. Len(s) /\ p \in 1 .. Len(s)
    BY <1>1, <1>3
  <2>. QED BY <2>1, SubSeqOfConcat1
<1>. QED BY <1>1, <1>2, <1>3

\* A prefix and the rest are the whole.
LEMMA PrefixAndRest ==
  ASSUME NEW S, NEW s \in Seq(S), NEW p \in 0 .. Len(s)
  PROVE  /\ SubSeq(s, 1, p) \in Seq(S) /\ SubSeq(s, p + 1, Len(s)) \in Seq(S)
         /\ SubSeq(s, 1, Len(s)) = s
         /\ SubSeq(s, 1, p) \o SubSeq(s, p + 1, Len(s)) = s
<1>1. Len(s) \in Nat
  BY LenProperties
<1>2. SubSeq(s, 1, Len(s)) = s
  BY SubSeqFull
<1>3. SubSeq(s, 1, p) \o SubSeq(s, p + 1, Len(s)) = SubSeq(s, 1, Len(s))
  <2>1. 1 \in 1 .. Len(s) + 1 /\ p \in 1 - 1 .. Len(s) /\ Len(s) \in p .. Len(s)
    BY <1>1
  <2>. QED BY <2>1, ConcatAdjacentSubSeq
<1>4. SubSeq(s, 1, p) \in Seq(S) /\ SubSeq(s, p + 1, Len(s)) \in Seq(S)
  BY <1>1, SubSeqProperties
<1>. QED BY <1>2, <1>3, <1>4

\* The two ways the code compares a length with the cap agree.
LEMMA Arithmetic ==
  ASSUME NEW a \in Nat, NEW b \in Nat, NEW c \in Nat
  PROVE  ~(a + b <= c) <=> a + b > c
OBVIOUS

\* A prefix in the store, extended by what follows it.
LEMMA PrefixExtended ==
  ASSUME NEW S, NEW b \in Seq(S), NEW s \in Seq(S), NEW p \in 0 .. Len(s)
  PROVE  (b \o SubSeq(s, 1, p)) \o SubSeq(s, p + 1, Len(s)) = b \o SubSeq(s, 1, Len(s))
<1>. DEFINE u == SubSeq(s, 1, p)
            v == SubSeq(s, p + 1, Len(s))
<1>1. u \in Seq(S) /\ v \in Seq(S)
  BY PrefixAndRest
<1>2. u \o v = SubSeq(s, 1, Len(s))
  BY PrefixAndRest
<1>. HIDE DEF u, v
<1>3. (b \o u) \o v = b \o (u \o v)
  BY <1>1
<1>. QED BY <1>2, <1>3 DEF u, v

\* A flush stores what follows the prefix, or nothing; it leaves nothing behind unless the
\* store failed, and stops for good only when the store has sealed.
LEMMA FlushGrows ==
  ASSUME NEW S, NEW s \in Seq(S), stored \in Seq(S), before \in Seq(S),
         persisted \in 0 .. Len(s), cap \in Nat, Len(stored) <= cap,
         sealed \in BOOLEAN, storeSeal \in BOOLEAN, gap \in BOOLEAN, Flaky \in BOOLEAN,
         stored = before \o SubSeq(s, 1, persisted), sealed => storeSeal, Flush(s)
  PROVE  /\ stored' \in Seq(S) /\ Len(stored') <= cap /\ persisted' \in 0 .. Len(s)
         /\ sealed' \in BOOLEAN /\ storeSeal' \in BOOLEAN /\ gap' \in BOOLEAN
         /\ stored' = before \o SubSeq(s, 1, persisted')
         /\ sealed' => storeSeal'
         /\ ~storeSeal' /\ ~gap' => persisted' = Len(s)
<1>. DEFINE tail == SubSeq(s, persisted + 1, Len(s))
<1>1. /\ Len(s) \in Nat /\ SubSeq(s, 1, persisted) \in Seq(S) /\ tail \in Seq(S)
      /\ SubSeq(s, 1, Len(s)) = s /\ SubSeq(s, 1, persisted) \o tail = s
      /\ Len(stored) \in Nat /\ Len(tail) \in Nat
  BY LenProperties, PrefixAndRest
<1>0. Len(s) \in Nat /\ Len(s) \in 0 .. Len(s) /\ Len(stored) \in Nat /\ Len(tail) \in Nat
  BY <1>1
<1>2. CASE sealed \/ Len(s) <= persisted
  <2>1. /\ persisted' = persisted /\ sealed' = sealed /\ stored' = stored
        /\ storeSeal' = storeSeal /\ gap' = gap
    BY <1>2 DEF Flush, appendVars
  <2>2. sealed \/ persisted = Len(s)
    <3>1. CASE sealed
      BY <3>1
    <3>2. CASE Len(s) <= persisted
      BY <1>0, <3>2
    <3>. QED BY <1>2, <3>1, <3>2
  <2>3. sealed' => storeSeal'
    BY <2>1, Zenon
  <2>4. ~storeSeal' => persisted' = Len(s)
    BY <2>1, <2>2, Zenon
  <2>. QED BY <2>1, <2>3, <2>4
<1>3. CASE ~(sealed \/ Len(s) <= persisted)
  <2>1. CASE /\ StoreAppend(tail)
             /\ LET fits == Len(stored) + Len(tail) <= cap
                IN  /\ sealed' = ~fits /\ gap' = ~fits
                    /\ persisted' = IF fits THEN Len(s) ELSE persisted
    <3>1. CASE Len(stored) + Len(tail) <= cap
      <4>0. ~(Len(stored) + Len(tail) > cap)
        BY <1>0, <3>1, Arithmetic, Zenon
      <4>1. stored' = stored \o tail /\ storeSeal' = storeSeal /\ persisted' = Len(s)
            /\ ~sealed' /\ ~gap' /\ sealed' \in BOOLEAN /\ gap' \in BOOLEAN
        BY <2>1, <3>1, <4>0, Zenon DEF StoreAppend
      <4>2. stored \o tail = before \o SubSeq(s, 1, Len(s))
        BY PrefixExtended, Zenon
      <4>3. stored' = before \o SubSeq(s, 1, persisted')
        BY <1>1, <4>1, <4>2
      <4>4. stored' \in Seq(S) /\ Len(stored') = Len(stored) + Len(tail)
        BY <1>1, <4>1, ConcatProperties
      <4>5. persisted' \in 0 .. Len(s) /\ Len(stored') <= cap
        BY <1>0, <3>1, <4>1, <4>4, Zenon
      <4>. QED BY <4>1, <4>3, <4>4, <4>5, Zenon
    <3>2. CASE ~(Len(stored) + Len(tail) <= cap)
      <4>0. Len(stored) + Len(tail) > cap
        BY <1>0, <3>2, Arithmetic, Zenon
      <4>1. stored' = stored /\ storeSeal' /\ persisted' = persisted
            /\ sealed' /\ gap' /\ sealed' \in BOOLEAN /\ gap' \in BOOLEAN
            /\ storeSeal' \in BOOLEAN
        BY <2>1, <3>2, <4>0, Zenon DEF StoreAppend
      <4>. QED BY <4>1
    <3>. QED BY <3>1, <3>2
  <2>2. CASE Flaky /\ gap' = TRUE /\ UNCHANGED <<persisted, sealed, stored, storeSeal>>
    BY <2>2
  <2>. QED BY <1>3, <2>1, <2>2 DEF Flush
<1>. QED BY <1>2, <1>3

\* Messages written earlier are messages written.
LEMMA Growing ==
  ASSUME written \in Nat, NEW n \in Nat
  PROVE  /\ written + n \in Nat
         /\ \A s \in Seq(1 .. written) : s \in Seq(1 .. written + n)
         /\ New(n) \in Seq(1 .. written + n)
<1>1. 1 .. written \subseteq 1 .. written + n
  OBVIOUS
<1>2. \A s \in Seq(1 .. written) : s \in Seq(1 .. written + n)
  BY <1>1, SeqMonotonic
<1>3. New(n) \in Seq(1 .. written + n)
  BY DEF New
<1>. QED BY <1>2, <1>3

LEMMA InitScript ==
  ASSUME ScriptInit
  PROVE  ScriptInv
<1>1. <<>> \in Seq(1 .. 0) /\ Len(<<>>) = 0 /\ <<>> \o <<>> = <<>>
  OBVIOUS
<1>2. cap \in Nat
  BY TranscriptAssumption DEF ScriptInit
<1>3. ScriptTypeOK
  <2>1. /\ turn = "idle" /\ tries = 0 /\ calls = 0 /\ written = 0 /\ cap \in Caps
        /\ messages = <<>> /\ responses = <<>> /\ persisted = 0
        /\ stored = <<>> /\ before = <<>> /\ loaded = <<>>
    BY DEF ScriptInit
  <2>2. sealed \in BOOLEAN /\ storeSeal \in BOOLEAN /\ gap \in BOOLEAN
    BY Zenon DEF ScriptInit
  <2>3. persisted \in 0 .. Len(messages \o responses) /\ Len(stored) <= cap
    BY <1>1, <1>2, <2>1
  <2>4. \A s \in {messages, responses, stored, before, loaded} : s \in Seq(1 .. written)
    BY <1>1, <2>1
  <2>. QED BY <2>1, <2>2, <2>3, <2>4, TranscriptAssumption DEF ScriptTypeOK
<1>4. Underway /\ Believed /\ FlushedAtReturn /\ LoadedWhole
  BY <1>3, TranscriptAssumption
  DEF ScriptInit, Believed, FlushedAtReturn, LoadedWhole, Underway
<1>5. SealKnown
  BY Zenon DEF ScriptInit, SealKnown
<1>. QED
  BY <1>3, <1>4, <1>5 DEF ScriptInv

LEMMA StepScript ==
  ASSUME ScriptInv, [ScriptNext]_scriptVars
  PROVE  ScriptInv'
<1>. USE DEF ScriptInv
<1>. DEFINE S == 1 .. written
<1>0. /\ cap \in Nat /\ written \in Nat /\ MaxAttempts \in Nat /\ MaxCalls \in Nat
      /\ messages \in Seq(S) /\ responses \in Seq(S) /\ stored \in Seq(S)
      /\ before \in Seq(S) /\ loaded \in Seq(S)
      /\ messages \o responses \in Seq(S) /\ persisted \in 0 .. Len(messages \o responses)
      /\ Len(stored) <= cap /\ TailLength \in Nat \ {0}
  <2>1. /\ messages \in Seq(S) /\ responses \in Seq(S) /\ stored \in Seq(S)
        /\ before \in Seq(S) /\ loaded \in Seq(S)
    BY DEF ScriptTypeOK
  <2>2. messages \o responses \in Seq(S)
    BY <2>1, ConcatProperties
  <2>. QED BY <2>1, <2>2, TranscriptAssumption DEF ScriptTypeOK
<1>B. sealed \in BOOLEAN /\ storeSeal \in BOOLEAN /\ gap \in BOOLEAN /\ Flaky \in BOOLEAN
  BY TranscriptAssumption, Zenon DEF ScriptTypeOK
<1>C. /\ cap \in Caps /\ turn \in {"idle", "call", "look", "returned", "loaded", "deleted"}
      /\ tries \in 0 .. MaxAttempts /\ calls \in 0 .. MaxCalls
  BY DEF ScriptTypeOK
<1>1. ASSUME Start
      PROVE  ScriptInv'
  <2>1. /\ written + 1 \in Nat /\ New(1) \in Seq(1 .. written + 1)
        /\ stored \in Seq(1 .. written + 1) /\ loaded \in Seq(1 .. written + 1)
    BY <1>0, Growing
  <2>2. /\ turn = "idle" /\ turn' = "call" /\ tries' = tries + 1 /\ calls' = 0
        /\ written' = written + 1 /\ messages' = New(1) /\ responses' = <<>>
        /\ persisted' = 0 /\ before' = stored
        /\ cap' = cap /\ stored' = stored /\ loaded' = loaded
    BY <1>1 DEF Start, Turn
  <2>3. ~sealed' /\ sealed' \in BOOLEAN /\ gap' \in BOOLEAN /\ storeSeal' \in BOOLEAN
    BY <1>1, <1>B, Zenon DEF Start
  <2>4. tries' \in 0 .. MaxAttempts /\ calls' \in 0 .. MaxCalls
    BY <1>0, <1>C, <2>2 DEF Underway
  <2>5. (messages \o responses)' \in Seq(S') /\ responses' \in Seq(S')
    BY <2>1, <2>2, ConcatProperties
  <2>6. persisted' \in 0 .. Len(messages \o responses)'
    BY <2>2, <2>5, LenProperties
  <2>7. ScriptTypeOK'
    <3>1. /\ messages' \in Seq(S') /\ stored' \in Seq(S') /\ before' \in Seq(S')
          /\ loaded' \in Seq(S')
      BY <2>1, <2>2, Zenon
    <3>2. Len(stored') <= cap' /\ cap' \in Caps /\ written' \in Nat
      BY <1>0, <1>C, <2>1, <2>2, Zenon
    <3>. QED BY <2>2, <2>3, <2>4, <2>5, <2>6, <3>1, <3>2, Zenon DEF ScriptTypeOK
  <2>8. SubSeq((messages \o responses)', 1, 0) = <<>> /\ stored \o <<>> = stored
    BY <1>0, <2>5, SubSeqEmpty, ConcatEmptySeq
  <2>9. Believed'
    BY <2>2, <2>8, Zenon DEF Believed, full
  <2>10. Underway' /\ FlushedAtReturn' /\ LoadedWhole'
    BY <2>2 DEF Underway, FlushedAtReturn, LoadedWhole
  <2>11. SealKnown'
    BY <2>3, Zenon DEF SealKnown
  <2>. QED BY <2>7, <2>9, <2>10, <2>11
<1>2. ASSUME NEW n \in 1 .. 2, Generate(n)
      PROVE  ScriptInv'
  <2>. DEFINE all == messages \o (responses \o New(n))
  <2>1. /\ written + n \in Nat /\ New(n) \in Seq(1 .. written + n)
        /\ \A s \in Seq(S) : s \in Seq(1 .. written + n)
    BY <1>0, n \in Nat, Growing
  <2>2. /\ turn = "call" /\ turn' = "look" /\ calls < MaxCalls /\ calls' = calls + 1
        /\ written' = written + n /\ responses' = responses \o New(n) /\ Flush(all)
        /\ cap' = cap /\ tries' = tries /\ messages' = messages /\ before' = before
        /\ loaded' = loaded
    BY <1>2 DEF Generate, Turn
  <2>3. /\ messages \in Seq(S') /\ responses \in Seq(S') /\ stored \in Seq(S')
        /\ before \in Seq(S') /\ loaded \in Seq(S') /\ messages \o responses \in Seq(S')
        /\ New(n) \in Seq(S')
    BY <1>0, <2>1, <2>2, Zenon
  <2>4. responses' \in Seq(S') /\ all \in Seq(S') /\ (messages \o responses)' = all
    BY <2>2, <2>3, ConcatProperties
  <2>5. all = (messages \o responses) \o New(n)
    <3>1. \A a \in Seq(S'), b \in Seq(S'), c \in Seq(S') : (a \o b) \o c = a \o (b \o c)
      BY ConcatAssociative
    <3>2. messages \in Seq(S') /\ responses \in Seq(S') /\ New(n) \in Seq(S')
      BY <2>3
    <3>3. (messages \o responses) \o New(n) = messages \o (responses \o New(n))
      BY <3>1, <3>2, Zenon
    <3>. QED BY <3>3
  <2>6. /\ SubSeq(all, 1, persisted) = SubSeq(messages \o responses, 1, persisted)
        /\ persisted \in 0 .. Len(all)
    <3>1. Len(all) = Len(messages \o responses) + Len(New(n)) /\ Len(New(n)) \in Nat
          /\ Len(messages \o responses) \in Nat
      BY <2>3, <2>5, ConcatProperties, LenProperties
    <3>2. SubSeq(all, 1, persisted) = SubSeq(messages \o responses, 1, persisted)
      BY <1>0, <2>3, <2>5, PrefixStays
    <3>. QED BY <1>0, <3>1, <3>2
  <2>7. stored = before \o SubSeq(all, 1, persisted)
    BY <2>2, <2>6 DEF Believed, full
  <2>8. sealed => storeSeal
    BY <2>2 DEF SealKnown
  <2>9. /\ stored' \in Seq(S') /\ Len(stored') <= cap /\ persisted' \in 0 .. Len(all)
        /\ sealed' \in BOOLEAN /\ storeSeal' \in BOOLEAN /\ gap' \in BOOLEAN
        /\ stored' = before \o SubSeq(all, 1, persisted')
        /\ sealed' => storeSeal'
    <3>. HIDE DEF all
    <3>. QED BY <1>0, <1>B, <2>2, <2>3, <2>4, <2>6, <2>7, <2>8, FlushGrows, Zenon
  <2>10. calls' \in 0 .. MaxCalls /\ tries' \in 0 .. MaxAttempts
    BY <1>0, <1>C, <2>2
  <2>11. ScriptTypeOK'
    <3>1. /\ messages' \in Seq(S') /\ before' \in Seq(S') /\ loaded' \in Seq(S')
          /\ Len(stored') <= cap' /\ cap' \in Caps /\ written' \in Nat
          /\ turn' \in {"idle", "call", "look", "returned", "loaded", "deleted"}
      BY <1>C, <2>1, <2>2, <2>3, <2>9, Zenon
    <3>. QED BY <2>4, <2>9, <2>10, <3>1, Zenon DEF ScriptTypeOK
  <2>12. Believed'
    BY <2>2, <2>4, <2>9, Zenon DEF Believed, full
  <2>13. Underway' /\ FlushedAtReturn' /\ LoadedWhole'
    BY <2>2 DEF Underway, FlushedAtReturn, LoadedWhole
  <2>14. SealKnown'
    BY <2>9, Zenon DEF SealKnown
  <2>. QED BY <2>11, <2>12, <2>13, <2>14
<1>3. ASSUME NEW n \in 1 .. 2, Wake(n)
      PROVE  ScriptInv'
  <2>1. /\ written + n \in Nat /\ New(n) \in Seq(1 .. written + n)
        /\ \A s \in Seq(S) : s \in Seq(1 .. written + n)
    BY <1>0, n \in Nat, Growing
  <2>2. /\ turn = "look" /\ turn' = "call" /\ calls' = calls
        /\ written' = written + n /\ messages' = messages \o responses \o New(n)
        /\ cap' = cap /\ tries' = tries /\ responses' = responses /\ before' = before
        /\ loaded' = loaded /\ persisted' = persisted /\ stored' = stored
    BY <1>3 DEF Wake, Turn, appendVars
  <2>3. sealed' = sealed /\ storeSeal' = storeSeal /\ gap' = gap
    BY <1>3 DEF Wake, appendVars
  <2>4. /\ messages \in Seq(S') /\ responses \in Seq(S') /\ stored \in Seq(S')
        /\ before \in Seq(S') /\ loaded \in Seq(S') /\ messages \o responses \in Seq(S')
        /\ New(n) \in Seq(S')
    BY <1>0, <2>1, <2>2, Zenon
  <2>. DEFINE more == New(n) \o responses
  <2>5. /\ messages' \in Seq(S') /\ (messages \o responses)' \in Seq(S') /\ more \in Seq(S')
    BY <2>2, <2>4, ConcatProperties
  <2>6. (messages \o responses)' = (messages \o responses) \o more
    <3>1. \A a \in Seq(S'), b \in Seq(S'), c \in Seq(S') : (a \o b) \o c = a \o (b \o c)
      BY ConcatAssociative
    <3>2. /\ messages \o responses \in Seq(S') /\ responses \in Seq(S')
          /\ New(n) \in Seq(S')
      BY <2>4
    <3>3. ((messages \o responses) \o New(n)) \o responses = (messages \o responses) \o more
      BY <3>1, <3>2, Zenon
    <3>. QED BY <2>2, <3>3
  <2>7. /\ SubSeq((messages \o responses)', 1, persisted)
             = SubSeq(messages \o responses, 1, persisted)
        /\ persisted \in 0 .. Len((messages \o responses)')
    <3>. HIDE DEF more
    <3>1. /\ Len((messages \o responses) \o more) = Len(messages \o responses) + Len(more)
          /\ Len(more) \in Nat /\ Len(messages \o responses) \in Nat
      BY <2>4, <2>5, ConcatProperties, LenProperties
    <3>2. SubSeq((messages \o responses) \o more, 1, persisted)
            = SubSeq(messages \o responses, 1, persisted)
      BY <1>0, <2>4, <2>5, PrefixStays
    <3>. QED BY <1>0, <2>6, <3>1, <3>2
  <2>8. stored' = before' \o SubSeq((messages \o responses)', 1, persisted')
    BY <2>2, <2>7 DEF Believed, full
  <2>9. ScriptTypeOK'
    <3>1. /\ responses' \in Seq(S') /\ before' \in Seq(S') /\ loaded' \in Seq(S')
          /\ stored' \in Seq(S')
          /\ Len(stored') <= cap' /\ cap' \in Caps /\ written' \in Nat
          /\ turn' \in {"idle", "call", "look", "returned", "loaded", "deleted"}
          /\ tries' \in 0 .. MaxAttempts /\ calls' \in 0 .. MaxCalls
          /\ persisted' \in 0 .. Len((messages \o responses)')
      BY <1>0, <1>C, <2>1, <2>2, <2>4, <2>7, Zenon
    <3>. QED BY <1>B, <2>3, <2>5, <3>1, Zenon DEF ScriptTypeOK
  <2>10. Believed'
    BY <2>8, Zenon DEF Believed, full
  <2>11. Underway' /\ FlushedAtReturn' /\ LoadedWhole'
    BY <2>2 DEF Underway, FlushedAtReturn, LoadedWhole
  <2>12. SealKnown'
    BY <2>2, <2>3 DEF SealKnown
  <2>. QED BY <2>9, <2>10, <2>11, <2>12
<1>4. CASE RunnerReturns
  <2>. DEFINE all == messages \o responses
  <2>1. /\ turn \in {"call", "look"} /\ turn' = "returned" /\ Flush(all)
        /\ cap' = cap /\ tries' = tries /\ calls' = calls /\ written' = written
        /\ messages' = messages /\ responses' = responses /\ before' = before
        /\ loaded' = loaded
    BY <1>4 DEF RunnerReturns
  <2>2. stored = before \o SubSeq(all, 1, persisted)
    BY <2>1 DEF Believed, full
  <2>3. sealed => storeSeal
    BY <2>1 DEF SealKnown
  <2>4. /\ stored' \in Seq(S) /\ Len(stored') <= cap /\ persisted' \in 0 .. Len(all)
        /\ sealed' \in BOOLEAN /\ storeSeal' \in BOOLEAN /\ gap' \in BOOLEAN
        /\ stored' = before \o SubSeq(all, 1, persisted')
        /\ sealed' => storeSeal'
        /\ ~storeSeal' /\ ~gap' => persisted' = Len(all)
    <3>. HIDE DEF all
    <3>1. all \in Seq(S) /\ persisted \in 0 .. Len(all)
      BY <1>0 DEF all
    <3>. QED BY <1>0, <1>B, <2>1, <2>2, <2>3, <3>1, FlushGrows, Zenon
  <2>5. ScriptTypeOK'
    BY <1>0, <1>C, <2>1, <2>4, Zenon DEF ScriptTypeOK
  <2>6. Believed' /\ FlushedAtReturn'
    BY <2>1, <2>4, Zenon DEF Believed, FlushedAtReturn, full
  <2>7. Underway' /\ LoadedWhole'
    BY <2>1 DEF Underway, LoadedWhole
  <2>8. SealKnown'
    BY <2>4, Zenon DEF SealKnown
  <2>. QED BY <2>5, <2>6, <2>7, <2>8
<1>5. CASE RetryAttempt
  <2>1. /\ turn = "returned" /\ turn' = "idle" /\ tries < MaxAttempts
        /\ UNCHANGED <<cap, tries, calls, written, messages, responses, before, loaded>>
        /\ UNCHANGED <<persisted, sealed, stored, storeSeal, gap>>
    BY <1>5 DEF RetryAttempt, Turn, appendVars
  <2>2. ScriptTypeOK'
    BY <1>0, <1>B, <1>C, <2>1, Zenon DEF ScriptTypeOK
  <2>3. Underway' /\ Believed' /\ FlushedAtReturn' /\ LoadedWhole'
    BY <2>1 DEF Underway, Believed, FlushedAtReturn, LoadedWhole
  <2>4. SealKnown'
    BY <2>1 DEF SealKnown
  <2>. QED BY <2>2, <2>3, <2>4
<1>6. CASE LoadTranscript
  <2>1. /\ turn = "returned" /\ turn' = "loaded"
        /\ UNCHANGED <<cap, tries, calls, written, messages, responses, before>>
        /\ UNCHANGED <<persisted, sealed, stored, storeSeal, gap>>
        /\ \/ ~storeSeal /\ loaded' = stored
           \/ storeSeal /\ loaded' \in {LoadTruncated, <<>>}
    BY <1>6 DEF LoadTranscript, Turn, appendVars
  <2>2. LoadTruncated \in Seq(S) /\ <<>> \in Seq(S)
    <3>1. Len(stored) \in Nat
      BY <1>0, LenProperties
    <3>2. CASE Len(stored) > TailLength
      <4>1. /\ LoadTruncated = SubSeq(stored, Len(stored) - TailLength + 1, Len(stored))
            /\ Len(stored) - TailLength + 1 \in Nat \ {0}
        BY <1>0, <3>1, <3>2 DEF LoadTruncated
      <4>2. \A i \in Len(stored) - TailLength + 1 .. Len(stored) : stored[i] \in S
        BY <1>0, <3>1, <4>1, ElementOfSeq, SMTT(20)
      <4>. QED BY <3>1, <4>1, <4>2, SubSeqProperties
    <3>3. CASE ~(Len(stored) > TailLength)
      BY <1>0, <3>3 DEF LoadTruncated
    <3>. QED BY <3>2, <3>3
  <2>3. loaded' \in Seq(S)
    BY <1>0, <2>1, <2>2, Zenon
  <2>4. ScriptTypeOK'
    BY <1>0, <1>B, <1>C, <2>1, <2>3, Zenon DEF ScriptTypeOK
  <2>5. Underway' /\ Believed' /\ FlushedAtReturn'
    BY <2>1 DEF Underway, Believed, FlushedAtReturn
  <2>6. LoadedWhole'
    <3>1. SubSeq(full, 1, Len(full)) = full
      BY <1>0, SubSeqFull DEF full
    <3>2. ~storeSeal /\ ~gap => stored = before \o full
      BY <2>1, <3>1, Zenon DEF Believed, FlushedAtReturn
    <3>. QED BY <2>1, <3>2, Zenon DEF LoadedWhole, full
  <2>7. SealKnown'
    BY <2>1 DEF SealKnown
  <2>. QED BY <2>4, <2>5, <2>6, <2>7
<1>7. CASE Delete
  <2>1. /\ turn = "loaded" /\ turn' = "deleted" /\ stored' = <<>>
        /\ UNCHANGED <<cap, tries, calls, written, messages, responses, persisted, before,
                       loaded>>
    BY <1>7 DEF Delete, Turn
  <2>2. sealed' = sealed /\ gap' = gap /\ storeSeal' \in BOOLEAN
    BY <1>7, Zenon DEF Delete
  <2>3. stored' \in Seq(S) /\ Len(stored') <= cap'
    BY <1>0, <2>1
  <2>4. ScriptTypeOK'
    BY <1>0, <1>B, <1>C, <2>1, <2>2, <2>3, Zenon DEF ScriptTypeOK
  <2>5. Underway' /\ Believed' /\ FlushedAtReturn' /\ LoadedWhole' /\ SealKnown'
    BY <2>1 DEF Underway, Believed, FlushedAtReturn, LoadedWhole, SealKnown
  <2>. QED BY <2>4, <2>5
<1>8. CASE UNCHANGED scriptVars
  <2>1. /\ UNCHANGED <<cap, turn, tries, calls, written, messages, responses, before, loaded>>
        /\ UNCHANGED <<persisted, sealed, stored, storeSeal, gap>>
    BY <1>8 DEF scriptVars
  <2>. QED
    BY <2>1, Zenon
    DEF ScriptTypeOK, Underway, Believed, SealKnown, FlushedAtReturn, LoadedWhole, full
<1>. QED
  BY <1>1, <1>2, <1>3, <1>4, <1>5, <1>6, <1>7, <1>8 DEF ScriptNext

\* What an attempt believes to have stored is what the store has, after any failed or refused
\* append, any sealing and any retry (AgentRunner.Run's flushTranscript, the store's Append).
THEOREM ScriptInvariant == ScriptSpec => []ScriptInv
<1>1. ScriptInit => ScriptInv
  BY InitScript
<1>2. ScriptInv /\ [ScriptNext]_scriptVars => ScriptInv'
  BY StepScript
<1>. QED BY <1>1, <1>2, PTL DEF ScriptSpec

\* No element of s comes before all smaller ones from a on, and none is beyond w.
Gapless(s, a, w) ==
  \A i \in DOMAIN s : /\ s[i] \in a .. w
                      /\ \A m \in a .. s[i] - 1 : \E j \in DOMAIN s : j < i /\ s[j] = m
Covers(s, a, w) == \A m \in a .. w : \E i \in DOMAIN s : s[i] = m
Rising(s) == \A i, j \in DOMAIN s : i < j => s[i] < s[j]

\* The elements of a concatenation.
LEMMA ConcatPlaces ==
  ASSUME NEW S, NEW s \in Seq(S), NEW t \in Seq(S)
  PROVE  /\ s \o t \in Seq(S) /\ Len(s) \in Nat /\ Len(t) \in Nat
         /\ DOMAIN s = 1 .. Len(s) /\ DOMAIN t = 1 .. Len(t)
         /\ DOMAIN (s \o t) = 1 .. Len(s) + Len(t)
         /\ \A i \in 1 .. Len(s) : (s \o t)[i] = s[i]
         /\ \A i \in 1 .. Len(t) : (s \o t)[Len(s) + i] = t[i]
OBVIOUS

\* The next messages, appended to a conversation that has all messages so far.
LEMMA NewAppended ==
  ASSUME NEW w \in Nat, NEW n \in Nat, NEW a \in 1 .. w, NEW s \in Seq(Nat), NEW t \in Seq(Nat),
         t = [i \in 1 .. n |-> w + i], Gapless(s, a, w), Covers(s, a, w)
  PROVE  /\ Gapless(s \o t, a, w + n) /\ Covers(s \o t, a, w + n)
         /\ Rising(s) => Rising(s \o t)
<1>. DEFINE u == s \o t
<1>1. /\ Len(s) \in Nat /\ DOMAIN s = 1 .. Len(s) /\ DOMAIN u = 1 .. Len(s) + n
      /\ \A i \in 1 .. Len(s) : u[i] = s[i]
      /\ \A i \in 1 .. n : u[Len(s) + i] = w + i
  <2>1. Len(t) = n /\ \A i \in 1 .. n : t[i] = w + i
    OBVIOUS
  <2>. QED BY <2>1, ConcatPlaces
<1>. HIDE DEF u
<1>2. ASSUME NEW i \in DOMAIN u, i \notin DOMAIN s
      PROVE  i - Len(s) \in 1 .. n /\ u[i] = w + (i - Len(s))
  <2>1. i - Len(s) \in 1 .. n /\ Len(s) + (i - Len(s)) = i
    BY <1>1, <1>2
  <2>. QED BY <1>1, <2>1
<1>3. ASSUME NEW m \in a .. w
      PROVE  \E j \in DOMAIN s : u[j] = m
  BY <1>1, <1>3 DEF Covers
<1>4. Covers(u, a, w + n)
  <2> SUFFICES ASSUME NEW m \in a .. w + n PROVE \E i \in DOMAIN u : u[i] = m
    BY DEF Covers
  <2>1. CASE m <= w
    BY <1>1, <1>3, <2>1
  <2>2. CASE m > w
    <3>1. m - w \in 1 .. n /\ w + (m - w) = m
      BY <2>2
    <3>2. u[Len(s) + (m - w)] = m
      BY <1>1, <3>1
    <3>3. Len(s) + (m - w) \in DOMAIN u
      BY <1>1, <3>1
    <3>. QED BY <3>2, <3>3
  <2>. QED BY <2>1, <2>2
<1>5. Gapless(u, a, w + n)
  <2> SUFFICES ASSUME NEW i \in DOMAIN u
               PROVE  /\ u[i] \in a .. w + n
                      /\ \A m \in a .. u[i] - 1 : \E j \in DOMAIN u : j < i /\ u[j] = m
    BY DEF Gapless
  <2>1. CASE i \in DOMAIN s
    <3>1. u[i] = s[i] /\ s[i] \in a .. w
      BY <1>1, <2>1 DEF Gapless
    <3>2. \A m \in a .. s[i] - 1 : \E j \in DOMAIN s : j < i /\ s[j] = m
      BY <2>1 DEF Gapless
    <3>3. \A j \in DOMAIN s : j \in DOMAIN u /\ u[j] = s[j]
      BY <1>1
    <3>. QED BY <3>1, <3>2, <3>3
  <2>2. CASE i \notin DOMAIN s
    <3>1. i - Len(s) \in 1 .. n /\ u[i] = w + (i - Len(s))
      BY <1>2, <2>2
    <3>2. i \in Nat /\ \A j \in DOMAIN s : j \in DOMAIN u /\ j < i
      BY <1>1, <2>2
    <3>3. ASSUME NEW m \in a .. u[i] - 1
          PROVE  \E j \in DOMAIN u : j < i /\ u[j] = m
      <4>1. CASE m <= w
        BY <1>3, <3>1, <3>2, <3>3, <4>1
      <4>2. CASE m > w
        <5>1. m - w \in 1 .. n /\ w + (m - w) = m /\ m - w < i - Len(s)
          BY <3>1, <3>3, <4>2
        <5>2. u[Len(s) + (m - w)] = m
          BY <1>1, <5>1
        <5>3. Len(s) + (m - w) \in DOMAIN u /\ Len(s) + (m - w) < i
          BY <1>1, <3>2, <5>1
        <5>. QED BY <5>2, <5>3
      <4>. QED BY <3>1, <3>3, <4>1, <4>2
    <3>4. u[i] \in a .. w + n
      BY <3>1
    <3>. QED BY <3>3, <3>4
  <2>. QED BY <2>1, <2>2
<1>6. ASSUME Rising(s) PROVE Rising(u)
  <2> SUFFICES ASSUME NEW i \in DOMAIN u, NEW j \in DOMAIN u, i < j PROVE u[i] < u[j]
    BY DEF Rising
  <2>1. CASE j \in DOMAIN s
    <3>1. i \in DOMAIN s
      BY <1>1, <2>1
    <3>. QED BY <1>1, <1>6, <2>1, <3>1 DEF Rising
  <2>2. CASE i \in DOMAIN s /\ j \notin DOMAIN s
    <3>1. u[i] \in a .. w
      BY <1>1, <2>2 DEF Gapless
    <3>. QED BY <1>2, <2>2, <3>1
  <2>3. CASE i \notin DOMAIN s /\ j \notin DOMAIN s
    <3>1. /\ i - Len(s) \in 1 .. n /\ u[i] = w + (i - Len(s))
          /\ j - Len(s) \in 1 .. n /\ u[j] = w + (j - Len(s))
      BY <1>2, <2>3
    <3>2. i - Len(s) < j - Len(s)
      BY <1>1
    <3>. QED BY <3>1, <3>2
  <2>. QED BY <2>1, <2>2, <2>3
<1>. QED BY <1>4, <1>5, <1>6 DEF u

\* Messages that the conversation has already, appended once more.
LEMMA OldAppended ==
  ASSUME NEW w \in Nat, NEW a \in 1 .. w, NEW s \in Seq(Nat), NEW t \in Seq(a .. w),
         Gapless(s, a, w), Covers(s, a, w)
  PROVE  Gapless(s \o t, a, w) /\ Covers(s \o t, a, w)
<1>. DEFINE u == s \o t
<1>1. /\ Len(s) \in Nat /\ Len(t) \in Nat
      /\ DOMAIN s = 1 .. Len(s) /\ DOMAIN u = 1 .. Len(s) + Len(t)
      /\ \A i \in 1 .. Len(s) : u[i] = s[i]
      /\ \A i \in 1 .. Len(t) : u[Len(s) + i] = t[i] /\ t[i] \in a .. w
  <2>1. t \in Seq(Nat) /\ \A i \in 1 .. Len(t) : t[i] \in a .. w
    <3>1. a .. w \subseteq Nat
      OBVIOUS
    <3>2. t \in Seq(Nat)
      BY <3>1, SeqMonotonic
    <3>3. \A i \in 1 .. Len(t) : t[i] \in a .. w
      OBVIOUS
    <3>. QED BY <3>2, <3>3
  <2>. QED BY <2>1, ConcatPlaces
<1>. HIDE DEF u
<1>2. \A j \in DOMAIN s : j \in DOMAIN u /\ u[j] = s[j]
  BY <1>1
<1>3. Covers(u, a, w)
  BY <1>2 DEF Covers
<1>4. Gapless(u, a, w)
  <2> SUFFICES ASSUME NEW i \in DOMAIN u
               PROVE  /\ u[i] \in a .. w
                      /\ \A m \in a .. u[i] - 1 : \E j \in DOMAIN u : j < i /\ u[j] = m
    BY DEF Gapless
  <2>1. CASE i \in DOMAIN s
    <3>1. u[i] = s[i] /\ s[i] \in a .. w
      BY <1>2, <2>1 DEF Gapless
    <3>2. \A m \in a .. s[i] - 1 : \E j \in DOMAIN s : j < i /\ s[j] = m
      BY <2>1 DEF Gapless
    <3>. QED BY <1>2, <3>1, <3>2
  <2>2. CASE i \notin DOMAIN s
    <3>1. i - Len(s) \in 1 .. Len(t) /\ Len(s) + (i - Len(s)) = i
      BY <1>1, <2>2
    <3>2. u[i] \in a .. w
      BY <1>1, <3>1
    <3>3. \A j \in DOMAIN s : j < i
      BY <1>1, <2>2
    <3>4. \A m \in a .. u[i] - 1 : m \in a .. w
      BY <3>2
    <3>. QED BY <1>2, <3>2, <3>3, <3>4 DEF Covers
  <2>. QED BY <2>1, <2>2
<1>. QED BY <1>3, <1>4 DEF u

\* The conversation of an attempt has all messages of the attempt, in an order that leaves
\* none out; before a wake it has each once.
Conversation ==
  turn # "idle" =>
    /\ Len(messages) > 0 /\ messages[1] \in 1 .. written
    /\ Gapless(full, messages[1], written) /\ Covers(full, messages[1], written)
    /\ Len(messages) = 1 => Rising(full)

LEMMA StepConversation ==
  ASSUME ScriptInv, Conversation, [ScriptNext]_scriptVars
  PROVE  Conversation'
<1>1. /\ written \in Nat /\ messages \in Seq(1 .. written) /\ responses \in Seq(1 .. written)
  BY DEF ScriptInv, ScriptTypeOK
<1>2. /\ messages \in Seq(Nat) /\ responses \in Seq(Nat) /\ full \in Seq(Nat)
      /\ Len(messages) \in Nat /\ Len(responses) \in Nat
  <2>1. 1 .. written \subseteq Nat
    OBVIOUS
  <2>2. messages \in Seq(Nat) /\ responses \in Seq(Nat)
    BY <1>1, <2>1, SeqMonotonic
  <2>. QED BY <2>2, ConcatPlaces DEF full
<1>3. CASE Start
  <2>1. messages' = <<written + 1>> /\ full' = <<written + 1>> /\ written' = written + 1
    BY <1>1, <1>3 DEF Start, New, full
  <2>2. /\ DOMAIN <<written + 1>> = {1} /\ <<written + 1>>[1] = written + 1
        /\ Len(<<written + 1>>) = 1
    OBVIOUS
  <2>3. Gapless(full', written + 1, written + 1) /\ Covers(full', written + 1, written + 1)
    BY <1>1, <2>1, <2>2 DEF Gapless, Covers
  <2>4. Rising(full')
    BY <2>1, <2>2 DEF Rising
  <2>. QED BY <1>1, <2>1, <2>2, <2>3, <2>4 DEF Conversation, Gapless, Covers, Rising
<1>4. ASSUME NEW n \in 1 .. 2, Generate(n)
      PROVE  Conversation'
  <2>. DEFINE t == New(n)
              a == messages[1]
  <2>1. /\ turn = "call" /\ messages' = messages /\ written' = written + n
        /\ responses' = responses \o t
    BY <1>4 DEF Generate, Turn
  <2>2. t \in Seq(Nat) /\ t = [i \in 1 .. n |-> written + i]
    BY <1>1 DEF New
  <2>. HIDE DEF t
  <2>3. full' = full \o t
    <3>1. \A x \in Seq(Nat), y \in Seq(Nat), z \in Seq(Nat) : (x \o y) \o z = x \o (y \o z)
      BY ConcatAssociative
    <3>2. (messages \o responses) \o t = messages \o (responses \o t)
      BY <1>2, <2>2, <3>1, Zenon
    <3>. QED BY <2>1, <3>2, Zenon DEF full
  <2>4. /\ Len(messages) > 0 /\ a \in 1 .. written
        /\ Gapless(full, a, written) /\ Covers(full, a, written)
        /\ Len(messages) = 1 => Rising(full)
    BY <2>1 DEF Conversation
  <2>. HIDE DEF a
  <2>5. /\ Gapless(full \o t, a, written + n) /\ Covers(full \o t, a, written + n)
        /\ Rising(full) => Rising(full \o t)
    BY <1>1, <1>2, <2>2, <2>4, n \in Nat, NewAppended
  <2>6. a \in 1 .. written + n
    BY <1>1, <2>4
  <2>7. messages'[1] = a
    BY <2>1 DEF a
  <2>8. /\ Gapless(full', a, written') /\ Covers(full', a, written')
        /\ Len(messages') = 1 => Rising(full')
    BY <2>1, <2>3, <2>4, <2>5, Zenon
  <2>9. /\ Gapless(full', messages'[1], written') /\ Covers(full', messages'[1], written')
        /\ Len(messages') > 0 /\ messages'[1] \in 1 .. written'
    BY <2>1, <2>4, <2>6, <2>7, <2>8, Zenon
  <2>. QED BY <2>8, <2>9, Zenon DEF Conversation
<1>5. ASSUME NEW n \in 1 .. 2, Wake(n)
      PROVE  Conversation'
  <2>. DEFINE t == New(n)
              a == messages[1]
  <2>1. /\ turn = "look" /\ messages' = full \o t /\ written' = written + n
        /\ responses' = responses
    <3>1. /\ turn = "look" /\ messages' = messages \o responses \o t /\ written' = written + n
          /\ responses' = responses
      BY <1>5 DEF Wake, Turn
    <3>. QED BY <3>1 DEF full
  <2>2. t \in Seq(Nat) /\ t = [i \in 1 .. n |-> written + i] /\ Len(t) = n
    BY <1>1 DEF New
  <2>. HIDE DEF t
  <2>3. full' = (full \o t) \o responses
    BY <2>1 DEF full
  <2>4. /\ Len(messages) > 0 /\ a \in 1 .. written
        /\ Gapless(full, a, written) /\ Covers(full, a, written)
    BY <2>1 DEF Conversation
  <2>5. full[1] = a /\ Len(full) >= 1
    BY <1>2, <2>4, ConcatPlaces DEF full
  <2>6. messages'[1] = a /\ Len(messages') > 1
    <3>1. Len(full) \in Nat /\ Len(full \o t) = Len(full) + Len(t)
          /\ \A i \in 1 .. Len(full) : (full \o t)[i] = full[i]
      BY <1>2, <2>2, ConcatPlaces
    <3>. QED BY <2>1, <2>2, <2>5, <3>1
  <2>7. responses \in Seq(a .. written + n)
    <3>1. ASSUME NEW i \in 1 .. Len(responses)
          PROVE  responses[i] \in a .. written
      <4>1. /\ DOMAIN full = 1 .. Len(messages) + Len(responses)
            /\ full[Len(messages) + i] = responses[i]
        BY <1>2, ConcatPlaces DEF full
      <4>2. Len(messages) + i \in DOMAIN full
        BY <1>2, <4>1
      <4>. QED BY <2>4, <4>1, <4>2 DEF Gapless
    <3>2. a .. written \subseteq a .. written + n
      BY <1>1, <2>4
    <3>3. \A i \in 1 .. Len(responses) : responses[i] \in a .. written + n
      BY <3>1, <3>2
    <3>4. \A X : \A x \in Seq(Nat) : (\A i \in 1 .. Len(x) : x[i] \in X) => x \in Seq(X)
      OBVIOUS
    <3>. HIDE DEF a
    <3>. QED BY <1>2, <3>3, <3>4
  <2>. HIDE DEF a
  <2>8. Gapless(full \o t, a, written + n) /\ Covers(full \o t, a, written + n)
    BY <1>1, <1>2, <2>2, <2>4, n \in Nat, NewAppended
  <2>9. a \in 1 .. written + n /\ written + n \in Nat
    BY <1>1, <2>4
  <2>10. full \o t \in Seq(Nat)
    BY <1>2, <2>2, ConcatPlaces
  <2>11. /\ Gapless((full \o t) \o responses, a, written + n)
         /\ Covers((full \o t) \o responses, a, written + n)
    BY <2>7, <2>8, <2>9, <2>10, OldAppended
  <2>12. /\ Gapless(full', a, written') /\ Covers(full', a, written')
         /\ a \in 1 .. written' /\ Len(messages') > 0 /\ Len(messages') # 1
    BY <2>1, <2>3, <2>6, <2>9, <2>11
  <2>13. Gapless(full', messages'[1], written') /\ Covers(full', messages'[1], written')
         /\ messages'[1] \in 1 .. written'
    BY <2>6, <2>12, Zenon
  <2>. QED BY <2>12, <2>13, Zenon DEF Conversation
<1>6. CASE RunnerReturns \/ RetryAttempt \/ LoadTranscript \/ Delete \/ UNCHANGED scriptVars
  <2>1. /\ UNCHANGED <<written, messages, responses>>
        /\ turn' # "idle" => turn # "idle"
    BY <1>6 DEF RunnerReturns, RetryAttempt, LoadTranscript, Delete, Turn, scriptVars
  <2>2. full' = full
    BY <2>1 DEF full
  <2>. QED BY <2>1, <2>2 DEF Conversation, Gapless, Covers, Rising
<1>. QED BY <1>3, <1>4, <1>5, <1>6 DEF ScriptNext

\* What lies behind the beginning b is s, as far as it has been stored.
LEMMA BehindBeginning ==
  ASSUME NEW b \in Seq(Nat), NEW s \in Seq(Nat), NEW p \in 0 .. Len(s), NEW x,
         x = b \o SubSeq(s, 1, p)
  PROVE  /\ Len(b) \in Nat /\ Len(s) \in Nat /\ Len(x) = Len(b) + p
         /\ DOMAIN x = 1 .. Len(b) + p /\ DOMAIN s = 1 .. Len(s)
         /\ \A i \in DOMAIN b : x[i] = b[i]
         /\ \A i \in 1 .. p : x[Len(b) + i] = s[i]
<1>. DEFINE r == SubSeq(s, 1, p)
<1>1. r \in Seq(Nat) /\ Len(r) = p /\ \A i \in 1 .. p : r[i] = s[i]
  <2>1. Len(s) \in Nat
    BY LenProperties
  <2>2. p \in Nat /\ \A i \in 1 .. p : s[i] \in Nat
    BY <2>1
  <2>. QED BY <2>1, <2>2, SubSeqProperties
<1>. HIDE DEF r
<1>2. x = b \o r
  BY DEF r
<1>. QED BY <1>1, <1>2, ConcatPlaces, LenProperties

\* A store that refuses or fails makes no hole in a transcript and puts nothing before what
\* was written earlier, only a wake makes a message be stored again, and what a resume loads
\* of an open transcript lacks nothing (AgentRunner.Run's flushTranscript, ResumeStep).
THEOREM TranscriptFaithfulCorrect == ScriptSpec => []TranscriptFaithful
<1>1. ScriptInit => Conversation
  BY DEF ScriptInit, Conversation
<1>2. ScriptInv /\ Conversation => TranscriptFaithful
  <2> SUFFICES ASSUME ScriptInv, Conversation
               PROVE  TranscriptFaithful
    OBVIOUS
  <2>1. /\ written \in Nat /\ before \in Seq(1 .. written) /\ messages \in Seq(1 .. written)
        /\ responses \in Seq(1 .. written) /\ persisted \in 0 .. Len(full)
    BY DEF ScriptInv, ScriptTypeOK, full
  <2>2. before \in Seq(Nat) /\ full \in Seq(Nat) /\ Len(full) \in 0 .. Len(full)
    <3>1. 1 .. written \subseteq Nat
      OBVIOUS
    <3>2. before \in Seq(Nat) /\ messages \in Seq(Nat) /\ responses \in Seq(Nat)
      BY <2>1, <3>1, SeqMonotonic
    <3>3. full \in Seq(Nat)
      BY <3>2, ConcatPlaces DEF full
    <3>. QED BY <3>2, <3>3, LenProperties
  <2>. DEFINE a == messages[1]
  <2>3. ASSUME turn # "idle", NEW p \in 0 .. Len(full), NEW x, x = before \o SubSeq(full, 1, p)
        PROVE  /\ Continues(x) /\ NoHole(x) /\ (Len(messages) = 1 => Increasing(x))
               /\ p = Len(full) => HasAll(x)
    <3>1. /\ Gapless(full, a, written) /\ Covers(full, a, written)
          /\ Len(messages) = 1 => Rising(full)
      BY <2>3 DEF Conversation
    <3>. HIDE DEF a
    <3>2. /\ Len(before) \in Nat /\ Len(full) \in Nat /\ Len(x) = Len(before) + p
          /\ DOMAIN x = 1 .. Len(before) + p /\ DOMAIN full = 1 .. Len(full)
          /\ \A i \in DOMAIN before : x[i] = before[i]
          /\ \A i \in 1 .. p : x[Len(before) + i] = full[i]
      BY <2>2, <2>3, BehindBeginning
    <3>3. ASSUME NEW i \in Added(x)
          PROVE  /\ i - Len(before) \in DOMAIN full /\ i - Len(before) \in 1 .. p
                 /\ x[i] = full[i - Len(before)]
      <4>1. i - Len(before) \in 1 .. p /\ Len(before) + (i - Len(before)) = i
        BY <3>2, <3>3 DEF Added
      <4>2. x[i] = full[i - Len(before)]
        BY <3>2, <4>1
      <4>. QED BY <3>2, <4>1, <4>2
    <3>4. ASSUME NEW k \in 1 .. p
          PROVE  Len(before) + k \in Added(x) /\ x[Len(before) + k] = full[k]
      BY <3>2, <3>4 DEF Added
    <3>5. Continues(x)
      BY <3>2 DEF Continues
    <3>6. NoHole(x)
      <4> SUFFICES ASSUME NEW i \in Added(x)
                   PROVE  /\ x[i] \in a .. written
                          /\ \A m \in a .. x[i] - 1 : \E j \in Added(x) : j < i /\ x[j] = m
        BY DEF NoHole, a
      <4>. DEFINE k == i - Len(before)
      <4>1. k \in DOMAIN full /\ k \in 1 .. p /\ x[i] = full[k]
        BY <3>3
      <4>2. full[k] \in a .. written
        BY <3>1, <4>1 DEF Gapless
      <4>3. ASSUME NEW m \in a .. x[i] - 1
            PROVE  \E j \in Added(x) : j < i /\ x[j] = m
        <5>1. PICK j \in DOMAIN full : j < k /\ full[j] = m
          BY <3>1, <4>1, <4>3 DEF Gapless
        <5>2. i \in Nat /\ Len(before) + j < i /\ j \in 1 .. p
          BY <3>2, <4>1, <5>1 DEF Added
        <5>. QED BY <3>4, <5>1, <5>2
      <4>. QED BY <4>1, <4>2, <4>3
    <3>7. ASSUME Len(messages) = 1
          PROVE  Increasing(x)
      <4> SUFFICES ASSUME NEW i \in Added(x), NEW j \in Added(x), i < j
                   PROVE  x[i] < x[j]
        BY DEF Increasing
      <4>1. i - Len(before) < j - Len(before)
        BY <3>2 DEF Added
      <4>. QED BY <3>1, <3>3, <3>7, <4>1 DEF Rising
    <3>8. ASSUME p = Len(full)
          PROVE  HasAll(x)
      <4> SUFFICES ASSUME NEW m \in a .. written
                   PROVE  \E i \in Added(x) : x[i] = m
        BY DEF HasAll, a
      <4>1. PICK k \in DOMAIN full : full[k] = m
        BY <3>1 DEF Covers
      <4>2. k \in 1 .. p
        BY <3>2, <3>8
      <4>. QED BY <3>4, <4>1, <4>2
    <3>. QED BY <3>5, <3>6, <3>7, <3>8
  <2>4. ASSUME turn \in {"call", "look", "returned"}
        PROVE  /\ Continues(stored) /\ NoHole(stored)
               /\ (Len(messages) = 1 => Increasing(stored))
    <3>1. stored = before \o SubSeq(full, 1, persisted) /\ turn # "idle"
      BY <2>4 DEF ScriptInv, Believed
    <3>. QED BY <2>1, <2>3, <3>1
  <2>5. ASSUME turn = "loaded", ~storeSeal, ~gap
        PROVE  Continues(loaded) /\ NoHole(loaded) /\ HasAll(loaded)
    <3>1. loaded = before \o SubSeq(full, 1, Len(full)) /\ turn # "idle"
      BY <2>2, <2>5, SubSeqFull DEF ScriptInv, LoadedWhole
    <3>. QED BY <2>2, <2>3, <3>1
  <2>. QED BY <2>4, <2>5 DEF TranscriptFaithful
<1>3. ScriptInv /\ Conversation /\ [ScriptNext]_scriptVars => Conversation'
  BY StepConversation
<1>. QED BY <1>1, <1>2, <1>3, ScriptInvariant, PTL DEF ScriptSpec
===============================================================================
