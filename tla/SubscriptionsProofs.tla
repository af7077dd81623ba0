-------------------------- MODULE SubscriptionsProofs --------------------------
(***************************************************************************)
(* Proofs about the subscriptions, for any log, filter, start, page size,  *)
(* buffer and number of faults: a catch-up or polling subscription hands   *)
(* over exactly what lies between its start and its position, and a native *)
(* one loses nothing but what a full buffer drops.                         *)
(***************************************************************************)
EXTENDS Subscriptions, SequenceTheorems, TLAPS

(* A run of consecutive positions after base. *)
Run(s, base) == \A i \in 1 .. Len(s) : s[i] = base + i

(* The positions of log L up to p that a subscription from f is for. *)
Want(L, f, p) == {i \in 1 .. p : L[i] \in Wanted /\ i > f}

TypeInv ==
  /\ got \in Seq(Nat) /\ out \in Seq(Nat) /\ mid \in Seq(Nat) /\ ch \in Seq(Nat) /\ page \in Seq(Nat)
  /\ log \in Seq(Streams) /\ from \in Nat /\ pos \in from .. Len(log)
  /\ phase \in {"catch", "wait"}

(* Which goroutine runs, and what it has in hand. *)
PageInv ==
  /\ pc \in {"draining", "bridge", "orphaned"} => kind = "native"
  /\ pc \in {"catch", "wait", "emit", "sent"} => kind # "native"
  /\ pc \in {"emit", "sent"} => page # <<>> /\ Run(page, pos) /\ pos + Len(page) <= Len(log)
  /\ pc = "draining" => Len(page) <= Len(log) /\ Run(page, Len(log) - Len(page))

DeliverInv ==
  kind # "native" => Increasing(Delivered) /\ ToSet(Delivered) = Want(log, from, Reached)

(* How far the history has been sent into the adapter's channel. *)
Sent == IF pc = "draining" THEN Len(log) - Len(page) ELSE Len(log)

Live == pc \in {"draining", "bridge", "orphaned"} /\ ~ adapterClosed /\ ~ stop /\ ~ cancelled

(* What flies is in order and of the first n events; what passed was asked for. *)
FlowOK(L, f, n, passed, flight) ==
  /\ Increasing(flight)
  /\ ToSet(flight) \subseteq 1 .. n
  /\ ToSet(passed) \subseteq Want(L, f, Len(L))
(* What was asked for of the first n events is on its way or lost. *)
Covered(L, f, n, flight, lost) == Want(L, f, n) \subseteq ToSet(flight) \cup lost

NativeInv ==
  kind = "native" =>
    /\ pc = "new" => InFlight = <<>>
    /\ FlowOK(log, from, Sent, Passed, InFlight)
    /\ Live => Covered(log, from, Sent, InFlight, dropped)

SubInv == TypeInv /\ PageInv /\ DeliverInv /\ NativeInv

(* The adapter's channel holds no more than was sent into it, so that it is    *)
(* full only beyond the history and BufferSize events more.                     *)
DropInv ==
  kind = "native" =>
    /\ pc = "new" => dropped = {} /\ ch = <<>>
    /\ cap \in Nat /\ Len(ch) <= Sent
    /\ \A p \in dropped : p \in Nat /\ p > cap

-----------------------------------------------------------------------------
(* Sequences. *)

LEMMA HeadFacts ==
  ASSUME NEW t \in Seq(Nat), t # <<>>
  PROVE  /\ Head(t) \in Nat /\ Head(t) = t[1] /\ Tail(t) \in Seq(Nat) /\ Len(t) \in Nat \ {0}
         /\ Len(Tail(t)) = Len(t) - 1 /\ \A i \in 1 .. Len(t) - 1 : Tail(t)[i] = t[i + 1]
OBVIOUS

LEMMA SingleFacts ==
  ASSUME NEW e \in Nat
  PROVE  <<e>> \in Seq(Nat) /\ ToSet(<<e>>) = {e} /\ Increasing(<<e>>)
BY DEF ToSet, Increasing

LEMMA EmptyFacts == <<>> \in Seq(Nat) /\ ToSet(<<>>) = {} /\ Increasing(<<>>)
BY DEF ToSet, Increasing

LEMMA Closed ==
  ASSUME NEW s \in Seq(Nat), NEW t \in Seq(Nat)
  PROVE  s \o t \in Seq(Nat)
OBVIOUS

LEMMA Assoc ==
  ASSUME NEW s \in Seq(Nat), NEW t \in Seq(Nat), NEW u \in Seq(Nat)
  PROVE  (s \o t) \o u = s \o (t \o u)
BY ConcatAssociative

LEMMA AppendSingle ==
  ASSUME NEW s \in Seq(Nat), NEW e \in Nat
  PROVE  Append(s, e) = s \o <<e>> /\ Append(s, e) \in Seq(Nat)
<1>1. Append(s, e) = s \o <<e>>
  BY AppendIsConcat, Zenon
<1>2. Append(s, e) \in Seq(Nat)
  OBVIOUS
<1> QED
  BY <1>1, <1>2

LEMMA HeadThenTail ==
  ASSUME NEW t \in Seq(Nat), t # <<>>
  PROVE  t = <<Head(t)>> \o Tail(t)
OBVIOUS

(* The head of one channel becomes the last element of the one before it. *)
LEMMA MoveHead ==
  ASSUME NEW s \in Seq(Nat), NEW t \in Seq(Nat), t # <<>>
  PROVE  Append(s, Head(t)) \o Tail(t) = s \o t
<1>1. Head(t) \in Nat /\ Tail(t) \in Seq(Nat) /\ <<Head(t)>> \in Seq(Nat)
  BY HeadFacts, SingleFacts
<1>2. Append(s, Head(t)) = s \o <<Head(t)>>
  BY <1>1, AppendSingle
<1>3. (s \o <<Head(t)>>) \o Tail(t) = s \o (<<Head(t)>> \o Tail(t))
  BY <1>1, Assoc, Zenon
<1> QED
  BY <1>2, <1>3, HeadThenTail

(* Appending to the last channel appends to the whole. *)
LEMMA AppendLast ==
  ASSUME NEW s \in Seq(Nat), NEW t \in Seq(Nat), NEW e \in Nat
  PROVE  s \o Append(t, e) = Append(s \o t, e)
<1>1. <<e>> \in Seq(Nat) /\ s \o t \in Seq(Nat)
  BY SingleFacts, Closed
<1>2. Append(t, e) = t \o <<e>> /\ Append(s \o t, e) = (s \o t) \o <<e>>
  BY <1>1, AppendSingle
<1>3. (s \o t) \o <<e>> = s \o (t \o <<e>>)
  BY <1>1, Assoc, Zenon
<1> QED
  BY <1>2, <1>3, Zenon

LEMMA ConcatSet ==
  ASSUME NEW s \in Seq(Nat), NEW t \in Seq(Nat)
  PROVE  ToSet(s \o t) = ToSet(s) \cup ToSet(t)
<1>1. Range(s \o t) = Range(s) \cup Range(t)
  BY RangeConcatenation
<1> QED
  BY <1>1, Zenon DEF Range, ToSet

(* A whole is increasing when its parts are and the first lies below the second. *)
LEMMA ConcatIncreasing ==
  ASSUME NEW s \in Seq(Nat), NEW t \in Seq(Nat)
  PROVE  Increasing(s \o t) <=> /\ Increasing(s) /\ Increasing(t)
                                /\ \A x \in ToSet(s), y \in ToSet(t) : x < y
<1>1. PICK u \in Seq(Nat) : u = s \o t
  BY Closed
<1>2. PICK n \in Nat, m \in Nat : n = Len(s) /\ m = Len(t)
  OBVIOUS
<1>3. /\ DOMAIN s = 1 .. n /\ DOMAIN t = 1 .. m /\ DOMAIN u = 1 .. n + m
      /\ \A i \in 1 .. n + m : u[i] = IF i <= n THEN s[i] ELSE t[i - n]
  BY <1>1, <1>2, ConcatProperties
<1>4. \A i \in 1 .. n : u[i] = s[i] /\ i \in 1 .. n + m
  BY <1>3
<1>5. \A i \in 1 .. m : u[n + i] = t[i] /\ n + i \in 1 .. n + m
  <2>1. ASSUME NEW i \in 1 .. m PROVE u[n + i] = t[i] /\ n + i \in 1 .. n + m
    <3>1. n + i \in 1 .. n + m /\ ~ (n + i <= n) /\ (n + i) - n = i
      OBVIOUS
    <3> QED
      BY <1>3, <3>1
  <2> QED
    BY <2>1
<1>6. ASSUME Increasing(u) PROVE Increasing(s) /\ Increasing(t) /\ \A x \in ToSet(s), y \in ToSet(t) : x < y
  <2>1. Increasing(s)
    BY <1>3, <1>4, <1>6 DEF Increasing
  <2>2. ASSUME NEW i \in 1 .. m, NEW j \in 1 .. m, i < j PROVE t[i] < t[j]
    <3>1. n + i < n + j
      BY <2>2
    <3>2. u[n + i] < u[n + j]
      BY <1>3, <1>5, <1>6, <3>1 DEF Increasing
    <3> QED
      BY <1>5, <3>2
  <2>3. ASSUME NEW x \in ToSet(s), NEW y \in ToSet(t) PROVE x < y
    <3>1. PICK i \in 1 .. n : x = s[i]
      BY <1>3 DEF ToSet
    <3>2. PICK j \in 1 .. m : y = t[j]
      BY <1>3 DEF ToSet
    <3>3. i < n + j
      OBVIOUS
    <3>4. u[i] < u[n + j]
      BY <1>3, <1>4, <1>5, <1>6, <3>3 DEF Increasing
    <3> QED
      BY <1>4, <1>5, <3>1, <3>2, <3>4
  <2>4. Increasing(t)
    BY <1>3, <2>2 DEF Increasing
  <2> QED
    BY <2>1, <2>3, <2>4
<1>7. ASSUME Increasing(s), Increasing(t), \A x \in ToSet(s), y \in ToSet(t) : x < y
      PROVE  Increasing(u)
  <2>1. ASSUME NEW i \in 1 .. n + m, NEW j \in 1 .. n + m, i < j PROVE u[i] < u[j]
    <3>1. CASE j <= n
      <4>1. i \in 1 .. n /\ j \in 1 .. n
        BY <2>1, <3>1
      <4> QED
        BY <1>3, <1>4, <1>7, <2>1, <4>1 DEF Increasing
    <3>2. CASE i <= n /\ ~ (j <= n)
      <4>1. i \in 1 .. n /\ j - n \in 1 .. m
        BY <3>2
      <4>2. u[i] = s[i] /\ u[j] = t[j - n]
        BY <1>3, <3>2
      <4>3. u[i] \in ToSet(s) /\ u[j] \in ToSet(t)
        BY <1>3, <4>1, <4>2 DEF ToSet
      <4> QED
        BY <1>7, <4>3
    <3>3. CASE ~ (i <= n)
      <4>1. i - n \in 1 .. m /\ j - n \in 1 .. m /\ i - n < j - n /\ ~ (j <= n)
        BY <2>1, <3>3
      <4>2. u[i] = t[i - n] /\ u[j] = t[j - n]
        BY <1>3, <3>3, <4>1
      <4>3. t[i - n] < t[j - n]
        BY <1>3, <1>7, <4>1 DEF Increasing
      <4> QED
        BY <4>2, <4>3
    <3> QED
      BY <3>1, <3>2, <3>3
  <2> QED
    BY <1>3, <2>1 DEF Increasing
<1> QED
  BY <1>1, <1>6, <1>7

(* An increasing sequence grows at its end. *)
LEMMA GrowIncreasing ==
  ASSUME NEW s \in Seq(Nat), NEW e \in Nat
  PROVE  /\ Append(s, e) \in Seq(Nat) /\ ToSet(Append(s, e)) = ToSet(s) \cup {e}
         /\ Increasing(s) /\ (\A x \in ToSet(s) : x < e) => Increasing(Append(s, e))
<1>1. Append(s, e) = s \o <<e>> /\ Append(s, e) \in Seq(Nat)
  BY AppendSingle
<1>2. <<e>> \in Seq(Nat) /\ ToSet(<<e>>) = {e} /\ Increasing(<<e>>)
  BY SingleFacts
<1>3. ToSet(s \o <<e>>) = ToSet(s) \cup {e}
  BY <1>2, ConcatSet
<1>4. ASSUME Increasing(s), \A x \in ToSet(s) : x < e PROVE Increasing(s \o <<e>>)
  <2>1. \A x \in ToSet(s), y \in ToSet(<<e>>) : x < y
    BY <1>2, <1>4
  <2> QED
    BY <1>2, <1>4, <2>1, ConcatIncreasing
<1> QED
  BY <1>1, <1>3, <1>4

(* An element is taken out between the channels. *)
LEMMA DropHead ==
  ASSUME NEW s \in Seq(Nat), NEW t \in Seq(Nat), t # <<>>
  PROVE  /\ ToSet(s \o t) = ToSet(s \o Tail(t)) \cup {Head(t)}
         /\ Increasing(s \o t) => Increasing(s \o Tail(t))
<1>1. PICK h \in Nat, b \in Seq(Nat), g \in Seq(Nat) :
        h = Head(t) /\ b = Tail(t) /\ t = g \o b /\ ToSet(g) = {h}
  <2>1. Head(t) \in Nat /\ Tail(t) \in Seq(Nat)
    BY HeadFacts
  <2>2. <<Head(t)>> \in Seq(Nat) /\ ToSet(<<Head(t)>>) = {Head(t)}
    BY <2>1, SingleFacts
  <2>3. t = <<Head(t)>> \o Tail(t)
    BY HeadThenTail
  <2> QED
    BY <2>1, <2>2, <2>3, Zenon
<1>2. /\ ToSet(t) = ToSet(g) \cup ToSet(b)
      /\ ToSet(s \o t) = ToSet(s) \cup ToSet(t)
      /\ ToSet(s \o b) = ToSet(s) \cup ToSet(b)
  BY <1>1, ConcatSet
<1>3. ASSUME Increasing(s \o t) PROVE Increasing(s \o b)
  <2>1. Increasing(s) /\ Increasing(t) /\ \A x \in ToSet(s), y \in ToSet(t) : x < y
    BY <1>3, ConcatIncreasing
  <2>2. Increasing(b)
    BY <1>1, <2>1, ConcatIncreasing
  <2>3. \A x \in ToSet(s), y \in ToSet(b) : x < y
    BY <1>2, <2>1
  <2> QED
    BY <2>1, <2>2, <2>3, ConcatIncreasing
<1> QED
  BY <1>1, <1>2, <1>3

LEMMA AfterFacts ==
  ASSUME NEW p \in Nat, Len(log) \in Nat, p <= Len(log)
  PROVE  /\ After(p) \in Seq(Nat) /\ Len(After(p)) = Len(log) - p
         /\ \A i \in 1 .. Len(log) - p : After(p)[i] = p + i
<1>1. PICK n \in Nat : n = Len(log) - p
  <2>1. Len(log) - p \in Nat
    OBVIOUS
  <2> QED
    BY <2>1
<1>2. PICK a : a = [i \in 1 .. n |-> p + i]
  OBVIOUS
<1>3. a \in Seq(Nat) /\ Len(a) = n /\ \A i \in 1 .. n : a[i] = p + i
  BY <1>2
<1> QED
  BY <1>1, <1>2, <1>3 DEF After

(* A page is a run after the position, and within the log. *)
LEMMA LoadedFacts ==
  ASSUME NEW a \in Seq(Nat), NEW p \in Nat, NEW n \in Nat, Len(a) = n, NEW k \in 0 .. n,
         \A i \in 1 .. n : a[i] = p + i
  PROVE  SubSeq(a, 1, k) \in Seq(Nat) /\ Len(SubSeq(a, 1, k)) = k /\ Run(SubSeq(a, 1, k), p)
<1>1. \A i \in 1 .. k : a[i] \in Nat /\ i \in 1 .. n
  OBVIOUS
<1>2. PICK b : b = SubSeq(a, 1, k)
  OBVIOUS
<1>3. /\ b \in Seq(Nat) /\ Len(b) = (IF 1 <= k THEN k - 1 + 1 ELSE 0)
      /\ \A i \in 1 .. k - 1 + 1 : b[i] = a[1 + i - 1]
  BY <1>1, <1>2, SubSeqProperties
<1>4. Len(b) = k
  BY <1>3
<1>5. ASSUME NEW i \in 1 .. k PROVE b[i] = p + i
  <2>1. 1 + i - 1 = i /\ k - 1 + 1 = k
    OBVIOUS
  <2> QED
    BY <1>1, <1>3, <2>1
<1> QED
  BY <1>2, <1>3, <1>4, <1>5 DEF Run

(* The rest of a run is a run, one further. *)
LEMMA RunTail ==
  ASSUME NEW s \in Seq(Nat), s # <<>>, NEW base \in Int, Run(s, base)
  PROVE  Head(s) = base + 1 /\ Run(Tail(s), base + 1)
<1>1. PICK n \in Nat : Len(s) = n + 1
  BY HeadFacts
<1>2. PICK b \in Seq(Nat) : b = Tail(s) /\ Len(b) = n /\ \A i \in 1 .. n : b[i] = s[i + 1]
  <2>1. /\ Tail(s) \in Seq(Nat) /\ Len(Tail(s)) = Len(s) - 1
        /\ \A i \in 1 .. Len(s) - 1 : Tail(s)[i] = s[i + 1]
    BY HeadFacts
  <2>2. Len(s) - 1 = n
    BY <1>1
  <2> QED
    BY <2>1, <2>2, Zenon
<1>3. \A i \in 1 .. n + 1 : s[i] = base + i
  BY <1>1 DEF Run
<1>4. Head(s) = base + 1
  BY <1>3, HeadFacts
<1>5. ASSUME NEW i \in 1 .. n PROVE b[i] = (base + 1) + i
  <2>1. i + 1 \in 1 .. n + 1
    OBVIOUS
  <2>2. b[i] = base + (i + 1)
    BY <1>2, <1>3, <2>1
  <2> QED
    BY <2>2
<1> QED
  BY <1>2, <1>4, <1>5 DEF Run

(* One position more. *)
LEMMA WantNext ==
  ASSUME NEW L, NEW f \in Nat, NEW p \in Nat
  PROVE  /\ Want(L, f, p + 1) \subseteq Want(L, f, p) \cup {p + 1}
         /\ Want(L, f, p) \subseteq Want(L, f, p + 1)
         /\ L[p + 1] \in Wanted /\ p + 1 > f => p + 1 \in Want(L, f, p + 1)
         /\ ~ (L[p + 1] \in Wanted /\ p + 1 > f) => p + 1 \notin Want(L, f, p + 1)
         /\ Want(L, f, p) \subseteq 1 .. p
<1>1. \A i \in 1 .. p + 1 : i \in 1 .. p \/ i = p + 1
  OBVIOUS
<1>2. \A i \in 1 .. p : i \in 1 .. p + 1
  OBVIOUS
<1>3. p + 1 \in 1 .. p + 1
  OBVIOUS
<1> QED
  BY <1>1, <1>2, <1>3 DEF Want

(* An append leaves what the earlier positions held. *)
LEMMA WantSame ==
  ASSUME NEW s \in Streams, log \in Seq(Streams), NEW f, NEW p \in 0 .. Len(log)
  PROVE  Want(Append(log, s), f, p) = Want(log, f, p)
<1>1. \A i \in 1 .. p : Append(log, s)[i] = log[i]
  OBVIOUS
<1> QED
  BY <1>1 DEF Want

-----------------------------------------------------------------------------
(* The channels together. *)

LEMMA ChannelTypes ==
  ASSUME TypeInv
  PROVE  Delivered \in Seq(Nat) /\ Passed \in Seq(Nat) /\ InFlight \in Seq(Nat)
<1>1. got \in Seq(Nat) /\ out \in Seq(Nat) /\ mid \in Seq(Nat) /\ ch \in Seq(Nat)
  BY DEF TypeInv
<1>2. Delivered \in Seq(Nat)
  BY <1>1, Closed DEF Delivered
<1>3. Passed \in Seq(Nat)
  BY <1>1, <1>2, Closed DEF Passed
<1>4. InFlight \in Seq(Nat)
  BY <1>1, <1>3, Closed DEF InFlight
<1> QED
  BY <1>2, <1>3, <1>4

(* A step that keeps what flies, how far the history went and what was lost. *)
LEMMA FlowKept ==
  ASSUME NativeInv, UNCHANGED <<kind, log, from, dropped>>,
         InFlight' = InFlight, Sent' = Sent, pc' = "new" => pc = "new", Live' => Live,
         kind = "native" => ToSet(Passed') \subseteq Want(log, from, Len(log))
  PROVE  NativeInv'
<1>1. ASSUME kind = "native"
      PROVE  /\ pc' = "new" => InFlight' = <<>>
             /\ FlowOK(log', from', Sent', Passed', InFlight')
             /\ Live' => Covered(log', from', Sent', InFlight', dropped')
  BY <1>1 DEF NativeInv, FlowOK
<1> QED
  BY <1>1 DEF NativeInv

(* A step that touches none of the channels, nor the position. *)
LEMMA ChannelsKept ==
  ASSUME SubInv, UNCHANGED <<kind, log, from, dropped, got, out, mid, ch, pos>>,
         TypeInv', PageInv', Reached' = Reached, Sent' = Sent, pc' = "new" => pc = "new", Live' => Live
  PROVE  SubInv'
<1>1. Delivered' = Delivered /\ Passed' = Passed /\ InFlight' = InFlight
  BY DEF Delivered, Passed, InFlight
<1>2. DeliverInv'
  BY <1>1 DEF SubInv, DeliverInv
<1>3. kind = "native" => ToSet(Passed') \subseteq Want(log, from, Len(log))
  BY <1>1 DEF SubInv, NativeInv, FlowOK
<1>4. NativeInv'
  BY <1>1, <1>3, FlowKept DEF SubInv
<1> QED
  BY <1>2, <1>4 DEF SubInv

(* Everything but the loops' own state. *)
LEMMA IdleSteps ==
  ASSUME SubInv, \/ Start \/ LoadFails \/ DecryptFails \/ Stopped \/ SubscribeRefused
                 \/ BridgeDecryptFails \/ BridgeEnds \/ Close \/ CancelContext \/ CloseAdapter
  PROVE  SubInv'
<1> USE DEF SubInv
<1>1. UNCHANGED <<kind, log, from, dropped, got, out, mid, ch, pos, page>>
  BY DEF Start, LoadFails, HistoryFails, PollFails, PollSkips, LoadError, DecryptFails, Stopped, SubscribeRefused, BridgeDecryptFails, BridgeEnds,
         Close, CancelContext, CloseAdapter, Loop, Bridged, fixed, native, writer
<1>2. phase' \in {"catch", "wait"}
  BY DEF Start, LoadFails, HistoryFails, PollFails, PollSkips, LoadError, DecryptFails, Stopped, SubscribeRefused, BridgeDecryptFails, BridgeEnds,
         Close, CancelContext, CloseAdapter, Bridged, TypeInv
<1>3. \/ pc' = pc \/ (pc' = "ended" /\ pc # "sent")
      \/ pc' = "orphaned" /\ pc = "bridge"
      \/ pc' \in {"catch", "wait"} /\ kind # "native" /\ pc = "new"
  BY DEF Start, LoadFails, HistoryFails, PollFails, PollSkips, LoadError, DecryptFails, Stopped, SubscribeRefused, BridgeDecryptFails, BridgeEnds,
         Close, CancelContext, CloseAdapter, Ends
<1>4. pc = "draining" => pc' = pc
  BY DEF Start, LoadFails, HistoryFails, PollFails, PollSkips, LoadError, DecryptFails, Stopped, SubscribeRefused, BridgeDecryptFails, BridgeEnds,
         Close, CancelContext, CloseAdapter, Ends
<1>5. Live' => Live
  <2>1. (adapterClosed => adapterClosed') /\ (stop => stop') /\ (cancelled => cancelled')
    BY DEF Start, LoadFails, HistoryFails, PollFails, PollSkips, LoadError, DecryptFails, Stopped, SubscribeRefused, BridgeDecryptFails, BridgeEnds,
           Close, CancelContext, CloseAdapter, Loop, Bridged, writer, native
  <2> QED
    BY <1>3, <2>1 DEF Live
<1>6. TypeInv'
  BY <1>1, <1>2 DEF TypeInv
<1>7. PageInv'
  BY <1>1, <1>3 DEF PageInv, Run
<1>8. Sent' = Sent
  BY <1>1, <1>3, <1>4 DEF Sent
<1>9. pc' = "new" => pc = "new"
  BY <1>3
<1>10. Reached' = Reached
  BY <1>1, <1>3 DEF Reached
<1> QED
  BY <1>1, <1>5, <1>6, <1>7, <1>8, <1>9, <1>10, ChannelsKept

LEMMA LoadStep ==
  ASSUME SubInv, Load
  PROVE  SubInv'
<1>1. UNCHANGED <<kind, log, from, dropped, got, out, mid, ch, pos, adapterClosed, stop, cancelled>>
  BY DEF Load, Loop, fixed, native
<1>2. pc \in {"catch", "wait"} /\ kind # "native" /\ phase \in {"catch", "wait"}
  BY DEF Load, SubInv, PageInv, TypeInv
<1>3. PICK a \in Seq(Nat), n \in Nat : /\ a = After(pos) /\ Len(a) = n /\ n = Len(log) - pos
                                       /\ \A i \in 1 .. n : a[i] = pos + i
  <2>1. pos \in Nat /\ Len(log) \in Nat /\ pos <= Len(log)
    BY DEF SubInv, TypeInv
  <2>2. Len(log) - pos \in Nat
    BY <2>1
  <2> QED
    BY <2>1, <2>2, AfterFacts
<1>4. PICK k \in 0 .. n : k = IF n < PageSize THEN n ELSE PageSize
  BY SizesAssumption
<1>5. PICK l : l = SubSeq(a, 1, k)
  OBVIOUS
<1>6. pos \in Nat /\ Len(log) \in Nat /\ page \in Seq(Nat)
  BY DEF SubInv, TypeInv
<1>7. l \in Seq(Nat) /\ Len(l) = k /\ Run(l, pos)
  BY <1>3, <1>4, <1>5, <1>6, LoadedFacts
<1>8. \/ l = <<>> /\ pc' = "wait" /\ phase' = "wait" /\ page' = page
      \/ l # <<>> /\ pc' = "emit" /\ page' = l /\ phase' = phase
  BY <1>3, <1>4, <1>5 DEF Load
<1>9. pos + k <= Len(log)
  BY <1>3, <1>4, <1>6
<1>10. TypeInv'
  BY <1>1, <1>2, <1>7, <1>8 DEF SubInv, TypeInv
<1>11. PageInv'
  <2>1. CASE pc' = "wait"
    BY <1>1, <1>2, <2>1 DEF PageInv
  <2>2. CASE pc' = "emit" /\ page' = l /\ l # <<>>
    BY <1>1, <1>2, <1>7, <1>9, <2>2 DEF PageInv, Run
  <2> QED
    BY <1>8, <2>1, <2>2
<1>12. Sent' = Sent /\ (pc' = "new" => pc = "new") /\ (Live' => Live) /\ Reached' = Reached
  BY <1>1, <1>2, <1>8 DEF Sent, Live, Reached
<1> QED
  BY <1>1, <1>10, <1>11, <1>12, ChannelsKept

(* The first event of the page in hand is the one after the position. *)
LEMMA PageFacts ==
  ASSUME SubInv, pc \in {"emit", "sent"}
  PROVE  /\ kind # "native" /\ phase \in {"catch", "wait"} /\ from \in Nat /\ pos \in Nat /\ Len(log) \in Nat
         /\ from <= pos /\ pos + 1 \in from .. Len(log) /\ got \in Seq(Nat) /\ out \in Seq(Nat)
         /\ Head(page) = pos + 1 /\ Run(Tail(page), pos + 1) /\ Tail(page) \in Seq(Nat)
         /\ (pos + 1) + Len(Tail(page)) <= Len(log)
<1>1. /\ kind # "native" /\ phase \in {"catch", "wait"}
      /\ page \in Seq(Nat) /\ page # <<>> /\ Run(page, pos) /\ pos + Len(page) <= Len(log)
      /\ from \in Nat /\ pos \in Nat /\ Len(log) \in Nat /\ from <= pos
      /\ got \in Seq(Nat) /\ out \in Seq(Nat)
  BY DEF SubInv, PageInv, TypeInv
<1>2. /\ Head(page) = pos + 1 /\ Run(Tail(page), pos + 1) /\ Tail(page) \in Seq(Nat)
      /\ Len(Tail(page)) = Len(page) - 1 /\ Len(page) \in Nat \ {0}
  BY <1>1, RunTail, HeadFacts
<1> QED
  BY <1>1, <1>2

(* The position moves onto that event. *)
LEMMA Advance ==
  ASSUME SubInv, pc \in {"emit", "sent"}, UNCHANGED <<kind, log, from, dropped, got, out, mid, ch, phase>>,
         pos' = Head(page), page' = Tail(page), pc' = IF Tail(page) = <<>> THEN phase ELSE "emit",
         ToSet(Delivered) = Want(log, from, pos + 1)
  PROVE  SubInv'
<1>1. /\ kind # "native" /\ phase \in {"catch", "wait"} /\ pos' = pos + 1 /\ page' = Tail(page)
      /\ Run(Tail(page), pos + 1) /\ Tail(page) \in Seq(Nat) /\ pos + 1 \in from .. Len(log)
      /\ (pos + 1) + Len(Tail(page)) <= Len(log)
  BY PageFacts
<1>2. TypeInv'
  BY <1>1 DEF SubInv, TypeInv
<1>3. PageInv'
  <2>1. pc' = "emit" => page' # <<>>
    BY <1>1
  <2>2. pc' \in {"catch", "wait", "emit"}
    BY <1>1
  <2>3. Run(page, pos)' /\ (pos + Len(page) <= Len(log))'
    BY <1>1 DEF Run
  <2> QED
    BY <1>1, <2>1, <2>2, <2>3 DEF PageInv
<1>4. DeliverInv'
  <2>1. Delivered' = Delivered /\ Reached' = pos + 1
    BY <1>1 DEF Delivered, Reached
  <2>2. Increasing(Delivered)
    BY <1>1 DEF SubInv, DeliverInv
  <2> QED
    BY <2>1, <2>2 DEF DeliverInv
<1> QED
  BY <1>1, <1>2, <1>3, <1>4 DEF SubInv, NativeInv

(* An event of the page is delivered or passed over. *)
LEMMA EmitStep ==
  ASSUME SubInv, Emit
  PROVE  SubInv'
<1>1. UNCHANGED <<kind, log, from, dropped, got, mid, ch, adapterClosed, stop, cancelled, phase>>
  BY DEF Emit, Loop, fixed, native
<1>2. /\ pc = "emit" /\ kind # "native" /\ from \in Nat /\ pos \in Nat /\ from <= pos /\ pos + 1 \in Nat
      /\ pos + 1 > from /\ Head(page) = pos + 1 /\ got \in Seq(Nat) /\ out \in Seq(Nat)
  BY PageFacts DEF Emit
<1>3. PICK d \in Seq(Nat) : d = Delivered
  BY ChannelTypes DEF SubInv
<1>4. Increasing(d) /\ ToSet(d) = Want(log, from, pos)
  BY <1>2, <1>3 DEF SubInv, DeliverInv, Reached
<1>5. /\ Want(log, from, pos + 1) \subseteq Want(log, from, pos) \cup {pos + 1}
      /\ Want(log, from, pos) \subseteq Want(log, from, pos + 1)
      /\ log[pos + 1] \in Wanted /\ pos + 1 > from => pos + 1 \in Want(log, from, pos + 1)
      /\ ~ (log[pos + 1] \in Wanted /\ pos + 1 > from) => pos + 1 \notin Want(log, from, pos + 1)
      /\ Want(log, from, pos) \subseteq 1 .. pos
  BY <1>2, WantNext, Zenon
<1>6. CASE log[pos + 1] \in Wanted
  <2>1. out' = Append(out, pos + 1) /\ pc' = "sent" /\ pos' = pos /\ page' = page
    BY <1>2, <1>6 DEF Emit, Matches
  <2>2. out' \in Seq(Nat)
    BY <1>2, <2>1, AppendSingle
  <2>3. TypeInv' /\ PageInv'
    BY <1>1, <1>2, <2>1, <2>2 DEF SubInv, TypeInv, PageInv, Run
  <2>4. Delivered' = Append(d, pos + 1)
    BY <1>1, <1>2, <1>3, <2>1, AppendLast DEF Delivered
  <2>5. \A x \in ToSet(d) : x < pos + 1
    <3>1. ToSet(d) \subseteq 1 .. pos
      BY <1>4, <1>5
    <3> QED
      BY <1>2, <3>1
  <2>6. ToSet(Append(d, pos + 1)) = ToSet(d) \cup {pos + 1} /\ Increasing(Append(d, pos + 1))
    BY <1>2, <1>4, <2>5, GrowIncreasing
  <2>7. Want(log, from, pos + 1) = ToSet(d) \cup {pos + 1}
    BY <1>2, <1>4, <1>5, <1>6
  <2>8. Reached' = pos + 1
    BY <1>2, <2>1 DEF Reached
  <2>9. DeliverInv'
    BY <1>1, <2>4, <2>6, <2>7, <2>8 DEF DeliverInv
  <2> QED
    BY <1>1, <1>2, <2>3, <2>9 DEF SubInv, NativeInv
<1>7. CASE log[pos + 1] \notin Wanted
  <2>1. /\ out' = out /\ pos' = Head(page) /\ page' = Tail(page)
        /\ pc' = IF Tail(page) = <<>> THEN phase ELSE "emit"
    BY <1>2, <1>7 DEF Emit, Matches
  <2>2. Want(log, from, pos + 1) = Want(log, from, pos)
    <3>1. pos + 1 \notin Want(log, from, pos + 1)
      BY <1>5, <1>7
    <3> QED
      BY <1>5, <3>1, Zenon
  <2> QED
    BY <1>1, <1>2, <1>3, <1>4, <2>1, <2>2, Advance
<1> QED
  BY <1>6, <1>7

(* The position follows the event that was sent. *)
LEMMA PositionStep ==
  ASSUME SubInv, setPosition
  PROVE  SubInv'
<1>1. /\ UNCHANGED <<kind, log, from, dropped, got, out, mid, ch, phase>> /\ pc = "sent"
      /\ pos' = Head(page) /\ page' = Tail(page) /\ pc' = IF Tail(page) = <<>> THEN phase ELSE "emit"
  BY DEF setPosition, Loop, fixed, native
<1>2. Reached = pos + 1 /\ kind # "native"
  BY <1>1, PageFacts DEF Reached
<1>3. ToSet(Delivered) = Want(log, from, pos + 1)
  BY <1>2 DEF SubInv, DeliverInv
<1> QED
  BY <1>1, <1>3, Advance

(* The consumer takes the first event: nothing else moves. *)
LEMMA ConsumeStep ==
  ASSUME SubInv, Consume
  PROVE  SubInv'
<1>1. UNCHANGED <<kind, log, from, dropped, mid, ch, adapterClosed, stop, cancelled, phase, pos, page, pc>>
  BY DEF Consume, fixed, native, writer
<1>2. got \in Seq(Nat) /\ out \in Seq(Nat) /\ out # <<>>
  BY DEF Consume, SubInv, TypeInv
<1>3. got' = Append(got, Head(out)) /\ out' = Tail(out)
  BY DEF Consume
<1>4. got' \in Seq(Nat) /\ out' \in Seq(Nat)
  BY <1>2, <1>3, HeadFacts, AppendSingle
<1>5. Delivered' = Delivered
  BY <1>2, <1>3, MoveHead DEF Delivered
<1>6. Passed' = Passed /\ InFlight' = InFlight
  BY <1>1, <1>5 DEF Passed, InFlight
<1>7. TypeInv' /\ PageInv' /\ DeliverInv'
  BY <1>1, <1>4, <1>5 DEF SubInv, TypeInv, PageInv, DeliverInv, Run, Reached
<1>8. Sent' = Sent /\ (Live' => Live)
  BY <1>1 DEF Sent, Live
<1>9. kind = "native" => ToSet(Passed') \subseteq Want(log, from, Len(log))
  BY <1>6 DEF SubInv, NativeInv, FlowOK
<1>10. NativeInv'
  BY <1>1, <1>6, <1>8, <1>9, FlowKept DEF SubInv
<1> QED
  BY <1>7, <1>10 DEF SubInv

LEMMA BridgeStep ==
  ASSUME SubInv, Bridge
  PROVE  SubInv'
<1>1. UNCHANGED <<kind, log, from, dropped, got, ch, adapterClosed, stop, cancelled, phase, pos, page, pc>>
  BY DEF Bridge, Bridged, fixed
<1>2. /\ got \in Seq(Nat) /\ out \in Seq(Nat) /\ mid \in Seq(Nat) /\ mid # <<>>
      /\ kind = "native" /\ pc = "bridge" /\ Delivered \in Seq(Nat)
  BY ChannelTypes DEF Bridge, SubInv, TypeInv, PageInv
<1>3. out' = Append(out, Head(mid)) /\ mid' = Tail(mid)
  BY DEF Bridge
<1>4. Head(mid) \in Nat /\ out' \in Seq(Nat) /\ mid' \in Seq(Nat)
  BY <1>2, <1>3, HeadFacts, AppendSingle
<1>5. Delivered' = Append(Delivered, Head(mid))
  BY <1>1, <1>2, <1>3, <1>4, AppendLast DEF Delivered
<1>6. Passed' = Passed
  BY <1>2, <1>3, <1>5, MoveHead DEF Passed
<1>7. InFlight' = InFlight
  BY <1>1, <1>6 DEF InFlight
<1>8. TypeInv' /\ PageInv' /\ DeliverInv'
  BY <1>1, <1>2, <1>4 DEF SubInv, TypeInv, PageInv, DeliverInv, Run
<1>9. Sent' = Sent /\ (Live' => Live)
  BY <1>1 DEF Sent, Live
<1>10. ToSet(Passed') \subseteq Want(log, from, Len(log))
  BY <1>2, <1>6 DEF SubInv, NativeInv, FlowOK
<1>11. NativeInv'
  BY <1>1, <1>7, <1>9, <1>10, FlowKept DEF SubInv
<1> QED
  BY <1>8, <1>11 DEF SubInv

(* The filter lets an event through, or takes out one nobody asked for. *)
LEMMA FilterStep ==
  ASSUME SubInv, filterEvents
  PROVE  SubInv'
<1>1. UNCHANGED <<kind, log, from, dropped, got, out, adapterClosed, stop, cancelled, phase, pos, page, pc>>
  BY DEF filterEvents, Bridged, fixed
<1>2. /\ mid \in Seq(Nat) /\ ch \in Seq(Nat) /\ ch # <<>> /\ kind = "native" /\ pc \in {"bridge", "orphaned"}
      /\ Delivered \in Seq(Nat) /\ Passed \in Seq(Nat) /\ InFlight \in Seq(Nat)
      /\ Len(log) \in Nat /\ Sent = Len(log)
  BY ChannelTypes DEF filterEvents, SubInv, TypeInv, PageInv, Sent
<1>3. ch' = Tail(ch) /\ Delivered' = Delivered
  BY <1>1 DEF filterEvents, Delivered
<1>4. Head(ch) \in Nat /\ ch' \in Seq(Nat)
  BY <1>2, <1>3, HeadFacts
<1>5. FlowOK(log, from, Sent, Passed, InFlight) /\ (Live => Covered(log, from, Sent, InFlight, dropped))
  BY <1>2 DEF SubInv, NativeInv
<1>6. ToSet(InFlight) = ToSet(Passed \o Tail(ch)) \cup {Head(ch)} /\ Increasing(Passed \o Tail(ch))
  BY <1>2, <1>5, DropHead DEF FlowOK, InFlight
<1>7. Head(ch) \in 1 .. Len(log)
  BY <1>2, <1>5, <1>6 DEF FlowOK
<1>8. Sent' = Sent /\ (Live' => Live)
  BY <1>1 DEF Sent, Live
<1>9. PageInv' /\ DeliverInv'
  BY <1>1, <1>2 DEF SubInv, PageInv, DeliverInv, Run
<1>10. CASE Keeps(Head(ch))
  <2>1. mid' = Append(mid, Head(ch))
    BY <1>10 DEF filterEvents
  <2>2. TypeInv'
    BY <1>1, <1>2, <1>4, <2>1, AppendSingle DEF SubInv, TypeInv
  <2>3. Passed' = Append(Passed, Head(ch))
    BY <1>2, <1>3, <1>4, <2>1, AppendLast DEF Passed
  <2>4. InFlight' = InFlight
    BY <1>2, <1>3, <2>3, MoveHead DEF InFlight
  <2>5. Head(ch) \in Want(log, from, Len(log))
    BY <1>7, <1>10 DEF Keeps, Matches, PastVersion, Want
  <2>6. ToSet(Append(Passed, Head(ch))) = ToSet(Passed) \cup {Head(ch)}
    BY <1>2, <1>4, GrowIncreasing
  <2>7. ToSet(Passed') \subseteq Want(log, from, Len(log))
    BY <1>5, <2>3, <2>5, <2>6 DEF FlowOK
  <2>8. NativeInv'
    BY <1>1, <1>8, <2>4, <2>7, FlowKept DEF SubInv
  <2> QED
    BY <1>9, <2>2, <2>8 DEF SubInv
<1>11. CASE ~ Keeps(Head(ch))
  <2>1. mid' = mid
    BY <1>11 DEF filterEvents
  <2>2. TypeInv'
    BY <1>1, <1>4, <2>1 DEF SubInv, TypeInv
  <2>3. Passed' = Passed /\ InFlight' = Passed \o Tail(ch)
    BY <1>3, <2>1 DEF Passed, InFlight
  <2>4. Head(ch) \notin Want(log, from, Len(log))
    BY <1>11 DEF Keeps, Matches, PastVersion, Want
  <2>5. FlowOK(log, from, Sent, Passed, Passed \o Tail(ch))
    BY <1>5, <1>6 DEF FlowOK
  <2>6. Live => Covered(log, from, Sent, Passed \o Tail(ch), dropped)
    BY <1>2, <1>5, <1>6, <2>4 DEF Covered
  <2>7. FlowOK(log', from', Sent', Passed', InFlight') /\ (Live' => Covered(log', from', Sent', InFlight', dropped'))
    BY <1>1, <1>8, <2>3, <2>5, <2>6
  <2>8. pc' # "new"
    BY <1>1, <1>2
  <2>9. NativeInv'
    BY <2>7, <2>8 DEF NativeInv
  <2> QED
    BY <1>9, <2>2, <2>9 DEF SubInv
<1> QED
  BY <1>10, <1>11

(* The adapter's SubscribeAll: nothing flies yet, and none of the history went. *)
LEMMA SubscribeStep ==
  ASSUME SubInv, SubscribeAll
  PROVE  SubInv'
<1>1. UNCHANGED <<kind, log, from, dropped, got, out, mid, ch, phase, pos>>
  BY DEF SubscribeAll, fixed, writer
<1>2. /\ kind = "native" /\ pc = "new" /\ pc' = "draining" /\ page' = After(0)
      /\ log \in Seq(Streams) /\ Len(log) \in Nat /\ InFlight = <<>>
  BY DEF SubscribeAll, SubInv, TypeInv, NativeInv
<1>3. PICK a \in Seq(Nat), n \in Nat : /\ a = After(0) /\ n = Len(log) /\ Len(a) = n
                                       /\ \A i \in 1 .. n : a[i] = 0 + i
  <2>1. 0 \in Nat /\ 0 <= Len(log) /\ Len(log) - 0 = Len(log)
    BY <1>2
  <2>2. /\ After(0) \in Seq(Nat) /\ Len(After(0)) = Len(log) - 0
        /\ \A i \in 1 .. Len(log) - 0 : After(0)[i] = 0 + i
    BY <1>2, <2>1, AfterFacts
  <2> QED
    BY <1>2, <2>1, <2>2
<1>4. TypeInv'
  BY <1>1, <1>2, <1>3 DEF SubInv, TypeInv
<1>5. PageInv'
  <2>1. Len(log) - Len(a) = 0 /\ Len(a) <= Len(log) /\ Run(a, 0)
    BY <1>3 DEF Run
  <2> QED
    BY <1>1, <1>2, <1>3, <2>1 DEF PageInv
<1>6. DeliverInv'
  BY <1>1, <1>2 DEF DeliverInv
<1>7. Sent' = 0
  BY <1>1, <1>2, <1>3 DEF Sent
<1>8. InFlight' = <<>> /\ Passed' = Passed
  BY <1>1, <1>2 DEF InFlight, Passed, Delivered
<1>9. FlowOK(log', from', Sent', Passed', InFlight')
  BY <1>1, <1>2, <1>8, EmptyFacts DEF FlowOK, SubInv, NativeInv
<1>10. Covered(log', from', Sent', InFlight', dropped')
  BY <1>7 DEF Covered, Want
<1> QED
  BY <1>2, <1>4, <1>5, <1>6, <1>9, <1>10 DEF SubInv, NativeInv

(* The next position of the history enters the adapter's channel. *)
LEMMA HistoryStep ==
  ASSUME SubInv, SendHistory
  PROVE  SubInv'
<1>1. UNCHANGED <<kind, log, from, dropped, got, out, mid, phase, pos, adapterClosed, stop, cancelled>>
  BY DEF SendHistory, fixed, writer
<1>2. /\ kind = "native" /\ pc = "draining" /\ page \in Seq(Nat) /\ ch \in Seq(Nat)
      /\ Len(log) \in Nat /\ Len(page) <= Len(log) /\ Run(page, Len(log) - Len(page))
      /\ Passed \in Seq(Nat) /\ InFlight \in Seq(Nat) /\ from \in Nat
      /\ Sent = Len(log) - Len(page) /\ Len(page) \in Nat
  BY ChannelTypes DEF SendHistory, SubInv, TypeInv, PageInv, Sent
<1>3. Passed' = Passed
  BY <1>1 DEF Passed, Delivered
<1>4. CASE page = <<>>
  <2>1. pc' = "bridge" /\ ch' = ch /\ page' = page
    BY <1>4 DEF SendHistory
  <2>2. TypeInv' /\ PageInv'
    BY <1>1, <1>2, <2>1 DEF SubInv, TypeInv, PageInv
  <2>3. Sent' = Sent
    BY <1>1, <1>2, <1>4, <2>1 DEF Sent
  <2>4. (Live' => Live) /\ Reached' = Reached
    BY <1>1, <1>2, <2>1 DEF Live, Reached
  <2> QED
    BY <1>1, <2>1, <2>2, <2>3, <2>4, ChannelsKept
<1>5. CASE page # <<>>
  <2>1. pc' = pc /\ ch' = Append(ch, Head(page)) /\ page' = Tail(page)
    BY <1>5 DEF SendHistory
  <2>2. PICK b \in Nat : b = Len(log) - Len(page)
    <3>1. Len(log) - Len(page) \in Nat
      BY <1>2
    <3> QED
      BY <3>1
  <2>3. /\ b \in Nat /\ Head(page) = b + 1 /\ Run(Tail(page), b + 1) /\ Tail(page) \in Seq(Nat)
        /\ Len(Tail(page)) = Len(page) - 1 /\ Len(page) \in Nat \ {0} /\ Sent = b
    BY <1>2, <1>5, <2>2, RunTail, HeadFacts
  <2>4. Len(log) - Len(Tail(page)) = b + 1 /\ Len(Tail(page)) <= Len(log) /\ b + 1 \in Nat /\ b + 1 <= Len(log)
    BY <1>2, <2>2, <2>3
  <2>5. ch' \in Seq(Nat)
    BY <1>2, <2>1, <2>3, <2>4, AppendSingle
  <2>6. TypeInv'
    BY <1>1, <2>1, <2>3, <2>5 DEF SubInv, TypeInv
  <2>7. PageInv'
    BY <1>1, <1>2, <2>1, <2>3, <2>4 DEF PageInv
  <2>8. DeliverInv'
    BY <1>1, <1>2 DEF DeliverInv
  <2>9. Sent' = b + 1
    BY <1>1, <1>2, <2>1, <2>4 DEF Sent
  <2>10. PICK q \in Seq(Nat) : q = InFlight
    BY <1>2
  <2>11. InFlight' = Append(q, b + 1)
    <3>1. InFlight' = Passed \o Append(ch, b + 1)
      BY <1>3, <2>1, <2>3 DEF InFlight
    <3>2. Passed \o Append(ch, b + 1) = Append(Passed \o ch, b + 1)
      BY <1>2, <2>4, AppendLast
    <3> QED
      BY <2>10, <3>1, <3>2 DEF InFlight
  <2>12. /\ Increasing(q) /\ ToSet(q) \subseteq 1 .. b /\ ToSet(Passed) \subseteq Want(log, from, Len(log))
         /\ Live => Want(log, from, b) \subseteq ToSet(q) \cup dropped
    BY <1>2, <2>3, <2>10 DEF SubInv, NativeInv, FlowOK, Covered
  <2>13. \A x \in ToSet(q) : x < b + 1
    BY <2>3, <2>12
  <2>14. ToSet(Append(q, b + 1)) = ToSet(q) \cup {b + 1} /\ Increasing(Append(q, b + 1))
    BY <2>4, <2>12, <2>13, GrowIncreasing
  <2>15. FlowOK(log', from', Sent', Passed', InFlight')
    <3>1. ToSet(q) \cup {b + 1} \subseteq 1 .. b + 1
      BY <2>3, <2>12
    <3> QED
      BY <1>1, <1>3, <2>9, <2>11, <2>12, <2>14, <3>1 DEF FlowOK
  <2>16. Live' => Covered(log', from', Sent', InFlight', dropped')
    <3>1. Want(log, from, b + 1) \subseteq Want(log, from, b) \cup {b + 1}
      BY <1>2, <2>3, WantNext, Zenon
    <3>2. Live' => Live
      BY <1>1, <1>2 DEF Live
    <3> QED
      BY <1>1, <2>9, <2>11, <2>12, <2>14, <3>1, <3>2 DEF Covered
  <2>17. pc' # "new"
    BY <1>2, <2>1
  <2> QED
    BY <2>6, <2>7, <2>8, <2>15, <2>16, <2>17 DEF SubInv, NativeInv
<1> QED
  BY <1>4, <1>5

(* The log grows: a live native subscription is handed the event, or loses it. *)
LEMMA AppendStep ==
  ASSUME SubInv, NEW s \in Streams, AppendEvent(s)
  PROVE  SubInv'
<1>1. /\ UNCHANGED <<kind, from, got, out, mid, phase, pos, page, pc, adapterClosed, stop, cancelled>>
      /\ log' = Append(log, s) /\ pc # "draining"
  BY DEF AppendEvent, fixed, ReadLocked
<1>2. PICK n \in Nat : n = Len(log)
  BY DEF SubInv, TypeInv
<1>3. /\ log \in Seq(Streams) /\ from \in Nat /\ pos \in Nat /\ from <= pos /\ pos <= n /\ page \in Seq(Nat)
      /\ Len(page) \in Nat /\ ch \in Seq(Nat) /\ Passed \in Seq(Nat) /\ InFlight \in Seq(Nat)
  BY <1>2, ChannelTypes DEF SubInv, TypeInv
<1>4. log' \in Seq(Streams) /\ Len(log') = n + 1
  BY <1>1, <1>2, <1>3
<1>5. \A p \in 0 .. n : Want(log', from', p) = Want(log, from, p)
  BY <1>1, <1>2, <1>3, WantSame
<1>6. Passed' = Passed /\ Delivered' = Delivered
  BY <1>1 DEF Passed, Delivered
<1>7. PICK p \in Nat : p = n + 1
  BY <1>2
<1>8. \/ ~ Subscribed /\ UNCHANGED <<ch, dropped>>
      \/ Subscribed /\ ch' = Append(ch, p) /\ UNCHANGED dropped
      \/ Subscribed /\ ch' = ch /\ dropped' = dropped \cup {p}
  BY <1>2, <1>7 DEF AppendEvent, notifySubscribers
<1>9. ch' \in Seq(Nat)
  BY <1>3, <1>7, <1>8, AppendSingle
<1>10. TypeInv'
  <2>1. pos \in from .. n + 1
    BY <1>2, <1>3
  <2> QED
    BY <1>1, <1>4, <1>9, <2>1 DEF SubInv, TypeInv
<1>11. PageInv'
  <2>1. pc \in {"emit", "sent"} => pos + Len(page) <= n + 1
    BY <1>2, <1>3 DEF SubInv, PageInv
  <2> QED
    BY <1>1, <1>4, <2>1 DEF SubInv, PageInv, Run
<1>12. DeliverInv'
  <2>1. Reached' = Reached /\ Reached \in 0 .. n
    <3>1. Reached' = Reached
      BY <1>1 DEF Reached
    <3>2. pc = "sent" => Head(page) = pos + 1 /\ pos + 1 \in from .. n
      BY <1>2, PageFacts
    <3> QED
      BY <1>2, <1>3, <3>1, <3>2 DEF Reached
  <2>2. Want(log', from', Reached') = Want(log, from, Reached)
    BY <1>5, <2>1
  <2> QED
    BY <1>1, <1>6, <2>2 DEF SubInv, DeliverInv
<1>13. NativeInv'
  <2> SUFFICES ASSUME kind = "native"
               PROVE  /\ pc' = "new" => InFlight' = <<>>
                      /\ FlowOK(log', from', Sent', Passed', InFlight')
                      /\ Live' => Covered(log', from', Sent', InFlight', dropped')
    BY <1>1 DEF NativeInv
  <2>1. PICK q \in Seq(Nat) : q = InFlight
    BY <1>3
  <2>2. /\ Increasing(q) /\ ToSet(q) \subseteq 1 .. n /\ ToSet(Passed) \subseteq Want(log, from, n)
        /\ Live => Want(log, from, n) \subseteq ToSet(q) \cup dropped
        /\ pc = "new" => q = <<>>
    BY <1>1, <1>2, <2>1 DEF SubInv, NativeInv, FlowOK, Covered, Sent
  <2>3. Sent' = p /\ (Live' => Live) /\ (Live => Subscribed) /\ (Subscribed => pc # "new")
    BY <1>1, <1>4, <1>7 DEF Sent, Live, Subscribed
  <2>4. Want(log', from', n) = Want(log, from, n)
    BY <1>2, <1>5
  <2>5. /\ Want(log', from', p) \subseteq Want(log, from, n) \cup {p}
        /\ Want(log, from, n) \subseteq Want(log', from', p)
    <3>1. from' \in Nat
      BY <1>1, <1>3
    <3>2. /\ Want(log', from', n + 1) \subseteq Want(log', from', n) \cup {n + 1}
          /\ Want(log', from', n) \subseteq Want(log', from', n + 1)
      BY <1>2, <3>1, WantNext, Zenon
    <3> QED
      BY <1>7, <2>4, <3>2
  <2>6. ToSet(Passed') \subseteq Want(log', from', Len(log'))
    BY <1>4, <1>6, <1>7, <2>2, <2>5
  <2>7. 1 .. n \subseteq 1 .. p /\ p \in 1 .. p /\ \A x \in 1 .. n : x < p
    BY <1>7
  <2>8. CASE ~ Subscribed /\ UNCHANGED <<ch, dropped>>
    <3>1. InFlight' = q
      BY <1>6, <2>1, <2>8 DEF InFlight
    <3> QED
      BY <1>1, <2>2, <2>3, <2>6, <2>7, <2>8, <3>1 DEF FlowOK
  <2>9. CASE Subscribed /\ ch' = Append(ch, p) /\ UNCHANGED dropped
    <3>1. InFlight' = Append(q, p)
      BY <1>3, <1>6, <1>7, <2>1, <2>9, AppendLast DEF InFlight
    <3>2. \A x \in ToSet(q) : x < p
      BY <2>2, <2>7
    <3>3. ToSet(Append(q, p)) = ToSet(q) \cup {p} /\ Increasing(Append(q, p))
      BY <1>7, <2>1, <2>2, <3>2, GrowIncreasing
    <3>4. FlowOK(log', from', Sent', Passed', InFlight')
      BY <2>2, <2>3, <2>6, <2>7, <3>1, <3>3 DEF FlowOK
    <3>5. Live' => Covered(log', from', Sent', InFlight', dropped')
      BY <2>2, <2>3, <2>5, <2>9, <3>1, <3>3 DEF Covered
    <3> QED
      BY <1>1, <2>2, <2>3, <2>9, <3>4, <3>5
  <2>10. CASE Subscribed /\ ch' = ch /\ dropped' = dropped \cup {p}
    <3>1. InFlight' = q
      BY <1>6, <2>1, <2>10 DEF InFlight
    <3>2. FlowOK(log', from', Sent', Passed', InFlight')
      BY <2>2, <2>3, <2>6, <2>7, <3>1 DEF FlowOK
    <3>3. Live' => Covered(log', from', Sent', InFlight', dropped')
      BY <2>2, <2>3, <2>5, <2>10, <3>1 DEF Covered
    <3> QED
      BY <1>1, <2>3, <2>10, <3>2, <3>3
  <2> QED
    BY <1>8, <2>8, <2>9, <2>10
<1> QED
  BY <1>10, <1>11, <1>12, <1>13 DEF SubInv

-----------------------------------------------------------------------------
(* Drops. *)

LEMMA DropStep ==
  ASSUME SubInv, DropInv, [Next]_vars
  PROVE  DropInv'
<1> SUFFICES ASSUME kind = "native", kind' = kind PROVE DropInv'
  <2>1. kind' = kind
    BY DEF Next, Goroutine, Fault, vars, Start, Load, LoadFails, HistoryFails, PollFails, PollSkips, LoadError, Emit,
           setPosition, Stopped, SubscribeAll, SubscribeRefused, SendHistory, BridgeEnds, DecryptFails,
           BridgeDecryptFails, filterEvents, Bridge, Consume, Close, CancelContext, CloseAdapter,
           AppendEvent, Loop, Bridged, fixed
  <2> QED
    BY <2>1 DEF DropInv
<1>1. /\ pc = "new" => dropped = {} /\ ch = <<>>
      /\ cap \in Nat /\ Len(ch) <= Sent
      /\ \A p \in dropped : p \in Nat /\ p > cap
      /\ Len(log) \in Nat /\ ch \in Seq(Nat) /\ Len(ch) \in Nat /\ page \in Seq(Nat) /\ Len(page) \in Nat
      /\ pc \notin {"catch", "wait", "emit", "sent"}
      /\ pc = "draining" => Len(page) <= Len(log)
  BY DEF DropInv, SubInv, TypeInv, PageInv
<1>2. ASSUME UNCHANGED <<cap, dropped>>, ch' = ch \/ (ch # <<>> /\ ch' = Tail(ch)), pc' = "new" => pc = "new",
             Sent' = Sent
      PROVE  DropInv'
  <2>1. Len(ch') <= Sent' /\ (ch = <<>> => ch' = <<>>)
    BY <1>1, <1>2, HeadFacts DEF Sent
  <2> QED
    BY <1>1, <1>2, <2>1 DEF DropInv
<1>3. CASE UNCHANGED vars
  <2>1. UNCHANGED <<cap, dropped, ch, pc, log, page>>
    BY <1>3 DEF vars
  <2> QED
    BY <1>2, <2>1 DEF Sent
<1>4. CASE Start \/ Load \/ LoadFails \/ Emit \/ setPosition \/ Stopped \/ DecryptFails
  <2>1. FALSE
    BY <1>1, <1>4 DEF Start, Load, LoadFails, HistoryFails, PollFails, PollSkips, Emit, setPosition, Stopped,
                      DecryptFails
  <2> QED
    BY <2>1
<1>5. CASE SubscribeAll
  <2>1. /\ pc = "new" /\ pc' = "draining" /\ UNCHANGED <<ch, dropped, log>> /\ page' = After(0)
        /\ cap' = BufferSize + Len(log)
    BY <1>5 DEF SubscribeAll, writer
  <2>2. cap' \in Nat
    BY <1>1, <2>1, SizesAssumption
  <2>3. 0 <= Len(log) /\ Len(After(0)) = Len(log) - 0
    BY <1>1, AfterFacts
  <2>4. Sent' = 0
    BY <1>1, <2>1, <2>3 DEF Sent
  <2>5. ch' = <<>> /\ Len(ch') = 0 /\ dropped' = {}
    BY <1>1, <2>1
  <2> QED
    BY <2>1, <2>2, <2>4, <2>5 DEF DropInv
<1>6. CASE SendHistory
  <2>1. pc = "draining" /\ UNCHANGED <<cap, dropped, log>>
    BY <1>6 DEF SendHistory, writer
  <2>2. CASE page = <<>>
    <3>1. pc' = "bridge" /\ ch' = ch /\ page' = page
      BY <1>6, <2>2 DEF SendHistory
    <3>2. Sent' = Sent
      BY <1>1, <2>1, <2>2, <3>1 DEF Sent
    <3> QED
      BY <1>2, <2>1, <3>1, <3>2
  <2>3. CASE page # <<>>
    <3>1. pc' = pc /\ ch' = Append(ch, Head(page)) /\ page' = Tail(page)
      BY <1>6, <2>3 DEF SendHistory
    <3>2. Len(ch') = Len(ch) + 1 /\ Len(page') = Len(page) - 1
      BY <1>1, <2>3, <3>1, HeadFacts
    <3>3. Sent = Len(log) - Len(page) /\ Sent' = Len(log) - Len(page')
      BY <2>1, <3>1 DEF Sent
    <3>4. Len(ch') <= Sent'
      BY <1>1, <3>2, <3>3
    <3> QED
      BY <1>1, <2>1, <3>1, <3>4 DEF DropInv
  <2> QED
    BY <2>2, <2>3
<1>7. CASE SubscribeRefused \/ BridgeEnds \/ BridgeDecryptFails
  <2>1. /\ UNCHANGED <<cap, dropped, ch, log, page>> /\ pc' \in {"ended", "orphaned"} /\ pc # "draining"
    BY <1>7 DEF SubscribeRefused, BridgeEnds, BridgeDecryptFails, Ends, Loop, Bridged, native
  <2>2. Sent' = Sent
    BY <2>1 DEF Sent
  <2> QED
    BY <1>2, <2>1, <2>2
<1>8. CASE filterEvents \/ Bridge \/ Consume \/ Close \/ CancelContext \/ CloseAdapter
  <2>1. /\ UNCHANGED <<cap, dropped, log, page, pc>>
        /\ ch' = ch \/ (ch # <<>> /\ ch' = Tail(ch))
    BY <1>8 DEF filterEvents, Bridge, Consume, Close, CancelContext, CloseAdapter, Bridged, native, writer
  <2>2. Sent' = Sent
    BY <2>1 DEF Sent
  <2> QED
    BY <1>2, <2>1, <2>2
<1>9. ASSUME NEW s \in Streams, AppendEvent(s) PROVE DropInv'
  <2>1. UNCHANGED <<cap, pc, page>> /\ log' = Append(log, s) /\ pc # "draining"
    BY <1>9 DEF AppendEvent, ReadLocked
  <2>2. PICK n \in Nat : n = Len(log)
    BY <1>1
  <2>3. Len(log') = n + 1 /\ Sent = n /\ Sent' = n + 1
    BY <2>1, <2>2 DEF Sent, SubInv, TypeInv
  <2>4. \/ ch' = ch /\ dropped' = dropped
        \/ Subscribed /\ ch' = Append(ch, n + 1) /\ dropped' = dropped
        \/ Subscribed /\ ~ (Len(ch) < cap) /\ ch' = ch /\ dropped' = dropped \cup {n + 1}
    BY <1>9, <2>2 DEF AppendEvent, notifySubscribers
  <2>5. Subscribed => pc # "new"
    BY DEF Subscribed
  <2>6. CASE ch' = ch /\ dropped' = dropped
    BY <1>1, <2>1, <2>3, <2>6 DEF DropInv
  <2>7. CASE Subscribed /\ ch' = Append(ch, n + 1) /\ dropped' = dropped
    <3>1. Len(ch') = Len(ch) + 1
      BY <1>1, <2>2, <2>7
    <3> QED
      BY <1>1, <2>1, <2>3, <2>5, <2>7, <3>1 DEF DropInv
  <2>8. CASE Subscribed /\ ~ (Len(ch) < cap) /\ ch' = ch /\ dropped' = dropped \cup {n + 1}
    <3>1. n + 1 > cap
      BY <1>1, <2>2, <2>3, <2>5, <2>8
    <3> QED
      BY <1>1, <2>1, <2>3, <2>5, <2>8, <3>1 DEF DropInv
  <2> QED
    BY <2>4, <2>6, <2>7, <2>8
<1> QED
  BY <1>3, <1>4, <1>5, <1>6, <1>7, <1>8, <1>9 DEF Next, Goroutine, Fault

-----------------------------------------------------------------------------
(* The inductive invariant and what follows from it. *)

LEMMA InitEstablishes ==
  ASSUME Init
  PROVE  SubInv /\ DropInv
<1>1. PICK n \in 0 .. MaxEvents - 1 : log \in [1 .. n -> Streams]
  BY DEF Init
<1>2. n \in Nat /\ log \in Seq(Streams) /\ Len(log) = n
  BY <1>1, BoundsAssumption
<1>3. from \in 0 .. n /\ pos = from
  BY <1>2 DEF Init
<1>4. <<>> \o <<>> = <<>>
  OBVIOUS
<1>5. Delivered = <<>> /\ Passed = <<>> /\ InFlight = <<>>
  BY <1>4 DEF Init, Delivered, Passed, InFlight
<1>6. TypeInv
  <2>1. from \in Nat /\ pos \in from .. Len(log)
    BY <1>2, <1>3
  <2> QED
    BY <1>2, <2>1, EmptyFacts DEF Init, TypeInv
<1>7. PageInv
  BY DEF Init, PageInv
<1>8. DeliverInv
  <2>1. Want(log, from, pos) = {}
    BY <1>2, <1>3 DEF Want
  <2> QED
    BY <1>5, <2>1, EmptyFacts DEF Init, DeliverInv, Reached
<1>9. NativeInv
  BY <1>5, EmptyFacts DEF Init, NativeInv, FlowOK, Live
<1>10. DropInv
  BY <1>2 DEF Init, DropInv, Sent
<1> QED
  BY <1>6, <1>7, <1>8, <1>9, <1>10 DEF SubInv

LEMMA StepPreserves ==
  ASSUME SubInv, [Next]_vars
  PROVE  SubInv'
<1>1. CASE UNCHANGED vars
  BY <1>1 DEF vars, SubInv, TypeInv, PageInv, DeliverInv, NativeInv, Live, Sent, Delivered, Passed, InFlight,
              Run, FlowOK, Covered, Reached
<1>2. CASE Goroutine
  BY <1>2, IdleSteps, LoadStep, EmitStep, PositionStep, SubscribeStep, HistoryStep DEF Goroutine
<1>3. CASE Fault
  BY <1>3, IdleSteps DEF Fault
<1>4. CASE \E s \in Streams : AppendEvent(s)
  BY <1>4, AppendStep
<1>5. CASE filterEvents \/ Bridge \/ Consume
  BY <1>5, FilterStep, BridgeStep, ConsumeStep
<1>6. CASE Close \/ CancelContext \/ CloseAdapter
  BY <1>6, IdleSteps
<1> QED
  BY <1>1, <1>2, <1>3, <1>4, <1>5, <1>6 DEF Next

LEMMA InvariantDelivers ==
  ASSUME SubInv, DropInv
  PROVE  ExactlyUpToPosition /\ NativeLosesOnlyDrops
<1>1. \A p : WantedUpTo(p) = Want(log, from, p)
  BY DEF WantedUpTo, Keeps, Matches, PastVersion, Want
<1>2. ExactlyUpToPosition
  BY <1>1 DEF SubInv, DeliverInv, ExactlyUpToPosition
<1>3. NativeLosesOnlyDrops
  <2>1. Subscribed => Live /\ Sent = Len(log)
    BY DEF Subscribed, Live, Sent
  <2> QED
    BY <1>1, <2>1 DEF SubInv, NativeInv, DropInv, FlowOK, Covered, NativeLosesOnlyDrops
<1> QED
  BY <1>2, <1>3

(* The inductive invariant of the subscriptions: the page in hand is the run of *)
(* positions that follows the subscription's position (Load and Emit of the     *)
(* catch-up and polling loops), and what the native channels hold, taken        *)
(* together, is in order and within what was sent so far.                       *)
THEOREM SubInvariant == Spec => [](SubInv /\ DropInv)
<1>1. Init => SubInv /\ DropInv
  BY InitEstablishes
<1>2. SubInv /\ DropInv /\ [Next]_vars => (SubInv /\ DropInv)'
  BY StepPreserves, DropStep
<1> QED
  BY <1>1, <1>2, PTL DEF Spec

(* CatchupSubscription and PollingSubscription hand over exactly the matching   *)
(* events between their start and Position(), in order and none twice, for any  *)
(* page size, buffer, log and number of failed loads.                           *)
THEOREM NothingSkipped == Spec => []ExactlyUpToPosition
<1>1. SubInv /\ DropInv => ExactlyUpToPosition
  BY InvariantDelivers
<1> QED
  BY <1>1, SubInvariant, PTL

(* SubscribeStream over the in-memory adapter neither reorders nor repeats, lets *)
(* only matching events through, and while the adapter knows it loses nothing    *)
(* but what notifySubscribers dropped at a full buffer: never an event of the     *)
(* history, nor one of the first BufferSize that follow it.                       *)
THEOREM OnlyDropsAreLost == Spec => []NativeLosesOnlyDrops
<1>1. SubInv /\ DropInv => NativeLosesOnlyDrops
  BY InvariantDelivers
<1> QED
  BY <1>1, SubInvariant, PTL
=============================================================================
