---------------------------- MODULE Subscriptions ----------------------------
(***************************************************************************)
(* How an appended event reaches a subscriber. One subscription, of a kind *)
(* chosen at the start, reads a log that a writer extends:                 *)
(*   "catchup" - CatchupSubscription: pages of history, then polling with  *)
(*               bounded retries (EventStore.SubscribeAll and              *)
(*               SubscribeCategory);                                       *)
(*   "polling" - PollingSubscription: polling only, every error retried;   *)
(*   "native"  - EventStore.SubscribeStream over the in-memory adapter:    *)
(*               subscribed channel, filterEvents goroutine, bridge.       *)
(* Channels are sequences of positions with a capacity; every goroutine    *)
(* takes one step per channel operation or adapter call.                   *)
(***************************************************************************)
EXTENDS Integers, FiniteSets, Sequences, SequencesExt

CONSTANTS Kinds,         \* kinds to choose from
          Streams,       \* stream names
          Wanted,        \* the streams the subscription's filter lets through
          BufferSize,    \* capacity of the channels
          PageSize,      \* events per LoadFromPosition
          Retries,       \* values of MaxRetries: poll errors in a row before a
                         \* catch-up gives up; 0 is never, 1 is also RetryOnError = false
          MaxEvents,     \* bound on the log
          MaxFaults      \* bound on failing loads and decryptions

ASSUME SizesAssumption == {BufferSize, PageSize} \subseteq Nat \ {0} /\ Retries \subseteq Nat
ASSUME BoundsAssumption == MaxEvents \in Nat /\ MaxFaults \in Nat
ASSUME WantedAssumption == Wanted \subseteq Streams

VARIABLES kind, log, faults, adapterClosed,
          from,          \* the position the subscription starts after
          pc,            \* the goroutine of the subscription
          phase,         \* where it goes on after a page: "catch" or "wait"
          pos, page,     \* position reached, rest of the page in hand
          errs,          \* consecutive errors
          ch, cap, mid,  \* native: adapter channel, its capacity, filtered channel
          dropped,       \* native: positions a full channel lost
          maxRetries,    \* catchup: SubscriptionOptions.MaxRetries
          out, got,      \* the subscription's channel, what the consumer took
          stop, cancelled, err

vars == <<kind, log, faults, adapterClosed, from, pc, phase, pos, page, errs, ch, cap, mid,
          dropped, maxRetries, out, got, stop, cancelled, err>>
writer == <<log, adapterClosed>>
native == <<ch, cap, mid, dropped>>
fixed == <<kind, from, maxRetries>>

Matches(p) == log[p] \in Wanted
PastVersion(p) == p > from
HasRoom == Len(out) < BufferSize
After(p) == [i \in 1 .. (Len(log) - p) |-> p + i]

Init ==
  /\ kind \in Kinds
  /\ log \in UNION {[1 .. n -> Streams] : n \in 0 .. MaxEvents - 1}
  /\ from \in 0 .. Len(log)
  /\ IF kind = "catchup" THEN maxRetries \in Retries ELSE maxRetries = 0
  /\ faults = 0 /\ adapterClosed = FALSE
  /\ pc = "new" /\ phase = "catch" /\ pos = from /\ page = <<>> /\ errs = 0
  /\ ch = <<>> /\ cap = 0 /\ mid = <<>> /\ dropped = {}
  /\ out = <<>> /\ got = <<>> /\ stop = FALSE /\ cancelled = FALSE /\ err = "none"

-----------------------------------------------------------------------------
(* The in-memory adapter. SubscribeAll holds the read lock from its first  *)
(* look at the log until the history is in the channel; Append and Close   *)
(* take the write lock.                                                    *)

ReadLocked == pc = "draining"
Subscribed == kind = "native" /\ pc \in {"bridge", "orphaned"} /\ ~adapterClosed /\ ~stop /\ ~cancelled

\* Append, then notifySubscribers: a full channel drops the event. The adapter
\* would call an OnError, but toAdapterSubscriptionOptions passes on no more than
\* the buffer size: through the EventStore nobody hears of the drop.
notifySubscribers(p) ==
  IF ~Subscribed THEN UNCHANGED <<ch, dropped>>
  ELSE IF Len(ch) < cap THEN ch' = Append(ch, p) /\ UNCHANGED dropped
  ELSE dropped' = dropped \cup {p} /\ UNCHANGED ch

AppendEvent(s) ==
  /\ ~ReadLocked /\ ~adapterClosed /\ Len(log) < MaxEvents
  /\ log' = Append(log, s)
  /\ notifySubscribers(Len(log) + 1)
  /\ UNCHANGED <<adapterClosed, cap, mid, faults, pc, phase, pos, page, errs, out, got, stop, cancelled, err>>
  /\ UNCHANGED fixed

\* Close: no more loads; the subscriber channels are closed behind what they hold.
CloseAdapter ==
  /\ ~ReadLocked /\ ~adapterClosed
  /\ adapterClosed' = TRUE
  /\ UNCHANGED <<log, faults, pc, phase, pos, page, errs, out, got, stop, cancelled, err>>
  /\ UNCHANGED fixed /\ UNCHANGED native

-----------------------------------------------------------------------------
(* The consumer and the owner of the subscription. *)

Consume ==
  /\ out # <<>>
  /\ got' = Append(got, Head(out)) /\ out' = Tail(out)
  /\ UNCHANGED <<faults, pc, phase, pos, page, errs, stop, cancelled, err>>
  /\ UNCHANGED fixed /\ UNCHANGED native /\ UNCHANGED writer

Close ==
  /\ pc # "new" /\ ~ReadLocked /\ ~stop
  /\ stop' = TRUE
  /\ UNCHANGED <<faults, pc, phase, pos, page, errs, out, got, cancelled, err>>
  /\ UNCHANGED fixed /\ UNCHANGED native /\ UNCHANGED writer

CancelContext ==
  /\ pc # "new" /\ ~cancelled
  /\ cancelled' = TRUE
  /\ UNCHANGED <<faults, pc, phase, pos, page, errs, out, got, stop, err>>
  /\ UNCHANGED fixed /\ UNCHANGED native /\ UNCHANGED writer

-----------------------------------------------------------------------------
(* Catch-up and polling. *)

Loop == UNCHANGED <<log, adapterClosed, got, stop, cancelled>> /\ UNCHANGED fixed /\ UNCHANGED native
Ends(e) == pc' = "ended" /\ err' = e

\* subscribe and Start: a catch-up begins with history, a polling one waits.
Start ==
  /\ pc = "new" /\ kind # "native"
  /\ pc' = IF kind = "catchup" THEN "catch" ELSE "wait"
  /\ phase' = pc'
  /\ UNCHANGED <<faults, pos, page, errs, out, err>> /\ Loop

\* The history loop looks at the context and the stop channel first.
Looks == pc = "catch" => ~stop /\ ~cancelled

\* Mutant: a page whose events were all seen ends the subscription's reading.
LoadOnce ==
  /\ pc = "catch" /\ Looks /\ ~cancelled /\ ~adapterClosed
  /\ errs' = 0
  /\ LET loaded == SubSeq(After(pos), 1, IF Len(After(pos)) < PageSize THEN Len(After(pos)) ELSE PageSize)
     IN IF loaded = <<>> THEN /\ pc' = "wait" /\ phase' = "wait" /\ UNCHANGED page
        ELSE /\ pc' = "emit" /\ page' = loaded /\ UNCHANGED phase
  /\ UNCHANGED <<faults, pos, out, err>> /\ Loop

\* LoadFromPosition and decryptStoredEvents succeed; an empty page of history
\* ends the catch-up phase.
Load ==
  /\ pc \in {"catch", "wait"} /\ Looks /\ ~cancelled /\ ~adapterClosed
  /\ errs' = 0
  /\ LET loaded == SubSeq(After(pos), 1, IF Len(After(pos)) < PageSize THEN Len(After(pos)) ELSE PageSize)
     IN IF loaded = <<>> THEN /\ pc' = "wait" /\ phase' = "wait" /\ UNCHANGED page
        ELSE /\ pc' = "emit" /\ page' = loaded /\ UNCHANGED phase
  /\ UNCHANGED <<faults, pos, out, err>> /\ Loop

\* A load fails: the adapter or the context is gone, or the store has trouble.
LoadError ==
  /\ adapterClosed \/ cancelled \/ faults < MaxFaults
  /\ faults' = IF adapterClosed \/ cancelled THEN faults ELSE faults + 1
  /\ UNCHANGED <<phase, pos, page, out>> /\ Loop

\* In history it is final.
HistoryFails ==
  /\ pc = "catch" /\ Looks /\ LoadError
  /\ Ends("load") /\ UNCHANGED errs

\* A polling catch-up tries again, for ever or until MaxRetries in a row.
PollFails ==
  /\ pc = "wait" /\ kind = "catchup" /\ LoadError
  /\ IF maxRetries = 0 THEN UNCHANGED <<pc, err, errs>>
     ELSE /\ errs' = errs + 1
          /\ IF errs + 1 >= maxRetries THEN Ends("load") ELSE UNCHANGED <<pc, err>>

\* The polling subscription just waits for the next tick.
PollSkips ==
  /\ pc = "wait" /\ kind = "polling" /\ LoadError
  /\ UNCHANGED <<pc, err, errs>>

\* A page that cannot be decrypted stops the subscription before any of it is sent.
DecryptFails ==
  /\ pc \in {"catch", "wait"} /\ Looks /\ ~cancelled /\ ~adapterClosed
  /\ After(pos) # <<>> /\ faults < MaxFaults
  /\ faults' = faults + 1
  /\ Ends("decrypt")
  /\ UNCHANGED <<phase, pos, page, errs, out>> /\ Loop

\* One event of the page: passed over, or sent when the channel has room.
Emit ==
  /\ pc = "emit"
  /\ IF Matches(Head(page))
     THEN /\ HasRoom /\ out' = Append(out, Head(page)) /\ pc' = "sent"
          /\ UNCHANGED <<pos, page>>
     ELSE /\ pos' = Head(page) /\ page' = Tail(page)
          /\ pc' = IF Tail(page) = <<>> THEN phase ELSE "emit"
          /\ UNCHANGED out
  /\ UNCHANGED <<faults, phase, errs, err>> /\ Loop

\* Mutant: the position moves to the end of the page with its first event.
setPositionToLast ==
  /\ pc = "sent"
  /\ pos' = Last(page) /\ page' = Tail(page)
  /\ pc' = IF Tail(page) = <<>> THEN phase ELSE "emit"
  /\ UNCHANGED <<faults, phase, errs, err, out>> /\ Loop

\* The event is in the channel, and perhaps with the consumer, before the
\* position is on it.
setPosition ==
  /\ pc = "sent"
  /\ pos' = Head(page) /\ page' = Tail(page)
  /\ pc' = IF Tail(page) = <<>> THEN phase ELSE "emit"
  /\ UNCHANGED <<faults, phase, errs, err, out>> /\ Loop

\* The stop channel or the context wins a select: before a load, at a tick, or
\* while a matching event waits for room.
Stopped ==
  /\ pc \in {"catch", "wait"} \/ (pc = "emit" /\ Matches(Head(page)))
  /\ \/ stop /\ Ends("none")
     \/ cancelled /\ Ends("cancelled")
  /\ UNCHANGED <<faults, phase, pos, page, errs, out>> /\ Loop

-----------------------------------------------------------------------------
(* The native stream subscription. *)

\* Mutant: registered only after the lock was given up.
SubscribeLate ==
  /\ pc = "new" /\ kind = "native" /\ ~adapterClosed
  /\ cap' = BufferSize + Len(log)
  /\ \E n \in 0 .. Len(log) : page' = SubSeq(After(0), 1, n)
  /\ pc' = "draining"
  /\ UNCHANGED <<faults, phase, pos, errs, out, err, ch, mid, dropped, got, stop, cancelled>>
  /\ UNCHANGED fixed /\ UNCHANGED writer

\* SubscribeAll(0): room for the history and the buffer, registered, and the
\* read lock kept while the history is sent.
SubscribeAll ==
  /\ pc = "new" /\ kind = "native" /\ ~adapterClosed
  /\ cap' = BufferSize + Len(log)
  /\ pc' = "draining" /\ page' = After(0)
  /\ UNCHANGED <<faults, phase, pos, errs, out, err, ch, mid, dropped, got, stop, cancelled>>
  /\ UNCHANGED fixed /\ UNCHANGED writer

\* On a closed adapter there is nothing to subscribe to.
SubscribeRefused ==
  /\ pc = "new" /\ kind = "native" /\ adapterClosed
  /\ Ends("closed")
  /\ UNCHANGED <<faults, phase, pos, page, errs, out>> /\ Loop

SendHistory ==
  /\ pc = "draining"
  /\ IF page = <<>> THEN pc' = "bridge" /\ UNCHANGED <<ch, page>>
     ELSE Len(ch) < cap /\ ch' = Append(ch, Head(page)) /\ page' = Tail(page) /\ UNCHANGED pc
  /\ UNCHANGED <<faults, phase, pos, errs, out, err, cap, mid, dropped, got, stop, cancelled>>
  /\ UNCHANGED fixed /\ UNCHANGED writer

Bridged == UNCHANGED <<log, adapterClosed, faults, phase, pos, page, errs, cap, dropped, got, stop, cancelled>>
           /\ UNCHANGED fixed

\* SubscribeStream of the adapter: its filter, and streamVersionFilter's.
Keeps(p) == Matches(p) /\ PastVersion(p)

\* filterEvents: the stream's events after the version asked for, which "from"
\* stands for by the position of that version.
filterEvents ==
  /\ pc \in {"bridge", "orphaned"} /\ ch # <<>>
  /\ IF Keeps(Head(ch))
     THEN Len(mid) < BufferSize /\ mid' = Append(mid, Head(ch))
     ELSE UNCHANGED mid
  /\ ch' = Tail(ch)
  /\ UNCHANGED <<pc, out, err>> /\ Bridged

\* The bridge of subscribeViaAdapter decrypts and forwards one event.
Bridge ==
  /\ pc = "bridge" /\ mid # <<>> /\ HasRoom
  /\ out' = Append(out, Head(mid)) /\ mid' = Tail(mid)
  /\ UNCHANGED <<pc, err, ch>> /\ Bridged

\* The bridge returns with an error, but cancels nothing: the adapter keeps
\* the subscriber, and filterEvents goes on, until the owner closes or cancels.
BridgeDecryptFails ==
  /\ pc = "bridge" /\ mid # <<>> /\ faults < MaxFaults
  /\ faults' = faults + 1
  /\ pc' = "orphaned" /\ err' = "decrypt"
  /\ UNCHANGED <<log, adapterClosed, phase, pos, page, errs, out, got, stop, cancelled>>
  /\ UNCHANGED fixed /\ UNCHANGED native

\* The subscription's context is done, or the adapter closed its channel and the
\* rest of it was forwarded; reportStop tells a cancelled parent from a Close.
BridgeEnds ==
  /\ pc \in {"bridge", "orphaned"}
  /\ stop \/ cancelled \/ (adapterClosed /\ ch = <<>> /\ mid = <<>>)
  /\ pc' = "ended" /\ err' = IF cancelled /\ err = "none" THEN "cancelled" ELSE err
  /\ UNCHANGED <<out, ch, mid>> /\ Bridged

-----------------------------------------------------------------------------
LoadFails == HistoryFails \/ PollFails \/ PollSkips
Goroutine == \/ Start \/ Load \/ LoadFails \/ Emit \/ setPosition \/ Stopped
             \/ SubscribeAll \/ SubscribeRefused \/ SendHistory \/ BridgeEnds
Fault == DecryptFails \/ BridgeDecryptFails

Next == \/ Goroutine \/ Fault \/ filterEvents \/ Bridge \/ Consume \/ Close \/ CancelContext
        \/ CloseAdapter
        \/ \E s \in Streams : AppendEvent(s)

\* The goroutines run, and the consumer drains the channel.
Fairness == WF_vars(Start \/ SubscribeAll \/ SubscribeRefused \/ SendHistory) /\ WF_vars(Load) /\ WF_vars(Emit \/ setPosition)
            /\ WF_vars(Stopped \/ BridgeEnds) /\ WF_vars(filterEvents) /\ WF_vars(Bridge)
            /\ WF_vars(Consume)
            /\ WF_vars(LoadFails /\ (cancelled \/ adapterClosed))

Spec == Init /\ [][Next]_vars /\ Fairness

-----------------------------------------------------------------------------
(* Properties. *)

\* The positions up to p that the subscription is for.
WantedUpTo(p) == {i \in 1 .. p : Keeps(i)}
Delivered == got \o out
Passed == Delivered \o mid
InFlight == Passed \o ch

\* In order and none twice.
Increasing(s) == \A i, j \in DOMAIN s : i < j => s[i] < s[j]

\* How far the subscription is: between the send and setPosition one further
\* than its Position().
Reached == IF pc = "sent" THEN Head(page) ELSE pos

\* A catch-up or polling subscription hands over exactly the matching events
\* up to its position, in order, none missing, none twice: across pages, the
\* switch from history to polling, retries and concurrent appends. Its
\* Position() never runs ahead of the channel, and is behind it by at most the
\* event that was sent last.
ExactlyUpToPosition ==
  kind # "native" => Increasing(Delivered) /\ ToSet(Delivered) = WantedUpTo(Reached)

\* The native subscription never reorders or repeats and lets only matching
\* events through, and while the adapter knows it every matching event is on its
\* way or was dropped at a full buffer; nothing of the history, and none of the
\* first BufferSize events after it, is ever dropped.
NativeLosesOnlyDrops ==
  kind = "native" =>
    /\ Increasing(InFlight)
    /\ ToSet(Passed) \subseteq WantedUpTo(Len(log))
    /\ Subscribed => WantedUpTo(Len(log)) \subseteq ToSet(InFlight) \cup dropped
    /\ \A p \in dropped : p > cap

\* Every matching event reaches a consumer that keeps reading, unless the
\* subscription ended or stopped with an error, a full native buffer dropped
\* it, or the adapter closed under a polling subscription or a catch-up that
\* retries without limit, which then polls in vain for ever.
EventuallyDelivered ==
  <>[](\/ pc \in {"ended", "orphaned"} \/ ToSet(got) = WantedUpTo(Len(log)) \/ dropped # {}
       \/ (maxRetries = 0 /\ kind # "native" /\ adapterClosed))
=============================================================================
