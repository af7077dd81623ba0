--------------------------- MODULE LiveProjections ---------------------------
(***************************************************************************)
(* Inline and live projections of the projection engine. The application   *)
(* appends a batch, calls ProcessInlineProjections and then                *)
(* NotifyLiveProjections; several goroutines do so at once. A live         *)
(* projection is a worker goroutine behind a bounded channel, without any  *)
(* catch-up; Pause, Resume, Unregister and the engine's Start and Stop run *)
(* beside the notifiers. One live projection is followed; the others show  *)
(* only in that a notifier may be held, and its context end, at one of     *)
(* them before this one's turn.                                            *)
(***************************************************************************)
EXTENDS Integers, FiniteSets, Sequences, SequencesExt

CONSTANTS Notifiers,    \* goroutines that append and notify
          Goroutines,   \* runs of the live worker: more than one after a Stop that timed out
          Inline,       \* inline projections, in registration order 1 .. n
          BufferSize,   \* capacity of the live worker's channel
          MaxEvents,    \* bound on appended events
          MaxCalls      \* bound on Pause, Resume, Start, Stop, failures, cancels

ASSUME SizeAssumption == BufferSize \in Nat \ {0}
ASSUME InlineAssumption == Inline \in Nat

VARIABLES next,         \* the next position to append
          step, todo,   \* per notifier: where it is, the events it has in hand
          cell,         \* per notifier: the inline projection whose turn it is
          applied,      \* per inline projection: the positions applied
          owner,        \* ghost: who appended a position, and the first of its batch
          registered, state, quit,           \* the live projection, quit: its stopCh is closed
          worker, hand, \* per run of the worker: where it is, the event in OnEvent or 0
          closing,         \* runs whose select watches a closed engine stop channel
          survivors,    \* runs that were alive when the engine was started again
          aborted,      \* runs whose Start context is cancelled
          channel,
          taken, got,   \* events in the order they left the channel, in the order of OnEvent
          lost,         \* positions a log line counts or names as dropped
          silent,       \* positions dropped without a word
          late,         \* ghost: left in the channel by nobody's drain
          engine,
          cancelled,    \* positions whose notifying call has lost its context
          calls

liveVars == <<next, step, todo, cell, applied, owner, registered, state, quit, worker, hand, closing, survivors,
              aborted, channel, taken, got, lost, silent, late, engine, cancelled, calls>>
live == <<registered, state, quit, worker, hand, closing, survivors, aborted, channel, taken, got, late, engine>>
batch == <<next, applied, owner, cell>>
drops == <<lost, silent>>

InlineProjections == 1 .. Inline

LiveInit ==
  /\ next = 1 /\ owner = <<>>
  /\ step = [n \in Notifiers |-> "idle"] /\ todo = [n \in Notifiers |-> <<>>]
  /\ cell = [n \in Notifiers |-> <<1, 1>>]
  /\ applied = [p \in InlineProjections |-> {}]
  /\ registered = TRUE /\ state = "stopped" /\ quit = FALSE
  /\ worker = [g \in Goroutines |-> "none"] /\ hand = [g \in Goroutines |-> 0]
  /\ closing = {} /\ survivors = {} /\ aborted = {}
  /\ channel = <<>> /\ taken = <<>> /\ got = <<>> /\ lost = {} /\ silent = {} /\ late = {}
  /\ engine = "stopped" /\ cancelled = {} /\ calls = 0

At(n, l) == step' = [step EXCEPT ![n] = l]
SetState(s) == state' = s
Called == calls < MaxCalls /\ calls' = calls + 1
Alive == {g \in Goroutines : worker[g] # "none"}

-----------------------------------------------------------------------------
(* The notifying goroutines. *)

\* The application appended a batch of k events.
AppendBatch(n, k) ==
  /\ step[n] = "idle" /\ next + k - 1 <= MaxEvents
  /\ todo' = [todo EXCEPT ![n] = [i \in 1 .. k |-> next + i - 1]]
  /\ next' = next + k
  /\ owner' = owner \o [i \in 1 .. k |-> [by |-> n, first |-> next]]
  /\ At(n, "inline")
  /\ UNCHANGED <<applied, cell, cancelled, calls>> /\ UNCHANGED drops /\ UNCHANGED live

\* The order of the two loops: every projection for an event before the next event.
Following(c) == IF c[2] < Inline THEN <<c[1], c[2] + 1>> ELSE <<c[1] + 1, 1>>

\* ProcessInlineProjections, one Apply.
ApplyInline(n) ==
  LET c == cell[n]
  IN /\ step[n] = "inline" /\ c[1] <= Len(todo[n]) /\ Inline > 0
     /\ applied' = [applied EXCEPT ![c[2]] = @ \cup {todo[n][c[1]]}]
     /\ cell' = [cell EXCEPT ![n] = Following(c)]
     /\ UNCHANGED <<next, owner, step, todo, cancelled, calls>> /\ UNCHANGED drops /\ UNCHANGED live

\* An Apply fails or panics, or the event cannot be decrypted: the call returns
\* the error and the rest of the batch is left out; the caller goes on.
InlineFails(n) ==
  /\ step[n] = "inline" /\ cell[n][1] <= Len(todo[n]) /\ Called
  /\ At(n, "notify") /\ cell' = [cell EXCEPT ![n] = <<1, 1>>]
  /\ UNCHANGED <<next, applied, owner, todo, cancelled>> /\ UNCHANGED drops /\ UNCHANGED live

InlineDone(n) ==
  /\ step[n] = "inline" /\ (cell[n][1] > Len(todo[n]) \/ Inline = 0)
  /\ At(n, "notify") /\ cell' = [cell EXCEPT ![n] = <<1, 1>>]
  /\ UNCHANGED <<next, applied, owner, todo, cancelled, calls>> /\ UNCHANGED drops /\ UNCHANGED live

\* The call is over for what notifier n still has in hand: a log line names or
\* counts the positions in `named`, and none the others.
GiveUp(n, named) ==
  /\ lost' = lost \cup named /\ silent' = silent \cup (Range(todo[n]) \ named)
  /\ todo' = [todo EXCEPT ![n] = <<>>] /\ At(n, "idle")

\* NotifyLiveProjections takes its snapshot of the workers; a projection that is
\* not registered is not in it.
NotifyLive(n) ==
  /\ step[n] = "notify"
  /\ IF registered THEN At(n, "turn") /\ UNCHANGED <<todo, lost, silent>> ELSE GiveUp(n, {})
  /\ UNCHANGED <<cancelled, calls>> /\ UNCHANGED batch /\ UNCHANGED live

\* An event that cannot be decrypted is logged and left out of the delivery.
DecryptFails(n) ==
  /\ step[n] = "turn" /\ Called
  /\ \E i \in DOMAIN todo[n] :
       /\ lost' = lost \cup {todo[n][i]}
       /\ todo' = [todo EXCEPT ![n] = RemoveAt(@, i)]
  /\ UNCHANGED <<step, silent, cancelled>> /\ UNCHANGED batch /\ UNCHANGED live

\* The call's context ended while it was sending to another worker: it returns
\* before this worker's turn.
TurnMissed(n) ==
  /\ step[n] = "turn" /\ todo[n] # <<>> /\ Head(todo[n]) \in cancelled
  /\ GiveUp(n, {})
  /\ UNCHANGED <<cancelled, calls>> /\ UNCHANGED batch /\ UNCHANGED live

\* Mutant: events for a worker that is not running are dropped without a log line.
TurnUnlogged(n) ==
  /\ step[n] = "turn"
  /\ IF state = "running" THEN At(n, "send") /\ UNCHANGED <<todo, lost, silent>> ELSE GiveUp(n, {})
  /\ UNCHANGED <<cancelled, calls>> /\ UNCHANGED batch /\ UNCHANGED live

\* This worker's turn: unless it is running, the whole batch is counted as dropped.
Turn(n) ==
  /\ step[n] = "turn"
  /\ IF state = "running" THEN At(n, "send") /\ UNCHANGED <<todo, lost, silent>> ELSE GiveUp(n, Range(todo[n]))
  /\ UNCHANGED <<cancelled, calls>> /\ UNCHANGED batch /\ UNCHANGED live

\* One event goes into the channel when there is room.
Send(n) ==
  /\ step[n] = "send" /\ todo[n] # <<>> /\ Len(channel) < BufferSize
  /\ channel' = Append(channel, Head(todo[n]))
  /\ late' = IF Alive = {} THEN late \cup {Head(todo[n])} ELSE late
  /\ todo' = [todo EXCEPT ![n] = Tail(@)]
  /\ UNCHANGED <<step, cancelled, calls, registered, state, quit, worker, hand, closing, survivors, aborted>>
  /\ UNCHANGED <<taken, got, engine>> /\ UNCHANGED drops /\ UNCHANGED batch

\* The worker was unregistered: the delivery to it is broken off, unlogged.
SendBreaks(n) ==
  /\ step[n] = "send" /\ todo[n] # <<>> /\ quit
  /\ GiveUp(n, {})
  /\ UNCHANGED <<cancelled, calls>> /\ UNCHANGED batch /\ UNCHANGED live

\* The context is cancelled: the event at hand is logged, what follows it is not.
SendCancelled(n) ==
  /\ step[n] = "send" /\ todo[n] # <<>> /\ Head(todo[n]) \in cancelled
  /\ GiveUp(n, {Head(todo[n])})
  /\ UNCHANGED <<cancelled, calls>> /\ UNCHANGED batch /\ UNCHANGED live

NotifyReturns(n) ==
  /\ step[n] = "send" /\ todo[n] = <<>>
  /\ At(n, "idle")
  /\ UNCHANGED <<todo, cancelled, calls>> /\ UNCHANGED drops /\ UNCHANGED batch /\ UNCHANGED live

\* The context of n's call ends.
Cancel(n) ==
  /\ ~ (Range(todo[n]) \subseteq cancelled) /\ Called
  /\ cancelled' = cancelled \cup Range(todo[n])
  /\ UNCHANGED <<step, todo>> /\ UNCHANGED drops /\ UNCHANGED batch /\ UNCHANGED live

-----------------------------------------------------------------------------
(* The worker's goroutines. *)
Notifying == UNCHANGED <<step, todo, cancelled>> /\ UNCHANGED drops /\ UNCHANGED batch

\* Entering the select evaluates e.stopCh. Start assigns it with no lock: a run
\* from before may still read the channel that the last Stop closed.
Watch(g) ==
  \E closed \in {engine # "running"} \cup {TRUE : x \in survivors \cap {g}} :
    closing' = IF closed THEN closing \cup {g} ELSE closing \ {g}

\* runLiveWorker begins.
RunLiveWorker(g) ==
  /\ worker[g] = "starting"
  /\ worker' = [worker EXCEPT ![g] = "run"] /\ SetState("running") /\ Watch(g)
  /\ UNCHANGED <<registered, quit, hand, survivors, aborted, channel, taken, got, late, engine, calls>> /\ Notifying

\* An event is received, in the select or while draining.
Receive(g) ==
  /\ worker[g] \in {"run", "drain"} /\ hand[g] = 0 /\ channel # <<>>
  /\ hand' = [hand EXCEPT ![g] = Head(channel)]
  /\ taken' = Append(taken, Head(channel)) /\ channel' = Tail(channel)
  /\ UNCHANGED <<registered, state, quit, worker, closing, survivors, aborted, got, late, engine, calls>> /\ Notifying

\* OnEvent runs and returns, or panics and is logged.
Deliver(g) ==
  /\ hand[g] # 0
  /\ got' = Append(got, hand[g]) /\ hand' = [hand EXCEPT ![g] = 0]
  /\ IF worker[g] = "run" THEN Watch(g) ELSE UNCHANGED closing
  /\ UNCHANGED <<registered, state, quit, worker, survivors, aborted, channel, taken, late, engine, calls>> /\ Notifying

\* The engine's or the worker's stop channel is closed: drain what is buffered.
StopSeen(g) ==
  /\ worker[g] = "run" /\ hand[g] = 0 /\ (g \in closing \/ quit)
  /\ worker' = [worker EXCEPT ![g] = "drain"]
  /\ UNCHANGED <<registered, state, quit, hand, closing, survivors, aborted, channel, taken, got, late, engine, calls>>
  /\ Notifying

\* Mutant: the worker leaves without draining.
DrainedAtOnce(g) ==
  /\ worker[g] = "drain" /\ hand[g] = 0
  /\ worker' = [worker EXCEPT ![g] = "none"] /\ SetState("stopped")
  /\ UNCHANGED <<registered, quit, hand, closing, survivors, aborted, channel, taken, got, late, engine, calls>> /\ Notifying

Drained(g) ==
  /\ worker[g] = "drain" /\ hand[g] = 0 /\ channel = <<>>
  /\ worker' = [worker EXCEPT ![g] = "none"] /\ SetState("stopped")
  /\ UNCHANGED <<registered, quit, hand, closing, survivors, aborted, channel, taken, got, late, engine, calls>> /\ Notifying

\* The context of Start is cancelled: the run leaves without draining.
Aborted(g) ==
  /\ worker[g] = "run" /\ hand[g] = 0 /\ g \in aborted
  /\ worker' = [worker EXCEPT ![g] = "none"] /\ SetState("stopped")
  /\ late' = IF Alive = {g} THEN late \cup Range(channel) ELSE late
  /\ UNCHANGED <<registered, quit, hand, closing, survivors, aborted, channel, taken, got, engine, calls>> /\ Notifying

-----------------------------------------------------------------------------
(* Calls on the engine. *)

\* Start makes a new stop channel and, for a registered projection, a new run of
\* its worker, whether or not an old one is still there.
Start ==
  /\ engine = "stopped" /\ Called
  /\ engine' = "running"
  /\ survivors' = survivors \cup Alive
  /\ IF registered
     THEN \E g \in Goroutines \ (survivors \cup Alive) :
            /\ worker' = [worker EXCEPT ![g] = "starting"]
            /\ closing' = closing \ {g} /\ aborted' = aborted \ {g}
     ELSE UNCHANGED <<worker, closing, aborted>>
  /\ UNCHANGED <<registered, state, quit, hand, channel, taken, got, late>> /\ Notifying

\* Stop closes the stop channel, which the runs in their select watch.
Stop ==
  /\ engine = "running" /\ Called
  /\ engine' = "stopping"
  /\ closing' = closing \cup {g \in Goroutines : worker[g] = "run" /\ hand[g] = 0}
  /\ UNCHANGED <<registered, state, quit, worker, hand, survivors, aborted, channel, taken, got, late>> /\ Notifying

StopReturns ==
  /\ engine = "stopping" /\ Alive = {}
  /\ engine' = "stopped"
  /\ UNCHANGED <<registered, state, quit, worker, hand, closing, survivors, aborted, channel, taken, got, late, calls>>
  /\ Notifying

\* Stop's own context ends first: the engine counts as stopped with runs left.
StopTimesOut ==
  /\ engine = "stopping" /\ Alive # {}
  /\ engine' = "stopped"
  /\ UNCHANGED <<registered, state, quit, worker, hand, closing, survivors, aborted, channel, taken, got, late, calls>>
  /\ Notifying

Pause ==
  /\ registered /\ Called
  /\ SetState("paused")
  /\ UNCHANGED <<registered, quit, worker, hand, closing, survivors, aborted, channel, taken, got, late, engine>> /\ Notifying

Resume ==
  /\ registered /\ Called
  /\ SetState("running")
  /\ UNCHANGED <<registered, quit, worker, hand, closing, survivors, aborted, channel, taken, got, late, engine>> /\ Notifying

Abort(g) ==
  /\ g \in Alive \ aborted /\ Called
  /\ aborted' = aborted \cup {g}
  /\ UNCHANGED <<registered, state, quit, worker, hand, closing, survivors, channel, taken, got, late, engine>> /\ Notifying

Unregister ==
  /\ registered /\ Called
  /\ registered' = FALSE /\ quit' = TRUE
  /\ UNCHANGED <<state, worker, hand, closing, survivors, aborted, channel, taken, got, late, engine>> /\ Notifying

-----------------------------------------------------------------------------
Notifier(n) == \/ \E k \in 1 .. 2 : AppendBatch(n, k)
               \/ ApplyInline(n) \/ InlineFails(n) \/ InlineDone(n) \/ NotifyLive(n) \/ DecryptFails(n)
               \/ TurnMissed(n) \/ Turn(n) \/ Send(n) \/ SendBreaks(n) \/ SendCancelled(n)
               \/ NotifyReturns(n) \/ Cancel(n)
Worker(g) == Receive(g) \/ Deliver(g) \/ RunLiveWorker(g) \/ StopSeen(g) \/ Drained(g) \/ Aborted(g) \/ Abort(g)

LiveNext ==
  \/ Start \/ Stop \/ StopReturns \/ StopTimesOut \/ Pause \/ Resume \/ Unregister
  \/ \E g \in Goroutines : Worker(g)
  \/ \E n \in Notifiers : Notifier(n)

LiveSpec == LiveInit /\ [][LiveNext]_liveVars

-----------------------------------------------------------------------------
(* Properties. *)

\* Every appended event is in one place: out of the channel, in it, in its
\* notifier's hands, named or counted in a log line as dropped, or dropped
\* without a word; and the last befalls only events whose notifying call lost
\* its context, or a projection that was unregistered. Nothing comes twice: each
\* event that left the channel was handed to OnEvent or is about to be. The
\* events of one notifier leave the channel in append order, through pauses,
\* stops and restarts, and reach OnEvent in it unless the engine was started
\* over a run that a timed-out Stop left behind.
\* Inline projections see a batch from its front and one after the other: what
\* a failure leaves out is the end of its batch, for the later projections.
EveryEventAccounted ==
  LET waiting == UNION {Range(todo[n]) : n \in Notifiers}
      inHand == {hand[g] : g \in Goroutines} \ {0}
      ordered(s) == \A i, j \in DOMAIN s : i < j /\ owner[s[i]].by = owner[s[j]].by => s[i] < s[j]
  IN /\ 1 .. next - 1 = Range(taken) \cup Range(channel) \cup waiting \cup lost \cup silent
     /\ Len(taken) + Len(channel) = Cardinality(Range(taken) \cup Range(channel))
     /\ (Range(taken) \cup Range(channel)) \cap (waiting \cup lost \cup silent) = {}
     /\ waiting \cap (lost \cup silent) = {} /\ lost \cap silent = {}
     /\ registered => silent \subseteq cancelled
     /\ Range(taken) = Range(got) \cup inHand /\ Range(got) \cap inHand = {}
     /\ ordered(taken) /\ (survivors = {} => ordered(got))
     /\ \A p \in InlineProjections :
          /\ p > 1 => applied[p] \subseteq applied[p - 1]
          /\ \A e \in applied[p] : owner[e].first .. e \subseteq applied[Inline] \cup {e}

\* When no run of the worker is left, nothing is in the channel that was there
\* while one ran, unless the last one lost its Start context; only a notifier
\* that read "running" before the stop can still fill the channel, and those
\* events wait, unlogged, for a restart.
StopDrains == Alive = {} => Range(channel) \subseteq late
=============================================================================
