------------------------------ MODULE EventLog ------------------------------
(***************************************************************************)
(* What every event store adapter promises to its callers (the contract of *)
(* adapters.EventStoreAdapter.Append): a set of streams, each an           *)
(* append-only log, to which a client appends a batch atomically and only  *)
(* if the version it expects holds at the instant the batch takes effect.  *)
(* An append may also fail, and a failed append leaves the log alone.      *)
(*                                                                         *)
(* An event is represented by the client that appended it: the contract    *)
(* does not look at payloads.                                              *)
(***************************************************************************)
EXTENDS ExpectedVersion, Sequences

CONSTANTS
  Streams,      \* stream ids
  Clients,      \* goroutines that call Append
  Existing,     \* the streams that already hold one event
  Genesis,      \* the author of the events that were there at the start
  Calls         \* the Append calls clients make: [stream, expected, n]

VARIABLES
  log,          \* log[s]: the authors of the events of stream s, by version
  call          \* call[c]: the Append in progress of client c, or NoCall

vars == <<log, call>>

NoCall == [stream |-> Genesis, expected |-> 0, n |-> 0]

Init ==
  /\ log = [s \in Streams |-> IF s \in Existing THEN <<Genesis>> ELSE << >>]
  /\ call = [c \in Clients |-> NoCall]

(* A client calls Append with a batch of r.n events. *)
Submit(c, r) ==
  /\ call[c] = NoCall
  /\ call' = [call EXCEPT ![c] = r]
  /\ UNCHANGED log

(* The batch takes effect, all of it, against a log that passes the check. *)
Apply(c) ==
  LET r == call[c] IN
  /\ r # NoCall
  /\ CheckVersion(r.expected, Len(log[r.stream]), log[r.stream] # << >>)
  /\ log' = [log EXCEPT ![r.stream] = @ \o [i \in 1 .. r.n |-> c]]
  /\ call' = [call EXCEPT ![c] = NoCall]

(* Append returns an error (a conflict, a lost connection): nothing changed. *)
Fail(c) ==
  /\ call[c] # NoCall
  /\ call' = [call EXCEPT ![c] = NoCall]
  /\ UNCHANGED log

Next == \E c \in Clients : (\E r \in Calls : Submit(c, r)) \/ Apply(c) \/ Fail(c)

Spec == Init /\ [][Next]_vars
=============================================================================
