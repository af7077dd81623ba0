------------------------------ MODULE Retention ------------------------------
(***************************************************************************)
(* RetentionManager: a sweep runs from its checkpoint over the events,     *)
(* collects the keys of the Shred policies and calls the Apply hooks of    *)
(* the others, guards the keys by a scan of the whole store, revokes them  *)
(* and moves the checkpoint to the frontier below which all is settled.    *)
(* Age is the set of the events that are past the maximum age; a sweep     *)
(* works with the ages of the moment it began.                             *)
(***************************************************************************)
EXTENDS SubjectExport

VARIABLES sw,          \* the sweep under way
          checkpoint, aged,
          applied,     \* <<policy, event>>: Apply hooks that ran
          strays       \* keys revoked although they protect events out of scope

retentionVars == <<sw, checkpoint, aged, applied, strays>>

NoSweep ==
  [pc |-> "idle", dry |-> FALSE, start |-> 0, pos |-> 0, frontier |-> 0, frozen |-> FALSE,
   now |-> {}, cand |-> {}, todo |-> {}, revoked |-> {}, outside |-> {}]

RetainInit == sw = NoSweep /\ checkpoint = 0 /\ aged = {} /\ applied = {} /\ strays = {}

-----------------------------------------------------------------------------
(* Policies: [streams, aged (MaxAge is set), action, scoped]. *)

\* An unscoped policy is reported and left out.
active == {p \in option.policies : p.scoped}
matchesStatic(p, e) == e.stream \in p.streams
ageEligible(p, i, now) == p.aged => i \in now
coveredByShred(i, now) ==
  \E p \in active : p.action = "shred" /\ matchesStatic(p, events[i]) /\ ageEligible(p, i, now)

\* A key's candidates remember the frontier before the first of them.
Candidates == {c[1] : c \in sw.cand}

\* Mutant: a key that stays live does not hold the frontier back.
settledAnyway(cand, frontier) == frontier

\* shredCandidates.settled, and the clamp after the revocation.
settled(cand, frontier) == LeastOf({frontier} \cup {c[2] : c \in cand})

-----------------------------------------------------------------------------

Grow(i) ==
  /\ i \notin aged /\ option.policies # {}
  /\ aged' = aged \cup {i}
  /\ UNCHANGED <<sw, checkpoint, applied, strays>>
  /\ UNCHANGED exportVars /\ UNCHANGED erasureVars /\ UNCHANGED data

Sweep(dry) ==
  /\ sw.pc = "idle" /\ option.policies # {}
  /\ LET from == IF option.checkpoint THEN checkpoint ELSE 0
     IN sw' = [NoSweep EXCEPT !.pc = "scan", !.dry = dry, !.start = from, !.pos = from,
                              !.frontier = from, !.now = aged,
                              !.outside = KeysOf({i \in DOMAIN events : ~coveredByShred(i, aged)})]
  /\ UNCHANGED <<checkpoint, aged, applied, strays>>
  /\ UNCHANGED exportVars /\ UNCHANGED erasureVars /\ UNCHANGED data

\* One event of the scan. Matching a policy it is too young for freezes the frontier.
\* A capped sweep stops when its resume point is sure to move. Each Apply hook that is
\* due runs, or fails, by itself.
ScanStep(failing) ==
  LET i == sw.pos + 1
      match == {p \in active : matchesStatic(p, events[i])}
      due == {p \in match : ageEligible(p, i, sw.now)}
      hooks == {p \in due : p.action = "apply" /\ ~sw.dry}
      key == events[i].key
      shreds == (\E p \in due : p.action = "shred") /\ HasEncryptionEnvelope(events[i])
      cand == IF shreds /\ key \notin Candidates THEN sw.cand \cup {<<key, sw.frontier>>} ELSE sw.cand
      frozen == sw.frozen \/ match # due
      frontier == IF frozen THEN sw.frontier ELSE i
      truncated == option.capped /\ option.checkpoint /\ settled(cand, frontier) > sw.start
  IN /\ sw.pc = "scan" /\ i \in DOMAIN events
     /\ sw' = [sw EXCEPT !.pos = i, !.cand = cand, !.frozen = frozen, !.frontier = frontier,
                         !.pc = IF truncated THEN "guard" ELSE "scan"]
     /\ failing \subseteq hooks
     /\ applied' = applied \cup {<<p, i>> : p \in hooks \ failing}
     /\ UNCHANGED <<checkpoint, aged, strays>>
     /\ UNCHANGED exportVars /\ UNCHANGED erasureVars

Scan == ScanStep({}) /\ UNCHANGED data

\* A failing Apply hook is reported; the other hooks run and the frontier moves on.
ApplyFails ==
  /\ \E failing \in SUBSET active \ {{}} : ScanStep(failing)
  /\ Fault
  /\ UNCHANGED <<option, events, keys, index, rows, writer, appends, restored>>

ScanEnds ==
  /\ sw.pc = "scan" /\ sw.pos + 1 \notin DOMAIN events
  /\ sw' = [sw EXCEPT !.pc = "guard"]
  /\ UNCHANGED <<checkpoint, aged, applied, strays>>
  /\ UNCHANGED exportVars /\ UNCHANGED erasureVars /\ UNCHANGED data

\* Mutant: the guard looks at what the sweep looked at.
OutOfScopeSinceCheckpoint(k) ==
  \E i \in DOMAIN events : i > sw.start /\ events[i].key = k /\ ~coveredByShred(i, sw.now)

\* tallyOutOfScopeKeys: the key protects an event no Shred policy covers by now.
OutOfScope(k) == \E i \in DOMAIN events : events[i].key = k /\ ~coveredByShred(i, sw.now)

guardSharedKeys ==
  /\ sw.pc = "guard"
  /\ sw' = [sw EXCEPT !.pc = "revoke",
                      !.todo = IF sw.dry THEN {} ELSE {k \in Candidates : ~OutOfScope(k)}]
  /\ UNCHANGED <<checkpoint, aged, applied, strays>>
  /\ UNCHANGED exportVars /\ UNCHANGED erasureVars /\ UNCHANGED data

SweepRevokes(k) ==
  /\ sw.pc = "revoke" /\ k \in sw.todo /\ Revocable(option.provider)
  /\ keys' = [keys EXCEPT ![k] = Revoke(option.provider, @)]
  /\ sw' = [sw EXCEPT !.todo = @ \ {k}, !.revoked = @ \cup {k}]
  /\ strays' = strays \cup ({k} \cap sw.outside)
  /\ UNCHANGED <<checkpoint, aged, applied>>
  /\ UNCHANGED <<option, events, index, rows, writer, appends, faults, restored>>
  /\ UNCHANGED exportVars /\ UNCHANGED erasureVars

SweepRevokeFails(k) ==
  /\ sw.pc = "revoke" /\ k \in sw.todo
  /\ IF Revocable(option.provider) THEN Fault ELSE UNCHANGED faults
  /\ sw' = [sw EXCEPT !.todo = @ \ {k}]
  /\ UNCHANGED <<checkpoint, aged, applied, strays>>
  /\ UNCHANGED <<option, events, keys, index, rows, writer, appends, restored>>
  /\ UNCHANGED exportVars /\ UNCHANGED erasureVars

\* The matches of a key that was not revoked are swept again.
Settle ==
  LET frontier == settled({c \in sw.cand : c[1] \notin sw.revoked}, sw.frontier)
  IN /\ sw.pc = "revoke" /\ sw.todo = {}
     /\ checkpoint' = IF option.checkpoint /\ ~sw.dry /\ frontier > sw.start THEN frontier
                      ELSE checkpoint
     /\ sw' = NoSweep
     /\ UNCHANGED <<aged, applied, strays>>
     /\ UNCHANGED exportVars /\ UNCHANGED erasureVars /\ UNCHANGED data

\* A lost checkpoint write, or a crash: the range is swept again.
SweepDies ==
  /\ sw.pc # "idle" /\ Fault /\ sw' = NoSweep
  /\ UNCHANGED <<checkpoint, aged, applied, strays>>
  /\ UNCHANGED <<option, events, keys, index, rows, writer, appends, restored>>
  /\ UNCHANGED exportVars /\ UNCHANGED erasureVars

RetainNext ==
  \/ \E i \in DOMAIN events : Grow(i)
  \/ \E dry \in BOOLEAN : Sweep(dry)
  \/ Scan \/ ApplyFails \/ ScanEnds \/ guardSharedKeys
  \/ \E k \in KeyIDs : SweepRevokes(k) \/ SweepRevokeFails(k)
  \/ Settle \/ SweepDies

-----------------------------------------------------------------------------

\* What lies behind the checkpoint is settled: an event there that a Shred policy
\* matches and that was sealed when it was swept has lost its key, unless an
\* administrator restored it. So a sweep that starts at the checkpoint misses nothing,
\* whatever failed, was refused, was too young or crashed before.
SettledIsShredded ==
  \A i \in DOMAIN events :
    (/\ i <= checkpoint /\ HasEncryptionEnvelope(events[i]) /\ ~events[i].rewritten
     /\ \E p \in active : p.action = "shred" /\ matchesStatic(p, events[i])) =>
      keys[events[i].key] \in {"soft", "gone"} \/ events[i].key \in restored

\* The blast-radius guard: no sweep revokes a key that protected, when it began, an
\* event no Shred policy covered, even one far behind the checkpoint it started from.
OutOfScopeKept == strays = {}
=============================================================================
