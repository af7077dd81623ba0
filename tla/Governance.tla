----------------------------- MODULE Governance -----------------------------
(***************************************************************************)
(* Writers, administrators of keys, erasures, exports and retention sweeps *)
(* on one store.                                                           *)
(***************************************************************************)
EXTENDS Retention

vars == <<data, erasureVars, exportVars, retentionVars>>

Init == DataInit /\ EraseInit /\ ExportInit /\ RetainInit

Next ==
  \/ DataNext /\ UNCHANGED <<erasureVars, exportVars, retentionVars>>
  \/ EraseNext /\ UNCHANGED <<exportVars, retentionVars>>
  \/ ExportNext /\ UNCHANGED retentionVars
  \/ RetainNext

\* An append and an erasure under way go on, and whoever asked for an erasure asks
\* again, as the documentation of strict accountability tells them to.
Fairness ==
  /\ WF_vars((Store \/ writeSubjectIndex) /\ UNCHANGED <<erasureVars, exportVars, retentionVars>>)
  /\ WF_vars(Erase /\ UNCHANGED <<exportVars, retentionVars>>)

Spec == Init /\ [][Next]_vars /\ Fairness

\* The setups in which nothing stands in the way of a complete erasure.
Convergent ==
  /\ option.resolver = "scan" /\ option.tagger /\ option.perSubject /\ option.provider = "local"
  /\ option.requests = {"subject"} /\ option.policies = {} /\ ~option.upkeep
  /\ option.legacy \cup option.unpurged = {}
  /\ \A in \in option.inputs \cup Range(option.history) : in.pii /\ in.tagging /\ Len(in.subj) = 1
  /\ \A in, other \in option.inputs \cup Range(option.history) :
       in.stream = other.stream => in.subj = other.subj

\* Erase is idempotent and may be repeated: whatever calls failed or whoever died on
\* the way, running it again ends with a verified certificate for every event about the
\* subject, those appended during the earlier runs included.
RerunsConverge ==
  Convergent => <>[](\A i \in DOMAIN events, sub \in option.targets :
                       Names(events[i], sub) => i \in certified)

\* Field encryption loses nothing and hides what it was told to hide: however the
\* configured paths overlap and in whatever order they are listed, an event whose
\* shape fits them is read back as it was, its configured fields are sealed where it
\* is stored, and only an event that does not fit is refused.
FieldsRoundTrip == \A listed \in option.fields, d \in option.documents : RoundTrips(listed, d)
=============================================================================
