------------------------------ MODULE FieldSeal ------------------------------
(***************************************************************************)
(* Field encryption of one event (encryption.go). A document is a function *)
(* from the paths of its nodes to the nodes: objects, texts (any scalar or *)
(* array), nulls, and sealed fields, which hold what they replaced and the *)
(* path they are bound to. With a node the document has all its parents.   *)
(* A path is a sequence of segments.                                       *)
(***************************************************************************)
EXTENDS Naturals, Sequences, SequencesExt

Node(kind) == [kind |-> kind]
Parents(p) == [k \in 1 .. Len(p) - 1 |-> SubSeq(p, 1, k)]
Below(d, p) == [q \in {q \in DOMAIN d : IsPrefix(p, q)} |-> d[q]]

\* The depths at which a parent of p is not an object.
Blocks(d, p) == {k \in DOMAIN Parents(p) : Parents(p)[k] \notin DOMAIN d \/ d[Parents(p)[k]] # Node("object")}

-----------------------------------------------------------------------------
(* Configuration. *)

WithEncryptedFields(listed) ==
  FoldLeft(LAMBDA known, p : IF Contains(known, p) THEN known ELSE Append(known, p), <<>>, listed)

validateFieldPath(p) == p # <<>> /\ \A i \in DOMAIN p : p[i] # ""

fieldDepth(p) == Len(p)
MaxDepth(paths) == FoldLeft(LAMBDA n, p : IF fieldDepth(p) > n THEN fieldDepth(p) ELSE n, 0, paths)

\* Mutant: the configured order is kept.
configuredOrder(paths, deepestFirst) == paths

\* A stable sort by depth.
orderByDepth(paths, deepestFirst) ==
  LET n == MaxDepth(paths)
      of(k) == SelectSeq(paths, LAMBDA p : fieldDepth(p) = k)
  IN FlattenSeq([k \in 1 .. n |-> of(IF deepestFirst THEN n + 1 - k ELSE k)])

sealPaths(paths) == orderByDepth(paths, TRUE)
unsealOrder(recorded) == orderByDepth(recorded, FALSE)

-----------------------------------------------------------------------------
(* Sealing: a field that is absent, or in an object that is absent or null, *)
(* is left out; a parent of another shape is an error.                      *)

fieldAAD(p) == p

encryptJSONField(d, p) ==
  LET blocks == Blocks(d, p)
      first == Parents(p)[Min(blocks)]
      optional == IF blocks = {} THEN p \notin DOMAIN d
                  ELSE first \notin DOMAIN d \/ d[first] = Node("null")
      sealed == [kind |-> "sealed", aad |-> fieldAAD(p), of |-> Below(d, p)]
  IN CASE optional -> [did |-> "nothing", doc |-> d]
       [] ~optional /\ blocks # {} -> [did |-> "error", doc |-> d]
       [] OTHER -> [did |-> "seal",
                    doc |-> [q \in {q \in DOMAIN d : ~IsStrictPrefix(p, q)} |->
                               IF q = p THEN sealed ELSE d[q]]]

SealNext(s, p) ==
  LET r == encryptJSONField(s.doc, p)
  IN IF ~s.ok THEN s
     ELSE [ok |-> r.did # "error", doc |-> r.doc,
           fields |-> IF r.did = "seal" THEN Append(s.fields, p) ELSE s.fields]

\* finalize reports an invalid path before anything is sealed.
sealFields(listed, d) ==
  LET paths == WithEncryptedFields(listed)
  IN FoldLeft(SealNext, [ok |-> \A i \in DOMAIN paths : validateFieldPath(paths[i]), doc |-> d, fields |-> <<>>],
              sealPaths(paths))

-----------------------------------------------------------------------------
(* Unsealing: a recorded field must be there, sealed, and bound to its path *)
(* or, as earlier versions did, to its last segment.                        *)

decryptFieldValue(v, p) == v.aad \in {fieldAAD(p), <<Last(p)>>}

decryptJSONField(d, p) ==
  IF /\ Blocks(d, p) = {} /\ p \in DOMAIN d
     /\ d[p].kind = "sealed" /\ decryptFieldValue(d[p], p)
  THEN [ok |-> TRUE, doc |-> [q \in DOMAIN d \cup DOMAIN d[p].of |->
                                IF q \in DOMAIN d[p].of THEN d[p].of[q] ELSE d[q]]]
  ELSE [ok |-> FALSE, doc |-> d]

UnsealNext(s, p) == IF s.ok THEN decryptJSONField(s.doc, p) ELSE s
unsealFields(recorded, d) == FoldLeft(UnsealNext, [ok |-> TRUE, doc |-> d], unsealOrder(recorded))

-----------------------------------------------------------------------------

\* The configuration fits the document: no path runs through anything but objects.
Fits(listed, d) ==
  \A i \in DOMAIN listed :
    /\ validateFieldPath(listed[i])
    /\ \A k \in DOMAIN Parents(listed[i]) :
         LET q == Parents(listed[i])[k] IN q \in DOMAIN d => d[q].kind \in {"object", "null"}

Hidden(d, p) == p \in DOMAIN d => d[p].kind = "sealed"

RoundTrips(listed, d) ==
  LET e == sealFields(listed, d)
  IN /\ e.ok <=> Fits(listed, d)
     /\ e.ok => /\ unsealFields(e.fields, e.doc) = [ok |-> TRUE, doc |-> d]
                /\ \A i \in DOMAIN listed : Hidden(e.doc, listed[i])
=============================================================================
