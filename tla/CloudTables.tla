------------------------------ MODULE CloudTables ------------------------------
(***************************************************************************)
(* The tables of schema APP and what the body of each writer procedure     *)
(* reads from them and writes to them.  Snowflake enforces no uniqueness,  *)
(* so every table is a plain set of rows; that keys and slugs are unique   *)
(* is something the procedures achieve, not something the tables give.     *)
(*                                                                         *)
(* Everything here is a function of one state of the tables; who runs it,  *)
(* under which lock and with which crashes is the business of CloudSync.   *)
(*                                                                         *)
(* A definition marked "Fault" is no part of the model: it is a plausible  *)
(* mistake in the definition after it, which some property must catch.     *)
(***************************************************************************)
EXTENDS Naturals, FiniteSets

CONSTANTS
  Keys,        \* run ids of the roasting agent (cloud_roasts.idempotency_key)
  Slugs,       \* public slugs
  Ids,         \* roast ids: uuid_string(), or explicit in a seed artifact
  NoId,        \* the NULL cloud_roast_id of a tombstone without a row
  Groups,      \* (bean_origin, roast_level) pairs with both parts present
  NoGroup,     \* a pair with a NULL part
  Fields,      \* the patchable fields of a roast
  Consent,     \* the field contributed_to_learning
  Invalid,     \* a patch value its field does not admit
  MaxRevision, \* 2^53-1 in the code: the largest revision of a patch entry
  MaxSeq       \* 2^53-1 in the code: the largest write_seq

ASSUME TablesAssumption ==
  /\ NoId \notin Ids
  /\ NoGroup \notin Groups
  /\ Consent \in Fields
  /\ IsFiniteSet(Fields)
  /\ Invalid \notin BOOLEAN
  /\ MaxRevision \in Nat
  /\ MaxSeq \in Nat

-----------------------------------------------------------------------------
(* Rows.  The value of a patchable field is abstracted to one bit: the     *)
(* procedures compare values and never look inside an admissible one.      *)

Visibilities == {"private", "unlisted", "public"}

Roast == [id : Ids, key : Keys, slug : Slugs, visibility : Visibilities,
          group : Groups \cup {NoGroup}, value : [Fields -> BOOLEAN]]

Tombstone == [id : Ids \cup {NoId}, key : Keys, slug : Slugs, seq : Nat]

FieldRevision == [id : Ids, field : Fields, revision : Nat, seq : Nat]

\* A tasting review; its uuid is stood for by the write_seq of its insertion.
Review == [roast : Ids, seq : Nat]

\* A row of reference_roast_summaries: how many roasts and reviews it was
\* computed from, and how many of the roasts had temperatures to average.
Summary == [roasts : Nat, reviews : Nat, measured : Nat]

NoSummary == [roasts |-> "none"]

Tables ==
  [roasts : SUBSET Roast, tombstones : SUBSET Tombstone,
   revisions : SUBSET FieldRevision, reviews : SUBSET Review,
   telemetry : SUBSET Ids, artifacts : SUBSET Ids,
   summaries : [Groups -> Summary \cup {NoSummary}], seq : 0..MaxSeq]

EmptyTables ==
  [roasts |-> {}, tombstones |-> {}, revisions |-> {}, reviews |-> {},
   telemetry |-> {}, artifacts |-> {},
   summaries |-> [g \in Groups |-> NoSummary], seq |-> 0]

-----------------------------------------------------------------------------
(* Requests: what each procedure accepts once its pre-lock argument guards *)
(* have passed.  A refused argument touches nothing and is left out.       *)

CreateRequest == [op : {"create"}, key : Keys, slug : Slugs,
                  visibility : Visibilities, group : Groups \cup {NoGroup},
                  value : [Fields -> BOOLEAN]]

PatchEntry == [revision : 1..MaxRevision, value : BOOLEAN \cup {Invalid}]

PatchRequest ==
  [op : {"patch"}, key : Keys,
   fields : UNION {[F -> PatchEntry] : F \in (SUBSET Fields) \ {{}}}]

DeleteRequest == [op : {"delete"}, key : Keys, slug : Slugs]

LoadRequest == [op : {"load"}, key : Keys, id : Ids]

ReviewRequest == [op : {"review"}, slug : Slugs]

DistinctIdentities(rows) ==
  \A a, b \in rows : a.id = b.id \/ a.key = b.key \/ a.slug = b.slug => a = b

\* A seed artifact: its roasts; which of them its other tables have telemetry,
\* artifact and review rows for; and the groups of its summary rows, which
\* validate_artifact does not compare with those of its roasts.
SeedRequest ==
  {q \in [op : {"seed"}, rows : (SUBSET Roast) \ {{}}, measured : SUBSET Ids,
          filed : SUBSET Ids, reviewed : SUBSET Ids, groups : SUBSET Groups] :
     /\ IsFiniteSet(q.rows)
     /\ DistinctIdentities(q.rows)
     /\ q.measured \cup q.filed \cup q.reviewed \subseteq {r.id : r \in q.rows}}

Request == CreateRequest \cup PatchRequest \cup DeleteRequest
             \cup LoadRequest \cup ReviewRequest \cup SeedRequest

-----------------------------------------------------------------------------
(* Reading the tables.                                                     *)

RoastsByKey(d, k) == {r \in d.roasts : r.key = k}
RoastsBySlug(d, g) == {r \in d.roasts : r.slug = g}
TombstonedKey(d, k) == \E t \in d.tombstones : t.key = k
TombstonedSlug(d, g) == \E t \in d.tombstones : t.slug = g
TombstonedId(d, i) == \E t \in d.tombstones : t.id = i

RevisionsOf(d, i) == {v \in d.revisions : v.id = i}

\* Exactly one revision row for each known field.
RevisionsIntact(d, i) ==
  \A f \in Fields : \E v \in d.revisions :
     {w \in RevisionsOf(d, i) : w.field = f} = {v}

StoredRevision(d, i, f) ==
  (CHOOSE v \in d.revisions : v.id = i /\ v.field = f).revision

\* The roasts that recompute_reference_summary may read for a group.
Contributing(d, g) == {r \in d.roasts : r.group = g /\ r.value[Consent]}

\* What recompute_reference_summary writes for group g.
Aggregate(d, g) ==
  LET ids == {r.id : r \in Contributing(d, g)}
  IN  [roasts   |-> Cardinality(Contributing(d, g)),
       reviews  |-> Cardinality({v \in d.reviews : v.roast \in ids}),
       measured |-> Cardinality(ids \cap d.telemetry)]

-----------------------------------------------------------------------------
(* upsert_roast, creation.                                                 *)

\* Fault: the tombstone check of a creation looks at the run id alone.
CreateAdmittedDespiteDeadSlug(d, q) ==
  /\ ~TombstonedKey(d, q.key)
  /\ RoastsByKey(d, q.key) = {}
  /\ RoastsBySlug(d, q.slug) = {}

CreateAdmitted(d, q) ==
  /\ ~TombstonedKey(d, q.key)
  /\ ~TombstonedSlug(d, q.slug)
  /\ RoastsByKey(d, q.key) = {}
  /\ RoastsBySlug(d, q.slug) = {}

\* The rows (accepted_revision 0) that a new roast's fields start from.
FirstRevisions(i, seq) ==
  {[id |-> i, field |-> f, revision |-> 0, seq |-> seq] : f \in Fields}

CreatedRow(q, i) ==
  [id |-> i, key |-> q.key, slug |-> q.slug, visibility |-> q.visibility,
   group |-> q.group, value |-> q.value]

Created(d, q, i) ==
  [d EXCEPT !.roasts = @ \cup {CreatedRow(q, i)},
            !.revisions = @ \cup FirstRevisions(i, d.seq),
            !.artifacts = @ \cup {i}]

\* A replay of a creation whose row r is there: read and answered, never
\* written.  The stored slug is what is checked and returned.
ReplayAdmitted(d, q, r) ==
  /\ ~TombstonedKey(d, q.key)
  /\ ~TombstonedSlug(d, q.slug)
  /\ RoastsByKey(d, q.key) = {r}
  /\ ~TombstonedId(d, r.id)
  /\ ~TombstonedSlug(d, r.slug)
  /\ RevisionsIntact(d, r.id)
  /\ q.visibility = r.visibility
  /\ RoastsBySlug(d, r.slug) = {r}

-----------------------------------------------------------------------------
(* upsert_roast, field patch.                                              *)

PatchAdmitted(d, q, r) ==
  /\ ~TombstonedKey(d, q.key)
  /\ RoastsByKey(d, q.key) = {r}
  /\ ~TombstonedId(d, r.id)
  /\ ~TombstonedSlug(d, r.slug)
  /\ RevisionsIntact(d, r.id)

\* Fault: an equal revision is applied again.
OutcomeLastWriterWins(entry, stored, current) ==
  IF entry.value = Invalid THEN "rejected_value"
  ELSE IF entry.revision >= stored THEN "applied" ELSE "stale"

\* Fault: an equal revision is taken for a retry without comparing values.
OutcomeByRevisionAlone(entry, stored, current) ==
  IF entry.value = Invalid THEN "rejected_value"
  ELSE CASE entry.revision > stored -> "applied"
         [] entry.revision = stored -> "already_applied"
         [] entry.revision < stored -> "stale"

\* What is answered for one entry of a patch, given the stored revision and
\* value of its field.
Outcome(entry, stored, current) ==
  IF entry.value = Invalid
    THEN "rejected_value"
    ELSE CASE entry.revision > stored -> "applied"
           [] entry.revision = stored /\ entry.value = current -> "already_applied"
           [] entry.revision = stored /\ entry.value # current -> "revision_conflict"
           [] entry.revision < stored -> "stale"

OutcomeOf(d, q, r, f) ==
  Outcome(q.fields[f], StoredRevision(d, r.id, f), r.value[f])

AppliedFields(d, q, r) ==
  {f \in DOMAIN q.fields : OutcomeOf(d, q, r, f) = "applied"}

PatchedRow(q, r, applied) ==
  [r EXCEPT !.value =
     [f \in Fields |-> IF f \in applied THEN q.fields[f].value ELSE @[f]]]

\* Fault: the value is stored and its revision is not.
PatchedRevisionForgotten(q, r, applied, seq, v) == v

PatchedRevision(q, r, applied, seq, v) ==
  IF v.id = r.id /\ v.field \in applied
    THEN [v EXCEPT !.revision = q.fields[v.field].revision, !.seq = seq]
    ELSE v

Patched(d, q, r) ==
  LET applied == AppliedFields(d, q, r)
  IN  [d EXCEPT
         !.roasts = (@ \ {r}) \cup {PatchedRow(q, r, applied)},
         !.revisions = {PatchedRevision(q, r, applied, d.seq, v) : v \in @}]

\* Fault: a withdrawn consent does not reach the summary.
PatchTouchesNothing(d, q, r) == {}

\* Only a change of consent changes what the group's summary is made of.
PatchTouches(d, q, r) ==
  IF Consent \in AppliedFields(d, q, r) THEN {r.group} ELSE {}

-----------------------------------------------------------------------------
(* delete_roast.                                                           *)

DeleteLiveAdmitted(d, q, r) ==
  /\ ~TombstonedKey(d, q.key)
  /\ ~TombstonedSlug(d, q.slug)
  /\ RoastsByKey(d, q.key) = {r}
  /\ r.slug = q.slug
  /\ RoastsBySlug(d, q.slug) = {r}
  /\ ~TombstonedId(d, r.id)

\* Fault: a slug that a live roast uses is tombstoned with another run id.
DeleteAbsentAdmittedAnySlug(d, q) ==
  /\ ~TombstonedKey(d, q.key)
  /\ ~TombstonedSlug(d, q.slug)
  /\ RoastsByKey(d, q.key) = {}

DeleteAbsentAdmitted(d, q) ==
  /\ ~TombstonedKey(d, q.key)
  /\ ~TombstonedSlug(d, q.slug)
  /\ RoastsByKey(d, q.key) = {}
  /\ RoastsBySlug(d, q.slug) = {}

\* The pair was deleted before, as this same pair, and left no row behind.
DeleteAgainAdmitted(d, q, t) ==
  /\ {u \in d.tombstones : u.key = q.key} = {t}
  /\ {u \in d.tombstones : u.slug = q.slug} = {t}
  /\ RoastsByKey(d, q.key) = {}
  /\ RoastsBySlug(d, q.slug) = {}

\* Fault: the tombstone carries the sequence after its own.
TombstoneForNext(q, i, seq) ==
  [id |-> i, key |-> q.key, slug |-> q.slug, seq |-> seq + 1]

TombstoneFor(q, i, seq) ==
  [id |-> i, key |-> q.key, slug |-> q.slug, seq |-> seq]

\* Fault: the cascade forgets the revision rows, which no key ties to a roast.
DeletedLeavingRevisions(d, q, r) ==
  [d EXCEPT !.tombstones = @ \cup {TombstoneFor(q, r.id, d.seq)},
            !.reviews = {v \in @ : v.roast # r.id},
            !.telemetry = @ \ {r.id},
            !.artifacts = @ \ {r.id},
            !.roasts = @ \ {r}]

\* Fault: the roast is deleted and nothing remembers that it was.
DeletedWithoutTombstone(d, q, r) ==
  [d EXCEPT !.reviews = {v \in @ : v.roast # r.id},
            !.telemetry = @ \ {r.id},
            !.artifacts = @ \ {r.id},
            !.revisions = {v \in @ : v.id # r.id},
            !.roasts = @ \ {r}]

Deleted(d, q, r) ==
  [d EXCEPT !.tombstones = @ \cup {TombstoneFor(q, r.id, d.seq)},
            !.reviews = {v \in @ : v.roast # r.id},
            !.telemetry = @ \ {r.id},
            !.artifacts = @ \ {r.id},
            !.revisions = {v \in @ : v.id # r.id},
            !.roasts = @ \ {r}]

TombstonedWithoutRow(d, q) ==
  [d EXCEPT !.tombstones = @ \cup {TombstoneFor(q, NoId, d.seq)}]

-----------------------------------------------------------------------------
(* load_roast_telemetry, submit_review and the seed loader.                *)

\* Fault: the run id and the roast id are not checked against each other.
LoadAdmittedUnbound(d, q, r, staged) ==
  /\ ~TombstonedKey(d, q.key)
  /\ ~TombstonedId(d, q.id)
  /\ RoastsByKey(d, q.key) = {r}
  /\ q.key \in staged

\* staged: the run ids whose roast.jsonl on the stage holds telemetry.
LoadAdmitted(d, q, r, staged) ==
  /\ ~TombstonedKey(d, q.key)
  /\ ~TombstonedId(d, q.id)
  /\ RoastsByKey(d, q.key) = {r}
  /\ r.id = q.id
  /\ q.key \in staged

\* Fault: the old rows are deleted after the new ones were inserted.
LoadedThenCleared(d, q) == [d EXCEPT !.telemetry = @ \ {q.id}]

Loaded(d, q) == [d EXCEPT !.telemetry = @ \cup {q.id}]

ReviewAdmitted(d, q, r) ==
  /\ ~TombstonedSlug(d, q.slug)
  /\ {x \in RoastsBySlug(d, q.slug) : x.visibility # "private"} = {r}

Reviewed(d, r) ==
  [d EXCEPT !.reviews = @ \cup {[roast |-> r.id, seq |-> d.seq]}]

\* None of the artifact's identities is in any table, dead or alive.
SeedAdmitted(d, q) ==
  \A r \in q.rows :
    /\ \A x \in d.roasts : x.id # r.id /\ x.key # r.key /\ x.slug # r.slug
    /\ \A t \in d.tombstones : t.id # r.id /\ t.key # r.key /\ t.slug # r.slug
    /\ RevisionsOf(d, r.id) = {}
    /\ r.id \notin d.telemetry \cup d.artifacts
    /\ \A v \in d.reviews : v.roast # r.id

Seeded(d, q) ==
  LET ids == {r.id : r \in q.rows}
  IN  [d EXCEPT !.roasts = @ \cup q.rows,
                !.telemetry = @ \cup q.measured,
                !.artifacts = @ \cup q.filed,
                !.reviews = @ \cup {[roast |-> i, seq |-> d.seq] : i \in q.reviewed},
                !.revisions = @ \cup UNION {FirstRevisions(i, d.seq) : i \in ids}]

\* The loader recomputes the groups that the artifact lists.  (The summary rows
\* it merges before that are overwritten in the same transaction.)
SeedTouches(q) == q.groups

\* The artifact brings roasts that count for g, and does not list g.
SeedPassesOver(q, g) ==
  /\ q.op = "seed"
  /\ g \notin q.groups
  /\ \E r \in q.rows : r.group = g /\ r.value[Consent]

-----------------------------------------------------------------------------
(* recompute_reference_summary, after its nested cloud_sync_enter.         *)

Recomputed(d, g) ==
  IF g = NoGroup THEN d ELSE [d EXCEPT !.summaries[g] = Aggregate(d, g)]

================================================================================
