------------------------ MODULE CloudHistory_proofs -------------------------
(***************************************************************************)
(* What the commits of all writers together amount to, for any sessions,   *)
(* calls and limits.  First, what one body does to the tables it finds, as *)
(* a relation between those tables, the request, and the tables, groups    *)
(* and answer it leaves; and what every such effect keeps: revision rows,  *)
(* the order of the sequences, the summaries it does not touch, what       *)
(* earlier answers said, and what it says itself.  Then the history: the   *)
(* invariant HInv, on top of IInv, says that what a writer has built since *)
(* it left its body is what the body of its request does to the tables as  *)
(* they are committed now (OneEffect); so a commit is one effect, and what *)
(* every effect keeps, the history keeps.                                  *)
(*                                                                         *)
(* Last, the refinement: the write plane implements RoastLedger.  Under    *)
(* the mapping that reads a run's entry off the tables (LedgerEntry), the  *)
(* first tables map to an initial ledger, and every commit, being one      *)
(* effect on the tables before it, maps to one step of the ledger or to    *)
(* none.                                                                   *)
(***************************************************************************)
EXTENDS CloudSync_proofs

\* d and e hold the same rows; their summaries and sequences may differ.
SameRows(d, e) ==
  /\ d.roasts = e.roasts
  /\ d.tombstones = e.tombstones
  /\ d.revisions = e.revisions
  /\ d.reviews = e.reviews
  /\ d.telemetry = e.telemetry
  /\ d.artifacts = e.artifacts

\* The body of q, run on d, leaves the rows of e, the groups G to recompute
\* and the answer a.
Effect(d, q, e, G, a) ==
  \/ \E i \in Ids :
       /\ q.op = "create"
       /\ CreateAdmitted(d, q)
       /\ \A r \in d.roasts : r.id # i
       /\ ~TombstonedId(d, i)
       /\ SameRows(e, Created(d, q, i))
       /\ G = {q.group}
       /\ a = CreatedReply(q.key, i, q.slug)
  \/ \E r \in d.roasts :
       /\ q.op = "create"
       /\ ReplayAdmitted(d, q, r)
       /\ SameRows(e, d)
       /\ G = {}
       /\ a = CreatedReply(q.key, r.id, r.slug)
  \/ \E r \in d.roasts :
       /\ q.op = "patch"
       /\ PatchAdmitted(d, q, r)
       /\ SameRows(e, Patched(d, q, r))
       /\ G = PatchTouches(d, q, r)
       /\ a = [kind |-> "patched", key |-> q.key, id |-> r.id,
               fields |-> [f \in DOMAIN q.fields |-> PatchAnswer(d, q, r, f)]]
  \/ \E r \in d.roasts :
       /\ q.op = "delete"
       /\ DeleteLiveAdmitted(d, q, r)
       /\ SameRows(e, Deleted(d, q, r))
       /\ G = {r.group}
       /\ a = DeleteReply(q, d.seq)
  \/ /\ q.op = "delete"
     /\ DeleteAbsentAdmitted(d, q)
     /\ SameRows(e, TombstonedWithoutRow(d, q))
     /\ G = {}
     /\ a = DeleteReply(q, d.seq)
  \/ \E t \in d.tombstones :
       /\ q.op = "delete"
       /\ DeleteAgainAdmitted(d, q, t)
       /\ SameRows(e, d)
       /\ G = {}
       /\ a = DeleteReply(q, t.seq)
  \/ \E r \in d.roasts :
       /\ q.op = "load"
       /\ LoadAdmitted(d, q, r, Keys)
       /\ SameRows(e, Loaded(d, q))
       /\ G = {r.group}
       /\ a = [kind |-> "loaded", key |-> q.key, id |-> q.id]
  \/ \E r \in d.roasts :
       /\ q.op = "review"
       /\ ReviewAdmitted(d, q, r)
       /\ SameRows(e, Reviewed(d, r))
       /\ G = {r.group}
       /\ a = [kind |-> "reviewed", slug |-> q.slug, seq |-> d.seq]
  \/ /\ q.op = "seed"
     /\ SeedAdmitted(d, q)
     /\ SameRows(e, Seeded(d, q))
     /\ G = SeedTouches(q)
     /\ a = [kind |-> "seeded", keys |-> {r.key : r \in q.rows}]

-----------------------------------------------------------------------------
(* The kinds of change that an effect can be.                              *)

NewIdentities(d, R) ==
  /\ R \subseteq Roast
  /\ DistinctIdentities(R)
  /\ \A r \in R :
       /\ \A x \in d.roasts : x.id # r.id /\ x.key # r.key /\ x.slug # r.slug
       /\ \A t \in d.tombstones : t.id # r.id /\ t.key # r.key /\ t.slug # r.slug

\* The rows R, of identities never seen before, appear with first revisions.
Publishes(d, e, R) ==
  /\ R # {}
  /\ NewIdentities(d, R)
  /\ e.roasts = d.roasts \cup R
  /\ e.tombstones = d.tombstones
  /\ e.revisions = d.revisions \cup UNION {FirstRevisions(r.id, d.seq) : r \in R}
  /\ d.telemetry \subseteq e.telemetry
  /\ d.reviews \subseteq e.reviews

Revises(d, q, e, r) ==
  /\ r \in d.roasts
  /\ q \in PatchRequest
  /\ PatchAdmitted(d, q, r)
  /\ SameRows(e, Patched(d, q, r))

Buries(d, q, e, r) ==
  /\ r \in d.roasts
  /\ q \in DeleteRequest
  /\ DeleteLiveAdmitted(d, q, r)
  /\ SameRows(e, Deleted(d, q, r))

Forbids(d, q, e) ==
  /\ q \in DeleteRequest
  /\ DeleteAbsentAdmitted(d, q)
  /\ SameRows(e, TombstonedWithoutRow(d, q))

\* At most reviews and telemetry appear.
Attends(d, e) ==
  /\ e.roasts = d.roasts
  /\ e.tombstones = d.tombstones
  /\ e.revisions = d.revisions
  /\ d.telemetry \subseteq e.telemetry
  /\ d.reviews \subseteq e.reviews

-----------------------------------------------------------------------------
(* What an effect keeps.                                                   *)

\* What a committed roast must go through to be told of by e: it is there with
\* its identity, its children and registers no older, or it is buried.
Survives(d, e, r) ==
  \/ \E t \in e.tombstones : t.id = r.id /\ t.key = r.key /\ t.slug = r.slug
  \/ \E x \in e.roasts :
       /\ [r EXCEPT !.value = x.value] = x
       /\ r.id \in d.telemetry => r.id \in e.telemetry
       /\ \A v \in d.reviews : v.roast = r.id => v \in e.reviews
       /\ \A f \in Fields :
            LET old == StoredRevision(d, r.id, f)
                new == StoredRevision(e, r.id, f)
            IN  new > old \/ (new = old /\ r.value[f] = x.value[f])

\* Nothing that d remembers is lost in e.
Later(d, e) ==
  /\ d.tombstones \subseteq e.tombstones
  /\ \A r \in d.roasts : Survives(d, e, r)

\* An answer is true of d, and says of whom: enough to stay true.
Stands(d, a) ==
  /\ a.kind = "created" =>
       \/ TombstonedKey(d, a.key)
       \/ \E r \in d.roasts : r.id = a.id /\ r.key = a.key /\ r.slug = a.slug
  /\ a.kind = "deleted" =>
       \E t \in d.tombstones : t.key = a.key /\ t.slug = a.slug /\ t.seq = a.seq
  /\ a.kind = "patched" =>
       \/ TombstonedKey(d, a.key)
       \/ \E r \in d.roasts : r.id = a.id /\ r.key = a.key
            /\ \A f \in DOMAIN a.fields :
                 LET now == StoredRevision(d, r.id, f)
                 IN  /\ f \in Fields
                     /\ a.fields[f].revision \in Nat
                     /\ now >= a.fields[f].revision
                     /\ /\ now = a.fields[f].revision
                        /\ a.fields[f].outcome \in {"applied", "already_applied"}
                        => r.value[f] = a.fields[f].value
  /\ a.kind = "loaded" =>
       \/ TombstonedKey(d, a.key)
       \/ \E r \in d.roasts : r.id = a.id /\ r.key = a.key /\ a.id \in d.telemetry
  /\ a.kind = "reviewed" =>
       \/ TombstonedSlug(d, a.slug)
       \/ \E r \in d.roasts : \E v \in d.reviews :
            r.slug = a.slug /\ v.roast = r.id /\ v.seq = a.seq
  /\ a.kind = "seeded" =>
       \A k \in a.keys : TombstonedKey(d, k) \/ RoastsByKey(d, k) # {}

-----------------------------------------------------------------------------
(* The kinds of change, from the definitions of the bodies.                *)

LEMMA CreatedPublishes ==
  ASSUME NEW d, Consistent(d), NEW q \in CreateRequest, NEW i \in Ids, NEW e,
         CreateAdmitted(d, q), \A r \in d.roasts : r.id # i, ~TombstonedId(d, i),
         SameRows(e, Created(d, q, i))
  PROVE  Publishes(d, e, {CreatedRow(q, i)})
<1> DEFINE row == CreatedRow(q, i)
<1>1. /\ e.roasts = d.roasts \cup {row}
      /\ e.revisions = d.revisions \cup FirstRevisions(i, d.seq)
      /\ e.tombstones = d.tombstones
      /\ e.reviews = d.reviews
      /\ e.telemetry = d.telemetry
  BY DEF SameRows, Created, Consistent, Sound, Tables
<1>2. /\ row \in Roast
      /\ row.id = i /\ row.key = q.key /\ row.slug = q.slug
  BY DEF CreateRequest, CreatedRow, Roast
<1> HIDE DEF row
<1>3. NewIdentities(d, {row})
  BY <1>2 DEF NewIdentities, DistinctIdentities, CreateAdmitted, RoastsByKey,
     RoastsBySlug, TombstonedKey, TombstonedSlug, TombstonedId
<1>4. UNION {FirstRevisions(r.id, d.seq) : r \in {row}} = FirstRevisions(i, d.seq)
  BY <1>2
<1>5. Publishes(d, e, {row})
  BY <1>1, <1>3, <1>4 DEF Publishes
<1> QED  BY <1>5 DEF row

LEMMA SeededPublishes ==
  ASSUME NEW d, Consistent(d), NEW q \in SeedRequest, NEW e,
         SeedAdmitted(d, q), SameRows(e, Seeded(d, q))
  PROVE  Publishes(d, e, q.rows)
<1> DEFINE ids == {r.id : r \in q.rows}
<1>1. /\ e.roasts = d.roasts \cup q.rows
      /\ e.revisions = d.revisions \cup UNION {FirstRevisions(i, d.seq) : i \in ids}
      /\ e.tombstones = d.tombstones
      /\ d.reviews \subseteq e.reviews
      /\ d.telemetry \subseteq e.telemetry
  BY DEF SameRows, Seeded, Consistent, Sound, Tables
<1>2. q.rows # {} /\ q.rows \subseteq Roast /\ DistinctIdentities(q.rows)
  BY DEF SeedRequest
<1>3. NewIdentities(d, q.rows)
  BY <1>2 DEF NewIdentities, SeedAdmitted
<1>4. UNION {FirstRevisions(i, d.seq) : i \in ids}
        = UNION {FirstRevisions(r.id, d.seq) : r \in q.rows}
  OBVIOUS
<1> QED  BY <1>1, <1>2, <1>3, <1>4 DEF Publishes

LEMMA EffectKinds ==
  ASSUME NEW d, Consistent(d), NEW q \in Request, NEW e, NEW G, NEW a,
         Effect(d, q, e, G, a)
  PROVE  \/ \E R : Publishes(d, e, R)
         \/ \E r : Revises(d, q, e, r)
         \/ \E r : Buries(d, q, e, r)
         \/ Forbids(d, q, e)
         \/ Attends(d, e)
<1>1. ASSUME NEW i \in Ids, q.op = "create", CreateAdmitted(d, q),
             \A r \in d.roasts : r.id # i, ~TombstonedId(d, i),
             SameRows(e, Created(d, q, i))
      PROVE  \E R : Publishes(d, e, R)
  <2>1. q \in CreateRequest
    BY <1>1, RequestOfOperation
  <2> QED  BY <1>1, <2>1, CreatedPublishes
<1>2. ASSUME SameRows(e, d)
      PROVE  Attends(d, e)
  BY <1>2 DEF SameRows, Attends
<1>3. ASSUME NEW r \in d.roasts, q.op = "patch", PatchAdmitted(d, q, r),
             SameRows(e, Patched(d, q, r))
      PROVE  Revises(d, q, e, r)
  BY <1>3, RequestOfOperation DEF Revises
<1>4. ASSUME NEW r \in d.roasts, q.op = "delete", DeleteLiveAdmitted(d, q, r),
             SameRows(e, Deleted(d, q, r))
      PROVE  Buries(d, q, e, r)
  BY <1>4, RequestOfOperation DEF Buries
<1>5. ASSUME q.op = "delete", DeleteAbsentAdmitted(d, q),
             SameRows(e, TombstonedWithoutRow(d, q))
      PROVE  Forbids(d, q, e)
  BY <1>5, RequestOfOperation DEF Forbids
<1>6. ASSUME SameRows(e, Loaded(d, q))
      PROVE  Attends(d, e)
  BY <1>6 DEF SameRows, Attends, Loaded, Consistent, Sound, Tables
<1>7. ASSUME NEW r \in d.roasts, SameRows(e, Reviewed(d, r))
      PROVE  Attends(d, e)
  BY <1>7 DEF SameRows, Attends, Reviewed, Consistent, Sound, Tables
<1>8. ASSUME q.op = "seed", SeedAdmitted(d, q), SameRows(e, Seeded(d, q))
      PROVE  \E R : Publishes(d, e, R)
  <2>1. q \in SeedRequest
    BY <1>8, RequestOfOperation
  <2> QED  BY <1>8, <2>1, SeededPublishes
<1> QED  BY <1>1, <1>2, <1>3, <1>4, <1>5, <1>6, <1>7, <1>8 DEF Effect

-----------------------------------------------------------------------------
(* Revision rows: one for each field of each roast.                        *)

LEMMA IntactMeans ==
  ASSUME NEW d, NEW i
  PROVE  RevisionsIntact(d, i) <=>
           \A f \in Fields : \E v \in d.revisions :
             /\ v.id = i /\ v.field = f
             /\ \A w \in d.revisions : w.id = i /\ w.field = f => w = v
BY DEF RevisionsIntact, RevisionsOf

LEMMA StoredRevisionIs ==
  ASSUME NEW d, NEW i, RevisionsIntact(d, i), NEW f \in Fields,
         NEW v \in d.revisions, v.id = i, v.field = f
  PROVE  StoredRevision(d, i, f) = v.revision
<1> DEFINE c == CHOOSE x \in d.revisions : x.id = i /\ x.field = f
<1>1. c \in d.revisions /\ c.id = i /\ c.field = f
  OBVIOUS
<1>2. c = v
  BY <1>1, IntactMeans
<1> QED  BY <1>2 DEF StoredRevision

LEMMA StoredRevisionRow ==
  ASSUME NEW d, NEW i, RevisionsIntact(d, i), NEW f \in Fields
  PROVE  \E v \in d.revisions :
           v.id = i /\ v.field = f /\ StoredRevision(d, i, f) = v.revision
<1>1. PICK v \in d.revisions : v.id = i /\ v.field = f
  BY IntactMeans
<1> QED  BY <1>1, StoredRevisionIs

LEMMA StoredRevisionType ==
  ASSUME NEW d, Consistent(d), NEW i, RevisionsIntact(d, i), NEW f \in Fields
  PROVE  StoredRevision(d, i, f) \in Nat
BY StoredRevisionRow DEF Consistent, Sound, Tables, FieldRevision

\* Rows that are there alike in d and e are read alike.
LEMMA StoredRevisionSame ==
  ASSUME NEW d, NEW e, NEW i, RevisionsIntact(d, i),
         RevisionsOf(e, i) = RevisionsOf(d, i)
  PROVE  /\ RevisionsIntact(e, i)
         /\ \A f \in Fields : StoredRevision(e, i, f) = StoredRevision(d, i, f)
<1>1. \A v : v.id = i => (v \in e.revisions <=> v \in d.revisions)
  BY DEF RevisionsOf
<1>2. RevisionsIntact(e, i)
  BY <1>1, IntactMeans
<1>3. ASSUME NEW f \in Fields
      PROVE  StoredRevision(e, i, f) = StoredRevision(d, i, f)
  <2>1. PICK v \in d.revisions :
          v.id = i /\ v.field = f /\ StoredRevision(d, i, f) = v.revision
    BY StoredRevisionRow
  <2>2. v \in e.revisions
    BY <1>1, <2>1
  <2> QED  BY <1>2, <2>1, <2>2, StoredRevisionIs
<1> QED  BY <1>2, <1>3

LEMMA PublishedRevisions ==
  ASSUME NEW d, Consistent(d), RevisionsComplete(d), NEW e, NEW R, Publishes(d, e, R)
  PROVE  /\ RevisionsComplete(e)
         /\ \A r \in d.roasts : \A f \in Fields :
              StoredRevision(e, r.id, f) = StoredRevision(d, r.id, f)
         /\ \A r \in R : \A f \in Fields : StoredRevision(e, r.id, f) = 0
<1> DEFINE new == UNION {FirstRevisions(r.id, d.seq) : r \in R}
           row(r, f) == [id |-> r.id, field |-> f, revision |-> 0, seq |-> d.seq]
<1>1. /\ \A v \in new : \E r \in R : \E f \in Fields : v = row(r, f)
      /\ \A r \in R : \A f \in Fields : row(r, f) \in new
  BY DEF FirstRevisions
<1>2. \A r \in R : \A f \in Fields : row(r, f).id = r.id /\ row(r, f).field = f
  OBVIOUS
<1>3. /\ e.revisions = d.revisions \cup new
      /\ e.roasts = d.roasts \cup R
      /\ \A r \in R : \A x \in d.roasts : x.id # r.id
      /\ \A a, b \in R : a.id = b.id => a = b
  BY DEF Publishes, NewIdentities, DistinctIdentities
<1>4. \A r \in R : \A v \in d.revisions : v.id # r.id
  BY <1>3 DEF RevisionsComplete
<1>5. \A v \in new : \E r \in R : v.id = r.id
  BY <1>1, <1>2
<1> HIDE DEF new
<1>6. ASSUME NEW r \in d.roasts
      PROVE  /\ RevisionsIntact(e, r.id)
             /\ \A f \in Fields : StoredRevision(e, r.id, f) = StoredRevision(d, r.id, f)
  <2>1. RevisionsOf(e, r.id) = RevisionsOf(d, r.id)
    BY <1>3, <1>5 DEF RevisionsOf
  <2>2. RevisionsIntact(d, r.id)
    BY DEF RevisionsComplete
  <2> QED  BY <2>1, <2>2, StoredRevisionSame
<1>7. ASSUME NEW r \in R
      PROVE  RevisionsIntact(e, r.id)
  <2>1. ASSUME NEW f \in Fields
        PROVE  /\ row(r, f) \in e.revisions /\ row(r, f).id = r.id /\ row(r, f).field = f
               /\ \A w \in e.revisions : w.id = r.id /\ w.field = f => w = row(r, f)
    <3>1. row(r, f) \in e.revisions
      BY <1>1, <1>3
    <3>2. ASSUME NEW w \in e.revisions, w.id = r.id, w.field = f
          PROVE  w = row(r, f)
      <4>1. w \in new
        BY <3>2, <1>3, <1>4
      <4>2. PICK x \in R, g \in Fields : w = row(x, g)
        BY <4>1, <1>1
      <4>3. x.id = r.id /\ g = f
        BY <3>2, <4>2
      <4> QED  BY <4>2, <4>3
    <3> QED  BY <3>1, <3>2, <1>2
  <2> HIDE DEF row
  <2>2. \A f \in Fields : \E v \in e.revisions :
          /\ v.id = r.id /\ v.field = f
          /\ \A w \in e.revisions : w.id = r.id /\ w.field = f => w = v
    BY <2>1
  <2> QED  BY <2>2, IntactMeans
<1>8. ASSUME NEW r \in R, NEW f \in Fields
      PROVE  StoredRevision(e, r.id, f) = 0
  <2>1. row(r, f) \in e.revisions /\ row(r, f).id = r.id /\ row(r, f).field = f
    BY <1>1, <1>3
  <2>2. row(r, f).revision = 0
    OBVIOUS
  <2> HIDE DEF row
  <2> QED  BY <2>1, <2>2, <1>7, StoredRevisionIs
<1>9. \A v \in e.revisions : \E r \in e.roasts : r.id = v.id
  BY <1>3, <1>5 DEF RevisionsComplete
<1> QED  BY <1>3, <1>6, <1>7, <1>8, <1>9 DEF RevisionsComplete

LEMMA RevisedRows ==
  ASSUME NEW d, Consistent(d), RevisionsComplete(d), NEW q, NEW e, NEW r,
         Revises(d, q, e, r),
         NEW A, A = AppliedFields(d, q, r), NEW row, row = PatchedRow(q, r, A)
  PROVE  /\ A \subseteq Fields
         /\ \A f \in A : /\ q.fields[f].value \in BOOLEAN
                        /\ q.fields[f].revision \in 1..MaxRevision
                        /\ q.fields[f].revision > StoredRevision(d, r.id, f)
         /\ e.roasts = (d.roasts \ {r}) \cup {row}
         /\ row \in Roast /\ [r EXCEPT !.value = row.value] = row
         /\ row.id = r.id /\ row.key = r.key /\ row.slug = r.slug /\ row.group = r.group
         /\ \A f \in Fields :
              row.value[f] = IF f \in A THEN q.fields[f].value ELSE r.value[f]
         /\ e.revisions = {PatchedRevision(q, r, A, d.seq, v) : v \in d.revisions}
         /\ e.tombstones = d.tombstones
         /\ e.reviews = d.reviews
         /\ e.telemetry = d.telemetry
<1>1. PICK F \in SUBSET Fields : q.fields \in [F -> PatchEntry]
  BY DEF Revises, PatchRequest
<1>2. r \in Roast /\ r \in d.roasts
  BY DEF Revises, Consistent, Sound, Tables
<1>3. \A f \in A : f \in F /\ OutcomeOf(d, q, r, f) = "applied"
  BY <1>1 DEF AppliedFields
<1>4. A \subseteq Fields
  BY <1>3
<1>5. ASSUME NEW f \in A
      PROVE  /\ q.fields[f].value \in BOOLEAN
             /\ q.fields[f].revision \in 1..MaxRevision
             /\ q.fields[f].revision > StoredRevision(d, r.id, f)
  <2>1. q.fields[f] \in PatchEntry
    BY <1>1, <1>3
  <2>2. q.fields[f].revision \in 1..MaxRevision /\ q.fields[f].value \in BOOLEAN \cup {Invalid}
    BY <2>1 DEF PatchEntry
  <2>3. StoredRevision(d, r.id, f) \in Nat
    BY <1>2, <1>4, StoredRevisionType DEF RevisionsComplete
  <2>4. Outcome(q.fields[f], StoredRevision(d, r.id, f), r.value[f]) = "applied"
    BY <1>3 DEF OutcomeOf
  <2>5. q.fields[f].value # Invalid /\ q.fields[f].revision > StoredRevision(d, r.id, f)
    BY <2>2, <2>3, <2>4 DEF Outcome
  <2> QED  BY <2>2, <2>5
<1>6. row = [r EXCEPT !.value =
               [f \in Fields |-> IF f \in A THEN q.fields[f].value ELSE r.value[f]]]
  BY DEF PatchedRow
<1>7. [f \in Fields |-> IF f \in A THEN q.fields[f].value ELSE r.value[f]]
        \in [Fields -> BOOLEAN]
  BY <1>2, <1>5 DEF Roast
<1>8. /\ row \in Roast /\ [r EXCEPT !.value = row.value] = row
      /\ row.id = r.id /\ row.key = r.key /\ row.slug = r.slug /\ row.group = r.group
      /\ \A f \in Fields :
           row.value[f] = IF f \in A THEN q.fields[f].value ELSE r.value[f]
  BY <1>2, <1>6, <1>7 DEF Roast
<1>9. /\ e.roasts = (d.roasts \ {r}) \cup {row}
      /\ e.revisions = {PatchedRevision(q, r, A, d.seq, v) : v \in d.revisions}
      /\ e.tombstones = d.tombstones
      /\ e.reviews = d.reviews
      /\ e.telemetry = d.telemetry
  BY DEF Revises, SameRows, Patched, Consistent, Sound, Tables
<1> QED  BY <1>4, <1>5, <1>8, <1>9

LEMMA RevisedRevisions ==
  ASSUME NEW d, Consistent(d), RevisionsComplete(d), NEW q, NEW e, NEW r,
         Revises(d, q, e, r),
         NEW A, A = AppliedFields(d, q, r)
  PROVE  /\ RevisionsComplete(e)
         /\ \A x \in d.roasts : \A f \in Fields : x # r =>
              StoredRevision(e, x.id, f) = StoredRevision(d, x.id, f)
         /\ \A f \in Fields :
              StoredRevision(e, r.id, f) =
                IF f \in A THEN q.fields[f].revision ELSE StoredRevision(d, r.id, f)
<1> DEFINE P(v) == PatchedRevision(q, r, A, d.seq, v)
           row == PatchedRow(q, r, A)
<1>1. /\ A \subseteq Fields
      /\ e.roasts = (d.roasts \ {r}) \cup {row}
      /\ row.id = r.id
      /\ e.revisions = {P(v) : v \in d.revisions}
      /\ r \in d.roasts
  BY RevisedRows DEF Revises
<1>2. \A v \in d.revisions :
        /\ P(v).id = v.id /\ P(v).field = v.field
        /\ v.id # r.id => P(v) = v
        /\ v.id = r.id => P(v).revision =
             IF v.field \in A THEN q.fields[v.field].revision ELSE v.revision
  BY DEF PatchedRevision, Consistent, Sound, Tables, FieldRevision
<1>3. \A x, y \in d.roasts : x.id = y.id => x = y
  BY DEF Consistent, IdentitiesExclusive, DistinctIdentities
<1> HIDE DEF P, row
<1>4. ASSUME NEW i, RevisionsIntact(d, i)
      PROVE  RevisionsIntact(e, i)
  <2>1. ASSUME NEW f \in Fields
        PROVE  \E v \in e.revisions :
                 /\ v.id = i /\ v.field = f
                 /\ \A w \in e.revisions : w.id = i /\ w.field = f => w = v
    <3>1. PICK v \in d.revisions :
            /\ v.id = i /\ v.field = f
            /\ \A w \in d.revisions : w.id = i /\ w.field = f => w = v
      BY <1>4, IntactMeans
    <3>2. P(v) \in e.revisions /\ P(v).id = i /\ P(v).field = f
      BY <3>1, <1>1, <1>2
    <3>3. \A w \in e.revisions : w.id = i /\ w.field = f => w = P(v)
      BY <3>1, <1>1, <1>2
    <3> QED  BY <3>2, <3>3
  <2> QED  BY <2>1, IntactMeans
<1>5. \A x \in d.roasts : RevisionsIntact(d, x.id) /\ RevisionsIntact(e, x.id)
  BY <1>4 DEF RevisionsComplete
<1>6. ASSUME NEW x \in d.roasts, NEW f \in Fields
      PROVE  /\ x # r => StoredRevision(e, x.id, f) = StoredRevision(d, x.id, f)
             /\ x = r => StoredRevision(e, r.id, f) =
                  IF f \in A THEN q.fields[f].revision ELSE StoredRevision(d, r.id, f)
  <2>1. PICK v \in d.revisions :
          v.id = x.id /\ v.field = f /\ StoredRevision(d, x.id, f) = v.revision
    BY <1>5, StoredRevisionRow
  <2>2. P(v) \in e.revisions /\ P(v).id = x.id /\ P(v).field = f
    BY <2>1, <1>1, <1>2
  <2>3. StoredRevision(e, x.id, f) = P(v).revision
    BY <2>2, <1>5, StoredRevisionIs
  <2>4. x # r => x.id # r.id
    BY <1>1, <1>3
  <2> QED  BY <2>1, <2>3, <2>4, <1>2
<1>7. RevisionsComplete(e)
  <2>1. \A x \in e.roasts : RevisionsIntact(e, x.id)
    BY <1>1, <1>5
  <2>2. ASSUME NEW w \in e.revisions
        PROVE  \E x \in e.roasts : x.id = w.id
    <3>1. PICK v \in d.revisions : w = P(v)
      BY <1>1
    <3>2. PICK x \in d.roasts : x.id = v.id
      BY DEF RevisionsComplete
    <3>3. w.id = x.id
      BY <3>1, <3>2, <1>2
    <3> QED  BY <3>3, <1>1
  <2> QED  BY <2>1, <2>2 DEF RevisionsComplete
<1> QED  BY <1>1, <1>6, <1>7

LEMMA BuriedRows ==
  ASSUME NEW d, Consistent(d), NEW q, NEW e, NEW r, Buries(d, q, e, r)
  PROVE  /\ r \in d.roasts /\ r.key = q.key /\ r.slug = q.slug
         /\ e.roasts = d.roasts \ {r}
         /\ e.tombstones = d.tombstones \cup {TombstoneFor(q, r.id, d.seq)}
         /\ e.revisions = {v \in d.revisions : v.id # r.id}
         /\ e.reviews = {v \in d.reviews : v.roast # r.id}
         /\ e.telemetry = d.telemetry \ {r.id}
         /\ \A x \in d.roasts : x # r => x.id # r.id /\ x.key # r.key /\ x.slug # r.slug
<1>1. r \in d.roasts /\ r.key = q.key /\ r.slug = q.slug
  BY DEF Buries, DeleteLiveAdmitted, RoastsByKey
<1>2. /\ e.roasts = d.roasts \ {r}
      /\ e.tombstones = d.tombstones \cup {TombstoneFor(q, r.id, d.seq)}
      /\ e.revisions = {v \in d.revisions : v.id # r.id}
      /\ e.reviews = {v \in d.reviews : v.roast # r.id}
      /\ e.telemetry = d.telemetry \ {r.id}
  BY DEF Buries, SameRows, Deleted, Consistent, Sound, Tables
<1>3. \A x \in d.roasts : x # r => x.id # r.id /\ x.key # r.key /\ x.slug # r.slug
  BY <1>1 DEF Consistent, IdentitiesExclusive, DistinctIdentities
<1> QED  BY <1>1, <1>2, <1>3

LEMMA BuriedRevisions ==
  ASSUME NEW d, Consistent(d), RevisionsComplete(d), NEW q, NEW e, NEW r,
         Buries(d, q, e, r)
  PROVE  /\ RevisionsComplete(e)
         /\ \A x \in d.roasts : \A f \in Fields : x # r =>
              StoredRevision(e, x.id, f) = StoredRevision(d, x.id, f)
<1>1. /\ e.roasts = d.roasts \ {r}
      /\ e.revisions = {v \in d.revisions : v.id # r.id}
      /\ \A x \in d.roasts : x # r => x.id # r.id
  BY BuriedRows
<1>2. ASSUME NEW x \in d.roasts, x # r
      PROVE  /\ RevisionsIntact(e, x.id)
             /\ \A f \in Fields : StoredRevision(e, x.id, f) = StoredRevision(d, x.id, f)
  <2>1. RevisionsOf(e, x.id) = RevisionsOf(d, x.id)
    BY <1>1, <1>2 DEF RevisionsOf
  <2>2. RevisionsIntact(d, x.id)
    BY DEF RevisionsComplete
  <2> QED  BY <2>1, <2>2, StoredRevisionSame
<1>3. RevisionsComplete(e)
  BY <1>1, <1>2 DEF RevisionsComplete
<1> QED  BY <1>2, <1>3

\* A change that leaves the roasts and the revision rows leaves what is read
\* from them.
LEMMA SameRevisions ==
  ASSUME NEW d, RevisionsComplete(d), NEW e,
         e.roasts = d.roasts, e.revisions = d.revisions
  PROVE  /\ RevisionsComplete(e)
         /\ \A i : \A f \in Fields : StoredRevision(e, i, f) = StoredRevision(d, i, f)
<1>1. \A i : RevisionsIntact(e, i) <=> RevisionsIntact(d, i)
  BY DEF RevisionsIntact, RevisionsOf
<1>2. RevisionsComplete(e)
  BY <1>1 DEF RevisionsComplete
<1>3. \A i : \A f \in Fields : StoredRevision(e, i, f) = StoredRevision(d, i, f)
  BY DEF StoredRevision
<1> QED  BY <1>2, <1>3

LEMMA EffectRevisions ==
  ASSUME NEW d, Consistent(d), RevisionsComplete(d), NEW q \in Request,
         NEW e, NEW G, NEW a, Effect(d, q, e, G, a)
  PROVE  RevisionsComplete(e)
<1>1. ASSUME NEW R, Publishes(d, e, R)
      PROVE  RevisionsComplete(e)
  BY <1>1, PublishedRevisions
<1>2. ASSUME NEW r, Revises(d, q, e, r)
      PROVE  RevisionsComplete(e)
  BY <1>2, RevisedRevisions
<1>3. ASSUME NEW r, Buries(d, q, e, r)
      PROVE  RevisionsComplete(e)
  BY <1>3, BuriedRevisions
<1>4. CASE Forbids(d, q, e)
  <2>1. e.roasts = d.roasts /\ e.revisions = d.revisions
    BY <1>4 DEF Forbids, SameRows, TombstonedWithoutRow, Consistent, Sound, Tables
  <2> QED  BY <2>1, SameRevisions
<1>5. CASE Attends(d, e)
  BY <1>5, SameRevisions DEF Attends
<1> QED  BY <1>1, <1>2, <1>3, <1>4, <1>5, EffectKinds

-----------------------------------------------------------------------------
(* Sequences: the one a writer entered with was carried by no row before.  *)

LEMMA EffectSequences ==
  ASSUME NEW d, Consistent(d), RevisionsComplete(d), SequencesIssued(d),
         \A t \in d.tombstones : t.seq < d.seq,
         NEW q \in Request, NEW e, NEW G, NEW a, Effect(d, q, e, G, a),
         e.seq \in Nat, e.seq >= d.seq
  PROVE  SequencesIssued(e)
<1>1. /\ d.seq \in Nat
      /\ \A t \in d.tombstones : t.seq \in Nat
      /\ \A v \in d.revisions : v.seq \in Nat /\ v.revision \in Nat
  BY DEF Consistent, Sound, Tables, Tombstone, FieldRevision, TablesAssumption
<1>2. /\ \A v \in d.revisions : v.seq <= e.seq /\ v.revision <= MaxRevision
      /\ \A t \in d.tombstones : t.seq <= e.seq
      /\ \A t, u \in d.tombstones : t.seq = u.seq => t = u
  BY <1>1 DEF SequencesIssued
<1>3. ASSUME NEW R, Publishes(d, e, R)
      PROVE  SequencesIssued(e)
  <2>1. \A r \in R : \A v \in FirstRevisions(r.id, d.seq) :
          v.seq = d.seq /\ v.revision = 0
    BY DEF FirstRevisions
  <2>2. \A v \in e.revisions : v.seq <= e.seq /\ v.revision <= MaxRevision
    BY <1>1, <1>2, <1>3, <2>1, TablesAssumption DEF Publishes
  <2> QED  BY <1>2, <1>3, <2>2 DEF Publishes, SequencesIssued
<1>4. ASSUME NEW r, Revises(d, q, e, r)
      PROVE  SequencesIssued(e)
  <2> DEFINE A == AppliedFields(d, q, r)
  <2>1. /\ \A f \in A : q.fields[f].revision \in 1..MaxRevision
        /\ e.revisions = {PatchedRevision(q, r, A, d.seq, v) : v \in d.revisions}
        /\ e.tombstones = d.tombstones
    BY <1>4, RevisedRows
  <2> HIDE DEF A
  <2>2. ASSUME NEW v \in d.revisions
        PROVE  /\ PatchedRevision(q, r, A, d.seq, v).seq <= e.seq
               /\ PatchedRevision(q, r, A, d.seq, v).revision <= MaxRevision
    <3>1. v \in FieldRevision
      BY DEF Consistent, Sound, Tables
    <3>2. CASE v.id = r.id /\ v.field \in A
      <4>1. /\ PatchedRevision(q, r, A, d.seq, v).seq = d.seq
            /\ PatchedRevision(q, r, A, d.seq, v).revision = q.fields[v.field].revision
        BY <3>1, <3>2 DEF PatchedRevision, FieldRevision
      <4> QED  BY <3>2, <4>1, <2>1, TablesAssumption
    <3>3. CASE ~(v.id = r.id /\ v.field \in A)
      BY <3>3, <1>2 DEF PatchedRevision
    <3> QED  BY <3>2, <3>3
  <2> QED  BY <1>2, <2>1, <2>2 DEF SequencesIssued
<1>5. ASSUME NEW i, e.tombstones = d.tombstones \cup {TombstoneFor(q, i, d.seq)},
             e.revisions \subseteq d.revisions
      PROVE  SequencesIssued(e)
  <2>1. TombstoneFor(q, i, d.seq).seq = d.seq
    BY DEF TombstoneFor
  <2> QED  BY <1>1, <1>2, <1>5, <2>1 DEF SequencesIssued
<1>6. ASSUME NEW r, Buries(d, q, e, r)
      PROVE  SequencesIssued(e)
  BY <1>5, <1>6, BuriedRows
<1>7. CASE Forbids(d, q, e)
  BY <1>5, <1>7 DEF Forbids, SameRows, TombstonedWithoutRow, Consistent, Sound, Tables
<1>8. CASE Attends(d, e)
  BY <1>2, <1>8 DEF Attends, SequencesIssued
<1> QED  BY <1>3, <1>4, <1>6, <1>7, <1>8, EffectKinds

-----------------------------------------------------------------------------
(* Nothing that was there is forgotten.                                    *)

LEMMA EffectLater ==
  ASSUME NEW d, Consistent(d), RevisionsComplete(d), NEW q \in Request,
         NEW e, NEW G, NEW a, Effect(d, q, e, G, a)
  PROVE  Later(d, e)
<1>1. \A r \in d.roasts : r \in Roast /\ [r EXCEPT !.value = r.value] = r
  BY DEF Consistent, Sound, Tables, Roast
<1>2. \A r \in d.roasts : \A f \in Fields : StoredRevision(d, r.id, f) \in Nat
  BY StoredRevisionType DEF RevisionsComplete
<1>3. ASSUME NEW r \in d.roasts, r \in e.roasts,
             r.id \in d.telemetry => r.id \in e.telemetry,
             \A v \in d.reviews : v.roast = r.id => v \in e.reviews,
             \A f \in Fields : StoredRevision(e, r.id, f) = StoredRevision(d, r.id, f)
      PROVE  Survives(d, e, r)
  BY <1>1, <1>3 DEF Survives
<1>4. ASSUME NEW R, Publishes(d, e, R)
      PROVE  Later(d, e)
  <2>1. \A r \in d.roasts : \A f \in Fields :
          StoredRevision(e, r.id, f) = StoredRevision(d, r.id, f)
    BY <1>4, PublishedRevisions
  <2>2. \A r \in d.roasts : Survives(d, e, r)
    BY <1>3, <1>4, <2>1 DEF Publishes
  <2> QED  BY <1>4, <2>2 DEF Later, Publishes
<1>5. ASSUME NEW r, Revises(d, q, e, r)
      PROVE  Later(d, e)
  <2> DEFINE A == AppliedFields(d, q, r)
             row == PatchedRow(q, r, A)
  <2>1. /\ A \subseteq Fields
        /\ \A f \in A : q.fields[f].revision > StoredRevision(d, r.id, f)
        /\ e.roasts = (d.roasts \ {r}) \cup {row}
        /\ [r EXCEPT !.value = row.value] = row
        /\ \A f \in Fields :
             row.value[f] = IF f \in A THEN q.fields[f].value ELSE r.value[f]
        /\ e.tombstones = d.tombstones
        /\ e.reviews = d.reviews
        /\ e.telemetry = d.telemetry
        /\ r \in d.roasts
    BY <1>5, RevisedRows DEF Revises
  <2>2. /\ \A x \in d.roasts : \A f \in Fields : x # r =>
             StoredRevision(e, x.id, f) = StoredRevision(d, x.id, f)
        /\ \A f \in Fields : StoredRevision(e, r.id, f) =
             IF f \in A THEN q.fields[f].revision ELSE StoredRevision(d, r.id, f)
    BY <1>5, RevisedRevisions
  <2> HIDE DEF A, row
  <2>3. \A x \in d.roasts : x # r => Survives(d, e, x)
    BY <1>3, <2>1, <2>2
  <2>4. row \in e.roasts
    BY <2>1
  <2>5. \A f \in Fields :
          LET old == StoredRevision(d, r.id, f)
              new == StoredRevision(e, r.id, f)
          IN  new > old \/ (new = old /\ r.value[f] = row.value[f])
    BY <2>1, <2>2
  <2>6. Survives(d, e, r)
    BY <2>1, <2>4, <2>5 DEF Survives
  <2> QED  BY <2>1, <2>3, <2>6 DEF Later
<1>6. ASSUME NEW r, Buries(d, q, e, r)
      PROVE  Later(d, e)
  <2> DEFINE t == TombstoneFor(q, r.id, d.seq)
  <2>1. /\ r \in d.roasts /\ r.key = q.key /\ r.slug = q.slug
        /\ e.roasts = d.roasts \ {r}
        /\ e.tombstones = d.tombstones \cup {t}
        /\ e.reviews = {v \in d.reviews : v.roast # r.id}
        /\ e.telemetry = d.telemetry \ {r.id}
        /\ \A x \in d.roasts : x # r => x.id # r.id
    BY <1>6, BuriedRows
  <2>2. \A x \in d.roasts : \A f \in Fields : x # r =>
          StoredRevision(e, x.id, f) = StoredRevision(d, x.id, f)
    BY <1>6, BuriedRevisions
  <2>3. t.id = r.id /\ t.key = r.key /\ t.slug = r.slug
    BY <2>1 DEF TombstoneFor
  <2> HIDE DEF t
  <2>4. \A x \in d.roasts : x # r => Survives(d, e, x)
    BY <1>3, <2>1, <2>2
  <2>5. Survives(d, e, r)
    BY <2>1, <2>3 DEF Survives
  <2> QED  BY <2>1, <2>4, <2>5 DEF Later
<1>7. ASSUME d.tombstones \subseteq e.tombstones, e.roasts = d.roasts,
             e.revisions = d.revisions, d.telemetry \subseteq e.telemetry,
             d.reviews \subseteq e.reviews
      PROVE  Later(d, e)
  <2>1. \A r \in d.roasts : \A f \in Fields :
          StoredRevision(e, r.id, f) = StoredRevision(d, r.id, f)
    BY <1>7, SameRevisions
  <2>2. \A r \in d.roasts : Survives(d, e, r)
    BY <1>3, <1>7, <2>1
  <2> QED  BY <1>7, <2>2 DEF Later
<1>8. CASE Forbids(d, q, e)
  BY <1>7, <1>8 DEF Forbids, SameRows, TombstonedWithoutRow, Consistent, Sound, Tables
<1>9. CASE Attends(d, e)
  BY <1>7, <1>9 DEF Attends
<1> QED  BY <1>4, <1>5, <1>6, <1>8, <1>9, EffectKinds

\* The registers of a roast that is in both only move on.
LEMMA LaterFieldsFollow ==
  ASSUME NEW d, NEW e, Consistent(d), Consistent(e), Later(d, e)
  PROVE  FieldsFollow(d, e)
<1> SUFFICES ASSUME NEW a \in d.roasts, NEW b \in e.roasts, a.id = b.id
             PROVE  /\ [a EXCEPT !.value = b.value] = b
                    /\ \A f \in Fields :
                         LET old == StoredRevision(d, a.id, f)
                             new == StoredRevision(e, a.id, f)
                         IN  new > old \/ (new = old /\ a.value[f] = b.value[f])
  BY DEF FieldsFollow
<1>1. \A t \in e.tombstones : t.id # a.id
  BY DEF Consistent, IdentitiesExclusive
<1>2. PICK x \in e.roasts :
        /\ [a EXCEPT !.value = x.value] = x
        /\ \A f \in Fields :
             LET old == StoredRevision(d, a.id, f)
                 new == StoredRevision(e, a.id, f)
             IN  new > old \/ (new = old /\ a.value[f] = x.value[f])
  BY <1>1 DEF Later, Survives
<1>3. x.id = a.id
  BY <1>2 DEF Consistent, Sound, Tables, Roast
<1>4. x = b
  BY <1>3 DEF Consistent, IdentitiesExclusive, DistinctIdentities
<1> QED  BY <1>2, <1>4

-----------------------------------------------------------------------------
(* Answers: true when given, and true of every later state.                *)

LEMMA SurvivorOrTombstone ==
  ASSUME NEW d, NEW e, Consistent(d), Later(d, e), NEW r \in d.roasts
  PROVE  \/ TombstonedKey(e, r.key) /\ TombstonedSlug(e, r.slug)
         \/ \E x \in e.roasts :
              /\ x.id = r.id /\ x.key = r.key /\ x.slug = r.slug
              /\ r.id \in d.telemetry => r.id \in e.telemetry
              /\ \A v \in d.reviews : v.roast = r.id => v \in e.reviews
              /\ \A f \in Fields :
                   LET old == StoredRevision(d, r.id, f)
                       new == StoredRevision(e, r.id, f)
                   IN  new > old \/ (new = old /\ r.value[f] = x.value[f])
<1>1. r \in Roast /\ Survives(d, e, r)
  BY DEF Later, Consistent, Sound, Tables
<1>2. CASE \E t \in e.tombstones : t.id = r.id /\ t.key = r.key /\ t.slug = r.slug
  BY <1>2 DEF TombstonedKey, TombstonedSlug
<1>3. ASSUME NEW x \in e.roasts, [r EXCEPT !.value = x.value] = x
      PROVE  x.id = r.id /\ x.key = r.key /\ x.slug = r.slug
  BY <1>1, <1>3 DEF Roast
<1> QED  BY <1>1, <1>2, <1>3 DEF Survives

LEMMA LaterStands ==
  ASSUME NEW d, NEW e, Consistent(d), RevisionsComplete(d),
         Consistent(e), RevisionsComplete(e), Later(d, e),
         NEW a, Stands(d, a)
  PROVE  Stands(e, a)
<1>1. /\ \A k : TombstonedKey(d, k) => TombstonedKey(e, k)
      /\ \A g : TombstonedSlug(d, g) => TombstonedSlug(e, g)
      /\ d.tombstones \subseteq e.tombstones
  BY DEF Later, TombstonedKey, TombstonedSlug
<1>2. \A r \in d.roasts : TombstonedKey(e, r.key) \/ \E x \in e.roasts : x.key = r.key
  BY SurvivorOrTombstone
<1>3. CASE a.kind = "created"
  <2>1. CASE TombstonedKey(d, a.key)
    BY <1>1, <1>3, <2>1 DEF Stands
  <2>2. ASSUME NEW r \in d.roasts, r.id = a.id, r.key = a.key, r.slug = a.slug
        PROVE  Stands(e, a)
    BY <1>3, <2>2, SurvivorOrTombstone DEF Stands
  <2> QED  BY <1>3, <2>1, <2>2 DEF Stands
<1>4. CASE a.kind = "deleted"
  BY <1>1, <1>4 DEF Stands
<1>5. CASE a.kind = "patched"
  <2>1. CASE TombstonedKey(d, a.key)
    BY <1>1, <1>5, <2>1 DEF Stands
  <2>2. ASSUME NEW r \in d.roasts, r.id = a.id, r.key = a.key,
               \A f \in DOMAIN a.fields :
                 LET now == StoredRevision(d, r.id, f)
                 IN  /\ f \in Fields
                     /\ a.fields[f].revision \in Nat
                     /\ now >= a.fields[f].revision
                     /\ /\ now = a.fields[f].revision
                        /\ a.fields[f].outcome \in {"applied", "already_applied"}
                        => r.value[f] = a.fields[f].value
        PROVE  Stands(e, a)
    <3>1. CASE TombstonedKey(e, r.key)
      BY <1>5, <2>2, <3>1 DEF Stands
    <3>2. ASSUME NEW x \in e.roasts, x.id = r.id, x.key = r.key,
                 \A f \in Fields :
                   LET old == StoredRevision(d, r.id, f)
                       new == StoredRevision(e, r.id, f)
                   IN  new > old \/ (new = old /\ r.value[f] = x.value[f])
          PROVE  Stands(e, a)
      <4>1. ASSUME NEW f \in DOMAIN a.fields
            PROVE  LET now == StoredRevision(e, x.id, f)
                   IN  /\ f \in Fields
                       /\ a.fields[f].revision \in Nat
                       /\ now >= a.fields[f].revision
                       /\ /\ now = a.fields[f].revision
                          /\ a.fields[f].outcome \in {"applied", "already_applied"}
                          => x.value[f] = a.fields[f].value
        <5>1. f \in Fields /\ a.fields[f].revision \in Nat
          BY <2>2
        <5>2. StoredRevision(d, r.id, f) \in Nat
          BY <5>1, StoredRevisionType DEF RevisionsComplete
        <5>3. StoredRevision(e, x.id, f) \in Nat
          BY <5>1, StoredRevisionType DEF RevisionsComplete
        <5> QED  BY <2>2, <3>2, <5>1, <5>2, <5>3
      <4> QED  BY <1>5, <2>2, <3>2, <4>1 DEF Stands
    <3> QED  BY <3>1, <3>2, SurvivorOrTombstone
  <2> QED  BY <1>5, <2>1, <2>2 DEF Stands
<1>6. CASE a.kind = "loaded"
  <2>1. CASE TombstonedKey(d, a.key)
    BY <1>1, <1>6, <2>1 DEF Stands
  <2>2. ASSUME NEW r \in d.roasts, r.id = a.id, r.key = a.key, a.id \in d.telemetry
        PROVE  Stands(e, a)
    BY <1>6, <2>2, SurvivorOrTombstone DEF Stands
  <2> QED  BY <1>6, <2>1, <2>2 DEF Stands
<1>7. CASE a.kind = "reviewed"
  <2>1. CASE TombstonedSlug(d, a.slug)
    BY <1>1, <1>7, <2>1 DEF Stands
  <2>2. ASSUME NEW r \in d.roasts, NEW v \in d.reviews,
               r.slug = a.slug, v.roast = r.id, v.seq = a.seq
        PROVE  Stands(e, a)
    BY <1>7, <2>2, SurvivorOrTombstone DEF Stands
  <2> QED  BY <1>7, <2>1, <2>2 DEF Stands
<1>8. CASE a.kind = "seeded"
  BY <1>1, <1>2, <1>8 DEF Stands, RoastsByKey
<1> QED  BY <1>3, <1>4, <1>5, <1>6, <1>7, <1>8 DEF Stands

LEMMA StandsTold ==
  ASSUME NEW d, NEW a, Stands(d, a)
  PROVE  Told(d, a)
<1>1. CASE a.kind \in {"created", "deleted", "seeded"}
  BY <1>1 DEF Stands, Told
<1>2. CASE a.kind = "patched"
  BY <1>2 DEF Stands, Told
<1>3. CASE a.kind = "loaded"
  BY <1>3 DEF Stands, Told
<1>4. CASE a.kind = "reviewed"
  BY <1>4 DEF Stands, Told
<1>5. CASE a.kind \notin {"created", "deleted", "seeded", "patched", "loaded", "reviewed"}
  BY <1>5 DEF Told
<1> QED  BY <1>1, <1>2, <1>3, <1>4, <1>5

\* The answer to a patch says of each entry what became of it.
LEMMA PatchAnswered ==
  ASSUME NEW d, Consistent(d), RevisionsComplete(d), NEW q, NEW e, NEW r,
         Revises(d, q, e, r), NEW a,
         a = [kind |-> "patched", key |-> q.key, id |-> r.id,
              fields |-> [f \in DOMAIN q.fields |-> PatchAnswer(d, q, r, f)]]
  PROVE  Stands(e, a)
<1> DEFINE A == AppliedFields(d, q, r)
           row == PatchedRow(q, r, A)
<1>1. PICK F \in SUBSET Fields : q.fields \in [F -> PatchEntry]
  BY DEF Revises, PatchRequest
<1>2. /\ row \in e.roasts /\ row.id = r.id /\ row.key = q.key
      /\ \A f \in Fields :
           row.value[f] = IF f \in A THEN q.fields[f].value ELSE r.value[f]
  BY RevisedRows DEF Revises, PatchAdmitted, RoastsByKey
<1>3. \A f \in Fields : StoredRevision(e, r.id, f) =
        IF f \in A THEN q.fields[f].revision ELSE StoredRevision(d, r.id, f)
  BY RevisedRevisions
<1>4. ASSUME NEW f \in F
      PROVE  LET now == StoredRevision(e, row.id, f)
             IN  /\ f \in Fields
                 /\ a.fields[f].revision \in Nat
                 /\ now >= a.fields[f].revision
                 /\ /\ now = a.fields[f].revision
                    /\ a.fields[f].outcome \in {"applied", "already_applied"}
                    => row.value[f] = a.fields[f].value
  <2> DEFINE outcome == OutcomeOf(d, q, r, f)
             old == StoredRevision(d, r.id, f)
  <2>1. /\ q.fields[f].revision \in Nat
        /\ q.fields[f].value \in BOOLEAN \cup {Invalid}
    BY <1>1 DEF PatchEntry
  <2>2. old \in Nat
    BY <1>1, StoredRevisionType DEF RevisionsComplete, Revises
  <2>3. f \in A <=> outcome = "applied"
    BY <1>1 DEF AppliedFields
  <2>4. outcome = "already_applied" => q.fields[f].value = r.value[f]
    BY <2>1, <2>2 DEF OutcomeOf, Outcome
  <2>5. a.fields[f] = PatchAnswer(d, q, r, f)
    BY <1>1
  <2>6. /\ a.fields[f].outcome = outcome
        /\ a.fields[f].value = q.fields[f].value
        /\ a.fields[f].revision = IF outcome = "applied" THEN q.fields[f].revision ELSE old
    BY <2>5 DEF PatchAnswer
  <2> HIDE DEF A, row, outcome, old
  <2>7. StoredRevision(e, row.id, f) = a.fields[f].revision
    BY <1>2, <1>3, <2>3, <2>6 DEF old
  <2>8. a.fields[f].revision \in Nat
    BY <2>1, <2>2, <2>6
  <2>9. outcome \in {"applied", "already_applied"} => row.value[f] = a.fields[f].value
    BY <1>2, <2>3, <2>4, <2>6
  <2> QED  BY <2>6, <2>7, <2>8, <2>9
<1>5. DOMAIN a.fields = F /\ a.kind = "patched" /\ a.key = q.key /\ a.id = r.id
  BY <1>1
<1> HIDE DEF row, A
<1>6. \A f \in DOMAIN a.fields :
        LET now == StoredRevision(e, row.id, f)
        IN  /\ f \in Fields
            /\ a.fields[f].revision \in Nat
            /\ now >= a.fields[f].revision
            /\ /\ now = a.fields[f].revision
               /\ a.fields[f].outcome \in {"applied", "already_applied"}
               => row.value[f] = a.fields[f].value
  BY <1>4, <1>5
<1> QED  BY <1>2, <1>5, <1>6 DEF Stands

LEMMA EffectStands ==
  ASSUME NEW d, Consistent(d), RevisionsComplete(d), NEW q \in Request,
         NEW e, NEW G, NEW a, Effect(d, q, e, G, a)
  PROVE  Stands(e, a)
<1>1. ASSUME NEW i \in Ids, q.op = "create", CreateAdmitted(d, q),
             \A r \in d.roasts : r.id # i, ~TombstonedId(d, i),
             SameRows(e, Created(d, q, i)), a = CreatedReply(q.key, i, q.slug)
      PROVE  Stands(e, a)
  <2>1. CreatedRow(q, i) \in e.roasts
    BY <1>1 DEF SameRows, Created, Consistent, Sound, Tables
  <2> QED  BY <1>1, <2>1 DEF Stands, CreatedReply, CreatedRow
<1>2. ASSUME NEW r \in d.roasts, ReplayAdmitted(d, q, r), SameRows(e, d),
             a = CreatedReply(q.key, r.id, r.slug)
      PROVE  Stands(e, a)
  <2>1. r \in e.roasts /\ r.key = q.key
    BY <1>2 DEF SameRows, ReplayAdmitted, RoastsByKey
  <2> QED  BY <1>2, <2>1 DEF Stands, CreatedReply
<1>3. ASSUME NEW r \in d.roasts, q.op = "patch", PatchAdmitted(d, q, r),
             SameRows(e, Patched(d, q, r)),
             a = [kind |-> "patched", key |-> q.key, id |-> r.id,
                  fields |-> [f \in DOMAIN q.fields |-> PatchAnswer(d, q, r, f)]]
      PROVE  Stands(e, a)
  <2>1. Revises(d, q, e, r)
    BY <1>3, RequestOfOperation DEF Revises
  <2> QED  BY <1>3, <2>1, PatchAnswered
<1>4. ASSUME NEW t \in e.tombstones, t.key = q.key, t.slug = q.slug,
             a = DeleteReply(q, t.seq)
      PROVE  Stands(e, a)
  BY <1>4 DEF Stands, DeleteReply
<1>5. ASSUME NEW i, TombstoneFor(q, i, d.seq) \in e.tombstones,
             a = DeleteReply(q, d.seq)
      PROVE  Stands(e, a)
  BY <1>4, <1>5 DEF TombstoneFor
<1>6. ASSUME NEW r \in d.roasts, SameRows(e, Deleted(d, q, r)), a = DeleteReply(q, d.seq)
      PROVE  Stands(e, a)
  BY <1>5, <1>6 DEF SameRows, Deleted, Consistent, Sound, Tables
<1>7. ASSUME SameRows(e, TombstonedWithoutRow(d, q)), a = DeleteReply(q, d.seq)
      PROVE  Stands(e, a)
  BY <1>5, <1>7 DEF SameRows, TombstonedWithoutRow, Consistent, Sound, Tables
<1>8. ASSUME NEW t \in d.tombstones, DeleteAgainAdmitted(d, q, t), SameRows(e, d),
             a = DeleteReply(q, t.seq)
      PROVE  Stands(e, a)
  <2>1. t \in e.tombstones /\ t.key = q.key /\ t.slug = q.slug
    BY <1>8 DEF SameRows, DeleteAgainAdmitted
  <2> QED  BY <1>4, <1>8, <2>1
<1>9. ASSUME NEW r \in d.roasts, LoadAdmitted(d, q, r, Keys), SameRows(e, Loaded(d, q)),
             a = [kind |-> "loaded", key |-> q.key, id |-> q.id]
      PROVE  Stands(e, a)
  <2>1. r \in e.roasts /\ r.id = q.id /\ r.key = q.key /\ q.id \in e.telemetry
    BY <1>9 DEF LoadAdmitted, RoastsByKey, SameRows, Loaded, Consistent, Sound, Tables
  <2> QED  BY <1>9, <2>1 DEF Stands
<1>10. ASSUME NEW r \in d.roasts, ReviewAdmitted(d, q, r), SameRows(e, Reviewed(d, r)),
              a = [kind |-> "reviewed", slug |-> q.slug, seq |-> d.seq]
       PROVE  Stands(e, a)
  <2> DEFINE v == [roast |-> r.id, seq |-> d.seq]
  <2>1. r \in e.roasts /\ r.slug = q.slug
    BY <1>10 DEF ReviewAdmitted, RoastsBySlug, SameRows, Reviewed, Consistent, Sound, Tables
  <2>2. v \in e.reviews /\ v.roast = r.id /\ v.seq = d.seq
    BY <1>10 DEF SameRows, Reviewed, Consistent, Sound, Tables
  <2> QED  BY <1>10, <2>1, <2>2 DEF Stands
<1>11. ASSUME SameRows(e, Seeded(d, q)),
              a = [kind |-> "seeded", keys |-> {r.key : r \in q.rows}]
       PROVE  Stands(e, a)
  <2>1. \A r \in q.rows : r \in e.roasts
    BY <1>11 DEF SameRows, Seeded, Consistent, Sound, Tables
  <2> QED  BY <1>11, <2>1 DEF Stands, RoastsByKey
<1> QED  BY <1>1, <1>2, <1>3, <1>6, <1>7, <1>8, <1>9, <1>10, <1>11 DEF Effect

\* What was deleted is dead, and its answer says so.
LEMMA EffectDeletes ==
  ASSUME NEW d, Consistent(d), NEW q \in Request, NEW e, NEW G, NEW a,
         Effect(d, q, e, G, a), q.op = "delete"
  PROVE  TombstonedKey(e, q.key) /\ a = DeleteReply(q, a.seq)
<1>1. ASSUME NEW i
      PROVE  TombstoneFor(q, i, d.seq).key = q.key
  BY DEF TombstoneFor
<1>2. ASSUME NEW r \in d.roasts, SameRows(e, Deleted(d, q, r))
      PROVE  TombstonedKey(e, q.key)
  BY <1>1, <1>2 DEF SameRows, Deleted, Consistent, Sound, Tables, TombstonedKey
<1>3. ASSUME SameRows(e, TombstonedWithoutRow(d, q))
      PROVE  TombstonedKey(e, q.key)
  BY <1>1, <1>3 DEF SameRows, TombstonedWithoutRow, Consistent, Sound, Tables, TombstonedKey
<1>4. ASSUME NEW t \in d.tombstones, DeleteAgainAdmitted(d, q, t), SameRows(e, d)
      PROVE  TombstonedKey(e, q.key)
  BY <1>4 DEF DeleteAgainAdmitted, SameRows, TombstonedKey
<1>5. \A n : DeleteReply(q, n).seq = n
  BY DEF DeleteReply
<1> QED  BY <1>2, <1>3, <1>4, <1>5 DEF Effect

-----------------------------------------------------------------------------
(* Summaries: a body leaves every group it does not touch as it was.       *)

\* A recompute of group g would write the same for both tables.
Untouched(d, e, g) ==
  /\ Aggregate(e, g) = Aggregate(d, g)
  /\ Contributing(d, g) = {} => Contributing(e, g) = {}

LEMMA SameContributing ==
  ASSUME NEW d, NEW e, NEW g, Contributing(e, g) = Contributing(d, g),
         \A c \in Contributing(d, g) : c.id \in e.telemetry <=> c.id \in d.telemetry,
         \A c \in Contributing(d, g) : \A v : v.roast = c.id =>
           (v \in e.reviews <=> v \in d.reviews)
  PROVE  Untouched(d, e, g)
<1> DEFINE ids == {r.id : r \in Contributing(d, g)}
<1>1. {v \in e.reviews : v.roast \in ids} = {v \in d.reviews : v.roast \in ids}
  OBVIOUS
<1>2. ids \cap e.telemetry = ids \cap d.telemetry
  OBVIOUS
<1>3. Aggregate(e, g) = Aggregate(d, g)
  BY <1>1, <1>2 DEF Aggregate
<1> QED  BY <1>3 DEF Untouched

\* A row takes another's place in a set of rows.
LEMMA ReplacedCardinality ==
  ASSUME NEW C, IsFiniteSet(C), NEW r \in C, NEW row, row \notin C \ {r}
  PROVE  Cardinality((C \ {r}) \cup {row}) = Cardinality(C)
<1>1. IsFiniteSet(C \ {r}) /\ Cardinality(C \ {r}) = Cardinality(C) - 1
  BY FS_RemoveElement
<1>2. Cardinality((C \ {r}) \cup {row}) = Cardinality(C \ {r}) + 1
  BY <1>1, FS_AddElement
<1>3. Cardinality(C) \in Nat
  BY FS_CardinalityType
<1> QED  BY <1>1, <1>2, <1>3

\* Values other than consent are no part of any summary.
LEMMA RevisedUntouched ==
  ASSUME NEW d, Consistent(d), RevisionsComplete(d), NEW q, NEW e, NEW r,
         Revises(d, q, e, r), NEW g \in Groups \ PatchTouches(d, q, r)
  PROVE  Untouched(d, e, g)
<1> DEFINE A == AppliedFields(d, q, r)
           row == PatchedRow(q, r, A)
           C == Contributing(d, g)
           E == Contributing(e, g)
<1>1. /\ e.roasts = (d.roasts \ {r}) \cup {row}
      /\ row.id = r.id /\ row.group = r.group
      /\ Consent \notin A => row.value[Consent] = r.value[Consent]
      /\ e.reviews = d.reviews /\ e.telemetry = d.telemetry
      /\ r \in d.roasts
  BY RevisedRows, TablesAssumption DEF Revises
<1>2. Consent \in A => r.group # g
  BY DEF PatchTouches
<1>3. \A x \in d.roasts : x.id = r.id => x = r
  BY <1>1 DEF Consistent, IdentitiesExclusive, DistinctIdentities
<1> HIDE DEF A, row
<1>4. CASE r \notin C
  <2>1. E = C
    BY <1>1, <1>2, <1>4 DEF Contributing
  <2> QED  BY <1>1, <2>1, SameContributing
<1>5. CASE r \in C
  <2>1. E = (C \ {r}) \cup {row}
    BY <1>1, <1>2, <1>5 DEF Contributing
  <2>2. IsFiniteSet(C) /\ C \subseteq d.roasts
    <3>1. C \in SUBSET d.roasts
      BY DEF Contributing
    <3> QED  BY <3>1, FS_Subset DEF Consistent, Sound, Finite
  <2>3. row \notin C \ {r}
    BY <1>1, <1>3, <2>2
  <2>4. Cardinality(E) = Cardinality(C)
    <3> HIDE DEF C, E
    <3> QED  BY <1>5, <2>1, <2>2, <2>3, ReplacedCardinality
  <2>5. {x.id : x \in E} = {x.id : x \in C}
    <3> HIDE DEF C, E
    <3> QED  BY <1>1, <1>5, <2>1
  <2>6. Aggregate(e, g) = Aggregate(d, g)
    BY <1>1, <2>4, <2>5 DEF Aggregate
  <2> QED  BY <1>5, <2>6 DEF Untouched
<1> QED  BY <1>4, <1>5

LEMMA EffectUntouched ==
  ASSUME NEW d, Consistent(d), RevisionsComplete(d), NEW q \in Request,
         NEW e, NEW G, NEW a, Effect(d, q, e, G, a), NEW g \in Groups \ G,
         ~SeedPassesOver(q, g)
  PROVE  Untouched(d, e, g)
<1> DEFINE C == Contributing(d, g)
<1>1. /\ C \subseteq d.roasts /\ \A c \in C : c.group = g
      /\ \A x, y \in d.roasts : x.id = y.id => x = y
  BY DEF Contributing, Consistent, IdentitiesExclusive, DistinctIdentities
<1>2. ASSUME NEW r \in d.roasts, r.group # g
      PROVE  \A c \in C : c # r /\ c.id # r.id
  BY <1>1, <1>2
<1>3. ASSUME NEW i \in Ids, q.op = "create", SameRows(e, Created(d, q, i)), G = {q.group}
      PROVE  Untouched(d, e, g)
  <2>1. /\ e.roasts = d.roasts \cup {CreatedRow(q, i)}
        /\ e.reviews = d.reviews /\ e.telemetry = d.telemetry
    BY <1>3 DEF SameRows, Created, Consistent, Sound, Tables
  <2>2. CreatedRow(q, i).group # g
    BY <1>3 DEF CreatedRow
  <2>3. Contributing(e, g) = C
    BY <2>1, <2>2 DEF Contributing
  <2> QED  BY <2>1, <2>3, SameContributing
<1>4. ASSUME SameRows(e, d)
      PROVE  Untouched(d, e, g)
  BY <1>4, SameContributing DEF SameRows, Contributing
<1>5. ASSUME NEW r \in d.roasts, q.op = "patch", PatchAdmitted(d, q, r),
             SameRows(e, Patched(d, q, r)), G = PatchTouches(d, q, r)
      PROVE  Untouched(d, e, g)
  <2>1. Revises(d, q, e, r)
    BY <1>5, RequestOfOperation DEF Revises
  <2> QED  BY <1>5, <2>1, RevisedUntouched
<1>6. ASSUME NEW r \in d.roasts, SameRows(e, Deleted(d, q, r)), G = {r.group}
      PROVE  Untouched(d, e, g)
  <2>1. /\ e.roasts = d.roasts \ {r}
        /\ e.reviews = {v \in d.reviews : v.roast # r.id}
        /\ e.telemetry = d.telemetry \ {r.id}
    BY <1>6 DEF SameRows, Deleted, Consistent, Sound, Tables
  <2>2. \A c \in C : c # r /\ c.id # r.id
    BY <1>2, <1>6
  <2>3. Contributing(e, g) = C
    BY <2>1, <2>2 DEF Contributing
  <2> QED  BY <2>1, <2>2, <2>3, SameContributing
<1>7. ASSUME SameRows(e, TombstonedWithoutRow(d, q))
      PROVE  Untouched(d, e, g)
  <2>1. e.roasts = d.roasts /\ e.reviews = d.reviews /\ e.telemetry = d.telemetry
    BY <1>7 DEF SameRows, TombstonedWithoutRow, Consistent, Sound, Tables
  <2> QED  BY <2>1, SameContributing DEF Contributing
<1>8. ASSUME NEW r \in d.roasts, LoadAdmitted(d, q, r, Keys), SameRows(e, Loaded(d, q)),
             G = {r.group}
      PROVE  Untouched(d, e, g)
  <2>1. /\ e.roasts = d.roasts /\ e.reviews = d.reviews
        /\ e.telemetry = d.telemetry \cup {r.id}
    BY <1>8 DEF LoadAdmitted, SameRows, Loaded, Consistent, Sound, Tables
  <2>2. \A c \in C : c.id # r.id
    BY <1>2, <1>8
  <2> QED  BY <2>1, <2>2, SameContributing DEF Contributing
<1>9. ASSUME NEW r \in d.roasts, SameRows(e, Reviewed(d, r)), G = {r.group}
      PROVE  Untouched(d, e, g)
  <2> DEFINE new == [roast |-> r.id, seq |-> d.seq]
  <2>1. /\ e.roasts = d.roasts /\ e.telemetry = d.telemetry
        /\ e.reviews = d.reviews \cup {new}
    BY <1>9 DEF SameRows, Reviewed, Consistent, Sound, Tables
  <2>2. \A c \in C : c.id # new.roast
    BY <1>2, <1>9
  <2> HIDE DEF new
  <2>3. \A c \in C : \A v : v.roast = c.id => (v \in e.reviews <=> v \in d.reviews)
    BY <2>1, <2>2
  <2>4. Contributing(e, g) = C
    BY <2>1 DEF Contributing
  <2> QED  BY <2>1, <2>3, <2>4, SameContributing
<1>10. ASSUME q.op = "seed", SeedAdmitted(d, q), SameRows(e, Seeded(d, q)), G = SeedTouches(q)
       PROVE  Untouched(d, e, g)
  <2> DEFINE ids == {r.id : r \in q.rows}
             new == {[roast |-> i, seq |-> d.seq] : i \in q.reviewed}
  <2>1. /\ e.roasts = d.roasts \cup q.rows
        /\ e.telemetry = d.telemetry \cup q.measured
        /\ e.reviews = d.reviews \cup new
    BY <1>10 DEF SameRows, Seeded, Consistent, Sound, Tables
  <2>2. q.reviewed \subseteq ids /\ q.measured \subseteq ids
    BY <1>10, RequestOfOperation DEF SeedRequest
  <2>3. \A c \in C : \A r \in q.rows : c.id # r.id
    BY <1>1, <1>10 DEF SeedAdmitted
  <2>4. \A r \in q.rows : r.group = g => ~r.value[Consent]
    BY <1>10 DEF SeedTouches, SeedPassesOver
  <2>5. \A c \in C : c.id \notin q.measured /\ \A v \in new : v.roast # c.id
    BY <2>2, <2>3
  <2> HIDE DEF ids, new
  <2>6. Contributing(e, g) = C
    BY <2>1, <2>4 DEF Contributing
  <2>7. \A c \in C : c.id \in e.telemetry <=> c.id \in d.telemetry
    BY <2>1, <2>5
  <2>8. \A c \in C : \A v : v.roast = c.id => (v \in e.reviews <=> v \in d.reviews)
    BY <2>1, <2>5
  <2> QED  BY <2>6, <2>7, <2>8, SameContributing
<1> HIDE DEF C
<1> QED  BY <1>3, <1>4, <1>5, <1>6, <1>7, <1>8, <1>9, <1>10 DEF Effect

-----------------------------------------------------------------------------
(* The history.                                                            *)

\* The tables as a writer finds them that holds the lock.
Entered == [db EXCEPT !.seq = @ + 1]

\* A writer that has left its body has done to the committed tables what the
\* body of its request does, and nobody else has changed them since.
OneEffect ==
  \A s \in Sessions : pc[s] = "recompute" =>
    \E G \in SUBSET (Groups \cup {NoGroup}) :
      Effect(Entered, req[s], txn[s], G, reply[s])

\* It has followed up on every group but those it has still to recompute.
OthersFollow ==
  \A s \in Sessions : pc[s] = "recompute" =>
    \A g \in Groups \ touched[s] : SummaryFollows(db, txn[s], req[s], g)

\* The run whose files delete_roast is about to remove is dead.
RemovesDead ==
  \A s \in Sessions : pc[s] = "removing" =>
    /\ TombstonedKey(db, req[s].key)
    /\ reply[s] = DeleteReply(req[s], reply[s].seq)

Answered == {"removing", "done", "idle"}

AnswersTrue ==
  /\ DOMAIN reply = Sessions
  /\ \A s \in Sessions : pc[s] \in Answered => Stands(db, reply[s])

HInv ==
  /\ RevisionsComplete(db)
  /\ SequencesIssued(db)
  /\ OneEffect
  /\ OthersFollow
  /\ RemovesDead
  /\ AnswersTrue

-----------------------------------------------------------------------------
(* The tables a writer enters with.                                        *)

LEMMA EnteredRows ==
  ASSUME IInv, HInv
  PROVE  /\ Entered.roasts = db.roasts
         /\ Entered.tombstones = db.tombstones
         /\ Entered.revisions = db.revisions
         /\ Entered.reviews = db.reviews
         /\ Entered.telemetry = db.telemetry
         /\ Entered.seq = db.seq + 1
         /\ db.seq \in Nat
         /\ \A i, f : StoredRevision(Entered, i, f) = StoredRevision(db, i, f)
<1>1. /\ Entered.roasts = db.roasts
      /\ Entered.tombstones = db.tombstones
      /\ Entered.revisions = db.revisions
      /\ Entered.reviews = db.reviews
      /\ Entered.telemetry = db.telemetry
      /\ Entered.seq = db.seq + 1
      /\ db.seq \in Nat
  BY DEF Entered, IInv, Consistent, Sound, Tables
<1>2. \A i, f : StoredRevision(Entered, i, f) = StoredRevision(db, i, f)
  BY <1>1 DEF StoredRevision
<1> QED  BY <1>1, <1>2

LEMMA EnteredKeeps ==
  ASSUME IInv, HInv, db.seq < MaxSeq
  PROVE  /\ Consistent(Entered)
         /\ RevisionsComplete(Entered)
         /\ SequencesIssued(Entered)
         /\ \A t \in Entered.tombstones : t.seq < Entered.seq
<1>1. Consistent(Entered)
  BY EnteredConsistent DEF Entered, IInv
<1>2. RevisionsComplete(Entered)
  BY EnteredRows, SameRevisions DEF HInv
<1>3. /\ \A t \in db.tombstones : t.seq \in Nat /\ t.seq <= db.seq
      /\ \A v \in db.revisions : v.seq \in Nat /\ v.seq <= db.seq
  BY DEF HInv, SequencesIssued, IInv, Consistent, Sound, Tables, Tombstone, FieldRevision
<1>4. SequencesIssued(Entered)
  BY <1>3, EnteredRows DEF HInv, SequencesIssued
<1>5. \A t \in Entered.tombstones : t.seq < Entered.seq
  BY <1>3, EnteredRows
<1> QED  BY <1>1, <1>2, <1>4, <1>5

\* What a body leaves, as an effect on the tables it entered with.
LEMMA BodyEffect ==
  ASSUME IInv, DOMAIN reply = Sessions, NEW s \in Sessions, Body(s)
  PROVE  \/ Refuse(s)
         \/ \E e, G, a : /\ BodyDone(s, e, G, a)
                         /\ Effect(txn[s], req[s], e, G, a)
                         /\ e.seq = txn[s].seq
                         /\ e.summaries = txn[s].summaries
<1> DEFINE q == req[s]
           d == txn[s]
           Done(e, G, a) == /\ BodyDone(s, e, G, a)
                            /\ Effect(d, q, e, G, a)
                            /\ e.seq = d.seq
                            /\ e.summaries = d.summaries
           Same(e) == SameRows(e, e) /\ e.seq = d.seq /\ e.summaries = d.summaries
<1>1. SUFFICES ASSUME ~Refuse(s)
               PROVE  \E e, G, a : Done(e, G, a)
  OBVIOUS
<1>2. d \in Tables
  BY <1>1 DEF Body, IInv, TransactionsConsistent, Writing, Consistent, Sound
<1>3. \A e : SameRows(e, e)
  BY DEF SameRows
<1>4. ASSUME NEW i \in Ids, CreateNew(s, i)
      PROVE  \E e, G, a : Done(e, G, a)
  <2>1. Same(Created(d, q, i))
    BY <1>2, <1>3 DEF Created, Tables
  <2> QED  BY <1>4, <2>1 DEF CreateNew, Effect
<1>5. ASSUME NEW r \in d.roasts, CreateReplay(s, r)
      PROVE  \E e, G, a : Done(e, G, a)
  BY <1>3, <1>5 DEF CreateReplay, Effect
<1>6. ASSUME NEW r \in d.roasts, PatchFields(s, r)
      PROVE  \E e, G, a : Done(e, G, a)
  <2>1. Same(Patched(d, q, r))
    BY <1>2, <1>3 DEF Patched, Tables
  <2> QED  BY <1>6, <2>1 DEF PatchFields, Effect
<1>7. ASSUME NEW r \in d.roasts, DeleteLive(s, r)
      PROVE  \E e, G, a : Done(e, G, a)
  <2>1. Same(Deleted(d, q, r))
    BY <1>2, <1>3 DEF Deleted, Tables
  <2> QED  BY <1>7, <2>1 DEF DeleteLive, Effect
<1>8. ASSUME DeleteAbsent(s)
      PROVE  \E e, G, a : Done(e, G, a)
  <2>1. Same(TombstonedWithoutRow(d, q))
    BY <1>2, <1>3 DEF TombstonedWithoutRow, Tables
  <2> QED  BY <1>8, <2>1 DEF DeleteAbsent, Effect
<1>9. ASSUME NEW t \in d.tombstones, DeleteAgain(s, t)
      PROVE  \E e, G, a : Done(e, G, a)
  BY <1>3, <1>9 DEF DeleteAgain, Effect
<1>10. ASSUME NEW r \in d.roasts, LoadTelemetry(s, r)
       PROVE  \E e, G, a : Done(e, G, a)
  <2>1. Same(Loaded(d, q))
    BY <1>2, <1>3 DEF Loaded, Tables
  <2>2. LoadAdmitted(d, q, r, Keys)
    BY <1>10 DEF LoadTelemetry, LoadAdmitted, IInv, TypeOK
  <2> QED  BY <1>10, <2>1, <2>2 DEF LoadTelemetry, Effect
<1>11. ASSUME NEW r \in d.roasts, SubmitReview(s, r)
       PROVE  \E e, G, a : Done(e, G, a)
  <2>1. Same(Reviewed(d, r))
    BY <1>2, <1>3 DEF Reviewed, Tables
  <2> QED  BY <1>11, <2>1 DEF SubmitReview, Effect
<1>12. ASSUME LoadSeed(s)
       PROVE  \E e, G, a : Done(e, G, a)
  <2>1. Same(Seeded(d, q))
    BY <1>2, <1>3 DEF Seeded, Tables
  <2> QED  BY <1>12, <2>1 DEF LoadSeed, Effect
<1> HIDE DEF Done, q
<1> QED  BY <1>1, <1>4, <1>5, <1>6, <1>7, <1>8, <1>9, <1>10, <1>11, <1>12 DEF Body

\* An effect is about rows: a recompute does not change it.
LEMMA EffectRows ==
  ASSUME NEW d, NEW q, NEW e, NEW f, NEW G, NEW a, Effect(d, q, e, G, a), SameRows(f, e)
  PROVE  Effect(d, q, f, G, a)
<1>1. \A x : SameRows(e, x) => SameRows(f, x)
  BY DEF SameRows
<1> QED  BY <1>1 DEF Effect

-----------------------------------------------------------------------------
(* Every step preserves the invariant.                                     *)

LEMMA InitHInv == Init => HInv
<1> SUFFICES ASSUME Init
             PROVE  HInv
  OBVIOUS
<1>1. ASSUME db = EmptyTables
      PROVE  RevisionsComplete(db) /\ SequencesIssued(db)
  BY <1>1 DEF EmptyTables, RevisionsComplete, SequencesIssued
<1>2. ASSUME NEW r \in LegacyRoasts, db = Migrated(r)
      PROVE  RevisionsComplete(db) /\ SequencesIssued(db)
  <2>1. r \in Roast
    BY CallsAssumption
  <2>2. /\ db.roasts = {r} /\ db.revisions = FirstRevisions(r.id, 0)
        /\ db.tombstones = {} /\ db.seq = 0
    BY <1>2 DEF Migrated, EmptyTables, Recomputed
  <2>3. SequencesIssued(db)
    BY <2>2, TablesAssumption DEF SequencesIssued, FirstRevisions
  <2>4. RevisionsIntact(db, r.id)
    <3>1. ASSUME NEW f \in Fields
          PROVE  \E v \in db.revisions :
                   /\ v.id = r.id /\ v.field = f
                   /\ \A w \in db.revisions : w.id = r.id /\ w.field = f => w = v
      <4> DEFINE v == [id |-> r.id, field |-> f, revision |-> 0, seq |-> 0]
      <4>1. v \in db.revisions /\ v.id = r.id /\ v.field = f
        BY <2>2 DEF FirstRevisions
      <4>2. \A w \in db.revisions : w.field = f => w = v
        BY <2>2 DEF FirstRevisions
      <4> QED  BY <4>1, <4>2
    <3> QED  BY <3>1, IntactMeans
  <2>5. RevisionsComplete(db)
    BY <2>2, <2>4 DEF RevisionsComplete, FirstRevisions
  <2> QED  BY <2>3, <2>5
<1>3. RevisionsComplete(db) /\ SequencesIssued(db)
  BY <1>1, <1>2 DEF Init
<1>4. OneEffect /\ OthersFollow /\ RemovesDead
  BY DEF Init, OneEffect, OthersFollow, RemovesDead
<1>5. AnswersTrue
  <2>1. DOMAIN reply = Sessions /\ \A s \in Sessions : reply[s].kind = "none"
    BY DEF Init, NoReply
  <2> QED  BY <2>1 DEF AnswersTrue, Stands
<1> QED  BY <1>3, <1>4, <1>5 DEF HInv

\* A step that commits nothing, and takes nobody out of its body, keeps the
\* invariant if what it makes clients believe is true.
LEMMA QuietHInv ==
  ASSUME HInv, db' = db,
         \A s \in Sessions : pc'[s] = "recompute" =>
           /\ pc[s] = "recompute"
           /\ req'[s] = req[s] /\ txn'[s] = txn[s]
           /\ touched'[s] = touched[s] /\ reply'[s] = reply[s],
         \A s \in Sessions : pc'[s] = "removing" =>
           pc[s] = "removing" /\ req'[s] = req[s] /\ reply'[s] = reply[s],
         DOMAIN reply' = Sessions,
         \A s \in Sessions : pc'[s] \in Answered =>
           \/ Stands(db, reply'[s])
           \/ pc[s] \in Answered /\ reply'[s] = reply[s]
  PROVE  HInv'
<1>1. (RevisionsComplete(db) /\ SequencesIssued(db))'
  BY DEF HInv
<1>2. OneEffect'
  BY DEF HInv, OneEffect, Entered
<1>3. OthersFollow'
  BY DEF HInv, OthersFollow
<1>4. RemovesDead'
  BY DEF HInv, RemovesDead
<1>5. AnswersTrue'
  BY DEF HInv, AnswersTrue
<1> QED  BY <1>1, <1>2, <1>3, <1>4, <1>5 DEF HInv

\* An exception, or no answer at all, promises nothing.
LEMMA NothingTold ==
  ASSUME NEW d, NEW a \in {NoReply, Raised, Lost}
  PROVE  Stands(d, a)
<1>1. a.kind \in {"none", "raised", "lost"}
  BY DEF NoReply, Raised, Lost
<1> QED  BY <1>1 DEF Stands

LEMMA BodyHInv ==
  ASSUME IInv, HInv, NEW s \in Sessions, Body(s), IInv'
  PROVE  HInv'
<1>1. CASE Refuse(s)
  <2> USE <1>1 DEF Refuse
  <2>1. pc \in [Sessions -> InTransaction \cup {"idle", "entering", "removing", "done"}]
    BY DEF IInv, TypeOK
  <2> QED  BY <2>1, QuietHInv DEF HInv, AnswersTrue, Answered
<1>2. ASSUME NEW e, NEW G, NEW a,
             BodyDone(s, e, G, a),
             Effect(txn[s], req[s], e, G, a),
             e.seq = txn[s].seq,
             e.summaries = txn[s].summaries
      PROVE  HInv'
  <2>1. /\ pc[s] = "body"
        /\ pc' = [pc EXCEPT ![s] = "recompute"]
        /\ txn' = [txn EXCEPT ![s] = e]
        /\ touched' = [touched EXCEPT ![s] = G]
        /\ reply' = [reply EXCEPT ![s] = a]
        /\ UNCHANGED <<db, req>>
    BY <1>2 DEF BodyDone
  <2>2. /\ pc \in [Sessions -> InTransaction \cup {"idle", "entering", "removing", "done"}]
        /\ DOMAIN txn = Sessions /\ DOMAIN touched = Sessions /\ DOMAIN reply = Sessions
    BY DEF IInv, TypeOK, HInv, AnswersTrue
  <2>3. /\ pc'[s] = "recompute" /\ txn'[s] = e /\ touched'[s] = G /\ reply'[s] = a
        /\ \A o \in Sessions : o # s =>
             /\ pc'[o] = pc[o] /\ txn'[o] = txn[o]
             /\ touched'[o] = touched[o] /\ reply'[o] = reply[o]
    BY <2>1, <2>2
  <2>4. txn[s] = Entered /\ Entered.summaries = db.summaries
    BY <2>1 DEF Entered, IInv, ReadsCurrent, Consistent, Sound, Tables
  <2>5. G \in SUBSET (Groups \cup {NoGroup})
    BY <2>3 DEF IInv, TypeOK
  <2>6. Entered' = Entered
    BY <2>1 DEF Entered
  <2>7. req[s] \in Request
    BY <2>1, CallsAssumption DEF IInv, Called
  <2>8. Consistent(Entered) /\ RevisionsComplete(Entered)
    BY <2>1, <2>4, EnteredRows, SameRevisions DEF IInv, TransactionsConsistent, Writing, HInv
  <2>9. OneEffect'
    <3>1. \A o \in Sessions : o # s /\ pc'[o] = "recompute" =>
            \E H \in SUBSET (Groups \cup {NoGroup}) :
              Effect(Entered', req'[o], txn'[o], H, reply'[o])
      BY <2>1, <2>3, <2>6 DEF HInv, OneEffect
    <3>2. Effect(Entered', req'[s], txn'[s], G, reply'[s])
      BY <1>2, <2>1, <2>3, <2>4, <2>6
    <3> QED  BY <2>5, <3>1, <3>2 DEF OneEffect
  <2>10. ASSUME NEW g \in Groups \ G
         PROVE  SummaryFollows(db, e, req[s], g)
    <3>1. CASE SeedPassesOver(req[s], g)
      BY <3>1 DEF SummaryFollows
    <3>2. CASE ~SeedPassesOver(req[s], g)
      <4>1. Untouched(Entered, e, g)
        BY <1>2, <2>4, <2>7, <2>8, <3>2, EffectUntouched
      <4>2. Aggregate(Entered, g) = Aggregate(db, g)
        BY EnteredRows DEF Aggregate, Contributing
      <4> QED  BY <1>2, <2>4, <4>1, <4>2 DEF Untouched, SummaryFollows
    <3> QED  BY <3>1, <3>2
  <2>11. OthersFollow'
    BY <2>1, <2>3, <2>10 DEF HInv, OthersFollow
  <2>12. RemovesDead'
    BY <2>1, <2>3 DEF HInv, RemovesDead
  <2>13. AnswersTrue'
    BY <2>1, <2>2, <2>3 DEF HInv, AnswersTrue, Answered
  <2>14. (RevisionsComplete(db) /\ SequencesIssued(db))'
    BY <2>1 DEF HInv
  <2> QED  BY <2>9, <2>11, <2>12, <2>13, <2>14 DEF HInv
<1> QED  BY <1>1, <1>2, BodyEffect DEF HInv, AnswersTrue

LEMMA RecomputeHInv ==
  ASSUME IInv, HInv, NEW s \in Sessions, NEW g \in touched[s], Recompute(s, g), IInv'
  PROVE  HInv'
<1> DEFINE d == [txn[s] EXCEPT !.seq = txn[s].seq + 1]
           e == Recomputed(d, g)
<1>1. /\ pc[s] = "recompute"
      /\ UNCHANGED <<db, req, reply>>
      /\ txn[s] \in Tables
  BY DEF Recompute, IInv, TransactionsConsistent, Writing, Consistent, Sound
<1>2. /\ pc \in [Sessions -> InTransaction \cup {"idle", "entering", "removing", "done"}]
      /\ DOMAIN txn = Sessions /\ DOMAIN touched = Sessions /\ DOMAIN reply = Sessions
  BY DEF IInv, TypeOK, HInv, AnswersTrue
<1>3. CASE EntryVerified(txn[s].seq)
  <2>1. /\ txn' = [txn EXCEPT ![s] = e]
        /\ touched' = [touched EXCEPT ![s] = touched[s] \ {g}]
        /\ pc' = pc
    BY <1>3 DEF Recompute
  <2>2. /\ SameRows(e, txn[s])
        /\ e.summaries = IF g = NoGroup THEN txn[s].summaries
                         ELSE [txn[s].summaries EXCEPT ![g] = Aggregate(d, g)]
    BY <1>1 DEF SameRows, Recomputed, Tables
  <2>3. \A h : /\ Contributing(d, h) = Contributing(txn[s], h)
               /\ Contributing(e, h) = Contributing(txn[s], h)
               /\ Aggregate(d, h) = Aggregate(txn[s], h)
               /\ Aggregate(e, h) = Aggregate(txn[s], h)
    <3>1. SameRows(d, txn[s])
      BY <1>1 DEF SameRows, Tables
    <3>2. ASSUME NEW x, SameRows(x, txn[s]), NEW h
          PROVE  /\ Contributing(x, h) = Contributing(txn[s], h)
                 /\ Aggregate(x, h) = Aggregate(txn[s], h)
      BY <3>2 DEF SameRows, Contributing, Aggregate
    <3> QED  BY <2>2, <3>1, <3>2
  <2>4. ASSUME NEW h \in Groups \ (touched[s] \ {g})
        PROVE  SummaryFollows(db, e, req[s], h)
    <3>1. CASE h = g
      <4>1. g # NoGroup /\ txn[s].summaries \in [Groups -> Summary \cup {NoSummary}]
        BY <1>1, <3>1, TablesAssumption DEF Tables
      <4>2. e.summaries[h] = Aggregate(d, h)
        BY <2>2, <3>1, <4>1
      <4> QED  BY <2>3, <4>2 DEF SummaryFollows, SummaryFresh
    <3>2. CASE h # g
      <4>1. SummaryFollows(db, txn[s], req[s], h)
        BY <1>1, <3>2 DEF HInv, OthersFollow
      <4>2. e.summaries[h] = txn[s].summaries[h]
        <5>1. txn[s].summaries \in [Groups -> Summary \cup {NoSummary}]
          BY <1>1 DEF Tables
        <5> HIDE DEF d, e
        <5> QED  BY <2>2, <3>2, <5>1
      <4> QED  BY <2>3, <4>1, <4>2 DEF SummaryFollows, SummaryFresh
    <3> QED  BY <3>1, <3>2
  <2> HIDE DEF d, e
  <2>5. \A o \in Sessions : /\ o = s => txn'[o] = e /\ touched'[o] = touched[o] \ {g}
                            /\ o # s => txn'[o] = txn[o] /\ touched'[o] = touched[o]
    BY <1>2, <2>1
  <2>6. Entered' = Entered
    BY <1>1 DEF Entered
  <2>7. OneEffect'
    BY <1>1, <2>1, <2>2, <2>5, <2>6, EffectRows DEF HInv, OneEffect
  <2>8. OthersFollow'
    BY <1>1, <2>1, <2>4, <2>5 DEF HInv, OthersFollow
  <2>9. RemovesDead' /\ AnswersTrue'
    BY <1>1, <2>1 DEF HInv, RemovesDead, AnswersTrue
  <2>10. (RevisionsComplete(db) /\ SequencesIssued(db))'
    BY <1>1 DEF HInv
  <2> QED  BY <2>7, <2>8, <2>9, <2>10 DEF HInv
<1>4. CASE ~EntryVerified(txn[s].seq)
  <2>1. /\ pc' = [pc EXCEPT ![s] = "rollback"]
        /\ UNCHANGED <<txn, touched>>
    BY <1>4 DEF Recompute
  <2> QED  BY <1>1, <1>2, <2>1, QuietHInv DEF Answered
<1> QED  BY <1>3, <1>4

LEMMA CommitHInv ==
  ASSUME IInv, HInv, NEW s \in Sessions, Commit(s), IInv'
  PROVE  /\ HInv' /\ Later(db, db')
         /\ \A g \in Groups : SummaryFollows(db, db', req[s], g)
<1> DEFINE e == txn[s]
           q == req[s]
           a == reply[s]
<1>1. /\ pc[s] = "recompute" /\ touched[s] = {}
      /\ db' = e
      /\ pc' = [pc EXCEPT ![s] = IF q.op = "delete" THEN "removing" ELSE "done"]
      /\ UNCHANGED <<req, reply>>
  BY DEF Commit
<1>2. Consistent(e) /\ e.seq > db.seq /\ e.seq \in 0..MaxSeq
  BY <1>1 DEF IInv, TransactionsConsistent, Writing, Consistent, Sound, Tables
<1>3. q \in Request
  BY <1>1, CallsAssumption DEF IInv, Called
<1>4. /\ Consistent(Entered) /\ RevisionsComplete(Entered) /\ SequencesIssued(Entered)
      /\ \A t \in Entered.tombstones : t.seq < Entered.seq
      /\ e.seq \in Nat /\ e.seq >= Entered.seq
  <2>1. db.seq < MaxSeq /\ e.seq \in Nat /\ e.seq >= Entered.seq
    BY <1>2, EnteredRows, TablesAssumption
  <2> QED  BY <2>1, EnteredKeeps
<1>5. PICK G : Effect(Entered, q, e, G, a)
  BY <1>1 DEF HInv, OneEffect
<1>6. \A o \in Sessions : o # s => pc[o] \notin InTransaction
  BY <1>1 DEF IInv, ReadsCurrent, InTransaction
<1>7. \A o \in Sessions :
        pc'[o] = IF o = s THEN (IF q.op = "delete" THEN "removing" ELSE "done") ELSE pc[o]
  BY <1>1 DEF IInv, TypeOK
<1> HIDE DEF e, q, a
<1>8. RevisionsComplete(e)
  BY <1>3, <1>4, <1>5, EffectRevisions
<1>9. SequencesIssued(e)
  BY <1>3, <1>4, <1>5, EffectSequences
<1>10. Later(db, e)
  <2>1. Later(Entered, e)
    BY <1>3, <1>4, <1>5, EffectLater
  <2>2. \A r \in db.roasts : Survives(Entered, e, r) => Survives(db, e, r)
    BY EnteredRows DEF Survives
  <2> QED  BY <2>1, <2>2, EnteredRows DEF Later
<1>11. \A o \in Sessions : pc[o] \in Answered => Stands(e, reply[o])
  BY <1>2, <1>8, <1>10, LaterStands DEF HInv, AnswersTrue, IInv
<1>12. Stands(e, a)
  BY <1>3, <1>4, <1>5, EffectStands
<1>13. \A g \in Groups : SummaryFollows(db, e, q, g)
  BY <1>1 DEF HInv, OthersFollow, e, q
<1>14. OneEffect' /\ OthersFollow'
  BY <1>6, <1>7 DEF OneEffect, OthersFollow, InTransaction
<1>15. RemovesDead'
  <2>1. q.op = "delete" => TombstonedKey(e, q.key) /\ a = DeleteReply(q, a.seq)
    BY <1>3, <1>4, <1>5, EffectDeletes
  <2>2. \A k : TombstonedKey(db, k) => TombstonedKey(e, k)
    BY <1>10 DEF Later, TombstonedKey
  <2> QED  BY <1>1, <1>7, <2>1, <2>2 DEF HInv, RemovesDead, q, a
<1>16. AnswersTrue'
  BY <1>1, <1>7, <1>11, <1>12 DEF HInv, AnswersTrue, Answered, a
<1> QED  BY <1>1, <1>8, <1>9, <1>10, <1>13, <1>14, <1>15, <1>16 DEF HInv, q

LEMMA RemoveStageHInv ==
  ASSUME IInv, HInv, NEW s \in Sessions, RemoveStage(s)
  PROVE  HInv'
<1>1. /\ pc[s] = "removing" /\ pc' = [pc EXCEPT ![s] = "done"]
      /\ UNCHANGED <<db, req, txn, touched>>
      /\ reply' = reply \/ reply' = [reply EXCEPT ![s].stage_removal = "failed"]
  BY DEF RemoveStage
<1>2. /\ pc \in [Sessions -> InTransaction \cup {"idle", "entering", "removing", "done"}]
      /\ DOMAIN reply = Sessions
  BY DEF IInv, TypeOK, HInv, AnswersTrue
<1>3. \A o \in Sessions : o # s => reply'[o] = reply[o] /\ pc'[o] = pc[o]
  BY <1>1, <1>2
<1>4. Stands(db, reply'[s])
  <2>1. Stands(db, reply[s]) /\ reply[s] = DeleteReply(req[s], reply[s].seq)
    BY <1>1 DEF HInv, AnswersTrue, RemovesDead, Answered
  <2>2. /\ reply'[s].kind = "deleted" /\ reply[s].kind = "deleted"
        /\ reply'[s].key = reply[s].key
        /\ reply'[s].slug = reply[s].slug
        /\ reply'[s].seq = reply[s].seq
    BY <1>1, <1>2, <2>1 DEF DeleteReply
  <2> QED  BY <2>1, <2>2 DEF Stands
<1>5. pc'[s] = "done" /\ DOMAIN reply' = Sessions
  BY <1>1, <1>2
<1> QED  BY <1>1, <1>3, <1>4, <1>5, QuietHInv

LEMMA EndTransactionHInv ==
  ASSUME IInv, HInv, NEW s \in Sessions, NEW answer \in {Raised, Lost},
         EndTransaction(s, answer)
  PROVE  HInv'
<1>1. /\ txn' = [txn EXCEPT ![s] = NoTxn]
      /\ touched' = [touched EXCEPT ![s] = {}]
      /\ pc' = [pc EXCEPT ![s] = "idle"]
      /\ req' = [req EXCEPT ![s] = NoRequest]
      /\ reply' = [reply EXCEPT ![s] = answer]
      /\ UNCHANGED db
  BY DEF EndTransaction
<1>2. /\ pc \in [Sessions -> InTransaction \cup {"idle", "entering", "removing", "done"}]
      /\ DOMAIN txn = Sessions /\ DOMAIN touched = Sessions /\ DOMAIN req = Sessions
      /\ DOMAIN reply = Sessions
  BY DEF IInv, TypeOK, HInv, AnswersTrue
<1>3. Stands(db, reply'[s])
  BY <1>1, <1>2, NothingTold
<1> QED  BY <1>1, <1>2, <1>3, QuietHInv

LEMMA SessionHInv ==
  ASSUME IInv, HInv, NEW s \in Sessions,
         \/ \E q \in Calls : Call(s, q)
         \/ Enter(s)
         \/ LockTimeout(s)
         \/ Return(s)
         \/ LoseReply(s)
  PROVE  HInv'
<1>1. /\ pc \in [Sessions -> InTransaction \cup {"idle", "entering", "removing", "done"}]
      /\ DOMAIN req = Sessions /\ DOMAIN txn = Sessions /\ DOMAIN reply = Sessions
  BY DEF IInv, TypeOK, HInv, AnswersTrue
<1>2. ASSUME NEW q \in Calls, Call(s, q)
      PROVE  HInv'
  BY <1>1, <1>2, QuietHInv DEF Call, Answered
<1>3. CASE Enter(s)
  <2>1. /\ pc[s] = "entering"
        /\ \/ pc' = [pc EXCEPT ![s] = "body"]
           \/ pc' = [pc EXCEPT ![s] = "rollback"]
        /\ \E x : txn' = [txn EXCEPT ![s] = x]
        /\ UNCHANGED <<db, req, touched, reply>>
    BY <1>3 DEF Enter
  <2> QED  BY <1>1, <2>1, QuietHInv DEF Answered
<1>4. CASE LockTimeout(s)
  <2>1. Stands(db, reply'[s])
    BY <1>1, <1>4, NothingTold DEF LockTimeout
  <2> QED  BY <1>1, <1>4, <2>1, QuietHInv DEF LockTimeout, Answered
<1>5. CASE Return(s)
  BY <1>1, <1>5, QuietHInv DEF Return, Answered
<1>6. CASE LoseReply(s)
  <2>1. Stands(db, reply'[s])
    BY <1>1, <1>6, NothingTold DEF LoseReply
  <2> QED  BY <1>1, <1>6, <2>1, QuietHInv DEF LoseReply, Answered
<1> QED  BY <1>2, <1>3, <1>4, <1>5, <1>6

LEMMA NextHInv == IInv /\ IInv' /\ HInv /\ [Next]_vars => HInv'
<1> SUFFICES ASSUME IInv, IInv', HInv, [Next]_vars
             PROVE  HInv'
  OBVIOUS
<1>1. ASSUME NEW s \in Sessions, Step(s)
      PROVE  HInv'
  <2>1. CASE Body(s)
    BY <2>1, BodyHInv
  <2>2. ASSUME NEW g \in touched[s], Recompute(s, g)
        PROVE  HInv'
    BY <2>2, RecomputeHInv
  <2>3. CASE Commit(s)
    BY <2>3, CommitHInv
  <2>4. CASE Rollback(s)
    BY <2>4, EndTransactionHInv DEF Rollback
  <2>5. CASE RemoveStage(s)
    BY <2>5, RemoveStageHInv
  <2>6. CASE Enter(s) \/ LockTimeout(s) \/ Return(s)
    BY <2>6, SessionHInv
  <2> QED  BY <1>1, <2>1, <2>2, <2>3, <2>4, <2>5, <2>6 DEF Step
<1>2. ASSUME NEW s \in Sessions, \/ \E q \in Calls : Call(s, q)
                                 \/ LoseReply(s)
      PROVE  HInv'
  BY <1>2, SessionHInv
<1>3. ASSUME NEW s \in Sessions, Abort(s)
      PROVE  HInv'
  BY <1>3, EndTransactionHInv DEF Abort
<1>4. CASE UNCHANGED <<db, pc, req, txn, touched, reply>>
  BY <1>4, QuietHInv DEF HInv, AnswersTrue
<1>5. ASSUME NEW k \in Recorded, Upload(k)
      PROVE  HInv'
  BY <1>4, <1>5 DEF Upload
<1>6. CASE AlterConsistency \/ UNCHANGED vars
  BY <1>4, <1>6 DEF AlterConsistency, vars
<1> QED  BY <1>1, <1>2, <1>3, <1>5, <1>6 DEF Next

\* Files leave the stage only by delete_roast's last step.
LEMMA OnlyRemovals ==
  ASSUME IInv, [Next]_vars, NEW k \in stage \ stage'
  PROVE  \E s \in Sessions : pc[s] = "removing" /\ k = req[s].key
<1>1. ASSUME NEW s \in Sessions, Body(s)
      PROVE  stage' = stage
  BY <1>1, BodyLeaves DEF Leaves, BodyDone, Refuse
<1>2. ASSUME NEW s \in Sessions, Step(s)
      PROVE  pc[s] = "removing" /\ k = req[s].key
  BY <1>1, <1>2 DEF Step, Enter, LockTimeout, Recompute, Commit, Rollback, EndTransaction,
     RemoveStage, Return
<1> QED  BY <1>2 DEF Next, vars, Call, Abort, EndTransaction, LoseReply, Upload,
     AlterConsistency

-----------------------------------------------------------------------------
(* What follows for every behavior of the write plane.                     *)

\* The invariant holds always: in particular a writer past its body has done
\* one effect to the tables as they are committed.
THEOREM HistoryInvariance == Spec => []HInv
<1>1. IInv /\ HInv /\ [Next]_vars => HInv'
  BY NextIInv, NextHInv
<1> QED  BY InitHInv, <1>1, Invariance, PTL DEF Spec

\* Every roast has one revision row per field, and no row is left of a roast
\* that is gone.
THEOREM RevisionRowsComplete == Spec => []RevisionRows
<1>1. HInv => RevisionRows
  BY DEF HInv, RevisionRows
<1> QED  BY <1>1, HistoryInvariance, PTL

\* No row is ahead of write_seq, and write_seq orders the deletions.
THEOREM SequencesOrderDeletions == Spec => []Sequences
<1>1. HInv => Sequences
  BY DEF HInv, Sequences
<1> QED  BY <1>1, HistoryInvariance, PTL

\* No commit leaves the summary of a group behind that it changes, but that of
\* a seed whose artifact passes over a group of its own roasts.
THEOREM SummariesFollowCommits == Spec => SummariesFollow
<1>1. IInv /\ IInv' /\ HInv /\ [Next]_vars => [GroupsFollowed]_db
  <2> SUFFICES ASSUME IInv, IInv', HInv, [Next]_vars, db' # db
               PROVE  GroupsFollowed
    OBVIOUS
  <2>1. PICK s \in Sessions : Commit(s)
    BY OnlyCommits
  <2>2. lock = s
    BY <2>1 DEF Commit, IInv, ReadsCurrent, InTransaction
  <2> QED  BY <2>1, <2>2, CommitHInv DEF GroupsFollowed
<1> QED  BY <1>1, Invariance, HistoryInvariance, PTL DEF Spec, SummariesFollow

\* Whatever writers do afterwards, what a client was told stays true.
THEOREM AnswersStayTrue == Spec => []AnswersStand
<1>1. HInv => AnswersStand
  BY StandsTold DEF HInv, AnswersTrue, Answered, AnswersStand
<1> QED  BY <1>1, HistoryInvariance, PTL

\* delete_roast removes files outside its transaction, and only of dead runs.
THEOREM RemovalsOnlyOfTheDead == Spec => RemovesOnlyDead
<1>1. IInv /\ HInv /\ [Next]_vars => [\A k \in stage \ stage' : TombstonedKey(db, k)]_stage
  BY OnlyRemovals DEF HInv, RemovesDead
<1> QED  BY <1>1, Invariance, HistoryInvariance, PTL DEF Spec, RemovesOnlyDead

\* A value changes only with a greater revision, in every commit.
THEOREM ValuesFollow == Spec => ValuesFollowRevisions
<1>1. IInv /\ IInv' /\ HInv /\ [Next]_vars => [FieldsFollow(db, db')]_db
  <2> SUFFICES ASSUME IInv, IInv', HInv, [Next]_vars, db' # db
               PROVE  FieldsFollow(db, db')
    OBVIOUS
  <2>1. Later(db, db')
    BY OnlyCommits, CommitHInv
  <2> QED  BY <2>1, LaterFieldsFollow DEF IInv
<1> QED  BY <1>1, Invariance, HistoryInvariance, PTL DEF Spec, ValuesFollowRevisions

-----------------------------------------------------------------------------
(* Reading the ledger off consistent tables.                               *)

Registers(d, r) ==
  [f \in Fields |-> [revision |-> StoredRevision(d, r.id, f), value |-> r.value[f]]]

DeadEntry(t) == [state |-> "dead", id |-> t.id, slug |-> t.slug]

LiveEntry(d, r) ==
  [state |-> "live", id |-> r.id, slug |-> r.slug, fields |-> Registers(d, r)]

LEMMA EntryOfTombstone ==
  ASSUME NEW d, Consistent(d), NEW t \in d.tombstones
  PROVE  LedgerEntry(d, t.key) = DeadEntry(t)
<1> DEFINE c == CHOOSE u \in d.tombstones : u.key = t.key
<1>1. c \in d.tombstones /\ c.key = t.key
  OBVIOUS
<1>2. c = t
  BY <1>1 DEF Consistent, IdentitiesExclusive
<1>3. TombstonedKey(d, t.key)
  BY DEF TombstonedKey
<1> QED  BY <1>2, <1>3 DEF LedgerEntry, DeadEntry

LEMMA EntryOfRoast ==
  ASSUME NEW d, Consistent(d), NEW r \in d.roasts
  PROVE  LedgerEntry(d, r.key) = LiveEntry(d, r)
<1> DEFINE c == CHOOSE x \in d.roasts : x.key = r.key
<1>1. c \in d.roasts /\ c.key = r.key
  OBVIOUS
<1>2. c = r
  BY <1>1 DEF Consistent, IdentitiesExclusive, DistinctIdentities
<1>3. ~TombstonedKey(d, r.key)
  BY DEF Consistent, IdentitiesExclusive, TombstonedKey
<1>4. RoastsByKey(d, r.key) # {}
  BY DEF RoastsByKey
<1> QED  BY <1>2, <1>3, <1>4 DEF LedgerEntry, LiveEntry, Registers

LEMMA EntryOfNobody ==
  ASSUME NEW d, NEW k, ~TombstonedKey(d, k), RoastsByKey(d, k) = {}
  PROVE  LedgerEntry(d, k) = [state |-> "unknown"]
BY DEF LedgerEntry

\* What an entry says of the tables.
LEMMA EntryStates ==
  ASSUME NEW d, Consistent(d), NEW k
  PROVE  \/ \E t \in d.tombstones : t.key = k /\ LedgerEntry(d, k) = DeadEntry(t)
         \/ \E r \in d.roasts : r.key = k /\ LedgerEntry(d, k) = LiveEntry(d, r)
         \/ /\ ~TombstonedKey(d, k) /\ RoastsByKey(d, k) = {}
            /\ LedgerEntry(d, k) = [state |-> "unknown"]
<1>1. CASE TombstonedKey(d, k)
  BY <1>1, EntryOfTombstone DEF TombstonedKey
<1>2. CASE RoastsByKey(d, k) # {}
  BY <1>2, EntryOfRoast DEF RoastsByKey
<1>3. CASE ~TombstonedKey(d, k) /\ RoastsByKey(d, k) = {}
  BY <1>3, EntryOfNobody
<1> QED  BY <1>1, <1>2, <1>3

\* A run whose rows did not change keeps its entry.
LEMMA EntryKept ==
  ASSUME NEW d, NEW e, Consistent(d), Consistent(e), NEW k,
         \A t : t.key = k => (t \in e.tombstones <=> t \in d.tombstones),
         \A r : r.key = k => (r \in e.roasts <=> r \in d.roasts),
         \A r \in d.roasts : r.key = k => \A f \in Fields :
           StoredRevision(e, r.id, f) = StoredRevision(d, r.id, f)
  PROVE  LedgerEntry(e, k) = LedgerEntry(d, k)
<1>1. ASSUME NEW t \in d.tombstones, t.key = k
      PROVE  LedgerEntry(e, k) = LedgerEntry(d, k)
  BY <1>1, EntryOfTombstone
<1>2. ASSUME NEW r \in d.roasts, r.key = k
      PROVE  LedgerEntry(e, k) = LedgerEntry(d, k)
  <2>1. r \in e.roasts
    BY <1>2
  <2>2. Registers(e, r) = Registers(d, r)
    BY <1>2 DEF Registers
  <2>3. LedgerEntry(e, k) = LiveEntry(e, r) /\ LedgerEntry(d, k) = LiveEntry(d, r)
    BY <1>2, <2>1, EntryOfRoast
  <2> QED  BY <2>2, <2>3 DEF LiveEntry
<1>3. CASE ~TombstonedKey(d, k) /\ RoastsByKey(d, k) = {}
  <2>1. ~TombstonedKey(e, k) /\ RoastsByKey(e, k) = {}
    BY <1>3 DEF TombstonedKey, RoastsByKey
  <2> QED  BY <1>3, <2>1, EntryOfNobody
<1> QED  BY <1>1, <1>2, <1>3 DEF TombstonedKey, RoastsByKey

-----------------------------------------------------------------------------
(* Each kind of change is a step of the ledger.                            *)

\* No run of ledger L has this id or slug.
UnclaimedIn(L, i, g) ==
  \A k \in Keys : L[k].state # "unknown" =>
    L[k].slug # g /\ (i # NoId => L[k].id # i)

LEMMA Unclaims ==
  ASSUME NEW d, Consistent(d), NEW i, NEW g,
         \A t \in d.tombstones : t.slug # g /\ (i # NoId => t.id # i),
         \A r \in d.roasts : r.slug # g /\ (i # NoId => r.id # i)
  PROVE  UnclaimedIn(LedgerOf(d), i, g)
<1> SUFFICES ASSUME NEW k \in Keys, LedgerEntry(d, k).state # "unknown"
             PROVE  /\ LedgerEntry(d, k).slug # g
                    /\ i # NoId => LedgerEntry(d, k).id # i
  BY DEF UnclaimedIn, LedgerOf
<1> QED  BY EntryStates DEF DeadEntry, LiveEntry

\* From d to e the runs in K become live with the entries E.
Enters(d, e, K, E) ==
  /\ K # {}
  /\ \A k \in K : LedgerEntry(d, k).state = "unknown"
  /\ \A k \in K : UnclaimedIn(LedgerOf(d), E[k].id, E[k].slug)
  /\ LedgerOf(e) = [k \in Keys |-> IF k \in K THEN E[k] ELSE LedgerOf(d)[k]]

LEMMA PublishesEntries ==
  ASSUME NEW d, NEW e, Consistent(d), RevisionsComplete(d), Consistent(e),
         NEW R, Publishes(d, e, R)
  PROVE  \E K \in SUBSET Keys : \E E \in Ledger!FirstEntries(K) : Enters(d, e, K, E)
<1> DEFINE K == {r.key : r \in R}
           E == [k \in K |-> LedgerEntry(e, k)]
           S == [state : {"live"}, id : Ids, slug : Slugs,
                 fields : [Fields -> [revision : {0}, value : BOOLEAN]]]
           first(r) == [f \in Fields |-> [revision |-> 0, value |-> r.value[f]]]
<1>1. /\ R # {} /\ R \subseteq Roast
      /\ \A a, b \in R : a.id = b.id \/ a.key = b.key \/ a.slug = b.slug => a = b
      /\ \A r \in R :
           /\ \A x \in d.roasts : x.id # r.id /\ x.key # r.key /\ x.slug # r.slug
           /\ \A t \in d.tombstones : t.id # r.id /\ t.key # r.key /\ t.slug # r.slug
      /\ e.roasts = d.roasts \cup R
      /\ e.tombstones = d.tombstones
  BY DEF Publishes, NewIdentities, DistinctIdentities
<1>2. /\ \A r \in d.roasts : \A f \in Fields :
           StoredRevision(e, r.id, f) = StoredRevision(d, r.id, f)
      /\ \A r \in R : \A f \in Fields : StoredRevision(e, r.id, f) = 0
  BY PublishedRevisions
<1>3. K \in SUBSET Keys /\ K # {}
  BY <1>1 DEF Roast
<1>4. ASSUME NEW r \in R
      PROVE  /\ E[r.key] \in S
             /\ E[r.key].id = r.id
             /\ E[r.key].slug = r.slug
  <2>1. Registers(e, r) = first(r)
    BY <1>2 DEF Registers
  <2>2. LedgerEntry(e, r.key) = LiveEntry(e, r)
    BY <1>1, EntryOfRoast
  <2>3. E[r.key] = LiveEntry(e, r)
    BY <2>2
  <2>4. first(r) \in [Fields -> [revision : {0}, value : BOOLEAN]]
    BY <1>1 DEF Roast
  <2>5. r.id \in Ids /\ r.slug \in Slugs
    BY <1>1 DEF Roast
  <2> HIDE DEF first, K, E
  <2> QED  BY <2>1, <2>3, <2>4, <2>5 DEF LiveEntry
<1>5. E \in Ledger!FirstEntries(K)
  <2>1. ASSUME NEW k \in K
        PROVE  \E r \in R : k = r.key
    OBVIOUS
  <2>2. E \in [K -> S]
    <3>1. \A k \in K : E[k] \in S
      <4> HIDE DEF E, S, K
      <4> QED  BY <1>4, <2>1
    <3> HIDE DEF K, S
    <3> QED  BY <3>1
  <2>3. ASSUME NEW j \in K, NEW k \in K, j # k
        PROVE  E[j].id # E[k].id /\ E[j].slug # E[k].slug
    <3> HIDE DEF E, S, K
    <3>1. PICK a \in R, b \in R : j = a.key /\ k = b.key
      BY <2>1
    <3>2. /\ E[j].id = a.id /\ E[j].slug = a.slug
          /\ E[k].id = b.id /\ E[k].slug = b.slug
      BY <1>4, <3>1
    <3> QED  BY <1>1, <2>3, <3>1, <3>2
  <2> HIDE DEF E, K
  <2> QED  BY <2>2, <2>3 DEF Ledger!FirstEntries
<1>6. ASSUME NEW k \in K
      PROVE  /\ LedgerEntry(d, k).state = "unknown"
             /\ UnclaimedIn(LedgerOf(d), E[k].id, E[k].slug)
  <2>1. PICK r \in R : k = r.key
    OBVIOUS
  <2>2. LedgerEntry(d, k) = [state |-> "unknown"]
    BY <1>1, <2>1, EntryOfNobody DEF TombstonedKey, RoastsByKey
  <2>3. E[k].id = r.id /\ E[k].slug = r.slug
    <3> HIDE DEF E, K, S
    <3> QED  BY <1>4, <2>1
  <2>4. UnclaimedIn(LedgerOf(d), r.id, r.slug)
    BY <1>1, Unclaims
  <2> QED  BY <2>2, <2>3, <2>4
<1>7. ASSUME NEW k \in Keys, k \notin K
      PROVE  LedgerEntry(e, k) = LedgerEntry(d, k)
  <2>1. \A r : r.key = k => (r \in e.roasts <=> r \in d.roasts)
    BY <1>1, <1>7
  <2> HIDE DEF K
  <2> QED  BY <1>1, <1>2, <2>1, EntryKept
<1>8. LedgerOf(e) = [k \in Keys |-> IF k \in K THEN E[k] ELSE LedgerOf(d)[k]]
  <2> HIDE DEF K
  <2> QED  BY <1>7 DEF LedgerOf
<1> HIDE DEF K, E
<1> QED  BY <1>3, <1>5, <1>6, <1>8 DEF Enters

\* From d to e the registers F of run k move on to new.
Moves(d, e, k, F, new) ==
  /\ F # {}
  /\ k \in Keys
  /\ LedgerEntry(d, k).state = "live"
  /\ \A f \in F : new[f].revision > LedgerEntry(d, k).fields[f].revision
  /\ LedgerOf(e) = [LedgerOf(d) EXCEPT ![k].fields =
       [f \in Fields |-> IF f \in F THEN new[f] ELSE @[f]]]

LEMMA RevisesRegisters ==
  ASSUME NEW d, NEW e, Consistent(d), RevisionsComplete(d), Consistent(e),
         NEW q, NEW r, Revises(d, q, e, r), LedgerOf(e) # LedgerOf(d)
  PROVE  \E F \in SUBSET Fields : \E new \in [F -> Ledger!Register] :
           Moves(d, e, r.key, F, new)
<1> DEFINE A == AppliedFields(d, q, r)
           row == PatchedRow(q, r, A)
           new == [f \in A |-> [revision |-> q.fields[f].revision,
                                value |-> q.fields[f].value]]
           registers == [f \in Fields |-> IF f \in A THEN new[f] ELSE Registers(d, r)[f]]
<1>1. /\ A \subseteq Fields
      /\ \A f \in A : /\ q.fields[f].value \in BOOLEAN
                      /\ q.fields[f].revision \in 1..MaxRevision
                      /\ q.fields[f].revision > StoredRevision(d, r.id, f)
      /\ e.roasts = (d.roasts \ {r}) \cup {row}
      /\ row.id = r.id /\ row.key = r.key /\ row.slug = r.slug
      /\ \A f \in Fields :
           row.value[f] = IF f \in A THEN q.fields[f].value ELSE r.value[f]
      /\ e.tombstones = d.tombstones
      /\ r \in d.roasts
  BY RevisedRows DEF Revises
<1>2. /\ \A x \in d.roasts : \A f \in Fields : x # r =>
           StoredRevision(e, x.id, f) = StoredRevision(d, x.id, f)
      /\ \A f \in Fields : StoredRevision(e, r.id, f) =
           IF f \in A THEN q.fields[f].revision ELSE StoredRevision(d, r.id, f)
  BY RevisedRevisions
<1>3. \A x \in d.roasts : x.key = r.key => x = r
  BY <1>1 DEF Consistent, IdentitiesExclusive, DistinctIdentities
<1>4. r.key \in Keys
  BY <1>1 DEF Consistent, Sound, Tables, Roast
<1> HIDE DEF A, row
<1>5. LedgerEntry(d, r.key) = LiveEntry(d, r) /\ LedgerEntry(e, r.key) = LiveEntry(e, row)
  BY <1>1, EntryOfRoast
<1>6. Registers(e, row) = registers
  BY <1>1, <1>2 DEF Registers
<1>7. new \in [A -> Ledger!Register]
  BY <1>1, TablesAssumption DEF Ledger!Register
<1>8. ASSUME NEW k \in Keys, k # r.key
      PROVE  LedgerEntry(e, k) = LedgerEntry(d, k)
  <2>1. \A x : x.key = k => (x \in e.roasts <=> x \in d.roasts)
    BY <1>1, <1>8
  <2> QED  BY <1>1, <1>2, <1>8, <2>1, EntryKept
<1>9. LedgerEntry(e, r.key) = [LedgerEntry(d, r.key) EXCEPT !.fields = registers]
  <2> HIDE DEF registers
  <2> QED  BY <1>1, <1>5, <1>6 DEF LiveEntry
<1>10. A # {}
  <2> SUFFICES ASSUME A = {}
               PROVE  FALSE
    OBVIOUS
  <2>1. registers = Registers(d, r)
    BY DEF Registers
  <2>2. LedgerEntry(e, r.key) = LedgerEntry(d, r.key)
    BY <1>5, <1>9, <2>1 DEF LiveEntry
  <2> QED  BY <1>8, <2>2 DEF LedgerOf
<1>11. \A f \in A : new[f].revision > LedgerEntry(d, r.key).fields[f].revision
  BY <1>1, <1>5 DEF LiveEntry, Registers
<1>12. LedgerOf(e) = [LedgerOf(d) EXCEPT ![r.key].fields =
         [f \in Fields |-> IF f \in A THEN new[f] ELSE @[f]]]
  <2>1. LedgerEntry(d, r.key).fields = Registers(d, r)
    BY <1>5 DEF LiveEntry
  <2>2. LedgerOf(e) = [LedgerOf(d) EXCEPT ![r.key].fields = registers]
    <3> HIDE DEF registers
    <3> QED  BY <1>4, <1>8, <1>9 DEF LedgerOf
  <2>3. LedgerOf(d)[r.key].fields = Registers(d, r)
    BY <1>4, <2>1 DEF LedgerOf
  <2>4. [LedgerOf(d) EXCEPT ![r.key].fields =
           [f \in Fields |-> IF f \in A THEN new[f] ELSE @[f]]]
          = [LedgerOf(d) EXCEPT ![r.key].fields =
              [f \in Fields |-> IF f \in A THEN new[f] ELSE LedgerOf(d)[r.key].fields[f]]]
    OBVIOUS
  <2>5. registers =
          [f \in Fields |-> IF f \in A THEN new[f] ELSE LedgerOf(d)[r.key].fields[f]]
    BY <2>3
  <2> QED  BY <2>2, <2>4, <2>5
<1>13. LedgerEntry(d, r.key).state = "live"
  BY <1>5 DEF LiveEntry
<1>14. A \in SUBSET Fields
  BY <1>1
<1> HIDE DEF new
<1> QED  BY <1>4, <1>7, <1>10, <1>11, <1>12, <1>13, <1>14 DEF Moves

LEMMA BuriesEntry ==
  ASSUME NEW d, NEW e, Consistent(d), RevisionsComplete(d), Consistent(e),
         NEW q, NEW r, Buries(d, q, e, r)
  PROVE  /\ r.key \in Keys
         /\ LedgerEntry(d, r.key).state = "live"
         /\ LedgerOf(e) = [LedgerOf(d) EXCEPT ![r.key] = Ledger!Dead(@.id, @.slug)]
<1> DEFINE t == TombstoneFor(q, r.id, d.seq)
<1>1. /\ r \in d.roasts /\ r.key = q.key /\ r.slug = q.slug
      /\ e.roasts = d.roasts \ {r}
      /\ e.tombstones = d.tombstones \cup {t}
      /\ \A x \in d.roasts : x # r => x.key # r.key
  BY BuriedRows
<1>2. \A x \in d.roasts : \A f \in Fields : x # r =>
        StoredRevision(e, x.id, f) = StoredRevision(d, x.id, f)
  BY BuriedRevisions
<1>3. t.id = r.id /\ t.key = r.key /\ t.slug = r.slug
  BY <1>1 DEF TombstoneFor
<1> HIDE DEF t
<1>4. r.key \in Keys
  BY <1>1 DEF Consistent, Sound, Tables, Roast
<1>5. LedgerEntry(d, r.key) = LiveEntry(d, r) /\ LedgerEntry(e, r.key) = DeadEntry(t)
  BY <1>1, <1>3, EntryOfRoast, EntryOfTombstone
<1>6. ASSUME NEW k \in Keys, k # r.key
      PROVE  LedgerEntry(e, k) = LedgerEntry(d, k)
  <2>1. /\ \A x : x.key = k => (x \in e.roasts <=> x \in d.roasts)
        /\ \A u : u.key = k => (u \in e.tombstones <=> u \in d.tombstones)
    BY <1>1, <1>3, <1>6
  <2> QED  BY <1>1, <1>2, <1>6, <2>1, EntryKept
<1>7. LedgerEntry(e, r.key) = Ledger!Dead(LedgerEntry(d, r.key).id, LedgerEntry(d, r.key).slug)
  BY <1>3, <1>5 DEF LiveEntry, DeadEntry, Ledger!Dead
<1>8. LedgerOf(e) = [LedgerOf(d) EXCEPT ![r.key] = Ledger!Dead(@.id, @.slug)]
  BY <1>4, <1>6, <1>7 DEF LedgerOf
<1> QED  BY <1>4, <1>5, <1>8 DEF LiveEntry

LEMMA ForbidsEntry ==
  ASSUME NEW d, NEW e, Consistent(d), RevisionsComplete(d), Consistent(e),
         NEW q, Forbids(d, q, e)
  PROVE  /\ q.key \in Keys /\ q.slug \in Slugs
         /\ LedgerEntry(d, q.key).state = "unknown"
         /\ UnclaimedIn(LedgerOf(d), NoId, q.slug)
         /\ LedgerOf(e) = [LedgerOf(d) EXCEPT ![q.key] = Ledger!Dead(NoId, q.slug)]
<1> DEFINE t == TombstoneFor(q, NoId, d.seq)
<1>1. /\ e.roasts = d.roasts
      /\ e.revisions = d.revisions
      /\ e.tombstones = d.tombstones \cup {t}
  BY DEF Forbids, SameRows, TombstonedWithoutRow, Consistent, Sound, Tables
<1>2. /\ q.key \in Keys /\ q.slug \in Slugs
      /\ ~TombstonedKey(d, q.key) /\ ~TombstonedSlug(d, q.slug)
      /\ RoastsByKey(d, q.key) = {} /\ RoastsBySlug(d, q.slug) = {}
  BY DEF Forbids, DeleteAbsentAdmitted, DeleteRequest
<1>3. t.id = NoId /\ t.key = q.key /\ t.slug = q.slug
  BY DEF TombstoneFor
<1> HIDE DEF t
<1>4. LedgerEntry(d, q.key) = [state |-> "unknown"]
  BY <1>2, EntryOfNobody
<1>5. LedgerEntry(e, q.key) = DeadEntry(t)
  BY <1>1, <1>3, EntryOfTombstone
<1>6. ASSUME NEW k \in Keys, k # q.key
      PROVE  LedgerEntry(e, k) = LedgerEntry(d, k)
  <2>1. \A u : u.key = k => (u \in e.tombstones <=> u \in d.tombstones)
    BY <1>1, <1>3, <1>6
  <2>2. \A i : \A f \in Fields : StoredRevision(e, i, f) = StoredRevision(d, i, f)
    BY <1>1, SameRevisions
  <2> QED  BY <1>1, <2>1, <2>2, EntryKept
<1>7. UnclaimedIn(LedgerOf(d), NoId, q.slug)
  BY <1>2, Unclaims DEF TombstonedSlug, RoastsBySlug
<1>8. LedgerOf(e) = [LedgerOf(d) EXCEPT ![q.key] = Ledger!Dead(NoId, q.slug)]
  BY <1>2, <1>3, <1>5, <1>6 DEF LedgerOf, DeadEntry, Ledger!Dead
<1> QED  BY <1>2, <1>4, <1>7, <1>8

LEMMA AttendsNothing ==
  ASSUME NEW d, NEW e, Consistent(d), RevisionsComplete(d), Consistent(e), Attends(d, e)
  PROVE  LedgerOf(e) = LedgerOf(d)
<1>1. e.roasts = d.roasts /\ e.tombstones = d.tombstones /\ e.revisions = d.revisions
  BY DEF Attends
<1>2. \A i : \A f \in Fields : StoredRevision(e, i, f) = StoredRevision(d, i, f)
  BY <1>1, SameRevisions
<1>3. \A k : LedgerEntry(e, k) = LedgerEntry(d, k)
  BY <1>1, <1>2, EntryKept
<1> QED  BY <1>3 DEF LedgerOf

-----------------------------------------------------------------------------
(* The refinement.                                                         *)

\* The first tables amount to an initial ledger.
LEMMA InitLedger == Init => Ledger!Init
<1> SUFFICES ASSUME Init
             PROVE  Ledger!Init
  OBVIOUS
<1>1. \A k \in Keys : LedgerEntry(EmptyTables, k) = Ledger!Unknown
  BY EntryOfNobody DEF EmptyTables, TombstonedKey, RoastsByKey, Ledger!Unknown
<1>2. CASE db = EmptyTables
  <2>1. [k \in {} |-> Ledger!Unknown] \in Ledger!FirstEntries({})
    BY DEF Ledger!FirstEntries
  <2>2. LedgerOf(db) = [k \in Keys |-> Ledger!Unknown]
    BY <1>1, <1>2 DEF LedgerOf
  <2>3. LedgerOf(db) = [k \in Keys |-> IF k \in {} THEN [j \in {} |-> Ledger!Unknown][k]
                                                   ELSE Ledger!Unknown]
    BY <2>2
  <2> QED  BY <2>1, <2>3 DEF Ledger!Init
<1>3. ASSUME NEW r \in LegacyRoasts, db = Migrated(r)
      PROVE  Ledger!Init
  <2>1. r \in Roast
    BY CallsAssumption
  <2>2. /\ db.roasts = {r} /\ db.revisions = FirstRevisions(r.id, 0)
        /\ db.tombstones = {} /\ db.reviews = {} /\ db.telemetry = {}
    BY <1>3 DEF Migrated, EmptyTables, Recomputed
  <2>3. /\ EmptyTables.roasts = {} /\ EmptyTables.tombstones = {}
        /\ EmptyTables.revisions = {} /\ EmptyTables.seq = 0
        /\ EmptyTables.reviews = {} /\ EmptyTables.telemetry = {}
    BY DEF EmptyTables
  <2>4. Publishes(EmptyTables, db, {r})
    <3>1. UNION {FirstRevisions(x.id, 0) : x \in {r}} = FirstRevisions(r.id, 0)
      OBVIOUS
    <3>2. NewIdentities(EmptyTables, {r})
      BY <2>1, <2>3 DEF NewIdentities, DistinctIdentities
    <3> QED  BY <2>2, <2>3, <3>1, <3>2 DEF Publishes
  <2>5. Consistent(EmptyTables) /\ RevisionsComplete(EmptyTables) /\ Consistent(db)
    BY <2>3, EmptyConsistent, InitIInv DEF RevisionsComplete, IInv
  <2>6. PICK K \in SUBSET Keys : \E E \in Ledger!FirstEntries(K) :
               Enters(EmptyTables, db, K, E)
    BY <2>4, <2>5, PublishesEntries
  <2>7. PICK E \in Ledger!FirstEntries(K) : Enters(EmptyTables, db, K, E)
    BY <2>6
  <2>8. LedgerOf(db) = [k \in Keys |-> IF k \in K THEN E[k] ELSE Ledger!Unknown]
    BY <1>1, <2>7 DEF Enters, LedgerOf
  <2> QED  BY <2>6, <2>8 DEF Ledger!Init
<1> QED  BY <1>2, <1>3 DEF Init

\* Every step of the write plane is a step of the ledger, or none of its steps.
LEMMA StepLedger ==
  ASSUME IInv, IInv', HInv, [Next]_vars, LedgerOf(db') # LedgerOf(db)
  PROVE  Ledger!Next
<1>1. PICK s \in Sessions : Commit(s)
  BY OnlyCommits
<1>2. /\ pc[s] = "recompute" /\ db' = txn[s] /\ txn[s].seq > db.seq
      /\ txn[s].seq \in 0..MaxSeq
      /\ req[s] \in Request
      /\ Consistent(db') /\ Consistent(db)
  BY <1>1, CallsAssumption
     DEF Commit, IInv, TransactionsConsistent, Writing, Called, Consistent, Sound, Tables
<1>3. Consistent(Entered) /\ RevisionsComplete(Entered)
  <2>1. db.seq < MaxSeq
    BY <1>2, EnteredRows, TablesAssumption
  <2> QED  BY <2>1, EnteredKeeps
<1>4. LedgerOf(Entered) = LedgerOf(db)
  <2>1. \A k \in Keys : LedgerEntry(Entered, k) = LedgerEntry(db, k)
    BY <1>2, <1>3, EnteredRows, EntryKept
  <2> QED  BY <2>1 DEF LedgerOf
<1>5. PICK G, a : Effect(Entered, req[s], db', G, a)
  BY <1>2 DEF HInv, OneEffect
<1>6. \A k \in Keys : LedgerEntry(Entered, k) = LedgerOf(db)[k]
  BY <1>4 DEF LedgerOf
<1>7. \A i, g : UnclaimedIn(LedgerOf(db), i, g) => Ledger!Unclaimed(i, g)
  BY DEF UnclaimedIn, Ledger!Unclaimed, Ledger!Known
<1>8. ASSUME NEW R, Publishes(Entered, db', R)
      PROVE  Ledger!Publish
  <2>1. PICK K \in SUBSET Keys : \E E \in Ledger!FirstEntries(K) : Enters(Entered, db', K, E)
    BY <1>2, <1>3, <1>8, PublishesEntries
  <2>2. PICK E \in Ledger!FirstEntries(K) : Enters(Entered, db', K, E)
    BY <2>1
  <2>3. K \in (SUBSET {k \in Keys : ~Ledger!Known(k)}) \ {{}}
    BY <1>6, <2>1, <2>2 DEF Enters, Ledger!Known
  <2>4. \A k \in K : Ledger!Unclaimed(E[k].id, E[k].slug)
    BY <1>4, <1>7, <2>2 DEF Enters
  <2>5. LedgerOf(db') = [k \in Keys |-> IF k \in K THEN E[k] ELSE LedgerOf(db)[k]]
    BY <1>4, <2>2 DEF Enters
  <2> QED  BY <2>2, <2>3, <2>4, <2>5 DEF Ledger!Publish
<1>9. ASSUME NEW r, Revises(Entered, req[s], db', r)
      PROVE  Ledger!Revise
  <2>1. PICK F \in SUBSET Fields : \E new \in [F -> Ledger!Register] :
               Moves(Entered, db', r.key, F, new)
    BY <1>2, <1>3, <1>4, <1>9, RevisesRegisters
  <2>2. PICK new \in [F -> Ledger!Register] : Moves(Entered, db', r.key, F, new)
    BY <2>1
  <2>3. /\ F \in (SUBSET Fields) \ {{}}
        /\ r.key \in {j \in Keys : LedgerOf(db)[j].state = "live"}
        /\ \A f \in F : new[f].revision > LedgerOf(db)[r.key].fields[f].revision
        /\ LedgerOf(db') = [LedgerOf(db) EXCEPT ![r.key].fields =
             [f \in Fields |-> IF f \in F THEN new[f] ELSE @[f]]]
    BY <1>4, <1>6, <2>1, <2>2 DEF Moves
  <2> SUFFICES \E k \in {j \in Keys : LedgerOf(db)[j].state = "live"} :
               \E H \in (SUBSET Fields) \ {{}} : \E more \in [H -> Ledger!Register] :
                 /\ \A f \in H : more[f].revision > LedgerOf(db)[k].fields[f].revision
                 /\ LedgerOf(db') = [LedgerOf(db) EXCEPT ![k].fields =
                      [f \in Fields |-> IF f \in H THEN more[f] ELSE @[f]]]
    BY DEF Ledger!Revise
  <2> USE <2>2, <2>3
  <2> WITNESS r.key \in {j \in Keys : LedgerOf(db)[j].state = "live"}
  <2> WITNESS F \in (SUBSET Fields) \ {{}}
  <2> WITNESS new \in [F -> Ledger!Register]
  <2> QED  OBVIOUS
<1>10. ASSUME NEW r, Buries(Entered, req[s], db', r)
       PROVE  Ledger!Retire
  <2>1. /\ r.key \in Keys
        /\ LedgerEntry(Entered, r.key).state = "live"
        /\ LedgerOf(db') =
             [LedgerOf(Entered) EXCEPT ![r.key] = Ledger!Dead(@.id, @.slug)]
    BY <1>2, <1>3, <1>10, BuriesEntry
  <2> QED  BY <1>4, <1>6, <2>1 DEF Ledger!Retire
<1>11. ASSUME Forbids(Entered, req[s], db')
       PROVE  Ledger!Forbid
  <2> DEFINE q == req[s]
  <2>1. /\ q.key \in Keys /\ q.slug \in Slugs
        /\ LedgerEntry(Entered, q.key).state = "unknown"
        /\ UnclaimedIn(LedgerOf(Entered), NoId, q.slug)
        /\ LedgerOf(db') = [LedgerOf(Entered) EXCEPT ![q.key] = Ledger!Dead(NoId, q.slug)]
    BY <1>2, <1>3, <1>11, ForbidsEntry
  <2>2. /\ ~Ledger!Known(q.key)
        /\ Ledger!Unclaimed(NoId, q.slug)
        /\ LedgerOf(db') = [LedgerOf(db) EXCEPT ![q.key] = Ledger!Dead(NoId, q.slug)]
    BY <1>4, <1>6, <1>7, <2>1 DEF Ledger!Known
  <2> HIDE DEF q
  <2> QED  BY <2>1, <2>2 DEF Ledger!Forbid
<1>12. ~Attends(Entered, db')
  BY <1>2, <1>3, <1>4, AttendsNothing
<1> QED  BY <1>2, <1>3, <1>5, <1>8, <1>9, <1>10, <1>11, <1>12, EffectKinds DEF Ledger!Next

\* The write plane implements the ledger, step by step: whatever procedures
\* run in whatever interleaving, with aborts, timeouts and lost answers, an
\* identity lives once and is never revived or rebound, and a register moves
\* only to a greater revision.
THEOREM ImplementsLedger == Spec => KeepsLedger
<1>1. IInv /\ IInv' /\ HInv /\ [Next]_vars => [Ledger!Next]_(LedgerOf(db))
  BY StepLedger
<1> QED  BY <1>1, InitLedger, Invariance, HistoryInvariance, PTL DEF Spec, KeepsLedger, Ledger!Spec

================================================================================
