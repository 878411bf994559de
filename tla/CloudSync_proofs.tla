---------------------------- MODULE CloudSync_proofs ----------------------------
(***************************************************************************)
(* Safety of the write plane for any sessions, keys, slugs, roasts, calls  *)
(* and limits.  The inductive invariant says, besides the types: who is in *)
(* a transaction holds the lock alone and started from the tables as last  *)
(* committed; what it has built so far is consistent and carries a greater *)
(* write_seq; and a session that is not idle has a request.                *)
(***************************************************************************)
EXTENDS CloudSync, FiniteSetTheorems, TLAPS

(* What the body of each writer preserves, whatever the tables, the keys   *)
(* and the request are: the type of the tables, their finiteness, that     *)
(* identities are exclusive, and that nothing outlives its roast.          *)

\* Only finitely many rows were ever inserted.
Finite(d) == IsFiniteSet(d.roasts) /\ IsFiniteSet(d.reviews)

Sound(d) == d \in Tables /\ Finite(d)

LEMMA FiniteImage ==
  ASSUME NEW S, IsFiniteSet(S), NEW f, DOMAIN f = S
  PROVE  IsFiniteSet({f[x] : x \in S})
<1> DEFINE g == [x \in S |-> f[x]]
           T == {f[x] : x \in S}
<1>1. g \in Surjection(S, T)
  BY DEF Surjection
<1> QED  BY <1>1, FS_Surjection

\* A recompute writes well-formed summaries.
LEMMA AggregateType ==
  ASSUME NEW d, Sound(d), NEW g \in Groups
  PROVE  Aggregate(d, g) \in Summary
<1> DEFINE C == Contributing(d, g)
           ids == {r.id : r \in C}
           V == {v \in d.reviews : v.roast \in ids}
<1>1. IsFiniteSet(C)
  <2>1. C \in SUBSET d.roasts
    BY DEF Contributing
  <2> QED  BY <2>1, FS_Subset DEF Sound, Finite
<1>2. IsFiniteSet(ids)
  <2> DEFINE f == [r \in C |-> r.id]
  <2>1. DOMAIN f = C  OBVIOUS
  <2>2. {f[r] : r \in C} = ids  OBVIOUS
  <2> HIDE DEF f, ids, C
  <2> QED  BY <1>1, <2>1, <2>2, FiniteImage
<1>3. IsFiniteSet(V)
  <2>1. V \in SUBSET d.reviews
    OBVIOUS
  <2> QED  BY <2>1, FS_Subset DEF Sound, Finite
<1>4. IsFiniteSet(ids \cap d.telemetry)
  <2>1. ids \cap d.telemetry \in SUBSET ids
    OBVIOUS
  <2> HIDE DEF ids
  <2> QED  BY <2>1, <1>2, FS_Subset
<1>5. /\ Cardinality(C) \in Nat
      /\ Cardinality(V) \in Nat
      /\ Cardinality(ids \cap d.telemetry) \in Nat
  <2> HIDE DEF C, V, ids
  <2> QED  BY <1>1, <1>3, <1>4, FS_CardinalityType
<1> QED  BY <1>5 DEF Aggregate, Summary

LEMMA RecomputedSound ==
  ASSUME NEW d, Sound(d), NEW g \in Groups \cup {NoGroup}
  PROVE  Sound(Recomputed(d, g))
<1>1. CASE g = NoGroup
  BY <1>1 DEF Recomputed
<1>2. CASE g # NoGroup
  <2>1. Aggregate(d, g) \in Summary
    BY <1>2, AggregateType
  <2>2. Recomputed(d, g) = [d EXCEPT !.summaries[g] = Aggregate(d, g)]
    BY <1>2 DEF Recomputed
  <2> HIDE DEF Summary
  <2>3. Recomputed(d, g) \in Tables
    BY <2>1, <2>2 DEF Sound, Tables
  <2>4. Finite(Recomputed(d, g))
    BY <2>2 DEF Sound, Finite, Tables
  <2> QED  BY <2>3, <2>4 DEF Sound
<1> QED  BY <1>1, <1>2

-----------------------------------------------------------------------------
(* Each body leaves well-formed tables, with exclusive identities, and     *)
(* nothing without its roast, if it found them so.                         *)

\* Revision rows, as well as children, belong to a roast that is there.
Owned(d) ==
  /\ ChildrenOwned(d)
  /\ \A v \in d.revisions : \E r \in d.roasts : r.id = v.id

Consistent(d) == Sound(d) /\ IdentitiesExclusive(d) /\ Owned(d)

LEMMA CreatedConsistent ==
  ASSUME NEW d, Consistent(d), NEW q \in CreateRequest, NEW i \in Ids,
         CreateAdmitted(d, q),
         \A r \in d.roasts : r.id # i, ~TombstonedId(d, i)
  PROVE  Consistent(Created(d, q, i))
<1> DEFINE row == CreatedRow(q, i)
           e == Created(d, q, i)
<1>1. row \in Roast
  BY DEF CreateRequest, CreatedRow, Roast
<1>2. /\ e.roasts = d.roasts \cup {row}
      /\ e.revisions = d.revisions \cup FirstRevisions(i, d.seq)
      /\ e.artifacts = d.artifacts \cup {i}
      /\ e.tombstones = d.tombstones
      /\ e.reviews = d.reviews
      /\ e.telemetry = d.telemetry
  BY DEF Created, Consistent, Sound, Tables
<1>3. row.id = i /\ row.key = q.key /\ row.slug = q.slug
  BY DEF CreatedRow
<1>4. FirstRevisions(i, d.seq) \subseteq FieldRevision
  BY DEF FirstRevisions, FieldRevision, Consistent, Sound, Tables
<1>5. Sound(e)
  <2>1. e \in Tables
    <3> HIDE DEF row
    <3> QED  BY <1>1, <1>4 DEF Created, Consistent, Sound, Tables, row
  <2>2. IsFiniteSet(e.roasts)
    <3> HIDE DEF e, row
    <3>1. IsFiniteSet(d.roasts)
      BY DEF Consistent, Sound, Finite
    <3>2. IsFiniteSet(d.roasts \cup {row})
      BY <3>1, FS_AddElement
    <3> QED  BY <1>2, <3>2
  <2> QED  BY <1>2, <2>1, <2>2 DEF Consistent, Sound, Finite
<1>6. IdentitiesExclusive(e)
  <2> HIDE DEF e, row
  <2> QED  BY <1>2, <1>3 DEF Consistent, IdentitiesExclusive, DistinctIdentities,
         CreateAdmitted, RoastsByKey, RoastsBySlug, TombstonedKey, TombstonedSlug,
         TombstonedId
<1>7. Owned(e)
  <2> HIDE DEF e, row
  <2> QED  BY <1>2, <1>3 DEF Consistent, Owned, ChildrenOwned, FirstRevisions
<1> QED  BY <1>5, <1>6, <1>7 DEF Consistent

LEMMA PatchedConsistent ==
  ASSUME NEW d, Consistent(d), NEW q \in PatchRequest, NEW r \in d.roasts
  PROVE  Consistent(Patched(d, q, r))
<1> DEFINE A == AppliedFields(d, q, r)
           row == PatchedRow(q, r, A)
           e == Patched(d, q, r)
<1>1. A \subseteq Fields /\ \A f \in A : q.fields[f] \in PatchEntry /\ q.fields[f].value \in BOOLEAN
  <2>1. PICK F \in SUBSET Fields : q.fields \in [F -> PatchEntry]
    BY DEF PatchRequest
  <2>2. \A f \in A : f \in F /\ OutcomeOf(d, q, r, f) = "applied"
    BY <2>1 DEF AppliedFields
  <2>3. \A f \in A : q.fields[f].value # Invalid
    BY <2>2 DEF OutcomeOf, Outcome
  <2> QED  BY <2>1, <2>2, <2>3 DEF PatchEntry
<1>2. r \in Roast
  BY DEF Consistent, Sound, Tables
<1>3. row \in Roast /\ row.id = r.id /\ row.key = r.key /\ row.slug = r.slug
  <2> HIDE DEF A
  <2> QED  BY <1>1, <1>2 DEF PatchedRow, Roast
<1>4. \A v \in d.revisions :
        /\ PatchedRevision(q, r, A, d.seq, v) \in FieldRevision
        /\ PatchedRevision(q, r, A, d.seq, v).id = v.id
  <2> HIDE DEF A
  <2> TAKE v \in d.revisions
  <2>1. v \in FieldRevision /\ d.seq \in Nat
    BY DEF Consistent, Sound, Tables
  <2>2. CASE v.id = r.id /\ v.field \in A
    <3> DEFINE n == q.fields[v.field].revision
    <3>1. n \in Nat
      BY <1>1, <2>2, TablesAssumption DEF PatchEntry
    <3>2. PatchedRevision(q, r, A, d.seq, v) =
            [id |-> v.id, field |-> v.field, revision |-> n, seq |-> d.seq]
      BY <2>1, <2>2 DEF PatchedRevision, FieldRevision
    <3> HIDE DEF n
    <3> QED  BY <2>1, <3>1, <3>2 DEF FieldRevision
  <2>3. CASE ~(v.id = r.id /\ v.field \in A)
    BY <2>1, <2>3 DEF PatchedRevision
  <2> QED  BY <2>2, <2>3
<1>5. /\ e.roasts = (d.roasts \ {r}) \cup {row}
      /\ e.revisions = {PatchedRevision(q, r, A, d.seq, v) : v \in d.revisions}
      /\ e.artifacts = d.artifacts
      /\ e.tombstones = d.tombstones
      /\ e.reviews = d.reviews
      /\ e.telemetry = d.telemetry
      /\ e.summaries = d.summaries
      /\ e.seq = d.seq
  BY DEF Patched, Consistent, Sound, Tables
<1>6. Sound(e)
  <2>1. e \in Tables
    <3> HIDE DEF A, row
    <3>1. {PatchedRevision(q, r, A, d.seq, v) : v \in d.revisions} \subseteq FieldRevision
      BY <1>4
    <3>2. (d.roasts \ {r}) \cup {row} \subseteq Roast
      BY <1>3 DEF Consistent, Sound, Tables
    <3>3. e = [d EXCEPT !.roasts = (d.roasts \ {r}) \cup {row},
                 !.revisions = {PatchedRevision(q, r, A, d.seq, v) : v \in d.revisions}]
      BY DEF Patched, A, row
    <3> QED  BY <3>1, <3>2, <3>3 DEF Consistent, Sound, Tables
  <2>2. IsFiniteSet(e.roasts)
    <3> HIDE DEF e, row, A
    <3>1. IsFiniteSet(d.roasts \ {r})
      BY FS_RemoveElement DEF Consistent, Sound, Finite
    <3> QED  BY <1>5, <3>1, FS_AddElement
  <2> QED  BY <1>5, <2>1, <2>2 DEF Consistent, Sound, Finite
<1>7. IdentitiesExclusive(e)
  <2> HIDE DEF e, row
  <2> QED  BY <1>5, <1>3 DEF Consistent, IdentitiesExclusive, DistinctIdentities
<1>8. Owned(e)
  <2> HIDE DEF e, row, A
  <2>1. \A x \in d.roasts : \E y \in e.roasts : y.id = x.id
    BY <1>3, <1>5
  <2>2. ChildrenOwned(e)
    BY <1>5, <2>1 DEF Consistent, Owned, ChildrenOwned
  <2>3. \A w \in e.revisions : \E v \in d.revisions : w.id = v.id
    BY <1>4, <1>5
  <2>4. \A v \in d.revisions : \E x \in d.roasts : x.id = v.id
    BY DEF Consistent, Owned
  <2> QED  BY <2>1, <2>2, <2>3, <2>4 DEF Owned
<1> QED  BY <1>6, <1>7, <1>8 DEF Consistent

LEMMA DeletedConsistent ==
  ASSUME NEW d, Consistent(d), NEW q \in DeleteRequest, NEW r \in d.roasts,
         DeleteLiveAdmitted(d, q, r)
  PROVE  Consistent(Deleted(d, q, r))
<1> DEFINE t == TombstoneFor(q, r.id, d.seq)
           e == Deleted(d, q, r)
<1>1. r \in Roast /\ d.seq \in Nat
  BY DEF Consistent, Sound, Tables
<1>2. /\ t \in Tombstone
      /\ t.id = r.id /\ t.key = q.key /\ t.slug = q.slug
  BY <1>1 DEF TombstoneFor, Tombstone, DeleteRequest, Roast
<1>3. /\ e.tombstones = d.tombstones \cup {t}
      /\ e.reviews = {v \in d.reviews : v.roast # r.id}
      /\ e.telemetry = d.telemetry \ {r.id}
      /\ e.artifacts = d.artifacts \ {r.id}
      /\ e.revisions = {v \in d.revisions : v.id # r.id}
      /\ e.roasts = d.roasts \ {r}
  BY DEF Deleted, Consistent, Sound, Tables
<1>4. Sound(e)
  <2>1. e \in Tables
    <3> HIDE DEF t
    <3> QED  BY <1>2 DEF Deleted, Consistent, Sound, Tables, t
  <2>2. e.roasts \in SUBSET d.roasts /\ e.reviews \in SUBSET d.reviews
    BY <1>3
  <2>3. Finite(e)
    <3> HIDE DEF e
    <3> QED  BY <2>2, FS_Subset DEF Consistent, Sound, Finite
  <2> QED  BY <2>1, <2>3 DEF Sound
<1>5. IdentitiesExclusive(e)
  <2>1. /\ r.key = q.key /\ r.slug = q.slug
        /\ \A u \in d.tombstones : u.key # t.key /\ u.slug # t.slug /\ u.id # t.id
    BY <1>2 DEF DeleteLiveAdmitted, RoastsByKey, TombstonedKey, TombstonedSlug,
         TombstonedId
  <2>2. \A x \in e.roasts : x.key # t.key /\ x.slug # t.slug /\ x.id # t.id
    <3> HIDE DEF e, t
    <3> QED  BY <1>2, <1>3, <2>1 DEF Consistent, IdentitiesExclusive, DistinctIdentities
  <2> HIDE DEF e, t
  <2> QED  BY <1>3, <2>1, <2>2 DEF Consistent, IdentitiesExclusive, DistinctIdentities
<1>6. Owned(e)
  <2>1. \A i : i # r.id /\ (\E x \in d.roasts : x.id = i) => \E x \in e.roasts : x.id = i
    <3> HIDE DEF e, t
    <3> QED  BY <1>3
  <2> HIDE DEF e, t
  <2> QED  BY <1>3, <2>1 DEF Consistent, Owned, ChildrenOwned
<1> QED  BY <1>4, <1>5, <1>6 DEF Consistent

LEMMA TombstonedWithoutRowConsistent ==
  ASSUME NEW d, Consistent(d), NEW q \in DeleteRequest, DeleteAbsentAdmitted(d, q)
  PROVE  Consistent(TombstonedWithoutRow(d, q))
<1> DEFINE t == TombstoneFor(q, NoId, d.seq)
           e == TombstonedWithoutRow(d, q)
<1>1. /\ t \in Tombstone
      /\ t.id = NoId /\ t.key = q.key /\ t.slug = q.slug
  BY DEF TombstoneFor, Tombstone, DeleteRequest, Consistent, Sound, Tables
<1>2. e = [d EXCEPT !.tombstones = d.tombstones \cup {t}]
  BY DEF TombstonedWithoutRow
<1> HIDE DEF e, t
<1>3. /\ e.tombstones = d.tombstones \cup {t}
      /\ e.reviews = d.reviews /\ e.telemetry = d.telemetry
      /\ e.artifacts = d.artifacts /\ e.revisions = d.revisions
      /\ e.roasts = d.roasts
  BY <1>2 DEF Consistent, Sound, Tables
<1>4. Sound(e)
  BY <1>1, <1>2 DEF Consistent, Sound, Tables, Finite
<1>5. IdentitiesExclusive(e)
  <2>1. \A r \in d.roasts : r.id # NoId
    BY TablesAssumption DEF Consistent, Sound, Tables, Roast
  <2> QED  BY <1>1, <1>3, <2>1 DEF Consistent, IdentitiesExclusive, DistinctIdentities,
        DeleteAbsentAdmitted, RoastsByKey, RoastsBySlug, TombstonedKey, TombstonedSlug
<1>6. Owned(e)
  BY <1>3 DEF Consistent, Owned, ChildrenOwned
<1> QED  BY <1>4, <1>5, <1>6 DEF Consistent, e

LEMMA LoadedConsistent ==
  ASSUME NEW d, Consistent(d), NEW q \in LoadRequest, NEW r \in d.roasts,
         r.id = q.id
  PROVE  Consistent(Loaded(d, q))
<1> DEFINE e == Loaded(d, q)
<1>1. e = [d EXCEPT !.telemetry = d.telemetry \cup {q.id}]
  BY DEF Loaded
<1> HIDE DEF e
<1>2. /\ e.telemetry = d.telemetry \cup {q.id}
      /\ e.tombstones = d.tombstones /\ e.reviews = d.reviews
      /\ e.artifacts = d.artifacts /\ e.revisions = d.revisions
      /\ e.roasts = d.roasts
  BY <1>1 DEF Consistent, Sound, Tables
<1>3. Sound(e)
  BY <1>1 DEF Consistent, Sound, Tables, Finite, LoadRequest
<1>4. IdentitiesExclusive(e)
  BY <1>2 DEF Consistent, IdentitiesExclusive
<1>5. Owned(e)
  BY <1>2 DEF Consistent, Owned, ChildrenOwned
<1> QED  BY <1>3, <1>4, <1>5 DEF Consistent, e

LEMMA ReviewedConsistent ==
  ASSUME NEW d, Consistent(d), NEW r \in d.roasts
  PROVE  Consistent(Reviewed(d, r))
<1> DEFINE v == [roast |-> r.id, seq |-> d.seq]
           e == Reviewed(d, r)
<1>1. v \in Review /\ v.roast = r.id
  BY DEF Consistent, Sound, Tables, Review, Roast
<1>2. e = [d EXCEPT !.reviews = d.reviews \cup {v}]
  BY DEF Reviewed
<1> HIDE DEF e, v
<1>3. /\ e.reviews = d.reviews \cup {v}
      /\ e.tombstones = d.tombstones /\ e.telemetry = d.telemetry
      /\ e.artifacts = d.artifacts /\ e.revisions = d.revisions
      /\ e.roasts = d.roasts
  BY <1>2 DEF Consistent, Sound, Tables
<1>4. Sound(e)
  <2>1. e \in Tables
    BY <1>1, <1>2 DEF Consistent, Sound, Tables
  <2>2. Finite(e)
    BY <1>3, FS_AddElement DEF Consistent, Sound, Finite
  <2> QED  BY <2>1, <2>2 DEF Sound
<1>5. IdentitiesExclusive(e)
  BY <1>3 DEF Consistent, IdentitiesExclusive
<1>6. Owned(e)
  BY <1>1, <1>3 DEF Consistent, Owned, ChildrenOwned
<1> QED  BY <1>4, <1>5, <1>6 DEF Consistent, e

LEMMA SeededConsistent ==
  ASSUME NEW d, Consistent(d), NEW q \in SeedRequest, SeedAdmitted(d, q)
  PROVE  Consistent(Seeded(d, q))
<1> DEFINE ids == {r.id : r \in q.rows}
           new == {[roast |-> i, seq |-> d.seq] : i \in q.reviewed}
           firsts == UNION {FirstRevisions(i, d.seq) : i \in ids}
           e == Seeded(d, q)
<1>1. /\ q.rows \subseteq Roast /\ IsFiniteSet(q.rows) /\ DistinctIdentities(q.rows)
      /\ q.reviewed \subseteq ids /\ q.measured \subseteq ids /\ q.filed \subseteq ids
  BY DEF SeedRequest
<1>2. ids \subseteq Ids /\ d.seq \in Nat
  BY <1>1 DEF Roast, Consistent, Sound, Tables
<1>3. /\ new \subseteq Review
      /\ \A v \in new : v.roast \in ids
  <2> HIDE DEF ids
  <2> QED  BY <1>1, <1>2 DEF Review
<1>4. /\ firsts \subseteq FieldRevision
      /\ \A v \in firsts : v.id \in ids
  <2> HIDE DEF ids
  <2> QED  BY <1>2 DEF FirstRevisions, FieldRevision
<1>5. IsFiniteSet(new)
  <2> DEFINE row == [r \in q.rows |-> r.id]
             review == [i \in q.reviewed |-> [roast |-> i, seq |-> d.seq]]
  <2>1. IsFiniteSet({row[r] : r \in q.rows})
    <3>1. DOMAIN row = q.rows  OBVIOUS
    <3> HIDE DEF row
    <3> QED  BY <1>1, <3>1, FiniteImage
  <2>2. {row[r] : r \in q.rows} = ids  OBVIOUS
  <2>3. IsFiniteSet(q.reviewed)
    <3> HIDE DEF ids, row
    <3> QED  BY <1>1, <2>1, <2>2, FS_Subset
  <2>4. IsFiniteSet({review[i] : i \in q.reviewed})
    <3>1. DOMAIN review = q.reviewed  OBVIOUS
    <3> HIDE DEF review
    <3> QED  BY <2>3, <3>1, FiniteImage
  <2>5. {review[i] : i \in q.reviewed} = new  OBVIOUS
  <2> HIDE DEF review, new
  <2> QED  BY <2>4, <2>5
<1>6. e = [d EXCEPT !.roasts = d.roasts \cup q.rows,
                    !.telemetry = d.telemetry \cup q.measured,
                    !.artifacts = d.artifacts \cup q.filed,
                    !.reviews = d.reviews \cup new,
                    !.revisions = d.revisions \cup firsts]
  BY DEF Seeded
<1>7. \A i \in ids : \E r \in q.rows : r.id = i
  OBVIOUS
<1> HIDE DEF e, ids, new, firsts
<1>8. /\ e.roasts = d.roasts \cup q.rows
      /\ e.telemetry = d.telemetry \cup q.measured
      /\ e.artifacts = d.artifacts \cup q.filed
      /\ e.reviews = d.reviews \cup new
      /\ e.revisions = d.revisions \cup firsts
      /\ e.tombstones = d.tombstones
  BY <1>6 DEF Consistent, Sound, Tables
<1>9. Sound(e)
  <2>1. e \in Tables
    BY <1>1, <1>2, <1>3, <1>4, <1>6 DEF Consistent, Sound, Tables
  <2>2. IsFiniteSet(d.roasts) /\ IsFiniteSet(d.reviews)
    BY DEF Consistent, Sound, Finite
  <2>3. IsFiniteSet(d.roasts \cup q.rows) /\ IsFiniteSet(d.reviews \cup new)
    BY <1>1, <1>5, <2>2, FS_Union
  <2> QED  BY <1>8, <2>1, <2>3 DEF Sound, Finite
<1>10. IdentitiesExclusive(e)
  <2>1. DistinctIdentities(e.roasts)
    BY <1>1, <1>8 DEF Consistent, IdentitiesExclusive, DistinctIdentities, SeedAdmitted
  <2>2. \A r \in e.roasts : \A t \in e.tombstones :
          r.key # t.key /\ r.slug # t.slug /\ r.id # t.id
    BY <1>8 DEF Consistent, IdentitiesExclusive, SeedAdmitted
  <2> QED  BY <1>8, <2>1, <2>2 DEF Consistent, IdentitiesExclusive
<1>11. Owned(e)
  <2>1. \A i \in ids : \E r \in e.roasts : r.id = i
    BY <1>7, <1>8
  <2>2. q.measured \subseteq ids /\ q.filed \subseteq ids
    BY <1>1
  <2>3. ASSUME NEW i \in e.telemetry \cup e.artifacts
        PROVE  \E r \in e.roasts : r.id = i
    <3>1. CASE i \in ids
      BY <2>1, <3>1
    <3>2. CASE i \in d.telemetry \cup d.artifacts
      BY <1>8, <3>2 DEF Consistent, Owned, ChildrenOwned
    <3> QED  BY <1>8, <2>2, <2>3, <3>1, <3>2
  <2>4. ASSUME NEW v \in e.reviews
        PROVE  \E r \in e.roasts : r.id = v.roast
    <3>1. CASE v \in new
      BY <1>3, <2>1, <3>1
    <3>2. CASE v \in d.reviews
      BY <1>8, <3>2 DEF Consistent, Owned, ChildrenOwned
    <3> QED  BY <1>8, <3>1, <3>2
  <2>5. ASSUME NEW v \in e.revisions
        PROVE  \E r \in e.roasts : r.id = v.id
    <3>1. CASE v \in firsts
      BY <1>4, <2>1, <3>1
    <3>2. CASE v \in d.revisions
      BY <1>8, <3>2 DEF Consistent, Owned
    <3> QED  BY <1>8, <3>1, <3>2
  <2> QED  BY <2>3, <2>4, <2>5 DEF Owned, ChildrenOwned
<1> QED  BY <1>9, <1>10, <1>11 DEF Consistent, e

-----------------------------------------------------------------------------
(* What comes before and after the bodies: the migrated tables, the entry  *)
(* that takes the next write_seq, and the recompute.                       *)

LEMMA EnteredConsistent ==
  ASSUME NEW d, Consistent(d), d.seq < MaxSeq
  PROVE  Consistent([d EXCEPT !.seq = d.seq + 1])
<1> DEFINE e == [d EXCEPT !.seq = d.seq + 1]
<1>1. /\ e.roasts = d.roasts /\ e.reviews = d.reviews
      /\ e.telemetry = d.telemetry /\ e.artifacts = d.artifacts
      /\ e.revisions = d.revisions /\ e.tombstones = d.tombstones
  BY DEF Consistent, Sound, Tables
<1>2. d.seq + 1 \in 0..MaxSeq
  BY TablesAssumption DEF Consistent, Sound, Tables
<1>3. e \in Tables
  BY <1>2 DEF Consistent, Sound, Tables
<1> HIDE DEF e
<1>4. Sound(e) /\ IdentitiesExclusive(e) /\ Owned(e)
  BY <1>1, <1>3 DEF Consistent, Sound, Finite, IdentitiesExclusive, Owned, ChildrenOwned
<1> QED  BY <1>4 DEF Consistent, e

LEMMA RecomputedConsistent ==
  ASSUME NEW d, Consistent(d), NEW g \in Groups \cup {NoGroup}
  PROVE  Consistent(Recomputed(d, g))
<1> DEFINE e == Recomputed(d, g)
<1>1. /\ e.roasts = d.roasts /\ e.reviews = d.reviews
      /\ e.telemetry = d.telemetry /\ e.artifacts = d.artifacts
      /\ e.revisions = d.revisions /\ e.tombstones = d.tombstones
  BY DEF Recomputed, Consistent, Sound, Tables
<1>2. Sound(e)
  BY RecomputedSound DEF Consistent
<1> HIDE DEF e
<1>3. IdentitiesExclusive(e) /\ Owned(e)
  BY <1>1 DEF Consistent, IdentitiesExclusive, Owned, ChildrenOwned
<1> QED  BY <1>2, <1>3 DEF Consistent, e

LEMMA EmptyConsistent == Consistent(EmptyTables)
<1>1. EmptyTables \in Tables
  BY TablesAssumption DEF EmptyTables, Tables
<1>2. Finite(EmptyTables)
  BY FS_EmptySet DEF EmptyTables, Finite
<1>3. IdentitiesExclusive(EmptyTables) /\ Owned(EmptyTables)
  BY DEF EmptyTables, IdentitiesExclusive, DistinctIdentities, Owned, ChildrenOwned
<1> QED  BY <1>1, <1>2, <1>3 DEF Consistent, Sound

LEMMA MigratedConsistent ==
  ASSUME NEW r \in Roast
  PROVE  Consistent(Migrated(r))
<1> DEFINE d == [EmptyTables EXCEPT !.roasts = {r}, !.revisions = FirstRevisions(r.id, 0)]
<1>1. /\ d.roasts = {r} /\ d.revisions = FirstRevisions(r.id, 0)
      /\ d.tombstones = {} /\ d.reviews = {} /\ d.telemetry = {} /\ d.artifacts = {}
  BY DEF EmptyTables
<1>2. r.id \in Ids /\ r.group \in Groups \cup {NoGroup}
  BY DEF Roast
<1>3. FirstRevisions(r.id, 0) \subseteq FieldRevision
  BY <1>2 DEF FirstRevisions, FieldRevision
<1>4. d \in Tables
  <2>1. EmptyTables \in Tables
    BY EmptyConsistent DEF Consistent, Sound
  <2> QED  BY <1>3, <2>1 DEF Tables
<1>5. Finite(d)
  <2>1. IsFiniteSet({r}) /\ IsFiniteSet({})
    BY FS_EmptySet, FS_Singleton
  <2> HIDE DEF d
  <2> QED  BY <1>1, <2>1 DEF Finite
<1>6. IdentitiesExclusive(d) /\ Owned(d)
  <2> HIDE DEF d
  <2> QED  BY <1>1 DEF IdentitiesExclusive, DistinctIdentities, Owned, ChildrenOwned,
        FirstRevisions
<1>7. Consistent(d)
  BY <1>4, <1>5, <1>6 DEF Consistent, Sound
<1>8. Migrated(r) = Recomputed(d, r.group)
  BY DEF Migrated
<1> HIDE DEF d
<1> QED  BY <1>2, <1>7, <1>8, RecomputedConsistent

-----------------------------------------------------------------------------
(* The sessions and the lock.                                              *)

Writing == {"body", "recompute"}

TransactionsConsistent ==
  \A s \in Sessions : pc[s] \in Writing =>
    /\ Consistent(txn[s])
    /\ txn[s].seq > db.seq

Called == \A s \in Sessions : pc[s] # "idle" => req[s] \in Calls

IInv ==
  /\ TypeOK
  /\ ReadsCurrent
  /\ Consistent(db)
  /\ TransactionsConsistent
  /\ Called

-----------------------------------------------------------------------------
(* The operation of a request tells which procedure it calls.              *)

LEMMA RequestOfOperation ==
  ASSUME NEW q \in Request
  PROVE  /\ q.op = "create" => q \in CreateRequest
         /\ q.op = "patch"  => q \in PatchRequest
         /\ q.op = "delete" => q \in DeleteRequest
         /\ q.op = "load"   => q \in LoadRequest
         /\ q.op = "review" => q \in ReviewRequest
         /\ q.op = "seed"   => q \in SeedRequest
<1>1. CASE q \in CreateRequest
  BY <1>1 DEF CreateRequest
<1>2. CASE q \in PatchRequest
  BY <1>2 DEF PatchRequest
<1>3. CASE q \in DeleteRequest
  BY <1>3 DEF DeleteRequest
<1>4. CASE q \in LoadRequest
  BY <1>4 DEF LoadRequest
<1>5. CASE q \in ReviewRequest
  BY <1>5 DEF ReviewRequest
<1>6. CASE q \in SeedRequest
  <2>1. q.op = "seed"
    BY <1>6 DEF SeedRequest
  <2> QED  BY <1>6, <2>1
<1> QED  BY <1>1, <1>2, <1>3, <1>4, <1>5, <1>6 DEF Request

\* What the body of a writer leaves to recompute and commit, if it does not
\* refuse: consistent tables under the write_seq it entered with.
Leaves(s, d, groups, answer) ==
  /\ BodyDone(s, d, groups, answer)
  /\ Consistent(d)
  /\ d.seq = txn[s].seq
  /\ groups \in SUBSET (Groups \cup {NoGroup})

LEMMA BodyLeaves ==
  ASSUME IInv, NEW s \in Sessions, Body(s)
  PROVE  Refuse(s) \/ \E d, groups, answer : Leaves(s, d, groups, answer)
<1> DEFINE q == req[s]
           d == txn[s]
           Done(e, G) == /\ \E answer : BodyDone(s, e, G, answer)
                         /\ Consistent(e)
                         /\ e.seq = d.seq
                         /\ G \in SUBSET (Groups \cup {NoGroup})
<1>1. SUFFICES ASSUME ~Refuse(s)
               PROVE  \E e, G : Done(e, G)
  BY <1>1 DEF Leaves
<1>2. pc[s] = "body"
  BY <1>1 DEF Body
<1>3. q \in Request /\ Consistent(d)
  BY <1>2, CallsAssumption DEF IInv, Called, TransactionsConsistent, Writing
<1>4. /\ d.roasts \subseteq Roast
      /\ \A r \in d.roasts : r.group \in Groups \cup {NoGroup}
  BY <1>3 DEF Consistent, Sound, Tables, Roast
<1>5. ASSUME NEW i \in Ids, CreateNew(s, i)
      PROVE  Done(Created(d, q, i), {q.group})
  <2>1. q \in CreateRequest
    BY <1>3, <1>5, RequestOfOperation DEF CreateNew
  <2>2. Consistent(Created(d, q, i))
    BY <1>3, <1>5, <2>1, CreatedConsistent DEF CreateNew
  <2>3. q.group \in Groups \cup {NoGroup}
    BY <2>1 DEF CreateRequest
  <2>4. Created(d, q, i).seq = d.seq
    BY <1>3 DEF Created, Consistent, Sound, Tables
  <2>5. \E answer : BodyDone(s, Created(d, q, i), {q.group}, answer)
    BY <1>5 DEF CreateNew
  <2> HIDE DEF d, q
  <2> QED  BY <2>2, <2>3, <2>4, <2>5
<1>6. ASSUME NEW r \in d.roasts, CreateReplay(s, r)
      PROVE  Done(d, {})
  BY <1>3, <1>6 DEF CreateReplay
<1>7. ASSUME NEW r \in d.roasts, PatchFields(s, r)
      PROVE  Done(Patched(d, q, r), PatchTouches(d, q, r))
  <2>1. q \in PatchRequest
    BY <1>3, <1>7, RequestOfOperation DEF PatchFields
  <2>2. Consistent(Patched(d, q, r))
    BY <1>3, <2>1, PatchedConsistent
  <2>3. PatchTouches(d, q, r) \in SUBSET (Groups \cup {NoGroup})
    BY <1>4 DEF PatchTouches
  <2>4. Patched(d, q, r).seq = d.seq
    BY <1>3 DEF Patched, Consistent, Sound, Tables
  <2>5. \E answer : BodyDone(s, Patched(d, q, r), PatchTouches(d, q, r), answer)
    BY <1>7 DEF PatchFields
  <2> HIDE DEF d, q
  <2> QED  BY <2>2, <2>3, <2>4, <2>5
<1>8. ASSUME NEW r \in d.roasts, DeleteLive(s, r)
      PROVE  Done(Deleted(d, q, r), {r.group})
  <2>1. q \in DeleteRequest
    BY <1>3, <1>8, RequestOfOperation DEF DeleteLive
  <2>2. Consistent(Deleted(d, q, r))
    BY <1>3, <1>8, <2>1, DeletedConsistent DEF DeleteLive
  <2>3. Deleted(d, q, r).seq = d.seq
    BY <1>3 DEF Deleted, Consistent, Sound, Tables
  <2>4. \E answer : BodyDone(s, Deleted(d, q, r), {r.group}, answer)
    BY <1>8 DEF DeleteLive
  <2> HIDE DEF d, q
  <2> QED  BY <1>4, <2>2, <2>3, <2>4
<1>9. ASSUME DeleteAbsent(s)
      PROVE  Done(TombstonedWithoutRow(d, q), {})
  <2>1. q \in DeleteRequest
    BY <1>3, <1>9, RequestOfOperation DEF DeleteAbsent
  <2>2. Consistent(TombstonedWithoutRow(d, q))
    BY <1>3, <1>9, <2>1, TombstonedWithoutRowConsistent DEF DeleteAbsent
  <2>3. TombstonedWithoutRow(d, q).seq = d.seq
    BY <1>3 DEF TombstonedWithoutRow, Consistent, Sound, Tables
  <2>4. \E answer : BodyDone(s, TombstonedWithoutRow(d, q), {}, answer)
    BY <1>9 DEF DeleteAbsent
  <2> HIDE DEF d, q
  <2> QED  BY <2>2, <2>3, <2>4
<1>10. ASSUME NEW t \in d.tombstones, DeleteAgain(s, t)
       PROVE  Done(d, {})
  BY <1>3, <1>10 DEF DeleteAgain
<1>11. ASSUME NEW r \in d.roasts, LoadTelemetry(s, r)
       PROVE  Done(Loaded(d, q), {r.group})
  <2>1. q \in LoadRequest
    BY <1>3, <1>11, RequestOfOperation DEF LoadTelemetry
  <2>2. Consistent(Loaded(d, q))
    BY <1>3, <1>11, <2>1, LoadedConsistent DEF LoadTelemetry, LoadAdmitted
  <2>3. Loaded(d, q).seq = d.seq
    BY <1>3 DEF Loaded, Consistent, Sound, Tables
  <2>4. \E answer : BodyDone(s, Loaded(d, q), {r.group}, answer)
    BY <1>11 DEF LoadTelemetry
  <2> HIDE DEF d, q
  <2> QED  BY <1>4, <2>2, <2>3, <2>4
<1>12. ASSUME NEW r \in d.roasts, SubmitReview(s, r)
       PROVE  Done(Reviewed(d, r), {r.group})
  <2>1. Consistent(Reviewed(d, r))
    BY <1>3, ReviewedConsistent
  <2>2. Reviewed(d, r).seq = d.seq
    BY <1>3 DEF Reviewed, Consistent, Sound, Tables
  <2>3. \E answer : BodyDone(s, Reviewed(d, r), {r.group}, answer)
    BY <1>12 DEF SubmitReview
  <2> HIDE DEF d, q
  <2> QED  BY <1>4, <2>1, <2>2, <2>3
<1>13. ASSUME LoadSeed(s)
       PROVE  Done(Seeded(d, q), SeedTouches(q))
  <2>1. q \in SeedRequest
    BY <1>3, <1>13, RequestOfOperation DEF LoadSeed
  <2>2. Consistent(Seeded(d, q))
    BY <1>3, <1>13, <2>1, SeededConsistent DEF LoadSeed
  <2>3. SeedTouches(q) \in SUBSET (Groups \cup {NoGroup})
    BY <2>1 DEF SeedRequest, SeedTouches, Roast
  <2>4. Seeded(d, q).seq = d.seq
    BY <1>3 DEF Seeded, Consistent, Sound, Tables
  <2>5. \E answer : BodyDone(s, Seeded(d, q), SeedTouches(q), answer)
    BY <1>13 DEF LoadSeed
  <2> HIDE DEF d, q
  <2> QED  BY <2>2, <2>3, <2>4, <2>5
<1> HIDE DEF Done, q
<1> QED  BY <1>1, <1>5, <1>6, <1>7, <1>8, <1>9, <1>10, <1>11, <1>12, <1>13 DEF Body

-----------------------------------------------------------------------------
(* Every step preserves the invariant.                                     *)

LEMMA InitIInv == Init => IInv
<1> SUFFICES ASSUME Init
             PROVE  IInv
  OBVIOUS
<1>1. Consistent(db)
  BY EmptyConsistent, MigratedConsistent, CallsAssumption DEF Init
<1>2. db \in Tables
  BY <1>1 DEF Consistent, Sound
<1>3. TypeOK
  <2>1. pc \in [Sessions -> {"idle"}] /\ req \in [Sessions -> {NoRequest}]
        /\ txn \in [Sessions -> {NoTxn}] /\ touched \in [Sessions -> {{}}]
    BY DEF Init
  <2> QED  BY <1>2, <2>1 DEF Init, TypeOK
<1>4. ReadsCurrent
  BY CallsAssumption DEF Init, ReadsCurrent, InTransaction
<1>5. TransactionsConsistent /\ Called
  BY DEF Init, TransactionsConsistent, Writing, Called
<1> QED  BY <1>1, <1>3, <1>4, <1>5 DEF IInv

LEMMA CallIInv ==
  ASSUME IInv, NEW s \in Sessions, NEW q \in Calls, Call(s, q)
  PROVE  IInv'
<1> USE DEF IInv, Call
<1>1. TypeOK'
  BY DEF TypeOK
<1>2. ReadsCurrent'
  BY DEF TypeOK, ReadsCurrent, InTransaction
<1>3. TransactionsConsistent'
  BY DEF TypeOK, TransactionsConsistent, Writing
<1>4. Called'
  BY DEF TypeOK, Called
<1> QED  BY <1>1, <1>2, <1>3, <1>4

LEMMA EnterIInv ==
  ASSUME IInv, NEW s \in Sessions, Enter(s)
  PROVE  IInv'
<1> DEFINE next == [db EXCEPT !.seq = db.seq + 1]
<1>1. PICK view \in Readable :
        IF EntryVerified(db.seq)
          THEN /\ pc' = [pc EXCEPT ![s] = "body"]
               /\ txn' = [txn EXCEPT ![s] = [view EXCEPT !.seq = db.seq + 1]]
          ELSE /\ pc' = [pc EXCEPT ![s] = "rollback"]
               /\ txn' = [txn EXCEPT ![s] = view]
  BY DEF Enter
<1>2. /\ lock = NoSession /\ lock' = s /\ pc[s] = "entering"
      /\ UNCHANGED <<db, lagging, mode, stage, req, touched, reply>>
  BY DEF Enter, LockFree
<1>3. view \in Tables
  BY <1>1 DEF Readable, IInv, TypeOK
<1>4. \A o \in Sessions : pc[o] \notin InTransaction
  BY <1>2, CallsAssumption DEF IInv, ReadsCurrent
<1>5. CASE EntryVerified(db.seq)
  <2>1. view = db /\ db.seq < MaxSeq
    BY <1>1, <1>5 DEF Readable, EntryVerified
  <2>2. Consistent(next) /\ next \in Tables
    BY <2>1, EnteredConsistent DEF IInv, Consistent, Sound
  <2>3. next.seq > db.seq
    BY DEF IInv, Consistent, Sound, Tables
  <2>4. /\ pc' = [pc EXCEPT ![s] = "body"]
        /\ txn' = [txn EXCEPT ![s] = next]
    BY <1>1, <1>5, <2>1
  <2>5. TypeOK'
    <3> HIDE DEF next
    <3> QED  BY <1>2, <2>2, <2>4 DEF IInv, TypeOK, InTransaction
  <2>6. ReadsCurrent'
    BY <1>2, <1>4, <2>4, CallsAssumption DEF IInv, TypeOK, ReadsCurrent, InTransaction
  <2>7. TransactionsConsistent'
    <3> HIDE DEF next
    <3> QED  BY <1>2, <1>4, <2>2, <2>3, <2>4
          DEF IInv, TypeOK, TransactionsConsistent, Writing, InTransaction
  <2>8. Called'
    BY <1>2, <2>4 DEF IInv, TypeOK, Called
  <2> QED  BY <1>2, <2>5, <2>6, <2>7, <2>8 DEF IInv
<1>6. CASE ~EntryVerified(db.seq)
  <2>1. /\ pc' = [pc EXCEPT ![s] = "rollback"]
        /\ txn' = [txn EXCEPT ![s] = view]
    BY <1>1, <1>6
  <2>2. TypeOK'
    BY <1>2, <1>3, <2>1 DEF IInv, TypeOK, InTransaction
  <2>3. ReadsCurrent'
    BY <1>2, <1>4, <2>1, CallsAssumption DEF IInv, TypeOK, ReadsCurrent, InTransaction
  <2>4. TransactionsConsistent'
    BY <1>2, <1>4, <2>1 DEF IInv, TypeOK, TransactionsConsistent, Writing, InTransaction
  <2>5. Called'
    BY <1>2, <2>1 DEF IInv, TypeOK, Called
  <2> QED  BY <1>2, <2>2, <2>3, <2>4, <2>5 DEF IInv
<1> QED  BY <1>5, <1>6

LEMMA LockTimeoutIInv ==
  ASSUME IInv, NEW s \in Sessions, LockTimeout(s)
  PROVE  IInv'
<1> USE DEF IInv, LockTimeout
<1>1. TypeOK'
  BY DEF TypeOK
<1>2. ReadsCurrent'
  BY DEF TypeOK, ReadsCurrent, InTransaction
<1>3. TransactionsConsistent'
  BY DEF TypeOK, TransactionsConsistent, Writing
<1>4. Called'
  BY DEF TypeOK, Called
<1> QED  BY <1>1, <1>2, <1>3, <1>4

LEMMA BodyIInv ==
  ASSUME IInv, NEW s \in Sessions, Body(s)
  PROVE  IInv'
<1>1. CASE Refuse(s)
  <2> USE <1>1 DEF IInv, Refuse
  <2>1. TypeOK'
    BY DEF TypeOK, InTransaction
  <2>2. ReadsCurrent'
    BY DEF TypeOK, ReadsCurrent, InTransaction
  <2>3. TransactionsConsistent'
    BY DEF TypeOK, TransactionsConsistent, Writing
  <2>4. Called'
    BY DEF TypeOK, Called
  <2> QED  BY <2>1, <2>2, <2>3, <2>4
<1>2. ASSUME NEW d, NEW groups, NEW answer, Leaves(s, d, groups, answer)
      PROVE  IInv'
  <2>1. /\ pc[s] = "body"
        /\ pc' = [pc EXCEPT ![s] = "recompute"]
        /\ txn' = [txn EXCEPT ![s] = d]
        /\ touched' = [touched EXCEPT ![s] = groups]
        /\ UNCHANGED <<db, lagging, mode, lock, stage, req>>
    BY <1>2 DEF Leaves, BodyDone
  <2>2. /\ Consistent(d) /\ d \in Tables
        /\ d.seq = txn[s].seq
        /\ groups \in SUBSET (Groups \cup {NoGroup})
    BY <1>2 DEF Leaves, Consistent, Sound
  <2>3. TypeOK'
    BY <2>1, <2>2 DEF IInv, TypeOK, InTransaction
  <2>4. ReadsCurrent'
    BY <2>1 DEF IInv, TypeOK, ReadsCurrent, InTransaction
  <2>5. TransactionsConsistent'
    BY <2>1, <2>2 DEF IInv, TypeOK, TransactionsConsistent, Writing
  <2>6. Called'
    BY <2>1 DEF IInv, TypeOK, Called
  <2> QED  BY <2>1, <2>3, <2>4, <2>5, <2>6 DEF IInv
<1> QED  BY <1>1, <1>2, BodyLeaves

LEMMA RecomputeIInv ==
  ASSUME IInv, NEW s \in Sessions, NEW g \in touched[s], Recompute(s, g)
  PROVE  IInv'
<1> DEFINE d == [txn[s] EXCEPT !.seq = txn[s].seq + 1]
           e == Recomputed(d, g)
<1>1. /\ pc[s] = "recompute" /\ lock = s
      /\ UNCHANGED <<db, lagging, mode, lock, stage, req, reply>>
  BY DEF Recompute, Reenters
<1>2. /\ g \in Groups \cup {NoGroup}
      /\ touched[s] \ {g} \in SUBSET (Groups \cup {NoGroup})
      /\ Consistent(txn[s]) /\ txn[s].seq > db.seq
  BY <1>1 DEF IInv, TypeOK, TransactionsConsistent, Writing
<1>3. CASE EntryVerified(txn[s].seq)
  <2>1. /\ txn' = [txn EXCEPT ![s] = e]
        /\ touched' = [touched EXCEPT ![s] = touched[s] \ {g}]
        /\ pc' = pc
    BY <1>3 DEF Recompute
  <2>2. Consistent(d)
    BY <1>2, <1>3, EnteredConsistent DEF EntryVerified
  <2>3. Consistent(e) /\ e \in Tables
    <3> HIDE DEF d
    <3> QED  BY <1>2, <2>2, RecomputedConsistent DEF Consistent, Sound
  <2>4. e.seq > db.seq
    <3>1. e.seq = d.seq
      BY <2>2 DEF Recomputed, Consistent, Sound, Tables
    <3>2. d.seq = txn[s].seq + 1 /\ txn[s].seq \in Nat /\ db.seq \in Nat
      BY <1>2 DEF IInv, Consistent, Sound, Tables
    <3> HIDE DEF d, e
    <3> QED  BY <1>2, <3>1, <3>2
  <2> HIDE DEF d, e
  <2>5. TypeOK'
    BY <1>1, <1>2, <2>1, <2>3 DEF IInv, TypeOK
  <2>6. ReadsCurrent'
    BY <1>1, <2>1 DEF IInv, TypeOK, ReadsCurrent, InTransaction
  <2>7. TransactionsConsistent'
    BY <1>1, <2>1, <2>3, <2>4 DEF IInv, TypeOK, TransactionsConsistent, Writing
  <2>8. Called'
    BY <1>1, <2>1 DEF IInv, TypeOK, Called
  <2> QED  BY <1>1, <2>5, <2>6, <2>7, <2>8 DEF IInv
<1>4. CASE ~EntryVerified(txn[s].seq)
  <2>1. /\ pc' = [pc EXCEPT ![s] = "rollback"]
        /\ UNCHANGED <<txn, touched>>
    BY <1>4 DEF Recompute
  <2>2. TypeOK'
    BY <1>1, <2>1 DEF IInv, TypeOK, InTransaction
  <2>3. ReadsCurrent'
    BY <1>1, <2>1 DEF IInv, TypeOK, ReadsCurrent, InTransaction
  <2>4. TransactionsConsistent'
    BY <1>1, <2>1 DEF IInv, TypeOK, TransactionsConsistent, Writing
  <2>5. Called'
    BY <1>1, <2>1 DEF IInv, TypeOK, Called
  <2> QED  BY <1>1, <2>2, <2>3, <2>4, <2>5 DEF IInv
<1> QED  BY <1>3, <1>4

LEMMA CommitIInv ==
  ASSUME IInv, NEW s \in Sessions, Commit(s)
  PROVE  IInv'
<1> DEFINE after == IF req[s].op = "delete" THEN "removing" ELSE "done"
<1>1. /\ pc[s] = "recompute"
      /\ lagging' = db
      /\ db' = txn[s]
      /\ lock' = NoSession
      /\ txn' = [txn EXCEPT ![s] = NoTxn]
      /\ pc' = [pc EXCEPT ![s] = after]
      /\ UNCHANGED <<mode, stage, req, touched, reply>>
  BY DEF Commit
<1>2. after \in {"removing", "done"}
  OBVIOUS
<1>3. Consistent(txn[s]) /\ txn[s] \in Tables
  BY <1>1 DEF IInv, TransactionsConsistent, Writing, Consistent, Sound
<1>4. lock = s /\ \A o \in Sessions : o # s => pc[o] \notin InTransaction
  BY <1>1 DEF IInv, ReadsCurrent, InTransaction
<1> HIDE DEF after
<1>5. TypeOK'
  BY <1>1, <1>2, <1>3 DEF IInv, TypeOK
<1>6. ReadsCurrent'
  BY <1>1, <1>2, <1>4, CallsAssumption DEF IInv, TypeOK, ReadsCurrent, InTransaction
<1>7. TransactionsConsistent'
  BY <1>1, <1>2, <1>4 DEF IInv, TypeOK, TransactionsConsistent, Writing, InTransaction
<1>8. Called'
  BY <1>1 DEF IInv, TypeOK, Called
<1> QED  BY <1>1, <1>3, <1>5, <1>6, <1>7, <1>8 DEF IInv

LEMMA EndTransactionIInv ==
  ASSUME IInv, NEW s \in Sessions, NEW answer, EndTransaction(s, answer)
  PROVE  IInv'
<1>1. /\ lock' = IF lock = s THEN NoSession ELSE lock
      /\ txn' = [txn EXCEPT ![s] = NoTxn]
      /\ touched' = [touched EXCEPT ![s] = {}]
      /\ pc' = [pc EXCEPT ![s] = "idle"]
      /\ req' = [req EXCEPT ![s] = NoRequest]
      /\ UNCHANGED <<db, lagging, mode, stage>>
  BY DEF EndTransaction
<1>2. TypeOK'
  BY <1>1 DEF IInv, TypeOK
<1>3. ReadsCurrent'
  BY <1>1, CallsAssumption DEF IInv, TypeOK, ReadsCurrent, InTransaction
<1>4. TransactionsConsistent'
  BY <1>1 DEF IInv, TypeOK, TransactionsConsistent, Writing
<1>5. Called'
  BY <1>1 DEF IInv, TypeOK, Called
<1> QED  BY <1>1, <1>2, <1>3, <1>4, <1>5 DEF IInv

LEMMA RemoveStageIInv ==
  ASSUME IInv, NEW s \in Sessions, RemoveStage(s)
  PROVE  IInv'
<1> USE DEF IInv, RemoveStage
<1>1. TypeOK'
  BY DEF TypeOK, InTransaction
<1>2. ReadsCurrent'
  BY DEF TypeOK, ReadsCurrent, InTransaction
<1>3. TransactionsConsistent'
  BY DEF TypeOK, TransactionsConsistent, Writing
<1>4. Called'
  BY DEF TypeOK, Called
<1> QED  BY <1>1, <1>2, <1>3, <1>4

LEMMA ReturnIInv ==
  ASSUME IInv, NEW s \in Sessions, Return(s)
  PROVE  IInv'
<1> USE DEF IInv, Return
<1>1. TypeOK'
  BY DEF TypeOK, InTransaction
<1>2. ReadsCurrent'
  BY DEF TypeOK, ReadsCurrent, InTransaction
<1>3. TransactionsConsistent'
  BY DEF TypeOK, TransactionsConsistent, Writing
<1>4. Called'
  BY DEF TypeOK, Called
<1> QED  BY <1>1, <1>2, <1>3, <1>4

LEMMA LoseReplyIInv ==
  ASSUME IInv, NEW s \in Sessions, LoseReply(s)
  PROVE  IInv'
<1> USE DEF IInv, LoseReply
<1>1. TypeOK'
  BY DEF TypeOK, InTransaction
<1>2. ReadsCurrent'
  BY DEF TypeOK, ReadsCurrent, InTransaction
<1>3. TransactionsConsistent'
  BY DEF TypeOK, TransactionsConsistent, Writing
<1>4. Called'
  BY DEF TypeOK, Called
<1> QED  BY <1>1, <1>2, <1>3, <1>4

LEMMA UploadIInv ==
  ASSUME IInv, NEW k \in Recorded, Upload(k)
  PROVE  IInv'
<1> USE DEF IInv, Upload
<1>1. TypeOK'
  BY CallsAssumption DEF TypeOK, InTransaction
<1>2. ReadsCurrent'
  BY DEF TypeOK, ReadsCurrent, InTransaction
<1>3. TransactionsConsistent'
  BY DEF TypeOK, TransactionsConsistent, Writing
<1>4. Called'
  BY DEF TypeOK, Called
<1> QED  BY <1>1, <1>2, <1>3, <1>4

LEMMA AlterConsistencyIInv ==
  ASSUME IInv, AlterConsistency
  PROVE  IInv'
<1> USE DEF IInv, AlterConsistency
<1>1. TypeOK'
  BY DEF TypeOK, InTransaction
<1>2. ReadsCurrent'
  BY DEF TypeOK, ReadsCurrent, InTransaction
<1>3. TransactionsConsistent'
  BY DEF TypeOK, TransactionsConsistent, Writing
<1>4. Called'
  BY DEF TypeOK, Called
<1> QED  BY <1>1, <1>2, <1>3, <1>4

LEMMA StutterIInv == IInv /\ UNCHANGED vars => IInv'
<1> SUFFICES ASSUME IInv, UNCHANGED vars
             PROVE  IInv'
  OBVIOUS
<1> USE DEF IInv, vars
<1>1. TypeOK'
  BY DEF TypeOK
<1>2. ReadsCurrent'
  BY DEF ReadsCurrent
<1>3. TransactionsConsistent'
  BY DEF TransactionsConsistent
<1>4. Called'
  BY DEF Called
<1> QED  BY <1>1, <1>2, <1>3, <1>4

LEMMA NextIInv == IInv /\ [Next]_vars => IInv'
<1> SUFFICES ASSUME IInv, [Next]_vars
             PROVE  IInv'
  OBVIOUS
<1>1. ASSUME NEW s \in Sessions, NEW q \in Calls, Call(s, q)
      PROVE  IInv'
  BY <1>1, CallIInv
<1>2. ASSUME NEW s \in Sessions, Step(s)
      PROVE  IInv'
  <2>1. CASE Enter(s)
    BY <2>1, EnterIInv
  <2>2. CASE LockTimeout(s)
    BY <2>2, LockTimeoutIInv
  <2>3. CASE Body(s)
    BY <2>3, BodyIInv
  <2>4. ASSUME NEW g \in touched[s], Recompute(s, g)
        PROVE  IInv'
    BY <2>4, RecomputeIInv
  <2>5. CASE Commit(s)
    BY <2>5, CommitIInv
  <2>6. CASE Rollback(s)
    BY <2>6, EndTransactionIInv DEF Rollback
  <2>7. CASE RemoveStage(s)
    BY <2>7, RemoveStageIInv
  <2>8. CASE Return(s)
    BY <2>8, ReturnIInv
  <2> QED  BY <1>2, <2>1, <2>2, <2>3, <2>4, <2>5, <2>6, <2>7, <2>8 DEF Step
<1>3. ASSUME NEW s \in Sessions, Abort(s)
      PROVE  IInv'
  BY <1>3, EndTransactionIInv DEF Abort
<1>4. ASSUME NEW s \in Sessions, LoseReply(s)
      PROVE  IInv'
  BY <1>4, LoseReplyIInv
<1>5. ASSUME NEW k \in Recorded, Upload(k)
      PROVE  IInv'
  BY <1>5, UploadIInv
<1>6. CASE AlterConsistency
  BY <1>6, AlterConsistencyIInv
<1>7. CASE UNCHANGED vars
  BY <1>7, StutterIInv
<1> QED  BY <1>1, <1>2, <1>3, <1>4, <1>5, <1>6, <1>7 DEF Next

\* The tables change only by a commit.
LEMMA OnlyCommits ==
  ASSUME IInv, [Next]_vars, db' # db
  PROVE  \E s \in Sessions : Commit(s)
<1>1. ASSUME NEW s \in Sessions, Body(s)
      PROVE  db' = db
  BY <1>1, BodyLeaves DEF Leaves, BodyDone, Refuse
<1>2. ASSUME NEW s \in Sessions, Step(s)
      PROVE  Commit(s)
  BY <1>1, <1>2 DEF Step, Enter, LockTimeout, Recompute, Rollback, EndTransaction,
     RemoveStage, Return
<1> QED  BY <1>2 DEF Next, vars, Call, Abort, EndTransaction, LoseReply, Upload,
     AlterConsistency

-----------------------------------------------------------------------------
(* What follows for every behavior of the write plane.                     *)

\* The invariant holds always.
THEOREM Invariance == Spec => []IInv
<1> QED  BY InitIInv, NextIInv, PTL DEF Spec

\* The variables keep their types: in particular write_seq never passes its
\* limit, and a recompute writes well-formed summaries.
THEOREM TypeCorrect == Spec => []TypeOK
<1>1. IInv => TypeOK
  BY DEF IInv
<1> QED  BY <1>1, Invariance, PTL

\* cloud_sync_enter does what it is there for: one writer at a time is in a
\* transaction, and its body reads the tables as last committed.
THEOREM WritersReadCurrent == Spec => []ReadsCurrent
<1>1. IInv => ReadsCurrent
  BY DEF IInv
<1> QED  BY <1>1, Invariance, PTL

\* No id, run id or slug is ever there twice, alive or dead, though no table
\* enforces uniqueness.
THEOREM IdentitiesStayExclusive == Spec => []Identities
<1>1. IInv => Identities
  BY DEF IInv, Consistent, Identities
<1> QED  BY <1>1, Invariance, PTL

\* No review, telemetry or artifact is ever there without its roast.
THEOREM NoOrphans == Spec => []Children
<1>1. IInv => Children
  BY DEF IInv, Consistent, Owned, Children
<1> QED  BY <1>1, Invariance, PTL

\* Commits change the tables only under a greater write_seq.
THEOREM WriteSeqStrictlyIncreases == Spec => WriteSeqIncreases
<1>1. IInv /\ [Next]_vars => [db'.seq > db.seq]_db
  <2> SUFFICES ASSUME IInv, [Next]_vars, db' # db
               PROVE  db'.seq > db.seq
    OBVIOUS
  <2>1. \E s \in Sessions : Commit(s)
    BY OnlyCommits
  <2> QED  BY <2>1 DEF Commit, IInv, TransactionsConsistent, Writing
<1> QED  BY <1>1, Invariance, PTL DEF Spec, WriteSeqIncreases

================================================================================
