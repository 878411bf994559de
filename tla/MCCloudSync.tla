------------------------------ MODULE MCCloudSync ------------------------------
(* Small instances of CloudSync: the requests clients make in each run.    *)
EXTENDS CloudSync, TLC

CONSTANTS k1, k2, g1, g2, i1, i2, origin, rating

SessionsAlike == Permutations(Sessions)

FieldsAre(c) == [f \in Fields |-> IF f = Consent THEN c ELSE FALSE]

Create(k, g, v, group, c) ==
  [op |-> "create", key |-> k, slug |-> g, visibility |-> v, group |-> group,
   value |-> FieldsAre(c)]

Patch(k, entries) == [op |-> "patch", key |-> k, fields |-> entries]
Entry(n, v) == [revision |-> n, value |-> v]
Delete(k, g) == [op |-> "delete", key |-> k, slug |-> g]
Load(k, i) == [op |-> "load", key |-> k, id |-> i]
Submit(g) == [op |-> "review", slug |-> g]

Row(i, k, g, group, c) ==
  [id |-> i, key |-> k, slug |-> g, visibility |-> "unlisted", group |-> group,
   value |-> FieldsAre(c)]
Seed(rows, measured, filed, reviewed, groups) ==
  [op |-> "seed", rows |-> rows, measured |-> measured, filed |-> filed,
   reviewed |-> reviewed, groups |-> groups]

\* Calls that contend for identities: two runs want two slugs; a creation is replayed
\* with another slug and visibility; a seed brings explicit ids.
IdentityCalls ==
  {Create(k1, g1, "public", origin, TRUE), Create(k1, g2, "unlisted", origin, TRUE),
   Create(k2, g1, "unlisted", origin, TRUE), Create(k2, g2, "unlisted", origin, TRUE),
   Seed({Row(i1, k1, g1, origin, TRUE), Row(i2, k2, g2, origin, TRUE)},
        {i1, i2}, {i1}, {}, {origin})}
    \cup {Delete(k, g) : k \in {k1, k2}, g \in {g1, g2}}

\* Calls about the rest: what hangs on a roast and what is computed from it, with
\* loads that name the wrong roast, private roasts, a group with a NULL, and seeds
\* with and without child rows, of which the second passes over its own group.
ChildrenCalls ==
  {Create(k1, g1, "unlisted", origin, TRUE), Create(k2, g2, "private", NoGroup, TRUE),
   Patch(k1, (Consent :> Entry(1, FALSE))), Delete(k1, g1),
   Load(k1, i1), Load(k1, i2), Submit(g1), Submit(g2),
   Seed({Row(i1, k1, g1, origin, TRUE), Row(i2, k2, g2, origin, TRUE)},
        {i1}, {i2}, {i1}, {origin}),
   Seed({Row(i1, k1, g1, origin, TRUE)}, {i1}, {}, {}, {})}

\* Run fields: retried, reordered and conflicting patches of one roast.
FieldCalls ==
  {Patch(k1, (Consent :> Entry(n, v))) : n \in 1..2, v \in BOOLEAN}
    \cup {Patch(k1, (rating :> Entry(n, v) @@ Consent :> Entry(1, FALSE))) :
             n \in 1..2, v \in {TRUE, FALSE, Invalid}}
    \cup {Delete(k1, g1), Create(k1, g1, "unlisted", origin, TRUE)}

FieldRoasts == {Row(i1, k1, g1, origin, TRUE)}

\* Run progress: every kind of call must end, also at the limit of write_seq.
ProgressCalls ==
  {Create(k1, g1, "unlisted", origin, TRUE), Patch(k1, (Consent :> Entry(1, FALSE))),
   Delete(k1, g1), Load(k1, i1), Submit(g1),
   Seed({Row(i1, k1, g1, origin, TRUE)}, {i1}, {i1}, {}, {origin})}

NoRoasts == {}
================================================================================
