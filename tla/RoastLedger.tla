------------------------------ MODULE RoastLedger ------------------------------
(***************************************************************************)
(* What the write plane promises about a run id, whoever calls what in     *)
(* whatever order: a run is unknown, then perhaps a live roast under one   *)
(* id and one slug, then perhaps dead, and dead for good.  An id and a     *)
(* slug belong to one run for ever.  While a roast is live each field is a *)
(* register whose writes are ordered by the revisions that come with them, *)
(* not by the order in which they arrive.                                  *)
(***************************************************************************)
EXTENDS Naturals

CONSTANTS Keys, Slugs, Ids, NoId, Fields, MaxRevision

VARIABLE ledger  \* for each run id its entry

Register == [revision : 0..MaxRevision, value : BOOLEAN]

Unknown == [state |-> "unknown"]
Live(i, g, registers) ==
  [state |-> "live", id |-> i, slug |-> g, fields |-> registers]
Dead(i, g) == [state |-> "dead", id |-> i, slug |-> g]

Known(k) == ledger[k].state # "unknown"

\* No run has, or had, this id or slug.
Unclaimed(i, g) ==
  \A k \in Keys : Known(k) => ledger[k].slug # g /\ (i # NoId => ledger[k].id # i)

\* What a set K of runs may start with: ids and slugs of their own, and every
\* register at revision 0.
FirstEntries(K) ==
  {e \in [K -> [state : {"live"}, id : Ids, slug : Slugs,
                fields : [Fields -> [revision : {0}, value : BOOLEAN]]]] :
     \A j, k \in K : j # k => e[j].id # e[k].id /\ e[j].slug # e[k].slug}

Init ==
  \E K \in SUBSET Keys : \E e \in FirstEntries(K) :
    ledger = [k \in Keys |-> IF k \in K THEN e[k] ELSE Unknown]

\* Runs become live together: one by a creation, several by a seed.
Publish ==
  \E K \in (SUBSET {k \in Keys : ~Known(k)}) \ {{}} : \E e \in FirstEntries(K) :
    /\ \A k \in K : Unclaimed(e[k].id, e[k].slug)
    /\ ledger' = [k \in Keys |-> IF k \in K THEN e[k] ELSE ledger[k]]

\* Some registers of a live roast move on to greater revisions.
Revise ==
  \E k \in {j \in Keys : ledger[j].state = "live"} :
  \E F \in (SUBSET Fields) \ {{}} : \E new \in [F -> Register] :
    /\ \A f \in F : new[f].revision > ledger[k].fields[f].revision
    /\ ledger' = [ledger EXCEPT ![k].fields =
                    [f \in Fields |-> IF f \in F THEN new[f] ELSE @[f]]]

\* A live roast dies under its own slug.
Retire ==
  \E k \in Keys :
    /\ ledger[k].state = "live"
    /\ ledger' = [ledger EXCEPT ![k] = Dead(@.id, @.slug)]

\* A run that was never published dies, and takes an unclaimed slug with it.
Forbid ==
  \E k \in Keys, g \in Slugs :
    /\ ~Known(k)
    /\ Unclaimed(NoId, g)
    /\ ledger' = [ledger EXCEPT ![k] = Dead(NoId, g)]

Next ==
  /\ ledger' # ledger
  /\ Publish \/ Revise \/ Retire \/ Forbid

Spec == Init /\ [][Next]_ledger

================================================================================
