------------------------------- MODULE CloudSync -------------------------------
(***************************************************************************)
(* The coordinated write plane: the writer procedures of schema APP and    *)
(* the seed loader, run by concurrent Snowflake sessions.                  *)
(*                                                                         *)
(* Every writer has the same frame.  It begins a transaction, calls        *)
(* cloud_sync_enter, which updates the one row of cloud_sync_coordination  *)
(* and thereby holds its row lock until the transaction ends; its body     *)
(* reads the tables and writes to them; recompute_reference_summary enters *)
(* once more and rewrites the summaries the body touched; then it commits. *)
(* Any exception rolls the transaction back and is raised to the caller.   *)
(* delete_roast then removes the run's files from the stage, outside any   *)
(* transaction.  The agent puts files on the stage directly, also outside. *)
(***************************************************************************)
EXTENDS CloudTables

CONSTANTS
  Sessions,    \* Snowflake sessions of the agent, the web site and the operator
  NoSession,   \* the lock when nobody holds it
  Calls,       \* the requests that clients make
  LegacyRoasts, \* roasts that migration V1.4.0 may find in cloud_roasts
  Recorded     \* the runs whose files the agent puts on the stage

ASSUME CallsAssumption ==
  /\ NoSession \notin Sessions
  /\ Calls \subseteq Request
  /\ LegacyRoasts \subseteq Roast
  /\ Recorded \subseteq Keys

VARIABLES
  db,      \* the committed tables
  lagging, \* the committed tables one commit ago
  mode,    \* account parameter READ_CONSISTENCY_MODE
  lock,    \* who holds the row lock of cloud_sync_coordination
  stage,   \* run ids with a roast.jsonl on the stage
  pc,      \* where each session is in its procedure
  req,     \* the request it was called with
  txn,     \* the tables as its open transaction sees them
  touched, \* the groups it has still to recompute
  reply    \* what its client was last told, or what it is going to be told

vars == <<db, lagging, mode, lock, stage, pc, req, txn, touched, reply>>

NoRequest == [op |-> "none"]
NoTxn == [seq |-> "none"]
NoReply == [kind |-> "none"]
Raised == [kind |-> "raised"]
Lost == [kind |-> "lost"]

InTransaction == {"body", "recompute", "rollback"}

-----------------------------------------------------------------------------
(* Migration V1.4.0 creates the lock row with write_seq 0 and revision     *)
(* rows (0, 0) for every roast already there.  The summary of such a roast *)
(* was written by the procedures that created it.                          *)

Migrated(r) ==
  LET d == [EmptyTables EXCEPT !.roasts = {r}, !.revisions = FirstRevisions(r.id, 0)]
  IN  Recomputed(d, r.group)

Init ==
  /\ db \in {EmptyTables} \cup {Migrated(r) : r \in LegacyRoasts}
  /\ lagging = db
  /\ mode \in {"GLOBAL", "SESSION"}
  /\ lock = NoSession
  /\ stage = {}
  /\ pc = [s \in Sessions |-> "idle"]
  /\ req = [s \in Sessions |-> NoRequest]
  /\ txn = [s \in Sessions |-> NoTxn]
  /\ touched = [s \in Sessions |-> {}]
  /\ reply = [s \in Sessions |-> NoReply]

Call(s, q) ==
  /\ pc[s] = "idle"
  /\ pc' = [pc EXCEPT ![s] = "entering"]
  /\ req' = [req EXCEPT ![s] = q]
  /\ reply' = [reply EXCEPT ![s] = NoReply]
  /\ UNCHANGED <<db, lagging, mode, lock, stage, txn, touched>>

-----------------------------------------------------------------------------
(* cloud_sync_enter.                                                       *)

\* Fault: nothing keeps a second writer out.
LockIgnored == TRUE

\* The row lock is free.
LockFree == lock = NoSession

\* Under GLOBAL consistency a statement sees every commit before it.  Under
\* SESSION consistency it may miss the commits of other sessions.
Readable == IF mode = "GLOBAL" THEN {db} ELSE {db, lagging}

\* Fault: write_seq may pass its limit.
EntryUnbounded(seq) == mode = "GLOBAL"

\* Fault: the account parameter is not verified.
EntryAnyConsistency(seq) == seq < MaxSeq

\* The checks after the update of the lock row: write_seq is in range and the
\* account parameter is GLOBAL.
EntryVerified(seq) == seq < MaxSeq /\ mode = "GLOBAL"

Enter(s) ==
  /\ pc[s] = "entering"
  /\ LockFree
  /\ lock' = s
  /\ \E view \in Readable :
       IF EntryVerified(db.seq)
         THEN /\ pc' = [pc EXCEPT ![s] = "body"]
              /\ txn' = [txn EXCEPT ![s] = [view EXCEPT !.seq = db.seq + 1]]
         ELSE /\ pc' = [pc EXCEPT ![s] = "rollback"]
              /\ txn' = [txn EXCEPT ![s] = view]
  /\ UNCHANGED <<db, lagging, mode, stage, req, touched, reply>>

\* Snowflake gives up waiting for a row lock after LOCK_TIMEOUT.
LockTimeout(s) ==
  /\ pc[s] = "entering"
  /\ ~LockFree
  /\ pc' = [pc EXCEPT ![s] = "idle"]
  /\ req' = [req EXCEPT ![s] = NoRequest]
  /\ reply' = [reply EXCEPT ![s] = Raised]
  /\ UNCHANGED <<db, lagging, mode, lock, stage, txn, touched>>

-----------------------------------------------------------------------------
(* The bodies.  Each reads and writes the transaction's view d of the      *)
(* tables, leaves the groups to recompute and the answer to give.          *)

BodyDone(s, d, groups, answer) ==
  /\ pc[s] = "body"
  /\ pc' = [pc EXCEPT ![s] = "recompute"]
  /\ txn' = [txn EXCEPT ![s] = d]
  /\ touched' = [touched EXCEPT ![s] = groups]
  /\ reply' = [reply EXCEPT ![s] = answer]
  /\ UNCHANGED <<db, lagging, mode, lock, stage, req>>

CreatedReply(k, i, g) == [kind |-> "created", key |-> k, id |-> i, slug |-> g]

CreateNew(s, i) ==
  LET q == req[s]  d == txn[s]
  IN  /\ q.op = "create"
      /\ CreateAdmitted(d, q)
      /\ \A r \in d.roasts : r.id # i
      /\ ~TombstonedId(d, i)
      /\ BodyDone(s, Created(d, q, i), {q.group}, CreatedReply(q.key, i, q.slug))

CreateReplay(s, r) ==
  LET q == req[s]  d == txn[s]
  IN  /\ q.op = "create"
      /\ ReplayAdmitted(d, q, r)
      /\ BodyDone(s, d, {}, CreatedReply(q.key, r.id, r.slug))

\* The answer to one entry: its outcome and the revision accepted now; the
\* value is the one the client sent and remembers.
PatchAnswer(d, q, r, f) ==
  LET outcome == OutcomeOf(d, q, r, f)
  IN  [outcome |-> outcome, value |-> q.fields[f].value,
       revision |-> IF outcome = "applied" THEN q.fields[f].revision
                                           ELSE StoredRevision(d, r.id, f)]

PatchFields(s, r) ==
  LET q == req[s]  d == txn[s]
  IN  /\ q.op = "patch"
      /\ PatchAdmitted(d, q, r)
      /\ BodyDone(s, Patched(d, q, r), PatchTouches(d, q, r),
                  [kind |-> "patched", key |-> q.key, id |-> r.id,
                   fields |-> [f \in DOMAIN q.fields |-> PatchAnswer(d, q, r, f)]])

DeleteReply(q, seq) ==
  [kind |-> "deleted", key |-> q.key, slug |-> q.slug, seq |-> seq,
   stage_removal |-> "removed"]

DeleteLive(s, r) ==
  LET q == req[s]  d == txn[s]
  IN  /\ q.op = "delete"
      /\ DeleteLiveAdmitted(d, q, r)
      /\ BodyDone(s, Deleted(d, q, r), {r.group}, DeleteReply(q, d.seq))

DeleteAbsent(s) ==
  LET q == req[s]  d == txn[s]
  IN  /\ q.op = "delete"
      /\ DeleteAbsentAdmitted(d, q)
      /\ BodyDone(s, TombstonedWithoutRow(d, q), {}, DeleteReply(q, d.seq))

DeleteAgain(s, t) ==
  LET q == req[s]  d == txn[s]
  IN  /\ q.op = "delete"
      /\ DeleteAgainAdmitted(d, q, t)
      /\ BodyDone(s, d, {}, DeleteReply(q, t.seq))

LoadTelemetry(s, r) ==
  LET q == req[s]  d == txn[s]
  IN  /\ q.op = "load"
      /\ LoadAdmitted(d, q, r, stage)
      /\ BodyDone(s, Loaded(d, q), {r.group},
                  [kind |-> "loaded", key |-> q.key, id |-> q.id])

SubmitReview(s, r) ==
  LET q == req[s]  d == txn[s]
  IN  /\ q.op = "review"
      /\ ReviewAdmitted(d, q, r)
      /\ BodyDone(s, Reviewed(d, r), {r.group},
                  [kind |-> "reviewed", slug |-> q.slug, seq |-> d.seq])

LoadSeed(s) ==
  LET q == req[s]  d == txn[s]
  IN  /\ q.op = "seed"
      /\ SeedAdmitted(d, q)
      /\ BodyDone(s, Seeded(d, q), SeedTouches(q),
                  [kind |-> "seeded", keys |-> {r.key : r \in q.rows}])

Admitted(d, q) ==
  \/ q.op = "create" /\ CreateAdmitted(d, q)
  \/ q.op = "create" /\ \E r \in d.roasts : ReplayAdmitted(d, q, r)
  \/ q.op = "patch" /\ \E r \in d.roasts : PatchAdmitted(d, q, r)
  \/ q.op = "delete" /\ \E r \in d.roasts : DeleteLiveAdmitted(d, q, r)
  \/ q.op = "delete" /\ DeleteAbsentAdmitted(d, q)
  \/ q.op = "delete" /\ \E t \in d.tombstones : DeleteAgainAdmitted(d, q, t)
  \/ q.op = "load" /\ \E r \in d.roasts : LoadAdmitted(d, q, r, stage)
  \/ q.op = "review" /\ \E r \in d.roasts : ReviewAdmitted(d, q, r)
  \/ q.op = "seed" /\ SeedAdmitted(d, q)

\* Every other request raises, each for its own reason.
Refuse(s) ==
  /\ pc[s] = "body"
  /\ ~Admitted(txn[s], req[s])
  /\ pc' = [pc EXCEPT ![s] = "rollback"]
  /\ UNCHANGED <<db, lagging, mode, lock, stage, req, txn, touched, reply>>

Body(s) ==
  \/ pc[s] = "body" /\ \E i \in Ids : CreateNew(s, i)
  \/ pc[s] = "body" /\ \E r \in txn[s].roasts : CreateReplay(s, r)
  \/ pc[s] = "body" /\ \E r \in txn[s].roasts : PatchFields(s, r)
  \/ pc[s] = "body" /\ \E r \in txn[s].roasts : DeleteLive(s, r)
  \/ pc[s] = "body" /\ DeleteAbsent(s)
  \/ pc[s] = "body" /\ \E t \in txn[s].tombstones : DeleteAgain(s, t)
  \/ pc[s] = "body" /\ \E r \in txn[s].roasts : LoadTelemetry(s, r)
  \/ pc[s] = "body" /\ \E r \in txn[s].roasts : SubmitReview(s, r)
  \/ pc[s] = "body" /\ LoadSeed(s)
  \/ Refuse(s)

-----------------------------------------------------------------------------
(* recompute_reference_summary, commit, rollback and what follows.         *)

\* Fault: the nested entry runs in a transaction of its own and waits for the
\* lock that its caller holds.
ReentersAsStranger(s) == LockFree

\* The nested entry updates a row that its own transaction has locked.
Reenters(s) == lock = s

Recompute(s, g) ==
  /\ pc[s] = "recompute"
  /\ g \in touched[s]
  /\ Reenters(s)
  /\ IF EntryVerified(txn[s].seq)
       THEN /\ txn' = [txn EXCEPT ![s] =
                         Recomputed([txn[s] EXCEPT !.seq = @ + 1], g)]
            /\ touched' = [touched EXCEPT ![s] = @ \ {g}]
            /\ UNCHANGED pc
       ELSE /\ pc' = [pc EXCEPT ![s] = "rollback"]
            /\ UNCHANGED <<txn, touched>>
  /\ UNCHANGED <<db, lagging, mode, lock, stage, req, reply>>

Commit(s) ==
  /\ pc[s] = "recompute"
  /\ touched[s] = {}
  /\ lagging' = db
  /\ db' = txn[s]
  /\ lock' = NoSession
  /\ txn' = [txn EXCEPT ![s] = NoTxn]
  /\ pc' = [pc EXCEPT ![s] = IF req[s].op = "delete" THEN "removing" ELSE "done"]
  /\ UNCHANGED <<mode, stage, req, touched, reply>>

\* A session's transaction ends without effect; its client gets the answer.
EndTransaction(s, answer) ==
  /\ lock' = IF lock = s THEN NoSession ELSE lock
  /\ txn' = [txn EXCEPT ![s] = NoTxn]
  /\ touched' = [touched EXCEPT ![s] = {}]
  /\ pc' = [pc EXCEPT ![s] = "idle"]
  /\ req' = [req EXCEPT ![s] = NoRequest]
  /\ reply' = [reply EXCEPT ![s] = answer]
  /\ UNCHANGED <<db, lagging, mode, stage>>

\* The exception handler: rollback, then raise to the caller.
Rollback(s) ==
  /\ pc[s] = "rollback"
  /\ EndTransaction(s, Raised)

\* The session dies, or its statement is aborted, before the commit.
Abort(s) ==
  /\ pc[s] \in InTransaction \cup {"entering"}
  /\ EndTransaction(s, Lost)

\* delete_roast removes the run's files from the stage after its commit; a
\* failure is reported in the answer and nothing more is done about it.
RemoveStage(s) ==
  /\ pc[s] = "removing"
  /\ pc' = [pc EXCEPT ![s] = "done"]
  /\ \/ stage' = stage \ {req[s].key} /\ UNCHANGED reply
     \/ /\ reply' = [reply EXCEPT ![s].stage_removal = "failed"]
        /\ UNCHANGED stage
  /\ UNCHANGED <<db, lagging, mode, lock, req, txn, touched>>

Return(s) ==
  /\ pc[s] = "done"
  /\ pc' = [pc EXCEPT ![s] = "idle"]
  /\ req' = [req EXCEPT ![s] = NoRequest]
  /\ UNCHANGED <<db, lagging, mode, lock, stage, txn, touched, reply>>

\* The session dies, or its answer is lost, after the commit.
LoseReply(s) ==
  /\ pc[s] \in {"removing", "done"}
  /\ pc' = [pc EXCEPT ![s] = "idle"]
  /\ req' = [req EXCEPT ![s] = NoRequest]
  /\ reply' = [reply EXCEPT ![s] = Lost]
  /\ UNCHANGED <<db, lagging, mode, lock, stage, txn, touched>>

-----------------------------------------------------------------------------
(* The agent's uploads and the account administrator.                      *)

\* The agent has WRITE on the stage and puts a run's file there at any time,
\* also after the run was deleted.
Upload(k) ==
  /\ stage' = stage \cup {k}
  /\ UNCHANGED <<db, lagging, mode, lock, pc, req, txn, touched, reply>>

\* The account parameter is changed while no writer holds the lock.
AlterConsistency ==
  /\ LockFree
  /\ mode' \in {"GLOBAL", "SESSION"} \ {mode}
  /\ UNCHANGED <<db, lagging, lock, stage, pc, req, txn, touched, reply>>

\* The steps a session takes by itself once it was called.
Step(s) ==
  \/ Enter(s)
  \/ LockTimeout(s)
  \/ Body(s)
  \/ \E g \in touched[s] : Recompute(s, g)
  \/ Commit(s)
  \/ Rollback(s)
  \/ RemoveStage(s)
  \/ Return(s)

Next ==
  \/ \E s \in Sessions : \E q \in Calls : Call(s, q)
  \/ \E s \in Sessions : Step(s)
  \/ \E s \in Sessions : Abort(s)
  \/ \E s \in Sessions : LoseReply(s)
  \/ \E k \in Recorded : Upload(k)
  \/ AlterConsistency

Fairness == \A s \in Sessions : WF_vars(Step(s))

Spec == Init /\ [][Next]_vars /\ Fairness

-----------------------------------------------------------------------------
(* Properties.                                                             *)

TypeOK ==
  /\ db \in Tables
  /\ lagging \in Tables
  /\ mode \in {"GLOBAL", "SESSION"}
  /\ lock \in Sessions \cup {NoSession}
  /\ stage \subseteq Keys
  /\ pc \in [Sessions -> InTransaction \cup {"idle", "entering", "removing", "done"}]
  /\ req \in [Sessions -> Calls \cup {NoRequest}]
  /\ txn \in [Sessions -> Tables \cup {NoTxn}]
  /\ touched \in [Sessions -> SUBSET (Groups \cup {NoGroup})]

\* Among roasts, among tombstones and between the two, no id, key or slug
\* occurs twice: what data_quality_violations says of identities (R2).
IdentitiesExclusive(d) ==
  /\ DistinctIdentities(d.roasts)
  /\ \A t, u \in d.tombstones :
       t.key = u.key \/ t.slug = u.slug \/ (t.id = u.id /\ t.id # NoId) => t = u
  /\ \A r \in d.roasts : \A t \in d.tombstones :
       r.key # t.key /\ r.slug # t.slug /\ r.id # t.id

\* The committed tables never hold a roast twice, a roast that was deleted,
\* or an identity that was deleted twice, though no table enforces it.
Identities == IdentitiesExclusive(db)

\* Every roast has exactly one revision row per field, and no revision row
\* outlives its roast.
RevisionsComplete(d) ==
  /\ \A r \in d.roasts : RevisionsIntact(d, r.id)
  /\ \A v \in d.revisions : \E r \in d.roasts : r.id = v.id

RevisionRows == RevisionsComplete(db)

\* No row carries a write_seq that was not issued yet, and no two deletions
\* carry the same one: write_seq orders the deletions.
SequencesIssued(d) ==
  /\ \A v \in d.revisions : v.seq <= d.seq /\ v.revision <= MaxRevision
  /\ \A t \in d.tombstones : t.seq <= d.seq
  /\ \A t, u \in d.tombstones : t.seq = u.seq => t = u

Sequences == SequencesIssued(db)

\* Reviews, telemetry and artifacts belong to a roast that is there: a load
\* or a review that races a deletion leaves nothing behind.
ChildrenOwned(d) ==
  \A i \in d.telemetry \cup d.artifacts \cup {v.roast : v \in d.reviews} :
    \E r \in d.roasts : r.id = i

Children == ChildrenOwned(db)

\* The summary of group g is what a fresh recompute would write.
SummaryFresh(d, g) ==
  \/ d.summaries[g] = Aggregate(d, g)
  \/ d.summaries[g] = NoSummary /\ Contributing(d, g) = {}

\* From d to e, by request q, the summary of g becomes fresh, or neither it nor
\* what it is made of changes, or q is a seed that passes over g.
SummaryFollows(d, e, q, g) ==
  \/ SummaryFresh(e, g)
  \/ e.summaries[g] = d.summaries[g] /\ Aggregate(e, g) = Aggregate(d, g)
  \/ SeedPassesOver(q, g)

\* No commit leaves behind the summary of a group whose roasts, consent,
\* reviews or telemetry it changes, though every body names by itself the
\* groups it recomputes.  A seed whose artifact passes over a group of its own
\* roasts is the one writer that does, and it leaves no other group behind.
GroupsFollowed ==
  \E s \in Sessions :
    lock = s /\ \A g \in Groups : SummaryFollows(db, db', req[s], g)

SummariesFollow == [][GroupsFollowed]_db

\* Who is inside a transaction holds the lock, alone, and its body reads the
\* tables as last committed: what cloud_sync_enter is there for.
ReadsCurrent ==
  \A s \in Sessions :
    /\ pc[s] \in InTransaction <=> lock = s
    /\ pc[s] = "body" => txn[s] = [db EXCEPT !.seq = @ + 1]

\* Every commit has a greater write_seq than the one before it.
WriteSeqIncreases == [][db'.seq > db.seq]_db

\* A field's value changes only together with a greater accepted revision,
\* an accepted revision never goes down, and what is not patchable never
\* changes in the life of a roast.
FieldsFollow(d, e) ==
  \A a \in d.roasts : \A b \in e.roasts : a.id = b.id =>
    /\ [a EXCEPT !.value = b.value] = b
    /\ \A f \in Fields :
         LET old == StoredRevision(d, a.id, f)
             new == StoredRevision(e, a.id, f)
         IN  new > old \/ (new = old /\ a.value[f] = b.value[f])

ValuesFollowRevisions == [][FieldsFollow(db, db')]_db

\* The entry of run k in the ledger that the tables amount to.
LedgerEntry(d, k) ==
  IF TombstonedKey(d, k)
    THEN LET t == CHOOSE t \in d.tombstones : t.key = k
         IN  [state |-> "dead", id |-> t.id, slug |-> t.slug]
  ELSE IF RoastsByKey(d, k) # {}
    THEN LET r == CHOOSE r \in d.roasts : r.key = k
         IN  [state |-> "live", id |-> r.id, slug |-> r.slug,
              fields |-> [f \in Fields |->
                            [revision |-> StoredRevision(d, r.id, f),
                             value |-> r.value[f]]]]
    ELSE [state |-> "unknown"]

LedgerOf(d) == [k \in Keys |-> LedgerEntry(d, k)]

Ledger == INSTANCE RoastLedger WITH ledger <- LedgerOf(db)

\* The write plane keeps the promises of RoastLedger: an identity lives once
\* and is never revived or rebound, and a field's writes take effect in the
\* order of their revisions.
KeepsLedger == Ledger!Spec

\* Files are removed from the stage outside the transaction and its lock, and
\* yet only files of a run that can never be live again.
RemovesOnlyDead == [][\A k \in stage \ stage' : TombstonedKey(db, k)]_stage

\* What a client was told stays true: a created roast is there under the id
\* and slug it was given until it is deleted; a deletion leaves a tombstone
\* with the answered sequence; an accepted value stands until a greater
\* revision replaces it; a review and loaded telemetry stay with their roast.
Told(d, a) ==
  CASE a.kind = "created" ->
         \/ \E r \in d.roasts : r.id = a.id /\ r.key = a.key /\ r.slug = a.slug
         \/ TombstonedKey(d, a.key)
    [] a.kind = "deleted" ->
         \E t \in d.tombstones : t.key = a.key /\ t.slug = a.slug /\ t.seq = a.seq
    [] a.kind = "patched" ->
         \/ TombstonedKey(d, a.key)
         \/ \E r \in d.roasts : r.id = a.id /\ r.key = a.key
              /\ \A f \in DOMAIN a.fields :
                   LET now == StoredRevision(d, r.id, f)
                   IN  /\ now >= a.fields[f].revision
                       /\ /\ now = a.fields[f].revision
                          /\ a.fields[f].outcome \in {"applied", "already_applied"}
                          => r.value[f] = a.fields[f].value
    [] a.kind = "loaded" -> TombstonedKey(d, a.key) \/ a.id \in d.telemetry
    [] a.kind = "reviewed" ->
         TombstonedSlug(d, a.slug) \/ \E v \in d.reviews : v.seq = a.seq
    [] a.kind = "seeded" ->
         \A k \in a.keys : TombstonedKey(d, k) \/ RoastsByKey(d, k) # {}
    [] OTHER -> TRUE

AnswersStand == \A s \in Sessions : pc[s] = "idle" => Told(db, reply[s])

\* Every call ends: with an answer, an exception, or a lost session.
CallsEnd == \A s \in Sessions : pc[s] # "idle" ~> pc[s] = "idle"

================================================================================
