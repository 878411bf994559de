------------------------------ MODULE ReviewIntake ------------------------------
(***************************************************************************)
(* A tasting review on its way from the form to the database: the form in  *)
(* the browser, the route handler that screens a submission and meters it, *)
(* the SQL API client that gives up on the statement after 30 seconds, and *)
(* the statement, which nobody cancels and which may commit long after its *)
(* visitor was answered.  submit_review itself is CloudSync's; here it is  *)
(* the one step in which it commits or fails, with its purge of old IP     *)
(* hashes.  All submissions are for one roast.                             *)
(***************************************************************************)
EXTENDS Integers, FiniteSets

CONSTANTS
  Visitors,
  Ips,
  IpOf,        \* the address a visitor is seen under; visitors may share one
  Limit,       \* 5 in the code: submissions of an address in a window
  Retention,   \* 30 in the code: days after which an IP hash is purged
  MaxAttempts, \* bound: submissions by one visitor
  MaxWindows,  \* bound: rate limit windows
  MaxDay       \* bound: days

ASSUME IntakeAssumption ==
  /\ IpOf \in [Visitors -> Ips]
  /\ Limit \in Nat
  /\ Retention \in Nat \ {0}
  /\ MaxAttempts \in Nat
  /\ MaxWindows \in Nat \ {0}
  /\ MaxDay \in Nat

VARIABLES
  form,      \* of each visitor: editing, submitting or submitted
  message,   \* what the form says after a failure
  tries,     \* how often each visitor submitted
  stage,     \* of each attempt: where its handler is, or what it answered
  statement, \* of each attempt: its call of submit_review
  call,      \* of each attempt: its call of the limiter
  window,    \* the limiter's count for each address in the current window
  epoch,     \* the current window
  counted,   \* of each attempt: the window the limiter counted it in, or 0
  reviews,   \* the table tasting_reviews
  live,      \* whether the roast is there
  day

vars == <<form, message, tries, stage, statement, call, window, epoch, counted,
          reviews, live, day>>

limiter == <<call, window, epoch, counted>>

Attempts == Visitors \X (1..MaxAttempts)
IpOfAttempt(a) == IpOf[a[1]]
Current(v) == <<v, tries[v]>>

\* Answers of the route handler.  "decoy" is the 200 to a filled honeypot.
Answers == {"ok", "decoy", "forbidden", "limited", "unavailable"}

Review == [attempt : Attempts, day : 0..MaxDay, hashed : BOOLEAN]

Init ==
  /\ form = [v \in Visitors |-> "editing"]
  /\ message = [v \in Visitors |-> "none"]
  /\ tries = [v \in Visitors |-> 0]
  /\ stage = [a \in Attempts |-> "unsent"]
  /\ statement = [a \in Attempts |-> "none"]
  /\ call = [a \in Attempts |-> "none"]
  /\ window = [p \in Ips |-> 0]
  /\ epoch = 1
  /\ counted = [a \in Attempts |-> 0]
  /\ reviews = {}
  /\ live = TRUE
  /\ day = 0

-----------------------------------------------------------------------------
(* The form.                                                               *)

\* handleSubmit, once the review is valid; an invalid one stays in the form.
Submit(v) ==
  /\ form[v] = "editing"
  /\ tries[v] < MaxAttempts
  /\ form' = [form EXCEPT ![v] = "submitting"]
  /\ message' = [message EXCEPT ![v] = "none"]
  /\ tries' = [tries EXCEPT ![v] = @ + 1]
  /\ stage' = [stage EXCEPT ![<<v, tries[v] + 1>>] = "sent"]
  /\ UNCHANGED <<statement, limiter, reviews, live, day>>

\* mapSubmitResponse: every failure but a 429 asks to try again.
MessageFor(answer) == IF answer = "limited" THEN "limited" ELSE "retry"

Accepted(answer) == answer \in {"ok", "decoy"}

\* The form gets the answer to the request it waits for.
Answer(v) ==
  /\ form[v] = "submitting"
  /\ stage[Current(v)] \in Answers
  /\ IF Accepted(stage[Current(v)])
       THEN form' = [form EXCEPT ![v] = "submitted"] /\ UNCHANGED message
       ELSE /\ form' = [form EXCEPT ![v] = "editing"]
            /\ message' = [message EXCEPT ![v] = MessageFor(stage[Current(v)])]
  /\ UNCHANGED <<tries, stage, statement, limiter, reviews, live, day>>

\* The request or its answer is lost; the handler goes on if it got the request.
NetworkError(v) ==
  /\ form[v] = "submitting"
  /\ form' = [form EXCEPT ![v] = "editing"]
  /\ message' = [message EXCEPT ![v] = "retry"]
  /\ \/ UNCHANGED stage
     \/ stage[Current(v)] = "sent" /\ stage' = [stage EXCEPT ![Current(v)] = "lost"]
  /\ UNCHANGED <<tries, statement, limiter, reviews, live, day>>

\* The visitor loads the page again and finds an empty form.
Reload(v) ==
  /\ form' = [form EXCEPT ![v] = "editing"]
  /\ message' = [message EXCEPT ![v] = "none"]
  /\ UNCHANGED <<tries, stage, statement, limiter, reviews, live, day>>

-----------------------------------------------------------------------------
(* The route handler.                                                      *)

Handler(a, to) ==
  /\ stage' = [stage EXCEPT ![a] = to]
  /\ UNCHANGED <<form, message, tries, window, epoch, counted, reviews, live, day>>

\* Honeypot, then BotID; what passes both calls the limiter and waits for it.
Screen(a) ==
  /\ stage[a] = "sent"
  /\ \/ \E to \in {"decoy", "forbidden"} : Handler(a, to) /\ UNCHANGED call
     \/ Handler(a, "metering") /\ call' = [call EXCEPT ![a] = "asked"]
  /\ UNCHANGED statement

\* The call reaches Redis, where it is counted and admitted or refused in one
\* step, the handler still waiting for it or not.
Meter(a) ==
  /\ call[a] = "asked"
  /\ \/ /\ window[IpOfAttempt(a)] < Limit
        /\ window' = [window EXCEPT ![IpOfAttempt(a)] = @ + 1]
        /\ counted' = [counted EXCEPT ![a] = epoch]
        /\ call' = [call EXCEPT ![a] = "admitted"]
     \/ /\ window[IpOfAttempt(a)] >= Limit
        /\ call' = [call EXCEPT ![a] = "refused"]
        /\ UNCHANGED <<window, counted>>
  /\ UNCHANGED <<form, message, tries, stage, statement, epoch, reviews, live, day>>

\* checkRateLimit answers limited: the address used up its window.
Refuse(a) ==
  /\ stage[a] = "metering"
  /\ call[a] = "refused"
  /\ Handler(a, "limited")
  /\ UNCHANGED <<statement, call>>

\* Fault: a limiter that could not be reached lets the submission through.
FallbackAdmitting(a) == "executing"

\* What becomes of a submission when the limiter cannot be reached.
Fallback(a) == "limited"

\* Sends the statement if the handler goes on to execute it.
Sends(a, to) ==
  statement' = IF to = "executing" THEN [statement EXCEPT ![a] = "running"] ELSE statement

\* No configuration, no valid address, an error, or a timeout that the limiter
\* reports as a success with a reason.  The call may be counted all the same,
\* before or after.
FailClosed(a) ==
  /\ stage[a] = "metering"
  /\ Handler(a, Fallback(a))
  /\ Sends(a, Fallback(a))
  /\ UNCHANGED call

\* The limiter's admission reached the handler, and submitReview sends the
\* statement; a window may have passed since the call was counted.
Admit(a) ==
  /\ stage[a] = "metering"
  /\ call[a] = "admitted"
  /\ Handler(a, "executing")
  /\ Sends(a, "executing")
  /\ UNCHANGED call

\* Fault: a 202, a statement that is still running, is taken for a success.
ConfirmedOrRunning(a) == statement[a] \in {"running", "committed"}

\* The statement's result arrived: one row with the review's id.
Confirmed(a) == statement[a] = "committed"

Succeed(a) ==
  /\ stage[a] = "executing"
  /\ Confirmed(a)
  /\ Handler(a, "ok")
  /\ UNCHANGED <<statement, call>>

\* Fault: the handler waits for the statement as long as it takes.
GivesUpNever(a) == statement[a] = "failed"

\* executeStatement throws: the statement failed, or 30 seconds are over, or
\* Snowflake answered 202, or the result did not arrive or did not parse.
GivesUp(a) == statement[a] \in {"running", "committed", "failed"}

Fail(a) ==
  /\ stage[a] = "executing"
  /\ GivesUp(a)
  /\ Handler(a, "unavailable")
  /\ UNCHANGED <<statement, call>>

-----------------------------------------------------------------------------
(* The statement.                                                          *)

\* Fault: the purge keeps the hashes of the day the retention ends.
ExpiredLate(r, today) == today - r.day > Retention

\* A hash is due to be purged.
Expired(r, today) == today - r.day >= Retention

Purged(rows, today) ==
  {IF Expired(r, today) THEN [r EXCEPT !.hashed = FALSE] ELSE r : r \in rows}

\* submit_review commits: the review is inserted and old hashes are purged.
Commit(a) ==
  /\ statement[a] = "running"
  /\ live
  /\ statement' = [statement EXCEPT ![a] = "committed"]
  /\ reviews' = Purged(reviews \cup {[attempt |-> a, day |-> day, hashed |-> TRUE]}, day)
  /\ UNCHANGED <<form, message, tries, stage, limiter, live, day>>

\* It raises, times out waiting for the lock, or never reached Snowflake.
Raise(a) ==
  /\ statement[a] = "running"
  /\ statement' = [statement EXCEPT ![a] = "failed"]
  /\ UNCHANGED <<form, message, tries, stage, limiter, reviews, live, day>>

-----------------------------------------------------------------------------
(* Around them.                                                            *)

\* delete_roast takes the roast and its reviews away, for good.
DeleteRoast ==
  /\ live
  /\ live' = FALSE
  /\ reviews' = {}
  /\ UNCHANGED <<form, message, tries, stage, statement, limiter, day>>

\* The limiter's window has passed.
SlideWindow ==
  /\ epoch < MaxWindows
  /\ epoch' = epoch + 1
  /\ window' = [p \in Ips |-> 0]
  /\ UNCHANGED <<form, message, tries, stage, statement, call, counted, reviews, live, day>>

NextDay ==
  /\ day < MaxDay
  /\ day' = day + 1
  /\ UNCHANGED <<form, message, tries, stage, statement, limiter, reviews, live>>

HandlerStep(a) ==
  \/ Screen(a)
  \/ Refuse(a)
  \/ FailClosed(a)
  \/ Admit(a)
  \/ Succeed(a)
  \/ Fail(a)

Next ==
  \/ \E v \in Visitors : Submit(v)
  \/ \E v \in Visitors : Answer(v)
  \/ \E v \in Visitors : NetworkError(v)
  \/ \E v \in Visitors : Reload(v)
  \/ \E a \in Attempts : HandlerStep(a)
  \/ \E a \in Attempts : Meter(a)
  \/ \E a \in Attempts : Commit(a)
  \/ \E a \in Attempts : Raise(a)
  \/ DeleteRoast
  \/ SlideWindow
  \/ NextDay

\* A handler runs to its answer, each of its waits being bounded, and the
\* browser delivers an answer or gives up.  Nothing is owed by the limiter or
\* the statement.
Fairness ==
  /\ \A a \in Attempts : WF_vars(HandlerStep(a))
  /\ \A v \in Visitors : WF_vars(Answer(v))

Spec == Init /\ [][Next]_vars /\ Fairness

-----------------------------------------------------------------------------
(* Properties.                                                             *)

TypeOK ==
  /\ form \in [Visitors -> {"editing", "submitting", "submitted"}]
  /\ message \in [Visitors -> {"none", "retry", "limited"}]
  /\ tries \in [Visitors -> 0..MaxAttempts]
  /\ stage \in [Attempts -> {"unsent", "sent", "lost", "metering", "executing"}
                              \cup Answers]
  /\ statement \in [Attempts -> {"none", "running", "committed", "failed"}]
  /\ call \in [Attempts -> {"none", "asked", "admitted", "refused"}]
  /\ window \in [Ips -> 0..Limit]
  /\ epoch \in 1..MaxWindows
  /\ counted \in [Attempts -> 0..MaxWindows]
  /\ reviews \subseteq Review
  /\ live \in BOOLEAN
  /\ day \in 0..MaxDay

\* "Thanks - your tasting was saved" is said only of a review that is stored,
\* as long as its roast is; a filled honeypot is thanked for nothing.
ThanksMeansStored ==
  \A v \in Visitors : form[v] = "submitted" =>
    \/ stage[Current(v)] = "decoy"
    \/ ~live
    \/ \E r \in reviews : r.attempt = Current(v)

\* The gate in front of the warehouse.  A submission that was refused, by the
\* limiter, BotID or the honeypot, never reaches the database, then or later.
RefusedNeverStored ==
  \A a \in Attempts : stage[a] \in {"limited", "forbidden", "decoy"} =>
    statement[a] = "none" /\ \A r \in reviews : r.attempt # a

Statements(p) == {a \in Attempts : IpOfAttempt(a) = p /\ statement[a] # "none"}
CountedIn(p, e) == {a \in Attempts : IpOfAttempt(a) = p /\ counted[a] = e}

\* A statement is sent only of a submission the limiter has counted, at most
\* Limit of them in a window of an address, so that an address never has sent
\* more statements than all its windows so far allow, however many visitors
\* share it and whatever the limiter's failures.  A statement may be sent in a
\* later window than its submission was counted in: the answer is awaited.
AdmittedWithinLimit ==
  /\ \A a \in Attempts : statement[a] # "none" => counted[a] # 0
  /\ \A p \in Ips : \A e \in 1..MaxWindows : Cardinality(CountedIn(p, e)) <= Limit
  /\ \A p \in Ips : Cardinality(Statements(p)) <= Limit * epoch

\* Only what every check admitted reaches the database, and no more than the
\* limiter allows: the gate in front of the warehouse never admits on a fallback.
GateHolds == RefusedNeverStored /\ AdmittedWithinLimit

\* No IP hash is kept beside a review that is younger by the retention time:
\* every accepted review clears the whole table of expired hashes.
HashesPurgedByLaterReviews ==
  \A r, s \in reviews : r.hashed => s.day - r.day < Retention

\* A visitor who submitted gets an answer, whatever becomes of the statement.
SubmissionsAnswered ==
  \A v \in Visitors : form[v] = "submitting" ~> form[v] # "submitting"

\* What the form says after a failure, "We couldn't submit your review", and
\* what would make it safe to follow its advice to try again.
RetryMeansNotStored ==
  \A v \in Visitors : message[v] = "retry" =>
    \A r \in reviews : r.attempt # Current(v)

\* What the table's definition says of submitted_ip_hash, with a day to do it
\* in: the hash is purged when it is 30 days old.
HashesExpire ==
  \A r \in reviews : r.hashed => day - r.day <= Retention

================================================================================
