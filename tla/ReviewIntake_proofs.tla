--------------------------- MODULE ReviewIntake_proofs ---------------------------
(***************************************************************************)
(* Theorems of ReviewIntake, for any visitors, addresses and limits.  The  *)
(* inductive invariant IntakeInv ties the stage a handler has reached to   *)
(* what has become of its calls of the limiter and of the statement, and   *)
(* the statement to the table: only a counted submission has a statement,  *)
(* only a committed statement has a review, and what was counted of an     *)
(* address is its count in the current window and at most the limit in     *)
(* each before it.                                                         *)
(***************************************************************************)
EXTENDS ReviewIntake, FiniteSetTheorems, TLAPS

\* Where an attempt is that no check has admitted, or none has yet.
Unadmitted == {"unsent", "sent", "lost", "metering", "decoy", "forbidden", "limited"}

\* Attempts not made yet are unsent, and a form that waits, or thanks, has
\* made one.
AttemptsInOrder ==
  /\ \A a \in Attempts : a[2] > tries[a[1]] => stage[a] = "unsent"
  /\ \A v \in Visitors : form[v] # "editing" => tries[v] \in 1..MaxAttempts
  /\ \A v \in Visitors : form[v] = "submitted" => Accepted(stage[Current(v)])

\* A statement is sent of a counted submission, a submission is counted once,
\* in a window there was, and a success is reported of a committed one only.
StatementsAdmitted ==
  /\ \A a \in Attempts : stage[a] \in Unadmitted => statement[a] = "none"
  /\ \A a \in Attempts : statement[a] # "none" => counted[a] # 0
  /\ \A a \in Attempts : stage[a] = "ok" => statement[a] = "committed"

CallsCounted ==
  /\ \A a \in Attempts : stage[a] \in {"unsent", "sent", "lost"} =>
       call[a] = "none" /\ counted[a] = 0
  /\ \A a \in Attempts : call[a] = "asked" => counted[a] = 0
  /\ \A a \in Attempts : call[a] = "admitted" => counted[a] # 0
  /\ \A a \in Attempts : counted[a] <= epoch

\* The table holds the reviews of the committed statements while it holds any.
ReviewsCommitted ==
  /\ \A r \in reviews : statement[r.attempt] = "committed" /\ r.day <= day
  /\ live => \A a \in Attempts : statement[a] = "committed" =>
               \E r \in reviews : r.attempt = a

Counted(p) == {a \in Attempts : IpOfAttempt(a) = p /\ counted[a] # 0}

\* What is counted of an address is within the limit in every window, in the
\* current one within the limiter's count.
WindowsCounted ==
  \A p \in Ips :
    /\ IsFiniteSet(Counted(p))
    /\ Cardinality(Counted(p)) <= Limit * (epoch - 1) + window[p]
    /\ \A e \in 1..MaxWindows :
         /\ IsFiniteSet(CountedIn(p, e))
         /\ Cardinality(CountedIn(p, e)) <= Limit
         /\ e = epoch => Cardinality(CountedIn(p, e)) <= window[p]

IntakeInv ==
  /\ TypeOK
  /\ AttemptsInOrder
  /\ StatementsAdmitted
  /\ CallsCounted
  /\ ReviewsCommitted
  /\ WindowsCounted
  /\ HashesPurgedByLaterReviews

LEMMA InitIntakeInv == Init => IntakeInv
<1> SUFFICES ASSUME Init
             PROVE  IntakeInv
  OBVIOUS
<1>1. TypeOK
  BY IntakeAssumption DEF Init, TypeOK
<1>2. AttemptsInOrder /\ StatementsAdmitted /\ CallsCounted /\ ReviewsCommitted
  BY DEF Init, AttemptsInOrder, StatementsAdmitted, CallsCounted, ReviewsCommitted, Unadmitted
<1>3. WindowsCounted
  <2>1. ASSUME NEW p \in Ips
        PROVE  Counted(p) = {} /\ \A e \in 1..MaxWindows : CountedIn(p, e) = {}
    BY DEF Init, Counted, CountedIn
  <2>2. Limit \in Nat /\ window = [p \in Ips |-> 0] /\ epoch = 1
    BY IntakeAssumption DEF Init
  <2>3. IsFiniteSet({}) /\ Cardinality({}) = 0
    BY FS_EmptySet
  <2>4. Limit * (epoch - 1) = 0
    BY <2>2
  <2>5. \A p \in Ips : window[p] = 0
    BY <2>2
  <2>6. \A p \in Ips : IsFiniteSet(Counted(p)) /\ Cardinality(Counted(p)) <= Limit * (epoch - 1) + window[p]
    BY <2>1, <2>3, <2>4, <2>5
  <2>7. \A p \in Ips : \A e \in 1..MaxWindows :
          /\ IsFiniteSet(CountedIn(p, e))
          /\ Cardinality(CountedIn(p, e)) <= Limit
          /\ Cardinality(CountedIn(p, e)) <= window[p]
    BY <2>1, <2>2, <2>3, <2>5
  <2> QED  BY <2>6, <2>7 DEF WindowsCounted
<1>4. HashesPurgedByLaterReviews
  BY DEF Init, HashesPurgedByLaterReviews
<1> QED  BY <1>1, <1>2, <1>3, <1>4 DEF IntakeInv

\* What the parts of the invariant depend on.
LEMMA WindowsKept ==
  ASSUME WindowsCounted, UNCHANGED <<counted, window, epoch>>
  PROVE  WindowsCounted'
<1>1. \A p : Counted(p)' = Counted(p) /\ \A e : CountedIn(p, e)' = CountedIn(p, e)
  BY DEF Counted, CountedIn
<1> QED  BY <1>1 DEF WindowsCounted

LEMMA TableKept ==
  ASSUME ReviewsCommitted, HashesPurgedByLaterReviews,
         UNCHANGED <<statement, reviews, live, day>>
  PROVE  ReviewsCommitted' /\ HashesPurgedByLaterReviews'
BY DEF ReviewsCommitted, HashesPurgedByLaterReviews

\* The stages an attempt goes through, form and handler together.
LEMMA FormIntakeInv ==
  ASSUME IntakeInv, NEW v \in Visitors,
         Submit(v) \/ Answer(v) \/ NetworkError(v) \/ Reload(v)
  PROVE  IntakeInv'
<1>1. UNCHANGED <<statement, call, window, epoch, counted, reviews, live, day>>
  BY DEF Submit, Answer, NetworkError, Reload, limiter
<1>2. WindowsCounted' /\ ReviewsCommitted' /\ HashesPurgedByLaterReviews'
  BY <1>1, WindowsKept, TableKept DEF IntakeInv
<1>3. /\ form \in [Visitors -> {"editing", "submitting", "submitted"}]
      /\ message \in [Visitors -> {"none", "retry", "limited"}]
      /\ tries \in [Visitors -> 0..MaxAttempts]
      /\ stage \in [Attempts -> {"unsent", "sent", "lost", "metering", "executing"} \cup Answers]
      /\ MaxAttempts \in Nat
  BY IntakeAssumption DEF IntakeInv, TypeOK
<1>4. TypeOK' /\ AttemptsInOrder' /\ StatementsAdmitted' /\ CallsCounted'
  <2>1. CASE Submit(v)
    <3> DEFINE a == <<v, tries[v] + 1>>
    <3>1. /\ form' = [form EXCEPT ![v] = "submitting"]
          /\ message' = [message EXCEPT ![v] = "none"]
          /\ tries' = [tries EXCEPT ![v] = tries[v] + 1]
          /\ stage' = [stage EXCEPT ![a] = "sent"]
          /\ tries[v] + 1 \in 1..MaxAttempts
      BY <1>3, <2>1 DEF Submit
    <3>2. a \in Attempts /\ a[1] = v /\ a[2] = tries[v] + 1
      BY <3>1 DEF Attempts
    <3>3. TypeOK'
      <4>1. tries' \in [Visitors -> 0..MaxAttempts]
        BY <1>3, <3>1
      <4>2. /\ form' \in [Visitors -> {"editing", "submitting", "submitted"}]
            /\ message' \in [Visitors -> {"none", "retry", "limited"}]
            /\ stage' \in [Attempts -> {"unsent", "sent", "lost", "metering", "executing"}
                                         \cup Answers]
        BY <1>3, <3>1
      <4> QED  BY <1>1, <4>1, <4>2 DEF IntakeInv, TypeOK
    <3>4. stage[a] = "unsent"
      BY <1>3, <3>2 DEF IntakeInv, AttemptsInOrder
    <3>5. StatementsAdmitted' /\ CallsCounted'
      BY <1>1, <1>3, <3>1, <3>4 DEF IntakeInv, StatementsAdmitted, CallsCounted, Unadmitted
    <3>6. \A b \in Attempts : b # a /\ b[1] = v => b[2] # tries[v] + 1
      BY DEF Attempts
    <3>7. \A b \in Attempts : b[1] \in Visitors /\ b[2] \in 1..MaxAttempts
      BY DEF Attempts
    <3>8. ASSUME NEW b \in Attempts, b[2] > tries'[b[1]]
          PROVE  stage'[b] = "unsent"
      <4>1. b # a /\ b[2] > tries[b[1]]
        BY <1>3, <3>1, <3>2, <3>6, <3>7, <3>8
      <4> QED  BY <1>3, <3>1, <4>1 DEF IntakeInv, AttemptsInOrder
    <3>9. ASSUME NEW w \in Visitors, form'[w] # "editing"
          PROVE  tries'[w] \in 1..MaxAttempts
      BY <1>3, <3>1, <3>9 DEF IntakeInv, AttemptsInOrder
    <3>10. ASSUME NEW w \in Visitors, form'[w] = "submitted"
           PROVE  Accepted(stage'[Current(w)'])
      <4>1. w # v /\ form[w] = "submitted" /\ Current(w)' = Current(w)
        BY <1>3, <3>1, <3>10 DEF Current
      <4>2. Current(w) \in Attempts /\ Current(w) # a
        BY <4>1 DEF IntakeInv, AttemptsInOrder, Attempts, Current
      <4> QED  BY <1>3, <3>1, <4>1, <4>2 DEF IntakeInv, AttemptsInOrder
    <3> QED  BY <3>3, <3>5, <3>8, <3>9, <3>10 DEF AttemptsInOrder
  <2>2. CASE Answer(v)
    BY <1>1, <1>3, <2>2
       DEF Answer, IntakeInv, TypeOK, AttemptsInOrder, StatementsAdmitted, CallsCounted,
           Current, MessageFor
  <2>3. CASE NetworkError(v)
    <3>1. /\ form[v] = "submitting" /\ tries' = tries
          /\ form' = [form EXCEPT ![v] = "editing"]
          /\ message' = [message EXCEPT ![v] = "retry"]
          /\ \/ stage' = stage
             \/ stage[Current(v)] = "sent" /\ stage' = [stage EXCEPT ![Current(v)] = "lost"]
      BY <2>3 DEF NetworkError
    <3>2. Current(v) \in Attempts /\ \A w \in Visitors : Current(w)' = Current(w)
      BY <3>1 DEF IntakeInv, AttemptsInOrder, Attempts, Current
    <3>3. TypeOK' /\ StatementsAdmitted' /\ CallsCounted'
      BY <1>1, <1>3, <3>1, <3>2 DEF IntakeInv, TypeOK, StatementsAdmitted, CallsCounted, Unadmitted
    <3>4. \A w \in Visitors : w # v => Current(w) # Current(v)
      BY DEF Current
    <3>5. \A w \in Visitors : form'[w] = "submitted" =>
            form[w] = "submitted" /\ Current(w) \in Attempts /\ stage'[Current(w)] = stage[Current(w)]
      <4>1. \A w \in Visitors : form[w] = "submitted" => Current(w) \in Attempts
        BY DEF IntakeInv, AttemptsInOrder, Attempts, Current
      <4> QED  BY <1>3, <3>1, <3>2, <3>4, <4>1
    <3>6. \A b \in Attempts : stage[b] = "unsent" => stage'[b] = "unsent"
      BY <1>3, <3>1, <3>2
    <3>7. \A w \in Visitors : form'[w] # "editing" => form[w] # "editing"
      BY <1>3, <3>1
    <3> QED  BY <3>1, <3>2, <3>3, <3>5, <3>6, <3>7 DEF IntakeInv, AttemptsInOrder
  <2>4. CASE Reload(v)
    BY <1>1, <1>3, <2>4
       DEF Reload, IntakeInv, TypeOK, AttemptsInOrder, StatementsAdmitted, CallsCounted, Current
  <2> QED  BY <2>1, <2>2, <2>3, <2>4
<1> QED  BY <1>2, <1>4 DEF IntakeInv

\* A handler's step that sends no statement and does not answer "ok".
LEMMA QuietHandler ==
  ASSUME IntakeInv, NEW a \in Attempts, NEW to \in {"decoy", "forbidden", "metering",
                                                     "limited", "unavailable", "ok"},
         stage[a] \notin Answers \cup {"unsent"}, Handler(a, to), UNCHANGED statement,
         to \in {"decoy", "forbidden", "metering", "limited"} => stage[a] \in Unadmitted,
         to = "ok" => statement[a] = "committed",
         \/ UNCHANGED call
         \/ stage[a] = "sent" /\ call' = [call EXCEPT ![a] = "asked"]
  PROVE  IntakeInv'
<1>1. /\ stage' = [stage EXCEPT ![a] = to]
      /\ UNCHANGED <<form, message, tries, window, epoch, counted, reviews, live, day>>
  BY DEF Handler
<1>2. /\ stage \in [Attempts -> {"unsent", "sent", "lost", "metering", "executing"} \cup Answers]
      /\ call \in [Attempts -> {"none", "asked", "admitted", "refused"}]
  BY DEF IntakeInv, TypeOK
<1>3. TypeOK'
  BY <1>1, <1>2 DEF IntakeInv, TypeOK, Answers
<1>4. AttemptsInOrder'
  BY <1>1, <1>2 DEF IntakeInv, AttemptsInOrder, Accepted, Answers, Current
<1>5. StatementsAdmitted'
  BY <1>1, <1>2 DEF IntakeInv, StatementsAdmitted, Unadmitted
<1>6. CallsCounted'
  BY <1>1, <1>2 DEF IntakeInv, CallsCounted
<1>7. ReviewsCommitted' /\ HashesPurgedByLaterReviews' /\ WindowsCounted'
  BY <1>1, TableKept, WindowsKept DEF IntakeInv
<1> QED  BY <1>3, <1>4, <1>5, <1>6, <1>7 DEF IntakeInv

\* The handler that the limiter's admission reached sends its statement.
LEMMA AdmitIntakeInv ==
  ASSUME IntakeInv, NEW a \in Attempts, Admit(a)
  PROVE  IntakeInv'
<1>1. /\ stage[a] = "metering" /\ call[a] = "admitted"
      /\ stage' = [stage EXCEPT ![a] = "executing"]
      /\ statement' = [statement EXCEPT ![a] = "running"]
      /\ UNCHANGED <<form, message, tries, call, window, epoch, counted, reviews, live, day>>
  BY DEF Admit, Handler, Sends
<1>2. /\ stage \in [Attempts -> {"unsent", "sent", "lost", "metering", "executing"} \cup Answers]
      /\ statement \in [Attempts -> {"none", "running", "committed", "failed"}]
  BY DEF IntakeInv, TypeOK
<1>3. statement[a] = "none" /\ counted[a] # 0
  BY <1>1 DEF IntakeInv, StatementsAdmitted, CallsCounted, Unadmitted
<1>4. TypeOK'
  BY <1>1, <1>2 DEF IntakeInv, TypeOK
<1>5. AttemptsInOrder'
  BY <1>1, <1>2 DEF IntakeInv, AttemptsInOrder, Accepted, Current
<1>6. StatementsAdmitted' /\ CallsCounted'
  BY <1>1, <1>2, <1>3 DEF IntakeInv, StatementsAdmitted, CallsCounted, Unadmitted
<1>7. ReviewsCommitted' /\ HashesPurgedByLaterReviews'
  BY <1>1, <1>2, <1>3 DEF IntakeInv, ReviewsCommitted, HashesPurgedByLaterReviews, TypeOK, Review
<1>8. WindowsCounted'
  BY <1>1, WindowsKept DEF IntakeInv
<1> QED  BY <1>4, <1>5, <1>6, <1>7, <1>8 DEF IntakeInv

\* One element more is at most one in the cardinality more.
LEMMA OneMore ==
  ASSUME NEW T, NEW x, NEW n \in Nat, IsFiniteSet(T), Cardinality(T) <= n
  PROVE  IsFiniteSet(T \cup {x}) /\ Cardinality(T \cup {x}) <= n + 1
<1>1. /\ IsFiniteSet(T \cup {x})
      /\ Cardinality(T \cup {x}) = IF x \in T THEN Cardinality(T) ELSE Cardinality(T) + 1
  BY FS_AddElement
<1>2. Cardinality(T) \in Nat
  BY FS_CardinalityType
<1> QED  BY <1>1, <1>2

\* A call the limiter admits is one more of its address in the current window,
\* and the limiter has counted it.
LEMMA MeterIntakeInv ==
  ASSUME IntakeInv, NEW a \in Attempts, Meter(a)
  PROVE  IntakeInv'
<1> DEFINE q == IpOfAttempt(a)
<1>1. /\ call[a] = "asked"
      /\ UNCHANGED <<form, message, tries, stage, statement, epoch, reviews, live, day>>
  BY DEF Meter
<1>2. /\ call \in [Attempts -> {"none", "asked", "admitted", "refused"}]
      /\ window \in [Ips -> 0..Limit]
      /\ counted \in [Attempts -> 0..MaxWindows]
      /\ epoch \in 1..MaxWindows
      /\ Limit \in Nat /\ MaxWindows \in Nat
      /\ q \in Ips
  BY IntakeAssumption DEF IntakeInv, TypeOK, Attempts, IpOfAttempt
<1>3. counted[a] = 0 /\ stage[a] \notin {"unsent", "sent", "lost"}
  BY <1>1 DEF IntakeInv, CallsCounted
<1>4. AttemptsInOrder' /\ ReviewsCommitted' /\ HashesPurgedByLaterReviews'
  BY <1>1, TableKept DEF IntakeInv, AttemptsInOrder, Current
<1>5. CASE call' = [call EXCEPT ![a] = "refused"] /\ UNCHANGED <<window, counted>>
  <2>1. TypeOK' /\ StatementsAdmitted' /\ CallsCounted'
    BY <1>1, <1>2, <1>3, <1>5 DEF IntakeInv, TypeOK, StatementsAdmitted, CallsCounted
  <2>2. WindowsCounted'
    BY <1>1, <1>5, WindowsKept DEF IntakeInv
  <2> QED  BY <1>4, <2>1, <2>2 DEF IntakeInv
<1>6. CASE /\ window[q] < Limit
           /\ window' = [window EXCEPT ![q] = window[q] + 1]
           /\ counted' = [counted EXCEPT ![a] = epoch]
           /\ call' = [call EXCEPT ![a] = "admitted"]
  <2> HIDE DEF q
  <2>1. TypeOK'
    BY <1>1, <1>2, <1>6 DEF IntakeInv, TypeOK
  <2>2. StatementsAdmitted' /\ CallsCounted'
    BY <1>1, <1>2, <1>3, <1>6 DEF IntakeInv, StatementsAdmitted, CallsCounted
  <2>3. ASSUME NEW p \in Ips
        PROVE  /\ IsFiniteSet(Counted(p)')
               /\ Cardinality(Counted(p)') <= Limit * (epoch - 1) + window'[p]
    <3>1. /\ IsFiniteSet(Counted(p))
          /\ Cardinality(Counted(p)) <= Limit * (epoch - 1) + window[p]
      BY DEF IntakeInv, WindowsCounted
    <3>2. CASE p = q
      <4>1. Counted(p)' = Counted(p) \cup {a}
        BY <1>2, <1>6, <3>2 DEF Counted, q, IpOfAttempt
      <4>2. Limit * (epoch - 1) + window[p] \in Nat
        BY <1>2
      <4>3. window'[p] = window[p] + 1 /\ window[p] \in Nat
        BY <1>2, <1>6, <3>2
      <4> DEFINE bound == Limit * (epoch - 1) + window[p]
      <4>4. bound + 1 = Limit * (epoch - 1) + window'[p]
        BY <1>2, <4>3
      <4> HIDE DEF bound
      <4>5. IsFiniteSet(Counted(p) \cup {a}) /\ Cardinality(Counted(p) \cup {a}) <= bound + 1
        BY <3>1, <4>2, OneMore DEF bound
      <4> QED  BY <4>1, <4>4, <4>5
    <3>3. CASE p # q
      <4>1. Counted(p)' = Counted(p)
        BY <1>2, <1>6, <3>3 DEF Counted, q, IpOfAttempt
      <4>2. window'[p] = window[p]
        BY <1>2, <1>6, <3>3
      <4> QED  BY <3>1, <4>1, <4>2
    <3> QED  BY <3>2, <3>3
  <2>4. ASSUME NEW p \in Ips, NEW e \in 1..MaxWindows
        PROVE  /\ IsFiniteSet(CountedIn(p, e)')
               /\ Cardinality(CountedIn(p, e)') <= Limit
               /\ e = epoch => Cardinality(CountedIn(p, e)') <= window'[p]
    <3>1. /\ IsFiniteSet(CountedIn(p, e))
          /\ Cardinality(CountedIn(p, e)) <= Limit
          /\ e = epoch => Cardinality(CountedIn(p, e)) <= window[p]
      BY DEF IntakeInv, WindowsCounted
    <3>2. CASE p = q /\ e = epoch
      <4>1. CountedIn(p, e)' = CountedIn(p, e) \cup {a}
        BY <1>2, <1>6, <3>2 DEF CountedIn, q, IpOfAttempt
      <4>2. window'[p] = window[p] + 1 /\ window[p] \in Nat /\ window[p] + 1 <= Limit
        BY <1>2, <1>6, <3>2
      <4>3. /\ IsFiniteSet(CountedIn(p, e) \cup {a})
            /\ Cardinality(CountedIn(p, e) \cup {a}) <= window[p] + 1
        BY <3>1, <3>2, <4>2, OneMore
      <4>4. Cardinality(CountedIn(p, e) \cup {a}) \in Nat
        BY <4>3, FS_CardinalityType
      <4> QED  BY <1>2, <4>1, <4>2, <4>3, <4>4
    <3>3. CASE ~(p = q /\ e = epoch)
      <4>1. CountedIn(p, e)' = CountedIn(p, e)
        BY <1>2, <1>3, <1>6, <3>3 DEF CountedIn, q, IpOfAttempt
      <4>2. e = epoch => window'[p] = window[p]
        BY <1>2, <1>6, <3>3
      <4> QED  BY <3>1, <4>1, <4>2
    <3> QED  BY <3>2, <3>3
  <2>5. WindowsCounted'
    BY <1>1, <2>3, <2>4 DEF WindowsCounted
  <2> QED  BY <1>4, <2>1, <2>2, <2>5 DEF IntakeInv
<1> QED  BY <1>5, <1>6 DEF Meter

LEMMA HandlerIntakeInv ==
  ASSUME IntakeInv, NEW a \in Attempts, HandlerStep(a)
  PROVE  IntakeInv'
<1>1. CASE Screen(a)
  <2>1. PICK to \in {"decoy", "forbidden", "metering"} :
          Handler(a, to) /\ (UNCHANGED call \/ call' = [call EXCEPT ![a] = "asked"])
    BY <1>1 DEF Screen
  <2>2. stage[a] = "sent" /\ UNCHANGED statement
    BY <1>1 DEF Screen
  <2> QED  BY <2>1, <2>2, QuietHandler DEF Answers, Unadmitted
<1>2. CASE Refuse(a)
  BY <1>2, QuietHandler DEF Refuse, Answers, Unadmitted
<1>3. CASE FailClosed(a)
  <2>1. /\ stage[a] = "metering" /\ Handler(a, "limited")
        /\ UNCHANGED <<statement, call>>
    BY <1>3 DEF FailClosed, Fallback, Sends
  <2> QED  BY <2>1, QuietHandler DEF Answers, Unadmitted
<1>4. CASE Admit(a)
  BY <1>4, AdmitIntakeInv
<1>5. CASE Succeed(a)
  BY <1>5, QuietHandler DEF Succeed, Confirmed, Answers
<1>6. CASE Fail(a)
  BY <1>6, QuietHandler DEF Fail, Answers
<1> QED  BY <1>1, <1>2, <1>3, <1>4, <1>5, <1>6 DEF HandlerStep

\* A commit inserts today's review and purges every hash that is due: those it
\* leaves hashed are younger than the retention, as seen from any review.
LEMMA CommitIntakeInv ==
  ASSUME IntakeInv, NEW a \in Attempts, Commit(a)
  PROVE  IntakeInv'
<1> DEFINE new == [attempt |-> a, day |-> day, hashed |-> TRUE]
<1>1. /\ statement[a] = "running"
      /\ live
      /\ statement' = [statement EXCEPT ![a] = "committed"]
      /\ reviews' = Purged(reviews \cup {new}, day)
      /\ UNCHANGED <<form, message, tries, stage, call, window, epoch, counted, live, day>>
  BY DEF Commit, limiter
<1>2. /\ statement \in [Attempts -> {"none", "running", "committed", "failed"}]
      /\ reviews \subseteq Review /\ day \in 0..MaxDay /\ MaxDay \in Nat
      /\ Retention \in Nat \ {0}
  BY IntakeAssumption DEF IntakeInv, TypeOK
<1>3. new \in Review /\ new.attempt = a /\ new.day = day
  BY <1>2 DEF Review
<1> HIDE DEF new
<1>4. ASSUME NEW r \in reviews'
      PROVE  \E o \in reviews \cup {new} :
               /\ r \in Review /\ r.attempt = o.attempt /\ r.day = o.day
               /\ r.hashed => day - o.day < Retention
  <2>1. PICK o \in reviews \cup {new} :
          r = IF Expired(o, day) THEN [o EXCEPT !.hashed = FALSE] ELSE o
    BY <1>1 DEF Purged
  <2>2. o \in Review
    BY <1>2, <1>3
  <2>3. r \in Review /\ r.attempt = o.attempt /\ r.day = o.day
    BY <2>1, <2>2 DEF Review
  <2>4. r.hashed => ~Expired(o, day)
    BY <2>1, <2>2 DEF Review
  <2>5. o.day \in 0..MaxDay
    BY <2>2 DEF Review
  <2> QED  BY <1>2, <2>3, <2>4, <2>5 DEF Expired
<1>5. ASSUME NEW o \in reviews \cup {new}
      PROVE  \E r \in reviews' : r.attempt = o.attempt
  <2> DEFINE r == IF Expired(o, day) THEN [o EXCEPT !.hashed = FALSE] ELSE o
  <2>1. r \in reviews'
    BY <1>1 DEF Purged
  <2>2. r.attempt = o.attempt
    BY <1>2, <1>3 DEF Review
  <2> QED  BY <2>1, <2>2
<1>6. TypeOK'
  <2>1. reviews' \subseteq Review
    BY <1>4
  <2> QED  BY <1>1, <1>2, <2>1 DEF IntakeInv, TypeOK
<1>7. AttemptsInOrder'
  BY <1>1 DEF IntakeInv, AttemptsInOrder, Current
<1>8. StatementsAdmitted' /\ CallsCounted'
  BY <1>1, <1>2 DEF IntakeInv, StatementsAdmitted, CallsCounted
<1>9. ReviewsCommitted'
  <2>1. ASSUME NEW r \in reviews'
        PROVE  statement'[r.attempt] = "committed" /\ r.day <= day'
    <3>1. PICK o \in reviews \cup {new} : r \in Review /\ r.attempt = o.attempt /\ r.day = o.day
      BY <1>4
    <3>2. r.attempt \in Attempts
      BY <3>1 DEF Review
    <3>3. o.day <= day /\ (o # new => statement[o.attempt] = "committed")
      BY <1>2, <1>3 DEF IntakeInv, ReviewsCommitted
    <3> QED  BY <1>1, <1>2, <1>3, <3>1, <3>2, <3>3
  <2>2. ASSUME NEW b \in Attempts, statement'[b] = "committed"
        PROVE  \E o \in reviews \cup {new} : o.attempt = b
    BY <1>1, <1>2, <1>3, <2>2 DEF IntakeInv, ReviewsCommitted
  <2>3. ASSUME NEW b \in Attempts, statement'[b] = "committed"
        PROVE  \E r \in reviews' : r.attempt = b
    BY <1>5, <2>2, <2>3
  <2> QED  BY <2>1, <2>3 DEF ReviewsCommitted
<1>10. HashesPurgedByLaterReviews'
  <2> SUFFICES ASSUME NEW r \in reviews', NEW s \in reviews', r.hashed
               PROVE  s.day - r.day < Retention
    BY DEF HashesPurgedByLaterReviews
  <2>1. /\ r \in Review /\ day - r.day < Retention
        /\ s \in Review
    BY <1>4
  <2>2. s.day <= day
    BY <1>1, <1>9 DEF ReviewsCommitted
  <2>3. r.day \in 0..MaxDay /\ s.day \in 0..MaxDay
    BY <2>1 DEF Review
  <2> QED  BY <1>2, <2>1, <2>2, <2>3
<1>11. WindowsCounted'
  BY <1>1, WindowsKept DEF IntakeInv
<1> QED  BY <1>6, <1>7, <1>8, <1>9, <1>10, <1>11 DEF IntakeInv

LEMMA RaiseIntakeInv ==
  ASSUME IntakeInv, NEW a \in Attempts, Raise(a)
  PROVE  IntakeInv'
<1>1. /\ statement[a] = "running"
      /\ statement' = [statement EXCEPT ![a] = "failed"]
      /\ UNCHANGED <<form, message, tries, stage, call, window, epoch, counted, reviews, live, day>>
  BY DEF Raise, limiter
<1>2. statement \in [Attempts -> {"none", "running", "committed", "failed"}]
  BY DEF IntakeInv, TypeOK
<1>3. TypeOK'
  BY <1>1, <1>2 DEF IntakeInv, TypeOK
<1>4. AttemptsInOrder'
  BY <1>1 DEF IntakeInv, AttemptsInOrder, Current
<1>5. StatementsAdmitted' /\ CallsCounted'
  BY <1>1, <1>2 DEF IntakeInv, StatementsAdmitted, CallsCounted
<1>6. ReviewsCommitted'
  <2>1. \A r \in reviews : r.attempt \in Attempts
    BY DEF IntakeInv, TypeOK, Review
  <2> QED  BY <1>1, <1>2, <2>1 DEF IntakeInv, ReviewsCommitted
<1>7. HashesPurgedByLaterReviews' /\ WindowsCounted'
  BY <1>1, WindowsKept DEF IntakeInv, HashesPurgedByLaterReviews
<1> QED  BY <1>3, <1>4, <1>5, <1>6, <1>7 DEF IntakeInv

\* A new window starts with nothing counted in it.
LEMMA SlideIntakeInv ==
  ASSUME IntakeInv, SlideWindow
  PROVE  IntakeInv'
<1>1. /\ epoch < MaxWindows
      /\ epoch' = epoch + 1
      /\ window' = [p \in Ips |-> 0]
      /\ UNCHANGED <<form, message, tries, stage, statement, call, counted, reviews, live, day>>
  BY DEF SlideWindow
<1>2. /\ epoch \in 1..MaxWindows /\ MaxWindows \in Nat /\ Limit \in Nat
      /\ counted \in [Attempts -> 0..MaxWindows]
      /\ window \in [Ips -> 0..Limit]
  BY IntakeAssumption DEF IntakeInv, TypeOK
<1>3. \A b \in Attempts : counted[b] <= epoch /\ counted[b] \in Nat
  BY <1>2 DEF IntakeInv, CallsCounted
<1>4. TypeOK'
  BY <1>1, <1>2 DEF IntakeInv, TypeOK
<1>5. AttemptsInOrder' /\ StatementsAdmitted'
  BY <1>1 DEF IntakeInv, AttemptsInOrder, StatementsAdmitted, Current
<1>6. CallsCounted'
  BY <1>1, <1>2, <1>3 DEF IntakeInv, CallsCounted
<1>7. ReviewsCommitted' /\ HashesPurgedByLaterReviews'
  BY <1>1, TableKept DEF IntakeInv
<1>8. ASSUME NEW p \in Ips
      PROVE  IsFiniteSet(Counted(p)) /\ Cardinality(Counted(p)) <= Limit * (epoch' - 1) + window'[p]
  <2>1. IsFiniteSet(Counted(p)) /\ Cardinality(Counted(p)) <= Limit * (epoch - 1) + window[p]
    BY DEF IntakeInv, WindowsCounted
  <2>2. Cardinality(Counted(p)) \in Nat
    BY <2>1, FS_CardinalityType
  <2>3. window[p] \in Nat /\ window[p] <= Limit /\ window'[p] = 0
    BY <1>1, <1>2
  <2>4. Limit * (epoch' - 1) = Limit * (epoch - 1) + Limit
    BY <1>1, <1>2
  <2>5. Limit * (epoch - 1) \in Nat
    BY <1>2
  <2> QED  BY <1>2, <2>1, <2>2, <2>3, <2>4, <2>5
<1>9. ASSUME NEW p \in Ips, NEW e \in 1..MaxWindows
      PROVE  /\ IsFiniteSet(CountedIn(p, e))
             /\ Cardinality(CountedIn(p, e)) <= Limit
             /\ e = epoch' => Cardinality(CountedIn(p, e)) <= window'[p]
  <2>1. IsFiniteSet(CountedIn(p, e)) /\ Cardinality(CountedIn(p, e)) <= Limit
    BY DEF IntakeInv, WindowsCounted
  <2>2. ASSUME e = epoch'
        PROVE  Cardinality(CountedIn(p, e)) <= window'[p]
    <3>1. CountedIn(p, e) = {}
      BY <1>1, <1>2, <1>3, <2>2 DEF CountedIn
    <3>2. Cardinality(CountedIn(p, e)) = 0 /\ window'[p] = 0
      BY <1>1, <3>1, FS_EmptySet
    <3> QED  BY <3>2
  <2> QED  BY <2>1, <2>2
<1>10. \A p : Counted(p)' = Counted(p) /\ \A e : CountedIn(p, e)' = CountedIn(p, e)
  BY <1>1 DEF Counted, CountedIn
<1>11. WindowsCounted'
  BY <1>8, <1>9, <1>10 DEF WindowsCounted
<1> QED  BY <1>4, <1>5, <1>6, <1>7, <1>11 DEF IntakeInv

LEMMA AroundIntakeInv ==
  ASSUME IntakeInv, DeleteRoast \/ NextDay \/ UNCHANGED vars
  PROVE  IntakeInv'
<1>1. UNCHANGED <<form, message, tries, stage, statement, call, window, epoch, counted>>
  BY DEF DeleteRoast, NextDay, limiter, vars
<1>2. WindowsCounted'
  BY <1>1, WindowsKept DEF IntakeInv
<1>3. AttemptsInOrder' /\ StatementsAdmitted' /\ CallsCounted'
  BY <1>1 DEF IntakeInv, AttemptsInOrder, StatementsAdmitted, CallsCounted, Current
<1>4. day \in 0..MaxDay /\ MaxDay \in Nat /\ reviews \subseteq Review
  BY IntakeAssumption DEF IntakeInv, TypeOK
<1>5. \A r \in reviews : r.day \in Nat
  BY <1>4 DEF Review
<1>6. /\ day' \in 0..MaxDay /\ day' >= day
      /\ reviews' \subseteq reviews /\ live' \in BOOLEAN
      /\ live' => live /\ reviews' = reviews
  <2>1. CASE DeleteRoast
    <3>1. day' \in 0..MaxDay /\ day' >= day
      BY <1>4, <2>1 DEF DeleteRoast
    <3>2. reviews' = {} /\ live' = FALSE
      BY <2>1 DEF DeleteRoast
    <3> QED  BY <3>1, <3>2
  <2>2. CASE NextDay
    <3>1. day' \in 0..MaxDay /\ day' >= day
      BY <1>4, <2>2 DEF NextDay
    <3>2. reviews' = reviews /\ live' = live /\ live \in BOOLEAN
      BY <2>2 DEF NextDay, IntakeInv, TypeOK
    <3> QED  BY <3>1, <3>2
  <2>3. CASE UNCHANGED vars
    <3>1. day' \in 0..MaxDay /\ day' >= day
      BY <1>4, <2>3 DEF vars
    <3>2. reviews' = reviews /\ live' = live /\ live \in BOOLEAN
      BY <2>3 DEF vars, IntakeInv, TypeOK
    <3> QED  BY <3>1, <3>2
  <2> QED  BY <2>1, <2>2, <2>3
<1>7. TypeOK'
  BY <1>1, <1>4, <1>6 DEF IntakeInv, TypeOK
<1>8. ReviewsCommitted' /\ HashesPurgedByLaterReviews'
  BY <1>1, <1>4, <1>5, <1>6 DEF IntakeInv, ReviewsCommitted, HashesPurgedByLaterReviews
<1> QED  BY <1>2, <1>3, <1>7, <1>8 DEF IntakeInv

LEMMA NextIntakeInv == IntakeInv /\ [Next]_vars => IntakeInv'
<1> SUFFICES ASSUME IntakeInv, [Next]_vars
             PROVE  IntakeInv'
  OBVIOUS
<1> QED  BY FormIntakeInv, HandlerIntakeInv, MeterIntakeInv, CommitIntakeInv, RaiseIntakeInv,
     SlideIntakeInv, AroundIntakeInv DEF Next

-----------------------------------------------------------------------------
(* What follows for every behavior of the intake.                          *)

\* The invariant holds always: a handler's stage, its statement, its call of the
\* limiter, the limiter's count and the stored reviews agree (route.ts, ratelimit.ts,
\* submit_review).
THEOREM IntakeInvariance == Spec => []IntakeInv
BY InitIntakeInv, NextIntakeInv, PTL DEF Spec

\* Every variable keeps its type, for any visitors, addresses and limits.
THEOREM IntakeTypeCorrect == Spec => []TypeOK
<1>1. IntakeInv => TypeOK
  BY DEF IntakeInv
<1> QED  BY <1>1, IntakeInvariance, PTL

\* Whatever timeouts, lost answers, retries and deletions come between, the
\* form thanks a visitor only for a review that is stored, for a filled
\* honeypot, or for a review of a roast that was deleted since.
THEOREM ThanksAreHonest == Spec => []ThanksMeansStored
<1>1. IntakeInv => ThanksMeansStored
  <2> SUFFICES ASSUME IntakeInv, NEW v \in Visitors, form[v] = "submitted",
                      stage[Current(v)] # "decoy", live
               PROVE  \E r \in reviews : r.attempt = Current(v)
    BY DEF ThanksMeansStored
  <2>1. Current(v) \in Attempts
    BY DEF IntakeInv, AttemptsInOrder, Attempts, Current
  <2>2. stage[Current(v)] = "ok"
    BY DEF IntakeInv, AttemptsInOrder, Accepted
  <2> QED  BY <2>1, <2>2 DEF IntakeInv, StatementsAdmitted, ReviewsCommitted
<1> QED  BY <1>1, IntakeInvariance, PTL

\* A refused submission never reaches the database, a statement is sent only of
\* a submission the limiter counted, at most the limit in a window of an address,
\* and no address ever has sent more of them than its windows so far allow, for
\* any number of visitors behind it, any failures of the limiter and any time its
\* answers take.
THEOREM GateAlwaysHolds == Spec => []GateHolds
<1>1. IntakeInv => RefusedNeverStored
  <2> SUFFICES ASSUME IntakeInv, NEW a \in Attempts,
                      stage[a] \in {"limited", "forbidden", "decoy"}
               PROVE  statement[a] = "none" /\ \A r \in reviews : r.attempt # a
    BY DEF RefusedNeverStored
  <2>1. statement[a] = "none"
    BY DEF IntakeInv, StatementsAdmitted, Unadmitted
  <2> QED  BY <2>1 DEF IntakeInv, ReviewsCommitted
<1>2. IntakeInv => AdmittedWithinLimit
  <2> SUFFICES ASSUME IntakeInv, NEW p \in Ips
               PROVE  Cardinality(Statements(p)) <= Limit * epoch
    BY DEF IntakeInv, StatementsAdmitted, WindowsCounted, AdmittedWithinLimit
  <2>1. /\ IsFiniteSet(Counted(p))
        /\ Cardinality(Counted(p)) <= Limit * (epoch - 1) + window[p]
    BY DEF IntakeInv, WindowsCounted
  <2>2. Statements(p) \subseteq Counted(p)
    BY DEF IntakeInv, StatementsAdmitted, Statements, Counted
  <2>3. /\ Cardinality(Statements(p)) <= Cardinality(Counted(p))
        /\ Cardinality(Statements(p)) \in Nat /\ Cardinality(Counted(p)) \in Nat
    BY <2>1, <2>2, FS_Subset, FS_CardinalityType
  <2>4. window[p] \in Nat /\ window[p] <= Limit /\ Limit \in Nat /\ epoch \in Nat /\ epoch >= 1
    BY IntakeAssumption DEF IntakeInv, TypeOK
  <2>5. Limit * epoch = Limit * (epoch - 1) + Limit /\ Limit * (epoch - 1) \in Nat
    BY <2>4
  <2> QED  BY <2>1, <2>3, <2>4, <2>5
<1>3. IntakeInv => GateHolds
  BY <1>1, <1>2 DEF GateHolds
<1> QED  BY <1>3, IntakeInvariance, PTL

\* A hash is never kept beside a review younger by the retention time.
THEOREM ReviewsPurgeHashes == Spec => []HashesPurgedByLaterReviews
<1>1. IntakeInv => HashesPurgedByLaterReviews
  BY DEF IntakeInv
<1> QED  BY <1>1, IntakeInvariance, PTL

================================================================================
