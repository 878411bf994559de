------------------------------- MODULE RoastPages -------------------------------
(***************************************************************************)
(* The public page of one slug.  A page is rendered on demand from cached  *)
(* queries and is itself cached: two layers that expire after five minutes *)
(* each, one above the other.  What is old is still handed out while its   *)
(* replacement is being made.  A review throws the page and what it was    *)
(* made from away; a publication or a deletion of the roast does not.      *)
(*                                                                         *)
(* The caches are Next's; how they behave is taken from how the code uses  *)
(* them: unstable_cache with revalidate 300 and no tags, a page with       *)
(* revalidate 300, and revalidatePath.                                     *)
(***************************************************************************)
EXTENDS Naturals

CONSTANTS
  TTL,        \* 300 seconds in the code: what revalidate says
  Queries,    \* bound: which of the three cached queries are followed
  MaxReviews  \* bound: reviews that are committed

ASSUME PagesAssumption ==
  /\ TTL \in Nat \ {0}
  /\ {"roast"} \subseteq Queries /\ Queries \subseteq {"roast", "reviews", "rating"}
  /\ MaxReviews \in Nat

VARIABLES
  roast,    \* absent, live or gone in the database
  reviews,  \* how many reviews it has
  handlers, \* how many route handlers have still to revalidate for a review
  entry,    \* of each query: its cached result with its age
  fill,     \* of each query: its statement on the way to the cache
  page,     \* the cached page with its age
  render    \* what the rendering in progress has read

vars == <<roast, reviews, handlers, entry, fill, page, render>>

\* What a rendering reads: the roast twice, for the metadata and for the page.
Reads == Queries \cup (IF "rating" \in Queries THEN {"titled"} ELSE {})

QueryOf(x) == IF x = "titled" THEN "roast" ELSE x

None == [kind |-> "none"]
Asked == [kind |-> "asked"]
Answered(v) == [kind |-> "answered", value |-> v]
Cached(v) == [kind |-> "cached", value |-> v, age |-> 0]
Unread == [kind |-> "unread"]
Have(v) == [kind |-> "have", value |-> v]

NotFound == [found |-> FALSE]

\* What the database answers: whether there is such a roast, or how many
\* reviews its list, or its rating, is made of.
Result(q) ==
  IF q = "roast" THEN [found |-> roast = "live"]
                 ELSE [count |-> IF roast = "live" THEN reviews ELSE 0]

\* A page as it would be if it were rendered from the database.
Current ==
  IF roast = "live"
    THEN [found |-> TRUE,
          titled |-> "titled" \in Reads,
          counts |-> [q \in Queries \ {"roast"} |-> reviews]]
    ELSE NotFound

Expired(cached) == cached.age >= TTL

Fresh(cached) == cached # None /\ ~Expired(cached)

Init ==
  /\ roast \in {"absent", "live"}
  /\ reviews = 0
  /\ handlers = 0
  /\ entry = [q \in Queries |-> None]
  /\ fill = [q \in Queries |-> None]
  /\ page = None
  /\ render = None

-----------------------------------------------------------------------------
(* The database.                                                           *)

Publish ==
  /\ roast = "absent"
  /\ roast' = "live"
  /\ UNCHANGED <<reviews, handlers, entry, fill, page, render>>

Delete ==
  /\ roast = "live"
  /\ roast' = "gone"
  /\ reviews' = 0
  /\ UNCHANGED <<handlers, entry, fill, page, render>>

\* A review is committed; its handler is about to revalidate, or died, or gave
\* up on the statement before.
Review ==
  /\ roast = "live"
  /\ reviews < MaxReviews
  /\ reviews' = reviews + 1
  /\ handlers' \in {handlers, handlers + 1}
  /\ UNCHANGED <<roast, entry, fill, page, render>>

\* revalidatePath throws the page and the query results away, and leaves what
\* is being read or rendered alone.
Revalidate ==
  /\ handlers > 0
  /\ handlers' = handlers - 1
  /\ page' = None
  /\ entry' = [q \in Queries |-> None]
  /\ UNCHANGED <<roast, reviews, fill, render>>

-----------------------------------------------------------------------------
(* The cached queries.                                                     *)

\* The statement reads the committed tables.
Execute(q) ==
  /\ fill[q] = Asked
  /\ fill' = [fill EXCEPT ![q] = Answered(Result(q))]
  /\ UNCHANGED <<roast, reviews, handlers, entry, page, render>>

\* Its result is cached, as of now, however long it was on the way.
Store(q) ==
  /\ fill[q].kind = "answered"
  /\ entry' = [entry EXCEPT ![q] = Cached(fill[q].value)]
  /\ fill' = [fill EXCEPT ![q] = None]
  /\ UNCHANGED <<roast, reviews, handlers, page, render>>

\* The statement fails, or its result is lost: nothing is cached, and a rendering
\* that has nothing older to go by fails with it.
QueryFails(q) ==
  /\ fill[q] = Asked
  /\ fill' = [fill EXCEPT ![q] = None]
  /\ render' = IF entry[q] = None THEN None ELSE render
  /\ UNCHANGED <<roast, reviews, handlers, entry, page>>

-----------------------------------------------------------------------------
(* Rendering.                                                              *)

\* What x waits for: reviews and rating are read only of a roast that is there.
Due(x) ==
  /\ render # None
  /\ render[x] = Unread
  /\ x = "reviews" => render["roast"] = Have([found |-> TRUE])
  /\ x = "rating" => render["titled"] = Have([found |-> TRUE])

\* Fault: an old result is used and nobody replaces it.
UseWithoutRefresh(x) ==
  /\ Due(x)
  /\ entry[QueryOf(x)] # None
  /\ render' = [render EXCEPT ![x] = Have(entry[QueryOf(x)].value)]
  /\ UNCHANGED <<roast, reviews, handlers, entry, fill, page>>

\* A cached result is used; if it is old, its replacement is asked for.
Use(x) ==
  /\ Due(x)
  /\ entry[QueryOf(x)] # None
  /\ render' = [render EXCEPT ![x] = Have(entry[QueryOf(x)].value)]
  /\ fill' = IF Expired(entry[QueryOf(x)]) /\ fill[QueryOf(x)] = None
               THEN [fill EXCEPT ![QueryOf(x)] = Asked] ELSE fill
  /\ UNCHANGED <<roast, reviews, handlers, entry, page>>

\* Nothing is cached: the query is asked, and the rendering waits.
Ask(x) ==
  /\ Due(x)
  /\ entry[QueryOf(x)] = None
  /\ fill[QueryOf(x)] = None
  /\ fill' = [fill EXCEPT ![QueryOf(x)] = Asked]
  /\ UNCHANGED <<roast, reviews, handlers, entry, page, render>>

\* generateMetadata and Page are done.
Rendered ==
  /\ render # None
  /\ \A x \in Reads \cap {"roast", "titled"} : render[x] # Unread
  /\ \A x \in Reads : ~Due(x)

Content ==
  IF ~render["roast"].value.found
    THEN NotFound
    ELSE [found |-> TRUE,
          titled |-> "titled" \in Reads /\ render["titled"].value.found,
          counts |-> [q \in Queries \ {"roast"} |->
                        IF render[q] = Unread THEN 0 ELSE render[q].value.count]]

Finish ==
  /\ Rendered
  /\ page' = Cached(Content)
  /\ render' = None
  /\ UNCHANGED <<roast, reviews, handlers, entry, fill>>

-----------------------------------------------------------------------------
(* Visitors and time.                                                      *)

StartRender ==
  IF ~Fresh(page) /\ render = None
    THEN render' = [x \in Reads |-> Unread]
    ELSE UNCHANGED render

\* A visitor gets `page` as it is, old or not, and waits if there is none.
Visit ==
  /\ StartRender
  /\ UNCHANGED <<roast, reviews, handlers, entry, fill, page>>

\* Fault: an age is counted on after the entry expired.
OlderUnbounded(cached) ==
  IF cached = None THEN cached ELSE [cached EXCEPT !.age = @ + 1]

Older(cached) ==
  IF cached = None \/ Expired(cached) THEN cached ELSE [cached EXCEPT !.age = @ + 1]

Tick ==
  /\ page' = Older(page)
  /\ entry' = [q \in Queries |-> Older(entry[q])]
  /\ UNCHANGED <<roast, reviews, handlers, fill, render>>

RenderStep ==
  \/ \E x \in Reads : Use(x)
  \/ \E x \in Reads : Ask(x)
  \/ Finish

Next ==
  \/ Publish
  \/ Delete
  \/ Review
  \/ Revalidate
  \/ \E q \in Queries : Execute(q)
  \/ \E q \in Queries : Store(q)
  \/ \E q \in Queries : QueryFails(q)
  \/ RenderStep
  \/ Visit
  \/ Tick

\* Time passes, visitors keep coming, a rendering goes on, and a statement
\* that is asked again and again succeeds in the end.
Fairness ==
  /\ WF_vars(Visit) /\ WF_vars(Tick) /\ WF_vars(RenderStep)
  /\ \A q \in Queries : SF_vars(Execute(q)) /\ WF_vars(Store(q))

Spec == Init /\ [][Next]_vars /\ Fairness

-----------------------------------------------------------------------------
(* Properties.                                                             *)

Results == [found : BOOLEAN] \cup [count : 0..MaxReviews]
Contents == {NotFound} \cup [found : {TRUE}, titled : BOOLEAN,
                             counts : [Queries \ {"roast"} -> 0..MaxReviews]]
Aged(S) == {None} \cup [kind : {"cached"}, value : S, age : 0..TTL]

TypeOK ==
  /\ roast \in {"absent", "live", "gone"}
  /\ reviews \in 0..MaxReviews
  /\ handlers \in 0..MaxReviews
  /\ entry \in [Queries -> Aged(Results)]
  /\ fill \in [Queries -> {None, Asked} \cup [kind : {"answered"}, value : Results]]
  /\ page \in Aged(Contents)
  /\ render \in {None} \cup
       [Reads -> {Unread} \cup [kind : {"have"}, value : Results]]

\* Whatever was published, reviewed or deleted meanwhile, and in whatever order
\* old results reached the caches: who keeps visiting sees the roast as it is
\* in the end.
VisitorsSeeCurrent == <>[](page # None /\ page.value = Current)

================================================================================
