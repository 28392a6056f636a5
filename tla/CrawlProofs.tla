------------------------------ MODULE CrawlProofs ------------------------------
(* Theorems about LinkCrawl, for every web of sites, every DNS answer in it,   *)
(* every limit of the command line and every moment at which the clock runs    *)
(* out: no request leaves by the guard's side, the budgets hold, and exit code *)
(* 0 is only for a crawl without a gap.                                        *)
EXTENDS LinkCrawl, TLAPS, FiniteSetTheorems

------------------------------------------------------------------------------
(* One guarded fetch.                                                        *)

\* The fetch, as it stands between two steps: a hop is opened only when it was
\* vetted, the url asked for was vetted before anything was answered "ok", and
\* what was read fits the cap.
FetchInv ==
  /\ DOMAIN fetch = DOMAIN NoFetch
  /\ fetch.pc \in {"idle", "vet", "open", "answered"}
  /\ fetch.got \in {"none", "ok", "bad", "refused", "blocked", "err", "budget"}
  /\ fetch.pc \in {"vet", "open"} => fetch.at \in Urls /\ fetch.url \in Urls
  /\ fetch.pc = "answered" => fetch.got = "budget" \/ fetch.at \in Urls
  /\ fetch.pc \in {"vet", "open"} /\ web.at[fetch.url].to = "none" => fetch.at = fetch.url
  /\ fetch.pc = "vet" => fetch.at = fetch.url \/ Vetted(fetch.url)
  /\ fetch.pc = "open" => Vetted(fetch.at) /\ Vetted(fetch.url)
  /\ fetch.pc = "answered" /\ fetch.got = "ok" =>
       /\ Vetted(fetch.url)
       /\ web.at[fetch.url].to = "none" =>
            fetch.at = fetch.url /\ web.at[fetch.url].status = "ok"
  /\ fetch.cap \in Nat /\ fetch.body \in Nat /\ fetch.body <= fetch.cap
  /\ fetch.pc # "answered" => fetch.body = 0
  /\ NothingForbidden

\* check_url admits nothing that must not be contacted.
LEMMA VettedIsSafe == ASSUME NEW u, Vetted(u) PROVE ~Forbidden(u)
BY DEF Vetted, Forbidden, Admitted

\* A fetch that has not begun.
LEMMA NoFetchIs ==
  /\ NoFetch.pc = "idle" /\ NoFetch.got = "none" /\ NoFetch.cap = 0 /\ NoFetch.body = 0
  /\ DOMAIN NoFetch = {"pc", "url", "at", "hops", "cap", "method", "asked", "got",
                       "body", "truncated"}
BY DEF NoFetch

\* How a fetch ends, field by field.
LEMMA EndsIs ==
  ASSUME NEW f, NEW what, DOMAIN f = DOMAIN NoFetch
  PROVE  LET e == Ends(f, what)
         IN /\ DOMAIN e = DOMAIN NoFetch /\ e.pc = "answered" /\ e.got = what
            /\ e.url = f.url /\ e.at = f.at /\ e.cap = f.cap /\ e.body = f.body
BY NoFetchIs DEF Ends

\* Both steps of the guard keep it.
LEMMA VetKeeps ==
  ASSUME FetchInv, Vet
  PROVE  FetchInv' /\ web' = web /\ fetch'.cap = fetch.cap /\ fetch'.url = fetch.url
         /\ fetch'.pc # "idle"
<1>1. UNCHANGED <<web, opened>> /\ fetch.pc = "vet"
  BY DEF Vet
<1>2. \A u : (Vetted(u))' = Vetted(u)
  BY <1>1 DEF Vetted, Admitted
<1>3. Urls' = Urls /\ NothingForbidden'
  BY <1>1 DEF Urls, NothingForbidden, Forbidden, FetchInv
<1>4. CASE Vetted(fetch.at)
  <2>1. fetch' = [fetch EXCEPT !.pc = "open"]
    BY <1>4 DEF Vet
  <2>2. /\ DOMAIN fetch' = DOMAIN NoFetch /\ fetch'.pc = "open" /\ fetch'.url = fetch.url
        /\ fetch'.got = fetch.got
        /\ fetch'.at = fetch.at /\ fetch'.cap = fetch.cap /\ fetch'.body = fetch.body
    BY <2>1, NoFetchIs DEF FetchInv
  <2> QED BY <1>1, <1>2, <1>3, <1>4, <2>2 DEF FetchInv
<1>5. CASE ~Vetted(fetch.at)
  <2>1. fetch' = Ends(fetch, "blocked")
    BY <1>5 DEF Vet
  <2>2. /\ DOMAIN fetch' = DOMAIN NoFetch /\ fetch'.pc = "answered"
        /\ fetch'.got = "blocked" /\ fetch'.url = fetch.url
        /\ fetch'.at = fetch.at /\ fetch'.cap = fetch.cap /\ fetch'.body = fetch.body
    BY <2>1, EndsIs DEF FetchInv
  <2> QED BY <1>1, <1>2, <1>3, <2>2 DEF FetchInv
<1> QED BY <1>4, <1>5

\* Opening a validated address keeps what is known of the fetch.
LEMMA OpenKeeps ==
  ASSUME web \in Webs, FetchInv, Open
  PROVE  FetchInv' /\ web' = web /\ fetch'.cap = fetch.cap /\ fetch'.url = fetch.url
         /\ fetch'.pc # "idle"
<1> DEFINE s == web.at[fetch.at]
<1>1. /\ web' = web /\ fetch.pc = "open" /\ opened' = opened \cup {fetch.at}
      /\ fetch' \in {Ends(fetch, "err"), IF Redirects(s) THEN Hop(s) ELSE Answer(s)}
  BY DEF Open
<1>2. \A u : (Vetted(u))' = Vetted(u)
  BY <1>1 DEF Vetted, Admitted
<1>3. \A u : (Forbidden(u))' = Forbidden(u)
  BY <1>1 DEF Forbidden
<1>4. Urls' = Urls /\ NothingForbidden'
  <2>1. ~Forbidden(fetch.at)
    BY <1>1, VettedIsSafe DEF FetchInv
  <2> QED BY <1>1, <1>3, <2>1 DEF Urls, NothingForbidden, FetchInv
<1>5. /\ s.status \in {"ok", "bad", "refused"}
      /\ s.size \in Nat /\ s.to \in Urls \cup {"none"} /\ fetch.at \in Urls
      /\ fetch.url \in Urls /\ fetch.body = 0 /\ fetch.cap \in Nat
      /\ Vetted(fetch.url)
  BY <1>1, GuardAssumption DEF Urls, FetchInv
<1>6. ASSUME DOMAIN fetch' = DOMAIN NoFetch, fetch'.pc = "answered",
             fetch'.url = fetch.url, fetch'.at = fetch.at, fetch'.cap = fetch.cap,
             fetch'.body \in Nat, fetch'.body <= fetch.cap,
             fetch'.got \in {s.status, "refused", "blocked", "err"},
             fetch'.got = "ok" => s.status = "ok"
      PROVE  FetchInv' /\ web' = web /\ fetch'.cap = fetch.cap /\ fetch'.url = fetch.url
             /\ fetch'.pc # "idle"
  <2>1. fetch'.got = "ok" /\ web.at[fetch.url].to = "none" =>
          fetch'.at = fetch.url /\ web.at[fetch.url].status = "ok"
    BY <1>1, <1>6 DEF FetchInv
  <2> QED BY <1>1, <1>2, <1>4, <1>5, <1>6, <2>1 DEF FetchInv
<1>0. DOMAIN fetch = DOMAIN NoFetch /\ fetch.body <= fetch.cap
  BY DEF FetchInv
<1>7. CASE fetch' = Ends(fetch, "err")
  <2>1. "err" # "ok"
    OBVIOUS
  <2>2. /\ DOMAIN fetch' = DOMAIN NoFetch /\ fetch'.pc = "answered"
        /\ fetch'.got = "err" /\ fetch'.url = fetch.url /\ fetch'.at = fetch.at
        /\ fetch'.cap = fetch.cap /\ fetch'.body = fetch.body
    BY <1>0, <1>7, EndsIs
  <2> QED BY <1>0, <1>5, <1>6, <2>1, <2>2
<1>8. CASE fetch' = Hop(s) /\ Redirects(s)
  <2>1. CASE Hop(s) = Ends(fetch, "blocked")
    <3>1. /\ DOMAIN fetch' = DOMAIN NoFetch /\ fetch'.pc = "answered"
          /\ fetch'.got = "blocked" /\ fetch'.url = fetch.url /\ fetch'.at = fetch.at
          /\ fetch'.cap = fetch.cap /\ fetch'.body = fetch.body
      BY <1>0, <1>8, <2>1, EndsIs
    <3> QED BY <1>0, <1>5, <1>6, <3>1
  <2>2. CASE Hop(s) # Ends(fetch, "blocked")
    <3>1. fetch' = [fetch EXCEPT !.pc = "vet", !.hops = @ + 1, !.at = s.to,
                                 !.method = IF s.see THEN "GET" ELSE @]
      BY <1>8, <2>2 DEF Hop
    <3>2. /\ DOMAIN fetch' = DOMAIN NoFetch /\ fetch'.pc = "vet" /\ fetch'.at = s.to
          /\ fetch'.got = fetch.got
          /\ fetch'.url = fetch.url /\ fetch'.cap = fetch.cap /\ fetch'.body = fetch.body
      BY <3>1, NoFetchIs DEF FetchInv
    <3>3. s.to \in Urls /\ web.at[fetch.url].to # "none"
      BY <1>1, <1>5, <1>8 DEF Redirects, FetchInv
    <3> QED BY <1>1, <1>2, <1>4, <1>5, <3>2, <3>3 DEF FetchInv
  <2> QED BY <2>1, <2>2
<1>9. CASE fetch' = Answer(s) /\ ~Redirects(s)
  <2>1. CASE fetch.method = "HEAD"
    <3>1. fetch' = Ends(fetch, IF s.noHead THEN "refused" ELSE s.status)
      BY <1>9, <2>1 DEF Answer
    <3>2. fetch'.got \in {s.status, "refused"} /\ (fetch'.got = "ok" => s.status = "ok")
      BY <3>1, EndsIs DEF FetchInv
    <3>3. /\ DOMAIN fetch' = DOMAIN NoFetch /\ fetch'.pc = "answered"
          /\ fetch'.url = fetch.url /\ fetch'.at = fetch.at
          /\ fetch'.cap = fetch.cap /\ fetch'.body = fetch.body
      BY <3>1, EndsIs DEF FetchInv
    <3> QED BY <1>0, <1>5, <1>6, <3>2, <3>3
  <2>2. CASE fetch.method # "HEAD"
    <3> DEFINE e == Ends(fetch, s.status)
    <3>1. fetch' = [e EXCEPT !.body = Least(s.size, fetch.cap),
                             !.truncated = s.size > fetch.cap]
      BY <1>9, <2>2 DEF Answer
    <3>2. /\ DOMAIN e = DOMAIN NoFetch /\ e.pc = "answered" /\ e.got = s.status
          /\ e.url = fetch.url /\ e.at = fetch.at /\ e.cap = fetch.cap
      BY EndsIs DEF FetchInv
    <3> HIDE DEF e
    <3>3. /\ DOMAIN fetch' = DOMAIN NoFetch /\ fetch'.pc = "answered"
          /\ fetch'.url = fetch.url /\ fetch'.at = fetch.at /\ fetch'.cap = fetch.cap
          /\ fetch'.got = s.status /\ fetch'.body = Least(s.size, fetch.cap)
      BY <3>1, <3>2, NoFetchIs
    <3>4. fetch'.body \in Nat /\ fetch'.body <= fetch.cap
      BY <1>5, <3>3 DEF Least
    <3> QED BY <1>6, <3>3, <3>4
  <2> QED BY <2>1, <2>2
<1> QED BY <1>1, <1>7, <1>8, <1>9

------------------------------------------------------------------------------
(* The crawl's own state.                                                    *)

\* A fetch that a budget did not let begin.
Refusal == fetch.pc = "answered" /\ fetch.got = "budget"

\* Where the crawler is and what it is waiting for.
LoopInv ==
  /\ pc \in {"start", "crawl", "page", "links", "link", "sum", "ended"}
  /\ pc = "page" => page \in Urls
  /\ pc = "link" => link \in discovered
  /\ pc \in {"page", "link"} <=> fetch.pc # "idle"
  /\ pc = "page" /\ ~Refusal => fetch.url = page
  /\ pc = "link" /\ ~Refusal => fetch.url = link
  /\ todo \subseteq Urls /\ discovered \subseteq Urls /\ seen \subseteq Urls
  /\ checked \subseteq discovered /\ broken \subseteq Urls /\ chains \subseteq Urls
  /\ exitCode \in {0, 1, 2, 3, 9} /\ (pc # "ended" => exitCode = 9)

\* A url is queued once, and not when it has been crawled.
QueueInv ==
  /\ queue \in Seq(Urls)
  /\ \A i \in 1..Len(queue) : queue[i] \in discovered /\ queue[i] \notin seen
  /\ \A i, j \in 1..Len(queue) : i # j => queue[i] # queue[j]

\* The budgets, with what the fetch under way may still read.
BudgetInv ==
  /\ requests \in Nat /\ requests <= lim.requests
  /\ bytes \in Nat /\ bytes + fetch.cap <= lim.bytes
  /\ IsFiniteSet(discovered) /\ Cardinality(discovered) <= lim.urls
  /\ IsFiniteSet(seen) /\ Cardinality(seen) <= lim.pages

CrawlInv == /\ web \in Webs /\ lim \in Limits
            /\ FetchInv /\ LoopInv /\ QueueInv /\ BudgetInv

\* The limits are numbers.
LEMMA LimIs ==
  ASSUME NEW l \in Limits
  PROVE  /\ l.pages \in Nat \ {0} /\ l.urls \in Nat \ {0} /\ l.requests \in Nat \ {0}
         /\ l.bytes \in Nat \ {0} /\ l.response \in Nat \ {0} /\ l.hops \in Nat \ {0}
BY CrawlAssumption DEF Limit

\* No fetch is under way.
LEMMA IdleFetch ==
  ASSUME fetch' = NoFetch, web' = web, opened' = opened, NothingForbidden
  PROVE  FetchInv' /\ fetch'.pc = "idle" /\ fetch'.cap = 0
<1>1. NothingForbidden'
  BY DEF NothingForbidden, Forbidden
<1> QED BY <1>1, NoFetchIs DEF FetchInv

\* request begins a fetch of u, within what is left, or refuses it.
LEMMA AttemptIs ==
  ASSUME web \in Webs, lim \in Limits, NEW u \in Urls, NEW m, Attempt(u, m), web' = web,
         requests \in Nat, requests <= lim.requests, bytes \in Nat, bytes <= lim.bytes
  PROVE  /\ FetchInv' /\ fetch'.pc # "idle" /\ bytes + fetch'.cap <= lim.bytes
         /\ \/ fetch'.url = u /\ fetch'.pc = "vet"
            \/ fetch'.got = "budget" /\ fetch'.pc = "answered"
         /\ requests' \in Nat /\ requests' <= lim.requests
         /\ reason => reason'
<1>1. NothingForbidden'
  BY DEF Attempt, NothingForbidden
<1>2. Urls' = Urls
  BY DEF Urls
<1>3. lim.response \in Nat /\ lim.bytes \in Nat /\ lim.requests \in Nat
  BY LimIs
<1>4. CASE Exhausted
  <2>1. fetch' = Ends(NoFetch, "budget") /\ requests' = requests /\ reason'
    BY <1>4 DEF Attempt
  <2>2. /\ DOMAIN fetch' = DOMAIN NoFetch /\ fetch'.pc = "answered"
        /\ fetch'.got = "budget" /\ fetch'.cap = 0 /\ fetch'.body = 0
    BY <2>1, EndsIs, NoFetchIs
  <2> QED BY <1>1, <1>3, <2>1, <2>2 DEF FetchInv
<1>5. CASE ~Exhausted
  <2> DEFINE cap == Least(lim.response, lim.bytes - bytes)
  <2>1. fetch' = Begun(u, m, cap) /\ requests' = requests + 1 /\ (reason => reason')
    BY <1>5 DEF Attempt
  <2>2. requests < lim.requests /\ bytes < lim.bytes
    BY <1>3, <1>5 DEF Exhausted
  <2>3. cap \in Nat /\ bytes + cap <= lim.bytes
    BY <1>3, <2>2 DEF Least
  <2> HIDE DEF cap
  <2>4. /\ DOMAIN fetch' = DOMAIN NoFetch /\ fetch'.pc = "vet" /\ fetch'.cap = cap
        /\ fetch'.got = "none"
        /\ fetch'.url = u /\ fetch'.at = u /\ fetch'.body = 0
    BY <2>1, NoFetchIs DEF Begun
  <2>5. FetchInv'
    BY <1>1, <1>2, <2>3, <2>4 DEF FetchInv
  <2> QED BY <1>3, <2>1, <2>2, <2>3, <2>4, <2>5
<1> QED BY <1>4, <1>5

\* A page that is found goes to the queue once.
LEMMA EnqueueKeeps ==
  ASSUME QueueInv, NEW l \in Urls, l \in discovered', discovered \subseteq discovered',
         Enqueue(l, seen), UNCHANGED <<web, seen>>
  PROVE  /\ QueueInv'
         /\ \A x : (\E i \in 1..Len(queue) : queue[i] = x) =>
                   \E i \in 1..Len(queue') : queue'[i] = x
         /\ l \in web.at[base].links /\ web.at[l].host = Host /\ l \notin seen =>
              \E i \in 1..Len(queue') : queue'[i] = l
<1>1. Urls' = Urls /\ queue \in Seq(Urls) /\ DOMAIN queue = 1..Len(queue)
  BY DEF Urls, QueueInv
<1>2. CASE /\ l \in web.at[base].links /\ web.at[l].host = Host
           /\ l \notin seen /\ ~\E i \in DOMAIN queue : queue[i] = l
  <2>1. queue' = Append(queue, l)
    BY <1>2 DEF Enqueue
  <2>2. /\ queue' \in Seq(Urls) /\ Len(queue') = Len(queue) + 1
        /\ \A i \in 1..Len(queue) : queue'[i] = queue[i]
        /\ queue'[Len(queue) + 1] = l /\ Len(queue) \in Nat
    BY <1>1, <2>1
  <2>3. \A i \in 1..Len(queue') : i \in 1..Len(queue) \/ i = Len(queue) + 1
    BY <2>2
  <2>4. \A i \in 1..Len(queue') : queue'[i] \in discovered' /\ queue'[i] \notin seen'
    BY <1>2, <2>2, <2>3 DEF QueueInv
  <2>5. \A i, j \in 1..Len(queue') : i # j => queue'[i] # queue'[j]
    BY <1>1, <1>2, <2>2, <2>3 DEF QueueInv
  <2>6. QueueInv'
    BY <1>1, <2>2, <2>4, <2>5 DEF QueueInv
  <2> QED BY <2>2, <2>3, <2>6
<1>3. CASE ~(/\ l \in web.at[base].links /\ web.at[l].host = Host
             /\ l \notin seen /\ ~\E i \in DOMAIN queue : queue[i] = l)
  <2>1. queue' = queue
    BY <1>3 DEF Enqueue
  <2> QED BY <1>1, <1>3, <2>1 DEF QueueInv
<1> QED BY <1>2, <1>3

\* The crawl begins with the start page in its queue.
LEMMA CrawlInvInit == Init => CrawlInv
<1> SUFFICES ASSUME Init PROVE CrawlInv
  OBVIOUS
<1>1. /\ web \in Webs /\ lim \in Limits /\ fetch = NoFetch /\ opened = {}
      /\ queue = <<Start>> /\ discovered = {Start} /\ seen = {} /\ checked = {}
      /\ broken = {} /\ chains = {} /\ todo = {} /\ requests = 0 /\ bytes = 0
      /\ exitCode = 9 /\ pc = "start"
  BY DEF Init, GuardInit
<1>2. Start \in Urls
  BY <1>1, CrawlAssumption DEF Start, Urls
<1>3. FetchInv
  BY <1>1, NoFetchIs DEF FetchInv, NothingForbidden
<1>4. LoopInv
  BY <1>1, <1>2, NoFetchIs DEF LoopInv
<1>5. QueueInv
  BY <1>1, <1>2 DEF QueueInv
<1>6. BudgetInv
  <2>1. IsFiniteSet({}) /\ Cardinality({}) = 0
    BY FS_EmptySet
  <2>2. IsFiniteSet({Start}) /\ Cardinality({Start}) = 1
    BY FS_Singleton
  <2> QED BY <1>1, <2>1, <2>2, LimIs, NoFetchIs DEF BudgetInv
<1> QED BY <1>1, <1>3, <1>4, <1>5, <1>6 DEF CrawlInv

\* The guard's two steps within the crawl.
LEMMA FetchingKeeps ==
  ASSUME CrawlInv, Fetching
  PROVE  CrawlInv' /\ fetch.pc # "idle" /\ fetch.pc # "answered" /\ fetch'.url = fetch.url
<1>1. UNCHANGED <<lim, pc, crawled, found, loop, budget, exitCode>>
  BY DEF Fetching
<1>2. fetch.pc \in {"vet", "open"} /\ (Vet \/ Open)
  BY DEF Fetching, Vet, Open
<1>3. FetchInv' /\ web' = web /\ fetch'.cap = fetch.cap /\ fetch'.url = fetch.url
      /\ fetch'.pc # "idle"
  BY <1>2, VetKeeps, OpenKeeps DEF CrawlInv
<1>4. LoopInv'
  BY <1>1, <1>2, <1>3 DEF CrawlInv, LoopInv, Refusal, Urls, crawled, found, loop
<1> QED BY <1>1, <1>2, <1>3, <1>4 DEF CrawlInv, QueueInv, BudgetInv, Urls, crawled, budget

\* Steps that neither fetch nor find anything.
LEMMA QuietSteps ==
  ASSUME CrawlInv, Late \/ Begin \/ StopsCrawl \/ NoMoreLinks \/ SumUp \/ UNCHANGED vars
  PROVE  CrawlInv'
<1>1. UNCHANGED <<guardVars, lim, crawled, found, loop, requests, bytes>>
  BY DEF Late, Begin, StopsCrawl, NoMoreLinks, SumUp, vars, budget
<1>2. FetchInv'
  BY <1>1 DEF CrawlInv, FetchInv, guardVars, Vetted, Admitted, Urls, NothingForbidden,
     Forbidden
<1>3. QueueInv' /\ BudgetInv'
  BY <1>1 DEF CrawlInv, QueueInv, BudgetInv, guardVars, crawled, Urls
<1>4. LoopInv'
  <2>1. /\ pc' \in {"start", "crawl", "page", "links", "link", "sum", "ended"}
        /\ exitCode' \in {0, 1, 2, 3, 9} /\ (pc' # "ended" => exitCode' = 9)
        /\ pc' = pc \/ (pc' \notin {"page", "link"} /\ pc \notin {"page", "link"})
    <3>1. CASE Late \/ UNCHANGED vars
      BY <3>1 DEF Late, vars, CrawlInv, LoopInv
    <3>2. CASE Begin \/ StopsCrawl \/ NoMoreLinks \/ SumUp
      BY <3>2 DEF Begin, StopsCrawl, NoMoreLinks, SumUp, CrawlInv, LoopInv
    <3> QED BY <3>1, <3>2
  <2> QED BY <1>1, <2>1 DEF CrawlInv, LoopInv, Refusal, guardVars, crawled, found, loop, Urls
<1> QED BY <1>1, <1>2, <1>3, <1>4 DEF CrawlInv, guardVars

\* The page loop takes one url off the queue.
LEMMA NextPageKeeps == ASSUME CrawlInv, NextPage PROVE CrawlInv'
<1> DEFINE u == Head(queue)
<1>1. /\ pc = "crawl" /\ queue # <<>> /\ Cardinality(seen) < lim.pages
      /\ queue' = Tail(queue)
      /\ UNCHANGED <<web, lim, discovered, checked, found, base, todo, link, bytes, late,
                     exitCode>>
  BY DEF NextPage, MorePages
<1>2. /\ queue \in Seq(Urls) /\ Len(queue) \in Nat /\ Len(queue) > 0
      /\ u = queue[1] /\ u \in Urls /\ u \notin seen /\ u \in discovered
      /\ queue' \in Seq(Urls) /\ Len(queue') = Len(queue) - 1
      /\ \A i \in 1..Len(queue') : queue'[i] = queue[i + 1] /\ i + 1 \in 1..Len(queue)
  BY <1>1 DEF CrawlInv, QueueInv
<1>3. /\ seen' = seen \cup {u} /\ page' = u /\ pc' = "page" /\ Attempt(u, "GET")
  BY <1>2 DEF NextPage
<1>4. requests \in Nat /\ requests <= lim.requests /\ bytes \in Nat /\ bytes <= lim.bytes
  BY LimIs DEF CrawlInv, BudgetInv, FetchInv
<1>5. /\ FetchInv' /\ fetch'.pc # "idle" /\ bytes + fetch'.cap <= lim.bytes
      /\ fetch'.url = u \/ Refusal'
      /\ requests' \in Nat /\ requests' <= lim.requests
  BY <1>1, <1>2, <1>3, <1>4, AttemptIs DEF CrawlInv, Refusal
<1>6. IsFiniteSet(seen') /\ Cardinality(seen') <= lim.pages
  <2>1. IsFiniteSet(seen) /\ Cardinality(seen) \in Nat /\ lim.pages \in Nat
    BY FS_CardinalityType, LimIs DEF CrawlInv, BudgetInv
  <2>2. IsFiniteSet(seen \cup {u}) /\ Cardinality(seen \cup {u}) = Cardinality(seen) + 1
    BY <1>2, <2>1, FS_AddElement
  <2> QED BY <1>1, <1>3, <2>1, <2>2
<1>7. BudgetInv'
  BY <1>1, <1>4, <1>5, <1>6 DEF CrawlInv, BudgetInv
<1>8. Urls' = Urls
  BY <1>1 DEF Urls
<1>9. QueueInv'
  <2>1. \A i \in 1..Len(queue') : queue'[i] \in discovered /\ queue'[i] \notin seen
    BY <1>2 DEF CrawlInv, QueueInv
  <2>2. \A i \in 1..Len(queue') : queue'[i] # u
    BY <1>2 DEF CrawlInv, QueueInv
  <2>3. \A i, j \in 1..Len(queue') : i # j => queue'[i] # queue'[j]
    BY <1>2 DEF CrawlInv, QueueInv
  <2> QED BY <1>1, <1>2, <1>3, <1>8, <2>1, <2>2, <2>3 DEF QueueInv
<1>10. LoopInv'
  BY <1>1, <1>2, <1>3, <1>5, <1>8 DEF CrawlInv, LoopInv, found
<1> QED BY <1>1, <1>5, <1>7, <1>9, <1>10 DEF CrawlInv

\* A refused HEAD is asked again, as a GET within what is left.
LEMMA AskAgainKeeps == ASSUME CrawlInv, AskAgain PROVE CrawlInv'
<1>1. /\ pc = "link" /\ Attempt(link, "GET")
      /\ UNCHANGED <<web, lim, pc, crawled, found, loop, bytes, late, exitCode>>
  BY DEF AskAgain
<1>2. link \in Urls
  BY <1>1 DEF CrawlInv, LoopInv
<1>3. requests \in Nat /\ requests <= lim.requests /\ bytes \in Nat /\ bytes <= lim.bytes
  BY LimIs DEF CrawlInv, BudgetInv, FetchInv
<1>4. /\ FetchInv' /\ fetch'.pc # "idle" /\ bytes + fetch'.cap <= lim.bytes
      /\ fetch'.url = link \/ Refusal'
      /\ requests' \in Nat /\ requests' <= lim.requests
  BY <1>1, <1>2, <1>3, AttemptIs DEF CrawlInv, Refusal
<1>5. LoopInv'
  BY <1>1, <1>4 DEF CrawlInv, LoopInv, Urls, crawled, found, loop
<1> QED BY <1>1, <1>4, <1>5 DEF CrawlInv, QueueInv, BudgetInv, Urls, crawled

\* An answer is accounted for within the bytes that were set aside for it.
LEMMA AccountKeeps ==
  ASSUME CrawlInv, Account
  PROVE  /\ FetchInv' /\ fetch'.pc = "idle" /\ fetch'.cap = 0
         /\ bytes' \in Nat /\ bytes' + fetch'.cap <= lim.bytes
<1>1. /\ bytes' = bytes + fetch.body /\ fetch' = NoFetch
      /\ web' = web /\ opened' = opened
  BY DEF Account
<1>2. FetchInv' /\ fetch'.pc = "idle" /\ fetch'.cap = 0
  BY <1>1, IdleFetch DEF CrawlInv, FetchInv
<1>3. /\ bytes \in Nat /\ fetch.body \in Nat /\ fetch.cap \in Nat
      /\ fetch.body <= fetch.cap /\ bytes + fetch.cap <= lim.bytes /\ lim.bytes \in Nat
  BY LimIs DEF CrawlInv, FetchInv, BudgetInv
<1> QED BY <1>1, <1>2, <1>3

\* The page's answer.
LEMMA TakePageKeeps == ASSUME CrawlInv, TakePage PROVE CrawlInv'
<1>1. /\ pc = "page" /\ fetch.pc = "answered" /\ Account
      /\ UNCHANGED <<web, opened, requests, late, exitCode, crawled, mixed, page, link>>
  BY DEF TakePage, Answered, Account
<1>2. lim' = lim
  BY DEF TakePage, Account
<1>3. chains' \subseteq chains \cup {page} /\ broken' \subseteq broken \cup {page}
  BY DEF TakePage
<1>4. /\ pc' \in {"links", "sum", "crawl"}
      /\ todo' = todo \/ (Result = "ok" /\ todo' = Site.links \cup Site.assets)
  BY DEF TakePage
<1>5. todo' \subseteq Urls
  <2>1. CASE todo' = todo
    BY <2>1 DEF CrawlInv, LoopInv
  <2>2. CASE Result = "ok" /\ todo' = Site.links \cup Site.assets
    <3>1. fetch.at \in Urls
      BY <1>1, <2>2 DEF CrawlInv, FetchInv, Result
    <3> QED BY <2>2, <3>1, GuardAssumption DEF CrawlInv, Site, Urls
  <2> QED BY <1>4, <2>1, <2>2
<1>6. /\ FetchInv' /\ fetch'.pc = "idle"
      /\ bytes' \in Nat /\ bytes' + fetch'.cap <= lim.bytes
  BY <1>1, AccountKeeps
<1>7. LoopInv'
  BY <1>1, <1>3, <1>4, <1>5, <1>6 DEF CrawlInv, LoopInv, Refusal, Urls, crawled
<1> QED BY <1>1, <1>2, <1>6, <1>7 DEF CrawlInv, QueueInv, BudgetInv, Urls, crawled

\* The link's answer; a page of the host goes to the queue.
LEMMA TakeLinkKeeps == ASSUME CrawlInv, TakeLink PROVE CrawlInv'
<1>1. /\ pc = "link" /\ fetch.pc = "answered" /\ Account
      /\ UNCHANGED <<web, opened, requests, late, exitCode, discovered, seen, mixed, loop>>
  BY DEF TakeLink, Answered, Account
<1>2. lim' = lim
  BY DEF TakeLink, Account
<1>3. /\ pc' \in {"links", "sum"} /\ checked' \subseteq checked \cup {link}
      /\ broken' \subseteq broken \cup {link} /\ chains' \subseteq chains \cup {link}
      /\ queue' = queue \/ Enqueue(link, seen)
  BY DEF TakeLink
<1>4. link \in discovered /\ link \in Urls
  BY <1>1 DEF CrawlInv, LoopInv
<1>5. QueueInv'
  <2>1. CASE queue' = queue
    BY <1>1, <2>1 DEF CrawlInv, QueueInv, Urls
  <2>2. CASE Enqueue(link, seen)
    BY <1>1, <1>4, <2>2, EnqueueKeeps DEF CrawlInv
  <2> QED BY <1>3, <2>1, <2>2
<1>6. /\ FetchInv' /\ fetch'.pc = "idle"
      /\ bytes' \in Nat /\ bytes' + fetch'.cap <= lim.bytes
  BY <1>1, AccountKeeps
<1>7. LoopInv'
  BY <1>1, <1>3, <1>4, <1>6 DEF CrawlInv, LoopInv, Refusal, Urls, loop
<1> QED BY <1>1, <1>2, <1>5, <1>6, <1>7 DEF CrawlInv, BudgetInv

\* A link that is passed over, or that the limit of discovered urls ends.
LEMMA PassedOverKeeps ==
  ASSUME CrawlInv, NEW l, SkipsScheme(l) \/ TooManyUrls(l) PROVE CrawlInv'
<1>1. /\ pc = "links" /\ l \in todo /\ todo' = todo \ {l}
      /\ UNCHANGED <<web, exitCode, page, base, seen, checked, broken, chains, bytes,
                     fetch, opened, queue, discovered, link, requests>>
      /\ pc' = pc \/ pc' = "sum"
  BY DEF SkipsScheme, TooManyUrls, PassesOver
<1>2. lim' = lim
  BY DEF SkipsScheme, TooManyUrls, PassesOver
<1>3. FetchInv'
  BY <1>1 DEF CrawlInv, FetchInv, Vetted, Admitted, Urls, NothingForbidden, Forbidden
<1>4. LoopInv'
  BY <1>1 DEF CrawlInv, LoopInv, Refusal, Urls
<1> QED BY <1>1, <1>2, <1>3, <1>4 DEF CrawlInv, QueueInv, BudgetInv, Urls

\* A link that is looked at.
LEMMA LooksAtKeeps == ASSUME CrawlInv, NEW l, LooksAt(l) PROVE CrawlInv'
<1>1. /\ pc = "links" /\ l \in todo /\ todo' = todo \ {l}
      /\ UNCHANGED <<web, exitCode, page, base, seen, checked, broken, chains, bytes>>
      /\ l \in discovered \/ Cardinality(discovered) < lim.urls
      /\ discovered' = discovered \cup {l}
  BY DEF LooksAt, PassesOver
<1>2. lim' = lim
  BY DEF LooksAt, PassesOver
<1>3. l \in Urls
  BY <1>1 DEF CrawlInv, LoopInv
<1>4. requests \in Nat /\ requests <= lim.requests /\ bytes \in Nat /\ bytes <= lim.bytes
  BY LimIs DEF CrawlInv, BudgetInv, FetchInv
<1>5. IsFiniteSet(discovered') /\ Cardinality(discovered') <= lim.urls
  <2>1. IsFiniteSet(discovered) /\ Cardinality(discovered) \in Nat /\ lim.urls \in Nat
        /\ Cardinality(discovered) <= lim.urls
    BY FS_CardinalityType, LimIs DEF CrawlInv, BudgetInv
  <2>2. CASE l \in discovered
    <3>1. discovered' = discovered
      BY <1>1, <2>2
    <3> QED BY <2>1, <3>1
  <2>3. CASE l \notin discovered
    <3>1. /\ IsFiniteSet(discovered \cup {l})
          /\ Cardinality(discovered \cup {l}) = Cardinality(discovered) + 1
      BY <2>1, <2>3, FS_AddElement
    <3> QED BY <1>1, <2>1, <2>3, <3>1
  <2> QED BY <2>2, <2>3
<1>6. CASE Enqueue(l, seen) /\ UNCHANGED <<fetch, opened, pc, link, requests, reason>>
  <2>1. QueueInv'
    BY <1>1, <1>3, <1>6, EnqueueKeeps DEF CrawlInv
  <2>2. FetchInv'
    BY <1>1, <1>6 DEF CrawlInv, FetchInv, Vetted, Admitted, Urls, NothingForbidden, Forbidden
  <2>3. LoopInv'
    BY <1>1, <1>3, <1>6 DEF CrawlInv, LoopInv, Refusal, Urls
  <2> QED BY <1>1, <1>2, <1>5, <1>6, <2>1, <2>2, <2>3 DEF CrawlInv, BudgetInv
<1>7. CASE pc' = "sum" /\ UNCHANGED <<fetch, opened, queue, link, requests>>
  <2>1. QueueInv'
    BY <1>1, <1>7 DEF CrawlInv, QueueInv, Urls
  <2>2. FetchInv'
    BY <1>1, <1>7 DEF CrawlInv, FetchInv, Vetted, Admitted, Urls, NothingForbidden, Forbidden
  <2>3. LoopInv'
    BY <1>1, <1>3, <1>7 DEF CrawlInv, LoopInv, Refusal, Urls
  <2> QED BY <1>1, <1>2, <1>5, <1>7, <2>1, <2>2, <2>3 DEF CrawlInv, BudgetInv
<1>8. CASE link' = l /\ pc' = "link" /\ Attempt(l, "HEAD") /\ UNCHANGED queue
  <2>1. /\ FetchInv' /\ fetch'.pc # "idle" /\ bytes + fetch'.cap <= lim.bytes
        /\ fetch'.url = l \/ Refusal'
        /\ requests' \in Nat /\ requests' <= lim.requests
    BY <1>1, <1>3, <1>4, <1>8, AttemptIs DEF CrawlInv, Refusal
  <2>2. QueueInv'
    BY <1>1, <1>8 DEF CrawlInv, QueueInv, Urls
  <2>3. LoopInv'
    BY <1>1, <1>3, <1>8, <2>1 DEF CrawlInv, LoopInv, Urls
  <2> QED BY <1>1, <1>2, <1>5, <2>1, <2>2, <2>3 DEF CrawlInv, BudgetInv
<1> QED BY <1>6, <1>7, <1>8 DEF LooksAt

\* Every step of crawler and guard keeps the invariant.
LEMMA NextKeeps == CrawlInv /\ [Next]_vars => CrawlInv'
<1> SUFFICES ASSUME CrawlInv, [Next]_vars PROVE CrawlInv'
  OBVIOUS
<1>1. CASE Late \/ Begin \/ StopsCrawl \/ NoMoreLinks \/ SumUp \/ UNCHANGED vars
  BY <1>1, QuietSteps
<1>2. CASE NextPage
  BY <1>2, NextPageKeeps
<1>3. CASE AskAgain
  BY <1>3, AskAgainKeeps
<1>4. CASE TakePage
  BY <1>4, TakePageKeeps
<1>5. CASE TakeLink
  BY <1>5, TakeLinkKeeps
<1>6. CASE Fetching
  BY <1>6, FetchingKeeps
<1>7. CASE \E l \in todo : SkipsScheme(l) \/ TooManyUrls(l) \/ LooksAt(l)
  BY <1>7, PassedOverKeeps, LooksAtKeeps
<1> QED BY <1>1, <1>2, <1>3, <1>4, <1>5, <1>6, <1>7 DEF Next, Crawling

\* So it holds throughout.
LEMMA CrawlInvAlways == Spec => []CrawlInv
BY CrawlInvInit, NextKeeps, PTL DEF Spec

------------------------------------------------------------------------------
(* What the crawler may never do.                                            *)

\* Types, and what a url in the queue and a fetch under way stand for.
THEOREM TypeCorrect == Spec => []TypeOK
<1>1. CrawlInv => TypeOK
  BY DEF CrawlInv, FetchInv, LoopInv, QueueInv, BudgetInv, TypeOK
<1> QED BY <1>1, CrawlInvAlways, PTL

\* No request leaves by the guard's side: every hop of every redirect chain was
\* vetted by check_url when safe_get opened it.
THEOREM GuardAlways == Spec => []OnlyThroughTheGuard
<1>1. CrawlInv => OnlyThroughTheGuard
  BY DEF CrawlInv, FetchInv, OnlyThroughTheGuard
<1> QED BY <1>1, CrawlInvAlways, PTL

\* The limits of the command line hold at every step, also while an answer is
\* being read: request sets aside what is left before it begins.
THEOREM BudgetsAlways == Spec => []WithinBudgets
<1>1. CrawlInv => WithinBudgets
  BY LimIs DEF CrawlInv, FetchInv, BudgetInv, WithinBudgets
<1> QED BY <1>1, CrawlInvAlways, PTL

------------------------------------------------------------------------------
(* What exit code 0 says: the crawl has no gap.                              *)

Clean       == ~reason /\ broken = {}
InQueue(x)  == \E i \in 1..Len(queue) : queue[i] = x
Reached(x)  == x \in seen \/ InQueue(x)
Contents(p) == web.at[p].links \cup web.at[p].assets

\* Nothing is left to do about a link of page b, or about a page.
LinkDone(b, x) ==
  web.at[x].scheme \in {"http", "https"} =>
    /\ x \in checked
    /\ x \in web.at[b].links /\ web.at[x].host = Host => Reached(x)

PageDone(p) ==
  /\ Sound(p)
  /\ web.at[p].to = "none" /\ web.at[p].kind = "html" =>
       \A x \in Contents(p) : LinkDone(p, x)

\* What was checked and not put down as broken answers, and may be contacted.
CheckedAnswer == broken = {} => \A x \in checked : Sound(x) /\ ~Forbidden(x)

\* A page is forgotten only with a budget or a failure.
PagesDone ==
  Clean => /\ Reached(Start)
           /\ \A p \in seen : PageDone(p) \/ (p = page /\ pc \in {"page", "links", "link"})

\* While the links of a page are gone through, each is yet to come, is being
\* asked for, or is done.
LinksDone ==
  Clean /\ pc \in {"links", "link"} =>
    /\ Sound(page) /\ (web.at[page].to = "none" => base = page)
    /\ \A x \in Contents(base) :
         x \in todo \/ LinkDone(base, x) \/ (pc = "link" /\ x = link)

\* Without a reason to stop, the crawl ends at the end of the queue.
EndIsReached ==
  /\ Clean /\ pc = "sum" => queue = <<>> \/ Cardinality(seen) >= lim.pages
  /\ exitCode = 0 => pc = "ended" /\ Clean /\ queue = <<>>

CoverInv == CheckedAnswer /\ PagesDone /\ LinksDone /\ EndIsReached

\* What is done stays done: checked and reached only grow.
LEMMA DoneStays ==
  ASSUME web' = web, checked \subseteq checked', \A x : Reached(x) => Reached(x)'
  PROVE  /\ \A b, x : LinkDone(b, x) => LinkDone(b, x)'
         /\ \A p : PageDone(p) => PageDone(p)'
<1>1. Host' = Host
  BY DEF Host
<1>2. ASSUME NEW b, NEW x, LinkDone(b, x) PROVE LinkDone(b, x)'
  BY <1>1, <1>2 DEF LinkDone
<1>3. \A p : Contents(p)' = Contents(p) /\ (Sound(p) => Sound(p)')
  BY DEF Contents, Sound
<1>4. ASSUME NEW p, PageDone(p) PROVE PageDone(p)'
  BY <1>2, <1>3, <1>4 DEF PageDone
<1> QED BY <1>2, <1>4

\* Taking the head off the queue and putting it among the seen reaches no less.
LEMMA HeadIsSeen ==
  ASSUME QueueInv, queue # <<>>, queue' = Tail(queue), seen' = seen \cup {Head(queue)}
  PROVE  \A x : Reached(x) => Reached(x)'
<1>1. /\ queue \in Seq(Urls) /\ Len(queue) \in Nat /\ Len(queue) > 0
      /\ Head(queue) = queue[1] /\ Len(queue') = Len(queue) - 1
      /\ \A i \in 1..Len(queue') : queue'[i] = queue[i + 1]
  BY DEF QueueInv
<1>2. ASSUME NEW x, NEW i \in 1..Len(queue), queue[i] = x PROVE Reached(x)'
  <2>1. CASE i = 1
    BY <1>1, <1>2, <2>1 DEF Reached
  <2>2. CASE i # 1
    <3>1. i - 1 \in 1..Len(queue') /\ queue'[i - 1] = x
      BY <1>1, <1>2, <2>2
    <3> QED BY <3>1 DEF Reached, InQueue
  <2> QED BY <2>1, <2>2
<1> QED BY <1>2 DEF Reached, InQueue

\* Nothing has been reported at the start.
LEMMA CoverInvInit == Init => CoverInv
<1> SUFFICES ASSUME Init PROVE CoverInv
  OBVIOUS
<1>1. /\ queue = <<Start>> /\ seen = {} /\ checked = {} /\ pc = "start" /\ exitCode = 9
  BY DEF Init
<1>2. Reached(Start)
  BY <1>1 DEF Reached, InQueue
<1> QED BY <1>1, <1>2 DEF CoverInv, CheckedAnswer, PagesDone, LinksDone, EndIsReached

\* Steps that change nothing of what the crawl has gathered, and do not move it.
LEMMA StandingKeeps ==
  ASSUME CoverInv, UNCHANGED <<web, lim, pc, crawled, found, loop, exitCode>>,
         reason => reason', exitCode = 0 /\ reason' => reason
  PROVE  CoverInv'
<1>1. \A x : Reached(x) => Reached(x)'
  BY DEF Reached, InQueue, crawled
<1>2. Start' = Start
  BY DEF Start
<1>3. /\ \A b, x : LinkDone(b, x) => LinkDone(b, x)'
      /\ \A p : PageDone(p) => PageDone(p)'
  BY <1>1, DoneStays DEF crawled
<1>4. /\ \A p : Contents(p)' = Contents(p) /\ (Sound(p) => Sound(p)')
      /\ \A x : Forbidden(x)' = Forbidden(x)
  BY DEF Contents, Sound, Forbidden
<1>5. Clean' => Clean
  BY DEF Clean, found
<1>6. CheckedAnswer'
  BY <1>4 DEF CoverInv, CheckedAnswer, found, crawled
<1>7. PagesDone'
  BY <1>1, <1>2, <1>3, <1>5 DEF CoverInv, PagesDone, crawled, loop
<1>8. LinksDone'
  BY <1>3, <1>4, <1>5 DEF CoverInv, LinksDone, loop
<1>9. EndIsReached'
  <2>1. exitCode = 0 /\ Clean => Clean'
    BY DEF Clean, found
  <2> QED BY <1>5, <2>1 DEF CoverInv, EndIsReached, crawled
<1> QED BY <1>6, <1>7, <1>8, <1>9 DEF CoverInv

\* The page loop's own moves: nothing is gathered, no page is being read.
LEMMA MovesKeep ==
  ASSUME CrawlInv, CoverInv, Begin \/ StopsCrawl \/ NoMoreLinks \/ SumUp
  PROVE  CoverInv'
<1>0. UNCHANGED <<web, lim, crawled, found, loop>> /\ (reason => reason')
  <2>1. UNCHANGED <<web, lim, crawled, found, loop>>
    BY DEF Begin, StopsCrawl, NoMoreLinks, SumUp, guardVars
  <2>2. ASSUME reason PROVE reason'
    <3>1. CASE StopsCrawl
      BY <2>2, <3>1 DEF StopsCrawl
    <3>2. CASE Begin \/ NoMoreLinks \/ SumUp
      BY <2>2, <3>2 DEF Begin, NoMoreLinks, SumUp, budget
    <3> QED BY <3>1, <3>2
  <2> QED BY <2>1, <2>2
<1>1. \A x : Reached(x) => Reached(x)'
  BY <1>0 DEF Reached, InQueue, crawled
<1>2. Start' = Start
  BY DEF Start
<1>3. /\ \A b, x : LinkDone(b, x) => LinkDone(b, x)'
      /\ \A p : PageDone(p) => PageDone(p)'
  BY <1>0, <1>1, DoneStays DEF crawled
<1>4. \A x : (Sound(x) => Sound(x)') /\ Forbidden(x)' = Forbidden(x)
  BY <1>0 DEF Sound, Forbidden
<1>5. Clean' => Clean
  BY <1>0 DEF Clean, found
<1>6. CheckedAnswer'
  BY <1>0, <1>4 DEF CoverInv, CheckedAnswer, found, crawled
<1>7. ASSUME Clean, NEW p \in seen PROVE PageDone(p)
  <2>1. CASE ~NoMoreLinks \/ p # page
    BY <1>7, <2>1 DEF CoverInv, PagesDone, Begin, StopsCrawl, SumUp
  <2>2. CASE NoMoreLinks /\ p = page
    <3>1. pc = "links" /\ todo = {}
      BY <2>2 DEF NoMoreLinks
    <3>2. /\ Sound(page) /\ (web.at[page].to = "none" => base = page)
          /\ \A x \in Contents(base) : LinkDone(base, x)
      BY <1>7, <3>1 DEF CoverInv, LinksDone
    <3> QED BY <2>2, <3>2 DEF PageDone
  <2> QED BY <2>1, <2>2
<1>8. PagesDone'
  BY <1>0, <1>1, <1>2, <1>3, <1>5, <1>7 DEF CoverInv, PagesDone, crawled
<1>9. pc' \notin {"links", "link"}
  BY DEF Begin, StopsCrawl, NoMoreLinks, SumUp
<1>10. exitCode # 0
  BY DEF Begin, StopsCrawl, NoMoreLinks, SumUp, CrawlInv, LoopInv
<1>11. Clean' /\ pc' = "sum" => queue' = <<>> \/ Cardinality(seen') >= lim'.pages
  <2>1. CASE Begin \/ SumUp
    BY <2>1 DEF Begin, SumUp
  <2>2. CASE NoMoreLinks
    BY <2>2 DEF NoMoreLinks, budget, Clean
  <2>3. CASE StopsCrawl
    <3>1. CASE MorePages
      BY <2>3, <3>1 DEF StopsCrawl, Clean
    <3>2. CASE ~MorePages
      <4>1. IsFiniteSet(seen) /\ Cardinality(seen) \in Nat /\ lim.pages \in Nat
        BY FS_CardinalityType, LimIs DEF CrawlInv, BudgetInv
      <4> QED BY <1>0, <3>2, <4>1 DEF MorePages, crawled
    <3> QED BY <3>1, <3>2
  <2> QED BY <2>1, <2>2, <2>3
<1>12. exitCode' = 0 => pc' = "ended" /\ Clean' /\ queue' = <<>>
  <2>1. CASE Begin \/ StopsCrawl \/ NoMoreLinks
    BY <1>10, <2>1 DEF Begin, StopsCrawl, NoMoreLinks
  <2>2. CASE SumUp
    <3>1. pc = "sum" /\ pc' = "ended" /\ UNCHANGED <<reason, broken, queue, seen, lim>>
      BY <2>2 DEF SumUp, budget, found, crawled
    <3>2. exitCode' = 0 => ~Failed /\ ~Unverified
      BY <2>2 DEF SumUp
    <3>3. ~Failed /\ ~Unverified => Clean /\ ~(Cardinality(seen) >= lim.pages /\ queue # <<>>)
      BY DEF Failed, Unverified, Clean
    <3>4. Clean => queue = <<>> \/ Cardinality(seen) >= lim.pages
      BY <3>1 DEF CoverInv, EndIsReached
    <3> QED BY <3>1, <3>2, <3>3, <3>4 DEF Clean
  <2> QED BY <2>1, <2>2
<1> QED BY <1>6, <1>8, <1>9, <1>11, <1>12 DEF CoverInv, LinksDone, EndIsReached

\* The clock, the guard's steps, the second request for a link.
LEMMA WaitingKeeps ==
  ASSUME CrawlInv, CoverInv, Late \/ Fetching \/ AskAgain \/ UNCHANGED vars
  PROVE  CoverInv'
<1>1. UNCHANGED <<web, lim, pc, crawled, found, loop, exitCode>>
  BY DEF Late, Fetching, Vet, Open, AskAgain, vars, guardVars
<1>2. reason => reason'
  <2>1. CASE AskAgain
    <3>1. link \in Urls /\ Attempt(link, "GET")
      BY <2>1 DEF AskAgain, CrawlInv, LoopInv
    <3>2. requests \in Nat /\ requests <= lim.requests /\ bytes \in Nat /\ bytes <= lim.bytes
      BY LimIs DEF CrawlInv, BudgetInv, FetchInv
    <3> QED BY <1>1, <3>1, <3>2, AttemptIs DEF CrawlInv
  <2>2. CASE Late \/ Fetching \/ UNCHANGED vars
    <3>1. reason' = reason
      BY <2>2 DEF Late, Fetching, vars, budget
    <3> QED BY <3>1
  <2> QED BY <2>1, <2>2
<1>3. exitCode = 0 /\ reason' => reason
  <2>1. CASE Late \/ Fetching \/ AskAgain
    <3>1. pc # "ended"
      BY <2>1 DEF Late, AskAgain, Fetching, Vet, Open, CrawlInv, LoopInv
    <3> QED BY <3>1 DEF CrawlInv, LoopInv
  <2>2. CASE UNCHANGED vars
    <3>1. reason' = reason
      BY <2>2 DEF vars, budget
    <3> QED BY <3>1
  <2> QED BY <2>1, <2>2
<1> QED BY <1>1, <1>2, <1>3, StandingKeeps

\* The page that is taken off the queue is the only one not done with.
LEMMA NextPageCovers == ASSUME CrawlInv, CoverInv, NextPage PROVE CoverInv'
<1> DEFINE u == Head(queue)
<1>1. /\ pc = "crawl" /\ queue # <<>> /\ queue' = Tail(queue)
      /\ UNCHANGED <<web, lim, discovered, checked, found, exitCode>>
  BY DEF NextPage, MorePages
<1>2. u \in Urls /\ u \notin seen
  BY <1>1 DEF CrawlInv, QueueInv
<1>3. /\ seen' = seen \cup {u} /\ page' = u /\ pc' = "page" /\ Attempt(u, "GET")
  BY <1>2 DEF NextPage
<1>4. requests \in Nat /\ requests <= lim.requests /\ bytes \in Nat /\ bytes <= lim.bytes
  BY LimIs DEF CrawlInv, BudgetInv, FetchInv
<1>5. reason => reason'
  BY <1>1, <1>2, <1>3, <1>4, AttemptIs DEF CrawlInv
<1>6. Clean' => Clean
  BY <1>1, <1>5 DEF Clean, found
<1>7. \A x : Reached(x) => Reached(x)'
  BY <1>1, <1>3, HeadIsSeen DEF CrawlInv
<1>8. \A p : PageDone(p) => PageDone(p)'
  BY <1>1, <1>7, DoneStays
<1>9. PagesDone'
  <2>1. Start' = Start
    BY DEF Start
  <2>2. Clean => \A p \in seen : PageDone(p)
    BY <1>1 DEF CoverInv, PagesDone
  <2> QED BY <1>3, <1>6, <1>7, <1>8, <2>1, <2>2 DEF CoverInv, PagesDone
<1>10. CheckedAnswer'
  BY <1>1 DEF CoverInv, CheckedAnswer, found, Sound, Forbidden
<1>11. exitCode' # 0
  BY <1>1 DEF CrawlInv, LoopInv
<1> QED BY <1>3, <1>9, <1>10, <1>11 DEF CoverInv, LinksDone, EndIsReached

\* An answer that stops nothing and is not broken is the one the site gives.
LEMMA AnswerIsSound ==
  ASSUME CrawlInv, fetch.pc = "answered", Result = "ok"
  PROVE  /\ fetch.url \in Urls => Sound(fetch.url)
         /\ ~Forbidden(fetch.url) /\ ~Refusal /\ fetch.at \in Urls
         /\ web.at[fetch.url].to = "none" => fetch.at = fetch.url
<1>1. fetch.got = "ok"
  BY DEF Result
<1> QED BY <1>1, VettedIsSafe DEF CrawlInv, FetchInv, Sound, Refusal

\* A page is left only when its links are to be looked at, when it has none, or
\* when the crawl is no longer clean.
LEMMA TakePageCovers == ASSUME CrawlInv, CoverInv, TakePage PROVE CoverInv'
<1>1. /\ pc = "page" /\ fetch.pc = "answered"
      /\ UNCHANGED <<web, exitCode, crawled, page>>
      /\ reason' = \/ reason \/ Result = "budget" \/ fetch.truncated
                   \/ fetch.body > 0 /\ bytes' >= lim.bytes
      /\ broken' = IF ~StopsAll /\ Result # "ok" THEN broken \cup {page} ELSE broken
  BY DEF TakePage, Answered, Account
<1>2. Clean' => Clean /\ ~StopsAll /\ Result = "ok"
  BY <1>1 DEF Clean, StopsAll
<1>3. \A x : Reached(x) => Reached(x)'
  BY <1>1 DEF Reached, InQueue, crawled
<1>4. /\ \A b, x : LinkDone(b, x) => LinkDone(b, x)'
      /\ \A p : PageDone(p) => PageDone(p)'
  BY <1>1, <1>3, DoneStays DEF crawled
<1>5. \A x : Sound(x)' = Sound(x) /\ Forbidden(x)' = Forbidden(x)
               /\ Contents(x)' = Contents(x)
  BY <1>1 DEF Sound, Forbidden, Contents
<1>6. CheckedAnswer'
  <2>1. broken' = {} => broken = {}
    BY <1>1
  <2> QED BY <1>1, <1>5, <2>1 DEF CoverInv, CheckedAnswer, crawled
<1>7. ASSUME Clean'
      PROVE  /\ fetch.at \in Urls /\ Sound(page)
             /\ web.at[page].to = "none" => fetch.at = page
  BY <1>1, <1>2, <1>7, AnswerIsSound DEF CrawlInv, LoopInv
<1>8. CASE Site.kind = "html" /\ ~StopsAll /\ Result = "ok"
  <2>1. pc' = "links" /\ base' = fetch.at /\ todo' = Contents(fetch.at)
    BY <1>8 DEF TakePage, Site, Contents
  <2>2. PagesDone'
    <3>1. Start' = Start
      BY DEF Start
    <3> QED BY <1>1, <1>2, <1>3, <1>4, <2>1, <3>1 DEF CoverInv, PagesDone, crawled
  <2>3. LinksDone'
    <3>1. base' = fetch.at /\ Contents(base)' = todo'
      BY <1>1, <2>1 DEF Contents
    <3>2. Sound(page)' = Sound(page)
      BY <1>1 DEF Sound
    <3> QED BY <1>1, <1>7, <2>1, <3>1, <3>2 DEF LinksDone
  <2>4. EndIsReached'
    BY <1>1, <2>1 DEF EndIsReached, CrawlInv, LoopInv
  <2> QED BY <1>6, <2>2, <2>3, <2>4 DEF CoverInv
<1>9. CASE ~(Site.kind = "html" /\ ~StopsAll /\ Result = "ok")
  <2>1. pc' = IF StopsAll THEN "sum" ELSE "crawl"
    BY <1>9 DEF TakePage
  <2>2. ASSUME Clean' PROVE PageDone(page)
    <3>1. Site.kind # "html"
      BY <1>2, <1>9, <2>2
    <3> QED BY <1>7, <2>2, <3>1 DEF PageDone, Site
  <2>3. PagesDone'
    <3>1. Start' = Start
      BY DEF Start
    <3>2. Clean' => \A p \in seen : PageDone(p)
      BY <1>1, <1>2, <2>2 DEF CoverInv, PagesDone
    <3> QED BY <1>1, <1>2, <1>3, <1>4, <3>1, <3>2 DEF CoverInv, PagesDone, crawled
  <2>4. LinksDone' /\ EndIsReached'
    BY <1>1, <1>2, <2>1 DEF LinksDone, EndIsReached, CrawlInv, LoopInv
  <2> QED BY <1>6, <2>3, <2>4 DEF CoverInv
<1> QED BY <1>8, <1>9

\* Where a link of the page stands: to come, done, or being asked for.
Stands(x) == x \in todo \/ LinkDone(base, x) \/ (pc = "link" /\ x = link)

\* A step that looks at links keeps the coverage if no link falls out of it.
LEMMA LinkStepCovers ==
  ASSUME CrawlInv, CoverInv, pc \in {"links", "link"}, pc' \in {"links", "link", "sum"},
         UNCHANGED <<web, exitCode, page, base, seen>>, CheckedAnswer',
         Clean' => Clean /\ pc' # "sum", checked \subseteq checked',
         \A x : Reached(x) => Reached(x)',
         Clean' => \A x \in Contents(base) : Stands(x) => Stands(x)'
  PROVE  CoverInv'
<1>1. \A p : PageDone(p) => PageDone(p)'
  BY DoneStays
<1>2. \A x : Sound(x)' = Sound(x) /\ Contents(x)' = Contents(x)
  BY DEF Sound, Contents
<1>3. PagesDone'
  <2>1. Start' = Start
    BY DEF Start
  <2> QED BY <1>1, <2>1 DEF CoverInv, PagesDone
<1>4. LinksDone'
  <2>1. Clean' => /\ Sound(page) /\ (web.at[page].to = "none" => base = page)
                  /\ \A x \in Contents(base) : Stands(x)
    BY DEF CoverInv, LinksDone, Stands
  <2>2. Sound(page)' = Sound(page) /\ Contents(base)' = Contents(base)
    BY DEF Sound, Contents
  <2> QED BY <2>1, <2>2 DEF LinksDone, Stands
<1>5. EndIsReached'
  BY DEF EndIsReached, CrawlInv, LoopInv
<1> QED BY <1>3, <1>4, <1>5 DEF CoverInv

\* The answer to a link, when it stops nothing, is the last thing to be done
\* about it.
LEMMA TakeLinkCovers == ASSUME CrawlInv, CoverInv, TakeLink PROVE CoverInv'
<1>1. /\ pc = "link" /\ fetch.pc = "answered"
      /\ UNCHANGED <<web, exitCode, discovered, seen, page, base, todo, link>>
      /\ reason' = \/ reason \/ Result = "budget" \/ fetch.truncated
                   \/ fetch.body > 0 /\ bytes' >= lim.bytes
  BY DEF TakeLink, Answered, Account, loop
<1>2. link \in discovered /\ link \in Urls
  BY <1>1 DEF CrawlInv, LoopInv
<1>3. CASE StopsAll
  <2>1. pc' = "sum" /\ UNCHANGED <<checked, broken, queue>>
    BY <1>3 DEF TakeLink
  <2>2. reason'
    BY <1>1, <1>3 DEF StopsAll
  <2>3. \A x : Reached(x) => Reached(x)'
    BY <1>1, <2>1 DEF Reached, InQueue
  <2>4. CheckedAnswer'
    BY <1>1, <2>1 DEF CoverInv, CheckedAnswer, Sound, Forbidden
  <2>5. ~Clean'
    BY <2>2 DEF Clean
  <2> QED BY <1>1, <2>1, <2>3, <2>4, <2>5, LinkStepCovers
<1>4. CASE ~StopsAll
  <2>1. /\ pc' = "links" /\ checked' = checked \cup {link} /\ Enqueue(link, seen)
        /\ broken' = IF Result # "ok" THEN broken \cup {link} ELSE broken
    BY <1>4 DEF TakeLink
  <2>2. /\ \A x : InQueue(x) => InQueue(x)'
        /\ link \in web.at[base].links /\ web.at[link].host = Host /\ link \notin seen =>
             InQueue(link)'
    BY <1>1, <1>2, <2>1, EnqueueKeeps DEF CrawlInv, InQueue
  <2>3. \A x : Reached(x) => Reached(x)'
    BY <1>1, <2>2 DEF Reached
  <2>4. broken' = {} => broken = {} /\ Result = "ok"
    BY <2>1
  <2>5. Clean' => Clean
    BY <1>1, <2>4 DEF Clean
  <2>6. CheckedAnswer'
    <3>1. \A x : Sound(x)' = Sound(x) /\ Forbidden(x)' = Forbidden(x)
      BY <1>1 DEF Sound, Forbidden
    <3>2. ASSUME Result = "ok" PROVE Sound(link) /\ ~Forbidden(link)
      BY <1>1, <1>2, <3>2, AnswerIsSound DEF CrawlInv, LoopInv
    <3> QED BY <2>1, <2>4, <3>1, <3>2 DEF CoverInv, CheckedAnswer
  <2>7. \A b, x : LinkDone(b, x) => LinkDone(b, x)'
    BY <1>1, <2>1, <2>3, DoneStays
  <2>8. Stands(link)'
    <3>1. Reached(link)' <=> link \in seen \/ InQueue(link)'
      BY <1>1 DEF Reached
    <3> QED BY <1>1, <2>1, <2>2, <3>1 DEF Stands, LinkDone, Host
  <2>9. ASSUME NEW x, Stands(x) PROVE Stands(x)'
    <3>1. CASE x = link
      BY <1>1, <2>8, <3>1 DEF Stands
    <3>2. CASE x # link
      <4>1. LinkDone(base, x) => LinkDone(base, x)'
        BY <1>1, <2>7
      <4> QED BY <1>1, <2>9, <3>2, <4>1 DEF Stands
    <3> QED BY <3>1, <3>2
  <2> QED BY <1>1, <2>1, <2>3, <2>5, <2>6, <2>9, LinkStepCovers
<1> QED BY <1>3, <1>4

\* A link is passed over because it is no web address, because it is checked
\* and queued already, or because a budget ended the crawl.
LEMMA LinksCover ==
  ASSUME CrawlInv, CoverInv, NEW l, SkipsScheme(l) \/ TooManyUrls(l) \/ LooksAt(l)
  PROVE  CoverInv'
<1>1. /\ pc = "links" /\ l \in todo /\ todo' = todo \ {l}
      /\ UNCHANGED <<web, exitCode, page, base, seen, checked, broken>>
  BY DEF SkipsScheme, TooManyUrls, LooksAt, PassesOver
<1>2. l \in Urls
  BY <1>1 DEF CrawlInv, LoopInv
<1>3. CheckedAnswer'
  BY <1>1 DEF CoverInv, CheckedAnswer, Sound, Forbidden
<1>4. CASE pc' = "sum" /\ reason' /\ queue' = queue
  <2>1. \A x : Reached(x) => Reached(x)'
    BY <1>1, <1>4 DEF Reached, InQueue
  <2>2. ~Clean'
    BY <1>4 DEF Clean
  <2> QED BY <1>1, <1>3, <1>4, <2>1, <2>2, LinkStepCovers
<1>5. CASE SkipsScheme(l)
  <2>1. /\ web.at[l].scheme \notin {"http", "https"}
        /\ pc' = pc /\ queue' = queue /\ reason' = reason
    BY <1>5 DEF SkipsScheme
  <2>2. \A x : Reached(x) => Reached(x)'
    BY <1>1, <2>1 DEF Reached, InQueue
  <2>3. \A b, x : LinkDone(b, x) => LinkDone(b, x)'
    BY <1>1, <2>2, DoneStays
  <2>4. ASSUME NEW x, Stands(x) PROVE Stands(x)'
    <3>1. LinkDone(base, x) => LinkDone(base, x)'
      BY <1>1, <2>3
    <3>2. x = l => LinkDone(base, x)
      BY <2>1 DEF LinkDone
    <3> QED BY <1>1, <2>1, <2>4, <3>1, <3>2 DEF Stands
  <2>5. Clean' => Clean
    BY <1>1, <2>1 DEF Clean
  <2> QED BY <1>1, <1>3, <2>1, <2>2, <2>4, <2>5, LinkStepCovers
<1>6. CASE /\ l \in checked /\ l \in discovered' /\ discovered \subseteq discovered'
           /\ Enqueue(l, seen) /\ pc' = pc /\ link' = link /\ reason' = reason
  <2>1. /\ \A x : InQueue(x) => InQueue(x)'
        /\ l \in web.at[base].links /\ web.at[l].host = Host /\ l \notin seen => InQueue(l)'
    BY <1>1, <1>2, <1>6, EnqueueKeeps DEF CrawlInv, InQueue
  <2>2. \A x : Reached(x) => Reached(x)'
    BY <1>1, <2>1 DEF Reached
  <2>3. \A b, x : LinkDone(b, x) => LinkDone(b, x)'
    BY <1>1, <2>2, DoneStays
  <2>4. Stands(l)'
    <3>1. Reached(l)' <=> l \in seen \/ InQueue(l)'
      BY <1>1 DEF Reached
    <3> QED BY <1>1, <1>6, <2>1, <3>1 DEF Stands, LinkDone, Host
  <2>5. ASSUME NEW x, Stands(x) PROVE Stands(x)'
    <3>1. CASE x = l
      BY <1>1, <2>4, <3>1 DEF Stands
    <3>2. CASE x # l
      <4>1. LinkDone(base, x) => LinkDone(base, x)'
        BY <1>1, <2>3
      <4> QED BY <1>1, <1>6, <2>5, <3>2, <4>1 DEF Stands
    <3> QED BY <3>1, <3>2
  <2>6. Clean' => Clean
    BY <1>1, <1>6 DEF Clean
  <2> QED BY <1>1, <1>3, <1>6, <2>2, <2>5, <2>6, LinkStepCovers
<1>7. CASE link' = l /\ pc' = "link" /\ Attempt(l, "HEAD") /\ queue' = queue
  <2>1. \A x : Reached(x) => Reached(x)'
    BY <1>1, <1>7 DEF Reached, InQueue
  <2>2. \A b, x : LinkDone(b, x) => LinkDone(b, x)'
    BY <1>1, <2>1, DoneStays
  <2>3. ASSUME NEW x, Stands(x) PROVE Stands(x)'
    <3>1. LinkDone(base, x) => LinkDone(base, x)'
      BY <1>1, <2>2
    <3> QED BY <1>1, <1>7, <2>3, <3>1 DEF Stands
  <2>4. requests \in Nat /\ requests <= lim.requests /\ bytes \in Nat /\ bytes <= lim.bytes
    BY LimIs DEF CrawlInv, BudgetInv, FetchInv
  <2>5. reason => reason'
    BY <1>1, <1>2, <1>7, <2>4, AttemptIs DEF CrawlInv
  <2>6. Clean' => Clean
    BY <1>1, <2>5 DEF Clean
  <2> QED BY <1>1, <1>3, <1>7, <2>1, <2>3, <2>6, LinkStepCovers
<1>8. CASE TooManyUrls(l)
  BY <1>4, <1>8 DEF TooManyUrls
<1>9. CASE LooksAt(l)
  BY <1>4, <1>6, <1>7, <1>9 DEF LooksAt
<1> QED BY <1>5, <1>8, <1>9

\* Every step keeps both invariants.
LEMMA NextCovers == CrawlInv /\ CoverInv /\ [Next]_vars => CoverInv'
<1> SUFFICES ASSUME CrawlInv, CoverInv, [Next]_vars PROVE CoverInv'
  OBVIOUS
<1>1. CASE Late \/ Fetching \/ AskAgain \/ UNCHANGED vars
  BY <1>1, WaitingKeeps
<1>2. CASE Begin \/ StopsCrawl \/ NoMoreLinks \/ SumUp
  BY <1>2, MovesKeep
<1>3. CASE NextPage
  BY <1>3, NextPageCovers
<1>4. CASE TakePage
  BY <1>4, TakePageCovers
<1>5. CASE TakeLink
  BY <1>5, TakeLinkCovers
<1>6. CASE \E l \in todo : SkipsScheme(l) \/ TooManyUrls(l) \/ LooksAt(l)
  BY <1>6, LinksCover
<1> QED BY <1>1, <1>2, <1>3, <1>4, <1>5, <1>6 DEF Next, Crawling

\* Exit code 0 is only for a crawl without a gap: whatever was linked from a
\* crawled page was asked for and answers, and every page of the host that was
\* found was crawled, although five budgets may end the crawl between any two
\* steps.
THEOREM CleanAlways == Spec => []CleanMeansCovered
<1>1. CrawlInv /\ CoverInv => CleanMeansCovered
  <2> SUFFICES ASSUME CrawlInv, CoverInv, exitCode = 0 PROVE CleanMeansCovered
    BY DEF CleanMeansCovered
  <2>1. pc = "ended" /\ Clean /\ queue = <<>>
    BY DEF CoverInv, EndIsReached
  <2>2. broken = {}
    BY <2>1 DEF Clean
  <2>3. \A x : Reached(x) => x \in seen
    BY <2>1 DEF Reached, InQueue
  <2>4. Start \in seen /\ \A p \in seen : PageDone(p)
    BY <2>1, <2>3 DEF CoverInv, PagesDone
  <2>5. \A x \in checked : Sound(x) /\ ~Forbidden(x)
    BY <2>2 DEF CoverInv, CheckedAnswer
  <2>6. ASSUME NEW p \in seen, web.at[p].to = "none", web.at[p].kind = "html",
               NEW x \in Contents(p), web.at[x].scheme \in {"http", "https"}
        PROVE  /\ x \in checked /\ Sound(x) /\ ~Forbidden(x)
               /\ (x \in web.at[p].links /\ web.at[x].host = Host) => x \in seen
    BY <2>3, <2>4, <2>5, <2>6 DEF PageDone, LinkDone
  <2> QED BY <2>4, <2>6 DEF CleanMeansCovered, PageDone, Contents
<1>2. Init => CrawlInv /\ CoverInv
  BY CrawlInvInit, CoverInvInit
<1>3. CrawlInv /\ CoverInv /\ [Next]_vars => CrawlInv' /\ CoverInv'
  BY NextKeeps, NextCovers
<1> QED BY <1>1, <1>2, <1>3, PTL DEF Spec

------------------------------------------------------------------------------
(* What is left to do.  Redirect loops, pages that link to one another and     *)
(* answers that never come leave the crawl no step that can be taken for ever: *)
(* each one, but for the clock's, takes something away that there is only so   *)
(* much of.                                                                    *)

\* How near the loop is to its end, between two requests.
Stage == CASE pc = "start"             -> 5
           [] pc \in {"page", "link"}  -> 4
           [] pc = "links"             -> 3
           [] pc = "crawl"             -> 2
           [] pc = "sum"               -> 1
           [] OTHER                    -> 0

\* The steps a fetch still has in it: two for each hop, and the GET that may
\* follow a HEAD.
ToFetch == CASE fetch.pc = "vet"  -> 2 * (MaxRedirects - fetch.hops) + 3
             [] fetch.pc = "open" -> 2 * (MaxRedirects - fetch.hops) + 2
             [] OTHER             -> IF fetch.asked = "HEAD" THEN 1 ELSE 0

\* The requests left, then the stage, then the steps of the fetch or the links
\* of the page.
Left == <<lim.requests - requests, Stage,
          IF pc \in {"page", "link"} THEN ToFetch ELSE Cardinality(todo)>>

Less(a, b) == \/ a[1] < b[1]
              \/ a[1] = b[1] /\ a[2] < b[2]
              \/ a[1] = b[1] /\ a[2] = b[2] /\ a[3] < b[3]

\* What is counted can be counted.
Counted == fetch.hops \in 0..MaxRedirects /\ IsFiniteSet(todo)

\* The fields of a fetch that are counted.
LEMMA CountedFields ==
  /\ NoFetch.hops = 0 /\ NoFetch.asked = "GET"
  /\ \A f, what : DOMAIN f = DOMAIN NoFetch =>
       Ends(f, what).hops = f.hops /\ Ends(f, what).asked = f.asked
  /\ \A u, m, cap : Begun(u, m, cap).hops = 0 /\ Begun(u, m, cap).pc = "vet"
BY NoFetchIs DEF NoFetch, Ends, Begun

\* The three counts are natural numbers.
LEMMA LeftIsNatural ==
  CrawlInv /\ Counted => Left \in Nat \X Nat \X Nat /\ ToFetch \in Nat
<1> SUFFICES ASSUME CrawlInv, Counted PROVE Left \in Nat \X Nat \X Nat /\ ToFetch \in Nat
  OBVIOUS
<1>1. lim.requests - requests \in Nat
  BY LimIs DEF CrawlInv, BudgetInv
<1>2. Stage \in Nat
  BY DEF Stage
<1>3. ToFetch \in Nat
  <2> DEFINE n == fetch.hops
  <2>1. n \in 0..MaxRedirects /\ MaxRedirects \in Nat
    BY GuardAssumption DEF Counted
  <2>2. MaxRedirects - n \in Nat
    BY <2>1
  <2> QED BY <2>2 DEF ToFetch
<1>4. Cardinality(todo) \in Nat
  BY FS_CardinalityType DEF Counted
<1> QED BY <1>1, <1>2, <1>3, <1>4 DEF Left

\* The guard's steps come to an end: each hop costs one of MaxRedirects.
LEMMA GuardShrinks ==
  ASSUME web \in Webs, FetchInv, fetch.hops \in 0..MaxRedirects, Vet \/ Open
  PROVE  fetch'.hops \in 0..MaxRedirects /\ ToFetch' < ToFetch
<1> DEFINE n == fetch.hops
<1>1. n \in 0..MaxRedirects /\ MaxRedirects \in Nat /\ MaxRedirects - n \in Nat
  BY GuardAssumption
<1>2. DOMAIN fetch = DOMAIN NoFetch
  BY DEF FetchInv
<1>3. ASSUME NEW what, fetch' = Ends(fetch, what), fetch.pc \in {"vet", "open"}
      PROVE  fetch'.hops \in 0..MaxRedirects /\ ToFetch' < ToFetch
  <2>1. fetch'.pc = "answered" /\ fetch'.hops = n
    BY <1>2, <1>3, EndsIs, CountedFields
  <2>2. ToFetch' \in {0, 1}
    BY <2>1 DEF ToFetch
  <2>3. ToFetch \in {2 * (MaxRedirects - n) + 3, 2 * (MaxRedirects - n) + 2}
    BY <1>3 DEF ToFetch
  <2> HIDE DEF n
  <2> QED BY <1>1, <2>1, <2>2, <2>3
<1>4. CASE Vet
  <2>1. fetch.pc = "vet"
    BY <1>4 DEF Vet
  <2>2. CASE fetch' = Ends(fetch, "blocked")
    BY <1>3, <2>1, <2>2
  <2>3. CASE fetch' = [fetch EXCEPT !.pc = "open"]
    <3>1. fetch'.pc = "open" /\ fetch'.hops = n
      BY <1>2, <2>3, NoFetchIs
    <3>2. ToFetch' = 2 * (MaxRedirects - n) + 2 /\ ToFetch = 2 * (MaxRedirects - n) + 3
      BY <2>1, <3>1 DEF ToFetch
    <3> HIDE DEF n
    <3> QED BY <1>1, <3>1, <3>2
  <2> QED BY <1>4, <2>2, <2>3 DEF Vet
<1>5. CASE Open
  <2> DEFINE s == web.at[fetch.at]
  <2>1. /\ fetch.pc = "open"
        /\ fetch' \in {Ends(fetch, "err"), IF Redirects(s) THEN Hop(s) ELSE Answer(s)}
    BY <1>5 DEF Open
  <2>2. CASE \E what : fetch' = Ends(fetch, what)
    BY <1>3, <2>1, <2>2
  <2>3. CASE fetch' = Hop(s) /\ ~(\E what : fetch' = Ends(fetch, what))
    <3>1. /\ n + 1 <= MaxRedirects
          /\ fetch' = [fetch EXCEPT !.pc = "vet", !.hops = @ + 1, !.at = s.to,
                                    !.method = IF s.see THEN "GET" ELSE @]
      BY <1>1, <2>3 DEF Hop
    <3>2. fetch'.pc = "vet" /\ fetch'.hops = n + 1
      BY <1>2, <3>1, NoFetchIs
    <3>3. ToFetch' = 2 * (MaxRedirects - (n + 1)) + 3 /\ ToFetch = 2 * (MaxRedirects - n) + 2
      BY <2>1, <3>2 DEF ToFetch
    <3> HIDE DEF n
    <3> QED BY <1>1, <3>1, <3>2, <3>3
  <2>4. CASE fetch' = Answer(s) /\ ~(\E what : fetch' = Ends(fetch, what))
    <3> DEFINE e == Ends(fetch, s.status)
    <3>1. fetch' = [e EXCEPT !.body = Least(s.size, fetch.cap),
                             !.truncated = s.size > fetch.cap]
      BY <2>4 DEF Answer
    <3>2. DOMAIN e = DOMAIN NoFetch /\ e.pc = "answered" /\ e.hops = n
      BY <1>2, EndsIs, CountedFields
    <3> HIDE DEF e
    <3>3. fetch'.pc = "answered" /\ fetch'.hops = n
      BY <3>1, <3>2, NoFetchIs
    <3>4. ToFetch' \in {0, 1} /\ ToFetch = 2 * (MaxRedirects - n) + 2
      BY <2>1, <3>3 DEF ToFetch
    <3> HIDE DEF n
    <3> QED BY <1>1, <3>3, <3>4
  <2> QED BY <2>1, <2>2, <2>3, <2>4
<1> QED BY <1>4, <1>5

\* A request that is begun takes one from those left.
LEMMA AttemptCounts ==
  ASSUME CrawlInv, NEW u, NEW m, Attempt(u, m)
  PROVE  /\ fetch'.hops = 0
         /\ ~Exhausted => requests' = requests + 1
         /\ Exhausted  => requests' = requests /\ fetch'.pc = "answered"
                          /\ fetch'.asked = "GET"
BY NoFetchIs, EndsIs, CountedFields DEF Attempt

\* What the loop's steps leave can be counted.
LEMMA CountedKeeps == CrawlInv /\ Counted /\ [Next]_vars => Counted'
<1> SUFFICES ASSUME CrawlInv, Counted, [Next]_vars PROVE Counted'
  OBVIOUS
<1>1. MaxRedirects \in Nat /\ NoFetch.hops = 0
  BY GuardAssumption, CountedFields
<1>2. CASE Late \/ Begin \/ StopsCrawl \/ NoMoreLinks \/ SumUp \/ UNCHANGED vars
  BY <1>2 DEF Counted, Late, Begin, StopsCrawl, NoMoreLinks, SumUp, vars, guardVars, loop
<1>3. CASE NextPage
  <2>1. todo' = todo /\ fetch'.hops \in {0, fetch.hops}
    BY <1>3, AttemptCounts DEF NextPage
  <2> QED BY <1>1, <2>1 DEF Counted
<1>4. CASE AskAgain
  <2>1. todo' = todo /\ fetch'.hops = 0
    BY <1>4, AttemptCounts DEF AskAgain, loop
  <2> QED BY <1>1, <2>1 DEF Counted
<1>5. CASE TakePage
  <2>1. fetch' = NoFetch /\ todo' \in {todo, Site.links \cup Site.assets}
    BY <1>5 DEF TakePage, Account
  <2>2. IsFiniteSet(todo')
    <3>1. CASE todo' = todo
      BY <3>1 DEF Counted
    <3>2. CASE todo' # todo
      <4>1. todo' = Site.links \cup Site.assets /\ Result = "ok"
        BY <1>5, <2>1, <3>2 DEF TakePage
      <4>2. fetch.pc = "answered" /\ fetch.got = "ok"
        BY <1>5, <4>1 DEF TakePage, Answered, Result
      <4>3. fetch.at \in DOMAIN web.at /\ web \in Webs
        BY <4>2 DEF CrawlInv, FetchInv, Urls
      <4> QED BY <4>1, <4>3, GuardAssumption DEF Site
    <3> QED BY <3>1, <3>2
  <2> QED BY <1>1, <2>1, <2>2 DEF Counted
<1>6. CASE TakeLink
  <2>1. fetch' = NoFetch /\ todo' = todo
    BY <1>6 DEF TakeLink, Account, loop
  <2> QED BY <1>1, <2>1 DEF Counted
<1>7. CASE Fetching
  <2>1. todo' = todo /\ (Vet \/ Open)
    BY <1>7 DEF Fetching, loop
  <2> QED BY <2>1, GuardShrinks DEF Counted, CrawlInv
<1>8. ASSUME NEW l, SkipsScheme(l) \/ TooManyUrls(l) \/ LooksAt(l) PROVE Counted'
  <2>1. todo' = todo \ {l}
    BY <1>8 DEF SkipsScheme, TooManyUrls, LooksAt, PassesOver
  <2>2. IsFiniteSet(todo')
    BY <2>1, FS_RemoveElement DEF Counted
  <2>3. fetch' = fetch \/ Attempt(l, "HEAD")
    BY <1>8 DEF SkipsScheme, TooManyUrls, LooksAt
  <2>4. fetch'.hops \in {0, fetch.hops}
    BY <2>3, AttemptCounts
  <2> QED BY <1>1, <2>2, <2>4 DEF Counted
<1> QED BY <1>2, <1>3, <1>4, <1>5, <1>6, <1>7, <1>8 DEF Next, Crawling

\* A step that begins a request leaves fewer of them.
LEMMA RequestShrinks ==
  ASSUME CrawlInv, NEW u, NEW m, Attempt(u, m), ~Exhausted, lim' = lim
  PROVE  Less(Left', Left)
<1>1. lim.requests \in Nat /\ requests \in Nat /\ requests' = requests + 1
  BY LimIs, AttemptCounts DEF CrawlInv, BudgetInv
<1> QED BY <1>1 DEF Less, Left

\* A step that brings the loop nearer to its end, and makes no request.
LEMMA StageShrinks ==
  ASSUME CrawlInv, Stage' < Stage, UNCHANGED <<lim, requests>>
  PROVE  Less(Left', Left)
BY DEF Less, Left

\* A link that is done with is one link less.
LEMMA LinkShrinks ==
  ASSUME Counted, NEW l \in todo, todo' = todo \ {l}, UNCHANGED <<lim, requests, pc>>,
         pc = "links"
  PROVE  Less(Left', Left)
<1>1. Cardinality(todo \ {l}) = Cardinality(todo) - 1 /\ Cardinality(todo) \in Nat
  BY FS_RemoveElement, FS_CardinalityType DEF Counted
<1> QED BY <1>1 DEF Less, Left, Stage

\* Every step of the crawl takes something away.
LEMMA CrawlingShrinks ==
  ASSUME CrawlInv, Counted, Crawling PROVE late' = late /\ Less(Left', Left)
<1>1. CASE Begin \/ StopsCrawl \/ NoMoreLinks \/ SumUp
  <2>1. UNCHANGED <<lim, requests, late>> /\ Stage' < Stage
    BY <1>1 DEF Begin, StopsCrawl, NoMoreLinks, SumUp, budget, Stage
  <2> QED BY <2>1, StageShrinks
<1>2. CASE NextPage
  <2>1. queue # <<>> /\ queue \in Seq(Urls) /\ Head(queue) = queue[1] /\ Len(queue) > 0
    BY <1>2 DEF NextPage, MorePages, CrawlInv, QueueInv
  <2>2. Head(queue) \notin seen
    BY <2>1 DEF CrawlInv, QueueInv
  <2>3. Attempt(Head(queue), "GET") /\ ~Exhausted /\ UNCHANGED <<lim, late>>
    BY <1>2, <2>2 DEF NextPage
  <2> QED BY <2>3, RequestShrinks
<1>3. CASE AskAgain
  <2>1. Attempt(link, "GET") /\ UNCHANGED <<lim, late, pc>> /\ pc = "link" /\ Refused
    BY <1>3 DEF AskAgain
  <2>2. CASE Exhausted
    <3>1. requests' = requests /\ fetch'.pc = "answered" /\ fetch'.asked = "GET"
      BY <2>1, <2>2, AttemptCounts
    <3>2. ToFetch' = 0 /\ ToFetch = 1 /\ Stage' = Stage
      BY <2>1, <3>1 DEF ToFetch, Refused, Stage
    <3> QED BY <2>1, <3>1, <3>2 DEF Less, Left
  <2>3. CASE ~Exhausted
    BY <2>1, <2>3, RequestShrinks
  <2> QED BY <2>1, <2>2, <2>3
<1>4. CASE TakePage \/ TakeLink
  <2>1. UNCHANGED <<lim, requests, late>> /\ pc \in {"page", "link"}
        /\ pc' \in {"links", "sum", "crawl"}
    BY <1>4 DEF TakePage, TakeLink, Account
  <2> QED BY <2>1, StageShrinks DEF Stage
<1>5. CASE Fetching
  <2>1. (Vet \/ Open) /\ UNCHANGED <<lim, requests, late, pc>>
    BY <1>5 DEF Fetching, budget
  <2>2. pc \in {"page", "link"}
    BY <2>1 DEF Vet, Open, CrawlInv, LoopInv
  <2>3. ToFetch' < ToFetch
    BY <2>1, GuardShrinks DEF CrawlInv, Counted
  <2> QED BY <2>1, <2>2, <2>3 DEF Less, Left, Stage
<1>6. ASSUME NEW l \in todo, SkipsScheme(l) \/ TooManyUrls(l) \/ LooksAt(l)
      PROVE  late' = late /\ Less(Left', Left)
  <2>1. pc = "links" /\ todo' = todo \ {l} /\ UNCHANGED <<lim, late>>
    BY <1>6 DEF SkipsScheme, TooManyUrls, LooksAt, PassesOver
  <2>2. \/ UNCHANGED <<requests, pc>>
        \/ UNCHANGED requests /\ pc' = "sum"
        \/ Attempt(l, "HEAD") /\ ~Exhausted
    BY <1>6 DEF SkipsScheme, TooManyUrls, LooksAt
  <2>3. CASE UNCHANGED <<requests, pc>>
    BY <2>1, <2>3, LinkShrinks
  <2>4. CASE UNCHANGED requests /\ pc' = "sum"
    BY <2>1, <2>4, StageShrinks DEF Stage
  <2>5. CASE Attempt(l, "HEAD") /\ ~Exhausted
    BY <2>1, <2>5, RequestShrinks
  <2> QED BY <2>1, <2>2, <2>3, <2>4, <2>5
<1> QED BY <1>1, <1>2, <1>3, <1>4, <1>5, <1>6 DEF Crawling

\* Three natural numbers, of which every step but the clock's makes less, in
\* their order; the clock's happens once and leaves them alone.
EachStepCounts ==
  /\ [](Left \in Nat \X Nat \X Nat)
  /\ [][IF late' = late THEN Less(Left', Left) ELSE late' /\ Left' = Left]_vars

\* There is no endless crawl, whatever the sites answer: this is the safety half
\* of CrawlEnds, for every web and every limit.  The other half, that a crawl
\* which has not ended can take a step, is left to the model check.
THEOREM NoEndlessCrawl == Spec => EachStepCounts
<1>1. Init => CrawlInv /\ Counted
  <2> SUFFICES ASSUME Init PROVE Counted
    BY CrawlInvInit
  <2>1. fetch = NoFetch /\ todo = {}
    BY DEF Init, GuardInit
  <2> QED BY <2>1, FS_EmptySet, CountedFields, GuardAssumption DEF Counted
<1>2. CrawlInv /\ Counted /\ [Next]_vars => CrawlInv' /\ Counted'
  BY NextKeeps, CountedKeeps
<1>3. CrawlInv /\ Counted => Left \in Nat \X Nat \X Nat
  BY LeftIsNatural
<1>4. CrawlInv /\ Counted /\ [Next]_vars =>
        [IF late' = late THEN Less(Left', Left) ELSE late' /\ Left' = Left]_vars
  <2> SUFFICES ASSUME CrawlInv, Counted, Next
               PROVE  IF late' = late THEN Less(Left', Left) ELSE late' /\ Left' = Left
    OBVIOUS
  <2>1. CASE Late
    BY <2>1 DEF Late, Left, Stage, ToFetch, guardVars, loop
  <2>2. CASE Crawling
    BY <2>2, CrawlingShrinks
  <2> QED BY <2>1, <2>2 DEF Next
<1> QED BY <1>1, <1>2, <1>3, <1>4, PTL DEF Spec, EachStepCounts
==============================================================================
