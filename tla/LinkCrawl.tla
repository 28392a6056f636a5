------------------------------ MODULE LinkCrawl ------------------------------
(* main of check_links.py: the crawl of one host, page by page and link by     *)
(* link, under five budgets.  Every request is a guarded fetch of UrlGuard,    *)
(* whose steps are steps of their own: the clock can run out between any two.  *)
EXTENDS UrlGuard

CONSTANT Limits       \* what the command line may ask for

Limit == [pages : Nat \ {0}, urls : Nat \ {0}, requests : Nat \ {0},
          bytes : Nat \ {0},
          response : Nat \ {0},        \* MAX_BYTES, which is no option
          hops : Nat \ {0},            \* --max-redirect-hops
          failOnMixed : BOOLEAN]

ASSUME CrawlAssumption == /\ \A l \in Limits : l \in Limit
                          /\ \A w \in Webs : "start" \in DOMAIN w.at

VARIABLES lim,         \* the member of Limits the crawl was started with
          pc, queue, discovered, seen, checked,
          broken, mixed, chains,
          page, base, todo, link,  \* base: url the page's answer came from
          requests, bytes, late, reason,
          exitCode                  \* 9: main has not returned

found    == <<broken, mixed, chains>>
loop     == <<page, base, todo, link>>
budget   == <<requests, bytes, late, reason>>
crawled  == <<queue, discovered, seen, checked>>
vars     == <<guardVars, lim, pc, crawled, found, loop, budget, exitCode>>

Start == "start"
Host  == web.at[Start].host
Site  == web.at[fetch.at]

Init ==
  /\ GuardInit /\ lim \in Limits
  /\ pc = "start" /\ queue = <<Start>> /\ discovered = {Start}
  /\ seen = {} /\ checked = {} /\ broken = {} /\ mixed = {} /\ chains = {}
  /\ page = "none" /\ base = "none" /\ todo = {} /\ link = "none"
  /\ requests = 0 /\ bytes = 0 /\ late = FALSE /\ reason = FALSE
  /\ exitCode = 9

\* The deadline passes, once.
Late == /\ ~late /\ late' = TRUE /\ pc # "ended"
        /\ UNCHANGED <<guardVars, lim, pc, crawled, found, loop, requests, bytes, reason,
                       exitCode>>

\* _budget_exhausted.
Exhausted == late \/ requests >= lim.requests \/ bytes >= lim.bytes \/ reason

\* Mutant: a fetch may always read a whole response.
AttemptUncapped(u, m) ==
  /\ fetch' = IF Exhausted THEN Ends(NoFetch, "budget") ELSE Begun(u, m, lim.response)
  /\ requests' = IF Exhausted THEN requests ELSE requests + 1
  /\ reason' = (reason \/ Exhausted)
  /\ opened' = {}

\* request: refused by a budget, or begun with what is left of the bytes.
Attempt(u, m) ==
  /\ fetch' = IF Exhausted THEN Ends(NoFetch, "budget")
              ELSE Begun(u, m, Least(lim.response, lim.bytes - bytes))
  /\ requests' = IF Exhausted THEN requests ELSE requests + 1
  /\ reason' = (reason \/ Exhausted)
  /\ opened' = {}

Begin ==
  /\ pc = "start"
  /\ IF Vetted(Start) THEN pc' = "crawl" /\ UNCHANGED exitCode
     ELSE pc' = "ended" /\ exitCode' = 2
  /\ UNCHANGED <<guardVars, lim, crawled, found, loop, budget>>

------------------------------------------------------------------------------
(* The page loop.                                                            *)

MorePages == queue # <<>> /\ Cardinality(seen) < lim.pages

StopsCrawl ==
  /\ pc = "crawl" /\ (~MorePages \/ Exhausted) /\ pc' = "sum"
  /\ reason' = (reason \/ (MorePages /\ Exhausted))
  /\ UNCHANGED <<guardVars, lim, crawled, found, loop, requests, bytes, late, exitCode>>

NextPage ==
  /\ pc = "crawl" /\ MorePages /\ ~Exhausted
  /\ queue' = Tail(queue)
  /\ IF Head(queue) \in seen
     THEN UNCHANGED <<pc, seen, page, fetch, opened, requests, reason>>
     ELSE /\ seen' = seen \cup {Head(queue)} /\ page' = Head(queue) /\ pc' = "page"
          /\ Attempt(Head(queue), "GET")
  /\ UNCHANGED <<web, lim, discovered, checked, found, base, todo, link, bytes, late, exitCode>>

\* Some servers refuse HEAD: the request is made again, as a GET.
Refused == fetch.pc = "answered" /\ fetch.asked = "HEAD" /\ fetch.got = "refused"

AskAgain ==
  /\ pc = "link" /\ Refused
  /\ Attempt(link, "GET")
  /\ UNCHANGED <<web, lim, pc, crawled, found, loop, bytes, late, exitCode>>

\* An answer as request returns it: an error after the deadline is the budget's.
Result   == IF fetch.got = "err" /\ late THEN "budget" ELSE fetch.got
Answered == fetch.pc = "answered" /\ ~Refused
IsInt    == Result \in {"ok", "bad", "refused"}
StopsAll == fetch.truncated \/ Result = "budget"

\* What every answer does to the budget; the fetch is forgotten.
Account ==
  /\ bytes' = bytes + fetch.body
  /\ reason' = \/ reason \/ Result = "budget" \/ fetch.truncated
               \/ fetch.body > 0 /\ bytes' >= lim.bytes
  /\ fetch' = NoFetch
  /\ UNCHANGED <<web, lim, opened, requests, late, exitCode>>

\* "odd": the parser raises, and the page has no links.
TakePage ==
  /\ pc = "page" /\ Answered /\ Account
  /\ chains' = IF IsInt /\ fetch.hops > lim.hops THEN chains \cup {page} ELSE chains
  /\ broken' = IF ~StopsAll /\ Result # "ok" THEN broken \cup {page} ELSE broken
  /\ IF ~StopsAll /\ Result = "ok" /\ Site.kind = "html"
     THEN pc' = "links" /\ base' = fetch.at /\ todo' = Site.links \cup Site.assets
     ELSE /\ pc' = IF StopsAll THEN "sum" ELSE "crawl"
          /\ UNCHANGED <<base, todo>>
  /\ UNCHANGED <<crawled, mixed, page, link>>

------------------------------------------------------------------------------
(* The links of one page, in any order.                                      *)

NoMoreLinks ==
  /\ pc = "links" /\ todo = {}
  /\ pc' = IF reason THEN "sum" ELSE "crawl"
  /\ UNCHANGED <<guardVars, lim, crawled, found, loop, budget, exitCode>>

\* Same-host pages found in <a> go to the queue, in the same step.
Enqueue(l, s) ==
  queue' = IF /\ l \in web.at[base].links /\ web.at[l].host = Host
              /\ l \notin s /\ ~\E i \in DOMAIN queue : queue[i] = l
           THEN Append(queue, l) ELSE queue

NoteMixed(l) ==
  mixed' = IF web.at[base].scheme = "https" /\ web.at[l].scheme = "http"
           THEN mixed \cup {<<base, l>>} ELSE mixed

PassesOver(l) ==
  /\ pc = "links" /\ l \in todo /\ todo' = todo \ {l}
  /\ UNCHANGED <<web, lim, exitCode, page, base, seen, checked, broken, chains, bytes, late>>

SkipsScheme(l) ==
  /\ PassesOver(l) /\ web.at[l].scheme \notin {"http", "https"}
  /\ UNCHANGED <<fetch, opened, pc, queue, discovered, mixed, link, requests, reason>>

TooManyUrls(l) ==
  /\ PassesOver(l) /\ web.at[l].scheme \in {"http", "https"} /\ NoteMixed(l)
  /\ l \notin discovered /\ Cardinality(discovered) >= lim.urls
  /\ reason' = TRUE /\ pc' = "sum"
  /\ UNCHANGED <<fetch, opened, queue, discovered, link, requests>>

\* Mutant: what was discovered has been checked.
LooksAtNew(l) ==
  /\ PassesOver(l) /\ web.at[l].scheme \in {"http", "https"} /\ NoteMixed(l)
  /\ l \in discovered \/ Cardinality(discovered) < lim.urls
  /\ discovered' = discovered \cup {l}
  /\ CASE l \in discovered -> /\ Enqueue(l, seen)
                              /\ UNCHANGED <<fetch, opened, pc, link, requests, reason>>
       [] l \notin discovered /\ Exhausted ->
            /\ reason' = TRUE /\ pc' = "sum"
            /\ UNCHANGED <<fetch, opened, queue, link, requests>>
       [] OTHER -> /\ link' = l /\ pc' = "link" /\ Attempt(l, "HEAD") /\ UNCHANGED queue

\* A link that was checked goes to the queue; another is asked for, unless a
\* budget is gone (also while the crawler sleeps).
LooksAt(l) ==
  /\ PassesOver(l) /\ web.at[l].scheme \in {"http", "https"} /\ NoteMixed(l)
  /\ l \in discovered \/ Cardinality(discovered) < lim.urls
  /\ discovered' = discovered \cup {l}
  /\ CASE l \in checked -> /\ Enqueue(l, seen)
                           /\ UNCHANGED <<fetch, opened, pc, link, requests, reason>>
       [] l \notin checked /\ Exhausted ->
            /\ reason' = TRUE /\ pc' = "sum"
            /\ UNCHANGED <<fetch, opened, queue, link, requests>>
       [] OTHER -> /\ link' = l /\ pc' = "link" /\ Attempt(l, "HEAD") /\ UNCHANGED queue

TakeLink ==
  /\ pc = "link" /\ Answered /\ Account
  /\ IF StopsAll
     THEN pc' = "sum" /\ UNCHANGED <<checked, broken, chains, queue>>
     ELSE /\ pc' = "links" /\ checked' = checked \cup {link}
          /\ broken' = IF Result # "ok" THEN broken \cup {link} ELSE broken
          /\ chains' = IF Result = "ok" /\ fetch.hops > lim.hops
                       THEN chains \cup {link} ELSE chains
          /\ Enqueue(link, seen)
  /\ UNCHANGED <<discovered, seen, mixed, loop>>

------------------------------------------------------------------------------
Failed     == broken # {} \/ chains # {} \/ (lim.failOnMixed /\ mixed # {})
Unverified == reason \/ (Cardinality(seen) >= lim.pages /\ queue # <<>>)

SumUp ==
  /\ pc = "sum" /\ pc' = "ended"
  /\ exitCode' = CASE Failed -> 1 [] ~Failed /\ Unverified -> 3 [] OTHER -> 0
  /\ UNCHANGED <<guardVars, lim, crawled, found, loop, budget>>

Fetching == (Vet \/ Open) /\ UNCHANGED <<lim, pc, crawled, found, loop, budget, exitCode>>

Crawling == \/ Begin \/ StopsCrawl \/ NextPage \/ AskAgain \/ TakePage \/ NoMoreLinks
            \/ TakeLink \/ SumUp \/ Fetching
            \/ \E l \in todo : SkipsScheme(l) \/ TooManyUrls(l) \/ LooksAt(l)

Next == Crawling \/ Late

\* The one thread runs.
Spec == Init /\ [][Next]_vars /\ WF_vars(Crawling)

------------------------------------------------------------------------------
(* Properties.                                                               *)

\* Types; a queued page was admitted and not yet crawled, and the crawler waits
\* only for a fetch that was begun.
TypeOK ==
  /\ pc \in {"start", "crawl", "page", "links", "link", "sum", "ended"}
  /\ fetch.pc \in {"idle", "vet", "open", "answered"}
  /\ fetch.got \in {"none", "ok", "bad", "refused", "blocked", "err", "budget"}
  /\ discovered \subseteq Urls /\ seen \subseteq Urls /\ checked \subseteq Urls
  /\ broken \subseteq Urls /\ chains \subseteq Urls /\ todo \subseteq Urls
  /\ \A i \in DOMAIN queue : queue[i] \in discovered \ seen
  /\ requests \in Nat /\ bytes \in Nat /\ exitCode \in {0, 1, 2, 3, 9}
  /\ fetch.pc = "idle" => pc \notin {"page", "link"}

\* No request leaves by the guard's side, at any hop, with any DNS answer.
OnlyThroughTheGuard == NothingForbidden

\* The budgets of the command line hold at every moment, a fetch under way and
\* its fallback from HEAD to GET included.
WithinBudgets ==
  /\ requests <= lim.requests /\ bytes <= lim.bytes
  /\ Cardinality(discovered) <= lim.urls /\ Cardinality(seen) <= lim.pages

\* Answers as the sites give them, wherever there is no redirect.
Sound(u) == web.at[u].to = "none" => web.at[u].status = "ok"

\* Exit code 0 is only for a crawl without a gap: the start page was crawled;
\* every link and asset of a crawled page was checked and answers; every page of
\* the host that is linked from one was crawled too.  Pages the parser cannot
\* read are not counted.
CleanMeansCovered ==
  exitCode = 0 =>
    /\ Start \in seen
    /\ \A p \in seen :
         Sound(p) /\
         ((web.at[p].to = "none" /\ web.at[p].kind = "html") =>
            \A l \in web.at[p].links \cup web.at[p].assets :
              web.at[l].scheme \in {"http", "https"} =>
                /\ l \in checked /\ Sound(l) /\ ~Forbidden(l)
                /\ (l \in web.at[p].links /\ web.at[l].host = Host) => l \in seen)

\* The crawl ends, whatever the redirects, the pages and the network do.
CrawlEnds == <>(pc = "ended")
==============================================================================
