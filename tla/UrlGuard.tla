------------------------------- MODULE UrlGuard -------------------------------
(* safe_get and check_url of url_guard.py: one guarded fetch, which vets every *)
(* hop of a redirect chain before it opens it.  The network is a fixed set of  *)
(* sites; a connection to any of them may fail.                                *)
EXTENDS Integers, Sequences, FiniteSets

CONSTANTS AllowHttp, MaxRedirects, Webs

ASSUME GuardAssumption ==
  /\ AllowHttp \in BOOLEAN /\ MaxRedirects \in Nat
  /\ \A w \in Webs : \A u \in DOMAIN w.at :
       /\ w.at[u].size \in Nat /\ w.at[u].to \in DOMAIN w.at \cup {"none"}
       /\ w.at[u].links \cup w.at[u].assets \subseteq DOMAIN w.at
       /\ IsFiniteSet(w.at[u].links \cup w.at[u].assets)
       /\ w.at[u].status \in {"ok", "bad", "refused"}

VARIABLES web,         \* [env, at]: at is url -> site, fixed
          fetch,       \* the fetch under way, and its answer
          opened       \* the urls this fetch has contacted

guardVars == <<web, fetch, opened>>

Urls == DOMAIN web.at
Least(x, y) == IF x < y THEN x ELSE y

\* method: as redirected; asked: as the caller named it; got: the status class.
NoFetch == [pc |-> "idle", url |-> "none", at |-> "none", hops |-> 0, cap |-> 0,
            method |-> "GET", asked |-> "GET", got |-> "none", body |-> 0,
            truncated |-> FALSE]

GuardInit == web \in Webs /\ fetch = NoFetch /\ opened = {}

\* _env_test_loopbacks: both variables, and loopback addresses only.
Admitted == IF web.env.mode = "1" THEN web.env.extra \cap {"loopback"} ELSE {}

\* check_url.  addrs: the kinds of address in the DNS answer, {} when there is
\* none; all of them must pass.
Vetted(u) ==
  LET s == web.at[u]
  IN /\ s.scheme = "https" \/ (s.scheme = "http" /\ AllowHttp)
     /\ ~s.internalName
     /\ s.addrs # {} /\ s.addrs \subseteq ({"global"} \cup Admitted)

Begun(u, m, cap) == [NoFetch EXCEPT !.pc = "vet", !.url = u, !.at = u, !.cap = cap,
                                    !.method = m, !.asked = m]

\* What the caller makes of a fetch that was never begun, or was refused.
Ends(f, what) == [f EXCEPT !.pc = "answered", !.got = what]

Vet ==
  /\ fetch.pc = "vet"
  /\ fetch' = IF Vetted(fetch.at) THEN [fetch EXCEPT !.pc = "open"]
              ELSE Ends(fetch, "blocked")
  /\ UNCHANGED <<web, opened>>

Redirects(s) == s.to # "none"

\* Mutant: the next hop is opened as it stands.
HopUnvetted(s) ==
  IF fetch.hops + 1 > MaxRedirects THEN Ends(fetch, "blocked")
  ELSE [fetch EXCEPT !.hops = @ + 1, !.at = s.to,
                     !.method = IF s.see THEN "GET" ELSE @]

\* Mutant: the hops are not counted against a limit.
HopForEver(s) ==
  [fetch EXCEPT !.pc = "vet", !.at = s.to, !.method = IF s.see THEN "GET" ELSE @]

\* The next hop starts at the check again; 303 makes any method a GET.
Hop(s) ==
  IF fetch.hops + 1 > MaxRedirects THEN Ends(fetch, "blocked")
  ELSE [fetch EXCEPT !.pc = "vet", !.hops = @ + 1, !.at = s.to,
                     !.method = IF s.see THEN "GET" ELSE @]

\* _read_capped: at most the cap, and whether there was more.
Answer(s) ==
  IF fetch.method = "HEAD"
  THEN Ends(fetch, IF s.noHead THEN "refused" ELSE s.status)
  ELSE [Ends(fetch, s.status) EXCEPT !.body = Least(s.size, fetch.cap),
                                     !.truncated = s.size > fetch.cap]

Open ==
  /\ fetch.pc = "open"
  /\ opened' = opened \cup {fetch.at}
  /\ LET s == web.at[fetch.at]
     IN fetch' \in {Ends(fetch, "err"), IF Redirects(s) THEN Hop(s) ELSE Answer(s)}
  /\ UNCHANGED web

\* An address that is neither global nor a fixture's, by what it is and not by
\* what check_url makes of it.
Forbidden(u) ==
  \/ web.at[u].internalName \/ web.at[u].scheme \notin {"http", "https"}
  \/ \E a \in web.at[u].addrs :
       a # "global" /\ ~(a = "loopback" /\ web.env.mode = "1" /\ a \in web.env.extra)

\* No url that must not be contacted ever is, at whatever hop it is met.
NothingForbidden == \A u \in opened : ~Forbidden(u)
==============================================================================
