----------------------------- MODULE MCLinkCrawl -----------------------------
(* Small webs for LinkCrawl: pages that link to one another, a redirect loop,  *)
(* redirects into a private network, servers that refuse HEAD, a broken link,  *)
(* mixed content, a large page, an unreadable one, and the test variables.     *)
EXTENDS LinkCrawl

Site0 == [scheme |-> "https", host |-> "a", internalName |-> FALSE,
          addrs |-> {"global"}, status |-> "ok", to |-> "none", see |-> FALSE,
          kind |-> "html", size |-> 1, noHead |-> FALSE, links |-> {}, assets |-> {}]
Page(ls, as) == [Site0 EXCEPT !.links = ls, !.assets = as]
File         == [Site0 EXCEPT !.kind = "other"]
To(u)        == [Site0 EXCEPT !.to = u]
NoEnv        == [mode |-> "unset", extra |-> {}]
Web(e, f)    == [env |-> e, at |-> f]

Loopback == [Site0 EXCEPT !.host = "l", !.addrs = {"loopback"}]

MCWebs ==
  { \* pages in a cycle, an asset, a server without HEAD
    Web(NoEnv, [start |-> Page({"p", "start"}, {"i"}), p |-> Page({"start", "q"}, {}),
                q |-> [Site0 EXCEPT !.noHead = TRUE], i |-> File]),
    \* a redirect loop, and one that ends in a private address
    Web(NoEnv, [start |-> Page({"r", "x"}, {}), r |-> To("s"), s |-> To("r"),
                x |-> To("y"), y |-> [Site0 EXCEPT !.addrs = {"global", "private"}]]),
    \* a broken link on a second page, a link that is no web address
    Web(NoEnv, [start |-> Page({"p", "m"}, {}), p |-> Page({"b"}, {}),
                b |-> [Site0 EXCEPT !.status = "refused"],
                m |-> [Site0 EXCEPT !.scheme = "mailto"]]),
    \* large: cut at MaxResponse; its links are beyond the cut or not read at all
    Web(NoEnv, [start |-> Page({"p"}, {}), p |-> [Page({"b"}, {}) EXCEPT !.size = 3],
                b |-> [Site0 EXCEPT !.status = "bad"]]),
    \* mixed content, a 303, an internal name, a chain of redirects, odd markup
    Web(NoEnv, [start |-> Page({"c"}, {"h", "n"}), h |-> [File EXCEPT !.scheme = "http"],
                n |-> [File EXCEPT !.internalName = TRUE],
                c |-> [To("d") EXCEPT !.see = TRUE], d |-> To("e"),
                e |-> [Site0 EXCEPT !.kind = "odd"]]),
    Web(NoEnv, [start |-> Page({"c"}, {}), c |-> To("d"), d |-> [File EXCEPT !.host = "b"]]),
    \* the loopback fixtures, with one of the two variables and with both
    Web([mode |-> "unset", extra |-> {"loopback"}],
        [start |-> Page({}, {"f"}), f |-> Loopback]),
    Web([mode |-> "1", extra |-> {"loopback"}],
        [start |-> Page({}, {"f"}), f |-> Loopback]),
    Web(NoEnv, [start |-> Loopback]) }

Roomy == [pages |-> 5, urls |-> 9, requests |-> 9, bytes |-> 9, response |-> 2,
          hops |-> 1, failOnMixed |-> FALSE]

\* One limit after another down to 1, and those that only some webs reach.
MCLimits ==
  {Roomy, [Roomy EXCEPT !.failOnMixed = TRUE, !.hops = 2]}
    \cup {[Roomy EXCEPT !.pages = n] : n \in 1..3}
    \cup {[Roomy EXCEPT !.urls = n] : n \in 1..4}
    \cup {[Roomy EXCEPT !.requests = n] : n \in 1..7}
    \cup {[Roomy EXCEPT !.bytes = n] : n \in 1..5}
    \cup {[Roomy EXCEPT !.response = 1], [Roomy EXCEPT !.bytes = 2, !.urls = 3]}
==============================================================================
