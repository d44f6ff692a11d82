------------------------------ MODULE WebFetch ------------------------------
(***************************************************************************)
(* The network tools: which addresses a fetch may reach, hop by hop; the   *)
(* one retry of the provider's search and fetch service; and the pages     *)
(* kept so that a continuation pages through the text it began with.       *)
(* (web_tools.rs, web_tools/ssrf.rs)                                       *)
(***************************************************************************)
EXTENDS Naturals, Sequences, FiniteSets, SequencesExt

CONSTANTS
    Call,               \* calls of fetch_url that may run at once
    Page,               \* the pages, each behind a name that is looked up
    CachedPages,        \* CACHED_PAGES
    MaxRedirects,       \* MAX_REDIRECTS
    ChunkChars,         \* what one result has room for
    PageChars,          \* how long each edition of a page is
    MaxFetch            \* bound: calls of the network tools

ASSUME WebFetchAssumption ==
    CachedPages \in Nat \ {0} /\ MaxRedirects \in Nat /\ ChunkChars \in Nat \ {0}

VARIABLES
    api,                \* the provider's service is configured
    online,             \* the edition of each page that the web serves now
    fetch,              \* the calls under way
    cache,              \* FetchCache::pages, least recently used first
    used,               \* history: the pages put or got, in order
    put,                \* history: the edition each page was last put with
    reached,            \* history: the addresses this machine connected to
    named,              \* history: the offset the last result of a page named
    asked               \* calls made

webVars == <<api, online, fetch, cache, used, put, reached, named, asked>>

(***************************************************************************)
(* Addresses, by what decides: the range an address is in, and the IPv4    *)
(* address an IPv6 one may embed.                                          *)
(***************************************************************************)

Local4 == {"loopback", "private", "link_local", "unspecified", "broadcast", "documentation",
           "multicast", "cgnat", "this_network"}

Local6 == {"loopback", "unspecified", "multicast", "unique_local", "link_local",
           "documentation", "teredo", "discard", "nat64_local", "site_local"}

ipv4_is_public(range) == range \notin Local4

ipv6_is_public(ip) ==
    IF ip.embeds # "none" THEN ipv4_is_public(ip.embeds) ELSE ip.range \notin Local6

ip_is_public(ip) == IF ip.v6 THEN ipv6_is_public(ip) ELSE ipv4_is_public(ip.range)

(* What a look-up of a name may answer, each time it is asked. *)
V4(range) == [v6 |-> FALSE, range |-> range, embeds |-> "none"]
Nat64(range) == [v6 |-> TRUE, range |-> "public", embeds |-> range]
Teredo == [v6 |-> TRUE, range |-> "teredo", embeds |-> "none"]
Answers == {<<>>, <<V4("public")>>, <<V4("public"), V4("private")>>, <<Nat64("private")>>, <<Teredo>>}

(* A URL names a page through a host, or an address, or another scheme. *)
NamedUrl(p) == [scheme |-> "http", page |-> p, literal |-> FALSE, ip |-> V4("public")]
LiteralUrl(p, ip) == [scheme |-> "http", page |-> p, literal |-> TRUE, ip |-> ip]
FileUrl(p) == [scheme |-> "file", page |-> p, literal |-> FALSE, ip |-> V4("public")]

Elsewhere(p) == {NamedUrl(p), LiteralUrl(p, V4("public")), LiteralUrl(p, V4("private")), FileUrl(p)}

check_syntax(url) == url.scheme = "http" /\ (url.literal => ip_is_public(url.ip))

AllPublic(answer) == \A i \in DOMAIN answer : ip_is_public(answer[i])

(* For a request this machine sends: every answer must be public. *)
check_url(url, answer) ==
    check_syntax(url) /\ (url.literal \/ (answer # <<>> /\ AllPublic(answer)))

(* For a request the provider sends: an unknown name is the provider's. *)
check_api_url(url, answer) == check_syntax(url) /\ (url.literal \/ AllPublic(answer))

MutConnects(url, pin) == IF url.literal THEN {url.ip} ELSE {a[1] : a \in Answers \ {<<>>}}

(* Where a request goes: to the address checked, not to a second look-up's. *)
Connects(url, pin) == IF url.literal THEN {url.ip} ELSE {pin[1]}

(***************************************************************************)
(* The cache.                                                              *)
(***************************************************************************)

Without(pages, p) == SelectSeq(pages, LAMBDA q : q.page # p)

Holds(pages, p) == \E i \in DOMAIN pages : pages[i].page = p

PageOf(pages, p) == pages[CHOOSE i \in DOMAIN pages :
                            pages[i].page = p /\ \A j \in 1..(i - 1) : pages[j].page # p]

MutGot(pages, p) == pages

Got(pages, p) == Append(Without(pages, p), PageOf(pages, p))

MutCachePut(pages, page) ==
    LET all == Append(pages, page)
    IN SubSeq(all, IF Len(all) > CachedPages THEN 2 ELSE 1, Len(all))

CachePut(pages, page) ==
    LET all == Append(Without(pages, page.page), page)
    IN SubSeq(all, IF Len(all) > CachedPages THEN 2 ELSE 1, Len(all))

(***************************************************************************)
(* fetch_url.                                                              *)
(***************************************************************************)

Editions == DOMAIN PageChars

NoFetch == [pc |-> "idle", url |-> NamedUrl(CHOOSE p \in Page : TRUE), offset |-> 0, hops |-> 0,
         edition |-> 0]

WebOn(backend) ==
    /\ api = backend
    /\ online = [p \in Page |-> 1]
    /\ fetch = [c \in Call |-> NoFetch]
    /\ cache = <<>> /\ used = <<>>
    /\ put = [p \in Page |-> 0]
    /\ named = [p \in Page |-> 0]
    /\ reached = {}
    /\ asked = 0

WebInit == \E backend \in BOOLEAN : WebOn(backend)

Fetches(c, f) == fetch' = [fetch EXCEPT ![c] = f]

(* From the offset as much as there is room for, and the offset to go on  *)
(* from. Past the end of this edition there is nothing.                    *)
render_fetched(offset, edition) ==
    LET total == PageChars[edition]
    IN IF offset + ChunkChars < total THEN offset + ChunkChars ELSE 0

Rendered(p, offset, edition) == named' = [named EXCEPT ![p] = render_fetched(offset, edition)]

(* The guard, then the cache if this call continues, else the network. *)
fetch_sync(c, p) ==
    LET url == NamedUrl(p) IN
    /\ fetch[c].pc = "idle" /\ asked < MaxFetch
    /\ asked' = asked + 1
    /\ \E answer \in Answers, offset \in {0, named[p]} :
          /\ IF api THEN check_api_url(url, answer) ELSE check_url(url, answer)
          /\ IF offset > 0 /\ Holds(cache, p)
             THEN /\ cache' = Got(cache, p)
                  /\ used' = Append(used, p)
                  /\ Rendered(p, offset, PageOf(cache, p).edition)
                  /\ UNCHANGED fetch
             ELSE /\ Fetches(c, [NoFetch EXCEPT !.url = url, !.offset = offset,
                                          !.pc = IF api THEN "post" ELSE "hop"])
                  /\ UNCHANGED <<cache, used, named>>
    /\ UNCHANGED <<api, online, put, reached>>

(* web_search goes through the same post, and there is none without it. *)
search_sync(c) ==
    /\ fetch[c].pc = "idle" /\ asked < MaxFetch /\ api
    /\ asked' = asked + 1
    /\ Fetches(c, [NoFetch EXCEPT !.pc = "search"])
    /\ UNCHANGED <<api, online, cache, used, put, reached, named>>

(* A hop of pinned_get: look the host up, check, connect to what was checked. *)
pinned_get(c) ==
    LET f == fetch[c] IN
    /\ f.pc = "hop"
    /\ \E answer \in Answers :
          \/ /\ ~check_url(f.url, answer)
             /\ Fetches(c, NoFetch)
             /\ UNCHANGED reached
          \/ /\ check_url(f.url, answer)
             /\ \E to \in Connects(f.url, answer) : reached' = reached \cup {to}
             /\ \/ Fetches(c, NoFetch)                              \* no answer, or a bad status
                \/ Fetches(c, [f EXCEPT !.pc = "read", !.edition = online[f.url.page]])
                \/ /\ f.hops < MaxRedirects
                   /\ \E next \in Elsewhere(f.url.page) :
                         Fetches(c, [f EXCEPT !.hops = @ + 1, !.url = next])
    /\ UNCHANGED <<api, online, cache, used, put, named, asked>>

(* A transient failure is tried once more; what comes then is final. *)
api_post(c) ==
    LET f == fetch[c] IN
    /\ f.pc \in {"post", "search"}
    /\ \/ f.pc = "post" /\ Fetches(c, [f EXCEPT !.pc = "read", !.edition = online[f.url.page]])
       \/ f.hops = 0 /\ Fetches(c, [f EXCEPT !.hops = 1])
       \/ Fetches(c, NoFetch)
    /\ UNCHANGED <<api, online, cache, used, put, reached, named, asked>>

(* The page is kept under the URL that was asked for, and rendered. *)
fetch_page(c) ==
    LET f == fetch[c]
        p == f.url.page
    IN /\ f.pc = "read"
       /\ cache' = CachePut(cache, [page |-> p, edition |-> f.edition])
       /\ used' = Append(used, p)
       /\ put' = [put EXCEPT ![p] = f.edition]
       /\ Rendered(p, f.offset, f.edition)
       /\ Fetches(c, NoFetch)
       /\ UNCHANGED <<api, online, reached, asked>>

(* A page changes while it is being read. *)
Republish(p) ==
    /\ online[p] + 1 \in Editions
    /\ online' = [online EXCEPT ![p] = @ + 1]
    /\ UNCHANGED <<api, fetch, cache, used, put, reached, named, asked>>

WebNext ==
    \/ \E c \in Call, p \in Page : fetch_sync(c, p)
    \/ \E c \in Call : search_sync(c)
    \/ \E c \in Call : pinned_get(c)
    \/ \E c \in Call : api_post(c)
    \/ \E c \in Call : fetch_page(c)
    \/ \E p \in Page : Republish(p)

(***************************************************************************)
(* Properties.                                                             *)
(***************************************************************************)

(* The pages used last, newest first. *)
Recent ==
    LET Later(p) == {used[j] : j \in {k \in DOMAIN used :
                        \E i \in DOMAIN used : used[i] = p /\ i < k /\
                            \A m \in (i + 1)..Len(used) : used[m] # p}} \ {p}
    IN {p \in Range(used) : Cardinality(Later(p)) < CachedPages}

(* A continuation finds the page as it was last read, unless that many     *)
(* other pages have been read since: however calls interleave, the cache   *)
(* holds the pages used last, once each, as last fetched. (FetchCache)     *)
PagesAreKept ==
    /\ Range(cache) = {[page |-> p, edition |-> put[p]] : p \in Recent}
    /\ Len(cache) = Cardinality(Recent)

(* Whatever names resolve to from one moment to the next, and wherever a   *)
(* server redirects, this machine connects to public addresses only.       *)
(* (pinned_get)                                                            *)
OnlyPublicReached == \A ip \in reached : ip_is_public(ip) /\ ~api
=============================================================================
