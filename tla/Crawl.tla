------------------------------- MODULE Crawl ---------------------------------
(***************************************************************************)
(* The scan of a web site: breadth first from the seeds, up to a depth, in *)
(* portions of page_size pages, each of which is a call.  Between two      *)
(* calls the caller keeps the cursor, which holds the queue and the pages  *)
(* visited.  Meanwhile, and during a call, pages of the site begin or      *)
(* cease to answer.  The lists of what was skipped or failed are left out. *)
(***************************************************************************)
EXTENDS Naturals, Sequences, FiniteSets

CONSTANTS
  Url,       \* the pages of the site
  Sites,     \* what the site may look like: the links of each page
  Seeds,     \* lists of seeds a scan is configured with
  Depths,    \* values of max_depth
  Portions,  \* values of page_size
  MaxChanges

ASSUME CrawlAssumption ==
  /\ Sites \subseteq [Url -> {pages \in SUBSET Url : IsFiniteSet(pages)}]
  /\ Seeds \subseteq Seq(Url)
  /\ Depths \cup Portions \subseteq Nat \ {0}
  /\ MaxChanges \in Nat

VARIABLES
  site,     \* links, and what a page answers
  scan,     \* seeds, max_depth and page_size
  cursor,   \* what the caller will go on from
  call,     \* what a call has in memory: the queue, what it has visited and fetched
  harvest,  \* the pages of the portions so far, in order
  changed   \* the pages whose answer has changed during the scan

crawlVars == <<site, scan, cursor, call, harvest, changed>>

\* A page may also be excluded by a pattern, blocked, or be of another type.
Answers == {"html", "text", "none"}
FromSeeds(seeds) ==
  [queue |-> [n \in DOMAIN seeds |-> <<seeds[n], 1>>], visited |-> {}, more |-> TRUE]
NoCall == [on |-> FALSE, queue |-> << >>, visited |-> {}, fetched |-> << >>]

CrawlInit ==
  /\ site \in [links : Sites, answer : [Url -> Answers]]
  /\ scan \in [seeds : Seeds, depth : Depths, portion : Portions]
  /\ cursor = FromSeeds(scan.seeds)
  /\ call = NoCall
  /\ harvest = << >>
  /\ changed = {}

-----------------------------------------------------------------------------
(* A call of scan_web_pages.                                               *)

\* A slip: the last of the queue is the next to visit.
PoppedLast(queue) ==
  [head |-> queue[Len(queue)], rest |-> SubSeq(queue, 1, Len(queue) - 1)]
Popped(queue) == [head |-> Head(queue), rest |-> Tail(queue)]

\* The links of a page, but for those that have been visited.
Found(url, depth, visited) ==
  IF site.answer[url] = "html" /\ depth < scan.depth THEN site.links[url] \ visited ELSE {}

\* They are on the page once each, in some order.
InOrder(pages) ==
  {list \in [1..Cardinality(pages) -> pages] : \A u \in pages : \E n \in DOMAIN list : list[n] = u}

Behind(queue, list, depth) == queue \o [n \in DOMAIN list |-> <<list[n], depth>>]

\* The call goes on from the cursor.
CallScan ==
  /\ cursor.more /\ ~ call.on
  /\ call' = [on |-> TRUE, queue |-> cursor.queue, visited |-> cursor.visited, fetched |-> << >>]
  /\ UNCHANGED <<site, scan, cursor, harvest, changed>>

InLoop == call.on /\ call.queue # << >> /\ Len(call.fetched) < scan.portion

\* A page is visited when it leaves the queue, so it may be in it twice.
PassOver ==
  LET next == Popped(call.queue)
      url == next.head[1]
  IN  /\ InLoop
      /\ url \in call.visited \/ site.answer[url] = "none"
      /\ call' = [call EXCEPT !.queue = next.rest, !.visited = @ \cup {url}]
      /\ UNCHANGED <<site, scan, cursor, harvest, changed>>

FetchPage ==
  LET next == Popped(call.queue)
      url == next.head[1]
      depth == next.head[2]
      seen == call.visited \cup {url}
  IN  /\ InLoop
      /\ url \notin call.visited /\ site.answer[url] # "none"
      /\ \E list \in InOrder(Found(url, depth, seen)) :
           call' = [on |-> TRUE, visited |-> seen, fetched |-> Append(call.fetched, url),
                    queue |-> Behind(next.rest, list, depth + 1)]
      /\ UNCHANGED <<site, scan, cursor, harvest, changed>>

\* A portion, and the next cursor, if there is one.
Return ==
  /\ call.on /\ ~ InLoop
  /\ cursor' = [queue |-> call.queue, visited |-> call.visited, more |-> call.queue # << >>]
  /\ harvest' = harvest \o call.fetched
  /\ call' = NoCall
  /\ UNCHANGED <<site, scan, changed>>

-----------------------------------------------------------------------------
(* The caller, and the site.                                               *)

\* The answer does not arrive, and the caller still has the old cursor.
LoseCall ==
  /\ call.on
  /\ call' = NoCall
  /\ UNCHANGED <<site, scan, cursor, harvest, changed>>

ChangePage(url) ==
  /\ cursor.more /\ Cardinality(changed) < MaxChanges
  /\ site' = [site EXCEPT !.answer[url] = IF @ = "none" THEN "html" ELSE "none"]
  /\ changed' = changed \cup {url}
  /\ UNCHANGED <<scan, cursor, call, harvest>>

CrawlNext ==
  \/ CallScan \/ PassOver \/ FetchPage \/ Return \/ LoseCall
  \/ \E url \in Url : ChangePage(url)

CrawlSpec == CrawlInit /\ [][CrawlNext]_crawlVars

-----------------------------------------------------------------------------
(* What must hold.                                                         *)

\* The pages at the end of a path of so many pages from a seed, each linked from
\* the one before it, which is in `along'.
Near(web, n, along) ==
  {p[n] : p \in {q \in [1..n -> Url] :
                   /\ \E i \in DOMAIN web.seeds : q[1] = web.seeds[i]
                   /\ \A i \in 1..n - 1 : q[i] \in along /\ q[i + 1] \in web.links[q[i]]}}

Web == [links |-> site.links, seeds |-> scan.seeds]
Reached(along) == UNION {Near(Web, n, along) : n \in 1..scan.depth}

Brought == {harvest[n] : n \in DOMAIN harvest}

\* What has answered in one of these ways throughout.
Steady(answers) == {u \in Url \ changed : site.answer[u] \in answers}

\* However a scan is cut into portions, it brings no page twice and none that
\* is further from the seeds than max_depth, and when it is over it has brought
\* every page that was served throughout and can be reached along such pages.
\* (plugins/sources/web/scanner.py scan_web_pages)
CrawlReaches ==
  /\ Len(harvest) = Cardinality(Brought)
  /\ Brought \subseteq Reached(Steady({"html"}) \cup changed)
  /\ ~ cursor.more => Reached(Steady({"html"})) \cap Steady({"html", "text"}) \subseteq Brought
=============================================================================
