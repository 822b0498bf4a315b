----------------------------- MODULE CrawlEngine -----------------------------
(***************************************************************************)
(* CrawlEngine.run() (pwnproxy/services/crawler/engine.py) as run_crawl()   *)
(* consumes it (strategies/active.py), over a site given by its links.      *)
(* The fetches of a batch overlap; their pages are taken in the order in    *)
(* which they arrive.                                                      *)
(***************************************************************************)
EXTENDS Naturals, Sequences, SequencesExt, FiniteSets

CONSTANTS
  Urls,
  PathOf,        \* [Urls -> path]: _path_key()
  Links,         \* [Urls -> Seq(Urls)]: what is extracted from a page
  InScope,       \* the URLs of the scope
  Disallowed,    \* those robots.txt disallows
  Seeds,         \* Seq(Urls): as they were given, a URL may be there twice
  Depth,         \* config.depth
  MaxUrls,       \* config.max_urls
  Concurrencies  \* the values of config.concurrency

ASSUME CrawlAssumption ==
  /\ Depth \in Nat /\ MaxUrls \in Nat \ {0} /\ Concurrencies \subseteq Nat \ {0}
  /\ Links \in [Urls -> Seq(Urls)] /\ Seeds \in Seq(Urls)
  /\ InScope \subseteq Urls /\ Disallowed \subseteq Urls

VARIABLES
  concurrency,  \* config.concurrency
  allowed,      \* the URLs in scope and, if robots.txt is respected and was read, not disallowed
  depthOf,      \* the depth of each URL that was queued; its domain is _visited
  queue,        \* _queue
  fetching,     \* the tasks of the batch that are under way: the URL each fetches
  arrived,      \* the pages that arrived and wait to be yielded
  fetched,      \* history: the pages fetched, in order
  cancelled,    \* _cancel
  crawl         \* "running", "ended", or "stopped": run_crawl() was cancelled

crawlVars == <<concurrency, allowed, depthOf, queue, fetching, arrived, fetched, cancelled, crawl>>

SeedUrls == ToSet(Seeds)

(* What the crawl may follow: the scope, less what robots.txt disallows if  *)
(* it is respected and could be fetched (any failure counts as no file).   *)
AllowedSets == {InScope, InScope \ Disallowed}

CrawlInit ==
  /\ concurrency \in Concurrencies
  /\ allowed \in AllowedSets
  /\ depthOf = [u \in SeedUrls |-> 0] /\ queue = Seeds
  /\ fetching = <<>> /\ arrived = <<>> /\ fetched = <<>>
  /\ cancelled = FALSE /\ crawl = "running"

-----------------------------------------------------------------------------
MayGoOn == ~cancelled /\ Len(fetched) < MaxUrls
BatchIsOver == crawl = "running" /\ fetching = <<>> /\ arrived = <<>>

(* Mutant: the batch is all that is queued. *)
TakeWholeQueue ==
  /\ BatchIsOver /\ MayGoOn /\ queue # <<>>
  /\ fetching' = queue /\ queue' = <<>>
  /\ UNCHANGED <<concurrency, allowed, depthOf, arrived, fetched, cancelled, crawl>>

(* The next batch.  The bound on the pages fetched is tested when its tasks *)
(* start, before any of them has fetched a page.                           *)
TakeBatch ==
  /\ BatchIsOver /\ MayGoOn /\ queue # <<>>
  /\ LET size == IF Len(queue) < concurrency THEN Len(queue) ELSE concurrency
     IN /\ fetching' = SubSeq(queue, 1, size)
        /\ queue' = SubSeq(queue, size + 1, Len(queue))
  /\ UNCHANGED <<concurrency, allowed, depthOf, arrived, fetched, cancelled, crawl>>

(* Fetcher.fetch(), its retry included, answers with a page, or with None.  *)
(* A crawl that was cancelled leaves the tasks of its batch to themselves.  *)
FetchEnds(i, page) ==
  /\ i \in DOMAIN fetching
  /\ fetching' = [j \in DOMAIN fetching \ {i} |-> fetching[j]]
  /\ IF page THEN fetched' = Append(fetched, fetching[i]) /\ arrived' = Append(arrived, fetching[i])
             ELSE UNCHANGED <<fetched, arrived>>
  /\ UNCHANGED <<concurrency, allowed, depthOf, queue, cancelled, crawl>>

PathsOf(urls) == {PathOf[u] : u \in urls}

(* Mutant: it is the depth of the page that is compared with the limit. *)
OfferedPageDepth(known, page, link) ==
  IF /\ link \in allowed
     /\ PathOf[link] \notin PathsOf(DOMAIN known.depth)
     /\ known.depth[page] <= Depth
    THEN [depth |-> [u \in DOMAIN known.depth \cup {link} |->
                      IF u = link THEN known.depth[page] + 1 ELSE known.depth[u]],
          queue |-> Append(known.queue, link)]
    ELSE known

(* A link of a page is queued if its path was not seen before. *)
Offered(known, page, link) ==
  IF /\ link \in allowed
     /\ PathOf[link] \notin PathsOf(DOMAIN known.depth)
     /\ known.depth[page] < Depth
    THEN [depth |-> [u \in DOMAIN known.depth \cup {link} |->
                      IF u = link THEN known.depth[page] + 1 ELSE known.depth[u]],
          queue |-> Append(known.queue, link)]
    ELSE known

(* A page is yielded, and when the consumer asks for the next its links are queued. *)
YieldPage ==
  /\ crawl = "running" /\ arrived # <<>>
  /\ LET page  == Head(arrived)
         found == FoldLeft(LAMBDA known, link : Offered(known, page, link),
                           [depth |-> depthOf, queue |-> queue], Links[page])
     IN depthOf' = found.depth /\ queue' = found.queue
  /\ arrived' = Tail(arrived)
  /\ UNCHANGED <<concurrency, allowed, fetching, fetched, cancelled, crawl>>

EndCrawl ==
  /\ BatchIsOver /\ ~(MayGoOn /\ queue # <<>>)
  /\ crawl' = "ended"
  /\ UNCHANGED <<concurrency, allowed, depthOf, queue, fetching, arrived, fetched, cancelled>>

(* cancel() *)
Cancel ==
  /\ crawl = "running" /\ ~cancelled /\ cancelled' = TRUE
  /\ UNCHANGED <<concurrency, allowed, depthOf, queue, fetching, arrived, fetched, crawl>>

(* The task of run_crawl() is cancelled, wherever it awaits. *)
StopCrawl ==
  /\ crawl = "running" /\ crawl' = "stopped"
  /\ UNCHANGED <<concurrency, allowed, depthOf, queue, fetching, arrived, fetched, cancelled>>

CrawlNext ==
  \/ \E i \in DOMAIN fetching, page \in BOOLEAN : FetchEnds(i, page)
  \/ TakeBatch \/ YieldPage \/ EndCrawl \/ Cancel \/ StopCrawl

CrawlSpec == CrawlInit /\ [][CrawlNext]_crawlVars

-----------------------------------------------------------------------------
CrawlTypeOK ==
  /\ concurrency \in Concurrencies /\ allowed \subseteq Urls
  /\ DOMAIN depthOf \subseteq Urls
  /\ ToSet(queue) \cup {fetching[i] : i \in DOMAIN fetching} \subseteq DOMAIN depthOf
  /\ ToSet(fetched) \subseteq DOMAIN depthOf /\ ToSet(arrived) \subseteq ToSet(fetched)
  /\ Cardinality(DOMAIN fetching) <= concurrency
  /\ cancelled \in BOOLEAN /\ crawl \in {"running", "ended", "stopped"}

(* What is fetched is within the configuration of the crawl: no path twice *)
(* but those the seeds have twice, nothing but seeds and allowed URLs, no   *)
(* deeper than the limit.  The limit on the number of pages may be passed   *)
(* by the rest of one batch.                                               *)
FetchedAreWithinLimits ==
  /\ Len(fetched) < MaxUrls + concurrency
  /\ \A i, j \in DOMAIN fetched :
       i < j /\ PathOf[fetched[i]] = PathOf[fetched[j]] => {fetched[i], fetched[j]} \subseteq SeedUrls
  /\ \A u \in ToSet(fetched) : u \in SeedUrls \/ (u \in allowed /\ depthOf[u] <= Depth)

(* A crawl that ended by itself, by cancel() too, has followed every link of *)
(* its pages: the path of each allowed link of a page above the limit was   *)
(* queued.                                                                 *)
LinksAreFollowed ==
  crawl = "ended" =>
    \A u \in ToSet(fetched) : depthOf[u] < Depth =>
      PathsOf(ToSet(Links[u]) \cap allowed) \subseteq PathsOf(DOMAIN depthOf)

(* One page at a time is a breadth-first search: no page is deeper than one *)
(* level below a page that links to its path.  With more it is not, a batch *)
(* may hold two levels, and the deeper one arrive first.                    *)
OneAtATimeIsBreadthFirst ==
  concurrency = 1 =>
    \A u \in ToSet(fetched) \ ToSet(arrived), v \in DOMAIN depthOf :
      PathOf[v] \in PathsOf(ToSet(Links[u]) \cap allowed) => depthOf[v] <= depthOf[u] + 1

CrawlCoversSite == FetchedAreWithinLimits /\ LinksAreFollowed /\ OneAtATimeIsBreadthFirst
=============================================================================
