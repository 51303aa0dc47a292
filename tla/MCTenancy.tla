------------------------------ MODULE MCTenancy ------------------------------
(***************************************************************************)
(* What the tenants of a server set up and bring in, and the scripts by    *)
(* which its operator keeps it, in six components that share nothing and   *)
(* are checked one at a time: overrides of processing profiles, accounts,  *)
(* imports and scans of web sites, sources that list page by page, and     *)
(* scripts.  The state space is the sum of theirs, for those that are not  *)
(* in focus stay in one of their initial states.                           *)
(***************************************************************************)
EXTENDS ProfileOverrides, Accounts, WebImport, Crawl, Gathering, Operations, TLC

\* Sites of four pages, with two ways to a page and ways back, or in a row that
\* is too long for the depth.  A seed may be given twice.
CONSTANTS u1, u2, u3, u4
LinksOf(a, b, c) ==
  [u \in Url |-> CASE u = u1 -> a [] u = u2 -> b [] u = u3 -> c [] u = u4 -> {}]
Thirds == {{}, {u1}, {u2}, {u4}}
SmallSites ==
  {LinksOf({u2}, {u3}, c) : c \in Thirds} \cup
  {LinksOf({u2, u3}, b, c) : b \in {{}, {u1}, {u3}, {u4}}, c \in Thirds}
SmallSeeds == {<<u1>>, <<u1, u3>>, <<u2, u2>>}

VARIABLE focus  \* the component that moves

AccountsAtRest == AccountsInit /\ credentials = {}
CrawlAtRest ==
  /\ site = [links |-> [u \in Url |-> {}], answer |-> [u \in Url |-> "none"]]
  /\ scan = [seeds |-> << >>, depth |-> 1, portion |-> 1]
  /\ cursor = FromSeeds(<< >>) /\ call = NoCall /\ harvest = << >> /\ changed = {}
\* Any order of the places is this one up to their names.
AnOrder == CHOOSE o \in OrdersOf(Place) : TRUE
GatheringAtRest ==
  /\ listing = [p \in Place |-> {}] /\ drives = AnOrder
  /\ setup = CHOOSE s \in Configured(Github) : TRUE
  /\ reading = FromTheStart(<< >>)
  /\ harvested = [p \in Place |-> << >>] /\ staged = {}
  /\ moves = [appears |-> 0, disappears |-> 0, lists |-> 0]

TenancyInit ==
  /\ focus \in {"profiles", "accounts", "import", "crawl", "gathering", "scripts"}
  /\ Init /\ (focus # "profiles" => ~ overlap)
  /\ IF focus = "accounts" THEN AccountsInit ELSE AccountsAtRest
  /\ WebInit
  /\ IF focus = "crawl" THEN CrawlInit /\ site.answer[u4] # "html" ELSE CrawlAtRest
  /\ IF focus = "gathering" THEN GatheringInit /\ drives = AnOrder ELSE GatheringAtRest
  /\ OperationsInit

ProfilesMove ==
  /\ focus = "profiles" /\ Next
  /\ UNCHANGED <<focus, accountVars, webVars, crawlVars, gatheringVars, operationsVars>>
AccountsMove ==
  /\ focus = "accounts" /\ AccountsNext
  /\ UNCHANGED <<focus, vars, webVars, crawlVars, gatheringVars, operationsVars>>
ImportsMove ==
  /\ focus = "import" /\ WebNext
  /\ UNCHANGED <<focus, vars, accountVars, crawlVars, gatheringVars, operationsVars>>
CrawlMoves ==
  /\ focus = "crawl" /\ CrawlNext
  /\ UNCHANGED <<focus, vars, accountVars, webVars, gatheringVars, operationsVars>>
GatheringMoves ==
  /\ focus = "gathering" /\ GatheringNext
  /\ UNCHANGED <<focus, vars, accountVars, webVars, crawlVars, operationsVars>>
ScriptsMove ==
  /\ focus = "scripts" /\ OperationsNext
  /\ UNCHANGED <<focus, vars, accountVars, webVars, crawlVars, gatheringVars>>

TenancyNext ==
  \/ ProfilesMove \/ AccountsMove
  \/ ImportsMove \/ CrawlMoves \/ GatheringMoves \/ ScriptsMove

TenancySpec ==
  /\ TenancyInit
  /\ [][TenancyNext]_<<focus, vars, accountVars, webVars, crawlVars, gatheringVars, operationsVars>>

\* The threads that serve requests differ in nothing but their name; the
\* components share them.
Ids == Permutations(Slot)
=============================================================================
