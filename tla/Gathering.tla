------------------------------ MODULE Gathering ------------------------------
(***************************************************************************)
(* The sources that gather what a service lists page by page: messages of  *)
(* channels (Slack, Discord), files of a repository (GitHub), and lists    *)
(* that a caller reads portion by portion with a cursor (Confluence,       *)
(* Notion, Feishu, Google Workspace, Microsoft 365).  They differ in how   *)
(* the next page is named; meanwhile entries appear and disappear.         *)
(***************************************************************************)
EXTENDS Naturals, Sequences, FiniteSets

CONSTANTS
  Place,      \* channels, files, drives; the only list there is
  FileName,   \* what is left of a channel's name when it is made safe
  PageSizes,  \* values of page_size
  Caps,       \* values of max_messages_per_channel
  MaxEntries, \* entries that are in one place when the scan begins
  MaxMoves    \* changes of the listing beside one scan

ASSUME GatheringAssumption ==
  /\ IsFiniteSet(Place) /\ Place # {}
  /\ PageSizes \cup Caps \subseteq Nat \ {0}
  /\ MaxEntries \in Nat /\ MaxMoves \in Nat

VARIABLES
  listing,   \* the entries of each place, which are listed newest first
  drives,    \* the places in the order in which they are listed
  setup,     \* the source and its configuration
  reading,   \* where the scan is
  harvested, \* the entries gathered from each place, in order
  staged,    \* the files of the temporary directory
  moves      \* history: how often what has changed beside the scan

gatheringVars == <<listing, drives, setup, reading, harvested, staged, moves>>

\* The next page is named by the last entry of this one (by the connector or by
\* the service's cursor), by its offset, or by the drive and a cursor within it;
\* or there is one page.  `staging' sources write files and hand them to
\* ingestion together; the others are called for one page after the other.
SourceKind(name, next, staging, places) ==
  [name |-> name, next |-> next, staging |-> staging, places |-> places]
Slack == SourceKind("slack", "entry", TRUE, "many")
Discord == SourceKind("discord", "entry", TRUE, "many")
Github == SourceKind("github", "none", TRUE, "many")
Confluence == SourceKind("confluence", "offset", FALSE, "one")
ByToken == SourceKind("notion, feishu, google", "entry", FALSE, "one")
Microsoft365 == SourceKind("microsoft_365", "entry", FALSE, "drives")
Channels == {Slack, Discord}
Kinds == {Slack, Discord, Github, Confluence, ByToken, Microsoft365}

\* Some places, each once, in some order.
OrdersOf(places) ==
  {s \in [1..Cardinality(places) -> places] : \A m, n \in DOMAIN s : s[m] = s[n] => m = n}

\* Entries are numbered as they appear; those up to `old' are older than
\* oldest_days.
Configured(kind) ==
  [kind : {kind}, size : PageSizes,
   cap : IF kind = Discord THEN Caps ELSE {0},
   old : IF kind \in Channels THEN {0, 1} ELSE {0},
   file : IF kind \in Channels THEN [Place -> FileName] ELSE {[p \in Place |-> p]}]

Is(kind) == setup.kind = kind

\* The one list there is, the files of the tree, or the channels.
Lists ==
  CASE setup.kind.places = "one" -> {<<p>> : p \in Place}
    [] Is(Github) -> OrdersOf({p \in Place : listing[p] # {}})
    [] OTHER -> {drives}

FromTheStart(list) ==
  [pc |-> "page", list |-> list, place |-> 1, cursor |-> 0, of |-> CHOOSE p \in Place : TRUE]

GatheringInit ==
  /\ listing \in [Place -> {1..k : k \in 0..MaxEntries}]
  /\ drives \in OrdersOf(Place)
  /\ \E kind \in Kinds : setup \in Configured(kind)
  /\ \E list \in Lists : reading = FromTheStart(list)
  /\ harvested = [p \in Place |-> << >>]
  /\ staged = {}
  /\ moves = [appears |-> 0, disappears |-> 0, lists |-> 0]

-----------------------------------------------------------------------------
(* What a request for a page answers, and what is taken of it.             *)

Newer(e, entries) == {x \in entries : x > e}
FirstOf(entries, n) == {e \in entries : Cardinality(Newer(e, entries)) < n}
NewestFirst(entries) ==
  [n \in 1..Cardinality(entries) |->
     CHOOSE e \in entries : Cardinality(Newer(e, entries)) = n - 1]

\* The entries that are listed after those the cursor stands for.  Slack leaves
\* out the old ones.
Rest(entries) ==
  CASE setup.kind.next = "offset" -> entries \ FirstOf(entries, reading.cursor)
    [] Is(Slack) -> {e \in entries : e > setup.old /\ (reading.cursor # 0 => e < reading.cursor)}
    [] OTHER -> {e \in entries : reading.cursor # 0 => e < reading.cursor}
OnePage(entries) ==
  IF setup.kind.next = "none" THEN entries ELSE FirstOf(Rest(entries), setup.size)

\* Discord's old messages are left out here, and no more than the cap taken.
Taken(p, page) ==
  IF Is(Discord)
  THEN FirstOf({e \in page : e > setup.old}, setup.cap - Len(harvested[p]))
  ELSE page
Capped(p, page) == Is(Discord) /\ Len(harvested[p]) + Cardinality(Taken(p, page)) >= setup.cap

\* Whether there is another page: the service says, but for Discord.
MorePages(entries, p, page) ==
  /\ setup.kind.next # "none"
  /\ IF Is(Discord)
     THEN ~ Capped(p, page) /\ Cardinality(page) = setup.size /\ \A e \in page : e > setup.old
     ELSE Cardinality(Rest(entries)) > setup.size

\* A slip: the next page is named by the first entry of this one.
NextCursorFirst(page) ==
  IF setup.kind.next = "offset" THEN reading.cursor + Cardinality(page)
  ELSE CHOOSE e \in page : \A x \in page : x <= e
NextCursor(page) ==
  IF setup.kind.next = "offset" THEN reading.cursor + Cardinality(page)
  ELSE CHOOSE e \in page : \A x \in page : x >= e

-----------------------------------------------------------------------------
(* The scan.                                                               *)

\* Microsoft 365 lists the drives anew in every call, but its cursor is a link
\* into the drive it was given for.
Places == IF Is(Microsoft365) THEN drives ELSE reading.list

\* A file for what was gathered, over one of the same name.
Staged(p, entries) ==
  IF setup.kind.staging /\ entries # << >>
  THEN {f \in staged : f.name # setup.file[p]}
         \cup {[name |-> setup.file[p], place |-> p, entries |-> entries]}
  ELSE staged

\* The last place of the list has been read.
NextPlace == [reading EXCEPT !.place = @ + 1, !.cursor = 0,
                        !.pc = IF reading.place >= Len(Places) THEN "done" ELSE @]

ReadPage ==
  /\ reading.pc = "page" /\ reading.place <= Len(Places)
  /\ LET p == Places[reading.place]
         from == IF reading.cursor = 0 THEN p ELSE reading.of
         page == OnePage(listing[from])
         all == harvested[p] \o NewestFirst(Taken(p, page))
     IN  /\ ~ (Is(Github) /\ listing[p] = {})
         /\ harvested' = [harvested EXCEPT ![p] = all]
         /\ IF MorePages(listing[from], p, page)
            THEN /\ reading' = [reading EXCEPT !.cursor = NextCursor(page), !.of = from]
                 /\ staged' = staged
            ELSE reading' = NextPlace /\ staged' = Staged(p, all)
  /\ UNCHANGED <<listing, drives, setup, moves>>

\* There is nothing to list, or the drive of the cursor is not there any more.
NoMorePlaces ==
  /\ reading.pc = "page" /\ reading.place > Len(Places)
  /\ reading' = [reading EXCEPT !.pc = "done"]
  /\ UNCHANGED <<listing, drives, setup, harvested, staged, moves>>

\* An error of any request, of which a file that is gone is one, costs a staging
\* source all of it; the others are called again with the same cursor.
RequestFails ==
  /\ reading.pc = "page" /\ setup.kind.staging
  /\ reading' = [reading EXCEPT !.pc = "failed"] /\ staged' = {}
  /\ UNCHANGED <<listing, drives, setup, harvested, moves>>

-----------------------------------------------------------------------------
(* The service, meanwhile.                                                 *)

Happens(what) ==
  /\ reading.pc = "page" /\ moves.appears + moves.disappears + moves.lists < MaxMoves
  /\ moves' = [moves EXCEPT ![what] = @ + 1]
  /\ UNCHANGED <<setup, reading, harvested, staged>>

Appear(p) ==
  /\ Happens("appears")
  /\ listing' = [listing EXCEPT ![p] = @ \cup {MaxEntries + 1 + moves.appears}]
  /\ UNCHANGED drives

Disappear(p, e) ==
  /\ Happens("disappears")
  /\ listing' = [listing EXCEPT ![p] = @ \ {e}]
  /\ UNCHANGED drives

\* In another order, or without some of them.
Relist(order) ==
  /\ order # drives /\ Happens("lists")
  /\ drives' = order
  /\ UNCHANGED listing

GatheringNext ==
  \/ ReadPage \/ NoMorePlaces \/ RequestFails
  \/ \E p \in Place : Appear(p) \/ \E e \in listing[p] : Disappear(p, e)
  \/ \E some \in SUBSET Place : \E order \in OrdersOf(some) : Relist(order)

GatheringSpec == GatheringInit /\ [][GatheringNext]_gatheringVars

-----------------------------------------------------------------------------
(* What must hold.                                                         *)

\* What is handed on of a place.
HandedOn(p) ==
  IF ~ setup.kind.staging THEN harvested[p]
  ELSE IF \E f \in staged : f.place = p THEN (CHOOSE f \in staged : f.place = p).entries
  ELSE << >>
Times(e, list) == Cardinality({n \in DOMAIN list : list[n] = e})

\* Who has the name of a file that another channel wrote.
Shadowed(p) == \E q \in Place \ {p} : setup.file[q] = setup.file[p]
\* Entries there throughout the scan that the configuration asks for.
Wanted(p) == {e \in listing[p] : e > setup.old /\ e <= MaxEntries}

\* When a scan is over, what was in a place throughout has been gathered from it
\* once and newest first, while other entries came and went; but for what is
\* counted out by the cap, what pages named by an offset miss after a removal or
\* repeat after an addition, a channel whose file another one has replaced, and
\* drives that were listed in another order.
\* (slack, discord and github connectors, and the scanners of the others)
GatheredWhole ==
  reading.pc = "done" /\ ~ (Is(Microsoft365) /\ moves.lists # 0) =>
    \A i \in DOMAIN reading.list :
      LET p == reading.list[i]
          list == HandedOn(p)
          offset == setup.kind.next = "offset"
      IN  /\ \A e \in Wanted(p) :
               /\ Times(e, list) = 0 =>
                    \/ offset /\ moves.disappears # 0
                    \/ Shadowed(p)
                    \/ Is(Discord) /\ Len(list) = setup.cap /\ \A n \in DOMAIN list : list[n] > e
               /\ Times(e, list) > 1 => offset /\ moves.appears # 0
          /\ \A m, n \in DOMAIN list : m < n /\ ~ offset => list[m] > list[n]
          /\ \A n \in DOMAIN list : list[n] > setup.old
=============================================================================
