-------------------------------- MODULE Feed --------------------------------
(***************************************************************************)
(* The lists of cards a reader pages through (public/service.py,           *)
(* news/visibility.py, pagination.py): the flat feed, the feed grouped by  *)
(* film and day, the timeline of a user's follows, an entity's page.       *)
(*                                                                         *)
(* A request is a few statements, and nothing holds the tables still       *)
(* between two of them or between two pages: cards are published, get      *)
(* their text, are superseded and go away while a reader walks the list.   *)
(***************************************************************************)
EXTENDS Follows

CONSTANTS
    Linked,     \* the films that have a page (Film.slug)
    Limit       \* how many days, or cards, make a page

ASSUME FeedAssumption == Linked \subseteq Films /\ Limit \in Nat \ {0}

VARIABLES
    reader,     \* a reader's walk through one list
    steady,     \* the cards that list has held since it was opened
    shrunk      \* something has left it

NoVia == "title"    \* the row of a film, which no entity delivered

\* `next` is the offset of the next page, or the card its cursor names; `days` and `groups`
\* what the statements of the page found; `rows` the page; `shown` the cards of every page.
Closed == [pc |-> "closed", view |-> "feed", who |-> {}, next |-> 0, more |-> FALSE,
           days |-> {}, groups |-> {}, rows |-> {}, shown |-> {}]

Views == {"feed", "grouped", "timeline", "entity"}
-----------------------------------------------------------------------------
(***************************************************************************)
(* What a reader may see.                                                  *)
(***************************************************************************)

\* visible_events, with the summary every surface joins.
Readable(i) == feed[i].type # "other" /\ feed[i].summarized

\* region_visible.
InMarket(i) == feed[i].type = "release_date" => ~ feed[i].abroad

\* feed_visible.
FeedVisible(i) == feed[i].film \in Linked /\ Readable(i) /\ InMarket(i)

\* get_film_detail: the cards of a film's own page.
FilmPage(f) == {i \in DOMAIN feed : feed[i].film = f /\ Readable(i) /\ InMarket(i)}

\* The cards a view selects from, `who` reading.
Selected(view, who) ==
    CASE view = "timeline" -> Scope(who)
      [] view = "entity"   -> EntityCards(who)
      [] OTHER             -> DOMAIN feed

OnTheList(view, who) == {i \in Selected(view, who) : FeedVisible(i)}
-----------------------------------------------------------------------------
(***************************************************************************)
(* One page.                                                               *)
(***************************************************************************)

\* Newest first, by limit and offset.
Slice(S, offset, limit) ==
    {x \in S : LET before == Cardinality({y \in S : y > x})
               IN  offset <= before /\ before < offset + limit}

DaysOf(I) == {feed[i].day : i \in I}

\* The statements after the window take the same scope: a follower's films in the timeline.
TitleScope(view, who) == IF view = "timeline" THEN ReachByTitle(who) ELSE DOMAIN feed

\* The film-days with a visible card on the days of the page.
FilmDays(view, who, days) ==
    {<<feed[i].film, feed[i].day>> :
       i \in {c \in TitleScope(view, who) : FeedVisible(c) /\ feed[c].day \in days}}

Section(i) == IF feed[i].stories # {} THEN "news" ELSE "catalog"

Row(via, I) == LET i == CHOOSE c \in I : TRUE
               IN  [via |-> via, film |-> feed[i].film, day |-> feed[i].day,
                    section |-> Section(i), cards |-> I]

\* One row for each value of film, day and section.
RowsOf(via, I) ==
    {Row(via, {j \in I : /\ feed[j].film = feed[i].film /\ feed[j].day = feed[i].day
                         /\ Section(j) = Section(i)}) : i \in I}

\* _film_day_items, its second statement: it asks for less than the first.
FilmRows(view, who, groups) ==
    RowsOf(NoVia, {i \in TitleScope(view, who) :
                     Readable(i) /\ <<feed[i].film, feed[i].day>> \in groups})

\* _entity_day_items.
EntityRows(who, days) ==
    UNION {RowsOf(e, {i \in EntityCards(e) : FeedVisible(i) /\ feed[i].day \in days}) :
             e \in FollowedEntities(who)}
-----------------------------------------------------------------------------
(***************************************************************************)
(* A walk: page after page, until the list is at its end.                  *)
(***************************************************************************)

Open(view, who) ==
    /\ reader.pc = "closed"
    /\ reader' = [Closed EXCEPT !.pc = "page", !.view = view, !.who = who,
                                !.next = IF view = "entity" THEN Len(feed) + 1 ELSE 0]

\* The page is there; the reader asks for the next one, if there is one.
Served(r) == [r EXCEPT !.pc = IF r.more THEN "page" ELSE "end",
                       !.days = {}, !.groups = {}, !.rows = {},
                       !.shown = @ \cup UNION {row.cards : row \in r.rows}]

\* get_feed: total and page of cards.
FlatPage ==
    /\ reader.pc = "page" /\ reader.view = "feed"
    /\ LET all  == OnTheList("feed", reader.who)
           page == Slice(all, reader.next, Limit)
       IN  reader' = [reader EXCEPT !.pc = "served", !.next = @ + Limit,
                                    !.more = reader.next + Limit < Cardinality(all),
                                    !.rows = {Row(NoVia, {i}) : i \in page}]

\* (created_at, id) < cursor.
BeyondCursor(i) == i < reader.next

\* get_entity_events: the cards before the cursor, and one more to know whether there are more.
EntityPage ==
    /\ reader.pc = "page" /\ reader.view = "entity"
    /\ LET all  == {i \in OnTheList("entity", reader.who) : BeyondCursor(i)}
           rows == Slice(all, 0, Limit + 1)
           page == Slice(all, 0, Limit)
       IN  reader' = [reader EXCEPT !.pc = "served",
                        !.more = Cardinality(rows) > Limit,
                        !.next = IF page # {} THEN Min(page) ELSE @,
                        !.rows = {Row(reader.who, {i}) : i \in page}]

\* _feed_day_window: the days on which something of the scope was published.
DayWindow ==
    /\ reader.pc = "page" /\ reader.view \in {"grouped", "timeline"}
    /\ LET all == DaysOf(OnTheList(reader.view, reader.who))
       IN  reader' = [reader EXCEPT !.pc = "groups", !.next = @ + Limit,
                                    !.more = reader.next + Limit < Cardinality(all),
                                    !.days = Slice(all, reader.next, Limit)]

\* _film_day_items, its first statement.
FindGroups ==
    /\ reader.pc = "groups"
    /\ reader' = [reader EXCEPT !.pc = "rows",
                    !.groups = FilmDays(reader.view, reader.who, reader.days)]

FetchRows ==
    /\ reader.pc = "rows"
    /\ reader' = [reader EXCEPT !.pc = IF reader.view = "timeline" THEN "entities" ELSE "served",
                    !.rows = FilmRows(reader.view, reader.who, reader.groups)]

\* Mutant: only on the days that have rows of a film.
FetchBesideFilms ==
    /\ reader.pc = "entities"
    /\ reader' = [reader EXCEPT !.pc = "served",
                    !.rows = @ \cup EntityRows(reader.who, {g[2] : g \in reader.groups})]

FetchEntityRows ==
    /\ reader.pc = "entities"
    /\ reader' = [reader EXCEPT !.pc = "served",
                    !.rows = @ \cup EntityRows(reader.who, reader.days)]

\* The next page is asked for, or the list is at its end.
Turn  == reader.pc = "served" /\ reader' = Served(reader)
Close == reader.pc = "end" /\ reader' = Closed

Read == FlatPage \/ EntityPage \/ DayWindow \/ FindGroups \/ FetchRows \/ FetchEntityRows
          \/ Turn \/ Close
-----------------------------------------------------------------------------
(***************************************************************************)
(* The walk and the world.                                                 *)
(***************************************************************************)

tables   == <<follows, feed, mentions, live, stamped>>
feedVars == <<tables, reader, steady, shrunk>>

\* Whose list a view shows: a user's, an entity's, or nobody's in particular.
Owners(view) == CASE view = "timeline" -> Users [] view = "entity" -> Entities [] OTHER -> {{}}

\* Whatever the link run, the sweep, a moderator and the readers do to the tables: a card keeps
\* its film and the day it was published, and one that is gone is one nobody can see.  A
\* reader does not follow or unfollow between two statements of a page they wait for.
Write ==
    /\ TypeOK'
    /\ \A i \in DOMAIN feed : /\ i \in DOMAIN feed'
                              /\ feed'[i].film = feed[i].film /\ feed'[i].day = feed[i].day
    /\ reader.pc \in {"groups", "rows", "entities"} => follows' = follows
    /\ reader' = reader

\* The list that is open.
List == IF reader.pc = "closed" THEN {} ELSE OnTheList(reader.view, reader.who)

Watched ==
    /\ steady' = IF reader.pc = "closed" THEN List' ELSE steady \cap List'
    /\ shrunk' = IF reader.pc = "closed" THEN FALSE ELSE shrunk \/ ~ (List \subseteq List')

FeedInit == TypeOK /\ reader = Closed /\ steady = {} /\ shrunk = FALSE

FeedNext ==
    /\ \/ \E view \in Views : \E who \in Owners(view) : Open(view, who) /\ UNCHANGED tables
       \/ Read /\ UNCHANGED tables
       \/ Write
    /\ Watched

FeedSpec == FeedInit /\ [][FeedNext]_feedVars
-----------------------------------------------------------------------------
(***************************************************************************)
(* The follows page, and the properties.                                   *)
(***************************************************************************)

\* Mutant: superseded cards count for a film, as they do on the timeline.
ActivityOfAll(s) ==
    {i \in DOMAIN feed : FeedVisible(i) /\ IF s \in Films THEN feed[i].film = s
                                            ELSE Delivers(s, i)}

\* follow_last_activity: the visible cards a follow has delivered; the page shows the newest.
Activity(s) ==
    {i \in DOMAIN feed : FeedVisible(i)
                          /\ IF s \in Films THEN feed[i].film = s /\ Published(i)
                             ELSE Delivers(s, i)}

\* The timeline, the mail and the follows page come to one answer about what a follow delivers
\* (follow_reach, follow_attribution_pairs, follow_last_activity): but for the superseded
\* cards that a film's rows keep, what the timeline lists has a reason to be in the mail and
\* counts as the activity of some follow, and the converse.
SurfacesAgree ==
    \A u \in Users :
      LET told == {i \in OnTheList("timeline", u) : Published(i)}
      IN  /\ told = {p[2] : p \in {q \in Attribution(u) : FeedVisible(q[2])}}
          /\ told = UNION {Activity(s) : s \in {r \in Followable : <<u, r>> \in follows}}

\* Who walks a list to its end has seen every card that was on it all the time: by a cursor
\* whatever has happened meanwhile (get_entity_events: "the keyset cannot drop or repeat a
\* card"), by offset unless something left the list, which moves the rest up.  And the
\* cursor repeats nothing.
WalkIsFaithful ==
    /\ reader.pc = "end" /\ (reader.view = "entity" \/ ~ shrunk) => steady \subseteq reader.shown
    /\ reader.pc = "served" /\ reader.view = "entity"
          => \A row \in reader.rows : row.cards \cap reader.shown = {}

\* A row shows what its film's page lists (feed_visible, "every surface that lists cards").
RowsAreOnTheFilmsPage ==
    \A row \in reader.rows : \A i \in row.cards : Readable(i) => i \in FilmPage(row.film)
=============================================================================
