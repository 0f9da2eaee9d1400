-------------------------------- MODULE Dates --------------------------------
(***************************************************************************)
(* The release dates of one film somebody follows by title: how TMDB's     *)
(* slate replaces the stored one, which differences are kept as history    *)
(* (ingest/tmdb/release_date_history.py), which of those become a card     *)
(* (ingest/sweep/release_events.py), and what the surfaces that show a     *)
(* date make of the stored rows: the film page, the calendars, the digest's*)
(* slate, the iCal feed and the headline of a film row.                    *)
(*                                                                         *)
(* A subject is a market and a bucket.  Days are counted; an observation   *)
(* that wrote history is numbered, its number being its changed_at.  TMDB  *)
(* edits the slate at most MaxEdits times.                                 *)
(***************************************************************************)
EXTENDS Naturals, FiniteSets, FiniteSetsExt

CONSTANTS
    Days,           \* the days dates are set for, and time runs through
    Listings,       \* the sets of dates TMDB may list for one subject
    Lookback,       \* SWEEP lookback: how far back carding reads, in days
    MaxMissed,      \* the days in a row the sweep does not get through its carding
    SlateWindow, MarkerDays, PastWindow,    \* SLATE_WINDOW_DAYS, SLATE_MARKER_DAYS, ICAL_PAST_WINDOW_DAYS
    MaxEdits

ASSUME DatesAssumption ==
    /\ Days \subseteq Nat \ {0} /\ Days # {} /\ Listings \subseteq SUBSET Days
    /\ MaxMissed \in Nat /\ Lookback \in Nat /\ MaxMissed < Lookback
    /\ SlateWindow \in Nat /\ MarkerDays \in Nat \ {0} /\ PastWindow \in Nat /\ MaxEdits \in Nat

Primary == "US"
Regions == {Primary, "FR"}
Theatrical == {"wide"}
Home == {"digital"}
Subjects == Regions \X (Theatrical \cup Home)
ReleaseDates == [Subjects -> SUBSET Days]
Bare == [s \in Subjects |-> {}]

VARIABLES
    tmdb,       \* what TMDB answers: [slate, origin]
    film,       \* catalog.film and its release rows: [slate, origin, primary, observed]
    history,    \* catalog.film_release_date_change
    cards,      \* the release_date cards of the catalog
    at,         \* the number of observations that wrote history
    today,
    passed, missed,     \* carding got through today; the days before today it did not
    edits

datesVars == <<tmdb, film, history, cards, at, today, passed, missed, edits>>

NoDay == 0      \* and no observation
Earliest(D) == IF D = {} THEN NoDay ELSE Min(D)

\* FilmReleaseDateChange.
Change == [of : Subjects, change : {"set", "moved"}, previous : Days \cup {NoDay}, new : Days,
           at : 1..at, on : Days]

DatesTypeOK ==
    /\ tmdb \in [slate : ReleaseDates, origin : SUBSET Regions]
    /\ film \in [slate : ReleaseDates, origin : SUBSET Regions,
                 primary : Days \cup {NoDay}, observed : BOOLEAN, since : 0..at]
    /\ history \subseteq Change
    /\ cards \subseteq [at : 1..at, of : SUBSET Subjects, created : Days]
    /\ at \in Nat /\ today \in Days
    /\ passed \in BOOLEAN /\ missed \in 0..MaxMissed /\ edits \in 0..MaxEdits
-----------------------------------------------------------------------------
(***************************************************************************)
(* Which rows this site shows (catalog/release_grade.py).                  *)
(***************************************************************************)

\* displayable_regions.
DisplayableRegions(origin) == {Primary} \cup origin

\* is_displayable_release: the home release is American and nothing else.
Displayable(s, origin) ==
    IF s[2] \in Home THEN s[1] = Primary ELSE s[1] \in DisplayableRegions(origin)

\* displayable_from_rows: the slate, cut to what is displayable.
DisplayableFrom(slate, origin) ==
    [s \in Subjects |-> IF Displayable(s, origin) THEN slate[s] ELSE {}]

\* _governing_release.
Governing(slate, s) == Earliest(slate[s])

\* catalog.film.release_date: the earliest release anywhere, of any kind.
PrimaryDate(slate) == Earliest(UNION {slate[s] : s \in Subjects})
-----------------------------------------------------------------------------
(***************************************************************************)
(* Reading a slate (release_date_history.py, rebuild_release_dates).       *)
(***************************************************************************)

\* diff_release_dates between two displayable slates.
Diff(previous, current) ==
    {s \in Subjects :
        /\ current[s] # {}
        /\ previous[s] = {} \/ Governing(current, s) \notin previous[s]}

\* record_release_date_changes: the rows of this observation.
Recorded(previous, current) ==
    {[of |-> s, change |-> IF previous[s] = {} THEN "set" ELSE "moved",
      previous |-> Governing(previous, s), new |-> Governing(current, s),
      at |-> at + 1, on |-> today] : s \in Diff(previous, current)}

\* Mutant: the stored side is read before the film row is written.
RebuildOfOldOrigin(origin, primary) ==
    LET rows == IF film.observed
                THEN Recorded(DisplayableFrom(film.slate, film.origin), DisplayableFrom(tmdb.slate, origin))
                ELSE {}
    IN  /\ history' = history \cup rows
        /\ at' = IF rows = {} THEN at ELSE at + 1
        /\ film' = [slate |-> tmdb.slate, origin |-> origin, primary |-> primary, observed |-> TRUE,
                    since |-> IF film.observed THEN film.since ELSE at']

\* rebuild_release_dates, once the film row holds this origin: a first observation is a
\* baseline, and every date is stored whether it shows or not.
Rebuild(origin, primary) ==
    LET rows == IF film.observed
                THEN Recorded(DisplayableFrom(film.slate, origin), DisplayableFrom(tmdb.slate, origin))
                ELSE {}
    IN  /\ history' = history \cup rows
        /\ at' = IF rows = {} THEN at ELSE at + 1
        /\ film' = [slate |-> tmdb.slate, origin |-> origin, primary |-> primary, observed |-> TRUE,
                    since |-> IF film.observed THEN film.since ELSE at']

InPlay == film.primary = NoDay \/ film.primary >= today

\* upsert_film of a film in play: its row, then its dates.
Refresh ==
    /\ InPlay
    /\ Rebuild(tmdb.origin, PrimaryDate(tmdb.slate))
    /\ UNCHANGED <<tmdb, cards, today, passed, missed, edits>>

\* run_release_date_poll of one that has opened: its dates only.
PollDates ==
    /\ ~ InPlay
    /\ Rebuild(film.origin, film.primary)
    /\ UNCHANGED <<tmdb, cards, today, passed, missed, edits>>
-----------------------------------------------------------------------------
(***************************************************************************)
(* Carding (sweep/release_events.py).                                      *)
(***************************************************************************)

\* load_release_change_backlog: a rolling window and no watermark.
Backlog == {h \in history : h.on + Lookback >= today}

\* group_moves: one group to an observation.
Group(a) == {h \in Backlog : h.at = a}
Groups == {h.at : h \in Backlog}

\* Mutant: a date is judged by the day it is carded.
NotPastToday(a) == {h \in Group(a) : h.new >= today}

\* without_past_moves: judged by the day it was observed, and that day is not past.
WithoutPastMoves(a) == {h \in Group(a) : h.new >= h.on}

\* _already_carded, of the cards that come from the catalog.
AlreadyCarded(a) == \E c \in cards : c.at = a

Owed == {a \in Groups : WithoutPastMoves(a) # {} /\ ~ AlreadyCarded(a)}

\* _card_group; another group's failure costs this one nothing.
CardGroup(a) ==
    /\ a \in Owed
    /\ cards' = cards \cup {[at |-> a, of |-> {h.of : h \in WithoutPastMoves(a)}, created |-> today]}
    /\ UNCHANGED <<tmdb, film, history, at, today, passed, missed, edits>>

\* run_release_date_events has come to the end of the backlog.
EndCarding ==
    /\ Owed = {} /\ ~ passed /\ passed' = TRUE
    /\ UNCHANGED <<tmdb, film, history, cards, at, today, missed, edits>>

NextDay ==
    /\ today + 1 \in Days /\ today' = today + 1
    /\ passed \/ missed < MaxMissed
    /\ missed' = IF passed THEN 0 ELSE missed + 1
    /\ passed' = FALSE
    /\ UNCHANGED <<tmdb, film, history, cards, at, edits>>

\* TMDB's editors: the dates of a market, or the film's countries of origin.
Edit ==
    /\ edits < MaxEdits /\ edits' = edits + 1
    /\ \/ \E s \in Subjects, D \in Listings : tmdb' = [tmdb EXCEPT !.slate[s] = D]
       \/ \E O \in SUBSET (Regions \ {Primary}) : tmdb' = [tmdb EXCEPT !.origin = O]
    /\ tmdb' # tmdb
    /\ UNCHANGED <<film, history, cards, at, today, passed, missed>>
-----------------------------------------------------------------------------
(***************************************************************************)
(* The surfaces.  A row is <<subject, date>>.                              *)
(***************************************************************************)

\* get_film: the displayable subjects, each at its governing date.
PageRows ==
    LET shown == DisplayableFrom(film.slate, film.origin)
    IN  {<<s, Governing(shown, s)>> : s \in {t \in Subjects : shown[t] # {}}}

\* get_film's fallback, an unlabelled date.
PageFallback == IF PageRows = {} THEN film.primary ELSE NoDay

\* Mutant: the dates gone by are cut before the earliest is taken.
CollapsedLate(types) ==
    {<<s, Earliest({d \in film.slate[s] : d >= today})>> :
        s \in {t \in {Primary} \X types : \E d \in film.slate[t] : d >= today}}

\* _calendar_governing_cte: American subjects, collapsed before any window.
CalendarRows(types) ==
    {<<s, Governing(film.slate, s)>> : s \in {t \in {Primary} \X types : film.slate[t] # {}}}

\* _kind_types: a calendar holds one kind or, when none was asked for, both.
Kinds == {Theatrical, Home}
BothKinds == Theatrical \cup Home

\* _calendar_page: limit and offset count dates, soonest first.
CalendarPage(rows, limit, offset) ==
    LET rank(r) == Cardinality({q[2] : q \in {p \in rows : p[2] < r[2]}})
    IN  {r \in rows : rank(r) \in offset..(offset + limit - 1)}

\* get_my_films_calendar, _my_films_visible.
MyFilms(types) == {r \in CalendarRows(types) : r[2] >= today}

\* load_slate: one page of the window's length.
Slate == CalendarPage({r \in MyFilms(BothKinds) : r[2] < today + SlateWindow}, SlateWindow, 0)

\* group_slate: the rows of one kind.
SlateOf(types) == {r \in Slate : r[1][2] \in types}

\* get_ical_feed: its own collapse, and a reach into the past.
IcalRows ==
    LET governing == {<<s, Min(film.slate[s])>> :
                        s \in {t \in {Primary} \X (Theatrical \cup Home) : film.slate[t] # {}}}
    IN  {r \in governing : r[2] + PastWindow >= today}

\* get_ical_feed's last_moved.
LastMoved(s) == {h.at : h \in {g \in history : g.of = s}}

\* DTSTAMP: when the date last changed, else when the slate was first read.
Stamp(s) == IF LastMoved(s) # {} THEN Max(LastMoved(s)) ELSE film.since

\* load_slate_markers, then slate_marker.
ChangesMarked(s) ==
    {h.change : h \in {g \in history :
        /\ g.of = s
        /\ \E c \in cards : c.at = g.at /\ s \in c.of /\ c.created + MarkerDays > today}}

Marker(s) == IF ChangesMarked(s) = {} THEN "none"
             ELSE IF "set" \in ChangesMarked(s) THEN "new" ELSE "moved"

\* headline_releases: the soonest ahead, else the last behind, else the primary.
Headline ==
    LET rows  == {Governing(film.slate, s) :
                    s \in {t \in Subjects : t[2] \in Theatrical /\ Displayable(t, film.origin)
                                            /\ film.slate[t] # {}}}
        ahead == {d \in rows : d >= today}
    IN  IF ahead # {} THEN <<"upcoming", Min(ahead)>>
        ELSE IF rows # {} THEN <<"released", Max(rows)>>
        ELSE IF film.primary # NoDay THEN <<"primary", film.primary>> ELSE <<>>
-----------------------------------------------------------------------------
\* TMDB holds some slate already when the film is first read.
DatesInit ==
    /\ tmdb \in [slate : ReleaseDates, origin : SUBSET (Regions \ {Primary})]
    /\ film = [slate |-> Bare, origin |-> tmdb.origin, primary |-> NoDay, observed |-> FALSE, since |-> 0]
    /\ history = {} /\ cards = {} /\ at = 0
    /\ today = Min(Days) /\ passed = FALSE /\ missed = 0 /\ edits \in 0..MaxEdits

DatesNext ==
    \/ Refresh \/ PollDates \/ Edit \/ NextDay \/ EndCarding
    \/ \E a \in Groups : CardGroup(a)

DatesSpec == DatesInit /\ [][DatesNext]_datesVars
-----------------------------------------------------------------------------
(***************************************************************************)
(* Properties.                                                             *)
(***************************************************************************)

\* A date set or moved to a day still to come is on a card before carding stops reading it
\* (run_release_date_events): a sweep that fails for less than the lookback loses nothing, not
\* even a date that has passed by the time it is carded.
MovesAreToldInTime ==
    \A h \in history :
      h.on + Lookback < today /\ h.new >= h.on => \E c \in cards : c.at = h.at /\ h.of \in c.of

\* Nothing is news that was stored already (rebuild_release_dates, "no backfill"): a step
\* records a change of a subject only when that subject's own dates changed, whatever became
\* displayable meanwhile.
StoredDatesAreNotNews ==
    [][\A h \in history' \ history : film'.slate[h.of] # film.slate[h.of] /\ h.new \notin film.slate[h.of]]_datesVars

\* The surfaces of one follower name the same dates (get_my_films_calendar, get_ical_feed,
\* load_slate, get_film): the subscribed feed from today on is the calendar page, the film page
\* lists all of it, and the slate is its beginning, also kind by kind.
CalendarsAgree ==
    /\ DatesTypeOK
    /\ MyFilms(BothKinds) = {r \in IcalRows : r[2] >= today}
    /\ MyFilms(BothKinds) \subseteq PageRows
    /\ \A r \in PageRows : r[1][1] = Primary /\ r[2] >= today => r \in MyFilms(BothKinds)
    /\ \A K \in Kinds : SlateOf(K) = {r \in MyFilms(K) : r[2] < today + SlateWindow}

\* DTSTAMP is "When this subject's date was last set or moved" (public/ical.py): an entry whose
\* date changes is stamped anew.
StampFollowsTheDate ==
    [][\A r \in IcalRows, q \in IcalRows' :
          r[1] = q[1] /\ r[2] # q[2] => Stamp(r[1])' # Stamp(r[1])]_datesVars

\* The headline "mirrors the film page's own unlabelled fallback in `public.service.get_film`
\* so the two surfaces never disagree" (catalog/headline_release.py).
HeadlineIsListed ==
    Headline # <<>> =>
      \/ Headline[1] = "primary" /\ PageFallback = Headline[2]
      \/ Headline[1] # "primary" /\ \E r \in PageRows : r[2] = Headline[2]
=============================================================================
