-------------------------------- MODULE Polls --------------------------------
(***************************************************************************)
(* The daily poll of the film of Dates: who offers it (ingest/providers.py)*)
(* and which videos TMDB lists (ingest/videos.py).  Each pass reads one    *)
(* answer, inserts what it has never seen into a ledger nothing is ever    *)
(* deleted from, and cards what the insert made new.  The release-date pass*)
(* between them is PollDates.  A read or a write that fails leaves nothing *)
(* behind: the next day's poll asks again.                                 *)
(***************************************************************************)
EXTENDS Dates, Sequences, SequencesExt

CONSTANTS
    Offers,     \* what TMDB may list: subsets of Providers \X MONETIZATION_TYPES
    Listed,     \* the sets of videos TMDB may list
    LastKey, Seconds    \* numbers: the keys of videos, the seconds they were published in

Keys == 1..LastKey
Unpublished == 0

\* A video as TMDB lists it; the ledger keeps what the first sighting said.
Entry(sites) == [key : Keys, site : sites, type : {"Trailer", "Teaser"},
                 published : Seconds \cup {Unpublished}]

ASSUME PollsAssumption ==
    /\ LastKey \in Nat /\ Seconds \subseteq Nat \ {Unpublished}
    /\ {} \in Offers /\ {} \in Listed
    /\ Listed \subseteq SUBSET Entry({"YouTube", "youtube", "Vimeo"})

VARIABLES
    offers,     \* TMDB's watch/providers for the region
    ledger,     \* catalog.availability_first_seen
    available,  \* the now_available cards, in order: the types each names
    videos,     \* TMDB's videos
    seen,       \* catalog.film_video; baseline: read when videos_observed_at was set
    watched,    \* videos_observed_at is set
    trailers    \* the trailer cards: <<second, nudges>> is occurred_at

pollsVars == <<offers, ledger, available, videos, seen, watched, trailers>>
pollVars == <<datesVars, pollsVars>>

\* The rows of the two ledgers, and a video read before the baseline was set.
FirstSeen == UNION Offers
FilmVideo == [key : Keys, site : {"youtube", "vimeo"}, type : {"Trailer", "Teaser"},
              published : Seconds \cup {Unpublished}, baseline : BOOLEAN]

Types(O) == {o[2] : o \in O}

PollsTypeOK ==
    /\ offers \in Offers /\ ledger \subseteq FirstSeen
    /\ available \in Seq(SUBSET Types(FirstSeen))
    /\ videos \in Listed /\ watched \in BOOLEAN
    /\ seen \subseteq FilmVideo
    /\ trailers \subseteq [key : Keys, occurred : Seconds \X Nat]
-----------------------------------------------------------------------------
(***************************************************************************)
(* The provider pass.                                                      *)
(***************************************************************************)

\* home_release_landed_clause: by the dates our rows hold, whatever TMDB says by now.
HomeReleaseLanded == \E h \in Home : \E d \in film.slate[<<Primary, h>>] : d <= today

Held == offers # {} /\ ~ HomeReleaseLanded

\* _insert_first_seen: the rows the statement inserts.
NewOffers == offers \ ledger

\* The types no row was held under before: they go on one card.
NewTypes == Types(NewOffers) \ Types(ledger)

CardNowAvailable(types) ==
    available' = IF types = {} THEN available ELSE Append(available, types)

\* Mutant: a held observation is recorded without a card.
RecordHeld ==
    /\ ledger' = ledger \cup offers
    /\ available' = IF Held \/ NewTypes = {} THEN available ELSE Append(available, NewTypes)
    /\ UNCHANGED <<datesVars, offers, videos, seen, watched, trailers>>

\* run_provider_poll, one film: a held observation leaves nothing behind.
PollProviders ==
    /\ ~ Held
    /\ ledger' = ledger \cup NewOffers
    /\ CardNowAvailable(NewTypes)
    /\ UNCHANGED <<datesVars, offers, videos, seen, watched, trailers>>
-----------------------------------------------------------------------------
(***************************************************************************)
(* The video pass.                                                         *)
(***************************************************************************)

\* videos_from_payload: the site is folded before anything is compared.
Folded(site) == IF site = "YouTube" THEN "youtube" ELSE IF site = "Vimeo" THEN "vimeo" ELSE site

Identity(v) == <<v.site, v.key>>

\* The ways to keep one entry of each identity, by the order TMDB lists them in.
FromPayload ==
    LET rows == {[v EXCEPT !.site = Folded(@)] : v \in videos}
    IN  {V \in SUBSET rows : /\ \A v, w \in V : Identity(v) = Identity(w) => v = w
                             /\ {Identity(v) : v \in V} = {Identity(v) : v \in rows}}

\* is_trailer.
IsTrailer(v) == v.site = "youtube" /\ v.type = "Trailer"

\* _insert_videos: ON CONFLICT DO NOTHING, RETURNING.
NewVideos(V) == {v \in V : \A w \in seen : Identity(w) # Identity(v)}

Cardable(v) == IsTrailer(v) /\ v.published # Unpublished

\* _card_trailer, at the first free moment from the publication on.
FreeAt(taken, second) == {n \in 0..Cardinality(taken) : \A c \in taken : c.occurred # <<second, n>>}
TrailerCard(taken, v) ==
    [key |-> v.key, occurred |-> <<v.published, Min(FreeAt(taken, v.published))>>]

\* _cardable_trailers, in order of key: each finds the moments those before it have taken.
Candidates(new, k) == {v \in new : Cardable(v) /\ v.key = k}
CardTrailers(new) ==
    LET carded[k \in 0..LastKey] ==
          IF k = 0 THEN trailers
          ELSE carded[k - 1] \cup {TrailerCard(carded[k - 1], v) : v \in Candidates(new, k)}
    IN  carded[LastKey]

\* run_video_poll, one film that has not opened: the first observation is a baseline.
PollVideos ==
    /\ InPlay
    /\ \E V \in FromPayload :
          /\ seen' = seen \cup {[key |-> v.key, site |-> v.site, type |-> v.type,
                                 published |-> v.published, baseline |-> ~ watched] : v \in NewVideos(V)}
          /\ trailers' = IF watched THEN CardTrailers(NewVideos(V)) ELSE trailers
    /\ watched' = TRUE
    /\ UNCHANGED <<datesVars, offers, ledger, available, videos>>
-----------------------------------------------------------------------------
\* TMDB's editors and the services: an offer comes or goes, the videos are listed anew.
Relist ==
    /\ edits < MaxEdits /\ edits' = edits + 1
    /\ \/ offers' \in Offers \ {offers} /\ UNCHANGED videos
       \/ videos' \in Listed \ {videos} /\ UNCHANGED offers
    /\ UNCHANGED <<tmdb, film, history, cards, at, today, passed, missed>>
    /\ UNCHANGED <<ledger, available, seen, watched, trailers>>

PollsInit ==
    /\ DatesInit
    /\ offers = {} /\ ledger = {} /\ available = <<>>
    /\ videos = {} /\ seen = {} /\ watched = FALSE /\ trailers = {}

PollsNext == PollProviders \/ PollVideos \/ Relist \/ (DatesNext /\ UNCHANGED pollsVars)
PollsSpec == PollsInit /\ [][PollsNext]_pollVars
-----------------------------------------------------------------------------
(***************************************************************************)
(* Properties.                                                             *)
(***************************************************************************)

\* Every way a film can be had is told exactly once (D-28): when its first row is recorded,
\* however services come and go after that; and a pre-order, held until the American digital
\* date, does not use up the telling of the release (run_provider_poll).
EachTypeIsToldOnce ==
    /\ \A i, j \in DOMAIN available : i # j => available[i] \cap available[j] = {}
    /\ UNION ToSet(available) = Types(ledger)

\* Every dated YouTube trailer that comes after the baseline has exactly one card, at a moment
\* of its own (uq_event_catalog_change): also when two were published in one second, or TMDB
\* spells the site differently the next day, or drops the video and lists it again.
TrailersAreToldOnce ==
    /\ \A v \in seen :
          Cardinality({c \in trailers : c.key = v.key /\ v.site = "youtube"})
            = IF Cardable(v) /\ ~ v.baseline THEN 1 ELSE 0
    /\ \A c, d \in trailers : c # d => c.occurred # d.occurred

\* What the polls record for good they tell exactly once.
PollsTellOnce == EachTypeIsToldOnce /\ TrailersAreToldOnce
=============================================================================
