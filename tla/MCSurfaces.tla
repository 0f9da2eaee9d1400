----------------------------- MODULE MCSurfaces -----------------------------
(***************************************************************************)
(* What readers look at, on small instances for TLC: one film's calendar   *)
(* with what the daily polls make of it (Dates, Polls), and the lists of   *)
(* cards and the follows behind them (Feed and Follows, in MCFeed).  A     *)
(* behaviour is about one question; the two halves share no state.         *)
(***************************************************************************)
EXTENDS Polls, MCFeed, TLC

CONSTANTS s1, s2

MCToken == [e \in {p1, c1, k1} |-> e]
MCListings == {{}, {1}, {3}, {2, 4}}
MCOffers == SUBSET ({"fandango", "netflix"} \X {"buy", "rent"})

Video(key, site, type, published) ==
    [key |-> key, site |-> site, type |-> type, published |-> published]

MCListed ==
    {{}, {Video(1, "YouTube", "Trailer", 1)}, {Video(1, "youtube", "Trailer", 1)},
     {Video(1, "YouTube", "Teaser", 1), Video(2, "YouTube", "Trailer", 1)},
     {Video(1, "YouTube", "Teaser", 1), Video(1, "youtube", "Trailer", 1)},
     {Video(1, "YouTube", "Trailer", 1), Video(2, "youtube", "Trailer", 1)},
     {Video(1, "Vimeo", "Trailer", 1), Video(1, "YouTube", "Trailer", 2)},
     {Video(2, "YouTube", "Trailer", Unpublished), Video(3, "YouTube", "Trailer", 1)}}

Slates ==
    {Bare, [Bare EXCEPT ![<<"US", "wide">>] = {1, 3}],
     [Bare EXCEPT ![<<"US", "digital">>] = {3}, ![<<"FR", "wide">>] = {3}, ![<<"FR", "digital">>] = {2}]}

Calendars == {"dates", "offers", "videos"}

\* The slate TMDB holds when the film is first read.
CalendarInit ==
    /\ \E s \in Slates, O \in {{}, {"FR"}} :
          /\ about # "dates" => O = {}
          /\ about = "offers" => s[<<"US", "wide">>] = {}
          /\ about \notin Calendars => s = Bare
          /\ tmdb = [slate |-> s, origin |-> O]
    /\ film = [slate |-> Bare, origin |-> tmdb.origin, primary |-> NoDay, observed |-> FALSE, since |-> 0]
    /\ history = {} /\ cards = {} /\ at = 0
    /\ today = 1 /\ passed = FALSE /\ missed = 0
    /\ edits = IF about \in {"dates", "offers"} THEN 1 ELSE 0
    /\ offers = {} /\ ledger = {} /\ available = <<>>
    /\ videos = {} /\ seen = {} /\ watched = FALSE /\ trailers = {}

MCInit == Init /\ CalendarInit

\* What a question is not about stays as it is.
Calendar ==
    /\ PollsNext
    /\ edits' # edits => film.observed
    /\ CASE about = "dates" ->
              UNCHANGED pollsVars /\ tmdb'.slate[<<"FR", "digital">>] = tmdb.slate[<<"FR", "digital">>]
         [] about = "offers" ->
              /\ UNCHANGED <<videos, seen, watched, trailers>>
              /\ \A s \in Subjects : s # <<"US", "digital">> => tmdb'.slate[s] = tmdb.slate[s]
              /\ tmdb'.origin = tmdb.origin
         [] about = "videos" -> UNCHANGED <<tmdb, offers, ledger, available>>
    /\ UNCHANGED <<feedVars, about>>

MCNext ==
    \/ about \in Calendars /\ Calendar
    \/ about \notin Calendars /\ Next /\ UNCHANGED pollVars

MCSpec == MCInit /\ [][MCNext]_<<pollVars, feedVars, about>>

Symmetry == Permutations(Stories)
=============================================================================
