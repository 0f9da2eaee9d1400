------------------------------- MODULE Follows -------------------------------
(***************************************************************************)
(* What a follow delivers (app/follow_queries.py, follow_service.py).      *)
(*                                                                         *)
(* A follow is a row and nothing is derived from it: each surface computes *)
(* what it reaches at every read.  A film's follower gets the film's       *)
(* cards.  The follower of a person, a studio or a franchise gets the      *)
(* cards with its name or its id on them, the story cards that are its     *)
(* first association with the film or its first departure from it, and the *)
(* cancellation of a film it is attached to.                               *)
(*                                                                         *)
(* The link run and the sweep write the other tables: here they are given. *)
(***************************************************************************)
EXTENDS Naturals, FiniteSets, Sequences, FiniteSetsExt

CONSTANTS
    Users, Films, Stories,
    People, Companies, Collections,
    Token       \* what a card is keyed by: a normalized name, or the id of an organisation

Entities == People \cup Companies \cup Collections
Followable == Films \cup Entities

ASSUME FollowsAssumption ==
    /\ People \cap Companies = {} /\ Collections \cap (People \cup Companies) = {}
    /\ Films \cap Entities = {}
    /\ DOMAIN Token = Entities
    /\ \A e \in Entities \ People, d \in Entities : Token[d] = Token[e] => d = e

VARIABLES
    follows,    \* app.follow: <<user, subject>>
    feed,       \* news.event with its stories, in the order of created_at
    mentions,   \* news.story_person and news.story_entity
    live,       \* film_credit, film_production_company, film.collection_id: <<film, entity>>
    stamped     \* <<film, entity, card>>: the arrivals a story card told (carded_by_event_id)

Paths == {"accepted", "tiebreak", "unlinked", "not_in_tmdb"}

\* The card types of a kind: arrivals and departures.  The kind of e names them.
Arrivals(e) ==
    IF e \in People THEN {"casting", "crew_attached"}
    ELSE IF e \in Companies THEN {"company_attached"} ELSE {"collection_attached"}

Departures(e) ==
    IF e \in People THEN {"cast_removed", "crew_removed"}
    ELSE IF e \in Companies THEN {"company_removed"} ELSE {"collection_removed"}

CardTypes == UNION {Arrivals(e) \cup Departures(e) : e \in Entities}
           \cup {"canceled", "release_date", "other"}

\* The beats a story may mention an entity in: a director who signs on is "casting" as well,
\* and there is no beat for a person who leaves.
ArrivalBeats(e)   == IF e \in People THEN {"casting"} ELSE Arrivals(e)
DepartureBeats(e) == IF e \in People THEN {} ELSE Departures(e)

\* CREDIT_ATTACHMENT_EVENT_TYPES: the arrival type a departure type answers.
ArrivalOf == [cast_removed |-> "casting", crew_removed |-> "crew_attached",
              company_removed |-> "company_attached",
              collection_removed |-> "collection_attached"]

Statuses == {"published", "superseded"}

\* `summarized`: it has the text every surface wants. `abroad`: a release date of a market that
\* is neither the primary region nor one of the film's own.
Card == [film : Films, type : CardTypes, names : SUBSET {Token[e] : e \in Entities},
         stories : SUBSET Stories, day : Nat, status : Statuses,
         summarized : BOOLEAN, abroad : BOOLEAN]

Mention == [story : Stories, ent : Entities, beat : CardTypes, path : Paths]

TypeOK ==
    /\ follows \subseteq Users \X Followable
    /\ feed \in Seq(Card)
    /\ mentions \subseteq Mention
    /\ live \subseteq Films \X Entities
    /\ stamped \subseteq Films \X Entities \X (DOMAIN feed)
-----------------------------------------------------------------------------
(***************************************************************************)
(* The follow graph.                                                       *)
(***************************************************************************)

Follow(u, s) == /\ <<u, s>> \notin follows
                /\ follows' = follows \cup {<<u, s>>}

Unfollow(u, s) == /\ <<u, s>> \in follows
                  /\ follows' = follows \ {<<u, s>>}

\* title_follow_film_ids.
TitleFilms(u) == {f \in Films : <<u, f>> \in follows}

\* followed_tmdb_ids, of the three kinds at once.
FollowedEntities(u) == {e \in Entities : <<u, e>> \in follows}
-----------------------------------------------------------------------------
(***************************************************************************)
(* Which card names an entity.                                             *)
(***************************************************************************)

Published(i) == feed[i].status = "published"

\* A mention of the story that was resolved (RESOLVED_MENTION_PATHS) under one of these beats.
Mentions(s, e, beats) ==
    \E m \in mentions : m.story = s /\ m.ent = e /\ m.beat \in beats
                        /\ m.path \in {"accepted", "tiebreak"}

MentionedIn(i, e, beats) == \E s \in feed[i].stories : Mentions(s, e, beats)

HasToken(i, e) == Token[e] \in feed[i].names

\* Mutant: only what the card itself carries.
TokenOnly(i, e, beats) == HasToken(i, e)

\* _card_names_person, _card_names_organisation: in either of the two ways.
CardNames(i, e, beats) == HasToken(i, e) \/ MentionedIn(i, e, beats)
-----------------------------------------------------------------------------
(***************************************************************************)
(* What an entity's follow selects.  Every branch reads published cards.   *)
(***************************************************************************)

\* _person_attachment_pairs: namesakes are not told apart.
PersonNamed(e, i) ==
    e \in People /\ feed[i].type \in Arrivals(e) \cup Departures(e) /\ HasToken(i, e)

\* _organisation_attachment_pairs.
OrganisationNamed(e, i) ==
    e \notin People /\ feed[i].type \in Arrivals(e) \cup Departures(e) /\ HasToken(i, e)

\* A published card of the film and of these types that names e.
Tells(j, f, e, types, beats) ==
    feed[j].film = f /\ Published(j) /\ feed[j].type \in types /\ CardNames(j, e, beats)

EarlierArrival(e, i) ==
    \E j \in 1..(i - 1) : Tells(j, feed[i].film, e, Arrivals(e), ArrivalBeats(e))

AttachedNow(e, f) == <<f, e>> \in live
CardedBy(e, i)    == <<feed[i].film, e, i>> \in stamped

\* _holds_a_credit and its two counterparts; the carve-out is the card's own confirmation.
KnownBefore(e, i) == AttachedNow(e, feed[i].film) /\ ~ CardedBy(e, i)

\* _first_association_arm, and _organisation_association_arm for arrivals.
FirstArrival(e, i) ==
    /\ feed[i].type \in Arrivals(e) /\ MentionedIn(i, e, ArrivalBeats(e))
    /\ ~ EarlierArrival(e, i)
    /\ ~ KnownBefore(e, i)

\* The arrivals a departure card answers, whenever they came: of its class for a person.
Answered(e, i) ==
    {j \in DOMAIN feed :
       Tells(j, feed[i].film, e, {ArrivalOf[feed[i].type]}, ArrivalBeats(e))}

\* An earlier departure card, unless the latest arrival card is newer than it.
AlreadyLeft(e, i) ==
    \E j \in 1..(i - 1) :
      /\ Tells(j, feed[i].film, e, {feed[i].type}, DepartureBeats(e))
      /\ Answered(e, i) = {} \/ j > Max(Answered(e, i))

\* _first_detachment_arm, and _organisation_association_arm for departures.
FirstDeparture(e, i) ==
    /\ feed[i].type \in Departures(e) /\ MentionedIn(i, e, DepartureBeats(e))
    /\ ~ AlreadyLeft(e, i)

\* _canceled_pairs: by what is attached now.
CanceledOf(e, i) == feed[i].type = "canceled" /\ AttachedNow(e, feed[i].film)

\* _entity_event_pairs.
Delivers(e, i) ==
    /\ Published(i)
    /\ \/ PersonNamed(e, i) \/ OrganisationNamed(e, i)
       \/ FirstArrival(e, i) \/ FirstDeparture(e, i)
       \/ CanceledOf(e, i)

\* entity_event_ids: what the entity's own page lists.
EntityCards(e) == {i \in DOMAIN feed : Delivers(e, i)}

\* entity_attribution_pairs.
EntityPairs(u) == {p \in FollowedEntities(u) \X DOMAIN feed : Delivers(p[1], p[2])}

\* follow_reach: the films' cards, superseded ones included, and the entities'.
ReachByTitle(u)  == {i \in DOMAIN feed : feed[i].film \in TitleFilms(u)}
ReachByEntity(u) == {p[2] : p \in EntityPairs(u)}

\* follow_scope.
Scope(u) == ReachByTitle(u) \cup ReachByEntity(u)

\* follow_attribution_pairs, which the digest makes a line of each: superseded cards have none.
Attribution(u) ==
    EntityPairs(u)
      \cup {p \in TitleFilms(u) \X DOMAIN feed : feed[p[2]].film = p[1] /\ Published(p[2])}
-----------------------------------------------------------------------------
(***************************************************************************)
(* Properties.                                                             *)
(***************************************************************************)

\* The first outlet is the news (first_association_clause, the attach arm): of all the cards
\* of a film that only a story ties to an entity's arrival, its followers get one at most,
\* however many outlets, resolutions and confirmations there are.
ArrivalIsHeardOnce ==
    \A e \in Entities, i, j \in DOMAIN feed :
      (i # j /\ Published(i) /\ Published(j) /\ feed[i].film = feed[j].film)
      => ~ (FirstArrival(e, i) /\ FirstArrival(e, j))

\* A new arrival does not bring an old departure back (first_association_clause: "no published
\* detach card for the entity on F since the latest published attach card for it"): the cards
\* of a departure that were told twice stay told once.
DepartureIsHeardOnce ==
    \A e \in Entities, i, j \in DOMAIN feed :
      (/\ i < j /\ Published(i) /\ Published(j) /\ feed[i].type = feed[j].type
       /\ FirstDeparture(e, i) /\ FirstDeparture(e, j))
      => \E k \in (i + 1)..(j - 1) : feed[k].type \in Arrivals(e)
=============================================================================
