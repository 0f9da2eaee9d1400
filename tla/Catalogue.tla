------------------------------ MODULE Catalogue ------------------------------
(***************************************************************************)
(* How a film enters the catalogue and how its row follows TMDB.           *)
(*                                                                         *)
(* The tmdb run (ingest/tmdb/service.py) reads the popular films of a      *)
(* window of dates.  The sweep reaches everything else: it enumerates the  *)
(* credits of the people the catalogue already holds and admits the        *)
(* undated films they vouch for, re-reads every film in play the tmdb run  *)
(* did not touch, and cards the status changes its reads recorded          *)
(* (ingest/sweep/enumerate_phase.py, refresh_phase.py, field_events.py).   *)
(* The polls read the films that have opened.  Any of them may find that   *)
(* TMDB holds nothing at an id any more, and leaves a tombstone.           *)
(*                                                                         *)
(* Time passes film by film: a stored date lapses, a quiet film goes       *)
(* dormant, a read or a tombstone grows old.  Films and people are TMDB    *)
(* ids; TMDB moves at most MaxMoves times and a run dies at most MaxDeaths *)
(* times.                                                                  *)
(***************************************************************************)
EXTENDS Naturals, Sequences, FiniteSets, SequencesExt

CONSTANTS
    Films, People,  \* TMDB ids
    Popular,        \* the films discover lists above the popularity floor
    Titled,         \* the films somebody follows by title
    Followed,       \* the people somebody follows
    Credits,        \* at TMDB: [Films -> SUBSET (People \X Roles)]
    Tranches,       \* the roles whose SWEEP_ADMIT_ flag is on; none when SWEEP_ENABLED is off
    Corroboration,  \* how many people must vouch for a film
    Threshold,      \* consecutive failures that end a phase
    MaxMoves, MaxDeaths

SeedGrade == {"director", "writer", "cast"}
Roles == SeedGrade \cup {"extra"}
Excluded == {"Released", "Canceled"}

ASSUME CatalogueAssumption ==
    /\ Films \subseteq Nat /\ People \subseteq Nat
    /\ Popular \cup Titled \subseteq Films /\ Followed \subseteq People
    /\ Credits \in [Films -> SUBSET (People \X Roles)]
    /\ Tranches \subseteq SeedGrade \cup {"followed"}
    /\ Corroboration \in Nat /\ Threshold \in Nat \ {0}
    /\ MaxMoves \in Nat /\ MaxDeaths \in Nat

VARIABLES
    tmdb,       \* what /movie/{id} answers: [answer, date, status]
    person,     \* what /person/{id}/movie_credits answers
    film,       \* catalog.film
    order,      \* the films held, by updated_at
    touched,    \* updated_at is past the start of the last tmdb run that ended
    touching,   \* updated_at is past the start of the last tmdb run
    dead,       \* catalog.person.tmdb_missing_at
    changes,    \* catalog.film_field_change, of status
    cards,      \* the status cards: <<film, event type>>
    discover, sweep,
    moves, deaths

tables  == <<film, order, touched, touching, dead, changes>>
vars == <<tmdb, person, tables, cards, discover, sweep, moves, deaths>>

Answers  == {"ok", "gone", "error"}     \* a payload, a 404, anything else
Statuses == {"Planned", "In Production"} \cup Excluded

\* TMDB's date may be one our row does not hold yet: "later" is past the one it holds.
Dates == {"undated", "ahead", "opened"}
NotHeld == [held |-> FALSE]
Row == [held : {TRUE}, date : Dates, status : Statuses,
        missing : {"no", "lately", "due"},  \* tmdb_missing_at; due: dormant_refresh_days ago
        quiet : BOOLEAN,                    \* no change and no story for dormancy_days
        stale : BOOLEAN]                    \* updated_at is dormant_refresh_days old

StatusChange == Films \X Statuses       \* a row, by the status the film went to

Held == {f \in Films : film[f].held}

Idle == [at |-> "idle", queue |-> <<>>, streak |-> 0, known |-> {}, found |-> {}]
Job(places) == [at : {"idle"} \cup places, queue : Seq(Films \cup People),
                streak : 0..Threshold, known : SUBSET Films,
                found : SUBSET (Films \X People \X (SeedGrade \cup {"followed"}))]

TypeOK ==
    /\ tmdb \in [Films -> [answer : Answers, date : Dates \cup {"later"}, status : Statuses]]
    /\ person \in [People -> Answers]
    /\ film \in [Films -> Row \cup {NotHeld}]
    /\ ToSet(order) = Held /\ Len(order) = Cardinality(Held)
    /\ touched \subseteq Held /\ touching \subseteq Held /\ dead \subseteq People
    /\ changes \subseteq StatusChange
    /\ cards \subseteq Films \X {"production_start", "canceled"}
    /\ discover \in Job({"reading", "dead"})
    /\ sweep \in Job({"people", "judging", "refreshing", "carding"})
    /\ moves \in 0..MaxMoves /\ deaths \in 0..MaxDeaths
-----------------------------------------------------------------------------
(***************************************************************************)
(* Which films are worth a read (catalog/queries.py).                      *)
(***************************************************************************)

\* in_play_clause.
InPlay(f) == film[f].held /\ film[f].date # "opened" /\ film[f].status \notin Excluded

\* dormant_film_clause, active_film_clause.
Dormant(f) == film[f].held /\ film[f].date = "undated" /\ film[f].quiet
Active(f)  == InPlay(f) /\ ~ Dormant(f)

\* Mutant: the cadences as they were before films could lose their date's popularity.
DueUndated(f) == InPlay(f) /\ film[f].date = "undated" /\ film[f].missing # "lately"

\* Discover has not written it since its last ended run began (last_finished_run_started_at).
Unreached(f) == f \notin touched

\* refresh_set_clause: the three cadences.
Due(f) ==
    /\ InPlay(f)
    /\ \/ film[f].missing = "no" /\ ~ Dormant(f) /\ Unreached(f)
       \/ film[f].missing = "no" /\ Dormant(f) /\ film[f].stale
       \/ film[f].missing = "due"

\* seed_grade_credit_clause, of the credits our rows hold.
SeedPeople == {p \in People : \E f \in Films : Active(f) /\ \E r \in SeedGrade : <<p, r>> \in Credits[f]}

\* load_seed_person_ids: the people TMDB has deleted are in neither half.
Tombstoned(p) == p \in dead

Enumerated == {p \in SeedPeople \cup Followed : ~ Tombstoned(p)}
-----------------------------------------------------------------------------
(***************************************************************************)
(* Writing a film (ingest/tmdb/upsert.py).                                 *)
(***************************************************************************)

StatusMoved(f) == film[f].held /\ film[f].status # tmdb[f].status
Stored(f) == IF tmdb[f].date = "later" THEN "ahead" ELSE tmdb[f].date

\* _upsert_film_row, with the trigger that writes film_field_change.
Written(f) ==
    [held |-> TRUE, date |-> Stored(f), status |-> tmdb[f].status, missing |-> "no",
     quiet |-> film[f].held /\ ~ StatusMoved(f) /\ film[f].date = Stored(f) /\ film[f].quiet,
     stale |-> FALSE]

Behind(f) == Append(SelectSeq(order, LAMBDA g : g # f), f)

\* upsert_film: the row, and upsert_people for everyone its credits name.
UpsertFilm(f) ==
    /\ film' = [film EXCEPT ![f] = Written(f)]
    /\ tmdb' = [tmdb EXCEPT ![f].date = Stored(f)]
    /\ order' = Behind(f)
    /\ touched' = touched \cup {f} /\ touching' = touching \cup {f}
    /\ dead' = dead \ {p \in People : \E r \in Roles : <<p, r>> \in Credits[f]}
    /\ changes' = changes \cup (IF StatusMoved(f) THEN {<<f, tmdb[f].status>>} ELSE {})

\* mark_film_missing: stamped again however often.
MarkFilmMissing(f) ==
    /\ film' = IF film[f].held THEN [film EXCEPT ![f].missing = "lately"] ELSE film
    /\ UNCHANGED <<tmdb, order, touched, touching, dead, changes>>

NoWrite == UNCHANGED <<tmdb, tables>>
-----------------------------------------------------------------------------
(***************************************************************************)
(* A phase works through a queue it read once, one item a transaction, and *)
(* gives up after Threshold failures in a row (sweep/phase.py AbortGuard). *)
(***************************************************************************)

Succeeded(job) == [job EXCEPT !.queue = Tail(@), !.streak = 0]
Passed(job)    == [job EXCEPT !.queue = Tail(@)]
Failed(job)    == [job EXCEPT !.queue = Tail(@), !.streak = @ + 1]

GivenUp(job) == job.streak >= Threshold
Through(job) == job.queue = <<>> \/ GivenUp(job)

InIdOrder(S) == SetToSortSeq(S, <)
-----------------------------------------------------------------------------
(***************************************************************************)
(* The tmdb run.                                                           *)
(***************************************************************************)

\* _discover_candidate_ids: a dated window, most popular first, down to the floor.
Listed(f) == f \in Popular /\ tmdb[f].answer # "gone" /\ tmdb[f].date \in {"ahead", "later"}

StartDiscover ==
    /\ discover.at = "idle"
    /\ discover' = [Idle EXCEPT !.at = "reading", !.queue = InIdOrder({f \in Films : Listed(f)})]
    /\ touching' = {}
    /\ UNCHANGED <<tmdb, person, film, order, touched, dead, changes, cards, sweep, moves, deaths>>

\* classify_skip: a film TMDB calls released or canceled is not written.
Skipped(f) == tmdb[f].status \in Excluded

\* run_tmdb_ingest; a 404 is a failure here.
DiscoverFilm ==
    /\ discover.at = "reading" /\ ~ Through(discover)
    /\ LET f == Head(discover.queue) IN
       \/ /\ tmdb[f].answer = "ok" /\ ~ Skipped(f)
          /\ UpsertFilm(f) /\ discover' = Succeeded(discover)
       \/ /\ tmdb[f].answer = "ok" /\ Skipped(f)
          /\ NoWrite /\ discover' = Succeeded(discover)
       \/ /\ tmdb[f].answer # "ok"
          /\ NoWrite /\ discover' = Failed(discover)
    /\ UNCHANGED <<person, cards, sweep, moves, deaths>>

\* finalize_run, and mark_stale_runs_cancelled of a run that died: either way the run has
\* ended, and last_finished_run_started_at moves to its start.
EndDiscover ==
    /\ discover.at = "dead" \/ (discover.at = "reading" /\ Through(discover))
    /\ discover' = Idle
    /\ touched' = touching
    /\ UNCHANGED <<tmdb, person, film, order, touching, dead, changes, cards, sweep, moves, deaths>>
-----------------------------------------------------------------------------
(***************************************************************************)
(* The sweep: enumerate, refresh, card.                                    *)
(***************************************************************************)

StartSweep ==
    /\ sweep.at = "idle"
    /\ sweep' = [Idle EXCEPT !.at = "people", !.queue = InIdOrder(Enumerated), !.known = Held]
    /\ UNCHANGED <<tmdb, person, tables, cards, discover, moves, deaths>>

\* seed_attachments: the undated films a person reaches, and as what.
Attachments(p) ==
    {a \in Films \X {p} \X (SeedGrade \cup {"followed"}) :
        /\ tmdb[a[1]].date = "undated" /\ tmdb[a[1]].answer # "gone"
        /\ \/ <<p, a[3]>> \in Credits[a[1]]
           \/ a[3] = "followed" /\ p \in Followed /\ <<p, "extra">> \in Credits[a[1]]}

\* mark_person_missing.
MarkPersonMissing(p) ==
    /\ dead' = dead \cup {p}
    /\ UNCHANGED <<tmdb, film, order, touched, touching, changes>>

\* Mutant: the deleted are an outage as well.
ReadPersonOrFail ==
    /\ sweep.at = "people" /\ ~ Through(sweep)
    /\ LET p == Head(sweep.queue) IN
       IF person[p] = "ok"
       THEN sweep' = [Succeeded(sweep) EXCEPT !.found = @ \cup Attachments(p)]
       ELSE sweep' = Failed(sweep)
    /\ NoWrite
    /\ UNCHANGED <<person, cards, discover, moves, deaths>>

\* _collect_attachments: a 404 touches the guard in neither direction.
ReadPerson ==
    /\ sweep.at = "people" /\ ~ Through(sweep)
    /\ LET p == Head(sweep.queue) IN
       \/ /\ person[p] = "ok" /\ NoWrite
          /\ sweep' = [Succeeded(sweep) EXCEPT !.found = @ \cup Attachments(p)]
       \/ person[p] = "gone" /\ MarkPersonMissing(p) /\ sweep' = Passed(sweep)
       \/ person[p] = "error" /\ NoWrite /\ sweep' = Failed(sweep)
    /\ UNCHANGED <<person, cards, discover, moves, deaths>>

\* tally_attachments: the people who reach a film, and the roles it is reached at.
Vouchers(f) == {p \in People : \E a \in sweep.found : a[1] = f /\ a[2] = p}
ReachedAt(f) == {a[3] : a \in {b \in sweep.found : b[1] = f}}

Likelier(f, g) ==
    \/ Cardinality(Vouchers(f)) > Cardinality(Vouchers(g))
    \/ Cardinality(Vouchers(f)) = Cardinality(Vouchers(g)) /\ f < g

Candidates == {a[1] : a \in sweep.found} \ sweep.known

\* run_sweep_enumerate between its two loops; an abort leaves nothing to judge.
StartJudging ==
    /\ sweep.at = "people" /\ Through(sweep)
    /\ sweep' = [sweep EXCEPT !.at = "judging",
                    !.queue = IF GivenUp(sweep) THEN <<>> ELSE SetToSortSeq(Candidates, Likelier)]
    /\ UNCHANGED <<tmdb, person, tables, cards, discover, moves, deaths>>

\* AdmissionTranches.admits, then the threshold.
Admissible(f) ==
    /\ tmdb[f].date = "undated" /\ ~ Skipped(f)
    /\ ReachedAt(f) \cap Tranches # {}
    /\ Cardinality(Vouchers(f)) >= Corroboration

\* _judge_candidates.
JudgeCandidate ==
    /\ sweep.at = "judging" /\ ~ Through(sweep)
    /\ LET f == Head(sweep.queue) IN
       \/ /\ tmdb[f].answer = "ok" /\ Admissible(f)
          /\ UpsertFilm(f) /\ sweep' = Succeeded(sweep)
       \/ /\ tmdb[f].answer = "ok" /\ ~ Admissible(f)
          /\ NoWrite /\ sweep' = Succeeded(sweep)
       \/ tmdb[f].answer = "gone" /\ NoWrite /\ sweep' = Passed(sweep)
       \/ tmdb[f].answer = "error" /\ NoWrite /\ sweep' = Failed(sweep)
    /\ UNCHANGED <<person, cards, discover, moves, deaths>>

Stalest == SelectSeq(order, LAMBDA f : Due(f))

\* run_sweep_refresh: whatever became of enumerate, and with a guard of its own.
StartRefresh ==
    /\ sweep.at = "judging" /\ Through(sweep)
    /\ sweep' = [Idle EXCEPT !.at = "refreshing", !.queue = Stalest]
    /\ UNCHANGED <<tmdb, person, tables, cards, discover, moves, deaths>>

\* _refresh_films.
RefreshFilm ==
    /\ sweep.at = "refreshing" /\ ~ Through(sweep)
    /\ LET f == Head(sweep.queue) IN
       \/ tmdb[f].answer = "ok" /\ UpsertFilm(f) /\ sweep' = Succeeded(sweep)
       \/ tmdb[f].answer = "gone" /\ MarkFilmMissing(f) /\ sweep' = Passed(sweep)
       \/ tmdb[f].answer = "error" /\ NoWrite /\ sweep' = Failed(sweep)
    /\ UNCHANGED <<person, cards, discover, moves, deaths>>

StartCarding ==
    /\ sweep.at = "refreshing" /\ Through(sweep)
    /\ sweep' = [Idle EXCEPT !.at = "carding"]
    /\ UNCHANGED <<tmdb, person, tables, cards, discover, moves, deaths>>

\* classify_field_change, through STATUS_EVENT_TYPES.
EventOf(status) ==
    CASE status = "In Production" -> {"production_start"}
      [] status = "Canceled"      -> {"canceled"}
      [] OTHER                    -> {}

\* Mutant: the film has its status card.
CardedAtAll(f, type) == \E t \in {"production_start", "canceled"} : <<f, t>> \in cards

\* _already_carded: each of these happens to a film once.
AlreadyCarded(f, type) == <<f, type>> \in cards

Beats == UNION {{<<c[1], t>> : t \in EventOf(c[2])} : c \in changes}

\* run_field_change_events, over every change of the window.
CardChanges ==
    /\ sweep.at = "carding"
    /\ cards' = cards \cup {b \in Beats : ~ AlreadyCarded(b[1], b[2])}
    /\ sweep' = Idle
    /\ UNCHANGED <<tmdb, person, tables, discover, moves, deaths>>
-----------------------------------------------------------------------------
(***************************************************************************)
(* The other readers and writers of a film.                                *)
(***************************************************************************)

\* poll_set_clause: a tombstoned film is in neither half of the set.
Polled(f) == film[f].held /\ film[f].missing = "no" /\ (film[f].date = "opened" \/ f \in Titled)

\* run_provider_poll, run_release_date_poll, run_video_poll: what they do to the film itself.
PollFilm(f) ==
    /\ Polled(f) /\ tmdb[f].answer = "gone"
    /\ MarkFilmMissing(f)
    /\ UNCHANGED <<person, cards, discover, sweep, moves, deaths>>

\* details_in_window: a film that has opened may be in the window still.
InWindow(f) == tmdb[f].status # "Canceled"

\* film_id_for: a user's import reads a film it does not hold, or holds stale credits of.
ImportFilm(f) ==
    /\ tmdb[f].answer = "ok" /\ (film[f].held \/ InWindow(f))
    /\ moves < MaxMoves /\ moves' = moves + 1
    /\ UpsertFilm(f)
    /\ UNCHANGED <<person, cards, discover, sweep, deaths>>

\* A story is linked to the film: dormancy ends.
LinkStory(f) ==
    /\ film[f].held /\ film[f].quiet
    /\ moves < MaxMoves /\ moves' = moves + 1
    /\ film' = [film EXCEPT ![f].quiet = FALSE]
    /\ UNCHANGED <<tmdb, person, order, touched, touching, dead, changes, cards,
                   discover, sweep, deaths>>
-----------------------------------------------------------------------------
(***************************************************************************)
(* TMDB, time and the machine.                                             *)
(***************************************************************************)

TmdbMoves(f) ==
    /\ moves < MaxMoves /\ moves' = moves + 1
    /\ \/ \E a \in Answers \ {tmdb[f].answer} : tmdb' = [tmdb EXCEPT ![f].answer = a]
       \/ \E s \in Statuses \ {tmdb[f].status} : tmdb' = [tmdb EXCEPT ![f].status = s]
       \/ /\ tmdb[f].date = "undated" /\ tmdb' = [tmdb EXCEPT ![f].date = "ahead"]
       \/ /\ tmdb[f].date = "ahead" /\ film[f].held /\ film[f].date = "ahead"
          /\ tmdb' = [tmdb EXCEPT ![f].date = "later"]
    /\ UNCHANGED <<person, tables, cards, discover, sweep, deaths>>

PersonMoves(p) ==
    /\ moves < MaxMoves /\ moves' = moves + 1
    /\ \E a \in Answers \ {person[p]} : person' = [person EXCEPT ![p] = a]
    /\ UNCHANGED <<tmdb, tables, cards, discover, sweep, deaths>>

\* The date the row holds is past: TMDB's too, unless it has moved to a later one.
DatePasses(f) ==
    /\ moves < MaxMoves /\ moves' = moves + 1
    /\ film[f].held /\ film[f].date = "ahead"
    /\ film' = [film EXCEPT ![f].date = "opened"]
    /\ tmdb' = IF tmdb[f].date = "ahead" THEN [tmdb EXCEPT ![f].date = "opened"] ELSE tmdb
    /\ UNCHANGED <<person, order, touched, touching, dead, changes, cards, discover, sweep, deaths>>

GrowsOld(f) ==
    /\ film[f].held
    /\ \/ /\ film[f].missing = "lately"
          /\ film' = [film EXCEPT ![f].missing = "due"]
       \/ /\ film[f].date = "undated" /\ ~ film[f].stale
          /\ film' = [film EXCEPT ![f].stale = TRUE]
    /\ UNCHANGED <<tmdb, person, order, touched, touching, dead, changes, cards,
                   discover, sweep, moves, deaths>>

GoesQuiet(f) ==
    /\ film[f].held /\ film[f].date = "undated" /\ ~ film[f].quiet
    /\ film' = [film EXCEPT ![f].quiet = TRUE]
    /\ UNCHANGED <<tmdb, person, order, touched, touching, dead, changes, cards,
                   discover, sweep, moves, deaths>>

\* The container is replaced: the item in hand is rolled back.
DiscoverDies ==
    /\ discover.at = "reading" /\ deaths < MaxDeaths /\ deaths' = deaths + 1
    /\ discover' = [Idle EXCEPT !.at = "dead"]
    /\ UNCHANGED <<tmdb, person, tables, cards, sweep, moves>>

SweepDies ==
    /\ sweep.at # "idle" /\ deaths < MaxDeaths /\ deaths' = deaths + 1
    /\ sweep' = Idle
    /\ UNCHANGED <<tmdb, person, tables, cards, discover, moves>>
-----------------------------------------------------------------------------
TmdbRun == StartDiscover \/ DiscoverFilm \/ EndDiscover
SweepRun == \/ StartSweep \/ ReadPerson \/ StartJudging \/ JudgeCandidate
            \/ StartRefresh \/ RefreshFilm \/ StartCarding \/ CardChanges

Next ==
    \/ TmdbRun \/ SweepRun \/ DiscoverDies \/ SweepDies
    \/ \E f \in Films :
          PollFilm(f) \/ ImportFilm(f) \/ LinkStory(f)
          \/ TmdbMoves(f) \/ DatePasses(f) \/ GrowsOld(f) \/ GoesQuiet(f)
    \/ \E p \in People : PersonMoves(p)

\* The scheduler starts both runs every day, and a run takes its next step. A read that ages
\* and a poll of the day happen; that TMDB moves, a story or an import comes does not.
Fairness ==
    /\ WF_vars(TmdbRun) /\ WF_vars(SweepRun)
    /\ \A f \in Films : WF_vars(GrowsOld(f)) /\ WF_vars(PollFilm(f))
-----------------------------------------------------------------------------
(***************************************************************************)
(* Properties.                                                             *)
(***************************************************************************)

\* Failures that could end a phase before it reaches anything else.
FewFailures ==
    Cardinality({f \in Films : tmdb[f].answer = "error"})
      + Cardinality({p \in People : person[p] = "error"}) < Threshold

\* The promotion gap is closed (refresh_phase.py): as long as a film is in play and TMDB has
\* it, its row is read again and again, popular or not, dated or not, dormant or tombstoned
\* before, whatever number of the other ids are gone and whatever dies.
InPlayIsReread ==
    \A f \in Films :
      <>[](InPlay(f) /\ tmdb[f].answer = "ok" /\ FewFailures) => []<>(f \in touched)

\* What the people of the catalogue vouch for is admitted (enumerate_phase.py): people TMDB has
\* deleted cost the sweep nothing.
Vouched(f) ==
    LET reached == {a \in UNION {Attachments(p) : p \in Enumerated} : a[1] = f /\ person[a[2]] = "ok"}
    IN  /\ tmdb[f].answer = "ok" /\ tmdb[f].date = "undated" /\ ~ Skipped(f)
        /\ Cardinality({a[2] : a \in reached}) >= Corroboration
        /\ {a[3] : a \in reached} \cap Tranches # {}

VouchedIsAdmitted ==
    \A f \in Films : <>[](Vouched(f) /\ FewFailures) => <>(film[f].held)

\* A cancellation is told (field_events.py), also when the sweep dies between reading it and
\* carding it, and whatever the film was carded for before: discover skips a canceled film,
\* so the sweep must not take it for one discover has read.
CancellationIsCarded ==
    \A f \in Films :
      <>[](/\ film[f].held /\ film[f].date # "opened" /\ film[f].status # "Released"
           /\ tmdb[f].answer = "ok" /\ tmdb[f].status = "Canceled" /\ FewFailures)
      => <>(<<f, "canceled">> \in cards)

\* A tombstone is not permanent (poll_set_clause in ingest/providers.py: "`upsert_film` clears
\* the tombstone whenever TMDB answers for the id again").
TombstoneLifts ==
    \A f \in Films :
      <>[](film[f].held /\ tmdb[f].answer = "ok" /\ FewFailures) => <>[](film[f].held /\ film[f].missing = "no")
=============================================================================
