------------------------------- MODULE Resolve -------------------------------
(***************************************************************************)
(* Resolution: which person, studio or franchise a trade story named       *)
(* (link/resolve/).                                                        *)
(*                                                                         *)
(* The stage follows clustering in a link run and works two backlogs, the  *)
(* person mentions and then the organisation mentions.  One mention is     *)
(* looked up in the cache of the outlet, or searched for on TMDB and       *)
(* scored against the candidates found; the candidates the arithmetic      *)
(* cannot separate are put to a model.  Every mention has a transaction of *)
(* its own, and fails alone.                                               *)
(*                                                                         *)
(* The weights and the thresholds are the code's, in hundredths; a score   *)
(* is in ten-thousandths, the four decimals it is rounded to.  How the     *)
(* spelling of a story relates to one of TMDB is a datum.  The supersession*)
(* a resolved departure triggers is in Organisations.                      *)
(***************************************************************************)
EXTENDS Naturals, Integers, Sequences, FiniteSets, SequencesExt

CONSTANTS
    People, Orgs,
    Mentions,       \* the mentions of news.story_person and news.story_entity, oldest first
    Wrote,          \* [Mentions -> what the extraction reported]
    StoryOf,        \* [Mentions -> Articles], the story it was read in
    Articles, Outlet, Link,  \* and, of each story, its publisher and link_confidence
    NoOutlet,       \* the outlet of a redirect nobody has resolved
    Facts,          \* what TMDB says of an entity: [People \cup Orgs -> facts]
    SearchOrder,    \* every entity, in TMDB's order of relevance
    Cap,            \* CANDIDATE_CAP and ORG_CANDIDATE_CAP
    Limit,          \* RESOLVE_MENTIONS_PER_RUN
    MaxChanges      \* bound on what else happens

Entities == People \cup Orgs
Arms     == {"person", "organisation"}
Nobody   == "nobody"

ASSUME ResolveAssumption ==
    /\ People \cap Orgs = {} /\ Nobody \notin Entities /\ IsInjective(Mentions)
    /\ SearchOrder \in Seq(Entities) /\ Range(SearchOrder) = Entities /\ IsInjective(SearchOrder)
    /\ \A e \in Entities : Facts[e].popularity \in Nat
    /\ \A p \in People : Facts[p].grade \in Nat
    /\ \A i \in DOMAIN Mentions : Wrote[Mentions[i]].arm \in Arms /\ StoryOf[Mentions[i]] \in Articles
    /\ \A s \in Articles : Link[s] \in Nat
    /\ Cap \in Nat \ {0} /\ Limit \in Nat \ {0} /\ MaxChanges \in Nat

All    == Range(Mentions)
Arm(m) == Wrote[m].arm
Of(arm) == IF arm = "person" THEN People ELSE Orgs
-----------------------------------------------------------------------------
(***************************************************************************)
(* Who is considered: build_candidates and build_org_candidates.           *)
(***************************************************************************)
Take(s, n) == SubSeq(s, 1, IF n < Len(s) THEN IF n < 0 THEN 0 ELSE n ELSE Len(s))

\* The elements of S, each behind those that R puts before it: SetToSortSeq, for an order that
\* is a relation.
Sorted(S, R) ==
    [i \in 1..Cardinality(S) |->
       CHOOSE e \in S : Cardinality({d \in S : <<d, e>> \in R}) = i - 1]

\* Of a sequence without repetitions, what is in S and what is not.
PlaceIn(s, e) == CHOOSE i \in DOMAIN s : s[i] = e
Within(s, S)  == Sorted(Range(s) \cap S,
                        {p \in Range(s) \X Range(s) : PlaceIn(s, p[1]) < PlaceIn(s, p[2])})
Without(s, S) == Within(s, Range(s) \ S)

\* The seed-grade credits, strongest attachment first; the change stream, latest first; then the
\* hits in TMDB's order.
PersonCandidates(graded, changed, hits, cap) ==
    LET stream == Without(changed, Range(graded))
    IN  Take(graded \o stream \o Without(hits, Range(graded) \cup Range(changed)), cap)

\* What the film holds and the search returned, the rest of what it holds, then the other
\* hits, for which half of the places are kept.
OrgCandidates(attached, hits, cap) ==
    LET searched == Without(hits, Range(attached))
        reserved == IF Len(searched) < cap \div 2 THEN Len(searched) ELSE cap \div 2
        anchored == Within(attached, Range(hits)) \o Without(attached, Range(hits))
    IN  Take(Take(anchored, cap - reserved) \o searched, cap)

-----------------------------------------------------------------------------
(***************************************************************************)
(* Scoring.  A candidate c is [id, spelled, credited, changed, jobs,       *)
(* departments, knownFor, films, born, died, popularity]: `spelled` relates*)
(* its names to the one written, `born` and `died` count years before the  *)
(* story (Unknown when TMDB has no date).  A mention w is [arm, name, role,*)
(* department, films, beat], "" where the extraction said nothing.         *)
(***************************************************************************)
Unknown == 999
None    == ""

Floor  == 5000
Margin == 1200
Weight == [name |-> 55, credited |-> 15, age |-> 8, changed |-> 8, department |-> 7, films |-> 7]

\* The strongest of the qualities of a candidate's two spellings.
PersonQuality(c) == IF "exact" \in c.spelled THEN 100
                    ELSE IF "normalized" \in c.spelled THEN 95
                    ELSE IF "suffix" \in c.spelled THEN 85
                    ELSE IF "initials" \in c.spelled THEN 60
                    ELSE 0
\* No initials and no generations for a studio; a catalogue suffix is no difference.
OrgQuality(c) == IF "exact" \in c.spelled THEN 100
                 ELSE IF c.spelled \cap {"normalized", "reduced"} # {} THEN 95
                 ELSE 0

\* The role against the jobs on this film first, then the department; only the departments of
\* credits on this film contradict.
DepartmentAgreement(c, w) ==
    IF w.role # None /\ w.role \in c.jobs THEN 1
    ELSE IF w.department = None THEN 0
    ELSE IF c.departments # {} THEN IF w.department \in c.departments THEN 1 ELSE -1
    ELSE IF c.knownFor = w.department THEN 1 ELSE 0

CrewJobs == {"director", "writer", "screenplay"}
MinAge(w) == LET crew == IF w.department # None THEN w.department # "acting"
                                                ELSE w.role \in CrewJobs
             IN  IF crew THEN 16 ELSE 3

\* date_contradiction with POSTHUMOUS_YEARS 2; dead the day of the story is dead, dead later is not.
Implausible(c, w) == \/ c.died # Unknown /\ c.died >= 2
                     \/ c.born # Unknown /\ c.born < MinAge(w)
\* Mutant: the dates only ever count against a candidate.
AgePenalty(c, w) == IF Implausible(c, w) THEN -1 ELSE 0
AgePlausibility(c, w) ==
    IF Implausible(c, w) THEN -1
    ELSE IF c.born = Unknown \/ (c.died # Unknown /\ c.died >= 0) THEN 0
    ELSE 1

PersonScore(c, w) ==
    LET bonus == (IF c.credited THEN Weight.credited ELSE 0)
               + (IF c.changed THEN Weight.changed ELSE 0)
               + Weight.age * AgePlausibility(c, w)
               + Weight.department * DepartmentAgreement(c, w)
               + (IF c.films \cap w.films # {} THEN Weight.films ELSE 0)
    IN  PersonQuality(c) * (Weight.name + bonus)     \* never negative with these weights
OrgScore(c, w) == OrgQuality(c) * (Weight.name + (IF c.credited THEN Weight.credited ELSE 0))

Score(c, w) == IF w.arm = "person" THEN PersonScore(c, w) ELSE OrgScore(c, w)

\* Best first; the popularity prior orders equal scores and does nothing else.
Outranks(c, d, w) ==
    \/ Score(c, w) > Score(d, w)
    \/ Score(c, w) = Score(d, w) /\ \/ c.popularity > d.popularity
                                    \/ c.popularity = d.popularity /\ c.place < d.place
Rank(cs, w) == Sorted(cs, {p \in cs \X cs : Outranks(p[1], p[2], w)})

Best(ranked, w) == IF ranked = <<>> THEN 0 ELSE Score(ranked[1], w)
Ahead(ranked, w) == Best(ranked, w) - (IF Len(ranked) < 2 THEN 0 ELSE Score(ranked[2], w))

\* The search returned nobody, for somebody who is said to work on the film.
ClaimsADebut(w, empty) ==
    empty /\ (w.role # None \/ w.beat \in {"casting", "announced", "production_start"})

Capped(score, link) == IF link = Unknown \/ score < link THEN score ELSE link

RoutePerson(ranked, w, empty) ==
    IF Best(ranked, w) < Floor THEN IF ClaimsADebut(w, empty) THEN "not_in_tmdb" ELSE "unlinked"
    ELSE IF Ahead(ranked, w) >= Margin THEN "accepted" ELSE "tiebreak"
\* TMDB finds a studio by the studio's own name: an empty answer is an absence.
RouteOrg(ranked, w, empty) ==
    IF Best(ranked, w) < Floor THEN IF empty THEN "not_in_tmdb" ELSE "unlinked"
    ELSE IF Ahead(ranked, w) >= Margin THEN "accepted" ELSE "tiebreak"
Route(ranked, w, empty) ==
    IF w.arm = "person" THEN RoutePerson(ranked, w, empty) ELSE RouteOrg(ranked, w, empty)
-----------------------------------------------------------------------------
(***************************************************************************)
(* The stage of the link run.                                              *)
(***************************************************************************)
VARIABLES
    linked,     \* the stories still linked to the film
    held,       \* film_credit, film_production_company and collection_id of the film
    recent,     \* the people of film_credit_change within CHANGE_STREAM_WINDOW_DAYS
    listed,     \* what TMDB's search can return
    catalog,    \* the entities with a row in the catalog
    dated,      \* the people whose details_observed_at is stamped
    decided,    \* the decision columns of the mentions
    cache,      \* news.resolution_cache
    run,        \* the run in progress
    spent,      \* what its calls to the model have cost
    row,        \* its ingest.llm_usage row for the stage
    changes     \* how much else has happened

facts == <<held, recent, listed, changes>>
vars  == <<linked, facts, catalog, dated, decided, cache, run, spent, row>>

Undecided == [path |-> "pending", entity |-> Nobody, conf |-> 0]
NoJob     == [m |-> Mentions[1], hits |-> {}, ranked |-> <<>>, answer |-> Undecided, read |-> {}]
\* `asked`, `used` and `carried` are tiebreak_asked, usage and carried_usage; `memo` what the
\* person pass remembers of the dates it asked for.
NoRun     == [pc |-> "idle", arm |-> "person", queue |-> <<>>, job |-> NoJob,
              memo |-> [p \in {} |-> TRUE], asked |-> FALSE, used |-> 0, carried |-> 0]

Paths == {"accepted", "tiebreak", "unlinked", "not_in_tmdb"}

TypeOK ==
    /\ linked \subseteq Articles
    /\ held \subseteq catalog /\ recent \subseteq catalog \cap People
    /\ listed \subseteq Entities /\ catalog \subseteq Entities /\ dated \subseteq catalog
    /\ \A m \in All : \/ decided[m] = Undecided
                      \/ /\ decided[m].path \in Paths
                         /\ decided[m].entity \in catalog \cup {Nobody}
    /\ run.pc \in {"idle", "next", "search", "ask", "write", "over"} /\ run.arm \in Arms
    /\ spent \in Nat /\ row \in Nat /\ changes \in 0..MaxChanges

Init ==
    /\ linked = Articles
    /\ held \in SUBSET Entities /\ recent \in SUBSET People /\ listed \in SUBSET Entities
    /\ catalog = held \cup recent /\ dated \in SUBSET (catalog \cap People)
    /\ decided = [m \in All |-> Undecided]
    /\ cache = <<>> /\ run = NoRun /\ spent = 0 /\ row = 0 /\ changes = 0

\* Mutant: a mention nobody is named for is still to be resolved.
Unnamed(m) == decided[m].entity = Nobody /\ StoryOf[m] \in linked
\* path IS NULL of a linked story.
Pending(m) == decided[m].path = "pending" /\ StoryOf[m] \in linked

Backlog(arm) == Take(SelectSeq(Mentions, LAMBDA m : Arm(m) = arm /\ Pending(m)), Limit)

StartRun ==
    /\ run.pc \in {"idle", "over"}
    /\ run' = [NoRun EXCEPT !.pc = "next", !.queue = Backlog("person")]
    /\ spent' = 0 /\ row' = 0
    /\ UNCHANGED <<linked, facts, catalog, dated, decided, cache>>

Key(m)     == <<Outlet[StoryOf[m]], Wrote[m].name, Arm(m)>>
Cached(m)  == Outlet[StoryOf[m]] # NoOutlet /\ Key(m) \in DOMAIN cache
LinkOf(m)  == Link[StoryOf[m]]

\* A hit reads as an accept, its confidence capped again by this story's link.
CachedDecision(m) == [path |-> "accepted", entity |-> cache[Key(m)].entity,
                      conf |-> Capped(cache[Key(m)].conf, LinkOf(m))]

Next1(r) == [r EXCEPT !.pc = "next", !.queue = Tail(r.queue), !.job = NoJob]

\* The head of the queue: gone from the backlog, answered by the cache, or to be searched for.
Begin(m) ==
    /\ run.pc = "next" /\ run.queue # <<>> /\ m = run.queue[1]
    /\ \/ /\ ~Pending(m)
          /\ run' = Next1(run) /\ UNCHANGED decided
       \/ /\ Pending(m) /\ Cached(m)
          /\ decided' = [decided EXCEPT ![m] = CachedDecision(m)]
          /\ run' = Next1(run)
       \/ /\ Pending(m) /\ ~Cached(m)
          /\ run' = [run EXCEPT !.pc = "search", !.job.m = m]
          /\ UNCHANGED decided
    /\ UNCHANGED <<linked, facts, catalog, dated, cache, spent, row>>

Spelled(e, m) == Facts[e].spelled[Wrote[m].name]
Place(e) == PlaceIn(SearchOrder, e)

\* The row's own dates, where one of the film's sources brought them; else those asked for.
PersonCandidate(p, m, known) ==
    [id |-> p, place |-> Place(p), spelled |-> Spelled(p, m), credited |-> p \in held,
     changed |-> p \in recent, popularity |-> Facts[p].popularity,
     jobs |-> IF p \in held \cup recent THEN Facts[p].jobs ELSE {},
     departments |-> IF p \in held THEN Facts[p].departments ELSE {},
     knownFor |-> Facts[p].knownFor, films |-> Facts[p].films,
     born |-> IF p \in known THEN Facts[p].born ELSE Unknown,
     died |-> IF p \in known THEN Facts[p].died ELSE Unknown]
OrgCandidate(o, m) ==
    [id |-> o, place |-> Place(o), spelled |-> Spelled(o, m), credited |-> o \in held,
     popularity |-> Facts[o].popularity]

Stored == dated \cap (held \cup recent)

\* The film's credits, its changes and its organisations.
Credited == held \cap People
Stream   == Within(SearchOrder, recent)
Attached == Within(SearchOrder, held \cap Orgs)

\* The seed-grade credits, by role and billing.
Stronger(p, q) == \/ Facts[p].grade < Facts[q].grade
                  \/ Facts[p].grade = Facts[q].grade /\ Place(p) < Place(q)
Graded == LET seeds == {p \in Credited : Facts[p].grade > 0}
          IN  Sorted(seeds, {pq \in seeds \X seeds : Stronger(pq[1], pq[2])})

\* The three sources of a person, the two of an organisation.
Considered(m, hits) ==
    IF Arm(m) = "person"
    THEN PersonCandidates(Graded, Stream, hits, Cap)
    ELSE OrgCandidates(Attached, hits, Cap)

\* Only a candidate the name does not rule out is asked for, once in a pass; `lost` are the
\* requests that fail, which the pass remembers as dates that cannot say.
Asked(ids, m) == {p \in ids : /\ PersonQuality([spelled |-> Spelled(p, m)]) > 0
                              /\ p \notin DOMAIN run.memo}
Fetched(ids, m) == {p \in Asked(ids, m) : p \notin dated}

\* resolve_mention and resolve_org_mention over what was gathered.
Decide(m, ranked, empty) ==
    LET path == Route(ranked, Wrote[m], empty)
    IN  [path |-> path, entity |-> IF path = "accepted" THEN ranked[1].id ELSE Nobody,
         conf |-> Capped(Best(ranked, Wrote[m]), LinkOf(m))]

Scored(ranked, m) == [i \in DOMAIN ranked |-> [id |-> ranked[i].id,
                                               score |-> Score(ranked[i], Wrote[m])]]

Judged(m, hits, ranked, read, memo) ==
    LET answer == Decide(m, ranked, hits = <<>>)
    IN  run' = [run EXCEPT !.pc = IF answer.path = "tiebreak" THEN "ask" ELSE "write",
                           !.memo = memo,
                           !.job = [m |-> m, hits |-> Range(hits), read |-> read,
                                    ranked |-> Scored(ranked, m), answer |-> answer]]

Hits(m) == Within(SearchOrder, {e \in listed \cap Of(Arm(m)) : Spelled(e, m) # {}})

GatherPerson(m) ==
    /\ run.pc = "search" /\ m = run.job.m /\ Arm(m) = "person"
    /\ LET ids == Range(Considered(m, Hits(m)))
       IN  \E lost \in SUBSET Fetched(ids, m) :
             LET memo  == [p \in DOMAIN run.memo \cup Asked(ids, m) |->
                             IF p \in DOMAIN run.memo THEN run.memo[p] ELSE p \notin lost]
                 known == {p \in ids : p \in Stored \/ (p \in DOMAIN memo /\ memo[p])}
                 cs    == {PersonCandidate(p, m, known) : p \in ids}
             IN  \E ranked \in {Rank(cs, Wrote[m])} :
                   Judged(m, Hits(m), ranked, (Fetched(ids, m) \ lost) \cap catalog, memo)
    /\ UNCHANGED <<linked, facts, catalog, dated, decided, cache, spent, row>>

GatherOrg(m) ==
    /\ run.pc = "search" /\ m = run.job.m /\ Arm(m) = "organisation"
    /\ LET cs == {OrgCandidate(o, m) : o \in Range(Considered(m, Hits(m)))}
       IN  \E ranked \in {Rank(cs, Wrote[m])} : Judged(m, Hits(m), ranked, {}, run.memo)
    /\ UNCHANGED <<linked, facts, catalog, dated, decided, cache, spent, row>>
-----------------------------------------------------------------------------
(***************************************************************************)
(* The closed set: every ranked candidate is an option.                    *)
(***************************************************************************)

\* _with_tiebreak: an option names its person and keeps the route, none is unlinked, and an
\* answer that cannot be used changes nothing.
Option(job, i) == [path |-> "tiebreak", entity |-> job.ranked[i].id,
                   conf |-> Capped(job.ranked[i].score, LinkOf(job.m))]
Declined(job)  == [job.answer EXCEPT !.path = "unlinked"]
Replies(job)   == {Option(job, i) : i \in DOMAIN job.ranked} \cup {Declined(job), job.answer}

Ask(m) ==
    /\ run.pc = "ask" /\ m = run.job.m
    /\ \E answer \in Replies(run.job) :
         run' = [run EXCEPT !.pc = "write", !.job.answer = answer, !.asked = TRUE,
                            !.used = @ + 1]
    /\ spent' = spent + 1
    /\ UNCHANGED <<linked, facts, catalog, dated, decided, cache, row>>

\* Mutant: whoever is named is remembered.
RemembersAnyone(m, answer) == answer.entity # Nobody /\ Outlet[StoryOf[m]] # NoOutlet
\* Only an accept the arithmetic made is remembered.
Remembers(m, answer) == answer.path = "accepted" /\ Outlet[StoryOf[m]] # NoOutlet

\* The catalog gains the row of a named candidate the search found.
Ensured(job) == catalog \cup (job.hits \cap {job.answer.entity})
Refreshed(m, a) == [k \in DOMAIN cache \cup {Key(m)} |->
                      IF k = Key(m) THEN [entity |-> a.entity, conf |-> a.conf] ELSE cache[k]]

\* The transaction of the mention: the entity's row before the decision that names it.
Write(m) ==
    /\ run.pc = "write" /\ m = run.job.m
    /\ LET a == run.job.answer
       IN  /\ catalog' = Ensured(run.job)
           /\ dated' = dated \cup run.job.read
           /\ decided' = [decided EXCEPT ![m] = a]
           /\ cache' = IF Remembers(m, a) THEN Refreshed(m, a) ELSE cache
    /\ run' = Next1(run)
    /\ UNCHANGED <<linked, facts, spent, row>>

\* TMDB, the model or the database fails: the mention's transaction is lost, and what its
\* call cost is not.
Fail(m) ==
    /\ run.pc \in {"search", "ask", "write"} /\ m = run.job.m
    /\ run' = [Next1(run) EXCEPT !.asked = @ \/ run.pc = "ask"]
    /\ UNCHANGED <<linked, facts, catalog, dated, decided, cache, spent, row>>

\* One row per run and stage, written over: the second arm writes the sum of both.
Usage(r) == IF r.asked THEN r.carried + r.used ELSE row

EndArm ==
    /\ run.pc = "next" /\ run.queue = <<>>
    /\ row' = Usage(run)
    /\ run' = IF run.arm = "person"
              THEN [NoRun EXCEPT !.pc = "next", !.arm = "organisation",
                                 !.queue = Backlog("organisation"), !.carried = run.used]
              ELSE [NoRun EXCEPT !.pc = "over"]
    /\ UNCHANGED <<linked, facts, catalog, dated, decided, cache, spent>>

-----------------------------------------------------------------------------
(***************************************************************************)
(* The film, TMDB and the admin, at any time.                              *)
(***************************************************************************)
Changes == changes < MaxChanges /\ changes' = changes + 1
Rest    == UNCHANGED <<dated, decided, cache, run, spent, row>>

\* The process dies.
Kill == /\ run.pc \notin {"idle", "over"} /\ Changes
        /\ run' = NoRun
        /\ UNCHANGED <<linked, held, recent, listed, catalog, dated, decided, cache, spent, row>>

Join(e) == /\ e \notin held /\ Changes
           /\ held' = held \cup {e} /\ recent' = recent \cup ({e} \cap People)
           /\ catalog' = catalog \cup {e}
           /\ UNCHANGED <<linked, listed>> /\ Rest
Leave(e) == /\ e \in held /\ Changes
            /\ held' = held \ {e} /\ recent' = recent \cup ({e} \cap People)
            /\ UNCHANGED <<linked, listed, catalog>> /\ Rest
\* The change leaves the fortnight.
Forget(p) == /\ p \in recent /\ Changes
             /\ recent' = recent \ {p}
             /\ UNCHANGED <<linked, held, listed, catalog>> /\ Rest
\* TMDB gains a record.
List(e) == /\ e \notin listed /\ Changes
           /\ listed' = listed \cup {e}
           /\ UNCHANGED <<linked, held, recent, catalog>> /\ Rest
\* The admin rejects a story, or the linker's verdict is undone.
Unlink(s) == /\ s \in linked /\ Changes
             /\ linked' = linked \ {s}
             /\ UNCHANGED <<held, recent, listed, catalog>> /\ Rest
Next ==
    \/ StartRun \/ EndArm \/ Kill
    \/ \E m \in All : Begin(m) \/ GatherPerson(m) \/ GatherOrg(m) \/ Ask(m) \/ Write(m) \/ Fail(m)
    \/ \E e \in Entities : Join(e) \/ Leave(e) \/ Forget(e) \/ List(e)
    \/ \E s \in Articles : Unlink(s)
Spec == Init /\ [][Next]_vars

\* The runs recur, and the failures of TMDB and of the model do not last for ever.  The first
\* conjunct is strong fairness of the two Gather actions, one of which is enabled in every
\* "search" and leads to "ask" or "write", which nothing else reaches from there.
SearchesSucceed == []<>(run.pc = "search") => []<>(run.pc \in {"ask", "write"})
FairSpec == /\ Spec
            /\ WF_vars(StartRun) /\ WF_vars(EndArm) /\ WF_vars(\E m \in All : Begin(m))
            /\ SearchesSucceed
            /\ SF_vars(\E m \in All : Ask(m)) /\ SF_vars(\E m \in All : Write(m))
-----------------------------------------------------------------------------
(***************************************************************************)
(* Properties.                                                             *)
(***************************************************************************)

\* A remembered answer is one the arithmetic gave, to a mention of that outlet and that name:
\* a model's pick, which a human is to review, is never handed on as an accept.
CacheIsArithmetic ==
    \A k \in DOMAIN cache : \E m \in All :
      /\ Key(m) = k /\ decided[m].path = "accepted"
      /\ decided[m].entity = cache[k].entity /\ decided[m].conf = cache[k].conf

\* What resolution leaves behind is sound: the cache; whoever resolved it, the cache
\* included, a mention is no more certain than the link its own story rests on (INV-6); and
\* that a run that ends has on its one usage row what the calls of both arms cost, those made
\* for mentions that failed afterwards included.
RecordsAreSound ==
    /\ TypeOK
    /\ CacheIsArithmetic
    /\ \A m \in All : LinkOf(m) # Unknown => decided[m].conf <= LinkOf(m)
    /\ run.pc = "over" => row = spent

\* No mention waits for ever, whatever is ahead of it in a bounded run: its turn comes, and it
\* leaves the backlog even when it is resolved to nobody.
BacklogDrains == \A m \in All : Pending(m) ~> ~Pending(m)

\* A person or a studio is only ever named for a mention that writes one of its names.
NamedSharesTheName ==
    \A m \in All : decided[m].entity # Nobody => Spelled(decided[m].entity, m) # {}
=============================================================================
