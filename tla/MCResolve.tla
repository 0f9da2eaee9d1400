------------------------------ MODULE MCResolve ------------------------------
(***************************************************************************)
(* Small instances of Resolve for TLC.  A behaviour is about the mentions  *)
(* of one film, or is a single decision: between two namesakes, or about   *)
(* which organisations are considered.                                     *)
(***************************************************************************)
EXTENDS Resolve, TLC

CONSTANTS About, Namesake, Homonym, Director, Studio, Sibling, m1, m2, m3, s1, s2, s3, Trade
VARIABLES about, given

MCMentions == <<m1, m2, m3>>
MCStoryOf  == (m1 :> s1) @@ (m2 :> s2) @@ (m3 :> s3)
MCOutlet   == (s1 :> Trade) @@ (s2 :> Trade) @@ (s3 :> NoOutlet)
MCLink     == (s1 :> 9000) @@ (s2 :> 5300) @@ (s3 :> Unknown)
Said(arm, name) == [arm |-> arm, name |-> name, role |-> None, department |-> None,
                    films |-> {}, beat |-> "casting"]
MCWrote == (m1 :> Said("person", "chris")) @@ (m2 :> Said("person", "chris"))
           @@ (m3 :> Said("organisation", "warner"))

SpeltAs(chris, warner) == ("chris" :> chris) @@ ("warner" :> warner)
Fact(spelled, grade, born, died, popularity) ==
    [spelled |-> spelled, grade |-> grade, born |-> born, died |-> died,
     popularity |-> popularity, jobs |-> {}, departments |-> {}, knownFor |-> None, films |-> {}]
MCFacts == (Namesake :> Fact(SpeltAs({"exact"}, {}), 2, 40, Unknown, 1))
        @@ (Homonym  :> Fact(SpeltAs({"normalized"}, {}), 0, 90, 30, 2))
        @@ (Director :> Fact(SpeltAs({}, {}), 1, 50, Unknown, 0))
        @@ (Studio   :> Fact(SpeltAs({}, {"exact"}), 0, Unknown, Unknown, 5))
        @@ (Sibling  :> Fact(SpeltAs({}, {"reduced"}), 0, Unknown, Unknown, 1))
MCSearchOrder == <<Namesake, Homonym, Director, Studio, Sibling>>

\* Two namesakes, whatever else is known of them.
Feature == [credited : BOOLEAN, changed : BOOLEAN, agree : {-1, 0, 1}, dates : {-1, 0, 1},
            film : BOOLEAN]
Person(f, name, n) ==
    [id |-> n, place |-> n, popularity |-> n, spelled |-> {name}, credited |-> f.credited,
     changed |-> f.changed, jobs |-> {}, knownFor |-> IF f.agree = 1 THEN "acting" ELSE None,
     departments |-> IF ~f.credited THEN {} ELSE IF f.agree = 1 THEN {"acting"}
                     ELSE IF f.agree = -1 THEN {"directing"} ELSE {},
     films |-> IF f.film THEN {"titled"} ELSE {},
     born |-> CASE f.dates = 1 -> 40 [] f.dates = 0 -> Unknown [] f.dates = -1 -> 1,
     died |-> Unknown]
Heard == [arm |-> "person", name |-> "chris", role |-> None, department |-> "acting",
          films |-> {"titled"}, beat |-> "casting"]

Nothing == [name |-> "exact", f |-> CHOOSE f \in Feature : TRUE,
            g |-> CHOOSE f \in Feature : TRUE, attached |-> <<>>, hits |-> <<>>]
Pairs == {[Nothing EXCEPT !.name = n, !.f = f, !.g = g] :
            n \in {"exact", "normalized"},
            f \in {x \in Feature : x.agree = -1 => x.credited},
            g \in {x \in Feature : x.agree = -1 => x.credited}}
Caps  == {[Nothing EXCEPT !.attached = Within(<<1, 2, 3, 4>>, A), !.hits = Within(<<6, 3, 5, 2, 7>>, H)] :
            A \in SUBSET (1..4), H \in SUBSET {2, 3, 5, 6, 7}}

MCInit ==
    /\ Init
    /\ held \in {{Director}, {Director, Studio}} /\ recent = {} /\ dated = {}
    /\ listed \cap People \in {{}, {Namesake}, {Namesake, Homonym}}
    /\ listed \cap Orgs \in {{}, Orgs}
    /\ about \in About
    /\ about # "stage" => held = {Director} /\ listed = {}
    /\ given \in (CASE about = "pair" -> Pairs [] about = "cap" -> Caps [] OTHER -> {Nothing})
MCNext == /\ about = "stage" /\ Next /\ UNCHANGED <<about, given>>
          /\ Director \notin recent' \cup listed'
          /\ Sibling \notin held'
MCSpec == /\ MCInit /\ [][MCNext]_<<vars, about, given>>
          /\ WF_vars(StartRun) /\ WF_vars(EndArm) /\ WF_vars(\E m \in All : Begin(m))
          /\ SearchesSucceed
          /\ SF_vars(\E m \in All : Ask(m)) /\ SF_vars(\E m \in All : Write(m))
-----------------------------------------------------------------------------
\* Of two people of the name who differ in one feature alone, the one on the film, the one the
\* dates fit and not the other, or the one the department fits and not the other is accepted;
\* popularity, the change stream, another film, or being better documented decide nothing.  A
\* bare name that the dates contradict is nobody.
NamesakesSeparate ==
    about = "pair" =>
      LET f == given.f
          g == given.g
          ranked == Rank({Person(f, given.name, 1), Person(g, given.name, 2)}, Heard)
          path == RoutePerson(ranked, Heard, FALSE)
          differ == {k \in DOMAIN f : f[k] # g[k]}
          better == CHOOSE n \in 1..2 : n = IF differ = {} THEN 1 ELSE
                      LET k == CHOOSE k \in differ : TRUE
                      IN  IF k \in {"agree", "dates"} THEN IF f[k] > g[k] THEN 1 ELSE 2
                                                      ELSE IF f[k] THEN 1 ELSE 2
          alone == \/ differ = {"credited"}
                   \/ \E k \in {"agree", "dates"} : differ = {k} /\ {f[k], g[k]} = {1, -1}
      IN  /\ alone => path = "accepted" /\ ranked[1].id = better
          /\ ~alone /\ Cardinality(differ) <= 1 => path # "accepted"
          /\ f.dates = -1 /\ ~f.credited /\ ~f.changed /\ f.agree = 0 /\ ~f.film
                => Score(Person(f, given.name, 1), Heard) < Floor

\* The film's own organisations leave half of the places to the search, those the search found
\* too come first, and nobody is left out while there is room.
HitsKeepTheirPlaces ==
    about = "cap" =>
      LET got  == Range(OrgCandidates(given.attached, given.hits, 4))
          A    == Range(given.attached)
          H    == Range(given.hits)
          only == Without(given.hits, A)
      IN  /\ Range(Take(only, 2)) \subseteq got
          /\ Cardinality(A \cap H) <= 2 => A \cap H \subseteq got
          /\ Cardinality(got) = IF Cardinality(A \cup H) < 4 THEN Cardinality(A \cup H) ELSE 4

\* What decides between candidates, and who is one.
ScoringIsFair == NamesakesSeparate /\ HitsKeepTheirPlaces
=============================================================================
