----------------------------- MODULE MCCatalogue -----------------------------
(***************************************************************************)
(* Three questions of one catalogue, each of its own beginnings: are the   *)
(* films in play re-read, are those vouched for admitted, are              *)
(* cancellations told.  A fourth: does a film that opened lose its         *)
(* tombstone.                                                              *)
(***************************************************************************)
EXTENDS Catalogue

CONSTANT About

VARIABLE about

mcvars == <<vars, about>>

MCCredits == [f \in Films |->
    IF f = 3 THEN {<<11, "director">>, <<12, "writer">>, <<13, "extra">>}
    ELSE IF f = 1 THEN {<<11, "director">>, <<12, "cast">>} ELSE {}]

Kept(date, status) == [held |-> TRUE, date |-> date, status |-> status,
                       missing |-> "no", quiet |-> FALSE, stale |-> FALSE]
AtTmdb(answer, date, status) == [answer |-> answer, date |-> date, status |-> status]

\* A film below the floor that has a date or not, behind a popular one that may fail.
Reread ==
    /\ \E d \in {"undated", "ahead"} :
          film = [f \in Films |-> CASE f = 2 -> Kept(d, "Planned")
                                   [] f = 4 -> Kept("ahead", "Planned")
                                   [] OTHER -> NotHeld]
    /\ \E a \in {"ok", "error"} :
          tmdb = [f \in Films |-> CASE f = 2 -> AtTmdb("ok", film[2].date, "Planned")
                                   [] f = 4 -> AtTmdb(a, "ahead", "Planned")
                                   [] OTHER -> AtTmdb("gone", "ahead", "Planned")]
    /\ order = <<4, 2>>
    /\ person = [p \in People |-> "gone"] /\ dead = People
    /\ changes = {} /\ cards = {}

\* A film whose people vouch for the one the catalogue lacks.
Vouching ==
    /\ film = [f \in Films |-> IF f = 1 THEN Kept("ahead", "Planned") ELSE NotHeld]
    /\ tmdb = [f \in Films |-> AtTmdb(IF f \in {2, 4} THEN "gone" ELSE "ok",
                                     IF f = 3 THEN "undated" ELSE "ahead", "Planned")]
    /\ order = <<1>>
    /\ person \in [People -> Answers] 
    /\ person[11] = "ok" /\ person[12] # "error" /\ person[14] = "gone"
    /\ dead = {} /\ changes = {} /\ cards = {}

\* A film that has opened, and that TMDB has mislaid.
Opened ==
    /\ film = [f \in Films |-> IF f = 2 THEN Kept("opened", "Released") ELSE NotHeld]
    /\ tmdb = [f \in Films |-> AtTmdb("gone", IF f = 2 THEN "opened" ELSE "ahead", "Released")]
    /\ order = <<2>>
    /\ person = [p \in People |-> "gone"] /\ dead = People
    /\ changes = {} /\ cards = {}

\* A film that went into production, and TMDB calls it off.
CalledOff ==
    /\ film = [f \in Films |-> IF f = 1 THEN Kept("ahead", "In Production") ELSE NotHeld]
    /\ tmdb = [f \in Films |-> AtTmdb(IF f \in {2, 4} THEN "gone" ELSE "ok", "ahead",
                                     IF f = 3 THEN "Released" ELSE "In Production")]
    /\ order = <<1>>
    /\ person = [p \in People |-> "gone"] /\ dead = People
    /\ \E S \in {{}, {1}} : changes = S \X {"In Production"}
    /\ cards = {}

MCInit ==
    /\ about \in About
    /\ CASE about = "reread" -> Reread
         [] about = "vouched" -> Vouching
         [] about = "canceled" -> CalledOff
         [] about = "opened" -> Opened
    /\ touched = {} /\ touching = {}
    /\ discover = Idle /\ sweep = Idle
    /\ moves = IF about = "vouched" THEN MaxMoves ELSE 0
    /\ deaths = IF about = "reread" THEN MaxDeaths ELSE 0

\* What a question is not about stays as it is.
Bystanders(a) == IF a \in {"vouched", "canceled"} THEN {2, 4} ELSE {1, 3}

MCNext ==
    /\ Next
    /\ about' = about
    /\ about # "vouched" => UNCHANGED person
    /\ \A f \in Bystanders(about) : tmdb'[f] = tmdb[f]

MCSpec == MCInit /\ [][MCNext]_mcvars /\ Fairness
=============================================================================
