------------------------------ MODULE MCCredits ------------------------------
(***************************************************************************)
(* Small instances of Credits for TLC.  A behaviour is about one person on *)
(* two films (bursts, releases and a story in between), or about two       *)
(* persons on one film who come and go, with a pass that fails or dies.    *)
(***************************************************************************)
EXTENDS Credits, TLC

CONSTANTS annDirects, annActs, bobActs, ann, bob, first, second, About
VARIABLE about

mcvars == <<vars, about>>

MCFilmOf   == [c \in Credits |-> IF c = annDirects THEN second ELSE first]
MCPersonOf == [c \in Credits |-> IF c = bobActs THEN bob ELSE ann]
MCTypeOf   == [c \in Credits |-> IF c = annDirects THEN "crew_attached" ELSE "casting"]

Seen == IF about = "burst" THEN {annDirects, annActs} ELSE {annActs, bobActs}

\* A burst is of credits the baseline did not have.
MCInit == Init /\ about \in About /\ live \subseteq Seen \ {annDirects} /\ (about = "burst" => live = {})

\* Each question has its credits and its troubles.
MCNext ==
    /\ Next
    /\ about' = about
    /\ live' \subseteq Seen
    /\ IF about = "burst"
       THEN faults' = 0 /\ \A f \in Films : <<f, bob>> \notin told'
       ELSE stories' = 0

MCSpec == MCInit /\ [][MCNext]_mcvars
=============================================================================
