--------------------------- MODULE MCOrganisations ---------------------------
(***************************************************************************)
(* Small instances of Organisations for TLC.  A behaviour is about two     *)
(* studios of a film, a studio of two films, a film's franchise, stories   *)
(* on a studio, two studios of two films of which one arrives in a burst,  *)
(* or a film every day of which has its pass.                              *)
(***************************************************************************)
EXTENDS Organisations, TLC

CONSTANTS f1, f2, c1, c2, k1, k2,
          About      \* what behaviours are about
VARIABLES about,
          passed     \* the days that had a pass, where that matters

FilmsOf    == [pair |-> {f1}, burst |-> {f1, f2}, franchise |-> {f1}, story |-> {f1},
               survivor |-> {f1, f2}, daily |-> {f1}]
EntitiesOf == [pair |-> {c1, c2}, burst |-> {c1}, franchise |-> {k1, k2}, story |-> {c1},
               survivor |-> {c1, c2}, daily |-> {c1}]

MCInit == /\ Init /\ about \in About /\ passed = {}
          /\ known \subseteq FilmsOf[about]
          /\ live \subseteq FilmsOf[about] \X EntitiesOf[about]
          /\ about = "survivor" => known = Films /\ live = {}
MCNext ==
    /\ Next
    /\ about' = about
    /\ passed' = IF about = "daily" /\ Confirm THEN passed \cup {clock} ELSE passed
    /\ about = "daily" => (clock' = clock \/ clock \in passed)
    /\ known' \subseteq FilmsOf[about]
    /\ live' \subseteq FilmsOf[about] \X EntitiesOf[about]
    /\ about # "story" => stories' = 0
    /\ about # "franchise" => faults' = 0
    /\ about # "burst" => (clock' = clock \/ sweep.pc = "idle")
    /\ \A i \in DOMAIN cards' : cards'[i].kind = "company" \/ about = "franchise"
    /\ about \in {"burst", "story"} => Cardinality(rows') <= 3
    /\ about = "survivor" => \A r \in rows' : r.at \in {1, 3}
    /\ \A i \in DOMAIN cards' : cards'[i].mentions \subseteq EntitiesOf[about]
MCSpec == MCInit /\ [][MCNext]_<<vars, about, passed>>

Symmetry == Permutations({k1, k2})
=============================================================================
