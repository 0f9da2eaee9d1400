----------------------------- MODULE MCStories -----------------------------
(***************************************************************************)
(* Small instances of Stories for TLC. A behaviour is about one kind of    *)
(* beat, about the texts of a card the catalog and the trade share, or     *)
(* about two link runs at a time.                                          *)
(***************************************************************************)
EXTENDS Stories, TLC

CONSTANTS About,     \* what behaviours are about
          First      \* the process that runs the link stage where one does
VARIABLE about

Beat == CASE about \in {"texts", "overlap"} -> "production_start"
          [] about = "redated" -> "release_date"
          [] OTHER -> about

MCInit == StoriesInit /\ about \in About
MCNext ==
    /\ StoriesNext
    /\ about' = about
    /\ \A e \in Events : event'[e].beat \in {"none", Beat}
    /\ about # "casting" => uncarded' = {}
    /\ about \notin {"release_date", "redated"} => moves' = {}
    /\ about \in {"casting", "texts", "overlap"} => day' = 1
    /\ about \in {"release_date", "trailer", "overlap"} => wrapped' = FALSE
    /\ about \in {"casting", "release_date", "texts", "overlap"} => blocked' = {}
    /\ about # "texts" => synth' = {} /\ \A e \in Events : ~ text'[e].edited
    /\ about \in {"release_date", "overlap"} => event'[3].at = "absent"
    /\ about = "release_date" => moves' \subseteq {1, 2}
    /\ about # "overlap" => \A r \in Runners \ {First} : pass'[r] = Resting
    /\ about = "overlap" => \E s \in Stories : story'[s].status = "absent"
MCSpec == MCInit /\ [][MCNext]_<<storiesVars, about>>

Symmetry == Permutations(Stories) \cup Permutations(Names)
=============================================================================
