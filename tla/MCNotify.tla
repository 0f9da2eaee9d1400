------------------------------ MODULE MCNotify ------------------------------
(***************************************************************************)
(* Small instances of Notify for TLC: every follow reaches every card. A   *)
(* behaviour is about slots that follow one another, with every reader, or *)
(* about passes that overlap, with one.                                    *)
(***************************************************************************)
EXTENDS Notify, TLC

CONSTANT Loner      \* the one reader of the overlapping passes
VARIABLE about

MCScope == Users \X Events

Alive == {n \in Runs : pass[n].pc \notin {"idle", "over"}}

MCInit == Init /\ about \in {"slots", "overlap"}
MCNext ==
    /\ Next
    /\ about' = about
    /\ about = "slots" => Cardinality(Alive') <= 1
    /\ about = "overlap" => following' \subseteq {Loner}
MCSpec == MCInit /\ [][MCNext]_<<vars, about>>
=============================================================================
