------------------------------ MODULE MCDigest ------------------------------
(***************************************************************************)
(* Small instances of Digest for TLC.  A behaviour is about the daily and  *)
(* the weekly slot at work on one reader at the same time, or about the    *)
(* weekly slot and all its readers under fairness.                         *)
(***************************************************************************)
EXTENDS Digest

CONSTANTS daily, weekly, About
VARIABLE about

mcvars == <<vars, about>>

MCCadenceOf == [s \in Slots |-> IF s = daily THEN "daily" ELSE "weekly"]

\* Whom and which slots a behaviour is about.
Readers == IF about = "overlap" THEN {1} ELSE Users
AtWork == IF about = "overlap" THEN Slots ELSE {weekly}

MCInit ==
    /\ about \in About
    /\ row = [p \in Pair |-> "none"]
    /\ card = [e \in Events |-> "published"]
    /\ admitted = Readers /\ following = Readers
    /\ cadence = [u \in Users |-> IF u \in Readers THEN "unset" ELSE "off"]
    /\ token = [u \in Users |-> 0] /\ minted = [u \in Users |-> 0]
    /\ slot = [s \in Slots |-> Idle]
    /\ faults = 0 /\ changes = IF about = "overlap" THEN 0 ELSE MaxChanges - 1
    /\ owed = {}
    /\ copies = [p \in Pair |-> 0] /\ lost = [p \in Pair |-> 0]
    /\ links = {} /\ orphans = {} /\ moved = {}

\* The others stay as they are; nobody chooses a cadence no slot at work serves.
MCNext ==
    /\ Next
    /\ about' = about
    /\ \A s \in Slots \ AtWork : slot'[s] = slot[s]
    /\ \A u \in Users \ Readers :
          /\ cadence'[u] = cadence[u] /\ token'[u] = token[u]
          /\ u \notin admitted' /\ u \notin following'
    /\ about = "settles" => \A u \in Users : cadence'[u] # "daily"

MCSpec ==
    /\ MCInit /\ [][MCNext]_mcvars
    /\ \A s \in Slots : WF_mcvars(s \in AtWork /\ SlotStep(s) /\ about' = about)
=============================================================================
