----------------------------- MODULE MCReaders -----------------------------
(***************************************************************************)
(* Small instances for TLC of what a reader does to the program: their     *)
(* account (Accounts) and the watchlists they import (Imports).  The two   *)
(* share no state here, so a behaviour is about one question: the door     *)
(* (invites, failures, sessions; no link is minted), the links (no invite  *)
(* is issued, no failure recorded, no session ended while a request is in  *)
(* flight), the review lists (uploads, confirms and follows of one user    *)
(* who stays entitled, without a restart) or the credential of an account  *)
(* import (two users, a lapsing grant, empty watchlists: it does not       *)
(* depend on the rows).                                                    *)
(***************************************************************************)
EXTENDS Accounts, Imports, TLC

VARIABLE about

Importer == CHOOSE u \in Importers : TRUE

MCInit == Init /\ ImportsInit /\ about \in {"door", "links", "lists", "credential"}

MCAccounts ==
    /\ about \in {"door", "links"}
    /\ Next
    /\ about = "door" => link' = link
    /\ about = "links" => UNCHANGED <<failures, invite>>
    /\ about = "links" /\ account' = account =>
          \A s \in Sessions : session'[s] # session[s] =>
                session[s] = NoSession \/ \A r \in Requests : req[r] = Idle
    /\ UNCHANGED <<imports, about>>

MCImports ==
    /\ about \in {"lists", "credential"}
    /\ ImportsNext
    /\ IF about = "lists"
       THEN /\ UNCHANGED <<token, tmdbSession, entitled, restarts>>
            /\ \A r \in ImportRequests : import'[r].user \in {NoOne, Importer}
            /\ \A uf \in Importers \X Films : uf[1] # Importer => follow'[uf] = follow[uf]
       ELSE /\ UNCHANGED <<follow, kept, held, cand>>
            /\ \A j \in Jobs : task'[j].total = 0
            /\ \A r \in ImportRequests :
                  import'[r].user \notin {NoOne, Importer} => import'[r].token # NoToken
            /\ entitled' \subseteq entitled /\ Importers \ {Importer} \subseteq entitled'
    /\ UNCHANGED <<vars, about>>

MCNext == MCAccounts \/ MCImports
MCSpec == MCInit /\ [][MCNext]_<<vars, imports, about>>

\* The members of each of these sets are interchangeable.  The configuration gives Jobs the
\* values of Links and ImportRequests those of Requests: no behaviour uses both.
Symmetry == Permutations(Requests) \cup Permutations(Links)
            \cup Permutations(Emails) \cup Permutations(Users)
=============================================================================
