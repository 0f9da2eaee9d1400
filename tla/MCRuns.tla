------------------------------- MODULE MCRuns -------------------------------
(***************************************************************************)
(* Small instances for TLC of a run and of both edges of its process: the  *)
(* inbound limiter and the outbound calls.  They share no state, so a      *)
(* behaviour is about one of them: the runs of a task that chains stages   *)
(* and of one that has a single stage, the inbound buckets, the TMDB       *)
(* calls, or the mail and LLM calls with their gateway.                    *)
(***************************************************************************)
EXTENDS Runs, Outbound, RateLimit, TLC

CONSTANTS daily, hourly, About
VARIABLE about

MCStages == [t \in Tasks |-> IF t = daily THEN 2 ELSE 1]
MCKind == "a" :> "tmdb" @@ "b" :> "tmdb" @@ "c" :> "tmdb" @@ "m" :> "mail" @@ "l" :> "llm"
MCProvider == "link" :> "anthropic" @@ "resolve" :> "deepseek" @@ "summary" :> "anthropic"

mcvars == <<vars, outbound, inbound, about>>

MCInit == Init /\ OutboundInit /\ RateLimitInit /\ about \in About

Elsewhere == UNCHANGED <<outbound, inbound, about>>

MCNext ==
    \/ about = "runs" /\ Next /\ Elsewhere
    \/ about = "inbound" /\ RateLimitNext /\ UNCHANGED <<vars, outbound, about>>
    \/ /\ about \in {"tmdb", "gateway"}
       /\ OutboundNext
       /\ UNCHANGED <<vars, inbound, about>>
       /\ about = "tmdb" => gateway' = gateway
       /\ \A c \in Calls : call'[c] # call[c] => (Kind[c] = "tmdb" <=> about = "tmdb")

\* FairSpec of Runs, where the behaviour is about runs.
Fair(A) == about = "runs" /\ A /\ Elsewhere

MCSpec ==
    /\ MCInit /\ [][MCNext]_mcvars
    /\ \A r \in Runs : /\ WF_mcvars(Fair(RunnerStep(r)))
                       /\ WF_mcvars(Fair(~ Alive(r) /\ GoSilent(r)))
    /\ \A t \in Tasks : WF_mcvars(Fair(TaskStep(t))) /\ SF_mcvars(Fair(ClearStale(t)))
=============================================================================
