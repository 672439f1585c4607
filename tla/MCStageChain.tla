---------------------------- MODULE MCStageChain ----------------------------
(***************************************************************************)
(* Instances of StageChain: a Bare-cluster plan, a second attempt at the   *)
(* complete plan, a recovery, and documents that verification must refuse. *)
(***************************************************************************)
EXTENDS StageChain, TLC

Profile(release, requires) == [release |-> release, requires |-> requires]
Bare == [format |-> "v1", mode |-> "bare", length |-> BareLength, intent |-> "current",
         attempt |-> None, source |-> None, profile |-> Profile("former", 1)]
Attempt == [Bare EXCEPT !.format = "v2", !.attempt = "a1", !.length = FullLength]
Recovery == [Bare EXCEPT !.format = "recovery", !.source = "bare",
                         !.profile = Profile("current", 1)]

MCDocument ==
    "bare" :> Bare @@ "attempt" :> Attempt @@ "recovery" :> Recovery
    @@ "scope" :> [Bare EXCEPT !.mode = "full"]
    @@ "smuggled attempt" :> [Bare EXCEPT !.attempt = "a1"]
    @@ "missing attempt" :> [Attempt EXCEPT !.attempt = None]
    @@ "smuggled source" :> [Bare EXCEPT !.source = "bare"]
    @@ "too long" :> [Bare EXCEPT !.length = FullLength + 1]
    @@ "weaker profile" :> [Recovery EXCEPT !.profile = Profile("current", 2)]
    @@ "foreign intent" :> [Recovery EXCEPT !.intent = "foreign",
                                            !.profile = Profile("foreign", 1)]
    @@ "foreign source" :> [Recovery EXCEPT !.source = "attempt"]
MCPlans == DOMAIN MCDocument

Result(state, mutation) == [state |-> state, mutation |-> mutation]
MCResults ==
    {Result("SUCCEEDED", "ATTEMPTED"), Result("SUCCEEDED", "NOT_ATTEMPTED"),
     Result("SUCCEEDED", "NOT_APPLICABLE"), Result("STOPPED", "NOT_APPLICABLE"),
     Result("STOPPED", "UNKNOWN")}
=============================================================================
