-------------------------------- MODULE AiRuns --------------------------------
(***************************************************************************)
(* AI runs: ai/api/views.py creates and executes them, and the gateway     *)
(* (llm_gateway/services.py) asks one provider after another for the       *)
(* answer and logs each asking.                                            *)
(*                                                                         *)
(* One execution is one request: it loads the run, saves it as RUNNING,    *)
(* asks until an answer comes in time or the candidates are used up, and   *)
(* saves the outcome.  Executions of a run overlap freely, a provider may  *)
(* be switched off between any two steps, an audit row may fail to be      *)
(* written, and the server may die with everything under way.              *)
(*                                                                         *)
(* Abstracted: a provider stands for its one model; the profile's primary  *)
(* and fallback are the seeds ensure_seed_data restores before every       *)
(* routing; a run names a provider and a model or neither; the text of an  *)
(* answer is the execution it came to.  Apart from the audit the database  *)
(* does not fail.  Bounds: the sets of runs and executions.                *)
(***************************************************************************)
EXTENDS Naturals, FiniteSets, Sequences

CONSTANTS
  Runs, Executions, Providers, Unnamed,
  Adapters,            \* the providers there is an adapter for
  Primary, FallbackModel,
  EnableFallback, MaxRetries  \* LLM_GATEWAY_ENABLE_FALLBACK, LLM_GATEWAY_MAX_RETRIES

ASSUME GatewayAssumption ==
  /\ Unnamed \notin Providers /\ Unnamed \notin Executions
  /\ Adapters \subseteq Providers
  /\ Primary \in Providers /\ FallbackModel \in Providers
  /\ EnableFallback \in BOOLEAN
  /\ MaxRetries \in Nat

VARIABLES
  run,     \* AiRun rows; answer is the execution the output came from
  exe,     \* executions: how far each is, and the provider it found named
  asked,   \* LlmRequestLog: asked[e], what e logged, in order
  active   \* the providers that are active

avars == <<run, exe, asked, active>>

Outcomes == {"success", "error", "late"}
UnderWay == {"loaded", "asking", "heard", "answered", "audit", "failing"}
NoRun == [status |-> "none", provider |-> Unnamed, answer |-> Unnamed, error |-> FALSE]
NotBegun == [at |-> "waiting"]

Retries == IF MaxRetries = 0 THEN 1 ELSE MaxRetries

\* build_route_candidates: a provider asked for by name is asked alone.
Candidates(named) ==
  IF named # Unnamed THEN <<named>>
  ELSE IF EnableFallback /\ FallbackModel # Primary THEN <<Primary, FallbackModel>>
  ELSE <<Primary>>

--------------------------------------------------------------------------------
RunsInit ==
  /\ run = [r \in Runs |-> NoRun]
  /\ exe = [e \in Executions |-> NotBegun]
  /\ asked = [e \in Executions |-> <<>>]
  /\ active = Providers

\* AiRunCreateView.create.
CreateRun(r) ==
  /\ run[r] = NoRun
  /\ \E named \in Providers \cup {Unnamed} :
       run' = [run EXCEPT ![r] = [NoRun EXCEPT !.status = "pending", !.provider = named]]
  /\ UNCHANGED <<exe, asked, active>>

\* AiRunExecuteView.post reads the run, in whatever status it is.
LoadRun(e, r) ==
  /\ exe[e] = NotBegun
  /\ run[r] # NoRun
  /\ exe' = [exe EXCEPT ![e] = [at |-> "loaded", of |-> r, named |-> run[r].provider]]
  /\ UNCHANGED <<run, asked, active>>

\* It saves it as RUNNING and has the candidates made out: only a provider asked
\* for by name has to be active.
StartRun(e) ==
  /\ exe[e].at = "loaded"
  /\ run' = [run EXCEPT ![exe[e].of].status = "running", ![exe[e].of].error = FALSE]
  /\ LET x == exe[e]
     IN exe' = [exe EXCEPT ![e] =
          [at |-> IF x.named # Unnamed /\ x.named \notin active THEN "failing" ELSE "asking",
           of |-> x.of, named |-> x.named, left |-> Candidates(x.named), tries |-> 0]]
  /\ UNCHANGED <<asked, active>>

\* On to the next candidate, or out of them.
NextCandidate(x) ==
  [x EXCEPT !.at = IF Len(x.left) = 1 THEN "failing" ELSE "asking",
            !.left = Tail(x.left), !.tries = 0]

\* A candidate without an adapter is logged and passed over.
SkipCandidate(e) ==
  /\ exe[e].at = "asking"
  /\ Head(exe[e].left) \notin Adapters
  /\ asked' = [asked EXCEPT ![e] = Append(@, <<Head(exe[e].left), "error">>)]
  /\ exe' = [exe EXCEPT ![e] = NextCandidate(@)]
  /\ UNCHANGED <<run, active>>

\* adapter.generate returns, raises, or returns later than the timeout allows.
AskProvider(e) ==
  /\ exe[e].at = "asking"
  /\ Head(exe[e].left) \in Adapters
  /\ \E outcome \in Outcomes :
       exe' = [exe EXCEPT ![e] = [at |-> "heard", of |-> @.of, named |-> @.named, left |-> @.left,
                                  tries |-> @.tries + 1, heard |-> outcome]]
  /\ UNCHANGED <<run, asked, active>>

\* Mutant: a late answer is logged as the error it is, and taken all the same.
LogAsking_TakesLate(e) ==
  /\ exe[e].at = "heard"
  /\ LET x == exe[e]
         back == [at |-> "asking", of |-> x.of, named |-> x.named, left |-> x.left, tries |-> x.tries]
     IN /\ asked' = [asked EXCEPT ![e] =
                       Append(@, <<Head(x.left), IF x.heard = "success" THEN "success" ELSE "error">>)]
        /\ exe' = [exe EXCEPT ![e] =
                     IF x.heard # "error" THEN [back EXCEPT !.at = "answered"]
                     ELSE IF x.tries < Retries THEN back
                     ELSE NextCandidate(back)]
  /\ UNCHANGED <<run, active>>

\* The asking is logged; a late answer counts as an error.  Only an answer in time
\* ends the search, otherwise it is asked again, or the next one.
LogAsking(e) ==
  /\ exe[e].at = "heard"
  /\ LET x == exe[e]
         back == [at |-> "asking", of |-> x.of, named |-> x.named, left |-> x.left, tries |-> x.tries]
     IN /\ asked' = [asked EXCEPT ![e] =
                       Append(@, <<Head(x.left), IF x.heard = "success" THEN "success" ELSE "error">>)]
        /\ exe' = [exe EXCEPT ![e] =
                     IF x.heard = "success" THEN [back EXCEPT !.at = "answered"]
                     ELSE IF x.tries < Retries THEN back
                     ELSE NextCandidate(back)]
  /\ UNCHANGED <<run, active>>

\* The COMPLETED save.  It names the provider that answered, so the next execution
\* of this run finds one named.
SaveAnswer(e) ==
  /\ exe[e].at = "answered"
  /\ run' = [run EXCEPT ![exe[e].of] = [status |-> "completed", provider |-> Head(exe[e].left),
                                        answer |-> e, error |-> FALSE]]
  /\ exe' = [exe EXCEPT ![e].at = "audit"]
  /\ UNCHANGED <<asked, active>>

\* The audit of it is still inside the try: if it fails, so does the execution.
AuditAnswer(e) ==
  /\ exe[e].at = "audit"
  /\ \E next \in {"over", "failing"} : exe' = [exe EXCEPT ![e].at = next]
  /\ UNCHANGED <<run, asked, active>>

\* Mutant: the row is not saved.
SaveFailure_NotSaved(e) ==
  /\ exe[e].at = "failing"
  /\ exe' = [exe EXCEPT ![e].at = "over"]
  /\ UNCHANGED <<run, asked, active>>

\* The except branch: status and error are saved, an earlier output stays.
SaveFailure(e) ==
  /\ exe[e].at = "failing"
  /\ run' = [run EXCEPT ![exe[e].of].status = "failed", ![exe[e].of].error = TRUE]
  /\ exe' = [exe EXCEPT ![e].at = "over"]
  /\ UNCHANGED <<asked, active>>

\* SuperAdminLlmProviderDetailView.patch, as far as routing can tell.
SwitchProvider(p) ==
  /\ active' = IF p \in active THEN active \ {p} ELSE active \cup {p}
  /\ UNCHANGED <<run, exe, asked>>

\* The server dies: nobody takes a request up again.
Crash ==
  /\ \E e \in Executions : exe[e].at \in UnderWay
  /\ exe' = [e \in Executions |-> IF exe[e].at \in UnderWay
                                  THEN [at |-> "killed", of |-> exe[e].of, named |-> exe[e].named]
                                  ELSE exe[e]]
  /\ UNCHANGED <<run, asked, active>>

\* The steps a request takes by itself once it has begun.
Continue(e) ==
  \/ StartRun(e) \/ SkipCandidate(e) \/ AskProvider(e) \/ LogAsking(e)
  \/ SaveAnswer(e) \/ AuditAnswer(e) \/ SaveFailure(e)

RunsNext ==
  \/ \E r \in Runs : CreateRun(r)
  \/ \E e \in Executions, r \in Runs : LoadRun(e, r)
  \/ \E e \in Executions : Continue(e)
  \/ \E p \in Providers : SwitchProvider(p)
  \/ Crash

\* A thread goes on with its request; the adapters have a timeout of their own.
RunsFairness == \A e \in Executions : WF_avars(Continue(e))

RunsSpec == RunsInit /\ [][RunsNext]_avars /\ RunsFairness

--------------------------------------------------------------------------------
(* Properties *)

Of(e, r) == exe[e].at # "waiting" /\ exe[e].of = r

\* Rows hold a status of AiRun, logs the entries of the gateway, and an execution
\* under way is one of a run that exists.
RunsTyped ==
  /\ run \in [Runs -> [status : {"none", "pending", "running", "completed", "failed"},
                       provider : Providers \cup {Unnamed}, answer : Executions \cup {Unnamed},
                       error : BOOLEAN]]
  /\ asked \in [Executions -> Seq(Providers \X {"success", "error"})]
  /\ active \subseteq Providers
  /\ \A e \in Executions :
       /\ exe[e].at \in {"waiting", "over", "killed"} \cup UnderWay
       /\ exe[e].at # "waiting" => exe[e].of \in Runs /\ run[exe[e].of] # NoRun
       /\ exe[e].at \in {"asking", "heard", "answered", "audit"} =>
            exe[e].left \in Seq(Providers) /\ exe[e].left # <<>>

\* However executions of a run overlap, fail and are cut off: a run that is COMPLETED
\* has an answer and no error, a failed one an error; and whatever answer a run has,
\* the provider it names gave it, in time, as the last thing its execution asked for.
AnswerIsLogged ==
  \A r \in Runs :
    /\ run[r].status = "completed" => run[r].answer # Unnamed /\ ~ run[r].error
    /\ run[r].status = "failed" => run[r].error
    /\ run[r].answer # Unnamed =>
         LET log == asked[run[r].answer]
         IN log # <<>> /\ log[Len(log)] = <<run[r].provider, "success">>

\* The log of an execution: an answer ends it; nobody is asked more often than the
\* settings say; the fallback's turn comes when the primary's tries are used up; and
\* where a provider was named nobody else is asked ("Explicit provider/model request
\* should not fallback silently").
AskedInOrder ==
  \A e \in Executions : asked[e] # <<>> =>
    LET log == asked[e]
        named == exe[e].named
        first == IF named = Unnamed THEN Primary ELSE named
        others == {i \in DOMAIN log : log[i][1] # first}
    IN /\ \A i \in DOMAIN log : i < Len(log) => log[i][2] = "error"
       /\ named # Unnamed => others = {}
       /\ \A i \in others : log[i][1] = FallbackModel /\ i > IF first \in Adapters THEN Retries ELSE 1
       /\ Len(log) - Cardinality(others) <= Retries /\ Cardinality(others) <= Retries

\* What a run and the gateway's log tell agrees with what was asked.
RunTold == AnswerIsLogged /\ AskedInOrder

\* A run does not stay RUNNING, unless the server died under an execution of it.
RunSettles ==
  \A r \in Runs : run[r].status = "running" ~>
    run[r].status # "running" \/ \E e \in Executions : Of(e, r) /\ exe[e].at = "killed"
================================================================================
