--------------------------- MODULE HelperLibrary ---------------------------
(***************************************************************************)
(* The life of a Python helper under --verified-code: Omega authors a      *)
(* layer, the held-out gate keeps what passes, the layers are merged (and  *)
(* demoted on a family that is not live), the merged library is shown to   *)
(* the solver and staged under its script, and the returned trace decides  *)
(* whether its task is barred from the per-task best.                      *)
(*                                                                         *)
(* One task and one candidate chain are followed.  A helper's source is    *)
(* the set of helpers it calls, whether the safety blocklist flags it and  *)
(* whether it is broken (it does not parse or fails its smoke test); a     *)
(* script says of each helper whether it calls it, defines its own, or     *)
(* does not mention it.  Names are their alphabetical ranks.  pre_process  *)
(* text and bash helpers pass the gate untouched and are left out, so a    *)
(* layer with no helper stands for one that holds only those.              *)
(***************************************************************************)
EXTENDS Naturals, Sequences, FiniteSets, FiniteSetsExt

CONSTANTS
    Names,          \* helper names, as ranks in the order of sorted()
    Sources,        \* helper sources: [calls, flagged, broken]
    Paths,          \* "python" | "bash" (MetaLayer), "agentic" (with a
                    \* Python solver), "spine"
    Live,           \* _code_library_is_live()
    Sandboxed,      \* possible values of executor.is_sandboxed
    Oracle,         \* possible values: does the family have a held-out harness
    Deploy,         \* possible values of config.deploy_verified_code
    SeedLibraries,  \* possible --seed-code-library mappings; <<>> is none
    MaxLayers,      \* bound on the Omega layers of the chain
    MaxRebuilds,    \* bound on refinements and re-propagations
    MaxRetries,     \* config.max_retries
    Scores,         \* scores of an execution
    Threshold       \* config.retry_threshold

Libraries == UNION {[S -> Sources] : S \in SUBSET Names}

ASSUME NamesAssumption == Names \subseteq Nat /\ IsFiniteSet(Names)
ASSUME SourcesAssumption ==
    Sources \subseteq [calls : SUBSET Names, flagged : BOOLEAN, broken : BOOLEAN]
ASSUME SeedAssumption == SeedLibraries \subseteq Libraries
ASSUME BoundsAssumption == Scores \subseteq Nat /\ {MaxLayers, MaxRebuilds, MaxRetries} \subseteq Nat

VARIABLES
    conf,           \* what the run was started with
    chain,          \* candidate.injected_codes
    at,             \* the layer Omega wrote last
    rebuilds,       \* refinements and re-propagations so far
    phase,          \* "authored" | "built" | "solving" | "stamped" | "archived"
    tries,          \* executions behind the trace
    answer,         \* the trace: its score and the solver's own script
    barred          \* the task may not update the per-task best

vars == <<conf, chain, at, rebuilds, phase, tries, answer, barred>>

Scripts == [Names -> {"absent", "called", "own"}]
Blank == [n \in Names |-> "absent"]
NoTrace == [score |-> 0, script |-> Blank]
Layer(lib, verified, seed) == [lib |-> lib, verified |-> verified, seed |-> seed]

-----------------------------------------------------------------------------
(* Merging, demoting, advertising, staging *)

\* merge_code_libraries: a later layer's helper replaces an earlier one of
\* the name.  A merged library maps a name to the layer that supplies it.
Supplied(codes, layers) ==
    LET named == UNION {DOMAIN codes[i].lib : i \in layers}
    IN  [n \in named |-> Max({i \in layers : n \in DOMAIN codes[i].lib})]

Merged(codes) == Supplied(codes, DOMAIN codes)

\* On a demoting family only the seed's helpers are staged, in the seed's own
\* source even where a later layer redefined the name.
Demoted(codes) == Supplied(codes, {i \in DOMAIN codes : codes[i].seed})

Offered == IF conf.path = "spine" \/ Live THEN Merged(chain) ELSE Demoted(chain)

Source(n) == chain[Offered[n]].lib[n]

\* validate_library_function; the blocklist bars a sandboxed helper only
\* from being advertised.
Loads(source, sandboxed, advertising) ==
    /\ ~source.broken
    /\ source.flagged => sandboxed /\ ~advertising

\* InjectionMapper stages every helper that can be imported.
Importable(source) == ~source.broken

Staged ==
    {n \in DOMAIN Offered :
        IF conf.path = "spine" THEN Importable(Source(n))
        ELSE Loads(Source(n), conf.sandboxed, FALSE)}

\* Prepended to a Python script the helpers are bare definitions of one
\* namespace.  The spine stages each as helpers/<name>.py, re-exported to the
\* script but not to one another, and a bash script writes each to
\* /tmp/_lib_<name>.py, a process of its own.
Shared == conf.path \in {"python", "agentic"}

\* What a bare call in the body of a staged helper finds.
Visible(n) == IF Shared THEN Staged ELSE Staged \cap {n}

Advertised ==
    {n \in DOMAIN Offered :
        IF conf.path = "bash" THEN Loads(Source(n), conf.sandboxed, FALSE)
        ELSE Loads(Source(n), conf.sandboxed \/ conf.path = "spine", TRUE)}

\* utilities_available of the trace.
Counted ==
    {n \in DOMAIN Offered :
        Loads(Source(n), conf.sandboxed, conf.path # "bash")}

\* scan_helper_calls: a local definition of the name is not a call.
Called(script, names) == {n \in names : script[n] = "called"}

-----------------------------------------------------------------------------
(* The held-out gate *)

\* The helpers that running those of S reaches in the library lib, whether
\* lib defines them or not.
Reach(S, lib) ==
    LET Closed(R) == \A n \in R \cap DOMAIN lib : lib[n].calls \subseteq R
    IN  {n \in Names : \A R \in SUBSET Names : S \subseteq R /\ Closed(R) => n \in R}

\* What the container's candidate file defines: the layers below, then the
\* helpers of this injection.
VerifyEnv(codes, i) ==
    LET below == Supplied(codes, 1..i)
    IN  [n \in DOMAIN below |-> codes[below[n]].lib[n]]

\* A helper can pass only if the file parses and what it reaches is there.
CanPass(codes, i) ==
    LET env   == VerifyEnv(codes, i)
        files == UNION {{codes[j].lib[n] : n \in DOMAIN codes[j].lib} : j \in 1..i}
    IN  {n \in DOMAIN codes[i].lib :
            /\ \A source \in files : ~source.broken
            /\ Reach({n}, env) \subseteq DOMAIN env}

\* Outcomes of verify over a layer: with the stub everything is kept and
\* nothing ran; in the sandbox a crash, a timeout or a container that never
\* started drops the helper like a failed check.
Verdicts(codes, i) ==
    IF conf.oracle
    THEN {[passed |-> P, ran |-> P] : P \in SUBSET CanPass(codes, i)}
    ELSE {[passed |-> DOMAIN codes[i].lib, ran |-> {}]}

\* Helpers that a kept helper calls are kept with it, verified or not.
\* Mutant of Kept: the siblings a kept helper calls are not added back.
KeptAlone(lib, passed) == passed
Kept(lib, passed) == Reach(passed, lib) \cap DOMAIN lib

Filtered(layer, verdict) ==
    LET kept == Kept(layer.lib, verdict.passed)
    IN  Layer([n \in kept |-> layer.lib[n]], verdict.ran, FALSE)

-----------------------------------------------------------------------------
(* Solving and judging *)

\* _maybe_deploy_verified_helper: a script that calls no staged helper is
\* replaced by a wrapper around an entry point, first in sorted order.
EntryPoint ==
    LET entries == {n \in Staged : \A m \in Staged \ {n} : n \notin Source(m).calls}
    IN  Min(IF entries # {} THEN entries ELSE Staged)

Deployed(script) ==
    IF /\ conf.deploy
       /\ conf.path = "python"
       /\ Staged # {}
       /\ Called(script, Staged) = {}
    THEN [Blank EXCEPT ![EntryPoint] = "called"]
    ELSE script

\* _nonadopting_verified_tasks: the layer that wrote a name last decides
\* whether it counts as verified.
\* Mutant of VerifiedNames: a redefinition does not clear a verification.
VerifiedNamesSticky(codes) == UNION {codes[i].verified : i \in DOMAIN codes}
VerifiedNames(codes) ==
    {n \in DOMAIN Merged(codes) : n \in codes[Merged(codes)[n]].verified}

\* utilities_called stays None on the spine and when nothing was shown.
Barred ==
    /\ conf.path # "spine"
    /\ (VerifiedNames(chain) \cap Counted) \ Called(answer.script, Counted) # {}

-----------------------------------------------------------------------------
Configurations ==
    [path : Paths, sandboxed : Sandboxed, oracle : Oracle, deploy : Deploy]

\* gen0: bare, or one layer with the seeded library; it is never judged.
Init ==
    /\ conf \in Configurations
    /\ \E seeds \in SeedLibraries :
           chain = IF seeds = <<>> THEN <<>> ELSE <<Layer(seeds, {}, TRUE)>>
    /\ at = Len(chain)
    /\ rebuilds = 0
    /\ phase = "archived"
    /\ tries = 0
    /\ answer = NoTrace
    /\ barred = FALSE

Write(i, lib, codes) ==
    /\ chain' = [codes EXCEPT ![i] = Layer(lib, {}, FALSE)]
    /\ at' = i
    /\ phase' = "authored"
    /\ tries' = 0
    /\ answer' = NoTrace
    /\ barred' = FALSE
    /\ UNCHANGED conf

\* OmegaEngine.generate writes the next layer.
Generate ==
    /\ phase = "archived"
    /\ Cardinality({i \in DOMAIN chain : ~chain[i].seed}) < MaxLayers
    /\ \E lib \in Libraries :
           Write(Len(chain) + 1, lib, Append(chain, Layer(lib, {}, FALSE)))
    /\ UNCHANGED rebuilds

\* The gate rejected the child: OmegaEngine.refine rewrites its layer.
Refine ==
    /\ phase = "built"
    /\ at = Len(chain)
    /\ rebuilds < MaxRebuilds
    /\ rebuilds' = rebuilds + 1
    /\ \E lib \in Libraries : Write(at, lib, chain)

\* The child did not improve: the layer below its top is written again and
\* the layers above are kept as they are.
Repropagate ==
    /\ phase = "archived"
    /\ Len(chain) >= 2
    /\ rebuilds < MaxRebuilds
    /\ rebuilds' = rebuilds + 1
    /\ \E lib \in Libraries : Write(Len(chain) - 1, lib, chain)

\* VERIFY-THEN-INJECT, over the helpers of the layer written last.
Verify ==
    /\ phase = "authored"
    /\ \E verdict \in Verdicts(chain, at) :
           chain' = [chain EXCEPT ![at] = Filtered(@, verdict)]
    /\ phase' = "built"
    /\ UNCHANGED <<conf, at, rebuilds, tries, answer, barred>>

\* One execution; MetaLayer retries while the best stays under the
\* threshold, and keeps the strictly better trace.
Attempt ==
    /\ phase \in {"built", "solving"}
    /\ \E script \in Scripts, score \in Scores :
           LET new == [score |-> score, script |-> Deployed(script)]
           IN  answer' = IF tries = 0 \/ score > answer.score THEN new ELSE answer
    /\ tries' = tries + 1
    /\ phase' = IF /\ conf.path \in {"python", "bash"}
                   /\ tries < MaxRetries
                   /\ answer'.score < Threshold
                THEN "solving" ELSE "stamped"
    /\ UNCHANGED <<conf, chain, at, rebuilds, barred>>

\* archive.add with the bar; the trace is judged by what it was stamped with.
Add ==
    /\ phase = "stamped"
    /\ barred' = Barred
    /\ phase' = "archived"
    /\ UNCHANGED <<conf, chain, at, rebuilds, tries, answer>>

Next == Generate \/ Refine \/ Repropagate \/ Verify \/ Attempt \/ Add

Spec == Init /\ [][Next]_vars

-----------------------------------------------------------------------------
(* Properties *)

\* The helpers that the first i layers supply call none that is missing.
SelfContained(codes, i) ==
    LET env == VerifyEnv(codes, i)
    IN  \A n \in DOMAIN env : env[n].calls \subseteq DOMAIN env

\* A helper the sandbox passed finds, where it is staged, every helper it
\* reached when it was verified (evolutionary_orchestrator.py, the
\* dependency-aware keep: "deploy prepends every KEPT helper together"), on a
\* live family and unless unsandboxed staging drops a flagged dependency.
\* The container concatenates the helpers on every path; where they are
\* deployed one by one, only a helper that calls no other finds its calls.
\* The keep follows the calls of this layer's helpers only, so it rests on
\* the layers below being self-contained.
VerifiedHelpersFindTheirCalls ==
    phase \in {"built", "solving", "stamped"} /\ at > 0
    /\ SelfContained(chain, at - 1)
    /\ (conf.path = "spine" \/ (Live /\ conf.sandboxed)) =>
        \A n \in chain[at].verified :
            LET reached == Reach({n}, VerifyEnv(chain, at))
            IN  Shared \/ reached = {n} => reached \subseteq Visible(n)

\* A task is barred only if the solver was shown, and could call, a helper
\* whose very source ran and passed in the sandbox, and did not call it: a
\* helper that was never verified must not gate a real win.
BarsAreEarned ==
    barred /\ phase = "archived" =>
        \E n \in Advertised \cap Staged :
            /\ \E i \in DOMAIN chain :
                  n \in chain[i].verified /\ chain[i].lib[n] = Source(n)
            /\ answer.script[n] # "called"
=============================================================================
