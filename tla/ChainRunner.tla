---------------------------- MODULE ChainRunner ----------------------------
(***************************************************************************)
(* The runner of the enrichment chain: pipeline/chain/run.ts, with the     *)
(* status contract of chain/status.ts, the verdict of chain/gate.ts and    *)
(* the skip rules of chain/manifest.ts.  One run executes the steps of the *)
(* resolved plan one after the other and stops at the first failure.  A    *)
(* later run may start at any step the operator names, if it is shown the  *)
(* plan.json of a run with the same resolved plan.  The last step audits   *)
(* the tree against a sealed baseline, and status.json tells a repaint     *)
(* whether the tree may be synced.                                         *)
(*                                                                         *)
(* A step is a name: what it writes is the subject of RoadLayer and        *)
(* ArrowLock.  Here it leaves the share of a floored feed it loaded and a  *)
(* multiset of invariant violations, both chosen by the environment.       *)
(***************************************************************************)
EXTENDS Naturals, Sequences, FiniteSetsExt

CONSTANTS
  Step,          \* step ids
  Plan,          \* manifest version -> the ordered steps it resolves to
  PhaseOf,       \* step -> its phase
  Gate,          \* the auditor's step
  Floored,       \* steps with expectMinInputs
  TailRun,       \* steps marked ran-by-extract-tail
  Cached,        \* steps skipped while their cache is missing
  EnrichOnly,    \* those of Cached whose arguments show that the cache is there
  Floor,         \* expectMinInputs of a floored step
  Scopes,        \* "world" and the narrower scopes
  Prints,        \* violation fingerprints
  MaxCount,      \* bound: occurrences of one fingerprint
  MaxRuns,       \* bound: starts of run.ts
  None,          \* nothing: no run, no hint, no marker, no file
  Unparsable     \* a baseline file that is not JSON of the v2 form

ChainRunnerAssumption ==
  /\ DOMAIN Plan \subseteq Nat /\ 1 \in DOMAIN Plan
  /\ \A v \in DOMAIN Plan : Plan[v] \in Seq(Step)
  /\ Gate \in Step /\ Floored \subseteq Step \ {Gate}
  /\ EnrichOnly \subseteq Cached /\ Cached \subseteq Step \ {Gate}
  /\ Floor \in Nat \ {0} /\ MaxCount \in Nat /\ MaxRuns \in Nat
ASSUME ChainRunnerAssumption

Phases == {"all"} \cup {PhaseOf[s] : s \in Step}
StepsOf(v, phase) == SelectSeq(Plan[v], LAMBDA s : phase \in {"all", PhaseOf[s]})

\* No step id stands twice in a plan, and the gate closes every plan it is in.
ASSUME PlanAssumption ==
  \A v \in DOMAIN Plan, phase \in Phases :
    /\ StepsOf(v, phase) \in Seq(Step)
    /\ \A i, j \in DOMAIN StepsOf(v, phase) : StepsOf(v, phase)[i] = StepsOf(v, phase)[j] => i = j
    /\ \A i \in DOMAIN StepsOf(v, phase) : StepsOf(v, phase)[i] = Gate => i = Len(StepsOf(v, phase))

\* Exit codes, counts and flags are not the mark for nothing.
ASSUME NoneAssumption == None \notin 0..3 /\ None \notin BOOLEAN

VARIABLES
  manifest,      \* version of chain/manifest.ts in the checkout
  lost,          \* steps whose cache is not on the disk
  harm,          \* the violations an audit of the tree would find
  short,         \* floored steps whose last pass loaded less than the floor
  baseline,      \* scope -> sealed multiset, None, or Unparsable
  run,           \* the runner process, or None
  plans,         \* the plan.json files of all runs so far
  hint,          \* history: what the operator is told of the run that stopped last, or None
  behind,        \* history: steps passed by this run and the stopped runs it continues
  status,        \* the latest status.json
  runs           \* starts of run.ts

tree == <<harm, short>>
world == <<manifest, lost, baseline>>
chainVars == <<world, tree, run, plans, hint, behind, status, runs>>

Multiset == [Prints -> 0..MaxCount]
Clean == [p \in Prints |-> 0]
Below(h) == {l \in Multiset : \A p \in Prints : l[p] <= h[p]}
Size(h) == MapThenSumSet(LAMBDA p : h[p], Prints)

---------------------------------------------------------------------------
(* The plan                                                                *)

Steps(phase) == StepsOf(manifest, phase)

StepSet(phase) == {Steps(phase)[i] : i \in DOMAIN Steps(phase)}

\* Ids, scripts and arguments of the resolved steps.  The skip reasons are not part of
\* it; a cache shows only in the arguments of the scripts that take --enrich-only.
PlanDigest(phase) == <<Steps(phase), EnrichOnly \cap StepSet(phase) \cap lost>>

SkipReasons(tail) == (Cached \cap lost) \cup (IF tail THEN TailRun ELSE {})

---------------------------------------------------------------------------
(* Completeness of a step that ran                                         *)

\* What a step prints in its last QM_COMPLETENESS line.  The word is its own claim.
Markers == [actual : 0..Floor, word : {"complete", "partial", "missing"}] \cup {None}

Word(got) == IF got >= Floor THEN "complete" ELSE IF got = 0 THEN "missing" ELSE "partial"

\* Markers a pass that loaded `got` parts may print: an honest one, one of an
\* enricher whose word is wrong, or none.
MarkersFor(got) == {[actual |-> got, word |-> w] : w \in {Word(got), "complete"}} \cup {None}

\* Mutant: the producer's word is believed.
StepIsCompleteByWord(s, marker) == s \in Floored => marker # None /\ marker.word = "complete"

StepIsComplete(s, marker) ==
  LET c == IF marker = None THEN [actual |-> 0, word |-> "missing"] ELSE marker
  IN  s \in Floored => c.word = "complete" /\ c.actual >= Floor

---------------------------------------------------------------------------
(* The auditor's machine outputs and the verdict on them                   *)

\* The auditor writes the NDJSON file, then the summary, then exits 3 if a file was
\* unreadable, 1 if it found violations, 0 otherwise.  It may die at any point; an
\* uncaught exception is exit 1 as well.
Whole(h) == [code |-> IF h = Clean THEN 0 ELSE 1, lines |-> h, total |-> Size(h), io |-> 0]

Reports(h) ==
  {Whole(h)}
  \cup {[code |-> 3, lines |-> l, total |-> Size(l), io |-> 1] : l \in Below(h)}
  \cup {[code |-> c, lines |-> l, total |-> None, io |-> None] :
          c \in {1, None}, l \in Below(h) \cup {None}}
  \cup {[Whole(h) EXCEPT !.code = None]}

ReadMachineOutputs(r) == r.total # None /\ r.lines # None /\ Size(r.lines) = r.total

\* Mutant: fingerprints are compared as a set, not as a multiset.
GateVerdictAsSet(r, base) ==
  /\ r.code \in {0, 1} /\ ReadMachineOutputs(r) /\ r.io = 0 /\ (r.code = 0) = (r.total = 0)
  /\ r.code = 1 => base \in Multiset /\ \A p \in Prints : r.lines[p] > 0 => base[p] > 0

GateVerdict(r, base) ==
  /\ r.code \in {0, 1}
  /\ ReadMachineOutputs(r)
  /\ r.io = 0
  /\ (r.code = 0) = (r.total = 0)
  /\ r.code = 1 => base \in Multiset /\ \A p \in Prints : r.lines[p] <= base[p]

\* validateBaselineIdentity, before the auditor: no baseline at all is a census run.
PreflightProblem(base) == base = Unparsable

---------------------------------------------------------------------------
Running(r) == [outcome |-> "running", safe |-> FALSE, whole |-> r.whole]
Failed(r) == [Running(r) EXCEPT !.outcome = "failed"]

\* gate is the ioErrors count lifted from the summary, None before a gate step.
SafeToSync(r) == r.gate = 0 /\ r.incomplete = {}

ChainInit ==
  /\ manifest = 1 /\ lost = {} /\ baseline = [s \in Scopes |-> None]
  /\ harm = Clean /\ short = {}
  /\ run = None /\ plans = {} /\ hint = None /\ behind = {} /\ runs = 0
  /\ status = [outcome |-> "none", safe |-> FALSE, whole |-> FALSE]

\* plan.json holds what a resumption is compared with; not where the run stopped.
PlanFile(r) == [scope |-> r.scope, phase |-> r.phase, digest |-> r.digest]

Start(r) ==
  /\ run = None /\ runs < MaxRuns
  /\ runs' = runs + 1
  /\ run' = r /\ status' = Running(r)
  /\ plans' = plans \cup {PlanFile(r)} /\ hint' = None
  /\ UNCHANGED <<world, tree>>

\* `waived` is a history field: the steps in front of a --from nothing told the operator to give.
NewRun(scope, phase, todo, from, waived, allow, tail) ==
  [scope |-> scope, phase |-> phase, digest |-> PlanDigest(phase), plan |-> Steps(phase),
   todo |-> todo, waived |-> waived, allow |-> allow, skips |-> SkipReasons(tail), ran |-> {},
   whole |-> scope = "world" /\ phase = "all" /\ ~from, incomplete |-> {}, gate |-> None]

Launch(scope, phase, allow, tail) ==
  /\ Start(NewRun(scope, phase, Steps(phase), FALSE, {}, allow, tail))
  /\ behind' = {}

\* Mutant: the digest of the resolved plan is not compared.
ResumeAnyPlan(file) == file \in plans

\* --from <step> --plan <plan.json>: refused unless year, scope and phase are those of the
\* run, and the digest that of the plan it resolves now.
ResumeAllowed(file) == file.digest = PlanDigest(file.phase)

SliceFrom(steps, step) ==
  LET at == CHOOSE i \in DOMAIN steps : steps[i] = step
  IN  SubSeq(steps, at, Len(steps))

InFrontOf(steps, step) ==
  {steps[j] : j \in {i \in DOMAIN steps : \E k \in DOMAIN steps : i < k /\ steps[k] = step}}

\* The operator resumes the run that stopped last, at the step where it stopped.
AsTold(file, step) == hint # None /\ hint.file = file /\ hint.step = step

\* Any plan file that matches and any step of the plan is accepted.
Resume(file, step, allow, tail) ==
  /\ run = None /\ ResumeAllowed(file) /\ step \in StepSet(file.phase)
  /\ LET steps == Steps(file.phase)
         waived == IF AsTold(file, step) THEN hint.waived ELSE InFrontOf(steps, step)
     IN  Start(NewRun(file.scope, file.phase, SliceFrom(steps, step), TRUE, waived, allow, tail))
  /\ behind' = IF AsTold(file, step) THEN behind ELSE {}

---------------------------------------------------------------------------
(* The steps of a run                                                      *)

Current == Head(run.todo)

\* The resume command in the log of a run whose step failed; of one that was killed or
\* stopped at the gate, status.json names the same step.
Leave(r, s) == [file |-> PlanFile(r), step |-> s, waived |-> r.waived]

Stop ==
  /\ run' = None /\ status' = Failed(run) /\ hint' = Leave(run, Current)
  /\ UNCHANGED <<world, plans, behind, runs>>

Pass(r) ==
  /\ run' = [r EXCEPT !.todo = Tail(@)]
  /\ behind' = behind \cup {Current}
  /\ status' = Running(run)
  /\ UNCHANGED <<world, plans, hint, runs>>

\* One violation more or less, or none: what the pass of one step does to the tree.
Touch ==
  \/ UNCHANGED harm
  \/ \E p \in Prints, n \in 0..MaxCount : harm' = [harm EXCEPT ![p] = n]

SkipStep ==
  /\ run # None /\ run.todo # <<>> /\ Current \in run.skips
  /\ Pass(run) /\ UNCHANGED tree

StepRuns == run # None /\ run.todo # <<>> /\ Current \notin run.skips \cup {Gate}

StepDone(got, marker) ==
  /\ StepRuns /\ marker \in MarkersFor(got) /\ Touch
  /\ short' = IF Current \in Floored /\ got < Floor THEN short \cup {Current} ELSE short \ {Current}
  /\ Pass([run EXCEPT !.ran = @ \cup {Current},
             !.incomplete = IF StepIsComplete(Current, marker) THEN @ ELSE @ \cup {Current}])

\* A nonzero exit, a signal or a failed spawn.
StepFails ==
  /\ StepRuns /\ Touch
  /\ short' = short \cup ({Current} \cap Floored)
  /\ Stop

GateRuns == run # None /\ run.todo # <<>> /\ Current = Gate

CompletenessFails == run.whole /\ run.incomplete # {} /\ ~run.allow

\* A short feed on a fresh full world run, or an unusable baseline, before the auditor.
GateRefuses ==
  /\ GateRuns
  /\ CompletenessFails \/ PreflightProblem(baseline[run.scope])
  /\ Stop /\ UNCHANGED tree

GateAudits(r) ==
  /\ GateRuns /\ ~CompletenessFails /\ ~PreflightProblem(baseline[run.scope])
  /\ UNCHANGED tree
  /\ IF GateVerdict(r, baseline[run.scope])
     THEN Pass([run EXCEPT !.gate = IF r.io = None THEN 1 ELSE r.io])
     ELSE Stop

Finish ==
  /\ run # None /\ run.todo = <<>>
  /\ status' = [Running(run) EXCEPT !.outcome = "complete", !.safe = SafeToSync(run)]
  /\ run' = None
  /\ UNCHANGED <<world, tree, plans, hint, behind, runs>>

\* The runner is killed: status.json stays at "running" and names the steps passed.
RunnerDies ==
  /\ run # None
  /\ run' = None
  /\ hint' = IF run.todo = <<>> THEN None ELSE Leave(run, Current)
  /\ UNCHANGED <<world, tree, plans, behind, status, runs>>

---------------------------------------------------------------------------
(* Around the runs                                                         *)

\* --update-gate-baseline: the auditor alone, and its outputs sealed if they are whole.
UpdateGateBaseline(scope, r) ==
  /\ run = None /\ runs < MaxRuns
  /\ r.code \in {0, 1} /\ ReadMachineOutputs(r) /\ r.io = 0
  /\ baseline' = [baseline EXCEPT ![scope] = r.lines]
  /\ runs' = runs + 1
  /\ UNCHANGED <<manifest, lost, tree, run, plans, hint, behind, status>>

SpoilBaseline(scope) ==
  /\ baseline[scope] # Unparsable
  /\ baseline' = [baseline EXCEPT ![scope] = Unparsable]
  /\ UNCHANGED <<manifest, lost, tree, run, plans, hint, behind, status, runs>>

EditManifest ==
  /\ manifest + 1 \in DOMAIN Plan
  /\ manifest' = manifest + 1
  /\ UNCHANGED <<lost, baseline, tree, run, plans, hint, behind, status, runs>>

CacheChanges(s) ==
  /\ lost' = IF s \in lost THEN lost \ {s} ELSE lost \cup {s}
  /\ UNCHANGED <<manifest, baseline, tree, run, plans, hint, behind, status, runs>>

ChainNext ==
  \/ \E allow \in BOOLEAN, tail \in BOOLEAN :
       \/ \E scope \in Scopes, phase \in Phases : Launch(scope, phase, allow, tail)
       \/ \E file \in plans, step \in Step : Resume(file, step, allow, tail)
  \/ SkipStep
  \/ \E got \in 0..Floor : \E marker \in MarkersFor(got) : StepDone(got, marker)
  \/ StepFails
  \/ GateRefuses
  \/ \E r \in Reports(harm) : GateAudits(r)
  \/ Finish
  \/ RunnerDies
  \/ \E scope \in Scopes : SpoilBaseline(scope)
  \/ \E scope \in Scopes : \E r \in Reports(harm) : UpdateGateBaseline(scope, r)
  \/ EditManifest
  \/ \E s \in Cached : CacheChanges(s)

ChainSpec == ChainInit /\ [][ChainNext]_chainVars

---------------------------------------------------------------------------
(* Properties                                                              *)

\* Every variable holds values of its kind.
ChainTypeOK ==
  /\ manifest \in DOMAIN Plan /\ lost \subseteq Cached
  /\ harm \in Multiset /\ short \subseteq Floored
  /\ baseline \in [Scopes -> Multiset \cup {None, Unparsable}]
  /\ behind \subseteq Step /\ runs \in 0..MaxRuns
  /\ \A file \in plans : file.scope \in Scopes /\ file.phase \in Phases
  /\ hint # None => hint.file \in plans /\ hint.step \in Step /\ hint.waived \subseteq Step
  /\ run # None => /\ run.scope \in Scopes /\ run.phase \in Phases /\ run.gate \in {None, 0, 1}
                   /\ run.todo \in Seq(Step) /\ run.incomplete \subseteq run.ran
                   /\ run.waived \subseteq Step
  /\ status.outcome \in {"none", "running", "complete", "failed"}

Acceptable(h, base) == h = Clean \/ (base \in Multiset /\ \A p \in Prints : h[p] <= base[p])

\* A run that has passed its gate stands on a tree whose violations are all, occurrence
\* by occurrence, in the sealed baseline of its scope, whatever part of its work the
\* auditor got done (chain/gate.ts: "Fail-closed by construction").  The baseline may be
\* spoilt afterwards.
GatePassesNoNewDamage ==
  run # None /\ run.gate # None /\ baseline[run.scope] # Unparsable =>
    run.gate = 0 /\ Acceptable(harm, baseline[run.scope])

\* When the status of a fresh full world run turns safeToSync, every floored step it ran
\* loaded its floor, whatever the step claimed, and an audit found nothing new
\* (chain/status.ts: "Exact for a fresh full world run").
SafeMeansWhole ==
  [][status'.safe /\ status'.whole /\ ~status.safe =>
       short \cap run.ran = {} /\ run.gate = 0 /\ Gate \in behind]_chainVars

\* A step passes only when every step before it in the plan its run resolved has passed,
\* in this run or in the stopped runs it continues, also when the manifest was edited in
\* between (run.ts: "Resume is only safe against the SAME resolved plan").  The runner
\* takes any --from, so this rests on the operator: who resumes the run that stopped last
\* where it stopped skips nothing; who gives another plan file or another step answers for
\* the steps in front of that one, here and in the runs that continue from there.
PassesInOrder ==
  [][\A s \in behind' \ behind : \A i \in DOMAIN run.plan :
       run.plan[i] = s => \A j \in 1..(i - 1) : run.plan[j] \in behind \cup run.waived]_chainVars

\* What the status contract says of a resumed run (chain/status.ts: "read its exit code,
\* not this field, before repainting off it"): a world run over all phases that was resumed
\* as told, if at all, and exits 0 without --allow-partial leaves no floored feed short.
\* The code does not keep this: ChainResume.cfg shows how.
ExitCodeTells ==
  [][run # None /\ run.scope = "world" /\ run.phase = "all" /\ ~run.allow /\ run.waived = {}
       /\ status'.outcome = "complete" /\ status.outcome # "complete" => short = {}]_chainVars
=============================================================================
