-------------------------- MODULE PackPublishProofs --------------------------
(***************************************************************************)
(* Proofs about the publishing of archives, for any layers, builds and     *)
(* environments, any history kept, any number of packs and promotions, and *)
(* a crash of whoever holds .pack.lock after any step.                     *)
(***************************************************************************)
EXTENDS PackPublish, SequenceTheorems, TLAPS

\* A manifest some file of the directory holds, and one whose archives must stay.
Known(m) ==
    \/ m = current
    \/ \E e \in Envs : m = pins[e] \/ \E i \in DOMAIN history[e] : m = history[e][i]
Kept(m) ==
    \/ m = current
    \/ \E e \in Envs :
          \/ m = pins[e]
          \/ \E i \in DOMAIN history[e] : i + HistoryKeep > Len(history[e]) /\ m = history[e][i]

Content == Packs \cup {None}
PackJob == [op : {"pack"}, pc : {"recover", "stage", "publish", "complete", "undo"},
            build : Builds, layers : (SUBSET Layers) \ {{}}, todo : SUBSET Layers]
GCJob == [op : {"gc"}, pc : {"sweep"}, todo : SUBSET File]

TypeInv ==
    /\ archives \in [File -> Content] /\ staged \in [File -> Content]
    /\ markers \in [Builds -> SUBSET File]
    /\ current \in Manifest \cup {None}
    /\ pins \in [Envs -> Manifest \cup {None}]
    /\ history \in [Envs -> Seq(Manifest)]
    /\ packs \in 0 .. MaxPacks
    /\ \A e \in Envs : pins[e] = None => history[e] = <<>>
    /\ \A b \in Builds : \A f \in markers[b] : f.build = b

JobInv ==
    \/ job = None
    \/ job \in PackJob /\ packs \in Packs /\ job.todo \subseteq job.layers
    \/ job \in GCJob /\ job.todo \cap Keep = {}

\* What must stay is there.
KeptInv == \A m \in Manifest : Kept(m) => \A l \in Layers : Valid(m, l)

\* A pack that has not flipped the manifest is younger than every proof in one.
Young == At("pack", "recover") \/ At("pack", "stage") \/ At("pack", "publish")
AgeInv ==
    \A m \in Manifest : Known(m) => \A l \in Layers :
        m[l].proof <= packs /\ (Young => m[l].proof # packs)

\* No manifest names what is still hidden.
StagedInv ==
    \A f \in File : staged[f] # None =>
        \A m \in Manifest : Known(m) => \A l \in Layers : m[l].file = f => m[l].proof # staged[f]

\* What a marker lists was published, or no manifest shows any of it.
MarkerInv ==
    \A b \in Builds : Committed(b) \/
        \A f \in markers[b] : \A m \in Manifest : Known(m) => \A l \in Layers :
            m[l].file = f => m[l].proof # archives[f]

PhaseInv ==
    /\ At("pack", "stage") =>
          /\ \A b \in Builds : markers[b] = {}
          /\ \A l \in job.layers \ job.todo : archives[Named(l, job.build)] = None
          /\ current = None => job.layers = Layers
    /\ At("pack", "publish") =>
          /\ \A b \in Builds : markers[b] = IF b = job.build THEN JobFiles ELSE {}
          /\ \A l \in job.layers \ job.todo : staged[Named(l, job.build)] = None
          /\ current = None => job.layers = Layers
    /\ At("pack", "complete") => Committed(job.build)

CommitInv == FilesOf(current) \subseteq committed /\ committed \subseteq File

IInv == /\ TypeInv /\ JobInv /\ KeptInv /\ AgeInv /\ StagedInv
        /\ MarkerInv /\ PhaseInv /\ CommitInv /\ OrphansAreMarked

------------------------------------------------------------------------------

LEMMA ManifestType ==
    ASSUME NEW m \in Manifest, NEW l \in Layers
    PROVE  /\ m # None /\ m[l].file \in File /\ m[l].proof \in Packs
           /\ m[l] = [file |-> m[l].file, proof |-> m[l].proof]
           /\ m[l].proof \in Nat /\ m[l].proof # None
<1>1. m[l] \in [file : File, proof : Packs] /\ Packs \subseteq Nat /\ None \notin Nat
  BY NoneAssumption, PackAssumption DEF Manifest, Packs
<1>2. m \in [Layers -> [file : File, proof : Nat]]
  BY <1>1 DEF Manifest
<1>3. m # None
  BY <1>2, NoneAssumption
<1> QED BY <1>1, <1>3

LEMMA ManifestNotNone == None \notin Manifest
<1>1. Packs \subseteq Nat
  BY PackAssumption DEF Packs
<1>2. Manifest \subseteq [Layers -> [file : File, proof : Nat]]
  BY <1>1 DEF Manifest
<1> QED BY <1>2, NoneAssumption

\* The archives of a manifest that must stay are in the keep set.
LEMMA KeptIsKeep ==
    ASSUME TypeInv, NEW m \in Manifest, Kept(m), NEW l \in Layers
    PROVE  m[l].file \in Keep
<1>1. m # None
  BY ManifestNotNone
<1>2. m[l].file \in FilesOf(m)
  BY <1>1 DEF FilesOf
<1>3. CASE m = current
  BY <1>2, <1>3 DEF Keep
<1>4. ASSUME NEW e \in Envs, m = pins[e]
      PROVE  m[l].file \in Keep
  BY <1>2, <1>4 DEF Keep
<1>5. ASSUME NEW e \in Envs, NEW i \in DOMAIN history[e], i + HistoryKeep > Len(history[e]),
             m = history[e][i]
      PROVE  m[l].file \in Keep
  <2>1. pins[e] # None
    <3>1. history[e] \in Seq(Manifest) /\ i \in 1 .. Len(history[e])
      BY <1>5 DEF TypeInv
    <3>2. Len(history[e]) # 0
      BY <3>1
    <3>3. history[e] # <<>>
      BY <3>2
    <3> QED BY <3>3 DEF TypeInv
  <2>2. m \in Newest(history[e])
    BY <1>5 DEF Newest
  <2> QED BY <1>2, <2>1, <2>2 DEF Keep
<1> QED BY <1>3, <1>4, <1>5 DEF Kept

\* The two families change together.
LEMMA SameManifests ==
    ASSUME UNCHANGED <<current, pins, history>>
    PROVE  /\ \A m : (Known(m)' <=> Known(m)) /\ (Kept(m)' <=> Kept(m))
           /\ Keep' = Keep
BY DEF Known, Kept, Keep

LEMMA Initially == Init => IInv
<1> SUFFICES ASSUME Init PROVE IInv
  OBVIOUS
<1>1. \A m \in Manifest : ~Known(m) /\ ~Kept(m)
  BY ManifestNotNone DEF Init, Known, Kept
<1>2. TypeInv
  BY PackAssumption DEF Init, TypeInv, Content
<1>3. job = None /\ \A b \in Builds : markers[b] = {}
  BY DEF Init
<1>4. PhaseInv /\ JobInv
  BY <1>3 DEF PhaseInv, JobInv, At
<1>5. CommitInv /\ OrphansAreMarked
  BY DEF Init, CommitInv, OrphansAreMarked, FilesOf
<1> QED BY <1>1, <1>2, <1>3, <1>4, <1>5 DEF IInv, KeptInv, AgeInv, StagedInv, MarkerInv

------------------------------------------------------------------------------
(* Steps that leave the manifests alone *)

\* The job's bookkeeping: a step that changes neither files nor markers.
LEMMA BookkeepingKeeps ==
    ASSUME IInv, UNCHANGED <<archives, staged, markers, current, pins, history, committed>>,
           packs' \in packs .. MaxPacks,
           JobInv', Young' => (Young /\ packs' = packs) \/ packs' > packs, PhaseInv'
    PROVE  IInv'
<1>1. \A m : (Known(m)' <=> Known(m)) /\ (Kept(m)' <=> Kept(m))
  BY SameManifests
<1>2. packs \in Nat /\ packs' \in Nat /\ packs <= packs' /\ packs' \in 0 .. MaxPacks
  BY PackAssumption DEF IInv, TypeInv
<1>3. TypeInv'
  BY <1>2 DEF IInv, TypeInv
<1>4. KeptInv' /\ StagedInv' /\ MarkerInv' /\ CommitInv' /\ OrphansAreMarked'
  BY <1>1 DEF IInv, KeptInv, StagedInv, MarkerInv, CommitInv, OrphansAreMarked, Valid, Committed, FilesOf
<1>5. AgeInv'
  <2> SUFFICES ASSUME NEW m \in Manifest, Known(m), NEW l \in Layers
               PROVE  m[l].proof <= packs' /\ (Young' => m[l].proof # packs')
    BY <1>1 DEF AgeInv
  <2>1. m[l].proof <= packs /\ (Young => m[l].proof # packs)
    BY DEF IInv, AgeInv
  <2>2. m[l].proof \in Nat
    BY ManifestType
  <2> QED BY <1>2, <2>1, <2>2
<1> QED BY <1>3, <1>4, <1>5 DEF IInv

LEMMA StartPackKeeps ==
    ASSUME IInv, NEW b \in Builds, NEW ls \in (SUBSET Layers) \ {{}}, StartPack(b, ls)
    PROVE  IInv'
<1>1. /\ UNCHANGED <<archives, staged, markers, current, pins, history, committed>>
      /\ packs' = packs + 1 /\ packs < MaxPacks
      /\ job' = [op |-> "pack", pc |-> "recover", build |-> b, layers |-> ls, todo |-> {}]
  BY DEF StartPack, dirVars, envVars, ghostVars
<1>2. packs \in Nat /\ packs' \in packs .. MaxPacks /\ packs' \in Packs /\ packs' > packs
  BY <1>1, PackAssumption DEF IInv, TypeInv, Packs
<1>3. job' \in PackJob /\ job'.pc = "recover" /\ job'.todo = {}
  BY <1>1 DEF PackJob
<1>4. JobInv' /\ PhaseInv'
  BY <1>2, <1>3 DEF JobInv, PhaseInv, At
<1> QED BY <1>1, <1>2, <1>4, BookkeepingKeeps

\* Steps after which the lock is free, and those of time.
LEMMA EndKeeps ==
    ASSUME IInv, UNCHANGED <<archives, staged, markers, current, pins, history, committed, packs>>,
           job' = None \/ job' = job
    PROVE  IInv'
<1>1. packs' \in packs .. MaxPacks
  BY PackAssumption DEF IInv, TypeInv
<1>2. CASE job' = None
  <2>1. JobInv' /\ PhaseInv' /\ ~Young'
    BY <1>2 DEF JobInv, PhaseInv, At, Young
  <2> QED BY <1>1, <2>1, BookkeepingKeeps
<1>3. CASE job' = job
  <2>1. Keep' = Keep
    BY SameManifests
  <2>2. JobInv'
    BY <1>3, <2>1 DEF IInv, JobInv
  <2>3. JobFiles' = JobFiles /\ FilesOf(current)' = FilesOf(current)
    BY <1>3 DEF JobFiles, FilesOf
  <2>4. PhaseInv' /\ (Young' => Young)
    BY <1>3, <2>3 DEF IInv, PhaseInv, Young, At, Committed
  <2> QED BY <1>1, <2>2, <2>4, BookkeepingKeeps
<1> QED BY <1>2, <1>3

\* A step that takes staging names away, and goes where the phase allows.
LEMMA DropKeeps ==
    ASSUME IInv, UNCHANGED <<archives, markers, current, pins, history, committed, packs>>,
           NEW gone \in SUBSET File,
           staged' = [f \in File |-> IF f \in gone THEN None ELSE staged[f]],
           JobInv', Young' => Young, PhaseInv'
    PROVE  IInv'
<1>1. \A m : (Known(m)' <=> Known(m)) /\ (Kept(m)' <=> Kept(m))
  BY SameManifests
<1>2. TypeInv'
  BY DEF IInv, TypeInv, Content
<1>3. \A f \in File : staged'[f] \in {staged[f], None}
  OBVIOUS
<1>4. StagedInv'
  BY <1>1, <1>3 DEF IInv, StagedInv
<1>5. KeptInv' /\ AgeInv' /\ MarkerInv' /\ CommitInv' /\ OrphansAreMarked'
  BY <1>1 DEF IInv, KeptInv, AgeInv, MarkerInv, CommitInv, OrphansAreMarked, Valid, Committed, FilesOf
<1> QED BY <1>2, <1>4, <1>5 DEF IInv

LEMMA PrepareKeeps == ASSUME IInv, Prepare PROVE IInv'
<1>1. /\ At("pack", "recover") /\ \A b \in Builds : markers[b] = {}
      /\ staged' = [f \in File |-> None]
      /\ UNCHANGED <<archives, markers, current, pins, history, committed, packs>>
      /\ \/ job' = None
         \/ /\ job' = [job EXCEPT !.pc = "stage", !.todo = job.layers]
            /\ current = None => job.layers = Layers
  BY DEF Prepare, Goto, envVars, ghostVars
<1>2. staged' = [f \in File |-> IF f \in File THEN None ELSE staged[f]]
  BY <1>1
<1>3. Young
  BY <1>1 DEF Young
<1>4. job \in PackJob /\ packs \in Packs
  BY <1>1 DEF IInv, JobInv, At, GCJob
<1>5. JobInv'
  BY <1>1, <1>4 DEF JobInv, PackJob
<1>6. PhaseInv'
  <2>1. CASE job' = None
    BY <2>1 DEF PhaseInv, At
  <2>2. CASE /\ job' = [job EXCEPT !.pc = "stage", !.todo = job.layers]
             /\ current = None => job.layers = Layers
    <3>1. job'.pc = "stage" /\ job'.layers \ job'.todo = {} /\ job'.layers = job.layers
      BY <1>4, <2>2 DEF PackJob
    <3> QED BY <1>1, <2>2, <3>1 DEF PhaseInv, At
  <2> QED BY <1>1, <2>1, <2>2
<1> QED BY <1>1, <1>2, <1>3, <1>5, <1>6, DropKeeps

LEMMA FailKeeps == ASSUME IInv, StageFails \/ PublishFails PROVE IInv'
<1>1. /\ staged' = [f \in File |-> IF f \in JobFiles THEN None ELSE staged[f]]
      /\ UNCHANGED <<archives, markers, current, pins, history, committed, packs>>
      /\ job # None /\ job.op = "pack"
      /\ job' = None \/ job' = [job EXCEPT !.pc = "undo", !.todo = {}]
  BY DEF StageFails, PublishFails, DropStaged, Goto, envVars, ghostVars, At
<1>2. job \in PackJob /\ packs \in Packs
  BY <1>1 DEF IInv, JobInv, GCJob
<1>3. JobInv'
  BY <1>1, <1>2 DEF JobInv, PackJob
<1>4. PhaseInv' /\ ~Young'
  <2>1. CASE job' = None
    BY <2>1 DEF PhaseInv, At, Young
  <2>2. CASE job' = [job EXCEPT !.pc = "undo", !.todo = {}]
    <3>1. job'.pc = "undo"
      BY <1>2, <2>2 DEF PackJob
    <3> QED BY <3>1 DEF PhaseInv, At, Young
  <2> QED BY <1>1, <2>1, <2>2
<1>5. PICK gone \in SUBSET File : gone = JobFiles \cap File
  OBVIOUS
<1>6. staged' = [f \in File |-> IF f \in gone THEN None ELSE staged[f]]
  BY <1>1, <1>5
<1> QED BY <1>1, <1>3, <1>4, <1>6, DropKeeps

------------------------------------------------------------------------------
(* Recovery *)

LEMMA KeptIsKnown == \A m : Kept(m) => Known(m)
BY DEF Kept, Known

\* Taking back a file of a transaction: no manifest shows it.
LEMMA LeftoverKeeps ==
    ASSUME IInv, NEW b \in Builds, RemoveLeftover(b), At("pack", "recover") \/ At("pack", "undo"),
           UNCHANGED <<job, pins, history, committed, packs>>
    PROVE  IInv'
<1>1. PICK f \in Leftover(b) :
        /\ staged' = [staged EXCEPT ![f] = None]
        /\ archives' = IF Committed(b) THEN archives ELSE [archives EXCEPT ![f] = None]
        /\ UNCHANGED <<markers, current>>
  BY DEF RemoveLeftover
<1>2. f \in markers[b] /\ f \in File
  BY DEF Leftover, IInv, TypeInv
<1>3. \A m : (Known(m)' <=> Known(m)) /\ (Kept(m)' <=> Kept(m))
  BY <1>1, SameManifests
<1>4. Keep' = Keep
  BY <1>1, SameManifests
<1>5. TypeInv' /\ JobInv'
  <2>1. archives' \in [File -> Content] /\ staged' \in [File -> Content]
    BY <1>1, <1>2 DEF IInv, TypeInv, Content
  <2> QED BY <1>1, <1>4, <2>1 DEF IInv, TypeInv, JobInv
<1>6. \A g \in File : /\ archives'[g] \in {archives[g], None}
                      /\ archives'[g] # archives[g] => g = f /\ ~Committed(b)
                      /\ staged'[g] \in {staged[g], None}
  BY <1>1, <1>2 DEF IInv, TypeInv
<1>7. KeptInv'
  <2> SUFFICES ASSUME NEW m \in Manifest, Kept(m), NEW l \in Layers
               PROVE  archives'[m[l].file] = m[l].proof
    BY <1>3 DEF KeptInv, Valid
  <2>1. archives[m[l].file] = m[l].proof /\ m[l].file \in File
    BY ManifestType DEF IInv, KeptInv, Valid
  <2>2. CASE m[l].file = f /\ ~Committed(b)
    BY <1>2, <2>1, <2>2, KeptIsKnown DEF IInv, MarkerInv
  <2>3. CASE ~(m[l].file = f /\ ~Committed(b))
    BY <1>6, <2>1, <2>3
  <2> QED BY <2>2, <2>3
<1>8. StagedInv' /\ AgeInv'
  BY <1>1, <1>3, <1>6 DEF IInv, StagedInv, AgeInv, Young, At
<1>9. MarkerInv'
  <2> SUFFICES ASSUME NEW c \in Builds, ~Committed(c), NEW g \in markers[c],
                      NEW m \in Manifest, Known(m), NEW l \in Layers, m[l].file = g
               PROVE  m[l].proof # archives'[g]
    BY <1>1, <1>3 DEF MarkerInv, Committed, FilesOf
  <2>1. m[l].proof # archives[g] /\ g \in File /\ m[l].proof # None
    BY ManifestType DEF IInv, MarkerInv
  <2> QED BY <1>6, <2>1
<1>10. PhaseInv' /\ CommitInv'
  BY <1>1 DEF IInv, PhaseInv, At, CommitInv, FilesOf
<1>11. OrphansAreMarked'
  BY <1>1, <1>6 DEF IInv, OrphansAreMarked
<1> QED BY <1>5, <1>7, <1>8, <1>9, <1>10, <1>11 DEF IInv

\* A marker goes when nothing of its transaction is left, or all of it is named.
LEMMA MarkerGoes ==
    ASSUME IInv, NEW b \in Builds, markers' = [markers EXCEPT ![b] = {}],
           Leftover(b) = {} \/ Committed(b),
           UNCHANGED <<archives, staged, current, pins, history, committed, packs>>,
           job' = None \/ (job' = job /\ At("pack", "recover"))
    PROVE  IInv'
<1>1. \A m : (Known(m)' <=> Known(m)) /\ (Kept(m)' <=> Kept(m))
  BY SameManifests
<1>2. Keep' = Keep
  BY SameManifests
<1>3. markers' = [c \in Builds |-> IF c = b THEN {} ELSE markers[c]]
  BY DEF IInv, TypeInv
<1>4. TypeInv' /\ JobInv'
  BY <1>2, <1>3 DEF IInv, TypeInv, JobInv
<1>5. KeptInv' /\ AgeInv' /\ StagedInv' /\ CommitInv'
  BY <1>1 DEF IInv, KeptInv, Valid, AgeInv, Young, At, StagedInv, CommitInv, FilesOf
<1>6. MarkerInv'
  BY <1>1, <1>3 DEF IInv, MarkerInv, Committed, FilesOf
<1>7. PhaseInv'
  BY DEF PhaseInv, At
<1>8. OrphansAreMarked'
  <2> SUFFICES ASSUME NEW f \in File, archives[f] # None
               PROVE  f \in committed \cup markers'[f.build]
    BY DEF OrphansAreMarked
  <2>1. f \in committed \cup markers[f.build] /\ f.build \in Builds
    BY DEF IInv, OrphansAreMarked, File
  <2>2. CASE f.build = b /\ f \in markers[b]
    <3>1. Committed(b)
      BY <2>2 DEF Leftover
    <3> QED BY <2>2, <3>1 DEF Committed, IInv, CommitInv
  <2> QED BY <1>3, <2>1, <2>2
<1> QED BY <1>4, <1>5, <1>6, <1>7, <1>8 DEF IInv

LEMMA RecoveryKeeps == ASSUME IInv, RecoverTransaction \/ Undo \/ CompleteTransaction PROVE IInv'
<1>1. CASE RecoverTransaction
  <2>1. /\ At("pack", "recover") /\ UNCHANGED <<job, pins, history, committed, packs>>
        /\ \E b \in Builds : RemoveLeftover(b) \/ RemoveMarker(b)
    BY <1>1 DEF RecoverTransaction, envVars, ghostVars
  <2> QED BY <2>1, LeftoverKeeps, MarkerGoes DEF RemoveMarker
<1>2. CASE Undo
  <2>1. /\ At("pack", "undo") /\ UNCHANGED <<pins, history, committed, packs>>
        /\ \/ RemoveLeftover(job.build) /\ UNCHANGED job
           \/ RemoveMarker(job.build) /\ job' = None
    BY <1>2 DEF Undo, envVars, ghostVars
  <2>2. job.build \in Builds
    BY <2>1 DEF IInv, JobInv, At, PackJob, GCJob
  <2> QED BY <2>1, <2>2, LeftoverKeeps, MarkerGoes DEF RemoveMarker
<1>3. CASE CompleteTransaction
  <2>1. /\ At("pack", "complete") /\ markers' = [markers EXCEPT ![job.build] = {}] /\ job' = None
        /\ UNCHANGED <<archives, staged, current, pins, history, committed, packs>>
    BY <1>3 DEF CompleteTransaction, envVars, ghostVars
  <2>2. job.build \in Builds /\ Committed(job.build)
    BY <2>1 DEF IInv, JobInv, PhaseInv, At, PackJob, GCJob
  <2> QED BY <2>1, <2>2, MarkerGoes
<1> QED BY <1>1, <1>2, <1>3

------------------------------------------------------------------------------
(* The pack *)

LEMMA JobOf ==
    ASSUME IInv, NEW pc, At("pack", pc)
    PROVE  /\ job \in PackJob /\ packs \in Packs /\ packs # None /\ packs \in Nat
           /\ job.build \in Builds /\ job.layers \in SUBSET Layers /\ job.todo \in SUBSET Layers
           /\ job.todo \subseteq job.layers
           /\ job.layers # {} /\ job.op = "pack" /\ job.pc = pc /\ job # None
           /\ \A l \in Layers : Named(l, job.build) \in File
           /\ JobFiles \subseteq File
<1>1. /\ job \in PackJob /\ packs \in Packs /\ job # None /\ job.pc = pc
      /\ job.todo \subseteq job.layers
  BY DEF At, IInv, JobInv, GCJob
<1>2. packs \in Nat /\ packs # None
  BY <1>1, PackAssumption, NoneAssumption DEF Packs
<1>3. job.build \in Builds /\ job.layers \in SUBSET Layers
  BY <1>1 DEF PackJob
<1>4. \A l \in Layers : Named(l, job.build) \in File
  BY <1>3 DEF Named, File
<1>5. JobFiles \subseteq File
  BY <1>3, <1>4 DEF JobFiles
<1>6. job.todo \in SUBSET Layers /\ job.layers # {} /\ job.op = "pack"
  BY <1>1 DEF PackJob
<1> QED BY <1>1, <1>2, <1>3, <1>4, <1>5, <1>6

\* The job after a step of its loop over the layers.
LEMMA JobMoves ==
    ASSUME IInv, NEW from, At("pack", from), NEW pc \in {"stage", "publish", "complete"},
           NEW todo \in SUBSET job.layers, Goto(pc, todo), UNCHANGED packs
    PROVE  /\ JobInv'
           /\ job'.op = "pack" /\ job'.pc = pc /\ job'.todo = todo
           /\ job'.build = job.build /\ job'.layers = job.layers /\ JobFiles' = JobFiles
<1>1. job \in PackJob /\ packs \in Packs /\ job.layers \in SUBSET Layers
  BY JobOf
<1>2. /\ job' \in PackJob /\ job'.op = "pack" /\ job'.pc = pc /\ job'.todo = todo
      /\ job'.build = job.build /\ job'.layers = job.layers
  BY <1>1 DEF Goto, PackJob
<1>3. JobFiles' = JobFiles
  BY <1>2 DEF JobFiles
<1> QED BY <1>1, <1>2, <1>3 DEF JobInv

LEMMA StageKeeps == ASSUME IInv, NEW l \in Layers, StageLayer(l) PROVE IInv'
<1>1. PICK f : f = Named(l, job.build)
  OBVIOUS
<1>2. /\ At("pack", "stage") /\ l \in job.todo /\ archives[f] = None
      /\ staged' = [staged EXCEPT ![f] = packs]
      /\ Goto("stage", job.todo \ {l})
      /\ UNCHANGED <<archives, markers, current, pins, history, committed, packs>>
  BY <1>1 DEF StageLayer, envVars
<1>3. f \in File /\ packs \in Packs /\ packs # None
  BY <1>1, <1>2, JobOf
<1>4. job.todo \ {l} \in SUBSET job.layers
  BY <1>2, JobOf
<1>5. /\ JobInv' /\ job'.op = "pack" /\ job'.pc = "stage" /\ job'.todo = job.todo \ {l}
      /\ job'.build = job.build /\ job'.layers = job.layers
  BY <1>2, <1>4, JobMoves
<1>6. \A m : (Known(m)' <=> Known(m)) /\ (Kept(m)' <=> Kept(m))
  BY <1>2, SameManifests
<1>7. Young
  BY <1>2 DEF Young
<1>8. TypeInv'
  BY <1>2, <1>3 DEF IInv, TypeInv, Content
<1>9. KeptInv' /\ AgeInv' /\ MarkerInv' /\ CommitInv' /\ OrphansAreMarked'
  BY <1>2, <1>6, <1>7
     DEF IInv, KeptInv, Valid, AgeInv, MarkerInv, Committed, FilesOf, CommitInv, OrphansAreMarked
<1>10. StagedInv'
  <2> SUFFICES ASSUME NEW g \in File, staged'[g] # None, NEW m \in Manifest, Known(m),
                      NEW k \in Layers, m[k].file = g
               PROVE  m[k].proof # staged'[g]
    BY <1>6 DEF StagedInv
  <2>1. CASE g = f
    BY <1>2, <1>3, <1>7, <2>1 DEF IInv, AgeInv, TypeInv
  <2>2. CASE g # f
    BY <1>2, <1>3, <2>2 DEF IInv, StagedInv, TypeInv
  <2> QED BY <2>1, <2>2
<1>11. PhaseInv'
  <2>1. ASSUME NEW k \in job.layers \ (job.todo \ {l})
        PROVE  archives[Named(k, job.build)] = None
    <3>1. CASE k = l
      BY <1>1, <1>2, <3>1
    <3>2. CASE k # l
      BY <1>2, <3>2 DEF IInv, PhaseInv
    <3> QED BY <3>1, <3>2
  <2>2. (current = None => job.layers = Layers) /\ \A b \in Builds : markers[b] = {}
    BY <1>2 DEF IInv, PhaseInv
  <2> QED BY <1>2, <1>5, <2>1, <2>2 DEF PhaseInv, At
<1> QED BY <1>5, <1>8, <1>9, <1>10, <1>11 DEF IInv

LEMMA BeginKeeps == ASSUME IInv, BeginTransaction PROVE IInv'
<1>1. /\ At("pack", "stage") /\ job.todo = {}
      /\ markers' = [markers EXCEPT ![job.build] = JobFiles]
      /\ Goto("publish", job.layers)
      /\ UNCHANGED <<archives, staged, current, pins, history, committed, packs>>
  BY DEF BeginTransaction, envVars, ghostVars
<1>2. /\ job.build \in Builds /\ job.layers \in SUBSET Layers /\ JobFiles \subseteq File
  BY <1>1, JobOf
<1>3. /\ JobInv' /\ job'.op = "pack" /\ job'.pc = "publish" /\ job'.todo = job.layers
      /\ job'.build = job.build /\ job'.layers = job.layers /\ JobFiles' = JobFiles
  BY <1>1, <1>2, JobMoves
<1>4. \A m : (Known(m)' <=> Known(m)) /\ (Kept(m)' <=> Kept(m))
  BY <1>1, SameManifests
<1>5. /\ (current = None => job.layers = Layers) /\ \A b \in Builds : markers[b] = {}
      /\ \A f \in JobFiles : archives[f] = None /\ f.build = job.build
  BY <1>1 DEF IInv, PhaseInv, JobFiles, Named
<1>6. markers' = [b \in Builds |-> IF b = job.build THEN JobFiles ELSE {}]
  BY <1>1, <1>5 DEF IInv, TypeInv
<1>7. TypeInv'
  BY <1>1, <1>2, <1>5, <1>6 DEF IInv, TypeInv
<1>8. KeptInv' /\ StagedInv' /\ CommitInv'
  BY <1>1, <1>4 DEF IInv, KeptInv, Valid, StagedInv, CommitInv, FilesOf
<1>9. AgeInv'
  BY <1>1, <1>4 DEF IInv, AgeInv, Young
<1>10. MarkerInv'
  <2> SUFFICES ASSUME NEW b \in Builds, NEW f \in markers'[b], NEW m \in Manifest, NEW l \in Layers,
                      m[l].file = f
               PROVE  m[l].proof # archives[f]
    BY <1>1 DEF MarkerInv
  <2>1. f \in JobFiles
    BY <1>6
  <2>2. archives[f] = None
    BY <1>5, <2>1
  <2>3. m[l].proof # None
    BY ManifestType
  <2> QED BY <2>2, <2>3
<1>11. PhaseInv'
  BY <1>1, <1>3, <1>5, <1>6 DEF PhaseInv, At
<1>12. OrphansAreMarked'
  <2> SUFFICES ASSUME NEW f \in File, archives[f] # None
               PROVE  f \in committed
    BY <1>1 DEF OrphansAreMarked
  <2> QED BY <1>5 DEF IInv, OrphansAreMarked, File
<1> QED BY <1>3, <1>7, <1>8, <1>9, <1>10, <1>11, <1>12 DEF IInv

LEMMA PublishKeeps == ASSUME IInv, NEW l \in Layers, PublishArchive(l) PROVE IInv'
<1>1. PICK f : f = Named(l, job.build)
  OBVIOUS
<1>2. /\ At("pack", "publish") /\ l \in job.todo /\ archives[f] = None
      /\ archives' = [archives EXCEPT ![f] = staged[f]]
      /\ staged' = [staged EXCEPT ![f] = None]
      /\ Goto("publish", job.todo \ {l})
      /\ UNCHANGED <<markers, current, pins, history, committed, packs>>
  BY <1>1 DEF PublishArchive, envVars, ghostVars
<1>3. /\ f \in File /\ job.todo \ {l} \in SUBSET job.layers
      /\ job.build \in Builds /\ job.layers \in SUBSET Layers /\ job.todo \in SUBSET Layers
  BY <1>1, <1>2, JobOf
<1>4. /\ JobInv' /\ job'.op = "pack" /\ job'.pc = "publish" /\ job'.todo = job.todo \ {l}
      /\ job'.build = job.build /\ job'.layers = job.layers /\ JobFiles' = JobFiles
  BY <1>2, <1>3, JobMoves
<1>5. \A m : (Known(m)' <=> Known(m)) /\ (Kept(m)' <=> Kept(m))
  BY <1>2, SameManifests
<1>6. /\ \A g \in File : archives'[g] = IF g = f THEN staged[f] ELSE archives[g]
      /\ \A g \in File : staged'[g] = IF g = f THEN None ELSE staged[g]
      /\ TypeInv'
  BY <1>2, <1>3 DEF IInv, TypeInv, Content
<1>7. KeptInv'
  <2> SUFFICES ASSUME NEW m \in Manifest, Kept(m), NEW k \in Layers
               PROVE  archives'[m[k].file] = m[k].proof
    BY <1>5 DEF KeptInv, Valid
  <2>1. archives[m[k].file] = m[k].proof /\ m[k].file \in File /\ m[k].proof # None
    BY ManifestType DEF IInv, KeptInv, Valid
  <2> QED BY <1>2, <1>6, <2>1
<1>8. StagedInv'
  BY <1>5, <1>6 DEF IInv, StagedInv
<1>9. AgeInv' /\ CommitInv'
  BY <1>2, <1>5 DEF IInv, AgeInv, Young, CommitInv, FilesOf
<1>10. MarkerInv'
  <2> SUFFICES ASSUME NEW b \in Builds, ~Committed(b), NEW g \in markers[b],
                      NEW m \in Manifest, Known(m), NEW k \in Layers, m[k].file = g
               PROVE  m[k].proof # archives'[g]
    BY <1>2, <1>5 DEF MarkerInv, Committed, FilesOf
  <2>1. g \in File /\ m[k].proof # archives[g] /\ m[k].proof # None
    BY ManifestType DEF IInv, MarkerInv
  <2>2. CASE g = f /\ staged[f] # None
    BY <1>6, <2>1, <2>2 DEF IInv, StagedInv
  <2>3. CASE ~(g = f /\ staged[f] # None)
    BY <1>6, <2>1, <2>3
  <2> QED BY <2>2, <2>3
<1>11. PhaseInv'
  <2>1. ASSUME NEW k \in job.layers \ (job.todo \ {l})
        PROVE  staged'[Named(k, job.build)] = None
    <3>1. k \in Layers /\ Named(k, job.build) \in File
      BY <1>2, <1>3, JobOf
    <3>2. CASE k = l
      BY <1>1, <1>6, <3>1, <3>2
    <3>3. CASE k # l
      <4>1. staged[Named(k, job.build)] = None
        BY <1>2, <3>3 DEF IInv, PhaseInv
      <4> QED BY <1>6, <3>1, <4>1
    <3> QED BY <3>2, <3>3
  <2>2. /\ current = None => job.layers = Layers
        /\ \A b \in Builds : markers[b] = IF b = job.build THEN JobFiles ELSE {}
    BY <1>2 DEF IInv, PhaseInv
  <2> QED BY <1>2, <1>4, <2>1, <2>2 DEF PhaseInv, At
<1>12. OrphansAreMarked'
  <2> SUFFICES ASSUME NEW g \in File, archives'[g] # None
               PROVE  g \in committed \cup markers[g.build]
    BY <1>2 DEF OrphansAreMarked
  <2>1. CASE g = f
    <3>1. f.build = job.build /\ f \in JobFiles
      <4>1. l \in job.layers
        BY <1>2, JobOf
      <4> QED BY <1>1, <4>1 DEF Named, JobFiles
    <3> QED BY <1>2, <1>3, <2>1, <3>1 DEF IInv, PhaseInv
  <2>2. CASE g # f
    BY <1>6, <2>2 DEF IInv, OrphansAreMarked
  <2> QED BY <2>1, <2>2
<1> QED BY <1>4, <1>6, <1>7, <1>8, <1>9, <1>10, <1>11, <1>12 DEF IInv

LEMMA FlipKeeps == ASSUME IInv, FlipManifest PROVE IInv'
<1>1. PICK m : m = [l \in Layers |->
                      IF l \in job.layers
                      THEN [file |-> Named(l, job.build), proof |-> packs]
                      ELSE current[l]]
  OBVIOUS
<1>2. /\ At("pack", "publish") /\ job.todo = {} /\ \A l \in Layers : Valid(m, l)
      /\ current' = m /\ committed' = committed \cup JobFiles
      /\ Goto("complete", {})
      /\ UNCHANGED <<archives, staged, markers, pins, history, packs>>
  BY <1>1 DEF FlipManifest, envVars
<1>3. /\ packs \in Packs /\ packs \in Nat /\ job.build \in Builds /\ job.layers \in SUBSET Layers
      /\ {} \in SUBSET job.layers /\ JobFiles \subseteq File
      /\ \A l \in Layers : Named(l, job.build) \in File
  BY <1>2, JobOf
<1>4. /\ JobInv' /\ job'.op = "pack" /\ job'.pc = "complete"
      /\ job'.build = job.build /\ job'.layers = job.layers /\ JobFiles' = JobFiles
  BY <1>2, <1>3, JobMoves
<1>5. m \in Manifest
  <2>1. current = None => job.layers = Layers
    BY <1>2 DEF IInv, PhaseInv
  <2>2. \A l \in Layers : m[l] \in [file : File, proof : Packs]
    BY <1>1, <1>3, <2>1 DEF IInv, TypeInv, Manifest
  <2> QED BY <1>1, <2>2 DEF Manifest
<1>6. ASSUME NEW k \in Manifest, Known(k)'
      PROVE  k = m \/ Known(k)
  BY <1>2, <1>6 DEF Known
<1>7. ASSUME NEW k \in Manifest, Kept(k)'
      PROVE  k = m \/ Kept(k)
  BY <1>2, <1>7 DEF Kept
<1>8. ASSUME NEW l \in Layers
      PROVE  \/ l \in job.layers /\ m[l].file = Named(l, job.build) /\ m[l].proof = packs
             \/ Known(current) /\ current \in Manifest /\ m[l] = current[l]
  <2>1. CASE l \in job.layers
    BY <1>1, <2>1
  <2>2. CASE l \notin job.layers
    <3>1. current \in Manifest
      BY <1>2, <2>2 DEF IInv, PhaseInv, TypeInv
    <3> QED BY <1>1, <2>2, <3>1 DEF Known
  <2> QED BY <2>1, <2>2
<1>9. TypeInv' /\ KeptInv'
  <2>1. TypeInv'
    BY <1>2, <1>5 DEF IInv, TypeInv
  <2>2. \A l \in Layers : archives[m[l].file] = m[l].proof
    BY <1>2 DEF Valid
  <2>3. ASSUME NEW k \in Manifest, Kept(k)', NEW l \in Layers
        PROVE  archives'[k[l].file] = k[l].proof
    BY <1>2, <1>7, <2>2, <2>3 DEF IInv, KeptInv, Valid
  <2> QED BY <2>1, <2>3 DEF KeptInv, Valid
<1>10. AgeInv'
  <2> SUFFICES ASSUME NEW k \in Manifest, Known(k)', NEW l \in Layers
               PROVE  k[l].proof <= packs
    BY <1>2, <1>4 DEF AgeInv, Young, At
  <2>1. CASE Known(k)
    BY <2>1 DEF IInv, AgeInv
  <2>2. CASE k = m
    BY <1>3, <1>8, <2>2 DEF IInv, AgeInv
  <2> QED BY <1>6, <2>1, <2>2
<1>11. StagedInv'
  <2> SUFFICES ASSUME NEW f \in File, staged[f] # None, NEW k \in Manifest, Known(k)', NEW l \in Layers,
                      k[l].file = f
               PROVE  k[l].proof # staged[f]
    BY <1>2 DEF StagedInv
  <2>1. CASE Known(k)
    BY <2>1 DEF IInv, StagedInv
  <2>2. CASE k = m
    <3>1. CASE l \in job.layers /\ m[l].file = Named(l, job.build)
      <4>1. staged[Named(l, job.build)] = None
        BY <1>2, <3>1 DEF IInv, PhaseInv
      <4> QED BY <2>2, <3>1, <4>1
    <3>2. CASE Known(current) /\ current \in Manifest /\ m[l] = current[l]
      BY <2>2, <3>2 DEF IInv, StagedInv
    <3> QED BY <1>8, <3>1, <3>2
  <2> QED BY <1>6, <2>1, <2>2
<1>12. JobFiles \subseteq FilesOf(m) /\ FilesOf(m) \subseteq committed \cup JobFiles
  <2>1. m # None /\ FilesOf(m) = {m[l].file : l \in Layers}
    BY <1>5, ManifestNotNone DEF FilesOf
  <2>2. ASSUME NEW l \in job.layers
        PROVE  Named(l, job.build) \in FilesOf(m)
    BY <1>1, <1>3, <2>1
  <2>3. ASSUME NEW l \in Layers
        PROVE  m[l].file \in committed \cup JobFiles
    <3>1. CASE l \in job.layers /\ m[l].file = Named(l, job.build)
      BY <3>1 DEF JobFiles
    <3>2. CASE current \in Manifest /\ m[l] = current[l]
      <4>1. current # None
        BY <3>2, ManifestNotNone
      <4> QED BY <3>2, <4>1 DEF IInv, CommitInv, FilesOf
    <3> QED BY <1>8, <3>1, <3>2
  <2> QED BY <2>1, <2>2, <2>3 DEF JobFiles
<1>13. \A b \in Builds : markers[b] \subseteq JobFiles
  BY <1>2 DEF IInv, PhaseInv
<1>14. MarkerInv' /\ PhaseInv'
  <2>1. \A b \in Builds : markers'[b] \subseteq FilesOf(current)'
    <3>1. FilesOf(current)' = FilesOf(m)
      BY <1>2 DEF FilesOf
    <3> QED BY <1>2, <1>12, <1>13, <3>1
  <2> QED BY <1>3, <1>4, <2>1 DEF MarkerInv, PhaseInv, At, Committed
<1>15. CommitInv'
  <2>1. FilesOf(current)' = FilesOf(m)
    BY <1>2 DEF FilesOf
  <2> QED BY <1>2, <1>3, <1>12, <2>1 DEF IInv, CommitInv
<1>16. OrphansAreMarked'
  BY <1>2 DEF IInv, OrphansAreMarked
<1> QED BY <1>4, <1>9, <1>10, <1>11, <1>14, <1>15, <1>16 DEF IInv

------------------------------------------------------------------------------
(* The collector and the promotions *)

LEMMA StartGCKeeps == ASSUME IInv, StartGC PROVE IInv'
<1>1. /\ job' = [op |-> "gc", pc |-> "sweep", todo |-> Collectible]
      /\ UNCHANGED <<archives, staged, markers, current, pins, history, committed, packs>>
  BY DEF StartGC, dirVars, envVars, ghostVars
<1>2. Collectible \subseteq File /\ Collectible \cap Keep = {}
  BY DEF Collectible
<1>3. job' \in GCJob /\ job'.op = "gc" /\ job'.todo = Collectible
  BY <1>1, <1>2 DEF GCJob
<1>4. Keep' = Keep
  BY <1>1, SameManifests
<1>5. JobInv' /\ PhaseInv' /\ ~Young'
  BY <1>2, <1>3, <1>4 DEF JobInv, PhaseInv, At, Young
<1>6. packs' \in packs .. MaxPacks
  BY <1>1, PackAssumption DEF IInv, TypeInv
<1> QED BY <1>1, <1>5, <1>6, BookkeepingKeeps

LEMMA SweepKeeps == ASSUME IInv, NEW f \in File, Sweep(f) PROVE IInv'
<1>1. /\ At("gc", "sweep") /\ f \in job.todo
      /\ archives' \in {archives, [archives EXCEPT ![f] = None]}
      /\ job' = IF job.todo = {f} THEN None ELSE [job EXCEPT !.todo = @ \ {f}]
      /\ UNCHANGED <<staged, markers, current, pins, history, committed, packs>>
  BY DEF Sweep, envVars, ghostVars
<1>2. \A m : (Known(m)' <=> Known(m)) /\ (Kept(m)' <=> Kept(m))
  BY <1>1, SameManifests
<1>3. Keep' = Keep
  BY <1>1, SameManifests
<1>4. job \in GCJob /\ job.todo \cap Keep = {}
  BY <1>1 DEF IInv, JobInv, At, PackJob
<1>5. JobInv' /\ PhaseInv' /\ ~Young'
  <2>1. CASE job' = None
    BY <2>1 DEF JobInv, PhaseInv, At, Young
  <2>2. CASE job' = [job EXCEPT !.todo = @ \ {f}]
    <3>1. job' \in GCJob /\ job'.op = "gc" /\ job'.todo \subseteq job.todo
      BY <1>4, <2>2 DEF GCJob
    <3> QED BY <1>3, <1>4, <3>1 DEF JobInv, PhaseInv, At, Young
  <2> QED BY <1>1, <2>1, <2>2
<1>6. \A g \in File : archives'[g] = archives[g] \/ (g = f /\ archives'[g] = None)
  BY <1>1 DEF IInv, TypeInv
<1>7. TypeInv'
  BY <1>1 DEF IInv, TypeInv, Content
<1>8. KeptInv'
  <2> SUFFICES ASSUME NEW m \in Manifest, Kept(m), NEW l \in Layers
               PROVE  archives'[m[l].file] = m[l].proof
    BY <1>2 DEF KeptInv, Valid
  <2>1. m[l].file \in Keep /\ m[l].file \in File
    BY KeptIsKeep, ManifestType DEF IInv
  <2> QED BY <1>1, <1>4, <1>6, <2>1 DEF IInv, KeptInv, Valid
<1>9. MarkerInv'
  <2> SUFFICES ASSUME NEW b \in Builds, ~Committed(b), NEW g \in markers[b],
                      NEW m \in Manifest, Known(m), NEW k \in Layers, m[k].file = g
               PROVE  m[k].proof # archives'[g]
    BY <1>1, <1>2 DEF MarkerInv, Committed, FilesOf
  <2>1. g \in File /\ m[k].proof # archives[g] /\ m[k].proof # None
    BY ManifestType DEF IInv, MarkerInv
  <2> QED BY <1>6, <2>1
<1>10. AgeInv' /\ StagedInv' /\ CommitInv'
  BY <1>1, <1>2, <1>5 DEF IInv, AgeInv, StagedInv, CommitInv, FilesOf
<1>11. OrphansAreMarked'
  BY <1>1, <1>6 DEF IInv, OrphansAreMarked
<1> QED BY <1>5, <1>7, <1>8, <1>9, <1>10, <1>11 DEF IInv

LEMMA PromoteKeeps ==
    ASSUME IInv, NEW e \in Envs, NEW m \in Manifest, Known(m), Promote(e, m)
    PROVE  /\ IInv'
           /\ \A i \in DOMAIN history'[e] : history'[e][i] = m \/ history'[e][i] \in Range(history[e])
           /\ Range(history[e]) \subseteq Range(history'[e]) /\ m \in Range(history'[e])
<1>1. /\ job = None /\ \A l \in Layers : Valid(m, l)
      /\ history' = [history EXCEPT ![e] = Append(@, m)]
      /\ pins' = [pins EXCEPT ![e] = m]
      /\ UNCHANGED <<archives, staged, markers, current, job, packs, committed>>
  BY DEF Promote, dirVars
<1>2. PICK h : h = Append(history[e], m)
  OBVIOUS
<1>3. history[e] \in Seq(Manifest) /\ Len(history[e]) \in Nat
  BY DEF IInv, TypeInv
<1>4. /\ h \in Seq(Manifest) /\ Len(h) = Len(history[e]) + 1
      /\ \A i \in 1 .. Len(history[e]) : h[i] = history[e][i]
      /\ h[Len(history[e]) + 1] = m
  BY <1>2, <1>3, AppendProperties
<1>5. /\ \A d \in Envs : history'[d] = IF d = e THEN h ELSE history[d]
      /\ \A d \in Envs : pins'[d] = IF d = e THEN m ELSE pins[d]
      /\ history' \in [Envs -> Seq(Manifest)] /\ pins' \in [Envs -> Manifest \cup {None}]
  BY <1>1, <1>2, <1>4 DEF IInv, TypeInv
<1>6. \A i \in DOMAIN h : i \in 1 .. Len(history[e]) \/ (i = Len(history[e]) + 1 /\ h[i] = m)
  BY <1>3, <1>4
<1>7. ASSUME NEW k \in Manifest, Known(k)'
      PROVE  Known(k)
  <2>1. ASSUME NEW d \in Envs, NEW i \in DOMAIN history'[d], k = history'[d][i]
        PROVE  Known(k)
    <3>1. CASE d = e
      <4>1. i \in DOMAIN h /\ k = h[i]
        BY <1>5, <2>1, <3>1
      <4> QED BY <1>3, <1>4, <1>6, <4>1 DEF Known
    <3>2. CASE d # e
      BY <1>5, <2>1, <3>2 DEF Known
    <3> QED BY <3>1, <3>2
  <2> QED BY <1>1, <1>5, <1>7, <2>1 DEF Known
<1>8. ASSUME NEW k \in Manifest, Kept(k)'
      PROVE  k = m \/ Kept(k)
  <2>1. ASSUME NEW d \in Envs, NEW i \in DOMAIN history'[d], i + HistoryKeep > Len(history'[d]),
               k = history'[d][i]
        PROVE  k = m \/ Kept(k)
    <3>1. CASE d = e
      <4>1. i \in DOMAIN h /\ k = h[i] /\ i + HistoryKeep > Len(h)
        BY <1>5, <2>1, <3>1
      <4>2. CASE i \in 1 .. Len(history[e])
        <5>1. i + HistoryKeep > Len(history[e])
          BY <1>3, <1>4, <4>1, <4>2, PackAssumption DEF PackAssumption
        <5> QED BY <1>3, <1>4, <4>1, <4>2, <5>1 DEF Kept
      <4> QED BY <1>6, <4>1, <4>2
    <3>2. CASE d # e
      BY <1>5, <2>1, <3>2 DEF Kept
    <3> QED BY <3>1, <3>2
  <2> QED BY <1>1, <1>5, <1>8, <2>1 DEF Kept
<1>9. TypeInv'
  BY <1>1, <1>5, ManifestNotNone DEF IInv, TypeInv
<1>10. JobInv' /\ PhaseInv' /\ ~Young'
  BY <1>1 DEF JobInv, PhaseInv, At, Young
<1>11. KeptInv'
  BY <1>1, <1>8 DEF IInv, KeptInv, Valid
<1>12. AgeInv'
  BY <1>1, <1>7, <1>10 DEF IInv, AgeInv
<1>13. StagedInv' /\ MarkerInv' /\ CommitInv' /\ OrphansAreMarked'
  BY <1>1, <1>7 DEF IInv, StagedInv, MarkerInv, Committed, FilesOf, CommitInv, OrphansAreMarked
<1>14. IInv'
  BY <1>9, <1>10, <1>11, <1>12, <1>13 DEF IInv
<1>15. /\ \A i \in DOMAIN h : h[i] = m \/ h[i] \in Range(history[e])
       /\ Range(history[e]) \subseteq Range(h) /\ m \in Range(h)
  <2>1. DOMAIN h = 1 .. (Len(history[e]) + 1) /\ DOMAIN history[e] = 1 .. Len(history[e])
    BY <1>3, <1>4
  <2>2. Len(history[e]) + 1 \in DOMAIN h /\ DOMAIN history[e] \subseteq DOMAIN h
    BY <1>3, <2>1
  <2> QED BY <1>4, <1>6, <2>1, <2>2 DEF Range
<1> QED BY <1>5, <1>14, <1>15

LEMMA Promotable ==
    ASSUME IInv, NEW e \in Envs, NEW m \in ({current} \ {None}) \cup Range(history[e])
    PROVE  m \in Manifest /\ Known(m)
<1>1. CASE m \in {current} \ {None}
  BY <1>1 DEF IInv, TypeInv, Known
<1>2. CASE m \in Range(history[e])
  <2>1. PICK i \in DOMAIN history[e] : m = history[e][i]
    BY <1>2 DEF Range
  <2>2. history[e] \in Seq(Manifest)
    BY DEF IInv, TypeInv
  <2> QED BY <2>1, <2>2 DEF Known
<1> QED BY <1>1, <1>2

LEMMA Inductive == ASSUME IInv, [Next]_vars PROVE IInv'
<1>1. CASE AgePasses \/ Crash \/ UNCHANGED vars
  BY <1>1, EndKeeps DEF AgePasses, Crash, vars, dirVars, envVars, ghostVars
<1>2. ASSUME NEW e \in Envs, NEW m \in ({current} \ {None}) \cup Range(history[e]), Promote(e, m)
      PROVE  IInv'
  BY <1>2, Promotable, PromoteKeeps
<1> QED
  BY <1>1, <1>2, StartPackKeeps, RecoveryKeeps, PrepareKeeps, FailKeeps, StageKeeps, BeginKeeps,
     PublishKeeps, FlipKeeps, StartGCKeeps, SweepKeeps DEF Next

------------------------------------------------------------------------------
(* Theorems *)

\* A rollback to one of the newest promotions finds its archives, whatever was packed
\* and collected since and wherever a pack or a collection died.
THEOREM RollbackAlwaysFinds == Spec => []RollbackTargetsKept
<1>1. IInv => RollbackTargetsKept
  <2> SUFFICES ASSUME IInv, NEW e \in Envs, NEW m \in Newest(history[e]), NEW l \in Layers
               PROVE  Valid(m, l)
    BY DEF RollbackTargetsKept
  <2>1. PICK i \in DOMAIN history[e] : i + HistoryKeep > Len(history[e]) /\ m = history[e][i]
    BY DEF Newest
  <2>2. m \in Manifest /\ Kept(m)
    BY <2>1 DEF IInv, TypeInv, Kept
  <2> QED BY <2>2 DEF IInv, KeptInv
<1> QED BY <1>1, Initially, Inductive, PTL DEF Spec

\* A crashed pack leaves no archive that neither a manifest nor a marker accounts for.
THEOREM NoUnmarkedOrphan == Spec => []OrphansAreMarked
<1>1. IInv => OrphansAreMarked
  BY DEF IInv
<1> QED BY <1>1, Initially, Inductive, PTL DEF Spec

\* What a valid manifest shows.
Shows(m) == [l \in Layers |-> m[l].proof]

LEMMA ViewIsProofs ==
    ASSUME IInv, NEW m \in Manifest, Kept(m)
    PROVE  View(m) = Shows(m) /\ View(m) # None
<1>1. View(m) = Shows(m)
  BY DEF IInv, KeptInv, View, Shows
<1>2. Shows(m) \in [Layers -> Nat]
  BY ManifestType DEF Shows
<1> QED BY <1>1, <1>2, NoneAssumption

HeadView == IF current = None THEN None ELSE View(current)
Pinned == [e \in Envs |-> IF pins[e] = None THEN None ELSE View(pins[e])]
Shown == [e \in Envs |-> {[l \in Layers |-> m[l].proof] : m \in Range(history[e])}]

\* Without a promotion or a flip, nothing a reader can see changes.
LEMMA ViewsStay ==
    ASSUME IInv, IInv', UNCHANGED <<current, pins, history>>
    PROVE  HeadView' = HeadView /\ Pinned' = Pinned /\ Shown' = Shown
<1>1. ASSUME NEW m \in Manifest, Kept(m)
      PROVE  View(m)' = View(m)
  <2>1. Kept(m)'
    BY <1>1, SameManifests
  <2>2. \A l \in Layers : archives[m[l].file] = m[l].proof /\ archives'[m[l].file] = m[l].proof
    BY <1>1, <2>1 DEF IInv, KeptInv, Valid
  <2> QED BY <2>2 DEF View, Valid
<1>2. HeadView' = HeadView
  <2>1. CASE current = None
    BY <2>1 DEF HeadView
  <2>2. CASE current # None
    <3>1. current \in Manifest /\ Kept(current)
      BY <2>2 DEF IInv, TypeInv, Kept
    <3>2. View(current)' = View(current)
      BY <1>1, <3>1 DEF View, Valid
    <3> QED BY <2>2, <3>2 DEF HeadView
  <2> QED BY <2>1, <2>2
<1>3. ASSUME NEW e \in Envs, pins[e] # None
      PROVE  View(pins[e])' = View(pins[e])
  <2>1. pins[e] \in Manifest /\ Kept(pins[e])
    BY <1>3 DEF IInv, TypeInv, Kept
  <2> QED BY <1>1, <2>1 DEF View, Valid
<1>4. Pinned' = Pinned
  BY <1>3 DEF Pinned
<1> QED BY <1>2, <1>4 DEF Shown

LEMMA FlipPublishes ==
    ASSUME IInv, IInv', FlipManifest
    PROVE  Catalogue!Next
<1>1. PICK m : m = [l \in Layers |->
                      IF l \in job.layers
                      THEN [file |-> Named(l, job.build), proof |-> packs]
                      ELSE current[l]]
  OBVIOUS
<1>2. /\ At("pack", "publish") /\ current' = m /\ UNCHANGED <<archives, pins, history>>
  BY <1>1 DEF FlipManifest, envVars
<1>3. /\ packs \in Packs /\ job.layers \in (SUBSET Layers) \ {{}}
      /\ current = None => job.layers = Layers
  BY <1>2, JobOf DEF IInv, PhaseInv
<1>4. m \in Manifest /\ Kept(m)'
  <2>1. \A l \in Layers : m[l] \in [file : File, proof : Packs]
    BY <1>1, <1>2, <1>3, JobOf DEF IInv, TypeInv, Manifest
  <2> QED BY <1>1, <1>2, <2>1 DEF Manifest, Kept
<1>5. HeadView' = Shows(m)
  <2>1. m # None /\ \A l \in Layers : archives'[m[l].file] = m[l].proof
    BY <1>4, ManifestNotNone DEF IInv, KeptInv, Valid
  <2> QED BY <1>2, <2>1 DEF HeadView, View, Valid, Shows
<1>6. HeadView = None <=> current = None
  <2>1. ASSUME current # None PROVE HeadView # None
    BY <2>1, ViewIsProofs DEF HeadView, IInv, TypeInv, Kept
  <2> QED BY <2>1 DEF HeadView
<1>7. Shows(m) = [l \in Layers |-> IF l \in job.layers THEN packs ELSE HeadView[l]]
  <2> SUFFICES ASSUME NEW l \in Layers
               PROVE  m[l].proof = IF l \in job.layers THEN packs ELSE HeadView[l]
    BY DEF Shows
  <2>1. CASE l \in job.layers
    BY <1>1, <2>1
  <2>2. CASE l \notin job.layers
    <3>1. current \in Manifest /\ Kept(current) /\ current # None
      BY <1>3, <2>2 DEF IInv, TypeInv, Kept
    <3>2. HeadView = Shows(current)
      BY <3>1, ViewIsProofs DEF HeadView
    <3> QED BY <1>1, <2>2, <3>2 DEF Shows
  <2> QED BY <2>1, <2>2
<1>8. Pinned' = Pinned /\ Shown' = Shown
  <2>1. ASSUME NEW e \in Envs, pins[e] # None
        PROVE  View(pins[e])' = View(pins[e])
    BY <1>2 DEF View, Valid
  <2> QED BY <1>2, <2>1 DEF Pinned, Shown
<1>9. Catalogue!Publish(packs, job.layers)
  BY <1>3, <1>5, <1>6, <1>7, <1>8 DEF Catalogue!Publish, HeadView, Pinned, Shown
<1> QED BY <1>3, <1>9 DEF Catalogue!Next

LEMMA PromoteMoves ==
    ASSUME IInv, IInv', NEW e \in Envs, NEW m \in ({current} \ {None}) \cup Range(history[e]),
           Promote(e, m)
    PROVE  Catalogue!Next
<1>1. m \in Manifest /\ Known(m)
  BY Promotable
<1>2. /\ UNCHANGED <<archives, current>>
      /\ history' = [history EXCEPT ![e] = Append(@, m)]
      /\ pins' = [pins EXCEPT ![e] = m]
      /\ \A l \in Layers : Valid(m, l)
  BY DEF Promote, dirVars
<1>3. /\ \A d \in Envs : d # e => history'[d] = history[d]
      /\ \A d \in Envs : pins'[d] = IF d = e THEN m ELSE pins[d]
  BY <1>2 DEF IInv, TypeInv
<1>4. View(m) = Shows(m) /\ Shows(m) # None /\ m # None
  <2>1. View(m) = Shows(m)
    BY <1>2 DEF View, Shows
  <2>2. Shows(m) \in [Layers -> Nat]
    BY <1>1, ManifestType DEF Shows
  <2> QED BY <1>1, <2>1, <2>2, NoneAssumption, ManifestNotNone
<1>5. HeadView' = HeadView
  BY <1>2 DEF HeadView, View, Valid
<1>6. Pinned' = [Pinned EXCEPT ![e] = Shows(m)]
  <2>1. ASSUME NEW d \in Envs
        PROVE  Pinned'[d] = IF d = e THEN Shows(m) ELSE Pinned[d]
    <3>1. CASE d = e
      BY <1>2, <1>3, <1>4, <3>1 DEF Pinned, View, Valid
    <3>2. CASE d # e
      BY <1>2, <1>3, <3>2 DEF Pinned, View, Valid
    <3> QED BY <3>1, <3>2
  <2> QED BY <2>1 DEF Pinned
<1>7. Shown' = [Shown EXCEPT ![e] = @ \cup {Shows(m)}]
  <2>1. Range(history'[e]) = Range(history[e]) \cup {m}
    BY <1>1, PromoteKeeps DEF Range
  <2>2. ASSUME NEW d \in Envs
        PROVE  Shown'[d] = IF d = e THEN Shown[d] \cup {Shows(m)} ELSE Shown[d]
    <3>1. CASE d = e
      BY <2>1, <3>1 DEF Shown, Shows
    <3>2. CASE d # e
      BY <1>3, <3>2 DEF Shown
    <3> QED BY <3>1, <3>2
  <2> QED BY <2>2 DEF Shown
<1>8. Shows(m) \in {HeadView} \cup Shown[e]
  <2>1. CASE m = current
    BY <1>4, <2>1 DEF HeadView
  <2>2. CASE m \in Range(history[e])
    BY <2>2 DEF Shown, Shows
  <2> QED BY <2>1, <2>2
<1>9. Catalogue!Promote(e)
  BY <1>4, <1>5, <1>6, <1>7, <1>8 DEF Catalogue!Promote, HeadView, Pinned, Shown
<1> QED BY <1>9 DEF Catalogue!Next

\* Every layer a reader of the head or of an environment sees is the whole archive of one
\* publish, publishes appear at once, and an environment moves only to the head or back:
\* the directory of archives, markers and manifests implements the catalogue.
THEOREM DirectoryImplementsCatalogue == Spec => ReadersSeeWholePublishes
<1>1. Init => Catalogue!Init
  BY DEF Init, Catalogue!Init, Range
<1>2. IInv /\ IInv' /\ [Next]_vars => [Catalogue!Next]_(Catalogue!vars)
  <2> SUFFICES ASSUME IInv, IInv', [Next]_vars
               PROVE  Catalogue!Next \/ UNCHANGED Catalogue!vars
    OBVIOUS
  <2>1. ASSUME UNCHANGED <<current, pins, history>>
        PROVE  UNCHANGED Catalogue!vars
    BY <2>1, ViewsStay DEF Catalogue!vars, HeadView, Pinned, Shown
  <2>2. ASSUME NEW e \in Envs, NEW m \in ({current} \ {None}) \cup Range(history[e]), Promote(e, m)
        PROVE  Catalogue!Next
    BY <2>2, PromoteMoves
  <2>3. CASE FlipManifest
    BY <2>3, FlipPublishes
  <2> QED
    BY <2>1, <2>2, <2>3
       DEF Next, vars, dirVars, envVars, ghostVars, StartPack, RecoverTransaction, RemoveLeftover,
           RemoveMarker, Prepare, StageLayer, StageFails, BeginTransaction, PublishArchive,
           PublishFails, Undo, CompleteTransaction, StartGC, Sweep, AgePasses, Crash
<1> QED BY <1>1, <1>2, Initially, Inductive, PTL DEF Spec, ReadersSeeWholePublishes, Catalogue!Spec
==============================================================================
