----------------------------- MODULE TileLoader -----------------------------
(***************************************************************************)
(* One heatmap tile loading in the browser:                                *)
(* frontend/src/lib/progressive-tile-loader.ts (loadTileProgressively),    *)
(* with the compose worker of lib/compose-off-thread.ts.  The layers of    *)
(* the tile are fetched at once and race two timers and a coarse ancestor  *)
(* preview; the tile resolves early with what landed and is recomposed,    *)
(* at most once per frame, as the rest lands.                              *)
(*                                                                         *)
(* The code is one JavaScript task at a time.  The awaits of the loader    *)
(* are the values of pc; a continuation that is ready runs before the      *)
(* next event (fetch, timer, worker message, frame, abort) is taken, which *)
(* is the microtask rule, so every event is guarded by ~Ready.             *)
(***************************************************************************)
EXTENDS Naturals, Sequences, FiniteSets

CONSTANTS
  Layer,         \* the layers (fetch specs) of the tile
  MaxSpoilt      \* bound: composes that fail after the worker died

TileLoaderAssumption == IsFiniteSet(Layer) /\ Layer # {} /\ MaxSpoilt \in Nat
ASSUME TileLoaderAssumption

VARIABLES
  pc,            \* the await the loader stands at, or how it ended
  settled,       \* layer -> "loading", "landed", "empty", "failed" or "aborted"
  grids,         \* the layers that landed, in the order they landed
  ancestor,      \* the preview job: "fetching", "composing", "none" or "ready"
  preview,       \* previewImage is set
  previewOff,    \* previewCtl is aborted
  aborted,       \* ctl is aborted
  fallback,      \* deck paints a cached sharper ancestor: hasDeckFallback()
  early, grace,  \* the 250 ms and the 400 ms timer have fired
  swap,          \* the 4 s timer: "off", "armed" or "fired"
  image,         \* the tile's image: what it shows and how many layers
  composed,      \* composedCount
  scheduled,     \* a recompose waits for the next frame
  worker,        \* requests in the compose worker, oldest first
  alive,         \* the compose worker runs
  spoilt         \* composes that failed

timers == <<early, grace, swap>>
loads == <<settled, grids, ancestor, preview, previewOff>>
tail == <<image, composed, scheduled>>
compose == <<worker, alive, spoilt>>
loadVars == <<pc, loads, aborted, fallback, timers, tail, compose>>

Ends == {"resolved", "empty", "error", "thrown"}
Awaits == {"head", "swap1", "any", "real", "swap2", "full", "first"}
Nothing == [kind |-> "none", n |-> 0]
Clear == [kind |-> "clear", n |-> 0]
Shows(n) == [kind |-> "layers", n |-> n]

Landed == Len(grids)
AllSettled == \A l \in Layer : settled[l] # "loading"
PreviewEligible == grace /\ ancestor = "ready"

LoadInit ==
  /\ pc = "head" /\ settled = [l \in Layer |-> "loading"] /\ grids = <<>>
  /\ ancestor \in {"fetching", "none"} /\ preview = FALSE /\ previewOff = FALSE
  /\ aborted = FALSE /\ fallback \in BOOLEAN
  /\ early = FALSE /\ grace = FALSE /\ swap = "off"
  /\ image = Nothing /\ composed = 0 /\ scheduled = FALSE
  /\ worker = <<>> /\ alive \in BOOLEAN /\ spoilt = 0

---------------------------------------------------------------------------
(* The continuations of loadTileProgressively                              *)

\* Mutant: the complete-for-complete wait has no bound.
WakesUnbounded(p) ==
  \/ p = "head" /\ (AllSettled \/ early \/ PreviewEligible)
  \/ p \in {"swap1", "swap2"} /\ AllSettled
  \/ p = "any" /\ (AllSettled \/ PreviewEligible \/ Landed > 0)
  \/ p = "real" /\ (AllSettled \/ Landed > 0)

WakesAt(p) ==
  \/ p = "head" /\ (AllSettled \/ early \/ PreviewEligible)
  \/ p \in {"swap1", "swap2"} /\ (AllSettled \/ swap = "fired")
  \/ p = "any" /\ (AllSettled \/ PreviewEligible \/ Landed > 0)
  \/ p = "real" /\ (AllSettled \/ Landed > 0)
Ready == WakesAt(pc)

ArmSwap == swap' = "armed"

\* After the head start: hold out for the complete set while deck shows an ancestor.
HeadStartOver ==
  /\ pc = "head" /\ Ready
  /\ IF ~AllSettled /\ fallback
     THEN pc' = "swap1" /\ ArmSwap
     ELSE pc' = (IF AllSettled THEN "decide" ELSE "any") /\ UNCHANGED swap
  /\ UNCHANGED <<loads, aborted, fallback, early, grace, tail, compose>>

HeldOut ==
  /\ pc = "swap1" /\ Ready
  /\ pc' = IF AllSettled THEN "decide" ELSE "any"
  /\ swap' = "off"
  /\ UNCHANGED <<loads, aborted, fallback, early, grace, tail, compose>>

\* What the two re-checks of the ancestor come to once something can be shown.
Recheck ==
  IF ~AllSettled /\ Landed > 0 /\ fallback THEN pc' = "swap2" /\ ArmSwap
                                           ELSE pc' = "decide" /\ UNCHANGED swap

\* Mutant: the ancestor is not looked at again when the preview is ready.
SomethingUnchecked ==
  /\ pc = "any" /\ Ready
  /\ Recheck
  /\ UNCHANGED <<loads, aborted, fallback, early, grace, tail, compose>>

\* A sharper ancestor landed while the preview was in flight: the preview is dropped.
SomethingToShow ==
  /\ pc = "any" /\ Ready
  /\ IF ~AllSettled /\ Landed = 0 /\ preview /\ fallback
     THEN preview' = FALSE /\ pc' = "real" /\ UNCHANGED swap
     ELSE Recheck /\ UNCHANGED preview
  /\ UNCHANGED <<settled, grids, ancestor, previewOff, aborted, fallback, early, grace, tail, compose>>

RealDataLanded ==
  /\ pc = "real" /\ Ready
  /\ Recheck
  /\ UNCHANGED <<loads, aborted, fallback, early, grace, tail, compose>>

HeldOutAgain ==
  /\ pc = "swap2" /\ Ready
  /\ pc' = "decide" /\ swap' = "off"
  /\ UNCHANGED <<loads, aborted, fallback, early, grace, tail, compose>>

\* composeOffThread: a message to the worker, or, once it died, a compose on the spot.
Request(for, n) == worker' = Append(worker, [for |-> for, n |-> n])

\* A compose without the worker may fail too, out of memory.
SyncCompose(Succeeds, Fails) ==
  \/ Succeeds /\ UNCHANGED spoilt
  \/ spoilt < MaxSpoilt /\ Fails /\ spoilt' = spoilt + 1

\* The whole tile: no tail to manage.
ResolvedWhole(n) ==
  pc' = "resolved" /\ image' = Shows(n) /\ composed' = n /\ UNCHANGED scheduled

\* Mutant: only layers that settle from now on ask for a recompose.
ResolvedForgetful(img, n) ==
  pc' = "resolved" /\ image' = img /\ composed' = n /\ UNCHANGED scheduled

\* The tile is handed to deck with its tail: a layer that settled before this moment
\* has its recompose scheduled at once.
ResolvedEarly(img, n) ==
  /\ pc' = "resolved" /\ image' = img /\ composed' = n
  /\ scheduled' = \E l \in Layer : settled[l] # "loading"

Fails == pc' = "error" /\ UNCHANGED tail

\* Everything settled: an error if every layer failed, else the tile, empty or whole.
DecideWhole ==
  /\ pc = "decide" /\ ~aborted /\ AllSettled
  /\ previewOff' = TRUE
  /\ \/ /\ Landed = 0
        /\ pc' = IF \A l \in Layer : settled[l] = "failed" THEN "error" ELSE "empty"
        /\ UNCHANGED <<tail, worker, spoilt>>
     \/ /\ Landed > 0 /\ alive
        /\ pc' = "full" /\ Request("full", Landed) /\ UNCHANGED <<tail, spoilt>>
     \/ /\ Landed > 0 /\ ~alive
        /\ SyncCompose(ResolvedWhole(Landed), Fails) /\ UNCHANGED worker
  /\ UNCHANGED <<settled, grids, ancestor, preview, aborted, fallback, timers, alive>>

\* Something is still loading: what landed first, or the preview.
DecideEarly ==
  /\ pc = "decide" /\ ~aborted /\ ~AllSettled
  /\ \/ /\ Landed > 0 /\ alive
        /\ pc' = "first" /\ Request("first", Landed) /\ UNCHANGED <<tail, spoilt>>
     \/ /\ Landed > 0 /\ ~alive
        /\ SyncCompose(ResolvedEarly(Shows(Landed), Landed), Fails) /\ UNCHANGED worker
     \/ /\ Landed = 0
        /\ ResolvedEarly(IF preview THEN [kind |-> "preview", n |-> 0] ELSE Clear, 0)
        /\ UNCHANGED <<worker, spoilt>>
  /\ UNCHANGED <<loads, aborted, fallback, timers, alive>>

Throw ==
  /\ pc = "decide" /\ aborted
  /\ pc' = "thrown"
  /\ UNCHANGED <<loads, aborted, fallback, timers, tail, compose>>

---------------------------------------------------------------------------
(* Replies of the compose worker                                           *)

\* The continuation behind one request, once its image is there.
Composed(r) ==
  CASE r.for = "preview" -> /\ preview' = TRUE /\ ancestor' = "ready"
                            /\ UNCHANGED <<pc, tail>>
    [] r.for \in {"full", "first"} /\ aborted ->
         pc' = "thrown" /\ UNCHANGED <<tail, preview, ancestor>>
    [] r.for = "full" /\ ~aborted -> ResolvedWhole(r.n) /\ UNCHANGED <<preview, ancestor>>
    [] r.for = "first" /\ ~aborted ->
         ResolvedEarly(Shows(r.n), r.n) /\ UNCHANGED <<preview, ancestor>>
    [] r.for = "tail" /\ aborted -> UNCHANGED <<pc, tail, preview, ancestor>>
    [] r.for = "tail" /\ ~aborted -> /\ composed' = r.n /\ image' = Shows(r.n)
                                     /\ UNCHANGED <<pc, scheduled, preview, ancestor>>

\* A failed preview never shows, a failed tail is left to the next settle, and a failed
\* first compose fails the tile.
Rejected(r) ==
  /\ pc' = IF r.for \in {"full", "first"} THEN "error" ELSE pc
  /\ ancestor' = IF r.for = "preview" THEN "none" ELSE ancestor
  /\ UNCHANGED <<tail, preview>>

Quiet == ~Ready /\ pc # "decide" /\ (worker # <<>> => alive)

\* Mutant: the worker answers the newest request first.
WorkerRepliesNewest ==
  /\ Quiet /\ worker # <<>>
  /\ worker' = SubSeq(worker, 1, Len(worker) - 1) /\ Composed(worker[Len(worker)])
  /\ UNCHANGED <<settled, grids, previewOff, aborted, fallback, timers, alive, spoilt>>

\* The worker answers one request after the other.
WorkerReplies ==
  /\ Quiet /\ worker # <<>>
  /\ worker' = Tail(worker) /\ Composed(Head(worker))
  /\ UNCHANGED <<settled, grids, previewOff, aborted, fallback, timers, alive, spoilt>>

WorkerDies ==
  /\ Quiet /\ alive /\ pc \notin Ends \ {"resolved"}
  /\ alive' = FALSE
  /\ UNCHANGED <<pc, loads, aborted, fallback, timers, tail, worker, spoilt>>

\* worker.onerror composes what is pending on the main thread, in the order of the requests.
Drain ==
  /\ ~alive /\ worker # <<>>
  /\ worker' = Tail(worker)
  /\ SyncCompose(Composed(Head(worker)), Rejected(Head(worker)))
  /\ UNCHANGED <<settled, grids, previewOff, aborted, fallback, timers, alive>>

---------------------------------------------------------------------------
(* The other events                                                        *)

Open == pc \notin Ends

\* One layer settles.  Behind a resolved tile every settle asks for a recompose.
LayerSettles(l, how) ==
  /\ Quiet /\ settled[l] = "loading"
  /\ settled' = [settled EXCEPT ![l] = how]
  /\ grids' = IF how = "landed" THEN Append(grids, l) ELSE grids
  /\ previewOff' = (previewOff \/ how = "landed")
  /\ scheduled' = (scheduled \/ pc = "resolved")
  /\ UNCHANGED <<pc, ancestor, preview, aborted, fallback, timers, image, composed, compose>>

\* The ancestors of the preview are there, at least one with data, or none is.
AncestorsLand ==
  /\ Quiet /\ ancestor = "fetching"
  /\ \/ ancestor' = "none" /\ UNCHANGED <<preview, worker, spoilt>>
     \/ /\ ~previewOff /\ alive
        /\ ancestor' = "composing" /\ Request("preview", 0) /\ UNCHANGED <<preview, spoilt>>
     \/ /\ ~previewOff /\ ~alive /\ UNCHANGED worker
        /\ SyncCompose(ancestor' = "ready" /\ preview' = TRUE,
                       ancestor' = "none" /\ UNCHANGED preview)
  /\ UNCHANGED <<pc, settled, grids, previewOff, aborted, fallback, timers, tail, alive>>

EarlyFires ==
  /\ Quiet /\ Open /\ ~early /\ early' = TRUE
  /\ UNCHANGED <<pc, loads, aborted, fallback, grace, swap, tail, compose>>

GraceFires ==
  /\ Quiet /\ Open /\ early /\ ~grace /\ grace' = TRUE
  /\ UNCHANGED <<pc, loads, aborted, fallback, early, swap, tail, compose>>

SwapFires ==
  /\ Quiet /\ Open /\ grace /\ swap = "armed" /\ swap' = "fired"
  /\ UNCHANGED <<pc, loads, aborted, fallback, early, grace, tail, compose>>

\* requestAnimationFrame: at most one recompose per frame.
Recompose ==
  /\ Quiet /\ scheduled /\ scheduled' = FALSE
  /\ \/ /\ aborted \/ (Landed = composed /\ ~(AllSettled /\ Landed = 0))
        /\ UNCHANGED <<previewOff, image, composed, worker, spoilt>>
     \/ /\ ~aborted /\ AllSettled /\ Landed = 0
        /\ previewOff' = TRUE /\ image' = Clear
        /\ UNCHANGED <<composed, worker, spoilt>>
     \/ /\ ~aborted /\ Landed # composed /\ alive
        /\ Request("tail", Landed)
        /\ UNCHANGED <<previewOff, image, composed, spoilt>>
     \/ /\ ~aborted /\ Landed # composed /\ ~alive
        /\ SyncCompose(image' = Shows(Landed) /\ composed' = Landed,
                       UNCHANGED <<image, composed>>)
        /\ UNCHANGED <<previewOff, worker>>
  /\ UNCHANGED <<pc, settled, grids, ancestor, preview, aborted, fallback, timers, alive>>

\* deck drops the tile, or the layer is swapped out.  Native fetches stop; a parent
\* shared through the ancestor memo does not.
Abort(stopped) ==
  /\ Quiet /\ ~aborted /\ pc \notin Ends \ {"resolved"}
  /\ \A l \in stopped : settled[l] = "loading"
  /\ aborted' = TRUE /\ previewOff' = TRUE
  /\ settled' = [l \in Layer |-> IF l \in stopped THEN "aborted" ELSE settled[l]]
  /\ scheduled' = (scheduled \/ (pc = "resolved" /\ stopped # {}))
  /\ UNCHANGED <<pc, grids, ancestor, preview, fallback, timers, image, composed, compose>>

\* deck loads a sharper ancestor of this tile, or evicts it.
FallbackChanges ==
  /\ Quiet /\ Open /\ fallback' = ~fallback
  /\ UNCHANGED <<pc, loads, aborted, timers, tail, compose>>

Continue ==
  HeadStartOver \/ HeldOut \/ SomethingToShow \/ RealDataLanded \/ HeldOutAgain
  \/ DecideWhole \/ DecideEarly \/ Throw \/ Drain

LoadNext ==
  \/ Continue
  \/ WorkerReplies \/ WorkerDies
  \/ \E l \in Layer, how \in {"landed", "empty", "failed"} : LayerSettles(l, how)
  \/ AncestorsLand
  \/ EarlyFires \/ GraceFires \/ SwapFires \/ Recompose
  \/ \E stopped \in SUBSET Layer : Abort(stopped)
  \/ FallbackChanges

\* The browser runs what is ready, fires timers and frames, and its worker answers or is
\* reported dead.  Nothing is assumed of the network: a fetch may hang for ever.
LoadFairness ==
  /\ WF_loadVars(Continue) /\ WF_loadVars(WorkerReplies) /\ WF_loadVars(Recompose)
  /\ WF_loadVars(EarlyFires) /\ WF_loadVars(GraceFires) /\ WF_loadVars(SwapFires)

LoadSpec == LoadInit /\ [][LoadNext]_loadVars /\ LoadFairness

---------------------------------------------------------------------------
(* Properties                                                              *)

\* Every variable holds values of its kind.
LoadTypeOK ==
  /\ pc \in Awaits \cup Ends \cup {"decide"}
  /\ settled \in [Layer -> {"loading", "landed", "empty", "failed", "aborted"}]
  /\ {grids[i] : i \in 1..Landed} = {l \in Layer : settled[l] = "landed"}
  /\ \A i, j \in 1..Landed : grids[i] = grids[j] => i = j
  /\ composed \in 0..Landed /\ image.n = composed
  /\ \A i \in DOMAIN worker : worker[i].n <= Landed
  /\ worker # <<>> /\ ~alive => ~Quiet

\* A tile never resolves with the coarse preview while deck paints a sharper ancestor,
\* nor before the grace period, nor once real data landed: the exact tile, once loaded,
\* hides the ancestor (progressive-tile-loader.ts: "resolving coarse now would HIDE it").
PreviewHidesNothing ==
  [][image'.kind = "preview" /\ image.kind # "preview" => ~fallback /\ grace /\ Landed = 0]_loadVars

\* Behind a resolved tile the picture only gains layers, whatever the order in which
\* layers, frames and composes end and whether the worker dies between them; and it
\* does not change any more once the tile was dropped.
PictureOnlyGains ==
  [][pc = "resolved" => /\ image'.n >= image.n
                        /\ image.kind = "layers" => image'.kind = "layers"
                        /\ aborted => image' = image]_loadVars

\* The partial sum converges: once the layers of a resolved tile have settled the picture
\* becomes the sum of all that landed, and a preview with nothing behind it is cleared
\* ("a preview must never lie permanently"), unless a compose failed on the main thread.
Converges ==
  (pc = "resolved" /\ AllSettled) ~>
    \/ aborted \/ spoilt > 0
    \/ image = IF Landed = 0 THEN Clear ELSE Shows(Landed)

\* One hanging fetch pins neither the ancestor nor a request slot of deck: once any layer
\* has landed the loader comes to an end (COMPLETE_SWAP_MAX_WAIT_MS).
LandedIsShown == Landed > 0 ~> pc \in Ends

\* What the comment on hardErrors says: a tile of which every layer failed is not left
\* with deck as a transparent tile, that is as cached silence.  The code does not keep
\* this: TileSilent.cfg shows how.
FailedIsNotSilence ==
  ~(pc = "resolved" /\ image = Clear /\ \A l \in Layer : settled[l] = "failed")
=============================================================================
