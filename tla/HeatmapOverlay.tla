--------------------------- MODULE HeatmapOverlay ---------------------------
(***************************************************************************)
(* A browser session that follows the published tile generations:          *)
(* frontend/src/components/HeatmapOverlay.tsx with lib/tile-urls.ts (the   *)
(* manifest poll and the generation snapshot) and lib/tile-composite.ts    *)
(* (the stitched picture of the over-zoom mode).                           *)
(*                                                                         *)
(* A closure of React is the pair of the generation and the sources it was *)
(* rendered with.  Three of them are alive at once: the rendered one,      *)
(* which apply reads through a ref, the one the moveend handler was        *)
(* subscribed with, and the one a waiting animation frame captured.  A     *)
(* composite takes many fetches; its signature says what it was built for. *)
(***************************************************************************)
EXTENDS ManifestRoute

CONSTANTS
  Source,        \* noise layers a user can toggle
  Range,         \* base-tile ranges of an over-zoomed viewport
  Tile,          \* tiles of the deck layer
  MaxChanges,    \* bound: toggles and moves
  MaxRequests    \* bound: tile requests of deck

\* What a render captures; what a composite was built for, or the tiles of a layer; and
\* the layer itself.
Closure == [build : 0..MaxBuild, sources : SUBSET Source]
Sig == [build : 0..MaxBuild, sources : SUBSET Source, range : Range \cup {None}]
Painting == [mode : {"tiles", "composite"}, sig : Sig]

OverlayAssumption ==
  /\ None \notin Range /\ None \notin Closure /\ None \notin Painting
  /\ {MaxChanges, MaxRequests} \subseteq Nat
ASSUME OverlayAssumption

VARIABLES
  store,         \* currentBuilds of tile-urls.ts
  wanted,        \* the sources prop
  view,          \* the range under the viewport, or None below OVERZOOM_FROM
  effect,        \* the effects of the last render have not run yet
  subscribed,    \* the closure of the update that moveend calls
  frame,         \* the closure of the update a frame waits with, or None
  composite,     \* signature of the composite at hand, or None
  seq,           \* buildSeq
  stitching,     \* composites being built
  painted,       \* the layer deck holds: a composite, tiles, or None
  held,          \* tile -> request of the instance in deck's cache, 0 if none
  arrived,       \* requests that have resolved
  loaded,        \* the overlay's mirror of deck's cache
  inFlight,      \* tile -> token of its current request, 0 if none
  requests,      \* requests made
  changes        \* toggles and moves so far

react == <<store, wanted, effect, subscribed>>
stitch == <<composite, seq, stitching>>
deck == <<painted, held, arrived, loaded, inFlight>>
vars == <<route, react, view, frame, stitch, deck, requests, changes>>

\* What a render captures: the generation snapshot and the sources.
Rendered == [build |-> store, sources |-> wanted]
Shown(c) == c.build > 0 /\ c.sources # {}
CompositeSig(c, range) == [build |-> c.build, sources |-> c.sources, range |-> range]
TilesOf(c) == [mode |-> "tiles", sig |-> CompositeSig(c, None)]
Stitched(sig) == [mode |-> "composite", sig |-> sig]

Init ==
  /\ RouteInit /\ store = 0
  /\ wanted \in SUBSET Source /\ view = None
  /\ effect = TRUE /\ subscribed = Rendered /\ frame = None
  /\ composite = None /\ seq = 0 /\ stitching = {}
  /\ painted = None /\ held = [t \in Tile |-> 0] /\ arrived = {}
  /\ loaded = {} /\ inFlight = [t \in Tile |-> 0]
  /\ requests = 0 /\ changes = 0

---------------------------------------------------------------------------
(* The generation: promotion, poll and store                                *)

Promotes == Promote /\ UNCHANGED <<react, view, frame, stitch, deck, requests, changes>>

\* refreshTileBuild, every ten minutes or when the tab is shown, and the route's part in it.
Polls(p) ==
  /\ Asks(p) \/ Reads(p) \/ Validates(p)
  /\ UNCHANGED <<react, view, frame, stitch, deck, requests, changes>>

Ages == Expires /\ UNCHANGED <<react, view, frame, stitch, deck, requests, changes>>

\* Mutant: the first generation a session sees is kept for good.
FirstAnswerStays(p) ==
  /\ poll[p].at = "answered"
  /\ poll' = [poll EXCEPT ![p] = Idle]
  /\ store' = IF store = 0 THEN poll[p].manifest ELSE store
  /\ effect' = (effect \/ store' # store)
  /\ UNCHANGED <<published, cached, wanted, subscribed, view, frame, stitch, deck, requests, changes>>

\* An answer may come after that of a later poll.  No manifest, or one equal to the store,
\* changes nothing; anything else is taken, and the subscribed overlay renders again.
PollAnswers(p) ==
  /\ poll[p].at = "answered"
  /\ poll' = [poll EXCEPT ![p] = Idle]
  /\ store' = IF poll[p].manifest = 0 THEN store ELSE poll[p].manifest
  /\ effect' = (effect \/ store' # store)
  /\ UNCHANGED <<published, cached, wanted, subscribed, view, frame, stitch, deck, requests, changes>>

Toggle(s) ==
  /\ changes < MaxChanges /\ changes' = changes + 1
  /\ wanted' = IF s \in wanted THEN wanted \ {s} ELSE wanted \cup {s}
  /\ effect' = TRUE
  /\ UNCHANGED <<route, store, subscribed, view, frame, stitch, deck, requests>>

---------------------------------------------------------------------------
(* The overlay                                                             *)

\* dropTileTails: another layer takes the place of the tile layer, or of another key.
Swap(next) ==
  IF painted = next
  THEN UNCHANGED <<held, loaded, inFlight>>
  ELSE /\ held' = [t \in Tile |-> 0] /\ loaded' = {}
       /\ inFlight' = [t \in Tile |-> 0]

\* Mutant: the composite at hand is painted whatever it was built for.
LayersOfAnyComposite(comp) ==
  IF ~Shown(Rendered) THEN None
  ELSE IF view # None /\ comp # None THEN Stitched(comp)
  ELSE TilesOf(Rendered)

\* The composite is painted only while its signature is that of the live view.
Layers(comp) ==
  IF ~Shown(Rendered) THEN None
  ELSE IF view # None /\ comp # None /\ comp = CompositeSig(Rendered, view) THEN Stitched(comp)
  ELSE TilesOf(Rendered)

Apply(comp) ==
  /\ painted' = Layers(comp) /\ Swap(Layers(comp))
  /\ UNCHANGED arrived

\* update: at most one frame waits, and it keeps the closure it was asked with.
Update(c) == frame' = IF frame = None THEN c ELSE frame

RunEffects ==
  /\ effect /\ effect' = FALSE
  /\ subscribed' = Rendered /\ Update(Rendered)
  /\ UNCHANGED <<route, store, wanted, view, stitch, deck, requests, changes>>

MoveEnd(v) ==
  /\ changes < MaxChanges /\ changes' = changes + 1
  /\ v # view /\ view' = v
  /\ Update(subscribed)
  /\ UNCHANGED <<route, react, stitch, deck, requests>>

\* Over-zoomed and without the matching composite: stop painting a stale one, and build.
Frame ==
  /\ frame # None /\ frame' = None
  /\ Apply(composite)
  /\ LET sig == CompositeSig(frame, view)
     IN  IF view # None /\ Shown(frame) /\ composite # sig
         THEN /\ seq' = seq + 1
              /\ stitching' = stitching \cup {[seq |-> seq + 1, sig |-> sig]}
         ELSE UNCHANGED <<seq, stitching>>
  /\ UNCHANGED <<route, react, view, composite, requests, changes>>

\* A build ends: dropped if a newer one was started, else kept, or null when nothing in
\* the range is audible.
StitchEnds(b, audible) ==
  /\ b \in stitching /\ stitching' = stitching \ {b}
  /\ IF b.seq # seq
     THEN UNCHANGED <<composite, deck>>
     ELSE /\ composite' = IF audible THEN b.sig ELSE None
          /\ Apply(composite')
  /\ UNCHANGED <<route, react, view, frame, seq, requests, changes>>

\* apply again for a refined tile, a new label anchor or another pixel ratio.
Reapply ==
  /\ Apply(composite)
  /\ UNCHANGED <<route, react, view, frame, stitch, requests, changes>>

---------------------------------------------------------------------------
(* The tile layer: deck's cache and the overlay's mirror of it              *)

TilesUp == painted # None /\ painted.mode = "tiles"

\* getTileData: a fresh token for the key.
DeckRequests(t) ==
  /\ TilesUp /\ held[t] = 0 /\ requests < MaxRequests
  /\ requests' = requests + 1
  /\ held' = [held EXCEPT ![t] = requests'] /\ inFlight' = [inFlight EXCEPT ![t] = requests']
  /\ UNCHANGED <<route, react, view, frame, stitch, painted, arrived, loaded, changes>>

\* Mutant: every request that resolves registers its tile.
RegistersAlways(t, token) == TRUE

\* A request resolves, perhaps long after deck forgot its tile: it registers only while
\* its token is current.
Registers(t, token) == inFlight[t] = token

RequestResolves(t, token) ==
  /\ token \in 1..requests /\ token \notin arrived
  /\ arrived' = arrived \cup {token}
  /\ IF Registers(t, token)
     THEN loaded' = loaded \cup {t} /\ inFlight' = [inFlight EXCEPT ![t] = 0]
     ELSE UNCHANGED <<loaded, inFlight>>
  /\ UNCHANGED <<route, react, view, frame, stitch, painted, held, requests, changes>>

\* onTileUnload.
DeckEvicts(t) ==
  /\ TilesUp /\ held[t] # 0
  /\ held' = [held EXCEPT ![t] = 0]
  /\ loaded' = loaded \ {t} /\ inFlight' = [inFlight EXCEPT ![t] = 0]
  /\ UNCHANGED <<route, react, view, frame, stitch, painted, arrived, requests, changes>>

---------------------------------------------------------------------------
Next ==
  \/ Promotes \/ Ages
  \/ \E p \in Poll : Polls(p) \/ PollAnswers(p)
  \/ \E s \in Source : Toggle(s)
  \/ \E v \in Range \cup {None} : MoveEnd(v)
  \/ RunEffects \/ Frame \/ Reapply
  \/ \E b \in stitching, audible \in BOOLEAN : StitchEnds(b, audible)
  \/ \E t \in Tile :
       DeckRequests(t) \/ DeckEvicts(t) \/ \E token \in 1..requests : RequestResolves(t, token)

\* The interval and the visibility event keep polling, fetches end, React runs its effects
\* and the browser its frames.
Fairness ==
  /\ \A p \in Poll : WF_vars(Polls(p)) /\ WF_vars(PollAnswers(p))
  /\ WF_vars(RunEffects) /\ WF_vars(Frame)

Spec == Init /\ [][Next]_vars /\ Fairness

---------------------------------------------------------------------------
(* Properties                                                              *)

\* The type of the session's state; no two builds under way share a sequence number.
TypeOK ==
  /\ published \in 0..MaxBuild /\ store \in 0..published
  /\ wanted \subseteq Source /\ view \in Range \cup {None} /\ effect \in BOOLEAN
  /\ subscribed \in Closure /\ (frame # None => frame \in Closure)
  /\ (composite # None => composite \in Sig) /\ seq \in Nat
  /\ painted \in Painting \cup {None}
  /\ \A b \in stitching : b.seq \in 1..seq /\ b.sig \in Sig
  /\ \A b, c \in stitching : b.seq = c.seq => b = c
  /\ held \in [Tile -> 0..requests] /\ inFlight \in [Tile -> 0..requests]
  /\ arrived \subseteq 1..requests /\ loaded \subseteq Tile
  /\ requests \in 0..MaxRequests /\ changes \in 0..MaxChanges

\* HeatmapOverlay.tsx, apply: once the effects and the frame have run, what deck holds is of
\* the live generation, sources and view, however the builds, answers and moves crossed.
PaintedIsCurrent ==
  ~effect /\ frame = None =>
    CASE ~Shown(Rendered) -> painted = None
      [] Shown(Rendered) /\ painted # None /\ painted.mode = "composite" ->
           view # None /\ painted = Stitched(CompositeSig(Rendered, view))
      [] OTHER -> painted = TilesOf(Rendered)

\* "must not become a ghost ancestor": a tile the preview defers to is in deck's cache,
\* and it is the instance now cached that has arrived.
NoGhostAncestor == \A t \in loaded : held[t] # 0 /\ held[t] \in arrived

\* tile-urls.ts: an open session ends on the last published generation, though answers
\* of older polls may come after newer ones.
SessionCatchesUp == <>[](store = published)
=============================================================================
