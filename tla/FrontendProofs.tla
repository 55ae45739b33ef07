--------------------------- MODULE FrontendProofs ---------------------------
(***************************************************************************)
(* Proofs about the tiles of the browser: the manifest route and the       *)
(* session that follows it (HeatmapOverlay), and the loading of one tile   *)
(* (TileLoader), for any number of generations, sources, ranges, tiles,    *)
(* polls, requests and layers.                                             *)
(***************************************************************************)
EXTENDS HeatmapOverlay, TileLoader, TLAPS

---------------------------------------------------------------------------
(* The manifest route *)

CacheSound ==
  cached # None => \E i, m \in 0..published : i <= m /\ cached = [id |-> i, manifest |-> m]

PollSound(p) ==
  \/ poll[p] = Idle
  \/ \E i \in 0..published : poll[p] = Reading(i)
  \/ \E i, m \in 0..published : i <= m /\ poll[p] = Validating(i, m)
  \/ \E i, m \in 0..published : i <= m /\ poll[p] = Answered(m, i)

RouteInv ==
  /\ published \in 0..MaxBuild
  /\ store \in 0..published
  /\ poll = [p \in Poll |-> poll[p]]
  /\ CacheSound
  /\ \A p \in Poll : PollSound(p)

LEMMA RouteInductive ==
  ASSUME RouteInv, [Next]_vars
  PROVE  RouteInv'
<1> USE RouteAssumption DEF RouteAssumption
<1>1. CASE Promotes
  <2>1. published \in Nat /\ published' = published + 1 /\ published' \in 0..MaxBuild
    BY <1>1 DEF Promotes, Promote, RouteInv
  <2>2. 0..published \subseteq 0..published'
    BY <2>1
  <2>3. store' = store /\ cached' = cached /\ poll' = poll
    BY <1>1 DEF Promotes, Promote, react
  <2>4. CacheSound'
    BY <2>2, <2>3 DEF RouteInv, CacheSound
  <2>5. ASSUME NEW p \in Poll
        PROVE  PollSound(p)'
    BY <2>2, <2>3 DEF RouteInv, PollSound
  <2> QED BY <2>1, <2>2, <2>3, <2>4, <2>5 DEF RouteInv
<1>2. ASSUME published' = published, store' \in 0..published
      PROVE  (poll' = [p \in Poll |-> poll'[p]]) /\ CacheSound' /\ (\A p \in Poll : PollSound(p)') => RouteInv'
  BY <1>2 DEF RouteInv
<1>3. ASSUME NEW p \in Poll, NEW entry, poll' = [poll EXCEPT ![p] = entry], published' = published,
             \/ entry = Idle
             \/ \E i \in 0..published : entry = Reading(i)
             \/ \E i, m \in 0..published : i <= m /\ entry = Validating(i, m)
             \/ \E i, m \in 0..published : i <= m /\ entry = Answered(m, i)
      PROVE  (poll' = [q \in Poll |-> poll'[q]]) /\ \A q \in Poll : PollSound(q)'
  <2>1. poll' = [q \in Poll |-> IF q = p THEN entry ELSE poll[q]]
    BY <1>3 DEF RouteInv
  <2>2. ASSUME NEW q \in Poll
        PROVE  PollSound(q)'
    <3>1. CASE q = p
      BY <1>3, <2>1, <3>1 DEF PollSound
    <3>2. CASE q # p
      <4>1. poll'[q] = poll[q] /\ PollSound(q)
        BY <2>1, <3>2 DEF RouteInv
      <4> QED BY <1>3, <4>1 DEF PollSound
    <3> QED BY <3>1, <3>2
  <2> QED BY <2>1, <2>2
<1>4. ASSUME NEW p \in Poll, Asks(p), store' = store
      PROVE  RouteInv'
  <2>1. PICK entry : /\ poll' = [poll EXCEPT ![p] = entry]
                     /\ entry = IF published = 0 THEN Answered(0, published)
                                ELSE IF cached # None /\ cached.id = published
                                     THEN Answered(cached.manifest, published)
                                     ELSE Reading(published)
    BY <1>4 DEF Asks
  <2>2. published \in Nat /\ published \in 0..published
    BY DEF RouteInv
  <2>3. \/ \E i \in 0..published : entry = Reading(i)
        \/ \E i, m \in 0..published : i <= m /\ entry = Answered(m, i)
    <3>1. CASE published = 0
      <4>1. 0 <= published /\ 0 \in 0..published /\ published <= 0
        BY <3>1
      <4> QED BY <2>1, <2>2, <3>1, <4>1
    <3>2. CASE published # 0 /\ cached # None /\ cached.id = published
      <4>1. PICK i, m \in 0..published : i <= m /\ cached = [id |-> i, manifest |-> m]
        BY <3>2 DEF RouteInv, CacheSound
      <4>2. entry = Answered(m, published) /\ published <= m
        BY <2>1, <3>2, <4>1
      <4> QED BY <2>2, <4>1, <4>2
    <3>3. CASE published # 0 /\ ~(cached # None /\ cached.id = published)
      BY <2>1, <2>2, <3>3
    <3> QED BY <3>1, <3>2, <3>3
  <2>4. published' = published /\ cached' = cached
    BY <1>4 DEF Asks
  <2>5. CacheSound'
    BY <2>4 DEF RouteInv, CacheSound
  <2>6. store' \in 0..published
    BY <1>4 DEF RouteInv
  <2> QED BY <1>2, <1>3, <2>1, <2>3, <2>4, <2>5, <2>6
<1>5. ASSUME NEW p \in Poll, Reads(p), store' = store
      PROVE  RouteInv'
  <2>1. PICK i \in 0..published : poll[p] = Reading(i)
    BY <1>5 DEF Reads, RouteInv, PollSound, Idle, Validating, Answered
  <2>2. poll' = [poll EXCEPT ![p] = Validating(i, published)]
    BY <1>5, <2>1 DEF Reads, Reading
  <2>3. i <= published /\ published \in 0..published
    BY DEF RouteInv
  <2>4. published' = published /\ CacheSound' /\ store' \in 0..published
    BY <1>5 DEF Reads, RouteInv, CacheSound
  <2> QED BY <1>2, <1>3, <2>2, <2>3, <2>4
<1>6. ASSUME NEW p \in Poll, Validates(p), store' = store
      PROVE  RouteInv'
  <2>1. PICK i, m \in 0..published : i <= m /\ poll[p] = Validating(i, m)
    BY <1>6 DEF Validates, RouteInv, PollSound, Idle, Reading, Answered
  <2>2. /\ poll' = [poll EXCEPT ![p] = Answered(m, i)]
        /\ cached' = [id |-> i, manifest |-> m]
    BY <1>6, <2>1 DEF Validates, Validating
  <2>3. published' = published /\ store' \in 0..published
    BY <1>6 DEF Validates, RouteInv
  <2>4. CacheSound'
    BY <2>1, <2>2, <2>3 DEF CacheSound
  <2> QED BY <1>2, <1>3, <2>1, <2>2, <2>3, <2>4
<1>7. CASE Ages
  <2>1. published' = published /\ store' = store /\ poll' = poll /\ cached' = None
    BY <1>7 DEF Ages, Expires, react
  <2> QED BY <2>1 DEF RouteInv, CacheSound, PollSound
<1>8. ASSUME NEW p \in Poll, PollAnswers(p)
      PROVE  RouteInv'
  <2>1. PICK i, m \in 0..published : i <= m /\ poll[p] = Answered(m, i)
    BY <1>8 DEF PollAnswers, RouteInv, PollSound, Idle, Reading, Validating
  <2>3. /\ published' = published /\ cached' = cached /\ poll' = [poll EXCEPT ![p] = Idle]
        /\ store' \in 0..published
    BY <1>8, <2>1 DEF PollAnswers, Answered, RouteInv
  <2>4. CacheSound'
    BY <2>3 DEF CacheSound, RouteInv
  <2> QED BY <1>2, <1>3, <2>3, <2>4
<1>9. CASE UNCHANGED <<route, store>>
  BY <1>9 DEF RouteInv, CacheSound, PollSound, route
<1>10. ASSUME NEW p \in Poll, Polls(p)
       PROVE  RouteInv'
  BY <1>4, <1>5, <1>6, <1>10 DEF Polls, react
<1> QED
  BY <1>1, <1>7, <1>8, <1>9, <1>10
     DEF Next, vars, react, Toggle, MoveEnd, RunEffects, Frame, Reapply, StitchEnds,
         DeckRequests, DeckEvicts, RequestResolves

LEMMA RouteInitially == Init => RouteInv
<1> SUFFICES ASSUME Init PROVE RouteInv
  OBVIOUS
<1>1. published = 0 /\ store = 0 /\ cached = None /\ poll = [p \in Poll |-> Idle]
  BY DEF Init, RouteInit
<1>2. \A p \in Poll : PollSound(p)
  BY <1>1 DEF PollSound
<1>3. CacheSound
  BY <1>1 DEF CacheSound
<1> QED BY <1>1, <1>2, <1>3, RouteAssumption DEF RouteInv, RouteAssumption

\* What the manifest route answers is at least as new as the pin was when the
\* request came, though the pin is replaced between its stat, its reading and
\* its validation, and requests overtake each other at the cache.
THEOREM RouteIsNotStale == Spec => []AnswerNotStale
<1>1. RouteInv => AnswerNotStale
  <2> SUFFICES ASSUME RouteInv, NEW p \in Poll, poll[p].at = "answered"
               PROVE  poll[p].manifest >= poll[p].since
    BY DEF AnswerNotStale
  <2>1. PICK i, m \in 0..published : i <= m /\ poll[p] = Answered(m, i)
    BY DEF RouteInv, PollSound, Idle, Reading, Validating
  <2> QED BY <2>1 DEF Answered
<1> QED BY <1>1, RouteInitially, RouteInductive, PTL DEF Spec
---------------------------------------------------------------------------
(* The session *)

LEMMA RenderedTyped ==
  ASSUME TypeOK
  PROVE  Rendered \in Closure
<1>1. published \in 0..MaxBuild /\ store \in 0..published /\ wanted \subseteq Source
  BY DEF TypeOK
<1>2. store \in 0..MaxBuild /\ wanted \in SUBSET Source
  BY <1>1, RouteAssumption DEF RouteAssumption
<1> QED BY <1>2 DEF Rendered, Closure

LEMMA LayersTyped ==
  ASSUME TypeOK, NEW comp, comp = None \/ comp \in Sig
  PROVE  Layers(comp) \in Painting \cup {None}
<1>1. Rendered \in Closure
  BY RenderedTyped
<1>2. CompositeSig(Rendered, None) \in Sig
  BY <1>1 DEF CompositeSig, Sig, Closure
<1>3. TilesOf(Rendered) \in Painting
  BY <1>2 DEF TilesOf, Painting
<1>4. ASSUME comp \in Sig PROVE Stitched(comp) \in Painting
  BY <1>4 DEF Stitched, Painting
<1> QED BY <1>3, <1>4 DEF Layers

LEMMA SwapTyped ==
  ASSUME TypeOK, NEW next, Swap(next), requests' = requests
  PROVE  /\ held' \in [Tile -> 0..requests'] /\ inFlight' \in [Tile -> 0..requests']
         /\ loaded' \subseteq Tile
<1>1. requests \in Nat
  BY OverlayAssumption DEF TypeOK, OverlayAssumption
<1>2. [t \in Tile |-> 0] \in [Tile -> 0..requests]
  BY <1>1
<1>3. \/ held' = held /\ loaded' = loaded /\ inFlight' = inFlight
      \/ held' = [t \in Tile |-> 0] /\ loaded' = {} /\ inFlight' = [t \in Tile |-> 0]
  BY DEF Swap
<1>4. held \in [Tile -> 0..requests] /\ inFlight \in [Tile -> 0..requests] /\ loaded \subseteq Tile
  BY DEF TypeOK
<1> QED BY <1>2, <1>3, <1>4

\* What the poll and the clicks do to the closures.
StoreTyped ==
  /\ wanted \subseteq Source /\ view \in Range \cup {None} /\ effect \in BOOLEAN
  /\ subscribed \in Closure /\ (frame # None => frame \in Closure)
  /\ changes \in 0..MaxChanges

StitchTyped ==
  /\ (composite # None => composite \in Sig) /\ seq \in Nat
  /\ \A b \in stitching : b.seq \in 1..seq /\ b.sig \in Sig
  /\ \A b, c \in stitching : b.seq = c.seq => b = c

DeckTyped ==
  /\ painted \in Painting \cup {None}
  /\ held \in [Tile -> 0..requests] /\ inFlight \in [Tile -> 0..requests]
  /\ arrived \subseteq 1..requests /\ loaded \subseteq Tile
  /\ requests \in 0..MaxRequests

LEMMA TypesOf == TypeOK <=> /\ published \in 0..MaxBuild /\ store \in 0..published
                            /\ StoreTyped /\ StitchTyped /\ DeckTyped
BY DEF TypeOK, StoreTyped, StitchTyped, DeckTyped

LEMMA StoreTypedInductive ==
  ASSUME TypeOK, RouteInv', [Next]_vars
  PROVE  StoreTyped'
<1> USE OverlayAssumption DEF OverlayAssumption
<1>0. Rendered \in Closure
  BY RenderedTyped
<1>1. ASSUME NEW s \in Source, Toggle(s)
      PROVE  StoreTyped'
  BY <1>1 DEF Toggle, TypeOK, StoreTyped
<1>2. ASSUME NEW v \in Range \cup {None}, MoveEnd(v)
      PROVE  StoreTyped'
  BY <1>2 DEF MoveEnd, Update, react, TypeOK, StoreTyped
<1>3. CASE RunEffects
  BY <1>0, <1>3 DEF RunEffects, Update, TypeOK, StoreTyped
<1>4. CASE Frame
  BY <1>4 DEF Frame, react, TypeOK, StoreTyped
<1>5. ASSUME NEW p \in Poll, PollAnswers(p)
      PROVE  StoreTyped'
  BY <1>5 DEF PollAnswers, TypeOK, StoreTyped
<1>6. CASE UNCHANGED <<react, view, frame, changes>>
  BY <1>6 DEF react, TypeOK, StoreTyped
<1> QED
  BY <1>1, <1>2, <1>3, <1>4, <1>5, <1>6
     DEF Next, vars, Promotes, Ages, Polls, Reapply, StitchEnds, DeckRequests, DeckEvicts,
         RequestResolves

LEMMA StitchTypedInductive ==
  ASSUME TypeOK, [Next]_vars
  PROVE  StitchTyped'
<1>1. CASE Frame
  <2>1. CASE view # None /\ Shown(frame) /\ composite # CompositeSig(frame, view)
    <3>1. frame \in Closure /\ view \in Range
      BY <1>1, <2>1 DEF Frame, TypeOK
    <3>2. CompositeSig(frame, view) \in Sig
      BY <3>1 DEF CompositeSig, Sig, Closure
    <3>3. PICK b : b = [seq |-> seq + 1, sig |-> CompositeSig(frame, view)]
      OBVIOUS
    <3>4. /\ composite' = composite /\ seq' = seq + 1 /\ stitching' = stitching \cup {b}
      BY <1>1, <2>1, <3>3 DEF Frame
    <3>5. b.seq = seq + 1 /\ b.sig \in Sig
      BY <3>2, <3>3
    <3>6. seq \in Nat /\ \A c \in stitching : c.seq \in 1..seq /\ c.sig \in Sig
      BY DEF TypeOK
    <3>7. \A c \in stitching' : c.seq \in 1..seq' /\ c.sig \in Sig
      BY <3>4, <3>5, <3>6
    <3>8. \A c, d \in stitching' : c.seq = d.seq => c = d
      BY <3>4, <3>5, <3>6 DEF TypeOK
    <3> QED BY <3>4, <3>6, <3>7, <3>8 DEF StitchTyped, TypeOK
  <2>2. CASE ~(view # None /\ Shown(frame) /\ composite # CompositeSig(frame, view))
    BY <1>1, <2>2 DEF Frame, TypeOK, StitchTyped
  <2> QED BY <2>1, <2>2
<1>2. ASSUME NEW b \in stitching, NEW audible \in BOOLEAN, StitchEnds(b, audible)
      PROVE  StitchTyped'
  BY <1>2 DEF StitchEnds, TypeOK, StitchTyped
<1>3. CASE UNCHANGED stitch
  BY <1>3 DEF stitch, TypeOK, StitchTyped
<1> QED
  BY <1>1, <1>2, <1>3
     DEF Next, vars, Promotes, Ages, Polls, PollAnswers, Toggle, MoveEnd, RunEffects, Reapply,
         DeckRequests, DeckEvicts, RequestResolves, stitch

LEMMA DeckTypedInductive ==
  ASSUME TypeOK, [Next]_vars
  PROVE  DeckTyped'
<1> USE OverlayAssumption DEF OverlayAssumption
<1>0. requests \in Nat /\ requests \in 0..MaxRequests
  BY DEF TypeOK
<1>1. ASSUME NEW comp, comp = None \/ comp \in Sig, Apply(comp), requests' = requests
      PROVE  DeckTyped'
  <2>1. painted' \in Painting \cup {None}
    BY <1>1, LayersTyped DEF Apply
  <2>2. /\ held' \in [Tile -> 0..requests'] /\ inFlight' \in [Tile -> 0..requests']
        /\ loaded' \subseteq Tile
    BY <1>1, SwapTyped DEF Apply
  <2> QED BY <1>1, <2>1, <2>2 DEF Apply, TypeOK, DeckTyped
<1>2. CASE Frame \/ Reapply
  BY <1>1, <1>2 DEF Frame, Reapply, TypeOK
<1>3. ASSUME NEW b \in stitching, NEW audible \in BOOLEAN, StitchEnds(b, audible)
      PROVE  DeckTyped'
  <2>1. CASE b.seq # seq
    BY <1>3, <2>1 DEF StitchEnds, deck, TypeOK, DeckTyped
  <2>2. CASE b.seq = seq
    <3>1. Apply(composite') /\ requests' = requests /\ (composite' = None \/ composite' \in Sig)
      BY <1>3, <2>2 DEF StitchEnds, TypeOK
    <3> QED BY <1>1, <3>1
  <2> QED BY <2>1, <2>2
<1>4. ASSUME NEW t \in Tile, DeckRequests(t)
      PROVE  DeckTyped'
  <2>1. requests' \in 0..MaxRequests /\ 0..requests \subseteq 0..requests' /\ 1..requests \subseteq 1..requests'
    BY <1>0, <1>4 DEF DeckRequests
  <2>2. requests' \in 0..requests'
    BY <1>0, <1>4 DEF DeckRequests
  <2>3. held' \in [Tile -> 0..requests'] /\ inFlight' \in [Tile -> 0..requests']
    BY <1>4, <2>1, <2>2 DEF DeckRequests, TypeOK
  <2> QED BY <1>4, <2>1, <2>3 DEF DeckRequests, TypeOK, DeckTyped
<1>5. ASSUME NEW t \in Tile, DeckEvicts(t)
      PROVE  DeckTyped'
  <2>1. 0 \in 0..requests
    BY <1>0
  <2> QED BY <1>5, <2>1 DEF DeckEvicts, TypeOK, DeckTyped
<1>6. ASSUME NEW t \in Tile, NEW token \in 1..requests, RequestResolves(t, token)
      PROVE  DeckTyped'
  <2>1. 0 \in 0..requests
    BY <1>0
  <2> QED BY <1>6, <2>1 DEF RequestResolves, TypeOK, DeckTyped
<1>7. CASE UNCHANGED <<deck, requests>>
  BY <1>7 DEF deck, TypeOK, DeckTyped
<1> QED
  BY <1>2, <1>3, <1>4, <1>5, <1>6, <1>7
     DEF Next, vars, Promotes, Ages, Polls, PollAnswers, Toggle, MoveEnd, RunEffects

LEMMA TypeInitially == Init => TypeOK
<1> SUFFICES ASSUME Init PROVE TypeOK
  OBVIOUS
<1> USE OverlayAssumption, RouteAssumption DEF OverlayAssumption, RouteAssumption
<1>1. Rendered \in Closure
  BY DEF Init, Rendered, Closure
<1> QED BY <1>1 DEF Init, RouteInit, TypeOK

LEMMA TypeInductive == TypeOK /\ RouteInv /\ [Next]_vars => TypeOK'
<1> SUFFICES ASSUME TypeOK, RouteInv, [Next]_vars PROVE TypeOK'
  OBVIOUS
<1>1. RouteInv'
  BY RouteInductive
<1>2. StoreTyped' /\ StitchTyped' /\ DeckTyped'
  BY <1>1, StoreTypedInductive, StitchTypedInductive, DeckTypedInductive
<1> QED BY <1>1, <1>2 DEF RouteInv, TypeOK, StoreTyped, StitchTyped, DeckTyped

\* The route's cache, the session's closures and deck's tiles keep their types.
THEOREM SessionTyped == Spec => [](TypeOK /\ RouteInv)
BY TypeInitially, TypeInductive, RouteInitially, RouteInductive, PTL DEF Spec
---------------------------------------------------------------------------
(* The mirror of deck's cache *)

\* Deck's side of a token: the current request of a key is that of the instance
\* deck holds.
MirrorInv ==
  /\ \A t \in Tile : inFlight[t] # 0 => inFlight[t] = held[t]
  /\ NoGhostAncestor

LEMMA MirrorInductive ==
  ASSUME TypeOK, TypeOK', MirrorInv, [Next]_vars
  PROVE  MirrorInv'
<1> USE DEF MirrorInv, NoGhostAncestor
<1>1. ASSUME NEW comp, Apply(comp)
      PROVE  MirrorInv'
  <2>1. \/ held' = held /\ loaded' = loaded /\ inFlight' = inFlight
        \/ held' = [t \in Tile |-> 0] /\ loaded' = {} /\ inFlight' = [t \in Tile |-> 0]
    BY <1>1 DEF Apply, Swap
  <2>2. arrived' = arrived
    BY <1>1 DEF Apply
  <2> QED BY <2>1, <2>2
<1>2. CASE Frame \/ Reapply
  BY <1>1, <1>2 DEF Frame, Reapply
<1>3. ASSUME NEW b \in stitching, NEW audible \in BOOLEAN, StitchEnds(b, audible)
      PROVE  MirrorInv'
  <2>1. Apply(composite') \/ UNCHANGED deck
    BY <1>3 DEF StitchEnds
  <2> QED BY <1>1, <2>1 DEF deck
<1>4. ASSUME NEW t \in Tile, DeckRequests(t)
      PROVE  MirrorInv'
  <2>1. /\ held' = [held EXCEPT ![t] = requests + 1] /\ inFlight' = [inFlight EXCEPT ![t] = requests + 1]
        /\ held[t] = 0 /\ loaded' = loaded /\ arrived' = arrived
    BY <1>4 DEF DeckRequests
  <2>2. t \notin loaded
    BY <2>1
  <2> QED BY <2>1, <2>2 DEF TypeOK
<1>5. ASSUME NEW t \in Tile, DeckEvicts(t)
      PROVE  MirrorInv'
  BY <1>5 DEF DeckEvicts, TypeOK
<1>6. ASSUME NEW t \in Tile, NEW token \in 1..requests, RequestResolves(t, token)
      PROVE  MirrorInv'
  <2>1. CASE inFlight[t] = token
    <3>1. token # 0 /\ held[t] = token
      BY <2>1, OverlayAssumption DEF OverlayAssumption, TypeOK
    <3> QED BY <1>6, <2>1, <3>1 DEF RequestResolves, Registers, TypeOK
  <2>2. CASE inFlight[t] # token
    BY <1>6, <2>2 DEF RequestResolves, Registers, TypeOK
  <2> QED BY <2>1, <2>2
<1>7. CASE UNCHANGED deck
  BY <1>7 DEF deck
<1> QED
  BY <1>2, <1>3, <1>4, <1>5, <1>6, <1>7
     DEF Next, vars, Promotes, Ages, Polls, PollAnswers, Toggle, MoveEnd, RunEffects

\* A tile the preview defers to is always one deck holds and has data for, however
\* late the answers of requests come that deck has forgotten.
THEOREM NoTileHaunts == Spec => []NoGhostAncestor
<1>1. Init => MirrorInv
  BY DEF Init, MirrorInv, NoGhostAncestor
<1>2. TypeOK /\ TypeOK' /\ MirrorInv /\ [Next]_vars => MirrorInv'
  BY MirrorInductive
<1>3. MirrorInv => NoGhostAncestor
  BY DEF MirrorInv
<1> QED BY <1>1, <1>2, <1>3, SessionTyped, PTL DEF Spec

---------------------------------------------------------------------------
(* The layer at rest *)

\* With no effect and no frame ahead, the layer is the one apply would take now.
RestInv == ~effect /\ frame = None => painted = Layers(composite)

LEMMA RestInductive ==
  ASSUME TypeOK, RestInv, [Next]_vars
  PROVE  RestInv'
<1> USE DEF RestInv
<1>1. CASE Frame \/ Reapply
  <2>1. /\ store' = store /\ wanted' = wanted /\ view' = view /\ composite' = composite
        /\ painted' = Layers(composite)
    BY <1>1 DEF Frame, Reapply, Apply, react, stitch
  <2> QED BY <2>1 DEF Layers, Rendered
<1>2. ASSUME NEW b \in stitching, NEW audible \in BOOLEAN, StitchEnds(b, audible)
      PROVE  RestInv'
  <2>1. store' = store /\ wanted' = wanted /\ view' = view /\ effect' = effect /\ frame' = frame
    BY <1>2 DEF StitchEnds, react
  <2>2. \/ composite' = composite /\ painted' = painted
        \/ painted' = Layers(composite')
    BY <1>2 DEF StitchEnds, Apply, deck
  <2> QED BY <2>1, <2>2 DEF Layers, Rendered
<1>3. ASSUME NEW s \in Source, Toggle(s)
      PROVE  RestInv'
  BY <1>3 DEF Toggle
<1>4. ASSUME NEW p \in Poll, PollAnswers(p)
      PROVE  RestInv'
  <2>1. effect' \/ (store' = store /\ effect' = effect)
    BY <1>4 DEF PollAnswers, TypeOK
  <2> QED BY <1>4, <2>1 DEF PollAnswers, Layers, Rendered, stitch, deck
<1>5. CASE RunEffects \/ \E v \in Range \cup {None} : MoveEnd(v)
  <2>1. PICK c \in Closure : frame' = IF frame = None THEN c ELSE frame
    BY <1>5, RenderedTyped DEF RunEffects, MoveEnd, Update, TypeOK
  <2>2. frame' # None
    BY <2>1, OverlayAssumption DEF OverlayAssumption
  <2> QED BY <2>2
<1>6. CASE UNCHANGED <<store, wanted, view, effect, frame, composite, painted>>
  BY <1>6 DEF Layers, Rendered
<1> QED
  BY <1>1, <1>2, <1>3, <1>4, <1>5, <1>6
     DEF Next, vars, react, stitch, deck, Promotes, Ages, Polls, DeckRequests, DeckEvicts,
         RequestResolves

\* When React and the browser have nothing left to run, deck shows the generation,
\* the sources and the view of that moment, whatever order the composites, the poll's
\* answers and the user's moves came in.
THEOREM LayerIsCurrent == Spec => []PaintedIsCurrent
<1>1. TypeOK /\ RestInv => PaintedIsCurrent
  <2> SUFFICES ASSUME TypeOK, RestInv, ~effect, frame = None PROVE PaintedIsCurrent
    BY DEF PaintedIsCurrent
  <2>1. painted = Layers(composite)
    BY DEF RestInv
  <2>2. CASE ~Shown(Rendered)
    BY <2>1, <2>2 DEF Layers, PaintedIsCurrent
  <2>3. CASE Shown(Rendered) /\ painted = TilesOf(Rendered)
    <3>1. painted.mode = "tiles"
      BY <2>3 DEF TilesOf
    <3> QED BY <2>3, <3>1 DEF PaintedIsCurrent
  <2>4. CASE Shown(Rendered) /\ view # None /\ painted = Stitched(CompositeSig(Rendered, view))
    <3>1. painted.mode = "composite"
      BY <2>4 DEF Stitched
    <3>2. view \in Range /\ CompositeSig(Rendered, view) \in Sig
      BY <2>4, RenderedTyped DEF TypeOK, CompositeSig, Sig, Closure
    <3>3. painted \in Painting
      BY <2>4, <3>2 DEF Stitched, Painting
    <3>4. painted # None
      BY <3>3, OverlayAssumption DEF OverlayAssumption
    <3> QED BY <2>4, <3>1, <3>4 DEF PaintedIsCurrent
  <2> QED BY <2>1, <2>2, <2>3, <2>4 DEF Layers
<1>2. Init => RestInv
  BY DEF Init, RestInv
<1>3. TypeOK /\ RestInv /\ [Next]_vars => RestInv'
  BY RestInductive
<1> QED BY <1>1, <1>2, <1>3, SessionTyped, PTL DEF Spec

---------------------------------------------------------------------------
(* The load of one tile *)

Fetch == {"loading", "landed", "empty", "failed", "aborted"}
AnyRequest == [for : {"preview", "full", "first", "tail"}, n : Nat]

LoaderTyped ==
  /\ settled \in [Layer -> Fetch]
  /\ grids \in Seq(Layer)
  /\ preview \in BOOLEAN /\ fallback \in BOOLEAN /\ aborted \in BOOLEAN /\ grace \in BOOLEAN
  /\ scheduled \in BOOLEAN
  /\ worker \in Seq(AnyRequest)

\* The loader decides before all has settled only over a layer that landed, or over a
\* preview that hides no sharper ancestor.
HeldBack ==
  /\ pc = "swap2" => Landed > 0
  /\ pc = "decide" /\ ~AllSettled /\ Landed = 0 =>
        grace /\ ancestor = "ready" /\ ~(preview /\ fallback)

\* The picture shows the layers of the last compose, and none before the tile resolves.
ShowsComposed ==
  /\ composed \in 0..Landed
  /\ image.n = composed
  /\ image.kind = "layers" => composed > 0
  /\ pc # "resolved" => composed = 0 /\ ~scheduled

\* A request in the worker is one the loader waits for; what it will show is no less than
\* what is shown, and no less than what the request before it will.
Awaited(r) ==
  /\ r.for = "preview" => ancestor = "composing"
  /\ r.for \in {"full", "first"} => pc = r.for
  /\ r.for = "tail" => pc = "resolved"
  /\ r.for # "preview" => r.n > 0 /\ r.n \in composed..Landed

Before(q, r) ==
  /\ q.for = r.for => q.for = "tail"
  /\ {q.for, r.for} # {"full", "first"}
  /\ q.for # "preview" /\ r.for # "preview" => q.n <= r.n

RequestsInOrder ==
  /\ \A i \in DOMAIN worker : Awaited(worker[i])
  /\ \A i, j \in DOMAIN worker : i < j => Before(worker[i], worker[j])

LoaderInv == LoaderTyped /\ HeldBack /\ ShowsComposed /\ RequestsInOrder

LEMMA LoaderInit == LoadInit => LoaderInv
<1> SUFFICES ASSUME LoadInit PROVE LoaderInv
  OBVIOUS
<1>1. worker = <<>> /\ grids = <<>> /\ image = Nothing /\ composed = 0 /\ ~scheduled
  BY DEF LoadInit
<1>2. LoaderTyped
  <2>1. grids \in Seq(Layer) /\ worker \in Seq(AnyRequest)
    BY <1>1
  <2>2. settled \in [Layer -> Fetch]
    BY DEF LoadInit, Fetch
  <2> QED BY <2>1, <2>2 DEF LoadInit, LoaderTyped
<1>3. HeldBack /\ ShowsComposed
  BY <1>1 DEF LoadInit, HeldBack, ShowsComposed, Nothing, Landed
<1>4. RequestsInOrder
  BY <1>1 DEF RequestsInOrder
<1> QED
  BY <1>2, <1>3, <1>4 DEF LoaderInv

\* A new request goes behind the others.
LEMMA Pushed ==
  ASSUME LoaderTyped, NEW r \in AnyRequest, worker' = Append(worker, r)
  PROVE  /\ worker' \in Seq(AnyRequest)
         /\ \A i \in DOMAIN worker' :
               \/ i \in DOMAIN worker /\ worker'[i] = worker[i]
               \/ i \notin DOMAIN worker /\ worker'[i] = r
                  /\ \A j \in DOMAIN worker' : i < j => FALSE
BY DEF LoaderTyped

\* The worker answers the first request: the others keep their order.
LEMMA Popped ==
  ASSUME LoaderTyped, worker # <<>>, worker' = Tail(worker)
  PROVE  /\ worker' \in Seq(AnyRequest)
         /\ 1 \in DOMAIN worker /\ Head(worker) = worker[1] /\ Head(worker) \in AnyRequest
         /\ \A i \in DOMAIN worker' :
               i \in Nat /\ 1 < i + 1 /\ i + 1 \in DOMAIN worker /\ worker'[i] = worker[i + 1]
BY DEF LoaderTyped

\* The awaits before the decision, where no request of the tile is under way.
LEMMA AwaitSteps ==
  ASSUME LoaderInv,
         \/ HeadStartOver \/ HeldOut \/ SomethingToShow
         \/ RealDataLanded \/ HeldOutAgain \/ Throw
  PROVE  LoaderInv'
<1>1. /\ pc \notin {"full", "first", "resolved"} /\ pc' # "resolved"
      /\ UNCHANGED <<settled, grids, ancestor, aborted, fallback, grace, image, composed, scheduled,
                     worker>>
      /\ preview' \in {preview, FALSE}
  BY DEF HeadStartOver, HeldOut, SomethingToShow, RealDataLanded,
         HeldOutAgain, Throw, Recheck, ArmSwap, loads,
         timers, tail, compose
<1>2. LoaderTyped'
  BY <1>1 DEF LoaderInv, LoaderTyped
<1>3. HeldBack'
  <2> USE <1>1 DEF LoaderInv, LoaderTyped, HeldBack, Landed, AllSettled, Ready,
           WakesAt, PreviewEligible, Recheck, ArmSwap
  <2>0. Len(grids) \in Nat
    OBVIOUS
  <2>1. CASE HeadStartOver
    BY <2>1 DEF HeadStartOver
  <2>2. CASE HeldOut
    BY <2>2 DEF HeldOut
  <2>3. CASE SomethingToShow
    BY <2>0, <2>3 DEF SomethingToShow
  <2>4. CASE RealDataLanded
    BY <2>0, <2>4 DEF RealDataLanded
  <2>5. CASE HeldOutAgain
    BY <2>5 DEF HeldOutAgain
  <2>6. CASE Throw
    BY <2>6 DEF Throw
  <2> QED BY <2>1, <2>2, <2>3, <2>4, <2>5, <2>6
<1>4. ShowsComposed'
  BY <1>1 DEF LoaderInv, ShowsComposed, Landed
<1>5. RequestsInOrder'
  BY <1>1 DEF LoaderInv, RequestsInOrder, Awaited, Landed
<1> QED BY <1>2, <1>3, <1>4, <1>5 DEF LoaderInv

\* The network, the timers, deck and the death of the worker reach neither the requests
\* nor the picture.
LEMMA EventSteps ==
  ASSUME LoaderInv,
         \/ WorkerDies \/ EarlyFires \/ GraceFires \/ SwapFires
         \/ \E l \in Layer, how \in {"landed", "empty", "failed"} : LayerSettles(l, how)
         \/ \E stopped \in SUBSET Layer : Abort(stopped)
         \/ FallbackChanges
  PROVE  LoaderInv'
<1>1. /\ pc # "decide" /\ UNCHANGED <<pc, ancestor, preview, image, composed, worker>>
  BY DEF WorkerDies, EarlyFires, GraceFires, SwapFires,
         LayerSettles, Abort, FallbackChanges, Quiet, loads,
         timers, tail, compose
<1>2. /\ settled' \in [Layer -> Fetch]
      /\ grids' \in Seq(Layer) /\ Landed' >= Landed
      /\ fallback' \in BOOLEAN /\ aborted' \in BOOLEAN /\ grace' \in BOOLEAN
      /\ scheduled' \in BOOLEAN /\ (scheduled' => scheduled \/ pc = "resolved")
  <2> DEFINE Kept == /\ settled' \in [Layer -> Fetch]
                     /\ grids' \in Seq(Layer) /\ Landed' >= Landed
                     /\ fallback' \in BOOLEAN /\ aborted' \in BOOLEAN /\ grace' \in BOOLEAN
                     /\ scheduled' \in BOOLEAN /\ (scheduled' => scheduled \/ pc = "resolved")
  <2> USE DEF LoaderInv, LoaderTyped, Landed, Fetch
  <2>1. ASSUME NEW l \in Layer, NEW how \in {"landed", "empty", "failed"},
               LayerSettles(l, how)
        PROVE  Kept
    BY <2>1 DEF LayerSettles, timers
  <2>2. ASSUME NEW stopped \in SUBSET Layer, Abort(stopped) PROVE Kept
    BY <2>2 DEF Abort, timers
  <2>3. CASE WorkerDies \/ EarlyFires \/ SwapFires
    BY <2>3 DEF WorkerDies, EarlyFires, SwapFires, loads, timers,
                tail
  <2>4. CASE GraceFires
    BY <2>4 DEF GraceFires, loads, tail
  <2>5. CASE FallbackChanges
    <3>1. fallback' \in BOOLEAN
      BY <2>5 DEF FallbackChanges
    <3> QED BY <2>5, <3>1 DEF FallbackChanges, loads, timers, tail
  <2> QED BY <2>1, <2>2, <2>3, <2>4, <2>5
<1>3. Landed \in Nat /\ Landed' \in Nat
  BY <1>2 DEF LoaderInv, LoaderTyped, Landed
<1> HIDE DEF Landed
<1>4. LoaderTyped'
  BY <1>1, <1>2 DEF LoaderInv, LoaderTyped
<1>5. HeldBack'
  BY <1>1, <1>2, <1>3 DEF LoaderInv, HeldBack
<1>6. ShowsComposed'
  BY <1>1, <1>2, <1>3 DEF LoaderInv, ShowsComposed
<1>7. RequestsInOrder'
  <2>1. \A i \in DOMAIN worker : Awaited(worker[i])'
    BY <1>1, <1>2, <1>3 DEF LoaderInv, RequestsInOrder, Awaited, ShowsComposed
  <2> QED BY <1>1, <2>1 DEF LoaderInv, RequestsInOrder
<1> QED BY <1>4, <1>5, <1>6, <1>7 DEF LoaderInv

\* A request is sent behind those that stay awaited.
LEMMA PushKeepsOrder ==
  ASSUME LoaderInv, NEW r \in AnyRequest, worker' = Append(worker, r),
         \A q \in AnyRequest : Awaited(q) => Awaited(q)' /\ Before(q, r),
         Awaited(r)'
  PROVE  RequestsInOrder'
<1>1. /\ LoaderTyped /\ \A i \in DOMAIN worker : worker[i] \in AnyRequest /\ Awaited(worker[i])
      /\ \A i, j \in DOMAIN worker : i < j => Before(worker[i], worker[j])
  BY DEF LoaderInv, LoaderTyped, RequestsInOrder
<1>2. \A i \in DOMAIN worker' :
        \/ i \in DOMAIN worker /\ worker'[i] = worker[i]
        \/ i \notin DOMAIN worker /\ worker'[i] = r /\ \A j \in DOMAIN worker' : i < j => FALSE
  BY <1>1, Pushed
<1>3. \A i \in DOMAIN worker' : worker'[i] \in AnyRequest
  BY <1>1, <1>2
<1>4. ASSUME NEW q \in AnyRequest, NEW i \in DOMAIN worker', q = worker'[i] PROVE Awaited(q)'
  BY <1>1, <1>2, <1>4
<1>5. \A i \in DOMAIN worker' : Awaited(worker[i])'
  BY <1>3, <1>4 DEF Awaited
<1>6. \A i, j \in DOMAIN worker' : i < j => Before(worker'[i], worker'[j])
  BY <1>1, <1>2
<1> QED BY <1>5, <1>6 DEF RequestsInOrder, Before

\* A request is answered, and those behind it stay awaited.
LEMMA PopKeepsOrder ==
  ASSUME LoaderInv, worker # <<>>, worker' = Tail(worker),
         \A q \in AnyRequest : Awaited(q) /\ Before(Head(worker), q) => Awaited(q)'
  PROVE  RequestsInOrder'
<1>1. /\ LoaderTyped /\ \A i \in DOMAIN worker : worker[i] \in AnyRequest /\ Awaited(worker[i])
      /\ \A i, j \in DOMAIN worker : i < j => Before(worker[i], worker[j])
  BY DEF LoaderInv, LoaderTyped, RequestsInOrder
<1>2. /\ 1 \in DOMAIN worker /\ Head(worker) = worker[1]
      /\ \A i \in DOMAIN worker' :
            i \in Nat /\ 1 < i + 1 /\ i + 1 \in DOMAIN worker /\ worker'[i] = worker[i + 1]
  BY <1>1, Popped
<1>3. ASSUME NEW q \in AnyRequest, NEW i \in DOMAIN worker', q = worker'[i] PROVE Awaited(q)'
  BY <1>1, <1>2, <1>3
<1>4. \A i \in DOMAIN worker' : Awaited(worker[i])'
  <2>1. \A i \in DOMAIN worker' : worker'[i] \in AnyRequest
    BY <1>1, <1>2
  <2> QED BY <1>3, <2>1 DEF Awaited
<1>5. \A i, j \in DOMAIN worker' : i < j => Before(worker'[i], worker'[j])
  <2> SUFFICES ASSUME NEW i \in DOMAIN worker', NEW j \in DOMAIN worker', i < j
               PROVE  Before(worker'[i], worker'[j])
    OBVIOUS
  <2>1. i \in Nat /\ j \in Nat /\ i + 1 < j + 1
    BY <1>2
  <2> QED BY <1>1, <1>2, <2>1
<1> QED BY <1>4, <1>5 DEF RequestsInOrder, Before

\* A frame asks for a recompose, or the ancestors arrive.
LEMMA LaterRequests ==
  ASSUME LoaderInv, Recompose \/ AncestorsLand
  PROVE  LoaderInv'
<1>1. /\ pc # "decide" /\ (worker # <<>> => alive)
      /\ UNCHANGED <<pc, settled, grids, aborted, fallback, grace>>
  BY DEF Recompose, AncestorsLand, Quiet, timers
<1>2. Landed \in Nat /\ Landed' = Landed
  BY <1>1 DEF LoaderInv, LoaderTyped, Landed
<1>3. HeldBack'
  BY <1>1, <1>2 DEF LoaderInv, HeldBack, AllSettled
<1>4. CASE Recompose
  <2>1. UNCHANGED <<ancestor, preview>> /\ scheduled /\ scheduled' = FALSE
    BY <1>4 DEF Recompose
  <2>2. pc = "resolved" /\ composed \in 0..Landed
    BY <2>1 DEF LoaderInv, ShowsComposed
  <2>3. ASSUME worker' = worker, ShowsComposed', composed' = composed \/ worker = <<>>
        PROVE  LoaderInv'
    <3>1. LoaderTyped'
      BY <1>1, <2>1, <2>3 DEF LoaderInv, LoaderTyped
    <3>2. RequestsInOrder'
      BY <1>1, <1>2, <2>1, <2>3 DEF LoaderInv, RequestsInOrder, Awaited
    <3> QED BY <1>3, <2>3, <3>1, <3>2 DEF LoaderInv
  <2>4. CASE UNCHANGED <<image, composed, worker>>
    BY <1>1, <1>2, <2>1, <2>3, <2>4 DEF LoaderInv, ShowsComposed
  <2>5. CASE Landed = 0 /\ image' = Clear /\ UNCHANGED <<composed, worker>>
    <3>1. ShowsComposed'
      BY <1>1, <1>2, <2>1, <2>2, <2>5 DEF ShowsComposed, Clear
    <3> QED BY <2>3, <2>5, <3>1
  <2>6. CASE /\ Landed # composed /\ Request("tail", Landed)
             /\ UNCHANGED <<image, composed>>
    <3>1. PICK r \in AnyRequest : r.for = "tail" /\ r.n = Landed /\ worker' = Append(worker, r)
      BY <1>2, <2>6 DEF Request, AnyRequest
    <3>2. Awaited(r)'
      BY <1>1, <1>2, <2>2, <2>6, <3>1 DEF Awaited
    <3>3. \A q \in AnyRequest : Awaited(q) => Awaited(q)' /\ Before(q, r)
      BY <1>1, <1>2, <2>1, <2>2, <2>6, <3>1 DEF Awaited, Before
    <3>4. RequestsInOrder'
      BY <3>1, <3>2, <3>3, PushKeepsOrder
    <3>5. LoaderTyped'
      BY <1>1, <2>1, <3>1, Pushed DEF LoaderInv, LoaderTyped
    <3>6. ShowsComposed'
      BY <1>1, <1>2, <2>1, <2>6 DEF LoaderInv, ShowsComposed
    <3> QED BY <1>3, <3>4, <3>5, <3>6 DEF LoaderInv
  <2>7. CASE /\ ~alive /\ Landed # composed /\ image' = Shows(Landed)
             /\ composed' = Landed /\ UNCHANGED worker
    <3>1. ShowsComposed'
      BY <1>1, <1>2, <2>1, <2>2, <2>7 DEF ShowsComposed, Shows
    <3> QED BY <1>1, <2>3, <2>7, <3>1
  <2> QED BY <1>4, <2>4, <2>5, <2>6, <2>7 DEF Recompose, SyncCompose
<1>5. CASE AncestorsLand
  <2>1. ancestor = "fetching" /\ UNCHANGED <<image, composed, scheduled>>
    BY <1>5 DEF AncestorsLand, tail
  <2>2. ShowsComposed'
    BY <1>1, <1>2, <2>1 DEF LoaderInv, ShowsComposed
  <2>3. \A q \in AnyRequest : Awaited(q) => q.for # "preview" /\ Awaited(q)'
    BY <1>1, <1>2, <2>1 DEF Awaited
  <2>4. CASE worker' = worker /\ preview' \in {preview, TRUE}
    <3>1. LoaderTyped'
      BY <1>1, <2>1, <2>4 DEF LoaderInv, LoaderTyped
    <3>2. RequestsInOrder'
      BY <1>1, <1>2, <2>1, <2>4 DEF LoaderInv, RequestsInOrder, Awaited
    <3> QED BY <1>3, <2>2, <3>1, <3>2 DEF LoaderInv
  <2>5. CASE ancestor' = "composing" /\ Request("preview", 0) /\ UNCHANGED preview
    <3>1. PICK r \in AnyRequest : r.for = "preview" /\ worker' = Append(worker, r)
      BY <2>5 DEF Request, AnyRequest
    <3>2. Awaited(r)'
      BY <2>5, <3>1 DEF Awaited
    <3>3. \A q \in AnyRequest : Awaited(q) => Awaited(q)' /\ Before(q, r)
      BY <2>3, <3>1 DEF Before
    <3>4. RequestsInOrder'
      BY <3>1, <3>2, <3>3, PushKeepsOrder
    <3>5. LoaderTyped'
      BY <1>1, <2>1, <2>5, <3>1, Pushed DEF LoaderInv, LoaderTyped
    <3> QED BY <1>3, <2>2, <3>4, <3>5 DEF LoaderInv
  <2> QED BY <1>5, <2>4, <2>5 DEF AncestorsLand, SyncCompose
<1> QED BY <1>4, <1>5

\* The decision: the tile ends, or asks for its first picture, or resolves.
LEMMA DecideSteps ==
  ASSUME LoaderInv, DecideWhole \/ DecideEarly
  PROVE  /\ LoaderInv'
         /\ image'.kind = "preview" => image = image' \/ (~fallback /\ grace /\ Landed = 0)
<1>1. /\ pc = "decide" /\ ~aborted
      /\ UNCHANGED <<settled, grids, ancestor, preview, aborted, fallback, grace>>
  BY DEF DecideWhole, DecideEarly, loads, timers
<1>2. Landed \in Nat /\ Landed' = Landed
  BY <1>1 DEF LoaderInv, LoaderTyped, Landed
<1>3. composed = 0 /\ scheduled = FALSE /\ \A q \in AnyRequest : Awaited(q) => q.for = "preview"
  BY <1>1 DEF LoaderInv, LoaderTyped, ShowsComposed, Awaited, AnyRequest
<1>4. \A q \in AnyRequest : Awaited(q) => Awaited(q)'
  BY <1>1, <1>3 DEF Awaited
<1>5. \A i \in DOMAIN worker : worker[i] \in AnyRequest
  BY DEF LoaderInv, LoaderTyped
\* The tile ends or resolves: the requests of the preview are left.
<1>6. ASSUME worker' = worker, pc' \in {"resolved", "empty", "error"}, scheduled' \in BOOLEAN,
             ShowsComposed'
      PROVE  LoaderInv'
  <2>1. LoaderTyped' /\ HeldBack'
    BY <1>1, <1>6 DEF LoaderInv, LoaderTyped, HeldBack
  <2>2. \A i \in DOMAIN worker : Awaited(worker[i])'
    BY <1>1, <1>3, <1>5, <1>6 DEF LoaderInv, RequestsInOrder, Awaited
  <2>3. RequestsInOrder'
    BY <1>6, <2>2 DEF LoaderInv, RequestsInOrder
  <2> QED BY <1>6, <2>1, <2>3 DEF LoaderInv
<1>7. CASE pc' \in {"empty", "error"} /\ UNCHANGED <<image, composed, scheduled, worker>>
  <2>1. ShowsComposed' /\ scheduled' \in BOOLEAN
    BY <1>1, <1>2, <1>3, <1>7 DEF LoaderInv, ShowsComposed
  <2> QED BY <1>6, <1>7, <2>1
<1>8. ASSUME NEW f \in {"full", "first"}, pc' = f, Request(f, Landed),
             Landed > 0, UNCHANGED <<image, composed, scheduled>>
      PROVE  LoaderInv'
  <2>1. PICK r \in AnyRequest : r.for = f /\ r.n = Landed /\ worker' = Append(worker, r)
    BY <1>2, <1>8 DEF Request, AnyRequest
  <2>2. Awaited(r)'
    BY <1>2, <1>3, <1>8, <2>1 DEF Awaited
  <2>3. \A q \in AnyRequest : Awaited(q) => Awaited(q)' /\ Before(q, r)
    BY <1>3, <1>4, <1>8, <2>1 DEF Before
  <2>4. RequestsInOrder'
    BY <2>1, <2>2, <2>3, PushKeepsOrder
  <2>5. LoaderTyped'
    BY <1>1, <1>8, <2>1, Pushed DEF LoaderInv, LoaderTyped
  <2>6. HeldBack' /\ ShowsComposed'
    BY <1>2, <1>3, <1>8 DEF LoaderInv, HeldBack, ShowsComposed
  <2> QED BY <2>4, <2>5, <2>6 DEF LoaderInv
<1>9. CASE /\ Landed > 0 /\ pc' = "resolved" /\ scheduled' \in BOOLEAN
           /\ image' = Shows(Landed) /\ composed' = Landed
           /\ UNCHANGED worker
  <2>1. ShowsComposed' /\ image'.kind = "layers"
    BY <1>2, <1>9 DEF ShowsComposed, Shows
  <2> QED BY <1>6, <1>9, <2>1
<1>10. CASE /\ Landed = 0 /\ ~AllSettled
            /\ image' = IF preview THEN [kind |-> "preview", n |-> 0] ELSE Clear
            /\ composed' = 0 /\ pc' = "resolved" /\ scheduled' \in BOOLEAN /\ UNCHANGED worker
  <2>1. ShowsComposed' /\ (image'.kind = "preview" => preview)
    BY <1>2, <1>10 DEF ShowsComposed, Clear
  <2>2. preview => ~fallback /\ grace
    BY <1>1, <1>10 DEF LoaderInv, HeldBack
  <2> QED BY <1>6, <1>10, <2>1, <2>2
<1>11. CASE DecideWhole
  BY <1>3, <1>7, <1>8, <1>9, <1>11
  DEF DecideWhole, SyncCompose, ResolvedWhole, Fails, tail
<1>12. CASE DecideEarly
  BY <1>7, <1>8, <1>9, <1>10, <1>12
  DEF DecideEarly, SyncCompose, ResolvedEarly, Fails, tail
<1> QED BY <1>11, <1>12

\* An answer of the worker, or a compose in its place: behind a resolved tile it shows no
\* less than before, as the requests are answered in the order they were made.
LEMMA ReplySteps ==
  ASSUME LoaderInv, WorkerReplies \/ Drain
  PROVE  /\ LoaderInv'
         /\ image' = image \/ (image'.kind = "layers" /\ ~aborted /\ image'.n >= image.n)
<1> DEFINE r == Head(worker)
<1>1. /\ worker # <<>> /\ worker' = Tail(worker)
      /\ UNCHANGED <<settled, grids, aborted, fallback, grace>>
  BY DEF WorkerReplies, Drain, timers
<1>2. /\ worker' \in Seq(AnyRequest) /\ r \in AnyRequest /\ Awaited(r)
  <2>1. LoaderTyped
    BY DEF LoaderInv
  <2>2. /\ worker' \in Seq(AnyRequest)
        /\ 1 \in DOMAIN worker /\ r = worker[1] /\ r \in AnyRequest
    BY <1>1, <2>1, Popped
  <2> QED BY <2>2 DEF LoaderInv, RequestsInOrder
<1>3. Landed \in Nat /\ Landed' = Landed
  BY <1>1 DEF LoaderInv, LoaderTyped, Landed
<1>4. composed \in 0..Landed /\ image.n = composed
  BY DEF LoaderInv, ShowsComposed
<1> HIDE DEF r
<1>5. ASSUME \A q \in AnyRequest : Awaited(q) /\ Before(r, q) => Awaited(q)',
             preview' \in BOOLEAN, scheduled' \in BOOLEAN, HeldBack', ShowsComposed'
      PROVE  LoaderInv'
  <2>1. LoaderTyped'
    BY <1>1, <1>2, <1>5 DEF LoaderInv, LoaderTyped
  <2>2. RequestsInOrder'
    BY <1>1, <1>5, PopKeepsOrder DEF r
  <2> QED BY <1>5, <2>1, <2>2 DEF LoaderInv
<1>6. preview \in BOOLEAN /\ scheduled \in BOOLEAN
  BY DEF LoaderInv, LoaderTyped
\* The preview is ready, or failed.
<1>7. CASE r.for = "preview" /\ UNCHANGED <<pc, image, composed, scheduled>> /\ preview' \in {preview, TRUE}
  <2>1. ancestor = "composing"
    BY <1>2, <1>7 DEF Awaited
  <2>2. HeldBack'
    BY <1>1, <1>3, <1>7, <2>1 DEF LoaderInv, HeldBack, AllSettled
  <2>3. ShowsComposed'
    BY <1>3, <1>7 DEF LoaderInv, ShowsComposed
  <2>4. \A q \in AnyRequest : Awaited(q) /\ Before(r, q) => Awaited(q)'
    BY <1>3, <1>7 DEF Awaited, Before
  <2> QED BY <1>5, <1>6, <1>7, <2>2, <2>3, <2>4
\* The first picture of the tile: the requests left are those of the preview.
<1>8. CASE /\ r.for \in {"full", "first"} /\ pc' \in {"thrown", "error", "resolved"}
           /\ UNCHANGED <<preview, ancestor>>
           /\ \/ UNCHANGED <<image, composed, scheduled>>
              \/ /\ pc' = "resolved" /\ ~aborted /\ scheduled' \in BOOLEAN
                 /\ image' = Shows(r.n) /\ composed' = r.n
  <2>1. pc \in {"full", "first"} /\ pc = r.for /\ r.n > 0 /\ r.n \in composed..Landed
    BY <1>2, <1>8 DEF Awaited
  <2>2. HeldBack'
    BY <1>8 DEF HeldBack
  <2>3. ShowsComposed'
    BY <1>3, <1>4, <1>8, <2>1 DEF LoaderInv, ShowsComposed, Shows
  <2>4. \A q \in AnyRequest : Awaited(q) /\ Before(r, q) => Awaited(q)'
    <3>1. \A q \in AnyRequest : Awaited(q) /\ Before(r, q) => q.for = "preview"
      BY <1>8, <2>1 DEF Awaited, Before, AnyRequest
    <3> QED BY <1>8, <3>1 DEF Awaited
  <2>5. image' = image \/ (image'.kind = "layers" /\ ~aborted /\ image'.n >= image.n)
    BY <1>4, <1>8, <2>1 DEF Shows
  <2> QED BY <1>5, <1>6, <1>8, <2>2, <2>3, <2>4, <2>5
\* A recompose of the tail.
<1>9. CASE /\ r.for = "tail" /\ UNCHANGED <<pc, scheduled, preview, ancestor>>
           /\ \/ UNCHANGED <<image, composed>>
              \/ ~aborted /\ image' = Shows(r.n) /\ composed' = r.n
  <2>1. pc = "resolved" /\ r.n > 0 /\ r.n \in composed..Landed
    BY <1>2, <1>9 DEF Awaited
  <2>2. HeldBack'
    BY <1>9, <2>1 DEF HeldBack
  <2>3. ShowsComposed'
    BY <1>3, <1>4, <1>9, <2>1 DEF LoaderInv, ShowsComposed, Shows
  <2>4. \A q \in AnyRequest : Awaited(q) /\ Before(r, q) => Awaited(q)'
    BY <1>2, <1>3, <1>4, <1>9, <2>1 DEF Awaited, Before, AnyRequest
  <2>5. image' = image \/ (image'.kind = "layers" /\ ~aborted /\ image'.n >= image.n)
    BY <1>4, <1>9, <2>1 DEF Shows
  <2> QED BY <1>5, <1>6, <1>9, <2>2, <2>3, <2>4, <2>5
<1> DEFINE Done == LoaderInv' /\ (image' = image \/ (image'.kind = "layers" /\ ~aborted /\ image'.n >= image.n))
<1>10. ASSUME Composed(r) PROVE Done
  <2> USE <1>10 DEF Composed, tail
  <2>1. CASE r.for = "preview"
    <3>1. preview' = TRUE /\ UNCHANGED <<pc, image, composed, scheduled>>
      BY <2>1
    <3> QED BY <1>7, <2>1, <3>1
  <2>2. CASE r.for = "full" /\ ~aborted
    <3>1. /\ pc' = "resolved" /\ image' = Shows(r.n) /\ composed' = r.n
          /\ UNCHANGED <<scheduled, preview, ancestor>>
      BY <2>2 DEF ResolvedWhole
    <3> QED BY <1>6, <1>8, <2>2, <3>1
  <2>3. CASE r.for = "first" /\ ~aborted
    <3>1. /\ pc' = "resolved" /\ image' = Shows(r.n) /\ composed' = r.n
          /\ scheduled' \in BOOLEAN /\ UNCHANGED <<preview, ancestor>>
      BY <2>3 DEF ResolvedEarly
    <3> QED BY <1>8, <2>3, <3>1
  <2>4. CASE r.for \in {"full", "first"} /\ aborted
    <3>1. pc' = "thrown" /\ UNCHANGED <<image, composed, scheduled, preview, ancestor>>
      BY <2>4
    <3> QED BY <1>8, <2>4, <3>1
  <2>5. CASE r.for = "tail" /\ aborted
    <3>1. UNCHANGED <<pc, image, composed, scheduled, preview, ancestor>>
      BY <2>5
    <3> QED BY <1>9, <2>5, <3>1
  <2>6. CASE r.for = "tail" /\ ~aborted
    <3>1. /\ composed' = r.n /\ image' = Shows(r.n)
          /\ UNCHANGED <<pc, scheduled, preview, ancestor>>
      BY <2>6
    <3> QED BY <1>9, <2>6, <3>1
  <2> QED BY <1>2, <2>1, <2>2, <2>3, <2>4, <2>5, <2>6 DEF AnyRequest
<1>11. ASSUME Rejected(r) PROVE Done
  <2>1. /\ pc' = IF r.for \in {"full", "first"} THEN "error" ELSE pc
        /\ ancestor' = IF r.for = "preview" THEN "none" ELSE ancestor
        /\ UNCHANGED <<image, composed, scheduled, preview>>
    BY <1>11 DEF Rejected, tail
  <2> QED BY <1>2, <1>6, <1>7, <1>8, <1>9, <2>1 DEF AnyRequest
<1> QED
  BY <1>10, <1>11 DEF WorkerReplies, Drain, SyncCompose, r

LEMMA LoaderSteps ==
  ASSUME LoaderInv, [LoadNext]_loadVars
  PROVE  LoaderInv'
<1>1. CASE UNCHANGED loadVars
  BY <1>1 DEF LoaderInv, LoaderTyped, HeldBack, ShowsComposed, RequestsInOrder, Awaited,
              loadVars, loads, timers, tail, compose,
              Landed, AllSettled
<1> QED
  BY <1>1, AwaitSteps, EventSteps, LaterRequests, DecideSteps, ReplySteps
  DEF LoadNext, Continue

LEMMA LoaderAlways == LoadSpec => []LoaderInv
<1>1. LoaderInv /\ [LoadNext]_loadVars => LoaderInv'
  BY LoaderSteps
<1> QED BY <1>1, LoaderInit, PTL DEF LoadSpec

\* What a frame, a decision or an answer may do to the picture; nothing else touches it.
LEMMA PictureSteps ==
  ASSUME LoaderInv, [LoadNext]_loadVars
  PROVE  \/ image' = image
         \/ pc = "decide" /\ (image'.kind = "preview" => ~fallback /\ grace /\ Landed = 0)
         \/ image'.kind = "layers" /\ ~aborted /\ image'.n >= image.n
         \/ image' = Clear /\ ~aborted /\ composed = 0
<1>1. Landed \in Nat /\ composed \in 0..Landed /\ image.n = composed
  BY DEF LoaderInv, LoaderTyped, ShowsComposed, Landed
<1>2. CASE DecideWhole \/ DecideEarly
  <2>1. pc = "decide"
    BY <1>2 DEF DecideWhole, DecideEarly
  <2> QED BY <1>2, <2>1, DecideSteps
<1>3. CASE WorkerReplies \/ Drain
  BY <1>3, ReplySteps
<1>4. CASE Recompose
  <2>1. \/ image' = image
        \/ image' = Clear /\ ~aborted /\ Landed = 0
        \/ image' = Shows(Landed) /\ ~aborted
    BY <1>4 DEF Recompose, SyncCompose
  <2>2. Shows(Landed).kind = "layers" /\ Shows(Landed).n = Landed
    BY DEF Shows
  <2> QED BY <1>1, <2>1, <2>2
<1>5. ASSUME \/ HeadStartOver \/ HeldOut \/ SomethingToShow
             \/ RealDataLanded \/ HeldOutAgain \/ Throw
             \/ WorkerDies \/ EarlyFires \/ GraceFires \/ SwapFires
             \/ \E l \in Layer, how \in {"landed", "empty", "failed"} : LayerSettles(l, how)
             \/ \E stopped \in SUBSET Layer : Abort(stopped)
             \/ FallbackChanges \/ AncestorsLand \/ UNCHANGED loadVars
      PROVE  image' = image
  BY <1>5 DEF HeadStartOver, HeldOut, SomethingToShow, RealDataLanded,
              HeldOutAgain, Throw, WorkerDies, EarlyFires,
              GraceFires, SwapFires, LayerSettles, Abort,
              FallbackChanges, AncestorsLand, loadVars, tail
<1> QED BY <1>2, <1>3, <1>4, <1>5 DEF LoadNext, Continue

\* A tile never resolves with the coarse preview while deck paints a sharper ancestor, nor
\* before the grace period, nor over real data, with any number of layers.
THEOREM PreviewHidesNoAncestor == LoadSpec => PreviewHidesNothing
<1>1. LoaderInv /\ [LoadNext]_loadVars =>
        [image'.kind = "preview" /\ image.kind # "preview"
            => ~fallback /\ grace /\ Landed = 0]_loadVars
  <2> SUFFICES ASSUME LoaderInv, [LoadNext]_loadVars,
                      image'.kind = "preview", image.kind # "preview"
               PROVE  ~fallback /\ grace /\ Landed = 0
    OBVIOUS
  <2> QED BY PictureSteps DEF Clear
<1> QED BY <1>1, LoaderAlways, PTL DEF LoadSpec, PreviewHidesNothing

\* Behind a resolved tile the picture only gains layers, in whatever order layers, frames
\* and composes end and whenever the worker dies, and it is left alone once dropped.
THEOREM LateLayersOnlyAdd == LoadSpec => PictureOnlyGains
<1> DEFINE Gains == pc = "resolved" => /\ image'.n >= image.n
                                       /\ image.kind = "layers" => image'.kind = "layers"
                                       /\ aborted => image' = image
<1>1. LoaderInv /\ [LoadNext]_loadVars => Gains
  <2> SUFFICES ASSUME LoaderInv, [LoadNext]_loadVars, pc = "resolved" PROVE Gains
    OBVIOUS
  <2>1. composed \in Nat /\ image.n = composed /\ (image.kind = "layers" => composed > 0)
    BY DEF LoaderInv, LoaderTyped, ShowsComposed, Landed
  <2> QED BY <2>1, PictureSteps DEF Clear
<1> QED BY <1>1, LoaderAlways, PTL DEF LoadSpec, PictureOnlyGains
=============================================================================
