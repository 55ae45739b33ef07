---------------------------- MODULE ManifestRoute ----------------------------
(***************************************************************************)
(* GET /api/tiles-manifest (server/src/routes/tiles-manifest.ts over       *)
(* readValidatedPmtilesManifest of runtime-readiness.ts): the generation   *)
(* this environment serves, read from a pin file that worldctl replaces.   *)
(* A request stats the pin, and unless the cache holds a validation of     *)
(* that very file it reads and validates, which takes many file operations *)
(* during which the pin may be replaced and other requests answered.       *)
(*                                                                         *)
(* A pin is its generation: a promotion makes a new inode with a new       *)
(* mtime, hence never an identity seen before.                             *)
(***************************************************************************)
EXTENDS Naturals

CONSTANTS
  Poll,          \* manifest requests of the session in flight
  MaxBuild,      \* bound: promoted generations
  None

RouteAssumption == MaxBuild \in Nat /\ None \notin 0..MaxBuild
ASSUME RouteAssumption

VARIABLES
  published,     \* the generation of the pin; 0 while there is no pin
  cached,        \* the route's cache: identity and manifest, or None
  poll           \* per request: idle, reading, validating, answered

route == <<published, cached, poll>>

Idle == [at |-> "idle"]
Reading(id) == [at |-> "reading", id |-> id]
Validating(id, manifest) == [at |-> "validating", id |-> id, manifest |-> manifest]
\* `since`, a history value, is the pin when the request came.
Answered(manifest, since) == [at |-> "answered", manifest |-> manifest, since |-> since]

RouteInit ==
  /\ published = 0 /\ cached = None
  /\ poll = [p \in Poll |-> Idle]

\* worldctl promote.
Promote ==
  /\ published < MaxBuild /\ published' = published + 1
  /\ UNCHANGED <<cached, poll>>

\* Mutant: the identity is taken when the pin has been validated.
ValidatesLateStat(p) ==
  /\ poll[p].at = "validating"
  /\ cached' = [id |-> published, manifest |-> poll[p].manifest]
  /\ poll' = [poll EXCEPT ![p] = Answered(poll[p].manifest, poll[p].id)]
  /\ UNCHANGED published

\* The pin is missing (404), or its validation is at hand, or it is to be read.
Asks(p) ==
  /\ poll[p] = Idle
  /\ poll' = [poll EXCEPT ![p] =
       IF published = 0 THEN Answered(0, published)
       ELSE IF cached # None /\ cached.id = published THEN Answered(cached.manifest, published)
       ELSE Reading(published)]
  /\ UNCHANGED <<published, cached>>

\* The pin is read by its path: it may be a later one than that of the stat.
Reads(p) ==
  /\ poll[p].at = "reading"
  /\ poll' = [poll EXCEPT ![p] = Validating(poll[p].id, published)]
  /\ UNCHANGED <<published, cached>>

\* Every archive named has its size; the cache takes this result, though another request
\* may have stored that of a later pin.
Validates(p) ==
  /\ poll[p].at = "validating"
  /\ cached' = [id |-> poll[p].id, manifest |-> poll[p].manifest]
  /\ poll' = [poll EXCEPT ![p] = Answered(poll[p].manifest, poll[p].id)]
  /\ UNCHANGED published

\* Ten seconds after a validation it is not used any more.
Expires ==
  /\ cached # None /\ cached' = None
  /\ UNCHANGED <<published, poll>>

\* An answer is at least as new as the pin was when its request came.
AnswerNotStale ==
  \A p \in Poll : poll[p].at = "answered" => poll[p].manifest >= poll[p].since
==============================================================================
