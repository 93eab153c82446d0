----------------------------- MODULE EntityWalk -----------------------------
(***************************************************************************)
(* csqc::add_entities (csqc.rs): FTE's walk over the entities to draw,     *)
(* which calls each entity's predraw function.  That function, and the     *)
(* host's `add`, may spawn, free and claim entities and change their       *)
(* fields while the walk is under way.                                     *)
(*                                                                         *)
(* An entity is visible when its drawmask shares a bit with the mask, and  *)
(* hooked when it has a predraw function.  Walks are not nested.           *)
(***************************************************************************)
EXTENDS Edicts, Functions, Sequences

VARIABLES
  visible, \* field drawmask
  hooked,  \* field predraw
  selfGlobal, \* the `self` global
  walk,    \* the walk: its phase, index and limit, and the saved `self`
  added,   \* history: the entities handed to `add`, each with its life
  steady,  \* history: entities visible, and not hidden by predraw, since the walk began
  initial  \* history: the lives of the slots when the walk began

walkVars == <<edicts, visible, hooked, selfGlobal, walk, added, steady, initial>>

NoWalk == [phase |-> "off", index |-> 0, limit |-> 0, saved |-> World]

WalkInit ==
  /\ EdictsInit
  /\ visible = [e \in Ents |-> FALSE] /\ hooked = [e \in Ents |-> FALSE]
  /\ selfGlobal = World /\ walk = NoWalk
  /\ added = <<>> /\ steady = {} /\ initial = lives

-----------------------------------------------------------------------------
(* Code that runs between two steps of the walk, and when there is none.   *)

OutsideWalk == walk.phase \in {"off", "predraw", "add"}

\* What stays visible and in the same life.
KeepSteady ==
  steady' = {e \in steady : InUse(e)' /\ lives'[e] = lives[e] /\ visible'[e]}

\* Taking and freeing a slot zeroes both fields (remove_clears has them).
Zeroed(e) ==
  /\ visible' = [visible EXCEPT ![e] = FALSE]
  /\ hooked' = [hooked EXCEPT ![e] = FALSE]

SpawnEntity == Spawn /\ Zeroed(Pick)
ClaimEntity(e) == Claim(e) /\ Zeroed(e)
RemoveEntity(e, instant) == RemoveEdict(e, instant) /\ Zeroed(e)

ChangeEntities ==
  /\ OutsideWalk
  /\ \/ SpawnEntity
     \/ SpawnFails /\ UNCHANGED <<visible, hooked>>
     \/ \E e \in Ents, b \in BOOLEAN : Protect(e, b) /\ UNCHANGED <<visible, hooked>>
     \/ \E e \in Ents : ClaimEntity(e) \/ \E b \in BOOLEAN : RemoveEntity(e, b)
  /\ KeepSteady
  /\ UNCHANGED <<selfGlobal, walk, added, initial>>

PassTime ==
  /\ OutsideWalk /\ Tick
  /\ UNCHANGED <<visible, hooked, selfGlobal, walk, added, steady, initial>>

\* QuakeC or the host writes the fields of an entity.
SetFields(e, shown, hook) ==
  /\ OutsideWalk /\ InUse(e) /\ e # World
  /\ visible' = [visible EXCEPT ![e] = shown] /\ hooked' = [hooked EXCEPT ![e] = hook]
  /\ UNCHANGED <<edicts, selfGlobal, walk, added, initial>>
  /\ KeepSteady

-----------------------------------------------------------------------------
(* The walk.                                                               *)

NextIndex == [walk EXCEPT !.phase = "step", !.index = @ + 1]
AtIndex == walk.phase = "step" /\ walk.index < walk.limit
Shown == InUse(walk.index) /\ visible[walk.index]

LimitShort == NumEdicts - 1
Limit == NumEdicts

StartWalk ==
  /\ walk.phase = "off"
  /\ walk' = [phase |-> "step", index |-> 1, limit |-> Limit, saved |-> World]
  /\ added' = <<>> /\ initial' = lives
  /\ steady' = {e \in Ents \ {World} : InUse(e) /\ visible[e]}
  /\ UNCHANGED <<edicts, visible, hooked, selfGlobal>>

Skip ==
  /\ AtIndex /\ ~Shown
  /\ walk' = NextIndex
  /\ UNCHANGED <<edicts, visible, hooked, selfGlobal, added, steady, initial>>

\* The entity is handed to `add`.
Add ==
  /\ walk' = [walk EXCEPT !.phase = "add"]
  /\ added' = Append(added, <<walk.index, lives[walk.index]>>)

AddDirectly ==
  /\ AtIndex /\ Shown /\ ~hooked[walk.index]
  /\ Add
  /\ UNCHANGED <<edicts, visible, hooked, selfGlobal, steady, initial>>

CallPredraw ==
  /\ AtIndex /\ Shown /\ hooked[walk.index]
  /\ walk' = [walk EXCEPT !.phase = "predraw", !.saved = selfGlobal]
  /\ selfGlobal' = walk.index
  /\ UNCHANGED <<edicts, visible, hooked, added, steady, initial>>

\* Entities predraw hides, or that are gone, are skipped.
HiddenIfNonzero(nonzero) == nonzero
Hidden(nonzero) == nonzero \/ ~InUse(walk.index)

PredrawReturns(nonzero) ==
  /\ walk.phase = "predraw"
  /\ selfGlobal' = walk.saved
  /\ steady' = IF nonzero THEN steady \ {walk.index} ELSE steady
  /\ IF Hidden(nonzero) THEN walk' = NextIndex /\ UNCHANGED added ELSE Add
  /\ UNCHANGED <<edicts, visible, hooked, initial>>

PredrawFails ==
  /\ walk.phase = "predraw"
  /\ selfGlobal' = walk.saved /\ walk' = NoWalk /\ added' = <<>> /\ steady' = {}
  /\ UNCHANGED <<edicts, visible, hooked, initial>>

AddReturns ==
  /\ walk.phase = "add"
  /\ walk' = NextIndex
  /\ UNCHANGED <<edicts, visible, hooked, selfGlobal, added, steady, initial>>

WalkEnds ==
  /\ walk.phase = "step" /\ walk.index >= walk.limit
  /\ walk' = NoWalk /\ added' = <<>> /\ steady' = {}
  /\ UNCHANGED <<edicts, visible, hooked, selfGlobal, initial>>

WalkNext ==
  \/ ChangeEntities \/ PassTime
  \/ \E e \in Ents, s, h \in BOOLEAN : SetFields(e, s, h)
  \/ StartWalk \/ Skip \/ AddDirectly \/ CallPredraw
  \/ \E r \in BOOLEAN : PredrawReturns(r)
  \/ PredrawFails \/ AddReturns \/ WalkEnds

WalkSpec == WalkInit /\ [][WalkNext]_walkVars

-----------------------------------------------------------------------------
(* Properties.                                                             *)

\* The types of the table, the fields and the walk.
WalkTypeOK ==
  /\ EdictsTypeOK
  /\ visible \in [Ents -> BOOLEAN] /\ hooked \in [Ents -> BOOLEAN] /\ selfGlobal \in Ents
  /\ walk \in [phase : {"off", "step", "predraw", "add"}, index : 0 .. MaxEdicts,
               limit : 0 .. MaxEdicts, saved : Ents]
  /\ added \in Seq(Ents \X (0 .. MaxTakes)) /\ steady \subseteq Ents

\* A walk that ends has handed on every entity that was visible throughout and that its
\* predraw did not hide, whatever was spawned, freed or claimed meanwhile.
WalkMissesNone ==
  [][WalkEnds => \A e \in steady : <<e, lives[e]>> \in Range(added)]_walkVars

\* Entities are handed on in slot order, none twice, and none that is free at that moment.
WalkAddsLiveInOrder ==
  [][added' # added /\ added' # <<>> =>
       LET e == added'[Len(added')][1]
       IN InUse(e) /\ \A i \in 1 .. Len(added) : added[i][1] < e]_walkVars

\* "Entities spawned during the walk are not visited" (add_entities).
WalkVisitsNoNewEntity ==
  \A i \in DOMAIN added : added[i][2] = initial[added[i][1]]
=============================================================================
