------------------------------- MODULE Edicts -------------------------------
(***************************************************************************)
(* The entity table (vm/memory.rs, vm/mod.rs): slots that are taken into   *)
(* use, freed and reused, and the serial that tells the occupants of a     *)
(* slot apart.                                                             *)
(*                                                                         *)
(* Time is the host clock in ticks; Early and Quiet are FTE's two seconds  *)
(* and half a second in those ticks.  Fields are left out; the fields the  *)
(* drawing walk reads are in module EntityWalk.  Growing the table never   *)
(* runs out of memory.                                                     *)
(***************************************************************************)
EXTENDS Integers, FiniteSets, FiniteSetsExt

CONSTANTS
  MaxEdicts,       \* limits.max_edicts
  FirstSpawnable,  \* config.first_spawnable
  Early,           \* until then a freed slot is reusable at once (2.0 seconds)
  Quiet,           \* how long a freed slot rests after that (0.5 seconds)
  SerialMod,       \* serials wrap (2^32)
  MaxClock,        \* bound: the clock
  MaxTakes         \* bound: how often slots are taken into use, counting the world

ASSUME EdictsAssumption ==
  /\ MaxEdicts \in Nat \ {0} /\ FirstSpawnable \in Nat /\ Early \in Nat /\ Quiet \in Nat
  /\ MaxClock \in Nat /\ MaxTakes \in Nat \ {0} /\ SerialMod \in Nat /\ SerialMod > MaxTakes

VARIABLES
  slots,  \* Memory::slots
  clock,  \* Vm::realtime
  lives,  \* history: how often each slot has been taken into use
  takes   \* history: how often any slot has

edicts == <<slots, clock, lives, takes>>

Ents == 0 .. MaxEdicts - 1
World == 0
EntSlot == [in_use : BOOLEAN, protected : BOOLEAN, freetime : 0 .. MaxClock,
            serial : 0 .. SerialMod - 1]
NewSlot == [in_use |-> FALSE, protected |-> FALSE, freetime |-> 0, serial |-> 0]

NumEdicts == Cardinality(DOMAIN slots)
InUse(e) == e \in DOMAIN slots /\ slots[e].in_use
Protected(e) == e \in DOMAIN slots /\ slots[e].protected
SerialOf(e) == IF e \in DOMAIN slots THEN slots[e].serial ELSE 0

EdictsInit ==
  /\ slots = [e \in {World} |-> [NewSlot EXCEPT !.in_use = TRUE, !.serial = 1]]
  /\ clock = 0
  /\ lives = [e \in Ents |-> IF e = World THEN 1 ELSE 0] /\ takes = 1

\* The table with slots up to and including e.
GrownTo(e) == [i \in 0 .. Max({e, NumEdicts - 1}) |-> IF i \in DOMAIN slots THEN slots[i] ELSE NewSlot]

-----------------------------------------------------------------------------
(* Spawning.                                                               *)

Spawnable == {e \in DOMAIN slots : e >= FirstSpawnable /\ ~slots[e].in_use}
ReusableAtQuiet(s) == ~s.in_use /\ (s.freetime < Early \/ clock - s.freetime >= Quiet)
Reusable(s) == ~s.in_use /\ (s.freetime < Early \/ clock - s.freetime > Quiet)

Ready == {e \in Spawnable : Reusable(slots[e])}
NextSlot == Max({NumEdicts, FirstSpawnable})

\* The slot a spawn takes: one freed long enough ago, else a new one, else any free one;
\* MaxEdicts if there is none.
Pick ==
  IF Ready # {} THEN Min(Ready)
  ELSE IF NextSlot < MaxEdicts THEN NextSlot
  ELSE IF Spawnable # {} THEN Min(Spawnable)
  ELSE MaxEdicts

Taken(s) == [s EXCEPT !.in_use = TRUE, !.protected = FALSE, !.serial = (@ + 1) % SerialMod]

\* Slot e comes into use.
Take(e, slot) ==
  /\ slots' = [GrownTo(e) EXCEPT ![e] = slot]
  /\ takes < MaxTakes /\ takes' = takes + 1
  /\ lives' = [lives EXCEPT ![e] = @ + 1]
  /\ UNCHANGED clock

\* Vm::spawn.
Spawn ==
  /\ Pick < MaxEdicts
  /\ Take(Pick, Taken(GrownTo(Pick)[Pick]))

SpawnFails == Pick = MaxEdicts /\ UNCHANGED edicts

\* Vm::claim: a particular slot, whatever it holds.
Claim(e) ==
  /\ e # World
  /\ Take(e, [Taken(GrownTo(e)[e]) EXCEPT !.freetime = 0])

-----------------------------------------------------------------------------
(* Freeing.                                                                *)

MayRemove(e) == e # World /\ InUse(e) /\ ~Protected(e)

FreeTime(instant) == IF instant THEN 0 ELSE clock

\* Vm::remove; refused removals change nothing (and warn).
RemoveEdict(e, instant) ==
  /\ MayRemove(e)
  /\ slots' = [slots EXCEPT ![e].in_use = FALSE, ![e].freetime = FreeTime(instant)]
  /\ UNCHANGED <<clock, lives, takes>>

\* Vm::set_protected.
Protect(e, on) ==
  /\ e \in DOMAIN slots
  /\ slots' = [slots EXCEPT ![e].protected = on]
  /\ UNCHANGED <<clock, lives, takes>>

Tick ==
  /\ clock < MaxClock /\ clock' = clock + 1
  /\ UNCHANGED <<slots, lives, takes>>

-----------------------------------------------------------------------------
(* Properties.                                                             *)

EdictsTypeOK ==
  /\ \E n \in 1 .. MaxEdicts : slots \in [0 .. n - 1 -> EntSlot]
  /\ clock \in 0 .. MaxClock
  /\ lives \in [Ents -> 0 .. MaxTakes] /\ takes \in 1 .. MaxTakes

\* "A reserved slot is never handed out by Vm::spawn, so it exists only once claimed."
ReservedOnlyClaimed ==
  [][Spawn => \A e \in 1 .. FirstSpawnable - 1 : InUse(e)' => InUse(e)]_edicts

\* A QuakeC reference to a removed entity reads a free slot for half a second: after the
\* first two seconds a spawn reuses the slot earlier only when the table is full and
\* has no slot that has rested.
Resting(e) == slots[e].freetime >= Early /\ clock - slots[e].freetime <= Quiet
RemovedSlotRests ==
  [][\A e \in DOMAIN slots :
       Spawn /\ InUse(e)' /\ ~InUse(e) /\ Resting(e) =>
         /\ Cardinality(DOMAIN slots) >= MaxEdicts
         /\ \A o \in DOMAIN slots : o >= FirstSpawnable /\ ~InUse(o) => Resting(o)]_edicts

\* What Vm::spawn promises of the slot it takes: no reserved slot, and none that QuakeC
\* may still refer to while a better one is there.
SlotsRespected == ReservedOnlyClaimed /\ RemovedSlotRests
=============================================================================
