-------------------------- MODULE Creatures_proofs --------------------------
(****************************************************************************)
(* What holds of creatures, bodies and their rows for any map, any number   *)
(* of players and any sequence of hits, deaths, restarts and late saves:    *)
(* the occupied tiles are what the creatures say, nobody stands on anybody, *)
(* no reference dangles, what is stored can be restored, and the steps of   *)
(* the heartbeat and of the sessions are steps of the abstract ground.      *)
(****************************************************************************)
EXTENDS Creatures, WellFoundedInduction, TLAPS

----------------------------------------------------------------------------
(* The inductive invariant *)

WorldType ==
  /\ Partial(creatures, Monsters, Creature)
  /\ occupied \subseteq Ground
  /\ Partial(players, Players, Ground)
  /\ hunts \in [DOMAIN players -> Monsters \cup {Nobody}]
  /\ follows \in [DOMAIN players -> Players \cup {Nobody}]
  /\ dead \subseteq DOMAIN players
  /\ struck \subseteq DOMAIN players

(* Nobody stands on anybody: what Free, and the check of a return, are for. *)
BodiesApart ==
  /\ \A p, q \in Online : players[p] = players[q] => p = q
  /\ \A p \in Online : players[p] \notin occupied
  /\ \A c, d \in Active(creatures) : creatures[c].tile = creatures[d].tile => c = d

(* Only the defeated are due, within their interval, and all of them are    *)
(* that have one.                                                           *)
DelaysFit(c, r) ==
  /\ r.active => r.due = Never
  /\ r.due # Never => c \in Imported /\ 0 < Interval[c] /\ r.due <= Interval[c]
  /\ ~r.active /\ c \in Imported /\ Interval[c] > 0 => r.due # Never

CreaturesFit ==
  \A c \in DOMAIN creatures :
    DelaysFit(c, creatures[c]) /\ creatures[c].wait <= Cooldown[KindOf(c)]

WorldSound == /\ WorldType /\ OccupancyIsExact /\ ReferencesAreLive
              /\ BodiesApart /\ CreaturesFit

(* While a pass holds the world, whoever is left to handle is still there. *)
BeatSound ==
  /\ beat \in [at : Stages, held : BOOLEAN, todo : SUBSET (Players \cup Monsters)]
  /\ beat.held => /\ server = "up" /\ beat.at \in Passes
                  /\ beat.todo \subseteq Listed(beat.at)

(* What is stored, or about to be, can be restored. *)
StoredFits(stored) ==
  Fits(stored) /\ \A c \in Known(stored) : DelaysFit(c, stored[c])

StoresSound ==
  /\ SavesOK /\ Partial(rows, Monsters, Row)
  /\ StoredFits(rows)
  /\ \A s \in DOMAIN saves : saves[s].at = "write" => StoredFits(saves[s].copy)

(* The imported creatures are there while the server is up, and nothing is *)
(* while it is not.                                                        *)
Installation ==
  IF server = "up" THEN Imported \subseteq DOMAIN creatures
  ELSE /\ DOMAIN creatures = {} /\ DOMAIN players = {} /\ ~beat.held /\ occupied = {}
       /\ saves = [s \in Players \cup {Heartbeat} |-> Idle]

CountersType == server \in {"up", "down", "refused"} /\ spent \in [Bounded -> Nat]

Sound == WorldSound /\ BeatSound /\ StoresSound /\ Installation /\ CountersType

LEMMA SoundTypes == Sound => TypeOK
BY DEF Sound, WorldSound, WorldType, BeatSound, StoresSound, CountersType, TypeOK

----------------------------------------------------------------------------
(* The operators of the model *)

LEMMA LeastMember ==
  ASSUME NEW S \in SUBSET Nat, S # {}
  PROVE  Least(S) \in S /\ \A m \in S : Least(S) <= m
<1> DEFINE R == OpToRel(<, Nat)
<1>1. IsWellFoundedOn(R, Nat)
  BY NatLessThanWellFounded
<1>2. \A x, y \in Nat : <<x, y>> \in R <=> x < y
  BY DEF OpToRel
<1> HIDE DEF R
<1>3. PICK least \in S : \A p \in S : <<p, least>> \notin R
  BY <1>1, WFMin
<1>4. ASSUME NEW p \in S
      PROVE  least <= p
  <2>1. p \in Nat /\ least \in Nat
    OBVIOUS
  <2>2. ~ (p < least)
    BY <1>2, <1>3, <2>1
  <2> QED
    BY <2>1, <2>2
<1> QED
  BY <1>4 DEF Least

LEMMA DistanceType ==
  ASSUME NEW s \in Int \X Int, NEW t \in Int \X Int
  PROVE  Distance(s, t) \in Nat
<1> DEFINE x == s[1] - t[1]
           y == s[2] - t[2]
<1>1. x \in Int /\ y \in Int
  OBVIOUS
<1>2. Abs(x) \in Nat /\ Abs(y) \in Nat
  BY <1>1 DEF Abs
<1> QED
  BY <1>2 DEF Distance

LEMMA KindType ==
  ASSUME NEW c \in Monsters
  PROVE  KindOf(c) \in Imported /\ (c \in Imported => c \notin Summons /\ KindOf(c) = c)
<1>1. c \in Imported => c \notin Summons
  BY CreaturesAssumption
<1> QED
  BY <1>1, CreaturesAssumption DEF KindOf, Monsters

LEMMA ConstantTypes ==
  ASSUME NEW c \in Imported
  PROVE  /\ SpawnTile[c] \in Ground /\ SpawnArea[c] \subseteq Ground
         /\ Interval[c] \in Nat /\ Cooldown[c] \in Nat /\ FullHealth[c] \in Nat
BY CreaturesAssumption

LEMMA CreatureFields ==
  ASSUME WorldType, NEW c \in DOMAIN creatures
  PROVE  /\ c \in Monsters /\ creatures[c] \in Creature
         /\ creatures[c].tile \in Ground /\ creatures[c].active \in BOOLEAN
         /\ creatures[c].health \in Nat /\ creatures[c].due \in Nat \cup {Never}
         /\ creatures[c].wait \in Nat /\ creatures[c].target \in Players \cup {Nobody}
BY DEF WorldType, Partial, Creature

(* A target is a living player. *)
LEMMA SelectedLives ==
  ASSUME WorldType, NEW c \in DOMAIN creatures, Selected(c) # Nobody
  PROVE  Selected(c) \in Living
<1> DEFINE far(p) == Distance(players[p], creatures[c].tile)
           D == {far(p) : p \in InRange(c)}
           Near == {p \in InRange(c) : \A q \in InRange(c) : far(p) <= far(q)}
<1>1. InRange(c) # {} /\ Selected(c) = Least(Near)
  BY DEF Selected
<1>2. InRange(c) \subseteq Living /\ Living \subseteq Online /\ Online \subseteq Nat
  BY CreaturesAssumption DEF InRange, Living, Online, WorldType, Partial
<1>3. ASSUME NEW p \in InRange(c)
      PROVE  far(p) \in Nat
  <2>1. players[p] \in Ground
    BY <1>2 DEF WorldType, Partial, Online
  <2>2. players[p] \in Int \X Int /\ creatures[c].tile \in Int \X Int
    BY <2>1, CreatureFields, CreaturesAssumption
  <2> QED
    BY <2>2, DistanceType
<1>4. D \in SUBSET Nat /\ D # {}
  BY <1>1, <1>3
<1>5. PICK p \in InRange(c) : far(p) = Least(D)
  BY <1>4, LeastMember
<1>6. p \in Near
  BY <1>4, <1>5, LeastMember
<1>7. Near \in SUBSET Nat /\ Near # {}
  BY <1>2, <1>6
<1>8. Least(Near) \in Near
  BY <1>7, LeastMember
<1> QED
  BY <1>1, <1>2, <1>8

LEMMA FreeGround ==
  ASSUME NEW t, Free(t)
  PROVE  /\ t \in Ground /\ t \notin occupied
         /\ \A p \in Online : players[p] # t
BY DEF Free, Ground, HasPlayer

LEMMA DirectFree ==
  ASSUME NEW s, NEW t, NEW u \in DirectSteps(s, t)
  PROVE  Free(u)
BY DEF DirectSteps

LEMMA PursuitFree ==
  ASSUME NEW c, NEW p, NEW t \in PursuitSteps(c, p)
  PROVE  t = creatures[c].tile \/ Free(t)
BY DirectFree DEF PursuitSteps

(* The tiles that are occupied depend on nothing but who is where. *)
LEMMA SameOccupancy ==
  ASSUME NEW cs, NEW ds, DOMAIN cs = DOMAIN ds,
         \A c \in DOMAIN cs : cs[c].active = ds[c].active /\ cs[c].tile = ds[c].tile
  PROVE  Occupancy(cs) = Occupancy(ds) /\ Active(cs) = Active(ds)
<1>1. Active(cs) = Active(ds)
  BY DEF Active
<1>2. \A c \in Active(cs) : cs[c].tile = ds[c].tile
  BY DEF Active
<1> QED
  BY <1>1, <1>2 DEF Occupancy

----------------------------------------------------------------------------
(* What a creature, a player, or all creatures at once do to the world *)

(* An active creature acts: it stays or steps to a free tile, and may choose *)
(* a target or spend its blow.                                               *)
ActsAs(c, r) ==
  /\ c \in Active(creatures)
  /\ r \in Creature /\ r.active /\ r.due = Never /\ r.wait <= Cooldown[KindOf(c)]
  /\ r.target \in Online \cup {Nobody}
  /\ r.tile = creatures[c].tile \/ Free(r.tile)
  /\ creatures' = [creatures EXCEPT ![c] = r]
  /\ occupied' = Occupancy(creatures')

LEMMA CreatureActs ==
  ASSUME WorldSound, NEW c, NEW r, ActsAs(c, r), UNCHANGED players
  PROVE  /\ Partial(creatures, Monsters, Creature)' /\ (occupied \subseteq Ground)'
         /\ OccupancyIsExact' /\ BodiesApart' /\ CreaturesFit'
         /\ DOMAIN creatures' = DOMAIN creatures /\ Active(creatures') = Active(creatures)
         /\ \A d \in DOMAIN creatures' :
              creatures'[d].target # Nobody =>
                creatures'[d].active /\ creatures'[d].target \in Online'
<1> USE DEF WorldSound, ActsAs
<1>1. c \in DOMAIN creatures /\ creatures[c].active
  BY DEF Active
<1>2. /\ DOMAIN creatures' = DOMAIN creatures /\ creatures'[c] = r
      /\ \A d \in DOMAIN creatures : d # c => creatures'[d] = creatures[d]
  BY <1>1
<1>3. Partial(creatures, Monsters, Creature)'
  BY <1>1, <1>2 DEF WorldType, Partial
<1>4. Active(creatures') = Active(creatures)
  BY <1>1, <1>2 DEF Active
<1>5. \A d \in Active(creatures) : d # c => creatures'[d].tile = creatures[d].tile
  BY <1>2 DEF Active
<1>6. \A d \in Active(creatures) : creatures[d].tile \in occupied
  BY DEF OccupancyIsExact, Occupancy
<1>7. r.tile \in Ground
  BY <1>1, CreatureFields, FreeGround
<1>8. occupied' \subseteq occupied \cup {r.tile}
  BY <1>2, <1>4, <1>5, <1>6 DEF Occupancy
<1>9. (occupied \subseteq Ground)'
  BY <1>7, <1>8 DEF WorldType
<1>10. \A p \in Online : players[p] # r.tile
  BY <1>6, FreeGround DEF BodiesApart
<1>11. BodiesApart'
  <2>1. \A p \in Online' : players'[p] \notin occupied'
    BY <1>8, <1>10 DEF BodiesApart, Online
  <2>2. \A d \in Active(creatures) : d # c => creatures[d].tile # r.tile
    BY <1>6, FreeGround DEF BodiesApart
  <2>3. \A d, e \in Active(creatures)' : creatures'[d].tile = creatures'[e].tile => d = e
    BY <1>2, <1>4, <1>5, <2>2 DEF BodiesApart
  <2> QED
    BY <2>1, <2>3 DEF BodiesApart, Online
<1>12. DelaysFit(c, r)
  BY DEF DelaysFit
<1>13. CreaturesFit'
  BY <1>2, <1>12 DEF CreaturesFit, DelaysFit
<1>14. \A d \in DOMAIN creatures' :
         creatures'[d].target # Nobody =>
           creatures'[d].active /\ creatures'[d].target \in Online'
  BY <1>2 DEF ReferencesAreLive, Online
<1> QED
  BY <1>2, <1>3, <1>4, <1>9, <1>11, <1>13, <1>14 DEF OccupancyIsExact

(* Nothing else has changed in most of these steps. *)
LEMMA CreatureActsAlone ==
  ASSUME WorldSound, NEW c, NEW r, ActsAs(c, r),
         UNCHANGED <<players, dead, hunts, follows, struck>>
  PROVE  WorldSound'
<1>1. /\ Partial(creatures, Monsters, Creature)' /\ (occupied \subseteq Ground)'
      /\ OccupancyIsExact' /\ BodiesApart' /\ CreaturesFit'
      /\ Active(creatures') = Active(creatures)
      /\ \A d \in DOMAIN creatures' :
           creatures'[d].target # Nobody =>
             creatures'[d].active /\ creatures'[d].target \in Online'
  BY CreatureActs
<1>2. WorldType'
  BY <1>1 DEF WorldSound, WorldType
<1>3. ReferencesAreLive'
  BY <1>1 DEF WorldSound, ReferencesAreLive, Online, Living
<1> QED
  BY <1>1, <1>2, <1>3 DEF WorldSound

LEMMA QuietWorld ==
  ASSUME WorldSound, UNCHANGED world
  PROVE  WorldSound'
<1>1. UNCHANGED <<creatures, occupied, players, dead, hunts, follows, struck>>
  BY DEF world
<1>2. WorldType' /\ OccupancyIsExact' /\ BodiesApart' /\ CreaturesFit'
  BY <1>1 DEF WorldSound, WorldType, OccupancyIsExact, BodiesApart, CreaturesFit, Online
<1>3. ReferencesAreLive'
  BY <1>1 DEF WorldSound, ReferencesAreLive, Online, Living
<1> QED
  BY <1>2, <1>3 DEF WorldSound

(* A player stays or steps to a free tile. *)
LEMMA PlayerMoves ==
  ASSUME WorldSound, NEW p \in Online, NEW t, t = players[p] \/ Free(t),
         players' = [players EXCEPT ![p] = t],
         UNCHANGED <<creatures, occupied, dead, hunts, follows, struck>>
  PROVE  WorldSound' /\ Online' = Online
<1> USE DEF WorldSound
<1>1. DOMAIN players' = DOMAIN players /\ players'[p] = t
  BY DEF Online
<1>2. \A q \in Online : q # p => players'[q] = players[q]
  BY DEF Online
<1>3. t \in Ground
  BY FreeGround DEF WorldType, Partial, Online
<1>4. WorldType'
  BY <1>1, <1>3 DEF WorldType, Partial
<1>5. OccupancyIsExact' /\ CreaturesFit'
  BY DEF OccupancyIsExact, CreaturesFit
<1>6. ReferencesAreLive'
  BY <1>1 DEF ReferencesAreLive, Online, Living
<1>7. t \notin occupied /\ \A q \in Online : q # p => players[q] # t
  BY FreeGround DEF BodiesApart
<1>8. BodiesApart'
  BY <1>1, <1>2, <1>7 DEF BodiesApart, Online
<1> QED
  BY <1>1, <1>4, <1>5, <1>6, <1>8 DEF Online

(* The creatures change where they stand: time passes, targets are chosen, *)
(* a hit is survived.                                                      *)
LEMMA CreaturesStay ==
  ASSUME WorldSound, Partial(creatures, Monsters, Creature)',
         DOMAIN creatures' = DOMAIN creatures,
         \A c \in DOMAIN creatures :
           /\ creatures'[c].tile = creatures[c].tile
           /\ creatures'[c].active = creatures[c].active
           /\ DelaysFit(c, creatures'[c])
           /\ creatures'[c].wait <= Cooldown[KindOf(c)]
           /\ creatures'[c].target # Nobody =>
                creatures[c].active /\ creatures'[c].target \in Online,
         UNCHANGED <<occupied, players, dead, hunts, follows>>,
         struck' \subseteq Online
  PROVE  WorldSound'
<1> USE DEF WorldSound
<1>1. Active(creatures') = Active(creatures) /\ Occupancy(creatures') = Occupancy(creatures)
  BY SameOccupancy
<1>2. OccupancyIsExact'
  BY <1>1 DEF OccupancyIsExact
<1>3. WorldType'
  BY DEF WorldType, Online
<1>4. ReferencesAreLive'
  BY <1>1 DEF ReferencesAreLive, Online, Living
<1>5. \A c \in Active(creatures) : creatures'[c].tile = creatures[c].tile
  BY DEF Active
<1>6. BodiesApart'
  BY <1>1, <1>5 DEF BodiesApart, Online
<1>7. CreaturesFit'
  BY DEF CreaturesFit
<1> QED
  BY <1>2, <1>3, <1>4, <1>6, <1>7

----------------------------------------------------------------------------
(* The passes of the heartbeat *)

LEMMA HandlingListed ==
  ASSUME BeatSound, NEW pass \in Passes, NEW i, Handling(pass, i)
  PROVE  i \in Listed(pass) /\ ToHandle \subseteq Listed(pass)
BY DEF BeatSound, Handling, ToHandle

LEMMA HandlesActive ==
  ASSUME Sound, NEW c,
         Handling("pursue", c) \/ Handling("attack", c) \/ Handling("wander", c)
  PROVE  /\ c \in Active(creatures) /\ c \in DOMAIN creatures /\ creatures[c] \in Creature
         /\ creatures[c].active /\ creatures[c].due = Never
         /\ creatures[c].wait \in Nat /\ creatures[c].wait <= Cooldown[KindOf(c)]
         /\ creatures[c].target \in Online \cup {Nobody}
<1>1. c \in Active(creatures)
  BY HandlingListed DEF Sound, Passes, Listed
<1>2. c \in DOMAIN creatures /\ creatures[c].active
  BY <1>1 DEF Active
<1> QED
  BY <1>1, <1>2, CreatureFields
     DEF Sound, WorldSound, CreaturesFit, DelaysFit, ReferencesAreLive

LEMMA PursueKeeps ==
  ASSUME Sound, NEW c, Pursue(c)
  PROVE  WorldSound'
<1> DEFINE p == Selected(c)
<1>1. /\ c \in Active(creatures) /\ c \in DOMAIN creatures /\ creatures[c] \in Creature
      /\ creatures[c].active /\ creatures[c].due = Never
      /\ creatures[c].wait \in Nat /\ creatures[c].wait <= Cooldown[KindOf(c)]
  BY HandlesActive DEF Pursue
<1>2. UNCHANGED <<players, dead, hunts, follows, struck>>
  BY DEF Pursue
<1>3. WorldSound /\ WorldType
  BY DEF Sound, WorldSound
<1>4. CASE p = Nobody
  <2> DEFINE r == [creatures[c] EXCEPT !.target = Nobody]
  <2>1. creatures' = [creatures EXCEPT ![c].target = Nobody] /\ UNCHANGED occupied
    BY <1>4 DEF Pursue
  <2>2. creatures' = [creatures EXCEPT ![c] = r]
    BY <2>1
  <2>3. /\ r \in Creature /\ r.active /\ r.due = Never /\ r.wait <= Cooldown[KindOf(c)]
        /\ r.target = Nobody /\ r.tile = creatures[c].tile
    BY <1>1 DEF Creature
  <2>4. DOMAIN creatures' = DOMAIN creatures
        /\ \A d \in DOMAIN creatures : /\ creatures'[d].active = creatures[d].active
                                       /\ creatures'[d].tile = creatures[d].tile
    BY <1>1, <2>1
  <2>5. occupied' = Occupancy(creatures')
    BY <1>3, <2>1, <2>4, SameOccupancy DEF WorldSound, OccupancyIsExact
  <2>6. ActsAs(c, r)
    BY <1>1, <2>2, <2>3, <2>5 DEF ActsAs
  <2> QED
    BY <1>2, <1>3, <2>6, CreatureActsAlone
<1>5. CASE p # Nobody
  <2>1. PICK t \in PursuitSteps(c, p) : CreatureMoves(c, p, t)
    BY <1>5 DEF Pursue
  <2> DEFINE r == [creatures[c] EXCEPT !.tile = t, !.target = p]
  <2>2. t = creatures[c].tile \/ Free(t)
    BY PursuitFree
  <2>3. t \in Ground
    BY <1>1, <1>3, <2>2, FreeGround, CreatureFields
  <2>4. p \in Online /\ p \in Players
    BY <1>1, <1>3, <1>5, SelectedLives DEF Living, WorldType, Partial, Online
  <2>5. /\ r \in Creature /\ r.active /\ r.due = Never /\ r.wait <= Cooldown[KindOf(c)]
        /\ r.target = p /\ r.tile = t
    BY <1>1, <2>3, <2>4 DEF Creature
  <2>6. creatures' = [creatures EXCEPT ![c] = r] /\ occupied' = Occupancy(creatures')
    BY <2>1 DEF CreatureMoves
  <2>7. ActsAs(c, r)
    BY <1>1, <2>2, <2>4, <2>5, <2>6 DEF ActsAs
  <2> QED
    BY <1>2, <1>3, <2>7, CreatureActsAlone
<1> QED
  BY <1>4, <1>5

(* A creature that stays where it is leaves the occupied tiles as they are. *)
LEMMA ActsInPlace ==
  ASSUME Sound, NEW c, Handling("attack", c), NEW wait \in Nat,
         NEW target \in Online \cup {Nobody},
         wait <= Cooldown[KindOf(c)],
         creatures' = [creatures EXCEPT ![c].wait = wait, ![c].target = target],
         UNCHANGED occupied
  PROVE  ActsAs(c, [creatures[c] EXCEPT !.wait = wait, !.target = target])
<1> DEFINE r == [creatures[c] EXCEPT !.wait = wait, !.target = target]
<1>1. /\ c \in Active(creatures) /\ c \in DOMAIN creatures /\ creatures[c] \in Creature
      /\ creatures[c].active /\ creatures[c].due = Never
  BY HandlesActive
<1>2. target \in Players \cup {Nobody}
  BY DEF Sound, WorldSound, WorldType, Partial, Online
<1>3. /\ r \in Creature /\ r.active /\ r.due = Never /\ r.wait <= Cooldown[KindOf(c)]
      /\ r.target = target /\ r.tile = creatures[c].tile
  BY <1>1, <1>2 DEF Creature
<1>4. creatures' = [creatures EXCEPT ![c] = r]
  OBVIOUS
<1>5. DOMAIN creatures' = DOMAIN creatures
      /\ \A d \in DOMAIN creatures : /\ creatures'[d].active = creatures[d].active
                                     /\ creatures'[d].tile = creatures[d].tile
  BY <1>1
<1>6. occupied' = Occupancy(creatures')
  BY <1>5, SameOccupancy DEF Sound, WorldSound, OccupancyIsExact
<1> QED
  BY <1>1, <1>3, <1>4, <1>6 DEF ActsAs

LEMMA SameCreature ==
  ASSUME WorldType, NEW c \in DOMAIN creatures
  PROVE  /\ creatures = [creatures EXCEPT ![c].wait = creatures[c].wait,
                                          ![c].target = creatures[c].target]
         /\ \A n : [creatures EXCEPT ![c].target = n]
                   = [creatures EXCEPT ![c].wait = creatures[c].wait, ![c].target = n]
         /\ \A n : [creatures EXCEPT ![c].wait = n]
                   = [creatures EXCEPT ![c].wait = n, ![c].target = creatures[c].target]
BY CreatureFields DEF WorldType, Partial, Creature

LEMMA NoAttackKeeps ==
  ASSUME Sound, NEW c, NoAttack(c)
  PROVE  WorldSound'
<1>1. Handling("attack", c) /\ UNCHANGED <<occupied, players, dead, hunts, follows, struck>>
  BY DEF NoAttack
<1>2. /\ c \in DOMAIN creatures
      /\ creatures[c].wait \in Nat /\ creatures[c].wait <= Cooldown[KindOf(c)]
      /\ creatures[c].target \in Online \cup {Nobody}
  BY <1>1, HandlesActive
<1>3. WorldSound /\ WorldType
  BY DEF Sound, WorldSound
<1>4. creatures' = creatures \/ creatures' = [creatures EXCEPT ![c].target = Nobody]
  BY DEF NoAttack
<1>5. PICK target \in Online \cup {Nobody} :
        creatures' = [creatures EXCEPT ![c].wait = creatures[c].wait, ![c].target = target]
  BY <1>2, <1>3, <1>4, SameCreature
<1> QED
  BY <1>1, <1>2, <1>3, <1>5, ActsInPlace, CreatureActsAlone

LEMMA CooldownType ==
  ASSUME NEW c \in Monsters
  PROVE  Cooldown[KindOf(c)] \in Nat
BY KindType, ConstantTypes

LEMMA AttackKeeps ==
  ASSUME Sound, NEW c, Attack(c)
  PROVE  WorldSound'
<1>1. /\ Handling("attack", c) /\ UNCHANGED <<occupied, players, dead, hunts, follows, struck>>
      /\ creatures' = [creatures EXCEPT ![c].wait = Cooldown[KindOf(c)]]
  BY DEF Attack, Hits
<1>2. c \in DOMAIN creatures /\ creatures[c].target \in Online \cup {Nobody}
  BY <1>1, HandlesActive
<1>3. WorldSound /\ WorldType
  BY DEF Sound, WorldSound
<1>4. Cooldown[KindOf(c)] \in Nat /\ Cooldown[KindOf(c)] <= Cooldown[KindOf(c)]
  <2>1. Cooldown[KindOf(c)] \in Nat
    BY <1>2, <1>3, CreatureFields, CooldownType
  <2> QED
    BY <2>1
<1>5. creatures' = [creatures EXCEPT ![c].wait = Cooldown[KindOf(c)],
                                     ![c].target = creatures[c].target]
  BY <1>1, <1>2, <1>3, SameCreature
<1>6. ActsAs(c, [creatures[c] EXCEPT !.wait = Cooldown[KindOf(c)],
                                     !.target = creatures[c].target])
  BY <1>1, <1>2, <1>4, <1>5, ActsInPlace
<1> QED
  BY <1>1, <1>3, <1>6, CreatureActsAlone

LEMMA KillKeeps ==
  ASSUME Sound, NEW c, Kill(c)
  PROVE  WorldSound'
<1> DEFINE p == creatures[c].target
           r == [creatures[c] EXCEPT !.wait = Cooldown[KindOf(c)], !.target = Nobody]
<1>1. /\ Handling("attack", c) /\ UNCHANGED <<occupied, players, hunts, struck>>
      /\ creatures' = [creatures EXCEPT ![c].wait = Cooldown[KindOf(c)], ![c].target = Nobody]
      /\ dead' = dead \cup {p}
      /\ follows' = [q \in Online |-> IF follows[q] = p THEN Nobody ELSE follows[q]]
      /\ p \in Living
  BY DEF Kill, Hits
<1>2. c \in DOMAIN creatures
  BY <1>1, HandlesActive
<1>3. WorldSound /\ WorldType
  BY DEF Sound, WorldSound
<1>4. Cooldown[KindOf(c)] \in Nat /\ Cooldown[KindOf(c)] <= Cooldown[KindOf(c)]
  <2>1. Cooldown[KindOf(c)] \in Nat
    BY <1>2, <1>3, CreatureFields, CooldownType
  <2> QED
    BY <2>1
<1>5. ActsAs(c, r)
  BY <1>1, <1>4, ActsInPlace
<1>6. /\ Partial(creatures, Monsters, Creature)' /\ (occupied \subseteq Ground)'
      /\ OccupancyIsExact' /\ BodiesApart' /\ CreaturesFit'
      /\ Active(creatures') = Active(creatures)
      /\ \A d \in DOMAIN creatures' :
           creatures'[d].target # Nobody =>
             creatures'[d].active /\ creatures'[d].target \in Online'
  BY <1>1, <1>3, <1>5, CreatureActs
<1>7. p \in Online
  BY <1>1 DEF Living
<1>8. WorldType'
  BY <1>1, <1>3, <1>6, <1>7 DEF WorldType, Online
<1>9. \A q \in Online' : follows'[q] # Nobody => follows'[q] \in Living' \ {q}
  BY <1>1, <1>3 DEF WorldSound, ReferencesAreLive, Online, Living
<1>10. ReferencesAreLive'
  BY <1>1, <1>3, <1>6, <1>9 DEF WorldSound, ReferencesAreLive, Online
<1> QED
  BY <1>6, <1>8, <1>10 DEF WorldSound

LEMMA WanderKeeps ==
  ASSUME Sound, NEW c, Wander(c)
  PROVE  WorldSound'
<1> DEFINE p == creatures[c].target
<1>1. /\ c \in Active(creatures) /\ c \in DOMAIN creatures /\ creatures[c] \in Creature
      /\ creatures[c].active /\ creatures[c].due = Never
      /\ creatures[c].wait \in Nat /\ creatures[c].wait <= Cooldown[KindOf(c)]
      /\ p \in Online \cup {Nobody}
  BY HandlesActive DEF Wander
<1>2. UNCHANGED <<players, dead, hunts, follows, struck>>
  BY DEF Wander
<1>3. WorldSound /\ WorldType
  BY DEF Sound, WorldSound
<1>4. \E t : /\ t = creatures[c].tile \/ Free(t)
             /\ (CreatureMoves(c, p, t) \/ UNCHANGED <<creatures, occupied>>)
  <2>1. CASE UNCHANGED <<creatures, occupied>>
    BY <2>1
  <2>2. CASE ~UNCHANGED <<creatures, occupied>>
    <3>1. \E t \in {u \in Neighbours(creatures[c].tile) : Free(u)} : CreatureMoves(c, p, t)
      BY <2>2 DEF Wander
    <3> QED
      BY <3>1
  <2> QED
    BY <2>1, <2>2
<1> PICK t : /\ t = creatures[c].tile \/ Free(t)
             /\ CreatureMoves(c, p, t) \/ UNCHANGED <<creatures, occupied>>
  BY <1>4
<1> DEFINE r == [creatures[c] EXCEPT !.tile = t, !.target = p]
<1>5. CASE CreatureMoves(c, p, t)
  <2>1. t \in Ground
    BY <1>1, <1>3, <1>4, FreeGround, CreatureFields
  <2>2. p \in Players \cup {Nobody}
    BY <1>1, <1>3, CreatureFields
  <2>3. /\ r \in Creature /\ r.active /\ r.due = Never /\ r.wait <= Cooldown[KindOf(c)]
        /\ r.target = p /\ r.tile = t
    BY <1>1, <2>1, <2>2 DEF Creature
  <2>4. creatures' = [creatures EXCEPT ![c] = r] /\ occupied' = Occupancy(creatures')
    BY <1>5 DEF CreatureMoves
  <2>5. ActsAs(c, r)
    BY <1>1, <2>3, <2>4 DEF ActsAs
  <2> QED
    BY <1>2, <1>3, <2>5, CreatureActsAlone
<1>6. CASE UNCHANGED <<creatures, occupied>>
  <2>1. UNCHANGED world
    BY <1>2, <1>6 DEF world
  <2> QED
    BY <1>3, <2>1, QuietWorld
<1> QED
  BY <1>5, <1>6

LEMMA AfterType ==
  ASSUME NEW n \in Nat, NEW elapsed \in Nat
  PROVE  After(n, elapsed) \in Nat /\ After(n, elapsed) <= n
BY DEF After

LEMMA AdvanceKeeps ==
  ASSUME Sound, AdvanceTicks
  PROVE  WorldSound'
<1>1. WorldSound /\ WorldType /\ CreaturesFit
  BY DEF Sound, WorldSound
<1>2. PICK elapsed \in 1..MaxElapsed :
        creatures' = [c \in DOMAIN creatures |->
          [creatures[c] EXCEPT !.wait = After(@, elapsed),
                               !.due = IF @ = Never THEN Never ELSE After(@, elapsed)]]
  BY DEF AdvanceTicks
<1>3. UNCHANGED <<occupied, players, dead, hunts, follows>> /\ struck' \subseteq Online
  BY DEF AdvanceTicks
<1>4. elapsed \in Nat
  BY CreaturesAssumption
<1>5. ASSUME NEW c \in DOMAIN creatures
      PROVE  /\ creatures'[c] \in Creature
             /\ creatures'[c].tile = creatures[c].tile
             /\ creatures'[c].active = creatures[c].active
             /\ DelaysFit(c, creatures'[c])
             /\ creatures'[c].wait <= Cooldown[KindOf(c)]
             /\ creatures'[c].target = creatures[c].target
  <2> DEFINE wait == After(creatures[c].wait, elapsed)
             due == IF creatures[c].due = Never THEN Never
                    ELSE After(creatures[c].due, elapsed)
  <2>1. creatures'[c] = [creatures[c] EXCEPT !.wait = wait, !.due = due]
    BY <1>2, <1>1, CreatureFields DEF Creature
  <2>2. wait \in Nat /\ wait <= creatures[c].wait
    BY <1>1, <1>4, CreatureFields, AfterType
  <2>3. /\ due \in Nat \cup {Never}
        /\ due = Never <=> creatures[c].due = Never
        /\ due # Never => due <= creatures[c].due
    <3>1. CASE creatures[c].due = Never
      BY <3>1
    <3>2. CASE creatures[c].due # Never
      <4>1. creatures[c].due \in Nat
        BY <1>1, <3>2, CreatureFields
      <4>2. due \in Nat /\ due <= creatures[c].due
        BY <1>4, <3>2, <4>1, AfterType
      <4> QED
        BY <3>2, <4>2 DEF Never
    <3> QED
      BY <3>1, <3>2
  <2> HIDE DEF wait, due
  <2>4. /\ creatures'[c] \in Creature /\ creatures'[c].tile = creatures[c].tile
        /\ creatures'[c].active = creatures[c].active
        /\ creatures'[c].wait = wait /\ creatures'[c].due = due
        /\ creatures'[c].target = creatures[c].target
    BY <1>1, <2>1, <2>2, <2>3, CreatureFields DEF Creature
  <2>5. /\ DelaysFit(c, creatures[c]) /\ creatures[c].wait <= Cooldown[KindOf(c)]
        /\ c \in Monsters /\ creatures[c].wait \in Nat /\ creatures[c].due \in Nat \cup {Never}
    BY <1>1, CreatureFields DEF CreaturesFit
  <2>6. creatures'[c].wait <= Cooldown[KindOf(c)]
    BY <2>2, <2>4, <2>5, CooldownType
  <2>7. DelaysFit(c, creatures'[c])
    <3>1. c \in Imported => Interval[c] \in Nat
      BY ConstantTypes
    <3>2. due # Never => due \in Nat /\ creatures[c].due \in Nat
      BY <2>3, <2>5
    <3> QED
      BY <2>3, <2>4, <2>5, <3>1, <3>2 DEF DelaysFit
  <2> QED
    BY <2>4, <2>6, <2>7
<1>6. DOMAIN creatures' = DOMAIN creatures /\ Partial(creatures, Monsters, Creature)'
  BY <1>1, <1>2, <1>5 DEF WorldType, Partial
<1>7. \A c \in DOMAIN creatures :
        creatures'[c].target # Nobody => creatures[c].active /\ creatures'[c].target \in Online
  BY <1>1, <1>5 DEF WorldSound, ReferencesAreLive
<1> QED
  BY <1>1, <1>3, <1>5, <1>6, <1>7, CreaturesStay

(* A creature that is due has an interval, and returns only onto a free tile. *)
LEMMA DueIsImported ==
  ASSUME WorldSound, NEW c \in DueNow
  PROVE  /\ c \in DOMAIN creatures /\ c \in Imported /\ ~creatures[c].active
         /\ Interval[c] \in Nat /\ 0 < Interval[c] /\ creatures[c].target = Nobody
<1>1. c \in DOMAIN creatures /\ ~creatures[c].active /\ creatures[c].due = 0
  BY DEF DueNow
<1>2. c \in Imported /\ 0 < Interval[c]
  BY <1>1 DEF WorldSound, CreaturesFit, DelaysFit, Never
<1>3. Interval[c] \in Nat
  BY <1>2, ConstantTypes
<1>4. creatures[c].target = Nobody
  BY <1>1 DEF WorldSound, ReferencesAreLive
<1> QED
  BY <1>1, <1>2, <1>3, <1>4

LEMMA ReturnsOntoFree ==
  ASSUME WorldSound, NEW c, Returns(c)
  PROVE  /\ c \in DueNow /\ SpawnTile[c] \in Ground /\ SpawnTile[c] \notin occupied
         /\ \A p \in Online : players[p] # SpawnTile[c]
BY DueIsImported, ConstantTypes DEF Returns, PlayerBlocks

LEMMA ReactivateKeeps ==
  ASSUME WorldSound, ReactivateDue
  PROVE  WorldSound' /\ Active(creatures) \subseteq Active(creatures')
<1> DEFINE Back == {c \in DueNow : Returns(c)}
<1>1. /\ creatures' = [c \in DOMAIN creatures |->
                         IF c \notin DueNow THEN creatures[c]
                         ELSE IF Returns(c) THEN Reactivated(c) ELSE Rearmed(c)]
      /\ occupied' = Occupancy(creatures')
      /\ UNCHANGED <<players, dead, hunts, follows, struck>>
  BY DEF ReactivateDue
<1>2. ASSUME NEW c \in DOMAIN creatures, c \notin DueNow
      PROVE  creatures'[c] = creatures[c]
  BY <1>1, <1>2
<1>3. ASSUME NEW c \in Back
      PROVE  /\ creatures'[c] \in Creature /\ creatures'[c].active
             /\ creatures'[c].tile = SpawnTile[c] /\ creatures'[c].target = Nobody
             /\ creatures'[c].due = Never /\ creatures'[c].wait = creatures[c].wait
  <2>1. /\ c \in DOMAIN creatures /\ c \in Imported /\ c \in DueNow /\ creatures[c] \in Creature
        /\ creatures[c].target = Nobody
    BY DueIsImported, CreatureFields DEF WorldSound
  <2>2. creatures'[c] = Reactivated(c)
    BY <1>1, <2>1
  <2>3. SpawnTile[c] \in Ground /\ FullHealth[c] \in Nat
    BY <2>1, ConstantTypes
  <2> QED
    BY <2>1, <2>2, <2>3 DEF Reactivated, Creature
<1>4. ASSUME NEW c \in DueNow, ~Returns(c)
      PROVE  /\ creatures'[c] \in Creature /\ ~creatures'[c].active
             /\ creatures'[c].target = Nobody
             /\ creatures'[c].due = Interval[c] /\ creatures'[c].wait = creatures[c].wait
  <2>1. /\ c \in DOMAIN creatures /\ c \in Imported /\ creatures[c] \in Creature
        /\ ~creatures[c].active /\ creatures[c].target = Nobody /\ Interval[c] \in Nat
    BY DueIsImported, CreatureFields DEF WorldSound
  <2>2. creatures'[c] = Rearmed(c)
    BY <1>1, <1>4, <2>1
  <2> QED
    BY <2>1, <2>2 DEF Rearmed, Creature
<1>5. DOMAIN creatures' = DOMAIN creatures /\ Back \subseteq DOMAIN creatures
  BY <1>1 DEF DueNow
<1>6. \A c \in DOMAIN creatures : creatures'[c] \in Creature
  BY <1>2, <1>3, <1>4, CreatureFields DEF WorldSound
<1>7. Partial(creatures, Monsters, Creature)'
  BY <1>1, <1>5, <1>6 DEF WorldSound, WorldType, Partial
<1>8. Active(creatures') = Active(creatures) \cup Back
  BY <1>2, <1>3, <1>4, <1>5 DEF Active, DueNow
<1>9. \A c \in Active(creatures) : creatures'[c] = creatures[c] /\ creatures[c].tile \in occupied
  BY <1>2 DEF Active, DueNow, WorldSound, OccupancyIsExact, Occupancy
<1>10. occupied' \subseteq occupied \cup {SpawnTile[c] : c \in Back}
  BY <1>1, <1>3, <1>8, <1>9 DEF Occupancy
<1>11. \A c \in Back : /\ SpawnTile[c] \in Ground /\ SpawnTile[c] \notin occupied
                       /\ c \in Imported /\ \A p \in Online : players[p] # SpawnTile[c]
  BY ReturnsOntoFree, DueIsImported
<1>12. WorldType'
  BY <1>1, <1>7, <1>10, <1>11 DEF WorldSound, WorldType
<1>13. BodiesApart'
  <2>1. \A p \in Online' : players'[p] \notin occupied'
    BY <1>1, <1>10, <1>11 DEF WorldSound, BodiesApart, Online
  <2>2. \A c, d \in Back : SpawnTile[c] = SpawnTile[d] => c = d
    BY <1>11, CreaturesAssumption
  <2>3. ASSUME NEW c \in Active(creatures)', NEW d \in Active(creatures)',
               creatures'[c].tile = creatures'[d].tile
        PROVE  c = d
    <3>1. CASE c \in Back /\ d \in Back
      BY <1>3, <2>2, <2>3, <3>1
    <3>2. CASE c \in Active(creatures) /\ d \in Active(creatures)
      BY <1>9, <2>3, <3>2 DEF WorldSound, BodiesApart
    <3>3. CASE \/ c \in Back /\ d \in Active(creatures)
               \/ d \in Back /\ c \in Active(creatures)
      BY <1>3, <1>9, <1>11, <2>3, <3>3
    <3> QED
      BY <1>8, <3>1, <3>2, <3>3
  <2> QED
    BY <1>1, <2>1, <2>3 DEF WorldSound, BodiesApart, Online
<1>14. CreaturesFit'
  <2>1. ASSUME NEW c \in DOMAIN creatures
        PROVE  DelaysFit(c, creatures'[c]) /\ creatures'[c].wait = creatures[c].wait
    <3>1. CASE c \notin DueNow
      BY <1>2, <3>1 DEF WorldSound, CreaturesFit
    <3>2. CASE c \in Back
      BY <1>3, <3>2 DEF DelaysFit
    <3>3. CASE c \in DueNow /\ ~Returns(c)
      BY <1>4, <3>3, DueIsImported DEF DelaysFit, Never
    <3> QED
      BY <3>1, <3>2, <3>3
  <2> QED
    BY <1>5, <2>1 DEF WorldSound, CreaturesFit
<1>15. ReferencesAreLive'
  <2>1. \A c \in DOMAIN creatures' :
          creatures'[c].target # Nobody =>
            creatures'[c].active /\ creatures'[c].target \in Online'
    BY <1>1, <1>2, <1>3, <1>4, <1>5 DEF WorldSound, ReferencesAreLive, Online
  <2> QED
    BY <1>1, <1>8, <2>1 DEF WorldSound, ReferencesAreLive, Online, Living
<1> QED
  BY <1>1, <1>8, <1>12, <1>13, <1>14, <1>15 DEF WorldSound, OccupancyIsExact

LEMMA AcquireKeeps ==
  ASSUME WorldSound, AcquireTargets
  PROVE  WorldSound'
<1>1. /\ creatures' = [c \in DOMAIN creatures |->
                         IF creatures[c].active
                         THEN [creatures[c] EXCEPT !.target = Selected(c)]
                         ELSE creatures[c]]
      /\ UNCHANGED <<occupied, players, dead, hunts, follows, struck>>
  BY DEF AcquireTargets
<1>2. ASSUME NEW c \in DOMAIN creatures
      PROVE  /\ creatures'[c] \in Creature
             /\ creatures'[c].tile = creatures[c].tile
             /\ creatures'[c].active = creatures[c].active
             /\ creatures'[c].due = creatures[c].due
             /\ creatures'[c].wait = creatures[c].wait
             /\ creatures'[c].target # Nobody =>
                  creatures[c].active /\ creatures'[c].target \in Online
  <2>1. creatures[c] \in Creature
    BY CreatureFields DEF WorldSound
  <2>2. Selected(c) # Nobody => Selected(c) \in Online /\ Selected(c) \in Players
    BY SelectedLives DEF Living, WorldSound, WorldType, Partial, Online
  <2>3. CASE creatures[c].active
    BY <1>1, <2>1, <2>2, <2>3 DEF Creature
  <2>4. CASE ~creatures[c].active
    BY <1>1, <2>1, <2>4 DEF WorldSound, ReferencesAreLive
  <2> QED
    BY <2>3, <2>4
<1>3. DOMAIN creatures' = DOMAIN creatures /\ Partial(creatures, Monsters, Creature)'
  BY <1>1, <1>2 DEF WorldSound, WorldType, Partial
<1>4. \A c \in DOMAIN creatures :
        DelaysFit(c, creatures'[c]) /\ creatures'[c].wait <= Cooldown[KindOf(c)]
  BY <1>2 DEF WorldSound, CreaturesFit, DelaysFit
<1> QED
  BY <1>1, <1>2, <1>3, <1>4, CreaturesStay DEF WorldSound, WorldType, Online

LEMMA FollowOnKeeps ==
  ASSUME Sound, NEW p, FollowOn(p)
  PROVE  WorldSound' /\ Online' = Online
<1>1. p \in Online /\ WorldSound
  BY HandlingListed DEF Sound, Passes, Listed, FollowOn
<1>2. UNCHANGED <<creatures, occupied, dead, hunts, follows, struck>>
  BY DEF FollowOn
<1>3. \/ UNCHANGED players
      \/ \E t : Free(t) /\ players' = [players EXCEPT ![p] = t]
  BY DirectFree DEF FollowOn
<1>4. CASE UNCHANGED players
  BY <1>1, <1>2, <1>4, QuietWorld DEF world, Online
<1>5. CASE \E t : Free(t) /\ players' = [players EXCEPT ![p] = t]
  BY <1>1, <1>2, <1>5, PlayerMoves
<1> QED
  BY <1>3, <1>4, <1>5

----------------------------------------------------------------------------
(* The sessions and the operators *)

LEMMA EnterKeeps ==
  ASSUME WorldSound, NEW p \in Players, NEW t \in Ground, Enter(p, t)
  PROVE  WorldSound' /\ Online \subseteq Online'
<1>1. /\ p \notin Online /\ t \notin occupied /\ \A q \in Online : players[q] # t
      /\ players' = With(players, p, t)
      /\ hunts' = With(hunts, p, Nobody)
      /\ follows' = With(follows, p, Nobody)
      /\ UNCHANGED <<creatures, occupied, dead, struck>>
  BY DEF Enter, HasPlayer
<1>2. /\ DOMAIN players' = Online \cup {p} /\ players'[p] = t
      /\ \A q \in Online : players'[q] = players[q]
  BY <1>1 DEF With, Online
<1>3. DOMAIN hunts = Online /\ DOMAIN follows = Online
  BY DEF WorldSound, WorldType, Online
<1>4. /\ DOMAIN hunts' = Online \cup {p} /\ hunts'[p] = Nobody
      /\ \A q \in Online : hunts'[q] = hunts[q]
  BY <1>1, <1>3 DEF With
<1>5. /\ DOMAIN follows' = Online \cup {p} /\ follows'[p] = Nobody
      /\ \A q \in Online : follows'[q] = follows[q]
  BY <1>1, <1>3 DEF With
<1>6. Partial(players, Players, Ground)'
  BY <1>1, <1>2 DEF With, WorldSound, WorldType, Partial, Online
<1>7. hunts' \in [DOMAIN players' -> Monsters \cup {Nobody}]
  BY <1>1, <1>2, <1>3, <1>4 DEF With, WorldSound, WorldType, Online
<1>8. follows' \in [DOMAIN players' -> Players \cup {Nobody}]
  BY <1>1, <1>2, <1>3, <1>5 DEF With, WorldSound, WorldType, Online
<1>9. WorldType'
  BY <1>1, <1>2, <1>6, <1>7, <1>8 DEF WorldSound, WorldType, Online
<1>10. BodiesApart'
  BY <1>1, <1>2 DEF WorldSound, BodiesApart, Online
<1>11. p \notin dead
  BY <1>1 DEF WorldSound, WorldType, Online
<1>12. ReferencesAreLive'
  BY <1>1, <1>2, <1>4, <1>5, <1>11 DEF WorldSound, ReferencesAreLive, Online, Living
<1> QED
  BY <1>1, <1>2, <1>9, <1>10, <1>12
     DEF WorldSound, OccupancyIsExact, CreaturesFit, Online

LEMMA LeaveKeeps ==
  ASSUME WorldSound, NEW p, Leave(p)
  PROVE  WorldSound' /\ Active(creatures') = Active(creatures)
         /\ DOMAIN creatures' = DOMAIN creatures /\ Occupancy(creatures') = occupied
         /\ \A c \in DOMAIN creatures : creatures'[c].tile = creatures[c].tile
<1>1. /\ p \in Online
      /\ players' = Without(players, p) /\ hunts' = Without(hunts, p)
      /\ follows' = [q \in Online \ {p} |-> IF follows[q] = p THEN Nobody ELSE follows[q]]
      /\ dead' = dead \ {p} /\ struck' = struck \ {p}
      /\ creatures' = Untargeted(p) /\ UNCHANGED occupied
  BY DEF Leave, Forgotten
<1>2. /\ DOMAIN players' = Online \ {p}
      /\ \A q \in Online \ {p} : players'[q] = players[q]
  BY <1>1 DEF Without, Online
<1>3. hunts' = [q \in Online \ {p} |-> hunts[q]]
  BY <1>1 DEF Without, WorldSound, WorldType, Online
<1>4. ASSUME NEW c \in DOMAIN creatures
      PROVE  /\ creatures'[c] \in Creature
             /\ creatures'[c].tile = creatures[c].tile
             /\ creatures'[c].active = creatures[c].active
             /\ creatures'[c].due = creatures[c].due
             /\ creatures'[c].wait = creatures[c].wait
             /\ creatures'[c].target = IF creatures[c].target = p THEN Nobody
                                       ELSE creatures[c].target
  <2>1. creatures[c] \in Creature
    BY CreatureFields DEF WorldSound
  <2> QED
    BY <1>1, <2>1 DEF Untargeted, Creature
<1>5. DOMAIN creatures' = DOMAIN creatures /\ Partial(creatures, Monsters, Creature)'
  BY <1>1, <1>4 DEF WorldSound, WorldType, Partial, Untargeted
<1>6. Active(creatures') = Active(creatures) /\ Occupancy(creatures') = occupied
  BY <1>4, <1>5, SameOccupancy DEF WorldSound, OccupancyIsExact
<1>7. Partial(players, Players, Ground)'
  BY <1>1 DEF Without, WorldSound, WorldType, Partial, Online
<1>8. WorldType'
  BY <1>1, <1>2, <1>3, <1>5, <1>7 DEF WorldSound, WorldType, Online
<1>9. \A c \in Active(creatures) : creatures'[c].tile = creatures[c].tile
  BY <1>4 DEF Active
<1>10. BodiesApart'
  BY <1>1, <1>2, <1>6, <1>9 DEF WorldSound, BodiesApart, Online
<1>11. ReferencesAreLive'
  <2>1. \A q \in Online' : hunts'[q] # Nobody => hunts'[q] \in Active(creatures)'
    BY <1>2, <1>3, <1>6 DEF WorldSound, ReferencesAreLive, Online
  <2>2. \A q \in Online' : follows'[q] # Nobody => follows'[q] \in Living' \ {q}
    BY <1>1, <1>2 DEF WorldSound, ReferencesAreLive, Online, Living
  <2>3. \A c \in DOMAIN creatures' :
          creatures'[c].target # Nobody =>
            creatures'[c].active /\ creatures'[c].target \in Online'
    BY <1>2, <1>4, <1>5 DEF WorldSound, ReferencesAreLive, Online
  <2> QED
    BY <2>1, <2>2, <2>3 DEF ReferencesAreLive
<1>12. CreaturesFit'
  BY <1>4, <1>5 DEF WorldSound, CreaturesFit, DelaysFit
<1> QED
  BY <1>1, <1>4, <1>5, <1>6, <1>8, <1>10, <1>11, <1>12 DEF WorldSound, OccupancyIsExact

LEMMA WalkKeeps ==
  ASSUME WorldSound, NEW p, NEW t, Walk(p, t)
  PROVE  WorldSound' /\ Online' = Online
BY PlayerMoves DEF Walk, Ready, MayStand

(* A session changes what its player is after, and nothing else. *)
LEMMA IntentsKeep ==
  ASSUME WorldSound, NEW p \in Online, NEW c, NEW q,
         c = Nobody \/ c \in Active(creatures), q = Nobody \/ q \in Living \ {p},
         hunts' = [hunts EXCEPT ![p] = c], follows' = [follows EXCEPT ![p] = q],
         UNCHANGED <<creatures, occupied, players, dead, struck>>
  PROVE  WorldSound'
<1>1. c \in Monsters \cup {Nobody} /\ q \in Players \cup {Nobody}
  BY DEF WorldSound, WorldType, Partial, Online, Living, Active
<1>2. WorldType'
  BY <1>1 DEF WorldSound, WorldType, Online
<1>3. \A r \in Online : /\ hunts'[r] = IF r = p THEN c ELSE hunts[r]
                        /\ follows'[r] = IF r = p THEN q ELSE follows[r]
  BY DEF WorldSound, WorldType, Online
<1>4. ReferencesAreLive'
  BY <1>3 DEF WorldSound, ReferencesAreLive, Online, Living
<1> QED
  BY <1>2, <1>4 DEF WorldSound, OccupancyIsExact, BodiesApart, CreaturesFit, Online

LEMMA IntentActionsKeep ==
  ASSUME WorldSound, NEW p, NEW x, Hunt(p, x) \/ Follow(p, x) \/ Desist(p)
  PROVE  WorldSound'
<1>1. CASE Hunt(p, x)
  BY <1>1, IntentsKeep DEF Hunt, Ready
<1>2. CASE Follow(p, x)
  BY <1>2, IntentsKeep DEF Follow, Ready
<1>3. CASE Desist(p)
  BY <1>3, IntentsKeep DEF Desist, Ready
<1> QED
  BY <1>1, <1>2, <1>3

(* A defeat takes the creature off the ground and out of every intent. *)
LEMMA DefeatKeeps ==
  ASSUME WorldSound, NEW c \in Active(creatures),
         creatures' = Deactivated(c), hunts' = Unhunted(c), occupied' = Occupancy(creatures'),
         UNCHANGED <<players, dead, follows>>, struck' \subseteq Online
  PROVE  WorldSound' /\ Active(creatures') = Active(creatures) \ {c}
         /\ DOMAIN creatures' = DOMAIN creatures
         /\ \A d \in DOMAIN creatures : d # c => creatures'[d] = creatures[d]
<1> DEFINE due == IF c \in Imported /\ Interval[c] > 0 THEN Interval[c] ELSE Never
<1>1. c \in DOMAIN creatures /\ creatures[c] \in Creature /\ creatures[c].active
  BY CreatureFields DEF Active, WorldSound
<1>2. due \in Nat \cup {Never}
  BY ConstantTypes
<1>3. creatures' = [creatures EXCEPT ![c] = [creatures[c] EXCEPT !.active = FALSE,
                       !.health = 0, !.target = Nobody, !.due = due]]
  BY DEF Deactivated
<1> DEFINE r == [creatures[c] EXCEPT !.active = FALSE, !.health = 0, !.target = Nobody,
                                     !.due = due]
<1> HIDE DEF due
<1>4. /\ r \in Creature /\ ~r.active /\ r.target = Nobody /\ r.due = due
       /\ r.wait = creatures[c].wait
  BY <1>1, <1>2 DEF Creature
<1>5. creatures' = [creatures EXCEPT ![c] = r]
  BY <1>3
<1> HIDE DEF r
<1>6. /\ DOMAIN creatures' = DOMAIN creatures
      /\ \A d \in DOMAIN creatures : d # c => creatures'[d] = creatures[d]
      /\ creatures'[c] \in Creature /\ ~creatures'[c].active
      /\ creatures'[c].target = Nobody /\ creatures'[c].due = due
      /\ creatures'[c].wait = creatures[c].wait
  BY <1>1, <1>4, <1>5
<1>7. Partial(creatures, Monsters, Creature)'
  BY <1>6, <1>5 DEF WorldSound, WorldType, Partial
<1>8. Active(creatures') = Active(creatures) \ {c}
  BY <1>6 DEF Active
<1>9. occupied' \subseteq occupied
  BY <1>6, <1>8 DEF WorldSound, OccupancyIsExact, Occupancy, Active
<1>10. hunts' = [p \in Online |-> IF hunts[p] = c THEN Nobody ELSE hunts[p]]
  BY DEF Unhunted
<1>11. WorldType'
  BY <1>7, <1>9, <1>10 DEF WorldSound, WorldType, Online
<1>12. BodiesApart'
  BY <1>6, <1>8, <1>9 DEF WorldSound, BodiesApart, Online, Active
<1>13. DelaysFit(c, creatures'[c])
  BY <1>6, ConstantTypes DEF DelaysFit, due, Never
<1>14. CreaturesFit'
  BY <1>6, <1>13 DEF WorldSound, CreaturesFit
<1>15. ReferencesAreLive'
  BY <1>6, <1>8, <1>10 DEF WorldSound, ReferencesAreLive, Online, Living
<1> QED
  BY <1>6, <1>8, <1>11, <1>12, <1>14, <1>15 DEF WorldSound, OccupancyIsExact

LEMMA StrikeKeeps ==
  ASSUME WorldSound, NEW p, Strike(p)
  PROVE  WorldSound'
<1> DEFINE c == hunts[p]
<1>1. /\ p \in Online /\ c \in Active(creatures) /\ creatures[c].health > 0
      /\ struck' = struck \cup {p} /\ UNCHANGED <<players, dead, follows>>
  BY DEF Strike, Ready
<1>2. struck' \subseteq Online
  BY <1>1 DEF WorldSound, WorldType, Online
<1>3. CASE creatures[c].health = 1
  <2>1. /\ creatures' = Deactivated(c) /\ hunts' = Unhunted(c)
        /\ occupied' = Occupancy(creatures')
    BY <1>3 DEF Strike
  <2> QED
    BY <1>1, <1>2, <2>1, DefeatKeeps
<1>4. CASE creatures[c].health # 1
  <2>1. creatures' = [creatures EXCEPT ![c].health = @ - 1] /\ UNCHANGED <<hunts, occupied>>
    BY <1>4 DEF Strike
  <2>2. c \in DOMAIN creatures /\ creatures[c] \in Creature /\ creatures[c].health \in Nat
    BY <1>1, CreatureFields DEF Active, WorldSound
  <2>3. /\ DOMAIN creatures' = DOMAIN creatures
        /\ \A d \in DOMAIN creatures : d # c => creatures'[d] = creatures[d]
        /\ creatures'[c] = [creatures[c] EXCEPT !.health = creatures[c].health - 1]
    BY <2>1, <2>2
  <2>4. creatures[c].health - 1 \in Nat
    BY <1>1, <2>2
  <2>5. \A d \in DOMAIN creatures :
          /\ creatures'[d] \in Creature
          /\ creatures'[d].tile = creatures[d].tile
          /\ creatures'[d].active = creatures[d].active
          /\ creatures'[d].due = creatures[d].due
          /\ creatures'[d].wait = creatures[d].wait
          /\ creatures'[d].target = creatures[d].target
    BY <2>2, <2>3, <2>4, CreatureFields DEF Creature, WorldSound
  <2>6. Partial(creatures, Monsters, Creature)'
    BY <2>1, <2>3, <2>5 DEF WorldSound, WorldType, Partial
  <2>7. \A d \in DOMAIN creatures :
          /\ DelaysFit(d, creatures'[d])
          /\ creatures'[d].wait <= Cooldown[KindOf(d)]
          /\ creatures'[d].target # Nobody =>
               creatures[d].active /\ creatures'[d].target \in Online
    BY <2>5 DEF WorldSound, CreaturesFit, DelaysFit, ReferencesAreLive
  <2> QED
    BY <1>1, <1>2, <2>1, <2>3, <2>5, <2>6, <2>7, CreaturesStay
<1> QED
  BY <1>3, <1>4

LEMMA SummonKeeps ==
  ASSUME WorldSound, NEW c \in Summons, NEW t \in Ground, Summon(c, t)
  PROVE  WorldSound' /\ DOMAIN creatures \subseteq DOMAIN creatures'
         /\ Active(creatures') = Active(creatures) \cup {c}
         /\ \A d \in DOMAIN creatures : creatures'[d] = creatures[d]
<1> DEFINE r == [tile |-> t, active |-> TRUE, health |-> creatures[Kind[c]].health,
                 due |-> Never, wait |-> 0, target |-> Nobody]
<1>1. /\ c \notin DOMAIN creatures /\ Kind[c] \in DOMAIN creatures
      /\ \A p \in Online : players[p] # t
      /\ t \notin occupied
      /\ creatures' = With(creatures, c, r)
      /\ occupied' = Occupancy(creatures')
      /\ UNCHANGED <<players, dead, hunts, follows, struck>>
  BY DEF Summon, HasPlayer
<1>2. /\ r \in Creature /\ r.tile = t /\ r.active /\ r.due = Never /\ r.wait = 0
      /\ r.target = Nobody
  <2>1. creatures[Kind[c]].health \in Nat
    BY <1>1, CreatureFields DEF WorldSound
  <2> QED
    BY <2>1 DEF Creature
<1> HIDE DEF r
<1>3. /\ DOMAIN creatures' = DOMAIN creatures \cup {c} /\ creatures'[c] = r
      /\ \A d \in DOMAIN creatures : creatures'[d] = creatures[d]
  BY <1>1 DEF With
<1>4. c \in Monsters
  BY DEF Monsters
<1>5. \A d \in DOMAIN creatures' : creatures'[d] \in Creature
  BY <1>2, <1>3, CreatureFields DEF WorldSound
<1>6. Partial(creatures, Monsters, Creature)'
  BY <1>1, <1>3, <1>4, <1>5 DEF With, WorldSound, WorldType, Partial
<1>7. Active(creatures') = Active(creatures) \cup {c}
  BY <1>1, <1>2, <1>3 DEF Active
<1>8. \A d \in Active(creatures) : creatures'[d] = creatures[d] /\ creatures[d].tile \in occupied
  BY <1>3 DEF Active, WorldSound, OccupancyIsExact, Occupancy
<1>9. occupied' \subseteq occupied \cup {t}
  BY <1>1, <1>2, <1>3, <1>7, <1>8 DEF Occupancy
<1>10. WorldType'
  BY <1>1, <1>6, <1>9 DEF WorldSound, WorldType
<1>11. BodiesApart'
  <2>1. \A p \in Online' : players'[p] \notin occupied'
    BY <1>1, <1>9 DEF WorldSound, BodiesApart, Online
  <2>2. \A d, e \in Active(creatures)' : creatures'[d].tile = creatures'[e].tile => d = e
    BY <1>1, <1>2, <1>3, <1>7, <1>8 DEF WorldSound, BodiesApart
  <2> QED
    BY <1>1, <2>1, <2>2 DEF WorldSound, BodiesApart, Online
<1>12. CreaturesFit'
  <2>1. DelaysFit(c, r) /\ r.wait <= Cooldown[KindOf(c)]
    BY <1>2, <1>4, CooldownType DEF DelaysFit
  <2> QED
    BY <1>3, <2>1 DEF WorldSound, CreaturesFit
<1>13. ReferencesAreLive'
  BY <1>1, <1>2, <1>3, <1>7 DEF WorldSound, ReferencesAreLive, Online, Living
<1> QED
  BY <1>1, <1>3, <1>7, <1>10, <1>11, <1>12, <1>13 DEF WorldSound, OccupancyIsExact

----------------------------------------------------------------------------
(* Starts and stops *)

LEMMA FreshType ==
  ASSUME NEW c \in Imported
  PROVE  /\ Fresh(c) \in Creature /\ Fresh(c).active /\ Fresh(c).tile = SpawnTile[c]
         /\ Fresh(c).due = Never /\ Fresh(c).wait = 0 /\ Fresh(c).target = Nobody
BY ConstantTypes DEF Fresh, Creature

(* A restored creature stands where its row says, or where it spawns. *)
LEMMA RestoredFields ==
  ASSUME NEW stored, Partial(stored, Monsters, Row), NEW c \in Imported
  PROVE  /\ DOMAIN Restored(stored) = Imported /\ Restored(stored)[c] \in Creature
         /\ Restored(stored)[c].target = Nobody
         /\ c \notin Known(stored) => Restored(stored)[c] = Fresh(c)
         /\ c \in Known(stored) =>
              /\ stored[c] \in Row
              /\ Restored(stored)[c].tile = stored[c].tile
              /\ Restored(stored)[c].active = stored[c].active
              /\ Restored(stored)[c].due = stored[c].due
              /\ Restored(stored)[c].wait = IF stored[c].wait = Never THEN 0
                                            ELSE stored[c].wait
<1>1. DOMAIN Restored(stored) = Imported
  BY DEF Restored
<1>2. CASE c \notin Known(stored)
  BY <1>1, <1>2, FreshType DEF Restored
<1>3. CASE c \in Known(stored)
  <2>1. stored[c] \in Row
    BY <1>3 DEF Known, Partial
  <2> DEFINE wait == IF stored[c].wait = Never THEN 0 ELSE stored[c].wait
  <2>2. wait \in Nat
    BY <2>1 DEF Row
  <2>3. Restored(stored)[c] = [tile |-> stored[c].tile, active |-> stored[c].active,
                               health |-> stored[c].health, due |-> stored[c].due,
                               wait |-> wait, target |-> Nobody]
    BY <1>3 DEF Restored
  <2> HIDE DEF wait
  <2>4. Restored(stored)[c] \in Creature
    BY <2>1, <2>2, <2>3 DEF Row, Creature
  <2> QED
    BY <1>1, <1>3, <2>1, <2>3, <2>4 DEF wait
<1> QED
  BY <1>2, <1>3

LEMMA InstalledIsRestored == Installed = Restored(<<>>)
<1>1. Known(<<>>) = {}
  BY DEF Known
<1> QED
  BY <1>1 DEF Installed, Restored

LEMMA NothingStored == Partial(<<>>, Monsters, Row) /\ StoredFits(<<>>)
<1>1. Known(<<>>) = {} /\ DOMAIN <<>> = {}
  BY DEF Known
<1> QED
  BY <1>1 DEF Partial, StoredFits, Fits, PlacesApart

(* What fits stands apart, with delays within the intervals. *)
LEMMA RestoredKeeps ==
  ASSUME NEW stored, Partial(stored, Monsters, Row), StoredFits(stored),
         creatures' = Restored(stored), occupied' = Occupancy(creatures'),
         players' = <<>>, dead' = {}, hunts' = <<>>, follows' = <<>>, struck' = {}
  PROVE  WorldSound' /\ Imported \subseteq DOMAIN creatures'
<1>1. DOMAIN creatures' = Imported /\ \A c \in Imported : creatures'[c] \in Creature
  BY RestoredFields DEF Restored
<1>2. Partial(creatures, Monsters, Creature)'
  BY <1>1 DEF Partial, Monsters, Restored
<1>3. (occupied \subseteq Ground)'
  BY <1>1 DEF Occupancy, Active, Creature
<1>4. DOMAIN players' = {}
  OBVIOUS
<1>5. WorldType'
  BY <1>2, <1>3, <1>4 DEF WorldType, Partial
<1>6. BodiesApart'
  <2>1. ASSUME NEW c \in Active(creatures'), NEW d \in Active(creatures'),
               creatures'[c].tile = creatures'[d].tile
        PROVE  c = d
    <3>1. c \in Imported /\ d \in Imported
      BY <1>1 DEF Active
    <3>2. CASE c \in Known(stored) \/ d \in Known(stored)
      BY <2>1, <3>2 DEF StoredFits, Fits, PlacesApart
    <3>3. CASE c \notin Known(stored) /\ d \notin Known(stored)
      <4>1. SpawnTile[c] = SpawnTile[d]
        BY <2>1, <3>1, <3>3, RestoredFields, FreshType
      <4> QED
        BY <3>1, <4>1, CreaturesAssumption
    <3> QED
      BY <3>2, <3>3
  <2> QED
    BY <1>4, <2>1 DEF BodiesApart, Online
<1>7. CreaturesFit'
  <2>1. ASSUME NEW c \in Imported
        PROVE  DelaysFit(c, creatures'[c]) /\ creatures'[c].wait <= Cooldown[KindOf(c)]
    <3>1. KindOf(c) = c /\ Cooldown[c] \in Nat /\ Interval[c] \in Nat
      BY KindType, ConstantTypes DEF Monsters
    <3>2. CASE c \notin Known(stored)
      BY <3>1, <3>2, RestoredFields, FreshType DEF DelaysFit
    <3>3. CASE c \in Known(stored)
      <4>1. DelaysFit(c, stored[c]) /\ CooldownFits(c, stored[c])
        BY <3>3 DEF StoredFits, Fits
      <4>2. DelaysFit(c, creatures'[c])
        BY <3>3, <4>1, RestoredFields DEF DelaysFit
      <4>3. creatures'[c].wait <= Cooldown[c]
        <5>1. creatures'[c].wait = IF stored[c].wait = Never THEN 0 ELSE stored[c].wait
          BY <3>3, RestoredFields
        <5>2. stored[c].wait # Never => stored[c].wait <= Cooldown[c]
          BY <4>1 DEF CooldownFits
        <5> QED
          BY <3>1, <5>1, <5>2
      <4> QED
        BY <3>1, <4>2, <4>3
    <3> QED
      BY <3>2, <3>3
  <2> QED
    BY <1>1, <2>1 DEF CreaturesFit
<1>8. ReferencesAreLive'
  BY <1>1, <1>4, RestoredFields DEF ReferencesAreLive, Online
<1> QED
  BY <1>1, <1>5, <1>6, <1>7, <1>8 DEF WorldSound, OccupancyIsExact

(* Stopping takes everything away. *)
LEMMA StopKeeps ==
  ASSUME NothingRuns
  PROVE  WorldSound'
<1>1. /\ DOMAIN creatures' = {} /\ DOMAIN players' = {} /\ occupied' = {}
      /\ creatures' = <<>> /\ players' = <<>> /\ hunts' = <<>> /\ follows' = <<>>
      /\ dead' = {} /\ struck' = {}
  BY DEF NothingRuns
<1>2. Active(creatures') = {}
  BY <1>1 DEF Active
<1>3. WorldType'
  BY <1>1 DEF WorldType, Partial
<1>4. OccupancyIsExact' /\ BodiesApart' /\ CreaturesFit'
  BY <1>1, <1>2 DEF OccupancyIsExact, Occupancy, BodiesApart, CreaturesFit, Online
<1>5. ReferencesAreLive'
  BY <1>1 DEF ReferencesAreLive, Online
<1> QED
  BY <1>3, <1>4, <1>5 DEF WorldSound

(* The server has nothing in its world when it starts. *)
LEMMA StartKeeps ==
  ASSUME Sound, Start
  PROVE  WorldSound' /\ Imported \subseteq DOMAIN creatures'
<1>1. /\ creatures' = Restored(rows) /\ occupied' = Occupancy(creatures')
      /\ UNCHANGED <<players, dead, hunts, follows, struck>>
      /\ DOMAIN players = {}
  BY DEF Start, Sound, Installation
<1>2. DOMAIN hunts = {} /\ DOMAIN follows = {} /\ dead = {} /\ struck = {}
  BY <1>1 DEF Sound, WorldSound, WorldType
<1>3. players = <<>> /\ hunts = <<>> /\ follows = <<>>
  BY <1>1, <1>2 DEF Sound, WorldSound, WorldType, Partial
<1> QED
  BY <1>1, <1>2, <1>3, RestoredKeeps DEF Sound, StoresSound

----------------------------------------------------------------------------
(* The heartbeat thread, the stores and the server *)

LEMMA GotoSound ==
  ASSUME NEW stage \in Stages, Goto(stage)
  PROVE  BeatSound'
BY DEF Goto, BeatSound

LEMMA StageAfterType ==
  ASSUME NEW pass \in Passes
  PROVE  StageAfter(pass) \in Stages
BY DEF StageAfter, Passes, Stages

LEMMA ListedType ==
  ASSUME WorldType, NEW pass
  PROVE  Listed(pass) \subseteq Players \cup Monsters
BY DEF Listed, WorldType, Partial, Online, Active

(* A pass goes on with whoever is left: nobody of them is gone. *)
LEMMA HandledSound ==
  ASSUME WorldType, BeatSound, NEW pass \in Passes, NEW i,
         Handling(pass, i), Handled(i), UNCHANGED server,
         Listed(pass) \subseteq Listed(pass)'
  PROVE  BeatSound'
<1>1. /\ server = "up" /\ beat.at = pass /\ ToHandle \subseteq Listed(pass)
      /\ ToHandle \subseteq Players \cup Monsters
  BY HandlingListed, ListedType DEF Handling
<1>2. CASE ToHandle = {i}
  <2>1. Goto(StageAfter(pass))
    BY <1>1, <1>2 DEF Handled
  <2> QED
    BY <2>1, StageAfterType, GotoSound
<1>3. CASE ToHandle # {i}
  <2>1. beat' = [beat EXCEPT !.held = TRUE, !.todo = ToHandle \ {i}]
    BY <1>3 DEF Handled
  <2>2. beat'.held /\ beat'.at = pass /\ beat'.todo = ToHandle \ {i}
        /\ beat' \in [at : Stages, held : BOOLEAN, todo : SUBSET (Players \cup Monsters)]
    BY <1>1, <2>1 DEF BeatSound
  <2>3. beat'.todo \subseteq Listed(pass)'
    BY <1>1, <2>2
  <2>4. server' = "up"
    BY <1>1
  <2> QED
    BY <2>2, <2>3, <2>4 DEF BeatSound
<1> QED
  BY <1>2, <1>3

LEMMA RestingSound ==
  ASSUME BeatSound, ~beat.held, UNCHANGED beat
  PROVE  BeatSound'
BY DEF BeatSound

(* A creature that acts stays on the list of those that act. *)
LEMMA PassKeepsCreatures ==
  ASSUME Sound, NEW c,
         Pursue(c) \/ NoAttack(c) \/ Attack(c) \/ Kill(c) \/ Wander(c)
  PROVE  DOMAIN creatures' = DOMAIN creatures /\ Active(creatures) \subseteq Active(creatures')
<1>1. c \in DOMAIN creatures /\ creatures[c] \in Creature
  BY HandlesActive DEF Pursue, NoAttack, Attack, Kill, Hits, Wander
<1>2. \/ creatures' = creatures
      \/ \E g : creatures' = [creatures EXCEPT ![c].target = g]
      \/ \E t, g : creatures' = [creatures EXCEPT ![c].tile = t, ![c].target = g]
      \/ \E n : creatures' = [creatures EXCEPT ![c].wait = n]
      \/ \E n, g : creatures' = [creatures EXCEPT ![c].wait = n, ![c].target = g]
  BY DEF Pursue, NoAttack, Attack, Kill, Wander, CreatureMoves
<1>3. DOMAIN creatures' = DOMAIN creatures
      /\ \A d \in DOMAIN creatures : creatures'[d].active = creatures[d].active
  BY <1>1, <1>2 DEF Creature
<1> QED
  BY <1>3 DEF Active

(* The snapshot of a sound world can be restored. *)
LEMMA SnapshotFields ==
  ASSUME WorldType, NEW c \in DOMAIN creatures
  PROVE  /\ DOMAIN Snapshot = DOMAIN creatures /\ Snapshot[c] \in Row
         /\ Snapshot[c].tile = creatures[c].tile
         /\ Snapshot[c].active = creatures[c].active
         /\ Snapshot[c].due = creatures[c].due
         /\ Snapshot[c].wait = IF Cooldown[KindOf(c)] = 0 THEN Never ELSE creatures[c].wait
<1> DEFINE wait == IF Cooldown[KindOf(c)] = 0 THEN Never ELSE creatures[c].wait
<1>1. creatures[c] \in Creature /\ wait \in Nat \cup {Never}
  BY CreatureFields
<1>2. Snapshot[c] = [tile |-> creatures[c].tile, active |-> creatures[c].active,
                     health |-> creatures[c].health, due |-> creatures[c].due,
                     wait |-> wait]
  BY DEF Snapshot
<1> HIDE DEF wait
<1>3. Snapshot[c] \in Row
  BY <1>1, <1>2 DEF Row, Creature
<1> QED
  BY <1>2, <1>3 DEF Snapshot, wait

LEMMA SnapshotSound ==
  ASSUME WorldSound, Imported \subseteq DOMAIN creatures
  PROVE  Partial(Snapshot, Monsters, Row) /\ StoredFits(Snapshot)
<1>1. DOMAIN Snapshot = DOMAIN creatures /\ Known(Snapshot) = Imported
  BY DEF Snapshot, Known
<1>2. Partial(Snapshot, Monsters, Row)
  <2>1. \A c \in DOMAIN creatures : Snapshot[c] \in Row
    BY SnapshotFields DEF WorldSound
  <2>2. Snapshot \in [DOMAIN creatures -> Row]
    BY <1>1, <2>1 DEF Snapshot
  <2> QED
    BY <1>1, <2>2 DEF Partial, WorldSound, WorldType
<1>3. ASSUME NEW c \in Imported
      PROVE  /\ DelaysFit(c, Snapshot[c]) /\ CooldownFits(c, Snapshot[c])
             /\ DelayFits(c, Snapshot[c])
             /\ Restored(Snapshot)[c].tile = creatures[c].tile
             /\ Restored(Snapshot)[c].active = creatures[c].active
             /\ DOMAIN Restored(Snapshot) = Imported
  <2>1. c \in DOMAIN creatures /\ KindOf(c) = c
    BY KindType DEF Monsters
  <2>2. DelaysFit(c, creatures[c]) /\ creatures[c].wait <= Cooldown[c]
    BY <2>1 DEF WorldSound, CreaturesFit
  <2>3. /\ Snapshot[c].tile = creatures[c].tile /\ Snapshot[c].active = creatures[c].active
        /\ Snapshot[c].due = creatures[c].due
        /\ Snapshot[c].wait = IF Cooldown[c] = 0 THEN Never ELSE creatures[c].wait
    BY <2>1, SnapshotFields DEF WorldSound
  <2>4. DelaysFit(c, Snapshot[c]) /\ DelayFits(c, Snapshot[c])
    BY <2>2, <2>3 DEF DelaysFit, DelayFits
  <2>5. CooldownFits(c, Snapshot[c])
    BY <2>2, <2>3 DEF CooldownFits
  <2> QED
    BY <1>1, <1>2, <2>3, <2>4, <2>5, RestoredFields
<1>4. PlacesApart(Snapshot)
  <2> DEFINE cs == Restored(Snapshot)
  <2>1. \A c \in Active(cs) : c \in Active(creatures) /\ cs[c].tile = creatures[c].tile
    <3>1. DOMAIN cs = Imported
      BY DEF Restored
    <3> QED
      BY <1>3, <3>1 DEF Active
  <2>2. \A c, d \in Active(cs) : cs[c].tile = cs[d].tile => c = d
    BY <2>1 DEF WorldSound, BodiesApart
  <2> QED
    BY <2>2 DEF PlacesApart
<1> QED
  BY <1>1, <1>2, <1>3, <1>4 DEF StoredFits, Fits

LEMMA SaveSet ==
  ASSUME StoresSound, NEW s \in Players \cup {Heartbeat}, NEW v,
         \/ v = Idle \/ v = Copying
         \/ \E snapshot : /\ v = Storing(snapshot)
                          /\ Partial(snapshot, Monsters, Row) /\ StoredFits(snapshot),
         saves' = [saves EXCEPT ![s] = v]
  PROVE  /\ SavesOK'
         /\ \A r \in DOMAIN saves' : saves'[r].at = "write" => StoredFits(saves'[r].copy)
<1>1. DOMAIN saves' = Players \cup {Heartbeat} /\ saves'[s] = v
      /\ \A r \in DOMAIN saves : r # s => saves'[r] = saves[r]
  BY DEF StoresSound, SavesOK
<1>2. /\ v = Idle \/ v = Copying \/ v = Storing(v.copy)
      /\ Partial(v.copy, Monsters, Row)
      /\ v.at = "write" => StoredFits(v.copy)
  BY NothingStored DEF Idle, Copying, Storing
<1> QED
  BY <1>1, <1>2 DEF StoresSound, SavesOK

(* Ids of players are no ids of the heartbeat: each keeps its own snapshot. *)
LEMMA SavesKept ==
  ASSUME StoresSound, UNCHANGED <<saves, rows>>
  PROVE  StoresSound'
BY DEF StoresSound, SavesOK

LEMMA SavesChanged ==
  ASSUME StoresSound, NEW s \in Players \cup {Heartbeat},
         saves' = [saves EXCEPT ![s] = Idle] \/ saves' = [saves EXCEPT ![s] = Copying],
         UNCHANGED rows
  PROVE  StoresSound'
<1>1. PICK v : (v = Idle \/ v = Copying) /\ saves' = [saves EXCEPT ![s] = v]
  OBVIOUS
<1>2. /\ SavesOK'
      /\ \A r \in DOMAIN saves' : saves'[r].at = "write" => StoredFits(saves'[r].copy)
  BY <1>1, SaveSet
<1> QED
  BY <1>2 DEF StoresSound

LEMMA SpendType ==
  ASSUME CountersType, NEW b \in Bounded, NEW bound, Spend(b, bound)
  PROVE  (spent \in [Bounded -> Nat])'
BY DEF CountersType, Spend

----------------------------------------------------------------------------
(* Every step *)

(* A step that changes nothing but the world and the heartbeat. *)
LEMMA WorldStep ==
  ASSUME Sound, WorldSound', BeatSound', server = "up",
         UNCHANGED <<saves, rows, server, spent>>,
         DOMAIN creatures \subseteq DOMAIN creatures'
  PROVE  Sound'
<1>1. StoresSound' /\ CountersType'
  BY SavesKept DEF Sound, CountersType
<1>2. Installation'
  BY DEF Sound, Installation
<1> QED
  BY <1>1, <1>2 DEF Sound

(* A session acts between the passes. *)
LEMMA BetweenPasses ==
  ASSUME Sound, Free4Sessions, WorldSound',
         UNCHANGED <<beat, saves, rows, server, spent>>,
         DOMAIN creatures \subseteq DOMAIN creatures'
  PROVE  Sound'
BY RestingSound, WorldStep DEF Free4Sessions, Sound

LEMMA InitSound == Init => Sound
<1> SUFFICES ASSUME Init
             PROVE  Sound
  OBVIOUS
<1>1. /\ creatures = Restored(<<>>) /\ occupied = Occupancy(creatures)
      /\ players = <<>> /\ dead = {} /\ hunts = <<>> /\ follows = <<>> /\ struck = {}
  BY InstalledIsRestored DEF Init
<1>2. DOMAIN creatures = Imported /\ \A c \in Imported : creatures[c] = Fresh(c)
  BY DEF Init, Installed
<1>3. DOMAIN players = {}
  BY <1>1
<1>4. WorldType
  <2>1. Partial(creatures, Monsters, Creature)
    <3>1. creatures \in [Imported -> Creature]
      BY FreshType DEF Init, Installed
    <3> QED
      BY <1>2, <3>1 DEF Partial, Monsters
  <2>2. occupied \subseteq Ground
    BY <1>1, <1>2, FreshType DEF Occupancy, Active, Creature
  <2> QED
    BY <1>1, <1>3, <2>1, <2>2 DEF WorldType, Partial
<1>5. BodiesApart
  <2>1. \A c, d \in Active(creatures) : creatures[c].tile = creatures[d].tile => c = d
    <3>1. \A c \in Active(creatures) : c \in Imported /\ creatures[c].tile = SpawnTile[c]
      BY <1>2, FreshType DEF Active
    <3> QED
      BY <3>1, CreaturesAssumption
  <2> QED
    BY <1>3, <2>1 DEF BodiesApart, Online
<1>6. CreaturesFit
  <2>1. \A c \in Imported : DelaysFit(c, Fresh(c)) /\ Fresh(c).wait <= Cooldown[KindOf(c)]
    BY FreshType, KindType, ConstantTypes DEF DelaysFit, Monsters
  <2> QED
    BY <1>2, <2>1 DEF CreaturesFit
<1>7. OccupancyIsExact /\ ReferencesAreLive
  BY <1>1, <1>2, <1>3, FreshType DEF OccupancyIsExact, ReferencesAreLive, Online
<1>8. BeatSound
  BY DEF Init, BeatSound, Stages
<1>9. StoresSound
  BY NothingStored DEF Init, StoresSound, SavesOK, Idle
<1>10. Installation /\ CountersType
  BY <1>2 DEF Init, Installation, CountersType
<1> QED
  BY <1>4, <1>5, <1>6, <1>7, <1>8, <1>9, <1>10 DEF Sound, WorldSound

(* The heartbeat: the passes over creatures and players, the rest of a beat *)
(* and the autosave.                                                        *)
LEMMA HandleCreatureSound ==
  ASSUME Sound, HandleCreature
  PROVE  Sound'
<1>1. PICK c \in Monsters : \/ Pursue(c) \/ NoAttack(c) \/ Attack(c)
                            \/ Kill(c) \/ FailedKill(c) \/ Wander(c)
  BY DEF HandleCreature
<1>2. CASE FailedKill(c)
  <2>1. /\ server = "up" /\ Goto("failed")
        /\ UNCHANGED <<world, saves, rows, server, spent>>
    BY <1>2 DEF FailedKill, Hits, Handling
  <2>2. BeatSound'
    BY <2>1, GotoSound DEF Stages
  <2> QED
    BY <2>1, <2>2, QuietWorld, WorldStep DEF Sound, world
<1>3. CASE Pursue(c) \/ NoAttack(c) \/ Attack(c) \/ Kill(c) \/ Wander(c)
  <2>1. PICK pass \in {"pursue", "attack", "wander"} : Handling(pass, c) /\ Handled(c)
    BY <1>3 DEF Pursue, NoAttack, Attack, Kill, Hits, Wander
  <2>2. server = "up" /\ UNCHANGED <<saves, rows, server, spent>>
    BY <1>3, <2>1 DEF Pursue, NoAttack, Attack, Kill, Wander, Handling
  <2>3. WorldSound'
    BY <1>3, PursueKeeps, NoAttackKeeps, AttackKeeps, KillKeeps, WanderKeeps
  <2>4. DOMAIN creatures' = DOMAIN creatures /\ Active(creatures) \subseteq Active(creatures')
    BY <1>3, PassKeepsCreatures
  <2>5. pass \in Passes /\ Listed(pass) \subseteq Listed(pass)'
    BY <2>4 DEF Passes, Listed
  <2>6. BeatSound'
    BY <2>1, <2>2, <2>5, HandledSound DEF Sound, WorldSound
  <2> QED
    BY <2>2, <2>3, <2>4, <2>6, WorldStep
<1> QED
  BY <1>1, <1>2, <1>3

LEMMA FollowOnSound ==
  ASSUME Sound, NEW p, FollowOn(p)
  PROVE  Sound'
<1>1. /\ Handling("follow", p) /\ Handled(p) /\ server = "up"
      /\ UNCHANGED <<creatures, saves, rows, server, spent>>
  BY DEF FollowOn, Handling
<1>2. WorldSound' /\ Online' = Online
  BY FollowOnKeeps
<1>3. "follow" \in Passes /\ Listed("follow") \subseteq Listed("follow")'
  BY <1>2 DEF Passes, Listed
<1>4. BeatSound'
  BY <1>1, <1>3, HandledSound DEF Sound, WorldSound
<1> QED
  BY <1>1, <1>2, <1>4, WorldStep

LEMMA SaveStepSound ==
  ASSUME Sound, NEW s \in Players \cup {Heartbeat}, TakeSnapshot(s) \/ StoreRows(s)
  PROVE  Sound'
<1>1. WorldSound' /\ BeatSound' /\ CountersType' /\ UNCHANGED <<server, creatures>> /\ server = "up"
  <2>1. UNCHANGED <<world, beat, server, spent>> /\ server = "up"
    BY DEF TakeSnapshot, StoreRows, Free4Sessions
  <2>2. BeatSound'
    BY <2>1 DEF Sound, BeatSound, Listed, world, Online
  <2> QED
    BY <2>1, <2>2, QuietWorld DEF Sound, CountersType, world
<1>2. Imported \subseteq DOMAIN creatures
  BY <1>1 DEF Sound, Installation
<1>3. CASE TakeSnapshot(s)
  <2>1. saves' = [saves EXCEPT ![s] = Storing(Snapshot)] /\ UNCHANGED rows
    BY <1>3 DEF TakeSnapshot
  <2>2. /\ SavesOK'
        /\ \A r \in DOMAIN saves' : saves'[r].at = "write" => StoredFits(saves'[r].copy)
    BY <1>2, <2>1, SnapshotSound, SaveSet DEF Sound
  <2> QED
    BY <1>1, <1>2, <2>1, <2>2 DEF Sound, StoresSound, Installation
<1>4. CASE StoreRows(s)
  <2>1. saves[s].at = "write" /\ rows' = saves[s].copy /\ saves' = [saves EXCEPT ![s] = Idle]
    BY <1>4 DEF StoreRows
  <2>2. /\ SavesOK'
        /\ \A r \in DOMAIN saves' : saves'[r].at = "write" => StoredFits(saves'[r].copy)
    BY <2>1, SaveSet DEF Sound
  <2>3. Partial(rows', Monsters, Row) /\ StoredFits(rows')
    BY <2>1 DEF Sound, StoresSound, SavesOK
  <2> QED
    BY <1>1, <1>2, <2>2, <2>3 DEF Sound, StoresSound, Installation
<1> QED
  BY <1>3, <1>4

LEMMA AutosaveSound ==
  ASSUME Sound, AutosaveDue
  PROVE  Sound'
<1>1. /\ server = "up" /\ Goto("advance") /\ UNCHANGED <<world, rows, server>>
      /\ saves' = [saves EXCEPT ![Heartbeat] = Copying] /\ Spend("saves", MaxSaves)
  BY DEF AutosaveDue, Beats
<1>2. WorldSound' /\ BeatSound'
  BY <1>1, QuietWorld, GotoSound DEF Sound, Stages
<1>3. StoresSound'
  BY <1>1, SavesChanged DEF Sound
<1>4. CountersType'
  BY <1>1, SpendType DEF Sound, CountersType, Bounded
<1>5. Installation'
  BY <1>1 DEF Sound, Installation, world
<1> QED
  BY <1>2, <1>3, <1>4, <1>5 DEF Sound

LEMMA HeartbeatStepSound ==
  ASSUME Sound, HeartbeatStep
  PROVE  Sound'
<1>1. CASE AdvanceTicks
  <2>1. /\ server = "up" /\ Goto("reactivate") /\ DOMAIN creatures' = DOMAIN creatures
        /\ UNCHANGED <<saves, rows, server, spent>>
    BY <1>1 DEF AdvanceTicks, Beats
  <2> QED
    BY <1>1, <2>1, AdvanceKeeps, GotoSound, WorldStep DEF Stages
<1>2. CASE ReactivateDue
  <2>1. /\ server = "up" /\ Goto("acquire") /\ DOMAIN creatures' = DOMAIN creatures
        /\ UNCHANGED <<saves, rows, server, spent>>
    BY <1>2 DEF ReactivateDue, Beats
  <2> QED
    BY <1>2, <2>1, ReactivateKeeps, GotoSound, WorldStep DEF Stages, Sound
<1>3. CASE AcquireTargets
  <2>1. /\ server = "up" /\ Goto("pursue") /\ DOMAIN creatures' = DOMAIN creatures
        /\ UNCHANGED <<saves, rows, server, spent>>
    BY <1>3 DEF AcquireTargets, Beats
  <2> QED
    BY <1>3, <2>1, AcquireKeeps, GotoSound, WorldStep DEF Stages, Sound
<1>4. CASE SkipPass \/ SkipWander \/ AutosaveNotDue
  <2>1. /\ server = "up" /\ UNCHANGED <<world, saves, rows, server, spent>>
        /\ \E stage \in Stages : Goto(stage)
    BY <1>4, StageAfterType DEF SkipPass, SkipWander, AutosaveNotDue, Beats, Stages
  <2>2. WorldSound' /\ BeatSound'
    BY <2>1, QuietWorld, GotoSound DEF Sound
  <2> QED
    BY <2>1, <2>2, WorldStep DEF world
<1>5. CASE HandleCreature
  BY <1>5, HandleCreatureSound
<1>6. CASE \E p \in Players : FollowOn(p)
  BY <1>6, FollowOnSound
<1>7. CASE AutosaveDue
  BY <1>7, AutosaveSound
<1>8. CASE TakeSnapshot(Heartbeat) \/ StoreRows(Heartbeat)
  BY <1>8, SaveStepSound
<1> QED
  BY <1>1, <1>2, <1>3, <1>4, <1>5, <1>6, <1>7, <1>8 DEF HeartbeatStep

LEMMA LeaveSound ==
  ASSUME Sound, NEW p \in Players, Leave(p)
  PROVE  Sound'
<1>1. /\ Free4Sessions /\ saves' = [saves EXCEPT ![p] = Idle]
      /\ UNCHANGED <<beat, rows, server, spent>>
  BY DEF Leave
<1>2. WorldSound' /\ DOMAIN creatures' = DOMAIN creatures
  BY LeaveKeeps DEF Sound
<1>3. BeatSound' /\ StoresSound'
  BY <1>1, RestingSound, SavesChanged DEF Sound, Free4Sessions
<1>4. Installation' /\ CountersType'
  BY <1>1, <1>2 DEF Sound, Installation, CountersType, Free4Sessions
<1> QED
  BY <1>2, <1>3, <1>4 DEF Sound

LEMMA StrikeSound ==
  ASSUME Sound, NEW p \in Players, Strike(p)
  PROVE  Sound'
<1>1. /\ Free4Sessions /\ saves' = [saves EXCEPT ![p] = Copying]
      /\ Spend("hits", MaxHits) /\ UNCHANGED <<beat, rows, server>>
  BY DEF Strike, Ready
<1>2. WorldSound'
  BY StrikeKeeps DEF Sound
<1>3. DOMAIN creatures' = DOMAIN creatures
  BY DEF Strike, Deactivated
<1>4. BeatSound' /\ StoresSound'
  BY <1>1, RestingSound, SavesChanged DEF Sound, Free4Sessions
<1>5. Installation' /\ CountersType'
  BY <1>1, <1>3, SpendType DEF Sound, Installation, CountersType, Free4Sessions, Bounded
<1> QED
  BY <1>2, <1>4, <1>5 DEF Sound

LEMMA SessionStepSound ==
  ASSUME Sound, SessionStep
  PROVE  Sound'
<1>1. PICK p \in Players :
        \/ \E t \in Ground : Enter(p, t) \/ Walk(p, t)
        \/ \E c \in Monsters : Hunt(p, c)
        \/ \E q \in Players : Follow(p, q)
        \/ Leave(p) \/ Desist(p) \/ Strike(p)
        \/ TakeSnapshot(p) \/ StoreRows(p)
  BY DEF SessionStep
<1>2. ASSUME NEW t \in Ground, Enter(p, t)
      PROVE  Sound'
  BY <1>2, EnterKeeps, BetweenPasses DEF Enter, Sound
<1>3. ASSUME NEW t \in Ground, Walk(p, t)
      PROVE  Sound'
  BY <1>3, WalkKeeps, BetweenPasses DEF Walk, Ready, Sound
<1>4. ASSUME NEW x, Hunt(p, x) \/ Follow(p, x) \/ Desist(p)
      PROVE  Sound'
  BY <1>4, IntentActionsKeep, BetweenPasses DEF Hunt, Follow, Desist, Ready, Sound
<1>5. CASE Leave(p)
  BY <1>5, LeaveSound
<1>6. CASE Strike(p)
  BY <1>6, StrikeSound
<1>7. CASE TakeSnapshot(p) \/ StoreRows(p)
  BY <1>7, SaveStepSound
<1> QED
  BY <1>1, <1>2, <1>3, <1>4, <1>5, <1>6, <1>7

LEMMA StopSound ==
  ASSUME Sound, Crash \/ Shutdown
  PROVE  Sound'
<1>1. server = "up" /\ NothingRuns /\ Spend("restarts", MaxRestarts)
  BY DEF Crash, Shutdown, Beats
<1>2. WorldSound'
  BY <1>1, StopKeeps
<1>3. /\ saves' = [s \in Players \cup {Heartbeat} |-> Idle] /\ server' = "down"
      /\ beat' = [at |-> "advance", held |-> FALSE, todo |-> {}]
      /\ creatures' = <<>> /\ players' = <<>> /\ occupied' = {}
  BY <1>1 DEF NothingRuns
<1>4. BeatSound'
  BY <1>3 DEF BeatSound, Stages
<1>5. Installation' /\ CountersType'
  BY <1>1, <1>3, SpendType DEF Sound, Installation, CountersType, Bounded
<1>6. Partial(rows', Monsters, Row) /\ StoredFits(rows')
  <2>1. Imported \subseteq DOMAIN creatures
    BY <1>1 DEF Sound, Installation
  <2>2. rows' = rows \/ rows' = Snapshot
    BY DEF Crash, Shutdown
  <2> QED
    BY <2>1, <2>2, SnapshotSound DEF Sound, StoresSound
<1>7. SavesOK' /\ \A s \in DOMAIN saves' : saves'[s].at # "write"
  BY <1>3, NothingStored DEF SavesOK, Idle
<1> QED
  BY <1>2, <1>4, <1>5, <1>6, <1>7 DEF Sound, StoresSound

LEMMA StartSound ==
  ASSUME Sound, Start \/ RefuseToStart
  PROVE  Sound'
<1>1. server = "down" /\ UNCHANGED <<beat, saves, rows, spent>> /\ ~beat.held
  BY DEF Start, RefuseToStart, Sound, Installation
<1>2. BeatSound' /\ StoresSound'
  BY <1>1, RestingSound, SavesKept DEF Sound
<1>3. CASE Start
  BY <1>1, <1>2, <1>3, StartKeeps DEF Sound, Start, Installation, CountersType
<1>4. CASE RefuseToStart
  <2>1. UNCHANGED world /\ server' = "refused"
    BY <1>4 DEF RefuseToStart
  <2>2. Installation' /\ CountersType'
    BY <1>1, <2>1 DEF Sound, Installation, CountersType, world
  <2> QED
    BY <1>2, <2>1, <2>2, QuietWorld DEF Sound
<1> QED
  BY <1>3, <1>4

LEMMA NextSound == Sound /\ [Next]_vars => Sound'
<1> SUFFICES ASSUME Sound, [Next]_vars
             PROVE  Sound'
  OBVIOUS
<1>1. CASE HeartbeatStep
  BY <1>1, HeartbeatStepSound
<1>2. CASE SessionStep
  BY <1>2, SessionStepSound
<1>3. CASE \E c \in Summons, t \in Ground : Summon(c, t)
  <2>1. PICK c \in Summons, t \in Ground : Summon(c, t)
    BY <1>3
  <2> QED
    BY <2>1, SummonKeeps, BetweenPasses DEF Summon, Sound
<1>4. CASE Crash \/ Shutdown
  BY <1>4, StopSound
<1>5. CASE Start \/ RefuseToStart
  BY <1>5, StartSound
<1>6. CASE UNCHANGED vars
  <2>1. UNCHANGED <<world, creatures, players, occupied, beat, saves, rows, server, spent>>
    BY <1>6 DEF vars, world
  <2>2. WorldSound' /\ StoresSound' /\ CountersType'
    BY <2>1, QuietWorld, SavesKept DEF Sound, CountersType
  <2>3. BeatSound' /\ Installation'
    BY <2>1 DEF Sound, BeatSound, Listed, Online, Installation
  <2> QED
    BY <2>2, <2>3 DEF Sound
<1> QED
  BY <1>1, <1>2, <1>3, <1>4, <1>5, <1>6 DEF Next

LEMMA AlwaysSound == Spec => []Sound
BY InitSound, NextSound, PTL DEF Spec

----------------------------------------------------------------------------
(* The theorems on single states *)

(* Every variable has its type, however sessions, the passes of the          *)
(* heartbeat, late saves and restarts (world_static.rs, heartbeat.rs)        *)
(* interleave.                                                               *)
THEOREM CreaturesTyped == Spec => []TypeOK
<1>1. Sound => TypeOK
  BY SoundTypes
<1> QED
  BY <1>1, AlwaysSound, PTL

(* static_occupied_positions is always what the active creatures say: no     *)
(* move, defeat, return, summon or restore forgets to call                   *)
(* refresh_static_creature_occupancy.                                        *)
THEOREM OccupancyStaysExact == Spec => []OccupancyIsExact
<1>1. Sound => OccupancyIsExact
  BY DEF Sound, WorldSound
<1> QED
  BY <1>1, AlwaysSound, PTL

(* No intent of a player is at a creature that lies defeated or at a player  *)
(* that is dead or gone, and no creature is after a player that left:        *)
(* deactivate_static_creature, apply_player_death, remove_player and the     *)
(* restore each clear what the others hold.                                  *)
THEOREM ReferencesStayLive == Spec => []ReferencesAreLive
<1>1. Sound => ReferencesAreLive
  BY DEF Sound, WorldSound
<1> QED
  BY <1>1, AlwaysSound, PTL

(* Whatever snapshot persist_static_creature_runtime_to_open_database stores *)
(* last, and however late, restore_static_creature_runtime finds its         *)
(* creatures apart and their delays within the intervals, and a defeated     *)
(* creature with an interval is due again.                                   *)
THEOREM SpawnsAlwaysOutliveRestarts == Spec => []SpawnsOutliveRestarts
<1>1. Sound => SpawnsOutliveRestarts
  <2> SUFFICES ASSUME Sound
               PROVE  SpawnsOutliveRestarts
    OBVIOUS
  <2>1. Fits(rows) /\ \A s \in DOMAIN saves : saves[s].at = "write" => Fits(saves[s].copy)
    BY DEF Sound, StoresSound, StoredFits
  <2>2. ASSUME NEW c \in DOMAIN creatures \cap Imported,
               ~creatures[c].active, Interval[c] > 0
        PROVE  creatures[c].due \in 0..Interval[c]
    <3>1. creatures[c].due # Never /\ creatures[c].due <= Interval[c]
      BY <2>2 DEF Sound, WorldSound, CreaturesFit, DelaysFit
    <3>2. creatures[c].due \in Nat /\ Interval[c] \in Nat
      BY <3>1, CreatureFields, ConstantTypes DEF Sound, WorldSound
    <3> QED
      BY <3>1, <3>2
  <2> QED
    BY <2>1, <2>2 DEF SpawnsOutliveRestarts
<1> QED
  BY <1>1, AlwaysSound, PTL

(* Nobody stands on anybody: two players, a player and a creature, or two    *)
(* creatures never share a tile, which move_native_map_player,               *)
(* move_static_creature_cardinal, spawn_dynamic_entity and a return each     *)
(* check on their own.                                                       *)
THEOREM BodiesStayApart == Spec => []BodiesApart
<1>1. Sound => BodiesApart
  BY DEF Sound, WorldSound
<1> QED
  BY <1>1, AlwaysSound, PTL

----------------------------------------------------------------------------
(* Creatures implements Tiles *)

LEMMA WhereIs ==
  ASSUME WorldSound
  PROVE  /\ DOMAIN Where = GroundBodies /\ GroundBodies \subseteq Players \cup Monsters
         /\ \A p \in Online : Where[p] = players[p]
         /\ \A c \in Active(creatures) : c \notin Online /\ Where[c] = creatures[c].tile
         /\ \A b \in GroundBodies : Where[b] \in Ground
<1>1. Online \subseteq Players /\ \A p \in Online : players[p] \in Ground
  BY DEF Online, WorldSound, WorldType, Partial
<1>2. Active(creatures) \subseteq Monsters
      /\ \A c \in Active(creatures) : creatures[c].tile \in Ground
  BY CreatureFields DEF Active, WorldSound
<1>3. \A c \in Active(creatures) : c \notin Online
  BY <1>1, <1>2, CreaturesAssumption
<1> QED
  BY <1>1, <1>2, <1>3 DEF Where, GroundBodies

LEMMA WhereTyped ==
  ASSUME WorldSound
  PROVE  T!TypeOK /\ T!Apart(Where)
<1>1. T!TypeOK
  BY WhereIs DEF T!TypeOK, Where
<1>2. ASSUME NEW a \in GroundBodies, NEW b \in GroundBodies, Where[a] = Where[b]
      PROVE  a = b
  <2>1. CASE a \in Online /\ b \in Online
    BY <1>2, <2>1, WhereIs DEF WorldSound, BodiesApart
  <2>2. CASE a \in Active(creatures) /\ b \in Active(creatures)
    BY <1>2, <2>2, WhereIs DEF WorldSound, BodiesApart
  <2>3. \A p \in Online, c \in Active(creatures) : players[p] # creatures[c].tile
    BY DEF WorldSound, BodiesApart, OccupancyIsExact, Occupancy
  <2> QED
    BY <1>2, <2>1, <2>2, <2>3, WhereIs DEF GroundBodies
<1> QED
  BY <1>1, <1>2, WhereIs DEF T!Apart

BodiesPlaced == /\ T!Apart(Where)
                /\ GroundBodies \subseteq Players \cup Monsters
                /\ \A b \in GroundBodies : Where[b] \in Ground
                /\ \A p \in Online : Where[p] = players[p]
                /\ \A c \in Active(creatures) : c \notin Online
                                               /\ Where[c] = creatures[c].tile

LEMMA Placed == WorldSound => BodiesPlaced
BY WhereIs, WhereTyped DEF BodiesPlaced

LEMMA PlacedNext == WorldSound' => BodiesPlaced'
BY Placed, PTL

(* Nobody stands on a free tile. *)
LEMMA FreeOfBodies ==
  ASSUME WorldSound, NEW t, Free(t)
  PROVE  t \in Ground /\ \A b \in GroundBodies : Where[b] # t
<1>1. \A c \in Active(creatures) : creatures[c].tile \in occupied
  BY DEF WorldSound, OccupancyIsExact, Occupancy
<1> QED
  BY <1>1, WhereIs, FreeGround DEF GroundBodies

(* The three kinds of steps of Tiles. *)
LEMMA BodiesEnter ==
  ASSUME WorldSound, WorldSound', GroundBodies \subseteq GroundBodies',
         \A b \in GroundBodies : Where'[b] = Where[b]
  PROVE  T!Next
<1>1. DOMAIN Where' = GroundBodies' /\ DOMAIN Where = GroundBodies
  BY DEF Where
<1>2. T!Apart(Where') /\ GroundBodies' \subseteq Players \cup Monsters
      /\ \A b \in GroundBodies' : Where'[b] \in Ground
  BY PlacedNext DEF BodiesPlaced, T!Apart
<1>3. T!Enter(GroundBodies')
  BY <1>1, <1>2 DEF T!Enter
<1> QED
  BY <1>2, <1>3 DEF T!Next

LEMMA BodiesRemain ==
  ASSUME GroundBodies' \subseteq GroundBodies,
         \A b \in GroundBodies' : Where'[b] = Where[b]
  PROVE  T!Next
<1>1. DOMAIN Where' = GroundBodies' /\ DOMAIN Where = GroundBodies
  BY DEF Where
<1>2. Where' = [b \in GroundBodies' |-> Where[b]]
  BY DEF Where
<1>3. T!Remain(GroundBodies')
  BY <1>2 DEF T!Remain
<1> QED
  BY <1>1, <1>3 DEF T!Next

LEMMA BodyMoves ==
  ASSUME WorldSound, NEW b \in GroundBodies, NEW t, Free(t),
         GroundBodies' = GroundBodies, Where'[b] = t,
         \A a \in GroundBodies : a # b => Where'[a] = Where[a]
  PROVE  T!Next
<1>1. DOMAIN Where' = GroundBodies /\ DOMAIN Where = GroundBodies
      /\ b \in Players \cup Monsters
  BY WhereIs DEF Where
<1>2. Where' = [Where EXCEPT ![b] = t]
  BY <1>1 DEF Where
<1>3. T!Move(b, t)
  BY <1>1, <1>2, FreeOfBodies DEF T!Move
<1> QED
  BY <1>1, <1>3, FreeOfBodies DEF T!Next

(* In terms of players and creatures: nobody leaves, nobody comes, or one *)
(* creature or one player takes a step.                                   *)
LEMMA NobodyLeaves ==
  ASSUME WorldSound, WorldSound', Online \subseteq Online',
         \A p \in Online : players'[p] = players[p],
         Active(creatures) \subseteq Active(creatures'),
         \A c \in Active(creatures) : creatures'[c].tile = creatures[c].tile
  PROVE  T!Next
<1>1. GroundBodies \subseteq GroundBodies'
  BY DEF GroundBodies
<1>2. \A b \in GroundBodies : Where'[b] = Where[b]
  BY Placed, PlacedNext DEF BodiesPlaced, GroundBodies
<1> QED
  BY <1>1, <1>2, BodiesEnter

LEMMA NobodyComes ==
  ASSUME WorldSound, WorldSound', Online' \subseteq Online,
         \A p \in Online' : players'[p] = players[p],
         Active(creatures') \subseteq Active(creatures),
         \A c \in Active(creatures') : creatures'[c].tile = creatures[c].tile
  PROVE  T!Next
<1>1. GroundBodies' \subseteq GroundBodies
  BY DEF GroundBodies
<1>2. \A b \in GroundBodies' : Where'[b] = Where[b]
  BY Placed, PlacedNext DEF BodiesPlaced, GroundBodies
<1> QED
  BY <1>1, <1>2, BodiesRemain

LEMMA PlayerSteps ==
  ASSUME WorldSound, WorldSound', NEW p \in Online, NEW t, Free(t),
         players' = [players EXCEPT ![p] = t], UNCHANGED creatures
  PROVE  T!Next
<1>1. Online' = Online /\ Active(creatures)' = Active(creatures)
      /\ players'[p] = t /\ \A q \in Online : q # p => players'[q] = players[q]
  BY DEF Online
<1>2. GroundBodies' = GroundBodies /\ p \in GroundBodies
  BY <1>1 DEF GroundBodies
<1>3. Where'[p] = t /\ \A a \in GroundBodies : a # p => Where'[a] = Where[a]
  BY <1>1, Placed, PlacedNext DEF BodiesPlaced, GroundBodies
<1> QED
  BY <1>2, <1>3, BodyMoves

LEMMA CreatureSteps ==
  ASSUME WorldSound, WorldSound', NEW c \in Active(creatures), NEW target, NEW t,
         t = creatures[c].tile \/ Free(t),
         CreatureMoves(c, target, t), UNCHANGED players
  PROVE  T!Next
<1>1. c \in DOMAIN creatures /\ creatures[c] \in Creature
  BY CreatureFields DEF Active, WorldSound
<1>2. /\ DOMAIN creatures' = DOMAIN creatures /\ creatures'[c].tile = t
      /\ \A d \in DOMAIN creatures : creatures'[d].active = creatures[d].active
      /\ \A d \in DOMAIN creatures : d # c => creatures'[d] = creatures[d]
  BY <1>1 DEF CreatureMoves, Creature
<1>3. Active(creatures') = Active(creatures) /\ Online' = Online
  BY <1>2 DEF Active, Online
<1>4. CASE t = creatures[c].tile
  <2>1. \A d \in Active(creatures) : creatures'[d].tile = creatures[d].tile
    BY <1>2, <1>4 DEF Active
  <2> QED
    BY <1>3, <2>1, NobodyLeaves
<1>5. CASE Free(t)
  <2>1. GroundBodies' = GroundBodies /\ c \in GroundBodies
    BY <1>3 DEF GroundBodies
  <2>2. \A d \in Active(creatures) : d # c => creatures'[d].tile = creatures[d].tile
    BY <1>2 DEF Active
  <2>3. Where'[c] = t /\ \A a \in GroundBodies : a # c => Where'[a] = Where[a]
    BY <1>2, <1>3, <2>2, Placed, PlacedNext DEF BodiesPlaced, GroundBodies
  <2> QED
    BY <1>5, <2>1, <2>3, BodyMoves
<1> QED
  BY <1>4, <1>5

(* Nobody changes place: time passes, targets are chosen, blows are struck. *)
LEMMA PlacesKept ==
  ASSUME Sound, Sound', UNCHANGED players, DOMAIN creatures' = DOMAIN creatures,
         \A c \in DOMAIN creatures : /\ creatures'[c].active = creatures[c].active
                                     /\ creatures'[c].tile = creatures[c].tile
  PROVE  T!Next
<1>1. Active(creatures') = Active(creatures) /\ Online' = Online
      /\ \A c \in Active(creatures) : creatures'[c].tile = creatures[c].tile
  BY DEF Active, Online
<1> QED
  BY <1>1, NobodyLeaves DEF Sound

LEMMA HandledOnTiles ==
  ASSUME Sound, Sound', HandleCreature
  PROVE  T!Next
<1>1. PICK c \in Monsters : \/ Pursue(c) \/ NoAttack(c) \/ Attack(c)
                            \/ Kill(c) \/ FailedKill(c) \/ Wander(c)
  BY DEF HandleCreature
<1>2. c \in Active(creatures) /\ c \in DOMAIN creatures /\ creatures[c] \in Creature
  BY <1>1, HandlesActive DEF Pursue, NoAttack, Attack, Kill, FailedKill, Hits, Wander
<1>3. WorldSound /\ WorldSound' /\ UNCHANGED players
  BY <1>1 DEF Sound, Pursue, NoAttack, Attack, Kill, FailedKill, Wander, world
<1> DEFINE InPlace ==
             \/ creatures' = creatures
             \/ \E g : creatures' = [creatures EXCEPT ![c].target = g]
             \/ \E n : creatures' = [creatures EXCEPT ![c].wait = n]
             \/ \E n, g : creatures' = [creatures EXCEPT ![c].wait = n, ![c].target = g]
           Steps == \E t, g : (t = creatures[c].tile \/ Free(t)) /\ CreatureMoves(c, g, t)
<1>4. CASE InPlace
  <2>1. DOMAIN creatures' = DOMAIN creatures
        /\ \A d \in DOMAIN creatures : d # c => creatures'[d] = creatures[d]
    BY <1>4
  <2>2. creatures'[c].active = creatures[c].active /\ creatures'[c].tile = creatures[c].tile
    <3>1. CASE creatures' = creatures
      BY <3>1
    <3>2. CASE \E g : creatures' = [creatures EXCEPT ![c].target = g]
      BY <1>2, <3>2 DEF Creature
    <3>3. CASE \E n : creatures' = [creatures EXCEPT ![c].wait = n]
      BY <1>2, <3>3 DEF Creature
    <3>4. CASE \E n, g : creatures' = [creatures EXCEPT ![c].wait = n, ![c].target = g]
      BY <1>2, <3>4 DEF Creature
    <3> QED
      BY <1>4, <3>1, <3>2, <3>3, <3>4
  <2> QED
    BY <1>3, <2>1, <2>2, PlacesKept
<1>5. CASE Steps
  BY <1>2, <1>3, <1>5, CreatureSteps
<1>6. Pursue(c) => InPlace \/ Steps
  BY PursuitFree DEF Pursue
<1>7. Wander(c) => InPlace \/ Steps
  BY DEF Wander
<1>8. NoAttack(c) \/ Attack(c) \/ Kill(c) \/ FailedKill(c) => InPlace
  BY DEF NoAttack, Attack, Kill, FailedKill, world
<1> QED
  BY <1>1, <1>4, <1>5, <1>6, <1>7, <1>8

LEMMA FollowedOnTiles ==
  ASSUME Sound, Sound', NEW p, FollowOn(p)
  PROVE  T!Next
<1>1. p \in Online /\ UNCHANGED creatures
  BY HandlingListed DEF Sound, Passes, Listed, FollowOn
<1>2. \/ UNCHANGED players
      \/ \E t : Free(t) /\ players' = [players EXCEPT ![p] = t]
  BY DirectFree DEF FollowOn
<1>3. CASE UNCHANGED players
  BY <1>1, <1>3, PlacesKept
<1>4. CASE \E t : Free(t) /\ players' = [players EXCEPT ![p] = t]
  BY <1>1, <1>4, PlayerSteps DEF Sound
<1> QED
  BY <1>2, <1>3, <1>4

LEMMA ReturnedOnTiles ==
  ASSUME Sound, Sound', ReactivateDue
  PROVE  T!Next
<1>1. Active(creatures) \subseteq Active(creatures') /\ UNCHANGED players
  BY ReactivateKeeps DEF Sound, ReactivateDue
<1>2. \A c \in Active(creatures) : creatures'[c] = creatures[c]
  BY DEF ReactivateDue, DueNow, Active
<1> QED
  BY <1>1, <1>2, NobodyLeaves DEF Sound, Online

LEMMA HeartbeatOnTiles ==
  ASSUME Sound, Sound', HeartbeatStep
  PROVE  T!Next
<1>1. CASE AdvanceTicks \/ AcquireTargets
  <2>1. /\ UNCHANGED players /\ DOMAIN creatures' = DOMAIN creatures
    BY <1>1 DEF AdvanceTicks, AcquireTargets
  <2>2. \A c \in DOMAIN creatures :
          \/ creatures'[c] = creatures[c]
          \/ \E w, d : creatures'[c] = [creatures[c] EXCEPT !.wait = w, !.due = d]
          \/ \E g : creatures'[c] = [creatures[c] EXCEPT !.target = g]
    <3>1. CASE AdvanceTicks
      <4>1. PICK elapsed :
              creatures' = [c \in DOMAIN creatures |->
                [creatures[c] EXCEPT !.wait = After(@, elapsed),
                                     !.due = IF @ = Never THEN Never ELSE After(@, elapsed)]]
        BY <3>1 DEF AdvanceTicks
      <4>2. \A c \in DOMAIN creatures :
              creatures'[c] = [creatures[c] EXCEPT
                !.wait = After(creatures[c].wait, elapsed),
                !.due = IF creatures[c].due = Never THEN Never
                        ELSE After(creatures[c].due, elapsed)]
        BY <4>1, CreatureFields DEF Sound, WorldSound, Creature
      <4> QED
        BY <4>2
    <3>2. CASE AcquireTargets
      BY <3>2 DEF AcquireTargets
    <3> QED
      BY <1>1, <3>1, <3>2
  <2>3. \A c \in DOMAIN creatures : /\ creatures'[c].active = creatures[c].active
                                    /\ creatures'[c].tile = creatures[c].tile
    BY <2>2, CreatureFields DEF Sound, WorldSound, Creature
  <2> QED
    BY <2>1, <2>3, PlacesKept
<1>2. CASE ReactivateDue
  BY <1>2, ReturnedOnTiles
<1>3. CASE \/ SkipPass \/ SkipWander \/ AutosaveNotDue \/ AutosaveDue
           \/ TakeSnapshot(Heartbeat) \/ StoreRows(Heartbeat)
  <2>1. UNCHANGED <<creatures, players>>
    BY <1>3 DEF SkipPass, SkipWander, AutosaveNotDue, AutosaveDue, TakeSnapshot,
                StoreRows, world
  <2> QED
    BY <2>1, PlacesKept
<1>4. CASE HandleCreature
  BY <1>4, HandledOnTiles
<1>5. CASE \E p \in Players : FollowOn(p)
  BY <1>5, FollowedOnTiles
<1> QED
  BY <1>1, <1>2, <1>3, <1>4, <1>5 DEF HeartbeatStep

LEMMA StruckOnTiles ==
  ASSUME Sound, Sound', NEW p, Strike(p)
  PROVE  T!Next
<1> DEFINE c == hunts[p]
<1>1. /\ c \in Active(creatures) /\ creatures[c].health > 0
      /\ UNCHANGED <<players, dead, follows>> /\ p \in Online
      /\ struck' = struck \cup {p} /\ WorldSound /\ WorldSound'
  BY DEF Strike, Ready, Sound
<1>2. struck' \subseteq Online
  BY <1>1 DEF WorldSound, WorldType, Online
<1>3. CASE creatures[c].health = 1
  <2>1. /\ creatures' = Deactivated(c) /\ hunts' = Unhunted(c)
        /\ occupied' = Occupancy(creatures')
    BY <1>3 DEF Strike
  <2>2. /\ Active(creatures') = Active(creatures) \ {c}
        /\ \A d \in DOMAIN creatures : d # c => creatures'[d] = creatures[d]
    BY <1>1, <1>2, <2>1, DefeatKeeps
  <2>3. \A d \in Active(creatures') : creatures'[d].tile = creatures[d].tile
    BY <2>2 DEF Active
  <2> QED
    BY <1>1, <2>2, <2>3, NobodyComes DEF Online
<1>4. CASE creatures[c].health # 1
  <2>1. creatures' = [creatures EXCEPT ![c].health = @ - 1]
    BY <1>4 DEF Strike
  <2>2. c \in DOMAIN creatures /\ creatures[c] \in Creature
    BY <1>1, CreatureFields DEF Active, WorldSound
  <2>3. DOMAIN creatures' = DOMAIN creatures
        /\ \A d \in DOMAIN creatures : /\ creatures'[d].active = creatures[d].active
                                       /\ creatures'[d].tile = creatures[d].tile
    BY <2>1, <2>2 DEF Creature
  <2> QED
    BY <1>1, <2>3, PlacesKept
<1> QED
  BY <1>3, <1>4

LEMMA SessionOnTiles ==
  ASSUME Sound, Sound', SessionStep
  PROVE  T!Next
<1>1. PICK p \in Players :
        \/ \E t \in Ground : Enter(p, t) \/ Walk(p, t)
        \/ \E c \in Monsters : Hunt(p, c)
        \/ \E q \in Players : Follow(p, q)
        \/ Leave(p) \/ Desist(p) \/ Strike(p)
        \/ TakeSnapshot(p) \/ StoreRows(p)
  BY DEF SessionStep
<1>2. ASSUME NEW t \in Ground, Enter(p, t)
      PROVE  T!Next
  <2>1. p \notin Online /\ players' = With(players, p, t) /\ UNCHANGED creatures
    BY <1>2 DEF Enter
  <2>2. Online' = Online \cup {p} /\ \A q \in Online : players'[q] = players[q]
    BY <2>1 DEF With, Online
  <2> QED
    BY <2>1, <2>2, NobodyLeaves DEF Sound
<1>3. ASSUME NEW t \in Ground, Walk(p, t)
      PROVE  T!Next
  BY <1>3, PlayerSteps DEF Walk, Ready, MayStand, Sound
<1>4. ASSUME NEW x, \/ Hunt(p, x) \/ Follow(p, x) \/ Desist(p)
                    \/ TakeSnapshot(p) \/ StoreRows(p)
      PROVE  T!Next
  <2>1. UNCHANGED <<creatures, players>>
    BY <1>4 DEF Hunt, Follow, Desist, TakeSnapshot, StoreRows, world
  <2> QED
    BY <2>1, PlacesKept
<1>5. CASE Leave(p)
  <2>1. players' = Without(players, p)
    BY <1>5 DEF Leave
  <2>2. Online' = Online \ {p} /\ \A q \in Online' : players'[q] = players[q]
    BY <2>1 DEF Without, Online
  <2>3. Active(creatures') = Active(creatures)
        /\ \A c \in Active(creatures') : creatures'[c].tile = creatures[c].tile
    BY <1>5, LeaveKeeps DEF Sound, Active
  <2> QED
    BY <2>2, <2>3, NobodyComes DEF Sound
<1>6. CASE Strike(p)
  BY <1>6, StruckOnTiles
<1> QED
  BY <1>1, <1>2, <1>3, <1>4, <1>5, <1>6

(* Every step of the system is a step of the abstract ground, or of nobody. *)
LEMMA StepOnTiles ==
  ASSUME Sound, Sound', [Next]_vars
  PROVE  [T!Next]_Where
<1>1. CASE HeartbeatStep
  BY <1>1, HeartbeatOnTiles
<1>2. CASE SessionStep
  BY <1>2, SessionOnTiles
<1>3. CASE \E c \in Summons, t \in Ground : Summon(c, t)
  <2>1. PICK c \in Summons, t \in Ground : Summon(c, t)
    BY <1>3
  <2>2. /\ Active(creatures') = Active(creatures) \cup {c}
        /\ \A d \in DOMAIN creatures : creatures'[d] = creatures[d]
        /\ UNCHANGED players
    BY <2>1, SummonKeeps DEF Sound, Summon
  <2>3. \A d \in Active(creatures) : creatures'[d].tile = creatures[d].tile
    BY <2>2 DEF Active
  <2> QED
    BY <2>2, <2>3, NobodyLeaves DEF Sound, Online
<1>4. CASE Crash \/ Shutdown
  <2>1. Online' = {} /\ Active(creatures') = {}
    BY <1>4 DEF Crash, Shutdown, NothingRuns, Online, Active
  <2> QED
    BY <2>1, NobodyComes DEF Sound
<1>5. CASE Start
  <2>1. Online = {} /\ Active(creatures) = {}
    BY <1>5 DEF Start, Sound, Installation, Online, Active
  <2> QED
    BY <2>1, NobodyLeaves DEF Sound
<1>6. CASE RefuseToStart \/ UNCHANGED vars
  <2>1. UNCHANGED <<creatures, players>>
    BY <1>6 DEF RefuseToStart, vars, world
  <2> QED
    BY <2>1, PlacesKept
<1> QED
  BY <1>1, <1>2, <1>3, <1>4, <1>5, <1>6 DEF Next

(* The heartbeat's passes, walks, logins, deaths, summons and restarts       *)
(* implement the abstract ground: a body moves alone and to a free tile, and *)
(* bodies come and go on free tiles, whatever thread holds the world mutex.  *)
THEOREM CreaturesImplementTiles == Spec => ImplementsTiles
<1>1. Sound => T!Init
  BY WhereTyped DEF Sound, T!Init
<1>2. Sound /\ Sound' /\ [Next]_vars => [T!Next]_Where
  BY StepOnTiles
<1>3. Spec => T!Spec
  BY <1>1, <1>2, AlwaysSound, PTL DEF Spec, T!Spec
<1> QED
  BY <1>3 DEF ImplementsTiles

=============================================================================
